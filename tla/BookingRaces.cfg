CONSTANTS
    Users = {u1, u2, u3}
    Requests = {r1, r2}
    Workers = {w1}
    Jobs = {j1}
    Admin = Admin
    NoTx = NoTx
    MaxCapacity = 2
    MaxClock = 1
    Env = {"raise", "delete", "withdraw", "crash"}
    MaxRetries = 1
    JobAttempts = 2
    MaxStalled = 1
SPECIFICATION Spec
SYMMETRY Symmetry
CHECK_DEADLOCK FALSE
INVARIANTS
    NoOversell
    NoLostUpdate
    SeatInv
    NobodyIsStuck
PROPERTIES
    AllocatesSeats
    PromotesOldest
