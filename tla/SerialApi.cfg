CONSTANTS
    Users = {u1, u2, u3}
    Requests = {r1}
    Workers = {w1}
    Jobs = {j1, j2}
    Admin = Admin
    NoTx = NoTx
    MaxCapacity = 2
    MaxClock = 0
    Env = {"lower"}
    MaxRetries = 2
    JobAttempts = 2
    MaxStalled = 1
SPECIFICATION FairSpec
INVARIANTS
    FreeSeatsAreOffered
    FitsLargestCapacity
PROPERTIES
    WaitersAreServed
