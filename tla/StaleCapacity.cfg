CONSTANTS
    Users = {u1, u2}
    Requests = {r1, r2}
    Workers = {w1}
    Jobs = {j1}
    Admin = Admin
    NoTx = NoTx
    MaxCapacity = 2
    MaxClock = 0
    Env = {"lower"}
    MaxRetries = 2
    JobAttempts = 2
    MaxStalled = 1
SPECIFICATION Spec
PROPERTY CapacityCheckedInTransaction
