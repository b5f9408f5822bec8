CONSTANTS
    Users = {u1, u2}
    Requests = {r1, r2}
    Workers = {w1}
    Jobs = {j1, j2}
    Admin = Admin
    NoTx = NoTx
    MaxCapacity = 1
    MaxClock = 0
    Env = {}
    MaxRetries = 2
    JobAttempts = 2
    MaxStalled = 1
SPECIFICATION FairSpec
PROPERTY WaitersAreServed
