SPECIFICATION FairSpec
CONSTANTS
    Ids = {a}
    Slots = {r1, r2}
    Max = 1
    WindowMs = 4
    Second = 2
    MaxTime = 5
    MaxAsked = 3
    Env = {"outage", "crash"}
INVARIANTS
    TypeOK
    NeverMoreThanMax
    RefusalIsDeserved
    RetryAfterLeadsOut
    CountersExpire
PROPERTIES
    LimitedRequestsFinish
    ServerListens
