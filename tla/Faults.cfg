CONSTANTS
    Users = {u1, u2}
    Requests = {r1}
    Workers = {w1}
    Jobs = {j1}
    Admin = Admin
    NoTx = NoTx
    MaxCapacity = 1
    MaxClock = 0
    Env = {"delete", "withdraw", "abort", "redisDown", "crash"}
    MaxRetries = 2
    JobAttempts = 2
    MaxStalled = 1
    MaxMails = 1
SPECIFICATION MailFairSpec
CHECK_DEADLOCK FALSE
INVARIANTS
    EventOutlivesBookings
    MailTypeOK
    OwedIsOnTheWay
    MailsAreNotRepeated
    MailsFindTheirRows
PROPERTIES
    RequestsAreBounded
    JobsAreBounded
    RequestsFinish
    JobsFinish
    PromotedAreMailed
