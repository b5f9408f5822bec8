SPECIFICATION FairSpec
CONSTANTS
    Slots = {r1, r2}
    MaxTokens = 4
INVARIANTS
    RefreshInv
PROPERTIES
    SessionsAreKept
    WalksMoveForward
    OnlyDescendantsAreRevoked
    RefreshesFinish
