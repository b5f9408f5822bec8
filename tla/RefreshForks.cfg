SPECIFICATION Spec
CONSTANTS
    Slots = {r1, r2}
    MaxTokens = 4
INVARIANT ReplayFindsFamily
