SPECIFICATION Spec
CONSTANTS
    Slots = {r1, r2}
    MaxWrites = 2
    Env = {}
INVARIANT CachedValueIsCorrect
