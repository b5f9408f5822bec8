SPECIFICATION FairSpec
CONSTANTS
    Slots = {r1, r2}
    MaxWrites = 2
    Env = {"flap", "dbFails"}
INVARIANTS
    TypeOK
    OnlyRacesLeaveStale
PROPERTIES
    CreatedEventsAreListed
    EntriesConverge
