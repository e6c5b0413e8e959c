SPECIFICATION FairSpec
CONSTANTS
    Cadence = 2
    Horizon = 5
    MaxTriggers = 2
    MaxStops = 2
    MaxLosses = 0
INVARIANTS
    RoundsExclusive
PROPERTIES
    ReanchorIsHonoured
    DueSlotIsConsumed
    LockIsFreed
