SPECIFICATION Spec
CONSTANTS
    Cadence = 2
    Horizon = 6
    MaxTriggers = 2
    MaxStops = 2
    MaxLosses = 1
INVARIANTS
    TypeOK
    CatchUpOnce
    NoRoundStorm
    SlotSkippedOnlyByKill
