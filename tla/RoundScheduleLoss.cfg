SPECIFICATION Spec
CONSTANTS
    Cadence = 2
    Horizon = 4
    MaxTriggers = 1
    MaxStops = 0
    MaxLosses = 1
INVARIANT RoundsExclusive
