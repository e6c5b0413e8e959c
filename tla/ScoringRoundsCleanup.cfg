SPECIFICATION Spec
CONSTANTS
    MaxRounds = 2
    MaxResigns = 0
    MaxAborts = 1
    LostAcks = {}
INVARIANTS
    CleanupLeavesNoAbandoned
