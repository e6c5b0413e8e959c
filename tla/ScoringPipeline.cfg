SPECIFICATION Spec
CONSTANTS
  Unknown = Unknown
  Cutoff = 40
  MaxSize = 2
  MinGap = 3
  Keys = {1, 2, 3, 4}
  Fickle = {4}
  Snapshots <- MCSnapshots
  Verdicts <- MCVerdicts
  Overrides <- MCOverrides
  MaxRounds = 3
  MaxVersion = 2
INVARIANTS TypeOK SeatsByMerit ChurnIsEarned OnlyConsensusSeats FoundStaysSignable
PROPERTIES ManifestsNeverRollBack
CHECK_DEADLOCK FALSE
