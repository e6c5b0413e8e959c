SPECIFICATION Spec
CONSTANTS
  Rounds = {r1}
  Workers = {w1, w2}
  Kinds = {"announcement", "commit", "refused"}
  PageLimit = 1
  MaxPages = 2
  MaxPrunedRetries = 1
  RevealWindow = 1
  Grace = 0
  MaxPass = 1
  MaxPerLedger = 2
  MaxEntries = 3
  MaxTip = 3
  MaxFloor = 2
  MaxFailures = 1
  MaxLosses = 1
  None = None
INVARIANTS NothingSkipped WindowsOfFirstAnnouncement
PROPERTIES SealsOnce
SYMMETRY Symmetry
CHECK_DEADLOCK FALSE
