SPECIFICATION FairSpec
CONSTANTS
  Rounds = {r1}
  Workers = {w1}
  Kinds = {"announcement", "commit", "reveal"}
  PageLimit = 2
  MaxPages = 3
  MaxPrunedRetries = 1
  RevealWindow = 2
  Grace = 1
  MaxPass = 2
  MaxPerLedger = 2
  MaxEntries = 3
  MaxTip = 5
  MaxFloor = 1
  MaxFailures = 1
  MaxLosses = 0
  None = None
INVARIANTS TypeOK InWindowRecordsCounted
PROPERTIES OutcomesFrozen RecordsArrive SealedAndAnchored
CHECK_DEADLOCK FALSE
