SPECIFICATION Spec
CONSTANTS
  CommitWindow = 2
  Delay = 1
  Lookahead = 3
  MinFuture = 2
  Skew = 1
  MaxTime = 10
  MaxCrashes = 2
  None = None
INVARIANTS TypeOK HeldUntilClose RecordedBundleIsServed
PROPERTIES ActivatesInUnison
CHECK_DEADLOCK FALSE
