SPECIFICATION Spec
CONSTANTS
  Answers <- MCAnswers
  Levels <- MCLevels
  AcceptanceLevels <- MCAcceptanceLevels
  Hash <- MCHash
  Memos <- MCMemos
  Frozen = 0
  Emission = 1
  CommitWindow = 1
  RevealGap = 0
  RevealWindow = 1
  MaxMemos = 3
  MaxTime = 3
  None = None
INVARIANTS TypeOK AnswerFixedBeforeReveals HonestIsAccepted
PROPERTIES AcceptedIsFinal ClosedWindowIsFinal
CHECK_DEADLOCK FALSE
