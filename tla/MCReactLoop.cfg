SPECIFICATION FairSpec
CONSTANTS
  Tools = {"search", "read"}
  Others = {"shell"}
  MaxTurns = 4
  OverallDeadline = 9
  LlmTimeout = 4
  ToolTimeout = 2
  Reserve = 3
  Lag = 1
  MaxCalls = 2
INVARIANTS
  DeadlineIsKept
  FinalAnswerHasTime
  EvidenceGetsAnAnswer
PROPERTIES
  LoopEnds
CHECK_DEADLOCK FALSE
