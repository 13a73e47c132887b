SPECIFICATION Spec
CONSTANTS
  AllowedTools = {"read_url"}
  Others = {"shell"}
  MaxTurns = 3
  MaxRequests = 10
  MaxTokens = 14
  MaxToolCalls = 4
  MaxRepairs = 1
  Reservations = {1, 2}
  MaxCalls = 2
  MaxFailures = 2
INVARIANTS
  CompleteRunsAreRecorded
  CompleteRunsAreVerified
  NoTaskIsLeftActive
CHECK_DEADLOCK FALSE
