SPECIFICATION CompareSpec
CONSTANTS
  Calls = {"query"}
  Claims = {"claim"}
  Observed <- MCObserved
  Readings <- MCReadings
  MaxCalls = 2
  MaxRuns = 2
  MaxVerifications = 2
  Models = {"m"}
  MaxTurns = 2
  MaxAttempts = 6
  Repeats = 1
INVARIANTS
  ImprovementsAreEarned
CHECK_DEADLOCK FALSE
VIEW MCView
