SPECIFICATION FairSpec
CONSTANTS
  Requests <- Manual
  Sources = {"engine"}
  Target <- Weekend
  Window = 2
  MaxChecks = 2
  MaxTime = 7
  MaxFailures = 1
  MaxCrashes = 1
  MaxToggles = 1
INVARIANTS
  ScheduledOnce
  OneJobAtATime
PROPERTIES
  JobsEnd
  MorningsAreSettled
CHECK_DEADLOCK FALSE
