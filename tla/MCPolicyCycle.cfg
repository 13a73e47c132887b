SPECIFICATION FairSpec
CONSTANTS
  r = r
  i = i
  s = s
  RsiCycles = {r}
  Improvers = {i}
  Sessions = {s}
  Patches = {"p", "q"}
  Nothing = Nothing
  MaxFailures = 1
  MaxCrashes = 1
INVARIANTS
  ActiveWasApproved
  OutcomesAreTruthful
  SealedExperimentsReplay
PROPERTIES
  ImplementsLineage
  CyclesEnd
CHECK_DEADLOCK FALSE
