SPECIFICATION ExperimentSpec
CONSTANTS
  Sessions = {"s1", "s2"}
  Evidence = {"e"}
  Says <- MCSays
  Around <- MCAround
  Worlds = {"target", "guard"}
  Guards = {"guard"}
  Covered <- MCCovered
  Covers <- MCCovers
  MaxTargets = 2
  MaxVerifications = 2
  MaxRevisions = 1
  Facts = {"f"}
  Disputed = {"target"}
  Withholding = {"guard"}
  MaxFindings = 2
INVARIANTS
  TargetsAreWarranted
  PromotionsAreEarned
CHECK_DEADLOCK FALSE
VIEW MCView
