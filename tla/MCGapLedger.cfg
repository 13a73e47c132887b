SPECIFICATION Spec
CONSTANTS
  s1 = s1
  s2 = s2
  k1 = k1
  k2 = k2
  Sessions = {s1, s2}
  Keys = {k1, k2}
  Blocking = {k1}
  Capability <- TwoProfiles
  GapSets <- NoneOrAll
  MaxGapSeeds = 2
  MaxResumes = 1
  MaxReruns = 0
  MaxCrashes = 1
INVARIANTS
  ClaimsAreBacked
  RecurrencesAreRecorded
  OccurrencesAreUnique
  PlantsAreBounded
PROPERTIES
  ClosedByItsPlanter
CHECK_DEADLOCK FALSE
SYMMETRY Symmetry
