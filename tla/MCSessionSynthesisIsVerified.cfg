SPECIFICATION Spec
CONSTANTS
  MaxSubAgents = 1
  MaxFollowUps = 0
  MaxGapSeeds = 1
  MaxResumes = 2
  MaxCrashes = 1
  Tearable = {}
INVARIANT SynthesisIsVerified
CHECK_DEADLOCK FALSE
