SPECIFICATION FairSpec
CONSTANTS
  MaxSubAgents = 1
  MaxFollowUps = 1
  MaxGapSeeds = 0
  MaxResumes = 3
  MaxCrashes = 3
  Tearable = {"board", "report", "traces", "verification", "synthesis"}
INVARIANTS
  OrchestrationBounds
  FollowUpsAreVerified
PROPERTIES
  ProcessEnds
CHECK_DEADLOCK FALSE
