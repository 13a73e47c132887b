SPECIFICATION Spec
CONSTANTS
  MaxSubAgents = 2
  MaxFollowUps = 1
  MaxGapSeeds = 1
  MaxResumes = 1
  MaxCrashes = 1
  Tearable = {"report", "traces"}
INVARIANTS
  TypeOK
  CompletedHasReport
  ActiveTasksAreOwned
  DispatchedWorkIsVerified
  DeliveredIsSettled
PROPERTIES
  ImplementsLifecycle
CHECK_DEADLOCK FALSE
