SPECIFICATION Spec
CONSTANTS
  Evidence = {"e1", "e2"}
  Unknown = "e3"
  Urls = {"page"}
  NoUrl = "none"
  MaxCrashes = 1
  Verdicts <- MCVerdicts
  Findings <- MCFindings
  ResearchTraces <- MCResearchTraces
  VerifierTraces <- MCVerifierTraces
INVARIANTS
  SilenceIsNoApproval
  WebClaimsAreRead
  OverallAgrees
  GapsAgree
CHECK_DEADLOCK FALSE
