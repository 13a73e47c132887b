SPECIFICATION FairSpec
CONSTANTS
  Listing <- MCListing
  InPlace = {"board", "answer"}
  Texts = {"answer"}
  MaxWrites = 4
  MaxFailures = 1
  MaxKills = 1
INVARIANTS
  IndexIsAMoment
  ReadyIsCurrent
PROPERTIES
  Converges
CHECK_DEADLOCK FALSE
