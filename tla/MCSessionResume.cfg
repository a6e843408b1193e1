SPECIFICATION FairSpec
CONSTANTS
  Moves = {"a", "b"}
  Legal <- MCLegal
  MaxPlies = 2
  Crashing = {"CLIENT"}
  MaxCrashes = 2
  MaxBreaks = 0
  MaxUnreadStarts = 0
  QuickPlayer = FALSE
CHECK_DEADLOCK FALSE
PROPERTIES
  ClientResumes
