SPECIFICATION FairSpec
CONSTANTS
  Moves = {"a"}
  Legal <- MCLegal
  MaxPlies = 1
  Crashing = {}
  MaxCrashes = 0
  MaxBreaks = 0
  MaxUnreadStarts = 1
  QuickPlayer = FALSE
CHECK_DEADLOCK FALSE
PROPERTIES
  StartCompletes
