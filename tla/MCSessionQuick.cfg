SPECIFICATION Spec
CONSTANTS
  Moves = {"a", "b"}
  Legal <- MCLegal
  MaxPlies = 2
  Crashing = {"CLIENT"}
  MaxCrashes = 1
  MaxBreaks = 0
  MaxUnreadStarts = 0
  QuickPlayer = TRUE
CHECK_DEADLOCK FALSE
INVARIANTS
  InStepAtRest
