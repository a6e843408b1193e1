SPECIFICATION Spec
CONSTANTS
  Moves = {"a", "b"}
  Legal <- MCLegal
  MaxPlies = 2
  Crashing = {"SERVER", "CLIENT"}
  MaxCrashes = 2
  MaxBreaks = 1
  MaxUnreadStarts = 1
  QuickPlayer = FALSE
CHECK_DEADLOCK FALSE
INVARIANTS
  TypeOK
  ColoursKept
  NothingShownIsLost
  InStepAtRest
PROPERTIES
  RecordGrows
  NeverRewound
