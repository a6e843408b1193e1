SPECIFICATION FairSpec
CONSTANTS
  Moves = {"quiet", "drawn"}
  Legal <- MCLegal
  Result <- MCResult
  TimeControl = 1
  MaxPlies = 2
PROPERTIES
  GameEnds
  EndSpreads
CHECK_DEADLOCK FALSE
