SPECIFICATION Spec
CONSTANTS
  Moves = {"quiet", "other"}
  Legal <- MCLegal
  Result <- MCResult
  TimeControl = 1
  MaxPlies = 2
INVARIANT TimeoutIsTheServers
CHECK_DEADLOCK FALSE
