SPECIFICATION Spec
CONSTANTS
  Openings <- MCOpenings
  LocalColor = "WHITE"
  MaxPlies = 2
INVARIANTS
  TypeOK
  LegalMovesAreChess
  RightsFollowHistory
  ResultIsChess
  PromotionAskedWhenNeeded
  NotationUnique
PROPERTIES
  PiecesAccounted
CHECK_DEADLOCK FALSE
