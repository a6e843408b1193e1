SPECIFICATION Spec
CONSTANTS
  Moves = {"quiet", "other", "mate"}
  Legal <- MCLegal
  Result <- MCResult
  TimeControl = 2
  MaxPlies = 3
INVARIANTS
  TypeOK
  BoardsInStep
  NoMoveRefused
  BoardResultPrevails
  NoInventedEnding
  OneOfferOutstanding
  ClocksRunTogether
PROPERTIES
  AgreeAtRest
  ResultFinal
  AgreedSpec
CHECK_DEADLOCK FALSE
