SPECIFICATION Spec
CONSTANTS
  ann = ann
  bob = bob
  cid = cid
  None = None
  Program = {ann, bob, cid}
  MayChallenge <- MCMayChallenge
  KnownAtFirst <- MCKnownAtFirst
  MayFind <- MCMayFind
  MayRefuse <- MCMayRefuse
  MaxSlots = 2
  MaxConns = 2
  MaxUnreadStarts = 2
  QuietRemovals = TRUE
  PatientPlayers = TRUE
INVARIANTS
  TypeOK
  OneServer
  ConsentedGame
  NoChallengeLeftOpen
  NoUnaskedChallenge
  StartUnderWay
CHECK_DEADLOCK FALSE
