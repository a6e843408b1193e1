SPECIFICATION Spec
CONSTANTS
  ann = ann
  bob = bob
  cid = cid
  None = None
  Program = {ann, bob, cid}
  MayChallenge <- ComingAndGoing
  KnownAtFirst <- NoPairs
  MayFind <- ComingAndGoing
  MayRefuse <- NoPairs
  MaxSlots = 2
  MaxConns = 2
  MaxUnreadStarts = 2
  QuietRemovals = FALSE
  PatientPlayers = TRUE
INVARIANTS
  NoUnaskedChallenge
CHECK_DEADLOCK FALSE
