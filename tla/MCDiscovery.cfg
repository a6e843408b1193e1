SPECIFICATION FairSpec
CONSTANTS
  a = a
  b = b
  c = c
  None = None
  Program = {a, b, c}
  Announcement <- MCAnnouncement
  MaxQueue = 1
  MaxRemovals = 2
  MaxListed = 2
  MaxChanges = 5
INVARIANTS
  TypeOK
  NobodyVanishes
  GhostsExplained
PROPERTIES
  QueueMoves
  AnswerKept
CHECK_DEADLOCK FALSE
