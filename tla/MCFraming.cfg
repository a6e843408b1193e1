SPECIFICATION FairSpec
CONSTANTS
  Garbled = Garbled
  HeaderSize = 2
  MaxPayload = 2
  SocketBuffer = 4
  MaxPackets = 4
  MaxConnections = 2
INVARIANTS
  TypeOK
  LastWordsHeard
PROPERTIES
  KeepsPackets
CHECK_DEADLOCK FALSE
