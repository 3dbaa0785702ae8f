\* A connection of three bytes and one of one byte, chunks of two bytes.
CONSTANTS
  Conns = {c1, c2}
  NoConn = NoConn
  MaxRecv = 2
  Talker = c1
  Most = 3
  MaxSent <- PeerBytes
SPECIFICATION FairSpec
INVARIANTS
  TypeOK
  NothingLeftBehind
  EofAfterService
  RepliesInOrder
PROPERTIES
  FailureIsLast
  ImplementsStream
  EveryByteServed
  EveryReplySent
CHECK_DEADLOCK FALSE
