\* Two workers, every failure; the file has what is INFO and above.
CONSTANTS
  Ctrl = Ctrl
  Workers = {w1, w2}
  NoFile = NoFile
  ConLevel = 400
  FileLevel = 200
  CbMessages <- CallbackMessages
  MaxCb <- CallbacksOf
  MaxSize = 3
  FaultsOf <- FaultsOfEach
  w1 = w1
  w2 = w2
SPECIFICATION Spec
INVARIANTS
  TypeOK
  OwnLines
  InOrder
  NothingLost
  RepeatedByHeirs
  ReadableSomewhere
PROPERTIES
  NoLateMessage
CHECK_DEADLOCK FALSE
