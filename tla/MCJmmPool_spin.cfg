\* The last worker died with its mutex locked.
CONSTANTS
  ProcNum = 2
  SlotNum = 1
  Conns = {c1, c2}
  NoFd = NoFd
  BadFd = BadFd
  Faults = {"kill"}
SPECIFICATION FairSpec
PROPERTIES
  SearchEnds
CHECK_DEADLOCK FALSE
