\* Two slots and no failure: a worker waits for itself.
CONSTANTS
  ProcNum = 1
  SlotNum = 2
  Conns = {c1, c2}
  NoFd = NoFd
  BadFd = BadFd
  Faults = {}
SPECIFICATION FairSpec
PROPERTIES
  ChildUnlocks
CHECK_DEADLOCK FALSE
