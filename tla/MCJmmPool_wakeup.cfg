\* A worker sleeps on the mutex the control process unlocks.
CONSTANTS
  ProcNum = 1
  SlotNum = 1
  Conns = {c1, c2}
  NoFd = NoFd
  BadFd = BadFd
  Faults = {}
SPECIFICATION FairSpec
PROPERTIES
  WaiterGetsMutex
CHECK_DEADLOCK FALSE
