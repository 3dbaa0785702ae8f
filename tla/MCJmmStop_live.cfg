\* PROC_SVR_NUM=1, service failures and a signal to stop at any moment.
CONSTANTS
  ProcNum = 2
  SlotNum = 1
  Conns = {c1, c2}
  NoFd = NoFd
  BadFd = BadFd
  Faults = {"fatal"}
SPECIFICATION StopSpec
INVARIANTS
  NoSelfDeadlock
  OnlyStrandedLeft
PROPERTIES
  ArrivalsSettle
  DeathsNoticed
  StopCompletes
CHECK_DEADLOCK FALSE
