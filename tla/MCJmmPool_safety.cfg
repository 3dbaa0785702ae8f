\* Two workers of two slots, three connections, every failure.
CONSTANTS
  ProcNum = 2
  SlotNum = 2
  Conns = {c1, c2, c3}
  NoFd = NoFd
  BadFd = BadFd
  Faults = {"init", "fatal", "kill", "send", "recv"}
SPECIFICATION Spec
SYMMETRY ConnSymmetry
INVARIANTS
  TypeOK
  MutualExclusion
  NeverGoHere
  TablesAgree
  LastWorkerInsisted
PROPERTIES
  SlotNotOverwritten
  ImplementsDispatch
CHECK_DEADLOCK FALSE
