\* Three starts of a pool of one worker, one after the other or together,
\* every failure.
CONSTANTS
  Runs = {r1, r2, r3}
  NoRun = NoRun
  ProcNum = 1
  Faults = {"fork", "bind", "wf", "stuck", "kill"}
SPECIFICATION Spec
SYMMETRY RunSymmetry
INVARIANTS
  TypeOK
  PoolOwnsMemory
  OwnMemory
CHECK_DEADLOCK FALSE
