\* No failure: a worker that is slow to start outlives its pool.
CONSTANTS
  Runs = {r1}
  NoRun = NoRun
  ProcNum = 1
  Faults = {}
SPECIFICATION Spec
INVARIANTS
  ChildrenEnded
CHECK_DEADLOCK FALSE
