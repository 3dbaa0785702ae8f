\* One start of a pool of two workers, every failure.
CONSTANTS
  Runs = {r1}
  NoRun = NoRun
  ProcNum = 2
  Faults = {"fork", "bind", "wf", "stuck", "kill"}
SPECIFICATION FairSpec
INVARIANTS
  PidIsOwnChild
  StoppedPoolEmpty
PROPERTIES
  StopEnds
CHECK_DEADLOCK FALSE
