CONSTANTS
  Threads = {t1, t2}
  Creator = t1
  Values = {v1, v2}
  NULL = NULL
  N = 3
SPECIFICATION Spec
INVARIANT NoLockCycle
CHECK_DEADLOCK FALSE
