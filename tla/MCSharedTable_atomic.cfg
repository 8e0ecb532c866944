CONSTANTS
  Threads = {t1, t2, t3}
  Creator = t1
  Values = {v1, v2}
  NULL = NULL
  N = 3
SPECIFICATION Spec
INVARIANTS WholeListSeen LocksBalanced
PROPERTY Implements
SYMMETRY ValueSymmetry
CHECK_DEADLOCK FALSE
