CONSTANTS
  t1 = t1  t2 = t2  t3 = t3
  c1 = c1  c2 = c2
  e1 = e1  e2 = e2
  NULL = NULL
  Threads <- Threads3
  Channels <- OneChannel
  Elems = {e1, e2}
  CaseLists <- PickOne
  Accepts <- AllAccepted
SPECIFICATION Spec
INVARIANTS ListOK RefsExact NoLostWakeup
PROPERTY Implements
CHECK_DEADLOCK FALSE
SYMMETRY ThreadSymmetry
