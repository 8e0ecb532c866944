CONSTANTS
  c1 = c1  c2 = c2  w1 = w1  w2 = w2
  Callers = {c1, c2}
  Workers = {w1, w2}
  NULL = NULL
  Orderly = {w1}
  Owner <- OneOwner
SPECIFICATION FairSpec
INVARIANTS FlagsAgree ResultsThere NativeOnce AnchorOnce NoLeak JoinWaits
PROPERTY JoinAnswers
CHECK_DEADLOCK FALSE
