CONSTANTS
  t1 = t1  t2 = t2  t3 = t3
  c1 = c1  c2 = c2
  e1 = e1  e2 = e2
  NULL = NULL
  Threads <- Threads2
  Channels <- TwoChannels
  Elems = {e1}
  CaseLists <- PickTwo
  Accepts <- TypedAccepts1
SPECIFICATION FairSpec
INVARIANTS TypeOK NoMissedPick NoDanglingSelector
PROPERTIES SendReturns ClosedReceiverReturns ReadyPickReturns
CHECK_DEADLOCK FALSE
