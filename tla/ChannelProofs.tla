---------------------------- MODULE ChannelProofs ----------------------------
(***************************************************************************)
(* Theorems about Channel, for any number of threads, channels, values and *)
(* case lists.                                                             *)
(***************************************************************************)
EXTENDS Channel, TLAPS, FiniteSetTheorems, SequenceTheorems

USE ChannelAssumption

-----------------------------------------------------------------------------
(* Type correctness.                                                       *)

\* A thread inside a channel operation names a channel, a sender an element.
ArgOK == \A t \in Threads :
  /\ pc[t] \in {"send", "notify", "peek", "recv", "recv_wait"} => arg[t] \in Channels
  /\ pc[t] = "send" => elem[t] \in Elems

\* The sleepers of a condition variable are the threads waiting on it.
SleepOK == \A c \in Channels : \A t \in condq[c] : pc[t] = "recv_wait" /\ arg[t] = c

TInv == TypeOK /\ ArgOK /\ SleepOK

LEMMA CaseIsChannel ==
  ASSUME TypeOK, NEW t \in Threads, MoreCases(t)
  PROVE  Case(t) \in Channels
BY DEF TypeOK, ThreadType, MoreCases, Case

LEMMA EnqueueType ==
  ASSUME ChanType, NEW c \in Channels, NEW e \in Elems, Enqueue(c, e),
         closed' \in [Channels -> BOOLEAN], refs' \subseteq Elems, UNCHANGED got
  PROVE  ChanType'
<1>1. head' \in [Channels -> Elems \cup {NULL}] /\ tail' \in [Channels -> Elems \cup {NULL}]
  <2>1. /\ head' = head \/ head' = [head EXCEPT ![c] = e]
        /\ tail' = [tail EXCEPT ![c] = e]
    BY DEF Enqueue
  <2>2. head \in [Channels -> Elems \cup {NULL}] /\ tail \in [Channels -> Elems \cup {NULL}]
    BY DEF ChanType
  <2>3. QED
    BY ONLY <2>1, <2>2, e \in Elems
<1>2. next' \in [Elems -> Elems \cup {NULL}]
  BY DEF ChanType, Enqueue
<1>3. sent' \in [Channels -> Seq(Elems)]
  BY DEF ChanType, Enqueue
<1>4. QED
  BY <1>1, <1>2, <1>3 DEF ChanType

LEMMA DequeueType ==
  ASSUME ChanType, NEW c \in Channels, head[c] # NULL, Dequeue(c)
  PROVE  ChanType' /\ head[c] \in Elems
<1>1. head[c] \in Elems
  BY DEF ChanType
<1>2. head' \in [Channels -> Elems \cup {NULL}] /\ tail' \in [Channels -> Elems \cup {NULL}]
  BY <1>1 DEF ChanType, Dequeue
<1>3. got' \in [Channels -> Seq(Elems)]
  BY <1>1 DEF ChanType, Dequeue
<1>4. QED
  BY <1>1, <1>2, <1>3 DEF ChanType, Dequeue

LEMMA TakeCaseType ==
  ASSUME TypeOK, NEW t \in Threads, MoreCases(t), TakeCase(t)
  PROVE  ChanType' /\ ret' \in [Threads -> Elems \cup Codes]
<1> USE DEF TypeOK, ThreadType
<1>1. CASE head[Case(t)] # NULL
  BY <1>1, CaseIsChannel, DequeueType DEF TakeCase
<1>2. CASE head[Case(t)] = NULL
  BY <1>2 DEF ChanType, TakeCase, Codes, chan
<1>3. QED
  BY <1>1, <1>2

LEMMA WakeType ==
  ASSUME SyncType, ThreadType, NEW t \in Threads, NEW c \in Channels,
         NEW W \in SUBSET condq[c], WakeAndNotify(t, c, W)
  PROVE  /\ SyncType'
         /\ pc' \in [Threads -> PCs]
         /\ todo' \in [Threads -> SUBSET Threads]
<1> USE DEF SyncType, ThreadType, WakeAndNotify
<1>1. SyncType'
  OBVIOUS
<1>2. pc' \in [Threads -> PCs]
  BY DEF PCs
<1>3. todo' \in [Threads -> SUBSET Threads]
  OBVIOUS
<1>4. QED
  BY <1>1, <1>2, <1>3

\* After a wake-up of W by t, t notifies, W contends and others go on.
LEMMA WakeArgs ==
  ASSUME SyncType, ThreadType, ArgOK, SleepOK, NEW t \in Threads, NEW c \in Channels,
         pc[t] # "recv_wait", NEW W \in SUBSET condq[c], WakeAndNotify(t, c, W),
         \A u \in Threads \ {t} : arg'[u] = arg[u] /\ elem'[u] = elem[u], arg'[t] = c
  PROVE  ArgOK' /\ SleepOK'
<1>1. \A u \in W : u \in Threads /\ pc'[u] = "recv" /\ pc[u] = "recv_wait" /\ arg[u] = c
  BY DEF SyncType, ThreadType, WakeAndNotify, SleepOK
<1>2. pc'[t] = "notify" /\ \A u \in Threads \ (W \cup {t}) : pc'[u] = pc[u]
  BY DEF ThreadType, WakeAndNotify
<1>3. \A d \in Channels : condq'[d] = IF d = c THEN condq[c] \ W ELSE condq[d]
  BY DEF SyncType, WakeAndNotify
<1>4. ArgOK'
  BY <1>1, <1>2 DEF ArgOK
<1>5. SleepOK'
  <2> SUFFICES ASSUME NEW d \in Channels, NEW u \in condq'[d]
               PROVE  pc'[u] = "recv_wait" /\ arg'[u] = d
    BY DEF SleepOK
  <2>1. u \in condq[d] /\ (d = c => u \notin W) /\ u \in Threads
    BY <1>3 DEF SyncType
  <2>2. pc[u] = "recv_wait" /\ arg[u] = d
    BY <2>1 DEF SleepOK
  <2>3. u # t /\ u \notin W
    BY <1>1, <2>1, <2>2
  <2>4. QED
    BY <1>2, <2>1, <2>2, <2>3
<1>6. QED
  BY <1>4, <1>5

LEMMA SignalledSubset ==
  ASSUME NEW c \in Channels, NEW W \in Signalled(c)
  PROVE  W \in SUBSET condq[c]
BY DEF Signalled

LEMMA InitTInv == Init => TInv
BY DEF Init, TInv, TypeOK, ChanType, SyncType, ThreadType, ArgOK, SleepOK, PCs, PickPhases, Codes

LEMMA StepTInv == TInv /\ [Next]_vars => TInv'
<1> SUFFICES ASSUME TInv, [Next]_vars PROVE TInv'
  OBVIOUS
<1> USE DEF TInv, TypeOK, ChanType, SyncType, ThreadType, ArgOK, SleepOK, PCs, PickPhases, Codes, chan, sync, pick
<1>1. ASSUME NEW t \in Threads, NEW c \in Channels, NEW e \in Elems, Send(t, c, e)
     PROVE  TInv'
  BY <1>1 DEF Send, Enter
<1>2. ASSUME NEW t \in Threads, NEW c \in Channels, NEW e \in Elems, SendFails(t, c, e)
     PROVE  TInv'
  <2>1. PICK r \in {"error", "false"} : Return(t, r)
    BY <1>2 DEF SendFails
  <2> QED BY <1>2, <2>1 DEF SendFails, Return
<1>3. ASSUME NEW t \in Threads, SendOpen(t)
     PROVE  TInv'
  <2> HIDE DEF ChanType, SyncType, ArgOK, SleepOK, PCs
  <2>1. arg[t] \in Channels /\ elem[t] \in Elems /\ pc[t] # "recv_wait"
    BY <1>3 DEF SendOpen, ArgOK
  <2>2. PICK W \in Signalled(arg[t]) : WakeAndNotify(t, arg[t], W)
    BY <1>3 DEF SendOpen
  <2>3. W \in SUBSET condq[arg[t]]
    BY <2>1, <2>2, SignalledSubset
  <2>4. ChanType'
    BY <1>3, <2>1, EnqueueType DEF SendOpen, ChanType
  <2>5. SyncType' /\ ThreadType'
    BY <1>3, <2>1, <2>2, <2>3, WakeType DEF SendOpen
  <2>6. ArgOK' /\ SleepOK'
    BY <1>3, <2>1, <2>2, <2>3, WakeArgs DEF SendOpen
  <2>7. QED
    BY <2>4, <2>5, <2>6
<1>4. ASSUME NEW t \in Threads, SendClosed(t)
     PROVE  TInv'
  BY <1>4 DEF SendClosed, Return
<1>5. ASSUME NEW t \in Threads, NEW c \in Channels, NEW e \in Elems, TrySend(t, c, e)
     PROVE  TInv'
  <2> HIDE DEF ChanType, SyncType, ArgOK, SleepOK, PCs
  <2>1. PICK W \in Signalled(c) : WakeAndNotify(t, c, W)
    BY <1>5 DEF TrySend
  <2>2. W \in SUBSET condq[c] /\ pc[t] # "recv_wait"
    BY <1>5, <2>1, SignalledSubset DEF TrySend
  <2>3. ChanType'
    BY <1>5, EnqueueType DEF TrySend, ChanType
  <2>4. SyncType' /\ ThreadType'
    BY <1>5, <2>1, <2>2, WakeType DEF TrySend, Enter
  <2>5. ArgOK' /\ SleepOK'
    BY <1>5, <2>1, <2>2, WakeArgs DEF TrySend, Enter
  <2>6. QED
    BY <2>3, <2>4, <2>5
<1>6. ASSUME NEW t \in Threads, NEW c \in Channels, NEW e \in Elems, TrySendRefused(t, c, e)
     PROVE  TInv'
  BY <1>6 DEF TrySendRefused, Return
<1>7. ASSUME NEW t \in Threads, NEW c \in Channels, Close(t, c)
     PROVE  TInv'
  <2> HIDE DEF SyncType, ArgOK, SleepOK, PCs
  <2>1. WakeAndNotify(t, c, condq[c]) /\ condq[c] \in SUBSET condq[c] /\ pc[t] # "recv_wait"
    BY <1>7 DEF Close
  <2>2. ChanType' /\ SyncType' /\ ThreadType'
    BY <1>7, <2>1, WakeType DEF Close, Enter
  <2>3. ArgOK' /\ SleepOK'
    BY <1>7, <2>1, WakeArgs DEF Close, Enter
  <2>4. QED
    BY <2>2, <2>3
<1>8. ASSUME NEW t \in Threads, Notify(t)
     PROVE  TInv'
  BY <1>8 DEF Notify
<1>9. ASSUME NEW t \in Threads, Unlock(t)
     PROVE  TInv'
  BY <1>9 DEF Unlock, Return
<1>10. ASSUME NEW t \in Threads, NEW c \in Channels, Receive(t, c)
     PROVE  TInv'
  BY <1>10 DEF Receive, Enter
<1>11. ASSUME NEW t \in Threads, ReceiveElem(t)
     PROVE  TInv'
  BY <1>11, DequeueType DEF ReceiveElem, Return
<1>12. ASSUME NEW t \in Threads, ReceiveClosed(t)
     PROVE  TInv'
  BY <1>12 DEF ReceiveClosed, Return
<1>13. ASSUME NEW t \in Threads, ReceiveWait(t)
     PROVE  TInv'
  BY <1>13 DEF ReceiveWait
<1>14. ASSUME NEW t \in Threads, SpuriousWakeup(t)
     PROVE  TInv'
  BY <1>14 DEF SpuriousWakeup
<1>15. ASSUME NEW t \in Threads, NEW c \in Channels, TryReceive(t, c)
     PROVE  TInv'
  <2> HIDE DEF ChanType, SyncType, ArgOK, SleepOK, PCs
  <2>1. ChanType' /\ ret' \in [Threads -> Elems \cup Codes]
    <3>1. CASE head[c] # NULL
      BY <1>15, <3>1, DequeueType DEF TryReceive, Return
    <3>2. CASE head[c] = NULL
      BY <1>15, <3>2 DEF TryReceive, Return, ChanType
    <3>3. QED
      BY <3>1, <3>2
  <2>2. UNCHANGED <<sync, pick, pc, todo>> /\ arg' = [arg EXCEPT ![t] = NULL] /\ elem' = [elem EXCEPT ![t] = NULL]
    BY <1>15 DEF TryReceive, Return
  <2>3. SyncType' /\ ThreadType'
    BY <2>1, <2>2 DEF SyncType
  <2>4. pc[t] = "idle" /\ UNCHANGED condq
    BY <1>15, <2>2 DEF TryReceive
  <2>5. ArgOK' /\ SleepOK'
    <3>1. ArgOK'
      BY <2>2, <2>4 DEF ArgOK
    <3>2. SleepOK'
      BY <2>2, <2>4 DEF SleepOK, SyncType
    <3>3. QED
      BY <3>1, <3>2
  <2>6. QED
    BY <2>1, <2>3, <2>5
<1>16. ASSUME NEW t \in Threads, NEW c \in Channels, Peek(t, c)
     PROVE  TInv'
  BY <1>16 DEF Peek, Enter
<1>32. ASSUME NEW t \in Threads, PeekReturn(t)
     PROVE  TInv'
  BY <1>32 DEF PeekReturn, Return
<1>17. ASSUME NEW t \in Threads, NEW cs \in CaseLists, NEW tm \in BOOLEAN, Pick(t, cs, tm)
     PROVE  TInv'
  BY <1>17 DEF Pick
<1>18. ASSUME NEW t \in Threads, ScanTake(t)
     PROVE  TInv'
  BY <1>18, TakeCaseType DEF ScanTake, Goto
<1>19. ASSUME NEW t \in Threads, ScanRegister(t)
     PROVE  TInv'
  BY <1>19, CaseIsChannel DEF ScanRegister, Goto
<1>20. ASSUME NEW t \in Threads, ScanNoMemory(t)
     PROVE  TInv'
  BY <1>20 DEF ScanNoMemory, Goto
<1>21. ASSUME NEW t \in Threads, ScanEnd(t)
     PROVE  TInv'
  BY <1>21 DEF ScanEnd, Goto
<1>22. ASSUME NEW t \in Threads, CheckSignaled(t)
     PROVE  TInv'
  BY <1>22 DEF CheckSignaled
<1>23. ASSUME NEW t \in Threads, PickSpurious(t)
     PROVE  TInv'
  BY <1>23 DEF PickSpurious
<1>24. ASSUME NEW t \in Threads, PickTimeout(t)
     PROVE  TInv'
  BY <1>24 DEF PickTimeout
<1>25. ASSUME NEW t \in Threads, Unregister(t)
     PROVE  TInv'
  BY <1>25, CaseIsChannel DEF Unregister
<1>26. ASSUME NEW t \in Threads, UnregisterEnd(t)
     PROVE  TInv'
  <2> HIDE DEF ChanType, PCs
  <2>1. pc' \in [Threads -> PCs] /\ idx' \in [Threads -> Nat \ {0}]
    <3>1. /\ pc' = [pc EXCEPT ![t] = "rescan"] \/ pc' = [pc EXCEPT ![t] = "idle"]
          /\ idx' = [idx EXCEPT ![t] = 1]
      BY <1>26 DEF UnregisterEnd, Goto, PickReturn
    <3>2. {"rescan", "idle"} \subseteq PCs /\ pc \in [Threads -> PCs]
      BY DEF PCs
    <3>3. pc' \in [Threads -> PCs]
      BY ONLY <3>1, <3>2
    <3>4. QED
      BY <3>1, <3>3
  <2>2. cases' \in [Threads -> CaseLists \cup {<<>>}] /\ timed' \in [Threads -> BOOLEAN]
    <3>1. /\ cases' = cases \/ cases' = [cases EXCEPT ![t] = <<>>]
          /\ timed' = timed \/ timed' = [timed EXCEPT ![t] = FALSE]
      BY Zenon, <1>26 DEF UnregisterEnd, PickReturn
    <3>2. cases \in [Threads -> CaseLists \cup {<<>>}] /\ timed \in [Threads -> BOOLEAN]
      OBVIOUS
    <3>3. QED
      BY ONLY <3>1, <3>2
  <2>3. pc[t] = "unreg" /\ pc'[t] \in {"rescan", "idle"} /\ \A u \in Threads \ {t} : pc'[u] = pc[u]
    BY <1>26 DEF UnregisterEnd, Goto, PickReturn
  <2>4. ChanType' /\ UNCHANGED <<arg, elem, condq, lock, listeners, todo, ret>>
    BY <1>26 DEF UnregisterEnd, ChanType
  <2>5. TypeOK'
    BY <1>26, <2>1, <2>2, <2>4 DEF UnregisterEnd
  <2>6. ArgOK' /\ SleepOK'
    BY <2>3, <2>4
  <2>7. QED
    BY <2>5, <2>6
<1>27. ASSUME NEW t \in Threads, RescanTake(t)
     PROVE  TInv'
  BY <1>27, TakeCaseType DEF RescanTake, PickReturn, Goto
<1>28. ASSUME NEW t \in Threads, RescanSkip(t)
     PROVE  TInv'
  BY <1>28 DEF RescanSkip, Goto
<1>29. ASSUME NEW t \in Threads, RescanEnd(t)
     PROVE  TInv'
  BY <1>29 DEF RescanEnd, PickReturn, Goto
<1>30. ASSUME NEW c \in Channels, Collect(c) PROVE TInv'
  BY <1>30 DEF Collect, Linked
<1>31. CASE UNCHANGED vars
  BY <1>31 DEF vars
<1> HIDE DEF TInv, TypeOK, ChanType, SyncType, ThreadType, ArgOK, SleepOK, PCs, PickPhases, Codes, chan, sync, pick
<1>. QED
  BY <1>1, <1>2, <1>3, <1>4, <1>5, <1>6, <1>7, <1>8, <1>9, <1>10, <1>11, <1>12, <1>13, <1>14, <1>15, <1>16, <1>17, <1>18, <1>19, <1>20, <1>21, <1>22, <1>23, <1>24, <1>25, <1>26, <1>27, <1>28, <1>29, <1>30, <1>31, <1>32 DEF Next, Call, Inside, Outside

LEMMA TypeInvariant == Spec => []TInv
BY InitTInv, StepTInv, PTL DEF Spec

\* Every thread, channel and registry structure keeps its type: no listener
\* count becomes negative, every index and pointer stays in its range.
THEOREM TypeCorrect == Spec => []TypeOK
<1>1. TInv => TypeOK
  BY DEF TInv
<1>2. QED
  BY <1>1, TypeInvariant, PTL

-----------------------------------------------------------------------------
(* The linked lists.                                                       *)

\* No element is accepted twice.
SentOnce ==
  \A c, d \in Channels : \A i \in 1..Len(sent[c]), j \in 1..Len(sent[d]) :
    sent[c][i] = sent[d][j] => c = d /\ i = j

Unsent(e) == \A c \in Channels : \A i \in 1..Len(sent[c]) : sent[c][i] # e

\* What a sender carries is in no channel and carried by nobody else.
Carried ==
  /\ \A t \in Threads : pc[t] = "send" => Unsent(elem[t])
  /\ \A t, u \in Threads : pc[t] = "send" /\ pc[u] = "send" /\ t # u => elem[t] # elem[u]

LInv == ListOK /\ SentOnce /\ Carried

LEMMA EnqueueSent ==
  ASSUME ChanType, NEW c \in Channels, NEW e \in Elems, Enqueue(c, e)
  PROVE  /\ Len(sent'[c]) = Len(sent[c]) + 1
         /\ sent'[c][Len(sent[c]) + 1] = e
         /\ \A i \in 1..Len(sent[c]) : sent'[c][i] = sent[c][i]
         /\ \A d \in Channels \ {c} : sent'[d] = sent[d]
BY DEF ChanType, Enqueue

LEMMA EnqueueOnce ==
  ASSUME ChanType, SentOnce, NEW c \in Channels, NEW e \in Elems, Unsent(e), Enqueue(c, e)
  PROVE  SentOnce'
<1>1. sent \in [Channels -> Seq(Elems)]
  BY DEF ChanType
<1>2. QED
  BY <1>1, EnqueueSent DEF SentOnce, Unsent

LEMMA EnqueueUnsent ==
  ASSUME ChanType, NEW c \in Channels, NEW e \in Elems, Enqueue(c, e),
         NEW x \in Elems, x # e, Unsent(x)
  PROVE  Unsent(x)'
<1>1. sent \in [Channels -> Seq(Elems)]
  BY DEF ChanType
<1>2. QED
  BY <1>1, EnqueueSent DEF Unsent

\* Linking a new element behind the tail keeps every list.
LEMMA EnqueueList ==
  ASSUME ChanType, ListOK, SentOnce, NEW c \in Channels, NEW e \in Elems,
         Unsent(e), Enqueue(c, e), UNCHANGED got
  PROVE  ListOK'
<1> USE DEF ChanType
<1>1. Len(sent[c]) \in Nat /\ Len(got[c]) \in Nat /\ ListOf(c)
  BY DEF ListOK
<1>2. /\ Len(sent'[c]) = Len(sent[c]) + 1
      /\ sent'[c][Len(sent[c]) + 1] = e
      /\ \A i \in 1..Len(sent[c]) : sent'[c][i] = sent[c][i]
  BY EnqueueSent
<1>3. tail' = [tail EXCEPT ![c] = e]
  BY DEF Enqueue
<1>4. ListOf(c)'
  <2>1. CASE Len(got[c]) = Len(sent[c])
    <3>1. tail[c] = NULL
      BY <2>1, <1>1 DEF ListOf
    <3>2. head' = [head EXCEPT ![c] = e] /\ next' = [next EXCEPT ![e] = NULL]
      BY <3>1 DEF Enqueue
    <3>3. QED
      BY <1>1, <1>2, <1>3, <2>1, <3>2 DEF ListOf
  <2>2. CASE Len(got[c]) # Len(sent[c])
    <3>1. Len(got[c]) < Len(sent[c]) /\ Len(sent[c]) \in 1..Len(sent[c])
      BY <1>1, <2>2 DEF ListOf
    <3>2. tail[c] = sent[c][Len(sent[c])] /\ tail[c] \in Elems
      BY <1>1, <2>2, <3>1 DEF ListOf
    <3>3. next' = [next EXCEPT ![e] = NULL, ![tail[c]] = e] /\ head' = head
      BY <3>2 DEF Enqueue
    <3>4. tail[c] # e
      BY <3>1, <3>2 DEF Unsent
    <3>5. next'[e] = NULL /\ next'[tail[c]] = e
      BY <3>2, <3>3, <3>4
    <3>6. ASSUME NEW i \in Len(got[c]) + 1 .. Len(sent[c]) - 1
          PROVE  next'[sent[c][i]] = sent[c][i + 1]
      <4>1. i \in 1..Len(sent[c]) /\ i # Len(sent[c])
        BY <1>1
      <4>2. sent[c][i] # e /\ sent[c][i] # tail[c] /\ sent[c][i] \in Elems
        BY <3>1, <3>2, <4>1 DEF Unsent, SentOnce
      <4>3. next[sent[c][i]] = sent[c][i + 1]
        BY <1>1, <2>2 DEF ListOf
      <4>4. QED
        BY <3>3, <4>2, <4>3
    <3>7. ASSUME NEW i \in Len(got[c]) + 1 .. Len(sent'[c]) - 1
          PROVE  next'[sent'[c][i]] = sent'[c][i + 1]
      <4>1. CASE i = Len(sent[c])
        <5>1. i + 1 = Len(sent[c]) + 1 /\ i \in 1..Len(sent[c])
          BY ONLY <3>1, <4>1
        <5>2. sent'[c][i + 1] = e /\ sent'[c][i] = tail[c]
          BY ONLY <1>2, <3>2, <4>1, <5>1
        <5>3. QED
          BY ONLY <3>5, <5>2
      <4>2. CASE i # Len(sent[c])
        <5>1. /\ i \in Len(got[c]) + 1 .. Len(sent[c]) - 1
              /\ i \in 1..Len(sent[c]) /\ i + 1 \in 1..Len(sent[c])
          BY ONLY <1>1, <1>2, <4>2, i \in Len(got[c]) + 1 .. Len(sent'[c]) - 1
        <5>2. QED
          BY <1>2, <3>6, <5>1
      <4>3. QED
        BY <4>1, <4>2
    <3>8. head'[c] = sent'[c][Len(got[c]) + 1]
      <4>1. head[c] = sent[c][Len(got[c]) + 1] /\ Len(got[c]) + 1 \in 1..Len(sent[c])
        BY <1>1, <2>2, <3>1 DEF ListOf
      <4>2. QED
        BY <1>2, <3>3, <4>1
    <3>9. \A i \in 1..Len(got[c]) : got[c][i] = sent'[c][i]
      <4>1. \A i \in 1..Len(got[c]) : got[c][i] = sent[c][i]
        BY ONLY <1>1 DEF ListOf
      <4>2. \A i \in 1..Len(got[c]) : i \in 1..Len(sent[c])
        BY ONLY <1>1, <3>1
      <4>3. QED
        BY ONLY <1>2, <4>1, <4>2
    <3>10. Len(got[c]) <= Len(sent'[c]) /\ Len(got[c]) # Len(sent'[c]) /\ got' = got
      BY <1>1, <1>2, <3>1
    <3>11. tail'[c] = sent'[c][Len(sent'[c])] /\ next'[sent'[c][Len(sent'[c])]] = NULL
      BY <1>2, <1>3, <3>5
    <3>12. QED
      BY ONLY <3>7, <3>8, <3>9, <3>10, <3>11 DEF ListOf
  <2>3. QED
    BY <2>1, <2>2
<1>5. ASSUME NEW d \in Channels, d # c PROVE ListOf(d)'
  <2>1. ListOf(d) /\ Len(sent[d]) \in Nat /\ Len(got[d]) \in Nat
    BY DEF ListOK
  <2>2. head'[d] = head[d] /\ tail'[d] = tail[d] /\ sent'[d] = sent[d]
    BY <1>5 DEF Enqueue
  <2>3. ASSUME NEW i \in 1..Len(sent[d])
        PROVE  next'[sent[d][i]] = next[sent[d][i]]
    <3>1. sent[d][i] # e /\ sent[d][i] \in Elems
      BY DEF Unsent
    <3>2. tail[c] # NULL => sent[d][i] # tail[c]
      BY <1>1, <1>5 DEF ListOf, SentOnce
    <3>3. QED
      BY <3>1, <3>2 DEF Enqueue
  <2>4. got' = got /\ \A i \in Len(got[d]) + 1 .. Len(sent[d]) - 1 : i \in 1..Len(sent[d])
    BY <2>1
  <2>5. Len(got[d]) # Len(sent[d]) => Len(sent[d]) \in 1..Len(sent[d])
    BY <2>1 DEF ListOf
  <2>6. QED
    BY ONLY <2>1, <2>2, <2>3, <2>4, <2>5 DEF ListOf
<1>6. QED
  BY <1>4, <1>5 DEF ListOK

\* Unlinking the first element keeps every list, and takes the oldest value.
LEMMA DequeueList ==
  ASSUME ChanType, ListOK, SentOnce, NEW c \in Channels, head[c] # NULL, Dequeue(c)
  PROVE  ListOK'
<1> USE DEF ChanType
<1>1. Len(sent[c]) \in Nat /\ Len(got[c]) \in Nat /\ ListOf(c) /\ head[c] \in Elems
  BY DEF ListOK
<1>2. /\ Len(got[c]) < Len(sent[c])
      /\ head[c] = sent[c][Len(got[c]) + 1]
  BY <1>1 DEF ListOf
<1>3. /\ Len(got'[c]) = Len(got[c]) + 1
      /\ got'[c][Len(got[c]) + 1] = head[c]
      /\ \A i \in 1..Len(got[c]) : got'[c][i] = got[c][i]
  BY <1>1 DEF Dequeue
<1>4. ListOf(c)'
  <2>1. ASSUME NEW i \in 1..Len(got'[c]) PROVE got'[c][i] = sent[c][i]
    <3>1. CASE i = Len(got[c]) + 1
      BY <1>2, <1>3, <3>1
    <3>2. CASE i \in 1..Len(got[c])
      BY <1>1, <1>3, <3>2 DEF ListOf
    <3>3. QED
      BY <1>1, <1>3, <3>1, <3>2
  <2>2. head'[c] = next[head[c]] /\ next' = next /\ sent' = sent
    BY DEF Dequeue
  <2>3. CASE Len(got[c]) + 1 = Len(sent[c])
    <3>1. next[head[c]] = NULL
      BY <1>1, <1>2, <2>3 DEF ListOf
    <3>2. head'[c] = NULL /\ tail'[c] = NULL
      BY <3>1 DEF Dequeue
    <3>3. QED
      BY <1>1, <1>3, <2>1, <2>2, <2>3, <3>2 DEF ListOf
  <2>4. CASE Len(got[c]) + 1 # Len(sent[c])
    <3>1. Len(got[c]) + 1 < Len(sent[c])
      BY <1>1, <1>2, <2>4
    <3>2. next[head[c]] = sent[c][Len(got[c]) + 2] /\ sent[c][Len(got[c]) + 2] \in Elems
      <4>1. \A i \in Len(got[c]) + 1 .. Len(sent[c]) - 1 : next[sent[c][i]] = sent[c][i + 1]
        BY <1>1, <1>2 DEF ListOf
      <4>2. /\ Len(got[c]) + 1 \in Len(got[c]) + 1 .. Len(sent[c]) - 1
            /\ Len(got[c]) + 2 \in 1..Len(sent[c])
            /\ (Len(got[c]) + 1) + 1 = Len(got[c]) + 2
        BY <1>1, <3>1
      <4>3. QED
        BY <1>2, <4>1, <4>2
    <3>3. tail'[c] = tail[c]
      BY <3>2 DEF Dequeue
    <3>4. Len(got'[c]) <= Len(sent'[c]) /\ Len(got'[c]) # Len(sent'[c])
      BY <1>1, <1>3, <2>2, <3>1
    <3>5. head'[c] = sent'[c][Len(got'[c]) + 1]
      BY <1>1, <1>3, <2>2, <3>2
    <3>6. tail'[c] = sent'[c][Len(sent'[c])] /\ next'[sent'[c][Len(sent'[c])]] = NULL
      BY <1>1, <1>2, <2>2, <3>3 DEF ListOf
    <3>7. \A i \in Len(got'[c]) + 1 .. Len(sent'[c]) - 1 : next'[sent'[c][i]] = sent'[c][i + 1]
      <4>1. \A i \in Len(got[c]) + 1 .. Len(sent[c]) - 1 : next[sent[c][i]] = sent[c][i + 1]
        BY <1>1, <1>2 DEF ListOf
      <4>2. \A i \in Len(got'[c]) + 1 .. Len(sent[c]) - 1 : i \in Len(got[c]) + 1 .. Len(sent[c]) - 1
        BY <1>1, <1>3
      <4>3. QED
        BY <2>2, <4>1, <4>2
    <3>8. QED
      BY ONLY <2>1, <2>2, <3>4, <3>5, <3>6, <3>7 DEF ListOf
  <2>5. QED
    BY <2>3, <2>4
<1>5. ASSUME NEW d \in Channels, d # c PROVE ListOf(d)'
  <2>1. /\ head'[d] = head[d] /\ tail'[d] = tail[d] /\ got'[d] = got[d]
        /\ next' = next /\ sent' = sent
    BY <1>5 DEF Dequeue
  <2>2. QED
    BY <2>1 DEF ListOf, ListOK
<1>6. QED
  BY <1>4, <1>5 DEF ListOK

\* No thread enters send, and those in it keep their element.
NoNewSender == \A t \in Threads : pc'[t] = "send" => pc[t] = "send" /\ elem'[t] = elem[t]

LEMMA KeepL ==
  ASSUME LInv, UNCHANGED <<head, tail, next, sent, got>>, NoNewSender
  PROVE  LInv'
<1>1. ListOK' /\ SentOnce'
  BY DEF LInv, ListOK, ListOf, SentOnce
<1>2. Carried'
  BY DEF LInv, Carried, Unsent, NoNewSender
<1>3. QED
  BY <1>1, <1>2 DEF LInv

LEMMA DequeueL ==
  ASSUME ChanType, LInv, NEW c \in Channels, head[c] # NULL, Dequeue(c), NoNewSender
  PROVE  LInv'
<1>1. ListOK'
  BY DequeueList DEF LInv
<1>2. sent' = sent
  BY DEF Dequeue
<1>3. SentOnce' /\ Carried'
  BY <1>2 DEF LInv, SentOnce, Carried, Unsent, NoNewSender
<1>4. QED
  BY <1>1, <1>3 DEF LInv

LEMMA EnqueueL ==
  ASSUME ChanType, LInv, NEW c \in Channels, NEW e \in Elems, Unsent(e), Enqueue(c, e),
         UNCHANGED got, NoNewSender, ArgOK,
         \A t \in Threads : pc'[t] = "send" => elem[t] # e
  PROVE  LInv'
<1>1. ListOK' /\ SentOnce'
  BY EnqueueList, EnqueueOnce DEF LInv
<1>2. ASSUME NEW t \in Threads, pc'[t] = "send" PROVE Unsent(elem[t])'
  <2>1. pc[t] = "send" /\ elem'[t] = elem[t] /\ elem[t] \in Elems /\ elem[t] # e /\ Unsent(elem[t])
    BY <1>2 DEF NoNewSender, ArgOK, LInv, Carried
  <2>2. \A x \in Elems : x # e /\ Unsent(x) => Unsent(x)'
    BY EnqueueUnsent
  <2>3. QED
    BY <2>1, <2>2 DEF Unsent
<1>3. Carried'
  BY <1>2 DEF LInv, Carried, NoNewSender
<1>4. QED
  BY <1>1, <1>3 DEF LInv

LEMMA TakeCaseL ==
  ASSUME TypeOK, LInv, NEW t \in Threads, MoreCases(t), TakeCase(t), NoNewSender
  PROVE  LInv'
<1>1. Case(t) \in Channels /\ ChanType
  BY CaseIsChannel DEF TypeOK
<1>2. CASE head[Case(t)] # NULL
  BY <1>1, <1>2, DequeueL DEF TakeCase
<1>3. CASE head[Case(t)] = NULL
  BY <1>3, KeepL DEF TakeCase, chan
<1>4. QED
  BY <1>2, <1>3

LEMMA InitLInv == Init => LInv
BY DEF Init, LInv, ListOK, ListOf, SentOnce, Carried, Unsent

LEMMA WakeNoSender ==
  ASSUME ThreadType, NEW t \in Threads, NEW c \in Channels, NEW W, WakeAndNotify(t, c, W)
  PROVE  \A u \in Threads : pc'[u] = "send" => pc[u] = "send" /\ u # t
BY DEF ThreadType, WakeAndNotify

LEMMA StepLInv == TInv /\ LInv /\ [Next]_vars => LInv'
<1> SUFFICES ASSUME TInv, LInv, [Next]_vars PROVE LInv'
  OBVIOUS
<1>0. TypeOK /\ ChanType /\ ThreadType /\ ArgOK
  BY DEF TInv, TypeOK
<1>1. ASSUME NEW t \in Threads, NEW c \in Channels, NEW e \in Elems, Send(t, c, e)
     PROVE  LInv'
  <2>1. /\ UNCHANGED <<head, tail, next, sent, got>>
        /\ pc' = [pc EXCEPT ![t] = "send"] /\ elem' = [elem EXCEPT ![t] = e]
        /\ Unsent(e) /\ \A u \in Threads : elem[u] # e
    BY <1>0, <1>1 DEF Send, Enter, Fresh, Unsent
  <2>2. ListOK' /\ SentOnce'
    <3>1. ListOK /\ SentOnce
      BY DEF LInv
    <3>2. QED
      BY ONLY <2>1, <3>1 DEF ListOK, ListOf, SentOnce
  <2>3. ASSUME NEW u \in Threads, pc'[u] = "send" PROVE Unsent(elem[u])'
    <3>1. CASE u = t
      BY <1>0, <2>1, <3>1 DEF ThreadType, Unsent
    <3>2. CASE u # t
      BY <1>0, <2>1, <2>3, <3>2 DEF ThreadType, Unsent, LInv, Carried
    <3>3. QED
      BY <3>1, <3>2
  <2>4. ASSUME NEW u \in Threads, NEW w \in Threads, pc'[u] = "send", pc'[w] = "send", u # w
        PROVE  elem'[u] # elem'[w]
    BY <1>0, <2>1, <2>4 DEF ThreadType, LInv, Carried
  <2>5. Carried'
    BY <2>3, <2>4 DEF Carried, Unsent
  <2>6. QED
    BY <2>2, <2>5 DEF LInv
<1>2. ASSUME NEW t \in Threads, NEW c \in Channels, NEW e \in Elems, SendFails(t, c, e)
     PROVE  LInv'
  <2>1. NoNewSender
    BY <1>0, <1>2 DEF SendFails, Return, NoNewSender, ThreadType
  <2>2. QED
    BY <1>2, <2>1, KeepL DEF SendFails, chan
<1>3. ASSUME NEW t \in Threads, SendOpen(t)
     PROVE  LInv'
  <2>1. arg[t] \in Channels /\ elem[t] \in Elems /\ pc[t] = "send"
    BY <1>0, <1>3 DEF SendOpen, ArgOK
  <2>2. PICK W \in Signalled(arg[t]) : WakeAndNotify(t, arg[t], W)
    BY <1>0, <1>3 DEF SendOpen
  <2>3. \A u \in Threads : pc'[u] = "send" => pc[u] = "send" /\ u # t
    BY <1>0, <2>1, <2>2, WakeNoSender
  <2>4. Enqueue(arg[t], elem[t]) /\ UNCHANGED <<got, elem>>
    BY <1>0, <1>3 DEF SendOpen
  <2>5. Unsent(elem[t]) /\ \A u \in Threads : pc'[u] = "send" => elem[u] # elem[t]
    BY <1>0, <2>1, <2>3 DEF LInv, Carried
  <2>6. NoNewSender
    BY <1>0, <2>3, <2>4 DEF NoNewSender
  <2>7. QED
    BY <1>0, <2>1, <2>4, <2>5, <2>6, EnqueueL
<1>4. ASSUME NEW t \in Threads, SendClosed(t)
     PROVE  LInv'
  <2>1. NoNewSender
    BY <1>0, <1>4 DEF SendClosed, Return, NoNewSender, ThreadType
  <2>2. QED
    BY <1>4, <2>1, KeepL DEF SendClosed, chan
<1>5. ASSUME NEW t \in Threads, NEW c \in Channels, NEW e \in Elems, TrySend(t, c, e)
     PROVE  LInv'
  <2>1. PICK W \in Signalled(c) : WakeAndNotify(t, c, W)
    BY <1>0, <1>5 DEF TrySend
  <2>2. \A u \in Threads : pc'[u] = "send" => pc[u] = "send" /\ u # t
    BY <1>0, <2>1, WakeNoSender
  <2>3. Enqueue(c, e) /\ UNCHANGED got /\ elem' = [elem EXCEPT ![t] = NULL]
    BY <1>0, <1>5 DEF TrySend, Enter
  <2>4. Unsent(e) /\ \A u \in Threads : elem[u] # e
    BY <1>0, <1>5 DEF TrySend, Fresh, Unsent
  <2>5. NoNewSender
    BY <1>0, <2>2, <2>3 DEF NoNewSender, ThreadType
  <2>6. QED
    BY <1>0, <2>3, <2>4, <2>5, EnqueueL
<1>6. ASSUME NEW t \in Threads, NEW c \in Channels, NEW e \in Elems, TrySendRefused(t, c, e)
     PROVE  LInv'
  <2>1. NoNewSender
    BY <1>0, <1>6 DEF TrySendRefused, Return, NoNewSender, ThreadType
  <2>2. QED
    BY <1>6, <2>1, KeepL DEF TrySendRefused, chan
<1>7. ASSUME NEW t \in Threads, NEW c \in Channels, Close(t, c)
     PROVE  LInv'
  <2>1. \A u \in Threads : pc'[u] = "send" => pc[u] = "send" /\ u # t
    BY <1>0, <1>7, WakeNoSender DEF Close
  <2>2. NoNewSender
    BY <1>0, <1>7, <2>1 DEF NoNewSender, Close, Enter, ThreadType
  <2>3. QED
    BY <1>0, <1>7, <2>2, KeepL DEF Close
<1>8. ASSUME NEW t \in Threads, Notify(t)
     PROVE  LInv'
  <2>1. NoNewSender
    BY <1>0, <1>8 DEF Notify, NoNewSender, ThreadType
  <2>2. QED
    BY <1>8, <2>1, KeepL DEF Notify, chan
<1>9. ASSUME NEW t \in Threads, Unlock(t)
     PROVE  LInv'
  <2>1. NoNewSender
    BY <1>0, <1>9 DEF Unlock, Return, NoNewSender, ThreadType
  <2>2. QED
    BY <1>9, <2>1, KeepL DEF Unlock, chan
<1>10. ASSUME NEW t \in Threads, NEW c \in Channels, Receive(t, c)
     PROVE  LInv'
  <2>1. NoNewSender
    BY <1>0, <1>10 DEF Receive, Enter, NoNewSender, ThreadType
  <2>2. QED
    BY <1>10, <2>1, KeepL DEF Receive, chan
<1>11. ASSUME NEW t \in Threads, ReceiveElem(t)
     PROVE  LInv'
  <2>1. arg[t] \in Channels /\ head[arg[t]] # NULL /\ Dequeue(arg[t])
    BY <1>0, <1>11 DEF ReceiveElem, ArgOK
  <2>2. NoNewSender
    BY <1>0, <1>11 DEF ReceiveElem, Return, NoNewSender, ThreadType
  <2>3. QED
    BY <1>0, <2>1, <2>2, DequeueL
<1>12. ASSUME NEW t \in Threads, ReceiveClosed(t)
     PROVE  LInv'
  <2>1. NoNewSender
    BY <1>0, <1>12 DEF ReceiveClosed, Return, NoNewSender, ThreadType
  <2>2. QED
    BY <1>12, <2>1, KeepL DEF ReceiveClosed, chan
<1>13. ASSUME NEW t \in Threads, ReceiveWait(t)
     PROVE  LInv'
  <2>1. NoNewSender
    BY <1>0, <1>13 DEF ReceiveWait, NoNewSender, ThreadType
  <2>2. QED
    BY <1>13, <2>1, KeepL DEF ReceiveWait, chan
<1>14. ASSUME NEW t \in Threads, SpuriousWakeup(t)
     PROVE  LInv'
  <2>1. NoNewSender
    BY <1>0, <1>14 DEF SpuriousWakeup, NoNewSender, ThreadType
  <2>2. QED
    BY <1>14, <2>1, KeepL DEF SpuriousWakeup, chan
<1>15. ASSUME NEW t \in Threads, NEW c \in Channels, TryReceive(t, c)
     PROVE  LInv'
  <2>1. NoNewSender
    BY <1>0, <1>15 DEF TryReceive, Return, NoNewSender, ThreadType
  <2>2. CASE head[c] # NULL
    BY <1>0, <1>15, <2>1, <2>2, DequeueL DEF TryReceive
  <2>3. CASE head[c] = NULL
    BY <1>0, <1>15, <2>1, <2>3, KeepL DEF TryReceive, chan
  <2>4. QED
    BY <1>0, <2>2, <2>3
<1>16. ASSUME NEW t \in Threads, NEW c \in Channels, Peek(t, c)
     PROVE  LInv'
  <2>1. NoNewSender
    BY <1>0, <1>16 DEF Peek, Enter, NoNewSender, ThreadType
  <2>2. QED
    BY <1>16, <2>1, KeepL DEF Peek, chan
<1>32. ASSUME NEW t \in Threads, PeekReturn(t)
     PROVE  LInv'
  <2>1. NoNewSender
    BY <1>0, <1>32 DEF PeekReturn, Return, NoNewSender, ThreadType
  <2>2. QED
    BY <1>32, <2>1, KeepL DEF PeekReturn, chan
<1>17. ASSUME NEW t \in Threads, NEW cs \in CaseLists, NEW tm \in BOOLEAN, Pick(t, cs, tm)
     PROVE  LInv'
  <2>1. NoNewSender
    BY <1>0, <1>17 DEF Pick, NoNewSender, ThreadType
  <2>2. QED
    BY <1>17, <2>1, KeepL DEF Pick, chan
<1>18. ASSUME NEW t \in Threads, ScanTake(t)
     PROVE  LInv'
  <2>1. NoNewSender
    BY <1>0, <1>18 DEF ScanTake, PickReturn, Goto, NoNewSender, ThreadType
  <2>2. QED
    BY <1>0, <1>18, <2>1, TakeCaseL DEF ScanTake
<1>19. ASSUME NEW t \in Threads, ScanRegister(t)
     PROVE  LInv'
  <2>1. NoNewSender
    BY <1>0, <1>19 DEF ScanRegister, Goto, NoNewSender, ThreadType
  <2>2. QED
    BY <1>19, <2>1, KeepL DEF ScanRegister, chan
<1>20. ASSUME NEW t \in Threads, ScanNoMemory(t)
     PROVE  LInv'
  <2>1. NoNewSender
    BY <1>0, <1>20 DEF ScanNoMemory, Goto, NoNewSender, ThreadType
  <2>2. QED
    BY <1>20, <2>1, KeepL DEF ScanNoMemory, chan
<1>21. ASSUME NEW t \in Threads, ScanEnd(t)
     PROVE  LInv'
  <2>1. NoNewSender
    BY <1>0, <1>21 DEF ScanEnd, Goto, NoNewSender, ThreadType
  <2>2. QED
    BY <1>21, <2>1, KeepL DEF ScanEnd, chan
<1>22. ASSUME NEW t \in Threads, CheckSignaled(t)
     PROVE  LInv'
  <2>1. NoNewSender
    BY <1>0, <1>22 DEF CheckSignaled, NoNewSender, ThreadType
  <2>2. QED
    BY <1>22, <2>1, KeepL DEF CheckSignaled, chan
<1>23. ASSUME NEW t \in Threads, PickSpurious(t)
     PROVE  LInv'
  <2>1. NoNewSender
    BY <1>0, <1>23 DEF PickSpurious, NoNewSender, ThreadType
  <2>2. QED
    BY <1>23, <2>1, KeepL DEF PickSpurious, chan
<1>24. ASSUME NEW t \in Threads, PickTimeout(t)
     PROVE  LInv'
  <2>1. NoNewSender
    BY <1>0, <1>24 DEF PickTimeout, NoNewSender, ThreadType
  <2>2. QED
    BY <1>24, <2>1, KeepL DEF PickTimeout, chan
<1>25. ASSUME NEW t \in Threads, Unregister(t)
     PROVE  LInv'
  <2>1. NoNewSender
    BY <1>0, <1>25 DEF Unregister, NoNewSender, ThreadType
  <2>2. QED
    BY <1>25, <2>1, KeepL DEF Unregister, chan
<1>26. ASSUME NEW t \in Threads, UnregisterEnd(t)
     PROVE  LInv'
  <2>1. NoNewSender
    BY <1>0, <1>26 DEF UnregisterEnd, PickReturn, Goto, NoNewSender, ThreadType
  <2>2. QED
    BY <1>26, <2>1, KeepL DEF UnregisterEnd, chan
<1>27. ASSUME NEW t \in Threads, RescanTake(t)
     PROVE  LInv'
  <2>1. NoNewSender
    BY <1>0, <1>27 DEF RescanTake, PickReturn, Goto, NoNewSender, ThreadType
  <2>2. QED
    BY <1>0, <1>27, <2>1, TakeCaseL DEF RescanTake
<1>28. ASSUME NEW t \in Threads, RescanSkip(t)
     PROVE  LInv'
  <2>1. NoNewSender
    BY <1>0, <1>28 DEF RescanSkip, Goto, NoNewSender, ThreadType
  <2>2. QED
    BY <1>28, <2>1, KeepL DEF RescanSkip, chan
<1>29. ASSUME NEW t \in Threads, RescanEnd(t)
     PROVE  LInv'
  <2>1. NoNewSender
    BY <1>0, <1>29 DEF RescanEnd, PickReturn, Goto, NoNewSender, ThreadType
  <2>2. QED
    BY <1>29, <2>1, KeepL DEF RescanEnd, chan
<1>30. ASSUME NEW c \in Channels, Collect(c) PROVE LInv'
  <2>1. /\ head' = [head EXCEPT ![c] = NULL] /\ tail' = [tail EXCEPT ![c] = NULL]
        /\ sent' = [sent EXCEPT ![c] = <<>>] /\ got' = [got EXCEPT ![c] = <<>>]
        /\ UNCHANGED <<next, pc, elem>>
    BY <1>30 DEF Collect
  <2>2. /\ sent'[c] = <<>> /\ got'[c] = <<>> /\ head'[c] = NULL /\ tail'[c] = NULL
        /\ \A d \in Channels \ {c} :
             sent'[d] = sent[d] /\ got'[d] = got[d] /\ head'[d] = head[d] /\ tail'[d] = tail[d]
    BY <1>0, <2>1 DEF ChanType
  <2>3. ListOf(c)'
    BY <2>2 DEF ListOf
  <2>4. ASSUME NEW d \in Channels \ {c} PROVE ListOf(d)'
    BY <2>1, <2>2 DEF ListOf, LInv, ListOK
  <2>5. SentOnce' /\ Carried'
    BY <2>1, <2>2 DEF LInv, SentOnce, Carried, Unsent
  <2>6. QED
    BY <2>3, <2>4, <2>5 DEF LInv, ListOK
<1>31. CASE UNCHANGED vars
  <2>1. NoNewSender
    BY <1>31 DEF vars, NoNewSender
  <2>2. QED
    BY <1>31, <2>1, KeepL DEF vars, chan
<1>. QED
  BY <1>1, <1>2, <1>3, <1>4, <1>5, <1>6, <1>7, <1>8, <1>9, <1>10, <1>11, <1>12, <1>13, <1>14, <1>15, <1>16, <1>17, <1>18, <1>19, <1>20, <1>21, <1>22, <1>23, <1>24, <1>25, <1>26, <1>27, <1>28, <1>29, <1>30, <1>31, <1>32 DEF Next, Call, Inside, Outside

\* The pointers of a channel always spell the values accepted and not yet
\* taken, in the order of their acceptance: what was taken is a prefix of what
\* was accepted, so no value is lost, duplicated or overtaken.
THEOREM Fifo == Spec => []ListOK
<1>1. Init => TInv /\ LInv
  BY InitTInv, InitLInv
<1>2. (TInv /\ LInv) /\ [Next]_vars => (TInv /\ LInv)'
  BY StepTInv, StepLInv
<1>3. TInv /\ LInv => ListOK
  BY DEF LInv
<1>4. QED
  BY <1>1, <1>2, <1>3, PTL DEF Spec

-----------------------------------------------------------------------------
(* What the pointers spell.  The walk is a recursive function: that it     *)
(* exists, and what it returns, is shown by induction on its depth.        *)

\* Induction over the natural numbers, for a set instead of a predicate.
LEMMA SetInduction ==
  ASSUME NEW S, 0 \in S, \A n \in Nat : n \in S => n + 1 \in S
  PROVE  \A n \in Nat : n \in S
<1> DEFINE R == OpToRel(<, Nat)
           T == {n \in Nat : n \notin S}
<1>1. IsWellFoundedOn(R, Nat)
  BY NatLessThanWellFounded
<1>2. \A x, y \in Nat : y < x => <<y, x>> \in R
  BY DEF OpToRel
<1> HIDE DEF R
<1>3. ASSUME T # {} PROVE FALSE
  <2>1. PICK x \in T : \A y \in T : ~ (<<y, x>> \in R)
    BY <1>1, <1>3, WFMin, T \subseteq Nat, Zenon
  <2>2. x # 0 /\ x \in Nat
    OBVIOUS
  <2>3. x - 1 \in Nat /\ x - 1 < x
    BY <2>2
  <2>4. x - 1 \notin T
    BY <2>1, <2>2, <2>3, <1>2
  <2>5. (x - 1) + 1 \in S
    BY <2>3, <2>4
  <2>6. QED
    BY <2>2, <2>5
<1>4. QED
  BY <1>3

\* One level of the walk, given the walk so far.
Level(f, n) ==
  [e \in Elems \cup {NULL} |->
     IF n = 0 \/ e = NULL THEN <<>> ELSE <<e>> \o f[n - 1][next[e]]]

LEMMA WalkExists ==
  ASSUME NEW N \in Nat
  PROVE  \E f : f = [n \in 0..N |-> Level(f, n)]
<1> DEFINE S == {m \in Nat : \E f : f = [n \in 0..m |-> Level(f, n)]}
<1>1. 0 \in S
  <2> DEFINE f == [n \in 0..0 |-> [e \in Elems \cup {NULL} |-> <<>>]]
  <2>1. f = [n \in 0..0 |-> Level(f, n)]
    <3>1. \A n \in 0..0 : Level(f, n) = [e \in Elems \cup {NULL} |-> <<>>]
      BY DEF Level
    <3>2. QED
      BY <3>1, Zenon
  <2>2. QED
    BY <2>1
<1>2. ASSUME NEW m \in Nat, m \in S PROVE m + 1 \in S
  <2>1. PICK f : f = [n \in 0..m |-> Level(f, n)]
    BY <1>2
  <2> DEFINE g == [n \in 0..m+1 |-> IF n = m + 1 THEN Level(f, m + 1) ELSE f[n]]
  <2>2. \A n \in 0..m+1 : Level(g, n) = Level(f, n)
    <3> TAKE n \in 0..m+1
    <3>1. CASE n = 0
      BY <3>1 DEF Level
    <3>2. CASE n # 0
      <4>1. n - 1 \in 0..m+1 /\ n - 1 # m + 1
        BY <3>2
      <4>2. g[n - 1] = f[n - 1]
        BY <4>1
      <4>3. QED
        BY ONLY <4>2 DEF Level
    <3>3. QED
      BY <3>1, <3>2
  <2>3. \A n \in 0..m+1 : g[n] = Level(g, n)
    <3> TAKE n \in 0..m+1
    <3>1. CASE n = m + 1
      BY <2>2, <3>1
    <3>2. CASE n # m + 1
      <4>1. n \in 0..m
        BY <3>2
      <4>2. f[n] = Level(f, n)
        BY <2>1, <4>1
      <4>3. QED
        BY <2>2, <3>2, <4>2
    <3>3. QED
      BY <3>1, <3>2
  <2>4. g = [n \in 0..m+1 |-> Level(g, n)]
    <3> HIDE DEF g
    <3>1. g = [n \in 0..m+1 |-> g[n]]
      BY DEF g
    <3>2. QED
      BY <2>3, <3>1, Zenon
  <2> HIDE DEF g
  <2>5. \E h : h = [n \in 0..m+1 |-> Level(h, n)]
    BY <2>4
  <2>6. QED
    BY <2>5
<1>3. \A m \in Nat : m \in S
  <2> HIDE DEF S
  <2>1. QED
    BY <1>1, <1>2, SetInduction
<1>4. QED
  BY <1>3

LEMMA WalkDef ==
  /\ Walk = [n \in 0..Cardinality(Elems) |-> Level(Walk, n)]
<1>1. Cardinality(Elems) \in Nat
  BY FiniteAssumption, FS_CardinalityType
<1>2. \E f : f = [n \in 0..Cardinality(Elems) |-> Level(f, n)]
  BY <1>1, WalkExists
<1>3. QED
  BY <1>2, Zenon DEF Walk, Level

LEMMA WalkLevel ==
  ASSUME NEW m \in 0..Cardinality(Elems), NEW e \in Elems \cup {NULL}
  PROVE  Walk[m][e] = IF m = 0 \/ e = NULL THEN <<>> ELSE <<e>> \o Walk[m - 1][next[e]]
<1>1. Walk[m] = Level(Walk, m)
  BY WalkDef
<1>2. QED
  BY <1>1 DEF Level

LEMMA IntervalCard ==
  ASSUME NEW d \in Nat
  PROVE  IsFiniteSet(1..d) /\ Cardinality(1..d) = d
BY FS_Interval

LEMMA SubSeqHead ==
  ASSUME NEW T, NEW s \in Seq(T), NEW i \in 1..Len(s)
  PROVE  <<s[i]>> \o SubSeq(s, i + 1, Len(s)) = SubSeq(s, i, Len(s))
OBVIOUS

\* The values accepted by c and not taken are at most as many as there are.
LEMMA WaitingBound ==
  ASSUME ChanType, ListOK, SentOnce, NEW c \in Channels
  PROVE  /\ Len(sent[c]) - Len(got[c]) \in Nat
         /\ Len(sent[c]) - Len(got[c]) <= Cardinality(Elems)
<1>0. Len(got[c]) \in Nat /\ Len(sent[c]) \in Nat /\ Len(got[c]) <= Len(sent[c])
  BY DEF ChanType, ListOK, ListOf
<1>1. PICK k \in Nat, d \in Nat : k = Len(got[c]) /\ d = Len(sent[c]) - k
  <2>1. Len(sent[c]) - Len(got[c]) \in Nat
    BY ONLY <1>0
  <2>2. QED
    BY <1>0, <2>1, Zenon
<1> DEFINE f == [i \in 1..d |-> sent[c][k + i]]
<1>2. \A i \in 1..d : k + i \in 1..Len(sent[c]) /\ sent[c][k + i] \in Elems
  BY <1>1 DEF ChanType
<1>3. f \in [1..d -> Elems]
  BY <1>2
<1>4. \A i, j \in 1..d : f[i] = f[j] => i = j
  BY <1>1, <1>2 DEF SentOnce
<1>5. f \in Injection(1..d, Elems)
  BY <1>3, <1>4 DEF Injection, IsInjective
<1>6. Cardinality(1..d) = d
  BY IntervalCard
<1>7. Cardinality(1..d) <= Cardinality(Elems)
  BY <1>5, FiniteAssumption, FS_Injection
<1>8. QED
  BY <1>1, <1>6, <1>7

\* If next links the elements of s behind the k-th, the walk from the j-th
\* last one yields the last j.
LEMMA WalkValue ==
  ASSUME NEW s \in Seq(Elems), NEW k \in Nat, k <= Len(s),
         k # Len(s) => next[s[Len(s)]] = NULL,
         \A i \in k + 1 .. Len(s) - 1 : next[s[i]] = s[i + 1],
         NEW j \in 0..Len(s) - k, NEW m \in j..Cardinality(Elems)
  PROVE  Walk[m][IF j = 0 THEN NULL ELSE s[Len(s) - j + 1]] = SubSeq(s, Len(s) - j + 1, Len(s))
<1>1. PICK n \in Nat, N \in Nat : n = Len(s) /\ N = Cardinality(Elems)
  BY FiniteAssumption, FS_CardinalityType
<1> DEFINE From(i) == IF i = 0 THEN NULL ELSE s[n - i + 1]
           S == {i \in Nat : i <= n - k => \A l \in i..N : Walk[l][From(i)] = SubSeq(s, n - i + 1, n)}
<1>2. 0 \in S
  <2>1. SubSeq(s, n + 1, n) = <<>> /\ n - 0 + 1 = n + 1
    BY <1>1
  <2>2. \A l \in 0..N : Walk[l][NULL] = <<>>
    BY <1>1, WalkLevel
  <2>3. QED
    BY <2>1, <2>2
<1>3. ASSUME NEW i \in Nat, i \in S PROVE i + 1 \in S
  <2> SUFFICES ASSUME i + 1 <= n - k, NEW l \in i + 1 .. N
               PROVE  Walk[l][From(i + 1)] = SubSeq(s, n - (i + 1) + 1, n)
    OBVIOUS
  <2>1. /\ n - i \in 1..n /\ n - i >= k + 1 /\ n - (i + 1) + 1 = n - i /\ (n - i) + 1 = n - i + 1
        /\ l - 1 \in i..N /\ l \in 0..N /\ l # 0 /\ i <= n - k
    <3>1. n \in Nat /\ N \in Nat /\ i \in Nat /\ k \in Nat /\ l \in i + 1 .. N /\ i + 1 <= n - k
      BY <1>1
    <3>2. QED
      BY ONLY <3>1
  <2>2. PICK e \in Elems : e = s[n - i]
    BY <1>1, <2>1
  <2>3. From(i + 1) = e
    BY <2>1, <2>2
  <2>4. next[e] = From(i)
    <3>1. CASE i = 0
      BY <1>1, <2>1, <2>2, <3>1
    <3>2. CASE i # 0
      <4>1. n - i \in k + 1 .. n - 1
        BY <2>1, <3>2
      <4>2. QED
        BY <1>1, <2>1, <2>2, <3>2, <4>1
    <3>3. QED
      BY <3>1, <3>2
  <2>5. Walk[l - 1][From(i)] = SubSeq(s, n - i + 1, n)
    BY <1>3, <2>1
  <2>6. Walk[l][e] = <<e>> \o Walk[l - 1][next[e]]
    BY <1>1, <2>1, <2>2, WalkLevel
  <2>7. <<e>> \o SubSeq(s, n - i + 1, n) = SubSeq(s, n - i, n)
    <3>1. <<s[n - i]>> \o SubSeq(s, (n - i) + 1, Len(s)) = SubSeq(s, n - i, Len(s))
      BY <1>1, <2>1, SubSeqHead
    <3>2. QED
      BY <1>1, <2>1, <2>2, <3>1
  <2>8. QED
    BY <2>1, <2>3, <2>4, <2>5, <2>6, <2>7
<1>4. \A i \in Nat : i \in S
  <2> HIDE DEF S
  <2>1. QED
    BY <1>2, <1>3, SetInduction
<1>5. j \in Nat /\ j <= n - k /\ m \in j..N
  BY <1>1
<1>6. QED
  BY <1>1, <1>4, <1>5

\* The pointers of c lead through exactly the values accepted and not taken.
LEMMA ContentsWaiting ==
  ASSUME ChanType, ListOK, SentOnce, NEW c \in Channels
  PROVE  Contents(c) = Waiting(c)
<1>1. PICK s \in Seq(Elems), k \in Nat, N \in Nat :
        s = sent[c] /\ k = Len(got[c]) /\ N = Cardinality(Elems)
  BY FiniteAssumption, FS_CardinalityType DEF ChanType
<1>2. Len(s) - k \in Nat /\ Len(s) - k <= N
  BY <1>1, WaitingBound
<1>3. /\ k <= Len(s)
      /\ k # Len(s) => next[s[Len(s)]] = NULL
      /\ \A i \in k + 1 .. Len(s) - 1 : next[s[i]] = s[i + 1]
      /\ head[c] = IF k = Len(s) THEN NULL ELSE s[k + 1]
  BY <1>1, <1>2 DEF ListOK, ListOf
<1>4. PICK j \in 0..Len(s) - k : j = Len(s) - k
  BY <1>2
<1>5. N \in j..Cardinality(Elems) /\ Len(s) - j + 1 = k + 1 /\ (j = 0 <=> k = Len(s))
  <2>0. Cardinality(Elems) = N
    BY <1>1
  <2>1. Len(s) \in Nat /\ k \in Nat /\ N \in Nat
    OBVIOUS
  <2>2. QED
    BY ONLY <2>0, <1>2, <1>4, <2>1
<1>6. Walk[N][IF j = 0 THEN NULL ELSE s[Len(s) - j + 1]] = SubSeq(s, Len(s) - j + 1, Len(s))
  BY <1>3, <1>5, WalkValue
<1>7. QED
  BY <1>1, <1>3, <1>5, <1>6 DEF Contents, Waiting

-----------------------------------------------------------------------------
(* References.                                                             *)

\* e waits in a channel.
Queued(e) == \E c \in Channels : \E i \in Len(got[c]) + 1 .. Len(sent[c]) : sent[c][i] = e

\* e is carried by a sender that has not got the mutex yet.
InHand(e) == \E t \in Threads : pc[t] = "send" /\ elem[t] = e

RInv == \A e \in Elems : e \in refs <=> Queued(e) \/ InHand(e)

LEMMA LinkedQueued ==
  ASSUME ChanType, ListOK, SentOnce, NEW c \in Channels
  PROVE  \A e : e \in Linked(c) <=> \E i \in Len(got[c]) + 1 .. Len(sent[c]) : sent[c][i] = e
<1>1. PICK s \in Seq(Elems), k \in Nat : s = sent[c] /\ k = Len(got[c])
  BY DEF ChanType
<1>2. k <= Len(s) /\ Len(s) \in Nat
  BY <1>1 DEF ListOK, ListOf
<1>3. Contents(c) = SubSeq(s, k + 1, Len(s))
  BY <1>1, ContentsWaiting DEF Waiting
<1>4. /\ Len(SubSeq(s, k + 1, Len(s))) = Len(s) - k
      /\ \A i \in 1..Len(s) - k : SubSeq(s, k + 1, Len(s))[i] = s[k + i]
  BY <1>2
<1>5. \A i \in k + 1 .. Len(s) : i - k \in 1..Len(s) - k /\ k + (i - k) = i
  BY <1>2
<1>6. \A j \in 1..Len(s) - k : k + j \in k + 1 .. Len(s)
  BY <1>2
<1>7. \A e : e \in Linked(c) <=> \E j \in 1..Len(s) - k : s[k + j] = e
  BY <1>3, <1>4 DEF Linked
<1>8. \A e : (\E j \in 1..Len(s) - k : s[k + j] = e) <=> \E i \in k + 1 .. Len(s) : s[i] = e
  BY <1>5, <1>6
<1>9. QED
  BY <1>1, <1>7, <1>8

LEMMA RefsMeaning ==
  ASSUME TInv, LInv
  PROVE  RInv <=> RefsExact
<1>1. /\ ChanType /\ ListOK /\ SentOnce /\ refs \subseteq Elems
      /\ \A c \in Channels : sent[c] \in Seq(Elems) /\ Len(got[c]) \in Nat
      /\ \A t \in Threads : pc[t] = "send" => elem[t] \in Elems
  BY DEF TInv, TypeOK, ChanType, LInv, ArgOK
<1>2. \A e : e \in UNION {Linked(c) : c \in Channels} <=> Queued(e)
  BY <1>1, LinkedQueued DEF Queued
<1>3. \A e : e \in {elem[t] : t \in {u \in Threads : pc[u] = "send"}} <=> InHand(e)
  BY DEF InHand
<1>4. \A e : Queued(e) \/ InHand(e) => e \in Elems
  <2>1. \A c \in Channels : \A i \in Len(got[c]) + 1 .. Len(sent[c]) : sent[c][i] \in Elems
    BY <1>1
  <2>2. QED
    BY <1>1, <2>1 DEF Queued, InHand
<1>5. RefsExact <=> \A e : e \in refs <=> Queued(e) \/ InHand(e)
  BY <1>2, <1>3 DEF RefsExact
<1>6. QED
  BY <1>1, <1>4, <1>5 DEF RInv

LEMMA InitRInv == Init => RInv
BY DEF Init, RInv, Queued, InHand

\* A step that neither queues nor takes and starts or ends no send.
LEMMA KeepR ==
  ASSUME RInv, UNCHANGED <<refs, sent, got>>,
         \A t \in Threads : (pc'[t] = "send" <=> pc[t] = "send") /\ (pc[t] = "send" => elem'[t] = elem[t])
  PROVE  RInv'
BY DEF RInv, Queued, InHand

\* Appending e to c makes e queued and changes nothing for the others.
LEMMA EnqueueQueued ==
  ASSUME ChanType, ListOK, NEW c \in Channels, NEW e \in Elems, Enqueue(c, e), UNCHANGED got
  PROVE  \A x \in Elems : Queued(x)' <=> Queued(x) \/ x = e
<1>1. /\ \A d \in Channels : Len(sent[d]) \in Nat /\ Len(got[d]) \in Nat /\ Len(got[d]) <= Len(sent[d])
      /\ got' = got
  BY DEF ChanType, ListOK, ListOf
<1>2. /\ Len(sent'[c]) = Len(sent[c]) + 1
      /\ sent'[c][Len(sent[c]) + 1] = e
      /\ \A i \in 1..Len(sent[c]) : sent'[c][i] = sent[c][i]
      /\ \A d \in Channels \ {c} : sent'[d] = sent[d]
  BY EnqueueSent
<1>3. ASSUME NEW x \in Elems, Queued(x) PROVE Queued(x)'
  <2>0. PICK d \in Channels : \E i \in Len(got[d]) + 1 .. Len(sent[d]) : sent[d][i] = x
    BY <1>3 DEF Queued
  <2>1. PICK i \in Len(got[d]) + 1 .. Len(sent[d]) : sent[d][i] = x
    BY <2>0
  <2>2. i \in Len(got'[d]) + 1 .. Len(sent'[d]) /\ sent'[d][i] = x
    BY <1>1, <1>2, <2>1
  <2>3. QED
    BY <2>2 DEF Queued
<1>4. Queued(e)'
  <2>1. Len(sent[c]) + 1 \in Len(got'[c]) + 1 .. Len(sent'[c])
    BY <1>1, <1>2
  <2>2. QED
    BY <1>2, <2>1 DEF Queued
<1>5. ASSUME NEW x \in Elems, Queued(x)', x # e PROVE Queued(x)
  <2>0. PICK d \in Channels : \E i \in Len(got'[d]) + 1 .. Len(sent'[d]) : sent'[d][i] = x
    BY <1>5 DEF Queued
  <2>1. PICK i \in Len(got'[d]) + 1 .. Len(sent'[d]) : sent'[d][i] = x
    BY <2>0
  <2>2. i \in Len(got[d]) + 1 .. Len(sent[d]) /\ sent[d][i] = x
    <3>1. CASE d = c
      <4>1. i # Len(sent[c]) + 1
        BY <1>2, <1>5, <2>1, <3>1
      <4>2. i \in Len(got[c]) + 1 .. Len(sent[c]) /\ i \in 1..Len(sent[c])
        BY <1>1, <1>2, <3>1, <4>1
      <4>3. QED
        BY <1>2, <2>1, <3>1, <4>2
    <3>2. CASE d # c
      BY <1>1, <1>2, <2>1, <3>2
    <3>3. QED
      BY <3>1, <3>2
  <2>3. QED
    BY <2>2 DEF Queued
<1>6. QED
  BY <1>3, <1>4, <1>5

\* Unlinking the first element of c ends its time in the queue, and only that.
LEMMA DequeueQueued ==
  ASSUME ChanType, ListOK, SentOnce, NEW c \in Channels, head[c] # NULL, Dequeue(c)
  PROVE  \A x \in Elems : Queued(x)' <=> Queued(x) /\ x # head[c]
<1>1. /\ \A d \in Channels : Len(sent[d]) \in Nat /\ Len(got[d]) \in Nat /\ Len(got[d]) <= Len(sent[d])
      /\ sent' = sent
  BY DEF ChanType, ListOK, ListOf, Dequeue
<1>2. Len(got[c]) < Len(sent[c]) /\ head[c] = sent[c][Len(got[c]) + 1]
  BY <1>1 DEF ListOK, ListOf
<1>3. Len(got'[c]) = Len(got[c]) + 1 /\ \A d \in Channels \ {c} : got'[d] = got[d]
  BY DEF Dequeue, ChanType
<1>4. ASSUME NEW x \in Elems, Queued(x)' PROVE Queued(x) /\ x # head[c]
  <2>0. PICK d \in Channels : \E i \in Len(got'[d]) + 1 .. Len(sent[d]) : sent[d][i] = x
    BY <1>1, <1>4 DEF Queued
  <2>1. PICK i \in Len(got'[d]) + 1 .. Len(sent[d]) : sent[d][i] = x
    BY <2>0
  <2>2. /\ i \in Len(got[d]) + 1 .. Len(sent[d]) /\ i \in 1..Len(sent[d])
        /\ d = c => i # Len(got[c]) + 1
    BY <1>1, <1>3, <2>1
  <2>3. Queued(x)
    BY <2>1, <2>2 DEF Queued
  <2>4. Len(got[c]) + 1 \in 1..Len(sent[c])
    BY <1>1, <1>2
  <2>5. x # head[c]
    BY <1>2, <2>1, <2>2, <2>4 DEF SentOnce
  <2>6. QED
    BY <2>3, <2>5
<1>5. ASSUME NEW x \in Elems, Queued(x), x # head[c] PROVE Queued(x)'
  <2>0. PICK d \in Channels : \E i \in Len(got[d]) + 1 .. Len(sent[d]) : sent[d][i] = x
    BY <1>5 DEF Queued
  <2>1. PICK i \in Len(got[d]) + 1 .. Len(sent[d]) : sent[d][i] = x
    BY <2>0
  <2>2. d = c => i # Len(got[c]) + 1
    BY <1>2, <1>5, <2>1
  <2>3. i \in Len(got'[d]) + 1 .. Len(sent'[d])
    BY <1>1, <1>3, <2>1, <2>2
  <2>4. QED
    BY <1>1, <2>1, <2>3 DEF Queued
<1>6. QED
  BY <1>4, <1>5

\* What is queued has been sent, so no sender carries it.
LEMMA QueuedNotInHand ==
  ASSUME TInv, LInv, NEW e \in Elems, Queued(e)
  PROVE  ~InHand(e)
<1>1. \A c \in Channels : Len(sent[c]) \in Nat /\ Len(got[c]) \in Nat
  BY DEF TInv, TypeOK, ChanType
<1>2. ~Unsent(e)
  <2>0. PICK c \in Channels : \E i \in Len(got[c]) + 1 .. Len(sent[c]) : sent[c][i] = e
    BY DEF Queued
  <2>1. PICK i \in Len(got[c]) + 1 .. Len(sent[c]) : sent[c][i] = e
    BY <2>0
  <2>2. i \in 1..Len(sent[c])
    BY <1>1, <2>1
  <2>3. QED
    BY <2>1, <2>2 DEF Unsent
<1>3. QED
  BY <1>2 DEF InHand, LInv, Carried

LEMMA DequeueR ==
  ASSUME TInv, LInv, RInv, NEW c \in Channels, head[c] # NULL, Dequeue(c),
         \A t \in Threads : (pc'[t] = "send" <=> pc[t] = "send") /\ (pc[t] = "send" => elem'[t] = elem[t])
  PROVE  RInv'
<1>1. ChanType /\ ListOK /\ SentOnce /\ head[c] \in Elems /\ refs' = refs \ {head[c]}
  BY DEF TInv, TypeOK, ChanType, LInv, Dequeue
<1>2. Queued(head[c])
  <2>1. Len(got[c]) \in Nat /\ Len(sent[c]) \in Nat
    BY <1>1 DEF ChanType
  <2>2. Len(got[c]) + 1 \in Len(got[c]) + 1 .. Len(sent[c]) /\ head[c] = sent[c][Len(got[c]) + 1]
    BY <1>1, <2>1 DEF ListOK, ListOf
  <2>3. QED
    BY <2>2 DEF Queued
<1>3. ~InHand(head[c])
  BY <1>1, <1>2, QueuedNotInHand
<1>4. \A x \in Elems : InHand(x)' <=> InHand(x)
  BY DEF InHand
<1>5. \A x \in Elems : Queued(x)' <=> Queued(x) /\ x # head[c]
  BY <1>1, DequeueQueued
<1>6. QED
  BY <1>1, <1>3, <1>4, <1>5 DEF RInv

LEMMA TakeCaseR ==
  ASSUME TInv, LInv, RInv, NEW t \in Threads, MoreCases(t), TakeCase(t),
         \A u \in Threads : (pc'[u] = "send" <=> pc[u] = "send") /\ (pc[u] = "send" => elem'[u] = elem[u])
  PROVE  RInv'
<1>1. Case(t) \in Channels
  BY CaseIsChannel DEF TInv
<1>2. CASE head[Case(t)] # NULL
  BY <1>1, <1>2, DequeueR DEF TakeCase
<1>3. CASE head[Case(t)] = NULL
  BY <1>3, KeepR DEF TakeCase, chan
<1>4. QED
  BY <1>2, <1>3

LEMMA WakeSenders ==
  ASSUME TypeOK, SleepOK, NEW t \in Threads, NEW c \in Channels, NEW W \in SUBSET condq[c],
         WakeAndNotify(t, c, W)
  PROVE  \A u \in Threads : pc'[u] = "send" <=> pc[u] = "send" /\ u # t
<1>1. \A u \in W : pc[u] = "recv_wait"
  BY DEF SleepOK
<1>2. QED
  BY <1>1 DEF TypeOK, ThreadType, WakeAndNotify

LEMMA StepRInv == TInv /\ LInv /\ RInv /\ [Next]_vars => RInv'
<1> SUFFICES ASSUME TInv, LInv, RInv, [Next]_vars PROVE RInv'
  OBVIOUS
<1>0. /\ TypeOK /\ ChanType /\ SyncType /\ ThreadType /\ ArgOK /\ SleepOK
      /\ ListOK /\ SentOnce
  BY DEF TInv, TypeOK, LInv
<1>1. ASSUME NEW t \in Threads, NEW c \in Channels, NEW e \in Elems, Send(t, c, e)
     PROVE  RInv'
  <2>1. /\ UNCHANGED <<sent, got>> /\ refs' = refs \cup {e} /\ pc[t] = "idle"
        /\ pc' = [pc EXCEPT ![t] = "send"] /\ elem' = [elem EXCEPT ![t] = e]
    BY <1>1 DEF Send, Enter
  <2>2. \A x \in Elems : Queued(x)' <=> Queued(x)
    BY <2>1 DEF Queued
  <2>3. \A x \in Elems : InHand(x)' <=> InHand(x) \/ x = e
    BY <1>0, <2>1 DEF InHand, ThreadType
  <2>4. QED
    BY <2>1, <2>2, <2>3 DEF RInv
<1>2. ASSUME NEW t \in Threads, NEW c \in Channels, NEW e \in Elems, SendFails(t, c, e)
     PROVE  RInv'
  <2>1. UNCHANGED <<refs, sent, got>>
    BY <1>2 DEF SendFails, chan
  <2>2. \A u \in Threads : (pc'[u] = "send" <=> pc[u] = "send") /\ (pc[u] = "send" => elem'[u] = elem[u])
    BY <1>0, <1>2 DEF SendFails, Return, ThreadType
  <2>3. QED
    BY <2>1, <2>2, KeepR
<1>3. ASSUME NEW t \in Threads, SendOpen(t)
     PROVE  RInv'
  <2>1. arg[t] \in Channels /\ elem[t] \in Elems /\ pc[t] = "send"
    BY <1>0, <1>3 DEF SendOpen, ArgOK
  <2>2. PICK W \in Signalled(arg[t]) : WakeAndNotify(t, arg[t], W)
    BY <1>3 DEF SendOpen
  <2>3. W \in SUBSET condq[arg[t]]
    BY <2>1, <2>2, SignalledSubset
  <2>4. \A u \in Threads : pc'[u] = "send" <=> pc[u] = "send" /\ u # t
    BY <1>0, <2>1, <2>2, <2>3, WakeSenders
  <2>5. \A x \in Elems : InHand(x)' <=> InHand(x) /\ x # elem[t]
    BY <1>0, <1>3, <2>1, <2>4 DEF SendOpen, InHand, LInv, Carried
  <2>6. \A x \in Elems : Queued(x)' <=> Queued(x) \/ x = elem[t]
    BY <1>0, <1>3, <2>1, EnqueueQueued DEF SendOpen
  <2>7. InHand(elem[t]) /\ refs' = refs
    BY <1>3, <2>1 DEF InHand, SendOpen
  <2>8. QED
    BY <2>1, <2>5, <2>6, <2>7 DEF RInv
<1>4. ASSUME NEW t \in Threads, SendClosed(t)
     PROVE  RInv'
  <2>1. elem[t] \in Elems /\ pc[t] = "send" /\ UNCHANGED <<sent, got>> /\ refs' = refs \ {elem[t]}
    BY <1>0, <1>4 DEF SendClosed, ArgOK
  <2>2. \A u \in Threads : (pc'[u] = "send" <=> pc[u] = "send" /\ u # t) /\ (u # t => elem'[u] = elem[u])
    BY <1>0, <1>4 DEF SendClosed, Return, ThreadType
  <2>3. \A x \in Elems : InHand(x)' <=> InHand(x) /\ x # elem[t]
    BY <1>0, <2>1, <2>2 DEF InHand, LInv, Carried
  <2>4. \A x \in Elems : Queued(x)' <=> Queued(x)
    BY <2>1 DEF Queued
  <2>5. ~Queued(elem[t])
    BY <2>1, QueuedNotInHand DEF InHand
  <2>6. QED
    BY <2>1, <2>3, <2>4, <2>5 DEF RInv
<1>5. ASSUME NEW t \in Threads, NEW c \in Channels, NEW e \in Elems, TrySend(t, c, e)
     PROVE  RInv'
  <2>1. PICK W \in Signalled(c) : WakeAndNotify(t, c, W)
    BY <1>5 DEF TrySend
  <2>2. W \in SUBSET condq[c]
    BY <2>1, SignalledSubset
  <2>3. \A u \in Threads : pc'[u] = "send" <=> pc[u] = "send" /\ u # t
    BY <1>0, <2>1, <2>2, WakeSenders
  <2>4. pc[t] = "idle" /\ refs' = refs \cup {e} /\ elem' = [elem EXCEPT ![t] = NULL]
    BY <1>5 DEF TrySend, Enter
  <2>5. \A x \in Elems : InHand(x)' <=> InHand(x)
    BY <1>0, <2>3, <2>4 DEF InHand, ThreadType
  <2>6. \A x \in Elems : Queued(x)' <=> Queued(x) \/ x = e
    BY <1>0, <1>5, EnqueueQueued DEF TrySend
  <2>7. QED
    BY <2>4, <2>5, <2>6 DEF RInv
<1>6. ASSUME NEW t \in Threads, NEW c \in Channels, NEW e \in Elems, TrySendRefused(t, c, e)
     PROVE  RInv'
  <2>1. UNCHANGED <<refs, sent, got>>
    BY <1>6 DEF TrySendRefused, chan
  <2>2. \A u \in Threads : (pc'[u] = "send" <=> pc[u] = "send") /\ (pc[u] = "send" => elem'[u] = elem[u])
    BY <1>0, <1>6 DEF TrySendRefused, Return, ThreadType
  <2>3. QED
    BY <2>1, <2>2, KeepR
<1>7. ASSUME NEW t \in Threads, NEW c \in Channels, Close(t, c)
     PROVE  RInv'
  <2>1. WakeAndNotify(t, c, condq[c]) /\ condq[c] \in SUBSET condq[c] /\ pc[t] = "idle"
    BY <1>7 DEF Close
  <2>2. \A u \in Threads : pc'[u] = "send" <=> pc[u] = "send" /\ u # t
    BY <1>0, <2>1, WakeSenders
  <2>3. \A u \in Threads : (pc'[u] = "send" <=> pc[u] = "send") /\ (pc[u] = "send" => elem'[u] = elem[u])
    BY <1>0, <1>7, <2>1, <2>2 DEF Close, Enter, ThreadType
  <2>4. QED
    BY <1>7, <2>3, KeepR DEF Close
<1>8. ASSUME NEW t \in Threads, Notify(t)
     PROVE  RInv'
  <2>1. UNCHANGED <<refs, sent, got>>
    BY <1>8 DEF Notify, chan
  <2>2. \A u \in Threads : (pc'[u] = "send" <=> pc[u] = "send") /\ (pc[u] = "send" => elem'[u] = elem[u])
    BY <1>0, <1>8 DEF Notify, ThreadType
  <2>3. QED
    BY <2>1, <2>2, KeepR
<1>9. ASSUME NEW t \in Threads, Unlock(t)
     PROVE  RInv'
  <2>1. UNCHANGED <<refs, sent, got>>
    BY <1>9 DEF Unlock, chan
  <2>2. \A u \in Threads : (pc'[u] = "send" <=> pc[u] = "send") /\ (pc[u] = "send" => elem'[u] = elem[u])
    BY <1>0, <1>9 DEF Unlock, Return, ThreadType
  <2>3. QED
    BY <2>1, <2>2, KeepR
<1>10. ASSUME NEW t \in Threads, NEW c \in Channels, Receive(t, c)
     PROVE  RInv'
  <2>1. UNCHANGED <<refs, sent, got>>
    BY <1>10 DEF Receive, chan
  <2>2. \A u \in Threads : (pc'[u] = "send" <=> pc[u] = "send") /\ (pc[u] = "send" => elem'[u] = elem[u])
    BY <1>0, <1>10 DEF Receive, Enter, ThreadType
  <2>3. QED
    BY <2>1, <2>2, KeepR
<1>11. ASSUME NEW t \in Threads, ReceiveElem(t)
     PROVE  RInv'
  <2>1. \A u \in Threads : (pc'[u] = "send" <=> pc[u] = "send") /\ (pc[u] = "send" => elem'[u] = elem[u])
    BY <1>0, <1>11 DEF ReceiveElem, Return, ThreadType
  <2>2. QED
    BY <1>0, <1>11, <2>1, DequeueR DEF ReceiveElem, ArgOK
<1>12. ASSUME NEW t \in Threads, ReceiveClosed(t)
     PROVE  RInv'
  <2>1. UNCHANGED <<refs, sent, got>>
    BY <1>12 DEF ReceiveClosed, chan
  <2>2. \A u \in Threads : (pc'[u] = "send" <=> pc[u] = "send") /\ (pc[u] = "send" => elem'[u] = elem[u])
    BY <1>0, <1>12 DEF ReceiveClosed, Return, ThreadType
  <2>3. QED
    BY <2>1, <2>2, KeepR
<1>13. ASSUME NEW t \in Threads, ReceiveWait(t)
     PROVE  RInv'
  <2>1. UNCHANGED <<refs, sent, got>>
    BY <1>13 DEF ReceiveWait, chan
  <2>2. \A u \in Threads : (pc'[u] = "send" <=> pc[u] = "send") /\ (pc[u] = "send" => elem'[u] = elem[u])
    BY <1>0, <1>13 DEF ReceiveWait, ThreadType
  <2>3. QED
    BY <2>1, <2>2, KeepR
<1>14. ASSUME NEW t \in Threads, SpuriousWakeup(t)
     PROVE  RInv'
  <2>1. UNCHANGED <<refs, sent, got>>
    BY <1>14 DEF SpuriousWakeup, chan
  <2>2. \A u \in Threads : (pc'[u] = "send" <=> pc[u] = "send") /\ (pc[u] = "send" => elem'[u] = elem[u])
    BY <1>0, <1>14 DEF SpuriousWakeup, ThreadType
  <2>3. QED
    BY <2>1, <2>2, KeepR
<1>15. ASSUME NEW t \in Threads, NEW c \in Channels, TryReceive(t, c)
     PROVE  RInv'
  <2>1. \A u \in Threads : (pc'[u] = "send" <=> pc[u] = "send") /\ (pc[u] = "send" => elem'[u] = elem[u])
    BY <1>0, <1>15 DEF TryReceive, Return, ThreadType
  <2>2. CASE head[c] # NULL
    BY <1>15, <2>1, <2>2, DequeueR DEF TryReceive
  <2>3. CASE head[c] = NULL
    BY <1>15, <2>1, <2>3, KeepR DEF TryReceive, chan
  <2>4. QED
    BY <2>2, <2>3
<1>16. ASSUME NEW t \in Threads, NEW c \in Channels, Peek(t, c)
     PROVE  RInv'
  <2>1. UNCHANGED <<refs, sent, got>>
    BY <1>16 DEF Peek, chan
  <2>2. \A u \in Threads : (pc'[u] = "send" <=> pc[u] = "send") /\ (pc[u] = "send" => elem'[u] = elem[u])
    BY <1>0, <1>16 DEF Peek, Enter, ThreadType
  <2>3. QED
    BY <2>1, <2>2, KeepR
<1>32. ASSUME NEW t \in Threads, PeekReturn(t)
     PROVE  RInv'
  <2>1. UNCHANGED <<refs, sent, got>>
    BY <1>32 DEF PeekReturn, chan
  <2>2. \A u \in Threads : (pc'[u] = "send" <=> pc[u] = "send") /\ (pc[u] = "send" => elem'[u] = elem[u])
    BY <1>0, <1>32 DEF PeekReturn, Return, ThreadType
  <2>3. QED
    BY <2>1, <2>2, KeepR
<1>17. ASSUME NEW t \in Threads, NEW cs \in CaseLists, NEW tm \in BOOLEAN, Pick(t, cs, tm)
     PROVE  RInv'
  <2>1. UNCHANGED <<refs, sent, got>>
    BY <1>17 DEF Pick, chan
  <2>2. \A u \in Threads : (pc'[u] = "send" <=> pc[u] = "send") /\ (pc[u] = "send" => elem'[u] = elem[u])
    BY <1>0, <1>17 DEF Pick, ThreadType
  <2>3. QED
    BY <2>1, <2>2, KeepR
<1>18. ASSUME NEW t \in Threads, ScanTake(t)
     PROVE  RInv'
  <2>1. \A u \in Threads : (pc'[u] = "send" <=> pc[u] = "send") /\ (pc[u] = "send" => elem'[u] = elem[u])
    BY <1>0, <1>18 DEF ScanTake, Goto, ThreadType
  <2>2. QED
    BY <1>0, <1>18, <2>1, TakeCaseR DEF ScanTake
<1>19. ASSUME NEW t \in Threads, ScanRegister(t)
     PROVE  RInv'
  <2>1. UNCHANGED <<refs, sent, got>>
    BY <1>19 DEF ScanRegister, chan
  <2>2. \A u \in Threads : (pc'[u] = "send" <=> pc[u] = "send") /\ (pc[u] = "send" => elem'[u] = elem[u])
    BY <1>0, <1>19 DEF ScanRegister, Goto, ThreadType
  <2>3. QED
    BY <2>1, <2>2, KeepR
<1>20. ASSUME NEW t \in Threads, ScanNoMemory(t)
     PROVE  RInv'
  <2>1. UNCHANGED <<refs, sent, got>>
    BY <1>20 DEF ScanNoMemory, chan
  <2>2. \A u \in Threads : (pc'[u] = "send" <=> pc[u] = "send") /\ (pc[u] = "send" => elem'[u] = elem[u])
    BY <1>0, <1>20 DEF ScanNoMemory, Goto, ThreadType
  <2>3. QED
    BY <2>1, <2>2, KeepR
<1>21. ASSUME NEW t \in Threads, ScanEnd(t)
     PROVE  RInv'
  <2>1. UNCHANGED <<refs, sent, got>>
    BY <1>21 DEF ScanEnd, chan
  <2>2. \A u \in Threads : (pc'[u] = "send" <=> pc[u] = "send") /\ (pc[u] = "send" => elem'[u] = elem[u])
    BY <1>0, <1>21 DEF ScanEnd, Goto, ThreadType
  <2>3. QED
    BY <2>1, <2>2, KeepR
<1>22. ASSUME NEW t \in Threads, CheckSignaled(t)
     PROVE  RInv'
  <2>1. UNCHANGED <<refs, sent, got>>
    BY <1>22 DEF CheckSignaled, chan
  <2>2. \A u \in Threads : (pc'[u] = "send" <=> pc[u] = "send") /\ (pc[u] = "send" => elem'[u] = elem[u])
    BY <1>0, <1>22 DEF CheckSignaled, ThreadType
  <2>3. QED
    BY <2>1, <2>2, KeepR
<1>23. ASSUME NEW t \in Threads, PickSpurious(t)
     PROVE  RInv'
  <2>1. UNCHANGED <<refs, sent, got>>
    BY <1>23 DEF PickSpurious, chan
  <2>2. \A u \in Threads : (pc'[u] = "send" <=> pc[u] = "send") /\ (pc[u] = "send" => elem'[u] = elem[u])
    BY <1>0, <1>23 DEF PickSpurious, ThreadType
  <2>3. QED
    BY <2>1, <2>2, KeepR
<1>24. ASSUME NEW t \in Threads, PickTimeout(t)
     PROVE  RInv'
  <2>1. UNCHANGED <<refs, sent, got>>
    BY <1>24 DEF PickTimeout, chan
  <2>2. \A u \in Threads : (pc'[u] = "send" <=> pc[u] = "send") /\ (pc[u] = "send" => elem'[u] = elem[u])
    BY <1>0, <1>24 DEF PickTimeout, ThreadType
  <2>3. QED
    BY <2>1, <2>2, KeepR
<1>25. ASSUME NEW t \in Threads, Unregister(t)
     PROVE  RInv'
  <2>1. UNCHANGED <<refs, sent, got>>
    BY <1>25 DEF Unregister, chan
  <2>2. \A u \in Threads : (pc'[u] = "send" <=> pc[u] = "send") /\ (pc[u] = "send" => elem'[u] = elem[u])
    BY <1>0, <1>25 DEF Unregister, ThreadType
  <2>3. QED
    BY <2>1, <2>2, KeepR
<1>26. ASSUME NEW t \in Threads, UnregisterEnd(t)
     PROVE  RInv'
  <2>1. UNCHANGED <<refs, sent, got>>
    BY <1>26 DEF UnregisterEnd, chan
  <2>2. \A u \in Threads : (pc'[u] = "send" <=> pc[u] = "send") /\ (pc[u] = "send" => elem'[u] = elem[u])
    BY <1>0, <1>26 DEF UnregisterEnd, PickReturn, Goto, ThreadType
  <2>3. QED
    BY <2>1, <2>2, KeepR
<1>27. ASSUME NEW t \in Threads, RescanTake(t)
     PROVE  RInv'
  <2>1. \A u \in Threads : (pc'[u] = "send" <=> pc[u] = "send") /\ (pc[u] = "send" => elem'[u] = elem[u])
    BY <1>0, <1>27 DEF RescanTake, PickReturn, Goto, ThreadType
  <2>2. QED
    BY <1>0, <1>27, <2>1, TakeCaseR DEF RescanTake
<1>28. ASSUME NEW t \in Threads, RescanSkip(t)
     PROVE  RInv'
  <2>1. UNCHANGED <<refs, sent, got>>
    BY <1>28 DEF RescanSkip, chan
  <2>2. \A u \in Threads : (pc'[u] = "send" <=> pc[u] = "send") /\ (pc[u] = "send" => elem'[u] = elem[u])
    BY <1>0, <1>28 DEF RescanSkip, Goto, ThreadType
  <2>3. QED
    BY <2>1, <2>2, KeepR
<1>29. ASSUME NEW t \in Threads, RescanEnd(t)
     PROVE  RInv'
  <2>1. UNCHANGED <<refs, sent, got>>
    BY <1>29 DEF RescanEnd, chan
  <2>2. \A u \in Threads : (pc'[u] = "send" <=> pc[u] = "send") /\ (pc[u] = "send" => elem'[u] = elem[u])
    BY <1>0, <1>29 DEF RescanEnd, PickReturn, Goto, ThreadType
  <2>3. QED
    BY <2>1, <2>2, KeepR
<1>30. ASSUME NEW c \in Channels, Collect(c)
     PROVE  RInv'
  <2>1. /\ sent' = [sent EXCEPT ![c] = <<>>] /\ got' = [got EXCEPT ![c] = <<>>]
        /\ refs' = refs \ Linked(c) /\ UNCHANGED <<pc, elem>>
    BY <1>30 DEF Collect
  <2>2. /\ sent'[c] = <<>> /\ got'[c] = <<>>
        /\ \A d \in Channels \ {c} : sent'[d] = sent[d] /\ got'[d] = got[d]
    BY <1>0, <2>1 DEF ChanType
  <2>3. \A x : x \in Linked(c) <=> \E i \in Len(got[c]) + 1 .. Len(sent[c]) : sent[c][i] = x
    BY <1>0, LinkedQueued
  <2>4. \A x \in Elems : Queued(x)' <=>
           \E d \in Channels \ {c} : \E i \in Len(got[d]) + 1 .. Len(sent[d]) : sent[d][i] = x
    BY <2>2 DEF Queued
  <2>5. \A x \in Elems : Queued(x) <=> Queued(x)' \/ x \in Linked(c)
    BY <2>3, <2>4 DEF Queued
  <2>6. ASSUME NEW x \in Elems, x \in Linked(c) PROVE ~Queued(x)' /\ ~InHand(x)
    <3>1. PICK i \in Len(got[c]) + 1 .. Len(sent[c]) : sent[c][i] = x
      BY <2>3, <2>6
    <3>2. \A d \in Channels : Len(got[d]) \in Nat /\ Len(sent[d]) \in Nat
      BY <1>0 DEF ChanType
    <3>3. ~Queued(x)'
      BY <1>0, <2>4, <3>1, <3>2 DEF SentOnce
    <3>4. ~InHand(x)
      BY <2>5, <2>6, QueuedNotInHand
    <3>5. QED
      BY <3>3, <3>4
  <2>7. \A x \in Elems : InHand(x)' <=> InHand(x)
    BY <2>1 DEF InHand
  <2>8. QED
    BY <2>1, <2>5, <2>6, <2>7 DEF RInv
<1>31. CASE UNCHANGED vars
  BY <1>31, KeepR DEF vars, chan
<1>. QED
  BY <1>1, <1>2, <1>3, <1>4, <1>5, <1>6, <1>7, <1>8, <1>9, <1>10, <1>11, <1>12, <1>13, <1>14, <1>15, <1>16, <1>17, <1>18, <1>19, <1>20, <1>21, <1>22, <1>23, <1>24, <1>25, <1>26, <1>27, <1>28, <1>29, <1>30, <1>31, <1>32 DEF Next, Call, Inside, Outside

\* The registry keeps a reference for exactly the elements linked in a channel
\* or carried by a sender: no error path loses one, and none is released while
\* the element can still be received.
THEOREM ReferencesExact == Spec => []RefsExact
<1>1. Init => TInv /\ LInv /\ RInv
  BY InitTInv, InitLInv, InitRInv
<1>2. (TInv /\ LInv /\ RInv) /\ [Next]_vars => (TInv /\ LInv /\ RInv)'
  BY StepTInv, StepLInv, StepRInv
<1>3. TInv /\ LInv /\ RInv => RefsExact
  BY RefsMeaning
<1>4. QED
  BY <1>1, <1>2, <1>3, PTL DEF Spec

-----------------------------------------------------------------------------
(* Wake-ups.                                                               *)

\* How many values c holds, and who is on the way to take one.
Backlog(c) == Len(sent[c]) - Len(got[c])
Receivers(c) == {t \in Threads : pc[t] = "recv" /\ arg[t] = c}

WOf(c) == condq[c] # {} => ~closed[c] /\ Backlog(c) <= Cardinality(Receivers(c))

WInv == \A c \in Channels : WOf(c)

LEMMA BacklogNat ==
  ASSUME ChanType, ListOK, NEW c \in Channels
  PROVE  Backlog(c) \in Nat /\ Len(Waiting(c)) = Backlog(c)
<1>1. PICK s \in Seq(Elems), k \in Nat : s = sent[c] /\ k = Len(got[c])
  BY DEF ChanType
<1>2. k <= Len(s)
  BY <1>1 DEF ListOK, ListOf
<1>3. Len(SubSeq(s, k + 1, Len(s))) = Len(s) - k /\ Len(s) - k \in Nat
  BY <1>2
<1>4. Backlog(c) = Len(s) - k /\ Waiting(c) = SubSeq(s, k + 1, Len(s))
  BY <1>1 DEF Backlog, Waiting
<1>5. QED
  BY <1>3, <1>4

LEMMA ReceiversFinite ==
  ASSUME NEW c
  PROVE  /\ IsFiniteSet(Receivers(c)) /\ Cardinality(Receivers(c)) \in Nat
         /\ IsFiniteSet(Receivers(c)') /\ Cardinality(Receivers(c)') \in Nat
<1>1. Receivers(c) \in SUBSET Threads /\ Receivers(c)' \in SUBSET Threads
  BY DEF Receivers
<1>2. IsFiniteSet(Receivers(c)) /\ IsFiniteSet(Receivers(c)')
  BY <1>1, FiniteAssumption, FS_Subset
<1>3. QED
  BY <1>2, FS_CardinalityType

\* What a step may do to c without breaking the promise to its sleepers.
LEMMA KeepOf ==
  ASSUME ChanType, ListOK, ChanType', ListOK', NEW c \in Channels, WOf(c),
         condq'[c] \subseteq condq[c], closed'[c] = closed[c],
         Backlog(c)' <= Backlog(c), Receivers(c) \subseteq Receivers(c)'
  PROVE  WOf(c)'
<1>1. Backlog(c) \in Nat /\ Backlog(c)' \in Nat
  <2>1. Backlog(c) \in Nat
    BY BacklogNat
  <2>2. Backlog(c)' \in Nat
    BY DEF ChanType, ListOK, ListOf, Backlog
  <2>3. QED
    BY <2>1, <2>2
<1>2. /\ Cardinality(Receivers(c)) <= Cardinality(Receivers(c)')
      /\ Cardinality(Receivers(c)) \in Nat /\ Cardinality(Receivers(c)') \in Nat
  BY ReceiversFinite, FS_Subset
<1>3. QED
  BY <1>1, <1>2 DEF WOf

LEMMA KeepW ==
  ASSUME ChanType, ListOK, ChanType', ListOK', WInv, UNCHANGED <<condq, closed, sent, got>>,
         \A u \in Threads : pc[u] = "recv" => pc'[u] = "recv" /\ arg'[u] = arg[u]
  PROVE  WInv'
<1> SUFFICES ASSUME NEW c \in Channels PROVE WOf(c)'
  BY DEF WInv
<1>1. Receivers(c) \subseteq Receivers(c)'
  BY DEF Receivers
<1>2. Backlog(c)' <= Backlog(c)
  BY BacklogNat DEF Backlog
<1>3. QED
  BY <1>1, <1>2, KeepOf DEF WInv

LEMMA DequeueBacklog ==
  ASSUME ChanType, ListOK, NEW c \in Channels, head[c] # NULL, Dequeue(c)
  PROVE  Backlog(c)' = Backlog(c) - 1 /\ \A d \in Channels \ {c} : Backlog(d)' = Backlog(d)
<1>1. Len(got'[c]) = Len(got[c]) + 1 /\ \A d \in Channels \ {c} : got'[d] = got[d]
  BY DEF Dequeue, ChanType
<1>2. sent' = sent /\ Len(got[c]) \in Nat /\ Len(sent[c]) \in Nat
  BY DEF Dequeue, ChanType
<1>3. Len(sent[c]) - (Len(got[c]) + 1) = (Len(sent[c]) - Len(got[c])) - 1
  BY <1>2
<1>4. Backlog(c)' = Backlog(c) - 1
  BY <1>1, <1>2, <1>3 DEF Backlog
<1>5. \A d \in Channels \ {c} : Backlog(d)' = Backlog(d)
  BY <1>1, <1>2, Zenon DEF Backlog
<1>6. QED
  BY <1>4, <1>5

LEMMA DequeueW ==
  ASSUME ChanType, ListOK, ChanType', ListOK', WInv, NEW c \in Channels, head[c] # NULL, Dequeue(c),
         UNCHANGED condq,
         \A u \in Threads : pc[u] = "recv" => pc'[u] = "recv" /\ arg'[u] = arg[u]
  PROVE  WInv'
<1> SUFFICES ASSUME NEW d \in Channels PROVE WOf(d)'
  BY DEF WInv
<1>1. Receivers(d) \subseteq Receivers(d)'
  BY DEF Receivers
<1>2. Backlog(d)' <= Backlog(d)
  BY BacklogNat, DequeueBacklog
<1>3. QED
  BY <1>1, <1>2, KeepOf DEF WInv, Dequeue

LEMMA TakeCaseW ==
  ASSUME TypeOK, ListOK, ChanType', ListOK', WInv, NEW t \in Threads, MoreCases(t), TakeCase(t),
         UNCHANGED condq,
         \A u \in Threads : pc[u] = "recv" => pc'[u] = "recv" /\ arg'[u] = arg[u]
  PROVE  WInv'
<1>1. Case(t) \in Channels /\ ChanType
  BY CaseIsChannel DEF TypeOK
<1>2. CASE head[Case(t)] # NULL
  BY <1>1, <1>2, DequeueW DEF TakeCase
<1>3. CASE head[Case(t)] = NULL
  BY <1>1, <1>3, KeepW DEF TakeCase, chan
<1>4. QED
  BY <1>2, <1>3

LEMMA WakeReceivers ==
  ASSUME TypeOK, SleepOK, NEW t \in Threads, pc[t] # "recv", NEW c \in Channels,
         NEW W \in SUBSET condq[c], WakeAndNotify(t, c, W),
         \A u \in Threads \ {t} : arg'[u] = arg[u]
  PROVE  /\ \A d \in Channels \ {c} : condq'[d] = condq[d] /\ Receivers(d) \subseteq Receivers(d)'
         /\ condq'[c] = condq[c] \ W
         /\ t \notin W => Receivers(c)' = Receivers(c) \cup W
<1>1. \A u \in W : u \in Threads /\ pc[u] = "recv_wait" /\ arg[u] = c
  BY DEF SleepOK, TypeOK, SyncType
<1>2. \A u \in Threads : pc'[u] = IF u = t THEN "notify" ELSE IF u \in W THEN "recv" ELSE pc[u]
  BY DEF WakeAndNotify
<1>3. \A d \in Channels : condq'[d] = IF d = c THEN condq[c] \ W ELSE condq[d]
  BY DEF WakeAndNotify, TypeOK, SyncType
<1>4. \A d \in Channels : Receivers(d) \subseteq Receivers(d)'
  BY <1>1, <1>2 DEF Receivers
<1>5. ASSUME t \notin W PROVE Receivers(c)' = Receivers(c) \cup W
  BY <1>1, <1>2, <1>5 DEF Receivers
<1>6. QED
  BY <1>3, <1>4, <1>5

\* One more value, and one more receiver on its way if anybody sleeps.
LEMMA EnqueueW ==
  ASSUME TypeOK, SleepOK, ListOK, ChanType', ListOK', WInv,
         NEW t \in Threads, pc[t] \in {"idle", "send"}, NEW c \in Channels, NEW e \in Elems,
         Enqueue(c, e), UNCHANGED <<got, closed>>, ~closed[c],
         NEW W \in Signalled(c), WakeAndNotify(t, c, W),
         \A u \in Threads \ {t} : arg'[u] = arg[u]
  PROVE  WInv'
<1>1. ChanType /\ W \in SUBSET condq[c]
  BY SignalledSubset DEF TypeOK
<1>2. t \notin W
  BY <1>1 DEF SleepOK
<1>3. /\ \A d \in Channels \ {c} : condq'[d] = condq[d] /\ Receivers(d) \subseteq Receivers(d)'
      /\ condq'[c] = condq[c] \ W
      /\ Receivers(c)' = Receivers(c) \cup W
  BY <1>1, <1>2, WakeReceivers
<1>4. /\ Len(sent'[c]) = Len(sent[c]) + 1
      /\ \A d \in Channels \ {c} : sent'[d] = sent[d]
  BY <1>1, EnqueueSent
<1>5. WOf(c)'
  <2> SUFFICES ASSUME condq'[c] # {} PROVE Backlog(c)' <= Cardinality(Receivers(c)')
    BY DEF WOf
  <2>1. condq[c] # {}
    BY <1>3
  <2>2. PICK w \in condq[c] : W = {w}
    BY <2>1 DEF Signalled
  <2>3. w \notin Receivers(c)
    BY <2>2 DEF SleepOK, Receivers
  <2>4. Cardinality(Receivers(c)') = Cardinality(Receivers(c)) + 1
    <3>1. Receivers(c)' = Receivers(c) \cup {w}
      BY <1>3, <2>2
    <3>2. IsFiniteSet(Receivers(c))
      BY ReceiversFinite
    <3>3. QED
      BY <2>3, <3>1, <3>2, FS_AddElement
  <2>5. Backlog(c)' = Backlog(c) + 1 /\ Backlog(c) \in Nat
    BY <1>1, <1>4, BacklogNat DEF Backlog, ChanType
  <2>6. QED
    BY <2>1, <2>4, <2>5, ReceiversFinite DEF WInv, WOf
<1>6. ASSUME NEW d \in Channels \ {c} PROVE WOf(d)'
  <2>1. Backlog(d)' <= Backlog(d)
    BY <1>1, <1>4, BacklogNat DEF Backlog
  <2>2. QED
    BY <1>1, <1>3, <2>1, KeepOf DEF WInv
<1>7. QED
  BY <1>5, <1>6 DEF WInv

LEMMA StepWInv == TInv /\ LInv /\ WInv /\ [Next]_vars => WInv'
<1> SUFFICES ASSUME TInv, LInv, WInv, [Next]_vars PROVE WInv'
  OBVIOUS
<1>0. /\ TypeOK /\ ChanType /\ SyncType /\ ThreadType /\ ArgOK /\ SleepOK
      /\ ListOK /\ ChanType' /\ ListOK'
  BY StepTInv, StepLInv DEF TInv, TypeOK, LInv
<1>1. ASSUME NEW t \in Threads, NEW c \in Channels, NEW e \in Elems, Send(t, c, e)
     PROVE  WInv'
  <2>1. UNCHANGED <<condq, closed, sent, got>>
    BY <1>1 DEF Send, chan, sync
  <2>2. \A u \in Threads : pc[u] = "recv" => pc'[u] = "recv" /\ arg'[u] = arg[u]
    BY <1>0, <1>1 DEF Send, Enter, ThreadType
  <2>3. QED
    BY <1>0, <2>1, <2>2, KeepW
<1>2. ASSUME NEW t \in Threads, NEW c \in Channels, NEW e \in Elems, SendFails(t, c, e)
     PROVE  WInv'
  <2>1. UNCHANGED <<condq, closed, sent, got>>
    BY <1>2 DEF SendFails, chan, sync
  <2>2. \A u \in Threads : pc[u] = "recv" => pc'[u] = "recv" /\ arg'[u] = arg[u]
    BY <1>0, <1>2 DEF SendFails, Return, ThreadType
  <2>3. QED
    BY <1>0, <2>1, <2>2, KeepW
<1>3. ASSUME NEW t \in Threads, SendOpen(t)
     PROVE  WInv'
  <2>1. arg[t] \in Channels /\ elem[t] \in Elems /\ pc[t] = "send"
    BY <1>0, <1>3 DEF SendOpen, ArgOK
  <2>2. PICK W \in Signalled(arg[t]) : WakeAndNotify(t, arg[t], W)
    BY <1>3 DEF SendOpen
  <2>3. Enqueue(arg[t], elem[t]) /\ UNCHANGED <<got, closed, arg>> /\ ~closed[arg[t]]
    BY <1>3 DEF SendOpen
  <2>4. QED
    BY <1>0, <2>1, <2>2, <2>3, EnqueueW
<1>4. ASSUME NEW t \in Threads, SendClosed(t)
     PROVE  WInv'
  <2>1. UNCHANGED <<condq, closed, sent, got>>
    BY <1>4 DEF SendClosed, chan, sync
  <2>2. \A u \in Threads : pc[u] = "recv" => pc'[u] = "recv" /\ arg'[u] = arg[u]
    BY <1>0, <1>4 DEF SendClosed, Return, ThreadType
  <2>3. QED
    BY <1>0, <2>1, <2>2, KeepW
<1>5. ASSUME NEW t \in Threads, NEW c \in Channels, NEW e \in Elems, TrySend(t, c, e)
     PROVE  WInv'
  <2>1. PICK W \in Signalled(c) : WakeAndNotify(t, c, W)
    BY <1>5 DEF TrySend
  <2>2. Enqueue(c, e) /\ UNCHANGED <<got, closed>> /\ ~closed[c] /\ pc[t] = "idle"
    BY <1>5 DEF TrySend
  <2>3. \A u \in Threads \ {t} : arg'[u] = arg[u]
    BY <1>0, <1>5 DEF TrySend, Enter, ThreadType
  <2>4. QED
    BY <1>0, <2>1, <2>2, <2>3, EnqueueW
<1>6. ASSUME NEW t \in Threads, NEW c \in Channels, NEW e \in Elems, TrySendRefused(t, c, e)
     PROVE  WInv'
  <2>1. UNCHANGED <<condq, closed, sent, got>>
    BY <1>6 DEF TrySendRefused, chan, sync
  <2>2. \A u \in Threads : pc[u] = "recv" => pc'[u] = "recv" /\ arg'[u] = arg[u]
    BY <1>0, <1>6 DEF TrySendRefused, Return, ThreadType
  <2>3. QED
    BY <1>0, <2>1, <2>2, KeepW
<1>7. ASSUME NEW t \in Threads, NEW c \in Channels, Close(t, c)
     PROVE  WInv'
  <2>1. WakeAndNotify(t, c, condq[c]) /\ condq[c] \in SUBSET condq[c] /\ pc[t] = "idle"
    BY <1>7 DEF Close
  <2>2. \A u \in Threads \ {t} : arg'[u] = arg[u]
    BY <1>0, <1>7 DEF Close, Enter, ThreadType
  <2>3. \A d \in Channels \ {c} : condq'[d] = condq[d] /\ Receivers(d) \subseteq Receivers(d)'
    BY <1>0, <2>1, <2>2, WakeReceivers
  <2>4. /\ \A d \in Channels \ {c} : closed'[d] = closed[d]
        /\ UNCHANGED <<sent, got>>
    BY <1>0, <1>7 DEF Close, ChanType
  <2>5. condq'[c] = {}
    BY <1>0, <2>1 DEF WakeAndNotify, SyncType
  <2>6. WOf(c)'
    BY <2>5 DEF WOf
  <2>7. ASSUME NEW d \in Channels \ {c} PROVE WOf(d)'
    <3>1. Backlog(d)' <= Backlog(d)
      BY <1>0, <2>4, BacklogNat DEF Backlog
    <3>2. WOf(d)
      BY DEF WInv
    <3>3. QED
      BY <1>0, <2>3, <2>4, <3>1, <3>2, KeepOf
  <2>8. QED
    BY <2>6, <2>7 DEF WInv
<1>8. ASSUME NEW t \in Threads, Notify(t)
     PROVE  WInv'
  <2>1. UNCHANGED <<condq, closed, sent, got>>
    BY <1>8 DEF Notify, chan, sync
  <2>2. \A u \in Threads : pc[u] = "recv" => pc'[u] = "recv" /\ arg'[u] = arg[u]
    BY <1>0, <1>8 DEF Notify, ThreadType
  <2>3. QED
    BY <1>0, <2>1, <2>2, KeepW
<1>9. ASSUME NEW t \in Threads, Unlock(t)
     PROVE  WInv'
  <2>1. UNCHANGED <<condq, closed, sent, got>>
    BY <1>9 DEF Unlock, chan, sync
  <2>2. \A u \in Threads : pc[u] = "recv" => pc'[u] = "recv" /\ arg'[u] = arg[u]
    BY <1>0, <1>9 DEF Unlock, Return, ThreadType
  <2>3. QED
    BY <1>0, <2>1, <2>2, KeepW
<1>10. ASSUME NEW t \in Threads, NEW c \in Channels, Receive(t, c)
     PROVE  WInv'
  <2>1. UNCHANGED <<condq, closed, sent, got>>
    BY <1>10 DEF Receive, chan, sync
  <2>2. \A u \in Threads : pc[u] = "recv" => pc'[u] = "recv" /\ arg'[u] = arg[u]
    BY <1>0, <1>10 DEF Receive, Enter, ThreadType
  <2>3. QED
    BY <1>0, <2>1, <2>2, KeepW
<1>11. ASSUME NEW t \in Threads, ReceiveElem(t)
     PROVE  WInv'
  <2>1. /\ pc[t] = "recv" /\ arg[t] \in Channels /\ head[arg[t]] # NULL /\ Dequeue(arg[t])
        /\ UNCHANGED <<condq, closed>>
    BY <1>0, <1>11 DEF ReceiveElem, ArgOK, Dequeue, sync
  <2>2. PICK c \in Channels : c = arg[t]
    BY <2>1
  <2>3. pc'[t] = "idle" /\ \A u \in Threads \ {t} : pc'[u] = pc[u] /\ arg'[u] = arg[u]
    BY <1>0, <1>11 DEF ReceiveElem, Return, ThreadType
  <2>4. Backlog(c)' = Backlog(c) - 1 /\ \A d \in Channels \ {c} : Backlog(d)' = Backlog(d)
    BY <1>0, <2>1, <2>2, DequeueBacklog
  <2>5. WOf(c)'
    <3>1. Receivers(c)' = Receivers(c) \ {t} /\ t \in Receivers(c)
      BY <2>1, <2>2, <2>3 DEF Receivers
    <3>2. IsFiniteSet(Receivers(c)) /\ Cardinality(Receivers(c)) \in Nat
      BY ReceiversFinite
    <3>3. Cardinality(Receivers(c)') = Cardinality(Receivers(c)) - 1
      BY <3>1, <3>2, FS_RemoveElement
    <3>4. Backlog(c) \in Int /\ WOf(c)
      BY <1>0, BacklogNat DEF WInv
    <3>5. QED
      BY <2>1, <2>4, <3>2, <3>3, <3>4 DEF WOf
  <2>6. ASSUME NEW d \in Channels \ {c} PROVE WOf(d)'
    <3>1. Receivers(d) \subseteq Receivers(d)'
      BY <2>2, <2>3 DEF Receivers
    <3>2. Backlog(d) \in Nat /\ Backlog(d)' = Backlog(d)
      BY <1>0, <2>4, BacklogNat
    <3>3. Backlog(d)' <= Backlog(d) /\ condq'[d] \subseteq condq[d] /\ closed'[d] = closed[d]
      BY <2>1, <3>2
    <3>4. WOf(d)
      BY DEF WInv
    <3>5. QED
      BY <1>0, <3>1, <3>3, <3>4, KeepOf
  <2>7. QED
    BY <2>5, <2>6 DEF WInv
<1>12. ASSUME NEW t \in Threads, ReceiveClosed(t)
     PROVE  WInv'
  <2>1. /\ pc[t] = "recv" /\ closed[arg[t]] /\ UNCHANGED <<condq, closed, sent, got>>
    BY <1>12 DEF ReceiveClosed, chan, sync
  <2>2. \A u \in Threads \ {t} : pc'[u] = pc[u] /\ arg'[u] = arg[u]
    BY <1>0, <1>12 DEF ReceiveClosed, Return, ThreadType
  <2>3. ASSUME NEW d \in Channels PROVE WOf(d)'
    <3>1. CASE d = arg[t]
      BY <2>1, <3>1 DEF WInv, WOf
    <3>2. CASE d # arg[t]
      <4>1. Receivers(d) \subseteq Receivers(d)'
        BY <2>2, <3>2 DEF Receivers
      <4>2. QED
        BY <1>0, <2>1, <4>1, KeepOf DEF WInv, Backlog
    <3>3. QED
      BY <3>1, <3>2
  <2>4. QED
    BY <2>3 DEF WInv
<1>13. ASSUME NEW t \in Threads, ReceiveWait(t)
     PROVE  WInv'
  <2>1. /\ pc[t] = "recv" /\ arg[t] \in Channels /\ head[arg[t]] = NULL /\ ~closed[arg[t]]
        /\ UNCHANGED <<closed, sent, got, arg>>
    BY <1>0, <1>13 DEF ReceiveWait, Ready, ArgOK, chan
  <2>2. \A u \in Threads \ {t} : pc'[u] = pc[u]
    BY <1>0, <1>13 DEF ReceiveWait, ThreadType
  <2>3. \A d \in Channels \ {arg[t]} : condq'[d] = condq[d]
    BY <1>0, <1>13 DEF ReceiveWait, SyncType
  <2>4. ASSUME NEW d \in Channels PROVE WOf(d)'
    <3>1. CASE d = arg[t]
      <4>1. Backlog(d)' = 0
        <5>1. Len(sent[d]) \in Nat /\ Len(got[d]) \in Nat /\ Len(got[d]) <= Len(sent[d])
          BY <1>0 DEF ListOK, ListOf, ChanType
        <5>2. ASSUME Len(got[d]) # Len(sent[d]) PROVE FALSE
          <6>1. sent[d][Len(got[d]) + 1] \in Elems
            BY <1>0, <5>1, <5>2 DEF ChanType
          <6>2. head[d] = sent[d][Len(got[d]) + 1]
            BY <1>0, <5>2 DEF ListOK, ListOf
          <6>3. QED
            BY <2>1, <3>1, <6>1, <6>2
        <5>3. sent'[d] = sent[d] /\ got'[d] = got[d]
          BY <2>1
        <5>4. QED
          BY <5>1, <5>2, <5>3 DEF Backlog
      <4>2. Cardinality(Receivers(d)') \in Nat
        BY ReceiversFinite
      <4>3. QED
        BY <2>1, <3>1, <4>1, <4>2 DEF WOf
    <3>2. CASE d # arg[t]
      <4>1. Receivers(d) \subseteq Receivers(d)'
        BY <2>1, <2>2, <3>2 DEF Receivers
      <4>2. QED
        BY <1>0, <2>1, <2>3, <3>2, <4>1, KeepOf DEF WInv, Backlog
    <3>3. QED
      BY <3>1, <3>2
  <2>5. QED
    BY <2>4 DEF WInv
<1>14. ASSUME NEW t \in Threads, SpuriousWakeup(t)
     PROVE  WInv'
  <2>1. pc[t] = "recv_wait" /\ UNCHANGED <<closed, sent, got, arg>>
    BY <1>14 DEF SpuriousWakeup, chan
  <2>2. \A u \in Threads \ {t} : pc'[u] = pc[u]
    BY <1>0, <1>14 DEF SpuriousWakeup, ThreadType
  <2>3. \A d \in Channels : condq'[d] \subseteq condq[d]
    BY <1>0, <1>14 DEF SpuriousWakeup, SyncType
  <2>4. \A d \in Channels : Receivers(d) \subseteq Receivers(d)'
    BY <2>1, <2>2 DEF Receivers
  <2>5. QED
    BY <1>0, <2>1, <2>3, <2>4, KeepOf DEF WInv, Backlog
<1>15. ASSUME NEW t \in Threads, NEW c \in Channels, TryReceive(t, c)
     PROVE  WInv'
  <2>1. UNCHANGED condq
    BY <1>15 DEF TryReceive, sync
  <2>2. \A u \in Threads : pc[u] = "recv" => pc'[u] = "recv" /\ arg'[u] = arg[u]
    BY <1>0, <1>15 DEF TryReceive, Return, ThreadType
  <2>3. CASE head[c] # NULL
    BY <1>0, <1>15, <2>1, <2>2, <2>3, DequeueW DEF TryReceive
  <2>4. CASE head[c] = NULL
    BY <1>0, <1>15, <2>1, <2>2, <2>4, KeepW DEF TryReceive, chan
  <2>5. QED
    BY <2>3, <2>4
<1>16. ASSUME NEW t \in Threads, NEW c \in Channels, Peek(t, c)
     PROVE  WInv'
  <2>1. UNCHANGED <<condq, closed, sent, got>>
    BY <1>16 DEF Peek, chan, sync
  <2>2. \A u \in Threads : pc[u] = "recv" => pc'[u] = "recv" /\ arg'[u] = arg[u]
    BY <1>0, <1>16 DEF Peek, Enter, ThreadType
  <2>3. QED
    BY <1>0, <2>1, <2>2, KeepW
<1>32. ASSUME NEW t \in Threads, PeekReturn(t)
     PROVE  WInv'
  <2>1. UNCHANGED <<condq, closed, sent, got>>
    BY <1>32 DEF PeekReturn, chan, sync
  <2>2. \A u \in Threads : pc[u] = "recv" => pc'[u] = "recv" /\ arg'[u] = arg[u]
    BY <1>0, <1>32 DEF PeekReturn, Return, ThreadType
  <2>3. QED
    BY <1>0, <2>1, <2>2, KeepW
<1>17. ASSUME NEW t \in Threads, NEW cs \in CaseLists, NEW tm \in BOOLEAN, Pick(t, cs, tm)
     PROVE  WInv'
  <2>1. UNCHANGED <<condq, closed, sent, got>>
    BY <1>17 DEF Pick, chan, sync
  <2>2. \A u \in Threads : pc[u] = "recv" => pc'[u] = "recv" /\ arg'[u] = arg[u]
    BY <1>0, <1>17 DEF Pick, ThreadType
  <2>3. QED
    BY <1>0, <2>1, <2>2, KeepW
<1>18. ASSUME NEW t \in Threads, ScanTake(t)
     PROVE  WInv'
  <2>1. UNCHANGED condq
    BY <1>18 DEF ScanTake, sync
  <2>2. \A u \in Threads : pc[u] = "recv" => pc'[u] = "recv" /\ arg'[u] = arg[u]
    BY <1>0, <1>18 DEF ScanTake, Goto, ThreadType
  <2>3. QED
    BY <1>0, <1>18, <2>1, <2>2, TakeCaseW DEF ScanTake
<1>19. ASSUME NEW t \in Threads, ScanRegister(t)
     PROVE  WInv'
  <2>1. UNCHANGED <<condq, closed, sent, got>>
    BY <1>19 DEF ScanRegister, chan, sync
  <2>2. \A u \in Threads : pc[u] = "recv" => pc'[u] = "recv" /\ arg'[u] = arg[u]
    BY <1>0, <1>19 DEF ScanRegister, Goto, ThreadType
  <2>3. QED
    BY <1>0, <2>1, <2>2, KeepW
<1>20. ASSUME NEW t \in Threads, ScanNoMemory(t)
     PROVE  WInv'
  <2>1. UNCHANGED <<condq, closed, sent, got>>
    BY <1>20 DEF ScanNoMemory, chan, sync
  <2>2. \A u \in Threads : pc[u] = "recv" => pc'[u] = "recv" /\ arg'[u] = arg[u]
    BY <1>0, <1>20 DEF ScanNoMemory, Goto, ThreadType
  <2>3. QED
    BY <1>0, <2>1, <2>2, KeepW
<1>21. ASSUME NEW t \in Threads, ScanEnd(t)
     PROVE  WInv'
  <2>1. UNCHANGED <<condq, closed, sent, got>>
    BY <1>21 DEF ScanEnd, chan, sync
  <2>2. \A u \in Threads : pc[u] = "recv" => pc'[u] = "recv" /\ arg'[u] = arg[u]
    BY <1>0, <1>21 DEF ScanEnd, Goto, ThreadType
  <2>3. QED
    BY <1>0, <2>1, <2>2, KeepW
<1>22. ASSUME NEW t \in Threads, CheckSignaled(t)
     PROVE  WInv'
  <2>1. UNCHANGED <<condq, closed, sent, got>>
    BY <1>22 DEF CheckSignaled, chan, sync
  <2>2. \A u \in Threads : pc[u] = "recv" => pc'[u] = "recv" /\ arg'[u] = arg[u]
    BY <1>0, <1>22 DEF CheckSignaled, ThreadType
  <2>3. QED
    BY <1>0, <2>1, <2>2, KeepW
<1>23. ASSUME NEW t \in Threads, PickSpurious(t)
     PROVE  WInv'
  <2>1. UNCHANGED <<condq, closed, sent, got>>
    BY <1>23 DEF PickSpurious, chan, sync
  <2>2. \A u \in Threads : pc[u] = "recv" => pc'[u] = "recv" /\ arg'[u] = arg[u]
    BY <1>0, <1>23 DEF PickSpurious, ThreadType
  <2>3. QED
    BY <1>0, <2>1, <2>2, KeepW
<1>24. ASSUME NEW t \in Threads, PickTimeout(t)
     PROVE  WInv'
  <2>1. UNCHANGED <<condq, closed, sent, got>>
    BY <1>24 DEF PickTimeout, chan, sync
  <2>2. \A u \in Threads : pc[u] = "recv" => pc'[u] = "recv" /\ arg'[u] = arg[u]
    BY <1>0, <1>24 DEF PickTimeout, ThreadType
  <2>3. QED
    BY <1>0, <2>1, <2>2, KeepW
<1>25. ASSUME NEW t \in Threads, Unregister(t)
     PROVE  WInv'
  <2>1. UNCHANGED <<condq, closed, sent, got>>
    BY <1>25 DEF Unregister, chan, sync
  <2>2. \A u \in Threads : pc[u] = "recv" => pc'[u] = "recv" /\ arg'[u] = arg[u]
    BY <1>0, <1>25 DEF Unregister, ThreadType
  <2>3. QED
    BY <1>0, <2>1, <2>2, KeepW
<1>26. ASSUME NEW t \in Threads, UnregisterEnd(t)
     PROVE  WInv'
  <2>1. UNCHANGED <<condq, closed, sent, got>>
    BY <1>26 DEF UnregisterEnd, chan, sync
  <2>2. \A u \in Threads : pc[u] = "recv" => pc'[u] = "recv" /\ arg'[u] = arg[u]
    BY <1>0, <1>26 DEF UnregisterEnd, PickReturn, Goto, ThreadType
  <2>3. QED
    BY <1>0, <2>1, <2>2, KeepW
<1>27. ASSUME NEW t \in Threads, RescanTake(t)
     PROVE  WInv'
  <2>1. UNCHANGED condq
    BY <1>27 DEF RescanTake, sync
  <2>2. \A u \in Threads : pc[u] = "recv" => pc'[u] = "recv" /\ arg'[u] = arg[u]
    BY <1>0, <1>27 DEF RescanTake, PickReturn, Goto, ThreadType
  <2>3. QED
    BY <1>0, <1>27, <2>1, <2>2, TakeCaseW DEF RescanTake
<1>28. ASSUME NEW t \in Threads, RescanSkip(t)
     PROVE  WInv'
  <2>1. UNCHANGED <<condq, closed, sent, got>>
    BY <1>28 DEF RescanSkip, chan, sync
  <2>2. \A u \in Threads : pc[u] = "recv" => pc'[u] = "recv" /\ arg'[u] = arg[u]
    BY <1>0, <1>28 DEF RescanSkip, Goto, ThreadType
  <2>3. QED
    BY <1>0, <2>1, <2>2, KeepW
<1>29. ASSUME NEW t \in Threads, RescanEnd(t)
     PROVE  WInv'
  <2>1. UNCHANGED <<condq, closed, sent, got>>
    BY <1>29 DEF RescanEnd, chan, sync
  <2>2. \A u \in Threads : pc[u] = "recv" => pc'[u] = "recv" /\ arg'[u] = arg[u]
    BY <1>0, <1>29 DEF RescanEnd, PickReturn, Goto, ThreadType
  <2>3. QED
    BY <1>0, <2>1, <2>2, KeepW
<1>30. ASSUME NEW c \in Channels, Collect(c)
     PROVE  WInv'
  <2>1. /\ UNCHANGED <<condq, pc, arg>>
        /\ \A d \in Channels \ {c} : closed'[d] = closed[d] /\ sent'[d] = sent[d] /\ got'[d] = got[d]
    BY <1>0, <1>30 DEF Collect, ChanType
  <2>2. condq[c] = {}
    BY <1>0, <1>30 DEF Collect, InUse, SleepOK, SyncType
  <2>3. ASSUME NEW d \in Channels PROVE WOf(d)'
    <3>1. CASE d = c
      BY <2>1, <2>2, <3>1 DEF WOf
    <3>2. CASE d # c
      <4>1. Backlog(d)' = Backlog(d) /\ Backlog(d) \in Nat
        BY <1>0, <2>1, <3>2, BacklogNat DEF Backlog
      <4>2. Receivers(d) \subseteq Receivers(d)'
        BY <2>1 DEF Receivers
      <4>3. WOf(d) /\ condq'[d] \subseteq condq[d] /\ closed'[d] = closed[d] /\ Backlog(d)' <= Backlog(d)
        BY <2>1, <3>2, <4>1 DEF WInv
      <4>4. QED
        BY <1>0, <4>2, <4>3, KeepOf
    <3>3. QED
      BY <3>1, <3>2
  <2>4. QED
    BY <2>3 DEF WInv
<1>31. CASE UNCHANGED vars
  BY <1>0, <1>31, KeepW DEF vars, chan, sync
<1>. QED
  BY <1>1, <1>2, <1>3, <1>4, <1>5, <1>6, <1>7, <1>8, <1>9, <1>10, <1>11, <1>12, <1>13, <1>14, <1>15, <1>16, <1>17, <1>18, <1>19, <1>20, <1>21, <1>22, <1>23, <1>24, <1>25, <1>26, <1>27, <1>28, <1>29, <1>30, <1>31, <1>32 DEF Next, Call, Inside, Outside

\* While a receiver sleeps on a channel, the channel is open and for every
\* value in it another receiver is awake and on its way, whoever overtakes it:
\* one signal per element is enough.
THEOREM WakeupsSuffice == Spec => []NoLostWakeup
<1>1. Init => TInv /\ LInv /\ WInv
  BY InitTInv, InitLInv DEF Init, WInv, WOf
<1>2. (TInv /\ LInv /\ WInv) /\ [Next]_vars => (TInv /\ LInv /\ WInv)'
  BY StepTInv, StepLInv, StepWInv
<1>3. TInv /\ LInv /\ WInv => NoLostWakeup
  BY BacklogNat DEF TInv, TypeOK, LInv, WInv, WOf, NoLostWakeup, Receivers
<1>4. QED
  BY <1>1, <1>2, <1>3, PTL DEF Spec

-----------------------------------------------------------------------------
(* The channels implement the abstract FIFO.                               *)

\* What the pointers of every channel spell is what the histories say waits.
Spelled == \A c \in Channels : Contents(c) = Waiting(c)

\* The refinement mapping.
Buffer == [c \in Channels |-> Contents(c)]

LEMMA InvSpelled == TInv /\ LInv => Spelled
BY ContentsWaiting DEF TInv, TypeOK, LInv, Spelled

\* What SubSeq says, for the tail of a sequence behind its k-th element.
LEMMA Behind ==
  ASSUME NEW T, NEW s \in Seq(T), NEW k \in Nat, k <= Len(s)
  PROVE  /\ SubSeq(s, k + 1, Len(s)) \in Seq(T)
         /\ Len(SubSeq(s, k + 1, Len(s))) = Len(s) - k
         /\ \A i \in 1..Len(s) - k : SubSeq(s, k + 1, Len(s))[i] = s[k + i]
<1>1. Len(SubSeq(s, k + 1, Len(s))) = Len(s) - k
  OBVIOUS
<1>2. \A i \in 1..Len(s) - k : SubSeq(s, k + 1, Len(s))[i] = s[k + i]
  OBVIOUS
<1>3. SubSeq(s, k + 1, Len(s)) \in Seq(T)
  OBVIOUS
<1>4. QED
  BY <1>1, <1>2, <1>3

LEMMA WaitAppend ==
  ASSUME NEW T, NEW s \in Seq(T), NEW k \in Nat, k <= Len(s), NEW e \in T
  PROVE  SubSeq(Append(s, e), k + 1, Len(s) + 1) = Append(SubSeq(s, k + 1, Len(s)), e)
<1> DEFINE n == Len(s)
           a == Append(s, e)
           v == SubSeq(a, k + 1, Len(a))
           u == SubSeq(s, k + 1, n)
           w == Append(u, e)
<1>1. a \in Seq(T) /\ Len(a) = n + 1 /\ a[n + 1] = e /\ \A i \in 1..n : a[i] = s[i]
  BY AppendProperties
<1>2. n \in Nat /\ k <= n
  OBVIOUS
<1> HIDE DEF a
<1>3. k <= Len(a)
  BY ONLY <1>1, <1>2, k \in Nat
<1>4. v \in Seq(T) /\ Len(v) = Len(a) - k /\ \A i \in 1..Len(a) - k : v[i] = a[k + i]
  BY <1>1, <1>3, Behind
<1>5. u \in Seq(T) /\ Len(u) = n - k /\ \A i \in 1..n - k : u[i] = s[k + i]
  BY Behind
<1> HIDE DEF u, v
<1>6. w \in Seq(T) /\ Len(w) = Len(u) + 1 /\ w[Len(u) + 1] = e /\ \A i \in 1..Len(u) : w[i] = u[i]
  BY <1>5, AppendProperties
<1> HIDE DEF w
<1> HIDE DEF n
<1>7. ASSUME NEW i \in 1..Len(v) PROVE v[i] = w[i]
  <2>0. i \in 1..(n + 1) - k
    BY <1>1, <1>4
  <2>1. CASE i = n - k + 1
    <3>1. i \in 1..Len(a) - k /\ k + i = n + 1 /\ Len(u) + 1 = i
      BY ONLY <1>1, <1>2, <1>5, <2>0, <2>1, k \in Nat
    <3>2. QED
      BY <1>1, <1>4, <1>6, <3>1
  <2>2. CASE i # n - k + 1
    <3>1. i \in 1..n - k /\ i \in 1..Len(u) /\ k + i \in 1..n /\ i \in 1..Len(a) - k
      BY ONLY <1>1, <1>2, <1>5, <2>0, <2>2, k \in Nat
    <3>2. QED
      BY <1>1, <1>4, <1>5, <1>6, <3>1
  <2>3. QED
    BY <2>1, <2>2
<1>8. Len(v) = Len(w)
  BY ONLY <1>1, <1>2, <1>4, <1>5, <1>6, k \in Nat
<1>9. v = w
  BY <1>4, <1>6, <1>7, <1>8, SeqEqual
<1>10. QED
  BY <1>1, <1>9 DEF a, v, u, w, n

LEMMA WaitTail ==
  ASSUME NEW T, NEW s \in Seq(T), NEW k \in Nat, k < Len(s)
  PROVE  /\ SubSeq(s, k + 1, Len(s)) # <<>>
         /\ Head(SubSeq(s, k + 1, Len(s))) = s[k + 1]
         /\ Tail(SubSeq(s, k + 1, Len(s))) = SubSeq(s, k + 2, Len(s))
<1>1. k + 1 \in 1..Len(s) /\ Len(s) \in k + 1 .. Len(s) /\ (k + 1) + 1 = k + 2 /\ k <= Len(s)
      /\ Len(s) - k # 0
  OBVIOUS
<1>2. SubSeq(s, k + 1, Len(s)) # <<>>
  BY <1>1, Behind, EmptySeq
<1>3. QED
  BY <1>1, <1>2, HeadTailOfSubSeq

LEMMA KeepA ==
  ASSUME Spelled, Spelled', UNCHANGED <<sent, got, closed>>
  PROVE  [Abstract!Next]_Abstract!vars
<1>1. Buffer' = Buffer
  BY DEF Spelled, Buffer, Waiting
<1>2. QED
  BY <1>1 DEF Buffer, Abstract!vars

LEMMA EnqueueA ==
  ASSUME ChanType, ListOK, Spelled, Spelled', NEW c \in Channels, NEW e \in Elems,
         Enqueue(c, e), UNCHANGED <<got, closed>>, ~closed[c]
  PROVE  [Abstract!Next]_Abstract!vars
<1>1. PICK s \in Seq(Elems), k \in Nat : s = sent[c] /\ k = Len(got[c]) /\ k <= Len(s)
  BY DEF ChanType, ListOK, ListOf
<1>2. sent' = [sent EXCEPT ![c] = Append(s, e)] /\ Len(Append(s, e)) = Len(s) + 1
  BY <1>1 DEF Enqueue
<1>3. sent'[c] = Append(s, e) /\ \A d \in Channels \ {c} : sent'[d] = sent[d]
  BY <1>2 DEF ChanType
<1>4. Waiting(c)' = Append(Waiting(c), e)
  <2>1. Waiting(c) = SubSeq(s, k + 1, Len(s)) /\ Waiting(c)' = SubSeq(Append(s, e), k + 1, Len(s) + 1)
    BY <1>1, <1>2, <1>3 DEF Waiting
  <2>2. k <= Len(s) /\ e \in Elems /\ s \in Seq(Elems) /\ k \in Nat
    BY <1>1
  <2>3. SubSeq(Append(s, e), k + 1, Len(s) + 1) = Append(SubSeq(s, k + 1, Len(s)), e)
    BY ONLY <2>2, WaitAppend
  <2>4. QED
    BY <1>1, <2>1, <2>3
<1>5. \A d \in Channels \ {c} : Waiting(d)' = Waiting(d)
  BY <1>3 DEF Waiting
<1>6. Buffer' = [Buffer EXCEPT ![c] = Append(@, e)]
  BY <1>4, <1>5 DEF Buffer, Spelled
<1>7. Abstract!Put(c, e)
  BY <1>6 DEF Buffer, Abstract!Put
<1>8. QED
  BY <1>7 DEF Abstract!Next

LEMMA DequeueA ==
  ASSUME ChanType, ListOK, Spelled, Spelled', NEW c \in Channels, head[c] # NULL, Dequeue(c)
  PROVE  [Abstract!Next]_Abstract!vars
<1>1. PICK s \in Seq(Elems), k \in Nat : s = sent[c] /\ k = Len(got[c])
  BY DEF ChanType
<1>2. k < Len(s) /\ head[c] = s[k + 1]
  BY <1>1 DEF ListOK, ListOf
<1>3. /\ sent' = sent /\ closed' = closed
      /\ got' = [got EXCEPT ![c] = Append(@, head[c])]
  BY DEF Dequeue
<1>4. Len(got'[c]) = k + 1 /\ \A d \in Channels \ {c} : got'[d] = got[d]
  BY <1>1, <1>3 DEF ChanType
<1>5. Waiting(c) # <<>> /\ Head(Waiting(c)) = head[c] /\ Waiting(c)' = Tail(Waiting(c))
  <2>1. (k + 1) + 1 = k + 2
    OBVIOUS
  <2>2. Waiting(c) = SubSeq(s, k + 1, Len(s)) /\ Waiting(c)' = SubSeq(s, k + 2, Len(s))
    BY <1>1, <1>3, <1>4, <2>1 DEF Waiting
  <2>3. QED
    BY <1>2, <2>2, WaitTail
<1>6. \A d \in Channels \ {c} : Waiting(d)' = Waiting(d)
  BY <1>3, <1>4 DEF Waiting
<1>7. Buffer' = [Buffer EXCEPT ![c] = Tail(@)] /\ Buffer[c] # <<>> /\ Head(Buffer[c]) = head[c]
  BY <1>5, <1>6 DEF Buffer, Spelled
<1>8. Abstract!Take(c)
  BY <1>3, <1>7 DEF Buffer, Abstract!Take
<1>9. QED
  BY <1>8 DEF Abstract!Next

LEMMA TakeCaseA ==
  ASSUME TypeOK, ListOK, Spelled, Spelled', NEW t \in Threads, MoreCases(t), TakeCase(t)
  PROVE  [Abstract!Next]_Abstract!vars
<1>1. Case(t) \in Channels /\ ChanType
  BY CaseIsChannel DEF TypeOK
<1>2. CASE head[Case(t)] # NULL
  BY <1>1, <1>2, DequeueA DEF TakeCase
<1>3. CASE head[Case(t)] = NULL
  BY <1>3, KeepA DEF TakeCase, chan
<1>4. QED
  BY <1>2, <1>3

LEMMA StepMapped == TInv /\ LInv /\ Spelled /\ Spelled' /\ [Next]_vars => [Abstract!Next]_Abstract!vars
<1> SUFFICES ASSUME TInv, LInv, Spelled, Spelled', [Next]_vars PROVE [Abstract!Next]_Abstract!vars
  OBVIOUS
<1>0. TypeOK /\ ChanType /\ ThreadType /\ ArgOK /\ ListOK
  BY DEF TInv, TypeOK, LInv
<1>1. ASSUME NEW t \in Threads, NEW c \in Channels, NEW e \in Elems, Send(t, c, e)
     PROVE  [Abstract!Next]_Abstract!vars
  BY <1>0, <1>1, KeepA DEF Send, chan
<1>2. ASSUME NEW t \in Threads, NEW c \in Channels, NEW e \in Elems, SendFails(t, c, e)
     PROVE  [Abstract!Next]_Abstract!vars
  BY <1>0, <1>2, KeepA DEF SendFails, chan
<1>3. ASSUME NEW t \in Threads, SendOpen(t)
     PROVE  [Abstract!Next]_Abstract!vars
  <2>1. arg[t] \in Channels /\ elem[t] \in Elems
    BY <1>0, <1>3 DEF SendOpen, ArgOK
  <2>2. QED
    BY <1>0, <1>3, <2>1, EnqueueA DEF SendOpen
<1>4. ASSUME NEW t \in Threads, SendClosed(t)
     PROVE  [Abstract!Next]_Abstract!vars
  BY <1>0, <1>4, KeepA DEF SendClosed, chan
<1>5. ASSUME NEW t \in Threads, NEW c \in Channels, NEW e \in Elems, TrySend(t, c, e)
     PROVE  [Abstract!Next]_Abstract!vars
  BY <1>0, <1>5, EnqueueA DEF TrySend
<1>6. ASSUME NEW t \in Threads, NEW c \in Channels, NEW e \in Elems, TrySendRefused(t, c, e)
     PROVE  [Abstract!Next]_Abstract!vars
  BY <1>0, <1>6, KeepA DEF TrySendRefused, chan
<1>7. ASSUME NEW t \in Threads, NEW c \in Channels, Close(t, c)
     PROVE  [Abstract!Next]_Abstract!vars
  <2>1. closed' = [closed EXCEPT ![c] = TRUE] /\ UNCHANGED <<sent, got>>
    BY <1>7 DEF Close
  <2>2. Buffer' = Buffer
    BY <1>0, <2>1 DEF Spelled, Buffer, Waiting
  <2>3. Abstract!Close(c)
    BY <2>1, <2>2 DEF Buffer, Abstract!Close
  <2>4. QED
    BY <2>3 DEF Abstract!Next
<1>8. ASSUME NEW t \in Threads, Notify(t)
     PROVE  [Abstract!Next]_Abstract!vars
  BY <1>0, <1>8, KeepA DEF Notify, chan
<1>9. ASSUME NEW t \in Threads, Unlock(t)
     PROVE  [Abstract!Next]_Abstract!vars
  BY <1>0, <1>9, KeepA DEF Unlock, chan
<1>10. ASSUME NEW t \in Threads, NEW c \in Channels, Receive(t, c)
     PROVE  [Abstract!Next]_Abstract!vars
  BY <1>0, <1>10, KeepA DEF Receive, chan
<1>11. ASSUME NEW t \in Threads, ReceiveElem(t)
     PROVE  [Abstract!Next]_Abstract!vars
  <2>1. arg[t] \in Channels /\ head[arg[t]] # NULL /\ Dequeue(arg[t])
    BY <1>0, <1>11 DEF ReceiveElem, ArgOK
  <2>2. QED
    BY <1>0, <2>1, DequeueA
<1>12. ASSUME NEW t \in Threads, ReceiveClosed(t)
     PROVE  [Abstract!Next]_Abstract!vars
  BY <1>0, <1>12, KeepA DEF ReceiveClosed, chan
<1>13. ASSUME NEW t \in Threads, ReceiveWait(t)
     PROVE  [Abstract!Next]_Abstract!vars
  BY <1>0, <1>13, KeepA DEF ReceiveWait, chan
<1>14. ASSUME NEW t \in Threads, SpuriousWakeup(t)
     PROVE  [Abstract!Next]_Abstract!vars
  BY <1>0, <1>14, KeepA DEF SpuriousWakeup, chan
<1>15. ASSUME NEW t \in Threads, NEW c \in Channels, TryReceive(t, c)
     PROVE  [Abstract!Next]_Abstract!vars
  <2>1. CASE head[c] # NULL
    BY <1>0, <1>15, <2>1, DequeueA DEF TryReceive
  <2>2. CASE head[c] = NULL
    BY <1>0, <1>15, <2>2, KeepA DEF TryReceive, chan
  <2>3. QED
    BY <2>1, <2>2
<1>16. ASSUME NEW t \in Threads, NEW c \in Channels, Peek(t, c)
     PROVE  [Abstract!Next]_Abstract!vars
  BY <1>0, <1>16, KeepA DEF Peek, chan
<1>32. ASSUME NEW t \in Threads, PeekReturn(t)
     PROVE  [Abstract!Next]_Abstract!vars
  BY <1>0, <1>32, KeepA DEF PeekReturn, chan
<1>17. ASSUME NEW t \in Threads, NEW cs \in CaseLists, NEW tm \in BOOLEAN, Pick(t, cs, tm)
     PROVE  [Abstract!Next]_Abstract!vars
  BY <1>0, <1>17, KeepA DEF Pick, chan
<1>18. ASSUME NEW t \in Threads, ScanTake(t)
     PROVE  [Abstract!Next]_Abstract!vars
  BY <1>0, <1>18, TakeCaseA DEF ScanTake
<1>19. ASSUME NEW t \in Threads, ScanRegister(t)
     PROVE  [Abstract!Next]_Abstract!vars
  BY <1>0, <1>19, KeepA DEF ScanRegister, chan
<1>20. ASSUME NEW t \in Threads, ScanNoMemory(t)
     PROVE  [Abstract!Next]_Abstract!vars
  BY <1>0, <1>20, KeepA DEF ScanNoMemory, chan
<1>21. ASSUME NEW t \in Threads, ScanEnd(t)
     PROVE  [Abstract!Next]_Abstract!vars
  BY <1>0, <1>21, KeepA DEF ScanEnd, chan
<1>22. ASSUME NEW t \in Threads, CheckSignaled(t)
     PROVE  [Abstract!Next]_Abstract!vars
  BY <1>0, <1>22, KeepA DEF CheckSignaled, chan
<1>23. ASSUME NEW t \in Threads, PickSpurious(t)
     PROVE  [Abstract!Next]_Abstract!vars
  BY <1>0, <1>23, KeepA DEF PickSpurious, chan
<1>24. ASSUME NEW t \in Threads, PickTimeout(t)
     PROVE  [Abstract!Next]_Abstract!vars
  BY <1>0, <1>24, KeepA DEF PickTimeout, chan
<1>25. ASSUME NEW t \in Threads, Unregister(t)
     PROVE  [Abstract!Next]_Abstract!vars
  BY <1>0, <1>25, KeepA DEF Unregister, chan
<1>26. ASSUME NEW t \in Threads, UnregisterEnd(t)
     PROVE  [Abstract!Next]_Abstract!vars
  BY <1>0, <1>26, KeepA DEF UnregisterEnd, chan
<1>27. ASSUME NEW t \in Threads, RescanTake(t)
     PROVE  [Abstract!Next]_Abstract!vars
  BY <1>0, <1>27, TakeCaseA DEF RescanTake
<1>28. ASSUME NEW t \in Threads, RescanSkip(t)
     PROVE  [Abstract!Next]_Abstract!vars
  BY <1>0, <1>28, KeepA DEF RescanSkip, chan
<1>29. ASSUME NEW t \in Threads, RescanEnd(t)
     PROVE  [Abstract!Next]_Abstract!vars
  BY <1>0, <1>29, KeepA DEF RescanEnd, chan
<1>30. ASSUME NEW c \in Channels, Collect(c)
     PROVE  [Abstract!Next]_Abstract!vars
  <2>1. /\ sent' = [sent EXCEPT ![c] = <<>>] /\ got' = [got EXCEPT ![c] = <<>>]
        /\ closed' = [closed EXCEPT ![c] = FALSE]
    BY <1>30 DEF Collect
  <2>2. \A d \in Channels : Waiting(d)' = IF d = c THEN <<>> ELSE Waiting(d)
    BY <1>0, <2>1 DEF Waiting, ChanType
  <2>3. Buffer' = [Buffer EXCEPT ![c] = <<>>]
    BY <1>0, <2>2 DEF Spelled, Buffer
  <2>4. Abstract!Renew(c)
    BY <2>1, <2>3 DEF Buffer, Abstract!Renew
  <2>5. QED
    BY <2>4 DEF Abstract!Next
<1>31. CASE UNCHANGED vars
  BY <1>31, KeepA DEF vars, chan
<1>. QED
  BY <1>1, <1>2, <1>3, <1>4, <1>5, <1>6, <1>7, <1>8, <1>9, <1>10, <1>11, <1>12, <1>13, <1>14, <1>15, <1>16, <1>17, <1>18, <1>19, <1>20, <1>21, <1>22, <1>23, <1>24, <1>25, <1>26, <1>27, <1>28, <1>29, <1>30, <1>31, <1>32 DEF Next, Call, Inside, Outside

\* Every step of the channels is a step of the abstract FIFO, or none that it
\* can see: a value is given once, in order, and only while it is held.
THEOREM ChannelsImplementFifo == Spec => Implements
<1>1. Init => Abstract!Init
  <2> SUFFICES ASSUME Init PROVE Abstract!Init
    OBVIOUS
  <2>1. Spelled
    BY InitTInv, InitLInv, InvSpelled
  <2>2. \A c \in Channels : Contents(c) = <<>>
    BY <2>1 DEF Init, Spelled, Waiting
  <2>3. QED
    BY <2>2 DEF Init, Abstract!Init
<1>2. Init => TInv /\ LInv
  BY InitTInv, InitLInv
<1>3. (TInv /\ LInv) /\ [Next]_vars => (TInv /\ LInv)'
  BY StepTInv, StepLInv
<1>4. QED
  BY <1>1, <1>2, <1>3, InvSpelled, StepMapped, PTL DEF Spec, Implements, Abstract!Spec

-----------------------------------------------------------------------------
(* The multi-way receive `thread.pick': when a selector is listed, who      *)
(* notifies it, and when a pick may sleep.                                  *)

\* A mutex kept across steps is kept by the one thread that notifies or peeks
\* under it.
MutexHeld ==
  /\ \A c \in Channels : lock[c] # NULL => pc[lock[c]] \in {"notify", "peek"} /\ arg[lock[c]] = c
  /\ \A u \in Threads : pc[u] \in {"notify", "peek"} => lock[arg[u]] = u

\* The cases of t for which c may still list t's selector.
Due(t, c) == {i \in 1..Len(cases[t]) :
  /\ cases[t][i] = c
  /\ \/ pc[t] = "scan" /\ i < idx[t]
     \/ pc[t] \in {"check", "wait"}
     \/ pc[t] = "unreg" /\ i >= idx[t]}

\* A selector is listed at most once per case that is to be unregistered.
Registrations == \A t \in Threads, c \in Channels : listeners[c][t] <= Cardinality(Due(t, c))

\* A selector that is about to be notified is listed, under a mutex held.
Addressees == \A u, t \in Threads : t \in todo[u] => pc[u] = "notify" /\ listeners[arg[u]][t] > 0

\* The first scan of t is past its i-th case.
Watches(t, i) == (pc[t] = "scan" /\ i < idx[t]) \/ pc[t] \in {"check", "wait"}

\* Such a case lists the selector, which has been or is about to be notified
\* if the channel has become ready since.
Watched == \A t \in Threads : \A i \in 1..Len(cases[t]) : Watches(t, i) =>
  /\ listeners[cases[t][i]][t] > 0
  /\ Ready(cases[t][i]) =>
       signaled[t] \/ (lock[cases[t][i]] # NULL /\ t \in todo[lock[cases[t][i]]])

\* A pick goes to sleep only after it has found its flag clear.
Unsignaled == \A t \in Threads : pc[t] = "wait" => ~signaled[t]

\* The scan is over and unregister_all will begin with the first case.
Rewound == \A t \in Threads : pc[t] \in {"check", "wait"} => idx[t] = 1

PInv == MutexHeld /\ Registrations /\ Addressees /\ Watched /\ Unsignaled /\ Rewound

-----------------------------------------------------------------------------
(* Counting the registrations of a selector.                               *)

LEMMA DueFinite ==
  ASSUME TypeOK, NEW t \in Threads, NEW c \in Channels
  PROVE  IsFiniteSet(Due(t, c)) /\ Cardinality(Due(t, c)) \in Nat
<1>1. Len(cases[t]) \in Nat
  BY DEF TypeOK, ThreadType
<1>2. IsFiniteSet(1..Len(cases[t]))
  BY <1>1, FS_Interval
<1>3. Due(t, c) \in SUBSET (1..Len(cases[t]))
  BY DEF Due
<1>4. QED
  BY <1>2, <1>3, FS_Subset, FS_CardinalityType

LEMMA DueGrows ==
  ASSUME TypeOK, TypeOK', NEW t \in Threads, NEW c \in Channels, Due(t, c) \subseteq Due(t, c)'
  PROVE  /\ Cardinality(Due(t, c)) <= Cardinality(Due(t, c)')
         /\ Cardinality(Due(t, c)') \in Nat
<1>1. IsFiniteSet(Due(t, c)')
  <2>1. Len(cases'[t]) \in Nat
    BY DEF TypeOK, ThreadType
  <2>2. IsFiniteSet(1..Len(cases'[t]))
    BY <2>1, FS_Interval
  <2>3. Due(t, c)' \in SUBSET (1..Len(cases'[t]))
    BY DEF Due
  <2>4. QED
    BY <2>2, <2>3, FS_Subset
<1>2. QED
  BY <1>1, FS_Subset, FS_CardinalityType

-----------------------------------------------------------------------------
(* Steps that leave the registrations and the mutexes alone.               *)

\* A step of t that is not about a mutex kept: the others are undisturbed, no
\* channel becomes ready, no registration is forgotten and no case is newly
\* watched.
LEMMA PhaseStep ==
  ASSUME TypeOK, TypeOK', ArgOK, PInv, NEW t \in Threads,
         UNCHANGED <<lock, listeners, todo>>,
         \A u \in Threads \ {t} : /\ pc'[u] = pc[u] /\ arg'[u] = arg[u]
                                  /\ cases'[u] = cases[u] /\ idx'[u] = idx[u]
                                  /\ signaled'[u] = signaled[u],
         pc[t] \notin {"notify", "peek"}, pc'[t] \notin {"notify", "peek"},
         \A c \in Channels : Ready(c)' => Ready(c),
         \A c \in Channels : Due(t, c) \subseteq Due(t, c)',
         \A i \in 1..Len(cases'[t]) : Watches(t, i)' =>
            /\ i \in 1..Len(cases[t]) /\ cases'[t][i] = cases[t][i] /\ Watches(t, i)
            /\ signaled'[t] = signaled[t],
         pc'[t] = "wait" => ~signaled'[t],
         pc'[t] \in {"check", "wait"} => idx'[t] = 1
  PROVE  PInv'
<1>1. MutexHeld'
  <2>1. \A c \in Channels : lock[c] \in Threads \cup {NULL}
    BY DEF TypeOK, SyncType
  <2>2. QED
    BY <2>1 DEF PInv, MutexHeld
<1>2. Registrations'
  <2> SUFFICES ASSUME NEW u \in Threads, NEW c \in Channels
               PROVE  listeners[c][u] <= Cardinality(Due(u, c)')
    BY DEF Registrations
  <2>1. listeners[c][u] <= Cardinality(Due(u, c)) /\ listeners[c][u] \in Nat
    BY DEF PInv, Registrations, TypeOK, SyncType
  <2>2. Due(u, c) \subseteq Due(u, c)'
    <3>1. CASE u = t
      BY <3>1
    <3>2. CASE u # t
      BY <3>2 DEF Due
    <3>3. QED
      BY <3>1, <3>2
  <2>3. Cardinality(Due(u, c)) <= Cardinality(Due(u, c)') /\ Cardinality(Due(u, c)') \in Nat
    BY <2>2, DueGrows
  <2>4. Cardinality(Due(u, c)) \in Nat
    BY DueFinite
  <2>5. QED
    BY <2>1, <2>3, <2>4
<1>3. Addressees'
  BY DEF PInv, Addressees, TypeOK, ThreadType
<1>4. Watched'
  <2> SUFFICES ASSUME NEW u \in Threads, NEW i \in 1..Len(cases'[u]), Watches(u, i)'
               PROVE  (/\ listeners[cases[u][i]][u] > 0
                       /\ Ready(cases[u][i]) =>
                            signaled[u] \/ (lock[cases[u][i]] # NULL /\ u \in todo[lock[cases[u][i]]]))'
    BY DEF Watched
  <2>1. /\ i \in 1..Len(cases[u]) /\ cases'[u][i] = cases[u][i] /\ Watches(u, i)
        /\ signaled'[u] = signaled[u]
    BY DEF Watches
  <2>2. cases[u][i] \in Channels
    BY <2>1 DEF TypeOK, ThreadType
  <2>3. Ready(cases[u][i])' => Ready(cases[u][i])
    BY <2>1, <2>2 DEF Ready
  <2>4. QED
    BY <2>1, <2>2, <2>3 DEF PInv, Watched
<1>5. Unsignaled'
  BY DEF PInv, Unsignaled
<1>6. Rewound'
  BY DEF PInv, Rewound
<1>7. QED
  BY <1>1, <1>2, <1>3, <1>4, <1>5, <1>6 DEF PInv

\* A step of t that is no part of a selector's life nor of a mutex kept.
Elsewhere == PCs \ (PickPhases \cup {"notify", "peek"})

LEMMA CallStep ==
  ASSUME TypeOK, TypeOK', ArgOK, PInv, NEW t \in Threads,
         UNCHANGED <<lock, listeners, todo, signaled>>,
         \A u \in Threads \ {t} : /\ pc'[u] = pc[u] /\ arg'[u] = arg[u]
                                  /\ cases'[u] = cases[u] /\ idx'[u] = idx[u],
         pc[t] \in Elsewhere, pc'[t] \in Elsewhere,
         \A c \in Channels : Ready(c)' => Ready(c)
  PROVE  PInv'
<1>1. \A c \in Channels : Due(t, c) = {}
  BY DEF Due, Elsewhere, PickPhases
<1>2. \A i \in 1..Len(cases'[t]) : ~Watches(t, i)'
  BY DEF Watches, Elsewhere, PickPhases
<1>3. pc[t] \notin {"notify", "peek"} /\ pc'[t] \notin {"notify", "peek"} /\ pc'[t] \notin {"check", "wait"}
  BY DEF Elsewhere, PickPhases
<1>4. QED
  BY <1>1, <1>2, <1>3, PhaseStep

\* Counting one way or the other, the registrations stay bounded.
LEMMA SameDue ==
  ASSUME TypeOK, TypeOK', Registrations,
         \A u \in Threads, d \in Channels : Due(u, d) \subseteq Due(u, d)',
         \A u \in Threads, d \in Channels : listeners'[d][u] <= listeners[d][u]
  PROVE  Registrations'
<1> SUFFICES ASSUME NEW u \in Threads, NEW d \in Channels
             PROVE  listeners'[d][u] <= Cardinality(Due(u, d)')
  BY DEF Registrations
<1>1. listeners[d][u] <= Cardinality(Due(u, d)) /\ listeners[d][u] \in Nat /\ listeners'[d][u] \in Nat
  BY DEF Registrations, TypeOK, SyncType
<1>2. Cardinality(Due(u, d)) <= Cardinality(Due(u, d)') /\ Cardinality(Due(u, d)') \in Nat
  BY DueGrows
<1>3. listeners'[d][u] <= listeners[d][u]
  OBVIOUS
<1>4. Cardinality(Due(u, d)) \in Nat
  BY DueFinite
<1>5. QED
  BY <1>1, <1>2, <1>3, <1>4

\* Taking the mutex of c to notify everyone c lists: send, try_send and close.
LEMMA WakeStep ==
  ASSUME TypeOK, TypeOK', ArgOK, SleepOK, PInv, NEW t \in Threads, NEW c \in Channels,
         NEW W \in SUBSET condq[c], WakeAndNotify(t, c, W), Free(c), pc[t] \in {"idle", "send"},
         arg'[t] = c, \A u \in Threads \ {t} : arg'[u] = arg[u], UNCHANGED <<cases, idx>>,
         \A d \in Channels \ {c} : Ready(d)' => Ready(d)
  PROVE  PInv'
<1>1. \A u \in W : u \in Threads /\ pc'[u] = "recv" /\ pc[u] = "recv_wait"
  BY DEF TypeOK, SyncType, ThreadType, WakeAndNotify, SleepOK
<1>2. pc'[t] = "notify" /\ \A u \in Threads \ (W \cup {t}) : pc'[u] = pc[u]
  BY DEF TypeOK, ThreadType, WakeAndNotify
<1>3. lock'[c] = t /\ \A d \in Channels \ {c} : lock'[d] = lock[d]
  BY DEF TypeOK, SyncType, WakeAndNotify
<1>4. /\ todo'[t] = {p \in Threads : listeners[c][p] > 0}
      /\ \A u \in Threads \ {t} : todo'[u] = todo[u]
      /\ UNCHANGED <<listeners, signaled>>
  BY DEF TypeOK, ThreadType, WakeAndNotify
<1>5. lock[c] = NULL /\ \A d \in Channels : lock[d] \in Threads \cup {NULL}
  BY DEF Free, TypeOK, SyncType
<1>6. MutexHeld'
  <2>1. ASSUME NEW d \in Channels, lock'[d] # NULL
        PROVE  pc'[lock'[d]] \in {"notify", "peek"} /\ arg'[lock'[d]] = d
    BY <1>1, <1>2, <1>3, <1>5, <2>1 DEF PInv, MutexHeld
  <2>2. ASSUME NEW u \in Threads, pc'[u] \in {"notify", "peek"}
        PROVE  lock'[arg'[u]] = u
    <3>1. CASE u = t
      BY <1>3, <3>1
    <3>2. CASE u # t
      <4>1. pc[u] \in {"notify", "peek"} /\ arg'[u] = arg[u]
        BY <1>1, <1>2, <2>2, <3>2
      <4>2. arg[u] \in Channels /\ lock[arg[u]] = u /\ u # NULL
        BY <4>1 DEF ArgOK, PInv, MutexHeld
      <4>3. QED
        BY <1>3, <1>5, <4>1, <4>2
    <3>3. QED
      BY <3>1, <3>2
  <2>3. QED
    BY <2>1, <2>2 DEF MutexHeld
<1>7. Registrations'
  <2>1. ASSUME NEW u \in Threads, NEW d \in Channels PROVE Due(u, d) \subseteq Due(u, d)'
    BY <1>1, <1>2 DEF Due
  <2>2. \A u \in Threads, d \in Channels : listeners'[d][u] <= listeners[d][u]
    BY <1>4 DEF TypeOK, SyncType
  <2>3. QED
    BY <2>1, <2>2, SameDue DEF PInv
<1>8. Addressees'
  BY <1>1, <1>2, <1>4 DEF PInv, Addressees
<1>9. Watched'
  <2> SUFFICES ASSUME NEW u \in Threads, NEW i \in 1..Len(cases'[u]), Watches(u, i)'
               PROVE  (/\ listeners[cases[u][i]][u] > 0
                       /\ Ready(cases[u][i]) =>
                            signaled[u] \/ (lock[cases[u][i]] # NULL /\ u \in todo[lock[cases[u][i]]]))'
    BY DEF Watched
  <2>1. u # t /\ u \notin W /\ Watches(u, i) /\ cases' = cases
    BY <1>1, <1>2 DEF Watches
  <2>2. cases[u][i] \in Channels
    BY <2>1 DEF TypeOK, ThreadType
  <2>3. CASE cases[u][i] = c
    BY <1>3, <1>4, <2>1, <2>3 DEF PInv, Watched
  <2>4. CASE cases[u][i] # c
    <3>1. Ready(cases[u][i])' => Ready(cases[u][i])
      BY <2>1, <2>2, <2>4 DEF Ready
    <3>2. lock[cases[u][i]] # NULL => lock[cases[u][i]] \in Threads \ {t}
      BY <1>5, <2>2 DEF PInv, MutexHeld
    <3>3. QED
      BY <1>3, <1>4, <2>1, <2>2, <2>4, <3>1, <3>2 DEF PInv, Watched
  <2>5. QED
    BY <2>3, <2>4
<1>10. Unsignaled'
  BY <1>1, <1>2, <1>4 DEF PInv, Unsignaled
<1>11. Rewound'
  BY <1>1, <1>2, <1>4 DEF PInv, Rewound
<1>12. QED
  BY <1>6, <1>7, <1>8, <1>9, <1>10, <1>11 DEF PInv

\* Taking the mutex of c to peek: nobody is about to be notified under it.
LEMMA PeekStep ==
  ASSUME TypeOK, TypeOK', ArgOK, PInv, NEW t \in Threads, NEW c \in Channels, Peek(t, c)
  PROVE  PInv'
<1>1. /\ pc[t] = "idle" /\ lock[c] = NULL
      /\ UNCHANGED <<chan, listeners, signaled, cases, idx, todo>>
  BY DEF Peek, Free, pick
<1>2. /\ pc'[t] = "peek" /\ arg'[t] = c
      /\ \A u \in Threads \ {t} : pc'[u] = pc[u] /\ arg'[u] = arg[u]
  BY DEF Peek, Enter, TypeOK, ThreadType
<1>3. lock'[c] = t /\ \A d \in Channels \ {c} : lock'[d] = lock[d]
  BY DEF Peek, TypeOK, SyncType
<1>4. \A d \in Channels : lock[d] \in Threads \cup {NULL}
  BY DEF TypeOK, SyncType
<1>5. MutexHeld'
  <2>1. ASSUME NEW d \in Channels, lock'[d] # NULL
        PROVE  pc'[lock'[d]] \in {"notify", "peek"} /\ arg'[lock'[d]] = d
    <3>1. CASE d = c
      BY <1>2, <1>3, <3>1
    <3>2. CASE d # c
      BY <1>1, <1>2, <1>3, <1>4, <2>1, <3>2 DEF PInv, MutexHeld
    <3> QED BY <3>1, <3>2
  <2>2. ASSUME NEW u \in Threads, pc'[u] \in {"notify", "peek"}
        PROVE  lock'[arg'[u]] = u
    <3>1. CASE u = t
      BY <1>2, <1>3, <3>1
    <3>2. CASE u # t
      <4>1. pc[u] \in {"notify", "peek"} /\ arg'[u] = arg[u]
        BY <1>2, <2>2, <3>2
      <4>2. arg[u] \in Channels /\ lock[arg[u]] = u /\ u # NULL
        BY <4>1, ChannelAssumption DEF ArgOK, PInv, MutexHeld
      <4> QED BY <1>1, <1>3, <4>1, <4>2
    <3> QED BY <3>1, <3>2
  <2> QED BY <2>1, <2>2 DEF MutexHeld
<1>6. Registrations'
  <2>1. ASSUME NEW u \in Threads, NEW d \in Channels PROVE Due(u, d) \subseteq Due(u, d)'
    BY <1>1, <1>2 DEF Due
  <2>2. \A u \in Threads, d \in Channels : listeners'[d][u] <= listeners[d][u]
    BY <1>1 DEF TypeOK, SyncType
  <2> QED BY <2>1, <2>2, SameDue DEF PInv
<1>7. Addressees'
  BY <1>1, <1>2 DEF PInv, Addressees
<1>8. Watched'
  <2> SUFFICES ASSUME NEW u \in Threads, NEW i \in 1..Len(cases'[u]), Watches(u, i)'
               PROVE  (/\ listeners[cases[u][i]][u] > 0
                       /\ Ready(cases[u][i]) =>
                            signaled[u] \/ (lock[cases[u][i]] # NULL /\ u \in todo[lock[cases[u][i]]]))'
    BY DEF Watched
  <2>1. Watches(u, i) /\ cases' = cases /\ i \in 1..Len(cases[u])
    BY <1>1, <1>2 DEF Watches
  <2>2. cases[u][i] \in Channels
    BY <2>1 DEF TypeOK, ThreadType
  <2>3. Ready(cases[u][i])' <=> Ready(cases[u][i])
    BY <1>1, <2>1 DEF Ready, chan
  <2>4. lock[cases[u][i]] # NULL => lock'[cases[u][i]] = lock[cases[u][i]]
    BY <1>1, <1>3, <2>2
  <2> QED BY <1>1, <2>1, <2>3, <2>4 DEF PInv, Watched
<1>9. Unsignaled'
  BY <1>1, <1>2 DEF PInv, Unsignaled
<1>10. Rewound'
  BY <1>1, <1>2 DEF PInv, Rewound
<1> QED BY <1>5, <1>6, <1>7, <1>8, <1>9, <1>10 DEF PInv

LEMMA NotifyStep ==
  ASSUME TypeOK, TypeOK', ArgOK, PInv, NEW t \in Threads, Notify(t)
  PROVE  PInv'
<1>1. PICK p \in todo[t] :
        /\ signaled' = [signaled EXCEPT ![p] = TRUE]
        /\ pc' = [pc EXCEPT ![p] = IF @ = "wait" THEN "check" ELSE @]
        /\ todo' = [todo EXCEPT ![t] = todo[t] \ {p}]
  BY DEF Notify
<1>2. p \in Threads /\ UNCHANGED <<chan, lock, listeners, cases, idx, arg>>
  BY DEF Notify, pick, TypeOK, ThreadType
<1>3. \A u \in Threads : pc'[u] = pc[u] \/ (u = p /\ pc[u] = "wait" /\ pc'[u] = "check")
  BY <1>1, <1>2 DEF TypeOK, ThreadType
<1>4. \A u \in Threads : todo'[u] = IF u = t THEN todo[t] \ {p} ELSE todo[u]
  BY <1>1 DEF TypeOK, ThreadType
<1>5. signaled'[p] = TRUE /\ \A u \in Threads \ {p} : signaled'[u] = signaled[u]
  BY <1>1, <1>2 DEF TypeOK, SyncType
<1>6. \A d \in Channels : lock[d] \in Threads \cup {NULL}
  BY DEF TypeOK, SyncType
<1>7. MutexHeld'
  BY <1>2, <1>3, <1>6 DEF PInv, MutexHeld
<1>8. Registrations'
  <2>1. ASSUME NEW u \in Threads, NEW d \in Channels PROVE Due(u, d) \subseteq Due(u, d)'
    BY <1>2, <1>3 DEF Due
  <2>2. \A u \in Threads, d \in Channels : listeners'[d][u] <= listeners[d][u]
    BY <1>2 DEF TypeOK, SyncType
  <2>3. QED
    BY <2>1, <2>2, SameDue DEF PInv
<1>9. Addressees'
  BY <1>2, <1>3, <1>4 DEF PInv, Addressees
<1>10. Watched'
  <2> SUFFICES ASSUME NEW u \in Threads, NEW i \in 1..Len(cases'[u]), Watches(u, i)'
               PROVE  (/\ listeners[cases[u][i]][u] > 0
                       /\ Ready(cases[u][i]) =>
                            signaled[u] \/ (lock[cases[u][i]] # NULL /\ u \in todo[lock[cases[u][i]]]))'
    BY DEF Watched
  <2>1. Watches(u, i) /\ cases' = cases /\ i \in 1..Len(cases[u])
    BY <1>2, <1>3 DEF Watches
  <2>2. cases[u][i] \in Channels
    BY <2>1 DEF TypeOK, ThreadType
  <2>3. Ready(cases[u][i])' <=> Ready(cases[u][i])
    BY <1>2, <2>1 DEF Ready, chan
  <2>4. CASE u = p
    BY <1>2, <1>5, <2>1, <2>4 DEF PInv, Watched
  <2>5. CASE u # p
    <3>1. u \in todo[lock[cases[u][i]]] /\ lock[cases[u][i]] # NULL => u \in todo'[lock[cases[u][i]]]
      BY <1>4, <1>6, <2>2, <2>5
    <3>2. QED
      BY <1>2, <1>5, <2>1, <2>3, <2>5, <3>1 DEF PInv, Watched
  <2>6. QED
    BY <2>4, <2>5
<1>11. Unsignaled'
  BY <1>1, <1>2, <1>3, <1>5 DEF PInv, Unsignaled, TypeOK, ThreadType
<1>12. Rewound'
  BY <1>1, <1>2, <1>3, <1>5 DEF PInv, Rewound, TypeOK, ThreadType
<1>13. QED
  BY <1>7, <1>8, <1>9, <1>10, <1>11, <1>12 DEF PInv

\* Giving back a mutex that was kept.
LEMMA LockGiven ==
  ASSUME TypeOK, TypeOK', ArgOK, PInv, NEW t \in Threads, Unlock(t) \/ PeekReturn(t)
  PROVE  PInv'
<1>1. /\ pc[t] \in {"notify", "peek"} /\ todo[t] = {} /\ arg[t] \in Channels
      /\ UNCHANGED <<chan, listeners, signaled, cases, idx, todo>>
  <2>1. CASE Unlock(t)
    BY <2>1 DEF Unlock, pick, ArgOK
  <2>2. CASE PeekReturn(t)
    <3>1. pc[t] = "peek" /\ UNCHANGED <<chan, listeners, signaled, cases, idx, todo>>
      BY <2>2 DEF PeekReturn, pick
    <3>2. todo[t] \subseteq Threads
      BY DEF TypeOK, ThreadType
    <3> QED BY <3>1, <3>2 DEF PInv, Addressees, ArgOK
  <2> QED BY <2>1, <2>2
<1>2. pc'[t] = "idle" /\ \A u \in Threads \ {t} : pc'[u] = pc[u] /\ arg'[u] = arg[u]
  BY DEF Unlock, PeekReturn, Return, TypeOK, ThreadType
<1>3. lock'[arg[t]] = NULL /\ \A d \in Channels \ {arg[t]} : lock'[d] = lock[d]
  BY <1>1 DEF Unlock, PeekReturn, TypeOK, SyncType
<1>4. \A d \in Channels : lock[d] \in Threads \cup {NULL}
  BY DEF TypeOK, SyncType
<1>5. lock[arg[t]] = t
  BY <1>1 DEF PInv, MutexHeld
<1>6. MutexHeld'
  <2>1. ASSUME NEW d \in Channels, lock'[d] # NULL
        PROVE  pc'[lock'[d]] \in {"notify", "peek"} /\ arg'[lock'[d]] = d
    <3>1. d # arg[t] /\ lock'[d] = lock[d]
      BY <1>3, <2>1
    <3>2. lock[d] \in Threads /\ pc[lock[d]] \in {"notify", "peek"} /\ arg[lock[d]] = d
      BY <1>4, <2>1, <3>1 DEF PInv, MutexHeld
    <3>3. lock[d] # t
      BY <3>1, <3>2
    <3>4. QED
      BY <1>2, <3>1, <3>2, <3>3
  <2>2. ASSUME NEW u \in Threads, pc'[u] \in {"notify", "peek"}
        PROVE  lock'[arg'[u]] = u
    <3>1. u # t
      BY <1>2, <2>2
    <3>2. pc[u] \in {"notify", "peek"} /\ arg'[u] = arg[u] /\ arg[u] \in Channels /\ lock[arg[u]] = u
      BY <1>2, <2>2, <3>1 DEF PInv, MutexHeld, ArgOK
    <3>3. QED
      BY <1>3, <1>5, <3>1, <3>2
  <2>3. QED
    BY <2>1, <2>2 DEF MutexHeld
<1>7. Registrations'
  <2>1. ASSUME NEW u \in Threads, NEW d \in Channels PROVE Due(u, d) \subseteq Due(u, d)'
    BY <1>1, <1>2 DEF Due
  <2>2. \A u \in Threads, d \in Channels : listeners'[d][u] <= listeners[d][u]
    BY <1>1 DEF TypeOK, SyncType
  <2>3. QED
    BY <2>1, <2>2, SameDue DEF PInv
<1>8. Addressees'
  BY <1>1, <1>2 DEF PInv, Addressees
<1>9. Watched'
  <2> SUFFICES ASSUME NEW u \in Threads, NEW i \in 1..Len(cases'[u]), Watches(u, i)'
               PROVE  (/\ listeners[cases[u][i]][u] > 0
                       /\ Ready(cases[u][i]) =>
                            signaled[u] \/ (lock[cases[u][i]] # NULL /\ u \in todo[lock[cases[u][i]]]))'
    BY DEF Watched
  <2>1. Watches(u, i) /\ cases' = cases /\ i \in 1..Len(cases[u])
    BY <1>1, <1>2 DEF Watches
  <2>2. cases[u][i] \in Channels
    BY <2>1 DEF TypeOK, ThreadType
  <2>3. Ready(cases[u][i])' <=> Ready(cases[u][i])
    BY <1>1, <2>1 DEF Ready, chan
  <2>4. u \notin todo[lock[arg[t]]]
    BY <1>1, <1>5
  <2>5. lock[cases[u][i]] # NULL /\ u \in todo[lock[cases[u][i]]] => lock'[cases[u][i]] = lock[cases[u][i]]
    BY <1>3, <2>2, <2>4
  <2>6. QED
    BY <1>1, <2>1, <2>3, <2>5 DEF PInv, Watched
<1>10. Unsignaled'
  BY <1>1, <1>2 DEF PInv, Unsignaled
<1>11. Rewound'
  BY <1>1, <1>2 DEF PInv, Rewound
<1>12. QED
  BY <1>6, <1>7, <1>8, <1>9, <1>10, <1>11 DEF PInv

\* The channel of the case at hand lists the selector of t once more.
LEMMA RegisterStep ==
  ASSUME TypeOK, TypeOK', ArgOK, PInv, NEW t \in Threads, ScanRegister(t)
  PROVE  PInv'
<1>0. PICK c \in Channels, k \in Nat : c = Case(t) /\ k = idx[t]
  BY CaseIsChannel DEF ScanRegister, TypeOK, ThreadType
<1>1. /\ pc[t] = "scan" /\ c \in Channels /\ k \in 1..Len(cases[t]) /\ cases[t][k] = c
      /\ lock[c] = NULL /\ ~Ready(c)
      /\ UNCHANGED <<chan, lock, signaled, cases, arg, todo>>
  BY <1>0 DEF ScanRegister, MoreCases, Case, Free, TypeOK, ThreadType
<1>2. pc' = pc /\ idx'[t] = k + 1 /\ \A u \in Threads \ {t} : idx'[u] = idx[u]
  BY <1>0 DEF ScanRegister, Goto, TypeOK, ThreadType
<1>3. /\ listeners'[c][t] = listeners[c][t] + 1
      /\ \A d \in Channels, u \in Threads : d # c \/ u # t => listeners'[d][u] = listeners[d][u]
  BY <1>0, <1>1 DEF ScanRegister, TypeOK, SyncType
<1>4. \A d \in Channels, u \in Threads : listeners[d][u] \in Nat /\ listeners'[d][u] \in Nat
  BY DEF TypeOK, SyncType
<1>5. \A d \in Channels : lock[d] \in Threads \cup {NULL}
  BY DEF TypeOK, SyncType
<1>6. MutexHeld'
  BY <1>1, <1>2 DEF PInv, MutexHeld
<1>7. Registrations'
  <2> SUFFICES ASSUME NEW u \in Threads, NEW d \in Channels
               PROVE  listeners'[d][u] <= Cardinality(Due(u, d)')
    BY DEF Registrations
  <2>1. listeners[d][u] <= Cardinality(Due(u, d)) /\ Cardinality(Due(u, d)) \in Nat
    BY DueFinite DEF PInv, Registrations
  <2>2. CASE u = t /\ d = c
    <3>1. Due(t, c)' = Due(t, c) \cup {k} /\ k \notin Due(t, c)
      BY <1>0, <1>1, <1>2 DEF Due, TypeOK, ThreadType
    <3>2. IsFiniteSet(Due(t, c))
      BY <1>1, DueFinite
    <3>3. Cardinality(Due(t, c)') = Cardinality(Due(t, c)) + 1
      BY <3>1, <3>2, FS_AddElement
    <3>4. QED
      BY <1>3, <1>4, <2>1, <2>2, <3>3
  <2>3. CASE u # t \/ d # c
    <3>1. Due(u, d) \subseteq Due(u, d)'
      BY <1>0, <1>1, <1>2, <2>3 DEF Due, TypeOK, ThreadType
    <3>2. Cardinality(Due(u, d)) <= Cardinality(Due(u, d)') /\ Cardinality(Due(u, d)') \in Nat
      BY <3>1, DueGrows
    <3>3. listeners'[d][u] = listeners[d][u]
      BY <1>3, <2>3
    <3>4. QED
      BY <1>4, <2>1, <3>2, <3>3
  <2>4. QED
    BY <2>2, <2>3
<1>8. Addressees'
  <2>1. \A d \in Channels, u \in Threads : listeners[d][u] > 0 => listeners'[d][u] > 0
    BY <1>1, <1>3, <1>4
  <2>2. QED
    BY <1>1, <1>2, <2>1 DEF PInv, Addressees, ArgOK
<1>9. Watched'
  <2> SUFFICES ASSUME NEW u \in Threads, NEW i \in 1..Len(cases'[u]), Watches(u, i)'
               PROVE  (/\ listeners[cases[u][i]][u] > 0
                       /\ Ready(cases[u][i]) =>
                            signaled[u] \/ (lock[cases[u][i]] # NULL /\ u \in todo[lock[cases[u][i]]]))'
    BY DEF Watched
  <2>1. cases' = cases /\ i \in 1..Len(cases[u]) /\ cases[u][i] \in Channels
    BY <1>1 DEF TypeOK, ThreadType
  <2>2. Ready(cases[u][i])' <=> Ready(cases[u][i])
    BY <1>1, <2>1 DEF Ready, chan
  <2>3. CASE u = t /\ i = k
    BY <1>1, <1>3, <1>4, <2>2, <2>3
  <2>4. CASE u # t \/ i # k
    <3>1. Watches(u, i)
      BY <1>0, <1>1, <1>2, <2>1, <2>4 DEF Watches, TypeOK, ThreadType
    <3>2. listeners[cases[u][i]][u] > 0 => listeners'[cases[u][i]][u] > 0
      BY <1>1, <1>3, <1>4, <2>1
    <3>3. QED
      BY <1>1, <2>1, <2>2, <3>1, <3>2 DEF PInv, Watched
  <2>5. QED
    BY <2>3, <2>4
<1>10. Unsignaled'
  BY <1>1, <1>2 DEF PInv, Unsignaled
<1>11. Rewound'
  BY <1>1, <1>2 DEF PInv, Rewound
<1>12. QED
  BY <1>6, <1>7, <1>8, <1>9, <1>10, <1>11 DEF PInv

\* unregister_all frees one record of t in the channel of one case.
LEMMA UnregisterStep ==
  ASSUME TypeOK, TypeOK', ArgOK, PInv, NEW t \in Threads, Unregister(t)
  PROVE  PInv'
<1>0. PICK c \in Channels, k \in Nat : c = Case(t) /\ k = idx[t]
  BY CaseIsChannel DEF Unregister, TypeOK, ThreadType
<1>1. /\ pc[t] = "unreg" /\ c \in Channels /\ k \in 1..Len(cases[t]) /\ cases[t][k] = c
      /\ lock[c] = NULL
      /\ UNCHANGED <<chan, lock, signaled, cases, pc, arg, todo>>
  BY <1>0 DEF Unregister, MoreCases, Case, Free, TypeOK, ThreadType
<1>2. idx'[t] = k + 1 /\ \A u \in Threads \ {t} : idx'[u] = idx[u]
  BY <1>0 DEF Unregister, TypeOK, ThreadType
<1>3. /\ listeners'[c][t] = IF listeners[c][t] > 0 THEN listeners[c][t] - 1 ELSE 0
      /\ \A d \in Channels, u \in Threads : d # c \/ u # t => listeners'[d][u] = listeners[d][u]
  BY <1>0, <1>1 DEF Unregister, TypeOK, SyncType
<1>4. \A d \in Channels, u \in Threads : listeners[d][u] \in Nat /\ listeners'[d][u] \in Nat
  BY DEF TypeOK, SyncType
<1>5. \A d \in Channels : lock[d] \in Threads \cup {NULL}
  BY DEF TypeOK, SyncType
<1>6. MutexHeld'
  BY <1>1 DEF PInv, MutexHeld
<1>7. Registrations'
  <2> SUFFICES ASSUME NEW u \in Threads, NEW d \in Channels
               PROVE  listeners'[d][u] <= Cardinality(Due(u, d)')
    BY DEF Registrations
  <2>1. listeners[d][u] <= Cardinality(Due(u, d)) /\ Cardinality(Due(u, d)) \in Nat
    BY DueFinite DEF PInv, Registrations
  <2>2. CASE u = t /\ d = c
    <3>1. Due(t, c)' = Due(t, c) \ {k} /\ k \in Due(t, c)
      BY <1>0, <1>1, <1>2 DEF Due, TypeOK, ThreadType
    <3>2. IsFiniteSet(Due(t, c))
      BY <1>1, DueFinite
    <3>3. IsFiniteSet(Due(t, c)') /\ Cardinality(Due(t, c)') = Cardinality(Due(t, c)) - 1
      BY <3>1, <3>2, FS_RemoveElement
    <3>4. Cardinality(Due(t, c)') \in Nat
      BY <3>3, FS_CardinalityType
    <3>5. QED
      BY <1>3, <1>4, <2>1, <2>2, <3>3, <3>4
  <2>3. CASE u # t \/ d # c
    <3>1. Due(u, d) \subseteq Due(u, d)'
      BY <1>0, <1>1, <1>2, <2>3 DEF Due, TypeOK, ThreadType
    <3>2. Cardinality(Due(u, d)) <= Cardinality(Due(u, d)') /\ Cardinality(Due(u, d)') \in Nat
      BY <3>1, DueGrows
    <3>3. listeners'[d][u] = listeners[d][u]
      BY <1>3, <2>3
    <3>4. QED
      BY <1>4, <2>1, <3>2, <3>3
  <2>4. QED
    BY <2>2, <2>3
<1>8. Addressees'
  <2> SUFFICES ASSUME NEW v \in Threads, NEW u \in Threads, u \in todo[v]
               PROVE  pc[v] = "notify" /\ listeners'[arg[v]][u] > 0
    BY <1>1 DEF Addressees
  <2>1. pc[v] = "notify" /\ listeners[arg[v]][u] > 0 /\ arg[v] \in Channels /\ lock[arg[v]] = v
    BY DEF PInv, Addressees, ArgOK, MutexHeld
  <2>2. arg[v] # c
    BY <1>1, <2>1
  <2>3. QED
    BY <1>3, <2>1, <2>2
<1>9. Watched'
  <2> SUFFICES ASSUME NEW u \in Threads, NEW i \in 1..Len(cases'[u]), Watches(u, i)'
               PROVE  (/\ listeners[cases[u][i]][u] > 0
                       /\ Ready(cases[u][i]) =>
                            signaled[u] \/ (lock[cases[u][i]] # NULL /\ u \in todo[lock[cases[u][i]]]))'
    BY DEF Watched
  <2>1. cases' = cases /\ i \in 1..Len(cases[u]) /\ cases[u][i] \in Channels
    BY <1>1 DEF TypeOK, ThreadType
  <2>2. Ready(cases[u][i])' <=> Ready(cases[u][i])
    BY <1>1, <2>1 DEF Ready, chan
  <2>3. u # t /\ Watches(u, i)
    BY <1>1, <1>2 DEF Watches
  <2>4. QED
    BY <1>1, <1>3, <2>1, <2>2, <2>3 DEF PInv, Watched
<1>10. Unsignaled'
  BY <1>1 DEF PInv, Unsignaled
<1>11. Rewound'
  BY <1>0, <1>1, <1>2 DEF PInv, Rewound
<1>12. QED
  BY <1>6, <1>7, <1>8, <1>9, <1>10, <1>11 DEF PInv

\* The finaliser empties only a channel that no pick lists as a case.
LEMMA CollectStep ==
  ASSUME TypeOK, TypeOK', ArgOK, PInv, NEW c \in Channels, Collect(c)
  PROVE  PInv'
<1>1. /\ UNCHANGED <<lock, signaled, cases, idx, pc, arg, todo>>
      /\ \A d \in Channels \ {c} :
            head'[d] = head[d] /\ closed'[d] = closed[d] /\ listeners'[d] = listeners[d]
      /\ listeners'[c] = [t \in Threads |-> 0]
  BY DEF Collect, pick, TypeOK, ChanType, SyncType
<1>2. \A u \in Threads : pc[u] # "idle" =>
        arg[u] # c /\ \A i \in 1..Len(cases[u]) : cases[u][i] # c
  BY DEF Collect, InUse
<1>3. MutexHeld'
  BY <1>1 DEF PInv, MutexHeld
<1>4. Registrations'
  <2>1. ASSUME NEW u \in Threads, NEW d \in Channels PROVE Due(u, d) \subseteq Due(u, d)'
    BY <1>1 DEF Due
  <2>2. ASSUME NEW u \in Threads, NEW d \in Channels PROVE listeners'[d][u] <= listeners[d][u]
    <3>1. listeners[d][u] \in Nat /\ (d = c => listeners'[d][u] = 0)
      BY <1>1 DEF TypeOK, SyncType
    <3>2. QED
      BY <1>1, <3>1
  <2>3. QED
    BY <2>1, <2>2, SameDue DEF PInv
<1>5. Addressees'
  <2> SUFFICES ASSUME NEW v \in Threads, NEW u \in Threads, u \in todo[v]
               PROVE  pc[v] = "notify" /\ listeners'[arg[v]][u] > 0
    BY <1>1 DEF Addressees
  <2>1. pc[v] = "notify" /\ listeners[arg[v]][u] > 0 /\ arg[v] \in Channels
    BY DEF PInv, Addressees, ArgOK
  <2>2. QED
    BY <1>1, <1>2, <2>1
<1>6. Watched'
  <2> SUFFICES ASSUME NEW u \in Threads, NEW i \in 1..Len(cases'[u]), Watches(u, i)'
               PROVE  (/\ listeners[cases[u][i]][u] > 0
                       /\ Ready(cases[u][i]) =>
                            signaled[u] \/ (lock[cases[u][i]] # NULL /\ u \in todo[lock[cases[u][i]]]))'
    BY DEF Watched
  <2>1. cases' = cases /\ i \in 1..Len(cases[u]) /\ cases[u][i] \in Channels /\ Watches(u, i)
    BY <1>1 DEF TypeOK, ThreadType, Watches
  <2>2. cases[u][i] # c
    BY <1>2, <2>1 DEF Watches
  <2>3. Ready(cases[u][i])' <=> Ready(cases[u][i])
    BY <1>1, <2>1, <2>2 DEF Ready
  <2>4. QED
    BY <1>1, <2>1, <2>2, <2>3 DEF PInv, Watched
<1>7. Unsignaled'
  BY <1>1 DEF PInv, Unsignaled
<1>8. Rewound'
  BY <1>1 DEF PInv, Rewound
<1>9. QED
  BY <1>3, <1>4, <1>5, <1>6, <1>7, <1>8 DEF PInv

-----------------------------------------------------------------------------
(* Every step.                                                             *)

LEMMA EnqueueReady ==
  ASSUME ChanType, NEW c \in Channels, NEW e \in Elems, Enqueue(c, e), UNCHANGED closed
  PROVE  \A d \in Channels \ {c} : Ready(d)' => Ready(d)
BY DEF ChanType, Enqueue, Ready

LEMMA DequeueReady ==
  ASSUME ChanType, NEW c \in Channels, head[c] # NULL, Dequeue(c)
  PROVE  \A d \in Channels : Ready(d)' => Ready(d)
BY DEF ChanType, Dequeue, Ready

LEMMA TakeCaseReady ==
  ASSUME TypeOK, NEW t \in Threads, MoreCases(t), TakeCase(t)
  PROVE  \A d \in Channels : Ready(d)' => Ready(d)
<1>1. Case(t) \in Channels /\ ChanType
  BY CaseIsChannel DEF TypeOK
<1>2. CASE head[Case(t)] # NULL
  BY <1>1, <1>2, DequeueReady DEF TakeCase
<1>3. CASE head[Case(t)] = NULL
  BY <1>3 DEF TakeCase, chan, Ready
<1>4. QED
  BY <1>2, <1>3

LEMMA InitPInv == Init => PInv
<1> SUFFICES ASSUME Init PROVE PInv
  OBVIOUS
<1>1. MutexHeld /\ Addressees /\ Watched /\ Unsignaled /\ Rewound
  BY DEF Init, MutexHeld, Addressees, Watched, Watches, Unsignaled, Rewound
<1>2. Registrations
  <2>1. TypeOK
    BY InitTInv DEF TInv
  <2>2. \A t \in Threads, c \in Channels : Cardinality(Due(t, c)) \in Nat /\ listeners[c][t] = 0
    BY <2>1, DueFinite DEF Init
  <2>3. QED
    BY <2>2 DEF Registrations
<1>3. QED
  BY <1>1, <1>2 DEF PInv

LEMMA StepPInv == TInv /\ PInv /\ [Next]_vars => PInv'
<1> SUFFICES ASSUME TInv, PInv, [Next]_vars PROVE PInv'
  OBVIOUS
<1>0. /\ TypeOK /\ ChanType /\ SyncType /\ ThreadType /\ ArgOK /\ SleepOK
      /\ TypeOK'
  BY StepTInv DEF TInv, TypeOK
<1>1. ASSUME NEW t \in Threads, NEW c \in Channels, NEW e \in Elems, Send(t, c, e)
     PROVE  PInv'
  <2>1. \A d \in Channels : Ready(d)' => Ready(d)
    BY <1>0, <1>1 DEF Send, Ready, chan
  <2>2. /\ UNCHANGED <<lock, listeners, todo, signaled>>
        /\ \A u \in Threads \ {t} : /\ pc'[u] = pc[u] /\ arg'[u] = arg[u]
                                 /\ cases'[u] = cases[u] /\ idx'[u] = idx[u]
        /\ pc[t] \in Elsewhere /\ pc'[t] \in Elsewhere
    BY <1>0, <1>1 DEF Send, Enter, Elsewhere, PCs, PickPhases, ThreadType, sync, pick
  <2>3. QED
    BY <1>0, <2>1, <2>2, CallStep
<1>2. ASSUME NEW t \in Threads, NEW c \in Channels, NEW e \in Elems, SendFails(t, c, e)
     PROVE  PInv'
  <2>1. \A d \in Channels : Ready(d)' => Ready(d)
    BY <1>0, <1>2 DEF SendFails, Ready, chan
  <2>2. /\ UNCHANGED <<lock, listeners, todo, signaled>>
        /\ \A u \in Threads \ {t} : /\ pc'[u] = pc[u] /\ arg'[u] = arg[u]
                                 /\ cases'[u] = cases[u] /\ idx'[u] = idx[u]
        /\ pc[t] \in Elsewhere /\ pc'[t] \in Elsewhere
    BY <1>0, <1>2 DEF SendFails, Return, Elsewhere, PCs, PickPhases, ThreadType, sync, pick
  <2>3. QED
    BY <1>0, <2>1, <2>2, CallStep
<1>3. ASSUME NEW t \in Threads, SendOpen(t)
     PROVE  PInv'
  <2>1. arg[t] \in Channels /\ elem[t] \in Elems /\ pc[t] = "send"
    BY <1>0, <1>3 DEF SendOpen, ArgOK
  <2>2. PICK W \in Signalled(arg[t]) : WakeAndNotify(t, arg[t], W)
    BY <1>0, <1>3 DEF SendOpen
  <2>3. W \in SUBSET condq[arg[t]]
    BY <2>1, <2>2, SignalledSubset
  <2>4. \A d \in Channels \ {arg[t]} : Ready(d)' => Ready(d)
    BY <1>0, <1>3, <2>1, EnqueueReady DEF SendOpen
  <2>5. Free(arg[t]) /\ UNCHANGED <<cases, idx, arg>>
    BY <1>0, <1>3 DEF SendOpen, pick
  <2>6. QED
    BY <1>0, <2>1, <2>2, <2>3, <2>4, <2>5, WakeStep
<1>4. ASSUME NEW t \in Threads, SendClosed(t)
     PROVE  PInv'
  <2>1. \A d \in Channels : Ready(d)' => Ready(d)
    BY <1>0, <1>4 DEF SendClosed, Ready, chan
  <2>2. /\ UNCHANGED <<lock, listeners, todo, signaled>>
        /\ \A u \in Threads \ {t} : /\ pc'[u] = pc[u] /\ arg'[u] = arg[u]
                                 /\ cases'[u] = cases[u] /\ idx'[u] = idx[u]
        /\ pc[t] \in Elsewhere /\ pc'[t] \in Elsewhere
    BY <1>0, <1>4 DEF SendClosed, Return, Elsewhere, PCs, PickPhases, ThreadType, sync, pick
  <2>3. QED
    BY <1>0, <2>1, <2>2, CallStep
<1>5. ASSUME NEW t \in Threads, NEW c \in Channels, NEW e \in Elems, TrySend(t, c, e)
     PROVE  PInv'
  <2>1. PICK W \in Signalled(c) : WakeAndNotify(t, c, W)
    BY <1>0, <1>5 DEF TrySend
  <2>2. W \in SUBSET condq[c]
    BY <2>1, SignalledSubset
  <2>3. \A d \in Channels \ {c} : Ready(d)' => Ready(d)
    BY <1>0, <1>5, EnqueueReady DEF TrySend
  <2>4. /\ Free(c) /\ pc[t] = "idle" /\ UNCHANGED <<cases, idx>>
        /\ arg'[t] = c /\ \A u \in Threads \ {t} : arg'[u] = arg[u]
    BY <1>0, <1>5 DEF TrySend, Enter, pick, ThreadType
  <2>5. QED
    BY <1>0, <2>1, <2>2, <2>3, <2>4, WakeStep
<1>6. ASSUME NEW t \in Threads, NEW c \in Channels, NEW e \in Elems, TrySendRefused(t, c, e)
     PROVE  PInv'
  <2>1. \A d \in Channels : Ready(d)' => Ready(d)
    BY <1>0, <1>6 DEF TrySendRefused, Ready, chan
  <2>2. /\ UNCHANGED <<lock, listeners, todo, signaled>>
        /\ \A u \in Threads \ {t} : /\ pc'[u] = pc[u] /\ arg'[u] = arg[u]
                                 /\ cases'[u] = cases[u] /\ idx'[u] = idx[u]
        /\ pc[t] \in Elsewhere /\ pc'[t] \in Elsewhere
    BY <1>0, <1>6 DEF TrySendRefused, Return, Elsewhere, PCs, PickPhases, ThreadType, sync, pick
  <2>3. QED
    BY <1>0, <2>1, <2>2, CallStep
<1>7. ASSUME NEW t \in Threads, NEW c \in Channels, Close(t, c)
     PROVE  PInv'
  <2>1. WakeAndNotify(t, c, condq[c]) /\ condq[c] \in SUBSET condq[c]
    BY <1>0, <1>7 DEF Close
  <2>2. \A d \in Channels \ {c} : Ready(d)' => Ready(d)
    BY <1>0, <1>7 DEF Close, Ready, TypeOK, ChanType
  <2>3. /\ Free(c) /\ pc[t] = "idle" /\ UNCHANGED <<cases, idx>>
        /\ arg'[t] = c /\ \A u \in Threads \ {t} : arg'[u] = arg[u]
    BY <1>0, <1>7 DEF Close, Enter, pick, ThreadType
  <2>4. QED
    BY <1>0, <2>1, <2>2, <2>3, WakeStep
<1>8. ASSUME NEW t \in Threads, Notify(t)
     PROVE  PInv'
  BY <1>0, <1>8, NotifyStep
<1>9. ASSUME NEW t \in Threads, Unlock(t)
     PROVE  PInv'
  BY <1>0, <1>9, LockGiven
<1>10. ASSUME NEW t \in Threads, NEW c \in Channels, Receive(t, c)
     PROVE  PInv'
  <2>1. \A d \in Channels : Ready(d)' => Ready(d)
    BY <1>0, <1>10 DEF Receive, Ready, chan
  <2>2. /\ UNCHANGED <<lock, listeners, todo, signaled>>
        /\ \A u \in Threads \ {t} : /\ pc'[u] = pc[u] /\ arg'[u] = arg[u]
                                 /\ cases'[u] = cases[u] /\ idx'[u] = idx[u]
        /\ pc[t] \in Elsewhere /\ pc'[t] \in Elsewhere
    BY <1>0, <1>10 DEF Receive, Enter, Elsewhere, PCs, PickPhases, ThreadType, sync, pick
  <2>3. QED
    BY <1>0, <2>1, <2>2, CallStep
<1>11. ASSUME NEW t \in Threads, ReceiveElem(t)
     PROVE  PInv'
  <2>1. \A d \in Channels : Ready(d)' => Ready(d)
    BY <1>0, <1>11, DequeueReady DEF ReceiveElem, ArgOK
  <2>2. /\ UNCHANGED <<lock, listeners, todo, signaled>>
        /\ \A u \in Threads \ {t} : /\ pc'[u] = pc[u] /\ arg'[u] = arg[u]
                                 /\ cases'[u] = cases[u] /\ idx'[u] = idx[u]
        /\ pc[t] \in Elsewhere /\ pc'[t] \in Elsewhere
    BY <1>0, <1>11 DEF ReceiveElem, Return, Elsewhere, PCs, PickPhases, ThreadType, sync, pick
  <2>3. QED
    BY <1>0, <2>1, <2>2, CallStep
<1>12. ASSUME NEW t \in Threads, ReceiveClosed(t)
     PROVE  PInv'
  <2>1. \A d \in Channels : Ready(d)' => Ready(d)
    BY <1>0, <1>12 DEF ReceiveClosed, Ready, chan
  <2>2. /\ UNCHANGED <<lock, listeners, todo, signaled>>
        /\ \A u \in Threads \ {t} : /\ pc'[u] = pc[u] /\ arg'[u] = arg[u]
                                 /\ cases'[u] = cases[u] /\ idx'[u] = idx[u]
        /\ pc[t] \in Elsewhere /\ pc'[t] \in Elsewhere
    BY <1>0, <1>12 DEF ReceiveClosed, Return, Elsewhere, PCs, PickPhases, ThreadType, sync, pick
  <2>3. QED
    BY <1>0, <2>1, <2>2, CallStep
<1>13. ASSUME NEW t \in Threads, ReceiveWait(t)
     PROVE  PInv'
  <2>1. \A d \in Channels : Ready(d)' => Ready(d)
    BY <1>0, <1>13 DEF ReceiveWait, Ready, chan
  <2>2. /\ UNCHANGED <<lock, listeners, todo, signaled>>
        /\ \A u \in Threads \ {t} : /\ pc'[u] = pc[u] /\ arg'[u] = arg[u]
                                 /\ cases'[u] = cases[u] /\ idx'[u] = idx[u]
        /\ pc[t] \in Elsewhere /\ pc'[t] \in Elsewhere
    BY <1>0, <1>13 DEF ReceiveWait, Elsewhere, PCs, PickPhases, ThreadType, sync, pick
  <2>3. QED
    BY <1>0, <2>1, <2>2, CallStep
<1>14. ASSUME NEW t \in Threads, SpuriousWakeup(t)
     PROVE  PInv'
  <2>1. \A d \in Channels : Ready(d)' => Ready(d)
    BY <1>0, <1>14 DEF SpuriousWakeup, Ready, chan
  <2>2. /\ UNCHANGED <<lock, listeners, todo, signaled>>
        /\ \A u \in Threads \ {t} : /\ pc'[u] = pc[u] /\ arg'[u] = arg[u]
                                 /\ cases'[u] = cases[u] /\ idx'[u] = idx[u]
        /\ pc[t] \in Elsewhere /\ pc'[t] \in Elsewhere
    BY <1>0, <1>14 DEF SpuriousWakeup, Elsewhere, PCs, PickPhases, ThreadType, sync, pick
  <2>3. QED
    BY <1>0, <2>1, <2>2, CallStep
<1>15. ASSUME NEW t \in Threads, NEW c \in Channels, TryReceive(t, c)
     PROVE  PInv'
  <2>1. \A d \in Channels : Ready(d)' => Ready(d)
    BY <1>0, <1>15, DequeueReady DEF TryReceive, Ready, chan
  <2>2. /\ UNCHANGED <<lock, listeners, todo, signaled>>
        /\ \A u \in Threads \ {t} : /\ pc'[u] = pc[u] /\ arg'[u] = arg[u]
                                 /\ cases'[u] = cases[u] /\ idx'[u] = idx[u]
        /\ pc[t] \in Elsewhere /\ pc'[t] \in Elsewhere
    BY <1>0, <1>15 DEF TryReceive, Return, Elsewhere, PCs, PickPhases, ThreadType, sync, pick
  <2>3. QED
    BY <1>0, <2>1, <2>2, CallStep
<1>16. ASSUME NEW t \in Threads, NEW c \in Channels, Peek(t, c)
     PROVE  PInv'
  BY <1>0, <1>16, PeekStep
<1>32. ASSUME NEW t \in Threads, PeekReturn(t)
     PROVE  PInv'
  BY <1>0, <1>32, LockGiven
<1>17. ASSUME NEW t \in Threads, NEW cs \in CaseLists, NEW tm \in BOOLEAN, Pick(t, cs, tm)
     PROVE  PInv'
  <2>1. \A d \in Channels : Ready(d)' => Ready(d)
    BY <1>0, <1>17 DEF Pick, Ready, chan
  <2>2. /\ UNCHANGED <<lock, listeners, todo>>
        /\ \A u \in Threads \ {t} : /\ pc'[u] = pc[u] /\ arg'[u] = arg[u]
                                    /\ cases'[u] = cases[u] /\ idx'[u] = idx[u]
                                    /\ signaled'[u] = signaled[u]
        /\ pc[t] \notin {"notify", "peek"} /\ pc'[t] \notin {"notify", "peek"}
        /\ pc'[t] = "wait" => ~signaled'[t]
        /\ pc'[t] \in {"check", "wait"} => idx'[t] = 1
    BY <1>0, <1>17 DEF Pick, ThreadType, SyncType, sync, pick
  <2>3. \A d \in Channels : Due(t, d) \subseteq Due(t, d)'
    BY <1>0, <1>17 DEF Pick, Due, ThreadType, SyncType, sync, pick
  <2>4. \A i \in 1..Len(cases'[t]) : Watches(t, i)' =>
            /\ i \in 1..Len(cases[t]) /\ cases'[t][i] = cases[t][i] /\ Watches(t, i)
            /\ signaled'[t] = signaled[t]
    BY <1>0, <1>17 DEF Pick, Watches, ThreadType, SyncType, sync, pick
  <2>5. QED
    BY <1>0, <2>1, <2>2, <2>3, <2>4, PhaseStep
<1>18. ASSUME NEW t \in Threads, ScanTake(t)
     PROVE  PInv'
  <2>1. \A d \in Channels : Ready(d)' => Ready(d)
    BY <1>0, <1>18, TakeCaseReady DEF ScanTake
  <2>2. /\ UNCHANGED <<lock, listeners, todo>>
        /\ \A u \in Threads \ {t} : /\ pc'[u] = pc[u] /\ arg'[u] = arg[u]
                                    /\ cases'[u] = cases[u] /\ idx'[u] = idx[u]
                                    /\ signaled'[u] = signaled[u]
        /\ pc[t] \notin {"notify", "peek"} /\ pc'[t] \notin {"notify", "peek"}
        /\ pc'[t] = "wait" => ~signaled'[t]
        /\ pc'[t] \in {"check", "wait"} => idx'[t] = 1
    BY <1>0, <1>18 DEF ScanTake, Goto, ThreadType, SyncType, sync, pick
  <2>3. \A d \in Channels : Due(t, d) \subseteq Due(t, d)'
    BY <1>0, <1>18 DEF ScanTake, Goto, Due, ThreadType, SyncType, sync, pick
  <2>4. \A i \in 1..Len(cases'[t]) : Watches(t, i)' =>
            /\ i \in 1..Len(cases[t]) /\ cases'[t][i] = cases[t][i] /\ Watches(t, i)
            /\ signaled'[t] = signaled[t]
    BY <1>0, <1>18 DEF ScanTake, Goto, Watches, ThreadType, SyncType, sync, pick
  <2>5. QED
    BY <1>0, <2>1, <2>2, <2>3, <2>4, PhaseStep
<1>19. ASSUME NEW t \in Threads, ScanRegister(t)
     PROVE  PInv'
  BY <1>0, <1>19, RegisterStep
<1>20. ASSUME NEW t \in Threads, ScanNoMemory(t)
     PROVE  PInv'
  <2>1. \A d \in Channels : Ready(d)' => Ready(d)
    BY <1>0, <1>20 DEF ScanNoMemory, Ready, chan
  <2>2. /\ UNCHANGED <<lock, listeners, todo>>
        /\ \A u \in Threads \ {t} : /\ pc'[u] = pc[u] /\ arg'[u] = arg[u]
                                    /\ cases'[u] = cases[u] /\ idx'[u] = idx[u]
                                    /\ signaled'[u] = signaled[u]
        /\ pc[t] \notin {"notify", "peek"} /\ pc'[t] \notin {"notify", "peek"}
        /\ pc'[t] = "wait" => ~signaled'[t]
        /\ pc'[t] \in {"check", "wait"} => idx'[t] = 1
    BY <1>0, <1>20 DEF ScanNoMemory, Goto, ThreadType, SyncType, sync, pick
  <2>3. \A d \in Channels : Due(t, d) \subseteq Due(t, d)'
    BY <1>0, <1>20 DEF ScanNoMemory, Goto, Due, ThreadType, SyncType, sync, pick
  <2>4. \A i \in 1..Len(cases'[t]) : Watches(t, i)' =>
            /\ i \in 1..Len(cases[t]) /\ cases'[t][i] = cases[t][i] /\ Watches(t, i)
            /\ signaled'[t] = signaled[t]
    BY <1>0, <1>20 DEF ScanNoMemory, Goto, Watches, ThreadType, SyncType, sync, pick
  <2>5. QED
    BY <1>0, <2>1, <2>2, <2>3, <2>4, PhaseStep
<1>21. ASSUME NEW t \in Threads, ScanEnd(t)
     PROVE  PInv'
  <2>1. \A d \in Channels : Ready(d)' => Ready(d)
    BY <1>0, <1>21 DEF ScanEnd, Ready, chan
  <2>2. /\ UNCHANGED <<lock, listeners, todo>>
        /\ \A u \in Threads \ {t} : /\ pc'[u] = pc[u] /\ arg'[u] = arg[u]
                                    /\ cases'[u] = cases[u] /\ idx'[u] = idx[u]
                                    /\ signaled'[u] = signaled[u]
        /\ pc[t] \notin {"notify", "peek"} /\ pc'[t] \notin {"notify", "peek"}
        /\ pc'[t] = "wait" => ~signaled'[t]
        /\ pc'[t] \in {"check", "wait"} => idx'[t] = 1
    BY <1>0, <1>21 DEF ScanEnd, Goto, MoreCases, ThreadType, SyncType, sync, pick
  <2>3. \A d \in Channels : Due(t, d) \subseteq Due(t, d)'
    BY <1>0, <1>21 DEF ScanEnd, Goto, MoreCases, Due, ThreadType, SyncType, sync, pick
  <2>4. \A i \in 1..Len(cases'[t]) : Watches(t, i)' =>
            /\ i \in 1..Len(cases[t]) /\ cases'[t][i] = cases[t][i] /\ Watches(t, i)
            /\ signaled'[t] = signaled[t]
    BY <1>0, <1>21 DEF ScanEnd, Goto, MoreCases, Watches, ThreadType, SyncType, sync, pick
  <2>5. QED
    BY <1>0, <2>1, <2>2, <2>3, <2>4, PhaseStep
<1>22. ASSUME NEW t \in Threads, CheckSignaled(t)
     PROVE  PInv'
  <2>1. \A d \in Channels : Ready(d)' => Ready(d)
    BY <1>0, <1>22 DEF CheckSignaled, Ready, chan
  <2>2. /\ UNCHANGED <<lock, listeners, todo>>
        /\ \A u \in Threads \ {t} : /\ pc'[u] = pc[u] /\ arg'[u] = arg[u]
                                    /\ cases'[u] = cases[u] /\ idx'[u] = idx[u]
                                    /\ signaled'[u] = signaled[u]
        /\ pc[t] \notin {"notify", "peek"} /\ pc'[t] \notin {"notify", "peek"}
        /\ pc'[t] = "wait" => ~signaled'[t]
        /\ pc'[t] \in {"check", "wait"} => idx'[t] = 1
    BY <1>0, <1>22 DEF CheckSignaled, ThreadType, SyncType, sync, pick, PInv, Rewound
  <2>3. \A d \in Channels : Due(t, d) \subseteq Due(t, d)'
    BY <1>0, <1>22 DEF CheckSignaled, Due, ThreadType, SyncType, sync, pick, PInv, Rewound
  <2>4. \A i \in 1..Len(cases'[t]) : Watches(t, i)' =>
            /\ i \in 1..Len(cases[t]) /\ cases'[t][i] = cases[t][i] /\ Watches(t, i)
            /\ signaled'[t] = signaled[t]
    BY <1>0, <1>22 DEF CheckSignaled, Watches, ThreadType, SyncType, sync, pick
  <2>5. QED
    BY <1>0, <2>1, <2>2, <2>3, <2>4, PhaseStep
<1>23. ASSUME NEW t \in Threads, PickSpurious(t)
     PROVE  PInv'
  <2>1. \A d \in Channels : Ready(d)' => Ready(d)
    BY <1>0, <1>23 DEF PickSpurious, Ready, chan
  <2>2. /\ UNCHANGED <<lock, listeners, todo>>
        /\ \A u \in Threads \ {t} : /\ pc'[u] = pc[u] /\ arg'[u] = arg[u]
                                    /\ cases'[u] = cases[u] /\ idx'[u] = idx[u]
                                    /\ signaled'[u] = signaled[u]
        /\ pc[t] \notin {"notify", "peek"} /\ pc'[t] \notin {"notify", "peek"}
        /\ pc'[t] = "wait" => ~signaled'[t]
        /\ pc'[t] \in {"check", "wait"} => idx'[t] = 1
    BY <1>0, <1>23 DEF PickSpurious, ThreadType, SyncType, sync, pick, PInv, Rewound
  <2>3. \A d \in Channels : Due(t, d) \subseteq Due(t, d)'
    BY <1>0, <1>23 DEF PickSpurious, Due, ThreadType, SyncType, sync, pick, PInv, Rewound
  <2>4. \A i \in 1..Len(cases'[t]) : Watches(t, i)' =>
            /\ i \in 1..Len(cases[t]) /\ cases'[t][i] = cases[t][i] /\ Watches(t, i)
            /\ signaled'[t] = signaled[t]
    BY <1>0, <1>23 DEF PickSpurious, Watches, ThreadType, SyncType, sync, pick
  <2>5. QED
    BY <1>0, <2>1, <2>2, <2>3, <2>4, PhaseStep
<1>24. ASSUME NEW t \in Threads, PickTimeout(t)
     PROVE  PInv'
  <2>1. \A d \in Channels : Ready(d)' => Ready(d)
    BY <1>0, <1>24 DEF PickTimeout, Ready, chan
  <2>2. /\ UNCHANGED <<lock, listeners, todo>>
        /\ \A u \in Threads \ {t} : /\ pc'[u] = pc[u] /\ arg'[u] = arg[u]
                                    /\ cases'[u] = cases[u] /\ idx'[u] = idx[u]
                                    /\ signaled'[u] = signaled[u]
        /\ pc[t] \notin {"notify", "peek"} /\ pc'[t] \notin {"notify", "peek"}
        /\ pc'[t] = "wait" => ~signaled'[t]
        /\ pc'[t] \in {"check", "wait"} => idx'[t] = 1
    BY <1>0, <1>24 DEF PickTimeout, ThreadType, SyncType, sync, pick, PInv, Rewound
  <2>3. \A d \in Channels : Due(t, d) \subseteq Due(t, d)'
    BY <1>0, <1>24 DEF PickTimeout, Due, ThreadType, SyncType, sync, pick, PInv, Rewound
  <2>4. \A i \in 1..Len(cases'[t]) : Watches(t, i)' =>
            /\ i \in 1..Len(cases[t]) /\ cases'[t][i] = cases[t][i] /\ Watches(t, i)
            /\ signaled'[t] = signaled[t]
    BY <1>0, <1>24 DEF PickTimeout, Watches, ThreadType, SyncType, sync, pick
  <2>5. QED
    BY <1>0, <2>1, <2>2, <2>3, <2>4, PhaseStep
<1>25. ASSUME NEW t \in Threads, Unregister(t)
     PROVE  PInv'
  BY <1>0, <1>25, UnregisterStep
<1>26. ASSUME NEW t \in Threads, UnregisterEnd(t)
     PROVE  PInv'
  <2>1. \A d \in Channels : Ready(d)' => Ready(d)
    BY <1>0, <1>26 DEF UnregisterEnd, Ready, chan
  <2>2. /\ UNCHANGED <<lock, listeners, todo>>
        /\ \A u \in Threads \ {t} : /\ pc'[u] = pc[u] /\ arg'[u] = arg[u]
                                    /\ cases'[u] = cases[u] /\ idx'[u] = idx[u]
                                    /\ signaled'[u] = signaled[u]
        /\ pc[t] \notin {"notify", "peek"} /\ pc'[t] \notin {"notify", "peek"}
        /\ pc'[t] = "wait" => ~signaled'[t]
        /\ pc'[t] \in {"check", "wait"} => idx'[t] = 1
    BY <1>0, <1>26 DEF UnregisterEnd, PickReturn, Goto, MoreCases, ThreadType, SyncType, sync, pick
  <2>3. \A d \in Channels : Due(t, d) \subseteq Due(t, d)'
    BY <1>0, <1>26 DEF UnregisterEnd, PickReturn, Goto, MoreCases, Due, ThreadType, SyncType, sync, pick
  <2>4. \A i \in 1..Len(cases'[t]) : Watches(t, i)' =>
            /\ i \in 1..Len(cases[t]) /\ cases'[t][i] = cases[t][i] /\ Watches(t, i)
            /\ signaled'[t] = signaled[t]
    BY <1>0, <1>26 DEF UnregisterEnd, PickReturn, Goto, MoreCases, Watches, ThreadType, SyncType, sync, pick
  <2>5. QED
    BY <1>0, <2>1, <2>2, <2>3, <2>4, PhaseStep
<1>27. ASSUME NEW t \in Threads, RescanTake(t)
     PROVE  PInv'
  <2>1. \A d \in Channels : Ready(d)' => Ready(d)
    BY <1>0, <1>27, TakeCaseReady DEF RescanTake
  <2>2. /\ UNCHANGED <<lock, listeners, todo, signaled>>
        /\ \A u \in Threads \ {t} : /\ pc'[u] = pc[u] /\ arg'[u] = arg[u]
                                 /\ cases'[u] = cases[u] /\ idx'[u] = idx[u]
        /\ pc[t] \in Elsewhere /\ pc'[t] \in Elsewhere
    BY <1>0, <1>27 DEF RescanTake, PickReturn, Goto, Elsewhere, PCs, PickPhases, ThreadType, sync, pick
  <2>3. QED
    BY <1>0, <2>1, <2>2, CallStep
<1>28. ASSUME NEW t \in Threads, RescanSkip(t)
     PROVE  PInv'
  <2>1. \A d \in Channels : Ready(d)' => Ready(d)
    BY <1>0, <1>28 DEF RescanSkip, Ready, chan
  <2>2. /\ UNCHANGED <<lock, listeners, todo, signaled>>
        /\ \A u \in Threads \ {t} : /\ pc'[u] = pc[u] /\ arg'[u] = arg[u]
                                 /\ cases'[u] = cases[u] /\ idx'[u] = idx[u]
        /\ pc[t] \in Elsewhere /\ pc'[t] \in Elsewhere
    BY <1>0, <1>28 DEF RescanSkip, Goto, Elsewhere, PCs, PickPhases, ThreadType, sync, pick
  <2>3. QED
    BY <1>0, <2>1, <2>2, CallStep
<1>29. ASSUME NEW t \in Threads, RescanEnd(t)
     PROVE  PInv'
  <2>1. \A d \in Channels : Ready(d)' => Ready(d)
    BY <1>0, <1>29 DEF RescanEnd, Ready, chan
  <2>2. /\ UNCHANGED <<lock, listeners, todo, signaled>>
        /\ \A u \in Threads \ {t} : /\ pc'[u] = pc[u] /\ arg'[u] = arg[u]
                                 /\ cases'[u] = cases[u] /\ idx'[u] = idx[u]
        /\ pc[t] \in Elsewhere /\ pc'[t] \in Elsewhere
    BY <1>0, <1>29 DEF RescanEnd, PickReturn, Goto, Elsewhere, PCs, PickPhases, ThreadType, sync, pick
  <2>3. QED
    BY <1>0, <2>1, <2>2, CallStep
<1>30. ASSUME NEW c \in Channels, Collect(c)
     PROVE  PInv'
  BY <1>0, <1>30, CollectStep
<1>31. CASE UNCHANGED vars
  BY <1>31 DEF vars, chan, sync, pick, PInv, MutexHeld, Registrations, Due, Addressees, Watched, Watches,
     Ready, Unsignaled, Rewound
<1>. QED
  BY <1>1, <1>2, <1>3, <1>4, <1>5, <1>6, <1>7, <1>8, <1>9, <1>10, <1>11, <1>12, <1>13, <1>14, <1>15, <1>16, <1>17, <1>18, <1>19, <1>20, <1>21, <1>22, <1>23, <1>24, <1>25, <1>26, <1>27, <1>28, <1>29, <1>30, <1>31, <1>32 DEF Next, Call, Inside, Outside

LEMMA PickInvariant == Spec => [](TInv /\ PInv)
<1>1. Init => TInv /\ PInv
  BY InitTInv, InitPInv
<1>2. (TInv /\ PInv) /\ [Next]_vars => (TInv /\ PInv)'
  BY StepTInv, StepPInv
<1>3. QED
  BY <1>1, <1>2, PTL DEF Spec

\* A selector, which lives on the C stack of its pick, is listed by no channel
\* and awaited by no sender once the pick has destroyed it: unregister_all has
\* undone each of its registrations, however the pick ended and whatever
\* channels it listed twice.
THEOREM NoDangling == Spec => []NoDanglingSelector
<1>1. TInv /\ PInv => NoDanglingSelector
  <2> SUFFICES ASSUME TInv, PInv, NEW t \in Threads, pc[t] \notin PickPhases
               PROVE  /\ \A c \in Channels : listeners[c][t] = 0
                      /\ \A u \in Threads : t \notin todo[u]
    BY DEF NoDanglingSelector
  <2>1. TypeOK /\ ArgOK
    BY DEF TInv
  <2>2. ASSUME NEW c \in Channels PROVE listeners[c][t] = 0
    <3>1. Due(t, c) = {}
      BY DEF Due, PickPhases
    <3>2. listeners[c][t] <= Cardinality(Due(t, c)) /\ listeners[c][t] \in Nat
      BY <2>1 DEF PInv, Registrations, TypeOK, SyncType
    <3>3. Cardinality(Due(t, c)) = 0
      BY <3>1, FS_EmptySet
    <3>4. QED
      BY <3>2, <3>3
  <2>3. ASSUME NEW u \in Threads, t \in todo[u] PROVE FALSE
    <3>1. arg[u] \in Channels /\ listeners[arg[u]][t] > 0
      BY <2>1, <2>3 DEF PInv, Addressees, ArgOK
    <3>2. QED
      BY <2>2, <3>1
  <2>4. QED
    BY <2>2, <2>3
<1>2. QED
  BY <1>1, PickInvariant, PTL

\* A pick asleep misses nothing: when one of its channels has an element or is
\* closed, the sender that made it so still holds the mutex and has the
\* sleeper among those it is about to notify.
THEOREM NothingMissed == Spec => []NoMissedPick
<1>1. PInv => NoMissedPick
  BY DEF PInv, Watched, Watches, Unsignaled, NoMissedPick
<1>2. QED
  BY <1>1, PickInvariant, PTL

===============================================================================
