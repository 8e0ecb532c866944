------------------------------ MODULE Channel ------------------------------
(***************************************************************************)
(* The channels of the `thread' library (stdlib/lthreadlib.c): an          *)
(* unbounded FIFO of registry references shared by operating-system        *)
(* threads, with blocking and non-blocking operations and the multi-way    *)
(* receive `thread.pick'.                                                  *)
(*                                                                         *)
(* Granularity.  A critical section of a channel's mutex that takes no     *)
(* other lock is one action, enabled while the mutex is free.  send,       *)
(* try_send and close keep the mutex while they notify the listeners, one  *)
(* selector lock at a time (the pc value "notify"), and peek while it asks *)
(* for the state lock ("peek"); only then is lock[c] seen taken.  What a   *)
(* thread does with its own selector between the wake-up and the next lock *)
(* is one action too.                                                      *)
(*                                                                         *)
(* A ChannelElem is identified with the value it carries: Elems bounds how *)
(* many sends may succeed.  listeners[c] is the linked list of Listener    *)
(* records as a multiset, because the order of notification is irrelevant. *)
(***************************************************************************)
EXTENDS Naturals, Sequences, FiniteSets

CONSTANTS
  Threads,     \* operating-system threads running Lua
  Channels,
  Elems,       \* ChannelElem records, one per value sent (bound on sends)
  CaseLists,   \* the lists of receive cases a thread may pass to pick
  Accepts,     \* pairs <<c, e>> that check_type_match lets through
  NULL         \* the null pointer, and "no owner" of a mutex

(***************************************************************************)
(* What a call returned, besides a received value: "ok" (send), "error"    *)
(* (a raised Lua error), "false" (try_send refused), "nil", "timeout" (the *)
(* timeout handler of pick ran), "nothing" (pick returned no result).      *)
(* "none" and "pending" are values of a call that has not returned.        *)
(***************************************************************************)
Codes == {"none", "pending", "ok", "error", "false", "nil", "timeout", "nothing"}

ASSUME ChannelAssumption ==
  /\ NULL \notin Elems
  /\ NULL \notin Threads
  /\ Elems \cap Codes = {}
  /\ CaseLists \subseteq Seq(Channels)
  /\ Accepts \subseteq Channels \X Elems

ASSUME FiniteAssumption == IsFiniteSet(Threads) /\ IsFiniteSet(Elems)

VARIABLES
  head, tail,  \* Channel.head and Channel.tail
  next,        \* ChannelElem.next
  closed,      \* Channel.closed
  lock,        \* owner of Channel.lock while it is held across other locks
  condq,       \* threads asleep on Channel.cond
  listeners,   \* listeners[c][t]: Listener records of t's selector in c's list
  refs,        \* elements whose registry reference has not been released
  pc,          \* what each thread is doing
  arg,         \* the channel of the operation under way
  elem,        \* the element being sent
  todo,        \* notify: selectors not yet notified
  signaled,    \* Selector.signaled of the pick under way
  cases,       \* pick: its list of receive cases
  timed,       \* pick: has_timeout
  idx,         \* pick: loop index over the cases
  ret,         \* result of the last call, or of the call under way
  sent, got    \* history: elements enqueued to and dequeued from each channel

chan == <<head, tail, next, closed, refs, sent, got>>
sync == <<lock, condq, listeners, signaled>>
pick == <<cases, timed, idx>>
vars == <<chan, sync, pick, pc, arg, elem, todo, ret>>

PickPhases == {"scan", "check", "wait", "unreg"}   \* the selector is alive
PCs == PickPhases \cup {"idle", "send", "notify", "peek", "recv", "recv_wait", "rescan"}

ChanType ==
  /\ head \in [Channels -> Elems \cup {NULL}]
  /\ tail \in [Channels -> Elems \cup {NULL}]
  /\ next \in [Elems -> Elems \cup {NULL}]
  /\ closed \in [Channels -> BOOLEAN]
  /\ refs \subseteq Elems
  /\ sent \in [Channels -> Seq(Elems)]
  /\ got \in [Channels -> Seq(Elems)]

SyncType ==
  /\ lock \in [Channels -> Threads \cup {NULL}]
  /\ condq \in [Channels -> SUBSET Threads]
  /\ listeners \in [Channels -> [Threads -> Nat]]
  /\ signaled \in [Threads -> BOOLEAN]

ThreadType ==
  /\ pc \in [Threads -> PCs]
  /\ arg \in [Threads -> Channels \cup {NULL}]
  /\ elem \in [Threads -> Elems \cup {NULL}]
  /\ todo \in [Threads -> SUBSET Threads]
  /\ cases \in [Threads -> CaseLists \cup {<<>>}]
  /\ timed \in [Threads -> BOOLEAN]
  /\ idx \in [Threads -> Nat \ {0}]
  /\ ret \in [Threads -> Elems \cup Codes]

TypeOK == ChanType /\ SyncType /\ ThreadType

(* channel_create_impl leaves every channel empty, open, with no listener. *)
Init ==
  /\ head = [c \in Channels |-> NULL]
  /\ tail = [c \in Channels |-> NULL]
  /\ next = [e \in Elems |-> NULL]
  /\ closed = [c \in Channels |-> FALSE]
  /\ lock = [c \in Channels |-> NULL]
  /\ condq = [c \in Channels |-> {}]
  /\ listeners = [c \in Channels |-> [t \in Threads |-> 0]]
  /\ refs = {}
  /\ pc = [t \in Threads |-> "idle"]
  /\ arg = [t \in Threads |-> NULL]
  /\ elem = [t \in Threads |-> NULL]
  /\ todo = [t \in Threads |-> {}]
  /\ signaled = [t \in Threads |-> FALSE]
  /\ cases = [t \in Threads |-> <<>>]
  /\ timed = [t \in Threads |-> FALSE]
  /\ idx = [t \in Threads |-> 1]
  /\ ret = [t \in Threads |-> "none"]
  /\ sent = [c \in Channels |-> <<>>]
  /\ got = [c \in Channels |-> <<>>]

-----------------------------------------------------------------------------
(* The linked list.                                                        *)

\* Links e, with its next pointer cleared, behind the last element.
Enqueue(c, e) ==
  /\ IF tail[c] # NULL
     THEN /\ next' = [next EXCEPT ![e] = NULL, ![tail[c]] = e]
          /\ UNCHANGED head
     ELSE /\ head' = [head EXCEPT ![c] = e]
          /\ next' = [next EXCEPT ![e] = NULL]
  /\ tail' = [tail EXCEPT ![c] = e]
  /\ sent' = [sent EXCEPT ![c] = Append(@, e)]

\* Plausible mistake: the tail still points at the element that was freed.
DequeueKeepsTail(c) ==
  /\ head' = [head EXCEPT ![c] = next[head[c]]]
  /\ refs' = refs \ {head[c]}
  /\ got' = [got EXCEPT ![c] = Append(@, head[c])]
  /\ UNCHANGED <<tail, next, closed, sent>>

\* Unlinks the first element; after the unlock its registry reference is
\* read and released, which no other thread can tell from this step.
Dequeue(c) ==
  /\ head' = [head EXCEPT ![c] = next[head[c]]]
  /\ tail' = [tail EXCEPT ![c] = IF next[head[c]] = NULL THEN NULL ELSE @]
  /\ refs' = refs \ {head[c]}
  /\ got' = [got EXCEPT ![c] = Append(@, head[c])]
  /\ UNCHANGED <<next, closed, sent>>

Ready(c) == head[c] # NULL \/ closed[c]

Free(c) == lock[c] = NULL

Return(t, r) ==
  /\ ret' = [ret EXCEPT ![t] = r]
  /\ arg' = [arg EXCEPT ![t] = NULL]
  /\ elem' = [elem EXCEPT ![t] = NULL]

Enter(t, c, e) ==
  /\ ret' = [ret EXCEPT ![t] = "none"]
  /\ arg' = [arg EXCEPT ![t] = c]
  /\ elem' = [elem EXCEPT ![t] = e]

\* Plausible mistake: the signal after the append is missing.
NeverSignalled(c) == {{}}

\* The sleepers a pthread_cond_signal wakes: one of them, if there is any.
Signalled(c) == IF condq[c] = {} THEN {{}} ELSE {{w} : w \in condq[c]}

\* The threads in W leave the condition variable's queue and contend for
\* the mutex; t starts to walk the list of listeners, still holding it.
WakeAndNotify(t, c, W) ==
  /\ condq' = [condq EXCEPT ![c] = @ \ W]
  /\ pc' = [u \in Threads |-> IF u = t THEN "notify"
                              ELSE IF u \in W THEN "recv" ELSE pc[u]]
  /\ lock' = [lock EXCEPT ![c] = t]
  /\ todo' = [todo EXCEPT ![t] = {p \in Threads : listeners[c][p] > 0}]
  /\ UNCHANGED <<listeners, signaled>>

-----------------------------------------------------------------------------
(* Sending.                                                                *)

\* malloc gives memory that is neither linked nor carried by a sender; a value
\* is sent once to a channel, which keeps apart what the histories record.
Fresh(e) ==
  /\ \A t \in Threads : elem[t] # e
  /\ \A c \in Channels : \A i \in 1..Len(sent[c]) : sent[c][i] # e

\* channel_send up to l_mutex_lock: the type check, luaL_ref and malloc.
Send(t, c, e) ==
  /\ pc[t] = "idle"
  /\ <<c, e>> \in Accepts
  /\ Fresh(e)
  /\ refs' = refs \cup {e}
  /\ pc' = [pc EXCEPT ![t] = "send"]
  /\ Enter(t, c, e)
  /\ UNCHANGED <<head, tail, next, closed, sent, got, sync, pick, todo>>

\* channel_send and channel_try_send before the mutex: malloc fails and the
\* reference just made is given back, or a value of the wrong type is refused
\* before anything is allocated.
SendFails(t, c, e) ==
  /\ pc[t] = "idle"
  /\ Return(t, "error") \/ (<<c, e>> \notin Accepts /\ Return(t, "false"))
  /\ UNCHANGED <<chan, sync, pick, pc, todo>>

\* Plausible mistake: closed is not tested once the mutex is held.
SendUnchecked(t) ==
  LET c == arg[t] IN
  /\ pc[t] = "send"
  /\ Free(c)
  /\ Enqueue(c, elem[t])
  /\ \E W \in Signalled(c) : WakeAndNotify(t, c, W)
  /\ UNCHANGED <<closed, refs, got, pick, arg, elem, ret>>

\* channel_send with the mutex: the element is linked, one receiver is
\* woken, and the listeners are notified before the mutex is released.
SendOpen(t) ==
  LET c == arg[t] IN
  /\ pc[t] = "send"
  /\ Free(c)
  /\ ~closed[c]
  /\ Enqueue(c, elem[t])
  /\ \E W \in Signalled(c) : WakeAndNotify(t, c, W)
  /\ UNCHANGED <<closed, refs, got, pick, arg, elem, ret>>

\* Plausible mistake: the error path frees the element and keeps its reference.
SendClosedLeaks(t) ==
  /\ pc[t] = "send"
  /\ Free(arg[t])
  /\ closed[arg[t]]
  /\ pc' = [pc EXCEPT ![t] = "idle"]
  /\ Return(t, "error")
  /\ UNCHANGED <<chan, sync, pick, todo>>

\* channel_send on a closed channel frees the element and its reference.
SendClosed(t) ==
  /\ pc[t] = "send"
  /\ Free(arg[t])
  /\ closed[arg[t]]
  /\ refs' = refs \ {elem[t]}
  /\ pc' = [pc EXCEPT ![t] = "idle"]
  /\ Return(t, "error")
  /\ UNCHANGED <<head, tail, next, closed, sent, got, sync, pick, todo>>

\* channel_try_send, when trylock succeeds and the channel is open.
TrySend(t, c, e) ==
  /\ pc[t] = "idle"
  /\ <<c, e>> \in Accepts
  /\ Fresh(e)
  /\ Free(c)
  /\ ~closed[c]
  /\ refs' = refs \cup {e}
  /\ Enqueue(c, e)
  /\ \E W \in Signalled(c) : WakeAndNotify(t, c, W)
  /\ Enter(t, c, NULL)
  /\ UNCHANGED <<closed, got, pick>>

\* channel_try_send, when the channel is closed or the mutex is taken, if only by
\* a thread inside a critical section that is one step here: what was allocated
\* is released again.
TrySendRefused(t, c, e) ==
  /\ pc[t] = "idle"
  /\ <<c, e>> \in Accepts
  /\ Fresh(e)
  /\ Return(t, "false")
  /\ UNCHANGED <<chan, sync, pick, pc, todo>>

\* Plausible mistake: close notifies the selectors and wakes no sleeper.
CloseSilently(t, c) ==
  /\ pc[t] = "idle"
  /\ Free(c)
  /\ closed' = [closed EXCEPT ![c] = TRUE]
  /\ WakeAndNotify(t, c, {})
  /\ Enter(t, c, NULL)
  /\ UNCHANGED <<head, tail, next, refs, sent, got, pick>>

\* channel_close: every sleeper is woken and every listener notified.
Close(t, c) ==
  /\ pc[t] = "idle"
  /\ Free(c)
  /\ closed' = [closed EXCEPT ![c] = TRUE]
  /\ WakeAndNotify(t, c, condq[c])
  /\ Enter(t, c, NULL)
  /\ UNCHANGED <<head, tail, next, refs, sent, got, pick>>

\* Plausible mistake: the flag is set and the selector's cond not signalled.
NotifySilently(t) ==
  /\ pc[t] = "notify"
  /\ \E p \in todo[t] :
       /\ signaled' = [signaled EXCEPT ![p] = TRUE]
       /\ todo' = [todo EXCEPT ![t] = @ \ {p}]
  /\ UNCHANGED <<chan, lock, condq, listeners, pick, pc, arg, elem, ret>>

\* One turn of the loop over the listeners, under the selector's lock.
Notify(t) ==
  /\ pc[t] = "notify"
  /\ \E p \in todo[t] :
       /\ signaled' = [signaled EXCEPT ![p] = TRUE]
       /\ pc' = [pc EXCEPT ![p] = IF @ = "wait" THEN "check" ELSE @]
       /\ todo' = [todo EXCEPT ![t] = @ \ {p}]
  /\ UNCHANGED <<chan, lock, condq, listeners, pick, arg, elem, ret>>

\* Plausible mistake: the mutex is not released on return.
UnlockForgotten(t) ==
  /\ pc[t] = "notify"
  /\ todo[t] = {}
  /\ pc' = [pc EXCEPT ![t] = "idle"]
  /\ Return(t, "ok")
  /\ UNCHANGED <<chan, sync, pick, todo>>

\* The end of the loop: the mutex is released and the call returns.
Unlock(t) ==
  /\ pc[t] = "notify"
  /\ todo[t] = {}
  /\ lock' = [lock EXCEPT ![arg[t]] = NULL]
  /\ pc' = [pc EXCEPT ![t] = "idle"]
  /\ Return(t, "ok")
  /\ UNCHANGED <<chan, condq, listeners, signaled, pick, todo>>

-----------------------------------------------------------------------------
(* Receiving.                                                              *)

Receive(t, c) ==
  /\ pc[t] = "idle"
  /\ pc' = [pc EXCEPT ![t] = "recv"]
  /\ Enter(t, c, NULL)
  /\ UNCHANGED <<chan, sync, pick, todo>>

\* channel_receive with the mutex and an element: also after a wake-up.
ReceiveElem(t) ==
  LET c == arg[t] IN
  /\ pc[t] = "recv"
  /\ Free(c)
  /\ head[c] # NULL
  /\ Dequeue(c)
  /\ pc' = [pc EXCEPT ![t] = "idle"]
  /\ Return(t, head[c])
  /\ UNCHANGED <<sync, pick, todo>>

\* channel_receive finds the channel closed and drained.
ReceiveClosed(t) ==
  /\ pc[t] = "recv"
  /\ Free(arg[t])
  /\ head[arg[t]] = NULL
  /\ closed[arg[t]]
  /\ pc' = [pc EXCEPT ![t] = "idle"]
  /\ Return(t, "nil")
  /\ UNCHANGED <<chan, sync, pick, todo>>

\* channel_receive: l_cond_wait releases the mutex and sleeps, in one step.
ReceiveWait(t) ==
  LET c == arg[t] IN
  /\ pc[t] = "recv"
  /\ Free(c)
  /\ ~Ready(c)
  /\ condq' = [condq EXCEPT ![c] = @ \cup {t}]
  /\ pc' = [pc EXCEPT ![t] = "recv_wait"]
  /\ UNCHANGED <<chan, lock, listeners, signaled, pick, arg, elem, todo, ret>>

\* pthread_cond_wait may return without a signal; the caller loops.
SpuriousWakeup(t) ==
  /\ pc[t] = "recv_wait"
  /\ condq' = [condq EXCEPT ![arg[t]] = @ \ {t}]
  /\ pc' = [pc EXCEPT ![t] = "recv"]
  /\ UNCHANGED <<chan, lock, listeners, signaled, pick, arg, elem, todo, ret>>

TryReceive(t, c) ==
  /\ pc[t] = "idle"
  /\ Free(c)
  /\ IF head[c] # NULL
     THEN Dequeue(c) /\ Return(t, head[c])
     ELSE UNCHANGED chan /\ Return(t, "nil")
  /\ UNCHANGED <<sync, pick, pc, todo>>

\* channel_peek takes the mutex.
Peek(t, c) ==
  /\ pc[t] = "idle"
  /\ Free(c)
  /\ lock' = [lock EXCEPT ![c] = t]
  /\ pc' = [pc EXCEPT ![t] = "peek"]
  /\ Enter(t, c, NULL)
  /\ UNCHANGED <<chan, condq, listeners, signaled, pick, todo>>

\* It keeps the mutex while it reads the first element, which it leaves linked,
\* from the registry, and may have to wait for the state lock to do so.
PeekReturn(t) ==
  LET c == arg[t] IN
  /\ pc[t] = "peek"
  /\ lock' = [lock EXCEPT ![c] = NULL]
  /\ pc' = [pc EXCEPT ![t] = "idle"]
  /\ Return(t, IF head[c] # NULL THEN head[c] ELSE "nil")
  /\ UNCHANGED <<chan, condq, listeners, signaled, pick, todo>>

-----------------------------------------------------------------------------
(* thread.pick.                                                            *)

\* pick with the receive cases cs and, when tm, a timeout case.  The checks
\* of the case descriptions raise errors before anything is registered.
Pick(t, cs, tm) ==
  /\ pc[t] = "idle"
  /\ pc' = [pc EXCEPT ![t] = "scan"]
  /\ cases' = [cases EXCEPT ![t] = cs]
  /\ timed' = [timed EXCEPT ![t] = tm]
  /\ idx' = [idx EXCEPT ![t] = 1]
  /\ signaled' = [signaled EXCEPT ![t] = FALSE]
  /\ ret' = [ret EXCEPT ![t] = "pending"]
  /\ UNCHANGED <<chan, lock, condq, listeners, arg, elem, todo>>

Case(t) == cases[t][idx[t]]
MoreCases(t) == idx[t] <= Len(cases[t])

\* Takes what a ready case offers: an element, or nil when it is drained.
TakeCase(t) ==
  LET c == Case(t) IN
  IF head[c] # NULL
  THEN Dequeue(c) /\ ret' = [ret EXCEPT ![t] = head[c]]
  ELSE UNCHANGED chan /\ ret' = [ret EXCEPT ![t] = "nil"]

Goto(t, label, i) ==
  /\ pc' = [pc EXCEPT ![t] = label]
  /\ idx' = [idx EXCEPT ![t] = i]

PickReturn(t) ==
  /\ Goto(t, "idle", 1)
  /\ cases' = [cases EXCEPT ![t] = <<>>]
  /\ timed' = [timed EXCEPT ![t] = FALSE]

\* Plausible mistake: the early return does not unregister the selector.
ScanTakeReturns(t) ==
  /\ pc[t] = "scan"
  /\ MoreCases(t)
  /\ Free(Case(t))
  /\ Ready(Case(t))
  /\ TakeCase(t)
  /\ PickReturn(t)
  /\ UNCHANGED <<sync, arg, elem, todo>>

\* First scan, a ready case: its offer is taken, then all is unregistered.
ScanTake(t) ==
  /\ pc[t] = "scan"
  /\ MoreCases(t)
  /\ Free(Case(t))
  /\ Ready(Case(t))
  /\ TakeCase(t)
  /\ Goto(t, "unreg", 1)
  /\ UNCHANGED <<sync, cases, timed, arg, elem, todo>>

\* First scan, a case that is not ready: the selector joins its listeners.
ScanRegister(t) ==
  LET c == Case(t) IN
  /\ pc[t] = "scan"
  /\ MoreCases(t)
  /\ Free(c)
  /\ ~Ready(c)
  /\ listeners' = [listeners EXCEPT ![c][t] = @ + 1]
  /\ Goto(t, "scan", idx[t] + 1)
  /\ UNCHANGED <<chan, lock, condq, signaled, cases, timed, arg, elem, todo, ret>>

\* First scan, malloc fails: the selector is unregistered and an error raised.
ScanNoMemory(t) ==
  /\ pc[t] = "scan"
  /\ MoreCases(t)
  /\ Free(Case(t))
  /\ ~Ready(Case(t))
  /\ ret' = [ret EXCEPT ![t] = "error"]
  /\ Goto(t, "unreg", 1)
  /\ UNCHANGED <<chan, sync, cases, timed, arg, elem, todo>>

ScanEnd(t) ==
  /\ pc[t] = "scan"
  /\ ~MoreCases(t)
  /\ Goto(t, "check", 1)
  /\ UNCHANGED <<chan, sync, cases, timed, arg, elem, todo, ret>>

\* Plausible mistake: pick goes to sleep without looking at the flag.
SleepUnchecked(t) ==
  /\ pc[t] = "check"
  /\ pc' = [pc EXCEPT ![t] = "wait"]
  /\ UNCHANGED <<chan, sync, pick, arg, elem, todo, ret>>

\* The wait loop of pick, under the selector's lock.
CheckSignaled(t) ==
  /\ pc[t] = "check"
  /\ pc' = [pc EXCEPT ![t] = IF signaled[t] THEN "unreg" ELSE "wait"]
  /\ UNCHANGED <<chan, sync, pick, arg, elem, todo, ret>>

PickSpurious(t) ==
  /\ pc[t] = "wait"
  /\ pc' = [pc EXCEPT ![t] = "check"]
  /\ UNCHANGED <<chan, sync, pick, arg, elem, todo, ret>>

\* l_cond_wait_timeout expires: the timeout handler will run.
PickTimeout(t) ==
  /\ pc[t] = "wait"
  /\ timed[t]
  /\ ret' = [ret EXCEPT ![t] = "timeout"]
  /\ pc' = [pc EXCEPT ![t] = "unreg"]
  /\ UNCHANGED <<chan, sync, pick, arg, elem, todo>>

\* Plausible mistake: a record is removed whether there is one or not.
UnregisterUnchecked(t) ==
  /\ pc[t] = "unreg"
  /\ MoreCases(t)
  /\ Free(Case(t))
  /\ listeners' = [listeners EXCEPT ![Case(t)][t] = @ - 1]
  /\ idx' = [idx EXCEPT ![t] = @ + 1]
  /\ UNCHANGED <<chan, lock, condq, signaled, cases, timed, pc, arg, elem, todo, ret>>

\* unregister_all, one case: at most one Listener of this selector is freed.
Unregister(t) ==
  LET c == Case(t) IN
  /\ pc[t] = "unreg"
  /\ MoreCases(t)
  /\ Free(c)
  /\ listeners' = [listeners EXCEPT ![c][t] = IF @ > 0 THEN @ - 1 ELSE 0]
  /\ idx' = [idx EXCEPT ![t] = @ + 1]
  /\ UNCHANGED <<chan, lock, condq, signaled, cases, timed, pc, arg, elem, todo, ret>>

\* The selector is destroyed; a signalled pick scans again, others return.
UnregisterEnd(t) ==
  /\ pc[t] = "unreg"
  /\ ~MoreCases(t)
  /\ signaled' = [signaled EXCEPT ![t] = FALSE]
  /\ IF ret[t] = "pending"
     THEN Goto(t, "rescan", 1) /\ UNCHANGED <<cases, timed>>
     ELSE PickReturn(t)
  /\ UNCHANGED <<chan, lock, condq, listeners, arg, elem, todo, ret>>

\* Second scan: the first ready case is taken.
RescanTake(t) ==
  /\ pc[t] = "rescan"
  /\ MoreCases(t)
  /\ Free(Case(t))
  /\ Ready(Case(t))
  /\ TakeCase(t)
  /\ PickReturn(t)
  /\ UNCHANGED <<sync, arg, elem, todo>>

RescanSkip(t) ==
  /\ pc[t] = "rescan"
  /\ MoreCases(t)
  /\ Free(Case(t))
  /\ ~Ready(Case(t))
  /\ Goto(t, "rescan", idx[t] + 1)
  /\ UNCHANGED <<chan, sync, cases, timed, arg, elem, todo, ret>>

\* Second scan, no case is ready any more: pick returns without a result.
RescanEnd(t) ==
  /\ pc[t] = "rescan"
  /\ ~MoreCases(t)
  /\ ret' = [ret EXCEPT ![t] = "nothing"]
  /\ PickReturn(t)
  /\ UNCHANGED <<chan, sync, arg, elem, todo>>

-----------------------------------------------------------------------------
(* The finaliser, and the system.                                          *)

\* The n elements, or fewer, that are linked from e on, in order.
Walk[n \in 0..Cardinality(Elems)] ==
  [e \in Elems \cup {NULL} |->
     IF n = 0 \/ e = NULL THEN <<>> ELSE <<e>> \o Walk[n - 1][next[e]]]

\* The elements linked in c, in order.
Contents(c) == Walk[Cardinality(Elems)][head[c]]

Linked(c) == {Contents(c)[i] : i \in 1..Len(Contents(c))}

InUse(c) == \E t \in Threads :
  pc[t] # "idle" /\ (arg[t] = c \/ \E i \in 1..Len(cases[t]) : cases[t][i] = c)

\* channel_gc: an unreachable channel frees its elements and listeners.  The
\* record is then a new channel that a later thread.channel() returns.
Collect(c) ==
  /\ ~InUse(c)
  /\ refs' = refs \ Linked(c)
  /\ head' = [head EXCEPT ![c] = NULL]
  /\ tail' = [tail EXCEPT ![c] = NULL]
  /\ closed' = [closed EXCEPT ![c] = FALSE]
  /\ listeners' = [listeners EXCEPT ![c] = [t \in Threads |-> 0]]
  /\ sent' = [sent EXCEPT ![c] = <<>>]
  /\ got' = [got EXCEPT ![c] = <<>>]
  /\ UNCHANGED <<next, lock, condq, signaled, pick, pc, arg, elem, todo, ret>>

\* Steps a thread takes inside a call, once it has entered it.
Inside(t) ==
  \/ SendOpen(t) \/ SendClosed(t) \/ Notify(t) \/ Unlock(t)
  \/ ReceiveElem(t) \/ ReceiveClosed(t) \/ ReceiveWait(t) \/ PeekReturn(t)
  \/ ScanTake(t) \/ ScanRegister(t) \/ ScanEnd(t)
  \/ CheckSignaled(t) \/ Unregister(t) \/ UnregisterEnd(t)
  \/ RescanTake(t) \/ RescanSkip(t) \/ RescanEnd(t)

\* Steps the environment may take on a thread's behalf, or never take.
Outside(t) == SpuriousWakeup(t) \/ PickSpurious(t) \/ PickTimeout(t) \/ ScanNoMemory(t)

\* Calls a Lua program may make on an idle thread.
Call(t) ==
  \/ \E c \in Channels, e \in Elems :
       Send(t, c, e) \/ SendFails(t, c, e) \/ TrySend(t, c, e) \/ TrySendRefused(t, c, e)
  \/ \E c \in Channels : Close(t, c) \/ Receive(t, c) \/ TryReceive(t, c) \/ Peek(t, c)
  \/ \E cs \in CaseLists, tm \in BOOLEAN : Pick(t, cs, tm)

Next ==
  \/ \E t \in Threads : Call(t) \/ Inside(t) \/ Outside(t)
  \/ \E c \in Channels : Collect(c)

Spec == Init /\ [][Next]_vars

\* A thread inside a call is scheduled, and a mutex that keeps becoming free
\* is granted to every thread that keeps asking for it.
Fairness == \A t \in Threads : SF_vars(Inside(t))

FairSpec == Spec /\ Fairness

-----------------------------------------------------------------------------
(* Properties.                                                             *)

\* The values accepted by c and not yet taken.
Waiting(c) == SubSeq(sent[c], Len(got[c]) + 1, Len(sent[c]))

\* The pointers of every channel spell exactly the values accepted and not
\* yet taken, and head, tail and the last next agree about the two ends.
\* (Enqueue on an emptied list, Dequeue of the last element.)
ListOf(c) ==
  LET n == Len(sent[c])  k == Len(got[c]) IN
  /\ k <= n
  /\ \A i \in 1..k : got[c][i] = sent[c][i]
  /\ IF k = n
     THEN head[c] = NULL /\ tail[c] = NULL
     ELSE /\ head[c] = sent[c][k + 1]
          /\ tail[c] = sent[c][n]
          /\ next[sent[c][n]] = NULL
          /\ \A i \in k + 1 .. n - 1 : next[sent[c][i]] = sent[c][i + 1]

ListOK == \A c \in Channels : ListOf(c)

\* A registry reference is held exactly for the elements that are linked in a
\* channel and for those a blocked sender carries: none is lost by an error
\* path, and none is released while the element can still be received.
RefsExact ==
  refs = (UNION {Linked(c) : c \in Channels}) \cup {elem[t] : t \in {u \in Threads : pc[u] = "send"}}

\* channel_send wakes one sleeper per element.  While somebody sleeps on a
\* channel there is a receiver on its way for every element in it, whoever
\* overtakes the woken thread; and nobody sleeps on a closed channel.
NoLostWakeup == \A c \in Channels :
  condq[c] # {} =>
    /\ ~closed[c]
    /\ Len(Waiting(c)) <= Cardinality({t \in Threads : pc[t] = "recv" /\ arg[t] = c})

\* A pick sleeps only while none of its channels has an element or is closed,
\* except in the instant before the sender that holds the mutex notifies it.
NoMissedPick == \A t \in Threads : pc[t] = "wait" =>
  \A i \in 1..Len(cases[t]) :
    Ready(cases[t][i]) => lock[cases[t][i]] # NULL /\ t \in todo[lock[cases[t][i]]]

\* Once a pick has destroyed its selector, which lives on its C stack, no
\* channel lists it and no sender is about to lock it: unregister_all undoes
\* every registration, also when pick stops half way or lists a channel twice.
NoDanglingSelector == \A t \in Threads : pc[t] \notin PickPhases =>
  /\ \A c \in Channels : listeners[c][t] = 0
  /\ \A u \in Threads : t \notin todo[u]

\* The channels implement the abstract FIFO: closed channels accept nothing,
\* order is kept and no value is taken twice.
Abstract == INSTANCE AbstractChannel WITH
  buf <- [c \in Channels |-> Contents(c)], taken <- got
Implements == Abstract!Spec

\* A send returns: it waits for the mutex only, never for a receiver.
SendReturns == \A t \in Threads : pc[t] = "send" ~> pc[t] = "idle"

\* A receiver asleep on a channel that is closed returns.
ClosedReceiverReturns == \A t \in Threads, c \in Channels :
  (pc[t] = "recv_wait" /\ arg[t] = c /\ closed[c]) ~> pc[t] = "idle"

\* A pick returns after one of its channels has become ready.
ReadyPickReturns == \A t \in Threads :
  (pc[t] \in {"check", "wait"} /\ \E i \in 1..Len(cases[t]) : Ready(cases[t][i]))
     ~> pc[t] = "idle"
=============================================================================
