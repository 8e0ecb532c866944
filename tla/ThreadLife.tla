----------------------------- MODULE ThreadLife -----------------------------
(***************************************************************************)
(* The life of the threads of the `thread' library (stdlib/lthreadlib.c):  *)
(* the native thread, its Lua state, the registry reference that anchors   *)
(* the state, and the ThreadHandle userdata that programs see.             *)
(*                                                                         *)
(* Library functions run without the state lock, and no other lock guards  *)
(* a handle: the tests at the start of a method, the native call, each     *)
(* write of a field and the release of the anchor are steps of their own,  *)
(* and the methods of several threads interleave.  The native library      *)
(* gives one guarantee: a thread that has been neither joined nor detached *)
(* may be joined or detached.  A second use is undefined, and the model    *)
(* lets the join return at any moment then.                                *)
(***************************************************************************)
EXTENDS Naturals, FiniteSets

CONSTANTS
  Callers,   \* operating-system threads of the program that use handles
  Workers,   \* threads the program creates
  NULL,
  Orderly,   \* those whose handle one caller uses and not their own function,
             \* and whose creation finds memory and a native thread
  Owner      \* that caller

ASSUME LifeAssumption ==
  /\ NULL \notin Workers
  /\ Callers \cap Workers = {}
  /\ Orderly \subseteq Workers
  /\ Owner \in [Orderly -> Callers]

\* Who may be inside a function of the library.
Actors == Callers \cup Workers

VARIABLES
  kind,      \* how the worker was started: "create" or "createx"
  os,        \* the native thread
  reclaims,  \* uses of pthread_join and pthread_detach on it
  state,     \* the Lua state of the thread
  anchored,  \* the registry, or the creator's stack, refers to the state
  unrefs,    \* uses of luaL_unref on ThreadHandle.ref
  handle,    \* the ThreadHandle userdata
  rooted,    \* the program still refers to the handle
  lth,       \* ThreadHandle.L_thread is not NULL
  joined, detached,  \* the flags of ThreadHandle
  pc, arg    \* where each actor is, and with which worker

thread == <<os, state, anchored>>
record == <<kind, handle, rooted, lth, joined, detached>>
counts == <<reclaims, unrefs>>
vars == <<thread, record, counts, pc, arg>>

JoinSteps == {"join", "wait", "move", "unref", "clear"}
DetachSteps == {"detach", "release", "forget", "flag"}

TypeOK ==
  /\ kind \in [Workers -> {"create", "createx"}]
  /\ os \in [Workers -> {"none", "running", "done"}]
  /\ reclaims \in [Workers -> Nat] /\ unrefs \in [Workers -> Nat]
  /\ state \in [Workers -> {"none", "alive", "freed"}]
  /\ anchored \in [Workers -> BOOLEAN]
  /\ handle \in [Workers -> {"none", "alive", "freed"}]
  /\ rooted \in [Workers -> BOOLEAN] /\ lth \in [Workers -> BOOLEAN]
  /\ joined \in [Workers -> BOOLEAN] /\ detached \in [Workers -> BOOLEAN]
  /\ pc \in [Actors -> {"idle", "waitx"} \cup JoinSteps \cup DetachSteps]
  /\ arg \in [Actors -> Workers \cup {NULL}]

Init ==
  /\ kind = [w \in Workers |-> "create"]
  /\ os = [w \in Workers |-> "none"]
  /\ reclaims = [w \in Workers |-> 0] /\ unrefs = [w \in Workers |-> 0]
  /\ state = [w \in Workers |-> "none"]
  /\ anchored = [w \in Workers |-> FALSE]
  /\ handle = [w \in Workers |-> "none"]
  /\ rooted = [w \in Workers |-> FALSE] /\ lth = [w \in Workers |-> FALSE]
  /\ joined = [w \in Workers |-> FALSE] /\ detached = [w \in Workers |-> FALSE]
  /\ pc = [a \in Actors |-> "idle"]
  /\ arg = [a \in Actors |-> NULL]

\* The caller may create w.
MayCreate(c, w) == w \in Orderly => c = Owner[w]

\* The actor may call a method of w's handle: an orderly worker has one user,
\* the others every caller and, while they run, themselves.
MayUse(a, w) ==
  /\ handle[w] = "alive" /\ rooted[w]
  /\ a \in Callers => MayCreate(a, w)
  /\ a \in Workers => a = w /\ os[w] = "running" /\ w \notin Orderly

Goto(a, step) == pc' = [pc EXCEPT ![a] = step]
Enter(a, step, w) == Goto(a, step) /\ arg' = [arg EXCEPT ![a] = w]
Leave(a) == Enter(a, "idle", NULL)

Reclaim(w) == reclaims' = [reclaims EXCEPT ![w] = @ + 1]

\* luaL_unref(th->ref); the reference of a handle made by self is no anchor.
Unanchor(w) ==
  /\ unrefs' = [unrefs EXCEPT ![w] = IF kind[w] = "create" THEN @ + 1 ELSE @]
  /\ anchored' = [anchored EXCEPT ![w] = IF kind[w] = "create" THEN FALSE ELSE @]

-----------------------------------------------------------------------------
(* Creation and the thread's own steps.                                    *)

\* thread.create: the handle, the state and its anchor, and the native thread.
Create(c, w) ==
  /\ pc[c] = "idle" /\ MayCreate(c, w)
  /\ state[w] = "none"
  /\ os' = [os EXCEPT ![w] = "running"]
  /\ state' = [state EXCEPT ![w] = "alive"]
  /\ anchored' = [anchored EXCEPT ![w] = TRUE]
  /\ handle' = [handle EXCEPT ![w] = "alive"]
  /\ rooted' = [rooted EXCEPT ![w] = TRUE]
  /\ lth' = [lth EXCEPT ![w] = TRUE]
  /\ UNCHANGED <<kind, joined, detached, counts, pc, arg>>

\* thread.create fails after the anchor was made: the anchor is released and
\* an error raised, and the handle, which nobody refers to, stays as it is.
CreateFails(c, w) ==
  /\ w \notin Orderly
  /\ pc[c] = "idle"
  /\ state[w] = "none"
  /\ state' = [state EXCEPT ![w] = "alive"]
  /\ unrefs' = [unrefs EXCEPT ![w] = @ + 1]
  /\ handle' = [handle EXCEPT ![w] = "alive"]
  /\ lth' = [lth EXCEPT ![w] = TRUE]
  /\ UNCHANGED <<kind, os, anchored, rooted, joined, detached, reclaims, pc, arg>>

\* thread.createx: no handle; the state stays on the stack of the caller,
\* which joins the new thread at once.
CreateX(c, w) ==
  /\ pc[c] = "idle" /\ MayCreate(c, w)
  /\ state[w] = "none"
  /\ kind' = [kind EXCEPT ![w] = "createx"]
  /\ os' = [os EXCEPT ![w] = "running"]
  /\ state' = [state EXCEPT ![w] = "alive"]
  /\ anchored' = [anchored EXCEPT ![w] = TRUE]
  /\ Reclaim(w)
  /\ Enter(c, "waitx", w)
  /\ UNCHANGED <<handle, rooted, lth, joined, detached, unrefs>>

\* thread.createx finds no memory or no native thread: the error leaves the
\* state to the collector.
CreateXFails(c, w) ==
  /\ w \notin Orderly
  /\ pc[c] = "idle"
  /\ state[w] = "none"
  /\ kind' = [kind EXCEPT ![w] = "createx"]
  /\ state' = [state EXCEPT ![w] = "alive"]
  /\ UNCHANGED <<os, anchored, handle, rooted, lth, joined, detached, counts, pc, arg>>

\* The join of createx returns and the results are moved.
CreateXReturn(c) ==
  /\ pc[c] = "waitx"
  /\ os[arg[c]] = "done"
  /\ anchored' = [anchored EXCEPT ![arg[c]] = FALSE]
  /\ Leave(c)
  /\ UNCHANGED <<os, state, record, counts>>

\* thread.self() in a thread without a handle makes one, with the native id
\* of the running thread, and the weak map remembers it.
Self(w) ==
  /\ w \notin Orderly
  /\ os[w] = "running" /\ pc[w] = "idle"
  /\ handle[w] = "none"
  /\ handle' = [handle EXCEPT ![w] = "alive"]
  /\ rooted' = [rooted EXCEPT ![w] = TRUE]
  /\ lth' = [lth EXCEPT ![w] = TRUE]
  /\ UNCHANGED <<thread, kind, joined, detached, counts, pc, arg>>

\* thread_entry: the function returns, or raises an error that is noted in
\* the handle if the thread was given one.
Finish(w) ==
  /\ os[w] = "running" /\ pc[w] = "idle"
  /\ os' = [os EXCEPT ![w] = "done"]
  /\ UNCHANGED <<state, anchored, record, counts, pc, arg>>

-----------------------------------------------------------------------------
(* th:join()                                                               *)

\* thread_join up to the native join: the three tests.
JoinCheck(a, w) ==
  /\ pc[a] = "idle" /\ MayUse(a, w)
  /\ ~detached[w] /\ ~joined[w] /\ lth[w]
  /\ Enter(a, "join", w)
  /\ UNCHANGED <<thread, record, counts>>

\* Plausible mistake: the flag is set and the state given up before the join.
JoinEarly(c) ==
  /\ pc[c] = "join" /\ c # arg[c]
  /\ Reclaim(arg[c])
  /\ joined' = [joined EXCEPT ![arg[c]] = TRUE]
  /\ lth' = [lth EXCEPT ![arg[c]] = FALSE]
  /\ Goto(c, "wait")
  /\ UNCHANGED <<thread, kind, handle, rooted, detached, unrefs, arg>>

\* pthread_join is called.
JoinCall(c) ==
  /\ pc[c] = "join" /\ c # arg[c]
  /\ Reclaim(arg[c])
  /\ Goto(c, "wait")
  /\ UNCHANGED <<thread, record, unrefs, arg>>

\* In the thread that is to be joined pthread_join refuses at once; its result
\* is ignored, and the thread counts as joined.
JoinSelf(w) ==
  /\ pc[w] = "join" /\ w = arg[w]
  /\ joined' = [joined EXCEPT ![w] = TRUE]
  /\ Goto(w, "move")
  /\ UNCHANGED <<thread, kind, handle, rooted, lth, detached, counts, arg>>

\* Plausible mistake: the state is given up before its results are moved.
JoinReleases(c) ==
  /\ pc[c] = "wait"
  /\ os[arg[c]] = "done" \/ reclaims[arg[c]] > 1
  /\ joined' = [joined EXCEPT ![arg[c]] = TRUE]
  /\ anchored' = [anchored EXCEPT ![arg[c]] = FALSE]
  /\ Goto(c, "move")
  /\ UNCHANGED <<os, state, kind, handle, rooted, lth, detached, counts, arg>>

\* It returns, and the thread counts as joined.
JoinReturn(c) ==
  /\ pc[c] = "wait"
  /\ os[arg[c]] = "done" \/ reclaims[arg[c]] > 1
  /\ joined' = [joined EXCEPT ![arg[c]] = TRUE]
  /\ Goto(c, "move")
  /\ UNCHANGED <<thread, kind, handle, rooted, lth, detached, counts, arg>>

\* The results are moved from the state, which is read through L_thread: the
\* process crashes, and the model has no step, if another method cleared it.
JoinMove(a) ==
  /\ pc[a] = "move" /\ lth[arg[a]]
  /\ Goto(a, "unref")
  /\ UNCHANGED <<thread, record, counts, arg>>

-----------------------------------------------------------------------------
(* th:detach()                                                             *)

\* Plausible mistake: a thread that was joined may be detached.
DetachJoined(a, w) ==
  /\ pc[a] = "idle" /\ MayUse(a, w)
  /\ ~detached[w]
  /\ Enter(a, "detach", w)
  /\ UNCHANGED <<thread, record, counts>>

\* thread_detach up to the native call: the three tests.
DetachCheck(a, w) ==
  /\ pc[a] = "idle" /\ MayUse(a, w)
  /\ ~joined[w] /\ ~detached[w] /\ lth[w]
  /\ Enter(a, "detach", w)
  /\ UNCHANGED <<thread, record, counts>>

\* pthread_detach
DetachCall(a) ==
  /\ pc[a] = "detach"
  /\ Reclaim(arg[a])
  /\ Goto(a, "release")
  /\ UNCHANGED <<thread, record, unrefs, arg>>

\* luaL_unref, the last but one statement of join and the second of detach.
Unref(a) ==
  /\ \/ pc[a] = "unref" /\ Goto(a, "clear")
     \/ pc[a] = "release" /\ Goto(a, "forget")
  /\ Unanchor(arg[a])
  /\ UNCHANGED <<os, state, record, reclaims, arg>>

\* Plausible mistake: join leaves the state in the handle.
ClearDetached(a) ==
  /\ \/ pc[a] = "clear" /\ Leave(a) /\ UNCHANGED lth
     \/ /\ pc[a] = "forget" /\ Goto(a, "flag") /\ UNCHANGED arg
        /\ lth' = [lth EXCEPT ![arg[a]] = FALSE]
  /\ UNCHANGED <<thread, kind, handle, rooted, joined, detached, counts>>

\* th->L_thread = NULL, with which join ends.
Clear(a) ==
  /\ \/ pc[a] = "clear" /\ Leave(a)
     \/ pc[a] = "forget" /\ Goto(a, "flag") /\ UNCHANGED arg
  /\ lth' = [lth EXCEPT ![arg[a]] = FALSE]
  /\ UNCHANGED <<thread, kind, handle, rooted, joined, detached, counts>>

\* th->detached = 1, with which detach ends.
Flag(a) ==
  /\ pc[a] = "flag" /\ Leave(a)
  /\ detached' = [detached EXCEPT ![arg[a]] = TRUE]
  /\ UNCHANGED <<thread, kind, handle, rooted, lth, joined, counts>>

-----------------------------------------------------------------------------
(* The program forgets, and the collector frees.                           *)

Forget(w) ==
  /\ rooted[w]
  /\ rooted' = [rooted EXCEPT ![w] = FALSE]
  /\ UNCHANGED <<thread, kind, handle, lth, joined, detached, counts, pc, arg>>

\* thread.self() finds the handle again while the weak map has it.
Remember(w) ==
  /\ w \notin Orderly
  /\ os[w] = "running" /\ pc[w] = "idle"
  /\ handle[w] = "alive" /\ ~rooted[w]
  /\ rooted' = [rooted EXCEPT ![w] = TRUE]
  /\ UNCHANGED <<thread, kind, handle, lth, joined, detached, counts, pc, arg>>

\* Nothing refers to the handle: neither a variable nor a running method.
Garbage(w) ==
  /\ handle[w] = "alive" /\ ~rooted[w]
  /\ \A a \in Actors : pc[a] \in JoinSteps \cup DetachSteps => arg[a] # w

\* Plausible mistake: the finaliser does not mind who joined or detached.
CollectAlways(w) ==
  /\ Garbage(w)
  /\ handle' = [handle EXCEPT ![w] = "freed"]
  /\ Reclaim(w)
  /\ Unanchor(w)
  /\ lth' = [lth EXCEPT ![w] = FALSE]
  /\ detached' = [detached EXCEPT ![w] = TRUE]
  /\ UNCHANGED <<os, state, kind, rooted, joined, pc, arg>>

\* Plausible mistake: the finaliser leaves the native thread alone.
CollectOnly(w) ==
  /\ Garbage(w)
  /\ handle' = [handle EXCEPT ![w] = "freed"]
  /\ UNCHANGED <<thread, kind, rooted, lth, joined, detached, counts, pc, arg>>

\* thread_gc: a thread neither joined nor detached is detached.
Collect(w) ==
  /\ Garbage(w)
  /\ handle' = [handle EXCEPT ![w] = "freed"]
  /\ IF lth[w] /\ ~joined[w] /\ ~detached[w]
     THEN /\ Reclaim(w)
          /\ Unanchor(w)
          /\ lth' = [lth EXCEPT ![w] = FALSE]
          /\ detached' = [detached EXCEPT ![w] = TRUE]
     ELSE UNCHANGED <<reclaims, unrefs, anchored, lth, detached>>
  /\ UNCHANGED <<os, state, kind, rooted, joined, pc, arg>>

\* The collector, run by another thread, frees a state nothing refers to.
CollectState(w) ==
  /\ state[w] = "alive" /\ ~anchored[w]
  /\ state' = [state EXCEPT ![w] = "freed"]
  /\ UNCHANGED <<os, anchored, record, counts, pc, arg>>

\* The steps of an actor inside a function of the library.
Inside(a) ==
  \/ CreateXReturn(a)
  \/ JoinCall(a) \/ JoinSelf(a) \/ JoinReturn(a) \/ JoinMove(a)
  \/ DetachCall(a) \/ Unref(a) \/ Clear(a) \/ Flag(a)

Next ==
  \/ \E c \in Callers, w \in Workers :
       Create(c, w) \/ CreateFails(c, w) \/ CreateX(c, w) \/ CreateXFails(c, w)
  \/ \E a \in Actors, w \in Workers : JoinCheck(a, w) \/ DetachCheck(a, w)
  \/ \E a \in Actors : Inside(a)
  \/ \E w \in Workers :
       \/ Self(w) \/ Finish(w) \/ Forget(w) \/ Remember(w)
       \/ Collect(w) \/ CollectState(w)

Spec == Init /\ [][Next]_vars

\* The operating system schedules an actor inside a method.
FairSpec == Spec /\ \A a \in Actors : WF_vars(Inside(a))

-----------------------------------------------------------------------------
(* Properties.  They are about orderly workers, whatever happens to the    *)
(* others.  Of a handle two threads use nothing of the kind holds: both    *)
(* pass the tests, and a join and a detach leave both flags set, release   *)
(* the reference twice, or crash in JoinMove.                              *)

\* A native thread is joined or detached once at most, whichever of join,
\* detach, createx and the finaliser gets there first, and a thread that was
\* never started not at all.
NativeOnce == \A w \in Orderly : reclaims[w] <= (IF os[w] = "none" THEN 0 ELSE 1)

\* The registry reference of a state is released once at most: a second
\* release would put its index into the free list of the registry twice.
AnchorOnce == \A w \in Orderly : unrefs[w] <= 1

\* Nothing leaks: once the handle is gone the native thread has been joined
\* or detached, and nothing anchors the state of a thread nobody can join.
NoLeak == \A w \in Orderly :
  kind[w] = "create" /\ handle[w] = "freed" => reclaims[w] > 0 /\ ~anchored[w]

\* Between two calls the fields of a handle agree with each other and with the
\* registry: the state is in the handle as long as it is anchored, and it was
\* given up by the one method that joined or detached the thread.
FlagsAgree == \A w \in Orderly :
  handle[w] # "none" /\ (\A a \in Actors : arg[a] # w) =>
    /\ ~(joined[w] /\ detached[w])
    /\ lth[w] <=> ~joined[w] /\ ~detached[w]
    /\ lth[w] <=> anchored[w]

\* When thread_join comes to move the results, the state that holds them is
\* still in the handle and has not been collected, although the program may
\* have dropped the handle and the collector has run while it waited.
ResultsThere == \A a \in Actors :
  pc[a] = "move" /\ arg[a] \in Orderly => lth[arg[a]] /\ state[arg[a]] = "alive"

\* thread_join waits for the thread to finish (lthreadlib.c:178).
JoinWaits == \A w \in Orderly : joined[w] => os[w] = "done"

\* A caller that waits for a thread gets an answer once the thread is done:
\* it comes through all the steps behind the native join.
JoinAnswers == \A c \in Callers, w \in Orderly :
  (pc[c] = "wait" /\ arg[c] = w /\ os[w] = "done") ~> pc[c] = "idle"
=============================================================================
