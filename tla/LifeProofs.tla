----------------------------- MODULE LifeProofs -----------------------------
(***************************************************************************)
(* What the thread library guarantees of an orderly worker, whose handle   *)
(* one caller uses and not the thread itself, and whose creation does not  *)
(* fail: the native thread is reclaimed and the anchor released exactly    *)
(* once, nothing leaks, join waits and finds the results.  It is shown for *)
(* any number of callers and workers, among any number of workers that are *)
(* not orderly.                                                            *)
(***************************************************************************)
EXTENDS ThreadLife, TLAPS

\* An actor inside a method has a worker, one with a handle but for createx;
\* one outside has none.
Busy == \A a \in Actors :
  /\ IF pc[a] = "idle" THEN arg[a] = NULL ELSE arg[a] \in Workers
  /\ pc[a] \in JoinSteps \cup DetachSteps => handle[arg[a]] # "none"
  /\ pc[a] = "waitx" => kind[arg[a]] = "createx"

\* What was never created has no handle and does not run, and a handle that
\* does not exist has no fields yet.
NoHandle == \A w \in Workers :
  /\ state[w] = "none" => handle[w] = "none" /\ os[w] = "none"
  /\ handle[w] = "none" => ~joined[w] /\ ~detached[w] /\ ~lth[w] /\ ~rooted[w]

FInv == TypeOK /\ Busy /\ NoHandle

-----------------------------------------------------------------------------
LEMMA UnanchorType ==
  ASSUME TypeOK, NEW w \in Workers, Unanchor(w)
  PROVE  unrefs' \in [Workers -> Nat] /\ anchored' \in [Workers -> BOOLEAN]
<1>1. CASE kind[w] = "create"
  <2>1. unrefs' = [unrefs EXCEPT ![w] = unrefs[w] + 1] /\ anchored' = [anchored EXCEPT ![w] = FALSE]
    BY <1>1 DEF Unanchor
  <2> QED BY <2>1 DEF TypeOK
<1>2. CASE kind[w] # "create"
  <2>1. unrefs' = [unrefs EXCEPT ![w] = unrefs[w]] /\ anchored' = [anchored EXCEPT ![w] = anchored[w]]
    BY <1>2 DEF Unanchor
  <2> QED BY <2>1 DEF TypeOK
<1> QED BY <1>1, <1>2

\* Entering, leaving and going on keep the types of the control state.
LEMMA ControlType ==
  ASSUME TypeOK, NEW a \in Actors, NEW w \in Workers,
         \/ \E s \in {"idle", "waitx"} \cup JoinSteps \cup DetachSteps :
              Enter(a, s, w) \/ (Goto(a, s) /\ UNCHANGED arg)
         \/ Leave(a)
         \/ UNCHANGED <<pc, arg>>
  PROVE  /\ pc' \in [Actors -> {"idle", "waitx"} \cup JoinSteps \cup DetachSteps]
         /\ arg' \in [Actors -> Workers \cup {NULL}]
BY DEF TypeOK, Enter, Goto, Leave

LEMMA FlagsInit == Init => FInv
BY LifeAssumption DEF Init, FInv, TypeOK, Busy, NoHandle, JoinSteps, DetachSteps

LEMMA TypeHolds ==
  ASSUME TypeOK, Busy, [Next]_vars
  PROVE  TypeOK'
<1> USE DEF thread, record, counts
<1>0. Callers \subseteq Actors
  BY DEF Actors
<1>1. ASSUME NEW a \in Callers, NEW w \in Workers, Create(a, w) PROVE TypeOK'
  BY <1>1 DEF Create, TypeOK
<1>2. ASSUME NEW a \in Callers, NEW w \in Workers, CreateFails(a, w) PROVE TypeOK'
  BY <1>2 DEF CreateFails, TypeOK
<1>3. ASSUME NEW a \in Callers, NEW w \in Workers, CreateX(a, w) PROVE TypeOK'
  <2>1. pc' \in [Actors -> {"idle", "waitx"} \cup JoinSteps \cup DetachSteps] /\ arg' \in [Actors -> Workers \cup {NULL}]
    BY <1>0, <1>3 DEF CreateX, Enter, Goto, TypeOK, JoinSteps, DetachSteps
  <2> QED BY <1>3, <2>1 DEF CreateX, TypeOK, Reclaim
<1>4. ASSUME NEW a \in Callers, NEW w \in Workers, CreateXFails(a, w) PROVE TypeOK'
  BY <1>4 DEF CreateXFails, TypeOK
<1>5. ASSUME NEW a \in Actors, NEW w \in Workers, JoinCheck(a, w) PROVE TypeOK'
  <2>1. pc' \in [Actors -> {"idle", "waitx"} \cup JoinSteps \cup DetachSteps] /\ arg' \in [Actors -> Workers \cup {NULL}]
    BY <1>0, <1>5 DEF JoinCheck, Enter, Goto, TypeOK, JoinSteps, DetachSteps
  <2> QED BY <1>5, <2>1 DEF JoinCheck, TypeOK
<1>6. ASSUME NEW a \in Actors, NEW w \in Workers, DetachCheck(a, w) PROVE TypeOK'
  <2>1. pc' \in [Actors -> {"idle", "waitx"} \cup JoinSteps \cup DetachSteps] /\ arg' \in [Actors -> Workers \cup {NULL}]
    BY <1>0, <1>6 DEF DetachCheck, Enter, Goto, TypeOK, JoinSteps, DetachSteps
  <2> QED BY <1>6, <2>1 DEF DetachCheck, TypeOK
<1>7. ASSUME NEW a \in Actors, CreateXReturn(a) PROVE TypeOK'
  <2>0. arg[a] \in Workers
    BY <1>7 DEF CreateXReturn, Busy
  <2>1. pc' \in [Actors -> {"idle", "waitx"} \cup JoinSteps \cup DetachSteps] /\ arg' \in [Actors -> Workers \cup {NULL}]
    BY <1>7, <2>0, ControlType DEF CreateXReturn, JoinSteps, DetachSteps
  <2> QED BY <1>7, <2>1, <2>0 DEF CreateXReturn, TypeOK
<1>8. ASSUME NEW a \in Actors, JoinCall(a) PROVE TypeOK'
  <2>0. arg[a] \in Workers
    BY <1>8 DEF JoinCall, Busy
  <2>1. pc' \in [Actors -> {"idle", "waitx"} \cup JoinSteps \cup DetachSteps] /\ arg' \in [Actors -> Workers \cup {NULL}]
    BY <1>8, <2>0, ControlType DEF JoinCall, JoinSteps, DetachSteps
  <2> QED BY <1>8, <2>1, <2>0 DEF JoinCall, TypeOK, Reclaim
<1>9. ASSUME NEW a \in Actors, JoinSelf(a) PROVE TypeOK'
  <2>0. arg[a] \in Workers
    BY <1>9 DEF JoinSelf, Busy
  <2>1. pc' \in [Actors -> {"idle", "waitx"} \cup JoinSteps \cup DetachSteps] /\ arg' \in [Actors -> Workers \cup {NULL}]
    BY <1>9, <2>0, ControlType DEF JoinSelf, JoinSteps, DetachSteps
  <2> QED BY <1>9, <2>1, <2>0 DEF JoinSelf, TypeOK
<1>10. ASSUME NEW a \in Actors, JoinReturn(a) PROVE TypeOK'
  <2>0. arg[a] \in Workers
    BY <1>10 DEF JoinReturn, Busy
  <2>1. pc' \in [Actors -> {"idle", "waitx"} \cup JoinSteps \cup DetachSteps] /\ arg' \in [Actors -> Workers \cup {NULL}]
    BY <1>10, <2>0, ControlType DEF JoinReturn, JoinSteps, DetachSteps
  <2> QED BY <1>10, <2>1, <2>0 DEF JoinReturn, TypeOK
<1>11. ASSUME NEW a \in Actors, JoinMove(a) PROVE TypeOK'
  <2>0. arg[a] \in Workers
    BY <1>11 DEF JoinMove, Busy
  <2>1. pc' \in [Actors -> {"idle", "waitx"} \cup JoinSteps \cup DetachSteps] /\ arg' \in [Actors -> Workers \cup {NULL}]
    BY <1>11, <2>0, ControlType DEF JoinMove, JoinSteps, DetachSteps
  <2> QED BY <1>11, <2>1, <2>0 DEF JoinMove, TypeOK
<1>12. ASSUME NEW a \in Actors, DetachCall(a) PROVE TypeOK'
  <2>0. arg[a] \in Workers
    BY <1>12 DEF DetachCall, Busy
  <2>1. pc' \in [Actors -> {"idle", "waitx"} \cup JoinSteps \cup DetachSteps] /\ arg' \in [Actors -> Workers \cup {NULL}]
    BY <1>12, <2>0, ControlType DEF DetachCall, JoinSteps, DetachSteps
  <2> QED BY <1>12, <2>1, <2>0 DEF DetachCall, TypeOK, Reclaim
<1>13. ASSUME NEW a \in Actors, Unref(a) PROVE TypeOK'
  <2>0. arg[a] \in Workers
    BY <1>13 DEF Unref, Busy
  <2>1. pc' \in [Actors -> {"idle", "waitx"} \cup JoinSteps \cup DetachSteps] /\ arg' \in [Actors -> Workers \cup {NULL}]
    BY <1>13, <2>0, ControlType DEF Unref, JoinSteps, DetachSteps
  <2>2. unrefs' \in [Workers -> Nat] /\ anchored' \in [Workers -> BOOLEAN]
    BY <1>13, <2>0, UnanchorType DEF Unref
  <2> QED BY <1>13, <2>1, <2>2 DEF Unref, TypeOK
<1>14. ASSUME NEW a \in Actors, Clear(a) PROVE TypeOK'
  <2>0. arg[a] \in Workers
    BY <1>14 DEF Clear, Busy
  <2>1. pc' \in [Actors -> {"idle", "waitx"} \cup JoinSteps \cup DetachSteps] /\ arg' \in [Actors -> Workers \cup {NULL}]
    BY <1>14, <2>0, ControlType DEF Clear, JoinSteps, DetachSteps
  <2> QED BY <1>14, <2>1, <2>0 DEF Clear, TypeOK
<1>15. ASSUME NEW a \in Actors, Flag(a) PROVE TypeOK'
  <2>0. arg[a] \in Workers
    BY <1>15 DEF Flag, Busy
  <2>1. pc' \in [Actors -> {"idle", "waitx"} \cup JoinSteps \cup DetachSteps] /\ arg' \in [Actors -> Workers \cup {NULL}]
    BY <1>15, <2>0, ControlType DEF Flag, JoinSteps, DetachSteps
  <2> QED BY <1>15, <2>1, <2>0 DEF Flag, TypeOK
<1>16. ASSUME NEW w \in Workers, Self(w) PROVE TypeOK'
  BY <1>16 DEF Self, TypeOK
<1>17. ASSUME NEW w \in Workers, Finish(w) PROVE TypeOK'
  BY <1>17 DEF Finish, TypeOK
<1>18. ASSUME NEW w \in Workers, Forget(w) PROVE TypeOK'
  BY <1>18 DEF Forget, TypeOK
<1>19. ASSUME NEW w \in Workers, Remember(w) PROVE TypeOK'
  BY <1>19 DEF Remember, TypeOK
<1>20. ASSUME NEW w \in Workers, Collect(w) PROVE TypeOK'
  <2>1. CASE lth[w] /\ ~joined[w] /\ ~detached[w]
    <3>1. unrefs' \in [Workers -> Nat] /\ anchored' \in [Workers -> BOOLEAN]
      BY ONLY <1>20, <2>1, UnanchorType, TypeOK DEF Collect
    <3>2. /\ lth' = [lth EXCEPT ![w] = FALSE] /\ detached' = [detached EXCEPT ![w] = TRUE]
          /\ reclaims' = [reclaims EXCEPT ![w] = reclaims[w] + 1] /\ handle' = [handle EXCEPT ![w] = "freed"]
          /\ UNCHANGED <<os, state, kind, rooted, joined, pc, arg>>
      BY ONLY <1>20, <2>1 DEF Collect, Reclaim
    <3>3. lth' \in [Workers -> BOOLEAN] /\ detached' \in [Workers -> BOOLEAN]
      BY ONLY <3>2, TypeOK, Zenon DEF TypeOK
    <3> QED BY <3>1, <3>2, <3>3 DEF TypeOK
  <2>2. CASE ~(lth[w] /\ ~joined[w] /\ ~detached[w])
    BY <1>20, <2>2 DEF Collect, TypeOK
  <2> QED BY <2>1, <2>2
<1>21. ASSUME NEW w \in Workers, CollectState(w) PROVE TypeOK'
  BY <1>21 DEF CollectState, TypeOK
<1>22. CASE UNCHANGED vars
  BY <1>22 DEF vars, TypeOK
<1> QED
  BY <1>1, <1>2, <1>3, <1>4, <1>5, <1>6, <1>7, <1>8, <1>9, <1>10, <1>11, <1>12, <1>13, <1>14, <1>15, <1>16, <1>17, <1>18, <1>19, <1>20, <1>21, <1>22
     DEF Next, Inside

LEMMA FlagsNext ==
  ASSUME FInv, [Next]_vars
  PROVE  FInv'
<1> USE LifeAssumption DEF FInv, thread, record, counts
<1>0. Callers \subseteq Actors
  BY DEF Actors
<1>1. ASSUME NEW a \in Callers, NEW w \in Workers, Create(a, w) PROVE Busy' /\ NoHandle'
  <2>1. Busy'
    BY <1>0, <1>1 DEF Create, Busy, NoHandle, TypeOK, JoinSteps, DetachSteps, Goto, Enter, Leave
  <2>2. NoHandle'
    BY <1>0, <1>1 DEF Create, NoHandle, TypeOK
  <2> QED BY <2>1, <2>2
<1>2. ASSUME NEW a \in Callers, NEW w \in Workers, CreateFails(a, w) PROVE Busy' /\ NoHandle'
  <2>1. Busy'
    BY <1>0, <1>2 DEF CreateFails, Busy, NoHandle, TypeOK, JoinSteps, DetachSteps, Goto, Enter, Leave
  <2>2. NoHandle'
    BY <1>0, <1>2 DEF CreateFails, NoHandle, TypeOK
  <2> QED BY <2>1, <2>2
<1>3. ASSUME NEW a \in Callers, NEW w \in Workers, CreateX(a, w) PROVE Busy' /\ NoHandle'
  <2>1. Busy'
    BY <1>0, <1>3 DEF CreateX, Busy, NoHandle, TypeOK, JoinSteps, DetachSteps, Reclaim, Goto, Enter, Leave
  <2>2. NoHandle'
    BY <1>0, <1>3 DEF CreateX, NoHandle, TypeOK, Reclaim
  <2> QED BY <2>1, <2>2
<1>4. ASSUME NEW a \in Callers, NEW w \in Workers, CreateXFails(a, w) PROVE Busy' /\ NoHandle'
  <2>1. Busy'
    BY <1>0, <1>4 DEF CreateXFails, Busy, NoHandle, TypeOK, JoinSteps, DetachSteps, Goto, Enter, Leave
  <2>2. NoHandle'
    BY <1>0, <1>4 DEF CreateXFails, NoHandle, TypeOK
  <2> QED BY <2>1, <2>2
<1>5. ASSUME NEW a \in Actors, NEW w \in Workers, JoinCheck(a, w) PROVE Busy' /\ NoHandle'
  <2>1. Busy'
    BY <1>0, <1>5 DEF JoinCheck, Busy, NoHandle, TypeOK, JoinSteps, DetachSteps, MayUse, Goto, Enter, Leave
  <2>2. NoHandle'
    BY <1>0, <1>5 DEF JoinCheck, NoHandle, TypeOK, MayUse
  <2> QED BY <2>1, <2>2
<1>6. ASSUME NEW a \in Actors, NEW w \in Workers, DetachCheck(a, w) PROVE Busy' /\ NoHandle'
  <2>1. Busy'
    BY <1>0, <1>6 DEF DetachCheck, Busy, NoHandle, TypeOK, JoinSteps, DetachSteps, MayUse, Goto, Enter, Leave
  <2>2. NoHandle'
    BY <1>0, <1>6 DEF DetachCheck, NoHandle, TypeOK, MayUse
  <2> QED BY <2>1, <2>2
<1>7. ASSUME NEW a \in Actors, CreateXReturn(a) PROVE Busy' /\ NoHandle'
  <2>0. arg[a] \in Workers
    BY <1>7 DEF CreateXReturn, Busy
  <2>1. Busy'
    BY <1>7, <2>0 DEF CreateXReturn, Busy, NoHandle, TypeOK, JoinSteps, DetachSteps, Goto, Enter, Leave
  <2>2. NoHandle'
    BY <1>7, <2>0 DEF CreateXReturn, NoHandle, TypeOK
  <2> QED BY <2>1, <2>2
<1>8. ASSUME NEW a \in Actors, JoinCall(a) PROVE Busy' /\ NoHandle'
  <2>0. arg[a] \in Workers
    BY <1>8 DEF JoinCall, Busy
  <2>1. Busy'
    BY <1>8, <2>0 DEF JoinCall, Busy, NoHandle, TypeOK, JoinSteps, DetachSteps, Reclaim, Goto, Enter, Leave
  <2>2. NoHandle'
    BY <1>8, <2>0 DEF JoinCall, NoHandle, TypeOK, Reclaim
  <2> QED BY <2>1, <2>2
<1>9. ASSUME NEW a \in Actors, JoinSelf(a) PROVE Busy' /\ NoHandle'
  <2>0. arg[a] \in Workers
    BY <1>9 DEF JoinSelf, Busy
  <2>3. handle[arg[a]] # "none"
    BY <1>9 DEF JoinSelf, Busy, JoinSteps, DetachSteps
  <2>1. Busy'
    BY <1>9, <2>0 DEF JoinSelf, Busy, NoHandle, TypeOK, JoinSteps, DetachSteps, Goto, Enter, Leave
  <2>2. NoHandle'
    BY <1>9, <2>0, <2>3 DEF JoinSelf, NoHandle, TypeOK
  <2> QED BY <2>1, <2>2
<1>10. ASSUME NEW a \in Actors, JoinReturn(a) PROVE Busy' /\ NoHandle'
  <2>0. arg[a] \in Workers
    BY <1>10 DEF JoinReturn, Busy
  <2>3. handle[arg[a]] # "none"
    BY <1>10 DEF JoinReturn, Busy, JoinSteps, DetachSteps
  <2>1. Busy'
    BY <1>10, <2>0 DEF JoinReturn, Busy, NoHandle, TypeOK, JoinSteps, DetachSteps, Goto, Enter, Leave
  <2>2. NoHandle'
    BY <1>10, <2>0, <2>3 DEF JoinReturn, NoHandle, TypeOK
  <2> QED BY <2>1, <2>2
<1>11. ASSUME NEW a \in Actors, JoinMove(a) PROVE Busy' /\ NoHandle'
  <2>0. arg[a] \in Workers
    BY <1>11 DEF JoinMove, Busy
  <2>1. Busy'
    BY <1>11, <2>0 DEF JoinMove, Busy, NoHandle, TypeOK, JoinSteps, DetachSteps, Goto, Enter, Leave
  <2>2. NoHandle'
    BY <1>11, <2>0 DEF JoinMove, NoHandle, TypeOK
  <2> QED BY <2>1, <2>2
<1>12. ASSUME NEW a \in Actors, DetachCall(a) PROVE Busy' /\ NoHandle'
  <2>0. arg[a] \in Workers
    BY <1>12 DEF DetachCall, Busy
  <2>1. Busy'
    BY <1>12, <2>0 DEF DetachCall, Busy, NoHandle, TypeOK, JoinSteps, DetachSteps, Reclaim, Goto, Enter, Leave
  <2>2. NoHandle'
    BY <1>12, <2>0 DEF DetachCall, NoHandle, TypeOK, Reclaim
  <2> QED BY <2>1, <2>2
<1>13. ASSUME NEW a \in Actors, Unref(a) PROVE Busy' /\ NoHandle'
  <2>0. arg[a] \in Workers
    BY <1>13 DEF Unref, Busy
  <2>1. Busy'
    BY <1>13, <2>0 DEF Unref, Busy, NoHandle, TypeOK, JoinSteps, DetachSteps, Unanchor, Goto, Enter, Leave
  <2>2. NoHandle'
    BY <1>13, <2>0 DEF Unref, NoHandle, TypeOK, Unanchor
  <2> QED BY <2>1, <2>2
<1>14. ASSUME NEW a \in Actors, Clear(a) PROVE Busy' /\ NoHandle'
  <2>0. arg[a] \in Workers
    BY <1>14 DEF Clear, Busy
  <2>3. handle[arg[a]] # "none"
    BY <1>14 DEF Clear, Busy, JoinSteps, DetachSteps
  <2>1. Busy'
    BY <1>14, <2>0 DEF Clear, Busy, NoHandle, TypeOK, JoinSteps, DetachSteps, Goto, Enter, Leave
  <2>2. NoHandle'
    BY <1>14, <2>0, <2>3 DEF Clear, NoHandle, TypeOK
  <2> QED BY <2>1, <2>2
<1>15. ASSUME NEW a \in Actors, Flag(a) PROVE Busy' /\ NoHandle'
  <2>0. arg[a] \in Workers
    BY <1>15 DEF Flag, Busy
  <2>3. handle[arg[a]] # "none"
    BY <1>15 DEF Flag, Busy, JoinSteps, DetachSteps
  <2>1. Busy'
    BY <1>15, <2>0 DEF Flag, Busy, NoHandle, TypeOK, JoinSteps, DetachSteps, Goto, Enter, Leave
  <2>2. NoHandle'
    BY <1>15, <2>0, <2>3 DEF Flag, NoHandle, TypeOK
  <2> QED BY <2>1, <2>2
<1>16. ASSUME NEW w \in Workers, Self(w) PROVE Busy' /\ NoHandle'
  <2>1. Busy'
    BY <1>16 DEF Self, Busy, NoHandle, TypeOK, JoinSteps, DetachSteps, Goto, Enter, Leave
  <2>2. NoHandle'
    BY <1>16 DEF Self, NoHandle, TypeOK
  <2> QED BY <2>1, <2>2
<1>17. ASSUME NEW w \in Workers, Finish(w) PROVE Busy' /\ NoHandle'
  <2>1. Busy'
    BY <1>17 DEF Finish, Busy, NoHandle, TypeOK, JoinSteps, DetachSteps, Goto, Enter, Leave
  <2>2. NoHandle'
    BY <1>17 DEF Finish, NoHandle, TypeOK
  <2> QED BY <2>1, <2>2
<1>18. ASSUME NEW w \in Workers, Forget(w) PROVE Busy' /\ NoHandle'
  <2>1. Busy'
    BY <1>18 DEF Forget, Busy, NoHandle, TypeOK, JoinSteps, DetachSteps, Goto, Enter, Leave
  <2>2. NoHandle'
    BY <1>18 DEF Forget, NoHandle, TypeOK
  <2> QED BY <2>1, <2>2
<1>19. ASSUME NEW w \in Workers, Remember(w) PROVE Busy' /\ NoHandle'
  <2>1. Busy'
    BY <1>19 DEF Remember, Busy, NoHandle, TypeOK, JoinSteps, DetachSteps, Goto, Enter, Leave
  <2>2. NoHandle'
    BY <1>19 DEF Remember, NoHandle, TypeOK
  <2> QED BY <2>1, <2>2
<1>20. ASSUME NEW w \in Workers, Collect(w) PROVE Busy' /\ NoHandle'
  <2>1. /\ handle' = [handle EXCEPT ![w] = "freed"] /\ handle[w] = "alive"
        /\ UNCHANGED <<os, state, kind, rooted, joined, pc, arg>>
        /\ lth' = lth \/ lth' = [lth EXCEPT ![w] = FALSE]
        /\ detached' = detached \/ detached' = [detached EXCEPT ![w] = TRUE]
    BY <1>20 DEF Collect, Garbage
  <2>2. Busy'
    BY <2>1 DEF Busy, TypeOK
  <2>3. NoHandle'
    BY <2>1 DEF NoHandle, TypeOK
  <2> QED BY <2>2, <2>3
<1>21. ASSUME NEW w \in Workers, CollectState(w) PROVE Busy' /\ NoHandle'
  <2>1. Busy'
    BY <1>21 DEF CollectState, Busy, NoHandle, TypeOK, JoinSteps, DetachSteps, Goto, Enter, Leave
  <2>2. NoHandle'
    BY <1>21 DEF CollectState, NoHandle, TypeOK
  <2> QED BY <2>1, <2>2
<1>22. ASSUME UNCHANGED vars PROVE Busy' /\ NoHandle'
  <2>1. Busy'
    BY <1>22 DEF vars, Busy
  <2>2. NoHandle'
    BY <1>22 DEF vars, NoHandle
  <2> QED BY <2>1, <2>2
<1>23. TypeOK'
  BY ONLY TypeHolds, FInv, [Next]_vars DEF FInv
<1> QED
  BY <1>1, <1>2, <1>3, <1>4, <1>5, <1>6, <1>7, <1>8, <1>9, <1>10, <1>11, <1>12, <1>13, <1>14, <1>15, <1>16, <1>17, <1>18, <1>19, <1>20, <1>21, <1>22, <1>23
     DEF Next, Inside

\* The type invariant, in every interleaving of callers, threads and finaliser.
THEOREM LifeTypes == Spec => []TypeOK
<1>1. FInv => TypeOK
  BY DEF FInv
<1> QED BY <1>1, FlagsInit, FlagsNext, PTL DEF Spec

-----------------------------------------------------------------------------
(* Orderly workers.                                                        *)

\* Where the owner of w is in a method of w's handle.
Stage(w) == IF arg[Owner[w]] = w THEN pc[Owner[w]] ELSE "idle"

\* Nobody else is in one.
Owned == \A a \in Actors : arg[a] \in Orderly => a = Owner[arg[a]]

Settled(w) == joined[w] \/ detached[w]

\* The state of w is still anchored: no method that gives it up has come to the
\* release of the reference.
Holding(w) ==
  \/ Stage(w) \in {"join", "wait", "move", "unref", "detach", "release"}
  \/ Stage(w) = "idle" /\ ~Settled(w)

NotCreated(w) == state[w] = "none" =>
  /\ kind[w] = "create" /\ ~anchored[w]
  /\ reclaims[w] = 0 /\ unrefs[w] = 0
  /\ Stage(w) = "idle"

\* createx makes no handle and joins once.
WithoutHandle(w) == kind[w] = "createx" =>
  /\ handle[w] = "none" /\ os[w] # "none"
  /\ reclaims[w] = 1 /\ unrefs[w] = 0
  /\ Stage(w) \in {"idle", "waitx"}

\* What the fields of a handle are at each step of the method under way: the
\* native thread is reclaimed in the steps after the native call, the anchor
\* released in those after luaL_unref.
WithHandle(w) == kind[w] = "create" /\ state[w] # "none" =>
  /\ os[w] # "none" /\ handle[w] # "none" /\ Stage(w) # "waitx"
  /\ Stage(w) # "idle" => handle[w] = "alive"
  /\ handle[w] = "freed" => Settled(w)
  /\ joined[w] => os[w] = "done" /\ Stage(w) \in {"idle", "move", "unref", "clear"}
  /\ Stage(w) \in {"move", "unref", "clear"} => joined[w]
  /\ detached[w] => Stage(w) = "idle" /\ ~joined[w]
  /\ lth[w] <=> Holding(w) \/ Stage(w) \in {"clear", "forget"}
  /\ anchored[w] <=> Holding(w)
  /\ anchored[w] => state[w] = "alive"
  /\ reclaims[w] = IF Stage(w) \in {"join", "detach"} \/ (Stage(w) = "idle" /\ ~Settled(w)) THEN 0 ELSE 1
  /\ unrefs[w] = IF Holding(w) THEN 0 ELSE 1

Good(w) ==
  /\ rooted[w] => handle[w] = "alive"
  /\ NotCreated(w) /\ WithoutHandle(w) /\ WithHandle(w)

SInv == FInv /\ Owned /\ \A w \in Orderly : Good(w)


\* The fields of v stay as they are.
Same(v) ==
  /\ kind'[v] = kind[v] /\ os'[v] = os[v] /\ reclaims'[v] = reclaims[v]
  /\ state'[v] = state[v] /\ anchored'[v] = anchored[v] /\ unrefs'[v] = unrefs[v]
  /\ handle'[v] = handle[v] /\ rooted'[v] = rooted[v] /\ lth'[v] = lth[v]
  /\ joined'[v] = joined[v] /\ detached'[v] = detached[v]

LEMMA OrderlyInit == Init => SInv
<1> SUFFICES ASSUME Init PROVE SInv
  OBVIOUS
<1>1. FInv
  BY FlagsInit
<1>2. \A a \in Actors : pc[a] = "idle" /\ arg[a] = NULL
  BY DEF Init
<1>3. \A w \in Orderly : w # NULL /\ w \in Workers /\ Owner[w] \in Actors
  BY LifeAssumption DEF Actors
<1>4. \A w \in Orderly : Stage(w) = "idle"
  BY <1>2, <1>3 DEF Stage
<1> QED BY <1>1, <1>2, <1>3, <1>4, LifeAssumption DEF Init, SInv, Owned, Good, NotCreated, WithoutHandle, WithHandle

\* A worker none of whose fields change, and whose owner is where it was.
LEMMA GoodKept ==
  ASSUME NEW v \in Orderly, Good(v), Stage(v)' = Stage(v), Same(v)
  PROVE  Good(v)'
BY DEF Good, NotCreated, WithoutHandle, WithHandle, Holding, Settled, Same

\* An actor that enters, goes on in or leaves a method of w.
LEMMA Control ==
  ASSUME FInv, Owned, NEW a \in Actors, NEW w \in Workers, NEW s, NEW x \in {w, NULL},
         pc' = [pc EXCEPT ![a] = s], arg' = [arg EXCEPT ![a] = x], x = NULL <=> s = "idle",
         pc[a] = "idle" \/ arg[a] = w, w \in Orderly => a = Owner[w]
  PROVE  /\ Owned'
         /\ \A v \in Orderly : v # w => Stage(v)' = Stage(v)
         /\ w \in Orderly => Stage(w) = pc[a] /\ Stage(w)' = s
<1> USE LifeAssumption DEF FInv
<1>1. pc \in [Actors -> {"idle", "waitx"} \cup JoinSteps \cup DetachSteps] /\ arg \in [Actors -> Workers \cup {NULL}]
  BY DEF TypeOK
<1>2. \A v \in Orderly : Owner[v] \in Actors /\ v \in Workers /\ v # NULL
  BY DEF Actors
<1>3. pc[a] = "idle" => arg[a] = NULL
  BY DEF Busy
<1>4. Owned'
  BY <1>1, <1>2 DEF Owned
<1>5. ASSUME NEW v \in Orderly, v # w PROVE Stage(v)' = Stage(v)
  <2>1. CASE Owner[v] = a
    BY <1>1, <1>2, <1>3, <1>5, <2>1 DEF Stage
  <2>2. CASE Owner[v] # a
    BY <1>1, <1>2, <2>2 DEF Stage
  <2> QED BY <2>1, <2>2
<1>6. ASSUME w \in Orderly PROVE Stage(w) = pc[a] /\ Stage(w)' = s
  BY <1>1, <1>2, <1>3, <1>6 DEF Stage, Busy
<1> QED BY <1>4, <1>5, <1>6

\* A step outside of methods leaves everybody where they are.
LEMMA Outside ==
  ASSUME UNCHANGED <<pc, arg>>, Owned
  PROVE  Owned' /\ \A v \in Orderly : Stage(v)' = Stage(v)
BY DEF Owned, Stage

LEMMA OrderlyNext ==
  ASSUME SInv, [Next]_vars
  PROVE  SInv'
<1> DEFINE Goal == Owned' /\ \A v \in Orderly : Good(v)'
<1> USE LifeAssumption DEF SInv
<1>0. Callers \subseteq Actors /\ \A v \in Orderly : v \in Workers /\ Good(v)
  BY DEF Actors
<1>1. ASSUME NEW a \in Callers, NEW w \in Workers, Create(a, w) PROVE Goal
  <2>1. Owned' /\ \A v \in Orderly : Stage(v)' = Stage(v)
    BY <1>1, Outside DEF Create
  <2>2. ASSUME NEW v \in Orderly, v # w PROVE Good(v)'
    <3>1. Same(v)
      BY <1>0, <1>1, <2>2 DEF Create, Same, FInv, TypeOK, thread, record, counts
    <3> QED BY <1>0, <2>1, <2>2, <3>1, GoodKept
  <2>3. ASSUME w \in Orderly PROVE Good(w)'
    BY <1>0, <1>1, <2>1, <2>3 DEF Create, Good, NotCreated, WithoutHandle, WithHandle, Holding, Settled, FInv, TypeOK, NoHandle, thread, record, counts
  <2> QED BY <2>1, <2>2, <2>3
<1>2. ASSUME NEW a \in Callers, NEW w \in Workers, CreateFails(a, w) PROVE Goal
  <2>1. Owned' /\ \A v \in Orderly : Stage(v)' = Stage(v)
    BY <1>2, Outside DEF CreateFails
  <2>2. ASSUME NEW v \in Orderly, v # w PROVE Good(v)'
    <3>1. Same(v)
      BY <1>0, <1>2, <2>2 DEF CreateFails, Same, FInv, TypeOK, thread, record, counts
    <3> QED BY <1>0, <2>1, <2>2, <3>1, GoodKept
  <2>3. w \notin Orderly
    BY <1>2 DEF CreateFails
  <2> QED BY <2>1, <2>2, <2>3
<1>3. ASSUME NEW a \in Callers, NEW w \in Workers, CreateX(a, w) PROVE Goal
  <2>0. pc[a] = "idle" /\ a \in Actors /\ (w \in Orderly => a = Owner[w])
    BY <1>0, <1>3 DEF CreateX, MayCreate, Actors
  <2>1. Owned' /\ (\A v \in Orderly : v # w => Stage(v)' = Stage(v)) /\ (w \in Orderly => Stage(w) = "idle" /\ Stage(w)' = "waitx")
    <3>1. pc' = [pc EXCEPT ![a] = "waitx"] /\ arg' = [arg EXCEPT ![a] = w]
      BY <1>3 DEF CreateX, Goto, Enter
    <3> QED BY <2>0, <3>1, Control
  <2>2. ASSUME NEW v \in Orderly, v # w PROVE Good(v)'
    <3>1. Same(v)
      BY <1>0, <1>3, <2>2 DEF CreateX, Same, FInv, TypeOK, thread, record, counts, Reclaim
    <3> QED BY <1>0, <2>1, <2>2, <3>1, GoodKept
  <2>3. ASSUME w \in Orderly PROVE Good(w)'
    BY <1>0, <1>3, <2>0, <2>1, <2>3 DEF CreateX, Good, NotCreated, WithoutHandle, WithHandle, Holding, Settled, FInv, TypeOK, NoHandle, thread, record, counts, Reclaim, MayCreate
  <2> QED BY <2>1, <2>2, <2>3
<1>4. ASSUME NEW a \in Callers, NEW w \in Workers, CreateXFails(a, w) PROVE Goal
  <2>1. Owned' /\ \A v \in Orderly : Stage(v)' = Stage(v)
    BY <1>4, Outside DEF CreateXFails
  <2>2. ASSUME NEW v \in Orderly, v # w PROVE Good(v)'
    <3>1. Same(v)
      BY <1>0, <1>4, <2>2 DEF CreateXFails, Same, FInv, TypeOK, thread, record, counts
    <3> QED BY <1>0, <2>1, <2>2, <3>1, GoodKept
  <2>3. w \notin Orderly
    BY <1>4 DEF CreateXFails
  <2> QED BY <2>1, <2>2, <2>3
<1>5. ASSUME NEW a \in Actors, NEW w \in Workers, JoinCheck(a, w) PROVE Goal
  <2>0. pc[a] = "idle" /\ a \in Actors /\ (w \in Orderly => a = Owner[w])
    BY <1>0, <1>5 DEF JoinCheck, MayUse, MayCreate, Actors
  <2>1. Owned' /\ (\A v \in Orderly : v # w => Stage(v)' = Stage(v)) /\ (w \in Orderly => Stage(w) = "idle" /\ Stage(w)' = "join")
    <3>1. pc' = [pc EXCEPT ![a] = "join"] /\ arg' = [arg EXCEPT ![a] = w]
      BY <1>5 DEF JoinCheck, Goto, Enter
    <3> QED BY <2>0, <3>1, Control
  <2>2. ASSUME NEW v \in Orderly, v # w PROVE Good(v)'
    <3>1. Same(v)
      BY <1>0, <1>5, <2>2 DEF JoinCheck, Same, FInv, TypeOK, thread, record, counts
    <3> QED BY <1>0, <2>1, <2>2, <3>1, GoodKept
  <2>3. ASSUME w \in Orderly PROVE Good(w)'
    BY <1>0, <1>5, <2>0, <2>1, <2>3 DEF JoinCheck, Good, NotCreated, WithoutHandle, WithHandle, Holding, Settled, FInv, TypeOK, NoHandle, thread, record, counts, MayUse, MayCreate
  <2> QED BY <2>1, <2>2, <2>3
<1>6. ASSUME NEW a \in Actors, NEW w \in Workers, DetachCheck(a, w) PROVE Goal
  <2>0. pc[a] = "idle" /\ a \in Actors /\ (w \in Orderly => a = Owner[w])
    BY <1>0, <1>6 DEF DetachCheck, MayUse, MayCreate, Actors
  <2>1. Owned' /\ (\A v \in Orderly : v # w => Stage(v)' = Stage(v)) /\ (w \in Orderly => Stage(w) = "idle" /\ Stage(w)' = "detach")
    <3>1. pc' = [pc EXCEPT ![a] = "detach"] /\ arg' = [arg EXCEPT ![a] = w]
      BY <1>6 DEF DetachCheck, Goto, Enter
    <3> QED BY <2>0, <3>1, Control
  <2>2. ASSUME NEW v \in Orderly, v # w PROVE Good(v)'
    <3>1. Same(v)
      BY <1>0, <1>6, <2>2 DEF DetachCheck, Same, FInv, TypeOK, thread, record, counts
    <3> QED BY <1>0, <2>1, <2>2, <3>1, GoodKept
  <2>3. ASSUME w \in Orderly PROVE Good(w)'
    BY <1>0, <1>6, <2>0, <2>1, <2>3 DEF DetachCheck, Good, NotCreated, WithoutHandle, WithHandle, Holding, Settled, FInv, TypeOK, NoHandle, thread, record, counts, MayUse, MayCreate
  <2> QED BY <2>1, <2>2, <2>3
<1>7. ASSUME NEW a \in Actors, CreateXReturn(a) PROVE Goal
  <2>0. PICK w \in Workers : arg[a] = w /\ (w \in Orderly => a = Owner[w]) /\ pc[a] # "idle"
    BY <1>7 DEF CreateXReturn, FInv, Busy, Owned
  <2>1. Owned' /\ (\A v \in Orderly : v # w => Stage(v)' = Stage(v)) /\ (w \in Orderly => Stage(w) = pc[a] /\ Stage(w)' = "idle")
    <3>1. pc' = [pc EXCEPT ![a] = "idle"] /\ arg' = [arg EXCEPT ![a] = NULL] /\ arg[a] = w
      BY <1>7, <2>0 DEF CreateXReturn, Goto, Enter, Leave, FInv, TypeOK
    <3>2. w # NULL
      BY <2>0
    <3> QED BY <2>0, <3>1, <3>2, Control
  <2>2. ASSUME NEW v \in Orderly, v # w PROVE Good(v)'
    <3>1. Same(v)
      BY <1>0, <1>7, <2>0, <2>2 DEF CreateXReturn, Same, FInv, TypeOK, thread, record, counts
    <3> QED BY <1>0, <2>1, <2>2, <3>1, GoodKept
  <2>3. ASSUME w \in Orderly PROVE Good(w)'
    BY <1>0, <1>7, <2>0, <2>1, <2>3 DEF CreateXReturn, Good, NotCreated, WithoutHandle, WithHandle, Holding, Settled, FInv, TypeOK, NoHandle, thread, record, counts
  <2> QED BY <2>1, <2>2, <2>3
<1>8. ASSUME NEW a \in Actors, JoinCall(a) PROVE Goal
  <2>0. PICK w \in Workers : arg[a] = w /\ (w \in Orderly => a = Owner[w]) /\ pc[a] # "idle"
    BY <1>8 DEF JoinCall, FInv, Busy, Owned
  <2>1. Owned' /\ (\A v \in Orderly : v # w => Stage(v)' = Stage(v)) /\ (w \in Orderly => Stage(w) = pc[a] /\ Stage(w)' = "wait")
    <3>1. pc' = [pc EXCEPT ![a] = "wait"] /\ arg' = [arg EXCEPT ![a] = w] /\ arg[a] = w
      BY <1>8, <2>0 DEF JoinCall, Goto, Enter, Leave, FInv, TypeOK
    <3>2. w # NULL
      BY <2>0
    <3> QED BY <2>0, <3>1, <3>2, Control
  <2>2. ASSUME NEW v \in Orderly, v # w PROVE Good(v)'
    <3>1. Same(v)
      BY <1>0, <1>8, <2>0, <2>2 DEF JoinCall, Same, FInv, TypeOK, thread, record, counts, Reclaim
    <3> QED BY <1>0, <2>1, <2>2, <3>1, GoodKept
  <2>3. ASSUME w \in Orderly PROVE Good(w)'
    BY <1>0, <1>8, <2>0, <2>1, <2>3 DEF JoinCall, Good, NotCreated, WithoutHandle, WithHandle, Holding, Settled, FInv, TypeOK, NoHandle, thread, record, counts, Reclaim
  <2> QED BY <2>1, <2>2, <2>3
<1>9. ASSUME NEW a \in Actors, JoinSelf(a) PROVE Goal
  <2>0. PICK w \in Workers : arg[a] = w /\ (w \in Orderly => a = Owner[w]) /\ pc[a] # "idle"
    BY <1>9 DEF JoinSelf, FInv, Busy, Owned
  <2>1. Owned' /\ (\A v \in Orderly : v # w => Stage(v)' = Stage(v)) /\ (w \in Orderly => Stage(w) = pc[a] /\ Stage(w)' = "move")
    <3>1. pc' = [pc EXCEPT ![a] = "move"] /\ arg' = [arg EXCEPT ![a] = w] /\ arg[a] = w
      BY <1>9, <2>0 DEF JoinSelf, Goto, Enter, Leave, FInv, TypeOK
    <3>2. w # NULL
      BY <2>0
    <3> QED BY <2>0, <3>1, <3>2, Control
  <2>2. ASSUME NEW v \in Orderly, v # w PROVE Good(v)'
    <3>1. Same(v)
      BY <1>0, <1>9, <2>0, <2>2 DEF JoinSelf, Same, FInv, TypeOK, thread, record, counts
    <3> QED BY <1>0, <2>1, <2>2, <3>1, GoodKept
  <2>3. ASSUME w \in Orderly PROVE Good(w)'
    BY <1>0, <1>9, <2>0, <2>1, <2>3 DEF JoinSelf, Good, NotCreated, WithoutHandle, WithHandle, Holding, Settled, FInv, TypeOK, NoHandle, thread, record, counts
  <2> QED BY <2>1, <2>2, <2>3
<1>10. ASSUME NEW a \in Actors, JoinReturn(a) PROVE Goal
  <2>0. PICK w \in Workers : arg[a] = w /\ (w \in Orderly => a = Owner[w]) /\ pc[a] # "idle"
    BY <1>10 DEF JoinReturn, FInv, Busy, Owned
  <2>1. Owned' /\ (\A v \in Orderly : v # w => Stage(v)' = Stage(v)) /\ (w \in Orderly => Stage(w) = pc[a] /\ Stage(w)' = "move")
    <3>1. pc' = [pc EXCEPT ![a] = "move"] /\ arg' = [arg EXCEPT ![a] = w] /\ arg[a] = w
      BY <1>10, <2>0 DEF JoinReturn, Goto, Enter, Leave, FInv, TypeOK
    <3>2. w # NULL
      BY <2>0
    <3> QED BY <2>0, <3>1, <3>2, Control
  <2>2. ASSUME NEW v \in Orderly, v # w PROVE Good(v)'
    <3>1. Same(v)
      BY <1>0, <1>10, <2>0, <2>2 DEF JoinReturn, Same, FInv, TypeOK, thread, record, counts
    <3> QED BY <1>0, <2>1, <2>2, <3>1, GoodKept
  <2>3. ASSUME w \in Orderly PROVE Good(w)'
    BY <1>0, <1>10, <2>0, <2>1, <2>3 DEF JoinReturn, Good, NotCreated, WithoutHandle, WithHandle, Holding, Settled, FInv, TypeOK, NoHandle, thread, record, counts
  <2> QED BY <2>1, <2>2, <2>3
<1>11. ASSUME NEW a \in Actors, JoinMove(a) PROVE Goal
  <2>0. PICK w \in Workers : arg[a] = w /\ (w \in Orderly => a = Owner[w]) /\ pc[a] # "idle"
    BY <1>11 DEF JoinMove, FInv, Busy, Owned
  <2>1. Owned' /\ (\A v \in Orderly : v # w => Stage(v)' = Stage(v)) /\ (w \in Orderly => Stage(w) = pc[a] /\ Stage(w)' = "unref")
    <3>1. pc' = [pc EXCEPT ![a] = "unref"] /\ arg' = [arg EXCEPT ![a] = w] /\ arg[a] = w
      BY <1>11, <2>0 DEF JoinMove, Goto, Enter, Leave, FInv, TypeOK
    <3>2. w # NULL
      BY <2>0
    <3> QED BY <2>0, <3>1, <3>2, Control
  <2>2. ASSUME NEW v \in Orderly, v # w PROVE Good(v)'
    <3>1. Same(v)
      BY <1>0, <1>11, <2>0, <2>2 DEF JoinMove, Same, FInv, TypeOK, thread, record, counts
    <3> QED BY <1>0, <2>1, <2>2, <3>1, GoodKept
  <2>3. ASSUME w \in Orderly PROVE Good(w)'
    BY <1>0, <1>11, <2>0, <2>1, <2>3 DEF JoinMove, Good, NotCreated, WithoutHandle, WithHandle, Holding, Settled, FInv, TypeOK, NoHandle, thread, record, counts
  <2> QED BY <2>1, <2>2, <2>3
<1>12. ASSUME NEW a \in Actors, DetachCall(a) PROVE Goal
  <2>0. PICK w \in Workers : arg[a] = w /\ (w \in Orderly => a = Owner[w]) /\ pc[a] # "idle"
    BY <1>12 DEF DetachCall, FInv, Busy, Owned
  <2>1. Owned' /\ (\A v \in Orderly : v # w => Stage(v)' = Stage(v)) /\ (w \in Orderly => Stage(w) = pc[a] /\ Stage(w)' = "release")
    <3>1. pc' = [pc EXCEPT ![a] = "release"] /\ arg' = [arg EXCEPT ![a] = w] /\ arg[a] = w
      BY <1>12, <2>0 DEF DetachCall, Goto, Enter, Leave, FInv, TypeOK
    <3>2. w # NULL
      BY <2>0
    <3> QED BY <2>0, <3>1, <3>2, Control
  <2>2. ASSUME NEW v \in Orderly, v # w PROVE Good(v)'
    <3>1. Same(v)
      BY <1>0, <1>12, <2>0, <2>2 DEF DetachCall, Same, FInv, TypeOK, thread, record, counts, Reclaim
    <3> QED BY <1>0, <2>1, <2>2, <3>1, GoodKept
  <2>3. ASSUME w \in Orderly PROVE Good(w)'
    BY <1>0, <1>12, <2>0, <2>1, <2>3 DEF DetachCall, Good, NotCreated, WithoutHandle, WithHandle, Holding, Settled, FInv, TypeOK, NoHandle, thread, record, counts, Reclaim
  <2> QED BY <2>1, <2>2, <2>3
<1>13. ASSUME NEW a \in Actors, Unref(a) PROVE Goal
  <2>0. PICK w \in Workers : arg[a] = w /\ (w \in Orderly => a = Owner[w]) /\ pc[a] # "idle"
    BY <1>13 DEF Unref, FInv, Busy, Owned
  <2>1. Owned' /\ (\A v \in Orderly : v # w => Stage(v)' = Stage(v))
        /\ (w \in Orderly => Stage(w) = pc[a] /\ Stage(w)' = IF pc[a] = "unref" THEN "clear" ELSE "forget")
    <3>1. arg[a] = w /\ w # NULL
      BY <2>0
    <3>2. CASE pc[a] = "unref"
      <4>1. pc' = [pc EXCEPT ![a] = "clear"] /\ arg' = [arg EXCEPT ![a] = w]
        BY <1>13, <3>1, <3>2 DEF Unref, Goto, Enter, Leave, FInv, TypeOK
      <4> QED BY <2>0, <3>1, <3>2, <4>1, Control
    <3>3. CASE pc[a] = "release"
      <4>1. pc' = [pc EXCEPT ![a] = "forget"] /\ arg' = [arg EXCEPT ![a] = w]
        BY <1>13, <3>1, <3>3 DEF Unref, Goto, Enter, Leave, FInv, TypeOK
      <4> QED BY <2>0, <3>1, <3>3, <4>1, Control
    <3> QED BY <1>13, <3>2, <3>3 DEF Unref
  <2>2. ASSUME NEW v \in Orderly, v # w PROVE Good(v)'
    <3>1. Same(v)
      BY <1>0, <1>13, <2>0, <2>2 DEF Unref, Same, FInv, TypeOK, thread, record, counts, Unanchor
    <3> QED BY <1>0, <2>1, <2>2, <3>1, GoodKept
  <2>3. ASSUME w \in Orderly PROVE Good(w)'
    BY <1>0, <1>13, <2>0, <2>1, <2>3 DEF Unref, Good, NotCreated, WithoutHandle, WithHandle, Holding, Settled, FInv, TypeOK, NoHandle, thread, record, counts, Unanchor
  <2> QED BY <2>1, <2>2, <2>3
<1>14. ASSUME NEW a \in Actors, Clear(a) PROVE Goal
  <2>0. PICK w \in Workers : arg[a] = w /\ (w \in Orderly => a = Owner[w]) /\ pc[a] # "idle"
    BY <1>14 DEF Clear, FInv, Busy, Owned
  <2>1. Owned' /\ (\A v \in Orderly : v # w => Stage(v)' = Stage(v))
        /\ (w \in Orderly => Stage(w) = pc[a] /\ Stage(w)' = IF pc[a] = "clear" THEN "idle" ELSE "flag")
    <3>1. arg[a] = w /\ w # NULL
      BY <2>0
    <3>2. CASE pc[a] = "clear"
      <4>1. pc' = [pc EXCEPT ![a] = "idle"] /\ arg' = [arg EXCEPT ![a] = NULL]
        BY <1>14, <3>1, <3>2 DEF Clear, Goto, Enter, Leave, FInv, TypeOK
      <4> QED BY <2>0, <3>1, <3>2, <4>1, Control
    <3>3. CASE pc[a] = "forget"
      <4>1. pc' = [pc EXCEPT ![a] = "flag"] /\ arg' = [arg EXCEPT ![a] = w]
        BY <1>14, <3>1, <3>3 DEF Clear, Goto, Enter, Leave, FInv, TypeOK
      <4> QED BY <2>0, <3>1, <3>3, <4>1, Control
    <3> QED BY <1>14, <3>2, <3>3 DEF Clear
  <2>2. ASSUME NEW v \in Orderly, v # w PROVE Good(v)'
    <3>1. Same(v)
      BY <1>0, <1>14, <2>0, <2>2 DEF Clear, Same, FInv, TypeOK, thread, record, counts
    <3> QED BY <1>0, <2>1, <2>2, <3>1, GoodKept
  <2>3. ASSUME w \in Orderly PROVE Good(w)'
    BY <1>0, <1>14, <2>0, <2>1, <2>3 DEF Clear, Good, NotCreated, WithoutHandle, WithHandle, Holding, Settled, FInv, TypeOK, NoHandle, thread, record, counts
  <2> QED BY <2>1, <2>2, <2>3
<1>15. ASSUME NEW a \in Actors, Flag(a) PROVE Goal
  <2>0. PICK w \in Workers : arg[a] = w /\ (w \in Orderly => a = Owner[w]) /\ pc[a] # "idle"
    BY <1>15 DEF Flag, FInv, Busy, Owned
  <2>1. Owned' /\ (\A v \in Orderly : v # w => Stage(v)' = Stage(v)) /\ (w \in Orderly => Stage(w) = pc[a] /\ Stage(w)' = "idle")
    <3>1. pc' = [pc EXCEPT ![a] = "idle"] /\ arg' = [arg EXCEPT ![a] = NULL] /\ arg[a] = w
      BY <1>15, <2>0 DEF Flag, Goto, Enter, Leave, FInv, TypeOK
    <3>2. w # NULL
      BY <2>0
    <3> QED BY <2>0, <3>1, <3>2, Control
  <2>2. ASSUME NEW v \in Orderly, v # w PROVE Good(v)'
    <3>1. Same(v)
      BY <1>0, <1>15, <2>0, <2>2 DEF Flag, Same, FInv, TypeOK, thread, record, counts
    <3> QED BY <1>0, <2>1, <2>2, <3>1, GoodKept
  <2>3. ASSUME w \in Orderly PROVE Good(w)'
    BY <1>0, <1>15, <2>0, <2>1, <2>3 DEF Flag, Good, NotCreated, WithoutHandle, WithHandle, Holding, Settled, FInv, TypeOK, NoHandle, thread, record, counts
  <2> QED BY <2>1, <2>2, <2>3
<1>16. ASSUME NEW w \in Workers, Self(w) PROVE Goal
  <2>1. Owned' /\ \A v \in Orderly : Stage(v)' = Stage(v)
    BY <1>16, Outside DEF Self
  <2>2. ASSUME NEW v \in Orderly, v # w PROVE Good(v)'
    <3>1. Same(v)
      BY <1>0, <1>16, <2>2 DEF Self, Same, FInv, TypeOK, thread, record, counts
    <3> QED BY <1>0, <2>1, <2>2, <3>1, GoodKept
  <2>3. w \notin Orderly
    BY <1>16 DEF Self
  <2> QED BY <2>1, <2>2, <2>3
<1>17. ASSUME NEW w \in Workers, Finish(w) PROVE Goal
  <2>1. Owned' /\ \A v \in Orderly : Stage(v)' = Stage(v)
    BY <1>17, Outside DEF Finish
  <2>2. ASSUME NEW v \in Orderly, v # w PROVE Good(v)'
    <3>1. Same(v)
      BY <1>0, <1>17, <2>2 DEF Finish, Same, FInv, TypeOK, thread, record, counts
    <3> QED BY <1>0, <2>1, <2>2, <3>1, GoodKept
  <2>3. ASSUME w \in Orderly PROVE Good(w)'
    BY <1>0, <1>17, <2>1, <2>3 DEF Finish, Good, NotCreated, WithoutHandle, WithHandle, Holding, Settled, FInv, TypeOK, NoHandle, thread, record, counts
  <2> QED BY <2>1, <2>2, <2>3
<1>18. ASSUME NEW w \in Workers, Forget(w) PROVE Goal
  <2>1. Owned' /\ \A v \in Orderly : Stage(v)' = Stage(v)
    BY <1>18, Outside DEF Forget
  <2>2. ASSUME NEW v \in Orderly, v # w PROVE Good(v)'
    <3>1. Same(v)
      BY <1>0, <1>18, <2>2 DEF Forget, Same, FInv, TypeOK, thread, record, counts
    <3> QED BY <1>0, <2>1, <2>2, <3>1, GoodKept
  <2>3. ASSUME w \in Orderly PROVE Good(w)'
    BY <1>0, <1>18, <2>1, <2>3 DEF Forget, Good, NotCreated, WithoutHandle, WithHandle, Holding, Settled, FInv, TypeOK, NoHandle, thread, record, counts
  <2> QED BY <2>1, <2>2, <2>3
<1>19. ASSUME NEW w \in Workers, Remember(w) PROVE Goal
  <2>1. Owned' /\ \A v \in Orderly : Stage(v)' = Stage(v)
    BY <1>19, Outside DEF Remember
  <2>2. ASSUME NEW v \in Orderly, v # w PROVE Good(v)'
    <3>1. Same(v)
      BY <1>0, <1>19, <2>2 DEF Remember, Same, FInv, TypeOK, thread, record, counts
    <3> QED BY <1>0, <2>1, <2>2, <3>1, GoodKept
  <2>3. w \notin Orderly
    BY <1>19 DEF Remember
  <2> QED BY <2>1, <2>2, <2>3
<1>20. ASSUME NEW w \in Workers, Collect(w) PROVE Goal
  <2>1. Owned' /\ \A v \in Orderly : Stage(v)' = Stage(v)
    BY <1>20, Outside DEF Collect
  <2>2. ASSUME NEW v \in Orderly, v # w PROVE Good(v)'
    <3>1. /\ handle' = [handle EXCEPT ![w] = "freed"]
          /\ UNCHANGED <<os, state, kind, rooted, joined>>
      BY <1>20 DEF Collect
    <3>2. /\ reclaims'[v] = reclaims[v] /\ unrefs'[v] = unrefs[v]
          /\ anchored'[v] = anchored[v] /\ lth'[v] = lth[v] /\ detached'[v] = detached[v]
      <4>1. CASE lth[w] /\ ~joined[w] /\ ~detached[w]
        <5>1. /\ lth' = [lth EXCEPT ![w] = FALSE] /\ detached' = [detached EXCEPT ![w] = TRUE]
              /\ reclaims' = [reclaims EXCEPT ![w] = reclaims[w] + 1] /\ Unanchor(w)
          BY ONLY <1>20, <4>1 DEF Collect, Reclaim
        <5>2. unrefs'[v] = unrefs[v] /\ anchored'[v] = anchored[v]
          BY <2>2, <5>1 DEF Unanchor, FInv, TypeOK
        <5> QED BY <2>2, <5>1, <5>2 DEF FInv, TypeOK
      <4>2. CASE ~(lth[w] /\ ~joined[w] /\ ~detached[w])
        BY <1>20, <4>2 DEF Collect
      <4> QED BY <4>1, <4>2
    <3>3. Same(v)
      BY <2>2, <3>1, <3>2 DEF Same, FInv, TypeOK
    <3> QED BY <1>0, <2>1, <2>2, <3>3, GoodKept
  <2>3. ASSUME w \in Orderly PROVE Good(w)'
    <3>1. kind[w] = "create" /\ state[w] # "none" /\ handle[w] = "alive" /\ ~rooted[w]
      BY <1>0, <1>20, <2>3 DEF Collect, Garbage, Good, WithoutHandle, FInv, NoHandle, TypeOK
    <3>2. Stage(w) = "idle"
      <4>1. Owner[w] \in Actors /\ w # NULL
        BY <2>3 DEF Actors
      <4>2. Stage(w) \notin JoinSteps \cup DetachSteps
        BY <1>20, <4>1 DEF Collect, Garbage, Stage, JoinSteps, DetachSteps
      <4>3. Stage(w) \in {"idle", "waitx"} \cup JoinSteps \cup DetachSteps
        BY <4>1 DEF FInv, TypeOK, Stage
      <4> QED BY <1>0, <2>3, <3>1, <4>2, <4>3 DEF Good, WithHandle
    <3>3. CASE lth[w] /\ ~joined[w] /\ ~detached[w]
      <4>1. /\ handle' = [handle EXCEPT ![w] = "freed"] /\ reclaims' = [reclaims EXCEPT ![w] = reclaims[w] + 1]
            /\ unrefs' = [unrefs EXCEPT ![w] = unrefs[w] + 1] /\ anchored' = [anchored EXCEPT ![w] = FALSE]
            /\ lth' = [lth EXCEPT ![w] = FALSE] /\ detached' = [detached EXCEPT ![w] = TRUE]
            /\ UNCHANGED <<os, state, kind, rooted, joined>>
        BY <1>20, <3>1, <3>3 DEF Collect, Reclaim, Unanchor
      <4>2. /\ handle'[w] = "freed" /\ reclaims'[w] = reclaims[w] + 1 /\ unrefs'[w] = unrefs[w] + 1
            /\ anchored'[w] = FALSE /\ lth'[w] = FALSE /\ detached'[w] = TRUE
        BY <1>0, <2>3, <4>1 DEF FInv, TypeOK
      <4> QED BY <1>0, <2>1, <2>3, <3>1, <3>2, <3>3, <4>1, <4>2 DEF Good, NotCreated, WithoutHandle, WithHandle, Holding, Settled
    <3>4. CASE ~(lth[w] /\ ~joined[w] /\ ~detached[w])
      <4>1. /\ handle' = [handle EXCEPT ![w] = "freed"]
            /\ UNCHANGED <<reclaims, unrefs, anchored, lth, detached, os, state, kind, rooted, joined>>
        BY <1>20, <3>4 DEF Collect
      <4>2. handle'[w] = "freed"
        BY <1>0, <2>3, <4>1 DEF FInv, TypeOK
      <4> QED BY <1>0, <2>1, <2>3, <3>1, <3>2, <3>4, <4>1, <4>2 DEF Good, NotCreated, WithoutHandle, WithHandle, Holding, Settled
    <3> QED BY <3>3, <3>4
  <2> QED BY <2>1, <2>2, <2>3
<1>21. ASSUME NEW w \in Workers, CollectState(w) PROVE Goal
  <2>1. Owned' /\ \A v \in Orderly : Stage(v)' = Stage(v)
    BY <1>21, Outside DEF CollectState
  <2>2. ASSUME NEW v \in Orderly, v # w PROVE Good(v)'
    <3>1. Same(v)
      BY <1>0, <1>21, <2>2 DEF CollectState, Same, FInv, TypeOK, thread, record, counts
    <3> QED BY <1>0, <2>1, <2>2, <3>1, GoodKept
  <2>3. ASSUME w \in Orderly PROVE Good(w)'
    BY <1>0, <1>21, <2>1, <2>3 DEF CollectState, Good, NotCreated, WithoutHandle, WithHandle, Holding, Settled, FInv, TypeOK, NoHandle, thread, record, counts
  <2> QED BY <2>1, <2>2, <2>3
<1>22. ASSUME UNCHANGED vars PROVE Goal
  <2>1. Owned' /\ \A v \in Orderly : Stage(v)' = Stage(v)
    BY <1>22, Outside DEF vars
  <2>2. ASSUME NEW v \in Orderly PROVE Same(v)
    BY <1>22 DEF vars, thread, record, counts, Same
  <2>3. ASSUME NEW v \in Orderly PROVE Good(v)'
    BY <1>0, <2>1, <2>2, GoodKept
  <2> QED BY <2>1, <2>3
<1>23. FInv'
  BY ONLY FlagsNext, SInv, [Next]_vars DEF SInv
<1> HIDE DEF Goal
<1>24. Goal
  BY ONLY [Next]_vars, <1>1, <1>2, <1>3, <1>4, <1>5, <1>6, <1>7, <1>8, <1>9, <1>10, <1>11, <1>12, <1>13, <1>14, <1>15, <1>16, <1>17, <1>18, <1>19, <1>20, <1>21, <1>22
     DEF Next, Inside
<1> QED BY <1>23, <1>24 DEF Goal

-----------------------------------------------------------------------------
(* What follows from it.                                                   *)

\* Of an orderly worker, among any number of others that are not: the native
\* thread is joined or detached once, its anchor is released once, nothing
\* leaks, and a joined thread has ended.
THEOREM OrderlyLife == Spec => [](NativeOnce /\ AnchorOnce /\ NoLeak /\ JoinWaits)
<1>1. SInv => NativeOnce /\ AnchorOnce /\ NoLeak /\ JoinWaits
  <2> SUFFICES ASSUME SInv PROVE NativeOnce /\ AnchorOnce /\ NoLeak /\ JoinWaits
    OBVIOUS
  <2>1. \A w \in Orderly : w \in Workers /\ Good(w)
    BY LifeAssumption DEF SInv
  <2>2. \A w \in Workers : kind[w] \in {"create", "createx"} /\ (state[w] = "none" => os[w] = "none" /\ handle[w] = "none")
                           /\ (handle[w] = "none" => ~joined[w])
    BY DEF SInv, FInv, TypeOK, NoHandle
  <2> USE DEF Good, NotCreated, WithoutHandle, WithHandle
  <2>3. NativeOnce
    BY <2>1, <2>2 DEF NativeOnce
  <2>4. AnchorOnce
    BY <2>1, <2>2 DEF AnchorOnce
  <2>5. NoLeak
    BY <2>1, <2>2 DEF NoLeak, Holding
  <2>6. JoinWaits
    BY <2>1, <2>2 DEF JoinWaits
  <2> QED BY <2>3, <2>4, <2>5, <2>6
<1>2. SInv /\ [Next]_vars => SInv'
  BY OrderlyNext
<1> QED BY <1>1, <1>2, OrderlyInit, PTL DEF Spec

\* The registry reference that anchors the state of an orderly worker is
\* released once at most, by join, detach, createx, the finaliser or itself.
THEOREM AnchorReleasedOnce == Spec => []AnchorOnce
BY OrderlyLife, PTL

\* Once the handle of an orderly worker is collected its native thread has been
\* joined or detached and nothing anchors its state.
THEOREM NothingLeaks == Spec => []NoLeak
BY OrderlyLife, PTL

\* An orderly worker marked as joined has finished: thread_join waits.
THEOREM JoinedHasEnded == Spec => []JoinWaits
BY OrderlyLife, PTL

\* Between two method calls the flags of an orderly worker's handle, its state
\* pointer and the anchor in the registry agree, although each of them is
\* written in a step of its own.
THEOREM FlagsConsistent == Spec => []FlagsAgree
<1>1. SInv => FlagsAgree
  <2> SUFFICES ASSUME SInv, NEW w \in Orderly, handle[w] # "none", \A a \in Actors : arg[a] # w
               PROVE  ~(joined[w] /\ detached[w]) /\ (lth[w] <=> ~joined[w] /\ ~detached[w]) /\ (lth[w] <=> anchored[w])
    BY DEF FlagsAgree
  <2>1. w \in Workers /\ Owner[w] \in Actors /\ Good(w)
    BY LifeAssumption DEF SInv, Actors
  <2>2. Stage(w) = "idle"
    BY <2>1 DEF Stage
  <2>3. kind[w] = "create" /\ state[w] # "none"
    BY <2>1 DEF Good, WithoutHandle, SInv, FInv, NoHandle, TypeOK
  <2> QED BY <2>1, <2>2, <2>3 DEF Good, WithHandle, Holding, Settled
<1>2. SInv /\ [Next]_vars => SInv'
  BY OrderlyNext
<1> QED BY <1>1, <1>2, OrderlyInit, PTL DEF Spec

\* The state of an orderly worker is in its handle and alive when thread_join
\* moves the results from it, whatever the collector did while it waited.
THEOREM ResultsKept == Spec => []ResultsThere
<1>1. SInv => ResultsThere
  <2> SUFFICES ASSUME SInv, NEW a \in Actors, pc[a] = "move", arg[a] \in Orderly
               PROVE  lth[arg[a]] /\ state[arg[a]] = "alive"
    BY DEF ResultsThere
  <2>1. arg[a] \in Workers /\ Good(arg[a]) /\ handle[arg[a]] # "none"
    BY LifeAssumption DEF SInv, FInv, Busy, JoinSteps
  <2>2. Stage(arg[a]) = "move"
    BY DEF SInv, Owned, Stage
  <2>3. kind[arg[a]] = "create" /\ state[arg[a]] # "none"
    BY <2>1 DEF Good, WithoutHandle, SInv, FInv, NoHandle, TypeOK
  <2> QED BY <2>1, <2>2, <2>3 DEF Good, WithHandle, Holding
<1>2. SInv /\ [Next]_vars => SInv'
  BY OrderlyNext
<1> QED BY <1>1, <1>2, OrderlyInit, PTL DEF Spec
=============================================================================
