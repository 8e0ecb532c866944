---------------------------- MODULE TableProofs ----------------------------
(***************************************************************************)
(* Theorems about SharedTable, for any number of threads and values and    *)
(* any bound on the length: what the locks of a shared table guarantee,    *)
(* and that what its operations do to the list is atomic.                  *)
(***************************************************************************)
EXTENDS SharedTable, TLAPS, FiniteSetTheorems, SequenceTheorems

USE TableAssumption

-----------------------------------------------------------------------------
(* The locks.                                                              *)

LockType ==
  /\ gowner \in Threads \cup {NULL}
  /\ wid \in Threads \cup {NULL} /\ wrec \in Nat
  /\ readers \in [Threads -> Nat]
  /\ shared \in BOOLEAN /\ users \subseteq Threads
  /\ pc \in [Threads -> Reads \cup Writes \cup Lengths \cup {"idle", "ins_lock", "rem_lock", "unlock"}]
  /\ ph \in [Threads -> {"out", "state", "table"}]

\* Only a thread that has the table works on it, and it is shared before
\* anybody else has it.
Reach ==
  /\ \A t \in Threads : pc[t] # "idle" => t \in users
  /\ ~shared => users = {Creator}

Phases == \A t \in Threads :
  /\ ph[t] = "table" => pc[t] \in Reads \cup Writes
  /\ ph[t] = "state" => pc[t] \in Reads \cup Writes \cup Lengths
  /\ gowner = t <=> ph[t] # "out"

\* t keeps the table's lock across the accesses of an insert or remove.
Kept(t) == pc[t] \in Middle /\ shared

\* t is in an access that took the table's lock.
Inside(t) == ph[t] = "table" /\ Locks(t)

Owns(t) == Kept(t) \/ (Inside(t) /\ pc[t] \in Writes)

\* How often t has taken the lock and not released it.
Level(t) == (IF Kept(t) THEN 1 ELSE 0) + (IF Inside(t) THEN 1 ELSE 0)

Levels ==
  /\ writer = wid
  /\ \A t \in Threads : Owns(t) <=> wid = t
  /\ \A t \in Threads : wid = t => wrec = Level(t)
  /\ wid = NULL => wrec = 0
  /\ \A t \in Threads : readers[t] = IF Owns(t) THEN 0 ELSE Level(t)
  /\ wid # NULL => \A t \in Threads : readers[t] = 0

SInv == LockType /\ Reach /\ Phases /\ Levels

LEMMA InitSInv == Init => SInv
<1> SUFFICES ASSUME Init PROVE SInv
  OBVIOUS
<1>1. LockType /\ Reach /\ Phases
  BY DEF Init, LockType, Reach, Phases
<1>2. \A t \in Threads : ~Kept(t) /\ ~Inside(t)
  BY DEF Init, Kept, Inside, Middle
<1>3. \A t \in Threads : ~Owns(t) /\ Level(t) = 0
  BY <1>2 DEF Owns, Level
<1>4. Levels
  BY <1>3 DEF Init, Levels
<1>5. QED
  BY <1>1, <1>4 DEF SInv

\* Who owned the table's lock or was inside it still does, and is.
LEMMA SameLevels ==
  ASSUME Levels, UNCHANGED rw,
         \A t \in Threads : Kept(t)' <=> Kept(t),
         \A t \in Threads : Inside(t)' <=> Inside(t),
         \A t \in Threads : Inside(t) => pc'[t] = pc[t]
  PROVE  Levels'
<1>1. \A t \in Threads : (Owns(t)' <=> Owns(t)) /\ Level(t)' = Level(t)
  BY DEF Owns, Level
<1>2. QED
  BY <1>1 DEF Levels, rw

LEMMA LeaveS ==
  ASSUME SInv, NEW t \in Threads, ph[t] = "table",
         NEW q \in Middle \cup {"idle"}, q \in Middle <=> pc[t] \in Middle,
         Leave(t, q)
  PROVE  SInv'
<1>1. /\ pc' = [pc EXCEPT ![t] = q] /\ ph' = [ph EXCEPT ![t] = "out"] /\ gowner' = NULL
      /\ UNCHANGED <<shared, users>> /\ pc[t] \in Reads \cup Writes
  BY DEF Leave, SInv, Phases
<1>2. LockType /\ pc'[t] = q /\ ph'[t] = "out" /\ \A u \in Threads \ {t} : pc'[u] = pc[u] /\ ph'[u] = ph[u]
  BY <1>1 DEF SInv, LockType
<1>3. Reach'
  BY <1>1, <1>2 DEF SInv, Reach, Reads, Writes
<1>4. Phases'
  BY <1>1, <1>2 DEF SInv, Phases, LockType
<1>5. \A u \in Threads : Kept(u)' <=> Kept(u)
  BY <1>1, <1>2 DEF Kept
<1>6. ~Inside(t)' /\ \A u \in Threads \ {t} : Inside(u)' <=> Inside(u)
  BY <1>1, <1>2 DEF Inside, Locks
<1>7. pc' \in [Threads -> Reads \cup Writes \cup Lengths \cup {"idle", "ins_lock", "rem_lock", "unlock"}]
  BY <1>1, <1>2 DEF LockType, Middle, Reads, Writes, Lengths
<1>8. CASE ~Locks(t)
  <2>1. UNCHANGED rw /\ ~Inside(t)
    BY <1>8 DEF Leave, Inside
  <2>2. Levels'
    BY <1>2, <1>5, <1>6, <2>1, SameLevels DEF SInv, Inside
  <2>3. LockType'
    BY <1>1, <1>2, <1>7, <2>1 DEF LockType, rw
  <2>4. QED
    BY <1>3, <1>4, <2>2, <2>3 DEF SInv
<1>9. CASE Locks(t)
  <2>1. Unlock(t) /\ Inside(t)
    BY <1>9 DEF Leave, Inside
  <2>2. /\ \A u \in Threads \ {t} : (Owns(u)' <=> Owns(u)) /\ Level(u)' = Level(u)
        /\ Owns(t)' <=> Kept(t)
        /\ Level(t)' = IF Kept(t) THEN 1 ELSE 0
        /\ Level(t) = IF Kept(t) THEN 2 ELSE 1
    BY <1>2, <1>5, <1>6, <2>1 DEF Owns, Level
  <2>3. CASE wid = t
    <3>1. /\ wrec = (IF Kept(t) THEN 2 ELSE 1) /\ wrec' = wrec - 1 /\ readers' = readers
          /\ IF wrec = 1 THEN wid' = NULL /\ writer' = NULL ELSE UNCHANGED <<wid, writer>>
          /\ \A u \in Threads : readers[u] = 0
          /\ \A u \in Threads \ {t} : ~Owns(u)
      BY <2>1, <2>2, <2>3 DEF Unlock, SInv, Levels
    <3>2. LockType'
      BY <1>1, <1>2, <1>7, <3>1 DEF LockType
    <3>3. CASE Kept(t)
      <4>1. wid' = t /\ writer' = t /\ wrec' = 1
        BY <2>3, <3>1, <3>3 DEF SInv, Levels
      <4>2. QED
        BY <1>3, <1>4, <2>2, <2>3, <3>1, <3>2, <3>3, <4>1 DEF SInv, Levels
    <3>4. CASE ~Kept(t)
      <4>1. wid' = NULL /\ writer' = NULL /\ wrec' = 0
        BY <3>1, <3>4
      <4>2. QED
        BY <1>3, <1>4, <2>2, <2>3, <3>1, <3>2, <3>4, <4>1 DEF SInv, Levels
    <3>5. QED
      BY <3>3, <3>4
  <2>4. CASE wid # t
    <3>1. /\ UNCHANGED <<writer, wid, wrec>> /\ readers' = [readers EXCEPT ![t] = @ - 1]
          /\ ~Owns(t) /\ ~Kept(t)
      BY <2>1, <2>4 DEF Unlock, SInv, Levels, Owns
    <3>2. readers[t] = 1 /\ readers'[t] = 0 /\ \A u \in Threads \ {t} : readers'[u] = readers[u]
      BY <1>2, <2>2, <3>1 DEF SInv, Levels, LockType
    <3>3. LockType'
      BY <1>1, <1>2, <1>7, <3>1, <3>2 DEF LockType
    <3>4. wid = NULL
      BY <3>2 DEF SInv, Levels
    <3>5. QED
      BY <1>3, <1>4, <2>2, <2>4, <3>1, <3>2, <3>3, <3>4 DEF SInv, Levels
  <2>5. QED
    BY <2>3, <2>4
<1>10. QED
  BY <1>8, <1>9

\* A step outside the table's lock, of one thread that is and remains outside.
LEMMA QuietS ==
  ASSUME SInv, NEW t \in Threads, UNCHANGED <<rw, shared>>, users \subseteq users', users' \subseteq Threads,
         shared \/ users' = users,
         NEW q \in Reads \cup Writes \cup Lengths \cup {"idle", "ins_lock", "rem_lock", "unlock"},
         NEW f \in {"out", "state"}, gowner' \in Threads \cup {NULL},
         pc' = [pc EXCEPT ![t] = q], ph' = [ph EXCEPT ![t] = f],
         ph[t] # "table", shared => (q \in Middle <=> pc[t] \in Middle),
         q # "idle" => t \in users',
         f = "state" => q \in Reads \cup Writes \cup Lengths,
         \A u \in Threads \ {t} : gowner' = u <=> ph[u] # "out",
         gowner' = t <=> f # "out"
  PROVE  SInv'
<1>1. LockType /\ pc'[t] = q /\ ph'[t] = f /\ \A u \in Threads \ {t} : pc'[u] = pc[u] /\ ph'[u] = ph[u]
  BY DEF SInv, LockType
<1>2. LockType'
  BY <1>1 DEF LockType, rw
<1>3. Reach'
  BY <1>1 DEF SInv, Reach
<1>4. Phases'
  BY <1>1 DEF SInv, Phases
<1>5. \A u \in Threads : Kept(u)' <=> Kept(u)
  BY <1>1 DEF Kept
<1>6. \A u \in Threads : Inside(u)' <=> Inside(u)
  BY <1>1 DEF Inside, Locks
<1>7. Levels'
  BY <1>1, <1>5, <1>6, SameLevels DEF SInv, Inside
<1>8. QED
  BY <1>2, <1>3, <1>4, <1>7 DEF SInv

LEMMA StartS ==
  ASSUME SInv, NEW t \in Threads, NEW p \in {"get", "mark", "set", "ins_lock", "rem_lock"}, NEW v, Start(t, p, v)
  PROVE  SInv'
<1>1. /\ pc[t] = "idle" /\ t \in users /\ pc' = [pc EXCEPT ![t] = p]
      /\ UNCHANGED <<gowner, rw, shared, users, ph>>
  BY DEF Start
<1>2. ph[t] = "out" /\ LockType /\ gowner \in Threads \cup {NULL}
  BY <1>1 DEF SInv, LockType, Phases, Reads, Writes, Lengths
<1>3. ph' = [ph EXCEPT ![t] = "out"] /\ pc[t] \notin Middle /\ p \notin Middle
  BY <1>1, <1>2 DEF LockType, Middle
<1>4. p \in Reads \cup Writes \cup Lengths \cup {"idle", "ins_lock", "rem_lock", "unlock"}
  BY DEF Reads, Writes
<1>5. /\ gowner' = t <=> "out" # "out"
      /\ \A u \in Threads \ {t} : gowner' = u <=> ph[u] # "out"
  BY <1>1, <1>2 DEF SInv, Phases
<1>6. /\ users \subseteq Threads /\ users' = users /\ gowner' \in Threads \cup {NULL} /\ UNCHANGED <<rw, shared>>
      /\ ph[t] # "table" /\ t \in users'
  BY <1>1, <1>2 DEF LockType
<1>7. QED
  BY <1>1, <1>2, <1>3, <1>4, <1>5, <1>6, QuietS

LEMMA LengthS ==
  ASSUME SInv, NEW t \in Threads, ph[t] = "state", pc[t] \in Lengths,
         NEW q \in {"unlock", "ins_get", "ins_store", "rem_take"}, LeaveState(t, q)
  PROVE  SInv'
<1>1. /\ gowner' = NULL /\ ph' = [ph EXCEPT ![t] = "out"] /\ pc' = [pc EXCEPT ![t] = q]
      /\ UNCHANGED <<rw, shared, users>>
  BY DEF LeaveState
<1>2. q \in Middle /\ pc[t] \in Middle /\ q \in Reads \cup Writes \cup Lengths \cup {"idle", "ins_lock", "rem_lock", "unlock"}
  BY DEF Middle, Lengths, Reads, Writes
<1>3. t \in users /\ users \subseteq Threads
  BY DEF SInv, Reach, Lengths, LockType
<1>4. /\ gowner' = t <=> "out" # "out"
      /\ \A u \in Threads \ {t} : gowner' = u <=> ph[u] # "out"
  BY <1>1 DEF SInv, Phases
<1>5. /\ users \subseteq Threads /\ users' = users /\ gowner' \in Threads \cup {NULL} /\ UNCHANGED <<rw, shared>>
      /\ ph[t] # "table" /\ t \in users'
  BY <1>1, <1>3
<1>6. QED
  BY <1>1, <1>2, <1>4, <1>5, QuietS

LEMMA StepSInv == SInv /\ [Next]_vars => SInv'
<1> SUFFICES ASSUME SInv, [Next]_vars PROVE SInv'
  OBVIOUS
<1>0. SInv /\ LockType /\ Reach /\ Phases /\ Levels
  BY DEF SInv
<1>1. ASSUME NEW t \in Threads, EnterState(t) PROVE SInv'
  <2>1. /\ ph[t] = "out" /\ gowner = NULL /\ pc[t] \in Reads \cup Writes \cup Lengths
        /\ gowner' = t /\ ph' = [ph EXCEPT ![t] = "state"] /\ UNCHANGED <<rw, shared, users, pc>>
    BY <1>1 DEF EnterState
  <2>2. pc' = [pc EXCEPT ![t] = pc[t]] /\ pc[t] \in {"idle", "ins_lock", "rem_lock", "unlock"} \cup Reads \cup Writes \cup Lengths
    BY <1>0, <2>1 DEF LockType
  <2>3. \A u \in Threads \ {t} : ph[u] = "out"
    BY <1>0, <2>1 DEF Phases
  <2>4. pc[t] # "idle" => t \in users'
    BY <1>0, <2>1 DEF Reach
  <2>5. QED
    BY <1>0, <2>1, <2>2, <2>3, <2>4, QuietS DEF LockType
<1>2. ASSUME NEW t \in Threads, LockTable(t) PROVE SInv'
  <2>1. /\ ph[t] = "state" /\ pc[t] \in Reads \cup Writes /\ ph' = [ph EXCEPT ![t] = "table"]
        /\ UNCHANGED <<gowner, shared, users, pc>>
        /\ IF ~Locks(t) THEN UNCHANGED rw ELSE IF pc[t] \in Reads THEN RdLock(t) ELSE WrLock(t)
    BY <1>2 DEF LockTable
  <2>2. ph'[t] = "table" /\ \A u \in Threads \ {t} : ph'[u] = ph[u]
    BY <1>0, <2>1 DEF LockType
  <2>3. Reach' /\ Phases'
    BY <1>0, <2>1, <2>2 DEF Reach, Phases
  <2>4. ph' \in [Threads -> {"out", "state", "table"}]
    BY <1>0, <2>1 DEF LockType
  <2>5. \A u \in Threads : Kept(u)' <=> Kept(u)
    BY <2>1 DEF Kept
  <2>6. ~Inside(t) /\ (Inside(t)' <=> Locks(t)) /\ \A u \in Threads \ {t} : Inside(u)' <=> Inside(u)
    BY <2>1, <2>2 DEF Inside, Locks
  <2>7. CASE ~Locks(t)
    <3>1. UNCHANGED rw
      BY <2>1, <2>7
    <3>2. Levels'
      BY <1>0, <2>1, <2>5, <2>6, <2>7, <3>1, SameLevels
    <3>3. LockType'
      BY <1>0, <2>1, <2>4, <3>1 DEF LockType, rw
    <3>4. QED
      BY <2>3, <3>2, <3>3 DEF SInv
  <2>8. CASE Locks(t)
    <3>1. /\ \A u \in Threads \ {t} : (Owns(u)' <=> Owns(u)) /\ Level(u)' = Level(u)
          /\ Owns(t) <=> Kept(t)
          /\ Owns(t)' <=> Kept(t) \/ pc[t] \in Writes
          /\ Level(t) = IF Kept(t) THEN 1 ELSE 0
          /\ Level(t)' = IF Kept(t) THEN 2 ELSE 1
      BY <2>1, <2>5, <2>6, <2>8 DEF Owns, Level
    <3>2. CASE wid = t
      <4>1. Kept(t) /\ wrec = 1
        BY <1>0, <3>1, <3>2 DEF Levels
      <4>2. wrec' = 2 /\ UNCHANGED <<writer, readers, wid>>
        BY <2>1, <2>8, <3>2, <4>1 DEF RdLock, WrLock
      <4>3. LockType'
        BY <1>0, <2>1, <2>4, <4>2 DEF LockType
      <4>4. Levels'
        BY <1>0, <3>1, <3>2, <4>1, <4>2 DEF Levels
      <4>5. QED
        BY <2>3, <4>3, <4>4 DEF SInv
    <3>3. CASE wid # t /\ pc[t] \in Reads
      <4>1. writer = NULL /\ readers' = [readers EXCEPT ![t] = @ + 1] /\ UNCHANGED <<writer, wid, wrec>>
        BY <2>1, <2>8, <3>3 DEF RdLock
      <4>2. ~Kept(t) /\ pc[t] \notin Writes /\ wid = NULL
        BY <1>0, <3>1, <3>3, <4>1 DEF Levels, Reads, Writes
      <4>3. readers[t] = 0 /\ readers'[t] = 1 /\ \A u \in Threads \ {t} : readers'[u] = readers[u]
        BY <1>0, <3>1, <4>1, <4>2 DEF Levels, LockType
      <4>4. LockType'
        BY <1>0, <2>1, <2>4, <4>1, <4>3 DEF LockType
      <4>5. Levels'
        BY <1>0, <3>1, <3>3, <4>1, <4>2, <4>3 DEF Levels
      <4>6. QED
        BY <2>3, <4>4, <4>5 DEF SInv
    <3>4. CASE wid # t /\ pc[t] \notin Reads
      <4>1. /\ writer = NULL /\ \A u \in Threads : readers[u] = 0
            /\ writer' = t /\ wid' = t /\ wrec' = 1 /\ readers' = readers
        BY <2>1, <2>8, <3>4 DEF WrLock
      <4>2. ~Kept(t) /\ pc[t] \in Writes /\ \A u \in Threads : ~Owns(u)
        BY <1>0, <2>1, <3>1, <3>4, <4>1 DEF Levels
      <4>3. LockType'
        BY <1>0, <2>1, <2>4, <4>1 DEF LockType
      <4>4. Levels'
        BY <1>0, <3>1, <4>1, <4>2 DEF Levels
      <4>5. QED
        BY <2>3, <4>3, <4>4 DEF SInv
    <3>5. QED
      BY <3>2, <3>3, <3>4
  <2>9. QED
    BY <2>7, <2>8
<1>3. ASSUME NEW t \in Threads, Lock(t) PROVE SInv'
  <2>0. PICK q \in Lengths : q = (IF pc[t] = "ins_lock" THEN "ins_len" ELSE "rem_len")
    BY DEF Lengths
  <2>1. /\ pc[t] \in {"ins_lock", "rem_lock"} /\ pc' = [pc EXCEPT ![t] = q]
        /\ UNCHANGED <<gowner, shared, users, ph>>
        /\ IF shared THEN WrLock(t) ELSE UNCHANGED rw
    BY <1>3, <2>0 DEF Lock
  <2>2. ph[t] = "out" /\ q \in Middle /\ pc[t] \notin Middle /\ t \in users
    BY <1>0, <2>1 DEF Lengths, Middle, Phases, LockType, Reads, Writes, Reach
  <2>3. CASE ~shared
    <3>1. UNCHANGED rw /\ ph' = [ph EXCEPT ![t] = "out"]
      BY <1>0, <2>1, <2>2, <2>3 DEF LockType
    <3>2. \A u \in Threads \ {t} : gowner' = u <=> ph[u] # "out"
      BY <1>0, <2>1 DEF Phases
    <3>3. gowner' = t <=> "out" # "out"
      BY <1>0, <2>1, <2>2 DEF Phases
    <3>4. /\ users \subseteq Threads /\ users' = users /\ gowner' \in Threads \cup {NULL} /\ UNCHANGED <<rw, shared>>
          /\ ph[t] # "table" /\ ~shared
      BY <1>0, <2>1, <2>2, <2>3, <3>1 DEF LockType
    <3>5. QED
      BY <1>0, <2>1, <2>2, <3>1, <3>2, <3>3, <3>4, QuietS
  <2>4. CASE shared
    <3>1. pc'[t] = q /\ \A u \in Threads \ {t} : pc'[u] = pc[u]
      BY <1>0, <2>1 DEF LockType
    <3>2. Reach' /\ Phases'
      BY <1>0, <2>1, <2>2, <3>1 DEF Reach, Phases
    <3>3. /\ ~Kept(t) /\ Kept(t)' /\ ~Inside(t) /\ ~Inside(t)'
          /\ \A u \in Threads \ {t} : (Kept(u)' <=> Kept(u)) /\ (Inside(u)' <=> Inside(u))
      BY <2>1, <2>2, <2>4, <3>1 DEF Kept, Inside, Locks
    <3>4. /\ ~Owns(t) /\ Owns(t)' /\ Level(t) = 0 /\ Level(t)' = 1
          /\ \A u \in Threads \ {t} : (Owns(u)' <=> Owns(u)) /\ Level(u)' = Level(u)
      BY <3>1, <3>3 DEF Owns, Level
    <3>5. /\ writer = NULL /\ \A u \in Threads : readers[u] = 0
          /\ writer' = t /\ wid' = t /\ wrec' = 1 /\ readers' = readers
      BY <1>0, <2>1, <2>4, <3>4 DEF WrLock, Levels
    <3>6. LockType'
      BY <1>0, <2>1, <3>5 DEF LockType
    <3>7. Levels'
      BY <1>0, <3>4, <3>5 DEF Levels
    <3>8. QED
      BY <3>2, <3>6, <3>7 DEF SInv
  <2>5. QED
    BY <2>3, <2>4
<1>4. ASSUME NEW t \in Threads, UnlockTable(t) PROVE SInv'
  <2>1. /\ pc[t] = "unlock" /\ pc' = [pc EXCEPT ![t] = "idle"] /\ UNCHANGED <<gowner, shared, users, ph>>
        /\ IF shared THEN Unlock(t) ELSE UNCHANGED rw
    BY <1>4 DEF UnlockTable
  <2>2. ph[t] = "out" /\ pc[t] \in Middle /\ "idle" \notin Middle
    BY <1>0, <2>1 DEF Phases, LockType, Reads, Writes, Lengths, Middle
  <2>3. CASE ~shared
    <3>1. UNCHANGED rw /\ ph' = [ph EXCEPT ![t] = "out"]
      BY <1>0, <2>1, <2>2, <2>3 DEF LockType
    <3>2. \A u \in Threads \ {t} : gowner' = u <=> ph[u] # "out"
      BY <1>0, <2>1 DEF Phases
    <3>3. gowner' = t <=> "out" # "out"
      BY <1>0, <2>1, <2>2 DEF Phases
    <3>4. /\ users \subseteq Threads /\ users' = users /\ gowner' \in Threads \cup {NULL} /\ UNCHANGED <<rw, shared>>
          /\ ph[t] # "table" /\ ~shared
      BY <1>0, <2>1, <2>2, <2>3, <3>1 DEF LockType
    <3>5. QED
      BY <1>0, <2>1, <2>2, <3>1, <3>2, <3>3, <3>4, QuietS
  <2>4. CASE shared
    <3>1. pc'[t] = "idle" /\ \A u \in Threads \ {t} : pc'[u] = pc[u]
      BY <1>0, <2>1 DEF LockType
    <3>2. Reach' /\ Phases'
      BY <1>0, <2>1, <2>2, <3>1 DEF Reach, Phases
    <3>3. /\ Kept(t) /\ ~Kept(t)' /\ ~Inside(t) /\ ~Inside(t)'
          /\ \A u \in Threads \ {t} : (Kept(u)' <=> Kept(u)) /\ (Inside(u)' <=> Inside(u))
      BY <2>1, <2>2, <2>4, <3>1 DEF Kept, Inside, Locks
    <3>4. /\ Owns(t) /\ ~Owns(t)' /\ Level(t) = 1 /\ Level(t)' = 0
          /\ \A u \in Threads \ {t} : (Owns(u)' <=> Owns(u)) /\ Level(u)' = Level(u)
      BY <3>1, <3>3 DEF Owns, Level
    <3>5. wid = t /\ wrec = 1 /\ \A u \in Threads : readers[u] = 0
      BY <1>0, <3>4 DEF Levels
    <3>6. writer' = NULL /\ wid' = NULL /\ wrec' = 0 /\ readers' = readers
      BY <2>1, <2>4, <3>5 DEF Unlock
    <3>7. LockType'
      BY <1>0, <2>1, <3>6 DEF LockType
    <3>8. Levels'
      BY <1>0, <3>4, <3>5, <3>6 DEF Levels
    <3>9. QED
      BY <3>2, <3>7, <3>8 DEF SInv
  <2>5. QED
    BY <2>3, <2>4
<1>5. ASSUME NEW t \in Threads, Share(t) PROVE SInv'
  <2>1. /\ pc[t] = "idle" /\ t \in users /\ ~shared /\ shared' = TRUE
        /\ UNCHANGED <<gowner, rw, users, pc, ph>>
    BY <1>5 DEF Share
  <2>2. t = Creator /\ \A u \in Threads : pc[u] = "idle"
    BY <1>0, <2>1 DEF Reach
  <2>3. \A u \in Threads : ~Kept(u) /\ ~Kept(u)'
    BY <2>1, <2>2 DEF Kept, Middle
  <2>4. \A u \in Threads : ~Inside(u) /\ ~Inside(u)'
    BY <1>0, <2>1, <2>2 DEF Inside, Phases, Reads, Writes
  <2>5. Levels'
    BY <1>0, <2>1, <2>3, <2>4, SameLevels
  <2>6. LockType' /\ Reach' /\ Phases'
    BY <1>0, <2>1 DEF LockType, Reach, Phases, rw
  <2>7. QED
    BY <2>5, <2>6 DEF SInv
<1>6. ASSUME NEW t \in Threads, Give(t) PROVE SInv'
  <2>1. shared /\ users' = users \cup {t} /\ UNCHANGED <<gowner, rw, shared, pc, ph>>
    BY <1>6 DEF Give
  <2>2. LockType' /\ Reach' /\ Phases'
    BY <1>0, <2>1 DEF LockType, Reach, Phases, rw
  <2>3. Levels'
    BY <1>0, <2>1, SameLevels DEF Kept, Inside, Locks
  <2>4. QED
    BY <2>2, <2>3 DEF SInv
<1>7. ASSUME NEW t \in Threads, StartAccess(t) PROVE SInv'
  <2>1. PICK p, v : p \in {"get", "mark", "set"} /\ Start(t, p, v)
    BY <1>7 DEF StartAccess
  <2>2. QED
    BY <1>0, <2>1, StartS
<1>8. ASSUME NEW t \in Threads, InsertStart(t) PROVE SInv'
  <2>1. PICK p, v : p \in {"ins_lock"} /\ Start(t, p, v)
    BY <1>8 DEF InsertStart
  <2>2. QED
    BY <1>0, <2>1, StartS
<1>9. ASSUME NEW t \in Threads, RemoveStart(t) PROVE SInv'
  <2>1. PICK p, v : p \in {"rem_lock"} /\ Start(t, p, v)
    BY <1>9 DEF RemoveStart
  <2>2. QED
    BY <1>0, <2>1, StartS
<1>10. ASSUME NEW t \in Threads, Get(t) PROVE SInv'
  <2>1. PICK q \in {"idle"} : ph[t] = "table" /\ pc[t] = "get" /\ Leave(t, q)
    BY <1>10 DEF Get, RawGet
  <2>2. q \in Middle \cup {"idle"} /\ (q \in Middle <=> pc[t] \in Middle)
    BY <2>1 DEF Middle
  <2>3. QED
    BY <1>0, <2>1, <2>2, LeaveS
<1>11. ASSUME NEW t \in Threads, Set(t) PROVE SInv'
  <2>1. PICK q \in {"idle"} : ph[t] = "table" /\ pc[t] = "set" /\ Leave(t, q)
    BY <1>11 DEF Set, RawSet
  <2>2. q \in Middle \cup {"idle"} /\ (q \in Middle <=> pc[t] \in Middle)
    BY <2>1 DEF Middle
  <2>3. QED
    BY <1>0, <2>1, <2>2, LeaveS
<1>12. ASSUME NEW t \in Threads, Mark(t) PROVE SInv'
  <2>1. PICK q \in {"idle"} : ph[t] = "table" /\ pc[t] = "mark" /\ Leave(t, q)
    BY <1>12 DEF Mark
  <2>2. q \in Middle \cup {"idle"} /\ (q \in Middle <=> pc[t] \in Middle)
    BY <2>1 DEF Middle
  <2>3. QED
    BY <1>0, <2>1, <2>2, LeaveS
<1>13. ASSUME NEW t \in Threads, InsertGet(t) PROVE SInv'
  <2>1. PICK q \in {"ins_put"} : ph[t] = "table" /\ pc[t] = "ins_get" /\ Leave(t, q)
    BY <1>13 DEF InsertGet, RawGet
  <2>2. q \in Middle \cup {"idle"} /\ (q \in Middle <=> pc[t] \in Middle)
    BY <2>1 DEF Middle
  <2>3. QED
    BY <1>0, <2>1, <2>2, LeaveS
<1>14. ASSUME NEW t \in Threads, InsertPut(t) PROVE SInv'
  <2>1. PICK q \in {"ins_get", "ins_store"} : ph[t] = "table" /\ pc[t] = "ins_put" /\ Leave(t, q)
    BY <1>14 DEF InsertPut, RawSet
  <2>2. q \in Middle \cup {"idle"} /\ (q \in Middle <=> pc[t] \in Middle)
    BY <2>1 DEF Middle
  <2>3. QED
    BY <1>0, <2>1, <2>2, LeaveS
<1>15. ASSUME NEW t \in Threads, InsertStore(t) PROVE SInv'
  <2>1. PICK q \in {"unlock"} : ph[t] = "table" /\ pc[t] = "ins_store" /\ Leave(t, q)
    BY <1>15 DEF InsertStore, RawSet
  <2>2. q \in Middle \cup {"idle"} /\ (q \in Middle <=> pc[t] \in Middle)
    BY <2>1 DEF Middle
  <2>3. QED
    BY <1>0, <2>1, <2>2, LeaveS
<1>16. ASSUME NEW t \in Threads, RemoveTake(t) PROVE SInv'
  <2>1. PICK q \in {"rem_get", "rem_clear"} : ph[t] = "table" /\ pc[t] = "rem_take" /\ Leave(t, q)
    BY <1>16 DEF RemoveTake, RawGet
  <2>2. q \in Middle \cup {"idle"} /\ (q \in Middle <=> pc[t] \in Middle)
    BY <2>1 DEF Middle
  <2>3. QED
    BY <1>0, <2>1, <2>2, LeaveS
<1>17. ASSUME NEW t \in Threads, RemoveGet(t) PROVE SInv'
  <2>1. PICK q \in {"rem_put"} : ph[t] = "table" /\ pc[t] = "rem_get" /\ Leave(t, q)
    BY <1>17 DEF RemoveGet, RawGet
  <2>2. q \in Middle \cup {"idle"} /\ (q \in Middle <=> pc[t] \in Middle)
    BY <2>1 DEF Middle
  <2>3. QED
    BY <1>0, <2>1, <2>2, LeaveS
<1>18. ASSUME NEW t \in Threads, RemovePut(t) PROVE SInv'
  <2>1. PICK q \in {"rem_get", "rem_clear"} : ph[t] = "table" /\ pc[t] = "rem_put" /\ Leave(t, q)
    BY <1>18 DEF RemovePut, RawSet
  <2>2. q \in Middle \cup {"idle"} /\ (q \in Middle <=> pc[t] \in Middle)
    BY <2>1 DEF Middle
  <2>3. QED
    BY <1>0, <2>1, <2>2, LeaveS
<1>19. ASSUME NEW t \in Threads, RemoveClear(t) PROVE SInv'
  <2>1. PICK q \in {"unlock"} : ph[t] = "table" /\ pc[t] = "rem_clear" /\ Leave(t, q)
    BY <1>19 DEF RemoveClear, RawSet
  <2>2. q \in Middle \cup {"idle"} /\ (q \in Middle <=> pc[t] \in Middle)
    BY <2>1 DEF Middle
  <2>3. QED
    BY <1>0, <2>1, <2>2, LeaveS
<1>20. ASSUME NEW t \in Threads, InsertLength(t) PROVE SInv'
  <2>1. PICK q \in {"unlock", "ins_get", "ins_store"} : LeaveState(t, q)
    BY <1>20 DEF InsertLength
  <2>2. ph[t] = "state" /\ pc[t] = "ins_len" /\ pc[t] \in Lengths
    BY <1>20 DEF InsertLength, Lengths
  <2>3. QED
    BY <1>0, <2>1, <2>2, LengthS
<1>21. ASSUME NEW t \in Threads, RemoveLength(t) PROVE SInv'
  <2>1. PICK q \in {"unlock", "rem_take"} : LeaveState(t, q)
    BY <1>21 DEF RemoveLength
  <2>2. ph[t] = "state" /\ pc[t] = "rem_len" /\ pc[t] \in Lengths
    BY <1>21 DEF RemoveLength, Lengths
  <2>3. QED
    BY <1>0, <2>1, <2>2, LengthS
<1>22. CASE UNCHANGED vars
  <2>1. LockType' /\ Reach' /\ Phases'
    BY <1>0, <1>22 DEF vars, LockType, Reach, Phases, rw
  <2>2. Levels'
    BY <1>0, <1>22, SameLevels DEF vars, Kept, Inside, Locks
  <2>3. QED
    BY <2>1, <2>2 DEF SInv
<1>. QED
  BY <1>1, <1>2, <1>3, <1>4, <1>5, <1>6, <1>7, <1>8, <1>9, <1>10, <1>11, <1>12, <1>13, <1>14, <1>15, <1>16, <1>17, <1>18, <1>19, <1>20, <1>21, <1>22 DEF Next

LEMMA LocksInvariant == Spec => []SInv
BY InitSInv, StepSInv, PTL DEF Spec

\* The fields of a table's lock say who holds the native lock and how often,
\* whatever was nested in it, and a thread outside every operation holds
\* neither the table's lock nor the state lock.
THEOREM LocksHonest == Spec => []LocksBalanced
<1>1. SInv => LocksBalanced
  <2> SUFFICES ASSUME SInv PROVE LocksBalanced
    OBVIOUS
  <2>1. writer = wid /\ (wrec > 0 <=> writer # NULL)
    BY DEF SInv, Levels, LockType, Level, Owns, Kept, Inside
  <2>2. ASSUME NEW t \in Threads, pc[t] = "idle" PROVE gowner # t /\ writer # t /\ readers[t] = 0
    BY <2>2 DEF SInv, Levels, Level, Owns, Kept, Inside, Phases, Middle, Reads, Writes, Lengths, LockType
  <2>3. QED
    BY <2>1, <2>2 DEF SInv, Levels, LocksBalanced
<1>2. QED
  BY <1>1, LocksInvariant, PTL

\* Nobody reads, assigns or traverses a table while another thread is inside
\* an insert or a remove: neither a shared table, which they lock, nor one that
\* is not shared, which only its creator has.
THEOREM NoHalfDoneList == Spec => []WholeListSeen
<1>1. SInv => WholeListSeen
  <2> SUFFICES ASSUME SInv, NEW t \in Threads, ph[t] = "table", pc[t] \in {"get", "set", "mark"},
                      NEW u \in Threads, pc[u] \in Middle
               PROVE  FALSE
    BY DEF WholeListSeen, Visible
  <2>1. t # u
    BY DEF Middle
  <2>2. t \in users /\ u \in users
    BY DEF SInv, Reach, Middle
  <2>3. shared
    BY <2>1, <2>2 DEF SInv, Reach
  <2>4. wid = u /\ wid # NULL /\ wid # t
    BY <2>1, <2>3 DEF SInv, Levels, Owns, Kept
  <2>5. Inside(t) /\ ~Kept(t)
    BY <2>3 DEF Inside, Locks, Kept, Middle
  <2>6. ~Owns(t) /\ readers[t] = 1
    BY <2>4, <2>5 DEF SInv, Levels, Level
  <2>7. QED
    BY <2>4, <2>6 DEF SInv, Levels
<1>2. QED
  BY <1>1, LocksInvariant, PTL

-----------------------------------------------------------------------------
(* The list.                                                               *)

\* The array a is the list s, without holes.
Is(a, s) ==
  /\ s \in Seq(Values) /\ Len(s) <= N
  /\ \A k \in 1..N : a[k] = IF k <= Len(s) THEN s[k] ELSE NULL

\* An insert into b has moved up what was behind the j-th entry.
Shifted(a, b, j) ==
  /\ j \in 1..Len(b) + 1 /\ Len(b) + 1 <= N
  /\ \A k \in 1..N : a[k] =
       IF k <= j /\ k <= Len(b) THEN b[k]
       ELSE IF k \in j + 1 .. Len(b) + 1 THEN b[k - 1] ELSE NULL

\* A remove from b at position p has moved down what is up to the j-th entry.
Collapsed(a, b, p, j) ==
  /\ p \in 1..j /\ j \in 1..Len(b) /\ Len(b) <= N
  /\ \A k \in 1..N : a[k] =
       IF k < p THEN b[k]
       ELSE IF k < j THEN b[k + 1]
       ELSE IF k <= Len(b) THEN b[k] ELSE NULL

Inserted(b, p, v, s) ==
  /\ Len(s) = Len(b) + 1
  /\ \A k \in 1..Len(s) : s[k] = IF k < p THEN b[k] ELSE IF k = p THEN v ELSE b[k - 1]

Removed(b, p, s) ==
  /\ Len(s) = Len(b) - 1
  /\ \A k \in 1..Len(s) : s[k] = IF k < p THEN b[k] ELSE b[k + 1]

\* s is what one insert or remove, or a call that fails, makes of b.
Moved(b, s) ==
  \/ s = b
  \/ \E p \in 1..Len(b) + 1, v \in Values : Inserted(b, p, v, s)
  \/ \E p \in 1..Len(b) : Removed(b, p, s)


\* A list has one border, its length.
LEMMA OneBorder ==
  ASSUME NEW a, NEW s, Is(a, s)
  PROVE  \A n \in 0..N : (n = 0 \/ a[n] # NULL) /\ (n = N \/ a[n + 1] = NULL) <=> n = Len(s)
<1>1. s \in Seq(Values) /\ Len(s) \in Nat /\ Len(s) <= N /\ N \in Nat
  BY DEF Is
<1>2. \A k \in 1..N : a[k] # NULL <=> k <= Len(s)
  BY <1>1 DEF Is
<1> TAKE n \in 0..N
<1>3. CASE n = Len(s)
  <2>1. n = 0 \/ n \in 1..N
    OBVIOUS
  <2>2. n = N \/ (n + 1 \in 1..N /\ ~(n + 1 <= Len(s)))
    BY <1>1, <1>3
  <2>3. QED
    BY <1>2, <1>3, <2>1, <2>2
<1>4. CASE n < Len(s)
  <2>1. n # N /\ n + 1 \in 1..N /\ n + 1 <= Len(s)
    BY <1>1, <1>4
  <2>2. QED
    BY <1>2, <1>4, <2>1
<1>5. CASE n > Len(s)
  <2>1. n # 0 /\ n \in 1..N /\ ~(n <= Len(s))
    BY <1>1, <1>5
  <2>2. QED
    BY <1>1, <1>2, <1>5, <2>1
<1>6. QED
  BY <1>1, <1>3, <1>4, <1>5

LEMMA ListNow ==
  ASSUME NEW s, Is(tab, s)
  PROVE  Borders = {Len(s)} /\ Length = Len(s) /\ Elements = s
<1>1. s \in Seq(Values) /\ Len(s) \in 0..N
  BY DEF Is
<1>2. Borders = {Len(s)}
  BY <1>1, OneBorder DEF Borders
<1>3. Length = Len(s)
  BY <1>2 DEF Length
<1>4. \A k \in 1..Len(s) : tab[k] = s[k]
  BY <1>1 DEF Is
<1>5. Elements = s
  BY <1>1, <1>3, <1>4 DEF Elements
<1>6. QED
  BY <1>2, <1>3, <1>5

LEMMA ListNext ==
  ASSUME NEW s, Is(tab', s)
  PROVE  Length' = Len(s) /\ Elements' = s
<1>1. s \in Seq(Values) /\ Len(s) \in 0..N
  BY DEF Is
<1>2. Borders' = {Len(s)}
  BY <1>1, OneBorder DEF Borders
<1>3. Length' = Len(s)
  BY <1>2 DEF Length
<1>4. \A k \in 1..Len(s) : tab'[k] = s[k]
  BY <1>1 DEF Is
<1>5. Elements' = s
  BY <1>1, <1>3, <1>4 DEF Elements
<1>6. QED
  BY <1>3, <1>5

LEMMA ShiftStart ==
  ASSUME NEW a, NEW b \in Seq(Values), Is(a, b), Len(b) + 1 <= N
  PROVE  Shifted(a, b, Len(b) + 1)
BY DEF Is, Shifted

LEMMA ShiftPut ==
  ASSUME NEW a \in [1..N -> Values \cup {NULL}], NEW b \in Seq(Values), NEW j \in Nat, 1 < j, Shifted(a, b, j)
  PROVE  a[j - 1] = b[j - 1] /\ Shifted([a EXCEPT ![j] = b[j - 1]], b, j - 1)
<1>1. j \in 1..N /\ j - 1 \in 1..N /\ j - 1 <= Len(b) /\ j - 1 \in 1..Len(b) + 1 /\ Len(b) \in Nat
  BY DEF Shifted
<1>2. a[j - 1] = b[j - 1]
  BY <1>1 DEF Shifted
<1> DEFINE c == [a EXCEPT ![j] = b[j - 1]]
<1>3. \A k \in 1..N : c[k] = IF k = j THEN b[j - 1] ELSE a[k]
  OBVIOUS
<1> HIDE DEF c
<1>4. ASSUME NEW k \in 1..N
      PROVE  c[k] = IF k <= j - 1 /\ k <= Len(b) THEN b[k]
                    ELSE IF k \in (j - 1) + 1 .. Len(b) + 1 THEN b[k - 1] ELSE NULL
  <2>1. CASE k = j
    BY <1>1, <1>3, <2>1
  <2>2. CASE k # j
    <3>1. (k <= j - 1 <=> k <= j) /\ (k \in (j - 1) + 1 .. Len(b) + 1 <=> k \in j + 1 .. Len(b) + 1)
      BY <1>1, <2>2
    <3>2. QED
      BY <1>3, <2>2, <3>1 DEF Shifted
  <2>3. QED
    BY <2>1, <2>2
<1>5. Shifted(c, b, j - 1)
  BY <1>1, <1>4 DEF Shifted
<1>6. QED
  BY <1>2, <1>5 DEF c

LEMMA ShiftList ==
  ASSUME NEW a, NEW b \in Seq(Values), NEW j \in Nat, Shifted(a, b, j)
  PROVE  \E s : Is(a, s) /\ Len(s) = IF j = Len(b) + 1 THEN Len(b) ELSE Len(b) + 1
<1>1. j \in 1..Len(b) + 1 /\ Len(b) \in Nat /\ Len(b) + 1 <= N
  BY DEF Shifted
<1>2. CASE j = Len(b) + 1
  <2>1. Is(a, b)
    BY <1>1, <1>2 DEF Shifted, Is
  <2>2. QED
    BY <1>2, <2>1
<1>3. CASE j # Len(b) + 1
  <2>1. PICK m \in Nat : m = Len(b) + 1
    BY <1>1
  <2> DEFINE s == [k \in 1..m |-> IF k <= j THEN b[k] ELSE b[k - 1]]
  <2>2. \A k \in 1..m : (k <= j => k \in 1..Len(b)) /\ (~(k <= j) => k - 1 \in 1..Len(b))
    BY <1>1, <1>3, <2>1
  <2>3. s \in Seq(Values) /\ Len(s) = m
    BY <2>2
  <2>4. \A k \in 1..N : a[k] = IF k <= m THEN s[k] ELSE NULL
    BY <1>1, <1>3, <2>1, <2>2 DEF Shifted
  <2>5. Is(a, s)
    BY <1>1, <2>1, <2>3, <2>4 DEF Is
  <2>6. QED
    BY <1>3, <2>1, <2>3, <2>5
<1>4. QED
  BY <1>2, <1>3

LEMMA ShiftStore ==
  ASSUME NEW a \in [1..N -> Values \cup {NULL}], NEW b \in Seq(Values), NEW j \in Nat, Shifted(a, b, j),
         NEW v \in Values
  PROVE  \E s : Is([a EXCEPT ![j] = v], s) /\ Inserted(b, j, v, s)
<1>1. j \in 1..Len(b) + 1 /\ Len(b) \in Nat /\ Len(b) + 1 <= N /\ j \in 1..N
  BY DEF Shifted
<1>2. PICK m \in Nat : m = Len(b) + 1
  BY <1>1
<1> DEFINE s == [k \in 1..m |-> IF k < j THEN b[k] ELSE IF k = j THEN v ELSE b[k - 1]]
           c == [a EXCEPT ![j] = v]
<1>3. \A k \in 1..m : (k < j => k \in 1..Len(b)) /\ (j < k => k - 1 \in 1..Len(b))
  BY <1>1, <1>2
<1>4. s \in Seq(Values) /\ Len(s) = m
  BY <1>3
<1>5. \A k \in 1..N : c[k] = IF k = j THEN v ELSE a[k]
  OBVIOUS
<1> HIDE DEF c
<1>6. ASSUME NEW k \in 1..N PROVE c[k] = IF k <= m THEN s[k] ELSE NULL
  <2>1. CASE k = j
    BY <1>1, <1>2, <1>5, <2>1
  <2>2. CASE k < j
    <3>1. k <= j /\ k <= Len(b) /\ k <= m /\ k \in 1..m
      BY <1>1, <1>2, <2>2
    <3>2. QED
      BY <1>5, <2>2, <3>1 DEF Shifted
  <2>3. CASE j < k
    <3>1. k \in j + 1 .. Len(b) + 1 <=> k <= m
      BY <1>1, <1>2, <2>3
    <3>2. QED
      BY <1>1, <1>2, <1>5, <2>3, <3>1 DEF Shifted
  <2>4. QED
    BY <1>1, <2>1, <2>2, <2>3
<1>7. Is(c, s)
  BY <1>1, <1>2, <1>4, <1>6 DEF Is
<1>8. Inserted(b, j, v, s)
  BY <1>2, <1>4 DEF Inserted
<1>9. QED
  BY <1>7, <1>8 DEF c

LEMMA CollapseStart ==
  ASSUME NEW a, NEW b \in Seq(Values), Is(a, b), NEW j \in 1..Len(b)
  PROVE  Collapsed(a, b, j, j)
BY DEF Is, Collapsed

LEMMA CollapsePut ==
  ASSUME NEW a \in [1..N -> Values \cup {NULL}], NEW b \in Seq(Values), NEW p \in Nat, NEW j \in Nat,
         j < Len(b), Collapsed(a, b, p, j)
  PROVE  a[j + 1] = b[j + 1] /\ Collapsed([a EXCEPT ![j] = b[j + 1]], b, p, j + 1)
<1>1. p \in 1..j /\ j \in 1..Len(b) /\ Len(b) <= N /\ Len(b) \in Nat /\ j \in 1..N /\ j + 1 \in 1..N
  BY DEF Collapsed
<1>2. a[j + 1] = b[j + 1]
  BY <1>1 DEF Collapsed
<1> DEFINE c == [a EXCEPT ![j] = b[j + 1]]
<1>3. \A k \in 1..N : c[k] = IF k = j THEN b[j + 1] ELSE a[k]
  OBVIOUS
<1> HIDE DEF c
<1>4. ASSUME NEW k \in 1..N
      PROVE  c[k] = IF k < p THEN b[k] ELSE IF k < j + 1 THEN b[k + 1] ELSE IF k <= Len(b) THEN b[k] ELSE NULL
  <2>1. CASE k = j
    BY <1>1, <1>3, <2>1
  <2>2. CASE k # j
    <3>1. k < j + 1 <=> k < j
      BY <1>1, <2>2
    <3>2. QED
      BY <1>3, <2>2, <3>1 DEF Collapsed
  <2>3. QED
    BY <2>1, <2>2
<1>5. Collapsed(c, b, p, j + 1)
  BY <1>1, <1>4 DEF Collapsed
<1>6. QED
  BY <1>2, <1>5 DEF c

LEMMA CollapseList ==
  ASSUME NEW a, NEW b \in Seq(Values), NEW p \in Nat, NEW j \in Nat, Collapsed(a, b, p, j)
  PROVE  \E s : Is(a, s) /\ Len(s) = Len(b)
<1>1. PICK m \in Nat : m = Len(b)
  OBVIOUS
<1>2. p \in 1..j /\ j \in 1..m /\ m <= N
  BY <1>1 DEF Collapsed
<1> DEFINE s == [k \in 1..m |-> IF k < p THEN b[k] ELSE IF k < j THEN b[k + 1] ELSE b[k]]
<1>3. \A k \in 1..m : k \in 1..Len(b) /\ (k < j => k + 1 \in 1..Len(b))
  BY <1>1, <1>2
<1>4. s \in Seq(Values) /\ Len(s) = m
  BY <1>3
<1>5. \A k \in 1..N : a[k] = IF k <= m THEN s[k] ELSE NULL
  BY <1>1, <1>2 DEF Collapsed
<1>6. Is(a, s)
  BY <1>2, <1>4, <1>5 DEF Is
<1>7. QED
  BY <1>1, <1>4, <1>6

LEMMA CollapseClear ==
  ASSUME NEW a \in [1..N -> Values \cup {NULL}], NEW b \in Seq(Values), NEW p \in Nat,
         NEW j \in Nat, j = Len(b), Collapsed(a, b, p, j)
  PROVE  \E s : Is([a EXCEPT ![j] = NULL], s) /\ Removed(b, p, s)
<1>1. p \in 1..j /\ j \in 1..N
  BY DEF Collapsed
<1>2. PICK m \in Nat : m = j - 1
  BY <1>1
<1> DEFINE s == [k \in 1..m |-> IF k < p THEN b[k] ELSE b[k + 1]]
           c == [a EXCEPT ![j] = NULL]
<1>3. \A k \in 1..m : k \in 1..Len(b) /\ k + 1 \in 1..Len(b)
  BY <1>1, <1>2
<1>4. s \in Seq(Values) /\ Len(s) = m
  BY <1>3
<1>5. \A k \in 1..N : c[k] = IF k = j THEN NULL ELSE a[k]
  OBVIOUS
<1> HIDE DEF c
<1>6. ASSUME NEW k \in 1..N PROVE c[k] = IF k <= m THEN s[k] ELSE NULL
  <2>1. CASE k = j
    BY <1>1, <1>2, <1>5, <2>1
  <2>2. CASE k < j
    BY <1>1, <1>2, <1>5, <2>2 DEF Collapsed
  <2>3. CASE j < k
    BY <1>1, <1>2, <1>5, <2>3 DEF Collapsed
  <2>4. QED
    BY <1>1, <2>1, <2>2, <2>3
<1>7. Is(c, s)
  BY <1>1, <1>2, <1>4, <1>6 DEF Is
<1>8. Removed(b, p, s)
  BY <1>2, <1>4 DEF Removed
<1>9. QED
  BY <1>7, <1>8 DEF c

LEMMA ClearPast ==
  ASSUME NEW a \in [1..N -> Values \cup {NULL}], NEW b \in Seq(Values), Is(a, b), NEW j \in Nat, j = 0 \/ j = Len(b) + 1
  PROVE  Is(IF j \in 1..N THEN [a EXCEPT ![j] = NULL] ELSE a, b)
<1>1. CASE j \in 1..N
  <2>1. j = Len(b) + 1 /\ a[j] = NULL
    BY <1>1 DEF Is
  <2>2. [a EXCEPT ![j] = NULL] = a
    BY <2>1
  <2>3. QED
    BY <1>1, <2>2
<1>2. CASE j \notin 1..N
  BY <1>2
<1>3. QED
  BY <1>1, <1>2

LEMMA SetFirst ==
  ASSUME NEW a \in [1..N -> Values \cup {NULL}], NEW s, Is(a, s), NEW v \in Values, 1 <= N
  PROVE  Is([a EXCEPT ![1] = v], IF s = <<>> THEN <<v>> ELSE [s EXCEPT ![1] = v])
<1>1. s \in Seq(Values) /\ Len(s) \in Nat /\ Len(s) <= N /\ 1 \in 1..N
  BY DEF Is
<1> DEFINE c == [a EXCEPT ![1] = v]
<1>2. \A k \in 1..N : c[k] = IF k = 1 THEN v ELSE a[k]
  OBVIOUS
<1> HIDE DEF c
<1>3. CASE s = <<>>
  <2>1. <<v>> \in Seq(Values) /\ Len(<<v>>) = 1 /\ <<v>>[1] = v /\ Len(s) = 0
    BY <1>3
  <2>2. \A k \in 1..N : a[k] = NULL
    BY <2>1 DEF Is
  <2>3. Is(c, <<v>>)
    BY <1>1, <1>2, <2>1, <2>2 DEF Is
  <2>4. QED
    BY <1>3, <2>3 DEF c
<1>4. CASE s # <<>>
  <2>1. 1 \in 1..Len(s)
    BY <1>1, <1>4
  <2> DEFINE r == [s EXCEPT ![1] = v]
  <2>2. r \in Seq(Values) /\ Len(r) = Len(s) /\ \A k \in 1..Len(s) : r[k] = IF k = 1 THEN v ELSE s[k]
    BY <1>1, <2>1
  <2> HIDE DEF r
  <2>3. Is(c, r)
    BY <1>1, <1>2, <2>1, <2>2 DEF Is
  <2>4. QED
    BY <1>4, <2>3 DEF c, r
<1>5. QED
  BY <1>3, <1>4

-----------------------------------------------------------------------------
(* One thread at a time.                                                   *)

LEMMA OneMiddle ==
  ASSUME SInv, NEW t \in Threads, NEW u \in Threads, pc[t] \in Middle, pc[u] \in Middle
  PROVE  t = u
<1>1. t \in users /\ u \in users
  BY DEF SInv, Reach, Middle
<1>2. CASE ~shared
  BY <1>1, <1>2 DEF SInv, Reach
<1>3. CASE shared
  BY <1>3 DEF SInv, Levels, Owns, Kept
<1>4. QED
  BY <1>2, <1>3 DEF SInv, LockType

\* Who writes to the table is alone with it.
LEMMA WriterAlone ==
  ASSUME SInv, NEW t \in Threads, NEW u \in Threads, ph[t] = "table", pc[t] \in Writes, pc[u] \in Middle
  PROVE  t = u
<1>1. t \in users /\ u \in users
  BY DEF SInv, Reach, Middle, Writes
<1>2. CASE ~shared
  BY <1>1, <1>2 DEF SInv, Reach
<1>3. CASE shared
  BY <1>3 DEF SInv, Levels, Owns, Kept, Inside, Locks
<1>4. QED
  BY <1>2, <1>3 DEF SInv, LockType

LEMMA LockAlone ==
  ASSUME SInv, NEW t \in Threads, NEW u \in Threads, Lock(t)
  PROVE  pc[u] \notin Middle
<1>1. pc[t] \in {"ins_lock", "rem_lock"} /\ (shared => WrLock(t))
  BY DEF Lock
<1>2. ~Owns(t)
  BY <1>1 DEF Owns, Kept, Middle, Writes
<1>3. ASSUME pc[u] \in Middle PROVE FALSE
  <2>1. t \in users /\ u \in users /\ t # u
    BY <1>1, <1>3 DEF SInv, Reach, Middle
  <2>2. CASE ~shared
    BY <2>1, <2>2 DEF SInv, Reach
  <2>3. CASE shared
    <3>1. wid = u /\ writer = u /\ wid # t
      BY <1>3, <2>1, <2>3 DEF SInv, Levels, Owns, Kept
    <3>2. QED
      BY <1>1, <2>3, <3>1 DEF WrLock
  <2>4. QED
    BY <2>2, <2>3
<1>4. QED
  BY <1>3

-----------------------------------------------------------------------------
(* The invariant of an insert or remove under way.                         *)

DataType ==
  /\ tab \in [1..N -> Values \cup {NULL}]
  /\ before \in Seq(Values)
  /\ pos \in [Threads -> 0..N] /\ i \in [Threads -> 0..N]
  /\ val \in [Threads -> Values \cup {NULL}] /\ top \in [Threads -> Values \cup {NULL}]

\* How far the insert or remove of t has got.
Inserting(t) ==
  /\ pc[t] = "ins_len" => Is(tab, before)
  /\ pc[t] \in {"ins_get", "ins_put"} => pos[t] \in 1 .. i[t] - 1
  /\ pc[t] = "ins_store" => pos[t] = i[t]
  /\ pc[t] \in {"ins_get", "ins_put", "ins_store"} => Shifted(tab, before, i[t])
  /\ pc[t] = "ins_put" => top[t] = before[i[t] - 1]

Removing(t) ==
  /\ pc[t] \in {"rem_len", "rem_take"} => Is(tab, before)
  /\ pc[t] \in {"rem_take", "rem_get", "rem_put", "rem_clear"} => i[t] = Len(before)
  /\ pc[t] = "rem_take" => pos[t] <= Len(before) + 1 /\ (pos[t] = 0 => before = <<>>)
  /\ pc[t] \in {"rem_get", "rem_put"} => pos[t] < i[t] /\ \E p \in 1..pos[t] : Collapsed(tab, before, p, pos[t])
  /\ pc[t] = "rem_put" => top[t] = before[pos[t] + 1]
  /\ pc[t] = "rem_clear" =>
       \/ pos[t] = Len(before) /\ \E p \in 1..pos[t] : Collapsed(tab, before, p, pos[t])
       \/ (pos[t] = 0 \/ pos[t] = Len(before) + 1) /\ Is(tab, before)

Stage(t) ==
  /\ Inserting(t) /\ Removing(t)
  /\ pc[t] = "unlock" => Moved(before, Elements)

\* The operation of t has yet to add the entry there was room for.
Pends(t) ==
  /\ pc[t] \in Adding
  /\ pc[t] \in {"ins_get", "ins_put", "ins_store"} => ~(i[t] <= Len(before))

Pending == {t \in Threads : Pends(t)}

Fits == Length + Cardinality(Pending) <= N

DInv ==
  /\ DataType
  /\ Is(tab, Elements)
  /\ \A t \in Threads : Stage(t)
  /\ \A t \in Threads : pc[t] \in Adding => val[t] \in Values
  /\ Fits

\* Only the operation of t goes on.
Only(t) == \A u \in Threads \ {t} :
  /\ pc'[u] = pc[u] /\ pos'[u] = pos[u] /\ i'[u] = i[u]
  /\ val'[u] = val[u] /\ top'[u] = top[u]

\* The list is n long after a step of t, and there was room for it.
Fit(t, n) ==
  \/ n <= Length /\ (Pends(t)' => Pends(t))
  \/ n <= Length + 1 /\ Pends(t) /\ ~Pends(t)'
  \/ n <= Length /\ Room

LEMMA StillFits ==
  ASSUME NEW t \in Threads, Fits, Length \in Nat, NEW n \in Nat, Length' = n, Fit(t, n),
         \A u \in Threads \ {t} : pc'[u] = pc[u] /\ (Pends(u)' <=> Pends(u))
  PROVE  Fits'
<1>1. PICK S : S = Pending
  OBVIOUS
<1>2. PICK T : T = Pending'
  OBVIOUS
<1>3. S \subseteq Threads /\ T \subseteq Threads
  BY <1>1, <1>2 DEF Pending
<1>4. IsFiniteSet(S) /\ IsFiniteSet(T) /\ IsFiniteSet(T \ {t}) /\ N \in Nat
  BY <1>3, FS_Subset
<1>5. Cardinality(S) \in Nat /\ Cardinality(T) \in Nat /\ Cardinality(T \ {t}) \in Nat
  BY <1>4, FS_CardinalityType
<1>6. S \ {t} = T \ {t} /\ (t \in S <=> Pends(t)) /\ (t \in T <=> Pends(t)')
  BY <1>1, <1>2 DEF Pending
<1>7. Length + Cardinality(S) <= N
  BY <1>1 DEF Fits
<1>8. Cardinality(T) <= Cardinality(T \ {t}) + 1
  BY <1>4, <1>5, FS_RemoveElement
<1>9. CASE n <= Length /\ (Pends(t)' => Pends(t))
  <2>1. T \subseteq S
    BY <1>6, <1>9
  <2>2. Cardinality(T) <= Cardinality(S)
    BY <1>4, <2>1, FS_Subset
  <2>3. n + Cardinality(T) <= N
    BY ONLY <1>4, <1>5, <1>7, <1>9, <2>2, n \in Nat, Length \in Nat
  <2>4. QED
    BY <1>2, <2>3 DEF Fits
<1>10. CASE n <= Length + 1 /\ Pends(t) /\ ~Pends(t)'
  <2>1. T = S \ {t} /\ t \in S
    BY <1>6, <1>10
  <2>2. Cardinality(T) = Cardinality(S) - 1
    BY <1>4, <2>1, FS_RemoveElement
  <2>3. n + Cardinality(T) <= N
    BY ONLY <1>4, <1>5, <1>7, <1>10, <2>2, n \in Nat, Length \in Nat
  <2>4. QED
    BY <1>2, <2>3 DEF Fits
<1>11. CASE n <= Length /\ Room
  <2>1. PICK R : R = {u \in Threads : pc[u] \in Adding}
    OBVIOUS
  <2>2. IsFiniteSet(R) /\ Length + Cardinality(R) < N
    BY <1>11, <2>1, FS_Subset DEF Room
  <2>3. T \ {t} \subseteq R
    BY <1>2, <2>1 DEF Pending, Pends
  <2>4. Cardinality(T \ {t}) <= Cardinality(R) /\ Cardinality(R) \in Nat
    BY <2>2, <2>3, FS_Subset, FS_CardinalityType
  <2>5. n + Cardinality(T) <= N
    BY ONLY <1>4, <1>5, <1>8, <1>11, <2>2, <2>4, n \in Nat, Length \in Nat
  <2>6. QED
    BY <1>2, <2>5 DEF Fits
<1>12. QED
  BY <1>9, <1>10, <1>11 DEF Fit

\* A step of t that leaves the table alone, or is alone with it.
LEMMA StepD ==
  ASSUME DInv, NEW t \in Threads, DataType', Only(t), NEW s, Is(tab', s), Stage(t)',
         pc'[t] \in Adding => val'[t] \in Values,
         Fit(t, Len(s)),
         (tab' = tab /\ before' = before) \/ \A u \in Threads \ {t} : pc[u] \notin Middle
  PROVE  DInv'
<1>1. Length' = Len(s) /\ Elements' = s
  BY ListNext
<1>2. Length \in Nat /\ Len(s) \in Nat
  <2>1. Length = Len(Elements) /\ Elements \in Seq(Values) /\ s \in Seq(Values)
    BY ListNow DEF DInv, Is
  <2>2. QED
    BY <2>1
<1>3. ASSUME NEW u \in Threads \ {t} PROVE Stage(u)' /\ (Pends(u)' <=> Pends(u))
  <2>1. pc'[u] = pc[u] /\ pos'[u] = pos[u] /\ i'[u] = i[u] /\ val'[u] = val[u] /\ top'[u] = top[u]
    BY DEF Only
  <2>2. CASE pc[u] \notin Middle
    BY <2>1, <2>2 DEF Stage, Inserting, Removing, Pends, Middle
  <2>3. CASE tab' = tab /\ before' = before
    <3>1. Elements' = Elements
      BY <1>1, <2>3, ListNow
    <3>2. Stage(u)
      BY DEF DInv
    <3>3. Inserting(u)'
      BY <2>1, <2>3, <3>2 DEF Stage, Inserting
    <3>4. Removing(u)'
      BY <2>1, <2>3, <3>2 DEF Stage, Removing
    <3>5. pc'[u] = "unlock" => Moved(before, Elements)'
      BY <2>1, <2>3, <3>1, <3>2 DEF Stage, Moved
    <3>6. QED
      BY <2>1, <2>3, <3>3, <3>4, <3>5 DEF Stage, Pends
  <2>4. QED
    BY <2>2, <2>3
<1>4. \A u \in Threads : Stage(u)'
  BY <1>3
<1>5. \A u \in Threads : pc'[u] \in Adding => val'[u] \in Values
  BY DEF DInv, Only
<1>6. \A u \in Threads \ {t} : pc'[u] = pc[u] /\ (Pends(u)' <=> Pends(u))
  BY <1>3 DEF Only
<1>7. Fits
  BY DEF DInv
<1>8. Fits'
  BY <1>1, <1>2, <1>6, <1>7, StillFits
<1>9. Is(tab', Elements')
  BY <1>1
<1>10. QED
  BY <1>4, <1>5, <1>8, <1>9 DEF DInv

\* A step of t that leaves the table alone.
LEMMA KeepD ==
  ASSUME DInv, NEW t \in Threads, DataType', Only(t), tab' = tab, before' = before, Stage(t)',
         pc'[t] \in Adding => val'[t] \in Values,
         (Pends(t)' => Pends(t)) \/ Room
  PROVE  DInv'
<1>1. Is(tab', Elements) /\ Len(Elements) = Length /\ Elements \in Seq(Values)
  BY ListNow DEF DInv, Is
<1>2. Len(Elements) \in Nat
  BY <1>1
<1>3. Fit(t, Len(Elements))
  BY <1>1, <1>2 DEF Fit
<1>4. QED
  BY <1>1, <1>3, StepD

LEMMA InitDInv == Init => DInv
<1> SUFFICES ASSUME Init PROVE DInv
  OBVIOUS
<1>1. DataType
  BY DEF Init, DataType
<1>2. Is(tab, <<>>)
  BY DEF Init, Is
<1>3. Elements = <<>> /\ Length = 0
  BY <1>2, ListNow
<1>4. \A t \in Threads : Stage(t) /\ pc[t] \notin Adding
  BY DEF Init, Stage, Inserting, Removing, Adding
<1>5. Pending = {}
  BY <1>4 DEF Pending, Pends
<1>6. Fits
  BY <1>3, <1>5, FS_EmptySet DEF Fits
<1>7. QED
  BY <1>1, <1>2, <1>3, <1>4, <1>6 DEF DInv

\* While an insert or a remove is under way nobody else is in the middle of one.
LEMMA OthersOut ==
  ASSUME SInv, NEW t \in Threads, pc[t] \in Middle
  PROVE  \A u \in Threads \ {t} : pc[u] \notin Middle
BY OneMiddle

LEMMA HasRoom ==
  ASSUME DInv, NEW t \in Threads, Pends(t)
  PROVE  Length \in Nat /\ Length + 1 <= N
<1>1. Length \in Nat
  BY ListNow DEF DInv, Is
<1>2. PICK S : S = Pending
  OBVIOUS
<1>3. S \subseteq Threads /\ t \in S /\ Length + Cardinality(S) <= N
  BY <1>2 DEF Pending, DInv, Fits
<1>4. IsFiniteSet(S)
  BY <1>3, FS_Subset
<1>5. Cardinality(S) \in Nat /\ Cardinality(S) # 0
  BY <1>3, <1>4, FS_CardinalityType, FS_EmptySet
<1>6. QED
  BY ONLY <1>1, <1>3, <1>5, N \in Nat

LEMMA SameD ==
  ASSUME DInv, UNCHANGED <<tab, before, pc, local>>
  PROVE  DInv'
<1>1. /\ tab' = tab /\ before' = before /\ pc' = pc
      /\ pos' = pos /\ i' = i /\ val' = val /\ top' = top
  BY DEF local
<1>2. DataType'
  BY <1>1 DEF DInv, DataType
<1>3. Borders' = Borders
  BY <1>1 DEF Borders
<1>4. Length' = Length
  BY <1>3 DEF Length
<1>5. Elements' = Elements
  BY <1>1, <1>4 DEF Elements
<1>6. Is(tab', Elements')
  BY <1>1, <1>5 DEF DInv
<1>7. ASSUME NEW t \in Threads PROVE Stage(t)'
  <2>1. Stage(t)
    BY DEF DInv
  <2>2. Inserting(t)'
    BY <1>1, <2>1 DEF Stage, Inserting
  <2>3. Removing(t)'
    BY <1>1, <2>1 DEF Stage, Removing
  <2>4. pc'[t] = "unlock" => Moved(before, Elements)'
    BY <1>1, <1>5, <2>1 DEF Stage, Moved
  <2>5. QED
    BY <2>2, <2>3, <2>4 DEF Stage
<1>8. \A t \in Threads : pc'[t] \in Adding => val'[t] \in Values
  BY <1>1 DEF DInv
<1>9. Pending' = Pending
  BY <1>1 DEF Pending, Pends
<1>10. Fits'
  BY <1>4, <1>9 DEF DInv, Fits
<1>11. QED
  BY <1>2, <1>6, <1>7, <1>8, <1>10 DEF DInv

LEMMA StartD ==
  ASSUME SInv, DInv, NEW t \in Threads,
         NEW p \in {"get", "mark", "set", "ins_lock", "rem_lock"}, NEW v \in Values \cup {NULL},
         p \in {"set", "ins_lock"} => v \in Values /\ Room,
         Start(t, p, v), NEW n \in 0..N, pos' = [pos EXCEPT ![t] = n]
  PROVE  DInv'
<1>1. pc' = [pc EXCEPT ![t] = p] /\ val' = [val EXCEPT ![t] = v] /\ UNCHANGED <<tab, before, i, top>>
  BY DEF Start
<1>2. LockType /\ DataType
  BY DEF SInv, DInv
<1>3. pc'[t] = p /\ val'[t] = v /\ Only(t)
  BY <1>1, <1>2 DEF LockType, DataType, Only
<1>4. DataType'
  BY <1>1, <1>2 DEF DataType
<1>5. Stage(t)'
  BY <1>3 DEF Stage, Inserting, Removing
<1>6. pc'[t] \in Adding => val'[t] \in Values
  BY <1>3 DEF Adding
<1>7. (Pends(t)' => Pends(t)) \/ Room
  BY <1>3 DEF Pends, Adding
<1>8. QED
  BY <1>1, <1>3, <1>4, <1>5, <1>6, <1>7, KeepD

\* Reading t[1] or traversing the table.
LEMMA AccessD ==
  ASSUME SInv, DInv, NEW t \in Threads, pc' = [pc EXCEPT ![t] = "idle"], UNCHANGED <<tab, before, local>>
  PROVE  DInv'
<1>1. LockType /\ DataType
  BY DEF SInv, DInv
<1>2. pc'[t] = "idle" /\ Only(t)
  BY <1>1 DEF LockType, Only, local
<1>3. DataType'
  BY <1>1 DEF DataType, local
<1>4. Stage(t)' /\ pc'[t] \notin Adding /\ ~Pends(t)'
  BY <1>2 DEF Stage, Inserting, Removing, Pends, Adding
<1>5. QED
  BY <1>2, <1>3, <1>4, KeepD

LEMMA SetD ==
  ASSUME SInv, DInv, NEW t \in Threads, Set(t)
  PROVE  /\ DInv'
         /\ val[t] \in Values
         /\ Elements' = IF Elements = <<>> THEN <<val[t]>> ELSE [Elements EXCEPT ![1] = val[t]]
<1>1. /\ pc[t] = "set" /\ ph[t] = "table" /\ pc' = [pc EXCEPT ![t] = "idle"] /\ before' = before
      /\ tab' = IF 1 \in 1..N THEN [tab EXCEPT ![1] = val[t]] ELSE tab
  BY DEF Set, RawSet, Leave
<1>2. LockType /\ DataType /\ val[t] \in Values
  BY <1>1 DEF SInv, DInv, Adding
<1>3. Pends(t)
  BY <1>1 DEF Pends, Adding
<1>4. Length \in Nat /\ Length + 1 <= N
  BY <1>3, HasRoom
<1>5. 1 \in 1..N /\ 1 <= N
  BY <1>4
<1>6. tab' = [tab EXCEPT ![1] = val[t]]
  BY <1>1, <1>5
<1>7. Is(tab, Elements) /\ Len(Elements) = Length
  BY ListNow DEF DInv
<1>8. PICK s : s = IF Elements = <<>> THEN <<val[t]>> ELSE [Elements EXCEPT ![1] = val[t]]
  OBVIOUS
<1>9. Is(tab', s)
  BY <1>2, <1>5, <1>6, <1>7, <1>8, SetFirst DEF DataType
<1>10. Len(s) <= Length + 1
  <2>1. CASE Elements = <<>>
    BY <1>4, <1>8, <2>1
  <2>2. CASE Elements # <<>>
    <3>1. Elements \in Seq(Values)
      BY <1>7 DEF Is
    <3>2. 1 \in 1..Len(Elements)
      BY <2>2, <3>1
    <3>3. Len(s) = Len(Elements)
      BY <1>2, <1>8, <2>2, <3>1, <3>2, ExceptSeq
    <3>4. QED
      BY <1>4, <1>7, <3>3
  <2>3. QED
    BY <2>1, <2>2
<1>11. /\ pos' = [pos EXCEPT ![t] = 0] /\ i' = [i EXCEPT ![t] = 0]
       /\ val' = [val EXCEPT ![t] = NULL] /\ top' = [top EXCEPT ![t] = NULL]
  BY DEF Set, Done
<1>12. pc'[t] = "idle" /\ Only(t)
  BY <1>1, <1>2, <1>11 DEF LockType, DataType, Only
<1>13. DataType'
  BY <1>1, <1>2, <1>6, <1>11 DEF DataType
<1>14. Stage(t)' /\ pc'[t] \notin Adding /\ ~Pends(t)'
  BY <1>12 DEF Stage, Inserting, Removing, Pends, Adding
<1>15. Fit(t, Len(s))
  BY <1>3, <1>10, <1>14 DEF Fit
<1>16. \A u \in Threads \ {t} : pc[u] \notin Middle
  BY <1>1, WriterAlone DEF Writes
<1>17. DInv'
  BY <1>9, <1>12, <1>13, <1>14, <1>15, <1>16, StepD
<1>18. Elements' = s
  BY <1>9, ListNext
<1>19. QED
  BY <1>2, <1>8, <1>17, <1>18

LEMMA LockD ==
  ASSUME SInv, DInv, NEW t \in Threads, Lock(t)
  PROVE  DInv'
<1>1. PICK q \in {"ins_len", "rem_len"} :
        pc[t] = (IF q = "ins_len" THEN "ins_lock" ELSE "rem_lock") /\ pc' = [pc EXCEPT ![t] = q]
  BY DEF Lock
<1>2. before' = Elements /\ tab' = tab /\ UNCHANGED local /\ LockType /\ DataType
  BY DEF Lock, SInv, DInv
<1>3. Is(tab, Elements) /\ Elements \in Seq(Values)
  BY DEF DInv, Is
<1>4. Is(tab', before') /\ Is(tab', Elements) /\ Len(Elements) = Length
  BY <1>2, <1>3, ListNow
<1>5. pc'[t] = q /\ Only(t)
  BY <1>1, <1>2 DEF LockType, Only, local
<1>6. DataType'
  BY <1>2, <1>3 DEF DataType, local
<1>7. Stage(t)'
  BY <1>4, <1>5 DEF Stage, Inserting, Removing
<1>8. val'[t] = val[t] /\ (pc'[t] \in Adding => pc[t] \in Adding)
  BY <1>1, <1>2, <1>5 DEF Adding, local
<1>9. pc'[t] \in Adding => val'[t] \in Values
  BY <1>8 DEF DInv
<1>10. Pends(t)' => Pends(t)
  BY <1>1, <1>5, <1>8 DEF Pends
<1>11. Len(Elements) <= Length
  BY <1>3, <1>4
<1>12. Fit(t, Len(Elements))
  BY <1>10, <1>11 DEF Fit
<1>13. \A u \in Threads \ {t} : pc[u] \notin Middle
  BY LockAlone
<1>14. QED
  BY <1>4, <1>5, <1>6, <1>7, <1>9, <1>12, <1>13, StepD

LEMMA UnlockD ==
  ASSUME SInv, DInv, NEW t \in Threads, UnlockTable(t)
  PROVE  DInv'
<1>1. /\ pc[t] = "unlock" /\ pc' = [pc EXCEPT ![t] = "idle"] /\ before' = <<>> /\ tab' = tab
      /\ pos' = [pos EXCEPT ![t] = 0] /\ i' = [i EXCEPT ![t] = 0]
      /\ val' = [val EXCEPT ![t] = NULL] /\ top' = [top EXCEPT ![t] = NULL]
  BY DEF UnlockTable, Done
<1>2. LockType /\ DataType /\ Is(tab, Elements) /\ Elements \in Seq(Values)
  BY DEF SInv, DInv, Is
<1>3. Is(tab', Elements) /\ Len(Elements) = Length
  BY <1>1, <1>2, ListNow
<1>4. pc'[t] = "idle" /\ Only(t)
  BY <1>1, <1>2 DEF LockType, DataType, Only
<1>5. DataType'
  BY <1>1, <1>2 DEF DataType
<1>6. Stage(t)' /\ pc'[t] \notin Adding /\ ~Pends(t)'
  BY <1>4 DEF Stage, Inserting, Removing, Pends, Adding
<1>7. Len(Elements) <= Length
  BY <1>2, <1>3
<1>8. Fit(t, Len(Elements))
  BY <1>6, <1>7 DEF Fit
<1>9. \A u \in Threads \ {t} : pc[u] \notin Middle
  BY <1>1, OthersOut DEF Middle
<1>10. QED
  BY <1>3, <1>4, <1>5, <1>6, <1>8, <1>9, StepD

-----------------------------------------------------------------------------
(* table.insert                                                            *)

LEMMA InsertLengthD ==
  ASSUME SInv, DInv, NEW t \in Threads, InsertLength(t)
  PROVE  DInv'
<1>1. pc[t] = "ins_len" /\ LockType /\ DataType /\ Stage(t) /\ Pends(t) /\ before \in Seq(Values)
  BY DEF InsertLength, SInv, DInv, DataType, Pends, Adding
<1>2. Is(tab, before)
  BY <1>1 DEF Stage, Inserting
<1>3. Borders = {Len(before)} /\ Length = Len(before) /\ Elements = before
  BY <1>2, ListNow
<1>4. PICK e \in Nat : e = Len(before) + 1
  BY <1>1
<1>5. e <= N /\ e \in 1..N /\ Len(before) + 1 <= N
  BY <1>1, <1>3, <1>4, HasRoom
<1>6. PICK p \in 0..N : p = IF pos[t] = 0 THEN e ELSE pos[t]
  <2>1. pos[t] \in 0..N /\ e \in 0..N
    BY <1>1, <1>5 DEF DataType
  <2>2. QED
    BY <2>1
<1>7. PICK q \in {"unlock", "ins_get", "ins_store"} :
        q = IF p > e THEN "unlock" ELSE IF e > p THEN "ins_get" ELSE "ins_store"
  OBVIOUS
<1>8. /\ i' = [i EXCEPT ![t] = e] /\ pos' = [pos EXCEPT ![t] = p] /\ pc' = [pc EXCEPT ![t] = q]
      /\ UNCHANGED <<tab, before, val, top>>
  BY <1>3, <1>4, <1>6, <1>7 DEF InsertLength, LeaveState
<1>9. pc'[t] = q /\ i'[t] = e /\ pos'[t] = p /\ val'[t] = val[t] /\ Only(t)
  BY <1>1, <1>8 DEF LockType, DataType, Only
<1>10. DataType'
  BY <1>1, <1>5, <1>8 DEF DataType
<1>11. Stage(t)'
  <2>1. CASE q = "unlock"
    <3>1. Elements' = before
      BY <1>2, <1>8, ListNext
    <3>2. Moved(before', Elements')
      BY <1>8, <3>1 DEF Moved
    <3>3. QED
      BY <1>9, <2>1, <3>2 DEF Stage, Inserting, Removing
  <2>2. CASE q # "unlock"
    <3>1. Shifted(tab, before, e)
      BY <1>1, <1>2, <1>4, <1>5, ShiftStart
    <3>2. Shifted(tab', before', i'[t])
      BY <1>8, <1>9, <3>1
    <3>3. p \in 1..e /\ (q = "ins_get" => p \in 1..e - 1) /\ (q = "ins_store" => p = e) /\ q \in {"ins_get", "ins_store"}
      BY <1>4, <1>6, <1>7, <2>2
    <3>4. QED
      BY <1>9, <3>2, <3>3 DEF Stage, Inserting, Removing
  <2>3. QED
    BY <2>1, <2>2
<1>12. pc'[t] \in Adding => val'[t] \in Values
  BY <1>1, <1>9 DEF DInv, Adding
<1>13. QED
  BY <1>1, <1>8, <1>9, <1>10, <1>11, <1>12, KeepD

LEMMA InsertGetD ==
  ASSUME SInv, DInv, NEW t \in Threads, InsertGet(t)
  PROVE  DInv'
<1>1. pc[t] = "ins_get" /\ LockType /\ DataType /\ Stage(t) /\ before \in Seq(Values) /\ val[t] \in Values
  BY DEF InsertGet, SInv, DInv, DataType, Adding
<1>2. pos[t] \in 1 .. i[t] - 1 /\ Shifted(tab, before, i[t])
  BY <1>1 DEF Stage, Inserting
<1>3. i[t] \in Nat /\ 1 < i[t] /\ i[t] - 1 \in 1..N
  BY <1>1, <1>2 DEF DataType, Shifted
<1>4. tab[i[t] - 1] = before[i[t] - 1]
  BY <1>1, <1>2, <1>3, ShiftPut DEF DataType
<1>5. PICK x \in Values \cup {NULL} :
        /\ x = IF i[t] - 1 \in 1..N THEN tab[i[t] - 1] ELSE NULL
        /\ pc' = [pc EXCEPT ![t] = "ins_put"] /\ top' = [top EXCEPT ![t] = x]
        /\ UNCHANGED <<tab, before, pos, i, val>>
  BY DEF InsertGet, RawGet, Leave
<1>6. pc'[t] = "ins_put" /\ top'[t] = x /\ x = before[i[t] - 1] /\ Only(t)
  BY <1>1, <1>3, <1>4, <1>5 DEF LockType, DataType, Only
<1>7. DataType'
  BY <1>1, <1>5 DEF DataType
<1>8. Stage(t)'
  BY <1>2, <1>5, <1>6 DEF Stage, Inserting, Removing
<1>9. Pends(t)' => Pends(t)
  BY <1>1, <1>5, <1>6 DEF Pends, Adding
<1>10. val'[t] \in Values
  BY <1>1, <1>5
<1>11. QED
  BY <1>5, <1>6, <1>7, <1>8, <1>9, <1>10, KeepD

\* The list while an insert has moved up what is behind its j-th entry.
LEMMA ShiftedLength ==
  ASSUME DInv, NEW j \in Nat, Shifted(tab, before, j)
  PROVE  Length = IF j = Len(before) + 1 THEN Len(before) ELSE Len(before) + 1
<1>1. before \in Seq(Values)
  BY DEF DInv, DataType
<1>2. PICK s : Is(tab, s) /\ Len(s) = IF j = Len(before) + 1 THEN Len(before) ELSE Len(before) + 1
  BY <1>1, ShiftList
<1>3. QED
  BY <1>2, ListNow

LEMMA InsertPutD ==
  ASSUME SInv, DInv, NEW t \in Threads, InsertPut(t)
  PROVE  DInv'
<1>1. /\ pc[t] = "ins_put" /\ ph[t] = "table" /\ LockType /\ DataType /\ Stage(t)
      /\ before \in Seq(Values) /\ val[t] \in Values
  BY DEF InsertPut, RawSet, SInv, DInv, DataType, Adding
<1>2. PICK j : j = i[t]
  OBVIOUS
<1>3. pos[t] \in 1 .. j - 1 /\ Shifted(tab, before, j) /\ top[t] = before[j - 1]
  BY <1>1, <1>2 DEF Stage, Inserting
<1>4. j \in Nat /\ 1 < j /\ j \in 1..N /\ j \in 1..Len(before) + 1 /\ Len(before) \in Nat
  BY <1>1, <1>2, <1>3 DEF DataType, Shifted
<1>5. PICK q \in {"ins_get", "ins_store"} : q = IF j - 1 > pos[t] THEN "ins_get" ELSE "ins_store"
  OBVIOUS
<1>6. /\ tab' = IF j \in 1..N THEN [tab EXCEPT ![j] = top[t]] ELSE tab
      /\ pc' = [pc EXCEPT ![t] = q] /\ i' = [i EXCEPT ![t] = @ - 1]
      /\ UNCHANGED <<before, pos, val, top>>
  BY <1>2, <1>5 DEF InsertPut, RawSet, Leave
<1>7. tab' = [tab EXCEPT ![j] = before[j - 1]]
  BY <1>3, <1>4, <1>6
<1>8. Shifted(tab', before, j - 1)
  BY <1>1, <1>3, <1>4, <1>7, ShiftPut DEF DataType
<1>9. PICK s : Is(tab', s) /\ Len(s) = Len(before) + 1
  <2>1. j - 1 # Len(before) + 1 /\ j - 1 \in Nat
    BY <1>4
  <2>2. QED
    BY <1>1, <1>8, <2>1, ShiftList
<1>10. pc'[t] = q /\ i'[t] = j - 1 /\ Only(t)
  BY <1>1, <1>2, <1>6 DEF LockType, DataType, Only
<1>11. DataType'
  <2>1. i' \in [Threads -> 0..N]
    BY <1>1, <1>2, <1>4, <1>6 DEF DataType
  <2>2. tab' \in [1..N -> Values \cup {NULL}]
    BY <1>1, <1>3, <1>7 DEF DataType
  <2>3. QED
    BY <1>1, <1>6, <2>1, <2>2 DEF DataType
<1>12. Stage(t)'
  <2>1. (q = "ins_get" => pos[t] \in 1 .. (j - 1) - 1) /\ (q = "ins_store" => pos[t] = j - 1)
    BY <1>3, <1>4, <1>5
  <2>2. QED
    BY <1>6, <1>8, <1>10, <2>1 DEF Stage, Inserting, Removing
<1>13. Fit(t, Len(s))
  <2>1. Length = IF j = Len(before) + 1 THEN Len(before) ELSE Len(before) + 1
    BY <1>3, <1>4, ShiftedLength
  <2>2. Pends(t) <=> ~(j <= Len(before))
    BY <1>1, <1>2 DEF Pends, Adding
  <2>3. ~Pends(t)'
    <3>1. j - 1 <= Len(before)
      BY <1>4
    <3>2. QED
      BY <1>6, <1>10, <3>1 DEF Pends
  <2>4. QED
    BY <1>4, <1>9, <2>1, <2>2, <2>3 DEF Fit
<1>14. \A u \in Threads \ {t} : pc[u] \notin Middle
  BY <1>1, OthersOut DEF Middle
<1>15. val'[t] \in Values
  BY <1>1, <1>6
<1>16. QED
  BY <1>9, <1>10, <1>11, <1>12, <1>13, <1>14, <1>15, StepD

LEMMA InsertStoreD ==
  ASSUME SInv, DInv, NEW t \in Threads, InsertStore(t)
  PROVE  DInv'
<1>1. /\ pc[t] = "ins_store" /\ ph[t] = "table" /\ LockType /\ DataType /\ Stage(t)
      /\ before \in Seq(Values) /\ val[t] \in Values
  BY DEF InsertStore, RawSet, SInv, DInv, DataType, Adding
<1>2. PICK j : j = i[t]
  OBVIOUS
<1>3. pos[t] = j /\ Shifted(tab, before, j)
  BY <1>1, <1>2 DEF Stage, Inserting
<1>4. j \in Nat /\ j \in 1..N /\ j \in 1..Len(before) + 1 /\ Len(before) \in Nat
  BY <1>1, <1>2, <1>3 DEF DataType, Shifted
<1>5. /\ tab' = IF j \in 1..N THEN [tab EXCEPT ![j] = val[t]] ELSE tab
      /\ pc' = [pc EXCEPT ![t] = "unlock"] /\ UNCHANGED <<before, local>>
  BY <1>3 DEF InsertStore, RawSet, Leave
<1>6. tab' = [tab EXCEPT ![j] = val[t]]
  BY <1>4, <1>5
<1>7. PICK s : Is(tab', s) /\ Inserted(before, j, val[t], s)
  BY <1>1, <1>3, <1>4, <1>6, ShiftStore DEF DataType
<1>8. Elements' = s
  BY <1>7, ListNext
<1>9. pc'[t] = "unlock" /\ Only(t)
  BY <1>1, <1>5 DEF LockType, DataType, Only, local
<1>10. DataType'
  BY <1>1, <1>5, <1>6 DEF DataType, local
<1>11. Moved(before', Elements')
  BY <1>1, <1>4, <1>5, <1>7, <1>8 DEF Moved
<1>12. Stage(t)'
  BY <1>9, <1>11 DEF Stage, Inserting, Removing
<1>13. ~Pends(t)' /\ pc'[t] \notin Adding
  BY <1>9 DEF Pends, Adding
<1>14. Fit(t, Len(s))
  <2>1. Length = IF j = Len(before) + 1 THEN Len(before) ELSE Len(before) + 1
    BY <1>3, <1>4, ShiftedLength
  <2>2. Pends(t) <=> ~(j <= Len(before))
    BY <1>1, <1>2 DEF Pends, Adding
  <2>3. Len(s) = Len(before) + 1
    BY <1>7 DEF Inserted
  <2>4. QED
    BY <1>4, <1>13, <2>1, <2>2, <2>3 DEF Fit
<1>15. \A u \in Threads \ {t} : pc[u] \notin Middle
  BY <1>1, OthersOut DEF Middle
<1>16. QED
  BY <1>7, <1>9, <1>10, <1>12, <1>13, <1>14, <1>15, StepD

-----------------------------------------------------------------------------
(* table.remove                                                            *)

LEMMA RemoveLengthD ==
  ASSUME SInv, DInv, NEW t \in Threads, RemoveLength(t)
  PROVE  DInv'
<1>1. pc[t] = "rem_len" /\ LockType /\ DataType /\ Stage(t) /\ before \in Seq(Values)
  BY DEF RemoveLength, SInv, DInv, DataType
<1>2. Is(tab, before)
  BY <1>1 DEF Stage, Removing
<1>3. Borders = {Len(before)} /\ Length = Len(before) /\ Elements = before
  BY <1>2, ListNow
<1>4. PICK m \in 0..N : m = Len(before)
  BY <1>1, <1>2 DEF Is
<1>5. PICK p \in 0..N : p = IF pos[t] = 0 THEN m ELSE pos[t]
  BY <1>1 DEF DataType
<1>6. PICK q \in {"unlock", "rem_take"} : q = IF p > m + 1 THEN "unlock" ELSE "rem_take"
  OBVIOUS
<1>7. /\ i' = [i EXCEPT ![t] = m] /\ pos' = [pos EXCEPT ![t] = p] /\ pc' = [pc EXCEPT ![t] = q]
      /\ UNCHANGED <<tab, before, val, top>>
  BY <1>3, <1>4, <1>5, <1>6 DEF RemoveLength, LeaveState
<1>8. pc'[t] = q /\ i'[t] = m /\ pos'[t] = p /\ Only(t)
  BY <1>1, <1>7 DEF LockType, DataType, Only
<1>9. DataType'
  BY <1>1, <1>7 DEF DataType
<1>10. Stage(t)'
  <2>1. CASE q = "unlock"
    <3>1. Elements' = before
      BY <1>2, <1>7, ListNext
    <3>2. Moved(before', Elements')
      BY <1>7, <3>1 DEF Moved
    <3>3. QED
      BY <1>8, <2>1, <3>2 DEF Stage, Inserting, Removing
  <2>2. CASE q = "rem_take"
    <3>1. p <= m + 1 /\ (p = 0 => m = 0)
      BY <1>5, <1>6, <2>2
    <3>2. p = 0 => before = <<>>
      BY <1>1, <1>4, <3>1, EmptySeq
    <3>3. QED
      BY <1>2, <1>4, <1>7, <1>8, <2>2, <3>1, <3>2 DEF Stage, Inserting, Removing
  <2>3. QED
    BY <2>1, <2>2
<1>11. pc'[t] \notin Adding /\ ~Pends(t)'
  BY <1>8 DEF Adding, Pends
<1>12. QED
  BY <1>7, <1>8, <1>9, <1>10, <1>11, KeepD

LEMMA RemoveTakeD ==
  ASSUME SInv, DInv, NEW t \in Threads, RemoveTake(t)
  PROVE  DInv'
<1>1. pc[t] = "rem_take" /\ LockType /\ DataType /\ Stage(t) /\ before \in Seq(Values)
  BY DEF RemoveTake, SInv, DInv, DataType
<1>2. Is(tab, before) /\ i[t] = Len(before) /\ pos[t] <= Len(before) + 1 /\ (pos[t] = 0 => before = <<>>)
  BY <1>1 DEF Stage, Removing
<1>3. PICK j \in 0..N : j = pos[t]
  BY <1>1 DEF DataType
<1>4. PICK m \in Nat : m = Len(before)
  BY <1>1
<1>5. PICK q \in {"rem_get", "rem_clear"} : q = IF j < m THEN "rem_get" ELSE "rem_clear"
  OBVIOUS
<1>6. PICK x \in Values \cup {NULL} :
        /\ val' = [val EXCEPT ![t] = x] /\ pc' = [pc EXCEPT ![t] = q]
        /\ UNCHANGED <<tab, before, pos, i, top>>
  BY <1>2, <1>3, <1>4, <1>5 DEF RemoveTake, RawGet, Leave
<1>7. pc'[t] = q /\ Only(t)
  BY <1>1, <1>6 DEF LockType, DataType, Only
<1>8. DataType'
  BY <1>1, <1>6 DEF DataType
<1>9. j \in 1..m => Collapsed(tab, before, j, j)
  BY <1>1, <1>2, <1>4, CollapseStart
<1>10. (j = 0 => m = 0) /\ j <= m + 1
  BY <1>2, <1>3, <1>4
<1>11. Stage(t)'
  <2>1. CASE q = "rem_get"
    <3>1. j \in 1..m /\ j < m
      BY <1>5, <1>10, <2>1
    <3>2. \E p \in 1..j : Collapsed(tab, before, p, j)
      BY <1>9, <3>1
    <3>3. QED
      BY <1>2, <1>3, <1>4, <1>6, <1>7, <2>1, <3>1, <3>2 DEF Stage, Inserting, Removing
  <2>2. CASE q = "rem_clear"
    <3>1. (j = m /\ j \in 1..m) \/ j = 0 \/ j = m + 1
      BY <1>5, <1>10, <2>2
    <3>2. \/ j = m /\ \E p \in 1..j : Collapsed(tab, before, p, j)
          \/ (j = 0 \/ j = m + 1) /\ Is(tab, before)
      BY <1>2, <1>9, <3>1
    <3>3. QED
      BY <1>2, <1>3, <1>4, <1>6, <1>7, <2>2, <3>2 DEF Stage, Inserting, Removing
  <2>3. QED
    BY <2>1, <2>2
<1>12. pc'[t] \notin Adding /\ ~Pends(t)'
  BY <1>7 DEF Adding, Pends
<1>13. QED
  BY <1>6, <1>7, <1>8, <1>11, <1>12, KeepD

LEMMA RemoveGetD ==
  ASSUME SInv, DInv, NEW t \in Threads, RemoveGet(t)
  PROVE  DInv'
<1>1. pc[t] = "rem_get" /\ LockType /\ DataType /\ Stage(t) /\ before \in Seq(Values)
  BY DEF RemoveGet, SInv, DInv, DataType
<1>2. PICK j \in Nat : j = pos[t]
  BY <1>1 DEF DataType
<1>3. i[t] = Len(before) /\ j < Len(before) /\ \E p \in 1..j : Collapsed(tab, before, p, j)
  BY <1>1, <1>2 DEF Stage, Removing
<1>4. tab[j + 1] = before[j + 1] /\ j + 1 \in 1..N
  <2>1. PICK p \in 1..j : Collapsed(tab, before, p, j)
    BY <1>3
  <2>2. p \in Nat
    OBVIOUS
  <2>3. tab \in [1..N -> Values \cup {NULL}] /\ j < Len(before)
    BY <1>1, <1>3 DEF DataType
  <2>4. tab[j + 1] = before[j + 1]
    BY <1>1, <2>1, <2>2, <2>3, CollapsePut
  <2>5. j + 1 \in 1..N
    BY <1>1, <1>3, <2>1 DEF Collapsed
  <2>6. QED
    BY <2>4, <2>5
<1>5. PICK x \in Values \cup {NULL} :
        /\ x = IF j + 1 \in 1..N THEN tab[j + 1] ELSE NULL
        /\ pc' = [pc EXCEPT ![t] = "rem_put"] /\ top' = [top EXCEPT ![t] = x]
        /\ UNCHANGED <<tab, before, pos, i, val>>
  BY <1>2 DEF RemoveGet, RawGet, Leave
<1>6. pc'[t] = "rem_put" /\ top'[t] = before[j + 1] /\ Only(t)
  BY <1>1, <1>4, <1>5 DEF LockType, DataType, Only
<1>7. DataType'
  BY <1>1, <1>5 DEF DataType
<1>8. Stage(t)'
  BY <1>2, <1>3, <1>5, <1>6 DEF Stage, Inserting, Removing
<1>9. pc'[t] \notin Adding /\ ~Pends(t)'
  BY <1>6 DEF Adding, Pends
<1>10. QED
  BY <1>5, <1>6, <1>7, <1>8, <1>9, KeepD

\* A remove has no effect on the length until its last access.
LEMMA CollapsedLength ==
  ASSUME DInv, NEW p \in Nat, NEW j \in Nat, Collapsed(tab, before, p, j)
  PROVE  Length = Len(before)
<1>1. before \in Seq(Values)
  BY DEF DInv, DataType
<1>2. PICK s : Is(tab, s) /\ Len(s) = Len(before)
  BY <1>1, CollapseList
<1>3. QED
  BY <1>2, ListNow

LEMMA RemovePutD ==
  ASSUME SInv, DInv, NEW t \in Threads, RemovePut(t)
  PROVE  DInv'
<1>1. pc[t] = "rem_put" /\ LockType /\ DataType /\ Stage(t) /\ before \in Seq(Values)
  BY DEF RemovePut, SInv, DInv, DataType
<1>2. PICK j \in Nat : j = pos[t]
  BY <1>1 DEF DataType
<1>3. PICK m \in Nat : m = Len(before)
  BY <1>1
<1>4. i[t] = m /\ j < m /\ top[t] = before[j + 1] /\ \E p \in 1..j : Collapsed(tab, before, p, j)
  BY <1>1, <1>2, <1>3 DEF Stage, Removing
<1>5. PICK p \in 1..j : Collapsed(tab, before, p, j)
  BY <1>4
<1>6. p \in Nat /\ j \in 1..N /\ j + 1 \in 0..N
  BY <1>3, <1>4, <1>5 DEF Collapsed
<1>7. PICK q \in {"rem_get", "rem_clear"} : q = IF j + 1 < m THEN "rem_get" ELSE "rem_clear"
  OBVIOUS
<1>8. /\ tab' = IF j \in 1..N THEN [tab EXCEPT ![j] = top[t]] ELSE tab
      /\ pc' = [pc EXCEPT ![t] = q] /\ pos' = [pos EXCEPT ![t] = @ + 1]
      /\ UNCHANGED <<before, i, val, top>>
  BY <1>2, <1>4, <1>7 DEF RemovePut, RawSet, Leave
<1>9. tab' = [tab EXCEPT ![j] = before[j + 1]]
  BY <1>4, <1>6, <1>8
<1>10. Collapsed(tab', before, p, j + 1)
  BY <1>1, <1>3, <1>4, <1>5, <1>6, <1>9, CollapsePut DEF DataType
<1>11. PICK s : Is(tab', s) /\ Len(s) = m
  <2>1. j + 1 \in Nat
    OBVIOUS
  <2>2. QED
    BY <1>1, <1>3, <1>6, <1>10, <2>1, CollapseList
<1>12. Length = m
  BY <1>3, <1>5, <1>6, CollapsedLength
<1>13. pc'[t] = q /\ pos'[t] = j + 1 /\ Only(t)
  BY <1>1, <1>2, <1>8 DEF LockType, DataType, Only
<1>14. DataType'
  <2>1. pos' \in [Threads -> 0..N]
    BY <1>1, <1>2, <1>6, <1>8 DEF DataType
  <2>2. tab' \in [1..N -> Values \cup {NULL}]
    BY <1>1, <1>4, <1>9 DEF DataType
  <2>3. QED
    BY <1>1, <1>8, <2>1, <2>2 DEF DataType
<1>15. Stage(t)'
  <2>1. \E r \in 1..j + 1 : Collapsed(tab', before, r, j + 1)
    BY <1>10
  <2>2. (q = "rem_get" => j + 1 < m) /\ (q = "rem_clear" => j + 1 = m)
    BY <1>4, <1>7
  <2>3. QED
    BY <1>3, <1>4, <1>8, <1>13, <2>1, <2>2 DEF Stage, Inserting, Removing
<1>16. pc'[t] \notin Adding /\ ~Pends(t)'
  BY <1>13 DEF Adding, Pends
<1>17. Fit(t, Len(s))
  BY <1>11, <1>12, <1>16 DEF Fit
<1>18. \A u \in Threads \ {t} : pc[u] \notin Middle
  BY <1>1, OthersOut DEF Middle
<1>19. QED
  BY <1>11, <1>13, <1>14, <1>15, <1>16, <1>17, <1>18, StepD

LEMMA RemoveClearD ==
  ASSUME SInv, DInv, NEW t \in Threads, RemoveClear(t)
  PROVE  DInv'
<1>1. pc[t] = "rem_clear" /\ LockType /\ DataType /\ Stage(t) /\ before \in Seq(Values)
  BY DEF RemoveClear, SInv, DInv, DataType
<1>2. PICK j \in Nat : j = pos[t]
  BY <1>1 DEF DataType
<1>3. /\ tab' = IF j \in 1..N THEN [tab EXCEPT ![j] = NULL] ELSE tab
      /\ pc' = [pc EXCEPT ![t] = "unlock"] /\ UNCHANGED <<before, local>>
  BY <1>2 DEF RemoveClear, RawSet, Leave
<1>4. pc'[t] = "unlock" /\ Only(t)
  BY <1>1, <1>3 DEF LockType, DataType, Only, local
<1>5. DataType'
  BY <1>1, <1>3 DEF DataType, local
<1>6. PICK s : Is(tab', s) /\ Moved(before, s) /\ Len(s) <= Length
  <2>1. CASE j = Len(before) /\ \E p \in 1..j : Collapsed(tab, before, p, j)
    <3>1. PICK p \in 1..j : Collapsed(tab, before, p, j)
      BY <2>1
    <3>2. p \in Nat /\ j \in 1..N /\ p \in 1..Len(before)
      BY <2>1, <3>1 DEF Collapsed
    <3>6. Length = Len(before)
      BY <3>1, <3>2, CollapsedLength
    <3>3. tab' = [tab EXCEPT ![j] = NULL]
      BY <1>3, <3>2
    <3>4. PICK s : Is([tab EXCEPT ![j] = NULL], s) /\ Removed(before, p, s)
      BY <1>1, <2>1, <3>1, <3>2, CollapseClear DEF DataType
    <3>5. Len(s) <= Length
      BY <1>1, <3>6, <3>4 DEF Removed
    <3>7. QED
      BY <3>2, <3>3, <3>4, <3>5 DEF Moved
  <2>2. CASE (j = 0 \/ j = Len(before) + 1) /\ Is(tab, before)
    <3>1. Is(tab', before)
      BY <1>1, <1>3, <2>2, ClearPast DEF DataType
    <3>2. Length = Len(before) /\ Len(before) \in Nat
      BY <1>1, <2>2, ListNow
    <3>3. QED
      BY <3>1, <3>2 DEF Moved
  <2>3. QED
    BY <1>1, <1>2, <2>1, <2>2 DEF Stage, Removing
<1>7. Elements' = s
  BY <1>6, ListNext
<1>8. Moved(before', Elements')
  BY <1>3, <1>6, <1>7
<1>9. Stage(t)'
  BY <1>4, <1>8 DEF Stage, Inserting, Removing
<1>10. pc'[t] \notin Adding /\ ~Pends(t)'
  BY <1>4 DEF Adding, Pends
<1>11. Fit(t, Len(s))
  BY <1>6, <1>10 DEF Fit
<1>12. \A u \in Threads \ {t} : pc[u] \notin Middle
  BY <1>1, OthersOut DEF Middle
<1>13. QED
  BY <1>4, <1>5, <1>6, <1>9, <1>10, <1>11, <1>12, StepD

LEMMA StepDInv == SInv /\ DInv /\ [Next]_vars => DInv'
<1> SUFFICES ASSUME SInv, DInv, [Next]_vars PROVE DInv'
  OBVIOUS
<1>1. ASSUME NEW t \in Threads, EnterState(t) \/ LockTable(t) \/ Share(t) \/ Give(t) PROVE DInv'
  <2>1. UNCHANGED <<tab, before, pc, local>>
    BY <1>1 DEF EnterState, LockTable, Share, Give
  <2>2. QED
    BY <2>1, SameD
<1>2. ASSUME NEW t \in Threads, StartAccess(t) PROVE DInv'
  <2>1. PICK p \in {"get", "mark", "set"} : \E v \in Values \cup {NULL} :
          Start(t, p, v) /\ (p = "set" => v \in Values /\ Room)
    BY <1>2 DEF StartAccess
  <2>2. PICK v \in Values \cup {NULL} : Start(t, p, v) /\ (p = "set" => v \in Values /\ Room)
    BY <2>1
  <2>3. pos' = [pos EXCEPT ![t] = pos[t]] /\ pos[t] \in 0..N
    BY <1>2 DEF StartAccess, DInv, DataType
  <2>4. p \in {"get", "mark", "set", "ins_lock", "rem_lock"} /\ (p \in {"set", "ins_lock"} => v \in Values /\ Room)
    BY <2>2
  <2>5. QED
    BY <2>2, <2>3, <2>4, StartD
<1>3. ASSUME NEW t \in Threads, InsertStart(t) PROVE DInv'
  <2>1. PICK v \in Values : Start(t, "ins_lock", v)
    BY <1>3 DEF InsertStart
  <2>2. PICK n \in 0..N : pos' = [pos EXCEPT ![t] = n]
    BY <1>3 DEF InsertStart
  <2>3. Room
    BY <1>3 DEF InsertStart
  <2>4. QED
    BY <2>1, <2>2, <2>3, StartD
<1>4. ASSUME NEW t \in Threads, RemoveStart(t) PROVE DInv'
  <2>1. Start(t, "rem_lock", NULL)
    BY <1>4 DEF RemoveStart
  <2>2. PICK n \in 0..N : pos' = [pos EXCEPT ![t] = n]
    BY <1>4 DEF RemoveStart
  <2>3. QED
    BY <2>1, <2>2, StartD
<1>5. ASSUME NEW t \in Threads, Get(t) \/ Mark(t) PROVE DInv'
  <2>1. pc' = [pc EXCEPT ![t] = "idle"] /\ UNCHANGED <<tab, before, local>>
    BY <1>5 DEF Get, RawGet, Mark, Leave
  <2>2. QED
    BY <2>1, AccessD
<1>6. CASE UNCHANGED vars
  <2>1. UNCHANGED <<tab, before, pc, local>>
    BY <1>6 DEF vars
  <2>2. QED
    BY <2>1, SameD
<1>. QED
  BY <1>1, <1>2, <1>3, <1>4, <1>5, <1>6, SetD, LockD, UnlockD, InsertLengthD, InsertGetD, InsertPutD, InsertStoreD,
     RemoveLengthD, RemoveTakeD, RemoveGetD, RemovePutD, RemoveClearD DEF Next

LEMMA DataInvariant == Spec => []DInv
<1>1. Init => DInv
  BY InitDInv
<1>2. SInv /\ DInv /\ [Next]_vars => DInv'
  BY StepDInv
<1>3. QED
  BY <1>1, <1>2, LocksInvariant, PTL DEF Spec

-----------------------------------------------------------------------------
(* What a user of the table sees.                                          *)

\* What SubSeq returns, the empty range included.
LEMMA SubSeqList ==
  ASSUME NEW b \in Seq(Values), NEW m \in 1..Len(b) + 1, NEW n \in 0..Len(b), m <= n + 1
  PROVE  /\ SubSeq(b, m, n) \in Seq(Values)
         /\ Len(SubSeq(b, m, n)) = n - m + 1
         /\ \A k \in 1..n - m + 1 : SubSeq(b, m, n)[k] = b[m + k - 1]
<1>1. Len(b) \in Nat /\ m \in Nat /\ n \in Nat
  OBVIOUS
<1>2. SubSeq(b, m, n) \in Seq(Values)
  OBVIOUS
<1>3. Len(SubSeq(b, m, n)) = n - m + 1
  BY <1>1
<1>4. \A k \in 1..n - m + 1 : SubSeq(b, m, n)[k] = b[m + k - 1]
  BY <1>1
<1>5. QED
  BY <1>2, <1>3, <1>4

LEMMA InsertIs ==
  ASSUME NEW b \in Seq(Values), NEW p \in 1..Len(b) + 1, NEW v \in Values, NEW s \in Seq(Values),
         Inserted(b, p, v, s)
  PROVE  s = Atomic!InsertAt(b, p, v)
<1>1. PICK m \in Nat : m = Len(b)
  OBVIOUS
<1>2. p \in 1..m + 1 /\ p - 1 \in 0..m /\ m \in 0..m
  BY <1>1
<1>3. PICK x \in Seq(Values) : x = SubSeq(b, 1, p - 1)
  <2>1. SubSeq(b, 1, p - 1) \in Seq(Values)
    OBVIOUS
  <2>2. QED
    BY <2>1
<1>4. PICK y \in Seq(Values) : y = SubSeq(b, p, Len(b))
  <2>1. SubSeq(b, p, Len(b)) \in Seq(Values)
    OBVIOUS
  <2>2. QED
    BY <2>1
<1>5. Len(x) = p - 1 /\ \A k \in 1..p - 1 : x[k] = b[k]
  BY <1>1, <1>2, <1>3, SubSeqList
<1>6. Len(y) = m - p + 1 /\ \A k \in 1..m - p + 1 : y[k] = b[p + k - 1]
  BY <1>1, <1>2, <1>4, SubSeqList
<1>7. PICK z \in Seq(Values) : z = x \o <<v>>
  <2>1. x \o <<v>> \in Seq(Values)
    OBVIOUS
  <2>2. QED
    BY <2>1
<1>8. Len(z) = p /\ \A k \in 1..p : z[k] = IF k < p THEN b[k] ELSE v
  <2>1. <<v>> \in Seq(Values) /\ Len(<<v>>) = 1 /\ <<v>>[1] = v
    OBVIOUS
  <2>2. /\ Len(z) = Len(x) + 1
        /\ \A k \in 1..Len(x) + 1 : z[k] = IF k <= Len(x) THEN x[k] ELSE <<v>>[k - Len(x)]
    BY <1>7, <2>1, ConcatProperties
  <2>3. QED
    BY <1>2, <1>5, <2>1, <2>2
<1>9. PICK w \in Seq(Values) : w = z \o y
  <2>1. z \o y \in Seq(Values)
    OBVIOUS
  <2>2. QED
    BY <2>1
<1>10. /\ Len(w) = Len(z) + Len(y)
       /\ \A k \in 1..Len(z) + Len(y) : w[k] = IF k <= Len(z) THEN z[k] ELSE y[k - Len(z)]
  BY <1>9, ConcatProperties
<1>11. Len(w) = m + 1
  BY <1>2, <1>6, <1>8, <1>10
<1>12. ASSUME NEW k \in 1..m + 1 PROVE w[k] = s[k]
  <2>1. s[k] = IF k < p THEN b[k] ELSE IF k = p THEN v ELSE b[k - 1]
    BY <1>1 DEF Inserted
  <2>2. w[k] = IF k <= p THEN z[k] ELSE y[k - p]
    BY <1>2, <1>6, <1>8, <1>10
  <2>3. CASE k <= p
    BY <1>2, <1>8, <2>1, <2>2, <2>3
  <2>4. CASE ~(k <= p)
    <3>1. k - p \in 1..m - p + 1 /\ p + (k - p) - 1 = k - 1
      BY <1>2, <2>4
    <3>2. y[k - p] = b[k - 1]
      BY <1>6, <3>1
    <3>3. QED
      BY <1>2, <2>1, <2>2, <2>4, <3>2
  <2>5. QED
    BY <2>3, <2>4
<1>13. Len(s) = m + 1
  BY <1>1 DEF Inserted
<1>14. w = s
  BY <1>11, <1>12, <1>13, SeqEqual
<1>15. Atomic!InsertAt(b, p, v) = w
  BY <1>3, <1>4, <1>7, <1>9 DEF Atomic!InsertAt
<1>16. QED
  BY <1>14, <1>15

LEMMA RemoveIs ==
  ASSUME NEW b \in Seq(Values), NEW p \in 1..Len(b), NEW s \in Seq(Values), Removed(b, p, s)
  PROVE  s = Atomic!RemoveAt(b, p)
<1>1. PICK m \in Nat : m = Len(b)
  OBVIOUS
<1>2. p \in 1..m /\ p - 1 \in 0..m /\ m \in 0..m /\ p + 1 \in 1..m + 1
  BY <1>1
<1>3. PICK x \in Seq(Values) : x = SubSeq(b, 1, p - 1)
  <2>1. SubSeq(b, 1, p - 1) \in Seq(Values)
    OBVIOUS
  <2>2. QED
    BY <2>1
<1>4. PICK y \in Seq(Values) : y = SubSeq(b, p + 1, Len(b))
  <2>1. SubSeq(b, p + 1, Len(b)) \in Seq(Values)
    OBVIOUS
  <2>2. QED
    BY <2>1
<1>5. Len(x) = p - 1 /\ \A k \in 1..p - 1 : x[k] = b[k]
  BY <1>1, <1>2, <1>3, SubSeqList
<1>6. Len(y) = m - p /\ \A k \in 1..m - p : y[k] = b[p + k]
  <2>1. Len(y) = m - (p + 1) + 1 /\ \A k \in 1..m - (p + 1) + 1 : y[k] = b[(p + 1) + k - 1]
    BY <1>1, <1>2, <1>4, SubSeqList
  <2>2. m - (p + 1) + 1 = m - p /\ \A k \in Nat : (p + 1) + k - 1 = p + k
    BY <1>2
  <2>3. QED
    BY <2>1, <2>2
<1>7. PICK w \in Seq(Values) : w = x \o y
  <2>1. x \o y \in Seq(Values)
    OBVIOUS
  <2>2. QED
    BY <2>1
<1>8. /\ Len(w) = Len(x) + Len(y)
      /\ \A k \in 1..Len(x) + Len(y) : w[k] = IF k <= Len(x) THEN x[k] ELSE y[k - Len(x)]
  BY <1>7, ConcatProperties
<1>9. Len(w) = m - 1
  BY <1>2, <1>5, <1>6, <1>8
<1>10. ASSUME NEW k \in 1..m - 1 PROVE w[k] = s[k]
  <2>1. s[k] = IF k < p THEN b[k] ELSE b[k + 1]
    BY <1>1 DEF Removed
  <2>2. w[k] = IF k <= p - 1 THEN x[k] ELSE y[k - (p - 1)]
    BY <1>2, <1>5, <1>6, <1>8
  <2>3. CASE k < p
    BY <1>2, <1>5, <2>1, <2>2, <2>3
  <2>4. CASE ~(k < p)
    <3>1. k - (p - 1) \in 1..m - p /\ p + (k - (p - 1)) = k + 1
      BY <1>2, <2>4
    <3>2. y[k - (p - 1)] = b[k + 1]
      BY <1>6, <3>1
    <3>3. QED
      BY <1>2, <2>1, <2>2, <2>4, <3>2
  <2>5. QED
    BY <2>3, <2>4
<1>11. Len(s) = m - 1
  BY <1>1 DEF Removed
<1>12. w = s
  BY <1>9, <1>10, <1>11, <1>1, SeqEqual
<1>13. Atomic!RemoveAt(b, p) = w
  BY <1>3, <1>4, <1>7 DEF Atomic!RemoveAt
<1>14. QED
  BY <1>12, <1>13

Busy == \E t \in Threads : pc[t] \in Middle

\* A step that neither begins nor ends an insert or remove is not seen, unless
\* it changes the table while none is under way.
LEMMA Unseen ==
  ASSUME LockType, NEW t \in Threads, \A u \in Threads \ {t} : pc'[u] = pc[u], before' = before,
         \/ pc[t] \in Middle /\ pc'[t] \in Middle
         \/ pc[t] \notin Middle /\ pc'[t] \notin Middle /\ tab' = tab
  PROVE  Visible' = Visible
<1>1. CASE pc[t] \in Middle /\ pc'[t] \in Middle
  BY <1>1 DEF Visible
<1>2. CASE pc[t] \notin Middle /\ pc'[t] \notin Middle /\ tab' = tab
  <2>1. Busy' <=> Busy
    BY <1>2 DEF Busy
  <2>2. Borders' = Borders
    BY <1>2 DEF Borders
  <2>3. Length' = Length
    BY <2>2 DEF Length
  <2>4. Elements' = Elements
    BY <1>2, <2>3 DEF Elements
  <2>5. QED
    BY <2>1, <2>4 DEF Visible, Busy
<1>3. QED
  BY <1>1, <1>2

\* An insert or remove takes effect when it unlocks the table.
LEMMA UnlockSeen ==
  ASSUME SInv, DInv, NEW t \in Threads, UnlockTable(t)
  PROVE  Visible' = Visible \/ Atomic!InsertOne \/ Atomic!RemoveOne
<1>1. pc[t] = "unlock" /\ pc' = [pc EXCEPT ![t] = "idle"] /\ tab' = tab /\ pc[t] \in Middle
  BY DEF UnlockTable, Middle
<1>2. \A u \in Threads : pc'[u] \notin Middle
  <2>1. \A u \in Threads \ {t} : pc[u] \notin Middle
    BY <1>1, OthersOut
  <2>2. pc'[t] = "idle" /\ \A u \in Threads \ {t} : pc'[u] = pc[u]
    BY <1>1 DEF SInv, LockType
  <2>3. QED
    BY <2>1, <2>2 DEF Middle
<1>3. Visible = before
  BY <1>1 DEF Visible
<1>4. PICK s : s = Elements
  OBVIOUS
<1>5. Is(tab, s) /\ Is(tab', s) /\ s \in Seq(Values) /\ Len(s) <= N /\ before \in Seq(Values)
  BY <1>1, <1>4 DEF DInv, Is, DataType
<1>6. Visible' = s
  BY <1>2, <1>5, ListNext DEF Visible
<1>7. Moved(before, s)
  BY <1>1, <1>4 DEF DInv, Stage
<1>8. CASE s = before
  BY <1>3, <1>6, <1>8
<1>9. ASSUME NEW p \in 1..Len(before) + 1, NEW v \in Values, Inserted(before, p, v, s)
      PROVE  Atomic!InsertOne
  <2>1. s = Atomic!InsertAt(before, p, v)
    BY <1>5, <1>9, InsertIs
  <2>2. Len(before) < N
    <3>1. Len(s) = Len(before) + 1
      BY <1>9 DEF Inserted
    <3>2. QED
      BY <1>5, <3>1
  <2>3. QED
    BY <1>3, <1>6, <2>1, <2>2 DEF Atomic!InsertOne
<1>10. ASSUME NEW p \in 1..Len(before), Removed(before, p, s)
       PROVE  Atomic!RemoveOne
  <2>1. s = Atomic!RemoveAt(before, p)
    BY <1>5, <1>10, RemoveIs
  <2>2. p \in DOMAIN before
    BY <1>5
  <2>3. QED
    BY <1>3, <1>6, <2>1, <2>2 DEF Atomic!RemoveOne
<1>11. QED
  BY <1>7, <1>8, <1>9, <1>10 DEF Moved

LEMMA StepSeen == SInv /\ DInv /\ [Next]_vars => [Atomic!Next]_Visible
<1> SUFFICES ASSUME SInv, DInv, [Next]_vars PROVE [Atomic!Next]_Visible
  OBVIOUS
<1>0. LockType
  BY DEF SInv
<1>1. ASSUME NEW t \in Threads, EnterState(t) \/ LockTable(t) \/ Share(t) \/ Give(t) PROVE Visible' = Visible
  <2>1. UNCHANGED <<tab, before, pc>>
    BY <1>1 DEF EnterState, LockTable, Share, Give
  <2>2. QED
    BY <1>0, <2>1, Unseen
<1>2. ASSUME NEW t \in Threads, StartAccess(t) \/ InsertStart(t) \/ RemoveStart(t) PROVE Visible' = Visible
  <2>1. PICK p, v : p \in {"get", "mark", "set", "ins_lock", "rem_lock"} /\ Start(t, p, v)
    BY <1>2 DEF StartAccess, InsertStart, RemoveStart
  <2>2. pc[t] = "idle" /\ pc' = [pc EXCEPT ![t] = p] /\ UNCHANGED <<tab, before>>
    BY <2>1 DEF Start
  <2>3. pc'[t] = p /\ \A u \in Threads \ {t} : pc'[u] = pc[u]
    BY <1>0, <2>2 DEF LockType
  <2>4. pc[t] \notin Middle /\ pc'[t] \notin Middle
    <3>1. p \in {"get", "mark", "set", "ins_lock", "rem_lock"}
      BY <2>1
    <3>2. QED
      BY <2>2, <2>3, <3>1 DEF Middle
  <2>5. QED
    BY <1>0, <2>2, <2>3, <2>4, Unseen
<1>3. ASSUME NEW t \in Threads, Get(t) \/ Mark(t) PROVE Visible' = Visible
  <2>1. pc[t] \in {"get", "mark"} /\ pc' = [pc EXCEPT ![t] = "idle"] /\ UNCHANGED <<tab, before>>
    BY <1>3 DEF Get, RawGet, Mark, Leave
  <2>2. pc'[t] = "idle" /\ \A u \in Threads \ {t} : pc'[u] = pc[u]
    BY <1>0, <2>1 DEF LockType
  <2>3. pc[t] \notin Middle /\ pc'[t] \notin Middle
    BY <2>1, <2>2 DEF Middle
  <2>4. QED
    BY <1>0, <2>1, <2>2, <2>3, Unseen
<1>4. ASSUME NEW t \in Threads, InsertLength(t) \/ InsertGet(t) \/ InsertPut(t) \/ InsertStore(t)
      PROVE  Visible' = Visible
  <2>1. PICK q \in {"unlock", "ins_get", "ins_put", "ins_store"} : pc' = [pc EXCEPT ![t] = q]
    BY <1>4 DEF InsertLength, LeaveState, InsertGet, InsertPut, InsertStore, RawGet, RawSet, Leave
  <2>2. pc[t] \in Middle /\ before' = before
    BY <1>4 DEF InsertLength, InsertGet, InsertPut, InsertStore, RawGet, RawSet, Middle
  <2>3. pc'[t] = q /\ \A u \in Threads \ {t} : pc'[u] = pc[u]
    BY <1>0, <2>1 DEF LockType
  <2>4. pc'[t] \in Middle
    BY <2>3 DEF Middle
  <2>5. QED
    BY <1>0, <2>2, <2>3, <2>4, Unseen
<1>5. ASSUME NEW t \in Threads,
             RemoveLength(t) \/ RemoveTake(t) \/ RemoveGet(t) \/ RemovePut(t) \/ RemoveClear(t)
      PROVE  Visible' = Visible
  <2>1. PICK q \in {"unlock", "rem_take", "rem_get", "rem_put", "rem_clear"} : pc' = [pc EXCEPT ![t] = q]
    BY <1>5 DEF RemoveLength, LeaveState, RemoveTake, RemoveGet, RemovePut, RemoveClear, RawGet, RawSet, Leave
  <2>2. pc[t] \in Middle /\ before' = before
    BY <1>5 DEF RemoveLength, RemoveTake, RemoveGet, RemovePut, RemoveClear, RawGet, RawSet, Middle
  <2>3. pc'[t] = q /\ \A u \in Threads \ {t} : pc'[u] = pc[u]
    BY <1>0, <2>1 DEF LockType
  <2>4. pc'[t] \in Middle
    BY <2>3 DEF Middle
  <2>5. QED
    BY <1>0, <2>2, <2>3, <2>4, Unseen
<1>6. ASSUME NEW t \in Threads, Lock(t) PROVE Visible' = Visible
  <2>1. \A u \in Threads : pc[u] \notin Middle
    BY <1>6, LockAlone
  <2>2. before' = Elements /\ \E q \in {"ins_len", "rem_len"} : pc' = [pc EXCEPT ![t] = q]
    BY <1>6 DEF Lock
  <2>3. pc'[t] \in Middle
    BY <1>0, <2>2 DEF LockType, Middle
  <2>4. QED
    BY <2>1, <2>2, <2>3 DEF Visible
<1>7. ASSUME NEW t \in Threads, Set(t) PROVE Atomic!AssignFirst
  <2>1. pc[t] = "set" /\ ph[t] = "table" /\ pc' = [pc EXCEPT ![t] = "idle"]
    BY <1>7 DEF Set, RawSet, Leave
  <2>2. \A u \in Threads : pc[u] \notin Middle
    BY <2>1, WriterAlone DEF Writes, Middle
  <2>3. \A u \in Threads : pc'[u] \notin Middle
    <3>1. pc'[t] = "idle" /\ \A u \in Threads \ {t} : pc'[u] = pc[u]
      BY <1>0, <2>1 DEF LockType
    <3>2. QED
      BY <2>2, <3>1 DEF Middle
  <2>4. Visible = Elements /\ Visible' = Elements'
    BY <2>2, <2>3 DEF Visible
  <2>5. /\ val[t] \in Values
        /\ Elements' = IF Elements = <<>> THEN <<val[t]>> ELSE [Elements EXCEPT ![1] = val[t]]
    BY <1>7, SetD
  <2>6. QED
    BY <2>4, <2>5 DEF Atomic!AssignFirst
<1>8. CASE UNCHANGED vars
  <2>1. UNCHANGED <<tab, before, pc>>
    BY <1>8 DEF vars
  <2>2. QED
    BY <1>0, <2>1, Unseen
<1>. QED
  BY <1>1, <1>2, <1>3, <1>4, <1>5, <1>6, <1>7, <1>8, UnlockSeen DEF Next, Atomic!Next

\* An insert, a remove and an assignment of any number of threads, with the
\* reads, the assignments and the traversals of the others in between, are
\* each one step on the list: table.insert and table.remove appear to happen
\* when they unlock the table.
THEOREM OperationsAtomic == Spec => Implements
<1>1. Init => Atomic!Init
  <2> SUFFICES ASSUME Init PROVE Atomic!Init
    OBVIOUS
  <2>1. Is(tab, <<>>) /\ \A t \in Threads : pc[t] \notin Middle
    BY DEF Init, Is, Middle
  <2>2. Elements = <<>>
    BY <2>1, ListNow
  <2>3. QED
    BY <2>1, <2>2 DEF Visible, Atomic!Init
<1>2. SInv /\ DInv /\ [Next]_vars => [Atomic!Next]_Visible
  BY StepSeen
<1>3. QED
  BY <1>1, <1>2, LocksInvariant, DataInvariant, PTL DEF Spec, Implements, Atomic!Spec

\* The locks, the table and the locals have their types: no position leaves
\* the table.
THEOREM TablesTyped == Spec => []TypeOK
<1>1. SInv /\ DInv => TypeOK
  BY DEF SInv, DInv, LockType, DataType, Levels, TypeOK
<1>2. QED
  BY <1>1, LocksInvariant, DataInvariant, PTL
=============================================================================
