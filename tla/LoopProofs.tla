----------------------------- MODULE LoopProofs -----------------------------
(***************************************************************************)
(* Theorems about EventLoop, for any ring, any number of tasks, of workers *)
(* and of timers, and any depth of nested iterations.                      *)
(***************************************************************************)
EXTENDS EventLoop, TLAPS, FiniteSetTheorems, SequenceTheorems, NaturalsInduction, WellFoundedInduction

USE LoopAssumption

-----------------------------------------------------------------------------
(* Sequences without repetitions.                                          *)

Members(s) == {s[k] : k \in 1..Len(s)}
Distinct(s) == \A j, k \in 1..Len(s) : s[j] = s[k] => j = k

LEMMA AppendMembers ==
  ASSUME NEW S, NEW s \in Seq(S), NEW e \in S, Distinct(s), e \notin Members(s)
  PROVE  Members(Append(s, e)) = Members(s) \cup {e} /\ Distinct(Append(s, e))
<1>1. PICK m \in Nat : m = Len(s)
  OBVIOUS
<1>2. PICK r : r = Append(s, e)
  OBVIOUS
<1>3. Len(r) = m + 1 /\ r[m + 1] = e /\ \A k \in 1..m : r[k] = s[k]
  BY <1>1, <1>2, AppendProperties
<1>4. \A k \in 1..m + 1 : k \in 1..m \/ k = m + 1
  OBVIOUS
<1>5. Members(r) = Members(s) \cup {e}
  <2>1. \A x : x \in Members(r) => x \in Members(s) \cup {e}
    BY <1>1, <1>3, <1>4 DEF Members
  <2>2. \A x : x \in Members(s) \cup {e} => x \in Members(r)
    BY <1>1, <1>3 DEF Members
  <2>3. QED
    BY <2>1, <2>2
<1>6. \A k \in 1..m : s[k] # e
  BY <1>1 DEF Members
<1>7. Distinct(r)
  BY <1>1, <1>3, <1>4, <1>6 DEF Distinct
<1>8. QED
  BY <1>2, <1>5, <1>7

LEMMA TailMembers ==
  ASSUME NEW S, NEW s \in Seq(S), s # <<>>, Distinct(s)
  PROVE  /\ Head(s) = s[1] /\ Head(s) \in Members(s)
         /\ Members(Tail(s)) = Members(s) \ {Head(s)} /\ Distinct(Tail(s))
<1>1. PICK m \in Nat : m = Len(s)
  OBVIOUS
<1>2. m # 0
  BY <1>1
<1>3. PICK r : r = Tail(s)
  OBVIOUS
<1>4. Len(r) = m - 1 /\ \A k \in 1..m - 1 : r[k] = s[k + 1]
  BY <1>1, <1>3, HeadTailProperties
<1>5. Head(s) = s[1] /\ 1 \in 1..m
  BY <1>2
<1>6. Members(r) = Members(s) \ {s[1]}
  <2>1. ASSUME NEW x \in Members(r) PROVE x \in Members(s) /\ x # s[1]
    <3>1. PICK k \in 1..m - 1 : x = s[k + 1]
      BY <1>2, <1>4 DEF Members
    <3>2. k + 1 \in 1..m /\ k + 1 # 1
      BY <1>2
    <3>3. QED
      BY <1>1, <1>5, <3>1, <3>2 DEF Members, Distinct
  <2>2. ASSUME NEW x \in Members(s), x # s[1] PROVE x \in Members(r)
    <3>1. PICK k \in 1..m : x = s[k]
      BY <1>1 DEF Members
    <3>2. k - 1 \in 1..m - 1 /\ (k - 1) + 1 = k
      BY <2>2, <3>1
    <3>3. QED
      BY <1>4, <3>1, <3>2 DEF Members
  <2>3. QED
    BY <2>1, <2>2
<1>7. Distinct(r)
  <2>1. \A k \in 1..m - 1 : k + 1 \in 1..m
    BY <1>2
  <2>2. QED
    BY <1>1, <1>4, <2>1 DEF Distinct
<1>8. Head(s) \in Members(s)
  BY <1>1, <1>5 DEF Members
<1>9. QED
  BY <1>3, <1>5, <1>6, <1>7, <1>8

-----------------------------------------------------------------------------
(* The ring.                                                               *)

\* The k-th slot from f.
Slot(f, k) == IF f + k < Capacity THEN f + k ELSE f + k - Capacity

LEMMA Wrap ==
  ASSUME NEW x \in Nat, x < Capacity + Capacity
  PROVE  x % Capacity = IF x < Capacity THEN x ELSE x - Capacity
OBVIOUS

LEMMA SlotIs ==
  ASSUME NEW f \in Slots, NEW k \in 0..Capacity
  PROVE  (f + k) % Capacity = Slot(f, k) /\ Slot(f, k) \in Slots
<1>1. f + k \in Nat /\ f + k < Capacity + Capacity
  BY DEF Slots
<1>2. QED
  BY <1>1, Wrap DEF Slot, Slots

LEMMA SlotApart ==
  ASSUME NEW f \in Slots, NEW j \in 0..Capacity, NEW k \in 0..Capacity - 1, j < k
  PROVE  Slot(f, j) # Slot(f, k)
BY DEF Slot, Slots

RingType ==
  /\ ring \in [Slots -> Tasks \cup {NoTask}]
  /\ front \in Slots /\ tasks \in 0..Capacity
  /\ rear = Slot(front, tasks)
  /\ \A k \in 1..tasks : ring[Slot(front, k - 1)] \in Tasks

LEMMA RingList ==
  ASSUME RingType
  PROVE  /\ InRing \in Seq(Tasks) /\ Len(InRing) = tasks
         /\ \A k \in 1..tasks : InRing[k] = ring[Slot(front, k - 1)]
<1>1. tasks \in Nat /\ tasks \in 0..Capacity /\ front \in Slots
  BY DEF RingType
<1>2. ASSUME NEW k \in 1..tasks
      PROVE  ring[(front + k - 1) % Capacity] = ring[Slot(front, k - 1)]
  <2>1. k - 1 \in 0..Capacity /\ front + (k - 1) = front + k - 1
    BY <1>1 DEF Slots
  <2>2. QED
    BY <1>1, <2>1, SlotIs
<1>3. \A k \in 1..tasks : ring[(front + k - 1) % Capacity] \in Tasks
  BY <1>2 DEF RingType
<1>4. QED
  BY <1>1, <1>2, <1>3 DEF InRing

LEMMA RingListNext ==
  ASSUME RingType'
  PROVE  /\ InRing' \in Seq(Tasks) /\ Len(InRing') = tasks'
         /\ \A k \in 1..tasks' : InRing'[k] = ring'[Slot(front', k - 1)]
<1>1. tasks' \in Nat /\ tasks' \in 0..Capacity /\ front' \in Slots
  BY DEF RingType
<1>2. ASSUME NEW k \in 1..tasks'
      PROVE  ring'[(front' + k - 1) % Capacity] = ring'[Slot(front', k - 1)]
  <2>1. k - 1 \in 0..Capacity /\ front' + (k - 1) = front' + k - 1
    BY <1>1 DEF Slots
  <2>2. QED
    BY <1>1, <2>1, SlotIs
<1>3. \A k \in 1..tasks' : ring'[(front' + k - 1) % Capacity] \in Tasks
  BY <1>2 DEF RingType
<1>4. QED
  BY <1>1, <1>2, <1>3 DEF InRing

\* A task is put behind those that wait: the slot is free, however the
\* positions have wrapped around.
LEMMA PushAppends ==
  ASSUME RingType, ~Full, NEW t \in Tasks, Push(t)
  PROVE  RingType' /\ InRing' = Append(InRing, t)
<1>1. /\ ring' = [ring EXCEPT ![rear] = t] /\ rear' = (rear + 1) % Capacity
      /\ tasks' = tasks + 1 /\ front' = front
  BY DEF Push
<1>2. PICK f \in Slots : f = front
  BY DEF RingType
<1>3. PICK n \in 0..Capacity - 1 : n = tasks
  BY DEF RingType, Full
<1>4. rear = Slot(f, n) /\ rear \in Slots
  BY <1>2, <1>3, SlotIs DEF RingType
<1>5. ring'[rear] = t /\ \A s \in Slots : s # rear => ring'[s] = ring[s]
  BY <1>1, <1>4 DEF RingType
<1>6. rear' = Slot(f, n + 1)
  <2>1. PICK x \in Slots : x = rear
    BY <1>4
  <2>2. (x + 1) % Capacity = Slot(x, 1)
    BY SlotIs
  <2>3. QED
    BY <1>1, <1>2, <1>3, <1>4, <2>1, <2>2 DEF Slot, Slots
<1>7. ASSUME NEW k \in 1..n PROVE ring'[Slot(f, k - 1)] = ring[Slot(f, k - 1)]
  <2>1. k - 1 \in 0..Capacity /\ k - 1 < n
    OBVIOUS
  <2>2. Slot(f, k - 1) # Slot(f, n) /\ Slot(f, k - 1) \in Slots
    BY <2>1, SlotApart, SlotIs
  <2>3. QED
    BY <1>4, <1>5, <2>2
<1>8. RingType'
  <2>1. \A k \in 1..n + 1 : ring'[Slot(f, k - 1)] \in Tasks
    <3>1. \A k \in 1..n : ring'[Slot(f, k - 1)] \in Tasks
      BY <1>2, <1>3, <1>7 DEF RingType
    <3>2. ring'[Slot(f, (n + 1) - 1)] \in Tasks
      BY <1>4, <1>5
    <3>3. \A k \in 1..n + 1 : k \in 1..n \/ k = n + 1
      OBVIOUS
    <3>4. QED
      BY <3>1, <3>2, <3>3
  <2>2. ring' \in [Slots -> Tasks \cup {NoTask}]
    BY <1>1 DEF RingType
  <2>3. n + 1 \in 0..Capacity
    OBVIOUS
  <2>4. QED
    BY <1>1, <1>2, <1>3, <1>6, <2>1, <2>2, <2>3 DEF RingType
<1>9. PICK s \in Seq(Tasks) : s = InRing
  BY RingList
<1>10. PICK r \in Seq(Tasks) : r = InRing'
  BY <1>8, RingListNext
<1>11. Len(s) = n /\ \A k \in 1..n : s[k] = ring[Slot(f, k - 1)]
  BY <1>2, <1>3, <1>9, RingList
<1>12. Len(r) = n + 1 /\ \A k \in 1..n + 1 : r[k] = ring'[Slot(f, k - 1)]
  BY <1>1, <1>2, <1>3, <1>8, <1>10, RingListNext
<1>13. r[n + 1] = t /\ \A k \in 1..n : r[k] = s[k]
  <2>1. r[n + 1] = ring'[Slot(f, (n + 1) - 1)]
    BY <1>12
  <2>2. ASSUME NEW k \in 1..n PROVE r[k] = s[k]
    <3>1. k \in 1..n + 1
      OBVIOUS
    <3>2. r[k] = ring'[Slot(f, k - 1)]
      BY ONLY <1>12, <3>1
    <3>3. s[k] = ring[Slot(f, k - 1)]
      BY ONLY <1>11, k \in 1..n
    <3> QED BY ONLY <1>7, <3>2, <3>3, k \in 1..n
  <2>3. QED
    BY <1>4, <1>5, <2>1, <2>2
<1>14. PICK q \in Seq(Tasks) : q = Append(s, t)
  <2>1. Append(s, t) \in Seq(Tasks)
    OBVIOUS
  <2>2. QED
    BY <2>1
<1>15. Len(q) = n + 1 /\ q[n + 1] = t /\ \A k \in 1..n : q[k] = s[k]
  BY <1>11, <1>14, AppendProperties
<1>16. \A k \in 1..n + 1 : r[k] = q[k]
  <2>1. \A k \in 1..n + 1 : k \in 1..n \/ k = n + 1
    OBVIOUS
  <2>2. QED
    BY <1>13, <1>15, <2>1
<1>17. r = q
  BY <1>12, <1>15, <1>16, SeqEqual
<1>18. QED
  BY <1>8, <1>9, <1>10, <1>14, <1>17

LEMMA PopTakesFirst ==
  ASSUME RingType, tasks > 0, Pop
  PROVE  /\ RingType' /\ InRing # <<>> /\ ring[front] = Head(InRing)
         /\ ring[front] \in Tasks /\ InRing' = Tail(InRing)
<1>1. /\ front' = (front + 1) % Capacity /\ tasks' = tasks - 1
      /\ ring' = [ring EXCEPT ![front] = NoTask] /\ rear' = rear
  BY DEF Pop
<1>2. PICK f \in Slots : f = front
  BY DEF RingType
<1>3. PICK n \in 1..Capacity : n = tasks
  BY DEF RingType
<1>4. PICK g \in Slots : g = Slot(f, 1)
  BY SlotIs
<1>5. front' = g
  BY <1>1, <1>2, <1>4, SlotIs
<1>6. \A k \in 0..Capacity - 1 : Slot(g, k) = Slot(f, k + 1)
  BY <1>4 DEF Slot, Slots
<1>7. Slot(f, 0) = f
  BY DEF Slot, Slots
<1>8. ASSUME NEW k \in 1..n - 1 PROVE ring'[Slot(g, k - 1)] = ring[Slot(f, k)]
  <2>1. k - 1 \in 0..Capacity - 1 /\ (k - 1) + 1 = k /\ k \in 0..Capacity - 1
    OBVIOUS
  <2>2. Slot(g, k - 1) = Slot(f, k)
    BY <1>6, <2>1
  <2>3. Slot(f, k) \in Slots /\ Slot(f, k) # f
    BY <1>7, <2>1, SlotIs, SlotApart
  <2>4. QED
    BY <1>1, <1>2, <2>2, <2>3 DEF RingType
<1>9. \A k \in 1..n : ring[Slot(f, k - 1)] \in Tasks
  BY <1>2, <1>3 DEF RingType
<1>10. RingType'
  <2>1. \A k \in 1..n - 1 : ring'[Slot(g, k - 1)] \in Tasks
    <3>1. \A k \in 1..n - 1 : k + 1 \in 1..n /\ (k + 1) - 1 = k
      OBVIOUS
    <3>2. QED
      BY <1>8, <1>9, <3>1
  <2>2. ring' \in [Slots -> Tasks \cup {NoTask}]
    BY <1>1 DEF RingType
  <2>3. n - 1 \in 0..Capacity - 1 /\ (n - 1) + 1 = n /\ n - 1 \in 0..Capacity
    OBVIOUS
  <2>4. rear' = Slot(g, n - 1)
    BY <1>1, <1>2, <1>3, <1>6, <2>3 DEF RingType
  <2>5. QED
    BY <1>1, <1>3, <1>5, <2>1, <2>2, <2>3, <2>4 DEF RingType
<1>11. PICK s \in Seq(Tasks) : s = InRing
  BY RingList
<1>12. PICK r \in Seq(Tasks) : r = InRing'
  BY <1>10, RingListNext
<1>13. Len(s) = n /\ \A k \in 1..n : s[k] = ring[Slot(f, k - 1)]
  BY <1>2, <1>3, <1>11, RingList
<1>14. Len(r) = n - 1 /\ \A k \in 1..n - 1 : r[k] = ring'[Slot(g, k - 1)]
  BY <1>1, <1>3, <1>5, <1>10, <1>12, RingListNext
<1>15. s # <<>> /\ Head(s) = s[1]
  BY <1>13
<1>16. s[1] = ring[f] /\ ring[f] \in Tasks
  <2>1. s[1] = ring[Slot(f, 1 - 1)] /\ ring[Slot(f, 1 - 1)] \in Tasks
    BY <1>9, <1>13
  <2>2. QED
    BY <1>7, <2>1
<1>17. PICK q \in Seq(Tasks) : q = Tail(s)
  <2>1. Tail(s) \in Seq(Tasks)
    BY <1>15
  <2>2. QED
    BY <2>1
<1>18. Len(q) = n - 1 /\ \A k \in 1..n - 1 : q[k] = s[k + 1]
  BY <1>13, <1>15, <1>17, HeadTailProperties
<1>19. ASSUME NEW k \in 1..n - 1 PROVE r[k] = q[k]
  <2>1. k + 1 \in 1..n /\ (k + 1) - 1 = k
    OBVIOUS
  <2>2. s[k + 1] = ring[Slot(f, k)]
    BY <1>13, <2>1
  <2>3. QED
    BY <1>8, <1>14, <1>18, <2>2
<1>20. r = q
  BY <1>14, <1>18, <1>19, SeqEqual
<1>21. QED
  BY <1>2, <1>10, <1>11, <1>12, <1>15, <1>16, <1>17, <1>20

-----------------------------------------------------------------------------
(* Where a task is.                                                        *)

Held(h) == {h[w] : w \in Workers} \ {NoTask}

\* Six sets of tasks that are the parts of P.
Parts(A, B, C, D, E, F, P) ==
  /\ A \cap (B \cup C \cup D \cup E \cup F) = {}
  /\ B \cap (C \cup D \cup E \cup F) = {}
  /\ C \cap (D \cup E \cup F) = {}
  /\ D \cap (E \cup F) = {}
  /\ E \cap F = {}
  /\ A \cup B \cup C \cup D \cup E \cup F = P

HandType ==
  /\ pc \in [Workers -> {"lock", "wait", "work", "post", "gone"}]
  /\ hand \in [Workers -> Items \cup {NoTask}]
  /\ \A w \in Workers : hand[w] # NoTask <=> pc[w] \in {"work", "post"}

PlaceType ==
  /\ RingType /\ HandType
  /\ work \in Seq(Items) /\ pool \in BOOLEAN
  /\ posted \subseteq Tasks /\ started \subseteq Tasks
  /\ inline \subseteq Items /\ lost \subseteq Items

\* Every task that was accepted is in one place.
Placed ==
  /\ Distinct(work) /\ Distinct(InRing)
  /\ \A v, w \in Workers : hand[v] = hand[w] /\ hand[v] # NoTask => v = w
  /\ Parts(Members(work), Held(hand), Members(InRing), started, inline, lost, posted)

PInv == PlaceType /\ Placed

placeVars == <<ringVars, work, pool, hand, posted, started, inline, lost>>

LEMMA InitPInv == Init => PInv
<1> SUFFICES ASSUME Init PROVE PInv
  OBVIOUS
<1>1. front = 0 /\ tasks = 0 /\ rear = 0 /\ ring = [s \in Slots |-> NoTask]
  BY DEF Init
<1>2. RingType
  BY <1>1 DEF RingType, Slots, Slot
<1>3. Len(InRing) = 0 /\ Len(work) = 0 /\ work = <<>>
  BY <1>1, <1>2, RingList DEF Init
<1>4. HandType
  BY DEF Init, HandType
<1>5. PlaceType
  BY <1>2, <1>4 DEF Init, PlaceType
<1>6. Members(work) = {} /\ Members(InRing) = {} /\ Distinct(work) /\ Distinct(InRing) /\ Held(hand) = {}
  BY <1>3 DEF Members, Distinct, Held, Init
<1>7. Placed
  BY <1>6 DEF Init, Placed, Parts
<1>8. QED
  BY <1>5, <1>7 DEF PInv

\* A step that moves no task and lets no worker that has one go.
LEMMA SameP ==
  ASSUME PInv, UNCHANGED <<ringVars, work, hand, posted, started, inline, lost>>, pool' \in BOOLEAN, HandType'
  PROVE  PInv'
<1>1. RingType' /\ PlaceType'
  BY DEF PInv, PlaceType, RingType, ringVars
<1>2. UNCHANGED InRing
  BY DEF InRing, ringVars
<1>3. Placed'
  BY <1>2 DEF PInv, Placed
<1>4. QED
  BY <1>1, <1>3 DEF PInv

LEMMA PostP ==
  ASSUME PInv, NEW t \in Posts, Post(t)
  PROVE  PInv' /\ InRing' = Append(InRing, t) /\ Len(InRing) < Capacity
<1>1. /\ t \notin posted /\ ~Full /\ Push(t) /\ posted' = posted \cup {t} /\ t \in Tasks
      /\ UNCHANGED <<work, pool, pc, hand, started, inline, lost>>
  BY DEF Post, poolVars, Tasks
<1>2. RingType /\ RingType' /\ InRing' = Append(InRing, t)
  BY <1>1, PushAppends DEF PInv, PlaceType
<1>3. PlaceType'
  BY <1>1, <1>2 DEF PInv, PlaceType, HandType
<1>4. PICK s \in Seq(Tasks) : s = InRing
  BY <1>2, RingList
<1>5. PICK A : A = Members(s)
  OBVIOUS
<1>6. Distinct(s) /\ t \notin A
  BY <1>1, <1>4, <1>5 DEF PInv, Placed, Parts
<1>7. Members(InRing') = A \cup {t} /\ Distinct(InRing')
  BY <1>1, <1>2, <1>4, <1>5, <1>6, AppendMembers
<1>8. Parts(Members(work), Held(hand), A, started, inline, lost, posted)
  BY <1>4, <1>5 DEF PInv, Placed
<1>9. Parts(Members(work), Held(hand), A \cup {t}, started, inline, lost, posted \cup {t})
  BY <1>1, <1>8 DEF Parts
<1>10. Placed'
  BY <1>1, <1>7, <1>9 DEF PInv, Placed
<1>11. Len(InRing) < Capacity
  BY <1>1, <1>2, RingList DEF Full, RingType
<1>12. QED
  BY <1>2, <1>3, <1>10, <1>11 DEF PInv

LEMMA SignalKeepsHands ==
  ASSUME HandType, hand' = hand, Signal
  PROVE  HandType'
<1>1. CASE pc' = pc
  BY <1>1 DEF HandType
<1>2. ASSUME NEW w \in Sleeping, pc' = [pc EXCEPT ![w] = "lock"] PROVE HandType'
  BY <1>2 DEF HandType, Sleeping
<1>3. QED
  BY <1>1, <1>2 DEF Signal

LEMMA RunInPoolP ==
  ASSUME PInv, NEW i \in Items, RunInPool(i)
  PROVE  PInv'
<1>1. /\ i \notin posted /\ posted' = posted \cup {i} /\ i \in Tasks
      /\ UNCHANGED <<ringVars, pool, hand, started, lost>>
  BY DEF RunInPool, Tasks
<1>2. RingType' /\ InRing' = InRing
  BY <1>1 DEF PInv, PlaceType, RingType, InRing, ringVars
<1>3. PICK A : A = Members(work)
  OBVIOUS
<1>4. Parts(A, Held(hand), Members(InRing), started, inline, lost, posted)
  BY <1>3 DEF PInv, Placed
<1>5. CASE pool
  <2>1. work' = Append(work, i) /\ Signal /\ inline' = inline
    BY <1>5 DEF RunInPool
  <2>2. HandType'
    BY <1>1, <2>1, SignalKeepsHands DEF PInv, PlaceType
  <2>3. work \in Seq(Items) /\ Distinct(work) /\ i \notin Members(work)
    BY <1>1, <1>3, <1>4 DEF PInv, PlaceType, Placed, Parts
  <2>4. work' \in Seq(Items)
    BY <2>1, <2>3
  <2>5. Members(work') = A \cup {i} /\ Distinct(work')
    BY <1>3, <2>1, <2>3, AppendMembers
  <2>6. Parts(A \cup {i}, Held(hand), Members(InRing), started, inline, lost, posted \cup {i})
    BY <1>1, <1>4 DEF Parts
  <2>7. Placed'
    BY <1>1, <1>2, <2>1, <2>5, <2>6 DEF PInv, Placed
  <2>8. PlaceType'
    BY <1>1, <1>2, <2>1, <2>2, <2>4 DEF PInv, PlaceType
  <2>9. QED
    BY <2>7, <2>8 DEF PInv
<1>6. CASE ~pool
  <2>1. inline' = inline \cup {i} /\ UNCHANGED <<work, pc>>
    BY <1>6 DEF RunInPool
  <2>2. Parts(A, Held(hand), Members(InRing), started, inline \cup {i}, lost, posted \cup {i})
    BY <1>1, <1>4 DEF Parts
  <2>3. Placed'
    BY <1>1, <1>2, <1>3, <2>1, <2>2 DEF PInv, Placed
  <2>4. PlaceType'
    BY <1>1, <1>2, <2>1 DEF PInv, PlaceType, HandType
  <2>5. QED
    BY <2>3, <2>4 DEF PInv
<1>7. QED
  BY <1>5, <1>6 DEF PInv, PlaceType

LEMMA WorkerTakesP ==
  ASSUME PInv, NEW w \in Workers, WorkerTakes(w)
  PROVE  PInv'
<1>1. /\ pc[w] = "lock" /\ work # <<>> /\ hand' = [hand EXCEPT ![w] = Head(work)] /\ work' = Tail(work)
      /\ pc' = [pc EXCEPT ![w] = "work"] /\ UNCHANGED <<ringVars, pool, posted, started, inline, lost>>
  BY DEF WorkerTakes
<1>2. PICK s \in Seq(Items) : s = work
  BY DEF PInv, PlaceType
<1>3. PICK x \in Items : x = Head(s)
  BY <1>1, <1>2
<1>4. PICK A : A = Members(s)
  OBVIOUS
<1>5. x \in A /\ Members(work') = A \ {x} /\ Distinct(work')
  BY <1>1, <1>2, <1>3, <1>4, TailMembers DEF PInv, Placed
<1>6. HandType /\ hand[w] = NoTask /\ x # NoTask
  BY <1>1, <1>3 DEF PInv, PlaceType, HandType
<1>7. hand'[w] = x /\ \A v \in Workers \ {w} : hand'[v] = hand[v]
  BY <1>1, <1>2, <1>3, <1>6 DEF HandType
<1>8. HandType'
  BY <1>1, <1>2, <1>3, <1>6 DEF HandType
<1>9. PICK B : B = Held(hand)
  OBVIOUS
<1>10. Held(hand') = B \cup {x}
  <2>1. \A y : y \in Held(hand') => y \in B \cup {x}
    BY <1>7, <1>9 DEF Held
  <2>2. \A y : y \in B \cup {x} => y \in Held(hand')
    BY <1>6, <1>7, <1>9 DEF Held
  <2>3. QED
    BY <2>1, <2>2
<1>11. Parts(A, B, Members(InRing), started, inline, lost, posted)
  BY <1>2, <1>4, <1>9 DEF PInv, Placed
<1>12. Parts(A \ {x}, B \cup {x}, Members(InRing), started, inline, lost, posted)
  BY <1>5, <1>11 DEF Parts
<1>13. \A u, v \in Workers : hand'[u] = hand'[v] /\ hand'[u] # NoTask => u = v
  <2>1. \A v \in Workers : hand[v] # x
    BY <1>5, <1>6, <1>9, <1>11 DEF Parts, Held
  <2>2. QED
    BY <1>7, <2>1 DEF PInv, Placed
<1>14. UNCHANGED InRing /\ RingType'
  BY <1>1 DEF PInv, PlaceType, RingType, InRing, ringVars
<1>15. Placed'
  BY <1>1, <1>5, <1>10, <1>12, <1>13, <1>14 DEF PInv, Placed
<1>16. work' \in Seq(Items)
  BY <1>1, <1>2
<1>17. PlaceType'
  BY <1>1, <1>8, <1>14, <1>16 DEF PInv, PlaceType
<1>18. QED
  BY <1>15, <1>17 DEF PInv

LEMMA WorkerPostsP ==
  ASSUME PInv, NEW w \in Workers, WorkerPosts(w)
  PROVE  /\ PInv'
         /\ \/ InRing' = InRing
            \/ \E t \in Tasks : InRing' = Append(InRing, t) /\ Len(InRing) < Capacity
<1>1. /\ pc[w] = "post" /\ pc' = [pc EXCEPT ![w] = "lock"] /\ hand' = [hand EXCEPT ![w] = NoTask]
      /\ UNCHANGED <<work, pool, posted, started, inline>>
  BY DEF WorkerPosts
<1>2. HandType
  BY DEF PInv, PlaceType
<1>3. PICK x \in Items : x = hand[w]
  BY <1>1, <1>2 DEF HandType
<1>4. x \in Tasks /\ x # NoTask
  BY DEF Tasks
<1>5. hand'[w] = NoTask /\ \A v \in Workers \ {w} : hand'[v] = hand[v]
  BY <1>1, <1>2 DEF HandType
<1>6. HandType'
  BY <1>1, <1>2 DEF HandType
<1>7. PICK B : B = Held(hand)
  OBVIOUS
<1>8. x \in B
  BY <1>3, <1>4, <1>7 DEF Held
<1>9. \A v \in Workers \ {w} : hand[v] # x
  BY <1>3, <1>4 DEF PInv, Placed
<1>10. Held(hand') = B \ {x}
  <2>1. \A y : y \in Held(hand') => y \in B \ {x}
    BY <1>5, <1>7, <1>9 DEF Held
  <2>2. \A y : y \in B \ {x} => y \in Held(hand')
    BY <1>3, <1>5, <1>7 DEF Held
  <2>3. QED
    BY <2>1, <2>2
<1>11. \A u, v \in Workers : hand'[u] = hand'[v] /\ hand'[u] # NoTask => u = v
  BY <1>5 DEF PInv, Placed
<1>12. Members(work') = Members(work) /\ Distinct(work')
  BY <1>1 DEF PInv, Placed
<1>13. CASE Full
  <2>1. lost' = lost \cup {x} /\ UNCHANGED ringVars
    BY <1>3, <1>13 DEF WorkerPosts
  <2>2. UNCHANGED InRing /\ RingType'
    BY <2>1 DEF PInv, PlaceType, RingType, InRing, ringVars
  <2>3. Parts(Members(work), B, Members(InRing), started, inline, lost, posted)
    BY <1>7 DEF PInv, Placed
  <2>4. Parts(Members(work), B \ {x}, Members(InRing), started, inline, lost \cup {x}, posted)
    BY <1>8, <2>3 DEF Parts
  <2>5. Placed'
    BY <1>1, <1>10, <1>11, <1>12, <2>1, <2>2, <2>4 DEF PInv, Placed
  <2>6. PlaceType'
    BY <1>1, <1>6, <2>1, <2>2 DEF PInv, PlaceType
  <2>7. QED
    BY <2>2, <2>5, <2>6 DEF PInv
<1>14. CASE ~Full
  <2>1. Push(x) /\ lost' = lost
    BY <1>3, <1>14 DEF WorkerPosts
  <2>2. RingType /\ RingType' /\ InRing' = Append(InRing, x)
    BY <1>4, <1>14, <2>1, PushAppends DEF PInv, PlaceType
  <2>3. PICK s \in Seq(Tasks) : s = InRing
    BY <2>2, RingList
  <2>4. PICK C : C = Members(s)
    OBVIOUS
  <2>5. Parts(Members(work), B, C, started, inline, lost, posted) /\ Distinct(s)
    BY <1>7, <2>3, <2>4 DEF PInv, Placed
  <2>6. x \notin C
    BY <1>8, <2>5 DEF Parts
  <2>7. Members(InRing') = C \cup {x} /\ Distinct(InRing')
    BY <1>4, <2>2, <2>3, <2>4, <2>5, <2>6, AppendMembers
  <2>8. Parts(Members(work), B \ {x}, C \cup {x}, started, inline, lost, posted)
    BY <1>8, <2>5 DEF Parts
  <2>9. Placed'
    BY <1>1, <1>10, <1>11, <1>12, <2>1, <2>7, <2>8 DEF PInv, Placed
  <2>10. PlaceType'
    BY <1>1, <1>6, <2>1, <2>2 DEF PInv, PlaceType
  <2>11. Len(InRing) < Capacity
    BY <1>14, <2>2, RingList DEF Full, RingType
  <2>12. QED
    BY <1>4, <2>2, <2>9, <2>10, <2>11 DEF PInv
<1>15. QED
  BY <1>13, <1>14

\* Taking the task at the first place takes the head.
LEMMA FirstRemoved ==
  ASSUME NEW S, NEW s \in Seq(S), s # <<>>
  PROVE  RemoveAt(s, 1) = Tail(s)
<1>1. SubSeq(s, 1, 0) = <<>>
  BY SubSeqEmpty
<1>2. Tail(s) = SubSeq(s, 2, Len(s)) /\ Tail(s) \in Seq(S)
  BY TailIsSubSeq, HeadTailProperties
<1>3. <<>> \o Tail(s) = Tail(s)
  BY <1>2
<1> QED BY <1>1, <1>2, <1>3 DEF RemoveAt

LEMMA RunTaskP ==
  ASSUME PInv, RunTask
  PROVE  PInv' /\ \E k \in 1 .. Len(InRing) : Queue!Run(k)
<1>1. /\ tasks > 0 /\ started' = started \cup {ring[front]} /\ Pop
      /\ UNCHANGED <<work, pool, pc, hand, posted, inline, lost>>
  BY DEF RunTask, poolVars
<1>2. /\ RingType' /\ InRing # <<>> /\ ring[front] = Head(InRing)
      /\ ring[front] \in Tasks /\ InRing' = Tail(InRing)
  BY <1>1, PopTakesFirst DEF PInv, PlaceType
<1>3. PICK s \in Seq(Tasks) : s = InRing
  BY RingList DEF PInv, PlaceType
<1>4. PICK x \in Tasks : x = ring[front]
  BY <1>2
<1>5. PICK C : C = Members(s)
  OBVIOUS
<1>6. Parts(Members(work), Held(hand), C, started, inline, lost, posted) /\ Distinct(s)
  BY <1>3, <1>5 DEF PInv, Placed
<1>7. x \in C /\ Members(InRing') = C \ {x} /\ Distinct(InRing')
  BY <1>2, <1>3, <1>4, <1>5, <1>6, TailMembers
<1>8. Parts(Members(work), Held(hand), C \ {x}, started \cup {x}, inline, lost, posted)
  BY <1>6, <1>7 DEF Parts
<1>9. Placed'
  BY <1>1, <1>4, <1>7, <1>8 DEF PInv, Placed
<1>10. PlaceType'
  BY <1>1, <1>2, <1>4 DEF PInv, PlaceType, HandType
<1>11. x \notin started
  BY <1>6, <1>7 DEF Parts
<1>12. /\ 1 \in 1 .. Len(s) /\ Head(s) = s[1]
       /\ RemoveAt(s, 1) = Tail(s)
  <2>1. s # <<>>
    BY <1>2, <1>3
  <2>2. 1 \in 1 .. Len(s) /\ Head(s) = s[1]
    BY <2>1
  <2>3. RemoveAt(s, 1) = Tail(s)
    BY <2>1, FirstRemoved
  <2> QED BY <2>2, <2>3
<1>13. Queue!Run(1)
  <2>1. InRing[1] = x /\ InRing' = Queue!RemoveAt(InRing, 1)
    BY <1>2, <1>3, <1>4, <1>12 DEF RemoveAt, Queue!RemoveAt
  <2>2. started' = started \cup {x} /\ x \notin started
    BY <1>1, <1>4, <1>11
  <2>3. \A j \in 1 .. 1 - 1 : Class[InRing[j]] # Class[InRing[1]]
    OBVIOUS
  <2> QED BY ONLY <2>1, <2>2, <2>3 DEF Queue!Run
<1>14. QED
  BY <1>3, <1>9, <1>10, <1>12, <1>13 DEF PInv

LEMMA DestroyedP ==
  ASSUME PInv, Destroyed
  PROVE  PInv' /\ InRing' = InRing
<1>1. /\ lost' = lost \cup WorkLeft /\ work' = <<>>
      /\ UNCHANGED <<ringVars, pool, pc, hand, posted, started, inline>>
  BY DEF Destroyed
<1>2. WorkLeft = Members(work)
  BY DEF WorkLeft, Members, PInv, PlaceType
<1>3. PICK A : A = Members(work)
  OBVIOUS
<1>4. A \subseteq Items
  BY <1>2, <1>3 DEF WorkLeft
<1>5. UNCHANGED InRing /\ RingType'
  BY <1>1 DEF PInv, PlaceType, RingType, InRing, ringVars
<1>6. Members(work') = {} /\ Distinct(work')
  BY <1>1 DEF Members, Distinct
<1>7. Parts(A, Held(hand), Members(InRing), started, inline, lost, posted)
  BY <1>3 DEF PInv, Placed
<1>8. Parts({}, Held(hand), Members(InRing), started, inline, lost \cup A, posted)
  BY <1>7 DEF Parts
<1>9. Placed'
  BY <1>1, <1>2, <1>3, <1>5, <1>6, <1>8 DEF PInv, Placed
<1>10. PlaceType'
  BY <1>1, <1>2, <1>3, <1>4, <1>5 DEF PInv, PlaceType, HandType
<1>11. QED
  BY <1>5, <1>9, <1>10 DEF PInv

\* Every other step leaves each task where it is.
LEMMA QuietP ==
  ASSUME PInv,
         \/ \E w \in Workers : WorkerWaits(w) \/ WorkerWorks(w) \/ WorkerExits(w) \/ WorkerWakes(w)
         \/ \E m \in Timers : StartTimer(m) \/ StopTimer(m)
         \/ \E d \in Drivers : Drive(d)
         \/ Iterate \/ RunEnds \/ EndTask \/ TasksDone \/ (\E e \in timers : FireTimer(e))
         \/ EndTimer \/ TimersDone \/ PollEnds
         \/ AwaitEnds \/ Stop \/ Destroy \/ Tick \/ UNCHANGED vars
  PROVE  PInv' /\ UNCHANGED <<InRing, started>>
<1>1. UNCHANGED <<ringVars, work, hand, posted, started, inline, lost>> /\ pool' \in BOOLEAN
  BY DEF WorkerWaits, WorkerWorks, WorkerExits, WorkerWakes, StartTimer, StopTimer, Drive, StartRun, Iterate, RunEnds,
     EndTask, TasksDone, FireTimer, EndTimer, TimersDone, PollEnds, AwaitEnds, Stop, Destroy, Tick,
     vars, poolVars, PInv, PlaceType
<1>2. HandType
  BY DEF PInv, PlaceType
<1>3. HandType'
  <2>1. ASSUME NEW w \in Workers, WorkerWaits(w) \/ WorkerWorks(w) \/ WorkerExits(w) \/ WorkerWakes(w)
        PROVE  HandType'
    <3>1. PICK q \in {"wait", "post", "gone", "lock"} :
            pc' = [pc EXCEPT ![w] = q] /\ (q = "post" <=> pc[w] = "work") /\ pc[w] # "post"
      BY <2>1 DEF WorkerWaits, WorkerWorks, WorkerExits, WorkerWakes
    <3>2. QED
      BY <1>1, <1>2, <3>1 DEF HandType
  <2>2. CASE Destroy
    <3>1. pc' = [w \in Workers |-> IF pc[w] = "wait" THEN "lock" ELSE pc[w]]
      BY <2>2 DEF Destroy
    <3>2. QED
      BY <1>1, <1>2, <3>1 DEF HandType
  <2>3. ASSUME UNCHANGED pc PROVE HandType'
    BY <1>1, <1>2, <2>3 DEF HandType
  <2>4. QED
    BY <2>1, <2>2, <2>3 DEF StartTimer, StopTimer, Drive, StartRun, Iterate, RunEnds,
       EndTask, TasksDone, FireTimer, EndTimer, TimersDone, PollEnds, AwaitEnds, Stop, Tick, vars, poolVars
<1>4. PInv'
  BY <1>1, <1>3, SameP
<1>5. QED
  BY <1>1, <1>4 DEF InRing, ringVars

LEMMA StepP == PInv /\ [Next]_vars => PInv' /\ [Queue!Next]_<<InRing, started>>
<1> SUFFICES ASSUME PInv, [Next]_vars PROVE PInv' /\ [Queue!Next]_<<InRing, started>>
  OBVIOUS
<1>1. ASSUME NEW t \in Posts, Post(t) PROVE PInv' /\ [Queue!Next]_<<InRing, started>>
  <2>1. PInv' /\ InRing' = Append(InRing, t) /\ Len(InRing) < Capacity
    BY <1>1, PostP
  <2>2. started' = started /\ t \in Tasks
    BY <1>1 DEF Post, Tasks
  <2>3. Queue!Accept(t)
    BY <2>1, <2>2 DEF Queue!Accept
  <2>4. QED
    BY <2>1, <2>2, <2>3 DEF Queue!Next
<1>2. ASSUME NEW i \in Items, RunInPool(i) PROVE PInv' /\ UNCHANGED <<InRing, started>>
  <2>1. UNCHANGED <<ringVars, started>>
    BY <1>2 DEF RunInPool
  <2>2. QED
    BY <1>2, <2>1, RunInPoolP DEF InRing, ringVars
<1>3. ASSUME NEW w \in Workers, WorkerTakes(w) PROVE PInv' /\ UNCHANGED <<InRing, started>>
  <2>1. UNCHANGED <<ringVars, started>>
    BY <1>3 DEF WorkerTakes
  <2>2. QED
    BY <1>3, <2>1, WorkerTakesP DEF InRing, ringVars
<1>4. ASSUME NEW w \in Workers, WorkerPosts(w) PROVE PInv' /\ [Queue!Next]_<<InRing, started>>
  <2>1. started' = started
    BY <1>4 DEF WorkerPosts
  <2>2. PInv'
    BY <1>4, WorkerPostsP
  <2>3. \/ InRing' = InRing
        \/ \E t \in Tasks : InRing' = Append(InRing, t) /\ Len(InRing) < Capacity
    BY <1>4, WorkerPostsP
  <2>4. QED
    BY <2>1, <2>2, <2>3 DEF Queue!Next, Queue!Accept
<1>5. CASE RunTask
  BY <1>5, RunTaskP DEF Queue!Next
<1>6. CASE Destroyed
  <2>1. PInv' /\ InRing' = InRing
    BY <1>6, DestroyedP
  <2>2. started' = started
    BY <1>6 DEF Destroyed
  <2>3. QED
    BY <2>1, <2>2
<1>. QED
  BY <1>1, <1>2, <1>3, <1>4, <1>5, <1>6, QuietP DEF Next, Worker, LoopThread

LEMMA PlacesInvariant == Spec => []PInv
<1>1. PInv /\ [Next]_vars => PInv'
  BY StepP
<1>2. QED
  BY <1>1, InitPInv, PTL DEF Spec

\* However the positions wrap around, whoever posts, and however iterations
\* are nested: what the ring holds is a queue of at most Capacity tasks; each
\* accepted task leaves it at its head, to be run, and was not run before.
THEOREM TasksInOrder == Spec => Implements
<1>1. Init => Queue!Init
  <2> SUFFICES ASSUME Init PROVE Queue!Init
    OBVIOUS
  <2>1. RingType /\ started = {} /\ tasks = 0
    BY InitPInv DEF PInv, PlaceType, Init
  <2>2. InRing \in Seq(Tasks) /\ Len(InRing) = 0
    BY <2>1, RingList
  <2>3. InRing = <<>>
    BY <2>2
  <2>4. QED
    BY <2>1, <2>3 DEF Queue!Init
<1>2. PInv /\ [Next]_vars => [Queue!Next]_<<InRing, started>>
  BY StepP
<1>3. QED
  BY <1>1, <1>2, PlacesInvariant, PTL DEF Spec, Implements, Queue!Spec, Queue!queueVars

\* An item handed to the pool is in one place: neither does a worker take what
\* another one took, nor is a completion posted and lost, nor does destroying
\* the loop forget one.
THEOREM OneEverywhere == Spec => []OnePlace
<1>1. PInv => OnePlace
  <2> SUFFICES ASSUME PInv, NEW i \in Items
               PROVE  Cardinality(Places(i)) = (IF i \in posted THEN 1 ELSE 0)
    BY DEF OnePlace
  <2>1. PICK A, B, C : A = Members(work) /\ B = Held(hand) /\ C = Members(InRing)
    OBVIOUS
  <2>2. Parts(A, B, C, started, inline, lost, posted)
    BY <2>1 DEF PInv, Placed
  <2>3. i # NoTask /\ Len(InRing) = tasks
    BY RingList DEF PInv, PlaceType
  <2>4. PICK a, b, c, d, e, f :
          /\ a = {<<"work", k>> : k \in {j \in 1 .. Len(work) : work[j] = i}}
          /\ b = {<<"hand", w>> : w \in {v \in Workers : hand[v] = i}}
          /\ c = {<<"ring", k>> : k \in {j \in 1 .. tasks : InRing[j] = i}}
          /\ d = {<<"started", 0>> : x \in {i} \cap started}
          /\ e = {<<"inline", 0>> : x \in {i} \cap inline}
          /\ f = {<<"lost", 0>> : x \in {i} \cap lost}
    OBVIOUS
  <2>5. Places(i) = a \cup b \cup c \cup d \cup e \cup f
    BY <2>4 DEF Places
  <2>6. (i \notin A => a = {}) /\ (i \in A => \E y : a = {y})
    <3>1. i \notin A => a = {}
      BY <2>1, <2>4 DEF Members
    <3>2. ASSUME i \in A PROVE \E y : a = {y}
      <4>1. PICK k \in 1..Len(work) : work[k] = i
        BY <2>1, <3>2 DEF Members
      <4>2. {j \in 1 .. Len(work) : work[j] = i} = {k}
        BY <4>1 DEF PInv, Placed, Distinct
      <4>3. a = {<<"work", k>>}
        BY <2>4, <4>2
      <4>4. QED
        BY <4>3
    <3>3. QED
      BY <3>1, <3>2
  <2>7. (i \notin B => b = {}) /\ (i \in B => \E y : b = {y})
    <3>1. i \notin B => b = {}
      BY <2>1, <2>3, <2>4 DEF Held
    <3>2. ASSUME i \in B PROVE \E y : b = {y}
      <4>1. PICK w \in Workers : hand[w] = i
        BY <2>1, <3>2 DEF Held
      <4>2. {v \in Workers : hand[v] = i} = {w}
        BY <2>3, <4>1 DEF PInv, Placed
      <4>3. b = {<<"hand", w>>}
        BY <2>4, <4>2
      <4>4. QED
        BY <4>3
    <3>3. QED
      BY <3>1, <3>2
  <2>8. (i \notin C => c = {}) /\ (i \in C => \E y : c = {y})
    <3>1. i \notin C => c = {}
      BY <2>1, <2>3, <2>4 DEF Members
    <3>2. ASSUME i \in C PROVE \E y : c = {y}
      <4>1. PICK k \in 1..tasks : InRing[k] = i
        BY <2>1, <2>3, <3>2 DEF Members
      <4>2. {j \in 1 .. tasks : InRing[j] = i} = {k}
        BY <2>3, <4>1 DEF PInv, Placed, Distinct
      <4>3. c = {<<"ring", k>>}
        BY <2>4, <4>2
      <4>4. QED
        BY <4>3
    <3>3. QED
      BY <3>1, <3>2
  <2>9. /\ d = IF i \in started THEN {<<"started", 0>>} ELSE {}
        /\ e = IF i \in inline THEN {<<"inline", 0>>} ELSE {}
        /\ f = IF i \in lost THEN {<<"lost", 0>>} ELSE {}
    BY <2>4
  <2>10. CASE i \notin posted
    <3>1. Places(i) = {}
      BY <2>2, <2>5, <2>6, <2>7, <2>8, <2>9, <2>10 DEF Parts
    <3>2. QED
      BY <2>10, <3>1, FS_EmptySet
  <2>11. CASE i \in posted
    <3>1. \E y : Places(i) = {y}
      <4>1. CASE i \in A
        <5>1. b = {} /\ c = {} /\ d = {} /\ e = {} /\ f = {}
          BY <2>2, <2>7, <2>8, <2>9, <4>1 DEF Parts
        <5>2. QED
          BY <2>5, <2>6, <4>1, <5>1
      <4>2. CASE i \in B
        <5>1. a = {} /\ c = {} /\ d = {} /\ e = {} /\ f = {}
          BY <2>2, <2>6, <2>8, <2>9, <4>2 DEF Parts
        <5>2. QED
          BY <2>5, <2>7, <4>2, <5>1
      <4>3. CASE i \in C
        <5>1. a = {} /\ b = {} /\ d = {} /\ e = {} /\ f = {}
          BY <2>2, <2>6, <2>7, <2>9, <4>3 DEF Parts
        <5>2. QED
          BY <2>5, <2>8, <4>3, <5>1
      <4>4. CASE i \in started \/ i \in inline \/ i \in lost
        <5>1. a = {} /\ b = {} /\ c = {}
          BY <2>2, <2>6, <2>7, <2>8, <4>4 DEF Parts
        <5>2. Places(i) = d \cup e \cup f
          BY <2>5, <5>1
        <5>3. CASE i \in started
          <6>1. e = {} /\ f = {}
            BY <2>2, <2>9, <5>3 DEF Parts
          <6>2. d = {<<"started", 0>>}
            BY <2>9, <5>3
          <6>3. Places(i) = d
            BY <5>2, <6>1
          <6>4. QED
            BY <6>2, <6>3
        <5>4. CASE i \in inline
          <6>1. d = {} /\ f = {}
            BY <2>2, <2>9, <5>4 DEF Parts
          <6>2. e = {<<"inline", 0>>}
            BY <2>9, <5>4
          <6>3. Places(i) = e
            BY <5>2, <6>1
          <6>4. QED
            BY <6>2, <6>3
        <5>5. CASE i \in lost
          <6>1. d = {} /\ e = {}
            BY <2>2, <2>9, <5>5 DEF Parts
          <6>2. f = {<<"lost", 0>>}
            BY <2>9, <5>5
          <6>3. Places(i) = f
            BY <5>2, <6>1
          <6>4. QED
            BY <6>2, <6>3
        <5>6. QED
          BY <4>4, <5>3, <5>4, <5>5
      <4>5. QED
        BY <2>2, <2>11, <4>1, <4>2, <4>3, <4>4 DEF Parts
    <3>2. QED
      BY <2>11, <3>1, FS_Singleton
  <2>12. QED
    BY <2>10, <2>11
<1>2. QED
  BY <1>1, PlacesInvariant, PTL

-----------------------------------------------------------------------------
(* The frames of the loop's thread.                                        *)

\* The least element of a set of numbers.
LEMMA MinIs ==
  ASSUME NEW S \in SUBSET Nat, S # {}
  PROVE  Min(S) \in S /\ \A y \in S : Min(S) <= y
<1> DEFINE R == OpToRel(<, Nat)
<1>1. IsWellFoundedOn(R, Nat)
  BY NatLessThanWellFounded
<1>2. \A x, y \in Nat : y < x => <<y, x>> \in R
  BY DEF OpToRel
<1> HIDE DEF R
<1>3. PICK x \in S : \A y \in S : ~ (<<y, x>> \in R)
  BY <1>1, WFMin, Zenon
<1>4. ASSUME NEW y \in S PROVE x =< y
  <2>1. x \in Nat /\ y \in Nat
    OBVIOUS
  <2>2. ~ (y < x)
    BY <1>2, <1>3, <2>1
  <2>3. QED
    BY <2>1, <2>2
<1>5. \E z \in S : \A y \in S : z =< y
  BY <1>4
<1>6. QED
  BY <1>5 DEF Min

LEMMA FrontIs ==
  ASSUME NEW S, NEW s \in Seq(S), s # <<>>
  PROVE  /\ Front(s) \in Seq(S) /\ Len(Front(s)) = Len(s) - 1
         /\ \A k \in 1..Len(s) - 1 : Front(s)[k] = s[k]
<1>1. PICK m \in Nat : m = Len(s)
  OBVIOUS
<1>2. m # 0
  BY <1>1
<1>3. SubSeq(s, 1, m - 1) \in Seq(S)
  BY <1>1, <1>2
<1>4. Len(SubSeq(s, 1, m - 1)) = m - 1
  BY <1>1, <1>2
<1>5. \A k \in 1..m - 1 : SubSeq(s, 1, m - 1)[k] = s[k]
  BY <1>1, <1>2
<1>6. QED
  BY <1>1, <1>3, <1>4, <1>5 DEF Front

\* A frame is of a timer while it is inside the timer's callback.
Proper(f) == f.timer # NoTask <=> f.pc = "timer"

TimeType ==
  /\ timers \subseteq [timer : Timers, due : Nat]
  /\ state \in {"STOPPED", "RUNNING"}
  /\ clock \in 0..MaxClock /\ base \in 0..clock
  /\ life \in {"open", "closing", "freed"}
  /\ ripe \in [Timers -> Nat]

FrameType ==
  /\ frames \in Seq(Frame)
  /\ \A k \in 1..Len(frames) : Proper(frames[k])

TInv == TimeType /\ FrameType

LEMMA TopIs ==
  ASSUME FrameType, frames # <<>>
  PROVE  /\ Depth \in Nat \ {0} /\ Depth \in 1..Len(frames) /\ Depth = Len(frames)
         /\ Top = frames[Depth] /\ Top \in Frame /\ Proper(Top)
<1>1. frames \in Seq(Frame)
  BY DEF FrameType
<1>2. Len(frames) \in Nat /\ Len(frames) # 0
  BY <1>1
<1>3. Depth \in 1..Len(frames)
  BY <1>2 DEF Depth
<1>4. frames[Depth] \in Frame
  BY <1>1, <1>3
<1>5. QED
  BY <1>2, <1>3, <1>4 DEF Depth, Top, FrameType

\* The innermost iteration goes on as g.
LEMMA TopF ==
  ASSUME FrameType, frames # <<>>, NEW g \in Frame, Proper(g), frames' = [frames EXCEPT ![Depth] = g]
  PROVE  /\ FrameType' /\ Len(frames') = Len(frames) /\ frames'[Depth] = g
         /\ \A k \in 1..Len(frames) : k # Depth => frames'[k] = frames[k]
<1>1. Depth \in 1..Len(frames)
  BY TopIs
<1>2. frames \in Seq(Frame)
  BY DEF FrameType
<1>3. /\ frames' \in Seq(Frame) /\ Len(frames') = Len(frames)
      /\ \A k \in 1..Len(frames) : frames'[k] = IF k = Depth THEN g ELSE frames[k]
  BY <1>1, <1>2, ExceptSeq
<1>4. QED
  BY <1>1, <1>3 DEF FrameType

\* What a step of the loop's thread may do to the frames.
Resumes(g) == frames # <<>> /\ frames' = [frames EXCEPT ![Depth] = g] /\ g \in Frame /\ Proper(g)

LEMMA IterateF ==
  ASSUME TInv, Iterate
  PROVE  \E g : Resumes(g) /\ g.timer = NoTask /\ g.now = clock - base
<1>1. /\ frames # <<>> /\ Top.pc = "iterate"
      /\ frames' = [frames EXCEPT ![Depth].pc = "tasks", ![Depth].now = clock - base]
  BY DEF Iterate, At
<1>2. Depth \in 1..Len(frames) /\ Top = frames[Depth] /\ Top \in Frame /\ Proper(Top)
  BY <1>1, TopIs DEF TInv
<1>3. PICK n \in 0..MaxClock : n = clock - base
  BY DEF TInv, TimeType
<1>4. PICK g : g = [Top EXCEPT !.pc = "tasks", !.now = n]
  OBVIOUS
<1>5. g \in Frame /\ g.timer = Top.timer /\ g.pc = "tasks" /\ g.now = n
  BY <1>2, <1>4 DEF Frame
<1>6. g.timer = NoTask
  BY <1>1, <1>2, <1>5 DEF Proper
<1>7. frames' = [frames EXCEPT ![Depth] = g]
  BY <1>1, <1>2, <1>3, <1>4 DEF FrameType, TInv
<1>8. QED
  BY <1>1, <1>3, <1>5, <1>6, <1>7 DEF Resumes, Proper

LEMMA GotoF ==
  ASSUME TInv, NEW p \in {"iterate", "tasks", "task", "timers", "poll"},
         frames # <<>>, Top.pc # "timer", Goto(p)
  PROVE  \E g : Resumes(g) /\ g.timer = NoTask /\ g.now = Top.now
<1>1. frames' = [frames EXCEPT ![Depth].pc = p]
  BY DEF Goto
<1>2. Depth \in 1..Len(frames) /\ Top = frames[Depth] /\ Top \in Frame /\ Proper(Top)
  BY <1>1, TopIs DEF TInv
<1>3. PICK g : g = [Top EXCEPT !.pc = p]
  OBVIOUS
<1>4. g \in Frame /\ g.timer = Top.timer /\ g.pc = p /\ g.now = Top.now
  BY <1>2, <1>3 DEF Frame
<1>5. g.timer = NoTask
  BY <1>2, <1>4 DEF Proper
<1>6. frames' = [frames EXCEPT ![Depth] = g]
  BY <1>1, <1>2, <1>3 DEF FrameType, TInv
<1>7. QED
  BY <1>4, <1>5, <1>6 DEF Resumes, Proper

LEMMA FireTimerF ==
  ASSUME TInv, NEW e \in timers, FireTimer(e)
  PROVE  \E g : Resumes(g) /\ g.timer = e.timer /\ g.now = Top.now
<1>1. /\ frames # <<>> /\ Top.pc = "timers"
      /\ frames' = [frames EXCEPT ![Depth].pc = "timer", ![Depth].timer = e.timer]
  BY DEF FireTimer, At
<1>2. Depth \in 1..Len(frames) /\ Top = frames[Depth] /\ Top \in Frame
  BY <1>1, TopIs DEF TInv
<1>3. e.timer \in Timers
  BY DEF TInv, TimeType
<1>4. PICK g : g = [Top EXCEPT !.pc = "timer", !.timer = e.timer]
  OBVIOUS
<1>5. g \in Frame /\ g.timer = e.timer /\ g.pc = "timer" /\ g.now = Top.now
  BY <1>2, <1>3, <1>4 DEF Frame
<1>6. frames' = [frames EXCEPT ![Depth] = g]
  BY <1>1, <1>2, <1>4 DEF FrameType, TInv
<1>7. QED
  BY <1>1, <1>3, <1>5, <1>6 DEF Resumes, Proper

LEMMA EndTimerF ==
  ASSUME TInv, EndTimer
  PROVE  /\ Top.timer \in Timers /\ Top.now \in 0..MaxClock
         /\ \E g : Resumes(g) /\ g.timer = NoTask /\ g.now = Top.now
<1>1. /\ frames # <<>> /\ Top.pc = "timer"
      /\ frames' = [frames EXCEPT ![Depth].pc = "timers", ![Depth].timer = NoTask]
  BY DEF EndTimer, At
<1>2. Depth \in 1..Len(frames) /\ Top = frames[Depth] /\ Top \in Frame /\ Proper(Top)
  BY <1>1, TopIs DEF TInv
<1>3. PICK g : g = [Top EXCEPT !.pc = "timers", !.timer = NoTask]
  OBVIOUS
<1>4. g \in Frame /\ g.timer = NoTask /\ g.pc = "timers" /\ g.now = Top.now
  BY <1>2, <1>3 DEF Frame
<1>5. frames' = [frames EXCEPT ![Depth] = g]
  BY <1>1, <1>2, <1>3 DEF FrameType, TInv
<1>6. Top.timer \in Timers /\ Top.now \in 0..MaxClock
  BY <1>1, <1>2 DEF Frame, Proper
<1>7. QED
  BY <1>1, <1>4, <1>5, <1>6 DEF Resumes, Proper

\* The time-out of the poll is a time, because no timer is due.
LEMMA TimersDoneF ==
  ASSUME TInv, TimersDone
  PROVE  \E g : Resumes(g) /\ g.timer = NoTask /\ g.now = 0
<1> DEFINE u == CASE Top.drive = "await" -> clock
                  [] Top.drive = "run" /\ timers = {} -> Forever
                  [] OTHER -> clock + Min({e.due : e \in timers}) - Top.now
<1>1. /\ frames # <<>> /\ Top.pc = "timers" /\ ~ \E e \in timers : Expired(e)
      /\ frames' = [frames EXCEPT ![Depth].pc = "poll", ![Depth].now = 0, ![Depth].until = u]
  BY DEF TimersDone, At
<1>2. Depth \in 1..Len(frames) /\ Top = frames[Depth] /\ Top \in Frame /\ Proper(Top)
  BY <1>1, TopIs DEF TInv
<1>3. /\ Top.drive \in {"run", "await"} /\ Top.now \in Nat /\ clock \in Nat /\ Forever \in Nat
  <2>1. Top.drive \in Drivers /\ Top.now \in 0..MaxClock
    BY <1>2 DEF Frame
  <2>2. clock \in 0..MaxClock
    BY DEF TInv, TimeType
  <2>3. MaxClock \in Nat /\ Drivers \subseteq {"run", "await"}
    BY LoopAssumption
  <2>4. Forever \in Nat
    BY <2>3 DEF Forever
  <2>5. Top.now \in Nat /\ clock \in Nat
    BY <2>1, <2>2, <2>3
  <2>6. Top.drive \in {"run", "await"}
    BY <2>1, <2>3
  <2>7. QED
    BY <2>4, <2>5, <2>6
<1>4. u \in Nat
  <2>1. CASE Top.drive = "await"
    BY <1>3, <2>1
  <2>2. CASE Top.drive = "run" /\ timers = {}
    <3>1. u = Forever
      BY <2>2
    <3>2. QED
      BY <1>3, <3>1
  <2>3. CASE Top.drive = "run" /\ timers # {}
    <3>1. PICK S : S = {e.due : e \in timers}
      OBVIOUS
    <3>2. S \in SUBSET Nat /\ S # {}
      BY <2>3, <3>1 DEF TInv, TimeType
    <3>3. Min(S) \in S
      BY <3>2, MinIs
    <3>4. PICK e \in timers : e.due = Min(S)
      BY <3>1, <3>3
    <3>5. Min(S) \in Nat /\ ~ (Min(S) <= Top.now)
      BY <1>1, <3>2, <3>3, <3>4 DEF Expired
    <3>6. PICK m \in Nat : m = Min(S)
      BY <3>5
    <3>7. PICK n \in Nat : n = Top.now
      BY <1>3
    <3>8. u = clock + m - n
      BY <2>3, <3>1, <3>6, <3>7
    <3>9. n < m
      BY <3>5, <3>6, <3>7
    <3>10. clock + m - n \in Nat
      BY <1>3, <3>9
    <3>11. QED
      BY <3>8, <3>10
  <2>4. QED
    BY <1>3, <2>1, <2>2, <2>3
<1> HIDE DEF u
<1>5. PICK g : g = [Top EXCEPT !.pc = "poll", !.now = 0, !.until = u]
  OBVIOUS
<1>6. g \in Frame /\ g.timer = Top.timer /\ g.pc = "poll" /\ g.now = 0
  <2>1. PICK v \in Nat : v = u
    BY <1>4
  <2>2. g = [Top EXCEPT !.pc = "poll", !.now = 0, !.until = v]
    BY <1>5, <2>1
  <2>3. 0 \in 0..MaxClock
    BY LoopAssumption
  <2>4. QED
    BY <1>2, <2>2, <2>3 DEF Frame
<1>7. g.timer = NoTask
  BY <1>1, <1>2, <1>6 DEF Proper
<1>8. frames' = [frames EXCEPT ![Depth] = g]
  BY <1>1, <1>2, <1>5 DEF FrameType, TInv
<1>9. QED
  BY <1>1, <1>6, <1>7, <1>8 DEF Resumes, Proper

LEMMA PollEndsF ==
  ASSUME TInv, PollEnds
  PROVE  \E g : Resumes(g) /\ g.timer = NoTask /\ g.now = Top.now
<1>1. /\ frames # <<>> /\ Top.pc = "poll"
      /\ frames' = [frames EXCEPT ![Depth].pc = "iterate", ![Depth].until = 0]
  BY DEF PollEnds, At
<1>2. Depth \in 1..Len(frames) /\ Top = frames[Depth] /\ Top \in Frame /\ Proper(Top)
  BY <1>1, TopIs DEF TInv
<1>3. PICK g : g = [Top EXCEPT !.pc = "iterate", !.until = 0]
  OBVIOUS
<1>4. g \in Frame /\ g.timer = Top.timer /\ g.pc = "iterate" /\ g.now = Top.now
  BY <1>2, <1>3 DEF Frame
<1>5. g.timer = NoTask
  BY <1>1, <1>2, <1>4 DEF Proper
<1>6. frames' = [frames EXCEPT ![Depth] = g]
  BY <1>1, <1>2, <1>3 DEF FrameType, TInv
<1>7. QED
  BY <1>1, <1>4, <1>5, <1>6 DEF Resumes, Proper

\* Steps after which each iteration was active before, or is new and begins.
Follows ==
  /\ FrameType'
  /\ \A k \in 1..Len(frames') :
       \/ frames'[k].timer = NoTask /\ frames'[k].now \in {0, clock - base}
       \/ k \in 1..Len(frames) /\ frames'[k].timer \in {NoTask, frames[k].timer} /\ frames'[k].now = frames[k].now

LEMMA ResumesFollows ==
  ASSUME TInv, NEW g, Resumes(g), g.timer = NoTask, g.now = Top.now \/ g.now \in {0, clock - base}
  PROVE  Follows
<1>1. /\ FrameType' /\ Len(frames') = Len(frames) /\ frames'[Depth] = g
      /\ \A k \in 1..Len(frames) : k # Depth => frames'[k] = frames[k]
  BY TopF DEF Resumes, TInv
<1>2. Depth \in 1..Len(frames) /\ Top = frames[Depth]
  BY TopIs DEF Resumes, TInv
<1>3. QED
  BY <1>1, <1>2 DEF Follows

LEMMA FrontFollows ==
  ASSUME TInv, frames # <<>>, frames' = Front(frames)
  PROVE  Follows
<1>1. frames \in Seq(Frame) /\ \A k \in 1..Len(frames) : Proper(frames[k])
  BY DEF TInv, FrameType
<1>2. frames' \in Seq(Frame) /\ Len(frames') = Len(frames) - 1 /\ \A k \in 1..Len(frames) - 1 : frames'[k] = frames[k]
  BY <1>1, FrontIs
<1>3. \A k \in 1..Len(frames) - 1 : k \in 1..Len(frames)
  BY <1>1
<1>4. QED
  BY <1>1, <1>2, <1>3 DEF Follows, FrameType

LEMMA DriveFollows ==
  ASSUME TInv, NEW d \in Drivers, Drive(d)
  PROVE  /\ Follows /\ frames' # <<>>
         /\ d = "run" => base' = clock /\ (frames = <<>> \/ "run" \in Nested)
         /\ d # "run" => base' = base
<1>1. PICK f : f = [drive |-> d, pc |-> "iterate", now |-> 0, timer |-> NoTask, until |-> 0]
  OBVIOUS
<1>2. f \in Frame /\ Proper(f) /\ f.timer = NoTask /\ f.now = 0
  BY <1>1 DEF Frame, Proper
<1>3. frames \in Seq(Frame) /\ \A k \in 1..Len(frames) : Proper(frames[k])
  BY DEF TInv, FrameType
<1>4. frames' = Append(frames, f)
  BY <1>1 DEF Drive, StartRun
<1>5. /\ frames' \in Seq(Frame) /\ Len(frames') = Len(frames) + 1 /\ frames'[Len(frames) + 1] = f
      /\ \A k \in 1..Len(frames) : frames'[k] = frames[k]
  BY <1>2, <1>3, <1>4, AppendProperties
<1>6. \A k \in 1..Len(frames') : k \in 1..Len(frames) \/ k = Len(frames) + 1
  BY <1>3, <1>5
<1>7. Follows
  BY <1>2, <1>3, <1>5, <1>6 DEF Follows, FrameType
<1>8. frames' # <<>>
  BY <1>3, <1>5
<1>9. QED
  BY <1>7, <1>8 DEF Drive, StartRun

\* All steps but the start of a timer's callback and the loop's return from it.
LEMMA StepFollows ==
  ASSUME TInv, [Next]_vars, \A e \in timers : ~FireTimer(e)
  PROVE  Follows
<1>1. CASE frames' = frames
  BY <1>1 DEF Follows, TInv, FrameType
<1>2. ASSUME NEW d \in Drivers, Drive(d) PROVE Follows
  BY <1>2, DriveFollows
<1>3. CASE Iterate
  BY <1>3, IterateF, ResumesFollows
<1>4. CASE RunEnds \/ AwaitEnds
  BY <1>4, FrontFollows DEF RunEnds, AwaitEnds, At
<1>5. CASE RunTask \/ EndTask \/ TasksDone
  <2>1. PICK p \in {"task", "tasks", "timers"} : Goto(p) /\ frames # <<>> /\ Top.pc # "timer"
    BY <1>5 DEF RunTask, EndTask, TasksDone, At
  <2>2. PICK g : Resumes(g) /\ g.timer = NoTask /\ g.now = Top.now
    BY <2>1, GotoF
  <2>3. QED
    BY <2>2, ResumesFollows
<1>6. CASE EndTimer
  BY <1>6, EndTimerF, ResumesFollows
<1>7. CASE TimersDone
  BY <1>7, TimersDoneF, ResumesFollows
<1>8. CASE PollEnds
  BY <1>8, PollEndsF, ResumesFollows
<1>. QED
  BY <1>1, <1>2, <1>3, <1>4, <1>5, <1>6, <1>7, <1>8
  DEF Next, LoopThread, Post, RunInPool, Worker, WorkerWaits, WorkerTakes, WorkerWorks, WorkerPosts, WorkerExits,
      WorkerWakes, StartTimer, StopTimer, Stop, Destroy, Destroyed, Tick, vars

LEMMA FireTimerT ==
  ASSUME TInv, NEW e \in timers, FireTimer(e)
  PROVE  /\ FrameType' /\ Len(frames') = Len(frames) /\ frames # <<>> /\ Depth \in 1..Len(frames)
         /\ Top = frames[Depth] /\ Top.timer = NoTask
         /\ frames'[Depth].timer = e.timer /\ frames'[Depth].now = Top.now
         /\ \A k \in 1..Len(frames) : k # Depth => frames'[k] = frames[k]
<1>1. PICK g : Resumes(g) /\ g.timer = e.timer /\ g.now = Top.now
  BY FireTimerF
<1>2. /\ FrameType' /\ Len(frames') = Len(frames) /\ frames'[Depth] = g
      /\ \A k \in 1..Len(frames) : k # Depth => frames'[k] = frames[k]
  BY <1>1, TopF DEF Resumes, TInv
<1>3. frames # <<>> /\ Top.pc = "timers"
  BY DEF FireTimer, At
<1>4. Depth \in 1..Len(frames) /\ Top = frames[Depth] /\ Proper(Top)
  BY <1>3, TopIs DEF TInv
<1>5. Top.timer = NoTask
  BY <1>3, <1>4 DEF Proper
<1>6. QED
  BY <1>1, <1>2, <1>3, <1>4, <1>5

LEMMA InitTInv == Init => TInv
BY DEF Init, TInv, TimeType, FrameType

LEMMA StepTInv == TInv /\ [Next]_vars => TInv'
<1> SUFFICES ASSUME TInv, [Next]_vars PROVE TInv'
  OBVIOUS
<1>0. TimeType
  BY DEF TInv
<1>1. FrameType'
  <2>1. CASE \E e \in timers : FireTimer(e)
    BY <2>1, FireTimerT
  <2>2. CASE \A e \in timers : ~FireTimer(e)
    BY <2>2, StepFollows DEF Follows
  <2>3. QED
    BY <2>1, <2>2
<1>2. ASSUME NEW m \in Timers, StartTimer(m) PROVE TimeType'
  <2>1. clock - base + Delay[m] \in Nat /\ clock + Delay[m] \in Nat
    BY <1>0 DEF TimeType
  <2>2. timers' \subseteq [timer : Timers, due : Nat]
    BY <1>0, <1>2, <2>1 DEF TimeType, StartTimer
  <2>3. ripe' \in [Timers -> Nat]
    BY <1>0, <1>2, <2>1 DEF TimeType, StartTimer
  <2>4. QED
    BY <1>0, <1>2, <2>2, <2>3 DEF TimeType, StartTimer
<1>3. ASSUME EndTimer PROVE TimeType'
  <2>1. PICK m \in Timers : m = Top.timer
    BY <1>3, EndTimerF
  <2>2. PICK n \in Nat : n = Top.now
    BY <1>3, EndTimerF
  <2>3. n + Repeat[m] \in Nat /\ ripe[m] + Repeat[m] \in Nat
    BY <1>0 DEF TimeType
  <2>4. \/ timers' = timers \cup {[timer |-> m, due |-> n + Repeat[m]]} /\ ripe' = [ripe EXCEPT ![m] = @ + Repeat[m]]
        \/ UNCHANGED <<timers, ripe>>
    BY <1>3, <2>1, <2>2 DEF EndTimer
  <2>5. timers' \subseteq [timer : Timers, due : Nat] /\ ripe' \in [Timers -> Nat]
    BY <1>0, <2>3, <2>4 DEF TimeType
  <2>6. UNCHANGED <<state, clock, base, life>>
    BY <1>3 DEF EndTimer
  <2>7. state' \in {"STOPPED", "RUNNING"} /\ life' \in {"open", "closing", "freed"}
    BY <1>0, <2>6 DEF TimeType
  <2>8. clock' \in 0..MaxClock /\ base' \in 0..clock'
    BY <1>0, <2>6 DEF TimeType
  <2>9. QED
    BY <2>5, <2>7, <2>8 DEF TimeType
<1>4. ASSUME timers' \subseteq timers, ripe' = ripe PROVE TimeType'
  <2>1. clock' \in 0..MaxClock /\ base' \in 0..clock' /\ state' \in {"STOPPED", "RUNNING"} /\ life' \in {"open", "closing", "freed"}
    <3>1. CASE Tick
      BY <1>0, <3>1 DEF Tick, TimeType
    <3>2. ASSUME NEW d \in Drivers, Drive(d)
          PROVE  clock' \in 0..MaxClock /\ base' \in 0..clock' /\ state' \in {"STOPPED", "RUNNING"} /\ life' = life
      BY <1>0, <3>2 DEF Drive, StartRun, TimeType
    <3>3. CASE Stop \/ Destroy \/ Destroyed
      BY <1>0, <3>3 DEF Stop, Destroy, Destroyed, TimeType
    <3>4. CASE UNCHANGED <<clock, base, state, life>>
      BY <1>0, <3>4 DEF TimeType
    <3>5. QED
      BY <1>0, <3>1, <3>2, <3>3, <3>4
      DEF Next, LoopThread, Post, RunInPool, Worker, WorkerWaits, WorkerTakes, WorkerWorks, WorkerPosts, WorkerExits,
          WorkerWakes, StartTimer, StopTimer, Iterate, RunEnds, AwaitEnds, RunTask, EndTask, TasksDone, FireTimer,
          EndTimer, TimersDone, PollEnds, vars, TimeType
  <2>2. timers' \subseteq [timer : Timers, due : Nat]
    BY <1>0, <1>4 DEF TimeType
  <2>3. ripe' \in [Timers -> Nat]
    BY <1>0, <1>4 DEF TimeType
  <2>4. QED
    BY <2>1, <2>2, <2>3 DEF TimeType
<1>5. \/ \E m \in Timers : StartTimer(m)
      \/ EndTimer
      \/ timers' \subseteq timers /\ ripe' = ripe
  <2>1. ASSUME NEW m \in Timers, StopTimer(m) PROVE timers' \subseteq timers /\ ripe' = ripe
    BY <2>1 DEF StopTimer
  <2>2. ASSUME NEW e \in timers, FireTimer(e) PROVE timers' \subseteq timers /\ ripe' = ripe
    BY <2>2 DEF FireTimer
  <2>3. QED
    BY <2>1, <2>2
    DEF Next, LoopThread, Post, RunInPool, Worker, WorkerWaits, WorkerTakes, WorkerWorks, WorkerPosts, WorkerExits,
        WorkerWakes, Iterate, RunEnds, AwaitEnds, RunTask, EndTask, TasksDone,
        TimersDone, PollEnds, Drive, StartRun, Stop, Destroy, Destroyed, Tick, vars, timerVars
<1>6. TimeType'
  <2>1. CASE \E m \in Timers : StartTimer(m)
    BY <1>2, <2>1
  <2>2. CASE timers' \subseteq timers /\ ripe' = ripe
    BY <1>4, <2>2
  <2>3. QED
    BY <1>3, <1>5, <2>1, <2>2
<1>7. QED
  BY <1>1, <1>6 DEF TInv

LEMMA TimesInvariant == Spec => []TInv
BY InitTInv, StepTInv, PTL DEF Spec

\* Everything the loop keeps has its type: the positions are slots, the ring
\* holds tasks where it says it does, the time-out of a poll is never negative.
THEOREM LoopTyped == Spec => []TypeOK
<1>1. PInv /\ TInv => TypeOK
  <2> SUFFICES ASSUME PInv, TInv PROVE TypeOK
    OBVIOUS
  <2>1. RingType /\ HandType /\ TimeType /\ FrameType /\ PlaceType
    BY DEF PInv, PlaceType, TInv
  <2>2. rear \in Slots
    BY <2>1, SlotIs DEF RingType
  <2>3. QED
    BY <2>1, <2>2 DEF RingType, HandType, TimeType, FrameType, PlaceType, TypeOK
<1>2. QED
  BY <1>1, PlacesInvariant, TimesInvariant, PTL

-----------------------------------------------------------------------------
(* No timer fires early.                                                   *)

\* An entry is not due before its timer may fire.
Waiting == \A e \in timers : ripe[e.timer] <= base + e.due

\* A timer has one entry at most.
Single == \A e, f \in timers : e.timer = f.timer => e = f

\* The time of an iteration is over.
Past == \A k \in 1..Len(frames) : base + frames[k].now <= clock

\* A timer with a period whose callback is active is active once, has no
\* entry, and did not begin early: EndTimer counts its period from there.
Calling ==
  \A k \in 1..Len(frames) : \A m \in Timers : (frames[k].timer = m /\ Repeat[m] > 0) =>
    /\ ripe[m] <= base + frames[k].now /\ ~Armed(m)
    /\ \A l \in 1..Len(frames) : frames[l].timer = m => l = k

EInv == Waiting /\ Single /\ Past /\ Calling

LEMMA InitEInv == Init => EInv
BY DEF Init, EInv, Waiting, Single, Past, Calling

LEMMA FrameNow ==
  ASSUME FrameType, NEW k \in 1..Len(frames)
  PROVE  frames[k] \in Frame /\ frames[k].now \in Nat /\ frames[k].timer \in Timers \cup {NoTask}
<1>1. frames[k] \in Frame
  BY DEF FrameType
<1>2. MaxClock \in Nat
  BY LoopAssumption
<1>3. QED
  BY <1>1, <1>2 DEF Frame

LEMMA NotATimer == NoTask \notin Timers
BY LoopAssumption

\* Steps that leave the timers alone, or stop some.
LEMMA QuietE ==
  ASSUME TInv, TInv', EInv, Follows, base' = base, clock <= clock', timers' \subseteq timers, ripe' = ripe
  PROVE  EInv'
<1>1. clock \in Nat /\ base \in Nat /\ clock' \in Nat /\ base <= clock
  BY DEF TInv, TimeType
<1>2. Waiting' /\ Single'
  BY DEF EInv, Waiting, Single
<1>3. ASSUME NEW k \in 1..Len(frames') PROVE base + frames'[k].now <= clock'
  <2>1. CASE frames'[k].now \in {0, clock - base}
    BY <1>1, <2>1
  <2>2. CASE k \in 1..Len(frames) /\ frames'[k].now = frames[k].now
    <3>1. PICK n \in Nat : n = frames[k].now
      BY <2>2, FrameNow DEF TInv
    <3>2. base + n <= clock
      BY <2>2, <3>1 DEF EInv, Past
    <3>3. base + n <= clock'
      BY <1>1, <3>2
    <3>4. QED
      BY <2>2, <3>1, <3>3
  <2>3. QED
    BY <2>1, <2>2 DEF Follows
<1>4. ASSUME NEW k \in 1..Len(frames'), NEW m \in Timers, frames'[k].timer = m
      PROVE  k \in 1..Len(frames) /\ frames[k].timer = m /\ frames'[k].now = frames[k].now
  BY <1>4, NotATimer DEF Follows
<1>5. ASSUME NEW m \in Timers, Armed(m)' PROVE Armed(m)
  BY <1>5 DEF Armed
<1>6. Calling'
  <2> SUFFICES ASSUME NEW k \in 1..Len(frames'), NEW m \in Timers, frames'[k].timer = m, Repeat[m] > 0
               PROVE  /\ ripe'[m] <= base' + frames'[k].now /\ ~Armed(m)'
                      /\ \A l \in 1..Len(frames') : frames'[l].timer = m => l = k
    BY DEF Calling
  <2>1. k \in 1..Len(frames) /\ frames[k].timer = m /\ frames'[k].now = frames[k].now
    BY <1>4
  <2>2. /\ ripe[m] <= base + frames[k].now /\ ~Armed(m)
        /\ \A l \in 1..Len(frames) : frames[l].timer = m => l = k
    BY <2>1 DEF EInv, Calling
  <2>3. QED
    BY <1>4, <1>5, <2>1, <2>2
<1>7. QED
  BY <1>2, <1>3, <1>6 DEF EInv, Past

\* The clock of the loop is set back, while no iteration is active.
LEMMA SetBackE ==
  ASSUME TInv, TInv', EInv, Follows, frames = <<>>, \A k \in 1..Len(frames') : frames'[k].now = 0,
         base' = clock, clock' = clock, timers' = timers, ripe' = ripe
  PROVE  EInv'
<1>1. clock \in Nat /\ base \in Nat /\ base <= clock
  BY DEF TInv, TimeType
<1>2. ASSUME NEW e \in timers PROVE ripe[e.timer] <= clock + e.due
  <2>1. ripe[e.timer] <= base + e.due
    BY DEF EInv, Waiting
  <2>2. e.due \in Nat /\ ripe[e.timer] \in Nat
    BY DEF TInv, TimeType
  <2>3. PICK n \in Nat : n = e.due
    BY <2>2
  <2>4. PICK r \in Nat : r = ripe[e.timer]
    BY <2>2
  <2>5. r <= clock + n
    BY <1>1, <2>1, <2>3, <2>4
  <2>6. QED
    BY <2>3, <2>4, <2>5
<1>3. Waiting' /\ Single'
  BY <1>2 DEF EInv, Waiting, Single
<1>4. ASSUME NEW k \in 1..Len(frames') PROVE frames'[k].timer = NoTask
  <2>1. ~ (k \in 1..Len(frames))
    OBVIOUS
  <2>2. QED
    BY <2>1 DEF Follows
<1>5. \A k \in 1..Len(frames') : frames'[k].timer = NoTask
  BY <1>4
<1>6. Calling'
  BY <1>5, NotATimer DEF Calling
<1>7. ASSUME NEW k \in 1..Len(frames') PROVE base' + frames'[k].now <= clock'
  BY <1>1
<1>8. QED
  BY <1>3, <1>6, <1>7 DEF EInv, Past

LEMMA StartE ==
  ASSUME TInv, EInv, NEW m \in Timers, StartTimer(m)
  PROVE  EInv'
<1>1. clock \in Nat /\ base \in Nat /\ base <= clock /\ Delay[m] \in Nat
  BY LoopAssumption DEF TInv, TimeType
<1>2. PICK d : d = clock - base + Delay[m]
  OBVIOUS
<1>3. /\ timers' = timers \cup {[timer |-> m, due |-> d]}
      /\ ripe' = [ripe EXCEPT ![m] = clock + Delay[m]]
      /\ ~Armed(m) /\ (Repeat[m] > 0 => ~Firing(m))
      /\ UNCHANGED <<base, clock, frames>>
  BY <1>2 DEF StartTimer
<1>4. base + d = clock + Delay[m]
  BY <1>1, <1>2
<1>5. ripe \in [Timers -> Nat] /\ timers \subseteq [timer : Timers, due : Nat]
  BY DEF TInv, TimeType
<1>6. ripe'[m] = base + d /\ \A n \in Timers \ {m} : ripe'[n] = ripe[n]
  BY <1>3, <1>4, <1>5
<1>7. \A e \in timers : e.timer \in Timers \ {m}
  BY <1>3, <1>5 DEF Armed
<1>8. Waiting'
  <2> SUFFICES ASSUME NEW e \in timers' PROVE ripe'[e.timer] <= base' + e.due
    BY DEF Waiting
  <2>1. CASE e \in timers
    BY <1>3, <1>6, <1>7, <2>1 DEF EInv, Waiting
  <2>2. CASE e = [timer |-> m, due |-> d]
    <3>1. e.timer = m /\ e.due = d
      BY <2>2
    <3>2. base + d \in Int
      BY <1>1, <1>2
    <3>3. QED
      BY <1>3, <1>6, <3>1, <3>2
  <2>3. QED
    BY <1>3, <2>1, <2>2
<1>9. Single'
  <2>1. [timer |-> m, due |-> d].timer = m
    OBVIOUS
  <2>2. QED
    BY <1>3, <1>7, <2>1 DEF EInv, Single
<1>10. Past'
  BY <1>3 DEF EInv, Past
<1>11. Calling'
  <2> SUFFICES ASSUME NEW k \in 1..Len(frames), NEW n \in Timers, frames[k].timer = n, Repeat[n] > 0
               PROVE  /\ ripe'[n] <= base + frames[k].now /\ ~Armed(n)'
                      /\ \A l \in 1..Len(frames) : frames[l].timer = n => l = k
    BY <1>3 DEF Calling
  <2>1. n # m
    BY <1>3 DEF Firing
  <2>2. /\ ripe[n] <= base + frames[k].now /\ ~Armed(n)
        /\ \A l \in 1..Len(frames) : frames[l].timer = n => l = k
    BY DEF EInv, Calling
  <2>3. ~Armed(n)'
    <3>1. \A e \in timers' : e.timer # n
      BY <1>3, <2>1, <2>2 DEF Armed
    <3>2. QED
      BY <3>1 DEF Armed
  <2>4. QED
    BY <1>6, <2>1, <2>2, <2>3
<1>12. QED
  BY <1>8, <1>9, <1>10, <1>11 DEF EInv

\* The callback of a timer begins, and not early.
LEMMA FireE ==
  ASSUME TInv, EInv, NEW e \in timers, FireTimer(e)
  PROVE  EInv' /\ ripe[e.timer] <= clock
<1>1. /\ Len(frames') = Len(frames) /\ Depth \in 1..Len(frames)
      /\ Top = frames[Depth] /\ Top.timer = NoTask
      /\ frames'[Depth].timer = e.timer /\ frames'[Depth].now = Top.now
      /\ \A k \in 1..Len(frames) : k # Depth => frames'[k] = frames[k]
  BY FireTimerT
<1>2. /\ e.due <= Top.now /\ timers' = timers \ {e}
      /\ UNCHANGED <<base, clock, ripe>>
  BY DEF FireTimer, Expired
<1>3. e.timer \in Timers /\ e.due \in Nat /\ ripe[e.timer] \in Nat /\ base \in Nat /\ clock \in Nat
  BY DEF TInv, TimeType
<1>4. Top.now \in Nat
  BY <1>1, FrameNow DEF TInv
<1>5. ripe[e.timer] <= base + e.due /\ base + Top.now <= clock
  BY <1>1 DEF EInv, Waiting, Past
<1>6. ripe[e.timer] <= base + Top.now /\ ripe[e.timer] <= clock
  <2>1. PICK n \in Nat : n = Top.now
    BY <1>4
  <2>2. PICK d \in Nat : d = e.due
    BY <1>3
  <2>3. PICK r \in Nat : r = ripe[e.timer]
    BY <1>3
  <2>4. d <= n /\ r <= base + d /\ base + n <= clock
    BY <1>2, <1>5, <2>1, <2>2, <2>3
  <2>5. r <= base + n /\ r <= clock
    BY <1>3, <2>4
  <2>6. QED
    BY <2>1, <2>3, <2>5
<1>7. Waiting' /\ Single'
  BY <1>2 DEF EInv, Waiting, Single
<1>8. Past'
  BY <1>1, <1>2 DEF EInv, Past
<1>9. Calling'
  <2> SUFFICES ASSUME NEW k \in 1..Len(frames), NEW m \in Timers, frames'[k].timer = m, Repeat[m] > 0
               PROVE  /\ ripe[m] <= base + frames'[k].now /\ ~Armed(m)'
                      /\ \A l \in 1..Len(frames) : frames'[l].timer = m => l = k
    BY <1>1, <1>2 DEF Calling
  <2>1. ASSUME NEW l \in 1..Len(frames), l # Depth, frames[l].timer = m
        PROVE  m # e.timer
    <3>1. ~Armed(m)
      BY <2>1 DEF EInv, Calling
    <3>2. QED
      BY <3>1 DEF Armed
  <2>2. CASE m = e.timer
    <3>1. k = Depth
      BY <1>1, <2>1, <2>2
    <3>2. \A l \in 1..Len(frames) : frames'[l].timer = m => l = k
      BY <1>1, <2>1, <2>2, <3>1
    <3>3. \A f \in timers' : f.timer # m
      BY <1>2, <2>2 DEF EInv, Single
    <3>4. ~Armed(m)'
      BY <3>3 DEF Armed
    <3>5. QED
      BY <1>1, <1>6, <2>2, <3>1, <3>2, <3>4
  <2>3. CASE m # e.timer
    <3>1. k # Depth /\ frames'[k] = frames[k]
      BY <1>1, <2>3
    <3>2. /\ ripe[m] <= base + frames[k].now /\ ~Armed(m)
          /\ \A l \in 1..Len(frames) : frames[l].timer = m => l = k
      BY <3>1 DEF EInv, Calling
    <3>3. ~Armed(m)'
      BY <1>2, <3>2 DEF Armed
    <3>4. \A l \in 1..Len(frames) : frames'[l].timer = m => l = k
      BY <1>1, <2>3, <3>2
    <3>5. QED
      BY <3>1, <3>2, <3>3, <3>4
  <2>4. QED
    BY <2>2, <2>3
<1>10. QED
  BY <1>6, <1>7, <1>8, <1>9 DEF EInv

\* A timer with a period is due one period after the iteration it fired in.
LEMMA EndE ==
  ASSUME TInv, TInv', EInv, EndTimer
  PROVE  EInv'
<1>1. /\ frames # <<>> /\ UNCHANGED <<base, clock>>
  BY DEF EndTimer, At
<1>2. Depth \in 1..Len(frames) /\ Top = frames[Depth]
  BY <1>1, TopIs DEF TInv
<1>3. PICK m \in Timers : m = Top.timer
  BY EndTimerF
<1>4. PICK g : Resumes(g) /\ g.timer = NoTask /\ g.now = Top.now
  BY EndTimerF
<1>5. /\ Len(frames') = Len(frames) /\ frames'[Depth] = g
      /\ \A k \in 1..Len(frames) : k # Depth => frames'[k] = frames[k]
  BY <1>4, TopF DEF Resumes, TInv
<1>6. CASE ~(Repeat[m] > 0)
  <2>1. UNCHANGED <<timers, ripe>>
    BY <1>3, <1>6 DEF EndTimer
  <2>2. Follows
    BY <1>4, ResumesFollows
  <2>3. clock \in Nat
    BY DEF TInv, TimeType
  <2>4. QED
    BY <1>1, <2>1, <2>2, <2>3, QuietE
<1>7. CASE Repeat[m] > 0
  <2>1. Top.now \in Nat /\ Repeat[m] \in Nat /\ base \in Nat /\ clock \in Nat /\ ripe[m] \in Nat
    BY <1>2, FrameNow, LoopAssumption DEF TInv, TimeType
  <2>2. PICK n \in Nat : n = Top.now
    BY <2>1
  <2>3. PICK r \in Nat : r = Repeat[m]
    BY <2>1
  <2>4. /\ timers' = timers \cup {[timer |-> m, due |-> n + r]}
        /\ ripe' = [ripe EXCEPT ![m] = @ + r]
    BY <1>3, <1>7, <2>2, <2>3 DEF EndTimer
  <2>5. /\ ripe[m] <= base + n /\ ~Armed(m)
        /\ \A l \in 1..Len(frames) : frames[l].timer = m => l = Depth
    BY <1>2, <1>3, <1>7, <2>2 DEF EInv, Calling
  <2>6. ripe \in [Timers -> Nat] /\ timers \subseteq [timer : Timers, due : Nat]
    BY DEF TInv, TimeType
  <2>7. ripe'[m] = ripe[m] + r /\ \A q \in Timers \ {m} : ripe'[q] = ripe[q]
    BY <2>4, <2>6
  <2>8. \A e \in timers : e.timer \in Timers \ {m}
    BY <2>5, <2>6 DEF Armed
  <2>9. ripe'[m] <= base + (n + r)
    BY <2>1, <2>5, <2>7
  <2>10. Waiting'
    <3> SUFFICES ASSUME NEW e \in timers' PROVE ripe'[e.timer] <= base' + e.due
      BY DEF Waiting
    <3>1. CASE e \in timers
      BY <1>1, <2>7, <2>8, <3>1 DEF EInv, Waiting
    <3>2. CASE e = [timer |-> m, due |-> n + r]
      <4>1. e.timer = m /\ e.due = n + r
        BY <3>2
      <4>2. QED
        BY <1>1, <2>9, <4>1
    <3>3. QED
      BY <2>4, <3>1, <3>2
  <2>11. Single'
    <3>1. [timer |-> m, due |-> n + r].timer = m
      OBVIOUS
    <3>2. QED
      BY <2>4, <2>8, <3>1 DEF EInv, Single
  <2>12. Past'
    BY <1>1, <1>2, <1>4, <1>5 DEF EInv, Past
  <2>13. Calling'
    <3> SUFFICES ASSUME NEW k \in 1..Len(frames), NEW q \in Timers, frames'[k].timer = q, Repeat[q] > 0
                 PROVE  /\ ripe'[q] <= base + frames'[k].now /\ ~Armed(q)'
                        /\ \A l \in 1..Len(frames) : frames'[l].timer = q => l = k
      BY <1>1, <1>5 DEF Calling
    <3>1. k # Depth /\ frames'[k] = frames[k]
      BY <1>4, <1>5, NotATimer
    <3>2. q # m
      BY <2>5, <3>1
    <3>3. /\ ripe[q] <= base + frames[k].now /\ ~Armed(q)
          /\ \A l \in 1..Len(frames) : frames[l].timer = q => l = k
      BY <3>1 DEF EInv, Calling
    <3>4. \A e \in timers' : e.timer # q
      BY <2>4, <3>2, <3>3 DEF Armed
    <3>5. ~Armed(q)'
      BY <3>4 DEF Armed
    <3>6. \A l \in 1..Len(frames) : frames'[l].timer = q => l = k
      BY <1>4, <1>5, <3>3, NotATimer
    <3>7. QED
      BY <2>7, <3>1, <3>2, <3>3, <3>5, <3>6
  <2>14. QED
    BY <2>10, <2>11, <2>12, <2>13 DEF EInv
<1>8. QED
  BY <1>6, <1>7

\* What the other steps do to the clocks and the timers.
LEMMA QuietSteps ==
  ASSUME TInv, [Next]_vars, "run" \notin Nested,
         ~EndTimer, \A e \in timers : ~FireTimer(e), \A m \in Timers : ~StartTimer(m)
  PROVE  \/ base' = base /\ clock <= clock' /\ timers' \subseteq timers /\ ripe' = ripe
         \/ /\ frames = <<>> /\ \A k \in 1..Len(frames') : frames'[k].now = 0
            /\ base' = clock /\ clock' = clock /\ timers' = timers /\ ripe' = ripe
<1>1. clock \in Nat
  BY DEF TInv, TimeType
<1>2. ASSUME NEW d \in Drivers, Drive(d)
      PROVE  \/ base' = base /\ clock' = clock /\ timers' = timers /\ ripe' = ripe
             \/ /\ frames = <<>> /\ \A k \in 1..Len(frames') : frames'[k].now = 0
                /\ base' = clock /\ clock' = clock /\ timers' = timers /\ ripe' = ripe
  <2>1. CASE d = "run"
    <3>1. frames = <<>>
      BY <1>2, <2>1, DriveFollows
    <3>2. PICK f : f = [drive |-> d, pc |-> "iterate", now |-> 0, timer |-> NoTask, until |-> 0]
      OBVIOUS
    <3>3. f.now = 0
      BY <3>2
    <3>4. frames' = Append(<<>>, f)
      BY <1>2, <3>1, <3>2 DEF Drive, StartRun
    <3>5. frames' = <<f>>
      BY <3>4
    <3>6. \A k \in 1..Len(frames') : frames'[k].now = 0
      BY <3>3, <3>5
    <3>7. QED
      BY <1>2, <2>1, <3>1, <3>6 DEF Drive, StartRun, timerVars
  <2>2. CASE d # "run"
    BY <1>2, <2>2 DEF Drive, StartRun, timerVars
  <2>3. QED
    BY <2>1, <2>2
<1>3. ASSUME NEW m \in Timers, StopTimer(m)
      PROVE  base' = base /\ clock' = clock /\ timers' \subseteq timers /\ ripe' = ripe
  BY <1>3 DEF StopTimer
<1>4. CASE Tick
  BY <1>1, <1>4 DEF Tick, timerVars
<1>5. CASE UNCHANGED <<base, clock, timers, ripe>>
  BY <1>1, <1>5
<1>6. QED
  BY <1>1, <1>2, <1>3, <1>4, <1>5
  DEF Next, LoopThread, Post, RunInPool, Worker, WorkerWaits, WorkerTakes, WorkerWorks, WorkerPosts, WorkerExits,
      WorkerWakes, Iterate, RunEnds, AwaitEnds, RunTask, EndTask, TasksDone,
      TimersDone, PollEnds, Stop, Destroy, Destroyed, vars, timerVars

LEMMA StepEInv ==
  ASSUME "run" \notin Nested, TInv, TInv', EInv, [Next]_vars
  PROVE  EInv'
<1>1. CASE EndTimer
  BY <1>1, EndE
<1>2. CASE \E e \in timers : FireTimer(e)
  BY <1>2, FireE
<1>3. CASE \E m \in Timers : StartTimer(m)
  BY <1>3, StartE
<1>4. CASE ~EndTimer /\ (\A e \in timers : ~FireTimer(e)) /\ (\A m \in Timers : ~StartTimer(m))
  <2>1. Follows
    BY <1>4, StepFollows
  <2>2. \/ base' = base /\ clock <= clock' /\ timers' \subseteq timers /\ ripe' = ripe
        \/ /\ frames = <<>> /\ \A k \in 1..Len(frames') : frames'[k].now = 0
           /\ base' = clock /\ clock' = clock /\ timers' = timers /\ ripe' = ripe
    BY <1>4, QuietSteps
  <2>3. CASE base' = base /\ clock <= clock' /\ timers' \subseteq timers /\ ripe' = ripe
    BY <2>1, <2>3, QuietE
  <2>4. CASE /\ frames = <<>> /\ \A k \in 1..Len(frames') : frames'[k].now = 0
             /\ base' = clock /\ clock' = clock /\ timers' = timers /\ ripe' = ripe
    BY <2>1, <2>4, SetBackE
  <2>5. QED
    BY <2>2, <2>3, <2>4
<1>5. QED
  BY <1>1, <1>2, <1>3, <1>4

LEMMA StepNotEarly ==
  ASSUME TInv, EInv, [Next]_vars, NEW m \in Timers, ~Firing(m), Firing(m)'
  PROVE  clock >= ripe[m]
<1>0. clock \in Nat /\ ripe[m] \in Nat
  BY DEF TInv, TimeType
<1>1. CASE \E e \in timers : FireTimer(e)
  <2>1. PICK e \in timers : FireTimer(e)
    BY <1>1
  <2>2. /\ Len(frames') = Len(frames) /\ frames'[Depth].timer = e.timer
        /\ \A k \in 1..Len(frames) : k # Depth => frames'[k] = frames[k]
    BY <2>1, FireTimerT
  <2>3. PICK k \in 1..Len(frames) : frames'[k].timer = m
    BY <2>2 DEF Firing
  <2>4. k = Depth
    BY <2>2, <2>3 DEF Firing
  <2>5. m = e.timer
    BY <2>2, <2>3, <2>4
  <2>6. QED
    BY <1>0, <2>1, <2>5, FireE
<1>2. CASE \A e \in timers : ~FireTimer(e)
  <2>1. Follows
    BY <1>2, StepFollows
  <2>2. PICK k \in 1..Len(frames') : frames'[k].timer = m
    BY DEF Firing
  <2>3. k \in 1..Len(frames) /\ frames[k].timer = m
    BY <2>1, <2>2, NotATimer DEF Follows
  <2>4. QED
    BY <2>3 DEF Firing
<1>3. QED
  BY <1>1, <1>2

\* Where callbacks do not call ev_loop_run again, no timer fires before its
\* time: not when ev_loop_run sets the clock of the loop back, not when it is
\* started again by the loop, and not in an iteration that began before a
\* callback iterated the loop.
THEOREM TimersNotEarly ==
  ASSUME "run" \notin Nested
  PROVE  Spec => NotEarly
<1>1. Init => TInv /\ EInv
  BY InitTInv, InitEInv
<1>2. TInv /\ EInv /\ [Next]_vars => (TInv /\ EInv)'
  BY StepTInv, StepEInv
<1>3. TInv /\ EInv /\ [Next]_vars => [\A m \in Timers : ~Firing(m) /\ Firing(m)' => clock >= ripe[m]]_vars
  BY StepNotEarly
<1>4. QED
  BY <1>1, <1>2, <1>3, PTL DEF Spec, NotEarly
=============================================================================
