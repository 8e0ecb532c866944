----------------------------- MODULE HeapProofs -----------------------------
(***************************************************************************)
(* Proof that the array of timers is a heap whenever timer_lock is free,   *)
(* for any capacity, ids and times.                                        *)
(*                                                                         *)
(* While an operation holds the lock, everything is in order but around    *)
(* the one entry that is being moved, and the children of that entry are   *)
(* in order with its parent.                                               *)
(***************************************************************************)
EXTENDS TimerHeap, TLAPS

\* k is not due before its parent
Edge(h, k) == h[Parent(k)].due <= h[k].due

Heaped(h, n) == \A k \in 1 .. n - 1 : Edge(h, k)
Around(h, n, j) == \A k \in 1 .. n - 1 : k # j /\ Parent(k) # j => Edge(h, k)
Across(h, n, j) == \A k \in 1 .. n - 1 : Parent(k) = j /\ j > 0 => h[Parent(j)].due <= h[k].due
Below(h, n, j) == \A k \in 1 .. n - 1 : Parent(k) = j => Edge(h, k)
Above(h, j) == j > 0 => Edge(h, j)

Astray(j) == Around(heap, count, j) /\ Across(heap, count, j)

Idle == todo = <<>> /\ Heaped(heap, count)
Rising == \E j \in Used : todo = <<Up(j)>> /\ Astray(j) /\ Below(heap, count, j)
Sinking == \E j \in Used : todo = <<Down(j)>> /\ Astray(j) /\ Above(heap, j)
\* ev_timer_stop_by_id: a sift down, and another one up from where it began
SinkingFirst == \E j, i \in Used :
  todo = <<Down(j), Up(i)>> /\ i <= j /\ Astray(j) /\ (j # i => Above(heap, j))
\* ev_timer_again: a sift up, and another one down from where it began
RisingFirst == \E j, i \in Used :
  todo = <<Up(j), Down(i)>> /\ j <= i /\ Astray(j) /\ (j # i => Below(heap, count, j))

Arrays == [0 .. Capacity - 1 -> Entry \cup {NoEntry}]
HType == /\ heap \in Arrays /\ count \in 0 .. Capacity
         /\ \A i \in Used : heap[i] \in Entry
         /\ taken \in Entry \cup {NoEntry}
Shape == Idle \/ Rising \/ Sinking \/ SinkingFirst \/ RisingFirst
HInv == HType /\ Shape

-----------------------------------------------------------------------------
(* Arithmetic of positions and facts about arrays                          *)

LEMMA ParentFacts ==
  ASSUME NEW k \in Nat \ {0}
  PROVE  /\ Parent(k) \in Nat /\ Parent(k) < k
         /\ \A i \in Nat : Parent(k) = i <=> (k = Left(i) \/ k = Right(i))
BY SMT DEF Parent, Left, Right

LEMMA DueType == ASSUME NEW h \in Arrays, NEW k \in 0 .. Capacity - 1 PROVE h[k].due \in Nat
<1>1. h[k] \in Entry \cup {NoEntry}  BY DEF Arrays
<1>2. CASE h[k] \in Entry  BY <1>2, HeapAssumption DEF Entry
<1>3. CASE h[k] = NoEntry  BY <1>3 DEF NoEntry
<1> QED BY <1>1, <1>2, <1>3

\* Where nothing is astray the array is a heap, and the other way round.
LEMMA InOrder ==
  ASSUME NEW h, NEW n \in Nat, NEW j \in 0 .. n - 1,
         Around(h, n, j), Below(h, n, j), Above(h, j)
  PROVE  Heaped(h, n)
BY DEF Around, Below, Above, Heaped

LEMMA Everywhere ==
  ASSUME NEW h \in Arrays, NEW n \in 0 .. Capacity, NEW j \in 0 .. n - 1, Heaped(h, n)
  PROVE  Around(h, n, j) /\ Across(h, n, j) /\ Below(h, n, j) /\ Above(h, j)
<1>1. Around(h, n, j) /\ Below(h, n, j)  BY DEF Heaped, Around, Below
<1>2. Above(h, j)  BY HeapAssumption DEF Heaped, Above
<1>3. ASSUME NEW k \in 1 .. n - 1, Parent(k) = j, j > 0
      PROVE  h[Parent(j)].due <= h[k].due
  <2>1. h[Parent(j)].due <= h[j].due  BY <1>3 DEF Heaped, Edge
  <2>2. h[j].due <= h[k].due  BY <1>3 DEF Heaped, Edge
  <2>3. /\ Parent(j) \in 0 .. Capacity - 1 /\ j \in 0 .. Capacity - 1
        /\ k \in 0 .. Capacity - 1
    BY <1>3, ParentFacts, HeapAssumption
  <2> QED BY <2>1, <2>2, <2>3, DueType
<1> QED BY <1>1, <1>2, <1>3 DEF Across

\* One turn of timer_heap_down moves the trouble one level down.
LEMMA Sink ==
  ASSUME NEW h \in Arrays, NEW n \in 0 .. Capacity, NEW j \in 0 .. n - 1, NEW s \in 1 .. n - 1,
         Parent(s) = j, Around(h, n, j), Across(h, n, j), h[s].due < h[j].due,
         \A k \in 1 .. n - 1 : Parent(k) = j => h[s].due <= h[k].due,
         NEW g, g = [h EXCEPT ![j] = h[s], ![s] = h[j]]
  PROVE  Around(g, n, s) /\ Across(g, n, s) /\ Above(g, s)
<1>0. /\ s \in 0 .. Capacity - 1 /\ j \in 0 .. Capacity - 1 /\ s # j
      /\ g[j] = h[s] /\ g[s] = h[j]
      /\ \A k \in 0 .. Capacity - 1 : k # j /\ k # s => g[k] = h[k]
  BY ParentFacts, HeapAssumption DEF Arrays
<1>1. ASSUME NEW k \in 1 .. n - 1, k # s, Parent(k) # s  PROVE Edge(g, k)
  <2>0. Parent(k) \in 0 .. Capacity - 1 /\ k \in 0 .. Capacity - 1 /\ Parent(k) < k
    BY <1>1, ParentFacts, HeapAssumption
  <2>1. CASE k = j
    <3>0. j \in Nat /\ j > 0 /\ Parent(j) \in 0 .. Capacity - 1 /\ Parent(j) < j /\ Parent(j) # s
      BY <2>0, <2>1, <1>1, HeapAssumption
    <3>1. g[Parent(k)] = h[Parent(j)]
      <4>1. Parent(j) # j  BY <3>0, HeapAssumption
      <4>2. g[Parent(j)] = h[Parent(j)]  BY <3>0, <4>1, <1>0
      <4> QED BY <4>2, <2>1
    <3>2. h[Parent(j)].due <= h[s].due  BY <3>0 DEF Across
    <3> QED BY <3>1, <3>2, <2>1, <1>0 DEF Edge
  <2>2. CASE k # j /\ Parent(k) = j
    BY <2>0, <2>2, <1>0, <1>1 DEF Edge
  <2>3. CASE k # j /\ Parent(k) # j
    BY <2>0, <2>3, <1>0, <1>1 DEF Edge, Around
  <2> QED BY <2>1, <2>2, <2>3
<1>2. ASSUME NEW k \in 1 .. n - 1, Parent(k) = s  PROVE g[Parent(s)].due <= g[k].due
  <2>1. k \in 0 .. Capacity - 1 /\ k # s /\ k # j
    BY <1>2, ParentFacts, HeapAssumption
  <2>2. h[s].due <= h[k].due  BY <1>2, <1>0, <2>1 DEF Around, Edge
  <2> QED BY <2>1, <2>2, <1>0
<1>3. Edge(g, s)
  BY <1>0, DueType DEF Edge
<1> QED BY <1>1, <1>2, <1>3 DEF Around, Across, Above

\* One turn of timer_heap_up moves the trouble one level up.
LEMMA Rise ==
  ASSUME NEW h \in Arrays, NEW n \in 0 .. Capacity, NEW j \in 1 .. n - 1, NEW p, p = Parent(j),
         Around(h, n, j), Across(h, n, j), h[j].due < h[p].due,
         NEW g, g = [h EXCEPT ![j] = h[p], ![p] = h[j]]
  PROVE  Around(g, n, p) /\ Across(g, n, p) /\ Below(g, n, p)
<1>0. /\ p \in 0 .. n - 1 /\ p \in 0 .. Capacity - 1 /\ j \in 0 .. Capacity - 1 /\ p < j
      /\ g[j] = h[p] /\ g[p] = h[j]
      /\ \A k \in 0 .. Capacity - 1 : k # j /\ k # p => g[k] = h[k]
  BY ParentFacts, HeapAssumption DEF Arrays
<1>1. ASSUME NEW k \in 1 .. n - 1, k # p, Parent(k) # p  PROVE Edge(g, k)
  <2>0. Parent(k) \in 0 .. Capacity - 1 /\ k \in 0 .. Capacity - 1 /\ k # j
    BY <1>1, ParentFacts, HeapAssumption
  <2>1. CASE Parent(k) = j
    <3>1. h[p].due <= h[k].due  BY <2>1, HeapAssumption DEF Across
    <3>2. k # p /\ g[Parent(k)] = h[p] /\ g[k] = h[k]  BY <2>0, <2>1, <1>0, <1>1
    <3> QED BY <3>1, <3>2 DEF Edge
  <2>2. CASE Parent(k) # j
    BY <2>0, <2>2, <1>0, <1>1 DEF Edge, Around
  <2> QED BY <2>1, <2>2
<1>2. ASSUME NEW k \in 1 .. n - 1, Parent(k) = p, k # j  PROVE h[p].due <= h[k].due
  BY <1>0, <1>2 DEF Around, Edge
<1>3. ASSUME NEW k \in 1 .. n - 1, Parent(k) = p
      PROVE  k \in 0 .. Capacity - 1 /\ k # p /\ h[p].due <= g[k].due
  <2>1. k \in 0 .. Capacity - 1 /\ k # p  BY <1>3, ParentFacts, HeapAssumption
  <2>2. CASE k = j  BY <2>1, <2>2, <1>0, DueType
  <2>3. CASE k # j  BY <2>1, <2>3, <1>0, <1>2, <1>3
  <2> QED BY <2>1, <2>2, <2>3
<1>4. Below(g, n, p)
  <2> SUFFICES ASSUME NEW k \in 1 .. n - 1, Parent(k) = p  PROVE g[p].due <= g[k].due
    BY DEF Below, Edge
  <2>1. h[j].due \in Nat /\ h[p].due \in Nat  BY <1>0, DueType
  <2>2. g[k].due \in Nat
    BY <1>0, <1>3, DueType
  <2>3. g[p].due < h[p].due  BY <1>0
  <2>4. g[p].due \in Nat  BY <1>0, <2>1
  <2>5. h[p].due <= g[k].due  BY <1>3
  <2> QED BY <2>1, <2>2, <2>3, <2>4, <2>5
<1>5. Across(g, n, p)
  <2> SUFFICES ASSUME NEW k \in 1 .. n - 1, Parent(k) = p, p > 0
               PROVE  g[Parent(p)].due <= g[k].due
    BY DEF Across
  <2>1. Parent(p) \in 0 .. Capacity - 1 /\ Parent(p) < p  BY <1>0, ParentFacts, HeapAssumption
  <2>2. g[Parent(p)] = h[Parent(p)]
    <3>1. Parent(p) # j /\ Parent(p) # p  BY <1>0, <2>1, HeapAssumption
    <3> QED BY <3>1, <1>0, <2>1
  <2>3. h[Parent(p)].due <= h[p].due  BY <1>0, <2>1 DEF Around, Edge
  <2>4. h[Parent(p)].due \in Nat /\ h[p].due \in Nat  BY <1>0, <2>1, DueType
  <2>5. g[k].due \in Nat  BY <1>0, <1>3, DueType
  <2>6. h[p].due <= g[k].due  BY <1>3
  <2> QED BY <2>2, <2>3, <2>4, <2>5, <2>6
<1> QED BY <1>1, <1>4, <1>5 DEF Around

\* timer_heap_down looks at both children.
LEMMA Chosen ==
  ASSUME HType, NEW i \in Used
  PROVE  LET s == SmallestChild(i) IN
         /\ s = i => Below(heap, count, i)
         /\ s # i => /\ s \in 1 .. count - 1 /\ Parent(s) = i
                     /\ heap[s].due < heap[i].due
                     /\ \A k \in 1 .. count - 1 : Parent(k) = i => heap[s].due <= heap[k].due
<1> DEFINE best == IF Left(i) < count /\ heap[Left(i)].due < heap[i].due THEN Left(i) ELSE i
           s == SmallestChild(i)
<1>1. s = IF Right(i) < count /\ heap[Right(i)].due < heap[best].due THEN Right(i) ELSE best
  BY DEF SmallestChild
<1>2. /\ i \in Nat /\ count \in Nat /\ i < count
      /\ \A k \in 0 .. count - 1 : k \in 0 .. Capacity - 1
  BY HeapAssumption DEF HType, Used
<1>3. \A k \in 0 .. count - 1 : heap[k].due \in Nat  BY <1>2, DueType DEF HType
<1>4. /\ Left(i) \in Nat \ {0} /\ Right(i) \in Nat \ {0} /\ Left(i) # i /\ Right(i) # i
      /\ Parent(Left(i)) = i /\ Parent(Right(i)) = i
  BY <1>2 DEF Left, Right, Parent
<1>5. \A k \in 1 .. count - 1 : Parent(k) = i => k = Left(i) \/ k = Right(i)
  BY <1>2, ParentFacts
<1>6. /\ Left(i) < count => heap[Left(i)].due \in Nat
      /\ Right(i) < count => heap[Right(i)].due \in Nat
      /\ heap[i].due \in Nat
  BY <1>2, <1>3, <1>4
<1>7. best \in Nat /\ best < count /\ heap[best].due \in Nat
      /\ heap[best].due <= heap[i].due
      /\ (Left(i) < count => heap[best].due <= heap[Left(i)].due)
      /\ (best = i \/ (best = Left(i) /\ heap[best].due < heap[i].due))
  BY <1>2, <1>4, <1>6
<1> HIDE DEF best
<1>8. /\ s = i => /\ Left(i) < count => heap[i].due <= heap[Left(i)].due
                  /\ Right(i) < count => heap[i].due <= heap[Right(i)].due
      /\ s # i => /\ s \in {Left(i), Right(i)} /\ s < count /\ heap[s].due < heap[i].due
                  /\ Left(i) < count => heap[s].due <= heap[Left(i)].due
                  /\ Right(i) < count => heap[s].due <= heap[Right(i)].due
  <2>1. CASE Right(i) < count /\ heap[Right(i)].due < heap[best].due
    <3>1. s = Right(i) /\ s # i  BY <1>1, <1>4, <2>1
    <3> QED BY <3>1, <2>1, <1>2, <1>4, <1>6, <1>7
  <2>2. CASE ~(Right(i) < count /\ heap[Right(i)].due < heap[best].due)
    <3>1. s = best  BY <1>1, <2>2
    <3>2. Right(i) < count => heap[best].due <= heap[Right(i)].due  BY <2>2, <1>6, <1>7
    <3> QED BY <3>1, <3>2, <1>6, <1>7
  <2> QED BY <2>1, <2>2
<1> HIDE DEF s
<1>9. ASSUME s = i  PROVE Below(heap, count, i)
  <2> SUFFICES ASSUME NEW k \in 1 .. count - 1, Parent(k) = i
               PROVE  heap[i].due <= heap[k].due
    BY DEF Below, Edge
  <2> QED BY <1>2, <1>5, <1>8, <1>9
<1>10. ASSUME s # i
       PROVE  /\ s \in 1 .. count - 1 /\ Parent(s) = i /\ heap[s].due < heap[i].due
              /\ \A k \in 1 .. count - 1 : Parent(k) = i => heap[s].due <= heap[k].due
  <2>1. s \in Nat \ {0} /\ s < count /\ Parent(s) = i /\ heap[s].due < heap[i].due
    BY <1>4, <1>8, <1>10
  <2>2. ASSUME NEW k \in 1 .. count - 1, Parent(k) = i  PROVE heap[s].due <= heap[k].due
    BY <1>2, <1>5, <1>8, <1>10, <2>2
  <2> QED BY <1>2, <2>1, <2>2
<1> QED BY <1>9, <1>10 DEF s

-----------------------------------------------------------------------------
(* The sifts still to be made                                              *)

LEMMA Todos ==
  ASSUME NEW T, NEW a \in T, NEW b \in T, NEW x \in T
  PROVE  /\ Head(<<a>>) = a /\ Tail(<<a>>) = <<>> /\ <<x>> \o Tail(<<a>>) = <<x>>
         /\ Head(<<a, b>>) = a /\ Tail(<<a, b>>) = <<b>> /\ <<x>> \o Tail(<<a, b>>) = <<x, b>>
         /\ <<a>> # <<>> /\ <<a, b>> # <<>>
<1>1. <<a>> \in Seq(T) /\ <<a, b>> \in Seq(T) /\ <<x>> \in Seq(T)  OBVIOUS
<1>2. Tail(<<a>>) = <<>>  OBVIOUS
<1>3. Tail(<<a, b>>) = <<b>>  OBVIOUS
<1>4. <<x>> \o <<>> = <<x>>  OBVIOUS
<1>5. <<x>> \o <<b>> = <<x, b>>
  <2> DEFINE c == <<x>> \o <<b>>
  <2>1. c \in Seq(T) /\ Len(c) = 2  OBVIOUS
  <2>2. c[1] = x /\ c[2] = b  OBVIOUS
  <2> HIDE DEF c
  <2>3. c = <<x, b>>  BY <2>1, <2>2
  <2> QED BY <2>3 DEF c
<1>6. Head(<<a>>) = a /\ Head(<<a, b>>) = a  OBVIOUS
<1>7. <<a>> # <<>> /\ <<a, b>> # <<>>  OBVIOUS
<1> QED BY <1>2, <1>3, <1>4, <1>5, <1>6, <1>7

Moves == [dir : {"up", "down"}, at : Nat]

LEMMA MoveType ==
  ASSUME NEW j \in Nat
  PROVE  /\ Up(j) \in Moves /\ Down(j) \in Moves
         /\ Up(j).dir = "up" /\ Down(j).dir = "down" /\ Up(j).at = j /\ Down(j).at = j
BY DEF Up, Down, Moves

LEMMA UsedType == ASSUME HType  PROVE \A j \in Used : j \in Nat /\ j \in 0 .. Capacity - 1
BY HeapAssumption DEF HType, Used

LEMMA SwapType ==
  ASSUME HType, NEW i \in Used, NEW j \in Used, Swap(i, j), UNCHANGED <<count, taken>>
  PROVE  HType'
<1>1. i \in 0 .. Capacity - 1 /\ j \in 0 .. Capacity - 1  BY UsedType
<1>2. heap' \in Arrays  BY <1>1 DEF Swap, HType, Arrays
<1>3. \A k \in Used' : heap'[k] \in Entry
  BY <1>1, UsedType DEF Swap, HType, Arrays, Used
<1> QED BY <1>2, <1>3 DEF HType

\* timer_heap_up: it ends where nothing is astray any more.
LEMMA UpKeeps == HInv /\ SiftUp => HInv'
<1> SUFFICES ASSUME HInv, SiftUp  PROVE HInv'
  OBVIOUS
<1>0. HType /\ Shape /\ todo # <<>> /\ Head(todo).dir = "up" /\ UNCHANGED <<count, taken>>
  BY DEF HInv, SiftUp, Free
<1>1. ASSUME NEW j \in Used, Head(todo) = Up(j), Astray(j)
      PROVE  \/ /\ j > 0 /\ Parent(j) \in Used /\ Parent(j) < j /\ HType'
                /\ todo' = <<Up(Parent(j))>> \o Tail(todo)
                /\ Around(heap', count, Parent(j)) /\ Across(heap', count, Parent(j))
                /\ Below(heap', count, Parent(j))
             \/ /\ UNCHANGED heap /\ todo' = Tail(todo) /\ Above(heap, j) /\ HType'
  <2>0. j \in Nat /\ j \in 0 .. Capacity - 1 /\ Head(todo).at = j /\ j < count /\ count \in Nat
    BY <1>0, <1>1, UsedType, MoveType, HeapAssumption DEF HType, Used
  <2>1. CASE j > 0 /\ heap[j].due < heap[Parent(j)].due
    <3>1. Parent(j) \in Used /\ Parent(j) < j  BY <2>0, <2>1, ParentFacts DEF Used
    <3>2. Swap(j, Parent(j)) /\ todo' = <<Up(Parent(j))>> \o Tail(todo)
      BY <2>0, <2>1 DEF SiftUp
    <3>3. HType'  BY <1>0, <3>1, <3>2, SwapType
    <3>4. heap' = [heap EXCEPT ![j] = heap[Parent(j)], ![Parent(j)] = heap[j]]
      BY <3>2 DEF Swap
    <3>5. /\ Around(heap', count, Parent(j)) /\ Across(heap', count, Parent(j))
          /\ Below(heap', count, Parent(j))
      <4>1. heap \in Arrays /\ count \in 0 .. Capacity /\ j \in 1 .. count - 1
        BY <1>0, <2>0, <2>1 DEF HType
      <4> QED BY <4>1, <1>1, <2>1, <3>4, Rise DEF Astray
    <3> QED BY <2>1, <3>1, <3>2, <3>3, <3>5
  <2>2. CASE ~(j > 0 /\ heap[j].due < heap[Parent(j)].due)
    <3>1. UNCHANGED heap /\ todo' = Tail(todo)  BY <2>0, <2>2 DEF SiftUp
    <3>2. HType'  BY <1>0, <3>1 DEF HType, Used
    <3>3. ASSUME j > 0  PROVE Edge(heap, j)
      <4>1. Parent(j) \in 0 .. Capacity - 1  BY <2>0, <3>3, ParentFacts, HeapAssumption
      <4>2. heap[j].due \in Nat /\ heap[Parent(j)].due \in Nat
        BY <1>0, <2>0, <4>1, DueType DEF HType
      <4> QED BY <2>2, <3>3, <4>2 DEF Edge
    <3> QED BY <3>1, <3>2, <3>3 DEF Above
  <2> QED BY <2>1, <2>2
<1>2. CASE Idle  BY <1>0, <1>2 DEF Idle
<1>3. CASE Rising
  <2> PICK j \in Used : todo = <<Up(j)>> /\ Astray(j) /\ Below(heap, count, j)
    BY <1>3 DEF Rising
  <2>0. j \in Nat /\ count \in Nat /\ j \in 0 .. count - 1
    BY <1>0, UsedType, HeapAssumption DEF HType, Used
  <2>1. Head(todo) = Up(j) /\ Tail(todo) = <<>>  BY <2>0, MoveType, Todos
  <2>2. CASE /\ j > 0 /\ Parent(j) \in Used /\ HType'
             /\ todo' = <<Up(Parent(j))>> \o Tail(todo)
             /\ Around(heap', count, Parent(j)) /\ Across(heap', count, Parent(j))
             /\ Below(heap', count, Parent(j))
    <3>1. todo' = <<Up(Parent(j))>>
      <4>1. Parent(j) \in Nat  BY <2>0, <2>2, ParentFacts
      <4>2. Up(Parent(j)) \in Moves  BY <4>1, MoveType
      <4> QED BY <2>1, <2>2, <4>2, Todos
    <3>2. Rising'  BY <2>2, <3>1, <1>0 DEF Rising, Astray, Used
    <3> QED BY <2>2, <3>2 DEF HInv, Shape
  <2>3. CASE UNCHANGED heap /\ todo' = Tail(todo) /\ Above(heap, j) /\ HType'
    <3>1. Heaped(heap, count)  BY <2>0, <2>3, InOrder DEF Astray
    <3>2. Idle'  BY <2>1, <2>3, <3>1, <1>0 DEF Idle
    <3> QED BY <2>3, <3>2 DEF HInv, Shape
  <2> QED BY <1>1, <2>1, <2>2, <2>3
<1>4. CASE RisingFirst
  <2> PICK j \in Used, i \in Used :
         todo = <<Up(j), Down(i)>> /\ j <= i /\ Astray(j) /\ (j # i => Below(heap, count, j))
    BY <1>4 DEF RisingFirst
  <2>0. j \in Nat /\ i \in Nat /\ count \in Nat /\ j \in 0 .. count - 1 /\ i \in 0 .. count - 1
    BY <1>0, UsedType, HeapAssumption DEF HType, Used
  <2>1. Head(todo) = Up(j) /\ Tail(todo) = <<Down(i)>>  BY <2>0, MoveType, Todos
  <2>2. CASE /\ j > 0 /\ Parent(j) \in Used /\ Parent(j) < j /\ HType'
             /\ todo' = <<Up(Parent(j))>> \o Tail(todo)
             /\ Around(heap', count, Parent(j)) /\ Across(heap', count, Parent(j))
             /\ Below(heap', count, Parent(j))
    <3>0. Parent(j) \in Nat  BY <2>0, <2>2, ParentFacts
    <3>1. todo' = <<Up(Parent(j)), Down(i)>>
      <4>1. Up(Parent(j)) \in Moves /\ Down(i) \in Moves /\ Up(j) \in Moves
        BY <2>0, <3>0, MoveType
      <4> QED BY <2>2, <4>1, Todos
    <3>2. Parent(j) <= i  BY <2>0, <2>2, <3>0
    <3>3. RisingFirst'  BY <2>2, <3>1, <3>2, <1>0 DEF RisingFirst, Astray, Used
    <3> QED BY <2>2, <3>3 DEF HInv, Shape
  <2>3. CASE UNCHANGED heap /\ todo' = Tail(todo) /\ Above(heap, j) /\ HType'
    <3>1. Astray(i) /\ Above(heap, i)
      <4>1. CASE j = i  BY <2>3, <4>1
      <4>2. CASE j # i
        <5>1. Heaped(heap, count)  BY <2>0, <2>3, <4>2, InOrder DEF Astray
        <5> QED BY <5>1, <2>0, <1>0, Everywhere DEF Astray, HType
      <4> QED BY <4>1, <4>2
    <3>2. Sinking'  BY <2>1, <2>3, <3>1, <1>0 DEF Sinking, Astray, Used
    <3> QED BY <2>3, <3>2 DEF HInv, Shape
  <2> QED BY <1>1, <2>1, <2>2, <2>3
<1>5. CASE Sinking
  <2> PICK j \in Used : todo = <<Down(j)>>  BY <1>5 DEF Sinking
  <2>1. j \in Nat  BY <1>0, UsedType
  <2>2. Head(todo) = Down(j)  BY <2>1, MoveType, Todos
  <2> QED BY <1>0, <2>1, <2>2, MoveType
<1>6. CASE SinkingFirst
  <2> PICK j \in Used, i \in Used : todo = <<Down(j), Up(i)>>  BY <1>6 DEF SinkingFirst
  <2>1. j \in Nat /\ i \in Nat  BY <1>0, UsedType
  <2>2. Head(todo) = Down(j)  BY <2>1, MoveType, Todos
  <2> QED BY <1>0, <2>1, <2>2, MoveType
<1> QED BY <1>0, <1>2, <1>3, <1>4, <1>5, <1>6 DEF Shape

\* timer_heap_down, likewise.
LEMMA DownKeeps == HInv /\ SiftDown => HInv'
<1> SUFFICES ASSUME HInv, SiftDown  PROVE HInv'
  OBVIOUS
<1>0. HType /\ Shape /\ todo # <<>> /\ Head(todo).dir = "down" /\ UNCHANGED <<count, taken>>
  BY DEF HInv, SiftDown, Free
<1>1. ASSUME NEW j \in Used, Head(todo) = Down(j), Astray(j)
      PROVE  \/ \E s \in Used : /\ s \in 1 .. count - 1 /\ j < s /\ HType'
                                /\ todo' = <<Down(s)>> \o Tail(todo)
                                /\ Around(heap', count, s) /\ Across(heap', count, s)
                                /\ Above(heap', s)
             \/ UNCHANGED heap /\ todo' = Tail(todo) /\ Below(heap, count, j) /\ HType'
  <2> DEFINE s == SmallestChild(j)
  <2>0. /\ j \in Nat /\ j \in 0 .. count - 1 /\ Head(todo).at = j /\ count \in Nat
        /\ count \in 0 .. Capacity /\ heap \in Arrays
    BY <1>0, <1>1, UsedType, MoveType, HeapAssumption DEF HType, Used
  <2>1. CASE s # j
    <3>1. /\ s \in 1 .. count - 1 /\ Parent(s) = j /\ heap[s].due < heap[j].due
          /\ \A k \in 1 .. count - 1 : Parent(k) = j => heap[s].due <= heap[k].due
      BY <1>0, <2>1, Chosen
    <3>2. Swap(j, s) /\ todo' = <<Down(s)>> \o Tail(todo)
      BY <2>0, <2>1 DEF SiftDown
    <3> HIDE DEF s
    <3>3. s \in Used /\ j < s  BY <3>1, <2>0, ParentFacts DEF Used
    <3>4. HType'  BY <1>0, <3>2, <3>3, SwapType
    <3>5. heap' = [heap EXCEPT ![j] = heap[s], ![s] = heap[j]]  BY <3>2 DEF Swap
    <3>6. Around(heap', count, s) /\ Across(heap', count, s) /\ Above(heap', s)
      BY <1>1, <2>0, <3>1, <3>5, Sink DEF Astray
    <3> QED BY <3>1, <3>2, <3>3, <3>4, <3>6
  <2>2. CASE s = j
    <3>1. UNCHANGED heap /\ todo' = Tail(todo)  BY <2>0, <2>2 DEF SiftDown
    <3>2. HType'  BY <1>0, <3>1 DEF HType, Used
    <3>3. Below(heap, count, j)  BY <1>0, <2>2, Chosen
    <3> QED BY <3>1, <3>2, <3>3
  <2> QED BY <2>1, <2>2
<1>2. CASE Idle  BY <1>0, <1>2 DEF Idle
<1>3. CASE Sinking
  <2> PICK j \in Used : todo = <<Down(j)>> /\ Astray(j) /\ Above(heap, j)
    BY <1>3 DEF Sinking
  <2>0. j \in Nat /\ count \in Nat /\ j \in 0 .. count - 1
    BY <1>0, UsedType, HeapAssumption DEF HType, Used
  <2>1. Head(todo) = Down(j) /\ Tail(todo) = <<>>  BY <2>0, MoveType, Todos
  <2>2. ASSUME NEW s \in Used, HType', todo' = <<Down(s)>> \o Tail(todo),
               Around(heap', count, s), Across(heap', count, s), Above(heap', s)
        PROVE  HInv'
    <3>1. todo' = <<Down(s)>>
      <4>1. s \in Nat  BY <1>0, UsedType
      <4>2. Down(s) \in Moves  BY <4>1, MoveType
      <4> QED BY <2>1, <2>2, <4>2, Todos
    <3>2. Sinking'  BY <2>2, <3>1, <1>0 DEF Sinking, Astray, Used
    <3> QED BY <2>2, <3>2 DEF HInv, Shape
  <2>3. CASE UNCHANGED heap /\ todo' = Tail(todo) /\ Below(heap, count, j) /\ HType'
    <3>1. Heaped(heap, count)  BY <2>0, <2>3, InOrder DEF Astray
    <3>2. Idle'  BY <2>1, <2>3, <3>1, <1>0 DEF Idle
    <3> QED BY <2>3, <3>2 DEF HInv, Shape
  <2> QED BY <1>1, <2>1, <2>2, <2>3
<1>4. CASE SinkingFirst
  <2> PICK j \in Used, i \in Used :
         todo = <<Down(j), Up(i)>> /\ i <= j /\ Astray(j) /\ (j # i => Above(heap, j))
    BY <1>4 DEF SinkingFirst
  <2>0. j \in Nat /\ i \in Nat /\ count \in Nat /\ j \in 0 .. count - 1 /\ i \in 0 .. count - 1
    BY <1>0, UsedType, HeapAssumption DEF HType, Used
  <2>1. Head(todo) = Down(j) /\ Tail(todo) = <<Up(i)>>  BY <2>0, MoveType, Todos
  <2>2. ASSUME NEW s \in Used, j < s, HType', todo' = <<Down(s)>> \o Tail(todo),
               Around(heap', count, s), Across(heap', count, s), Above(heap', s)
        PROVE  HInv'
    <3>0. s \in Nat  BY <1>0, UsedType
    <3>1. todo' = <<Down(s), Up(i)>>
      <4>1. Down(s) \in Moves /\ Up(i) \in Moves /\ Down(j) \in Moves
        BY <2>0, <3>0, MoveType
      <4> QED BY <2>2, <4>1, Todos
    <3>2. i <= s  BY <2>0, <2>2, <3>0
    <3>3. SinkingFirst'  BY <2>2, <3>1, <3>2, <1>0 DEF SinkingFirst, Astray, Used
    <3> QED BY <2>2, <3>3 DEF HInv, Shape
  <2>3. CASE UNCHANGED heap /\ todo' = Tail(todo) /\ Below(heap, count, j) /\ HType'
    <3>1. Astray(i) /\ Below(heap, count, i)
      <4>1. CASE j = i  BY <2>3, <4>1
      <4>2. CASE j # i
        <5>1. Heaped(heap, count)  BY <2>0, <2>3, <4>2, InOrder DEF Astray
        <5> QED BY <5>1, <2>0, <1>0, Everywhere DEF Astray, HType
      <4> QED BY <4>1, <4>2
    <3>2. Rising'  BY <2>1, <2>3, <3>1, <1>0 DEF Rising, Astray, Used
    <3> QED BY <2>3, <3>2 DEF HInv, Shape
  <2> QED BY <1>1, <2>1, <2>2, <2>3
<1>5. CASE Rising
  <2> PICK j \in Used : todo = <<Up(j)>>  BY <1>5 DEF Rising
  <2>1. j \in Nat  BY <1>0, UsedType
  <2>2. Head(todo) = Up(j)  BY <2>1, MoveType, Todos
  <2> QED BY <1>0, <2>1, <2>2, MoveType
<1>6. CASE RisingFirst
  <2> PICK j \in Used, i \in Used : todo = <<Up(j), Down(i)>>  BY <1>6 DEF RisingFirst
  <2>1. j \in Nat /\ i \in Nat  BY <1>0, UsedType
  <2>2. Head(todo) = Up(j)  BY <2>1, MoveType, Todos
  <2> QED BY <1>0, <2>1, <2>2, MoveType
<1> QED BY <1>0, <1>2, <1>3, <1>4, <1>5, <1>6 DEF Shape

-----------------------------------------------------------------------------
(* Operations, which find everything in order                              *)

LEMMA WhenFree == ASSUME HInv, Free  PROVE HType /\ Heaped(heap, count)
<1>1. \A a, b : <<a>> # <<>> /\ <<a, b>> # <<>>  OBVIOUS
<1> QED BY <1>1 DEF HInv, Shape, Free, Idle, Rising, Sinking, RisingFirst, SinkingFirst

\* The last entry takes the place of entry i.
LEMMA Removed ==
  ASSUME HType, Heaped(heap, count), NEW i \in Used,
         heap' = [heap EXCEPT ![i] = heap[count - 1], ![count - 1] = NoEntry],
         count' = count - 1
  PROVE  /\ heap' \in Arrays /\ count' \in 0 .. Capacity
         /\ \A k \in Used' : heap'[k] \in Entry
         /\ Around(heap', count', i) /\ Across(heap', count', i)
         /\ i = count - 1 => Heaped(heap', count')
<1>0. /\ count \in Nat \ {0} /\ count <= Capacity /\ i \in Nat /\ i < count
      /\ i \in 0 .. Capacity - 1 /\ count - 1 \in 0 .. Capacity - 1
  BY HeapAssumption DEF HType, Used
<1>1. heap' \in Arrays /\ count' \in 0 .. Capacity
  <2>1. heap \in Arrays  BY DEF HType
  <2>2. heap' \in Arrays
    BY ONLY <1>0, <2>1,
            heap' = [heap EXCEPT ![i] = heap[count - 1], ![count - 1] = NoEntry]
    DEF Arrays
  <2>3. count' \in 0 .. Capacity  BY <1>0, HeapAssumption
  <2> QED BY <2>2, <2>3
<1>2. \A k \in Used' : heap'[k] \in Entry
  BY <1>0, HeapAssumption DEF HType, Used, Arrays
<1>3. \A k \in 0 .. count - 2 : k # i => heap'[k] = heap[k]
  BY <1>0, HeapAssumption DEF HType, Arrays
<1>4. ASSUME NEW k \in 1 .. count' - 1, k # i, Parent(k) # i  PROVE Edge(heap', k)
  <2>1. /\ k \in 0 .. count - 2 /\ Parent(k) \in 0 .. count - 2 /\ k \in 1 .. count - 1
    BY <1>0, <1>4, ParentFacts
  <2> QED BY <1>3, <1>4, <2>1 DEF Edge, Heaped
<1>5. ASSUME NEW k \in 1 .. count' - 1, Parent(k) = i, i > 0
      PROVE  heap'[Parent(i)].due <= heap'[k].due
  <2>1. /\ k \in 0 .. count - 2 /\ Parent(i) \in 0 .. count - 2 /\ Parent(i) < i /\ i < k
        /\ k \in 1 .. count - 1
    BY <1>0, <1>5, ParentFacts
  <2>2. Across(heap, count, i)  BY <1>0, Everywhere DEF HType, Used
  <2>3. heap[Parent(i)].due <= heap[k].due  BY <1>5, <2>1, <2>2 DEF Across
  <2>4. heap'[Parent(i)] = heap[Parent(i)]
    <3>1. Parent(i) # i  BY <1>0, <2>1
    <3> QED BY <1>3, <2>1, <3>1
  <2>5. heap'[k] = heap[k]
    <3>1. k # i  BY <1>0, <2>1
    <3> QED BY <1>3, <2>1, <3>1
  <2> QED BY <2>3, <2>4, <2>5
<1>6. ASSUME i = count - 1  PROVE Heaped(heap', count')
  <2> SUFFICES ASSUME NEW k \in 1 .. count' - 1  PROVE Edge(heap', k)
    BY DEF Heaped
  <2>1. k # i /\ Parent(k) # i  BY <1>0, <1>6, ParentFacts
  <2> QED BY <1>4, <2>1
<1> QED BY <1>1, <1>2, <1>4, <1>5, <1>6 DEF Around, Across

LEMMA StopKeeps == ASSUME HInv, NEW id \in Ids, Stop(id)  PROVE HInv'
<1>0. HType /\ Heaped(heap, count) /\ taken' = NoEntry  BY WhenFree DEF Stop
<1> PICK i \in Used : /\ heap' = [heap EXCEPT ![i] = heap[count - 1], ![count - 1] = NoEntry]
                      /\ count' = count - 1
                      /\ todo' = IF i < count - 1 THEN <<Down(i), Up(i)>> ELSE <<>>
  BY DEF Stop
<1>1. /\ heap' \in Arrays /\ count' \in 0 .. Capacity /\ \A k \in Used' : heap'[k] \in Entry
      /\ Around(heap', count', i) /\ Across(heap', count', i)
      /\ i = count - 1 => Heaped(heap', count')
  BY <1>0, Removed
<1>2. HType'  BY <1>0, <1>1 DEF HType
<1>3. i \in Nat /\ count \in Nat /\ i < count  BY <1>0, HeapAssumption DEF HType, Used
<1>4. CASE i < count - 1
  <2>1. i \in Used' /\ todo' = <<Down(i), Up(i)>> /\ i <= i  BY <1>3, <1>4 DEF Used
  <2>2. SinkingFirst'  BY <1>1, <2>1 DEF SinkingFirst, Astray
  <2> QED BY <1>2, <2>2 DEF HInv, Shape
<1>5. CASE i = count - 1
  <2>1. Idle'  BY <1>1, <1>3, <1>5 DEF Idle
  <2> QED BY <1>2, <2>1 DEF HInv, Shape
<1> QED BY <1>3, <1>4, <1>5

LEMMA FireKeeps == HInv /\ Fire => HInv'
<1> SUFFICES ASSUME HInv, Fire  PROVE HInv'
  OBVIOUS
<1>0. HType /\ Heaped(heap, count)  BY WhenFree DEF Fire
<1>1. 0 \in Used /\ count \in Nat  BY <1>0, HeapAssumption DEF Fire, HType, Used
<1>2. /\ heap' \in Arrays /\ count' \in 0 .. Capacity /\ \A k \in Used' : heap'[k] \in Entry
      /\ Around(heap', count', 0) /\ Across(heap', count', 0)
      /\ 0 = count - 1 => Heaped(heap', count')
  BY <1>0, <1>1, Removed DEF Fire
<1>3. HType'  BY <1>0, <1>1, <1>2 DEF HType, Fire
<1>4. CASE count > 1
  <2>1. 0 \in Used' /\ todo' = <<Down(0)>>  BY <1>1, <1>4 DEF Fire, Used
  <2>2. Above(heap', 0)  BY DEF Above
  <2>3. Sinking'  BY <1>2, <2>1, <2>2 DEF Sinking, Astray
  <2> QED BY <1>3, <2>3 DEF HInv, Shape
<1>5. CASE ~(count > 1)
  <2>1. todo' = <<>> /\ 0 = count - 1  BY <1>1, <1>5 DEF Fire
  <2>2. Idle'  BY <1>2, <2>1 DEF Idle
  <2> QED BY <1>3, <2>2 DEF HInv, Shape
<1> QED BY <1>4, <1>5

LEMMA StartKeeps == ASSUME HInv, NEW e \in Entry, Start(e)  PROVE HInv'
<1>0. HType /\ Heaped(heap, count)  BY WhenFree DEF Start
<1>1. count \in Nat /\ count < Capacity /\ count \in 0 .. Capacity - 1
  BY <1>0, HeapAssumption DEF HType, Start
<1>2. heap'[count] = e /\ \A k \in 0 .. count - 1 : heap'[k] = heap[k]
  BY <1>0, <1>1 DEF Start, HType, Arrays
<1>3. HType'
  <2>1. heap' \in Arrays /\ count' \in 0 .. Capacity /\ taken' = NoEntry
    <3>1. heap \in Arrays /\ heap' = [heap EXCEPT ![count] = e]  BY <1>0 DEF HType, Start
    <3>2. heap' \in Arrays  BY <1>1, <3>1 DEF Arrays
    <3> QED BY <1>1, <3>2, HeapAssumption DEF Start
  <2>2. \A k \in Used' : heap'[k] \in Entry  BY <1>0, <1>1, <1>2 DEF Start, HType, Used
  <2> QED BY <2>1, <2>2 DEF HType
<1>4. ASSUME NEW k \in 1 .. count' - 1, k # count  PROVE Edge(heap', k)
  <2>1. k \in 1 .. count - 1 /\ k \in 0 .. count - 1 /\ Parent(k) \in 0 .. count - 1
    BY <1>1, <1>4, ParentFacts DEF Start
  <2> QED BY <1>0, <1>2, <2>1 DEF Heaped, Edge
<1>5. ASSUME NEW k \in 1 .. count' - 1  PROVE Parent(k) # count
  BY <1>1, ParentFacts DEF Start
<1>6. Rising'
  <2>1. count \in Used' /\ todo' = <<Up(count)>>  BY <1>1 DEF Start, Used
  <2>2. Around(heap', count', count) /\ Across(heap', count', count) /\ Below(heap', count', count)
    BY <1>4, <1>5 DEF Around, Across, Below
  <2> QED BY <2>1, <2>2 DEF Rising, Astray
<1> QED BY <1>3, <1>6 DEF HInv, Shape

LEMMA AgainKeeps == ASSUME HInv, NEW id \in Ids, NEW d \in Dues, Again(id, d)  PROVE HInv'
<1>0. HType /\ Heaped(heap, count) /\ taken' = NoEntry /\ count' = count
  BY WhenFree DEF Again
<1> PICK i \in Used : /\ heap' = [heap EXCEPT ![i].due = d]
                      /\ todo' = IF i > 0 THEN <<Up(i), Down(i)>> ELSE <<Down(i)>>
  BY DEF Again
<1>1. i \in Nat /\ count \in Nat /\ i < count /\ i \in 0 .. Capacity - 1 /\ i \in 0 .. count - 1
  BY <1>0, HeapAssumption DEF HType, Used
<1>2. /\ \A k \in 0 .. Capacity - 1 : k # i => heap'[k] = heap[k]
      /\ heap'[i] = [heap[i] EXCEPT !.due = d]
  BY <1>0, <1>1 DEF HType, Arrays
<1>3. heap'[i] \in Entry
  BY <1>0, <1>1, <1>2 DEF HType, Entry
<1>4. HType'
  <2>1. heap' \in Arrays  BY <1>0, <1>1, <1>2, <1>3 DEF HType, Arrays
  <2>2. \A k \in Used' : heap'[k] \in Entry
    BY <1>0, <1>1, <1>2, <1>3, UsedType DEF HType, Used
  <2> QED BY <1>0, <2>1, <2>2 DEF HType
<1>5. ASSUME NEW k \in 1 .. count - 1, k # i, Parent(k) # i  PROVE Edge(heap', k)
  <2>1. k \in 0 .. Capacity - 1 /\ Parent(k) \in 0 .. Capacity - 1
    BY <1>0, ParentFacts, HeapAssumption DEF HType
  <2> QED BY <1>0, <1>2, <1>5, <2>1 DEF Heaped, Edge
<1>6. ASSUME NEW k \in 1 .. count - 1, Parent(k) = i, i > 0
      PROVE  heap'[Parent(i)].due <= heap'[k].due
  <2>1. /\ k \in 0 .. Capacity - 1 /\ k # i /\ Parent(i) \in 0 .. Capacity - 1 /\ Parent(i) # i
    BY <1>0, <1>1, <1>6, ParentFacts, HeapAssumption DEF HType
  <2>2. Across(heap, count, i)  BY <1>0, <1>1, Everywhere DEF HType
  <2> QED BY <1>2, <1>6, <2>1, <2>2 DEF Across
<1>7. Around(heap', count', i) /\ Across(heap', count', i)
  BY <1>0, <1>5, <1>6 DEF Around, Across
<1>8. CASE i > 0
  <2>1. i \in Used' /\ todo' = <<Up(i), Down(i)>> /\ i <= i  BY <1>0, <1>1, <1>8 DEF Used
  <2>2. RisingFirst'  BY <1>7, <2>1 DEF RisingFirst, Astray
  <2> QED BY <1>4, <2>2 DEF HInv, Shape
<1>9. CASE ~(i > 0)
  <2>1. i \in Used' /\ todo' = <<Down(i)>>  BY <1>0, <1>1, <1>9 DEF Used
  <2>2. Above(heap', i)  BY <1>9 DEF Above
  <2>3. Sinking'  BY <1>7, <2>1, <2>2 DEF Sinking, Astray
  <2> QED BY <1>4, <2>3 DEF HInv, Shape
<1> QED BY <1>8, <1>9

-----------------------------------------------------------------------------
LEMMA HeapInit == Init => HInv
<1> SUFFICES ASSUME Init  PROVE HInv
  OBVIOUS
<1>1. HType  BY HeapAssumption DEF Init, HType, Arrays, Used, NoEntry
<1>2. Idle  BY DEF Init, Idle, Heaped
<1> QED BY <1>1, <1>2 DEF HInv, Shape

LEMMA HeapNext == HInv /\ [Next]_heapVars => HInv'
<1> SUFFICES ASSUME HInv, [Next]_heapVars  PROVE HInv'
  OBVIOUS
<1>1. CASE UNCHANGED heapVars
  <2>1. HType'  BY <1>1 DEF HInv, HType, Used, heapVars
  <2>2. Shape'
    BY <1>1 DEF HInv, Shape, heapVars, Idle, Rising, Sinking, RisingFirst, SinkingFirst, Astray, Used
  <2> QED BY <2>1, <2>2 DEF HInv
<1>2. CASE Next
  BY <1>2, UpKeeps, DownKeeps, StartKeeps, StopKeeps, AgainKeeps, FireKeeps DEF Next
<1> QED BY <1>1, <1>2

\* Whenever timer_lock is free, no timer is due before its parent, after any
\* sequence of starts, stops, changes and firings, for any number of timers.
THEOREM HeapStays == Spec => []HeapOrdered
<1>1. HInv => HeapOrdered
  <2> SUFFICES ASSUME HInv, Free  PROVE \A i \in Used \ {0} : heap[Parent(i)].due <= heap[i].due
    BY DEF HeapOrdered
  <2>1. Heaped(heap, count)  BY WhenFree
  <2>2. \A i \in Used \ {0} : i \in 1 .. count - 1
    BY HeapAssumption DEF HInv, HType, Used
  <2> QED BY <2>1, <2>2 DEF Heaped, Edge
<1> QED BY <1>1, HeapInit, HeapNext, PTL DEF Spec
\* No operation and no turn of a sift leaves the array, and there are never more
\* than two sifts to be made.
THEOREM HeapTypes == Spec => []TypeOK
<1>1. HInv => TypeOK
  <2> SUFFICES ASSUME HInv  PROVE TypeOK
    OBVIOUS
  <2>1. HType  BY DEF HInv
  <2> DEFINE T == [dir : {"up", "down"}, at : 0 .. Capacity - 1]
  <2>2. \A j \in Used : Up(j) \in T /\ Down(j) \in T  BY <2>1, UsedType DEF Up, Down
  <2> HIDE DEF T
  <2>3. <<>> \in Seq(T) /\ Len(<<>>) <= 2  OBVIOUS
  <2>4. \A a \in T : <<a>> \in Seq(T) /\ Len(<<a>>) <= 2  OBVIOUS
  <2>5. \A a, b \in T : <<a, b>> \in Seq(T) /\ Len(<<a, b>>) <= 2  OBVIOUS
  <2>6. todo \in Seq(T) /\ Len(todo) <= 2
    <3>1. CASE Idle  BY <3>1, <2>3 DEF Idle
    <3>2. CASE Rising  BY <3>2, <2>2, <2>4 DEF Rising
    <3>3. CASE Sinking  BY <3>3, <2>2, <2>4 DEF Sinking
    <3>4. CASE RisingFirst  BY <3>4, <2>2, <2>5 DEF RisingFirst
    <3>5. CASE SinkingFirst  BY <3>5, <2>2, <2>5 DEF SinkingFirst
    <3> QED BY <3>1, <3>2, <3>3, <3>4, <3>5 DEF HInv, Shape
  <2> QED BY <2>1, <2>6 DEF TypeOK, HType, Arrays, T
<1> QED BY <1>1, HeapInit, HeapNext, PTL DEF Spec
=============================================================================
