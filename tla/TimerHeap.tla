------------------------------ MODULE TimerHeap ------------------------------
(***************************************************************************)
(* The timers of an event loop as leventloop.c keeps them: a binary heap   *)
(* in an array, ordered by time, changed only under timer_lock.            *)
(*                                                                         *)
(* timer_heap_up and timer_heap_down are modelled one turn of their loop   *)
(* at a time; `todo' holds the sifts that the operation which holds the    *)
(* lock still has to make, so the lock is free exactly when it is empty.   *)
(* Entries behind count are never read; the model clears them.             *)
(***************************************************************************)
EXTENDS Integers, Sequences, FiniteSets

CONSTANTS Ids,        \* what timer->id may be; need not tell timers apart
          Dues,       \* values of timer->timeout
          Capacity    \* config.max_timers

ASSUME HeapAssumption == /\ Capacity \in Nat \ {0}
                         /\ Dues \subseteq Nat
                         /\ "none" \notin Ids

VARIABLES heap,       \* timer_heap, indexed from 0; only [0..count-1] counts
          count,      \* timer_count
          todo,       \* sifts still to be made under timer_lock
          taken       \* timer_copy: the entry the loop took, until something else happens

heapVars == <<heap, count, todo, taken>>

Entry == [id : Ids, due : Dues]
NoEntry == [id |-> "none", due |-> 0]
Used == 0 .. count - 1
Free == todo = <<>>

Up(i) == [dir |-> "up", at |-> i]
Down(i) == [dir |-> "down", at |-> i]

Parent(i) == (i - 1) \div 2
Left(i) == 2 * i + 1
Right(i) == 2 * i + 2

Swap(i, j) == heap' = [heap EXCEPT ![i] = heap[j], ![j] = heap[i]]

TypeOK ==
  /\ heap \in [0 .. Capacity - 1 -> Entry \cup {NoEntry}]
  /\ count \in 0 .. Capacity
  /\ \A i \in Used : heap[i] \in Entry
  /\ todo \in Seq([dir : {"up", "down"}, at : 0 .. Capacity - 1])
  /\ Len(todo) <= 2
  /\ taken \in Entry \cup {NoEntry}

Init ==
  /\ heap = [i \in 0 .. Capacity - 1 |-> NoEntry]
  /\ count = 0
  /\ todo = <<>>
  /\ taken = NoEntry

-----------------------------------------------------------------------------
(* Sifting                                                                 *)

\* Form of SmallestChild in which the right child is only looked at when the
\* left one is not smaller.
SmallestChildLeftFirst(i) ==
  CASE Left(i) < count /\ heap[Left(i)].due < heap[i].due -> Left(i)
    [] Right(i) < count /\ heap[Right(i)].due < heap[i].due -> Right(i)
    [] OTHER -> i

\* leventloop.c: `smallest' of timer_heap_down
SmallestChild(i) ==
  LET best == IF Left(i) < count /\ heap[Left(i)].due < heap[i].due
              THEN Left(i) ELSE i
  IN  IF Right(i) < count /\ heap[Right(i)].due < heap[best].due
      THEN Right(i) ELSE best

\* One turn of the loop of timer_heap_up.
SiftUp ==
  /\ ~Free /\ Head(todo).dir = "up"
  /\ LET i == Head(todo).at IN
       IF i > 0 /\ heap[i].due < heap[Parent(i)].due
       THEN Swap(i, Parent(i)) /\ todo' = <<Up(Parent(i))>> \o Tail(todo)
       ELSE todo' = Tail(todo) /\ UNCHANGED heap
  /\ UNCHANGED <<count, taken>>

\* One turn of the loop of timer_heap_down.
SiftDown ==
  /\ ~Free /\ Head(todo).dir = "down"
  /\ LET i == Head(todo).at
         s == SmallestChild(i)
     IN  IF s # i
         THEN Swap(i, s) /\ todo' = <<Down(s)>> \o Tail(todo)
         ELSE todo' = Tail(todo) /\ UNCHANGED heap
  /\ UNCHANGED <<count, taken>>

-----------------------------------------------------------------------------
(* Operations                                                              *)

\* ev_timer_start: refused when the heap is full.
Start(e) ==
  /\ Free
  /\ count < Capacity
  /\ heap' = [heap EXCEPT ![count] = e]
  /\ count' = count + 1
  /\ todo' = <<Up(count)>>
  /\ taken' = NoEntry

\* find_timer_by_id: the first entry with the id
Found(id, i) == /\ i \in Used
                /\ heap[i].id = id
                /\ \A j \in 0 .. i - 1 : heap[j].id # id

\* Form of Stop that takes for granted that the last entry belongs below.
StopDownOnly(id) ==
  /\ Free
  /\ \E i \in Used :
       /\ Found(id, i)
       /\ heap' = [heap EXCEPT ![i] = heap[count - 1], ![count - 1] = NoEntry]
       /\ count' = count - 1
       /\ todo' = IF i < count - 1 THEN <<Down(i)>> ELSE <<>>
  /\ taken' = NoEntry

\* ev_timer_stop_by_id: the last entry takes the place of the one removed.
Stop(id) ==
  /\ Free
  /\ \E i \in Used :
       /\ Found(id, i)
       /\ heap' = [heap EXCEPT ![i] = heap[count - 1], ![count - 1] = NoEntry]
       /\ count' = count - 1
       /\ todo' = IF i < count - 1 THEN <<Down(i), Up(i)>> ELSE <<>>
  /\ taken' = NoEntry

\* ev_timer_again
Again(id, d) ==
  /\ Free
  /\ \E i \in Used :
       /\ Found(id, i)
       /\ heap' = [heap EXCEPT ![i].due = d]
       /\ todo' = IF i > 0 THEN <<Up(i), Down(i)>> ELSE <<Down(i)>>
  /\ taken' = NoEntry
  /\ UNCHANGED count

\* ev_loop_iterate: the top is taken; when it is due is for the loop to say.
Fire ==
  /\ Free
  /\ count > 0
  /\ taken' = heap[0]
  /\ heap' = [heap EXCEPT ![0] = heap[count - 1], ![count - 1] = NoEntry]
  /\ count' = count - 1
  /\ todo' = IF count > 1 THEN <<Down(0)>> ELSE <<>>

Next ==
  \/ SiftUp
  \/ SiftDown
  \/ \E e \in Entry : Start(e)
  \/ \E id \in Ids : Stop(id)
  \/ \E id \in Ids, d \in Dues : Again(id, d)
  \/ Fire

Spec == Init /\ [][Next]_heapVars

-----------------------------------------------------------------------------
(* Properties                                                              *)

\* When nobody holds the lock, no timer in the array is due before its
\* parent, however timers were started, stopped and moved before: otherwise
\* the loop would sleep past a timer or fire one late.
HeapOrdered == Free => \A i \in Used \ {0} : heap[Parent(i)].due <= heap[i].due

\* The entries of the array as a bag
Waiting == [e \in Entry |-> Cardinality({i \in Used : heap[i] = e})]

Bag == INSTANCE TimerBag WITH waiting <- Waiting, last <- taken

\* The heap loses no timer, keeps none twice, and hands out an earliest one.
Implements == Bag!Spec
=============================================================================
