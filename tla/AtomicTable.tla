---------------------------- MODULE AtomicTable ----------------------------
(***************************************************************************)
(* What a shared table promises its users (table.share, stdlib/ltablib.c): *)
(* table.insert, table.remove and an assignment each take effect at one    *)
(* moment, on the whole list.                                              *)
(***************************************************************************)
EXTENDS Naturals, SequencesExt

CONSTANTS
  Values,
  N         \* bound on the length

VARIABLE list

Init == list = <<>>

InsertOne ==
  /\ Len(list) < N
  /\ \E v \in Values, i \in 1..Len(list) + 1 : list' = InsertAt(list, i, v)

RemoveOne == \E i \in DOMAIN list : list' = RemoveAt(list, i)

AssignFirst == \E v \in Values :
  list' = IF list = <<>> THEN <<v>> ELSE [list EXCEPT ![1] = v]

Next == InsertOne \/ RemoveOne \/ AssignFirst

Spec == Init /\ [][Next]_list
=============================================================================
