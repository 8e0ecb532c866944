------------------------------ MODULE TimerBag ------------------------------
(***************************************************************************)
(* What the timers of an event loop promise, whatever keeps them: a bag of *)
(* entries, of which the loop always takes one that is due first.  The     *)
(* same id may occur several times (laio.c never gives its timers an id).  *)
(***************************************************************************)
EXTENDS Naturals

CONSTANTS Ids,      \* timer ids
          Dues,     \* points in time
          Capacity  \* most entries

VARIABLES waiting,  \* how often each entry is in the bag
          last      \* the entry the loop took, if that is what happened last

Entry == [id : Ids, due : Dues]
NoEntry == [id |-> "none", due |-> 0]

bagVars == <<waiting, last>>

Holding == {e \in Entry : waiting[e] > 0}

Init == waiting = [e \in Entry |-> 0] /\ last = NoEntry

\* ev_timer_start
Add(e) == waiting' = [waiting EXCEPT ![e] = @ + 1] /\ last' = NoEntry

\* ev_timer_stop_by_id: one entry with the id, any if there are several
Remove(e) == /\ e \in Holding
             /\ waiting' = [waiting EXCEPT ![e] = @ - 1]
             /\ last' = NoEntry

\* ev_timer_again: one entry with the id gets another time
Move(e, d) == /\ e \in Holding
              /\ waiting' = [f \in Entry |->
                     waiting[f] - (IF f = e THEN 1 ELSE 0)
                                + (IF f = [e EXCEPT !.due = d] THEN 1 ELSE 0)]
              /\ last' = NoEntry

\* ev_loop_iterate: the loop takes an entry that nothing precedes
Take(e) == /\ e \in Holding
           /\ \A f \in Holding : e.due <= f.due
           /\ waiting' = [waiting EXCEPT ![e] = @ - 1]
           /\ last' = e

Next == \E e \in Entry : Add(e) \/ Remove(e) \/ Take(e) \/ \E d \in Dues : Move(e, d)

Spec == Init /\ [][Next]_bagVars
=============================================================================
