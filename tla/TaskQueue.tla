------------------------------ MODULE TaskQueue ------------------------------
(***************************************************************************)
(* What posting to an event loop promises: tasks wait in a queue of bounded*)
(* length and each is run once.  Tasks posted for the same time and with   *)
(* the same priority run in the order in which they were accepted; which   *)
(* of two others goes first is left open here.                             *)
(***************************************************************************)
EXTENDS Naturals, Sequences, SequencesExt

CONSTANTS Tasks,      \* everything that may be posted
          Class,      \* Class[t]: priority and schedule time of t, as a number
          Capacity    \* length of the queue

VARIABLES waiting,    \* accepted and not yet run
          started     \* tasks that were run

queueVars == <<waiting, started>>

Init == waiting = <<>> /\ started = {}

Accept(t) == /\ Len(waiting) < Capacity
             /\ waiting' = Append(waiting, t)
             /\ UNCHANGED started

\* The task at k is run, if none that is its equal waits in front of it.
Run(k) ==
  /\ \A j \in 1 .. k - 1 : Class[waiting[j]] # Class[waiting[k]]
  /\ waiting[k] \notin started
  /\ started' = started \cup {waiting[k]}
  /\ waiting' = RemoveAt(waiting, k)

Next == (\E k \in 1 .. Len(waiting) : Run(k)) \/ \E t \in Tasks : Accept(t)

Spec == Init /\ [][Next]_queueVars
=============================================================================
