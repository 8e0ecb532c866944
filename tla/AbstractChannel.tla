-------------------------- MODULE AbstractChannel --------------------------
(***************************************************************************)
(* What the channels of the `thread' library promise, without threads,     *)
(* locks or pointers: each channel is a FIFO that accepts values until it  *)
(* is closed and gives every accepted value to exactly one taker.          *)
(***************************************************************************)
EXTENDS Sequences

CONSTANTS Channels, Elems

VARIABLES
  buf,      \* values accepted and not yet taken
  taken,    \* values taken, in the order they were taken
  closed

vars == <<buf, taken, closed>>

Init ==
  /\ buf = [c \in Channels |-> <<>>]
  /\ taken = [c \in Channels |-> <<>>]
  /\ closed = [c \in Channels |-> FALSE]

Put(c, e) ==
  /\ ~closed[c]
  /\ buf' = [buf EXCEPT ![c] = Append(@, e)]
  /\ UNCHANGED <<taken, closed>>

Take(c) ==
  /\ buf[c] # <<>>
  /\ taken' = [taken EXCEPT ![c] = Append(@, Head(buf[c]))]
  /\ buf' = [buf EXCEPT ![c] = Tail(@)]
  /\ UNCHANGED closed

Close(c) ==
  /\ closed' = [closed EXCEPT ![c] = TRUE]
  /\ UNCHANGED <<buf, taken>>

\* The channel is gone, with the values nobody took, and a new one begins.
Renew(c) ==
  /\ buf' = [buf EXCEPT ![c] = <<>>]
  /\ taken' = [taken EXCEPT ![c] = <<>>]
  /\ closed' = [closed EXCEPT ![c] = FALSE]

Next == \E c \in Channels :
  \/ \E e \in Elems : Put(c, e)
  \/ Take(c) \/ Close(c) \/ Renew(c)

Spec == Init /\ [][Next]_vars
=============================================================================
