------------------------------ MODULE MCChannel ------------------------------
(***************************************************************************)
(* Instances of Channel for TLC.  Sends are bounded by the number of       *)
(* elements; all loops of the code are otherwise unbounded.                *)
(***************************************************************************)
EXTENDS Channel, TLC

CONSTANTS t1, t2, t3, c1, c2, e1, e2

Threads2 == {t1, t2}
Threads3 == {t1, t2, t3}

\* One channel of any type.
OneChannel == {c1}
AllAccepted == OneChannel \X {e1, e2}

\* Two channels; the second one is typed and refuses e2.
TwoChannels == {c1, c2}
TypedAccepts == {<<c1, e1>>, <<c1, e2>>, <<c2, e1>>}

\* One value, which only the first channel accepts.
TypedAccepts1 == {<<c1, e1>>}

PickOne == {<<c1>>}
\* Two channels in either order, a channel listed twice, a timeout alone.
PickTwo == {<<c1, c2>>, <<c2, c1>>, <<c1, c1>>, <<>>}

ThreadSymmetry == Permutations(Threads)
==============================================================================
