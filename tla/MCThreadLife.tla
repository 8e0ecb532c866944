----------------------------- MODULE MCThreadLife -----------------------------
(***************************************************************************)
(* Instances of ThreadLife for TLC: every worker is created once, which    *)
(* bounds everything.                                                      *)
(***************************************************************************)
EXTENDS ThreadLife, TLC

CONSTANTS c1, c2, w1, w2

\* One worker is c1's; the other one is anybody's.
OneOwner == w1 :> c1
===============================================================================
