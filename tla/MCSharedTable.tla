--------------------------- MODULE MCSharedTable ---------------------------
(***************************************************************************)
(* Instances of SharedTable for TLC; N bounds the table.                   *)
(***************************************************************************)
EXTENDS SharedTable, TLC

ValueSymmetry == Permutations(Values)
=============================================================================
