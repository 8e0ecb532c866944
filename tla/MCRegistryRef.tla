---------------------------- MODULE MCRegistryRef ----------------------------
(***************************************************************************)
(* Instances of RegistryRef for TLC.  The number of values bounds the live *)
(* references, and with them the array.                                    *)
(***************************************************************************)
EXTENDS RegistryRef, TLC
=============================================================================
