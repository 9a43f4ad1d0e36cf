------------------------------- MODULE MCCall -------------------------------
(* Instances of Call.tla for TLC. *)
EXTENDS Call

Objects == Permutations(Calls)
=============================================================================
