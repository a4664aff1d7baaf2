-------------------------------- MODULE MCAuth --------------------------------
(* Instance of Auth for TLC. *)
EXTENDS Auth, TLC

RequestSymmetry == Permutations(Request)
=============================================================================
