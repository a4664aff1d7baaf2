--------------------------- MODULE MCDepositSaga ----------------------------
(* Instances of DepositSaga for TLC. *)
EXTENDS DepositSaga, TLC
=============================================================================
