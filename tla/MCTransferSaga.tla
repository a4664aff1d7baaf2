--------------------------- MODULE MCTransferSaga ---------------------------
(* Instances of TransferSaga for TLC: ann sends bob two roubles, or one, or
   both; each transfer alone is covered, the two together are not. *)
EXTENDS TransferSaga, TLC

CONSTANTS t1, t2, ann, bob

MCFrom == [t \in Transfer |-> ann]
MCTo == [t \in Transfer |-> bob]
MCAmount == [t \in Transfer |-> IF t = t1 THEN 2 ELSE 1]
MCInitialBalance == [a \in Account |-> IF a = ann THEN 2 ELSE 0]

ConsumerSymmetry == Permutations(Consumer)
=============================================================================
