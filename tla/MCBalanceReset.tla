---------------------------- MODULE MCBalanceReset ----------------------------
(* Instance of BalanceReset for TLC: two balances, transfers in opposite
   directions, one of them for more than its sender may have, a deposit. *)
EXTENDS BalanceReset, TLC

CONSTANTS there, back, topUp

MCFrom == [t \in Transfer |-> IF t = there THEN 1 ELSE 2]
MCTo == [t \in Deposit \cup Transfer |-> IF t = there THEN 2 ELSE 1]
MCAmount == [t \in Deposit \cup Transfer |-> 1]
MCInitialBalance == [a \in Row |-> IF a = 1 THEN 1 ELSE 0]
MCReset == Job \X Call
=============================================================================
