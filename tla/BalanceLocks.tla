----------------------------- MODULE BalanceLocks -----------------------------
(***************************************************************************)
(* The transactions of user-service's database that change balances, and   *)
(* the row locks they take, one row at a time:                             *)
(*   a deposit locks one balance and adds to it;                           *)
(*   a transfer locks both balances in the order of their accounts, reads  *)
(*   them under the lock, and refuses or moves the amount;                 *)
(*   a reset is one UPDATE of every row, in the order of the table scan,   *)
(*   which is any order.                                                   *)
(* The sagas take each of these transactions as one step.  This module     *)
(* shows what that rests on.                                               *)
(***************************************************************************)
EXTENDS Integers, FiniteSets

CONSTANTS Accounts,          \* balances are numbered by their account's order
          Deposit, Transfer, Reset,  \* transactions
          From,              \* sender of each transfer
          To, Amount,        \* of each deposit and transfer
          InitialBalance,    \* of each row
          MaxBegun           \* bound on the deposits and transfers begun

Row == 1 .. Accounts
Tx == Deposit \cup Transfer \cup Reset

ASSUME KindsAssumption ==
    Deposit \cap Transfer = {} /\ (Deposit \cup Transfer) \cap Reset = {}
ASSUME RowsAssumption ==
    /\ Accounts \in Nat
    /\ From \in [Transfer -> Row]
    /\ To \in [Deposit \cup Transfer -> Row]
    /\ \A t \in Transfer : From[t] # To[t]   \* checked by transferRub
ASSUME AmountsAssumption ==
    /\ Amount \in [Deposit \cup Transfer -> Nat]
    /\ InitialBalance \in [Row -> Nat]
ASSUME BegunAssumption == MaxBegun \in Nat

VARIABLES
    state,   \* of each transaction
    wants,   \* the row each transaction waits for, if any
    locked,  \* the rows each transaction has locked
    read,    \* the sender's amount, as each transfer read it
    amount   \* balances.amount, committed

lockVars == <<state, wants, locked, read, amount>>

LocksOK ==
    /\ state \in [Tx -> {"idle", "open", "committed", "aborted"}]
    /\ wants \in [Tx -> SUBSET Row]
    /\ locked \in [Tx -> SUBSET Row]
    /\ read \in [Transfer -> Int]
    /\ amount \in [Row -> Int]

LocksInit ==
    /\ state = [t \in Tx |-> "idle"]
    /\ wants = [t \in Tx |-> {}]
    /\ locked = [t \in Tx |-> {}]
    /\ read = [t \in Transfer |-> 0]
    /\ amount = InitialBalance

Needs(t) == CASE t \in Deposit  -> {To[t]}
              [] t \in Transfer -> {From[t], To[t]}
              [] OTHER          -> Row

Left(t) == Needs(t) \ locked[t]

-----------------------------------------------------------------------------
Begun == {t \in Deposit \cup Transfer : state[t] # "idle"}

Begin(t) ==
    /\ state[t] = "idle"
    /\ t \in Reset \/ Cardinality(Begun) < MaxBegun
    /\ state' = [state EXCEPT ![t] = "open"]
    /\ UNCHANGED <<wants, locked, read, amount>>

(* Mutant: the rows are locked in the order sender, recipient. *)
SenderFirst(t, a) ==
    /\ state[t] = "open" /\ wants[t] = {}
    /\ a \in Left(t)
    /\ t \in Transfer => a = From[t] \/ From[t] \notin Left(t)

(* The row that SELECT ... FOR UPDATE or the UPDATE comes to next: a transfer
   orders its rows by account_id. *)
ComesTo(t, a) ==
    /\ state[t] = "open" /\ wants[t] = {}
    /\ a \in Left(t)
    /\ t \in Transfer => \A b \in Left(t) : a <= b

(* Mutant: the rows are selected without FOR UPDATE. *)
FreeAnyway(a) == a \in Row

Free(a) == \A t \in Tx : a \notin locked[t]

(* The row is locked, and its committed amount read. *)
Take(t, a) ==
    /\ Free(a)
    /\ locked' = [locked EXCEPT ![t] = @ \cup {a}]
    /\ read' = IF t \in Transfer /\ a = From[t]
                 THEN [read EXCEPT ![t] = amount[a]] ELSE read
    /\ wants' = [wants EXCEPT ![t] = {}]
    /\ UNCHANGED <<state, amount>>

Lock(t, a) == ComesTo(t, a) /\ Take(t, a)

Wait(t, a) ==
    /\ ComesTo(t, a)
    /\ ~Free(a)
    /\ wants' = [wants EXCEPT ![t] = {a}]
    /\ UNCHANGED <<state, locked, read, amount>>

Grant(t, a) == a \in wants[t] /\ Take(t, a)

End(t, outcome) ==
    /\ state' = [state EXCEPT ![t] = outcome]
    /\ wants' = [wants EXCEPT ![t] = {}]
    /\ locked' = [locked EXCEPT ![t] = {}]
    /\ read' = [s \in Transfer |-> IF s = t THEN 0 ELSE read[s]]

Written(t) ==
    CASE t \in Deposit  -> [amount EXCEPT ![To[t]] = @ + Amount[t]]
      [] t \in Transfer -> [amount EXCEPT ![From[t]] = @ - Amount[t],
                                          ![To[t]] = @ + Amount[t]]
      [] OTHER          -> [a \in Row |-> 0]

Covered(t) == t \in Transfer => read[t] >= Amount[t]

Commit(t) ==
    /\ state[t] = "open" /\ Left(t) = {}
    /\ Covered(t)
    /\ amount' = Written(t)
    /\ End(t, "committed")

(* Mutant: the refusal returns and leaves the transaction open. *)
RefuseLeavesOpen(t) ==
    /\ state[t] = "open" /\ Left(t) = {}
    /\ ~Covered(t)
    /\ UNCHANGED lockVars

(* transferAndCreateOutboxEvent throws: not enough money. *)
Refuse(t) ==
    /\ state[t] = "open" /\ Left(t) = {}
    /\ ~Covered(t)
    /\ End(t, "aborted")
    /\ UNCHANGED amount

(* Any other error: a blocked balance, a call that is never begun, Prisma's timeout of
   interactive transactions, a crash, a deadlock resolved. *)
Abort(t) ==
    /\ state[t] = "open" \/ (t \in Reset /\ state[t] = "idle")
    /\ End(t, "aborted")
    /\ UNCHANGED amount

(* Every transaction of S waits for a row that one of S has locked. *)
Deadlocked(S) ==
    S # {} /\ \A t \in S : \E s \in S : wants[t] \cap locked[s] # {}

(* Postgres aborts a transaction of a cycle, after deadlock_timeout. *)
DeadlockDetected(t) ==
    /\ \E S \in SUBSET {s \in Tx : wants[s] # {}} : t \in S /\ Deadlocked(S)
    /\ Abort(t)

Advance(t) == \/ \E a \in Row : Lock(t, a) \/ Wait(t, a) \/ Grant(t, a)
              \/ Commit(t) \/ Refuse(t)

LocksNext == \E t \in Tx : Begin(t) \/ Advance(t) \/ Abort(t)

LocksSpec == LocksInit /\ [][LocksNext]_lockVars

-----------------------------------------------------------------------------
(* Properties.                                                             *)

(* No interleaving of transfers, deposits and resets takes a balance below
   zero: the amount compared is the one that is changed. *)
NeverOverdrawn == \A a \in Row : amount[a] >= 0

(* Transfers and deposits never deadlock among themselves, whatever rows
   they share (balance.repository.ts, line 151: both rows are locked in one
   order, so that there is no deadlock); a cycle of waits has a reset in it. *)
NoDeadlockWithoutReset ==
    \A S \in SUBSET {t \in Tx : wants[t] # {}} :
        Deadlocked(S) => S \cap Reset # {}

(* What a transaction read under its lock is still true. *)
LockFacts ==
    \A t \in Tx :
        /\ locked[t] \cup wants[t] \subseteq Needs(t)
        /\ locked[t] \cap wants[t] = {}
        /\ locked[t] \cup wants[t] # {} => state[t] = "open"
        /\ t \in Transfer /\ From[t] \in locked[t] => read[t] = amount[From[t]]
        /\ \A a \in wants[t] : wants[t] = {a}
        /\ t \in Transfer => \A b \in Left(t) : /\ \A a \in locked[t] : a < b
                                                /\ \A a \in wants[t] : a <= b
        /\ \A s \in Tx : s # t => locked[s] \cap locked[t] = {}

(* The strengthening that makes both inductive. *)
IInv == LocksOK /\ LockFacts /\ NeverOverdrawn
=============================================================================
