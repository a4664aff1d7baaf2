------------------------- MODULE BalanceReset_proofs -------------------------
(***************************************************************************)
(* Proofs about the transactions on balances and the reset job, for every  *)
(* set of transactions and of rows.                                        *)
(*                                                                         *)
(* IInv of BalanceLocks is inductive: locks exclude each other, so what a  *)
(* transfer read under its lock is still the balance when it commits.      *)
(* Locks taken in the order of rows leave no cycle of waits: of a set of   *)
(* transactions that wait for each other, the one that waits for the       *)
(* greatest row waits for a transaction that waits for a greater one.      *)
(* The reset job is then shown to be a client of BalanceLocks.             *)
(***************************************************************************)
EXTENDS BalanceReset, FiniteSetTheorems, WellFoundedInduction, TLAPS

-----------------------------------------------------------------------------
(* The transactions on their own.                                          *)

LEMMA LocksInitially == LocksInit => IInv
<1> SUFFICES ASSUME LocksInit PROVE IInv
  OBVIOUS
<1>1. LocksOK /\ NeverOverdrawn
  BY AmountsAssumption DEF LocksInit, LocksOK, NeverOverdrawn
<1>2. \A t \in Tx : locked[t] = {} /\ wants[t] = {}
  BY DEF LocksInit
<1>3. LockFacts
  BY <1>2 DEF LockFacts, Tx
<1> QED BY <1>1, <1>3 DEF IInv

LEMMA NeedsRows == \A t \in Tx : Needs(t) \subseteq Row
BY RowsAssumption DEF Needs, Row, Tx

LEMMA NeedsOfTransfer == \A t \in Transfer : Needs(t) = {From[t], To[t]}
BY KindsAssumption DEF Needs

LEMMA NeedsOfDeposit == \A t \in Deposit : Needs(t) = {To[t]}
BY KindsAssumption DEF Needs

(* A transaction that ends gives up its locks. *)
LEMMA EndKeepsFacts ==
    ASSUME IInv, NEW t \in Tx, NEW outcome \in {"committed", "aborted"}, End(t, outcome),
           amount' \in [Row -> Int], \A a \in Row : amount'[a] >= 0,
           \A a \in Row : amount'[a] # amount[a] => a \in locked[t]
    PROVE  IInv'
<1> USE NeedsRows DEF IInv, LocksOK, LockFacts, NeverOverdrawn, End
<1>1. LocksOK'
  OBVIOUS
<1>2. \A s \in Tx : s # t => /\ state'[s] = state[s] /\ wants'[s] = wants[s]
                             /\ locked'[s] = locked[s]
                             /\ s \in Transfer => read'[s] = read[s]
  OBVIOUS
<1>3. wants'[t] = {} /\ locked'[t] = {}
  OBVIOUS
<1>4. ASSUME NEW s \in Tx, s # t, s \in Transfer, From[s] \in locked[s]
      PROVE  read'[s] = amount'[From[s]]
  BY <1>2, <1>4, RowsAssumption
<1>5. LockFacts'
  <2> SUFFICES ASSUME NEW s \in Tx
               PROVE  LockFacts!(s)'
    BY DEF LockFacts
  <2> QED BY <1>2, <1>3, <1>4 DEF Left, Needs
<1> QED BY <1>1, <1>5

LEMMA CommitKeeps ==
    ASSUME IInv, NEW t \in Tx, Commit(t)
    PROVE  IInv'
<1> USE RowsAssumption, AmountsAssumption DEF IInv, LocksOK
<1>1. /\ amount' \in [Row -> Int] /\ \A a \in Row : amount'[a] >= 0
      /\ \A a \in Row : amount'[a] # amount[a] => a \in locked[t]
  <2>1. Needs(t) \subseteq locked[t] /\ amount' = Written(t) /\ Covered(t)
    BY DEF Commit, Left
  <2>2. CASE t \in Deposit
    <3>1. t \notin Transfer
      BY <2>2, KindsAssumption
    <3>2. /\ amount' = [amount EXCEPT ![To[t]] = @ + Amount[t]]
          /\ To[t] \in locked[t]
      BY <2>1, <2>2, <3>1, NeedsOfDeposit DEF Written
    <3> QED BY <2>2, <3>2 DEF NeverOverdrawn
  <2>3. CASE t \in Transfer
    <3>1. t \notin Deposit
      BY <2>3, KindsAssumption
    <3>2. /\ amount' = [amount EXCEPT ![From[t]] = @ - Amount[t],
                                      ![To[t]] = @ + Amount[t]]
          /\ From[t] \in locked[t] /\ To[t] \in locked[t]
      BY <2>1, <2>3, <3>1 DEF Written, Needs
    <3>3. amount[From[t]] >= Amount[t]
      BY <2>1, <2>3, <3>2 DEF Covered, LockFacts
    <3> QED BY <2>3, <3>2, <3>3 DEF NeverOverdrawn
  <2>4. CASE t \notin Deposit /\ t \notin Transfer
    BY <2>1, <2>4 DEF Written, Needs
  <2> QED BY <2>2, <2>3, <2>4
<1> QED BY <1>1, EndKeepsFacts DEF Commit

LEMMA TakeKeeps ==
    ASSUME IInv, NEW t \in Tx, NEW a \in Row, Take(t, a), a \in Needs(t),
           state[t] = "open", wants[t] \subseteq {a},
           t \in Transfer => \A b \in Needs(t) \ locked[t] : a <= b
    PROVE  IInv'
<1> USE NeedsRows DEF IInv, LocksOK
<1>1. LocksOK' /\ NeverOverdrawn'
  BY DEF Take, NeverOverdrawn
<1>2. /\ wants' = [wants EXCEPT ![t] = {}]
      /\ locked' = [locked EXCEPT ![t] = @ \cup {a}]
      /\ UNCHANGED <<state, amount>>
      /\ \A s \in Tx : a \notin locked[s]
      /\ \A s \in Transfer : read'[s] = IF s = t /\ a = From[s] THEN amount[a] ELSE read[s]
  BY DEF Take, Free
<1>3. \A s \in Tx : locked'[s] \cup wants'[s] \subseteq Needs(s)
  BY <1>2 DEF LockFacts
<1>4. \A s \in Tx : s # t => locked'[s] = locked[s] /\ wants'[s] = wants[s]
  BY <1>2
<1>5. locked'[t] = locked[t] \cup {a} /\ wants'[t] = {}
  BY <1>2
<1>6. \A s \in Tx : locked'[s] \cap wants'[s] = {}
  BY <1>4, <1>5 DEF LockFacts
<1>7. \A s \in Tx : locked'[s] \cup wants'[s] # {} => state'[s] = "open"
  BY <1>2, <1>4, <1>5 DEF LockFacts
<1>8. \A s \in Tx : s \in Transfer /\ From[s] \in locked'[s] => read'[s] = amount'[From[s]]
  <2> SUFFICES ASSUME NEW s \in Tx, s \in Transfer, From[s] \in locked'[s]
               PROVE  read'[s] = amount'[From[s]]
    OBVIOUS
  <2>1. CASE s = t /\ a = From[s]
    BY <1>2, <2>1
  <2>2. CASE ~(s = t /\ a = From[s])
    <3>1. From[s] \in locked[s]
      BY <1>4, <1>5, <2>2
    <3> QED BY <1>2, <2>2, <3>1 DEF LockFacts
  <2> QED BY <2>1, <2>2
<1>9. \A s \in Tx : s \in Transfer => \A y \in Left(s)', x \in locked'[s] : x < y
  <2> SUFFICES ASSUME NEW s \in Tx, s \in Transfer,
                      NEW x \in locked'[s], NEW y \in Needs(s) \ locked'[s]
               PROVE  x < y
    BY DEF Left, Needs
  <2>1. CASE s # t \/ x # a
    BY <1>4, <1>5, <2>1 DEF LockFacts, Left
  <2>2. CASE s = t /\ x = a
    <3>1. a <= y /\ a # y /\ y \in Row
      BY <1>5, <2>2
    <3> QED BY <2>2, <3>1 DEF Row
  <2> QED BY <2>1, <2>2
<1>10. \A s, r \in Tx : r # s => locked'[r] \cap locked'[s] = {}
  BY <1>2, <1>4, <1>5 DEF LockFacts
<1>11. \A s \in Tx : \A x \in wants'[s] :
          /\ wants'[s] = {x}
          /\ s \in Transfer => \A y \in Left(s)' : x <= y
  BY <1>4, <1>5 DEF LockFacts, Left, Needs
<1>12. LockFacts'
  BY <1>3, <1>6, <1>7, <1>8, <1>9, <1>10, <1>11 DEF LockFacts, Needs
<1> QED BY <1>1, <1>12

LEMMA WaitKeeps ==
    ASSUME IInv, NEW t \in Tx, NEW a \in Row, Wait(t, a)
    PROVE  IInv'
<1> USE RowsAssumption, NeedsRows DEF IInv, LocksOK, Wait, ComesTo, Left
<1>1. LocksOK' /\ NeverOverdrawn'
  BY DEF NeverOverdrawn
<1>2. \A s \in Tx : s # t => wants'[s] = wants[s]
  OBVIOUS
<1>3. wants'[t] = {a} /\ a \in Needs(t) /\ a \notin locked[t] /\ state[t] = "open"
  OBVIOUS
<1>4. LockFacts'
  BY <1>2, <1>3 DEF LockFacts, Needs
<1> QED BY <1>1, <1>4

LEMMA LocksStep == IInv /\ [LocksNext]_lockVars => IInv'
<1> SUFFICES ASSUME IInv, [LocksNext]_lockVars
             PROVE  IInv'
  OBVIOUS
<1>1. ASSUME NEW t \in Tx, Begin(t)
      PROVE  IInv'
  BY <1>1 DEF IInv, LocksOK, LockFacts, NeverOverdrawn, Begin, Left, Needs
<1>2. ASSUME NEW t \in Tx, NEW a \in Row, Lock(t, a)
      PROVE  IInv'
  BY <1>2, TakeKeeps DEF Lock, ComesTo, Left
<1>3. ASSUME NEW t \in Tx, NEW a \in Row, Wait(t, a)
      PROVE  IInv'
  BY <1>3, WaitKeeps
<1>4. ASSUME NEW t \in Tx, NEW a \in Row, Grant(t, a)
      PROVE  IInv'
  <2>1. /\ a \in Needs(t) /\ state[t] = "open" /\ wants[t] \subseteq {a}
        /\ t \in Transfer => \A b \in Needs(t) \ locked[t] : a <= b
    BY <1>4 DEF Grant, IInv, LockFacts, Left
  <2>2. Take(t, a)
    BY <1>4 DEF Grant
  <2> QED BY <2>1, <2>2, TakeKeeps
<1>5. ASSUME NEW t \in Tx, Commit(t)
      PROVE  IInv'
  BY <1>5, CommitKeeps
<1>6. ASSUME NEW t \in Tx, Refuse(t) \/ Abort(t)
      PROVE  IInv'
  <2>1. End(t, "aborted") /\ amount' = amount
    BY <1>6 DEF Refuse, Abort
  <2> QED BY <2>1, EndKeepsFacts DEF IInv, LocksOK, NeverOverdrawn
<1>7. CASE UNCHANGED lockVars
  BY <1>7 DEF lockVars, IInv, LocksOK, LockFacts, NeverOverdrawn, Left, Needs
<1> QED BY <1>1, <1>2, <1>3, <1>4, <1>5, <1>6, <1>7 DEF LocksNext, Advance

(* A set of transactions that wait for each other has a reset in it. *)

(* A set of transactions that wait for each other has a reset in it. *)
LEMMA OrderExcludesDeadlock == IInv => NoDeadlockWithoutReset
<1> SUFFICES ASSUME IInv,
                    NEW S \in SUBSET {t \in Tx : wants[t] # {}}, Deadlocked(S),
                    S \cap Reset = {}
             PROVE  FALSE
  BY DEF NoDeadlockWithoutReset
<1> USE DEF IInv, LocksOK
<1> DEFINE Below == {n \in Nat : \E t \in S : Accounts - n \in wants[t]}
<1>1. \A t \in S : \E a \in Row : wants[t] = {a}
  BY DEF LockFacts
<1>2. Below # {}
  <2>1. PICK t \in S : TRUE
    BY DEF Deadlocked
  <2>2. PICK a \in Row : a \in wants[t]
    BY <1>1
  <2>3. Accounts - a \in Nat /\ Accounts - (Accounts - a) = a
    BY RowsAssumption DEF Row
  <2> QED BY <2>2, <2>3
<1>3. PICK n \in Below : \A k \in Below : ~(<<k, n>> \in OpToRel(<, Nat))
  <2>1. Below \subseteq Nat
    OBVIOUS
  <2> QED BY <1>2, <2>1, NatLessThanWellFounded, WFMin
<1>4. \A k \in Below : ~(k < n)
  BY <1>3 DEF OpToRel
<1>5. PICK t \in S : Accounts - n \in wants[t]
  OBVIOUS
<1>6. PICK s \in S : wants[t] \cap locked[s] # {}
  BY DEF Deadlocked
<1>7. Accounts - n \in locked[s] /\ Accounts - n \in Row
  BY <1>1, <1>5, <1>6
<1>8. PICK b \in Row : b \in wants[s]
  BY <1>1
<1>9. s \in Transfer
  <2>1. s \notin Deposit
    <3>1. s \in Deposit => b = Accounts - n
      BY <1>7, <1>8, NeedsOfDeposit DEF LockFacts
    <3> QED BY <3>1, <1>7, <1>8 DEF LockFacts
  <2> QED BY <2>1 DEF Tx
<1>10. Accounts - n < b
  <2>1. b \in Left(s)
    BY <1>8 DEF LockFacts, Left
  <2> QED BY <1>7, <1>9, <2>1 DEF LockFacts
<1>11. Accounts - b \in Below /\ Accounts - b < n
  <2>1. Accounts - b \in Nat /\ Accounts - (Accounts - b) = b /\ Accounts - b < n
    BY <1>10, RowsAssumption DEF Row
  <2> QED BY <1>8, <2>1
<1> QED BY <1>4, <1>11

-----------------------------------------------------------------------------
(* In every execution of transfers, deposits and resets, no balance becomes
   negative. *)
THEOREM BalancesStayCovered == LocksSpec => []NeverOverdrawn
<1>1. IInv => NeverOverdrawn
  BY DEF IInv
<1> QED BY LocksInitially, LocksStep, <1>1, PTL DEF LocksSpec

(* In every execution of transfers, deposits and resets, a deadlock has a
   reset in it. *)
THEOREM OnlyResetsDeadlock == LocksSpec => []NoDeadlockWithoutReset
BY LocksInitially, LocksStep, OrderExcludesDeadlock, PTL DEF LocksSpec

-----------------------------------------------------------------------------
(* The reset job, on top of them.                                          *)

(* Every step of the composition is a step of the transactions or leaves them
   alone: what holds of BalanceLocks holds here. *)
LEMMA StepIsLocksStep == [Next]_vars => [LocksNext]_lockVars
<1> SUFFICES ASSUME [Next]_vars
             PROVE  [LocksNext]_lockVars
  OBVIOUS
<1>1. CASE \E t \in Tx : Database(t)
  BY <1>1 DEF Database, LocksNext
<1>2. CASE ~ \E t \in Tx : Database(t)
  BY <1>2 DEF Next, vars, Crash, Enqueue, Process, Resend, Promote, Answer, Complete,
              CallFails, TimesOut, Send
<1> QED BY <1>1, <1>2

THEOREM ResetUsesLocks == Spec => LocksSpec
<1>1. Init => LocksInit
  BY DEF Init
<1> QED BY <1>1, StepIsLocksStep, PTL DEF Spec, LocksSpec

(* While resets, deposits and transfers interleave with the reset job's calls
   and their retries, no balance becomes negative, and no deadlock is without
   a reset. *)
THEOREM BalancesCoveredUnderReset == Spec => []NeverOverdrawn
BY ResetUsesLocks, BalancesStayCovered, PTL

THEOREM OnlyResetsDeadlockUnderReset == Spec => []NoDeadlockWithoutReset
BY ResetUsesLocks, OnlyResetsDeadlock, PTL

-----------------------------------------------------------------------------
(* How a transaction's state changes. *)
LEMMA StateStep ==
    ASSUME LocksOK, NEW t \in Tx, Database(t)
    PROVE  /\ UNCHANGED jobVars
           /\ state' \in [Tx -> {"idle", "open", "committed", "aborted"}]
           /\ \A s \in Tx : s # t => state'[s] = state[s]
           /\ state[t] \in {"committed", "aborted"} => state'[t] = state[t]
           /\ state[t] = "idle" => Sent(t)
<1> USE DEF LocksOK, Database
<1>1. CASE Begin(t)
  BY <1>1 DEF Begin
<1>2. ASSUME NEW a \in Row, Lock(t, a) \/ Wait(t, a) \/ Grant(t, a)
      PROVE  state' = state
  BY <1>2 DEF Lock, Wait, Grant, Take
<1>3. CASE Commit(t) \/ Refuse(t) \/ Abort(t)
  BY <1>3 DEF Commit, Refuse, Abort, End
<1> QED BY <1>1, <1>2, <1>3 DEF Advance

LEMMA LooseFinite == ASSUME TypeOK, NEW j \in Job
                     PROVE  IsFiniteSet(Loose(j)) /\ Cardinality(Loose(j)) \in Nat
<1>1. IsFiniteSet(1 .. sent[j])
  BY FS_Interval DEF TypeOK
<1>2. IsFiniteSet(Loose(j))
  BY <1>1, FS_Subset DEF Loose
<1> QED BY <1>2, FS_CardinalityType

LEMMA OneMoreLoose ==
    ASSUME NEW A, NEW B, NEW x, IsFiniteSet(B), A \subseteq B \cup {x}
    PROVE  IsFiniteSet(A) /\ Cardinality(A) <= Cardinality(B) + 1
<1>1. /\ IsFiniteSet(B \cup {x})
      /\ Cardinality(B) \in Nat
      /\ Cardinality(B \cup {x}) <= Cardinality(B) + 1
  BY FS_AddElement, FS_CardinalityType
<1>2. IsFiniteSet(A) /\ Cardinality(A) <= Cardinality(B \cup {x})
  BY <1>1, FS_Subset
<1>3. Cardinality(A) \in Nat /\ Cardinality(B \cup {x}) \in Nat
  BY <1>1, <1>2, FS_CardinalityType
<1> QED BY <1>1, <1>2, <1>3

LEMMA FewerLoose ==
    ASSUME TypeOK, NEW j \in Job, Loose(j)' \subseteq Loose(j), Cardinality(Loose(j)) <= faults,
           faults' \in Nat, faults <= faults'
    PROVE  Cardinality(Loose(j)') <= faults'
<1>1. IsFiniteSet(Loose(j)) /\ Cardinality(Loose(j)) \in Nat
  BY LooseFinite
<1>2. /\ Cardinality(Loose(j)') <= Cardinality(Loose(j))
      /\ Cardinality(Loose(j)') \in Nat
  BY <1>1, FS_Subset, FS_CardinalityType
<1> QED BY <1>1, <1>2 DEF TypeOK

JInv == TypeOK /\ JobFacts

LEMMA JobInitially == Init => JInv
<1> SUFFICES ASSUME Init PROVE JInv
  OBVIOUS
<1>1. LocksOK
  BY LocksInitially DEF Init, IInv
<1>2. TypeOK
  BY <1>1, RetryAssumption, BoundAssumption DEF Init, TypeOK, MaxStalled
<1>3. \A j \in Job : Loose(j) = {}
  BY DEF Init, Loose
<1>4. \A j \in Job : Cardinality(Loose(j)) = 0
  BY <1>3, FS_EmptySet
<1>5. \A j \in Job, n \in Call : state[<<j, n>>] = "idle"
  BY CallsAssumption DEF Init, LocksInit, Tx
<1> QED BY <1>2, <1>4, <1>5, RetryAssumption DEF JInv, JobFacts, Init, Active, Ended

LEMMA JobTypes ==
    ASSUME JInv, [Next]_vars, LocksOK'
    PROVE  TypeOK'
<1> USE RetryAssumption, BoundAssumption DEF JInv, JobFacts, TypeOK, MaxStalled, Active, Ended
<1>1. ASSUME NEW j \in Job, Enqueue(j) \/ Promote(j) \/ Complete(j)
      PROVE  TypeOK'
  BY <1>1 DEF Enqueue, Promote, Complete, Go
<1>2. ASSUME NEW j \in Job, Process(j)
      PROVE  TypeOK'
  BY <1>2 DEF Process, Send, Go
<1>3. ASSUME NEW j \in Job, Resend(j)
      PROVE  TypeOK'
  BY <1>3 DEF Resend, Send, Go
<1>4. ASSUME NEW j \in Job, CallFails(j)
      PROVE  TypeOK'
  BY <1>4 DEF CallFails, AttemptFails, Go
<1>5. ASSUME NEW j \in Job, TimesOut(j)
      PROVE  TypeOK'
  BY <1>5 DEF TimesOut, Fault, AttemptFails, Go
<1>6. CASE Crash
  BY <1>6 DEF Crash, Fault
<1>7. ASSUME NEW t \in Tx, Database(t)
      PROVE  TypeOK'
  BY <1>7 DEF Database, jobVars
<1>8. CASE UNCHANGED vars
  BY <1>8 DEF vars, jobVars
<1> QED BY <1>1, <1>2, <1>3, <1>4, <1>5, <1>6, <1>7, <1>8 DEF Next, Answer

(* The worker's own steps: all but Crash are about one job. *)
LEMMA JobKeeps ==
    ASSUME JInv, NEW j \in Job, state' = state, faults' \in Nat, faults <= faults',
           \A k \in Job : k # j => /\ job'[k] = job[k] /\ sent'[k] = sent[k]
                                   /\ tries'[k] = tries[k] /\ made'[k] = made[k],
           JobFacts!(j)'
    PROVE  JobFacts'
<1> SUFFICES ASSUME NEW k \in Job, k # j
             PROVE  JobFacts!(k)'
  BY DEF JobFacts
<1>1. Loose(k)' = Loose(k)
  BY DEF Loose
<1>2. Cardinality(Loose(k)') <= faults'
  BY <1>1, FewerLoose DEF JInv, JobFacts
<1> QED BY <1>1, <1>2 DEF JInv, JobFacts, LastCall

LEMMA JobStep == JInv /\ [Next]_vars /\ LocksOK' => JInv'
<1> SUFFICES ASSUME JInv, [Next]_vars, LocksOK'
             PROVE  JobFacts'
  BY JobTypes DEF JInv
<1> USE RetryAssumption, BoundAssumption DEF JInv, TypeOK, Active, Ended
<1>1. ASSUME NEW j \in Job, Enqueue(j) \/ Promote(j) \/ Complete(j)
      PROVE  JobFacts'
  <2>1. /\ UNCHANGED <<state, made, tries, sent, faults>>
        /\ \A k \in Job : k # j => job'[k] = job[k]
    BY <1>1 DEF Enqueue, Promote, Complete, Go, lockVars
  <2>2. Loose(j)' \subseteq Loose(j)
    BY <1>1, <2>1 DEF Loose, Enqueue, Promote, Complete, Go
  <2>3. Cardinality(Loose(j)') <= faults'
    BY <2>1, <2>2, FewerLoose DEF JobFacts
  <2>4. JobFacts!(j)'
    BY <1>1, <2>1, <2>3 DEF JobFacts, LastCall, Enqueue, Promote, Complete, Go
  <2> QED BY <2>1, <2>4, JobKeeps
<1>2. ASSUME NEW j \in Job, NEW n, Send(j, n), job[j] \in {"waiting", "pausing"}
      PROVE  JobFacts'
  <2>1. /\ UNCHANGED <<state, made, faults>>
        /\ \A k \in Job : k # j => /\ job'[k] = job[k] /\ sent'[k] = sent[k]
                                   /\ tries'[k] = tries[k]
        /\ job'[j] = "calling" /\ sent'[j] = sent[j] + 1
    BY <1>2 DEF Send, Go, lockVars
  <2>2. Loose(j)' \subseteq Loose(j)
    BY <1>2, <2>1 DEF Loose
  <2>3. Cardinality(Loose(j)') <= faults'
    BY <2>1, <2>2, FewerLoose DEF JobFacts
  <2>4. JobFacts!(j)'
    BY <1>2, <2>1, <2>3 DEF JobFacts, Call
  <2> QED BY <2>1, <2>4, JobKeeps
<1>3. ASSUME NEW j \in Job, CallFails(j)
      PROVE  JobFacts'
  <2>1. /\ UNCHANGED <<state, tries, sent, faults>>
        /\ \A k \in Job : k # j => job'[k] = job[k] /\ made'[k] = made[k]
        /\ job[j] = "calling" /\ state[<<j, sent[j]>>] = "aborted"
    BY <1>3 DEF CallFails, AttemptFails, Go, lockVars, LastCall
  <2>2. Loose(j)' \subseteq Loose(j)
    BY <2>1 DEF Loose
  <2>3. Cardinality(Loose(j)') <= faults'
    BY <2>1, <2>2, FewerLoose DEF JobFacts
  <2>4. JobFacts!(j)'
    BY <1>3, <2>1, <2>3 DEF JobFacts, CallFails, AttemptFails, Go
  <2> QED BY <2>1, <2>4, JobKeeps
<1>4. ASSUME NEW j \in Job, TimesOut(j)
      PROVE  JobFacts'
  <2>1. /\ UNCHANGED <<state, tries, sent>> /\ faults' = faults + 1
        /\ \A k \in Job : k # j => job'[k] = job[k] /\ made'[k] = made[k]
        /\ job[j] = "calling"
    BY <1>4 DEF TimesOut, Fault, AttemptFails, Go, lockVars
  <2>2. Loose(j)' \subseteq Loose(j) \cup {sent[j]}
    BY <2>1 DEF Loose
  <2>3. Cardinality(Loose(j)') <= faults'
    <3>1. /\ IsFiniteSet(Loose(j)) /\ Cardinality(Loose(j)) \in Nat
          /\ Cardinality(Loose(j)) <= faults
      BY LooseFinite DEF JobFacts
    <3>2. /\ IsFiniteSet(Loose(j)')
          /\ Cardinality(Loose(j)') <= Cardinality(Loose(j)) + 1
      BY <2>2, <3>1, OneMoreLoose
    <3>3. Cardinality(Loose(j)') \in Nat
      BY <3>2, FS_CardinalityType
    <3> QED BY <2>1, <3>1, <3>2, <3>3
  <2>4. JobFacts!(j)'
    BY <1>4, <2>1, <2>3 DEF JobFacts, TimesOut, AttemptFails, Go
  <2> QED BY <2>1, <2>4, JobKeeps
<1>5. CASE Crash
  <2> SUFFICES ASSUME NEW j \in Job
               PROVE  JobFacts!(j)'
    BY DEF JobFacts
  <2>1. /\ UNCHANGED <<state, made, tries, sent>> /\ faults' = faults + 1
        /\ job[j] \notin {"calling", "pausing"} => job'[j] = job[j]
        /\ job[j] \in {"calling", "pausing"} => job'[j] \in {"waiting", "failed"}
    BY <1>5 DEF Crash, Fault, lockVars
  <2>2. Loose(j)' \subseteq Loose(j) \cup {sent[j]}
    <3> SUFFICES ASSUME NEW n \in Loose(j)', n # sent[j]
                 PROVE  n \in Loose(j)
      OBVIOUS
    <3> QED BY <2>1 DEF Loose
  <2>3. Cardinality(Loose(j)') <= faults'
    <3>1. /\ IsFiniteSet(Loose(j)) /\ Cardinality(Loose(j)) \in Nat
          /\ Cardinality(Loose(j)) <= faults
      BY LooseFinite DEF JobFacts
    <3>2. /\ IsFiniteSet(Loose(j)')
          /\ Cardinality(Loose(j)') <= Cardinality(Loose(j)) + 1
      BY <2>2, <3>1, OneMoreLoose
    <3>3. Cardinality(Loose(j)') \in Nat
      BY <3>2, FS_CardinalityType
    <3> QED BY <2>1, <3>1, <3>2, <3>3
  <2> QED BY <2>1, <2>3 DEF JobFacts, LastCall
<1>6. ASSUME NEW t \in Tx, Database(t)
      PROVE  JobFacts'
  <2> SUFFICES ASSUME NEW j \in Job
               PROVE  JobFacts!(j)'
    BY DEF JobFacts
  <2>1. /\ UNCHANGED jobVars
        /\ \A s \in Tx : s # t => state'[s] = state[s]
        /\ state[t] \in {"committed", "aborted"} => state'[t] = state[t]
        /\ state[t] = "idle" => Sent(t)
    BY <1>6, StateStep
  <2>2. \A n \in Call : <<j, n>> \in Tx /\ <<j, n>> \in Reset
    BY CallsAssumption DEF Tx
  <2>3. \A n \in Call : state[<<j, n>>] \in {"committed", "aborted"}
                          => state'[<<j, n>>] = state[<<j, n>>]
    BY <2>1, <2>2
  <2>4. Loose(j)' \subseteq Loose(j)
    <3> SUFFICES ASSUME NEW n \in Loose(j)'
                 PROVE  n \in Loose(j)
      OBVIOUS
    <3>1. n \in 1 .. sent[j] /\ n \in Call /\ job'[j] = job[j] /\ sent'[j] = sent[j]
      BY <2>1 DEF Loose, jobVars, Call
    <3>2. state[<<j, n>>] # "aborted"
      BY <2>3, <3>1 DEF Loose
    <3> QED BY <3>1, <3>2 DEF Loose
  <2>5. Cardinality(Loose(j)') <= faults'
    BY <2>1, <2>4, FewerLoose DEF JobFacts, jobVars
  <2>6. job[j] = "completed" => LastCall(j)' = "committed"
    BY <2>1, <2>3 DEF JobFacts, LastCall, jobVars, Call
  <2>7. ASSUME NEW n \in Call, n > sent[j]
        PROVE  state'[<<j, n>>] = "idle"
    <3>1. state[<<j, n>>] = "idle"
      BY <2>7 DEF JobFacts
    <3>2. t # <<j, n>>
      BY <2>1, <2>2, <2>7, <3>1 DEF Sent, Call
    <3> QED BY <2>1, <2>2, <3>1, <3>2
  <2> QED BY <2>1, <2>5, <2>6, <2>7 DEF JobFacts, jobVars
<1>7. CASE UNCHANGED vars
  BY <1>7 DEF vars, lockVars, jobVars, JobFacts, LastCall, Loose
<1> QED BY <1>1, <1>2, <1>3, <1>4, <1>5, <1>6, <1>7 DEF Next, Answer, Process, Resend

LEMMA JInvHolds == Spec => []JInv
<1>1. IInv => LocksOK
  BY DEF IInv
<1>2. LocksSpec => []LocksOK
  BY LocksInitially, LocksStep, <1>1, PTL DEF LocksSpec
<1> QED BY JobInitially, JobStep, <1>2, ResetUsesLocks, PTL DEF Spec

THEOREM TypeCorrect == Spec => []TypeOK
<1>1. JInv => TypeOK
  BY DEF JInv
<1> QED BY <1>1, JInvHolds, PTL

(* Without a fault no call outlives the wait for it, and a job that failed or
   waits has reset nothing. *)
THEOREM NoResetComesLate == Spec => []NoLateReset
<1>1. JInv => NoLateReset
  <2> SUFFICES ASSUME JInv, faults = 0, NEW j \in Job
               PROVE  NoLateReset!2!(j)
    BY DEF NoLateReset
  <2>1. Loose(j) = {}
    <3>1. IsFiniteSet(Loose(j)) /\ Cardinality(Loose(j)) \in Nat
      BY LooseFinite DEF JInv
    <3>2. Cardinality(Loose(j)) = 0
      BY <3>1 DEF JInv, JobFacts
    <3> QED BY <3>1, <3>2, FS_EmptySet
  <2>2. \A n \in 1 .. sent[j] : job[j] \notin {"calling", "completed"}
                               => state[<<j, n>>] = "aborted"
    BY <2>1 DEF Loose
  <2>3. \A n \in 1 .. sent[j] : job[j] = "completed"
                               => state[<<j, n>>] \in {"aborted", "committed"}
    BY <2>1 DEF Loose, JInv, JobFacts, LastCall
  <2>4. job[j] \notin {"calling", "completed"} => Resets(j) = {}
    BY <2>2 DEF Resets, JInv, JobFacts, TypeOK, Call
  <2> QED BY <2>2, <2>3, <2>4
<1> QED BY <1>1, JInvHolds, PTL

(* A job that completed has reset the balances, and one that reset them more
   than once met as many faults, whatever the number of attempts, retries and
   jobs. *)
THEOREM ResetsHaveReasons == Spec => []ResetsAreExplained
<1>1. JInv => ResetsAreExplained
  <2> SUFFICES ASSUME JInv, NEW j \in Job
               PROVE  ResetsAreExplained!(j)
    BY DEF ResetsAreExplained
  <2>1. job[j] = "completed" => Resets(j) # {}
    BY DEF JInv, JobFacts, LastCall, Resets, TypeOK, Call
  <2>2. Resets(j) \subseteq Loose(j) \cup {sent[j]}
    <3> SUFFICES ASSUME NEW n \in Resets(j), n # sent[j]
                 PROVE  n \in Loose(j)
      OBVIOUS
    <3>1. n \in Call /\ state[<<j, n>>] = "committed" /\ sent[j] \in 0 .. MaxCalls
      BY DEF Resets, JInv, TypeOK
    <3>2. ~(n > sent[j])
      BY <3>1 DEF JInv, JobFacts
    <3>3. n \in 1 .. sent[j]
      BY <3>1, <3>2, BoundAssumption DEF Call
    <3> QED BY <3>1, <3>3 DEF Loose
  <2>3. IsFiniteSet(Loose(j)) /\ Cardinality(Loose(j)) \in Nat
    BY LooseFinite DEF JInv
  <2>4. IsFiniteSet(Resets(j)) /\ Cardinality(Resets(j)) <= Cardinality(Loose(j)) + 1
    BY <2>2, <2>3, OneMoreLoose
  <2>5. Cardinality(Resets(j)) \in Nat
    BY <2>4, FS_CardinalityType
  <2>6. Cardinality(Resets(j)) <= 1 + faults
    BY <2>3, <2>4, <2>5 DEF JInv, JobFacts, TypeOK
  <2> QED BY <2>1, <2>6
<1> QED BY <1>1, JInvHolds, PTL
=============================================================================
