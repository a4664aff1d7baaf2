--------------------------- MODULE OutboxDelivery ---------------------------
(***************************************************************************)
(* What a transactional outbox promises to the services that share it: an  *)
(* outbox row, once committed, is published to Kafka until it is marked as *)
(* processed, and it is published again only after a fault.  This is the   *)
(* abstract specification; OutboxWorker is the code that implements it and *)
(* DepositSaga and TransferSaga are built on top of it.                    *)
(*                                                                         *)
(* Rows are numbered 1 .. rows in the order of their createdAt column.     *)
(* sent[i] counts the copies of row i that reached the broker; every copy  *)
(* carries a fresh idempotencyKey (uuidv7 in publishEvent), so <<i, n>> is *)
(* the key of the n-th copy.                                               *)
(***************************************************************************)
EXTENDS Naturals

CONSTANTS MaxRows,    \* bound on the outbox rows ever created
          MaxFaults   \* bound on the faults (crashes, lost answers, ...)

Row == 1 .. MaxRows

VARIABLES
    rows,        \* number of committed outbox rows
    processed,   \* rows whose processed column is true
    awaiting,    \* rows published by the current tick, not marked yet
    sent,        \* sent[i]: copies of row i in the broker
    faults       \* faults so far

vars == <<rows, processed, awaiting, sent, faults>>

TypeOK ==
    /\ rows \in 0 .. MaxRows
    /\ processed \subseteq 1 .. rows
    /\ awaiting \subseteq 1 .. rows
    /\ sent \in [Row -> Nat]
    /\ faults \in 0 .. MaxFaults

Init ==
    /\ rows = 0
    /\ processed = {}
    /\ awaiting = {}
    /\ sent = [i \in Row |-> 0]
    /\ faults = 0

Fault ==
    /\ faults < MaxFaults
    /\ faults' = faults + 1

(* A business transaction commits a new row; the process may die with the
   commit, or not learn of it. *)
Insert ==
    /\ rows < MaxRows
    /\ rows' = rows + 1
    /\ UNCHANGED faults \/ Fault
    /\ UNCHANGED <<processed, awaiting, sent>>

Publishable(i) == i \in (1 .. rows) \ (processed \cup awaiting)

(* A row is handed to the broker and its tick remembers to mark it. *)
Publish(i) ==
    /\ Publishable(i)
    /\ sent' = [sent EXCEPT ![i] = @ + 1]
    /\ awaiting' = awaiting \cup {i}
    /\ UNCHANGED <<rows, processed, faults>>

(* The tick marks every row it published. *)
Mark ==
    /\ awaiting # {}
    /\ processed' = processed \cup awaiting
    /\ awaiting' = {}
    /\ UNCHANGED <<rows, sent, faults>>

(* The broker stores the copy but the producer sees an error. *)
PublishUnconfirmed(i) ==
    /\ Publishable(i)
    /\ Fault
    /\ sent' = [sent EXCEPT ![i] = @ + 1]
    /\ UNCHANGED <<rows, processed, awaiting>>

(* The tick is lost, or fails to mark: its rows will be published again. *)
Forget ==
    /\ Fault
    /\ awaiting' \in {awaiting, {}}
    /\ UNCHANGED <<rows, processed, sent>>

Next ==
    \/ Insert
    \/ \E i \in Row : Publish(i) \/ PublishUnconfirmed(i)
    \/ Mark
    \/ Forget

Spec == Init /\ [][Next]_vars

(* Every row keeps being offered to the broker and every tick ends. *)
Fairness == (\A i \in Row : WF_vars(Publish(i))) /\ WF_vars(Mark)

FairSpec == Spec /\ Fairness
=============================================================================
