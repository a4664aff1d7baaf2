---------------------------- MODULE DepositSaga -----------------------------
(***************************************************************************)
(* The deposit saga between transaction-service and user-service.          *)
(*                                                                         *)
(*   depositRub creates a payment at Yookassa and a PENDING transaction;   *)
(*   the Yookassa webhook completes it (or times it out) and commits a     *)
(*   DEPOSIT_PAID_SUCCESS row in the outbox of transaction-service;        *)
(*   user-service consumes it, credits the balance and commits a           *)
(*   DEPOSIT_CREDITING_SUCCESS row in its own outbox, or, on any error, a  *)
(*   DEPOSIT_CREDITING_FAILED row; transaction-service consumes the reply  *)
(*   and ends the transaction or commits a retry row, MaxRetry at most.    *)
(*                                                                         *)
(* Both outboxes are instances of OutboxDelivery, which OutboxWorker       *)
(* implements.  Kafka delivers at least once: the messages of one row are  *)
(* its copies, in order (they share a partition, key = event.id), each     *)
(* with a fresh idempotencyKey <<row, copy>>; an offset that was not       *)
(* committed before a crash or a rebalance makes them arrive again.        *)
(* A database transaction is one step: it holds the row lock of the        *)
(* balance or transaction it changes until it commits or aborts.           *)
(***************************************************************************)
EXTENDS Naturals, Sequences, FiniteSets

CONSTANTS Deposit,       \* deposits, one per idempotencyKey of depositRub
          MaxRetry,      \* MAX_RETRY of the environment
          DropReplies,   \* may transaction-service lose a reply it consumed?
          MaxTxRows,     \* bound on the rows of transaction-service's outbox
          MaxUserRows,   \* bound on the rows of user-service's outbox
          MaxFaults      \* bound on the faults of a behaviour

ASSUME RetryAssumption == MaxRetry \in Nat
ASSUME DropAssumption == DropReplies \in BOOLEAN
ASSUME BoundAssumption ==
    MaxTxRows \in Nat /\ MaxUserRows \in Nat /\ MaxFaults \in Nat

TxRow == 1 .. MaxTxRows
UserRow == 1 .. MaxUserRows

VARIABLES
    payment,        \* state of the payment object at Yookassa
    status,         \* transactions.status, "NONE" before the row exists
    retryCount,     \* transactions.retry_count
    txOutbox,       \* outbox rows of transaction-service: their deposit
    txMarked, txAwaiting, txSent,        \* its OutboxDelivery
    txProcessed,    \* keys in processed_events of transaction-service
    credits,        \* how often the deposit was added to the balance
    failing,        \* depositToBalance calls in their catch block, by key
    userProcessed,  \* keys in processed_events of user-service
    userOutbox,     \* outbox rows of user-service: topic and deposit
    userMarked, userAwaiting, userSent,  \* its OutboxDelivery
    notified,       \* deposits for which emit to the notification queue was called
    txRead,         \* copies of each tx row consumed by user-service
    userRead,       \* copies of each user row consumed by transaction-service
    faults          \* faults so far

txVars == <<payment, status, retryCount, txProcessed>>
userVars == <<credits, failing, userProcessed, notified>>
txOutboxVars == <<txMarked, txAwaiting, txSent>>
userOutboxVars == <<userMarked, userAwaiting, userSent>>
vars == <<txVars, txOutbox, txOutboxVars, userVars, userOutbox,
          userOutboxVars, txRead, userRead, faults>>

(* A worker step of one service leaves everything but its outbox alone. *)
TxWorker == INSTANCE OutboxDelivery
    WITH MaxRows <- MaxTxRows, rows <- Len(txOutbox), processed <- txMarked,
         awaiting <- txAwaiting, sent <- txSent
UserWorker == INSTANCE OutboxDelivery
    WITH MaxRows <- MaxUserRows, rows <- Len(userOutbox),
         processed <- userMarked, awaiting <- userAwaiting, sent <- userSent

PaymentStatus == {"none", "pending", "succeeded", "canceled"}
TransactionStatus ==
    {"NONE", "PENDING", "COMPLETED", "TIMEOUT", "FAILED", "BALANCE_UPDATED"}
Reply == [topic : {"DEPOSIT_CREDITING_SUCCESS", "DEPOSIT_CREDITING_FAILED"},
          deposit : Deposit]

TypeOK ==
    /\ payment \in [Deposit -> PaymentStatus]
    /\ status \in [Deposit -> TransactionStatus]
    /\ retryCount \in [Deposit -> Nat]
    /\ txOutbox \in Seq(Deposit) /\ Len(txOutbox) <= MaxTxRows
    /\ txProcessed \subseteq UserRow \X Nat
    /\ credits \in [Deposit -> Nat]
    /\ failing \subseteq TxRow \X Nat
    /\ userProcessed \subseteq TxRow \X Nat
    /\ userOutbox \in Seq(Reply) /\ Len(userOutbox) <= MaxUserRows
    /\ notified \subseteq Deposit
    /\ txRead \in [TxRow -> Nat]
    /\ userRead \in [UserRow -> Nat]
    /\ TxWorker!TypeOK
    /\ UserWorker!TypeOK

Init ==
    /\ payment = [d \in Deposit |-> "none"]
    /\ status = [d \in Deposit |-> "NONE"]
    /\ retryCount = [d \in Deposit |-> 0]
    /\ txOutbox = <<>>
    /\ txProcessed = {}
    /\ credits = [d \in Deposit |-> 0]
    /\ failing = {}
    /\ userProcessed = {}
    /\ userOutbox = <<>>
    /\ notified = {}
    /\ txRead = [i \in TxRow |-> 0]
    /\ userRead = [r \in UserRow |-> 0]
    /\ TxWorker!Init
    /\ UserWorker!Init

Fault ==
    /\ faults < MaxFaults
    /\ faults' = faults + 1

-----------------------------------------------------------------------------
(* depositRub, its client and Yookassa.                                    *)

(* createPayment; repeating it with the same idempotencyKey changes nothing. *)
CreatePayment(d) ==
    /\ payment[d] = "none"
    /\ payment' = [payment EXCEPT ![d] = "pending"]
    /\ UNCHANGED <<status, retryCount, txProcessed, txOutbox, txOutboxVars,
                   userVars, userOutbox, userOutboxVars, txRead, userRead,
                   faults>>

(* txRepo.create, possibly in a later call than the one that created the
   payment; a call that finds the row returns it unchanged. *)
CreateTransaction(d) ==
    /\ payment[d] # "none"
    /\ status[d] = "NONE"
    /\ status' = [status EXCEPT ![d] = "PENDING"]
    /\ UNCHANGED <<payment, retryCount, txProcessed, txOutbox, txOutboxVars,
                   userVars, userOutbox, userOutboxVars, txRead, userRead,
                   faults>>

(* Yookassa: the client pays by the url depositRub returned, or the payment
   expires.  Both states are final there (capture: true). *)
ConcludePayment(d) ==
    /\ payment[d] = "pending"
    /\ \/ status[d] # "NONE" /\ payment' = [payment EXCEPT ![d] = "succeeded"]
       \/ payment' = [payment EXCEPT ![d] = "canceled"]
    /\ UNCHANGED <<status, retryCount, txProcessed, txOutbox, txOutboxVars,
                   userVars, userOutbox, userOutboxVars, txRead, userRead,
                   faults>>

-----------------------------------------------------------------------------
(* The webhook.  A call that meets another status throws and changes       *)
(* nothing; Yookassa repeats it until it is answered with success.         *)

AppendTxRow(d) ==
    /\ Len(txOutbox) < MaxTxRows
    /\ txOutbox' = Append(txOutbox, d)

(* Mutant: the payment is not looked up at Yookassa. *)
WebhookSucceededUnverified(d) ==
    /\ payment[d] # "none"
    /\ status[d] = "PENDING"
    /\ status' = [status EXCEPT ![d] = "COMPLETED"]
    /\ AppendTxRow(d)
    /\ UNCHANGED <<payment, retryCount, txProcessed, txOutboxVars, userVars,
                   userOutbox, userOutboxVars, txRead, userRead, faults>>

(* succeeded: setStatusCompletedAndCreateOutboxEvent. *)
WebhookSucceeded(d) ==
    /\ payment[d] = "succeeded"
    /\ status[d] = "PENDING"
    /\ status' = [status EXCEPT ![d] = "COMPLETED"]
    /\ AppendTxRow(d)
    /\ UNCHANGED <<payment, retryCount, txProcessed, txOutboxVars, userVars,
                   userOutbox, userOutboxVars, txRead, userRead, faults>>

(* canceled: setStatusTimeout. *)
WebhookCanceled(d) ==
    /\ payment[d] = "canceled"
    /\ status[d] = "PENDING"
    /\ status' = [status EXCEPT ![d] = "TIMEOUT"]
    /\ UNCHANGED <<payment, retryCount, txProcessed, txOutbox, txOutboxVars,
                   userVars, userOutbox, userOutboxVars, txRead, userRead,
                   faults>>

-----------------------------------------------------------------------------
(* The two outbox workers.                                                 *)

TxWorkerFault ==
    TxWorker!Forget \/ \E i \in TxRow : TxWorker!PublishUnconfirmed(i)
UserWorkerFault ==
    UserWorker!Forget \/ \E r \in UserRow : UserWorker!PublishUnconfirmed(r)

TxWorkerFrame == UNCHANGED <<txVars, txOutbox, userVars, userOutbox,
                             userOutboxVars, txRead, userRead>>
UserWorkerFrame == UNCHANGED <<txVars, txOutbox, txOutboxVars, userVars,
                               userOutbox, txRead, userRead>>

TxPublish(i) == TxWorkerFrame /\ TxWorker!Publish(i)
TxMark == TxWorkerFrame /\ TxWorker!Mark
UserPublish(r) == UserWorkerFrame /\ UserWorker!Publish(r)
UserMark == UserWorkerFrame /\ UserWorker!Mark
WorkerFault == \/ TxWorkerFrame /\ TxWorkerFault
               \/ UserWorkerFrame /\ UserWorkerFault

-----------------------------------------------------------------------------
(* user-service consumes DEPOSIT_PAID_SUCCESS: depositToBalance.           *)

(* The copy of row i that comes next, by its idempotencyKey. *)
NextDeposit(i) == <<i, txRead[i] + 1>>

DepositReady(i) == txRead[i] < txSent[i] /\ NextDeposit(i) \notin failing

AppendUserRow(topic, d) ==
    /\ Len(userOutbox) < MaxUserRows
    /\ userOutbox' = Append(userOutbox, [topic |-> topic, deposit |-> d])

(* Mutant: processed_events is not consulted. *)
DepositEveryDelivery(i) ==
    /\ credits' = [credits EXCEPT ![txOutbox[i]] = @ + 1]
    /\ userProcessed' = userProcessed \cup {NextDeposit(i)}
    /\ AppendUserRow("DEPOSIT_CREDITING_SUCCESS", txOutbox[i])

(* depositAndCreateOutboxEvent: the balance row is locked before the key is
   looked up, so two deliveries of one key cannot both miss it. *)
DepositAndCreateOutboxEvent(i) ==
    LET d == txOutbox[i] IN
    IF NextDeposit(i) \in userProcessed
      THEN UNCHANGED <<credits, userProcessed, userOutbox>>
      ELSE /\ credits' = [credits EXCEPT ![d] = @ + 1]
           /\ userProcessed' = userProcessed \cup {NextDeposit(i)}
           /\ AppendUserRow("DEPOSIT_CREDITING_SUCCESS", d)

UserFrame == UNCHANGED <<txVars, txOutbox, txOutboxVars, userOutboxVars,
                         userRead>>

(* Mutant: an already processed key returns before the notification. *)
DepositSilentlyRepeated(i) ==
    /\ DepositReady(i)
    /\ DepositAndCreateOutboxEvent(i)
    /\ notified' = IF NextDeposit(i) \in userProcessed
                      THEN notified ELSE notified \cup {txOutbox[i]}
    /\ txRead' = [txRead EXCEPT ![i] = @ + 1]
    /\ UserFrame /\ UNCHANGED <<failing, faults>>

(* The transaction commits, emit is called for the notification (also when the
   key was already processed), which nothing awaits, and the offset advances. *)
DepositToBalance(i) ==
    /\ DepositReady(i)
    /\ DepositAndCreateOutboxEvent(i)
    /\ notified' = notified \cup {txOutbox[i]}
    /\ txRead' = [txRead EXCEPT ![i] = @ + 1]
    /\ UserFrame /\ UNCHANGED <<failing, faults>>

(* The process dies after the commit and before the notification. *)
DepositThenCrash(i) ==
    /\ DepositReady(i)
    /\ DepositAndCreateOutboxEvent(i)
    /\ Fault
    /\ UserFrame /\ UNCHANGED <<failing, notified, txRead>>

(* The transaction aborts: the catch block is entered. *)
DepositAborts(i) ==
    /\ DepositReady(i)
    /\ failing' = failing \cup {NextDeposit(i)}
    /\ UserFrame /\ UNCHANGED <<credits, userProcessed, notified, userOutbox,
                                txRead, faults>>

(* The transaction commits but its answer is lost: the catch block again. *)
DepositUnacknowledged(i) ==
    /\ DepositReady(i)
    /\ DepositAndCreateOutboxEvent(i)
    /\ Fault
    /\ failing' = failing \cup {NextDeposit(i)}
    /\ UserFrame /\ UNCHANGED <<notified, txRead>>

(* Mutant: the error is rethrown although the row is written. *)
CreateOutboxEventRethrows(i) ==
    /\ NextDeposit(i) \in failing
    /\ failing' = failing \ {NextDeposit(i)}
    /\ AppendUserRow("DEPOSIT_CREDITING_FAILED", txOutbox[i])
    /\ UserFrame /\ UNCHANGED <<credits, userProcessed, notified, txRead, faults>>

(* The catch block commits a DEPOSIT_CREDITING_FAILED row. *)
CreateOutboxEvent(i) ==
    /\ NextDeposit(i) \in failing
    /\ failing' = failing \ {NextDeposit(i)}
    /\ AppendUserRow("DEPOSIT_CREDITING_FAILED", txOutbox[i])
    /\ txRead' = [txRead EXCEPT ![i] = @ + 1]
    /\ UserFrame /\ UNCHANGED <<credits, userProcessed, notified, faults>>

(* Mutant: the error of the catch block is swallowed. *)
CreateOutboxEventSwallowed(i) ==
    /\ NextDeposit(i) \in failing
    /\ failing' = failing \ {NextDeposit(i)}
    /\ txRead' = [txRead EXCEPT ![i] = @ + 1]
    /\ UserFrame /\ UNCHANGED <<credits, userProcessed, notified, userOutbox, faults>>

(* It cannot, and rethrows (or the process dies): the message comes again. *)
CreateOutboxEventFails(i) ==
    /\ NextDeposit(i) \in failing
    /\ failing' = failing \ {NextDeposit(i)}
    /\ UserFrame /\ UNCHANGED <<credits, userProcessed, notified, userOutbox,
                                txRead, faults>>

-----------------------------------------------------------------------------
(* transaction-service consumes the replies.                               *)

NextReply(r) == <<r, userRead[r] + 1>>

ReplyReady(r, topic) ==
    /\ userRead[r] < userSent[r]
    /\ userOutbox[r].topic = topic

TxFrame == UNCHANGED <<payment, txOutboxVars, userVars, userOutbox,
                       userOutboxVars, txRead, faults>>

(* Mutant: the status is overwritten unchecked. *)
ProcessingCreditingSuccessUnchecked(r) ==
    /\ ReplyReady(r, "DEPOSIT_CREDITING_SUCCESS")
    /\ status' = [status EXCEPT ![userOutbox[r].deposit] = "BALANCE_UPDATED"]
    /\ txProcessed' = txProcessed \cup {NextReply(r)}
    /\ userRead' = [userRead EXCEPT ![r] = @ + 1]
    /\ TxFrame /\ UNCHANGED <<retryCount, txOutbox>>

(* processingCreditingSuccess: setStatusUpdatedAndCreateProcessedEvent.  The
   error it throws for a status other than COMPLETED is swallowed. *)
ProcessingCreditingSuccess(r) ==
    LET d == userOutbox[r].deposit IN
    /\ ReplyReady(r, "DEPOSIT_CREDITING_SUCCESS")
    /\ IF NextReply(r) \notin txProcessed /\ status[d] = "COMPLETED"
         THEN /\ status' = [status EXCEPT ![d] = "BALANCE_UPDATED"]
              /\ txProcessed' = txProcessed \cup {NextReply(r)}
         ELSE UNCHANGED <<status, txProcessed>>
    /\ userRead' = [userRead EXCEPT ![r] = @ + 1]
    /\ TxFrame /\ UNCHANGED <<retryCount, txOutbox>>

(* Mutant: one retry too many. *)
RecreateOnceMore(key, d) ==
    /\ retryCount' = [retryCount EXCEPT ![d] = @ + 1]
    /\ IF retryCount[d] < MaxRetry
         THEN /\ AppendTxRow(d)
              /\ txProcessed' = txProcessed \cup {key}
              /\ UNCHANGED status
         ELSE /\ status' = [status EXCEPT ![d] = "FAILED"]
              /\ UNCHANGED <<txOutbox, txProcessed>>

(* recreateOutboxEvent: a retry row, or FAILED whatever the status was, and
   then without a processed event. *)
RecreateOutboxEvent(key, d) ==
    /\ retryCount' = [retryCount EXCEPT ![d] = @ + 1]
    /\ IF retryCount[d] + 1 < MaxRetry
         THEN /\ AppendTxRow(d)
              /\ txProcessed' = txProcessed \cup {key}
              /\ UNCHANGED status
         ELSE /\ status' = [status EXCEPT ![d] = "FAILED"]
              /\ UNCHANGED <<txOutbox, txProcessed>>

(* processingCreditingFailed. *)
ProcessingCreditingFailed(r) ==
    /\ ReplyReady(r, "DEPOSIT_CREDITING_FAILED")
    /\ IF NextReply(r) \in txProcessed
         THEN UNCHANGED <<status, retryCount, txOutbox, txProcessed>>
         ELSE RecreateOutboxEvent(NextReply(r), userOutbox[r].deposit)
    /\ userRead' = [userRead EXCEPT ![r] = @ + 1]
    /\ TxFrame

(* A second consumer (after a rebalance) looked the key up before the first
   one committed it: its retry row would violate the unique index and is
   rolled back, but FAILED needs no processed event. *)
RecreateAfterStaleCheck(r) ==
    LET d == userOutbox[r].deposit IN
    /\ r <= Len(userOutbox)
    /\ userOutbox[r].topic = "DEPOSIT_CREDITING_FAILED"
    /\ \E key \in txProcessed : key[1] = r
    /\ retryCount[d] + 1 >= MaxRetry
    /\ Fault
    /\ retryCount' = [retryCount EXCEPT ![d] = @ + 1]
    /\ status' = [status EXCEPT ![d] = "FAILED"]
    /\ UNCHANGED <<payment, txProcessed, txOutbox, txOutboxVars, userVars,
                   userOutbox, userOutboxVars, txRead, userRead>>

(* The transaction aborts, the handler logs and swallows the error, and the
   offset advances: the reply is lost. *)
DropReply(r) ==
    /\ DropReplies
    /\ userRead[r] < userSent[r]
    /\ Fault
    /\ userRead' = [userRead EXCEPT ![r] = @ + 1]
    /\ UNCHANGED <<txVars, txOutbox, txOutboxVars, userVars, userOutbox,
                   userOutboxVars, txRead>>

-----------------------------------------------------------------------------
(* A consumer restarts, or loses its partition, before it committed the    *)
(* offset: the copies it consumed since arrive again.                      *)

RedeliverDeposit(i) ==
    /\ Fault
    /\ \E n \in 0 .. txRead[i] - 1 : txRead' = [txRead EXCEPT ![i] = n]
    /\ failing' = {key \in failing : key[1] # i}
    /\ UserFrame /\ UNCHANGED <<credits, userProcessed, notified, userOutbox>>

RedeliverReply(r) ==
    /\ Fault
    /\ \E n \in 0 .. userRead[r] - 1 : userRead' = [userRead EXCEPT ![r] = n]
    /\ UNCHANGED <<txVars, txOutbox, txOutboxVars, userVars, userOutbox,
                   userOutboxVars, txRead>>

-----------------------------------------------------------------------------
Gateway(d) ==
    CreatePayment(d) \/ CreateTransaction(d) \/ ConcludePayment(d)

Webhook(d) == WebhookSucceeded(d) \/ WebhookCanceled(d)

Worker ==
    \/ \E i \in TxRow : TxPublish(i)
    \/ TxMark
    \/ \E r \in UserRow : UserPublish(r)
    \/ UserMark
    \/ WorkerFault

UserConsumer(i) ==
    \/ DepositToBalance(i)
    \/ DepositThenCrash(i)
    \/ DepositAborts(i)
    \/ DepositUnacknowledged(i)
    \/ CreateOutboxEvent(i)
    \/ CreateOutboxEventFails(i)
    \/ RedeliverDeposit(i)

TxConsumer(r) ==
    \/ ProcessingCreditingSuccess(r)
    \/ ProcessingCreditingFailed(r)
    \/ RecreateAfterStaleCheck(r)
    \/ DropReply(r)
    \/ RedeliverReply(r)

Next ==
    \/ \E d \in Deposit : Gateway(d) \/ Webhook(d)
    \/ Worker
    \/ \E i \in TxRow : UserConsumer(i)
    \/ \E r \in UserRow : TxConsumer(r)

Spec == Init /\ [][Next]_vars

(***************************************************************************)
(* Yookassa repeats a webhook until it succeeds; the workers keep running  *)
(* (OutboxWorker's FairSpec); Kafka delivers what was not consumed.  A     *)
(* crediting may abort every time, but the catch block's insert succeeds   *)
(* in the end: the message is redelivered until it does.                   *)
(***************************************************************************)
Fairness ==
    /\ \A d \in Deposit : WF_vars(Webhook(d))
    /\ \A i \in TxRow : /\ WF_vars(TxPublish(i))
                        /\ WF_vars(DepositToBalance(i) \/ DepositAborts(i))
                        /\ SF_vars(CreateOutboxEvent(i))
    /\ WF_vars(TxMark) /\ WF_vars(UserMark)
    /\ \A r \in UserRow : /\ WF_vars(UserPublish(r))
                          /\ WF_vars(ProcessingCreditingSuccess(r))
                          /\ WF_vars(ProcessingCreditingFailed(r))

FairSpec == Spec /\ Fairness

-----------------------------------------------------------------------------
(* Properties.                                                             *)

Confirmed == {"COMPLETED", "BALANCE_UPDATED", "FAILED"}

(* No money appears: a balance is credited only for a payment Yookassa
   confirmed, whatever is retried, repeated or delivered late. *)
CreditedOnlyIfPaid ==
    \A d \in Deposit : credits[d] > 0 => payment[d] = "succeeded"

(* A client who reads BALANCE_UPDATED has the money: transaction-service
   learns it only from a reply user-service committed with the credit. *)
BalanceUpdatedOnlyIfCredited ==
    \A d \in Deposit : status[d] = "BALANCE_UPDATED" => credits[d] > 0

KeysOf(d) == {key \in userProcessed : txOutbox[key[1]] = d}

(* Deduplication by processed_events: a deposit is credited exactly once for
   every idempotencyKey seen, however often a message is redelivered. *)
CreditedOncePerKey ==
    \A d \in Deposit : credits[d] = Cardinality(KeysOf(d))

(* What the count of keys rests on: they are finitely many, each of a row. *)
KeyFacts ==
    /\ IsFiniteSet(userProcessed)
    /\ \A key \in userProcessed : key[1] \in 1 .. Len(txOutbox)

(* As long as nothing crashes and no answer is lost, aborted creditings and
   their retries never credit twice, and FAILED means not credited. *)
ExactlyOnce ==
    \A d \in Deposit :
        /\ credits[d] <= 1
        /\ status[d] = "FAILED" => credits[d] = 0

ExactlyOnceWithoutFaults == faults = 0 => ExactlyOnce

(* How money flows through the saga: a deposit that left PENDING for good is
   paid; only such deposits have rows, messages, replies and credits. *)
DepositFacts ==
    \A d \in Deposit :
        /\ status[d] \in Confirmed => payment[d] = "succeeded"
        /\ credits[d] > 0 => status[d] \in Confirmed
        /\ status[d] = "BALANCE_UPDATED" => credits[d] > 0

RowFacts == \A i \in 1 .. Len(txOutbox) : status[txOutbox[i]] \in Confirmed

ReplyFacts ==
    \A r \in 1 .. Len(userOutbox) :
        /\ status[userOutbox[r].deposit] \in Confirmed
        /\ userOutbox[r].topic = "DEPOSIT_CREDITING_SUCCESS"
              => credits[userOutbox[r].deposit] > 0

SentRows ==
    /\ \A i \in TxRow : txSent[i] > 0 => i <= Len(txOutbox)
    /\ \A r \in UserRow : userSent[r] > 0 => r <= Len(userOutbox)

FailingFacts == \A key \in failing : key[1] <= Len(txOutbox)

(* The strengthening that makes the two invariants above inductive: every
   link of the chain payment, status, row, credit, reply rests on the one
   before it. *)
Chain == DepositFacts /\ RowFacts /\ ReplyFacts /\ SentRows /\ FailingFacts

(* The inductive invariant of the saga: no unpaid deposit is credited, and none
   is reported without its credit, because every step rests on the one before.
   It implies CreditedOnlyIfPaid and BalanceUpdatedOnlyIfCredited. *)
IInv == TypeOK /\ Chain

RowsOf(d) == {i \in 1 .. Len(txOutbox) : txOutbox[i] = d}

(* MAX_RETRY bounds the attempts of a deposit over all its failed replies,
   the ones that arrive twice included. *)
RetryBudget ==
    \A d \in Deposit :
        Cardinality(RowsOf(d)) <= IF MaxRetry = 0 THEN 1 ELSE MaxRetry

(* Why: every row but the first was paid for with a retry. *)
AttemptFacts ==
    \A d \in Deposit : Cardinality(RowsOf(d)) <= retryCount[d] + 1

(* The saga without faults.  Every row is published once, so a message is
   pending until it is consumed, and each deposit has at most one token, a
   pending row or a pending reply: the two services take turns. *)
PendingRow(i) == i \in 1 .. Len(txOutbox) /\ txRead[i] = 0

PendingReply(r) == r \in 1 .. Len(userOutbox) /\ userRead[r] = 0

PublishedOnce ==
    /\ \A i \in TxRow :
          txSent[i] <= 1 /\ (txSent[i] = 1 => i \in txMarked \cup txAwaiting)
    /\ \A r \in UserRow :
          userSent[r] <= 1 /\ (userSent[r] = 1 => r \in userMarked \cup userAwaiting)
    /\ \A key \in failing : key[2] = 1

RowHasTheTurn ==
    \A i \in TxRow : PendingRow(i) =>
        /\ status[txOutbox[i]] = "COMPLETED"
        /\ credits[txOutbox[i]] = 0
        /\ \A j \in TxRow : PendingRow(j) /\ txOutbox[j] = txOutbox[i] => j = i
        /\ \A r \in UserRow :
              PendingReply(r) => userOutbox[r].deposit # txOutbox[i]

ReplyHasTheTurn ==
    \A r \in UserRow : PendingReply(r) =>
        LET d == userOutbox[r].deposit IN
        /\ status[d] = "COMPLETED"
        /\ userOutbox[r].topic = "DEPOSIT_CREDITING_FAILED" => credits[d] = 0
        /\ \A q \in UserRow : PendingReply(q) /\ userOutbox[q].deposit = d => q = r

(* The inductive invariant of the saga, with the counts and the turns: it
   implies every invariant above. *)
SagaInv ==
    /\ IInv
    /\ KeyFacts /\ CreditedOncePerKey
    /\ AttemptFacts /\ RetryBudget
    /\ faults = 0 => PublishedOnce /\ RowHasTheTurn /\ ReplyHasTheTurn
    /\ ExactlyOnceWithoutFaults

(* The transitions of transactions.status.  recreateOutboxEvent writes FAILED
   without looking at the status: it must still never reach a transaction
   that is not paid, and no transition leaves TIMEOUT or FAILED. *)
StatusFlow ==
    [][\A d \in Deposit : status'[d] # status[d] =>
          <<status[d], status'[d]>> \in
              {<<"NONE", "PENDING">>, <<"PENDING", "COMPLETED">>,
               <<"PENDING", "TIMEOUT">>, <<"COMPLETED", "BALANCE_UPDATED">>,
               <<"COMPLETED", "FAILED">>, <<"BALANCE_UPDATED", "FAILED">>}]_vars

(* A paid deposit is settled in the end: credited and BALANCE_UPDATED, or
   FAILED after its retries. *)
PaidIsSettled ==
    \A d \in Deposit :
        payment[d] = "succeeded" ~> status[d] \in {"BALANCE_UPDATED", "FAILED"}

(* The catch block is about to report a credit that is committed as failed:
   the answer of its commit was lost, or the redelivery of its key aborted. *)
CreditReportedFailed(d) ==
    \E m \in failing \cap userProcessed : txOutbox[m[1]] = d

(* A credit whose process dies between the commit and the notification is
   announced by the redelivered message, which finds its key processed.  Unless
   that, or an earlier delivery, enters the catch block: the credit is then
   reported as failed, and its client is told by a retry, or is never told and
   the deposit ends FAILED. *)
CreditIsNotified ==
    \A d \in Deposit :
        /\ [](~CreditReportedFailed(d)) => (credits[d] > 0 ~> d \in notified)
        /\ credits[d] > 0 ~> (d \in notified \/ status[d] = "FAILED")

(* What the feature list promises (README.md, line 76): operations are
   idempotent, so one deposit is credited at most once. *)
Idempotent == \A d \in Deposit : credits[d] <= 1
=============================================================================
