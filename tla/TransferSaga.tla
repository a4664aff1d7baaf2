---------------------------- MODULE TransferSaga ----------------------------
(***************************************************************************)
(* The transfer saga between transaction-service and user-service.         *)
(*                                                                         *)
(*   transferRub checks the sender's balance and commits two PENDING       *)
(*   transactions with a TRANSFER_INITED row in the outbox; user-service   *)
(*   moves the money and commits TRANFER_SUCCESS, or TRANFER_FAILED, in    *)
(*   its outbox (the topics are spelled so); transaction-service ends both *)
(*   transactions or commits a retry row, MaxRetry at most.                *)
(*                                                                         *)
(* It differs from DepositSaga where the code does.  Here the processed    *)
(* key is looked up BEFORE the balances are locked, so a handler is two    *)
(* steps, and a consumer that takes a partition over while the previous    *)
(* owner still handles its message interleaves with it.  The status of the *)
(* transactions is not checked before it is changed.  The outgoing and the *)
(* incoming transaction always change together: one status stands for both.*)
(***************************************************************************)
EXTENDS Integers, Sequences, FiniteSets

CONSTANTS Transfer,        \* transfers, one per idempotencyKey of transferRub
          Account,         \* accounts, each with one balance
          From, To, Amount,  \* of each transfer
          InitialBalance,  \* of each account
          Consumer,        \* instances of user-service's Kafka consumer
          MaxRetry,        \* MAX_RETRY of the environment
          FaultKinds,      \* the faults that may happen, of AnyFault
          MaxTxRows,       \* bound on the rows of transaction-service's outbox
          MaxUserRows,     \* bound on the rows of user-service's outbox
          MaxFaults        \* bound on the faults of a behaviour

AnyFault == {"republish",    \* an outbox row is published twice
             "redelivery",   \* an uncommitted offset is read again
             "rebalance",    \* two consumers handle one message
             "crash",        \* user-service dies after its commit
             "lostAnswer",   \* user-service commits but sees an error
             "dropReply"}    \* transaction-service swallows an error

ASSUME AccountAssumption ==
    /\ From \in [Transfer -> Account] /\ To \in [Transfer -> Account]
    /\ Amount \in [Transfer -> Nat]
    /\ InitialBalance \in [Account -> Nat]
    /\ \A t \in Transfer : From[t] # To[t]   \* checked by transferRub
ASSUME RetryAssumption == MaxRetry \in Nat
ASSUME BoundAssumption ==
    MaxTxRows \in Nat /\ MaxUserRows \in Nat /\ MaxFaults \in Nat

TxRow == 1 .. MaxTxRows
UserRow == 1 .. MaxUserRows

VARIABLES
    validated,      \* transfers whose sender's balance sufficed when checked
    status,         \* transactions.status, "NONE" before the rows exist
    retryCount,     \* transactions.retry_count
    txOutbox,       \* outbox rows of transaction-service: their transfer
    txMarked, txAwaiting, txSent,        \* its OutboxDelivery
    txProcessed,    \* keys in processed_events of transaction-service
    balance,        \* balances.amount
    handling,       \* the message each consumer is handling
    userProcessed,  \* keys in processed_events of user-service
    userOutbox,     \* outbox rows of user-service: topic and transfer
    userMarked, userAwaiting, userSent,  \* its OutboxDelivery
    notified,       \* transfers for which emit to the notification queue was called
    txRead,         \* copies of each tx row consumed by user-service
    userRead,       \* copies of each user row consumed by transaction-service
    faults          \* faults so far

txVars == <<validated, status, retryCount, txProcessed>>
userVars == <<balance, handling, userProcessed, notified>>
txOutboxVars == <<txMarked, txAwaiting, txSent>>
userOutboxVars == <<userMarked, userAwaiting, userSent>>
vars == <<txVars, txOutbox, txOutboxVars, userVars, userOutbox,
          userOutboxVars, txRead, userRead, faults>>

TxWorker == INSTANCE OutboxDelivery
    WITH MaxRows <- MaxTxRows, rows <- Len(txOutbox), processed <- txMarked,
         awaiting <- txAwaiting, sent <- txSent
UserWorker == INSTANCE OutboxDelivery
    WITH MaxRows <- MaxUserRows, rows <- Len(userOutbox),
         processed <- userMarked, awaiting <- userAwaiting, sent <- userSent

TransactionStatus == {"NONE", "PENDING", "BALANCE_UPDATED", "FAILED"}
Reply == [topic : {"TRANFER_SUCCESS", "TRANFER_FAILED"}, transfer : Transfer]
Idle == [row |-> 0, copy |-> 0, step |-> "idle"]
Handler == {Idle} \cup
    [row : TxRow, copy : Nat \ {0}, step : {"moving", "failing"}]

TypeOK ==
    /\ validated \subseteq Transfer
    /\ status \in [Transfer -> TransactionStatus]
    /\ retryCount \in [Transfer -> Nat]
    /\ txOutbox \in Seq(Transfer) /\ Len(txOutbox) <= MaxTxRows
    /\ txProcessed \subseteq UserRow \X Nat
    /\ balance \in [Account -> Nat]
    /\ handling \in [Consumer -> Handler]
    /\ userProcessed \subseteq TxRow \X Nat
    /\ userOutbox \in Seq(Reply) /\ Len(userOutbox) <= MaxUserRows
    /\ notified \subseteq Transfer
    /\ txRead \in [TxRow -> Nat]
    /\ userRead \in [UserRow -> Nat]
    /\ TxWorker!TypeOK
    /\ UserWorker!TypeOK

Init ==
    /\ validated = {}
    /\ status = [t \in Transfer |-> "NONE"]
    /\ retryCount = [t \in Transfer |-> 0]
    /\ txOutbox = <<>>
    /\ txProcessed = {}
    /\ balance = InitialBalance
    /\ handling = [c \in Consumer |-> Idle]
    /\ userProcessed = {}
    /\ userOutbox = <<>>
    /\ notified = {}
    /\ txRead = [i \in TxRow |-> 0]
    /\ userRead = [r \in UserRow |-> 0]
    /\ TxWorker!Init
    /\ UserWorker!Init

Fault(kind) ==
    /\ kind \in FaultKinds
    /\ faults < MaxFaults
    /\ faults' = faults + 1

-----------------------------------------------------------------------------
(* transferRub.                                                            *)

AppendTxRow(t) ==
    /\ Len(txOutbox) < MaxTxRows
    /\ txOutbox' = Append(txOutbox, t)

TxFrame == UNCHANGED <<txOutboxVars, userVars, userOutbox, userOutboxVars,
                       txRead>>

(* validationAccount answers the sender's balance: enough, for now. *)
ValidateBalance(t) ==
    /\ status[t] = "NONE"
    /\ balance[From[t]] >= Amount[t]
    /\ validated' = validated \cup {t}
    /\ TxFrame /\ UNCHANGED <<status, retryCount, txProcessed, txOutbox,
                              userRead, faults>>

(* createTransfer; a call that finds the transaction returns it unchanged. *)
CreateTransfer(t) ==
    /\ t \in validated
    /\ status[t] = "NONE"
    /\ status' = [status EXCEPT ![t] = "PENDING"]
    /\ AppendTxRow(t)
    /\ TxFrame /\ UNCHANGED <<validated, retryCount, txProcessed, userRead,
                              faults>>

-----------------------------------------------------------------------------
(* The two outbox workers.                                                 *)

TxWorkerFrame == UNCHANGED <<txVars, txOutbox, userVars, userOutbox,
                             userOutboxVars, txRead, userRead>>
UserWorkerFrame == UNCHANGED <<txVars, txOutbox, txOutboxVars, userVars,
                               userOutbox, txRead, userRead>>

TxPublish(i) == TxWorkerFrame /\ TxWorker!Publish(i)
TxMark == TxWorkerFrame /\ TxWorker!Mark
UserPublish(r) == UserWorkerFrame /\ UserWorker!Publish(r)
UserMark == UserWorkerFrame /\ UserWorker!Mark

TxWorkerFault ==
    TxWorker!Forget \/ \E i \in TxRow : TxWorker!PublishUnconfirmed(i)
UserWorkerFault ==
    UserWorker!Forget \/ \E r \in UserRow : UserWorker!PublishUnconfirmed(r)
WorkerFault ==
    /\ "republish" \in FaultKinds
    /\ \/ TxWorkerFrame /\ TxWorkerFault
       \/ UserWorkerFrame /\ UserWorkerFault

-----------------------------------------------------------------------------
(* user-service consumes TRANSFER_INITED: transferToAccount.               *)

AppendUserRow(topic, t) ==
    /\ Len(userOutbox) < MaxUserRows
    /\ userOutbox' = Append(userOutbox, [topic |-> topic, transfer |-> t])

UserFrame == UNCHANGED <<txVars, txOutbox, txOutboxVars, userOutboxVars,
                         userRead>>

NextTransfer(i) == <<i, txRead[i] + 1>>

(* The handler goes on to the locks, or, when all it had to do was to read that
   the key is processed, fails in that query. *)
Handle(c, i) ==
    handling' = [handling EXCEPT ![c] =
        [row |-> i, copy |-> txRead[i] + 1,
         step |-> IF NextTransfer(i) \in userProcessed THEN "failing" ELSE "moving"]]

(* Mutant: a processed key returns before the notification. *)
BeginTransferSilently(c, i) ==
    /\ handling[c] = Idle
    /\ txRead[i] < txSent[i]
    /\ \/ /\ NextTransfer(i) \in userProcessed
          /\ txRead' = [txRead EXCEPT ![i] = @ + 1]
          /\ UNCHANGED handling
       \/ Handle(c, i) /\ UNCHANGED txRead
    /\ UserFrame /\ UNCHANGED <<balance, userProcessed, userOutbox, notified>>

(* The first query of transferAndCreateOutboxEvent, before any lock: a key
   that is already processed commits nothing, and emit is called (again) for
   its notification.  A consumer handles one message at a time. *)
BeginTransfer(c, i) ==
    /\ handling[c] = Idle
    /\ txRead[i] < txSent[i]
    /\ \/ /\ NextTransfer(i) \in userProcessed
          /\ notified' = notified \cup {txOutbox[i]}
          /\ txRead' = [txRead EXCEPT ![i] = @ + 1]
          /\ UNCHANGED handling
       \/ Handle(c, i) /\ UNCHANGED <<notified, txRead>>
    /\ UserFrame /\ UNCHANGED <<balance, userProcessed, userOutbox>>

(* The messages of one row share a partition (key = event.id), and a
   partition has one consumer ... *)
ReceiveTransfer(c, i) ==
    /\ \A b \in Consumer : handling[b].row # i
    /\ BeginTransfer(c, i)
    /\ UNCHANGED faults

(* ... until a rebalance hands it to another one in the middle of a message. *)
TakeOverTransfer(c, i) ==
    /\ \E b \in Consumer : handling[b].row = i
    /\ BeginTransfer(c, i)
    /\ Fault("rebalance")

KeyOf(c) == <<handling[c].row, handling[c].copy>>
TransferOf(c) == txOutbox[handling[c].row]

Finish(c) == handling' = [handling EXCEPT ![c] = Idle]

(* The offset moves past the message, unless it was moved meanwhile. *)
AdvanceOffset(c) ==
    LET h == handling[c] IN
    txRead' = IF txRead[h.row] = h.copy - 1
                THEN [txRead EXCEPT ![h.row] = h.copy] ELSE txRead

MoveBalances(t) ==
    /\ balance[From[t]] >= Amount[t]
    /\ balance' = [balance EXCEPT ![From[t]] = @ - Amount[t],
                                  ![To[t]] = @ + Amount[t]]

(* Mutants: the failure is reported with the move; the key is not recorded
   with it. *)
CommitTransferWrongTopic(c) ==
    /\ handling[c].step = "moving"
    /\ KeyOf(c) \notin userProcessed
    /\ MoveBalances(TransferOf(c))
    /\ userProcessed' = userProcessed \cup {KeyOf(c)}
    /\ AppendUserRow("TRANFER_FAILED", TransferOf(c))
    /\ UserFrame
CommitTransferUnrecorded(c) ==
    /\ handling[c].step = "moving"
    /\ MoveBalances(TransferOf(c))
    /\ AppendUserRow("TRANFER_SUCCESS", TransferOf(c))
    /\ UserFrame /\ UNCHANGED userProcessed

(* The rest of transferAndCreateOutboxEvent, under the locks of both
   balances.  A key processed meanwhile violates the unique index. *)
CommitTransfer(c) ==
    /\ handling[c].step = "moving"
    /\ KeyOf(c) \notin userProcessed
    /\ MoveBalances(TransferOf(c))
    /\ userProcessed' = userProcessed \cup {KeyOf(c)}
    /\ AppendUserRow("TRANFER_SUCCESS", TransferOf(c))
    /\ UserFrame

TransferToAccount(c) ==
    /\ CommitTransfer(c)
    /\ notified' = notified \cup {TransferOf(c)}
    /\ AdvanceOffset(c)
    /\ Finish(c)
    /\ UNCHANGED faults

TransferThenCrash(c) ==
    /\ CommitTransfer(c)
    /\ Fault("crash")
    /\ Finish(c)
    /\ UNCHANGED <<notified, txRead>>

EnterCatch(c) == handling' = [handling EXCEPT ![c].step = "failing"]

TransferUnacknowledged(c) ==
    /\ CommitTransfer(c)
    /\ Fault("lostAnswer")
    /\ EnterCatch(c)
    /\ UNCHANGED <<notified, txRead>>

(* The transaction rolls back: too little money, a key processed meanwhile,
   or any error of the database. *)
TransferAborts(c) ==
    /\ handling[c].step = "moving"
    /\ EnterCatch(c)
    /\ UserFrame /\ UNCHANGED <<balance, userProcessed, userOutbox, notified,
                                txRead, faults>>

(* Mutants: the wrong topic; the error is swallowed. *)
CreateOutboxEventWrongTopic(c) ==
    /\ handling[c].step = "failing"
    /\ AppendUserRow("TRANFER_SUCCESS", TransferOf(c))
    /\ AdvanceOffset(c) /\ Finish(c)
    /\ UserFrame /\ UNCHANGED <<balance, userProcessed, notified, faults>>
CreateOutboxEventSwallowed(c) ==
    /\ handling[c].step = "failing"
    /\ AdvanceOffset(c) /\ Finish(c)
    /\ UserFrame /\ UNCHANGED <<balance, userProcessed, userOutbox, notified, faults>>

(* The catch block commits a TRANFER_FAILED row ... *)
CreateOutboxEvent(c) ==
    /\ handling[c].step = "failing"
    /\ AppendUserRow("TRANFER_FAILED", TransferOf(c))
    /\ AdvanceOffset(c)
    /\ Finish(c)
    /\ UserFrame /\ UNCHANGED <<balance, userProcessed, notified, faults>>

(* ... or cannot, and rethrows (or the process dies): the message is read
   again. *)
CreateOutboxEventFails(c) ==
    /\ handling[c].step = "failing"
    /\ Finish(c)
    /\ UserFrame /\ UNCHANGED <<balance, userProcessed, userOutbox, notified,
                                txRead, faults>>

RedeliverTransfer(i) ==
    /\ Fault("redelivery")
    /\ \E n \in 0 .. txRead[i] - 1 : txRead' = [txRead EXCEPT ![i] = n]
    /\ UserFrame /\ UNCHANGED <<userVars, userOutbox>>

-----------------------------------------------------------------------------
(* transaction-service consumes the replies.                               *)

NextReply(r) == <<r, userRead[r] + 1>>

ReplyReady(r, topic) ==
    /\ userRead[r] < userSent[r]
    /\ userOutbox[r].topic = topic

Consume(r) == userRead' = [userRead EXCEPT ![r] = @ + 1]

(* processingTransferSuccess: setStatusUpdatedByIdsAndCreateProcessedEvent
   sets both statuses whatever they were. *)
ProcessingTransferSuccess(r) ==
    /\ ReplyReady(r, "TRANFER_SUCCESS")
    /\ IF NextReply(r) \in txProcessed
         THEN UNCHANGED <<status, txProcessed>>
         ELSE /\ status' = [status EXCEPT
                                ![userOutbox[r].transfer] = "BALANCE_UPDATED"]
              /\ txProcessed' = txProcessed \cup {NextReply(r)}
    /\ Consume(r)
    /\ TxFrame /\ UNCHANGED <<validated, retryCount, txOutbox, faults>>

(* Mutants: one retry too many; FAILED although the transfer is retried. *)
RecreateTransferOnceMore(key, t) ==
    /\ retryCount' = [retryCount EXCEPT ![t] = @ + 1]
    /\ IF retryCount[t] < MaxRetry
         THEN /\ AppendTxRow(t)
              /\ txProcessed' = txProcessed \cup {key}
              /\ UNCHANGED status
         ELSE /\ status' = [status EXCEPT ![t] = "FAILED"]
              /\ UNCHANGED <<txOutbox, txProcessed>>
RecreateTransferAndFail(key, t) ==
    /\ retryCount' = [retryCount EXCEPT ![t] = @ + 1]
    /\ AppendTxRow(t)
    /\ txProcessed' = txProcessed \cup {key}
    /\ status' = [status EXCEPT ![t] = "FAILED"]

(* recreateTransferOutboxEvent: a retry row, or FAILED whatever the status
   was, and then without a processed event. *)
RecreateTransferOutboxEvent(key, t) ==
    /\ retryCount' = [retryCount EXCEPT ![t] = @ + 1]
    /\ IF retryCount[t] + 1 < MaxRetry
         THEN /\ AppendTxRow(t)
              /\ txProcessed' = txProcessed \cup {key}
              /\ UNCHANGED status
         ELSE /\ status' = [status EXCEPT ![t] = "FAILED"]
              /\ UNCHANGED <<txOutbox, txProcessed>>

(* processingTransferFailed. *)
ProcessingTransferFailed(r) ==
    /\ ReplyReady(r, "TRANFER_FAILED")
    /\ IF NextReply(r) \in txProcessed
         THEN UNCHANGED <<status, retryCount, txOutbox, txProcessed>>
         ELSE RecreateTransferOutboxEvent(NextReply(r), userOutbox[r].transfer)
    /\ Consume(r)
    /\ TxFrame /\ UNCHANGED <<validated, faults>>

(* A second consumer looked the key up before the first one committed it: its
   retry row would violate the unique index and is rolled back, but FAILED
   needs no processed event. *)
RecreateAfterStaleCheck(r) ==
    LET t == userOutbox[r].transfer IN
    /\ r <= Len(userOutbox)
    /\ userOutbox[r].topic = "TRANFER_FAILED"
    /\ \E key \in txProcessed : key[1] = r
    /\ retryCount[t] + 1 >= MaxRetry
    /\ Fault("rebalance")
    /\ retryCount' = [retryCount EXCEPT ![t] = @ + 1]
    /\ status' = [status EXCEPT ![t] = "FAILED"]
    /\ TxFrame /\ UNCHANGED <<validated, txProcessed, txOutbox, userRead>>

(* The transaction aborts, the handler logs and swallows the error, and the
   offset advances: the reply is lost. *)
DropReply(r) ==
    /\ userRead[r] < userSent[r]
    /\ Fault("dropReply")
    /\ Consume(r)
    /\ TxFrame /\ UNCHANGED <<txVars, txOutbox>>

RedeliverReply(r) ==
    /\ Fault("redelivery")
    /\ \E n \in 0 .. userRead[r] - 1 : userRead' = [userRead EXCEPT ![r] = n]
    /\ TxFrame /\ UNCHANGED <<txVars, txOutbox>>

-----------------------------------------------------------------------------
Gateway(t) == ValidateBalance(t) \/ CreateTransfer(t)

Worker ==
    \/ \E i \in TxRow : TxPublish(i)
    \/ TxMark
    \/ \E r \in UserRow : UserPublish(r)
    \/ UserMark
    \/ WorkerFault

UserConsumer(c) ==
    \/ \E i \in TxRow : ReceiveTransfer(c, i) \/ TakeOverTransfer(c, i)
    \/ TransferToAccount(c)
    \/ TransferThenCrash(c)
    \/ TransferUnacknowledged(c)
    \/ TransferAborts(c)
    \/ CreateOutboxEvent(c)
    \/ CreateOutboxEventFails(c)

TxConsumer(r) ==
    \/ ProcessingTransferSuccess(r)
    \/ ProcessingTransferFailed(r)
    \/ RecreateAfterStaleCheck(r)
    \/ DropReply(r)
    \/ RedeliverReply(r)

Next ==
    \/ \E t \in Transfer : Gateway(t)
    \/ Worker
    \/ \E c \in Consumer : UserConsumer(c)
    \/ \E i \in TxRow : RedeliverTransfer(i)
    \/ \E r \in UserRow : TxConsumer(r)

Spec == Init /\ [][Next]_vars

(***************************************************************************)
(* The workers keep running, Kafka delivers what was not consumed, a       *)
(* transaction of the database ends, and the catch block's insert succeeds *)
(* in the end: the message is read again until it does.                    *)
(***************************************************************************)
Fairness ==
    /\ \A i \in TxRow :
          /\ WF_vars(TxPublish(i))
          /\ WF_vars(\E c \in Consumer : ReceiveTransfer(c, i))
          /\ SF_vars(\E c \in Consumer : handling[c].row = i /\ CreateOutboxEvent(c))
    /\ \A c \in Consumer : /\ WF_vars(TransferToAccount(c) \/ TransferAborts(c))
                           /\ WF_vars(CreateOutboxEvent(c) \/ CreateOutboxEventFails(c))
    /\ WF_vars(TxMark) /\ WF_vars(UserMark)
    /\ \A r \in UserRow : /\ WF_vars(UserPublish(r))
                          /\ WF_vars(ProcessingTransferSuccess(r))
                          /\ WF_vars(ProcessingTransferFailed(r))

FairSpec == Spec /\ Fairness

-----------------------------------------------------------------------------
(* Properties.                                                             *)

(* The keys of user-service's processed_events that belong to a transfer:
   one for every time its money was moved. *)
KeysOf(t) == {key \in userProcessed : txOutbox[key[1]] = t}

(* The money those keys moved from (accounts = From) or to (accounts = To) an
   account, unit by unit. *)
Units(accounts, a) ==
    UNION {{key} \X (1 .. Amount[txOutbox[key[1]]]) :
              key \in {k \in userProcessed : accounts[txOutbox[k[1]]] = a}}

Moved(accounts, a) == Cardinality(Units(accounts, a))

(* No money appears or vanishes: every balance is what the processed keys say
   was moved from and to its account, whatever is repeated or interleaved. *)
BalancesExplained ==
    \A a \in Account :
        balance[a] + Moved(From, a) = InitialBalance[a] + Moved(To, a)

(* A client who reads BALANCE_UPDATED, or gets TRANSFER_COMPLETED, has had
   the money moved: both rest on the transaction that moved it. *)
ReportedOnlyIfMoved ==
    \A t \in Transfer :
        status[t] = "BALANCE_UPDATED" \/ t \in notified => KeysOf(t) # {}

(* Every step of the saga rests on the one before it: rows and replies exist
   only for created transfers, handlers hold messages of existing rows, and a
   success reply belongs to a transfer whose money was moved. *)
RowFacts == \A i \in 1 .. Len(txOutbox) : status[txOutbox[i]] # "NONE"

ReplyFacts ==
    \A r \in 1 .. Len(userOutbox) :
        /\ status[userOutbox[r].transfer] # "NONE"
        /\ userOutbox[r].topic = "TRANFER_SUCCESS"
              => KeysOf(userOutbox[r].transfer) # {}

HandlerFacts == \A c \in Consumer : handling[c].row <= Len(txOutbox)

KeyFacts == \A key \in userProcessed : key[1] <= Len(txOutbox)

SentRows ==
    /\ \A i \in TxRow : txSent[i] > 0 => i <= Len(txOutbox)
    /\ \A r \in UserRow : userSent[r] > 0 => r <= Len(userOutbox)

Chain == /\ RowFacts /\ ReplyFacts /\ HandlerFacts /\ KeyFacts /\ SentRows
         /\ ReportedOnlyIfMoved

(* The inductive invariant of the saga: types, balances that stay natural
   numbers included, and the chain. *)
IInv == TypeOK /\ Chain

(* Without faults a client never sees an outcome change, although neither
   handler looks at the status it overwrites. *)
OutcomeIsFinal ==
    [][faults' = 0 =>
          \A t \in Transfer : status[t] \in {"BALANCE_UPDATED", "FAILED"}
                                  => status'[t] = status[t]]_vars

(* One transfer moves its money once.  The comments of createTransfer and
   transferAndCreateOutboxEvent promise idempotency (transaction.repository.ts
   line 42, balance.repository.ts line 144). *)
MovedAtMostOnce == \A t \in Transfer : Cardinality(KeysOf(t)) <= 1

RowsOf(t) == {i \in 1 .. Len(txOutbox) : txOutbox[i] = t}

RepliesTo(t) == {r \in 1 .. Len(userOutbox) : userOutbox[r].transfer = t}

(* A transfer is moved once at most, and never when it is FAILED. *)
MovedOnce ==
    \A t \in Transfer : /\ Cardinality(KeysOf(t)) <= 1
                        /\ status[t] = "FAILED" => KeysOf(t) = {}

(* Whatever fails, a transfer is moved twice only if user-service answered more
   messages than transaction-service wrote rows (a row was published twice, or
   a message answered twice: after a crash or a redelivery, when the handler
   fails on a key it had processed), or a reply was published twice.  A retry of
   the saga, a redelivery or a crash does it no other way.  Without faults it is
   moved once. *)
MovesAreExplained ==
    /\ \A t \in Transfer :
          Cardinality(KeysOf(t)) > 1 =>
             \/ \E r \in RepliesTo(t) : userSent[r] > 1
             \/ Cardinality(RepliesTo(t)) > Cardinality(RowsOf(t))
    /\ faults = 0 => MovedOnce

(* MAX_RETRY bounds the attempts of a transfer over all its failed replies,
   the ones that arrive twice included. *)
RetryBudget ==
    \A t \in Transfer :
        Cardinality(RowsOf(t)) <= IF MaxRetry = 0 THEN 1 ELSE MaxRetry

(* What these rest on, by counting.  A success reply is committed with every
   key; every row but the first was paid for with a retry, and with the key of
   the copy of a failed reply that asked for it. *)
AnswersTo(t, topic) == {r \in RepliesTo(t) : userOutbox[r].topic = topic}

RetriesOf(t) == {key \in txProcessed : key[1] \in AnswersTo(t, "TRANFER_FAILED")}

CountFacts ==
    /\ IsFiniteSet(userProcessed) /\ IsFiniteSet(txProcessed)
    /\ \A key \in txProcessed :
          key[1] \in 1 .. Len(userOutbox) /\ key[2] \in 1 .. userSent[key[1]]
    /\ \A t \in Transfer :
          /\ Cardinality(KeysOf(t)) = Cardinality(AnswersTo(t, "TRANFER_SUCCESS"))
          /\ Cardinality(RowsOf(t)) <= 1 + Cardinality(RetriesOf(t))
          /\ Cardinality(RowsOf(t)) <= 1 + retryCount[t]

(* The saga without faults.  Every row is published once and has one handler at
   most, so a message is pending until it is consumed, and each transfer has at
   most one token, a pending row or a pending reply: the services take turns. *)
PendingRow(i) == i \in 1 .. Len(txOutbox) /\ txRead[i] = 0

PendingReply(r) == r \in 1 .. Len(userOutbox) /\ userRead[r] = 0

PublishedOnce ==
    /\ \A i \in TxRow :
          txSent[i] <= 1 /\ (txSent[i] = 1 => i \in txMarked \cup txAwaiting)
    /\ \A r \in UserRow :
          userSent[r] <= 1 /\ (userSent[r] = 1 => r \in userMarked \cup userAwaiting)

HandledOnce ==
    \A c \in Consumer : handling[c] # Idle =>
        /\ handling[c].copy = 1
        /\ PendingRow(handling[c].row)
        /\ \A b \in Consumer : handling[b].row = handling[c].row => b = c

RowHasTheTurn ==
    \A i \in TxRow : PendingRow(i) =>
        /\ status[txOutbox[i]] = "PENDING"
        /\ KeysOf(txOutbox[i]) = {}
        /\ \A j \in TxRow : PendingRow(j) /\ txOutbox[j] = txOutbox[i] => j = i
        /\ \A r \in UserRow :
              PendingReply(r) => userOutbox[r].transfer # txOutbox[i]

ReplyHasTheTurn ==
    \A r \in UserRow : PendingReply(r) =>
        LET t == userOutbox[r].transfer IN
        /\ status[t] = "PENDING"
        /\ userOutbox[r].topic = "TRANFER_FAILED" => KeysOf(t) = {}
        /\ \A q \in UserRow : PendingReply(q) /\ userOutbox[q].transfer = t => q = r

(* The inductive invariant of the saga, with the balances, the counts and the
   turns: it implies every invariant above but MovedAtMostOnce. *)
SagaInv ==
    /\ IInv
    /\ BalancesExplained
    /\ CountFacts /\ RetryBudget
    /\ faults = 0 => /\ PublishedOnce /\ HandledOnce
                     /\ RowHasTheTurn /\ ReplyHasTheTurn /\ MovedOnce

(* A created transfer is settled in the end. *)
TransferIsSettled ==
    \A t \in Transfer :
        status[t] = "PENDING" ~> status[t] \in {"BALANCE_UPDATED", "FAILED"}

(* The catch block is about to report a move that is committed as failed. *)
MoveReportedFailed(t) ==
    \E c \in Consumer : /\ handling[c].step = "failing" /\ TransferOf(c) = t
                        /\ KeyOf(c) \in userProcessed

(* A move whose process dies between the commit and the notifications is
   announced by the redelivered message.  Unless that enters the catch block:
   the move is then reported as failed, and its clients are told by a retry, or
   are never told, the retries being used up. *)
MoveIsNotified ==
    \A t \in Transfer :
        /\ [](~MoveReportedFailed(t)) => (KeysOf(t) # {} ~> t \in notified)
        /\ KeysOf(t) # {} ~> (t \in notified \/ retryCount[t] >= MaxRetry)
=============================================================================
