------------------------- MODULE DepositSaga_proofs -------------------------
(* Proofs about DepositSaga.  IInv = TypeOK /\ Chain is the inductive
   invariant: money reaches a balance only along the chain payment, webhook,
   outbox row, message, credit, reply. *)
EXTENDS DepositSaga, FiniteSetTheorems, TLAPS

(* A new row of transaction-service's outbox leaves the others alone. *)
LEMMA TxRowAppended ==
    ASSUME txOutbox \in Seq(Deposit), NEW d \in Deposit, AppendTxRow(d)
    PROVE  /\ txOutbox' \in Seq(Deposit)
           /\ Len(txOutbox') = Len(txOutbox) + 1
           /\ Len(txOutbox') <= MaxTxRows
           /\ \A i \in 1 .. Len(txOutbox) : txOutbox'[i] = txOutbox[i]
           /\ txOutbox'[Len(txOutbox) + 1] = d
BY BoundAssumption DEF AppendTxRow

(* The same for a row of user-service's outbox. *)
LEMMA UserRowAppended ==
    ASSUME userOutbox \in Seq(Reply), NEW d \in Deposit,
           NEW topic \in {"DEPOSIT_CREDITING_SUCCESS", "DEPOSIT_CREDITING_FAILED"},
           AppendUserRow(topic, d)
    PROVE  /\ userOutbox' \in Seq(Reply)
           /\ Len(userOutbox') = Len(userOutbox) + 1
           /\ Len(userOutbox') <= MaxUserRows
           /\ \A r \in 1 .. Len(userOutbox) : userOutbox'[r] = userOutbox[r]
           /\ userOutbox'[Len(userOutbox) + 1] = [topic |-> topic, deposit |-> d]
<1>1. [topic |-> topic, deposit |-> d] \in Reply
  BY DEF Reply
<1> QED
  BY <1>1, BoundAssumption DEF AppendUserRow

(* A counter of a family is incremented. *)
LEMMA Incremented ==
    ASSUME NEW S, NEW f \in [S -> Nat], NEW i \in S
    PROVE  [f EXCEPT ![i] = @ + 1] \in [S -> Nat]
OBVIOUS

(* A fault is counted within its bound. *)
LEMMA FaultCounted ==
    ASSUME faults \in 0 .. MaxFaults, Fault
    PROVE  faults' \in 0 .. MaxFaults
BY BoundAssumption DEF Fault

(* A worker changes only its own outbox variables, and publishes only rows
   that exist: here the worker of transaction-service ... *)
LEMMA TxWorkerStep ==
    ASSUME IInv, TxWorkerFrame,
           \/ \E i \in TxRow : TxWorker!Publish(i)
           \/ TxWorker!Mark
           \/ TxWorkerFault
    PROVE  TxWorker!TypeOK' /\ UserWorker!TypeOK' /\ SentRows'
<1> USE DEF IInv, TypeOK, TxWorker!TypeOK, TxWorker!Row, TxRow
<1>0. /\ UNCHANGED <<txOutbox, userOutbox, userMarked, userAwaiting, userSent>>
      /\ SentRows
  BY DEF TxWorkerFrame, userOutboxVars, Chain, SentRows
<1>1. ASSUME NEW i \in TxRow, TxWorker!Publishable(i),
             txSent' = [txSent EXCEPT ![i] = @ + 1]
      PROVE  /\ i \in 1 .. Len(txOutbox)
             /\ txSent' \in [TxRow -> Nat]
             /\ \A j \in TxRow : txSent'[j] > 0 => j <= Len(txOutbox)
  <2>1. i \in 1 .. Len(txOutbox)
    BY <1>1 DEF TxWorker!Publishable
  <2>2. txSent \in [TxRow -> Nat]
    OBVIOUS
  <2>3. txSent' \in [TxRow -> Nat]
    BY <1>1, <2>2, Incremented
  <2>4. ASSUME NEW j \in TxRow, txSent'[j] > 0 PROVE j <= Len(txOutbox)
    <3>1. CASE j = i
      BY <2>1, <3>1
    <3>2. CASE j # i
      BY <3>2, <2>2, <2>4, <1>1, <1>0 DEF SentRows
    <3> QED
      BY <3>1, <3>2
  <2> QED
    BY <2>1, <2>3, <2>4
<1>2. CASE \E i \in TxRow : TxWorker!Publish(i)
  <2>1. PICK i \in TxRow : TxWorker!Publish(i)
    BY <1>2
  <2>2. /\ TxWorker!Publishable(i) /\ txSent' = [txSent EXCEPT ![i] = @ + 1]
        /\ txAwaiting' = txAwaiting \cup {i} /\ UNCHANGED <<txMarked, faults>>
    BY <2>1 DEF TxWorker!Publish
  <2>3. TxWorker!TypeOK' /\ SentRows'
    BY <2>2, <1>1, <1>0 DEF SentRows
  <2> QED
    BY <2>2, <2>3, <1>0 DEF UserWorker!TypeOK
<1>3. CASE TxWorker!Mark
  <2>1. TxWorker!TypeOK' /\ SentRows'
    BY <1>3, <1>0 DEF TxWorker!Mark, SentRows
  <2> QED
    BY <1>3, <2>1, <1>0 DEF TxWorker!Mark, UserWorker!TypeOK
<1>4. CASE TxWorker!Forget
  <2>1. faults' \in 0 .. MaxFaults
    BY <1>4, FaultCounted DEF TxWorker!Forget, TxWorker!Fault, Fault
  <2>2. TxWorker!TypeOK' /\ SentRows'
    BY <1>4, <2>1, <1>0 DEF TxWorker!Forget, SentRows
  <2> QED
    BY <2>1, <2>2, <1>0 DEF UserWorker!TypeOK
<1>5. CASE \E i \in TxRow : TxWorker!PublishUnconfirmed(i)
  <2>1. PICK i \in TxRow : TxWorker!PublishUnconfirmed(i)
    BY <1>5
  <2>2. /\ TxWorker!Publishable(i) /\ txSent' = [txSent EXCEPT ![i] = @ + 1]
        /\ Fault /\ UNCHANGED <<txMarked, txAwaiting>>
    BY <2>1 DEF TxWorker!PublishUnconfirmed, TxWorker!Fault, Fault
  <2>3. faults' \in 0 .. MaxFaults
    BY <2>2, FaultCounted
  <2>4. TxWorker!TypeOK' /\ SentRows'
    BY <2>2, <2>3, <1>1, <1>0 DEF SentRows
  <2> QED
    BY <2>3, <2>4, <1>0 DEF UserWorker!TypeOK
<1> QED
  BY <1>2, <1>3, <1>4, <1>5 DEF TxWorkerFault

(* ... and here the worker of user-service. *)
LEMMA UserWorkerStep ==
    ASSUME IInv, UserWorkerFrame,
           \/ \E r \in UserRow : UserWorker!Publish(r)
           \/ UserWorker!Mark
           \/ UserWorkerFault
    PROVE  TxWorker!TypeOK' /\ UserWorker!TypeOK' /\ SentRows'
<1> USE DEF IInv, TypeOK, UserWorker!TypeOK, UserWorker!Row, UserRow
<1>0. /\ UNCHANGED <<userOutbox, txOutbox, txMarked, txAwaiting, txSent>>
      /\ SentRows
  BY DEF UserWorkerFrame, txOutboxVars, Chain, SentRows
<1>1. ASSUME NEW r \in UserRow, UserWorker!Publishable(r),
             userSent' = [userSent EXCEPT ![r] = @ + 1]
      PROVE  /\ r \in 1 .. Len(userOutbox)
             /\ userSent' \in [UserRow -> Nat]
             /\ \A j \in UserRow : userSent'[j] > 0 => j <= Len(userOutbox)
  <2>1. r \in 1 .. Len(userOutbox)
    BY <1>1 DEF UserWorker!Publishable
  <2>2. userSent \in [UserRow -> Nat]
    OBVIOUS
  <2>3. userSent' \in [UserRow -> Nat]
    BY <1>1, <2>2, Incremented
  <2>4. ASSUME NEW j \in UserRow, userSent'[j] > 0 PROVE j <= Len(userOutbox)
    <3>1. CASE j = r
      BY <2>1, <3>1
    <3>2. CASE j # r
      BY <3>2, <2>2, <2>4, <1>1, <1>0 DEF SentRows
    <3> QED
      BY <3>1, <3>2
  <2> QED
    BY <2>1, <2>3, <2>4
<1>2. CASE \E r \in UserRow : UserWorker!Publish(r)
  <2>1. PICK r \in UserRow : UserWorker!Publish(r)
    BY <1>2
  <2>2. /\ UserWorker!Publishable(r) /\ userSent' = [userSent EXCEPT ![r] = @ + 1]
        /\ userAwaiting' = userAwaiting \cup {r} /\ UNCHANGED <<userMarked, faults>>
    BY <2>1 DEF UserWorker!Publish
  <2>3. UserWorker!TypeOK' /\ SentRows'
    BY <2>2, <1>1, <1>0 DEF SentRows
  <2> QED
    BY <2>2, <2>3, <1>0 DEF TxWorker!TypeOK
<1>3. CASE UserWorker!Mark
  <2>1. UserWorker!TypeOK' /\ SentRows'
    BY <1>3, <1>0 DEF UserWorker!Mark, SentRows
  <2> QED
    BY <1>3, <2>1, <1>0 DEF UserWorker!Mark, TxWorker!TypeOK
<1>4. CASE UserWorker!Forget
  <2>1. faults' \in 0 .. MaxFaults
    BY <1>4, FaultCounted DEF UserWorker!Forget, UserWorker!Fault, Fault
  <2>2. UserWorker!TypeOK' /\ SentRows'
    BY <1>4, <2>1, <1>0 DEF UserWorker!Forget, SentRows
  <2> QED
    BY <2>1, <2>2, <1>0 DEF TxWorker!TypeOK
<1>5. CASE \E r \in UserRow : UserWorker!PublishUnconfirmed(r)
  <2>1. PICK r \in UserRow : UserWorker!PublishUnconfirmed(r)
    BY <1>5
  <2>2. /\ UserWorker!Publishable(r) /\ userSent' = [userSent EXCEPT ![r] = @ + 1]
        /\ Fault /\ UNCHANGED <<userMarked, userAwaiting>>
    BY <2>1 DEF UserWorker!PublishUnconfirmed, UserWorker!Fault, Fault
  <2>3. faults' \in 0 .. MaxFaults
    BY <2>2, FaultCounted
  <2>4. UserWorker!TypeOK' /\ SentRows'
    BY <2>2, <2>3, <1>1, <1>0 DEF SentRows
  <2> QED
    BY <2>3, <2>4, <1>0 DEF TxWorker!TypeOK
<1> QED
  BY <1>2, <1>3, <1>4, <1>5 DEF UserWorkerFault

(* Any other step keeps the outbox variables, may append a row, may count a
   fault. *)
LEMMA OutboxesKept ==
    ASSUME IInv, UNCHANGED <<txOutboxVars, userOutboxVars>>,
           \/ UNCHANGED txOutbox
           \/ \E d \in Deposit : AppendTxRow(d),
           \/ UNCHANGED userOutbox
           \/ \E d \in Deposit,
                 topic \in {"DEPOSIT_CREDITING_SUCCESS", "DEPOSIT_CREDITING_FAILED"} :
                 AppendUserRow(topic, d),
           UNCHANGED faults \/ Fault
    PROVE  /\ TxWorker!TypeOK' /\ UserWorker!TypeOK' /\ SentRows'
           /\ txOutbox' \in Seq(Deposit) /\ Len(txOutbox') <= MaxTxRows
           /\ userOutbox' \in Seq(Reply) /\ Len(userOutbox') <= MaxUserRows
<1>1. faults' \in 0 .. MaxFaults
  BY FaultCounted DEF IInv, TypeOK, TxWorker!TypeOK
<1>2. /\ txOutbox' \in Seq(Deposit) /\ Len(txOutbox') <= MaxTxRows
      /\ Len(txOutbox) <= Len(txOutbox')
  BY TxRowAppended DEF IInv, TypeOK
<1>3. /\ userOutbox' \in Seq(Reply) /\ Len(userOutbox') <= MaxUserRows
      /\ Len(userOutbox) <= Len(userOutbox')
  <2>1. CASE UNCHANGED userOutbox
    BY <2>1 DEF IInv, TypeOK
  <2>2. ASSUME NEW d \in Deposit,
               NEW topic \in {"DEPOSIT_CREDITING_SUCCESS", "DEPOSIT_CREDITING_FAILED"},
               AppendUserRow(topic, d)
        PROVE  /\ userOutbox' \in Seq(Reply) /\ Len(userOutbox') <= MaxUserRows
               /\ Len(userOutbox) <= Len(userOutbox')
    <3>1. userOutbox \in Seq(Reply)
      BY DEF IInv, TypeOK
    <3>2. Len(userOutbox') = Len(userOutbox) + 1 /\ Len(userOutbox') <= MaxUserRows
          /\ userOutbox' \in Seq(Reply)
      BY <2>2, <3>1, UserRowAppended
    <3> QED
      BY <3>1, <3>2
  <2> QED
    BY <2>1, <2>2
<1>4. TxWorker!TypeOK'
  BY <1>1, <1>2 DEF IInv, TypeOK, TxWorker!TypeOK, txOutboxVars
<1>5. UserWorker!TypeOK'
  BY <1>1, <1>3 DEF IInv, TypeOK, UserWorker!TypeOK, userOutboxVars
<1>6. SentRows'
  <2>1. SentRows /\ UNCHANGED <<txSent, userSent>>
    BY DEF IInv, Chain, SentRows, txOutboxVars, userOutboxVars
  <2>2. Len(txOutbox) \in Nat /\ Len(userOutbox) \in Nat
    BY DEF IInv, TypeOK
  <2> QED
    BY <2>1, <2>2, <1>2, <1>3 DEF SentRows, TxRow, UserRow
<1> QED
  BY <1>2, <1>3, <1>4, <1>5, <1>6

(* Rows and replies stay justified while statuses stay confirmed, credits
   grow, and new rows are justified. *)
LEMMA FactsKept ==
    ASSUME IInv,
           status' \in [Deposit -> TransactionStatus],
           credits' \in [Deposit -> Nat],
           \A d \in Deposit : /\ status[d] \in Confirmed => status'[d] \in Confirmed
                              /\ credits'[d] >= credits[d],
           \/ UNCHANGED txOutbox
           \/ \E d \in Deposit : AppendTxRow(d) /\ status'[d] \in Confirmed,
           \/ UNCHANGED userOutbox
           \/ \E d \in Deposit,
                 topic \in {"DEPOSIT_CREDITING_SUCCESS", "DEPOSIT_CREDITING_FAILED"} :
                 /\ AppendUserRow(topic, d)
                 /\ status'[d] \in Confirmed
                 /\ topic = "DEPOSIT_CREDITING_SUCCESS" => credits'[d] > 0
    PROVE  RowFacts' /\ ReplyFacts'
<1>0. /\ txOutbox \in Seq(Deposit) /\ userOutbox \in Seq(Reply)
      /\ RowFacts /\ ReplyFacts /\ credits \in [Deposit -> Nat]
  BY DEF IInv, TypeOK, Chain
<1>3. /\ Len(txOutbox) \in Nat /\ Len(userOutbox) \in Nat
      /\ \A i \in 1 .. Len(txOutbox) : txOutbox[i] \in Deposit
      /\ \A r \in 1 .. Len(userOutbox) : userOutbox[r] \in Reply
  BY <1>0
<1>1. RowFacts'
  <2>1. CASE UNCHANGED txOutbox
    BY <2>1, <1>0, <1>3 DEF RowFacts
  <2>2. ASSUME NEW d \in Deposit, AppendTxRow(d), status'[d] \in Confirmed
        PROVE  RowFacts'
    <3>1. /\ Len(txOutbox') = Len(txOutbox) + 1
          /\ \A i \in 1 .. Len(txOutbox) : txOutbox'[i] = txOutbox[i]
          /\ txOutbox'[Len(txOutbox) + 1] = d
      BY <2>2, <1>0, TxRowAppended
    <3>2. ASSUME NEW i \in 1 .. Len(txOutbox')
          PROVE  status'[txOutbox'[i]] \in Confirmed
      <4>1. CASE i = Len(txOutbox) + 1
        BY <4>1, <3>1, <2>2
      <4>2. CASE i # Len(txOutbox) + 1
        <5>1. i \in 1 .. Len(txOutbox)
          BY <4>2, <3>1, <1>3
        <5> QED
          BY <5>1, <3>1, <1>0, <1>3 DEF RowFacts
      <4> QED
        BY <4>1, <4>2
    <3> QED
      BY <3>2 DEF RowFacts
  <2> QED
    BY <2>1, <2>2
<1>2. ReplyFacts'
  <2>0. \A r \in 1 .. Len(userOutbox) : userOutbox[r].deposit \in Deposit
    BY <1>3 DEF Reply
  <2>1. CASE UNCHANGED userOutbox
    <3>1. ASSUME NEW r \in 1 .. Len(userOutbox)
          PROVE  /\ status'[userOutbox[r].deposit] \in Confirmed
                 /\ userOutbox[r].topic = "DEPOSIT_CREDITING_SUCCESS"
                       => credits'[userOutbox[r].deposit] > 0
      <4> DEFINE d == userOutbox[r].deposit
      <4>1. /\ d \in Deposit /\ credits[d] \in Nat /\ credits'[d] \in Nat
            /\ credits'[d] >= credits[d]
            /\ status[d] \in Confirmed => status'[d] \in Confirmed
        BY <2>0, <1>0
      <4>2. /\ status[d] \in Confirmed
            /\ userOutbox[r].topic = "DEPOSIT_CREDITING_SUCCESS" => credits[d] > 0
        BY <1>0 DEF ReplyFacts
      <4> HIDE DEF d
      <4>3. /\ status'[d] \in Confirmed
            /\ userOutbox[r].topic = "DEPOSIT_CREDITING_SUCCESS" => credits'[d] > 0
        BY <4>1, <4>2
      <4> QED
        BY <4>3 DEF d
    <3> QED
      BY <3>1, <2>1 DEF ReplyFacts
  <2>2. ASSUME NEW d \in Deposit,
               NEW topic \in {"DEPOSIT_CREDITING_SUCCESS", "DEPOSIT_CREDITING_FAILED"},
               AppendUserRow(topic, d), status'[d] \in Confirmed,
               topic = "DEPOSIT_CREDITING_SUCCESS" => credits'[d] > 0
        PROVE  ReplyFacts'
    <3>1. /\ Len(userOutbox') = Len(userOutbox) + 1
          /\ \A r \in 1 .. Len(userOutbox) : userOutbox'[r] = userOutbox[r]
          /\ userOutbox'[Len(userOutbox) + 1] = [topic |-> topic, deposit |-> d]
      BY <2>2, <1>0, UserRowAppended
    <3>2. ASSUME NEW r \in 1 .. Len(userOutbox')
          PROVE  /\ status'[userOutbox'[r].deposit] \in Confirmed
                 /\ userOutbox'[r].topic = "DEPOSIT_CREDITING_SUCCESS"
                       => credits'[userOutbox'[r].deposit] > 0
      <4>1. CASE r = Len(userOutbox) + 1
        BY <4>1, <3>1, <2>2
      <4>2. CASE r # Len(userOutbox) + 1
        <5>1. r \in 1 .. Len(userOutbox)
          BY <4>2, <3>1, <1>3
        <5>2. userOutbox'[r] = userOutbox[r] /\ userOutbox[r].deposit \in Deposit
          BY <5>1, <3>1, <2>0
        <5> QED
          BY <5>1, <5>2, <1>0 DEF ReplyFacts
      <4> QED
        BY <4>1, <4>2
    <3> QED
      BY <3>2 DEF ReplyFacts
  <2> QED
    BY <2>1, <2>2
<1> QED
  BY <1>1, <1>2

(* A message that can be consumed, or is being handled, belongs to a row of a
   paid deposit. *)
LEMMA ConsumableRow ==
    ASSUME IInv, NEW i \in TxRow, DepositReady(i) \/ NextDeposit(i) \in failing
    PROVE  /\ i \in 1 .. Len(txOutbox) /\ txOutbox[i] \in Deposit
           /\ status[txOutbox[i]] \in Confirmed
           /\ NextDeposit(i) \in TxRow \X Nat
<1>0. /\ txOutbox \in Seq(Deposit) /\ txRead \in [TxRow -> Nat]
      /\ SentRows /\ FailingFacts /\ RowFacts
  BY DEF IInv, TypeOK, Chain
<1>1. txSent \in [TxRow -> Nat]
  BY DEF IInv, TypeOK, TxWorker!TypeOK, TxWorker!Row, TxRow
<1>2. i <= Len(txOutbox)
  <2>1. CASE DepositReady(i)
    <3>1. txSent[i] > 0
      BY <2>1, <1>0, <1>1 DEF DepositReady
    <3> QED
      BY <3>1, <1>0 DEF SentRows
  <2>2. CASE NextDeposit(i) \in failing
    BY <2>2, <1>0 DEF FailingFacts, NextDeposit
  <2> QED
    BY <2>1, <2>2
<1>3. i \in 1 .. Len(txOutbox)
  BY <1>0, <1>2 DEF TxRow
<1> QED
  BY <1>0, <1>3 DEF RowFacts, NextDeposit

(* The same for a reply. *)
LEMMA ConsumableReply ==
    ASSUME IInv, NEW r \in UserRow, userRead[r] < userSent[r]
    PROVE  /\ r \in 1 .. Len(userOutbox) /\ userOutbox[r] \in Reply
           /\ userOutbox[r].deposit \in Deposit
           /\ status[userOutbox[r].deposit] \in Confirmed
           /\ userOutbox[r].topic = "DEPOSIT_CREDITING_SUCCESS"
                 => credits[userOutbox[r].deposit] > 0
           /\ NextReply(r) \in UserRow \X Nat
<1>0. /\ userOutbox \in Seq(Reply) /\ userRead \in [UserRow -> Nat]
      /\ SentRows /\ ReplyFacts
  BY DEF IInv, TypeOK, Chain
<1>1. userSent \in [UserRow -> Nat]
  BY DEF IInv, TypeOK, UserWorker!TypeOK, UserWorker!Row, UserRow
<1>2. userSent[r] > 0
  BY <1>0, <1>1
<1>3. r \in 1 .. Len(userOutbox)
  BY <1>0, <1>2 DEF SentRows, UserRow
<1>4. userOutbox[r] \in Reply
  BY <1>0, <1>3
<1> QED
  BY <1>0, <1>3, <1>4 DEF ReplyFacts, NextReply, Reply

(* Writing FAILED without a check still meets a paid deposit. *)
LEMMA StaleCheckEffect ==
    ASSUME IInv, NEW r \in UserRow, RecreateAfterStaleCheck(r)
    PROVE  /\ userOutbox[r].deposit \in Deposit
           /\ status[userOutbox[r].deposit] \in Confirmed
           /\ status' = [status EXCEPT ![userOutbox[r].deposit] = "FAILED"]
           /\ retryCount' = [retryCount EXCEPT ![userOutbox[r].deposit] = @ + 1]
<1>1. userOutbox \in Seq(Reply) /\ ReplyFacts
  BY DEF IInv, TypeOK, Chain
<1>2. r \in 1 .. Len(userOutbox)
  BY <1>1 DEF RecreateAfterStaleCheck, UserRow
<1>3. userOutbox[r] \in Reply
  BY <1>1, <1>2
<1> QED
  BY <1>1, <1>2, <1>3 DEF RecreateAfterStaleCheck, ReplyFacts, Reply

(* The transaction of depositToBalance, committed. *)
LEMMA CreditEffect ==
    ASSUME IInv, NEW i \in TxRow, DepositReady(i),
           DepositAndCreateOutboxEvent(i)
    PROVE  /\ credits' \in [Deposit -> Nat]
           /\ \A d \in Deposit : credits'[d] >= credits[d]
           /\ \A d \in Deposit : credits'[d] > 0 => status[d] \in Confirmed
           /\ userProcessed' \subseteq TxRow \X Nat
           /\ \/ UNCHANGED userOutbox
              \/ /\ AppendUserRow("DEPOSIT_CREDITING_SUCCESS", txOutbox[i])
                 /\ credits'[txOutbox[i]] > 0
<1>0. /\ credits \in [Deposit -> Nat] /\ userProcessed \subseteq TxRow \X Nat
      /\ DepositFacts
  BY DEF IInv, TypeOK, Chain
<1>1. /\ txOutbox[i] \in Deposit /\ status[txOutbox[i]] \in Confirmed
      /\ NextDeposit(i) \in TxRow \X Nat
  BY ConsumableRow
<1>2. CASE NextDeposit(i) \in userProcessed
  BY <1>0, <1>2 DEF DepositAndCreateOutboxEvent, DepositFacts
<1>3. CASE NextDeposit(i) \notin userProcessed
  <2>1. /\ credits' = [credits EXCEPT ![txOutbox[i]] = @ + 1]
        /\ userProcessed' = userProcessed \cup {NextDeposit(i)}
        /\ AppendUserRow("DEPOSIT_CREDITING_SUCCESS", txOutbox[i])
    BY <1>3 DEF DepositAndCreateOutboxEvent
  <2>2. credits' \in [Deposit -> Nat]
    BY <2>1, <1>0, <1>1, Incremented
  <2> QED
    BY <2>1, <2>2, <1>0, <1>1 DEF DepositFacts
<1> QED
  BY <1>2, <1>3

(* What a step owes besides the outboxes' own facts. *)
LEMMA Assembled ==
    ASSUME IInv,
           UNCHANGED <<txOutboxVars, userOutboxVars>>,
           \/ UNCHANGED txOutbox
           \/ \E d \in Deposit : AppendTxRow(d) /\ status'[d] \in Confirmed,
           \/ UNCHANGED userOutbox
           \/ \E d \in Deposit,
                 topic \in {"DEPOSIT_CREDITING_SUCCESS", "DEPOSIT_CREDITING_FAILED"} :
                 /\ AppendUserRow(topic, d)
                 /\ status'[d] \in Confirmed
                 /\ topic = "DEPOSIT_CREDITING_SUCCESS" => credits'[d] > 0,
           UNCHANGED faults \/ Fault,
           payment' \in [Deposit -> PaymentStatus],
           status' \in [Deposit -> TransactionStatus],
           retryCount' \in [Deposit -> Nat],
           txProcessed' \subseteq UserRow \X Nat,
           credits' \in [Deposit -> Nat],
           failing' \subseteq TxRow \X Nat,
           userProcessed' \subseteq TxRow \X Nat,
           notified' \subseteq Deposit,
           txRead' \in [TxRow -> Nat],
           userRead' \in [UserRow -> Nat],
           \A d \in Deposit : /\ status[d] \in Confirmed => status'[d] \in Confirmed
                              /\ credits'[d] >= credits[d],
           DepositFacts',
           \A key \in failing' : key[1] <= Len(txOutbox)
    PROVE  IInv'
<1>1. /\ TxWorker!TypeOK' /\ UserWorker!TypeOK' /\ SentRows'
      /\ txOutbox' \in Seq(Deposit) /\ Len(txOutbox') <= MaxTxRows
      /\ userOutbox' \in Seq(Reply) /\ Len(userOutbox') <= MaxUserRows
  <2>1. \/ UNCHANGED txOutbox
        \/ \E d \in Deposit : AppendTxRow(d)
    OBVIOUS
  <2>2. \/ UNCHANGED userOutbox
        \/ \E d \in Deposit,
              topic \in {"DEPOSIT_CREDITING_SUCCESS", "DEPOSIT_CREDITING_FAILED"} :
              AppendUserRow(topic, d)
    OBVIOUS
  <2> QED
    BY <2>1, <2>2, OutboxesKept
<1>2. RowFacts' /\ ReplyFacts'
  BY FactsKept
<1>3. FailingFacts'
  <2>1. txOutbox \in Seq(Deposit)
    BY DEF IInv, TypeOK
  <2>2. Len(txOutbox) <= Len(txOutbox') /\ Len(txOutbox) \in Nat /\ Len(txOutbox') \in Nat
    BY <1>1, <2>1, TxRowAppended
  <2>3. \A key \in failing' : key[1] \in Nat
    BY DEF TxRow
  <2> QED
    BY <2>2, <2>3 DEF FailingFacts
<1>4. TypeOK'
  BY <1>1 DEF TypeOK
<1> QED
  BY <1>1, <1>2, <1>3, <1>4 DEF IInv, Chain

(* The invariant holds initially. *)
LEMMA InitIInv == Init => IInv
<1> SUFFICES ASSUME Init PROVE IInv
  OBVIOUS
<1>1. /\ txOutbox = <<>> /\ userOutbox = <<>> /\ failing = {}
      /\ txOutbox \in Seq(Deposit) /\ Len(txOutbox) = 0
      /\ userOutbox \in Seq(Reply) /\ Len(userOutbox) = 0
  BY DEF Init
<1>2. /\ payment \in [Deposit -> PaymentStatus]
      /\ status \in [Deposit -> TransactionStatus]
      /\ retryCount \in [Deposit -> Nat] /\ credits \in [Deposit -> Nat]
      /\ txRead \in [TxRow -> Nat] /\ userRead \in [UserRow -> Nat]
      /\ txProcessed = {} /\ userProcessed = {} /\ notified = {}
  BY DEF Init, PaymentStatus, TransactionStatus
<1>3. TxWorker!TypeOK
  BY <1>1, BoundAssumption DEF Init, TxWorker!Init, TxWorker!TypeOK
<1>4. UserWorker!TypeOK
  BY <1>1, BoundAssumption DEF Init, UserWorker!Init, UserWorker!TypeOK
<1>5. TypeOK
  BY <1>1, <1>2, <1>3, <1>4, BoundAssumption DEF TypeOK
<1>6. DepositFacts /\ RowFacts /\ ReplyFacts /\ FailingFacts
  BY <1>1 DEF Init, DepositFacts, RowFacts, ReplyFacts, FailingFacts, Confirmed
<1>7. SentRows
  BY <1>1 DEF Init, TxWorker!Init, UserWorker!Init, TxWorker!Row, UserWorker!Row,
     TxRow, UserRow, SentRows
<1> QED
  BY <1>5, <1>6, <1>7 DEF IInv, Chain

(* Every action preserves the invariant. *)
LEMMA NextIInv == IInv /\ [Next]_vars => IInv'
<1> SUFFICES ASSUME IInv, [Next]_vars PROVE IInv'
  OBVIOUS
<1>t. /\ payment \in [Deposit -> PaymentStatus]
      /\ status \in [Deposit -> TransactionStatus]
      /\ retryCount \in [Deposit -> Nat]
      /\ txProcessed \subseteq UserRow \X Nat
      /\ credits \in [Deposit -> Nat]
      /\ failing \subseteq TxRow \X Nat
      /\ userProcessed \subseteq TxRow \X Nat
      /\ notified \subseteq Deposit
      /\ txRead \in [TxRow -> Nat]
      /\ userRead \in [UserRow -> Nat]
  BY DEF IInv, TypeOK
<1>f. /\ DepositFacts
      /\ \A key \in failing : key[1] <= Len(txOutbox)
      /\ \A d \in Deposit : credits[d] >= credits[d]
  BY <1>t DEF IInv, Chain, FailingFacts
<1>1. ASSUME NEW d \in Deposit, Gateway(d) \/ Webhook(d) PROVE IInv'
  <2>0. /\ UNCHANGED <<retryCount, txProcessed, userVars, userOutbox,
                       txOutboxVars, userOutboxVars, txRead, userRead, faults>>
        /\ UNCHANGED <<credits, failing, userProcessed, notified>>
    BY <1>1 DEF Gateway, Webhook, CreatePayment, CreateTransaction,
       ConcludePayment, WebhookSucceeded, WebhookCanceled, userVars
  <2>1. /\ payment' \in [Deposit -> PaymentStatus]
        /\ status' \in [Deposit -> TransactionStatus]
    BY <1>1, <1>t DEF Gateway, Webhook, CreatePayment, CreateTransaction,
       ConcludePayment, WebhookSucceeded, WebhookCanceled, PaymentStatus,
       TransactionStatus
  <2>2. /\ \A e \in Deposit : status[e] \in Confirmed => status'[e] \in Confirmed
        /\ DepositFacts'
    BY <1>1, <1>t, <1>f, <2>0 DEF Gateway, Webhook, CreatePayment,
       CreateTransaction, ConcludePayment, WebhookSucceeded, WebhookCanceled,
       DepositFacts, Confirmed
  <2>3. \/ UNCHANGED txOutbox
        \/ \E e \in Deposit : AppendTxRow(e) /\ status'[e] \in Confirmed
    BY <1>1, <1>t DEF Gateway, Webhook, CreatePayment, CreateTransaction,
       ConcludePayment, WebhookSucceeded, WebhookCanceled, Confirmed
  <2> QED
    BY <2>0, <2>1, <2>2, <2>3, <1>t, <1>f, Assembled
<1>2. CASE Worker
  <2>1. /\ TxWorker!TypeOK' /\ UserWorker!TypeOK' /\ SentRows'
        /\ UNCHANGED <<txVars, txOutbox, userVars, userOutbox, txRead, userRead>>
    <3>1. CASE \/ \E i \in TxRow : TxPublish(i)
               \/ TxMark
               \/ TxWorkerFrame /\ TxWorkerFault
      <4>1. TxWorkerFrame /\ (\/ \E i \in TxRow : TxWorker!Publish(i)
                              \/ TxWorker!Mark
                              \/ TxWorkerFault)
        BY <3>1 DEF TxPublish, TxMark
      <4>2. TxWorker!TypeOK' /\ UserWorker!TypeOK' /\ SentRows'
        BY <4>1, TxWorkerStep
      <4> QED
        BY <4>1, <4>2 DEF TxWorkerFrame
    <3>2. CASE \/ \E r \in UserRow : UserPublish(r)
               \/ UserMark
               \/ UserWorkerFrame /\ UserWorkerFault
      <4>1. UserWorkerFrame /\ (\/ \E r \in UserRow : UserWorker!Publish(r)
                                \/ UserWorker!Mark
                                \/ UserWorkerFault)
        BY <3>2 DEF UserPublish, UserMark
      <4>2. TxWorker!TypeOK' /\ UserWorker!TypeOK' /\ SentRows'
        BY <4>1, UserWorkerStep
      <4> QED
        BY <4>1, <4>2 DEF UserWorkerFrame
    <3> QED
      BY <1>2, <3>1, <3>2 DEF Worker, WorkerFault
  <2>2. TypeOK'
    BY <2>1, <1>t DEF IInv, TypeOK, txVars, userVars
  <2>3. DepositFacts' /\ RowFacts' /\ ReplyFacts' /\ FailingFacts'
    BY <2>1 DEF IInv, Chain, DepositFacts, RowFacts, ReplyFacts, FailingFacts,
       txVars, userVars
  <2> QED
    BY <2>1, <2>2, <2>3 DEF IInv, Chain
<1>3. ASSUME NEW i \in TxRow, UserConsumer(i) PROVE IInv'
  <2>0. UserFrame => UNCHANGED <<payment, status, retryCount, txProcessed,
                        txOutbox, txOutboxVars, userOutboxVars, userRead>>
    BY DEF UserFrame, txVars
  <2>1. txRead' = [txRead EXCEPT ![i] = @ + 1] => txRead' \in [TxRow -> Nat]
    BY <1>t, Incremented
  <2>2. (DepositReady(i) \/ NextDeposit(i) \in failing) =>
           /\ i \in 1 .. Len(txOutbox) /\ txOutbox[i] \in Deposit
           /\ status[txOutbox[i]] \in Confirmed
           /\ NextDeposit(i) \in TxRow \X Nat
    BY ConsumableRow
  <2>3. (failing' = failing \cup {NextDeposit(i)} /\ DepositReady(i)) =>
           /\ failing' \subseteq TxRow \X Nat
           /\ \A key \in failing' : key[1] <= Len(txOutbox)
    BY <1>t, <1>f, <2>2 DEF NextDeposit
  <2>4. ASSUME DepositReady(i), DepositAndCreateOutboxEvent(i), UserFrame,
               UNCHANGED faults \/ Fault,
               failing' \subseteq TxRow \X Nat,
               \A key \in failing' : key[1] <= Len(txOutbox),
               notified' \subseteq Deposit,
               txRead' \in [TxRow -> Nat]
        PROVE  IInv'
    <3>1. /\ credits' \in [Deposit -> Nat]
          /\ \A d \in Deposit : credits'[d] >= credits[d]
          /\ \A d \in Deposit : credits'[d] > 0 => status[d] \in Confirmed
          /\ userProcessed' \subseteq TxRow \X Nat
          /\ \/ UNCHANGED userOutbox
             \/ /\ AppendUserRow("DEPOSIT_CREDITING_SUCCESS", txOutbox[i])
                /\ credits'[txOutbox[i]] > 0
      BY <2>4, CreditEffect
    <3>2. DepositFacts'
      BY <2>4, <2>0, <3>1, <1>t, <1>f DEF DepositFacts
    <3>3. \/ UNCHANGED userOutbox
          \/ \E d \in Deposit,
                topic \in {"DEPOSIT_CREDITING_SUCCESS", "DEPOSIT_CREDITING_FAILED"} :
                /\ AppendUserRow(topic, d)
                /\ status'[d] \in Confirmed
                /\ topic = "DEPOSIT_CREDITING_SUCCESS" => credits'[d] > 0
      BY <2>4, <2>0, <2>2, <3>1
    <3> QED
      BY <2>4, <2>0, <3>1, <3>2, <3>3, <1>t, <1>f, Assembled
  <2>5. ASSUME UserFrame, UNCHANGED <<credits, userProcessed, notified>>,
               UNCHANGED faults \/ Fault,
               \/ UNCHANGED userOutbox
               \/ NextDeposit(i) \in failing
                  /\ AppendUserRow("DEPOSIT_CREDITING_FAILED", txOutbox[i]),
               failing' \subseteq TxRow \X Nat,
               \A key \in failing' : key[1] <= Len(txOutbox),
               txRead' \in [TxRow -> Nat]
        PROVE  IInv'
    <3>1. DepositFacts'
      BY <2>5, <2>0, <1>f DEF DepositFacts
    <3>2. \/ UNCHANGED userOutbox
          \/ \E d \in Deposit,
                topic \in {"DEPOSIT_CREDITING_SUCCESS", "DEPOSIT_CREDITING_FAILED"} :
                /\ AppendUserRow(topic, d)
                /\ status'[d] \in Confirmed
                /\ topic = "DEPOSIT_CREDITING_SUCCESS" => credits'[d] > 0
      BY <2>5, <2>0, <2>2
    <3> QED
      BY <2>5, <2>0, <3>1, <3>2, <1>t, <1>f, Assembled
  <2>6. CASE DepositToBalance(i)
    <3>1. notified' \subseteq Deposit
      BY <2>6, <2>2, <1>t DEF DepositToBalance
    <3> QED
      BY <2>6, <3>1, <2>1, <2>4, <1>t, <1>f DEF DepositToBalance
  <2>7. CASE DepositThenCrash(i)
    BY <2>7, <2>4, <1>t, <1>f DEF DepositThenCrash
  <2>8. CASE DepositAborts(i)
    BY <2>8, <2>3, <2>5, <1>t DEF DepositAborts
  <2>9. CASE DepositUnacknowledged(i)
    BY <2>9, <2>3, <2>4, <1>t DEF DepositUnacknowledged
  <2>10. CASE CreateOutboxEvent(i)
    BY <2>10, <2>1, <2>5, <1>t, <1>f DEF CreateOutboxEvent
  <2>11. CASE CreateOutboxEventFails(i)
    BY <2>11, <2>5, <1>t, <1>f DEF CreateOutboxEventFails
  <2>12. CASE RedeliverDeposit(i)
    <3>1. txRead' \in [TxRow -> Nat] /\ failing' \subseteq failing
      BY <2>12, <1>t DEF RedeliverDeposit
    <3>2. /\ UserFrame /\ UNCHANGED <<credits, userProcessed, notified, userOutbox>>
          /\ Fault
      BY <2>12 DEF RedeliverDeposit
    <3> QED
      BY <3>1, <3>2, <2>5, <1>t, <1>f
  <2> QED
    BY <1>3, <2>6, <2>7, <2>8, <2>9, <2>10, <2>11, <2>12 DEF UserConsumer
<1>4. ASSUME NEW r \in UserRow, TxConsumer(r) PROVE IInv'
  <2>1. userRead' = [userRead EXCEPT ![r] = @ + 1] => userRead' \in [UserRow -> Nat]
    BY <1>t, Incremented
  <2>2. userRead[r] < userSent[r] =>
           /\ userOutbox[r].deposit \in Deposit
           /\ status[userOutbox[r].deposit] \in Confirmed
           /\ userOutbox[r].topic = "DEPOSIT_CREDITING_SUCCESS"
                 => credits[userOutbox[r].deposit] > 0
           /\ NextReply(r) \in UserRow \X Nat
    BY ConsumableReply
  <2>3. TxFrame => /\ UNCHANGED <<payment, txOutboxVars, userOutbox,
                                  userOutboxVars, txRead, faults>>
                   /\ UNCHANGED <<credits, failing, userProcessed, notified>>
    BY DEF TxFrame, userVars
  <2>4. CASE ProcessingCreditingSuccess(r)
    <3> DEFINE d == userOutbox[r].deposit
    <3>1. /\ userRead[r] < userSent[r]
          /\ userOutbox[r].topic = "DEPOSIT_CREDITING_SUCCESS"
      BY <2>4 DEF ProcessingCreditingSuccess, ReplyReady
    <3>2. \/ /\ status[d] = "COMPLETED"
             /\ status' = [status EXCEPT ![d] = "BALANCE_UPDATED"]
             /\ txProcessed' = txProcessed \cup {NextReply(r)}
          \/ UNCHANGED <<status, txProcessed>>
      BY <2>4 DEF ProcessingCreditingSuccess
    <3>3. /\ TxFrame /\ UNCHANGED <<retryCount, txOutbox>>
          /\ userRead' = [userRead EXCEPT ![r] = @ + 1]
      BY <2>4 DEF ProcessingCreditingSuccess
    <3>4. /\ status' \in [Deposit -> TransactionStatus]
          /\ txProcessed' \subseteq UserRow \X Nat
      BY <3>1, <3>2, <2>2, <1>t DEF TransactionStatus
    <3>5. /\ \A e \in Deposit : status[e] \in Confirmed => status'[e] \in Confirmed
          /\ DepositFacts'
      BY <3>1, <3>2, <3>3, <2>2, <2>3, <1>t, <1>f DEF DepositFacts, Confirmed
    <3> QED
      BY <3>3, <3>4, <3>5, <2>1, <2>3, <1>t, <1>f, Assembled
  <2>5. CASE ProcessingCreditingFailed(r)
    <3> DEFINE d == userOutbox[r].deposit
    <3>1. /\ userRead[r] < userSent[r]
          /\ TxFrame /\ userRead' = [userRead EXCEPT ![r] = @ + 1]
      BY <2>5 DEF ProcessingCreditingFailed, ReplyReady
    <3>2. \/ UNCHANGED <<status, retryCount, txOutbox, txProcessed>>
          \/ /\ retryCount' = [retryCount EXCEPT ![d] = @ + 1]
             /\ \/ /\ AppendTxRow(d) /\ UNCHANGED status
                   /\ txProcessed' = txProcessed \cup {NextReply(r)}
                \/ /\ status' = [status EXCEPT ![d] = "FAILED"]
                   /\ UNCHANGED <<txOutbox, txProcessed>>
      BY <2>5 DEF ProcessingCreditingFailed, RecreateOutboxEvent
    <3>3. retryCount' \in [Deposit -> Nat]
      BY <3>1, <3>2, <2>2, <1>t, Incremented
    <3>4. /\ status' \in [Deposit -> TransactionStatus]
          /\ txProcessed' \subseteq UserRow \X Nat
      BY <3>1, <3>2, <2>2, <1>t DEF TransactionStatus
    <3>5. /\ \A e \in Deposit : status[e] \in Confirmed => status'[e] \in Confirmed
          /\ DepositFacts'
      BY <3>1, <3>2, <2>2, <2>3, <1>t, <1>f DEF DepositFacts, Confirmed
    <3>6. \/ UNCHANGED txOutbox
          \/ \E e \in Deposit : AppendTxRow(e) /\ status'[e] \in Confirmed
      BY <3>1, <3>2, <2>2
    <3> QED
      BY <3>1, <3>3, <3>4, <3>5, <3>6, <2>1, <2>3, <1>t, <1>f, Assembled
  <2>6. CASE RecreateAfterStaleCheck(r)
    <3> DEFINE d == userOutbox[r].deposit
    <3>1. /\ d \in Deposit /\ status[d] \in Confirmed
          /\ status' = [status EXCEPT ![d] = "FAILED"]
          /\ retryCount' = [retryCount EXCEPT ![d] = @ + 1]
      BY <2>6, StaleCheckEffect
    <3>2. /\ Fault
          /\ UNCHANGED <<payment, txProcessed, txOutbox, txOutboxVars, credits,
                         failing, userProcessed, notified, userOutbox,
                         userOutboxVars, txRead, userRead>>
      BY <2>6 DEF RecreateAfterStaleCheck, userVars
    <3> HIDE DEF d
    <3>3. /\ retryCount' \in [Deposit -> Nat]
          /\ status' \in [Deposit -> TransactionStatus]
      BY <3>1, <1>t, Incremented DEF TransactionStatus
    <3>4. /\ \A e \in Deposit : status[e] \in Confirmed => status'[e] \in Confirmed
          /\ DepositFacts'
      BY <3>1, <3>2, <1>t, <1>f DEF DepositFacts, Confirmed
    <3> QED
      BY <3>2, <3>3, <3>4, <1>t, <1>f, Assembled
  <2>7. CASE DropReply(r) \/ RedeliverReply(r)
    <3>1. userRead' \in [UserRow -> Nat]
      BY <2>7, <2>1, <1>t DEF DropReply, RedeliverReply
    <3>2. /\ Fault
          /\ UNCHANGED <<payment, status, retryCount, txProcessed, txOutbox,
                         txOutboxVars, credits, failing, userProcessed,
                         notified, userOutbox, userOutboxVars, txRead>>
      BY <2>7 DEF DropReply, RedeliverReply, txVars, userVars
    <3>3. DepositFacts'
      BY <3>2, <1>f DEF DepositFacts
    <3> QED
      BY <3>1, <3>2, <3>3, <1>t, <1>f, Assembled
  <2> QED
    BY <1>4, <2>4, <2>5, <2>6, <2>7 DEF TxConsumer
<1>5. CASE UNCHANGED vars
  <2>1. UNCHANGED <<txVars, txOutbox, txOutboxVars, userVars, userOutbox,
                    userOutboxVars, txRead, userRead, faults>>
    BY <1>5 DEF vars
  <2>2. DepositFacts'
    BY <2>1, <1>f DEF DepositFacts, txVars, userVars
  <2> QED
    BY <2>1, <2>2, <1>t, <1>f, Assembled DEF txVars, userVars
<1> QED
  BY <1>1, <1>2, <1>3, <1>4, <1>5 DEF Next

(* The invariant holds in every reachable state. *)
THEOREM Invariance == Spec => []IInv
<1> QED
  BY InitIInv, NextIInv, PTL DEF Spec

(* The types of all variables, for any number of deposits and faults. *)
THEOREM TypeCorrect == Spec => []TypeOK
<1>1. IInv => TypeOK
  BY DEF IInv
<1> QED
  BY <1>1, Invariance, PTL

(* A balance is credited only for a payment that succeeded. *)
THEOREM CreditsArePaid == Spec => []CreditedOnlyIfPaid
<1>1. IInv => CreditedOnlyIfPaid
  BY DEF IInv, Chain, DepositFacts, CreditedOnlyIfPaid
<1> QED
  BY <1>1, Invariance, PTL

(* BALANCE_UPDATED is reported only for a credited deposit. *)
THEOREM ReportsAreTrue == Spec => []BalanceUpdatedOnlyIfCredited
<1>1. IInv => BalanceUpdatedOnlyIfCredited
  BY DEF IInv, Chain, DepositFacts, BalanceUpdatedOnlyIfCredited
<1> QED
  BY <1>1, Invariance, PTL

Flow == {<<"NONE", "PENDING">>, <<"PENDING", "COMPLETED">>,
         <<"PENDING", "TIMEOUT">>, <<"COMPLETED", "BALANCE_UPDATED">>,
         <<"COMPLETED", "FAILED">>, <<"BALANCE_UPDATED", "FAILED">>}

(* Only replies write FAILED without a status check, and a reply exists only
   for a paid deposit, so every step follows the flow. *)
LEMMA StepFollowsFlow ==
    ASSUME IInv, [Next]_vars, NEW d \in Deposit, status'[d] # status[d]
    PROVE  <<status[d], status'[d]>> \in Flow
<1>0. status \in [Deposit -> TransactionStatus]
  BY DEF IInv, TypeOK
<1>1. ASSUME NEW e \in Deposit, Gateway(e) \/ Webhook(e)
      PROVE  <<status[d], status'[d]>> \in Flow
  BY <1>0, <1>1 DEF Gateway, Webhook, CreatePayment, CreateTransaction,
     ConcludePayment, WebhookSucceeded, WebhookCanceled, Flow
<1>2. CASE Worker \/ UNCHANGED vars \/ \E i \in TxRow : UserConsumer(i)
  <2>1. UNCHANGED status
    BY <1>2 DEF Worker, TxPublish, TxMark, UserPublish, UserMark, WorkerFault,
       TxWorkerFrame, UserWorkerFrame, UserConsumer, DepositToBalance,
       DepositThenCrash, DepositAborts, DepositUnacknowledged,
       CreateOutboxEvent, CreateOutboxEventFails, RedeliverDeposit,
       UserFrame, vars, txVars
  <2> QED
    BY <2>1
<1>3. ASSUME NEW r \in UserRow, TxConsumer(r)
      PROVE  <<status[d], status'[d]>> \in Flow
  <2>1. CASE DropReply(r) \/ RedeliverReply(r)
    BY <2>1 DEF DropReply, RedeliverReply, txVars
  <2>2. CASE ProcessingCreditingSuccess(r)
    BY <2>2, <1>0 DEF ProcessingCreditingSuccess, Flow
  <2>3. CASE ProcessingCreditingFailed(r)
    <3>1. /\ userRead[r] < userSent[r]
          /\ status' = [status EXCEPT ![userOutbox[r].deposit] = "FAILED"]
      BY <2>3 DEF ProcessingCreditingFailed, ReplyReady, RecreateOutboxEvent
    <3>2. status[userOutbox[r].deposit] \in Confirmed
      BY <3>1, ConsumableReply
    <3> QED
      BY <3>1, <3>2, <1>0 DEF Confirmed, Flow
  <2>4. CASE RecreateAfterStaleCheck(r)
    <3>1. /\ status[userOutbox[r].deposit] \in Confirmed
          /\ status' = [status EXCEPT ![userOutbox[r].deposit] = "FAILED"]
      BY <2>4, StaleCheckEffect
    <3> QED
      BY <3>1, <1>0 DEF Confirmed, Flow
  <2> QED
    BY <1>3, <2>1, <2>2, <2>3, <2>4 DEF TxConsumer
<1> QED
  BY <1>1, <1>2, <1>3 DEF Next

(* transactions.status changes only along the flow: in particular an unpaid
   deposit never becomes FAILED, and TIMEOUT and FAILED are final. *)
THEOREM StatusFollowsFlow == Spec => StatusFlow
<1>1. IInv /\ [Next]_vars =>
        [\A d \in Deposit : status'[d] # status[d] =>
            <<status[d], status'[d]>> \in
                {<<"NONE", "PENDING">>, <<"PENDING", "COMPLETED">>,
                 <<"PENDING", "TIMEOUT">>, <<"COMPLETED", "BALANCE_UPDATED">>,
                 <<"COMPLETED", "FAILED">>, <<"BALANCE_UPDATED", "FAILED">>}]_vars
  BY StepFollowsFlow DEF Flow
<1> QED
  BY <1>1, Invariance, PTL DEF Spec, StatusFlow

(* Every row, message and reply of the saga rests on the one before it, whatever
   is repeated. *)
THEOREM StepsRestOnSteps == Spec => []Chain
<1>1. IInv => Chain
  BY DEF IInv
<1> QED BY <1>1, Invariance, PTL

-----------------------------------------------------------------------------
(* Counting keys and attempts.                                             *)

(* Rows are only added, each for a new attempt: the first by the webhook, the
   others by a retry. *)
LEMMA RowStep ==
    ASSUME IInv, [Next]_vars
    PROVE  \/ /\ UNCHANGED txOutbox
              /\ \A d \in Deposit : retryCount'[d] >= retryCount[d]
           \/ \E d \in Deposit :
                 status[d] = "PENDING" /\ AppendTxRow(d) /\ UNCHANGED retryCount
           \/ \E d \in Deposit :
                 /\ retryCount[d] + 1 < MaxRetry
                 /\ AppendTxRow(d)
                 /\ retryCount' = [retryCount EXCEPT ![d] = @ + 1]
<1>0. /\ retryCount \in [Deposit -> Nat]
      /\ UNCHANGED retryCount => \A d \in Deposit : retryCount'[d] >= retryCount[d]
  BY DEF IInv, TypeOK
<1>1. ASSUME NEW d \in Deposit, Gateway(d) \/ WebhookCanceled(d)
      PROVE  UNCHANGED <<txOutbox, retryCount>>
  BY <1>1 DEF Gateway, CreatePayment, CreateTransaction, ConcludePayment,
     WebhookCanceled
<1>2. ASSUME NEW d \in Deposit, WebhookSucceeded(d)
      PROVE  status[d] = "PENDING" /\ AppendTxRow(d) /\ UNCHANGED retryCount
  BY <1>2 DEF WebhookSucceeded
<1>3. CASE Worker \/ UNCHANGED vars \/ \E i \in TxRow : UserConsumer(i)
  <2>1. UNCHANGED <<txOutbox, retryCount>>
    BY <1>3 DEF Worker, TxPublish, TxMark, UserPublish, UserMark, WorkerFault,
       TxWorkerFrame, UserWorkerFrame, UserConsumer, DepositToBalance,
       DepositThenCrash, DepositAborts, DepositUnacknowledged,
       CreateOutboxEvent, CreateOutboxEventFails, RedeliverDeposit,
       UserFrame, vars, txVars
  <2> QED
    BY <1>0, <2>1
<1>4. ASSUME NEW r \in UserRow,
             ProcessingCreditingSuccess(r) \/ DropReply(r) \/ RedeliverReply(r)
      PROVE  UNCHANGED <<txOutbox, retryCount>>
  BY <1>4 DEF ProcessingCreditingSuccess, DropReply, RedeliverReply, txVars
<1>5. ASSUME NEW r \in UserRow, RecreateAfterStaleCheck(r)
      PROVE  UNCHANGED txOutbox /\ \A d \in Deposit : retryCount'[d] >= retryCount[d]
  <2>1. retryCount' = [retryCount EXCEPT ![userOutbox[r].deposit] = @ + 1]
    BY <1>5, StaleCheckEffect
  <2>2. UNCHANGED txOutbox
    BY <1>5 DEF RecreateAfterStaleCheck
  <2> QED
    BY <2>1, <2>2, <1>0
<1>6. ASSUME NEW r \in UserRow, ProcessingCreditingFailed(r)
      PROVE  \/ /\ UNCHANGED txOutbox
                /\ \A d \in Deposit : retryCount'[d] >= retryCount[d]
             \/ \E d \in Deposit :
                   /\ retryCount[d] + 1 < MaxRetry
                   /\ AppendTxRow(d)
                   /\ retryCount' = [retryCount EXCEPT ![d] = @ + 1]
  <2> DEFINE e == userOutbox[r].deposit
  <2>1. e \in Deposit
    BY <1>6, ConsumableReply DEF ProcessingCreditingFailed, ReplyReady
  <2>2. \/ UNCHANGED <<retryCount, txOutbox>>
        \/ /\ retryCount' = [retryCount EXCEPT ![e] = @ + 1]
           /\ UNCHANGED txOutbox \/ (retryCount[e] + 1 < MaxRetry /\ AppendTxRow(e))
    BY <1>6 DEF ProcessingCreditingFailed, RecreateOutboxEvent
  <2> HIDE DEF e
  <2>3. retryCount' = [retryCount EXCEPT ![e] = @ + 1]
           => \A d \in Deposit : retryCount'[d] >= retryCount[d]
    BY <1>0, <2>1
  <2> QED
    BY <1>0, <2>1, <2>2, <2>3
<1> QED
  BY <1>0, <1>1, <1>2, <1>3, <1>4, <1>5, <1>6 DEF Next, Webhook, TxConsumer

(* A deposit is credited only together with a new key of one of its rows. *)
LEMMA CreditStep ==
    ASSUME IInv, [Next]_vars
    PROVE  \/ UNCHANGED <<credits, userProcessed>>
           \/ \E i \in TxRow :
                 /\ DepositReady(i) /\ NextDeposit(i) \notin userProcessed
                 /\ credits' = [credits EXCEPT ![txOutbox[i]] = @ + 1]
                 /\ userProcessed' = userProcessed \cup {NextDeposit(i)}
                 /\ UNCHANGED txOutbox
<1>1. ASSUME NEW d \in Deposit, Gateway(d) \/ Webhook(d)
      PROVE  UNCHANGED <<credits, userProcessed>>
  BY <1>1 DEF Gateway, Webhook, CreatePayment, CreateTransaction,
     ConcludePayment, WebhookSucceeded, WebhookCanceled, userVars
<1>2. CASE Worker \/ UNCHANGED vars
  BY <1>2 DEF Worker, TxPublish, TxMark, UserPublish, UserMark, WorkerFault,
     TxWorkerFrame, UserWorkerFrame, vars, userVars
<1>3. ASSUME NEW r \in UserRow, TxConsumer(r)
      PROVE  UNCHANGED <<credits, userProcessed>>
  BY <1>3 DEF TxConsumer, ProcessingCreditingSuccess, ProcessingCreditingFailed,
     RecreateAfterStaleCheck, DropReply, RedeliverReply, TxFrame, userVars
<1>4. ASSUME NEW i \in TxRow, UserConsumer(i),
             ~ UNCHANGED <<credits, userProcessed>>
      PROVE  /\ DepositReady(i) /\ NextDeposit(i) \notin userProcessed
             /\ credits' = [credits EXCEPT ![txOutbox[i]] = @ + 1]
             /\ userProcessed' = userProcessed \cup {NextDeposit(i)}
             /\ UNCHANGED txOutbox
  <2>1. /\ DepositReady(i) /\ DepositAndCreateOutboxEvent(i)
        /\ UNCHANGED txOutbox
    BY <1>4 DEF UserConsumer, DepositToBalance, DepositThenCrash, DepositAborts,
       DepositUnacknowledged, CreateOutboxEvent, CreateOutboxEventFails,
       RedeliverDeposit, UserFrame
  <2> QED
    BY <1>4, <2>1 DEF DepositAndCreateOutboxEvent
<1> QED
  BY <1>1, <1>2, <1>3, <1>4 DEF Next

(* Appending a row for d adds one element to the rows of d, and none to the
   rows of the others. *)
LEMMA RowsCounted ==
    ASSUME txOutbox \in Seq(Deposit), NEW d \in Deposit, AppendTxRow(d),
           NEW e \in Deposit
    PROVE  /\ IsFiniteSet(RowsOf(e))
           /\ e # d => RowsOf(e)' = RowsOf(e)
           /\ Cardinality(RowsOf(d)') = Cardinality(RowsOf(d)) + 1
<1>1. /\ Len(txOutbox) \in Nat /\ Len(txOutbox') = Len(txOutbox) + 1
      /\ \A i \in 1 .. Len(txOutbox) : txOutbox'[i] = txOutbox[i]
      /\ txOutbox'[Len(txOutbox) + 1] = d
  BY TxRowAppended
<1>2. \A f \in Deposit : IsFiniteSet(RowsOf(f))
  <2>1. IsFiniteSet(1 .. Len(txOutbox))
    BY <1>1, FS_Interval
  <2>2. \A f \in Deposit : RowsOf(f) \in SUBSET (1 .. Len(txOutbox))
    BY DEF RowsOf
  <2> QED
    BY <2>1, <2>2, FS_Subset
<1>3. e # d => RowsOf(e)' = RowsOf(e)
  BY <1>1 DEF RowsOf
<1>4. /\ RowsOf(d)' = RowsOf(d) \cup {Len(txOutbox) + 1}
      /\ Len(txOutbox) + 1 \notin RowsOf(d)
  BY <1>1 DEF RowsOf
<1>5. Cardinality(RowsOf(d)') = Cardinality(RowsOf(d)) + 1
  BY <1>2, <1>4, FS_AddElement
<1> QED
  BY <1>2, <1>3, <1>5

(* A transaction that is not confirmed has no row, so its first attempt is
   free; every later one is preceded by a counted retry. *)
LEMMA AttemptsCounted ==
    ASSUME IInv, AttemptFacts, RetryBudget, [Next]_vars
    PROVE  AttemptFacts' /\ RetryBudget'
<1>0. /\ txOutbox \in Seq(Deposit) /\ retryCount \in [Deposit -> Nat]
      /\ RowFacts /\ MaxRetry \in Nat
  BY RetryAssumption DEF IInv, TypeOK, Chain
<1>c. \A d \in Deposit : IsFiniteSet(RowsOf(d)) /\ Cardinality(RowsOf(d)) \in Nat
  <2>1. Len(txOutbox) \in Nat /\ IsFiniteSet(1 .. Len(txOutbox))
    BY <1>0, FS_Interval
  <2>2. \A d \in Deposit : RowsOf(d) \in SUBSET (1 .. Len(txOutbox))
    BY DEF RowsOf
  <2> QED
    BY <2>1, <2>2, FS_Subset, FS_CardinalityType
<1>1. CASE /\ UNCHANGED txOutbox
           /\ \A d \in Deposit : retryCount'[d] >= retryCount[d]
  <2>1. \A d \in Deposit : RowsOf(d)' = RowsOf(d)
    BY <1>1 DEF RowsOf
  <2>2. RetryBudget'
    BY <2>1 DEF RetryBudget
  <2>3. \A d \in Deposit : retryCount'[d] \in Nat
    BY NextIInv DEF IInv, TypeOK
  <2>4. AttemptFacts'
    BY <2>1, <2>3, <1>1, <1>0, <1>c DEF AttemptFacts
  <2> QED
    BY <2>2, <2>4
<1>2. ASSUME NEW d \in Deposit, status[d] = "PENDING", AppendTxRow(d),
             UNCHANGED retryCount
      PROVE  AttemptFacts' /\ RetryBudget'
  <2>1. RowsOf(d) = {}
    BY <1>0, <1>2 DEF RowFacts, RowsOf, Confirmed
  <2>2. Cardinality(RowsOf(d)') = 1
    BY <2>1, <1>0, <1>2, RowsCounted, FS_EmptySet
  <2>3. \A e \in Deposit : e # d => RowsOf(e)' = RowsOf(e)
    BY <1>0, <1>2, RowsCounted
  <2>4. AttemptFacts'
    <3>1. retryCount'[d] \in Nat
      BY <1>0, <1>2
    <3> QED
      BY <2>2, <2>3, <3>1, <1>2 DEF AttemptFacts
  <2>5. RetryBudget'
    BY <2>2, <2>3, <1>0 DEF RetryBudget
  <2> QED
    BY <2>4, <2>5
<1>3. ASSUME NEW d \in Deposit, retryCount[d] + 1 < MaxRetry, AppendTxRow(d),
             retryCount' = [retryCount EXCEPT ![d] = @ + 1]
      PROVE  AttemptFacts' /\ RetryBudget'
  <2>1. Cardinality(RowsOf(d)') = Cardinality(RowsOf(d)) + 1
    BY <1>0, <1>3, RowsCounted
  <2>2. \A e \in Deposit : e # d => RowsOf(e)' = RowsOf(e)
    BY <1>0, <1>3, RowsCounted
  <2>3. /\ retryCount[d] \in Nat /\ retryCount'[d] = retryCount[d] + 1
        /\ \A e \in Deposit : e # d => retryCount'[e] = retryCount[e]
    BY <1>0, <1>3
  <2>4. /\ Cardinality(RowsOf(d)) \in Nat
        /\ Cardinality(RowsOf(d)) <= retryCount[d] + 1
    BY <1>c DEF AttemptFacts
  <2>5. AttemptFacts'
    BY <2>1, <2>2, <2>3, <2>4 DEF AttemptFacts
  <2>6. Cardinality(RowsOf(d)') <= MaxRetry /\ MaxRetry # 0
    BY <2>1, <2>3, <2>4, <1>0, <1>3
  <2>7. RetryBudget'
    BY <2>2, <2>6 DEF RetryBudget
  <2> QED
    BY <2>5, <2>7
<1> QED
  BY <1>1, <1>2, <1>3, RowStep

(* One more key, one more credit. *)
LEMMA CreditsCounted ==
    ASSUME IInv, KeyFacts, CreditedOncePerKey, [Next]_vars
    PROVE  KeyFacts' /\ CreditedOncePerKey'
<1>0. /\ txOutbox \in Seq(Deposit) /\ credits \in [Deposit -> Nat]
      /\ Len(txOutbox) \in Nat
  BY DEF IInv, TypeOK
<1>1. CASE UNCHANGED <<credits, userProcessed>>
  <2>1. /\ Len(txOutbox') \in Nat /\ Len(txOutbox) <= Len(txOutbox')
        /\ \A i \in 1 .. Len(txOutbox) : txOutbox'[i] = txOutbox[i]
    BY RowStep, TxRowAppended, <1>0
  <2>2. KeyFacts'
    BY <1>0, <1>1, <2>1 DEF KeyFacts
  <2>3. \A d \in Deposit : KeysOf(d)' = KeysOf(d)
    BY <1>1, <2>1 DEF KeysOf, KeyFacts
  <2> QED
    BY <1>1, <2>2, <2>3 DEF CreditedOncePerKey
<1>2. ASSUME NEW i \in TxRow, DepositReady(i),
             NextDeposit(i) \notin userProcessed,
             credits' = [credits EXCEPT ![txOutbox[i]] = @ + 1],
             userProcessed' = userProcessed \cup {NextDeposit(i)},
             UNCHANGED txOutbox
      PROVE  KeyFacts' /\ CreditedOncePerKey'
  <2> DEFINE d == txOutbox[i]
             k == NextDeposit(i)
  <2>1. d \in Deposit /\ k[1] = i /\ i \in 1 .. Len(txOutbox)
    BY <1>2, ConsumableRow DEF NextDeposit
  <2> HIDE DEF k
  <2>2. KeyFacts'
    BY <1>2, <2>1, FS_AddElement DEF KeyFacts, k
  <2>3. /\ KeysOf(d)' = KeysOf(d) \cup {k} /\ k \notin KeysOf(d)
        /\ \A e \in Deposit : e # d => KeysOf(e)' = KeysOf(e)
    BY <1>2, <2>1 DEF KeysOf, k
  <2>4. IsFiniteSet(KeysOf(d))
    <3>1. KeysOf(d) \in SUBSET userProcessed
      BY DEF KeysOf
    <3> QED
      BY <3>1, FS_Subset DEF KeyFacts
  <2>5. Cardinality(KeysOf(d)') = Cardinality(KeysOf(d)) + 1
    BY <2>3, <2>4, FS_AddElement
  <2>6. \A e \in Deposit : credits'[e] = Cardinality(KeysOf(e)')
    BY <2>1, <2>3, <2>5, <1>0, <1>2 DEF CreditedOncePerKey
  <2> QED
    BY <2>2, <2>6 DEF CreditedOncePerKey
<1> QED
  BY <1>1, <1>2, CreditStep

-----------------------------------------------------------------------------
(* The saga without faults: the two services take turns.                   *)

(* The steps that are not faults. *)
CalmStep ==
    \/ \E d \in Deposit : Gateway(d) \/ Webhook(d)
    \/ (\E i \in TxRow : TxPublish(i)) \/ TxMark
    \/ (\E r \in UserRow : UserPublish(r)) \/ UserMark
    \/ \E i \in TxRow : \/ DepositToBalance(i) \/ DepositAborts(i)
                         \/ CreateOutboxEvent(i) \/ CreateOutboxEventFails(i)
    \/ \E r \in UserRow :
          ProcessingCreditingSuccess(r) \/ ProcessingCreditingFailed(r)
    \/ UNCHANGED vars

(* A behaviour that ends without faults had none, and this step is none. *)
LEMMA NoFaultYet ==
    ASSUME IInv, [Next]_vars, faults' = 0
    PROVE  faults = 0 /\ CalmStep
<1>0. faults \in Nat
  BY BoundAssumption DEF IInv, TypeOK, TxWorker!TypeOK
<1>1. ~ Fault
  BY <1>0 DEF Fault
<1>2. ~ WorkerFault
  <2>1. ~ TxWorkerFault
    BY <1>1 DEF TxWorkerFault, TxWorker!Forget, TxWorker!PublishUnconfirmed,
       TxWorker!Fault, Fault
  <2>2. ~ UserWorkerFault
    BY <1>1 DEF UserWorkerFault, UserWorker!Forget,
       UserWorker!PublishUnconfirmed, UserWorker!Fault, Fault
  <2> QED
    BY <2>1, <2>2 DEF WorkerFault
<1>3. \A i \in TxRow : /\ ~ DepositThenCrash(i) /\ ~ DepositUnacknowledged(i)
                       /\ ~ RedeliverDeposit(i)
  BY <1>1 DEF DepositThenCrash, DepositUnacknowledged, RedeliverDeposit
<1>4. \A r \in UserRow : /\ ~ RecreateAfterStaleCheck(r) /\ ~ DropReply(r)
                         /\ ~ RedeliverReply(r)
  BY <1>1 DEF RecreateAfterStaleCheck, DropReply, RedeliverReply
<1>5. CalmStep
  BY <1>2, <1>3, <1>4 DEF Next, Worker, UserConsumer, TxConsumer, CalmStep
<1>6. UNCHANGED faults
  <2>1. CASE \E d \in Deposit : Gateway(d) \/ Webhook(d)
    BY <2>1 DEF Gateway, Webhook, CreatePayment, CreateTransaction,
       ConcludePayment, WebhookSucceeded, WebhookCanceled
  <2>2. CASE \/ (\E i \in TxRow : TxPublish(i)) \/ TxMark
             \/ (\E r \in UserRow : UserPublish(r)) \/ UserMark
    BY <2>2 DEF TxPublish, TxMark, UserPublish, UserMark, TxWorker!Publish,
       TxWorker!Mark, UserWorker!Publish, UserWorker!Mark
  <2>3. CASE \E i \in TxRow : \/ DepositToBalance(i) \/ DepositAborts(i)
                              \/ CreateOutboxEvent(i) \/ CreateOutboxEventFails(i)
    BY <2>3 DEF DepositToBalance, DepositAborts, CreateOutboxEvent,
       CreateOutboxEventFails
  <2>4. CASE \E r \in UserRow :
                ProcessingCreditingSuccess(r) \/ ProcessingCreditingFailed(r)
    BY <2>4 DEF ProcessingCreditingSuccess, ProcessingCreditingFailed, TxFrame
  <2>5. CASE UNCHANGED vars
    BY <2>5 DEF vars
  <2> QED
    BY <1>5, <2>1, <2>2, <2>3, <2>4, <2>5 DEF CalmStep
<1> QED
  BY <1>5, <1>6

(* Without faults a row that was published waits to be marked or is marked, so
   it is never published again, and the only copy to handle is the first. *)
LEMMA PublishedOnceKept ==
    ASSUME IInv, PublishedOnce, CalmStep
    PROVE  PublishedOnce'
<1>0. /\ txSent \in [TxRow -> Nat] /\ userSent \in [UserRow -> Nat]
      /\ txRead \in [TxRow -> Nat] /\ failing \subseteq TxRow \X Nat
  BY DEF IInv, TypeOK, TxWorker!TypeOK, UserWorker!TypeOK, TxWorker!Row,
     UserWorker!Row, TxRow, UserRow
<1>1. ASSUME UNCHANGED <<txOutboxVars, userOutboxVars>>, failing' \subseteq failing
      PROVE  PublishedOnce'
  BY <1>1 DEF PublishedOnce, txOutboxVars, userOutboxVars
<1>2. CASE \E d \in Deposit : Gateway(d) \/ Webhook(d)
  BY <1>1, <1>2 DEF Gateway, Webhook, CreatePayment, CreateTransaction,
     ConcludePayment, WebhookSucceeded, WebhookCanceled, userVars
<1>3. ASSUME NEW i \in TxRow, TxPublish(i) PROVE PublishedOnce'
  <2>1. /\ i \notin txMarked \cup txAwaiting
        /\ txSent' = [txSent EXCEPT ![i] = @ + 1]
        /\ txAwaiting' = txAwaiting \cup {i}
        /\ UNCHANGED <<txMarked, userMarked, userAwaiting, userSent, failing>>
    BY <1>3 DEF TxPublish, TxWorker!Publish, TxWorker!Publishable,
       TxWorkerFrame, userOutboxVars, userVars
  <2>2. txSent[i] = 0
    BY <2>1, <1>0 DEF PublishedOnce
  <2> QED
    BY <2>1, <2>2, <1>0 DEF PublishedOnce
<1>4. ASSUME NEW r \in UserRow, UserPublish(r) PROVE PublishedOnce'
  <2>1. /\ r \notin userMarked \cup userAwaiting
        /\ userSent' = [userSent EXCEPT ![r] = @ + 1]
        /\ userAwaiting' = userAwaiting \cup {r}
        /\ UNCHANGED <<userMarked, txMarked, txAwaiting, txSent, failing>>
    BY <1>4 DEF UserPublish, UserWorker!Publish, UserWorker!Publishable,
       UserWorkerFrame, txOutboxVars, userVars
  <2>2. userSent[r] = 0
    BY <2>1, <1>0 DEF PublishedOnce
  <2> QED
    BY <2>1, <2>2, <1>0 DEF PublishedOnce
<1>5. CASE TxMark
  BY <1>5 DEF TxMark, TxWorker!Mark, TxWorkerFrame, userOutboxVars, userVars,
     PublishedOnce
<1>6. CASE UserMark
  BY <1>6 DEF UserMark, UserWorker!Mark, UserWorkerFrame, txOutboxVars,
     userVars, PublishedOnce
<1>7. ASSUME NEW i \in TxRow,
             \/ DepositToBalance(i) \/ CreateOutboxEvent(i)
             \/ CreateOutboxEventFails(i)
      PROVE  PublishedOnce'
  BY <1>1, <1>7 DEF DepositToBalance, CreateOutboxEvent,
     CreateOutboxEventFails, UserFrame
<1>8. ASSUME NEW i \in TxRow, DepositAborts(i) PROVE PublishedOnce'
  <2>1. NextDeposit(i)[2] = 1
    BY <1>0, <1>8 DEF DepositAborts, DepositReady, NextDeposit, PublishedOnce
  <2> QED
    BY <2>1, <1>8 DEF DepositAborts, UserFrame, PublishedOnce, txOutboxVars,
       userOutboxVars
<1>9. ASSUME NEW r \in UserRow,
             ProcessingCreditingSuccess(r) \/ ProcessingCreditingFailed(r)
      PROVE  PublishedOnce'
  BY <1>1, <1>9 DEF ProcessingCreditingSuccess, ProcessingCreditingFailed,
     TxFrame, userVars
<1>10. CASE UNCHANGED vars
  BY <1>1, <1>10 DEF vars, userVars
<1> QED
  BY <1>2, <1>3, <1>4, <1>5, <1>6, <1>7, <1>8, <1>9, <1>10 DEF CalmStep

Turns == RowHasTheTurn /\ ReplyHasTheTurn /\ ExactlyOnce

(* Rows and replies are numbered within their bounds and are about deposits. *)
LEMMA PendingTypes ==
    ASSUME IInv
    PROVE  /\ Len(txOutbox) \in Nat /\ Len(userOutbox) \in Nat
           /\ \A i \in 1 .. Len(txOutbox) : i \in TxRow /\ txOutbox[i] \in Deposit
           /\ \A r \in 1 .. Len(userOutbox) :
                 /\ r \in UserRow
                 /\ userOutbox[r].deposit \in Deposit
                 /\ userOutbox[r].topic \in
                       {"DEPOSIT_CREDITING_SUCCESS", "DEPOSIT_CREDITING_FAILED"}
           /\ txRead \in [TxRow -> Nat] /\ userRead \in [UserRow -> Nat]
           /\ credits \in [Deposit -> Nat]
           /\ status \in [Deposit -> TransactionStatus]
<1>1. /\ txOutbox \in Seq(Deposit) /\ Len(txOutbox) <= MaxTxRows
      /\ userOutbox \in Seq(Reply) /\ Len(userOutbox) <= MaxUserRows
  BY DEF IInv, TypeOK
<1>2. \A r \in 1 .. Len(userOutbox) : userOutbox[r] \in Reply
  BY <1>1
<1>3. \A r \in 1 .. Len(userOutbox) :
         /\ r \in UserRow
         /\ userOutbox[r].deposit \in Deposit
         /\ userOutbox[r].topic \in
               {"DEPOSIT_CREDITING_SUCCESS", "DEPOSIT_CREDITING_FAILED"}
  BY <1>1, <1>2, BoundAssumption DEF Reply, UserRow
<1>4. \A i \in 1 .. Len(txOutbox) : i \in TxRow /\ txOutbox[i] \in Deposit
  BY <1>1, BoundAssumption DEF TxRow
<1> QED
  BY <1>1, <1>3, <1>4 DEF IInv, TypeOK

(* A step that touches no row, reply or credit, and no deposit that is
   COMPLETED, disturbs nobody's turn. *)
LEMMA QuietMove ==
    ASSUME IInv, Turns,
           UNCHANGED <<txOutbox, userOutbox, txRead, userRead, credits>>,
           \A d \in Deposit : /\ status[d] = "COMPLETED" => status'[d] = "COMPLETED"
                              /\ status'[d] = "FAILED" => status[d] = "FAILED"
    PROVE  Turns'
<1>1. RowHasTheTurn'
  BY PendingTypes DEF Turns, RowHasTheTurn, PendingRow, PendingReply
<1>2. ReplyHasTheTurn'
  BY PendingTypes DEF Turns, ReplyHasTheTurn, PendingReply
<1> QED
  BY <1>1, <1>2 DEF Turns, ExactlyOnce

(* The webhook gives the first turn, to a row: a PENDING transaction has none
   yet, and no credit. *)
LEMMA WebhookMove ==
    ASSUME IInv, Turns, NEW d \in Deposit, WebhookSucceeded(d)
    PROVE  Turns'
<1>0. /\ status[d] = "PENDING" /\ status' = [status EXCEPT ![d] = "COMPLETED"]
      /\ AppendTxRow(d)
      /\ UNCHANGED <<userOutbox, txRead, userRead, credits>>
  BY DEF WebhookSucceeded, userVars
<1>1. /\ Len(txOutbox') = Len(txOutbox) + 1
      /\ \A i \in 1 .. Len(txOutbox) : txOutbox'[i] = txOutbox[i]
      /\ txOutbox'[Len(txOutbox) + 1] = d
  BY <1>0, TxRowAppended DEF IInv, TypeOK
<1>2. /\ \A i \in 1 .. Len(txOutbox) : txOutbox[i] # d
      /\ \A r \in 1 .. Len(userOutbox) : userOutbox[r].deposit # d
      /\ credits[d] = 0
  <2>1. RowFacts /\ ReplyFacts /\ DepositFacts
    BY DEF IInv, Chain
  <2>2. credits[d] \in Nat /\ ~(credits[d] > 0)
    BY <1>0, <2>1, PendingTypes DEF DepositFacts, Confirmed
  <2> QED
    BY <1>0, <2>1, <2>2 DEF RowFacts, ReplyFacts, Confirmed
<1>3. \A e \in Deposit : status'[e] = IF e = d THEN "COMPLETED" ELSE status[e]
  BY <1>0, PendingTypes
<1>p. \A i \in TxRow : PendingRow(i)' =>
         \/ i = Len(txOutbox) + 1
         \/ PendingRow(i) /\ txOutbox'[i] = txOutbox[i] /\ txOutbox[i] # d
  BY <1>0, <1>1, <1>2, PendingTypes DEF PendingRow
<1>q. \A r \in UserRow : PendingReply(r)' =>
         /\ PendingReply(r) /\ userOutbox'[r] = userOutbox[r]
         /\ userOutbox[r].deposit # d
  BY <1>0, <1>2 DEF PendingReply
<1>4. RowHasTheTurn'
  <2> SUFFICES ASSUME NEW i \in TxRow, PendingRow(i)'
               PROVE  /\ status'[txOutbox'[i]] = "COMPLETED"
                      /\ credits'[txOutbox'[i]] = 0
                      /\ \A j \in TxRow : PendingRow(j)' /\ txOutbox'[j] = txOutbox'[i]
                            => j = i
                      /\ \A r \in UserRow :
                            PendingReply(r)' => userOutbox'[r].deposit # txOutbox'[i]
    BY DEF RowHasTheTurn
  <2>1. CASE i = Len(txOutbox) + 1
    BY <2>1, <1>0, <1>1, <1>2, <1>3, <1>p, <1>q
  <2>2. CASE i # Len(txOutbox) + 1
    <3>1. /\ PendingRow(i) /\ txOutbox'[i] = txOutbox[i]
          /\ txOutbox[i] # d /\ txOutbox[i] \in Deposit
      BY <2>2, <1>p, PendingTypes DEF PendingRow
    <3>2. \A j \in TxRow : PendingRow(j)' /\ txOutbox'[j] = txOutbox'[i] => j = i
      BY <3>1, <1>1, <1>p DEF Turns, RowHasTheTurn
    <3>3. \A r \in UserRow : PendingReply(r)' => userOutbox'[r].deposit # txOutbox'[i]
      BY <3>1, <1>q DEF Turns, RowHasTheTurn
    <3> QED
      BY <3>1, <3>2, <3>3, <1>0, <1>3 DEF Turns, RowHasTheTurn
  <2> QED
    BY <2>1, <2>2
<1>5. ReplyHasTheTurn'
  BY <1>0, <1>3, <1>q, PendingTypes DEF Turns, ReplyHasTheTurn, PendingReply
<1> QED
  BY <1>0, <1>3, <1>4, <1>5 DEF Turns, ExactlyOnce

(* user-service takes its turn: the row is consumed, and a reply appended
   that says whether the deposit was credited. *)
LEMMA RowMove ==
    ASSUME IInv, Turns, NEW i \in TxRow, PendingRow(i),
           txRead' = [txRead EXCEPT ![i] = @ + 1],
           UNCHANGED <<status, txOutbox, userRead>>,
           \/ UNCHANGED <<credits, userOutbox>>
           \/ /\ UNCHANGED credits
              /\ AppendUserRow("DEPOSIT_CREDITING_FAILED", txOutbox[i])
           \/ /\ credits' = [credits EXCEPT ![txOutbox[i]] = @ + 1]
              /\ AppendUserRow("DEPOSIT_CREDITING_SUCCESS", txOutbox[i])
    PROVE  Turns'
<1> DEFINE d == txOutbox[i]
<1>1. /\ d \in Deposit /\ status[d] = "COMPLETED" /\ credits[d] = 0
      /\ \A j \in TxRow : PendingRow(j) /\ txOutbox[j] = d => j = i
      /\ \A r \in UserRow : PendingReply(r) => userOutbox[r].deposit # d
  BY PendingTypes DEF Turns, RowHasTheTurn, PendingRow
<1>2. \A j \in TxRow : PendingRow(j)' => PendingRow(j) /\ txOutbox[j] # d
  BY <1>1, PendingTypes DEF PendingRow
<1>3. /\ \A e \in Deposit : e # d => credits'[e] = credits[e]
      /\ credits'[d] <= 1
  BY <1>1, PendingTypes
<1>4. \A r \in UserRow : PendingReply(r)' =>
         \/ PendingReply(r) /\ userOutbox'[r] = userOutbox[r]
         \/ /\ r = Len(userOutbox) + 1 /\ userOutbox'[r].deposit = d
            /\ userOutbox'[r].topic = "DEPOSIT_CREDITING_FAILED" => credits'[d] = 0
  <2>1. CASE UNCHANGED userOutbox
    BY <2>1 DEF PendingReply
  <2>2. ASSUME NEW topic \in {"DEPOSIT_CREDITING_SUCCESS", "DEPOSIT_CREDITING_FAILED"},
               AppendUserRow(topic, d),
               topic = "DEPOSIT_CREDITING_FAILED" => UNCHANGED credits
        PROVE  \A r \in UserRow : PendingReply(r)' =>
                  \/ PendingReply(r) /\ userOutbox'[r] = userOutbox[r]
                  \/ /\ r = Len(userOutbox) + 1 /\ userOutbox'[r].deposit = d
                     /\ userOutbox'[r].topic = "DEPOSIT_CREDITING_FAILED"
                           => credits'[d] = 0
    <3>1. /\ Len(userOutbox') = Len(userOutbox) + 1
          /\ \A r \in 1 .. Len(userOutbox) : userOutbox'[r] = userOutbox[r]
          /\ userOutbox'[Len(userOutbox) + 1] = [topic |-> topic, deposit |-> d]
      BY <2>2, <1>1, UserRowAppended DEF IInv, TypeOK
    <3> HIDE DEF d
    <3> SUFFICES ASSUME NEW r \in UserRow, PendingReply(r)'
                 PROVE  \/ PendingReply(r) /\ userOutbox'[r] = userOutbox[r]
                        \/ /\ r = Len(userOutbox) + 1 /\ userOutbox'[r].deposit = d
                           /\ userOutbox'[r].topic = "DEPOSIT_CREDITING_FAILED"
                                 => credits'[d] = 0
      OBVIOUS
    <3>2. CASE r = Len(userOutbox) + 1
      BY <3>1, <3>2, <2>2, <1>1
    <3>3. CASE r # Len(userOutbox) + 1
      BY <3>1, <3>3, PendingTypes DEF PendingReply
    <3> QED
      BY <3>2, <3>3
  <2> QED
    BY <2>1, <2>2
<1> HIDE DEF d
<1>5. RowHasTheTurn'
  <2> SUFFICES ASSUME NEW j \in TxRow, PendingRow(j)'
               PROVE  /\ status'[txOutbox'[j]] = "COMPLETED"
                      /\ credits'[txOutbox'[j]] = 0
                      /\ \A k \in TxRow : PendingRow(k)' /\ txOutbox'[k] = txOutbox'[j]
                            => k = j
                      /\ \A r \in UserRow :
                            PendingReply(r)' => userOutbox'[r].deposit # txOutbox'[j]
    BY DEF RowHasTheTurn
  <2>1. PendingRow(j) /\ txOutbox[j] # d /\ txOutbox[j] \in Deposit
    BY <1>2, PendingTypes DEF PendingRow
  <2>2. \A k \in TxRow : PendingRow(k)' /\ txOutbox'[k] = txOutbox'[j] => k = j
    BY <2>1, <1>2 DEF Turns, RowHasTheTurn
  <2>3. \A r \in UserRow : PendingReply(r)' => userOutbox'[r].deposit # txOutbox'[j]
    BY <2>1, <1>4 DEF Turns, RowHasTheTurn
  <2> QED
    BY <2>1, <2>2, <2>3, <1>3 DEF Turns, RowHasTheTurn
<1>6. ReplyHasTheTurn'
  <2> SUFFICES ASSUME NEW r \in UserRow, PendingReply(r)'
               PROVE  LET e == userOutbox'[r].deposit IN
                      /\ status'[e] = "COMPLETED"
                      /\ userOutbox'[r].topic = "DEPOSIT_CREDITING_FAILED"
                            => credits'[e] = 0
                      /\ \A q \in UserRow :
                            PendingReply(q)' /\ userOutbox'[q].deposit = e => q = r
    BY DEF ReplyHasTheTurn
  <2>1. CASE PendingReply(r) /\ userOutbox'[r] = userOutbox[r]
    <3>1. userOutbox[r].deposit \in Deposit /\ userOutbox[r].deposit # d
      BY <2>1, <1>1, PendingTypes DEF PendingReply
    <3>2. \A q \in UserRow :
             PendingReply(q)' /\ userOutbox'[q].deposit = userOutbox[r].deposit => q = r
      BY <2>1, <3>1, <1>4 DEF Turns, ReplyHasTheTurn
    <3> QED
      BY <2>1, <3>1, <3>2, <1>3 DEF Turns, ReplyHasTheTurn
  <2>2. CASE /\ r = Len(userOutbox) + 1 /\ userOutbox'[r].deposit = d
             /\ userOutbox'[r].topic = "DEPOSIT_CREDITING_FAILED" => credits'[d] = 0
    BY <2>2, <1>1, <1>4
  <2> QED
    BY <2>1, <2>2, <1>4
<1>7. ExactlyOnce'
  BY <1>1, <1>3 DEF Turns, ExactlyOnce
<1> QED
  BY <1>5, <1>6, <1>7 DEF Turns

(* transaction-service takes its turn: the reply is consumed and ends the
   transaction, or gives the next turn to a retry row. *)
LEMMA ReplyMove ==
    ASSUME IInv, Turns, NEW r \in UserRow, PendingReply(r),
           userRead' = [userRead EXCEPT ![r] = @ + 1],
           UNCHANGED <<userOutbox, txRead, credits>>,
           LET d == userOutbox[r].deposit IN
           \/ UNCHANGED <<status, txOutbox>>
           \/ UNCHANGED txOutbox /\ status' = [status EXCEPT ![d] = "BALANCE_UPDATED"]
           \/ /\ userOutbox[r].topic = "DEPOSIT_CREDITING_FAILED"
              /\ \/ UNCHANGED status /\ AppendTxRow(d)
                 \/ UNCHANGED txOutbox /\ status' = [status EXCEPT ![d] = "FAILED"]
    PROVE  Turns'
<1> DEFINE d == userOutbox[r].deposit
<1>1. /\ d \in Deposit /\ status[d] = "COMPLETED"
      /\ userOutbox[r].topic = "DEPOSIT_CREDITING_FAILED" => credits[d] = 0
      /\ \A q \in UserRow : PendingReply(q) /\ userOutbox[q].deposit = d => q = r
      /\ \A j \in TxRow : PendingRow(j) => txOutbox[j] # d
  BY PendingTypes DEF Turns, RowHasTheTurn, ReplyHasTheTurn, PendingReply
<1>2. \A q \in UserRow : PendingReply(q)' =>
         PendingReply(q) /\ userOutbox'[q] = userOutbox[q] /\ userOutbox[q].deposit # d
  BY <1>1, PendingTypes DEF PendingReply
<1>3. /\ \A e \in Deposit : e # d => status'[e] = status[e]
      /\ status'[d] = "FAILED" => credits[d] = 0
  BY <1>1, PendingTypes
<1>4. \A j \in TxRow : PendingRow(j)' =>
         \/ PendingRow(j) /\ txOutbox'[j] = txOutbox[j]
         \/ /\ j = Len(txOutbox) + 1 /\ txOutbox'[j] = d
            /\ credits[d] = 0 /\ UNCHANGED status
  <2>1. CASE UNCHANGED txOutbox
    BY <2>1 DEF PendingRow
  <2>2. CASE /\ userOutbox[r].topic = "DEPOSIT_CREDITING_FAILED"
             /\ UNCHANGED status /\ AppendTxRow(d)
    <3>1. /\ Len(txOutbox') = Len(txOutbox) + 1
          /\ \A i \in 1 .. Len(txOutbox) : txOutbox'[i] = txOutbox[i]
          /\ txOutbox'[Len(txOutbox) + 1] = d
      BY <2>2, <1>1, TxRowAppended DEF IInv, TypeOK
    <3> HIDE DEF d
    <3> SUFFICES ASSUME NEW j \in TxRow, PendingRow(j)'
                 PROVE  \/ PendingRow(j) /\ txOutbox'[j] = txOutbox[j]
                        \/ /\ j = Len(txOutbox) + 1 /\ txOutbox'[j] = d
                           /\ credits[d] = 0 /\ UNCHANGED status
      OBVIOUS
    <3>2. CASE j = Len(txOutbox) + 1
      BY <3>1, <3>2, <2>2, <1>1
    <3>3. CASE j # Len(txOutbox) + 1
      BY <3>1, <3>3, PendingTypes DEF PendingRow
    <3> QED
      BY <3>2, <3>3
  <2> QED
    BY <2>1, <2>2
<1> HIDE DEF d
<1>5. RowHasTheTurn'
  <2> SUFFICES ASSUME NEW j \in TxRow, PendingRow(j)'
               PROVE  /\ status'[txOutbox'[j]] = "COMPLETED"
                      /\ credits'[txOutbox'[j]] = 0
                      /\ \A k \in TxRow : PendingRow(k)' /\ txOutbox'[k] = txOutbox'[j]
                            => k = j
                      /\ \A q \in UserRow :
                            PendingReply(q)' => userOutbox'[q].deposit # txOutbox'[j]
    BY DEF RowHasTheTurn
  <2>1. CASE PendingRow(j) /\ txOutbox'[j] = txOutbox[j]
    <3>1. txOutbox[j] # d /\ txOutbox[j] \in Deposit
      BY <2>1, <1>1, PendingTypes DEF PendingRow
    <3>2. \A k \in TxRow : PendingRow(k)' /\ txOutbox'[k] = txOutbox'[j] => k = j
      BY <2>1, <3>1, <1>4 DEF Turns, RowHasTheTurn
    <3>3. \A q \in UserRow : PendingReply(q)' => userOutbox'[q].deposit # txOutbox'[j]
      BY <2>1, <1>2 DEF Turns, RowHasTheTurn
    <3> QED
      BY <2>1, <3>1, <3>2, <3>3, <1>3 DEF Turns, RowHasTheTurn
  <2>2. CASE /\ j = Len(txOutbox) + 1 /\ txOutbox'[j] = d
             /\ credits[d] = 0 /\ UNCHANGED status
    <3>1. \A k \in TxRow : PendingRow(k)' /\ txOutbox'[k] = d => k = j
      BY <2>2, <1>1, <1>4
    <3>2. \A q \in UserRow : PendingReply(q)' => userOutbox'[q].deposit # d
      BY <1>2
    <3> QED
      BY <2>2, <3>1, <3>2, <1>1
  <2> QED
    BY <2>1, <2>2, <1>4
<1>6. ReplyHasTheTurn'
  <2> SUFFICES ASSUME NEW q \in UserRow, PendingReply(q)'
               PROVE  LET e == userOutbox'[q].deposit IN
                      /\ status'[e] = "COMPLETED"
                      /\ userOutbox'[q].topic = "DEPOSIT_CREDITING_FAILED"
                            => credits'[e] = 0
                      /\ \A p \in UserRow :
                            PendingReply(p)' /\ userOutbox'[p].deposit = e => p = q
    BY DEF ReplyHasTheTurn
  <2>1. /\ PendingReply(q) /\ userOutbox'[q] = userOutbox[q]
        /\ userOutbox[q].deposit # d /\ userOutbox[q].deposit \in Deposit
    BY <1>2, PendingTypes DEF PendingReply
  <2>2. \A p \in UserRow :
           PendingReply(p)' /\ userOutbox'[p].deposit = userOutbox[q].deposit => p = q
    BY <2>1, <1>2 DEF Turns, ReplyHasTheTurn
  <2> QED
    BY <2>1, <2>2, <1>3 DEF Turns, ReplyHasTheTurn
<1>7. ExactlyOnce'
  BY <1>1, <1>3 DEF Turns, ExactlyOnce
<1> QED
  BY <1>5, <1>6, <1>7 DEF Turns

(* Every step without faults is one of the moves above. *)
LEMMA TurnsKept ==
    ASSUME IInv, PublishedOnce, Turns, CalmStep
    PROVE  Turns'
<1>0. /\ txSent \in [TxRow -> Nat] /\ userSent \in [UserRow -> Nat]
      /\ txRead \in [TxRow -> Nat] /\ userRead \in [UserRow -> Nat]
      /\ status \in [Deposit -> TransactionStatus]
  BY DEF IInv, TypeOK, TxWorker!TypeOK, UserWorker!TypeOK, TxWorker!Row,
     UserWorker!Row, TxRow, UserRow
<1>1. ASSUME UNCHANGED <<status, txOutbox, userOutbox, txRead, userRead, credits>>
      PROVE  Turns'
  BY <1>1, QuietMove
<1>2. ASSUME NEW i \in TxRow, DepositReady(i) \/ NextDeposit(i) \in failing
      PROVE  PendingRow(i)
  <2>1. i \in 1 .. Len(txOutbox)
    BY <1>2, ConsumableRow
  <2>2. txRead[i] = 0
    BY <1>0, <1>2 DEF DepositReady, NextDeposit, PublishedOnce
  <2> QED
    BY <2>1, <2>2 DEF PendingRow
<1>3. ASSUME NEW r \in UserRow, userRead[r] < userSent[r]
      PROVE  PendingReply(r)
  <2>1. r \in 1 .. Len(userOutbox)
    BY <1>3, ConsumableReply
  <2>2. userRead[r] = 0
    BY <1>0, <1>3 DEF PublishedOnce
  <2> QED
    BY <2>1, <2>2 DEF PendingReply
<1>4. ASSUME NEW d \in Deposit, Gateway(d) \/ WebhookCanceled(d) PROVE Turns'
  <2>1. /\ UNCHANGED <<txOutbox, userOutbox, txRead, userRead, credits>>
        /\ \/ UNCHANGED status
           \/ status[d] = "NONE" /\ status' = [status EXCEPT ![d] = "PENDING"]
           \/ status[d] = "PENDING" /\ status' = [status EXCEPT ![d] = "TIMEOUT"]
    BY <1>4 DEF Gateway, CreatePayment, CreateTransaction, ConcludePayment,
       WebhookCanceled, userVars
  <2>2. \A e \in Deposit : /\ status[e] = "COMPLETED" => status'[e] = "COMPLETED"
                           /\ status'[e] = "FAILED" => status[e] = "FAILED"
    BY <2>1, <1>0
  <2> QED
    BY <2>1, <2>2, QuietMove
<1>5. ASSUME NEW d \in Deposit, WebhookSucceeded(d) PROVE Turns'
  BY <1>5, WebhookMove
<1>6. CASE \/ (\E i \in TxRow : TxPublish(i)) \/ TxMark
           \/ (\E r \in UserRow : UserPublish(r)) \/ UserMark
  BY <1>6, <1>1 DEF TxPublish, TxMark, UserPublish, UserMark, TxWorkerFrame,
     UserWorkerFrame, txVars, userVars
<1>7. ASSUME NEW i \in TxRow, DepositToBalance(i) PROVE Turns'
  <2>1. /\ DepositReady(i) /\ txRead' = [txRead EXCEPT ![i] = @ + 1]
        /\ UNCHANGED <<status, txOutbox, userRead>>
        /\ \/ UNCHANGED <<credits, userOutbox>>
           \/ /\ credits' = [credits EXCEPT ![txOutbox[i]] = @ + 1]
              /\ AppendUserRow("DEPOSIT_CREDITING_SUCCESS", txOutbox[i])
    BY <1>7 DEF DepositToBalance, DepositAndCreateOutboxEvent, UserFrame, txVars
  <2> QED
    BY <2>1, <1>2, RowMove
<1>8. ASSUME NEW i \in TxRow, CreateOutboxEvent(i) PROVE Turns'
  <2>1. /\ NextDeposit(i) \in failing /\ txRead' = [txRead EXCEPT ![i] = @ + 1]
        /\ UNCHANGED <<status, txOutbox, userRead, credits>>
        /\ AppendUserRow("DEPOSIT_CREDITING_FAILED", txOutbox[i])
    BY <1>8 DEF CreateOutboxEvent, UserFrame, txVars
  <2> QED
    BY <2>1, <1>2, RowMove
<1>9. ASSUME NEW i \in TxRow, DepositAborts(i) \/ CreateOutboxEventFails(i)
      PROVE  Turns'
  BY <1>9, <1>1 DEF DepositAborts, CreateOutboxEventFails, UserFrame, txVars
<1>10. ASSUME NEW r \in UserRow, ProcessingCreditingSuccess(r) PROVE Turns'
  <2>1. /\ userRead[r] < userSent[r] /\ userRead' = [userRead EXCEPT ![r] = @ + 1]
        /\ UNCHANGED <<userOutbox, txRead, credits, txOutbox>>
        /\ \/ UNCHANGED status
           \/ status' = [status EXCEPT ![userOutbox[r].deposit] = "BALANCE_UPDATED"]
    BY <1>10 DEF ProcessingCreditingSuccess, ReplyReady, TxFrame, userVars
  <2> QED
    BY <2>1, <1>3, ReplyMove
<1>11. ASSUME NEW r \in UserRow, ProcessingCreditingFailed(r) PROVE Turns'
  <2>1. /\ userRead[r] < userSent[r] /\ userRead' = [userRead EXCEPT ![r] = @ + 1]
        /\ userOutbox[r].topic = "DEPOSIT_CREDITING_FAILED"
        /\ UNCHANGED <<userOutbox, txRead, credits>>
        /\ \/ UNCHANGED <<status, txOutbox>>
           \/ UNCHANGED status /\ AppendTxRow(userOutbox[r].deposit)
           \/ /\ UNCHANGED txOutbox
              /\ status' = [status EXCEPT ![userOutbox[r].deposit] = "FAILED"]
    BY <1>11 DEF ProcessingCreditingFailed, ReplyReady, RecreateOutboxEvent,
       TxFrame, userVars
  <2> QED
    BY <2>1, <1>3, ReplyMove
<1>12. CASE UNCHANGED vars
  BY <1>12, <1>1 DEF vars, txVars, userVars
<1> QED
  BY <1>4, <1>5, <1>6, <1>7, <1>8, <1>9, <1>10, <1>11, <1>12
     DEF CalmStep, Webhook

-----------------------------------------------------------------------------
(* The invariant with the counts and the turns.                            *)

(* It holds initially: there is nothing to count and nothing pending. *)
LEMMA InitSagaInv == Init => SagaInv
<1> SUFFICES ASSUME Init PROVE SagaInv
  OBVIOUS
<1>1. IInv
  BY InitIInv
<1>2. /\ userProcessed = {} /\ Len(txOutbox) = 0 /\ Len(userOutbox) = 0
      /\ credits = [d \in Deposit |-> 0] /\ failing = {}
      /\ status = [d \in Deposit |-> "NONE"]
      /\ retryCount = [d \in Deposit |-> 0]
  BY DEF Init
<1>3. KeyFacts
  BY <1>2, FS_EmptySet DEF KeyFacts
<1>4. CreditedOncePerKey
  <2>1. \A d \in Deposit : KeysOf(d) = {}
    BY <1>2 DEF KeysOf
  <2> QED
    BY <2>1, <1>2, FS_EmptySet DEF CreditedOncePerKey
<1>5. AttemptFacts /\ RetryBudget
  <2>1. \A d \in Deposit : RowsOf(d) = {}
    BY <1>2 DEF RowsOf
  <2>2. \A d \in Deposit : Cardinality(RowsOf(d)) = 0
    BY <2>1, FS_EmptySet
  <2> QED
    BY <2>2, <1>2, RetryAssumption DEF AttemptFacts, RetryBudget
<1>6. PublishedOnce
  BY <1>2 DEF Init, TxWorker!Init, UserWorker!Init, TxWorker!Row,
     UserWorker!Row, TxRow, UserRow, PublishedOnce
<1>7. RowHasTheTurn /\ ReplyHasTheTurn
  BY <1>2 DEF RowHasTheTurn, ReplyHasTheTurn, PendingRow, PendingReply
<1>8. ExactlyOnceWithoutFaults
  BY <1>2 DEF ExactlyOnceWithoutFaults, ExactlyOnce
<1> QED
  BY <1>1, <1>3, <1>4, <1>5, <1>6, <1>7, <1>8 DEF SagaInv

(* Every action preserves it. *)
LEMMA NextSagaInv == SagaInv /\ [Next]_vars => SagaInv'
<1> SUFFICES ASSUME SagaInv, [Next]_vars PROVE SagaInv'
  OBVIOUS
<1>1. IInv /\ IInv'
  BY NextIInv DEF SagaInv
<1>2. KeyFacts' /\ CreditedOncePerKey'
  BY <1>1, CreditsCounted DEF SagaInv
<1>3. AttemptFacts' /\ RetryBudget'
  BY <1>1, AttemptsCounted DEF SagaInv
<1>4. ASSUME faults' = 0
      PROVE  PublishedOnce' /\ Turns'
  <2>1. faults = 0 /\ CalmStep
    BY <1>1, <1>4, NoFaultYet
  <2>2. PublishedOnce /\ Turns
    BY <2>1 DEF SagaInv, ExactlyOnceWithoutFaults, Turns
  <2> QED
    BY <1>1, <2>1, <2>2, PublishedOnceKept, TurnsKept
<1> QED
  BY <1>1, <1>2, <1>3, <1>4 DEF SagaInv, ExactlyOnceWithoutFaults, Turns

(* The invariant with the counts and the turns holds in every reachable state. *)
THEOREM SagaInvariance == Spec => []SagaInv
<1> QED
  BY InitSagaInv, NextSagaInv, PTL DEF Spec

(* A deposit is credited exactly once for every processed key of its rows,
   whatever is redelivered, aborted or lost. *)
THEOREM CreditsMatchKeys == Spec => []CreditedOncePerKey
<1>1. SagaInv => CreditedOncePerKey
  BY DEF SagaInv
<1> QED
  BY <1>1, SagaInvariance, PTL

(* No deposit is attempted more than MaxRetry times (once, when MaxRetry is 0). *)
THEOREM RetriesAreBounded == Spec => []RetryBudget
<1>1. SagaInv => RetryBudget
  BY DEF SagaInv
<1> QED
  BY <1>1, SagaInvariance, PTL

(* Without faults every deposit is credited at most once, and a FAILED one
   never, however often a crediting aborts and is retried. *)
THEOREM CalmSagaCreditsOnce == Spec => []ExactlyOnceWithoutFaults
<1>1. SagaInv => ExactlyOnceWithoutFaults
  BY DEF SagaInv
<1> QED
  BY <1>1, SagaInvariance, PTL

-----------------------------------------------------------------------------
(* The saga works through two transactional outboxes.                      *)

TxWorkerMove ==
    TxWorkerFrame /\ (\/ \E i \in TxRow : TxWorker!Publish(i)
                      \/ TxWorker!Mark
                      \/ TxWorkerFault)
UserWorkerMove ==
    UserWorkerFrame /\ (\/ \E r \in UserRow : UserWorker!Publish(r)
                        \/ UserWorker!Mark
                        \/ UserWorkerFault)

Topics == {"DEPOSIT_CREDITING_SUCCESS", "DEPOSIT_CREDITING_FAILED"}

(* What a step may do to the number of faults. *)
FaultsStep == UNCHANGED faults \/ (faults < MaxFaults /\ faults' = faults + 1)

(* A step is one of a worker, or leaves both workers alone. *)
LEMMA WorkersAlone ==
    ASSUME [Next]_vars
    PROVE  \/ TxWorkerMove
           \/ UserWorkerMove
           \/ FaultsStep /\ UNCHANGED <<txOutboxVars, userOutboxVars>>
<1>1. ASSUME NEW d \in Deposit, Gateway(d) \/ Webhook(d)
      PROVE  FaultsStep /\ UNCHANGED <<txOutboxVars, userOutboxVars>>
  BY <1>1 DEF Gateway, CreatePayment, CreateTransaction, ConcludePayment,
     Webhook, WebhookSucceeded, WebhookCanceled, FaultsStep
<1>2. Worker => TxWorkerMove \/ UserWorkerMove
  BY DEF Worker, TxPublish, TxMark, UserPublish, UserMark, WorkerFault,
     TxWorkerMove, UserWorkerMove
<1>3. ASSUME NEW i \in TxRow, UserConsumer(i)
      PROVE  FaultsStep /\ UNCHANGED <<txOutboxVars, userOutboxVars>>
  BY <1>3 DEF UserConsumer, DepositToBalance, DepositThenCrash, DepositAborts,
     DepositUnacknowledged, CreateOutboxEvent, CreateOutboxEventFails,
     RedeliverDeposit, UserFrame, Fault, FaultsStep
<1>4. ASSUME NEW r \in UserRow, TxConsumer(r)
      PROVE  FaultsStep /\ UNCHANGED <<txOutboxVars, userOutboxVars>>
  BY <1>4 DEF TxConsumer, ProcessingCreditingSuccess, ProcessingCreditingFailed,
     RecreateAfterStaleCheck, DropReply, RedeliverReply, TxFrame, Fault,
     FaultsStep
<1>5. CASE UNCHANGED vars
  BY <1>5 DEF vars, FaultsStep
<1> QED
  BY <1>1, <1>2, <1>3, <1>4, <1>5 DEF Next

(* A step appends at most one reply, for the deposit of a row of the outbox. *)
LEMMA ReplyStep ==
    ASSUME IInv, [Next]_vars
    PROVE  \/ UNCHANGED userOutbox
           \/ \E d \in Deposit, topic \in Topics : AppendUserRow(topic, d)
<1>1. ASSUME NEW d \in Deposit, Gateway(d) \/ Webhook(d)
      PROVE  UNCHANGED userOutbox
  BY <1>1 DEF Gateway, CreatePayment, CreateTransaction, ConcludePayment,
     Webhook, WebhookSucceeded, WebhookCanceled
<1>2. Worker => UNCHANGED userOutbox
  BY DEF Worker, TxPublish, TxMark, UserPublish, UserMark, WorkerFault,
     TxWorkerFrame, UserWorkerFrame
<1>3. ASSUME NEW i \in TxRow, UserConsumer(i)
      PROVE  \/ UNCHANGED userOutbox
             \/ \E d \in Deposit, topic \in Topics : AppendUserRow(topic, d)
  <2>1. CASE DepositReady(i) \/ NextDeposit(i) \in failing
    <3>1. txOutbox[i] \in Deposit
      BY <2>1, ConsumableRow
    <3>2. DepositAndCreateOutboxEvent(i)
             => UNCHANGED userOutbox
                \/ AppendUserRow("DEPOSIT_CREDITING_SUCCESS", txOutbox[i])
      BY DEF DepositAndCreateOutboxEvent
    <3>3. \/ UNCHANGED userOutbox
          \/ AppendUserRow("DEPOSIT_CREDITING_SUCCESS", txOutbox[i])
          \/ AppendUserRow("DEPOSIT_CREDITING_FAILED", txOutbox[i])
      BY <1>3, <3>2 DEF UserConsumer, DepositToBalance, DepositThenCrash,
         DepositAborts, DepositUnacknowledged, CreateOutboxEvent,
         CreateOutboxEventFails, RedeliverDeposit
    <3> QED
      BY <3>1, <3>3 DEF Topics
  <2>2. CASE ~(DepositReady(i) \/ NextDeposit(i) \in failing)
    BY <1>3, <2>2 DEF UserConsumer, DepositToBalance, DepositThenCrash,
       DepositAborts, DepositUnacknowledged, CreateOutboxEvent,
       CreateOutboxEventFails, RedeliverDeposit
  <2> QED
    BY <2>1, <2>2
<1>4. ASSUME NEW r \in UserRow, TxConsumer(r)
      PROVE  UNCHANGED userOutbox
  BY <1>4 DEF TxConsumer, ProcessingCreditingSuccess, ProcessingCreditingFailed,
     RecreateAfterStaleCheck, DropReply, RedeliverReply, TxFrame
<1>5. CASE UNCHANGED vars
  BY <1>5 DEF vars
<1> QED
  BY <1>1, <1>2, <1>3, <1>4, <1>5 DEF Next

(* A step that leaves a worker alone commits a row, meets a fault, or does
   nothing its outbox could see. *)
LEMMA TxWorkerAlone ==
    ASSUME UNCHANGED txOutboxVars, FaultsStep, Len(txOutbox) \in Nat,
           \/ UNCHANGED txOutbox
           \/ Len(txOutbox) < MaxTxRows /\ Len(txOutbox') = Len(txOutbox) + 1
    PROVE  [TxWorker!Next]_(TxWorker!vars)
<1>1. CASE UNCHANGED txOutbox /\ UNCHANGED faults
  BY <1>1 DEF TxWorker!vars, txOutboxVars
<1>2. CASE UNCHANGED txOutbox /\ faults < MaxFaults /\ faults' = faults + 1
  BY <1>2 DEF TxWorker!Next, TxWorker!Forget, TxWorker!Fault, txOutboxVars
<1>3. CASE Len(txOutbox) < MaxTxRows /\ Len(txOutbox') = Len(txOutbox) + 1
  BY <1>3 DEF TxWorker!Next, TxWorker!Insert, TxWorker!Fault, txOutboxVars,
     FaultsStep
<1> QED
  BY <1>1, <1>2, <1>3 DEF FaultsStep

LEMMA UserWorkerAlone ==
    ASSUME UNCHANGED userOutboxVars, FaultsStep, Len(userOutbox) \in Nat,
           \/ UNCHANGED userOutbox
           \/ Len(userOutbox) < MaxUserRows /\ Len(userOutbox') = Len(userOutbox) + 1
    PROVE  [UserWorker!Next]_(UserWorker!vars)
<1>1. CASE UNCHANGED userOutbox /\ UNCHANGED faults
  BY <1>1 DEF UserWorker!vars, userOutboxVars
<1>2. CASE UNCHANGED userOutbox /\ faults < MaxFaults /\ faults' = faults + 1
  BY <1>2 DEF UserWorker!Next, UserWorker!Forget, UserWorker!Fault, userOutboxVars
<1>3. CASE Len(userOutbox) < MaxUserRows /\ Len(userOutbox') = Len(userOutbox) + 1
  BY <1>3 DEF UserWorker!Next, UserWorker!Insert, UserWorker!Fault,
     userOutboxVars, FaultsStep
<1> QED
  BY <1>1, <1>2, <1>3 DEF FaultsStep

(* Every step of the saga is a step, or a stutter, of both outboxes. *)
LEMMA StepIsDeliveryStep ==
    ASSUME IInv, [Next]_vars
    PROVE  [TxWorker!Next]_(TxWorker!vars) /\ [UserWorker!Next]_(UserWorker!vars)
<1>0. Len(txOutbox) \in Nat /\ Len(userOutbox) \in Nat
  BY PendingTypes
<1>1. \/ UNCHANGED txOutbox
      \/ Len(txOutbox) < MaxTxRows /\ Len(txOutbox') = Len(txOutbox) + 1
  <2>1. UNCHANGED txOutbox \/ \E d \in Deposit : AppendTxRow(d)
    BY RowStep
  <2>2. txOutbox \in Seq(Deposit)
    BY DEF IInv, TypeOK
  <2>3. ASSUME NEW d \in Deposit, AppendTxRow(d)
        PROVE  Len(txOutbox) < MaxTxRows /\ Len(txOutbox') = Len(txOutbox) + 1
    BY <2>2, <2>3, TxRowAppended DEF AppendTxRow
  <2> QED
    BY <2>1, <2>3
<1>2. \/ UNCHANGED userOutbox
      \/ Len(userOutbox) < MaxUserRows /\ Len(userOutbox') = Len(userOutbox) + 1
  <2>1. UNCHANGED userOutbox \/ \E d \in Deposit, topic \in Topics : AppendUserRow(topic, d)
    BY ReplyStep
  <2>2. userOutbox \in Seq(Reply)
    BY DEF IInv, TypeOK
  <2>3. ASSUME NEW d \in Deposit, NEW topic \in Topics, AppendUserRow(topic, d)
        PROVE  Len(userOutbox) < MaxUserRows /\ Len(userOutbox') = Len(userOutbox) + 1
    BY <2>2, <2>3, UserRowAppended DEF AppendUserRow, Topics
  <2> QED
    BY <2>1, <2>3
<1>3. CASE TxWorkerMove
  <2>1. TxWorker!Next
    BY <1>3 DEF TxWorkerMove, TxWorkerFault, TxWorker!Next, TxWorker!Row, TxRow
  <2>2. UNCHANGED userOutboxVars /\ UNCHANGED userOutbox
    BY <1>3 DEF TxWorkerMove, TxWorkerFrame
  <2>3. FaultsStep
    BY <1>3 DEF TxWorkerMove, TxWorkerFault, TxWorker!Publish, TxWorker!Mark,
       TxWorker!Forget, TxWorker!PublishUnconfirmed, TxWorker!Fault, FaultsStep
  <2> QED
    BY <2>1, <2>2, <2>3, <1>0, UserWorkerAlone
<1>4. CASE UserWorkerMove
  <2>1. UserWorker!Next
    BY <1>4 DEF UserWorkerMove, UserWorkerFault, UserWorker!Next,
       UserWorker!Row, UserRow
  <2>2. UNCHANGED txOutboxVars /\ UNCHANGED txOutbox
    BY <1>4 DEF UserWorkerMove, UserWorkerFrame
  <2>3. FaultsStep
    BY <1>4 DEF UserWorkerMove, UserWorkerFault, UserWorker!Publish,
       UserWorker!Mark, UserWorker!Forget, UserWorker!PublishUnconfirmed,
       UserWorker!Fault, FaultsStep
  <2> QED
    BY <2>1, <2>2, <2>3, <1>0, TxWorkerAlone
<1>5. CASE FaultsStep /\ UNCHANGED <<txOutboxVars, userOutboxVars>>
  BY <1>0, <1>1, <1>2, <1>5, TxWorkerAlone, UserWorkerAlone
<1> QED
  BY <1>3, <1>4, <1>5, WorkersAlone

(* The saga implements OutboxDelivery twice: what the consumers, the reply
   handlers and the faults do is, for either outbox, a new row, a fault, or
   nothing.  OutboxWorker proves that the code of a worker does the same. *)
THEOREM SagaUsesOutboxes == Spec => TxWorker!Spec /\ UserWorker!Spec
<1>1. Init => TxWorker!Init /\ UserWorker!Init
  BY DEF Init
<1>2. IInv /\ [Next]_vars => [TxWorker!Next]_(TxWorker!vars)
  BY StepIsDeliveryStep
<1>3. IInv /\ [Next]_vars => [UserWorker!Next]_(UserWorker!vars)
  BY StepIsDeliveryStep
<1> QED
  BY <1>1, <1>2, <1>3, Invariance, PTL DEF Spec, TxWorker!Spec, UserWorker!Spec
=============================================================================
