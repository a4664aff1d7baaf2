------------------------ MODULE TransferSaga_proofs -------------------------
(* Proofs about TransferSaga.  IInv = TypeOK /\ Chain is the inductive
   invariant: what transaction-service reports rests on a reply, the reply on
   a processed key, and the key was committed with the move of the money. *)
EXTENDS TransferSaga, FiniteSetTheorems, TLAPS

Topics == {"TRANFER_SUCCESS", "TRANFER_FAILED"}

(* A new row of transaction-service's outbox leaves the others alone. *)
LEMMA TxRowAppended ==
    ASSUME txOutbox \in Seq(Transfer), NEW t \in Transfer, AppendTxRow(t)
    PROVE  /\ txOutbox' \in Seq(Transfer)
           /\ Len(txOutbox') = Len(txOutbox) + 1
           /\ Len(txOutbox') <= MaxTxRows
           /\ \A i \in 1 .. Len(txOutbox) : txOutbox'[i] = txOutbox[i]
           /\ txOutbox'[Len(txOutbox) + 1] = t
BY BoundAssumption DEF AppendTxRow

(* The same for a row of user-service's outbox. *)
LEMMA UserRowAppended ==
    ASSUME userOutbox \in Seq(Reply), NEW t \in Transfer,
           NEW topic \in Topics,
           AppendUserRow(topic, t)
    PROVE  /\ userOutbox' \in Seq(Reply)
           /\ Len(userOutbox') = Len(userOutbox) + 1
           /\ Len(userOutbox') <= MaxUserRows
           /\ \A r \in 1 .. Len(userOutbox) : userOutbox'[r] = userOutbox[r]
           /\ userOutbox'[Len(userOutbox) + 1] = [topic |-> topic, transfer |-> t]
<1>1. [topic |-> topic, transfer |-> t] \in Reply
  BY DEF Reply, Topics
<1> QED
  BY <1>1, BoundAssumption DEF AppendUserRow

(* A counter of a family is incremented. *)
LEMMA Incremented ==
    ASSUME NEW S, NEW f \in [S -> Nat], NEW i \in S
    PROVE  [f EXCEPT ![i] = @ + 1] \in [S -> Nat]
OBVIOUS

(* A fault is counted within its bound. *)
LEMMA FaultCounted ==
    ASSUME faults \in 0 .. MaxFaults, faults < MaxFaults, faults' = faults + 1
    PROVE  faults' \in 0 .. MaxFaults
BY BoundAssumption

(* A worker changes only its own outbox variables, and publishes only rows
   that exist: here the worker of transaction-service ... *)
LEMMA TxWorkerStep ==
    ASSUME IInv, TxWorkerFrame,
           \/ \E i \in TxRow : TxWorker!Publish(i)
           \/ TxWorker!Mark
           \/ TxWorkerFault
    PROVE  TxWorker!TypeOK' /\ UserWorker!TypeOK' /\ SentRows'
<1> USE DEF IInv, TypeOK, TxWorker!TypeOK, TxWorker!Row, TxRow
<1>0. /\ UNCHANGED <<txOutbox, userOutbox, userMarked, userAwaiting, userSent>>
      /\ SentRows
  BY DEF TxWorkerFrame, userOutboxVars, Chain, SentRows
<1>1. ASSUME NEW i \in TxRow, TxWorker!Publishable(i),
             txSent' = [txSent EXCEPT ![i] = @ + 1]
      PROVE  /\ i \in 1 .. Len(txOutbox)
             /\ txSent' \in [TxRow -> Nat]
             /\ \A j \in TxRow : txSent'[j] > 0 => j <= Len(txOutbox)
  <2>1. i \in 1 .. Len(txOutbox)
    BY <1>1 DEF TxWorker!Publishable
  <2>2. txSent \in [TxRow -> Nat]
    OBVIOUS
  <2>3. txSent' \in [TxRow -> Nat]
    BY <1>1, <2>2, Incremented
  <2>4. ASSUME NEW j \in TxRow, txSent'[j] > 0 PROVE j <= Len(txOutbox)
    <3>1. CASE j = i
      BY <2>1, <3>1
    <3>2. CASE j # i
      BY <3>2, <2>2, <2>4, <1>1, <1>0 DEF SentRows
    <3> QED
      BY <3>1, <3>2
  <2> QED
    BY <2>1, <2>3, <2>4
<1>2. CASE \E i \in TxRow : TxWorker!Publish(i)
  <2>1. PICK i \in TxRow : TxWorker!Publish(i)
    BY <1>2
  <2>2. /\ TxWorker!Publishable(i) /\ txSent' = [txSent EXCEPT ![i] = @ + 1]
        /\ txAwaiting' = txAwaiting \cup {i} /\ UNCHANGED <<txMarked, faults>>
    BY <2>1 DEF TxWorker!Publish
  <2>3. TxWorker!TypeOK' /\ SentRows'
    BY <2>2, <1>1, <1>0 DEF SentRows
  <2> QED
    BY <2>2, <2>3, <1>0 DEF UserWorker!TypeOK
<1>3. CASE TxWorker!Mark
  <2>1. TxWorker!TypeOK' /\ SentRows'
    BY <1>3, <1>0 DEF TxWorker!Mark, SentRows
  <2> QED
    BY <1>3, <2>1, <1>0 DEF TxWorker!Mark, UserWorker!TypeOK
<1>4. CASE TxWorker!Forget
  <2>1. faults' \in 0 .. MaxFaults
    BY <1>4, FaultCounted DEF TxWorker!Forget, TxWorker!Fault
  <2>2. TxWorker!TypeOK' /\ SentRows'
    BY <1>4, <2>1, <1>0 DEF TxWorker!Forget, SentRows
  <2> QED
    BY <2>1, <2>2, <1>0 DEF UserWorker!TypeOK
<1>5. CASE \E i \in TxRow : TxWorker!PublishUnconfirmed(i)
  <2>1. PICK i \in TxRow : TxWorker!PublishUnconfirmed(i)
    BY <1>5
  <2>2. /\ TxWorker!Publishable(i) /\ txSent' = [txSent EXCEPT ![i] = @ + 1]
        /\ faults < MaxFaults /\ faults' = faults + 1
        /\ UNCHANGED <<txMarked, txAwaiting>>
    BY <2>1 DEF TxWorker!PublishUnconfirmed, TxWorker!Fault
  <2>3. faults' \in 0 .. MaxFaults
    BY <2>2, FaultCounted
  <2>4. TxWorker!TypeOK' /\ SentRows'
    BY <2>2, <2>3, <1>1, <1>0 DEF SentRows
  <2> QED
    BY <2>3, <2>4, <1>0 DEF UserWorker!TypeOK
<1> QED
  BY <1>2, <1>3, <1>4, <1>5 DEF TxWorkerFault

(* ... and here the worker of user-service. *)
LEMMA UserWorkerStep ==
    ASSUME IInv, UserWorkerFrame,
           \/ \E r \in UserRow : UserWorker!Publish(r)
           \/ UserWorker!Mark
           \/ UserWorkerFault
    PROVE  TxWorker!TypeOK' /\ UserWorker!TypeOK' /\ SentRows'
<1> USE DEF IInv, TypeOK, UserWorker!TypeOK, UserWorker!Row, UserRow
<1>0. /\ UNCHANGED <<userOutbox, txOutbox, txMarked, txAwaiting, txSent>>
      /\ SentRows
  BY DEF UserWorkerFrame, txOutboxVars, Chain, SentRows
<1>1. ASSUME NEW r \in UserRow, UserWorker!Publishable(r),
             userSent' = [userSent EXCEPT ![r] = @ + 1]
      PROVE  /\ r \in 1 .. Len(userOutbox)
             /\ userSent' \in [UserRow -> Nat]
             /\ \A j \in UserRow : userSent'[j] > 0 => j <= Len(userOutbox)
  <2>1. r \in 1 .. Len(userOutbox)
    BY <1>1 DEF UserWorker!Publishable
  <2>2. userSent \in [UserRow -> Nat]
    OBVIOUS
  <2> HIDE DEF IInv, TypeOK, UserWorker!TypeOK
  <2>3. userSent' \in [UserRow -> Nat]
    BY <1>1, <2>2, Incremented
  <2>4. ASSUME NEW j \in UserRow, userSent'[j] > 0 PROVE j <= Len(userOutbox)
    <3>1. CASE j = r
      BY <2>1, <3>1
    <3>2. CASE j # r
      BY <3>2, <2>2, <2>4, <1>1, <1>0 DEF SentRows
    <3> QED
      BY <3>1, <3>2
  <2> QED
    BY <2>1, <2>3, <2>4
<1>2. CASE \E r \in UserRow : UserWorker!Publish(r)
  <2>1. PICK r \in UserRow : UserWorker!Publish(r)
    BY <1>2
  <2>2. /\ UserWorker!Publishable(r) /\ userSent' = [userSent EXCEPT ![r] = @ + 1]
        /\ userAwaiting' = userAwaiting \cup {r} /\ UNCHANGED <<userMarked, faults>>
    BY <2>1 DEF UserWorker!Publish
  <2>3. UserWorker!TypeOK' /\ SentRows'
    BY <2>2, <1>1, <1>0 DEF SentRows
  <2> QED
    BY <2>2, <2>3, <1>0 DEF TxWorker!TypeOK
<1>3. CASE UserWorker!Mark
  <2>1. UserWorker!TypeOK' /\ SentRows'
    BY <1>3, <1>0 DEF UserWorker!Mark, SentRows
  <2> QED
    BY <1>3, <2>1, <1>0 DEF UserWorker!Mark, TxWorker!TypeOK
<1>4. CASE UserWorker!Forget
  <2>1. faults' \in 0 .. MaxFaults
    BY <1>4, FaultCounted DEF UserWorker!Forget, UserWorker!Fault
  <2>2. UserWorker!TypeOK' /\ SentRows'
    BY <1>4, <2>1, <1>0 DEF UserWorker!Forget, SentRows
  <2> QED
    BY <2>1, <2>2, <1>0 DEF TxWorker!TypeOK
<1>5. CASE \E r \in UserRow : UserWorker!PublishUnconfirmed(r)
  <2>1. PICK r \in UserRow : UserWorker!PublishUnconfirmed(r)
    BY <1>5
  <2>2. /\ UserWorker!Publishable(r) /\ userSent' = [userSent EXCEPT ![r] = @ + 1]
        /\ faults < MaxFaults /\ faults' = faults + 1
        /\ UNCHANGED <<userMarked, userAwaiting>>
    BY <2>1 DEF UserWorker!PublishUnconfirmed, UserWorker!Fault
  <2>3. faults' \in 0 .. MaxFaults
    BY <2>2, FaultCounted
  <2>4. UserWorker!TypeOK' /\ SentRows'
    BY <2>2, <2>3, <1>1, <1>0 DEF SentRows
  <2> QED
    BY <2>3, <2>4, <1>0 DEF TxWorker!TypeOK
<1> QED
  BY <1>2, <1>3, <1>4, <1>5 DEF UserWorkerFault

(* Any other step keeps the outbox variables, may append a row, may count a
   fault. *)
LEMMA OutboxesKept ==
    ASSUME IInv, UNCHANGED <<txOutboxVars, userOutboxVars>>,
           \/ UNCHANGED txOutbox
           \/ \E t \in Transfer : AppendTxRow(t),
           \/ UNCHANGED userOutbox
           \/ \E t \in Transfer,
                 topic \in Topics :
                 AppendUserRow(topic, t),
           UNCHANGED faults \/ \E kind : Fault(kind)
    PROVE  /\ TxWorker!TypeOK' /\ UserWorker!TypeOK' /\ SentRows'
           /\ txOutbox' \in Seq(Transfer) /\ Len(txOutbox') <= MaxTxRows
           /\ userOutbox' \in Seq(Reply) /\ Len(userOutbox') <= MaxUserRows
<1>1. faults' \in 0 .. MaxFaults
  BY FaultCounted DEF IInv, TypeOK, TxWorker!TypeOK, Fault
<1>2. /\ txOutbox' \in Seq(Transfer) /\ Len(txOutbox') <= MaxTxRows
      /\ Len(txOutbox) <= Len(txOutbox')
  BY TxRowAppended DEF IInv, TypeOK
<1>3. /\ userOutbox' \in Seq(Reply) /\ Len(userOutbox') <= MaxUserRows
      /\ Len(userOutbox) <= Len(userOutbox')
  <2>1. CASE UNCHANGED userOutbox
    BY <2>1 DEF IInv, TypeOK
  <2>2. ASSUME NEW t \in Transfer,
               NEW topic \in Topics,
               AppendUserRow(topic, t)
        PROVE  /\ userOutbox' \in Seq(Reply) /\ Len(userOutbox') <= MaxUserRows
               /\ Len(userOutbox) <= Len(userOutbox')
    <3>1. userOutbox \in Seq(Reply)
      BY DEF IInv, TypeOK
    <3>2. Len(userOutbox') = Len(userOutbox) + 1 /\ Len(userOutbox') <= MaxUserRows
          /\ userOutbox' \in Seq(Reply)
      BY <2>2, <3>1, UserRowAppended
    <3> QED
      BY <3>1, <3>2
  <2> QED
    BY <2>1, <2>2
<1>4. TxWorker!TypeOK'
  BY <1>1, <1>2 DEF IInv, TypeOK, TxWorker!TypeOK, txOutboxVars
<1>5. UserWorker!TypeOK'
  BY <1>1, <1>3 DEF IInv, TypeOK, UserWorker!TypeOK, userOutboxVars
<1>6. SentRows'
  <2>1. SentRows /\ UNCHANGED <<txSent, userSent>>
    BY DEF IInv, Chain, SentRows, txOutboxVars, userOutboxVars
  <2>2. Len(txOutbox) \in Nat /\ Len(userOutbox) \in Nat
    BY DEF IInv, TypeOK
  <2> QED
    BY <2>1, <2>2, <1>2, <1>3 DEF SentRows, TxRow, UserRow
<1> QED
  BY <1>2, <1>3, <1>4, <1>5, <1>6

(* Keys stay tied to their transfer when rows are appended. *)
LEMMA KeysKept ==
    ASSUME IInv,
           \/ UNCHANGED txOutbox
           \/ \E t \in Transfer : AppendTxRow(t),
           NEW key \in TxRow \X Nat, key[1] <= Len(txOutbox)
    PROVE  /\ key[1] \in 1 .. Len(txOutbox)
           /\ txOutbox'[key[1]] = txOutbox[key[1]]
           /\ key[1] <= Len(txOutbox')
<1>1. txOutbox \in Seq(Transfer)
  BY DEF IInv, TypeOK
<1>2. key[1] \in 1 .. Len(txOutbox)
  BY <1>1 DEF TxRow
<1> QED
  BY <1>1, <1>2, TxRowAppended

(* A key of a transfer that was processed for one of the rows there are. *)
HasKey(keys, t) ==
    \E key \in keys : key[1] \in 1 .. Len(txOutbox) /\ txOutbox[key[1]] = t

(* Rows, replies, handlers and reports stay justified while keys are only
   added, and new rows and reports are justified. *)
LEMMA FactsKept ==
    ASSUME IInv,
           \A t \in Transfer : status[t] # "NONE" => status'[t] # "NONE",
           userProcessed \subseteq userProcessed',
           userProcessed' \subseteq TxRow \X Nat,
           \A key \in userProcessed' : key[1] <= Len(txOutbox),
           handling' \in [Consumer -> Handler],
           \A c \in Consumer : handling'[c].row <= Len(txOutbox),
           \/ UNCHANGED txOutbox
           \/ \E t \in Transfer : AppendTxRow(t) /\ status'[t] # "NONE",
           \/ UNCHANGED userOutbox
           \/ \E t \in Transfer, topic \in Topics :
                 /\ AppendUserRow(topic, t)
                 /\ status'[t] # "NONE"
                 /\ topic = "TRANFER_SUCCESS" => HasKey(userProcessed', t),
           \A t \in Transfer :
              status'[t] = "BALANCE_UPDATED" \/ t \in notified'
                 => HasKey(userProcessed', t)
    PROVE  /\ RowFacts' /\ ReplyFacts' /\ HandlerFacts' /\ KeyFacts'
           /\ ReportedOnlyIfMoved'
<1>0. /\ txOutbox \in Seq(Transfer) /\ userOutbox \in Seq(Reply)
      /\ RowFacts /\ ReplyFacts /\ KeyFacts
      /\ userProcessed \subseteq TxRow \X Nat
  BY DEF IInv, TypeOK, Chain
<1>1. /\ Len(txOutbox) \in Nat /\ Len(userOutbox) \in Nat
      /\ \A i \in 1 .. Len(txOutbox) : txOutbox[i] \in Transfer
      /\ \A r \in 1 .. Len(userOutbox) : userOutbox[r].transfer \in Transfer
  <2>1. \A r \in 1 .. Len(userOutbox) : userOutbox[r] \in Reply
    BY <1>0
  <2> QED
    BY <1>0, <2>1 DEF Reply
<1>2. \/ UNCHANGED txOutbox
      \/ \E t \in Transfer : AppendTxRow(t)
  OBVIOUS
<1>3. ASSUME NEW t \in Transfer, HasKey(userProcessed', t)
      PROVE  \E key \in userProcessed' : txOutbox'[key[1]] = t
  <2>1. PICK key \in userProcessed' :
           key[1] \in 1 .. Len(txOutbox) /\ txOutbox[key[1]] = t
    BY <1>3 DEF HasKey
  <2>2. txOutbox'[key[1]] = t
    BY <2>1, <1>2, KeysKept
  <2> QED
    BY <2>1, <2>2
<1>4. ASSUME NEW t \in Transfer, KeysOf(t) # {}
      PROVE  HasKey(userProcessed', t)
  <2>1. PICK key \in userProcessed : txOutbox[key[1]] = t
    BY <1>4 DEF KeysOf
  <2>2. key[1] \in 1 .. Len(txOutbox)
    BY <2>1, <1>0, <1>2, KeysKept DEF KeyFacts
  <2> QED
    BY <2>1, <2>2 DEF HasKey
<1>5. RowFacts'
  <2>1. CASE UNCHANGED txOutbox
    BY <2>1, <1>0, <1>1 DEF RowFacts
  <2>2. ASSUME NEW t \in Transfer, AppendTxRow(t), status'[t] # "NONE"
        PROVE  RowFacts'
    <3>1. /\ Len(txOutbox') = Len(txOutbox) + 1
          /\ \A i \in 1 .. Len(txOutbox) : txOutbox'[i] = txOutbox[i]
          /\ txOutbox'[Len(txOutbox) + 1] = t
      BY <2>2, <1>0, TxRowAppended
    <3>2. ASSUME NEW i \in 1 .. Len(txOutbox')
          PROVE  status'[txOutbox'[i]] # "NONE"
      <4>1. CASE i = Len(txOutbox) + 1
        BY <4>1, <3>1, <2>2
      <4>2. CASE i # Len(txOutbox) + 1
        <5>1. i \in 1 .. Len(txOutbox)
          BY <4>2, <3>1, <1>1
        <5> QED
          BY <5>1, <3>1, <1>0, <1>1 DEF RowFacts
      <4> QED
        BY <4>1, <4>2
    <3> QED
      BY <3>2 DEF RowFacts
  <2> QED
    BY <2>1, <2>2
<1>6. ReplyFacts'
  <2>1. CASE UNCHANGED userOutbox
    BY <2>1, <1>0, <1>1, <1>3, <1>4 DEF ReplyFacts, KeysOf
  <2>2. ASSUME NEW t \in Transfer, NEW topic \in Topics,
               AppendUserRow(topic, t), status'[t] # "NONE",
               topic = "TRANFER_SUCCESS" => HasKey(userProcessed', t)
        PROVE  ReplyFacts'
    <3>1. /\ Len(userOutbox') = Len(userOutbox) + 1
          /\ \A r \in 1 .. Len(userOutbox) : userOutbox'[r] = userOutbox[r]
          /\ userOutbox'[Len(userOutbox) + 1] = [topic |-> topic, transfer |-> t]
      BY <2>2, <1>0, UserRowAppended
    <3>2. ASSUME NEW r \in 1 .. Len(userOutbox')
          PROVE  /\ status'[userOutbox'[r].transfer] # "NONE"
                 /\ userOutbox'[r].topic = "TRANFER_SUCCESS"
                       => \E key \in userProcessed' :
                             txOutbox'[key[1]] = userOutbox'[r].transfer
      <4>1. CASE r = Len(userOutbox) + 1
        <5>1. userOutbox'[r].transfer = t /\ userOutbox'[r].topic = topic
          BY <4>1, <3>1, <3>2
        <5> QED
          BY <5>1, <2>2, <1>3
      <4>2. CASE r # Len(userOutbox) + 1
        <5>1. r \in 1 .. Len(userOutbox)
          BY <4>2, <3>1, <1>1
        <5>2. userOutbox'[r] = userOutbox[r] /\ userOutbox[r].transfer \in Transfer
          BY <5>1, <3>1, <1>1
        <5>3. /\ status[userOutbox[r].transfer] # "NONE"
              /\ userOutbox[r].topic = "TRANFER_SUCCESS"
                    => KeysOf(userOutbox[r].transfer) # {}
          BY <5>1, <1>0 DEF ReplyFacts
        <5> QED
          BY <5>2, <5>3, <1>3, <1>4
      <4> QED
        BY <4>1, <4>2
    <3> QED
      BY <3>2 DEF ReplyFacts, KeysOf
  <2> QED
    BY <2>1, <2>2
<1>7. Len(txOutbox) <= Len(txOutbox') /\ Len(txOutbox') \in Nat
  BY <1>0, <1>1, <1>2, TxRowAppended
<1>8. HandlerFacts'
  <2>1. \A c \in Consumer : handling'[c].row \in Nat
    BY DEF Handler, Idle, TxRow
  <2> QED
    BY <2>1, <1>1, <1>7 DEF HandlerFacts
<1>9. KeyFacts'
  <2>1. \A key \in userProcessed' : key[1] \in Nat
    BY DEF TxRow
  <2> QED
    BY <2>1, <1>1, <1>7 DEF KeyFacts
<1>10. ReportedOnlyIfMoved'
  BY <1>3 DEF ReportedOnlyIfMoved, KeysOf
<1> QED
  BY <1>5, <1>6, <1>8, <1>9, <1>10

(* What a step owes besides the outboxes' own facts. *)
LEMMA Assembled ==
    ASSUME IInv,
           UNCHANGED <<txOutboxVars, userOutboxVars>>,
           UNCHANGED faults \/ \E kind : Fault(kind),
           validated' \subseteq Transfer,
           status' \in [Transfer -> TransactionStatus],
           retryCount' \in [Transfer -> Nat],
           txProcessed' \subseteq UserRow \X Nat,
           balance' \in [Account -> Nat],
           notified' \subseteq Transfer,
           txRead' \in [TxRow -> Nat],
           userRead' \in [UserRow -> Nat],
           \A t \in Transfer : status[t] # "NONE" => status'[t] # "NONE",
           userProcessed \subseteq userProcessed',
           userProcessed' \subseteq TxRow \X Nat,
           \A key \in userProcessed' : key[1] <= Len(txOutbox),
           handling' \in [Consumer -> Handler],
           \A c \in Consumer : handling'[c].row <= Len(txOutbox),
           \/ UNCHANGED txOutbox
           \/ \E t \in Transfer : AppendTxRow(t) /\ status'[t] # "NONE",
           \/ UNCHANGED userOutbox
           \/ \E t \in Transfer, topic \in Topics :
                 /\ AppendUserRow(topic, t)
                 /\ status'[t] # "NONE"
                 /\ topic = "TRANFER_SUCCESS" => HasKey(userProcessed', t),
           \A t \in Transfer :
              status'[t] = "BALANCE_UPDATED" \/ t \in notified'
                 => HasKey(userProcessed', t)
    PROVE  IInv'
<1>1. /\ TxWorker!TypeOK' /\ UserWorker!TypeOK' /\ SentRows'
      /\ txOutbox' \in Seq(Transfer) /\ Len(txOutbox') <= MaxTxRows
      /\ userOutbox' \in Seq(Reply) /\ Len(userOutbox') <= MaxUserRows
  <2>1. \/ UNCHANGED txOutbox
        \/ \E t \in Transfer : AppendTxRow(t)
    OBVIOUS
  <2>2. \/ UNCHANGED userOutbox
        \/ \E t \in Transfer, topic \in Topics : AppendUserRow(topic, t)
    OBVIOUS
  <2> QED
    BY <2>1, <2>2, OutboxesKept
<1>2. /\ RowFacts' /\ ReplyFacts' /\ HandlerFacts' /\ KeyFacts'
      /\ ReportedOnlyIfMoved'
  BY FactsKept
<1>3. TypeOK'
  BY <1>1 DEF TypeOK
<1> QED
  BY <1>1, <1>2, <1>3 DEF IInv, Chain

(* The invariant holds initially. *)
LEMMA InitIInv == Init => IInv
<1> SUFFICES ASSUME Init PROVE IInv
  OBVIOUS
<1>1. /\ txOutbox = <<>> /\ userOutbox = <<>>
      /\ txOutbox \in Seq(Transfer) /\ Len(txOutbox) = 0
      /\ userOutbox \in Seq(Reply) /\ Len(userOutbox) = 0
  BY DEF Init
<1>2. /\ status \in [Transfer -> TransactionStatus]
      /\ retryCount \in [Transfer -> Nat] /\ balance \in [Account -> Nat]
      /\ handling \in [Consumer -> Handler]
      /\ txRead \in [TxRow -> Nat] /\ userRead \in [UserRow -> Nat]
      /\ validated = {} /\ txProcessed = {} /\ userProcessed = {}
      /\ notified = {}
  BY AccountAssumption DEF Init, TransactionStatus, Handler
<1>3. TxWorker!TypeOK
  BY <1>1, BoundAssumption DEF Init, TxWorker!Init, TxWorker!TypeOK
<1>4. UserWorker!TypeOK
  BY <1>1, BoundAssumption DEF Init, UserWorker!Init, UserWorker!TypeOK
<1>5. TypeOK
  BY <1>1, <1>2, <1>3, <1>4, BoundAssumption DEF TypeOK
<1>6. RowFacts /\ ReplyFacts /\ HandlerFacts /\ KeyFacts /\ ReportedOnlyIfMoved
  BY <1>1 DEF Init, RowFacts, ReplyFacts, HandlerFacts, KeyFacts,
     ReportedOnlyIfMoved, Idle
<1>7. SentRows
  BY <1>1 DEF Init, TxWorker!Init, UserWorker!Init, TxWorker!Row, UserWorker!Row,
     TxRow, UserRow, SentRows
<1> QED
  BY <1>5, <1>6, <1>7 DEF IInv, Chain

(* The parts of the invariant the steps below use. *)
LEMMA Facts ==
    ASSUME IInv
    PROVE  /\ validated \subseteq Transfer
           /\ status \in [Transfer -> TransactionStatus]
           /\ retryCount \in [Transfer -> Nat]
           /\ txProcessed \subseteq UserRow \X Nat
           /\ balance \in [Account -> Nat]
           /\ handling \in [Consumer -> Handler]
           /\ userProcessed \subseteq TxRow \X Nat
           /\ notified \subseteq Transfer
           /\ txRead \in [TxRow -> Nat]
           /\ userRead \in [UserRow -> Nat]
           /\ userProcessed \subseteq userProcessed
           /\ \A key \in userProcessed : key[1] <= Len(txOutbox)
           /\ \A c \in Consumer : handling[c].row <= Len(txOutbox)
           /\ \A t \in Transfer :
                 status[t] = "BALANCE_UPDATED" \/ t \in notified
                    => HasKey(userProcessed, t)
<1>1. TypeOK /\ KeyFacts /\ HandlerFacts /\ ReportedOnlyIfMoved
  BY DEF IInv, Chain
<1>2. txOutbox \in Seq(Transfer) /\ userProcessed \subseteq TxRow \X Nat
  BY <1>1 DEF TypeOK
<1>3. \A key \in userProcessed : key[1] \in 1 .. Len(txOutbox)
  BY <1>1, <1>2 DEF KeyFacts, TxRow
<1>4. \A t \in Transfer :
         status[t] = "BALANCE_UPDATED" \/ t \in notified
            => HasKey(userProcessed, t)
  BY <1>1, <1>3 DEF ReportedOnlyIfMoved, KeysOf, HasKey
<1> QED
  BY <1>1, <1>4 DEF TypeOK, KeyFacts, HandlerFacts

(* A row whose message can be consumed exists. *)
LEMMA ConsumableRow ==
    ASSUME IInv, NEW i \in TxRow, txRead[i] < txSent[i]
    PROVE  i \in 1 .. Len(txOutbox) /\ txOutbox[i] \in Transfer
<1>0. txOutbox \in Seq(Transfer) /\ txRead \in [TxRow -> Nat] /\ SentRows
  BY DEF IInv, TypeOK, Chain
<1>1. txSent \in [TxRow -> Nat]
  BY DEF IInv, TypeOK, TxWorker!TypeOK, TxWorker!Row, TxRow
<1>2. txSent[i] > 0
  BY <1>0, <1>1
<1>3. i \in 1 .. Len(txOutbox)
  BY <1>0, <1>2 DEF SentRows, TxRow
<1> QED
  BY <1>0, <1>3

(* A reply that can be consumed, or was, belongs to a transfer that was moved
   if it says so. *)
LEMMA ReplyRow ==
    ASSUME IInv, NEW r \in UserRow, r <= Len(userOutbox)
    PROVE  /\ userOutbox[r].transfer \in Transfer
           /\ status[userOutbox[r].transfer] # "NONE"
           /\ userOutbox[r].topic = "TRANFER_SUCCESS"
                 => HasKey(userProcessed, userOutbox[r].transfer)
<1>0. /\ userOutbox \in Seq(Reply) /\ txOutbox \in Seq(Transfer)
      /\ ReplyFacts /\ KeyFacts /\ userProcessed \subseteq TxRow \X Nat
  BY DEF IInv, TypeOK, Chain
<1>1. r \in 1 .. Len(userOutbox)
  BY <1>0 DEF UserRow
<1>2. userOutbox[r] \in Reply
  BY <1>0, <1>1
<1>3. \A key \in userProcessed : key[1] \in 1 .. Len(txOutbox)
  BY <1>0 DEF KeyFacts, TxRow
<1>4. userOutbox[r].topic = "TRANFER_SUCCESS"
         => \E key \in userProcessed : txOutbox[key[1]] = userOutbox[r].transfer
  BY <1>0, <1>1 DEF ReplyFacts, KeysOf
<1> QED
  BY <1>0, <1>1, <1>2, <1>3, <1>4 DEF Reply, HasKey, ReplyFacts

LEMMA ConsumableReply ==
    ASSUME IInv, NEW r \in UserRow, userRead[r] < userSent[r]
    PROVE  r <= Len(userOutbox)
<1>1. /\ userRead \in [UserRow -> Nat] /\ SentRows
      /\ userSent \in [UserRow -> Nat]
  BY DEF IInv, TypeOK, Chain, UserWorker!TypeOK, UserWorker!Row, UserRow
<1> QED
  BY <1>1 DEF SentRows

(* A consumer at work holds a message of an existing row. *)
LEMMA AtWork ==
    ASSUME IInv, NEW c \in Consumer,
           handling[c].step \in {"moving", "failing"}
    PROVE  /\ handling[c].row \in 1 .. Len(txOutbox)
           /\ handling[c].row \in TxRow
           /\ handling[c].copy \in Nat \ {0}
           /\ handling[c] = [row |-> handling[c].row, copy |-> handling[c].copy,
                             step |-> handling[c].step]
           /\ TransferOf(c) \in Transfer /\ status[TransferOf(c)] # "NONE"
           /\ KeyOf(c) \in TxRow \X Nat
<1>1. handling \in [Consumer -> Handler] /\ txOutbox \in Seq(Transfer)
      /\ HandlerFacts /\ RowFacts
  BY DEF IInv, TypeOK, Chain
<1>2. handling[c] \in [row : TxRow, copy : Nat \ {0}, step : {"moving", "failing"}]
  BY <1>1 DEF Handler, Idle
<1>3. handling[c].row \in 1 .. Len(txOutbox)
  BY <1>1, <1>2 DEF HandlerFacts, TxRow
<1> QED
  BY <1>1, <1>2, <1>3 DEF TransferOf, KeyOf, RowFacts

(* Leaving a message, or entering its catch block, keeps the handlers'
   types and rows. *)
LEMMA HandlersKept ==
    ASSUME IInv, NEW c \in Consumer,
           \/ Finish(c)
           \/ handling[c].step = "moving" /\ EnterCatch(c)
    PROVE  /\ handling' \in [Consumer -> Handler]
           /\ \A b \in Consumer : handling'[b].row <= Len(txOutbox)
<1>1. /\ handling \in [Consumer -> Handler] /\ txOutbox \in Seq(Transfer)
      /\ \A b \in Consumer : handling[b].row <= Len(txOutbox)
  BY DEF IInv, TypeOK, Chain, HandlerFacts
<1>2. CASE Finish(c)
  BY <1>1, <1>2 DEF Finish, Handler, Idle
<1>3. CASE handling[c].step = "moving" /\ EnterCatch(c)
  <2>1. handling[c] \in [row : TxRow, copy : Nat \ {0}, step : {"moving", "failing"}]
    BY <1>1, <1>3 DEF Handler, Idle
  <2>2. [handling[c] EXCEPT !.step = "failing"] \in
           [row : TxRow, copy : Nat \ {0}, step : {"moving", "failing"}]
    BY <2>1
  <2>3. handling' = [handling EXCEPT ![c] = [handling[c] EXCEPT !.step = "failing"]]
    BY <1>3 DEF EnterCatch
  <2>4. [handling[c] EXCEPT !.step = "failing"].row = handling[c].row
    BY <2>1
  <2>5. handling' \in [Consumer -> Handler]
    BY <1>1, <2>2, <2>3 DEF Handler
  <2> QED
    BY <1>1, <2>3, <2>4, <2>5
<1> QED
  BY <1>2, <1>3

(* The offset stays a number. *)
LEMMA OffsetAdvanced ==
    ASSUME IInv, NEW c \in Consumer,
           handling[c].step \in {"moving", "failing"}, AdvanceOffset(c)
    PROVE  txRead' \in [TxRow -> Nat]
<1>1. txRead \in [TxRow -> Nat]
  BY DEF IInv, TypeOK
<1>2. handling[c].copy \in Nat
  BY AtWork
<1> QED
  BY <1>1, <1>2 DEF AdvanceOffset

(* The move keeps both balances natural numbers, and its key is the reason
   its reply and its notification may be sent. *)
LEMMA MoveEffect ==
    ASSUME IInv, NEW c \in Consumer, CommitTransfer(c)
    PROVE  /\ balance' \in [Account -> Nat]
           /\ userProcessed \subseteq userProcessed'
           /\ userProcessed' \subseteq TxRow \X Nat
           /\ \A key \in userProcessed' : key[1] <= Len(txOutbox)
           /\ HasKey(userProcessed', TransferOf(c))
           /\ AppendUserRow("TRANFER_SUCCESS", TransferOf(c))
           /\ TransferOf(c) \in Transfer /\ status[TransferOf(c)] # "NONE"
           /\ UserFrame
<1>0. /\ balance \in [Account -> Nat] /\ userProcessed \subseteq TxRow \X Nat
      /\ \A key \in userProcessed : key[1] <= Len(txOutbox)
  BY Facts
<1>1. /\ handling[c].row \in 1 .. Len(txOutbox) /\ TransferOf(c) \in Transfer
      /\ status[TransferOf(c)] # "NONE"
      /\ KeyOf(c) \in TxRow \X Nat
  BY AtWork DEF CommitTransfer
<1>2. txOutbox \in Seq(Transfer)
  BY DEF IInv, TypeOK
<1>3. balance' \in [Account -> Nat]
  <2> DEFINE t == TransferOf(c)
  <2>1. /\ From[t] \in Account /\ To[t] \in Account /\ Amount[t] \in Nat
    BY <1>1, AccountAssumption
  <2>2. /\ balance[From[t]] >= Amount[t]
        /\ balance' = [balance EXCEPT ![From[t]] = @ - Amount[t],
                                      ![To[t]] = @ + Amount[t]]
    BY DEF CommitTransfer, MoveBalances
  <2> HIDE DEF t
  <2>3. balance[From[t]] - Amount[t] \in Nat
    BY <2>1, <2>2, <1>0
  <2>4. [balance EXCEPT ![From[t]] = @ - Amount[t]] \in [Account -> Nat]
    BY <2>1, <2>3, <1>0
  <2> QED
    BY <2>1, <2>2, <2>4
<1>4. userProcessed' = userProcessed \cup {KeyOf(c)}
  BY DEF CommitTransfer
<1>5. KeyOf(c)[1] \in 1 .. Len(txOutbox) /\ txOutbox[KeyOf(c)[1]] = TransferOf(c)
  BY <1>1 DEF KeyOf, TransferOf
<1>6. \A key \in userProcessed' : key[1] <= Len(txOutbox)
  BY <1>0, <1>2, <1>4, <1>5
<1>7. HasKey(userProcessed', TransferOf(c))
  BY <1>4, <1>5 DEF HasKey
<1> QED
  BY <1>0, <1>1, <1>3, <1>4, <1>6, <1>7 DEF CommitTransfer

(* More keys justify no less. *)
LEMMA KeyKept ==
    ASSUME NEW S, NEW T, S \subseteq T, NEW t, HasKey(S, t)
    PROVE  HasKey(T, t)
BY DEF HasKey

(* Every action preserves the invariant. *)
LEMMA NextIInv == IInv /\ [Next]_vars => IInv'
<1> SUFFICES ASSUME IInv, [Next]_vars PROVE IInv'
  OBVIOUS
<1>1. ASSUME NEW t \in Transfer, Gateway(t) PROVE IInv'
  <2>1. /\ UNCHANGED <<retryCount, txProcessed, balance, handling,
                       userProcessed, notified, userOutbox, txRead, userRead>>
        /\ UNCHANGED <<txOutboxVars, userOutboxVars>>
        /\ UNCHANGED faults
    BY <1>1 DEF Gateway, ValidateBalance, CreateTransfer, TxFrame, userVars
  <2>2. /\ validated' \subseteq Transfer
        /\ status' \in [Transfer -> TransactionStatus]
        /\ \A u \in Transfer : status[u] # "NONE" => status'[u] # "NONE"
        /\ \A u \in Transfer :
              status'[u] = "BALANCE_UPDATED" => status[u] = "BALANCE_UPDATED"
    BY <1>1, Facts DEF Gateway, ValidateBalance, CreateTransfer, TransactionStatus
  <2>3. \/ UNCHANGED txOutbox
        \/ \E u \in Transfer : AppendTxRow(u) /\ status'[u] # "NONE"
    BY <1>1, Facts DEF Gateway, ValidateBalance, CreateTransfer
  <2> QED
    BY <2>1, <2>2, <2>3, Facts, Assembled
<1>2. CASE Worker
  <2>1. /\ TxWorker!TypeOK' /\ UserWorker!TypeOK' /\ SentRows'
        /\ UNCHANGED <<txVars, txOutbox, userVars, userOutbox, txRead, userRead>>
    <3>1. CASE \/ \E i \in TxRow : TxPublish(i)
               \/ TxMark
               \/ TxWorkerFrame /\ TxWorkerFault
      <4>1. TxWorkerFrame /\ (\/ \E i \in TxRow : TxWorker!Publish(i)
                              \/ TxWorker!Mark
                              \/ TxWorkerFault)
        BY <3>1 DEF TxPublish, TxMark
      <4>2. TxWorker!TypeOK' /\ UserWorker!TypeOK' /\ SentRows'
        BY <4>1, TxWorkerStep
      <4> QED
        BY <4>1, <4>2 DEF TxWorkerFrame
    <3>2. CASE \/ \E r \in UserRow : UserPublish(r)
               \/ UserMark
               \/ UserWorkerFrame /\ UserWorkerFault
      <4>1. UserWorkerFrame /\ (\/ \E r \in UserRow : UserWorker!Publish(r)
                                \/ UserWorker!Mark
                                \/ UserWorkerFault)
        BY <3>2 DEF UserPublish, UserMark
      <4>2. TxWorker!TypeOK' /\ UserWorker!TypeOK' /\ SentRows'
        BY <4>1, UserWorkerStep
      <4> QED
        BY <4>1, <4>2 DEF UserWorkerFrame
    <3> QED
      BY <1>2, <3>1, <3>2 DEF Worker, WorkerFault
  <2>2. TypeOK'
    BY <2>1 DEF IInv, TypeOK, txVars, userVars
  <2>3. RowFacts' /\ ReplyFacts' /\ HandlerFacts' /\ KeyFacts' /\ ReportedOnlyIfMoved'
    BY <2>1 DEF IInv, Chain, RowFacts, ReplyFacts, HandlerFacts, KeyFacts,
       ReportedOnlyIfMoved, KeysOf, txVars, userVars
  <2> QED
    BY <2>1, <2>2, <2>3 DEF IInv, Chain
<1>3. ASSUME NEW c \in Consumer, UserConsumer(c) PROVE IInv'
  <2>0. UserFrame => /\ UNCHANGED <<validated, status, retryCount, txProcessed,
                                    txOutbox, userRead>>
                     /\ UNCHANGED <<txOutboxVars, userOutboxVars>>
    BY DEF UserFrame, txVars
  <2>1. ASSUME NEW i \in TxRow, BeginTransfer(c, i),
               UNCHANGED faults \/ \E kind : Fault(kind)
        PROVE  IInv'
    <3>1. /\ UserFrame /\ UNCHANGED <<balance, userProcessed, userOutbox>>
          /\ txRead[i] < txSent[i]
      BY <2>1 DEF BeginTransfer
    <3>2. /\ i \in 1 .. Len(txOutbox) /\ txOutbox[i] \in Transfer
          /\ txRead[i] + 1 \in Nat \ {0}
      BY <3>1, ConsumableRow, Facts
    <3>3. CASE /\ NextTransfer(i) \in userProcessed
               /\ notified' = notified \cup {txOutbox[i]}
               /\ txRead' = [txRead EXCEPT ![i] = @ + 1]
               /\ UNCHANGED handling
      <4>1. HasKey(userProcessed, txOutbox[i])
        BY <3>2, <3>3 DEF HasKey, NextTransfer
      <4>2. txRead' \in [TxRow -> Nat] /\ notified' \subseteq Transfer
        BY <3>2, <3>3, Facts, Incremented
      <4>3. \A t \in Transfer :
               status'[t] = "BALANCE_UPDATED" \/ t \in notified'
                  => HasKey(userProcessed', t)
        BY <2>0, <3>1, <3>3, <4>1, Facts
      <4> QED
        BY <2>0, <2>1, <3>1, <3>3, <4>2, <4>3, Facts, Assembled
    <3>4. CASE Handle(c, i) /\ UNCHANGED <<notified, txRead>>
      <4> PICK s \in {"moving", "failing"} :
              handling' = [handling EXCEPT ![c] =
                 [row |-> i, copy |-> txRead[i] + 1, step |-> s]]
        BY <3>4 DEF Handle
      <4>1. [row |-> i, copy |-> txRead[i] + 1, step |-> s] \in Handler
        BY <3>2 DEF Handler
      <4>2. handling \in [Consumer -> Handler]
            /\ \A b \in Consumer : handling[b].row <= Len(txOutbox)
        BY Facts
      <4>3. i <= Len(txOutbox)
        BY <3>2
      <4>4. handling' \in [Consumer -> Handler]
        BY <3>4, <4>1, <4>2
      <4>5. \A b \in Consumer : handling'[b].row <= Len(txOutbox)
        BY <3>4, <4>2, <4>3
      <4> QED
        BY <2>0, <2>1, <3>1, <3>4, <4>4, <4>5, Facts, Assembled
    <3> QED
      BY <2>1, <3>3, <3>4 DEF BeginTransfer
  <2>2. ASSUME CommitTransfer(c), UNCHANGED faults \/ \E kind : Fault(kind),
               Finish(c) \/ EnterCatch(c),
               \/ notified' = notified \cup {TransferOf(c)} /\ AdvanceOffset(c)
               \/ UNCHANGED <<notified, txRead>>
        PROVE  IInv'
    <3>1. /\ handling[c].step = "moving" /\ UserFrame
          /\ balance' \in [Account -> Nat]
          /\ userProcessed \subseteq userProcessed'
          /\ userProcessed' \subseteq TxRow \X Nat
          /\ \A key \in userProcessed' : key[1] <= Len(txOutbox)
          /\ HasKey(userProcessed', TransferOf(c))
          /\ AppendUserRow("TRANFER_SUCCESS", TransferOf(c))
          /\ TransferOf(c) \in Transfer /\ status[TransferOf(c)] # "NONE"
      BY <2>2, MoveEffect DEF CommitTransfer
    <3>2. /\ handling' \in [Consumer -> Handler]
          /\ \A b \in Consumer : handling'[b].row <= Len(txOutbox)
      BY <2>2, <3>1, HandlersKept
    <3>3. txRead' \in [TxRow -> Nat] /\ notified' \subseteq Transfer
      BY <2>2, <3>1, OffsetAdvanced, Facts
    <3>4. \A t \in Transfer :
             status'[t] = "BALANCE_UPDATED" \/ t \in notified'
                => HasKey(userProcessed', t)
      BY <2>0, <2>2, <3>1, Facts, KeyKept
    <3>5. \E t \in Transfer, topic \in Topics :
             /\ AppendUserRow(topic, t)
             /\ status'[t] # "NONE"
             /\ topic = "TRANFER_SUCCESS" => HasKey(userProcessed', t)
      BY <2>0, <3>1 DEF Topics
    <3> QED
      BY <2>0, <2>2, <3>1, <3>2, <3>3, <3>4, <3>5, Facts, Assembled
  <2>3. ASSUME UserFrame, UNCHANGED <<balance, userProcessed, notified, faults>>,
               handling' \in [Consumer -> Handler],
               \A b \in Consumer : handling'[b].row <= Len(txOutbox),
               txRead' \in [TxRow -> Nat],
               \/ UNCHANGED userOutbox
               \/ \E t \in Transfer :
                     AppendUserRow("TRANFER_FAILED", t) /\ status[t] # "NONE"
        PROVE  IInv'
    <3>1. \/ UNCHANGED userOutbox
          \/ \E t \in Transfer, topic \in Topics :
                /\ AppendUserRow(topic, t)
                /\ status'[t] # "NONE"
                /\ topic = "TRANFER_SUCCESS" => HasKey(userProcessed', t)
      BY <2>0, <2>3 DEF Topics
    <3> QED
      BY <2>0, <2>3, <3>1, Facts, Assembled
  <2>4. CASE \E i \in TxRow : ReceiveTransfer(c, i) \/ TakeOverTransfer(c, i)
    BY <2>4, <2>1 DEF ReceiveTransfer, TakeOverTransfer
  <2>5. CASE TransferToAccount(c) \/ TransferThenCrash(c) \/ TransferUnacknowledged(c)
    BY <2>5, <2>2 DEF TransferToAccount, TransferThenCrash, TransferUnacknowledged
  <2>6. CASE TransferAborts(c)
    <3>1. /\ handling' \in [Consumer -> Handler]
          /\ \A b \in Consumer : handling'[b].row <= Len(txOutbox)
      BY <2>6, HandlersKept DEF TransferAborts
    <3> QED
      BY <2>6, <2>3, <3>1, Facts DEF TransferAborts
  <2>7. CASE CreateOutboxEvent(c)
    <3>1. /\ handling[c].step = "failing" /\ Finish(c) /\ AdvanceOffset(c)
          /\ AppendUserRow("TRANFER_FAILED", TransferOf(c))
          /\ UserFrame /\ UNCHANGED <<balance, userProcessed, notified, faults>>
      BY <2>7 DEF CreateOutboxEvent
    <3>2. /\ handling' \in [Consumer -> Handler]
          /\ \A b \in Consumer : handling'[b].row <= Len(txOutbox)
      BY <3>1, HandlersKept
    <3>3. /\ txRead' \in [TxRow -> Nat]
          /\ TransferOf(c) \in Transfer /\ status[TransferOf(c)] # "NONE"
      BY <3>1, OffsetAdvanced, AtWork
    <3> QED
      BY <2>3, <3>1, <3>2, <3>3
  <2>8. CASE CreateOutboxEventFails(c)
    <3>1. /\ handling' \in [Consumer -> Handler]
          /\ \A b \in Consumer : handling'[b].row <= Len(txOutbox)
      BY <2>8, HandlersKept DEF CreateOutboxEventFails
    <3> QED
      BY <2>8, <2>3, <3>1, Facts DEF CreateOutboxEventFails
  <2> QED
    BY <1>3, <2>4, <2>5, <2>6, <2>7, <2>8 DEF UserConsumer
<1>4. ASSUME NEW i \in TxRow, RedeliverTransfer(i) PROVE IInv'
  <2>1. txRead' \in [TxRow -> Nat]
    BY <1>4, Facts DEF RedeliverTransfer
  <2>2. /\ Fault("redelivery")
        /\ UNCHANGED <<validated, status, retryCount, txProcessed, txOutbox,
                       balance, handling, userProcessed, notified, userOutbox,
                       userRead>>
        /\ UNCHANGED <<txOutboxVars, userOutboxVars>>
    BY <1>4 DEF RedeliverTransfer, UserFrame, txVars, userVars
  <2> QED
    BY <2>1, <2>2, Facts, Assembled
<1>5. ASSUME NEW r \in UserRow, TxConsumer(r) PROVE IInv'
  <2>0. TxFrame => /\ UNCHANGED <<balance, handling, userProcessed, notified,
                                  userOutbox, txRead>>
                   /\ UNCHANGED <<txOutboxVars, userOutboxVars>>
    BY DEF TxFrame, userVars
  <2>1. Consume(r) => userRead' \in [UserRow -> Nat]
    BY Facts, Incremented DEF Consume
  <2>2. CASE ProcessingTransferSuccess(r)
    <3> DEFINE t == userOutbox[r].transfer
    <3>1. /\ userRead[r] < userSent[r] /\ userOutbox[r].topic = "TRANFER_SUCCESS"
          /\ Consume(r) /\ TxFrame
          /\ UNCHANGED <<validated, retryCount, txOutbox, faults>>
          /\ \/ UNCHANGED <<status, txProcessed>>
             \/ /\ status' = [status EXCEPT ![t] = "BALANCE_UPDATED"]
                /\ txProcessed' = txProcessed \cup {NextReply(r)}
      BY <2>2 DEF ProcessingTransferSuccess, ReplyReady
    <3>2. t \in Transfer /\ HasKey(userProcessed, t)
      BY <3>1, ConsumableReply, ReplyRow
    <3>3. NextReply(r) \in UserRow \X Nat
      BY Facts DEF NextReply
    <3> HIDE DEF t
    <3>4. /\ status' \in [Transfer -> TransactionStatus]
          /\ txProcessed' \subseteq UserRow \X Nat
      BY <3>1, <3>2, <3>3, Facts DEF TransactionStatus
    <3>5. \A u \in Transfer : status[u] # "NONE" => status'[u] # "NONE"
      BY <3>1, <3>2, Facts
    <3>6. \A u \in Transfer :
             status'[u] = "BALANCE_UPDATED" \/ u \in notified'
                => HasKey(userProcessed', u)
      BY <2>0, <3>1, <3>2, Facts
    <3> QED
      BY <2>0, <2>1, <3>1, <3>4, <3>5, <3>6, Facts, Assembled
  <2>3. ASSUME NEW t \in Transfer, TxFrame,
               UNCHANGED faults \/ \E kind : Fault(kind),
               UNCHANGED validated,
               userRead' \in [UserRow -> Nat],
               txProcessed' \subseteq UserRow \X Nat,
               retryCount' = [retryCount EXCEPT ![t] = @ + 1],
               \/ AppendTxRow(t) /\ status[t] # "NONE" /\ UNCHANGED status
               \/ /\ status' = [status EXCEPT ![t] = "FAILED"]
                  /\ UNCHANGED txOutbox
        PROVE  IInv'
    <3>1. retryCount' \in [Transfer -> Nat]
      BY <2>3, Facts, Incremented
    <3>2. /\ status' \in [Transfer -> TransactionStatus]
          /\ \A u \in Transfer : status[u] # "NONE" => status'[u] # "NONE"
          /\ \A u \in Transfer :
                status'[u] = "BALANCE_UPDATED" => status[u] = "BALANCE_UPDATED"
      BY <2>3, Facts DEF TransactionStatus
    <3>3. \/ UNCHANGED txOutbox
          \/ \E u \in Transfer : AppendTxRow(u) /\ status'[u] # "NONE"
      BY <2>3
    <3>4. \A u \in Transfer :
             status'[u] = "BALANCE_UPDATED" \/ u \in notified'
                => HasKey(userProcessed', u)
      BY <2>0, <2>3, <3>2, Facts
    <3> QED
      BY <2>0, <2>3, <3>1, <3>2, <3>3, <3>4, Facts, Assembled
  <2>4. CASE ProcessingTransferFailed(r)
    <3> DEFINE t == userOutbox[r].transfer
    <3>1. /\ userRead[r] < userSent[r] /\ Consume(r) /\ TxFrame
          /\ UNCHANGED <<validated, faults>>
      BY <2>4 DEF ProcessingTransferFailed, ReplyReady
    <3>2. t \in Transfer /\ status[t] # "NONE"
      BY <3>1, ConsumableReply, ReplyRow
    <3>3. NextReply(r) \in UserRow \X Nat
      BY Facts DEF NextReply
    <3>4. CASE UNCHANGED <<status, retryCount, txOutbox, txProcessed>>
      BY <2>0, <2>1, <3>1, <3>4, Facts, Assembled
    <3>5. CASE /\ retryCount' = [retryCount EXCEPT ![t] = @ + 1]
               /\ \/ /\ AppendTxRow(t) /\ UNCHANGED status
                     /\ txProcessed' = txProcessed \cup {NextReply(r)}
                  \/ /\ status' = [status EXCEPT ![t] = "FAILED"]
                     /\ UNCHANGED <<txOutbox, txProcessed>>
      <4>1. txProcessed' \subseteq UserRow \X Nat
        BY <3>3, <3>5, Facts
      <4> QED
        BY <2>1, <2>3, <3>1, <3>2, <3>5, <4>1
    <3> QED
      BY <2>4, <3>4, <3>5 DEF ProcessingTransferFailed, RecreateTransferOutboxEvent
  <2>5. CASE RecreateAfterStaleCheck(r)
    <3>1. userOutbox[r].transfer \in Transfer
      BY <2>5, ReplyRow DEF RecreateAfterStaleCheck
    <3>2. PICK t \in Transfer :
             /\ retryCount' = [retryCount EXCEPT ![t] = @ + 1]
             /\ status' = [status EXCEPT ![t] = "FAILED"]
      BY <2>5, <3>1 DEF RecreateAfterStaleCheck
    <3>3. /\ TxFrame /\ Fault("rebalance")
          /\ UNCHANGED <<validated, txProcessed, txOutbox, userRead>>
      BY <2>5 DEF RecreateAfterStaleCheck
    <3>4. txProcessed' \subseteq UserRow \X Nat /\ userRead' \in [UserRow -> Nat]
      BY <3>3, Facts
    <3>5. UNCHANGED faults \/ \E kind : Fault(kind)
      BY <3>3
    <3>6. UNCHANGED validated /\ UNCHANGED txOutbox
      BY <3>3
    <3> QED
      BY <2>3, <3>2, <3>3, <3>4, <3>5, <3>6
  <2>6. CASE DropReply(r) \/ RedeliverReply(r)
    <3>0. userRead \in [UserRow -> Nat]
      BY Facts
    <3>1. userRead' \in [UserRow -> Nat]
      BY <2>1, <2>6, <3>0 DEF DropReply, RedeliverReply
    <3>2. /\ TxFrame /\ \E kind : Fault(kind)
          /\ UNCHANGED <<validated, status, retryCount, txProcessed, txOutbox>>
      BY <2>6 DEF DropReply, RedeliverReply, txVars
    <3> QED
      BY <2>0, <3>1, <3>2, Facts, Assembled
  <2> QED
    BY <1>5, <2>2, <2>4, <2>5, <2>6 DEF TxConsumer
<1>6. CASE UNCHANGED vars
  <2>1. /\ UNCHANGED <<validated, status, retryCount, txProcessed, txOutbox,
                       balance, handling, userProcessed, notified, userOutbox,
                       txRead, userRead, faults>>
        /\ UNCHANGED <<txOutboxVars, userOutboxVars>>
    BY <1>6 DEF vars, txVars, userVars
  <2> QED
    BY <2>1, Facts, Assembled
<1> QED
  BY <1>1, <1>2, <1>3, <1>4, <1>5, <1>6 DEF Next

(* The invariant holds in every reachable state. *)
THEOREM Invariance == Spec => []IInv
<1> QED
  BY InitIInv, NextIInv, PTL DEF Spec

(* Type correctness: in particular no balance ever becomes negative, for any
   accounts, amounts, transfers, consumers and faults. *)
THEOREM TypeCorrect == Spec => []TypeOK
<1>1. IInv => TypeOK
  BY DEF IInv
<1> QED
  BY <1>1, Invariance, PTL

(* BALANCE_UPDATED and the TRANSFER_COMPLETED notification are sent only for
   a transfer whose money was moved, under every interleaving of consumers,
   crash, loss and redelivery. *)
THEOREM ReportsAreTrue == Spec => []ReportedOnlyIfMoved
<1>1. IInv => ReportedOnlyIfMoved
  BY DEF IInv, Chain
<1> QED
  BY <1>1, Invariance, PTL

(* Every row, message and reply of the saga rests on the one before it, whatever
   is repeated or interleaved. *)
THEOREM StepsRestOnSteps == Spec => []Chain
<1>1. IInv => Chain
  BY DEF IInv
<1> QED BY <1>1, Invariance, PTL

-----------------------------------------------------------------------------
(* What a step does to rows, retries and processed replies.                *)

(* A reply that is processed is recorded under a copy that was published. *)
ProcessedNext(r) ==
    /\ userRead[r] < userSent[r]
    /\ txProcessed' = txProcessed \cup {NextReply(r)}

(* Rows are only added: the first with the transaction, the others for a
   failed reply that is recorded and counted. *)
LEMMA RowStep ==
    ASSUME IInv, [Next]_vars
    PROVE  \/ /\ UNCHANGED txOutbox
              /\ \A t \in Transfer : retryCount'[t] >= retryCount[t]
              /\ \/ UNCHANGED txProcessed
                 \/ \E r \in UserRow : ProcessedNext(r)
           \/ \E t \in Transfer :
                 /\ status[t] = "NONE" /\ AppendTxRow(t)
                 /\ UNCHANGED <<retryCount, txProcessed, userOutbox>>
           \/ \E t \in Transfer : \E r \in AnswersTo(t, "TRANFER_FAILED") :
                 /\ ProcessedNext(r) /\ NextReply(r) \notin txProcessed
                 /\ retryCount[t] + 1 < MaxRetry
                 /\ AppendTxRow(t)
                 /\ retryCount' = [retryCount EXCEPT ![t] = @ + 1]
                 /\ UNCHANGED userOutbox
<1>0. /\ retryCount \in [Transfer -> Nat]
      /\ UNCHANGED retryCount => \A t \in Transfer : retryCount'[t] >= retryCount[t]
  BY Facts
<1>1. ASSUME NEW t \in Transfer, Gateway(t)
      PROVE  \/ UNCHANGED <<txOutbox, retryCount, txProcessed>>
             \/ /\ status[t] = "NONE" /\ AppendTxRow(t)
                /\ UNCHANGED <<retryCount, txProcessed, userOutbox>>
  BY <1>1 DEF Gateway, ValidateBalance, CreateTransfer, TxFrame
<1>2. CASE Worker \/ UNCHANGED vars
  <2>1. UNCHANGED <<txOutbox, retryCount, txProcessed>>
    BY <1>2 DEF Worker, TxPublish, TxMark, UserPublish, UserMark, WorkerFault,
       TxWorkerFrame, UserWorkerFrame, vars, txVars
  <2> QED
    BY <1>0, <2>1
<1>3. ASSUME NEW c \in Consumer, UserConsumer(c)
      PROVE  UNCHANGED <<txOutbox, retryCount, txProcessed>>
  BY <1>3 DEF UserConsumer, ReceiveTransfer, TakeOverTransfer, BeginTransfer,
     TransferToAccount, TransferThenCrash, TransferUnacknowledged,
     CommitTransfer, TransferAborts, CreateOutboxEvent, CreateOutboxEventFails,
     UserFrame, txVars
<1>4. ASSUME NEW i \in TxRow, RedeliverTransfer(i)
      PROVE  UNCHANGED <<txOutbox, retryCount, txProcessed>>
  BY <1>4 DEF RedeliverTransfer, UserFrame, txVars
<1>5. ASSUME NEW r \in UserRow, DropReply(r) \/ RedeliverReply(r)
      PROVE  UNCHANGED <<txOutbox, retryCount, txProcessed>>
  BY <1>5 DEF DropReply, RedeliverReply, txVars
<1>6. ASSUME NEW r \in UserRow, ProcessingTransferSuccess(r)
      PROVE  /\ UNCHANGED <<txOutbox, retryCount>>
             /\ UNCHANGED txProcessed \/ ProcessedNext(r)
  BY <1>6 DEF ProcessingTransferSuccess, ReplyReady, ProcessedNext
<1>7. ASSUME NEW r \in UserRow, r <= Len(userOutbox),
             retryCount' = [retryCount EXCEPT ![userOutbox[r].transfer] = @ + 1]
      PROVE  \A t \in Transfer : retryCount'[t] >= retryCount[t]
  <2>1. userOutbox[r].transfer \in Transfer
    BY <1>7, ReplyRow
  <2> QED
    BY <1>0, <1>7, <2>1
<1>8. ASSUME NEW r \in UserRow, RecreateAfterStaleCheck(r)
      PROVE  /\ UNCHANGED <<txOutbox, txProcessed>>
             /\ \A t \in Transfer : retryCount'[t] >= retryCount[t]
  BY <1>7, <1>8 DEF RecreateAfterStaleCheck
<1>9. ASSUME NEW r \in UserRow, ProcessingTransferFailed(r)
      PROVE  \/ /\ UNCHANGED <<txOutbox, txProcessed>>
                /\ \A t \in Transfer : retryCount'[t] >= retryCount[t]
             \/ \E t \in Transfer :
                /\ r \in AnswersTo(t, "TRANFER_FAILED")
                /\ ProcessedNext(r) /\ NextReply(r) \notin txProcessed
                /\ retryCount[t] + 1 < MaxRetry
                /\ AppendTxRow(t)
                /\ retryCount' = [retryCount EXCEPT ![t] = @ + 1]
                /\ UNCHANGED userOutbox
  <2> DEFINE t == userOutbox[r].transfer
  <2>1. r <= Len(userOutbox)
    BY <1>9, ConsumableReply DEF ProcessingTransferFailed, ReplyReady
  <2>2. t \in Transfer
    BY <2>1, ReplyRow
  <2>3. r \in 1 .. Len(userOutbox)
    BY <2>1 DEF UserRow, IInv, TypeOK
  <2>4. r \in AnswersTo(t, "TRANFER_FAILED")
    BY <1>9, <2>3 DEF ProcessingTransferFailed, ReplyReady, AnswersTo, RepliesTo
  <2>5. \/ UNCHANGED <<retryCount, txOutbox, txProcessed>>
        \/ /\ retryCount' = [retryCount EXCEPT ![t] = @ + 1]
           /\ UNCHANGED <<txOutbox, txProcessed>>
        \/ /\ retryCount' = [retryCount EXCEPT ![t] = @ + 1]
           /\ ProcessedNext(r) /\ NextReply(r) \notin txProcessed
           /\ retryCount[t] + 1 < MaxRetry
           /\ AppendTxRow(t)
           /\ UNCHANGED userOutbox
    BY <1>9 DEF ProcessingTransferFailed, ReplyReady,
       RecreateTransferOutboxEvent, ProcessedNext, TxFrame
  <2> QED
    BY <1>0, <1>7, <2>1, <2>2, <2>4, <2>5
<1> QED
  BY <1>0, <1>1, <1>2, <1>3, <1>4, <1>5, <1>6, <1>8, <1>9 DEF Next, TxConsumer

(* The numbers from 1 to n are n. *)
LEMMA CountUpTo ==
    ASSUME NEW n \in Nat
    PROVE  IsFiniteSet(1 .. n) /\ Cardinality(1 .. n) = n
BY FS_Interval

-----------------------------------------------------------------------------
(* The balances, counted in units.                                         *)

(* Money moves only with a new key and its success reply. *)
LEMMA KeyStep ==
    ASSUME IInv, [Next]_vars
    PROVE  \/ /\ UNCHANGED <<balance, userProcessed>>
              /\ \/ UNCHANGED userOutbox
                 \/ \E t \in Transfer : AppendUserRow("TRANFER_FAILED", t)
           \/ \E c \in Consumer : CommitTransfer(c)
<1>1. ASSUME NEW t \in Transfer, Gateway(t)
      PROVE  UNCHANGED <<balance, userProcessed, userOutbox>>
  BY <1>1 DEF Gateway, ValidateBalance, CreateTransfer, TxFrame, userVars
<1>2. CASE Worker \/ UNCHANGED vars
  BY <1>2 DEF Worker, TxPublish, TxMark, UserPublish, UserMark, WorkerFault,
     TxWorkerFrame, UserWorkerFrame, vars, userVars
<1>3. ASSUME NEW r \in UserRow, TxConsumer(r)
      PROVE  UNCHANGED <<balance, userProcessed, userOutbox>>
  BY <1>3 DEF TxConsumer, ProcessingTransferSuccess, ProcessingTransferFailed,
     RecreateAfterStaleCheck, DropReply, RedeliverReply, TxFrame, userVars
<1>4. ASSUME NEW i \in TxRow, RedeliverTransfer(i)
      PROVE  UNCHANGED <<balance, userProcessed, userOutbox>>
  BY <1>4 DEF RedeliverTransfer, userVars
<1>5. ASSUME NEW c \in Consumer, UserConsumer(c)
      PROVE  \/ /\ UNCHANGED <<balance, userProcessed>>
                /\ \/ UNCHANGED userOutbox
                   \/ \E t \in Transfer : AppendUserRow("TRANFER_FAILED", t)
             \/ CommitTransfer(c)
  <2>1. CASE CreateOutboxEvent(c)
    <3>1. TransferOf(c) \in Transfer
      BY <2>1, AtWork DEF CreateOutboxEvent
    <3> QED
      BY <2>1, <3>1 DEF CreateOutboxEvent
  <2>2. CASE ~ CreateOutboxEvent(c)
    BY <1>5, <2>2 DEF UserConsumer, ReceiveTransfer, TakeOverTransfer,
       BeginTransfer, TransferToAccount, TransferThenCrash,
       TransferUnacknowledged, TransferAborts, CreateOutboxEventFails
  <2> QED
    BY <2>1, <2>2
<1> QED
  BY <1>1, <1>2, <1>3, <1>4, <1>5 DEF Next

(* Every key belongs to one of the rows there are. *)
LEMMA KeyRows ==
    ASSUME IInv
    PROVE  /\ txOutbox \in Seq(Transfer) /\ Len(txOutbox) \in Nat
           /\ \A key \in userProcessed :
                 /\ key[1] \in 1 .. Len(txOutbox)
                 /\ txOutbox[key[1]] \in Transfer
<1>1. /\ txOutbox \in Seq(Transfer) /\ userProcessed \subseteq TxRow \X Nat
      /\ KeyFacts
  BY DEF IInv, TypeOK, Chain
<1>2. \A key \in userProcessed : key[1] \in 1 .. Len(txOutbox)
  BY <1>1 DEF KeyFacts, TxRow
<1> QED
  BY <1>1, <1>2

(* Finitely many keys moved finitely many units. *)
LEMMA UnitsFinite ==
    ASSUME IInv, IsFiniteSet(userProcessed), NEW accounts, NEW a
    PROVE  IsFiniteSet(Units(accounts, a))
<1> DEFINE K == {k \in userProcessed : accounts[txOutbox[k[1]]] = a}
           Part(key) == {key} \X (1 .. Amount[txOutbox[key[1]]])
           T == {Part(key) : key \in K}
           f == [key \in K |-> Part(key)]
<1>1. IsFiniteSet(K)
  <2>1. K \in SUBSET userProcessed
    OBVIOUS
  <2> QED
    BY <2>1, FS_Subset
<1>2. f \in Surjection(K, T)
  BY DEF Surjection
<1>3. IsFiniteSet(T)
  BY <1>1, <1>2, FS_Surjection
<1>4. ASSUME NEW key \in K PROVE IsFiniteSet(Part(key))
  <2>1. Amount[txOutbox[key[1]]] \in Nat
    BY KeyRows, AccountAssumption
  <2>2. IsFiniteSet({key})
    BY FS_Singleton
  <2>3. IsFiniteSet(1 .. Amount[txOutbox[key[1]]])
    BY <2>1, FS_Interval
  <2> QED
    BY <2>2, <2>3, FS_Product
<1>5. \A t \in T : IsFiniteSet(t)
  BY <1>4
<1> QED
  BY <1>3, <1>5, FS_UNION DEF Units

(* A new key adds the amount of its transfer to what its accounts moved. *)
LEMMA UnitsMoved ==
    ASSUME IInv, IsFiniteSet(userProcessed), NEW accounts, NEW a,
           NEW k, NEW t \in Transfer, k \notin userProcessed,
           k[1] \in 1 .. Len(txOutbox), txOutbox[k[1]] = t,
           userProcessed' = userProcessed \cup {k}, UNCHANGED txOutbox
    PROVE  /\ Moved(accounts, a) \in Nat
           /\ Moved(accounts, a)' =
                 IF accounts[t] = a THEN Moved(accounts, a) + Amount[t]
                                    ELSE Moved(accounts, a)
<1> DEFINE U == Units(accounts, a)
           New == {k} \X (1 .. Amount[t])
<1>1. IsFiniteSet(U) /\ Moved(accounts, a) \in Nat
  BY UnitsFinite, FS_CardinalityType DEF Moved
<1>2. CASE accounts[t] = a
  <2>1. U' = U \cup New
    BY <1>2 DEF Units
  <2>2. U \cap New = {}
    BY DEF Units
  <2>3. IsFiniteSet(New) /\ Cardinality(New) = Amount[t]
    <3>1. Amount[t] \in Nat
      BY AccountAssumption
    <3>2. /\ IsFiniteSet(1 .. Amount[t])
          /\ Cardinality(1 .. Amount[t]) = Amount[t]
      BY <3>1, CountUpTo
    <3>3. IsFiniteSet({k}) /\ Cardinality({k}) = 1
      BY FS_Singleton
    <3>4. /\ IsFiniteSet(New)
          /\ Cardinality(New) = Cardinality({k}) * Cardinality(1 .. Amount[t])
      BY <3>2, <3>3, FS_Product
    <3> QED
      BY <3>1, <3>2, <3>3, <3>4
  <2>4. Cardinality(U \cup New) = Cardinality(U) + Amount[t]
    <3>1. Cardinality(U \cup New)
             = Cardinality(U) + Cardinality(New) - Cardinality(U \cap New)
      BY <1>1, <2>3, FS_Union
    <3>2. Cardinality(U \cap New) = 0
      BY <2>2, FS_EmptySet
    <3>3. Cardinality(U) \in Nat /\ Amount[t] \in Nat
      BY <1>1, FS_CardinalityType, AccountAssumption
    <3> QED
      BY <3>1, <3>2, <3>3, <2>3
  <2> QED
    BY <1>1, <1>2, <2>1, <2>4 DEF Moved
<1>3. CASE accounts[t] # a
  <2>1. U' = U
    BY <1>3 DEF Units
  <2> QED
    BY <1>1, <1>3, <2>1 DEF Moved
<1> QED
  BY <1>2, <1>3

(* A commit moves the same units in the balances and in the keys; no other
   step touches either. *)
LEMMA BalancesKept ==
    ASSUME IInv, IsFiniteSet(userProcessed), BalancesExplained, [Next]_vars
    PROVE  IsFiniteSet(userProcessed') /\ BalancesExplained'
<1>1. CASE UNCHANGED <<balance, userProcessed>>
  <2>1. \A i \in 1 .. Len(txOutbox) : txOutbox'[i] = txOutbox[i]
    BY RowStep, TxRowAppended, KeyRows
  <2>2. \A accounts, a : Units(accounts, a)' = Units(accounts, a)
    BY <1>1, <2>1, KeyRows DEF Units
  <2> QED
    BY <1>1, <2>2 DEF BalancesExplained, Moved
<1>2. ASSUME NEW c \in Consumer, CommitTransfer(c)
      PROVE  IsFiniteSet(userProcessed') /\ BalancesExplained'
  <2> DEFINE k == KeyOf(c)
             t == TransferOf(c)
  <2>1. /\ k \notin userProcessed /\ userProcessed' = userProcessed \cup {k}
        /\ balance[From[t]] >= Amount[t]
        /\ balance' = [balance EXCEPT ![From[t]] = @ - Amount[t],
                                      ![To[t]] = @ + Amount[t]]
        /\ UNCHANGED txOutbox
    BY <1>2 DEF CommitTransfer, MoveBalances, UserFrame
  <2>2. /\ k[1] \in 1 .. Len(txOutbox) /\ txOutbox[k[1]] = t
        /\ t \in Transfer
    BY <1>2, AtWork DEF CommitTransfer, KeyOf, TransferOf
  <2> HIDE DEF k, t
  <2>3. /\ From[t] \in Account /\ To[t] \in Account /\ Amount[t] \in Nat
        /\ From[t] # To[t] /\ balance \in [Account -> Nat]
        /\ InitialBalance \in [Account -> Nat]
    BY <2>2, AccountAssumption, Facts
  <2>4. ASSUME NEW a \in Account
        PROVE  balance'[a] + Moved(From, a)' = InitialBalance[a] + Moved(To, a)'
    <3>1. /\ Moved(From, a) \in Nat
          /\ Moved(From, a)' = IF From[t] = a THEN Moved(From, a) + Amount[t]
                                              ELSE Moved(From, a)
      BY <2>1, <2>2, UnitsMoved
    <3>2. /\ Moved(To, a) \in Nat
          /\ Moved(To, a)' = IF To[t] = a THEN Moved(To, a) + Amount[t]
                                          ELSE Moved(To, a)
      BY <2>1, <2>2, UnitsMoved
    <3>3. balance'[a] = IF a = From[t] THEN balance[a] - Amount[t]
                        ELSE IF a = To[t] THEN balance[a] + Amount[t]
                        ELSE balance[a]
      BY <2>1, <2>3
    <3>4. balance[a] + Moved(From, a) = InitialBalance[a] + Moved(To, a)
      BY DEF BalancesExplained
    <3> QED
      BY <2>3, <3>1, <3>2, <3>3, <3>4
  <2>5. IsFiniteSet(userProcessed')
    BY <2>1, FS_AddElement
  <2> QED
    BY <2>4, <2>5 DEF BalancesExplained
<1> QED
  BY <1>1, <1>2, KeyStep

-----------------------------------------------------------------------------
(* Counting keys, replies, rows and retries.                               *)

(* Copies that were sent stay sent. *)
LEMMA SentGrows ==
    ASSUME IInv, [Next]_vars
    PROVE  /\ userSent \in [UserRow -> Nat]
           /\ \A r \in UserRow : userSent'[r] >= userSent[r]
<1>0. userSent \in [UserRow -> Nat]
  BY DEF IInv, TypeOK, UserWorker!TypeOK, UserWorker!Row, UserRow
<1>1. UNCHANGED userSent => \A r \in UserRow : userSent'[r] >= userSent[r]
  BY <1>0
<1>2. ASSUME NEW r \in UserRow, userSent' = [userSent EXCEPT ![r] = @ + 1]
      PROVE  \A q \in UserRow : userSent'[q] >= userSent[q]
  BY <1>0, <1>2
<1>3. ASSUME NEW t \in Transfer, Gateway(t) PROVE UNCHANGED userSent
  BY <1>3 DEF Gateway, ValidateBalance, CreateTransfer, TxFrame, userOutboxVars
<1>4. ASSUME NEW c \in Consumer, UserConsumer(c) PROVE UNCHANGED userSent
  BY <1>4 DEF UserConsumer, ReceiveTransfer, TakeOverTransfer, BeginTransfer,
     TransferToAccount, TransferThenCrash, TransferUnacknowledged,
     CommitTransfer, TransferAborts, CreateOutboxEvent, CreateOutboxEventFails,
     UserFrame, userOutboxVars
<1>5. ASSUME NEW i \in TxRow, RedeliverTransfer(i) PROVE UNCHANGED userSent
  BY <1>5 DEF RedeliverTransfer, UserFrame, userOutboxVars
<1>6. ASSUME NEW r \in UserRow, TxConsumer(r) PROVE UNCHANGED userSent
  BY <1>6 DEF TxConsumer, ProcessingTransferSuccess, ProcessingTransferFailed,
     RecreateAfterStaleCheck, DropReply, RedeliverReply, TxFrame, userOutboxVars
<1>7. CASE UNCHANGED vars \/ TxMark \/ (\E i \in TxRow : TxPublish(i))
           \/ (TxWorkerFrame /\ TxWorkerFault)
  <2>1. UNCHANGED userSent
    BY <1>7 DEF vars, TxMark, TxPublish, TxWorkerFrame, userOutboxVars
  <2> QED
    BY <1>0, <2>1, <1>1
<1>8. CASE UserMark \/ \E r \in UserRow : UserPublish(r)
  <2>1. CASE UserMark
    BY <1>0, <1>1, <2>1 DEF UserMark, UserWorker!Mark
  <2>2. ASSUME NEW r \in UserRow, UserPublish(r)
        PROVE  userSent' = [userSent EXCEPT ![r] = @ + 1]
    BY <2>2 DEF UserPublish, UserWorker!Publish
  <2> QED
    BY <1>0, <1>2, <1>8, <2>1, <2>2
<1>9. CASE UserWorkerFrame /\ UserWorkerFault
  <2>1. CASE UserWorker!Forget
    BY <1>0, <1>1, <2>1 DEF UserWorker!Forget
  <2>2. ASSUME NEW r \in UserRow, UserWorker!PublishUnconfirmed(r)
        PROVE  userSent' = [userSent EXCEPT ![r] = @ + 1]
    BY <2>2 DEF UserWorker!PublishUnconfirmed
  <2> QED
    BY <1>0, <1>2, <1>9, <2>1, <2>2 DEF UserWorkerFault
<1> QED
  BY <1>0, <1>1, <1>3, <1>4, <1>5, <1>6, <1>7, <1>8, <1>9
     DEF Next, Worker, WorkerFault

(* The sets that are counted are finite. *)
LEMMA CountedFinite ==
    ASSUME IInv, CountFacts, NEW t
    PROVE  /\ IsFiniteSet(KeysOf(t)) /\ IsFiniteSet(RowsOf(t))
           /\ IsFiniteSet(RetriesOf(t)) /\ IsFiniteSet(RepliesTo(t))
           /\ \A topic : IsFiniteSet(AnswersTo(t, topic))
<1>1. Len(txOutbox) \in Nat /\ Len(userOutbox) \in Nat
  BY DEF IInv, TypeOK
<1>2. IsFiniteSet(1 .. Len(txOutbox)) /\ IsFiniteSet(1 .. Len(userOutbox))
  BY <1>1, CountUpTo
<1>3. /\ KeysOf(t) \in SUBSET userProcessed
      /\ RetriesOf(t) \in SUBSET txProcessed
      /\ RowsOf(t) \in SUBSET (1 .. Len(txOutbox))
      /\ RepliesTo(t) \in SUBSET (1 .. Len(userOutbox))
      /\ \A topic : AnswersTo(t, topic) \in SUBSET (1 .. Len(userOutbox))
  BY DEF KeysOf, RetriesOf, RowsOf, RepliesTo, AnswersTo
<1>4. IsFiniteSet(userProcessed) /\ IsFiniteSet(txProcessed)
  BY DEF CountFacts
<1> QED
  BY <1>2, <1>3, <1>4, FS_Subset

(* A new row is one more row of its transfer and of no other. *)
LEMMA RowsCounted ==
    ASSUME IInv, CountFacts, NEW t \in Transfer, AppendTxRow(t)
    PROVE  /\ Cardinality(RowsOf(t)') = Cardinality(RowsOf(t)) + 1
           /\ \A u \in Transfer : u # t => RowsOf(u)' = RowsOf(u)
<1>1. /\ Len(txOutbox) \in Nat /\ Len(txOutbox') = Len(txOutbox) + 1
      /\ \A i \in 1 .. Len(txOutbox) : txOutbox'[i] = txOutbox[i]
      /\ txOutbox'[Len(txOutbox) + 1] = t
  BY KeyRows, TxRowAppended
<1>2. /\ RowsOf(t)' = RowsOf(t) \cup {Len(txOutbox) + 1}
      /\ Len(txOutbox) + 1 \notin RowsOf(t)
  BY <1>1 DEF RowsOf
<1>3. Cardinality(RowsOf(t)') = Cardinality(RowsOf(t)) + 1
  BY <1>2, CountedFinite, FS_AddElement
<1>4. \A u \in Transfer : u # t => RowsOf(u)' = RowsOf(u)
  BY <1>1 DEF RowsOf
<1> QED
  BY <1>3, <1>4

(* A new reply is one more answer to its transfer with its topic, and no other. *)
LEMMA AnswersCounted ==
    ASSUME IInv, CountFacts, NEW t \in Transfer, NEW topic \in Topics,
           AppendUserRow(topic, t)
    PROVE  /\ Cardinality(AnswersTo(t, topic)') = Cardinality(AnswersTo(t, topic)) + 1
           /\ \A u \in Transfer, other \in Topics :
                 /\ AnswersTo(u, other) \subseteq AnswersTo(u, other)'
                 /\ u # t \/ other # topic => AnswersTo(u, other)' = AnswersTo(u, other)
<1>1. /\ Len(userOutbox) \in Nat /\ Len(userOutbox') = Len(userOutbox) + 1
      /\ \A r \in 1 .. Len(userOutbox) : userOutbox'[r] = userOutbox[r]
      /\ userOutbox'[Len(userOutbox) + 1].topic = topic
      /\ userOutbox'[Len(userOutbox) + 1].transfer = t
  <2>1. userOutbox \in Seq(Reply)
    BY DEF IInv, TypeOK
  <2>2. /\ Len(userOutbox') = Len(userOutbox) + 1
        /\ \A r \in 1 .. Len(userOutbox) : userOutbox'[r] = userOutbox[r]
        /\ userOutbox'[Len(userOutbox) + 1] = [topic |-> topic, transfer |-> t]
    BY <2>1, UserRowAppended
  <2> QED
    BY <2>1, <2>2
<1>2. /\ AnswersTo(t, topic)' = AnswersTo(t, topic) \cup {Len(userOutbox) + 1}
      /\ Len(userOutbox) + 1 \notin AnswersTo(t, topic)
  BY <1>1 DEF AnswersTo, RepliesTo
<1>3. Cardinality(AnswersTo(t, topic)') = Cardinality(AnswersTo(t, topic)) + 1
  BY <1>2, CountedFinite, FS_AddElement
<1>4. \A u \in Transfer, other \in Topics :
         /\ AnswersTo(u, other) \subseteq AnswersTo(u, other)'
         /\ u # t \/ other # topic => AnswersTo(u, other)' = AnswersTo(u, other)
  BY <1>1 DEF AnswersTo, RepliesTo
<1> QED
  BY <1>3, <1>4

(* Answers stay answers. *)
LEMMA AnswersGrow ==
    ASSUME IInv, CountFacts, [Next]_vars
    PROVE  /\ Len(userOutbox) \in Nat /\ Len(userOutbox') \in Nat
           /\ Len(userOutbox) <= Len(userOutbox')
           /\ \A u \in Transfer, other \in Topics :
                 AnswersTo(u, other) \subseteq AnswersTo(u, other)'
<1>1. \/ UNCHANGED userOutbox
      \/ \E t \in Transfer, topic \in Topics : AppendUserRow(topic, t)
  BY KeyStep, MoveEffect DEF Topics
<1>2. userOutbox \in Seq(Reply)
  BY DEF IInv, TypeOK
<1>3. CASE UNCHANGED userOutbox
  BY <1>2, <1>3 DEF AnswersTo, RepliesTo
<1>4. ASSUME NEW t \in Transfer, NEW topic \in Topics, AppendUserRow(topic, t)
      PROVE  /\ Len(userOutbox) \in Nat /\ Len(userOutbox') \in Nat
             /\ Len(userOutbox) <= Len(userOutbox')
             /\ \A u \in Transfer, other \in Topics :
                   AnswersTo(u, other) \subseteq AnswersTo(u, other)'
  <2>0. Len(userOutbox) \in Nat
    BY <1>2
  <2>1. Len(userOutbox') = Len(userOutbox) + 1
    BY <1>2, <1>4, UserRowAppended
  <2> QED
    BY <2>0, <2>1, <1>4, AnswersCounted
<1> QED
  BY <1>1, <1>3, <1>4

(* Every key is committed with a success reply of its transfer. *)
LEMMA KeysAnswered ==
    ASSUME IInv, CountFacts, [Next]_vars, NEW t \in Transfer
    PROVE  Cardinality(KeysOf(t)') = Cardinality(AnswersTo(t, "TRANFER_SUCCESS")')
<1> DEFINE Successes == AnswersTo(t, "TRANFER_SUCCESS")
<1>1. Cardinality(KeysOf(t)) = Cardinality(Successes)
  BY DEF CountFacts
<1>2. CASE /\ UNCHANGED userProcessed
           /\ \/ UNCHANGED userOutbox
              \/ \E u \in Transfer : AppendUserRow("TRANFER_FAILED", u)
  <2>1. \A i \in 1 .. Len(txOutbox) : txOutbox'[i] = txOutbox[i]
    BY RowStep, TxRowAppended, KeyRows
  <2>2. KeysOf(t)' = KeysOf(t)
    BY <1>2, <2>1, KeyRows DEF KeysOf
  <2>3. Successes' = Successes
    <3>1. CASE UNCHANGED userOutbox
      BY <3>1 DEF AnswersTo, RepliesTo
    <3>2. ASSUME NEW u \in Transfer, AppendUserRow("TRANFER_FAILED", u)
          PROVE  Successes' = Successes
      BY <3>2, AnswersCounted DEF Topics
    <3> QED
      BY <1>2, <3>1, <3>2
  <2> QED
    BY <1>1, <2>2, <2>3
<1>3. ASSUME NEW c \in Consumer, CommitTransfer(c)
      PROVE  Cardinality(KeysOf(t)') = Cardinality(Successes')
  <2> DEFINE k == KeyOf(c)
             u == TransferOf(c)
  <2>1. /\ k \notin userProcessed /\ userProcessed' = userProcessed \cup {k}
        /\ UNCHANGED txOutbox /\ AppendUserRow("TRANFER_SUCCESS", u)
    BY <1>3 DEF CommitTransfer, UserFrame
  <2>2. txOutbox[k[1]] = u /\ u \in Transfer
    BY <1>3, AtWork DEF CommitTransfer, KeyOf, TransferOf
  <2> HIDE DEF k, u
  <2>3. CASE u = t
    <3>1. KeysOf(t)' = KeysOf(t) \cup {k} /\ k \notin KeysOf(t)
      BY <2>1, <2>2, <2>3 DEF KeysOf
    <3>2. Cardinality(KeysOf(t)') = Cardinality(KeysOf(t)) + 1
      BY <3>1, CountedFinite, FS_AddElement
    <3>3. Cardinality(Successes') = Cardinality(Successes) + 1
      BY <2>1, <2>3, AnswersCounted DEF Topics
    <3> QED
      BY <1>1, <3>2, <3>3
  <2>4. CASE u # t
    <3>1. KeysOf(t)' = KeysOf(t)
      BY <2>1, <2>2, <2>4 DEF KeysOf
    <3>2. Successes' = Successes
      BY <2>1, <2>2, <2>4, AnswersCounted DEF Topics
    <3> QED
      BY <1>1, <3>1, <3>2
  <2> QED
    BY <2>3, <2>4
<1> QED
  BY <1>2, <1>3, KeyStep

(* What is recorded in processed_events is a copy that was sent of a reply
   that exists. *)
LEMMA ProcessedKept ==
    ASSUME IInv, CountFacts, [Next]_vars
    PROVE  /\ IsFiniteSet(txProcessed') /\ txProcessed \subseteq txProcessed'
           /\ \A key \in txProcessed' :
                 /\ key[1] \in 1 .. Len(userOutbox')
                 /\ key[2] \in 1 .. userSent'[key[1]]
<1>1. UNCHANGED txProcessed \/ \E r \in UserRow : ProcessedNext(r)
  <2>1. Len(userOutbox) \in Nat /\ Len(userOutbox) <= MaxUserRows
    BY DEF IInv, TypeOK
  <2>2. \A t \in Transfer : AnswersTo(t, "TRANFER_FAILED") \subseteq UserRow
    BY <2>1, BoundAssumption DEF AnswersTo, RepliesTo, UserRow
  <2> QED
    BY <2>2, RowStep
<1>2. /\ userSent \in [UserRow -> Nat]
      /\ \A r \in UserRow : userSent'[r] >= userSent[r]
      /\ Len(userOutbox) \in Nat /\ Len(userOutbox') \in Nat
      /\ Len(userOutbox) <= Len(userOutbox')
      /\ txProcessed \subseteq UserRow \X Nat
  BY SentGrows, AnswersGrow, Facts
<1>3. \A r \in UserRow : userSent'[r] \in Nat
  BY NextIInv DEF IInv, TypeOK, UserWorker!TypeOK, UserWorker!Row, UserRow
<1>4. ASSUME NEW key \in UserRow \X Nat, key[1] \in 1 .. Len(userOutbox),
             key[2] \in 1 .. userSent[key[1]]
      PROVE  key[1] \in 1 .. Len(userOutbox') /\ key[2] \in 1 .. userSent'[key[1]]
  <2>1. key[1] \in UserRow /\ key[2] \in Nat
    BY <1>4
  <2> QED
    BY <1>2, <1>3, <1>4, <2>1
<1>5. \A key \in txProcessed : key[1] \in 1 .. Len(userOutbox) /\ key[2] \in 1 .. userSent[key[1]]
  BY DEF CountFacts
<1>6. ASSUME NEW r \in UserRow, ProcessedNext(r)
      PROVE  /\ NextReply(r) \in UserRow \X Nat
             /\ NextReply(r)[1] \in 1 .. Len(userOutbox)
             /\ NextReply(r)[2] \in 1 .. userSent[NextReply(r)[1]]
  <2>1. r <= Len(userOutbox) /\ userRead[r] < userSent[r]
    BY <1>6, ConsumableReply DEF ProcessedNext
  <2>2. userRead \in [UserRow -> Nat]
    BY Facts
  <2> QED
    BY <1>2, <2>1, <2>2 DEF NextReply, UserRow
<1>7. CASE UNCHANGED txProcessed
  BY <1>2, <1>4, <1>5, <1>7 DEF CountFacts
<1>8. ASSUME NEW r \in UserRow, ProcessedNext(r)
      PROVE  /\ IsFiniteSet(txProcessed') /\ txProcessed \subseteq txProcessed'
             /\ \A key \in txProcessed' :
                   /\ key[1] \in 1 .. Len(userOutbox')
                   /\ key[2] \in 1 .. userSent'[key[1]]
  <2>1. txProcessed' = txProcessed \cup {NextReply(r)}
    BY <1>8 DEF ProcessedNext
  <2>2. IsFiniteSet(txProcessed')
    BY <2>1, FS_AddElement DEF CountFacts
  <2>3. NextReply(r)[1] \in 1 .. Len(userOutbox') /\ NextReply(r)[2] \in 1 .. userSent'[NextReply(r)[1]]
    BY <1>4, <1>6, <1>8
  <2>4. \A key \in txProcessed : key[1] \in 1 .. Len(userOutbox') /\ key[2] \in 1 .. userSent'[key[1]]
    BY <1>2, <1>4, <1>5
  <2> QED
    BY <2>1, <2>2, <2>3, <2>4
<1> QED
  BY <1>1, <1>7, <1>8

(* A transfer has a first row, and one more for every retry: none is written
   without its key and its count. *)
LEMMA RowsPaidFor ==
    ASSUME IInv, CountFacts, RetryBudget, [Next]_vars, NEW u \in Transfer
    PROVE  /\ Cardinality(RowsOf(u)') <= 1 + Cardinality(RetriesOf(u)')
           /\ Cardinality(RowsOf(u)') <= 1 + retryCount'[u]
           /\ Cardinality(RowsOf(u)') <= IF MaxRetry = 0 THEN 1 ELSE MaxRetry
<1>0. /\ Cardinality(RowsOf(u)) <= 1 + Cardinality(RetriesOf(u))
      /\ Cardinality(RowsOf(u)) <= 1 + retryCount[u]
      /\ Cardinality(RowsOf(u)) <= IF MaxRetry = 0 THEN 1 ELSE MaxRetry
      /\ Cardinality(RowsOf(u)) \in Nat /\ Cardinality(RetriesOf(u)) \in Nat
      /\ retryCount \in [Transfer -> Nat] /\ MaxRetry \in Nat
  BY CountedFinite, FS_CardinalityType, Facts, RetryAssumption DEF CountFacts, RetryBudget
<1>1. retryCount' \in [Transfer -> Nat]
  BY NextIInv DEF IInv, TypeOK
<1>2. /\ IsFiniteSet(RetriesOf(u)') /\ RetriesOf(u) \subseteq RetriesOf(u)'
      /\ Cardinality(RetriesOf(u)') \in Nat
      /\ Cardinality(RetriesOf(u)) <= Cardinality(RetriesOf(u)')
  <2>1. RetriesOf(u) \subseteq RetriesOf(u)'
    BY ProcessedKept, AnswersGrow DEF RetriesOf, Topics
  <2>2. RetriesOf(u)' \in SUBSET txProcessed'
    BY DEF RetriesOf
  <2>3. IsFiniteSet(RetriesOf(u)')
    BY <2>2, ProcessedKept, FS_Subset
  <2> QED
    BY <2>1, <2>3, FS_Subset, FS_CardinalityType
<1>3. CASE UNCHANGED txOutbox /\ \A t \in Transfer : retryCount'[t] >= retryCount[t]
  <2>1. RowsOf(u)' = RowsOf(u)
    BY <1>3 DEF RowsOf
  <2> QED
    BY <2>1, <1>0, <1>1, <1>2, <1>3
<1>4. ASSUME NEW t \in Transfer, status[t] = "NONE", AppendTxRow(t),
             UNCHANGED retryCount
      PROVE  /\ Cardinality(RowsOf(u)') <= 1 + Cardinality(RetriesOf(u)')
             /\ Cardinality(RowsOf(u)') <= 1 + retryCount'[u]
             /\ Cardinality(RowsOf(u)') <= IF MaxRetry = 0 THEN 1 ELSE MaxRetry
  <2>1. CASE u = t
    <3>1. RowsOf(t) = {}
      BY <1>4 DEF RowsOf, RowFacts, IInv, Chain
    <3>2. Cardinality(RowsOf(u)') = 1
      BY <2>1, <3>1, <1>4, RowsCounted, FS_EmptySet
    <3> QED
      BY <3>2, <1>0, <1>1, <1>2
  <2>2. CASE u # t
    <3>1. RowsOf(u)' = RowsOf(u)
      BY <2>2, <1>4, RowsCounted
    <3> QED
      BY <3>1, <1>0, <1>2, <1>4
  <2> QED
    BY <2>1, <2>2
<1>5. ASSUME NEW t \in Transfer, NEW r \in AnswersTo(t, "TRANFER_FAILED"),
             ProcessedNext(r), NextReply(r) \notin txProcessed,
             retryCount[t] + 1 < MaxRetry, AppendTxRow(t),
             retryCount' = [retryCount EXCEPT ![t] = @ + 1],
             UNCHANGED userOutbox
      PROVE  /\ Cardinality(RowsOf(u)') <= 1 + Cardinality(RetriesOf(u)')
             /\ Cardinality(RowsOf(u)') <= 1 + retryCount'[u]
             /\ Cardinality(RowsOf(u)') <= IF MaxRetry = 0 THEN 1 ELSE MaxRetry
  <2>1. CASE u = t
    <3>1. Cardinality(RowsOf(u)') = Cardinality(RowsOf(u)) + 1
      BY <2>1, <1>5, RowsCounted
    <3>2. retryCount'[u] = retryCount[u] + 1 /\ retryCount[u] \in Nat
      BY <2>1, <1>0, <1>5
    <3>3. /\ RetriesOf(u)' = RetriesOf(u) \cup {NextReply(r)}
          /\ NextReply(r) \notin RetriesOf(u)
      BY <2>1, <1>5 DEF RetriesOf, AnswersTo, RepliesTo, ProcessedNext, NextReply
    <3>4. Cardinality(RetriesOf(u)') = Cardinality(RetriesOf(u)) + 1
      BY <3>3, CountedFinite, FS_AddElement
    <3> QED
      BY <2>1, <3>1, <3>2, <3>4, <1>0, <1>5
  <2>2. CASE u # t
    <3>1. RowsOf(u)' = RowsOf(u)
      BY <2>2, <1>5, RowsCounted
    <3>2. retryCount'[u] = retryCount[u]
      BY <2>2, <1>0, <1>5
    <3> QED
      BY <3>1, <3>2, <1>0, <1>2
  <2> QED
    BY <2>1, <2>2
<1> QED
  BY <1>3, <1>4, <1>5, RowStep

(* All the counts are kept. *)
LEMMA CountsKept ==
    ASSUME IInv, BalancesExplained, CountFacts, RetryBudget, [Next]_vars
    PROVE  BalancesExplained' /\ CountFacts' /\ RetryBudget'
<1>1. IsFiniteSet(userProcessed') /\ BalancesExplained'
  BY BalancesKept DEF CountFacts
<1>2. CountFacts'
  BY <1>1, ProcessedKept, KeysAnswered, RowsPaidFor DEF CountFacts
<1>3. RetryBudget'
  BY RowsPaidFor DEF RetryBudget
<1> QED
  BY <1>1, <1>2, <1>3

(* When every reply was sent once, there are at most as many retries as failed
   replies: so more moves than one mean more replies than rows. *)
LEMMA MovesCounted ==
    ASSUME IInv, CountFacts, NEW t \in Transfer,
           Cardinality(KeysOf(t)) > 1,
           \A r \in RepliesTo(t) : ~(userSent[r] > 1)
    PROVE  Cardinality(RepliesTo(t)) > Cardinality(RowsOf(t))
<1> DEFINE S == AnswersTo(t, "TRANFER_SUCCESS")
           F == AnswersTo(t, "TRANFER_FAILED")
<1>1. /\ Cardinality(KeysOf(t)) = Cardinality(S)
      /\ Cardinality(RowsOf(t)) <= 1 + Cardinality(RetriesOf(t))
  BY DEF CountFacts
<1>2. /\ IsFiniteSet(S) /\ IsFiniteSet(F)
      /\ Cardinality(S) \in Nat /\ Cardinality(F) \in Nat
      /\ Cardinality(RetriesOf(t)) \in Nat /\ Cardinality(RowsOf(t)) \in Nat
  BY CountedFinite, FS_CardinalityType
<1>3. Cardinality(RepliesTo(t)) = Cardinality(S) + Cardinality(F)
  <2>1. userOutbox \in Seq(Reply)
    BY DEF IInv, TypeOK
  <2>2. \A r \in 1 .. Len(userOutbox) :
           userOutbox[r].topic \in {"TRANFER_SUCCESS", "TRANFER_FAILED"}
    <3>1. \A r \in 1 .. Len(userOutbox) : userOutbox[r] \in Reply
      BY <2>1
    <3> QED
      BY <3>1 DEF Reply
  <2>3. RepliesTo(t) = S \cup F
    BY <2>2 DEF AnswersTo, RepliesTo
  <2>4. S \cap F = {}
    BY DEF AnswersTo
  <2>5. Cardinality(S \cap F) = 0
    BY <2>4, FS_EmptySet
  <2>6. Cardinality(S \cup F)
           = Cardinality(S) + Cardinality(F) - Cardinality(S \cap F)
    BY <1>2, FS_Union
  <2> HIDE DEF S, F
  <2> QED
    BY <2>3, <2>5, <2>6, <1>2
<1>4. Cardinality(RetriesOf(t)) <= Cardinality(F)
  <2>1. RetriesOf(t) \subseteq F \X {1}
    <3>1. userSent \in [UserRow -> Nat] /\ txProcessed \subseteq UserRow \X Nat
      BY Facts DEF IInv, TypeOK, UserWorker!TypeOK, UserWorker!Row, UserRow
    <3>2. ASSUME NEW key \in RetriesOf(t) PROVE key \in F \X {1}
      <4>1. /\ key \in UserRow \X Nat /\ key[1] \in F
            /\ key[2] \in 1 .. userSent[key[1]]
        BY <3>1, <3>2 DEF RetriesOf, CountFacts
      <4>2. key[1] \in RepliesTo(t)
        BY <4>1 DEF AnswersTo
      <4>3. key[1] \in UserRow /\ key = <<key[1], key[2]>>
        BY <4>1
      <4>4. userSent[key[1]] \in Nat /\ ~(userSent[key[1]] > 1)
        BY <4>2, <4>3, <3>1
      <4>5. key[2] = 1
        BY <4>1, <4>4
      <4> QED
        BY <4>1, <4>3, <4>5
    <3> QED
      BY <3>2
  <2>2. IsFiniteSet({1}) /\ Cardinality({1}) = 1
    BY FS_Singleton
  <2>3. /\ IsFiniteSet(F \X {1})
        /\ Cardinality(F \X {1}) = Cardinality(F) * Cardinality({1})
    BY <1>2, <2>2, FS_Product
  <2>4. Cardinality(RetriesOf(t)) <= Cardinality(F \X {1})
    BY <2>1, <2>3, FS_Subset
  <2> HIDE DEF F
  <2> QED
    BY <2>2, <2>3, <2>4, <1>2
<1> HIDE DEF S, F
<1> QED
  BY <1>1, <1>2, <1>3, <1>4

-----------------------------------------------------------------------------
(* The saga without faults: the two services take turns.                   *)

(* The steps that are not faults. *)
CalmStep ==
    \/ \E t \in Transfer : Gateway(t)
    \/ (\E i \in TxRow : TxPublish(i)) \/ TxMark
    \/ (\E r \in UserRow : UserPublish(r)) \/ UserMark
    \/ \E c \in Consumer :
          \/ \E i \in TxRow : ReceiveTransfer(c, i)
          \/ TransferToAccount(c) \/ TransferAborts(c)
          \/ CreateOutboxEvent(c) \/ CreateOutboxEventFails(c)
    \/ \E r \in UserRow :
          ProcessingTransferSuccess(r) \/ ProcessingTransferFailed(r)
    \/ UNCHANGED vars

(* A behaviour that ends without faults had none, and this step is none. *)
LEMMA NoFaultYet ==
    ASSUME IInv, [Next]_vars, faults' = 0
    PROVE  faults = 0 /\ CalmStep
<1>0. faults \in Nat
  BY BoundAssumption DEF IInv, TypeOK, TxWorker!TypeOK
<1>1. \A kind : ~ Fault(kind)
  BY <1>0 DEF Fault
<1>2. ~ WorkerFault
  <2>1. ~ TxWorkerFault
    BY <1>0 DEF TxWorkerFault, TxWorker!Forget, TxWorker!PublishUnconfirmed,
       TxWorker!Fault
  <2>2. ~ UserWorkerFault
    BY <1>0 DEF UserWorkerFault, UserWorker!Forget,
       UserWorker!PublishUnconfirmed, UserWorker!Fault
  <2> QED
    BY <2>1, <2>2 DEF WorkerFault
<1>3. /\ \A c \in Consumer : /\ ~ TransferThenCrash(c) /\ ~ TransferUnacknowledged(c)
                             /\ \A i \in TxRow : ~ TakeOverTransfer(c, i)
      /\ \A i \in TxRow : ~ RedeliverTransfer(i)
  BY <1>1 DEF TransferThenCrash, TransferUnacknowledged, TakeOverTransfer,
     RedeliverTransfer
<1>4. \A r \in UserRow : /\ ~ RecreateAfterStaleCheck(r) /\ ~ DropReply(r)
                         /\ ~ RedeliverReply(r)
  BY <1>1 DEF RecreateAfterStaleCheck, DropReply, RedeliverReply
<1>5. CalmStep
  BY <1>2, <1>3, <1>4 DEF Next, Worker, UserConsumer, TxConsumer, CalmStep
<1>6. UNCHANGED faults
  <2>1. CASE \E t \in Transfer : Gateway(t)
    BY <2>1 DEF Gateway, ValidateBalance, CreateTransfer
  <2>2. CASE \/ (\E i \in TxRow : TxPublish(i)) \/ TxMark
             \/ (\E r \in UserRow : UserPublish(r)) \/ UserMark
    BY <2>2 DEF TxPublish, TxMark, UserPublish, UserMark, TxWorker!Publish,
       TxWorker!Mark, UserWorker!Publish, UserWorker!Mark
  <2>3. CASE \E c \in Consumer :
                \/ \E i \in TxRow : ReceiveTransfer(c, i)
                \/ TransferToAccount(c) \/ TransferAborts(c)
                \/ CreateOutboxEvent(c) \/ CreateOutboxEventFails(c)
    BY <2>3 DEF ReceiveTransfer, TransferToAccount, TransferAborts,
       CreateOutboxEvent, CreateOutboxEventFails
  <2>4. CASE \E r \in UserRow :
                ProcessingTransferSuccess(r) \/ ProcessingTransferFailed(r)
    BY <2>4 DEF ProcessingTransferSuccess, ProcessingTransferFailed
  <2>5. CASE UNCHANGED vars
    BY <2>5 DEF vars
  <2> QED
    BY <1>5, <2>1, <2>2, <2>3, <2>4, <2>5 DEF CalmStep
<1> QED
  BY <1>5, <1>6

(* Without faults a row that was published waits to be marked or is marked, so
   it is never published again. *)
LEMMA PublishedOnceKept ==
    ASSUME IInv, PublishedOnce, CalmStep
    PROVE  PublishedOnce'
<1>0. txSent \in [TxRow -> Nat] /\ userSent \in [UserRow -> Nat]
  BY DEF IInv, TypeOK, TxWorker!TypeOK, UserWorker!TypeOK, TxWorker!Row,
     UserWorker!Row, TxRow, UserRow
<1>1. UNCHANGED <<txOutboxVars, userOutboxVars>> => PublishedOnce'
  BY DEF PublishedOnce, txOutboxVars, userOutboxVars
<1>2. CASE \E t \in Transfer : Gateway(t)
  BY <1>1, <1>2 DEF Gateway, ValidateBalance, CreateTransfer, TxFrame
<1>3. ASSUME NEW i \in TxRow, TxPublish(i) PROVE PublishedOnce'
  <2>1. /\ i \notin txMarked \cup txAwaiting
        /\ txSent' = [txSent EXCEPT ![i] = @ + 1]
        /\ txAwaiting' = txAwaiting \cup {i}
        /\ UNCHANGED <<txMarked, userMarked, userAwaiting, userSent>>
    BY <1>3 DEF TxPublish, TxWorker!Publish, TxWorker!Publishable,
       TxWorkerFrame, userOutboxVars
  <2>2. txSent[i] = 0
    BY <2>1, <1>0 DEF PublishedOnce
  <2> QED
    BY <2>1, <2>2, <1>0 DEF PublishedOnce
<1>4. ASSUME NEW r \in UserRow, UserPublish(r) PROVE PublishedOnce'
  <2>1. /\ r \notin userMarked \cup userAwaiting
        /\ userSent' = [userSent EXCEPT ![r] = @ + 1]
        /\ userAwaiting' = userAwaiting \cup {r}
        /\ UNCHANGED <<userMarked, txMarked, txAwaiting, txSent>>
    BY <1>4 DEF UserPublish, UserWorker!Publish, UserWorker!Publishable,
       UserWorkerFrame, txOutboxVars
  <2>2. userSent[r] = 0
    BY <2>1, <1>0 DEF PublishedOnce
  <2> QED
    BY <2>1, <2>2, <1>0 DEF PublishedOnce
<1>5. CASE TxMark
  BY <1>5 DEF TxMark, TxWorker!Mark, TxWorkerFrame, userOutboxVars, PublishedOnce
<1>6. CASE UserMark
  BY <1>6 DEF UserMark, UserWorker!Mark, UserWorkerFrame, txOutboxVars,
     PublishedOnce
<1>7. CASE \E c \in Consumer :
              \/ \E i \in TxRow : ReceiveTransfer(c, i)
              \/ TransferToAccount(c) \/ TransferAborts(c)
              \/ CreateOutboxEvent(c) \/ CreateOutboxEventFails(c)
  BY <1>1, <1>7 DEF ReceiveTransfer, BeginTransfer, TransferToAccount,
     CommitTransfer, TransferAborts, CreateOutboxEvent,
     CreateOutboxEventFails, UserFrame
<1>8. CASE \E r \in UserRow :
              ProcessingTransferSuccess(r) \/ ProcessingTransferFailed(r)
  BY <1>1, <1>8 DEF ProcessingTransferSuccess, ProcessingTransferFailed, TxFrame
<1>9. CASE UNCHANGED vars
  BY <1>1, <1>9 DEF vars
<1> QED
  BY <1>2, <1>3, <1>4, <1>5, <1>6, <1>7, <1>8, <1>9 DEF CalmStep

(* Rows and replies are numbered within their bounds and are about transfers. *)
LEMMA PendingTypes ==
    ASSUME IInv
    PROVE  /\ Len(txOutbox) \in Nat /\ Len(userOutbox) \in Nat
           /\ \A i \in 1 .. Len(txOutbox) : i \in TxRow /\ txOutbox[i] \in Transfer
           /\ \A r \in 1 .. Len(userOutbox) :
                 /\ r \in UserRow
                 /\ userOutbox[r].transfer \in Transfer
                 /\ userOutbox[r].topic \in Topics
           /\ txRead \in [TxRow -> Nat] /\ userRead \in [UserRow -> Nat]
           /\ status \in [Transfer -> TransactionStatus]
<1>1. /\ txOutbox \in Seq(Transfer) /\ Len(txOutbox) <= MaxTxRows
      /\ userOutbox \in Seq(Reply) /\ Len(userOutbox) <= MaxUserRows
  BY DEF IInv, TypeOK
<1>2. \A r \in 1 .. Len(userOutbox) : userOutbox[r] \in Reply
  BY <1>1
<1>3. \A r \in 1 .. Len(userOutbox) :
         /\ r \in UserRow
         /\ userOutbox[r].transfer \in Transfer
         /\ userOutbox[r].topic \in Topics
  BY <1>1, <1>2, BoundAssumption DEF Reply, UserRow, Topics
<1>4. \A i \in 1 .. Len(txOutbox) : i \in TxRow /\ txOutbox[i] \in Transfer
  BY <1>1, BoundAssumption DEF TxRow
<1> QED
  BY <1>1, <1>3, <1>4 DEF IInv, TypeOK

(* A message or a reply that can be consumed was published once and not read. *)
LEMMA ConsumableIsPending ==
    ASSUME IInv, PublishedOnce
    PROVE  /\ \A i \in TxRow : txRead[i] < txSent[i] => PendingRow(i)
           /\ \A r \in UserRow : userRead[r] < userSent[r] => PendingReply(r)
<1>1. /\ txSent \in [TxRow -> Nat] /\ userSent \in [UserRow -> Nat]
      /\ txRead \in [TxRow -> Nat] /\ userRead \in [UserRow -> Nat]
  BY DEF IInv, TypeOK, TxWorker!TypeOK, UserWorker!TypeOK, TxWorker!Row,
     UserWorker!Row, TxRow, UserRow
<1>2. ASSUME NEW i \in TxRow, txRead[i] < txSent[i] PROVE PendingRow(i)
  <2>1. i \in 1 .. Len(txOutbox)
    BY <1>2, ConsumableRow
  <2>2. txRead[i] = 0
    BY <1>1, <1>2 DEF PublishedOnce
  <2> QED
    BY <2>1, <2>2 DEF PendingRow
<1>3. ASSUME NEW r \in UserRow, userRead[r] < userSent[r] PROVE PendingReply(r)
  <2>1. r <= Len(userOutbox)
    BY <1>3, ConsumableReply
  <2>2. userRead[r] = 0
    BY <1>1, <1>3 DEF PublishedOnce
  <2> QED
    BY <2>1, <2>2, PendingTypes DEF PendingReply, UserRow
<1> QED
  BY <1>2, <1>3

(* A consumer that ends its message moves the offset past it. *)
LEMMA OffsetPassed ==
    ASSUME IInv, NEW c \in Consumer, handling[c].copy = 1,
           PendingRow(handling[c].row), AdvanceOffset(c)
    PROVE  txRead' = [txRead EXCEPT ![handling[c].row] = 1]
BY DEF AdvanceOffset, PendingRow

(* Without faults a message has one handler at most, and it is pending until
   that handler ends it: nobody handles it again. *)
LEMMA HandledOnceKept ==
    ASSUME IInv, PublishedOnce, HandledOnce, CalmStep
    PROVE  HandledOnce'
<1>0. /\ handling \in [Consumer -> Handler] /\ txRead \in [TxRow -> Nat]
      /\ Len(txOutbox) \in Nat /\ Len(txOutbox') \in Nat
      /\ Len(txOutbox) <= Len(txOutbox')
  <2>1. txOutbox \in Seq(Transfer)
    BY DEF IInv, TypeOK
  <2>2. UNCHANGED txOutbox \/ \E t \in Transfer : AppendTxRow(t)
    <3>1. CalmStep => [Next]_vars
      BY DEF CalmStep, Next, Worker, UserConsumer, TxConsumer
    <3> QED
      BY <3>1, RowStep
  <2>3. CASE UNCHANGED txOutbox
    BY <2>1, <2>3, Facts
  <2>4. ASSUME NEW t \in Transfer, AppendTxRow(t)
        PROVE  Len(txOutbox') = Len(txOutbox) + 1
    BY <2>1, <2>4, TxRowAppended
  <2>5. Len(txOutbox) \in Nat
    BY <2>1
  <2> QED
    BY <2>2, <2>3, <2>4, <2>5, Facts
<1>1. UNCHANGED <<handling, txRead>> => HandledOnce'
  BY <1>0 DEF HandledOnce, PendingRow
<1>2. ASSUME NEW c \in Consumer, handling[c] # Idle
      PROVE  handling[c].row \in TxRow /\ handling[c].row \in 1 .. Len(txOutbox)
  <2>1. handling[c].step \in {"moving", "failing"}
    BY <1>0, <1>2 DEF Handler, Idle
  <2> QED
    BY <2>1, AtWork
<1>3. ASSUME NEW c \in Consumer, NEW i \in TxRow, ReceiveTransfer(c, i)
      PROVE  HandledOnce'
  <2>1. /\ \A b \in Consumer : handling[b].row # i
        /\ UNCHANGED txOutbox /\ txRead[i] < txSent[i]
        /\ \/ /\ txRead' = [txRead EXCEPT ![i] = @ + 1]
              /\ UNCHANGED handling
           \/ Handle(c, i) /\ UNCHANGED txRead
    BY <1>3 DEF ReceiveTransfer, BeginTransfer, UserFrame
  <2>2. PendingRow(i)
    BY <2>1, ConsumableIsPending
  <2>3. CASE /\ txRead' = [txRead EXCEPT ![i] = @ + 1]
             /\ UNCHANGED handling
    BY <2>1, <2>3, <1>0, <1>2 DEF HandledOnce, PendingRow
  <2>4. CASE Handle(c, i) /\ UNCHANGED txRead
    <3> PICK s \in {"moving", "failing"} :
            handling' = [handling EXCEPT ![c] =
               [row |-> i, copy |-> txRead[i] + 1, step |-> s]]
      BY <2>4 DEF Handle
    <3>1. /\ handling'[c].row = i /\ handling'[c].copy = 1
          /\ \A b \in Consumer : b # c => handling'[b] = handling[b]
      BY <2>2, <2>4, <1>0 DEF PendingRow
    <3>2. \A b \in Consumer : b # c => handling'[b].row # i
      BY <2>1, <3>1
    <3>3. PendingRow(i)'
      BY <2>1, <2>2, <2>4 DEF PendingRow
    <3>4. ASSUME NEW b \in Consumer, b # c, handling'[b] # Idle
          PROVE  /\ handling'[b].copy = 1 /\ PendingRow(handling[b].row)'
                 /\ \A d \in Consumer : handling'[d].row = handling'[b].row => d = b
      BY <3>1, <3>2, <3>4, <2>1, <2>4 DEF HandledOnce, PendingRow
    <3> QED
      BY <3>1, <3>2, <3>3, <3>4 DEF HandledOnce, PendingRow
  <2> QED
    BY <2>1, <2>3, <2>4
<1>4. ASSUME NEW c \in Consumer, handling[c] # Idle,
             Finish(c) \/ (handling[c].step = "moving" /\ EnterCatch(c)),
             UNCHANGED txRead \/ (AdvanceOffset(c) /\ Finish(c))
      PROVE  HandledOnce'
  <2>1. /\ handling[c].copy = 1 /\ PendingRow(handling[c].row)
        /\ \A b \in Consumer : handling[b].row = handling[c].row => b = c
    BY <1>4 DEF HandledOnce
  <2>2. CASE UNCHANGED txRead
    <3>1. \A b \in Consumer : b # c => handling'[b] = handling[b]
      BY <1>4, <1>0 DEF Finish, EnterCatch
    <3>2. /\ handling'[c] # Idle => /\ handling'[c].copy = handling[c].copy
                                    /\ handling'[c].row = handling[c].row
          /\ handling'[c].row \in {handling[c].row, 0}
      <4>1. CASE Finish(c)
        BY <4>1, <1>0 DEF Finish, Idle
      <4>2. CASE handling[c].step = "moving" /\ EnterCatch(c)
        <5>1. handling'[c] = [handling[c] EXCEPT !.step = "failing"]
          BY <4>2, <1>0 DEF EnterCatch
        <5>2. handling[c] = [row |-> handling[c].row, copy |-> handling[c].copy,
                             step |-> handling[c].step]
          BY <4>2, AtWork
        <5> QED
          BY <5>1, <5>2
      <4> QED
        BY <1>4, <4>1, <4>2
    <3>3. ASSUME NEW b \in Consumer, handling'[b] # Idle
          PROVE  /\ handling'[b].copy = 1 /\ handling'[b].row = handling[b].row
                 /\ handling[b] # Idle
                 /\ PendingRow(handling[b].row) /\ handling[b].row \in TxRow
                 /\ \A d \in Consumer : handling'[d].row = handling'[b].row => d = b
      <4>1. handling[b] # Idle
        BY <1>4, <3>1, <3>3
      <4>2. /\ handling[b].copy = 1 /\ PendingRow(handling[b].row)
            /\ handling[b].row \in TxRow /\ handling[b].row # 0
            /\ \A d \in Consumer : handling[d].row = handling[b].row => d = b
        BY <4>1, <1>2 DEF HandledOnce, TxRow
      <4>3. handling'[b].copy = 1 /\ handling'[b].row = handling[b].row
        BY <4>2, <3>1, <3>2, <3>3
      <4> QED
        BY <4>1, <4>2, <4>3, <3>1, <3>2
    <3> QED
      BY <2>2, <3>3, <1>0 DEF HandledOnce, PendingRow
  <2>3. CASE AdvanceOffset(c) /\ Finish(c)
    <3>1. txRead' = [txRead EXCEPT ![handling[c].row] = 1]
      BY <2>1, <2>3, OffsetPassed
    <3>2. handling' = [handling EXCEPT ![c] = Idle]
      BY <2>3 DEF Finish
    <3>3. handling[c].row # 0
      BY <1>2, <1>4 DEF TxRow
    <3>4. ASSUME NEW b \in Consumer, handling'[b] # Idle
          PROVE  /\ handling'[b].copy = 1 /\ handling'[b].row = handling[b].row
                 /\ handling[b].row # handling[c].row
                 /\ PendingRow(handling[b].row) /\ handling[b].row \in TxRow
                 /\ \A d \in Consumer : handling'[d].row = handling'[b].row => d = b
      <4>1. handling[b] # Idle /\ b # c /\ handling'[b] = handling[b]
        BY <3>2, <3>4, <1>0
      <4>2. /\ handling[b].copy = 1 /\ PendingRow(handling[b].row)
            /\ handling[b].row \in TxRow /\ handling[b].row # 0
            /\ \A d \in Consumer : handling[d].row = handling[b].row => d = b
        BY <4>1, <1>2 DEF HandledOnce, TxRow
      <4>3. handling[b].row # handling[c].row
        BY <4>1, <4>2
      <4>4. \A d \in Consumer : handling'[d].row = handling[b].row => d = b
        BY <4>2, <3>2, <1>0 DEF Idle
      <4> QED
        BY <4>1, <4>2, <4>3, <4>4
    <3>5. \A i \in TxRow : i # handling[c].row => txRead'[i] = txRead[i]
      BY <3>1, <1>0
    <3> QED
      BY <3>4, <3>5, <1>0 DEF HandledOnce, PendingRow
  <2> QED
    BY <1>4, <2>2, <2>3
<1>5. CASE \E t \in Transfer : Gateway(t)
  BY <1>1, <1>5 DEF Gateway, ValidateBalance, CreateTransfer, TxFrame, userVars
<1>6. CASE \/ (\E i \in TxRow : TxPublish(i)) \/ TxMark
           \/ (\E r \in UserRow : UserPublish(r)) \/ UserMark
  BY <1>1, <1>6 DEF TxPublish, TxMark, UserPublish, UserMark, TxWorkerFrame,
     UserWorkerFrame, userVars
<1>7. ASSUME NEW c \in Consumer,
             \/ TransferToAccount(c) \/ TransferAborts(c)
             \/ CreateOutboxEvent(c) \/ CreateOutboxEventFails(c)
      PROVE  HandledOnce'
  <2>1. /\ handling[c].step \in {"moving", "failing"}
        /\ Finish(c) \/ (handling[c].step = "moving" /\ EnterCatch(c))
        /\ UNCHANGED txRead \/ (AdvanceOffset(c) /\ Finish(c))
    BY <1>7 DEF TransferToAccount, CommitTransfer, TransferAborts,
       CreateOutboxEvent, CreateOutboxEventFails
  <2> QED
    BY <1>4, <2>1 DEF Idle
<1>8. CASE \E r \in UserRow :
              ProcessingTransferSuccess(r) \/ ProcessingTransferFailed(r)
  BY <1>1, <1>8 DEF ProcessingTransferSuccess, ProcessingTransferFailed,
     TxFrame, userVars
<1>9. CASE UNCHANGED vars
  BY <1>1, <1>9 DEF vars, userVars
<1> QED
  BY <1>3, <1>5, <1>6, <1>7, <1>8, <1>9 DEF CalmStep

Turns == RowHasTheTurn /\ ReplyHasTheTurn /\ MovedOnce

(* None of the keys belongs to a row of the transfer. *)
Unmoved(keys, rows, t) == \A key \in keys : rows[key[1]] # t

(* The turns, with the keys looked at one by one. *)
LEMMA TurnsMean ==
    /\ \A t : KeysOf(t) = {} <=> Unmoved(userProcessed, txOutbox, t)
    /\ RowHasTheTurn <=>
          \A i \in TxRow : PendingRow(i) =>
            /\ status[txOutbox[i]] = "PENDING"
            /\ Unmoved(userProcessed, txOutbox, txOutbox[i])
            /\ \A j \in TxRow : PendingRow(j) /\ txOutbox[j] = txOutbox[i] => j = i
            /\ \A r \in UserRow :
                  PendingReply(r) => userOutbox[r].transfer # txOutbox[i]
    /\ ReplyHasTheTurn <=>
          \A r \in UserRow : PendingReply(r) =>
            /\ status[userOutbox[r].transfer] = "PENDING"
            /\ userOutbox[r].topic = "TRANFER_FAILED"
                  => Unmoved(userProcessed, txOutbox, userOutbox[r].transfer)
            /\ \A q \in UserRow :
                  PendingReply(q) /\ userOutbox[q].transfer = userOutbox[r].transfer
                     => q = r
BY DEF RowHasTheTurn, ReplyHasTheTurn, KeysOf, Unmoved

(* The same of the turns after a step. *)
LEMMA NextTurnsMean ==
    /\ (\A i \in TxRow : PendingRow(i)' =>
            /\ status'[txOutbox'[i]] = "PENDING"
            /\ Unmoved(userProcessed', txOutbox', txOutbox'[i])
            /\ \A j \in TxRow : PendingRow(j)' /\ txOutbox'[j] = txOutbox'[i] => j = i
            /\ \A r \in UserRow :
                  PendingReply(r)' => userOutbox'[r].transfer # txOutbox'[i])
          => RowHasTheTurn'
    /\ (\A r \in UserRow : PendingReply(r)' =>
            /\ status'[userOutbox'[r].transfer] = "PENDING"
            /\ userOutbox'[r].topic = "TRANFER_FAILED"
                  => Unmoved(userProcessed', txOutbox', userOutbox'[r].transfer)
            /\ \A q \in UserRow :
                  PendingReply(q)' /\ userOutbox'[q].transfer = userOutbox'[r].transfer
                     => q = r)
          => ReplyHasTheTurn'
BY DEF RowHasTheTurn, ReplyHasTheTurn, KeysOf, Unmoved

(* Rows that are only added leave the keys of every transfer alone. *)
LEMMA KeysCarried ==
    ASSUME IInv, UNCHANGED userProcessed,
           \A i \in 1 .. Len(txOutbox) : txOutbox'[i] = txOutbox[i]
    PROVE  \A t : /\ KeysOf(t)' = KeysOf(t)
                  /\ Unmoved(userProcessed, txOutbox, t)
                        <=> Unmoved(userProcessed', txOutbox', t)
BY KeyRows DEF KeysOf, Unmoved

(* A step that touches no row, reply, key or status disturbs nobody's turn. *)
LEMMA QuietMove ==
    ASSUME Turns,
           UNCHANGED <<status, txOutbox, userOutbox, txRead, userRead, userProcessed>>
    PROVE  Turns'
BY DEF Turns, RowHasTheTurn, ReplyHasTheTurn, MovedOnce, PendingRow,
   PendingReply, KeysOf

(* createTransfer gives the first turn, to a row: a transfer that did not exist
   has none yet, and no key. *)
LEMMA CreateTransferMove ==
    ASSUME IInv, Turns, NEW t \in Transfer, CreateTransfer(t)
    PROVE  Turns'
<1>0. /\ status[t] = "NONE" /\ status' = [status EXCEPT ![t] = "PENDING"]
      /\ AppendTxRow(t)
      /\ UNCHANGED <<userOutbox, txRead, userRead, userProcessed>>
  BY DEF CreateTransfer, TxFrame, userVars
<1>1. /\ Len(txOutbox') = Len(txOutbox) + 1
      /\ \A i \in 1 .. Len(txOutbox) : txOutbox'[i] = txOutbox[i]
      /\ txOutbox'[Len(txOutbox) + 1] = t
  BY <1>0, TxRowAppended DEF IInv, TypeOK
<1>2. /\ \A i \in 1 .. Len(txOutbox) : txOutbox[i] # t
      /\ \A r \in 1 .. Len(userOutbox) : userOutbox[r].transfer # t
      /\ Unmoved(userProcessed, txOutbox, t)
  <2>1. RowFacts /\ ReplyFacts
    BY DEF IInv, Chain
  <2> QED
    BY <1>0, <2>1, KeyRows DEF RowFacts, ReplyFacts, Unmoved
<1>3. \A u \in Transfer : status'[u] = IF u = t THEN "PENDING" ELSE status[u]
  BY <1>0, PendingTypes
<1>k. \A u : /\ KeysOf(u)' = KeysOf(u)
             /\ Unmoved(userProcessed, txOutbox, u)
                   <=> Unmoved(userProcessed', txOutbox', u)
  BY <1>0, <1>1, KeysCarried
<1>p. \A i \in TxRow : PendingRow(i)' =>
         \/ i = Len(txOutbox) + 1
         \/ PendingRow(i) /\ txOutbox'[i] = txOutbox[i] /\ txOutbox[i] # t
  BY <1>0, <1>1, <1>2, PendingTypes DEF PendingRow
<1>q. \A r \in UserRow : PendingReply(r)' =>
         /\ PendingReply(r) /\ userOutbox'[r] = userOutbox[r]
         /\ userOutbox[r].transfer # t
  BY <1>0, <1>2 DEF PendingReply
<1>4. RowHasTheTurn'
  <2> SUFFICES ASSUME NEW i \in TxRow, PendingRow(i)'
               PROVE  /\ status'[txOutbox'[i]] = "PENDING"
                      /\ Unmoved(userProcessed', txOutbox', txOutbox'[i])
                      /\ \A j \in TxRow : PendingRow(j)' /\ txOutbox'[j] = txOutbox'[i]
                            => j = i
                      /\ \A r \in UserRow :
                            PendingReply(r)' => userOutbox'[r].transfer # txOutbox'[i]
    BY NextTurnsMean
  <2>1. CASE i = Len(txOutbox) + 1
    BY <2>1, <1>0, <1>1, <1>2, <1>3, <1>k, <1>p, <1>q
  <2>2. CASE i # Len(txOutbox) + 1
    <3>1. /\ PendingRow(i) /\ txOutbox'[i] = txOutbox[i]
          /\ txOutbox[i] # t /\ txOutbox[i] \in Transfer
      BY <2>2, <1>p, PendingTypes DEF PendingRow
    <3>2. \A j \in TxRow : PendingRow(j)' /\ txOutbox'[j] = txOutbox'[i] => j = i
      BY <3>1, <1>1, <1>p DEF Turns, RowHasTheTurn
    <3>3. \A r \in UserRow : PendingReply(r)' => userOutbox'[r].transfer # txOutbox'[i]
      BY <3>1, <1>q DEF Turns, RowHasTheTurn
    <3> QED
      BY <3>1, <3>2, <3>3, <1>0, <1>3, <1>k, TurnsMean DEF Turns
  <2> QED
    BY <2>1, <2>2
<1>5. ReplyHasTheTurn'
  <2> SUFFICES ASSUME NEW r \in UserRow, PendingReply(r)'
               PROVE  /\ status'[userOutbox'[r].transfer] = "PENDING"
                      /\ userOutbox'[r].topic = "TRANFER_FAILED"
                            => Unmoved(userProcessed', txOutbox', userOutbox'[r].transfer)
                      /\ \A q \in UserRow :
                            PendingReply(q)' /\ userOutbox'[q].transfer = userOutbox'[r].transfer
                               => q = r
    BY NextTurnsMean
  <2>1. /\ PendingReply(r) /\ userOutbox'[r] = userOutbox[r]
        /\ userOutbox[r].transfer # t /\ userOutbox[r].transfer \in Transfer
    BY <1>q, PendingTypes DEF PendingReply
  <2>2. \A q \in UserRow :
           PendingReply(q)' /\ userOutbox'[q].transfer = userOutbox[r].transfer => q = r
    BY <2>1, <1>q DEF Turns, ReplyHasTheTurn
  <2> QED
    BY <2>1, <2>2, <1>3, <1>k, TurnsMean DEF Turns
<1> QED
  BY <1>0, <1>3, <1>4, <1>5, <1>k DEF Turns, MovedOnce

(* user-service takes its turn: the row is consumed, and a reply appended that
   says whether the money was moved. *)
LEMMA RowMove ==
    ASSUME IInv, Turns, NEW i \in TxRow, PendingRow(i),
           txRead' = [txRead EXCEPT ![i] = 1],
           UNCHANGED <<status, txOutbox, userRead>>,
           \/ UNCHANGED <<userProcessed, userOutbox>>
           \/ /\ UNCHANGED userProcessed
              /\ AppendUserRow("TRANFER_FAILED", txOutbox[i])
           \/ \E key \in TxRow \X Nat :
                 /\ key[1] = i
                 /\ userProcessed' = userProcessed \cup {key}
                 /\ AppendUserRow("TRANFER_SUCCESS", txOutbox[i])
    PROVE  Turns'
<1>0. PICK t \in Transfer : t = txOutbox[i]
  BY PendingTypes DEF PendingRow
<1>1. /\ t \in Transfer /\ status[t] = "PENDING" /\ KeysOf(t) = {}
      /\ \A j \in TxRow : PendingRow(j) /\ txOutbox[j] = t => j = i
      /\ \A r \in UserRow : PendingReply(r) => userOutbox[r].transfer # t
  BY <1>0 DEF Turns, RowHasTheTurn
<1>2. \A j \in TxRow : PendingRow(j)' => PendingRow(j) /\ txOutbox[j] # t
  BY <1>0, <1>1, PendingTypes DEF PendingRow
<1>3. /\ Cardinality(KeysOf(t)') <= 1
      /\ \A u : u # t => /\ KeysOf(u)' = KeysOf(u)
                         /\ Unmoved(userProcessed, txOutbox, u)
                               => Unmoved(userProcessed', txOutbox', u)
      /\ UNCHANGED userProcessed => Unmoved(userProcessed', txOutbox', t)
  <2>1. CASE UNCHANGED userProcessed
    <3>1. KeysOf(t)' = {}
      BY <1>1, <2>1 DEF KeysOf
    <3>2. Cardinality(KeysOf(t)') <= 1
      BY <3>1, FS_EmptySet
    <3>3. Unmoved(userProcessed', txOutbox', t)
      BY <1>1, <2>1, TurnsMean
    <3>4. \A u : KeysOf(u)' = KeysOf(u)
      BY <2>1 DEF KeysOf
    <3> QED
      BY <3>2, <3>3, <3>4, <2>1
  <2>2. ASSUME NEW key \in TxRow \X Nat, key[1] = i,
               userProcessed' = userProcessed \cup {key}
        PROVE  /\ Cardinality(KeysOf(t)') <= 1
               /\ \A u : u # t => /\ KeysOf(u)' = KeysOf(u)
                                  /\ Unmoved(userProcessed, txOutbox, u)
                                        => Unmoved(userProcessed', txOutbox', u)
               /\ ~ UNCHANGED userProcessed
    <3>1. KeysOf(t)' = {key}
      BY <1>0, <1>1, <2>2 DEF KeysOf
    <3>2. Cardinality(KeysOf(t)') <= 1
      <4>1. Cardinality({key}) = 1
        BY FS_Singleton
      <4> QED
        BY <3>1, <4>1
    <3>3. \A u : u # t => /\ KeysOf(u)' = KeysOf(u)
                          /\ Unmoved(userProcessed, txOutbox, u)
                                => Unmoved(userProcessed', txOutbox', u)
      BY <1>0, <2>2 DEF KeysOf, Unmoved
    <3>4. key \notin userProcessed
      BY <1>0, <1>1, <2>2 DEF KeysOf
    <3> QED
      BY <2>2, <3>2, <3>3, <3>4
  <2> QED
    BY <2>1, <2>2
<1>4. \A r \in UserRow : PendingReply(r)' =>
         \/ PendingReply(r) /\ userOutbox'[r] = userOutbox[r]
         \/ /\ r = Len(userOutbox) + 1 /\ userOutbox'[r].transfer = t
            /\ userOutbox'[r].topic = "TRANFER_FAILED" => UNCHANGED userProcessed
  <2>1. CASE UNCHANGED userOutbox
    BY <2>1 DEF PendingReply
  <2>2. ASSUME NEW topic \in Topics, AppendUserRow(topic, t),
               topic = "TRANFER_FAILED" => UNCHANGED userProcessed
        PROVE  \A r \in UserRow : PendingReply(r)' =>
                  \/ PendingReply(r) /\ userOutbox'[r] = userOutbox[r]
                  \/ /\ r = Len(userOutbox) + 1 /\ userOutbox'[r].transfer = t
                     /\ userOutbox'[r].topic = "TRANFER_FAILED"
                           => UNCHANGED userProcessed
    <3>1. /\ Len(userOutbox') = Len(userOutbox) + 1
          /\ \A r \in 1 .. Len(userOutbox) : userOutbox'[r] = userOutbox[r]
          /\ userOutbox'[Len(userOutbox) + 1] = [topic |-> topic, transfer |-> t]
      <4>1. userOutbox \in Seq(Reply)
        BY DEF IInv, TypeOK
      <4> QED
        BY <4>1, <2>2, <1>1, UserRowAppended
    <3> SUFFICES ASSUME NEW r \in UserRow, PendingReply(r)'
                 PROVE  \/ PendingReply(r) /\ userOutbox'[r] = userOutbox[r]
                        \/ /\ r = Len(userOutbox) + 1 /\ userOutbox'[r].transfer = t
                           /\ userOutbox'[r].topic = "TRANFER_FAILED"
                                 => UNCHANGED userProcessed
      OBVIOUS
    <3>2. CASE r = Len(userOutbox) + 1
      BY <3>1, <3>2, <2>2
    <3>3. CASE r # Len(userOutbox) + 1
      BY <3>1, <3>3, PendingTypes DEF PendingReply
    <3> QED
      BY <3>2, <3>3
  <2> QED
    BY <1>0, <2>1, <2>2 DEF Topics
<1>5. RowHasTheTurn'
  <2> SUFFICES ASSUME NEW j \in TxRow, PendingRow(j)'
               PROVE  /\ status'[txOutbox'[j]] = "PENDING"
                      /\ Unmoved(userProcessed', txOutbox', txOutbox'[j])
                      /\ \A k \in TxRow : PendingRow(k)' /\ txOutbox'[k] = txOutbox'[j]
                            => k = j
                      /\ \A r \in UserRow :
                            PendingReply(r)' => userOutbox'[r].transfer # txOutbox'[j]
    BY NextTurnsMean
  <2>1. PendingRow(j) /\ txOutbox[j] # t /\ txOutbox[j] \in Transfer
    BY <1>2, PendingTypes DEF PendingRow
  <2>2. \A k \in TxRow : PendingRow(k)' /\ txOutbox'[k] = txOutbox'[j] => k = j
    BY <2>1, <1>2 DEF Turns, RowHasTheTurn
  <2>3. \A r \in UserRow : PendingReply(r)' => userOutbox'[r].transfer # txOutbox'[j]
    BY <2>1, <1>4 DEF Turns, RowHasTheTurn
  <2> QED
    BY <2>1, <2>2, <2>3, <1>3, TurnsMean DEF Turns
<1>6. ReplyHasTheTurn'
  <2> SUFFICES ASSUME NEW r \in UserRow, PendingReply(r)'
               PROVE  /\ status'[userOutbox'[r].transfer] = "PENDING"
                      /\ userOutbox'[r].topic = "TRANFER_FAILED"
                            => Unmoved(userProcessed', txOutbox', userOutbox'[r].transfer)
                      /\ \A q \in UserRow :
                            PendingReply(q)' /\ userOutbox'[q].transfer = userOutbox'[r].transfer
                               => q = r
    BY NextTurnsMean
  <2>1. CASE PendingReply(r) /\ userOutbox'[r] = userOutbox[r]
    <3>1. userOutbox[r].transfer \in Transfer /\ userOutbox[r].transfer # t
      BY <2>1, <1>1, PendingTypes DEF PendingReply
    <3>2. \A q \in UserRow :
             PendingReply(q)' /\ userOutbox'[q].transfer = userOutbox[r].transfer => q = r
      BY <2>1, <3>1, <1>4 DEF Turns, ReplyHasTheTurn
    <3> QED
      BY <2>1, <3>1, <3>2, <1>3, TurnsMean DEF Turns
  <2>2. CASE /\ r = Len(userOutbox) + 1 /\ userOutbox'[r].transfer = t
             /\ userOutbox'[r].topic = "TRANFER_FAILED" => UNCHANGED userProcessed
    BY <2>2, <1>1, <1>3, <1>4
  <2> QED
    BY <2>1, <2>2, <1>4
<1>7. MovedOnce'
  BY <1>1, <1>3 DEF Turns, MovedOnce
<1> QED
  BY <1>5, <1>6, <1>7 DEF Turns

(* transaction-service takes its turn: the reply is consumed and ends the
   transactions, or gives the next turn to a retry row. *)
LEMMA ReplyMove ==
    ASSUME IInv, Turns, NEW r \in UserRow, PendingReply(r),
           userRead' = [userRead EXCEPT ![r] = @ + 1],
           UNCHANGED <<userOutbox, txRead, userProcessed>>,
           LET t == userOutbox[r].transfer IN
           \/ UNCHANGED <<status, txOutbox>>
           \/ UNCHANGED txOutbox /\ status' = [status EXCEPT ![t] = "BALANCE_UPDATED"]
           \/ /\ userOutbox[r].topic = "TRANFER_FAILED"
              /\ \/ UNCHANGED status /\ AppendTxRow(t)
                 \/ UNCHANGED txOutbox /\ status' = [status EXCEPT ![t] = "FAILED"]
    PROVE  Turns'
<1> DEFINE t == userOutbox[r].transfer
<1>1. /\ t \in Transfer /\ status[t] = "PENDING"
      /\ userOutbox[r].topic = "TRANFER_FAILED"
            => KeysOf(t) = {} /\ Unmoved(userProcessed, txOutbox, t)
      /\ \A q \in UserRow : PendingReply(q) /\ userOutbox[q].transfer = t => q = r
      /\ \A j \in TxRow : PendingRow(j) => txOutbox[j] # t
  BY PendingTypes, TurnsMean DEF Turns, RowHasTheTurn, PendingReply
<1>2. \A q \in UserRow : PendingReply(q)' =>
         PendingReply(q) /\ userOutbox'[q] = userOutbox[q] /\ userOutbox[q].transfer # t
  BY <1>1, PendingTypes DEF PendingReply
<1>3. /\ \A u \in Transfer : u # t => status'[u] = status[u]
      /\ status'[t] = "FAILED" => KeysOf(t) = {}
  BY <1>1, PendingTypes
<1>4. /\ \A i \in 1 .. Len(txOutbox) : txOutbox'[i] = txOutbox[i]
      /\ \A j \in TxRow : PendingRow(j)' =>
           \/ PendingRow(j) /\ txOutbox'[j] = txOutbox[j]
           \/ /\ j = Len(txOutbox) + 1 /\ txOutbox'[j] = t
              /\ Unmoved(userProcessed, txOutbox, t) /\ UNCHANGED status
  <2>1. CASE UNCHANGED txOutbox
    BY <2>1 DEF PendingRow
  <2>2. CASE /\ userOutbox[r].topic = "TRANFER_FAILED"
             /\ UNCHANGED status /\ AppendTxRow(t)
    <3>1. /\ Len(txOutbox') = Len(txOutbox) + 1
          /\ \A i \in 1 .. Len(txOutbox) : txOutbox'[i] = txOutbox[i]
          /\ txOutbox'[Len(txOutbox) + 1] = t
      BY <2>2, <1>1, TxRowAppended DEF IInv, TypeOK
    <3> HIDE DEF t
    <3>2. ASSUME NEW j \in TxRow, PendingRow(j)'
          PROVE  \/ PendingRow(j) /\ txOutbox'[j] = txOutbox[j]
                 \/ /\ j = Len(txOutbox) + 1 /\ txOutbox'[j] = t
                    /\ Unmoved(userProcessed, txOutbox, t) /\ UNCHANGED status
      <4>1. CASE j = Len(txOutbox) + 1
        BY <4>1, <3>1, <2>2, <1>1
      <4>2. CASE j # Len(txOutbox) + 1
        BY <4>2, <3>1, <3>2, PendingTypes DEF PendingRow
      <4> QED
        BY <4>1, <4>2
    <3> QED
      BY <3>1, <3>2
  <2> QED
    BY <2>1, <2>2
<1> HIDE DEF t
<1>k. \A u : /\ KeysOf(u)' = KeysOf(u)
             /\ Unmoved(userProcessed, txOutbox, u)
                   <=> Unmoved(userProcessed', txOutbox', u)
  BY <1>4, KeysCarried
<1>5. RowHasTheTurn'
  <2> SUFFICES ASSUME NEW j \in TxRow, PendingRow(j)'
               PROVE  /\ status'[txOutbox'[j]] = "PENDING"
                      /\ Unmoved(userProcessed', txOutbox', txOutbox'[j])
                      /\ \A k \in TxRow : PendingRow(k)' /\ txOutbox'[k] = txOutbox'[j]
                            => k = j
                      /\ \A q \in UserRow :
                            PendingReply(q)' => userOutbox'[q].transfer # txOutbox'[j]
    BY NextTurnsMean
  <2>1. CASE PendingRow(j) /\ txOutbox'[j] = txOutbox[j]
    <3>1. txOutbox[j] # t /\ txOutbox[j] \in Transfer
      BY <2>1, <1>1, PendingTypes DEF PendingRow
    <3>2. \A k \in TxRow : PendingRow(k)' /\ txOutbox'[k] = txOutbox'[j] => k = j
      BY <2>1, <3>1, <1>4 DEF Turns, RowHasTheTurn
    <3>3. \A q \in UserRow : PendingReply(q)' => userOutbox'[q].transfer # txOutbox'[j]
      BY <2>1, <1>2 DEF Turns, RowHasTheTurn
    <3> QED
      BY <2>1, <3>1, <3>2, <3>3, <1>3, <1>k, TurnsMean DEF Turns
  <2>2. CASE /\ j = Len(txOutbox) + 1 /\ txOutbox'[j] = t
             /\ Unmoved(userProcessed, txOutbox, t) /\ UNCHANGED status
    <3>1. \A k \in TxRow : PendingRow(k)' /\ txOutbox'[k] = t => k = j
      BY <2>2, <1>1, <1>4
    <3>2. \A q \in UserRow : PendingReply(q)' => userOutbox'[q].transfer # t
      BY <1>2
    <3> QED
      BY <2>2, <3>1, <3>2, <1>1, <1>k
  <2> QED
    BY <2>1, <2>2, <1>4
<1>6. ReplyHasTheTurn'
  <2> SUFFICES ASSUME NEW q \in UserRow, PendingReply(q)'
               PROVE  /\ status'[userOutbox'[q].transfer] = "PENDING"
                      /\ userOutbox'[q].topic = "TRANFER_FAILED"
                            => Unmoved(userProcessed', txOutbox', userOutbox'[q].transfer)
                      /\ \A p \in UserRow :
                            PendingReply(p)' /\ userOutbox'[p].transfer = userOutbox'[q].transfer
                               => p = q
    BY NextTurnsMean
  <2>1. /\ PendingReply(q) /\ userOutbox'[q] = userOutbox[q]
        /\ userOutbox[q].transfer # t /\ userOutbox[q].transfer \in Transfer
    BY <1>2, PendingTypes DEF PendingReply
  <2>2. \A p \in UserRow :
           PendingReply(p)' /\ userOutbox'[p].transfer = userOutbox[q].transfer => p = q
    BY <2>1, <1>2 DEF Turns, ReplyHasTheTurn
  <2> QED
    BY <2>1, <2>2, <1>3, <1>k, TurnsMean DEF Turns
<1>7. MovedOnce'
  BY <1>1, <1>3, <1>k DEF Turns, MovedOnce
<1> QED
  BY <1>5, <1>6, <1>7 DEF Turns

(* The handler of a message takes the row's turn when it ends the message. *)
LEMMA HandlerTurn ==
    ASSUME IInv, HandledOnce, NEW c \in Consumer,
           handling[c].step \in {"moving", "failing"}
    PROVE  /\ handling[c].row \in TxRow /\ PendingRow(handling[c].row)
           /\ KeyOf(c) \in TxRow \X Nat
           /\ AdvanceOffset(c) => txRead' = [txRead EXCEPT ![handling[c].row] = 1]
<1>1. handling[c] # Idle
  BY DEF Idle
<1>2. handling[c].copy = 1 /\ PendingRow(handling[c].row)
  BY <1>1 DEF HandledOnce
<1> QED
  BY <1>2, AtWork, OffsetPassed

(* Every step without faults is one of the moves above. *)
LEMMA TurnsKept ==
    ASSUME IInv, PublishedOnce, HandledOnce, Turns, CalmStep
    PROVE  Turns'
<1>1. UNCHANGED <<status, txOutbox, userOutbox, txRead, userRead, userProcessed>>
         => Turns'
  BY QuietMove
<1>2. ASSUME NEW t \in Transfer, Gateway(t) PROVE Turns'
  <2>1. CASE ValidateBalance(t)
    BY <1>1, <2>1 DEF ValidateBalance, TxFrame, userVars
  <2>2. CASE CreateTransfer(t)
    BY <2>2, CreateTransferMove
  <2> QED
    BY <1>2, <2>1, <2>2 DEF Gateway
<1>3. CASE \/ (\E i \in TxRow : TxPublish(i)) \/ TxMark
           \/ (\E r \in UserRow : UserPublish(r)) \/ UserMark
  BY <1>1, <1>3 DEF TxPublish, TxMark, UserPublish, UserMark, TxWorkerFrame,
     UserWorkerFrame, txVars, userVars
<1>4. ASSUME NEW c \in Consumer, NEW i \in TxRow, ReceiveTransfer(c, i)
      PROVE  Turns'
  <2>1. /\ UNCHANGED <<status, txOutbox, userOutbox, userRead, userProcessed>>
        /\ txRead[i] < txSent[i]
        /\ UNCHANGED txRead \/ txRead' = [txRead EXCEPT ![i] = @ + 1]
    BY <1>4 DEF ReceiveTransfer, BeginTransfer, UserFrame, txVars
  <2>2. PendingRow(i)
    BY <2>1, ConsumableIsPending
  <2>3. CASE UNCHANGED txRead
    BY <1>1, <2>1, <2>3
  <2>4. CASE txRead' = [txRead EXCEPT ![i] = @ + 1]
    <3>1. txRead' = [txRead EXCEPT ![i] = 1]
      BY <2>2, <2>4 DEF PendingRow
    <3> QED
      BY <2>1, <2>2, <3>1, RowMove
  <2> QED
    BY <2>1, <2>3, <2>4
<1>5. ASSUME NEW c \in Consumer, TransferToAccount(c) PROVE Turns'
  <2>1. /\ handling[c].step = "moving" /\ AdvanceOffset(c)
        /\ UNCHANGED <<status, txOutbox, userRead>>
        /\ userProcessed' = userProcessed \cup {KeyOf(c)}
        /\ AppendUserRow("TRANFER_SUCCESS", txOutbox[handling[c].row])
    BY <1>5 DEF TransferToAccount, CommitTransfer, TransferOf, UserFrame, txVars
  <2>2. KeyOf(c)[1] = handling[c].row
    BY DEF KeyOf
  <2> QED
    BY <2>1, <2>2, HandlerTurn, RowMove
<1>6. ASSUME NEW c \in Consumer, CreateOutboxEvent(c) PROVE Turns'
  <2>1. /\ handling[c].step = "failing" /\ AdvanceOffset(c)
        /\ UNCHANGED <<status, txOutbox, userRead, userProcessed>>
        /\ AppendUserRow("TRANFER_FAILED", txOutbox[handling[c].row])
    BY <1>6 DEF CreateOutboxEvent, TransferOf, UserFrame, txVars
  <2> QED
    BY <2>1, HandlerTurn, RowMove
<1>7. ASSUME NEW c \in Consumer, TransferAborts(c) \/ CreateOutboxEventFails(c)
      PROVE  Turns'
  BY <1>1, <1>7 DEF TransferAborts, CreateOutboxEventFails, UserFrame, txVars
<1>8. ASSUME NEW r \in UserRow, ProcessingTransferSuccess(r) PROVE Turns'
  <2>1. /\ userRead[r] < userSent[r] /\ userRead' = [userRead EXCEPT ![r] = @ + 1]
        /\ UNCHANGED <<userOutbox, txRead, userProcessed, txOutbox>>
        /\ \/ UNCHANGED status
           \/ status' = [status EXCEPT ![userOutbox[r].transfer] = "BALANCE_UPDATED"]
    BY <1>8 DEF ProcessingTransferSuccess, ReplyReady, Consume, TxFrame, userVars
  <2> QED
    BY <2>1, ConsumableIsPending, ReplyMove
<1>9. ASSUME NEW r \in UserRow, ProcessingTransferFailed(r) PROVE Turns'
  <2>1. /\ userRead[r] < userSent[r] /\ userRead' = [userRead EXCEPT ![r] = @ + 1]
        /\ userOutbox[r].topic = "TRANFER_FAILED"
        /\ UNCHANGED <<userOutbox, txRead, userProcessed>>
        /\ \/ UNCHANGED <<status, txOutbox>>
           \/ UNCHANGED status /\ AppendTxRow(userOutbox[r].transfer)
           \/ /\ UNCHANGED txOutbox
              /\ status' = [status EXCEPT ![userOutbox[r].transfer] = "FAILED"]
    BY <1>9 DEF ProcessingTransferFailed, ReplyReady, Consume,
       RecreateTransferOutboxEvent, TxFrame, userVars
  <2> QED
    BY <2>1, ConsumableIsPending, ReplyMove
<1>10. CASE UNCHANGED vars
  BY <1>1, <1>10 DEF vars, txVars, userVars
<1> QED
  BY <1>2, <1>3, <1>4, <1>5, <1>6, <1>7, <1>8, <1>9, <1>10 DEF CalmStep

(* Only createTransfer and the two reply handlers change a status; without
   faults they find no transfer that has an outcome. *)
LEMMA OutcomeKept ==
    ASSUME IInv, PublishedOnce, Turns, CalmStep, NEW t \in Transfer,
           status[t] \in {"BALANCE_UPDATED", "FAILED"}
    PROVE  status'[t] = status[t]
<1>0. status \in [Transfer -> TransactionStatus]
  BY Facts
<1>1. CASE \E u \in Transfer : Gateway(u)
  BY <1>0, <1>1 DEF Gateway, ValidateBalance, CreateTransfer
<1>2. CASE \/ (\E i \in TxRow : TxPublish(i)) \/ TxMark
           \/ (\E r \in UserRow : UserPublish(r)) \/ UserMark
  BY <1>2 DEF TxPublish, TxMark, UserPublish, UserMark, TxWorkerFrame,
     UserWorkerFrame, txVars
<1>3. CASE \E c \in Consumer :
              \/ \E i \in TxRow : ReceiveTransfer(c, i)
              \/ TransferToAccount(c) \/ TransferAborts(c)
              \/ CreateOutboxEvent(c) \/ CreateOutboxEventFails(c)
  BY <1>3 DEF ReceiveTransfer, BeginTransfer, TransferToAccount,
     CommitTransfer, TransferAborts, CreateOutboxEvent,
     CreateOutboxEventFails, UserFrame, txVars
<1>4. ASSUME NEW r \in UserRow,
             ProcessingTransferSuccess(r) \/ ProcessingTransferFailed(r)
      PROVE  status'[t] = status[t]
  <2>1. /\ userRead[r] < userSent[r]
        /\ \/ UNCHANGED status
           \/ \E s : status' = [status EXCEPT ![userOutbox[r].transfer] = s]
    BY <1>4 DEF ProcessingTransferSuccess, ProcessingTransferFailed, ReplyReady,
       RecreateTransferOutboxEvent
  <2>2. status[userOutbox[r].transfer] = "PENDING"
    BY <2>1, ConsumableIsPending DEF Turns, ReplyHasTheTurn
  <2> QED
    BY <1>0, <2>1, <2>2
<1>5. CASE UNCHANGED vars
  BY <1>5 DEF vars, txVars
<1> QED
  BY <1>1, <1>2, <1>3, <1>4, <1>5 DEF CalmStep

-----------------------------------------------------------------------------
(* The invariant with the balances, the counts and the turns.              *)

(* It holds initially: there is nothing to count and nothing pending. *)
LEMMA InitSagaInv == Init => SagaInv
<1> SUFFICES ASSUME Init PROVE SagaInv
  OBVIOUS
<1>1. IInv
  BY InitIInv
<1>2. /\ userProcessed = {} /\ txProcessed = {}
      /\ Len(txOutbox) = 0 /\ Len(userOutbox) = 0
      /\ handling = [c \in Consumer |-> Idle] /\ balance = InitialBalance
      /\ status = [t \in Transfer |-> "NONE"]
      /\ retryCount = [t \in Transfer |-> 0]
  BY DEF Init
<1>3. Cardinality({}) = 0 /\ IsFiniteSet({})
  BY FS_EmptySet
<1>4. /\ \A t : KeysOf(t) = {} /\ RowsOf(t) = {} /\ RetriesOf(t) = {}
      /\ \A t, topic : AnswersTo(t, topic) = {}
      /\ \A accounts, a : Units(accounts, a) = {}
  BY <1>2 DEF KeysOf, RowsOf, RetriesOf, AnswersTo, RepliesTo, Units
<1>5. BalancesExplained
  <2>1. \A accounts, a : Moved(accounts, a) = 0
    BY <1>3, <1>4 DEF Moved
  <2> QED
    BY <1>2, <2>1, AccountAssumption DEF BalancesExplained
<1>6. CountFacts
  <2>1. \A t : /\ Cardinality(KeysOf(t)) = 0 /\ Cardinality(RowsOf(t)) = 0
               /\ Cardinality(RetriesOf(t)) = 0
               /\ Cardinality(AnswersTo(t, "TRANFER_SUCCESS")) = 0
    BY <1>3, <1>4
  <2> QED
    BY <1>2, <1>3, <2>1 DEF CountFacts
<1>7. RetryBudget
  BY <1>3, <1>4, RetryAssumption DEF RetryBudget
<1>8. PublishedOnce
  BY DEF Init, TxWorker!Init, UserWorker!Init, TxWorker!Row, UserWorker!Row,
     TxRow, UserRow, PublishedOnce
<1>9. HandledOnce
  BY <1>2 DEF HandledOnce
<1>10. RowHasTheTurn /\ ReplyHasTheTurn
  BY <1>2 DEF RowHasTheTurn, ReplyHasTheTurn, PendingRow, PendingReply
<1>11. MovedOnce
  BY <1>3, <1>4 DEF MovedOnce
<1> QED
  BY <1>1, <1>5, <1>6, <1>7, <1>8, <1>9, <1>10, <1>11 DEF SagaInv

(* Every action preserves it. *)
LEMMA NextSagaInv == SagaInv /\ [Next]_vars => SagaInv'
<1> SUFFICES ASSUME SagaInv, [Next]_vars PROVE SagaInv'
  OBVIOUS
<1>1. IInv /\ IInv'
  BY NextIInv DEF SagaInv
<1>2. BalancesExplained' /\ CountFacts' /\ RetryBudget'
  BY <1>1, CountsKept DEF SagaInv
<1>3. ASSUME faults' = 0
      PROVE  PublishedOnce' /\ HandledOnce' /\ Turns'
  <2>1. faults = 0 /\ CalmStep
    BY <1>1, <1>3, NoFaultYet
  <2>2. PublishedOnce /\ HandledOnce /\ Turns
    BY <2>1 DEF SagaInv, Turns
  <2> QED
    BY <1>1, <2>1, <2>2, PublishedOnceKept, HandledOnceKept, TurnsKept
<1> QED
  BY <1>1, <1>2, <1>3 DEF SagaInv, Turns

(* The invariant with the balances, the counts and the turns holds in every
   reachable state. *)
THEOREM SagaInvariance == Spec => []SagaInv
<1> QED
  BY InitSagaInv, NextSagaInv, PTL DEF Spec

(* No money appears or vanishes: every balance is the initial one, plus and
   minus what the processed keys say was moved, whatever is repeated, crashes,
   is lost or interleaves. *)
THEOREM NoMoneyAppearsOrVanishes == Spec => []BalancesExplained
<1>1. SagaInv => BalancesExplained
  BY DEF SagaInv
<1> QED
  BY <1>1, SagaInvariance, PTL

(* No transfer is attempted more than MaxRetry times (once, when MaxRetry is
   0), however often its replies arrive. *)
THEOREM RetriesAreBounded == Spec => []RetryBudget
<1>1. SagaInv => RetryBudget
  BY DEF SagaInv
<1> QED
  BY <1>1, SagaInvariance, PTL

(* A transfer is moved twice only when a reply was published twice, or
   user-service answered more messages than transaction-service wrote rows; and
   without faults it is moved once, and never when it is FAILED. *)
THEOREM DoubleMovesAreExplained == Spec => []MovesAreExplained
<1>1. SagaInv => MovesAreExplained
  <2> SUFFICES ASSUME SagaInv PROVE MovesAreExplained
    OBVIOUS
  <2>1. IInv /\ CountFacts /\ (faults = 0 => MovedOnce)
    BY DEF SagaInv
  <2>2. ASSUME NEW t \in Transfer, Cardinality(KeysOf(t)) > 1
        PROVE  \/ \E r \in RepliesTo(t) : userSent[r] > 1
               \/ Cardinality(RepliesTo(t)) > Cardinality(RowsOf(t))
    BY <2>1, <2>2, MovesCounted
  <2> QED
    BY <2>1, <2>2 DEF MovesAreExplained
<1> QED
  BY <1>1, SagaInvariance, PTL

(* Without faults no step changes the outcome of a transfer, although neither
   handler looks at the status it overwrites. *)
THEOREM OutcomesAreFinal == Spec => OutcomeIsFinal
<1>1. ASSUME SagaInv, [Next]_vars, faults' = 0, NEW t \in Transfer,
             status[t] \in {"BALANCE_UPDATED", "FAILED"}
      PROVE  status'[t] = status[t]
  <2>1. faults = 0 /\ CalmStep
    BY <1>1, NoFaultYet DEF SagaInv
  <2>2. IInv /\ PublishedOnce /\ Turns
    BY <1>1, <2>1 DEF SagaInv, Turns
  <2> QED
    BY <1>1, <2>1, <2>2, OutcomeKept
<1>2. SagaInv /\ [Next]_vars
         => [faults' = 0 =>
               \A t \in Transfer : status[t] \in {"BALANCE_UPDATED", "FAILED"}
                                       => status'[t] = status[t]]_vars
  BY <1>1
<1> QED
  BY <1>2, SagaInvariance, PTL DEF Spec, OutcomeIsFinal

-----------------------------------------------------------------------------
(* The saga works through two transactional outboxes.                      *)

TxWorkerMove ==
    TxWorkerFrame /\ (\/ \E i \in TxRow : TxWorker!Publish(i)
                      \/ TxWorker!Mark
                      \/ TxWorkerFault)
UserWorkerMove ==
    UserWorkerFrame /\ (\/ \E r \in UserRow : UserWorker!Publish(r)
                        \/ UserWorker!Mark
                        \/ UserWorkerFault)

(* What a step may do to the number of faults. *)
FaultsStep == UNCHANGED faults \/ (faults < MaxFaults /\ faults' = faults + 1)

(* A step is one of a worker, or leaves both workers alone. *)
LEMMA WorkersAlone ==
    ASSUME [Next]_vars
    PROVE  \/ TxWorkerMove
           \/ UserWorkerMove
           \/ FaultsStep /\ UNCHANGED <<txOutboxVars, userOutboxVars>>
<1>1. ASSUME NEW t \in Transfer, Gateway(t)
      PROVE  FaultsStep /\ UNCHANGED <<txOutboxVars, userOutboxVars>>
  BY <1>1 DEF Gateway, ValidateBalance, CreateTransfer, TxFrame, FaultsStep
<1>2. Worker => TxWorkerMove \/ UserWorkerMove
  BY DEF Worker, TxPublish, TxMark, UserPublish, UserMark, WorkerFault,
     TxWorkerMove, UserWorkerMove
<1>3. ASSUME NEW c \in Consumer, UserConsumer(c)
      PROVE  FaultsStep /\ UNCHANGED <<txOutboxVars, userOutboxVars>>
  BY <1>3 DEF UserConsumer, ReceiveTransfer, TakeOverTransfer, BeginTransfer,
     TransferToAccount, TransferThenCrash, TransferUnacknowledged,
     CommitTransfer, TransferAborts, CreateOutboxEvent, CreateOutboxEventFails,
     UserFrame, Fault, FaultsStep
<1>4. ASSUME NEW i \in TxRow, RedeliverTransfer(i)
      PROVE  FaultsStep /\ UNCHANGED <<txOutboxVars, userOutboxVars>>
  BY <1>4 DEF RedeliverTransfer, UserFrame, Fault, FaultsStep
<1>5. ASSUME NEW r \in UserRow, TxConsumer(r)
      PROVE  FaultsStep /\ UNCHANGED <<txOutboxVars, userOutboxVars>>
  BY <1>5 DEF TxConsumer, ProcessingTransferSuccess, ProcessingTransferFailed,
     RecreateAfterStaleCheck, DropReply, RedeliverReply, TxFrame, Fault,
     FaultsStep
<1>6. CASE UNCHANGED vars
  BY <1>6 DEF vars, FaultsStep
<1> QED
  BY <1>1, <1>2, <1>3, <1>4, <1>5, <1>6 DEF Next

(* A step that leaves a worker alone commits a row, meets a fault, or does
   nothing its outbox could see. *)
LEMMA TxWorkerAlone ==
    ASSUME UNCHANGED txOutboxVars, FaultsStep, Len(txOutbox) \in Nat,
           \/ UNCHANGED txOutbox
           \/ Len(txOutbox) < MaxTxRows /\ Len(txOutbox') = Len(txOutbox) + 1
    PROVE  [TxWorker!Next]_(TxWorker!vars)
<1>1. CASE UNCHANGED txOutbox /\ UNCHANGED faults
  BY <1>1 DEF TxWorker!vars, txOutboxVars
<1>2. CASE UNCHANGED txOutbox /\ faults < MaxFaults /\ faults' = faults + 1
  BY <1>2 DEF TxWorker!Next, TxWorker!Forget, TxWorker!Fault, txOutboxVars
<1>3. CASE Len(txOutbox) < MaxTxRows /\ Len(txOutbox') = Len(txOutbox) + 1
  BY <1>3 DEF TxWorker!Next, TxWorker!Insert, TxWorker!Fault, txOutboxVars,
     FaultsStep
<1> QED
  BY <1>1, <1>2, <1>3 DEF FaultsStep

LEMMA UserWorkerAlone ==
    ASSUME UNCHANGED userOutboxVars, FaultsStep, Len(userOutbox) \in Nat,
           \/ UNCHANGED userOutbox
           \/ Len(userOutbox) < MaxUserRows /\ Len(userOutbox') = Len(userOutbox) + 1
    PROVE  [UserWorker!Next]_(UserWorker!vars)
<1>1. CASE UNCHANGED userOutbox /\ UNCHANGED faults
  BY <1>1 DEF UserWorker!vars, userOutboxVars
<1>2. CASE UNCHANGED userOutbox /\ faults < MaxFaults /\ faults' = faults + 1
  BY <1>2 DEF UserWorker!Next, UserWorker!Forget, UserWorker!Fault, userOutboxVars
<1>3. CASE Len(userOutbox) < MaxUserRows /\ Len(userOutbox') = Len(userOutbox) + 1
  BY <1>3 DEF UserWorker!Next, UserWorker!Insert, UserWorker!Fault,
     userOutboxVars, FaultsStep
<1> QED
  BY <1>1, <1>2, <1>3 DEF FaultsStep

(* Every step of the saga is a step, or a stutter, of both outboxes. *)
LEMMA StepIsDeliveryStep ==
    ASSUME IInv, [Next]_vars
    PROVE  [TxWorker!Next]_(TxWorker!vars) /\ [UserWorker!Next]_(UserWorker!vars)
<1>0. Len(txOutbox) \in Nat /\ Len(userOutbox) \in Nat
  BY PendingTypes
<1>1. \/ UNCHANGED txOutbox
      \/ Len(txOutbox) < MaxTxRows /\ Len(txOutbox') = Len(txOutbox) + 1
  <2>1. UNCHANGED txOutbox \/ \E t \in Transfer : AppendTxRow(t)
    BY RowStep
  <2>2. txOutbox \in Seq(Transfer)
    BY DEF IInv, TypeOK
  <2>3. ASSUME NEW t \in Transfer, AppendTxRow(t)
        PROVE  Len(txOutbox) < MaxTxRows /\ Len(txOutbox') = Len(txOutbox) + 1
    BY <2>2, <2>3, TxRowAppended DEF AppendTxRow
  <2> QED
    BY <2>1, <2>3
<1>2. \/ UNCHANGED userOutbox
      \/ Len(userOutbox) < MaxUserRows /\ Len(userOutbox') = Len(userOutbox) + 1
  <2>1. UNCHANGED userOutbox \/ \E t \in Transfer, topic \in Topics : AppendUserRow(topic, t)
    BY KeyStep, MoveEffect DEF Topics
  <2>2. userOutbox \in Seq(Reply)
    BY DEF IInv, TypeOK
  <2>3. ASSUME NEW t \in Transfer, NEW topic \in Topics, AppendUserRow(topic, t)
        PROVE  Len(userOutbox) < MaxUserRows /\ Len(userOutbox') = Len(userOutbox) + 1
    BY <2>2, <2>3, UserRowAppended DEF AppendUserRow
  <2> QED
    BY <2>1, <2>3
<1>3. CASE TxWorkerMove
  <2>1. TxWorker!Next
    BY <1>3 DEF TxWorkerMove, TxWorkerFault, TxWorker!Next, TxWorker!Row, TxRow
  <2>2. UNCHANGED userOutboxVars /\ UNCHANGED userOutbox
    BY <1>3 DEF TxWorkerMove, TxWorkerFrame
  <2>3. FaultsStep
    BY <1>3 DEF TxWorkerMove, TxWorkerFault, TxWorker!Publish, TxWorker!Mark,
       TxWorker!Forget, TxWorker!PublishUnconfirmed, TxWorker!Fault, FaultsStep
  <2> QED
    BY <2>1, <2>2, <2>3, <1>0, UserWorkerAlone
<1>4. CASE UserWorkerMove
  <2>1. UserWorker!Next
    BY <1>4 DEF UserWorkerMove, UserWorkerFault, UserWorker!Next,
       UserWorker!Row, UserRow
  <2>2. UNCHANGED txOutboxVars /\ UNCHANGED txOutbox
    BY <1>4 DEF UserWorkerMove, UserWorkerFrame
  <2>3. FaultsStep
    BY <1>4 DEF UserWorkerMove, UserWorkerFault, UserWorker!Publish,
       UserWorker!Mark, UserWorker!Forget, UserWorker!PublishUnconfirmed,
       UserWorker!Fault, FaultsStep
  <2> QED
    BY <2>1, <2>2, <2>3, <1>0, TxWorkerAlone
<1>5. CASE FaultsStep /\ UNCHANGED <<txOutboxVars, userOutboxVars>>
  BY <1>0, <1>1, <1>2, <1>5, TxWorkerAlone, UserWorkerAlone
<1> QED
  BY <1>3, <1>4, <1>5, WorkersAlone

(* The saga implements OutboxDelivery twice: what the consumers, the reply
   handlers and the faults do is, for either outbox, a new row, a fault, or
   nothing.  OutboxWorker proves that the code of a worker does the same. *)
THEOREM SagaUsesOutboxes == Spec => TxWorker!Spec /\ UserWorker!Spec
<1>1. Init => TxWorker!Init /\ UserWorker!Init
  BY DEF Init
<1>2. IInv /\ [Next]_vars => [TxWorker!Next]_(TxWorker!vars)
  BY StepIsDeliveryStep
<1>3. IInv /\ [Next]_vars => [UserWorker!Next]_(UserWorker!vars)
  BY StepIsDeliveryStep
<1> QED
  BY <1>1, <1>2, <1>3, Invariance, PTL DEF Spec, TxWorker!Spec, UserWorker!Spec
=============================================================================
