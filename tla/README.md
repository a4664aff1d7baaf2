# Verification of nestjs-homework

TLA+ models of the backend in `src/`, the TLC runs that check them on small instances, and
TLAPS proofs of the main results for every instance.

The program is a set of NestJS services around one product: accounts with balances that are
filled through Yookassa and moved between accounts. What is hard in it is the money: a deposit
or a transfer crosses two databases, two transactional outboxes and Kafka, with retries on top.
That part is modelled first and in most detail.

## The system

| part | state it keeps | operations |
|---|---|---|
| `gateway` | none, but the circuit breaker of its file proxy | HTTP controllers, guards, throttling; forwards to gRPC |
| `transaction-service` | `transactions` (status, retry_count), `outbox_events`, `processed_events` | `depositRub`, `transferRub`, Yookassa webhook, four Kafka reply handlers |
| `user-service` | `accounts`, `balances`, `profiles`, `avatars`, `outbox_events`, `processed_events`; Redis: codes, sessions, pages | auth, account, profile, avatars, balances, two Kafka handlers, `resetAllBalances` |
| `libs/outbox` | `isProcessing`, the cron job | `processOutbox` every five seconds, in both services above |
| `libs/proxy` | circuit breaker: state, failures, probe and its timer | `proxyToService` |
| `libs/grpc` client | none | calls with a timeout of 3 s and two retries |
| `file-service` | objects in S3 | streamed upload, compensation, delete |
| `job-service` | cron job, BullMQ queue | balance reset |
| `notification-service` | websocket rooms, MongoDB documents | two RabbitMQ handlers |
| `mail-service` | none | sends a one-time code |

How they interact:

- gateway to services: gRPC through the retrying client, and the HTTP proxy to `file-service`;
- `transaction-service` and `user-service`: a gRPC check of the balance when a transfer is
  requested, then only Kafka. A database transaction commits the change, the processed key and
  an outbox row; the outbox worker publishes the row; the consumer deduplicates by the header
  `idempotencyKey`. Each publication of a row makes up a new key (`outbox-worker.service.ts:35`);
- `user-service` to `notification-service` and `mail-service`: RabbitMQ, fire and forget;
- `job-service` to `user-service`: gRPC from a queue worker.

What is hard, and the property that makes each part correct:

- outbox worker: ticks overlap at their awaits, rows fail one by one, the process dies between
  publishing and marking. No committed row is lost, and a row is repeated only after a fault;
- sagas: copies, redeliveries, rebalances, aborts and retries meet in any order. No money
  appears, nothing is reported that did not happen, attempts are bounded, every operation is
  settled;
- circuit breaker: answers arrive late or never. It never stays half-open, rejects only after
  failures, and tries again;
- avatar upload: a call that timed out may still be carried out, and is repeated; a failed one is
  compensated by removing the file. File and row belong together, and a client that got an answer
  has both;
- balances: transfers, deposits and resets meet at row locks. No balance goes below zero, and
  transfers and deposits do not wait for each other in a circle;
- balance reset: a call that timed out goes on, is repeated by the client and again by the queue.
  A job ends, has reset the balances when it completed, and resets them twice only after a fault;
- codes and sessions: several awaits over Redis and Postgres, and keys that expire between them.
  The comparisons with a code are bounded by its attempts and by the verifications that hold it when it is removed, a code is gone once it is taken, a refresh token is
  exchanged once, and only verified accounts get one;
- page cache: readers fill it, writers empty it behind their answer. An old page is
  left by a reader that was late or by a failure, and goes with its TTL;
- notifications: acknowledged before they are stored, with nothing kept in between. Not modelled.

`PROJECT.json` lists every component with its status and every hazard at its line.

## Modules

| module | models | role |
|---|---|---|
| `OutboxDelivery` | what an outbox promises: publish each row, mark it, repeat only after a fault (a commit may come with one) | abstract specification |
| `OutboxWorker` | `libs/outbox/abstracts/outbox-worker.abstract.ts` and the two subclasses | implements `OutboxDelivery` |
| `DepositSaga` | deposit: gateway call, webhook, both outboxes, both consumers | uses `OutboxDelivery` twice |
| `TransferSaga` | transfer: balance check, both outboxes, consumers with rebalances, balances | uses `OutboxDelivery` twice |
| `CircuitBreaker` | `libs/proxy/client/abstracts/proxy-client.abstract.ts` | on its own |
| `AvatarUpload` | upload of avatars: S3, the retrying gRPC client (`libs/grpc`), `AvatarService` | on its own |
| `BalanceLocks` | transactions of `balance.repository.ts` with their row locks | what the sagas take as one step |
| `BalanceReset` | cron job, BullMQ queue, processor and retrying client of `job-service` | extends `BalanceLocks`: each call is a reset there |
| `Auth` | `auth.service.ts`, `account.service.ts`, `otp.service.ts`, `session.service.ts` | on its own |
| `UsersCache` | `users.service.ts`, `cache.service.ts` and the writers that invalidate | on its own |
| `MC...` | constants and symmetry for TLC | instances |
| `..._proofs` | theorems | proofs |

Definitions preceded by a comment "Mutant" are not used by the
specification. Each is a plausible bug in one definition, and replacing that definition by it
makes TLC find a violation of one property: they show that the property can fail.

### OutboxWorker

A tick is one call of `processOutbox`, cut at its awaits: `step` is "find" while the query runs,
"publish" in the loop, "mark" at the update. `events`, `processedIds` and `isProcessing` are the
variables of the code. `PublishEvent` is one iteration of the loop, `PublishEventFails` its catch,
`PublishEventUnconfirmed` an emit that fails although the broker has the message. `Finish` is the
finally clause and belongs to every step that returns. `ModuleDestroy` stops the cron job but not a tick
in flight; `Exit` and `Crash` end the process. A row is a number in the order of `createdAt`, and a copy
of row i is counted in `sent[i]`.

The cron library starts a tick without waiting for the previous one, so the model lets any
number of ticks overlap, and `AtMostOneTick` shows that `isProcessing` prevents it.

### DepositSaga

Variables are the columns of the two databases, the Kafka messages (row i of an outbox has
`sent[i]` copies, of which `txRead[i]` or `userRead[i]` are consumed) and the payment at Yookassa. An
action is a database transaction with everything around it in its handler: `WebhookSucceeded` is
`succeeded` with `setStatusCompletedAndCreateOutboxEvent`, `DepositToBalance` the handler with
`depositAndCreateOutboxEvent` and the notification. The catch block of the handler is a second
transaction that may fail too, so a handler that aborts (`DepositAborts`) or sees an error after
its commit (`DepositUnacknowledged`) waits in `failing` for `CreateOutboxEvent`. `recreateOutboxEvent` looks the key up
inside its transaction, but before any row lock; `RecreateAfterStaleCheck` is the consumer that passed the check before
another one committed. It is the one action of transaction-service in which that check is stale,
and writes FAILED. Faults are counted: `MaxFaults` bounds them.

`notified` means that `emit` was called for the notification. The call is not awaited (`balance-kafka.service.ts:55` and
`:131`), so what RabbitMQ loses is not modelled. A credit that is committed may never get that far: when its commit answer is
lost, or its process dies and the handler of the redelivery aborts, the catch block reports it as failed.
`CreditIsNotified` states this as a condition (`CreditReportedFailed`), and what is left under it: a retry tells the client, or
the deposit ends FAILED, credited and with nobody told. `MoveIsNotified` is the same for transfers, where the retries are used up.

### TransferSaga

Same structure, and two differences of the code. The processed key is looked up before the balances
are locked, so a handler is two steps (`BeginTransfer`, then `TransferToAccount` or `TransferAborts`; with a processed key
`BeginTransfer` announces, or fails and enters the catch block),
several consumers exist, and `TakeOverTransfer` hands a message to a second one while the first still
works on it. The statuses are overwritten without a check. The two transactions of a transfer, outgoing and
incoming, always change together, so one status stands for both. `validated` holds the transfers
whose check of the sender's balance succeeded; the money is taken later, from a balance that may have changed.
The kinds of fault are a constant, so each run says which it allows.

### CircuitBreaker

`state`, `failures`, `probeInFlight` and `probeTimeout` are the fields of the class;
`resetElapsed` says that `Date.now() - circuitOpenedAt` exceeds `RESET_AFTER_MS`. Requests are admitted
one by one (`AdmitClosed`, `AdmitProbe`) and answered in any order (`Succeed`, `Fail`), or dropped without
a callback (`Vanish`: http-proxy emits `econnreset`, which the class does not handle).
`ProbeTimesOut` is the callback of `startProbeTimeout`. `streak` is a history variable: failures since the
last success. A rejected request changes nothing and is no step.

### AvatarUpload

Each upload has a fresh name (`uuidv7`), so the name is the upload. `step` is what file-service does for it:
`HandleFile` streams the file and sends the call, `Created`, `Rejected` and `Errs` take the answer of the attempt the
client waits for, `TimesOut` stops waiting, `Resend` follows the delay, `RemoveFile` is the catch block of
`saveAvatarPath`. `handler[u][n]` is the handler of user-service for attempt n, cut at its awaits: `FindBy` counts the
profile's avatars, `Create` inserts. Nothing cancels it when the client gives up, so several attempts of one
upload may be at work. `avatars` and `deleted` are the rows without and with a `deletedAt`; `DeleteAvatar` leaves the
file where it is.

After a lost answer file and row may part. The retry finds the
profile full or its name taken, is given up, and the catch block removes the file of a row that
was written. A crash before the catch block leaves a file without a row. `StoredTogether` says that nothing else does.

The count and the insert are two queries, so uploads at once can exceed `MAX_AVATARS_FOR_PROFILE`.
`together` is the largest number of handlers that were between the two at the same time, and
`ExcessNeedsOverlap` says that the excess is one less than that: one upload after the other never exceeds.

### BalanceLocks

A transaction takes its rows one at a time. `Lock` takes a free row, `Wait` queues for a locked one, `Grant` takes it when it
is given up. A deposit has one row, a transfer two in the order of the accounts (`ORDER BY account_id ... FOR UPDATE`),
a reset all rows in any order, since a table scan promises none. `Take` reads the amount with the lock,
`Covered` is the comparison of `transferAndCreateOutboxEvent`, `Refuse` its exception, `Abort` every other
error. What a transaction writes is visible at `Commit`. `DeadlockDetected` aborts a transaction of a cycle of waits. The processed keys
and outbox rows of these transactions are in the sagas.

### BalanceReset

`job` is the state of a BullMQ job, `made` its failed attempts, `tries` the calls of the gRPC client in the attempt at
work, `sent` the calls of the job so far: call n of job j is the reset `<<j, n>>` of `BalanceLocks`. `CallFails` and `TimesOut` lead
to the delay of `retry` or, after the last call, to the backoff of the queue (`Promote` ends it) or to "failed". A call that timed out
stays at work at user-service. `Crash` restarts job-service: BullMQ takes the active job for stalled and repeats it
once (`maxStalledCount`). `Enqueue` stands for cron and for the administrator.

### Auth

One account: a row in Postgres, and in Redis the code of each of the keys EMAIL and PASSWORD (`hash`, `attempts`,
`expires`), its `cooldown` and the `session`. A request is cut at its awaits and `step` is the one it waits at. Codes and tokens are
numbered in the order they are made; tokens signed within one second are equal, so `Sign` may give the last one again. `Fails` ends a
request at any await, with what it wrote left in place, and covers refusals. A wrong code fails at the
comparison; it is counted by then. HINCRBY on a key that is gone brings it back with `attempts` only and without a TTL, and
`CodesExpire` shows that no code is ever stored on such a key without getting one. `Exhausted` deletes the code and not its
cooldown, `Accept` both, whichever code is stored by then. `guesses`, `held`, `accepted` and `spent` are history
variables. `guesses` counts every comparison, also with a code that was removed after it was read; `held` is the number of
verifications between HGET and HINCRBY when a code is removed. `GuessBudget` is
exact in that: `Limit` comparisons, and one more by each of these. Signing and `session.set` are one step, which is
exact for one process with one Redis connection: it sends the SETs in the order it signs.

### UsersCache

The database is a version number and a page the version its reader saw. `Miss`, `FindAll`, `Set`, `Expire` are the
awaits of `findAll` (the pipeline of `setBuffers` is two commands that others may come between), `Write` the end of a
writer, with its event, and `Scan`, `Del` the loop of `invalidateByPattern`. A scan passes any part of
the keys it has not passed yet and returns those that are stored then. `Fails` ends a request or a handler (`ignoreErrors`);
between SET and EXPIRE it leaves a page without a TTL, which is put into `cut`.

## Runs

| run | instance | question |
|---|---|---|
| `outbox_worker` | 4 rows, LIMIT 2, 2 ticks, 2 faults | ticks never overlap, marked rows were published, repeats are explained by faults, every row is delivered; refinement of `OutboxDelivery` with its fairness |
| `deposit_saga` | 1 deposit, MAX_RETRY 2, 3 rows a side, 2 faults | safety of the deposit; without faults, aborts and retries never credit twice |
| `deposit_saga_fair` | 1 deposit, 1 fault, 5 reply rows | a paid deposit is settled; a credit is announced unless the catch block reports it as failed, and then it is announced by a retry or ends FAILED |
| `deposit_saga_idempotent` | 1 deposit, 1 fault | violated: see *Findings* |
| `transfer_saga` | 1 transfer, 2 consumers, MAX_RETRY 2, 2 faults of any kind | balances explained, reports true, a second move explained by a repeated reply or by more replies than rows; without faults one move, none when FAILED, and final outcomes |
| `transfer_saga_fair` | 1 transfer, 1 consumer, 1 fault | settled; a move is announced unless the catch block reports it as failed, and then by a retry, or the retries are used up |
| `transfer_saga_rebalance` | 1 transfer, 1 rebalance | violated: see *Findings* |
| `circuit_breaker` | 4 requests, threshold 3 | half-open has a probe, rejections are justified, a half-open circuit is decided, an open one is probed |
| `avatar_upload` | 2 uploads, room for 1 avatar, 3 attempts, 2 faults | what the client got is stored; file and row go together without faults; the limit is exceeded by overlap only; every upload ends |
| `balance_reset` | 1 job, 2 attempts of 2 calls, 1 fault; 2 balances, 2 of two opposite transfers and a deposit | balances stay covered, deadlocks need a reset, resets are explained, no late reset without faults, the job ends |
| `auth` | 2 requests, 2 codes, 2 attempts, 2 tokens | comparisons with a code are bounded by its attempts and by those who held it uncounted when it was removed; codes expire and are gone once taken and leave no cooldown; spent tokens stay spent, a deleted account gets none |
| `users_cache` | 3 requests, 2 pages, 1 change, 1 fault | old pages have a late reader or a failure to blame; only a lost EXPIRE lets a page stay |

Why the bounds are enough to be interesting. Two faults are needed for a fault during the
recovery from another one. MAX_RETRY 2 gives a first attempt, one retry and the FAILED end. Three rows a
side hold the first attempt, its retry and the reply that a repeated copy adds; the runs that
need longer chains have more. LIMIT 2 with four rows has full and partial batches.
A transfer may abort at any attempt, which stands for other transfers that took the money first; transfers that compete for a
balance are in `balance_reset`.
Threshold 3 lets failures accumulate, be forgotten by a success, and accumulate again while the
circuit is open. Guards on the bounds (`MaxRows`, `MaxTxRows`, `MaxUserRows`, `MaxFaults`) only stop a
behaviour that would go further. A saga may stop when every operation is settled, so its runs
do not check for deadlock; those of the worker and the circuit breaker do.

Two uploads with room for one race for it and fill the profile for each other; three attempts
are those of the code, and allow a handler of each of them to be at work at once. An upload that ended is not repeated, so this run does not check for deadlock either.

In `balance_reset` transfers of 1 in both directions between balances of 1 and 0 need each other's money, share both rows, and meet
the reset, which locks both: every cycle of waits of two transactions is there. At most two of the transfers and the deposit begin
(`MaxBegun`). Two attempts of two calls and one restart make six calls at most (`MaxCalls`). In `auth` a code is replaced, expires and
is removed while the other request holds it, which then makes the comparison beyond the attempts; the second token follows a refresh of the first. In `users_cache` two requests
race on a page while the third invalidates, and a scan has two steps. Jobs, codes and
changes end, so these runs do not check for deadlock.

The saga runs check `SagaInv`, the inductive invariant of their proofs (see *Proofs*). It implies the invariants listed with it, and
`CreditedOnlyIfPaid`, `BalanceUpdatedOnlyIfCredited` and `ReportedOnlyIfMoved`. The types of the other modules are proved (`TypeCorrect`) and not
listed in their runs, and so are `TickShape` of the worker and `TokensNeedVerification` of `Auth`.

## Fairness

- `OutboxWorker`: the process is restarted, cron keeps firing, suspended ticks are resumed (weak
  fairness). Reading and publishing may fail any number of times but not for ever (strong
  fairness for `FindEvents`, and for `PublishEvent` of each row, as failing is a step that
  disables it until the next tick). `LIMIT` rows that fail for ever would starve all younger
  ones; the code has no bound on the attempts.
- Sagas: the workers' part is what `OutboxWorker` provides. Kafka delivers what was not consumed. A
  database transaction of a handler ends, well or not: the transfer may abort each time. The
  insert of the catch block is strongly fair: it rethrows when it fails, the offset
  stays, and the message is read again until it succeeds. Yookassa repeats a webhook until it gets a 2xx. Reply
  handlers that swallow an error lose the reply for good (`DropReply`): settlement is checked
  without that fault, and does not hold with it.
- `CircuitBreaker`: timers fire, each request ends within `proxyTimeout` of its last sign of life, and clients
  keep sending requests; a circuit that nobody asks is not probed.
- `BalanceReset`: the worker takes jobs and answers, delays end, some transaction that can go on does, and
  Postgres detects deadlocks. A job whose calls keep failing ends as failed.
- `UsersCache`: requests and handlers run on, and Redis removes pages whose TTL is over.
- `AvatarUpload`: file-service takes the answers that came, timers of the retry fire, a removal ends (well
  or not), and each handler of user-service ends: its awaits are database calls. A timeout is
  not needed, so none is assumed.

## Proofs

TLAPS checks them for all values of the constants under the named assumptions of the
modules: bounds and retries are natural numbers, sender and recipient differ (checked by `transferRub`), amounts and
initial balances are natural numbers, the threshold is positive.

- `OutboxWorker_proofs`: `IInv` is inductive. `TickShape` is the strengthening: it says what a suspended tick holds
  (rows to publish, published rows, nothing), which is what makes "marked implies published" survive the
  loop. Results: `TicksDoNotOverlap`, `NoEventIsLost`, `DuplicatesNeedFaults`, and
  `WorkerImplementsDelivery`: every step of the worker is a step of `OutboxDelivery` or a stutter, with the ids collected by
  ticks in flight for its `awaiting`.
- `DepositSaga_proofs`: in three layers. `IInv` is `TypeOK` with `Chain`, the chain payment, status, outbox row, credit,
  reply, status; each link is needed to prove the next one. `SagaInv` adds the counts: credits are counted by keys
  (`CreditedOncePerKey`, which needs `KeyFacts`: an append moves no key to another deposit), rows by retries (`AttemptFacts`, for
  `RetryBudget`: a new row is written below `MaxRetry` only). The last layer holds while `faults = 0`, and
  is what makes `ExactlyOnceWithoutFaults` inductive: a row is published once (`PublishedOnce`), so a message is pending until it is
  consumed, and a deposit has one token at most, a pending row (`RowHasTheTurn`: COMPLETED, not credited, no other pending
  row or reply) or a pending reply (`ReplyHasTheTurn`). Each step without a fault moves the
  token, so a retry is written only after a failed reply, and that only for a deposit that was not credited. Results: `Invariance`,
  `SagaInvariance`, `TypeCorrect`, `CreditsArePaid`, `ReportsAreTrue`, `CreditsMatchKeys`, `RetriesAreBounded`, `CalmSagaCreditsOnce`, and
  `StatusFollowsFlow`, an action property: FAILED is written without a look at the status, and the chain
  is what keeps it from an unpaid transaction.
- `TransferSaga_proofs`: the same layers, with the differences of the code. The chain goes from rows over handlers and keys to replies.
  `BalancesExplained` counts the units of money the processed keys moved: what a key moved from one account it moved to another, so
  the step that adds the key and changes both balances keeps it. `CountFacts` has a success reply for every key, and a
  retry, in `retry_count` and in `txProcessed`, for every row but the first: a second move is then a reply
  that was consumed in two copies, or a reply more than there are rows. Without faults a handler is a holder of the token too
  (`HandledOnce`: one consumer per row, with its first copy). Results: `Invariance`, `SagaInvariance`, `TypeCorrect`, which contains that no
  balance is negative, `StepsRestOnSteps`, `ReportsAreTrue`, `NoMoneyAppearsOrVanishes`, `RetriesAreBounded`, `DoubleMovesAreExplained`, and
  the action property `OutcomesAreFinal`: a reply that is consumed without faults has the turn, and then the status is PENDING.
- Both sagas: `SagaUsesOutboxes`. Every step of the saga is a step of `OutboxDelivery`, or a stutter, for the outbox of
  transaction-service and for that of user-service: a worker's step, a new row (with the fault of a crash or a
  lost answer, if it comes with one), or a fault elsewhere. With `WorkerImplementsDelivery` this joins the modules: what the
  sagas let their outboxes do is what the code of the worker does.
- `CircuitBreaker_proofs`: two halves. `Probing` (states and flags) is inductive on its own; `Counting` rests on it, since a circuit
  that reopens has a full streak only because a half-open one comes from an open one. Results:
  `NeverStuckHalfOpen`, `RejectionsAreJustified`, `TypeCorrect`.
- `AvatarUpload_proofs`: two halves. `Known` (types and `CallFacts`) is what the client knows of its call and holds whatever
  fails; `OneAttemptAtWork` says that without faults only the attempt the client waits for is at work, so that a
  compensation never meets a row; `CountFacts` adds that the handlers that have counted still fit. Results: `CreatedUploadsAreStored`,
  `FileAndRowStayTogether`, `OverlapBoundsExcess`, `TypeCorrect`.
- `BalanceReset_proofs`: first the locks. `LockFacts` says what a transaction may rely on: a row has one owner, the amount it read under the
  lock is the amount, and the rows it has are lower than those it still needs. The last part is why a cycle of waits
  without a reset is impossible: take the highest row that is waited for; its owner waits for a higher one. Then the job. `ResetUsesLocks`: every
  step of `BalanceReset` is one of `BalanceLocks` or a stutter, so it inherits both results. `JobFacts` counts the calls
  that may still reset although the job does not wait for them: only a fault makes one. Results: `BalancesCoveredUnderReset`,
  `OnlyResetsDeadlockUnderReset`, `TypeCorrect`, `NoResetComesLate`, `ResetsHaveReasons`.
- `Auth_proofs`: `StoredCodes` and `KnownCodes` tie a stored code to the newest of its key and its comparisons to its attempts; `Budgeted` gives a removed code room for those
  that still hold it, a finite set that only shrinks, as nobody can read the code again;
  `TokenFacts` and `LateFacts` say what a request that is about to sign knows. Together with the invariants
  they are inductive; each invariant of the run is a result, and `SpentTokensAreGone` and `DeletedGetNoToken` follow from `TokenFacts` and `LateFacts`.
- `UsersCache_proofs`: `PageFacts` (who has a TTL, nobody is ahead of the database) with `PageHasTtl` is inductive. The action property
  `InvalidationsMissNothing` is shown action by action: a page becomes old by a change, whose scan has every
  key still to pass, or by a SET of a version that was read before; a scan leaves a key only when its page is not stored or goes into its batch.

Only model-checked: liveness, and with it the fairness part of the refinement (`ImplementsFairDelivery`): both are out of the
prover's reach. Every invariant and action property of the passing runs is a theorem.

## Findings

1. `deposit_saga_idempotent`: the same outbox row published twice carries two idempotency keys, so
   the consumer credits both. One crash between `emit` and `markEventsAsProcessed` suffices. `README.md:76` of the
   repository promises idempotent operations. Keying the message by the row (`event.id`) would
   let `processed_events` recognise the copy.
2. `transfer_saga_rebalance`: two consumers of one message, around a rebalance, both find its key new. One moves the money, the other fails and
   commits TRANFER_FAILED, and transaction-service retries a transfer that was moved. A failed attempt does
   not record its key, so a redelivery after an abort that was already reported has the same
   effect, and so has a commit whose answer is lost, or a crash after the commit when the handler of the redelivered
   message fails on the key it processed. In the last two cases the client may never be
   notified either. `MovesAreExplained` shows the faults the code does survive: a retry of the saga, and a redelivery or a crash
   whose message is answered as before, never move a transfer twice.

Four observations that are no failed check:

- The branch of the circuit breaker for a half-open circuit without a probe is never taken. The timer of a hung probe calls
  `failure()`, which reopens the circuit; the comment at line 125 says otherwise. The behaviour is sound
  (`HalfOpenHasProbe`).
- `createAvatar` counts and inserts without a lock, so overlapping uploads exceed `MAX_AVATARS_FOR_PROFILE`, by as many as overlap
  (`ExcessNeedsOverlap`).
- `verify` compares with the code it read at `otp.service.ts:70`, although it counts the attempt afterwards, in a key that
  another verification, an acceptance or the expiry may have removed by then. HINCRBY starts again at 1, so a
  removed code is compared once more, and may be accepted, by each verification that held it. `GuessBudget` shows that this is
  all that goes beyond `OTP_ATTEMPTS_COUNT`.
- `resetAllBalances` locks rows in an order of its own and can deadlock with transfers. Postgres aborts one of them, and both the
  queue and the saga try again (`NoDeadlockWithoutReset`, `JobEnds`).

## Abstractions

- In the sagas a database transaction is one atomic step. `BalanceLocks` shows what this rests on for the balances: the row locks serialise
  transactions on the same rows, and a deadlock is an abort.
- Amounts are small numbers; their conversions to and from strings are left out. Deposits count credits
  instead of amounts, as their currency and amount never change.
- Kafka keeps the order of the copies of one row (one key, one partition) and none between rows.
- Publishing is by copies: the content of a message is its row.
- The avatars are those of one profile. An account deleted meanwhile is a rejected call. Type and size checks of the
  stream end the upload like any error of it.
- The gRPC retry around `transferRub` and `depositRub` is left out: their `idempotencyKey` makes a repeated request find
  the existing transaction.

- `Auth`: email, username and id name one account, so `findBy` finds it or does not; a register that finds it is refused.
  Passwords and signatures are right, or the request fails. A deleted account keeps its row, and its session in Redis.
- `UsersCache`: a page that is found is the answer and changes nothing. Verification, deletion and removal of an avatar invalidate although
  `findAll` shows nothing that they change (it does not filter by `deletedAt`): such writers leave the version as it is. TTLs end at
  any time.
- `BalanceReset`: one worker takes one job at a time (the default concurrency of BullMQ). Delays are as long as they like. Currencies are left
  out: a transfer touches rows of one currency, and a reset all of them.

## Not modelled

- `notification-service`: each handler sends to a room, acknowledges, stores. It keeps no state between messages and compares nothing (a
  websocket has its room and the timer of its token from `handleConnection` on, and no handler reads either), so
  there is no promise to check: a crash after the acknowledgement loses the document, and every copy of a message is stored, also when user-service emits the notification of a redelivered message again.
- `mail-service`: stateless. A lost mail is a client that asks for another code, which `Auth` allows at any time.
- `gateway`: controllers, guards and DTOs without state, but for the circuit breaker.
- Libraries that connect to Prisma, Redis, Kafka and RabbitMQ, configuration and seeds: set-up, no protocol of their own. Kafka, Redis, Postgres
  and BullMQ are modelled as external where the services depend on what they do.
- Generated code: gRPC stubs and Prisma clients are most of the lines of the repository and contain no decision of this program.
- The calls that only read (`findMe`, `findActive`, balances, histories), and the wording of answers and logs.
