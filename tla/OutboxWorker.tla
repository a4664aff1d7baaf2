---------------------------- MODULE OutboxWorker ----------------------------
(***************************************************************************)
(* The outbox worker of libs/outbox (AbstractOutboxWorkerService), run by  *)
(* transaction-service and by user-service over their own outbox_events    *)
(* table.  A cron job calls processOutbox every five seconds: it reads the *)
(* LIMIT oldest unprocessed rows, publishes them to Kafka one after the    *)
(* other, skips the ones that fail, and marks the published ones.          *)
(*                                                                         *)
(* Every call of processOutbox is a tick.  The cron library does not wait  *)
(* for a tick before it starts the next one, so several ticks could        *)
(* overlap at their awaits: only isProcessing prevents it.                 *)
(***************************************************************************)
EXTENDS Naturals, FiniteSets

CONSTANTS MaxRows,    \* bound on the outbox rows ever created
          MaxFaults,  \* bound on the faults of a behaviour
          Limit,      \* LIMIT of the environment: rows read by one tick
          Tick        \* slots for the concurrent calls of processOutbox

ASSUME BoundsAssumption == MaxRows \in Nat /\ MaxFaults \in Nat
ASSUME LimitAssumption == Limit \in Nat \ {0}

Row == 1 .. MaxRows

VARIABLES
    rows,          \* committed rows are 1 .. rows, in createdAt order
    processed,     \* rows whose processed column is true
    sent,          \* sent[i]: copies of row i stored by the broker
    process,       \* the service: "down", "up", or "stopping"
    isProcessing,  \* the worker's flag
    step,          \* step[t]: where tick t is suspended, or "idle"
    events,        \* events[t]: rows tick t still has to publish
    processedIds,  \* processedIds[t]: rows tick t has published
    faults         \* faults so far

vars == <<rows, processed, sent, process, isProcessing,
          step, events, processedIds, faults>>
tickVars == <<isProcessing, step, events, processedIds>>

TypeOK ==
    /\ rows \in 0 .. MaxRows
    /\ processed \subseteq 1 .. rows
    /\ sent \in [Row -> Nat]
    /\ process \in {"down", "up", "stopping"}
    /\ isProcessing \in BOOLEAN
    /\ step \in [Tick -> {"idle", "find", "publish", "mark"}]
    /\ events \in [Tick -> SUBSET (1 .. rows)]
    /\ processedIds \in [Tick -> SUBSET (1 .. rows)]
    /\ faults \in 0 .. MaxFaults

Init ==
    /\ rows = 0
    /\ processed = {}
    /\ sent = [i \in Row |-> 0]
    /\ process = "down"
    /\ isProcessing = FALSE
    /\ step = [t \in Tick |-> "idle"]
    /\ events = [t \in Tick |-> {}]
    /\ processedIds = [t \in Tick |-> {}]
    /\ faults = 0

-----------------------------------------------------------------------------
(* The environment: business transactions, and the life of the process.    *)

(* outboxEvent.create inside a transaction of the service commits. *)
InsertEvent ==
    /\ rows < MaxRows
    /\ rows' = rows + 1
    /\ UNCHANGED <<processed, sent, process, tickVars, faults>>

ModuleInit ==
    /\ process = "down"
    /\ process' = "up"
    /\ UNCHANGED <<rows, processed, sent, tickVars, faults>>

Fault ==
    /\ faults < MaxFaults
    /\ faults' = faults + 1

(* cronJob.stop(): no new tick, but a tick in flight goes on. *)
ModuleDestroy ==
    /\ process = "up"
    /\ Fault
    /\ process' = "stopping"
    /\ UNCHANGED <<rows, processed, sent, tickVars>>

Exit ==
    /\ process = "stopping"
    /\ \A t \in Tick : step[t] = "idle"
    /\ process' = "down"
    /\ UNCHANGED <<rows, processed, sent, tickVars, faults>>

(* The process dies at any await; the next one starts with fresh fields. *)
Crash ==
    /\ process # "down"
    /\ Fault
    /\ process' = "down"
    /\ isProcessing' = FALSE
    /\ step' = [t \in Tick |-> "idle"]
    /\ events' = [t \in Tick |-> {}]
    /\ processedIds' = [t \in Tick |-> {}]
    /\ UNCHANGED <<rows, processed, sent>>

-----------------------------------------------------------------------------
(* processOutbox, cut at its awaits.                                       *)

(* Mutant: the finally clause forgets the flag. *)
FinishStillProcessing(t) ==
    /\ UNCHANGED isProcessing
    /\ step' = [step EXCEPT ![t] = "idle"]
    /\ events' = [events EXCEPT ![t] = {}]
    /\ processedIds' = [processedIds EXCEPT ![t] = {}]

(* The finally clause, reached by every return and every error. *)
Finish(t) ==
    /\ isProcessing' = FALSE
    /\ step' = [step EXCEPT ![t] = "idle"]
    /\ events' = [events EXCEPT ![t] = {}]
    /\ processedIds' = [processedIds EXCEPT ![t] = {}]

(* Mutant: the guard on isProcessing is dropped. *)
ProcessOutboxUnguarded(t) ==
    /\ process = "up"
    /\ step[t] = "idle"
    /\ isProcessing' = TRUE
    /\ step' = [step EXCEPT ![t] = "find"]
    /\ UNCHANGED <<rows, processed, sent, process, events, processedIds, faults>>

(* The cron job fires; the call returns at once while isProcessing holds. *)
ProcessOutbox(t) ==
    /\ process = "up"
    /\ step[t] = "idle"
    /\ ~isProcessing
    /\ isProcessing' = TRUE
    /\ step' = [step EXCEPT ![t] = "find"]
    /\ UNCHANGED <<rows, processed, sent, process, events, processedIds, faults>>

Unprocessed == (1 .. rows) \ processed

(* findUnprocessedEvents: order by createdAt, take LIMIT. *)
Oldest(n) ==
    {i \in Unprocessed : Cardinality({j \in Unprocessed : j < i}) < n}

FindEvents(t) ==
    /\ step[t] = "find"
    /\ IF Unprocessed = {}
         THEN Finish(t)
         ELSE /\ step' = [step EXCEPT ![t] = "publish"]
              /\ events' = [events EXCEPT ![t] = Oldest(Limit)]
              /\ UNCHANGED <<isProcessing, processedIds>>
    /\ UNCHANGED <<rows, processed, sent, process, faults>>

FindEventsFails(t) ==
    /\ step[t] = "find"
    /\ Finish(t)
    /\ UNCHANGED <<rows, processed, sent, process, faults>>

(* The row of the loop's current iteration. *)
IsCurrent(t, i) ==
    /\ step[t] = "publish"
    /\ i \in events[t]
    /\ \A j \in events[t] : i <= j

(* The loop goes on after row i; ids are the rows published so far. *)
Continue(t, i, ids) ==
    IF events[t] = {i} /\ ids = {}
      THEN Finish(t)
      ELSE /\ step' = [step EXCEPT ![t] = IF events[t] = {i} THEN "mark"
                                                             ELSE "publish"]
           /\ events' = [events EXCEPT ![t] = @ \ {i}]
           /\ processedIds' = [processedIds EXCEPT ![t] = ids]
           /\ UNCHANGED isProcessing

PublishEvent(t, i) ==
    /\ IsCurrent(t, i)
    /\ sent' = [sent EXCEPT ![i] = @ + 1]
    /\ Continue(t, i, processedIds[t] \cup {i})
    /\ UNCHANGED <<rows, processed, process, faults>>

(* Mutant: the id is collected before the call that may throw. *)
PublishEventFailsCollected(t, i) ==
    /\ IsCurrent(t, i)
    /\ Continue(t, i, processedIds[t] \cup {i})
    /\ UNCHANGED <<rows, processed, sent, process, faults>>

(* emit throws and the broker has nothing: the row is skipped. *)
PublishEventFails(t, i) ==
    /\ IsCurrent(t, i)
    /\ Continue(t, i, processedIds[t])
    /\ UNCHANGED <<rows, processed, sent, process, faults>>

(* emit throws although the broker stored the copy. *)
PublishEventUnconfirmed(t, i) ==
    /\ IsCurrent(t, i)
    /\ Fault
    /\ sent' = [sent EXCEPT ![i] = @ + 1]
    /\ Continue(t, i, processedIds[t])
    /\ UNCHANGED <<rows, processed, process>>

MarkEventsAsProcessed(t) ==
    /\ step[t] = "mark"
    /\ processed' = processed \cup processedIds[t]
    /\ Finish(t)
    /\ UNCHANGED <<rows, sent, process, faults>>

MarkEventsAsProcessedFails(t) ==
    /\ step[t] = "mark"
    /\ Fault
    /\ Finish(t)
    /\ UNCHANGED <<rows, processed, sent, process>>

TickStep(t) ==
    \/ ProcessOutbox(t)
    \/ FindEvents(t)
    \/ FindEventsFails(t)
    \/ \E i \in Row : \/ PublishEvent(t, i)
                      \/ PublishEventFails(t, i)
                      \/ PublishEventUnconfirmed(t, i)
    \/ MarkEventsAsProcessed(t)
    \/ MarkEventsAsProcessedFails(t)

Next ==
    \/ InsertEvent
    \/ ModuleInit
    \/ ModuleDestroy
    \/ Exit
    \/ Crash
    \/ \E t \in Tick : TickStep(t)

Spec == Init /\ [][Next]_vars

(***************************************************************************)
(* The process is restarted when it is down and the cron job keeps firing; *)
(* a suspended tick is resumed.  Reading and publishing may fail any       *)
(* number of times but not for ever: the database and each row's partition *)
(* answer infinitely often when they are asked infinitely often.           *)
(***************************************************************************)
Fairness ==
    /\ WF_vars(ModuleInit)
    /\ WF_vars(Exit)
    /\ WF_vars(\E t \in Tick : TickStep(t))
    /\ SF_vars(\E t \in Tick : FindEvents(t))
    /\ \A i \in Row : SF_vars(\E t \in Tick : PublishEvent(t, i))

FairSpec == Spec /\ Fairness

-----------------------------------------------------------------------------
(* Properties.                                                             *)

Active(t) == step[t] # "idle"

(* isProcessing (processOutbox, lines 38-39 and 65) keeps the ticks of one
   process apart: the flag is up exactly while a tick is in flight, and no
   two ticks are ever in flight together, across failures and restarts. *)
AtMostOneTick ==
    /\ isProcessing <=> \E t \in Tick : Active(t)
    /\ \A t, u \in Tick : Active(t) /\ Active(u) => t = u

InFlightIds == UNION {processedIds[t] : t \in Tick}

(* A row is marked as processed only when the broker holds it, although the
   ids are collected over a loop that skips failures and the rows of a tick
   may be inserted, published and marked around a crash: no event is lost. *)
MarkedWasPublished == \A i \in processed \cup InFlightIds : sent[i] > 0

(* Duplicates are explained by faults: a row reaches the broker at most once
   more than the number of crashes and unconfirmed calls so far. *)
BoundedDuplicates ==
    \A i \in Row :
        sent[i] <= faults + IF i \in processed \cup InFlightIds THEN 1 ELSE 0

(* What the suspended ticks hold: a row is still to be published, published,
   or marked, never two of these; only a tick inside the loop holds rows. *)
TickShape ==
    \A t \in Tick :
        /\ step[t] \in {"idle", "find"} => events[t] = {} /\ processedIds[t] = {}
        /\ step[t] = "mark" => events[t] = {} /\ processedIds[t] # {}
        /\ events[t] \cap (processed \cup processedIds[t]) = {}
        /\ processedIds[t] \cap processed = {}

(* Every committed row is published and marked in the end, whatever rows of
   the same tick keep failing (the catch inside the loop, lines 49-56). *)
EventuallyProcessed ==
    \A i \in Row : (rows >= i) ~> (i \in processed /\ sent[i] > 0)

(* The strengthening that makes the safety invariants inductive. *)
IInv ==
    /\ TypeOK
    /\ AtMostOneTick
    /\ TickShape
    /\ MarkedWasPublished
    /\ BoundedDuplicates

(* The worker implements what the outbox promises. *)
Delivery == INSTANCE OutboxDelivery WITH awaiting <- InFlightIds

ImplementsDelivery == Delivery!Spec
ImplementsFairDelivery == Delivery!FairSpec
=============================================================================
