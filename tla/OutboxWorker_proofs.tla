------------------------ MODULE OutboxWorker_proofs -------------------------
(* Proofs about OutboxWorker: its invariants, and that it implements
   OutboxDelivery.  IInv is the inductive invariant. *)
EXTENDS OutboxWorker, TLAPS

(* Every tick but t is idle and holds nothing. *)
Alone(t) ==
    \A u \in Tick \ {t} :
        step[u] = "idle" /\ events[u] = {} /\ processedIds[u] = {}

(* An active tick is the only one, and holds all the rows in flight. *)
LEMMA ActiveIsAlone ==
    ASSUME IInv, NEW t \in Tick, Active(t)
    PROVE  Alone(t) /\ isProcessing /\ InFlightIds = processedIds[t]
<1>1. \A u \in Tick \ {t} : step[u] = "idle"
  BY DEF IInv, AtMostOneTick, Active
<1>2. Alone(t)
  BY <1>1 DEF Alone, IInv, TickShape
<1>3. InFlightIds = processedIds[t]
  BY <1>2 DEF Alone, InFlightIds
<1> QED
  BY <1>2, <1>3 DEF IInv, AtMostOneTick

(* When no tick is active nothing is in flight. *)
LEMMA NoneActive ==
    ASSUME IInv, ~isProcessing
    PROVE  InFlightIds = {} /\ \A t \in Tick : step[t] = "idle"
<1>1. \A t \in Tick : step[t] = "idle"
  BY DEF IInv, AtMostOneTick, Active
<1> QED
  BY <1>1 DEF IInv, TickShape, InFlightIds

(* What the finally clause leaves behind. *)
LEMMA FinishEffect ==
    ASSUME IInv, NEW t \in Tick, Active(t), Finish(t)
    PROVE  /\ isProcessing' = FALSE
           /\ \A u \in Tick : /\ step'[u] = "idle"
                              /\ events'[u] = {} /\ processedIds'[u] = {}
           /\ InFlightIds' = {}
           /\ step' \in [Tick -> {"idle", "find", "publish", "mark"}]
           /\ DOMAIN events' = Tick /\ DOMAIN processedIds' = Tick
           /\ events' = [u \in Tick |-> events'[u]]
           /\ processedIds' = [u \in Tick |-> processedIds'[u]]
<1> USE DEF IInv, TypeOK
<1>1. Alone(t)
  BY ActiveIsAlone
<1>2. \A u \in Tick : step'[u] = "idle" /\ events'[u] = {} /\ processedIds'[u] = {}
  BY <1>1 DEF Alone, Finish
<1>3. InFlightIds' = {}
  BY <1>2 DEF InFlightIds
<1> QED
  BY <1>2, <1>3 DEF Finish

(* What one iteration of the loop leaves behind. *)
LEMMA ContinueEffect ==
    ASSUME IInv, NEW t \in Tick, NEW i \in Row, IsCurrent(t, i),
           NEW ids \in SUBSET (1 .. rows), Continue(t, i, ids),
           ids \in {processedIds[t], processedIds[t] \cup {i}},
           UNCHANGED <<rows, processed>>
    PROVE  /\ AtMostOneTick'
           /\ TickShape'
           /\ InFlightIds' = ids
           /\ isProcessing' \in BOOLEAN
           /\ step' \in [Tick -> {"idle", "find", "publish", "mark"}]
           /\ events' \in [Tick -> SUBSET (1 .. rows)]
           /\ processedIds' \in [Tick -> SUBSET (1 .. rows)]
<1>0. Active(t) /\ i \in events[t] /\ step[t] = "publish"
  BY DEF IsCurrent, Active
<1>1. Alone(t) /\ isProcessing /\ InFlightIds = processedIds[t]
  BY <1>0, ActiveIsAlone
<1>2. CASE events[t] = {i} /\ ids = {}
  <2>1. Finish(t)
    BY <1>2 DEF Continue
  <2>2. /\ isProcessing' = FALSE
        /\ \A u \in Tick : step'[u] = "idle" /\ events'[u] = {} /\ processedIds'[u] = {}
        /\ InFlightIds' = {}
        /\ step' \in [Tick -> {"idle", "find", "publish", "mark"}]
        /\ events' = [u \in Tick |-> events'[u]]
        /\ processedIds' = [u \in Tick |-> processedIds'[u]]
    BY <1>0, <2>1, FinishEffect
  <2> QED
    BY <2>2, <1>2 DEF AtMostOneTick, TickShape, Active
<1>3. CASE ~(events[t] = {i} /\ ids = {})
  <2>1. /\ step' = [step EXCEPT ![t] = IF events[t] = {i} THEN "mark" ELSE "publish"]
        /\ events' = [events EXCEPT ![t] = @ \ {i}]
        /\ processedIds' = [processedIds EXCEPT ![t] = ids]
        /\ isProcessing' = isProcessing
    BY <1>3 DEF Continue
  <2>2. /\ step' \in [Tick -> {"idle", "find", "publish", "mark"}]
        /\ events' \in [Tick -> SUBSET (1 .. rows)]
        /\ processedIds' \in [Tick -> SUBSET (1 .. rows)]
    BY <2>1 DEF IInv, TypeOK
  <2>3. Alone(t)'
    BY <1>1, <2>1 DEF Alone, IInv, TypeOK
  <2>4. /\ step'[t] = IF events[t] = {i} THEN "mark" ELSE "publish"
        /\ events'[t] = events[t] \ {i}
        /\ processedIds'[t] = ids
    BY <2>1 DEF IInv, TypeOK
  <2>5. InFlightIds' = ids
    BY <2>3, <2>4 DEF Alone, InFlightIds
  <2>6. AtMostOneTick'
    BY <1>1, <2>1, <2>3, <2>4 DEF Alone, AtMostOneTick, Active
  <2>7. TickShape'
    <3> SUFFICES ASSUME NEW u \in Tick
                 PROVE /\ step'[u] \in {"idle", "find"} => events'[u] = {} /\ processedIds'[u] = {}
                       /\ step'[u] = "mark" => events'[u] = {} /\ processedIds'[u] # {}
                       /\ events'[u] \cap (processed' \cup processedIds'[u]) = {}
                       /\ processedIds'[u] \cap processed' = {}
      BY DEF TickShape
    <3>1. CASE u # t
      BY <3>1, <2>3 DEF Alone
    <3>2. CASE u = t
      <4>1. /\ events[t] \cap (processed \cup processedIds[t]) = {}
            /\ processedIds[t] \cap processed = {}
        BY DEF IInv, TickShape
      <4> QED
        BY <3>2, <2>4, <4>1, <1>0, <1>3
    <3> QED
      BY <3>1, <3>2
  <2> QED
    BY <1>1, <2>1, <2>2, <2>5, <2>6, <2>7 DEF IInv, TypeOK
<1> QED
  BY <1>2, <1>3

(* The invariants of the worker hold initially. *)
LEMMA InitIInv == Init => IInv
<1> SUFFICES ASSUME Init PROVE IInv
  OBVIOUS
<1>1. InFlightIds = {}
  BY DEF Init, InFlightIds
<1>2. TypeOK
  <2>1. /\ sent \in [Row -> Nat]
        /\ step \in [Tick -> {"idle", "find", "publish", "mark"}]
        /\ events \in [Tick -> SUBSET (1 .. rows)]
        /\ processedIds \in [Tick -> SUBSET (1 .. rows)]
    BY DEF Init
  <2>2. rows \in 0 .. MaxRows /\ faults \in 0 .. MaxFaults
    BY BoundsAssumption DEF Init
  <2>3. processed \subseteq 1 .. rows /\ isProcessing \in BOOLEAN
        /\ process \in {"down", "up", "stopping"}
    BY DEF Init
  <2> QED
    BY <2>1, <2>2, <2>3 DEF TypeOK
<1>3. AtMostOneTick /\ TickShape
  BY DEF Init, AtMostOneTick, TickShape, Active
<1>4. MarkedWasPublished /\ BoundedDuplicates
  BY <1>1 DEF Init, MarkedWasPublished, BoundedDuplicates
<1> QED
  BY <1>2, <1>3, <1>4 DEF IInv

(* ... and every step keeps them. *)
LEMMA NextIInv == IInv /\ [Next]_vars => IInv'
<1> SUFFICES ASSUME IInv, [Next]_vars PROVE IInv'
  OBVIOUS
<1> USE BoundsAssumption DEF Row
<1>1. CASE InsertEvent
  BY <1>1 DEF InsertEvent, IInv, TypeOK, AtMostOneTick, TickShape,
     MarkedWasPublished, BoundedDuplicates, InFlightIds, Active, tickVars
<1>2. CASE ModuleInit
  BY <1>2 DEF ModuleInit, IInv, TypeOK, AtMostOneTick, TickShape,
     MarkedWasPublished, BoundedDuplicates, InFlightIds, Active, tickVars
<1>3. CASE ModuleDestroy
  <2>1. TypeOK'
    BY <1>3 DEF ModuleDestroy, Fault, IInv, TypeOK, tickVars
  <2>2. AtMostOneTick' /\ TickShape' /\ InFlightIds' = InFlightIds
    BY <1>3 DEF ModuleDestroy, IInv, AtMostOneTick, TickShape, InFlightIds,
       Active, tickVars
  <2>3. MarkedWasPublished' /\ BoundedDuplicates'
    BY <1>3, <2>2 DEF ModuleDestroy, Fault, IInv, TypeOK, MarkedWasPublished,
       BoundedDuplicates
  <2> QED
    BY <2>1, <2>2, <2>3 DEF IInv
<1>4. CASE Exit
  BY <1>4 DEF Exit, IInv, TypeOK, AtMostOneTick, TickShape,
     MarkedWasPublished, BoundedDuplicates, InFlightIds, Active, tickVars
<1>5. CASE Crash
  <2>1. InFlightIds' = {}
    BY <1>5 DEF Crash, InFlightIds
  <2>2. TypeOK'
    <3>1. /\ step' \in [Tick -> {"idle", "find", "publish", "mark"}]
          /\ events' \in [Tick -> SUBSET (1 .. rows)]
          /\ processedIds' \in [Tick -> SUBSET (1 .. rows)]
      BY <1>5 DEF Crash
    <3>2. Fault
      BY <1>5 DEF Crash
    <3>3. faults' \in 0 .. MaxFaults
      BY <3>2 DEF Fault, IInv, TypeOK
    <3>4. /\ isProcessing' \in BOOLEAN /\ process' \in {"down", "up", "stopping"}
          /\ UNCHANGED <<rows, processed, sent>>
      BY <1>5 DEF Crash
    <3> QED
      BY <3>1, <3>3, <3>4 DEF IInv, TypeOK
  <2>5. AtMostOneTick' /\ TickShape'
    BY <1>5 DEF Crash, AtMostOneTick, TickShape, Active
  <2>3. MarkedWasPublished'
    BY <1>5, <2>1 DEF Crash, IInv, MarkedWasPublished
  <2>4. BoundedDuplicates'
    BY <1>5, <2>1 DEF Crash, Fault, IInv, TypeOK, BoundedDuplicates
  <2> QED
    BY <2>2, <2>3, <2>4, <2>5 DEF IInv
<1>6. ASSUME NEW t \in Tick, TickStep(t) PROVE IInv'
  <2>1. CASE ProcessOutbox(t)
    <3>1. InFlightIds = {} /\ \A u \in Tick : step[u] = "idle"
      BY <2>1, NoneActive DEF ProcessOutbox
    <3>2. InFlightIds' = InFlightIds
      BY <2>1 DEF ProcessOutbox, InFlightIds
    <3>3. TypeOK' /\ AtMostOneTick' /\ TickShape'
      BY <2>1, <3>1 DEF ProcessOutbox, IInv, TypeOK, AtMostOneTick, TickShape, Active
    <3>4. MarkedWasPublished' /\ BoundedDuplicates'
      BY <2>1, <3>2 DEF ProcessOutbox, IInv, MarkedWasPublished, BoundedDuplicates
    <3> QED
      BY <3>3, <3>4 DEF IInv
  <2>2. ASSUME Active(t), Finish(t), UNCHANGED <<rows, sent, process>>,
               processed' \in {processed, processed \cup processedIds[t]},
               \/ Fault
               \/ InFlightIds \subseteq processed' /\ UNCHANGED faults
        PROVE  IInv'
    <3>1. InFlightIds = processedIds[t]
      BY <2>2, ActiveIsAlone
    <3>2. /\ isProcessing' = FALSE
          /\ \A u \in Tick : step'[u] = "idle" /\ events'[u] = {} /\ processedIds'[u] = {}
          /\ InFlightIds' = {}
          /\ step' \in [Tick -> {"idle", "find", "publish", "mark"}]
          /\ events' = [u \in Tick |-> events'[u]]
          /\ processedIds' = [u \in Tick |-> processedIds'[u]]
      BY <2>2, FinishEffect
    <3>3. TypeOK'
      <4>1. /\ events' \in [Tick -> SUBSET (1 .. rows)]
            /\ processedIds' \in [Tick -> SUBSET (1 .. rows)]
        BY <3>2
      <4>2. processed' \subseteq 1 .. rows /\ faults' \in 0 .. MaxFaults
        BY <2>2 DEF IInv, TypeOK, Fault
      <4> QED
        BY <2>2, <3>2, <4>1, <4>2 DEF IInv, TypeOK
    <3>4. AtMostOneTick' /\ TickShape'
      BY <3>2 DEF AtMostOneTick, TickShape, Active
    <3>5. MarkedWasPublished'
      BY <2>2, <3>1, <3>2 DEF IInv, MarkedWasPublished
    <3>6. BoundedDuplicates'
      BY <2>2, <3>1, <3>2 DEF IInv, TypeOK, BoundedDuplicates, Fault
    <3> QED
      BY <3>3, <3>4, <3>5, <3>6 DEF IInv
  <2>3. CASE FindEvents(t) \/ FindEventsFails(t)
    <3>1. Active(t) /\ InFlightIds = {}
      <4>1. Active(t) /\ processedIds[t] = {}
        BY <2>3 DEF FindEvents, FindEventsFails, Active, IInv, TickShape
      <4> QED
        BY <4>1, ActiveIsAlone
    <3>2. CASE Finish(t)
      BY <2>2, <2>3, <3>1, <3>2 DEF FindEvents, FindEventsFails
    <3>3. CASE ~Finish(t)
      <4>1. /\ step[t] = "find" /\ Unprocessed # {}
            /\ step' = [step EXCEPT ![t] = "publish"]
            /\ events' = [events EXCEPT ![t] = Oldest(Limit)]
            /\ UNCHANGED <<isProcessing, processedIds, rows, processed, sent, process, faults>>
        BY <2>3, <3>3 DEF FindEvents, FindEventsFails
      <4>2. Oldest(Limit) \subseteq (1 .. rows) \ processed
        BY DEF Oldest, Unprocessed
      <4>3. /\ step'[t] = "publish" /\ events'[t] = Oldest(Limit)
            /\ \A u \in Tick \ {t} : step'[u] = step[u] /\ events'[u] = events[u]
        BY <4>1 DEF IInv, TypeOK
      <4>4. TypeOK'
        BY <4>1, <4>2 DEF IInv, TypeOK
      <4>5. AtMostOneTick'
        BY <4>1, <4>3 DEF IInv, AtMostOneTick, Active
      <4>6. TickShape'
        BY <4>1, <4>2, <4>3 DEF IInv, TickShape
      <4>7. InFlightIds' = InFlightIds
        BY <4>1 DEF InFlightIds
      <4>8. MarkedWasPublished' /\ BoundedDuplicates'
        BY <4>1, <4>7 DEF IInv, MarkedWasPublished, BoundedDuplicates
      <4> QED
        BY <4>4, <4>5, <4>6, <4>8 DEF IInv
    <3> QED
      BY <3>2, <3>3
  <2>4. ASSUME NEW i \in Row, NEW ids \in SUBSET (1 .. rows),
               IsCurrent(t, i), Continue(t, i, ids),
               UNCHANGED <<rows, processed, process>>,
               \/ /\ ids = processedIds[t] \cup {i} /\ UNCHANGED faults
                  /\ sent' = [sent EXCEPT ![i] = @ + 1]
               \/ ids = processedIds[t] /\ UNCHANGED <<sent, faults>>
               \/ /\ ids = processedIds[t] /\ Fault
                  /\ sent' = [sent EXCEPT ![i] = @ + 1]
        PROVE  IInv'
    <3>1. /\ AtMostOneTick' /\ TickShape' /\ InFlightIds' = ids
          /\ isProcessing' \in BOOLEAN
          /\ step' \in [Tick -> {"idle", "find", "publish", "mark"}]
          /\ events' \in [Tick -> SUBSET (1 .. rows)]
          /\ processedIds' \in [Tick -> SUBSET (1 .. rows)]
      BY <2>4, ContinueEffect
    <3>2. /\ i \in events[t] /\ i \notin processed \cup InFlightIds
          /\ InFlightIds = processedIds[t]
      BY <2>4, ActiveIsAlone DEF IsCurrent, Active, IInv, TickShape
    <3>3. TypeOK'
      <4>1. faults \in 0 .. MaxFaults /\ sent \in [Row -> Nat]
        BY DEF IInv, TypeOK
      <4>2. sent' \in [Row -> Nat]
        BY <4>1, <2>4
      <4>3. faults' \in 0 .. MaxFaults
        BY <4>1, <2>4, BoundsAssumption DEF Fault
      <4> QED
        BY <4>2, <4>3, <2>4, <3>1 DEF IInv, TypeOK
    <3>4. MarkedWasPublished'
      <4>1. /\ sent \in [Row -> Nat] /\ processed' = processed
            /\ processed \subseteq Row /\ processedIds[t] \subseteq Row
            /\ \A j \in processed \cup processedIds[t] : sent[j] > 0
        <5>1. /\ sent \in [Row -> Nat] /\ rows \in 0 .. MaxRows
              /\ processed \subseteq 1 .. rows
              /\ \A j \in processed \cup processedIds[t] : sent[j] > 0
          BY <3>2 DEF IInv, TypeOK, MarkedWasPublished
        <5>2. processedIds[t] \subseteq 1 .. rows
          BY DEF IInv, TypeOK
        <5>3. 1 .. rows \subseteq Row
          BY <5>1, BoundsAssumption DEF Row
        <5> QED
          BY <5>1, <5>2, <5>3, <2>4
      <4>2. \A j \in Row : sent[j] > 0 \/ j \in ids \ processedIds[t] => sent'[j] > 0
        BY <4>1, <2>4
      <4>3. ids \subseteq Row /\ processedIds[t] \subseteq ids
        BY <4>1, <2>4
      <4>4. ASSUME NEW j \in processed \cup ids
            PROVE  sent'[j] > 0
        BY <4>1, <4>2, <4>3, <4>4
      <4> QED
        BY <4>1, <4>4, <3>1 DEF MarkedWasPublished
    <3>5. BoundedDuplicates'
      <4>1. /\ sent \in [Row -> Nat] /\ faults \in Nat /\ processed' = processed
            /\ \A j \in Row :
                  sent[j] <= faults + (IF j \in processed \cup processedIds[t] THEN 1 ELSE 0)
        BY <2>4, <3>2 DEF IInv, TypeOK, BoundedDuplicates
      <4>2. CASE /\ ids = processedIds[t] \cup {i} /\ UNCHANGED faults
                 /\ sent' = [sent EXCEPT ![i] = @ + 1]
        BY <4>1, <4>2, <3>1, <3>2 DEF BoundedDuplicates
      <4>3. CASE ids = processedIds[t] /\ UNCHANGED <<sent, faults>>
        BY <4>1, <4>3, <3>1 DEF BoundedDuplicates
      <4>4. CASE /\ ids = processedIds[t] /\ Fault
                 /\ sent' = [sent EXCEPT ![i] = @ + 1]
        BY <4>1, <4>4, <3>1, <3>2 DEF BoundedDuplicates, Fault
      <4> QED
        BY <2>4, <4>2, <4>3, <4>4
    <3> QED
      BY <3>1, <3>3, <3>4, <3>5 DEF IInv
  <2>5. CASE \E i \in Row : \/ PublishEvent(t, i)
                            \/ PublishEventFails(t, i)
                            \/ PublishEventUnconfirmed(t, i)
    <3>1. PICK i \in Row : \/ PublishEvent(t, i)
                           \/ PublishEventFails(t, i)
                           \/ PublishEventUnconfirmed(t, i)
      BY <2>5
    <3>2. /\ processedIds[t] \in SUBSET (1 .. rows)
          /\ IsCurrent(t, i) => i \in 1 .. rows
      BY DEF IInv, TypeOK, IsCurrent
    <3>3. CASE PublishEvent(t, i)
      BY <3>3, <3>2, <2>4 DEF PublishEvent
    <3>4. CASE PublishEventFails(t, i)
      BY <3>4, <3>2, <2>4 DEF PublishEventFails
    <3>5. CASE PublishEventUnconfirmed(t, i)
      BY <3>5, <3>2, <2>4 DEF PublishEventUnconfirmed
    <3> QED
      BY <3>1, <3>3, <3>4, <3>5
  <2>6. CASE MarkEventsAsProcessed(t)
    <3>1. Active(t)
      BY <2>6 DEF MarkEventsAsProcessed, Active
    <3> QED
      BY <2>6, <3>1, <2>2, ActiveIsAlone DEF MarkEventsAsProcessed
  <2>7. CASE MarkEventsAsProcessedFails(t)
    <3>1. Active(t)
      BY <2>7 DEF MarkEventsAsProcessedFails, Active
    <3> QED
      BY <2>7, <3>1, <2>2 DEF MarkEventsAsProcessedFails
  <2> QED
    BY <1>6, <2>1, <2>3, <2>5, <2>6, <2>7 DEF TickStep
<1>7. CASE UNCHANGED vars
  BY <1>7 DEF vars, IInv, TypeOK, AtMostOneTick, TickShape,
     MarkedWasPublished, BoundedDuplicates, InFlightIds, Active
<1> QED
  BY <1>1, <1>2, <1>3, <1>4, <1>5, <1>6, <1>7 DEF Next

(* The worker refines OutboxDelivery: initially ... *)
LEMMA InitRefines == Init => Delivery!Init
BY DEF Init, Delivery!Init, InFlightIds, Row, Delivery!Row

(* ... and at every step, which maps to a step of it or to a stutter. *)
LEMMA StepRefines == IInv /\ [Next]_vars => [Delivery!Next]_(Delivery!vars)
<1> SUFFICES ASSUME IInv, [Next]_vars
             PROVE  [Delivery!Next]_(Delivery!vars)
  OBVIOUS
<1>1. CASE InsertEvent
  <2>1. InFlightIds' = InFlightIds
    BY <1>1 DEF InsertEvent, tickVars, InFlightIds
  <2> QED
    BY <1>1, <2>1 DEF InsertEvent, Delivery!Next, Delivery!Insert
<1>2. CASE ModuleInit \/ Exit \/ UNCHANGED vars
  <2>1. InFlightIds' = InFlightIds
    BY <1>2 DEF ModuleInit, Exit, vars, tickVars, InFlightIds
  <2> QED
    BY <1>2, <2>1 DEF ModuleInit, Exit, vars, Delivery!vars
<1>3. CASE ModuleDestroy
  <2>1. InFlightIds' = InFlightIds
    BY <1>3 DEF ModuleDestroy, tickVars, InFlightIds
  <2> QED
    BY <1>3, <2>1 DEF ModuleDestroy, Fault, Delivery!Next, Delivery!Forget,
       Delivery!Fault
<1>4. CASE Crash
  <2>1. InFlightIds' = {}
    BY <1>4 DEF Crash, InFlightIds
  <2> QED
    BY <1>4, <2>1 DEF Crash, Fault, Delivery!Next, Delivery!Forget,
       Delivery!Fault
<1>5. ASSUME NEW t \in Tick, TickStep(t)
      PROVE  [Delivery!Next]_(Delivery!vars)
  <2>1. CASE ProcessOutbox(t)
    <3>1. InFlightIds' = InFlightIds
      BY <2>1 DEF ProcessOutbox, InFlightIds
    <3> QED
      BY <2>1, <3>1 DEF ProcessOutbox, Delivery!vars
  <2>2. CASE FindEvents(t) \/ FindEventsFails(t)
    <3>1. Active(t) /\ processedIds[t] = {}
      BY <2>2 DEF FindEvents, FindEventsFails, Active, IInv, TickShape
    <3>2. InFlightIds = {}
      BY <3>1, ActiveIsAlone
    <3>3. InFlightIds' = {}
      <4>1. CASE Finish(t)
        BY <4>1, <3>1, FinishEffect
      <4>2. CASE processedIds' = processedIds
        BY <4>2, <3>2 DEF InFlightIds
      <4> QED
        BY <2>2, <4>1, <4>2 DEF FindEvents, FindEventsFails
    <3> QED
      BY <2>2, <3>2, <3>3 DEF FindEvents, FindEventsFails, Delivery!vars
  <2>3. ASSUME NEW i \in Row, IsCurrent(t, i)
        PROVE  /\ InFlightIds = processedIds[t]
               /\ processedIds[t] \cup {i} \in SUBSET (1 .. rows)
               /\ processedIds[t] \in SUBSET (1 .. rows)
               /\ i \in Delivery!Row
               /\ Delivery!Publishable(i)
    <3>1. InFlightIds = processedIds[t]
      BY <2>3, ActiveIsAlone DEF IsCurrent, Active
    <3>2. i \in 1 .. rows /\ i \notin processed \cup processedIds[t]
      BY <2>3 DEF IsCurrent, IInv, TypeOK, TickShape
    <3> QED
      BY <3>1, <3>2 DEF Delivery!Publishable, Row, Delivery!Row, IInv, TypeOK
  <2>4. ASSUME NEW i \in Row, PublishEvent(t, i)
        PROVE  Delivery!Publish(i) /\ i \in Delivery!Row
    <3>1. IsCurrent(t, i) /\ UNCHANGED <<rows, processed, faults>>
      BY <2>4 DEF PublishEvent
    <3>2. InFlightIds' = InFlightIds \cup {i}
      BY <2>3, <2>4, <3>1, ContinueEffect DEF PublishEvent
    <3> QED
      BY <2>3, <2>4, <3>1, <3>2 DEF PublishEvent, Delivery!Publish
  <2>5. ASSUME NEW i \in Row, PublishEventFails(t, i)
        PROVE  UNCHANGED Delivery!vars
    <3>1. IsCurrent(t, i) /\ UNCHANGED <<rows, processed, sent, faults>>
      BY <2>5 DEF PublishEventFails
    <3>2. InFlightIds' = InFlightIds
      BY <2>3, <2>5, <3>1, ContinueEffect DEF PublishEventFails
    <3> QED
      BY <3>1, <3>2 DEF Delivery!vars
  <2>6. ASSUME NEW i \in Row, PublishEventUnconfirmed(t, i)
        PROVE  Delivery!PublishUnconfirmed(i) /\ i \in Delivery!Row
    <3>1. IsCurrent(t, i) /\ UNCHANGED <<rows, processed>>
      BY <2>6 DEF PublishEventUnconfirmed
    <3>2. InFlightIds' = InFlightIds
      BY <2>3, <2>6, <3>1, ContinueEffect DEF PublishEventUnconfirmed
    <3> QED
      BY <2>3, <2>6, <3>1, <3>2 DEF PublishEventUnconfirmed, Fault,
         Delivery!PublishUnconfirmed, Delivery!Fault
  <2>7. CASE MarkEventsAsProcessed(t)
    <3>1. Active(t) /\ Finish(t) /\ processedIds[t] # {}
      BY <2>7 DEF MarkEventsAsProcessed, Active, IInv, TickShape
    <3>2. InFlightIds = processedIds[t] /\ InFlightIds' = {}
      BY <3>1, ActiveIsAlone, FinishEffect
    <3> QED
      BY <2>7, <3>1, <3>2 DEF MarkEventsAsProcessed, Delivery!Mark, Delivery!Next
  <2>8. CASE MarkEventsAsProcessedFails(t)
    <3>1. Active(t) /\ Finish(t)
      BY <2>8 DEF MarkEventsAsProcessedFails, Active
    <3>2. InFlightIds' = {}
      BY <3>1, FinishEffect
    <3> QED
      BY <2>8, <3>2 DEF MarkEventsAsProcessedFails, Fault, Delivery!Forget,
         Delivery!Fault, Delivery!Next
  <2> QED
    BY <1>5, <2>1, <2>2, <2>4, <2>5, <2>6, <2>7, <2>8 DEF TickStep, Delivery!Next
<1> QED
  BY <1>1, <1>2, <1>3, <1>4, <1>5 DEF Next

(* The invariants hold in every reachable state. *)
THEOREM Invariance == Spec => []IInv
<1> QED
  BY InitIInv, NextIInv, PTL DEF Spec

(* Ticks of one process never overlap, and the flag tells when one runs. *)
THEOREM TicksDoNotOverlap == Spec => []AtMostOneTick
<1>1. IInv => AtMostOneTick
  BY DEF IInv
<1> QED
  BY <1>1, Invariance, PTL

(* No outbox row is marked as processed unless Kafka holds a copy of it. *)
THEOREM NoEventIsLost == Spec => []MarkedWasPublished
<1>1. IInv => MarkedWasPublished
  BY DEF IInv
<1> QED
  BY <1>1, Invariance, PTL

(* Every copy of a row beyond the first is paid for by a fault. *)
THEOREM DuplicatesNeedFaults == Spec => []BoundedDuplicates
<1>1. IInv => BoundedDuplicates
  BY DEF IInv
<1> QED
  BY <1>1, Invariance, PTL

(* The worker implements the safety part of the outbox's promise. *)
THEOREM WorkerImplementsDelivery == Spec => ImplementsDelivery
<1> QED
  BY InitRefines, StepRefines, Invariance, PTL DEF Spec, ImplementsDelivery,
     Delivery!Spec

(* Every variable keeps its type. *)
THEOREM TypeCorrect == Spec => []TypeOK
<1>1. IInv => TypeOK
  BY DEF IInv
<1> QED BY <1>1, Invariance, PTL

(* The local variables of processOutbox hold what its awaits leave there. *)
THEOREM TicksKeepShape == Spec => []TickShape
<1>1. IInv => TickShape
  BY DEF IInv
<1> QED BY <1>1, Invariance, PTL
=============================================================================
