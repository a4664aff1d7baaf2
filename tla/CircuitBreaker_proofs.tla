----------------------- MODULE CircuitBreaker_proofs -----------------------
(***************************************************************************)
(* Proofs about the circuit breaker, for every set of requests and every   *)
(* threshold.  IInv of CircuitBreaker is inductive and is proved in two    *)
(* halves.  Probing, inductive on its own, is about states and flags: a    *)
(* half-open circuit has its probe.  Counting rests on it: the count stays *)
(* below the threshold because reaching it opens the circuit, and a        *)
(* circuit that rejects has a full streak of failures behind it, since a   *)
(* half-open one comes from an open one.                                   *)
(***************************************************************************)
EXTENDS CircuitBreaker, TLAPS

Probing ==
    /\ state \in {"closed", "open", "half-open"}
    /\ resetElapsed \in BOOLEAN
    /\ probeInFlight \in BOOLEAN
    /\ probeTimeout \in BOOLEAN
    /\ inFlight \subseteq Request
    /\ HalfOpenHasProbe

Counting ==
    /\ failures \in 0 .. FAILURE_THRESHOLD - 1
    /\ streak \in 0 .. FAILURE_THRESHOLD
    /\ RejectsOnlyAfterFailures

LEMMA Halves == IInv <=> Probing /\ Counting
BY DEF IInv, TypeOK, Probing, Counting

-----------------------------------------------------------------------------
(* A failure never meets a half-open circuit without a probe, whoever reports
   it: the answer of a request or the timer of the probe. *)
LEMMA FailureCases ==
    ASSUME Probing, Failure
    PROVE  /\ \/ state = "half-open" /\ OpenCircuit
              \/ /\ state # "half-open" /\ failures + 1 >= FAILURE_THRESHOLD
                 /\ OpenCircuit
              \/ /\ state # "half-open" /\ ~(failures + 1 >= FAILURE_THRESHOLD)
                 /\ CountFailure
           /\ probeInFlight' = FALSE
           /\ probeTimeout' = FALSE
           /\ Streak
BY Zenon DEF Probing, HalfOpenHasProbe, Failure

LEMMA FailureProbing ==
    ASSUME Probing, Failure, inFlight' \subseteq Request
    PROVE  Probing'
<1>1. OpenCircuit => Probing'
  BY FailureCases DEF Probing, HalfOpenHasProbe, OpenCircuit
<1>2. state # "half-open" /\ CountFailure => Probing'
  BY FailureCases DEF Probing, HalfOpenHasProbe, CountFailure
<1> QED BY <1>1, <1>2, FailureCases

LEMMA ProbingStep == Probing /\ [Next]_vars => Probing'
<1> SUFFICES ASSUME Probing, [Next]_vars
             PROVE  Probing'
  OBVIOUS
<1> USE DEF Probing, HalfOpenHasProbe
<1>1. ASSUME NEW q \in Request, AdmitClosed(q)
      PROVE  Probing'
  BY <1>1 DEF AdmitClosed, Admit
<1>2. ASSUME NEW q \in Request, AdmitProbe(q)
      PROVE  Probing'
  BY <1>2 DEF AdmitProbe, Admit
<1>3. ASSUME NEW q \in Request, Succeed(q)
      PROVE  Probing'
  BY <1>3 DEF Succeed, Success, Answer
<1>4. ASSUME NEW q \in Request, Fail(q)
      PROVE  Probing'
  <2>1. inFlight' \subseteq Request
    BY <1>4 DEF Fail, Answer
  <2> QED BY <1>4, <2>1, FailureProbing DEF Fail
<1>5. ASSUME NEW q \in Request, Vanish(q)
      PROVE  Probing'
  BY <1>5 DEF Vanish, Answer
<1>6. CASE ResetAfter
  BY <1>6 DEF ResetAfter
<1>7. CASE ProbeTimesOut
  BY <1>7, FailureProbing DEF ProbeTimesOut
<1>8. CASE UNCHANGED vars
  BY <1>8 DEF vars
<1> QED BY <1>1, <1>2, <1>3, <1>4, <1>5, <1>6, <1>7, <1>8 DEF Next

-----------------------------------------------------------------------------
LEMMA FailureCounting ==
    ASSUME Probing, Counting, Failure
    PROVE  Counting'
<1> USE ThresholdAssumption
<1>1. /\ FAILURE_THRESHOLD \in Nat \ {0}
      /\ failures \in 0 .. FAILURE_THRESHOLD - 1
      /\ streak \in 0 .. FAILURE_THRESHOLD
  BY DEF Counting
<1>2. streak' \in 0 .. FAILURE_THRESHOLD
  BY <1>1, FailureCases DEF Streak
<1>3. ASSUME state = "half-open", OpenCircuit
      PROVE  Counting'
  (* The streak of a half-open circuit is full already. *)
  <2>1. streak = FAILURE_THRESHOLD
    BY <1>3 DEF Counting, RejectsOnlyAfterFailures
  <2>2. streak' = FAILURE_THRESHOLD
    BY <1>1, <2>1, FailureCases DEF Streak
  <2> QED BY <1>1, <1>2, <1>3, <2>2
          DEF Counting, RejectsOnlyAfterFailures, OpenCircuit
<1>4. ASSUME state # "half-open", failures + 1 >= FAILURE_THRESHOLD, OpenCircuit
      PROVE  Counting'
  (* The failure that opens a closed circuit fills the streak. *)
  <2>1. streak' = FAILURE_THRESHOLD
    BY <1>1, <1>4, FailureCases DEF Streak, Counting, RejectsOnlyAfterFailures
  <2> QED BY <1>1, <1>2, <1>4, <2>1
          DEF Counting, RejectsOnlyAfterFailures, OpenCircuit
<1>5. ASSUME ~(failures + 1 >= FAILURE_THRESHOLD), CountFailure
      PROVE  Counting'
  <2>1. failures' \in 0 .. FAILURE_THRESHOLD - 1
    BY <1>1, <1>5 DEF CountFailure
  <2>2. RejectsOnlyAfterFailures'
    BY <1>1, <1>5, FailureCases
       DEF CountFailure, Streak, Counting, RejectsOnlyAfterFailures
  <2> QED BY <1>2, <2>1, <2>2 DEF Counting
<1> QED BY <1>3, <1>4, <1>5, FailureCases

LEMMA CountingStep == Probing /\ Counting /\ [Next]_vars => Counting'
<1> SUFFICES ASSUME Probing, Counting, [Next]_vars
             PROVE  Counting'
  OBVIOUS
<1> USE DEF Counting, RejectsOnlyAfterFailures
<1>1. ASSUME NEW q \in Request, AdmitClosed(q)
      PROVE  Counting'
  BY <1>1 DEF AdmitClosed, Admit
<1>2. ASSUME NEW q \in Request, AdmitProbe(q)
      PROVE  Counting'
  <2>1. state # "closed" /\ state' # "closed" /\ UNCHANGED <<failures, streak>>
    BY <1>2 DEF AdmitProbe, Admit
  <2> QED BY <2>1
<1>3. ASSUME NEW q \in Request, Succeed(q)
      PROVE  Counting'
  <2>1. state' = "closed" /\ failures' = 0 /\ streak' = 0
    BY <1>3 DEF Succeed, Success
  <2> QED BY <2>1, ThresholdAssumption
<1>4. ASSUME NEW q \in Request, Fail(q)
      PROVE  Counting'
  BY <1>4, FailureCounting DEF Fail
<1>5. ASSUME NEW q \in Request, Vanish(q)
      PROVE  Counting'
  BY <1>5 DEF Vanish
<1>6. CASE ResetAfter
  BY <1>6 DEF ResetAfter
<1>7. CASE ProbeTimesOut
  BY <1>7, FailureCounting DEF ProbeTimesOut
<1>8. CASE UNCHANGED vars
  BY <1>8 DEF vars
<1> QED BY <1>1, <1>2, <1>3, <1>4, <1>5, <1>6, <1>7, <1>8 DEF Next

-----------------------------------------------------------------------------
(* Every reachable state satisfies the inductive invariant. *)
THEOREM Invariance == Spec => []IInv
<1>1. Init => Probing
  BY DEF Init, Probing, HalfOpenHasProbe
<1>2. Init => Counting
  BY ThresholdAssumption DEF Init, Counting, RejectsOnlyAfterFailures
<1> QED BY <1>1, <1>2, ProbingStep, CountingStep, Halves, PTL DEF Spec

(* However late the answers of old requests come, the circuit is half-open
   exactly while a probe with an armed timer is under way. *)
THEOREM NeverStuckHalfOpen == Spec => []HalfOpenHasProbe
<1>1. IInv => HalfOpenHasProbe
  BY DEF IInv
<1> QED BY <1>1, Invariance, PTL

(* The circuit rejects a request only after FAILURE_THRESHOLD failures
   without a success in between. *)
THEOREM RejectionsAreJustified == Spec => []RejectsOnlyAfterFailures
<1>1. IInv => RejectsOnlyAfterFailures
  BY DEF IInv
<1> QED BY <1>1, Invariance, PTL

(* Every variable keeps its type; failures are counted up to the threshold. *)
THEOREM TypeCorrect == Spec => []TypeOK
<1>1. IInv => TypeOK
  BY DEF IInv
<1> QED BY <1>1, Invariance, PTL
=============================================================================
