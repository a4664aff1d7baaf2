--------------------------- MODULE CircuitBreaker ---------------------------
(***************************************************************************)
(* The circuit breaker of AbstractProxyClient: the gateway's proxy to      *)
(* file-service.                                                           *)
(*                                                                         *)
(* Requests are admitted one by one, but answered in any order and at any  *)
(* time: a request admitted while the circuit was closed may be answered   *)
(* when it is open or half-open, and a probe may never be answered (the    *)
(* client goes away) or be answered after its timer fired.                 *)
(* RESET_AFTER_MS and the probe's timer are abstracted to "has passed".    *)
(* A rejected request (503) changes nothing and is no step.                *)
(***************************************************************************)
EXTENDS Naturals

CONSTANTS Request,            \* requests that can be under way at a time
          FAILURE_THRESHOLD   \* consecutive failures that open the circuit

ASSUME ThresholdAssumption == FAILURE_THRESHOLD \in Nat \ {0}

VARIABLES
    state,          \* "closed", "open" or "half-open"
    failures,       \* failures counted so far
    resetElapsed,   \* more than RESET_AFTER_MS passed since circuitOpenedAt
    probeInFlight,
    probeTimeout,   \* is the probe's timer armed?
    inFlight,       \* admitted requests, not answered yet
    streak          \* history: failures since the last success

vars == <<state, failures, resetElapsed, probeInFlight, probeTimeout,
          inFlight, streak>>

TypeOK ==
    /\ state \in {"closed", "open", "half-open"}
    /\ failures \in 0 .. FAILURE_THRESHOLD - 1
    /\ resetElapsed \in BOOLEAN
    /\ probeInFlight \in BOOLEAN
    /\ probeTimeout \in BOOLEAN
    /\ inFlight \subseteq Request
    /\ streak \in 0 .. FAILURE_THRESHOLD

Init ==
    /\ state = "closed"
    /\ failures = 0
    /\ resetElapsed = FALSE
    /\ probeInFlight = FALSE
    /\ probeTimeout = FALSE
    /\ inFlight = {}
    /\ streak = 0

-----------------------------------------------------------------------------
(* isCircuitOpen and the proxied request it lets through.                  *)

Admit(q) ==
    /\ q \notin inFlight
    /\ inFlight' = inFlight \cup {q}
    /\ UNCHANGED <<failures, resetElapsed, streak>>

AdmitClosed(q) ==
    /\ state = "closed"
    /\ Admit(q)
    /\ UNCHANGED <<state, probeInFlight, probeTimeout>>

(* Mutants: the probe is sent without its timer; an open circuit that counted
   a late failure is not probed. *)
AdmitProbeUntimed(q) ==
    /\ state = "open" /\ resetElapsed
    /\ Admit(q)
    /\ state' = "half-open"
    /\ probeInFlight' = TRUE
    /\ UNCHANGED probeTimeout
AdmitProbeWhenQuiet(q) ==
    /\ state = "open" /\ resetElapsed /\ failures = 0
    /\ Admit(q)
    /\ state' = "half-open"
    /\ probeInFlight' = TRUE
    /\ probeTimeout' = TRUE

(* The first request after RESET_AFTER_MS, or, says the code, a request that
   finds the circuit half-open and no probe under way. *)
AdmitProbe(q) ==
    /\ (state = "open" /\ resetElapsed) \/ (state = "half-open" /\ ~probeInFlight)
    /\ Admit(q)
    /\ state' = "half-open"
    /\ probeInFlight' = TRUE
    /\ probeTimeout' = TRUE

(* Date.now() - circuitOpenedAt exceeds RESET_AFTER_MS. *)
ResetAfter ==
    /\ state = "open"
    /\ ~resetElapsed
    /\ resetElapsed' = TRUE
    /\ UNCHANGED <<state, failures, probeInFlight, probeTimeout, inFlight, streak>>

-----------------------------------------------------------------------------
(* success() and failure(), called by whatever answer arrives.             *)

(* Mutant: the count survives a success. *)
SuccessKeepsCount ==
    /\ state' = "closed"
    /\ failures' = failures
    /\ streak' = 0
    /\ resetElapsed' = FALSE
    /\ probeInFlight' = FALSE
    /\ probeTimeout' = FALSE

Success ==
    /\ state' = "closed"
    /\ failures' = 0
    /\ streak' = 0
    /\ resetElapsed' = FALSE
    /\ probeInFlight' = FALSE
    /\ probeTimeout' = FALSE

OpenCircuit ==
    /\ state' = "open"
    /\ resetElapsed' = FALSE
    /\ failures' = 0

CountFailure ==
    /\ failures' = failures + 1
    /\ UNCHANGED <<state, resetElapsed>>

Streak == streak' = IF streak < FAILURE_THRESHOLD THEN streak + 1 ELSE streak

(* Mutant: a failed probe leaves the circuit half-open. *)
FailureLeavesHalfOpen ==
    /\ IF state # "half-open" /\ failures + 1 >= FAILURE_THRESHOLD
         THEN OpenCircuit
         ELSE IF state = "half-open"
           THEN UNCHANGED <<state, failures, resetElapsed>>
           ELSE CountFailure
    /\ probeInFlight' = FALSE
    /\ probeTimeout' = FALSE
    /\ Streak

(* failure(): a failure of the half-open circuit reopens it at once; any
   other one counts, also while the circuit is open, where the threshold
   restarts RESET_AFTER_MS. *)
Failure ==
    /\ IF state = "half-open" /\ ~probeInFlight
         THEN UNCHANGED <<state, failures, resetElapsed, probeTimeout>>
         ELSE /\ IF state = "half-open" \/ failures + 1 >= FAILURE_THRESHOLD
                   THEN OpenCircuit
                   ELSE CountFailure
              /\ probeTimeout' = FALSE
    /\ probeInFlight' = FALSE
    /\ Streak

Answer(q) ==
    /\ q \in inFlight
    /\ inFlight' = inFlight \ {q}

(* proxyRes below 500; proxyRes from 500 on, or an error. *)
Succeed(q) == Answer(q) /\ Success
Fail(q) == Answer(q) /\ Failure

(* The client goes away: http-proxy emits econnreset, which nobody handles. *)
Vanish(q) ==
    /\ Answer(q)
    /\ UNCHANGED <<state, failures, resetElapsed, probeInFlight, probeTimeout,
                   streak>>

(* The timer of startProbeTimeout. *)
ProbeTimesOut ==
    /\ probeTimeout
    /\ IF probeInFlight
         THEN Failure
         ELSE /\ probeTimeout' = FALSE
              /\ UNCHANGED <<state, failures, resetElapsed, probeInFlight, streak>>
    /\ UNCHANGED inFlight

-----------------------------------------------------------------------------
Next ==
    \/ \E q \in Request :
          AdmitClosed(q) \/ AdmitProbe(q) \/ Succeed(q) \/ Fail(q) \/ Vanish(q)
    \/ ResetAfter
    \/ ProbeTimesOut

Spec == Init /\ [][Next]_vars

(***************************************************************************)
(* Time passes, timers fire, and every request ends within proxyTimeout of *)
(* its last sign of life.  Clients keep sending requests.                  *)
(***************************************************************************)
Fairness ==
    /\ WF_vars(ResetAfter)
    /\ WF_vars(ProbeTimesOut)
    /\ \A q \in Request : WF_vars(Succeed(q) \/ Fail(q) \/ Vanish(q))
    /\ WF_vars(\E q \in Request : AdmitProbe(q))

FairSpec == Spec /\ Fairness

-----------------------------------------------------------------------------
(* Properties.                                                             *)

(* The circuit is half-open exactly while a probe is under way whose timer is
   armed, however late other answers come: no request can find it half-open
   and stuck, and the branches of isCircuitOpen and failure for a half-open
   circuit without a probe are never taken. *)
HalfOpenHasProbe ==
    /\ state = "half-open" <=> probeInFlight
    /\ probeInFlight <=> probeTimeout

(* The circuit rejects requests only after FAILURE_THRESHOLD failures with no
   success between or since, counting those of requests it admitted long ago
   and of probes; a closed one has counted no more than those. *)
RejectsOnlyAfterFailures ==
    IF state = "closed" THEN failures <= streak ELSE streak = FAILURE_THRESHOLD

IInv == TypeOK /\ HalfOpenHasProbe /\ RejectsOnlyAfterFailures

(* A half-open circuit is decided, even when its probe is never answered. *)
ProbeIsDecided == state = "half-open" ~> state # "half-open"

(* An open circuit is probed in the end, although failures of requests
   admitted earlier restart RESET_AFTER_MS. *)
OpenIsProbed == state = "open" ~> state # "open"
=============================================================================
