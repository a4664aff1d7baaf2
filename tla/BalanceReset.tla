----------------------------- MODULE BalanceReset -----------------------------
(***************************************************************************)
(* The reset of all balances: job-service's cron job or an administrator   *)
(* puts a job on a BullMQ queue, one worker takes the jobs one by one and  *)
(* calls resetAllBalances of user-service through the retrying gRPC        *)
(* client.  A call that timed out goes on at user-service; the client and  *)
(* the queue repeat it.  Each call is a reset of BalanceLocks, among the   *)
(* deposits and transfers there.                                           *)
(***************************************************************************)
EXTENDS BalanceLocks

CONSTANTS Job,         \* jobs put on the queue
          Attempts,    \* defaultJobOptions.attempts
          Retries,     \* options.retries of the gRPC client
          MaxCalls,    \* bound on the calls of one job
          MaxFaults    \* bound on the faults of a behaviour

ASSUME RetryAssumption == Attempts \in Nat \ {0} /\ Retries \in Nat
ASSUME BoundAssumption == MaxCalls \in Nat /\ MaxFaults \in Nat

MaxStalled == 1   \* maxStalledCount of BullMQ, its default
Call == 1 .. MaxCalls
ASSUME CallsAssumption == Reset = Job \X Call

VARIABLES
    job,      \* state of each job; "calling" and "pausing" are active ones
    made,     \* attempts of each job that failed
    stalled,  \* times each job was found stalled
    tries,    \* calls of the client in the attempt at work
    sent,     \* calls of each job so far
    faults    \* timeouts and crashes so far

jobVars == <<job, made, stalled, tries, sent, faults>>
vars == <<lockVars, jobVars>>

Active == {"calling", "pausing"}
Ended == {"completed", "failed"}

TypeOK ==
    /\ LocksOK
    /\ job \in [Job -> {"none", "waiting", "delayed"} \cup Active \cup Ended]
    /\ made \in [Job -> 0 .. Attempts]
    /\ stalled \in [Job -> 0 .. MaxStalled]
    /\ tries \in [Job -> 0 .. Retries + 1]
    /\ sent \in [Job -> 0 .. MaxCalls]
    /\ faults \in 0 .. MaxFaults

Init ==
    /\ LocksInit
    /\ job = [j \in Job |-> "none"]
    /\ made = [j \in Job |-> 0]
    /\ stalled = [j \in Job |-> 0]
    /\ tries = [j \in Job |-> 0]
    /\ sent = [j \in Job |-> 0]
    /\ faults = 0

Fault ==
    /\ faults < MaxFaults
    /\ faults' = faults + 1

Go(j, s) == job' = [job EXCEPT ![j] = s]

-----------------------------------------------------------------------------
(* CronService and QueueService.                                           *)

(* The started cron job fires, or an administrator calls putResetBalanceJob. *)
Enqueue(j) ==
    /\ job[j] = "none"
    /\ Go(j, "waiting")
    /\ UNCHANGED <<lockVars, made, stalled, tries, sent, faults>>

-----------------------------------------------------------------------------
(* The worker: BalanceResetProcessor and its client.                       *)

Send(j, n) ==
    /\ sent[j] < MaxCalls
    /\ Go(j, "calling")
    /\ sent' = [sent EXCEPT ![j] = @ + 1]
    /\ tries' = [tries EXCEPT ![j] = n]
    /\ UNCHANGED <<lockVars, made, stalled, faults>>

Process(j) ==
    /\ job[j] = "waiting"
    /\ \A k \in Job : job[k] \notin Active
    /\ Send(j, 1)

Resend(j) ==
    /\ job[j] = "pausing"
    /\ Send(j, tries[j] + 1)

LastCall(j) == state[<<j, sent[j]>>]

(* Mutant: the last error of the client is swallowed, and the job completes. *)
AttemptFailsSwallowed(j) ==
    IF tries[j] <= Retries
      THEN Go(j, "pausing") /\ UNCHANGED made
      ELSE Go(j, "completed") /\ UNCHANGED made

(* The delay of retry, or the client gives up and process rejects: the queue
   delays the job for another attempt, or it has failed. *)
AttemptFails(j) ==
    IF tries[j] <= Retries
      THEN Go(j, "pausing") /\ UNCHANGED made
      ELSE /\ made' = [made EXCEPT ![j] = @ + 1]
           /\ Go(j, IF made[j] + 1 < Attempts THEN "delayed" ELSE "failed")

Complete(j) ==
    /\ job[j] = "calling" /\ LastCall(j) = "committed"
    /\ Go(j, "completed")
    /\ UNCHANGED <<lockVars, made, stalled, tries, sent, faults>>

CallFails(j) ==
    /\ job[j] = "calling" /\ LastCall(j) = "aborted"
    /\ AttemptFails(j)
    /\ UNCHANGED <<lockVars, stalled, tries, sent, faults>>

(* Mutant: the timeout is shorter than the call, and no fault. *)
TimesOutEarly(j) ==
    /\ job[j] = "calling"
    /\ AttemptFails(j)
    /\ UNCHANGED <<lockVars, stalled, tries, sent, faults>>

(* The call goes on at user-service. *)
TimesOut(j) ==
    /\ job[j] = "calling"
    /\ Fault
    /\ AttemptFails(j)
    /\ UNCHANGED <<lockVars, stalled, tries, sent>>

(* The backoff of the queue is over. *)
Promote(j) ==
    /\ job[j] = "delayed"
    /\ Go(j, "waiting")
    /\ UNCHANGED <<lockVars, made, stalled, tries, sent, faults>>

(* job-service restarts: the queue takes the job at work for stalled, back to
   waiting once, then failed. *)
Crash ==
    /\ Fault
    /\ job' = [j \in Job |->
           IF job[j] \notin Active THEN job[j]
           ELSE IF stalled[j] < MaxStalled THEN "waiting" ELSE "failed"]
    /\ stalled' = [j \in Job |->
           IF job[j] \in Active /\ stalled[j] < MaxStalled
             THEN stalled[j] + 1 ELSE stalled[j]]
    /\ UNCHANGED <<lockVars, made, tries, sent>>

-----------------------------------------------------------------------------
(* user-service carries out a call that was sent, and everything else.     *)

Sent(t) == t \in Reset => t[2] <= sent[t[1]]

Database(t) ==
    /\ Sent(t)
    /\ Begin(t) \/ Advance(t) \/ Abort(t)
    /\ UNCHANGED jobVars

Answer(j) == Complete(j) \/ CallFails(j)

Next ==
    \/ Crash
    \/ \E j \in Job : \/ Enqueue(j) \/ Process(j) \/ Resend(j) \/ Promote(j)
                      \/ Answer(j) \/ TimesOut(j)
    \/ \E t \in Tx : Database(t)

Spec == Init /\ [][Next]_vars

(***************************************************************************)
(* The worker takes jobs and answers, delays end, a call that was sent is  *)
(* begun, a transaction goes on when it can, and Postgres resolves         *)
(* deadlocks.  No timeout and no error is assumed.                         *)
(***************************************************************************)
Goes(t) == Sent(t) /\ (Begin(t) \/ Advance(t)) /\ UNCHANGED jobVars

Progress(j) == Process(j) \/ Resend(j) \/ Promote(j) \/ Answer(j)

Fairness ==
    /\ \A j \in Job : WF_vars(Progress(j))
    /\ WF_vars(\E t \in Tx : Goes(t))
    /\ WF_vars(\E t \in Tx : DeadlockDetected(t) /\ UNCHANGED jobVars)

FairSpec == Spec /\ Fairness

-----------------------------------------------------------------------------
(* Properties.                                                             *)

Resets(j) == {n \in Call : state[<<j, n>>] = "committed"}

(* A job that completed has reset the balances, and a job resets them twice
   only if a fault hid the first time: money credited after a reset is safe
   from the same job. *)
ResetsAreExplained ==
    \A j \in Job : /\ job[j] = "completed" => Resets(j) # {}
                   /\ Cardinality(Resets(j)) <= 1 + faults

(* While nothing times out, no call outlives the wait for it: once a job has
   ended, or pauses, none of its resets is still to come, and a failed job
   has reset nothing. *)
NoLateReset ==
    faults = 0 => \A j \in Job :
        /\ job[j] # "calling" =>
              \A n \in 1 .. sent[j] : state[<<j, n>>] \in {"committed", "aborted"}
        /\ job[j] \notin {"calling", "completed"} => Resets(j) = {}

(* Every job comes to an end, however often its calls fail: its resets wait
   for the rows of deposits and transfers, which all give them up, also where
   a reset closes a cycle of waits. *)
JobEnds == \A j \in Job : job[j] = "waiting" ~> job[j] \in Ended

(* Calls of a job that may still reset the balances, or did, although the
   job does not count on them. *)
Loose(j) == {n \in 1 .. sent[j] :
                /\ state[<<j, n>>] # "aborted"
                /\ n # sent[j] \/ job[j] \notin {"calling", "completed"}}

(* Only a fault makes a call loose.  Inductive with TypeOK, and stronger than
   ResetsAreExplained and NoLateReset. *)
JobFacts ==
    \A j \in Job :
        /\ job[j] \in Active \cup {"completed"} => sent[j] > 0
        /\ job[j] = "pausing" => tries[j] <= Retries
        /\ job[j] \notin Ended => made[j] < Attempts
        /\ job[j] = "completed" => LastCall(j) = "committed"
        /\ \A n \in Call : n > sent[j] => state[<<j, n>>] = "idle"
        /\ Cardinality(Loose(j)) <= faults
=============================================================================
