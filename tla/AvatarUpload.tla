---------------------------- MODULE AvatarUpload ----------------------------
(***************************************************************************)
(* The upload of avatars of one profile: file-service streams the file to  *)
(* S3 under a fresh name, then calls createAvatar of user-service through  *)
(* the retrying gRPC client, and removes the file when the call fails.     *)
(*                                                                         *)
(* An attempt that failed or timed out at the client may still be carried  *)
(* out by user-service, at any later time: nothing cancels its handler.    *)
(* Every upload has a name of its own, avatars.name is unique, and a       *)
(* deleted avatar keeps its row and its file.                              *)
(***************************************************************************)
EXTENDS Naturals, FiniteSets

CONSTANTS Upload,       \* uploads, by their file name
          MaxAvatars,   \* MAX_AVATARS_FOR_PROFILE of the environment
          Retries,      \* options.retries of the gRPC client
          MaxFaults     \* bound on the faults of a behaviour

ASSUME AvatarsAssumption == MaxAvatars \in Nat \ {0}
ASSUME RetriesAssumption == Retries \in Nat
ASSUME BoundAssumption == MaxFaults \in Nat

Attempt == 1 .. Retries + 1

VARIABLES
    step,      \* what file-service does for each upload
    attempt,   \* attempts of its call so far
    handler,   \* user-service's handler of each attempt
    avatars,   \* names in avatars whose deletedAt is null
    deleted,   \* names in avatars with a deletedAt
    together,  \* most handlers that were between count and insert at once
    files,     \* objects in the bucket
    faults     \* faults so far

rowVars == <<avatars, deleted, together>>
vars == <<step, attempt, handler, rowVars, files, faults>>

Rows == avatars \cup deleted

Ended == {"created", "failed", "gone"}

TypeOK ==
    /\ step \in [Upload -> {"idle", "calling", "waiting", "removing"} \cup Ended]
    /\ attempt \in [Upload -> 0 .. Retries + 1]
    /\ handler \in [Upload -> [Attempt -> {"none", "sent", "counted", "created",
                                           "rejected", "error"}]]
    /\ avatars \subseteq Upload
    /\ deleted \subseteq Upload
    /\ together \in Nat
    /\ files \subseteq Upload
    /\ faults \in 0 .. MaxFaults

Init ==
    /\ step = [u \in Upload |-> "idle"]
    /\ attempt = [u \in Upload |-> 0]
    /\ handler = [u \in Upload |-> [n \in Attempt |-> "none"]]
    /\ avatars = {}
    /\ deleted = {}
    /\ together = 0
    /\ files = {}
    /\ faults = 0

Fault ==
    /\ faults < MaxFaults
    /\ faults' = faults + 1

Go(u, s) == step' = [step EXCEPT ![u] = s]

-----------------------------------------------------------------------------
(* The gRPC client: call, its timeout and its retries.                     *)

Send(u) ==
    /\ attempt' = [attempt EXCEPT ![u] = @ + 1]
    /\ handler' = [handler EXCEPT ![u][attempt[u] + 1] = "sent"]
    /\ Go(u, "calling")

(* Mutant: the file is removed although the call is tried again. *)
AttemptFailedCompensated(u) ==
    /\ Go(u, IF attempt[u] <= Retries THEN "waiting" ELSE "removing")
    /\ files' = files \ {u}

(* The delay function of retry: another attempt, or the last error. *)
AttemptFailed(u) ==
    /\ Go(u, IF attempt[u] <= Retries THEN "waiting" ELSE "removing")
    /\ UNCHANGED files

Answered(u, answer) ==
    /\ step[u] = "calling"
    /\ handler[u][attempt[u]] = answer

Created(u) ==
    /\ Answered(u, "created")
    /\ Go(u, "created")
    /\ UNCHANGED <<attempt, handler, rowVars, files, faults>>

(* INVALID_ARGUMENT and NOT_FOUND are among noRetryStatuses. *)
Rejected(u) ==
    /\ Answered(u, "rejected")
    /\ Go(u, "removing")
    /\ UNCHANGED <<attempt, handler, rowVars, files, faults>>

Errs(u) ==
    /\ Answered(u, "error")
    /\ AttemptFailed(u)
    /\ UNCHANGED <<attempt, handler, rowVars, faults>>

(* The timeout fires, or the answer is lost; the handler goes on. *)
TimesOut(u) ==
    /\ step[u] = "calling"
    /\ Fault
    /\ AttemptFailed(u)
    /\ UNCHANGED <<attempt, handler, rowVars>>

(* Mutant: nothing is sent when the attempt that timed out was carried out. *)
ResendUnlessDone(u) ==
    /\ step[u] = "waiting"
    /\ handler[u][attempt[u]] # "created"
    /\ Send(u)
    /\ UNCHANGED <<rowVars, files, faults>>

Resend(u) ==
    /\ step[u] = "waiting"
    /\ Send(u)
    /\ UNCHANGED <<rowVars, files, faults>>

-----------------------------------------------------------------------------
(* file-service: S3StreamStorage and saveAvatarPath.                       *)

HandleFile(u) ==
    /\ step[u] = "idle"
    /\ files' = files \cup {u}
    /\ Send(u)
    /\ UNCHANGED <<rowVars, faults>>

(* A wrong type, too many bytes, or an error of the stream or of S3. *)
HandleFileFails(u) ==
    /\ step[u] = "idle"
    /\ Go(u, "failed")
    /\ UNCHANGED <<attempt, handler, rowVars, files, faults>>

(* S3 stores the object and the client sees an error: _removeFile does
   nothing. *)
HandleFileUnconfirmed(u) ==
    /\ step[u] = "idle"
    /\ Fault
    /\ files' = files \cup {u}
    /\ Go(u, "failed")
    /\ UNCHANGED <<attempt, handler, rowVars>>

(* The catch block of saveAvatarPath; removeFile may fail in its turn. *)
RemoveFile(u) ==
    /\ step[u] = "removing"
    /\ files' = files \ {u}
    /\ Go(u, "failed")
    /\ UNCHANGED <<attempt, handler, rowVars, faults>>

RemoveFileFails(u) ==
    /\ step[u] = "removing"
    /\ Fault
    /\ Go(u, "failed")
    /\ UNCHANGED <<attempt, handler, rowVars, files>>

Crash ==
    /\ Fault
    /\ step' = [u \in Upload |-> IF step[u] \in {"calling", "waiting", "removing"}
                                   THEN "gone" ELSE step[u]]
    /\ UNCHANGED <<attempt, handler, rowVars, files>>

-----------------------------------------------------------------------------
(* user-service: AvatarService.                                            *)

Handle(u, n, from, to) ==
    /\ handler[u][n] = from
    /\ handler' = [handler EXCEPT ![u][n] = to]
    /\ UNCHANGED <<step, attempt, files, faults>>

Counted == {h \in Upload \X Attempt : handler[h[1]][h[2]] = "counted"}

CountAgainst(limit, u, n) ==
    /\ Handle(u, n, "sent", IF Cardinality(avatars) >= limit THEN "rejected" ELSE "counted")
    /\ together' = IF Cardinality(Counted') > together THEN Cardinality(Counted') ELSE together

(* Mutants: the row is written before the avatars are counted; one avatar too
   many passes. *)
FindByAfterInsert(u, n) ==
    /\ CountAgainst(MaxAvatars, u, n)
    /\ avatars' = avatars \cup ({u} \ Rows)
    /\ UNCHANGED deleted
FindByOffByOne(u, n) ==
    /\ CountAgainst(MaxAvatars + 1, u, n)
    /\ UNCHANGED <<avatars, deleted>>

(* createAvatar up to its second await: the profile's avatars are counted. *)
FindBy(u, n) ==
    /\ CountAgainst(MaxAvatars, u, n)
    /\ UNCHANGED <<avatars, deleted>>

(* The account is deleted, or its profile does not exist. *)
FindByRejects(u, n) ==
    /\ Handle(u, n, "sent", "rejected")
    /\ UNCHANGED rowVars

(* The insert; a name that has a row already is an error of the database,
   which the client retries. *)
Create(u, n) ==
    /\ Handle(u, n, "counted", IF u \in Rows THEN "error" ELSE "created")
    /\ avatars' = avatars \cup ({u} \ Rows)
    /\ UNCHANGED <<deleted, together>>

(* The call does not reach user-service, or its database refuses. *)
CallAborts(u, n) ==
    /\ Handle(u, n, "sent", "error") \/ Handle(u, n, "counted", "error")
    /\ UNCHANGED rowVars

(* deleteAvatar, for a name its owner sees: the row and the file stay, and a
   repeated call changes nothing more. *)
DeleteAvatar(u) ==
    /\ u \in avatars
    /\ avatars' = avatars \ {u}
    /\ deleted' = deleted \cup {u}
    /\ UNCHANGED <<step, attempt, handler, together, files, faults>>

-----------------------------------------------------------------------------
Client(u) == \/ Created(u) \/ Rejected(u) \/ Errs(u) \/ TimesOut(u) \/ Resend(u)
             \/ HandleFile(u) \/ HandleFileFails(u) \/ HandleFileUnconfirmed(u)
             \/ RemoveFile(u) \/ RemoveFileFails(u)

Server(u, n) ==
    FindBy(u, n) \/ FindByRejects(u, n) \/ Create(u, n) \/ CallAborts(u, n)

Next ==
    \/ \E u \in Upload : Client(u) \/ DeleteAvatar(u)
    \/ \E u \in Upload, n \in Attempt : Server(u, n)
    \/ Crash

Spec == Init /\ [][Next]_vars

(***************************************************************************)
(* file-service resumes its calls and removals, retries after their delay, *)
(* and every handler of user-service ends.                                 *)
(***************************************************************************)
Fairness ==
    \A u \in Upload :
        /\ WF_vars(Created(u) \/ Rejected(u) \/ Errs(u))
        /\ WF_vars(Resend(u))
        /\ WF_vars(RemoveFile(u))
        /\ \A n \in Attempt : WF_vars(Server(u, n))

FairSpec == Spec /\ Fairness

-----------------------------------------------------------------------------
(* Properties.                                                             *)

(* A client that got the avatar has it: its row and its file exist, however
   many attempts the call took and whatever became of the others. *)
CreatedIsStored ==
    \A u \in Upload : step[u] = "created" => u \in Rows /\ u \in files

(* As long as no answer is lost and nothing crashes, file and row go
   together: no avatar without its file at any time, and none of the two is
   left behind by an upload that ended, however its attempts failed. *)
StoredTogether ==
    faults = 0 =>
        /\ Rows \subseteq files
        /\ \A u \in Upload :
              step[u] \in Ended \cup {"idle"} => (u \in files <=> u \in Rows)

(* Every upload ends with an answer to the client. *)
UploadEnds == \A u \in Upload : step[u] = "calling" ~> step[u] \in Ended

(* createAvatar counts and inserts in two queries: a profile gets more than
   MAX_AVATARS_FOR_PROFILE avatars only from handlers that were between the
   two at the same time, and one more for each of them at most.  Handlers of
   one upload, repeated by its client, are among them. *)
ExcessNeedsOverlap == Cardinality(avatars) <= MaxAvatars - 1 + together

(* While nothing is lost, the handlers of one upload work one after the
   other: only the attempt the client waits for is at work, and a row comes
   from an attempt whose answer the client gets. *)
OneAttemptAtWork ==
    faults = 0 => \A u \in Upload :
        /\ \A n \in Attempt :
              /\ n < attempt[u] => handler[u][n] = "error"
              /\ handler[u][n] \in {"sent", "counted"} => step[u] = "calling"
        /\ step[u] = "waiting" => handler[u][attempt[u]] = "error"
        /\ u \in Rows <=> \E n \in Attempt : handler[u][n] = "created"
        /\ u \in Rows => step[u] \in {"calling", "created"}
        /\ u \in files => step[u] \notin {"idle", "failed"}
        /\ step[u] # "gone"

(* What the client knows of its call and its file. *)
CallFacts ==
    \A u \in Upload :
        /\ step[u] = "idle" => attempt[u] = 0
        /\ step[u] \in {"calling", "waiting", "removing", "created"}
              => u \in files /\ attempt[u] > 0
        /\ step[u] = "waiting" => attempt[u] <= Retries
        /\ step[u] = "created" => u \in Rows
        /\ \A n \in Attempt :
              /\ n > attempt[u] => handler[u][n] = "none"
              /\ handler[u][n] = "created" => u \in Rows

(* What was counted is still to be inserted. *)
CountFacts ==
    /\ IsFiniteSet(avatars) /\ IsFiniteSet(Counted)
    /\ Cardinality(Counted) <= together
    /\ Cardinality(avatars) + Cardinality(Counted) <= MaxAvatars - 1 + together

(* The strengthening that makes the invariants inductive. *)
IInv == TypeOK /\ CallFacts /\ CountFacts /\ OneAttemptAtWork
=============================================================================
