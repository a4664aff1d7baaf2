------------------------------ MODULE UsersCache ------------------------------
(***************************************************************************)
(* The pages of the list of users that user-service keeps in Redis.  A     *)
(* reader that misses reads the database and stores the page; a writer     *)
(* commits, then emits an event whose handler, not awaited by anyone,      *)
(* scans the keys in batches and deletes what it finds.                    *)
(*                                                                         *)
(* The database is the number of changes committed to what pages show, and *)
(* a page is the number its reader saw.  A request is a reader or a writer *)
(* with its handler, and is cut at its awaits; any of them may end there.  *)
(***************************************************************************)
EXTENDS Naturals, FiniteSets

CONSTANTS Request,     \* requests, and handlers of events, at work at once
          Key,         \* keys of pages: username, cursor and limit
          MaxVersion,  \* bound on the changes
          MaxFaults    \* bound on the faults of a behaviour

ASSUME BoundAssumption == MaxVersion \in Nat \ {0} /\ MaxFaults \in Nat

None == 0
Version == 1 .. MaxVersion

VARIABLES
    version,  \* of the database
    page,     \* the page stored under each key
    ttl,      \* keys that have a TTL
    step,     \* the await at which each request is
    key,      \* the keys it is about: its page, or the batch it found
    read,     \* the version a reader has read
    todo,     \* keys the cursor of a scan has not passed
    cut,      \* keys whose EXPIRE was lost after their SET
    faults    \* faults so far

vars == <<version, page, ttl, step, key, read, todo, cut, faults>>

TypeOK ==
    /\ version \in Version
    /\ page \in [Key -> Version \cup {None}]
    /\ ttl \subseteq Key
    /\ step \in [Request -> {"idle", "findAll", "set", "expire", "scan", "del"}]
    /\ key \in [Request -> SUBSET Key]
    /\ read \in [Request -> Version \cup {None}]
    /\ todo \in [Request -> SUBSET Key]
    /\ cut \subseteq Key
    /\ faults \in 0 .. MaxFaults
    /\ \A r \in Request : step[r] \in {"set", "expire"} => read[r] \in Version

Init ==
    /\ version = 1
    /\ page = [k \in Key |-> None]
    /\ ttl = {}
    /\ step = [r \in Request |-> "idle"]
    /\ key = [r \in Request |-> {}]
    /\ read = [r \in Request |-> None]
    /\ todo = [r \in Request |-> {}]
    /\ cut = {}
    /\ faults = 0

Stored == {k \in Key : page[k] # None}

Go(r, from, to) == step[r] = from /\ step' = [step EXCEPT ![r] = to]

End(r) ==
    /\ step' = [step EXCEPT ![r] = "idle"]
    /\ key' = [key EXCEPT ![r] = {}]
    /\ read' = [read EXCEPT ![r] = None]
    /\ todo' = [todo EXCEPT ![r] = {}]

-----------------------------------------------------------------------------
(* UsersService.findAll.                                                   *)

(* The caller exists, and its page does not; a page that exists is the
   answer and nothing changes. *)
Miss(r, k) ==
    /\ k \notin Stored
    /\ Go(r, "idle", "findAll")
    /\ key' = [key EXCEPT ![r] = {k}]
    /\ UNCHANGED <<version, page, ttl, read, todo, cut, faults>>

FindAll(r) ==
    /\ Go(r, "findAll", "set")
    /\ read' = [read EXCEPT ![r] = version]
    /\ UNCHANGED <<version, page, ttl, key, todo, cut, faults>>

(* setBuffers: a pipeline, not a transaction.  SET without EX leaves the key
   without the TTL it may have had ... *)
Set(r) ==
    /\ Go(r, "set", "expire")
    /\ page' = [k \in Key |-> IF k \in key[r] THEN read[r] ELSE page[k]]
    /\ ttl' = ttl \ key[r]
    /\ cut' = cut \ key[r]
    /\ UNCHANGED <<version, key, read, todo, faults>>

(* Mutant: the pipeline ends with its SET. *)
ExpireForgotten(r) ==
    /\ step[r] = "expire"
    /\ End(r)
    /\ UNCHANGED <<version, page, ttl, cut, faults>>

(* ... and EXPIRE gives it another one, unless it has gone. *)
Expire(r) ==
    /\ step[r] = "expire"
    /\ ttl' = ttl \cup (key[r] \cap Stored)
    /\ cut' = cut \ key[r]
    /\ End(r)
    /\ UNCHANGED <<version, page, faults>>

(* Redis removes a page whose TTL is over. *)
PageExpires(k) ==
    /\ k \in ttl
    /\ page' = [page EXCEPT ![k] = None]
    /\ ttl' = ttl \ {k}
    /\ UNCHANGED <<version, step, key, read, todo, cut, faults>>

-----------------------------------------------------------------------------
(* The writers, and handleUsersInvalidate.                                 *)

(* register, createProfile, updateProfile and createAvatar change what pages
   show; verify, delete and deleteAvatar invalidate although they do not.
   The event is emitted, and the first SCAN sent, once the write is known. *)
Write(r, v) ==
    /\ v \in Version /\ v \in {version, version + 1}
    /\ version' = v
    /\ Go(r, "idle", "scan")
    /\ todo' = [todo EXCEPT ![r] = Key]
    /\ UNCHANGED <<page, ttl, key, read, cut, faults>>

(* Mutant: the loop ends with an empty batch. *)
ScanUntilEmpty(r) ==
    \E passed \in SUBSET todo[r] \ {{}} :
        /\ step[r] = "scan"
        /\ IF passed \cap Stored # {}
             THEN /\ Go(r, "scan", "del")
                  /\ key' = [key EXCEPT ![r] = passed \cap Stored]
                  /\ todo' = [todo EXCEPT ![r] = @ \ passed]
                  /\ UNCHANGED read
             ELSE End(r)
        /\ UNCHANGED <<version, page, ttl, cut, faults>>

(* A SCAN passes some of the keys and returns those that are stored.  What
   is stored behind the cursor is not returned any more. *)
Scan(r) ==
    \E passed \in SUBSET todo[r] \ {{}} :
        /\ step[r] = "scan"
        /\ IF passed \cap Stored # {}
             THEN /\ Go(r, "scan", "del")
                  /\ key' = [key EXCEPT ![r] = passed \cap Stored]
                  /\ todo' = [todo EXCEPT ![r] = @ \ passed]
                  /\ UNCHANGED read
             ELSE IF passed = todo[r]
                    THEN End(r)
                    ELSE /\ todo' = [todo EXCEPT ![r] = @ \ passed]
                         /\ UNCHANGED <<step, key, read>>
        /\ UNCHANGED <<version, page, ttl, cut, faults>>

(* Removes the batch, whoever stored its pages meanwhile. *)
Del(r) ==
    /\ step[r] = "del"
    /\ page' = [k \in Key |-> IF k \in key[r] THEN None ELSE page[k]]
    /\ ttl' = ttl \ key[r]
    /\ cut' = cut \ key[r]
    /\ IF todo[r] = {}
         THEN End(r)
         ELSE /\ Go(r, "del", "scan")
              /\ key' = [key EXCEPT ![r] = {}]
              /\ UNCHANGED <<read, todo>>
    /\ UNCHANGED <<version, faults>>

(* Redis or the database fails, or the process dies; nobody goes on with a
   reader's page or with an invalidation. *)
Fails(r) ==
    /\ step[r] # "idle"
    /\ faults < MaxFaults
    /\ faults' = faults + 1
    /\ cut' = IF step[r] = "expire" THEN cut \cup ((key[r] \cap Stored) \ ttl) ELSE cut
    /\ End(r)
    /\ UNCHANGED <<version, page, ttl>>

-----------------------------------------------------------------------------
Reader(r) == (\E k \in Key : Miss(r, k)) \/ FindAll(r) \/ Set(r) \/ Expire(r)

Writer(r) == (\E v \in Version : Write(r, v)) \/ Scan(r) \/ Del(r)

Next ==
    \/ \E r \in Request : Reader(r) \/ Writer(r) \/ Fails(r)
    \/ \E k \in Key : PageExpires(k)

Spec == Init /\ [][Next]_vars

(* Requests and handlers of events run on, and Redis removes pages. *)
Fairness ==
    /\ \A r \in Request : WF_vars(FindAll(r) \/ Set(r) \/ Expire(r) \/ Scan(r) \/ Del(r))
    /\ \A k \in Key : WF_vars(PageExpires(k))

FairSpec == Spec /\ Fairness

-----------------------------------------------------------------------------
(* Properties.                                                             *)

(* SET and EXPIRE of many readers of one page, invalidations and expiries may
   come in any order: a page is without a TTL only while a reader's EXPIRE is
   still to come, or when it was lost. *)
PageHasTtl ==
    \A k \in Stored \ ttl :
        k \in cut \/ \E r \in Request : step[r] = "expire" /\ k \in key[r]

Stale(k) == page[k] \notin {None, version}

(* The page k will be taken by an invalidation under way. *)
Doomed(k) == \E r \in Request : \/ step[r] \in {"scan", "del"} /\ k \in todo[r]
                                \/ step[r] = "del" /\ k \in key[r]

Stuck(k) == Stale(k) /\ ~Doomed(k)

(* No invalidation leaves an old page behind, wherever its cursor is and
   whatever is stored or deleted meanwhile: the only one who does is a reader
   that has read the database before the change, or a failure. *)
OnlyLateReadersLeaveStale ==
    [][\A k \in Key : ~Stuck(k) /\ Stuck(k)' =>
          \/ faults' > faults
          \/ \E r \in Request : /\ step[r] = "set" /\ k \in key[r] /\ read[r] < version
                                /\ step'[r] = "expire"]_vars

(* When the changes end, so do the old pages, those of late readers and of
   failed invalidations included: their TTL takes them.  A page that lost its
   EXPIRE may stay. *)
PagesConverge == <>[](\A k \in Key : Stale(k) => k \in cut)

(* Only stored pages have a TTL, or have lost it, and no page and no reader is
   ahead of the database. *)
PageFacts ==
    /\ ttl \cup cut \subseteq Stored /\ ttl \cap cut = {}
    /\ \A k \in Key : page[k] <= version
    /\ \A r \in Request : read[r] <= version

(* The strengthening that makes the invariants inductive. *)
IInv == TypeOK /\ PageFacts /\ PageHasTtl
=============================================================================
