--------------------------------- MODULE Auth ---------------------------------
(***************************************************************************)
(* One account of user-service: registration, verification by a one-time   *)
(* code, login, refresh, logout, change of the password and deletion, over *)
(* a row in Postgres and three kinds of keys in Redis: the code (a hash    *)
(* with its attempts), its cooldown, and the session, which holds the last *)
(* refresh token.                                                          *)
(*                                                                         *)
(* A request is cut at its awaits, so requests interleave there.  It ends  *)
(* with an error wherever Postgres or Redis fails or the process dies, and *)
(* leaves what it wrote.  Keys expire at any time.                         *)
(***************************************************************************)
EXTENDS Naturals, FiniteSets

CONSTANTS Request,     \* requests that may be under way at once
          Limit,       \* OTP_ATTEMPTS_COUNT of the environment
          MaxCodes,    \* bound on the codes generated
          MaxTokens    \* bound on the refresh tokens signed

ASSUME LimitAssumption == Limit \in Nat \ {0}
ASSUME BoundAssumption == MaxCodes \in Nat /\ MaxTokens \in Nat

Key == {"EMAIL", "PASSWORD"}
Code == 1 .. MaxCodes     \* codes, in the order of their generation
Token == 1 .. MaxTokens
None == 0

VARIABLES
    account,   \* the row: "none", "unverified" or "verified"
    deleted,   \* its deletedAt is set
    hash,      \* field hash of the code, of each key
    attempts,  \* field attempts
    expires,   \* the code has a TTL
    cooldown,  \* the cooldown key exists
    session,   \* the refresh token stored
    newest,    \* the last code generated for each key
    tokens,    \* tokens signed so far
    step,      \* the await at which each request is
    key,       \* the key it works on
    seen,      \* the code, or the token, it has read
    late,      \* it was received after the deletion
    guesses,   \* comparisons with each code
    held,      \* verifications that had read it, their attempt still to be
               \* counted, when it was removed
    accepted,  \* codes that a verification took
    spent      \* tokens exchanged for another one

redisVars == <<hash, attempts, expires, cooldown>>
localVars == <<step, key, seen, late>>
historyVars == <<guesses, held, accepted, spent>>
vars == <<account, deleted, redisVars, session, newest, tokens, localVars, historyVars>>

Verifying == {"hincrby", "exhausted", "compare", "del"}

TypeOK ==
    /\ account \in {"none", "unverified", "verified"}
    /\ deleted \in BOOLEAN
    /\ hash \in [Key -> Code \cup {None}]
    /\ attempts \in [Key -> 0 .. Limit + 1]
    /\ expires \in [Key -> BOOLEAN]
    /\ cooldown \in [Key -> BOOLEAN]
    /\ session \in Token \cup {None}
    /\ newest \in [Key -> Code \cup {None}]
    /\ tokens \in Token \cup {None}
    /\ step \in [Request -> {"idle", "create", "cooldown", "store", "hget", "update",
                             "get", "findBy", "sign"} \cup Verifying]
    /\ key \in [Request -> Key]
    /\ seen \in [Request -> Nat]
    /\ late \in [Request -> BOOLEAN]
    /\ guesses \in [Code -> Nat]
    /\ held \in [Code -> Nat]
    /\ accepted \subseteq Code
    /\ spent \subseteq Token

Init ==
    /\ account = "none"
    /\ deleted = FALSE
    /\ hash = [k \in Key |-> None]
    /\ attempts = [k \in Key |-> 0]
    /\ expires = [k \in Key |-> FALSE]
    /\ cooldown = [k \in Key |-> FALSE]
    /\ session = None
    /\ newest = [k \in Key |-> None]
    /\ tokens = None
    /\ step = [r \in Request |-> "idle"]
    /\ key = [r \in Request |-> "EMAIL"]
    /\ seen = [r \in Request |-> None]
    /\ late = [r \in Request |-> FALSE]
    /\ guesses = [c \in Code |-> 0]
    /\ held = [c \in Code |-> 0]
    /\ accepted = {}
    /\ spent = {}

-----------------------------------------------------------------------------
(* How a request starts, goes on and ends.                                 *)

Begin(r, s, k) ==
    /\ step[r] = "idle"
    /\ step' = [step EXCEPT ![r] = s]
    /\ key' = [key EXCEPT ![r] = k]
    /\ late' = [late EXCEPT ![r] = deleted]
    /\ UNCHANGED <<account, deleted, redisVars, session, newest, tokens, seen, historyVars>>

Go(r, from, to) ==
    /\ step[r] = from
    /\ step' = [step EXCEPT ![r] = to]
    /\ UNCHANGED <<key, late>>

End(r, from) ==
    /\ step[r] = from
    /\ step' = [step EXCEPT ![r] = "idle"]
    /\ key' = [key EXCEPT ![r] = "EMAIL"]
    /\ seen' = [seen EXCEPT ![r] = None]
    /\ late' = [late EXCEPT ![r] = FALSE]

(* A refusal, an error of Postgres or Redis, or the end of the process. *)
Fails(r) ==
    /\ End(r, step[r])
    /\ step[r] # "idle"
    /\ UNCHANGED <<account, deleted, redisVars, session, newest, tokens, historyVars>>

Live == account # "none" /\ ~deleted

-----------------------------------------------------------------------------
(* OtpService.generate, and the requests that lead to it.                  *)

Register(r) == account = "none" /\ Begin(r, "create", "EMAIL")

(* The insert; email and username are unique. *)
Create(r) ==
    /\ account = "none"
    /\ account' = "unverified"
    /\ Go(r, "create", "cooldown")
    /\ UNCHANGED <<deleted, redisVars, session, newest, tokens, seen, historyVars>>

Resend(r) == account = "unverified" /\ ~deleted /\ Begin(r, "cooldown", "EMAIL")

ChangePassword(r) == Live /\ Begin(r, "cooldown", "PASSWORD")

GetCooldown(r) ==
    /\ ~cooldown[key[r]]
    /\ Go(r, "cooldown", "store")
    /\ UNCHANGED <<account, deleted, redisVars, session, newest, tokens, seen, historyVars>>

Fresh(c) == \A k \in Key : c > newest[k]

(* Verifications between reading a code and counting their attempt. *)
Holders(c) == {r \in Request : step[r] = "hincrby" /\ seen[r] = c}

(* The code of a key goes: these verifications are remembered. *)
Gone(k) == held' = IF hash[k] = None THEN held
                   ELSE [held EXCEPT ![hash[k]] = Cardinality(Holders(hash[k]))]

StoreFrame(r) ==
    /\ \E c \in Code :
          /\ Fresh(c) /\ \A d \in Code : Fresh(d) => c <= d
          /\ newest' = [newest EXCEPT ![key[r]] = c]
          /\ hash' = [hash EXCEPT ![key[r]] = c]
    /\ cooldown' = [cooldown EXCEPT ![key[r]] = TRUE]
    /\ Gone(key[r])
    /\ End(r, "store")
    /\ UNCHANGED <<account, deleted, session, tokens, guesses, accepted, spent>>

(* Mutant: only a new key gets a TTL. *)
StoreExpiresNew(r) ==
    /\ StoreFrame(r)
    /\ attempts' = [attempts EXCEPT ![key[r]] = 0]
    /\ expires' = [expires EXCEPT ![key[r]] = @ \/ attempts[key[r]] = 0]

(* MULTI: the code, its TTL and its cooldown. *)
Store(r) ==
    /\ StoreFrame(r)
    /\ attempts' = [attempts EXCEPT ![key[r]] = 0]
    /\ expires' = [expires EXCEPT ![key[r]] = TRUE]

-----------------------------------------------------------------------------
(* OtpService.verify, and the requests that lead to it.                    *)

Verify(r) == account = "unverified" /\ ~deleted /\ Begin(r, "hget", "EMAIL")

ConfirmPassword(r) == Live /\ Begin(r, "hget", "PASSWORD")

HGet(r) ==
    /\ hash[key[r]] # None
    /\ seen' = [seen EXCEPT ![r] = hash[key[r]]]
    /\ Go(r, "hget", "hincrby")
    /\ UNCHANGED <<account, deleted, redisVars, session, newest, tokens, historyVars>>

(* Attempts beyond Limit + 1 are all the same. *)
HIncr(r) == attempts' = [attempts EXCEPT ![key[r]] = IF @ > Limit THEN @ ELSE @ + 1]

(* The guess is compared with the code read before, wherever that is now. *)
Counted(r) == guesses' = [guesses EXCEPT ![seen[r]] = @ + 1]

(* Mutant: the comparison is with the attempts before this one. *)
HIncrByOffByOne(r) ==
    /\ HIncr(r)
    /\ IF attempts[key[r]] > Limit
         THEN Go(r, "hincrby", "exhausted") /\ UNCHANGED guesses
         ELSE Go(r, "hincrby", "compare") /\ Counted(r)
    /\ UNCHANGED <<account, deleted, hash, expires, cooldown, session, newest, tokens, seen,
                   held, accepted, spent>>

(* A key that has gone comes back with the attempts only. *)
HIncrBy(r) ==
    /\ HIncr(r)
    /\ IF attempts'[key[r]] > Limit
         THEN Go(r, "hincrby", "exhausted") /\ UNCHANGED guesses
         ELSE Go(r, "hincrby", "compare") /\ Counted(r)
    /\ UNCHANGED <<account, deleted, hash, expires, cooldown, session, newest, tokens, seen,
                   held, accepted, spent>>

Del(k) ==
    /\ hash' = [hash EXCEPT ![k] = None]
    /\ attempts' = [attempts EXCEPT ![k] = 0]
    /\ expires' = [expires EXCEPT ![k] = FALSE]
    /\ Gone(k)

(* Too many attempts: the code is removed, its cooldown stays. *)
Exhausted(r) ==
    /\ End(r, "exhausted")
    /\ Del(key[r])
    /\ UNCHANGED <<account, deleted, cooldown, session, newest, tokens, guesses, accepted, spent>>

(* The code of the request is right; a wrong one Fails. *)
Compare(r) ==
    /\ Go(r, "compare", "del")
    /\ UNCHANGED <<account, deleted, redisVars, session, newest, tokens, seen, historyVars>>

(* Mutant: the cooldown is not removed. *)
AcceptKeepsCooldown(r) ==
    /\ Go(r, "del", "update")
    /\ Del(key[r])
    /\ accepted' = accepted \cup {seen[r]}
    /\ seen' = [seen EXCEPT ![r] = None]
    /\ UNCHANGED <<account, deleted, cooldown, session, newest, tokens, guesses, spent>>

Accept(r) ==
    /\ Go(r, "del", "update")
    /\ Del(key[r])
    /\ cooldown' = [cooldown EXCEPT ![key[r]] = FALSE]
    /\ accepted' = accepted \cup {seen[r]}
    /\ seen' = [seen EXCEPT ![r] = None]
    /\ UNCHANGED <<account, deleted, session, newest, tokens, guesses, spent>>

(* isVerified is set; verify goes on to _authenticate. *)
SetVerified(r) ==
    /\ key[r] = "EMAIL"
    /\ account' = "verified"
    /\ Go(r, "update", "sign")
    /\ UNCHANGED <<deleted, redisVars, session, newest, tokens, seen, historyVars>>

(* The new password; nothing else depends on it. *)
SetPassword(r) ==
    /\ key[r] = "PASSWORD"
    /\ End(r, "update")
    /\ UNCHANGED <<account, deleted, redisVars, session, newest, tokens, historyVars>>

-----------------------------------------------------------------------------
(* Sessions.                                                               *)

(* The account is found, and its password compared before signing. *)
Login(r) == account = "verified" /\ ~deleted /\ Begin(r, "sign", "EMAIL")

Refresh(r) == tokens # None /\ Begin(r, "get", "EMAIL")

(* The token of the request is the one stored. *)
GetSession(r) ==
    /\ session # None
    /\ seen' = [seen EXCEPT ![r] = session]
    /\ Go(r, "get", "findBy")
    /\ UNCHANGED <<account, deleted, redisVars, session, newest, tokens, historyVars>>

(* Mutant: the account is only looked for. *)
FindByAny(r) ==
    /\ account # "none"
    /\ Go(r, "findBy", "sign")
    /\ UNCHANGED <<account, deleted, redisVars, session, newest, tokens, seen, historyVars>>

FindBy(r) ==
    /\ Live
    /\ Go(r, "findBy", "sign")
    /\ UNCHANGED <<account, deleted, redisVars, session, newest, tokens, seen, historyVars>>

Signed == {t \in Token : t = tokens + 1 \/ t = tokens}

(* Mutant: a refresh keeps the token it was called with. *)
SignKeepsToken(r) ==
    /\ \E t \in Signed :
          /\ tokens' = t
          /\ session' = IF seen[r] # None THEN seen[r] ELSE t
          /\ spent' = IF seen[r] \notin {None, t} THEN spent \cup {seen[r]} ELSE spent
    /\ End(r, "sign")
    /\ UNCHANGED <<account, deleted, redisVars, newest, guesses, held, accepted>>

(* _authenticate: tokens signed within one second are equal.  The stored
   token is overwritten, whatever it is.  Signing and the SET are one step: one
   process sends the SETs over one connection in the order it signs. *)
Sign(r) ==
    /\ \E t \in Signed :
          /\ tokens' = t
          /\ session' = t
          /\ spent' = IF seen[r] \notin {None, t} THEN spent \cup {seen[r]} ELSE spent
    /\ End(r, "sign")
    /\ UNCHANGED <<account, deleted, redisVars, newest, guesses, held, accepted>>

(* Any token that is still valid by its signature ends the session. *)
Logout ==
    /\ tokens # None
    /\ session' = None
    /\ UNCHANGED <<account, deleted, redisVars, newest, tokens, localVars, historyVars>>

Delete ==
    /\ Live
    /\ deleted' = TRUE
    /\ UNCHANGED <<account, redisVars, session, newest, tokens, localVars, historyVars>>

-----------------------------------------------------------------------------
(* Redis removes what has a TTL.                                           *)

ExpireCode(k) ==
    /\ expires[k]
    /\ Del(k)
    /\ UNCHANGED <<account, deleted, cooldown, session, newest, tokens, localVars, guesses,
                   accepted, spent>>

ExpireCooldown(k) ==
    /\ cooldown[k]
    /\ cooldown' = [cooldown EXCEPT ![k] = FALSE]
    /\ UNCHANGED <<account, deleted, hash, attempts, expires, session, newest, tokens,
                   localVars, historyVars>>

ExpireSession ==
    /\ session # None
    /\ session' = None
    /\ UNCHANGED <<account, deleted, redisVars, newest, tokens, localVars, historyVars>>

-----------------------------------------------------------------------------
Generate(r) == Register(r) \/ Create(r) \/ Resend(r) \/ ChangePassword(r)
               \/ GetCooldown(r) \/ Store(r)
Check(r) == Verify(r) \/ ConfirmPassword(r) \/ HGet(r) \/ HIncrBy(r) \/ Exhausted(r)
            \/ Compare(r) \/ Accept(r) \/ SetVerified(r) \/ SetPassword(r)
Session(r) == Login(r) \/ Refresh(r) \/ GetSession(r) \/ FindBy(r) \/ Sign(r)

Next ==
    \/ \E r \in Request : Generate(r) \/ Check(r) \/ Session(r) \/ Fails(r)
    \/ \E k \in Key : ExpireCode(k) \/ ExpireCooldown(k)
    \/ ExpireSession \/ Logout \/ Delete

Spec == Init /\ [][Next]_vars

-----------------------------------------------------------------------------
(* Properties.                                                             *)

(* However many verifications are under way, a code is compared
   OTP_ATTEMPTS_COUNT times at most, and then once more by each verification
   that had read it, but not counted its attempt, when it was removed: the count
   of these restarts with the key.  Neither that count nor the attempts of
   earlier codes extend it further. *)
GuessBudget == \A c \in Code : guesses[c] <= Limit + held[c]

(* A code does not outlive its TTL, although attempts that come after its
   removal bring its key back without one. *)
CodesExpire == \A k \in Key : hash[k] # None => expires[k]

(* A verification that starts after a code was accepted never finds it. *)
AcceptedCodeIsGone == \A k \in Key : hash[k] \notin accepted

(* A code that was taken leaves no cooldown: if the request then fails before
   the account is marked, the client may ask for another code at once. *)
CooldownAwaitsCode ==
    \A k \in Key : cooldown[k] => newest[k] \notin accepted

(* A code that was taken leaves neither itself nor its cooldown behind, whatever
   was generated or verified meanwhile. *)
AcceptedCodeLeavesNothing == AcceptedCodeIsGone /\ CooldownAwaitsCode

(* Tokens are given to verified accounts, and these have shown a code. *)
TokensNeedVerification ==
    /\ session # None => account = "verified"
    /\ account = "verified" => accepted # {}

(* A token that was exchanged is never the stored one again: two refreshes
   with one token overlap, or one of them is refused. *)
SpentTokensStaySpent == session \notin spent

(* A request received after the deletion of the account gets no token. *)
NoTokenAfterDeletion == \A r \in Request : step[r] = "sign" => ~late[r]

(* A stored code is the last one of its key, and as many comparisons as were
   counted on it are among its attempts. *)
StoredCodes ==
    \A k \in Key :
        /\ hash[k] \in {None, newest[k]}
        /\ hash[k] # None => guesses[hash[k]] <= attempts[k]
        /\ \A l \in Key : l # k /\ newest[k] = newest[l] => newest[k] = None

(* Within the budget a removed code leaves room for those that still hold it. *)
Budgeted ==
    \A c \in Code :
        /\ IsFiniteSet(Holders(c))
        /\ IF \E k \in Key : hash[k] = c
             THEN guesses[c] <= Limit
             ELSE guesses[c] + Cardinality(Holders(c)) <= Limit + held[c]

(* A code that was not generated was neither compared nor accepted, and one
   that a request has read is one of the request's key. *)
KnownCodes ==
    /\ \A c \in Code : Fresh(c) => guesses[c] = 0 /\ c \notin accepted
    /\ \A r \in Request : step[r] \in Verifying =>
          /\ seen[r] \in Code /\ ~Fresh(seen[r])
          /\ \A k \in Key : k # key[r] => newest[k] # seen[r]

(* What a request that is about to sign knows, and what is in the session. *)
TokenFacts ==
    /\ session \in {None, tokens}
    /\ \A t \in spent : t < tokens
    /\ \A r \in Request :
          /\ step[r] \in {"findBy", "sign"} => seen[r] <= tokens /\ account = "verified"
          /\ step[r] = "update" => seen[r] = None /\ accepted # {}
          /\ step[r] \in {"idle", "create", "cooldown", "store", "hget", "get"} => seen[r] = None

LateFacts ==
    /\ deleted => account # "none"
    /\ \A r \in Request : late[r] => deleted /\ step[r] \in {"get", "findBy"}

(* The strengthening that makes the invariants inductive. *)
IInv == /\ TypeOK /\ StoredCodes /\ KnownCodes /\ TokenFacts /\ LateFacts
        /\ Budgeted /\ CodesExpire /\ AcceptedCodeIsGone /\ CooldownAwaitsCode
        /\ TokensNeedVerification
=============================================================================
