----------------------------- MODULE Auth_proofs -----------------------------
(***************************************************************************)
(* Proofs about codes, sessions and tokens, for any number of requests at  *)
(* once, any number of codes and tokens, and any limit of attempts.  IInv  *)
(* of Auth is inductive.  Its parts are taken one by one: what is known of *)
(* the codes, then the flags that go with them, then the tokens.           *)
(***************************************************************************)
EXTENDS Auth, FiniteSetTheorems, TLAPS

Codes == StoredCodes /\ KnownCodes /\ Budgeted /\ AcceptedCodeIsGone

Tokens == TokenFacts /\ TokensNeedVerification

LEMMA Parts == IInv <=> /\ TypeOK /\ Codes /\ CodesExpire /\ CooldownAwaitsCode
                        /\ Tokens /\ LateFacts
BY DEF IInv, Codes, Tokens

LEMMA Initially == Init => IInv
<1> SUFFICES ASSUME Init
             PROVE  IInv
  OBVIOUS
<1> USE LimitAssumption, BoundAssumption DEF Init
<1>1. TypeOK
  <2>1. /\ hash \in [Key -> Code \cup {None}] /\ newest \in [Key -> Code \cup {None}]
        /\ expires \in [Key -> BOOLEAN] /\ cooldown \in [Key -> BOOLEAN]
    OBVIOUS
  <2>2. /\ attempts \in [Key -> 0 .. Limit + 1]
        /\ guesses \in [Code -> Nat] /\ held \in [Code -> Nat]
    OBVIOUS
  <2>3. seen \in [Request -> Nat]
    BY DEF None
  <2>4. key \in [Request -> Key] /\ late \in [Request -> BOOLEAN]
    BY DEF Key
  <2> QED BY <2>1, <2>2, <2>3, <2>4 DEF TypeOK
<1>2. Codes
  <2>1. \A c \in Code : Holders(c) = {}
    BY DEF Holders
  <2>2. Budgeted
    <3> SUFFICES ASSUME NEW c \in Code
                 PROVE  IsFiniteSet(Holders(c)) /\ Cardinality(Holders(c)) = 0
      BY DEF Budgeted
    <3> QED BY <2>1, FS_EmptySet
  <2>3. StoredCodes /\ AcceptedCodeIsGone
    BY DEF StoredCodes, AcceptedCodeIsGone
  <2>4. KnownCodes
    BY DEF KnownCodes, Code, None, Verifying
  <2> QED BY <2>2, <2>3, <2>4 DEF Codes
<1>3. CodesExpire /\ CooldownAwaitsCode
  BY DEF CodesExpire, CooldownAwaitsCode
<1>4. Tokens /\ LateFacts
  BY DEF Tokens, TokenFacts, TokensNeedVerification, LateFacts, None
<1> QED BY <1>1, <1>2, <1>3, <1>4, Parts

-----------------------------------------------------------------------------
LEMMA EndTypes ==
    ASSUME TypeOK, NEW r \in Request, NEW s, End(r, s)
    PROVE  /\ step' \in [Request -> {"idle", "create", "cooldown", "store", "hget", "update",
                                     "get", "findBy", "sign"} \cup Verifying]
           /\ key' \in [Request -> Key]
           /\ seen' \in [Request -> Nat]
           /\ late' \in [Request -> BOOLEAN]
BY DEF TypeOK, End, None, Key

LEMMA GoneTypes ==
    ASSUME TypeOK, Budgeted, NEW k \in Key, Gone(k)
    PROVE  held' \in [Code -> Nat]
<1>1. CASE hash[k] = None
  BY <1>1 DEF Gone, TypeOK
<1>2. CASE hash[k] # None
  <2>1. hash[k] \in Code
    BY <1>2 DEF TypeOK
  <2>2. Cardinality(Holders(hash[k])) \in Nat
    BY <2>1, FS_CardinalityType DEF Budgeted
  <2> QED BY <1>2, <2>1, <2>2 DEF Gone, TypeOK
<1> QED BY <1>1, <1>2

LEMMA DelTypes ==
    ASSUME TypeOK, Budgeted, NEW k \in Key, Del(k)
    PROVE  /\ hash' \in [Key -> Code \cup {None}]
           /\ attempts' \in [Key -> 0 .. Limit + 1]
           /\ expires' \in [Key -> BOOLEAN]
           /\ held' \in [Code -> Nat]
BY LimitAssumption, GoneTypes DEF TypeOK, Del

LEMMA TypeStep == TypeOK /\ Codes /\ TokenFacts /\ [Next]_vars => TypeOK'
<1> SUFFICES ASSUME TypeOK, KnownCodes, Budgeted, TokenFacts, [Next]_vars
             PROVE  TypeOK'
  BY DEF Codes
<1> USE DEF redisVars, localVars, historyVars
<1>1. ASSUME NEW r \in Request, NEW s \in {"create", "cooldown", "hget", "sign", "get"},
             NEW k \in Key, Begin(r, s, k)
      PROVE  TypeOK'
  BY <1>1 DEF Begin, TypeOK
<1>2. ASSUME NEW r \in Request, Create(r) \/ GetCooldown(r) \/ Compare(r) \/ SetVerified(r)
                                \/ FindBy(r)
      PROVE  TypeOK'
  BY <1>2 DEF Create, GetCooldown, Compare, SetVerified, FindBy, Go, TypeOK, Verifying
<1>3. ASSUME NEW r \in Request, Fails(r)
      PROVE  TypeOK'
  BY <1>3, EndTypes DEF Fails, TypeOK
<1>4. ASSUME NEW r \in Request, SetPassword(r)
      PROVE  TypeOK'
  BY <1>4, EndTypes DEF SetPassword, TypeOK
<1>5. ASSUME NEW r \in Request, Store(r)
      PROVE  TypeOK'
  <2>1. End(r, "store") /\ key[r] \in Key /\ held' \in [Code -> Nat]
    BY <1>5, GoneTypes DEF Store, StoreFrame, TypeOK
  <2>2. attempts' \in [Key -> 0 .. Limit + 1] /\ expires' \in [Key -> BOOLEAN]
    BY <1>5, <2>1, LimitAssumption DEF Store, TypeOK
  <2> QED BY <1>5, <2>1, <2>2, EndTypes DEF Store, StoreFrame, TypeOK
<1>6. ASSUME NEW r \in Request, HGet(r)
      PROVE  TypeOK'
  <2>1. hash[key[r]] \in Nat
    BY <1>6 DEF HGet, TypeOK, Code
  <2> QED BY <1>6, <2>1 DEF HGet, Go, TypeOK, Verifying
<1>7. ASSUME NEW r \in Request, HIncrBy(r)
      PROVE  TypeOK'
  <2>1. attempts' \in [Key -> 0 .. Limit + 1]
    BY <1>7, LimitAssumption DEF HIncrBy, HIncr, TypeOK
  <2>2. guesses' \in [Code -> Nat]
    BY <1>7 DEF HIncrBy, Counted, TypeOK
  <2>3. Go(r, "hincrby", "exhausted") \/ Go(r, "hincrby", "compare")
    BY <1>7 DEF HIncrBy
  <2> QED BY <1>7, <2>1, <2>2, <2>3 DEF HIncrBy, Go, TypeOK, Verifying
<1>8. ASSUME NEW r \in Request, Exhausted(r)
      PROVE  TypeOK'
  <2>1. Del(key[r]) /\ key[r] \in Key /\ End(r, "exhausted")
    BY <1>8 DEF Exhausted, TypeOK
  <2> QED BY <1>8, <2>1, EndTypes, DelTypes DEF Exhausted, TypeOK
<1>9. ASSUME NEW r \in Request, Accept(r)
      PROVE  TypeOK'
  <2>1. Del(key[r]) /\ key[r] \in Key
    BY <1>9 DEF Accept, TypeOK
  <2>2. seen[r] \in Code
    BY <1>9 DEF Accept, Go, KnownCodes, Verifying
  <2> QED BY <1>9, <2>1, <2>2, DelTypes DEF Accept, Go, TypeOK, None
<1>10. ASSUME NEW r \in Request, GetSession(r)
       PROVE  TypeOK'
  BY <1>10 DEF GetSession, Go, TypeOK, Token, None
<1>11. ASSUME NEW r \in Request, Sign(r)
       PROVE  TypeOK'
  <2>1. /\ End(r, "sign") /\ seen[r] \in Nat
        /\ tokens' \in Token /\ session' \in Token
    BY <1>11 DEF Sign, Signed, TypeOK
  <2>2. seen[r] \notin {None} => seen[r] \in Token
    <3>1. step[r] = "sign"
      BY <2>1 DEF End
    <3>2. seen[r] <= tokens
      BY <3>1 DEF TokenFacts
    <3>3. tokens \in Token \cup {None}
      BY DEF TypeOK
    <3> QED BY <2>1, <3>2, <3>3, BoundAssumption DEF Token, None
  <2>3. spent' \subseteq Token
    BY <1>11, <2>2 DEF Sign, TypeOK
  <2> QED BY <1>11, <2>1, <2>3, EndTypes DEF Sign, TypeOK
<1>12. ASSUME NEW k \in Key, ExpireCode(k)
       PROVE  TypeOK'
  BY <1>12, DelTypes DEF ExpireCode, TypeOK
<1>13. ASSUME NEW k \in Key, ExpireCooldown(k)
       PROVE  TypeOK'
  BY <1>13 DEF ExpireCooldown, TypeOK
<1>14. CASE ExpireSession \/ Logout \/ Delete
  BY <1>14 DEF ExpireSession, Logout, Delete, TypeOK
<1>15. CASE UNCHANGED vars
  BY <1>15 DEF vars, TypeOK
<1> QED
  BY <1>1, <1>2, <1>3, <1>4, <1>5, <1>6, <1>7, <1>8, <1>9, <1>10, <1>11, <1>12, <1>13,
     <1>14, <1>15
  DEF Next, Generate, Check, Session, Register, Resend, ChangePassword, Verify,
      ConfirmPassword, Login, Refresh, Key

-----------------------------------------------------------------------------
(* The codes.                                                              *)

(* Requests in the middle of a verification after a step were so before it, and
   no request starts to hold a code. *)
StillVerifying ==
    \A r \in Request :
        /\ step'[r] \in Verifying =>
              step[r] \in Verifying /\ seen'[r] = seen[r] /\ key'[r] = key[r]
        /\ step'[r] = "hincrby" => step[r] = "hincrby"

LEMMA FewerHold ==
    ASSUME Budgeted, StillVerifying, NEW c \in Code
    PROVE  /\ IsFiniteSet(Holders(c)) /\ Cardinality(Holders(c)) \in Nat
           /\ IsFiniteSet(Holders(c)') /\ Cardinality(Holders(c)') \in Nat
           /\ Cardinality(Holders(c)') <= Cardinality(Holders(c))
<1>1. IsFiniteSet(Holders(c))
  BY DEF Budgeted
<1>2. Holders(c)' \subseteq Holders(c)
  BY DEF Holders, StillVerifying, Verifying
<1> QED BY <1>1, <1>2, FS_Subset, FS_CardinalityType

LEMMA CodesQuiet ==
    ASSUME TypeOK, Codes, StillVerifying,
           UNCHANGED <<hash, attempts, newest, guesses, held, accepted>>
    PROVE  Codes'
<1>1. StoredCodes' /\ AcceptedCodeIsGone'
  BY DEF Codes, StoredCodes, AcceptedCodeIsGone
<1>2. KnownCodes'
  BY DEF Codes, KnownCodes, StillVerifying, Fresh
<1>3. Budgeted'
  <2> SUFFICES ASSUME NEW c \in Code
               PROVE  (/\ IsFiniteSet(Holders(c))
                       /\ IF \E k \in Key : hash[k] = c
                            THEN guesses[c] <= Limit
                            ELSE guesses[c] + Cardinality(Holders(c)) <= Limit + held[c])'
    BY DEF Budgeted
  <2>1. /\ guesses[c] \in Nat /\ held[c] \in Nat /\ Limit \in Nat
        /\ guesses'[c] = guesses[c] /\ held'[c] = held[c]
    BY LimitAssumption DEF TypeOK
  <2>2. IF \E k \in Key : hash[k] = c
          THEN guesses[c] <= Limit
          ELSE guesses[c] + Cardinality(Holders(c)) <= Limit + held[c]
    BY DEF Codes, Budgeted
  <2>3. /\ Cardinality(Holders(c)) \in Nat /\ IsFiniteSet(Holders(c)')
        /\ Cardinality(Holders(c)') \in Nat
        /\ Cardinality(Holders(c)') <= Cardinality(Holders(c))
    BY FewerHold DEF Codes
  <2> HIDE DEF Holders
  <2> QED BY <2>1, <2>2, <2>3
<1> QED BY <1>1, <1>2, <1>3 DEF Codes

(* A code that goes is compared again only by those that hold it. *)
LEMMA BudgetKept ==
    ASSUME TypeOK, Budgeted, StillVerifying, NEW k \in Key, Gone(k), UNCHANGED guesses,
           NEW c \in Code,
           \A l \in Key : hash'[l] = c => hash[l] = c,
           hash[k] # c => \A l \in Key : hash[l] = c => hash'[l] = c
    PROVE  (/\ IsFiniteSet(Holders(c))
            /\ IF \E l \in Key : hash[l] = c
                 THEN guesses[c] <= Limit
                 ELSE guesses[c] + Cardinality(Holders(c)) <= Limit + held[c])'
<1>1. /\ guesses[c] \in Nat /\ held[c] \in Nat /\ Limit \in Nat
      /\ guesses'[c] = guesses[c]
  BY LimitAssumption DEF TypeOK
<1>2. IF \E l \in Key : hash[l] = c
        THEN guesses[c] <= Limit
        ELSE guesses[c] + Cardinality(Holders(c)) <= Limit + held[c]
  BY DEF Budgeted
<1>3. /\ Cardinality(Holders(c)) \in Nat /\ IsFiniteSet(Holders(c)')
      /\ Cardinality(Holders(c)') \in Nat
      /\ Cardinality(Holders(c)') <= Cardinality(Holders(c))
  BY FewerHold
<1>4. CASE hash[k] = c
  <2>1. held'[c] = Cardinality(Holders(c)) /\ guesses[c] <= Limit
    BY <1>2, <1>4 DEF Gone, TypeOK, Code, None
  <2> QED BY <1>1, <1>3, <2>1
<1>5. CASE hash[k] # c
  <2>1. held'[c] = held[c]
    BY <1>5 DEF Gone, TypeOK
  <2>2. (\E l \in Key : hash'[l] = c) <=> (\E l \in Key : hash[l] = c)
    BY <1>5
  <2> QED BY <1>1, <1>2, <1>3, <2>1, <2>2
<1> QED BY <1>4, <1>5

(* A code is removed, and codes generated for the key that loses it may be
   accepted. *)
LEMMA CodesRemoved ==
    ASSUME TypeOK, Codes, StillVerifying, NEW k \in Key, Del(k), UNCHANGED <<newest, guesses>>,
           \A c \in accepted' : \/ c \in accepted
                                \/ /\ c \in Code /\ ~Fresh(c)
                                   /\ \A l \in Key : l # k => newest[l] # c
    PROVE  Codes'
<1>1. StoredCodes'
  BY DEF Codes, StoredCodes, Del, TypeOK
<1>2. Budgeted'
  <2>1. Gone(k) /\ \A l \in Key : hash'[l] = IF l = k THEN None ELSE hash[l]
    BY DEF Del, TypeOK
  <2>2. \A c \in Code : c # None
    BY DEF Code, None
  <2>3. Budgeted
    BY DEF Codes
  <2>4. ASSUME NEW c \in Code
        PROVE  /\ \A l \in Key : hash'[l] = c => hash[l] = c
               /\ hash[k] # c => \A l \in Key : hash[l] = c => hash'[l] = c
    BY <2>1, <2>2
  <2> QED BY <2>1, <2>3, <2>4, BudgetKept DEF Budgeted
<1>3. AcceptedCodeIsGone'
  <2> SUFFICES ASSUME NEW l \in Key, hash'[l] \in accepted'
               PROVE  FALSE
    BY DEF AcceptedCodeIsGone
  <2>1. hash'[l] # None
    BY DEF TypeOK, Code, None
  <2>2. l # k /\ hash'[l] = hash[l]
    BY <2>1 DEF Del, TypeOK
  <2>3. hash[l] = newest[l]
    BY <2>1, <2>2 DEF Codes, StoredCodes
  <2> QED BY <2>2, <2>3 DEF Codes, AcceptedCodeIsGone
<1>4. KnownCodes'
  BY DEF Codes, KnownCodes, StillVerifying, Fresh
<1> QED BY <1>1, <1>2, <1>3, <1>4 DEF Codes

LEMMA CodesStored ==
    ASSUME TypeOK, Codes, NEW r \in Request, Store(r)
    PROVE  Codes'
<1> DEFINE k == key[r]
<1>1. PICK c \in Code : /\ Fresh(c)
                        /\ newest' = [newest EXCEPT ![k] = c]
                        /\ hash' = [hash EXCEPT ![k] = c]
  BY DEF Store, StoreFrame
<1>2. /\ k \in Key /\ UNCHANGED <<guesses, accepted>> /\ Gone(k)
      /\ attempts' = [attempts EXCEPT ![k] = 0]
      /\ guesses[c] = 0 /\ c \notin accepted
  BY <1>1 DEF Store, StoreFrame, historyVars, TypeOK, Codes, KnownCodes
<1>3. /\ newest \in [Key -> Nat] /\ hash \in [Key -> Nat] /\ c \in Nat
      /\ \A l \in Key : newest[l] < c
  BY <1>1 DEF TypeOK, Code, None, Fresh
<1>4. /\ newest'[k] = c /\ hash'[k] = c /\ attempts'[k] = 0
      /\ \A l \in Key : l # k => newest'[l] = newest[l] /\ hash'[l] = hash[l]
                                 /\ attempts'[l] = attempts[l]
  BY <1>1, <1>2 DEF TypeOK
<1>5. StoredCodes'
  BY <1>2, <1>3, <1>4 DEF Codes, StoredCodes
<1>6. AcceptedCodeIsGone'
  BY <1>2, <1>4 DEF Codes, AcceptedCodeIsGone
<1>7. \A d \in Nat : Fresh(d)' => Fresh(d)
  BY <1>3, <1>4 DEF Fresh
<1>8. StillVerifying
  BY DEF Store, StoreFrame, End, StillVerifying, Verifying, TypeOK
<1>9. ASSUME NEW q \in Request, step'[q] \in Verifying
      PROVE  (/\ seen[q] \in Code /\ ~Fresh(seen[q])
              /\ \A l \in Key : l # key[q] => newest[l] # seen[q])'
  <2>1. /\ seen'[q] \in Code /\ ~Fresh(seen[q]) /\ seen'[q] = seen[q] /\ key'[q] = key[q]
        /\ \A l \in Key : l # key[q] => newest[l] # seen'[q]
    BY <1>8, <1>9 DEF StillVerifying, Codes, KnownCodes
  <2>2. seen'[q] \in Nat /\ c # seen'[q]
    BY <1>1, <2>1 DEF Code
  <2>3. ~Fresh(seen[q])'
    BY <1>3, <1>4, <2>1, <2>2 DEF Fresh
  <2> QED BY <1>4, <2>1, <2>2, <2>3
<1>10. KnownCodes'
  <2>1. \A d \in Code : Fresh(d)' => guesses'[d] = 0 /\ d \notin accepted'
    BY <1>2, <1>7 DEF Codes, KnownCodes, Code
  <2> QED BY <1>9, <2>1 DEF KnownCodes
<1>11. Budgeted'
  <2> SUFFICES ASSUME NEW d \in Code
               PROVE  (/\ IsFiniteSet(Holders(d))
                       /\ IF \E l \in Key : hash[l] = d
                            THEN guesses[d] <= Limit
                            ELSE guesses[d] + Cardinality(Holders(d)) <= Limit + held[d])'
    BY DEF Budgeted
  <2>1. CASE d = c
    <3>1. IsFiniteSet(Holders(d)')
      BY <1>8, FewerHold DEF Codes
    <3>2. hash'[k] = d /\ guesses'[d] <= Limit
      BY <1>2, <1>4, <2>1, LimitAssumption
    <3> QED BY <1>2, <3>1, <3>2
  <2>2. CASE d # c
    <3>1. /\ \A l \in Key : hash'[l] = d => hash[l] = d
          /\ hash[k] # d => \A l \in Key : hash[l] = d => hash'[l] = d
      BY <1>2, <1>4, <2>2
    <3> QED BY <1>2, <1>8, <3>1, BudgetKept DEF Codes
  <2> QED BY <2>1, <2>2
<1> QED BY <1>5, <1>6, <1>10, <1>11 DEF Codes

LEMMA CodesRead ==
    ASSUME TypeOK, Codes, NEW r \in Request, HGet(r)
    PROVE  Codes'
<1>1. /\ hash[key[r]] # None /\ key[r] \in Key
      /\ seen' = [seen EXCEPT ![r] = hash[key[r]]]
      /\ step' = [step EXCEPT ![r] = "hincrby"]
      /\ UNCHANGED <<key, hash, attempts, newest, guesses, held, accepted>>
  BY DEF HGet, Go, redisVars, historyVars, TypeOK
<1>2. StoredCodes' /\ AcceptedCodeIsGone'
  BY <1>1 DEF Codes, StoredCodes, AcceptedCodeIsGone
<1>3. /\ hash[key[r]] \in Code /\ hash[key[r]] = newest[key[r]]
      /\ \A l \in Key : l # key[r] => newest[l] # hash[key[r]]
  BY <1>1 DEF TypeOK, Codes, StoredCodes
<1>4. ~Fresh(hash[key[r]])
  BY <1>1, <1>3 DEF Fresh, Code
<1>5. \A c \in Code : Fresh(c)' => guesses'[c] = 0 /\ c \notin accepted'
  BY <1>1 DEF Codes, KnownCodes, Fresh
<1>6. ASSUME NEW q \in Request, step'[q] \in Verifying
      PROVE  (/\ seen[q] \in Code /\ ~Fresh(seen[q])
              /\ \A l \in Key : l # key[q] => newest[l] # seen[q])'
  <2>1. CASE q = r
    BY <1>1, <1>3, <1>4, <2>1 DEF Fresh, TypeOK
  <2>2. CASE q # r
    BY <1>1, <1>6, <2>2 DEF Codes, KnownCodes, Fresh, TypeOK
  <2> QED BY <2>1, <2>2
<1>7. ASSUME NEW c \in Code
      PROVE  Holders(c)' = IF c = hash[key[r]] THEN Holders(c) \cup {r} ELSE Holders(c) \ {r}
  BY <1>1 DEF Holders, TypeOK
<1>8. Budgeted'
  <2> SUFFICES ASSUME NEW c \in Code
               PROVE  (/\ IsFiniteSet(Holders(c))
                       /\ IF \E l \in Key : hash[l] = c
                            THEN guesses[c] <= Limit
                            ELSE guesses[c] + Cardinality(Holders(c)) <= Limit + held[c])'
    BY DEF Budgeted
  <2>1. /\ IsFiniteSet(Holders(c))
        /\ IF \E l \in Key : hash[l] = c
             THEN guesses[c] <= Limit
             ELSE guesses[c] + Cardinality(Holders(c)) <= Limit + held[c]
    BY DEF Codes, Budgeted
  <2>2. CASE c = hash[key[r]]
    <3>1. IsFiniteSet(Holders(c)')
      BY <1>7, <2>1, <2>2, FS_AddElement
    <3>2. guesses'[c] <= Limit /\ hash'[key[r]] = c
      BY <1>1, <2>1, <2>2
    <3> QED BY <1>1, <3>1, <3>2
  <2>3. CASE c # hash[key[r]]
    <3>1. /\ Cardinality(Holders(c)) \in Nat /\ IsFiniteSet(Holders(c)')
          /\ Cardinality(Holders(c)') \in Nat
          /\ Cardinality(Holders(c)') <= Cardinality(Holders(c))
      <4>1. Holders(c)' \subseteq Holders(c)
        BY <1>7, <2>3
      <4> QED BY <2>1, <4>1, FS_Subset, FS_CardinalityType
    <3>2. guesses[c] \in Nat /\ held[c] \in Nat /\ Limit \in Nat
      BY LimitAssumption DEF TypeOK
    <3> QED BY <1>1, <2>1, <3>1, <3>2
  <2> QED BY <2>2, <2>3
<1> QED BY <1>2, <1>5, <1>6, <1>8 DEF Codes, KnownCodes

(* An attempt is counted before the comparison it is for. *)
LEMMA CodesCounted ==
    ASSUME TypeOK, Codes, NEW r \in Request, HIncrBy(r)
    PROVE  Codes'
<1> DEFINE k == key[r]
           c == seen[r]
<1>1. /\ step[r] = "hincrby" /\ k \in Key
      /\ UNCHANGED <<hash, newest, seen, key, held, accepted>>
      /\ step'[r] \in {"exhausted", "compare"}
      /\ step' = [step EXCEPT ![r] = step'[r]]
  BY DEF HIncrBy, Go, TypeOK
<1>2. /\ c \in Code /\ ~Fresh(c)
      /\ \A l \in Key : l # k => newest[l] # c
  BY <1>1 DEF Codes, KnownCodes, Verifying
<1>3. /\ attempts \in [Key -> Nat] /\ guesses \in [Code -> Nat] /\ Limit \in Nat
  BY LimitAssumption DEF TypeOK
<1>4. /\ attempts' \in [Key -> Nat]
      /\ \A l \in Key : attempts'[l] >= attempts[l]
      /\ attempts'[k] <= Limit => attempts'[k] = attempts[k] + 1
  BY <1>1, <1>3 DEF HIncrBy, HIncr
<1>5. /\ guesses' \in [Code -> Nat]
      /\ \A d \in Code : guesses'[d] # guesses[d] =>
            d = c /\ attempts'[k] <= Limit /\ guesses'[c] = guesses[c] + 1
  <2>1. CASE attempts'[k] > Limit
    BY <1>3, <2>1 DEF HIncrBy
  <2>2. CASE ~(attempts'[k] > Limit)
    <3>1. Counted(r)
      BY <2>2 DEF HIncrBy
    <3>2. attempts'[k] <= Limit
      BY <1>1, <1>3, <1>4, <2>2
    <3> QED BY <1>2, <1>3, <3>1, <3>2 DEF Counted
  <2> QED BY <2>1, <2>2
<1>6. hash \in [Key -> Code \cup {None}]
  BY DEF TypeOK
<1>7. \A l \in Key : hash[l] # None => guesses'[hash[l]] <= attempts'[l]
  <2> SUFFICES ASSUME NEW l \in Key, hash[l] # None
               PROVE  guesses'[hash[l]] <= attempts'[l]
    OBVIOUS
  <2>1. hash[l] \in Code /\ hash[l] = newest[l] /\ guesses[hash[l]] <= attempts[l]
    BY <1>6 DEF Codes, StoredCodes
  <2>2. CASE guesses'[hash[l]] = guesses[hash[l]]
    BY <1>3, <1>4, <2>1, <2>2
  <2>3. CASE guesses'[hash[l]] # guesses[hash[l]]
    <3>1. l = k
      BY <1>2, <1>5, <2>1, <2>3
    <3> QED BY <1>3, <1>4, <1>5, <2>1, <2>3, <3>1
  <2> QED BY <2>2, <2>3
<1>8. StoredCodes'
  BY <1>1, <1>7 DEF Codes, StoredCodes
<1>9. Budgeted'
  <2> SUFFICES ASSUME NEW d \in Code
               PROVE  (/\ IsFiniteSet(Holders(d))
                       /\ IF \E l \in Key : hash[l] = d
                            THEN guesses[d] <= Limit
                            ELSE guesses[d] + Cardinality(Holders(d)) <= Limit + held[d])'
    BY DEF Budgeted
  <2>1. /\ IsFiniteSet(Holders(d))
        /\ IF \E l \in Key : hash[l] = d
             THEN guesses[d] <= Limit
             ELSE guesses[d] + Cardinality(Holders(d)) <= Limit + held[d]
    BY DEF Codes, Budgeted
  <2>2. Holders(d)' = Holders(d) \ {r}
    BY <1>1 DEF Holders, TypeOK
  <2>3. r \in Holders(d) <=> d = c
    BY <1>1 DEF Holders
  <2>4. /\ Cardinality(Holders(d)) \in Nat /\ IsFiniteSet(Holders(d)')
        /\ Cardinality(Holders(d)') \in Nat
        /\ Cardinality(Holders(d)') = IF d = c THEN Cardinality(Holders(d)) - 1
                                               ELSE Cardinality(Holders(d))
    BY <2>1, <2>2, <2>3, FS_RemoveElement, FS_CardinalityType
  <2>5. /\ guesses[d] \in Nat /\ guesses'[d] \in Nat /\ held[d] \in Nat
        /\ guesses'[d] = guesses[d] \/ (d = c /\ guesses'[d] = guesses[d] + 1)
    BY <1>3, <1>5 DEF TypeOK
  <2>6. CASE \E l \in Key : hash[l] = d
    <3>1. CASE guesses'[d] = guesses[d]
      BY <1>1, <2>1, <2>4, <2>6, <3>1
    <3>2. CASE guesses'[d] # guesses[d]
      <4>1. d = c /\ attempts'[k] <= Limit
        BY <1>5, <3>2
      <4>2. hash[k] = c
        <5>1. PICK l \in Key : hash[l] = d
          BY <2>6
        <5>2. newest[l] = c
          BY <1>2, <4>1, <5>1 DEF Codes, StoredCodes, Code, None
        <5> QED BY <1>2, <4>1, <5>1, <5>2
      <4>3. guesses'[d] <= attempts'[k]
        BY <1>1, <1>2, <1>7, <4>1, <4>2 DEF Code, None
      <4>4. guesses'[d] <= Limit
        BY <1>1, <1>3, <1>4, <2>5, <4>1, <4>3
      <4> QED BY <1>1, <2>4, <2>6, <4>4
    <3> QED BY <3>1, <3>2
  <2>7. CASE ~\E l \in Key : hash[l] = d
    <3>1. guesses[d] + Cardinality(Holders(d)) <= Limit + held[d]
      BY <2>1, <2>7
    <3>2. guesses'[d] + Cardinality(Holders(d)') <= guesses[d] + Cardinality(Holders(d))
      BY <2>4, <2>5
    <3>3. guesses'[d] + Cardinality(Holders(d)') <= Limit + held'[d]
      BY <1>1, <1>3, <2>4, <2>5, <3>1, <3>2
    <3> QED BY <1>1, <2>4, <2>7, <3>3
  <2> QED BY <2>6, <2>7
<1>10. AcceptedCodeIsGone'
  BY <1>1 DEF Codes, AcceptedCodeIsGone
<1>11. \A d \in Code : Fresh(d)' => guesses'[d] = 0 /\ d \notin accepted'
  BY <1>1, <1>2, <1>5 DEF Codes, KnownCodes, Fresh
<1>12. \A q \in Request : step'[q] \in Verifying => step[q] \in Verifying
  BY <1>1 DEF Verifying, TypeOK
<1>13. KnownCodes'
  BY <1>1, <1>11, <1>12 DEF Codes, KnownCodes, Fresh
<1> QED BY <1>8, <1>9, <1>10, <1>13 DEF Codes

LEMMA CodesStep ==
    ASSUME TypeOK, Codes, [Next]_vars
    PROVE  Codes'
<1> USE DEF redisVars, localVars, historyVars
<1>1. ASSUME NEW r \in Request, NEW s \in {"create", "cooldown", "hget", "sign", "get"},
             NEW k \in Key, Begin(r, s, k)
      PROVE  Codes'
  <2>1. StillVerifying
    BY <1>1 DEF Begin, StillVerifying, Verifying, TypeOK
  <2> QED BY <1>1, <2>1, CodesQuiet DEF Begin
<1>2. ASSUME NEW r \in Request, Create(r) \/ GetCooldown(r) \/ Compare(r) \/ SetVerified(r)
                                \/ FindBy(r)
      PROVE  Codes'
  <2>1. StillVerifying
    BY <1>2 DEF Create, GetCooldown, Compare, SetVerified, FindBy, Go, StillVerifying,
                Verifying, TypeOK
  <2> QED BY <1>2, <2>1, CodesQuiet DEF Create, GetCooldown, Compare, SetVerified, FindBy
<1>3. ASSUME NEW r \in Request, Fails(r) \/ SetPassword(r) \/ Sign(r)
      PROVE  Codes'
  <2>1. StillVerifying
    BY <1>3 DEF Fails, SetPassword, Sign, End, StillVerifying, Verifying, TypeOK
  <2> QED BY <1>3, <2>1, CodesQuiet DEF Fails, SetPassword, Sign
<1>4. ASSUME NEW r \in Request, GetSession(r)
      PROVE  Codes'
  <2>1. StillVerifying
    BY <1>4 DEF GetSession, Go, StillVerifying, Verifying, TypeOK
  <2> QED BY <1>4, <2>1, CodesQuiet DEF GetSession
<1>5. ASSUME NEW r \in Request, Exhausted(r)
      PROVE  Codes'
  <2>1. StillVerifying
    BY <1>5 DEF Exhausted, End, StillVerifying, Verifying, TypeOK
  <2>2. key[r] \in Key /\ Del(key[r]) /\ UNCHANGED <<newest, guesses, accepted>>
    BY <1>5 DEF Exhausted, TypeOK
  <2> QED BY <2>1, <2>2, CodesRemoved
<1>6. ASSUME NEW r \in Request, Accept(r)
      PROVE  Codes'
  <2>1. StillVerifying
    BY <1>6 DEF Accept, Go, StillVerifying, Verifying, TypeOK
  <2>2. key[r] \in Key /\ step[r] \in Verifying /\ accepted' = accepted \cup {seen[r]}
    BY <1>6 DEF Accept, Go, Verifying, TypeOK
  <2>3. /\ seen[r] \in Code /\ ~Fresh(seen[r])
        /\ \A l \in Key : l # key[r] => newest[l] # seen[r]
    BY <2>2 DEF Codes, KnownCodes
  <2>4. Del(key[r]) /\ UNCHANGED <<newest, guesses>>
    BY <1>6 DEF Accept
  <2> QED BY <2>1, <2>2, <2>3, <2>4, CodesRemoved
<1>7. ASSUME NEW k \in Key, ExpireCode(k)
      PROVE  Codes'
  <2>1. StillVerifying
    BY <1>7 DEF ExpireCode, StillVerifying
  <2>2. Del(k) /\ UNCHANGED <<newest, guesses, accepted>>
    BY <1>7 DEF ExpireCode
  <2> QED BY <2>1, <2>2, CodesRemoved
<1>8. CASE (\E k \in Key : ExpireCooldown(k)) \/ ExpireSession \/ Logout \/ Delete
           \/ UNCHANGED vars
  <2>1. StillVerifying
    BY <1>8 DEF ExpireCooldown, ExpireSession, Logout, Delete, vars, StillVerifying
  <2> QED BY <1>8, <2>1, CodesQuiet DEF ExpireCooldown, ExpireSession, Logout, Delete, vars
<1> QED
  BY <1>1, <1>2, <1>3, <1>4, <1>5, <1>6, <1>7, <1>8, CodesStored, CodesRead, CodesCounted
  DEF Next, Generate, Check, Session, Register, Resend, ChangePassword, Verify,
      ConfirmPassword, Login, Refresh, Key

-----------------------------------------------------------------------------
(* The TTL and the cooldown that go with a code.                           *)

LEMMA ExpiryStep ==
    ASSUME TypeOK, CodesExpire, [Next]_vars
    PROVE  CodesExpire'
<1> USE DEF redisVars, localVars, historyVars, CodesExpire
<1>1. ASSUME NEW r \in Request, Store(r)
      PROVE  CodesExpire'
  <2>1. PICK c \in Code : hash' = [hash EXCEPT ![key[r]] = c]
    BY <1>1 DEF Store, StoreFrame
  <2> QED BY <1>1, <2>1 DEF Store, TypeOK
<1>2. ASSUME NEW k \in Key, Del(k)
      PROVE  CodesExpire'
  BY <1>2 DEF Del, TypeOK
<1>3. ASSUME NEW r \in Request, Exhausted(r) \/ Accept(r)
      PROVE  CodesExpire'
  BY <1>2, <1>3 DEF Exhausted, Accept, TypeOK
<1>4. ASSUME UNCHANGED <<hash, expires>>
      PROVE  CodesExpire'
  BY <1>4
<1>5. ASSUME NEW r \in Request, Generate(r), ~Store(r)
      PROVE  UNCHANGED <<hash, expires>>
  BY <1>5 DEF Generate, Register, Create, Resend, ChangePassword, GetCooldown, Begin
<1>6. ASSUME NEW r \in Request, Check(r), ~(Exhausted(r) \/ Accept(r))
      PROVE  UNCHANGED <<hash, expires>>
  BY <1>6 DEF Check, Verify, ConfirmPassword, HGet, HIncrBy, Compare, SetVerified, SetPassword,
              Begin
<1>7. ASSUME NEW r \in Request, Session(r) \/ Fails(r)
      PROVE  UNCHANGED <<hash, expires>>
  BY <1>7 DEF Session, Login, Refresh, GetSession, FindBy, Sign, Fails, Begin
<1>8. CASE \E k \in Key : ExpireCode(k) \/ ExpireCooldown(k)
  BY <1>2, <1>4, <1>8 DEF ExpireCode, ExpireCooldown
<1>9. CASE ExpireSession \/ Logout \/ Delete \/ UNCHANGED vars
  BY <1>9, <1>4 DEF ExpireSession, Logout, Delete, vars
<1> QED BY <1>1, <1>3, <1>4, <1>5, <1>6, <1>7, <1>8, <1>9 DEF Next

LEMMA CooldownStep ==
    ASSUME TypeOK, Codes, CooldownAwaitsCode, [Next]_vars
    PROVE  CooldownAwaitsCode'
<1> USE DEF redisVars, localVars, historyVars, CooldownAwaitsCode
<1>1. ASSUME NEW r \in Request, Store(r)
      PROVE  CooldownAwaitsCode'
  <2>1. PICK c \in Code : Fresh(c) /\ newest' = [newest EXCEPT ![key[r]] = c]
    BY <1>1 DEF Store, StoreFrame
  <2>2. c \notin accepted
    BY <2>1 DEF Codes, KnownCodes
  <2> QED BY <1>1, <2>1, <2>2 DEF Store, StoreFrame, TypeOK
<1>2. ASSUME NEW r \in Request, Accept(r)
      PROVE  CooldownAwaitsCode'
  <2>1. \A l \in Key : l # key[r] => newest[l] # seen[r]
    BY <1>2 DEF Accept, Go, Codes, KnownCodes, Verifying
  <2> QED BY <1>2, <2>1 DEF Accept, TypeOK
<1>3. ASSUME NEW k \in Key, ExpireCooldown(k)
      PROVE  CooldownAwaitsCode'
  BY <1>3 DEF ExpireCooldown, TypeOK
<1>4. ASSUME UNCHANGED <<cooldown, newest, accepted>>
      PROVE  CooldownAwaitsCode'
  BY <1>4
<1>5. ASSUME NEW r \in Request, Generate(r), ~Store(r)
      PROVE  UNCHANGED <<cooldown, newest, accepted>>
  BY <1>5 DEF Generate, Register, Create, Resend, ChangePassword, GetCooldown, Begin
<1>6. ASSUME NEW r \in Request, Check(r), ~Accept(r)
      PROVE  UNCHANGED <<cooldown, newest, accepted>>
  BY <1>6 DEF Check, Verify, ConfirmPassword, HGet, HIncrBy, Exhausted, Compare, SetVerified,
              SetPassword, Begin
<1>7. ASSUME NEW r \in Request, Session(r) \/ Fails(r)
      PROVE  UNCHANGED <<cooldown, newest, accepted>>
  BY <1>7 DEF Session, Login, Refresh, GetSession, FindBy, Sign, Fails, Begin
<1>8. CASE \E k \in Key : ExpireCode(k)
  BY <1>4, <1>8 DEF ExpireCode
<1>9. CASE ExpireSession \/ Logout \/ Delete \/ UNCHANGED vars
  BY <1>9, <1>4 DEF ExpireSession, Logout, Delete, vars
<1> QED BY <1>1, <1>2, <1>3, <1>4, <1>5, <1>6, <1>7, <1>8, <1>9 DEF Next

-----------------------------------------------------------------------------
(* The tokens.                                                             *)

(* What TokenFacts says of a request. *)
Aware(r) ==
    /\ step[r] \in {"findBy", "sign"} => seen[r] <= tokens /\ account = "verified"
    /\ step[r] = "update" => seen[r] = None /\ accepted # {}
    /\ step[r] \in {"idle", "create", "cooldown", "store", "hget", "get"} => seen[r] = None

(* A step of one request that signs nothing. *)
LEMMA TokensByOne ==
    ASSUME TypeOK, Tokens, NEW r \in Request,
           step' = [step EXCEPT ![r] = step'[r]], seen' = [seen EXCEPT ![r] = seen'[r]],
           Aware(r)', UNCHANGED <<session, tokens, spent>>, accepted \subseteq accepted',
           account # account' => account # "verified" /\ (account' = "verified" => accepted' # {})
                                 /\ (session # None => account' = "verified")
    PROVE  Tokens'
<1>1. \A q \in Request : q # r => step'[q] = step[q] /\ seen'[q] = seen[q]
  BY DEF TypeOK
<1>2. \A q \in Request : Aware(q)
  BY DEF Tokens, TokenFacts, Aware
<1>3. \A q \in Request : Aware(q)'
  <2> SUFFICES ASSUME NEW q \in Request, q # r
               PROVE  Aware(q)'
    OBVIOUS
  <2> QED BY <1>1, <1>2 DEF Aware
<1>4. TokensNeedVerification'
  BY DEF Tokens, TokensNeedVerification
<1> QED BY <1>3, <1>4 DEF Tokens, TokenFacts, Aware

LEMMA TokensSigned ==
    ASSUME TypeOK, Tokens, NEW r \in Request, Sign(r)
    PROVE  Tokens'
<1>1. PICK t \in Signed :
          /\ tokens' = t /\ session' = t
          /\ spent' = IF seen[r] \notin {None, t} THEN spent \cup {seen[r]} ELSE spent
  BY DEF Sign
<1>2. /\ step[r] = "sign" /\ UNCHANGED <<account, accepted>>
      /\ step' = [step EXCEPT ![r] = "idle"] /\ seen' = [seen EXCEPT ![r] = None]
  BY DEF Sign, End
<1>3. /\ t \in Nat /\ tokens \in Nat /\ t >= tokens /\ seen[r] \in Nat /\ seen[r] <= tokens
      /\ spent \subseteq Nat /\ account = "verified" /\ accepted # {}
  BY <1>1, <1>2, BoundAssumption
  DEF TypeOK, Signed, Token, None, Tokens, TokenFacts, TokensNeedVerification
<1>4. \A u \in spent' : u < tokens'
  BY <1>1, <1>3 DEF Tokens, TokenFacts
<1>5. \A q \in Request : q # r => step'[q] = step[q] /\ seen'[q] = seen[q]
  BY <1>2 DEF TypeOK
<1>6. step'[r] = "idle" /\ seen'[r] = None
  BY <1>2 DEF TypeOK
<1>7. \A q \in Request : Aware(q)'
  <2> SUFFICES ASSUME NEW q \in Request
               PROVE  Aware(q)'
    OBVIOUS
  <2>1. CASE q = r
    BY <1>6, <2>1 DEF Aware
  <2>2. CASE q # r
    <3>1. Aware(q) /\ seen[q] \in Nat
      BY DEF Tokens, TokenFacts, Aware, TypeOK
    <3>2. seen[q] <= tokens => seen[q] <= tokens'
      BY <1>1, <1>3, <3>1
    <3> QED BY <1>2, <1>3, <1>5, <2>2, <3>1, <3>2 DEF Aware
  <2> QED BY <2>1, <2>2
<1>8. TokensNeedVerification'
  BY <1>2, <1>3 DEF TokensNeedVerification
<1> QED BY <1>1, <1>4, <1>7, <1>8 DEF Tokens, TokenFacts, Aware

LEMMA TokensStep ==
    ASSUME TypeOK, KnownCodes, Tokens, [Next]_vars
    PROVE  Tokens'
<1> USE DEF redisVars, localVars, historyVars
<1>1. ASSUME NEW r \in Request
      PROVE  Aware(r)
  BY DEF Tokens, TokenFacts, Aware
<1>2. ASSUME NEW r \in Request, NEW s \in {"create", "cooldown", "hget", "get"}, NEW k \in Key,
             Begin(r, s, k)
      PROVE  Tokens'
  <2>1. Aware(r)'
    BY <1>1, <1>2 DEF Begin, Aware, TypeOK
  <2> QED BY <1>2, <2>1, TokensByOne DEF Begin, TypeOK
<1>3. ASSUME NEW r \in Request, Login(r)
      PROVE  Tokens'
  <2>1. Aware(r)'
    BY <1>1, <1>3 DEF Login, Begin, Aware, TypeOK, Token, None
  <2> QED BY <1>3, <2>1, TokensByOne DEF Login, Begin, TypeOK
<1>4. ASSUME NEW r \in Request, Create(r)
      PROVE  Tokens'
  <2>1. session = None
    BY <1>4 DEF Create, Tokens, TokensNeedVerification
  <2>2. Aware(r)'
    BY <1>1, <1>4 DEF Create, Go, Aware, TypeOK
  <2> QED BY <1>4, <2>1, <2>2, TokensByOne DEF Create, Go, TypeOK
<1>5. ASSUME NEW r \in Request, GetCooldown(r) \/ Compare(r) \/ FindBy(r)
      PROVE  Tokens'
  <2>1. Aware(r)'
    BY <1>1, <1>5 DEF GetCooldown, Compare, FindBy, Go, Aware, TypeOK
  <2> QED BY <1>5, <2>1, TokensByOne DEF GetCooldown, Compare, FindBy, Go, TypeOK
<1>6. ASSUME NEW r \in Request, SetVerified(r)
      PROVE  Tokens'
  <2>1. step[r] = "update" /\ seen[r] = None /\ accepted # {}
    BY <1>1, <1>6 DEF SetVerified, Go, Aware
  <2>2. Aware(r)'
    <3>1. None <= tokens
      BY BoundAssumption DEF TypeOK, Token, None
    <3> QED BY <1>6, <2>1, <3>1 DEF SetVerified, Go, Aware, TypeOK
  <2>3. account' = "verified" /\ accepted' # {}
    BY <1>6, <2>1 DEF SetVerified
  <2>4. \A q \in Request : Aware(q)'
    <3> SUFFICES ASSUME NEW q \in Request, q # r
                 PROVE  Aware(q)'
      BY <2>2
    <3>1. step'[q] = step[q] /\ UNCHANGED <<seen, tokens>>
      BY <1>6 DEF SetVerified, Go, TypeOK
    <3> QED BY <1>1, <2>3, <3>1 DEF Aware
  <2> QED BY <1>6, <2>3, <2>4 DEF SetVerified, Tokens, TokenFacts, TokensNeedVerification, Aware
<1>7. ASSUME NEW r \in Request, Fails(r) \/ SetPassword(r) \/ Exhausted(r) \/ Store(r)
      PROVE  Tokens'
  <2>1. /\ step' = [step EXCEPT ![r] = "idle"] /\ seen' = [seen EXCEPT ![r] = None]
        /\ UNCHANGED <<account, session, tokens, accepted, spent>>
    BY <1>7 DEF Fails, SetPassword, Exhausted, Store, StoreFrame, End
  <2>2. Aware(r)'
    BY <2>1 DEF Aware, TypeOK
  <2> QED BY <2>1, <2>2, TokensByOne DEF TypeOK
<1>8. ASSUME NEW r \in Request, HGet(r) \/ HIncrBy(r)
      PROVE  Tokens'
  <2>1. /\ step' = [step EXCEPT ![r] = step'[r]] /\ step'[r] \in Verifying
        /\ seen' = [seen EXCEPT ![r] = seen'[r]]
        /\ UNCHANGED <<account, session, tokens, accepted, spent>>
    <3>1. CASE HGet(r)
      BY <3>1 DEF HGet, Go, Verifying, TypeOK
    <3>2. CASE HIncrBy(r)
      BY <3>2 DEF HIncrBy, Go, Verifying, TypeOK
    <3> QED BY <1>8, <3>1, <3>2
  <2>2. Aware(r)'
    BY <2>1 DEF Aware, Verifying
  <2> QED BY <2>1, <2>2, TokensByOne
<1>9. ASSUME NEW r \in Request, Accept(r)
      PROVE  Tokens'
  <2>1. Aware(r)'
    BY <1>9 DEF Accept, Go, Aware, TypeOK
  <2> QED BY <1>9, <2>1, TokensByOne DEF Accept, Go, TypeOK
<1>10. ASSUME NEW r \in Request, GetSession(r)
       PROVE  Tokens'
  <2>1. session # None /\ session = tokens /\ account = "verified" /\ tokens \in Nat
    BY <1>10, BoundAssumption
    DEF GetSession, Tokens, TokenFacts, TokensNeedVerification, TypeOK, Token, None
  <2>2. Aware(r)'
    BY <1>10, <2>1 DEF GetSession, Go, Aware, TypeOK
  <2> QED BY <1>10, <2>2, TokensByOne DEF GetSession, Go, TypeOK
<1>11. CASE \/ \E k \in Key : ExpireCode(k) \/ ExpireCooldown(k)
            \/ ExpireSession \/ Logout \/ Delete \/ UNCHANGED vars
  <2>1. /\ UNCHANGED <<account, tokens, step, seen, accepted, spent>>
        /\ session' \in {None, session}
    BY <1>11 DEF ExpireCode, ExpireCooldown, ExpireSession, Logout, Delete, vars
  <2> QED BY <2>1 DEF Tokens, TokenFacts, TokensNeedVerification
<1> QED
  BY <1>2, <1>3, <1>4, <1>5, <1>6, <1>7, <1>8, <1>9, <1>10, <1>11, TokensSigned
  DEF Next, Generate, Check, Session, Register, Resend, ChangePassword, Verify,
      ConfirmPassword, Refresh, Key

LEMMA LateStep ==
    ASSUME TypeOK, LateFacts, [Next]_vars
    PROVE  LateFacts'
<1> USE DEF redisVars, localVars, historyVars
<1>1. ASSUME NEW r \in Request, Refresh(r)
      PROVE  LateFacts'
  BY <1>1 DEF Refresh, Begin, LateFacts, TypeOK
<1>2. ASSUME NEW r \in Request, NEW s, NEW k \in Key, Begin(r, s, k), ~deleted
      PROVE  LateFacts'
  BY <1>2 DEF Begin, LateFacts, TypeOK
<1>3. ASSUME NEW r \in Request, NEW from, NEW to, Go(r, from, to), UNCHANGED deleted,
             from \notin {"get", "findBy"} \/ to = "findBy" \/ ~deleted,
             account' # "none" \/ account' = account
      PROVE  LateFacts'
  BY <1>3 DEF Go, LateFacts, TypeOK
<1>4. ASSUME NEW r \in Request, NEW from, End(r, from), UNCHANGED <<account, deleted>>
      PROVE  LateFacts'
  BY <1>4 DEF End, LateFacts, TypeOK
<1>5. ASSUME NEW r \in Request, Generate(r)
      PROVE  LateFacts'
  <2>1. CASE Register(r) \/ Resend(r) \/ ChangePassword(r)
    BY <1>2, <2>1 DEF Register, Resend, ChangePassword, Live, LateFacts, Key
  <2>2. CASE Create(r)
    BY <1>3, <2>2 DEF Create
  <2>3. CASE GetCooldown(r)
    BY <1>3, <2>3 DEF GetCooldown
  <2>4. CASE Store(r)
    BY <1>4, <2>4 DEF Store, StoreFrame
  <2> QED BY <1>5, <2>1, <2>2, <2>3, <2>4 DEF Generate
<1>6. ASSUME NEW r \in Request, Check(r)
      PROVE  LateFacts'
  <2>1. CASE Verify(r) \/ ConfirmPassword(r)
    BY <1>2, <2>1 DEF Verify, ConfirmPassword, Live, Key
  <2>2. CASE HGet(r)
    BY <1>3, <2>2 DEF HGet
  <2>3. CASE HIncrBy(r)
    BY <1>3, <2>3 DEF HIncrBy
  <2>4. CASE Exhausted(r) \/ SetPassword(r)
    BY <1>4, <2>4 DEF Exhausted, SetPassword
  <2>5. CASE Compare(r)
    BY <1>3, <2>5 DEF Compare
  <2>6. CASE Accept(r)
    BY <1>3, <2>6 DEF Accept
  <2>7. CASE SetVerified(r)
    BY <1>3, <2>7 DEF SetVerified
  <2> QED BY <1>6, <2>1, <2>2, <2>3, <2>4, <2>5, <2>6, <2>7 DEF Check
<1>7. ASSUME NEW r \in Request, Session(r) \/ Fails(r)
      PROVE  LateFacts'
  <2>1. CASE Login(r)
    BY <1>2, <2>1 DEF Login, Key
  <2>2. CASE GetSession(r)
    BY <1>3, <2>2 DEF GetSession
  <2>3. CASE FindBy(r)
    BY <1>3, <2>3 DEF FindBy, Live
  <2>4. CASE Sign(r) \/ Fails(r)
    BY <1>4, <2>4 DEF Sign, Fails
  <2> QED BY <1>1, <1>7, <2>1, <2>2, <2>3, <2>4 DEF Session
<1>8. CASE \/ \E k \in Key : ExpireCode(k) \/ ExpireCooldown(k)
           \/ ExpireSession \/ Logout \/ Delete \/ UNCHANGED vars
  BY <1>8 DEF ExpireCode, ExpireCooldown, ExpireSession, Logout, Delete, Live, vars, LateFacts
<1> QED BY <1>5, <1>6, <1>7, <1>8 DEF Next

-----------------------------------------------------------------------------
(* The theorems.                                                           *)

LEMMA Inductive == Spec => []IInv
<1>1. IInv /\ [Next]_vars => IInv'
  <2> SUFFICES ASSUME IInv, [Next]_vars
               PROVE  IInv'
    OBVIOUS
  <2>1. /\ TypeOK /\ Codes /\ CodesExpire /\ CooldownAwaitsCode /\ Tokens /\ LateFacts
        /\ KnownCodes /\ TokenFacts
    BY DEF IInv, Codes, Tokens
  <2>2. TypeOK' /\ Codes' /\ Tokens'
    BY <2>1, TypeStep, CodesStep, TokensStep
  <2>3. CodesExpire' /\ CooldownAwaitsCode' /\ LateFacts'
    BY <2>1, ExpiryStep, CooldownStep, LateStep
  <2> QED BY <2>2, <2>3 DEF IInv, Codes, Tokens
<1> QED BY Initially, <1>1, PTL DEF Spec

(* Every variable keeps its type; in particular an attempt is never lost
   beyond the bound at which attempts are told apart. *)
THEOREM TypeCorrect == Spec => []TypeOK
<1>1. IInv => TypeOK
  BY DEF IInv
<1> QED BY <1>1, Inductive, PTL

(* A removed code is within the budget when even all that hold it compare. *)
LEMMA BudgetGuesses == IInv => GuessBudget
<1> SUFFICES ASSUME IInv, NEW c \in Code
             PROVE  guesses[c] <= Limit + held[c]
  BY DEF GuessBudget
<1>1. /\ IsFiniteSet(Holders(c))
      /\ guesses[c] <= Limit \/ guesses[c] + Cardinality(Holders(c)) <= Limit + held[c]
  BY DEF IInv, Budgeted
<1>2. Cardinality(Holders(c)) \in Nat
  BY <1>1, FS_CardinalityType
<1>3. guesses[c] \in Nat /\ held[c] \in Nat /\ Limit \in Nat
  BY LimitAssumption DEF IInv, TypeOK
<1> QED BY <1>1, <1>2, <1>3

(* However many verifications overlap, a code is compared at most Limit times,
   and once more by each verification that held it, its attempt not yet counted,
   when it was removed (OtpService.verify reads, counts, then compares with what
   it read; HINCRBY starts again on a removed key). *)
THEOREM GuessesAreBounded == Spec => []GuessBudget
BY BudgetGuesses, Inductive, PTL

(* A stored code always has a TTL, whatever attempts come after its removal. *)
THEOREM CodesAlwaysExpire == Spec => []CodesExpire
<1>1. IInv => CodesExpire
  BY DEF IInv
<1> QED BY <1>1, Inductive, PTL

(* An accepted code is never stored again, and a key cools down only while the
   last code sent for it is still to be accepted (OtpService.verify removes
   the code and the cooldown). *)
THEOREM AcceptedCodesLeaveNothing == Spec => []AcceptedCodeLeavesNothing
<1>1. IInv => AcceptedCodeLeavesNothing
  BY DEF IInv, AcceptedCodeLeavesNothing
<1> QED BY <1>1, Inductive, PTL

(* A session exists for a verified account only, which has shown a code. *)
THEOREM OnlyVerifiedHaveTokens == Spec => []TokensNeedVerification
<1>1. IInv => TokensNeedVerification
  BY DEF IInv
<1> QED BY <1>1, Inductive, PTL

(* A refresh token that was exchanged is never the stored one again. *)
THEOREM SpentTokensAreGone == Spec => []SpentTokensStaySpent
<1>1. IInv => SpentTokensStaySpent
  <2> SUFFICES ASSUME IInv, session \in spent
               PROVE  FALSE
    BY DEF SpentTokensStaySpent
  <2>1. session < tokens /\ session \in Token /\ session \in {None, tokens}
    BY DEF IInv, TokenFacts, TypeOK
  <2> QED BY <2>1, BoundAssumption DEF Token, None
<1> QED BY <1>1, Inductive, PTL

(* A request received after the deletion of the account signs nothing. *)
THEOREM DeletedGetNoToken == Spec => []NoTokenAfterDeletion
<1>1. IInv => NoTokenAfterDeletion
  BY DEF IInv, LateFacts, NoTokenAfterDeletion
<1> QED BY <1>1, Inductive, PTL
=============================================================================
