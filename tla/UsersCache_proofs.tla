--------------------------- MODULE UsersCache_proofs ---------------------------
(***************************************************************************)
(* Proofs about the pages of users, for any number of requests, pages,     *)
(* changes and failures.  IInv is inductive; that no invalidation leaves   *)
(* an old page behind is then read off each step, because a key is under   *)
(* some invalidation from the commit until its page is deleted.            *)
(***************************************************************************)
EXTENDS UsersCache, TLAPS

LEMMA VersionNat == None \in Nat /\ Version \subseteq Nat /\ None \notin Version
BY BoundAssumption DEF None, Version

LEMMA Initially == Init => IInv
<1> SUFFICES ASSUME Init
             PROVE  IInv
  OBVIOUS
<1> USE BoundAssumption DEF Init, None, Version
<1>1. TypeOK
  BY DEF TypeOK
<1>2. PageFacts /\ PageHasTtl
  BY DEF PageFacts, PageHasTtl, Stored
<1> QED BY <1>1, <1>2 DEF IInv

-----------------------------------------------------------------------------
LEMMA EndTypes ==
    ASSUME TypeOK, NEW r \in Request, End(r)
    PROVE  /\ step' \in [Request -> {"idle", "findAll", "set", "expire", "scan", "del"}]
           /\ key' \in [Request -> SUBSET Key]
           /\ read' \in [Request -> Version \cup {None}]
           /\ todo' \in [Request -> SUBSET Key]
           /\ step'[r] = "idle" /\ read'[r] = None
           /\ \A q \in Request : q # r => step'[q] = step[q] /\ read'[q] = read[q]
                                          /\ key'[q] = key[q] /\ todo'[q] = todo[q]
BY DEF TypeOK, End

LEMMA TypeStep ==
    ASSUME TypeOK, [Next]_vars
    PROVE  TypeOK'
<1>1. ASSUME NEW r \in Request, NEW k \in Key, Miss(r, k)
      PROVE  TypeOK'
  BY <1>1 DEF Miss, Go, TypeOK
<1>2. ASSUME NEW r \in Request, FindAll(r)
      PROVE  TypeOK'
  BY <1>2 DEF FindAll, Go, TypeOK
<1>3. ASSUME NEW r \in Request, Set(r)
      PROVE  TypeOK'
  BY <1>3 DEF Set, Go, TypeOK
<1>4. ASSUME NEW r \in Request, Expire(r)
      PROVE  TypeOK'
  BY <1>4, EndTypes DEF Expire, TypeOK
<1>5. ASSUME NEW r \in Request, NEW v \in Version, Write(r, v)
      PROVE  TypeOK'
  BY <1>5 DEF Write, Go, TypeOK
<1>6. ASSUME NEW r \in Request, Scan(r)
      PROVE  TypeOK'
  <2>1. PICK passed \in SUBSET todo[r] : Scan(r)!(passed)
    BY <1>6 DEF Scan
  <2>2. CASE passed \cap Stored # {}
    BY <2>1, <2>2 DEF Go, TypeOK, Stored
  <2>3. CASE passed \cap Stored = {} /\ passed = todo[r]
    BY <2>1, <2>3, EndTypes DEF TypeOK
  <2>4. CASE passed \cap Stored = {} /\ passed # todo[r]
    BY <2>1, <2>4 DEF TypeOK
  <2> QED BY <2>2, <2>3, <2>4
<1>7. ASSUME NEW r \in Request, Del(r)
      PROVE  TypeOK'
  <2>1. /\ page' \in [Key -> Version \cup {None}] /\ ttl' \subseteq Key /\ cut' \subseteq Key
        /\ UNCHANGED <<version, faults>>
    BY <1>7 DEF Del, TypeOK
  <2>2. CASE todo[r] = {}
    BY <1>7, <2>1, <2>2, EndTypes DEF Del, TypeOK
  <2>3. CASE todo[r] # {}
    BY <1>7, <2>1, <2>3 DEF Del, Go, TypeOK
  <2> QED BY <2>2, <2>3
<1>8. ASSUME NEW r \in Request, Fails(r)
      PROVE  TypeOK'
  <2>1. faults' \in 0 .. MaxFaults
    BY <1>8, BoundAssumption DEF Fails, TypeOK
  <2>2. cut' \subseteq Key
    BY <1>8 DEF Fails, TypeOK, Stored
  <2>3. End(r) /\ UNCHANGED <<version, page, ttl>>
    BY <1>8 DEF Fails
  <2> QED BY <2>1, <2>2, <2>3, EndTypes DEF TypeOK
<1>9. ASSUME NEW k \in Key, PageExpires(k)
      PROVE  TypeOK'
  BY <1>9 DEF PageExpires, TypeOK
<1>10. CASE UNCHANGED vars
  BY <1>10 DEF vars, TypeOK
<1> QED
  BY <1>1, <1>2, <1>3, <1>4, <1>5, <1>6, <1>7, <1>8, <1>9, <1>10 DEF Next, Reader, Writer

-----------------------------------------------------------------------------
(* A request that is not about to expire its page goes on without touching
   the pages. *)
LEMMA PagesUntouched ==
    ASSUME TypeOK, IInv, NEW r \in Request, step[r] # "expire",
           \A q \in Request : q # r => step'[q] = step[q] /\ key'[q] = key[q],
           UNCHANGED <<page, ttl, cut>>
    PROVE  PageHasTtl'
BY DEF IInv, PageHasTtl, Stored

LEMMA FactsStep ==
    ASSUME IInv, TypeOK', [Next]_vars
    PROVE  PageFacts' /\ PageHasTtl'
<1>0. /\ TypeOK /\ PageFacts /\ PageHasTtl
      /\ version \in Nat /\ version' \in Nat
      /\ page \in [Key -> Nat] /\ read \in [Request -> Nat]
  BY VersionNat DEF IInv, TypeOK
<1> USE <1>0
<1>1. ASSUME NEW r \in Request, NEW k \in Key, Miss(r, k)
      PROVE  PageFacts' /\ PageHasTtl'
  <2>1. PageHasTtl'
    BY <1>1, PagesUntouched DEF Miss, Go, TypeOK
  <2> QED BY <1>1, <2>1 DEF Miss, PageFacts, Stored
<1>2. ASSUME NEW r \in Request, FindAll(r)
      PROVE  PageFacts' /\ PageHasTtl'
  <2>1. PageHasTtl'
    BY <1>2, PagesUntouched DEF FindAll, Go, TypeOK
  <2> QED BY <1>2, <2>1 DEF FindAll, PageFacts, Stored
<1>3. ASSUME NEW r \in Request, Set(r)
      PROVE  PageFacts' /\ PageHasTtl'
  <2>1. /\ step' = [step EXCEPT ![r] = "expire"] /\ UNCHANGED <<version, key, read>>
        /\ \A k \in Key : page'[k] = IF k \in key[r] THEN read[r] ELSE page[k]
        /\ ttl' = ttl \ key[r] /\ cut' = cut \ key[r]
    BY <1>3 DEF Set, Go
  <2>2. PageFacts'
    <3>1. read[r] # None /\ read[r] <= version
      BY <1>3, VersionNat DEF Set, Go, TypeOK, PageFacts
    <3>2. ttl' \cup cut' \subseteq Stored'
      BY <2>1, <3>1 DEF PageFacts, Stored
    <3>3. \A k \in Key : page'[k] <= version'
      BY <2>1, <3>1 DEF PageFacts
    <3> QED BY <2>1, <3>2, <3>3 DEF PageFacts
  <2>3. PageHasTtl'
    <3> SUFFICES ASSUME NEW k \in Key, page'[k] # None, k \notin ttl', k \notin cut'
                 PROVE  \E q \in Request : step'[q] = "expire" /\ k \in key'[q]
      BY DEF PageHasTtl, Stored
    <3>1. CASE k \in key[r]
      BY <2>1, <3>1 DEF TypeOK
    <3>2. CASE k \notin key[r]
      BY <2>1, <3>2 DEF PageHasTtl, Stored, TypeOK
    <3> QED BY <3>1, <3>2
  <2> QED BY <2>2, <2>3
<1>4. ASSUME NEW r \in Request, Expire(r)
      PROVE  PageFacts' /\ PageHasTtl'
  <2>1. /\ End(r) /\ ttl' = ttl \cup (key[r] \cap Stored) /\ cut' = cut \ key[r]
        /\ UNCHANGED <<version, page>>
    BY <1>4 DEF Expire
  <2>2. PageFacts'
    <3>1. ttl' \cup cut' \subseteq Stored' /\ ttl' \cap cut' = {}
      BY <2>1 DEF PageFacts, Stored
    <3>2. \A q \in Request : read'[q] \in {read[q], None}
      BY <2>1, EndTypes
    <3>3. \A q \in Request : read'[q] <= version'
      BY <2>1, <3>2 DEF PageFacts, None
    <3> QED BY <2>1, <3>1, <3>3 DEF PageFacts
  <2>3. PageHasTtl'
    BY <2>1, EndTypes DEF PageHasTtl, Stored
  <2> QED BY <2>2, <2>3
<1>5. ASSUME NEW r \in Request, NEW v \in Version, Write(r, v)
      PROVE  PageFacts' /\ PageHasTtl'
  <2>1. PageHasTtl'
    BY <1>5, PagesUntouched DEF Write, Go, TypeOK
  <2>2. version' \in {version, version + 1} /\ UNCHANGED <<page, read, ttl, cut>>
    BY <1>5 DEF Write
  <2> QED BY <2>1, <2>2 DEF PageFacts, Stored
<1>6. ASSUME NEW r \in Request, Scan(r)
      PROVE  PageFacts' /\ PageHasTtl'
  <2>1. /\ step[r] = "scan" /\ UNCHANGED <<version, page, ttl, cut>>
        /\ \A q \in Request : q # r => step'[q] = step[q] /\ key'[q] = key[q]
                                       /\ read'[q] = read[q]
        /\ read'[r] \in {read[r], None}
    <3>1. PICK passed \in SUBSET todo[r] : Scan(r)!(passed)
      BY <1>6 DEF Scan
    <3>2. CASE passed \cap Stored # {}
      BY <3>1, <3>2 DEF Go, TypeOK
    <3>3. CASE passed \cap Stored = {} /\ passed = todo[r]
      BY <3>1, <3>3, EndTypes
    <3>4. CASE passed \cap Stored = {} /\ passed # todo[r]
      BY <3>1, <3>4
    <3> QED BY <3>2, <3>3, <3>4
  <2>2. PageHasTtl'
    BY <2>1, PagesUntouched
  <2>3. \A q \in Request : read'[q] <= version'
    BY <2>1, VersionNat DEF PageFacts, None
  <2> QED BY <2>1, <2>2, <2>3 DEF PageFacts, Stored
<1>7. ASSUME NEW r \in Request, Del(r)
      PROVE  PageFacts' /\ PageHasTtl'
  <2>1. /\ step[r] = "del" /\ version' = version
        /\ \A k \in Key : page'[k] = IF k \in key[r] THEN None ELSE page[k]
        /\ ttl' = ttl \ key[r] /\ cut' = cut \ key[r]
    BY <1>7 DEF Del
  <2>2. /\ \A q \in Request : q # r => step'[q] = step[q] /\ key'[q] = key[q]
                                       /\ read'[q] = read[q]
        /\ read'[r] \in {read[r], None}
    <3>1. CASE todo[r] = {}
      BY <1>7, <3>1, EndTypes DEF Del
    <3>2. CASE todo[r] # {}
      BY <1>7, <3>2 DEF Del, Go, TypeOK
    <3> QED BY <3>1, <3>2
  <2>3. PageFacts'
    BY <2>1, <2>2 DEF PageFacts, Stored, None
  <2>4. PageHasTtl'
    BY <2>1, <2>2 DEF PageHasTtl, Stored
  <2> QED BY <2>3, <2>4
<1>8. ASSUME NEW r \in Request, Fails(r)
      PROVE  PageFacts' /\ PageHasTtl'
  <2>1. /\ End(r) /\ UNCHANGED <<version, page, ttl>>
        /\ cut' = IF step[r] = "expire" THEN cut \cup ((key[r] \cap Stored) \ ttl) ELSE cut
    BY <1>8 DEF Fails
  <2>2. PageFacts'
    BY <2>1, EndTypes DEF PageFacts, Stored, None
  <2>3. PageHasTtl'
    BY <2>1, EndTypes DEF PageHasTtl, Stored
  <2> QED BY <2>2, <2>3
<1>9. ASSUME NEW k \in Key, PageExpires(k)
      PROVE  PageFacts' /\ PageHasTtl'
  <2>1. k \notin cut
    BY <1>9 DEF PageExpires, PageFacts
  <2> QED BY <1>9, <2>1 DEF PageExpires, PageFacts, PageHasTtl, Stored, None, TypeOK
<1>10. CASE UNCHANGED vars
  BY <1>10 DEF vars, PageFacts, PageHasTtl, Stored
<1> QED
  BY <1>1, <1>2, <1>3, <1>4, <1>5, <1>6, <1>7, <1>8, <1>9, <1>10 DEF Next, Reader, Writer

-----------------------------------------------------------------------------
(* The only steps that make an old page stay.                              *)

(* A page that becomes stuck was stored or was doomed, or the database went
   on without a scan: no other step than a late SET or a failure does it. *)
LEMMA StuckStep ==
    ASSUME TypeOK, PageFacts, [Next]_vars, NEW k \in Key, ~Stuck(k), Stuck(k)'
    PROVE  \/ faults' > faults
           \/ \E r \in Request : /\ step[r] = "set" /\ k \in key[r] /\ read[r] < version
                                 /\ step'[r] = "expire"
<1> USE DEF Stuck
<1>0. /\ version \in Nat /\ page \in [Key -> Nat] /\ read \in [Request -> Nat]
      /\ page'[k] # None /\ page'[k] # version' /\ ~Doomed(k)'
      /\ (page[k] = None \/ page[k] = version) \/ Doomed(k)
  BY VersionNat DEF TypeOK, Stale
<1>1. ASSUME NEW r \in Request, NEW l \in Key, Miss(r, l)
      PROVE  FALSE
  <2>1. Doomed(k) => Doomed(k)'
    BY <1>1 DEF Miss, Go, Doomed, TypeOK
  <2> QED BY <1>0, <1>1, <2>1 DEF Miss
<1>2. ASSUME NEW r \in Request, FindAll(r)
      PROVE  FALSE
  <2>1. Doomed(k) => Doomed(k)'
    BY <1>2 DEF FindAll, Go, Doomed, TypeOK
  <2> QED BY <1>0, <1>2, <2>1 DEF FindAll
<1>3. ASSUME NEW r \in Request, Set(r)
      PROVE  step[r] = "set" /\ k \in key[r] /\ read[r] < version /\ step'[r] = "expire"
  <2>1. /\ step[r] = "set" /\ step'[r] = "expire" /\ UNCHANGED <<version, key, read, todo>>
        /\ \A q \in Request : q # r => step'[q] = step[q]
        /\ page'[k] = IF k \in key[r] THEN read[r] ELSE page[k]
    BY <1>3 DEF Set, Go, TypeOK
  <2>2. ~Doomed(k)
    BY <1>0, <2>1 DEF Doomed
  <2>3. k \in key[r]
    BY <1>0, <2>1, <2>2
  <2>4. read[r] <= version /\ read[r] # version
    BY <1>0, <2>1, <2>3 DEF PageFacts
  <2> QED BY <1>0, <2>1, <2>3, <2>4
<1>4. ASSUME NEW r \in Request, Expire(r)
      PROVE  FALSE
  <2>1. Doomed(k) => Doomed(k)'
    BY <1>4, EndTypes DEF Expire, Doomed
  <2> QED BY <1>0, <1>4, <2>1 DEF Expire
<1>5. ASSUME NEW r \in Request, NEW v \in Version, Write(r, v)
      PROVE  FALSE
  <2>1. step'[r] = "scan" /\ k \in todo'[r]
    BY <1>5 DEF Write, Go, TypeOK
  <2> QED BY <1>0, <2>1 DEF Doomed
<1>6. ASSUME NEW r \in Request, Scan(r)
      PROVE  FALSE
  <2>1. UNCHANGED <<version, page>> /\ step[r] = "scan"
    BY <1>6 DEF Scan
  <2>2. Doomed(k) /\ k \in Stored
    BY <1>0, <2>1 DEF Stored
  <2>3. PICK passed \in SUBSET todo[r] : Scan(r)!(passed)
    BY <1>6 DEF Scan
  <2>4. CASE passed \cap Stored # {}
    BY <1>0, <2>1, <2>2, <2>3, <2>4 DEF Go, Doomed, TypeOK
  <2>5. CASE passed \cap Stored = {} /\ passed = todo[r]
    BY <1>0, <2>1, <2>2, <2>3, <2>5, EndTypes DEF Doomed
  <2>6. CASE passed \cap Stored = {} /\ passed # todo[r]
    BY <1>0, <2>1, <2>2, <2>3, <2>6 DEF Doomed, TypeOK
  <2> QED BY <2>4, <2>5, <2>6
<1>7. ASSUME NEW r \in Request, Del(r)
      PROVE  FALSE
  <2>1. k \notin key[r] /\ version' = version /\ page'[k] = page[k] /\ step[r] = "del"
    BY <1>0, <1>7 DEF Del
  <2>2. Doomed(k)
    BY <1>0, <2>1
  <2>3. CASE todo[r] = {}
    BY <1>0, <1>7, <2>1, <2>2, <2>3, EndTypes DEF Del, Doomed
  <2>4. CASE todo[r] # {}
    BY <1>0, <1>7, <2>1, <2>2, <2>4 DEF Del, Go, Doomed, TypeOK
  <2> QED BY <2>3, <2>4
<1>8. ASSUME NEW r \in Request, Fails(r)
      PROVE  faults' > faults
  BY <1>8, BoundAssumption DEF Fails, TypeOK
<1>9. ASSUME NEW l \in Key, PageExpires(l)
      PROVE  FALSE
  <2>1. k # l /\ UNCHANGED <<version, step, key, todo>> /\ page'[k] = page[k]
    BY <1>0, <1>9 DEF PageExpires, TypeOK
  <2> QED BY <1>0, <2>1 DEF Doomed
<1>10. CASE UNCHANGED vars
  BY <1>0, <1>10 DEF vars, Doomed
<1> QED
  BY <1>1, <1>2, <1>3, <1>4, <1>5, <1>6, <1>7, <1>8, <1>9, <1>10 DEF Next, Reader, Writer

-----------------------------------------------------------------------------
(* The theorems.                                                           *)

LEMMA Inductive == Spec => []IInv
<1>1. IInv /\ [Next]_vars => IInv'
  BY TypeStep, FactsStep DEF IInv
<1> QED BY Initially, <1>1, PTL DEF Spec

(* Every variable keeps its type, and only what was read is stored. *)
THEOREM TypeCorrect == Spec => []TypeOK
<1>1. IInv => TypeOK
  BY DEF IInv
<1> QED BY <1>1, Inductive, PTL

(* Whatever the order of SET, EXPIRE, DEL and expiry, a page without a TTL is
   about to get one or has lost its EXPIRE. *)
THEOREM PagesHaveTtl == Spec => []PageHasTtl
<1>1. IInv => PageHasTtl
  BY DEF IInv
<1> QED BY <1>1, Inductive, PTL

(* No invalidation leaves an old page behind: a reader that read before the
   change does, or a failure. *)
THEOREM InvalidationsMissNothing == Spec => OnlyLateReadersLeaveStale
<1>1. IInv /\ [Next]_vars =>
        [\A k \in Key : ~Stuck(k) /\ Stuck(k)' =>
            \/ faults' > faults
            \/ \E r \in Request : /\ step[r] = "set" /\ k \in key[r] /\ read[r] < version
                                  /\ step'[r] = "expire"]_vars
  BY StuckStep DEF IInv
<1> QED BY <1>1, Inductive, PTL DEF Spec, OnlyLateReadersLeaveStale
=============================================================================
