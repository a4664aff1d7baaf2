------------------------ MODULE AvatarUpload_proofs ------------------------
(***************************************************************************)
(* Proofs about the upload of avatars, for every set of uploads and every  *)
(* number of retries.  IInv of AvatarUpload is inductive, in parts.        *)
(* CountFacts relates the rows to the handlers that will add one.  Known,  *)
(* TypeOK with CallFacts, is inductive whatever fails: it is what the      *)
(* client knows of its call and of its file.  OneAttemptAtWork rests on it *)
(* and on the absence of faults.                                           *)
(***************************************************************************)
EXTENDS AvatarUpload, FiniteSetTheorems, TLAPS

Known == TypeOK /\ CallFacts

LEMMA Parts == IInv <=> Known /\ CountFacts /\ OneAttemptAtWork
BY DEF IInv, Known

-----------------------------------------------------------------------------
(* Rows and handlers that counted them.                                    *)

LEMMA CountsKept ==
    ASSUME TypeOK, CountFacts, avatars' \subseteq avatars, Counted' \subseteq Counted,
           together' = together
    PROVE  CountFacts'
<1>1. /\ IsFiniteSet(avatars') /\ Cardinality(avatars') <= Cardinality(avatars)
      /\ IsFiniteSet(Counted') /\ Cardinality(Counted') <= Cardinality(Counted)
  BY FS_Subset DEF CountFacts
<1>2. /\ Cardinality(avatars) \in Nat /\ Cardinality(Counted) \in Nat
      /\ Cardinality(avatars') \in Nat /\ Cardinality(Counted') \in Nat
  BY <1>1, FS_CardinalityType DEF CountFacts
<1> QED BY <1>1, <1>2, AvatarsAssumption DEF CountFacts, TypeOK

LEMMA CountsFound ==
    ASSUME TypeOK, CountFacts, NEW u \in Upload, NEW n \in Attempt, FindBy(u, n)
    PROVE  CountFacts' /\ together' \in Nat
<1>1. /\ handler' = [handler EXCEPT ![u][n] = handler'[u][n]]
      /\ Cardinality(avatars) >= MaxAvatars => handler'[u][n] = "rejected"
      /\ avatars' = avatars
      /\ together' = IF Cardinality(Counted') > together THEN Cardinality(Counted') ELSE together
  BY DEF FindBy, CountAgainst, Handle, TypeOK
<1>2. /\ Cardinality(avatars) \in Nat /\ Cardinality(Counted) \in Nat
      /\ together \in Nat /\ MaxAvatars \in Nat
  BY FS_CardinalityType, AvatarsAssumption DEF CountFacts, TypeOK
<1>3. CASE Cardinality(avatars) >= MaxAvatars
  <2>1. Counted' \subseteq Counted
    BY <1>1, <1>3 DEF Counted, TypeOK
  <2>2. Cardinality(Counted') \in Nat /\ Cardinality(Counted') <= Cardinality(Counted)
    BY <2>1, FS_Subset, FS_CardinalityType DEF CountFacts
  <2>3. together' = together
    BY <1>1, <1>2, <2>2 DEF CountFacts
  <2> QED BY <1>1, <1>2, <2>1, <2>3, CountsKept
<1>4. CASE ~(Cardinality(avatars) >= MaxAvatars)
  <2>1. Counted' \subseteq Counted \cup {<<u, n>>}
    BY <1>1 DEF Counted, TypeOK
  <2>2. IsFiniteSet(Counted \cup {<<u, n>>})
    BY FS_AddElement DEF CountFacts
  <2>3. IsFiniteSet(Counted') /\ Cardinality(Counted') \in Nat
    BY <2>1, <2>2, FS_Subset, FS_CardinalityType
  <2> QED BY <1>1, <1>2, <1>4, <2>3 DEF CountFacts
<1> QED BY <1>3, <1>4

LEMMA CountsInserted ==
    ASSUME TypeOK, CountFacts, NEW u \in Upload, NEW n \in Attempt, Create(u, n)
    PROVE  CountFacts'
<1>1. /\ handler[u][n] = "counted"
      /\ handler' = [handler EXCEPT ![u][n] = handler'[u][n]]
      /\ handler'[u][n] # "counted"
      /\ avatars' \subseteq avatars \cup {u} /\ together' = together
  BY DEF Create, Handle, TypeOK
<1>2. <<u, n>> \in Counted /\ Counted' \subseteq Counted \ {<<u, n>>}
  BY <1>1 DEF Counted, TypeOK
<1>3. /\ IsFiniteSet(Counted \ {<<u, n>>})
      /\ Cardinality(Counted \ {<<u, n>>}) = Cardinality(Counted) - 1
  BY <1>2, FS_RemoveElement DEF CountFacts
<1>4. /\ IsFiniteSet(Counted') /\ Cardinality(Counted') <= Cardinality(Counted) - 1
  BY <1>2, <1>3, FS_Subset
<1>5. /\ IsFiniteSet(avatars \cup {u})
      /\ \/ Cardinality(avatars \cup {u}) = Cardinality(avatars)
         \/ Cardinality(avatars \cup {u}) = Cardinality(avatars) + 1
  BY FS_AddElement DEF CountFacts
<1>6. IsFiniteSet(avatars') /\ Cardinality(avatars') <= Cardinality(avatars \cup {u})
  BY <1>1, <1>5, FS_Subset
<1>7. /\ Cardinality(avatars) \in Nat /\ Cardinality(Counted) \in Nat
      /\ Cardinality(avatars') \in Nat /\ Cardinality(Counted') \in Nat
  BY <1>4, <1>6, FS_CardinalityType DEF CountFacts
<1> QED BY <1>1, <1>4, <1>5, <1>6, <1>7, AvatarsAssumption DEF CountFacts, TypeOK

LEMMA CountStep ==
    ASSUME TypeOK, CountFacts, [Next]_vars
    PROVE  CountFacts' /\ together' \in Nat
<1> USE DEF rowVars
<1>1. ASSUME NEW u \in Upload, Client(u)
      PROVE  CountFacts' /\ together' \in Nat
  <2>1. CASE Resend(u) \/ HandleFile(u)
    <3>1. handler' = [handler EXCEPT ![u][attempt[u] + 1] = "sent"]
      BY <2>1 DEF Resend, HandleFile, Send
    <3>2. Counted' \subseteq Counted
      BY <3>1 DEF Counted, TypeOK
    <3> QED BY <2>1, <3>2, CountsKept DEF Resend, HandleFile, TypeOK
  <2>2. CASE ~(Resend(u) \/ HandleFile(u))
    <3>1. UNCHANGED <<handler, avatars, together>>
      BY <1>1, <2>2 DEF Client, Created, Rejected, Errs, TimesOut, HandleFileFails,
                        HandleFileUnconfirmed, RemoveFile, RemoveFileFails
    <3> QED BY <3>1, CountsKept DEF Counted, TypeOK
  <2> QED BY <2>1, <2>2
<1>2. ASSUME NEW u \in Upload, NEW n \in Attempt, FindByRejects(u, n) \/ CallAborts(u, n)
      PROVE  CountFacts' /\ together' \in Nat
  <2>1. UNCHANGED <<avatars, together>>
    BY <1>2 DEF FindByRejects, CallAborts
  <2>2. \E s \in {"rejected", "error"} : handler' = [handler EXCEPT ![u][n] = s]
    BY <1>2 DEF FindByRejects, CallAborts, Handle
  <2>3. Counted' \subseteq Counted
    BY <2>2 DEF Counted, TypeOK
  <2> QED BY <2>1, <2>3, CountsKept DEF TypeOK
<1>3. ASSUME NEW u \in Upload, NEW n \in Attempt, Create(u, n)
      PROVE  CountFacts' /\ together' \in Nat
  BY <1>3, CountsInserted DEF Create, TypeOK
<1>4. ASSUME NEW u \in Upload, DeleteAvatar(u)
      PROVE  CountFacts' /\ together' \in Nat
  BY <1>4, CountsKept DEF DeleteAvatar, Counted, TypeOK
<1>5. CASE Crash \/ UNCHANGED vars
  BY <1>5, CountsKept DEF Crash, vars, Counted, TypeOK
<1> QED BY <1>1, <1>2, <1>3, <1>4, <1>5, CountsFound DEF Next, Server

-----------------------------------------------------------------------------
LEMMA KnownStep == Known /\ CountFacts /\ [Next]_vars => Known'
<1> SUFFICES ASSUME Known, CountFacts, [Next]_vars
             PROVE  Known'
  OBVIOUS
<1>0. together' \in Nat
  BY CountStep DEF Known
<1> USE RetriesAssumption, BoundAssumption DEF Known, TypeOK, CallFacts, Rows, Ended, rowVars
<1>1. ASSUME NEW u \in Upload, Created(u)
      PROVE  Known'
  BY <1>1 DEF Created, Answered, Go, Attempt
<1>2. ASSUME NEW u \in Upload, Rejected(u)
      PROVE  Known'
  BY <1>2 DEF Rejected, Answered, Go
<1>3. ASSUME NEW u \in Upload, Errs(u)
      PROVE  Known'
  BY <1>3 DEF Errs, Answered, AttemptFailed, Go
<1>4. ASSUME NEW u \in Upload, TimesOut(u)
      PROVE  Known'
  BY <1>4 DEF TimesOut, Fault, AttemptFailed, Go
<1>5. ASSUME NEW u \in Upload, Resend(u)
      PROVE  Known'
  BY <1>5 DEF Resend, Send, Go, Attempt
<1>6. ASSUME NEW u \in Upload, HandleFile(u)
      PROVE  Known'
  BY <1>6 DEF HandleFile, Send, Go, Attempt
<1>7. ASSUME NEW u \in Upload, HandleFileFails(u)
      PROVE  Known'
  BY <1>7 DEF HandleFileFails, Go
<1>8. ASSUME NEW u \in Upload, HandleFileUnconfirmed(u)
      PROVE  Known'
  BY <1>8 DEF HandleFileUnconfirmed, Fault, Go
<1>9. ASSUME NEW u \in Upload, RemoveFile(u)
      PROVE  Known'
  BY <1>9 DEF RemoveFile, Go
<1>10. ASSUME NEW u \in Upload, RemoveFileFails(u)
       PROVE  Known'
  BY <1>10 DEF RemoveFileFails, Fault, Go
<1>11. CASE Crash
  BY <1>11 DEF Crash, Fault
<1>12. ASSUME NEW u \in Upload, NEW n \in Attempt, FindBy(u, n)
       PROVE  Known'
  <2>1. PICK s \in {"counted", "rejected"} :
           handler[u][n] = "sent" /\ handler' = [handler EXCEPT ![u][n] = s]
    BY <1>12 DEF FindBy, CountAgainst, Handle
  <2>2. UNCHANGED <<step, attempt, avatars, deleted, files, faults>>
    BY <1>12 DEF FindBy, CountAgainst, Handle
  <2> QED BY <1>0, <2>1, <2>2
<1>13. ASSUME NEW u \in Upload, NEW n \in Attempt, FindByRejects(u, n)
       PROVE  Known'
  BY <1>13 DEF FindByRejects, Handle
<1>14. ASSUME NEW u \in Upload, NEW n \in Attempt, Create(u, n)
       PROVE  Known'
  BY <1>14 DEF Create, Handle
<1>15. ASSUME NEW u \in Upload, NEW n \in Attempt, CallAborts(u, n)
       PROVE  Known'
  <2>1. CASE Handle(u, n, "sent", "error")
    BY <1>15, <2>1 DEF CallAborts, Handle
  <2>2. CASE Handle(u, n, "counted", "error")
    BY <1>15, <2>2 DEF CallAborts, Handle
  <2> QED BY <1>15, <2>1, <2>2 DEF CallAborts
<1>16. ASSUME NEW u \in Upload, DeleteAvatar(u)
       PROVE  Known'
  BY <1>16 DEF DeleteAvatar
<1>17. CASE UNCHANGED vars
  BY <1>17 DEF vars
<1> QED BY <1>1, <1>2, <1>3, <1>4, <1>5, <1>6, <1>7, <1>8, <1>9, <1>10, <1>11,
           <1>12, <1>13, <1>14, <1>15, <1>16, <1>17 DEF Next, Client, Server

-----------------------------------------------------------------------------
LEMMA ErrorMeansNoRow ==
    ASSUME Known, OneAttemptAtWork, NEW u \in Upload, Errs(u), faults' = 0
    PROVE  u \notin Rows
<1>1. /\ handler[u][attempt[u]] = "error" /\ faults = 0
      /\ attempt[u] \in Nat
  BY RetriesAssumption DEF Errs, Answered, Known, TypeOK
<1>2. ASSUME NEW n \in Attempt, handler[u][n] = "created"
      PROVE  FALSE
  <2>1. n \in Nat
    BY DEF Attempt
  <2>2. ~(n < attempt[u])
    BY <1>1, <1>2 DEF OneAttemptAtWork
  <2>3. ~(n > attempt[u])
    BY <1>2 DEF Known, CallFacts
  <2>4. n = attempt[u]
    BY <1>1, <2>1, <2>2, <2>3
  <2> QED BY <1>1, <1>2, <2>4
<1> QED BY <1>1, <1>2 DEF OneAttemptAtWork

LEMMA OneAttemptStep == Known /\ OneAttemptAtWork /\ [Next]_vars => OneAttemptAtWork'
<1> SUFFICES ASSUME Known, OneAttemptAtWork, [Next]_vars, faults' = 0
             PROVE  OneAttemptAtWork'
  BY DEF OneAttemptAtWork
<1> USE RetriesAssumption, BoundAssumption
    DEF Known, TypeOK, CallFacts, OneAttemptAtWork, Rows, Ended, rowVars
<1>1. ASSUME NEW u \in Upload, Created(u)
      PROVE  OneAttemptAtWork'
  BY <1>1 DEF Created, Answered, Go, Attempt
<1>2. ASSUME NEW u \in Upload, Rejected(u)
      PROVE  OneAttemptAtWork'
  BY <1>2, SMTT(30) DEF Rejected, Answered, Go, Attempt
<1>3. ASSUME NEW u \in Upload, Errs(u)
      PROVE  OneAttemptAtWork'
  <2>1. PICK s \in {"waiting", "removing"} : step' = [step EXCEPT ![u] = s]
    BY <1>3 DEF Errs, AttemptFailed, Go
  <2>2. /\ step[u] = "calling" /\ handler[u][attempt[u]] = "error"
        /\ UNCHANGED <<attempt, handler, avatars, deleted, files, faults>>
    BY <1>3 DEF Errs, Answered, AttemptFailed
  <2>3. u \notin Rows
    BY <1>3, ErrorMeansNoRow
  <2>4. \A v \in Upload : v # u => step'[v] = step[v]
    BY <2>1
  <2>5. step'[u] = s
    BY <2>1
  <2> QED BY <2>2, <2>3, <2>4, <2>5 DEF Attempt
<1>5. ASSUME NEW u \in Upload, Resend(u)
      PROVE  OneAttemptAtWork'
  BY <1>5 DEF Resend, Send, Go, Attempt
<1>6. ASSUME NEW u \in Upload, HandleFile(u)
      PROVE  OneAttemptAtWork'
  BY <1>6 DEF HandleFile, Send, Go, Attempt
<1>7. ASSUME NEW u \in Upload, HandleFileFails(u)
      PROVE  OneAttemptAtWork'
  BY <1>7 DEF HandleFileFails, Go, Attempt
<1>9. ASSUME NEW u \in Upload, RemoveFile(u)
      PROVE  OneAttemptAtWork'
  BY <1>9 DEF RemoveFile, Go, Attempt
<1>12. ASSUME NEW u \in Upload, NEW n \in Attempt, FindBy(u, n)
       PROVE  OneAttemptAtWork'
  BY <1>12, SMTT(30) DEF FindBy, CountAgainst, Handle, Attempt
<1>13. ASSUME NEW u \in Upload, NEW n \in Attempt, FindByRejects(u, n)
       PROVE  OneAttemptAtWork'
  BY <1>13 DEF FindByRejects, Handle, Attempt
<1>14. ASSUME NEW u \in Upload, NEW n \in Attempt, Create(u, n)
       PROVE  OneAttemptAtWork'
  BY <1>14 DEF Create, Handle, Attempt
<1>15. ASSUME NEW u \in Upload, NEW n \in Attempt, CallAborts(u, n)
       PROVE  OneAttemptAtWork'
  <2>1. CASE Handle(u, n, "sent", "error")
    BY <1>15, <2>1 DEF CallAborts, Handle, Attempt
  <2>2. CASE Handle(u, n, "counted", "error")
    BY <1>15, <2>2 DEF CallAborts, Handle, Attempt
  <2> QED BY <1>15, <2>1, <2>2 DEF CallAborts
<1>16. ASSUME NEW u \in Upload, DeleteAvatar(u)
       PROVE  OneAttemptAtWork'
  BY <1>16 DEF DeleteAvatar
<1>17. CASE UNCHANGED vars
  BY <1>17 DEF vars
<1>18. ~Fault
  <2> SUFFICES ASSUME faults' = faults + 1
               PROVE  FALSE
    BY DEF Fault
  <2>1. faults \in Nat
    BY DEF Known, TypeOK
  <2> QED BY <2>1
<1> QED BY <1>1, <1>2, <1>3, <1>5, <1>6, <1>7, <1>9, <1>12, <1>13, <1>14,
           <1>15, <1>16, <1>17, <1>18
        DEF Next, Client, Server, TimesOut, HandleFileUnconfirmed,
            RemoveFileFails, Crash

-----------------------------------------------------------------------------
(* Every reachable state satisfies the inductive invariant. *)
THEOREM Invariance == Spec => []IInv
<1>1. Init => Known
  BY RetriesAssumption, BoundAssumption
     DEF Init, Known, TypeOK, CallFacts, Rows, Ended, Attempt
<1>2. Init => OneAttemptAtWork
  BY RetriesAssumption DEF Init, OneAttemptAtWork, Rows, Ended, Attempt
<1>3. Init => CountFacts
  <2> SUFFICES ASSUME Init
               PROVE  CountFacts
    OBVIOUS
  <2>1. avatars = {} /\ Counted = {} /\ together = 0
    BY DEF Init, Counted
  <2> QED BY <2>1, FS_EmptySet, AvatarsAssumption DEF CountFacts
<1>4. Known /\ CountFacts /\ [Next]_vars => CountFacts'
  BY CountStep DEF Known
<1> QED BY <1>1, <1>2, <1>3, <1>4, KnownStep, OneAttemptStep, Parts, PTL DEF Spec

(* A client that got the avatar has its row and its file, whatever was lost
   and however many attempts of the same call were carried out. *)
THEOREM CreatedUploadsAreStored == Spec => []CreatedIsStored
<1>1. IInv => CreatedIsStored
  BY DEF IInv, CallFacts, CreatedIsStored
<1> QED BY <1>1, Invariance, PTL

(* While no answer is lost and nothing crashes, no upload leaves a file
   without its row or a row without its file: the compensation of
   file-service only ever removes the file of a row that was not written. *)
THEOREM FileAndRowStayTogether == Spec => []StoredTogether
<1>1. IInv => StoredTogether
  BY DEF IInv, TypeOK, CallFacts, OneAttemptAtWork, StoredTogether, Rows, Ended
<1> QED BY <1>1, Invariance, PTL

(* Every variable keeps its type. *)
THEOREM TypeCorrect == Spec => []TypeOK
<1>1. IInv => TypeOK
  BY DEF IInv
<1> QED BY <1>1, Invariance, PTL

(* The limit of avatars is exceeded by handlers that overlap only, and by no
   more than their number. *)
THEOREM OverlapBoundsExcess == Spec => []ExcessNeedsOverlap
<1>1. IInv => ExcessNeedsOverlap
  <2> SUFFICES ASSUME IInv
               PROVE  ExcessNeedsOverlap
    OBVIOUS
  <2>1. Cardinality(avatars) \in Nat /\ Cardinality(Counted) \in Nat
    BY FS_CardinalityType DEF IInv, CountFacts
  <2> QED BY <2>1, AvatarsAssumption DEF IInv, TypeOK, CountFacts, ExcessNeedsOverlap
<1> QED BY <1>1, Invariance, PTL
=============================================================================
