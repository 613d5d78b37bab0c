--------------------------- MODULE CaseEditsProofs ---------------------------
(***************************************************************************)
(* Proofs about CaseEdits, for every set of requests, proposals, reviewers *)
(* and slugs: the decisions of the reviewers, and that the code implements *)
(* EditLedger.                                                             *)
(***************************************************************************)
EXTENDS CaseEdits, TLAPS

\* A request or review that is not under way is well typed.
LEMMA NewTypes ==
  /\ NewCase \in Case
  /\ NoRequest \in Request /\ [NoRequest EXCEPT !.at = "done"] \in Request
  /\ NoReview \in Review
  <1>1. NewCase \in Case
    BY EditsAssumption DEF NewCase, Case, CaseState
  <1>2. (CHOOSE x \in Proposals : TRUE) \in Proposals
    BY PartiesAssumption
  <1> QED
    BY <1>1, <1>2 DEF NoRequest, NoReview, Request, Review, ProposalStatus

LEMMA InitInv == Init => IInv
  <1> SUFFICES ASSUME Init PROVE IInv
    OBVIOUS
  <1> USE NewTypes, EditsAssumption, PartiesAssumption DEF Init
  <1>1. TypeOK
    BY DEF TypeOK, ProposalStatus
  <1>2. \A r \in Requests : request[r].at = "idle"
    BY DEF NoRequest
  <1>3. \A v \in Reviewers : review[v].at = "idle"
    BY DEF NoReview
  <1>4. CaseLock /\ ProposalLock
    BY <1>2, <1>3 DEF CaseLock, ProposalLock, Locked, Applying, Deciding
  <1>5. ReadsAgree
    BY <1>2 DEF ReadsAgree, Requests
  <1>6. LockedIsCurrent
    BY <1>2, <1>3 DEF LockedIsCurrent, Locked, Applying, Deciding, Requests
  <1>7. MadeOnce /\ DecisionsMatch
    BY DEF MadeOnce, DecisionsMatch
  <1> QED
    BY <1>1, <1>4, <1>5, <1>6, <1>7 DEF IInv

\* Every step preserves the type invariant.
LEMMA NextType == TypeOK /\ [Next]_vars => TypeOK'
  <1> SUFFICES ASSUME TypeOK, [Next]_vars PROVE TypeOK'
    OBVIOUS
  <1> USE NewTypes, EditsAssumption, PartiesAssumption
      DEF TypeOK, Requests, caseVars, proposalVars
  <1>1. ASSUME NEW r \in Patches, Load(r) PROVE TypeOK'
    BY <1>1 DEF Load, Request
  <1>2. ASSUME NEW r \in Patches, ReadRow(r) PROVE TypeOK'
    BY <1>2 DEF ReadRow, Request
  <1>3. ASSUME NEW r \in Patches, ReadJoins(r) PROVE TypeOK'
    <2>1. [request[r] EXCEPT !.at = "ready", !.read.joins = row.joins] \in Request
      BY DEF Request, Case
    <2> QED
      BY <1>3, <2>1 DEF ReadJoins
  <1>4. ASSUME NEW r \in Patches, LockCase(r) PROVE TypeOK'
    BY <1>4 DEF LockCase, Request
  <1>5. ASSUME NEW r \in Patches, WritePatch(r) PROVE TypeOK'
    <2>1. request[r].read \in Case
      BY DEF Request
    <2>2. NextSlug(r) \in Slugs /\ Desired(r) \in CaseState
      BY <2>1 DEF NextSlug, Desired, Case, Edits
    <2>3. Marks(r, "columns") \subseteq Edits /\ r \in Edits
      BY DEF Marks, Edits
    <2>4. row' \in Case
      BY <1>5, <2>1, <2>2, <2>3 DEF WritePatch, Case
    <2>5. retired' \in SUBSET Slugs /\ addressed' \in SUBSET Slugs
      BY <1>5, <2>2 DEF WritePatch, Record, Case
    <2> QED
      BY <1>5, <2>3, <2>4, <2>5 DEF WritePatch
  <1>6. ASSUME NEW r \in Patches, AbortPatch(r) PROVE TypeOK'
    BY <1>6 DEF AbortPatch
  <1>7. ASSUME NEW r \in Deletes, ReadForDelete(r) PROVE TypeOK'
    BY <1>7 DEF ReadForDelete, Request
  <1>8. ASSUME NEW r \in Deletes, SaveClosed(r) PROVE TypeOK'
    <2>1. request[r].read \in Case
      BY DEF Request
    <2>2. row' \in Case
      BY <1>8, <2>1 DEF SaveClosed, Case, CaseState
    <2> QED
      BY <1>8, <2>2 DEF SaveClosed, Edits
  <1>9. ASSUME NEW v \in Reviewers, NEW x \in Proposals, Open(v, x) PROVE TypeOK'
    BY <1>9 DEF Open, Review, ProposalStatus
  <1>10. ASSUME NEW v \in Reviewers, NEW i \in Intents, EditIntent(v, i) PROVE TypeOK'
    BY <1>10 DEF EditIntent, Review, ProposalStatus
  <1>11. ASSUME NEW v \in Reviewers, Conflict(v) \/ AbortApproval(v) PROVE TypeOK'
    <2>1. review' = [review EXCEPT ![v] = NoReview]
      BY <1>11 DEF Conflict, AbortApproval
    <2>2. review' \in [Reviewers -> Review]
      BY <2>1
    <2> QED
      BY <1>11, <2>2 DEF Conflict, AbortApproval
  <1>12. ASSUME NEW v \in Reviewers, Reject(v) PROVE TypeOK'
    BY <1>12 DEF Reject, Review, ProposalStatus
  <1>13. ASSUME NEW v \in Reviewers, Approve(v) PROVE TypeOK'
    BY <1>13 DEF Approve, Review, ProposalStatus
  <1>14. ASSUME NEW v \in Reviewers, TakeCase(v) PROVE TypeOK'
    BY <1>14 DEF TakeCase, Review, ProposalStatus
  <1>15. ASSUME NEW v \in Reviewers, Apply(v) PROVE TypeOK'
    <2> DEFINE x == review[v].on
    <2>1. x \in Proposals /\ x \in Edits /\ review[v].read \in Case
      BY DEF Edits, Review
    <2>2. row' \in Case
      BY <1>15, <2>1 DEF Apply, Case, Marks
    <2>3. applied' \in [Proposals -> Seq(Intents)]
      BY <1>15, <2>1 DEF Apply
    <2>4. status' \in [Proposals -> ProposalStatus]
      BY <1>15, <2>1 DEF Apply, ProposalStatus
    <2> QED
      BY <1>15, <2>1, <2>2, <2>3, <2>4 DEF Apply
  <1>16. CASE UNCHANGED vars
    BY <1>16 DEF vars
  <1> QED
    BY <1>1, <1>2, <1>3, <1>4, <1>5, <1>6, <1>7, <1>8, <1>9, <1>10, <1>11, <1>12, <1>13,
       <1>14, <1>15, <1>16 DEF Next

\* A lock is taken only when it is free.
LEMMA NextLocks == TypeOK /\ CaseLock /\ ProposalLock /\ [Next]_vars => (CaseLock /\ ProposalLock)'
  <1> SUFFICES ASSUME TypeOK /\ CaseLock /\ ProposalLock, [Next]_vars PROVE (CaseLock /\ ProposalLock)'
    OBVIOUS
  <1> USE PartiesAssumption DEF TypeOK, Requests, Request, Review, caseVars, proposalVars, NoRequest, NoReview,
             CaseLock, ProposalLock, Locked, Applying, Deciding, CaseIsFree, ProposalIsFree
  <1>1. ASSUME NEW r \in Patches, Load(r) PROVE (CaseLock /\ ProposalLock)'
    BY <1>1 DEF Load
  <1>2. ASSUME NEW r \in Patches, ReadRow(r) PROVE (CaseLock /\ ProposalLock)'
    BY <1>2 DEF ReadRow
  <1>3. ASSUME NEW r \in Patches, ReadJoins(r) PROVE (CaseLock /\ ProposalLock)'
    BY <1>3 DEF ReadJoins
  <1>4. ASSUME NEW r \in Patches, LockCase(r) PROVE (CaseLock /\ ProposalLock)'
    BY <1>4 DEF LockCase
  <1>5. ASSUME NEW r \in Patches, WritePatch(r) PROVE (CaseLock /\ ProposalLock)'
    BY <1>5 DEF WritePatch
  <1>6. ASSUME NEW r \in Patches, AbortPatch(r) PROVE (CaseLock /\ ProposalLock)'
    BY <1>6 DEF AbortPatch
  <1>7. ASSUME NEW r \in Deletes, ReadForDelete(r) PROVE (CaseLock /\ ProposalLock)'
    BY <1>7 DEF ReadForDelete
  <1>8. ASSUME NEW r \in Deletes, SaveClosed(r) PROVE (CaseLock /\ ProposalLock)'
    BY <1>8 DEF SaveClosed
  <1>9. ASSUME NEW v \in Reviewers, NEW x \in Proposals, Open(v, x) PROVE (CaseLock /\ ProposalLock)'
    BY <1>9 DEF Open
  <1>10. ASSUME NEW v \in Reviewers, NEW i \in Intents, EditIntent(v, i) PROVE (CaseLock /\ ProposalLock)'
    BY <1>10 DEF EditIntent
  <1>11. ASSUME NEW v \in Reviewers, Conflict(v) \/ AbortApproval(v) PROVE (CaseLock /\ ProposalLock)'
    <2>1. CASE Conflict(v)
      BY <2>1 DEF Conflict
    <2>2. CASE AbortApproval(v)
      BY <2>2 DEF AbortApproval
    <2> QED
      BY <1>11, <2>1, <2>2
  <1>12. ASSUME NEW v \in Reviewers, Reject(v) PROVE (CaseLock /\ ProposalLock)'
    BY <1>12 DEF Reject
  <1>13. ASSUME NEW v \in Reviewers, Approve(v) PROVE (CaseLock /\ ProposalLock)'
    BY <1>13 DEF Approve
  <1>14. ASSUME NEW v \in Reviewers, TakeCase(v) PROVE (CaseLock /\ ProposalLock)'
    BY <1>14 DEF TakeCase
  <1>15. ASSUME NEW v \in Reviewers, Apply(v) PROVE (CaseLock /\ ProposalLock)'
    BY <1>15 DEF Apply
  <1>16. CASE UNCHANGED vars
    BY <1>16 DEF vars
  <1> QED
    BY <1>1, <1>2, <1>3, <1>4, <1>5, <1>6, <1>7, <1>8,
       <1>9, <1>10, <1>11, <1>12, <1>13, <1>14, <1>15, <1>16 DEF Next

\* Every write of the row moves the version on.
LEMMA NextReads == TypeOK /\ ReadsAgree /\ [Next]_vars => ReadsAgree'
  <1> SUFFICES ASSUME TypeOK /\ ReadsAgree, [Next]_vars PROVE ReadsAgree'
    OBVIOUS
  <1> USE PartiesAssumption DEF TypeOK, Requests, Request, Review, caseVars, proposalVars, NoRequest, NoReview,
             ReadsAgree, ReadAgrees, Case
  <1>1. ASSUME NEW r \in Patches, Load(r) PROVE ReadsAgree'
    BY <1>1 DEF Load
  <1>2. ASSUME NEW r \in Patches, ReadRow(r) PROVE ReadsAgree'
    BY <1>2 DEF ReadRow
  <1>3. ASSUME NEW r \in Patches, ReadJoins(r) PROVE ReadsAgree'
    BY <1>3 DEF ReadJoins
  <1>4. ASSUME NEW r \in Patches, LockCase(r) PROVE ReadsAgree'
    BY <1>4 DEF LockCase
  <1>5. ASSUME NEW r \in Patches, WritePatch(r) PROVE ReadsAgree'
    BY <1>5 DEF WritePatch
  <1>6. ASSUME NEW r \in Patches, AbortPatch(r) PROVE ReadsAgree'
    BY <1>6 DEF AbortPatch
  <1>7. ASSUME NEW r \in Deletes, ReadForDelete(r) PROVE ReadsAgree'
    BY <1>7 DEF ReadForDelete
  <1>8. ASSUME NEW r \in Deletes, SaveClosed(r) PROVE ReadsAgree'
    BY <1>8 DEF SaveClosed
  <1>9. ASSUME NEW v \in Reviewers, NEW x \in Proposals, Open(v, x) PROVE ReadsAgree'
    BY <1>9 DEF Open
  <1>10. ASSUME NEW v \in Reviewers, NEW i \in Intents, EditIntent(v, i) PROVE ReadsAgree'
    BY <1>10 DEF EditIntent
  <1>11. ASSUME NEW v \in Reviewers, Conflict(v) \/ AbortApproval(v) PROVE ReadsAgree'
    <2>1. CASE Conflict(v)
      BY <2>1 DEF Conflict
    <2>2. CASE AbortApproval(v)
      BY <2>2 DEF AbortApproval
    <2> QED
      BY <1>11, <2>1, <2>2
  <1>12. ASSUME NEW v \in Reviewers, Reject(v) PROVE ReadsAgree'
    BY <1>12 DEF Reject
  <1>13. ASSUME NEW v \in Reviewers, Approve(v) PROVE ReadsAgree'
    BY <1>13 DEF Approve
  <1>14. ASSUME NEW v \in Reviewers, TakeCase(v) PROVE ReadsAgree'
    BY <1>14 DEF TakeCase
  <1>15. ASSUME NEW v \in Reviewers, Apply(v) PROVE ReadsAgree'
    BY <1>15 DEF Apply
  <1>16. CASE UNCHANGED vars
    BY <1>16 DEF vars
  <1> QED
    BY <1>1, <1>2, <1>3, <1>4, <1>5, <1>6, <1>7, <1>8,
       <1>9, <1>10, <1>11, <1>12, <1>13, <1>14, <1>15, <1>16 DEF Next

\* While a lock is held nobody else writes.
LEMMA NextCurrent == IInv /\ [Next]_vars => LockedIsCurrent'
  <1> SUFFICES ASSUME IInv, [Next]_vars PROVE LockedIsCurrent'
    OBVIOUS
  <1> USE PartiesAssumption DEF TypeOK, Requests, Request, Review, caseVars, proposalVars, NoRequest, NoReview,
             IInv, CaseLock, ProposalLock, LockedIsCurrent, Locked, Applying, Deciding, CaseIsFree, ProposalIsFree,
             Unchanged, IsPending
  <1>1. ASSUME NEW r \in Patches, Load(r) PROVE LockedIsCurrent'
    BY <1>1 DEF Load
  <1>2. ASSUME NEW r \in Patches, ReadRow(r) PROVE LockedIsCurrent'
    BY <1>2 DEF ReadRow
  <1>3. ASSUME NEW r \in Patches, ReadJoins(r) PROVE LockedIsCurrent'
    BY <1>3 DEF ReadJoins
  <1>4. ASSUME NEW r \in Patches, LockCase(r) PROVE LockedIsCurrent'
    BY <1>4 DEF LockCase
  <1>5. ASSUME NEW r \in Patches, WritePatch(r) PROVE LockedIsCurrent'
    BY <1>5 DEF WritePatch
  <1>6. ASSUME NEW r \in Patches, AbortPatch(r) PROVE LockedIsCurrent'
    BY <1>6 DEF AbortPatch
  <1>7. ASSUME NEW r \in Deletes, ReadForDelete(r) PROVE LockedIsCurrent'
    BY <1>7 DEF ReadForDelete
  <1>8. ASSUME NEW r \in Deletes, SaveClosed(r) PROVE LockedIsCurrent'
    BY <1>8 DEF SaveClosed
  <1>9. ASSUME NEW v \in Reviewers, NEW x \in Proposals, Open(v, x) PROVE LockedIsCurrent'
    BY <1>9 DEF Open
  <1>10. ASSUME NEW v \in Reviewers, NEW i \in Intents, EditIntent(v, i) PROVE LockedIsCurrent'
    BY <1>10 DEF EditIntent
  <1>11. ASSUME NEW v \in Reviewers, Conflict(v) \/ AbortApproval(v) PROVE LockedIsCurrent'
    <2>1. CASE Conflict(v)
      BY <2>1 DEF Conflict
    <2>2. CASE AbortApproval(v)
      BY <2>2 DEF AbortApproval
    <2> QED
      BY <1>11, <2>1, <2>2
  <1>12. ASSUME NEW v \in Reviewers, Reject(v) PROVE LockedIsCurrent'
    BY <1>12 DEF Reject
  <1>13. ASSUME NEW v \in Reviewers, Approve(v) PROVE LockedIsCurrent'
    BY <1>13 DEF Approve
  <1>14. ASSUME NEW v \in Reviewers, TakeCase(v) PROVE LockedIsCurrent'
    BY <1>14 DEF TakeCase
  <1>15. ASSUME NEW v \in Reviewers, Apply(v) PROVE LockedIsCurrent'
    BY <1>15 DEF Apply
  <1>16. CASE UNCHANGED vars
    BY <1>16 DEF vars
  <1> QED
    BY <1>1, <1>2, <1>3, <1>4, <1>5, <1>6, <1>7, <1>8,
       <1>9, <1>10, <1>11, <1>12, <1>13, <1>14, <1>15, <1>16 DEF Next

\* A request ends with the edit it makes, an approval with its decision.
LEMMA NextMade == IInv /\ [Next]_vars => (MadeOnce /\ DecisionsMatch)'
  <1> SUFFICES ASSUME IInv, [Next]_vars PROVE (MadeOnce /\ DecisionsMatch)'
    OBVIOUS
  <1> USE PartiesAssumption DEF TypeOK, Requests, Request, Review, caseVars, proposalVars, NoRequest, NoReview,
             IInv, ProposalLock, LockedIsCurrent, Deciding, MadeOnce, DecisionsMatch, IsPending, ProposalIsFree
  <1>1. ASSUME NEW r \in Patches, Load(r) PROVE (MadeOnce /\ DecisionsMatch)'
    BY <1>1 DEF Load
  <1>2. ASSUME NEW r \in Patches, ReadRow(r) PROVE (MadeOnce /\ DecisionsMatch)'
    BY <1>2 DEF ReadRow
  <1>3. ASSUME NEW r \in Patches, ReadJoins(r) PROVE (MadeOnce /\ DecisionsMatch)'
    BY <1>3 DEF ReadJoins
  <1>4. ASSUME NEW r \in Patches, LockCase(r) PROVE (MadeOnce /\ DecisionsMatch)'
    BY <1>4 DEF LockCase
  <1>5. ASSUME NEW r \in Patches, WritePatch(r) PROVE (MadeOnce /\ DecisionsMatch)'
    BY <1>5 DEF WritePatch
  <1>6. ASSUME NEW r \in Patches, AbortPatch(r) PROVE (MadeOnce /\ DecisionsMatch)'
    BY <1>6 DEF AbortPatch
  <1>7. ASSUME NEW r \in Deletes, ReadForDelete(r) PROVE (MadeOnce /\ DecisionsMatch)'
    BY <1>7 DEF ReadForDelete
  <1>8. ASSUME NEW r \in Deletes, SaveClosed(r) PROVE (MadeOnce /\ DecisionsMatch)'
    BY <1>8 DEF SaveClosed
  <1>9. ASSUME NEW v \in Reviewers, NEW x \in Proposals, Open(v, x) PROVE (MadeOnce /\ DecisionsMatch)'
    BY <1>9 DEF Open
  <1>10. ASSUME NEW v \in Reviewers, NEW i \in Intents, EditIntent(v, i) PROVE (MadeOnce /\ DecisionsMatch)'
    BY <1>10 DEF EditIntent
  <1>11. ASSUME NEW v \in Reviewers, Conflict(v) \/ AbortApproval(v) PROVE (MadeOnce /\ DecisionsMatch)'
    <2>1. CASE Conflict(v)
      BY <2>1 DEF Conflict
    <2>2. CASE AbortApproval(v)
      BY <2>2 DEF AbortApproval
    <2> QED
      BY <1>11, <2>1, <2>2
  <1>12. ASSUME NEW v \in Reviewers, Reject(v) PROVE (MadeOnce /\ DecisionsMatch)'
    BY <1>12 DEF Reject
  <1>13. ASSUME NEW v \in Reviewers, Approve(v) PROVE (MadeOnce /\ DecisionsMatch)'
    BY <1>13 DEF Approve
  <1>14. ASSUME NEW v \in Reviewers, TakeCase(v) PROVE (MadeOnce /\ DecisionsMatch)'
    BY <1>14 DEF TakeCase
  <1>15. ASSUME NEW v \in Reviewers, Apply(v) PROVE (MadeOnce /\ DecisionsMatch)'
    <2> DEFINE x == review[v].on
    <2>1. x \in Proposals /\ status[x] = "PENDING"
      BY <1>15 DEF Apply
    <2>2. /\ applied' = [applied EXCEPT ![x] = Append(@, intent[x])] /\ intent' = intent
          /\ status' = [status EXCEPT ![x] = "APPROVED"] /\ made' = made \cup {x}
          /\ request' = request
      BY <1>15 DEF Apply
    <2>3. applied[x] = <<>>
      BY <2>1
    <2>4. applied'[x] = <<intent[x]>>
      BY <2>1, <2>2, <2>3
    <2>5. DecisionsMatch'
      BY <2>1, <2>2, <2>4
    <2>6. MadeOnce'
      BY <2>1, <2>2
    <2> QED
      BY <2>5, <2>6
  <1>16. CASE UNCHANGED vars
    BY <1>16 DEF vars
  <1> QED
    BY <1>1, <1>2, <1>3, <1>4, <1>5, <1>6, <1>7, <1>8,
       <1>9, <1>10, <1>11, <1>12, <1>13, <1>14, <1>15, <1>16 DEF Next

\* The invariant is inductive.
LEMMA NextInv == IInv /\ [Next]_vars => IInv'
  BY NextType, NextLocks, NextReads, NextCurrent, NextMade DEF IInv

\* Every state of every behaviour is well typed.
THEOREM TypeCorrect == Spec => []TypeOK
  <1>1. IInv => TypeOK
    BY DEF IInv
  <1> QED
    BY <1>1, InitInv, NextInv, PTL DEF Spec

\* However many reviewers decide and correct a proposal at the same time, its
\* intent reaches the case once if it is approved, never otherwise, and the
\* record says what was applied.
THEOREM DecisionsAlwaysMatch == Spec => []DecisionsMatch
  <1>1. IInv => DecisionsMatch
    BY DEF IInv
  <1> QED
    BY <1>1, InitInv, NextInv, PTL DEF Spec

-----------------------------------------------------------------------------
\* A PATCH that wrote is an edit of the ledger: on top of everything shown when
\* it is guarded, because what it read is then what is committed.
LEMMA PatchMakes ==
  ASSUME IInv, NEW r \in Patches, WritePatch(r)
  PROVE  Ledger!Make(r)
  <1> USE PartiesAssumption DEF Requests
  <1> DEFINE read == request[r].read
  <1>1. /\ r \in Edits /\ r \in Requests /\ request[r].at = "locked"
        /\ row \in Case /\ read \in Case
    BY DEF IInv, TypeOK, Request, WritePatch, Edits
  <1>2. r \notin made
    BY <1>1 DEF IInv, MadeOnce
  <1>3. made' = made \cup {r}
    BY DEF WritePatch
  <1>4. CASE r \in Careless
    <2>1. row.state # "CLOSED" /\ row'.state \in CaseState
      BY <1>1, EditsAssumption DEF WritePatch, StillOpen, Resolves, Desired, Case, Edits
    <2>2. Shown' \subseteq made'
      BY DEF Shown
    <2>3. CaseState = Ledger!CaseState
      BY DEF CaseState, Ledger!CaseState
    <2> QED
      BY <1>2, <1>3, <1>4, <2>1, <2>2, <2>3 DEF Ledger!Make, Ledger!Overwrite
  <1>5. CASE r \notin Careless
    <2>1. r \in Guarded /\ r \notin Careless \cup Deletes
      BY <1>5 DEF Careless
    <2>2. read.version = row.version
      BY <1>1, <2>1 DEF IInv, LockedIsCurrent, Locked
    <2>3. read.columns = row.columns /\ read.joins = row.joins /\ read.state = row.state
      BY <1>1, <2>2 DEF IInv, ReadsAgree, ReadAgrees
    <2>4. /\ row'.columns = row.columns \cup Marks(r, "columns")
          /\ row'.joins = row.joins \cup Marks(r, "joins")
          /\ row'.state = IF Target[r] = NULL THEN row.state ELSE Target[r]
      BY <2>3 DEF WritePatch, Desired, Marks
    <2>5. Shown' = Shown \cup {r}
      BY <1>2, <1>3, <2>4 DEF Shown, Marks
    <2> QED
      BY <1>2, <1>3, <2>1, <2>4, <2>5 DEF Ledger!Make, Ledger!Amend
  <1> QED
    BY <1>4, <1>5

\* So is an approval: the row it writes back is the one it locked.
LEMMA ApprovalMakes ==
  ASSUME IInv, NEW v \in Reviewers, Apply(v)
  PROVE  \E e \in Edits : Ledger!Make(e)
  <1> USE PartiesAssumption DEF Requests
  <1> DEFINE x == review[v].on
  <1>1. x \in Proposals /\ x \in Edits /\ status[x] = "PENDING" /\ review[v].read = row
    BY DEF IInv, TypeOK, Review, LockedIsCurrent, Applying, Deciding, Apply, Edits
  <1>2. x \notin made /\ x \notin Careless \cup Deletes /\ Target[x] = NULL
    BY <1>1, EditsAssumption DEF IInv, MadeOnce, Careless
  <1>3. /\ made' = made \cup {x} /\ row'.state = row.state
        /\ row'.columns = row.columns \cup Marks(x, "columns")
        /\ row'.joins = row.joins \cup Marks(x, "joins")
    BY <1>1 DEF Apply, Marks
  <1>4. Shown' = Shown \cup {x}
    BY <1>2, <1>3 DEF Shown, Marks
  <1>5. Ledger!Make(x)
    BY <1>2, <1>3, <1>4 DEF Ledger!Make, Ledger!Amend
  <1> QED
    BY <1>1, <1>5

LEMMA DeleteMakes ==
  ASSUME IInv, NEW r \in Deletes, SaveClosed(r)
  PROVE  Ledger!Make(r)
  <1>1. r \in Requests /\ request[r].at = "ready"
    BY DEF SaveClosed, Requests
  <1>2. r \notin made
    BY <1>1 DEF IInv, MadeOnce
  <1>3. made' = made \cup {r} /\ row'.state = "CLOSED"
    BY DEF SaveClosed
  <1>4. Shown' \subseteq made'
    BY DEF Shown
  <1> QED
    BY <1>2, <1>3, <1>4 DEF Ledger!Make, Ledger!Withdraw

\* Whatever is read, locked and abandoned, careful edits take effect at once,
\* whole, and lose nobody's: the code implements the ledger.
THEOREM EditsImplementLedger == Spec => EditsAreAtomic
  <1>1. Init => Ledger!Init
    BY DEF Init, Ledger!Init, Shown, NewCase
  <1>2. IInv /\ [Next]_vars => [Ledger!Next]_<<made, Shown, row.state>>
    <2> SUFFICES ASSUME IInv, [Next]_vars
                 PROVE  Ledger!Next \/ UNCHANGED <<made, Shown, row.state>>
      OBVIOUS
    <2>1. ASSUME NEW r \in Patches, WritePatch(r) PROVE Ledger!Next
      BY <2>1, PatchMakes DEF Ledger!Next, Edits
    <2>2. ASSUME NEW r \in Deletes, SaveClosed(r) PROVE Ledger!Next
      BY <2>2, DeleteMakes DEF Ledger!Next, Edits
    <2>3. ASSUME NEW v \in Reviewers, Apply(v) PROVE Ledger!Next
      BY <2>3, ApprovalMakes DEF Ledger!Next
    <2>4. CASE UNCHANGED <<row, made>>
      BY <2>4 DEF Shown
    <2> QED
      BY <2>1, <2>2, <2>3, <2>4
      DEF Next, Load, ReadRow, ReadJoins, LockCase, AbortPatch, ReadForDelete, Open, EditIntent,
          Conflict, Reject, Approve, TakeCase, AbortApproval, vars, caseVars, proposalVars
  <1> QED
    BY <1>1, <1>2, InitInv, NextInv, PTL DEF Spec, EditsAreAtomic, Ledger!Spec

\* A deleted case stays deleted, whoever read it before.
THEOREM ClosedStaysClosed == Spec => ClosedIsFinal
  <1>1. [Next]_vars => [row.state = "CLOSED" => row'.state = "CLOSED"]_vars
    <2> SUFFICES ASSUME [Next]_vars, row.state = "CLOSED" PROVE row'.state = "CLOSED"
      BY DEF vars, caseVars
    <2>1. ASSUME NEW r \in Patches, WritePatch(r) PROVE FALSE
      BY <2>1 DEF WritePatch, StillOpen, Resolves
    <2>2. ASSUME NEW r \in Deletes, SaveClosed(r) PROVE row'.state = "CLOSED"
      BY <2>2 DEF SaveClosed
    <2>3. ASSUME NEW v \in Reviewers, Apply(v) PROVE row'.state = "CLOSED"
      BY <2>3 DEF Apply
    <2> QED
      BY <2>1, <2>2, <2>3
      DEF Next, Load, ReadRow, ReadJoins, LockCase, AbortPatch, ReadForDelete, Open, EditIntent,
          Conflict, Reject, Approve, TakeCase, AbortApproval, vars, caseVars
  <1> QED
    BY <1>1, PTL DEF Spec, ClosedIsFinal

\* The slug history is complete while the case is open.
THEOREM AddressesAlwaysLead == Spec => []OldAddressesLead
  <1>1. Init => OldAddressesLead
    BY DEF Init, OldAddressesLead, NewCase
  <1>2. OldAddressesLead /\ [Next]_vars => OldAddressesLead'
    <2> SUFFICES ASSUME OldAddressesLead, [Next]_vars PROVE OldAddressesLead'
      OBVIOUS
    <2> USE DEF OldAddressesLead
    <2>1. ASSUME NEW r \in Patches, WritePatch(r) PROVE OldAddressesLead'
      BY <2>1 DEF WritePatch, StillOpen, Resolves, Record
    <2>2. ASSUME NEW r \in Deletes, SaveClosed(r) PROVE OldAddressesLead'
      BY <2>2 DEF SaveClosed
    <2>3. ASSUME NEW v \in Reviewers, Apply(v) PROVE OldAddressesLead'
      BY <2>3 DEF Apply
    <2>4. CASE UNCHANGED caseVars
      BY <2>4 DEF caseVars
    <2> QED
      BY <2>1, <2>2, <2>3, <2>4
      DEF Next, Load, ReadRow, ReadJoins, LockCase, AbortPatch, ReadForDelete, Open, EditIntent,
          Conflict, Reject, Approve, TakeCase, AbortApproval, vars
  <1> QED
    BY <1>1, <1>2, PTL DEF Spec
=============================================================================
