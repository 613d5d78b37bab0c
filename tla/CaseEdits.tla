------------------------------ MODULE CaseEdits ------------------------------
(***************************************************************************)
(* The writers of one case: PATCH and DELETE /api/cases/<slug>/            *)
(* (cases/api_views.py) and the reviewers who decide its update proposals  *)
(* (case_proposals/views.py, apply.py).                                    *)
(*                                                                         *)
(* What the case says is the set of edits it shows, in two parts that the  *)
(* code writes differently: the columns, which every PATCH rewrites from   *)
(* the snapshot it read, and the joins (entities, evidence, court cases,   *)
(* authors), which it rewrites only when an operation names them.  A       *)
(* transaction is modelled lock by lock; what it writes is seen at its     *)
(* commit, which is also when its row locks are released.                  *)
(***************************************************************************)
EXTENDS Naturals, Sequences, FiniteSets

CONSTANTS
  Patches,    \* PATCH requests
  Deletes,    \* DELETE requests
  Proposals,  \* pending proposals about the case
  Reviewers,  \* content staff who decide and correct proposals
  Guarded,    \* the PATCH requests that carry If-Match with a version (not *)
  Touches,    \* Patches \cup Proposals -> the parts an edit changes
  Target,     \* every edit -> the state it asks for, or NULL
  NewSlug,    \* Patches -> the slug it asks for, or NULL
  Slugs,
  FirstSlug,  \* the slug of the case at the start, the proposals' case_slug
  Intents,    \* the versions of an intent
  Drafted,    \* the version a proposal is filed with
  NULL

Edits     == Patches \cup Deletes \cup Proposals
Careless  == Patches \ Guarded
CaseState == {"DRAFT", "IN_REVIEW", "PUBLISHED", "CLOSED"}

ASSUME PartiesAssumption ==
  /\ Patches \cap Deletes = {} /\ Patches \cap Proposals = {} /\ Deletes \cap Proposals = {}
  /\ Guarded \subseteq Patches
  /\ Proposals # {}
ASSUME EditsAssumption ==
  /\ Touches \in [Edits -> SUBSET {"columns", "joins"}]
  /\ Target \in [Edits -> CaseState \cup {NULL}]
  /\ \A e \in Deletes \cup Proposals : Target[e] = NULL
  /\ NewSlug \in [Patches -> Slugs \cup {NULL}]
  /\ FirstSlug \in Slugs
  /\ Drafted \in Intents
  /\ NULL \notin CaseState \cup Slugs

VARIABLES
  \* The case
  row,       \* its committed row and joins; version is updated_at
  retired,   \* the slugs in CaseSlugHistory
  \* The proposals
  status,
  intent,
  \* The requests under way
  request,   \* per PATCH and DELETE: where it is and what it read
  review,    \* per reviewer: where the request is and what it read
  \* History
  made,      \* the edits committed
  applied,   \* per proposal: the intents applied to the case
  addressed  \* every slug the case has had

caseVars     == <<row, retired, addressed>>
proposalVars == <<status, intent, applied>>
vars         == <<caseVars, proposalVars, request, review, made>>

Case == [columns : SUBSET Edits, joins : SUBSET Edits, state : CaseState,
         slug : Slugs, version : Nat]

Requests == Patches \cup Deletes

Request == [at : {"idle", "editing", "reading", "ready", "locked", "done"}, read : Case]

ProposalStatus == {"PENDING", "APPROVED", "REJECTED"}

Review == [at : {"idle", "opened", "deciding", "applying"}, on : Proposals,
           seen : ProposalStatus, read : Case]

TypeOK ==
  /\ row \in Case
  /\ retired \in SUBSET Slugs
  /\ status \in [Proposals -> ProposalStatus]
  /\ intent \in [Proposals -> Intents]
  /\ request \in [Requests -> Request]
  /\ review \in [Reviewers -> Review]
  /\ made \in SUBSET Edits
  /\ applied \in [Proposals -> Seq(Intents)]
  /\ addressed \in SUBSET Slugs

NewCase == [columns |-> {}, joins |-> {}, state |-> "DRAFT", slug |-> FirstSlug, version |-> 0]

\* A request that is not under way has read nothing.
NoRequest == [at |-> "idle", read |-> NewCase]
NoReview  == [at |-> "idle", on |-> CHOOSE x \in Proposals : TRUE, seen |-> "PENDING",
              read |-> NewCase]

Init ==
  /\ row = NewCase
  /\ retired = {}
  /\ addressed = {FirstSlug}
  /\ status = [x \in Proposals |-> "PENDING"]
  /\ intent = [x \in Proposals |-> Drafted]
  /\ applied = [x \in Proposals |-> <<>>]
  /\ request = [r \in Requests |-> NoRequest]
  /\ review = [v \in Reviewers |-> NoReview]
  /\ made = {}

-----------------------------------------------------------------------------
\* Nobody's transaction holds the row lock of the case, of a proposal.
CaseIsFree ==
  /\ \A r \in Requests : request[r].at # "locked"
  /\ \A v \in Reviewers : review[v].at # "applying"

ProposalIsFree(x) ==
  \A v \in Reviewers : review[v].at \in {"deciding", "applying"} => review[v].on # x

\* The URL of the request, made from what the client read, finds the case.
Resolves(r) == row.slug = request[r].read.slug /\ row.state # "CLOSED"

\* A GET: the client has the case, its ETag and its URL.
Load(r) ==
  /\ r \in Patches /\ request[r].at = "idle"
  /\ row.state # "CLOSED"
  /\ request' = [request EXCEPT ![r] = [at |-> "editing", read |-> row]]
  /\ UNCHANGED <<caseVars, proposalVars, review, made>>

\* The request starts: get_object finds the case and _reject_before_patch
\* compares the ETag for the first time; a 404 or a 412 sends the client back
\* to the case.
ReadRow(r) ==
  /\ r \in Patches /\ request[r].at = "editing"
  /\ request' =
       [request EXCEPT ![r] =
          IF Resolves(r) /\ (r \in Guarded => request[r].read.version = row.version)
          THEN [at |-> "reading", read |-> row]
          ELSE NoRequest]
  /\ UNCHANGED <<caseVars, proposalVars, review, made>>

\* _build_snapshot reads the joins of the case after its row.
ReadJoins(r) ==
  /\ r \in Patches /\ request[r].at = "reading"
  /\ request' = [request EXCEPT ![r].at = "ready", ![r].read.joins = row.joins]
  /\ UNCHANGED <<caseVars, proposalVars, review, made>>

\* Mutant: only the first comparison is made.
Unchanged_since(r) == TRUE

\* The second comparison of the ETag, under the row lock.
Unchanged(r) == r \in Guarded => request[r].read.version = row.version

LockCase(r) ==
  /\ r \in Patches /\ request[r].at = "ready"
  /\ CaseIsFree
  /\ request' = [request EXCEPT ![r] = IF Unchanged(r) THEN [@ EXCEPT !.at = "locked"] ELSE NoRequest]
  /\ UNCHANGED <<caseVars, proposalVars, review, made>>

\* Mutant: when a slug is taken up again, the one given up is not recorded.
Record_forgetful(slugs, old, new) ==
  IF new \in slugs THEN slugs \ {new} ELSE slugs \cup {old}

\* CaseSlugHistory.record: a slug that is in use again leaves the history.
Record(slugs, old, new) ==
  IF old = new THEN slugs ELSE (slugs \ {new}) \cup {old}

\* The transitions the model methods accept.
MayMove(from, to) ==
  \/ to = from
  \/ to = "IN_REVIEW" /\ from = "DRAFT"
  \/ to = "PUBLISHED" /\ from \in {"DRAFT", "IN_REVIEW"}
  \/ to \in {"DRAFT", "CLOSED"}

\* The state a PATCH asks for: that of its snapshot unless it names another.
Desired(r) == IF Target[r] = NULL THEN request[r].read.state ELSE Target[r]
NextSlug(r) == IF NewSlug[r] = NULL THEN request[r].read.slug ELSE NewSlug[r]

\* Mutant: the case read before the lock is the one that is written.
StillOpen_before(r) == TRUE

\* The case is looked up once more, under the lock.
StillOpen(r) == Resolves(r)

\* Mutant: the path of an operation is written for its value.
Marks_path(e, part) == Touches[e] \cap {part}

\* What an edit puts into a part of the case.
Marks(e, part) == IF part \in Touches[e] THEN {e} ELSE {}

\* The rest of the transaction: every column from the snapshot, the joins the
\* operations name, then the transition.  save() refuses a transition out of
\* DRAFT together with a new slug.
WritePatch(r) ==
  LET snapshot == request[r].read IN
  /\ r \in Patches /\ request[r].at = "locked"
  /\ StillOpen(r)
  /\ MayMove(row.state, Desired(r))
  /\ Desired(r) \notin {row.state, "DRAFT"} => NextSlug(r) = row.slug
  /\ row' = [columns |-> snapshot.columns \cup Marks(r, "columns"),
             joins   |-> IF "joins" \in Touches[r] THEN snapshot.joins \cup {r} ELSE row.joins,
             state   |-> Desired(r),
             slug    |-> NextSlug(r),
             version |-> row.version + 1]
  /\ retired' = Record(retired, row.slug, NextSlug(r))
  /\ addressed' = addressed \cup {NextSlug(r)}
  /\ made' = made \cup {r}
  /\ request' = [request EXCEPT ![r] = [NoRequest EXCEPT !.at = "done"]]
  /\ UNCHANGED <<proposalVars, review>>

\* The transaction is rolled back: a 404 or a 422 inside it, or a crash.
AbortPatch(r) ==
  /\ r \in Patches /\ request[r].at = "locked"
  /\ request' = [request EXCEPT ![r] = NoRequest]
  /\ UNCHANGED <<caseVars, proposalVars, review, made>>

\* DELETE: destroy reads the case without a lock ...
ReadForDelete(r) ==
  /\ r \in Deletes /\ request[r].at = "idle"
  /\ row.state # "CLOSED"
  /\ request' = [request EXCEPT ![r] = [at |-> "ready", read |-> row]]
  /\ UNCHANGED <<caseVars, proposalVars, review, made>>

\* ... and saves all of it back, closed; the UPDATE waits for the row lock.
SaveClosed(r) ==
  /\ r \in Deletes /\ request[r].at = "ready"
  /\ CaseIsFree
  /\ row' = [columns |-> request[r].read.columns,
             joins   |-> row.joins,
             state   |-> "CLOSED",
             slug    |-> request[r].read.slug,
             version |-> row.version + 1]
  /\ made' = made \cup {r}
  /\ request' = [request EXCEPT ![r] = [NoRequest EXCEPT !.at = "done"]]
  /\ UNCHANGED <<retired, addressed, proposalVars, review>>

-----------------------------------------------------------------------------
\* A reviewer's request reaches get_object for a proposal.
Open(v, x) ==
  /\ review[v].at = "idle"
  /\ review' = [review EXCEPT ![v].at = "opened", ![v].on = x, ![v].seen = status[x]]
  /\ UNCHANGED <<caseVars, proposalVars, request, made>>

\* Mutant: the status the request loaded decides.
IsPending_loaded(v) == review[v].seen = "PENDING"

\* The status that decides is read under the row lock of the proposal.
IsPending(v) == status[review[v].on] = "PENDING"

\* approve, edit or reject of what is decided: a 409.
Conflict(v) ==
  /\ review[v].at = "opened"
  /\ ProposalIsFree(review[v].on) /\ ~IsPending(v)
  /\ review' = [review EXCEPT ![v] = NoReview]
  /\ UNCHANGED <<caseVars, proposalVars, request, made>>

Reject(v) ==
  LET x == review[v].on IN
  /\ review[v].at = "opened"
  /\ ProposalIsFree(x) /\ IsPending(v)
  /\ status' = [status EXCEPT ![x] = "REJECTED"]
  /\ review' = [review EXCEPT ![v] = NoReview]
  /\ UNCHANGED <<caseVars, intent, applied, request, made>>

EditIntent(v, i) ==
  LET x == review[v].on IN
  /\ review[v].at = "opened"
  /\ ProposalIsFree(x) /\ IsPending(v)
  /\ intent' = [intent EXCEPT ![x] = i]
  /\ review' = [review EXCEPT ![v] = NoReview]
  /\ UNCHANGED <<caseVars, status, applied, request, made>>

\* approve: the proposal is locked, then the case, then the intent is applied.
Approve(v) ==
  /\ review[v].at = "opened"
  /\ ProposalIsFree(review[v].on) /\ IsPending(v)
  /\ review' = [review EXCEPT ![v].at = "deciding"]
  /\ UNCHANGED <<caseVars, proposalVars, request, made>>

\* get_case_or_400 finds the case by the slug it had when the proposal was
\* filed.
TakeCase(v) ==
  /\ review[v].at = "deciding"
  /\ CaseIsFree
  /\ row.slug = FirstSlug
  /\ review' = [review EXCEPT ![v].at = "applying", ![v].read = row]
  /\ UNCHANGED <<caseVars, proposalVars, request, made>>

\* apply_intent writes what it read and its own change.
Apply(v) ==
  LET x == review[v].on IN
  /\ review[v].at = "applying"
  /\ row' = [columns |-> IF "columns" \in Touches[x] THEN review[v].read.columns \cup {x}
                                                     ELSE row.columns,
             joins   |-> row.joins \cup Marks(x, "joins"),
             state   |-> row.state,
             slug    |-> row.slug,
             version |-> row.version + 1]
  /\ status' = [status EXCEPT ![x] = "APPROVED"]
  /\ applied' = [applied EXCEPT ![x] = Append(@, intent[x])]
  /\ made' = made \cup {x}
  /\ review' = [review EXCEPT ![v] = NoReview]
  /\ UNCHANGED <<retired, addressed, intent, request>>

\* The transaction is rolled back: no case has the slug, the intent does not
\* fit the case, or a crash.  The proposal stays pending.
AbortApproval(v) ==
  /\ review[v].at \in {"deciding", "applying"}
  /\ review' = [review EXCEPT ![v] = NoReview]
  /\ UNCHANGED <<caseVars, proposalVars, request, made>>

-----------------------------------------------------------------------------
Next ==
  \/ \E r \in Patches : \/ Load(r) \/ ReadRow(r) \/ ReadJoins(r)
                        \/ LockCase(r) \/ WritePatch(r) \/ AbortPatch(r)
  \/ \E r \in Deletes : ReadForDelete(r) \/ SaveClosed(r)
  \/ \E v \in Reviewers :
       \/ \E x \in Proposals : Open(v, x)
       \/ \E i \in Intents : EditIntent(v, i)
       \/ Conflict(v) \/ Reject(v) \/ Approve(v) \/ TakeCase(v) \/ Apply(v) \/ AbortApproval(v)

Spec == Init /\ [][Next]_vars

-----------------------------------------------------------------------------
\* The edits the case shows: in every part they touch.
Shown ==
  {e \in made : /\ "columns" \in Touches[e] => e \in row.columns
                /\ "joins" \in Touches[e] => e \in row.joins}

Ledger == INSTANCE EditLedger WITH
  Closers <- Deletes, done <- made, inForce <- Shown, state <- row.state

\* An edit made with If-Match, and a proposal that is approved, takes effect
\* at once and whole on top of everything the case shows, loses nobody else's
\* edit, and moves the case only where it asks to (partial_update, _decide).
EditsAreAtomic == Ledger!Spec

\* A proposal's intent is applied exactly once when it is approved, never when
\* it is rejected or pending, and the record says what was applied (_decide
\* and edit_intent re-read the status under the lock).
DecisionsMatch ==
  \A x \in Proposals :
    applied[x] = IF status[x] = "APPROVED" THEN <<intent[x]>> ELSE <<>>

\* A case that is closed is never opened again, not even by a PATCH that read
\* it while it was open.
ClosedIsFinal == [][row.state = "CLOSED" => row'.state = "CLOSED"]_vars

\* Every address an open case ever had still leads to it, directly or by a
\* redirect, and its own address is no redirect (CaseSlugHistory.record).
OldAddressesLead ==
  row.state # "CLOSED" => addressed = retired \cup {row.slug} /\ row.slug \notin retired

-----------------------------------------------------------------------------
\* What the proofs rest on.

Locked(r)   == request[r].at = "locked"
Applying(v) == review[v].at = "applying"
Deciding(v) == review[v].at \in {"deciding", "applying"}

\* The row locks of the case and of each proposal have one holder.
CaseLock ==
  /\ \A r, q \in Requests : Locked(r) /\ Locked(q) => r = q
  /\ \A v, w \in Reviewers : Applying(v) /\ Applying(w) => v = w
  /\ \A r \in Requests, v \in Reviewers : ~(Locked(r) /\ Applying(v))

ProposalLock ==
  \A v, w \in Reviewers : Deciding(v) /\ Deciding(w) /\ review[v].on = review[w].on => v = w

\* What a PATCH has read is what the case says, unless the version has moved on.
ReadAgrees(r) ==
  LET read == request[r].read IN
  /\ read.version <= row.version
  /\ read.version = row.version =>
       /\ read.columns = row.columns /\ read.state = row.state /\ read.slug = row.slug
       /\ request[r].at \in {"ready", "locked"} => read.joins = row.joins

ReadsAgree ==
  \A r \in Patches : request[r].at \notin {"idle", "done"} => ReadAgrees(r)

\* Who holds a lock works on what is committed.
LockedIsCurrent ==
  /\ \A r \in Guarded : Locked(r) => request[r].read.version = row.version
  /\ \A r \in Deletes : ~Locked(r)
  /\ \A v \in Reviewers : Applying(v) => review[v].read = row
  /\ \A v \in Reviewers : Deciding(v) => status[review[v].on] = "PENDING"

\* Nobody makes an edit twice.
MadeOnce ==
  /\ \A r \in Requests : r \in made => request[r].at = "done"
  /\ \A x \in Proposals : x \in made => status[x] = "APPROVED"

IInv == /\ TypeOK /\ CaseLock /\ ProposalLock /\ ReadsAgree
        /\ LockedIsCurrent /\ MadeOnce /\ DecisionsMatch
=============================================================================
