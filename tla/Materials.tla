------------------------------- MODULE Materials -------------------------------
(***************************************************************************)
(* One material: its row in the ngm database, the cases that cite it in    *)
(* the default database, the writers of its document (PUT and PATCH, the   *)
(* uploads that append files, the conversion jobs that put a transcript    *)
(* into it: materials/views.py, materials/conversion.py), and the calls    *)
(* and the periodic pass that derive its visibility from the cases         *)
(* (materials/visibility.py).                                              *)
(*                                                                         *)
(* The document is the set of what it links: files, and a transcript.  An  *)
(* editor writes only links that the document has had.                     *)
(***************************************************************************)
EXTENDS Naturals, FiniteSets

CONSTANTS
  Cases,        \* the cases that cite it
  CaseStates,   \* the states they are moved to
  Uploads,      \* upload requests, each with a file of its own
  Jobs,         \* bound: conversion jobs
  Calls,        \* bound: recompute calls under way at a time
  TRANSCRIPT,   \* what a conversion adds to the document
  NULL,
  MaxEdits      \* bound: moves of cases, PUTs, PATCHes and deletions

ASSUME StatesAssumption == CaseStates \subseteq {"DRAFT", "IN_REVIEW", "PUBLISHED", "CLOSED"}
ASSUME DistinctAssumption ==
  /\ TRANSCRIPT \notin Uploads
  /\ NULL \notin Jobs \cup {"patch"} /\ "patch" \notin Jobs
  /\ MaxEdits \in Nat

VARIABLES
  row,          \* the material
  lock,         \* who holds its row lock across more than one statement
  caseState,
  edits,
  call,         \* recompute_material_visibility, call by call
  pass,         \* recompute_all
  patch,        \* a PATCH of the document, its policy or both
  upload,
  job,
  stored,       \* history: all that was ever linked by the document
  givenUp       \* history: what an upload wrote over, a PUT left out or a PATCH took away

editVars == <<caseState, edits>>
history  == <<stored, givenUp>>
docVars  == <<upload, job, history>>
vars     == <<row, lock, editVars, call, pass, patch, docVars>>

Policy     == {"PUBLIC", "PRIVATE", "CASE_GATED"}
Visibility == {"PRIVATE", "UNLISTED", "LISTED"}
Contents   == SUBSET (Uploads \cup {TRANSCRIPT})

IdleCall  == [at |-> "idle", policy |-> NULL, seen |-> NULL, due |-> NULL]
IdlePass  == [at |-> "idle", states |-> NULL, due |-> NULL]
IdlePatch == [at |-> "idle", policy |-> NULL, due |-> NULL, doc |-> {}, gone |-> {}]

Call   == [at : {"idle", "owed", "row", "ready"}, policy : Policy \cup {NULL},
           seen : Visibility \cup {NULL}, due : Visibility \cup {NULL}]
Pass   == [at : {"idle", "pairs", "rows"}, states : [Cases -> CaseStates] \cup {NULL},
           due : Visibility \cup {NULL}]
Patch  == [at : {"idle", "locked"}, policy : Policy \cup {NULL}, due : Visibility \cup {NULL},
           doc : Contents, gone : Contents]
Material == [deleted : BOOLEAN, policy : Policy, visibility : Visibility, doc : Contents]
Upload   == [at : {"idle", "read", "written", "done"}, doc : Contents]
JobRow == [at : {"free", "queued", "running", "answered", "converted", "locked", "applied",
                 "over", "left"},
           result : {"none", "text", "scrubbed"}, doc : Contents]

TypeOK ==
  /\ row \in Material
  /\ lock \in {NULL, "patch"} \cup Jobs
  /\ caseState \in [Cases -> CaseStates]
  /\ edits \in 0..MaxEdits
  /\ call \in [Calls -> Call]
  /\ pass \in Pass
  /\ patch \in Patch
  /\ upload \in [Uploads -> Upload]
  /\ job \in [Jobs -> JobRow]
  /\ stored \in Contents /\ givenUp \in Contents

-----------------------------------------------------------------------------
Confers(state) == CASE state = "PUBLISHED" -> "LISTED"
                    [] state = "IN_REVIEW" -> "UNLISTED"
                    [] OTHER -> "PRIVATE"

\* visibility_for_states: the maximum over the citing cases.
ForStates(states) ==
  LET conferred == {Confers(states[c]) : c \in Cases} IN
  IF "LISTED" \in conferred THEN "LISTED"
  ELSE IF "UNLISTED" \in conferred THEN "UNLISTED" ELSE "PRIVATE"

\* visibility_for_policy
Due(policy, states) == CASE policy = "PUBLIC" -> "LISTED"
                         [] policy = "PRIVATE" -> "PRIVATE"
                         [] OTHER -> ForStates(states)

Init ==
  /\ caseState \in [Cases -> CaseStates]
  /\ row = [deleted |-> FALSE, policy |-> "CASE_GATED", visibility |-> ForStates(caseState),
            doc |-> {}]
  /\ lock = NULL
  /\ edits = 0
  /\ call = [c \in Calls |-> IdleCall]
  /\ pass = IdlePass
  /\ patch = IdlePatch
  /\ upload = [u \in Uploads |-> [at |-> "idle", doc |-> {}]]
  /\ job = [j \in Jobs |-> [at |-> "free", result |-> "none", doc |-> {}]]
  /\ stored = {}
  /\ givenUp = {}

\* Mutant: atomic() opens its transaction on the other database, so that the
\* row is not locked.
RowIsFree_default == TRUE

\* select_for_update, and every UPDATE, waits for the row lock.
RowIsFree == lock = NULL

\* A write owes a recompute, which runs after its commit, or is lost with the
\* process or in an error that is swallowed.
Owes == \/ UNCHANGED call
        \/ \E c \in Calls : /\ call[c].at = "idle"
                            /\ call' = [call EXCEPT ![c].at = "owed"]

-----------------------------------------------------------------------------
\* A caseworker moves a case: the states are in another database.
CaseMoves(c, state) ==
  /\ edits < MaxEdits
  /\ edits' = edits + 1
  /\ caseState[c] \notin {state, "CLOSED"}
  /\ caseState' = [caseState EXCEPT ![c] = state]
  /\ Owes
  /\ UNCHANGED <<row, lock, pass, patch, docVars>>

\* recompute_material_visibility reads the row, then the states, then saves.
CallReadsRow(c) ==
  /\ call[c].at = "owed"
  /\ call' = [call EXCEPT ![c] = IF row.deleted THEN IdleCall
                                 ELSE [IdleCall EXCEPT !.at = "row", !.policy = row.policy,
                                                       !.seen = row.visibility]]
  /\ UNCHANGED <<row, lock, editVars, pass, patch, docVars>>

CallReadsStates(c) ==
  /\ call[c].at = "row"
  /\ LET due == Due(call[c].policy, caseState) IN
     call' = [call EXCEPT ![c] = IF due = call[c].seen THEN IdleCall
                                 ELSE [IdleCall EXCEPT !.at = "ready", !.due = due]]
  /\ UNCHANGED <<row, lock, editVars, pass, patch, docVars>>

CallSaves(c) ==
  /\ call[c].at = "ready"
  /\ RowIsFree
  /\ row' = [row EXCEPT !.visibility = call[c].due]
  /\ call' = [call EXCEPT ![c] = IdleCall]
  /\ UNCHANGED <<lock, editVars, pass, patch, docVars>>

\* recompute_all reads all pairs, then all live rows ...
PassReadsPairs ==
  /\ pass.at = "idle"
  /\ pass' = [IdlePass EXCEPT !.at = "pairs", !.states = caseState]
  /\ UNCHANGED <<row, lock, editVars, call, patch, docVars>>

\* Mutant: only the rows whose policy looks at the cases are scanned.
Scanned_gated == ~row.deleted /\ row.policy = "CASE_GATED"

Scanned == ~row.deleted

PassReadsRows ==
  LET due == Due(row.policy, pass.states) IN
  /\ pass.at = "pairs"
  /\ pass' = IF Scanned /\ due # row.visibility
             THEN [IdlePass EXCEPT !.at = "rows", !.due = due]
             ELSE IdlePass
  /\ UNCHANGED <<row, lock, editVars, call, patch, docVars>>

\* ... and writes the rows that differ from what it read.
PassUpdates ==
  /\ pass.at = "rows"
  /\ RowIsFree
  /\ row' = [row EXCEPT !.visibility = pass.due]
  /\ pass' = IdlePass
  /\ UNCHANGED <<lock, editVars, call, patch, docVars>>

\* _patch_material, under the row lock: the operations may touch the links as any
\* other key, or leave them; If-Match may refuse it, without effect.  A policy
\* comes with the visibility it confers, from states that are not locked.
PatchLocks(policy, doc) ==
  /\ edits < MaxEdits
  /\ edits' = edits + 1
  /\ patch.at = "idle"
  /\ RowIsFree
  /\ ~row.deleted
  /\ patch' = [at |-> "locked", policy |-> policy,
               due |-> IF policy = NULL THEN NULL ELSE Due(policy, caseState),
               doc |-> doc, gone |-> row.doc \ doc]
  /\ lock' = "patch"
  /\ UNCHANGED <<row, caseState, call, pass, docVars>>

\* One save for all of it.
PatchSaves ==
  /\ patch.at = "locked"
  /\ row' = [row EXCEPT !.policy = IF patch.policy = NULL THEN @ ELSE patch.policy,
                        !.visibility = IF patch.policy = NULL THEN @ ELSE patch.due,
                        !.doc = patch.doc]
  /\ givenUp' = (givenUp \cup patch.gone) \ patch.doc
  /\ patch' = IdlePatch
  /\ lock' = NULL
  /\ UNCHANGED <<editVars, call, pass, upload, job, stored>>

\* PUT, POST and the ingests: the document is replaced by the client's, the row
\* revived, the policy set when one is given.
Put(policy, doc) ==
  /\ edits < MaxEdits
  /\ edits' = edits + 1
  /\ RowIsFree
  /\ row' = [row EXCEPT !.deleted = FALSE, !.doc = doc,
                        !.policy = IF policy = NULL THEN @ ELSE policy]
  /\ givenUp' = (givenUp \cup row.doc) \ doc
  /\ Owes
  /\ UNCHANGED <<lock, caseState, pass, patch, upload, job, stored>>

SoftDelete ==
  /\ edits < MaxEdits
  /\ edits' = edits + 1
  /\ RowIsFree
  /\ ~row.deleted
  /\ row' = [row EXCEPT !.deleted = TRUE]
  /\ UNCHANGED <<lock, caseState, call, pass, patch, docVars>>

-----------------------------------------------------------------------------
\* material_file_upload copies the document, unlocked, ...
UploadReads(u) ==
  /\ upload[u].at = "idle"
  /\ upload' = [upload EXCEPT ![u] = [at |-> "read", doc |-> IF row.deleted THEN {} ELSE row.doc]]
  /\ UNCHANGED <<row, lock, editVars, call, pass, patch, job, history>>

\* ... stores the file and replaces the whole document, reviving the row.
UploadWrites(u) ==
  LET doc == upload[u].doc \cup {u} IN
  /\ upload[u].at = "read"
  /\ RowIsFree
  /\ row' = [row EXCEPT !.deleted = FALSE, !.doc = doc]
  /\ stored' = stored \cup doc
  /\ givenUp' = (givenUp \cup row.doc) \ doc
  /\ upload' = [upload EXCEPT ![u] = [at |-> "written", doc |-> {}]]
  /\ Owes
  /\ UNCHANGED <<lock, editVars, pass, patch, job>>

\* The conversion is enqueued unless one is under way, or the enqueue fails.
UnderWay(j) == job[j].at \in {"queued", "running"}

UploadEnqueues(u) ==
  /\ upload[u].at = "written"
  /\ upload' = [upload EXCEPT ![u].at = "done"]
  /\ \/ UNCHANGED job
     \/ /\ \A j \in Jobs : ~UnderWay(j)
        /\ \E j \in Jobs : job[j].at = "free" /\ job' = [job EXCEPT ![j].at = "queued"]
  /\ UNCHANGED <<row, lock, editVars, call, pass, patch, history>>

\* build_convert_payload: a live row with a file to convert.
Claim(j) ==
  /\ job[j].at = "queued"
  /\ ~row.deleted /\ row.doc \cap Uploads # {}
  /\ job' = [job EXCEPT ![j].at = "running"]
  /\ UNCHANGED <<row, lock, editVars, call, pass, patch, upload, history>>

\* Its payload cannot be built, or its attempts are spent.
JobFails(j) ==
  /\ UnderWay(j)
  /\ job' = [job EXCEPT ![j].at = "over"]
  /\ UNCHANGED <<row, lock, editVars, call, pass, patch, upload, history>>

\* finalize commits the worker's text with the job, then the hook runs.
Answer(j) ==
  /\ job[j].at = "running"
  /\ \E text \in {"none", "text"} :
       job' = [job EXCEPT ![j].at = "answered", ![j].result = text]
  /\ UNCHANGED <<row, lock, editVars, call, pass, patch, upload, history>>

\* Mutant: the early return after a failed redaction leaves the result as it is.
Refused_early(x) == [x EXCEPT !.at = "over"]

\* A text that cannot be redacted is not stored, and scrubbed all the same.
Refused(x) == [x EXCEPT !.at = "over", !.result = "scrubbed"]

\* apply_convert_result: an empty text, a row that is gone, a text that cannot
\* be redacted; or the two transcripts are stored.
HookStarts(j) ==
  /\ job[j].at = "answered"
  /\ \/ job[j].result = "none" /\ job' = [job EXCEPT ![j].at = "over"]
     \/ job[j].result = "text" /\ row.deleted /\ job' = [job EXCEPT ![j].at = "left"]
     \/ /\ job[j].result = "text" /\ ~row.deleted
        /\ \/ job' = [job EXCEPT ![j] = Refused(job[j])]
           \/ job' = [job EXCEPT ![j].at = "converted"]
  /\ UNCHANGED <<row, lock, editVars, call, pass, patch, upload, history>>

\* The document is read again, under the row lock ...
HookLocks(j) ==
  /\ job[j].at = "converted"
  /\ RowIsFree
  /\ IF row.deleted
     THEN job' = [job EXCEPT ![j].at = "left"] /\ UNCHANGED lock
     ELSE job' = [job EXCEPT ![j].at = "locked", ![j].doc = row.doc] /\ lock' = j
  /\ UNCHANGED <<row, editVars, call, pass, patch, upload, history>>

\* ... and saved with the transcript.
HookSaves(j) ==
  LET doc == job[j].doc \cup {TRANSCRIPT} IN
  /\ job[j].at = "locked"
  /\ row' = [row EXCEPT !.doc = doc]
  /\ lock' = NULL
  /\ stored' = stored \cup doc
  /\ givenUp' = givenUp \ doc
  /\ job' = [job EXCEPT ![j].at = "applied", ![j].doc = {}]
  /\ UNCHANGED <<editVars, call, pass, patch, upload>>

\* _scrub_job_result
Scrub(j) ==
  /\ job[j].at = "applied"
  /\ job' = [job EXCEPT ![j].at = "over", ![j].result = "scrubbed"]
  /\ UNCHANGED <<row, lock, editVars, call, pass, patch, upload, history>>

\* The process dies, or an error in the hook is swallowed.
HookDies(j) ==
  /\ job[j].at \in {"answered", "converted", "applied"}
  /\ job' = [job EXCEPT ![j].at = "left"]
  /\ UNCHANGED <<row, lock, editVars, call, pass, patch, upload, history>>

-----------------------------------------------------------------------------
Reconcile == PassReadsPairs \/ PassReadsRows \/ PassUpdates

Finish == PatchSaves \/ \E j \in Jobs : HookSaves(j)

Next ==
  \/ Reconcile
  \/ Finish
  \/ \E c \in Cases, state \in CaseStates : CaseMoves(c, state)
  \/ \E c \in Calls : CallReadsRow(c) \/ CallReadsStates(c) \/ CallSaves(c)
  \/ \E policy \in Policy \cup {NULL}, doc \in SUBSET stored : PatchLocks(policy, doc) \/ Put(policy, doc)
  \/ SoftDelete
  \/ \E u \in Uploads : UploadReads(u) \/ UploadWrites(u) \/ UploadEnqueues(u)
  \/ \E j \in Jobs : \/ Claim(j) \/ JobFails(j) \/ Answer(j)
                     \/ HookStarts(j) \/ HookLocks(j) \/ Scrub(j) \/ HookDies(j)

Spec == Init /\ [][Next]_vars

\* The pass is scheduled periodically, and a transaction ends.
FairSpec == Spec /\ WF_vars(Reconcile) /\ WF_vars(Finish)

-----------------------------------------------------------------------------
\* No link is lost by accident but to an upload: what was ever linked is linked, or
\* an editor saw it and wrote the document without it, under the row lock or as a
\* whole (_patch_material, _upsert_material), or an upload that had read the
\* document before has written it back (material_file_upload).  A conversion, and a
\* PATCH of anything else, drop nothing that another writer linked meanwhile.
LinksAreKept == stored = row.doc \cup givenUp

\* A conversion whose hook came to its end (the transcript stored, refused, or the
\* text empty) left no unredacted text in the jobs table, whatever was uploaded,
\* edited and deleted meanwhile.  The two returns where the material is gone
\* (conversion.py:155, 225) and a hook that dies do leave it: "left".
TranscriptsAreScrubbed == \A j \in Jobs : job[j].at = "over" => job[j].result # "text"

\* However recomputes race each other, the cases and the policy, and whichever of
\* them are lost, the visibility becomes and stays what policy and cases confer.
VisibilitySettles == <>[](row.deleted \/ row.visibility = Due(row.policy, caseState))
=============================================================================
