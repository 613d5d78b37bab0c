---------------------------- MODULE MaterialsProofs ----------------------------
(***************************************************************************)
(* Proofs about Materials, for every set of cases, uploads and jobs: the   *)
(* row lock makes the conversions and the patches keep what others linked  *)
(* meanwhile, and a hook that came to its end left no transcript behind.   *)
(***************************************************************************)
EXTENDS Materials, TLAPS

\* A visibility that is about to be saved is one.
Ready ==
  /\ \A c \in Calls : call[c].at = "ready" => call[c].due \in Visibility
  /\ pass.at = "rows" => pass.due \in Visibility
  /\ patch.at = "locked" /\ patch.policy # NULL => patch.due \in Visibility

\* The row lock has one holder, and that has the current document.
Locks ==
  /\ patch.at = "locked" => lock = "patch" /\ patch.gone = row.doc \ patch.doc
                                                    /\ patch.doc \subseteq stored
  /\ \A j \in Jobs : job[j].at = "locked" => lock = j /\ job[j].doc = row.doc

\* A job that has not answered has no result.
Fresh == \A j \in Jobs : job[j].at \in {"free", "queued", "running"} => job[j].result = "none"

IInv == TypeOK /\ Ready /\ Locks /\ Fresh /\ LinksAreKept /\ TranscriptsAreScrubbed

LEMMA Dues ==
  /\ \A s : ForStates(s) \in Visibility
  /\ \A p, s : Due(p, s) \in Visibility
  BY DEF Due, ForStates, Visibility

LEMMA Idle ==
  /\ IdleCall \in Call /\ IdleCall.at = "idle"
  /\ IdlePass \in Pass /\ IdlePass.at = "idle"
  /\ IdlePatch \in Patch /\ IdlePatch.at = "idle"
  BY DEF IdleCall, IdlePass, IdlePatch, Call, Pass, Patch, Contents

LEMMA InitInv == Init => IInv
  <1> SUFFICES ASSUME Init PROVE IInv
    OBVIOUS
  <1>1. row \in Material
    BY Dues DEF Init, Material, Policy, Contents
  <1>2. /\ upload \in [Uploads -> Upload]
        /\ job \in [Jobs -> JobRow]
    BY DEF Init, Upload, JobRow, Contents
  <1>3. call \in [Calls -> Call] /\ pass \in Pass /\ patch \in Patch /\ Ready
    BY Idle DEF Init, Ready
  <1>4. lock \in {NULL, "patch"} \cup Jobs /\ edits \in 0..MaxEdits
    BY DistinctAssumption DEF Init
  <1>5. TypeOK
    BY <1>1, <1>2, <1>3, <1>4 DEF Init, TypeOK, Contents
  <1>6. Locks /\ Fresh
    BY Idle DEF Init, Locks, Fresh
  <1>7. LinksAreKept /\ TranscriptsAreScrubbed
    BY DEF Init, LinksAreKept, TranscriptsAreScrubbed
  <1> QED
    BY <1>3, <1>5, <1>6, <1>7 DEF IInv

\* Owing a recompute disturbs no call that is under way.
LEMMA OwesKeeps ==
  ASSUME TypeOK, Ready, Owes
  PROVE  /\ call' \in [Calls -> Call]
         /\ \A c \in Calls : call'[c].at = "ready" => call'[c].due \in Visibility
  BY DEF TypeOK, Ready, Owes, Call

\* The calls, the pass and the cases only move among themselves, but for the
\* visibility they write.
LEMMA RecomputesKeep ==
  ASSUME IInv,
         \/ \E c \in Cases, state \in CaseStates : CaseMoves(c, state)
         \/ \E c \in Calls : CallReadsRow(c) \/ CallReadsStates(c) \/ CallSaves(c)
         \/ Reconcile
  PROVE  IInv'
  <1> USE DEF IInv, TypeOK, Ready, Locks, Fresh, LinksAreKept, TranscriptsAreScrubbed,
              docVars, history, editVars
  <1>1. ASSUME NEW c \in Cases, NEW state \in CaseStates, CaseMoves(c, state) PROVE IInv'
    <2>1. edits' \in 0..MaxEdits
      BY <1>1, DistinctAssumption DEF CaseMoves
    <2> QED
      BY <1>1, <2>1, OwesKeeps DEF CaseMoves
  <1>2. ASSUME NEW c \in Calls, CallReadsRow(c) \/ CallReadsStates(c) PROVE IInv'
    <2>1. /\ call' \in [Calls -> Call]
          /\ \A d \in Calls : call'[d].at = "ready" => call'[d].due \in Visibility
      <3>1. CASE CallReadsRow(c)
        BY <1>2, <3>1, Idle DEF CallReadsRow, Call, IdleCall, Material
      <3>2. CASE CallReadsStates(c)
        BY <1>2, <3>2, Idle, Dues DEF CallReadsStates, Call, IdleCall
      <3> QED
        BY <1>2, <3>1, <3>2
    <2> QED
      BY <1>2, <2>1 DEF CallReadsRow, CallReadsStates
  <1>3. ASSUME NEW c \in Calls, CallSaves(c) PROVE IInv'
    <2>1. row' \in Material /\ row'.doc = row.doc
      BY <1>3 DEF CallSaves, Material
    <2>2. /\ call' \in [Calls -> Call]
          /\ \A d \in Calls : call'[d].at = "ready" => call'[d].due \in Visibility
      BY <1>3, Idle DEF CallSaves
    <2> QED
      BY <1>3, <2>1, <2>2 DEF CallSaves
  <1>4. CASE PassReadsPairs \/ PassReadsRows
    <2>1. pass' \in Pass /\ (pass'.at = "rows" => pass'.due \in Visibility)
      <3>1. CASE PassReadsPairs
        BY <3>1, Idle DEF PassReadsPairs, Pass, IdlePass
      <3>2. CASE PassReadsRows
        BY <3>2, Idle, Dues DEF PassReadsRows, Pass, IdlePass
      <3> QED
        BY <1>4, <3>1, <3>2
    <2> QED
      BY <1>4, <2>1 DEF PassReadsPairs, PassReadsRows
  <1>5. CASE PassUpdates
    <2>1. row' \in Material /\ row'.doc = row.doc
      BY <1>5 DEF PassUpdates, Material
    <2> QED
      BY <1>5, <2>1, Idle DEF PassUpdates
  <1> QED
    BY <1>1, <1>2, <1>3, <1>4, <1>5 DEF Reconcile

\* A PATCH and a PUT write links the document had, and own up to what they take
\* away; a deletion leaves the document alone.
LEMMA EditsKeep ==
  ASSUME IInv,
         \/ \E policy \in Policy \cup {NULL}, doc \in SUBSET stored :
              PatchLocks(policy, doc) \/ Put(policy, doc)
         \/ PatchSaves \/ SoftDelete
  PROVE  IInv'
  <1> USE DEF IInv, TypeOK, Ready, Locks, Fresh, LinksAreKept, TranscriptsAreScrubbed,
              docVars, history, editVars
  <1>0. row.doc \in Contents /\ row \in Material
    BY DEF Material
  <1>1. ASSUME NEW policy \in Policy \cup {NULL}, NEW doc \in SUBSET stored,
               PatchLocks(policy, doc)
        PROVE  IInv'
    <2>1. edits' \in 0..MaxEdits
      BY <1>1, DistinctAssumption DEF PatchLocks
    <2>2. doc \in Contents /\ row.doc \ doc \in Contents
      BY <1>0 DEF Contents
    <2>3. /\ patch' \in Patch /\ patch'.gone = row.doc \ doc /\ patch'.doc = doc
          /\ patch'.policy # NULL => patch'.due \in Visibility
      BY <1>1, <2>2, Dues DEF PatchLocks, Patch
    <2>4. \A j \in Jobs : job[j].at # "locked"
      BY <1>1, DistinctAssumption DEF PatchLocks, RowIsFree
    <2> QED
      BY <1>1, <2>1, <2>3, <2>4 DEF PatchLocks
  <1>2. ASSUME NEW policy \in Policy \cup {NULL}, NEW doc \in SUBSET stored, Put(policy, doc)
        PROVE  IInv'
    <2>0. edits < MaxEdits /\ edits' = edits + 1 /\ edits \in 0..MaxEdits
      BY <1>2 DEF Put
    <2>1. edits' \in 0..MaxEdits
      <3> HIDE DEF IInv, TypeOK, Ready, Locks, Fresh, LinksAreKept, TranscriptsAreScrubbed
      <3> QED
        BY <2>0, DistinctAssumption
    <2>2. doc \in Contents
      BY DEF Contents
    <2>3. row' \in Material /\ row'.doc = doc
      BY <1>0, <1>2, <2>2 DEF Put, Material
    <2>4. givenUp' = (givenUp \cup row.doc) \ doc /\ stored' = stored
      BY <1>2 DEF Put
    <2>5. LinksAreKept' /\ stored' \in Contents /\ givenUp' \in Contents
      BY <1>0, <2>2, <2>3, <2>4 DEF Contents
    <2>6. patch.at # "locked" /\ \A j \in Jobs : job[j].at # "locked"
      BY <1>2, DistinctAssumption DEF Put, RowIsFree
    <2> QED
      BY <1>2, <2>1, <2>3, <2>5, <2>6, OwesKeeps DEF Put
  <1>3. CASE PatchSaves
    <2>1. /\ lock = "patch" /\ patch.gone = row.doc \ patch.doc
          /\ patch.doc \subseteq stored /\ patch.doc \in Contents
      BY <1>3 DEF PatchSaves, Patch
    <2>2. row' \in Material /\ row'.doc = patch.doc
      BY <1>0, <1>3, <2>1 DEF PatchSaves, Material, Patch
    <2>3. givenUp' = (givenUp \cup patch.gone) \ patch.doc /\ stored' = stored
      BY <1>3 DEF PatchSaves
    <2>4. LinksAreKept' /\ stored' \in Contents /\ givenUp' \in Contents
      BY <1>0, <2>1, <2>2, <2>3 DEF Contents
    <2>5. \A j \in Jobs : job[j].at # "locked"
      BY <1>3, <2>1, DistinctAssumption DEF PatchSaves
    <2> QED
      BY <1>3, <2>2, <2>4, <2>5, Idle DEF PatchSaves
  <1>4. CASE SoftDelete
    <2>1. edits' \in 0..MaxEdits
      BY <1>4, DistinctAssumption DEF SoftDelete
    <2>2. row' \in Material /\ row'.doc = row.doc
      BY <1>4 DEF SoftDelete, Material
    <2> QED
      BY <1>4, <2>1, <2>2 DEF SoftDelete
  <1> QED
    BY <1>1, <1>2, <1>3, <1>4

\* An upload replaces the document only while nobody holds the row.
LEMMA UploadsKeep ==
  ASSUME IInv, NEW u \in Uploads, UploadReads(u) \/ UploadWrites(u) \/ UploadEnqueues(u)
  PROVE  IInv'
  <1> USE DEF IInv, TypeOK, Ready, Locks, Fresh, LinksAreKept, TranscriptsAreScrubbed,
              history, editVars
  <1>1. CASE UploadReads(u)
    <2>1. row.doc \in Contents
      BY DEF Material
    <2>2. upload' \in [Uploads -> Upload]
      BY <1>1, <2>1 DEF UploadReads, Upload, Contents
    <2> QED
      BY <1>1, <2>2 DEF UploadReads
  <1>2. CASE UploadWrites(u)
    <2> DEFINE doc == upload[u].doc \cup {u}
    <2>1. doc \in Contents /\ row.doc \in Contents
      BY DEF Upload, Contents, Material
    <2>2. row' \in Material /\ row'.doc = doc
      BY <1>2, <2>1 DEF UploadWrites, Material
    <2>3. patch.at # "locked" /\ \A j \in Jobs : job[j].at # "locked"
      BY <1>2, DistinctAssumption DEF UploadWrites, RowIsFree
    <2>4. /\ stored' = stored \cup doc
          /\ givenUp' = (givenUp \cup row.doc) \ doc
      BY <1>2 DEF UploadWrites
    <2>5. LinksAreKept' /\ stored' \in Contents /\ givenUp' \in Contents
      BY <2>1, <2>2, <2>4 DEF Contents
    <2>6. upload' \in [Uploads -> Upload]
      BY <1>2 DEF UploadWrites, Upload, Contents
    <2> QED
      BY <1>2, <2>2, <2>3, <2>5, <2>6, OwesKeeps DEF UploadWrites
  <1>3. CASE UploadEnqueues(u)
    <2>1. upload' \in [Uploads -> Upload]
      BY <1>3 DEF UploadEnqueues, Upload
    <2>2. CASE UNCHANGED job
      BY <1>3, <2>1, <2>2 DEF UploadEnqueues
    <2>3. ASSUME NEW j \in Jobs, job[j].at = "free", job' = [job EXCEPT ![j].at = "queued"]
          PROVE  IInv'
      <3>1. [job[j] EXCEPT !.at = "queued"] \in JobRow
        BY DEF JobRow
      <3> QED
        BY <1>3, <2>1, <2>3, <3>1 DEF UploadEnqueues, JobRow
    <2> QED
      BY <1>3, <2>2, <2>3 DEF UploadEnqueues
  <1> QED
    BY <1>1, <1>2, <1>3

\* What keeps the invariant when one job moves and the document stays.
LEMMA JobStep ==
  ASSUME IInv, NEW j \in Jobs, NEW new \in JobRow, job' = [job EXCEPT ![j] = new],
         new.at # "locked",
         new.at \in {"free", "queued", "running"} => new.result = "none",
         new.at = "over" => new.result # "text",
         UNCHANGED <<row, lock, editVars, call, pass, patch, upload, history>>
  PROVE  IInv'
  BY DEF IInv, TypeOK, Ready, Locks, Fresh, LinksAreKept, TranscriptsAreScrubbed, history, editVars

LEMMA JobsKeep ==
  ASSUME IInv, NEW j \in Jobs,
         \/ Claim(j) \/ JobFails(j) \/ Answer(j) \/ HookStarts(j)
         \/ HookLocks(j) \/ HookSaves(j) \/ Scrub(j) \/ HookDies(j)
  PROVE  IInv'
  <1>1. job \in [Jobs -> JobRow] /\ job[j] \in JobRow /\ row \in Material
    BY DEF IInv, TypeOK
  <1>2. job[j].at \in {"queued", "running"} => job[j].result = "none"
    BY DEF IInv, Fresh
  <1>3. CASE Claim(j)
    <2> DEFINE new == [job[j] EXCEPT !.at = "running"]
    <2>1. new \in JobRow /\ new.at = "running" /\ new.result = "none"
      BY <1>1, <1>2, <1>3 DEF Claim, JobRow
    <2> QED
      BY <1>3, <2>1, JobStep DEF Claim
  <1>4. CASE JobFails(j)
    <2> DEFINE new == [job[j] EXCEPT !.at = "over"]
    <2>1. new \in JobRow /\ new.at = "over" /\ new.result = "none"
      BY <1>1, <1>2, <1>4 DEF JobFails, UnderWay, JobRow
    <2> QED
      BY <1>4, <2>1, JobStep DEF JobFails
  <1>5. CASE Answer(j)
    <2>1. PICK text \in {"none", "text"} :
            job' = [job EXCEPT ![j] = [job[j] EXCEPT !.at = "answered", !.result = text]]
      BY <1>5 DEF Answer
    <2> DEFINE new == [job[j] EXCEPT !.at = "answered", !.result = text]
    <2>2. new \in JobRow /\ new.at = "answered"
      BY <1>1 DEF JobRow
    <2> QED
      BY <1>5, <2>1, <2>2, JobStep DEF Answer
  <1>6. CASE HookStarts(j)
    <2>1. ASSUME NEW at \in {"over", "left", "converted"}, at = "over" => job[j].result = "none",
                 job' = [job EXCEPT ![j].at = at]
          PROVE  IInv'
      <3> DEFINE new == [job[j] EXCEPT !.at = at]
      <3>1. new \in JobRow /\ new.at = at /\ new.result = job[j].result
        BY <1>1 DEF JobRow
      <3> QED
        BY <1>6, <2>1, <3>1, JobStep DEF HookStarts
    <2>2. ASSUME job' = [job EXCEPT ![j] = Refused(job[j])] PROVE IInv'
      <3>1. Refused(job[j]) \in JobRow /\ Refused(job[j]).at = "over"
            /\ Refused(job[j]).result = "scrubbed"
        BY <1>1 DEF Refused, JobRow
      <3> QED
        BY <1>6, <2>2, <3>1, JobStep DEF HookStarts
    <2> QED
      BY <1>6, <2>1, <2>2 DEF HookStarts
  <1>7. CASE HookLocks(j) /\ row.deleted
    <2> DEFINE new == [job[j] EXCEPT !.at = "left"]
    <2>1. new \in JobRow /\ new.at = "left"
      BY <1>1 DEF JobRow
    <2> QED
      BY <1>7, <2>1, JobStep DEF HookLocks
  <1>8. CASE HookLocks(j) /\ ~row.deleted
    <2> DEFINE new == [job[j] EXCEPT !.at = "locked", !.doc = row.doc]
    <2>1. row.doc \in Contents
      BY <1>1 DEF Material
    <2>2. new \in JobRow /\ new.at = "locked" /\ new.doc = row.doc
      BY <1>1, <2>1 DEF JobRow
    <2>3. job' = [job EXCEPT ![j] = new] /\ lock' = j /\ lock = NULL
      BY <1>8 DEF HookLocks, RowIsFree
    <2> HIDE DEF new
    <2>4. patch.at # "locked" /\ \A i \in Jobs : job[i].at # "locked"
      BY <2>3, DistinctAssumption DEF IInv, Locks, TypeOK
    <2> QED
      BY <1>1, <1>8, <2>2, <2>3, <2>4
      DEF HookLocks, IInv, TypeOK, Ready, Locks, Fresh, LinksAreKept,
          TranscriptsAreScrubbed, history, editVars
  <1>9. CASE HookSaves(j)
    <2> DEFINE doc == row.doc \cup {TRANSCRIPT}
               new == [job[j] EXCEPT !.at = "applied", !.doc = {}]
    <2>1. job[j].doc = row.doc /\ lock = j /\ row.doc \in Contents
      BY <1>1, <1>9 DEF HookSaves, IInv, Locks, Material
    <2>2. doc \in Contents
      BY <2>1 DEF Contents
    <2>3. row' \in Material /\ row'.doc = doc
      BY <1>1, <1>9, <2>1, <2>2 DEF HookSaves, Material
    <2>4. stored' = stored \cup doc /\ givenUp' = givenUp \ doc
      BY <1>9, <2>1 DEF HookSaves
    <2>5. LinksAreKept' /\ stored' \in Contents /\ givenUp' \in Contents
      BY <2>2, <2>3, <2>4 DEF IInv, TypeOK, LinksAreKept, Contents
    <2>6. new \in JobRow /\ new.at = "applied"
      BY <1>1 DEF JobRow, Contents
    <2>7. job' = [job EXCEPT ![j] = new] /\ lock' = NULL
      BY <1>9 DEF HookSaves
    <2>8. patch.at # "locked" /\ \A i \in Jobs : i # j => job[i].at # "locked"
      BY <2>1, DistinctAssumption DEF IInv, Locks, TypeOK
    <2> HIDE DEF doc, new
    <2> QED
      BY <1>1, <1>9, <2>3, <2>5, <2>6, <2>7, <2>8
      DEF HookSaves, IInv, TypeOK, Ready, Locks, Fresh, TranscriptsAreScrubbed, history, editVars
  <1>10. CASE Scrub(j)
    <2> DEFINE new == [job[j] EXCEPT !.at = "over", !.result = "scrubbed"]
    <2>1. new \in JobRow /\ new.at = "over" /\ new.result = "scrubbed"
      BY <1>1 DEF JobRow
    <2> QED
      BY <1>10, <2>1, JobStep DEF Scrub
  <1>11. CASE HookDies(j)
    <2> DEFINE new == [job[j] EXCEPT !.at = "left"]
    <2>1. new \in JobRow /\ new.at = "left"
      BY <1>1 DEF JobRow
    <2> QED
      BY <1>11, <2>1, JobStep DEF HookDies
  <1> QED
    BY <1>3, <1>4, <1>5, <1>6, <1>7, <1>8, <1>9, <1>10, <1>11

LEMMA NextInv == IInv /\ [Next]_vars => IInv'
  <1>1. CASE UNCHANGED vars
    BY <1>1 DEF IInv, TypeOK, Ready, Locks, Fresh, LinksAreKept, TranscriptsAreScrubbed,
                vars, docVars, history, editVars
  <1> QED
    BY <1>1, RecomputesKeep, EditsKeep, UploadsKeep, JobsKeep DEF Next, Finish

LEMMA Invariant == Spec => []IInv
  BY InitInv, NextInv, PTL DEF Spec

\* Every variable keeps its type, whoever writes the row in between.
THEOREM TypeCorrect == Spec => []TypeOK
  BY Invariant, PTL DEF IInv

\* The row lock makes the re-read of the document in apply_convert_result, and the
\* read-modify-write of a PATCH, enough: only an editor who names a link, a PUT, or
\* an upload with an older document takes it away.
THEOREM ConversionsKeepWhatOthersLinked == Spec => []LinksAreKept
  BY Invariant, PTL DEF IInv

\* A conversion hook that comes to its end, storing a transcript or refusing it,
\* scrubs the job's result; "left" is where the material was gone or the hook died.
THEOREM NoTranscriptIsLeft == Spec => []TranscriptsAreScrubbed
  BY Invariant, PTL DEF IInv
=============================================================================
