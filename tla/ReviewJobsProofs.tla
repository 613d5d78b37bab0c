---------------------------- MODULE ReviewJobsProofs ----------------------------
(***************************************************************************)
(* Proofs about ReviewJobs, for every set of reviews and cases and any     *)
(* number of regrades, sweeps and crashes.  What JobQueueProofs shows of   *)
(* the queue's own steps is reused; here its invariant is carried through  *)
(* _enqueue_review_job and the supersedes, which the queue does not know.  *)
(***************************************************************************)
EXTENDS ReviewJobs, JobQueueProofs

\* A call has a review while its job is in flight and ever after, and while it
\* is, every other job of the review is finished.
FlightInv ==
  /\ \A i \in Jobs : epc[i] # "create" => (work[i] # NULL <=> status[i] # "absent")
  /\ \A j \in Jobs : epc[j] = "create" => (found[j] = j <=> work[j] # NULL)
  /\ \A i, j \in Jobs :
       epc[j] = "create" /\ i # j /\ work[j] # NULL /\ work[i] = work[j] => is_terminal(i)

\* What a supersede has locked is queued and locked by nobody else.
StaleInv ==
  /\ stale \in [Jobs -> SUBSET Jobs]
  /\ \A j \in Jobs : epc[j] # "create" => stale[j] = {}
  /\ \A i, j \in Jobs : \A k \in stale[i] : status[k] = "queued" /\ (k \in stale[j] => i = j)

QueueInv == TypeOK /\ HeldInv /\ AbsentInv /\ AttemptsBounded /\ KeyInv

RInv == QueueInv /\ FlightInv /\ StaleInv

LEMMA RInitInv == RInit => RInv
  <1> SUFFICES ASSUME RInit PROVE RInv
    OBVIOUS
  <1>1. TypeOK
    BY InitType DEF RInit
  <1>2. HeldInv /\ AbsentInv /\ AttemptsBounded /\ KeyInv
    BY LimitAssumption DEF RInit, Init, HeldInv, AbsentInv, AttemptsBounded, KeyInv, can_retry,
       ActiveStatuses, is_terminal, Procs
  <1>3. FlightInv /\ StaleInv
    BY DEF RInit, Init, FlightInv, StaleInv
  <1> QED
    BY <1>1, <1>2, <1>3 DEF RInv, QueueInv

\* What RNext may do, seen from the queue: a step of its own that leaves the
\* calls and the locked rows alone, ...
QueueMoves ==
  /\ [Next]_vars
  /\ UNCHANGED <<callVars, stale>>
  /\ \A k \in Locked : status[k] = "queued" => status'[k] = "queued"
  /\ \A k \in Jobs : status[k] = "absent" => status'[k] = "absent"

\* ... a step that only moves a worker or counts a crash, ...
RowsStay ==
  /\ UNCHANGED <<rowVars, callVars, held, token, posted, dead, hookVars, stale>>
  /\ \/ UNCHANGED pc
     \/ \E w \in Workers : pc' = [pc EXCEPT ![w] = "idle"] /\ dead[w] = {}
  /\ crashes' \in 0..MaxCrashes

\* ... or one of those below.
LEMMA RSteps ==
  ASSUME RInv, [RNext]_allVars
  PROVE  \/ QueueMoves
         \/ RowsStay
         \/ \E j \in Jobs, r \in Reviews : EnqueueReview(j, r)
         \/ \E j \in Jobs : CommitEnqueue(j) \/ RollBack(j)
         \/ \E c \in Cases : SweepCase(c)
  <1> USE DEF reviewVars, requestVars
  <1>1. crashes \in 0..MaxCrashes /\ status \in [Jobs -> ActiveStatuses \cup TerminalStatuses \cup {"absent"}]
    BY DEF RInv, QueueInv, TypeOK
  <1>2. Locked \subseteq Jobs
    BY DEF RInv, StaleInv, Locked
  <1>3. ASSUME UNCHANGED <<vars, stale>> PROVE QueueMoves
    BY <1>3 DEF QueueMoves, vars, callVars, rowVars
  <1>4. ASSUME NEW r \in Reviews, RequestLost(r) PROVE RowsStay
    BY <1>1, <1>4, LimitAssumption DEF RequestLost, RowsStay, procVars, hookVars
  <1>5. ASSUME NEW w \in Workers, ClaimNoneUnlocked(w) PROVE RowsStay
    BY <1>1, <1>5 DEF ClaimNoneUnlocked, RowsStay
  <1>6. ASSUME NEW w \in Workers, ClaimUnlocked(w) PROVE QueueMoves
    <2>1. Claim(w) /\ UNCHANGED <<callVars, stale>>
      BY <1>6 DEF ClaimUnlocked, Claim
    <2>2. PICK j \in Claimable : status' = [status EXCEPT ![j] = "running"]
                                 /\ held' = [held EXCEPT ![w] = j]
      BY <2>1 DEF Claim
    <2>3. held'[w] = j
      BY <2>2 DEF RInv, QueueInv, TypeOK, Procs
    <2>4. j \notin Locked
      BY <1>6, <2>3 DEF ClaimUnlocked
    <2>5. /\ \A k \in Locked : status'[k] = status[k]
          /\ \A k \in Jobs : status[k] = "absent" => status'[k] = "absent"
      BY <1>1, <1>2, <2>2, <2>4 DEF Claimable
    <2> QED
      BY <2>1, <2>5 DEF QueueMoves, Next, WorkerStep
  <1>7. ASSUME NEW w \in Workers, PollerStep(w) PROVE QueueMoves
    <2>1. UNCHANGED <<callVars, stale>>
      BY <1>7 DEF PollerStep, BuildPayload, BuildPayloadFails, Touch, FinalizeDone,
         FinalizeRetryable, FinalizeRejected, Finalize
    <2>2. \A k \in Jobs : status[k] \in {"queued", "absent"} => status'[k] = status[k]
      BY <1>1, <1>7 DEF PollerStep, BuildPayload, BuildPayloadFails, Touch, FinalizeDone,
         FinalizeRetryable, FinalizeRejected, Finalize, FinalizeRow, rowVars
    <2>3. Next
      BY <1>7 DEF PollerStep, Next, WorkerStep
    <2> QED
      BY <1>2, <2>1, <2>2, <2>3 DEF QueueMoves
  <1>8. ASSUME NEW w \in Workers, HookFinalized(w) PROVE QueueMoves
    <2>1. FinalizeHook(w) /\ UNCHANGED <<callVars, stale, status>>
      BY <1>8 DEF HookFinalized, FinalizeHook, rowVars
    <2> QED
      BY <2>1 DEF QueueMoves, Next, WorkerStep
  <1>9. ASSUME NEW p \in Procs, HookReaped(p) PROVE QueueMoves
    <2>1. ReapFailureHook(p) /\ UNCHANGED <<callVars, stale, status>>
      BY <1>9 DEF HookReaped, ReapFailureHook, rowVars
    <2> QED
      BY <2>1 DEF QueueMoves, Next, SweepStep
  <1>10. ASSUME NEW p \in Procs, ProcStep(p) PROVE QueueMoves
    <2>1. UNCHANGED <<callVars, stale>>
      BY <1>10 DEF ProcStep, ReapExpired, SweepDone, Crash
    <2>2. \A k \in Jobs : status[k] \in {"queued", "absent"} => status'[k] = status[k]
      BY <1>1, <1>10 DEF ProcStep, ReapExpired, SweepDone, Crash, Lapsed, LeaseLapsed, rowVars
    <2>3. Next
      BY <1>10 DEF ProcStep, Next, SweepStep
    <2> QED
      BY <1>2, <2>1, <2>2, <2>3 DEF QueueMoves
  <1>11. CASE RTick
    BY <1>11 DEF RTick, Tick, QueueMoves, Next
  <1>12. ASSUME (\E r \in Reviews : SubmitReview(r)) \/ RegradeRead \/ RegradeReset \/ SweepRead
                \/ UNCHANGED allVars
         PROVE  UNCHANGED <<vars, stale>>
    BY <1>12 DEF SubmitReview, RegradeRead, RegradeReset, SweepRead, allVars
  <1> QED
    BY <1>3, <1>4, <1>5, <1>6, <1>7, <1>8, <1>9, <1>10, <1>11, <1>12 DEF RNext

-----------------------------------------------------------------------------
\* The queue's own steps: its invariant is preserved as in JobQueueProofs.
LEMMA QueueKeeps == ASSUME RInv, QueueMoves PROVE RInv' /\ \A j \in Jobs : Lifecycle!JobStep(j)
  <1> USE DEF RInv, QueueInv
  <1>1. QueueInv'
    BY NextType, NextHeld, NextAbsent, NextAttempts, NextKey DEF QueueMoves
  <1>2. \A j \in Jobs : Lifecycle!JobStep(j)
    BY StepRefines DEF QueueMoves
  <1>3. \A j \in Jobs : /\ status[j] # "absent" => status'[j] # "absent"
                        /\ is_terminal(j) => is_terminal(j)'
    BY <1>2 DEF is_terminal, TerminalStatuses, Lifecycle!JobStep, Lifecycle!Created,
       Lifecycle!Started, Lifecycle!Retried, Lifecycle!Finished, Lifecycle!Buried, Lifecycle!Same
  <1>4. FlightInv'
    BY <1>3 DEF FlightInv, QueueMoves, callVars
  <1>5. StaleInv'
    BY DEF StaleInv, QueueMoves, callVars, Locked
  <1> QED
    BY <1>1, <1>2, <1>4, <1>5

LEMMA RowsStayKeeps == ASSUME RInv, RowsStay PROVE RInv'
  <1> USE DEF RInv, QueueInv, RowsStay, rowVars, callVars
  <1>1. TypeOK'
    <2>1. pc' \in [Procs -> {"idle", "swept", "build", "run", "hook", "report"}]
      BY DEF TypeOK
    <2> QED
      BY <2>1 DEF TypeOK, hookVars
  <1>2. HeldInv'
    BY DEF HeldInv, TypeOK, Procs
  <1>3. AbsentInv' /\ AttemptsBounded' /\ KeyInv'
    BY DEF AbsentInv, AttemptsBounded, KeyInv, can_retry, is_terminal
  <1>4. FlightInv' /\ StaleInv'
    BY DEF FlightInv, StaleInv, is_terminal
  <1> QED
    BY <1>1, <1>2, <1>3, <1>4

\* enqueue inside the transaction: a review whose jobs are all finished gets a
\* new one, any other gets its active job back; the select takes free rows.
LEMMA EnqueueKeeps ==
  ASSUME RInv, NEW j \in Jobs, NEW r \in Reviews, EnqueueReview(j, r)
  PROVE  RInv'
  <1> DEFINE active == {i \in Holders(r) : ~is_terminal(i)}
  <1> DEFINE kept == IF active = {} THEN j ELSE CHOOSE i \in active : TRUE
  <1> DEFINE S == SelectStale(CaseOf[r], kept)
  <1>1. /\ r \in Keys /\ r # NULL
        /\ work \in [Jobs -> Keys \cup {NULL}] /\ found \in [Jobs -> Jobs \cup {NULL}]
        /\ epc \in [Jobs -> {"start", "free", "create", "reread", "returned", "raised"}]
        /\ stale \in [Jobs -> SUBSET Jobs]
        /\ status \in [Jobs -> ActiveStatuses \cup TerminalStatuses \cup {"absent"}]
    BY IdAssumption, NullAssumption DEF RInv, QueueInv, TypeOK, StaleInv
  <1>2. /\ epc[j] = "start" /\ \A i \in Jobs : epc[i] = "create" => work[i] # r
        /\ found' = [found EXCEPT ![j] = kept]
        /\ work' = [work EXCEPT ![j] = IF active = {} THEN r ELSE NULL]
        /\ stale' = [stale EXCEPT ![j] = S]
        /\ epc' = [epc EXCEPT ![j] = "create"]
        /\ UNCHANGED <<status, attempts, lease, avail, dedup, procVars, hookVars, crashes>>
    BY DEF EnqueueReview, InFlight, rowVars
  <1>3. status[j] = "absent" /\ dedup[j] = NULL
    BY <1>2 DEF RInv, QueueInv, KeyInv, AbsentInv
  <1>4. kept \in Jobs /\ (kept = j <=> active = {})
    <2>1. CASE active = {}
      BY <2>1
    <2>2. CASE active # {}
      <3>1. kept \in active
        BY <2>2
      <3>2. kept # j
        BY <1>3, <3>1 DEF Holders
      <3> QED
        BY <2>2, <3>1, <3>2 DEF Holders
    <2> QED
      BY <2>1, <2>2
  <1>5. active = {} => \A i \in Jobs : work[i] = r => is_terminal(i)
    <2> SUFFICES ASSUME active = {}, NEW i \in Jobs, work[i] = r PROVE is_terminal(i)
      OBVIOUS
    <2>1. epc[i] # "create"
      BY <1>2
    <2>2. status[i] # "absent"
      BY <1>1, <2>1 DEF RInv, FlightInv
    <2>3. status[i] \in ActiveStatuses => dedup[i] = r
      BY DEF RInv, QueueInv, KeyInv
    <2> QED
      BY <1>1, <2>2, <2>3 DEF Holders, is_terminal
  <1>6. S \subseteq Jobs /\ \A k \in S : status[k] = "queued" /\ \A i \in Jobs : k \notin stale[i]
    BY DEF SelectStale, QueuedOf, CaseJobs, Locked
  <1>7. QueueInv'
    <2>1. TypeOK'
      BY <1>1, <1>2, <1>4 DEF RInv, QueueInv, TypeOK, procVars, hookVars
    <2>2. HeldInv' /\ AbsentInv' /\ AttemptsBounded'
      BY <1>2 DEF RInv, QueueInv, HeldInv, AbsentInv, AttemptsBounded, can_retry, procVars
    <2>3. KeyInv'
      BY <1>1, <1>2, <1>3 DEF RInv, QueueInv, KeyInv, is_terminal, ActiveStatuses
    <2> QED
      BY <2>1, <2>2, <2>3 DEF QueueInv
  <1>8. FlightInv'
    <2>1. \A i \in Jobs : epc'[i] # "create" => (work'[i] # NULL <=> status'[i] # "absent")
      BY <1>1, <1>2 DEF RInv, FlightInv
    <2>2. \A i \in Jobs : epc'[i] = "create" => (found'[i] = i <=> work'[i] # NULL)
      BY <1>1, <1>2, <1>4 DEF RInv, FlightInv
    <2>3. ASSUME NEW i \in Jobs, NEW k \in Jobs, epc'[k] = "create", i # k, work'[k] # NULL,
                 work'[i] = work'[k]
          PROVE  is_terminal(i)'
      <3>1. is_terminal(i)' <=> is_terminal(i)
        BY <1>2 DEF is_terminal
      <3>2. CASE k = j
        BY <1>1, <1>2, <1>5, <2>3, <3>1, <3>2
      <3>3. CASE k # j /\ i = j
        BY <1>1, <1>2, <2>3, <3>3
      <3>4. CASE k # j /\ i # j
        BY <1>1, <1>2, <2>3, <3>1, <3>4 DEF RInv, FlightInv
      <3> QED
        BY <3>2, <3>3, <3>4
    <2> QED
      BY <2>1, <2>2, <2>3 DEF FlightInv
  <1>9. StaleInv'
    <2> HIDE DEF S
    <2>1. stale' \in [Jobs -> SUBSET Jobs]
      BY <1>1, <1>2, <1>6
    <2>2. \A i \in Jobs : epc'[i] # "create" => stale'[i] = {}
      BY <1>1, <1>2 DEF RInv, StaleInv
    <2>3. ASSUME NEW h \in Jobs, NEW i \in Jobs, NEW k \in stale'[h]
          PROVE  status'[k] = "queued" /\ (k \in stale'[i] => h = i)
      <3>1. stale'[j] = S /\ \A g \in Jobs : g # j => stale'[g] = stale[g]
        BY <1>1, <1>2
      <3>2. CASE h = j
        BY <1>2, <1>6, <2>3, <3>1, <3>2
      <3>3. CASE h # j
        BY <1>2, <1>6, <2>3, <3>1, <3>3 DEF RInv, StaleInv
      <3> QED
        BY <3>2, <3>3
    <2> QED
      BY <2>1, <2>2, <2>3 DEF StaleInv
  <1> QED
    BY <1>7, <1>8, <1>9 DEF RInv

\* The commit inserts the job, frees the key of the finished one and buries what
\* it has locked.
LEMMA CommitKeeps ==
  ASSUME RInv, NEW j \in Jobs, CommitEnqueue(j)
  PROVE  RInv'
  <1> USE DEF RInv, QueueInv
  <1>1. /\ epc[j] = "create" /\ status[j] = "absent" /\ dedup[j] = NULL
        /\ found[j] = j <=> work[j] # NULL
        /\ \A k \in stale[j] : k \in Jobs /\ status[k] = "queued" /\ k # j
    BY DEF CommitEnqueue, InFlight, KeyInv, AbsentInv, FlightInv, StaleInv
  <1>2. /\ status' = [i \in Jobs |-> IF i = j /\ found[j] = j THEN "queued"
                                     ELSE IF i \in stale[j] THEN "dead" ELSE status[i]]
        /\ dedup' = IF found[j] = j THEN TakeKey(j) ELSE dedup
        /\ stale' = [stale EXCEPT ![j] = {}]
        /\ epc' = [epc EXCEPT ![j] = "returned"]
        /\ UNCHANGED <<attempts, lease, avail, work, found, procVars, hookVars, crashes>>
    BY DEF CommitEnqueue
  <1>3. \A i \in Jobs : /\ is_terminal(i) => is_terminal(i)'
                        /\ status[i] # "absent" => status'[i] # "absent"
                        /\ status'[i] \in ActiveStatuses => i = j \/ status'[i] = status[i]
    BY <1>1, <1>2 DEF is_terminal, TerminalStatuses, ActiveStatuses
  <1>4. TypeOK'
    <2>1. status' \in [Jobs -> ActiveStatuses \cup TerminalStatuses \cup {"absent"}]
      BY <1>2 DEF TypeOK, ActiveStatuses, TerminalStatuses
    <2>2. dedup' \in [Jobs -> Keys \cup {NULL}]
      BY <1>2 DEF TypeOK, TakeKey
    <2>3. epc' \in [Jobs -> {"start", "free", "create", "reread", "returned", "raised"}]
      BY <1>2 DEF TypeOK
    <2> QED
      BY <1>2, <2>1, <2>2, <2>3 DEF TypeOK, procVars, hookVars
  <1>5. HeldInv' /\ AbsentInv' /\ AttemptsBounded'
    <2>1. HeldInv'
      BY <1>2 DEF HeldInv, procVars
    <2>2. AbsentInv'
      BY <1>1, <1>2 DEF AbsentInv, TakeKey
    <2>3. AttemptsBounded'
      BY <1>1, <1>2, LimitAssumption DEF AttemptsBounded, AbsentInv, can_retry
    <2> QED
      BY <2>1, <2>2, <2>3
  <1>6. KeyInv'
    <2>1. \A i \in Jobs : status'[i] # "absent" => epc'[i] = "returned"
      BY <1>1, <1>2 DEF KeyInv, TypeOK
    <2>2. \A i \in Jobs : dedup'[i] \in {work'[i], NULL}
      BY <1>2 DEF KeyInv, TakeKey
    <2>3. ASSUME NEW i \in Jobs, status'[i] \in ActiveStatuses PROVE dedup'[i] = work'[i]
      <3>1. CASE i = j
        BY <1>1, <1>2, <2>3, <3>1 DEF TakeKey, ActiveStatuses
      <3>2. CASE i # j
        <4>1. dedup[i] = work[i] /\ ~is_terminal(i)
          BY <1>3, <2>3, <3>2 DEF KeyInv, is_terminal, ActiveStatuses, TerminalStatuses
        <4>2. found[j] = j => dedup[i] # work[j]
          BY <1>1, <3>2, <4>1 DEF FlightInv
        <4> QED
          BY <1>2, <3>2, <4>1, <4>2 DEF TakeKey
      <3> QED
        BY <3>1, <3>2
    <2>4. \A i \in Jobs : epc'[i] = "free" => found'[i] \in Jobs /\ is_terminal(found[i])'
      BY <1>2, <1>3 DEF KeyInv, TypeOK
    <2>5. \A i \in Jobs : epc'[i] = "reread" => work'[i] # NULL
      BY <1>2 DEF KeyInv, TypeOK
    <2>6. ASSUME NEW h \in Jobs, NEW i \in Jobs, status'[h] # "absent", status'[i] # "absent",
                 dedup'[h] = dedup'[i], dedup'[h] # NULL
          PROVE  h = i
      BY <1>1, <1>2, <2>6 DEF KeyInv, TakeKey
    <2> QED
      BY <1>2, <2>1, <2>2, <2>3, <2>4, <2>5, <2>6 DEF KeyInv
  <1>7. FlightInv'
    BY <1>1, <1>2, <1>3 DEF FlightInv, TypeOK, is_terminal, TerminalStatuses
  <1>8. StaleInv'
    BY <1>1, <1>2 DEF StaleInv, TypeOK
  <1> QED
    BY <1>4, <1>5, <1>6, <1>7, <1>8

LEMMA RollBackKeeps == ASSUME RInv, NEW j \in Jobs, RollBack(j) PROVE RInv'
  <1> USE DEF RInv, QueueInv, RollBack, rowVars, procVars, hookVars
  <1>1. status[j] = "absent" /\ dedup[j] = NULL
    BY DEF InFlight, KeyInv, AbsentInv
  <1>2. TypeOK'
    BY LimitAssumption DEF TypeOK
  <1>3. HeldInv' /\ AbsentInv' /\ AttemptsBounded'
    BY DEF HeldInv, AbsentInv, AttemptsBounded, can_retry
  <1>4. KeyInv'
    BY <1>1 DEF KeyInv, TypeOK, is_terminal, ActiveStatuses
  <1>5. FlightInv' /\ StaleInv'
    BY <1>1 DEF FlightInv, StaleInv, TypeOK, is_terminal
  <1> QED
    BY <1>2, <1>3, <1>4, <1>5

\* The sweep command buries queued jobs that nobody has locked.
LEMMA SweepKeeps == ASSUME RInv, NEW c \in Cases, SweepCase(c) PROVE RInv'
  <1> USE DEF RInv, QueueInv
  <1>1. PICK S \in SUBSET {k \in Jobs : status[k] = "queued" /\ k \notin Locked} :
          status' = [i \in Jobs |-> IF i \in S THEN "dead" ELSE status[i]]
    BY DEF SweepCase, SelectStale, QueuedOf, CaseJobs
  <1>2. UNCHANGED <<attempts, lease, avail, dedup, callVars, procVars, hookVars, crashes, stale>>
    BY DEF SweepCase
  <1>3. TypeOK'
    <2>1. status' \in [Jobs -> ActiveStatuses \cup TerminalStatuses \cup {"absent"}]
      BY <1>1 DEF TypeOK, TerminalStatuses
    <2> QED
      BY <1>2, <2>1 DEF TypeOK, callVars, procVars, hookVars
  <1>4. HeldInv' /\ AbsentInv' /\ AttemptsBounded'
    BY <1>1, <1>2 DEF HeldInv, AbsentInv, AttemptsBounded, can_retry, procVars
  <1>5. KeyInv'
    BY <1>1, <1>2 DEF KeyInv, TypeOK, callVars, is_terminal, ActiveStatuses, TerminalStatuses
  <1>6. FlightInv' /\ StaleInv'
    BY <1>1, <1>2 DEF FlightInv, StaleInv, Locked, callVars, is_terminal, TerminalStatuses
  <1> QED
    BY <1>3, <1>4, <1>5, <1>6

-----------------------------------------------------------------------------
LEMMA RInductive == RSpec => []RInv
  <1>1. RInv /\ [RNext]_allVars => RInv'
    BY RSteps, QueueKeeps, RowsStayKeeps, EnqueueKeeps, CommitKeeps, RollBackKeeps, SweepKeeps
  <1> QED
    BY RInitInv, <1>1, PTL DEF RSpec

\* What the steps do to a row: a supersede buries a queued one, everything else is
\* a step of its lifecycle.
LEMMA RowStep ==
  ASSUME RInv, [RNext]_allVars, NEW j \in Jobs
  PROVE  \/ Lifecycle!JobStep(j)
         \/ status'[j] = status[j]
         \/ status[j] = "queued" /\ status'[j] = "dead"
         \/ status[j] = "absent" /\ status'[j] = "queued"
  <1>1. CASE QueueMoves
    BY <1>1, QueueKeeps
  <1>2. CASE RowsStay
    BY <1>2 DEF RowsStay, rowVars
  <1>3. ASSUME NEW i \in Jobs, NEW r \in Reviews, EnqueueReview(i, r) PROVE status' = status
    BY <1>3 DEF EnqueueReview, rowVars
  <1>4. ASSUME NEW i \in Jobs, RollBack(i) PROVE status' = status
    BY <1>4 DEF RollBack, rowVars
  <1>5. ASSUME NEW i \in Jobs, CommitEnqueue(i)
        PROVE  \/ status'[j] = status[j]
               \/ status[j] = "queued" /\ status'[j] = "dead"
               \/ status[j] = "absent" /\ status'[j] = "queued"
    BY <1>5 DEF CommitEnqueue, InFlight, RInv, QueueInv, KeyInv, StaleInv
  <1>6. ASSUME NEW c \in Cases, SweepCase(c)
        PROVE  status'[j] = status[j] \/ (status[j] = "queued" /\ status'[j] = "dead")
    BY <1>6 DEF SweepCase, SelectStale, QueuedOf
  <1> QED
    BY RSteps, <1>1, <1>2, <1>3, <1>4, <1>5, <1>6

\* Two active jobs of a review are one: each holds the review's key.
LEMMA ActiveIsUnique == RInv => OneActiveJobPerReview
  <1> SUFFICES ASSUME RInv, NEW i \in Jobs, NEW j \in Jobs, status[i] \in ActiveStatuses,
                      status[j] \in ActiveStatuses, work[i] = work[j]
               PROVE  i = j
    BY DEF OneActiveJobPerReview
  <1>1. dedup[i] = work[i] /\ dedup[j] = work[j] /\ status[i] # "absent" /\ status[j] # "absent"
    BY DEF RInv, QueueInv, KeyInv, ActiveStatuses
  <1>2. work[i] # NULL
    BY <1>1 DEF RInv, QueueInv, KeyInv, FlightInv
  <1> QED
    BY <1>1, <1>2 DEF RInv, QueueInv, KeyInv

\* A finished job keeps its status.
LEMMA TerminalStays ==
  ASSUME RInv, [RNext]_allVars, NEW j \in Jobs, is_terminal(j)
  PROVE  status'[j] = status[j]
  BY RowStep DEF is_terminal, TerminalStatuses, Lifecycle!JobStep, Lifecycle!Created,
     Lifecycle!Started, Lifecycle!Retried, Lifecycle!Finished, Lifecycle!Buried, Lifecycle!Same

\* _enqueue_review_job: a review has one job queued or running, through regrades,
\* rollbacks and supersedes.
THEOREM ReviewsAreNotDoubled == RSpec => []OneActiveJobPerReview
  BY RInductive, ActiveIsUnique, PTL

\* No hook, supersede, sweep or regrade revives a finished review job.
THEOREM FinishedStaysFinished == RSpec => TerminalIsFinal
  <1>1. RInv /\ [RNext]_allVars
        => [\A j \in Jobs : is_terminal(j) => status'[j] = status[j]]_status
    BY TerminalStays
  <1> QED
    BY RInductive, <1>1, PTL DEF RSpec, TerminalIsFinal

\* supersede_older_queued_jobs and the sweep command bury no running job.
THEOREM SupersedesSpareRunningJobs == RSpec => RunningIsNeverSuperseded
  <1>1. RInv /\ [RNext]_allVars
        => [\A j \in Jobs : status[j] = "running" /\ status'[j] = "dead" => ~can_retry(j)]_status
    BY RowStep, LimitAssumption DEF can_retry, Lifecycle!JobStep, Lifecycle!Created,
       Lifecycle!Started, Lifecycle!Retried, Lifecycle!Finished, Lifecycle!Buried, Lifecycle!Same
  <1> QED
    BY RInductive, <1>1, PTL DEF RSpec, RunningIsNeverSuperseded
=============================================================================
