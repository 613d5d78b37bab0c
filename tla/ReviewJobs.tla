----------------------------- MODULE ReviewJobs -----------------------------
(***************************************************************************)
(* Case reviews on top of the job queue: review/views.py submits and       *)
(* regrades reviews and enqueues one case_review job per review,           *)
(* review/supersede.py dead-letters the older queued jobs of the same      *)
(* case, supersede_queued_reviews sweeps a backlog of them, and the        *)
(* case_review hooks of jobs/consumers.py carry a job's outcome back into  *)
(* its CaseReview row.                                                     *)
(*                                                                         *)
(* The queue's own steps are those of JobQueue, joined with what the hooks *)
(* do to the reviews.  A job's dedup_key is its review (work[j] = r).      *)
(* _enqueue_review_job is one READ COMMITTED transaction: it inserts its   *)
(* job, locks the jobs to supersede and updates their reviews              *)
(* (EnqueueReview), and all of it becomes visible at the commit            *)
(* (CommitEnqueue).  Until then other transactions see none of it, skip    *)
(* the job rows it has locked (SKIP LOCKED) and wait for the review rows   *)
(* it has updated.                                                         *)
(***************************************************************************)
EXTENDS JobQueue, FiniteSetsExt

CONSTANTS
  Cases,
  CaseOf,       \* the case each review is of
  MaxRegrades,  \* bound: regrade_all requests
  MaxSweeps     \* bound: runs of supersede_queued_reviews

Reviews == DOMAIN CaseOf

\* Ids are numbers: regrade_all takes the largest review id of a case, the
\* sweep keeps the largest job id.
ASSUME IdAssumption == Jobs \subseteq Nat /\ Reviews \subseteq Nat /\ Keys = Reviews
ASSUME CaseAssumption == CaseOf \in [Reviews -> Cases]
ASSUME BudgetAssumption == MaxRegrades \in Nat /\ MaxSweeps \in Nat

VARIABLES
  rstatus,    \* CaseReview.status
  todo,       \* calls of _enqueue_review_job that requests still have to make, per review
  latest,     \* reviews a regrade_all has read and not yet reset
  stale,      \* stale_jobs that call j has selected and locked
  doomed,     \* reviews that call j has updated to failed/"superseded"
  keep,       \* job ids the sweep command has decided to keep, per case
  regrades,
  sweeps

requestVars == <<todo, latest, regrades, sweeps>>
reviewVars  == <<rstatus, requestVars, stale, doomed, keep>>
allVars     == <<vars, reviewVars>>

Locked        == UNION {stale[j] : j \in Jobs}
LockedReviews == UNION {doomed[j] : j \in Jobs}

CaseJobs(c) == {j \in Jobs : work[j] # NULL /\ CaseOf[work[j]] = c}

\* Mutant: running jobs are taken to be stale too.
ActiveOf(c) == {j \in CaseJobs(c) : status[j] \in ActiveStatuses}

QueuedOf(c) == {j \in CaseJobs(c) : status[j] = "queued"}

RTypeOK ==
  /\ TypeOK
  /\ rstatus \in [Reviews -> {"absent", "pending", "done", "failed"}]
  /\ todo \in [Reviews -> Nat]
  /\ latest \subseteq Reviews
  /\ stale \in [Jobs -> SUBSET Jobs]
  /\ doomed \in [Jobs -> SUBSET Reviews]
  /\ keep \in [Cases -> Jobs \cup {NULL}]
  /\ regrades \in 0..MaxRegrades
  /\ sweeps \in 0..MaxSweeps

RInit ==
  /\ Init
  /\ rstatus = [r \in Reviews |-> "absent"]
  /\ todo = [r \in Reviews |-> 0]
  /\ latest = {}
  /\ stale = [j \in Jobs |-> {}]
  /\ doomed = [j \in Jobs |-> {}]
  /\ keep = [c \in Cases |-> NULL]
  /\ regrades = 0
  /\ sweeps = 0

-----------------------------------------------------------------------------
(***************************************************************************)
(* Requests                                                                *)
(***************************************************************************)

\* submit_review commits the CaseReview row, then goes on to enqueue its job.
SubmitReview(r) ==
  /\ rstatus[r] = "absent"
  /\ \A q \in Reviews : q < r => rstatus[q] # "absent"
  /\ rstatus' = [rstatus EXCEPT ![r] = "pending"]
  /\ todo' = [todo EXCEPT ![r] = @ + 1]
  /\ UNCHANGED <<vars, latest, regrades, sweeps, stale, doomed, keep>>

Submitted == {r \in Reviews : rstatus[r] # "absent"}

LatestReviews ==
  {r \in Submitted : \A q \in Submitted : CaseOf[q] = CaseOf[r] => q <= r}

\* regrade_all reads the latest review of every case, then resets those it
\* has read and enqueues each.
RegradeRead ==
  /\ regrades < MaxRegrades
  /\ latest = {} /\ LatestReviews # {}
  /\ regrades' = regrades + 1
  /\ latest' = LatestReviews
  /\ UNCHANGED <<vars, rstatus, todo, sweeps, stale, doomed, keep>>

RegradeReset ==
  /\ latest # {}
  /\ latest \cap LockedReviews = {}
  /\ rstatus' = [r \in Reviews |-> IF r \in latest THEN "pending" ELSE rstatus[r]]
  /\ todo' = [r \in Reviews |-> IF r \in latest THEN todo[r] + 1 ELSE todo[r]]
  /\ latest' = {}
  /\ UNCHANGED <<vars, regrades, sweeps, stale, doomed, keep>>

\* The request's process dies before it reaches _enqueue_review_job.
RequestLost(r) ==
  /\ todo[r] > 0
  /\ crashes < MaxCrashes
  /\ crashes' = crashes + 1
  /\ todo' = [todo EXCEPT ![r] = @ - 1]
  /\ UNCHANGED <<rowVars, callVars, procVars, hookVars, rstatus, latest, regrades, sweeps,
                 stale, doomed, keep>>

-----------------------------------------------------------------------------
(***************************************************************************)
(* _enqueue_review_job                                                     *)
(***************************************************************************)
InFlight == {j \in Jobs : epc[j] = "create"}

\* Lock every queued job of the case but the one to keep (SKIP LOCKED).
SelectStale(c, kept) == (QueuedOf(c) \ {kept}) \ Locked

\* Mutant: the reviews of superseded jobs are left alone.
Supersedable_none(S) == {}

\* The reviews of the jobs in S that are not settled: their update to
\* failed/"superseded" matches no others.
Supersedable(S) == {r \in {work[i] : i \in S} : rstatus[r] = "pending"}

\* enqueue inside the transaction, then the select and the updates of
\* supersede_older_queued_jobs.  A review whose last job is terminal gets a
\* new job; one whose job is active gets that job back.  A transaction that
\* has the same key in flight makes this one wait for its commit (unique
\* index).
EnqueueReview(j, r) ==
  /\ todo[r] > 0
  /\ epc[j] = "start"
  /\ \A i \in Jobs : epc[i] = "start" => j <= i
  /\ \A i \in InFlight : work[i] # r
  /\ todo' = [todo EXCEPT ![r] = @ - 1]
  /\ LET active == {i \in Holders(r) : ~is_terminal(i)}
         kept   == IF active = {} THEN j ELSE CHOOSE i \in active : TRUE
         S      == SelectStale(CaseOf[r], kept)
     IN  /\ found' = [found EXCEPT ![j] = kept]
         /\ work' = [work EXCEPT ![j] = IF active = {} THEN r ELSE NULL]
         /\ stale' = [stale EXCEPT ![j] = S]
         /\ doomed' = [doomed EXCEPT ![j] = Supersedable(S)]
  /\ epc' = [epc EXCEPT ![j] = "create"]
  /\ UNCHANGED <<rowVars, procVars, hookVars, crashes, rstatus, latest, regrades, sweeps, keep>>

\* The new job takes the key from the review's finished one.
TakeKey(j) ==
  [i \in Jobs |-> IF i = j THEN work[j] ELSE IF dedup[i] = work[j] THEN NULL ELSE dedup[i]]

CommitEnqueue(j) ==
  /\ j \in InFlight
  /\ status' = [i \in Jobs |-> IF i = j /\ found[j] = j THEN "queued"
                               ELSE IF i \in stale[j] THEN "dead" ELSE status[i]]
  /\ dedup' = IF found[j] = j THEN TakeKey(j) ELSE dedup
  /\ rstatus' = [r \in Reviews |-> IF r \in doomed[j] THEN "failed" ELSE rstatus[r]]
  /\ stale' = [stale EXCEPT ![j] = {}]
  /\ doomed' = [doomed EXCEPT ![j] = {}]
  /\ epc' = [epc EXCEPT ![j] = "returned"]
  /\ UNCHANGED <<attempts, lease, avail, work, found, procVars, hookVars, crashes,
                 requestVars, keep>>

\* The process dies inside the transaction, which rolls back.
RollBack(j) ==
  /\ j \in InFlight
  /\ crashes < MaxCrashes
  /\ crashes' = crashes + 1
  /\ work' = [work EXCEPT ![j] = NULL]
  /\ found' = [found EXCEPT ![j] = NULL]
  /\ stale' = [stale EXCEPT ![j] = {}]
  /\ doomed' = [doomed EXCEPT ![j] = {}]
  /\ epc' = [epc EXCEPT ![j] = "raised"]
  /\ UNCHANGED <<rowVars, procVars, hookVars, rstatus, requestVars, keep>>

-----------------------------------------------------------------------------
(***************************************************************************)
(* supersede_queued_reviews --apply: reads the queue once, then supersedes *)
(* case by case with the job it decided to keep.                           *)
(***************************************************************************)
SweepRead ==
  /\ sweeps < MaxSweeps
  /\ keep = [c \in Cases |-> NULL]
  /\ \E c \in Cases : Cardinality(QueuedOf(c)) > 1
  /\ sweeps' = sweeps + 1
  /\ keep' = [c \in Cases |-> IF Cardinality(QueuedOf(c)) > 1 THEN Max(QueuedOf(c)) ELSE NULL]
  /\ UNCHANGED <<vars, rstatus, todo, latest, regrades, stale, doomed>>

SweepCase(c) ==
  /\ keep[c] # NULL
  /\ LET S == SelectStale(c, keep[c]) IN
       /\ status' = [i \in Jobs |-> IF i \in S THEN "dead" ELSE status[i]]
       /\ rstatus' = [r \in Reviews |-> IF r \in Supersedable(S) THEN "failed" ELSE rstatus[r]]
  /\ keep' = [keep EXCEPT ![c] = NULL]
  /\ UNCHANGED <<attempts, lease, avail, dedup, callVars, procVars, hookVars, crashes,
                 requestVars, stale, doomed>>

-----------------------------------------------------------------------------
(***************************************************************************)
(* The queue's steps, with the case_review hooks.                          *)
(***************************************************************************)

\* Mutant: on_result writes its stage into the status.
ReviewAfterHook_stage(j) ==
  IF resultHook'[j] # resultHook[j] THEN "complete"
  ELSE IF failHook'[j] # failHook[j] /\ rstatus[work[j]] # "done" THEN "failed"
  ELSE rstatus[work[j]]

\* Mutant: on_failure does not look at the review it fails.
ReviewAfterHook_regardless(j) ==
  IF resultHook'[j] # resultHook[j] THEN "done"
  ELSE IF failHook'[j] # failHook[j] THEN "failed"
  ELSE rstatus[work[j]]

\* on_result sets its review DONE; on_failure sets it FAILED unless it is DONE.
ReviewAfterHook(j) ==
  IF resultHook'[j] # resultHook[j] THEN "done"
  ELSE IF failHook'[j] # failHook[j] /\ rstatus[work[j]] # "done" THEN "failed"
  ELSE rstatus[work[j]]

\* A hook that raises changes nothing of its review: each makes one statement.
Called(j) == resultHook'[j] # resultHook[j] \/ failHook'[j] # failHook[j]

HookFinalized(w) ==
  /\ FinalizeHook(w)
  /\ Called(held[w]) => work[held[w]] \notin LockedReviews
  /\ rstatus' = [rstatus EXCEPT ![work[held[w]]] = ReviewAfterHook(held[w])]
  /\ UNCHANGED <<requestVars, stale, doomed, keep>>

HookReaped(p) ==
  /\ ReapFailureHook(p)
  /\ \E j \in dead[p] \ dead'[p] :
       /\ Called(j) => work[j] \notin LockedReviews
       /\ rstatus' = [rstatus EXCEPT ![work[j]] = ReviewAfterHook(j)]
  /\ UNCHANGED <<requestVars, stale, doomed, keep>>

\* A claim skips the rows a supersede has locked.
ClaimUnlocked(w) ==
  /\ Claim(w)
  /\ held'[w] \notin Locked
  /\ UNCHANGED reviewVars

ClaimNoneUnlocked(w) ==
  /\ pc[w] = "swept" /\ dead[w] = {}
  /\ Claimable \subseteq Locked
  /\ pc' = [pc EXCEPT ![w] = "idle"]
  /\ UNCHANGED <<rowVars, callVars, held, token, posted, dead, hookVars, crashes, reviewVars>>

PollerStep(w) ==
  /\ \/ BuildPayload(w) \/ BuildPayloadFails(w) \/ Touch(w)
     \/ FinalizeDone(w) \/ FinalizeRetryable(w) \/ FinalizeRejected(w)
  /\ UNCHANGED reviewVars

ProcStep(p) ==
  /\ ReapExpired(p) \/ SweepDone(p) \/ Crash(p)
  /\ UNCHANGED reviewVars

RTick == Tick /\ UNCHANGED reviewVars

RNext ==
  \/ \E r \in Reviews : SubmitReview(r) \/ RequestLost(r)
  \/ RegradeRead
  \/ RegradeReset
  \/ \E j \in Jobs, r \in Reviews : EnqueueReview(j, r)
  \/ \E j \in Jobs : CommitEnqueue(j) \/ RollBack(j)
  \/ SweepRead
  \/ \E c \in Cases : SweepCase(c)
  \/ \E w \in Workers : PollerStep(w) \/ ClaimUnlocked(w) \/ ClaimNoneUnlocked(w) \/ HookFinalized(w)
  \/ \E p \in Procs : ProcStep(p) \/ HookReaped(p)
  \/ RTick

RSpec == RInit /\ [][RNext]_allVars

\* What worker w does next of its own accord.
RWork(w) ==
  \/ (ReapExpired(w) /\ UNCHANGED reviewVars) \/ HookReaped(w)
  \/ ClaimUnlocked(w) \/ ClaimNoneUnlocked(w)
  \/ /\ \/ BuildPayload(w) \/ BuildPayloadFails(w)
        \/ FinalizeDone(w) \/ FinalizeRetryable(w) \/ FinalizeRejected(w)
     /\ UNCHANGED reviewVars
  \/ HookFinalized(w)

\* Requests that have started go on, transactions commit, workers work on,
\* time passes.
RFairness ==
  /\ WF_allVars(\E j \in Jobs, r \in Reviews : EnqueueReview(j, r))
  /\ WF_allVars(\E j \in Jobs : CommitEnqueue(j))
  /\ WF_allVars(RegradeReset)
  /\ WF_allVars(RTick)
  /\ \A w \in Workers : WF_allVars(RWork(w))

RFairSpec == RSpec /\ RFairness

-----------------------------------------------------------------------------
\* Whoever still owes review r an outcome: a request or transaction under way,
\* an active job, or a terminal job whose hook has not run yet.
Backed(r) ==
  \/ todo[r] > 0
  \/ \E j \in InFlight : work[j] = r
  \/ \E j \in Jobs : /\ work[j] = r
                     /\ \/ status[j] \in ActiveStatuses
                        \/ \E p \in Procs : j \in dead[p]
                        \/ \E w \in Workers : pc[w] = "hook" /\ held[w] = j

\* The newest job of review r.
IsNewest(j, r) == work[j] = r /\ \A i \in Jobs : work[i] = r => i <= j

\* The hook of its newest job raised: nothing will tell review r.
HookRaised(r) == \E j \in untold : IsNewest(j, r)

\* Unless a process crashes, or the hook of its newest job raised, no review
\* dangles as pending: whatever the order of submits, regrades, supersedes,
\* sweeps, reaps and late hooks, something in the system will still settle a
\* pending review.
PendingIsBacked ==
  crashes = 0 =>
    \A r \in Reviews : rstatus[r] = "pending" => Backed(r) \/ HookRaised(r)

\* RUNNING jobs are never superseded: a running job dies only of its own
\* exhausted attempts.
RunningIsNeverSuperseded ==
  [][\A j \in Jobs : status[j] = "running" /\ status'[j] = "dead" => ~can_retry(j)]_status

\* A grade is not lost: a review leaves DONE only when a regrade_all that has
\* read it resets it.  Neither a supersede or sweep of its next job, whose
\* update is decided before it commits, nor the late failure of an older job
\* takes the grade away.
GradeIsKept ==
  [][\A r \in Reviews :
       rstatus[r] = "done" /\ rstatus'[r] # "done" => r \in latest /\ latest' = {}]_allVars

\* A review has at most one job queued or running, through regrades.
OneActiveJobPerReview ==
  \A i, j \in Jobs :
    /\ status[i] \in ActiveStatuses
    /\ status[j] \in ActiveStatuses
    /\ work[i] = work[j]
    => i = j

\* supersede_queued_reviews dead-letters a queued job only in favour of a newer
\* one of the same case: what it supersedes is never the newest job there is.
SweepKeepsTheNewest ==
  [][\A c \in Cases : keep[c] # NULL /\ keep'[c] = NULL =>
       \A j \in QueuedOf(c) : status'[j] = "dead" =>
         \E i \in CaseJobs(c) : i > j /\ status[i] # "absent"]_allVars

\* Every pending review is eventually done or failed.  A worker that dies in
\* the middle of a job does not keep it from that; what does is a request that
\* dies before its enqueue, a process that dies before its hook, or a hook that
\* raises.
EveryReviewSettles ==
  \A r \in Reviews : rstatus[r] = "pending" ~> (rstatus[r] \in {"done", "failed"} \/ ~Backed(r))
=============================================================================
