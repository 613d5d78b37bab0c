------------------------------ MODULE JobQueue ------------------------------
(***************************************************************************)
(* The Postgres-backed job queue of jobs/queue.py: rows of jobs.models.Job *)
(* that are enqueued, claimed under a lease, heartbeaten, finalized and    *)
(* reaped, together with the programs that drive it: the enqueue callers,  *)
(* the in-process workers (scrape_worker, extract_worker), the HTTP poller *)
(* (review_poller through jobs/views.py) and the reap_jobs sweep.          *)
(*                                                                         *)
(* One action is one database transaction (or one auto-committed           *)
(* statement) of the code: nothing in jobs/queue.py spans two of them      *)
(* atomically, so every other process may run in between.                  *)
(*                                                                         *)
(* Time is relative: lease[j] and avail[j] are the ticks left until        *)
(* lease_expires_at and available_at.  They saturate at the last value     *)
(* the code's comparisons tell apart (lease_expires_at < now,              *)
(* available_at <= now).                                                   *)
(***************************************************************************)
EXTENDS Integers, Sequences, FiniteSets

CONSTANTS
  Jobs,           \* Job rows; row j is the one that enqueue call j would create
  Keys,           \* dedup_key values
  Pollers,        \* HTTP consumers (review_poller)
  InProcess,      \* in-process consumers (scrape_worker, extract_worker)
  Reapers,        \* reap_jobs processes
  NULL,           \* SQL NULL / Python None
  MaxAttempts,    \* KindSpec.max_attempts
  Lease,          \* KindSpec.lease, in ticks
  BackoffTicks,   \* _BACKOFF_SECONDS, in ticks
  BackoffCap,     \* _BACKOFF_CAP, in ticks
  ReapLimit,      \* limit of one sweep
  MaxCrashes      \* bound: process crashes in one behaviour

Workers == Pollers \cup InProcess
Procs   == Workers \cup Reapers

ASSUME NullAssumption ==
  NULL \notin Int /\ NULL \notin Jobs /\ NULL \notin Keys
ASSUME ProcAssumption ==
  Pollers \cap InProcess = {} /\ Workers \cap Reapers = {}
ASSUME LimitAssumption ==
  /\ MaxAttempts \in Nat \ {0}
  /\ Lease \in Nat
  /\ ReapLimit \in Nat \ {0}
  /\ MaxCrashes \in Nat
ASSUME BackoffAssumption ==
  /\ BackoffTicks \in Seq(Nat)
  /\ BackoffTicks # <<>>
  /\ BackoffCap \in Nat

VARIABLES
  \* The table.  A row whose status is "absent" has not been inserted.
  status,     \* [Jobs -> Status]
  attempts,   \* [Jobs -> Nat]
  lease,      \* ticks until lease_expires_at, -1 when lapsed, NULL when NULL
  avail,      \* ticks until available_at, 0 when it has passed
  dedup,      \* dedup_key
  \* The enqueue calls.
  epc,        \* where call j is
  work,       \* the dedup_key call j was made with
  found,      \* the row call j has read into `existing`
  \* The processes.
  pc,         \* where the process is in claim_next / run / finalize
  held,       \* pk of the job the process believes it is running
  token,      \* attempts of that job when it was claimed (in-memory copy)
  posted,     \* status of the last finalize the process made
  dead,       \* dead_jobs of the process's last sweep, hooks still to run
  \* What the kind's domain hooks have been told.
  resultHook, \* calls of on_result per job
  failHook,   \* calls of on_failure per job
  untold,     \* jobs a hook call of which raised, or was skipped for want of a result
  crashes

rowVars  == <<status, attempts, lease, avail, dedup>>
callVars == <<epc, work, found>>
procVars == <<pc, held, token, posted, dead>>
hookVars == <<resultHook, failHook, untold>>
vars     == <<rowVars, callVars, procVars, hookVars, crashes>>

ActiveStatuses   == {"queued", "running"}
TerminalStatuses == {"done", "failed", "dead"}

\* Mutant: a running job counts as finished.
is_terminal_running(j) == status[j] # "queued"

is_terminal(j) == status[j] \in TerminalStatuses
can_retry(j)   == attempts[j] < MaxAttempts

\* Ticks a re-queued job waits, by the number of attempts it has used.
backoff(n) ==
  IF n > Len(BackoffTicks) THEN BackoffCap
  ELSE BackoffTicks[IF n < 1 THEN 1 ELSE n]

TypeOK ==
  /\ status \in [Jobs -> ActiveStatuses \cup TerminalStatuses \cup {"absent"}]
  /\ attempts \in [Jobs -> Nat]
  /\ lease \in [Jobs -> Int \cup {NULL}]
  /\ avail \in [Jobs -> Nat]
  /\ dedup \in [Jobs -> Keys \cup {NULL}]
  /\ epc \in [Jobs -> {"start", "free", "create", "reread", "returned", "raised"}]
  /\ work \in [Jobs -> Keys \cup {NULL}]
  /\ found \in [Jobs -> Jobs \cup {NULL}]
  /\ pc \in [Procs -> {"idle", "swept", "build", "run", "hook", "report"}]
  /\ held \in [Procs -> Jobs \cup {NULL}]
  /\ token \in [Procs -> Nat]
  /\ posted \in [Procs -> {"done", "failed", NULL}]
  /\ dead \in [Procs -> SUBSET Jobs]
  /\ resultHook \in [Jobs -> Nat]
  /\ failHook \in [Jobs -> Nat]
  /\ untold \subseteq Jobs
  /\ crashes \in 0..MaxCrashes

Init ==
  /\ status = [j \in Jobs |-> "absent"]
  /\ attempts = [j \in Jobs |-> 0]
  /\ lease = [j \in Jobs |-> NULL]
  /\ avail = [j \in Jobs |-> 0]
  /\ dedup = [j \in Jobs |-> NULL]
  /\ epc = [j \in Jobs |-> "start"]
  /\ work = [j \in Jobs |-> NULL]
  /\ found = [j \in Jobs |-> NULL]
  /\ pc = [p \in Procs |-> "idle"]
  /\ held = [p \in Procs |-> NULL]
  /\ token = [p \in Procs |-> 0]
  /\ posted = [p \in Procs |-> NULL]
  /\ dead = [p \in Procs |-> {}]
  /\ resultHook = [j \in Jobs |-> 0]
  /\ failHook = [j \in Jobs |-> 0]
  /\ untold = {}
  /\ crashes = 0

-----------------------------------------------------------------------------
(***************************************************************************)
(* enqueue: read the holder of the key, free the key of a finished holder, *)
(* insert, and on IntegrityError read the holder again.                    *)
(***************************************************************************)
Holders(k) == {i \in Jobs : status[i] # "absent" /\ dedup[i] = k}

\* Mutant: frees the key of its holder without asking whether that is finished.
EnqueueRead_frees_active(j, k) ==
  /\ epc[j] = "start"
  /\ work' = [work EXCEPT ![j] = k]
  /\ \/ /\ k = NULL \/ Holders(k) = {}
        /\ epc' = [epc EXCEPT ![j] = "create"]
        /\ UNCHANGED found
     \/ /\ k # NULL
        /\ \E i \in Holders(k) : found' = [found EXCEPT ![j] = i]
        /\ epc' = [epc EXCEPT ![j] = "free"]
  /\ UNCHANGED <<rowVars, procVars, hookVars, crashes>>

\* The first read.  A call with no key goes straight to the insert.
EnqueueRead(j, k) ==
  /\ epc[j] = "start"
  /\ work' = [work EXCEPT ![j] = k]
  /\ \/ /\ k = NULL \/ Holders(k) = {}
        /\ epc' = [epc EXCEPT ![j] = "create"]
        /\ UNCHANGED found
     \/ /\ k # NULL
        /\ \E i \in Holders(k) :
             /\ found' = [found EXCEPT ![j] = i]
             /\ epc' = [epc EXCEPT ![j] = IF is_terminal(i) THEN "free" ELSE "returned"]
  /\ UNCHANGED <<rowVars, procVars, hookVars, crashes>>

\* Prior run finished: its row gives up the key.
EnqueueFree(j) ==
  /\ epc[j] = "free"
  /\ dedup' = [dedup EXCEPT ![found[j]] = NULL]
  /\ epc' = [epc EXCEPT ![j] = "create"]
  /\ UNCHANGED <<status, attempts, lease, avail, work, found, procVars, hookVars, crashes>>

\* The insert; the unique constraint turns a key that is held into "reread".
EnqueueCreate(j) ==
  /\ epc[j] = "create"
  /\ IF work[j] = NULL \/ Holders(work[j]) = {}
     THEN /\ status' = [status EXCEPT ![j] = "queued"]
          /\ dedup' = [dedup EXCEPT ![j] = work[j]]
          /\ found' = [found EXCEPT ![j] = j]
          /\ epc' = [epc EXCEPT ![j] = "returned"]
     ELSE /\ epc' = [epc EXCEPT ![j] = "reread"]
          /\ UNCHANGED <<status, dedup, found>>
  /\ UNCHANGED <<attempts, lease, avail, work, procVars, hookVars, crashes>>

\* Mutant: returns the row of the first read instead of reading again.
EnqueueReread_stale(j) ==
  /\ epc[j] = "reread"
  /\ epc' = [epc EXCEPT ![j] = "returned"]
  /\ UNCHANGED <<work, found, rowVars, procVars, hookVars, crashes>>

\* Lost the dedup race: return whoever holds the key now, or re-raise.
EnqueueReread(j) ==
  /\ epc[j] = "reread"
  /\ \/ \E i \in Holders(work[j]) :
          /\ found' = [found EXCEPT ![j] = i]
          /\ epc' = [epc EXCEPT ![j] = "returned"]
     \/ /\ Holders(work[j]) = {}
        /\ epc' = [epc EXCEPT ![j] = "raised"]
        /\ UNCHANGED found
  /\ UNCHANGED <<work, rowVars, procVars, hookVars, crashes>>

-----------------------------------------------------------------------------
(***************************************************************************)
(* reap_expired: the sweep at the head of every claim_next, and the whole  *)
(* body of the reap_jobs command.  Its transaction takes the lapsed rows   *)
(* it can lock (SKIP LOCKED), at most ReapLimit of them.                   *)
(***************************************************************************)
LeaseLapsed(j) == status[j] = "running" /\ lease[j] # NULL /\ lease[j] < 0

\* Mutant: the sweep only takes rows it can re-queue.
Lapsed_retryable == {j \in Jobs : LeaseLapsed(j) /\ can_retry(j)}

Lapsed == {j \in Jobs : LeaseLapsed(j)}

\* Mutant: a retryable failure is re-queued whether or not attempts are left.
Outcome_unbounded(j, st, retryable) ==
  IF st = "done" THEN "done" ELSE IF ~retryable THEN "failed" ELSE "queued"

\* Mutant: the stage of a scheduled retry is written into the status.
Outcome_stage(j, st, retryable) ==
  IF st = "done" THEN "done"
  ELSE IF ~retryable THEN "failed"
  ELSE IF can_retry(j) THEN "retry_scheduled" ELSE "dead"

\* Where finalize leaves a row, given what the worker reported; a lapsed
\* lease counts as a retryable failure.
Outcome(j, st, retryable) ==
  IF st = "done" THEN "done"
  ELSE IF ~retryable THEN "failed"
  ELSE IF can_retry(j) THEN "queued" ELSE "dead"

ReapOutcome(j) == Outcome(j, "failed", TRUE)

\* Mutant: the sweep buries jobs without remembering them for their hooks.
ReapExpired_forgets(p) ==
  /\ pc[p] = "idle"
  /\ \E S \in SUBSET Lapsed :
       /\ Cardinality(S) <= ReapLimit
       /\ Lapsed # {} => S # {}
       /\ status' = [j \in Jobs |-> IF j \in S THEN ReapOutcome(j) ELSE status[j]]
       /\ lease' = [j \in Jobs |-> IF j \in S THEN NULL ELSE lease[j]]
       /\ avail' = [j \in Jobs |-> IF j \in S /\ can_retry(j)
                                   THEN backoff(attempts[j]) ELSE avail[j]]
  /\ pc' = [pc EXCEPT ![p] = "swept"]
  /\ UNCHANGED <<attempts, dedup, callVars, held, token, posted, dead, hookVars, crashes>>

ReapExpired(p) ==
  /\ pc[p] = "idle"
  /\ \E S \in SUBSET Lapsed :
       /\ Cardinality(S) <= ReapLimit
       /\ Lapsed # {} => S # {}
       /\ status' = [j \in Jobs |-> IF j \in S THEN ReapOutcome(j) ELSE status[j]]
       /\ lease' = [j \in Jobs |-> IF j \in S THEN NULL ELSE lease[j]]
       /\ avail' = [j \in Jobs |-> IF j \in S /\ can_retry(j)
                                   THEN backoff(attempts[j]) ELSE avail[j]]
       /\ dead' = [dead EXCEPT ![p] = {j \in S : ~can_retry(j)}]
  /\ pc' = [pc EXCEPT ![p] = "swept"]
  /\ UNCHANGED <<attempts, dedup, callVars, held, token, posted, hookVars, crashes>>

\* The kind is called about job j.  A call that raises is logged and dropped:
\* nobody makes it again.
OnFailure(j) ==
  /\ \/ failHook' = [failHook EXCEPT ![j] = @ + 1] /\ UNCHANGED untold
     \/ untold' = untold \cup {j} /\ UNCHANGED failHook
  /\ UNCHANGED resultHook

\* on_result, which is also skipped when the worker posted no result: an
\* in-process handler may return None (the HTTP serializer refuses it).
OnResult(j) ==
  /\ \/ resultHook' = [resultHook EXCEPT ![j] = @ + 1] /\ UNCHANGED untold
     \/ untold' = untold \cup {j} /\ UNCHANGED resultHook
  /\ UNCHANGED failHook

\* After the commit the sweep notifies the dead jobs' domain records.
ReapFailureHook(p) ==
  /\ pc[p] = "swept"
  /\ \E j \in dead[p] :
       /\ OnFailure(j)
       /\ dead' = [dead EXCEPT ![p] = @ \ {j}]
  /\ UNCHANGED <<rowVars, callVars, pc, held, token, posted, crashes>>

\* reap_jobs sleeps until its next sweep.
SweepDone(p) ==
  /\ p \in Reapers
  /\ pc[p] = "swept"
  /\ dead[p] = {}
  /\ pc' = [pc EXCEPT ![p] = "idle"]
  /\ UNCHANGED <<rowVars, callVars, held, token, posted, dead, hookVars, crashes>>

-----------------------------------------------------------------------------
(***************************************************************************)
(* claim_next after its sweep.                                             *)
(***************************************************************************)
Claimable == {j \in Jobs : status[j] = "queued" /\ avail[j] = 0}

\* Mutant: claims without stamping a lease.
Claim_unleased(w) ==
  /\ pc[w] = "swept"
  /\ dead[w] = {}
  /\ \E j \in Claimable :
       /\ status' = [status EXCEPT ![j] = "running"]
       /\ attempts' = [attempts EXCEPT ![j] = @ + 1]
       /\ held' = [held EXCEPT ![w] = j]
       /\ token' = [token EXCEPT ![w] = attempts[j] + 1]
  /\ pc' = [pc EXCEPT ![w] = "build"]
  /\ UNCHANGED <<lease, avail, dedup, callVars, posted, dead, hookVars, crashes>>

\* Mutant: claims without counting the attempt.
Claim_uncounted(w) ==
  /\ pc[w] = "swept"
  /\ dead[w] = {}
  /\ \E j \in Claimable :
       /\ status' = [status EXCEPT ![j] = "running"]
       /\ lease' = [lease EXCEPT ![j] = Lease]
       /\ held' = [held EXCEPT ![w] = j]
       /\ token' = [token EXCEPT ![w] = attempts[j]]
  /\ pc' = [pc EXCEPT ![w] = "build"]
  /\ UNCHANGED <<attempts, avail, dedup, callVars, posted, dead, hookVars, crashes>>

\* SELECT ... FOR UPDATE SKIP LOCKED: which claimable row is taken depends on
\* the rows others have locked, so any may be.
Claim(w) ==
  /\ pc[w] = "swept"
  /\ dead[w] = {}
  /\ \E j \in Claimable :
       /\ status' = [status EXCEPT ![j] = "running"]
       /\ attempts' = [attempts EXCEPT ![j] = @ + 1]
       /\ lease' = [lease EXCEPT ![j] = Lease]
       /\ held' = [held EXCEPT ![w] = j]
       /\ token' = [token EXCEPT ![w] = attempts[j] + 1]
  /\ pc' = [pc EXCEPT ![w] = "build"]
  /\ UNCHANGED <<avail, dedup, callVars, posted, dead, hookVars, crashes>>

ClaimNothing(w) ==
  /\ pc[w] = "swept"
  /\ dead[w] = {}
  /\ Claimable = {}
  /\ pc' = [pc EXCEPT ![w] = "idle"]
  /\ UNCHANGED <<rowVars, callVars, held, token, posted, dead, hookVars, crashes>>

\* build_payload ran after the row is RUNNING and committed.
BuildPayload(w) ==
  /\ pc[w] = "build"
  /\ pc' = [pc EXCEPT ![w] = "run"]
  /\ UNCHANGED <<rowVars, callVars, held, token, posted, dead, hookVars, crashes>>

-----------------------------------------------------------------------------
(***************************************************************************)
(* touch: the guard reads the caller's in-memory status, which stays       *)
(* RUNNING for as long as the worker runs, and the UPDATE names only the   *)
(* lease; the row itself is neither locked nor looked at.                  *)
(***************************************************************************)
Touch(w) ==
  /\ pc[w] = "run"
  /\ lease' = [lease EXCEPT ![held[w]] = Lease]
  /\ UNCHANGED <<status, attempts, avail, dedup, callVars, procVars, hookVars, crashes>>

(***************************************************************************)
(* finalize: one transaction on the locked row, guarded only by RUNNING;   *)
(* JobNotRunning otherwise.                                                *)
(***************************************************************************)
\* Mutant: finalize without its guard.
FinalizeRow_unguarded(j, st, retryable) ==
  /\ status' = [status EXCEPT ![j] = Outcome(j, st, retryable)]
  /\ lease' = [lease EXCEPT ![j] = NULL]
  /\ avail' = [avail EXCEPT ![j] = IF Outcome(j, st, retryable) = "queued"
                                   THEN backoff(attempts[j]) ELSE @]

FinalizeRow(j, st, retryable) ==
  /\ status[j] = "running"
  /\ status' = [status EXCEPT ![j] = Outcome(j, st, retryable)]
  /\ lease' = [lease EXCEPT ![j] = NULL]
  /\ avail' = [avail EXCEPT ![j] = IF Outcome(j, st, retryable) = "queued"
                                   THEN backoff(attempts[j]) ELSE @]

\* Process w calls finalize from one of the program points in From.
Finalize(w, From, st, retryable) ==
  /\ pc[w] \in From
  /\ FinalizeRow(held[w], st, retryable)
  /\ posted' = [posted EXCEPT ![w] = st]
  /\ pc' = [pc EXCEPT ![w] = "hook"]
  /\ UNCHANGED <<attempts, dedup, callVars, held, token, dead, hookVars, crashes>>

BuildPayloadFails(w) == Finalize(w, {"build"}, "failed", FALSE)
FinalizeDone(w)      == Finalize(w, {"run"}, "done", FALSE)
FinalizeRetryable(w) == Finalize(w, {"run", "report"}, "failed", TRUE)
\* scrape_worker, extract_worker: a failure of a _NON_RETRYABLE type.
FinalizeFatal(w)     == w \in InProcess /\ Finalize(w, {"run"}, "failed", FALSE)

Drop(w) ==
  /\ pc' = [pc EXCEPT ![w] = "idle"]
  /\ held' = [held EXCEPT ![w] = NULL]
  /\ token' = [token EXCEPT ![w] = 0]
  /\ posted' = [posted EXCEPT ![w] = NULL]
  /\ dead' = [dead EXCEPT ![w] = {}]

\* JobNotRunning.  In-process workers drop the result.  The poller's handler
\* turns the 409 of a "done" submission into a "failed" submission, and gives
\* up on the 409 of that.
FinalizeRejected(w) ==
  /\ pc[w] \in {"build", "run", "report"}
  /\ status[held[w]] # "running"
  /\ \/ Drop(w)
     \/ /\ w \in Pollers
        /\ pc[w] = "run"
        /\ pc' = [pc EXCEPT ![w] = "report"]
        /\ UNCHANGED <<held, token, posted, dead>>
  /\ UNCHANGED <<rowVars, callVars, hookVars, crashes>>

\* Mutant: calls the hook the worker's report asks for, not the row's status.
FinalizeHook_reported(w) ==
  /\ pc[w] = "hook"
  /\ IF posted[w] = "done" THEN OnResult(held[w]) ELSE OnFailure(held[w])
  /\ Drop(w)
  /\ UNCHANGED <<rowVars, callVars, crashes>>

\* After the commit finalize re-reads the row and calls the hook its status
\* asks for; a failure has no result, so a row that has become DONE meanwhile
\* is not reported by it.  The response to a poller's "done" may be lost: the
\* poller then reports a failure.
FinalizeHook(w) ==
  /\ pc[w] = "hook"
  /\ LET j == held[w] IN
       \/ status[j] = "done" /\ posted[w] = "done" /\ OnResult(j)
       \/ status[j] \in {"failed", "dead"} /\ OnFailure(j)
       \/ /\ ~(status[j] = "done" /\ posted[w] = "done")
          /\ status[j] \notin {"failed", "dead"}
          /\ UNCHANGED hookVars
  /\ \/ Drop(w)
     \/ /\ w \in Pollers
        /\ posted[w] = "done"
        /\ pc' = [pc EXCEPT ![w] = "report"]
        /\ UNCHANGED <<held, token, posted, dead>>
  /\ UNCHANGED <<rowVars, callVars, crashes>>

-----------------------------------------------------------------------------
\* A process dies: whatever it held in memory is gone, its rows stay.
Crash(p) ==
  /\ crashes < MaxCrashes
  /\ pc[p] # "idle"
  /\ Drop(p)
  /\ crashes' = crashes + 1
  /\ UNCHANGED <<rowVars, callVars, hookVars>>

\* One tick of the database clock.
Tick ==
  /\ lease' = [j \in Jobs |-> IF lease[j] = NULL THEN NULL
                              ELSE IF lease[j] < 0 THEN lease[j] ELSE lease[j] - 1]
  /\ avail' = [j \in Jobs |-> IF avail[j] = 0 THEN 0 ELSE avail[j] - 1]
  /\ UNCHANGED <<status, attempts, dedup, callVars, procVars, hookVars, crashes>>

EnqueueStep(j) ==
  \/ \E k \in Keys \cup {NULL} : EnqueueRead(j, k)
  \/ EnqueueFree(j)
  \/ EnqueueCreate(j)
  \/ EnqueueReread(j)

WorkerStep(w) ==
  \/ Claim(w)
  \/ ClaimNothing(w)
  \/ BuildPayload(w)
  \/ BuildPayloadFails(w)
  \/ Touch(w)
  \/ FinalizeDone(w)
  \/ FinalizeRetryable(w)
  \/ FinalizeFatal(w)
  \/ FinalizeRejected(w)
  \/ FinalizeHook(w)

SweepStep(p) == ReapExpired(p) \/ ReapFailureHook(p) \/ SweepDone(p)

Next ==
  \/ \E j \in Jobs : EnqueueStep(j)
  \/ \E w \in Workers : WorkerStep(w)
  \/ \E p \in Procs : SweepStep(p)
  \/ \E p \in Procs : Crash(p)
  \/ Tick

Spec == Init /\ [][Next]_vars

(***************************************************************************)
(* Fairness.  Time passes.  A worker that has not crashed keeps polling    *)
(* (its main loop), finishes the attempt it runs (its handler has          *)
(* timeouts) and runs its hook; nothing is owed by callers or by touch.    *)
(***************************************************************************)
WorkerFairness(w) ==
  /\ WF_vars(ReapExpired(w))
  /\ WF_vars(ReapFailureHook(w))
  /\ WF_vars(Claim(w))
  /\ WF_vars(ClaimNothing(w))
  /\ WF_vars(BuildPayload(w) \/ BuildPayloadFails(w))
  /\ WF_vars(FinalizeDone(w) \/ FinalizeRetryable(w) \/ FinalizeFatal(w) \/ FinalizeRejected(w))
  /\ WF_vars(FinalizeHook(w))

FairSpec == Spec /\ WF_vars(Tick) /\ \A w \in Workers : WorkerFairness(w)

-----------------------------------------------------------------------------
(***************************************************************************)
(* Safety                                                                  *)
(***************************************************************************)

\* No job is ever run more than max_attempts times, whoever re-queues it
\* (finalize or the sweep) and however late: a row that waits in the queue
\* always has an attempt left.
AttemptsBounded ==
  \A j \in Jobs :
    /\ attempts[j] <= MaxAttempts
    /\ status[j] = "queued" => can_retry(j)

\* A RUNNING row always carries a lease.  The sweep's filter
\* lease_expires_at < now is never true of NULL, so a RUNNING row without a
\* lease whose worker died would be stuck for ever.
RunningIsLeased ==
  \A j \in Jobs : status[j] = "running" => lease[j] # NULL

\* The same logical work is never queued or running twice, whatever enqueue
\* calls race: the key of an active job is never freed, although enqueue
\* decides to free it from an earlier, unlocked read.
OneActivePerKey ==
  \A i, j \in Jobs :
    /\ status[i] \in ActiveStatuses
    /\ status[j] \in ActiveStatuses
    /\ work[i] = work[j]
    /\ work[i] # NULL
    => i = j

\* Every enqueue call that returns returns a row that was created for the key
\* it asked for, also when it lost the insert race.
ReturnedJobIsForTheKey ==
  \A j \in Jobs :
    epc[j] = "returned" =>
      /\ found[j] # NULL
      /\ status[found[j]] # "absent"
      /\ work[found[j]] = work[j]

\* No two live workers hold the same attempt of the same job: SKIP LOCKED and
\* the attempts counter hand out each attempt once, across reaps and retries.
AttemptsHandedOutOnce ==
  \A v, w \in Workers :
    /\ v # w
    /\ pc[v] \in {"build", "run"}
    /\ pc[w] \in {"build", "run"}
    /\ held[v] = held[w]
    => token[v] # token[w]

\* The domain record is told of the outcome the row really has: on_result at
\* most once and only for a DONE job, on_failure only for a FAILED or DEAD
\* one, although both run after the commit and on a re-read row.
HooksMatchOutcome ==
  \A j \in Jobs :
    /\ resultHook[j] <= 1
    /\ resultHook[j] > 0 => status[j] = "done"
    /\ failHook[j] > 0 => status[j] \in {"failed", "dead"}

\* Job j's domain record has been told of its terminal state.
Told(j) == IF status[j] = "done" THEN resultHook[j] > 0 ELSE failHook[j] > 0

\* Without a crash the only terminal outcomes that are dropped are those whose
\* own hook call raised or had no result to give: of every other job the record
\* has been told, or the process that owes the call still has it in memory.
OutcomeIsOwedOrTold ==
  crashes = 0 =>
    \A j \in Jobs : is_terminal(j) =>
      \/ Told(j) \/ j \in untold
      \/ \E p \in Procs : j \in dead[p]
      \/ \E w \in Workers : pc[w] = "hook" /\ held[w] = j

\* A terminal row stays what it is: no zombie submission, lost response,
\* heartbeat, sweep or later enqueue of the same key revives or rewrites it.
TerminalIsFinal ==
  [][\A j \in Jobs : is_terminal(j) => status'[j] = status[j]]_status

\* finalize and JobNotRunning (jobs/queue.py): a worker whose lease was
\* reaped and whose job was re-claimed by someone else does not change the
\* row.  Only the worker that holds the current attempt finalizes it.
ZombieNeverClobbers ==
  [][\A w \in Workers :
       pc[w] # "hook" /\ pc'[w] = "hook" => token[w] = attempts[held[w]]]_vars

-----------------------------------------------------------------------------
(***************************************************************************)
(* The inductive invariant behind the safety properties                    *)
(***************************************************************************)

\* Only a worker is past the sweep, and then it holds a job; the sweep's own
\* hooks are done by then.
HeldInv ==
  \A p \in Procs :
    /\ pc[p] \in {"build", "run", "hook", "report"} => p \in Workers /\ held[p] \in Jobs
    /\ pc[p] # "swept" => dead[p] = {}

\* A row not yet inserted has run no attempt and holds no key.
AbsentInv ==
  \A j \in Jobs : status[j] = "absent" => attempts[j] = 0 /\ dedup[j] = NULL

\* A row's key is the one its call asked for, until the row is finished and
\* some call frees it; no two rows hold one key; the row a call is about to
\* free was terminal when read and still is.
KeyInv ==
  /\ \A j \in Jobs : status[j] # "absent" => epc[j] = "returned"
  /\ \A j \in Jobs : dedup[j] \in {work[j], NULL}
  /\ \A j \in Jobs : status[j] \in ActiveStatuses => dedup[j] = work[j]
  /\ \A j \in Jobs : epc[j] = "free" => found[j] \in Jobs /\ is_terminal(found[j])
  /\ \A j \in Jobs : epc[j] = "reread" => work[j] # NULL
  /\ \A i, j \in Jobs :
       /\ status[i] # "absent" /\ status[j] # "absent"
       /\ dedup[i] = dedup[j] /\ dedup[i] # NULL
       => i = j

\* A worker's in-memory attempt is never ahead of the row's.
TokenInv ==
  \A w \in Workers :
    pc[w] \in {"build", "run"} => token[w] <= attempts[held[w]]

\* A process that owes on_result owes it to a DONE job nobody has told, and
\* owes it alone; what the sweep owes on_failure to is DEAD.
HookInv ==
  /\ \A w \in Workers :
       pc[w] = "hook" /\ posted[w] = "done" =>
         status[held[w]] = "done" /\ resultHook[held[w]] = 0
  /\ \A v, w \in Workers :
       /\ pc[v] = "hook" /\ posted[v] = "done"
       /\ pc[w] = "hook" /\ posted[w] = "done"
       /\ held[v] = held[w]
       => v = w
  /\ \A p \in Procs : \A j \in dead[p] : status[j] = "dead"

\* Who still owes the hook of a terminal row.
OwedInv ==
  crashes = 0 =>
    \A j \in Jobs :
      /\ status[j] = "done" /\ resultHook[j] = 0 /\ j \notin untold =>
           \E w \in Workers : pc[w] = "hook" /\ held[w] = j /\ posted[w] = "done"
      /\ status[j] \in {"failed", "dead"} /\ failHook[j] = 0 /\ j \notin untold =>
           \/ \E p \in Procs : j \in dead[p]
           \/ \E w \in Workers : pc[w] = "hook" /\ held[w] = j

\* The conjunction is preserved by every step of the queue; each safety
\* property above is one of its conjuncts or follows from one.
IInv ==
  /\ TypeOK
  /\ HeldInv
  /\ AbsentInv
  /\ AttemptsBounded
  /\ RunningIsLeased
  /\ KeyInv
  /\ ReturnedJobIsForTheKey
  /\ TokenInv
  /\ AttemptsHandedOutOnce
  /\ HookInv
  /\ HooksMatchOutcome
  /\ OwedInv

-----------------------------------------------------------------------------
(***************************************************************************)
(* Refinement                                                              *)
(***************************************************************************)
Lifecycle == INSTANCE JobLifecycle

\* Whatever enqueue, claim_next, finalize, touch and reap_expired do to the
\* table, each row lives the life JobLifecycle allows: attempts grow by one
\* per claim and never past max_attempts, a retry needs an attempt left, DEAD
\* needs none left, and nothing leaves a terminal status.
ImplementsLifecycle == Lifecycle!Spec

-----------------------------------------------------------------------------
(***************************************************************************)
(* Liveness, under FairSpec                                                *)
(***************************************************************************)

\* Every job that is queued or running is eventually finished, through
\* crashes, lapsed leases, retries and zombies: attempts are finite and the
\* sweep frees what a dead worker left behind.
EveryJobFinishes ==
  \A j \in Jobs : status[j] \in ActiveStatuses ~> is_terminal(j)

\* The domain record of a finished job is eventually told, unless its hook
\* raises or a process crashes before the call.
EveryOutcomeIsTold ==
  \A j \in Jobs : is_terminal(j) ~> (Told(j) \/ j \in untold \/ crashes > 0)
=============================================================================
