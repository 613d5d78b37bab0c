# A verification development of the Jawafdehi platform

TLA+ modules, TLC configurations and TLAPS proofs for the concurrent core of
this repository: the Postgres job queue and what is built on it, the NATS event
bus, the enrichment pipeline that runs over both, the writers of a case and the
writers of a material. Paths in this file are relative to the repository root.

1. [Inventory](#1-inventory): the parts of the system, their state, what is hard
2. [Modules](#2-modules): what models what, and how actions correspond to code
3. [Runs](#3-runs): what each run checks, its bounds, what it shows
4. [Fairness](#4-fairness)
5. [Proofs](#5-proofs)
6. [Where the code and its text disagree](#6-where-the-code-and-its-text-disagree)
7. [What is not modelled](#7-what-is-not-modelled)
8. [Plan](#8-plan)

## 1. Inventory

The repository is a Django monolith. Most of it reads and writes single rows on
behalf of single requests; the parts below are where several processes,
transactions or brokers meet.

| part | state | operations | hard behaviour | what makes it correct |
|---|---|---|---|---|
| `jobs` queue (`jobs/queue.py`, `models.py`) | `Job` rows: status, attempts, lease, available_at, dedup_key | `enqueue`, `claim_next`, `touch`, `finalize`, `reap_expired` | every call is several transactions; workers die, stall, come back as zombies; leases lapse; a hook that raises is swallowed | a key has one active job; an attempt has one worker; attempts are bounded; terminal is final; every job finishes; the domain record learns the row's real outcome |
| workers (`scrape_worker`, `extract_worker`, `review_poller` over `jobs/views.py`, `reap_jobs`) | the job in memory | poll, claim, heartbeat, submit, report failure | lost responses, 409s, crashes between claim and finalize | as above |
| `review` (`views.py`, `supersede.py`, `supersede_queued_reviews`, hooks in `jobs/consumers.py`) | `CaseReview.status` next to the job rows | submit, regrade all, supersede, backlog sweep, on_result/on_failure | READ COMMITTED transactions that see parts of each other | no review dangles as pending; running work is not superseded; terminal jobs stay terminal |
| bus consumers (`case_events/consumers`) | JetStream's delivery counts, a fetched batch, the DLQ | fetch, handle, ack/nak/term, dead-letter | at-least-once delivery, slow batches, lost acks and fetch answers, connections that close for good, kills on the last delivery | nothing leaves the stream unprocessed and unburied; nothing is buried early |
| bus publisher (`case_events/bus.py`) | one `_Bus` per process: connection, `_starting`, `_pid`, retry window | `_ensure_started`, `publish`, `close` | threads racing, fork, outages | one connection per process, never an inherited one, recovery |
| bus handlers and producers (`handlers.py`, `producers/`) | dedup keys, no watermark | scan a window, match, build proposals, notify, derive | the same fact re-observed for days, publishes that fail half-way, redelivery | one proposal per fact and slug, decisions final, no fact lost on the way |
| `case_proposals` | `CaseUpdateProposal.status` and `intent`, the Case it edits | stage, edit, approve, reject, apply | two reviewers, two proposals of a case, model calls that last minutes | applied exactly once as recorded, no lost edit |
| `cases` | the Case row and joins, ETag, slug history | PATCH, transitions, rename, DELETE | concurrent PATCHes, snapshots taken before the lock, stale instances | no lost update under If-Match, closed is final, old addresses lead to the case |
| `materials` | the Material document, R2 objects, `job.result`, the visibility column | upload, convert, scrub, PATCH, recompute | two databases, partial failure, reads before the lock, lost on-commit calls | no unredacted transcript remains, nobody drops what another linked without meaning to, the visibility settles |
| `entities`, `courts`, `search`, `discovery`, `newsletter`, `llm`, `lakehouse`, `content`, `casework`, `case_tags`, `jawafdehi_mcp` | rows, indexes, external services | CRUD, scraping, rendering, calls | little concurrency of their own | see section 7 |

How they interact: producers publish signals; consumers turn them into matches
and enqueue `case_intent` jobs; workers run jobs and their hooks write the
domain records (reviews, proposals, materials); reviewers decide proposals,
which edit cases; decisions are published on the bus again. The queue is the
joint of all of them, which is why it is modelled and proved first.

`PROJECT.json` lists every component, every hazard at its line and the
properties that cover it.

## 2. Modules

One action is one database transaction or one auto-committed statement (queue,
review), one broker call or handler call (consumer), one critical section under
the lock (publisher).

### JobLifecycle: what a row promises

The abstract specification of `jobs/models.py`: a row is created queued, started
with an attempt left (attempts + 1), retried only with an attempt left, finished
(`done`, `failed`), or buried (`dead`) only with none left. Nothing leaves a
terminal status.

### JobQueue: the queue and its callers

| code | actions |
|---|---|
| `enqueue` | `EnqueueRead` (unlocked read of the key's holder), `EnqueueFree` (free a finished holder's key), `EnqueueCreate` (insert against the unique constraint), `EnqueueReread` (after IntegrityError) |
| `claim_next` | `ReapExpired`, `ReapFailureHook`, then `Claim` or `ClaimNothing`, then `BuildPayload` or `BuildPayloadFails` |
| `touch` | `Touch`, allowed whenever the worker runs: its guard reads an instance in memory, never the row |
| `finalize` | `FinalizeDone`, `FinalizeRetryable`, `FinalizeFatal` (in-process workers only), `FinalizeRejected` (JobNotRunning, 409), `FinalizeHook` (after the commit: `OnResult` or `OnFailure`) |
| `reap_jobs` | `ReapExpired`, `ReapFailureHook`, `SweepDone` of a process in `Reapers` |
| poller's error path | pc `"report"`: a 409 or a lost response to "done" is followed by a "failed" submission |

State: the columns `status, attempts, lease, avail, dedup` per row; the program
point and locals of each enqueue call (`epc, work, found`); of each process
(`pc, held, token, posted, dead`), where `token` is the attempts value the worker
saw when it claimed, a ghost the code does not use; counters of the hook calls that
came to their end; and `untold`, the jobs whose hook raised, which `finalize` and
`_apply_failure` log and swallow, or whose result was None, for which there is no call.
Time is the number of ticks left of a lease or a backoff, saturating where the
code's comparisons stop telling values apart. A claim may take any claimable
row: priorities and ids order them, but SKIP LOCKED makes the result depend on
others' locks. A sweep takes any non-empty set of at most `ReapLimit` lapsed
rows for the same reason; that it takes one if there is one is where the model
relies on a row being locked only while another transaction is working on it.

### ReviewJobs: reviews on top of the queue

Extends JobQueue and joins its steps with the case_review hooks
(`HookFinalized`, `HookReaped`). `SubmitReview` and `RegradeRead`/`RegradeReset`
commit the review rows and leave an `_enqueue_review_job` to be made (`todo`). A hook
that raises leaves its review as it is: each makes one statement.
`RequestLost` is a web process that dies in between. `EnqueueReview` is the body
of that transaction (insert, select and lock the stale jobs with SKIP LOCKED,
update their reviews), `CommitEnqueue` makes it visible, `RollBack` undoes it.
Between the two, others see none of it, skip its locked rows and wait for its
updated ones. The reads and writes of the transaction are one action because
nothing others commit between them changes what they return, except the row
locks that the model has: the select skips locked rows, and the unique index
makes a second insert of the same key wait. `SweepRead`/`SweepCase` are the
backlog command. The transaction of a `SweepCase` is one step: a `regrade_all` in the
middle of it would matter only to a queued job whose review is settled already, which
takes another `regrade_all` before (that race is in `review_dangling`, between a regrade
and an enqueue). One regrade at a time is between its read and its reset; their enqueues
overlap. A superseded job is dead with attempts left, which
JobLifecycle does not allow for the queue alone, so this module is not checked
against it.

### Delivery and BusConsumer: one durable and its replicas

`Delivery` is what the rest of the system may rely on: each message is open from
its publication until it is accounted for (a handler has processed it or a copy
is on the DLQ) or lost, whichever it becomes stays so, the broker is told to
forget only what is accounted for, and only a message whose own last delivery came to
nothing (`abandoned`) is lost. `BusConsumer` reaches it through
`Ledger == INSTANCE Delivery WITH fate <- [m \in Msgs |-> Fate(m)], ...`: a
message is lost when the broker has dropped it and nobody holds a delivery of it.

The replica: `Fetch`, `FetchTimesOut`, `FetchFails` and `FetchOnClosed`, with
`CountFailure` (`MAX_CONSECUTIVE_FETCH_FAILURES`, then the process exits), then
`Handle`, `Ack`, `Nak`, `DeadLetter` + `Term` or `DeadLetterFails` (nak instead), each
as `run_one` and `process_message` order them; `decide` is translated as it stands. A
settle call may be lost (`_settle` swallows it). The stop event is looked at only
before a fetch (`Stops`); a kill may come at any time.

The broker is external. It counts a delivery when it answers a pull (`HandOut`), and
the answer may be lost on its way (`LoseAnswer`), whether the fetch then raises or
times out: the messages in it have a delivery less, and nobody has seen one whose last
it was. A delivery that is not settled in time (`AckWaitLapses`) or nakked is ready
again until `max_deliver`, then dropped. An ack of a delivery that has already been
redelivered still settles the message, an ack after the drop does not bring it back. A
connection may close for good (`ConnectionCloses`): every fetch raises from then on,
until the process has come back with another.

### BusConnection: the publisher

`EnsureStarted` is the critical section of `_ensure_started` (reset after a
fork, return the connection, give up, or go and connect); `Connected` and
`ConnectFails` end the connect made outside the lock; `Published`, `Close`,
`CoolingEnds`; `Fork` copies the object into a child without its threads. `live`
is a ghost: the loops that really run in a process.

### EditLedger and CaseEdits: the writers of a case

`EditLedger` is what an editor is promised: an edit made with If-Match, or a
proposal that is approved, takes effect once, whole, on top of everything in
force, and moves the case only where it asks to. An edit without If-Match, and a
DELETE, may take others out of force: that is what the code offers them.

`CaseEdits` has the locks and reads of the code, one by one:

| code | actions |
|---|---|
| GET, then `partial_update` (`cases/api_views.py`) | `Load`, `ReadRow` (`get_object`, first ETag test), `ReadJoins` (the rest of `_build_snapshot`), `LockCase` (lock, second ETag test), `WritePatch` (the look-up under the lock, every column from the snapshot, the joins that operations name, transition, `CaseSlugHistory.record`), `AbortPatch` |
| `destroy` | `ReadForDelete` (no lock), `SaveClosed` (the whole row) |
| `_decide`, `edit_intent` (`case_proposals/views.py`) | `Open`, `Conflict`, `Reject`, `EditIntent`, `Approve` (proposal lock), `TakeCase` (case lock, found by the slug on file), `Apply`, `AbortApproval` |

What a case says is the set of edits it shows, in its columns and in its joins,
because the two are written differently. `Shown` is the refinement mapping:
`EditsAreAtomic == Ledger!Spec` with `Ledger == INSTANCE EditLedger WITH inForce
<- Shown, ...`. A transaction's writes are seen at its commit. `version` stands
for `updated_at`, whose values are taken to be distinct. Field validation is one
choice between `WritePatch` and `AbortPatch`. Each PATCH and DELETE is made at
most once and a proposal is one of the constants, so the behaviours are finite.

### FactLedger and Enrichment: from a docket row to a decided proposal

`FactLedger` is the promise about a key, a fact and the slug of a case it concerns:
unseen, then open, then a proposal or a record of why there is none, from which it may
be taken up again, or lost to a fault; a decided proposal is where it ends. When a case
gets another slug (`FactLedger!Rename`), a fact that is only a signal yet goes on under
the new slug; what is further on stays under the old one. `Enrichment` is the chain
that has to keep it:

| code | actions |
|---|---|
| `producers/dockets.py` | `PublishWindow(limit, sent)`: the stateless window, oldest rows first, `--limit` of them, of which some are sent |
| `handle_matcher`, `_matched_dedup_key` | `Match`, `MatchFails` (a publish or the ack fails: redelivered; after the last delivery buried, or gone) |
| `handle_proposal_builder`, `enqueue` | `BuilderChecks` (`already_staged`), `BuilderEnqueues` (the key's active job or a new one), `BuilderFails` |
| the queue, for this kind | `Claim`, `AttemptFails` (retry or `on_failure`), `Answer` (DONE; the key is free, the hook is yet to run) |
| `job_kind.on_result` | `Decline`, `HookChecks` (`already_staged` again), `HookSaves` (the unique `dedup_key`), `HookDies` (killed, or raised and swallowed) |
| `CaseQuerySet.update`, PATCH | `Rename` |
| the caseworker | `Decide` |

The bus and the queue appear by their promises (Delivery, JobQueue), not by
their steps: an undelivered message is delivered again until it is acked or its
deliveries are spent, after which it is on the DLQ or, as in Delivery, lost; a key has
one active row; an answered job's hook runs after the key is free, which is why a second
job of the same key can run next to it. The record "closed" stands for what says why
there is no proposal: the result of a job, its dead letter, a message on the DLQ. The
record "lost" is a ghost: nothing in the system says why. Which cases a fact concerns is
a constant; under which slug is state. A verdict is ordered by `updated_at` and comes
into the window again with each update; the model has the rows of the hearings, which
are ordered by `created_at` and enter once. `excused` counts, for a row not published
yet, the runs of its window that could not publish it.

### Materials: the writers of a material

One material with its document (the set of what it links), its policy and its
visibility, the cases that cite it (in the other database), and those who write
it. `patch_validation.py:53` leaves the links open to PATCH and a PUT or POST replaces
the document, so an editor may take any link away or bring one back:

| code | actions |
|---|---|
| `material_file_upload` (`materials/views.py`) | `UploadReads` (no lock), `UploadWrites` (replaces the document, revives the row), `UploadEnqueues` |
| `_patch_material`, `_soft_delete_material` | `PatchLocks(policy, doc)`, `PatchSaves` (policy, visibility and document in one save), `SoftDelete` |
| `upsert_single_source_material` (PUT, POST, the ingests) | `Put(policy, doc)` |
| `apply_convert_result` (`materials/conversion.py`) | `Claim`, `JobFails`, `Answer`, `HookStarts` (the early returns), `HookLocks` (the row again, under the lock), `HookSaves`, `Scrub`, `HookDies` |
| `recompute_material_visibility` | `CallReadsRow`, `CallReadsStates`, `CallSaves`; owed by a write and possibly lost (`Owes`) |
| `recompute_all` | `PassReadsPairs`, `PassReadsRows`, `PassUpdates` |

`lock` is the row lock of the material where it spans more than one statement.
`givenUp` is a ghost: what a writer that is not a conversion has taken out of the
document, a PATCH by naming it, a PUT by leaving it out, an upload by writing back an
older reading.
The recompute after an upload may run next to its enqueue, which the code does
in sequence: the model has more behaviours than the code there, not fewer.

`*Proofs` modules hold the theorems, `MC*` modules only values for constants and
symmetry sets.

## 3. Runs

| run | bounds | result |
|---|---|---|
| `job_queue` | 2 rows and one key (so calls race, also without a key), a poller, an in-process worker, a reaper, 2 attempts, 1 crash, hooks that raise, leases of one tick | all hold |
| `job_queue_liveness` | 2 rows without keys, no reaper, `ReapLimit` 1, 1 crash, leases that lapse at the next tick | all hold |
| `job_zombie` | 1 row, 2 workers, no crash | violated, see section 6 |
| `review_jobs` | 2 reviews of a case, 3 jobs, 1 regrade, 1 backlog sweep, poller and reaper, 2 attempts, no backoff, hooks of at most one job that raise (`OneRaised`), no crash | all hold |
| `review_liveness` | the same without sweep and reaper, with 1 crash | holds |
| `review_dangling` | 2 regrades | violated |
| `review_sweep` | 3 reviews of a case | violated |
| `bus_consumer` | 2 messages (one poison), 2 replicas, 2 deliveries, batches of 2, exit at the 2nd failed fetch in a row, 3 faults (failing calls, lost answers, closed connections, kills), any number of rollouts | all hold, `BusConsumer` implements `Delivery` |
| `bus_connection` | 2 threads in each of 2 processes, 2 outages, 1 close, 1 fork | all hold |
| `case_edits` | 2 guarded PATCHes (one renames, one publishes), 1 unguarded PATCH back to the first name, 1 DELETE, 1 proposal with 2 versions of its intent, 2 reviewers | all hold, `CaseEdits` implements `EditLedger` |
| `enrichment` | 2 facts, one of a case and one of none, 2 slugs, windows of 2 runs, a limit of 1 or 2 in each, 2 deliveries, 2 attempts, 2 job rows, 1 fault or rename | all hold, `Enrichment` implements `FactLedger` |
| `materials` | 1 case, 2 uploads, 1 conversion job, 1 recompute call at a time, 2 edits (moves, PUTs, PATCHes, deletions) | all hold |

Why these bounds suffice for the interesting cases. Two rows of one key are
needed for a call to free the holder's key while another inserts; two attempts
give a first run, a reap or retry and the last run, so that `can_retry` takes
both values; two workers make a zombie and its successor; a lease of one tick
can be extended and can lapse. Three review jobs give one job per review and one
for a regrade. Two deliveries make a first and a last one; a batch of two has a
tail that waits. Two fetch failures in a row make a process exit, and three faults are
enough for a failure that is forgotten and two that are not, or for one that takes a
first delivery, one that takes the last and one elsewhere. Messages whose delivery count cannot be read (`Unreadable`) are
absent from the run, where they would only take the place of one that is
retried; the theorems hold with them. Every bound on a behaviour is a constant in a guard:
`MaxCrashes`, `MaxRegrades`, `MaxSweeps`, `MaxFaults`, `MaxOutages`, `MaxCloses`,
`MaxForks`, `MaxEdits`. The one exception is `OneRaised`, a CONSTRAINT of `review_jobs`:
a behaviour is followed until the hooks of two jobs have raised. A job that waits for its
backoff is one no worker has claimed yet, so that run does without backoff; `review_liveness`
and `job_queue` have it. The rows of `job_queue` are symmetric (the code never compares ids
except to order claims, which the model leaves open); reviews are not, and no
symmetry is used there or for liveness. In `case_edits` the two reviewers are
alike.

Of a case, two guarded edits with different parts and a rename, and an unguarded
one that takes up the retired name, give every pair of writers that can meet; two
proposals decided together do not fit the run and are covered by the theorem.
One request of `case_edits` writes joins: a second one would only repeat it.
Two job rows let the second job of a key run while the hook of the first is under way; a
window of two runs lets one failed run be made up for; two rows and a limit of one or two,
chosen run by run, give a full window, a run that sends both, one and none. The second
fact takes up places in the window and on the bus, and comes to no key; that more cases
than `MaxMatches` come to none either is decided by the constants (`Concerning`). One
fault is enough to lose a last delivery, to lose a hook or to rename the case while its
fact is a signal, a match, a job or a proposal; a rename and a fault together are covered
by the theorem. Two uploads and a conversion let an upload
replace a document that another upload or a hook has written since, with edits in
between; a second conversion does not fit the run with them and is covered by the
theorems. A caseworker
may leave a proposal pending and the docket may stay as it is, so `enrichment`
may stop and does not check deadlock; every other passing run of this part does.

What they show:

- **Keys** (`OneActivePerKey`, `ReturnedJobIsForTheKey`): although `enqueue`
  frees a key it read without a lock, a key's active job keeps it, because only
  terminal rows lose keys and terminal is final.
- **Attempts** (`AttemptsBounded`, `AttemptsHandedOutOnce`, `RunningIsLeased`):
  the count at the claim and the two comparisons in `finalize` and the sweep fit.
- **Outcomes** (`HooksMatchOutcome`, `OutcomeIsOwedOrTold`, `EveryOutcomeIsTold`):
  hooks run after the commit on a re-read row and still say what the row says;
  a call is lost only with a killed process, in an exception of that very call, which
  is swallowed and never retried, or for want of a result.
- **Progress** (`EveryJobFinishes`): the sweep at the head of `claim_next` is
  enough, no reaper process is needed.
- **Reviews** (`PendingIsBacked`, `GradeIsKept`, `RunningIsNeverSuperseded`,
  `TerminalIsFinal`, `OneActiveJobPerReview`, `EveryReviewSettles`): with a single
  regrade no review dangles, whatever the order of submits, supersedes, sweeps and
  hooks, unless the hook of its newest job raised (an older job's failed hook is made up
  for); a graded review loses its grade only to a regrade, never to a supersede
  decided earlier or to an older job that fails late.
- **Bus** (`DeliversAtLeastOnce`, `DroppedIsAccounted`, `BuriedIsHopeless`,
  `EveryMessageIsAccounted`): `decide` recognises the last delivery neither late
  nor early, although it looks at the count of an old delivery; work first and
  settle afterwards is at-least-once delivery whatever is slow, lost or killed; a
  message is lost only if its own last delivery was, and a consumer whose connection has
  closed comes back.
  `IInv`, which the proofs rest on, contains the type invariant and
  `SettledIsAccounted`; so does `job_queue`'s with its own.
- **Publisher** (`OneConnection`, `PublishesOnOwnLoop`, `EndsUpConnected`).
- **Case** (`EditsAreAtomic`, `DecisionsMatch`, `ClosedIsFinal`,
  `OldAddressesLead`): the ETag test before the lock is not enough, the one under
  it is; no snapshot read while the case was open reopens it; a proposal is
  applied exactly once and the intent on file is the one that was applied; no
  rename, also back to an old name, strands an address of an open case.
- **Enrichment** (`OneProposalPerKey`, `KeepsTheLedger`, `NoFactSlipsThrough`,
  `EveryFactSettles`): both `already_staged` checks can be passed by two jobs of
  one key, and the unique key settles it; what is decided under a slug stays decided
  however often the fact is seen again; nothing on the bus vanishes but by a counted
  fault, also when the case gets another slug under way; a row that leaves the window
  unpublished failed or was crowded out in every single run of its window.
- **Material** (`LinksAreKept`, `TranscriptsAreScrubbed`,
  `VisibilitySettles`): a link goes only where an editor took it away, or where an
  upload writes back what it read too early; a hook that stores or refuses a text
  has removed the unredacted one (after a deletion it stays, section 6); the periodic
  pass repairs what lost or racing recomputes leave.

Every property of a passing run has a mutant in `PROJECT.json`: a plausible bug
of the mapped code, kept as an operator next to the definition it mutates (its
comment starts with "Mutant"), under which the run finds the property violated.

## 4. Fairness

- JobQueue `FairSpec`: time passes; a live worker goes on polling (the `while`
  loops of the worker commands), ends the attempt it runs (handlers have
  timeouts) and runs its hook. Nothing is assumed of enqueue callers, heartbeats
  or the reaper. A worker that crashes starts polling again.
- ReviewJobs `RFairSpec`: as above, and a request that has started reaches its
  enqueue and its transaction commits or rolls back. A worker's steps are one
  disjunction (`RWork`): exactly one of its program points is enabled at a time.
- BusConsumer `FairSpec`: the broker goes on redelivering what is not settled in
  time (some message, not each), the orchestrator restarts an exited process, a
  live replica works on (`Work`). That some replica fetches something is strongly
  fair: the other outcomes of a fetch are time-outs and failures. Budgets are
  finite, so this is enough for each message. That handlers end is assumed;
  that they succeed is not.
- BusConnection `FairSpec`: requests go on publishing, a connect ends within its
  timeout, the retry window ends, outages end.
- Enrichment `FairSpec`: weak fairness of all processing together (`Processing`:
  deliveries and polls go on, whatever becomes of each). None for single facts or
  workers, and none for the scraper, the producer's schedule or the caseworkers.
- Materials `FairSpec`: the periodic `recompute_all` is scheduled again and again,
  and a transaction that holds the row lock ends. Nothing is assumed of the
  recompute calls, which may all be lost.
- CaseEdits has no liveness: a client that meets a 412 may give up.

## 5. Proofs

`tlapm M.tla` checks each of `JobQueueProofs`, `ReviewJobsProofs`,
`ReviewOutcomeProofs`, `BusConsumerProofs`, `BusConnectionProofs`,
`CaseEditsProofs`, `EnrichmentProofs` and `MaterialsProofs` to the last leaf. They rest on the named ASSUMEs of the
modules they are about and nothing else: any sets of rows, keys, workers,
reviews, messages, threads, requests, facts and uploads, any limits and any
number of crashes and outages.

**The queue.** The safety properties are not inductive. `IInv` adds what they
lean on:

- `KeyInv`: a row holds the key its call asked for until it is finished; no two
  rows hold one key; a row that a call is about to free was terminal when read
  *and still is*. The last part is what makes the unlocked read harmless, and
  it needs that no step revives a terminal row.
- `TokenInv`: a worker's copy of the attempts is never ahead of the row's, so
  a new claim hands out a value nobody holds (`AttemptsHandedOutOnce`).
- `HookInv`: whoever owes `on_result` owes it to a `done` row, alone and
  unserved; what a sweep owes is `dead`.
- `OwedInv`: who owes the hook of a terminal row, as long as nothing crashed and the
  hook has not raised.
- `HeldInv`, `AbsentInv`: what a program point says about the locals.

`Inductive` shows Spec => []IInv with one lemma per group of conjuncts and one
step per action in each; the theorems on the single properties follow from it.
`Refinement` shows that each step of the queue, seen through `status` and
`attempts`, is a step of `JobLifecycle` for every row or a stutter: the sweep
moves several rows at once, which is why `JobLifecycle!Next` is a conjunction.

**The consumer.** `IInv` is `TypeOK`, what a replica's step says about what it
holds (`HandInv`: a delivery in hand carries a count the broker has reached, an
undisturbed success is in `done`, `term` only with a copy on the DLQ), the
broker's budget (`BudgetInv`) and `LastDeliveryInv`: the last delivery stays in
some replica's hands until the message is accounted for. `FreshInv` (what is not
published has not been seen) starts a message's fate as Delivery does.
`DeliveryIsKept` is the refinement. Its lemmas say what a step may do to records
(`Recorded`: only the message in process_message is accounted for), to the broker
(`BrokerMovesOn`), to settlements (`SettledAfter`: a step that settles accounts
for nothing, so the work came before) and to what replicas hold (`HandedOver`: a
replica gets hold only of what is ready). From these a lost message stays lost,
since nobody holds it and it is never ready again; that nothing but its own last
delivery can have lost it is `LastDeliveryInv` and `BudgetInv`.

**The publisher.** `IInv` of BusConnectionProofs: `_pid` is set exactly with the
connection, and a copy that names another process has been used by nobody
(`PidInv`); before the fork nothing happens in the child (`ForkInv`); unless
somebody closes the bus, a process has or makes one connection at most, and none
where the next thread may go and connect (`MadeInv`). `OneConnection` alone is
not inductive: it does not say that `_starting` is true while a thread connects.

**Reviews.** ReviewJobsProofs extends the queue's proofs. `RSteps` sorts the
steps of RNext into steps of the queue that leave calls and locked rows alone,
for which the queue's lemmas hold as they are, and the five that the queue does
not know, each with a lemma of its own. `FlightInv` (while a review's new job is
uncommitted, its other jobs are finished) is what makes `TakeKey` free only keys
of finished jobs; `StaleInv` (what a supersede has locked stays queued, and
locked by it alone) is why it never buries a running or a finished one.

**What becomes of a review.** ReviewOutcomeProofs goes on from there. The queue's
promises about leases, attempts and hooks are re-proved under supersedes, sweeps
and rollbacks (`QueueStaysSafe`); its `OwedInv` is not one of them, because a
superseded job is dead without a hook. Then:

- `ReviewsAreTyped`: the job a sweep keeps is the largest of the case.
  `MaxOfFinite` proves that a finite set of numbers has one without an induction
  over data: of the finite subsets without a largest element, a minimal one under
  strict inclusion (`WFMin`) would have one. It needs that only finitely many rows
  exist at any time (`RowsStayFinite`).
- `GradesAreKept` rests on `DoomedInv`: a review that a supersede has updated is
  pending, and stays so until the commit, because its job is locked and queued,
  so no hook can settle it meanwhile. It holds for any number of regrades.
- `NoReviewDangles` rests on `SupersedeInv`: a supersede that has locked the job
  of a pending review has updated that review too. This can fail only if a
  supersede locks a queued job whose review is settled and a reset makes the
  review pending afterwards. Until the first `regrade_all` resets, a review has
  one request or one job (`FirstRoundInv`), and is pending while that is
  unfinished, so the first reset finds no such pair. Its resets and the enqueues after them make a second job of a
  review possible, which is where a second regrade breaks `SupersedeInv`, and
  `review_dangling` shows a review that dangles. `PendingInv`, the statement
  itself, then follows action by action: a job is taken away only with its
  review, or hands what it owes to its hook. `OneRegradeIsSafe` is the invariant
  that the run `review_jobs` checks.

**The case.** `IInv` of CaseEdits: each row lock has one holder (`CaseLock`,
`ProposalLock`); what a request has read is what the row says unless the version
has moved on (`ReadsAgree`); who holds the lock works on what is committed
(`LockedIsCurrent`); nobody makes an edit twice (`MadeOnce`). From it each commit
is shown to be one step of `EditLedger` and every other step a stutter
(`EditsImplementLedger`), for any number of patches, proposals and reviewers.

**The pipeline.** `IInv` of EnrichmentProofs adds to the types that a queued job
has an attempt left (`Budgeted`), which is what bounds the attempts, and that a row not
published yet was excused by each run it has aged in (`SlipInv`). That every
step moves each key as `FactLedger` allows (`PipelineKeepsTheLedger`) then
follows action by action, one lemma per part of the chain (`BusAccounts`,
`BuilderAccounts`, `JobAccounts`) and one for a rename (`RenameMoves`): a key that is
under way only as a signal stops being so when its case moves on, and the key of the new
slug is then under way instead. `SlipInv` rests on `RunExcuses`: the rows are examined
from the oldest on, so a run that does not reach one has as many before it as it
examines. `NoFactIsMissed` is `SlipInv` at the end of the window.

**The material.** `IInv` of MaterialsProofs: a visibility about to be saved is one
(`Ready`); the row lock has one holder, which has the current document (`Locks`);
a job that has not answered has no result (`Fresh`). `Locks` is what an upload
lacks, and why `LinksAreKept` has to except what an upload wrote over.

**Only model-checked**: liveness (`EveryJobFinishes`, `EveryOutcomeIsTold`,
`EveryReviewSettles`, `EveryMessageIsAccounted`, `EndsUpConnected`,
`EveryFactSettles`, `VisibilitySettles`), which needs ENABLED. Every invariant and
every action property of a passing run is a theorem. For the queue alone
`TerminalIsFinal` is a consequence of `Refinement`; for reviews it is a theorem.

## 6. Where the code and its text disagree

Three disagreements have a run of their own; TLC prints the behaviour.

- **A zombie finalizes the newer attempt** (`job_zombie`, `jobs/queue.py:203`).
  A claims, its lease lapses, the row is re-queued and B claims it: it is RUNNING
  again, so A's late `finalize` passes the guard and B's is refused. The texts
  at `jobs/queue.py:172` and `jobs/views.py:117` say that a re-claimed job is
  protected. `AttemptsHandedOutOnce` is what a guard on the attempt would need.
- **A review can dangle** (`review_dangling`, `review/supersede.py:52`). A
  supersede locks a queued job whose review is settled, so it leaves the review
  alone; a second `regrade_all` resets the review to pending and gets that job
  back from `enqueue`; the supersede commits it dead.
- **The sweep command may keep the older job** (`review_sweep`): it decides what
  to keep from one read at its start. A job that commits before it gets to the case is
  newer than the one kept, and is dead-lettered with the rest. (That the kept job may
  have been claimed meanwhile is no fault: `SweepKeepsTheNewest` asks only that what is
  superseded is not the newest.)

Smaller ones, met while modelling and not given a run:

- `case_events/consumers/__init__.py:22` says nothing is dropped silently. A kill
  during the last delivery drops the message, and so does the loss of the fetch answer
  that carried it (`runner.py:311`): nothing redelivers it and nobody buries it. The
  consumer's properties excuse exactly these messages (`abandoned`), and `Enrichment`
  counts such a delivery as a fault.
- `case_proposals/job_kind.py:203` says that a rejection "has to stay sticky" and that a
  re-observed entry must not come back as a fresh pending item. The check is on the key,
  which contains the slug the case had at the match (`handlers.py:288`). A case that gets
  another slug within the window is proposed the same fact again; and a case that takes
  over a slug has the facts of its predecessor there counted as staged. `FactLedger`
  speaks of keys for this reason, and has renames as steps.
- `case_events/bus.py:82` says a child that inherits `_starting` is reset. The
  reset at line 108 asks for a `_pid`, which a parent in its *first* connect does
  not have yet: a child forked then never connects. `EndsUpConnected` speaks of
  the first process.
- `review/views.py:192`: two submissions whose transactions overlap do not see
  each other's job, and neither supersedes the other.
- `jobs/models.py:68` says the lease is cleared on finalize; a heartbeat that
  read the row earlier can put one on a row that is no longer running (harmless:
  the sweep filters on RUNNING).
- `case_events/producers/dockets.py:213` says a corrected judge or verdict type
  proposes again; the key contains the date only.
- `materials/conversion.py:208` says that under the row lock a re-upload cannot
  clobber the transcript, nor the transcript the re-upload. The second holds; the
  first does not: `material_file_upload` reads the document without a lock
  (`views.py:888`) and replaces it whole, so an upload that read it before a
  conversion was stored drops the transcript, and of two uploads the later drops
  the other's file. `LinksAreKept` excepts exactly these, next to what an editor
  takes away.

Behaviour no text denies, but which a reader should know; the abstract
specifications are stated so as to allow it:

- A PATCH without If-Match writes its whole snapshot, the state included: it can
  bring back the content and the state from before somebody else's edit, and so
  publish or unpublish a case nobody asked it to (`EditLedger!Overwrite`).
- `destroy` saves the row it read without a lock, columns and slug included, and
  writes no `CaseStateChange` (`EditLedger!Withdraw`).
- A rename strands the pending proposals of the case: `get_case_or_400` looks for
  the slug they were filed with, so they can only be rejected. An approval that
  finds the case changes it even when it is closed.
- A PATCH that renames a case and moves it out of draft is refused (422), because
  the instance still carries its original slug.
- A fact the model declined is not remembered: each observation in the window
  asks again.
- A domain hook that raises is logged and never called again (`jobs/queue.py:244`,
  `:257`), and a DONE without a result calls none: a review may stay pending with its
  job done. The properties excuse the job whose own call raised (`untold`), and for a
  review only its newest one.
- Two submissions whose transactions overlap are both graded, see above.
- `conversion.py:155` and `:225` return without scrubbing when the material is
  gone, unlike after a failed redaction ("left" in Materials): after a deletion the
  unredacted text stays in the job.
- A re-upload while a conversion is under way enqueues nothing, and the new file
  may never be converted.

## 7. What is not modelled

- Grading of a review, LLM calls, OCR, redaction, scraping, rendering, search
  queries: long computations over data, without shared state of their own. Where
  their outcome matters it is a choice (a text is empty, refused or stored; a
  model declines or answers).
- `entities`, `courts`, `content`, `case_tags`, `discovery`, `lakehouse`,
  `newsletter`, `casework`, `jawafdehi_mcp`: CRUD, declarative models, offline
  scripts and thin clients. Most of the repository's lines are here and in the
  serialization, validation and listing code of the modelled parts, which keeps
  the share of lines that definitions stand for small.
- Authentication and permissions: a predicate on a request, which guards nothing
  that the modelled protocols rely on.
- In the queue: priorities, the order of claims, error texts, stages and
  durations. No property is about them.
- In the bus: the supervision of four consumers in one process
  (`runner.py:382`); the notifier and the derive handler, which send and log; the
  manual-note producer, with one message per request.
- In cases: field validation, the public read API, the admin site, images and
  the statistics bootstrap. Creating a case under a retired slug does not record
  anything in the history, which `OldAddressesLead` does not cover: it is about
  one case. A PATCH with `If-Match: *` is among the unguarded ones: any row matches it.
- In materials: the object store, the extraction job kind, what the operations of a
  JSON Patch do to other keys than the links, and the search index, whose on-commit updates may be lost or
  reordered and which `recompute_all` does not repair for a row it finds
  unchanged.

The hazards in `PROJECT.json` without a property have a note that says why.

## 8. Plan

Done, in this order: the queue and its life cycle; reviews on top of it; the
consumer and the publisher; the case under its writers; the enrichment pipeline;
materials; proofs for each. What would come next:

1. **ConsumerProcess**: `run`/`_supervise`, from which BusConsumer's `Restart` is
   justified: one consumer that ends takes the process down.
2. **PendingIsBacked beyond one regrade**: `NoReviewDangles` for regrades that do
   not overlap with each other's jobs, or for all of them once `supersede.py:52`
   locks the review before its job.
3. **Search index**: the on-commit signals and the visibility as one protocol with
   a reader.
4. **Several materials and cases**: `recompute_all` over a table that changes while
   it is scanned.
