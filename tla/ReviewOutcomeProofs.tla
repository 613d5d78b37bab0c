-------------------------- MODULE ReviewOutcomeProofs --------------------------
(***************************************************************************)
(* What becomes of a review, on top of what ReviewJobsProofs shows of its  *)
(* jobs: for every set of reviews, cases, workers and reapers, every       *)
(* number of sweeps and of crashes, no grade is lost to a supersede or to  *)
(* a late failure, and with one regrade_all no review is left pending      *)
(* with nobody to settle it.                                               *)
(***************************************************************************)
EXTENDS ReviewJobsProofs, FiniteSetTheorems, WellFoundedInduction

-----------------------------------------------------------------------------
(***************************************************************************)
(* The sweep command takes the largest job id of a case.                   *)
(***************************************************************************)
\* A non-empty finite set of numbers has a largest one: a smallest set without
\* one would have it as soon as an element is taken away.
LEMMA MaxOfFinite ==
  ASSUME NEW S \in SUBSET Nat, IsFiniteSet(S), S # {}
  PROVE  Max(S) \in S /\ \A y \in S : y <= Max(S)
  <1> DEFINE Bounded(U) == \E x \in U : \A y \in U : y <= x
  <1> DEFINE R == StrictSubsetOrdering(S)
  <1> DEFINE F == FiniteSubsetsOf(S)
  <1> DEFINE T == {U \in F : U # {} /\ ~Bounded(U)}
  <1>1. T = {}
    <2> SUFFICES ASSUME T # {} PROVE FALSE
      OBVIOUS
    <2>1. IsWellFoundedOn(R, F)
      BY FS_StrictSubsetOrderingWellFounded
    <2>2. T \subseteq F
      OBVIOUS
    <2> HIDE DEF R
    <2>3. \E U \in T : \A V \in T : ~(<<V, U>> \in R)
      <3> HIDE DEF T, F
      <3> QED
        BY <2>1, <2>2, WFMin
    <2>4. PICK U \in T : \A V \in T : ~(<<V, U>> \in R)
      BY <2>3
    <2>5. U \subseteq S /\ IsFiniteSet(U) /\ U # {} /\ ~Bounded(U)
      BY <2>4 DEF FiniteSubsetsOf
    <2>6. PICK x \in U : TRUE
      BY <2>5
    <2> DEFINE V == U \ {x}
    <2>7. IsFiniteSet(V)
      BY <2>5, FS_RemoveElement
    <2>8. <<V, U>> \in R
      BY <2>5, <2>6 DEF R, StrictSubsetOrdering
    <2>9. V \notin T
      BY <2>4, <2>8
    <2>10. V \in F
      BY <2>5, <2>7 DEF FiniteSubsetsOf
    <2>11. V = {} \/ Bounded(V)
      BY <2>9, <2>10
    <2>12. CASE V = {}
      <3>1. \A y \in U : y = x
        BY <2>12
      <3>2. \A y \in U : y <= x
        BY <2>5, <2>6, <3>1
      <3> QED
        BY <2>5, <2>6, <3>2
    <2>13. CASE Bounded(V)
      <3>1. PICK m \in V : \A y \in V : y <= m
        BY <2>13
      <3>2. m \in U /\ m \in Nat /\ x \in Nat /\ U \subseteq Nat
        BY <2>5, <2>6
      <3>3. CASE m <= x
        <4>1. \A y \in U : y <= x
          BY <3>1, <3>2, <3>3
        <4> QED
          BY <2>5, <2>6, <4>1
      <3>4. CASE x <= m
        <4>1. \A y \in U : y <= m
          BY <3>1, <3>2, <3>4
        <4> QED
          BY <2>5, <3>2, <4>1
      <3> QED
        BY <3>2, <3>3, <3>4
    <2> QED
      BY <2>11, <2>12, <2>13
  <1>2. S \in F
    BY DEF FiniteSubsetsOf
  <1>3. Bounded(S)
    BY <1>1, <1>2
  <1>4. PICK x \in S : \A y \in S : y <= x
    BY <1>3
  <1>5. x \in S /\ \A y \in S : x >= y
    BY <1>4
  <1>6. Max(S) \in S /\ \A y \in S : Max(S) >= y
    BY <1>5 DEF Max
  <1> QED
    BY <1>6

-----------------------------------------------------------------------------
(***************************************************************************)
(* The queue's promises, kept under supersedes and sweeps.                 *)
(***************************************************************************)
HooksInv == RunningIsLeased /\ TokenInv /\ AttemptsHandedOutOnce /\ HookInv /\ HooksMatchOutcome

\* What _enqueue_review_job and the sweep do to the rows: an absent one is
\* queued, a queued one is buried, nobody's attempt or hook is touched.
RowsBuried ==
  /\ UNCHANGED <<attempts, lease, procVars, hookVars>>
  /\ \A j \in Jobs : \/ status'[j] = status[j]
                     \/ status[j] = "absent" /\ status'[j] = "queued"
                     \/ status[j] = "queued" /\ status'[j] = "dead"

LEMMA BurialSteps ==
  ASSUME RInv,
         \/ \E j \in Jobs, r \in Reviews : EnqueueReview(j, r)
         \/ \E j \in Jobs : CommitEnqueue(j) \/ RollBack(j)
         \/ \E c \in Cases : SweepCase(c)
  PROVE  RowsBuried
  <1> USE DEF RowsBuried, rowVars
  <1>1. ASSUME NEW j \in Jobs, NEW r \in Reviews, EnqueueReview(j, r) PROVE RowsBuried
    BY <1>1 DEF EnqueueReview
  <1>2. ASSUME NEW j \in Jobs, CommitEnqueue(j) PROVE RowsBuried
    BY <1>2 DEF CommitEnqueue, InFlight, RInv, QueueInv, KeyInv, StaleInv
  <1>3. ASSUME NEW j \in Jobs, RollBack(j) PROVE RowsBuried
    BY <1>3 DEF RollBack
  <1>4. ASSUME NEW c \in Cases, SweepCase(c) PROVE RowsBuried
    BY <1>4 DEF SweepCase, SelectStale, QueuedOf
  <1> QED
    BY <1>1, <1>2, <1>3, <1>4

LEMMA HooksKept == ASSUME RInv, HooksInv, [RNext]_allVars PROVE HooksInv'
  <1> USE DEF HooksInv, RInv, QueueInv
  <1>1. CASE QueueMoves
    BY <1>1, NextLeased, NextToken, NextHook DEF QueueMoves
  <1>2. CASE RowsStay
    <2>1. \A w \in Workers : pc'[w] \in {"build", "run", "hook"} => pc'[w] = pc[w]
      BY <1>2 DEF RowsStay, TypeOK, Procs
    <2>2. UNCHANGED <<status, attempts, lease, held, token, posted, dead, resultHook, failHook>>
      BY <1>2 DEF RowsStay, rowVars, hookVars
    <2>3. RunningIsLeased' /\ TokenInv' /\ HooksMatchOutcome'
      BY <2>1, <2>2 DEF RunningIsLeased, TokenInv, HooksMatchOutcome
    <2>4. AttemptsHandedOutOnce' /\ HookInv'
      BY <2>1, <2>2 DEF AttemptsHandedOutOnce, HookInv
    <2> QED
      BY <2>3, <2>4
  <1>3. CASE RowsBuried
    <2> USE DEF RowsBuried, procVars, hookVars
    <2>1. RunningIsLeased' /\ TokenInv' /\ AttemptsHandedOutOnce'
      BY <1>3 DEF RunningIsLeased, TokenInv, AttemptsHandedOutOnce
    <2>2. HooksMatchOutcome'
      BY <1>3 DEF HooksMatchOutcome
    <2>3. \A j \in Jobs : status[j] \in {"done", "dead"} => status'[j] = status[j]
      BY <1>3
    <2>4. \A w \in Workers : pc[w] = "hook" => held[w] \in Jobs
      BY DEF HeldInv, Procs
    <2>5. \A p \in Procs : dead[p] \subseteq Jobs
      BY DEF TypeOK
    <2>6. HookInv'
      BY <1>3, <2>3, <2>4, <2>5 DEF HookInv
    <2> QED
      BY <2>1, <2>2, <2>6
  <1> QED
    BY <1>1, <1>2, <1>3, RSteps, BurialSteps

LEMMA HooksInit == RInit => HooksInv
  BY DEF RInit, Init, HooksInv, RunningIsLeased, TokenInv, AttemptsHandedOutOnce, HookInv,
     HooksMatchOutcome, Procs

\* The invariants of the jobs, together.
JobsInv == RInv /\ HooksInv

LEMMA JobsInvariant == RSpec => []JobsInv
  <1>1. JobsInv /\ [RNext]_allVars => JobsInv'
    BY RSteps, QueueKeeps, RowsStayKeeps, EnqueueKeeps, CommitKeeps, RollBackKeeps, SweepKeeps,
       HooksKept DEF JobsInv
  <1>2. RInit => JobsInv
    BY RInitInv, HooksInit DEF JobsInv
  <1> QED
    BY <1>1, <1>2, PTL DEF RSpec

\* Under supersedes, sweeps, rollbacks and regrades the queue keeps its promises
\* to review jobs: a running one can be reaped, an attempt has one worker, and
\* its review is told of the outcome the job really has.
THEOREM QueueStaysSafe ==
  RSpec => [](RunningIsLeased /\ AttemptsBounded /\ AttemptsHandedOutOnce /\ HooksMatchOutcome)
  <1>1. JobsInv => RunningIsLeased /\ AttemptsBounded /\ AttemptsHandedOutOnce /\ HooksMatchOutcome
    BY DEF JobsInv, HooksInv, RInv, QueueInv
  <1> QED
    BY <1>1, JobsInvariant, PTL

-----------------------------------------------------------------------------
(***************************************************************************)
(* The reviews.                                                            *)
(***************************************************************************)
\* Steps of the queue that no review sees: all but the hooks.
QueueOnly ==
  \/ \E w \in Workers : PollerStep(w) \/ ClaimUnlocked(w) \/ ClaimNoneUnlocked(w)
  \/ \E p \in Procs : ProcStep(p)
  \/ RTick
  \/ UNCHANGED allVars

LEMMA QueueOnlyStays == QueueOnly => UNCHANGED <<reviewVars, callVars, hookVars>>
  BY DEF QueueOnly, PollerStep, ClaimUnlocked, ClaimNoneUnlocked, ProcStep, RTick, allVars, vars,
     BuildPayload, BuildPayloadFails, Touch, FinalizeDone, FinalizeRetryable, FinalizeRejected,
     Finalize, Claim, ReapExpired, SweepDone, Crash, Tick

LEMMA QueueOnlyCounts == QueueOnly => crashes' = crashes \/ crashes' = crashes + 1
  <1>1. ASSUME NEW w \in Workers, PollerStep(w) PROVE crashes' = crashes
    BY <1>1 DEF PollerStep, BuildPayload, BuildPayloadFails, Touch, FinalizeDone, FinalizeRetryable,
       FinalizeRejected, Finalize
  <1>2. ASSUME NEW w \in Workers, ClaimUnlocked(w) \/ ClaimNoneUnlocked(w) PROVE crashes' = crashes
    BY <1>2 DEF ClaimUnlocked, ClaimNoneUnlocked, Claim
  <1>3. ASSUME NEW p \in Procs, ProcStep(p) PROVE crashes' = crashes \/ crashes' = crashes + 1
    BY <1>3 DEF ProcStep, ReapExpired, SweepDone, Crash
  <1>4. CASE RTick \/ UNCHANGED allVars
    BY <1>4 DEF RTick, Tick, allVars, vars
  <1> QED
    BY <1>1, <1>2, <1>3, <1>4 DEF QueueOnly

LEMMA ReviewsAreNumbers ==
  /\ Reviews \subseteq Nat /\ Jobs \subseteq Nat /\ Keys = Reviews
  /\ NULL \notin Reviews /\ NULL \notin Jobs
  /\ MaxRegrades \in Nat /\ MaxSweeps \in Nat
  BY IdAssumption, NullAssumption, BudgetAssumption

\* A job that a supersede may take has a review.
LEMMA QueuedHasReview ==
  ASSUME RInv, NEW i \in Jobs, status[i] # "absent"
  PROVE  work[i] \in Reviews /\ epc[i] = "returned"
  <1>1. epc[i] = "returned" /\ work[i] # NULL /\ work[i] \in Keys \cup {NULL}
    BY DEF RInv, QueueInv, KeyInv, FlightInv, TypeOK
  <1> QED
    BY <1>1, ReviewsAreNumbers

\* What a call in flight has locked.
LEMMA StaleRows ==
  ASSUME RInv, NEW j \in Jobs, NEW i \in stale[j]
  PROVE  i \in Jobs /\ status[i] = "queued" /\ i \in Locked /\ epc[j] = "create" /\ work[i] \in Reviews
  <1>1. i \in Jobs /\ status[i] = "queued" /\ i \in Locked /\ epc[j] = "create"
    BY DEF RInv, StaleInv, Locked
  <1> QED
    BY <1>1, QueuedHasReview

\* The rows in the table are finitely many: only a commit adds one.
FiniteRows == IsFiniteSet({j \in Jobs : status[j] # "absent"})

LEMMA RowsStayFinite == ASSUME RInv, FiniteRows, [RNext]_allVars PROVE FiniteRows'
  <1> DEFINE rows == {j \in Jobs : status[j] # "absent"}
  <1>1. ASSUME NEW j \in Jobs, \A i \in Jobs : i # j /\ status[i] = "absent" => status'[i] = "absent"
        PROVE  FiniteRows'
    <2>1. IsFiniteSet(rows \cup {j})
      BY FS_AddElement DEF FiniteRows
    <2>2. {i \in Jobs : status'[i] # "absent"} \subseteq rows \cup {j}
      BY <1>1
    <2> QED
      BY <2>1, <2>2, FS_Subset DEF FiniteRows
  <1>2. ASSUME \A i \in Jobs : status[i] = "absent" => status'[i] = "absent"
        PROVE  FiniteRows'
    <2>1. {i \in Jobs : status'[i] # "absent"} \subseteq rows
      BY <1>2
    <2> QED
      BY <2>1, FS_Subset DEF FiniteRows
  <1>3. CASE QueueMoves \/ RowsStay
    BY <1>2, <1>3 DEF QueueMoves, RowsStay, rowVars
  <1>4. ASSUME NEW j \in Jobs, CommitEnqueue(j) PROVE FiniteRows'
    <2>1. \A i \in Jobs : i # j /\ status[i] = "absent" => status'[i] = "absent"
      BY <1>4 DEF CommitEnqueue, RInv, StaleInv
    <2> QED
      BY <1>1, <2>1
  <1>5. ASSUME \/ \E j \in Jobs, r \in Reviews : EnqueueReview(j, r)
               \/ \E j \in Jobs : RollBack(j)
        PROVE  FiniteRows'
    BY <1>2, <1>5 DEF EnqueueReview, RollBack, rowVars
  <1>6. ASSUME NEW c \in Cases, SweepCase(c) PROVE FiniteRows'
    BY <1>2, <1>6 DEF SweepCase, SelectStale, QueuedOf
  <1> QED
    BY <1>3, <1>4, <1>5, <1>6, RSteps

\* What _enqueue_review_job does to the calls, the locks and the reviews.
EnqueueEffect(j, r, S) ==
  /\ epc[j] = "start" /\ status[j] = "absent" /\ work[j] = NULL /\ todo[r] > 0
  /\ \A i \in S : i \in Jobs /\ status[i] = "queued" /\ i \notin Locked /\ work[i] \in Reviews
  /\ todo' = [todo EXCEPT ![r] = todo[r] - 1]
  /\ stale' = [stale EXCEPT ![j] = S]
  /\ doomed' = [doomed EXCEPT ![j] = Supersedable(S)]
  /\ epc' = [epc EXCEPT ![j] = "create"]
  /\ \A i \in Jobs : epc[i] = "start" => j <= i
  /\ \/ /\ work' = [work EXCEPT ![j] = r]
        /\ \A i \in Jobs : work[i] = r => is_terminal(i)
     \/ /\ UNCHANGED work
        /\ \E i \in Jobs : work[i] = r /\ status[i] \in ActiveStatuses
  /\ UNCHANGED <<rowVars, procVars, hookVars, crashes, rstatus, latest, regrades, sweeps, keep>>

LEMMA EnqueueDoes ==
  ASSUME RInv, NEW j \in Jobs, NEW r \in Reviews, EnqueueReview(j, r)
  PROVE  \E S \in SUBSET Jobs : EnqueueEffect(j, r, S)
  <1> DEFINE active == {i \in Holders(r) : ~is_terminal(i)}
  <1> DEFINE kept == IF active = {} THEN j ELSE CHOOSE i \in active : TRUE
  <1> DEFINE S == SelectStale(CaseOf[r], kept)
  <1>1. work \in [Jobs -> Keys \cup {NULL}] /\ r # NULL
    BY ReviewsAreNumbers DEF RInv, QueueInv, TypeOK
  <1>2. /\ epc[j] = "start" /\ todo[r] > 0
        /\ todo' = [todo EXCEPT ![r] = todo[r] - 1]
        /\ work' = [work EXCEPT ![j] = IF active = {} THEN r ELSE NULL]
        /\ stale' = [stale EXCEPT ![j] = S]
        /\ doomed' = [doomed EXCEPT ![j] = Supersedable(S)]
        /\ epc' = [epc EXCEPT ![j] = "create"]
        /\ \A i \in Jobs : epc[i] = "start" => j <= i
        /\ \A i \in Jobs : epc[i] = "create" => work[i] # r
        /\ UNCHANGED <<rowVars, procVars, hookVars, crashes, rstatus, latest, regrades, sweeps, keep>>
    BY DEF EnqueueReview, InFlight
  <1>3. status[j] = "absent" /\ work[j] = NULL
    BY <1>2 DEF RInv, QueueInv, KeyInv, FlightInv
  <1>4. S \subseteq Jobs /\ \A i \in S : status[i] = "queued" /\ i \notin Locked
    BY DEF SelectStale, QueuedOf, CaseJobs
  <1>5. \A i \in S : work[i] \in Reviews
    BY <1>4, QueuedHasReview
  <1>6. \/ /\ work' = [work EXCEPT ![j] = r]
           /\ \A i \in Jobs : work[i] = r => is_terminal(i)
        \/ /\ UNCHANGED work
           /\ \E i \in Jobs : work[i] = r /\ status[i] \in ActiveStatuses
    <2>1. CASE active = {}
      <3>1. ASSUME NEW i \in Jobs, work[i] = r PROVE is_terminal(i)
        <4>1. status[i] # "absent"
          BY <1>1, <1>2, <3>1 DEF RInv, FlightInv
        <4>2. status[i] \in ActiveStatuses => dedup[i] = r
          BY <3>1 DEF RInv, QueueInv, KeyInv
        <4>3. status[i] \in ActiveStatuses \cup TerminalStatuses \cup {"absent"}
          BY DEF RInv, QueueInv, TypeOK
        <4> QED
          BY <2>1, <4>1, <4>2, <4>3 DEF Holders, is_terminal
      <3> QED
        BY <1>2, <2>1, <3>1
    <2>2. CASE active # {}
      <3>1. PICK i \in Jobs : status[i] # "absent" /\ dedup[i] = r /\ ~is_terminal(i)
        BY <2>2 DEF Holders
      <3>2. work[i] = r
        BY <1>1, <3>1 DEF RInv, QueueInv, KeyInv
      <3>3. status[i] \in ActiveStatuses
        BY <3>1 DEF RInv, QueueInv, TypeOK, is_terminal
      <3>4. work' = work
        BY <1>1, <1>2, <1>3, <2>2
      <3> QED
        BY <3>2, <3>3, <3>4
    <2> QED
      BY <2>1, <2>2
  <1> HIDE DEF S, active, kept
  <1> QED
    BY <1>2, <1>3, <1>4, <1>5, <1>6 DEF EnqueueEffect

\* What a hook may make of a review's status.
LEMMA HookSettles ==
  ASSUME NEW j
  PROVE  ReviewAfterHook(j) \in {"done", "failed", rstatus[work[j]]}
  BY DEF ReviewAfterHook

ReviewType ==
  /\ rstatus \in [Reviews -> {"absent", "pending", "done", "failed"}]
  /\ todo \in [Reviews -> Nat]
  /\ latest \subseteq Reviews
  /\ doomed \in [Jobs -> SUBSET Reviews]
  /\ keep \in [Cases -> Jobs \cup {NULL}]
  /\ regrades \in 0..MaxRegrades
  /\ sweeps \in 0..MaxSweeps

LEMMA SweptJobIsAJob ==
  ASSUME RInv, FiniteRows, NEW c \in Cases, Cardinality(QueuedOf(c)) > 1
  PROVE  Max(QueuedOf(c)) \in Jobs
  <1>1. QueuedOf(c) \subseteq {j \in Jobs : status[j] # "absent"}
    BY DEF QueuedOf, CaseJobs
  <1>2. IsFiniteSet(QueuedOf(c))
    BY <1>1, FS_Subset DEF FiniteRows
  <1>3. QueuedOf(c) # {}
    BY FS_EmptySet
  <1>4. QueuedOf(c) \subseteq Nat /\ QueuedOf(c) \subseteq Jobs
    BY <1>1, ReviewsAreNumbers
  <1> QED
    BY <1>2, <1>3, <1>4, MaxOfFinite

LEMMA ReviewTypeKept ==
  ASSUME RInv, FiniteRows, ReviewType, [RNext]_allVars
  PROVE  ReviewType'
  <1> USE ReviewsAreNumbers DEF ReviewType, requestVars
  <1>1. CASE QueueOnly
    BY <1>1, QueueOnlyStays DEF reviewVars
  <1>2. ASSUME NEW r \in Reviews, SubmitReview(r) PROVE ReviewType'
    BY <1>2 DEF SubmitReview
  <1>3. ASSUME NEW r \in Reviews, RequestLost(r) PROVE ReviewType'
    <2>1. todo[r] - 1 \in Nat
      BY <1>3 DEF RequestLost
    <2> QED
      BY <1>3, <2>1 DEF RequestLost
  <1>4. CASE RegradeRead
    BY <1>4 DEF RegradeRead, LatestReviews, Submitted
  <1>5. CASE RegradeReset
    BY <1>5 DEF RegradeReset
  <1>6. ASSUME NEW j \in Jobs, NEW r \in Reviews, EnqueueReview(j, r) PROVE ReviewType'
    <2>1. PICK S \in SUBSET Jobs : EnqueueEffect(j, r, S)
      BY <1>6, EnqueueDoes
    <2>2. todo[r] - 1 \in Nat
      BY <2>1 DEF EnqueueEffect
    <2>3. Supersedable(S) \subseteq Reviews
      BY <2>1 DEF EnqueueEffect, Supersedable
    <2>4. todo' \in [Reviews -> Nat]
      BY <2>1, <2>2 DEF EnqueueEffect
    <2>5. doomed' \in [Jobs -> SUBSET Reviews]
      BY <2>1, <2>3 DEF EnqueueEffect
    <2> QED
      BY <2>1, <2>4, <2>5 DEF EnqueueEffect
  <1>7. ASSUME NEW j \in Jobs, CommitEnqueue(j) PROVE ReviewType'
    BY <1>7 DEF CommitEnqueue
  <1>8. ASSUME NEW j \in Jobs, RollBack(j) PROVE ReviewType'
    BY <1>8 DEF RollBack
  <1>9. CASE SweepRead
    <2>1. keep' \in [Cases -> Jobs \cup {NULL}]
      BY <1>9, SweptJobIsAJob DEF SweepRead
    <2> QED
      BY <1>9, <2>1 DEF SweepRead
  <1>10. ASSUME NEW c \in Cases, SweepCase(c) PROVE ReviewType'
    BY <1>10 DEF SweepCase
  <1>11. ASSUME NEW w \in Workers, HookFinalized(w) PROVE ReviewType'
    <2>1. rstatus' \in [Reviews -> {"absent", "pending", "done", "failed"}]
      BY <1>11, HookSettles DEF HookFinalized
    <2> QED
      BY <1>11, <2>1 DEF HookFinalized
  <1>12. ASSUME NEW p \in Procs, HookReaped(p) PROVE ReviewType'
    <2>1. PICK j : rstatus' = [rstatus EXCEPT ![work[j]] = ReviewAfterHook(j)]
      BY <1>12 DEF HookReaped
    <2>2. ReviewAfterHook(j) \in {"done", "failed", rstatus[work[j]]}
      BY HookSettles
    <2>3. rstatus' \in [Reviews -> {"absent", "pending", "done", "failed"}]
      BY <2>1, <2>2
    <2> QED
      BY <1>12, <2>3 DEF HookReaped
  <1> QED
    BY <1>1, <1>2, <1>3, <1>4, <1>5, <1>6, <1>7, <1>8, <1>9, <1>10, <1>11, <1>12
    DEF RNext, QueueOnly

\* A review that was never submitted has no request and no job.
SubmittedInv ==
  \A r \in Reviews : rstatus[r] = "absent" =>
    todo[r] = 0 /\ r \notin latest /\ \A i \in Jobs : work[i] # r

LEMMA SubmittedKept ==
  ASSUME RInv, ReviewType, SubmittedInv, [RNext]_allVars
  PROVE  SubmittedInv'
  <1> USE ReviewsAreNumbers DEF ReviewType, requestVars
  <1>0. work \in [Jobs -> Reviews \cup {NULL}]
    BY DEF RInv, QueueInv, TypeOK
  <1>1. CASE QueueOnly
    BY <1>1, QueueOnlyStays DEF reviewVars, callVars, SubmittedInv
  <1>2. ASSUME NEW r \in Reviews, SubmitReview(r) PROVE SubmittedInv'
    BY <1>2 DEF SubmitReview, SubmittedInv, vars, callVars
  <1>3. ASSUME NEW r \in Reviews, RequestLost(r) PROVE SubmittedInv'
    BY <1>3 DEF RequestLost, SubmittedInv, callVars
  <1>4. CASE RegradeRead
    BY <1>4 DEF RegradeRead, LatestReviews, Submitted, SubmittedInv, vars, callVars
  <1>5. CASE RegradeReset
    BY <1>5 DEF RegradeReset, SubmittedInv, vars, callVars
  <1>6. ASSUME NEW j \in Jobs, NEW r \in Reviews, EnqueueReview(j, r) PROVE SubmittedInv'
    <2>1. PICK S \in SUBSET Jobs : EnqueueEffect(j, r, S)
      BY <1>6, EnqueueDoes
    <2>2. rstatus[r] # "absent"
      BY <2>1 DEF EnqueueEffect, SubmittedInv
    <2> QED
      BY <1>0, <2>1, <2>2 DEF EnqueueEffect, SubmittedInv
  <1>7. ASSUME NEW j \in Jobs, CommitEnqueue(j) PROVE SubmittedInv'
    BY <1>7 DEF CommitEnqueue, SubmittedInv
  <1>8. ASSUME NEW j \in Jobs, RollBack(j) PROVE SubmittedInv'
    BY <1>0, <1>8 DEF RollBack, SubmittedInv
  <1>9. CASE SweepRead
    BY <1>9 DEF SweepRead, SubmittedInv, vars, callVars
  <1>10. ASSUME NEW c \in Cases, SweepCase(c) PROVE SubmittedInv'
    BY <1>10 DEF SweepCase, SubmittedInv, callVars
  <1>11. ASSUME NEW w \in Workers, HookFinalized(w) PROVE SubmittedInv'
    <2>1. /\ rstatus' = [rstatus EXCEPT ![work[held[w]]] = ReviewAfterHook(held[w])]
          /\ UNCHANGED <<todo, latest, work>>
      BY <1>11 DEF HookFinalized, FinalizeHook, callVars
    <2> QED
      BY <2>1, HookSettles DEF SubmittedInv
  <1>12. ASSUME NEW p \in Procs, HookReaped(p) PROVE SubmittedInv'
    <2>1. PICK j : rstatus' = [rstatus EXCEPT ![work[j]] = ReviewAfterHook(j)]
      BY <1>12 DEF HookReaped
    <2>2. UNCHANGED <<todo, latest, work>>
      BY <1>12 DEF HookReaped, ReapFailureHook, callVars
    <2> QED
      BY <2>1, <2>2, HookSettles DEF SubmittedInv
  <1> QED
    BY <1>1, <1>2, <1>3, <1>4, <1>5, <1>6, <1>7, <1>8, <1>9, <1>10, <1>11, <1>12
    DEF RNext, QueueOnly

\* A review that a supersede has updated is pending, and its job is among those
\* the supersede has locked: what it decided stays right until its commit.
DoomedInv ==
  \A j \in Jobs : \A r \in doomed[j] : rstatus[r] = "pending" /\ \E i \in stale[j] : work[i] = r

\* Two calls have not updated one review.
LEMMA DoomedOnce ==
  ASSUME RInv, ReviewType, DoomedInv, NEW j \in Jobs, NEW r \in doomed[j]
  PROVE  /\ r \in Reviews /\ r \in LockedReviews
         /\ \A h \in Jobs : r \in doomed[h] => h = j
         /\ \A i \in Jobs : work[i] = r /\ status[i] = "queued" => i \in Locked
  <1>1. r \in Reviews /\ r \in LockedReviews
    BY DEF ReviewType, LockedReviews
  <1>2. PICK i \in stale[j] : work[i] = r
    BY DEF DoomedInv
  <1>3. i \in Jobs /\ status[i] = "queued" /\ i \in Locked
    BY StaleRows
  <1>4. \A k \in Jobs : work[k] = r /\ status[k] = "queued" => k = i
    BY <1>2, <1>3, ActiveIsUnique DEF OneActiveJobPerReview, ActiveStatuses
  <1>5. ASSUME NEW h \in Jobs, r \in doomed[h] PROVE h = j
    <2>1. PICK k \in stale[h] : work[k] = r
      BY <1>5 DEF DoomedInv
    <2>2. k = i
      BY <1>4, <2>1, StaleRows
    <2> QED
      BY <2>1, <2>2 DEF RInv, StaleInv
  <1> QED
    BY <1>1, <1>3, <1>4, <1>5

LEMMA DoomedKept ==
  ASSUME RInv, ReviewType, DoomedInv, [RNext]_allVars
  PROVE  DoomedInv'
  <1> USE DEF requestVars
  <1>0. /\ rstatus \in [Reviews -> {"absent", "pending", "done", "failed"}]
        /\ doomed \in [Jobs -> SUBSET Reviews] /\ stale \in [Jobs -> SUBSET Jobs]
        /\ work \in [Jobs -> Reviews \cup {NULL}]
    BY ReviewsAreNumbers DEF ReviewType, RInv, QueueInv, TypeOK, StaleInv
  <1>1. CASE QueueOnly
    BY <1>1, QueueOnlyStays DEF reviewVars, callVars, DoomedInv
  <1>2. ASSUME NEW r \in Reviews, SubmitReview(r) PROVE DoomedInv'
    BY <1>0, <1>2 DEF SubmitReview, DoomedInv, vars, callVars
  <1>3. ASSUME (\E r \in Reviews : RequestLost(r)) \/ RegradeRead \/ SweepRead PROVE DoomedInv'
    BY <1>3 DEF RequestLost, RegradeRead, SweepRead, DoomedInv, vars, callVars
  <1>5. CASE RegradeReset
    BY <1>0, <1>5 DEF RegradeReset, DoomedInv, vars, callVars
  <1>6. ASSUME NEW j \in Jobs, NEW r \in Reviews, EnqueueReview(j, r) PROVE DoomedInv'
    <2>1. PICK S \in SUBSET Jobs : EnqueueEffect(j, r, S)
      BY <1>6, EnqueueDoes
    <2>2. \A h \in Jobs : h # j => doomed'[h] = doomed[h] /\ stale'[h] = stale[h] /\ work'[h] = work[h]
      BY <1>0, <2>1 DEF EnqueueEffect
    <2>3. doomed'[j] = Supersedable(S) /\ stale'[j] = S /\ j \notin S /\ status[j] = "absent"
      BY <1>0, <2>1 DEF EnqueueEffect
    <2>4. ASSUME NEW q \in doomed'[j] PROVE rstatus'[q] = "pending" /\ \E i \in stale'[j] : work'[i] = q
      BY <2>1, <2>2, <2>3, <2>4 DEF EnqueueEffect, Supersedable
    <2>5. ASSUME NEW h \in Jobs, h # j, NEW q \in doomed'[h]
          PROVE  rstatus'[q] = "pending" /\ \E i \in stale'[h] : work'[i] = q
      <3>1. PICK i \in stale[h] : work[i] = q /\ rstatus[q] = "pending"
        BY <2>2, <2>5 DEF DoomedInv
      <3>2. i # j /\ i \in Jobs
        BY <2>3, StaleRows
      <3> QED
        BY <2>1, <2>2, <2>5, <3>1, <3>2 DEF EnqueueEffect
    <2> QED
      BY <2>4, <2>5 DEF DoomedInv
  <1>7. ASSUME NEW j \in Jobs, CommitEnqueue(j) PROVE DoomedInv'
    <2>1. /\ rstatus' = [r \in Reviews |-> IF r \in doomed[j] THEN "failed" ELSE rstatus[r]]
          /\ stale' = [stale EXCEPT ![j] = {}] /\ doomed' = [doomed EXCEPT ![j] = {}]
          /\ UNCHANGED work
      BY <1>7 DEF CommitEnqueue
    <2> SUFFICES ASSUME NEW h \in Jobs, NEW r \in doomed'[h]
                 PROVE  rstatus'[r] = "pending" /\ \E i \in stale'[h] : work'[i] = r
      BY DEF DoomedInv
    <2>2. h # j /\ r \in doomed[h] /\ stale'[h] = stale[h]
      BY <1>0, <2>1
    <2>3. r \notin doomed[j] /\ r \in Reviews
      BY <2>2, DoomedOnce
    <2> QED
      BY <2>1, <2>2, <2>3 DEF DoomedInv
  <1>8. ASSUME NEW j \in Jobs, RollBack(j) PROVE DoomedInv'
    <2>1. /\ stale' = [stale EXCEPT ![j] = {}] /\ doomed' = [doomed EXCEPT ![j] = {}]
          /\ work' = [work EXCEPT ![j] = NULL] /\ UNCHANGED rstatus
      BY <1>8 DEF RollBack
    <2>2. status[j] = "absent"
      BY <1>8 DEF RollBack, InFlight, RInv, QueueInv, KeyInv
    <2>3. \A h \in Jobs : j \notin stale[h]
      BY <2>2, StaleRows
    <2> QED
      BY <1>0, <2>1, <2>3 DEF DoomedInv
  <1>10. ASSUME NEW c \in Cases, SweepCase(c) PROVE DoomedInv'
    <2>1. PICK S \in SUBSET {i \in Jobs : status[i] = "queued" /\ i \notin Locked} :
            rstatus' = [r \in Reviews |-> IF r \in Supersedable(S) THEN "failed" ELSE rstatus[r]]
      BY <1>10 DEF SweepCase, SelectStale, QueuedOf, CaseJobs
    <2>2. UNCHANGED <<stale, doomed, work>>
      BY <1>10 DEF SweepCase, callVars
    <2>3. \A h \in Jobs : \A r \in doomed[h] : r \in Reviews /\ r \notin Supersedable(S)
      BY <2>1, DoomedOnce DEF Supersedable
    <2> QED
      BY <2>1, <2>2, <2>3 DEF DoomedInv
  <1>11. ASSUME NEW w \in Workers, HookFinalized(w) PROVE DoomedInv'
    <2>1. /\ rstatus' = [rstatus EXCEPT ![work[held[w]]] = ReviewAfterHook(held[w])]
          /\ work[held[w]] \in LockedReviews => ReviewAfterHook(held[w]) = rstatus[work[held[w]]]
          /\ UNCHANGED <<stale, doomed, work>>
      BY <1>11 DEF HookFinalized, FinalizeHook, callVars, Called, ReviewAfterHook
    <2> QED
      BY <1>0, <2>1, DoomedOnce DEF DoomedInv
  <1>12. ASSUME NEW p \in Procs, HookReaped(p) PROVE DoomedInv'
    <2>1. PICK j : /\ rstatus' = [rstatus EXCEPT ![work[j]] = ReviewAfterHook(j)]
                   /\ work[j] \in LockedReviews => ReviewAfterHook(j) = rstatus[work[j]]
      BY <1>12 DEF HookReaped, Called, ReviewAfterHook
    <2>2. UNCHANGED <<stale, doomed, work>>
      BY <1>12 DEF HookReaped, ReapFailureHook, callVars
    <2> QED
      BY <1>0, <2>1, <2>2, DoomedOnce DEF DoomedInv
  <1> QED
    BY <1>1, <1>2, <1>3, <1>5, <1>6, <1>7, <1>8, <1>10, <1>11, <1>12
    DEF RNext, QueueOnly

-----------------------------------------------------------------------------
\* Job ids are given out in the order of the calls, and a review gets a new job
\* only when its older ones are finished.
NewestInv ==
  /\ \A i, k \in Jobs : epc[i] # "start" /\ epc[k] = "start" => i < k
  /\ \A i, k \in Jobs : work[i] = work[k] /\ work[i] # NULL /\ i < k => is_terminal(i)

LEMMA NewestKept == ASSUME RInv, NewestInv, [RNext]_allVars PROVE NewestInv'
  <1>0. /\ work \in [Jobs -> Keys \cup {NULL}]
        /\ epc \in [Jobs -> {"start", "free", "create", "reread", "returned", "raised"}]
        /\ Jobs \subseteq Nat
    BY ReviewsAreNumbers DEF RInv, QueueInv, TypeOK
  <1>1. \A i \in Jobs : is_terminal(i) => is_terminal(i)'
    BY TerminalStays DEF is_terminal
  <1>2. ASSUME UNCHANGED <<epc, work>> PROVE NewestInv'
    BY <1>1, <1>2 DEF NewestInv
  <1>3. ASSUME NEW j \in Jobs, NEW r \in Reviews, EnqueueReview(j, r) PROVE NewestInv'
    <2>1. /\ epc[j] = "start" /\ work[j] = NULL /\ \A i \in Jobs : epc[i] = "start" => j <= i
          /\ epc' = [epc EXCEPT ![j] = "create"]
          /\ \/ work' = work
             \/ work' = [work EXCEPT ![j] = r] /\ \A i \in Jobs : work[i] = r => is_terminal(i)
      BY <1>3, EnqueueDoes DEF EnqueueEffect
    <2>2. ASSUME NEW i \in Jobs, NEW k \in Jobs, epc'[i] # "start", epc'[k] = "start" PROVE i < k
      <3>1. epc[k] = "start" /\ k # j /\ (i = j \/ epc[i] # "start")
        BY <1>0, <2>1, <2>2
      <3>2. CASE i = j
        BY <1>0, <2>1, <3>1, <3>2
      <3>3. CASE epc[i] # "start"
        BY <3>1, <3>3 DEF NewestInv
      <3> QED
        BY <3>1, <3>2, <3>3
    <2>3. ASSUME NEW i \in Jobs, NEW k \in Jobs, work'[i] = work'[k], work'[i] # NULL, i < k
          PROVE  is_terminal(i)'
      <3>1. CASE work' = work
        BY <1>1, <2>3, <3>1 DEF NewestInv
      <3>2. CASE work' = [work EXCEPT ![j] = r] /\ \A q \in Jobs : work[q] = r => is_terminal(q)
        <4>1. CASE i = j
          <5>1. k # j /\ work[k] = r /\ r # NULL
            BY <1>0, <2>3, <3>2, <4>1
          <5>2. epc[k] # "start"
            BY <5>1 DEF RInv, QueueInv, KeyInv, FlightInv
          <5>3. k < j
            BY <2>1, <5>2 DEF NewestInv
          <5> QED
            BY <1>0, <2>3, <4>1, <5>3
        <4>2. CASE i # j /\ k = j
          <5>1. work[i] = r
            BY <1>0, <2>3, <3>2, <4>2
          <5> QED
            BY <1>1, <3>2, <5>1
        <4>3. CASE i # j /\ k # j
          BY <1>0, <1>1, <2>3, <3>2, <4>3 DEF NewestInv
        <4> QED
          BY <4>1, <4>2, <4>3
      <3> QED
        BY <2>1, <3>1, <3>2
    <2> QED
      BY <2>2, <2>3 DEF NewestInv
  <1>4. ASSUME NEW j \in Jobs, CommitEnqueue(j) \/ RollBack(j) PROVE NewestInv'
    <2>1. /\ epc[j] = "create" /\ work' \in {work, [work EXCEPT ![j] = NULL]}
          /\ epc' \in {[epc EXCEPT ![j] = "returned"], [epc EXCEPT ![j] = "raised"]}
      BY <1>4 DEF CommitEnqueue, RollBack, InFlight
    <2>2. \A i \in Jobs : epc'[i] = "start" <=> epc[i] = "start"
      BY <1>0, <2>1
    <2>3. \A i \in Jobs : work'[i] # NULL => work'[i] = work[i]
      BY <1>0, <2>1
    <2> QED
      BY <1>1, <2>2, <2>3 DEF NewestInv
  <1>5. CASE QueueMoves \/ RowsStay
    BY <1>2, <1>5 DEF QueueMoves, RowsStay, callVars
  <1>6. ASSUME NEW c \in Cases, SweepCase(c) PROVE NewestInv'
    BY <1>2, <1>6 DEF SweepCase, callVars
  <1> QED
    BY <1>3, <1>4, <1>5, <1>6, RSteps

BaseInv == JobsInv /\ FiniteRows /\ ReviewType /\ SubmittedInv /\ DoomedInv /\ NewestInv

LEMMA BaseInit == RInit => BaseInv
  <1> SUFFICES ASSUME RInit PROVE BaseInv
    OBVIOUS
  <1>1. JobsInv
    BY RInitInv, HooksInit DEF JobsInv
  <1>2. FiniteRows
    <2>1. {j \in Jobs : status[j] # "absent"} = {}
      BY DEF RInit, Init
    <2> QED
      BY <2>1, FS_EmptySet DEF FiniteRows
  <1>3. ReviewType /\ SubmittedInv /\ DoomedInv
    BY ReviewsAreNumbers DEF RInit, Init, ReviewType, SubmittedInv, DoomedInv
  <1>4. NewestInv
    BY DEF RInit, Init, NewestInv
  <1> QED
    BY <1>1, <1>2, <1>3, <1>4 DEF BaseInv

LEMMA BaseKept == ASSUME BaseInv, [RNext]_allVars PROVE BaseInv'
  <1>1. RInv'
    BY RSteps, QueueKeeps, RowsStayKeeps, EnqueueKeeps, CommitKeeps, RollBackKeeps, SweepKeeps
    DEF BaseInv, JobsInv
  <1> QED
    BY <1>1, HooksKept, RowsStayFinite, ReviewTypeKept, SubmittedKept, DoomedKept, NewestKept
    DEF BaseInv, JobsInv

LEMMA BaseInvariant == RSpec => []BaseInv
  BY BaseInit, BaseKept, PTL DEF RSpec

\* Every column of the jobs and of the reviews holds a value of its type: a
\* review's status is one its model allows, and a sweep keeps a job of its case.
THEOREM ReviewsAreTyped == RSpec => []RTypeOK
  <1>1. BaseInv => RTypeOK
    BY DEF BaseInv, JobsInv, RInv, QueueInv, StaleInv, ReviewType, RTypeOK
  <1> QED
    BY <1>1, BaseInvariant, PTL

\* A grade is lost to nobody but a regrade_all that has read it, with any number
\* of regrades, supersedes, sweeps and late failures under way.
THEOREM GradesAreKept == RSpec => GradeIsKept
  <1> DEFINE Kept == \A r \in Reviews :
                       rstatus[r] = "done" /\ rstatus'[r] # "done" => r \in latest /\ latest' = {}
  <1>1. ASSUME BaseInv, [RNext]_allVars PROVE Kept
    <2> USE DEF BaseInv, requestVars
    <2>0. rstatus \in [Reviews -> {"absent", "pending", "done", "failed"}]
      BY <1>1 DEF ReviewType
    <2>1. CASE QueueOnly
      BY <2>1, QueueOnlyStays DEF reviewVars
    <2>2. ASSUME NEW r \in Reviews, SubmitReview(r) PROVE Kept
      BY <2>0, <2>2 DEF SubmitReview
    <2>3. ASSUME (\E r \in Reviews : RequestLost(r)) \/ RegradeRead \/ SweepRead PROVE Kept
      BY <2>3 DEF RequestLost, RegradeRead, SweepRead
    <2>4. CASE RegradeReset
      BY <2>4 DEF RegradeReset
    <2>5. ASSUME NEW j \in Jobs, NEW r \in Reviews, EnqueueReview(j, r) PROVE Kept
      BY <2>5 DEF EnqueueReview
    <2>6. ASSUME NEW j \in Jobs, CommitEnqueue(j) PROVE Kept
      BY <1>1, <2>6 DEF CommitEnqueue, DoomedInv
    <2>7. ASSUME NEW j \in Jobs, RollBack(j) PROVE Kept
      BY <2>7 DEF RollBack
    <2>8. ASSUME NEW c \in Cases, SweepCase(c) PROVE Kept
      BY <2>8 DEF SweepCase, Supersedable
    <2>9. ASSUME NEW w \in Workers, HookFinalized(w) PROVE Kept
      BY <2>0, <2>9 DEF HookFinalized, ReviewAfterHook
    <2>10. ASSUME NEW p \in Procs, HookReaped(p) PROVE Kept
      BY <2>0, <2>10 DEF HookReaped, ReviewAfterHook
    <2> QED
      BY <1>1, <2>1, <2>2, <2>3, <2>4, <2>5, <2>6, <2>7, <2>8, <2>9, <2>10 DEF RNext, QueueOnly
  <1>2. BaseInv /\ [RNext]_allVars => [Kept]_allVars
    BY <1>1
  <1> QED
    BY <1>2, BaseInvariant, PTL DEF RSpec, GradeIsKept

-----------------------------------------------------------------------------
(***************************************************************************)
(* No review dangles, as long as there is at most one regrade_all.         *)
(***************************************************************************)
\* A hook has settled the review of job j, which is finished.
Settles(j) ==
  /\ is_terminal(j) /\ work[j] \in Reviews /\ rstatus'[work[j]] \in {"done", "failed"}
  /\ \A q \in Reviews : q # work[j] => rstatus'[q] = rstatus[q]

\* A hook of job j raised and nothing came of it.
Raises(j) == rstatus' = rstatus /\ j \in untold'

\* finalize's hook settles the review, or raises, or there was no outcome to tell.
LEMMA FinalizedHook ==
  ASSUME BaseInv, NEW w \in Workers, HookFinalized(w)
  PROVE  /\ UNCHANGED <<rowVars, callVars, crashes, requestVars, stale, doomed, keep>>
         /\ held[w] \in Jobs /\ \A p \in Procs : dead'[p] = dead[p]
         /\ \A v \in Workers : v # w => pc'[v] = pc[v] /\ held'[v] = held[v] /\ posted'[v] = posted[v]
         /\ untold \subseteq untold'
         /\ \/ Settles(held[w])
            \/ Raises(held[w])
            \/ /\ rstatus' = rstatus
               /\ posted[w] # "done" /\ status[held[w]] \notin {"failed", "dead"}
  <1> DEFINE j == held[w]
  <1> USE DEF BaseInv, JobsInv, RInv, QueueInv
  <1>1. FinalizeHook(w) /\ rstatus' = [rstatus EXCEPT ![work[j]] = ReviewAfterHook(j)]
        /\ UNCHANGED <<requestVars, stale, doomed, keep>>
    BY DEF HookFinalized
  <1>2. pc[w] = "hook" /\ j \in Jobs /\ dead[w] = {} /\ w \in Procs
    BY <1>1 DEF FinalizeHook, HeldInv, Procs
  <1>3. UNCHANGED <<rowVars, callVars, crashes>>
    BY <1>1 DEF FinalizeHook
  <1>4. /\ \A p \in Procs : dead'[p] = dead[p]
        /\ \A v \in Workers : v # w => pc'[v] = pc[v] /\ held'[v] = held[v] /\ posted'[v] = posted[v]
    <2>1. dead \in [Procs -> SUBSET Jobs] /\ pc \in [Procs -> {"idle", "swept", "build", "run", "hook", "report"}]
          /\ held \in [Procs -> Jobs \cup {NULL}] /\ posted \in [Procs -> {"done", "failed", NULL}]
      BY DEF TypeOK
    <2>2. CASE Drop(w)
      BY <1>2, <2>1, <2>2 DEF Drop, Procs
    <2>3. CASE pc' = [pc EXCEPT ![w] = "report"] /\ UNCHANGED <<held, token, posted, dead>>
      BY <2>1, <2>3, <1>2 DEF Procs
    <2> QED
      BY <1>1, <2>2, <2>3 DEF FinalizeHook
  <1>5. /\ resultHook \in [Jobs -> Nat] /\ failHook \in [Jobs -> Nat]
        /\ rstatus \in [Reviews -> {"absent", "pending", "done", "failed"}]
    BY DEF TypeOK, ReviewType
  <1>6. posted[w] = "done" => status[j] = "done"
    BY <1>2 DEF HooksInv, HookInv
  <1>7. CASE status[j] = "done" /\ posted[w] = "done" /\ OnResult(j)
    <2>1. untold \subseteq untold'
      BY <1>7 DEF OnResult
    <2>2. is_terminal(j) /\ work[j] \in Reviews
      BY <1>2, <1>7, QueuedHasReview DEF is_terminal, TerminalStatuses
    <2>3. CASE resultHook' = [resultHook EXCEPT ![j] = resultHook[j] + 1]
      <3>1. resultHook'[j] # resultHook[j]
        BY <1>2, <1>5, <2>3
      <3>2. Settles(j)
        BY <1>1, <1>5, <2>2, <3>1 DEF Settles, ReviewAfterHook
      <3> QED
        BY <1>2, <1>1, <1>3, <1>4, <2>1, <3>2
    <2>4. CASE UNCHANGED <<resultHook, failHook>> /\ j \in untold'
      <3>1. rstatus' = [rstatus EXCEPT ![work[j]] = rstatus[work[j]]]
        BY <1>1, <2>4 DEF ReviewAfterHook
      <3>2. Raises(j)
        BY <1>5, <2>4, <3>1 DEF Raises
      <3> QED
        BY <1>2, <1>1, <1>3, <1>4, <2>1, <3>2
    <2> QED
      BY <1>7, <2>3, <2>4 DEF OnResult
  <1>8. CASE status[j] \in {"failed", "dead"} /\ OnFailure(j)
    <2>1. untold \subseteq untold'
      BY <1>8 DEF OnFailure
    <2>2. is_terminal(j) /\ work[j] \in Reviews
      BY <1>2, <1>8, QueuedHasReview DEF is_terminal, TerminalStatuses
    <2>3. CASE failHook' = [failHook EXCEPT ![j] = failHook[j] + 1] /\ UNCHANGED resultHook
      <3>1. failHook'[j] # failHook[j]
        BY <1>2, <1>5, <2>3
      <3>2. Settles(j)
        BY <1>1, <1>5, <2>2, <2>3, <3>1 DEF Settles, ReviewAfterHook
      <3> QED
        BY <1>2, <1>1, <1>3, <1>4, <2>1, <3>2
    <2>4. CASE UNCHANGED <<resultHook, failHook>> /\ j \in untold'
      <3>1. rstatus' = [rstatus EXCEPT ![work[j]] = rstatus[work[j]]]
        BY <1>1, <2>4 DEF ReviewAfterHook
      <3>2. Raises(j)
        BY <1>5, <2>4, <3>1 DEF Raises
      <3> QED
        BY <1>2, <1>1, <1>3, <1>4, <2>1, <3>2
    <2> QED
      BY <1>8, <2>3, <2>4 DEF OnFailure
  <1>9. CASE /\ ~(status[j] = "done" /\ posted[w] = "done")
             /\ status[j] \notin {"failed", "dead"}
             /\ UNCHANGED hookVars
    <2>1. failHook' = failHook /\ resultHook' = resultHook /\ untold' = untold
      BY <1>9 DEF hookVars
    <2>2. rstatus' = [rstatus EXCEPT ![work[j]] = rstatus[work[j]]]
      BY <1>1, <2>1 DEF ReviewAfterHook
    <2>3. rstatus' = rstatus
      BY <1>5, <2>2
    <2>4. posted[w] # "done"
      BY <1>6, <1>9
    <2> QED
      BY <1>1, <1>2, <1>3, <1>4, <1>9, <2>1, <2>3, <2>4
  <1> QED
    BY <1>1, <1>7, <1>8, <1>9 DEF FinalizeHook

\* The sweep's hook settles the review of the job it is for, or raises.
LEMMA ReapedHook ==
  ASSUME BaseInv, NEW p \in Procs, HookReaped(p)
  PROVE  \E j \in dead[p] :
           /\ j \in Jobs /\ (Settles(j) \/ Raises(j)) /\ dead' = [dead EXCEPT ![p] = dead[p] \ {j}]
           /\ untold \subseteq untold'
           /\ UNCHANGED <<rowVars, callVars, pc, held, posted, crashes, requestVars, stale, doomed, keep>>
  <1> USE DEF BaseInv, JobsInv, RInv, QueueInv
  <1>1. PICK i \in dead[p] : OnFailure(i) /\ dead' = [dead EXCEPT ![p] = dead[p] \ {i}]
    BY DEF HookReaped, ReapFailureHook
  <1>2. /\ UNCHANGED <<rowVars, callVars, pc, held, posted, crashes, requestVars, stale, doomed, keep>>
        /\ untold \subseteq untold' /\ resultHook' = resultHook
    BY <1>1 DEF HookReaped, ReapFailureHook, OnFailure
  <1>3. /\ resultHook \in [Jobs -> Nat] /\ failHook \in [Jobs -> Nat] /\ dead \in [Procs -> SUBSET Jobs]
        /\ rstatus \in [Reviews -> {"absent", "pending", "done", "failed"}]
    BY DEF TypeOK, ReviewType
  <1>4. PICK j \in dead[p] \ dead'[p] : rstatus' = [rstatus EXCEPT ![work[j]] = ReviewAfterHook(j)]
    BY DEF HookReaped
  <1>5. j = i /\ j \in Jobs /\ status[j] = "dead"
    BY <1>1, <1>3, <1>4 DEF HooksInv, HookInv
  <1>6. is_terminal(j) /\ work[j] \in Reviews
    BY <1>5, QueuedHasReview DEF is_terminal, TerminalStatuses
  <1>7. CASE failHook' = [failHook EXCEPT ![j] = failHook[j] + 1]
    <2>1. failHook'[j] # failHook[j]
      BY <1>3, <1>5, <1>7
    <2>2. Settles(j)
      BY <1>2, <1>3, <1>4, <1>6, <2>1 DEF Settles, ReviewAfterHook
    <2> QED
      BY <1>1, <1>2, <1>5, <2>2
  <1>8. CASE failHook' = failHook /\ j \in untold'
    <2>1. rstatus' = [rstatus EXCEPT ![work[j]] = rstatus[work[j]]]
      BY <1>2, <1>4, <1>8 DEF ReviewAfterHook
    <2>2. Raises(j)
      BY <1>3, <1>8, <2>1 DEF Raises
    <2> QED
      BY <1>1, <1>2, <1>5, <2>2
  <1> QED
    BY <1>1, <1>5, <1>7, <1>8 DEF OnFailure

\* A step that has no counterpart in the reviews, a hook, or one of the others.
LEMMA ReviewSteps ==
  ASSUME BaseInv, [RNext]_allVars
  PROVE  \/ QueueOnly
         \/ \E r \in Reviews : SubmitReview(r) \/ RequestLost(r)
         \/ RegradeRead \/ RegradeReset \/ SweepRead
         \/ \E j \in Jobs, r \in Reviews, S \in SUBSET Jobs : EnqueueEffect(j, r, S)
         \/ \E j \in Jobs : CommitEnqueue(j) \/ RollBack(j)
         \/ \E c \in Cases : SweepCase(c)
         \/ \E w \in Workers : HookFinalized(w)
         \/ \E p \in Procs : HookReaped(p)
  BY EnqueueDoes DEF BaseInv, JobsInv, RNext, QueueOnly

\* Before a regrade_all has reset anything.
FirstRound == regrades = 0 \/ latest # {}

\* In the first round a review has one request or one job, and is pending as
\* long as that is not finished.
OneRound(r) ==
  /\ todo[r] <= 1
  /\ \A i \in Jobs : work[i] = r => todo[r] = 0 /\ \A j \in Jobs : work[j] = r => i = j
  /\ todo[r] > 0 \/ (\E i \in Jobs : work[i] = r /\ ~is_terminal(i)) => rstatus[r] = "pending"

FirstRoundInv ==
  /\ latest # {} => regrades >= 1
  /\ regrades <= 1 /\ FirstRound => \A r \in Reviews : OneRound(r)

\* A step that keeps the requests and the jobs of the reviews and settles only
\* those whose jobs it finds or leaves finished.
LEMMA OneRoundKept ==
  ASSUME BaseInv, [RNext]_allVars, UNCHANGED <<todo, work>>,
         NEW r \in Reviews, OneRound(r),
         \/ rstatus'[r] = rstatus[r]
         \/ todo[r] = 0 /\ \A i \in Jobs : work[i] = r => is_terminal(i)'
  PROVE  OneRound(r)'
  <1>1. \A i \in Jobs : is_terminal(i) => is_terminal(i)'
    BY TerminalStays DEF BaseInv, JobsInv, is_terminal
  <1>2. todo'[r] <= 1 /\ \A i \in Jobs : work'[i] = r => todo'[r] = 0 /\ \A j \in Jobs : work'[j] = r => i = j
    BY DEF OneRound
  <1>3. ASSUME todo'[r] > 0 \/ \E i \in Jobs : work'[i] = r /\ ~is_terminal(i)'
        PROVE  rstatus'[r] = "pending"
    <2>1. todo[r] > 0 \/ \E i \in Jobs : work[i] = r /\ ~is_terminal(i)
      BY <1>1, <1>3
    <2>2. rstatus[r] = "pending"
      BY <2>1 DEF OneRound
    <2>3. todo[r] > 0 => todo[r] # 0
      BY DEF BaseInv, ReviewType
    <2>4. rstatus'[r] = rstatus[r]
      BY <1>3, <2>3
    <2> QED
      BY <2>2, <2>4
  <1> QED
    BY <1>2, <1>3 DEF OneRound

\* A settled review has no unfinished job in the first round.
LEMMA OneRoundSettled ==
  ASSUME BaseInv, [RNext]_allVars, UNCHANGED <<todo, work>>,
         NEW j \in Jobs, Settles(j), NEW r \in Reviews, OneRound(r)
  PROVE  OneRound(r)'
  <1>1. is_terminal(j)'
    BY TerminalStays DEF BaseInv, JobsInv, is_terminal, Settles
  <1>2. CASE r # work[j]
    BY <1>2, OneRoundKept DEF Settles
  <1>3. CASE r = work[j]
    <2>1. todo[r] = 0 /\ \A i \in Jobs : work[i] = r => i = j
      BY <1>3 DEF OneRound
    <2>2. \A i \in Jobs : work[i] = r => is_terminal(i)'
      BY <1>1, <2>1
    <2> QED
      BY <2>1, <2>2, OneRoundKept
  <1> QED
    BY <1>2, <1>3

LEMMA FirstRoundKept ==
  ASSUME BaseInv, FirstRoundInv, [RNext]_allVars
  PROVE  FirstRoundInv'
  <1> USE ReviewsAreNumbers DEF requestVars
  <1>0. /\ regrades \in Nat /\ todo \in [Reviews -> Nat] /\ work \in [Jobs -> Reviews \cup {NULL}]
        /\ rstatus \in [Reviews -> {"absent", "pending", "done", "failed"}]
        /\ RInv /\ DoomedInv /\ SubmittedInv /\ ReviewType
    BY DEF BaseInv, JobsInv, ReviewType, RInv, QueueInv, TypeOK
  <1> DEFINE Rest == UNCHANGED <<regrades, latest>> /\ \A r \in Reviews : OneRound(r) => OneRound(r)'
  <1>a. ASSUME Rest PROVE FirstRoundInv'
    BY <1>a DEF FirstRoundInv, FirstRound
  <1>1. CASE QueueOnly
    <2>1. UNCHANGED <<todo, work, rstatus, regrades, latest>>
      BY <1>1, QueueOnlyStays DEF reviewVars, callVars
    <2> QED
      BY <1>a, <2>1, OneRoundKept
  <1>2. ASSUME NEW r \in Reviews, SubmitReview(r) PROVE FirstRoundInv'
    <2>1. /\ rstatus[r] = "absent" /\ rstatus' = [rstatus EXCEPT ![r] = "pending"]
          /\ todo' = [todo EXCEPT ![r] = todo[r] + 1]
          /\ UNCHANGED <<work, status, latest, regrades>>
      BY <1>2 DEF SubmitReview, vars, rowVars, callVars
    <2>2. todo[r] = 0 /\ \A i \in Jobs : work[i] # r
      BY <1>0, <2>1 DEF SubmittedInv
    <2>3. OneRound(r)'
      BY <1>0, <2>1, <2>2 DEF OneRound
    <2>4. ASSUME NEW q \in Reviews, q # r, OneRound(q) PROVE OneRound(q)'
      <3>1. todo'[q] = todo[q] /\ rstatus'[q] = rstatus[q]
        BY <1>0, <2>1, <2>4
      <3> QED
        BY <2>1, <2>4, <3>1 DEF OneRound, is_terminal
    <2> QED
      BY <1>a, <2>1, <2>3, <2>4
  <1>3. ASSUME NEW r \in Reviews, RequestLost(r) PROVE FirstRoundInv'
    <2>1. /\ todo' = [todo EXCEPT ![r] = todo[r] - 1] /\ todo[r] > 0
          /\ UNCHANGED <<work, status, rstatus, latest, regrades>>
      BY <1>3 DEF RequestLost, rowVars, callVars
    <2>2. ASSUME NEW q \in Reviews, OneRound(q) PROVE OneRound(q)'
      <3>1. CASE q = r
        BY <1>0, <2>1, <2>2, <3>1 DEF OneRound, is_terminal
      <3>2. CASE q # r
        <4>1. todo'[q] = todo[q]
          BY <1>0, <2>1, <3>2
        <4> QED
          BY <2>1, <2>2, <4>1 DEF OneRound, is_terminal
      <3> QED
        BY <3>1, <3>2
    <2> QED
      BY <1>a, <2>1, <2>2
  <1>4. CASE RegradeRead
    <2>1. regrades' = regrades + 1 /\ latest' # {} /\ UNCHANGED <<todo, work, status, rstatus>>
      BY <1>4 DEF RegradeRead, vars, rowVars, callVars
    <2>2. \A r \in Reviews : OneRound(r) => OneRound(r)'
      BY <2>1 DEF OneRound, is_terminal
    <2>3. regrades' <= 1 => regrades = 0
      BY <1>0, <2>1
    <2> QED
      BY <1>0, <2>1, <2>2, <2>3 DEF FirstRoundInv, FirstRound
  <1>5. CASE RegradeReset
    <2>1. latest # {} /\ latest' = {} /\ regrades' = regrades
      BY <1>5 DEF RegradeReset
    <2> QED
      BY <1>0, <2>1 DEF FirstRoundInv, FirstRound
  <1>6. ASSUME NEW j \in Jobs, NEW r \in Reviews, NEW S \in SUBSET Jobs, EnqueueEffect(j, r, S)
        PROVE  FirstRoundInv'
    <2>1. /\ todo[r] > 0 /\ work[j] = NULL
          /\ todo' = [todo EXCEPT ![r] = todo[r] - 1]
          /\ work' = [work EXCEPT ![j] = r] \/ (UNCHANGED work /\ \E i \in Jobs : work[i] = r)
          /\ UNCHANGED <<status, rstatus, latest, regrades>>
      BY <1>6 DEF EnqueueEffect, rowVars
    <2>2. ASSUME NEW q \in Reviews, OneRound(q) PROVE OneRound(q)'
      <3>1. CASE q = r
        <4>1. todo[r] = 1 /\ \A i \in Jobs : work[i] # r
          BY <1>0, <2>1, <2>2, <3>1 DEF OneRound
        <4>2. work' = [work EXCEPT ![j] = r] /\ todo'[r] = 0
          BY <1>0, <2>1, <4>1
        <4>3. \A i \in Jobs : work'[i] = r <=> i = j
          BY <1>0, <4>1, <4>2
        <4>4. rstatus'[r] = "pending"
          BY <2>1, <2>2, <3>1 DEF OneRound
        <4> QED
          BY <3>1, <4>2, <4>3, <4>4 DEF OneRound
      <3>2. CASE q # r
        <4>1. todo'[q] = todo[q] /\ \A i \in Jobs : work'[i] = q <=> work[i] = q
          BY <1>0, <2>1, <3>2
        <4> QED
          BY <2>1, <2>2, <4>1 DEF OneRound, is_terminal
      <3> QED
        BY <3>1, <3>2
    <2> QED
      BY <1>a, <2>1, <2>2
  <1>7. ASSUME NEW j \in Jobs, CommitEnqueue(j) PROVE FirstRoundInv'
    <2>1. /\ UNCHANGED <<todo, work, regrades, latest>>
          /\ status' = [i \in Jobs |-> IF i = j /\ found[j] = j THEN "queued"
                                       ELSE IF i \in stale[j] THEN "dead" ELSE status[i]]
          /\ rstatus' = [q \in Reviews |-> IF q \in doomed[j] THEN "failed" ELSE rstatus[q]]
          /\ status[j] = "absent"
      BY <1>0, <1>7 DEF CommitEnqueue, InFlight, RInv, QueueInv, KeyInv
    <2>2. ASSUME NEW q \in Reviews, OneRound(q) PROVE OneRound(q)'
      <3>1. CASE q \notin doomed[j]
        BY <2>1, <2>2, <3>1, OneRoundKept
      <3>2. CASE q \in doomed[j]
        <4>1. PICK i \in stale[j] : work[i] = q
          BY <1>0, <3>2 DEF DoomedInv
        <4>2. i \in Jobs /\ i # j
          BY <1>0, <2>1, <4>1, StaleRows
        <4>3. is_terminal(i)'
          BY <2>1, <4>1, <4>2 DEF is_terminal, TerminalStatuses
        <4>4. todo[q] = 0 /\ \A k \in Jobs : work[k] = q => k = i
          BY <2>2, <4>1, <4>2 DEF OneRound
        <4>5. \A k \in Jobs : work[k] = q => is_terminal(k)'
          BY <4>3, <4>4
        <4> QED
          BY <2>1, <2>2, <4>4, <4>5, OneRoundKept
      <3> QED
        BY <3>1, <3>2
    <2> QED
      BY <1>a, <2>1, <2>2
  <1>8. ASSUME NEW j \in Jobs, RollBack(j) PROVE FirstRoundInv'
    <2>1. work' = [work EXCEPT ![j] = NULL] /\ UNCHANGED <<status, rstatus, todo, latest, regrades>>
      BY <1>8 DEF RollBack, rowVars
    <2>2. \A q \in Reviews : \A i \in Jobs : work'[i] = q => work[i] = q
      BY <1>0, <2>1
    <2>3. ASSUME NEW q \in Reviews, OneRound(q) PROVE OneRound(q)'
      BY <2>1, <2>2, <2>3 DEF OneRound, is_terminal
    <2> QED
      BY <1>a, <2>1, <2>3
  <1>9. CASE SweepRead
    <2>1. UNCHANGED <<status, work, rstatus, todo, latest, regrades>>
      BY <1>9 DEF SweepRead, vars, rowVars, callVars
    <2> QED
      BY <1>a, <2>1 DEF OneRound, is_terminal
  <1>10. ASSUME NEW c \in Cases, SweepCase(c) PROVE FirstRoundInv'
    <2>1. PICK S \in SUBSET Jobs :
            /\ status' = [i \in Jobs |-> IF i \in S THEN "dead" ELSE status[i]]
            /\ rstatus' = [r \in Reviews |-> IF r \in Supersedable(S) THEN "failed" ELSE rstatus[r]]
      BY <1>10 DEF SweepCase, SelectStale, QueuedOf, CaseJobs
    <2>2. UNCHANGED <<todo, work, latest, regrades>>
      BY <1>10 DEF SweepCase, callVars
    <2>3. ASSUME NEW q \in Reviews, OneRound(q) PROVE OneRound(q)'
      <3>1. CASE q \notin Supersedable(S)
        BY <2>1, <2>2, <2>3, <3>1, OneRoundKept
      <3>2. CASE q \in Supersedable(S)
        <4>1. PICK i \in S : work[i] = q
          BY <3>2 DEF Supersedable
        <4>2. is_terminal(i)'
          BY <2>1, <4>1 DEF is_terminal, TerminalStatuses
        <4>3. todo[q] = 0 /\ \A k \in Jobs : work[k] = q => k = i
          BY <2>3, <4>1 DEF OneRound
        <4>4. \A k \in Jobs : work[k] = q => is_terminal(k)'
          BY <4>2, <4>3
        <4> QED
          BY <2>2, <2>3, <4>3, <4>4, OneRoundKept
      <3> QED
        BY <3>1, <3>2
    <2> QED
      BY <1>a, <2>2, <2>3
  <1>11. ASSUME NEW w \in Workers, HookFinalized(w) PROVE FirstRoundInv'
    <2>1. UNCHANGED <<todo, work, latest, regrades>> /\ held[w] \in Jobs
          /\ (Settles(held[w]) \/ rstatus' = rstatus)
      BY <1>11, FinalizedHook DEF callVars, Raises
    <2>2. \A q \in Reviews : OneRound(q) => OneRound(q)'
      BY <2>1, OneRoundSettled, OneRoundKept
    <2> QED
      BY <1>a, <2>1, <2>2
  <1>12. ASSUME NEW p \in Procs, HookReaped(p) PROVE FirstRoundInv'
    <2>1. PICK j \in Jobs : (Settles(j) \/ rstatus' = rstatus) /\ UNCHANGED <<todo, work, latest, regrades>>
      BY <1>12, ReapedHook DEF callVars, Raises
    <2>2. \A q \in Reviews : OneRound(q) => OneRound(q)'
      BY <2>1, OneRoundSettled, OneRoundKept
    <2> QED
      BY <1>a, <2>1, <2>2
  <1> QED
    BY <1>1, <1>2, <1>3, <1>4, <1>5, <1>6, <1>7, <1>8, <1>9, <1>10, <1>11, <1>12, ReviewSteps

\* In the first round a supersede updates the review of every job it has locked
\* that is still pending.
SupersedeInv ==
  regrades <= 1 =>
    \A j \in Jobs : \A i \in stale[j] : rstatus[work[i]] = "pending" => work[i] \in doomed[j]

\* A step that locks nothing and makes no review pending again.
LEMMA SupersedeStays ==
  ASSUME BaseInv, SupersedeInv, UNCHANGED regrades,
         \A j \in Jobs : \/ stale'[j] = {}
                         \/ stale'[j] = stale[j] /\ doomed'[j] = doomed[j]
                            /\ \A i \in stale[j] : work'[i] = work[i],
         \A q \in Reviews : rstatus'[q] = "pending" => rstatus[q] = "pending"
  PROVE  SupersedeInv'
  <1> SUFFICES ASSUME regrades <= 1, NEW j \in Jobs, NEW i \in stale'[j], rstatus'[work'[i]] = "pending"
               PROVE  work'[i] \in doomed'[j]
    BY DEF SupersedeInv
  <1>1. i \in stale[j] /\ doomed'[j] = doomed[j] /\ work'[i] = work[i]
    OBVIOUS
  <1>2. work[i] \in Reviews
    BY <1>1, StaleRows DEF BaseInv, JobsInv
  <1> QED
    BY <1>1, <1>2 DEF SupersedeInv

LEMMA SupersedeKept ==
  ASSUME BaseInv, FirstRoundInv, SupersedeInv, [RNext]_allVars
  PROVE  SupersedeInv'
  <1> USE ReviewsAreNumbers DEF requestVars
  <1>0. /\ regrades \in Nat /\ work \in [Jobs -> Reviews \cup {NULL}]
        /\ rstatus \in [Reviews -> {"absent", "pending", "done", "failed"}]
        /\ stale \in [Jobs -> SUBSET Jobs] /\ doomed \in [Jobs -> SUBSET Reviews]
        /\ RInv /\ DoomedInv /\ SubmittedInv /\ ReviewType
    BY DEF BaseInv, JobsInv, ReviewType, RInv, QueueInv, TypeOK, StaleInv
  <1>1. CASE QueueOnly
    <2>1. UNCHANGED <<work, rstatus, regrades, stale, doomed>>
      BY <1>1, QueueOnlyStays DEF reviewVars, callVars
    <2> QED
      BY <2>1, SupersedeStays
  <1>2. ASSUME NEW r \in Reviews, SubmitReview(r) PROVE SupersedeInv'
    <2>1. /\ rstatus[r] = "absent" /\ rstatus' = [rstatus EXCEPT ![r] = "pending"]
          /\ UNCHANGED <<work, stale, doomed, regrades>>
      BY <1>2 DEF SubmitReview, vars, callVars
    <2>2. \A j \in Jobs : \A i \in stale[j] : rstatus'[work[i]] = rstatus[work[i]]
      BY <1>0, <2>1, StaleRows DEF SubmittedInv
    <2> QED
      BY <2>1, <2>2 DEF SupersedeInv
  <1>3. ASSUME (\E r \in Reviews : RequestLost(r)) \/ SweepRead PROVE SupersedeInv'
    <2>1. UNCHANGED <<work, rstatus, regrades, stale, doomed>>
      BY <1>3 DEF RequestLost, SweepRead, vars, callVars
    <2> QED
      BY <2>1, SupersedeStays
  <1>4. CASE RegradeRead
    <2>1. regrades' = regrades + 1 /\ UNCHANGED <<work, rstatus, stale, doomed>>
      BY <1>4 DEF RegradeRead, vars, callVars
    <2> QED
      BY <1>0, <2>1 DEF SupersedeInv
  <1>5. CASE RegradeReset
    <2>1. /\ latest # {} /\ UNCHANGED <<work, status, regrades, stale, doomed>>
          /\ rstatus' = [r \in Reviews |-> IF r \in latest THEN "pending" ELSE rstatus[r]]
      BY <1>5 DEF RegradeReset, vars, callVars, rowVars
    <2> SUFFICES ASSUME regrades <= 1, NEW j \in Jobs, NEW i \in stale[j], rstatus'[work[i]] = "pending"
                 PROVE  work[i] \in doomed[j]
      BY <2>1 DEF SupersedeInv
    <2>2. i \in Jobs /\ ~is_terminal(i) /\ work[i] \in Reviews
      BY <1>0, StaleRows DEF is_terminal, TerminalStatuses
    <2>3. OneRound(work[i])
      BY <2>1, <2>2 DEF FirstRoundInv, FirstRound
    <2>4. rstatus[work[i]] = "pending"
      BY <2>2, <2>3 DEF OneRound
    <2> QED
      BY <2>4 DEF SupersedeInv
  <1>6. ASSUME NEW j \in Jobs, NEW r \in Reviews, NEW S \in SUBSET Jobs, EnqueueEffect(j, r, S)
        PROVE  SupersedeInv'
    <2>1. /\ status[j] = "absent"
          /\ \A i \in S : i \in Jobs /\ status[i] = "queued" /\ work[i] \in Reviews
          /\ stale' = [stale EXCEPT ![j] = S]
          /\ doomed' = [doomed EXCEPT ![j] = Supersedable(S)]
          /\ work' = [work EXCEPT ![j] = r] \/ UNCHANGED work
          /\ UNCHANGED <<rstatus, regrades>>
      BY <1>6 DEF EnqueueEffect
    <2> SUFFICES ASSUME regrades <= 1, NEW h \in Jobs, NEW i \in stale'[h], rstatus[work'[i]] = "pending"
                 PROVE  work'[i] \in doomed'[h]
      BY <2>1 DEF SupersedeInv
    <2>2. CASE h = j
      <3>1. i \in S /\ i # j /\ doomed'[h] = Supersedable(S)
        BY <1>0, <2>1, <2>2
      <3>2. work'[i] = work[i] /\ work[i] \in Reviews
        BY <1>0, <2>1, <3>1
      <3> QED
        BY <3>1, <3>2 DEF Supersedable
    <2>3. CASE h # j
      <3>1. i \in stale[h] /\ doomed'[h] = doomed[h]
        BY <1>0, <2>1, <2>3
      <3>2. i # j /\ i \in Jobs
        BY <1>0, <2>1, <3>1, StaleRows
      <3>3. work'[i] = work[i]
        BY <1>0, <2>1, <3>2
      <3> QED
        BY <3>1, <3>3 DEF SupersedeInv
    <2> QED
      BY <2>2, <2>3
  <1>7. ASSUME NEW j \in Jobs, CommitEnqueue(j) PROVE SupersedeInv'
    <2>1. /\ UNCHANGED <<work, regrades>>
          /\ rstatus' = [q \in Reviews |-> IF q \in doomed[j] THEN "failed" ELSE rstatus[q]]
          /\ stale' = [stale EXCEPT ![j] = {}] /\ doomed' = [doomed EXCEPT ![j] = {}]
      BY <1>7 DEF CommitEnqueue
    <2>2. \A h \in Jobs : stale'[h] = {} \/ (stale'[h] = stale[h] /\ doomed'[h] = doomed[h])
      BY <1>0, <2>1
    <2>3. \A q \in Reviews : rstatus'[q] = "pending" => rstatus[q] = "pending"
      BY <2>1
    <2> QED
      BY <2>1, <2>2, <2>3, SupersedeStays
  <1>8. ASSUME NEW j \in Jobs, RollBack(j) PROVE SupersedeInv'
    <2>1. /\ work' = [work EXCEPT ![j] = NULL] /\ UNCHANGED <<rstatus, regrades>>
          /\ stale' = [stale EXCEPT ![j] = {}] /\ doomed' = [doomed EXCEPT ![j] = {}]
          /\ status[j] = "absent"
      BY <1>0, <1>8 DEF RollBack, InFlight, RInv, QueueInv, KeyInv
    <2>2. \A h \in Jobs : \A i \in stale[h] : i \in Jobs /\ i # j
      BY <1>0, <2>1, StaleRows
    <2>3. \A h \in Jobs : \A i \in stale[h] : work'[i] = work[i]
      BY <1>0, <2>1, <2>2
    <2>4. \A h \in Jobs : stale'[h] = {} \/ (stale'[h] = stale[h] /\ doomed'[h] = doomed[h])
      BY <1>0, <2>1
    <2> QED
      BY <2>1, <2>3, <2>4, SupersedeStays
  <1>9. ASSUME NEW c \in Cases, SweepCase(c) PROVE SupersedeInv'
    <2>1. PICK S :
            rstatus' = [r \in Reviews |-> IF r \in Supersedable(S) THEN "failed" ELSE rstatus[r]]
      BY <1>9 DEF SweepCase
    <2>2. UNCHANGED <<work, regrades, stale, doomed>>
      BY <1>9 DEF SweepCase, callVars
    <2>3. \A q \in Reviews : rstatus'[q] = "pending" => rstatus[q] = "pending"
      BY <2>1
    <2> QED
      BY <2>2, <2>3, SupersedeStays
  <1>10. ASSUME UNCHANGED <<work, regrades, stale, doomed>>,
                rstatus' = rstatus \/ \E j \in Jobs : Settles(j)
         PROVE  SupersedeInv'
    <2>1. \A q \in Reviews : rstatus'[q] = "pending" => rstatus[q] = "pending"
      BY <1>10 DEF Settles
    <2> QED
      BY <1>10, <2>1, SupersedeStays
  <1>11. ASSUME NEW w \in Workers, HookFinalized(w) PROVE SupersedeInv'
    <2>1. /\ UNCHANGED <<work, regrades, stale, doomed>> /\ held[w] \in Jobs
          /\ Settles(held[w]) \/ rstatus' = rstatus
      BY <1>11, FinalizedHook DEF callVars, Raises
    <2> QED
      BY <1>10, <2>1
  <1>12. ASSUME NEW p \in Procs, HookReaped(p) PROVE SupersedeInv'
    <2>1. PICK j \in Jobs : (Settles(j) \/ rstatus' = rstatus) /\ UNCHANGED <<work, regrades, stale, doomed>>
      BY <1>12, ReapedHook DEF callVars, Raises
    <2> QED
      BY <1>10, <2>1
  <1> QED
    BY <1>1, <1>2, <1>3, <1>4, <1>5, <1>6, <1>7, <1>8, <1>9, <1>11, <1>12, ReviewSteps

\* Job j still owes its review an outcome: it is active, or its last hook is
\* with the process that finished it, and will find an outcome to tell.
JobOwes(j) ==
  \/ status[j] \in ActiveStatuses
  \/ \E p \in Procs : j \in dead[p]
  \/ \E w \in Workers : /\ pc[w] = "hook" /\ held[w] = j
                        /\ posted[w] = "done" \/ status[j] \in {"failed", "dead"}

\* ... or its hook raised.
JobDue(j) == JobOwes(j) \/ j \in untold

\* A request, a transaction under way or the newest job of review r owes it an
\* outcome, or that job's hook raised.
Owed(r) ==
  \/ todo[r] > 0
  \/ \E j \in InFlight : work[j] = r
  \/ \E j \in Jobs : IsNewest(j, r) /\ JobDue(j)

PendingInv ==
  crashes = 0 /\ regrades <= 1 => \A r \in Reviews : rstatus[r] = "pending" => Owed(r)

\* A finalize hands the job to its hook or back to the queue.
LEMMA FinalizeOwes ==
  ASSUME QueueInv, NEW w \in Workers, NEW From, From \subseteq {"build", "run", "report"},
         NEW st \in {"done", "failed"}, NEW retryable \in BOOLEAN,
         Finalize(w, From, st, retryable), NEW j \in Jobs, JobOwes(j)
  PROVE  JobOwes(j)'
  <1> DEFINE i == held[w]
  <1> USE DEF QueueInv, Procs
  <1>1. /\ pc[w] \in From /\ i \in Jobs /\ status[i] = "running"
        /\ status' = [status EXCEPT ![i] = Outcome(i, st, retryable)]
        /\ posted' = [posted EXCEPT ![w] = st] /\ pc' = [pc EXCEPT ![w] = "hook"]
        /\ UNCHANGED <<held, dead>>
    BY DEF Finalize, FinalizeRow, HeldInv
  <1>2. /\ status \in [Jobs -> ActiveStatuses \cup TerminalStatuses \cup {"absent"}]
        /\ pc \in [Procs -> {"idle", "swept", "build", "run", "hook", "report"}]
        /\ posted \in [Procs -> {"done", "failed", NULL}]
    BY DEF TypeOK
  <1>3. CASE j = i
    <2>1. status'[j] = Outcome(i, st, retryable) /\ pc'[w] = "hook" /\ held'[w] = j /\ posted'[w] = st
      BY <1>1, <1>2, <1>3
    <2>2. Outcome(i, st, retryable) \in {"done", "queued", "dead", "failed"}
          /\ (Outcome(i, st, retryable) = "done" <=> st = "done")
      BY <1>1, OutcomeType
    <2> QED
      BY <2>1, <2>2 DEF JobOwes, ActiveStatuses
  <1>4. CASE j # i
    <2>1. status'[j] = status[j]
      BY <1>1, <1>2, <1>4
    <2>2. \A v \in Workers : pc[v] = "hook" => pc'[v] = "hook" /\ posted'[v] = posted[v]
      BY <1>1, <1>2
    <2> QED
      BY <1>1, <2>1, <2>2 DEF JobOwes
  <1> QED
    BY <1>3, <1>4

\* No step of the queue forgets what a job owes, unless a process crashes.
LEMMA QueueOnlyOwes ==
  ASSUME RInv, QueueOnly, crashes' = 0, NEW j \in Jobs, JobOwes(j)
  PROVE  JobOwes(j)'
  <1> USE DEF RInv, QueueInv, Procs
  <1>0. /\ status \in [Jobs -> ActiveStatuses \cup TerminalStatuses \cup {"absent"}]
        /\ pc \in [Procs -> {"idle", "swept", "build", "run", "hook", "report"}]
        /\ held \in [Procs -> Jobs \cup {NULL}] /\ posted \in [Procs -> {"done", "failed", NULL}]
        /\ dead \in [Procs -> SUBSET Jobs] /\ crashes \in Nat
    BY LimitAssumption DEF TypeOK
  <1>1. ASSUME NEW w \in Workers, BuildPayloadFails(w) \/ FinalizeDone(w) \/ FinalizeRetryable(w)
        PROVE  JobOwes(j)'
    BY <1>1, FinalizeOwes DEF BuildPayloadFails, FinalizeDone, FinalizeRetryable
  <1>2. ASSUME NEW w \in Workers, BuildPayload(w) \/ Touch(w) PROVE JobOwes(j)'
    <2>1. UNCHANGED <<status, held, posted, dead>> /\ \A v \in Workers : pc[v] = "hook" => pc'[v] = "hook"
      BY <1>0, <1>2 DEF BuildPayload, Touch, rowVars, procVars
    <2> QED
      BY <2>1 DEF JobOwes
  <1>3. ASSUME NEW w \in Workers, FinalizeRejected(w) PROVE JobOwes(j)'
    <2>1. pc[w] # "hook" /\ dead[w] = {} /\ UNCHANGED status
      BY <1>3 DEF FinalizeRejected, HeldInv, rowVars
    <2>2. (\A p \in Procs : dead[p] \subseteq dead'[p])
          /\ \A v \in Workers : pc[v] = "hook" => pc'[v] = "hook" /\ held'[v] = held[v] /\ posted'[v] = posted[v]
      <3>1. CASE Drop(w)
        BY <1>0, <2>1, <3>1 DEF Drop
      <3>2. CASE pc' = [pc EXCEPT ![w] = "report"] /\ UNCHANGED <<held, token, posted, dead>>
        BY <1>0, <2>1, <3>2
      <3> QED
        BY <1>3, <3>1, <3>2 DEF FinalizeRejected
    <2> QED
      BY <2>1, <2>2 DEF JobOwes
  <1>4. ASSUME NEW w \in Workers, Claim(w) PROVE JobOwes(j)'
    <2>1. /\ \E i \in Claimable : status' = [status EXCEPT ![i] = "running"] /\ held' = [held EXCEPT ![w] = i]
          /\ pc' = [pc EXCEPT ![w] = "build"] /\ pc[w] = "swept" /\ UNCHANGED <<posted, dead>>
      BY <1>4 DEF Claim
    <2>2. \/ status'[j] = status[j]
          \/ status[j] = "queued" /\ status'[j] = "running"
      BY <1>0, <2>1 DEF Claimable
    <2>3. \A v \in Workers : pc[v] = "hook" => pc'[v] = "hook" /\ held'[v] = held[v]
      BY <1>0, <2>1
    <2> QED
      BY <2>1, <2>2, <2>3 DEF JobOwes, ActiveStatuses
  <1>5. ASSUME NEW w \in Workers, ClaimNoneUnlocked(w) PROVE JobOwes(j)'
    <2>1. UNCHANGED <<status, held, posted, dead>> /\ \A v \in Workers : pc[v] = "hook" => pc'[v] = "hook"
      BY <1>0, <1>5 DEF ClaimNoneUnlocked, rowVars
    <2> QED
      BY <2>1 DEF JobOwes
  <1>6. ASSUME NEW p \in Procs, ReapExpired(p) PROVE JobOwes(j)'
    <2>1. PICK S \in SUBSET Lapsed :
            /\ status' = [i \in Jobs |-> IF i \in S THEN ReapOutcome(i) ELSE status[i]]
            /\ dead' = [dead EXCEPT ![p] = {i \in S : ~can_retry(i)}]
      BY <1>6 DEF ReapExpired
    <2>2. pc' = [pc EXCEPT ![p] = "swept"] /\ pc[p] = "idle" /\ dead[p] = {} /\ UNCHANGED <<held, posted>>
      BY <1>6 DEF ReapExpired, HeldInv
    <2>3. (\A q \in Procs : dead[q] \subseteq dead'[q]) /\ \A v \in Workers : pc[v] = "hook" => pc'[v] = "hook"
      BY <1>0, <2>1, <2>2
    <2>4. CASE j \in S
      <3>1. status'[j] = IF can_retry(j) THEN "queued" ELSE "dead"
        BY <2>1, <2>4, ReapOutcomeType
      <3>2. ~can_retry(j) => j \in dead'[p]
        BY <1>0, <2>1, <2>4
      <3> QED
        BY <3>1, <3>2 DEF JobOwes, ActiveStatuses
    <2>5. CASE j \notin S
      <3>1. status'[j] = status[j]
        BY <2>1, <2>5
      <3> QED
        BY <2>2, <2>3, <3>1 DEF JobOwes
    <2> QED
      BY <2>4, <2>5
  <1>7. ASSUME NEW p \in Procs, SweepDone(p) PROVE JobOwes(j)'
    <2>1. UNCHANGED <<status, held, posted, dead>> /\ \A v \in Workers : pc[v] = "hook" => pc'[v] = "hook"
      BY <1>0, <1>7 DEF SweepDone, rowVars
    <2> QED
      BY <2>1 DEF JobOwes
  <1>8. ASSUME NEW p \in Procs, Crash(p) PROVE JobOwes(j)'
    BY <1>0, <1>8 DEF Crash
  <1>9. CASE RTick \/ UNCHANGED allVars
    <2>1. UNCHANGED <<status, pc, held, posted, dead>>
      BY <1>9 DEF RTick, Tick, allVars, vars, rowVars, procVars
    <2> QED
      BY <2>1 DEF JobOwes
  <1> QED
    BY <1>1, <1>2, <1>3, <1>4, <1>5, <1>6, <1>7, <1>8, <1>9
    DEF QueueOnly, PollerStep, ProcStep, ClaimUnlocked

\* A step whose requests stay, and whose jobs that owe an outcome still do.
LEMMA OwedStays ==
  ASSUME NEW r \in Reviews, Owed(r), UNCHANGED <<todo, epc, work>>,
         \A j \in Jobs : work[j] = r /\ JobDue(j) => JobDue(j)'
  PROVE  Owed(r)'
  BY DEF Owed, InFlight, IsNewest

\* A job that is not finished is the newest of its review.
LEMMA UnfinishedIsNewest ==
  ASSUME NewestInv, Jobs \subseteq Nat, NEW j \in Jobs, NEW r, work[j] = r, r # NULL, ~is_terminal(j)
  PROVE  IsNewest(j, r)
  BY DEF NewestInv, IsNewest

LEMMA PendingKept ==
  ASSUME BaseInv, FirstRoundInv, SupersedeInv, PendingInv, [RNext]_allVars
  PROVE  PendingInv'
  <1> USE ReviewsAreNumbers DEF requestVars
  <1>0. /\ regrades \in Nat /\ crashes \in Nat /\ work \in [Jobs -> Reviews \cup {NULL}]
        /\ todo \in [Reviews -> Nat]
        /\ rstatus \in [Reviews -> {"absent", "pending", "done", "failed"}]
        /\ epc \in [Jobs -> {"start", "free", "create", "reread", "returned", "raised"}]
        /\ dead \in [Procs -> SUBSET Jobs]
        /\ RInv /\ DoomedInv /\ SubmittedInv /\ ReviewType /\ HooksInv /\ NewestInv
        /\ Jobs \subseteq Nat
    BY LimitAssumption DEF BaseInv, JobsInv, ReviewType, RInv, QueueInv, TypeOK
  <1> SUFFICES ASSUME crashes' = 0, regrades' <= 1, NEW r \in Reviews, rstatus'[r] = "pending"
               PROVE  Owed(r)'
    BY DEF PendingInv
  <1>a. ASSUME crashes = 0, regrades <= 1, rstatus[r] = "pending" PROVE Owed(r)
    BY <1>a DEF PendingInv
  <1>1. CASE QueueOnly
    <2>1. UNCHANGED <<todo, epc, work, rstatus, regrades, untold>>
      BY <1>1, QueueOnlyStays DEF reviewVars, callVars, hookVars
    <2>2. crashes = 0
      <3>1. crashes' = crashes \/ crashes' = crashes + 1
        BY <1>1, QueueOnlyCounts
      <3> QED
        BY <1>0, <3>1
    <2>3. \A j \in Jobs : JobDue(j) => JobDue(j)'
      BY <1>0, <1>1, <2>1, QueueOnlyOwes DEF JobDue
    <2> QED
      BY <1>a, <2>1, <2>2, <2>3, OwedStays
  <1>2. ASSUME NEW q \in Reviews, SubmitReview(q) PROVE Owed(r)'
    <2>1. /\ rstatus' = [rstatus EXCEPT ![q] = "pending"] /\ todo' = [todo EXCEPT ![q] = todo[q] + 1]
          /\ UNCHANGED <<epc, work, status, pc, held, posted, dead, untold, crashes, regrades>>
      BY <1>2 DEF SubmitReview, vars, rowVars, callVars, procVars, hookVars
    <2>2. CASE r = q
      BY <1>0, <2>1, <2>2 DEF Owed
    <2>3. CASE r # q
      <3>1. rstatus[r] = "pending" /\ todo'[r] = todo[r]
        BY <1>0, <2>1, <2>3
      <3> QED
        BY <1>a, <2>1, <3>1 DEF Owed, InFlight, JobOwes, JobDue, IsNewest
    <2> QED
      BY <2>2, <2>3
  <1>3. ASSUME NEW q \in Reviews, RequestLost(q) PROVE Owed(r)'
    BY <1>0, <1>3 DEF RequestLost
  <1>4. ASSUME RegradeRead \/ SweepRead PROVE Owed(r)'
    <2>1. /\ UNCHANGED <<rstatus, todo, epc, work, status, pc, held, posted, dead, untold, crashes>>
          /\ regrades <= 1
      BY <1>0, <1>4 DEF RegradeRead, SweepRead, vars, rowVars, callVars, procVars, hookVars
    <2> QED
      BY <1>a, <2>1 DEF Owed, InFlight, JobOwes, JobDue, IsNewest
  <1>5. CASE RegradeReset
    <2>1. /\ rstatus' = [q \in Reviews |-> IF q \in latest THEN "pending" ELSE rstatus[q]]
          /\ todo' = [q \in Reviews |-> IF q \in latest THEN todo[q] + 1 ELSE todo[q]]
          /\ UNCHANGED <<epc, work, status, pc, held, posted, dead, untold, crashes, regrades>>
      BY <1>5 DEF RegradeReset, vars, rowVars, callVars, procVars, hookVars
    <2>2. CASE r \in latest
      BY <1>0, <2>1, <2>2 DEF Owed
    <2>3. CASE r \notin latest
      <3>1. rstatus[r] = "pending" /\ todo'[r] = todo[r]
        BY <1>0, <2>1, <2>3
      <3> QED
        BY <1>a, <2>1, <3>1 DEF Owed, InFlight, JobOwes, JobDue, IsNewest
    <2> QED
      BY <2>2, <2>3
  <1>6. ASSUME NEW j \in Jobs, NEW q \in Reviews, NEW S \in SUBSET Jobs, EnqueueEffect(j, q, S)
        PROVE  Owed(r)'
    <2>1. /\ epc[j] = "start" /\ work[j] = NULL
          /\ todo' = [todo EXCEPT ![q] = todo[q] - 1]
          /\ epc' = [epc EXCEPT ![j] = "create"]
          /\ \/ work' = [work EXCEPT ![j] = q]
             \/ UNCHANGED work /\ \E i \in Jobs : work[i] = q /\ status[i] \in ActiveStatuses
          /\ UNCHANGED <<rstatus, regrades, crashes, status, pc, held, posted, dead, untold>>
      BY <1>6 DEF EnqueueEffect, rowVars, procVars, hookVars
    <2>2. \A i \in Jobs : JobDue(i)' <=> JobDue(i)
      BY <2>1 DEF JobOwes, JobDue
    <2>3. CASE r = q
      <3>1. CASE work' = [work EXCEPT ![j] = q]
        <4>1. epc'[j] = "create" /\ work'[j] = r
          BY <1>0, <2>1, <2>3, <3>1
        <4> QED
          BY <4>1 DEF Owed, InFlight
      <3>2. CASE UNCHANGED work /\ \E i \in Jobs : work[i] = q /\ status[i] \in ActiveStatuses
        <4>1. PICK i \in Jobs : work[i] = r /\ status[i] \in ActiveStatuses
          BY <2>3, <3>2
        <4>2. ~is_terminal(i) /\ r # NULL
          BY <4>1 DEF is_terminal, ActiveStatuses, TerminalStatuses
        <4>3. IsNewest(i, r)
          BY <1>0, <4>1, <4>2, UnfinishedIsNewest
        <4>4. IsNewest(i, r)' /\ JobDue(i)'
          BY <2>1, <3>2, <4>1, <4>3 DEF IsNewest, JobDue, JobOwes
        <4> QED
          BY <4>4 DEF Owed
      <3> QED
        BY <2>1, <3>1, <3>2
    <2>4. CASE r # q
      <3>1. todo'[r] = todo[r] /\ \A i \in Jobs : work[i] = r <=> work'[i] = r
        BY <1>0, <2>1, <2>4
      <3>2. \A i \in Jobs : epc[i] = "create" => epc'[i] = "create"
        BY <1>0, <2>1
      <3>3. Owed(r)
        BY <1>a, <2>1
      <3> QED
        BY <2>2, <3>1, <3>2, <3>3 DEF Owed, InFlight, IsNewest
    <2> QED
      BY <2>3, <2>4
  <1>7. ASSUME NEW j \in Jobs, CommitEnqueue(j) PROVE Owed(r)'
    <2>1. /\ UNCHANGED <<todo, work, pc, held, posted, dead, untold, regrades, crashes>>
          /\ status' = [i \in Jobs |-> IF i = j /\ found[j] = j THEN "queued"
                                       ELSE IF i \in stale[j] THEN "dead" ELSE status[i]]
          /\ rstatus' = [q \in Reviews |-> IF q \in doomed[j] THEN "failed" ELSE rstatus[q]]
          /\ epc' = [epc EXCEPT ![j] = "returned"] /\ epc[j] = "create" /\ status[j] = "absent"
      BY <1>0, <1>7 DEF CommitEnqueue, InFlight, procVars, hookVars, RInv, QueueInv, KeyInv
    <2>2. rstatus[r] = "pending" /\ r \notin doomed[j]
      BY <2>1
    <2>3. \A i \in stale[j] : work[i] # r
      BY <2>1, <2>2 DEF SupersedeInv
    <2>4. Owed(r)
      BY <1>a, <2>1, <2>2
    <2>5. CASE todo[r] > 0
      BY <2>1, <2>5 DEF Owed
    <2>6. ASSUME NEW i \in InFlight, work[i] = r PROVE Owed(r)'
      <3>1. CASE i = j
        <4>1. found[j] = j
          BY <1>0, <2>1, <2>6, <3>1 DEF RInv, FlightInv
        <4>2. status'[j] = "queued"
          BY <2>1, <4>1
        <4>3. ~is_terminal(j) /\ r # NULL /\ work[j] = r
          BY <2>1, <2>6, <3>1 DEF is_terminal, TerminalStatuses
        <4>4. IsNewest(j, r)
          BY <1>0, <4>3, UnfinishedIsNewest
        <4>5. IsNewest(j, r)' /\ JobDue(j)'
          BY <2>1, <4>2, <4>4 DEF IsNewest, JobDue, JobOwes, ActiveStatuses
        <4> QED
          BY <4>5 DEF Owed
      <3>2. CASE i # j
        <4>1. epc'[i] = "create" /\ i \in Jobs
          BY <1>0, <2>1, <2>6, <3>2 DEF InFlight
        <4> QED
          BY <2>1, <2>6, <4>1 DEF Owed, InFlight
      <3> QED
        BY <3>1, <3>2
    <2>7. ASSUME NEW i \in Jobs, IsNewest(i, r), JobDue(i) PROVE Owed(r)'
      <3>1. status'[i] = status[i] \/ status'[i] = "queued"
        BY <2>1, <2>3, <2>7 DEF IsNewest
      <3>2. JobDue(i)'
        BY <2>1, <2>7, <3>1 DEF JobDue, JobOwes, ActiveStatuses
      <3> QED
        BY <2>1, <2>7, <3>2 DEF Owed, IsNewest
    <2> QED
      BY <2>4, <2>5, <2>6, <2>7 DEF Owed
  <1>8. ASSUME NEW j \in Jobs, RollBack(j) PROVE Owed(r)'
    BY <1>0, <1>8 DEF RollBack
  <1>9. ASSUME NEW c \in Cases, SweepCase(c) PROVE Owed(r)'
    <2>1. PICK S \in SUBSET Jobs :
            /\ status' = [i \in Jobs |-> IF i \in S THEN "dead" ELSE status[i]]
            /\ rstatus' = [q \in Reviews |-> IF q \in Supersedable(S) THEN "failed" ELSE rstatus[q]]
      BY <1>9 DEF SweepCase, SelectStale, QueuedOf, CaseJobs
    <2>2. UNCHANGED <<todo, epc, work, pc, held, posted, dead, untold, crashes, regrades>>
      BY <1>9 DEF SweepCase, callVars, procVars, hookVars
    <2>3. rstatus[r] = "pending" /\ \A i \in S : work[i] # r
      BY <2>1 DEF Supersedable
    <2>4. ASSUME NEW j \in Jobs, work[j] = r, JobDue(j) PROVE JobDue(j)'
      <3>1. status'[j] = status[j]
        BY <2>1, <2>3, <2>4
      <3> QED
        BY <2>2, <2>4, <3>1 DEF JobDue, JobOwes
    <2> QED
      BY <1>a, <2>2, <2>3, <2>4, OwedStays
  <1>10. ASSUME NEW w \in Workers, HookFinalized(w) PROVE Owed(r)'
    <2>1. /\ UNCHANGED <<todo, epc, work, status, crashes, regrades>> /\ held[w] \in Jobs
          /\ \A p \in Procs : dead'[p] = dead[p]
          /\ \A v \in Workers : v # w => pc'[v] = pc[v] /\ held'[v] = held[v] /\ posted'[v] = posted[v]
          /\ untold \subseteq untold'
          /\ \/ Settles(held[w])
             \/ Raises(held[w])
             \/ rstatus' = rstatus /\ posted[w] # "done" /\ status[held[w]] \notin {"failed", "dead"}
      BY <1>10, FinalizedHook DEF rowVars, callVars
    <2>2. /\ rstatus[r] = "pending"
          /\ \/ work[held[w]] # r
             \/ held[w] \in untold'
             \/ posted[w] # "done" /\ status[held[w]] \notin {"failed", "dead"}
      BY <2>1 DEF Settles, Raises
    <2>3. ASSUME NEW j \in Jobs, work[j] = r, JobDue(j) PROVE JobDue(j)'
      <3>1. CASE j \in untold'
        BY <3>1 DEF JobDue
      <3>2. CASE j \notin untold'
        <4>1. JobOwes(j)
          BY <2>1, <2>3, <3>2 DEF JobDue
        <4>2. j = held[w] => posted[w] # "done" /\ status[held[w]] \notin {"failed", "dead"}
          BY <2>2, <2>3, <3>2
        <4>3. JobOwes(j)'
          BY <2>1, <4>1, <4>2 DEF JobOwes
        <4> QED
          BY <4>3 DEF JobDue
      <3> QED
        BY <3>1, <3>2
    <2> QED
      BY <1>a, <2>1, <2>2, <2>3, OwedStays
  <1>11. ASSUME NEW p \in Procs, HookReaped(p) PROVE Owed(r)'
    <2>1. PICK i \in dead[p] :
            /\ i \in Jobs /\ (Settles(i) \/ Raises(i)) /\ dead' = [dead EXCEPT ![p] = dead[p] \ {i}]
            /\ untold \subseteq untold'
            /\ UNCHANGED <<todo, epc, work, status, pc, held, posted, crashes, regrades>>
      BY <1>11, ReapedHook DEF rowVars, callVars
    <2>2. rstatus[r] = "pending" /\ (work[i] # r \/ i \in untold')
      BY <2>1 DEF Settles, Raises
    <2>3. ASSUME NEW j \in Jobs, work[j] = r, JobDue(j) PROVE JobDue(j)'
      <3>1. CASE j \in untold'
        BY <3>1 DEF JobDue
      <3>2. CASE j \notin untold'
        <4>1. \A q \in Procs : j \in dead[q] => j \in dead'[q]
          BY <1>0, <2>1, <2>2, <2>3, <3>2
        <4>2. JobOwes(j)
          BY <2>1, <2>3, <3>2 DEF JobDue
        <4> QED
          BY <2>1, <4>1, <4>2 DEF JobOwes, JobDue
      <3> QED
        BY <3>1, <3>2
    <2> QED
      BY <1>a, <2>1, <2>2, <2>3, OwedStays
  <1> QED
    BY <1>1, <1>2, <1>3, <1>4, <1>5, <1>6, <1>7, <1>8, <1>9, <1>10, <1>11, ReviewSteps

\* Without a crash and with at most one regrade_all, somebody in the system will
\* still settle every pending review unless the hook of its newest job raised: a
\* supersede takes a job away only with its review, and a late hook settles the
\* review of its own job and no other.
THEOREM NoReviewDangles == RSpec => [](regrades <= 1 => PendingIsBacked)
  <1> DEFINE DInv == BaseInv /\ FirstRoundInv /\ SupersedeInv /\ PendingInv
  <1>1. RInit => DInv
    <2>1. RInit => FirstRoundInv /\ SupersedeInv /\ PendingInv
      <3> SUFFICES ASSUME RInit PROVE FirstRoundInv /\ SupersedeInv /\ PendingInv
        OBVIOUS
      <3>1. \A r \in Reviews : todo[r] = 0 /\ rstatus[r] = "absent" /\ \A i \in Jobs : work[i] # r
        BY ReviewsAreNumbers DEF RInit, Init
      <3>2. latest = {} /\ \A j \in Jobs : stale[j] = {}
        BY DEF RInit
      <3> QED
        BY <3>1, <3>2 DEF FirstRoundInv, OneRound, SupersedeInv, PendingInv
    <2> QED
      BY <2>1, BaseInit
  <1>2. DInv /\ [RNext]_allVars => DInv'
    BY BaseKept, FirstRoundKept, SupersedeKept, PendingKept
  <1>3. DInv => (regrades <= 1 => PendingIsBacked)
    BY DEF PendingInv, PendingIsBacked, Owed, Backed, JobOwes, JobDue, HookRaised, IsNewest
  <1> QED
    BY <1>1, <1>2, <1>3, PTL DEF RSpec

\* Where nobody asks for a second regrade_all, no review dangles but by a crash
\* or a hook that raised.
COROLLARY OneRegradeIsSafe == ASSUME MaxRegrades <= 1 PROVE RSpec => []PendingIsBacked
  <1>1. BaseInv => regrades <= 1
    BY BudgetAssumption DEF BaseInv, ReviewType
  <1> QED
    BY <1>1, BaseInvariant, NoReviewDangles, PTL
=============================================================================
