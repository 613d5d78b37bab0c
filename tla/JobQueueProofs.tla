--------------------------- MODULE JobQueueProofs ---------------------------
(***************************************************************************)
(* Proofs about JobQueue, for every set of jobs, keys and processes, every *)
(* max_attempts, lease and backoff table and any number of crashes.        *)
(***************************************************************************)
EXTENDS JobQueue, TLAPS

\* Every wait backoff asks for is a number of ticks.
LEMMA BackoffType == \A n \in Nat : backoff(n) \in Nat
  BY BackoffAssumption DEF backoff

\* What a finalize or a sweep may make of a running row.
LEMMA OutcomeType ==
  ASSUME NEW j \in Jobs, NEW st, NEW r \in BOOLEAN
  PROVE  /\ Outcome(j, st, r) \in {"done", "queued", "dead", "failed"}
         /\ Outcome(j, st, r) = "done" <=> st = "done"
         /\ Outcome(j, st, r) = "queued" => can_retry(j)
         /\ Outcome(j, st, r) = "dead" => ~can_retry(j)
  BY DEF Outcome

LEMMA ReapOutcomeType ==
  ASSUME NEW j \in Jobs
  PROVE  ReapOutcome(j) = IF can_retry(j) THEN "queued" ELSE "dead"
  BY DEF ReapOutcome, Outcome

\* The type invariant holds initially.
LEMMA InitType == Init => TypeOK
  BY LimitAssumption DEF Init, TypeOK, ActiveStatuses, TerminalStatuses

\* Every step of the queue preserves the type invariant, given that whoever is
\* past the sweep holds a job.
LEMMA NextType == TypeOK /\ HeldInv /\ [Next]_vars => TypeOK'
  <1> SUFFICES ASSUME TypeOK, HeldInv, [Next]_vars PROVE TypeOK'
    OBVIOUS
  <1> USE DEF TypeOK, rowVars, callVars, procVars, hookVars, ActiveStatuses, TerminalStatuses
  <1> USE DEF Workers, Procs
  <1>1. ASSUME NEW j \in Jobs, NEW k \in Keys \cup {NULL}, EnqueueRead(j, k) PROVE TypeOK'
    BY <1>1 DEF EnqueueRead, Holders
  <1>2. ASSUME NEW j \in Jobs, EnqueueFree(j) PROVE TypeOK'
    BY <1>2 DEF EnqueueFree
  <1>3. ASSUME NEW j \in Jobs, EnqueueCreate(j) PROVE TypeOK'
    BY <1>3 DEF EnqueueCreate
  <1>4. ASSUME NEW j \in Jobs, EnqueueReread(j) PROVE TypeOK'
    BY <1>4 DEF EnqueueReread, Holders
  <1>5. ASSUME NEW w \in Workers, Claim(w) PROVE TypeOK'
    BY <1>5, LimitAssumption DEF Claim, Claimable
  <1>6. ASSUME NEW w \in Workers, ClaimNothing(w) \/ BuildPayload(w) PROVE TypeOK'
    BY <1>6 DEF ClaimNothing, BuildPayload
  <1>7. ASSUME NEW w \in Workers, Touch(w) PROVE TypeOK'
    BY <1>7, LimitAssumption DEF Touch, HeldInv
  <1>8. ASSUME NEW w \in Workers, NEW From, NEW st \in {"done", "failed"}, NEW r \in BOOLEAN,
               From \subseteq {"build", "run", "report"}, Finalize(w, From, st, r)
        PROVE  TypeOK'
    <2>1. held[w] \in Jobs
      BY <1>8 DEF Finalize, HeldInv
    <2>2. Outcome(held[w], st, r) \in {"done", "queued", "dead", "failed"}
      BY <2>1, OutcomeType
    <2>3. backoff(attempts[held[w]]) \in Nat
      BY <2>1, BackoffType
    <2> QED
      BY <1>8, <2>1, <2>2, <2>3 DEF Finalize, FinalizeRow
  <1>9. ASSUME NEW w \in Workers, FinalizeRejected(w) PROVE TypeOK'
    BY <1>9 DEF FinalizeRejected, Drop
  <1>10. ASSUME NEW w \in Workers, FinalizeHook(w) PROVE TypeOK'
    <2>1. /\ resultHook' \in [Jobs -> Nat] /\ failHook' \in [Jobs -> Nat] /\ untold' \subseteq Jobs
      BY <1>10 DEF FinalizeHook, OnResult, OnFailure, HeldInv
    <2>2. /\ pc' \in [Procs -> {"idle", "swept", "build", "run", "hook", "report"}]
          /\ held' \in [Procs -> Jobs \cup {NULL}] /\ token' \in [Procs -> Nat]
          /\ posted' \in [Procs -> {"done", "failed", NULL}] /\ dead' \in [Procs -> SUBSET Jobs]
      BY <1>10 DEF FinalizeHook, Drop
    <2> QED
      BY <1>10, <2>1, <2>2 DEF FinalizeHook
  <1>11. ASSUME NEW p \in Procs, ReapExpired(p) PROVE TypeOK'
    BY <1>11, ReapOutcomeType, BackoffType DEF ReapExpired, Lapsed
  <1>12. ASSUME NEW p \in Procs, ReapFailureHook(p) \/ SweepDone(p) PROVE TypeOK'
    BY <1>12 DEF ReapFailureHook, OnFailure, SweepDone
  <1>13. ASSUME NEW p \in Procs, Crash(p) PROVE TypeOK'
    BY <1>13, LimitAssumption DEF Crash, Drop
  <1>14. CASE Tick
    BY <1>14, NullAssumption DEF Tick
  <1>15. CASE UNCHANGED vars
    BY <1>15 DEF vars
  <1> QED
    BY <1>1, <1>2, <1>3, <1>4, <1>5, <1>6, <1>7, <1>8, <1>9, <1>10, <1>11, <1>12, <1>13,
       <1>14, <1>15
    DEF Next, EnqueueStep, WorkerStep, SweepStep, BuildPayloadFails, FinalizeDone,
        FinalizeRetryable, FinalizeFatal

\* Whoever is past the sweep is a worker and holds a job.
LEMMA NextHeld == TypeOK /\ HeldInv /\ [Next]_vars => HeldInv'
  <1> SUFFICES ASSUME TypeOK, HeldInv, [Next]_vars PROVE HeldInv'
    OBVIOUS
  <1> USE DEF TypeOK, HeldInv, Workers, Procs, rowVars, callVars, procVars, hookVars
  <1>1. ASSUME NEW j \in Jobs, NEW k \in Keys \cup {NULL}, EnqueueRead(j, k)
        PROVE  HeldInv'
    BY <1>1 DEF EnqueueRead, Holders
  <1>2. ASSUME NEW j \in Jobs, EnqueueFree(j)
        PROVE  HeldInv'
    BY <1>2 DEF EnqueueFree
  <1>3. ASSUME NEW j \in Jobs, EnqueueCreate(j)
        PROVE  HeldInv'
    BY <1>3 DEF EnqueueCreate, Holders
  <1>4. ASSUME NEW j \in Jobs, EnqueueReread(j)
        PROVE  HeldInv'
    BY <1>4 DEF EnqueueReread, Holders
  <1>5. ASSUME NEW w \in Workers, Claim(w)
        PROVE  HeldInv'
    BY <1>5 DEF Claim, Claimable
  <1>6. ASSUME NEW w \in Workers, ClaimNothing(w) \/ BuildPayload(w)
        PROVE  HeldInv'
    BY <1>6 DEF ClaimNothing, BuildPayload
  <1>7. ASSUME NEW w \in Workers, Touch(w)
        PROVE  HeldInv'
    BY <1>7 DEF Touch
  <1>8. ASSUME NEW w \in Workers, NEW From, NEW st \in {"done", "failed"}, NEW r \in BOOLEAN,
               From \subseteq {"build", "run", "report"}, Finalize(w, From, st, r)
        PROVE  HeldInv'
    BY <1>8 DEF Finalize, FinalizeRow
  <1>9. ASSUME NEW w \in Workers, FinalizeRejected(w)
        PROVE  HeldInv'
    BY <1>9 DEF FinalizeRejected, Drop
  <1>10. ASSUME NEW w \in Workers, FinalizeHook(w)
        PROVE  HeldInv'
    BY <1>10 DEF FinalizeHook, Drop
  <1>11. ASSUME NEW p \in Procs, ReapExpired(p)
        PROVE  HeldInv'
    BY <1>11 DEF ReapExpired, Lapsed, LeaseLapsed
  <1>12. ASSUME NEW p \in Procs, ReapFailureHook(p) \/ SweepDone(p)
        PROVE  HeldInv'
    BY <1>12 DEF ReapFailureHook, SweepDone
  <1>13. ASSUME NEW p \in Procs, Crash(p)
        PROVE  HeldInv'
    BY <1>13 DEF Crash, Drop
  <1>14. CASE Tick
    BY <1>14 DEF Tick
  <1>15. CASE UNCHANGED vars
    BY <1>15 DEF vars
  <1> QED
    BY <1>1, <1>2, <1>3, <1>4, <1>5, <1>6, <1>7, <1>8, <1>9, <1>10, <1>11, <1>12, <1>13,
       <1>14, <1>15
    DEF Next, EnqueueStep, WorkerStep, SweepStep, BuildPayloadFails, FinalizeDone,
        FinalizeRetryable, FinalizeFatal

\* A row that is not inserted stays untouched.
LEMMA NextAbsent == TypeOK /\ HeldInv /\ AbsentInv /\ KeyInv /\ [Next]_vars => AbsentInv'
  <1> SUFFICES ASSUME TypeOK, HeldInv, AbsentInv, KeyInv, [Next]_vars PROVE AbsentInv'
    OBVIOUS
  <1> USE DEF TypeOK, AbsentInv, is_terminal, TerminalStatuses, Workers, Procs, rowVars, callVars, procVars, hookVars
  <1>1. ASSUME NEW j \in Jobs, NEW k \in Keys \cup {NULL}, EnqueueRead(j, k)
        PROVE  AbsentInv'
    BY <1>1 DEF EnqueueRead, Holders
  <1>2. ASSUME NEW j \in Jobs, EnqueueFree(j)
        PROVE  AbsentInv'
    BY <1>2 DEF EnqueueFree, KeyInv
  <1>3. ASSUME NEW j \in Jobs, EnqueueCreate(j)
        PROVE  AbsentInv'
    BY <1>3 DEF EnqueueCreate, Holders
  <1>4. ASSUME NEW j \in Jobs, EnqueueReread(j)
        PROVE  AbsentInv'
    BY <1>4 DEF EnqueueReread, Holders
  <1>5. ASSUME NEW w \in Workers, Claim(w)
        PROVE  AbsentInv'
    BY <1>5 DEF Claim, Claimable
  <1>6. ASSUME NEW w \in Workers, ClaimNothing(w) \/ BuildPayload(w)
        PROVE  AbsentInv'
    BY <1>6 DEF ClaimNothing, BuildPayload
  <1>7. ASSUME NEW w \in Workers, Touch(w)
        PROVE  AbsentInv'
    BY <1>7 DEF Touch
  <1>8. ASSUME NEW w \in Workers, NEW From, NEW st \in {"done", "failed"}, NEW r \in BOOLEAN,
               From \subseteq {"build", "run", "report"}, Finalize(w, From, st, r)
        PROVE  AbsentInv'
    BY <1>8, OutcomeType DEF Finalize, FinalizeRow, HeldInv
  <1>9. ASSUME NEW w \in Workers, FinalizeRejected(w)
        PROVE  AbsentInv'
    BY <1>9 DEF FinalizeRejected, Drop
  <1>10. ASSUME NEW w \in Workers, FinalizeHook(w)
        PROVE  AbsentInv'
    BY <1>10 DEF FinalizeHook, Drop
  <1>11. ASSUME NEW p \in Procs, ReapExpired(p)
        PROVE  AbsentInv'
    BY <1>11, ReapOutcomeType DEF ReapExpired, Lapsed, LeaseLapsed
  <1>12. ASSUME NEW p \in Procs, ReapFailureHook(p) \/ SweepDone(p)
        PROVE  AbsentInv'
    BY <1>12 DEF ReapFailureHook, SweepDone
  <1>13. ASSUME NEW p \in Procs, Crash(p)
        PROVE  AbsentInv'
    BY <1>13 DEF Crash, Drop
  <1>14. CASE Tick
    BY <1>14 DEF Tick
  <1>15. CASE UNCHANGED vars
    BY <1>15 DEF vars
  <1> QED
    BY <1>1, <1>2, <1>3, <1>4, <1>5, <1>6, <1>7, <1>8, <1>9, <1>10, <1>11, <1>12, <1>13,
       <1>14, <1>15
    DEF Next, EnqueueStep, WorkerStep, SweepStep, BuildPayloadFails, FinalizeDone,
        FinalizeRetryable, FinalizeFatal

\* Attempts stay within max_attempts, and the queue holds only jobs with one left.
LEMMA NextAttempts ==
  TypeOK /\ HeldInv /\ AbsentInv /\ KeyInv /\ AttemptsBounded /\ [Next]_vars => AttemptsBounded'
  <1> SUFFICES ASSUME TypeOK, HeldInv, AbsentInv, KeyInv, AttemptsBounded, [Next]_vars PROVE AttemptsBounded'
    OBVIOUS
  <1> USE DEF TypeOK, AttemptsBounded, can_retry, Workers, Procs, rowVars, callVars, procVars, hookVars
  <1>1. ASSUME NEW j \in Jobs, NEW k \in Keys \cup {NULL}, EnqueueRead(j, k)
        PROVE  AttemptsBounded'
    BY <1>1 DEF EnqueueRead, Holders
  <1>2. ASSUME NEW j \in Jobs, EnqueueFree(j)
        PROVE  AttemptsBounded'
    BY <1>2 DEF EnqueueFree
  <1>3. ASSUME NEW j \in Jobs, EnqueueCreate(j)
        PROVE  AttemptsBounded'
    BY <1>3, LimitAssumption DEF EnqueueCreate, AbsentInv, KeyInv
  <1>4. ASSUME NEW j \in Jobs, EnqueueReread(j)
        PROVE  AttemptsBounded'
    BY <1>4 DEF EnqueueReread, Holders
  <1>5. ASSUME NEW w \in Workers, Claim(w)
        PROVE  AttemptsBounded'
    BY <1>5, LimitAssumption DEF Claim, Claimable
  <1>6. ASSUME NEW w \in Workers, ClaimNothing(w) \/ BuildPayload(w)
        PROVE  AttemptsBounded'
    BY <1>6 DEF ClaimNothing, BuildPayload
  <1>7. ASSUME NEW w \in Workers, Touch(w)
        PROVE  AttemptsBounded'
    BY <1>7 DEF Touch
  <1>8. ASSUME NEW w \in Workers, NEW From, NEW st \in {"done", "failed"}, NEW r \in BOOLEAN,
               From \subseteq {"build", "run", "report"}, Finalize(w, From, st, r)
        PROVE  AttemptsBounded'
    BY <1>8, OutcomeType, LimitAssumption DEF Finalize, FinalizeRow, HeldInv
  <1>9. ASSUME NEW w \in Workers, FinalizeRejected(w)
        PROVE  AttemptsBounded'
    BY <1>9 DEF FinalizeRejected, Drop
  <1>10. ASSUME NEW w \in Workers, FinalizeHook(w)
        PROVE  AttemptsBounded'
    BY <1>10 DEF FinalizeHook, Drop
  <1>11. ASSUME NEW p \in Procs, ReapExpired(p)
        PROVE  AttemptsBounded'
    BY <1>11, ReapOutcomeType, LimitAssumption DEF ReapExpired, Lapsed, LeaseLapsed
  <1>12. ASSUME NEW p \in Procs, ReapFailureHook(p) \/ SweepDone(p)
        PROVE  AttemptsBounded'
    BY <1>12 DEF ReapFailureHook, SweepDone
  <1>13. ASSUME NEW p \in Procs, Crash(p)
        PROVE  AttemptsBounded'
    BY <1>13 DEF Crash, Drop
  <1>14. CASE Tick
    BY <1>14 DEF Tick
  <1>15. CASE UNCHANGED vars
    BY <1>15 DEF vars
  <1> QED
    BY <1>1, <1>2, <1>3, <1>4, <1>5, <1>6, <1>7, <1>8, <1>9, <1>10, <1>11, <1>12, <1>13,
       <1>14, <1>15
    DEF Next, EnqueueStep, WorkerStep, SweepStep, BuildPayloadFails, FinalizeDone,
        FinalizeRetryable, FinalizeFatal

\* A running row keeps its lease.
LEMMA NextLeased == TypeOK /\ HeldInv /\ RunningIsLeased /\ [Next]_vars => RunningIsLeased'
  <1> SUFFICES ASSUME TypeOK, HeldInv, RunningIsLeased, [Next]_vars PROVE RunningIsLeased'
    OBVIOUS
  <1> USE DEF TypeOK, RunningIsLeased, Workers, Procs, rowVars, callVars, procVars, hookVars
  <1>1. ASSUME NEW j \in Jobs, NEW k \in Keys \cup {NULL}, EnqueueRead(j, k)
        PROVE  RunningIsLeased'
    BY <1>1 DEF EnqueueRead, Holders
  <1>2. ASSUME NEW j \in Jobs, EnqueueFree(j)
        PROVE  RunningIsLeased'
    BY <1>2 DEF EnqueueFree
  <1>3. ASSUME NEW j \in Jobs, EnqueueCreate(j)
        PROVE  RunningIsLeased'
    BY <1>3 DEF EnqueueCreate, Holders
  <1>4. ASSUME NEW j \in Jobs, EnqueueReread(j)
        PROVE  RunningIsLeased'
    BY <1>4 DEF EnqueueReread, Holders
  <1>5. ASSUME NEW w \in Workers, Claim(w)
        PROVE  RunningIsLeased'
    BY <1>5, NullAssumption, LimitAssumption DEF Claim, Claimable
  <1>6. ASSUME NEW w \in Workers, ClaimNothing(w) \/ BuildPayload(w)
        PROVE  RunningIsLeased'
    BY <1>6 DEF ClaimNothing, BuildPayload
  <1>7. ASSUME NEW w \in Workers, Touch(w)
        PROVE  RunningIsLeased'
    BY <1>7, NullAssumption, LimitAssumption DEF Touch
  <1>8. ASSUME NEW w \in Workers, NEW From, NEW st \in {"done", "failed"}, NEW r \in BOOLEAN,
               From \subseteq {"build", "run", "report"}, Finalize(w, From, st, r)
        PROVE  RunningIsLeased'
    BY <1>8, OutcomeType DEF Finalize, FinalizeRow, HeldInv
  <1>9. ASSUME NEW w \in Workers, FinalizeRejected(w)
        PROVE  RunningIsLeased'
    BY <1>9 DEF FinalizeRejected, Drop
  <1>10. ASSUME NEW w \in Workers, FinalizeHook(w)
        PROVE  RunningIsLeased'
    BY <1>10 DEF FinalizeHook, Drop
  <1>11. ASSUME NEW p \in Procs, ReapExpired(p)
        PROVE  RunningIsLeased'
    BY <1>11, ReapOutcomeType DEF ReapExpired, Lapsed, LeaseLapsed
  <1>12. ASSUME NEW p \in Procs, ReapFailureHook(p) \/ SweepDone(p)
        PROVE  RunningIsLeased'
    BY <1>12 DEF ReapFailureHook, SweepDone
  <1>13. ASSUME NEW p \in Procs, Crash(p)
        PROVE  RunningIsLeased'
    BY <1>13 DEF Crash, Drop
  <1>14. CASE Tick
    BY <1>14, NullAssumption DEF Tick
  <1>15. CASE UNCHANGED vars
    BY <1>15 DEF vars
  <1> QED
    BY <1>1, <1>2, <1>3, <1>4, <1>5, <1>6, <1>7, <1>8, <1>9, <1>10, <1>11, <1>12, <1>13,
       <1>14, <1>15
    DEF Next, EnqueueStep, WorkerStep, SweepStep, BuildPayloadFails, FinalizeDone,
        FinalizeRetryable, FinalizeFatal

\* The dedup_key discipline of enqueue.
LEMMA NextKey == TypeOK /\ HeldInv /\ AbsentInv /\ KeyInv /\ [Next]_vars => KeyInv'
  <1> SUFFICES ASSUME TypeOK, HeldInv, AbsentInv, KeyInv, [Next]_vars PROVE KeyInv'
    OBVIOUS
  <1> USE DEF TypeOK, KeyInv, is_terminal, ActiveStatuses, TerminalStatuses, Workers, Procs, rowVars, callVars, procVars, hookVars
  <1>1. ASSUME NEW j \in Jobs, NEW k \in Keys \cup {NULL}, EnqueueRead(j, k)
        PROVE  KeyInv'
    BY <1>1, NullAssumption DEF EnqueueRead, Holders, AbsentInv
  <1>2. ASSUME NEW j \in Jobs, EnqueueFree(j)
        PROVE  KeyInv'
    BY <1>2 DEF EnqueueFree
  <1>3. ASSUME NEW j \in Jobs, EnqueueCreate(j)
        PROVE  KeyInv'
    <2>1. status[j] = "absent" /\ attempts[j] = 0 /\ dedup[j] = NULL
      BY <1>3 DEF EnqueueCreate, AbsentInv
    <2>2. CASE work[j] = NULL \/ Holders(work[j]) = {}
      <3>1. /\ status' = [status EXCEPT ![j] = "queued"]
            /\ dedup' = [dedup EXCEPT ![j] = work[j]]
            /\ epc' = [epc EXCEPT ![j] = "returned"]
            /\ found' = [found EXCEPT ![j] = j]
            /\ work' = work
        BY <1>3, <2>2 DEF EnqueueCreate
      <3>2. ASSUME NEW h \in Jobs, NEW i \in Jobs,
                   status'[h] # "absent", status'[i] # "absent",
                   dedup'[h] = dedup'[i], dedup'[h] # NULL
            PROVE  h = i
        BY <2>1, <2>2, <3>1, <3>2 DEF Holders
      <3>3. \A i \in Jobs : epc'[i] = "free" => found'[i] \in Jobs /\ is_terminal(found[i])'
        BY <2>1, <3>1
      <3> QED
        BY <2>1, <3>1, <3>2, <3>3
    <2>3. CASE ~(work[j] = NULL \/ Holders(work[j]) = {})
      BY <1>3, <2>3 DEF EnqueueCreate
    <2> QED
      BY <2>2, <2>3
  <1>4. ASSUME NEW j \in Jobs, EnqueueReread(j)
        PROVE  KeyInv'
    BY <1>4 DEF EnqueueReread, Holders
  <1>5. ASSUME NEW w \in Workers, Claim(w)
        PROVE  KeyInv'
    BY <1>5 DEF Claim, Claimable
  <1>6. ASSUME NEW w \in Workers, ClaimNothing(w) \/ BuildPayload(w)
        PROVE  KeyInv'
    BY <1>6 DEF ClaimNothing, BuildPayload
  <1>7. ASSUME NEW w \in Workers, Touch(w)
        PROVE  KeyInv'
    BY <1>7 DEF Touch
  <1>8. ASSUME NEW w \in Workers, NEW From, NEW st \in {"done", "failed"}, NEW r \in BOOLEAN,
               From \subseteq {"build", "run", "report"}, Finalize(w, From, st, r)
        PROVE  KeyInv'
    BY <1>8, OutcomeType DEF Finalize, FinalizeRow, HeldInv
  <1>9. ASSUME NEW w \in Workers, FinalizeRejected(w)
        PROVE  KeyInv'
    BY <1>9 DEF FinalizeRejected, Drop
  <1>10. ASSUME NEW w \in Workers, FinalizeHook(w)
        PROVE  KeyInv'
    BY <1>10 DEF FinalizeHook, Drop
  <1>11. ASSUME NEW p \in Procs, ReapExpired(p)
        PROVE  KeyInv'
    BY <1>11, ReapOutcomeType DEF ReapExpired, Lapsed, LeaseLapsed
  <1>12. ASSUME NEW p \in Procs, ReapFailureHook(p) \/ SweepDone(p)
        PROVE  KeyInv'
    BY <1>12 DEF ReapFailureHook, SweepDone
  <1>13. ASSUME NEW p \in Procs, Crash(p)
        PROVE  KeyInv'
    BY <1>13 DEF Crash, Drop
  <1>14. CASE Tick
    BY <1>14 DEF Tick
  <1>15. CASE UNCHANGED vars
    BY <1>15 DEF vars
  <1> QED
    BY <1>1, <1>2, <1>3, <1>4, <1>5, <1>6, <1>7, <1>8, <1>9, <1>10, <1>11, <1>12, <1>13,
       <1>14, <1>15
    DEF Next, EnqueueStep, WorkerStep, SweepStep, BuildPayloadFails, FinalizeDone,
        FinalizeRetryable, FinalizeFatal

\* A call that has returned keeps naming a row of its own key.
LEMMA NextReturned ==
  TypeOK /\ HeldInv /\ AbsentInv /\ KeyInv /\ ReturnedJobIsForTheKey /\ [Next]_vars
  => ReturnedJobIsForTheKey'
  <1> SUFFICES ASSUME TypeOK, HeldInv, AbsentInv, KeyInv, ReturnedJobIsForTheKey, [Next]_vars
               PROVE  ReturnedJobIsForTheKey'
    OBVIOUS
  <1> USE DEF TypeOK, KeyInv, ReturnedJobIsForTheKey, is_terminal, ActiveStatuses, TerminalStatuses,
            Workers, Procs, rowVars, callVars, procVars, hookVars
  <1>1. ASSUME NEW j \in Jobs, NEW k \in Keys \cup {NULL}, EnqueueRead(j, k)
        PROVE  ReturnedJobIsForTheKey'
    BY <1>1, NullAssumption DEF EnqueueRead, Holders
  <1>2. ASSUME NEW j \in Jobs, EnqueueFree(j)
        PROVE  ReturnedJobIsForTheKey'
    BY <1>2 DEF EnqueueFree
  <1>3. ASSUME NEW j \in Jobs, EnqueueCreate(j)
        PROVE  ReturnedJobIsForTheKey'
    BY <1>3, NullAssumption DEF EnqueueCreate, Holders
  <1>4. ASSUME NEW j \in Jobs, EnqueueReread(j)
        PROVE  ReturnedJobIsForTheKey'
    BY <1>4, NullAssumption DEF EnqueueReread, Holders
  <1>5. ASSUME NEW w \in Workers, Claim(w)
        PROVE  ReturnedJobIsForTheKey'
    BY <1>5 DEF Claim, Claimable
  <1>6. ASSUME NEW w \in Workers, ClaimNothing(w) \/ BuildPayload(w)
        PROVE  ReturnedJobIsForTheKey'
    BY <1>6 DEF ClaimNothing, BuildPayload
  <1>7. ASSUME NEW w \in Workers, Touch(w)
        PROVE  ReturnedJobIsForTheKey'
    BY <1>7 DEF Touch
  <1>8. ASSUME NEW w \in Workers, NEW From, NEW st \in {"done", "failed"}, NEW r \in BOOLEAN,
               From \subseteq {"build", "run", "report"}, Finalize(w, From, st, r)
        PROVE  ReturnedJobIsForTheKey'
    BY <1>8, OutcomeType DEF Finalize, FinalizeRow, HeldInv
  <1>9. ASSUME NEW w \in Workers, FinalizeRejected(w)
        PROVE  ReturnedJobIsForTheKey'
    BY <1>9 DEF FinalizeRejected, Drop
  <1>10. ASSUME NEW w \in Workers, FinalizeHook(w)
        PROVE  ReturnedJobIsForTheKey'
    BY <1>10 DEF FinalizeHook, Drop
  <1>11. ASSUME NEW p \in Procs, ReapExpired(p)
        PROVE  ReturnedJobIsForTheKey'
    BY <1>11, ReapOutcomeType DEF ReapExpired, Lapsed, LeaseLapsed
  <1>12. ASSUME NEW p \in Procs, ReapFailureHook(p) \/ SweepDone(p)
        PROVE  ReturnedJobIsForTheKey'
    BY <1>12 DEF ReapFailureHook, SweepDone
  <1>13. ASSUME NEW p \in Procs, Crash(p)
        PROVE  ReturnedJobIsForTheKey'
    BY <1>13 DEF Crash, Drop
  <1>14. CASE Tick
    BY <1>14 DEF Tick
  <1>15. CASE UNCHANGED vars
    BY <1>15 DEF vars
  <1> QED
    BY <1>1, <1>2, <1>3, <1>4, <1>5, <1>6, <1>7, <1>8, <1>9, <1>10, <1>11, <1>12, <1>13,
       <1>14, <1>15
    DEF Next, EnqueueStep, WorkerStep, SweepStep, BuildPayloadFails, FinalizeDone,
        FinalizeRetryable, FinalizeFatal

\* Attempts are handed out one by one.
LEMMA NextToken ==
  TypeOK /\ HeldInv /\ TokenInv /\ AttemptsHandedOutOnce /\ [Next]_vars
  => (TokenInv /\ AttemptsHandedOutOnce)'
  <1> SUFFICES ASSUME TypeOK, HeldInv, TokenInv, AttemptsHandedOutOnce, [Next]_vars
               PROVE  (TokenInv /\ AttemptsHandedOutOnce)'
    OBVIOUS
  <1> USE DEF TypeOK, HeldInv, TokenInv, AttemptsHandedOutOnce, Workers, Procs, rowVars, callVars, procVars, hookVars
  <1>1. ASSUME NEW j \in Jobs, NEW k \in Keys \cup {NULL}, EnqueueRead(j, k)
        PROVE  (TokenInv /\ AttemptsHandedOutOnce)'
    BY <1>1 DEF EnqueueRead, Holders
  <1>2. ASSUME NEW j \in Jobs, EnqueueFree(j)
        PROVE  (TokenInv /\ AttemptsHandedOutOnce)'
    BY <1>2 DEF EnqueueFree
  <1>3. ASSUME NEW j \in Jobs, EnqueueCreate(j)
        PROVE  (TokenInv /\ AttemptsHandedOutOnce)'
    BY <1>3 DEF EnqueueCreate, Holders
  <1>4. ASSUME NEW j \in Jobs, EnqueueReread(j)
        PROVE  (TokenInv /\ AttemptsHandedOutOnce)'
    BY <1>4 DEF EnqueueReread, Holders
  <1>5. ASSUME NEW w \in Workers, Claim(w)
        PROVE  (TokenInv /\ AttemptsHandedOutOnce)'
    BY <1>5 DEF Claim, Claimable
  <1>6. ASSUME NEW w \in Workers, ClaimNothing(w) \/ BuildPayload(w)
        PROVE  (TokenInv /\ AttemptsHandedOutOnce)'
    BY <1>6 DEF ClaimNothing, BuildPayload
  <1>7. ASSUME NEW w \in Workers, Touch(w)
        PROVE  (TokenInv /\ AttemptsHandedOutOnce)'
    BY <1>7 DEF Touch
  <1>8. ASSUME NEW w \in Workers, NEW From, NEW st \in {"done", "failed"}, NEW r \in BOOLEAN,
               From \subseteq {"build", "run", "report"}, Finalize(w, From, st, r)
        PROVE  (TokenInv /\ AttemptsHandedOutOnce)'
    BY <1>8 DEF Finalize, FinalizeRow
  <1>9. ASSUME NEW w \in Workers, FinalizeRejected(w)
        PROVE  (TokenInv /\ AttemptsHandedOutOnce)'
    BY <1>9 DEF FinalizeRejected, Drop
  <1>10. ASSUME NEW w \in Workers, FinalizeHook(w)
        PROVE  (TokenInv /\ AttemptsHandedOutOnce)'
    BY <1>10 DEF FinalizeHook, Drop
  <1>11. ASSUME NEW p \in Procs, ReapExpired(p)
        PROVE  (TokenInv /\ AttemptsHandedOutOnce)'
    BY <1>11 DEF ReapExpired, Lapsed, LeaseLapsed
  <1>12. ASSUME NEW p \in Procs, ReapFailureHook(p) \/ SweepDone(p)
        PROVE  (TokenInv /\ AttemptsHandedOutOnce)'
    BY <1>12 DEF ReapFailureHook, SweepDone
  <1>13. ASSUME NEW p \in Procs, Crash(p)
        PROVE  (TokenInv /\ AttemptsHandedOutOnce)'
    BY <1>13 DEF Crash, Drop
  <1>14. CASE Tick
    BY <1>14 DEF Tick
  <1>15. CASE UNCHANGED vars
    BY <1>15 DEF vars
  <1> QED
    BY <1>1, <1>2, <1>3, <1>4, <1>5, <1>6, <1>7, <1>8, <1>9, <1>10, <1>11, <1>12, <1>13,
       <1>14, <1>15
    DEF Next, EnqueueStep, WorkerStep, SweepStep, BuildPayloadFails, FinalizeDone,
        FinalizeRetryable, FinalizeFatal

\* The hooks match the outcome of the row.
LEMMA NextHook ==
  TypeOK /\ HeldInv /\ AbsentInv /\ KeyInv /\ HookInv /\ HooksMatchOutcome /\ [Next]_vars
  => (HookInv /\ HooksMatchOutcome)'
  <1> SUFFICES ASSUME TypeOK, HeldInv, AbsentInv, KeyInv, HookInv, HooksMatchOutcome, [Next]_vars
               PROVE  (HookInv /\ HooksMatchOutcome)'
    OBVIOUS
  <1> USE DEF TypeOK, HeldInv, HookInv, HooksMatchOutcome, Workers, Procs, rowVars, callVars, procVars, hookVars
  <1>1. ASSUME NEW j \in Jobs, NEW k \in Keys \cup {NULL}, EnqueueRead(j, k)
        PROVE  (HookInv /\ HooksMatchOutcome)'
    BY <1>1 DEF EnqueueRead, Holders
  <1>2. ASSUME NEW j \in Jobs, EnqueueFree(j)
        PROVE  (HookInv /\ HooksMatchOutcome)'
    BY <1>2 DEF EnqueueFree
  <1>3. ASSUME NEW j \in Jobs, EnqueueCreate(j)
        PROVE  (HookInv /\ HooksMatchOutcome)'
    BY <1>3 DEF EnqueueCreate, Holders, KeyInv
  <1>4. ASSUME NEW j \in Jobs, EnqueueReread(j)
        PROVE  (HookInv /\ HooksMatchOutcome)'
    BY <1>4 DEF EnqueueReread, Holders
  <1>5. ASSUME NEW w \in Workers, Claim(w)
        PROVE  (HookInv /\ HooksMatchOutcome)'
    BY <1>5 DEF Claim, Claimable
  <1>6. ASSUME NEW w \in Workers, ClaimNothing(w) \/ BuildPayload(w)
        PROVE  (HookInv /\ HooksMatchOutcome)'
    BY <1>6 DEF ClaimNothing, BuildPayload
  <1>7. ASSUME NEW w \in Workers, Touch(w)
        PROVE  (HookInv /\ HooksMatchOutcome)'
    BY <1>7 DEF Touch
  <1>8. ASSUME NEW w \in Workers, NEW From, NEW st \in {"done", "failed"}, NEW r \in BOOLEAN,
               From \subseteq {"build", "run", "report"}, Finalize(w, From, st, r)
        PROVE  (HookInv /\ HooksMatchOutcome)'
    BY <1>8, OutcomeType DEF Finalize, FinalizeRow
  <1>9. ASSUME NEW w \in Workers, FinalizeRejected(w)
        PROVE  (HookInv /\ HooksMatchOutcome)'
    BY <1>9 DEF FinalizeRejected, Drop
  <1>10. ASSUME NEW w \in Workers, FinalizeHook(w)
        PROVE  (HookInv /\ HooksMatchOutcome)'
    <2> DEFINE j == held[w]
    <2>1. /\ pc[w] = "hook" /\ j \in Jobs
          /\ status' = status /\ crashes' = crashes
          /\ dead' \in {dead, [dead EXCEPT ![w] = {}]}
          /\ held' \in {held, [held EXCEPT ![w] = NULL]}
          /\ posted' \in {posted, [posted EXCEPT ![w] = NULL]}
          /\ pc' \in {[pc EXCEPT ![w] = "idle"], [pc EXCEPT ![w] = "report"]}
          /\ \A v \in Workers : v # w => held'[v] = held[v] /\ posted'[v] = posted[v]
          /\ \/ resultHook' = resultHook
             \/ /\ status[j] = "done" /\ posted[w] = "done"
                /\ resultHook' = [resultHook EXCEPT ![j] = @ + 1]
          /\ \/ failHook' = failHook
             \/ status[j] \in {"failed", "dead"} /\ failHook' = [failHook EXCEPT ![j] = @ + 1]
      BY <1>10 DEF FinalizeHook, OnResult, OnFailure, Drop
    <2>2. \A v \in Workers : pc'[v] = "hook" => v # w /\ pc[v] = "hook"
      BY <2>1
    <2>3. HooksMatchOutcome'
      BY <2>1
    <2>4. ASSUME NEW v \in Workers, pc'[v] = "hook", posted'[v] = "done"
          PROVE  status'[held'[v]] = "done" /\ resultHook'[held'[v]] = 0
      BY <2>1, <2>2, <2>4
    <2>5. \A q \in Procs : \A i \in dead'[q] : status'[i] = "dead"
      BY <2>1
    <2> QED
      BY <2>1, <2>2, <2>3, <2>4, <2>5
  <1>11. ASSUME NEW p \in Procs, ReapExpired(p)
        PROVE  (HookInv /\ HooksMatchOutcome)'
    BY <1>11, ReapOutcomeType DEF ReapExpired, Lapsed, LeaseLapsed, can_retry
  <1>12. ASSUME NEW p \in Procs, ReapFailureHook(p) \/ SweepDone(p)
        PROVE  (HookInv /\ HooksMatchOutcome)'
    BY <1>12 DEF ReapFailureHook, OnFailure, SweepDone
  <1>13. ASSUME NEW p \in Procs, Crash(p)
        PROVE  (HookInv /\ HooksMatchOutcome)'
    BY <1>13 DEF Crash, Drop
  <1>14. CASE Tick
    BY <1>14 DEF Tick
  <1>15. CASE UNCHANGED vars
    BY <1>15 DEF vars
  <1> QED
    BY <1>1, <1>2, <1>3, <1>4, <1>5, <1>6, <1>7, <1>8, <1>9, <1>10, <1>11, <1>12, <1>13,
       <1>14, <1>15
    DEF Next, EnqueueStep, WorkerStep, SweepStep, BuildPayloadFails, FinalizeDone,
        FinalizeRetryable, FinalizeFatal

\* Without a crash, somebody owes every hook that has not run.
LEMMA NextOwed ==
  TypeOK /\ HeldInv /\ AbsentInv /\ KeyInv /\ HookInv /\ HooksMatchOutcome /\ OwedInv /\ [Next]_vars
  => OwedInv'
  <1> SUFFICES ASSUME TypeOK, HeldInv, AbsentInv, KeyInv, HookInv, HooksMatchOutcome, OwedInv, [Next]_vars
               PROVE  OwedInv'
    OBVIOUS
  <1> USE DEF TypeOK, HeldInv, HookInv, HooksMatchOutcome, OwedInv, Workers, Procs, rowVars, callVars, procVars, hookVars
  <1>1. ASSUME NEW j \in Jobs, NEW k \in Keys \cup {NULL}, EnqueueRead(j, k)
        PROVE  OwedInv'
    BY <1>1 DEF EnqueueRead, Holders
  <1>2. ASSUME NEW j \in Jobs, EnqueueFree(j)
        PROVE  OwedInv'
    BY <1>2 DEF EnqueueFree
  <1>3. ASSUME NEW j \in Jobs, EnqueueCreate(j)
        PROVE  OwedInv'
    BY <1>3 DEF EnqueueCreate, Holders, KeyInv
  <1>4. ASSUME NEW j \in Jobs, EnqueueReread(j)
        PROVE  OwedInv'
    BY <1>4 DEF EnqueueReread, Holders
  <1>5. ASSUME NEW w \in Workers, Claim(w)
        PROVE  OwedInv'
    BY <1>5 DEF Claim, Claimable
  <1>6. ASSUME NEW w \in Workers, ClaimNothing(w) \/ BuildPayload(w)
        PROVE  OwedInv'
    BY <1>6 DEF ClaimNothing, BuildPayload
  <1>7. ASSUME NEW w \in Workers, Touch(w)
        PROVE  OwedInv'
    BY <1>7 DEF Touch
  <1>8. ASSUME NEW w \in Workers, NEW From, NEW st \in {"done", "failed"}, NEW r \in BOOLEAN,
               From \subseteq {"build", "run", "report"}, Finalize(w, From, st, r)
        PROVE  OwedInv'
    BY <1>8, OutcomeType DEF Finalize, FinalizeRow
  <1>9. ASSUME NEW w \in Workers, FinalizeRejected(w)
        PROVE  OwedInv'
    <2>1. /\ rowVars' = rowVars /\ hookVars' = hookVars /\ crashes' = crashes
          /\ pc[w] # "hook" /\ \A q \in Procs : dead'[q] = dead[q]
          /\ \A v \in Workers : v # w => pc'[v] = pc[v] /\ held'[v] = held[v]
                                         /\ posted'[v] = posted[v]
      <3>1. dead[w] = {} /\ pc[w] # "hook"
        BY <1>9 DEF FinalizeRejected
      <3>2. CASE Drop(w)
        BY <1>9, <3>1, <3>2 DEF FinalizeRejected, Drop
      <3>3. CASE ~Drop(w)
        BY <1>9, <3>1, <3>3 DEF FinalizeRejected
      <3> QED
        BY <3>2, <3>3
    <2> QED
      BY <2>1
  <1>10. ASSUME NEW w \in Workers, FinalizeHook(w)
        PROVE  OwedInv'
    <2> DEFINE i == held[w]
    <2>1. /\ pc[w] = "hook" /\ i \in Jobs
          /\ status' = status /\ crashes' = crashes
          /\ \A q \in Procs : dead'[q] = dead[q]
          /\ \A v \in Workers : v # w => pc'[v] = pc[v] /\ held'[v] = held[v]
                                         /\ posted'[v] = posted[v]
      <3>1. dead[w] = {} /\ pc[w] = "hook" /\ i \in Jobs
        BY <1>10 DEF FinalizeHook
      <3>2. CASE Drop(w)
        BY <1>10, <3>1, <3>2 DEF FinalizeHook, Drop
      <3>3. CASE ~Drop(w)
        BY <1>10, <3>1, <3>3 DEF FinalizeHook
      <3> QED
        BY <3>2, <3>3
    <2>a. /\ untold \subseteq untold'
          /\ \A j \in Jobs : resultHook'[j] = 0 => resultHook[j] = 0
          /\ \A j \in Jobs : failHook'[j] = 0 => failHook[j] = 0
          /\ status[i] = "done" /\ posted[w] = "done" => resultHook'[i] # 0 \/ i \in untold'
          /\ status[i] \in {"failed", "dead"} => failHook'[i] # 0 \/ i \in untold'
      <3>1. ASSUME OnResult(i)
            PROVE  /\ untold \subseteq untold' /\ failHook' = failHook
                   /\ \A j \in Jobs : resultHook'[j] = 0 => resultHook[j] = 0
                   /\ resultHook'[i] # 0 \/ i \in untold'
        BY <2>1, <3>1 DEF OnResult
      <3>2. ASSUME OnFailure(i)
            PROVE  /\ untold \subseteq untold' /\ resultHook' = resultHook
                   /\ \A j \in Jobs : failHook'[j] = 0 => failHook[j] = 0
                   /\ failHook'[i] # 0 \/ i \in untold'
        BY <2>1, <3>2 DEF OnFailure
      <3> QED
        BY <1>10, <3>1, <3>2 DEF FinalizeHook
    <2> SUFFICES ASSUME crashes = 0, NEW j \in Jobs, j \notin untold'
                 PROVE  /\ status[j] = "done" /\ resultHook'[j] = 0 =>
                             \E v \in Workers : pc'[v] = "hook" /\ held'[v] = j /\ posted'[v] = "done"
                        /\ status[j] \in {"failed", "dead"} /\ failHook'[j] = 0 =>
                             \/ \E q \in Procs : j \in dead[q]
                             \/ \E v \in Workers : pc'[v] = "hook" /\ held'[v] = j
      BY <2>1
    <2>2. ASSUME status[j] = "done", resultHook'[j] = 0
          PROVE  \E v \in Workers : pc'[v] = "hook" /\ held'[v] = j /\ posted'[v] = "done"
      <3>1. resultHook[j] = 0 /\ ~(j = i /\ posted[w] = "done") /\ j \notin untold
        BY <2>a, <2>2
      <3>2. PICK v \in Workers : pc[v] = "hook" /\ held[v] = j /\ posted[v] = "done"
        BY <2>2, <3>1
      <3> QED
        BY <2>1, <3>1, <3>2
    <2>3. ASSUME status[j] \in {"failed", "dead"}, failHook'[j] = 0
          PROVE  \/ \E q \in Procs : j \in dead[q]
                 \/ \E v \in Workers : pc'[v] = "hook" /\ held'[v] = j
      <3>1. failHook[j] = 0 /\ j # i /\ j \notin untold
        BY <2>a, <2>3
      <3>2. CASE \E q \in Procs : j \in dead[q]
        BY <3>2
      <3>3. CASE \E v \in Workers : pc[v] = "hook" /\ held[v] = j
        BY <2>1, <3>1, <3>3
      <3> QED
        BY <2>3, <3>1, <3>2, <3>3
    <2> QED
      BY <2>2, <2>3
  <1>11. ASSUME NEW p \in Procs, ReapExpired(p)
        PROVE  OwedInv'
    <2>1. PICK S \in SUBSET Lapsed :
             /\ status' = [j \in Jobs |-> IF j \in S THEN ReapOutcome(j) ELSE status[j]]
             /\ dead' = [dead EXCEPT ![p] = {j \in S : ~can_retry(j)}]
      BY <1>11 DEF ReapExpired
    <2>2. /\ pc' = [pc EXCEPT ![p] = "swept"] /\ pc[p] = "idle" /\ dead[p] = {}
          /\ held' = held /\ posted' = posted /\ crashes' = crashes
          /\ resultHook' = resultHook /\ failHook' = failHook /\ untold' = untold
      BY <1>11 DEF ReapExpired
    <2>3. \A w \in Workers : pc'[w] = "hook" <=> pc[w] = "hook"
      BY <2>2
    <2>4. S \subseteq Jobs /\ \A j \in S : status[j] = "running"
      BY DEF Lapsed, LeaseLapsed
    <2>5. \A q \in Procs : dead[q] \subseteq dead'[q]
      BY <2>1, <2>2
    <2>6. ASSUME NEW j \in Jobs, j \in S, status'[j] \in {"done", "failed", "dead"}
          PROVE  status'[j] = "dead" /\ j \in dead'[p]
      BY <2>1, <2>6, ReapOutcomeType
    <2>7. ASSUME NEW j \in Jobs, j \notin S PROVE status'[j] = status[j]
      BY <2>1, <2>7
    <2> QED
      BY <2>2, <2>3, <2>5, <2>6, <2>7
  <1>12. ASSUME NEW p \in Procs, ReapFailureHook(p) \/ SweepDone(p)
        PROVE  OwedInv'
    <2>1. CASE SweepDone(p)
      BY <2>1 DEF SweepDone
    <2>2. CASE ReapFailureHook(p)
      <3>1. PICK i \in dead[p] : OnFailure(i) /\ dead' = [dead EXCEPT ![p] = @ \ {i}]
        BY <2>2 DEF ReapFailureHook
      <3>2. /\ rowVars' = rowVars /\ pc' = pc /\ held' = held /\ posted' = posted
            /\ resultHook' = resultHook /\ crashes' = crashes /\ untold \subseteq untold'
        BY <2>2, <3>1 DEF ReapFailureHook, OnFailure
      <3>3. i \in Jobs /\ (failHook'[i] # 0 \/ i \in untold')
        BY <3>1 DEF OnFailure
      <3>4. ASSUME NEW j \in Jobs, failHook'[j] = 0, j \notin untold'
            PROVE  /\ failHook[j] = 0
                   /\ \A q \in Procs : j \in dead[q] => j \in dead'[q]
        BY <3>1, <3>3, <3>4 DEF OnFailure
      <3> QED
        BY <3>2, <3>4
    <2> QED
      BY <1>12, <2>1, <2>2
  <1>13. ASSUME NEW p \in Procs, Crash(p)
        PROVE  OwedInv'
    BY <1>13 DEF Crash, Drop
  <1>14. CASE Tick
    BY <1>14 DEF Tick
  <1>15. CASE UNCHANGED vars
    BY <1>15 DEF vars
  <1> QED
    BY <1>1, <1>2, <1>3, <1>4, <1>5, <1>6, <1>7, <1>8, <1>9, <1>10, <1>11, <1>12, <1>13,
       <1>14, <1>15
    DEF Next, EnqueueStep, WorkerStep, SweepStep, BuildPayloadFails, FinalizeDone,
        FinalizeRetryable, FinalizeFatal

\* The inductive invariant holds of every reachable state.
THEOREM Inductive == Spec => []IInv
  <1>1. Init => IInv
    <2> SUFFICES ASSUME Init PROVE IInv
      OBVIOUS
    <2>1. TypeOK
      BY InitType
    <2> QED
      BY <2>1, LimitAssumption
      DEF Init, IInv, HeldInv, AbsentInv, AttemptsBounded, RunningIsLeased, KeyInv,
          ReturnedJobIsForTheKey, TokenInv, AttemptsHandedOutOnce, HookInv,
          HooksMatchOutcome, OwedInv, can_retry, ActiveStatuses, is_terminal,
          TerminalStatuses, Procs
  <1>2. IInv /\ [Next]_vars => IInv'
    BY NextType, NextHeld, NextAbsent, NextAttempts, NextLeased, NextKey, NextReturned,
       NextToken, NextHook, NextOwed
    DEF IInv
  <1> QED
    BY <1>1, <1>2, PTL DEF Spec

\* jobs.models.Job: every column keeps its type.
THEOREM TypeCorrect == Spec => []TypeOK
  BY Inductive, PTL DEF IInv

\* claim_next, finalize, reap_expired: no job is run more than max_attempts
\* times.
THEOREM AttemptsAreBounded == Spec => []AttemptsBounded
  BY Inductive, PTL DEF IInv

\* A RUNNING row can always be reaped once its worker is gone.
THEOREM RunningRowsAreLeased == Spec => []RunningIsLeased
  BY Inductive, PTL DEF IInv

\* claim_next hands out each attempt of each job to one worker.
THEOREM EachAttemptHasOneWorker == Spec => []AttemptsHandedOutOnce
  BY Inductive, PTL DEF IInv

\* enqueue: at most one active job per dedup_key, however calls race.
THEOREM WorkIsNotDoubled == Spec => []OneActivePerKey
  <1>1. IInv => OneActivePerKey
    BY DEF IInv, KeyInv, OneActivePerKey, ActiveStatuses
  <1> QED
    BY <1>1, Inductive, PTL

\* enqueue returns a job of the key it was given.
THEOREM EnqueueReturnsTheKeysJob == Spec => []ReturnedJobIsForTheKey
  BY Inductive, PTL DEF IInv

\* finalize and reap_expired: on_result runs at most once and only for DONE,
\* on_failure only for FAILED or DEAD.
THEOREM HooksAreRight == Spec => []HooksMatchOutcome
  BY Inductive, PTL DEF IInv

\* Without a crash no hook is forgotten: the record of every finished job has
\* been told, or its call raised or had no result, or somebody still owes it.
THEOREM NoOutcomeIsDropped == Spec => []OutcomeIsOwedOrTold
  <1>1. IInv => OutcomeIsOwedOrTold
    BY DEF IInv, TypeOK, OwedInv, OutcomeIsOwedOrTold, Told, is_terminal, TerminalStatuses
  <1> QED
    BY <1>1, Inductive, PTL

\* A job that cannot be retried has used its last attempt.
LEMMA LastAttempt ==
  ASSUME NEW j \in Jobs, attempts[j] \in Nat, attempts[j] <= MaxAttempts
  PROVE  ~can_retry(j) => attempts[j] = MaxAttempts
  BY LimitAssumption DEF can_retry

\* Every step of the queue moves each row as the lifecycle allows.
LEMMA StepRefines ==
  TypeOK /\ HeldInv /\ AbsentInv /\ KeyInv /\ AttemptsBounded /\ [Next]_vars
  => (\A i \in Jobs : Lifecycle!JobStep(i))
  <1> SUFFICES ASSUME TypeOK, HeldInv, AbsentInv, KeyInv, AttemptsBounded, [Next]_vars
               PROVE  (\A i \in Jobs : Lifecycle!JobStep(i))
    OBVIOUS
  <1> USE DEF TypeOK, AttemptsBounded, can_retry, Lifecycle!JobStep, Lifecycle!Created, Lifecycle!Started, Lifecycle!Retried,
            Lifecycle!Finished, Lifecycle!Buried, Lifecycle!Same, Lifecycle!Keep, Workers, Procs, rowVars, callVars, procVars, hookVars
  <1>1. ASSUME NEW j \in Jobs, NEW k \in Keys \cup {NULL}, EnqueueRead(j, k)
        PROVE  (\A i \in Jobs : Lifecycle!JobStep(i))
    BY <1>1 DEF EnqueueRead, Holders
  <1>2. ASSUME NEW j \in Jobs, EnqueueFree(j)
        PROVE  (\A i \in Jobs : Lifecycle!JobStep(i))
    BY <1>2 DEF EnqueueFree
  <1>3. ASSUME NEW j \in Jobs, EnqueueCreate(j)
        PROVE  (\A i \in Jobs : Lifecycle!JobStep(i))
    BY <1>3 DEF EnqueueCreate, Holders, KeyInv
  <1>4. ASSUME NEW j \in Jobs, EnqueueReread(j)
        PROVE  (\A i \in Jobs : Lifecycle!JobStep(i))
    BY <1>4 DEF EnqueueReread, Holders
  <1>5. ASSUME NEW w \in Workers, Claim(w)
        PROVE  (\A i \in Jobs : Lifecycle!JobStep(i))
    BY <1>5 DEF Claim, Claimable
  <1>6. ASSUME NEW w \in Workers, ClaimNothing(w) \/ BuildPayload(w)
        PROVE  (\A i \in Jobs : Lifecycle!JobStep(i))
    BY <1>6 DEF ClaimNothing, BuildPayload
  <1>7. ASSUME NEW w \in Workers, Touch(w)
        PROVE  (\A i \in Jobs : Lifecycle!JobStep(i))
    BY <1>7 DEF Touch
  <1>8. ASSUME NEW w \in Workers, NEW From, NEW st \in {"done", "failed"}, NEW r \in BOOLEAN,
               From \subseteq {"build", "run", "report"}, Finalize(w, From, st, r)
        PROVE  (\A i \in Jobs : Lifecycle!JobStep(i))
    <2>1. held[w] \in Jobs /\ status[held[w]] = "running" /\ attempts' = attempts
          /\ status' = [status EXCEPT ![held[w]] = Outcome(held[w], st, r)]
      BY <1>8 DEF Finalize, FinalizeRow, HeldInv
    <2>2. /\ Outcome(held[w], st, r) \in {"done", "queued", "dead", "failed"}
          /\ Outcome(held[w], st, r) = "queued" => can_retry(held[w])
          /\ Outcome(held[w], st, r) = "dead" => ~can_retry(held[w])
      BY <2>1, OutcomeType
    <2>3. Lifecycle!JobStep(held[w])
      <3>1. status'[held[w]] = Outcome(held[w], st, r)
        BY <2>1
      <3>2. Lifecycle!Keep(held[w])
        BY <2>1
      <3>3. attempts[held[w]] \in Nat /\ attempts[held[w]] <= MaxAttempts
        BY <2>1
      <3>4. ~can_retry(held[w]) => attempts[held[w]] = MaxAttempts
        BY <2>1, <3>3, LastAttempt
      <3> QED
        BY <2>1, <2>2, <3>1, <3>2, <3>4
    <2>4. ASSUME NEW i \in Jobs, i # held[w] PROVE Lifecycle!Same(i)
      <3>1. status'[i] = status[i]
        BY <2>1, <2>4
      <3>2. attempts'[i] = attempts[i]
        BY <2>1
      <3> QED
        BY <3>1, <3>2
    <2> QED
      BY <2>3, <2>4 DEF Lifecycle!JobStep
  <1>9. ASSUME NEW w \in Workers, FinalizeRejected(w)
        PROVE  (\A i \in Jobs : Lifecycle!JobStep(i))
    BY <1>9 DEF FinalizeRejected, Drop
  <1>10. ASSUME NEW w \in Workers, FinalizeHook(w)
        PROVE  (\A i \in Jobs : Lifecycle!JobStep(i))
    BY <1>10 DEF FinalizeHook, Drop
  <1>11. ASSUME NEW p \in Procs, ReapExpired(p)
        PROVE  (\A i \in Jobs : Lifecycle!JobStep(i))
    <2>1. PICK S \in SUBSET Lapsed :
             status' = [i \in Jobs |-> IF i \in S THEN ReapOutcome(i) ELSE status[i]]
      BY <1>11 DEF ReapExpired
    <2>2. attempts' = attempts /\ \A i \in S : status[i] = "running"
      BY <1>11 DEF ReapExpired, Lapsed, LeaseLapsed
    <2> QED
      BY <2>1, <2>2, ReapOutcomeType, LimitAssumption
  <1>12. ASSUME NEW p \in Procs, ReapFailureHook(p) \/ SweepDone(p)
        PROVE  (\A i \in Jobs : Lifecycle!JobStep(i))
    BY <1>12 DEF ReapFailureHook, SweepDone
  <1>13. ASSUME NEW p \in Procs, Crash(p)
        PROVE  (\A i \in Jobs : Lifecycle!JobStep(i))
    BY <1>13 DEF Crash, Drop
  <1>14. CASE Tick
    BY <1>14 DEF Tick
  <1>15. CASE UNCHANGED vars
    BY <1>15 DEF vars
  <1> QED
    BY <1>1, <1>2, <1>3, <1>4, <1>5, <1>6, <1>7, <1>8, <1>9, <1>10, <1>11, <1>12, <1>13,
       <1>14, <1>15
    DEF Next, EnqueueStep, WorkerStep, SweepStep, BuildPayloadFails, FinalizeDone,
        FinalizeRetryable, FinalizeFatal

\* The queue implements the lifecycle of a job.
THEOREM Refinement == Spec => ImplementsLifecycle
  <1>1. Init => Lifecycle!Init
    BY DEF Init, Lifecycle!Init
  <1>2. IInv /\ IInv' /\ [Next]_vars => [Lifecycle!Next]_<<status, attempts>>
    <2> SUFFICES ASSUME IInv, IInv', [Next]_vars PROVE Lifecycle!Next
      OBVIOUS
    <2>1. \A i \in Jobs : Lifecycle!JobStep(i)
      BY StepRefines DEF IInv
    <2>2. DOMAIN status' = Jobs /\ DOMAIN attempts' = Jobs
      BY DEF IInv, TypeOK
    <2> QED
      BY <2>1, <2>2 DEF Lifecycle!Next
  <1> QED
    BY <1>1, <1>2, Inductive, PTL DEF Spec, ImplementsLifecycle, Lifecycle!Spec
=============================================================================
