---------------------------- MODULE JobLifecycle ----------------------------
(***************************************************************************)
(* What jobs.models.Job promises of one row, whoever drives the queue and  *)
(* whatever fails: the life of a job seen through its status and attempts  *)
(* columns only.  Jobs are independent of each other and one step of the   *)
(* queue may move several of them (a sweep does).                          *)
(***************************************************************************)
EXTENDS Naturals

CONSTANTS Jobs, MaxAttempts

VARIABLES status, attempts

Init ==
  /\ status = [j \in Jobs |-> "absent"]
  /\ attempts = [j \in Jobs |-> 0]

\* The attempts column moves only together with queued -> running.
Keep(j) == attempts'[j] = attempts[j]

Created(j)  == status[j] = "absent" /\ status'[j] = "queued" /\ Keep(j)

Started(j)  == /\ status[j] = "queued" /\ status'[j] = "running"
               /\ attempts[j] < MaxAttempts
               /\ attempts'[j] = attempts[j] + 1

Retried(j)  == /\ status[j] = "running" /\ status'[j] = "queued"
               /\ attempts[j] < MaxAttempts
               /\ Keep(j)

Finished(j) == status[j] = "running" /\ status'[j] \in {"done", "failed"} /\ Keep(j)

\* The dead letter: only a job with no attempt left.
Buried(j)   == /\ status[j] = "running" /\ status'[j] = "dead"
               /\ attempts[j] = MaxAttempts
               /\ Keep(j)

Same(j)     == status'[j] = status[j] /\ Keep(j)

JobStep(j) ==
  Created(j) \/ Started(j) \/ Retried(j) \/ Finished(j) \/ Buried(j) \/ Same(j)

Next ==
  /\ DOMAIN status' = Jobs
  /\ DOMAIN attempts' = Jobs
  /\ \A j \in Jobs : JobStep(j)

Spec == Init /\ [][Next]_<<status, attempts>>
=============================================================================
