----------------------------- MODULE BusConsumer -----------------------------
(***************************************************************************)
(* One durable JetStream pull consumer and the processes that share it:    *)
(* case_events/consumers/runner.py (fetch, hand to the handler, ack, nak   *)
(* or bury) with the rules of case_events/consumers/__init__.py (decide).  *)
(*                                                                         *)
(* A replica fetches a batch and settles its deliveries one after the      *)
(* other; every broker call may fail, every process may die, and the       *)
(* broker redelivers what is not settled in time, until max_deliver.  The  *)
(* broker itself is external: it is modelled by what runner.py relies on.  *)
(***************************************************************************)
EXTENDS Naturals, FiniteSets

CONSTANTS
  Msgs,              \* messages the stream may carry
  Poison,            \* those no delivery can process (PoisonMessage)
  Unreadable,        \* those whose delivery count cannot be read
  Replicas,          \* processes running run_one for this durable
  MaxDeliver,        \* ConsumerSpec.max_deliver
  Batch,             \* ConsumerSpec.batch
  MaxFetchFailures,  \* MAX_CONSECUTIVE_FETCH_FAILURES
  MaxFaults,         \* bound: broker calls that fail, connections closed, processes killed
  NULL

ASSUME MsgAssumption == Poison \subseteq Msgs /\ Unreadable \subseteq Msgs
ASSUME BudgetAssumption ==
  /\ MaxDeliver \in Nat \ {0}
  /\ Batch \in Nat \ {0}
  /\ MaxFetchFailures \in Nat \ {0}
  /\ MaxFaults \in Nat

VARIABLES
  \* The broker
  stream,     \* where each message is
  delivered,  \* num_delivered of its last delivery
  dlq,        \* messages a copy of which is on jaw.dlq
  \* The replicas
  step,       \* where run_one / process_message is
  batch,      \* deliveries fetched and not taken up
  cur,        \* the delivery in process_message
  error,      \* what its handler raised
  failures,   \* consecutive_failures
  closed,     \* replicas whose connection has used up its reconnects
  \* What the outside sees
  done,       \* messages a handler has processed
  abandoned,  \* messages whose last delivery was lost with a fetch's answer or
              \* a killed process, or that the DLQ refused on it
  faults

brokerVars  == <<stream, delivered, dlq>>
replicaVars == <<step, batch, cur, error, failures, closed>>
vars        == <<brokerVars, replicaVars, done, abandoned, faults>>

Deliveries == [msg : Msgs, n : 1..MaxDeliver]

ASSUME NullAssumption == NULL \notin Nat /\ NULL \notin Deliveries

TypeOK ==
  /\ stream \in [Msgs -> {"unpublished", "ready", "pending", "settled", "dropped"}]
  /\ delivered \in [Msgs -> 0..MaxDeliver]
  /\ dlq \subseteq Msgs
  /\ step \in [Replicas -> {"fetch", "work", "settle", "term", "down"}]
  /\ batch \in [Replicas -> SUBSET Deliveries]
  /\ cur \in [Replicas -> Deliveries \cup {NULL}]
  /\ error \in [Replicas -> {"none", "error", "poison"}]
  /\ failures \in [Replicas -> 0..MaxFetchFailures]
  /\ closed \subseteq Replicas
  /\ done \subseteq Msgs
  /\ abandoned \subseteq Msgs
  /\ faults \in 0..MaxFaults

Init ==
  /\ stream = [m \in Msgs |-> "unpublished"]
  /\ delivered = [m \in Msgs |-> 0]
  /\ dlq = {}
  /\ step = [r \in Replicas |-> "fetch"]
  /\ batch = [r \in Replicas |-> {}]
  /\ cur = [r \in Replicas |-> NULL]
  /\ error = [r \in Replicas |-> "none"]
  /\ failures = [r \in Replicas |-> 0]
  /\ closed = {}
  /\ done = {}
  /\ abandoned = {}
  /\ faults = 0

Fault == faults < MaxFaults /\ faults' = faults + 1

-----------------------------------------------------------------------------
(***************************************************************************)
(* The broker.                                                             *)
(***************************************************************************)

\* Mutant: the consumer is created without its max_deliver.
AfterFailedDelivery_unbounded(m) == "ready"

\* A message whose budget is spent is not delivered again.
AfterFailedDelivery(m) == IF delivered[m] < MaxDeliver THEN "ready" ELSE "dropped"

Publish(m) ==
  /\ stream[m] = "unpublished"
  /\ stream' = [stream EXCEPT ![m] = "ready"]
  /\ UNCHANGED <<delivered, dlq, replicaVars, done, abandoned, faults>>

\* ack_wait runs out on an unsettled delivery: one still waiting in a batch, or
\* one that never reached the process that asked for it.
AckWaitLapses(m) ==
  /\ stream[m] = "pending"
  /\ stream' = [stream EXCEPT ![m] = AfterFailedDelivery(m)]
  /\ UNCHANGED <<delivered, dlq, replicaVars, done, abandoned, faults>>

Settled(m) == IF stream[m] = "dropped" THEN "dropped" ELSE "settled"
Nakked(m)  == IF stream[m] = "pending" THEN AfterFailedDelivery(m) ELSE stream[m]

Pulls == {S \in SUBSET {m \in Msgs : stream[m] = "ready"} : S # {} /\ Cardinality(S) <= Batch}

\* The broker answers a pull: each message of S has one delivery more.
HandOut(S) ==
  /\ stream' = [m \in Msgs |-> IF m \in S THEN "pending" ELSE stream[m]]
  /\ delivered' = [m \in Msgs |-> IF m \in S THEN delivered[m] + 1 ELSE delivered[m]]

\* The answer is lost on its way.
LoseAnswer(S) ==
  /\ HandOut(S)
  /\ abandoned' = abandoned \cup {m \in S : delivered[m] + 1 = MaxDeliver}

-----------------------------------------------------------------------------
(***************************************************************************)
(* run_one                                                                 *)
(***************************************************************************)

\* A new process: a new connection and a counter that starts again, both from
\* the moment the old process went down.
GoesDown(r) ==
  /\ step' = [step EXCEPT ![r] = "down"]
  /\ failures' = [failures EXCEPT ![r] = 0]
  /\ closed' = closed \ {r}

Fetch(r) ==
  /\ step[r] = "fetch" /\ r \notin closed
  /\ \E S \in Pulls :
       /\ HandOut(S)
       /\ batch' = [batch EXCEPT ![r] = {[msg |-> m, n |-> delivered[m] + 1] : m \in S}]
  /\ failures' = [failures EXCEPT ![r] = 0]
  /\ step' = [step EXCEPT ![r] = "work"]
  /\ UNCHANGED <<dlq, cur, error, closed, done, abandoned, faults>>

\* An empty window, or one whose messages came too late: poll again, and forget
\* the failures.
FetchTimesOut(r) ==
  /\ step[r] = "fetch" /\ r \notin closed
  /\ \/ UNCHANGED <<stream, delivered, abandoned, faults>>
     \/ Fault /\ \E S \in Pulls : LoseAnswer(S)
  /\ failures' = [failures EXCEPT ![r] = 0]
  /\ UNCHANGED <<dlq, step, batch, cur, error, closed, done>>

\* Mutant: warns and polls on, as an earlier version did.
CountFailure_forever(r) ==
  /\ failures' = [failures EXCEPT ![r] = IF @ + 1 < MaxFetchFailures THEN @ + 1 ELSE @]
  /\ UNCHANGED <<step, closed>>

\* After too many failures in a row run_one raises and the process exits.
CountFailure(r) ==
  \/ /\ failures[r] + 1 < MaxFetchFailures
     /\ failures' = [failures EXCEPT ![r] = @ + 1]
     /\ UNCHANGED <<step, closed>>
  \/ /\ failures[r] + 1 >= MaxFetchFailures
     /\ GoesDown(r)

\* A fetch raises: before the broker saw the pull, or after it handed messages
\* out.
FetchFails(r) ==
  /\ step[r] = "fetch" /\ r \notin closed
  /\ Fault
  /\ \/ UNCHANGED <<stream, delivered, abandoned>>
     \/ \E S \in Pulls : LoseAnswer(S)
  /\ CountFailure(r)
  /\ UNCHANGED <<dlq, batch, cur, error, done>>

\* Once the connection is closed every fetch raises.
FetchOnClosed(r) ==
  /\ step[r] = "fetch" /\ r \in closed
  /\ CountFailure(r)
  /\ UNCHANGED <<brokerVars, batch, cur, error, done, abandoned, faults>>

\* The client gives up reconnecting (max_reconnect_attempts), at any time.
ConnectionCloses(r) ==
  /\ step[r] # "down" /\ r \notin closed
  /\ Fault
  /\ closed' = closed \cup {r}
  /\ UNCHANGED <<brokerVars, step, batch, cur, error, failures, done, abandoned>>

\* SIGTERM, or a sibling consumer that ended: the stop event is only looked at
\* before a fetch, so a batch that was fetched is worked off.
Stops(r) ==
  /\ step[r] = "fetch"
  /\ GoesDown(r)
  /\ UNCHANGED <<brokerVars, batch, cur, error, done, abandoned, faults>>

\* The orchestrator starts the process again.
Restart(r) ==
  /\ step[r] = "down"
  /\ step' = [step EXCEPT ![r] = "fetch"]
  /\ UNCHANGED <<brokerVars, batch, cur, error, failures, closed, done, abandoned, faults>>

Held(r) == batch[r] \cup {cur[r]}

Crash(r) ==
  /\ step[r] # "down"
  /\ Fault
  /\ GoesDown(r)
  /\ abandoned' = abandoned \cup {m \in Msgs : [msg |-> m, n |-> MaxDeliver] \in Held(r)}
  /\ batch' = [batch EXCEPT ![r] = {}]
  /\ cur' = [cur EXCEPT ![r] = NULL]
  /\ error' = [error EXCEPT ![r] = "none"]
  /\ UNCHANGED <<brokerVars, done>>

-----------------------------------------------------------------------------
(***************************************************************************)
(* process_message                                                         *)
(***************************************************************************)

\* The next message of the batch.  Its handler commits its work, or raises:
\* before it did anything or after part of it was committed.  A poison message
\* it never processes.
Handle(r) ==
  /\ step[r] = "work"
  /\ \E d \in batch[r] :
       /\ cur' = [cur EXCEPT ![r] = d]
       /\ batch' = [batch EXCEPT ![r] = @ \ {d}]
       /\ \/ /\ d.msg \in Poison
             /\ error' = [error EXCEPT ![r] = "poison"]
             /\ UNCHANGED done
          \/ /\ d.msg \notin Poison
             /\ error' = [error EXCEPT ![r] = "none"]
             /\ done' = done \cup {d.msg}
          \/ /\ d.msg \notin Poison
             /\ error' = [error EXCEPT ![r] = "error"]
             /\ UNCHANGED done
  /\ step' = [step EXCEPT ![r] = "settle"]
  /\ UNCHANGED <<brokerVars, failures, closed, abandoned, faults>>

num_delivered(d) == IF d.msg \in Unreadable THEN NULL ELSE d.n

\* Mutants: off by one in either direction.
decide_late(err, n) ==
  IF err = "none" THEN "ack"
  ELSE IF err = "poison" \/ n = NULL THEN "dead_letter"
  ELSE IF n > MaxDeliver THEN "dead_letter" ELSE "retry"

decide_early(err, n) ==
  IF err = "none" THEN "ack"
  ELSE IF err = "poison" \/ n = NULL THEN "dead_letter"
  ELSE IF n + 1 >= MaxDeliver THEN "dead_letter" ELSE "retry"

decide(err, n) ==
  IF err = "none" THEN "ack"
  ELSE IF err = "poison" \/ n = NULL THEN "dead_letter"
  ELSE IF n >= MaxDeliver THEN "dead_letter" ELSE "retry"

Disposition(r) == decide(error[r], num_delivered(cur[r]))

\* Message done with: on to the next one of the batch, or to the next fetch.
Proceed(r) ==
  /\ step' = [step EXCEPT ![r] = IF batch[r] = {} THEN "fetch" ELSE "work"]
  /\ cur' = [cur EXCEPT ![r] = NULL]
  /\ error' = [error EXCEPT ![r] = "none"]

\* A call to the broker fails: this once, or as any call on a closed connection.
CallFails(r) ==
  \/ r \notin closed /\ Fault
  \/ r \in closed /\ UNCHANGED faults

\* _settle: the broker takes the answer, or it is lost and the failure swallowed.
Settle(r, outcome) ==
  /\ \/ /\ r \notin closed
        /\ stream' = [stream EXCEPT ![cur[r].msg] = outcome]
        /\ UNCHANGED faults
     \/ CallFails(r) /\ UNCHANGED stream
  /\ Proceed(r)

Ack(r) ==
  /\ step[r] = "settle" /\ Disposition(r) = "ack"
  /\ Settle(r, Settled(cur[r].msg))
  /\ UNCHANGED <<delivered, dlq, batch, failures, closed, done, abandoned>>

Nak(r) ==
  /\ step[r] = "settle" /\ Disposition(r) = "retry"
  /\ Settle(r, Nakked(cur[r].msg))
  /\ UNCHANGED <<delivered, dlq, batch, failures, closed, done, abandoned>>

\* dead_letter: publish to the DLQ, then terminate.
DeadLetter(r) ==
  /\ step[r] = "settle" /\ Disposition(r) = "dead_letter"
  /\ r \notin closed
  /\ dlq' = dlq \cup {cur[r].msg}
  /\ step' = [step EXCEPT ![r] = "term"]
  /\ UNCHANGED <<stream, delivered, batch, cur, error, failures, closed, done, abandoned,
                 faults>>

Term(r) ==
  /\ step[r] = "term"
  /\ Settle(r, Settled(cur[r].msg))
  /\ UNCHANGED <<delivered, dlq, batch, failures, closed, done, abandoned>>

\* Mutant: terminates although the DLQ did not take the message.
DeadLetterFails_terms(r) ==
  /\ step[r] = "settle" /\ Disposition(r) = "dead_letter"
  /\ CallFails(r)
  /\ abandoned' = abandoned \cup {m \in Msgs : cur[r] = [msg |-> m, n |-> MaxDeliver]}
  /\ UNCHANGED dlq
  /\ stream' = [stream EXCEPT ![cur[r].msg] = Settled(cur[r].msg)]
  /\ Proceed(r)
  /\ UNCHANGED <<delivered, batch, failures, closed, done>>

\* The DLQ publish fails (or only its answer is lost): nak instead, which on a
\* closed connection the broker does not hear.
DeadLetterFails(r) ==
  /\ step[r] = "settle" /\ Disposition(r) = "dead_letter"
  /\ CallFails(r)
  /\ abandoned' = abandoned \cup {m \in Msgs : cur[r] = [msg |-> m, n |-> MaxDeliver]}
  /\ \/ r \in closed /\ UNCHANGED <<dlq, stream>>
     \/ /\ r \notin closed
        /\ dlq' \in {dlq, dlq \cup {cur[r].msg}}
        /\ stream' = [stream EXCEPT ![cur[r].msg] = Nakked(cur[r].msg)]
  /\ Proceed(r)
  /\ UNCHANGED <<delivered, batch, failures, closed, done>>

-----------------------------------------------------------------------------
Next ==
  \/ \E m \in Msgs : Publish(m) \/ AckWaitLapses(m)
  \/ \E r \in Replicas :
       \/ Fetch(r) \/ FetchTimesOut(r) \/ FetchFails(r) \/ FetchOnClosed(r)
       \/ ConnectionCloses(r) \/ Stops(r) \/ Restart(r) \/ Crash(r)
       \/ Handle(r) \/ Ack(r) \/ Nak(r) \/ DeadLetter(r) \/ Term(r) \/ DeadLetterFails(r)

Spec == Init /\ [][Next]_vars

\* What a live replica does next of its own accord.
Work(r) ==
  \/ FetchOnClosed(r) \/ Restart(r)
  \/ Handle(r) \/ Ack(r) \/ Nak(r) \/ DeadLetter(r) \/ Term(r) \/ DeadLetterFails(r)

\* The broker goes on redelivering, the orchestrator restarts, a live process
\* works on.  While some replica's connection is open, some fetch succeeds now
\* and then (SF): the other outcomes of a fetch are time-outs and failures.
Fairness ==
  /\ WF_vars(\E m \in Msgs : AckWaitLapses(m))
  /\ SF_vars(\E r \in Replicas : Fetch(r))
  /\ \A r \in Replicas : WF_vars(Work(r))

FairSpec == Spec /\ Fairness

-----------------------------------------------------------------------------
Accounted(m) == m \in done \/ m \in dlq

\* Some replica still has delivery n of m in its hands.
InHand(m, n) == \E r \in Replicas : [msg |-> m, n |-> n] \in Held(r)

\* process_message: a message leaves the stream only when a handler has
\* processed it or the DLQ has it, whatever is slow, lost or killed.
SettledIsAccounted ==
  \A m \in Msgs : stream[m] = "settled" => Accounted(m)

\* decide: a message that ran out of deliveries has been processed, is on the
\* DLQ, or its last delivery is still in a replica's hands; it is given up only
\* if that very delivery was lost with a fetch's answer or a killed process, or
\* refused by the DLQ.  Slow batches, lost acks and naks, redeliveries to
\* another replica, rollouts and whatever befell earlier deliveries lose nothing.
DroppedIsAccounted ==
  \A m \in Msgs :
    stream[m] = "dropped" => Accounted(m) \/ InHand(m, MaxDeliver) \/ m \in abandoned

\* The DLQ's depth is a number an operator acts on: nothing is buried early.
\* Only a poison message, one whose count cannot be read, or one whose budget
\* is spent is there, although replicas decide on old delivery counts.
BuriedIsHopeless ==
  \A m \in dlq : m \in Poison \cup Unreadable \/ delivered[m] = MaxDeliver

\* What has become of message m: nobody holds a lost one any more.
Fate(m) ==
  IF Accounted(m) THEN "accounted"
  ELSE IF stream[m] = "unpublished" THEN "unpublished"
  ELSE IF stream[m] = "dropped" /\ \A n \in 1..MaxDeliver : ~InHand(m, n) THEN "lost"
  ELSE "open"

Ledger == INSTANCE Delivery WITH
  fate      <- [m \in Msgs |-> Fate(m)],
  settled   <- {m \in Msgs : stream[m] = "settled"},
  abandoned <- abandoned

\* run_one, process_message and decide give at-least-once delivery with a dead
\* letter: work first and settle afterwards, a fate that is reached is final,
\* and no message is lost but one whose last delivery came to nothing.
DeliversAtLeastOnce == Ledger!Spec

\* What a replica's step says about what it holds.  Deliveries in hand carry a
\* count the broker has reached; a replica that fetches or is down holds none.
HandInv ==
  \A r \in Replicas :
    /\ step[r] \in {"settle", "term"} <=> cur[r] # NULL
    /\ step[r] = "work" => batch[r] # {}
    /\ step[r] \in {"fetch", "down"} => batch[r] = {}
    /\ step[r] = "down" => r \notin closed
    /\ failures[r] < MaxFetchFailures
    /\ \A d \in batch[r] : d.n <= delivered[d.msg]
    /\ cur[r] # NULL => cur[r].n <= delivered[cur[r].msg]
    /\ step[r] = "settle" /\ error[r] = "none" => cur[r].msg \in done
    /\ step[r] = "settle" /\ error[r] = "poison" => cur[r].msg \in Poison
    /\ step[r] = "term" => cur[r].msg \in dlq

\* The last delivery of a message is in some replica's hands until the message
\* is accounted for, or came to nothing.
LastDeliveryInv ==
  \A m \in Msgs :
    delivered[m] = MaxDeliver => Accounted(m) \/ InHand(m, MaxDeliver) \/ m \in abandoned

\* What the broker does with a spent budget.
BudgetInv ==
  \A m \in Msgs :
    /\ stream[m] \in {"unpublished", "ready"} => delivered[m] < MaxDeliver
    /\ stream[m] = "dropped" => delivered[m] = MaxDeliver

\* A message that is not published has not been seen.
FreshInv ==
  \A m \in Msgs : stream[m] = "unpublished" => delivered[m] = 0 /\ ~Accounted(m)

IInv ==
  /\ TypeOK
  /\ HandInv
  /\ FreshInv
  /\ BudgetInv
  /\ LastDeliveryInv
  /\ SettledIsAccounted
  /\ BuriedIsHopeless

\* Every published message is eventually processed or buried, unless its last
\* delivery comes to nothing: through rollouts, failing fetches, lost answers and
\* connections that close for good on every replica.
EveryMessageIsAccounted ==
  \A m \in Msgs :
    stream[m] # "unpublished" ~> (Accounted(m) \/ m \in abandoned)
=============================================================================
