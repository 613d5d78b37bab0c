-------------------------- MODULE BusConsumerProofs --------------------------
(***************************************************************************)
(* Proofs about BusConsumer, for every set of messages and replicas, every *)
(* delivery budget, batch size, and any number of failing broker calls,    *)
(* closed connections and killed processes.                                *)
(***************************************************************************)
EXTENDS BusConsumer, TLAPS

\* The inductive invariant holds initially.
LEMMA InitInv == Init => IInv
  <1> SUFFICES ASSUME Init PROVE IInv
    OBVIOUS
  <1> USE BudgetAssumption DEF Init
  <1>1. TypeOK
    <2>1. closed \subseteq Replicas /\ abandoned \subseteq Msgs
      OBVIOUS
    <2>2. /\ stream \in [Msgs -> {"unpublished", "ready", "pending", "settled", "dropped"}]
          /\ delivered \in [Msgs -> 0..MaxDeliver] /\ dlq \subseteq Msgs /\ done \subseteq Msgs
      OBVIOUS
    <2>3. /\ step \in [Replicas -> {"fetch", "work", "settle", "term", "down"}]
          /\ batch \in [Replicas -> SUBSET Deliveries]
          /\ cur \in [Replicas -> Deliveries \cup {NULL}]
          /\ error \in [Replicas -> {"none", "error", "poison"}]
      OBVIOUS
    <2>4. /\ failures \in [Replicas -> 0..MaxFetchFailures]
          /\ faults \in 0..MaxFaults
      OBVIOUS
    <2> QED
      BY <2>1, <2>2, <2>3, <2>4 DEF TypeOK
  <1>2. HandInv
    BY DEF HandInv
  <1>3. FreshInv /\ BudgetInv /\ LastDeliveryInv /\ SettledIsAccounted /\ BuriedIsHopeless
    BY DEF FreshInv, Accounted, BudgetInv, LastDeliveryInv, SettledIsAccounted, BuriedIsHopeless
  <1> QED
    BY <1>1, <1>2, <1>3 DEF IInv

\* What decide buries cannot be helped by another delivery.
LEMMA BuryFact ==
  ASSUME TypeOK, HandInv, NEW r \in Replicas,
         step[r] = "settle", Disposition(r) = "dead_letter"
  PROVE  LET m == cur[r].msg IN
           m \in Poison \cup Unreadable \/ delivered[m] = MaxDeliver
  <1> DEFINE d == cur[r]
  <1>1. d \in Deliveries /\ d.n <= delivered[d.msg]
    BY DEF TypeOK, HandInv
  <1>2. d.msg \in Msgs /\ d.n \in 1..MaxDeliver /\ delivered[d.msg] \in 0..MaxDeliver
    BY <1>1 DEF Deliveries, TypeOK
  <1>3. CASE error[r] = "poison"
    BY <1>3 DEF HandInv
  <1>4. CASE error[r] # "poison" /\ d.msg \notin Unreadable
    <2>1. d.n # NULL
      BY <1>2, NullAssumption
    <2>2. d.n >= MaxDeliver
      BY <1>4, <2>1 DEF Disposition, decide, num_delivered
    <2> QED
      BY <1>1, <1>2, <2>2, BudgetAssumption
  <1> QED
    BY <1>3, <1>4

\* A step that only moves deliveries about, or accounts for the message of the
\* last one it lets go, keeps LastDeliveryInv.
LEMMA KeepHand ==
  ASSUME TypeOK, LastDeliveryInv,
         delivered' = delivered,
         done \subseteq done', dlq \subseteq dlq',
         abandoned \subseteq abandoned',
         \A r \in Replicas : \A m \in Msgs :
           LET d == [msg |-> m, n |-> MaxDeliver] IN
             d \in batch[r] \cup {cur[r]} =>
               d \in batch'[r] \cup {cur'[r]} \/ m \in done' \/ m \in dlq' \/ m \in abandoned'
  PROVE  LastDeliveryInv'
  BY DEF LastDeliveryInv, Accounted, InHand, Held

\* Every step preserves the type invariant.
LEMMA NextType ==
  TypeOK /\ HandInv /\ BudgetInv /\ [Next]_vars => TypeOK'
  <1> SUFFICES ASSUME TypeOK, HandInv, BudgetInv, [Next]_vars
               PROVE  TypeOK'
    OBVIOUS
  <1> USE DEF TypeOK, HandInv, BudgetInv, Deliveries, brokerVars, replicaVars
  <1>1. ASSUME NEW m \in Msgs, Publish(m) PROVE TypeOK'
    BY <1>1, BudgetAssumption DEF Publish
  <1>2. ASSUME NEW m \in Msgs, AckWaitLapses(m) PROVE TypeOK'
    BY <1>2, BudgetAssumption DEF AckWaitLapses, AfterFailedDelivery
  <1>3. ASSUME NEW r \in Replicas, Fetch(r) PROVE TypeOK'
    BY <1>3, BudgetAssumption DEF Fetch, HandOut, Pulls
  <1>4. ASSUME NEW r \in Replicas, FetchTimesOut(r) PROVE TypeOK'
    BY <1>4, BudgetAssumption DEF FetchTimesOut, LoseAnswer, HandOut, Pulls, Fault
  <1>5. ASSUME NEW r \in Replicas, FetchFails(r) PROVE TypeOK'
    BY <1>5, BudgetAssumption DEF FetchFails, LoseAnswer, HandOut, Pulls, Fault, CountFailure, GoesDown
  <1>6. ASSUME NEW r \in Replicas, FetchOnClosed(r) PROVE TypeOK'
    BY <1>6, BudgetAssumption DEF FetchOnClosed, CountFailure, GoesDown
  <1>7. ASSUME NEW r \in Replicas, ConnectionCloses(r) \/ Stops(r) \/ Restart(r) PROVE TypeOK'
    BY <1>7, BudgetAssumption DEF ConnectionCloses, Stops, Restart, Fault, GoesDown
  <1>8. ASSUME NEW r \in Replicas, Crash(r) PROVE TypeOK'
    BY <1>8, BudgetAssumption DEF Crash, Fault, GoesDown
  <1>9. ASSUME NEW r \in Replicas, Handle(r) PROVE TypeOK'
    BY <1>9, BudgetAssumption DEF Handle
  <1>10. ASSUME NEW r \in Replicas, Ack(r) PROVE TypeOK'
    BY <1>10, BudgetAssumption DEF Ack, Settle, CallFails, Fault, Proceed, Settled, Disposition, decide, num_delivered
  <1>11. ASSUME NEW r \in Replicas, Nak(r) PROVE TypeOK'
    BY <1>11, BudgetAssumption DEF Nak, Settle, CallFails, Fault, Proceed, Nakked, AfterFailedDelivery, Disposition, decide, num_delivered
  <1>12. ASSUME NEW r \in Replicas, DeadLetter(r) PROVE TypeOK'
    BY <1>12, BudgetAssumption DEF DeadLetter, Disposition, decide, num_delivered
  <1>13. ASSUME NEW r \in Replicas, Term(r) PROVE TypeOK'
    BY <1>13, BudgetAssumption DEF Term, Settle, CallFails, Fault, Proceed, Settled
  <1>14. ASSUME NEW r \in Replicas, DeadLetterFails(r) PROVE TypeOK'
    BY <1>14, BudgetAssumption DEF DeadLetterFails, CallFails, Fault, Proceed, Nakked, AfterFailedDelivery, Disposition, decide, num_delivered
  <1>15. CASE UNCHANGED vars
    BY <1>15 DEF vars
  <1> QED
    BY <1>1, <1>2, <1>3, <1>4, <1>5, <1>6, <1>7, <1>8,
       <1>9, <1>10, <1>11, <1>12, <1>13, <1>14, <1>15
    DEF Next

\* What a replica holds keeps matching its step.
LEMMA NextHand ==
  TypeOK /\ HandInv /\ BudgetInv /\ [Next]_vars => HandInv'
  <1> SUFFICES ASSUME TypeOK, HandInv, BudgetInv, [Next]_vars
               PROVE  HandInv'
    OBVIOUS
  <1> USE DEF TypeOK, HandInv, BudgetInv, Deliveries, brokerVars, replicaVars
  <1>1. ASSUME NEW m \in Msgs, Publish(m) PROVE HandInv'
    BY <1>1, BudgetAssumption, NullAssumption DEF Publish
  <1>2. ASSUME NEW m \in Msgs, AckWaitLapses(m) PROVE HandInv'
    BY <1>2, BudgetAssumption, NullAssumption DEF AckWaitLapses, AfterFailedDelivery
  <1>3. ASSUME NEW r \in Replicas, Fetch(r) PROVE HandInv'
    <2>1. PICK S \in Pulls :
            /\ HandOut(S)
            /\ batch' = [batch EXCEPT ![r] = {[msg |-> q, n |-> delivered[q] + 1] : q \in S}]
      BY <1>3 DEF Fetch
    <2>2. S # {} /\ S \subseteq Msgs /\ r \notin closed
      BY <1>3 DEF Pulls, Fetch
    <2>3. \A m \in Msgs : delivered[m] <= delivered'[m] /\ (m \in S => delivered'[m] = delivered[m] + 1)
      BY <2>1, <2>2 DEF HandOut
    <2>4. batch'[r] # {} /\ NULL \notin batch'[r] /\ \A d \in batch'[r] : d.n <= delivered'[d.msg]
      <3>1. batch'[r] = {[msg |-> q, n |-> delivered[q] + 1] : q \in S}
        BY <2>1
      <3>2. \A q \in S : delivered'[q] = delivered[q] + 1 /\ delivered[q] + 1 \in Nat
                           /\ delivered[q] + 1 <= MaxDeliver
        <4> SUFFICES ASSUME NEW q \in S
                     PROVE  delivered'[q] = delivered[q] + 1 /\ delivered[q] + 1 \in Nat
                            /\ delivered[q] + 1 <= MaxDeliver
          OBVIOUS
        <4>1. delivered[q] < MaxDeliver /\ delivered[q] \in 0..MaxDeliver
          BY <2>2 DEF Pulls
        <4> QED
          BY <4>1, <2>2, <2>3, BudgetAssumption
      <3>3. \A q \in S : [msg |-> q, n |-> delivered[q] + 1] \in Deliveries
        BY <3>2, <2>2, BudgetAssumption
      <3>4. NULL \notin batch'[r] /\ batch'[r] # {}
        <4>1. \A d \in batch'[r] : d \in Deliveries
          BY <3>1, <3>3
        <4>2. PICK q \in S : TRUE
          BY <2>2
        <4>3. [msg |-> q, n |-> delivered[q] + 1] \in batch'[r]
          BY <3>1
        <4> QED
          BY <4>1, <4>3, NullAssumption
      <3>5. ASSUME NEW d \in batch'[r] PROVE d.n <= delivered'[d.msg]
        <4>1. PICK q \in S : d = [msg |-> q, n |-> delivered[q] + 1]
          BY <3>1, <3>5
        <4>2. d.msg = q /\ d.n = delivered[q] + 1
          BY <4>1
        <4> QED
          BY <4>2, <3>2
      <3> QED
        BY <3>4, <3>5
    <2>5. \A q \in Replicas \ {r} : batch'[q] = batch[q] /\ step'[q] = step[q] /\ failures'[q] = failures[q]
      BY <1>3, <2>1 DEF Fetch
    <2>6. step'[r] = "work" /\ failures'[r] = 0 /\ cur[r] = NULL
      BY <1>3 DEF Fetch
    <2>7. cur' = cur /\ error' = error /\ closed' = closed /\ done' = done /\ dlq' = dlq
      BY <1>3 DEF Fetch
    <2>8. \A q \in Replicas : \A d \in batch[q] \cup {cur[q]} :
            d # NULL /\ d.n <= delivered[d.msg] => d.n <= delivered'[d.msg]
      <3> SUFFICES ASSUME NEW q \in Replicas, NEW d \in Deliveries, d.n <= delivered[d.msg]
                   PROVE  d.n <= delivered'[d.msg]
        OBVIOUS
      <3>1. d.msg \in Msgs /\ d.n \in 1..MaxDeliver
        OBVIOUS
      <3>2. delivered[d.msg] \in Nat /\ delivered'[d.msg] \in Nat
        BY <3>1, <2>1 DEF HandOut
      <3> QED
        BY <3>1, <3>2, <2>3, BudgetAssumption
    <2>9. ASSUME NEW q \in Replicas
          PROVE  /\ step'[q] \in {"settle", "term"} <=> cur'[q] # NULL
                 /\ step'[q] = "work" => batch'[q] # {}
                 /\ step'[q] \in {"fetch", "down"} => batch'[q] = {}
                 /\ step'[q] = "down" => q \notin closed'
                 /\ failures'[q] < MaxFetchFailures
                 /\ step'[q] = "settle" /\ error'[q] = "none" => cur'[q].msg \in done'
                 /\ step'[q] = "settle" /\ error'[q] = "poison" => cur'[q].msg \in Poison
                 /\ step'[q] = "term" => cur'[q].msg \in dlq'
      BY <2>2, <2>4, <2>5, <2>6, <2>7, BudgetAssumption
    <2>10. ASSUME NEW q \in Replicas
           PROVE  /\ \A d \in batch'[q] : d.n <= delivered'[d.msg]
                  /\ cur'[q] # NULL => cur'[q].n <= delivered'[cur'[q].msg]
      <3>1. cur[q] # NULL => cur[q].n <= delivered'[cur[q].msg]
        BY <2>8
      <3>2. CASE q = r
        BY <3>1, <3>2, <2>4, <2>7
      <3>3. CASE q # r
        <4>1. \A d \in batch[q] : d # NULL /\ d.n <= delivered[d.msg]
          BY NullAssumption
        <4> QED
          BY <4>1, <3>1, <3>3, <2>5, <2>7, <2>8
      <3> QED
        BY <3>2, <3>3
    <2> QED
      BY <2>9, <2>10
  <1>4. ASSUME NEW r \in Replicas, FetchTimesOut(r) PROVE HandInv'
    BY <1>4, BudgetAssumption, NullAssumption DEF FetchTimesOut, LoseAnswer, HandOut, Pulls, Fault
  <1>5. ASSUME NEW r \in Replicas, FetchFails(r) PROVE HandInv'
    BY <1>5, BudgetAssumption, NullAssumption DEF FetchFails, LoseAnswer, HandOut, Pulls, Fault, CountFailure, GoesDown
  <1>6. ASSUME NEW r \in Replicas, FetchOnClosed(r) PROVE HandInv'
    BY <1>6, BudgetAssumption, NullAssumption DEF FetchOnClosed, CountFailure, GoesDown
  <1>7. ASSUME NEW r \in Replicas, ConnectionCloses(r) \/ Stops(r) \/ Restart(r) PROVE HandInv'
    BY <1>7, BudgetAssumption, NullAssumption DEF ConnectionCloses, Stops, Restart, Fault, GoesDown
  <1>8. ASSUME NEW r \in Replicas, Crash(r) PROVE HandInv'
    BY <1>8, BudgetAssumption, NullAssumption DEF Crash, Fault, GoesDown
  <1>9. ASSUME NEW r \in Replicas, Handle(r) PROVE HandInv'
    BY <1>9, BudgetAssumption, NullAssumption DEF Handle
  <1>10. ASSUME NEW r \in Replicas, Ack(r) PROVE HandInv'
    BY <1>10, BudgetAssumption, NullAssumption DEF Ack, Settle, CallFails, Fault, Proceed, Settled, Disposition, decide, num_delivered
  <1>11. ASSUME NEW r \in Replicas, Nak(r) PROVE HandInv'
    BY <1>11, BudgetAssumption, NullAssumption DEF Nak, Settle, CallFails, Fault, Proceed, Nakked, AfterFailedDelivery, Disposition, decide, num_delivered
  <1>12. ASSUME NEW r \in Replicas, DeadLetter(r) PROVE HandInv'
    BY <1>12, BudgetAssumption, NullAssumption DEF DeadLetter, Disposition, decide, num_delivered
  <1>13. ASSUME NEW r \in Replicas, Term(r) PROVE HandInv'
    BY <1>13, BudgetAssumption, NullAssumption DEF Term, Settle, CallFails, Fault, Proceed, Settled
  <1>14. ASSUME NEW r \in Replicas, DeadLetterFails(r) PROVE HandInv'
    BY <1>14, BudgetAssumption, NullAssumption DEF DeadLetterFails, CallFails, Fault, Proceed, Nakked, AfterFailedDelivery, Disposition, decide, num_delivered
  <1>15. CASE UNCHANGED vars
    BY <1>15 DEF vars
  <1> QED
    BY <1>1, <1>2, <1>3, <1>4, <1>5, <1>6, <1>7, <1>8,
       <1>9, <1>10, <1>11, <1>12, <1>13, <1>14, <1>15
    DEF Next

\* The broker gives a message up only when its budget is spent.
LEMMA NextBudget ==
  TypeOK /\ HandInv /\ BudgetInv /\ [Next]_vars => BudgetInv'
  <1> SUFFICES ASSUME TypeOK, HandInv, BudgetInv, [Next]_vars
               PROVE  BudgetInv'
    OBVIOUS
  <1> USE DEF TypeOK, HandInv, BudgetInv, brokerVars, replicaVars
  <1>1. ASSUME NEW m \in Msgs, Publish(m) PROVE BudgetInv'
    BY <1>1, BudgetAssumption DEF Publish
  <1>2. ASSUME NEW m \in Msgs, AckWaitLapses(m) PROVE BudgetInv'
    <2>1. delivered' = delivered /\ delivered[m] \in 0..MaxDeliver
      BY <1>2 DEF AckWaitLapses
    <2>2. \A q \in Msgs \ {m} : stream'[q] = stream[q]
      BY <1>2 DEF AckWaitLapses
    <2>3. stream'[m] = IF delivered[m] < MaxDeliver THEN "ready" ELSE "dropped"
      BY <1>2 DEF AckWaitLapses, AfterFailedDelivery
    <2> QED
      BY <2>1, <2>2, <2>3, BudgetAssumption
  <1>3. ASSUME NEW r \in Replicas, Fetch(r) PROVE BudgetInv'
    BY <1>3, BudgetAssumption DEF Fetch, HandOut, Pulls
  <1>4. ASSUME NEW r \in Replicas, FetchTimesOut(r) PROVE BudgetInv'
    BY <1>4, BudgetAssumption DEF FetchTimesOut, LoseAnswer, HandOut, Pulls, Fault
  <1>5. ASSUME NEW r \in Replicas, FetchFails(r) PROVE BudgetInv'
    BY <1>5, BudgetAssumption DEF FetchFails, LoseAnswer, HandOut, Pulls, Fault, CountFailure, GoesDown
  <1>6. ASSUME NEW r \in Replicas, FetchOnClosed(r) PROVE BudgetInv'
    BY <1>6, BudgetAssumption DEF FetchOnClosed, CountFailure, GoesDown
  <1>7. ASSUME NEW r \in Replicas, ConnectionCloses(r) \/ Stops(r) \/ Restart(r) PROVE BudgetInv'
    BY <1>7, BudgetAssumption DEF ConnectionCloses, Stops, Restart, Fault, GoesDown
  <1>8. ASSUME NEW r \in Replicas, Crash(r) PROVE BudgetInv'
    BY <1>8, BudgetAssumption DEF Crash, Fault, GoesDown
  <1>9. ASSUME NEW r \in Replicas, Handle(r) PROVE BudgetInv'
    BY <1>9, BudgetAssumption DEF Handle
  <1>10. ASSUME NEW r \in Replicas, Ack(r) PROVE BudgetInv'
    BY <1>10, BudgetAssumption DEF Ack, Settle, CallFails, Fault, Proceed, Settled, Disposition, decide, num_delivered
  <1>11. ASSUME NEW r \in Replicas, Nak(r) PROVE BudgetInv'
    BY <1>11, BudgetAssumption DEF Nak, Settle, CallFails, Fault, Proceed, Nakked, AfterFailedDelivery, Disposition, decide, num_delivered
  <1>12. ASSUME NEW r \in Replicas, DeadLetter(r) PROVE BudgetInv'
    BY <1>12, BudgetAssumption DEF DeadLetter, Disposition, decide, num_delivered
  <1>13. ASSUME NEW r \in Replicas, Term(r) PROVE BudgetInv'
    BY <1>13, BudgetAssumption DEF Term, Settle, CallFails, Fault, Proceed, Settled
  <1>14. ASSUME NEW r \in Replicas, DeadLetterFails(r) PROVE BudgetInv'
    BY <1>14, BudgetAssumption DEF DeadLetterFails, CallFails, Fault, Proceed, Nakked, AfterFailedDelivery, Disposition, decide, num_delivered
  <1>15. CASE UNCHANGED vars
    BY <1>15 DEF vars
  <1> QED
    BY <1>1, <1>2, <1>3, <1>4, <1>5, <1>6, <1>7, <1>8,
       <1>9, <1>10, <1>11, <1>12, <1>13, <1>14, <1>15
    DEF Next

\* Acks and terms come after the work or the burial.
LEMMA NextSettled ==
  TypeOK /\ HandInv /\ SettledIsAccounted /\ [Next]_vars => SettledIsAccounted'
  <1> SUFFICES ASSUME TypeOK, HandInv, SettledIsAccounted, [Next]_vars
               PROVE  SettledIsAccounted'
    OBVIOUS
  <1> USE DEF TypeOK, HandInv, SettledIsAccounted, Accounted, brokerVars, replicaVars
  <1>1. ASSUME NEW m \in Msgs, Publish(m) PROVE SettledIsAccounted'
    BY <1>1 DEF Publish
  <1>2. ASSUME NEW m \in Msgs, AckWaitLapses(m) PROVE SettledIsAccounted'
    BY <1>2 DEF AckWaitLapses, AfterFailedDelivery
  <1>3. ASSUME NEW r \in Replicas, Fetch(r) PROVE SettledIsAccounted'
    BY <1>3 DEF Fetch, HandOut, Pulls
  <1>4. ASSUME NEW r \in Replicas, FetchTimesOut(r) PROVE SettledIsAccounted'
    BY <1>4 DEF FetchTimesOut, LoseAnswer, HandOut, Pulls, Fault
  <1>5. ASSUME NEW r \in Replicas, FetchFails(r) PROVE SettledIsAccounted'
    BY <1>5 DEF FetchFails, LoseAnswer, HandOut, Pulls, Fault, CountFailure, GoesDown
  <1>6. ASSUME NEW r \in Replicas, FetchOnClosed(r) PROVE SettledIsAccounted'
    BY <1>6 DEF FetchOnClosed, CountFailure, GoesDown
  <1>7. ASSUME NEW r \in Replicas, ConnectionCloses(r) \/ Stops(r) \/ Restart(r) PROVE SettledIsAccounted'
    BY <1>7 DEF ConnectionCloses, Stops, Restart, Fault, GoesDown
  <1>8. ASSUME NEW r \in Replicas, Crash(r) PROVE SettledIsAccounted'
    BY <1>8 DEF Crash, Fault, GoesDown
  <1>9. ASSUME NEW r \in Replicas, Handle(r) PROVE SettledIsAccounted'
    BY <1>9 DEF Handle
  <1>10. ASSUME NEW r \in Replicas, Ack(r) PROVE SettledIsAccounted'
    BY <1>10 DEF Ack, Settle, CallFails, Fault, Proceed, Settled, Disposition, decide, num_delivered
  <1>11. ASSUME NEW r \in Replicas, Nak(r) PROVE SettledIsAccounted'
    BY <1>11 DEF Nak, Settle, CallFails, Fault, Proceed, Nakked, AfterFailedDelivery, Disposition, decide, num_delivered
  <1>12. ASSUME NEW r \in Replicas, DeadLetter(r) PROVE SettledIsAccounted'
    BY <1>12 DEF DeadLetter, Disposition, decide, num_delivered
  <1>13. ASSUME NEW r \in Replicas, Term(r) PROVE SettledIsAccounted'
    BY <1>13 DEF Term, Settle, CallFails, Fault, Proceed, Settled
  <1>14. ASSUME NEW r \in Replicas, DeadLetterFails(r) PROVE SettledIsAccounted'
    BY <1>14 DEF DeadLetterFails, CallFails, Fault, Proceed, Nakked, AfterFailedDelivery, Disposition, decide, num_delivered
  <1>15. CASE UNCHANGED vars
    BY <1>15 DEF vars
  <1> QED
    BY <1>1, <1>2, <1>3, <1>4, <1>5, <1>6, <1>7, <1>8,
       <1>9, <1>10, <1>11, <1>12, <1>13, <1>14, <1>15
    DEF Next

\* Burials come from poison, an unreadable count or a spent budget.
LEMMA NextBuried ==
  TypeOK /\ HandInv /\ BudgetInv /\ BuriedIsHopeless /\ [Next]_vars => BuriedIsHopeless'
  <1> SUFFICES ASSUME TypeOK, HandInv, BudgetInv, BuriedIsHopeless, [Next]_vars
               PROVE  BuriedIsHopeless'
    OBVIOUS
  <1> USE DEF TypeOK, HandInv, BudgetInv, BuriedIsHopeless, Deliveries, brokerVars, replicaVars
  <1>1. ASSUME NEW m \in Msgs, Publish(m) PROVE BuriedIsHopeless'
    BY <1>1, BudgetAssumption DEF Publish
  <1>2. ASSUME NEW m \in Msgs, AckWaitLapses(m) PROVE BuriedIsHopeless'
    BY <1>2, BudgetAssumption DEF AckWaitLapses, AfterFailedDelivery
  <1>3. ASSUME NEW r \in Replicas, Fetch(r) PROVE BuriedIsHopeless'
    BY <1>3, BudgetAssumption DEF Fetch, HandOut, Pulls
  <1>4. ASSUME NEW r \in Replicas, FetchTimesOut(r) PROVE BuriedIsHopeless'
    BY <1>4, BudgetAssumption DEF FetchTimesOut, LoseAnswer, HandOut, Pulls, Fault
  <1>5. ASSUME NEW r \in Replicas, FetchFails(r) PROVE BuriedIsHopeless'
    BY <1>5, BudgetAssumption DEF FetchFails, LoseAnswer, HandOut, Pulls, Fault, CountFailure, GoesDown
  <1>6. ASSUME NEW r \in Replicas, FetchOnClosed(r) PROVE BuriedIsHopeless'
    BY <1>6, BudgetAssumption DEF FetchOnClosed, CountFailure, GoesDown
  <1>7. ASSUME NEW r \in Replicas, ConnectionCloses(r) \/ Stops(r) \/ Restart(r) PROVE BuriedIsHopeless'
    BY <1>7, BudgetAssumption DEF ConnectionCloses, Stops, Restart, Fault, GoesDown
  <1>8. ASSUME NEW r \in Replicas, Crash(r) PROVE BuriedIsHopeless'
    BY <1>8, BudgetAssumption DEF Crash, Fault, GoesDown
  <1>9. ASSUME NEW r \in Replicas, Handle(r) PROVE BuriedIsHopeless'
    BY <1>9, BudgetAssumption DEF Handle
  <1>10. ASSUME NEW r \in Replicas, Ack(r) PROVE BuriedIsHopeless'
    BY <1>10, BudgetAssumption DEF Ack, Settle, CallFails, Fault, Proceed, Settled, Disposition, decide, num_delivered
  <1>11. ASSUME NEW r \in Replicas, Nak(r) PROVE BuriedIsHopeless'
    BY <1>11, BudgetAssumption DEF Nak, Settle, CallFails, Fault, Proceed, Nakked, AfterFailedDelivery, Disposition, decide, num_delivered
  <1>12. ASSUME NEW r \in Replicas, DeadLetter(r) PROVE BuriedIsHopeless'
    BY <1>12, BuryFact DEF DeadLetter
  <1>13. ASSUME NEW r \in Replicas, Term(r) PROVE BuriedIsHopeless'
    BY <1>13, BudgetAssumption DEF Term, Settle, CallFails, Fault, Proceed, Settled
  <1>14. ASSUME NEW r \in Replicas, DeadLetterFails(r) PROVE BuriedIsHopeless'
    BY <1>14, BuryFact DEF DeadLetterFails
  <1>15. CASE UNCHANGED vars
    BY <1>15 DEF vars
  <1> QED
    BY <1>1, <1>2, <1>3, <1>4, <1>5, <1>6, <1>7, <1>8,
       <1>9, <1>10, <1>11, <1>12, <1>13, <1>14, <1>15
    DEF Next

\* Messages handed out by the broker keep LastDeliveryInv when those on their
\* last delivery are in hand afterwards or given up, and nobody lets go of any.
LEMMA KeepHandOut ==
  ASSUME TypeOK, LastDeliveryInv,
         NEW S \in SUBSET Msgs,
         HandOut(S),
         done' = done, dlq' = dlq,
         abandoned \subseteq abandoned',
         \A r \in Replicas : Held(r) \subseteq Held(r)',
         \A m \in S : delivered[m] + 1 = MaxDeliver => InHand(m, MaxDeliver)' \/ m \in abandoned'
  PROVE  LastDeliveryInv'
  <1> SUFFICES ASSUME NEW m \in Msgs, delivered'[m] = MaxDeliver
               PROVE  (Accounted(m) \/ InHand(m, MaxDeliver) \/ m \in abandoned)'
    BY DEF LastDeliveryInv
  <1>1. CASE m \in S
    <2>1. delivered[m] + 1 = MaxDeliver
      BY <1>1 DEF HandOut, TypeOK
    <2> QED
      BY <1>1, <2>1
  <1>2. CASE m \notin S
    <2>1. delivered[m] = MaxDeliver
      BY <1>2 DEF HandOut, TypeOK
    <2>2. Accounted(m) \/ InHand(m, MaxDeliver) \/ m \in abandoned
      BY <2>1 DEF LastDeliveryInv
    <2> QED
      BY <2>2 DEF Accounted, InHand
  <1> QED
    BY <1>1, <1>2

\* An answer that is lost gives up what was on its last delivery.
LEMMA KeepLostAnswer ==
  ASSUME TypeOK, LastDeliveryInv,
         NEW S \in SUBSET Msgs,
         LoseAnswer(S),
         done' = done, dlq' = dlq, batch' = batch, cur' = cur
  PROVE  LastDeliveryInv'
  <1>1. HandOut(S) /\ abandoned \subseteq abandoned'
    BY DEF LoseAnswer
  <1>2. \A r \in Replicas : Held(r) \subseteq Held(r)'
    BY DEF Held
  <1>3. \A m \in S : delivered[m] + 1 = MaxDeliver => m \in abandoned'
    BY DEF LoseAnswer
  <1> QED
    BY <1>1, <1>2, <1>3, KeepHandOut

\* The last delivery stays in hand until the message is accounted for, or comes
\* to nothing.
LEMMA NextLast ==
  TypeOK /\ HandInv /\ BudgetInv /\ LastDeliveryInv /\ [Next]_vars => LastDeliveryInv'
  <1> SUFFICES ASSUME TypeOK, HandInv, BudgetInv, LastDeliveryInv, [Next]_vars
               PROVE  LastDeliveryInv'
    OBVIOUS
  <1> USE DEF brokerVars, replicaVars
  <1>1. ASSUME NEW m \in Msgs, Publish(m) \/ AckWaitLapses(m) PROVE LastDeliveryInv'
    BY <1>1, KeepHand DEF Publish, AckWaitLapses
  <1>2. ASSUME NEW r \in Replicas, Fetch(r) PROVE LastDeliveryInv'
    <2>1. PICK S \in Pulls :
            /\ HandOut(S)
            /\ batch' = [batch EXCEPT ![r] = {[msg |-> q, n |-> delivered[q] + 1] : q \in S}]
      BY <1>2 DEF Fetch
    <2>2. S \in SUBSET Msgs
      BY DEF Pulls
    <2>3. /\ batch[r] = {} /\ cur' = cur /\ done' = done /\ dlq' = dlq
          /\ abandoned' = abandoned
      BY <1>2 DEF HandInv, Fetch
    <2>4. \A q \in Replicas : Held(q) \subseteq Held(q)'
      BY <2>1, <2>3 DEF TypeOK, Held
    <2>5. ASSUME NEW m \in S, delivered[m] + 1 = MaxDeliver PROVE InHand(m, MaxDeliver)'
      <3>1. [msg |-> m, n |-> MaxDeliver] \in batch'[r]
        BY <2>1, <2>5 DEF TypeOK
      <3> QED
        BY <3>1 DEF InHand, Held
    <2> QED
      BY <2>1, <2>2, <2>3, <2>4, <2>5, KeepHandOut
  <1>3. ASSUME NEW r \in Replicas, FetchTimesOut(r) \/ FetchFails(r) PROVE LastDeliveryInv'
    <2>1. done' = done /\ dlq' = dlq /\ batch' = batch /\ cur' = cur
      BY <1>3 DEF FetchTimesOut, FetchFails
    <2>2. CASE delivered' = delivered /\ abandoned' = abandoned
      BY <2>1, <2>2, KeepHand
    <2>3. CASE \E S \in Pulls : LoseAnswer(S)
      BY <2>1, <2>3, KeepLostAnswer DEF Pulls
    <2> QED
      BY <1>3, <2>2, <2>3 DEF FetchTimesOut, FetchFails
  <1>4. ASSUME NEW r \in Replicas, Handle(r) PROVE LastDeliveryInv'
    <2>1. PICK d \in batch[r] :
            cur' = [cur EXCEPT ![r] = d] /\ batch' = [batch EXCEPT ![r] = @ \ {d}]
      BY <1>4 DEF Handle
    <2>2. cur[r] = NULL
      BY <1>4 DEF Handle, HandInv
    <2>3. \A m \in Msgs : [msg |-> m, n |-> MaxDeliver] # NULL
      BY NullAssumption, BudgetAssumption DEF Deliveries
    <2>4. \A q \in Replicas : \A e \in batch[q] \cup {cur[q]} :
            e # NULL => e \in batch'[q] \cup {cur'[q]}
      BY <2>1, <2>2 DEF TypeOK
    <2>5. delivered' = delivered /\ done \subseteq done' /\ dlq' = dlq /\ abandoned' = abandoned
      BY <1>4 DEF Handle
    <2> QED
      BY <2>3, <2>4, <2>5, KeepHand
  <1>5. ASSUME NEW r \in Replicas,
               ConnectionCloses(r) \/ Stops(r) \/ Restart(r) \/ FetchOnClosed(r) \/ DeadLetter(r)
        PROVE  LastDeliveryInv'
    BY <1>5, KeepHand DEF ConnectionCloses, Stops, Restart, FetchOnClosed, DeadLetter
  <1>6. ASSUME NEW r \in Replicas, Crash(r) PROVE LastDeliveryInv'
    <2> SUFFICES ASSUME NEW m \in Msgs, delivered'[m] = MaxDeliver
                 PROVE  (Accounted(m) \/ InHand(m, MaxDeliver) \/ m \in abandoned)'
      BY DEF LastDeliveryInv
    <2>1. Accounted(m) \/ InHand(m, MaxDeliver) \/ m \in abandoned
      BY <1>6 DEF Crash, LastDeliveryInv
    <2>2. CASE Accounted(m) \/ m \in abandoned
      BY <1>6, <2>2 DEF Crash, Accounted
    <2>3. CASE InHand(m, MaxDeliver)
      <3>1. PICK q \in Replicas : [msg |-> m, n |-> MaxDeliver] \in Held(q)
        BY <2>3 DEF InHand
      <3>2. CASE q = r
        BY <1>6, <3>1, <3>2 DEF Crash
      <3>3. CASE q # r
        <4>1. Held(q)' = Held(q)
          BY <1>6, <3>3 DEF Crash, Held, TypeOK
        <4> QED
          BY <3>1, <4>1 DEF InHand
      <3> QED
        BY <3>2, <3>3
    <2> QED
      BY <2>1, <2>2, <2>3
  <1>7. ASSUME NEW r \in Replicas, Ack(r) \/ Nak(r) \/ Term(r) PROVE LastDeliveryInv'
    <2>1. /\ cur' = [cur EXCEPT ![r] = NULL] /\ batch' = batch /\ delivered' = delivered
          /\ done' = done /\ dlq' = dlq /\ abandoned' = abandoned
      BY <1>7 DEF Ack, Nak, Term, Settle, Proceed
    <2>2. cur[r] \in Deliveries /\ cur[r].n \in 1..MaxDeliver
      BY <1>7 DEF Ack, Nak, Term, HandInv, TypeOK, Deliveries
    <2>3. cur[r].n = MaxDeliver => cur[r].msg \in done \cup dlq
      <3>1. CASE Ack(r)
        BY <3>1 DEF Ack, Disposition, decide, HandInv
      <3>2. CASE Nak(r)
        BY <3>2, <2>2, NullAssumption, BudgetAssumption
        DEF Nak, Disposition, decide, num_delivered
      <3>3. CASE Term(r)
        BY <3>3 DEF Term, HandInv
      <3> QED
        BY <1>7, <3>1, <3>2, <3>3
    <2>4. \A q \in Replicas : \A m \in Msgs :
            LET d == [msg |-> m, n |-> MaxDeliver] IN
              d \in batch[q] \cup {cur[q]} =>
                d \in batch'[q] \cup {cur'[q]} \/ m \in done' \/ m \in dlq' \/ m \in abandoned'
      BY <2>1, <2>3 DEF TypeOK
    <2> QED
      BY <2>1, <2>4, KeepHand
  <1>8. ASSUME NEW r \in Replicas, DeadLetterFails(r) PROVE LastDeliveryInv'
    <2>1. /\ cur' = [cur EXCEPT ![r] = NULL] /\ batch' = batch /\ delivered' = delivered
          /\ done' = done /\ dlq \subseteq dlq'
      BY <1>8 DEF DeadLetterFails, Proceed
    <2>2. abandoned' = abandoned \cup {m \in Msgs : cur[r] = [msg |-> m, n |-> MaxDeliver]}
      BY <1>8 DEF DeadLetterFails
    <2>3. \A q \in Replicas : \A m \in Msgs :
            LET d == [msg |-> m, n |-> MaxDeliver] IN
              d \in batch[q] \cup {cur[q]} =>
                d \in batch'[q] \cup {cur'[q]} \/ m \in done' \/ m \in dlq' \/ m \in abandoned'
      BY <2>1, <2>2 DEF TypeOK
    <2> QED
      BY <2>1, <2>2, <2>3, KeepHand
  <1>9. CASE UNCHANGED vars
    BY <1>9, KeepHand DEF vars
  <1> QED
    BY <1>1, <1>2, <1>3, <1>4, <1>5, <1>6, <1>7, <1>8, <1>9 DEF Next

-----------------------------------------------------------------------------
(***************************************************************************)
(* What a step does to the fate of a message.                              *)
(***************************************************************************)

\* Work that is done and burials stay on record.  Only a message in a replica's
\* hands is accounted for by a step.
RecordGrows ==
  /\ done \subseteq done' /\ dlq \subseteq dlq'
  /\ \A m \in (done' \ done) \cup (dlq' \ dlq) :
       \E r \in Replicas : \E d \in Held(r) : d # NULL /\ d.msg = m

LEMMA Recorded ==
  ASSUME TypeOK, HandInv, [Next]_vars
  PROVE  RecordGrows
  <1> USE DEF RecordGrows, TypeOK, HandInv, Held, Deliveries, brokerVars, replicaVars
  <1>1. ASSUME NEW m \in Msgs, Publish(m) PROVE RecordGrows
    BY <1>1 DEF Publish
  <1>2. ASSUME NEW m \in Msgs, AckWaitLapses(m) PROVE RecordGrows
    BY <1>2 DEF AckWaitLapses, AfterFailedDelivery
  <1>3. ASSUME NEW r \in Replicas, Fetch(r) PROVE RecordGrows
    BY <1>3 DEF Fetch, HandOut, Pulls
  <1>4. ASSUME NEW r \in Replicas, FetchTimesOut(r) \/ FetchFails(r) PROVE RecordGrows
    BY <1>4 DEF FetchTimesOut, FetchFails, LoseAnswer, HandOut, Pulls, Fault, CountFailure, GoesDown
  <1>5. ASSUME NEW r \in Replicas, FetchOnClosed(r) PROVE RecordGrows
    BY <1>5 DEF FetchOnClosed, CountFailure, GoesDown
  <1>6. ASSUME NEW r \in Replicas, ConnectionCloses(r) \/ Stops(r) \/ Restart(r) PROVE RecordGrows
    BY <1>6 DEF ConnectionCloses, Stops, Restart, Fault, GoesDown
  <1>7. ASSUME NEW r \in Replicas, Crash(r) PROVE RecordGrows
    BY <1>7 DEF Crash, Fault, GoesDown
  <1>8. ASSUME NEW r \in Replicas, Handle(r) PROVE RecordGrows
    BY <1>8, NullAssumption DEF Handle
  <1>9. ASSUME NEW r \in Replicas, Ack(r) PROVE RecordGrows
    BY <1>9 DEF Ack, Settle, CallFails, Fault, Proceed, Settled
  <1>10. ASSUME NEW r \in Replicas, Nak(r) PROVE RecordGrows
    BY <1>10 DEF Nak, Settle, CallFails, Fault, Proceed, Nakked, AfterFailedDelivery
  <1>11. ASSUME NEW r \in Replicas, DeadLetter(r) PROVE RecordGrows
    BY <1>11 DEF DeadLetter
  <1>12. ASSUME NEW r \in Replicas, Term(r) PROVE RecordGrows
    BY <1>12 DEF Term, Settle, CallFails, Fault, Proceed, Settled
  <1>13. ASSUME NEW r \in Replicas, DeadLetterFails(r) PROVE RecordGrows
    BY <1>13 DEF DeadLetterFails, CallFails, Fault, Proceed, Nakked, AfterFailedDelivery
  <1>14. CASE UNCHANGED vars
    BY <1>14 DEF vars
  <1> QED
    BY <1>1, <1>2, <1>3, <1>4, <1>5, <1>6, <1>7,
       <1>8, <1>9, <1>10, <1>11, <1>12, <1>13, <1>14
    DEF Next

\* A broker forgets nothing: a message is published once, and one that is
\* dropped or settled is never delivered again.
BrokerForgets ==
  \A m \in Msgs :
    /\ stream[m] # "unpublished" => stream'[m] # "unpublished"
    /\ stream[m] = "unpublished" => stream'[m] # "dropped"
    /\ stream[m] \in {"dropped", "settled"} => stream'[m] = stream[m]

LEMMA BrokerMovesOn ==
  ASSUME TypeOK, HandInv, [Next]_vars
  PROVE  BrokerForgets
  <1> USE DEF BrokerForgets, TypeOK, HandInv, Deliveries, brokerVars, replicaVars
  <1>1. ASSUME NEW m \in Msgs, Publish(m) PROVE BrokerForgets
    BY <1>1 DEF Publish
  <1>2. ASSUME NEW m \in Msgs, AckWaitLapses(m) PROVE BrokerForgets
    BY <1>2 DEF AckWaitLapses, AfterFailedDelivery
  <1>3. ASSUME NEW r \in Replicas, Fetch(r) PROVE BrokerForgets
    BY <1>3 DEF Fetch, HandOut, Pulls
  <1>4. ASSUME NEW r \in Replicas, FetchTimesOut(r) \/ FetchFails(r) PROVE BrokerForgets
    BY <1>4 DEF FetchTimesOut, FetchFails, LoseAnswer, HandOut, Pulls, Fault, CountFailure, GoesDown
  <1>5. ASSUME NEW r \in Replicas, FetchOnClosed(r) PROVE BrokerForgets
    BY <1>5 DEF FetchOnClosed, CountFailure, GoesDown
  <1>6. ASSUME NEW r \in Replicas, ConnectionCloses(r) \/ Stops(r) \/ Restart(r) PROVE BrokerForgets
    BY <1>6 DEF ConnectionCloses, Stops, Restart, Fault, GoesDown
  <1>7. ASSUME NEW r \in Replicas, Crash(r) PROVE BrokerForgets
    BY <1>7 DEF Crash, Fault, GoesDown
  <1>8. ASSUME NEW r \in Replicas, Handle(r) PROVE BrokerForgets
    BY <1>8 DEF Handle
  <1>9. ASSUME NEW r \in Replicas, Ack(r) PROVE BrokerForgets
    BY <1>9 DEF Ack, Settle, CallFails, Fault, Proceed, Settled
  <1>10. ASSUME NEW r \in Replicas, Nak(r) PROVE BrokerForgets
    BY <1>10 DEF Nak, Settle, CallFails, Fault, Proceed, Nakked, AfterFailedDelivery
  <1>11. ASSUME NEW r \in Replicas, DeadLetter(r) PROVE BrokerForgets
    BY <1>11 DEF DeadLetter
  <1>12. ASSUME NEW r \in Replicas, Term(r) PROVE BrokerForgets
    BY <1>12 DEF Term, Settle, CallFails, Fault, Proceed, Settled
  <1>13. ASSUME NEW r \in Replicas, DeadLetterFails(r) PROVE BrokerForgets
    BY <1>13 DEF DeadLetterFails, CallFails, Fault, Proceed, Nakked, AfterFailedDelivery
  <1>14. CASE UNCHANGED vars
    BY <1>14 DEF vars
  <1> QED
    BY <1>1, <1>2, <1>3, <1>4, <1>5, <1>6, <1>7,
       <1>8, <1>9, <1>10, <1>11, <1>12, <1>13, <1>14
    DEF Next

\* A step that settles accounts for nothing: the work was done before.
SettlesLater ==
  \A m \in Msgs : stream'[m] = "settled" /\ stream[m] # "settled" => done' = done /\ dlq' = dlq

LEMMA SettledAfter ==
  ASSUME TypeOK, HandInv, [Next]_vars
  PROVE  SettlesLater
  <1> USE DEF SettlesLater, TypeOK, HandInv, Deliveries, brokerVars, replicaVars
  <1>1. ASSUME NEW m \in Msgs, Publish(m) PROVE SettlesLater
    BY <1>1 DEF Publish
  <1>2. ASSUME NEW m \in Msgs, AckWaitLapses(m) PROVE SettlesLater
    BY <1>2 DEF AckWaitLapses, AfterFailedDelivery
  <1>3. ASSUME NEW r \in Replicas, Fetch(r) PROVE SettlesLater
    BY <1>3 DEF Fetch, HandOut, Pulls
  <1>4. ASSUME NEW r \in Replicas, FetchTimesOut(r) \/ FetchFails(r) PROVE SettlesLater
    BY <1>4 DEF FetchTimesOut, FetchFails, LoseAnswer, HandOut, Pulls, Fault, CountFailure, GoesDown
  <1>5. ASSUME NEW r \in Replicas, FetchOnClosed(r) PROVE SettlesLater
    BY <1>5 DEF FetchOnClosed, CountFailure, GoesDown
  <1>6. ASSUME NEW r \in Replicas, ConnectionCloses(r) \/ Stops(r) \/ Restart(r) PROVE SettlesLater
    BY <1>6 DEF ConnectionCloses, Stops, Restart, Fault, GoesDown
  <1>7. ASSUME NEW r \in Replicas, Crash(r) PROVE SettlesLater
    BY <1>7 DEF Crash, Fault, GoesDown
  <1>8. ASSUME NEW r \in Replicas, Handle(r) PROVE SettlesLater
    BY <1>8 DEF Handle
  <1>9. ASSUME NEW r \in Replicas, Ack(r) PROVE SettlesLater
    BY <1>9 DEF Ack, Settle, CallFails, Fault, Proceed, Settled
  <1>10. ASSUME NEW r \in Replicas, Nak(r) PROVE SettlesLater
    BY <1>10 DEF Nak, Settle, CallFails, Fault, Proceed, Nakked, AfterFailedDelivery
  <1>11. ASSUME NEW r \in Replicas, DeadLetter(r) PROVE SettlesLater
    BY <1>11 DEF DeadLetter
  <1>12. ASSUME NEW r \in Replicas, Term(r) PROVE SettlesLater
    BY <1>12 DEF Term, Settle, CallFails, Fault, Proceed, Settled
  <1>13. ASSUME NEW r \in Replicas, DeadLetterFails(r) PROVE SettlesLater
    BY <1>13 DEF DeadLetterFails, CallFails, Fault, Proceed, Nakked, AfterFailedDelivery
  <1>14. CASE UNCHANGED vars
    BY <1>14 DEF vars
  <1> QED
    BY <1>1, <1>2, <1>3, <1>4, <1>5, <1>6, <1>7,
       <1>8, <1>9, <1>10, <1>11, <1>12, <1>13, <1>14
    DEF Next

\* A replica gets hold of a message only by fetching it when it is ready.
HandsOver ==
  \A r \in Replicas : \A d \in batch'[r] \cup {cur'[r]} :
    d # NULL => d \in batch[r] \cup {cur[r]} \/ stream[d.msg] = "ready"

LEMMA HandedOver ==
  ASSUME TypeOK, HandInv, [Next]_vars
  PROVE  HandsOver
  <1> USE DEF HandsOver, TypeOK, HandInv, Deliveries, brokerVars, replicaVars
  <1>1. ASSUME NEW m \in Msgs, Publish(m) PROVE HandsOver
    BY <1>1 DEF Publish
  <1>2. ASSUME NEW m \in Msgs, AckWaitLapses(m) PROVE HandsOver
    BY <1>2 DEF AckWaitLapses, AfterFailedDelivery
  <1>3. ASSUME NEW r \in Replicas, Fetch(r) PROVE HandsOver
    BY <1>3 DEF Fetch, HandOut, Pulls
  <1>4. ASSUME NEW r \in Replicas, FetchTimesOut(r) \/ FetchFails(r) PROVE HandsOver
    BY <1>4 DEF FetchTimesOut, FetchFails, LoseAnswer, HandOut, Pulls, Fault, CountFailure, GoesDown
  <1>5. ASSUME NEW r \in Replicas, FetchOnClosed(r) PROVE HandsOver
    BY <1>5 DEF FetchOnClosed, CountFailure, GoesDown
  <1>6. ASSUME NEW r \in Replicas, ConnectionCloses(r) \/ Stops(r) \/ Restart(r) PROVE HandsOver
    BY <1>6 DEF ConnectionCloses, Stops, Restart, Fault, GoesDown
  <1>7. ASSUME NEW r \in Replicas, Crash(r) PROVE HandsOver
    BY <1>7 DEF Crash, Fault, GoesDown
  <1>8. ASSUME NEW r \in Replicas, Handle(r) PROVE HandsOver
    BY <1>8 DEF Handle
  <1>9. ASSUME NEW r \in Replicas, Ack(r) PROVE HandsOver
    BY <1>9 DEF Ack, Settle, CallFails, Fault, Proceed, Settled
  <1>10. ASSUME NEW r \in Replicas, Nak(r) PROVE HandsOver
    BY <1>10 DEF Nak, Settle, CallFails, Fault, Proceed, Nakked, AfterFailedDelivery
  <1>11. ASSUME NEW r \in Replicas, DeadLetter(r) PROVE HandsOver
    BY <1>11 DEF DeadLetter
  <1>12. ASSUME NEW r \in Replicas, Term(r) PROVE HandsOver
    BY <1>12 DEF Term, Settle, CallFails, Fault, Proceed, Settled
  <1>13. ASSUME NEW r \in Replicas, DeadLetterFails(r) PROVE HandsOver
    BY <1>13 DEF DeadLetterFails, CallFails, Fault, Proceed, Nakked, AfterFailedDelivery
  <1>14. CASE UNCHANGED vars
    BY <1>14 DEF vars
  <1> QED
    BY <1>1, <1>2, <1>3, <1>4, <1>5, <1>6, <1>7,
       <1>8, <1>9, <1>10, <1>11, <1>12, <1>13, <1>14
    DEF Next

LEMMA AbandonedStay ==
  ASSUME [Next]_vars
  PROVE  abandoned \subseteq abandoned'
  BY DEF Next, vars, brokerVars, replicaVars, Publish, AckWaitLapses, Fetch, FetchTimesOut,
     FetchFails, LoseAnswer, FetchOnClosed, ConnectionCloses, Stops, Restart, Crash, Handle,
     Ack, Nak, DeadLetter, Term, DeadLetterFails

\* A message nobody published is on no record.
LEMMA NextFresh ==
  ASSUME TypeOK, HandInv, FreshInv, [Next]_vars
  PROVE  FreshInv'
  <1> SUFFICES ASSUME NEW m \in Msgs, stream'[m] = "unpublished"
               PROVE  (delivered[m] = 0 /\ ~Accounted(m))'
    BY DEF FreshInv
  <1>1. stream[m] = "unpublished" /\ delivered[m] = 0 /\ ~Accounted(m)
    BY BrokerMovesOn DEF BrokerForgets, FreshInv
  <1>2. \A r \in Replicas : \A d \in Held(r) : d # NULL => d.msg # m
    <2> SUFFICES ASSUME NEW r \in Replicas, NEW d \in Held(r), d # NULL, d.msg = m
                 PROVE  FALSE
      OBVIOUS
    <2>1. d.n \in 1..MaxDeliver /\ d.n <= delivered[m]
      BY DEF TypeOK, Deliveries, HandInv, Held
    <2> QED
      BY <2>1, <1>1, BudgetAssumption
  <1>3. ~Accounted(m)'
    BY <1>1, <1>2, Recorded DEF RecordGrows, Accounted
  <1>4. delivered'[m] = delivered[m]
    <2>1. ASSUME NEW S \in Pulls, HandOut(S) PROVE delivered'[m] = delivered[m]
      BY <1>1, <2>1 DEF HandOut, Pulls
    <2>2. delivered' = delivered \/ \E S \in Pulls : HandOut(S)
      BY DEF Next, vars, brokerVars, Publish, AckWaitLapses, Fetch, FetchTimesOut, FetchFails,
         LoseAnswer, FetchOnClosed, ConnectionCloses, Stops, Restart, Crash, Handle, Ack, Nak,
         DeadLetter, Term, DeadLetterFails
    <2> QED
      BY <2>1, <2>2
  <1> QED
    BY <1>1, <1>3, <1>4

-----------------------------------------------------------------------------
\* IInv is an invariant of the consumer.
THEOREM Inductive == Spec => []IInv
  <1>1. IInv /\ [Next]_vars => IInv'
    BY NextType, NextHand, NextFresh, NextBudget, NextSettled, NextBuried, NextLast DEF IInv
  <1> QED
    BY InitInv, <1>1, PTL DEF Spec

\* Type correctness.
THEOREM TypeCorrect == Spec => []TypeOK
  <1>1. IInv => TypeOK
    BY DEF IInv
  <1> QED
    BY <1>1, Inductive, PTL

\* A message is acked or terminated only once it is processed or on the DLQ,
\* whatever is slow, lost or killed.
THEOREM SettlingIsSafe == Spec => []SettledIsAccounted
  <1>1. IInv => SettledIsAccounted
    BY DEF IInv
  <1> QED
    BY <1>1, Inductive, PTL

\* The DLQ holds no message another delivery could have helped.
THEOREM BurialsAreDue == Spec => []BuriedIsHopeless
  <1>1. IInv => BuriedIsHopeless
    BY DEF IInv
  <1> QED
    BY <1>1, Inductive, PTL

\* A message that ran out of deliveries is processed, buried or in hand, unless
\* its last delivery was lost with a fetch's answer or a killed process, or
\* refused by the DLQ.
THEOREM DropsAreSeen == Spec => []DroppedIsAccounted
  <1>1. IInv => DroppedIsAccounted
    BY DEF IInv, LastDeliveryInv, BudgetInv, DroppedIsAccounted
  <1> QED
    BY <1>1, Inductive, PTL

-----------------------------------------------------------------------------
(***************************************************************************)
(* The consumer implements Delivery.                                       *)
(***************************************************************************)

\* A fate that is reached is final, and only a message that was published
\* reaches one.
LEMMA FatesAreFinal ==
  ASSUME IInv, IInv', [Next]_vars, NEW m \in Msgs
  PROVE  /\ Fate(m) = "accounted" => Fate(m)' = "accounted"
         /\ Fate(m) = "lost" => Fate(m)' = "lost"
         /\ Fate(m) = "unpublished" => Fate(m)' \in {"unpublished", "open"}
         /\ Fate(m) = "open" => Fate(m)' # "unpublished"
  <1>0. TypeOK /\ HandInv /\ FreshInv /\ TypeOK'
    BY DEF IInv
  <1>1. RecordGrows /\ BrokerForgets /\ HandsOver
    BY <1>0, Recorded, BrokerMovesOn, HandedOver
  <1>2. Accounted(m) => Accounted(m)'
    BY <1>1 DEF RecordGrows, Accounted
  <1>3. ASSUME NEW r \in Replicas, NEW d \in batch[r] \cup {cur[r]}, d # NULL, d.msg = m
        PROVE  InHand(m, d.n) /\ d.n \in 1..MaxDeliver /\ d.n <= delivered[m]
    <2>1. d \in Deliveries /\ d.n <= delivered[m]
      BY <1>0, <1>3 DEF TypeOK, HandInv
    <2>2. d = [msg |-> m, n |-> d.n] /\ d.n \in 1..MaxDeliver
      BY <1>3, <2>1 DEF Deliveries
    <2> QED
      BY <2>1, <2>2 DEF InHand, Held
  <1>4. ASSUME ~Accounted(m), Accounted(m)'
        PROVE  \E n \in 1..MaxDeliver : InHand(m, n) /\ n <= delivered[m]
    <2>1. PICK r \in Replicas : \E d \in Held(r) : d # NULL /\ d.msg = m
      BY <1>1, <1>4 DEF RecordGrows, Accounted
    <2> QED
      BY <1>3, <2>1 DEF Held
  <1>5. CASE Fate(m) = "accounted"
    BY <1>2, <1>5 DEF Fate
  <1>6. CASE Fate(m) = "lost"
    <2>1. ~Accounted(m) /\ stream[m] = "dropped" /\ \A n \in 1..MaxDeliver : ~InHand(m, n)
      BY <1>6 DEF Fate
    <2>2. stream'[m] = "dropped" /\ ~Accounted(m)'
      BY <1>1, <1>4, <2>1 DEF BrokerForgets
    <2>3. ASSUME NEW n \in 1..MaxDeliver, InHand(m, n)' PROVE FALSE
      <3>1. PICK r \in Replicas : [msg |-> m, n |-> n] \in batch'[r] \cup {cur'[r]}
        BY <2>3 DEF InHand, Held
      <3>2. [msg |-> m, n |-> n] # NULL
        BY NullAssumption DEF Deliveries
      <3>3. [msg |-> m, n |-> n] \in batch[r] \cup {cur[r]}
        BY <1>1, <2>1, <3>1, <3>2 DEF HandsOver
      <3> QED
        BY <2>1, <3>3 DEF InHand, Held
    <2> QED
      BY <1>6, <2>2, <2>3 DEF Fate
  <1>7. CASE Fate(m) = "unpublished"
    <2>1. ~Accounted(m) /\ stream[m] = "unpublished" /\ delivered[m] = 0
      BY <1>0, <1>7 DEF Fate, FreshInv
    <2>2. ~Accounted(m)'
      BY <1>4, <2>1, BudgetAssumption
    <2>3. stream'[m] # "dropped"
      BY <1>1, <2>1 DEF BrokerForgets
    <2> QED
      BY <1>7, <2>2, <2>3 DEF Fate
  <1>8. CASE Fate(m) = "open"
    BY <1>1, <1>8 DEF Fate, BrokerForgets
  <1> QED
    BY <1>5, <1>6, <1>7, <1>8

\* A message is lost only where its last delivery came to nothing.
NoSilentLoss == \A m \in Msgs : Fate(m) = "lost" => m \in abandoned

LEMMA LossIsDisturbed == IInv => NoSilentLoss
  <1> SUFFICES ASSUME IInv, NEW m \in Msgs, Fate(m) = "lost"
               PROVE  m \in abandoned
    BY DEF NoSilentLoss
  <1>1. ~Accounted(m) /\ stream[m] = "dropped" /\ ~InHand(m, MaxDeliver)
    BY BudgetAssumption DEF Fate
  <1>2. delivered[m] = MaxDeliver
    BY <1>1 DEF IInv, BudgetInv
  <1> QED
    BY <1>1, <1>2 DEF IInv, LastDeliveryInv

\* What is settled was accounted for before the step, and stays settled.
LEMMA SettlementsStay ==
  ASSUME IInv, IInv', [Next]_vars, NEW m \in Msgs
  PROVE  /\ stream[m] = "settled" => stream'[m] = "settled"
         /\ stream'[m] = "settled" => Fate(m) = "accounted"
  <1>1. BrokerForgets /\ SettlesLater
    BY BrokerMovesOn, SettledAfter DEF IInv
  <1>2. stream[m] = "settled" => Accounted(m)
    BY DEF IInv, SettledIsAccounted
  <1>3. stream'[m] = "settled" => Accounted(m)'
    BY DEF IInv, SettledIsAccounted
  <1> QED
    BY <1>1, <1>2, <1>3 DEF BrokerForgets, SettlesLater, Fate, Accounted

\* A consumer starts as a fresh ledger.
LEMMA LedgerInit == Init => Ledger!Init
  <1> SUFFICES ASSUME Init PROVE Ledger!Init
    OBVIOUS
  <1>1. \A m \in Msgs : Fate(m) = "unpublished"
    BY DEF Init, Fate, Accounted
  <1>2. {m \in Msgs : stream[m] = "settled"} = {}
    BY DEF Init
  <1> QED
    BY <1>1, <1>2 DEF Init, Ledger!Init

\* A step of the consumer is a move of the ledger.
LEMMA LedgerMove ==
  ASSUME IInv, IInv', [Next]_vars
  PROVE  Ledger!Move
  <1>1. ASSUME NEW m \in Msgs PROVE Fate(m)' \in Ledger!Fates
    BY DEF Fate, Ledger!Fates
  <1>2. ASSUME NEW m \in Msgs, Fate(m)' # Fate(m) PROVE Fate(m)' \in Ledger!MayBecome(Fate(m))
    BY <1>2, FatesAreFinal DEF Fate, Ledger!MayBecome
  <1>3. NoSilentLoss'
    BY LossIsDisturbed, PTL
  <1>4. /\ {m \in Msgs : stream[m] = "settled"} \subseteq {m \in Msgs : stream'[m] = "settled"}
        /\ \A m \in {q \in Msgs : stream'[q] = "settled"} : Fate(m) = "accounted"
    BY SettlementsStay
  <1>5. abandoned \subseteq abandoned' /\ abandoned' \subseteq Msgs
    BY AbandonedStay DEF IInv, TypeOK
  <1> QED
    BY <1>1, <1>2, <1>3, <1>4, <1>5 DEF Ledger!Move, NoSilentLoss

\* The consumer delivers at least once or buries, as Delivery promises: nothing
\* is settled before it is accounted for, a fate is final, and nothing is lost
\* but what was lost with a fetch's answer or a killed process, or refused by the
\* DLQ, on its last delivery.
THEOREM DeliveryIsKept == Spec => DeliversAtLeastOnce
  <1>1. IInv /\ IInv' /\ [Next]_vars => [Ledger!Move]_Ledger!vars
    BY LedgerMove
  <1> QED
    BY LedgerInit, <1>1, Inductive, PTL DEF Spec, DeliversAtLeastOnce, Ledger!Spec
=============================================================================
