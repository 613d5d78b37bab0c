--------------------------- MODULE EnrichmentProofs ---------------------------
(***************************************************************************)
(* Proofs about Enrichment, for every docket, case base and set of jobs:   *)
(* one proposal per key, no fact slips through the overlapping windows,    *)
(* and the pipeline implements FactLedger.                                 *)
(***************************************************************************)
EXTENDS Enrichment, FiniteSetTheorems, TLAPS

\* A job that waits to be claimed has an attempt left.
Budgeted == \A j \in Jobs : job[j].at = "queued" => job[j].attempts < MaxAttempts

IInv == TypeOK /\ Budgeted /\ SlipInv

\* The keys of a fact are its own.
LEMMA KeysOfFacts ==
  ASSUME slug \in [Cases -> Slugs]
  PROVE  /\ \A k \in Keys : k[1] \in Facts
         /\ \A f \in Facts : Concerns(f) \subseteq Keys
         /\ \A f \in Facts : \A k \in Concerns(f) : k[1] = f
  <1>1. \A f \in Facts : \A c \in Matches[f] : slug[c] \in Slugs
    BY DEF Cases
  <1> QED
    BY <1>1 DEF Keys, Concerns, Concerning

LEMMA Bounds ==
  /\ Window \in Nat /\ MaxDeliver \in Nat /\ MaxAttempts \in Nat
  /\ MaxCrashes \in Nat /\ Limits \subseteq Nat
  /\ Window > 0 /\ MaxDeliver > 0 /\ MaxAttempts > 0
  BY BoundAssumption

\* The row taken for a new job is a free one.
LEMMA NewRowIsFree ==
  ASSUME NEW j \in Jobs, job[j] = Free
  PROVE  NewRow \in Jobs /\ job[NewRow] = Free
  BY DEF NewRow

LEMMA InitInv == Init => IInv
  <1> SUFFICES ASSUME Init PROVE IInv
    OBVIOUS
  <1>1. Free \in Job
    BY Bounds DEF Free, Job
  <1>2. <<>> \in Seq(Facts) /\ <<>> \in Seq({"pending", "decided"})
    OBVIOUS
  <1>3. job \in [Jobs -> Job] /\ proposals \in [Keys -> Seq({"pending", "decided"})]
    BY <1>1, <1>2 DEF Init
  <1>4. slug \in [Cases -> Slugs] /\ checked \subseteq matched
    BY SlugAssumption DEF Init
  <1>5. /\ age \in [Facts -> 0..Window] /\ excused \in [Facts -> 0..Window]
        /\ tries \in [Facts -> 0..(MaxDeliver - 1)] /\ crashes \in 0..MaxCrashes
    BY Bounds DEF Init
  <1>6. TypeOK
    BY <1>2, <1>3, <1>4, <1>5 DEF Init, TypeOK
  <1>7. Budgeted /\ SlipInv
    BY Bounds DEF Init, Budgeted, Free, SlipInv
  <1> QED
    BY <1>6, <1>7 DEF IInv

\* Giving a job a new row that is well typed and within its budget is all a
\* step has to do.
LEMMA JobStep ==
  ASSUME TypeOK, Budgeted, NEW j \in Jobs, NEW new \in Job,
         new.at = "queued" => new.attempts < MaxAttempts,
         job' = [job EXCEPT ![j] = new]
  PROVE  job' \in [Jobs -> Job] /\ Budgeted'
  BY DEF TypeOK, Budgeted

\* A job that moves on keeps its key.
LEMMA JobMoves ==
  ASSUME TypeOK, NEW j \in Jobs, NEW at \in {"queued", "running", "answered", "saving"}
  PROVE  LET new == [job[j] EXCEPT !.at = at] IN
         new \in Job /\ new.at = at /\ new.attempts = job[j].attempts
  BY DEF TypeOK, Job

LEMMA JobClaimed ==
  ASSUME NEW x \in Job, x.attempts < MaxAttempts
  PROVE  LET new == [x EXCEPT !.at = "running", !.attempts = @ + 1] IN
         new \in Job /\ new.at = "running"
  <1>1. x.attempts \in 0..MaxAttempts /\ x.key \in Keys \cup {NULL}
    BY DEF Job
  <1>2. x.attempts + 1 \in 0..MaxAttempts
    BY <1>1, Bounds
  <1>3. PICK n \in 0..MaxAttempts : n = x.attempts + 1
    BY <1>2
  <1>4. [x EXCEPT !.at = "running", !.attempts = n] \in Job
    BY <1>3 DEF Job
  <1> QED
    BY <1>3, <1>4 DEF Job

LEMMA JobAnswered ==
  ASSUME NEW x \in Job
  PROVE  LET new == [x EXCEPT !.at = "answered", !.attempts = 0] IN
         new \in Job /\ new.at = "answered"
  <1>1. 0 \in 0..MaxAttempts
    BY Bounds
  <1> QED
    BY <1>1 DEF Job

\* A delivery that is not the last one leaves another.
LEMMA DeliveryLeft ==
  ASSUME NEW n \in 0..(MaxDeliver - 1), n + 1 # MaxDeliver
  PROVE  n + 1 \in 0..(MaxDeliver - 1)
  BY Bounds

LEMMA FreeIsJob == Free \in Job /\ Free.at = "free"
  BY Bounds DEF Free, Job

\* A run of the producer makes a row older by one, and at most as often excuses it.
LEMMA RunCounts ==
  ASSUME TypeOK, SlipInv, NEW limit \in Limits, NEW sent \in SUBSET Facts,
         PublishWindow(limit, sent)
  PROVE  age' \in [Facts -> 0..Window] /\ excused' \in [Facts -> 0..Window]
  <1>1. \A f \in Facts : age[f] \in 0..Window /\ excused[f] \in 0..Window
    BY DEF TypeOK
  <1>2. \A f \in Young : age[f] + 1 \in 0..Window
    BY <1>1, Bounds DEF Young, TypeOK
  <1>3. ASSUME NEW f \in Facts, f \in Young, f \notin emitted' PROVE excused[f] + 1 \in 0..Window
    <2>1. f \notin emitted
      BY <1>3 DEF PublishWindow
    <2> QED
      BY <1>2, <1>3, <2>1 DEF SlipInv
  <1>4. age' \in [Facts -> 0..Window]
    BY <1>1, <1>2 DEF PublishWindow
  <1>5. excused' \in [Facts -> 0..Window]
    BY <1>1, <1>3, Bounds DEF PublishWindow
  <1> QED
    BY <1>4, <1>5

\* A run examines its window from the oldest row on: a row that it does not reach
\* has as many before it as the run examines.
LEMMA RunExcuses ==
  ASSUME TypeOK, NEW limit \in Limits, NEW f \in Young, NEW sent, f \notin sent
  PROVE  Excused(f, limit, sent)
  <1>1. PICK i \in DOMAIN docket : docket[i] = f /\ age[docket[i]] < Window
    BY DEF Young
  <1> DEFINE ahead == {h \in DOMAIN docket : h < i /\ age[docket[h]] < Window}
  <1>2. CASE f \in Scanned(limit)
    BY <1>2 DEF Excused
  <1>3. CASE f \notin Scanned(limit)
    <2>1. i \in InTheWindow /\ i \notin Selected(limit)
      BY <1>1, <1>3 DEF InTheWindow, InWindow, Scanned
    <2>2. {h \in InTheWindow : h < i} = ahead
      BY DEF InTheWindow, InWindow
    <2>3. ~(Cardinality(ahead) < limit)
      BY <2>1, <2>2 DEF Selected
    <2>4. docket \in Seq(Facts) /\ DOMAIN docket = 1..Len(docket) /\ Len(docket) \in Nat
      BY DEF TypeOK
    <2>5. IsFiniteSet(1..Len(docket)) /\ ahead \subseteq 1..Len(docket)
      BY <2>4, FS_Interval
    <2>6. Cardinality(ahead) \in Nat
      BY <2>5, FS_Subset, FS_CardinalityType
    <2>7. Cardinality(ahead) >= limit
      <3> HIDE DEF ahead
      <3> QED
        BY <2>3, <2>6, Bounds
    <2> QED
      BY <1>1, <2>7 DEF Excused
  <1> QED
    BY <1>2, <1>3

\* A row that is not published is excused by each of its runs.
LEMMA RunSlips ==
  ASSUME TypeOK, SlipInv, NEW limit \in Limits, NEW sent \in SUBSET Facts,
         PublishWindow(limit, sent)
  PROVE  SlipInv'
  <1> SUFFICES ASSUME NEW f \in Facts, f \notin emitted' PROVE excused'[f] = age'[f]
    BY DEF SlipInv
  <1>1. f \notin emitted /\ f \notin sent /\ excused[f] = age[f]
    BY DEF PublishWindow, SlipInv
  <1>2. f \in Young => Excused(f, limit, sent)
    BY <1>1, RunExcuses
  <1> QED
    BY <1>1, <1>2 DEF PublishWindow

\* Every step preserves the invariant.
LEMMA NextInv == IInv /\ [Next]_vars => IInv'
  <1> SUFFICES ASSUME IInv, [Next]_vars PROVE IInv'
    OBVIOUS
  <1>0. /\ \A k \in Keys : k[1] \in Facts
        /\ \A f \in Facts : Concerns(f) \subseteq Keys
        /\ \A f \in Facts : \A k \in Concerns(f) : k[1] = f
    BY KeysOfFacts DEF IInv, TypeOK
  <1>15. UNCHANGED <<age, emitted, excused>> => SlipInv'
    BY DEF IInv, SlipInv
  <1> USE Bounds DEF IInv, TypeOK, Budgeted, sourceVars, busVars, jobVars
  <1>1. ASSUME NEW f \in Facts, Scrape(f) PROVE IInv'
    BY <1>1, <1>15 DEF Scrape
  <1>2. ASSUME NEW limit \in Limits, NEW sent \in SUBSET Facts, PublishWindow(limit, sent)
        PROVE  IInv'
    <2>1. age' \in [Facts -> 0..Window] /\ excused' \in [Facts -> 0..Window] /\ SlipInv'
      BY <1>2, RunCounts, RunSlips
    <2>2. emitted' \subseteq Facts /\ signals' \subseteq Facts
      BY <1>2 DEF PublishWindow
    <2> QED
      BY <1>2, <2>1, <2>2 DEF PublishWindow
  <1>14. ASSUME NEW c \in Cases, NEW t \in Slugs, Rename(c, t) PROVE IInv'
    <2>1. slug' \in [Cases -> Slugs]
      BY <1>14 DEF Rename
    <2>2. crashes' \in 0..MaxCrashes
      BY <1>14 DEF Rename
    <2> QED
      BY <1>14, <1>15, <2>1, <2>2 DEF Rename
  <1>3. ASSUME NEW f \in Facts, NEW sent \in SUBSET Concerns(f), Match(f, sent) PROVE IInv'
    BY <1>0, <1>3, <1>15 DEF Match
  <1>4. ASSUME NEW f \in Facts, NEW sent \in SUBSET Concerns(f), MatchFails(f, sent) PROVE IInv'
    <2>1. tries[f] \in 0..(MaxDeliver - 1)
      OBVIOUS
    <2>2. matched' \subseteq Keys /\ checked' \subseteq matched' /\ signals' \subseteq Facts
      BY <1>0, <1>4 DEF MatchFails
    <2>3. tries' \in [Facts -> 0..(MaxDeliver - 1)]
      <3>1. CASE tries' = [tries EXCEPT ![f] = 0]
        <4>1. 0 \in 0..(MaxDeliver - 1)
          OBVIOUS
        <4> QED
          BY <3>1, <4>1
      <3>2. CASE tries[f] + 1 # MaxDeliver /\ tries' = [tries EXCEPT ![f] = tries[f] + 1]
        <4>1. tries[f] + 1 \in 0..(MaxDeliver - 1)
          BY <2>1, <3>2, DeliveryLeft
        <4> QED
          BY <3>2, <4>1
      <3>3. tries[f] + 1 < MaxDeliver => tries[f] + 1 # MaxDeliver
        BY <2>1
      <3> QED
        BY <1>4, <3>1, <3>2, <3>3 DEF MatchFails
    <2>4. record' \in [Keys -> {"none", "closed", "lost"}]
      <3>1. CASE UNCHANGED record
        BY <3>1
      <3>2. ASSUME NEW why \in {"closed", "lost"},
                   record' = [k \in Keys |-> IF k \in Concerns(f) THEN why ELSE record[k]]
            PROVE  record' \in [Keys -> {"none", "closed", "lost"}]
        BY <3>2
      <3> QED
        BY <1>4, <3>1, <3>2 DEF MatchFails
    <2>5. crashes' \in 0..MaxCrashes
      <3>1. crashes' = crashes \/ (crashes' = crashes + 1 /\ crashes' <= MaxCrashes)
        BY <1>4 DEF MatchFails
      <3>2. crashes \in 0..MaxCrashes
        OBVIOUS
      <3> QED
        BY <3>1, <3>2
    <2> QED
      BY <1>4, <1>15, <2>2, <2>3, <2>4, <2>5 DEF MatchFails
  <1>5. ASSUME NEW k \in Keys, BuilderChecks(k) \/ BuilderFails(k) PROVE IInv'
    <2>1. CASE BuilderChecks(k)
      BY <2>1, <1>15 DEF BuilderChecks
    <2>2. CASE BuilderFails(k)
      <3>1. crashes' \in 0..MaxCrashes
        BY <2>2 DEF BuilderFails
      <3>2. record' \in [Keys -> {"none", "closed", "lost"}]
        BY <2>2 DEF BuilderFails
      <3>3. matched' \subseteq Keys /\ checked' \subseteq matched'
        BY <2>2 DEF BuilderFails
      <3> QED
        BY <2>2, <1>15, <3>1, <3>2, <3>3 DEF BuilderFails
    <2> QED
      BY <1>5, <2>1, <2>2
  <1>6. ASSUME NEW k \in Keys, BuilderEnqueues(k) PROVE IInv'
    <2>1. CASE UNCHANGED job
      BY <1>6, <1>15, <2>1 DEF BuilderEnqueues
    <2>2. CASE ~Active(k) /\ ~UNCHANGED job
      <3> DEFINE new == [key |-> k, at |-> "queued", attempts |-> 0]
      <3>1. NewRow \in Jobs /\ job' = [job EXCEPT ![NewRow] = new]
        BY <1>6, <2>2, NewRowIsFree DEF BuilderEnqueues
      <3>2. new \in Job /\ new.attempts < MaxAttempts
        BY DEF Job
      <3>3. job' \in [Jobs -> Job] /\ Budgeted'
        BY <3>1, <3>2, JobStep
      <3> QED
        BY <1>6, <1>15, <3>3 DEF BuilderEnqueues
    <2> QED
      BY <1>6, <2>1, <2>2 DEF BuilderEnqueues, Active
  <1>7. ASSUME NEW j \in Jobs, Claim(j) PROVE IInv'
    <2> DEFINE new == [job[j] EXCEPT !.at = "running", !.attempts = @ + 1]
    <2>1. job[j] \in Job /\ job[j].attempts < MaxAttempts
      BY <1>7 DEF Claim
    <2>2. new \in Job /\ new.at = "running"
      BY <2>1, JobClaimed
    <2>3. job' = [job EXCEPT ![j] = new]
      BY <1>7 DEF Claim
    <2> HIDE DEF new
    <2>4. job' \in [Jobs -> Job] /\ Budgeted'
      BY <2>2, <2>3, JobStep
    <2> QED
      BY <1>7, <1>15, <2>4 DEF Claim
  <1>8. ASSUME NEW j \in Jobs,
               AttemptFails(j) \/ Answer(j) \/ Decline(j) \/ HookChecks(j) \/ HookSaves(j) \/ HookDies(j)
        PROVE  job' \in [Jobs -> Job] /\ Budgeted'
    <2>1. CASE job' = [job EXCEPT ![j] = Free]
      BY <2>1, JobStep, FreeIsJob
    <2>2. ASSUME NEW at \in {"queued", "running", "answered", "saving"},
                 at = "queued" => job[j].attempts < MaxAttempts,
                 job' = [job EXCEPT ![j].at = at]
          PROVE  job' \in [Jobs -> Job] /\ Budgeted'
      BY <2>2, JobMoves, JobStep
    <2>3. CASE Answer(j)
      <3> DEFINE new == [job[j] EXCEPT !.at = "answered", !.attempts = 0]
      <3>1. new \in Job /\ new.at = "answered"
        <4>1. job[j] \in Job
          OBVIOUS
        <4> QED
          BY <4>1, JobAnswered
      <3>2. job' = [job EXCEPT ![j] = new]
        BY <2>3 DEF Answer
      <3> HIDE DEF new
      <3> QED
        BY <3>1, <3>2, JobStep
    <2> QED
      BY <1>8, <2>1, <2>2, <2>3
      DEF AttemptFails, HasBudget, Decline, HookChecks, HookSaves, HookDies
  <1>9. ASSUME NEW j \in Jobs, AttemptFails(j) \/ Answer(j) \/ Decline(j) \/ HookChecks(j)
        PROVE  IInv'
    <2>1. record' \in [Keys -> {"none", "closed", "lost"}]
      BY <1>9 DEF AttemptFails, Answer, Decline, HookChecks
    <2> QED
      BY <1>8, <1>9, <1>15, <2>1 DEF AttemptFails, Answer, Decline, HookChecks
  <1>10. ASSUME NEW j \in Jobs, HookSaves(j) PROVE IInv'
    <2>1. proposals' \in [Keys -> Seq({"pending", "decided"})]
      <3>1. CASE UNCHANGED proposals
        BY <3>1
      <3>2. CASE job[j].key \in Keys
                 /\ proposals' = [proposals EXCEPT ![job[j].key] = Append(@, "pending")]
        BY <3>2
      <3>3. CASE job[j].key \notin Keys
        BY <1>10, <3>3 DEF HookSaves
      <3> QED
        BY <1>10, <3>1, <3>2, <3>3 DEF HookSaves
    <2> QED
      BY <1>8, <1>10, <1>15, <2>1 DEF HookSaves
  <1>11. ASSUME NEW j \in Jobs, HookDies(j) PROVE IInv'
    <2>1. record' \in [Keys -> {"none", "closed", "lost"}]
      BY <1>11 DEF HookDies
    <2>2. crashes' \in 0..MaxCrashes
      BY <1>11 DEF HookDies
    <2> QED
      BY <1>8, <1>11, <1>15, <2>1, <2>2 DEF HookDies
  <1>12. ASSUME NEW k \in Keys, NEW i \in DOMAIN proposals[k], Decide(k, i)
         PROVE  IInv'
    BY <1>12, <1>15 DEF Decide
  <1>13. CASE UNCHANGED vars
    BY <1>13, <1>15 DEF vars
  <1> QED
    BY <1>1, <1>2, <1>3, <1>4, <1>5, <1>6, <1>7, <1>9, <1>10, <1>11, <1>12, <1>13, <1>14
    DEF Next, Processing

\* The invariant that every other result rests on.
LEMMA Invariant == Spec => []IInv
  BY InitInv, NextInv, PTL DEF Spec

\* Every variable of the pipeline keeps its type: the producer's ages, the
\* deliveries of a signal and the attempts of a job stay within their bounds.
THEOREM TypeCorrect == Spec => []TypeOK
  BY Invariant, PTL DEF IInv

\* The unique key of a proposal makes the two checks before it, in the builder
\* and in on_result, only an economy.
THEOREM OneProposal == Spec => []OneProposalPerKey
  <1>1. Init => OneProposalPerKey
    BY DEF Init, OneProposalPerKey
  <1>2. IInv /\ OneProposalPerKey /\ [Next]_vars => OneProposalPerKey'
    <2> SUFFICES ASSUME IInv, OneProposalPerKey, [Next]_vars PROVE OneProposalPerKey'
      OBVIOUS
    <2> USE DEF OneProposalPerKey, IInv, TypeOK
    <2>1. ASSUME NEW j \in Jobs, HookSaves(j) PROVE OneProposalPerKey'
      BY <2>1 DEF HookSaves, Unstaged
    <2>2. ASSUME NEW k \in Keys, NEW i \in DOMAIN proposals[k], Decide(k, i)
          PROVE  OneProposalPerKey'
      <3>1. Len([proposals[k] EXCEPT ![i] = "decided"]) = Len(proposals[k])
        OBVIOUS
      <3> QED
        BY <2>2, <3>1 DEF Decide
    <2>3. CASE UNCHANGED proposals
      BY <2>3
    <2> QED
      BY <2>1, <2>2, <2>3
      DEF Next, Processing, Scrape, PublishWindow, Rename, Match, MatchFails, BuilderChecks,
          BuilderEnqueues, BuilderFails, Claim, AttemptFails, Answer, Decline, HookChecks, HookDies, vars
  <1> QED
    BY <1>1, <1>2, Invariant, PTL DEF Spec

\* The overlapping windows of the producer: a docket row that has left the window
\* unpublished could not be published by any of the runs it was in the window for.
THEOREM NoFactIsMissed == Spec => []NoFactSlipsThrough
  <1>1. IInv => NoFactSlipsThrough
    BY Bounds DEF IInv, TypeOK, SlipInv, NoFactSlipsThrough
  <1> QED
    BY <1>1, Invariant, PTL

\* What a step does to a fact that has no proposal: it may not touch the record
\* of one that is not under way, nor let one go without a record.
Accounted(k) ==
  /\ ~UnderWay(k) => record'[k] = record[k]
  /\ UnderWay(k) => UnderWay(k)' \/ record'[k] \in {"closed", "lost"}

LEMMA BusAccounts ==
  ASSUME IInv, NEW k \in Keys,
         \/ \E f \in Facts : Scrape(f)
         \/ \E limit \in Limits, sent \in SUBSET Facts : PublishWindow(limit, sent)
         \/ \E f \in Facts : \E sent \in SUBSET Concerns(f) : Match(f, sent) \/ MatchFails(f, sent)
  PROVE  Accounted(k) /\ proposals' = proposals
  <1>0. \A f \in Facts : \A m \in Concerns(f) : m[1] = f
    BY KeysOfFacts DEF IInv, TypeOK
  <1>1. slug' = slug /\ job' = job /\ proposals' = proposals
    BY DEF Scrape, PublishWindow, Match, MatchFails, jobVars, sourceVars
  <1>2. Concerns(k[1])' = Concerns(k[1])
    BY <1>1 DEF Concerns
  <1> USE <1>0, <1>1, <1>2 DEF Accounted, UnderWay
  <1>3. ASSUME NEW f \in Facts, Scrape(f) PROVE Accounted(k)
    BY <1>3 DEF Scrape, busVars
  <1>4. ASSUME NEW limit \in Limits, NEW sent \in SUBSET Facts, PublishWindow(limit, sent)
        PROVE  Accounted(k)
    BY <1>4 DEF PublishWindow
  <1>5. ASSUME NEW f \in Facts, NEW sent \in SUBSET Concerns(f), Match(f, sent)
        PROVE  Accounted(k)
    BY <1>5 DEF Match
  <1>6. ASSUME NEW f \in Facts, NEW sent \in SUBSET Concerns(f), MatchFails(f, sent)
        PROVE  Accounted(k)
    <2>1. matched \subseteq matched' /\ matched' \subseteq matched \cup Concerns(f)
      BY <1>6 DEF MatchFails
    <2>2. CASE UNCHANGED <<signals, record>>
      BY <1>6, <2>1, <2>2 DEF MatchFails
    <2>3. ASSUME NEW why \in {"closed", "lost"}, signals' = signals \ {f},
                 record' = [m \in Keys |-> IF m \in Concerns(f) THEN why ELSE record[m]]
          PROVE  Accounted(k)
      <3>1. CASE k \in Concerns(f)
        BY <1>6, <2>3, <3>1 DEF MatchFails
      <3>2. CASE k \notin Concerns(f)
        BY <2>1, <2>3, <3>2
      <3> QED
        BY <3>1, <3>2
    <2> QED
      BY <1>6, <2>2, <2>3 DEF MatchFails
  <1> QED
    BY <1>3, <1>4, <1>5, <1>6

LEMMA BuilderAccounts ==
  ASSUME IInv, NEW k \in Keys, ~AlreadyStaged(k), NEW m \in Keys,
         BuilderChecks(m) \/ BuilderEnqueues(m) \/ BuilderFails(m)
  PROVE  Accounted(k) /\ proposals' = proposals
  <1>0. Concerns(k[1])' = Concerns(k[1])
    BY DEF BuilderChecks, BuilderEnqueues, BuilderFails, Concerns, sourceVars
  <1> USE <1>0 DEF IInv, TypeOK, Accounted, UnderWay, sourceVars, jobVars
  <1>1. CASE BuilderChecks(m)
    BY <1>1 DEF BuilderChecks
  <1>2. CASE BuilderEnqueues(m)
    <2>1. \A j \in Jobs : job[j].key = k => \E i \in Jobs : job'[i].key = k
      <3>1. CASE UNCHANGED job
        BY <3>1
      <3>2. CASE ~UNCHANGED job
        <4>1. /\ NewRow \in Jobs /\ job[NewRow].key = NULL
              /\ \A j \in Jobs : j # NewRow => job'[j] = job[j]
          BY <1>2, <3>2, NewRowIsFree DEF BuilderEnqueues, Free
        <4> QED
          BY <4>1, NullAssumption
      <3> QED
        BY <3>1, <3>2
    <2>2. m \in matched => \E i \in Jobs : job'[i].key = m
      <3>1. CASE Active(m)
        BY <1>2, <3>1 DEF BuilderEnqueues, Active
      <3>2. CASE ~Active(m)
        <4>1. NewRow \in Jobs /\ job'[NewRow].key = m
          BY <1>2, <3>2, NewRowIsFree DEF BuilderEnqueues
        <4> QED
          BY <4>1
      <3> QED
        BY <3>1, <3>2
    <2>3. ~UnderWay(k) => record'[k] = record[k]
      BY <1>2 DEF BuilderEnqueues
    <2> QED
      BY <1>2, <2>1, <2>2, <2>3 DEF BuilderEnqueues
  <1>3. CASE BuilderFails(m)
    BY <1>3 DEF BuilderFails
  <1> QED
    BY <1>1, <1>2, <1>3

LEMMA JobAccounts ==
  ASSUME IInv, NEW k \in Keys, ~AlreadyStaged(k), NEW j \in Jobs,
         Claim(j) \/ AttemptFails(j) \/ Answer(j) \/ Decline(j) \/ HookChecks(j) \/ HookDies(j)
  PROVE  Accounted(k) /\ proposals' = proposals
  <1>0. Concerns(k[1])' = Concerns(k[1])
    BY DEF Claim, AttemptFails, Answer, Decline, HookChecks, HookDies, Concerns, sourceVars
  <1> USE <1>0 DEF IInv, TypeOK, sourceVars, busVars
  <1>1. \A i \in Jobs : i # j => job'[i] = job[i]
    BY DEF Claim, AttemptFails, Answer, Decline, HookChecks, HookDies
  <1>2. job[j].key # k => Accounted(k)
    <2>1. job[j].key # k => record'[k] = record[k]
      BY DEF Claim, AttemptFails, Answer, Decline, HookChecks, HookDies
    <2> QED
      BY <1>1, <2>1 DEF Accounted, UnderWay, Claim, AttemptFails, Answer, Decline, HookChecks, HookDies
  <1>3. ASSUME job[j].key = k PROVE job'[j].key = k \/ record'[k] \in {"closed", "lost"}
    <2>1. CASE Claim(j) \/ Answer(j)
      BY <1>3, <2>1 DEF Claim, Answer, Job
    <2>2. CASE AttemptFails(j)
      BY <1>3, <2>2 DEF AttemptFails, Job
    <2>3. CASE Decline(j) \/ HookDies(j)
      BY <1>3, <2>3 DEF Decline, HookDies
    <2>4. CASE HookChecks(j)
      BY <1>3, <2>4 DEF HookChecks, Job
    <2> QED
      BY <2>1, <2>2, <2>3, <2>4
  <1>4. job[j].key = k => Accounted(k)
    BY <1>3 DEF Accounted, UnderWay
  <1> QED
    BY <1>2, <1>4 DEF Claim, AttemptFails, Answer, Decline, HookChecks, HookDies

\* Where a fact stands moves as the ledger says.
LEMMA KeyMoves ==
  ASSUME IInv, [Next]_vars, NEW k \in Keys, UNCHANGED slug
  PROVE  /\ Standing(k)' \in Ledger!Standing
         /\ Standing(k)' # Standing(k) => Standing(k)' \in Ledger!MayBecome(Standing(k))
  <1>0. Concerns(k[1])' = Concerns(k[1])
    BY DEF Concerns
  <1> USE <1>0 DEF IInv, TypeOK
  <1>1. IInv'
    BY NextInv
  <1>2. Standing(k)' \in Ledger!Standing
    BY <1>1 DEF Standing, Ledger!Standing, Ledger!Undecided, Ledger!Proposed, AlreadyStaged
  <1>3. ASSUME ~AlreadyStaged(k), Accounted(k), proposals' = proposals
        PROVE  Standing(k)' # Standing(k) => Standing(k)' \in Ledger!MayBecome(Standing(k))
    <2>1. CASE UnderWay(k)
      BY <1>3, <2>1 DEF Accounted, Standing, AlreadyStaged, Ledger!MayBecome
    <2>2. CASE ~UnderWay(k)
      BY <1>3, <2>2 DEF Accounted, Standing, AlreadyStaged, Ledger!MayBecome
    <2> QED
      BY <2>1, <2>2
  <1>4. ASSUME NEW j \in Jobs, HookSaves(j)
        PROVE  Standing(k)' # Standing(k) => Standing(k)' \in Ledger!MayBecome(Standing(k))
    <2>1. CASE job[j].key = k
      <3>1. CASE AlreadyStaged(k)
        <4>1. proposals' = proposals
          BY <1>4, <2>1, <3>1 DEF HookSaves, Unstaged, AlreadyStaged
        <4> QED
          BY <3>1, <4>1 DEF Standing, AlreadyStaged
      <3>2. CASE ~AlreadyStaged(k)
        <4>1. Standing(k) = "open"
          BY <2>1, <3>2 DEF Standing, UnderWay
        <4>2. proposals'[k] = Append(<<>>, "pending")
          BY <1>4, <2>1, <3>2 DEF HookSaves, Unstaged, AlreadyStaged
        <4>3. Standing(k)' = "pending"
          BY <4>2 DEF Standing, AlreadyStaged
        <4> QED
          BY <4>1, <4>3 DEF Ledger!MayBecome
      <3> QED
        BY <3>1, <3>2
    <2>2. CASE job[j].key # k
      <3>1. proposals'[k] = proposals[k]
        BY <1>4, <2>2 DEF HookSaves
      <3>2. UnderWay(k)' = UnderWay(k) /\ record' = record
        BY <1>4, <2>2, NullAssumption DEF HookSaves, UnderWay, Free, sourceVars, busVars
      <3> QED
        BY <3>1, <3>2 DEF Standing, AlreadyStaged
    <2> QED
      BY <2>1, <2>2
  <1>5. ASSUME NEW m \in Keys, NEW i \in DOMAIN proposals[m], Decide(m, i)
        PROVE  Standing(k)' # Standing(k) => Standing(k)' \in Ledger!MayBecome(Standing(k))
    <2>1. UnderWay(k)' = UnderWay(k) /\ record' = record
      BY <1>5 DEF Decide, UnderWay, sourceVars, busVars, jobVars
    <2>2. AlreadyStaged(k)' = AlreadyStaged(k)
      BY <1>5 DEF Decide, AlreadyStaged
    <2>3. AlreadyStaged(k) => \/ proposals'[k][1] = proposals[k][1]
                              \/ proposals[k][1] = "pending" /\ proposals'[k][1] = "decided"
      BY <1>5 DEF Decide, AlreadyStaged
    <2> QED
      BY <2>1, <2>2, <2>3 DEF Standing, Ledger!MayBecome
  <1>6. ASSUME AlreadyStaged(k), UNCHANGED proposals
        PROVE  Standing(k)' = Standing(k)
    BY <1>6 DEF Standing, AlreadyStaged
  <1>7. UNCHANGED vars => Standing(k)' = Standing(k)
    <2> SUFFICES ASSUME UNCHANGED vars PROVE Standing(k)' = Standing(k)
      OBVIOUS
    <2>1. UnderWay(k)' = UnderWay(k)
      BY DEF vars, sourceVars, busVars, jobVars, UnderWay
    <2>2. proposals' = proposals /\ record' = record
      BY DEF vars
    <2> QED
      BY <2>1, <2>2 DEF Standing, AlreadyStaged
  <1>10. \A c \in Cases, s \in Slugs : ~Rename(c, s)
    BY DEF Rename
  <1>8. ASSUME UNCHANGED proposals
        PROVE  Standing(k)' # Standing(k) => Standing(k)' \in Ledger!MayBecome(Standing(k))
    <2>1. CASE AlreadyStaged(k)
      BY <1>6, <1>8, <2>1
    <2>2. CASE ~AlreadyStaged(k) /\ ~UNCHANGED vars
      <3>1. CASE \E j \in Jobs : HookSaves(j)
        BY <1>4, <3>1
      <3>2. CASE \E m \in Keys : \E i \in DOMAIN proposals[m] : Decide(m, i)
        BY <1>5, <3>2
      <3>3. CASE ~\E j \in Jobs : HookSaves(j)
        BY <1>3, <2>2, <3>2, <3>3, <1>10, BusAccounts, BuilderAccounts, JobAccounts
          DEF Next, Processing
      <3> QED
        BY <3>1, <3>3
    <2> QED
      BY <1>7, <2>1, <2>2
  <1>9. \/ UNCHANGED proposals
        \/ \E j \in Jobs : HookSaves(j)
        \/ \E m \in Keys : \E i \in DOMAIN proposals[m] : Decide(m, i)
    BY DEF Next, Processing, Scrape, PublishWindow, Rename, Match, MatchFails, BuilderChecks,
           BuilderEnqueues, BuilderFails, Claim, AttemptFails, Answer, Decline, HookChecks, HookDies, vars
  <1> QED
    BY <1>2, <1>4, <1>5, <1>8, <1>9

\* A fact whose case gets another slug goes on under it, unless it goes on under
\* the one it had.
LEMMA RenameMoves ==
  ASSUME IInv, NEW c \in Cases, NEW s \in Slugs, Rename(c, s), NEW k \in Keys
  PROVE  /\ Standing(k)' # Standing(k) => {Standing(k), Standing(k)'} \subseteq Ledger!Undecided
         /\ Standing(k) = "open" /\ Standing(k)' # "open"
              => /\ slug[c] = k[2]
                 /\ Standing(<<k[1], s>>)' \in {"open"} \cup Ledger!Proposed
  <1> USE DEF IInv, TypeOK
  <1>1. /\ proposals' = proposals /\ record' = record /\ job' = job
        /\ signals' = signals /\ matched' = matched
        /\ slug' = [slug EXCEPT ![c] = s] /\ slug'[c] = s
    BY DEF Rename, busVars
  <1>2. \A m \in Keys : AlreadyStaged(m)' = AlreadyStaged(m)
    BY <1>1 DEF AlreadyStaged
  <1>3. AlreadyStaged(k) => Standing(k)' = Standing(k)
    BY <1>1, <1>2 DEF Standing
  <1>4. ~AlreadyStaged(k) => {Standing(k), Standing(k)'} \subseteq Ledger!Undecided
    BY <1>1, <1>2 DEF Standing, Ledger!Undecided
  <1>5. ASSUME Standing(k) = "open", Standing(k)' # "open"
        PROVE  slug[c] = k[2] /\ Standing(<<k[1], s>>)' \in {"open"} \cup Ledger!Proposed
    <2>1. ~AlreadyStaged(k) /\ UnderWay(k) /\ ~UnderWay(k)'
      <3>1. AlreadyStaged(k) => proposals[k][1] \in {"pending", "decided"}
        BY DEF AlreadyStaged
      <3> QED
        BY <1>1, <1>2, <1>5, <3>1 DEF Standing
    <2>2. k[1] \in signals /\ k \in Concerns(k[1]) /\ k \notin Concerns(k[1])'
      BY <1>1, <2>1 DEF UnderWay
    <2>3. k[1] \in Concerning /\ \E d \in Matches[k[1]] : k = <<k[1], slug[d]>>
      BY <2>2 DEF Concerns
    <2>4. PICK d \in Matches[k[1]] : k = <<k[1], slug[d]>>
      BY <2>3
    <2>5. d \in Cases /\ k[2] = slug[d]
      BY <2>3, <2>4 DEF Cases, Concerning
    <2>6. slug'[d] # slug[d]
      BY <2>2, <2>3, <2>4 DEF Concerns
    <2>7. d = c
      BY <1>1, <2>5, <2>6
    <2>8. <<k[1], s>> \in Keys /\ <<k[1], s>>[1] = k[1]
      BY <2>3 DEF Keys
    <2>9. <<k[1], s>> \in Concerns(k[1])'
      BY <1>1, <2>3, <2>4, <2>7 DEF Concerns
    <2>10. UnderWay(<<k[1], s>>)'
      BY <1>1, <2>2, <2>8, <2>9 DEF UnderWay
    <2>11. AlreadyStaged(<<k[1], s>>) => proposals[<<k[1], s>>][1] \in {"pending", "decided"}
      BY <2>8 DEF AlreadyStaged
    <2>12. Standing(<<k[1], s>>)' \in {"open"} \cup Ledger!Proposed
      BY <1>1, <1>2, <2>8, <2>10, <2>11 DEF Standing, Ledger!Proposed
    <2> QED
      BY <2>5, <2>7, <2>12
  <1> QED
    BY <1>1, <1>3, <1>4, <1>5

\* The producer, the two handlers, the queue and the hook implement FactLedger:
\* under the slug its case has, a fact on the bus is lost to a counted fault only,
\* it is proposed once, and what a caseworker decided is final however often the
\* fact is seen again; another slug is another key.
THEOREM PipelineKeepsTheLedger == Spec => KeepsTheLedger
  <1> DEFINE ledger == [k \in Keys |-> Standing(k)]
  <1>1. Init => Ledger!Init
    <2> SUFFICES ASSUME Init PROVE \A k \in Keys : Standing(k) = "unseen"
      BY SlugAssumption DEF Init, Ledger!Init, Ledger!Keys, Keys
    <2> QED
      BY NullAssumption DEF Init, Standing, AlreadyStaged, UnderWay, Free
  <1>2. ASSUME IInv, [Next]_vars
        PROVE  [Ledger!Move \/ \E c \in Cases : Ledger!Rename(c)]_<<ledger, slug>>
    <2>0. ledger' = [k \in Keys |-> Standing(k)'] /\ Ledger!Keys = Keys
      BY DEF Ledger!Keys, Keys
    <2>1. CASE UNCHANGED slug
      BY <1>2, <2>0, <2>1, KeyMoves DEF Ledger!Move
    <2>2. ASSUME NEW c \in Cases, NEW s \in Slugs, Rename(c, s) PROVE Ledger!Rename(c)
      <3>1. IInv'
        BY <1>2, NextInv
      <3>2. slug' \in [Cases -> Slugs] /\ slug'[c] = s
        BY <1>2, <2>2 DEF Rename, IInv, TypeOK
      <3>3. \A k \in Keys : Standing(k)' \in Ledger!Standing
        BY <3>1 DEF Standing, Ledger!Standing, Ledger!Undecided, Ledger!Proposed, AlreadyStaged, IInv, TypeOK
      <3>4. \A k \in Keys : <<k[1], s>> \in Keys
        BY DEF Keys
      <3>5. \A k \in Keys : ledger[k] = "open" /\ ledger'[k] # "open"
              => slug[c] = k[2] /\ ledger'[<<k[1], slug'[c]>>] \in {"open"} \cup Ledger!Proposed
        BY <1>2, <2>0, <2>2, <3>2, <3>4, RenameMoves
      <3>6. \A k \in Keys : ledger'[k] # ledger[k] => {ledger[k], ledger'[k]} \subseteq Ledger!Undecided
        BY <1>2, <2>0, <2>2, RenameMoves
      <3> QED
        BY <2>0, <3>2, <3>3, <3>5, <3>6 DEF Ledger!Rename
    <2>3. UNCHANGED slug \/ \E c \in Cases, s \in Slugs : Rename(c, s)
      BY <1>2 DEF Next, Processing, Scrape, PublishWindow, Match, MatchFails, BuilderChecks,
        BuilderEnqueues, BuilderFails, Claim, AttemptFails, Answer, Decline, HookChecks, HookSaves,
        HookDies, Decide, sourceVars, vars
    <2> QED
      BY <2>1, <2>2, <2>3
  <1> QED
    BY <1>1, <1>2, Invariant, PTL DEF Spec, KeepsTheLedger, Ledger!Spec
=============================================================================
