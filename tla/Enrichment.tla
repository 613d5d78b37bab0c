------------------------------ MODULE Enrichment ------------------------------
(***************************************************************************)
(* From a docket entry to a decided proposal: the docket producer and its  *)
(* overlapping window (case_events/producers/dockets.py), the matcher and  *)
(* the proposal builder (case_events/consumers/handlers.py), the intent    *)
(* job and its hook (case_proposals/job_kind.py), and the reviewer.        *)
(*                                                                         *)
(* The two streams are sets of undelivered messages: the broker delivers   *)
(* each again until it is acked or its deliveries are spent (BusConsumer). *)
(* The jobs table is that of JobQueue, reduced to what this kind sees of   *)
(* it: one active job per key, a lease, a budget of attempts, and a hook   *)
(* that runs after the job is DONE and its key is free again.              *)
(*                                                                         *)
(* A fact is keyed, from the matcher on, by the slug its case has then:    *)
(* a case that gets another slug is another key (_matched_dedup_key).      *)
(***************************************************************************)
EXTENDS Naturals, Sequences, FiniteSets

CONSTANTS
  Facts,        \* docket rows, each with its dedup key
  Slugs,
  FirstSlug,    \* Cases -> the slug each begins with
  Matches,      \* Facts -> the enrichable cases it can be joined to
  MaxMatches,   \* MAX_MATCHES
  Window,       \* DEFAULT_WINDOW_HOURS, in runs of the producer
  Limits,       \* --limit: rows examined in a run, chosen run by run
  MaxDeliver,   \* deliveries of a message
  MaxAttempts,  \* max_attempts of the kind
  Jobs,         \* bound: rows of the jobs table in use at a time
  MaxCrashes,   \* bound: builders that fail, last deliveries and hooks that leave nothing,
                \* and cases that get another slug
  NULL

Cases == UNION {Matches[f] : f \in Facts}

\* MAX_MATCHES: a fact that could concern too many cases concerns none.
Concerning == {f \in Facts : Matches[f] # {} /\ Cardinality(Matches[f]) <= MaxMatches}

\* A fact and the slug of a case it concerns (_matched_dedup_key).
Keys == Concerning \X Slugs

ASSUME FactsAssumption == IsFiniteSet(Facts) /\ \A f \in Facts : IsFiniteSet(Matches[f])
ASSUME SlugAssumption == FirstSlug \in [Cases -> Slugs]
ASSUME BoundAssumption ==
  /\ {MaxMatches, Window, MaxDeliver, MaxAttempts, MaxCrashes} \cup Limits \subseteq Nat
  /\ Window > 0 /\ MaxDeliver > 0 /\ MaxAttempts > 0
ASSUME NullAssumption == NULL \notin Keys

VARIABLES
  \* The docket and its producer
  docket,     \* the rows, in the order they were created (a verdict's: updated)
  age,        \* runs of the producer since
  emitted,    \* facts published at least once
  excused,    \* history: runs of an unpublished fact's window that could not publish it
  slug,       \* case -> its slug
  \* The bus
  signals,    \* undelivered facts
  matched,    \* undelivered matches
  tries,      \* failed deliveries of each undelivered signal
  checked,    \* matches the builder found unstaged and is about to enqueue
  \* The queue
  job,        \* row -> its key, where it is, its attempts
  crashes,
  \* The proposals
  proposals,  \* key -> the statuses of its rows
  record      \* key -> why the last attempt on it left no proposal

sourceVars == <<docket, age, emitted, excused, slug>>
busVars    == <<signals, matched, tries, checked>>
jobVars    == <<job, crashes>>
vars       == <<sourceVars, busVars, jobVars, proposals, record>>

Job  == [key : Keys \cup {NULL}, at : {"free", "queued", "running", "answered", "saving"},
         attempts : 0..MaxAttempts]
Free == [key |-> NULL, at |-> "free", attempts |-> 0]

TypeOK ==
  /\ docket \in Seq(Facts)
  /\ age \in [Facts -> 0..Window]
  /\ emitted \subseteq Facts /\ signals \subseteq Facts
  /\ excused \in [Facts -> 0..Window]
  /\ slug \in [Cases -> Slugs]
  /\ matched \subseteq Keys /\ checked \subseteq matched
  /\ tries \in [Facts -> 0..(MaxDeliver - 1)]
  /\ job \in [Jobs -> Job]
  /\ crashes \in 0..MaxCrashes
  /\ proposals \in [Keys -> Seq({"pending", "decided"})]
  /\ record \in [Keys -> {"none", "closed", "lost"}]

Init ==
  /\ docket = <<>>
  /\ age = [f \in Facts |-> 0]
  /\ emitted = {}
  /\ excused = [f \in Facts |-> 0]
  /\ slug = FirstSlug
  /\ signals = {}
  /\ matched = {}
  /\ tries = [f \in Facts |-> 0]
  /\ checked = {}
  /\ job = [j \in Jobs |-> Free]
  /\ crashes = 0
  /\ proposals = [k \in Keys |-> <<>>]
  /\ record = [k \in Keys |-> "none"]

-----------------------------------------------------------------------------
\* The scraper stores a new row.
Scrape(f) ==
  /\ \A i \in DOMAIN docket : docket[i] # f
  /\ docket' = Append(docket, f)
  /\ UNCHANGED <<age, emitted, excused, slug, busVars, jobVars, proposals, record>>

\* Mutant: each run looks only at what is new since the last one.
InWindow_watermark(f) == age[f] = 0

\* No watermark: every run looks at the whole window.
InWindow(f) == age[f] < Window

\* order_by("created_at")[:limit]
InTheWindow     == {i \in DOMAIN docket : InWindow(docket[i])}
Selected(limit) == {i \in InTheWindow : Cardinality({h \in InTheWindow : h < i}) < limit}
Scanned(limit)  == {docket[i] : i \in Selected(limit)}

\* The rows that the run makes one run older.
Young == {docket[i] : i \in {h \in DOMAIN docket : age[docket[h]] < Window}}

\* A run that could not publish the fact: its publish failed, or as many rows of
\* the window as a run examines were created before it.
Excused(f, limit, sent) ==
  \/ f \in Scanned(limit) \ sent
  \/ \E i \in DOMAIN docket :
       /\ docket[i] = f
       /\ Cardinality({h \in DOMAIN docket : h < i /\ age[docket[h]] < Window}) >= limit

\* A fact with the cases it is joined to, by the slugs they have now.
Concerns(f) == {<<f, slug[c]>> : c \in IF f \in Concerning THEN Matches[f] ELSE {}}

\* publish_window: emit never raises, and what it could not send is not sent.
\* The run in which nothing is sent is also the run that did not take place.
PublishWindow(limit, sent) ==
  /\ Young # {}
  /\ sent \subseteq Scanned(limit)
  /\ emitted' = emitted \cup sent
  /\ signals' = signals \cup sent
  /\ excused' = [f \in Facts |-> IF f \in emitted' THEN 0
                                 ELSE IF f \in Young /\ Excused(f, limit, sent)
                                 THEN excused[f] + 1 ELSE excused[f]]
  /\ age' = [f \in Facts |-> IF f \in Young THEN age[f] + 1 ELSE age[f]]
  /\ UNCHANGED <<docket, slug, matched, tries, checked, jobVars, proposals, record>>

\* A case gets another slug: by a PATCH while it is a draft, by an operator later.
Rename(c, s) ==
  /\ crashes < MaxCrashes
  /\ crashes' = crashes + 1
  /\ \A d \in Cases : slug[d] # s
  /\ slug' = [slug EXCEPT ![c] = s]
  /\ UNCHANGED <<docket, age, emitted, excused, busVars, job, proposals, record>>

-----------------------------------------------------------------------------
\* Mutant: the result of a publish is ignored, as best-effort publishers do.
Match_besteffort(f, sent) ==
  /\ f \in signals
  /\ sent \subseteq Concerns(f)
  /\ matched' = matched \cup sent
  /\ signals' = signals \ {f}
  /\ tries' = [tries EXCEPT ![f] = 0]
  /\ UNCHANGED <<sourceVars, checked, jobVars, proposals, record>>

\* handle_matcher: publish a match per case, ack when all are published.
Match(f, sent) ==
  /\ f \in signals
  /\ sent = Concerns(f)
  /\ matched' = matched \cup sent
  /\ signals' = signals \ {f}
  /\ tries' = [tries EXCEPT ![f] = 0]
  /\ UNCHANGED <<sourceVars, checked, jobVars, proposals, record>>

\* A publish, or the ack, fails: what was published stays published and the signal
\* is delivered again.  After its last delivery it is buried, or gone without a
\* record: a burial refused, a replica killed, a fetch answer lost (BusConsumer).
MatchFails(f, sent) ==
  /\ f \in signals
  /\ sent \subseteq Concerns(f)
  /\ matched' = matched \cup sent
  /\ \/ /\ tries[f] + 1 < MaxDeliver
        /\ tries' = [tries EXCEPT ![f] = @ + 1]
        /\ UNCHANGED <<signals, record, crashes>>
     \/ /\ tries[f] + 1 = MaxDeliver
        /\ tries' = [tries EXCEPT ![f] = 0]
        /\ signals' = signals \ {f}
        /\ \E why \in {"closed", "lost"} :
             /\ record' = [k \in Keys |-> IF k \in Concerns(f) THEN why ELSE record[k]]
             /\ crashes' = IF why = "lost" THEN crashes + 1 ELSE crashes
             /\ crashes' <= MaxCrashes
  /\ UNCHANGED <<sourceVars, checked, job, proposals>>

AlreadyStaged(k) == proposals[k] # <<>>

\* handle_proposal_builder: a fact already staged is dropped ...
BuilderChecks(k) ==
  /\ k \in matched \ checked
  /\ IF AlreadyStaged(k)
     THEN matched' = matched \ {k} /\ UNCHANGED checked
     ELSE checked' = checked \cup {k} /\ UNCHANGED matched
  /\ UNCHANGED <<sourceVars, signals, tries, jobVars, proposals, record>>

\* ... or gets the key's active job, or a new one, and is acked.
Active(k) == \E j \in Jobs : job[j].key = k /\ job[j].at \in {"queued", "running"}

NewRow == CHOOSE j \in Jobs : job[j] = Free

BuilderEnqueues(k) ==
  /\ k \in checked
  /\ \/ Active(k) /\ UNCHANGED job
     \/ /\ ~Active(k)
        /\ \E j \in Jobs : job[j] = Free
        /\ job' = [job EXCEPT ![NewRow] = [key |-> k, at |-> "queued", attempts |-> 0]]
  /\ matched' = matched \ {k}
  /\ checked' = checked \ {k}
  /\ UNCHANGED <<sourceVars, signals, tries, crashes, proposals, record>>

\* The replica dies or the enqueue fails: the match comes back, or that was its
\* last delivery, and it is buried or, as above, gone.
BuilderFails(k) ==
  /\ k \in matched
  /\ crashes < MaxCrashes
  /\ crashes' = crashes + 1
  /\ checked' = checked \ {k}
  /\ \/ UNCHANGED <<matched, record>>
     \/ /\ matched' = matched \ {k}
        /\ \E why \in {"closed", "lost"} : record' = [record EXCEPT ![k] = why]
  /\ UNCHANGED <<sourceVars, signals, tries, job, proposals>>

-----------------------------------------------------------------------------
\* Mutant: an attempt is counted when it answers, not when it starts.
Claim_uncounted(j) ==
  /\ job[j].at = "queued"
  /\ job' = [job EXCEPT ![j].at = "running"]
  /\ UNCHANGED <<sourceVars, busVars, crashes, proposals, record>>

\* The intent worker claims a job, which counts as an attempt.
Claim(j) ==
  /\ job[j].at = "queued"
  /\ job' = [job EXCEPT ![j].at = "running", ![j].attempts = @ + 1]
  /\ UNCHANGED <<sourceVars, busVars, crashes, proposals, record>>

\* Mutant: the budget is compared off by one.
HasBudget_loose(j) == job[j].attempts <= MaxAttempts

HasBudget(j) == job[j].attempts < MaxAttempts

\* The lease lapses, or the call fails: again, or on_failure.
AttemptFails(j) ==
  LET k == job[j].key IN
  /\ job[j].at = "running"
  /\ IF HasBudget(j)
     THEN job' = [job EXCEPT ![j].at = "queued"] /\ UNCHANGED record
     ELSE job' = [job EXCEPT ![j] = Free] /\ record' = [record EXCEPT ![k] = "closed"]
  /\ UNCHANGED <<sourceVars, busVars, crashes, proposals>>

\* A result is in: the job is DONE, its key is free and its hook is to run; nobody
\* looks at its attempts again.
Answer(j) ==
  /\ job[j].at = "running"
  /\ job' = [job EXCEPT ![j].at = "answered", ![j].attempts = 0]
  /\ UNCHANGED <<sourceVars, busVars, crashes, proposals, record>>

\* on_result: the model declined, or its answer is unusable or too unsure.
Decline(j) ==
  /\ job[j].at = "answered"
  /\ record' = [record EXCEPT ![job[j].key] = "closed"]
  /\ job' = [job EXCEPT ![j] = Free]
  /\ UNCHANGED <<sourceVars, busVars, crashes, proposals>>

\* on_result asks already_staged again, after the call.
HookChecks(j) ==
  /\ job[j].at = "answered"
  /\ job' = [job EXCEPT ![j] = IF AlreadyStaged(job[j].key) THEN Free
                               ELSE [@ EXCEPT !.at = "saving"]]
  /\ UNCHANGED <<sourceVars, busVars, crashes, proposals, record>>

\* Mutant: only the check before the save, no unique key.
Unstaged_checked(k) == TRUE

\* The unique dedup_key.
Unstaged(k) == proposals[k] = <<>>

HookSaves(j) ==
  LET k == job[j].key IN
  /\ job[j].at = "saving"
  /\ proposals' = IF Unstaged(k) THEN [proposals EXCEPT ![k] = Append(@, "pending")]
                                 ELSE proposals
  /\ job' = [job EXCEPT ![j] = Free]
  /\ UNCHANGED <<sourceVars, busVars, crashes, record>>

\* The process dies between the commit of DONE and the end of the hook, or the hook
\* raises, which is logged and swallowed.
HookDies(j) ==
  /\ job[j].at \in {"answered", "saving"}
  /\ crashes < MaxCrashes
  /\ crashes' = crashes + 1
  /\ record' = [record EXCEPT ![job[j].key] = "lost"]
  /\ job' = [job EXCEPT ![j] = Free]
  /\ UNCHANGED <<sourceVars, busVars, proposals>>

\* A caseworker approves or rejects a pending proposal (CaseEdits tells them apart).
Decide(k, i) ==
  /\ i \in DOMAIN proposals[k] /\ proposals[k][i] = "pending"
  /\ proposals' = [proposals EXCEPT ![k][i] = "decided"]
  /\ UNCHANGED <<sourceVars, busVars, jobVars, record>>

-----------------------------------------------------------------------------
\* What the broker's deliveries and the workers' polls keep going, whatever
\* becomes of it.
Processing ==
  \/ \E f \in Facts : \E sent \in SUBSET Concerns(f) : Match(f, sent) \/ MatchFails(f, sent)
  \/ \E k \in Keys : BuilderChecks(k) \/ BuilderEnqueues(k)
  \/ \E j \in Jobs : \/ Claim(j) \/ AttemptFails(j) \/ Answer(j)
                     \/ Decline(j) \/ HookChecks(j) \/ HookSaves(j)

Next ==
  \/ Processing
  \/ \E f \in Facts : Scrape(f)
  \/ \E c \in Cases, s \in Slugs : Rename(c, s)
  \/ \E limit \in Limits, sent \in SUBSET Facts : PublishWindow(limit, sent)
  \/ \E k \in Keys : BuilderFails(k)
  \/ \E j \in Jobs : HookDies(j)
  \/ \E k \in Keys : \E i \in DOMAIN proposals[k] : Decide(k, i)

Spec == Init /\ [][Next]_vars

\* No fairness between facts or workers is needed, and none for the scraper,
\* the producer's schedule or the caseworkers.
FairSpec == Spec /\ WF_vars(Processing)

-----------------------------------------------------------------------------
\* Somewhere between the producer and the proposals, the fact is under way.
UnderWay(k) ==
  \/ k[1] \in signals /\ k \in Concerns(k[1])
  \/ k \in matched
  \/ \E j \in Jobs : job[j].key = k

Standing(k) ==
  IF AlreadyStaged(k) THEN proposals[k][1]
  ELSE IF UnderWay(k) THEN "open"
  ELSE IF record[k] = "none" THEN "unseen" ELSE record[k]

Ledger == INSTANCE FactLedger WITH Facts <- Concerning, ledger <- [k \in Keys |-> Standing(k)]

\* A fact on the bus never vanishes: under the slug its case has when it is matched
\* it stays under way until it is a proposal, or a record, a dead job or the
\* dead-letter stream says why not, or a counted fault took the last delivery or the
\* hook that held it; and what is decided under a key is never proposed or decided
\* again, however often it is observed (handle_matcher, already_staged).
KeepsTheLedger == Ledger!Spec

\* A key has one proposal at most, whatever jobs for it overlap.
OneProposalPerKey == \A k \in Keys : Len(proposals[k]) <= 1

\* The overlap of the windows: a fact that has left the window unpublished was
\* unpublishable in every single run of it, because the publish failed or because
\* too many rows of that run's window came before it.
NoFactSlipsThrough ==
  \A f \in Facts : age[f] = Window => f \in emitted \/ excused[f] = Window

\* Why: a run ages a row and neither publishes nor excuses it never.
SlipInv == \A f \in Facts : f \notin emitted => excused[f] = age[f]

\* Every fact under way ends as a proposal or a record of why there is none, or a
\* counted fault has lost it; one whose case gets another slug before it is matched
\* goes on under that slug.
EveryFactSettles == Ledger!Settles
=============================================================================
