---------------------------- MODULE BusConnection ----------------------------
(***************************************************************************)
(* The publisher's connection of case_events/bus.py: one _Bus per process, *)
(* shared by its request threads, connected lazily by the first of them    *)
(* that publishes, and copied into every process that is forked.           *)
(*                                                                         *)
(* A critical section under _lock is one action; the connect itself and    *)
(* the publish run outside it.                                             *)
(***************************************************************************)
EXTENDS Naturals, FiniteSets

CONSTANTS
  Threads,      \* threads that call publish
  Parent,       \* the first process
  Child,        \* the process that may be forked from it
  InParent,     \* threads of the first process; the others are the child's
  NULL,
  MaxOutages,   \* bound: times the broker goes down
  MaxCloses,    \* bound: calls of close()
  MaxForks      \* 0 or 1

Procs   == {Parent, Child}
proc(t) == IF t \in InParent THEN Parent ELSE Child

ASSUME ProcAssumption ==
  Parent # Child /\ NULL \notin Procs \cup Threads /\ InParent \subseteq Threads
ASSUME BoundAssumption == MaxOutages \in Nat /\ MaxCloses \in Nat /\ MaxForks \in 0..1

VARIABLES
  \* The fields of the _Bus object, per process
  js,        \* the thread whose connect produced the connection, or NULL
  starting,  \* _starting
  pid,       \* _pid
  cooling,   \* now - _last_failure_at < CONNECT_RETRY_SECONDS
  \* The world
  step,      \* where each thread is
  live,      \* connections whose loop thread runs in the process
  forked,    \* the child exists
  up,        \* the broker answers
  outages,
  closes

busVars == <<js, starting, pid, cooling>>
vars    == <<busVars, step, live, forked, up, outages, closes>>

TypeOK ==
  /\ js \in [Procs -> Threads \cup {NULL}]
  /\ starting \in [Procs -> BOOLEAN]
  /\ pid \in [Procs -> Procs \cup {NULL}]
  /\ cooling \in [Procs -> BOOLEAN]
  /\ step \in [Threads -> {"idle", "connecting", "publishing"}]
  /\ live \in [Procs -> SUBSET Threads]
  /\ forked \in BOOLEAN
  /\ up \in BOOLEAN
  /\ outages \in 0..MaxOutages
  /\ closes \in 0..MaxCloses

Init ==
  /\ js = [p \in Procs |-> NULL]
  /\ starting = [p \in Procs |-> FALSE]
  /\ pid = [p \in Procs |-> NULL]
  /\ cooling = [p \in Procs |-> FALSE]
  /\ step = [t \in Threads |-> "idle"]
  /\ live = [p \in Procs |-> {}]
  /\ forked = FALSE
  /\ up = TRUE
  /\ outages = 0
  /\ closes = 0

Exists(p) == p = Parent \/ forked

-----------------------------------------------------------------------------
\* Mutant: the fork goes unnoticed.
Inherited_unnoticed(p) == FALSE

\* The bus in p was set up by another process.
Inherited(p) == pid[p] # NULL /\ pid[p] # p

\* Mutant: every thread that finds no connection makes one.
Busy_ignored(p) == FALSE

\* Somebody else is paying for the connect.
Busy(p) == ~Inherited(p) /\ starting[p]

\* The first critical section of _ensure_started: reset what a fork left
\* behind, then return the connection, give up, or go and connect.
EnsureStarted(t) ==
  LET p == proc(t) IN
  /\ Exists(p) /\ step[t] = "idle"
  /\ pid' = [pid EXCEPT ![p] = IF Inherited(p) THEN NULL ELSE @]
  /\ js' = [js EXCEPT ![p] = IF Inherited(p) THEN NULL ELSE @]
  /\ \/ /\ js'[p] # NULL
        /\ step' = [step EXCEPT ![t] = "publishing"]
        /\ starting' = [starting EXCEPT ![p] = Busy(p)]
     \/ /\ js'[p] = NULL /\ (Busy(p) \/ cooling[p])
        /\ starting' = [starting EXCEPT ![p] = Busy(p)]
        /\ UNCHANGED step
     \/ /\ js'[p] = NULL /\ ~Busy(p) /\ ~cooling[p]
        /\ starting' = [starting EXCEPT ![p] = TRUE]
        /\ step' = [step EXCEPT ![t] = "connecting"]
  /\ UNCHANGED <<cooling, live, forked, up, outages, closes>>

\* Mutant: the wrong identity is remembered.
Connected_thread(t) ==
  LET p == proc(t) IN
  /\ step[t] = "connecting" /\ up
  /\ js' = [js EXCEPT ![p] = t]
  /\ pid' = [pid EXCEPT ![p] = t]
  /\ live' = [live EXCEPT ![p] = @ \cup {t}]
  /\ cooling' = [cooling EXCEPT ![p] = FALSE]
  /\ starting' = [starting EXCEPT ![p] = FALSE]
  /\ step' = [step EXCEPT ![t] = "publishing"]
  /\ UNCHANGED <<forked, up, outages, closes>>

Connected(t) ==
  LET p == proc(t) IN
  /\ step[t] = "connecting" /\ up
  /\ js' = [js EXCEPT ![p] = t]
  /\ pid' = [pid EXCEPT ![p] = p]
  /\ live' = [live EXCEPT ![p] = @ \cup {t}]
  /\ cooling' = [cooling EXCEPT ![p] = FALSE]
  /\ starting' = [starting EXCEPT ![p] = FALSE]
  /\ step' = [step EXCEPT ![t] = "publishing"]
  /\ UNCHANGED <<forked, up, outages, closes>>

\* Mutant: _starting is not cleared when the connect fails.
ConnectFails_wedged(t) ==
  LET p == proc(t) IN
  /\ step[t] = "connecting" /\ ~up
  /\ cooling' = [cooling EXCEPT ![p] = TRUE]
  /\ step' = [step EXCEPT ![t] = "idle"]
  /\ UNCHANGED <<js, starting, pid, live, forked, up, outages, closes>>

\* The start-up timeout: the abandoned loop is shut down.
ConnectFails(t) ==
  LET p == proc(t) IN
  /\ step[t] = "connecting" /\ ~up
  /\ cooling' = [cooling EXCEPT ![p] = TRUE]
  /\ starting' = [starting EXCEPT ![p] = FALSE]
  /\ step' = [step EXCEPT ![t] = "idle"]
  /\ UNCHANGED <<js, pid, live, forked, up, outages, closes>>

\* Hand the envelope to the loop, or find the bus closed meanwhile.
Published(t) ==
  /\ step[t] = "publishing"
  /\ step' = [step EXCEPT ![t] = "idle"]
  /\ UNCHANGED <<busVars, live, forked, up, outages, closes>>

CoolingEnds(p) ==
  /\ cooling[p]
  /\ cooling' = [cooling EXCEPT ![p] = FALSE]
  /\ UNCHANGED <<js, starting, pid, step, live, forked, up, outages, closes>>

\* close(): reset, then shut the loop down.
Close(p) ==
  /\ Exists(p) /\ closes < MaxCloses
  /\ closes' = closes + 1
  /\ js' = [js EXCEPT ![p] = NULL]
  /\ pid' = [pid EXCEPT ![p] = NULL]
  /\ starting' = [starting EXCEPT ![p] = FALSE]
  /\ live' = [live EXCEPT ![p] = @ \ {js[p]}]
  /\ UNCHANGED <<cooling, step, forked, up, outages>>

-----------------------------------------------------------------------------
\* fork copies the object and none of the threads.
Fork ==
  /\ MaxForks = 1 /\ ~forked
  /\ forked' = TRUE
  /\ js' = [js EXCEPT ![Child] = js[Parent]]
  /\ starting' = [starting EXCEPT ![Child] = starting[Parent]]
  /\ pid' = [pid EXCEPT ![Child] = pid[Parent]]
  /\ cooling' = [cooling EXCEPT ![Child] = cooling[Parent]]
  /\ UNCHANGED <<step, live, up, outages, closes>>

BrokerFails ==
  /\ up /\ outages < MaxOutages
  /\ up' = FALSE
  /\ outages' = outages + 1
  /\ UNCHANGED <<busVars, step, live, forked, closes>>

BrokerReturns ==
  /\ ~up
  /\ up' = TRUE
  /\ UNCHANGED <<busVars, step, live, forked, outages, closes>>

Next ==
  \/ \E t \in Threads : EnsureStarted(t) \/ Connected(t) \/ ConnectFails(t) \/ Published(t)
  \/ \E p \in Procs : CoolingEnds(p) \/ Close(p)
  \/ Fork
  \/ BrokerFails
  \/ BrokerReturns

Spec == Init /\ [][Next]_vars

\* Requests keep publishing, a connect ends within its timeout, time passes,
\* and outages end.
FairSpec ==
  /\ Spec
  /\ \A t \in Threads : WF_vars(EnsureStarted(t)) /\ WF_vars(Connected(t) \/ ConnectFails(t))
                        /\ WF_vars(Published(t))
  /\ \A p \in Procs : WF_vars(CoolingEnds(p))
  /\ WF_vars(BrokerReturns)

-----------------------------------------------------------------------------
\* "One connection per process" and "at most ONE thread ever performs the
\* connect", whatever threads publish first or together and through outages
\* and forks, as long as nobody calls close().
OneConnection ==
  closes = 0 =>
    \A p \in Procs :
      Cardinality(live[p] \cup {t \in Threads : proc(t) = p /\ step[t] = "connecting"}) <= 1

\* A publish goes to a loop of its own process, never to the copy of a loop
\* that runs only in the process it was forked from.
PublishesOnOwnLoop ==
  \A t \in Threads :
    step[t] = "publishing" /\ js[proc(t)] # NULL => js[proc(t)] \in live[proc(t)]

\* The bus recovers by itself from every outage: unless somebody closes it, the
\* first process is connected in the end and stays so.
EndsUpConnected == <>[](js[Parent] # NULL \/ closes > 0)
=============================================================================
