-------------------------- MODULE BusConnectionProofs --------------------------
(***************************************************************************)
(* Proofs about BusConnection, for every set of threads and any number of  *)
(* outages and closes: a process makes at most one connection, and nobody  *)
(* publishes on the copy of a connection.                                  *)
(***************************************************************************)
EXTENDS BusConnection, FiniteSetTheorems, TLAPS

Connecting(p) == {t \in Threads : proc(t) = p /\ step[t] = "connecting"}

\* The connections that a process has or is making.
Made(p) == live[p] \cup Connecting(p)

\* _pid is set with the connection; what it says of a copy, nobody has used yet,
\* and what is not a copy has its loop in this process.
PidInv ==
  \A p \in Procs :
    /\ js[p] = NULL <=> pid[p] = NULL
    /\ Inherited(p) => p = Child /\ \A t \in Threads : proc(t) = p => step[t] = "idle"
    /\ ~Inherited(p) /\ js[p] # NULL => js[p] \in live[p]

\* Before the fork nothing happens in the child.
ForkInv ==
  ~forked => /\ live[Child] = {}
             /\ \A t \in Threads : proc(t) = Child => step[t] = "idle"

\* Unless somebody closes the bus: whoever may connect finds nothing made.
MadeInv ==
  closes = 0 =>
    \A p \in Procs :
      /\ \A s, t \in Made(p) : s = t
      /\ Inherited(p) => Made(p) = {}
      /\ js[p] = NULL => live[p] = {}
      /\ js[p] = NULL /\ ~starting[p] => Made(p) = {}

IInv == TypeOK /\ PidInv /\ ForkInv /\ MadeInv

LEMMA ProcType == \A t \in Threads : proc(t) \in Procs
  BY DEF proc, Procs

LEMMA InitInv == Init => IInv
  <1> SUFFICES ASSUME Init PROVE IInv
    OBVIOUS
  <1> USE DEF Init
  <1>1. TypeOK
    <2>1. outages \in 0..MaxOutages /\ closes \in 0..MaxCloses
      BY BoundAssumption
    <2>2. forked \in BOOLEAN /\ up \in BOOLEAN
      BY Zenon
    <2> QED
      BY <2>1, <2>2 DEF TypeOK
  <1>2. PidInv
    BY DEF PidInv, Inherited
  <1>3. ForkInv
    BY DEF ForkInv, Procs
  <1>4. MadeInv
    BY DEF MadeInv, Made, Connecting, Inherited
  <1> QED
    BY <1>1, <1>2, <1>3, <1>4 DEF IInv

-----------------------------------------------------------------------------
\* The types of the bus and of the world.
BusType ==
  /\ js \in [Procs -> Threads \cup {NULL}]
  /\ pid \in [Procs -> Procs \cup {NULL}]
  /\ starting \in [Procs -> BOOLEAN]
  /\ cooling \in [Procs -> BOOLEAN]
  /\ step \in [Threads -> {"idle", "connecting", "publishing"}]
  /\ live \in [Procs -> SUBSET Threads]

LEMMA BusTypeStep == ASSUME TypeOK, [Next]_vars PROVE BusType'
  <1> USE ProcType DEF TypeOK, BusType
  <1>0. Parent \in Procs /\ Child \in Procs
    BY DEF Procs
  <1>1. ASSUME NEW t \in Threads, EnsureStarted(t) PROVE BusType'
    <2>1. starting' \in [Procs -> BOOLEAN]
      BY <1>1 DEF EnsureStarted, Busy
    <2>2. step' \in [Threads -> {"idle", "connecting", "publishing"}]
      BY <1>1 DEF EnsureStarted
    <2> QED
      BY <1>1, <2>1, <2>2 DEF EnsureStarted
  <1>2. ASSUME NEW t \in Threads, Connected(t) PROVE BusType'
    BY <1>2 DEF Connected
  <1>3. ASSUME NEW t \in Threads, ConnectFails(t) \/ Published(t) PROVE BusType'
    BY <1>3 DEF ConnectFails, Published, busVars
  <1>4. ASSUME NEW p \in Procs, CoolingEnds(p) \/ Close(p) PROVE BusType'
    BY <1>4 DEF CoolingEnds, Close
  <1>5. CASE Fork
    BY <1>0, <1>5 DEF Fork
  <1>6. CASE BrokerFails \/ BrokerReturns \/ UNCHANGED vars
    BY <1>6 DEF BrokerFails, BrokerReturns, vars, busVars
  <1> QED
    BY <1>1, <1>2, <1>3, <1>4, <1>5, <1>6 DEF Next

LEMMA TypeStep == ASSUME TypeOK, [Next]_vars PROVE TypeOK'
  <1>1. outages' \in 0..MaxOutages /\ closes' \in 0..MaxCloses
    BY BoundAssumption DEF TypeOK, Next, EnsureStarted, Connected, ConnectFails, Published,
       CoolingEnds, Close, Fork, BrokerFails, BrokerReturns, vars
  <1>2. forked' \in BOOLEAN /\ up' \in BOOLEAN
    BY Zenon DEF TypeOK, Next, EnsureStarted, Connected, ConnectFails, Published,
       CoolingEnds, Close, Fork, BrokerFails, BrokerReturns, vars
  <1> QED
    BY <1>1, <1>2, BusTypeStep DEF TypeOK, BusType

LEMMA PidStep == ASSUME IInv, [Next]_vars PROVE PidInv' /\ ForkInv'
  <1> USE ProcAssumption, ProcType DEF IInv, TypeOK, PidInv, ForkInv, Procs, Inherited
  <1>1. ASSUME NEW t \in Threads, EnsureStarted(t) PROVE PidInv' /\ ForkInv'
    BY <1>1 DEF EnsureStarted, Busy, Exists
  <1>2. ASSUME NEW t \in Threads, Connected(t) \/ ConnectFails(t) \/ Published(t)
        PROVE  PidInv' /\ ForkInv'
    BY <1>2 DEF Connected, ConnectFails, Published, busVars
  <1>3. ASSUME NEW p \in Procs, CoolingEnds(p) \/ Close(p) PROVE PidInv' /\ ForkInv'
    BY <1>3 DEF CoolingEnds, Close, Exists
  <1>4. CASE Fork
    BY <1>4 DEF Fork
  <1>5. CASE BrokerFails \/ BrokerReturns \/ UNCHANGED vars
    BY <1>5 DEF BrokerFails, BrokerReturns, vars, busVars
  <1> QED
    BY <1>1, <1>2, <1>3, <1>4, <1>5 DEF Next

LEMMA MadeStep == ASSUME IInv, [Next]_vars PROVE MadeInv'
  <1> USE ProcAssumption, BoundAssumption, ProcType
          DEF IInv, TypeOK, PidInv, MadeInv, Made, Connecting, Procs, Inherited
  <1>1. ASSUME NEW t \in Threads, EnsureStarted(t) PROVE MadeInv'
    BY <1>1 DEF EnsureStarted, Busy
  <1>2. ASSUME NEW t \in Threads, Connected(t) PROVE MadeInv'
    BY <1>2 DEF Connected
  <1>3. ASSUME NEW t \in Threads, ConnectFails(t) \/ Published(t) PROVE MadeInv'
    BY <1>3 DEF ConnectFails, Published, busVars
  <1>4. ASSUME NEW p \in Procs, CoolingEnds(p) \/ Close(p) PROVE MadeInv'
    BY <1>4 DEF CoolingEnds, Close
  <1>5. CASE Fork
    BY <1>5 DEF Fork, ForkInv
  <1>6. CASE BrokerFails \/ BrokerReturns \/ UNCHANGED vars
    BY <1>6 DEF BrokerFails, BrokerReturns, vars, busVars
  <1> QED
    BY <1>1, <1>2, <1>3, <1>4, <1>5, <1>6 DEF Next

-----------------------------------------------------------------------------
\* The inductive invariant of the publisher (_ensure_started, close, a fork).
THEOREM Inductive == Spec => []IInv
  <1>1. IInv /\ [Next]_vars => IInv'
    BY TypeStep, PidStep, MadeStep DEF IInv
  <1> QED
    BY InitInv, <1>1, PTL DEF Spec

\* The fields of the bus keep their types.
THEOREM TypeCorrect == Spec => []TypeOK
  BY Inductive, PTL DEF IInv

\* However threads race, the broker fails and the process forks, a process that
\* does not close its bus has or makes one connection (_starting, _pid).
THEOREM ConnectsOnce == Spec => []OneConnection
  <1>1. IInv => OneConnection
    <2> SUFFICES ASSUME IInv, closes = 0, NEW p \in Procs PROVE Cardinality(Made(p)) <= 1
      BY DEF OneConnection, Made, Connecting
    <2>1. CASE Made(p) = {}
      BY <2>1, FS_EmptySet
    <2>2. ASSUME NEW t \in Made(p) PROVE Cardinality(Made(p)) <= 1
      <3>1. Made(p) = {t}
        BY <2>2 DEF IInv, MadeInv
      <3>2. Cardinality({t}) = 1
        BY FS_Singleton
      <3> QED
        BY <3>1, <3>2
    <2> QED
      BY <2>1, <2>2
  <1> QED
    BY Inductive, <1>1, PTL

\* Nobody publishes on the copy of a loop that runs in another process.
THEOREM OwnLoop == Spec => []PublishesOnOwnLoop
  <1>1. IInv => PublishesOnOwnLoop
    BY ProcType DEF IInv, PidInv, PublishesOnOwnLoop
  <1> QED
    BY Inductive, <1>1, PTL
=============================================================================
