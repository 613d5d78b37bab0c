------------------------------ MODULE EditLedger ------------------------------
(***************************************************************************)
(* What an editor of a case is promised: an edit takes effect once and     *)
(* whole, at one instant, on top of everything in force at that instant.   *)
(*                                                                         *)
(* The promise is for a careful edit: a PATCH that carries If-Match, or a  *)
(* proposal that is approved.  A PATCH without the header, and a DELETE,   *)
(* may take other edits out of force with them.                            *)
(***************************************************************************)
CONSTANTS
  Edits,     \* every edit somebody may make of the case
  Careless,  \* those made by a PATCH without If-Match
  Closers,   \* those made by a DELETE
  Target,    \* the state an edit asks for, or NULL
  NULL

VARIABLES
  done,      \* the edits made
  inForce,   \* those whose effect the case shows
  state      \* the workflow state of the case

CaseState == {"DRAFT", "IN_REVIEW", "PUBLISHED", "CLOSED"}

Init == done = {} /\ inForce = {} /\ state = "DRAFT"

\* A careful edit adds itself, and moves the case only where it asks to.
Amend(e) ==
  /\ e \notin Careless \cup Closers
  /\ inForce' = inForce \cup {e}
  /\ state' = IF Target[e] = NULL THEN state ELSE Target[e]

\* A careless edit may bring back an older content and an older state of an
\* open case.
Overwrite(e) ==
  /\ e \in Careless
  /\ state # "CLOSED"
  /\ inForce' \subseteq done'
  /\ state' \in CaseState

\* The case is closed, with the content somebody read earlier.
Withdraw(e) ==
  /\ e \in Closers
  /\ inForce' \subseteq done'
  /\ state' = "CLOSED"

Make(e) ==
  /\ e \notin done
  /\ done' = done \cup {e}
  /\ Amend(e) \/ Overwrite(e) \/ Withdraw(e)

Next == \E e \in Edits : Make(e)

Spec == Init /\ [][Next]_<<done, inForce, state>>
=============================================================================
