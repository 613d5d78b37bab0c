------------------------------ MODULE FactLedger ------------------------------
(***************************************************************************)
(* What the enrichment pipeline promises about a fact seen in the sources  *)
(* and a case it concerns, known by its slug: however often it is          *)
(* observed, it is put before a caseworker at most once under a slug, what *)
(* the caseworker decides stands for ever under that slug, and a fact that *)
(* is under way ends as a proposal or in a record of why there is none,    *)
(* unless a fault loses it.                                                *)
(***************************************************************************)
CONSTANTS
  Facts,      \* that concern a case
  Cases,
  Slugs

VARIABLES
  ledger,     \* where a fact stands with the case of a slug
  slug        \* case -> its slug

Keys == Facts \X Slugs

Undecided == {"unseen", "open", "closed", "lost"}
Proposed  == {"pending", "decided"}
Standing  == Undecided \cup Proposed

Init == ledger = [k \in Keys |-> "unseen"] /\ slug \in [Cases -> Slugs]

\* Where a fact may go from where it stands.
MayBecome(from) ==
  CASE from \in {"unseen", "closed", "lost"} -> {"open"}
    [] from = "open" -> {"pending", "closed", "lost"}
    [] from = "pending" -> {"decided"}
    [] OTHER -> {}

\* One step of the pipeline may move several facts.
Move ==
  /\ ledger' \in [Keys -> Standing]
  /\ \A k \in Keys : ledger'[k] # ledger[k] => ledger'[k] \in MayBecome(ledger[k])
  /\ UNCHANGED slug

\* A case gets another slug: a fact under way goes on under either, and what was
\* proposed under either is as it was.
Rename(c) ==
  /\ slug' \in [Cases -> Slugs]
  /\ ledger' \in [Keys -> Standing]
  /\ \A k \in Keys : ledger'[k] # ledger[k] => {ledger[k], ledger'[k]} \subseteq Undecided
  /\ \A k \in Keys : ledger[k] = "open" /\ ledger'[k] # "open"
       => slug[c] = k[2] /\ ledger'[<<k[1], slug'[c]>>] \in {"open"} \cup Proposed

Spec == Init /\ [][Move \/ \E c \in Cases : Rename(c)]_<<ledger, slug>>

\* The case had another slug by the time the fact was matched.
MovedOn(k) == ledger[k] = "unseen" /\ \A c \in Cases : slug[c] # k[2]

\* A fact under way comes to an end.
Settles == \A k \in Keys :
  ledger[k] = "open" ~> ledger[k] \in Proposed \cup {"closed", "lost"} \/ MovedOn(k)
=============================================================================
