----------------------------- MODULE MCCaseEdits -----------------------------
EXTENDS CaseEdits

LOCAL INSTANCE TLC

CONSTANTS g1, g2, c1, d1, x1, r1, r2, s1, s2

MCPatches   == {g1, g2, c1}
MCDeletes   == {d1}
MCProposals == {x1}
MCGuarded   == {g1, g2}
MCEdits     == MCPatches \cup MCDeletes \cup MCProposals

\* A guarded edit that renames the case, a guarded edit that publishes it, and
\* an unguarded edit that gives it its old name.
MCTouches ==
  [e \in MCEdits |-> CASE e \in {g1, c1, x1} -> {"columns"}
                       [] e = g2 -> {"joins"}
                       [] OTHER -> {}]
MCTarget  == [e \in MCEdits |-> IF e = g2 THEN "PUBLISHED" ELSE NULL]
MCNewSlug == [e \in MCPatches |-> CASE e = g1 -> s2 [] e = c1 -> s1 [] OTHER -> NULL]
Symmetry  == Permutations({r1, r2})
=============================================================================
