----------------------------- MODULE MCEnrichment -----------------------------
EXTENDS Enrichment

CONSTANTS f1, f2, a, s1, s2

\* A fact about a case, and one that joins none.
MCFacts     == {f1, f2}
MCMatches   == [f \in MCFacts |-> CASE f = f1 -> {a} [] f = f2 -> {}]
MCFirstSlug == [c \in {a} |-> s1]
=============================================================================
