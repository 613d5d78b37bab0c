---------------------------- MODULE MCReviewJobs ----------------------------
\* Values of the constants of ReviewJobs for TLC.
EXTENDS ReviewJobs

MCBackoff == <<1>>

\* A re-queued job may be claimed at once: a worker may always wait by itself.
NoBackoff == <<0>>

\* Bound: jobs with a hook that raised or was skipped.
OneRaised == Cardinality(untold) <= 1

OneCase  == [r \in 1..2 |-> "c1"]
Backlog  == [r \in 1..3 |-> "c1"]
=============================================================================
