----------------------------- MODULE MCJobQueue -----------------------------
\* Values of the constants of JobQueue for TLC.
EXTENDS JobQueue, TLC

\* One tick stands for any stretch of time: the first retry waits one tick,
\* every later one two.
MCBackoff == <<1>>

Symmetry == Permutations(Jobs)
=============================================================================
