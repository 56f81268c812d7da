----------------------------- MODULE MCResultViews -----------------------------
EXTENDS ResultViews

CONSTANTS r1, r2

\* Two results of a run: views overlap on the first, the second is there to be
\* switched to and back.
TwoAndOne == [id \in Results |-> IF id = r1 THEN 2 ELSE 1]
==============================================================================
