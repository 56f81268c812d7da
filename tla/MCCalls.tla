------------------------------- MODULE MCCalls -------------------------------
(***************************************************************************)
(* Small instances of Calls.  The requests are chosen per run: what one    *)
(* instance asks of runs and restores, another asks of applies.            *)
(***************************************************************************)
EXTENDS Calls

\* A history of one run (zero is clamped) with a timeout, next to the defaults.
OneRunTimed == {[size |-> 0, limited |-> TRUE]}

\* The same with histories of one run, as zero is, and of two.
OneOrTwoRuns == {[size |-> n, limited |-> TRUE] : n \in 0..2}

\* Every request on one and the same connection.
SameConn == [j \in Jobs |-> CHOOSE c \in Conns : TRUE]
==============================================================================
