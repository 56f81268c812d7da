------------------------------ MODULE ResultLog ------------------------------
(***************************************************************************)
(* What the engine promises about the results it keeps: runs are stored    *)
(* one after the other, a run is never stored twice and shares no call id  *)
(* with another, and what can be read is always the whole of the latest    *)
(* runs, the newest one included.                                          *)
(***************************************************************************)
EXTENDS Naturals, Sequences

VARIABLES
  log,       \* every run ever stored, oldest first, each a set of call ids
  readable   \* the call ids a request can still read

vars == <<log, readable>>

\* The call ids of the runs of s from position i on.
IdsFrom(s, i) == UNION {s[k] : k \in i..Len(s)}

Init == log = <<>> /\ readable = {}

\* A run is stored; some of the oldest runs may be forgotten, never this one.
Store(run) ==
  /\ run # {} /\ run \cap IdsFrom(log, 1) = {}
  /\ log' = Append(log, run)
  /\ \E i \in 1..Len(log) + 1 : readable' = IdsFrom(log', i)

\* The same promise as a step of someone else's state: TLC evaluates it on a
\* pair of states, where the run is the one the log gained.
Stored ==
  /\ Len(log') = Len(log) + 1
  /\ Store(log'[Len(log')])

Spec == Init /\ [][Stored]_vars
==============================================================================
