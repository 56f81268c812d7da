----------------------------- MODULE DuckDbDriver -----------------------------
(* DuckDB: sqmeow-adapters/src/duckdb.rs.  A job works on the one connection  *)
(* under its lock; a watcher interrupts the connection for as long as the     *)
(* job's phase is Running and its token is tripped.                           *)
EXTENDS DriverSession

\* Request.phase, as the job's position has it.
Phase(r) ==
  CASE Pc(r) \in {"wait", "orphan"} -> "Queued"
    [] Pc(r) = "committing" -> "Committing"
    [] Pc(r) = "undoing" -> "Finishing"
    [] Pc(r) \in {"idle", "returned"} -> "Finished"
    [] OTHER -> "Running"

\* A statement starts: DuckDB forgets an interrupt that came before it.
Starts(r, s, p) ==
  /\ Moves(r, p)
  /\ sent' = [sent EXCEPT ![r] = [what |-> s, reply |-> "none"]] /\ kill' = {}
  /\ UNCHANGED <<holder, session>>

\* The caller of a job that has not begun hears of its cancel at once.
GiveUp(r) ==
  /\ Pc(r) = "wait" /\ r \in token
  /\ call' = [call EXCEPT ![r].pc = "orphan", ![r].answer = "cancelled"]
  /\ Stays

\* The job has the connection: its token first.
Acquire(r) ==
  /\ Pc(r) \in {"wait", "orphan"} /\ holder = None
  /\ IF r \in token THEN Ends(r, "cancelled", session)
     ELSE /\ holder' = r /\ Moves(r, IF IsApply(r) THEN "begin" ELSE "send")
          /\ UNCHANGED <<session, sent, kill>>

\* Every ten milliseconds.
Watch(r) ==
  /\ r \in token /\ Phase(r) = "Running"
  /\ kill' = kill \cup {r} /\ UNCHANGED <<call, holder, session, sent>>

\* A failure of a cancelled request is its cancellation, unless it was committing.
Hears(r, o) == IF r \in token THEN "cancelled" ELSE o

\* The statement of a run; COMMIT goes behind the fence.
Run(r) ==
  \/ /\ Pc(r) = "send"
     /\ IF r \in token THEN Ends(r, "cancelled", session)
        ELSE Starts(r, Statement(r), IF Statement(r) = "commit" THEN "committing" ELSE "running")
  \/ /\ Pc(r) \in {"running", "committing"} /\ ~IsApply(r) /\ Reply(r) # "none"
     /\ Ends(r, IF Reply(r) = "ok" THEN "ok"
                ELSE IF Pc(r) = "running" THEN Hears(r, "error") ELSE "error", session)

-----------------------------------------------------------------------------
(* apply *)

\* Inside a transaction the user left open BEGIN fails, and leaves it alone.
Begin(r) ==
  \/ /\ Pc(r) = "begin"
     /\ IF r \in token THEN Ends(r, "cancelled", session) ELSE Starts(r, "begin", "beginning")
  \/ /\ Pc(r) = "beginning" /\ Reply(r) # "none"
     /\ IF Reply(r) = "ok" THEN Moves(r, "check") /\ Stays ELSE Ends(r, Hears(r, "error"), session)

\* CleanupFence: no interrupt reaches the rollback of the transaction.
Edit(r) ==
  \/ /\ Pc(r) = "check"
     /\ IF r \in token THEN Starts(r, "rollback", "undoing") ELSE Starts(r, "work", "running")
  \/ /\ Pc(r) = "running" /\ IsApply(r) /\ Reply(r) # "none"
     /\ \/ Starts(r, "rollback", "undoing")
        \/ /\ Reply(r) = "ok"
           /\ call' = IF call[r].step < Edits
                        THEN [call EXCEPT ![r].pc = "check", ![r].step = @ + 1]
                        ELSE [call EXCEPT ![r].pc = "decide"]
           /\ Stays

Undone(r) == Pc(r) = "undoing" /\ Reply(r) # "none" /\ Ends(r, Hears(r, "undone"), session)

\* Request::commit: the token is looked at and the fence raised in one step.
Commit(r) ==
  \/ /\ Pc(r) = "decide"
     /\ IF r \in token THEN Starts(r, "rollback", "undoing") ELSE Starts(r, "commit", "committing")
  \/ /\ Pc(r) = "committing" /\ IsApply(r) /\ Reply(r) # "none"
     /\ Ends(r, IF Reply(r) = "ok" THEN "ok" ELSE "error", session)

Job(r) == Acquire(r) \/ Run(r) \/ Begin(r) \/ Edit(r) \/ Undone(r) \/ Commit(r)
Steps(r) == GiveUp(r) \/ Watch(r) \/ Job(r)
================================================================================
