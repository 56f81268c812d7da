----------------------------- MODULE MsSqlDriver -----------------------------
(* SQL Server: sqmeow-adapters/src/mssql.rs.  One session serves the runs,  *)
(* the reviews and the drawer; one that failed or was cancelled is dropped, *)
(* and the next request opens another.                                      *)
EXTENDS DriverSession

\* A run or a review waits for the slot or its cancel, a metadata read only for the
\* slot.
Enter(r) ==
  /\ Pc(r) = "wait"
  /\ \/ r \in token /\ Ends(r, "cancelled", session)
     \/ /\ holder = None /\ r \notin token
        /\ holder' = r /\ Moves(r, IF Usable THEN "open" ELSE "opening")
        /\ UNCHANGED <<session, sent, kill>>

\* A session of its own for the request; the server is done with the one before.
Open(r) ==
  \/ /\ Pc(r) = "opening"
     /\ \/ r \in token /\ Ends(r, "cancelled", session)
        \/ Ends(r, "error", session)
        \/ session = "down" /\ session' = "up" /\ Moves(r, "open") /\ UNCHANGED <<holder, sent, kill>>
  \/ /\ Pc(r) = "open"
     /\ IF IsApply(r) THEN Sends(r, "ask", "asking") ELSE Sends(r, Statement(r), "running")

\* Mutant: nobody asks whether a transaction is open.
AskNothing(r) ==
  Pc(r) = "asking" /\ Reply(r) # "none" /\ Sends(r, "begin", "beginning")

\* @@TRANCOUNT: a review does not join a transaction the user left open.
Ask(r) ==
  /\ Pc(r) = "asking"
  /\ CASE r \in token -> Ends(r, "cancelled", GivenUp)
       [] r \notin token /\ Reply(r) = "ok" ->
            IF tx # "none" THEN Ends(r, "error", session) ELSE Sends(r, "begin", "beginning")
       [] r \notin token /\ Reply(r) \notin {"ok", "none"} -> Ends(r, "error", GivenUp)
       [] OTHER -> FALSE

\* A cancel drops the work where it is.
Abort(r) ==
  /\ Pc(r) \in {"beginning", "running"} /\ r \in token
  /\ Moves(r, "attention") /\ Stays

\* Each statement of a review, its count checked, and the run of a statement.
Settle(r) ==
  /\ Pc(r) \in {"beginning", "running"} /\ r \notin token
  /\ Reply(r) # "none"
  /\ IF Reply(r) # "ok" THEN Notes(r, "error", session)
     ELSE IF Pc(r) = "beginning" THEN Sends(r, "work", "running")
     ELSE IF ~IsApply(r) THEN Notes(r, "ok", session)
     ELSE \/ Notes(r, "error", session)
          \/ call[r].step = Edits /\ Notes(r, "ok", session)
          \/ /\ call[r].step < Edits
             /\ call' = [call EXCEPT ![r].step = @ + 1, ![r].pc = "sending"] /\ Stays

SendNext(r) == Pc(r) = "sending" /\ Sends(r, "work", "running")

\* The attention and the rollback are bounded, and the session is dropped whatever
\* they say.
Discard(r) ==
  \/ Pc(r) = "attention" /\ Ends(r, "cancelled", GivenUp)
  \/ Pc(r) = "done" /\ Outcome(r) = "error" /\ Ends(r, "error", GivenUp)

EndRun(r) == Pc(r) = "done" /\ Outcome(r) = "ok" /\ ~IsApply(r) /\ Ends(r, "ok", session)

\* A cancellation never interrupts COMMIT.
Commit(r) ==
  \/ /\ Pc(r) = "done" /\ Outcome(r) = "ok" /\ IsApply(r)
     /\ IF r \in token THEN Ends(r, "cancelled", GivenUp) ELSE Sends(r, "commit", "committing")
  \/ /\ Pc(r) = "committing" /\ Reply(r) # "none"
     /\ IF Reply(r) = "ok" THEN Ends(r, "ok", session) ELSE Ends(r, "unknown", GivenUp)

Steps(r) ==
  \/ Enter(r) \/ Open(r) \/ Ask(r) \/ Abort(r) \/ Settle(r) \/ SendNext(r) \/ Discard(r)
  \/ EndRun(r) \/ Commit(r)
================================================================================
