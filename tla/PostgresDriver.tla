---------------------------- MODULE PostgresDriver ----------------------------
(* PostgreSQL: sqmeow-adapters/src/postgres.rs and postgres/native.rs. *)
(* A session the driver gives up is never opened again.                *)
EXTENDS DriverSession

\* The execution lock, unless the cancel came first; the session is armed read-only
\* again, which a session that was given up is not.
Enter(r) ==
  /\ Pc(r) = "wait"
  /\ \/ r \in token /\ Ends(r, "cancelled", session)
     \/ /\ r \notin token /\ holder = None
        /\ \/ Ends(r, "error", GivenUp)
           \/ /\ session = "up"
              /\ holder' = r
              /\ Moves(r, IF IsApply(r) THEN "begin" ELSE "check")
              /\ UNCHANGED <<session, sent, kill>>

\* run_locked, up to the statement sent by collect.
Check(r) ==
  /\ Pc(r) = "check"
  /\ IF r \in token THEN Notes(r, "cancelled", session)
     ELSE IF ~Usable THEN Notes(r, "error", session)
     ELSE Sends(r, Statement(r), "running")

\* A server that stopped the statement, for us or for its own reasons, says the same.
Heard(r) == CASE Reply(r) = "killed" -> "cancelled" [] Reply(r) = "ok" -> "ok" [] OTHER -> "error"

Settle(r) ==
  /\ \/ Pc(r) = "running" /\ r \notin token
     \/ Pc(r) = "finishing"
  /\ Reply(r) # "none" /\ Notes(r, Heard(r), session)

\* Mutant: a cancelled statement is waited for, whatever it does.
NoticeCancelWaits(r) == Pc(r) = "running" /\ r \in token /\ Moves(r, "finishing") /\ Stays

\* The cancel of a statement that only reads is sent to the server, any other is
\* waited for.
NoticeCancel(r) ==
  /\ Pc(r) = "running" /\ r \in token
  /\ IF Interruptible(r)
       THEN /\ Moves(r, "stopping") /\ kill' = kill \cup {r}
            /\ UNCHANGED <<holder, session, sent>>
       ELSE Moves(r, "finishing") /\ Stays

\* Mutant: a cancel counts as delivered once it is written.
AcknowledgedAtOnce(r) == TRUE

\* The server closed the cancel's own connection: it is done with it.
Acknowledged(r) == r \notin kill

\* stop_query: acknowledged; or it failed, or timed out and may still arrive.
StopQuery(r) ==
  /\ Pc(r) = "stopping"
  /\ \/ Acknowledged(r) /\ Moves(r, "draining") /\ Stays
     \/ Moves(r, "quitting") /\ Stays

\* Only an acknowledged stop and an empty protocol leave the session in use.
Drain(r) ==
  /\ Pc(r) \in {"draining", "quitting"} /\ Reply(r) # "none"
  /\ \/ Pc(r) = "draining" /\ session = "up" /\ Notes(r, Heard(r), session)
     \/ Notes(r, Heard(r), GivenUp)

CleanupTimeout(r) ==
  Pc(r) \in {"stopping", "draining", "quitting"} /\ Notes(r, "unknown", GivenUp)

\* A run that failed keeps the session only if the protocol is drained.
EndRun(r) ==
  /\ Pc(r) = "done" /\ ~IsApply(r)
  /\ \/ Ends(r, Outcome(r), GivenUp) /\ Outcome(r) # "ok"
     \/ (Outcome(r) = "ok" \/ session = "up") /\ Ends(r, Outcome(r), session)

\* InFlight::drop
Drop(r) == Drops(r, GivenUp)

-----------------------------------------------------------------------------
(* apply *)

Begin(r) ==
  \/ Pc(r) = "begin" /\ Sends(r, "begin", "beginning")
  \/ /\ Pc(r) = "beginning" /\ Reply(r) # "none"
     /\ IF Reply(r) = "ok" THEN Moves(r, "check") /\ Stays ELSE Ends(r, "error", GivenUp)

\* check_affected, then the next statement or the end of the review.
NextEdit(r) ==
  /\ Pc(r) = "done" /\ IsApply(r) /\ Outcome(r) = "ok"
  /\ \/ Notes(r, "error", session)
     \/ /\ call' = IF call[r].step < Edits
                     THEN [call EXCEPT ![r].pc = "check", ![r].step = @ + 1]
                     ELSE [call EXCEPT ![r].pc = "decide"]
        /\ Stays

\* A failed statement: the rollback is waited for before the lock is released.
Undo(r) ==
  /\ Pc(r) = "done" /\ IsApply(r) /\ Outcome(r) # "ok"
  /\ IF ~Usable /\ Outcome(r) = "cancelled"
       THEN Ends(r, "cancelled", session)
       ELSE Sends(r, "rollback", "undoing")

Undone(r) ==
  /\ Pc(r) = "undoing"
  /\ \/ /\ Reply(r) = "ok"
        /\ Ends(r, IF Outcome(r) = "cancelled" THEN "cancelled" ELSE "undone", session)
     \/ /\ Reply(r) # "ok"        \* refused, lost, or not answered in time
        /\ Ends(r, IF Outcome(r) = "cancelled" THEN "cancelled" ELSE "error", GivenUp)

\* Mutant: a cancel still stops the review while it is being committed.
CommitInterrupted(r) ==
  \/ Pc(r) = "decide" /\ Sends(r, "commit", "committing")
  \/ /\ Pc(r) = "committing"
     /\ \/ Reply(r) = "ok" /\ Ends(r, "ok", session)
        \/ r \in token /\ Ends(r, "cancelled", GivenUp)

\* The last look at the token; COMMIT is never interrupted, and a failure that is not
\* the server's own word leaves the outcome open.
Commit(r) ==
  \/ /\ Pc(r) = "decide"
     /\ IF r \in token
          THEN /\ call' = [call EXCEPT ![r].outcome = "cancelled", ![r].pc = "undoing"]
               /\ sent' = [sent EXCEPT ![r] = IF session = "up" THEN [what |-> "rollback", reply |-> "none"]
                                                                ELSE [what |-> "none", reply |-> "lost"]]
               /\ UNCHANGED <<holder, session, kill>>
          ELSE Sends(r, "commit", "committing")
  \/ /\ Pc(r) = "committing"
     /\ CASE Reply(r) = "ok" -> Ends(r, "ok", session)
          [] Reply(r) = "error" -> \E s \in {session, GivenUp} : Ends(r, "error", s)
          [] Reply(r) = "killed" -> \E s \in {session, GivenUp} : Ends(r, "cancelled", s)
          [] Reply(r) = "lost" -> Ends(r, "unknown", GivenUp)
          [] OTHER -> FALSE

Steps(r) ==
  \/ Enter(r) \/ Check(r) \/ Settle(r) \/ NoticeCancel(r) \/ StopQuery(r) \/ Drain(r)
  \/ CleanupTimeout(r) \/ EndRun(r)
  \/ Begin(r) \/ NextEdit(r) \/ Undo(r) \/ Undone(r) \/ Commit(r)
================================================================================
