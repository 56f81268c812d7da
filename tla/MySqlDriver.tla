----------------------------- MODULE MySqlDriver -----------------------------
(* MySQL and MariaDB: sqmeow-adapters/src/mysql.rs and mysql/native.rs.      *)
(* The session is given up (`unusable`) when a request leaves it unfinished, *)
(* and never opened again.                                                   *)
EXTENDS DriverSession

\* Only a run gives up waiting for the session.
Enter(r) ==
  /\ Pc(r) = "wait"
  /\ \/ r \in token /\ ~IsApply(r) /\ Ends(r, "cancelled", session)
     \/ /\ holder = None /\ (IsApply(r) \/ r \notin token)
        /\ IF ~Usable THEN Ends(r, "error", session)
           ELSE IF r \in token THEN Ends(r, "cancelled", session)
           ELSE /\ holder' = r
                /\ Moves(r, IF IsApply(r) THEN "begin" ELSE "check")
                /\ UNCHANGED <<session, sent, kill>>

\* run_owned, up to the statement sent.
Check(r) ==
  /\ Pc(r) = "check"
  /\ IF r \in token THEN Notes(r, "cancelled", session)
     ELSE IF ~Usable THEN Notes(r, "error", session)
     ELSE Sends(r, Statement(r), "running")

Heard(r) == CASE Reply(r) = "killed" -> "cancelled" [] Reply(r) = "ok" -> "ok" [] OTHER -> "error"

\* The token of a statement that writes is not looked at until it ended.
Settle(r) ==
  /\ \/ Pc(r) = "running" /\ (r \notin token \/ ~Interruptible(r))
     \/ Pc(r) = "stopped"
  /\ Reply(r) # "none" /\ Notes(r, Heard(r), session)

NoticeCancel(r) ==
  /\ Pc(r) = "running" /\ r \in token /\ Interruptible(r)
  /\ Moves(r, "stopping") /\ kill' = kill \cup {r}
  /\ UNCHANGED <<holder, session, sent>>

\* stop_query: KILL was answered; or it failed, and may still arrive.
StopQuery(r) ==
  /\ Pc(r) = "stopping"
  /\ \/ r \notin kill /\ Moves(r, "stopped") /\ Stays
     \/ Moves(r, "stopped") /\ session' = GivenUp /\ UNCHANGED <<holder, sent, kill>>

CleanupTimeout(r) == Pc(r) = "stopped" /\ Notes(r, "unknown", GivenUp)

\* A failure on a session that was given up is reported as that.
EndRun(r) ==
  /\ Pc(r) = "done" /\ ~IsApply(r)
  /\ Ends(r, IF Outcome(r) # "ok" /\ ~Usable THEN "error" ELSE Outcome(r), session)

\* Unfinished::drop, armed from the first message sent on.
Drop(r) == Drops(r, IF Pc(r) \in {"check", "begin", "done"} /\ ~IsApply(r) THEN session ELSE GivenUp)

-----------------------------------------------------------------------------
(* apply: START TRANSACTION commits what the user left open. *)

Begin(r) ==
  \/ Pc(r) = "begin" /\ Sends(r, "begin", "beginning")
  \/ /\ Pc(r) = "beginning" /\ Reply(r) # "none"
     /\ IF Reply(r) = "ok" THEN Moves(r, "check") /\ Stays ELSE Ends(r, "error", GivenUp)

NextEdit(r) ==
  /\ Pc(r) = "done" /\ IsApply(r) /\ Outcome(r) = "ok"
  /\ \/ Notes(r, "error", session)
     \/ /\ call' = IF call[r].step < Edits
                     THEN [call EXCEPT ![r].pc = "check", ![r].step = @ + 1]
                     ELSE [call EXCEPT ![r].pc = "decide"]
        /\ Stays

Undo(r) ==
  /\ Pc(r) = "done" /\ IsApply(r) /\ Outcome(r) # "ok"
  /\ IF ~Usable THEN Ends(r, "error", session) ELSE Sends(r, "rollback", "undoing")

Undone(r) ==
  /\ Pc(r) = "undoing" /\ Reply(r) # "none"
  /\ IF Reply(r) = "ok"
       THEN Ends(r, IF Outcome(r) = "cancelled" THEN "cancelled" ELSE "undone", session)
       ELSE Ends(r, "error", GivenUp)

\* Once COMMIT is sent, no answer but its own is given.
Commit(r) ==
  \/ /\ Pc(r) = "decide"
     /\ IF r \in token
          THEN Notes(r, "cancelled", session)
          ELSE Sends(r, "commit", "committing")
  \/ /\ Pc(r) = "committing" /\ Reply(r) # "none"
     /\ IF Reply(r) = "ok" THEN Ends(r, "ok", session) ELSE Ends(r, "unknown", GivenUp)

Steps(r) ==
  \/ Enter(r) \/ Check(r) \/ Settle(r) \/ NoticeCancel(r) \/ StopQuery(r)
  \/ CleanupTimeout(r) \/ EndRun(r)
  \/ Begin(r) \/ NextEdit(r) \/ Undo(r) \/ Undone(r) \/ Commit(r)
================================================================================
