----------------------------- MODULE OracleDriver -----------------------------
(* Oracle: sqmeow-adapters/src/oracle.rs.  A request holds the session on a   *)
(* blocking thread and is never stopped once its SQL started; a session found *)
(* lost after a failure is dropped and opened again by the next request.      *)
EXTENDS DriverSession

\* A review that holds anything but edits is refused before it waits.
Enter(r) ==
  /\ Pc(r) = "wait"
  /\ \/ r \in token /\ Ends(r, "cancelled", session)
     \/ IsApply(r) /\ Ends(r, "error", session)
     \/ /\ r \notin token /\ holder = None
        /\ holder' = r /\ Moves(r, "job") /\ UNCHANGED <<session, sent, kill>>

\* The thread looks at the token, and at the session, before the work.
Job(r) ==
  /\ Pc(r) = "job"
  /\ IF r \in token THEN Ends(r, "cancelled", session)
     ELSE \/ Usable /\ IF IsApply(r) THEN Moves(r, "check") /\ Stays
                                     ELSE Sends(r, Statement(r), "running")
          \/ session = "down" /\ session' = "up" /\ UNCHANGED <<call, holder, sent, kill>>
          \/ ~Usable /\ Ends(r, "error", session)

\* run_statement: what changed is committed with the statement; a query that was
\* refused is executed instead.  run_plsql: what a block returned is read before its
\* changes are committed, and may not be readable.
Ran(r) ==
  \/ /\ Pc(r) = "running" /\ ~IsApply(r) /\ Reply(r) # "none"
     /\ IF Reply(r) = "ok"
          THEN \/ Statement(r) \in {"work", "block"} /\ Sends(r, "commit", "settling")
               \/ Statement(r) \in {"read", "commit"} /\ Notes(r, "ok", session)
               \/ Statement(r) \in {"read", "block"} /\ Notes(r, "error", session)
          ELSE IF Statement(r) = "read" THEN Sends(r, "read", "retrying")
                                        ELSE Notes(r, "error", session)
  \/ /\ Pc(r) = "retrying" /\ Reply(r) # "none"
     /\ IF Reply(r) = "ok" THEN Sends(r, "commit", "settling") ELSE Notes(r, "error", session)
  \/ /\ Pc(r) = "settling" /\ Reply(r) # "none"
     /\ Notes(r, IF Reply(r) = "ok" THEN "ok" ELSE "error", session)

\* Session::run: a failure is followed by a ping.
Probe(r) ==
  /\ Pc(r) = "done"
  /\ IF Outcome(r) = "ok" \/ session = "up" THEN Ends(r, Outcome(r), session)
                                            ELSE Ends(r, "unknown", GivenUp)

-----------------------------------------------------------------------------
(* apply *)

Rollback(r, o) ==
  /\ call' = [call EXCEPT ![r].pc = "undoing", ![r].outcome = o]
  /\ sent' = [sent EXCEPT ![r] = IF session = "up" THEN [what |-> "rollback", reply |-> "none"]
                                                   ELSE [what |-> "none", reply |-> "lost"]]
  /\ UNCHANGED <<holder, session, kill>>

Edit(r) ==
  \/ /\ Pc(r) = "check"
     /\ IF r \in token THEN Rollback(r, "cancelled") ELSE Sends(r, "work", "running")
  \/ /\ Pc(r) = "running" /\ IsApply(r) /\ Reply(r) # "none"
     /\ \/ Rollback(r, "undone")       \* refused, or a row count check_affected refuses
        \/ /\ Reply(r) = "ok"
           /\ call' = IF call[r].step < Edits
                        THEN [call EXCEPT ![r].pc = "check", ![r].step = @ + 1]
                        ELSE [call EXCEPT ![r].pc = "decide"]
           /\ Stays

Undone(r) ==
  /\ Pc(r) = "undoing" /\ Reply(r) # "none"
  /\ Notes(r, IF Reply(r) = "ok" THEN Outcome(r) ELSE "unknown", session)

Commit(r) ==
  \/ /\ Pc(r) = "decide"
     /\ IF r \in token THEN Rollback(r, "cancelled") ELSE Sends(r, "commit", "committing")
  \/ /\ Pc(r) = "committing" /\ Reply(r) # "none"
     /\ Notes(r, IF Reply(r) = "ok" THEN "ok" ELSE "unknown", session)

Steps(r) == Enter(r) \/ Job(r) \/ Ran(r) \/ Probe(r) \/ Edit(r) \/ Undone(r) \/ Commit(r)
================================================================================
