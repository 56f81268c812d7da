----------------------------- MODULE StoreDrivers -----------------------------
(* The stores without a session to share: mongodb.rs, surrealdb.rs, redis.rs, *)
(* scylla.rs and clickhouse.rs of sqmeow-adapters.  Requests run beside each  *)
(* other, SurrealDB's one at a time; a cancelled run is dropped, and killed   *)
(* at the server where it can be named.                                       *)
EXTENDS DriverSession

\* cancelled_after: how many changes were applied by then.
CancelledAfter(r) == IF call[r].step = 1 THEN "cancelled" ELSE "partial"

-----------------------------------------------------------------------------
(* A run *)

\* SurrealDB: the execution lock, and a task that nothing stops.
SurrealRun(r) ==
  /\ adapter = "surrealdb"
  /\ \/ /\ Pc(r) = "wait"
        /\ \/ r \in token /\ Ends(r, "cancelled", session)
           \/ /\ r \notin token /\ holder = None /\ holder' = r /\ Moves(r, "task")
              /\ UNCHANGED <<session, sent, kill>>
     \/ /\ Pc(r) = "task"
        /\ IF r \in token THEN Ends(r, "cancelled", session)
           ELSE Sends(r, IF IsApply(r) THEN "batch" ELSE Statement(r), "running")
     \/ /\ Pc(r) = "running" /\ ~IsApply(r) /\ Reply(r) # "none"
        /\ Ends(r, IF Reply(r) = "ok" THEN "ok" ELSE "error", session)

\* The others race the reply against the token.
Races(r, ifCancelled) ==
  /\ ~IsApply(r)
  /\ \/ Pc(r) = "wait" /\ r \notin token /\ Sends(r, Statement(r), "running")
     \/ /\ Pc(r) = "running" /\ r \notin token /\ Reply(r) # "none"
        /\ Ends(r, IF Reply(r) = "ok" THEN "ok" ELSE "error", session)
     \/ Pc(r) \in {"wait", "running"} /\ r \in token /\ ifCancelled

Kills(r) == Moves(r, "killing") /\ kill' = kill \cup {r} /\ UNCHANGED <<holder, session, sent>>

MongoRun(r) == adapter = "mongodb" /\ Races(r, Kills(r))
ClickHouseRun(r) == adapter = "clickhouse" /\ Races(r, Kills(r))
RedisRun(r) == adapter = "redis" /\ Races(r, Ends(r, "cancelled", session))
ScyllaRun(r) == adapter = "scylla" /\ Races(r, Ends(r, "cancelled", session))

\* MongoDB's kill, by the tag in the command's comment, and ClickHouse's, by the
\* query's id: both are bounded, and what became of them is not looked at.
MongoKill(r) == adapter = "mongodb" /\ Pc(r) = "killing" /\ ~IsApply(r) /\ Ends(r, "cancelled", session)
ClickHouseKill(r) == adapter = "clickhouse" /\ Pc(r) = "killing" /\ Ends(r, "cancelled", session)

-----------------------------------------------------------------------------
(* apply *)

ClickHouseApply(r) == adapter = "clickhouse" /\ Pc(r) = "wait" /\ IsApply(r) /\ Ends(r, "error", session)

\* One query: BEGIN, statements that throw when they find no record, COMMIT.
SurrealApply(r) ==
  /\ adapter = "surrealdb" /\ Pc(r) = "running" /\ IsApply(r) /\ Reply(r) # "none"
  /\ Ends(r, CASE Reply(r) = "ok" -> "ok" [] Reply(r) = "lost" -> "error" [] OTHER -> "undone", session)

\* One MULTI: it can be cancelled before it is sent, and keeps what did not fail.
RedisApply(r) ==
  /\ adapter = "redis" /\ IsApply(r)
  /\ \/ /\ Pc(r) = "wait"
        /\ IF r \in token THEN Ends(r, "cancelled", session) ELSE Sends(r, "batch", "running")
     \/ /\ Pc(r) = "running"
        /\ CASE Reply(r) = "ok" -> Ends(r, "ok", session)
             [] Reply(r) = "some" -> Ends(r, "kept", session)
             [] Reply(r) \in {"error", "lost"} -> Ends(r, "error", session)
             [] OTHER -> FALSE

\* One change after another: a cancel counts those made, a failure leaves its own open.
InTurn(r) ==
  \/ /\ Pc(r) = "turn"
     /\ IF r \in token THEN Ends(r, CancelledAfter(r), session) ELSE Sends(r, "work", "waiting")
  \/ /\ Pc(r) = "waiting" /\ Reply(r) # "none"
     /\ \/ Ends(r, "unknown", session)          \* refused, lost, or it found no row
        \/ /\ Reply(r) = "ok"
           /\ IF call[r].step = Edits THEN Ends(r, "ok", session)
              ELSE call' = [call EXCEPT ![r].pc = "turn", ![r].step = @ + 1] /\ Stays

ScyllaApply(r) ==
  /\ adapter = "scylla" /\ IsApply(r)
  /\ Pc(r) = "wait" /\ Moves(r, "turn") /\ Stays

\* The kill, then the abort, before the cancellation is answered.
MongoCancel(r) ==
  /\ adapter = "mongodb" /\ IsApply(r)
  /\ \/ Pc(r) = "killing" /\ Sends(r, "discard", "aborting")
     \/ /\ Pc(r) = "aborting" /\ Reply(r) # "none"
        /\ Ends(r, IF Reply(r) = "ok" THEN Outcome(r)
                   ELSE IF Outcome(r) = "cancelled" THEN "error" ELSE "unknown", session)

\* A transaction where there are some, one command after another where not.
MongoApply(r) ==
  /\ adapter = "mongodb" /\ IsApply(r)
  /\ \/ /\ Pc(r) = "wait"
        /\ IF r \in token THEN Ends(r, "cancelled", session) ELSE Moves(r, "check") /\ Stays
     \/ Pc(r) = "check" /\ r \notin token /\ Sends(r, "stage", "staging")
     \/ /\ Pc(r) \in {"check", "staging"} /\ r \in token
        /\ call' = [call EXCEPT ![r].pc = "killing", ![r].outcome = "cancelled"]
        /\ kill' = kill \cup {r} /\ UNCHANGED <<holder, session, sent>>
     \/ /\ Pc(r) = "staging" /\ r \notin token /\ Reply(r) # "none"
        /\ \/ Reply(r) = "standalone" /\ Moves(r, "turn") /\ Stays
           \/ /\ Reply(r) # "standalone"         \* refused, or it found no document
              /\ call' = [call EXCEPT ![r].pc = "abort", ![r].outcome = "undone"] /\ Stays
           \/ /\ Reply(r) = "ok"
              /\ call' = IF call[r].step < Edits
                           THEN [call EXCEPT ![r].pc = "check", ![r].step = @ + 1]
                           ELSE [call EXCEPT ![r].pc = "decide"]
              /\ Stays
     \/ Pc(r) = "abort" /\ Sends(r, "discard", "aborting")

MongoCommit(r) ==
  /\ adapter = "mongodb" /\ IsApply(r)
  /\ \/ /\ Pc(r) = "decide"
        /\ IF r \in token
             THEN call' = [call EXCEPT ![r].pc = "abort", ![r].outcome = "cancelled"] /\ Stays
             ELSE Sends(r, "publish", "committing")
     \/ /\ Pc(r) = "committing" /\ Reply(r) # "none"
        /\ Ends(r, IF Reply(r) = "ok" THEN "ok" ELSE "unknown", session)

Steps(r) ==
  \/ SurrealRun(r) \/ MongoRun(r) \/ ClickHouseRun(r) \/ RedisRun(r) \/ ScyllaRun(r)
  \/ MongoKill(r) \/ ClickHouseKill(r)
  \/ ClickHouseApply(r) \/ SurrealApply(r) \/ RedisApply(r) \/ InTurn(r) \/ ScyllaApply(r)
  \/ MongoApply(r) \/ MongoCancel(r) \/ MongoCommit(r)
================================================================================
