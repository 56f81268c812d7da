------------------------------- MODULE Drivers -------------------------------
(***************************************************************************)
(* The adapters of sqmeow-adapters other than SQLite, each on its own: a    *)
(* run beside the apply of a review, a transaction the user may have left   *)
(* open before, cancels, dropped futures and broken connections at any      *)
(* moment; and what Adapter::apply promises.                                *)
(***************************************************************************)
EXTENDS DriverSession

CONSTANT Adapters     \* those to look at

Postgres == INSTANCE PostgresDriver
MySql == INSTANCE MySqlDriver
MsSql == INSTANCE MsSqlDriver
Oracle == INSTANCE OracleDriver
DuckDb == INSTANCE DuckDbDriver
Stores == INSTANCE StoreDrivers

Stored == {"mongodb", "surrealdb", "redis", "scylla", "clickhouse"}
AllAdapters == Stored \cup {"postgres", "mysql", "mssql", "oracle", "duckdb"}
ASSUME AdaptersAreModelled == Adapters \subseteq AllAdapters

\* What a run can be: the drawer shares only SQL Server's session, Oracle's runs are
\* never BEGIN, and the stores have no transaction of the user's.
KindsOf(a) ==
  CASE a \in Stored -> {"read", "work"}
    [] a = "oracle" -> {"read", "work", "block", "commit"}
    [] a = "mssql" -> {"read", "work", "begin", "commit", "meta"}
    [] OTHER -> {"read", "work", "begin", "commit"}

Steps(r) ==
  \/ adapter = "postgres" /\ Postgres!Steps(r)
  \/ adapter = "mysql" /\ MySql!Steps(r)
  \/ adapter = "mssql" /\ MsSql!Steps(r)
  \/ adapter = "oracle" /\ Oracle!Steps(r)
  \/ adapter = "duckdb" /\ DuckDb!Steps(r)
  \/ adapter \in Stored /\ Stores!Steps(r)

Drop(r) == \/ adapter = "postgres" /\ Postgres!Drop(r)
           \/ adapter = "mysql" /\ MySql!Drop(r)

\* A write the user made in a transaction left open.
Users == <<None, 1>>

Init ==
  /\ adapter \in Adapters /\ kind \in [Runs -> Kinds \cap KindsOf(adapter)]
  /\ token = {} /\ holder = None /\ session = "up" /\ kill = {}
  /\ call = [r \in Requests |-> [pc |-> "idle", step |-> 1, outcome |-> "none", answer |-> "none"]]
  /\ sent = [r \in Requests |-> Nothing]
  /\ \/ tx = "none" /\ pending = {}
     \/ adapter \notin Stored /\ tx = "open" /\ pending = {Users}
  /\ durable = {}

Local(A) == A /\ UNCHANGED <<choice, token, db>>

Next ==
  \/ \E r \in Requests : Call(r) \/ Cancel(r) \/ Local(Steps(r)) \/ Local(Drop(r))
  \/ Server

Spec == Init /\ [][Next]_vars

\* The runtime polls what can go on and timers fire, DuckDB's job and its watcher each
\* for itself; a kill is delivered; the server ends whatever does not only read, and
\* its side of a session the driver gave up.
Fairness ==
  /\ \A r \in Requests :
       /\ WF_vars(Local(adapter # "duckdb" /\ Steps(r)))
       /\ WF_vars(Local(adapter = "duckdb" /\ DuckDb!Job(r)))
       /\ WF_vars(Local(adapter = "duckdb" /\ DuckDb!GiveUp(r)))
       /\ WF_vars(Local(adapter = "duckdb" /\ DuckDb!Watch(r)))
  /\ \A r \in Requests : WF_vars(~Interruptible(r) /\ (Serves(r) \/ Refuses(r) \/ ServesSome(r)))
  /\ \A k \in Requests : WF_vars(k \in kill /\ KillArrives(k))
  /\ WF_vars(session = "closing" /\ Breaks)

FairSpec == Spec /\ Fairness

-----------------------------------------------------------------------------
Outcomes == {"none", "ok", "cancelled", "error", "unknown", "undone"}
Sendable == {"none", "read", "meta", "ask", "work", "block", "begin", "commit", "rollback",
             "stage", "publish", "discard", "batch"}
Replies == {"none", "ok", "error", "lost", "killed", "standalone", "some"}
Pcs == {"idle", "wait", "orphan", "open", "opening", "job", "task", "asking", "begin", "beginning",
        "check", "send", "sending", "running", "finishing", "stopping", "stopped", "draining",
        "quitting", "retrying", "settling", "turn", "waiting", "staging", "attention", "done",
        "decide", "committing", "undoing", "abort", "aborting", "killing", "returned"}

TypeOK ==
  /\ adapter \in Adapters /\ kind \in [Runs -> Kinds \cap KindsOf(adapter)]
  /\ token \subseteq Requests /\ kill \subseteq Requests /\ holder \in Requests \cup {None}
  /\ session \in {"up", "broken", "closing", "down"}
  /\ call \in [Requests -> [pc : Pcs, step : 1..Edits, outcome : Outcomes, answer : Answers]]
  /\ sent \in [Requests -> [what : Sendable, reply : Replies]]
  /\ \A r \in Requests : sent[r].what = "none" \/ sent[r].reply = "none"
  /\ tx \in {"none", "open", "nested", "aborted"}
  /\ pending \cup durable \subseteq (Requests \X (1..Edits)) \cup {Users}

Said(a) == call[a].answer
Made(a) == {w \in durable : w[1] = a}

\* A review that was applied is in the database, whole.
OkIsDurable == \A a \in Applies : Said(a) = "ok" => Made(a) = Whole(a)

\* Adapters that apply a review in a transaction.
Transactional == {"postgres", "mysql", "mssql", "oracle", "duckdb", "mongodb", "surrealdb"}

\* "cancelled" and "nothing was applied" mean that no change of the review is in the
\* database or ever will be, and so does any failure that leaves nothing open; only
\* SurrealDB's and Redis's message may have arrived when the connection was lost.
Refusals == {"cancelled", "undone"} \cup (IF adapter \in {"surrealdb", "redis"} THEN {} ELSE {"error"})
RefusedStays ==
  \A a \in Applies : Said(a) \in Refusals =>
    /\ Made(a) = {}
    /\ Usable /\ adapter \notin Stored => Own(a) = {}

\* A count of changes made before a cancel is exact.
PartialIsExact ==
  \A a \in Applies : Said(a) = "partial" =>
    Made(a) # {} /\ Made(a) = {<<a, i>> : i \in 1..call[a].step - 1}

\* Where there are transactions, a review is in the database whole or not at all.  A
\* standalone MongoDB, which says so to the first command, has none; and Oracle keeps
\* the session when a rollback is refused, so what it says may be unknown may be half.
AllOrNothing ==
  \A a \in Applies :
    /\ adapter \in Transactional
    /\ adapter = "mongodb" => Said(a) \in {"cancelled", "undone"}
    /\ adapter = "oracle" => Said(a) # "unknown"
    => Made(a) \in {{}, Whole(a)}

\* What the caller of an apply hears is true of the database, now and for good
\* (Adapter::apply): nothing is lost that was said to be applied, and nothing
\* comes of what was said not to be.
AnswersTrue == OkIsDurable /\ RefusedStays /\ PartialIsExact /\ AllOrNothing

\* A kill on its way to a session that is in use can only meet a statement of the
\* request that asked for it, and never a COMMIT or a rollback.
OwnKill ==
  \A k \in kill : \A r \in Struck(k) :
    session = "up" => r = k /\ sent[r].what \notin {"commit", "rollback", "publish"}

\* A review neither commits nor undoes what the user left uncommitted: DuckDB refuses
\* its BEGIN, SQL Server is asked first.
LeavesUsersWrites ==
  [][\A a \in Applies : adapter \in {"duckdb", "mssql"} /\ AtServer(a) /\ session = "up" /\ ~AtServer(a)'
       => (Users \in pending => Users \in pending' \/ session' # "up")]_vars

\* A cancelled request is answered even when the server never ends what it or another
\* request reads.  MySQL's reviews wait for the session whatever their token says;
\* Oracle and SurrealDB never stop what they started.
Answering(r) == \/ adapter \in AllAdapters \ {"mysql", "oracle", "surrealdb"}
                \/ adapter = "mysql" /\ ~IsApply(r)
CancelReturns ==
  \A r \in Requests : Answering(r) /\ r \in token ~> Pc(r) \in {"returned", "orphan"}
==============================================================================
