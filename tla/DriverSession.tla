---------------------------- MODULE DriverSession ----------------------------
(***************************************************************************)
(* What the drivers of sqmeow-adapters share: requests that are cancelled   *)
(* at any moment, a session with the server, and the server itself.         *)
(*                                                                          *)
(* A request is a run of one statement or the apply of a review; its token  *)
(* may trip at any time and its future may be dropped.  The server executes *)
(* what was sent, refuses it, or stops it for a kill that reached it; the   *)
(* connection may break at any moment, and then the server undoes what was  *)
(* not committed.  A write is a pair <<request, statement>>.                *)
(***************************************************************************)
EXTENDS Integers, Sequences, FiniteSets

CONSTANTS
  Runs,       \* the calls of execute
  Applies,    \* the calls of apply
  Kinds,      \* what a run may be: "read", "work", "begin", "commit", ...
  Edits,      \* how many statements a review has
  None

ASSUME SessionConstants ==
  /\ Runs \cap Applies = {}
  /\ Edits \in Nat \ {0}
  /\ None \notin Runs \cup Applies

Requests == Runs \cup Applies

VARIABLES
  adapter,    \* whose driver this is
  kind,       \* what each run is
  token,      \* the requests whose cancellation token is tripped
  call,       \* where each request is, its statement, how that ended, the answer
  holder,     \* who holds the execution lock
  session,    \* "up"; "broken" and nobody noticed; "closing", given up by the
              \* driver; "down", given up and over at the server
  sent,       \* what each request has at the server, and the reply that came
  kill,       \* the requests that asked for a kill the server has yet to get
  tx,         \* the session's transaction
  pending, durable  \* the writes in it, and those committed

choice == <<adapter, kind>>
driver == <<call, holder, session, sent, kill>>
db == <<tx, pending, durable>>
vars == <<choice, token, driver, db>>

Answers == {"none", "ok", "cancelled", "undone", "error", "unknown", "partial", "kept"}

Pc(r) == call[r].pc
Outcome(r) == call[r].outcome
Reply(r) == sent[r].reply
IsApply(r) == r \in Applies

\* What a request sends at its current step.
Statement(r) == IF IsApply(r) THEN "work" ELSE kind[r]

\* stream::interruptible: nothing that writes or controls a transaction.
Interruptible(r) == Statement(r) \in {"read", "meta"}

\* Adapters whose kill names the request and not the session.
Tagging == {"mongodb", "clickhouse"}

Usable == session \in {"up", "broken"}
GivenUp == CASE session = "up" -> "closing" [] session = "broken" -> "down" [] OTHER -> session

Nothing == [what |-> "none", reply |-> "none"]

-----------------------------------------------------------------------------
(* Steps of a driver, each on one request *)

Moves(r, p) == call' = [call EXCEPT ![r].pc = p]
Stays == UNCHANGED <<holder, session, sent, kill>>

\* A statement goes out; on a broken connection it comes back lost.
Sends(r, s, p) ==
  /\ Moves(r, p)
  /\ sent' = [sent EXCEPT ![r] = IF session = "up" THEN [what |-> s, reply |-> "none"]
                                                   ELSE [what |-> "none", reply |-> "lost"]]
  /\ UNCHANGED <<holder, session, kill>>

\* The request is over: its answer, the lock released, and what became of the session.
Ends(r, a, s) ==
  /\ call' = [call EXCEPT ![r].pc = "returned", ![r].answer = a]
  /\ holder' = IF holder = r THEN None ELSE holder
  /\ session' = s
  /\ UNCHANGED <<sent, kill>>

\* How the statement ended, for the request to look at.
Notes(r, o, s) ==
  /\ call' = [call EXCEPT ![r].pc = "done", ![r].outcome = o]
  /\ session' = s
  /\ UNCHANGED <<holder, sent, kill>>

\* The future is dropped: whoever holds the lock leaves it, and the session.
Drops(r, s) ==
  /\ Pc(r) \notin {"idle", "returned"}
  /\ Ends(r, "none", IF holder = r THEN s ELSE session)

-----------------------------------------------------------------------------
(* The callers *)

Call(r) ==
  /\ Pc(r) = "idle" /\ Moves(r, "wait") /\ Stays
  /\ UNCHANGED <<choice, token, db>>

\* A read for the drawer has no token.
Cancel(r) ==
  /\ Statement(r) # "meta"
  /\ r \notin token /\ Pc(r) \notin {"idle", "returned"}
  /\ token' = token \cup {r}
  /\ UNCHANGED <<choice, driver, db>>

-----------------------------------------------------------------------------
(* The server *)

AtServer(r) == session \in {"up", "closing"} /\ sent[r].what # "none"

Replied(r, o) == sent' = [sent EXCEPT ![r] = [what |-> "none", reply |-> o]]

Write(r) == <<r, call[r].step>>

\* BEGIN inside a transaction is a warning, an implicit COMMIT, or one level deeper;
\* the others refuse it.
Begins ==
  \/ tx = "none" /\ tx' = "open" /\ UNCHANGED <<pending, durable>>
  \/ adapter = "postgres" /\ tx = "open" /\ UNCHANGED db
  \/ adapter = "mysql" /\ tx = "open" /\ UNCHANGED tx
     /\ durable' = durable \cup pending /\ pending' = {}
  \/ adapter = "mssql" /\ tx = "open" /\ tx' = "nested" /\ UNCHANGED <<pending, durable>>

Commits ==
  \/ tx # "open" /\ tx' = (IF tx = "nested" THEN "open" ELSE "none")
     /\ UNCHANGED durable /\ pending' = IF tx = "aborted" THEN {} ELSE pending
  \/ tx = "open" /\ tx' = "none" /\ durable' = durable \cup pending /\ pending' = {}

RollsBack == tx' = "none" /\ pending' = {} /\ UNCHANGED durable

\* A change outside a transaction is final; Oracle opens one with the first change.
Autocommits == tx = "none" /\ adapter # "oracle"
Changes(r) ==
  IF Autocommits
    THEN durable' = durable \cup {Write(r)} /\ UNCHANGED <<tx, pending>>
    ELSE pending' = pending \cup {Write(r)} /\ tx' = "open" /\ UNCHANGED durable

\* The requests that have the session's transaction to themselves: MongoDB's belongs to
\* a client session of the review, SurrealDB's and Redis's to one message.
Own(r) == {w \in pending : w[1] = r}
Whole(r) == {<<r, i>> : i \in 1..Edits}

TakesEffect(r, s) ==
  \/ s \in {"read", "meta", "ask"} /\ UNCHANGED db
  \/ s \in {"work", "block"} /\ Changes(r)
  \/ s = "begin" /\ Begins
  \/ s = "commit" /\ Commits
  \/ s = "rollback" /\ RollsBack
  \/ s = "stage" /\ pending' = pending \cup {Write(r)} /\ UNCHANGED <<tx, durable>>
  \/ s = "publish" /\ durable' = durable \cup Own(r) /\ pending' = pending \ Own(r) /\ UNCHANGED tx
  \/ s = "discard" /\ pending' = pending \ Own(r) /\ UNCHANGED <<tx, durable>>
  \/ s = "batch" /\ durable' = durable \cup Whole(r) /\ UNCHANGED <<tx, pending>>

Serves(r) ==
  /\ AtServer(r)
  /\ tx = "aborted" => sent[r].what \in {"commit", "rollback"}
  /\ TakesEffect(r, sent[r].what)
  /\ Replied(r, "ok")
  /\ UNCHANGED <<choice, token, call, holder, session, kill>>

\* A failure undoes the statement; PostgreSQL's aborts the transaction, and a server
\* that stops a statement at a time limit of its own says the same as of a kill.
Aborts == IF adapter = "postgres" /\ tx = "open" THEN tx' = "aborted" /\ UNCHANGED <<pending, durable>>
                                                 ELSE UNCHANGED db
Refuses(r) ==
  /\ AtServer(r)
  /\ ~(adapter = "duckdb" /\ sent[r].what = "rollback")
  /\ IF sent[r].what = "commit" THEN RollsBack ELSE Aborts
  /\ \/ Replied(r, "error")
     \/ adapter = "postgres" /\ Replied(r, "killed")
     \/ adapter = "mongodb" /\ sent[r].what = "stage" /\ call[r].step = 1 /\ Replied(r, "standalone")
  /\ UNCHANGED <<choice, token, call, holder, session, kill>>

\* Redis runs each command of a MULTI by itself.
ServesSome(r) ==
  /\ AtServer(r) /\ adapter = "redis" /\ sent[r].what = "batch"
  /\ \E w \in SUBSET Whole(r) : durable' = durable \cup w
  /\ Replied(r, "some")
  /\ UNCHANGED <<choice, token, call, holder, session, kill, tx, pending>>

\* A kill strikes whatever the session executes, or what carries its tag, or nothing.
Tagged == {"read", "work", "stage"}
Struck(k) == {r \in Requests : AtServer(r) /\ (adapter \in Tagging => r = k /\ sent[r].what \in Tagged)}
KillArrives(k) ==
  /\ kill' = kill \ {k}
  /\ IF Struck(k) # {}
       THEN \E r \in Struck(k) : Replied(r, "killed") /\ Aborts
       ELSE UNCHANGED <<sent, db>>
  /\ UNCHANGED <<choice, token, call, holder, session>>

\* The connection is gone, one way or the other: what was in flight took effect or
\* not, what was uncommitted is undone.
Breaks ==
  /\ adapter # "duckdb"
  /\ session \in {"up", "closing"}
  /\ session' = IF session = "up" THEN "broken" ELSE "down"
  /\ tx' = "none" /\ pending' = {}
  /\ \/ UNCHANGED durable
     \/ \E r \in Requests :
          \/ sent[r].what = "commit" /\ tx = "open" /\ durable' = durable \cup pending
          \/ sent[r].what = "work" /\ Autocommits /\ durable' = durable \cup {Write(r)}
          \/ sent[r].what = "publish" /\ durable' = durable \cup Own(r)
          \/ sent[r].what = "batch" /\ \E w \in (IF adapter = "redis" THEN SUBSET Whole(r) ELSE {Whole(r)}) :
                                         durable' = durable \cup w
  /\ sent' = [r \in Requests |-> IF sent[r].what = "none" THEN sent[r]
                                 ELSE [what |-> "none", reply |-> "lost"]]
  /\ kill' = {}
  /\ UNCHANGED <<choice, token, call, holder>>

Server == (\E r \in Requests : Serves(r) \/ Refuses(r) \/ ServesSome(r)) \/ (\E k \in kill : KillArrives(k)) \/ Breaks
================================================================================
