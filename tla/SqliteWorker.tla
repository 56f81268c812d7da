----------------------------- MODULE SqliteWorker -----------------------------
(***************************************************************************)
(* One SQLite connection: sqmeow-adapters/src/sqlite/worker.rs.            *)
(*                                                                         *)
(* The connection lives on a thread of its own.  Callers put commands in a *)
(* bounded queue and wait for a reply; a cancel, a dropped future and the  *)
(* connection's end interrupt whatever the thread executes, through a      *)
(* handle kept under one lock with the generation of the command it is     *)
(* for.  A COMMIT runs behind a fence, where no interrupt may reach it.    *)
(*                                                                         *)
(* A command is one request, whose fresh generation it stands for.  What a *)
(* statement reads is left out; a write is a pair <<request, statement>>.  *)
(***************************************************************************)
EXTENDS Integers, Sequences, FiniteSets

CONSTANTS
  Requests,    \* the calls of Worker::call
  Applies,     \* those that apply a review
  Script,      \* the statements of each: "work", "begin" or "commit"
  QueueSize,   \* the channel's capacity
  None,        \* no request
  Stop         \* the empty command that wakes the thread up

ASSUME WorkerConstants ==
  /\ Applies \subseteq Requests
  /\ Script \in [Requests -> Seq({"work", "begin", "commit"})]
  /\ \A a \in Applies : Script[a] # <<>>
  /\ QueueSize \in Nat \ {0}
  /\ None \notin Requests /\ Stop \notin Requests

VARIABLES
  \* The callers
  caller,      \* where each call is
  answer,      \* what it returned
  cancelled,   \* the requests cancelled from outside
  token,       \* the requests whose child token is tripped
  \* Shared
  queue, started, reply,
  generation,  \* Active.generation
  exposure,    \* Active.interrupt is "none", or there and the command is
               \* Active.cancellable ("exposed") or not ("fenced")
  closer,      \* close(), or the drop of the Worker
  \* The thread
  pc, cur,
  index,       \* the statement of the script
  outcome,     \* the result about to be replied
  \* The database
  signal,      \* SQLite's flag to interrupt the statement it runs
  transaction, \* whether one is open
  pending, durable   \* the writes in it, and those committed

calls == <<caller, answer, cancelled>>
lock == <<generation, exposure>>
thread == <<pc, cur, index, outcome>>
db == <<transaction, pending, durable>>
vars == <<calls, token, queue, started, reply, lock, closer, thread,
          signal, db>>

Callers == {"idle", "sending", "waiting", "interrupting", "awaiting", "dropping",
            "returned"}
Answers == {"none", "ok", "cancelled", "error"}
Points == {"recv", "publish", "test", "begin", "next", "ready", "running", "undo",
           "fence", "decide", "commit", "disarm", "reply", "clear", "finishing",
           "finished"}

Busy == Points \ {"recv", "finishing", "finished"}   \* a command was taken

Applying == cur \in Applies
Statement == Script[cur][index]
AtEnd == index > Len(Script[cur])

Stopping == closer # "open"     \* Shared.stopping

\* Mutant: whatever runs is interrupted.
InterruptAny(r) == signal' = IF exposure = "exposed" THEN "raised" ELSE signal

\* Shared::interrupt, for one generation: SQLite is told at most about it.
Interrupt(r) ==
  signal' = IF generation = r /\ exposure = "exposed" THEN "raised" ELSE signal

\* State::error: a failure of a request that was cancelled is its cancellation.
Failure == IF cur \in token THEN "cancelled" ELSE "error"

-----------------------------------------------------------------------------
Init ==
  /\ caller = [r \in Requests |-> "idle"] /\ answer = [r \in Requests |-> "none"]
  /\ cancelled = {} /\ token = {}
  /\ queue = <<>> /\ started = {} /\ reply = [r \in Requests |-> "none"]
  /\ generation = None /\ exposure = "none" /\ closer = "open"
  /\ pc = "recv" /\ cur = None /\ index = 1 /\ outcome = "none"
  /\ signal = "quiet" /\ transaction = "none" /\ pending = {} /\ durable = {}

-----------------------------------------------------------------------------
(* Worker::call *)

\* The call settles, and the guard it drops trips the token.
Settles(r, a) ==
  /\ answer' = [answer EXCEPT ![r] = a]
  /\ caller' = [caller EXCEPT ![r] = "dropping"]
  /\ token' = token \cup {r}

Call(r) ==
  /\ caller[r] = "idle"
  /\ IF r \in cancelled \/ Stopping
       THEN /\ caller' = [caller EXCEPT ![r] = "returned"]
            /\ answer' = [answer EXCEPT ![r] = IF r \in cancelled THEN "cancelled" ELSE "error"]
       ELSE caller' = [caller EXCEPT ![r] = "sending"] /\ UNCHANGED answer
  /\ UNCHANGED <<cancelled, token, queue, started, reply, lock, closer,
                 thread, signal, db>>

\* The child token is tripped with its parent.
Cancel(r) ==
  /\ r \notin cancelled /\ caller[r] # "returned"
  /\ cancelled' = cancelled \cup {r}
  /\ token' = token \cup {r}
  /\ UNCHANGED <<caller, answer, queue, started, reply, lock, closer,
                 thread, signal, db>>

Send(r) ==
  /\ caller[r] = "sending" /\ r \notin cancelled
  /\ pc # "finished" /\ Len(queue) < QueueSize
  /\ queue' = Append(queue, r)
  /\ caller' = [caller EXCEPT ![r] = "waiting"]
  /\ UNCHANGED <<answer, cancelled, token, started, reply, lock, closer,
                 thread, signal, db>>

\* A cancel while there is no room, or a thread that is gone.
SendEnds(r) ==
  /\ caller[r] = "sending"
  /\ \/ r \in cancelled /\ Settles(r, "cancelled")
     \/ r \notin cancelled /\ pc = "finished" /\ Settles(r, "error")
  /\ UNCHANGED <<cancelled, queue, started, reply, lock, closer,
                 thread, signal, db>>

\* The reply, or its sender dropped with the command.
Receive(r) ==
  /\ caller[r] \in {"waiting", "awaiting"}
  /\ reply[r] # "none" \/ pc = "finished"
  /\ Settles(r, IF reply[r] # "none" THEN reply[r] ELSE "error")
  /\ UNCHANGED <<cancelled, queue, started, reply, lock, closer,
                 thread, signal, db>>

\* Mutant: a cancelled call returns without waiting for what it started.
NoticeCancelAlways(r) ==
  /\ caller[r] = "waiting" /\ r \in cancelled
  /\ Settles(r, "cancelled")
  /\ UNCHANGED <<cancelled, queue, started, reply, lock, closer,
                 thread, signal, db>>

\* Mutant: a cancelled call waits for its reply even when it is only queued.
NoticeCancelWaits(r) ==
  /\ caller[r] = "waiting" /\ r \in cancelled
  /\ caller' = [caller EXCEPT ![r] = "interrupting"]
  /\ UNCHANGED <<answer, cancelled, token, queue, started, reply, lock, closer,
                 thread, signal, db>>

\* A cancelled call that never started is over; one that did is interrupted.
NoticeCancel(r) ==
  /\ caller[r] = "waiting" /\ r \in cancelled
  /\ IF r \notin started
       THEN Settles(r, "cancelled")
       ELSE /\ caller' = [caller EXCEPT ![r] = "interrupting"]
            /\ UNCHANGED <<answer, token>>
  /\ UNCHANGED <<cancelled, queue, started, reply, lock, closer,
                 thread, signal, db>>

InterruptOwn(r) ==
  /\ caller[r] = "interrupting"
  /\ caller' = [caller EXCEPT ![r] = "awaiting"]
  /\ Interrupt(r)
  /\ UNCHANGED <<answer, cancelled, token, queue, started, reply, lock,
                 closer, thread, db>>

\* The future is dropped before it is done: nobody hears an answer.
Abandon(r) ==
  /\ caller[r] \in {"sending", "waiting", "interrupting", "awaiting"}
  /\ caller' = [caller EXCEPT ![r] = "dropping"]
  /\ token' = token \cup {r}
  /\ UNCHANGED <<answer, cancelled, queue, started, reply, lock, closer,
                 thread, signal, db>>

\* The second half of RequestGuard::drop.
DropGuard(r) ==
  /\ caller[r] = "dropping"
  /\ caller' = [caller EXCEPT ![r] = "returned"]
  /\ Interrupt(r)
  /\ UNCHANGED <<answer, cancelled, token, queue, started, reply, lock,
                 closer, thread, db>>

-----------------------------------------------------------------------------
(* Shared::stop, and Worker::close around it *)

RaiseStop ==
  /\ closer = "open"
  /\ closer' = "flagged"
  /\ UNCHANGED <<calls, token, queue, started, reply, lock, thread, signal, db>>

StrikeActive ==
  /\ closer = "flagged" /\ closer' = "struck"
  /\ IF exposure = "exposed"
       THEN token' = token \cup {generation} /\ signal' = "raised"
       ELSE UNCHANGED <<token, signal>>
  /\ UNCHANGED <<calls, queue, started, reply, lock, thread, db>>

\* try_send gives up when the queue is full: the thread then has something to receive.
WakeThread ==
  /\ closer = "struck" /\ closer' = "closing"
  /\ queue' = IF Len(queue) < QueueSize /\ pc # "finished" THEN Append(queue, Stop) ELSE queue
  /\ UNCHANGED <<calls, token, started, reply, lock, thread, signal, db>>

Closed ==
  /\ closer = "closing" /\ pc = "finished" /\ closer' = "closed"
  /\ UNCHANGED <<calls, token, queue, started, reply, lock, thread, signal, db>>

Closing == RaiseStop \/ StrikeActive \/ WakeThread \/ Closed

-----------------------------------------------------------------------------
(* The thread: taking a command *)

At(p) == pc = p
Goto(p) == pc' = p

Take ==
  /\ At("recv") /\ queue # <<>>
  /\ queue' = Tail(queue)
  /\ IF Head(queue) = Stop \/ Stopping
       THEN Goto("finishing") /\ UNCHANGED cur
       ELSE Goto("publish") /\ cur' = Head(queue)
  /\ UNCHANGED <<calls, token, started, reply, lock, closer, index,
                 outcome, signal, db>>

\* Under the lock: the stop flag again, then the command becomes the active one.
Publish ==
  /\ At("publish")
  /\ IF Stopping
       THEN Goto("finishing") /\ UNCHANGED <<lock, started>>
       ELSE /\ Goto("test")
            /\ generation' = cur /\ exposure' = "exposed"
            /\ started' = started \cup {cur}
  /\ UNCHANGED <<calls, token, queue, reply, closer, cur, index, outcome, signal, db>>

\* The command's work looks at its token before anything else, and so does apply.
TestToken ==
  /\ At("test")
  /\ index' = 1
  /\ IF cur \in token
       THEN Goto("disarm") /\ outcome' = "cancelled"
       ELSE Goto(IF Applying THEN "begin" ELSE "next") /\ UNCHANGED outcome
  /\ UNCHANGED <<calls, token, queue, started, reply, lock, closer, cur,
                 signal, db>>

-----------------------------------------------------------------------------
(* State::run *)

\* How run leaves: an apply has its transaction to undo.
Leave(o) == /\ outcome' = o
            /\ Goto(IF Applying THEN "undo" ELSE "disarm")

\* Mutant: the token is armed again without a look at the stop flag.
EnableUnchecked ==
  /\ At("next") /\ exposure = "fenced" /\ ~AtEnd
  /\ exposure' = "exposed"
  /\ UNCHANGED <<calls, token, queue, started, reply, generation, closer, pc,
                 cur, index, outcome, signal, db>>

\* enable_cancel, before the statement that follows a COMMIT.
EnableCancel ==
  /\ At("next") /\ exposure = "fenced" /\ ~AtEnd
  /\ exposure' = "exposed"
  /\ token' = IF Stopping THEN token \cup {cur} ELSE token
  /\ UNCHANGED <<calls, queue, started, reply, generation, closer,
                 pc, cur, index, outcome, signal, db>>

\* A statement is prepared: the token, then what an edit may not contain, then
\* the fence of a COMMIT.
Prepare ==
  /\ At("next") /\ exposure = "exposed" /\ ~AtEnd
  /\ IF cur \in token THEN Leave("cancelled") /\ UNCHANGED exposure
     ELSE IF Applying /\ Statement # "work" THEN Leave("error") /\ UNCHANGED exposure
     ELSE /\ Goto("ready") /\ UNCHANGED outcome
          /\ exposure' = IF Statement = "commit" THEN "fenced" ELSE exposure
  /\ UNCHANGED <<calls, token, queue, started, reply, generation,
                 closer, cur, index, signal, db>>

\* SQLite forgets an interrupt that came while no statement ran.
Start ==
  /\ At("ready") /\ Goto("running")
  /\ signal' = "quiet"
  /\ UNCHANGED <<calls, token, queue, started, reply, lock, closer, cur,
                 index, outcome, db>>

\* What a statement does to the database.
TakesEffect ==
  \/ /\ Statement = "work" /\ transaction = "open"
     /\ pending' = pending \cup {<<cur, index>>}
     /\ UNCHANGED <<transaction, durable>>
  \/ /\ Statement = "work" /\ transaction = "none"
     /\ durable' = durable \cup {<<cur, index>>}
     /\ UNCHANGED <<transaction, pending>>
  \/ /\ Statement = "begin" /\ transaction = "none"
     /\ transaction' = "open"
     /\ UNCHANGED <<pending, durable>>
  \/ /\ Statement = "commit" /\ transaction = "open"
     /\ transaction' = "none"
     /\ durable' = durable \cup pending /\ pending' = {}

Succeeds ==
  /\ At("running") /\ Goto("next")
  /\ TakesEffect
  /\ index' = index + 1
  /\ UNCHANGED <<calls, token, queue, started, reply, lock, closer, cur,
                 outcome, signal>>

RollsBack == transaction' = "none" /\ pending' = {} /\ UNCHANGED durable

\* An error, an interrupt, or a row count that check_affected refuses: SQLite may
\* have undone the whole transaction, nothing, or the refused statement stands.
Fails ==
  /\ At("running")
  /\ Leave(Failure)
  /\ \/ UNCHANGED db
     \/ transaction = "open" /\ RollsBack
     \/ Applying /\ Statement = "work" /\ TakesEffect
  /\ UNCHANGED <<calls, token, queue, started, reply, lock, closer, cur,
                 index, signal>>

\* Rows are still coming when the token is seen: the statement is reset, and what
\* it wrote stands.
GivesUp ==
  /\ At("running") /\ Statement # "commit" /\ cur \in token
  /\ Leave("cancelled")
  /\ UNCHANGED db \/ TakesEffect
  /\ UNCHANGED <<calls, token, queue, started, reply, lock, closer, cur,
                 index, signal>>

\* The rows reach the cap: the rest of the script is left out.
Truncates ==
  /\ At("running") /\ Statement = "work" /\ ~Applying
  /\ Goto("disarm") /\ outcome' = "ok"
  /\ UNCHANGED db \/ TakesEffect
  /\ UNCHANGED <<calls, token, queue, started, reply, lock, closer, cur,
                 index, signal>>

\* An error is of bind values too many.
RunEnds ==
  /\ At("next") /\ AtEnd /\ ~Applying
  /\ Goto("disarm") /\ outcome' \in {"ok", "error"}
  /\ UNCHANGED <<calls, token, queue, started, reply, lock, closer, cur,
                 index, signal, db>>

-----------------------------------------------------------------------------
(* State::apply *)

\* BEGIN fails inside a transaction the user left open, and leaves it alone.
Begin ==
  /\ At("begin")
  /\ \/ /\ transaction = "none" /\ transaction' = "open"
        /\ Goto("next") /\ UNCHANGED outcome
     \/ Goto("disarm") /\ outcome' = Failure /\ UNCHANGED transaction
  /\ signal' = "quiet"
  /\ UNCHANGED <<calls, token, queue, started, reply, lock, closer, cur,
                 index, pending, durable>>

StatementsDone ==
  /\ At("next") /\ AtEnd /\ Applying
  /\ IF cur \in token THEN Leave("cancelled") ELSE Goto("fence") /\ UNCHANGED outcome
  /\ UNCHANGED <<calls, token, queue, started, reply, lock, closer, cur,
                 index, signal, db>>

\* disable_cancel: from here no interrupt reaches the connection.
Fence ==
  /\ At("fence") /\ Goto("decide")
  /\ exposure' = "fenced"
  /\ UNCHANGED <<calls, token, queue, started, reply, generation,
                 closer, cur, index, outcome, signal, db>>

Decide ==
  /\ At("decide")
  /\ IF cur \in token
       THEN Goto("disarm") /\ outcome' = "cancelled" /\ RollsBack /\ UNCHANGED signal
       ELSE Goto("commit") /\ signal' = "quiet" /\ UNCHANGED <<outcome, db>>
  /\ UNCHANGED <<calls, token, queue, started, reply, lock, closer, cur,
                 index>>

\* COMMIT, or the ROLLBACK after one that failed.
Commit ==
  /\ At("commit") /\ Goto("disarm")
  /\ \/ /\ outcome' = "ok" /\ transaction' = "none"
        /\ durable' = durable \cup pending /\ pending' = {}
     \/ outcome' = "error" /\ RollsBack
  /\ UNCHANGED <<calls, token, queue, started, reply, lock, closer, cur,
                 index, signal>>

Undo ==
  /\ At("undo") /\ Goto("disarm")
  /\ exposure' = "fenced"
  /\ IF transaction = "open" THEN RollsBack ELSE UNCHANGED db
  /\ UNCHANGED <<calls, token, queue, started, reply, generation,
                 closer, cur, index, outcome, signal>>

-----------------------------------------------------------------------------
(* The thread: replying *)

\* Disarmed before the reply is published.
Disarm ==
  /\ At("disarm") /\ Goto("reply")
  /\ exposure' = "fenced"
  /\ UNCHANGED <<calls, token, queue, started, reply, generation,
                 closer, cur, index, outcome, signal, db>>

Reply ==
  /\ At("reply") /\ Goto("clear")
  /\ reply' = [reply EXCEPT ![cur] = outcome]
  /\ UNCHANGED <<calls, token, queue, started, lock, closer, cur, index,
                 outcome, signal, db>>

Clear ==
  /\ At("clear") /\ Goto("recv")
  /\ exposure' = "none" /\ cur' = None
  /\ index' = 1 /\ outcome' = "none"
  /\ UNCHANGED <<calls, token, queue, started, reply, generation,
                 closer, signal, db>>

\* The connection and the commands still queued are dropped on this thread.
Finish ==
  /\ At("finishing") /\ Goto("finished")
  /\ queue' = <<>> /\ cur' = None
  /\ transaction' = "none" /\ pending' = {}
  /\ UNCHANGED <<calls, token, started, reply, lock, closer, index,
                 outcome, signal, durable>>

-----------------------------------------------------------------------------
\* What takes as long as the database lets it.
Executes == Succeeds \/ Fails \/ GivesUp \/ Truncates

\* What does not, COMMIT being given five seconds at most.
Bounded ==
  \/ Take \/ Publish \/ TestToken \/ EnableCancel \/ Prepare \/ Start \/ RunEnds
  \/ Begin \/ StatementsDone \/ Fence \/ Decide \/ Commit \/ Undo
  \/ Disarm \/ Reply \/ Clear \/ Finish

CallSteps(r) == \/ Send(r) \/ SendEnds(r) \/ Receive(r) \/ NoticeCancel(r)
                \/ InterruptOwn(r) \/ DropGuard(r)

Next ==
  \/ \E r \in Requests : Call(r) \/ Cancel(r) \/ Abandon(r) \/ CallSteps(r)
  \/ Closing \/ Executes \/ Bounded

Spec == Init /\ [][Next]_vars

\* The runtime polls every call, the thread runs, and a statement ends once its
\* token is tripped (the interrupt, the progress and the busy handler see to it)
\* or when it is a COMMIT behind its fence.
Fairness ==
  /\ \A r \in Requests : WF_vars(CallSteps(r))
  /\ WF_vars(StrikeActive \/ WakeThread \/ Closed)
  /\ WF_vars(Bounded)
  /\ WF_vars((cur \in token \/ exposure # "exposed") /\ Executes)

FairSpec == Spec /\ Fairness

-----------------------------------------------------------------------------
TypeOK ==
  /\ caller \in [Requests -> Callers] /\ answer \in [Requests -> Answers]
  /\ cancelled \in SUBSET Requests /\ token \in SUBSET Requests
  /\ queue \in Seq(Requests \cup {Stop}) /\ started \in SUBSET Requests
  /\ reply \in [Requests -> Answers]
  /\ generation \in Requests \cup {None} /\ exposure \in {"none", "exposed", "fenced"}
  /\ closer \in {"open", "flagged", "struck", "closing", "closed"}
  /\ pc \in Points /\ cur \in Requests \cup {None} /\ index \in Nat \ {0}
  /\ outcome \in Answers
  /\ pc \in Busy => cur \in Requests
  /\ pc \in Busy \ {"publish"} => exposure # "none"
  /\ exposure # "none" => generation \in Requests
  /\ signal \in {"quiet", "raised"} /\ transaction \in {"none", "open"}
  /\ pending \in SUBSET (Requests \X Nat) /\ durable \in SUBSET (Requests \X Nat)

\* An interrupt is only ever felt by a request that was itself cancelled, dropped
\* or stopped: a late cancel of one command never hits the next.
OwnInterrupt == At("running") /\ signal = "raised" => cur \in token

\* No interrupt reaches a COMMIT, the user's or a review's own.
FenceHolds ==
  (At("commit") \/ (At("running") /\ Statement = "commit")) => exposure = "fenced" /\ signal = "quiet"

\* A review works in a transaction of its own: it neither commits nor undoes
\* writes the user left uncommitted.
ApplyAlone ==
  Applying /\ pc \in {"next", "ready", "running", "undo", "fence", "decide", "commit"}
    => \A w \in pending : w[1] = cur

\* Once stop() returned, whatever runs outside the fence has its token tripped.
StopReaches ==
  closer \notin {"open", "flagged"} /\ exposure = "exposed" => cur \in token

\* Why, by induction: the connection is exposed to interrupts only while the
\* active command works outside a fence, and whoever interrupts it tripped its
\* token before; a review begins with an empty transaction.
Exposed == {"test", "begin", "next", "ready", "running", "undo", "fence", "disarm"}
LockOK ==
  /\ pc \in {"recv", "publish", "finishing", "finished"} => exposure = "none"
  /\ exposure = "exposed" => pc \in Exposed
  /\ exposure # "none" => generation = cur
  /\ pc \in {"ready", "running"} => index <= Len(Script[cur])

FenceOK ==
  /\ pc \in {"decide", "commit"} => exposure = "fenced"
  /\ pc \in {"ready", "running"} /\ Statement = "commit" => exposure = "fenced"
  /\ pc = "commit" => signal = "quiet"

TokensOK ==
  /\ \A r \in Requests : caller[r] \in {"interrupting", "awaiting", "dropping"} => r \in token
  /\ cancelled \subseteq token

OwnersOK ==
  /\ transaction = "none" => pending = {}
  /\ ApplyAlone

WorkerInv == LockOK /\ FenceOK /\ TokensOK /\ OwnersOK
               /\ OwnInterrupt /\ FenceHolds /\ StopReaches

\* The reviews in effect, and what their callers heard, as ApplyContract has it.
Writes(a) == {<<a, i>> : i \in 1..Len(Script[a])}
\* A review is in the database whole or not at all.
AllOrNothing == \A a \in Applies : (Writes(a) \cap durable) \in {{}, Writes(a)}

InEffect == {a \in Applies : Writes(a) \subseteq durable}
Contract == INSTANCE ApplyContract WITH Reviews <- Applies, effect <- InEffect,
                                        answer <- [a \in Applies |-> answer[a]]
KeepsContract == Contract!Spec

\* Why the contract is kept, by induction: a request is taken from the queue once,
InQueue(r) == \E i \in 1..Len(queue) : queue[i] = r

QueueOK ==
  /\ \A r \in Requests : InQueue(r) \/ cur = r \/ r \in started =>
       caller[r] \notin {"idle", "sending"}
  /\ \A i, k \in 1..Len(queue) : queue[i] = queue[k] /\ queue[i] # Stop => i = k
  /\ \A r \in Requests : InQueue(r) => cur # r /\ r \notin started
  /\ pc \in {"recv", "finished"} => cur = None
  /\ cur \in started <=> pc \in Busy \ {"publish"}
  /\ \A r \in Requests : reply[r] # "none" <=> r \in started /\ (cur = r => pc = "clear")
  /\ pc \in {"undo", "disarm", "reply"} => outcome # "none"

\* a review's writes stay in its own transaction until they are committed at once,
Inside == {"next", "ready", "running", "undo", "fence", "decide", "commit"}

WritesOK ==
  /\ pc \in {"begin", "undo", "fence", "decide", "commit"} => Applying
  /\ \A w \in pending \cup durable : w[1] \in started
  /\ \A w \in pending : w[1] \in Applies => cur = w[1] /\ pc \in Inside
  /\ Applying /\ pc \in Inside \ {"undo"} =>
       transaction = "open" /\ \A i \in 1..index - 1 : <<cur, i>> \in pending
  /\ Applying /\ pc \in {"ready", "running"} => Statement = "work" /\ index <= Len(Script[cur])
  /\ pc = "begin" => index = 1
  /\ Applying /\ pc = "next" => index <= Len(Script[cur]) + 1
  /\ Applying /\ pc \in {"fence", "decide", "commit"} => index = Len(Script[cur]) + 1
  /\ Applying /\ pc \in Inside \cup {"test", "begin"} => \A w \in durable : w[1] # cur
  /\ \A w \in durable : w[1] \in Applies => w[1] \in InEffect

\* and what is replied and answered follows them.
AnswersOK ==
  /\ Applying /\ pc \in {"disarm", "reply"} =>
       (outcome = "ok" <=> cur \in InEffect)
  /\ pc = "undo" => outcome # "ok"
  /\ \A a \in Applies : reply[a] # "none" => (reply[a] = "ok" <=> a \in InEffect)
  /\ \A a \in Applies : answer[a] # "none" => caller[a] \in {"dropping", "returned"}
  /\ \A a \in Applies : answer[a] = "ok" => reply[a] = "ok"
  /\ \A a \in Applies : answer[a] \notin {"none", "ok"} =>
       /\ a \notin InEffect
       /\ cur = a => pc \notin Inside \cup {"begin"}
       /\ a \in token \/ ~(InQueue(a) \/ cur = a)

ContractInv == QueueOK /\ WritesOK /\ AnswersOK

\* A call that is cancelled returns, even from behind a command that never ends, and
\* so does every call of a connection that closes: close() ends, and leaves none waiting.
AllReturn ==
  /\ Stopping ~> closer = "closed"
  /\ \A r \in Requests :
       caller[r] # "idle" /\ (r \in cancelled \/ Stopping) ~> caller[r] = "returned"
================================================================================
