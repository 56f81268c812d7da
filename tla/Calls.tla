-------------------------------- MODULE Calls --------------------------------
(***************************************************************************)
(* The calls of one engine process: sqmeow-core/src/server/calls.rs,       *)
(* edits.rs and the session they share (session.rs).                       *)
(*                                                                         *)
(* A request ("execute", a refresh, "apply" or "restore") is checked and   *)
(* answered by the serve loop, and its work then runs as a task of its     *)
(* own.  Here a task is a job; each action below is one stretch of a       *)
(* handler that touches the shared session under one lock, so every order  *)
(* in which the tasks' lock operations can fall is a behaviour.            *)
(* A database call is one step that ends when the adapter returns: what    *)
(* goes on inside is the subject of SqliteWorker.                          *)
(***************************************************************************)
EXTENDS Integers, Sequences, FiniteSets

CONSTANTS
  Runs,           \* the "execute" and refresh requests the editor sends
  Applies,        \* its "apply" requests
  Restores,       \* its "restore" requests
  Conns,          \* open connections
  Conn,           \* the connection each request names
  Settings,       \* what `configure` may send: [size |-> history_size, limited |-> timeout]
  MaxStatements,  \* bound: statements in one run
  MaxResults,     \* bound: results one statement returns, files one restore adds
  None            \* no job

Jobs == Runs \cup Applies \cup Restores

ASSUME ConstantsOK ==
  /\ Runs \cap Applies = {} /\ Runs \cap Restores = {} /\ Applies \cap Restores = {}
  /\ Conn \in [Jobs -> Conns]
  /\ Settings \subseteq [size : Nat, limited : BOOLEAN]
  /\ MaxStatements \in Nat /\ MaxResults \in Nat
  /\ None \notin Jobs

VARIABLES
  \* Session (session.rs)
  issued,       \* next_call_id: the last call id given out
  held,         \* History.calls: the ids whose result can be read
  order,        \* History.order: the runs held, oldest first
  running,      \* the running map: [id, job] pairs, job standing for its token
  historySize,  \* Options.history_size
  timeout,      \* Options.timeout_ms > 0
  stash,        \* inserted: per connection, the apply whose rows are kept
  \* Tasks
  phase, callId,
  left,         \* statements still to run
  last,         \* whether the run holds a latest result
  kept,         \* call ids of the earlier results of the run
  wants,        \* the run asked for the rows an apply inserted
  limit,        \* the history limit store_run read
  verdict,      \* how the work ended
  armed,        \* the deadline's timer is running
  passed,       \* Deadline.passed
  \* What was observed
  tripper,      \* who tripped the job's token first
  said,         \* the events sent for the job, in order
  shown,        \* the runs that showed the rows an apply inserted
  log           \* every run ever stored

session == <<issued, held, order, running, historySize, timeout, stash>>
work == <<callId, left, last, kept, wants>>
vars == <<session, work, phase, limit, verdict, armed, passed, tripper, said,
          shown, log>>

Phases == {"idle", "accepted", "begun", "working", "ran", "keeping", "sized",
           "stored", "applied", "dropped", "telling", "told", "closed"}
Verdicts == {"none", "done", "error", "timeout", "cancelled"}

AtLeastOne(n) == IF n < 1 THEN 1 ELSE n

\* Fresh call ids: n calls of next_call_id.
Fresh(n) == issued + 1 .. issued + n

\* begin_call: the token registered for an id replaces the one before.
Register(id, j) == {r \in running : r.id # id} \cup {[id |-> id, job |-> j]}

\* RunningCall::drop removes whatever is registered under its id.
Unregister(id) == {r \in running : r.id # id}

\* Mutant: the last result of a success is left out of what is stored.
GroupWithoutLast(j) == kept[j]

\* What store_run is given: the earlier results, and the last one of a success.
Group(j) == kept[j] \cup (IF verdict[j] = "done" THEN {callId[j]} ELSE {})

\* The ids the editor was told hold a result: what it can name in an apply.
Reported == UNION {Group(j) : j \in {i \in Runs \cup Restores : phase[i] \in {"told", "closed"}}}

Goto(j, p) == phase' = [phase EXCEPT ![j] = p]

-----------------------------------------------------------------------------
Init ==
  /\ issued = 0 /\ held = {} /\ order = <<>> /\ running = {}
  /\ historySize = 32 /\ timeout = FALSE
  /\ stash = [c \in Conns |-> None]
  /\ phase = [j \in Jobs |-> "idle"]
  /\ callId = [j \in Jobs |-> 0] /\ left = [j \in Jobs |-> 0]
  /\ last = [j \in Jobs |-> FALSE] /\ kept = [j \in Jobs |-> {}]
  /\ wants = [j \in Jobs |-> FALSE] /\ limit = [j \in Jobs |-> 1]
  /\ verdict = [j \in Jobs |-> "none"]
  /\ armed = {} /\ passed = {}
  /\ tripper = [j \in Jobs |-> "none"] /\ said = [j \in Jobs |-> <<>>]
  /\ shown = [j \in Jobs |-> {}] /\ log = <<>>

-----------------------------------------------------------------------------
(* Requests, on the serve loop *)

\* configure: a history size of zero becomes one, and nothing held is trimmed.
Configure(setting) ==
  /\ historySize' = AtLeastOne(setting.size)
  /\ timeout' = setting.limited
  /\ UNCHANGED <<issued, held, order, running, stash, work, phase, limit,
                 verdict, armed, passed, tripper, said, shown, log>>

\* execute, and the refresh of result_view, which replays a run under a new id.
Execute(j, statements, inserted) ==
  /\ phase[j] = "idle"
  /\ Goto(j, "accepted")
  /\ issued' = issued + 1
  /\ callId' = [callId EXCEPT ![j] = issued + 1]
  /\ left' = [left EXCEPT ![j] = statements]
  /\ wants' = [wants EXCEPT ![j] = inserted]
  /\ UNCHANGED <<held, order, running, historySize, timeout, stash, last,
                 kept, limit, verdict, armed, passed, tripper, said, shown, log>>

\* apply names the result it edits, and runs under that result's call id.
Apply(j, id) ==
  /\ phase[j] = "idle"
  /\ Goto(j, "accepted")
  /\ callId' = [callId EXCEPT ![j] = id]
  /\ UNCHANGED <<session, left, last, kept, wants, limit, verdict, armed,
                 passed, tripper, said, shown, log>>

\* restore takes its call id at once and never registers it as running.
Restore(j) ==
  /\ phase[j] = "idle"
  /\ Goto(j, "accepted")
  /\ issued' = issued + 1
  /\ callId' = [callId EXCEPT ![j] = issued + 1]
  /\ UNCHANGED <<held, order, running, historySize, timeout, stash, left,
                 last, kept, wants, limit, verdict, armed, passed, tripper, said,
                 shown, log>>

\* cancel trips the token registered under the id and forgets it.
Cancel(id) ==
  /\ running' = Unregister(id)
  /\ tripper' = [j \in Jobs |->
       IF [id |-> id, job |-> j] \in running /\ tripper[j] = "none"
         THEN "cancel" ELSE tripper[j]]
  /\ UNCHANGED <<issued, held, order, historySize, timeout, stash, work, phase,
                 limit, verdict, armed, passed, said, shown, log>>

-----------------------------------------------------------------------------
(* The tasks *)

\* begin_call, and the deadline started over its token.
Begin(j) ==
  /\ phase[j] = "accepted"
  /\ Goto(j, IF j \in Runs THEN "begun" ELSE "working")
  /\ running' = Register(callId[j], j)
  /\ armed' = IF timeout THEN armed \cup {j} ELSE armed
  /\ UNCHANGED <<issued, held, order, historySize, timeout, stash, work, limit,
                 verdict, passed, tripper, said, shown, log>>

\* Mutant: the timer raises the flag and never trips the token.
TimerWithoutTrip(j) ==
  /\ j \in armed
  /\ armed' = armed \ {j}
  /\ passed' = passed \cup {j}
  /\ UNCHANGED <<session, work, phase, limit, verdict, tripper, said, shown, log>>

\* The timer: the flag first, then the token.  Aborted once the job is over.
Timer(j) ==
  /\ j \in armed
  /\ armed' = armed \ {j}
  /\ passed' = passed \cup {j}
  /\ tripper' = [tripper EXCEPT ![j] = IF @ = "none" THEN "deadline" ELSE @]
  /\ UNCHANGED <<session, work, phase, limit, verdict, said, shown, log>>

Announce(j) ==
  /\ phase[j] = "begun"
  /\ Goto(j, "working")
  /\ said' = [said EXCEPT ![j] = Append(@, "executing")]
  /\ UNCHANGED <<session, work, limit, verdict, armed, passed, tripper, shown, log>>

\* A statement returns results: each replaces the last one, which is kept as a
\* call of its own under a fresh id.
StatementReturns(j, results) ==
  LET older == IF last[j] THEN results ELSE results - 1
      new == IF results = 0 THEN {} ELSE Fresh(older)
  IN /\ phase[j] = "working" /\ left[j] > 0
     /\ left' = [left EXCEPT ![j] = @ - 1]
     /\ issued' = IF results = 0 THEN issued ELSE issued + older
     /\ kept' = [kept EXCEPT ![j] = @ \cup new]
     /\ last' = [last EXCEPT ![j] = @ \/ results > 0]
     /\ Goto(j, IF left[j] = 1 THEN "ran" ELSE "working")
     /\ verdict' = [verdict EXCEPT ![j] = IF left[j] = 1 THEN "done" ELSE @]
     /\ UNCHANGED <<held, order, running, historySize, timeout, stash,
                    callId, wants, limit, armed, passed, tripper, said, shown, log>>

\* How an error is told: a cancelled call that ran out of time is an error.
ErrorVerdict(j, cancelled) ==
  CASE ~cancelled      -> "error"
    [] j \in passed    -> "timeout"
    [] OTHER           -> "cancelled"

\* A statement fails, or gives up on the tripped token: the run stops there and
\* keeps the results it has.
StatementFails(j, cancelled) ==
  /\ phase[j] = "working"
  /\ cancelled => tripper[j] # "none"
  /\ verdict' = [verdict EXCEPT ![j] = ErrorVerdict(j, cancelled)]
  /\ kept' = [kept EXCEPT ![j] = @ \cup (IF last[j] THEN Fresh(1) ELSE {})]
  /\ issued' = IF last[j] THEN issued + 1 ELSE issued
  /\ last' = [last EXCEPT ![j] = FALSE]
  /\ Goto(j, IF last[j] \/ kept[j] # {} THEN "keeping" ELSE "telling")
  /\ UNCHANGED <<held, order, running, historySize, timeout, stash,
                 callId, left, wants, limit, armed, passed, tripper, said, shown, log>>

\* After its statements a run that asked for them takes the inserted rows.
TakeInserted(j) ==
  /\ phase[j] = "ran"
  /\ Goto(j, "keeping")
  /\ IF wants[j]
       THEN /\ stash' = [stash EXCEPT ![Conn[j]] = None]
            /\ shown' = [a \in Jobs |-> IF a = stash[Conn[j]] THEN shown[a] \cup {j}
                                                               ELSE shown[a]]
       ELSE UNCHANGED <<stash, shown>>
  /\ UNCHANGED <<issued, held, order, running, historySize, timeout, work, limit,
                 verdict, armed, passed, tripper, said, log>>

\* The saved files are read: without the run's own the restore fails, and any
\* of the others that can be read become calls of their own.
RestoreReads(j, found, others) ==
  /\ phase[j] = "accepted"
  /\ verdict' = [verdict EXCEPT ![j] = IF found THEN "done" ELSE "error"]
  /\ kept' = [kept EXCEPT ![j] = IF found THEN Fresh(others) ELSE {}]
  /\ issued' = IF found THEN issued + others ELSE issued
  /\ Goto(j, IF found THEN "keeping" ELSE "telling")
  /\ UNCHANGED <<held, order, running, historySize, timeout, stash,
                 callId, left, last, wants, limit, armed, passed, tripper, said,
                 shown, log>>

\* store_run reads the limit under the options lock, before the history lock.
ReadLimit(j) ==
  /\ phase[j] = "keeping"
  /\ Goto(j, "sized")
  /\ limit' = [limit EXCEPT ![j] = AtLeastOne(historySize)]
  /\ UNCHANGED <<session, work, verdict, armed, passed, tripper, said, shown, log>>

\* Mutant: off by one, the history keeps one run less than its limit.
ExcessOffByOne(runs, most) == IF Len(runs) >= most THEN Len(runs) - most + 1 ELSE 0

\* The oldest runs beyond a limit, which store_run forgets whole.
Excess(runs, most) == IF Len(runs) > most THEN Len(runs) - most ELSE 0
Store(j) ==
  LET runs == Append(order, Group(j))
      out == Excess(runs, limit[j])
  IN /\ phase[j] = "sized"
     /\ order' = SubSeq(runs, out + 1, Len(runs))
     /\ held' = (held \cup Group(j)) \ UNION {runs[i] : i \in 1..out}
     /\ log' = Append(log, Group(j))
     /\ Goto(j, IF j \in Runs /\ verdict[j] = "done" THEN "stored" ELSE "telling")
     /\ UNCHANGED <<issued, running, historySize, timeout, stash, work, limit,
                    verdict, armed, passed, tripper, said, shown>>

\* A successful run stops being cancellable before it says it is done.
DropRun(j) ==
  /\ phase[j] = "stored"
  /\ Goto(j, "telling")
  /\ running' = Unregister(callId[j])
  /\ UNCHANGED <<issued, held, order, historySize, timeout, stash, work, limit,
                 verdict, armed, passed, tripper, said, shown, log>>

\* The adapter's answer to an apply, and the guard dropped after it.
ApplyReturns(j, outcome) ==
  /\ phase[j] = "working"
  /\ outcome = "cancelled" => tripper[j] # "none"
  /\ Goto(j, "applied")
  /\ verdict' = [verdict EXCEPT ![j] = outcome]
  /\ UNCHANGED <<session, work, limit, armed, passed, tripper, said, shown, log>>
\* Mutant: the guard of an apply is never dropped.
DropApplyForgets(j) ==
  /\ phase[j] = "applied"
  /\ Goto(j, "dropped")
  /\ UNCHANGED <<session, work, limit, verdict, armed, passed, tripper, said, shown, log>>

DropApply(j) ==
  /\ phase[j] = "applied"
  /\ Goto(j, "dropped")
  /\ running' = Unregister(callId[j])
  /\ UNCHANGED <<issued, held, order, historySize, timeout, stash, work, limit,
                 verdict, armed, passed, tripper, said, shown, log>>

\* The rows inserts returned are kept for the rerun; the error is worded here,
\* after the guard is gone, so the deadline may have passed meanwhile.
Settle(j) ==
  /\ phase[j] = "dropped"
  /\ Goto(j, "telling")
  /\ IF verdict[j] = "done"
       THEN /\ stash' = [stash EXCEPT ![Conn[j]] = j]
            /\ UNCHANGED verdict
       ELSE /\ verdict' = [verdict EXCEPT ![j] = ErrorVerdict(j, @ = "cancelled")]
            /\ UNCHANGED stash
  /\ UNCHANGED <<issued, held, order, running, historySize, timeout, work, limit,
                 armed, passed, tripper, said, shown, log>>

\* call:state or apply:done is queued for the editor.
Tell(j) ==
  /\ phase[j] = "telling"
  /\ Goto(j, "told")
  /\ said' = [said EXCEPT ![j] = Append(@, verdict[j])]
  /\ UNCHANGED <<session, work, limit, verdict, armed, passed, tripper, shown, log>>

\* Mutant: every guard is dropped when its task returns, after the event.
CloseDropsAll(j) ==
  /\ phase[j] = "told"
  /\ Goto(j, "closed")
  /\ armed' = armed \ {j}
  /\ passed' = passed \ {j}
  /\ running' = Unregister(callId[j])
  /\ left' = [left EXCEPT ![j] = 0]
  /\ last' = [last EXCEPT ![j] = FALSE]
  /\ limit' = [limit EXCEPT ![j] = 1]
  /\ UNCHANGED <<issued, held, order, historySize, timeout, stash,
                 callId, kept, wants, verdict, tripper, said, shown, log>>

\* The task returns: its locals go, its deadline is aborted, and a run that
\* failed only now gives up its registration.
Close(j) ==
  /\ phase[j] = "told"
  /\ Goto(j, "closed")
  /\ armed' = armed \ {j}
  /\ passed' = passed \ {j}
  /\ running' = IF j \in Runs /\ verdict[j] # "done"
                  THEN Unregister(callId[j]) ELSE running
  /\ left' = [left EXCEPT ![j] = 0]
  /\ last' = [last EXCEPT ![j] = FALSE]
  /\ limit' = [limit EXCEPT ![j] = 1]
  /\ UNCHANGED <<issued, held, order, historySize, timeout, stash,
                 callId, kept, wants, verdict, tripper, said, shown, log>>

-----------------------------------------------------------------------------
Request ==
  \/ \E setting \in Settings : Configure(setting)
  \/ \E j \in Runs, n \in 1..MaxStatements, ins \in BOOLEAN : Execute(j, n, ins)
  \/ \E j \in Applies, id \in Reported : Apply(j, id)
  \/ \E j \in Restores : Restore(j)
  \/ \E j \in Jobs : phase[j] # "idle" /\ Cancel(callId[j])

\* What the database decides.
Returns(j) ==
  \/ /\ j \in Runs
     /\ \/ \E n \in 0..MaxResults : StatementReturns(j, n)
        \/ \E c \in BOOLEAN : StatementFails(j, c)
  \/ /\ j \in Applies
     /\ \E o \in {"done", "error", "cancelled"} : ApplyReturns(j, o)

RunStep(j) == Announce(j) \/ TakeInserted(j) \/ DropRun(j)
ApplyStep(j) == DropApply(j) \/ Settle(j)
RestoreStep(j) == \E found \in BOOLEAN, n \in 0..MaxResults : RestoreReads(j, found, n)

Step(j) ==
  \/ j \in Runs \cup Applies /\ Begin(j)
  \/ j \in Runs /\ RunStep(j)
  \/ j \in Applies /\ ApplyStep(j)
  \/ j \in Restores /\ RestoreStep(j)
  \/ Timer(j) \/ ReadLimit(j) \/ Store(j) \/ Tell(j) \/ Close(j)

Next == Request \/ \E j \in Jobs : Returns(j) \/ Step(j)

Spec == Init /\ [][Next]_vars

\* The runtime polls every task and timer again and again, and an adapter whose
\* token is tripped returns; how long a statement runs otherwise is not ours.
Fairness == \A j \in Jobs : /\ WF_vars(Step(j))
                            /\ WF_vars(tripper[j] # "none" /\ Returns(j))

FairSpec == Spec /\ Fairness
-----------------------------------------------------------------------------
(* Properties *)

\* The runs whose guard is alive, and the applies: those a cancel must reach.
InFlight(j) == phase[j] \in {"begun", "working", "ran", "keeping", "sized", "stored"}
               /\ j \notin Restores

TypeOK ==
  /\ issued \in Nat /\ held \in SUBSET Nat /\ order \in Seq(SUBSET Nat)
  /\ running \in SUBSET [id : Nat, job : Jobs]
  /\ historySize \in Nat \ {0} /\ timeout \in BOOLEAN
  /\ stash \in [Conns -> Jobs \cup {None}]
  /\ phase \in [Jobs -> Phases] /\ callId \in [Jobs -> Nat]
  /\ left \in [Jobs -> Nat] /\ last \in [Jobs -> BOOLEAN]
  /\ kept \in [Jobs -> SUBSET Nat] /\ wants \in [Jobs -> BOOLEAN]
  /\ limit \in [Jobs -> Nat \ {0}] /\ verdict \in [Jobs -> Verdicts]
  /\ armed \in SUBSET Jobs /\ passed \in SUBSET Jobs
  /\ tripper \in [Jobs -> {"none", "cancel", "deadline"}]
  /\ said \in [Jobs -> Seq(Verdicts \cup {"executing"})]
  /\ shown \in [Jobs -> SUBSET Jobs] /\ log \in Seq(SUBSET Nat)

\* A guard over the call id of j is alive: of a run until it returned, unless it is
\* done before, of an apply until the database answered.
Guarded(j) ==
  \/ j \in Runs /\ InFlight(j)
  \/ j \in Runs /\ phase[j] \in {"telling", "told"} /\ verdict[j] # "done"
  \/ j \in Applies /\ phase[j] \in {"working", "applied"}

\* A cancel of the id j works under finds j's token.
Registered(j) == [id |-> callId[j], job |-> j] \in running

\* Another apply of the same result begins or ends in this step.
Overlapped(j) ==
  \E a \in Applies \ {j} : callId[a] = callId[j] /\ ~(Guarded(a) <=> Guarded(a)')

\* While a call works and nobody tripped its token, a cancel of its id finds that
\* very token, from its first step on.  No other task's guard takes it away but one
\* of a second apply of the same result: nothing keeps the editor from sending that,
\* its token replaces the first one's, and whichever returns first removes it.
Cancellable ==
  [][\A j \in Jobs :
       /\ InFlight(j)' /\ tripper'[j] = "none"
       /\ InFlight(j) => Registered(j)
       => Registered(j)' \/ Overlapped(j)]_vars

\* What a cancel can still find belongs to a task that has not returned, one
\* per call id: "true" is never the answer about finished work.
RegistrySound ==
  /\ \A r \in running : /\ callId[r.job] = r.id
                         /\ phase[r.job] \notin {"idle", "accepted", "closed"}
                         /\ verdict[r.job] = "done" => phase[r.job] # "told"
  /\ \A r, s \in running : r.id = s.id => r = s

\* "done" is said of a run once its result was stored, and once only: a client
\* that asks for a page of it finds it, or finds it evicted by later runs.
DoneIsStored ==
  \A j \in Runs \cup Restores : "done" \in {said[j][i] : i \in 1..Len(said[j])} =>
    /\ \E i \in 1..Len(log) : callId[j] \in log[i] /\ kept[j] \subseteq log[i]
    /\ said[j][Len(said[j])] = "done"
    /\ \A i \in 1..Len(said[j]) - 1 : said[j][i] = "executing"

\* "cancelled" is said only of work a cancel stopped before its deadline passed.
CancelledMeansCancelled ==
  \A j \in Jobs : (\E i \in 1..Len(said[j]) : said[j][i] = "cancelled")
                     => tripper[j] = "cancel"

\* A client can act on what an event says of its call (Summary, finish).
EventsTrue == DoneIsStored /\ CancelledMeansCancelled

\* The results kept are what ResultLog promises: always the latest runs, whole,
\* the one just stored among them.
Promise == INSTANCE ResultLog WITH readable <- held
KeepsLatestRuns == Promise!Spec

\* Why the registry is sound, by induction: each kind of job keeps to its phases,
Owners == Runs \cup Restores

PhaseOK ==
  /\ \A j \in Runs : phase[j] \notin {"applied", "dropped"}
  /\ \A j \in Applies : phase[j] \in {"idle", "accepted", "working", "applied",
                                      "dropped", "telling", "told", "closed"}
  /\ \A j \in Restores : phase[j] \in {"idle", "accepted", "keeping", "sized",
                                       "telling", "told", "closed"}

\* a call id was issued, and names one call only,
IdsOK ==
  /\ \A j \in Owners : phase[j] # "idle" => callId[j] \in 1..issued
  /\ \A j \in Owners : kept[j] \subseteq 1..issued
  /\ \A i, j \in Owners : i # j /\ phase[i] # "idle" /\ phase[j] # "idle"
                            => callId[i] # callId[j]
  /\ \A i, j \in Owners : phase[i] # "idle" => callId[i] \notin kept[j]
  /\ \A i, j \in Owners : i # j => kept[i] \cap kept[j] = {}

\* an apply shares its id with no run that still works, and applies take turns,
AppliesOK ==
  /\ \A a \in Applies : phase[a] # "idle" =>
       /\ callId[a] \in 1..issued
       /\ \A r \in Runs : phase[r] # "idle" /\ callId[r] = callId[a] =>
            phase[r] \in {"told", "closed"} /\ verdict[r] = "done"

\* and a registered token belongs to work whose guard is alive.
RegistryOK ==
  /\ \A r \in running : callId[r.job] = r.id /\ Guarded(r.job)
  /\ \A r, s \in running : r.id = s.id => r = s

RegistryInv == PhaseOK /\ IdsOK /\ AppliesOK /\ RegistryOK

\* Whatever was asked to stop, or has a deadline, is answered in the end.
Answered ==
  \A j \in Jobs : (tripper[j] # "none" \/ j \in armed)
                  ~> \E i \in 1..Len(said[j]) : said[j][i] # "executing"
==============================================================================
