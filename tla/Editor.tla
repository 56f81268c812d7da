--------------------------------- MODULE Editor ---------------------------------
(***************************************************************************)
(* The editor's side of the channel: lua/sqmeow/rpc/client.lua and         *)
(* events.lua, the mirror of the engine's session in core/state.lua, and   *)
(* the calls that open connections and run queries (api/connection.lua,    *)
(* api/query.lua, commands/engine.lua).                                    *)
(*                                                                         *)
(* Neovim runs Lua on one thread.  A request blocks it until its answer    *)
(* came; events that arrive meanwhile are queued, and handled by a         *)
(* callback scheduled once the caller had its answer.  Neovim may return   *)
(* from a request before or after it dispatched the events around the      *)
(* answer, so an answer and the events are two channels here, each in      *)
(* order.                                                                  *)
(* The engine is what the editor sees of connections.rs and calls.rs.      *)
(***************************************************************************)
EXTENDS Integers, Sequences, SequencesExt

CONSTANTS
  MaxConns,    \* bound: connections opened in one session
  MaxCalls,    \* bound: queries one engine runs
  MaxEngines,  \* bound: engines started
  None         \* no request, answer or call

ConnIds == 1..MaxConns
CallIds == 1..MaxCalls
Epochs == 1..MaxEngines

ASSUME BoundsOK ==
  /\ MaxConns \in Nat /\ MaxCalls \in Nat /\ MaxEngines \in Nat
  /\ \A k \in {"execute", "connect", "disconnect"}, c \in ConnIds : None # [kind |-> k, conn |-> c]
  /\ \A a \in {"no", "yes"}, i \in 0..MaxCalls : None # [ok |-> a, id |-> i]

VARIABLES
  \* the engine process
  epoch,      \* how many were started
  up,         \* whether the last one runs: "no" or "yes"
  issued,     \* call ids it gave out, counted from one
  accepted,   \* calls whose task has not said so yet
  running,    \* calls that said "executing"
  opening,    \* connections being opened
  open,       \* connections it holds
  closing,    \* connections removed, whose drivers are being closed
  \* the channel
  request,    \* what the blocked Lua call asked
  reply,      \* and its answer
  wire,       \* events on their way
  \* client.lua
  channel,    \* the engine requests go to, 0 for none
  lua,        \* "idle", "asking" in a request, or "draining" queued events
  pending,    \* pending_events
  scheduled,  \* whether a drain is scheduled: "no" or "yes"
  \* state.lua
  conns,      \* connections
  nextConn,   \* next_id
  call,       \* state.call, with the engine that runs it
  calls,      \* state.calls
  \* what was observed
  crashed,    \* an engine died and the state it left was not reset: "no" or "yes"
  abandoned   \* connections closed by the editor while they were being opened

engine == <<epoch, up, issued, accepted, running, opening, open, closing>>
wires == <<request, reply, wire>>
client == <<channel, lua, pending, scheduled>>
state == <<conns, nextConn, call, calls>>
vars == <<engine, wires, client, state, crashed, abandoned>>

Requests == [kind : {"execute", "connect", "disconnect"}, conn : ConnIds]
Replies == [ok : {"no", "yes"}, id : 0..MaxCalls]
CallEvents == [from : Epochs, kind : {"executing", "done"}, id : CallIds]
ConnEvents == [from : Epochs, kind : {"connected", "failed", "closed"}, id : ConnIds]
Events == CallEvents \cup ConnEvents
Calls == [id : CallIds, from : Epochs, state : {"executing", "done"}]

Event(kind, id) == [from |-> epoch, kind |-> kind, id |-> id]
Refused == [ok |-> "no", id |-> 0]

Init ==
  /\ epoch = 0 /\ up = "no" /\ issued = 0
  /\ accepted = {} /\ running = {}
  /\ opening = {} /\ open = {} /\ closing = {}
  /\ request = None /\ reply = None /\ wire = <<>>
  /\ channel = 0 /\ lua = "idle" /\ pending = <<>> /\ scheduled = "no"
  /\ conns = [c \in ConnIds |-> "none"] /\ nextConn = 0
  /\ call = None /\ calls = {}
  /\ crashed = "no" /\ abandoned = {}

-----------------------------------------------------------------------------
(* The engine *)

\* on_request: the answer is queued before the work it accepted is spawned.
Serve ==
  LET c == request.conn
  IN /\ request # None /\ reply = None /\ up = "yes"
     /\ CASE request.kind = "execute" /\ c \in open ->
               /\ issued < MaxCalls
               /\ issued' = issued + 1
               /\ accepted' = accepted \cup {issued + 1}
               /\ reply' = [ok |-> "yes", id |-> issued + 1]
               /\ UNCHANGED <<opening, open, closing>>
          [] request.kind = "execute" /\ c \notin open ->
               /\ reply' = Refused
               /\ UNCHANGED <<issued, accepted, opening, open, closing>>
          [] request.kind = "connect" ->
               /\ opening' = opening \cup {c}
               /\ reply' = [ok |-> "yes", id |-> 0]
               /\ UNCHANGED <<issued, accepted, open, closing>>
          [] request.kind = "disconnect" ->
               /\ open' = open \ {c}
               /\ closing' = closing \cup (open \cap {c})
               /\ reply' = [ok |-> "yes", id |-> 0]
               /\ UNCHANGED <<issued, accepted, opening>>
     /\ UNCHANGED <<epoch, up, running, request, wire, client, state,
                    crashed, abandoned>>

\* A run says it started, and later that it is over.
RunStarts(id) ==
  /\ id \in accepted
  /\ accepted' = accepted \ {id} /\ running' = running \cup {id}
  /\ wire' = Append(wire, Event("executing", id))
  /\ UNCHANGED <<epoch, up, issued, opening, open, closing, request, reply,
                 client, state, crashed, abandoned>>

RunEnds(id) ==
  /\ id \in running
  /\ running' = running \ {id}
  /\ wire' = Append(wire, Event("done", id))
  /\ UNCHANGED <<epoch, up, issued, accepted, opening, open, closing, request, reply,
                 client, state, crashed, abandoned>>

\* open: a driver that connected is held whatever happened meanwhile.  The event
\* "connecting" only repeats what connect recorded.
Opened(c, ok) ==
  /\ c \in opening
  /\ opening' = opening \ {c}
  /\ open' = IF ok THEN open \cup {c} ELSE open
  /\ wire' = Append(wire, Event(IF ok THEN "connected" ELSE "failed", c))
  /\ UNCHANGED <<epoch, up, issued, accepted, running, closing, request,
                 reply, client, state, crashed, abandoned>>

Closed(c) ==
  /\ c \in closing
  /\ closing' = closing \ {c}
  /\ wire' = Append(wire, Event("closed", c))
  /\ UNCHANGED <<epoch, up, issued, accepted, running, opening, open,
                 request, reply, client, state, crashed, abandoned>>

\* Nothing of a process outlives it.
Gone ==
  /\ up' = "no" /\ issued' = 0
  /\ accepted' = {} /\ running' = {}
  /\ opening' = {} /\ open' = {} /\ closing' = {}

\* The process dies: what it sent arrives, what it was asked is not answered.
Crash ==
  /\ up = "yes"
  /\ Gone
  /\ crashed' = "yes"
  /\ reply' = IF request # None /\ reply = None THEN Refused ELSE reply
  /\ UNCHANGED <<epoch, request, wire, client, state, abandoned>>

-----------------------------------------------------------------------------
(* client.lua *)

\* start, by command or by the first request: state.lua is left as it is.
Start ==
  /\ lua = "idle" /\ channel = 0 /\ epoch < MaxEngines
  /\ epoch' = epoch + 1 /\ up' = "yes"
  /\ channel' = epoch + 1
  /\ UNCHANGED <<issued, accepted, running, opening, open, closing, wires,
                 lua, pending, scheduled, conns, nextConn, call, calls, crashed, abandoned>>

\* on_exit of an engine nobody stopped.  Neovim drops what a closed channel has left.
OnExit ==
  /\ lua = "idle" /\ channel # 0 /\ up = "no"
  /\ channel' = 0 /\ wire' = <<>>
  /\ UNCHANGED <<engine, request, reply, lua, pending, scheduled, state, crashed, abandoned>>

\* Mutant: the queue of events outlives the engine.
DroppedNot == pending

\* stop drops the events that are queued.
Dropped == <<>>

\* The commands that stop or restart the engine reset the state after it, and what
\* the handlers of events that arrive while stop waits for the answer left there.
Stop ==
  /\ lua = "idle" /\ channel # 0
  /\ Gone
  /\ channel' = 0 /\ pending' = Dropped /\ wire' = <<>>
  /\ conns' = [c \in ConnIds |-> "none"] /\ nextConn' = 0 /\ call' = None /\ calls' = {}
  /\ crashed' = "no" /\ abandoned' = {}
  /\ UNCHANGED <<epoch, request, reply, lua, scheduled>>

\* request, from a caller that will record the answer.
Ask(kind, c) ==
  /\ lua = "idle" /\ channel # 0
  /\ lua' = "asking"
  /\ request' = [kind |-> kind, conn |-> c]
  /\ reply' = IF up = "yes" THEN None ELSE Refused
  /\ UNCHANGED <<engine, wire, channel, pending, scheduled, calls, call,
                 crashed>>

\* connect records the connection before it asks.
Connect ==
  /\ nextConn < MaxConns
  /\ nextConn' = nextConn + 1
  /\ conns' = [conns EXCEPT ![nextConn + 1] = "connecting"]
  /\ Ask("connect", nextConn + 1)
  /\ UNCHANGED abandoned

Disconnect(c) ==
  /\ conns[c] # "none"
  /\ Ask("disconnect", c)
  /\ abandoned' = IF c \in opening THEN abandoned \cup {c} ELSE abandoned
  /\ UNCHANGED <<conns, nextConn>>

\* Without an engine there is nothing to ask.
DisconnectOffline(c) ==
  /\ lua = "idle" /\ channel = 0 /\ conns[c] # "none"
  /\ conns' = [conns EXCEPT ![c] = "none"]
  /\ UNCHANGED <<engine, wires, client, nextConn, call, calls, crashed, abandoned>>

\* execute asks for the connection it finds in the state, open yet or not.
Execute(c) ==
  /\ conns[c] # "none" /\ issued < MaxCalls
  /\ Ask("execute", c)
  /\ UNCHANGED <<conns, nextConn, abandoned>>

\* Mutant: the events that came meanwhile wait for the next one.
ScheduleNothing == scheduled

\* A request that returns schedules a drain of what came meanwhile.
ScheduleDrain == IF pending # <<>> THEN "yes" ELSE scheduled

\* execute records the call that was accepted.
Record(answer) ==
  IF answer.ok = "yes" THEN [id |-> answer.id, from |-> channel, state |-> "executing"]
  ELSE call

\* The blocked call returns and its caller records what it was told.
Return ==
  LET c == request.conn
  IN /\ lua = "asking" /\ reply # None
     /\ lua' = "idle" /\ request' = None /\ reply' = None
     /\ scheduled' = ScheduleDrain
     /\ call' = IF request.kind = "execute" THEN Record(reply) ELSE call
     /\ conns' = IF \/ request.kind = "disconnect"
                    \/ request.kind = "connect" /\ reply = Refused
                   THEN [conns EXCEPT ![c] = "none"] ELSE conns
     /\ UNCHANGED <<engine, wire, channel, pending, nextConn, calls,
                    crashed, abandoned>>

\* drain_events refuses while a request waits, or a drain is scheduled.
MayDrain == IF lua = "idle" /\ scheduled = "no" THEN "draining" ELSE lua

\* dispatch queues an event, and handles it if it may.
Dispatch ==
  /\ wire # <<>>
  /\ wire' = Tail(wire)
  /\ pending' = Append(pending, Head(wire))
  /\ lua' = MayDrain
  /\ UNCHANGED <<engine, request, reply, channel, scheduled, state, crashed, abandoned>>

\* The scheduled drain.
RunScheduled ==
  /\ lua = "idle" /\ scheduled = "yes"
  /\ scheduled' = "no"
  /\ lua' = "draining"
  /\ UNCHANGED <<engine, wires, channel, pending, state, crashed, abandoned>>

-----------------------------------------------------------------------------
(* events.lua *)

\* on_call: the call an event names is the one on screen from then on, and a
\* finished one is recorded.
OnCall(e) ==
  /\ call' = [id |-> e.id, from |-> e.from,
              state |-> IF e.kind = "executing" THEN "executing" ELSE "done"]
  /\ calls' = IF e.kind = "done" THEN calls \cup {[id |-> e.id, from |-> e.from]} ELSE calls
  /\ UNCHANGED <<conns, nextConn>>

\* Mutant: the news of a connection the editor closed brings it back.
OnConnectionUnchecked(e) ==
  /\ conns' = [conns EXCEPT ![e.id] = IF e.kind = "connected" THEN "connected" ELSE "none"]
  /\ UNCHANGED <<nextConn, call, calls>>

\* on_connection: news of a connection the editor no longer knows is ignored.
OnConnection(e) ==
  /\ conns' = IF conns[e.id] = "none" THEN conns
              ELSE [conns EXCEPT ![e.id] = IF e.kind = "connected" THEN "connected" ELSE "none"]
  /\ UNCHANGED <<nextConn, call, calls>>

Handle ==
  LET e == Head(pending)
  IN /\ lua = "draining"
     /\ IF pending = <<>>
          THEN /\ lua' = IF request = None THEN "idle" ELSE "asking"
               /\ UNCHANGED <<pending, state>>
          ELSE /\ pending' = Tail(pending) /\ UNCHANGED lua
               /\ CASE e.kind \in {"executing", "done"} -> OnCall(e)
                    [] OTHER -> OnConnection(e)
     /\ UNCHANGED <<engine, wires, channel, scheduled, crashed, abandoned>>

-----------------------------------------------------------------------------
User == \/ Start \/ Stop \/ Connect
        \/ \E c \in ConnIds : Disconnect(c) \/ DisconnectOffline(c) \/ Execute(c)

Engine == \/ Serve
          \/ \E id \in CallIds : RunStarts(id) \/ RunEnds(id)
          \/ \E c \in ConnIds : (\E ok \in BOOLEAN : Opened(c, ok)) \/ Closed(c)

Neovim == OnExit \/ Return \/ Dispatch \/ RunScheduled \/ Handle

Next == User \/ Engine \/ Crash \/ Neovim

Spec == Init /\ [][Next]_vars

\* Neovim returns from answered requests, finishes a drain it began and runs what it
\* scheduled between two commands; the serve loop takes every request.
Fairness == /\ WF_vars(Serve) /\ WF_vars(Return)
            /\ WF_vars(Handle) /\ SF_vars(RunScheduled)

FairSpec == Spec /\ Fairness

-----------------------------------------------------------------------------
(* Properties *)

TypeOK ==
  /\ epoch \in 0..MaxEngines /\ up \in {"no", "yes"} /\ issued \in 0..MaxCalls
  /\ accepted \in SUBSET CallIds /\ running \in SUBSET CallIds
  /\ opening \in SUBSET ConnIds /\ open \in SUBSET ConnIds /\ closing \in SUBSET ConnIds
  /\ request \in Requests \cup {None} /\ reply \in Replies \cup {None}
  /\ wire \in Seq(Events) /\ pending \in Seq(Events)
  /\ channel \in 0..MaxEngines /\ lua \in {"idle", "asking", "draining"}
  /\ scheduled \in {"no", "yes"}
  /\ conns \in [ConnIds -> {"none", "connecting", "connected"}] /\ nextConn \in 0..MaxConns
  /\ call \in Calls \cup {None}
  /\ calls \in SUBSET [id : CallIds, from : Epochs]
  /\ crashed \in {"no", "yes"} /\ abandoned \in SUBSET ConnIds

\* An event of the kind about the call or connection has not been handled yet.
Coming(kind, id) ==
  \E i \in 1..Len(pending \o wire) : (pending \o wire)[i] = Event(kind, id)

\* "running..." is shown of a call only while its engine runs it or the event that
\* it ended is still to be handled: recording the accepted id never overwrites
\* the end of a call that was quicker than the answer.
RunningIsRunning ==
  call # None /\ crashed = "no" =>
    (call.state = "executing" => call.id \in accepted \cup running \/ Coming("done", call.id))

\* Call ids start over with each engine: every call the editor lists or shows, and
\* would read the rows of, is one of the engine its requests go to, although
\* events of the last one may have been queued when it was stopped.
CallsOfThisEngine ==
  channel # 0 /\ crashed = "no" => /\ \A c \in calls : c.from = channel
                                   /\ call # None => call.from = channel

\* "Mirrors engine session state": the connections core/state.lua shows as connected
\* are those the engine holds, up to events still to be handled, and to connections
\* the editor closed while they were being opened, which stay open unseen.
MirrorsConnections ==
  crashed = "no" /\ lua = "idle" =>
    \A c \in ConnIds :
      /\ conns[c] = "connected" => c \in open
      /\ c \in open => \/ conns[c] = "connected" \/ c \in abandoned
                       \/ Coming("connected", c)

\* What the editor shows of its engine is what the engine does.
SessionShown == RunningIsRunning /\ MirrorsConnections

\* Queued events are handled in the end, whatever else is asked meanwhile.
Drained == pending # <<>> ~> pending = <<>>
==============================================================================
