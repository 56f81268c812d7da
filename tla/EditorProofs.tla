------------------------------ MODULE EditorProofs ------------------------------
(***************************************************************************)
(* The editor's state is well typed; nothing it holds by call id is of     *)
(* another engine than the one its requests go to; and what it shows of    *)
(* the engine is what the engine does.  All of it unless an engine died.   *)
(***************************************************************************)
EXTENDS Editor, TLAPS

\* What the n-th engine sent.
Own(n) == {e \in Events : e.from = n}

\* A request is being answered only while Lua waits in it, for a known engine.
Waiting ==
  /\ lua = "idle" => request = None
  /\ lua = "asking" => request # None
  /\ request # None => channel # 0
  /\ reply # None => request # None
  /\ reply # None /\ request.kind = "execute" /\ reply.ok = "yes" => reply.id # 0

\* There is one engine, it is the last that was started, and one that does not
\* run works at nothing.
OneEngine ==
  /\ channel # 0 => channel = epoch
  /\ up = "yes" => channel # 0
  /\ up = "no" => accepted = {} /\ running = {} /\ opening = {} /\ closing = {}
  /\ channel # 0 /\ up = "no" => crashed = "yes"

\* Unless an engine died, everything held is of the last one, and without an
\* engine nothing is held.
Held ==
  crashed = "no" =>
    /\ wire \in Seq(Own(epoch)) /\ pending \in Seq(Own(epoch))
    /\ \A c \in calls : c.from = epoch
    /\ call # None => call.from = epoch
    /\ channel = 0 => wire = <<>> /\ pending = <<>> /\ calls = {} /\ call = None

SessionInv == Waiting /\ OneEngine /\ Held

\* What every request does, whatever is asked.
LEMMA AskStep ==
  ASSUME TypeOK, SessionInv, NEW k \in {"execute", "connect", "disconnect"},
         NEW c \in ConnIds, Ask(k, c)
  PROVE  /\ request' \in Requests /\ reply' \in Replies \cup {None}
         /\ Waiting' /\ OneEngine'
<1> USE DEF Ask, engine
<1>1. request' \in Requests /\ request' # None
  BY BoundsOK DEF Requests
<1>2. reply' = None \/ reply' = Refused
  OBVIOUS
<1>3. reply' \in Replies \cup {None}
  BY <1>2, BoundsOK DEF Refused, Replies
<1>4. Waiting'
  BY <1>1, <1>2 DEF Waiting, SessionInv, Refused
<1>5. OneEngine'
  BY DEF OneEngine, SessionInv
<1> QED
  BY <1>1, <1>3, <1>4, <1>5

\* What an engine at work sends is an event of its own, and is queued as one.
LEMMA Sent ==
  ASSUME TypeOK, SessionInv, up = "yes", NEW e \in CallEvents \cup ConnEvents,
         e.from = epoch, wire' = Append(wire, e), epoch' = epoch
  PROVE  crashed = "no" => wire' \in Seq(Own(epoch'))
<1>1. e \in Own(epoch)
  BY DEF Own, Events
<1> QED
  BY <1>1 DEF SessionInv, Held

\* The step of every operation, for the types and for the invariant.
LEMMA SessionStep ==
  ASSUME TypeOK, SessionInv, Next
  PROVE  TypeOK' /\ SessionInv'
<1> USE BoundsOK DEF engine, wires, client, state

<1>1. ASSUME Start PROVE TypeOK' /\ SessionInv'
  <2>1. TypeOK'
    BY <1>1 DEF Start, TypeOK, SessionInv, Waiting, OneEngine, Requests, Replies, Events, CallEvents, ConnEvents, Calls, Epochs, CallIds, ConnIds
  <2>2. Waiting' /\ OneEngine'
    BY <1>1 DEF Start, TypeOK, SessionInv, Waiting, OneEngine, Requests
  <2>3. Held'
    BY <1>1 DEF Start, TypeOK, SessionInv, Waiting, OneEngine, Held, Own, Events, CallEvents, ConnEvents
  <2> QED
    BY <2>1, <2>2, <2>3 DEF SessionInv
<1>2. ASSUME Stop PROVE TypeOK' /\ SessionInv'
  <2>1. TypeOK'
    BY <1>2 DEF Stop, Dropped, Gone, TypeOK, SessionInv, Waiting, OneEngine, Requests, Replies, Events, CallEvents, ConnEvents, Calls, Epochs, CallIds, ConnIds
  <2>2. Waiting' /\ OneEngine'
    BY <1>2 DEF Stop, Dropped, Gone, TypeOK, SessionInv, Waiting, OneEngine, Requests
  <2>3. Held'
    BY <1>2 DEF Stop, Dropped, Gone, TypeOK, SessionInv, Waiting, OneEngine, Held, Own, Events, CallEvents, ConnEvents
  <2> QED
    BY <2>1, <2>2, <2>3 DEF SessionInv
<1>3. ASSUME Connect PROVE TypeOK' /\ SessionInv'
  <2>0. request' \in Requests /\ reply' \in Replies \cup {None} /\ Waiting' /\ OneEngine'
    <3>1. nextConn + 1 \in ConnIds
      BY <1>3 DEF Connect, TypeOK, ConnIds
    <3> QED
      BY <1>3, <3>1, AskStep DEF Connect
  <2>1. TypeOK'
    BY <1>3, <2>0 DEF Connect, Ask, TypeOK, ConnIds
  <2>2. Waiting' /\ OneEngine'
    BY <2>0
  <2>3. Held'
    BY <1>3 DEF Connect, Ask, TypeOK, SessionInv, Waiting, OneEngine, Held, Own, Events, CallEvents, ConnEvents
  <2> QED
    BY <2>1, <2>2, <2>3 DEF SessionInv
<1>4. ASSUME NEW c \in ConnIds, Disconnect(c) PROVE TypeOK' /\ SessionInv'
  <2>0. request' \in Requests /\ reply' \in Replies \cup {None} /\ Waiting' /\ OneEngine'
    BY <1>4, AskStep DEF Disconnect
  <2>1. TypeOK'
    BY <1>4, <2>0 DEF Disconnect, Ask, TypeOK, ConnIds
  <2>2. Waiting' /\ OneEngine'
    BY <2>0
  <2>3. Held'
    BY <1>4 DEF Disconnect, Ask, TypeOK, SessionInv, Waiting, OneEngine, Held, Own, Events, CallEvents, ConnEvents
  <2> QED
    BY <2>1, <2>2, <2>3 DEF SessionInv
<1>5. ASSUME NEW c \in ConnIds, DisconnectOffline(c) PROVE TypeOK' /\ SessionInv'
  <2>1. TypeOK'
    BY <1>5 DEF DisconnectOffline, TypeOK, SessionInv, Waiting, OneEngine, Requests, Replies, Events, CallEvents, ConnEvents, Calls, Epochs, CallIds, ConnIds
  <2>2. Waiting' /\ OneEngine'
    BY <1>5 DEF DisconnectOffline, TypeOK, SessionInv, Waiting, OneEngine, Requests
  <2>3. Held'
    BY <1>5 DEF DisconnectOffline, TypeOK, SessionInv, Waiting, OneEngine, Held, Own, Events, CallEvents, ConnEvents
  <2> QED
    BY <2>1, <2>2, <2>3 DEF SessionInv
<1>6. ASSUME NEW c \in ConnIds, Execute(c) PROVE TypeOK' /\ SessionInv'
  <2>0. request' \in Requests /\ reply' \in Replies \cup {None} /\ Waiting' /\ OneEngine'
    BY <1>6, AskStep DEF Execute
  <2>1. TypeOK'
    BY <1>6, <2>0 DEF Execute, Ask, TypeOK, ConnIds
  <2>2. Waiting' /\ OneEngine'
    BY <2>0
  <2>3. Held'
    BY <1>6 DEF Execute, Ask, TypeOK, SessionInv, Waiting, OneEngine, Held, Own, Events, CallEvents, ConnEvents
  <2> QED
    BY <2>1, <2>2, <2>3 DEF SessionInv
<1>7. ASSUME Serve PROVE TypeOK' /\ SessionInv'
  <2> DEFINE c == request.conn
  <2>0. request \in Requests /\ c \in ConnIds /\ up = "yes"
    BY <1>7 DEF Serve, TypeOK, Requests
  <2>a. ASSUME request.kind = "execute", c \in open
       PROVE  TypeOK' /\ Waiting' /\ OneEngine'
    <3>1. issued + 1 \in CallIds
      BY <1>7, <2>a DEF Serve, TypeOK, CallIds
    <3>2. reply' = [ok |-> "yes", id |-> issued + 1] /\ reply' \in Replies
      BY <1>7, <2>a, <3>1 DEF Serve, Replies, CallIds
    <3>3. TypeOK'
      BY <1>7, <2>0, <2>a, <3>1, <3>2 DEF Serve, TypeOK, CallIds
    <3>4. Waiting' /\ OneEngine'
      BY <1>7, <2>0, <2>a, <3>1, <3>2 DEF Serve, TypeOK, CallIds, SessionInv, Waiting, OneEngine
    <3> QED
      BY <3>3, <3>4
  <2>b. ASSUME request.kind = "execute", c \notin open
       PROVE  TypeOK' /\ Waiting' /\ OneEngine'
    <3>1. reply' = Refused /\ reply' \in Replies
      BY <1>7, <2>b DEF Serve, Refused, Replies
    <3>2. TypeOK'
      BY <1>7, <2>0, <2>b, <3>1 DEF Serve, TypeOK
    <3>3. Waiting' /\ OneEngine'
      BY <1>7, <2>0, <2>b, <3>1 DEF Serve, SessionInv, Waiting, OneEngine, Refused
    <3> QED
      BY <3>2, <3>3
  <2>c. ASSUME request.kind \in {"connect", "disconnect"}
       PROVE  TypeOK' /\ Waiting' /\ OneEngine'
    <3>1. reply' = [ok |-> "yes", id |-> 0]
      <4>1. CASE request.kind = "connect"
        BY <1>7, <4>1 DEF Serve
      <4>2. CASE request.kind = "disconnect"
        BY <1>7, <4>2 DEF Serve
      <4> QED
        BY <2>c, <4>1, <4>2
    <3>2. reply' \in Replies \cup {None}
      BY <3>1, BoundsOK DEF Replies
    <3>3. TypeOK'
      <4>1. CASE request.kind = "connect"
        BY <1>7, <2>0, <3>2, <4>1 DEF Serve, TypeOK
      <4>2. CASE request.kind = "disconnect"
        BY <1>7, <2>0, <3>2, <4>2 DEF Serve, TypeOK
      <4> QED
        BY <2>c, <4>1, <4>2
    <3>4. Waiting' /\ OneEngine'
      BY <1>7, <2>0, <2>c, <3>1 DEF Serve, SessionInv, Waiting, OneEngine
    <3> QED
      BY <3>3, <3>4
  <2>1. TypeOK'
    BY <2>0, <2>a, <2>b, <2>c DEF Requests
  <2>2. Waiting' /\ OneEngine'
    BY <2>0, <2>a, <2>b, <2>c DEF Requests
  <2>3. Held'
    BY <1>7 DEF Serve, Refused, TypeOK, SessionInv, Waiting, OneEngine, Held, Own, Events, CallEvents, ConnEvents
  <2> QED
    BY <2>1, <2>2, <2>3 DEF SessionInv
<1>8. ASSUME NEW id \in CallIds, RunStarts(id) PROVE TypeOK' /\ SessionInv'
  <2>1. TypeOK'
    BY <1>8 DEF RunStarts, Event, TypeOK, SessionInv, Waiting, OneEngine, Requests, Replies, Events, CallEvents, ConnEvents, Calls, Epochs, CallIds, ConnIds
  <2>2. Waiting' /\ OneEngine'
    BY <1>8 DEF RunStarts, Event, TypeOK, SessionInv, Waiting, OneEngine, Requests
  <2>3. Held'
    <3> DEFINE e == Event("executing", id)
    <3>1. up = "yes" /\ e \in CallEvents \cup ConnEvents /\ e.from = epoch
      BY <1>8 DEF RunStarts, Event, CallEvents, ConnEvents, SessionInv, OneEngine, TypeOK, Epochs
    <3>2. crashed = "no" => wire' \in Seq(Own(epoch'))
      BY <1>8, <3>1, Sent DEF RunStarts
    <3> QED
      BY <1>8, <3>1, <3>2 DEF RunStarts, SessionInv, OneEngine, Held
  <2> QED
    BY <2>1, <2>2, <2>3 DEF SessionInv
<1>9. ASSUME NEW id \in CallIds, RunEnds(id) PROVE TypeOK' /\ SessionInv'
  <2>1. TypeOK'
    BY <1>9 DEF RunEnds, Event, TypeOK, SessionInv, Waiting, OneEngine, Requests, Replies, Events, CallEvents, ConnEvents, Calls, Epochs, CallIds, ConnIds
  <2>2. Waiting' /\ OneEngine'
    BY <1>9 DEF RunEnds, Event, TypeOK, SessionInv, Waiting, OneEngine, Requests
  <2>3. Held'
    <3> DEFINE e == Event("done", id)
    <3>1. up = "yes" /\ e \in CallEvents \cup ConnEvents /\ e.from = epoch
      BY <1>9 DEF RunEnds, Event, CallEvents, ConnEvents, SessionInv, OneEngine, TypeOK, Epochs
    <3>2. crashed = "no" => wire' \in Seq(Own(epoch'))
      BY <1>9, <3>1, Sent DEF RunEnds
    <3> QED
      BY <1>9, <3>1, <3>2 DEF RunEnds, SessionInv, OneEngine, Held
  <2> QED
    BY <2>1, <2>2, <2>3 DEF SessionInv
<1>10. ASSUME NEW c \in ConnIds, NEW ok \in BOOLEAN, Opened(c, ok) PROVE TypeOK' /\ SessionInv'
  <2>1. TypeOK'
    BY <1>10, SMTT(30) DEF Opened, Event, TypeOK, SessionInv, Waiting, OneEngine, Requests, Replies, Events, CallEvents, ConnEvents, Calls, Epochs, CallIds, ConnIds
  <2>2. Waiting' /\ OneEngine'
    BY <1>10 DEF Opened, Event, TypeOK, SessionInv, Waiting, OneEngine, Requests
  <2>3. Held'
    <3> DEFINE e == Event(IF ok THEN "connected" ELSE "failed", c)
    <3>1. up = "yes" /\ e \in CallEvents \cup ConnEvents /\ e.from = epoch
      BY <1>10 DEF Opened, Event, CallEvents, ConnEvents, SessionInv, OneEngine, TypeOK, Epochs
    <3>2. crashed = "no" => wire' \in Seq(Own(epoch'))
      BY <1>10, <3>1, Sent DEF Opened
    <3> QED
      BY <1>10, <3>1, <3>2 DEF Opened, SessionInv, OneEngine, Held
  <2> QED
    BY <2>1, <2>2, <2>3 DEF SessionInv
<1>11. ASSUME NEW c \in ConnIds, Closed(c) PROVE TypeOK' /\ SessionInv'
  <2>1. TypeOK'
    BY <1>11 DEF Closed, Event, TypeOK, SessionInv, Waiting, OneEngine, Requests, Replies, Events, CallEvents, ConnEvents, Calls, Epochs, CallIds, ConnIds
  <2>2. Waiting' /\ OneEngine'
    BY <1>11 DEF Closed, Event, TypeOK, SessionInv, Waiting, OneEngine, Requests
  <2>3. Held'
    <3> DEFINE e == Event("closed", c)
    <3>1. up = "yes" /\ e \in CallEvents \cup ConnEvents /\ e.from = epoch
      BY <1>11 DEF Closed, Event, CallEvents, ConnEvents, SessionInv, OneEngine, TypeOK, Epochs
    <3>2. crashed = "no" => wire' \in Seq(Own(epoch'))
      BY <1>11, <3>1, Sent DEF Closed
    <3> QED
      BY <1>11, <3>1, <3>2 DEF Closed, SessionInv, OneEngine, Held
  <2> QED
    BY <2>1, <2>2, <2>3 DEF SessionInv
<1>12. ASSUME Crash PROVE TypeOK' /\ SessionInv'
  <2>1. TypeOK'
    BY <1>12 DEF Crash, Gone, Refused, TypeOK, SessionInv, Waiting, OneEngine, Requests, Replies, Events, CallEvents, ConnEvents, Calls, Epochs, CallIds, ConnIds
  <2>2. Waiting' /\ OneEngine'
    BY <1>12 DEF Crash, Gone, Refused, TypeOK, SessionInv, Waiting, OneEngine, Requests
  <2>3. Held'
    BY <1>12 DEF Crash, Gone, Refused, TypeOK, SessionInv, Waiting, OneEngine, Held, Own, Events, CallEvents, ConnEvents
  <2> QED
    BY <2>1, <2>2, <2>3 DEF SessionInv
<1>13. ASSUME OnExit PROVE TypeOK' /\ SessionInv'
  <2>1. TypeOK'
    BY <1>13 DEF OnExit, TypeOK, SessionInv, Waiting, OneEngine, Requests, Replies, Events, CallEvents, ConnEvents, Calls, Epochs, CallIds, ConnIds
  <2>2. Waiting' /\ OneEngine'
    BY <1>13 DEF OnExit, TypeOK, SessionInv, Waiting, OneEngine, Requests
  <2>3. Held'
    BY <1>13 DEF OnExit, TypeOK, SessionInv, Waiting, OneEngine, Held, Own, Events, CallEvents, ConnEvents
  <2> QED
    BY <2>1, <2>2, <2>3 DEF SessionInv
<1>14. ASSUME Return PROVE TypeOK' /\ SessionInv'
  <2>1. TypeOK'
    BY <1>14, SMTT(20) DEF Return, Record, ScheduleDrain, Refused, TypeOK, SessionInv, Waiting, OneEngine, Requests, Replies, Events, CallEvents, ConnEvents, Calls, Epochs, CallIds, ConnIds
  <2>2. Waiting' /\ OneEngine'
    BY <1>14 DEF Return, Record, ScheduleDrain, Refused, TypeOK, SessionInv, Waiting, OneEngine, Requests
  <2>3. Held'
    BY <1>14 DEF Return, Record, ScheduleDrain, Refused, TypeOK, SessionInv, Waiting, OneEngine, Held, Own, Events, CallEvents, ConnEvents
  <2> QED
    BY <2>1, <2>2, <2>3 DEF SessionInv
<1>15. ASSUME Dispatch PROVE TypeOK' /\ SessionInv'
  <2>1. TypeOK'
    <3>1. wire' \in Seq(Events) /\ pending' \in Seq(Events)
      BY <1>15 DEF Dispatch, TypeOK
    <3>2. lua' \in {"idle", "asking", "draining"}
      BY <1>15 DEF Dispatch, MayDrain, TypeOK
    <3> QED
      BY <1>15, <3>1, <3>2 DEF Dispatch, TypeOK
  <2>2. Waiting' /\ OneEngine'
    BY <1>15 DEF Dispatch, MayDrain, TypeOK, SessionInv, Waiting, OneEngine, Requests
  <2>3. Held'
    BY <1>15 DEF Dispatch, MayDrain, TypeOK, SessionInv, Waiting, OneEngine, Held, Own, Events, CallEvents, ConnEvents
  <2> QED
    BY <2>1, <2>2, <2>3 DEF SessionInv
<1>16. ASSUME RunScheduled PROVE TypeOK' /\ SessionInv'
  <2>1. TypeOK'
    BY <1>16 DEF RunScheduled, TypeOK, SessionInv, Waiting, OneEngine, Requests, Replies, Events, CallEvents, ConnEvents, Calls, Epochs, CallIds, ConnIds
  <2>2. Waiting' /\ OneEngine'
    BY <1>16 DEF RunScheduled, TypeOK, SessionInv, Waiting, OneEngine, Requests
  <2>3. Held'
    BY <1>16 DEF RunScheduled, TypeOK, SessionInv, Waiting, OneEngine, Held, Own, Events, CallEvents, ConnEvents
  <2> QED
    BY <2>1, <2>2, <2>3 DEF SessionInv
<1>17. ASSUME Handle PROVE TypeOK' /\ SessionInv'
  <2>1. CASE pending = <<>>
    <3>1. TypeOK' /\ Waiting' /\ OneEngine'
      BY <1>17, <2>1 DEF Handle, TypeOK, SessionInv, Waiting, OneEngine
    <3>2. Held'
      BY <1>17, <2>1 DEF Handle, SessionInv, Held
    <3> QED
      BY <3>1, <3>2 DEF SessionInv
  <2>2. CASE pending # <<>>
    <3> DEFINE e == Head(pending)
    <3>1. e \in Events /\ pending' = Tail(pending) /\ pending' \in Seq(Events)
      <4>1. pending \in Seq(Events)
        BY DEF TypeOK
      <4>2. pending' = Tail(pending)
        BY <1>17, <2>2 DEF Handle
      <4> QED
        BY <2>2, <4>1, <4>2
    <3>2. crashed = "no" => e.from = epoch /\ pending' \in Seq(Own(epoch))
      BY <2>2, <3>1 DEF SessionInv, Held, Own
    <3>3. Waiting' /\ OneEngine'
      BY <1>17, <2>2 DEF Handle, OnCall, OnConnection, SessionInv, Waiting, OneEngine
    <3>4. crashed = "no" => channel # 0
      BY <2>2 DEF SessionInv, Held
    <3>5. CASE e.kind \in {"executing", "done"}
      <4>1. OnCall(e) /\ e \in CallEvents
        BY <1>17, <2>2, <3>1, <3>5 DEF Handle, Events, ConnEvents
      <4>2. call' \in Calls /\ calls' \in SUBSET [id : CallIds, from : Epochs]
        BY <4>1 DEF OnCall, CallEvents, Calls, TypeOK
      <4>3. TypeOK'
        BY <1>17, <2>2, <3>1, <4>1, <4>2 DEF Handle, OnCall, TypeOK
      <4>4. Held'
        BY <1>17, <2>2, <3>1, <3>2, <3>4, <4>1 DEF Handle, OnCall, SessionInv, Held
      <4> QED
        BY <3>3, <4>3, <4>4 DEF SessionInv
    <3>6. CASE e.kind \notin {"executing", "done"}
      <4>1. OnConnection(e) /\ e \in ConnEvents
        BY <1>17, <2>2, <3>1, <3>6 DEF Handle, Events, CallEvents
      <4>2. conns' \in [ConnIds -> {"none", "connecting", "connected"}]
        BY <4>1 DEF OnConnection, TypeOK
      <4>3. TypeOK'
        BY <1>17, <2>2, <3>1, <4>1, <4>2 DEF Handle, OnConnection, TypeOK
      <4>4. Held'
        BY <1>17, <2>2, <3>1, <3>2, <3>4, <4>1 DEF Handle, OnConnection, SessionInv, Held
      <4> QED
        BY <3>3, <4>3, <4>4 DEF SessionInv
    <3> QED
      BY <3>5, <3>6
  <2> QED
    BY <2>1, <2>2
<1> QED
  BY <1>1, <1>2, <1>3, <1>4, <1>5, <1>6, <1>7, <1>8, <1>9, <1>10, <1>11, <1>12, <1>13, <1>14, <1>15, <1>16, <1>17 DEF Next, User, Engine, Neovim

\* Every variable keeps its type, and the invariant holds.
THEOREM SessionInvariant == Spec => [](TypeOK /\ SessionInv)
<1>1. Init => TypeOK /\ SessionInv
  BY BoundsOK DEF Init, TypeOK, SessionInv, Waiting, OneEngine, Held, ConnIds
<1>2. TypeOK /\ SessionInv /\ [Next]_vars => TypeOK' /\ SessionInv'
  <2> SUFFICES ASSUME TypeOK, SessionInv, UNCHANGED vars PROVE TypeOK' /\ SessionInv'
    BY SessionStep
  <2>1. TypeOK'
    BY DEF vars, engine, wires, client, state, TypeOK
  <2>2. SessionInv'
    BY DEF vars, engine, wires, client, state, SessionInv, Waiting, OneEngine, Held
  <2> QED
    BY <2>1, <2>2
<1> QED
  BY <1>1, <1>2, PTL DEF Spec

\* Every variable keeps its type: events are of engines that were started, what is
\* answered is an answer, and connections are in one of the states drawn.
THEOREM Typing == Spec => []TypeOK
BY SessionInvariant, PTL

\* No call the editor lists or shows is of an engine its requests do not go to, as
\* long as engines are stopped by its commands.
THEOREM CallsAreOfTheEngine == Spec => []CallsOfThisEngine
<1>1. SessionInv => CallsOfThisEngine
  BY DEF SessionInv, OneEngine, Held, CallsOfThisEngine
<1> QED
  BY <1>1, SessionInvariant, PTL
-----------------------------------------------------------------------------
(* What the editor shows of its engine *)

\* The events the editor has not handled, in the order it will.
Queue == pending \o wire

Asked(kind, c) == request # None /\ request.kind = kind /\ request.conn = c

\* The engine works at a call, or the news that it ended is still to be handled.
Live(id) == id \in accepted \cup running \/ Coming("done", id)

\* A request holds Lua until it is answered, and a dead engine holds nothing.
OneAtATime == /\ request # None => lua = "asking"
              /\ up = "no" => open = {}

\* The call an answer names is live until the answer is recorded,
AnswerLive == reply # None /\ request.kind = "execute" /\ reply.ok = "yes" => Live(reply.id)

\* so is the one shown as executing,
ShownLive == call # None /\ call.state = "executing" => Live(call.id)

\* and the news that a call executes comes before the news that it ended.
StartsFirst ==
  \A i \in 1..Len(Queue) : Queue[i].kind = "executing" =>
    \/ Queue[i].id \in running
    \/ \E j \in i+1..Len(Queue) : Queue[j] = Event("done", Queue[i].id)

CallsInStep == AnswerLive /\ ShownLive /\ StartsFirst

\* Nothing was heard of a connection yet, and the engine does not know it.
Unknown(c) ==
  /\ c \notin opening /\ c \notin open /\ c \notin closing
  /\ ~Coming("connected", c) /\ ~Coming("failed", c) /\ ~Coming("closed", c)

\* Ids are given out once: the engine meets a connection when it serves the connect,
Fresh(c) == c > nextConn => /\ Unknown(c) /\ conns[c] = "none"
                            /\ request # None => request.conn # c
Unserved(c) == Asked("connect", c) /\ reply = None => Unknown(c) /\ conns[c] # "none"

\* opens it, holds it and closes it, in this order, and says so in this order.
Phase(c) ==
  /\ c \in opening => c \notin open /\ c \notin closing
  /\ c \in open => c \notin closing
  /\ c \in opening \cup open => ~Coming("failed", c) /\ ~Coming("closed", c)

\* What is shown as connected, or will be, is held until a disconnect is served;
Mirrored(c) ==
  conns[c] = "connected" \/ (conns[c] # "none" /\ Coming("connected", c))
    => c \in open \/ Asked("disconnect", c)

\* what is held is shown, will be, or was given up while it was being opened;
Seen(c) == c \in open => conns[c] = "connected" \/ c \in abandoned \/ Coming("connected", c)
Forgotten(c) == conns[c] = "none" /\ c \in opening \cup open => c \in abandoned

\* and what a served disconnect left open was being opened when it was asked.
Leaving(c) ==
  Asked("disconnect", c) =>
    /\ c \in opening => c \in abandoned
    /\ reply # None /\ c \in open => c \in abandoned

ConnInStep(c) == /\ Fresh(c) /\ Unserved(c) /\ Phase(c) /\ Mirrored(c)
                 /\ Seen(c) /\ Forgotten(c) /\ Leaving(c)

\* A running engine accepts every connect.
NotRefused == request # None /\ request.kind = "connect" => reply # Refused

InStep ==
  /\ OneAtATime
  /\ crashed = "no" => CallsInStep /\ NotRefused /\ \A c \in ConnIds : ConnInStep(c)

\* An event sent goes to the end of the queue,
LEMMA QueueSent ==
  ASSUME TypeOK, NEW e \in Events, pending' = pending, wire' = Append(wire, e), epoch' = epoch
  PROVE  /\ Queue \in Seq(Events) /\ Queue' \in Seq(Events)
         /\ Len(Queue') = Len(Queue) + 1
         /\ \A i \in 1..Len(Queue) : Queue'[i] = Queue[i]
         /\ Queue'[Len(Queue) + 1] = e
         /\ \A k, id : Coming(k, id)' <=> Coming(k, id) \/ e = Event(k, id)
<1>1. Queue \in Seq(Events) /\ Queue' = Append(Queue, e)
  BY DEF TypeOK, Queue
<1>2. /\ Queue' \in Seq(Events) /\ Len(Queue') = Len(Queue) + 1
      /\ \A i \in 1..Len(Queue) : Queue'[i] = Queue[i]
      /\ Queue'[Len(Queue) + 1] = e
  BY <1>1
<1>3. ASSUME NEW k, NEW id PROVE Coming(k, id)' <=> Coming(k, id) \/ e = Event(k, id)
  <2>1. Coming(k, id)' <=> \E i \in 1..Len(Queue') : Queue'[i] = Event(k, id)
    BY DEF Coming, Queue, Event
  <2>2. Coming(k, id) <=> \E i \in 1..Len(Queue) : Queue[i] = Event(k, id)
    BY DEF Coming, Queue
  <2>3. 1..Len(Queue') = 1..Len(Queue) \cup {Len(Queue) + 1}
    BY <1>1, <1>2
  <2> QED
    BY <1>2, <2>1, <2>2, <2>3
<1> QED
  BY <1>1, <1>2, <1>3

\* and the one that is handled was its first.
LEMMA QueueHandled ==
  ASSUME TypeOK, pending # <<>>, pending' = Tail(pending), wire' = wire, epoch' = epoch
  PROVE  /\ Queue \in Seq(Events) /\ Queue' \in Seq(Events)
         /\ Len(Queue) = Len(Queue') + 1
         /\ \A i \in 1..Len(Queue') : Queue'[i] = Queue[i + 1]
         /\ Queue[1] = Head(pending) /\ 1 \in 1..Len(Queue)
         /\ \A k, id : Coming(k, id)' => Coming(k, id)
         /\ \A k, id : Coming(k, id) => Coming(k, id)' \/ Head(pending) = Event(k, id)
<1>1. Queue \in Seq(Events) /\ Queue' \in Seq(Events)
  BY DEF TypeOK, Queue
<1>2. Len(Queue) = Len(Queue') + 1
  BY DEF TypeOK, Queue
<1>3. \A i \in 1..Len(Queue') : Queue'[i] = Queue[i + 1]
  <2>1. pending \in Seq(Events) /\ wire \in Seq(Events)
    BY DEF TypeOK
  <2>2. ASSUME NEW i \in 1..Len(Tail(pending) \o wire)
        PROVE  (Tail(pending) \o wire)[i] = (pending \o wire)[i + 1]
    <3>1. CASE i <= Len(Tail(pending))
      BY <2>1, <2>2, <3>1
    <3>2. CASE i > Len(Tail(pending))
      BY <2>1, <2>2, <3>2
    <3> QED
      BY <2>1, <3>1, <3>2
  <2> QED
    BY <2>2 DEF Queue
<1>4. Queue[1] = Head(pending) /\ 1 \in 1..Len(Queue)
  BY DEF TypeOK, Queue
<1>5. ASSUME NEW k, NEW id
      PROVE  /\ Coming(k, id)' => Coming(k, id)
             /\ Coming(k, id) => Coming(k, id)' \/ Head(pending) = Event(k, id)
  <2>1. Coming(k, id)' <=> \E i \in 1..Len(Queue') : Queue'[i] = Event(k, id)
    BY DEF Coming, Queue, Event
  <2>2. Coming(k, id) <=> \E i \in 1..Len(Queue) : Queue[i] = Event(k, id)
    BY DEF Coming, Queue
  <2>3. \A i \in 1..Len(Queue') : i + 1 \in 1..Len(Queue)
    BY <1>1, <1>2
  <2>4. \A i \in 1..Len(Queue) : i = 1 \/ (i - 1 \in 1..Len(Queue') /\ i = (i - 1) + 1)
    BY <1>1, <1>2
  <2> QED
    BY <1>3, <1>4, <2>1, <2>2, <2>3, <2>4
<1> QED
  BY <1>1, <1>2, <1>3, <1>4, <1>5

\* Dispatching moves an event from the channel to the queue, in its place.
LEMMA QueueDispatched ==
  ASSUME TypeOK, Dispatch
  PROVE  Queue' = Queue /\ epoch' = epoch
<1> DEFINE p == Append(pending, Head(wire))
           w == Tail(wire)
<1>1. pending \in Seq(Events) /\ wire \in Seq(Events) /\ wire # <<>>
  BY DEF TypeOK, Dispatch
<1>2. /\ Queue' = p \o w /\ epoch' = epoch
      /\ p \in Seq(Events) /\ w \in Seq(Events)
      /\ Len(p) = Len(pending) + 1 /\ Len(w) = Len(wire) - 1
  BY <1>1 DEF Dispatch, Queue, engine
<1>3. Len(p \o w) = Len(pending \o wire)
  BY <1>1, <1>2
<1>4. ASSUME NEW i \in 1..Len(p \o w) PROVE (p \o w)[i] = (pending \o wire)[i]
  <2>1. CASE i <= Len(pending)
    BY <1>1, <1>2, <1>4, <2>1
  <2>2. CASE i = Len(pending) + 1
    BY <1>1, <1>2, <1>4, <2>2
  <2>3. CASE i > Len(pending) + 1
    BY <1>1, <1>2, <1>4, <2>3
  <2> QED
    BY <1>1, <2>1, <2>2, <2>3
<1>5. p \o w = pending \o wire
  BY <1>1, <1>2, <1>3, <1>4
<1> QED
  BY <1>2, <1>5 DEF Queue

\* What is to come of a queue that stays.
LEMMA QueueKept ==
  ASSUME Queue' = Queue, epoch' = epoch
  PROVE  \A k, id : Coming(k, id)' <=> Coming(k, id)
BY DEF Coming, Queue, Event

\* A step that changes nothing a connection is told by keeps it in step.
LEMMA ConnKept ==
  ASSUME NEW c \in ConnIds, ConnInStep(c),
         UNCHANGED <<nextConn, opening, open, closing, conns, abandoned, request, reply>>,
         \A k \in {"connected", "failed", "closed"} : Coming(k, c)' <=> Coming(k, c)
  PROVE  ConnInStep(c)'
BY DEF ConnInStep, Fresh, Unserved, Unknown, Phase, Mirrored, Seen, Forgotten, Leaving, Asked

\* The step of every operation, for one connection.
LEMMA ConnStep ==
  ASSUME TypeOK, TypeOK', SessionInv, InStep, Next, crashed' = "no", NEW c \in ConnIds
  PROVE  ConnInStep(c)'
<1> USE DEF engine, wires, client, state
<1> DEFINE Told == \A k \in {"connected", "failed", "closed"} : Coming(k, c)' <=> Coming(k, c)
<1>0. crashed = "no" => ConnInStep(c) /\ NotRefused
  BY DEF InStep
<1>1. ASSUME Start PROVE ConnInStep(c)'
  <2>1. crashed = "no" /\ channel = 0
    BY <1>1 DEF Start
  <2>2. pending' = <<>> /\ wire' = <<>> /\ request' = None
    BY <1>1, <2>1 DEF Start, SessionInv, Held, Waiting
  <2>3. \A k, id : ~Coming(k, id)'
    BY <2>2 DEF Coming
  <2>4. opening' = {} /\ open' = {} /\ closing' = {} /\ open = {}
    BY <1>1, <2>1 DEF Start, SessionInv, OneEngine, InStep, OneAtATime, TypeOK
  <2>5. UNCHANGED <<nextConn, conns, abandoned>> /\ request = None
    BY <1>1, <2>2 DEF Start
  <2> QED
    BY <1>0, <2>1, <2>2, <2>3, <2>4, <2>5
    DEF ConnInStep, Fresh, Unserved, Unknown, Phase, Mirrored, Seen, Forgotten, Leaving, Asked
<1>2. ASSUME Stop PROVE ConnInStep(c)'
  <2>1. pending' = <<>> /\ wire' = <<>> /\ request' = None
    BY <1>2 DEF Stop, Dropped, SessionInv, Waiting
  <2>2. \A k, id : ~Coming(k, id)'
    BY <2>1 DEF Coming
  <2> QED
    BY <1>2, <2>1, <2>2
    DEF Stop, Gone, ConnInStep, Fresh, Unserved, Unknown, Phase, Mirrored, Seen, Forgotten, Leaving, Asked
<1>3. ASSUME Connect PROVE ConnInStep(c)'
  <2> DEFINE d == nextConn + 1
  <2>1. crashed = "no" /\ Told /\ request = None /\ reply = None
    <3>1. crashed = "no" /\ lua = "idle" /\ Queue' = Queue /\ epoch' = epoch
      BY <1>3 DEF Connect, Ask, Queue
    <3> QED
      BY <3>1, QueueKept DEF SessionInv, Waiting
  <2>2. /\ UNCHANGED <<opening, open, closing, abandoned>> /\ nextConn' = d
        /\ conns' = [conns EXCEPT ![d] = "connecting"]
        /\ request' = [kind |-> "connect", conn |-> d]
    BY <1>3 DEF Connect, Ask
  <2>3. d \in ConnIds /\ d > nextConn /\ nextConn \in Nat
    BY <1>3 DEF Connect, TypeOK, ConnIds
  <2>4. conns'[c] = IF c = d THEN "connecting" ELSE conns[c]
    BY <2>2 DEF TypeOK
  <2>5. ~Asked("disconnect", c)' /\ (Asked("connect", c)' <=> c = d /\ request' # None)
    BY <2>2 DEF Asked
  <2>6. ~Asked("disconnect", c)
    BY <2>1 DEF Asked
  <2>7. c > nextConn' => c > nextConn /\ c # d
    BY <2>2, <2>3 DEF ConnIds
  <2>8. CASE c = d
    BY <1>0, <2>1, <2>2, <2>3, <2>4, <2>5, <2>6, <2>7, <2>8
    DEF ConnInStep, Fresh, Unserved, Unknown, Phase, Mirrored, Seen, Forgotten, Leaving
  <2>9. CASE c # d
    BY <1>0, <2>1, <2>2, <2>3, <2>4, <2>5, <2>6, <2>7, <2>9
    DEF ConnInStep, Fresh, Unserved, Unknown, Phase, Mirrored, Seen, Forgotten, Leaving
  <2> QED
    BY <2>8, <2>9
<1>4. ASSUME NEW d \in ConnIds, Disconnect(d) PROVE ConnInStep(c)'
  <2>1. crashed = "no" /\ Told /\ request = None
    <3>1. crashed = "no" /\ lua = "idle" /\ Queue' = Queue /\ epoch' = epoch
      BY <1>4 DEF Disconnect, Ask, Queue
    <3> QED
      BY <3>1, QueueKept DEF SessionInv, Waiting
  <2>2. /\ UNCHANGED <<opening, open, closing, conns, nextConn>> /\ conns[d] # "none"
        /\ abandoned' = IF d \in opening THEN abandoned \cup {d} ELSE abandoned
        /\ request' = [kind |-> "disconnect", conn |-> d]
    BY <1>4 DEF Disconnect, Ask
  <2>3. reply' = None
    <3>1. lua = "idle" /\ channel # 0 /\ reply' = IF up = "yes" THEN None ELSE Refused
      BY <1>4 DEF Disconnect, Ask
    <3> QED
      BY <2>1, <3>1 DEF SessionInv, OneEngine, TypeOK
  <2>4. ~Asked("connect", c)' /\ (Asked("disconnect", c)' => c = d) /\ ~Asked("disconnect", c)
    BY <2>1, <2>2 DEF Asked
  <2>5. c > nextConn => c # d
    BY <1>0, <2>1, <2>2 DEF ConnInStep, Fresh
  <2> QED
    BY <1>0, <2>1, <2>2, <2>3, <2>4, <2>5
    DEF ConnInStep, Fresh, Unserved, Unknown, Phase, Mirrored, Seen, Forgotten, Leaving
<1>5. ASSUME NEW d \in ConnIds, DisconnectOffline(d) PROVE ConnInStep(c)'
  <2>1. crashed = "no" /\ Told
    <3>1. crashed = "no" /\ Queue' = Queue /\ epoch' = epoch
      BY <1>5 DEF DisconnectOffline, Queue
    <3> QED
      BY <3>1, QueueKept
  <2>2. /\ UNCHANGED <<opening, open, closing, abandoned, nextConn, request, reply>>
        /\ conns' = [conns EXCEPT ![d] = "none"]
    BY <1>5 DEF DisconnectOffline
  <2>3. request = None /\ opening = {} /\ open = {}
    BY <1>5 DEF DisconnectOffline, SessionInv, Waiting, OneEngine, InStep, OneAtATime, TypeOK
  <2>4. conns'[c] = IF c = d THEN "none" ELSE conns[c]
    BY <2>2 DEF TypeOK
  <2> QED
    BY <1>0, <2>1, <2>2, <2>3, <2>4
    DEF ConnInStep, Fresh, Unserved, Unknown, Phase, Mirrored, Seen, Forgotten, Leaving, Asked
<1>6. ASSUME NEW d \in ConnIds, Execute(d) PROVE ConnInStep(c)'
  <2>1. crashed = "no" /\ Told /\ request = None
    <3>1. crashed = "no" /\ lua = "idle" /\ Queue' = Queue /\ epoch' = epoch
      BY <1>6 DEF Execute, Ask, Queue
    <3> QED
      BY <3>1, QueueKept DEF SessionInv, Waiting
  <2>2. /\ UNCHANGED <<opening, open, closing, conns, nextConn, abandoned>> /\ conns[d] # "none"
        /\ request' = [kind |-> "execute", conn |-> d]
    BY <1>6 DEF Execute, Ask
  <2>3. /\ ~Asked("connect", c)' /\ ~Asked("disconnect", c)'
        /\ ~Asked("connect", c) /\ ~Asked("disconnect", c)
    BY <2>1, <2>2 DEF Asked
  <2>4. c > nextConn => c # d
    BY <1>0, <2>1, <2>2 DEF ConnInStep, Fresh
  <2> QED
    BY <1>0, <2>1, <2>2, <2>3, <2>4
    DEF ConnInStep, Fresh, Unserved, Unknown, Phase, Mirrored, Seen, Forgotten, Leaving
<1>7. ASSUME Serve PROVE ConnInStep(c)'
  <2> DEFINE d == request.conn
  <2>1. crashed = "no" /\ Told
    <3>1. crashed = "no" /\ Queue' = Queue /\ epoch' = epoch
      BY <1>7 DEF Serve, Queue
    <3> QED
      BY <3>1, QueueKept
  <2>2. /\ UNCHANGED <<conns, nextConn, abandoned, request>>
        /\ request # None /\ reply = None /\ request \in Requests
    BY <1>7 DEF Serve, TypeOK
  <2>3. \A k : Asked(k, c)' <=> Asked(k, c)
    BY <2>2 DEF Asked
  <2>4. CASE request.kind = "execute"
    <3>1. UNCHANGED <<opening, open, closing>> /\ ~Asked("connect", c) /\ ~Asked("disconnect", c)
      <4>1. CASE d \in open
        BY <1>7, <2>4, <4>1 DEF Serve, Asked
      <4>2. CASE d \notin open
        BY <1>7, <2>4, <4>2 DEF Serve, Asked
      <4> QED
        BY <4>1, <4>2
    <3> QED
      BY <1>0, <2>1, <2>2, <2>3, <3>1
      DEF ConnInStep, Fresh, Unserved, Unknown, Phase, Mirrored, Seen, Forgotten, Leaving
  <2>5. CASE request.kind = "connect"
    <3>1. /\ opening' = opening \cup {d} /\ UNCHANGED <<open, closing>>
          /\ reply' # None /\ ~Asked("disconnect", c)
      <4>1. opening' = opening \cup {d} /\ UNCHANGED <<open, closing>> /\ reply' = [ok |-> "yes", id |-> 0]
        BY <1>7, <2>5 DEF Serve
      <4>2. reply' # None
        BY <4>1, BoundsOK
      <4> QED
        BY <2>5, <4>1, <4>2 DEF Asked
    <3>2. CASE c = d
      <4>1. Asked("connect", c)
        BY <2>2, <2>5, <3>2 DEF Asked
      <4>2. Unknown(c) /\ conns[c] # "none" /\ ~(c > nextConn)
        BY <1>0, <2>1, <2>2, <3>2, <4>1 DEF ConnInStep, Unserved, Fresh
      <4> QED
        BY <1>0, <2>1, <2>2, <2>3, <3>1, <3>2, <4>2
        DEF ConnInStep, Fresh, Unserved, Unknown, Phase, Mirrored, Seen, Forgotten, Leaving
    <3>3. CASE c # d
      BY <1>0, <2>1, <2>2, <2>3, <3>1, <3>3
      DEF ConnInStep, Fresh, Unserved, Unknown, Phase, Mirrored, Seen, Forgotten, Leaving
    <3> QED
      BY <3>2, <3>3
  <2>6. CASE request.kind = "disconnect"
    <3>1. /\ open' = open \ {d} /\ closing' = closing \cup (open \cap {d})
          /\ UNCHANGED opening /\ ~Asked("connect", c)
          /\ Asked("disconnect", c) <=> c = d
      BY <1>7, <2>6 DEF Serve, Asked
    <3>2. CASE c = d
      BY <1>0, <2>1, <2>2, <2>3, <3>1, <3>2
      DEF ConnInStep, Fresh, Unserved, Unknown, Phase, Mirrored, Seen, Forgotten, Leaving
    <3>3. CASE c # d
      BY <1>0, <2>1, <2>2, <2>3, <3>1, <3>3
      DEF ConnInStep, Fresh, Unserved, Unknown, Phase, Mirrored, Seen, Forgotten, Leaving
    <3> QED
      BY <3>2, <3>3
  <2> QED
    BY <2>2, <2>4, <2>5, <2>6 DEF Requests
<1>8. ASSUME NEW id \in CallIds, RunStarts(id) PROVE ConnInStep(c)'
  <2>1. Event("executing", id) \in Events
    BY <1>8 DEF RunStarts, Event, Events, CallEvents, SessionInv, OneEngine, TypeOK, Epochs
  <2>2. Told
    BY <1>8, <2>1, QueueSent DEF RunStarts, Event
  <2> QED
    BY <1>0, <1>8, <2>2, ConnKept DEF RunStarts
<1>9. ASSUME NEW id \in CallIds, RunEnds(id) PROVE ConnInStep(c)'
  <2>1. Event("done", id) \in Events
    BY <1>9 DEF RunEnds, Event, Events, CallEvents, SessionInv, OneEngine, TypeOK, Epochs
  <2>2. Told
    BY <1>9, <2>1, QueueSent DEF RunEnds, Event
  <2> QED
    BY <1>0, <1>9, <2>2, ConnKept DEF RunEnds
<1>10. ASSUME NEW d \in ConnIds, NEW ok \in BOOLEAN, Opened(d, ok) PROVE ConnInStep(c)'
  <2> DEFINE e == Event(IF ok THEN "connected" ELSE "failed", d)
  <2>1. e \in Events
    BY <1>10 DEF Opened, Event, Events, ConnEvents, SessionInv, OneEngine, TypeOK, Epochs
  <2>2. \A k : Coming(k, c)' <=> Coming(k, c) \/ e = Event(k, c)
    BY <1>10, <2>1, QueueSent DEF Opened
  <2>3. /\ UNCHANGED <<nextConn, closing, conns, abandoned, request, reply, crashed>>
        /\ d \in opening /\ opening' = opening \ {d}
        /\ open' = IF ok THEN open \cup {d} ELSE open
    BY <1>10 DEF Opened
  <2>4. \A k : Asked(k, c)' <=> Asked(k, c)
    BY <2>3 DEF Asked
  <2>5. CASE c # d
    <3>1. \A k : e # Event(k, c)
      BY <2>5 DEF Event
    <3>2. (c \in opening' <=> c \in opening) /\ (c \in open' <=> c \in open)
      BY <2>3, <2>5
    <3> QED
      BY <1>0, <2>2, <2>3, <2>4, <3>1, <3>2
      DEF ConnInStep, Fresh, Unserved, Unknown, Phase, Mirrored, Seen, Forgotten, Leaving
  <2>6. CASE c = d /\ ok
    <3>1. /\ Coming("connected", c)'
          /\ Coming("failed", c)' <=> Coming("failed", c)
          /\ Coming("closed", c)' <=> Coming("closed", c)
      <4>1. /\ e = Event("connected", c) /\ e # Event("failed", c) /\ e # Event("closed", c)
        BY <2>6 DEF Event
      <4> QED
        BY <2>2, <4>1
    <3>2. c \in opening /\ c \notin opening' /\ c \in open'
      BY <2>3, <2>6
    <3> QED
      BY <1>0, <2>3, <2>4, <3>1, <3>2
      DEF ConnInStep, Fresh, Unserved, Unknown, Phase, Mirrored, Seen, Forgotten, Leaving
  <2>7. CASE c = d /\ ~ok
    <3>1. Coming("connected", c)' <=> Coming("connected", c)
      <4>1. e # Event("connected", c)
        BY <2>7 DEF Event
      <4> QED
        BY <2>2, <4>1
    <3>2. c \in opening /\ c \notin opening' /\ open' = open /\ c \notin open
      BY <1>0, <2>3, <2>7 DEF ConnInStep, Phase
    <3> QED
      BY <1>0, <2>3, <2>4, <3>1, <3>2
      DEF ConnInStep, Fresh, Unserved, Unknown, Phase, Mirrored, Seen, Forgotten, Leaving
  <2> QED
    BY <2>5, <2>6, <2>7
<1>11. ASSUME NEW d \in ConnIds, Closed(d) PROVE ConnInStep(c)'
  <2> DEFINE e == Event("closed", d)
  <2>1. e \in Events
    BY <1>11 DEF Closed, Event, Events, ConnEvents, SessionInv, OneEngine, TypeOK, Epochs
  <2>2. \A k : Coming(k, c)' <=> Coming(k, c) \/ e = Event(k, c)
    BY <1>11, <2>1, QueueSent DEF Closed
  <2>3. /\ UNCHANGED <<nextConn, opening, open, conns, abandoned, request, reply, crashed>>
        /\ d \in closing /\ closing' = closing \ {d}
    BY <1>11 DEF Closed
  <2>4. \A k : Asked(k, c)' <=> Asked(k, c)
    BY <2>3 DEF Asked
  <2>5. /\ Coming("connected", c)' <=> Coming("connected", c)
        /\ Coming("failed", c)' <=> Coming("failed", c)
        /\ Coming("closed", c)' <=> Coming("closed", c) \/ c = d
    <3>1. /\ e # Event("connected", c) /\ e # Event("failed", c)
          /\ e = Event("closed", c) <=> c = d
      BY DEF Event
    <3> QED
      BY <2>2, <3>1
  <2>6. CASE c # d
    BY <1>0, <2>3, <2>4, <2>5, <2>6
    DEF ConnInStep, Fresh, Unserved, Unknown, Phase, Mirrored, Seen, Forgotten, Leaving
  <2>7. CASE c = d
    BY <1>0, <2>3, <2>4, <2>5, <2>7
    DEF ConnInStep, Fresh, Unserved, Unknown, Phase, Mirrored, Seen, Forgotten, Leaving
  <2> QED
    BY <2>6, <2>7
<1>12. ~Crash
  BY DEF Crash
<1>13. ASSUME OnExit PROVE ConnInStep(c)'
  BY <1>13 DEF OnExit, SessionInv, OneEngine
<1>14. ASSUME Return PROVE ConnInStep(c)'
  <2> DEFINE d == request.conn
  <2>1. crashed = "no" /\ Told
    <3>1. crashed = "no" /\ Queue' = Queue /\ epoch' = epoch
      BY <1>14 DEF Return, Queue
    <3> QED
      BY <3>1, QueueKept
  <2>2. /\ UNCHANGED <<nextConn, opening, open, closing, abandoned>>
        /\ request # None /\ reply # None /\ request' = None /\ request \in Requests
    BY <1>14 DEF Return, SessionInv, Waiting, TypeOK
  <2>3. conns' = IF request.kind = "disconnect" THEN [conns EXCEPT ![d] = "none"] ELSE conns
    BY <1>0, <1>14, <2>1, <2>2 DEF Return, NotRefused
  <2>4. \A k : ~Asked(k, c)'
    BY <2>2 DEF Asked
  <2>5. CASE request.kind = "disconnect" /\ c = d
    <3>1. Asked("disconnect", c) /\ conns'[c] = "none"
      BY <2>2, <2>3, <2>5 DEF Asked, TypeOK
    <3> QED
      BY <1>0, <2>1, <2>2, <2>4, <3>1
      DEF ConnInStep, Fresh, Unserved, Unknown, Phase, Mirrored, Seen, Forgotten, Leaving
  <2>6. CASE ~(request.kind = "disconnect" /\ c = d)
    <3>1. ~Asked("disconnect", c) /\ conns'[c] = conns[c]
      BY <2>2, <2>3, <2>6 DEF Asked, TypeOK
    <3> QED
      BY <1>0, <2>1, <2>2, <2>4, <3>1
      DEF ConnInStep, Fresh, Unserved, Unknown, Phase, Mirrored, Seen, Forgotten, Leaving
  <2> QED
    BY <2>5, <2>6
<1>15. ASSUME Dispatch PROVE ConnInStep(c)'
  <2>1. Told
    BY <1>15, QueueDispatched, QueueKept
  <2> QED
    BY <1>0, <1>15, <2>1, ConnKept DEF Dispatch
<1>16. ASSUME RunScheduled PROVE ConnInStep(c)'
  <2>1. Told
    BY <1>16, QueueKept DEF RunScheduled, Queue
  <2> QED
    BY <1>0, <1>16, <2>1, ConnKept DEF RunScheduled
<1>17. ASSUME Handle PROVE ConnInStep(c)'
  <2>0. crashed = "no" /\ UNCHANGED <<nextConn, opening, open, closing, abandoned, request, reply>>
    <3>1. CASE pending = <<>>
      BY <1>17, <3>1 DEF Handle
    <3>2. CASE pending # <<>>
      BY <1>17, <3>2 DEF Handle, OnCall, OnConnection
    <3> QED
      BY <3>1, <3>2
  <2>1. CASE pending = <<>>
    <3>1. Queue' = Queue /\ epoch' = epoch /\ conns' = conns
      BY <1>17, <2>1 DEF Handle, Queue
    <3> QED
      BY <1>0, <2>0, <3>1, QueueKept, ConnKept
  <2>2. CASE pending # <<>>
    <3> DEFINE e == Head(pending)
    <3>1. pending' = Tail(pending) /\ wire' = wire /\ epoch' = epoch
      BY <1>17, <2>2 DEF Handle
    <3>2. e \in Own(epoch)
      BY <2>0, <2>2 DEF SessionInv, Held
    <3>3. \A k : Coming(k, c)' => Coming(k, c)
      BY <2>2, <3>1, QueueHandled
    <3>4. \A k : Coming(k, c) => Coming(k, c)' \/ e = Event(k, c)
      BY <2>2, <3>1, QueueHandled
    <3>5. CASE e.kind \in {"executing", "done"}
      <4>1. conns' = conns
        BY <1>17, <2>2, <3>5 DEF Handle, OnCall
      <4>2. Told
        BY <3>3, <3>4, <3>5 DEF Event
      <4> QED
        BY <1>0, <2>0, <4>1, <4>2, ConnKept
    <3>6. CASE e.kind \notin {"executing", "done"}
      <4>1. OnConnection(e)
        BY <1>17, <2>2, <3>6 DEF Handle
      <4>2. e \in ConnEvents /\ e.from = epoch
        BY <3>2, <3>6 DEF Own, Events, CallEvents
      <4>3. e = Event(e.kind, e.id) /\ e.kind \in {"connected", "failed", "closed"} /\ e.id \in ConnIds
        BY <4>2 DEF Event, ConnEvents
      <4>4. \A k : Asked(k, c)' <=> Asked(k, c)
        BY <2>0 DEF Asked
      <4>5. CASE e.id # c
        <5>1. conns'[c] = conns[c]
          BY <4>1, <4>5 DEF OnConnection, TypeOK
        <5>2. Told
          BY <3>3, <3>4, <4>5 DEF Event
        <5> QED
          BY <1>0, <2>0, <4>4, <5>1, <5>2
          DEF ConnInStep, Fresh, Unserved, Unknown, Phase, Mirrored, Seen, Forgotten, Leaving
      <4>6. CASE e.id = c
        <5>1. Coming(e.kind, c)
          <6>1. Queue[1] = e /\ 1 \in 1..Len(Queue)
            BY <2>2, <3>1, QueueHandled
          <6> QED
            BY <4>3, <4>6, <6>1 DEF Coming, Queue
        <5>2. \A k : k # e.kind => (Coming(k, c)' <=> Coming(k, c))
          BY <3>3, <3>4 DEF Event
        <5>3. CASE conns[c] = "none"
          <6>1. conns' = conns
            BY <4>1, <4>6, <5>3 DEF OnConnection
          <6> QED
            BY <1>0, <2>0, <3>3, <4>3, <4>4, <5>1, <5>2, <5>3, <6>1
            DEF ConnInStep, Fresh, Unserved, Unknown, Phase, Mirrored, Seen, Forgotten, Leaving
        <5>4. CASE conns[c] # "none" /\ e.kind = "connected"
          <6>1. conns'[c] = "connected"
            BY <4>1, <4>6, <5>4 DEF OnConnection, TypeOK
          <6> QED
            BY <1>0, <2>0, <3>3, <4>4, <5>1, <5>2, <5>4, <6>1
            DEF ConnInStep, Fresh, Unserved, Unknown, Phase, Mirrored, Seen, Forgotten, Leaving
        <5>5. CASE conns[c] # "none" /\ e.kind # "connected"
          <6>1. conns'[c] = "none"
            BY <4>1, <4>6, <5>5 DEF OnConnection, TypeOK
          <6>2. c \notin opening /\ c \notin open
            BY <1>0, <2>0, <4>3, <5>1, <5>5 DEF ConnInStep, Phase
          <6> QED
            BY <1>0, <2>0, <3>3, <4>3, <4>4, <5>1, <5>2, <5>5, <6>1, <6>2
            DEF ConnInStep, Fresh, Unserved, Unknown, Phase, Mirrored, Seen, Forgotten, Leaving
        <5> QED
          BY <5>3, <5>4, <5>5
      <4> QED
        BY <4>5, <4>6
    <3> QED
      BY <3>5, <3>6
  <2> QED
    BY <2>1, <2>2
<1> QED
  BY <1>1, <1>2, <1>3, <1>4, <1>5, <1>6, <1>7, <1>8, <1>9, <1>10, <1>11, <1>12, <1>13,
     <1>14, <1>15, <1>16, <1>17 DEF Next, User, Engine, Neovim

\* An event that is not "executing" leaves the order of the others.
LEMMA StartsFirstSent ==
  ASSUME TypeOK, StartsFirst, NEW e \in Events, pending' = pending, wire' = Append(wire, e),
         epoch' = epoch, running \subseteq running', e.kind = "executing" => e.id \in running'
  PROVE  StartsFirst'
<1>1. /\ Queue \in Seq(Events) /\ Len(Queue') = Len(Queue) + 1
      /\ \A i \in 1..Len(Queue) : Queue'[i] = Queue[i]
      /\ Queue'[Len(Queue) + 1] = e
  BY QueueSent
<1>2. ASSUME NEW i \in 1..Len(Queue'), Queue'[i].kind = "executing"
      PROVE  \/ Queue'[i].id \in running'
             \/ \E j \in i+1..Len(Queue') : Queue'[j] = Event("done", Queue'[i].id)
  <2>1. CASE i \in 1..Len(Queue)
    <3>1. Queue'[i] = Queue[i]
      BY <1>1, <2>1
    <3>2. CASE Queue[i].id \in running
      BY <3>1, <3>2
    <3>3. CASE \E j \in i+1..Len(Queue) : Queue[j] = Event("done", Queue[i].id)
      <4>1. PICK j \in i+1..Len(Queue) : Queue[j] = Event("done", Queue[i].id)
        BY <3>3
      <4>2. j \in i+1..Len(Queue') /\ Queue'[j] = Queue[j]
        BY <1>1, <2>1
      <4> QED
        BY <3>1, <4>1, <4>2
    <3> QED
      BY <1>2, <2>1, <3>1, <3>2, <3>3 DEF StartsFirst
  <2>2. CASE i = Len(Queue) + 1
    BY <1>1, <1>2, <2>2
  <2> QED
    BY <1>1, <2>1, <2>2
<1> QED
  BY <1>2 DEF StartsFirst, Event

\* A step that sends nothing, or news that ends no call, keeps what is said of calls.
LEMMA CallsKept ==
  ASSUME CallsInStep, Queue' = Queue, epoch' = epoch, call' = call, accepted \subseteq accepted',
         running' = running,
         reply' # None /\ request'.kind = "execute" /\ reply'.ok = "yes" =>
           (reply' = reply /\ request' = request) \/ reply'.id \in accepted'
  PROVE  CallsInStep'
<1>1. \A id : Live(id) => Live(id)'
  BY QueueKept DEF Live
<1>2. StartsFirst'
  BY DEF CallsInStep, StartsFirst, Event
<1>3. AnswerLive' /\ ShownLive'
  BY <1>1 DEF CallsInStep, AnswerLive, ShownLive, Live
<1> QED
  BY <1>2, <1>3 DEF CallsInStep

\* The step of every operation, for the calls.
LEMMA CallsStep ==
  ASSUME TypeOK, TypeOK', SessionInv, InStep, Next, crashed' = "no"
  PROVE  CallsInStep'
<1> USE DEF engine, wires, client, state
<1>0. crashed = "no" => CallsInStep
  BY DEF InStep
<1>1. ASSUME Start PROVE CallsInStep'
  <2>1. crashed = "no" /\ channel = 0
    BY <1>1 DEF Start
  <2>2. pending' = <<>> /\ wire' = <<>> /\ reply' = None /\ call' = None
    BY <1>1, <2>1 DEF Start, SessionInv, Held, Waiting
  <2>3. Queue' = <<>>
    BY <2>2 DEF Queue
  <2> QED
    BY <2>2, <2>3 DEF CallsInStep, AnswerLive, ShownLive, StartsFirst
<1>2. ASSUME Stop PROVE CallsInStep'
  <2>1. pending' = <<>> /\ wire' = <<>> /\ reply' = None /\ call' = None
    BY <1>2 DEF Stop, Dropped, SessionInv, Waiting
  <2>2. Queue' = <<>>
    BY <2>1 DEF Queue
  <2> QED
    BY <2>1, <2>2 DEF CallsInStep, AnswerLive, ShownLive, StartsFirst
<1>3. ASSUME NEW k, NEW d, Ask(k, d) PROVE CallsInStep'
  <2>1. /\ crashed = "no" /\ Queue' = Queue /\ epoch' = epoch /\ call' = call
        /\ accepted' = accepted /\ running' = running
    BY <1>3 DEF Ask, Queue
  <2>2. reply' = None
    <3>1. channel # 0 /\ reply' = IF up = "yes" THEN None ELSE Refused
      BY <1>3 DEF Ask
    <3> QED
      BY <2>1, <3>1 DEF SessionInv, OneEngine, TypeOK
  <2> QED
    BY <1>0, <2>1, <2>2, CallsKept
<1>4. ASSUME NEW d \in ConnIds, DisconnectOffline(d) PROVE CallsInStep'
  <2>1. /\ crashed = "no" /\ Queue' = Queue /\ epoch' = epoch /\ call' = call
        /\ accepted' = accepted /\ running' = running /\ reply' = reply /\ request' = request
    BY <1>4 DEF DisconnectOffline, Queue
  <2> QED
    BY <1>0, <2>1, CallsKept
<1>5. ASSUME Serve PROVE CallsInStep'
  <2>1. /\ crashed = "no" /\ Queue' = Queue /\ epoch' = epoch /\ call' = call
        /\ running' = running /\ request' = request /\ request \in Requests
    BY <1>5 DEF Serve, Queue, TypeOK
  <2>2. CASE request.kind = "execute" /\ request.conn \in open
    <3>1. accepted' = accepted \cup {issued + 1} /\ reply' = [ok |-> "yes", id |-> issued + 1]
      BY <1>5, <2>2 DEF Serve
    <3> QED
      BY <1>0, <2>1, <3>1, CallsKept
  <2>3. CASE request.kind = "execute" /\ request.conn \notin open
    <3>1. accepted' = accepted /\ reply' = Refused
      BY <1>5, <2>3 DEF Serve
    <3> QED
      BY <1>0, <2>1, <3>1, CallsKept DEF Refused
  <2>4. CASE request.kind = "connect"
    <3>1. accepted' = accepted
      BY <1>5, <2>4 DEF Serve
    <3> QED
      BY <1>0, <2>1, <2>4, <3>1, CallsKept
  <2>5. CASE request.kind = "disconnect"
    <3>1. accepted' = accepted
      BY <1>5, <2>5 DEF Serve
    <3> QED
      BY <1>0, <2>1, <2>5, <3>1, CallsKept
  <2> QED
    BY <2>1, <2>2, <2>3, <2>4, <2>5 DEF Requests
<1>6. ASSUME NEW e \in Events, wire' = Append(wire, e), pending' = pending, epoch' = epoch,
             crashed = "no", UNCHANGED <<call, reply, request>>,
             running \subseteq running' \/ (e.kind = "done" /\ e = Event("done", e.id)
                                            /\ running' = running \ {e.id}),
             accepted \cup running \subseteq accepted' \cup running' \cup (IF e.kind = "done" THEN {e.id} ELSE {}),
             e.kind = "executing" => e.id \in running', e.kind = "done" => e = Event("done", e.id)
      PROVE  CallsInStep'
  <2>1. \A k, id : Coming(k, id)' <=> Coming(k, id) \/ e = Event(k, id)
    BY <1>6, QueueSent
  <2>2. ASSUME NEW id, Live(id) PROVE Live(id)'
    <3>1. e = Event("done", e.id) /\ id = e.id => Coming("done", id)'
      BY <2>1
    <3>2. Coming("done", id) => Coming("done", id)'
      BY <2>1
    <3>3. CASE e.kind = "done"
      <4>1. id \in accepted' \cup running' \/ id = e.id \/ Coming("done", id)
        BY <1>6, <2>2, <3>3 DEF Live
      <4>2. e = Event("done", e.id)
        BY <1>6, <3>3
      <4> QED
        BY <3>1, <3>2, <4>1, <4>2 DEF Live
    <3>4. CASE e.kind # "done"
      BY <1>6, <2>2, <3>2, <3>4 DEF Live
    <3> QED
      BY <3>3, <3>4
  <2>3. AnswerLive' /\ ShownLive'
    BY <1>0, <1>6, <2>2 DEF CallsInStep, AnswerLive, ShownLive
  <2>4. StartsFirst'
    <3>1. CASE running \subseteq running'
      BY <1>0, <1>6, <3>1, StartsFirstSent DEF CallsInStep
    <3>2. CASE e = Event("done", e.id) /\ running' = running \ {e.id}
      <4>1. /\ Queue \in Seq(Events) /\ Len(Queue') = Len(Queue) + 1
            /\ \A i \in 1..Len(Queue) : Queue'[i] = Queue[i]
            /\ Queue'[Len(Queue) + 1] = e
        BY <1>6, QueueSent
      <4>2. ASSUME NEW i \in 1..Len(Queue'), Queue'[i].kind = "executing"
            PROVE  \/ Queue'[i].id \in running'
                   \/ \E j \in i+1..Len(Queue') : Queue'[j] = Event("done", Queue'[i].id)
        <5>1. i \in 1..Len(Queue) /\ Queue'[i] = Queue[i]
          <6>1. e.kind # "executing"
            BY <3>2 DEF Event
          <6> QED
            BY <4>1, <4>2, <6>1
        <5>2. CASE Queue[i].id = e.id
          <6>1. Len(Queue') \in i+1..Len(Queue') /\ Queue'[Len(Queue')] = e
            BY <4>1, <5>1
          <6>2. e = Event("done", Queue'[i].id)
            BY <3>2, <5>1, <5>2
          <6> QED
            BY <6>1, <6>2
        <5>3. CASE Queue[i].id \in running /\ Queue[i].id # e.id
          BY <3>2, <5>1, <5>3
        <5>4. CASE \E j \in i+1..Len(Queue) : Queue[j] = Event("done", Queue[i].id)
          <6>1. PICK j \in i+1..Len(Queue) : Queue[j] = Event("done", Queue[i].id)
            BY <5>4
          <6>2. j \in i+1..Len(Queue') /\ Queue'[j] = Queue[j]
            BY <4>1, <5>1
          <6> QED
            BY <5>1, <6>1, <6>2
        <5> QED
          BY <1>0, <1>6, <4>2, <5>1, <5>2, <5>3, <5>4 DEF CallsInStep, StartsFirst
      <4> QED
        BY <1>6, <4>2 DEF StartsFirst, Event
    <3> QED
      BY <1>6, <3>1, <3>2
  <2> QED
    BY <2>3, <2>4 DEF CallsInStep
<1>7. ASSUME NEW id \in CallIds, RunStarts(id) PROVE CallsInStep'
  <2> DEFINE e == Event("executing", id)
  <2>1. e \in Events /\ e.kind = "executing" /\ e.id = id
    BY <1>7 DEF RunStarts, Event, Events, CallEvents, SessionInv, OneEngine, TypeOK, Epochs
  <2>2. /\ wire' = Append(wire, e) /\ pending' = pending /\ epoch' = epoch /\ crashed = "no"
        /\ UNCHANGED <<call, reply, request>>
        /\ accepted' = accepted \ {id} /\ running' = running \cup {id}
    BY <1>7 DEF RunStarts
  <2> HIDE DEF e
  <2> QED
    BY <1>6, <2>1, <2>2
<1>8. ASSUME NEW id \in CallIds, RunEnds(id) PROVE CallsInStep'
  <2> DEFINE e == Event("done", id)
  <2>1. e \in Events /\ e.kind = "done" /\ e.id = id /\ e = Event("done", e.id)
    BY <1>8 DEF RunEnds, Event, Events, CallEvents, SessionInv, OneEngine, TypeOK, Epochs
  <2>2. /\ wire' = Append(wire, e) /\ pending' = pending /\ epoch' = epoch /\ crashed = "no"
        /\ UNCHANGED <<call, reply, request>>
        /\ accepted' = accepted /\ running' = running \ {id}
    BY <1>8 DEF RunEnds
  <2> HIDE DEF e
  <2> QED
    BY <1>6, <2>1, <2>2
<1>9. ASSUME NEW d \in ConnIds, NEW ok \in BOOLEAN, Opened(d, ok) PROVE CallsInStep'
  <2> DEFINE e == Event(IF ok THEN "connected" ELSE "failed", d)
  <2>1. e \in Events /\ e.kind # "executing" /\ e.kind # "done"
    BY <1>9 DEF Opened, Event, Events, ConnEvents, SessionInv, OneEngine, TypeOK, Epochs
  <2>2. /\ wire' = Append(wire, e) /\ pending' = pending /\ epoch' = epoch /\ crashed = "no"
        /\ UNCHANGED <<call, reply, request, accepted, running>>
    BY <1>9 DEF Opened
  <2> HIDE DEF e
  <2> QED
    BY <1>6, <2>1, <2>2
<1>10. ASSUME NEW d \in ConnIds, Closed(d) PROVE CallsInStep'
  <2> DEFINE e == Event("closed", d)
  <2>1. e \in Events /\ e.kind # "executing" /\ e.kind # "done"
    BY <1>10 DEF Closed, Event, Events, ConnEvents, SessionInv, OneEngine, TypeOK, Epochs
  <2>2. /\ wire' = Append(wire, e) /\ pending' = pending /\ epoch' = epoch /\ crashed = "no"
        /\ UNCHANGED <<call, reply, request, accepted, running>>
    BY <1>10 DEF Closed
  <2> HIDE DEF e
  <2> QED
    BY <1>6, <2>1, <2>2
<1>11. ~Crash
  BY DEF Crash
<1>12. ASSUME OnExit PROVE CallsInStep'
  BY <1>12 DEF OnExit, SessionInv, OneEngine
<1>13. ASSUME Return PROVE CallsInStep'
  <2>1. /\ crashed = "no" /\ Queue' = Queue /\ epoch' = epoch /\ accepted' = accepted
        /\ running' = running /\ reply' = None /\ reply # None
        /\ call' = IF request.kind = "execute" THEN Record(reply) ELSE call
    BY <1>13 DEF Return, Queue
  <2>2. \A id : Live(id) => Live(id)'
    BY <2>1, QueueKept DEF Live
  <2>3. StartsFirst' /\ AnswerLive'
    BY <1>0, <2>1 DEF CallsInStep, StartsFirst, AnswerLive, Event
  <2>4. ShownLive'
    <3>1. CASE request.kind = "execute" /\ reply.ok = "yes"
      BY <1>0, <2>1, <2>2, <3>1 DEF Record, CallsInStep, AnswerLive, ShownLive
    <3>2. CASE ~(request.kind = "execute" /\ reply.ok = "yes")
      BY <1>0, <2>1, <2>2, <3>2 DEF Record, CallsInStep, ShownLive
    <3> QED
      BY <3>1, <3>2
  <2> QED
    BY <2>3, <2>4 DEF CallsInStep
<1>14. ASSUME Dispatch PROVE CallsInStep'
  <2>1. UNCHANGED <<call, accepted, running, reply, request, crashed>>
    BY <1>14 DEF Dispatch
  <2> QED
    BY <1>0, <1>14, <2>1, QueueDispatched, CallsKept
<1>15. ASSUME RunScheduled PROVE CallsInStep'
  <2>1. UNCHANGED <<call, accepted, running, reply, request, crashed, epoch>> /\ Queue' = Queue
    BY <1>15 DEF RunScheduled, Queue
  <2> QED
    BY <1>0, <2>1, CallsKept
<1>16. ASSUME Handle PROVE CallsInStep'
  <2>1. CASE pending = <<>>
    <3>1. UNCHANGED <<call, accepted, running, reply, request, crashed, epoch>> /\ Queue' = Queue
      BY <1>16, <2>1 DEF Handle, Queue
    <3> QED
      BY <1>0, <3>1, CallsKept
  <2>2. CASE pending # <<>>
    <3> DEFINE e == Head(pending)
    <3>1. /\ pending' = Tail(pending) /\ wire' = wire
          /\ UNCHANGED <<accepted, running, reply, request, crashed, epoch>>
      BY <1>16, <2>2 DEF Handle
    <3>2. e \in Own(epoch)
      BY <2>2, <3>1 DEF SessionInv, Held
    <3>3. reply = None
      BY <1>16 DEF Handle, SessionInv, Waiting, InStep, OneAtATime
    <3>4. /\ Queue \in Seq(Events) /\ Len(Queue) = Len(Queue') + 1 /\ Queue' \in Seq(Events)
          /\ \A i \in 1..Len(Queue') : Queue'[i] = Queue[i + 1]
          /\ Queue[1] = e /\ 1 \in 1..Len(Queue)
      BY <2>2, <3>1, QueueHandled
    <3>5. \A k, id : Coming(k, id) => Coming(k, id)' \/ e = Event(k, id)
      BY <2>2, <3>1, QueueHandled
    <3>6. ASSUME NEW i \in 1..Len(Queue), Queue[i].kind = "executing"
          PROVE  \/ Queue[i].id \in running'
                 \/ \E j \in i..Len(Queue') : Queue'[j] = Event("done", Queue[i].id)
      <4>1. CASE Queue[i].id \in running
        BY <3>1, <4>1
      <4>2. CASE Queue[i].id \notin running
        <5>1. PICK j \in i+1..Len(Queue) : Queue[j] = Event("done", Queue[i].id)
          BY <1>0, <3>1, <3>6, <4>2 DEF CallsInStep, StartsFirst
        <5>2. j - 1 \in i..Len(Queue') /\ j - 1 \in 1..Len(Queue') /\ (j - 1) + 1 = j
          BY <3>4
        <5>3. Queue'[j - 1] = Queue[j]
          BY <3>4, <5>2
        <5> QED
          BY <5>1, <5>2, <5>3
      <4> QED
        BY <4>1, <4>2
    <3>7. StartsFirst'
      <4>1. ASSUME NEW i \in 1..Len(Queue'), Queue'[i].kind = "executing"
            PROVE  \/ Queue'[i].id \in running'
                   \/ \E j \in i+1..Len(Queue') : Queue'[j] = Event("done", Queue'[i].id)
        <5>1. i + 1 \in 1..Len(Queue) /\ Queue'[i] = Queue[i + 1]
          BY <3>4
        <5> QED
          BY <3>6, <4>1, <5>1
      <4> QED
        BY <3>1, <4>1 DEF StartsFirst, Event
    <3>8. ShownLive'
      <4>1. CASE e.kind = "executing"
        <5>1. e \in CallEvents /\ OnCall(e)
          BY <1>16, <2>2, <3>2, <4>1 DEF Handle, Own, Events, ConnEvents
        <5>2. call'.id = e.id
          BY <5>1 DEF OnCall
        <5>3. CASE e.id \in running'
          BY <5>2, <5>3 DEF ShownLive, Live
        <5>4. CASE \E j \in 1..Len(Queue') : Queue'[j] = Event("done", e.id)
          BY <3>1, <5>2, <5>4 DEF ShownLive, Live, Coming, Queue, Event
        <5> QED
          BY <3>4, <3>6, <4>1, <5>3, <5>4
      <4>2. CASE e.kind = "done"
        <5>1. call'.state = "done"
          BY <1>16, <2>2, <4>2 DEF Handle, OnCall
        <5> QED
          BY <5>1 DEF ShownLive
      <4>3. CASE e.kind \notin {"executing", "done"}
        <5>1. call' = call
          BY <1>16, <2>2, <4>3 DEF Handle, OnConnection
        <5>2. \A id : Coming("done", id) => Coming("done", id)'
          BY <3>5, <4>3 DEF Event
        <5> QED
          BY <1>0, <3>1, <5>1, <5>2 DEF CallsInStep, ShownLive, Live
      <4> QED
        BY <4>1, <4>2, <4>3
    <3> QED
      BY <3>1, <3>3, <3>7, <3>8 DEF CallsInStep, AnswerLive
  <2> QED
    BY <2>1, <2>2
<1> QED
  BY <1>1, <1>2, <1>3, <1>4, <1>5, <1>7, <1>8, <1>9, <1>10, <1>11, <1>12, <1>13, <1>14,
     <1>15, <1>16 DEF Next, User, Engine, Neovim, Connect, Disconnect, Execute

\* The step of every operation, for all that keeps the editor in step.
LEMMA InStepStep ==
  ASSUME TypeOK, TypeOK', SessionInv, SessionInv', InStep, Next
  PROVE  InStep'
<1> USE DEF engine, wires, client, state
<1>1. OneAtATime'
  <2>1. ASSUME Handle PROVE OneAtATime'
    <3>1. CASE pending = <<>>
      BY <2>1, <3>1 DEF Handle, InStep, OneAtATime
    <3>2. CASE pending # <<>>
      BY <2>1, <3>2 DEF Handle, OnCall, OnConnection, InStep, OneAtATime
    <3> QED
      BY <3>1, <3>2
  <2>2. ASSUME Serve PROVE OneAtATime'
    BY <2>2 DEF Serve, InStep, OneAtATime, TypeOK
  <2>3. ASSUME NEW k, NEW d, Ask(k, d) PROVE OneAtATime'
    BY <2>3 DEF Ask, InStep, OneAtATime
  <2>4. ASSUME Start \/ Stop \/ Crash \/ OnExit \/ \E d \in ConnIds : DisconnectOffline(d) PROVE OneAtATime'
    BY <2>4 DEF Start, Stop, Crash, OnExit, DisconnectOffline, Gone, InStep, OneAtATime
  <2>5. ASSUME Return \/ Dispatch \/ RunScheduled PROVE OneAtATime'
    BY <2>5 DEF Return, Dispatch, MayDrain, RunScheduled, InStep, OneAtATime, SessionInv, Waiting
  <2>6. ASSUME NEW id \in CallIds, RunStarts(id) \/ RunEnds(id) PROVE OneAtATime'
    BY <2>6 DEF RunStarts, RunEnds, InStep, OneAtATime
  <2>7. ASSUME NEW d \in ConnIds, (\E ok \in BOOLEAN : Opened(d, ok)) \/ Closed(d) PROVE OneAtATime'
    BY <2>7 DEF Opened, Closed, InStep, OneAtATime, SessionInv, OneEngine
  <2> QED
    BY <2>1, <2>2, <2>3, <2>4, <2>5, <2>6, <2>7 DEF Next, User, Engine, Neovim, Connect, Disconnect, Execute
<1>2. ASSUME crashed' = "no" PROVE NotRefused'
  <2>1. ASSUME Handle PROVE NotRefused'
    <3>1. CASE pending = <<>>
      BY <1>2, <2>1, <3>1 DEF Handle, InStep, NotRefused
    <3>2. CASE pending # <<>>
      BY <1>2, <2>1, <3>2 DEF Handle, OnCall, OnConnection, InStep, NotRefused
    <3> QED
      BY <3>1, <3>2
  <2>2. ASSUME Serve PROVE NotRefused'
    <3>1. CASE request.kind = "connect"
      <4>1. reply' = [ok |-> "yes", id |-> 0]
        BY <2>2, <3>1 DEF Serve
      <4> QED
        BY <4>1 DEF NotRefused, Refused
    <3>2. CASE request.kind # "connect"
      BY <2>2, <3>2 DEF Serve, NotRefused
    <3> QED
      BY <3>1, <3>2
  <2>3. ASSUME NEW k, NEW d, Ask(k, d) PROVE NotRefused'
    <3>1. channel # 0 /\ crashed = "no" /\ reply' = IF up = "yes" THEN None ELSE Refused
      BY <1>2, <2>3 DEF Ask
    <3>2. reply' = None
      BY <3>1 DEF SessionInv, OneEngine, TypeOK
    <3> QED
      BY <3>2, BoundsOK DEF NotRefused, Refused
  <2>4. ASSUME Start \/ Stop \/ OnExit \/ \E d \in ConnIds : DisconnectOffline(d) PROVE NotRefused'
    BY <1>2, <2>4 DEF Start, Stop, OnExit, DisconnectOffline, InStep, NotRefused, SessionInv, Waiting
  <2>5. ASSUME Return \/ Dispatch \/ RunScheduled PROVE NotRefused'
    BY <1>2, <2>5 DEF Return, Dispatch, RunScheduled, InStep, NotRefused
  <2>6. ASSUME NEW id \in CallIds, RunStarts(id) \/ RunEnds(id) PROVE NotRefused'
    BY <1>2, <2>6 DEF RunStarts, RunEnds, InStep, NotRefused
  <2>7. ASSUME NEW d \in ConnIds, (\E ok \in BOOLEAN : Opened(d, ok)) \/ Closed(d) PROVE NotRefused'
    BY <1>2, <2>7 DEF Opened, Closed, InStep, NotRefused
  <2>8. ~Crash
    BY <1>2 DEF Crash
  <2> QED
    BY <2>1, <2>2, <2>3, <2>4, <2>5, <2>6, <2>7, <2>8 DEF Next, User, Engine, Neovim, Connect, Disconnect, Execute
<1> QED
  BY <1>1, <1>2, CallsStep, ConnStep DEF InStep

\* What the editor keeps of its session, the requests and events on their way
\* and what the engine does fit together at every moment.
THEOREM StaysInStep == Spec => []InStep
<1>1. Init => InStep
  <2> SUFFICES ASSUME Init PROVE InStep
    OBVIOUS
  <2>1. pending = <<>> /\ wire = <<>> /\ Queue = <<>>
    BY DEF Init, Queue
  <2>2. \A k, id : ~Coming(k, id)
    BY <2>1 DEF Coming
  <2>3. OneAtATime /\ CallsInStep /\ NotRefused
    BY <2>1 DEF Init, OneAtATime, CallsInStep, AnswerLive, ShownLive, StartsFirst, NotRefused
  <2>4. ASSUME NEW c \in ConnIds PROVE ConnInStep(c)
    BY <2>2 DEF Init, ConnInStep, Fresh, Unserved, Unknown, Phase, Mirrored, Seen, Forgotten, Leaving, Asked
  <2> QED
    BY <2>3, <2>4 DEF InStep
<1>2. /\ TypeOK /\ SessionInv /\ InStep /\ TypeOK' /\ SessionInv' /\ [Next]_vars => InStep'
  <2> SUFFICES ASSUME InStep, UNCHANGED vars PROVE InStep'
    BY InStepStep
  <2>1. Queue' = Queue /\ epoch' = epoch
    BY DEF vars, engine, wires, client, state, Queue
  <2>2. \A k, id : Coming(k, id)' <=> Coming(k, id)
    BY <2>1, QueueKept
  <2>3. OneAtATime' /\ NotRefused' <=> OneAtATime /\ NotRefused
    BY DEF vars, engine, wires, client, OneAtATime, NotRefused
  <2>4. CallsInStep => CallsInStep'
    BY <2>1, CallsKept DEF vars, engine, wires, client, state
  <2>5. ASSUME NEW c \in ConnIds, ConnInStep(c) PROVE ConnInStep(c)'
    BY <2>2, <2>5, ConnKept DEF vars, engine, wires, client, state
  <2>6. OneAtATime' <=> OneAtATime
    BY DEF vars, engine, wires, client, OneAtATime
  <2>7. crashed' = crashed
    BY DEF vars
  <2> QED
    BY <2>3, <2>4, <2>5, <2>6, <2>7 DEF InStep
<1> QED
  BY <1>1, <1>2, SessionInvariant, PTL DEF Spec

\* What the editor shows of its engine is what the engine does: a call shown as
\* running is one the engine works at, and the connections shown are those it holds,
\* up to the events on their way and to connections closed while being opened.
THEOREM ShowsItsEngine == Spec => []SessionShown
<1>1. InStep => RunningIsRunning
  BY DEF InStep, CallsInStep, ShownLive, Live, RunningIsRunning
<1>2. SessionInv /\ InStep => MirrorsConnections
  BY DEF SessionInv, Waiting, InStep, ConnInStep, Mirrored, Seen, Asked, MirrorsConnections
<1> QED
  BY <1>1, <1>2, SessionInvariant, StaysInStep, PTL DEF SessionShown
==============================================================================
