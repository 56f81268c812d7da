------------------------------ MODULE ResultProofs ------------------------------
(***************************************************************************)
(* Proofs about held results.  Their views, for any set of results and       *)
(* specifications and any number of requests; and their rows, whatever cells *)
(* are pushed and whatever reads, clones, saves and reopens them.             *)
(***************************************************************************)
EXTENDS ResultViews, ResultData, WellFoundedInduction, FiniteSetTheorems, SequenceTheorems, TLAPS

-----------------------------------------------------------------------------
(* Views *)

\* A request for a view keeps the variables in their types.
LEMMA SendTyping ==
  ASSUME TypeOK, NEW spec \in Specs, NEW protected \in BOOLEAN, SendView(spec, protected),
         backup' \in [Results -> Specs \cup {NoSpec}]
  PROVE  TypeOK'
<1> DEFINE t == [id |-> current, gen |-> gen[current] + 1, spec |-> spec, at |-> "computing"]
<1> USE DEF SendView, BeginView
<1>1. gen[current] \in Nat /\ gen' \in [Results -> Nat]
  BY DEF TypeOK
<1>2. t \in Tasks
  BY <1>1 DEF TypeOK, Tasks
<1>3. tasks' \in SUBSET Tasks
  BY <1>2 DEF TypeOK
<1>4. pending' \in YesNo /\ specs' \in [Results -> Specs]
  BY DEF TypeOK, YesNo, Flag
<1>5. overlapped' \in SUBSET Results /\ unsure' \in SUBSET Results
  BY DEF TypeOK
<1> QED
  BY <1>1, <1>3, <1>4, <1>5 DEF TypeOK

\* Every variable keeps its type: the queue of events holds events, the backup
\* of a specification is one or none, and the grid shows some view.
THEOREM Typing == Spec => []TypeOK
<1>1. Init => TypeOK
  BY SpecsOK DEF Init, TypeOK, Specs, YesNo
<1>2. TypeOK /\ [Next]_vars => TypeOK'
  <2> SUFFICES ASSUME TypeOK, [Next]_vars PROVE TypeOK'
    OBVIOUS
  <2> USE DEF engine, editor
  <2>1. ASSUME NEW spec \in Specs, Narrow(spec) PROVE TypeOK'
    BY <2>1, SendTyping DEF Narrow, TypeOK
  <2>2. CASE ResetView
    BY <2>2, SendTyping DEF ResetView, TypeOK, Specs
  <2>3. ASSUME NEW spec \in Specs, View(spec) PROVE TypeOK'
    BY <2>3, SendTyping DEF View, TypeOK
  <2>4. ASSUME NEW spec \in Specs, ViewRefused(spec) PROVE TypeOK'
    BY <2>4 DEF ViewRefused, TypeOK
  <2>5. CASE ShowPage
    BY <2>5 DEF ShowPage, Rows, TypeOK
  <2>6. ASSUME NEW id \in Results, Render(id) PROVE TypeOK'
    BY <2>6 DEF Render, Rows, Flag, YesNo, TypeOK
  <2>7. CASE Stage \/ Discard
    BY <2>7 DEF Stage, Discard, YesNo, TypeOK
  <2>8. ASSUME NEW t \in tasks, Commit(t) PROVE TypeOK'
    <3>1. t \in Tasks /\ [t EXCEPT !.at = "committed"] \in Tasks
      BY DEF TypeOK, Tasks
    <3>2. tasks' \in SUBSET Tasks
      BY <2>8, <3>1 DEF Commit, TypeOK
    <3>3. view' \in [Results -> Specs] /\ viewGen' \in [Results -> Nat]
      BY <2>8, <3>1 DEF Commit, TypeOK, Tasks
    <3> QED
      BY <2>8, <3>2, <3>3 DEF Commit, TypeOK
  <2>9. ASSUME NEW t \in tasks, Notify(t) \/ Fail(t) \/ Drop(t) PROVE TypeOK'
    <3>1. t.id \in Results
      BY DEF TypeOK, Tasks
    <3>2. /\ [id |-> t.id, told |-> "error"] \in Events
          /\ [id |-> t.id, told |-> IF Grouped(t.spec) THEN "groups" ELSE "rows"] \in Events
      BY <3>1 DEF Events
    <3>3. events' \in Seq(Events)
      <4>1. CASE Notify(t)
        BY <4>1, <3>2, events \in Seq(Events) DEF Notify, TypeOK
      <4>2. CASE Fail(t)
        BY <4>2, <3>2, events \in Seq(Events) DEF Fail, TypeOK
      <4>3. CASE Drop(t)
        BY <4>3 DEF Drop, TypeOK
      <4> QED
        BY <2>9, <4>1, <4>2, <4>3
    <3> QED
      BY <2>9, <3>1, <3>3 DEF Notify, Fail, Drop, TypeOK
  <2>10. CASE OnView
    <3> DEFINE e == Head(events)
    <3>1. e \in Events /\ Tail(events) \in Seq(Events)
      BY <2>10 DEF OnView, TypeOK
    <3>2. e.id \in Results /\ e.told \in {"error", "rows", "groups"}
      BY <3>1 DEF Events
    <3>3. backup' \in [Results -> Specs \cup {NoSpec}]
      BY <2>10, <3>2 DEF OnView, TypeOK
    <3>4. CASE e.told = "error"
      <4>1. OnError(e.id)
        BY <2>10, <3>4 DEF OnView
      <4>2. Restored(e.id) \in Specs
        BY <3>2 DEF Restored, TypeOK
      <4> QED
        BY <2>10, <3>1, <3>2, <3>3, <4>1, <4>2 DEF OnView, OnError, YesNo, TypeOK
    <3>5. CASE e.told # "error"
      <4>1. OnBuilt(e.id, e.told)
        BY <2>10, <3>5 DEF OnView
      <4>2. summaries' \in [Results -> {"none", "rows", "groups"}]
        BY <3>2, <3>5, <4>1 DEF OnBuilt, TypeOK
      <4>3. pending' \in YesNo /\ aggregated' \in YesNo /\ page' \in Specs
        BY <3>2, <4>1 DEF OnBuilt, Rows, Flag, YesNo, TypeOK
      <4> QED
        BY <2>10, <3>1, <3>3, <4>1, <4>2, <4>3 DEF OnView, OnBuilt, TypeOK
    <3> QED
      BY <3>4, <3>5
  <2>11. CASE UNCHANGED vars
    BY <2>11 DEF vars, TypeOK
  <2> QED
    BY <2>1, <2>2, <2>3, <2>4, <2>5, <2>6, <2>7, <2>8, <2>9, <2>10, <2>11
    DEF Next, Request, Finish, Filter, Aggregate, Switch, Reopen
<1> QED
  BY <1>1, <1>2, PTL DEF Spec

\* No generation runs ahead of the one last reserved for its result.
THEOREM ReservedAlways == Spec => []Reserved
<1>1. Init => Reserved
  BY DEF Init, Reserved
<1>2. TypeOK /\ Reserved /\ [Next]_vars => Reserved'
  <2> SUFFICES ASSUME TypeOK, Reserved, [Next]_vars PROVE Reserved'
    OBVIOUS
  <2> USE DEF engine
  <2>1. ASSUME NEW spec \in Specs, BeginView(current, spec) PROVE Reserved'
    <3>1. gen \in [Results -> Nat] /\ current \in Results /\ viewGen \in [Results -> Nat]
      BY DEF TypeOK
    <3>2. \A id \in Results : gen'[id] >= gen[id]
      BY <2>1, <3>1 DEF BeginView
    <3>3. \A id \in Results : viewGen'[id] <= gen'[id]
      BY <2>1, <3>1, <3>2 DEF BeginView, Reserved
    <3>4. ASSUME NEW t \in tasks' PROVE t.gen <= gen'[t.id]
      <4>1. CASE t \in tasks
        <5>1. t.id \in Results /\ t.gen \in Nat /\ t.gen <= gen[t.id]
          BY <4>1 DEF TypeOK, Tasks, Reserved
        <5> QED
          BY <5>1, <3>1, <3>2, <2>1 DEF BeginView
      <4>2. CASE t \notin tasks
        <5>1. t.id = current /\ t.gen = gen[current] + 1
          BY <2>1, <4>2 DEF BeginView
        <5> QED
          BY <5>1, <2>1, <3>1 DEF BeginView
      <4> QED
        BY <4>1, <4>2
    <3> QED
      BY <3>3, <3>4 DEF Reserved
  <2>2. ASSUME NEW t \in tasks, Commit(t) PROVE Reserved'
    <3>1. t \in Tasks /\ t.id \in Results /\ t.gen = gen[t.id]
      BY <2>2 DEF Commit, TypeOK, Tasks
    <3>2. \A id \in Results : viewGen'[id] <= gen'[id]
      BY <2>2, <3>1 DEF Commit, TypeOK, Reserved
    <3>3. \A u \in tasks' : u.gen <= gen'[u.id]
      BY <2>2, <3>1 DEF Commit, Tasks, Reserved
    <3> QED
      BY <3>2, <3>3 DEF Reserved
  <2>3. ASSUME NEW t \in tasks, Notify(t) \/ Fail(t) \/ Drop(t) PROVE Reserved'
    BY <2>3 DEF Notify, Fail, Drop, Reserved
  <2>4. CASE UNCHANGED engine
    BY <2>4 DEF Reserved
  <2>5. \/ \E spec \in Specs : BeginView(current, spec)
        \/ \E t \in tasks : Commit(t) \/ Notify(t) \/ Fail(t) \/ Drop(t)
        \/ UNCHANGED engine
    BY DEF Next, Request, Finish, Filter, Aggregate, Narrow, ResetView, View, SendView,
           ViewRefused, ShowPage, Switch, Reopen, Render, Stage, Discard, OnView, vars, Specs
  <2> QED
    BY <2>1, <2>2, <2>3, <2>4, <2>5
<1> QED
  BY <1>1, <1>2, Typing, PTL DEF Spec

\* A view computed for an older request never replaces one computed for a newer
\* request, in whatever order the tasks are done.
THEOREM NewestViewWins == Spec => NewestWins
<1>1. TypeOK /\ Reserved /\ [Next]_vars
        => [\A id \in Results : viewGen'[id] >= viewGen[id]]_vars
  <2> SUFFICES ASSUME TypeOK, Reserved, Next
               PROVE  \A id \in Results : viewGen'[id] >= viewGen[id]
    OBVIOUS
  <2>1. viewGen \in [Results -> Nat]
    BY DEF TypeOK
  <2>2. ASSUME NEW t \in tasks, Commit(t) PROVE \A id \in Results : viewGen'[id] >= viewGen[id]
    <3>1. t.id \in Results /\ t.gen = gen[t.id] /\ viewGen[t.id] <= gen[t.id]
      BY <2>2 DEF Commit, TypeOK, Tasks, Reserved
    <3>2. gen[t.id] \in Nat
      BY <3>1 DEF TypeOK
    <3> QED
      BY <2>1, <2>2, <3>1, <3>2 DEF Commit
  <2>3. CASE UNCHANGED viewGen
    BY <2>1, <2>3
  <2>4. (\E t \in tasks : Commit(t)) \/ UNCHANGED viewGen
    BY DEF Next, Request, Finish, Notify, Fail, Drop, Filter, Aggregate, Narrow, ResetView,
           View, SendView, BeginView, ViewRefused, ShowPage, Switch, Reopen, Render, Stage,
           Discard, OnView, engine
  <2> QED
    BY <2>2, <2>3, <2>4
<1> QED
  BY <1>1, Typing, ReservedAlways, PTL DEF Spec, NewestWins
-----------------------------------------------------------------------------
(* What the grid shows *)

Told(i, id) == events[i].id = id
Built(i, id) == events[i].id = id /\ events[i].told # "error"

\* Each request has a generation of its own, and a view that is stored but not
\* told yet is the newest one.
OneEach ==
  /\ \A t, u \in tasks : t.id = u.id /\ t.gen = u.gen => t = u
  /\ \A t \in tasks : t.gen <= gen[t.id]
  /\ \A t \in tasks : t.at = "committed" => t.gen = gen[t.id] /\ view[t.id] = t.spec

\* Nothing about what the engine stored is still to be told.
Settled(id) == ~Locked(id) /\ \A i \in 1..Len(events) : ~Built(i, id)

\* The last that was told of a result is what the engine stored,
LastTold(id) ==
  ~Locked(id) => \A i \in 1..Len(events) :
    Built(i, id) /\ (\A j \in i+1..Len(events) : ~Built(j, id))
      => (events[i].told = "groups" <=> Grouped(view[id]))
Summarised(id) == Settled(id) => (summaries[id] = "groups" <=> Grouped(view[id]))

\* and a result left while a view of it was on its way counts as overlapped.
LeftBehind(id) == id # current /\ InFlight(id) => id \in overlapped

\* The view whose answer the editor waits for, unless requests overlapped: it is the
\* newest, and was marked if it is of groups.
OneView ==
  /\ \A t, u \in tasks : t.id = current /\ u.id = current => t = u
  /\ \A i, j \in 1..Len(events) : Told(i, current) /\ Told(j, current) => i = j
  /\ \A t \in tasks, i \in 1..Len(events) : ~(t.id = current /\ Told(i, current))
  /\ \A t \in tasks : t.id = current /\ Grouped(t.spec) => pending = "yes"
  /\ \A i \in 1..Len(events) : Told(i, current) /\ events[i].told = "groups" => pending = "yes"

\* Why the grid is right: it is of what was stored, and knows what it was told.
GridInv ==
  /\ aggregated = Flag(summaries[current] = "groups")
  /\ Settled(current) => page = view[current]
  /\ pending = "yes" => \/ \E t \in tasks : t.id = current /\ t.gen = gen[current]
                        \/ \E i \in 1..Len(events) : Told(i, current)
  /\ current \notin overlapped => OneView /\ (Grouped(page) => ~Editable)

\* Why the specification is: the one asked for last is kept until it is stored, and
\* the one to go back to is that of what is stored.
SpecInv(id) ==
  /\ \A t \in tasks : t.id = id /\ t.gen = gen[id] => specs[id] = t.spec
  /\ (\A t \in tasks : t.id = id /\ t.gen = gen[id] => t.at # "computing") /\ ~ErrorUntold(id)
       => specs[id] = view[id]
  /\ id \notin overlapped => \A t \in tasks :
       t.id = id /\ t.at = "computing" => backup[id] = view[id]
  /\ \A i \in 1..Len(events) : Told(i, id) /\ events[i].told = "error" =>
       /\ backup[id] = view[id]
       /\ \A t \in tasks : t.id # id
       /\ \A j \in 1..Len(events) : Told(j, id) => j = i

ShownInv ==
  /\ OneEach /\ GridInv
  /\ \A id \in Results : /\ LastTold(id) /\ Summarised(id) /\ LeftBehind(id)
                         /\ id \notin unsure => SpecInv(id)

\* What an event adds to the queue, and what handling the first leaves of it.
LEMMA EventSent ==
  ASSUME TypeOK, NEW e \in Events, events' = Append(events, e)
  PROVE  /\ Len(events) \in Nat /\ Len(events') = Len(events) + 1
         /\ \A i \in 1..Len(events) : i \in 1..Len(events') /\ events'[i] = events[i]
         /\ events'[Len(events) + 1] = e /\ Len(events) + 1 \in 1..Len(events')
         /\ \A i \in 1..Len(events') : i \in 1..Len(events) \/ i = Len(events) + 1
BY DEF TypeOK

LEMMA EventTaken ==
  ASSUME TypeOK, events # <<>>, events' = Tail(events)
  PROVE  /\ Len(events) \in Nat /\ Len(events') \in Nat /\ Len(events) = Len(events') + 1
         /\ \A i \in 1..Len(events') : i + 1 \in 2..Len(events) /\ events'[i] = events[i + 1]
         /\ 1 \in 1..Len(events) /\ events[1] = Head(events)
         /\ \A i \in 1..Len(events) : i = 1 \/ (i - 1 \in 1..Len(events') /\ (i - 1) + 1 = i)
         /\ \A i \in 1..Len(events) : events[i] \in Events
BY DEF TypeOK

\* An error that waits is an event that says so.
LEMMA ErrorWaits ==
  ASSUME TypeOK, NEW id \in Results
  PROVE  ErrorUntold(id) <=> \E i \in 1..Len(events) : Told(i, id) /\ events[i].told = "error"
<1>1. \A i \in 1..Len(events) : events[i] \in Events
  BY DEF TypeOK
<1> QED
  BY <1>1 DEF ErrorUntold, Told, Events

\* What holds of a result when nothing of it changed.
LEMMA ResultKept ==
  ASSUME NEW id \in Results, LastTold(id), Summarised(id),
         UNCHANGED events, view'[id] = view[id], summaries'[id] = summaries[id],
         Locked(id)' <=> Locked(id)
  PROVE  LastTold(id)' /\ Summarised(id)' /\ (Settled(id)' <=> Settled(id))
BY DEF LastTold, Summarised, Settled, Built

\* A request of the editor.
LEMMA SendShown ==
  ASSUME TypeOK, ShownInv, NEW spec \in Specs, NEW protected \in BOOLEAN,
         SendView(spec, protected),
         IF protected THEN backup' = [backup EXCEPT ![current] = specs[current]]
                      ELSE backup' = backup
  PROVE  ShownInv'
<1> DEFINE t0 == [id |-> current, gen |-> gen[current] + 1, spec |-> spec, at |-> "computing"]
<1>1. /\ UNCHANGED <<events, view, current, aggregated, summaries, page>>
      /\ tasks' = tasks \cup {t0} /\ ~Locked(current)
      /\ pending' = Flag(Grouped(spec))
      /\ overlapped' = IF InFlight(current) \/ ~protected THEN overlapped \cup {current}
                                                           ELSE overlapped \ {current}
      /\ unsure' = IF ErrorUntold(current) THEN unsure \cup {current} ELSE unsure
  BY DEF SendView, BeginView
<1>2. /\ current \in Results /\ gen[current] \in Nat
      /\ gen'[current] = gen[current] + 1 /\ specs'[current] = spec
      /\ \A id \in Results : id # current => gen'[id] = gen[id] /\ specs'[id] = specs[id]
      /\ \A t \in tasks : t.id \in Results /\ t.gen \in Nat /\ gen[t.id] \in Nat
  BY DEF SendView, BeginView, TypeOK, Tasks
<1>3. \A t \in tasks : t.id = current => t.gen < gen'[current] /\ t.at # "committed"
  BY <1>1, <1>2 DEF ShownInv, OneEach, Locked
<1>4. OneEach'
  <2>1. \A t, u \in tasks' : t.id = u.id /\ t.gen = u.gen => t = u
    BY <1>1, <1>2, <1>3 DEF ShownInv, OneEach
  <2>2. \A t \in tasks' : t.gen <= gen'[t.id]
    BY <1>1, <1>2, <1>3 DEF ShownInv, OneEach
  <2>3. \A t \in tasks' : t.at = "committed" => t.gen = gen'[t.id] /\ view'[t.id] = t.spec
    BY <1>1, <1>2, <1>3 DEF ShownInv, OneEach
  <2> QED
    BY <2>1, <2>2, <2>3 DEF OneEach
<1>5. \A id \in Results : Locked(id)' <=> Locked(id)
  BY <1>1 DEF Locked
<1>6. \A id \in Results : LastTold(id)' /\ Summarised(id)' /\ (Settled(id)' <=> Settled(id))
  BY <1>1, <1>5, ResultKept DEF ShownInv
<1>7. ASSUME NEW id \in Results PROVE LeftBehind(id)'
  BY <1>1, <1>7 DEF ShownInv, LeftBehind, InFlight
<1>8. current \notin overlapped' =>
        /\ protected /\ ~InFlight(current)
        /\ \A t \in tasks : t.id # current
        /\ \A i \in 1..Len(events) : ~Told(i, current)
  BY <1>1 DEF InFlight, Told
<1>9. GridInv'
  <2>1. aggregated' = Flag(summaries[current] = "groups")' /\ (Settled(current)' => page' = view'[current])
    BY <1>1, <1>2, <1>6 DEF ShownInv, GridInv, Flag
  <2>2. pending' = "yes" => \E t \in tasks' : t.id = current' /\ t.gen = gen'[current']
    <3>1. t0 \in tasks' /\ t0.id = current' /\ t0.gen = gen'[current']
      BY <1>1, <1>2
    <3> QED
      BY <3>1
  <2>3. ASSUME current \notin overlapped' PROVE OneView' /\ (Grouped(page)' => ~Editable')
    <3>1. \A t \in tasks' : t.id = current => t = t0
      BY <1>1, <1>8, <2>3
    <3>2. Grouped(spec) => pending' = "yes"
      BY <1>1 DEF Flag
    <3>3. OneView'
      BY <1>1, <1>8, <2>3, <3>1, <3>2 DEF OneView, Told, Grouped
    <3>4. Settled(current) /\ Summarised(current)
      BY <1>1, <1>2, <1>8, <2>3 DEF Settled, Locked, Built, Told, ShownInv
    <3>5. Grouped(page) => aggregated = "yes"
      BY <1>2, <3>4 DEF ShownInv, GridInv, Summarised, Flag
    <3> QED
      BY <1>1, <3>3, <3>5 DEF Editable, Grouped
  <2> QED
    BY <1>1, <2>1, <2>2, <2>3 DEF GridInv
<1>10. ASSUME NEW id \in Results, id \notin unsure' PROVE SpecInv(id)'
  <2>1. id \notin unsure /\ SpecInv(id)
    BY <1>1, <1>10 DEF ShownInv
  <2>2. CASE id # current
    <3>1. /\ gen'[id] = gen[id] /\ specs'[id] = specs[id] /\ backup'[id] = backup[id]
          /\ id \in overlapped' <=> id \in overlapped
      BY <1>1, <1>2, <1>10, <2>2 DEF TypeOK
    <3>2. \A t \in tasks' : t.id = id <=> t \in tasks /\ t.id = id
      BY <1>1, <2>2
    <3>3. \A t \in tasks : t \in tasks'
      BY <1>1
    <3>4. ErrorUntold(id)' <=> ErrorUntold(id)
      BY <1>1 DEF ErrorUntold
    <3> QED
      BY <1>1, <2>1, <3>1, <3>2, <3>3, <3>4 DEF SpecInv, Told
  <2>3. CASE id = current
    <3>1. \A i \in 1..Len(events) : ~(Told(i, id) /\ events[i].told = "error")
      BY <1>1, <1>10, <2>3, ErrorWaits
    <3>2. \A t \in tasks' : t.id = id /\ t.gen = gen'[id] => t = t0
      BY <1>1, <1>2, <1>3, <2>3
    <3>3. ASSUME id \notin overlapped', NEW t \in tasks', t.id = id PROVE backup'[id] = view'[id]
      <4>1. backup'[id] = specs[id]
        BY <1>2, <1>8, <2>3, <3>3 DEF TypeOK
      <4>2. specs[id] = view[id]
        BY <1>8, <2>1, <2>3, <3>1, <3>3, ErrorWaits DEF SpecInv
      <4> QED
        BY <1>1, <4>1, <4>2
    <3>4. t0 \in tasks' /\ t0.id = id /\ t0.gen = gen'[id] /\ t0.at = "computing" /\ specs'[id] = t0.spec
      BY <1>1, <1>2, <2>3
    <3> HIDE DEF t0
    <3>5. /\ \A t \in tasks' : t.id = id /\ t.gen = gen'[id] => specs'[id] = t.spec
          /\ ~\A t \in tasks' : t.id = id /\ t.gen = gen'[id] => t.at # "computing"
      BY <3>2, <3>4
    <3> QED
      BY <1>1, <3>1, <3>3, <3>5 DEF SpecInv, Told
  <2> QED
    BY <2>2, <2>3
<1> QED
  BY <1>4, <1>6, <1>7, <1>9, <1>10 DEF ShownInv

\* What the editor does without asking for a view.
LEMMA EditorShown ==
  ASSUME TypeOK, ShownInv, UNCHANGED <<engine, events, backup, summaries>>
  PROVE  /\ OneEach' /\ \A id \in Results : LastTold(id)' /\ Summarised(id)'
         /\ \A id \in Results : Settled(id)' <=> Settled(id)
         /\ \A id \in Results : InFlight(id)' <=> InFlight(id)
         /\ \A id \in Results : overlapped \subseteq overlapped' /\ specs'[id] = specs[id] /\ SpecInv(id) => SpecInv(id)'
<1> USE DEF engine
<1>1. OneEach'
  BY DEF ShownInv, OneEach
<1>2. \A id \in Results : (Locked(id)' <=> Locked(id)) /\ (InFlight(id)' <=> InFlight(id))
  BY DEF Locked, InFlight
<1>3. \A id \in Results : LastTold(id)' /\ Summarised(id)' /\ (Settled(id)' <=> Settled(id))
  BY <1>2, ResultKept DEF ShownInv
<1>4. ASSUME NEW id \in Results, overlapped \subseteq overlapped', specs'[id] = specs[id], SpecInv(id)
      PROVE  SpecInv(id)'
  <2>1. ErrorUntold(id)' <=> ErrorUntold(id)
    BY DEF ErrorUntold
  <2> QED
    BY <1>4, <2>1 DEF SpecInv, Told
<1> QED
  BY <1>1, <1>2, <1>3, <1>4

LEMMA RequestShown ==
  ASSUME TypeOK, ShownInv, Request
  PROVE  ShownInv'
<1> USE DEF engine
<1>1. ASSUME NEW spec \in Specs, Narrow(spec) PROVE ShownInv'
  BY <1>1, SendShown DEF Narrow
<1>2. ASSUME ResetView PROVE ShownInv'
  BY <1>2, SendShown DEF ResetView, Specs
<1>3. ASSUME NEW spec \in Specs, View(spec) PROVE ShownInv'
  BY <1>3, SendShown DEF View
<1>4. ASSUME NEW spec \in Specs, ViewRefused(spec) PROVE ShownInv'
  <2>1. /\ UNCHANGED <<engine, events, backup, summaries, current, aggregated, pending, page, overlapped>>
        /\ unsure' = unsure \cup {current} /\ specs' = [specs EXCEPT ![current] = spec]
    BY <1>4 DEF ViewRefused
  <2>2. GridInv'
    BY <2>1 DEF ShownInv, GridInv, Settled, Locked, Built, Told, OneView, Editable, Grouped, Flag
  <2>3. \A id \in Results : LeftBehind(id)'
    BY <2>1, EditorShown DEF ShownInv, LeftBehind
  <2>4. ASSUME NEW id \in Results, id \notin unsure' PROVE SpecInv(id)'
    <3>1. id \notin unsure /\ id # current
      BY <2>1, <2>4
    <3>2. specs'[id] = specs[id]
      BY <2>1, <3>1 DEF TypeOK
    <3> QED
      BY <2>1, <3>1, <3>2, EditorShown DEF ShownInv
  <2> QED
    BY <2>1, <2>2, <2>3, <2>4, EditorShown DEF ShownInv
<1>5. ASSUME ShowPage PROVE ShownInv'
  <2>1. /\ UNCHANGED <<engine, events, backup, summaries, specs, current, aggregated, pending, overlapped, unsure>>
        /\ page' = view[current]
    BY <1>5 DEF ShowPage, Rows
  <2>2. \A id \in Results : LeftBehind(id)' /\ (id \notin unsure' => SpecInv(id)')
    BY <2>1, EditorShown DEF ShownInv, LeftBehind
  <2>3. ASSUME current \notin overlapped, Grouped(view[current]) PROVE ~Editable
    <3>1. current \in Results
      BY DEF TypeOK
    <3>2. CASE Settled(current)
      BY <2>3, <3>1, <3>2 DEF ShownInv, GridInv, Summarised, Flag, Editable
    <3>3. CASE Locked(current)
      <4>1. PICK t \in tasks : t.id = current /\ t.at = "committed"
        BY <3>3 DEF Locked
      <4>2. view[current] = t.spec
        BY <4>1 DEF ShownInv, OneEach
      <4> QED
        BY <2>3, <4>1, <4>2 DEF ShownInv, GridInv, OneView, Editable
    <3>4. CASE ~Locked(current) /\ ~Settled(current)
      <4>1. PICK i \in 1..Len(events) : Built(i, current)
        BY <3>4 DEF Settled
      <4>2. \A j \in 1..Len(events) : Told(j, current) => j = i
        BY <2>3, <4>1 DEF ShownInv, GridInv, OneView, Built, Told
      <4>3. \A j \in i+1..Len(events) : ~Built(j, current)
        <5>1. Len(events) \in Nat
          BY DEF TypeOK
        <5> QED
          BY <4>1, <4>2, <5>1 DEF Built, Told
      <4>4. events[i].told = "groups"
        BY <2>3, <3>1, <3>4, <4>1, <4>3 DEF ShownInv, LastTold
      <4> QED
        BY <2>3, <4>1, <4>4 DEF ShownInv, GridInv, OneView, Built, Told, Editable
    <3> QED
      BY <3>2, <3>3, <3>4
  <2>4. GridInv'
    <3>1. OneView' <=> OneView
      BY <2>1 DEF OneView, Told, Grouped
    <3>2. (Grouped(page)' <=> Grouped(view[current])) /\ (Editable' <=> Editable)
      BY <2>1 DEF Grouped, Editable
    <3>3. /\ aggregated' = Flag(summaries[current] = "groups")'
          /\ pending' = "yes" => \/ \E t \in tasks' : t.id = current' /\ t.gen = gen'[current']
                                 \/ \E i \in 1..Len(events') : Told(i, current)'
      BY <2>1 DEF ShownInv, GridInv, Told, Flag
    <3> QED
      BY <2>1, <2>3, <3>1, <3>2, <3>3 DEF ShownInv, GridInv
  <2> QED
    BY <2>2, <2>4, <2>1, EditorShown DEF ShownInv
<1>6. ASSUME NEW d \in Results, Render(d) PROVE ShownInv'
  <2>1. /\ UNCHANGED <<engine, events, backup, summaries, specs, unsure>>
        /\ current' = d /\ aggregated' = Flag(summaries[d] = "groups") /\ pending' = "no"
        /\ page' = view[d]
        /\ overlapped' = IF InFlight(current) THEN overlapped \cup {current} ELSE overlapped
    BY <1>6 DEF Render, Rows
  <2>2. \A id \in Results : id \notin unsure' => SpecInv(id)'
    BY <2>1, EditorShown DEF ShownInv
  <2>3. ASSUME NEW id \in Results PROVE LeftBehind(id)'
    <3>1. InFlight(id)' <=> InFlight(id)
      BY <2>1, EditorShown
    <3> QED
      BY <2>1, <2>3, <3>1 DEF ShownInv, LeftBehind
  <2>4. ASSUME d \notin overlapped' PROVE OneView' /\ (Grouped(page)' => ~Editable')
    <3>1. ~InFlight(d)
      BY <2>1, <2>4 DEF ShownInv, LeftBehind
    <3>2. /\ \A t \in tasks : t.id # d
          /\ \A i \in 1..Len(events) : ~Told(i, d)
      BY <3>1 DEF InFlight, Told
    <3>3. OneView'
      BY <2>1, <3>2 DEF OneView, Told
    <3>4. Settled(d) /\ Summarised(d)
      BY <3>2 DEF Settled, Locked, Built, Told, ShownInv
    <3> QED
      BY <2>1, <3>3, <3>4 DEF Summarised, Flag, Editable, Grouped
  <2>5. GridInv'
    <3>1. aggregated' = Flag(summaries[current] = "groups")'
      BY <2>1 DEF Flag
    <3> QED
      BY <2>1, <2>4, <3>1 DEF GridInv
  <2> QED
    BY <2>1, <2>2, <2>3, <2>5, EditorShown DEF ShownInv
<1>7. ASSUME Stage \/ Discard PROVE ShownInv'
  <2>1. UNCHANGED <<engine, events, backup, summaries, specs, current, aggregated, pending, page, overlapped, unsure>>
    BY <1>7 DEF Stage, Discard
  <2>2. \A id \in Results : LeftBehind(id)' /\ (id \notin unsure' => SpecInv(id)')
    BY <2>1, EditorShown DEF ShownInv, LeftBehind
  <2>3. GridInv'
    BY <2>1 DEF ShownInv, GridInv, Settled, Locked, Built, Told, OneView, Editable, Grouped, Flag
  <2> QED
    BY <2>1, <2>2, <2>3, EditorShown DEF ShownInv
<1> QED
  BY <1>1, <1>2, <1>3, <1>4, <1>5, <1>6, <1>7 DEF Request, Filter, Aggregate, Switch, Reopen

\* A task that stores its view.
LEMMA CommitShown ==
  ASSUME TypeOK, ShownInv, NEW t \in tasks, Commit(t)
  PROVE  ShownInv'
<1> DEFINE u == [t EXCEPT !.at = "committed"]
<1>1. /\ UNCHANGED <<gen, events, current, aggregated, pending, specs, backup, summaries, page,
                     overlapped, unsure>>
      /\ t.at = "computing" /\ t.gen = gen[t.id]
      /\ tasks' = (tasks \ {t}) \cup {u}
  BY DEF Commit, editor
<1>2. /\ t \in Tasks /\ t.id \in Results
      /\ u.id = t.id /\ u.gen = t.gen /\ u.spec = t.spec /\ u.at = "committed"
  BY DEF TypeOK, Tasks
<1>3. /\ view'[t.id] = t.spec
      /\ \A id \in Results : id # t.id => view'[id] = view[id]
  BY <1>2 DEF Commit, TypeOK
<1>4. \A s \in tasks : s.id \in Results
  BY DEF TypeOK, Tasks
<1> HIDE DEF u
<1>5. ~Locked(t.id)
  BY <1>1, <1>2 DEF ShownInv, OneEach, Locked
<1>6. OneEach'
  <2>1. \A s, r \in tasks' : s.id = r.id /\ s.gen = r.gen => s = r
    BY <1>1, <1>2 DEF ShownInv, OneEach
  <2>2. \A s \in tasks' : s.gen <= gen'[s.id]
    BY <1>1, <1>2 DEF ShownInv, OneEach
  <2>3. \A s \in tasks' : s.at = "committed" => s.gen = gen'[s.id] /\ view'[s.id] = s.spec
    BY <1>1, <1>2, <1>3, <1>4, <1>5 DEF ShownInv, OneEach, Locked
  <2> QED
    BY <2>1, <2>2, <2>3 DEF OneEach
<1>7. /\ Locked(t.id)'
      /\ \A id \in Results : id # t.id => (Locked(id)' <=> Locked(id))
      /\ \A id \in Results : InFlight(id)' <=> InFlight(id)
  BY <1>1, <1>2 DEF Locked, InFlight
<1>8. ASSUME NEW id \in Results PROVE LastTold(id)' /\ Summarised(id)' /\ LeftBehind(id)'
  <2>1. CASE id = t.id
    BY <1>1, <1>7, <2>1 DEF ShownInv, LastTold, Summarised, Settled, LeftBehind
  <2>2. CASE id # t.id
    <3>1. Locked(id)' <=> Locked(id)
      BY <1>7, <2>2
    <3>2. LastTold(id)' /\ Summarised(id)'
      BY <1>1, <1>3, <2>2, <3>1, ResultKept DEF ShownInv
    <3> QED
      BY <1>1, <1>7, <3>2 DEF ShownInv, LeftBehind
  <2> QED
    BY <2>1, <2>2
<1>9. GridInv'
  <2>1. aggregated' = Flag(summaries[current] = "groups")'
    BY <1>1 DEF ShownInv, GridInv, Flag
  <2>2. Settled(current)' => page' = view'[current]
    <3>1. Settled(current)' => current # t.id /\ Settled(current)
      BY <1>1, <1>7 DEF Settled, Built, TypeOK
    <3> QED
      BY <1>1, <1>3, <3>1 DEF ShownInv, GridInv, TypeOK
  <2>3. pending' = "yes" => \/ \E s \in tasks' : s.id = current' /\ s.gen = gen'[current']
                            \/ \E i \in 1..Len(events') : Told(i, current)'
    <3>1. u \in tasks' /\ \A s \in tasks : s # t => s \in tasks'
      BY <1>1
    <3> QED
      BY <1>1, <1>2, <3>1 DEF ShownInv, GridInv, Told
  <2>4. ASSUME current \notin overlapped PROVE OneView' /\ (Grouped(page)' => ~Editable')
    <3>1. OneView /\ (Grouped(page) => ~Editable)
      BY <2>4 DEF ShownInv, GridInv
    <3>2. OneView'
      BY <1>1, <1>2, <3>1 DEF OneView, Told, Grouped
    <3> QED
      BY <1>1, <3>1, <3>2 DEF Grouped, Editable
  <2> QED
    BY <1>1, <2>1, <2>2, <2>3, <2>4 DEF GridInv
<1>10. ASSUME NEW id \in Results, id \notin unsure' PROVE SpecInv(id)'
  <2>1. SpecInv(id)
    BY <1>1, <1>10 DEF ShownInv
  <2>2. ErrorUntold(id)' <=> ErrorUntold(id)
    BY <1>1 DEF ErrorUntold
  <2>3. CASE id # t.id
    <3>1. view'[id] = view[id] /\ \A s \in tasks' : s.id = id <=> s \in tasks /\ s.id = id
      BY <1>1, <1>2, <1>3, <2>3
    <3>2. \A s \in tasks : s.id = id => s \in tasks'
      BY <1>1, <2>3
    <3> QED
      BY <1>1, <2>1, <2>2, <3>1, <3>2 DEF SpecInv, Told
  <2>4. CASE id = t.id
    <3>1. specs[id] = t.spec /\ specs'[id] = view'[id]
      BY <1>1, <1>3, <2>1, <2>4 DEF SpecInv
    <3>2. \A s \in tasks' : s.id = id /\ s.gen = gen'[id] => s = u
      BY <1>1, <1>2, <2>4 DEF ShownInv, OneEach
    <3>3. \A i \in 1..Len(events) : ~(Told(i, id) /\ events[i].told = "error")
      BY <2>1, <2>4 DEF SpecInv
    <3>4. id \notin overlapped' => \A s \in tasks' : s.id = id => s = u
      <4>1. ASSUME id \notin overlapped PROVE \A s \in tasks : s.id = id => s = t
        <5>1. InFlight(id)
          BY <2>4 DEF InFlight
        <5>2. id = current
          BY <4>1, <5>1 DEF ShownInv, LeftBehind
        <5> QED
          BY <2>4, <4>1, <5>2 DEF ShownInv, GridInv, OneView
      <4> QED
        BY <1>1, <4>1
    <3> QED
      BY <1>1, <1>2, <3>1, <3>2, <3>3, <3>4 DEF SpecInv, Told
  <2> QED
    BY <2>3, <2>4
<1> QED
  BY <1>6, <1>8, <1>9, <1>10 DEF ShownInv

\* A task that ends, telling what it found or that it failed.
LEMMA EndShown ==
  ASSUME TypeOK, ShownInv, NEW t \in tasks, Notify(t) \/ Fail(t)
  PROVE  ShownInv'
<1> DEFINE e == [id |-> t.id, told |-> IF Fail(t) THEN "error"
                                       ELSE IF Grouped(t.spec) THEN "groups" ELSE "rows"]
<1>1. /\ UNCHANGED <<gen, view, current, aggregated, pending, specs, backup, summaries, page,
                     overlapped>>
      /\ tasks' = tasks \ {t} /\ t.gen = gen[t.id]
      /\ Fail(t) <=> t.at = "computing"
      /\ ~Fail(t) => t.at = "committed" /\ view[t.id] = t.spec /\ unsure' = unsure
      /\ Fail(t) => unsure' = IF t.id \in overlapped THEN unsure \cup {t.id} ELSE unsure
  BY DEF Notify, Fail, editor, ShownInv, OneEach
<1>2. events' = Append(events, e)
  BY <1>1 DEF Notify, Fail
<1>3. e \in Events /\ t.id \in Results
  BY DEF TypeOK, Tasks, Events
<1>4. /\ e.id = t.id /\ (e.told = "error" <=> Fail(t)) /\ (e.told = "groups" <=> ~Fail(t) /\ Grouped(t.spec))
      /\ Fail(t) => e = [id |-> t.id, told |-> "error"]
  OBVIOUS
<1> HIDE DEF e
<1>0. PICK n \in Nat : n = Len(events) + 1
  <2>1. Len(events) \in Nat
    BY DEF TypeOK
  <2> QED
    BY <2>1
<1>5. /\ Len(events) \in Nat /\ Len(events') = n
      /\ \A i \in 1..Len(events) : i \in 1..Len(events') /\ events'[i] = events[i]
      /\ events'[n] = e /\ n \in 1..Len(events')
      /\ \A i \in 1..Len(events') : i \in 1..Len(events) \/ i = n
  BY <1>0, <1>2, <1>3, EventSent
<1>6. OneEach'
  BY <1>1 DEF ShownInv, OneEach
<1>7. \A s \in tasks : s.id = t.id /\ s.at = "committed" => s.gen = t.gen /\ s = t
  BY <1>1 DEF ShownInv, OneEach
<1>8. /\ ~Locked(t.id)'
      /\ \A id \in Results : id # t.id => (Locked(id)' <=> Locked(id))
  BY <1>1, <1>7 DEF Locked
<1>9. /\ \A i \in 1..Len(events) : events'[i].id = events[i].id /\ events'[i].told = events[i].told
      /\ events'[n].id = t.id
      /\ events'[n].told = "error" <=> Fail(t)
      /\ events'[n].told = "groups" <=> ~Fail(t) /\ Grouped(t.spec)
  BY <1>4, <1>5
<1>10. ASSUME NEW id \in Results, id # t.id
       PROVE LastTold(id)' /\ Summarised(id)' /\ LeftBehind(id)' /\ (Settled(id)' <=> Settled(id))
  <2>1. Settled(id)' <=> Settled(id)
    BY <1>5, <1>8, <1>9, <1>10 DEF Settled, Built
  <2>2. Summarised(id)'
    BY <1>1, <2>1 DEF ShownInv, Summarised, Grouped
  <2>3. ASSUME ~Locked(id)', NEW i \in 1..Len(events'), (events'[i].id = id /\ events'[i].told # "error"),
               \A j \in i+1..Len(events') : ~(events'[j].id = id /\ events'[j].told # "error")
        PROVE  events'[i].told = "groups" <=> Grouped(view'[id])
    <3>1. i \in 1..Len(events) /\ (events[i].id = id /\ events[i].told # "error") /\ events'[i] = events[i]
      BY <1>5, <1>9, <1>10, <2>3
    <3>2. \A j \in i+1..Len(events) : ~(events[j].id = id /\ events[j].told # "error")
      <4>1. \A j \in i+1..Len(events) : j \in i+1..Len(events') /\ j \in 1..Len(events)
        BY <1>5, <3>1
      <4> QED
        BY <1>9, <2>3, <4>1
    <3> QED
      BY <1>1, <1>8, <1>10, <2>3, <3>1, <3>2 DEF ShownInv, LastTold, Grouped, Built
  <2>4. LastTold(id)'
    BY <2>3 DEF LastTold, Grouped, Built
  <2>5. LeftBehind(id)'
    <3>1. InFlight(id)' => InFlight(id)
      BY <1>1, <1>5, <1>9, <1>10 DEF InFlight, Told
    <3> QED
      BY <1>1, <3>1 DEF ShownInv, LeftBehind
  <2> QED
    BY <2>1, <2>2, <2>4, <2>5
<1>11. LastTold(t.id)' /\ Summarised(t.id)' /\ LeftBehind(t.id)' /\ (Settled(t.id)' => Fail(t) /\ Settled(t.id))
  <2>1. Fail(t) => ~Locked(t.id)
    BY <1>1, <1>7 DEF Locked
  <2>2. Settled(t.id)' => Fail(t) /\ Settled(t.id)
    BY <1>3, <1>5, <1>9, <2>1 DEF Settled, Built
  <2>3. Summarised(t.id)'
    BY <1>1, <1>3, <2>2 DEF ShownInv, Summarised, Grouped
  <2>4. ASSUME NEW i \in 1..Len(events'), (events'[i].id = t.id /\ events'[i].told # "error"),
               \A j \in i+1..Len(events') : ~(events'[j].id = t.id /\ events'[j].told # "error")
        PROVE  events'[i].told = "groups" <=> Grouped(view'[t.id])
    <3>1. CASE Fail(t)
      <4>1. i \in 1..Len(events) /\ (events[i].id = t.id /\ events[i].told # "error") /\ events'[i] = events[i]
        BY <1>5, <1>9, <2>4, <3>1
      <4>2. \A j \in i+1..Len(events) : j \in i+1..Len(events') /\ j \in 1..Len(events)
        BY <1>5, <4>1
      <4>3. \A j \in i+1..Len(events) : ~(events[j].id = t.id /\ events[j].told # "error")
        BY <1>9, <2>4, <4>2
      <4> QED
        BY <1>1, <1>3, <2>1, <3>1, <4>1, <4>3 DEF ShownInv, LastTold, Grouped, Built
    <3>2. CASE ~Fail(t)
      <4>1. i = n
        <5>1. i # n => n \in i+1..Len(events')
          BY <1>5
        <5> QED
          BY <1>9, <2>4, <3>2, <5>1
      <4> QED
        BY <1>1, <1>4, <1>5, <3>2, <4>1 DEF Grouped
    <3> QED
      BY <3>1, <3>2
  <2>5. LastTold(t.id)'
    BY <2>4 DEF LastTold, Grouped, Built
  <2>6. LeftBehind(t.id)'
    <3>1. InFlight(t.id)
      BY DEF InFlight
    <3> QED
      BY <1>1, <1>3, <3>1 DEF ShownInv, LeftBehind
  <2> QED
    BY <2>2, <2>3, <2>5, <2>6
<1>12. GridInv'
  <2>1. aggregated' = Flag(summaries[current] = "groups")'
    BY <1>1 DEF ShownInv, GridInv, Flag, Told
  <2>2. Settled(current)' => page' = view'[current]
    <3>1. Settled(current)' => Settled(current)
      BY <1>1, <1>10, <1>11 DEF TypeOK
    <3> QED
      BY <1>1, <3>1 DEF ShownInv, GridInv, Told
  <2>3. pending' = "yes" => \/ \E s \in tasks' : s.id = current' /\ s.gen = gen'[current']
                            \/ \E i \in 1..Len(events') : events'[i].id = current
    <3>1. CASE t.id = current
      BY <1>5, <1>9, <3>1
    <3>2. CASE t.id # current
      BY <1>1, <1>5, <1>9, <3>2 DEF ShownInv, GridInv, Told
    <3> QED
      BY <3>1, <3>2
  <2>4. ASSUME current \notin overlapped PROVE OneView' /\ (Grouped(page)' => ~Editable')
    <3>1. OneView /\ (Grouped(page) => ~Editable)
      BY <2>4 DEF ShownInv, GridInv, Told
    <3>2. /\ \A s, r \in tasks' : s.id = current /\ r.id = current => s = r
          /\ \A s \in tasks' : s.id = current /\ Grouped(s.spec) => pending = "yes"
      BY <1>1, <3>1 DEF OneView, Told
    <3>3. t.id = current => /\ \A s \in tasks' : s.id # current
                            /\ \A i \in 1..Len(events) : events[i].id # current
                            /\ ~Fail(t) /\ Grouped(t.spec) => pending = "yes"
      BY <1>1, <3>1 DEF OneView, Told
    <3>4. \A i, j \in 1..Len(events') : events'[i].id = current /\ events'[j].id = current => i = j
      BY <1>5, <1>9, <3>1, <3>3 DEF OneView, Told
    <3>5. \A s \in tasks', i \in 1..Len(events') : ~(s.id = current /\ events'[i].id = current)
      BY <1>1, <1>5, <1>9, <3>1, <3>3 DEF OneView, Told
    <3>6. ASSUME NEW i \in 1..Len(events'), events'[i].id = current, events'[i].told = "groups"
          PROVE  pending = "yes"
      <4>1. CASE i = n
        BY <1>4, <1>5, <1>9, <3>3, <3>6, <4>1
      <4>2. CASE i \in 1..Len(events)
        BY <1>5, <1>9, <3>1, <3>6, <4>2 DEF OneView, Told
      <4> QED
        BY <1>5, <4>1, <4>2
    <3>7. OneView'
      BY <1>1, <3>2, <3>4, <3>5, <3>6 DEF OneView, Told, Grouped
    <3> QED
      BY <1>1, <3>1, <3>7 DEF Grouped, Editable
  <2> QED
    BY <1>1, <2>1, <2>2, <2>3, <2>4 DEF GridInv, Told
<1>13. ASSUME NEW id \in Results, id \notin unsure' PROVE SpecInv(id)'
  <2>1. id \notin unsure /\ SpecInv(id)
    BY <1>1, <1>13 DEF ShownInv
  <2>3. ErrorUntold(id)' <=> ErrorUntold(id) \/ (id = t.id /\ Fail(t))
    <3>1. ErrorUntold(id) => ErrorUntold(id)'
      BY <1>5 DEF ErrorUntold
    <3>2. id = t.id /\ Fail(t) => ErrorUntold(id)'
      BY <1>4, <1>5 DEF ErrorUntold
    <3>3. ASSUME NEW i \in 1..Len(events'), events'[i] = [id |-> id, told |-> "error"]
          PROVE  ErrorUntold(id) \/ (id = t.id /\ Fail(t))
      <4>1. i = n => id = t.id /\ Fail(t)
        BY <1>4, <1>5, <3>3
      <4>2. i \in 1..Len(events) => ErrorUntold(id)
        BY <1>5, <3>3 DEF ErrorUntold
      <4> QED
        BY <1>5, <4>1, <4>2
    <3> QED
      BY <3>1, <3>2, <3>3 DEF ErrorUntold
  <2>4. ASSUME NEW i \in 1..Len(events'), events'[i].id = id, events'[i].told = "error"
        PROVE  \/ i \in 1..Len(events) /\ events[i].id = id /\ events[i].told = "error"
               \/ i = n /\ id = t.id /\ Fail(t)
    BY <1>4, <1>5, <1>9, <2>4
  <2>5. CASE id # t.id
    <3>1. \A s \in tasks : s.id = id => s \in tasks'
      BY <1>1, <2>5
    <3>2. \A j \in 1..Len(events') : events'[j].id = id => j \in 1..Len(events) /\ events[j].id = id
      BY <1>5, <1>9, <2>5
    <3> QED
      BY <1>1, <2>1, <2>3, <2>4, <2>5, <3>1, <3>2 DEF SpecInv, Told
  <2>6. CASE id = t.id /\ ~Fail(t)
    <3>1. specs[id] = t.spec /\ view[id] = t.spec
      BY <1>1, <2>1, <2>6 DEF SpecInv, Told
    <3>2. \A i \in 1..Len(events) : ~(events[i].id = id /\ events[i].told = "error")
      BY <2>1, <2>6 DEF SpecInv, Told
    <3> QED
      BY <1>1, <2>1, <2>4, <2>6, <3>1, <3>2 DEF SpecInv, Told
  <2>7. CASE id = t.id /\ Fail(t)
    <3>1. id \notin overlapped /\ t.at = "computing"
      BY <1>1, <1>13, <2>7
    <3>2. id = current
      <4>1. InFlight(id)
        BY <2>7 DEF InFlight
      <4> QED
        BY <3>1, <4>1 DEF ShownInv, LeftBehind
    <3>3. /\ \A s \in tasks' : s.id # id
          /\ \A i \in 1..Len(events) : events[i].id # id
      BY <1>1, <2>7, <3>1, <3>2 DEF ShownInv, GridInv, OneView, Told
    <3>4. backup[id] = view[id]
      BY <2>1, <2>7, <3>1 DEF SpecInv, Told
    <3>5. \A j \in 1..Len(events') : events'[j].id = id => j = n
      BY <1>5, <1>9, <3>3
    <3> QED
      BY <1>1, <2>3, <2>4, <2>7, <3>3, <3>4, <3>5 DEF SpecInv, Told
  <2> QED
    BY <2>5, <2>6, <2>7
<1> QED
  BY <1>3, <1>6, <1>10, <1>11, <1>12, <1>13 DEF ShownInv

\* A task that a newer request overtook.
LEMMA DropShown ==
  ASSUME TypeOK, ShownInv, NEW t \in tasks, Drop(t)
  PROVE  ShownInv'
<1>1. /\ UNCHANGED <<gen, view, events, current, aggregated, pending, specs, backup, summaries,
                     page, overlapped, unsure>>
      /\ tasks' = tasks \ {t} /\ t.gen # gen[t.id] /\ t.at = "computing"
  BY DEF Drop, editor
<1>2. OneEach'
  BY <1>1 DEF ShownInv, OneEach
<1>3. \A id \in Results : (Locked(id)' <=> Locked(id)) /\ (InFlight(id)' => InFlight(id))
  BY <1>1 DEF Locked, InFlight
<1>4. \A id \in Results : LastTold(id)' /\ Summarised(id)' /\ LeftBehind(id)' /\ (Settled(id)' <=> Settled(id))
  BY <1>1, <1>3, ResultKept DEF ShownInv, LeftBehind
<1>5. GridInv'
  <2>1. Settled(current)' => page' = view'[current]
    BY <1>1, <1>4 DEF ShownInv, GridInv, TypeOK
  <2>2. pending' = "yes" => \/ \E s \in tasks' : s.id = current' /\ s.gen = gen'[current']
                            \/ \E i \in 1..Len(events') : Told(i, current)'
    BY <1>1 DEF ShownInv, GridInv, Told
  <2>3. OneView => OneView'
    BY <1>1 DEF OneView, Told, Grouped
  <2> QED
    BY <1>1, <2>1, <2>2, <2>3 DEF ShownInv, GridInv, Flag, Grouped, Editable
<1>6. ASSUME NEW id \in Results, id \notin unsure' PROVE SpecInv(id)'
  <2>1. SpecInv(id)
    BY <1>1, <1>6 DEF ShownInv
  <2>2. ErrorUntold(id)' <=> ErrorUntold(id)
    BY <1>1 DEF ErrorUntold
  <2>3. \A s \in tasks : s.id = id /\ s.gen = gen[id] => s \in tasks'
    BY <1>1
  <2> QED
    BY <1>1, <2>1, <2>2, <2>3 DEF SpecInv, Told
<1> QED
  BY <1>2, <1>4, <1>5, <1>6 DEF ShownInv

\* The editor handles an event.
LEMMA OnViewShown ==
  ASSUME TypeOK, ShownInv, OnView
  PROVE  ShownInv'
<1> DEFINE e == Head(events)
<1>1. /\ events # <<>> /\ events' = Tail(events)
      /\ UNCHANGED <<gen, view, tasks, current, overlapped, unsure>>
      /\ backup' = [backup EXCEPT ![e.id] = NoSpec]
      /\ e.told = "error" => OnError(e.id)
      /\ e.told # "error" => OnBuilt(e.id, e.told)
  BY DEF OnView, engine
<1>2. /\ Len(events) \in Nat /\ Len(events') \in Nat /\ Len(events) = Len(events') + 1
      /\ \A i \in 1..Len(events') : i + 1 \in 2..Len(events) /\ events'[i] = events[i + 1]
      /\ 1 \in 1..Len(events) /\ events[1] = e
      /\ \A i \in 1..Len(events) : i = 1 \/ (i - 1 \in 1..Len(events') /\ (i - 1) + 1 = i)
      /\ \A i \in 1..Len(events) : events[i] \in Events
  BY <1>1, EventTaken
<1>3. e \in Events /\ e.id \in Results /\ e.told \in {"error", "rows", "groups"}
  BY <1>2 DEF Events
<1>4. /\ \A i \in 1..Len(events') : events'[i].id = events[i + 1].id /\ events'[i].told = events[i + 1].told
      /\ events[1].id = e.id /\ events[1].told = e.told
  BY <1>2
<1> HIDE DEF e
<1>5. OneEach'
  BY <1>1 DEF ShownInv, OneEach
<1>6. \A id \in Results : (Locked(id)' <=> Locked(id))
  BY <1>1 DEF Locked
<1>7. ASSUME NEW id \in Results PROVE LastTold(id)'
  <2>1. ASSUME ~Locked(id), NEW i \in 1..Len(events'), (events'[i].id = id /\ events'[i].told # "error"),
               \A j \in i+1..Len(events') : ~(events'[j].id = id /\ events'[j].told # "error")
        PROVE  events'[i].told = "groups" <=> Grouped(view'[id])
    <3>1. i + 1 \in 1..Len(events) /\ (events[i + 1].id = id /\ events[i + 1].told # "error") /\ events'[i] = events[i + 1]
      BY <1>2, <1>4, <2>1
    <3>2. ASSUME NEW j \in (i+1)+1..Len(events) PROVE ~(events[j].id = id /\ events[j].told # "error")
      <4>1. j - 1 \in i+1..Len(events') /\ j - 1 \in 1..Len(events') /\ (j - 1) + 1 = j
        BY <1>2, <2>1, <3>2
      <4> QED
        BY <1>4, <2>1, <4>1
    <3> QED
      BY <1>1, <2>1, <3>1, <3>2 DEF ShownInv, LastTold, Grouped, Built
  <2> QED
    BY <1>6, <2>1 DEF LastTold, Grouped, Built
<1>8. ASSUME NEW id \in Results PROVE LeftBehind(id)'
  <2>1. InFlight(id)' => InFlight(id)
    BY <1>1, <1>2 DEF InFlight
  <2> QED
    BY <1>1, <2>1 DEF ShownInv, LeftBehind
<1>9. ASSUME NEW id \in Results, Settled(id)'
      PROVE  \/ Settled(id) /\ ~(id = e.id /\ e.told # "error")
             \/ /\ id = e.id /\ e.told # "error"
                /\ e.told = "groups" <=> Grouped(view[id])
  <2>1. \A i \in 1..Len(events) : i # 1 => ~(events[i].id = id /\ events[i].told # "error")
    <3> SUFFICES ASSUME NEW i \in 1..Len(events), i # 1
                 PROVE  ~(events[i].id = id /\ events[i].told # "error")
      OBVIOUS
    <3>1. i - 1 \in 1..Len(events') /\ (i - 1) + 1 = i
      BY <1>2
    <3>2. events'[i - 1].id = events[i].id /\ events'[i - 1].told = events[i].told
      BY <1>4, <3>1
    <3> QED
      BY <1>9, <3>1, <3>2 DEF Settled, Built
  <2>2. ~Locked(id)
    BY <1>6, <1>9 DEF Settled, Built
  <2>3. CASE (events[1].id = id /\ events[1].told # "error")
    <3>1. \A j \in 1+1..Len(events) : ~(events[j].id = id /\ events[j].told # "error")
      BY <1>2, <2>1
    <3>2. events[1].told = "groups" <=> Grouped(view[id])
      BY <1>2, <2>2, <2>3, <3>1 DEF ShownInv, LastTold, Built
    <3> QED
      BY <1>2, <1>4, <2>3, <3>2
  <2>4. CASE ~(events[1].id = id /\ events[1].told # "error")
    BY <1>4, <2>1, <2>2, <2>4 DEF Settled, Built
  <2> QED
    BY <2>3, <2>4
<1>10. /\ e.told = "error" => summaries' = summaries
       /\ e.told # "error" => summaries' = [summaries EXCEPT ![e.id] = e.told]
  BY <1>1 DEF OnError, OnBuilt
<1>11. ASSUME NEW id \in Results PROVE Summarised(id)'
  <2>1. CASE id = e.id /\ e.told # "error"
    <3>1. summaries'[id] = e.told
      BY <1>10, <2>1 DEF TypeOK
    <3> QED
      BY <1>1, <1>9, <2>1, <3>1 DEF Summarised, Grouped
  <2>2. CASE ~(id = e.id /\ e.told # "error")
    <3>1. summaries'[id] = summaries[id]
      BY <1>10, <2>2 DEF TypeOK
    <3> QED
      BY <1>1, <1>9, <2>2, <3>1 DEF ShownInv, Summarised, Grouped
  <2> QED
    BY <2>1, <2>2
<1>12. /\ aggregated' = Flag(summaries[current] = "groups")'
       /\ Settled(current)' => page' = view'[current]
       /\ e.id # current => UNCHANGED <<aggregated, pending, page>>
       /\ e.id = current => pending' = "no"
  <2>1. CASE e.id = current /\ e.told # "error"
    <3>1. aggregated' = Flag(e.told = "groups") /\ page' = view[current] /\ pending' = "no"
      BY <1>1, <2>1 DEF OnBuilt, Rows
    <3>2. summaries'[current] = e.told
      BY <1>10, <2>1 DEF TypeOK
    <3> QED
      BY <1>1, <2>1, <3>1, <3>2 DEF Flag
  <2>2. CASE e.id = current /\ e.told = "error"
    <3>1. UNCHANGED <<aggregated, summaries, page>> /\ pending' = "no"
      BY <1>1, <2>2 DEF OnError
    <3>2. Settled(current)' => Settled(current)
      <4>1. PICK c \in Results : c = current
        BY DEF TypeOK
      <4>2. Settled(current)' => Settled(c)'
        BY <1>1, <4>1 DEF Settled, Locked, Built
      <4> QED
        BY <1>9, <2>2, <4>1, <4>2
    <3> QED
      BY <1>1, <2>2, <3>1, <3>2 DEF ShownInv, GridInv, Flag, Told
  <2>3. CASE e.id # current
    <3>1. UNCHANGED <<aggregated, pending, page>> /\ summaries'[current] = summaries[current]
      BY <1>1, <1>10, <2>3 DEF OnError, OnBuilt, TypeOK
    <3>2. Settled(current)' => Settled(current)
      <4>1. PICK c \in Results : c = current
        BY DEF TypeOK
      <4>2. Settled(current)' => Settled(c)'
        BY <1>1, <4>1 DEF Settled, Locked, Built
      <4> QED
        BY <1>9, <2>3, <4>1, <4>2
    <3> QED
      BY <1>1, <2>3, <3>1, <3>2 DEF ShownInv, GridInv, Flag, Told
  <2> QED
    BY <2>1, <2>2, <2>3
<1>13. GridInv'
  <2>1. pending' = "yes" => \/ \E s \in tasks' : s.id = current' /\ s.gen = gen'[current']
                            \/ \E i \in 1..Len(events') : events'[i].id = current
    <3>1. ASSUME e.id # current, NEW i \in 1..Len(events), events[i].id = current
          PROVE  \E j \in 1..Len(events') : events'[j].id = current
      BY <1>2, <1>4, <3>1
    <3> QED
      BY <1>1, <1>12, <3>1 DEF ShownInv, GridInv, Told
  <2>2. ASSUME current \notin overlapped PROVE OneView' /\ (Grouped(page)' => ~Editable')
    <3>1. OneView /\ (Grouped(page) => ~Editable)
      BY <2>2 DEF ShownInv, GridInv, Told
    <3>2. e.id = current => /\ \A s \in tasks : s.id # current
                            /\ \A i \in 1..Len(events') : events'[i].id # current
      BY <1>2, <1>4, <3>1, SMTT(20) DEF OneView, Told
    <3>3. /\ \A i, j \in 1..Len(events') : events'[i].id = current /\ events'[j].id = current => i = j
          /\ \A s \in tasks', i \in 1..Len(events') : ~(s.id = current /\ events'[i].id = current)
      BY <1>1, <1>2, <1>4, <3>1 DEF OneView, Told
    <3>4. \A s \in tasks' : s.id = current /\ Grouped(s.spec) => pending' = "yes"
      BY <1>1, <1>12, <3>1, <3>2 DEF OneView, Told
    <3>5. \A i \in 1..Len(events') : events'[i].id = current /\ events'[i].told = "groups" => pending' = "yes"
      BY <1>1, <1>2, <1>4, <1>12, <3>1, <3>2 DEF OneView, Told
    <3>6. OneView'
      BY <1>1, <3>1, <3>3, <3>4, <3>5 DEF OneView, Told, Grouped
    <3>7. CASE e.id = current
      <4>1. Settled(current)'
        BY <1>1, <3>2, <3>7 DEF Settled, Locked, Built, Told
      <4>2. PICK c \in Results : c = current
        BY DEF TypeOK
      <4>3. Summarised(c)' /\ Settled(c)'
        BY <1>1, <1>11, <4>1, <4>2 DEF Settled, Locked, Built
      <4> QED
        BY <1>1, <1>12, <3>6, <4>1, <4>2, <4>3 DEF Summarised, Flag, Editable, Grouped
    <3>8. CASE e.id # current
      BY <1>1, <1>12, <3>1, <3>6, <3>8 DEF Editable, Grouped
    <3> QED
      BY <3>7, <3>8
  <2> QED
    BY <1>1, <1>12, <2>1, <2>2 DEF GridInv, Told
<1>14. ASSUME NEW id \in Results, id \notin unsure' PROVE SpecInv(id)'
  <2>1. id \notin unsure /\ SpecInv(id)
    BY <1>1, <1>14 DEF ShownInv
  <2>2. ErrorUntold(id)' => ErrorUntold(id)
    BY <1>2 DEF ErrorUntold
  <2>3. CASE id # e.id
    <3>1. specs'[id] = specs[id] /\ backup'[id] = backup[id]
      BY <1>1, <1>3, <1>14, <2>3 DEF OnError, OnBuilt, TypeOK
    <3>2. ErrorUntold(id) => ErrorUntold(id)'
      <4> SUFFICES ASSUME NEW i \in 1..Len(events), events[i] = [id |-> id, told |-> "error"]
                   PROVE  ErrorUntold(id)'
        BY DEF ErrorUntold
      <4>1. i # 1
        BY <1>2, <2>3
      <4>2. i - 1 \in 1..Len(events') /\ (i - 1) + 1 = i
        BY <1>2, <4>1
      <4>3. events'[i - 1] = events[i]
        BY <1>2, <4>2
      <4> QED
        BY <4>2, <4>3 DEF ErrorUntold
    <3>3. ASSUME NEW i \in 1..Len(events'), events'[i].id = id, events'[i].told = "error"
          PROVE  /\ backup'[id] = view'[id] /\ \A s \in tasks' : s.id # id
                 /\ \A j \in 1..Len(events') : events'[j].id = id => j = i
      <4>1. i + 1 \in 1..Len(events) /\ events[i + 1].id = id /\ events[i + 1].told = "error"
        BY <1>2, <1>4, <3>3
      <4>2. /\ backup[id] = view[id] /\ \A s \in tasks : s.id # id
            /\ \A j \in 1..Len(events) : events[j].id = id => j = i + 1
        BY <2>1, <4>1 DEF SpecInv, Told
      <4>3. \A j \in 1..Len(events') : events'[j].id = id => j + 1 = i + 1
        BY <1>2, <1>4, <4>2
      <4> QED
        BY <1>1, <1>2, <3>1, <4>2, <4>3
    <3> QED
      BY <1>1, <2>1, <2>2, <3>1, <3>2, <3>3 DEF SpecInv, Told
  <2>4. CASE id = e.id /\ e.told = "error"
    <3>1. /\ backup[id] = view[id] /\ \A s \in tasks : s.id # id
          /\ \A j \in 1..Len(events) : events[j].id = id => j = 1
      BY <1>2, <1>4, <2>1, <2>4 DEF SpecInv, Told
    <3>2. specs'[id] = view[id]
      BY <1>1, <1>14, <2>4, <3>1, SpecsOK DEF OnError, Restored, TypeOK
    <3>3. \A i \in 1..Len(events') : events'[i].id # id
      BY <1>2, <1>4, <3>1
    <3> QED
      BY <1>1, <3>1, <3>2, <3>3 DEF SpecInv, Told
  <2>5. CASE id = e.id /\ e.told # "error"
    <3>1. specs' = specs
      BY <1>1, <2>5 DEF OnBuilt
    <3>2. ~ErrorUntold(id)
      <4>1. ASSUME NEW i \in 1..Len(events), events[i].id = id, events[i].told = "error" PROVE FALSE
        BY <1>2, <1>4, <2>1, <2>5, <4>1 DEF SpecInv, Told
      <4> QED
        BY <1>14, <4>1, ErrorWaits DEF Told
    <3>3. \A i \in 1..Len(events') : ~(events'[i].id = id /\ events'[i].told = "error")
      BY <1>2, <1>4, <1>14, <3>2, ErrorWaits DEF Told
    <3>4. id \notin overlapped => \A s \in tasks : s.id # id
      <4>1. InFlight(id)
        BY <1>2, <2>5 DEF InFlight
      <4> QED
        BY <1>2, <1>4, <2>5, <4>1 DEF ShownInv, LeftBehind, GridInv, OneView, Told
    <3> QED
      BY <1>1, <2>1, <2>2, <3>1, <3>2, <3>3, <3>4 DEF SpecInv, Told
  <2> QED
    BY <2>3, <2>4, <2>5
<1> QED
  BY <1>5, <1>7, <1>8, <1>11, <1>13, <1>14 DEF ShownInv

\* Whatever is asked, in whatever order tasks end and events are handled, the grid
\* and what is shown above it can be trusted, as far as this invariant says.
THEOREM ShownInvariant == Spec => []ShownInv
<1>1. Init => ShownInv
  <2> SUFFICES ASSUME Init PROVE ShownInv
    OBVIOUS
  <2>1. tasks = {} /\ events = <<>> /\ Len(events) = 0
    BY DEF Init
  <2>2. All \notin Groupings /\ current \in Results
    BY SpecsOK DEF Init
  <2>3. OneEach
    BY <2>1 DEF OneEach
  <2>4. ASSUME NEW id \in Results PROVE LastTold(id) /\ Summarised(id) /\ LeftBehind(id) /\ SpecInv(id)
    BY <2>1, <2>2 DEF Init, LastTold, Summarised, LeftBehind, SpecInv, InFlight, Grouped
  <2>5. GridInv
    BY <2>1, <2>2 DEF Init, GridInv, OneView, Flag, Grouped
  <2> QED
    BY <2>3, <2>4, <2>5 DEF ShownInv
<1>2. TypeOK /\ ShownInv /\ [Next]_vars => ShownInv'
  <2> SUFFICES ASSUME TypeOK, ShownInv, [Next]_vars PROVE ShownInv'
    OBVIOUS
  <2>1. ASSUME NEW t \in tasks, Finish(t) PROVE ShownInv'
    BY <2>1, CommitShown, EndShown, DropShown DEF Finish
  <2>2. CASE UNCHANGED vars
    <3>1. UNCHANGED <<engine, events, backup, summaries, specs, current, aggregated, pending, page, overlapped, unsure>>
      BY <2>2 DEF vars, editor
    <3>2. \A id \in Results : LeftBehind(id)' /\ (id \notin unsure' => SpecInv(id)')
      BY <3>1, EditorShown DEF ShownInv, LeftBehind
    <3>3. GridInv'
      BY <3>1 DEF ShownInv, GridInv, Settled, Locked, Built, Told, OneView, Editable, Grouped, Flag, engine
    <3> QED
      BY <3>1, <3>2, <3>3, EditorShown DEF ShownInv
  <2> QED
    BY <2>1, <2>2, RequestShown, OnViewShown DEF Next
<1> QED
  BY <1>1, <1>2, Typing, PTL DEF Spec

\* The grid is of the view the engine holds once nothing is on its way, and groups are
\* never edited, also between the moment a view is stored and the moment it is told.
THEOREM GridIsTrue == Spec => []GridTrue
<1>1. TypeOK /\ ShownInv => GridTrue
  <2> SUFFICES ASSUME TypeOK, ShownInv PROVE GridTrue
    OBVIOUS
  <2>1. ASSUME ~InFlight(current) PROVE Settled(current) /\ Summarised(current)
    BY <2>1 DEF InFlight, Settled, Locked, Built, ShownInv, TypeOK
  <2>2. GridFresh
    <3> SUFFICES ASSUME ~InFlight(current)
                 PROVE  page = view[current] /\ ((aggregated = "yes") = Grouped(page)) /\ pending = "no"
      BY DEF GridFresh
    <3>1. page = view[current] /\ aggregated = Flag(summaries[current] = "groups")
      BY <2>1 DEF ShownInv, GridInv
    <3>2. aggregated = "yes" <=> Grouped(page)
      BY <2>1, <3>1 DEF Summarised, Flag
    <3>3. pending # "yes"
      BY DEF ShownInv, GridInv, InFlight, Told
    <3>4. pending = "no"
      BY <3>3 DEF TypeOK, YesNo
    <3>5. (aggregated = "yes") \in BOOLEAN /\ Grouped(page) \in BOOLEAN
      BY DEF Grouped
    <3> QED
      BY <3>1, <3>2, <3>4, <3>5
  <2>3. GroupsReadOnly
    BY DEF ShownInv, GridInv, GroupsReadOnly
  <2> QED
    BY <2>2, <2>3 DEF GridTrue
<1> QED
  BY <1>1, Typing, ShownInvariant, PTL

\* Once nothing is on its way, what stands above the grid is what its rows were made
\* by, unless requests overlapped and one of them failed.
THEOREM SpecIsShown == Spec => []SpecShown
<1>1. TypeOK /\ ShownInv => SpecShown
  <2> SUFFICES ASSUME TypeOK, ShownInv, NEW id \in Results, id \notin unsure, ~InFlight(id)
               PROVE  specs[id] = view[id]
    BY DEF SpecShown
  <2>1. \A t \in tasks : t.id # id
    BY DEF InFlight
  <2>2. ~ErrorUntold(id)
    BY ErrorWaits DEF InFlight, Told
  <2>3. SpecInv(id)
    BY DEF ShownInv
  <2> QED
    BY <2>1, <2>2, <2>3 DEF SpecInv
<1> QED
  BY <1>1, Typing, ShownInvariant, PTL

-----------------------------------------------------------------------------
(* Cells in columns *)

Listed(s) == Len(s) \in Nat /\ s = [i \in 1..Len(s) |-> s[i]]
CellList(s) == Listed(s) /\ \A i \in 1..Len(s) : Whole(s[i])

Natives == {"Boolean", "Int64", "Float64", "String", "Binary"}
TypesIn(cells) == {TypeOf(cells[i]) : i \in 1..Len(cells)} \ {"Null"}
Bares(cells) == [i \in 1..Len(cells) |-> Bare(cells[i])]

\* What a list ranges over.
LEMMA Ranging == ASSUME NEW s, Listed(s) PROVE DOMAIN s = 1..Len(s) /\ ToSet(s) = {s[i] : i \in 1..Len(s)}
BY DEF Listed, ToSet

LEMMA NativesAre == DOMAIN NativeKinds = Natives
BY DEF NativeKinds, Natives

\* What a cell's type says of it.
LEMMA TypeIs == ASSUME NEW c, Whole(c)
  PROVE /\ TypeOf(c) \in Natives \cup {"Null", "Object"}
        /\ TypeOf(c) = "Null" <=> c = NullCell
        /\ TypeOf(c) = "Null" <=> IsNull(c)
        /\ TypeOf(c) \in Natives => c = Cell(NativeKinds[TypeOf(c)], Bare(c)) /\ Bare(c) # Nothing
        /\ TypeOf(c) = "Null" => Bare(c) = Nothing
        /\ TypeOf(c) \in {"Int64", "Float64"} => IsNumeric(c)
        /\ TypeOf(c) \in {"Boolean", "String", "Binary"} => ~IsNumeric(c)
<1>1. IsNull(c) <=> c = NullCell
  BY DEF Whole, Scalar, IsNull, NullCell, Cell
<1>2. CASE IsNull(c)
  <2>1. TypeOf(c) = "Null" /\ Bare(c) = Nothing
    BY <1>2 DEF TypeOf, Bare
  <2> QED
    BY <1>1, <1>2, <2>1 DEF Natives
<1>3. CASE ~IsNull(c) /\ \E t \in DOMAIN NativeKinds : NativeKinds[t] = c.kind
  <2>1. TypeOf(c) = CHOOSE t \in DOMAIN NativeKinds : NativeKinds[t] = c.kind
    BY <1>3 DEF TypeOf
  <2>2. TypeOf(c) \in DOMAIN NativeKinds /\ NativeKinds[TypeOf(c)] = c.kind
    BY <1>3, <2>1
  <2>3. TypeOf(c) \in Natives
    BY <2>2, NativesAre
  <2>4. c.kind # "array"
    BY <2>2, <2>3 DEF NativeKinds, Natives
  <2>5. c = Cell(c.kind, c.val) /\ c.val # Nothing /\ Bare(c) = c.val
    BY <1>3, <2>4 DEF Whole, Scalar, Bare
  <2>6. c = Cell(NativeKinds[TypeOf(c)], Bare(c)) /\ Bare(c) # Nothing
    BY <2>2, <2>5
  <2>7. TypeOf(c) \in {"Int64", "Float64"} => c.kind \in {"int", "float"}
    BY <2>2 DEF NativeKinds
  <2>8. TypeOf(c) \in {"Boolean", "String", "Binary"} => c.kind \in {"bool", "text", "bytes"}
    BY <2>2 DEF NativeKinds
  <2>9. TypeOf(c) # "Null"
    BY <2>3 DEF Natives
  <2> QED
    BY <1>1, <1>3, <2>3, <2>6, <2>7, <2>8, <2>9 DEF IsNumeric
<1>4. CASE ~IsNull(c) /\ ~\E t \in DOMAIN NativeKinds : NativeKinds[t] = c.kind
  <2>1. TypeOf(c) = "Object"
    BY <1>4 DEF TypeOf
  <2> QED
    BY <1>1, <1>4, <2>1 DEF Natives
<1> QED
  BY <1>2, <1>3, <1>4

\* Types are few, and more than one when two differ.
LEMMA FewTypes == ASSUME NEW S \in SUBSET (Natives \cup {"Null", "Object"})
  PROVE /\ IsFiniteSet(S)
        /\ Cardinality(S) > 1 <=> \E s, t \in S : s # t
<1>1. Natives \cup {"Null", "Object"} = {"Boolean"} \cup {"Int64"} \cup {"Float64"} \cup {"String"} \cup {"Binary"} \cup {"Null"} \cup {"Object"}
  BY DEF Natives
<1>2. IsFiniteSet(Natives \cup {"Null", "Object"})
  BY <1>1, FS_Singleton, FS_Union
<1>3. IsFiniteSet(S) /\ Cardinality(S) \in Nat
  BY <1>2, FS_Subset, FS_CardinalityType
<1>4. CASE S = {}
  BY <1>3, <1>4, FS_EmptySet
<1>5. CASE \E s \in S : S = {s}
  <2>1. PICK s \in S : S = {s}
    BY <1>5
  <2>2. Cardinality(S) = 1
    BY <2>1, FS_Singleton
  <2> QED
    BY <1>3, <2>1, <2>2
<1>6. CASE \E s, t \in S : s # t
  <2>1. PICK s, t \in S : s # t
    BY <1>6
  <2>2. {s} \subseteq S /\ Cardinality({s}) = 1 /\ S # {s}
    BY <2>1, FS_Singleton
  <2>3. Cardinality({s}) < Cardinality(S) \/ Cardinality({s}) = Cardinality(S)
    BY <1>3, <2>2, FS_Subset
  <2>4. Cardinality(S) # 1
    BY <1>3, <2>1, FS_Singleton
  <2> QED
    BY <1>3, <1>6, <2>2, <2>3, <2>4
<1> QED
  BY <1>4, <1>5, <1>6

\* A column of one type, of nulls, or of cells of several.
LEMMA TypedIs == ASSUME NEW cells, CellList(cells)
  PROVE \/ TypesIn(cells) = {} /\ TypedColumn(cells) = [dtype |-> "Null", values |-> Bares(cells)]
        \/ \E t \in Natives : TypesIn(cells) = {t} /\ TypedColumn(cells) = [dtype |-> t, values |-> Bares(cells)]
        \/ /\ "Object" \in TypesIn(cells) \/ \E s, t \in TypesIn(cells) : s # t
           /\ TypedColumn(cells) = [dtype |-> "Object", values |-> cells]
<1>1. DOMAIN cells = 1..Len(cells) /\ ToSet(cells) = {cells[i] : i \in 1..Len(cells)}
  BY Ranging DEF CellList
<1>2. {TypeOf(c) : c \in ToSet(cells)} \ {"Null"} = TypesIn(cells)
  BY <1>1 DEF TypesIn
<1>3. PICK types : types = TypesIn(cells)
  OBVIOUS
<1>4. types \subseteq Natives \cup {"Object"}
  BY <1>3, TypeIs DEF TypesIn, CellList
<1>5. Cardinality(types) > 1 <=> \E s, t \in types : s # t
  BY <1>4, FewTypes
<1>6. TypedColumn(cells) =
        IF Cardinality(types) > 1 \/ "Object" \in types THEN [dtype |-> "Object", values |-> cells]
        ELSE [dtype |-> IF types = {} THEN "Null" ELSE CHOOSE t \in types : TRUE, values |-> Bares(cells)]
  BY <1>1, <1>2, <1>3 DEF TypedColumn, ObjectColumn, Bares
<1>7. CASE Cardinality(types) > 1 \/ "Object" \in types
  BY <1>3, <1>5, <1>6, <1>7
<1>8. CASE ~(Cardinality(types) > 1 \/ "Object" \in types) /\ types = {}
  BY <1>3, <1>6, <1>8
<1>9. CASE ~(Cardinality(types) > 1 \/ "Object" \in types) /\ types # {}
  <2>1. PICK t \in types : types = {t}
    BY <1>5, <1>9
  <2>2. (CHOOSE x \in types : TRUE) = t /\ t \in Natives
    BY <1>4, <1>9, <2>1
  <2>3. TypedColumn(cells) = [dtype |-> t, values |-> Bares(cells)]
    BY <1>6, <1>9, <2>2
  <2> QED
    BY <1>3, <2>1, <2>2, <2>3
<1> QED
  BY <1>7, <1>8, <1>9

\* Nothing is lost in a column.
LEMMA Lossless == ASSUME NEW cells, CellList(cells)
  PROVE /\ \A n \in 1..Len(cells) : CellAt(TypedColumn(cells), n) = cells[n]
        /\ CellsOf(TypedColumn(cells)) = cells
<1>0. cells = [i \in 1..Len(cells) |-> cells[i]] /\ DOMAIN cells = 1..Len(cells)
  BY Ranging DEF CellList, Listed
<1>1. PICK column : column = TypedColumn(cells)
  OBVIOUS
<1>2. DOMAIN column.values = 1..Len(cells)
  <2>1. column.values = cells \/ column.values = Bares(cells)
    BY <1>1, TypedIs
  <2> QED
    BY <1>0, <2>1 DEF Bares
<1>3. ASSUME NEW n \in 1..Len(cells) PROVE CellAt(column, n) = cells[n]
  <2>0. Whole(cells[n])
    BY DEF CellList
  <2>1. CASE column = [dtype |-> "Object", values |-> cells]
    BY <2>1 DEF CellAt
  <2>2. CASE TypesIn(cells) = {} /\ column = [dtype |-> "Null", values |-> Bares(cells)]
    <3>1. TypeOf(cells[n]) = "Null"
      BY <2>2 DEF TypesIn
    <3>2. cells[n] = NullCell /\ Bare(cells[n]) = Nothing
      BY <2>0, <3>1, TypeIs
    <3>3. column.values[n] = Nothing /\ column.dtype = "Null"
      BY <2>2, <3>2 DEF Bares
    <3> QED
      BY <3>2, <3>3 DEF CellAt
  <2>3. ASSUME NEW t \in Natives, TypesIn(cells) = {t}, column = [dtype |-> t, values |-> Bares(cells)]
        PROVE CellAt(column, n) = cells[n]
    <3>1. TypeOf(cells[n]) = "Null" \/ TypeOf(cells[n]) = t
      BY <2>3 DEF TypesIn
    <3>2. column.values[n] = Bare(cells[n]) /\ column.dtype = t /\ t # "Object"
      BY <2>3 DEF Bares, Natives
    <3>3. CASE TypeOf(cells[n]) = "Null"
      <4>1. cells[n] = NullCell /\ Bare(cells[n]) = Nothing
        BY <2>0, <3>3, TypeIs
      <4> QED
        BY <3>2, <4>1 DEF CellAt
    <3>4. CASE TypeOf(cells[n]) = t
      <4>1. cells[n] = Cell(NativeKinds[t], Bare(cells[n])) /\ Bare(cells[n]) # Nothing
        BY <2>0, <3>4, TypeIs
      <4> QED
        BY <3>2, <4>1 DEF CellAt
    <3> QED
      BY <3>1, <3>3, <3>4
  <2> QED
    BY <1>1, <2>1, <2>2, <2>3, TypedIs
<1>4. CellsOf(column) = [n \in 1..Len(cells) |-> CellAt(column, n)]
  BY <1>2 DEF CellsOf
<1>5. CellsOf(column) = cells
  BY <1>0, <1>3, <1>4
<1> QED
  BY <1>1, <1>3, <1>5

\* A function of 1..n is a list of n.
LEMMA ListMade == ASSUME NEW f, NEW n \in Nat, f = [i \in 1..n |-> f[i]] PROVE Listed(f) /\ Len(f) = n
<1> DEFINE S == {f[i] : i \in 1..n}
<1>1. f \in [1..n -> S]
  OBVIOUS
<1> HIDE DEF S
<1>2. f \in Seq(S) /\ Len(f) = n
  BY <1>1
<1> QED
  BY <1>2 DEF Listed

\* A list with one more at its end.
LEMMA ListAdded == ASSUME NEW s, NEW x, Listed(s)
  PROVE /\ Listed(Append(s, x)) /\ Len(Append(s, x)) = Len(s) + 1
        /\ \A i \in 1..Len(s) : Append(s, x)[i] = s[i]
        /\ Append(s, x)[Len(s) + 1] = x
        /\ Append(s, x) = [i \in 1..(Len(s) + 1) |-> IF i = Len(s) + 1 THEN x ELSE s[i]]
<1> DEFINE S == {s[i] : i \in 1..Len(s)} \cup {x}
<1>1. s \in Seq(S) /\ x \in S /\ Len(s) \in Nat
  BY DEF Listed
<1> HIDE DEF S
<1>2. PICK t : t = Append(s, x)
  OBVIOUS
<1>3. /\ t \in Seq(S) /\ Len(t) = Len(s) + 1
      /\ \A i \in 1..Len(s) : t[i] = s[i]
      /\ t[Len(s) + 1] = x
  BY <1>1, <1>2
<1>4. t = [i \in 1..Len(t) |-> t[i]]
  BY <1>3
<1>5. \A i \in 1..Len(t) : t[i] = IF i = Len(s) + 1 THEN x ELSE s[i]
  BY <1>1, <1>3
<1>6. t = [i \in 1..(Len(s) + 1) |-> IF i = Len(s) + 1 THEN x ELSE s[i]]
  BY <1>3, <1>4, <1>5
<1> QED
  BY <1>2, <1>3, <1>4, <1>6 DEF Listed

\* The types and values of one cell more.
LEMMA CellAdded == ASSUME NEW cells, NEW c, CellList(cells), Whole(c)
  PROVE /\ CellList(Append(cells, c))
        /\ TypesIn(Append(cells, c)) = TypesIn(cells) \cup ({TypeOf(c)} \ {"Null"})
        /\ Bares(Append(cells, c)) = Append(Bares(cells), Bare(c))
<1>0. Listed(cells) /\ Len(cells) \in Nat
  BY DEF CellList, Listed
<1>1. PICK more : more = Append(cells, c)
  OBVIOUS
<1>2. /\ Listed(more) /\ Len(more) = Len(cells) + 1 /\ more[Len(cells) + 1] = c
      /\ \A i \in 1..Len(cells) : more[i] = cells[i]
  BY <1>0, <1>1, ListAdded
<1>3. \A i \in 1..Len(more) : i \in 1..Len(cells) \/ i = Len(cells) + 1
  BY <1>0, <1>2
<1>4. 1..Len(cells) \subseteq 1..Len(more) /\ Len(cells) + 1 \in 1..Len(more)
  BY <1>0, <1>2
<1>5. CellList(more)
  BY <1>2, <1>3 DEF CellList
<1>6. {TypeOf(more[i]) : i \in 1..Len(more)} = {TypeOf(cells[i]) : i \in 1..Len(cells)} \cup {TypeOf(c)}
  BY <1>2, <1>3, <1>4
<1>7. TypesIn(more) = TypesIn(cells) \cup ({TypeOf(c)} \ {"Null"})
  BY <1>6 DEF TypesIn
<1>8. PICK bares : bares = Bares(cells)
  OBVIOUS
<1>9. Listed(bares) /\ Len(bares) = Len(cells)
  <2>1. bares \in Seq({Bare(cells[i]) : i \in 1..Len(cells)}) /\ Len(bares) = Len(cells)
    BY <1>0, <1>8 DEF Bares
  <2> QED
    BY <2>1 DEF Listed
<1>10. Append(bares, Bare(c)) = [i \in 1..(Len(cells) + 1) |-> IF i = Len(cells) + 1 THEN Bare(c) ELSE bares[i]]
  BY <1>9, ListAdded
<1>11. \A i \in 1..Len(more) : Bare(more[i]) = IF i = Len(cells) + 1 THEN Bare(c) ELSE bares[i]
  BY <1>2, <1>3, <1>8 DEF Bares
<1>12. Bares(more) = Append(bares, Bare(c))
  BY <1>2, <1>10, <1>11 DEF Bares
<1> QED
  BY <1>1, <1>5, <1>7, <1>8, <1>12

\* A cell appended to a column, whatever the column's type and its own, leaves the column
\* that all the cells would have made at once.
LEMMA AppendedTyped == ASSUME NEW cells, NEW c, CellList(cells), Whole(c)
  PROVE Appended(TypedColumn(cells), c) = TypedColumn(Append(cells, c))
<1>1. PICK column : column = TypedColumn(cells)
  OBVIOUS
<1>2. PICK more : more = Append(cells, c)
  OBVIOUS
<1>3. PICK bares : bares = Bares(cells)
  OBVIOUS
<1>4. PICK tail : tail = TypeOf(c)
  OBVIOUS
<1>5. /\ CellList(more) /\ TypesIn(more) = TypesIn(cells) \cup ({tail} \ {"Null"})
      /\ Bares(more) = Append(bares, Bare(c))
  BY <1>2, <1>3, <1>4, CellAdded
<1>6. tail \in Natives \cup {"Null", "Object"}
  BY <1>4, TypeIs
<1>7. CellsOf(column) = cells
  BY <1>1, Lossless
<1>8. Appended(column, c) =
        IF column.dtype = "Object" \/ (tail # "Null" /\ tail # column.dtype /\ (column.dtype # "Null" \/ tail = "Object"))
        THEN [dtype |-> "Object", values |-> more]
        ELSE [dtype |-> IF column.dtype = "Null" THEN tail ELSE column.dtype, values |-> Append(column.values, Bare(c))]
  BY <1>2, <1>4, <1>7 DEF Appended, ObjectColumn
<1>9. PICK grown : grown = TypedColumn(more)
  OBVIOUS
<1>10. \/ TypesIn(more) = {} /\ grown = [dtype |-> "Null", values |-> Bares(more)]
       \/ \E t \in Natives : TypesIn(more) = {t} /\ grown = [dtype |-> t, values |-> Bares(more)]
       \/ /\ "Object" \in TypesIn(more) \/ \E s, t \in TypesIn(more) : s # t
          /\ grown = [dtype |-> "Object", values |-> more]
  BY <1>5, <1>9, TypedIs
<1>11. CASE TypesIn(cells) = {} /\ column = [dtype |-> "Null", values |-> bares]
  <2>1. TypesIn(more) = {tail} \ {"Null"}
    BY <1>5, <1>11
  <2>2. CASE tail = "Null"
    <3>1. grown = [dtype |-> "Null", values |-> Bares(more)]
      BY <1>10, <2>1, <2>2
    <3>2. Appended(column, c) = [dtype |-> "Null", values |-> Append(bares, Bare(c))]
      BY <1>8, <1>11, <2>2
    <3> QED
      BY <1>1, <1>2, <1>5, <1>9, <3>1, <3>2
  <2>3. CASE tail \in Natives
    <3>0. tail # "Null" /\ tail # "Object"
      BY <2>3 DEF Natives
    <3>1. TypesIn(more) = {tail}
      BY <2>1, <3>0
    <3>2. grown = [dtype |-> tail, values |-> Bares(more)]
      BY <1>10, <3>0, <3>1
    <3>3. Appended(column, c) = [dtype |-> tail, values |-> Append(bares, Bare(c))]
      BY <1>8, <1>11, <3>0
    <3> QED
      BY <1>1, <1>2, <1>5, <1>9, <3>2, <3>3
  <2>4. CASE tail = "Object"
    <3>1. TypesIn(more) = {"Object"}
      BY <2>1, <2>4
    <3>2. grown = [dtype |-> "Object", values |-> more]
      BY <1>10, <3>1 DEF Natives
    <3>3. Appended(column, c) = [dtype |-> "Object", values |-> more]
      BY <1>8, <1>11, <2>4
    <3> QED
      BY <1>1, <1>2, <1>9, <3>2, <3>3
  <2> QED
    BY <1>6, <2>2, <2>3, <2>4
<1>12. ASSUME NEW t \in Natives, TypesIn(cells) = {t}, column = [dtype |-> t, values |-> bares]
       PROVE Appended(column, c) = grown
  <2>0. t # "Null" /\ t # "Object"
    BY DEF Natives
  <2>1. TypesIn(more) = {t} \cup ({tail} \ {"Null"})
    BY <1>5, <1>12
  <2>2. CASE tail = "Null" \/ tail = t
    <3>1. TypesIn(more) = {t}
      BY <2>0, <2>1, <2>2
    <3>2. grown = [dtype |-> t, values |-> Bares(more)]
      BY <1>10, <2>0, <3>1
    <3>3. Appended(column, c) = [dtype |-> t, values |-> Append(bares, Bare(c))]
      BY <1>8, <1>12, <2>0, <2>2
    <3> QED
      BY <1>5, <3>2, <3>3
  <2>3. CASE tail # "Null" /\ tail # t
    <3>1. t \in TypesIn(more) /\ tail \in TypesIn(more)
      BY <2>1, <2>3
    <3>2. grown = [dtype |-> "Object", values |-> more]
      BY <1>10, <2>3, <3>1
    <3>3. Appended(column, c) = [dtype |-> "Object", values |-> more]
      BY <1>8, <1>12, <2>0, <2>3
    <3> QED
      BY <3>2, <3>3
  <2> QED
    BY <2>2, <2>3
<1>13. CASE /\ "Object" \in TypesIn(cells) \/ \E s, t \in TypesIn(cells) : s # t
            /\ column = [dtype |-> "Object", values |-> cells]
  <2>1. "Object" \in TypesIn(more) \/ \E s, t \in TypesIn(more) : s # t
    BY <1>5, <1>13
  <2>2. grown = [dtype |-> "Object", values |-> more]
    BY <1>10, <2>1 DEF Natives
  <2>3. Appended(column, c) = [dtype |-> "Object", values |-> more]
    BY <1>8, <1>13
  <2> QED
    BY <1>1, <1>2, <1>9, <2>2, <2>3
<1> QED
  BY <1>1, <1>2, <1>3, <1>9, <1>11, <1>12, <1>13, TypedIs

\* What a column says of its cells is so.
LEMMA StatsTrue == ASSUME NEW cells, CellList(cells), NEW r, NEW i, Column(r, i) = TypedColumn(cells)
  PROVE Stats(r, i) = [nulls |-> NullCell \in ToSet(cells),
                       numeric |-> cells # <<>> /\ \A c \in ToSet(cells) : IsNull(c) \/ IsNumeric(c)]
<1>1. DOMAIN cells = 1..Len(cells) /\ ToSet(cells) = {cells[n] : n \in 1..Len(cells)}
  BY Ranging DEF CellList
<1>2. PICK column : column = TypedColumn(cells)
  OBVIOUS
<1>3. CellsOf(column) = cells
  BY <1>2, Lossless
<1>4. \A n \in 1..Len(cells) : Whole(cells[n])
  BY DEF CellList
<1> DEFINE nulls == {row \in DOMAIN cells : IsNull(cells[row])}
           Found == IF column.dtype = "Object" THEN \A row \in DOMAIN cells \ nulls : IsNumeric(cells[row])
                    ELSE column.dtype \in {"Int64", "Float64", "Null"} \/ nulls = DOMAIN cells
           Numeric == \A n \in 1..Len(cells) : IsNull(cells[n]) \/ IsNumeric(cells[n])
<1>5. Stats(r, i) =
        [nulls |-> nulls # {},
         numeric |-> IF column.dtype = "Object"
                     THEN cells # <<>> /\ \A row \in DOMAIN cells \ nulls : IsNumeric(cells[row])
                     ELSE cells # <<>> /\ (column.dtype \in {"Int64", "Float64", "Null"} \/ nulls = DOMAIN cells)]
  BY <1>2, <1>3 DEF Stats
<1>6. (nulls # {}) = (NullCell \in ToSet(cells))
  <2>1. \A n \in 1..Len(cells) : IsNull(cells[n]) <=> cells[n] = NullCell
    BY <1>4, TypeIs
  <2> QED
    BY <1>1, <2>1
<1>7. Found <=> Numeric
  <2>1. CASE TypesIn(cells) = {} /\ column = [dtype |-> "Null", values |-> Bares(cells)]
    <3>1. \A n \in 1..Len(cells) : TypeOf(cells[n]) = "Null"
      BY <2>1 DEF TypesIn
    <3>2. \A n \in 1..Len(cells) : IsNull(cells[n])
      BY <1>4, <3>1, TypeIs
    <3> QED
      BY <2>1, <3>2
  <2>2. ASSUME NEW t \in Natives, TypesIn(cells) = {t}, column = [dtype |-> t, values |-> Bares(cells)]
        PROVE Found <=> Numeric
    <3>0. t # "Object" /\ t # "Null" /\ column.dtype = t
      BY <2>2 DEF Natives
    <3>1. \A n \in 1..Len(cells) : TypeOf(cells[n]) = "Null" \/ TypeOf(cells[n]) = t
      BY <2>2 DEF TypesIn
    <3>2. PICK n \in 1..Len(cells) : TypeOf(cells[n]) = t
      BY <2>2 DEF TypesIn
    <3>3. CASE t \in {"Int64", "Float64"}
      <4>1. Numeric
        BY <1>4, <3>1, <3>3, TypeIs
      <4> QED
        BY <3>0, <3>3, <4>1
    <3>4. CASE t \in {"Boolean", "String", "Binary"}
      <4>1. ~IsNull(cells[n]) /\ ~IsNumeric(cells[n])
        BY <1>4, <3>0, <3>2, <3>4, TypeIs
      <4>2. t \notin {"Int64", "Float64", "Null"}
        BY <3>4
      <4>3. n \in DOMAIN cells /\ n \notin nulls
        BY <1>1, <4>1
      <4> QED
        BY <3>0, <4>1, <4>2, <4>3
    <3> QED
      BY <3>3, <3>4 DEF Natives
  <2>3. CASE column = [dtype |-> "Object", values |-> cells]
    BY <1>1, <2>3
  <2> QED
    BY <1>2, <2>1, <2>2, <2>3, TypedIs
<1>8. Numeric <=> \A c \in ToSet(cells) : IsNull(c) \/ IsNumeric(c)
  BY <1>1
<1>9. (IF column.dtype = "Object" THEN cells # <<>> /\ \A row \in DOMAIN cells \ nulls : IsNumeric(cells[row])
       ELSE cells # <<>> /\ (column.dtype \in {"Int64", "Float64", "Null"} \/ nulls = DOMAIN cells))
      = (cells # <<>> /\ \A c \in ToSet(cells) : IsNull(c) \/ IsNumeric(c))
  <2>1. (IF column.dtype = "Object" THEN cells # <<>> /\ \A row \in DOMAIN cells \ nulls : IsNumeric(cells[row])
         ELSE cells # <<>> /\ (column.dtype \in {"Int64", "Float64", "Null"} \/ nulls = DOMAIN cells))
        <=> (cells # <<>> /\ Found)
    OBVIOUS
  <2> QED
    BY <1>7, <1>8, <2>1
<1> QED
  BY <1>5, <1>6, <1>9

-----------------------------------------------------------------------------
(* A result and the rows it was built of *)

ColumnOf(rows, i) == [n \in 1..Len(rows) |-> rows[n][i]]

\* Rows of n cells each, out of a set.
AllWhole(C) == \A c \in C : Whole(c)
Fitted(rows, n, C) == Listed(rows) /\ \A k \in 1..Len(rows) : rows[k] \in [1..n -> C]

\* Columns as they are described.
Columned(columns) ==
  /\ Listed(columns)
  /\ \A i \in 1..Len(columns) :
       columns[i] = [name |-> columns[i].name, inferred |-> columns[i].inferred,
                     class |-> columns[i].class, key |-> columns[i].key]

\* Buffers of the rows before the first read, and the columns of them after it.
Buffered(r, rows) == r.frame = None /\ r.pending = [i \in 1..Len(r.columns) |-> ColumnOf(rows, i)]
InColumns(r, rows) == r.frame # None /\ r.frame = [i \in 1..Len(r.columns) |-> TypedColumn(ColumnOf(rows, i))]
BuiltOf(r, rows, C) ==
  /\ r = [columns |-> r.columns, pending |-> r.pending, frame |-> r.frame, cache |-> r.cache, rows |-> r.rows,
          truncated |-> r.truncated, affected |-> r.affected]
  /\ Columned(r.columns) /\ Fitted(rows, Len(r.columns), C) /\ r.rows = Len(rows)
  /\ Buffered(r, rows) \/ InColumns(r, rows)

\* A column of fitting rows is a list of cells.
LEMMA ColumnListed == ASSUME NEW C, NEW n, NEW rows, NEW i \in 1..n, AllWhole(C), Fitted(rows, n, C)
  PROVE CellList(ColumnOf(rows, i)) /\ Len(ColumnOf(rows, i)) = Len(rows)
        /\ \A k \in 1..Len(rows) : ColumnOf(rows, i)[k] = rows[k][i]
<1>1. Len(rows) \in Nat /\ \A k \in 1..Len(rows) : rows[k][i] \in C
  BY DEF Fitted, Listed
<1>2. ColumnOf(rows, i) \in Seq(C) /\ Len(ColumnOf(rows, i)) = Len(rows)
  BY <1>1 DEF ColumnOf
<1> QED
  BY <1>1, <1>2 DEF ColumnOf, CellList, Listed, AllWhole

\* What the first read makes, or made.
LEMMA StoredTyped == ASSUME NEW C, NEW r, NEW rows, BuiltOf(r, rows, C)
  PROVE /\ Storage(r) = [i \in 1..Len(r.columns) |-> TypedColumn(ColumnOf(rows, i))]
        /\ DOMAIN r.columns = 1..Len(r.columns)
<1>1. DOMAIN r.columns = 1..Len(r.columns)
  BY Ranging DEF BuiltOf, Columned
<1>2. CASE Buffered(r, rows)
  BY <1>1, <1>2 DEF Storage, Buffered
<1>3. CASE InColumns(r, rows)
  BY <1>1, <1>3 DEF Storage, InColumns
<1> QED
  BY <1>1, <1>2, <1>3 DEF BuiltOf

\* What was built of rows shows these rows.
LEMMA BuiltIsAsBuilt == ASSUME NEW C, NEW r, NEW rows, AllWhole(C), BuiltOf(r, rows, C)
  PROVE AppendedAsBuilt(r, rows)
<1> DEFINE n == Len(r.columns)
<1>1. DOMAIN r.columns = 1..n /\ \A i \in 1..n : Column(r, i) = TypedColumn(ColumnOf(rows, i))
  BY StoredTyped DEF Column
<1>2. Fitted(rows, n, C) /\ r.rows = Len(rows) /\ Listed(rows)
  BY DEF BuiltOf, Fitted
<1>3. \A i \in 1..n : CellList(ColumnOf(rows, i))
  BY <1>2, ColumnListed
<1>4. DOMAIN rows = 1..Len(rows)
  BY <1>2, Ranging
<1>5. ASSUME NEW i \in 1..n, NEW k \in 1..Len(rows) PROVE CellOf(r, k, i) = rows[k][i]
  <2>0. Len(ColumnOf(rows, i)) = Len(rows) /\ \A m \in 1..Len(rows) : ColumnOf(rows, i)[m] = rows[m][i]
    BY <1>2, ColumnListed
  <2>1. k \in 1..Len(ColumnOf(rows, i)) /\ ColumnOf(rows, i)[k] = rows[k][i]
    BY <2>0
  <2> QED
    BY <1>1, <1>3, <2>1, Lossless DEF CellOf
<1>6. RowsOf(r) = rows
  <2>1. ASSUME NEW k \in 1..Len(rows) PROVE [i \in DOMAIN r.columns |-> CellOf(r, k, i)] = rows[k]
    <3>1. rows[k] = [i \in 1..n |-> rows[k][i]]
      BY <1>2 DEF Fitted
    <3> QED
      BY <1>1, <1>5, <3>1
  <2>2. RowsOf(r) = [k \in 1..Len(rows) |-> rows[k]]
    BY <1>2, <2>1 DEF RowsOf
  <2> QED
    BY <1>2, <2>2 DEF Listed
<1>7. ASSUME NEW i \in DOMAIN r.columns
      PROVE LET cells == [k \in DOMAIN rows |-> rows[k][i]]
            IN /\ Column(r, i) = TypedColumn(cells)
               /\ Stats(r, i) = [nulls |-> NullCell \in ToSet(cells),
                                 numeric |-> cells # <<>> /\ \A c \in ToSet(cells) : IsNull(c) \/ IsNumeric(c)]
  <2>1. PICK cells : cells = ColumnOf(rows, i)
    OBVIOUS
  <2>2. [k \in DOMAIN rows |-> rows[k][i]] = cells
    BY <1>4, <2>1 DEF ColumnOf
  <2>3. CellList(cells) /\ Column(r, i) = TypedColumn(cells)
    BY <1>1, <1>3, <1>7, <2>1
  <2>4. Stats(r, i) = [nulls |-> NullCell \in ToSet(cells),
                       numeric |-> cells # <<>> /\ \A c \in ToSet(cells) : IsNull(c) \/ IsNumeric(c)]
    BY <2>3, StatsTrue
  <2> QED
    BY <2>2, <2>3, <2>4
<1> QED
  BY <1>6, <1>7 DEF AppendedAsBuilt

NoFrame(C) == None \notin Seq([dtype : DOMAIN NativeKinds \cup {"Null", "Object"}, values : Seq(C) \cup Seq({c.val : c \in C} \cup {Nothing})])

\* Columns of cells are not taken for no columns.
LEMMA FramesAreSome == ASSUME NEW C, NEW n \in Nat, NEW rows, AllWhole(C), NoFrame(C), Fitted(rows, n, C)
  PROVE [i \in 1..n |-> TypedColumn(ColumnOf(rows, i))] # None
<1> DEFINE Column1 == [dtype : DOMAIN NativeKinds \cup {"Null", "Object"}, values : Seq(C) \cup Seq({c.val : c \in C} \cup {Nothing})]
<1>1. ASSUME NEW i \in 1..n PROVE TypedColumn(ColumnOf(rows, i)) \in Column1
  <2>1. PICK cells : cells = ColumnOf(rows, i)
    OBVIOUS
  <2>2. CellList(cells)
    BY <2>1, ColumnListed
  <2>3. Len(rows) \in Nat /\ \A k \in 1..Len(rows) : rows[k][i] \in C
    BY DEF Fitted, Listed
  <2>4. cells \in Seq(C) /\ Len(cells) = Len(rows)
    BY <2>1, <2>3 DEF ColumnOf
  <2>5. \A k \in 1..Len(cells) : Bare(cells[k]) \in {c.val : c \in C} \cup {Nothing}
    BY <2>4 DEF Bare
  <2>6. Bares(cells) \in Seq({c.val : c \in C} \cup {Nothing})
    BY <2>3, <2>4, <2>5 DEF Bares
  <2>7. PICK column : column = TypedColumn(cells)
    OBVIOUS
  <2>8. /\ column = [dtype |-> column.dtype, values |-> column.values]
        /\ column.dtype \in Natives \cup {"Null", "Object"} /\ column.values \in {cells, Bares(cells)}
    <3>1. CASE TypesIn(cells) = {} /\ column = [dtype |-> "Null", values |-> Bares(cells)]
      BY <3>1
    <3>2. ASSUME NEW t \in Natives, TypesIn(cells) = {t}, column = [dtype |-> t, values |-> Bares(cells)]
          PROVE /\ column = [dtype |-> column.dtype, values |-> column.values]
                /\ column.dtype \in Natives \cup {"Null", "Object"} /\ column.values \in {cells, Bares(cells)}
      BY <3>2
    <3>3. CASE column = [dtype |-> "Object", values |-> cells]
      BY <3>3
    <3> QED
      <4>1. \/ TypesIn(cells) = {} /\ column = [dtype |-> "Null", values |-> Bares(cells)]
            \/ \E t \in Natives : TypesIn(cells) = {t} /\ column = [dtype |-> t, values |-> Bares(cells)]
            \/ column = [dtype |-> "Object", values |-> cells]
        BY <2>2, <2>7, TypedIs
      <4> QED
        BY <3>1, <3>2, <3>3, <4>1
  <2>9. column.dtype \in DOMAIN NativeKinds \cup {"Null", "Object"}
    BY <2>8, NativesAre
  <2>10. column.values \in Seq(C) \cup Seq({c.val : c \in C} \cup {Nothing})
    BY <2>4, <2>6, <2>8
  <2> QED
    BY <2>1, <2>7, <2>8, <2>9, <2>10
<1> HIDE DEF Column1
<1>2. [i \in 1..n |-> TypedColumn(ColumnOf(rows, i))] \in Seq(Column1)
  BY <1>1
<1> QED
  BY <1>2 DEF NoFrame, Column1

\* The first read changes nothing that is seen.
LEMMA FinalBuilt == ASSUME NEW C, NEW r, NEW rows, AllWhole(C), NoFrame(C), BuiltOf(r, rows, C)
  PROVE BuiltOf(Finalized(r), rows, C) /\ Finalized(r).columns = r.columns
<1>1. PICK new : new = Finalized(r)
  OBVIOUS
<1>2. Storage(r) = [i \in 1..Len(r.columns) |-> TypedColumn(ColumnOf(rows, i))] /\ DOMAIN r.columns = 1..Len(r.columns)
  BY StoredTyped
<1>3. new = [columns |-> r.columns, pending |-> [i \in 1..Len(r.columns) |-> <<>>], frame |-> Storage(r),
             cache |-> r.cache, rows |-> r.rows, truncated |-> r.truncated, affected |-> r.affected]
  BY <1>1, <1>2 DEF Finalized, BuiltOf
<1>4. Fitted(rows, Len(r.columns), C) /\ Len(r.columns) \in Nat
  BY DEF BuiltOf, Columned, Listed
<1>5. Storage(r) # None
  BY <1>2, <1>4, FramesAreSome
<1>6. InColumns(new, rows)
  BY <1>2, <1>3, <1>5 DEF InColumns
<1> QED
  BY <1>1, <1>3, <1>4, <1>6 DEF BuiltOf

\* A result but for its projection.
LEMMA CacheAside == ASSUME NEW C, NEW r, NEW rows, NEW x, BuiltOf(r, rows, C)
  PROVE BuiltOf([r EXCEPT !.cache = x], rows, C) /\ [r EXCEPT !.cache = x].columns = r.columns
<1>1. PICK new : new = [r EXCEPT !.cache = x]
  OBVIOUS
<1>2. new = [columns |-> r.columns, pending |-> r.pending, frame |-> r.frame, cache |-> x, rows |-> r.rows,
             truncated |-> r.truncated, affected |-> r.affected]
  BY <1>1 DEF BuiltOf
<1>3. Buffered(new, rows) \/ InColumns(new, rows)
  BY <1>2 DEF BuiltOf, Buffered, InColumns
<1> QED
  BY <1>1, <1>2, <1>3 DEF BuiltOf

\* What is learned of a column leaves its name.
SameNames(after, before) == Len(after) = Len(before) /\ \A i \in 1..Len(before) : after[i].name = before[i].name

LEMMA EnrichedBuilt == ASSUME NEW C, NEW r, NEW rows, NEW class, NEW key, BuiltOf(r, rows, C), Len(r.columns) # 0
  PROVE /\ BuiltOf(Enriched(r, 1, class, key), rows, C) /\ Len(Enriched(r, 1, class, key).columns) = Len(r.columns)
        /\ SameNames(Enriched(r, 1, class, key).columns, r.columns)
<1>1. PICK new : new = Enriched(r, 1, class, key)
  OBVIOUS
<1>2. PICK columns : columns = r.columns
  OBVIOUS
<1> DEFINE after == [columns EXCEPT ![1] = [name |-> columns[1].name, inferred |-> columns[1].inferred,
                                            class |-> class, key |-> key]]
<1>3. Columned(columns) /\ Listed(columns) /\ Len(columns) \in Nat /\ 1 \in 1..Len(columns) /\ DOMAIN columns = 1..Len(columns)
  BY <1>2, Ranging DEF BuiltOf, Columned, Listed
<1>4. new.columns = after
  <2>0. r = [columns |-> columns, pending |-> r.pending, frame |-> r.frame, cache |-> r.cache, rows |-> r.rows,
             truncated |-> r.truncated, affected |-> r.affected]
    BY <1>2 DEF BuiltOf
  <2>1. new.columns = [columns EXCEPT ![1].class = class, ![1].key = key]
    BY <1>1, <2>0 DEF Enriched
  <2>2. columns[1] = [name |-> columns[1].name, inferred |-> columns[1].inferred,
                      class |-> columns[1].class, key |-> columns[1].key]
    BY <1>3 DEF Columned
  <2> QED
    BY <1>3, <2>1, <2>2
<1>5. after = [i \in 1..Len(columns) |-> after[i]]
  BY <1>3
<1>6. Len(after) = Len(columns) /\ Listed(after)
  <2> HIDE DEF after
  <2> QED
    BY <1>3, <1>5, ListMade
<1>7. Columned(after)
  BY <1>3, <1>6 DEF Columned
<1>8. SameNames(after, columns)
  BY <1>3, <1>6 DEF SameNames
<1>9. new = [columns |-> new.columns, pending |-> r.pending, frame |-> r.frame, cache |-> None, rows |-> r.rows,
             truncated |-> r.truncated, affected |-> r.affected]
  BY <1>1 DEF Enriched, BuiltOf
<1> HIDE DEF after
<1>10. Buffered(new, rows) \/ InColumns(new, rows)
  BY <1>2, <1>4, <1>6, <1>9 DEF BuiltOf, Buffered, InColumns
<1> QED
  BY <1>1, <1>2, <1>4, <1>6, <1>7, <1>8, <1>9, <1>10 DEF BuiltOf

LEMMA NothingListed == Listed(<<>>) /\ Len(<<>>) = 0 /\ \A i : ColumnOf(<<>>, i) = <<>>
BY DEF Listed, ColumnOf

LEMMA NewBuilt == ASSUME NEW C, NEW columns, Columned(columns)
  PROVE BuiltOf(NewResult(columns), <<>>, C) /\ NewResult(columns).columns = columns
<1>1. DOMAIN columns = 1..Len(columns)
  BY Ranging DEF Columned
<1>2. PICK r : r = NewResult(columns)
  OBVIOUS
<1>3. r = [columns |-> columns, pending |-> [i \in 1..Len(columns) |-> <<>>], frame |-> None, cache |-> None,
           rows |-> 0, truncated |-> FALSE, affected |-> 0]
  BY <1>1, <1>2 DEF NewResult
<1>4. Buffered(r, <<>>)
  BY <1>3, NothingListed DEF Buffered
<1>5. Fitted(<<>>, Len(columns), C)
  BY NothingListed DEF Fitted
<1> QED
  BY <1>2, <1>3, <1>4, <1>5, NothingListed DEF BuiltOf

LEMMA AdoptedBuilt == ASSUME NEW C, NEW r, NEW columns, BuiltOf(r, <<>>, C), Len(r.columns) = 0, Columned(columns)
  PROVE BuiltOf(AdoptColumns(r, columns), <<>>, C) /\ AdoptColumns(r, columns).columns = columns
<1>1. DOMAIN columns = 1..Len(columns)
  BY Ranging DEF Columned
<1>2. r.columns = <<>> /\ r.rows = 0
  BY NothingListed DEF BuiltOf, Columned, Listed
<1>3. PICK new : new = AdoptColumns(r, columns)
  OBVIOUS
<1>4. new = [columns |-> columns, pending |-> [i \in 1..Len(columns) |-> <<>>], frame |-> None, cache |-> None,
             rows |-> r.rows, truncated |-> r.truncated, affected |-> r.affected]
  <2>1. r = [columns |-> r.columns, pending |-> r.pending, frame |-> r.frame, cache |-> r.cache, rows |-> r.rows,
             truncated |-> r.truncated, affected |-> r.affected]
    BY DEF BuiltOf
  <2>2. ~(r.columns # <<>> \/ r.rows > 0)
    BY <1>2
  <2>3. new = [r EXCEPT !.frame = None, !.cache = None, !.columns = columns, !.pending = [i \in DOMAIN columns |-> <<>>]]
    BY <1>3, <2>2 DEF AdoptColumns
  <2> QED
    BY <1>1, <2>1, <2>3
<1>5. Buffered(new, <<>>)
  BY <1>4, NothingListed DEF Buffered
<1>6. Fitted(<<>>, Len(columns), C)
  BY NothingListed DEF Fitted
<1> QED
  BY <1>2, <1>3, <1>4, <1>5, <1>6, NothingListed DEF BuiltOf

\* A row pushed is there as it was given.
LEMMA PushedBuilt ==
  ASSUME NEW C, NEW r, NEW rows, AllWhole(C), NoFrame(C), BuiltOf(r, rows, C),
         NEW row, NEW cells, cells = Resized(r, row), cells \in [1..Len(r.columns) -> C]
  PROVE BuiltOf(PushRow(r, row), Append(rows, cells), C) /\ PushRow(r, row).columns = r.columns
<1>1. PICK n : n = Len(r.columns)
  OBVIOUS
<1>2. DOMAIN r.columns = 1..n
  BY <1>1, StoredTyped
<1>3. PICK new : new = PushRow(r, row)
  OBVIOUS
<1>4. PICK more : more = Append(rows, cells)
  OBVIOUS
<1>5. Fitted(rows, n, C) /\ Listed(rows) /\ Len(rows) \in Nat /\ r.rows = Len(rows)
  BY <1>1 DEF BuiltOf, Fitted, Listed
<1>6. /\ Listed(more) /\ Len(more) = Len(rows) + 1 /\ more[Len(rows) + 1] = cells
      /\ \A k \in 1..Len(rows) : more[k] = rows[k]
      /\ more = [k \in 1..(Len(rows) + 1) |-> IF k = Len(rows) + 1 THEN cells ELSE rows[k]]
  BY <1>4, <1>5, ListAdded
<1>7. Fitted(more, n, C)
  <2>1. \A k \in 1..Len(more) : k \in 1..Len(rows) \/ k = Len(rows) + 1
    BY <1>5, <1>6
  <2> QED
    BY <1>1, <1>5, <1>6, <2>1 DEF Fitted
<1>8. ASSUME NEW i \in 1..n
      PROVE /\ ColumnOf(more, i) = Append(ColumnOf(rows, i), cells[i])
            /\ CellList(ColumnOf(rows, i)) /\ Whole(cells[i])
  <2>1. PICK column : column = ColumnOf(rows, i)
    OBVIOUS
  <2>2. CellList(column) /\ Listed(column) /\ Len(column) = Len(rows) /\ \A k \in 1..Len(rows) : column[k] = rows[k][i]
    BY <1>5, <2>1, ColumnListed DEF CellList
  <2>3. Append(column, cells[i]) = [k \in 1..(Len(rows) + 1) |-> IF k = Len(rows) + 1 THEN cells[i] ELSE column[k]]
    BY <2>2, ListAdded
  <2>4. \A k \in 1..(Len(rows) + 1) : more[k][i] = IF k = Len(rows) + 1 THEN cells[i] ELSE column[k]
    BY <1>5, <1>6, <2>2
  <2>5. ColumnOf(more, i) = Append(column, cells[i])
    BY <1>6, <2>3, <2>4 DEF ColumnOf
  <2>6. Whole(cells[i])
    BY <1>1 DEF AllWhole
  <2> QED
    BY <2>1, <2>2, <2>5, <2>6
<1>9. CASE Buffered(r, rows)
  <2>1. r.frame = None /\ r.pending = [i \in 1..n |-> ColumnOf(rows, i)]
    BY <1>1, <1>9 DEF Buffered
  <2>2. new = [columns |-> r.columns, pending |-> [i \in 1..n |-> Append(r.pending[i], cells[i])], frame |-> r.frame,
               cache |-> None, rows |-> r.rows + 1, truncated |-> r.truncated, affected |-> r.affected]
    BY <1>2, <1>3, <2>1 DEF PushRow, BuiltOf
  <2>3. new.pending = [i \in 1..n |-> ColumnOf(more, i)]
    BY <1>8, <2>1, <2>2
  <2>4. Buffered(new, more)
    BY <1>1, <2>1, <2>2, <2>3 DEF Buffered
  <2> QED
    BY <1>1, <1>3, <1>4, <1>5, <1>6, <1>7, <2>2, <2>4 DEF BuiltOf
<1>10. CASE InColumns(r, rows)
  <2>1. r.frame # None /\ r.frame = [i \in 1..n |-> TypedColumn(ColumnOf(rows, i))]
    BY <1>1, <1>10 DEF InColumns
  <2>2. new = [columns |-> r.columns, pending |-> r.pending, frame |-> [i \in 1..n |-> Appended(r.frame[i], cells[i])],
               cache |-> None, rows |-> r.rows + 1, truncated |-> r.truncated, affected |-> r.affected]
    BY <1>2, <1>3, <2>1 DEF PushRow, BuiltOf
  <2>3. ASSUME NEW i \in 1..n PROVE Appended(r.frame[i], cells[i]) = TypedColumn(ColumnOf(more, i))
    <3>1. PICK column : column = ColumnOf(rows, i)
      OBVIOUS
    <3>2. PICK cell : cell = cells[i]
      OBVIOUS
    <3>3. CellList(column) /\ Whole(cell) /\ ColumnOf(more, i) = Append(column, cell)
      BY <1>8, <3>1, <3>2
    <3>4. Appended(TypedColumn(column), cell) = TypedColumn(Append(column, cell))
      BY <3>3, AppendedTyped
    <3>5. r.frame[i] = TypedColumn(column)
      BY <2>1, <3>1
    <3> QED
      BY <3>2, <3>3, <3>4, <3>5
  <2>4. new.frame = [i \in 1..n |-> TypedColumn(ColumnOf(more, i))]
    BY <2>2, <2>3
  <2>5. new.frame # None
    BY <1>1, <1>7, <2>4, FramesAreSome DEF BuiltOf, Columned, Listed
  <2>6. InColumns(new, more)
    BY <1>1, <2>2, <2>4, <2>5 DEF InColumns
  <2> QED
    BY <1>1, <1>3, <1>4, <1>5, <1>6, <1>7, <2>2, <2>6 DEF BuiltOf
<1> QED
  BY <1>9, <1>10 DEF BuiltOf

-----------------------------------------------------------------------------
(* Induction *)

LEMMA Least == ASSUME NEW T \in SUBSET Nat, T # {} PROVE \E n \in T : \A m \in T : n <= m
<1>1. PICK n \in T : \A m \in T : ~ (<<m, n>> \in OpToRel(<, Nat))
  BY NatLessThanWellFounded, WFMin, Zenon
<1>2. ASSUME NEW m \in T PROVE n <= m
  <2>1. ~(<<m, n>> \in OpToRel(<, Nat))
    BY <1>1, Zenon
  <2>2. m < n => <<m, n>> \in OpToRel(<, Nat)
    BY DEF OpToRel
  <2>3. ~(m < n)
    BY <2>1, <2>2, Zenon
  <2> QED
    BY <2>3
<1> QED
  BY <1>2

\* A property that passes from each step to the next holds of all.
LEMMA Steps == ASSUME NEW n \in Nat, NEW S, 0 \in S, \A k \in 0..(n - 1) : k \in S => k + 1 \in S
  PROVE n \in S /\ 0..n \subseteq S
<1> DEFINE T == (0..n) \ S
<1>1. CASE T # {}
  <2>0. T \in SUBSET Nat
    OBVIOUS
  <2> HIDE DEF T
  <2>1. PICK k \in T : \A m \in T : k <= m
    BY <1>1, <2>0, Least
  <2> USE DEF T
  <2>2. k - 1 \in 0..(n - 1) /\ k - 1 \in S
    BY <2>1
  <2> QED
    BY <2>1, <2>2
<1> QED
  BY <1>1

-----------------------------------------------------------------------------
(* The saved form *)

\* A cell that holds no others, saved and read.
Reads(v) ==
  CASE v.form = "nil" -> NullCell
    [] v.form \in {"bool", "int", "float"} -> Cell(v.form, v.val)
    [] v.form = "string" -> Cell("text", v.val)
    [] OTHER -> Cell(v.tag, v.val)

LEMMA ReadsBack == ASSUME NEW v
  PROVE /\ Reads(Coded("nil", v)) = NullCell
        /\ \A k \in {"bool", "int", "float"} : Reads(Coded(k, v)) = Cell(k, v)
        /\ Reads(Coded("string", v)) = Cell("text", v)
        /\ \A k : Reads(CodedList(k, v, <<>>)) = Cell(k, v)
<1>1. Reads(Coded("nil", v)) = NullCell
  BY DEF Reads, Coded
<1>2. ASSUME NEW k \in {"bool", "int", "float"} PROVE Reads(Coded(k, v)) = Cell(k, v)
  BY DEF Reads, Coded
<1>3. Reads(Coded("string", v)) = Cell("text", v)
  BY DEF Reads, Coded
<1>4. ASSUME NEW k PROVE Reads(CodedList(k, v, <<>>)) = Cell(k, v)
  BY DEF Reads, CodedList
<1> QED
  BY <1>1, <1>2, <1>3, <1>4

LEMMA SavedReads == ASSUME NEW c, Scalar(c)
  PROVE Reads(EncodeOne(c)) = c /\ EncodeOne(c).items = <<>> /\ EncodeOne(c).tag # "array"
<1>1. c = Cell(c.kind, c.val) /\ (c.kind = "null" => c = NullCell) /\ c.kind # "array"
  BY DEF Scalar, IsNull
<1>0. PICK v : v = EncodeOne(c)
  OBVIOUS
<1>2. CASE c.kind = "null"
  <2>1. v = Coded("nil", 0)
    BY <1>0, <1>2 DEF EncodeOne
  <2>2. Reads(v) = c
    BY <1>1, <1>2, <2>1, ReadsBack
  <2>3. v.items = <<>> /\ v.tag # "array"
    BY <2>1 DEF Coded
  <2> QED
    BY <1>0, <2>2, <2>3
<1>3. CASE c.kind \in {"bool", "int", "float"}
  <2>1. v = Coded(c.kind, c.val)
    BY <1>0, <1>3 DEF EncodeOne
  <2>2. Reads(v) = c
    BY <1>1, <1>3, <2>1, ReadsBack
  <2>3. v.items = <<>> /\ v.tag # "array"
    BY <2>1 DEF Coded
  <2> QED
    BY <1>0, <2>2, <2>3
<1>4. CASE c.kind = "text"
  <2>1. v = Coded("string", c.val)
    BY <1>0, <1>4 DEF EncodeOne
  <2>2. Reads(v) = c
    BY <1>1, <1>4, <2>1, ReadsBack
  <2>3. v.items = <<>> /\ v.tag # "array"
    BY <2>1 DEF Coded
  <2> QED
    BY <1>0, <2>2, <2>3
<1>5. CASE c.kind \notin {"null", "bool", "int", "float", "text"}
  <2>1. v = CodedList(c.kind, c.val, <<>>)
    BY <1>0, <1>5 DEF EncodeOne
  <2>2. Reads(v) = c
    BY <1>1, <2>1, ReadsBack
  <2>3. v.items = <<>> /\ v.tag # "array"
    BY <1>1, <2>1 DEF CodedList
  <2> QED
    BY <1>0, <2>2, <2>3
<1> QED
  BY <1>2, <1>3, <1>4, <1>5

LEMMA NoneIn == ToSet(<<>>) = {} /\ DOMAIN <<>> = {}
BY DEF ToSet

\* An array is saved as a list of what its cells are saved as.
SavedList(c) == CodedList("array", c.val, [i \in 1..Len(c.items) |-> EncodeOne(c.items[i])])

LEMMA EncodeIs == ASSUME NEW cell, Whole(cell)
  PROVE Encode(cell) = IF Scalar(cell) THEN EncodeOne(cell) ELSE SavedList(cell)
<1> DEFINE D == {cell} \cup ToSet(cell.items)
           Step(f, c) == IF c.kind = "array" THEN CodedList("array", c.val, [i \in DOMAIN c.items |-> f[c.items[i]]]) ELSE EncodeOne(c)
           Def(f) == f = [c \in D |-> Step(f, c)]
<1>1. Encode(cell) = (CHOOSE f : Def(f))[cell]
  BY DEF Encode
<1>2. ASSUME NEW f, NEW c, c.kind # "array" PROVE Step(f, c) = EncodeOne(c)
  BY <1>2
<1>3. ASSUME NEW f, NEW c, c.kind = "array"
      PROVE Step(f, c) = CodedList("array", c.val, [i \in DOMAIN c.items |-> f[c.items[i]]])
  BY <1>3
<1> HIDE DEF Step
<1>4. CASE Scalar(cell)
  <2>1. cell.kind # "array" /\ cell.items = <<>>
    BY <1>4 DEF Scalar, Cell
  <2>2. D = {cell}
    BY <2>1, NoneIn
  <2> DEFINE g == [c \in D |-> EncodeOne(c)]
  <2>3. Def(g)
    BY <1>2, <2>1, <2>2
  <2>4. PICK f : f = CHOOSE h : Def(h)
    OBVIOUS
  <2>5. Def(f)
    BY <2>3, <2>4
  <2>6. f[cell] = Step(f, cell)
    BY <2>5
  <2> QED
    BY <1>1, <1>2, <1>4, <2>1, <2>4, <2>6
<1>5. CASE ~Scalar(cell)
  <2>1. /\ cell.kind = "array" /\ Len(cell.items) \in Nat /\ DOMAIN cell.items = 1..Len(cell.items)
        /\ \A i \in 1..Len(cell.items) : Scalar(cell.items[i])
    <3>1. /\ cell = [kind |-> "array", val |-> cell.val, items |-> cell.items] /\ Len(cell.items) \in Nat
          /\ cell.items = [i \in 1..Len(cell.items) |-> cell.items[i]]
          /\ \A i \in 1..Len(cell.items) : Scalar(cell.items[i])
      BY <1>5 DEF Whole
    <3> QED
      BY <3>1
  <2>2. ToSet(cell.items) = {cell.items[i] : i \in 1..Len(cell.items)}
    BY <2>1 DEF ToSet
  <2>3. \A c \in ToSet(cell.items) : c.kind # "array"
    BY <2>1, <2>2 DEF Scalar
  <2> DEFINE g == [c \in D |-> IF c.kind = "array" THEN SavedList(cell) ELSE EncodeOne(c)]
  <2>4. ASSUME NEW c \in D PROVE Step(g, c) = g[c]
    <3>1. CASE c.kind = "array"
      <4>1. c = cell
        BY <2>3, <3>1
      <4>2. \A i \in 1..Len(cell.items) : g[cell.items[i]] = EncodeOne(cell.items[i])
        BY <2>2, <2>3
      <4> HIDE DEF g
      <4>3. Step(g, cell) = CodedList("array", cell.val, [i \in DOMAIN cell.items |-> g[cell.items[i]]])
        BY <1>3, <2>1
      <4>4. Step(g, cell) = SavedList(cell)
        BY <2>1, <4>2, <4>3 DEF SavedList
      <4> QED
        BY <3>1, <4>1, <4>4 DEF g
    <3>2. CASE c.kind # "array"
      <4>1. Step(g, c) = EncodeOne(c)
        BY <1>2, <3>2
      <4> QED
        BY <3>2, <4>1
    <3> QED
      BY <3>1, <3>2
  <2>5. Def(g)
    <3>1. g = [c \in D |-> g[c]]
      OBVIOUS
    <3> HIDE DEF g
    <3> QED
      BY <2>4, <3>1
  <2> HIDE DEF g
  <2>6. PICK f : f = CHOOSE h : Def(h)
    OBVIOUS
  <2>7. Def(f)
    BY <2>5, <2>6
  <2>8. \A c \in D : f[c] = Step(f, c)
    BY <2>7
  <2>9. \A i \in 1..Len(cell.items) : f[cell.items[i]] = EncodeOne(cell.items[i])
    BY <1>2, <2>2, <2>3, <2>8
  <2>10. f[cell] = CodedList("array", cell.val, [i \in DOMAIN cell.items |-> f[cell.items[i]]])
    BY <1>3, <2>1, <2>8
  <2>11. f[cell] = SavedList(cell)
    BY <2>1, <2>9, <2>10 DEF SavedList
  <2> QED
    BY <1>1, <1>5, <2>6, <2>11
<1> QED
  BY <1>4, <1>5

\* Saved and read again, a cell is what it was.
LEMMA DecodeEncode == ASSUME NEW cell, Whole(cell) PROVE Decode(Encode(cell)) = cell
<1> DEFINE Step(f, v) ==
             CASE v.form = "nil" -> NullCell
               [] v.form \in {"bool", "int", "float"} -> Cell(v.form, v.val)
               [] v.form = "string" -> Cell("text", v.val)
               [] OTHER -> [kind |-> v.tag, val |-> v.val, items |-> [i \in DOMAIN v.items |-> f[v.items[i]]]]
           D(value) == {value} \cup ToSet(value.items)
           Def(f, value) == f = [v \in D(value) |-> Step(f, v)]
<1>1. ASSUME NEW value PROVE Decode(value) = (CHOOSE f : Def(f, value))[value]
  BY DEF Decode
<1>2. ASSUME NEW f, NEW v, v.items = <<>> PROVE Step(f, v) = Reads(v)
  <2>1. [i \in DOMAIN v.items |-> f[v.items[i]]] = <<>>
    BY <1>2
  <2>2. [kind |-> v.tag, val |-> v.val, items |-> [i \in DOMAIN v.items |-> f[v.items[i]]]] = Cell(v.tag, v.val)
    BY <2>1 DEF Cell
  <2> QED
    BY <2>2 DEF Reads
<1>3. ASSUME NEW f, NEW v, v.form = "list"
      PROVE Step(f, v) = [kind |-> v.tag, val |-> v.val, items |-> [i \in DOMAIN v.items |-> f[v.items[i]]]]
  BY <1>3
<1> HIDE DEF Step
<1>4. CASE Scalar(cell)
  <2>1. PICK value : value = EncodeOne(cell)
    OBVIOUS
  <2>2. Encode(cell) = value /\ value.items = <<>> /\ Reads(value) = cell
    BY <1>4, <2>1, EncodeIs, SavedReads
  <2>3. D(value) = {value}
    BY <2>2, NoneIn
  <2> DEFINE g == [v \in D(value) |-> Reads(v)]
  <2>4. Def(g, value)
    BY <1>2, <2>2, <2>3
  <2>5. PICK f : f = CHOOSE h : Def(h, value)
    OBVIOUS
  <2>6. Def(f, value)
    BY <2>4, <2>5
  <2>7. f[value] = Step(f, value)
    BY <2>6
  <2>8. Decode(value) = f[value]
    BY <1>1, <2>5
  <2> QED
    BY <1>2, <2>2, <2>7, <2>8
<1>5. CASE ~Scalar(cell)
  <2>1. /\ cell = [kind |-> "array", val |-> cell.val, items |-> cell.items] /\ Len(cell.items) \in Nat
        /\ cell.items = [i \in 1..Len(cell.items) |-> cell.items[i]]
        /\ \A i \in 1..Len(cell.items) : Scalar(cell.items[i])
    BY <1>5 DEF Whole
  <2>2. PICK value : value = SavedList(cell)
    OBVIOUS
  <2>3. PICK codes : codes = [i \in 1..Len(cell.items) |-> EncodeOne(cell.items[i])]
    OBVIOUS
  <2>4. /\ Encode(cell) = value /\ DOMAIN codes = 1..Len(cell.items)
        /\ value.form = "list" /\ value.tag = "array" /\ value.val = cell.val /\ value.items = codes
    <3>1. value = CodedList("array", cell.val, codes)
      BY <2>2, <2>3 DEF SavedList
    <3>2. Encode(cell) = value
      BY <1>5, <2>2, EncodeIs
    <3> QED
      BY <2>3, <3>1, <3>2 DEF CodedList
  <2>5. D(value) = {value} \cup {codes[i] : i \in 1..Len(cell.items)}
    BY <2>4 DEF ToSet
  <2>6. \A i \in 1..Len(cell.items) : codes[i].items = <<>> /\ codes[i].tag # "array" /\ Reads(codes[i]) = cell.items[i]
    BY <2>1, <2>3, SavedReads
  <2> DEFINE g == [v \in D(value) |-> IF v = value THEN cell ELSE Reads(v)]
  <2>7. ASSUME NEW v \in D(value) PROVE Step(g, v) = g[v]
    <3>1. CASE v = value
      <4>1. \A i \in 1..Len(cell.items) : g[codes[i]] = cell.items[i]
        BY <2>4, <2>5, <2>6
      <4>2. g[value] = cell
        OBVIOUS
      <4> HIDE DEF g
      <4>3. Step(g, value) = [kind |-> value.tag, val |-> value.val, items |-> [i \in DOMAIN value.items |-> g[value.items[i]]]]
        BY <1>3, <2>4
      <4>4. [i \in DOMAIN value.items |-> g[value.items[i]]] = cell.items
        BY <2>1, <2>4, <4>1
      <4>5. Step(g, value) = cell
        BY <2>1, <2>4, <4>3, <4>4
      <4> QED
        BY <3>1, <4>2, <4>5
    <3>2. CASE v # value
      <4>1. v.items = <<>>
        BY <2>5, <2>6, <3>2
      <4>2. Step(g, v) = Reads(v)
        BY <1>2, <4>1
      <4> QED
        BY <3>2, <4>2
    <3> QED
      BY <3>1, <3>2
  <2>8. Def(g, value)
    <3>1. g = [v \in D(value) |-> g[v]]
      OBVIOUS
    <3> HIDE DEF g
    <3> QED
      BY <2>7, <3>1
  <2> HIDE DEF g
  <2>9. PICK f : f = CHOOSE h : Def(h, value)
    OBVIOUS
  <2>10. Def(f, value)
    BY <2>8, <2>9
  <2>11. \A v \in D(value) : f[v] = Step(f, v)
    BY <2>10
  <2>12. \A i \in 1..Len(cell.items) : f[codes[i]] = cell.items[i]
    BY <1>2, <2>5, <2>6, <2>11
  <2>13. f[value] = [kind |-> value.tag, val |-> value.val, items |-> [i \in DOMAIN value.items |-> f[value.items[i]]]]
    BY <1>3, <2>4, <2>11
  <2>14. [i \in DOMAIN value.items |-> f[value.items[i]]] = cell.items
    BY <2>1, <2>4, <2>12
  <2>15. f[value] = cell
    BY <2>1, <2>4, <2>13, <2>14
  <2>16. Decode(value) = f[value]
    BY <1>1, <2>9
  <2> QED
    BY <2>4, <2>15, <2>16
<1> QED
  BY <1>4, <1>5

-----------------------------------------------------------------------------
(* The saved result *)

Emptied(saved) == NewResult([i \in DOMAIN saved.columns |-> SavedColumn(saved.columns[i])])
DecodedRow(row) == [i \in DOMAIN row |-> Decode(row[i])]
Reopening(f, saved) ==
  /\ f[0] = Emptied(saved)
  /\ Unarchive(saved) = [f[Len(saved.rows)] EXCEPT !.truncated = saved.truncated, !.affected = saved.affected]
  /\ \A k \in 1..Len(saved.rows) : f[k] = PushRow(f[k - 1], DecodedRow(saved.rows[k]))

LEMMA Reopens == ASSUME NEW saved, Len(saved.rows) \in Nat PROVE \E f : Reopening(f, saved)
<1> DEFINE Step(g, row) == PushRow(g, DecodedRow(row))
           Def(f, m) == f = [n \in 0..m |-> IF n = 0 THEN Emptied(saved) ELSE Step(f[n - 1], saved.rows[n])]
           S == {m \in Nat : \E f : Def(f, m)}
<1>0. Unarchive(saved) = [(CHOOSE g : Def(g, Len(saved.rows)))[Len(saved.rows)] EXCEPT
                            !.truncated = saved.truncated, !.affected = saved.affected]
  BY DEF Unarchive, Emptied, DecodedRow
<1> HIDE DEF Step
<1>1. 0 \in S
  <2> DEFINE g == [n \in {0} |-> Emptied(saved)]
  <2>1. Def(g, 0)
    OBVIOUS
  <2> QED
    BY <2>1
<1>2. ASSUME NEW k \in 0..(Len(saved.rows) - 1), k \in S PROVE k + 1 \in S
  <2>1. PICK f : Def(f, k)
    BY <1>2
  <2> DEFINE g == [n \in 0..(k + 1) |-> IF n = k + 1 THEN Step(f[k], saved.rows[k + 1]) ELSE f[n]]
  <2>2. Def(g, k + 1) /\ k + 1 \in Nat
    BY <2>1
  <2> HIDE DEF Def, g
  <2> QED
    BY <2>2
<1>3. \E f : Def(f, Len(saved.rows))
  <2>0. \A k \in 0..(Len(saved.rows) - 1) : k \in S => k + 1 \in S
    BY <1>2
  <2> HIDE DEF S
  <2>1. Len(saved.rows) \in S
    BY <1>1, <2>0, Steps
  <2> QED
    BY <2>1 DEF S
<1>4. PICK f : f = (CHOOSE g : Def(g, Len(saved.rows)))
  OBVIOUS
<1>5. Def(f, Len(saved.rows))
  BY <1>3, <1>4
<1>6. Unarchive(saved) = [f[Len(saved.rows)] EXCEPT !.truncated = saved.truncated, !.affected = saved.affected]
  BY <1>0, <1>4
<1>7. f[0] = Emptied(saved)
  BY <1>5
<1>8. ASSUME NEW k \in 1..Len(saved.rows) PROVE f[k] = PushRow(f[k - 1], DecodedRow(saved.rows[k]))
  <2>1. k \in 0..Len(saved.rows) /\ k # 0
    OBVIOUS
  <2>2. f[k] = Step(f[k - 1], saved.rows[k])
    BY <1>5, <2>1
  <2> QED
    BY <2>2 DEF Step
<1> HIDE DEF Def
<1>9. Reopening(f, saved)
  BY <1>6, <1>7, <1>8 DEF Reopening
<1> QED
  BY <1>9

LEMMA SavedColumnIs == ASSUME NEW column,
    column = [name |-> column.name, inferred |-> column.inferred, class |-> column.class, key |-> column.key]
  PROVE SavedColumn(column) = column
<1>1. PICK new : new = NewColumn(column.name, column.inferred)
  OBVIOUS
<1>2. new = [name |-> column.name, inferred |-> column.inferred, class |-> column.inferred, key |-> "none"]
  BY <1>1 DEF NewColumn
<1>3. PICK r : r = SavedColumn(column)
  OBVIOUS
<1>4. r = [new EXCEPT !.class = column.class, !.key = column.key]
  BY <1>1, <1>3 DEF SavedColumn
<1>5. r = [name |-> column.name, inferred |-> column.inferred, class |-> column.class, key |-> column.key]
  BY <1>2, <1>4
<1> QED
  BY <1>3, <1>5

\* A result but for what else its statement said.
LEMMA SummaryAside == ASSUME NEW C, NEW r, NEW rows, NEW x, NEW y, NEW new, BuiltOf(r, rows, C),
    new = [columns |-> r.columns, pending |-> r.pending, frame |-> r.frame, cache |-> r.cache, rows |-> r.rows,
           truncated |-> x, affected |-> y]
  PROVE BuiltOf(new, rows, C) /\ new.columns = r.columns
<1>1. Buffered(new, rows) \/ InColumns(new, rows)
  BY DEF BuiltOf, Buffered, InColumns
<1> QED
  BY <1>1 DEF BuiltOf

\* The first k of the rows.
FirstRows(rows, k) == [n \in 1..k |-> rows[n]]

LEMMA FirstMore == ASSUME NEW rows, NEW n, NEW C, Fitted(rows, n, C), NEW k \in 1..Len(rows)
  PROVE FirstRows(rows, k) = Append(FirstRows(rows, k - 1), rows[k])
<1>1. Len(rows) \in Nat /\ k - 1 \in Nat
  BY DEF Fitted, Listed
<1>2. PICK s : s = FirstRows(rows, k - 1)
  OBVIOUS
<1>3. s = [i \in 1..(k - 1) |-> s[i]] /\ \A i \in 1..(k - 1) : s[i] = rows[i]
  BY <1>2 DEF FirstRows
<1>4. Listed(s) /\ Len(s) = k - 1
  BY <1>1, <1>3, ListMade
<1>5. Append(s, rows[k]) = [i \in 1..k |-> IF i = k THEN rows[k] ELSE s[i]]
  <2>1. Append(s, rows[k]) = [i \in 1..(Len(s) + 1) |-> IF i = Len(s) + 1 THEN rows[k] ELSE s[i]]
    BY <1>4, ListAdded
  <2>2. Len(s) + 1 = k
    BY <1>4
  <2> QED
    BY <2>1, <2>2
<1>6. \A i \in 1..k : rows[i] = IF i = k THEN rows[k] ELSE s[i]
  BY <1>3
<1> QED
  BY <1>2, <1>5, <1>6 DEF FirstRows

\* A row that is pushed takes the frame kept for views with it.
LEMMA PushForgets == ASSUME NEW C, NEW r, NEW rows, BuiltOf(r, rows, C), NEW row PROVE PushRow(r, row).cache = None
<1>1. PICK next : next = PushRow(r, row)
  OBVIOUS
<1>2. PICK p, f : next = IF r.frame = None THEN [r EXCEPT !.cache = None, !.rows = @ + 1, !.pending = p]
                         ELSE [r EXCEPT !.cache = None, !.rows = @ + 1, !.frame = f]
  BY <1>1 DEF PushRow
<1>3. next.cache = None
  BY <1>2 DEF BuiltOf
<1> QED
  BY <1>1, <1>3

\* A result that was saved reopens with the rows and columns it had.
LEMMA ReopenedBuilt ==
  ASSUME NEW C, NEW r, NEW rows, AllWhole(C), NoFrame(C), BuiltOf(r, rows, C)
  PROVE /\ BuiltOf(Unarchive(Archive(r)), rows, C) /\ Unarchive(Archive(r)).columns = r.columns
        /\ Unarchive(Archive(r)).cache = None
<1>1. PICK n : n = Len(r.columns)
  OBVIOUS
<1>2. PICK saved : saved = Archive(r)
  OBVIOUS
<1>3. Fitted(rows, n, C) /\ Listed(rows) /\ Len(rows) \in Nat /\ r.rows = Len(rows) /\ Columned(r.columns) /\ n \in Nat
  BY <1>1 DEF BuiltOf, Fitted, Listed, Columned
<1>4. DOMAIN r.columns = 1..n /\ RowsOf(r) = rows
  BY <1>1, BuiltIsAsBuilt, StoredTyped DEF AppendedAsBuilt
<1>5. \A k \in 1..Len(rows), i \in 1..n : CellOf(r, k, i) = rows[k][i] /\ rows[k][i] \in C
  BY <1>3, <1>4 DEF RowsOf, Fitted
<1>6. /\ saved.columns = r.columns /\ DOMAIN saved.rows = 1..Len(rows)
      /\ \A k \in 1..Len(rows) : saved.rows[k] = [i \in 1..n |-> Encode(rows[k][i])]
  BY <1>2, <1>3, <1>4, <1>5 DEF Archive
<1>7. Len(saved.rows) = Len(rows)
  <2>1. saved.rows = [k \in 1..Len(rows) |-> saved.rows[k]]
    BY <1>2, <1>3, <1>4 DEF Archive
  <2> QED
    BY <1>3, <2>1, ListMade
<1>8. ASSUME NEW k \in 1..Len(rows) PROVE DecodedRow(saved.rows[k]) = rows[k]
  <2>1. \A i \in 1..n : Decode(Encode(rows[k][i])) = rows[k][i]
    BY <1>5, DecodeEncode DEF AllWhole
  <2>2. rows[k] = [i \in 1..n |-> rows[k][i]]
    BY <1>3 DEF Fitted
  <2>3. PICK row : row = saved.rows[k]
    OBVIOUS
  <2>4. row = [i \in 1..n |-> Encode(rows[k][i])]
    BY <1>6, <2>3
  <2>5. DecodedRow(row) = [i \in 1..n |-> Decode(Encode(rows[k][i]))]
    BY <2>4 DEF DecodedRow
  <2>6. DecodedRow(row) = rows[k]
    BY <2>1, <2>2, <2>5
  <2> QED
    BY <2>3, <2>6
<1>9. Emptied(saved) = NewResult(r.columns)
  <2>1. \A i \in 1..n : SavedColumn(r.columns[i]) = r.columns[i]
    BY <1>1, <1>3, SavedColumnIs DEF Columned
  <2>2. r.columns = [i \in 1..n |-> r.columns[i]]
    BY <1>1, <1>3 DEF Columned, Listed
  <2>3. PICK columns : columns = [i \in DOMAIN r.columns |-> SavedColumn(r.columns[i])]
    OBVIOUS
  <2>4. columns = r.columns
    BY <1>4, <2>1, <2>2, <2>3
  <2>5. Emptied(saved) = NewResult(columns)
    BY <1>6, <2>3 DEF Emptied
  <2> QED
    BY <2>4, <2>5
<1>10. PICK f : Reopening(f, saved)
  BY <1>3, <1>7, Reopens
<1> DEFINE Back(k) == BuiltOf(f[k], FirstRows(rows, k), C) /\ f[k].columns = r.columns /\ f[k].cache = None
           S == {k \in 0..Len(rows) : Back(k)}
<1>11. 0 \in S
  <2>1. FirstRows(rows, 0) = <<>>
    BY DEF FirstRows
  <2>2. f[0] = NewResult(r.columns)
    BY <1>9, <1>10 DEF Reopening
  <2>3. NewResult(r.columns).cache = None
    BY DEF NewResult
  <2> QED
    BY <1>3, <2>1, <2>2, <2>3, NewBuilt
<1>12. ASSUME NEW k \in 0..(Len(rows) - 1), k \in S PROVE k + 1 \in S
  <2>1. PICK g : g = f[k]
    OBVIOUS
  <2>2. PICK cells : cells = rows[k + 1]
    OBVIOUS
  <2>3. PICK before : before = FirstRows(rows, k)
    OBVIOUS
  <2>4. k + 1 \in 1..Len(rows) /\ (k + 1) - 1 = k
    BY <1>3
  <2>5. BuiltOf(g, before, C) /\ g.columns = r.columns
    BY <1>12, <2>1, <2>3
  <2>6. f[k + 1] = PushRow(g, cells)
    BY <1>7, <1>8, <1>10, <2>1, <2>2, <2>4 DEF Reopening
  <2>7. FirstRows(rows, k + 1) = Append(before, cells)
    BY <1>3, <2>2, <2>3, <2>4, FirstMore
  <2>8. cells \in [1..n -> C] /\ Len(cells) = n
    <3>1. cells \in [1..n -> C]
      BY <1>3, <2>2, <2>4 DEF Fitted
    <3>2. cells = [i \in 1..n |-> cells[i]]
      BY <3>1
    <3> QED
      BY <1>3, <3>1, <3>2, ListMade
  <2>9. cells = Resized(g, cells)
    <3>1. Resized(g, cells) = [i \in 1..n |-> cells[i]]
      BY <1>3, <1>4, <2>5, <2>8 DEF Resized
    <3> QED
      BY <2>8, <3>1
  <2>10. BuiltOf(PushRow(g, cells), Append(before, cells), C) /\ PushRow(g, cells).columns = g.columns
    BY <1>1, <2>5, <2>8, <2>9, PushedBuilt
  <2>11. PushRow(g, cells).cache = None
    BY <2>5, PushForgets
  <2>12. Back(k + 1)
    BY <2>5, <2>6, <2>7, <2>10, <2>11
  <2> HIDE DEF Back
  <2> QED
    BY <1>3, <2>4, <2>12
<1>13. Back(Len(rows))
  <2>1. \A k \in 0..(Len(rows) - 1) : k \in S => k + 1 \in S
    BY <1>12
  <2> HIDE DEF S
  <2>2. Len(rows) \in S
    BY <1>3, <1>11, <2>1, Steps
  <2> QED
    BY <2>2 DEF S
<1>14. FirstRows(rows, Len(rows)) = rows
  BY <1>3 DEF FirstRows, Listed
<1>15. PICK g : g = f[Len(rows)]
  OBVIOUS
<1>16. BuiltOf(g, rows, C) /\ g.columns = r.columns /\ g.cache = None
  BY <1>13, <1>14, <1>15
<1>17. Unarchive(saved) = [g EXCEPT !.truncated = saved.truncated, !.affected = saved.affected]
  BY <1>7, <1>10, <1>15 DEF Reopening
<1>18. PICK back : back = Unarchive(saved)
  OBVIOUS
<1>19. back = [columns |-> g.columns, pending |-> g.pending, frame |-> g.frame, cache |-> g.cache, rows |-> g.rows,
              truncated |-> saved.truncated, affected |-> saved.affected]
  BY <1>16, <1>17, <1>18 DEF BuiltOf
<1>20. BuiltOf(back, rows, C) /\ back.columns = g.columns /\ back.cache = None
  BY <1>16, <1>19, SummaryAside
<1> QED
  BY <1>2, <1>16, <1>18, <1>20

-----------------------------------------------------------------------------
(* Whatever holds the rows *)

\* A result of a world: it has its columns, or none and no rows yet.
Fits(w, r, rows) ==
  /\ BuiltOf(r, rows, CellsIn(w))
  /\ Len(r.columns) \in {0, Len(w.columns)}
  /\ Len(r.columns) = 0 => rows = <<>>

Filed(w, f) == \E r : Fits(w, r, f.truth) /\ f.archive = Archive(r) /\ f.columns = r.columns
Keeping(w, r, rows, c, f) ==
  /\ w \in Worlds
  /\ Fits(w, r, rows)
  /\ c # None => Fits(w, c.result, c.truth)
  /\ f # None => Filed(w, f)

DataInv == Keeping(world, live, truth, copy, file)

LEMMA DataInvNext == Keeping(world', live', truth', copy', file') => DataInv'
BY DEF DataInv

LEMMA WorldsAreWhole == ASSUME NEW w \in Worlds
  PROVE /\ AllWhole(CellsIn(w)) /\ NoFrame(CellsIn(w))
        /\ Columned(Described(w)) /\ Len(Described(w)) = Len(w.columns)
        /\ DOMAIN w.columns = 1..Len(w.columns) /\ Len(w.columns) \in Nat
<1>1. AllWhole(CellsIn(w))
  BY CellsWhole DEF AllWhole
<1>2. NoFrame(CellsIn(w))
  BY NoneIsNoFrame DEF NoFrame, Frames
<1>3. Len(w.columns) \in Nat /\ w.columns = [i \in 1..Len(w.columns) |-> w.columns[i]]
  BY ColumnsListed
<1>4. DOMAIN w.columns = 1..Len(w.columns)
  BY <1>3
<1>5. PICK columns : columns = Described(w)
  OBVIOUS
<1>6. columns = [i \in 1..Len(w.columns) |-> NewColumn(w.columns[i], w.classes[i])]
  BY <1>4, <1>5 DEF Described
<1>7. columns = [i \in 1..Len(w.columns) |-> columns[i]]
  BY <1>6
<1>8. Listed(columns) /\ Len(columns) = Len(w.columns)
  BY <1>3, <1>7, ListMade
<1>9. ASSUME NEW i \in 1..Len(columns)
      PROVE columns[i] = [name |-> columns[i].name, inferred |-> columns[i].inferred,
                          class |-> columns[i].class, key |-> columns[i].key]
  <2>1. PICK column : column = columns[i]
    OBVIOUS
  <2>2. column = NewColumn(w.columns[i], w.classes[i])
    BY <1>6, <1>8, <2>1
  <2>3. column = [name |-> column.name, inferred |-> column.inferred, class |-> column.class, key |-> column.key]
    BY <2>2 DEF NewColumn
  <2> QED
    BY <2>1, <2>3
<1>10. Columned(columns)
  BY <1>8, <1>9 DEF Columned
<1> QED
  BY <1>1, <1>2, <1>3, <1>4, <1>5, <1>8, <1>10

LEMMA NoColumns == ASSUME NEW w, NEW r, NEW rows, Fits(w, r, rows)
  PROVE r.columns = <<>> <=> Len(r.columns) = 0
BY NothingListed DEF Fits, BuiltOf, Columned, Listed

LEMMA NoneColumned == Columned(<<>>)
BY NothingListed DEF Columned

LEMMA DataInitInv == DataInit => DataInv
<1> SUFFICES ASSUME DataInit PROVE DataInv
  OBVIOUS
<1>1. world \in Worlds /\ truth = <<>> /\ copy = None /\ file = None
  BY DEF DataInit
<1>2. PICK columns : columns = IF world.grows THEN <<>> ELSE Described(world)
  OBVIOUS
<1>3. live = NewResult(columns)
  BY <1>2 DEF DataInit
<1>4. Columned(columns) /\ Len(columns) \in {0, Len(world.columns)}
  <2>1. columns = <<>> \/ columns = Described(world)
    BY <1>2
  <2> QED
    BY <1>1, <2>1, WorldsAreWhole, NoneColumned, NothingListed
<1>5. BuiltOf(live, <<>>, CellsIn(world)) /\ live.columns = columns
  BY <1>3, <1>4, NewBuilt
<1>6. Fits(world, live, truth)
  BY <1>1, <1>4, <1>5 DEF Fits
<1> QED
  BY <1>1, <1>6 DEF DataInv, Keeping

LEMMA DescribeKeeps == ASSUME DataInv, Describe PROVE DataInv'
<1>1. /\ live.columns = <<>> /\ live' = AdoptColumns(live, Described(world))
      /\ world' = world /\ truth' = truth /\ copy' = copy /\ file' = file
  BY DEF Describe
<1>2. Fits(world, live, truth) /\ world \in Worlds
  BY DEF DataInv, Keeping
<1>3. Len(live.columns) = 0 /\ truth = <<>>
  BY <1>1, <1>2, NothingListed DEF Fits
<1>4. BuiltOf(live, <<>>, CellsIn(world))
  BY <1>2, <1>3 DEF Fits
<1>5. PICK columns : columns = Described(world)
  OBVIOUS
<1>6. Columned(columns) /\ Len(columns) = Len(world.columns)
  BY <1>2, <1>5, WorldsAreWhole
<1>7. BuiltOf(live', <<>>, CellsIn(world)) /\ live'.columns = columns
  BY <1>1, <1>3, <1>4, <1>5, <1>6, AdoptedBuilt
<1>8. Fits(world, live', <<>>)
  BY <1>6, <1>7 DEF Fits
<1>9. Keeping(world', live', truth', copy', file')
  BY <1>1, <1>3, <1>8 DEF DataInv, Keeping
<1> QED
  BY <1>9, DataInvNext

LEMMA PushKeeps == ASSUME DataInv, Push PROVE DataInv'
<1>1. Fits(world, live, truth) /\ world \in Worlds
  BY DEF DataInv, Keeping
<1>2. PICK n : n = Len(world.columns)
  OBVIOUS
<1>3. n \in Nat /\ DOMAIN world.columns = 1..n /\ AllWhole(CellsIn(world)) /\ NoFrame(CellsIn(world))
  BY <1>1, <1>2, WorldsAreWhole
<1>4. live.columns # <<>> /\ world' = world /\ copy' = copy /\ file' = file
  BY DEF Push
<1>5. Len(live.columns) = n /\ n # 0 /\ DOMAIN live.columns = 1..n
  <2>1. Len(live.columns) = n /\ n # 0
    BY <1>1, <1>2, <1>4, NoColumns DEF Fits
  <2> QED
    BY <1>1, <2>1, StoredTyped DEF Fits
<1>6. PICK row \in [DOMAIN world.columns -> UNION ToSet(world.palettes)], width \in {1, n} :
        /\ live' = PushRow(live, SubSeq(<<>> \o row, 1, width))
        /\ truth' = Append(truth, [i \in DOMAIN live.columns |-> IF i <= width THEN row[i] ELSE NullCell])
  BY <1>5 DEF Push, Width
<1>7. width \in 1..n
  BY <1>3, <1>5, <1>6
<1>8. PICK cells : cells = [i \in 1..n |-> IF i <= width THEN row[i] ELSE NullCell]
  OBVIOUS
<1>9. cells \in [1..n -> CellsIn(world)]
  <2>1. \A i \in 1..n : row[i] \in CellsIn(world)
    BY <1>3, <1>6 DEF CellsIn
  <2>2. NullCell \in CellsIn(world)
    BY DEF CellsIn
  <2>3. \A i \in 1..n : cells[i] \in CellsIn(world)
    BY <1>8, <2>1, <2>2
  <2>4. cells = [i \in 1..n |-> cells[i]]
    BY <1>8
  <2> QED
    BY <2>3, <2>4
<1>10. PICK pushed : pushed = SubSeq(<<>> \o row, 1, width)
  OBVIOUS
<1>11. Len(pushed) = width /\ \A i \in 1..width : pushed[i] = row[i]
  <2> DEFINE S == UNION ToSet(world.palettes)
  <2> HIDE DEF S
  <2>1. row \in Seq(S) /\ Len(row) = n
    BY <1>3, <1>6 DEF S
  <2>2. <<>> \o row = row
    BY <2>1
  <2>3. pushed = SubSeq(row, 1, width)
    BY <1>10, <2>2
  <2> QED
    BY <1>3, <1>7, <2>1, <2>3
<1>12. cells = Resized(live, pushed)
  BY <1>5, <1>7, <1>8, <1>11 DEF Resized
<1>13. BuiltOf(live, truth, CellsIn(world)) /\ cells \in [1..Len(live.columns) -> CellsIn(world)]
  BY <1>1, <1>5, <1>9 DEF Fits
<1>14. BuiltOf(PushRow(live, pushed), Append(truth, cells), CellsIn(world)) /\ PushRow(live, pushed).columns = live.columns
  BY <1>3, <1>12, <1>13, PushedBuilt
<1>15. live' = PushRow(live, pushed) /\ truth' = Append(truth, cells)
  BY <1>5, <1>6, <1>8, <1>10
<1>16. Fits(world, live', truth')
  BY <1>2, <1>5, <1>14, <1>15 DEF Fits
<1>17. Keeping(world', live', truth', copy', file')
  BY <1>4, <1>16 DEF DataInv, Keeping
<1> QED
  BY <1>17, DataInvNext

LEMMA FinalFits == ASSUME NEW w, NEW r, NEW rows, w \in Worlds, Fits(w, r, rows)
  PROVE Fits(w, Finalized(r), rows)
<1>1. AllWhole(CellsIn(w)) /\ NoFrame(CellsIn(w)) /\ BuiltOf(r, rows, CellsIn(w))
  BY WorldsAreWhole DEF Fits
<1>2. BuiltOf(Finalized(r), rows, CellsIn(w)) /\ Finalized(r).columns = r.columns
  BY <1>1, FinalBuilt
<1> QED
  BY <1>2 DEF Fits

LEMMA ReadKeeps == ASSUME DataInv, Read PROVE DataInv'
<1>1. live' = Finalized(live) /\ world' = world /\ truth' = truth /\ copy' = copy /\ file' = file
  BY DEF Read
<1>2. Fits(world, live', truth)
  BY <1>1, FinalFits DEF DataInv, Keeping
<1>3. Keeping(world', live', truth', copy', file')
  BY <1>1, <1>2 DEF DataInv, Keeping
<1> QED
  BY <1>3, DataInvNext

LEMMA EnrichKeeps == ASSUME DataInv, Enrich PROVE DataInv'
<1>1. /\ live.columns # <<>> /\ live' = Enriched(live, 1, world.later, "primary")
      /\ world' = world /\ truth' = truth /\ copy' = copy /\ file' = file
  BY DEF Enrich
<1>2. Fits(world, live, truth)
  BY DEF DataInv, Keeping
<1>3. Len(live.columns) # 0 /\ BuiltOf(live, truth, CellsIn(world))
  BY <1>1, <1>2, NoColumns DEF Fits
<1>4. BuiltOf(live', truth, CellsIn(world)) /\ Len(live'.columns) = Len(live.columns)
  BY <1>1, <1>3, EnrichedBuilt
<1>5. Fits(world, live', truth)
  BY <1>2, <1>4 DEF Fits
<1>6. Keeping(world', live', truth', copy', file')
  BY <1>1, <1>5 DEF DataInv, Keeping
<1> QED
  BY <1>6, DataInvNext

LEMMA SearchKeeps == ASSUME DataInv, Search PROVE DataInv'
<1>1. world' = world /\ truth' = truth /\ copy' = copy /\ file' = file
  BY DEF Search
<1>2. live' = live \/ \E x : live' = [live EXCEPT !.cache = x]
  BY DEF Search, AfterView
<1>3. Fits(world, live, truth)
  BY DEF DataInv, Keeping
<1>4. ASSUME NEW x, live' = [live EXCEPT !.cache = x] PROVE Fits(world, live', truth)
  <2>1. BuiltOf(live', truth, CellsIn(world)) /\ live'.columns = live.columns
    <3>1. BuiltOf(live, truth, CellsIn(world))
      BY <1>3 DEF Fits
    <3>2. PICK C, r, rows, next : C = CellsIn(world) /\ r = live /\ rows = truth /\ next = [r EXCEPT !.cache = x]
      OBVIOUS
    <3>3. BuiltOf(next, rows, C) /\ next.columns = r.columns
      BY <3>1, <3>2, CacheAside
    <3> QED
      BY <1>4, <3>2, <3>3
  <2> QED
    BY <1>3, <2>1 DEF Fits
<1>5. Fits(world, live', truth)
  BY <1>2, <1>3, <1>4
<1>6. Keeping(world', live', truth', copy', file')
  BY <1>1, <1>5 DEF DataInv, Keeping
<1> QED
  BY <1>6, DataInvNext

LEMMA CloneKeeps == ASSUME DataInv, Clone PROVE DataInv'
<1>1. /\ copy' = [result |-> Finalized(live), truth |-> truth] /\ live' = Finalized(live)
      /\ world' = world /\ truth' = truth /\ file' = file
  BY DEF Clone, Cloned
<1>2. Fits(world, live', truth)
  BY <1>1, FinalFits DEF DataInv, Keeping
<1>3. copy'.result = live' /\ copy'.truth = truth
  BY <1>1
<1>4. Keeping(world', live', truth', copy', file')
  BY <1>1, <1>2, <1>3 DEF DataInv, Keeping
<1> QED
  BY <1>4, DataInvNext

LEMMA SaveKeeps == ASSUME DataInv, Save PROVE DataInv'
<1>1. /\ file' = [archive |-> Archive(live), columns |-> live.columns, truth |-> truth] /\ live' = Finalized(live)
      /\ world' = world /\ truth' = truth /\ copy' = copy
  BY DEF Save
<1>2. Fits(world, live', truth) /\ Fits(world, live, truth)
  BY <1>1, FinalFits DEF DataInv, Keeping
<1>3. file'.archive = Archive(live) /\ file'.columns = live.columns /\ file'.truth = truth
  BY <1>1
<1>4. Filed(world, file')
  BY <1>2, <1>3 DEF Filed
<1>5. Keeping(world', live', truth', copy', file')
  BY <1>1, <1>2, <1>4 DEF DataInv, Keeping
<1> QED
  BY <1>5, DataInvNext

LEMMA FiledReopens == ASSUME NEW w, NEW f, w \in Worlds, Filed(w, f)
  PROVE /\ Fits(w, Unarchive(f.archive), f.truth) /\ Unarchive(f.archive).columns = f.columns
        /\ Unarchive(f.archive).cache = None
<1>1. PICK r : Fits(w, r, f.truth) /\ f.archive = Archive(r) /\ f.columns = r.columns
  BY DEF Filed
<1>2. AllWhole(CellsIn(w)) /\ NoFrame(CellsIn(w)) /\ BuiltOf(r, f.truth, CellsIn(w))
  BY <1>1, WorldsAreWhole DEF Fits
<1>3. /\ BuiltOf(Unarchive(Archive(r)), f.truth, CellsIn(w)) /\ Unarchive(Archive(r)).columns = r.columns
      /\ Unarchive(Archive(r)).cache = None
  BY <1>2, ReopenedBuilt
<1> QED
  BY <1>1, <1>3 DEF Fits

LEMMA RestoreKeeps == ASSUME DataInv, Restore PROVE DataInv'
<1>1. /\ file # None /\ live' = Unarchive(file.archive) /\ truth' = file.truth
      /\ world' = world /\ copy' = copy /\ file' = file
  BY DEF Restore
<1>2. world \in Worlds /\ Filed(world, file)
  BY <1>1 DEF DataInv, Keeping
<1>3. Fits(world, live', truth')
  BY <1>1, <1>2, FiledReopens
<1>4. Keeping(world', live', truth', copy', file')
  BY <1>1, <1>3 DEF DataInv, Keeping
<1> QED
  BY <1>4, DataInvNext

\* A result was built of the rows that were pushed, whatever was done with it since: its
\* buffers, or its columns, are those of the rows, and so are a clone's and a file's (result.rs).
THEOREM DataInvariant == DataSpec => []DataInv
<1>1. ASSUME DataInv, [DataNext]_dataVars PROVE DataInv'
  <2>1. CASE UNCHANGED dataVars
    BY <1>1, <2>1 DEF dataVars, DataInv
  <2> QED
    BY <1>1, <2>1, DescribeKeeps, PushKeeps, ReadKeeps, EnrichKeeps, SearchKeeps, CloneKeeps, SaveKeeps, RestoreKeeps DEF DataNext
<1> QED
  BY <1>1, DataInitInv, PTL DEF DataSpec

\* The columns of a held result, of every clone of it and of a saved one that was reopened
\* hold the cells that were pushed, kind by kind, and say of them what is so: whatever types
\* were mixed in them, and whenever the buffers became columns (retained.rs, archive.rs).
THEOREM CellsAreKept == DataSpec => []CellsKept
<1>1. DataInv => CellsKept
  <2> SUFFICES ASSUME DataInv PROVE CellsKept
    OBVIOUS
  <2>1. world \in Worlds /\ AllWhole(CellsIn(world))
    BY WorldsAreWhole DEF DataInv, Keeping
  <2>2. AppendedAsBuilt(live, truth)
    BY <2>1, BuiltIsAsBuilt DEF DataInv, Keeping, Fits
  <2>3. copy # None => AppendedAsBuilt(copy.result, copy.truth)
    BY <2>1, BuiltIsAsBuilt DEF DataInv, Keeping, Fits
  <2>4. ASSUME file # None
        PROVE AppendedAsBuilt(Unarchive(file.archive), file.truth) /\ Unarchive(file.archive).columns = file.columns
    <3>1. Fits(world, Unarchive(file.archive), file.truth) /\ Unarchive(file.archive).columns = file.columns
      BY <2>1, <2>4, FiledReopens DEF DataInv, Keeping
    <3> QED
      BY <2>1, <3>1, BuiltIsAsBuilt DEF Fits
  <2> QED
    BY <2>2, <2>3, <2>4 DEF CellsKept, HeldAsPushed, ReopenedSame
<1> QED
  BY <1>1, DataInvariant, PTL

-----------------------------------------------------------------------------
(* Members in an order *)

\* R is a strict total order of S.
Orders(R, S) ==
  /\ \A x \in S : <<x, x>> \notin R
  /\ \A x, y \in S : x # y => <<x, y>> \in R \/ <<y, x>> \in R
  /\ \A x, y, z \in S : <<x, y>> \in R /\ <<y, z>> \in R => <<x, z>> \in R
Below(R, S, x) == {y \in S : <<y, x>> \in R}

\* Each place of the order has a member.
LEMMA Ranked == ASSUME NEW S, NEW R, IsFiniteSet(S), Orders(R, S)
  PROVE /\ Cardinality(S) \in Nat
        /\ \A k \in 1..Cardinality(S) : \E x \in S : Cardinality(Below(R, S, x)) = k - 1
        /\ \A x \in S : Cardinality(Below(R, S, x)) \in 0..(Cardinality(S) - 1)
        /\ \A x, y \in S : <<x, y>> \in R => Cardinality(Below(R, S, x)) < Cardinality(Below(R, S, y))
<1> DEFINE n == Cardinality(S)
           rank(x) == Cardinality(Below(R, S, x))
<1>1. n \in Nat
  BY FS_CardinalityType
<1>2. ASSUME NEW x \in S PROVE IsFiniteSet(Below(R, S, x)) /\ rank(x) \in Nat /\ rank(x) < n
  <2>1. Below(R, S, x) \in SUBSET S /\ Below(R, S, x) # S
    BY DEF Below, Orders
  <2>2. IsFiniteSet(Below(R, S, x)) /\ rank(x) <= n /\ rank(x) # n
    BY <2>1, FS_Subset
  <2>3. rank(x) \in Nat
    BY <2>2, FS_CardinalityType
  <2> QED
    BY <1>1, <2>2, <2>3
<1>3. ASSUME NEW x \in S, NEW y \in S, <<x, y>> \in R PROVE rank(x) < rank(y)
  <2>1. Below(R, S, x) \in SUBSET Below(R, S, y) /\ x \in Below(R, S, y) /\ x \notin Below(R, S, x)
    BY <1>3 DEF Below, Orders
  <2>2. rank(x) <= rank(y) /\ rank(x) # rank(y)
    BY <1>2, <2>1, FS_Subset
  <2> QED
    BY <1>2, <2>2
<1>4. PICK g : g = [x \in S |-> rank(x)]
  OBVIOUS
<1>5. PICK T : T = 0..(n - 1)
  OBVIOUS
<1> HIDE DEF rank
<1>6. IsFiniteSet(T) /\ Cardinality(T) = n
  <2>1. 0 \in Int /\ n - 1 \in Int
    BY <1>1
  <2>2. IsFiniteSet(0..(n - 1)) /\ Cardinality(0..(n - 1)) = IF 0 > n - 1 THEN 0 ELSE (n - 1) - 0 + 1
    BY <2>1, FS_Interval
  <2> QED
    BY <1>1, <1>5, <2>2
<1>7. g \in Injection(S, T)
  <2>1. g \in [S -> T]
    BY <1>1, <1>2, <1>4, <1>5
  <2>2. ASSUME NEW x \in S, NEW y \in S, g[x] = g[y] PROVE x = y
    <3>1. rank(x) = rank(y) /\ rank(x) \in Nat
      BY <1>2, <1>4, <2>2
    <3>2. ~(rank(x) < rank(y)) /\ ~(rank(y) < rank(x))
      BY <3>1
    <3> QED
      BY <1>3, <3>2 DEF Orders
  <2> QED
    BY <2>1, <2>2 DEF Injection, IsInjective
<1>8. g \in Surjection(S, T)
  BY <1>6, <1>7, FS_Injection
<1>9. ASSUME NEW k \in 1..n PROVE \E x \in S : rank(x) = k - 1
  <2>1. k - 1 \in T
    BY <1>1, <1>5
  <2>2. \E x \in S : g[x] = k - 1
    BY <1>8, <2>1 DEF Surjection
  <2> QED
    BY <1>4, <2>2
<1>10. ASSUME NEW x \in S PROVE rank(x) \in 0..(n - 1)
  BY <1>1, <1>2
<1> QED
  BY <1>1, <1>3, <1>9, <1>10 DEF rank

LEMMA OneRank ==
  ASSUME NEW S, NEW R, IsFiniteSet(S), Orders(R, S), NEW x \in S, NEW y \in S,
         Cardinality(Below(R, S, x)) = Cardinality(Below(R, S, y))
  PROVE  x = y
<1> DEFINE rank(z) == Cardinality(Below(R, S, z))
<1>1. \A z \in S : rank(z) \in 0..(Cardinality(S) - 1)
  BY Ranked
<1>2. \A v, w \in S : <<v, w>> \in R => rank(v) < rank(w)
  BY Ranked
<1>3. rank(x) = rank(y) /\ Cardinality(S) \in Nat
  BY Ranked
<1> HIDE DEF rank
<1>4. ~(rank(x) < rank(y)) /\ ~(rank(y) < rank(x))
  BY <1>1, <1>3
<1> QED
  BY <1>2, <1>4 DEF Orders


\* Appending to nothing.
LEMMA NothingBefore == ASSUME NEW n \in Nat, NEW f, f = [i \in 1..n |-> f[i]] PROVE <<>> \o f = f
<1>1. PICK T : T = {f[i] : i \in 1..n}
  OBVIOUS
<1>2. f \in Seq(T) /\ Len(f) = n
  BY <1>1
<1>3. <<>> \in Seq(T) /\ Len(<<>>) = 0
  OBVIOUS
<1>4. PICK g : g = <<>> \o f
  OBVIOUS
<1>5. g \in Seq(T) /\ Len(g) = n /\ \A i \in 1..n : g[i] = f[i]
  BY <1>2, <1>3, <1>4
<1> QED
  BY <1>2, <1>4, <1>5

\* f lists the members of S once each, in the order of R.
Lists(f, R, S) ==
  /\ Listed(f) /\ Len(f) = Cardinality(S)
  /\ f \in Bijection(1..Len(f), S)
  /\ \A i, j \in 1..Len(f) : i < j => <<f[i], f[j]>> \in R

LEMMA ArrangedIs == ASSUME NEW S, NEW R, IsFiniteSet(S), Orders(R, S) PROVE Lists(Arranged(S, R), R, S)
<1> DEFINE rank(x) == Cardinality(Below(R, S, x))
<1>1. PICK n : n = Cardinality(S)
  OBVIOUS
<1>2. PICK g : g = [k \in 1..n |-> CHOOSE x \in S : Cardinality(Below(R, S, x)) = k - 1]
  OBVIOUS
<1>3. n \in Nat /\ \A k \in 1..n : \E x \in S : rank(x) = k - 1
  BY <1>1, Ranked
<1>4. \A x \in S : rank(x) \in 0..(n - 1)
  BY <1>1, Ranked
<1>5. \A x, y \in S : <<x, y>> \in R => rank(x) < rank(y)
  BY Ranked
<1>6. \A x, y \in S : rank(x) = rank(y) => x = y
  BY OneRank
<1>7. \A k \in 1..n : g[k] \in S /\ rank(g[k]) = k - 1
  BY <1>2, <1>3
<1>8. Arranged(S, R) = g
  <2>1. g = [k \in 1..n |-> g[k]]
    BY <1>2
  <2>2. <<>> \o g = g
    BY <1>3, <2>1, NothingBefore
  <2>3. Arranged(S, R) = <<>> \o g
    BY <1>1, <1>2 DEF Arranged, Below
  <2> QED
    BY <2>2, <2>3
<1>9. Listed(g) /\ Len(g) = n
  <2>1. g = [k \in 1..n |-> g[k]]
    BY <1>2
  <2> QED
    BY <1>3, <2>1, ListMade
<1> HIDE DEF rank
<1>10. g \in [1..n -> S] /\ \A i, j \in 1..n : g[i] = g[j] => i = j
  <2>1. \A i, j \in 1..n : i - 1 = j - 1 => i = j
    BY <1>3
  <2>2. g \in [1..n -> S]
    BY <1>2, <1>7
  <2> QED
    BY <1>7, <2>1, <2>2
<1>11. ASSUME NEW x \in S PROVE \E k \in 1..n : g[k] = x
  <2>1. PICK k : k = rank(x) + 1
    OBVIOUS
  <2>2. k \in 1..n /\ k - 1 = rank(x)
    BY <1>3, <1>4, <2>1
  <2>3. g[k] = x
    BY <1>6, <1>7, <2>2
  <2> QED
    BY <2>2, <2>3
<1>12. g \in Bijection(1..n, S)
  BY <1>10, <1>11 DEF Bijection, Injection, IsInjective, Surjection
<1>13. ASSUME NEW i \in 1..n, NEW j \in 1..n, i < j PROVE <<g[i], g[j]>> \in R
  <2>1. g[i] \in S /\ g[j] \in S /\ rank(g[i]) = i - 1 /\ rank(g[j]) = j - 1
    BY <1>7
  <2>2. ~(rank(g[j]) < rank(g[i])) /\ g[i] # g[j]
    BY <1>3, <1>13, <2>1
  <2> QED
    BY <1>5, <2>1, <2>2 DEF Orders
<1> QED
  BY <1>1, <1>8, <1>9, <1>12, <1>13 DEF Lists

\* Places in their own order.
LEMMA ThoseAre == ASSUME NEW seq, NEW n \in Nat, NEW S \in SUBSET (1..n)
  PROVE \E at : /\ Listed(at) /\ Len(at) = Cardinality(S) /\ at \in Bijection(1..Len(at), S)
                /\ \A i, j \in 1..Len(at) : i < j => at[i] < at[j]
                /\ Those(seq, S) = [k \in 1..Len(at) |-> seq[at[k]]]
                /\ Listed(Those(seq, S)) /\ Len(Those(seq, S)) = Len(at)
<1> DEFINE R == {pq \in S \X S : pq[1] < pq[2]}
<1>1. IsFiniteSet(S)
  <2>1. IsFiniteSet(1..n)
    BY FS_Interval
  <2> QED
    BY <2>1, FS_Subset
<1>2. \A p, q \in S : <<p, q>> \in R <=> p < q
  OBVIOUS
<1>3. Orders(R, S)
  <2>1. \A p \in S : p \in Int
    OBVIOUS
  <2> HIDE DEF R
  <2> QED
    BY <1>2, <2>1 DEF Orders
<1>4. PICK at : at = Arranged(S, R)
  OBVIOUS
<1>5. Lists(at, R, S)
  BY <1>1, <1>3, <1>4, ArrangedIs
<1>6. \A i \in 1..Len(at) : at[i] \in S
  BY <1>5 DEF Lists, Bijection, Injection
<1>7. DOMAIN at = 1..Len(at) /\ Len(at) \in Nat
  BY <1>5, Ranging DEF Lists, Listed
<1>8. Those(seq, S) = [k \in 1..Len(at) |-> seq[at[k]]]
  BY <1>4, <1>7 DEF Those
<1>9. Listed(Those(seq, S)) /\ Len(Those(seq, S)) = Len(at)
  <2>1. PICK f : f = Those(seq, S)
    OBVIOUS
  <2>2. f = [k \in 1..Len(at) |-> f[k]]
    BY <1>8, <2>1
  <2> QED
    BY <1>7, <2>1, <2>2, ListMade
<1>10. \A i, j \in 1..Len(at) : i < j => at[i] < at[j]
  BY <1>2, <1>5, <1>6 DEF Lists
<1> HIDE DEF R
<1> QED
  BY <1>5, <1>8, <1>9, <1>10 DEF Lists


-----------------------------------------------------------------------------
(* What a held result shows of its rows *)

Telling(r, rows, w) ==
  /\ w \in Worlds /\ Listed(rows) /\ r.rows = Len(rows)
  /\ Listed(r.columns)
  /\ \A i \in 1..Len(r.columns) :
       /\ CellList(ColumnOf(rows, i)) /\ Len(ColumnOf(rows, i)) = Len(rows)
       /\ Column(r, i) = TypedColumn(ColumnOf(rows, i))
  /\ \A n \in 1..Len(rows) : \A i \in 1..Len(r.columns) :
       /\ ColumnOf(rows, i)[n] = rows[n][i]
       /\ CellOf(r, n, i) = rows[n][i]
       /\ rows[n][i] \in CellsIn(w) /\ Whole(rows[n][i])

LEMMA LiveTells == ASSUME DataInv PROVE Telling(live, truth, world)
<1>1. world \in Worlds /\ BuiltOf(live, truth, CellsIn(world)) /\ AllWhole(CellsIn(world))
  BY WorldsAreWhole DEF DataInv, Keeping, Fits
<1> DEFINE n == Len(live.columns)
<1>2. Fitted(truth, n, CellsIn(world)) /\ live.rows = Len(truth) /\ Listed(truth) /\ Listed(live.columns)
  BY <1>1 DEF BuiltOf, Fitted, Columned
<1>3. DOMAIN live.columns = 1..n /\ \A i \in 1..n : Column(live, i) = TypedColumn(ColumnOf(truth, i))
  BY <1>1, StoredTyped DEF Column
<1>4. RowsOf(live) = truth
  BY <1>1, BuiltIsAsBuilt DEF AppendedAsBuilt
<1>5. ASSUME NEW k \in 1..Len(truth), NEW i \in 1..n
      PROVE CellOf(live, k, i) = truth[k][i] /\ truth[k][i] \in CellsIn(world) /\ Whole(truth[k][i])
  <2>1. truth[k] = [j \in DOMAIN live.columns |-> CellOf(live, k, j)]
    BY <1>2, <1>4 DEF RowsOf
  <2>2. truth[k][i] \in CellsIn(world)
    BY <1>2 DEF Fitted
  <2> QED
    BY <1>1, <1>3, <2>1, <2>2 DEF AllWhole
<1>6. ASSUME NEW i \in 1..n
      PROVE /\ CellList(ColumnOf(truth, i)) /\ Len(ColumnOf(truth, i)) = Len(truth)
            /\ \A k \in 1..Len(truth) : ColumnOf(truth, i)[k] = truth[k][i]
  BY <1>1, <1>2, ColumnListed
<1> QED
  BY <1>1, <1>2, <1>3, <1>5, <1>6 DEF Telling

\* What a column of one type has for a row.
LEMMA ValuesTell == ASSUME NEW r, NEW rows, NEW w, Telling(r, rows, w), NEW i \in 1..Len(r.columns)
  PROVE /\ Column(r, i).dtype \in Natives \cup {"Null", "Object"}
        /\ DOMAIN Column(r, i).values = 1..Len(rows) /\ Listed(Column(r, i).values) /\ Len(Column(r, i).values) = Len(rows)
        /\ \A n \in 1..Len(rows) : CellAt(Column(r, i), n) = rows[n][i]
        /\ Column(r, i).dtype \in Natives =>
             \A n \in 1..Len(rows) :
               /\ Column(r, i).values[n] = Bare(rows[n][i])
               /\ IsNull(rows[n][i]) <=> Column(r, i).values[n] = Nothing
               /\ ~IsNull(rows[n][i]) => rows[n][i] = Cell(NativeKinds[Column(r, i).dtype], Column(r, i).values[n])
        /\ Column(r, i).dtype = "Null" => \A n \in 1..Len(rows) : IsNull(rows[n][i])
<1>1. PICK cells : cells = ColumnOf(rows, i)
  OBVIOUS
<1>2. PICK column : column = Column(r, i)
  OBVIOUS
<1>3. PICK n \in Nat : n = Len(rows)
  BY DEF Telling, Listed
<1>4. CellList(cells) /\ Len(cells) = n /\ column = TypedColumn(cells) /\ \A k \in 1..n : cells[k] = rows[k][i]
  BY <1>1, <1>2, <1>3 DEF Telling
<1>5. \A k \in 1..n : Whole(cells[k]) /\ CellAt(column, k) = cells[k]
  BY <1>4, Lossless DEF CellList
<1>6. \A k \in 1..n : TypeOf(cells[k]) \in TypesIn(cells) \cup {"Null"}
  BY <1>4 DEF TypesIn
<1>7. DOMAIN cells = 1..n /\ Listed(cells)
  BY <1>4, Ranging DEF CellList
<1>8. Listed(Bares(cells)) /\ Len(Bares(cells)) = n
  <2>1. PICK f : f = Bares(cells)
    OBVIOUS
  <2>2. f = [k \in 1..n |-> f[k]]
    BY <1>4, <2>1 DEF Bares
  <2> QED
    BY <2>1, <2>2, ListMade
<1>9. CASE TypesIn(cells) = {} /\ column = [dtype |-> "Null", values |-> Bares(cells)]
  <2>1. \A k \in 1..n : IsNull(cells[k])
    BY <1>5, <1>6, <1>9, TypeIs
  <2>2. column.dtype = "Null" /\ column.values = Bares(cells) /\ "Null" \notin Natives
    BY <1>9 DEF Natives
  <2> QED
    BY <1>2, <1>3, <1>4, <1>5, <1>8, <2>1, <2>2 DEF Bares
<1>10. ASSUME NEW t \in Natives, TypesIn(cells) = {t}, column = [dtype |-> t, values |-> Bares(cells)]
       PROVE /\ column.dtype \in Natives
             /\ DOMAIN column.values = 1..n /\ Listed(column.values) /\ Len(column.values) = n
             /\ \A k \in 1..n :
                  /\ column.values[k] = Bare(cells[k])
                  /\ IsNull(cells[k]) <=> column.values[k] = Nothing
                  /\ ~IsNull(cells[k]) => cells[k] = Cell(NativeKinds[column.dtype], column.values[k])
  <2>1. column.dtype = t /\ column.values = Bares(cells)
    BY <1>10
  <2>2. DOMAIN column.values = 1..n /\ Listed(column.values) /\ Len(column.values) = n
    BY <1>4, <1>8, <2>1 DEF Bares
  <2>3. \A k \in 1..n : column.values[k] = Bare(cells[k])
    BY <1>4, <2>1 DEF Bares
  <2>4. ASSUME NEW k \in 1..n
        PROVE /\ IsNull(cells[k]) <=> Bare(cells[k]) = Nothing
              /\ ~IsNull(cells[k]) => cells[k] = Cell(NativeKinds[t], Bare(cells[k]))
    <3>1. Whole(cells[k]) /\ TypeOf(cells[k]) \in {t, "Null"}
      BY <1>5, <1>6, <1>10
    <3>2. TypeOf(cells[k]) = "Null" <=> IsNull(cells[k])
      BY <3>1, TypeIs
    <3>3. TypeOf(cells[k]) \in Natives => cells[k] = Cell(NativeKinds[TypeOf(cells[k])], Bare(cells[k])) /\ Bare(cells[k]) # Nothing
      BY <3>1, TypeIs
    <3>4. IsNull(cells[k]) => Bare(cells[k]) = Nothing
      BY DEF Bare
    <3> QED
      BY <3>1, <3>2, <3>3, <3>4
  <2> QED
    BY <2>1, <2>2, <2>3, <2>4
<1>11. CASE column = [dtype |-> "Object", values |-> cells]
  <2>1. column.dtype = "Object" /\ column.values = cells /\ "Object" \notin Natives
    BY <1>11 DEF Natives
  <2> QED
    BY <1>2, <1>3, <1>4, <1>5, <1>7, <2>1
<1>12. CASE \E t \in Natives : TypesIn(cells) = {t} /\ column = [dtype |-> t, values |-> Bares(cells)]
  <2>1. /\ column.dtype \in Natives
        /\ DOMAIN column.values = 1..n /\ Listed(column.values) /\ Len(column.values) = n
        /\ \A k \in 1..n :
             /\ column.values[k] = Bare(cells[k])
             /\ IsNull(cells[k]) <=> column.values[k] = Nothing
             /\ ~IsNull(cells[k]) => cells[k] = Cell(NativeKinds[column.dtype], column.values[k])
    BY <1>10, <1>12
  <2>2. "Null" \notin Natives
    BY DEF Natives
  <2> QED
    BY <1>2, <1>3, <1>4, <1>5, <2>1, <2>2
<1>13. \/ TypesIn(cells) = {} /\ column = [dtype |-> "Null", values |-> Bares(cells)]
       \/ \E t \in Natives : TypesIn(cells) = {t} /\ column = [dtype |-> t, values |-> Bares(cells)]
       \/ column = [dtype |-> "Object", values |-> cells]
  BY <1>4, TypedIs
<1> QED
  BY <1>9, <1>11, <1>12, <1>13

-----------------------------------------------------------------------------
(* The grid *)

\* A page has the form of the cell, whatever column holds it.
LEMMA PageTells == ASSUME NEW r, NEW rows, NEW w, Telling(r, rows, w), NEW i \in 1..Len(r.columns), NEW n \in 1..Len(rows)
  PROVE PageValue(Column(r, i), n) = Wire(rows[n][i])
<1>1. PICK column, cell, value : column = Column(r, i) /\ cell = rows[n][i] /\ value = column.values[n]
  OBVIOUS
<1>2. column.dtype \in Natives \cup {"Null", "Object"} /\ CellAt(column, n) = cell
  BY <1>1, ValuesTell
<1>3. Whole(cell)
  BY <1>1 DEF Telling
<1>4. CASE column.dtype \in {"Object", "Binary", "Null"}
  BY <1>1, <1>2, <1>4 DEF PageValue
<1>5. CASE column.dtype \in Natives \ {"Binary"}
  <2>1. /\ IsNull(cell) <=> value = Nothing
        /\ ~IsNull(cell) => cell = Cell(NativeKinds[column.dtype], value)
    BY <1>1, <1>5, ValuesTell
  <2>2. column.dtype \in {"Boolean", "Int64", "Float64", "String"}
    BY <1>5 DEF Natives
  <2>3. CASE value = Nothing
    BY <1>1, <2>1, <2>2, <2>3 DEF PageValue, Wire, IsNull
  <2>4. CASE value # Nothing
    <3>1. ~IsNull(cell) /\ cell.kind = NativeKinds[column.dtype] /\ cell.val = value
      BY <2>1, <2>4 DEF Cell
    <3>2. CASE column.dtype = "String"
      <4>1. cell.kind = "text"
        BY <3>1, <3>2 DEF NativeKinds
      <4>2. Text(cell) = value
        BY <3>1, <4>1 DEF Text
      <4> QED
        BY <1>1, <2>4, <3>1, <3>2, <4>1, <4>2 DEF PageValue, Wire, Display
    <3>3. CASE column.dtype = "Float64"
      <4>1. cell.kind = "float"
        BY <3>1, <3>3 DEF NativeKinds
      <4>2. CASE value = NaN
        <5>1. Text(cell) = NanText /\ Display(cell) = NanText
          BY <3>1, <4>1, <4>2 DEF Text, Display, Escape, NanText, Lines
        <5> QED
          BY <1>1, <2>4, <3>1, <3>3, <4>1, <4>2, <5>1 DEF PageValue, Wire
      <4>3. CASE value # NaN
        BY <1>1, <2>4, <3>1, <3>3, <4>1, <4>3 DEF PageValue, Wire, NativeKinds
      <4> QED
        BY <4>2, <4>3
    <3>4. CASE column.dtype \in {"Boolean", "Int64"}
      <4>1. cell.kind \in {"bool", "int"}
        BY <3>1, <3>4 DEF NativeKinds
      <4> QED
        BY <1>1, <2>4, <3>1, <3>4, <4>1 DEF PageValue, Wire
    <3> QED
      BY <2>2, <3>2, <3>3, <3>4
  <2> QED
    BY <2>3, <2>4
<1> QED
  BY <1>2, <1>4, <1>5 DEF Natives

\* Rows of the result, listed.
Picked(rows, n) == Listed(rows) /\ \A k \in 1..Len(rows) : rows[k] \in 1..n


-----------------------------------------------------------------------------
(* CSV *)

\* Rows of the result next to each other are where they are counted to be.
LEMMA RunOfRows == ASSUME NEW rows, NEW n \in Nat, Picked(rows, n), \A k \in 2..Len(rows) : rows[k] = rows[k - 1] + 1
  PROVE \A k \in 1..Len(rows) : rows[k] = rows[1] + k - 1
<1>1. PICK m \in Nat : m = Len(rows)
  BY DEF Picked, Listed
<1>2. \A k \in 1..m : rows[k] \in Int
  BY <1>1 DEF Picked
<1>3. CASE m = 0
  BY <1>1, <1>3
<1>4. CASE m > 0
  <2> DEFINE S == {k \in 0..(m - 1) : rows[k + 1] = rows[1] + k}
  <2>1. 0 \in S
    BY <1>2, <1>4
  <2>2. ASSUME NEW k \in 0..((m - 1) - 1), k \in S PROVE k + 1 \in S
    <3>1. k + 2 \in 2..m /\ (k + 2) - 1 = k + 1 /\ (k + 1) + 1 = k + 2 /\ k + 1 \in 0..(m - 1)
      BY <1>1, <1>4
    <3>2. rows[k + 2] = rows[k + 1] + 1
      BY <1>1, <3>1
    <3>3. rows[1] \in Int
      BY <1>2, <1>4
    <3> QED
      BY <2>2, <3>1, <3>2, <3>3
  <2>3. m - 1 \in Nat /\ \A k \in 0..((m - 1) - 1) : k \in S => k + 1 \in S
    BY <1>1, <1>4, <2>2
  <2> HIDE DEF S
  <2>4. 0..(m - 1) \subseteq S
    BY <2>1, <2>3, Steps
  <2> USE DEF S
  <2>5. ASSUME NEW k \in 1..m PROVE rows[k] = rows[1] + k - 1
    <3>1. k - 1 \in S /\ (k - 1) + 1 = k
      BY <1>1, <2>4, <2>5
    <3>2. rows[1] \in Int
      BY <1>2, <1>4
    <3> QED
      BY <3>1, <3>2
  <2> QED
    BY <1>1, <2>5
<1> QED
  BY <1>1, <1>3, <1>4

\* A part of a list.
LEMMA PartOf == ASSUME NEW s, Listed(s), NEW m \in 1..(Len(s) + 1), NEW n \in Nat, m <= n + 1, n <= Len(s)
  PROVE /\ Listed(SubSeq(s, m, n)) /\ Len(SubSeq(s, m, n)) = n - m + 1
        /\ \A k \in 1..(n - m + 1) : SubSeq(s, m, n)[k] = s[m + k - 1]
<1>1. PICK T : T = {s[i] : i \in 1..Len(s)}
  OBVIOUS
<1>2. Len(s) \in Nat /\ s \in Seq(T)
  BY <1>1 DEF Listed
<1>3. PICK g : g = SubSeq(s, m, n)
  OBVIOUS
<1>4. g \in Seq(T) /\ Len(g) = n - m + 1 /\ \A k \in 1..(n - m + 1) : g[k] = s[m + k - 1]
  BY <1>2, <1>3
<1>5. Listed(g)
  BY <1>4 DEF Listed
<1> QED
  BY <1>3, <1>4, <1>5

\* What is sliced out, or gathered, are the values of the rows.
LEMMA GatheredAre == ASSUME NEW column, NEW n \in Nat, NEW rows, Listed(column.values), Len(column.values) = n, Picked(rows, n)
  PROVE \A k \in 1..Len(rows) : Gathered(column, rows)[k] = column.values[rows[k]]
<1>1. PICK m \in Nat : m = Len(rows)
  BY DEF Picked, Listed
<1>2. DOMAIN rows = 1..m /\ \A k \in 1..m : rows[k] \in 1..n
  BY <1>1, Ranging DEF Picked
<1>3. CASE m = 0
  BY <1>1, <1>3
<1>4. CASE m > 0 /\ \A k \in DOMAIN rows \ {1} : rows[k] = rows[k - 1] + 1
  <2>1. \A k \in 2..m : rows[k] = rows[k - 1] + 1
    BY <1>1, <1>2, <1>4
  <2>2. \A k \in 1..m : rows[k] = rows[1] + k - 1
    BY <1>1, <2>1, RunOfRows
  <2>3. rows[1] \in 1..n /\ rows[m] = rows[1] + m - 1 /\ rows[m] \in 1..n
    BY <1>1, <1>2, <1>4, <2>2
  <2>4. rows # <<>>
    BY <1>1, <1>4, NothingListed
  <2>5. Gathered(column, rows) = SubSeq(column.values, rows[1], rows[1] + m - 1)
    BY <1>1, <1>4, <2>4 DEF Gathered
  <2>6. PICK values, from, to : values = column.values /\ from = rows[1] /\ to = rows[1] + m - 1
    OBVIOUS
  <2>7. Listed(values) /\ Len(values) = n /\ from \in 1..(n + 1) /\ to \in Nat /\ from <= to + 1 /\ to <= n /\ to - from + 1 = m
    BY <1>1, <1>4, <2>3, <2>6
  <2>8. \A k \in 1..m : SubSeq(values, from, to)[k] = values[from + k - 1]
    BY <2>7, PartOf
  <2> QED
    BY <1>1, <2>2, <2>5, <2>6, <2>8
<1>5. CASE m > 0 /\ ~\A k \in DOMAIN rows \ {1} : rows[k] = rows[k - 1] + 1
  BY <1>1, <1>2, <1>5 DEF Gathered
<1> QED
  BY <1>1, <1>3, <1>4, <1>5

\* Every field is that of its cell.
LEMMA FieldsTell == ASSUME NEW r, NEW rows, NEW w, Telling(r, rows, w), NEW i \in 1..Len(r.columns), NEW picked,
    Picked(picked, Len(rows)), NEW alone \in BOOLEAN, NEW n \in 1..Len(picked)
  PROVE CsvColumn(r, i, picked, alone)[n] =
          IF ~IsNull(rows[picked[n]][i]) THEN Field(Text(rows[picked[n]][i])) ELSE IF alone THEN Field(EmptyText) ELSE Absent
<1>1. PICK column, cell, row : column = Column(r, i) /\ row = picked[n] /\ cell = rows[row][i]
  OBVIOUS
<1>2. row \in 1..Len(rows) /\ Len(rows) \in Nat /\ r.rows = Len(rows) /\ DOMAIN picked = 1..Len(picked)
  BY <1>1, Ranging DEF Picked, Telling, Listed
<1>3. CellAt(column, row) = cell /\ Whole(cell)
  <2>1. CellAt(column, row) = cell
    BY <1>1, <1>2, ValuesTell
  <2> QED
    BY <1>1, <1>2, <2>1 DEF Telling
<1>4. Listed(column.values) /\ Len(column.values) = Len(rows)
  BY <1>1, ValuesTell
<1>5. Gathered(column, picked)[n] = column.values[row]
  BY <1>1, <1>2, <1>4, GatheredAre
<1> DEFINE native == column.dtype \in {"Boolean", "Int64", "String"} /\ (~alone \/ ~\E k \in 1..r.rows : IsNull(CellAt(column, k)))
           field == IF ~IsNull(cell) THEN Field(Text(cell)) ELSE IF alone THEN Field(EmptyText) ELSE Absent
           typed == Gathered(column, picked)[n]
<1>6. CsvColumn(r, i, picked, alone)[n] =
        IF native THEN IF typed = Nothing THEN Absent ELSE Field(Text(Cell(NativeKinds[column.dtype], typed))) ELSE field
  BY <1>1, <1>2, <1>3 DEF CsvColumn
<1>7. CASE ~native
  BY <1>1, <1>6, <1>7
<1>8. CASE native
  <2>1. column.dtype \in Natives
    BY <1>8 DEF Natives
  <2>2. /\ IsNull(cell) <=> typed = Nothing
        /\ ~IsNull(cell) => cell = Cell(NativeKinds[column.dtype], typed)
    BY <1>1, <1>2, <1>5, <2>1, ValuesTell
  <2>3. IsNull(cell) => ~alone
    BY <1>2, <1>3, <1>8
  <2> HIDE DEF native, typed
  <2>4. CsvColumn(r, i, picked, alone)[n] = field
    BY <1>6, <1>8, <2>2, <2>3
  <2> QED
    BY <1>1, <2>4
<1> QED
  BY <1>7, <1>8


-----------------------------------------------------------------------------
(* Files, the clipboard and statements *)

\* Rows and columns that are asked for, and the cells that were pushed there.
PushedOf(rows, picked, columns) == [n \in DOMAIN picked |-> [k \in DOMAIN columns |-> rows[picked[n]][columns[k]]]]

\* Every line of a CSV file has the fields of its cells.
LEMMA LinesTell == ASSUME NEW r, NEW rows, NEW w, Telling(r, rows, w), NEW picked, Picked(picked, Len(rows)),
    NEW columns, Picked(columns, Len(r.columns))
  PROVE CsvRight(PushedOf(rows, picked, columns), Csv(r, picked, columns))
<1>1. PICK cells : cells = PushedOf(rows, picked, columns)
  OBVIOUS
<1>2. PICK m, q : m = Len(picked) /\ q = Len(columns)
  OBVIOUS
<1>3. m \in Nat /\ q \in Nat /\ DOMAIN picked = 1..m /\ DOMAIN columns = 1..q
  BY <1>2, Ranging DEF Picked, Listed
<1>4. cells = [n \in 1..m |-> cells[n]] /\ \A n \in 1..m : cells[n] = [k \in 1..q |-> rows[picked[n]][columns[k]]]
  BY <1>1, <1>3 DEF PushedOf
<1>5. Len(cells) = m /\ DOMAIN cells = 1..m
  BY <1>3, <1>4, ListMade
<1>6. ASSUME NEW n \in 1..m PROVE Len(cells[n]) = q /\ DOMAIN cells[n] = 1..q
  <2>1. PICK line : line = cells[n]
    OBVIOUS
  <2>2. line = [k \in 1..q |-> line[k]]
    BY <1>4, <2>1
  <2> QED
    BY <1>3, <2>1, <2>2, ListMade
<1>7. PICK lines : lines = Csv(r, picked, columns)
  OBVIOUS
<1>8. lines = [n \in 1..m |-> [k \in 1..q |-> CsvColumn(r, columns[k], picked, q = 1)[n]]]
  BY <1>2, <1>3, <1>7 DEF Csv
<1>9. Len(lines) = m
  <2>1. lines = [n \in 1..m |-> lines[n]]
    BY <1>8
  <2> QED
    BY <1>3, <2>1, ListMade
<1>10. ASSUME NEW n \in 1..m, NEW k \in 1..q
       PROVE lines[n][k] = IF ~IsNull(cells[n][k]) THEN Field(Text(cells[n][k]))
                           ELSE IF Len(cells[n]) = 1 THEN Field(EmptyText) ELSE Absent
  <2>1. columns[k] \in 1..Len(r.columns) /\ (q = 1) \in BOOLEAN /\ n \in 1..Len(picked)
    BY <1>2 DEF Picked
  <2>2. cells[n][k] = rows[picked[n]][columns[k]] /\ Len(cells[n]) = q
    BY <1>4, <1>6
  <2>3. PICK i, alone : i = columns[k] /\ alone = (q = 1)
    OBVIOUS
  <2>4. CsvColumn(r, i, picked, alone)[n] =
          IF ~IsNull(rows[picked[n]][i]) THEN Field(Text(rows[picked[n]][i])) ELSE IF alone THEN Field(EmptyText) ELSE Absent
    <3>1. alone \in BOOLEAN /\ i \in 1..Len(r.columns)
      BY <2>1, <2>3
    <3> QED
      BY <2>1, <3>1, FieldsTell
  <2>5. lines[n][k] = CsvColumn(r, i, picked, alone)[n]
    BY <1>8, <2>3
  <2> QED
    BY <2>2, <2>3, <2>4, <2>5
<1> QED
  BY <1>1, <1>5, <1>6, <1>7, <1>9, <1>10 DEF CsvRight

\* An object has the value of the one column of a name.
LEMMA ObjectsTell == ASSUME NEW r, NEW rows, NEW w, Telling(r, rows, w), NEW picked, Picked(picked, Len(rows)),
    NEW columns, Picked(columns, Len(r.columns))
  PROVE JsonRight(PushedOf(rows, picked, columns), [k \in DOMAIN columns |-> r.columns[columns[k]].name],
                  Json(r, picked, columns))
<1>1. PICK cells : cells = PushedOf(rows, picked, columns)
  OBVIOUS
<1>2. PICK m, q : m = Len(picked) /\ q = Len(columns)
  OBVIOUS
<1>3. m \in Nat /\ q \in Nat /\ DOMAIN picked = 1..m /\ DOMAIN columns = 1..q /\ ToSet(columns) = {columns[k] : k \in 1..q}
  BY <1>2, Ranging DEF Picked, Listed
<1>4. cells = [n \in 1..m |-> cells[n]] /\ \A n \in 1..m : cells[n] = [k \in 1..q |-> rows[picked[n]][columns[k]]]
  BY <1>1, <1>3 DEF PushedOf
<1>5. Len(cells) = m /\ DOMAIN cells = 1..m
  BY <1>3, <1>4, ListMade
<1>6. PICK names : names = [k \in DOMAIN columns |-> r.columns[columns[k]].name]
  OBVIOUS
<1>7. DOMAIN names = 1..q /\ \A k \in 1..q : names[k] = r.columns[columns[k]].name
  BY <1>3, <1>6
<1> DEFINE IsLast(name, i) == /\ r.columns[i].name = name
                              /\ \A k \in DOMAIN columns : r.columns[columns[k]].name = name =>
                                   \E j \in k..Len(columns) : columns[j] = i
           last(name) == CHOOSE i \in ToSet(columns) : IsLast(name, i)
<1>8. PICK objects : objects = Json(r, picked, columns)
  OBVIOUS
<1>9. objects = [n \in 1..m |-> [name \in {r.columns[i].name : i \in ToSet(columns)} |->
                                   JsonValue(CellOf(r, picked[n], last(name)))]]
  BY <1>3, <1>8 DEF Json
<1>10. Len(objects) = m
  <2>1. objects = [n \in 1..m |-> objects[n]]
    BY <1>9
  <2> QED
    BY <1>3, <2>1, ListMade
<1>11. ASSUME NEW n \in 1..m, NEW k \in 1..q, \A j \in (1..q) \ {k} : names[j] # names[k]
       PROVE objects[n][names[k]] = JsonValue(cells[n][k])
  <2>1. columns[k] \in ToSet(columns) /\ IsLast(names[k], columns[k])
    BY <1>2, <1>3, <1>7, <1>11
  <2>2. ASSUME NEW i \in ToSet(columns), IsLast(names[k], i) PROVE i = columns[k]
    <3>1. PICK j \in 1..q : i = columns[j]
      BY <1>3
    <3>2. names[j] = names[k]
      BY <1>7, <2>2, <3>1
    <3> QED
      BY <1>11, <3>1, <3>2
  <2>3. last(names[k]) = columns[k]
    BY <2>1, <2>2
  <2>4. names[k] \in {r.columns[i].name : i \in ToSet(columns)}
    BY <1>7, <2>1
  <2> HIDE DEF last
  <2>5. objects[n][names[k]] = JsonValue(CellOf(r, picked[n], columns[k]))
    BY <1>9, <2>3, <2>4
  <2>6. picked[n] \in 1..Len(rows) /\ columns[k] \in 1..Len(r.columns)
    BY <1>2 DEF Picked
  <2>7. CellOf(r, picked[n], columns[k]) = rows[picked[n]][columns[k]]
    BY <2>6 DEF Telling
  <2> QED
    BY <1>4, <2>5, <2>7
<1>12. \A n \in 1..m : DOMAIN cells[n] = 1..q
  BY <1>4
<1>13. JsonRight(cells, names, objects)
  BY <1>5, <1>7, <1>10, <1>11 DEF JsonRight
<1> QED
  BY <1>1, <1>6, <1>8, <1>13

\* A literal is read as what its cell says.
LEMMA LiteralTells == ASSUME NEW dialect \in Dialects, NEW w \in Worlds, NEW cell \in CellsIn(w)
  PROVE ReadLiteral(dialect, Literal(dialect, cell)) = Meant(cell)
<1>1. Whole(cell) /\ (~IsNull(cell) => Text(cell) # PathTwice) /\ dialect # "clickhouse"
  BY CellsWhole, CellsReadable, DialectsQuoted
<1>2. CASE cell.kind \in {"null", "bool", "int", "decimal", "bytes"} \/ (cell.kind = "float" /\ cell.val # NaN)
  <2>1. Meant(cell) = cell.val
    BY <1>2 DEF Meant
  <2>2. cell.kind = "null" => cell.val = 0
    BY <1>1 DEF Whole, Scalar, IsNull, NullCell, Cell
  <2>3. CASE cell.kind = "null"
    BY <2>1, <2>2, <2>3 DEF Literal, ReadLiteral, Coded
  <2>4. CASE cell.kind \in {"bool", "int", "decimal", "bytes"}
    BY <2>1, <2>4 DEF Literal, ReadLiteral, Coded
  <2>5. CASE cell.kind = "float" /\ cell.val # NaN
    BY <2>1, <2>5 DEF Literal, ReadLiteral, Coded
  <2> QED
    BY <1>2, <2>3, <2>4, <2>5
<1>3. CASE ~(cell.kind \in {"null", "bool", "int", "decimal", "bytes"} \/ (cell.kind = "float" /\ cell.val # NaN))
  <2>1. Meant(cell) = Text(cell)
    BY <1>3 DEF Meant
  <2>2. Literal(dialect, cell) = Coded("string", QuoteText(dialect, Text(cell)))
    BY <1>3 DEF Literal
  <2>3. ReadLiteral(dialect, Literal(dialect, cell)) = ReadQuoted(dialect, QuoteText(dialect, Text(cell)))
    <3>1. PICK text, literal : text = QuoteText(dialect, Text(cell)) /\ literal = Literal(dialect, cell)
      OBVIOUS
    <3>2. literal = Coded("string", text)
      BY <2>2, <3>1
    <3>3. literal.form = "string" /\ literal.val = text
      BY <3>2 DEF Coded
    <3> QED
      BY <3>1, <3>3 DEF ReadLiteral
  <2>4. Text(cell) # PathTwice
    BY <1>1, <1>3 DEF IsNull
  <2>5. CASE dialect = "mysql" /\ Text(cell) = Path
    BY <2>1, <2>3, <2>5 DEF QuoteText, ReadQuoted, Path, PathTwice
  <2>6. CASE dialect = "mysql" /\ Text(cell) # Path
    BY <2>1, <2>3, <2>4, <2>6 DEF QuoteText, ReadQuoted
  <2>7. CASE dialect # "mysql"
    BY <1>1, <2>1, <2>3, <2>7 DEF QuoteText, ReadQuoted
  <2> QED
    BY <2>5, <2>6, <2>7
<1> QED
  BY <1>2, <1>3


\* Lists put together, one after the other.
Joining(f, seqs) == /\ f[1] = seqs[1] /\ FlattenSeq(seqs) = f[Len(seqs)]
                    /\ \A k \in 2..Len(seqs) : f[k] = f[k - 1] \o seqs[k]
LEMMA Joins == ASSUME NEW seqs, Len(seqs) \in Nat, Len(seqs) # 0 PROVE \E f : Joining(f, seqs)
<1> DEFINE Both(s, t) == s \o t
           Def(f, m) == f = [i \in 1..m |-> IF i = 1 THEN seqs[i] ELSE Both(f[i - 1], seqs[i])]
           S == {m \in Nat : \E f : Def(f, m)}
<1>1. PICK n \in Nat : n = Len(seqs)
  OBVIOUS
<1>2. FlattenSeq(seqs) = (CHOOSE f : Def(f, n))[n]
  BY <1>1 DEF FlattenSeq
<1> HIDE DEF Both
<1>3. 0 \in S
  <2> DEFINE g == [i \in 1..0 |-> seqs[i]]
  <2>1. Def(g, 0)
    OBVIOUS
  <2> QED
    BY <2>1
<1>4. ASSUME NEW k \in 0..(n - 1), k \in S PROVE k + 1 \in S
  <2>1. PICK f : Def(f, k)
    BY <1>4
  <2> DEFINE g == [i \in 1..(k + 1) |-> IF i = k + 1 THEN IF i = 1 THEN seqs[i] ELSE Both(f[k], seqs[i]) ELSE f[i]]
  <2>2. Def(g, k + 1) /\ k + 1 \in Nat
    BY <2>1
  <2> HIDE DEF Def, g
  <2> QED
    BY <2>2
<1>5. \E f : Def(f, n)
  <2>0. \A k \in 0..(n - 1) : k \in S => k + 1 \in S
    BY <1>4
  <2> HIDE DEF S
  <2>1. n \in S
    BY <1>3, <2>0, Steps
  <2> QED
    BY <2>1 DEF S
<1>6. PICK f : f = (CHOOSE g : Def(g, n))
  OBVIOUS
<1>7. Def(f, n)
  BY <1>5, <1>6
<1>8. f[1] = seqs[1] /\ \A k \in 2..n : f[k] = f[k - 1] \o seqs[k]
  <2>1. n # 0
    BY <1>1
  <2>2. f[1] = seqs[1] /\ \A k \in 2..n : f[k] = Both(f[k - 1], seqs[k])
    BY <1>7, <2>1
  <2> QED
    BY <2>2 DEF Both
<1>9. FlattenSeq(seqs) = f[n]
  BY <1>2, <1>6
<1> HIDE DEF Def
<1> QED
  BY <1>1, <1>8, <1>9 DEF Joining

\* One list after another.
LEMMA TwoJoined == ASSUME NEW s, NEW t, Listed(s), Listed(t)
  PROVE /\ Listed(s \o t) /\ Len(s \o t) = Len(s) + Len(t)
        /\ \A k \in 1..Len(s) : (s \o t)[k] = s[k]
        /\ \A k \in 1..Len(t) : (s \o t)[Len(s) + k] = t[k]
<1>1. PICK T : T = {s[i] : i \in 1..Len(s)} \cup {t[i] : i \in 1..Len(t)}
  OBVIOUS
<1>2. s \in Seq(T) /\ t \in Seq(T)
  BY <1>1 DEF Listed
<1>3. PICK g : g = s \o t
  OBVIOUS
<1>4. /\ g \in Seq(T) /\ Len(g) = Len(s) + Len(t)
      /\ \A k \in 1..Len(s) : g[k] = s[k]
      /\ \A k \in 1..Len(t) : g[Len(s) + k] = t[k]
  BY <1>2, <1>3
<1>5. Listed(g)
  BY <1>4 DEF Listed
<1> QED
  BY <1>3, <1>4, <1>5

\* Pieces of a list of n: the k-th begins behind at[k] and ends where the next begins.
Pieces(seqs, at, n) ==
  /\ Listed(seqs) /\ Len(seqs) # 0 /\ at[1] = 0 /\ at[Len(seqs) + 1] = n
  /\ \A k \in 1..(Len(seqs) + 1) : at[k] \in Nat
  /\ \A k \in 1..Len(seqs) : Listed(seqs[k]) /\ Len(seqs[k]) = at[k + 1] - at[k]

LEMMA PiecesJoined == ASSUME NEW seqs, NEW at, NEW n \in Nat, Pieces(seqs, at, n), NEW all,
    \A k \in 1..Len(seqs) : \A i \in 1..(at[k + 1] - at[k]) : seqs[k][i] = all[at[k] + i]
  PROVE /\ Listed(FlattenSeq(seqs)) /\ Len(FlattenSeq(seqs)) = n
        /\ \A i \in 1..n : FlattenSeq(seqs)[i] = all[i]
<1>1. PICK m \in Nat : m = Len(seqs) /\ m # 0
  BY DEF Pieces, Listed
<1>2. PICK f : Joining(f, seqs)
  BY <1>1, Joins
<1> DEFINE Good(k) == Listed(f[k]) /\ Len(f[k]) = at[k + 1] /\ \A i \in 1..at[k + 1] : f[k][i] = all[i]
           S == {k \in 0..(m - 1) : Good(k + 1)}
<1>3. \A k \in 1..m : at[k] \in Nat /\ at[k + 1] \in Nat /\ Listed(seqs[k]) /\ Len(seqs[k]) = at[k + 1] - at[k] /\ Len(seqs[k]) \in Nat
  BY <1>1 DEF Pieces, Listed
<1>4. 0 \in S
  <2>1. f[1] = seqs[1] /\ at[1] = 0 /\ 1 \in 1..m /\ at[1 + 1] - at[1] = at[1 + 1]
    BY <1>1, <1>2, <1>3 DEF Joining, Pieces
  <2>2. \A i \in 1..at[1 + 1] : seqs[1][i] = all[i]
    <3> SUFFICES ASSUME NEW i \in 1..at[1 + 1] PROVE seqs[1][i] = all[i]
      OBVIOUS
    <3>1. seqs[1][i] = all[at[1] + i]
      BY <1>1, <2>1
    <3>2. at[1] + i = i
      BY <1>3, <2>1
    <3> QED
      BY <3>1, <3>2
  <2>3. Good(1)
    BY <1>3, <2>1, <2>2
  <2> HIDE DEF Good
  <2> QED
    BY <1>1, <2>3
<1>5. ASSUME NEW k \in 0..((m - 1) - 1), k \in S PROVE k + 1 \in S
  <2>0. PICK j : j = k + 1
    OBVIOUS
  <2>1. j \in 1..m /\ j + 1 \in 1..m /\ (j + 1) - 1 = j /\ j + 1 \in 2..m /\ k + 1 \in 0..(m - 1)
    BY <1>1, <2>0
  <2>2. Good(j)
    BY <1>5, <2>0
  <2>3. f[j + 1] = f[j] \o seqs[j + 1]
    BY <1>1, <1>2, <2>1 DEF Joining
  <2>4. PICK g, s, t : g = f[j + 1] /\ s = f[j] /\ t = seqs[j + 1]
    OBVIOUS
  <2>5. PICK a, b : a = at[j + 1] /\ b = at[(j + 1) + 1]
    OBVIOUS
  <2>6. /\ a \in Nat /\ b \in Nat /\ Listed(s) /\ Len(s) = a /\ Listed(t) /\ Len(t) = b - a /\ b - a \in Nat
        /\ \A i \in 1..a : s[i] = all[i]
    BY <1>3, <2>1, <2>2, <2>4, <2>5
  <2>7. \A i \in 1..(b - a) : t[i] = all[a + i]
    BY <1>1, <2>1, <2>4, <2>5
  <2>8. /\ Listed(g) /\ Len(g) = a + (b - a)
        /\ \A i \in 1..a : g[i] = s[i]
        /\ \A i \in 1..(b - a) : g[a + i] = t[i]
    <3>1. /\ Listed(s \o t) /\ Len(s \o t) = Len(s) + Len(t)
          /\ \A i \in 1..Len(s) : (s \o t)[i] = s[i]
          /\ \A i \in 1..Len(t) : (s \o t)[Len(s) + i] = t[i]
      BY <2>6, TwoJoined
    <3>2. g = s \o t
      BY <2>3, <2>4
    <3> QED
      BY <2>6, <3>1, <3>2
  <2>9. ASSUME NEW i \in 1..b PROVE g[i] = all[i]
    <3>1. CASE i \in 1..a
      BY <2>6, <2>8, <3>1
    <3>2. CASE i \notin 1..a
      <4>1. i - a \in 1..(b - a) /\ a + (i - a) = i
        BY <2>6, <3>2
      <4> QED
        BY <2>7, <2>8, <4>1
    <3> QED
      BY <3>1, <3>2
  <2>10. Good(j + 1)
    BY <2>4, <2>5, <2>6, <2>8, <2>9
  <2> HIDE DEF Good
  <2> QED
    BY <2>0, <2>1, <2>10
<1>6. m - 1 \in S
  <2>1. m - 1 \in Nat /\ \A k \in 0..((m - 1) - 1) : k \in S => k + 1 \in S
    BY <1>1, <1>5
  <2> HIDE DEF S
  <2> QED
    BY <1>4, <2>1, Steps
<1>7. Good(m)
  <2>1. (m - 1) + 1 = m
    BY <1>1
  <2> HIDE DEF Good
  <2> QED
    BY <1>6, <2>1
<1>8. at[m + 1] = n /\ FlattenSeq(seqs) = f[m]
  BY <1>1, <1>2 DEF Joining, Pieces
<1> QED
  BY <1>7, <1>8


LEMMA Divided == ASSUME NEW a \in Nat, NEW b \in Nat \ {0}
  PROVE a \div b \in Nat /\ b * (a \div b) <= a /\ a < b * (a \div b) + b
OBVIOUS
LEMMA TimesMore == ASSUME NEW a \in Nat, NEW b \in Nat, NEW c \in Nat, a <= c
  PROVE a * b <= c * b /\ a * b \in Nat /\ b * a = a * b
OBVIOUS
LEMMA TimesNext == ASSUME NEW a \in Nat, NEW b \in Nat PROVE (a + 1) * b = a * b + b /\ 0 * b = 0 /\ 1 * b = b
OBVIOUS

\* A list in chunks of at most a batch.
Chunks(chunks, at, rows) ==
  /\ Pieces(chunks, at, Len(rows))
  /\ \A k \in 1..Len(chunks) : /\ Len(chunks[k]) \in 1..BatchRows
                               /\ \A i \in 1..Len(chunks[k]) : chunks[k][i] = rows[at[k] + i]

LEMMA BatchesCut == ASSUME NEW rows, Listed(rows), Len(rows) # 0 PROVE \E at : Chunks(Batched(rows), at, rows)
<1>1. PICK B \in Nat \ {0}, n \in Nat \ {0} : B = BatchRows /\ n = Len(rows)
  BY WindowsGiven DEF Listed
<1>2. PICK c : c = (n + B - 1) \div B
  OBVIOUS
<1>3. c \in Nat /\ c # 0 /\ c * B < n + B /\ n <= c * B
  <2>1. n + B - 1 \in Nat
    OBVIOUS
  <2>2. c \in Nat /\ B * c <= n + B - 1 /\ n + B - 1 < B * c + B
    BY <1>2, <2>1, Divided
  <2>3. B * c = c * B /\ c * B \in Nat
    BY <2>2, TimesMore
  <2>4. c # 0
    BY <2>2, <2>3, TimesNext
  <2> QED
    BY <2>2, <2>3, <2>4
<1>4. PICK chunks : chunks = Batched(rows)
  OBVIOUS
<1> DEFINE End(b) == IF b * B < n THEN b * B ELSE n
<1>5. chunks = [b \in 1..c |-> SubSeq(rows, (b - 1) * B + 1, End(b))]
  BY <1>1, <1>2, <1>4 DEF Batched
<1>6. Listed(chunks) /\ Len(chunks) = c
  <2>1. chunks = [b \in 1..c |-> chunks[b]]
    BY <1>5
  <2> QED
    BY <1>3, <2>1, ListMade
<1>7. PICK at : at = [b \in 1..(c + 1) |-> IF b = c + 1 THEN n ELSE (b - 1) * B]
  OBVIOUS
<1>8. ASSUME NEW b \in 1..c
      PROVE /\ (b - 1) * B \in Nat /\ (b - 1) * B < n /\ at[b] = (b - 1) * B
            /\ at[b + 1] = End(b) /\ End(b) \in Nat /\ End(b) <= n /\ (b - 1) * B < End(b) /\ End(b) <= (b - 1) * B + B
  <2>1. b - 1 \in Nat /\ b - 1 <= c - 1 /\ c - 1 \in Nat /\ (b - 1) + 1 = b /\ (c - 1) + 1 = c /\ b \in Nat
    BY <1>3
  <2>2. (b - 1) * B <= (c - 1) * B /\ (b - 1) * B \in Nat /\ (c - 1) * B \in Nat
    BY <2>1, TimesMore
  <2>3. b * B = (b - 1) * B + B /\ c * B = (c - 1) * B + B
    BY <2>1, TimesNext
  <2>4. PICK x, y : x = (b - 1) * B /\ y = (c - 1) * B
    OBVIOUS
  <2>5. x \in Nat /\ y \in Nat /\ x <= y /\ y + B < n + B /\ n <= y + B
    BY <1>3, <2>2, <2>3, <2>4
  <2>6. b * B = x + B /\ End(b) = IF x + B < n THEN x + B ELSE n
    BY <2>3, <2>4
  <2>7. at[b] = x
    BY <1>3, <1>7, <2>4
  <2>8. b = c => End(b) = n /\ at[b + 1] = n
    BY <1>3, <1>7, <2>3, <2>4, <2>5, <2>6
  <2>9. b # c => at[b + 1] = b * B /\ End(b) = x + B
    <3>1. ASSUME b # c PROVE at[b + 1] = b * B
      <4>1. b + 1 \in 1..(c + 1) /\ b + 1 # c + 1 /\ (b + 1) - 1 = b
        BY <1>3, <3>1
      <4> QED
        BY <1>7, <4>1
    <3>2. ASSUME b # c PROVE b * B <= (c - 1) * B
      <4>1. b <= c - 1
        BY <1>3, <3>2
      <4> QED
        BY <2>1, <4>1, TimesMore
    <3> HIDE DEF End
    <3>3. ASSUME b # c PROVE x + B < n
      BY <2>4, <2>5, <2>6, <3>2, <3>3
    <3> QED
      BY <2>6, <3>1, <3>3
  <2> HIDE DEF End
  <2> QED
    BY <2>4, <2>5, <2>6, <2>7, <2>8, <2>9
<1>9. ASSUME NEW b \in 1..c
      PROVE /\ Listed(chunks[b]) /\ Len(chunks[b]) = at[b + 1] - at[b] /\ Len(chunks[b]) \in 1..B
            /\ \A i \in 1..Len(chunks[b]) : chunks[b][i] = rows[at[b] + i]
  <2>1. PICK x, e : x = (b - 1) * B /\ e = End(b)
    OBVIOUS
  <2>2. x \in Nat /\ at[b] = x /\ at[b + 1] = e /\ e \in Nat /\ e <= n /\ x < e /\ e <= x + B
    BY <1>8, <2>1
  <2>3. chunks[b] = SubSeq(rows, x + 1, e)
    BY <1>5, <2>1
  <2> HIDE DEF End
  <2>4. x + 1 \in 1..(Len(rows) + 1) /\ x + 1 <= e + 1 /\ e <= Len(rows)
    BY <1>1, <2>2
  <2>5. PICK g : g = SubSeq(rows, x + 1, e)
    OBVIOUS
  <2>6. Listed(g) /\ Len(g) = e - (x + 1) + 1 /\ \A i \in 1..(e - (x + 1) + 1) : g[i] = rows[(x + 1) + i - 1]
    <3>1. PICK y : y = x + 1
      OBVIOUS
    <3>2. y \in 1..(Len(rows) + 1) /\ y <= e + 1 /\ e \in Nat /\ g = SubSeq(rows, y, e)
      BY <2>2, <2>4, <2>5, <3>1
    <3>3. Listed(g) /\ Len(g) = e - y + 1 /\ \A i \in 1..(e - y + 1) : g[i] = rows[y + i - 1]
      BY <2>4, <3>1, <3>2, PartOf
    <3> QED
      BY <3>1, <3>3
  <2>7. e - (x + 1) + 1 = e - x /\ e - x \in 1..B /\ \A i \in 1..(e - x) : (x + 1) + i - 1 = x + i
    BY <1>1, <2>2
  <2> QED
    BY <2>2, <2>3, <2>5, <2>6, <2>7
<1>10. Pieces(chunks, at, n)
  <2>1. at[1] = 0
    BY <1>3, <1>7, TimesNext
  <2>2. at[c + 1] = n
    BY <1>3, <1>7
  <2>3. ASSUME NEW k \in 1..(c + 1) PROVE at[k] \in Nat
    <3>1. CASE k = c + 1
      BY <2>2, <3>1
    <3>2. CASE k # c + 1
      <4>1. k \in 1..c
        BY <1>3, <3>2
      <4> QED
        BY <1>8, <4>1
    <3> QED
      BY <3>1, <3>2
  <2> QED
    BY <1>3, <1>6, <1>9, <2>1, <2>2, <2>3 DEF Pieces
<1> QED
  BY <1>1, <1>4, <1>6, <1>9, <1>10 DEF Chunks

LEMMA SinglesCut == ASSUME NEW rows, Listed(rows), Len(rows) # 0 PROVE \E at : Chunks([n \in DOMAIN rows |-> <<rows[n]>>], at, rows)
<1>1. PICK n \in Nat \ {0} : n = Len(rows) /\ DOMAIN rows = 1..n /\ 1 \in 1..BatchRows
  BY WindowsGiven, Ranging DEF Listed
<1>2. PICK chunks : chunks = [k \in DOMAIN rows |-> <<rows[k]>>]
  OBVIOUS
<1>3. PICK at : at = [k \in 1..(n + 1) |-> k - 1]
  OBVIOUS
<1>4. Listed(chunks) /\ Len(chunks) = n
  <2>1. chunks = [k \in 1..n |-> chunks[k]]
    BY <1>1, <1>2
  <2> QED
    BY <2>1, ListMade
<1>5. ASSUME NEW k \in 1..n
      PROVE Listed(chunks[k]) /\ Len(chunks[k]) = 1 /\ chunks[k][1] = rows[k] /\ at[k] = k - 1 /\ at[k + 1] = k
  <2>1. chunks[k] = <<rows[k]>>
    BY <1>1, <1>2
  <2>2. PICK x : x = rows[k]
    OBVIOUS
  <2>3. <<x>> = [i \in 1..1 |-> x] /\ <<x>>[1] = x
    OBVIOUS
  <2>4. Listed(<<x>>) /\ Len(<<x>>) = 1
    <3>1. PICK f : f = <<x>>
      OBVIOUS
    <3>2. f = [i \in 1..1 |-> f[i]]
      BY <2>3, <3>1
    <3> QED
      BY <3>1, <3>2, ListMade
  <2> QED
    BY <1>3, <2>1, <2>2, <2>3, <2>4
<1>6. Pieces(chunks, at, n)
  <2>1. at[1] = 0
    BY <1>1, <1>3
  <2>2. at[n + 1] = n
    <3>1. n + 1 \in 1..(n + 1) /\ (n + 1) - 1 = n
      BY <1>1
    <3> QED
      BY <1>3, <3>1
  <2>3. ASSUME NEW k \in 1..(n + 1) PROVE at[k] \in Nat
    <3>1. k - 1 \in Nat
      BY <1>1
    <3> QED
      BY <1>3, <3>1
  <2>4. \A k \in 1..n : Len(chunks[k]) = at[k + 1] - at[k]
    <3> SUFFICES ASSUME NEW k \in 1..n PROVE Len(chunks[k]) = at[k + 1] - at[k]
      OBVIOUS
    <3>1. k - (k - 1) = 1 /\ at[k] = k - 1 /\ at[k + 1] = k /\ Len(chunks[k]) = 1
      BY <1>1, <1>5
    <3> QED
      BY <3>1
  <2> QED
    BY <1>1, <1>4, <1>5, <2>1, <2>2, <2>3, <2>4 DEF Pieces
<1>7. ASSUME NEW k \in 1..n, NEW i \in 1..Len(chunks[k]) PROVE chunks[k][i] = rows[at[k] + i]
  <2>1. i \in 1..1 /\ k \in Int /\ at[k] = k - 1
    <3>1. Len(chunks[k]) = 1 /\ at[k] = k - 1
      BY <1>5
    <3> QED
      BY <1>1, <3>1
  <2>2. i = 1 /\ at[k] + i = k
    BY <2>1
  <2> QED
    BY <1>5, <2>2
<1>8. \A k \in 1..n : Len(chunks[k]) \in 1..BatchRows
  <2>1. \A k \in 1..n : Len(chunks[k]) = 1
    BY <1>5
  <2> QED
    BY <1>1, <2>1
<1>9. Chunks(chunks, at, rows)
  <2>1. Pieces(chunks, at, Len(rows)) /\ Len(chunks) = n
    BY <1>1, <1>4, <1>6
  <2> QED
    BY <1>7, <1>8, <2>1 DEF Chunks
<1>10. chunks = [m \in DOMAIN rows |-> <<rows[m]>>]
  BY <1>2
<1> QED
  BY <1>9, <1>10


\* Chunks of no rows are no chunks.
LEMMA NoChunks == ASSUME NEW rows, Listed(rows), Len(rows) = 0
  PROVE DOMAIN Batched(rows) = {} /\ DOMAIN [n \in DOMAIN rows |-> <<rows[n]>>] = {}
<1>1. DOMAIN rows = {}
  BY Ranging
<1>2. (Len(rows) + BatchRows - 1) \div BatchRows = 0
  <2>0. PICK B \in Nat \ {0} : B = BatchRows
    BY WindowsGiven
  <2>1. PICK c : c = (B - 1) \div B
    OBVIOUS
  <2>2. B - 1 \in Nat
    OBVIOUS
  <2>3. c \in Nat /\ B * c <= B - 1
    BY <2>1, <2>2, Divided
  <2>4. CASE c # 0
    <3>1. 1 * B <= c * B /\ c * B = B * c /\ B * c \in Nat
      <4>1. 1 <= c /\ 1 \in Nat
        BY <2>3, <2>4
      <4> QED
        BY <2>3, <4>1, TimesMore
    <3>2. 1 * B = B
      BY TimesNext
    <3>3. PICK x : x = B * c
      OBVIOUS
    <3>4. x \in Nat /\ B <= x /\ x <= B - 1
      BY <2>3, <3>1, <3>2, <3>3
    <3> QED
      BY <3>4
  <2>5. 0 + B - 1 = B - 1
    OBVIOUS
  <2> QED
    BY <2>0, <2>1, <2>4, <2>5
<1> QED
  BY <1>1, <1>2 DEF Batched

\* The ends of the pieces grow, up to the end of them all.
LEMMA PieceWithin == ASSUME NEW seqs, NEW at, NEW n \in Nat, Pieces(seqs, at, n), NEW b \in 1..Len(seqs)
  PROVE at[b + 1] <= n
<1>1. PICK m \in Nat : m = Len(seqs)
  BY DEF Pieces, Listed
<1>2. \A k \in 1..m : at[k] \in Nat /\ at[k + 1] \in Nat /\ at[k] <= at[k + 1]
  <2> SUFFICES ASSUME NEW k \in 1..m PROVE at[k] \in Nat /\ at[k + 1] \in Nat /\ at[k] <= at[k + 1]
    OBVIOUS
  <2>1. at[k] \in Nat /\ at[k + 1] \in Nat
    BY <1>1 DEF Pieces
  <2>2. Len(seqs[k]) \in Nat /\ Len(seqs[k]) = at[k + 1] - at[k]
    BY <1>1 DEF Pieces, Listed
  <2> QED
    BY <2>1, <2>2
<1> DEFINE S == {j \in 0..(m - b) : at[b + 1] <= at[b + 1 + j]}
<1>3. b \in 1..m /\ m - b \in Nat /\ at[b + 1] \in Nat
  BY <1>1, <1>2
<1>4. 0 \in S
  <2>1. b + 1 + 0 = b + 1 /\ 0 \in 0..(m - b)
    BY <1>1, <1>3
  <2> QED
    BY <1>3, <2>1
<1>5. ASSUME NEW j \in 0..((m - b) - 1), j \in S PROVE j + 1 \in S
  <2>1. PICK k : k = b + 1 + j
    OBVIOUS
  <2>2. k \in 1..m /\ b + 1 + (j + 1) = k + 1 /\ j + 1 \in 0..(m - b)
    BY <1>1, <1>3, <2>1
  <2>3. at[b + 1] <= at[k]
    BY <1>5, <2>1
  <2>4. at[b + 1] <= at[k + 1]
    BY <1>2, <1>3, <2>2, <2>3
  <2> QED
    BY <2>2, <2>4
<1>6. m - b \in S
  <2>1. \A j \in 0..((m - b) - 1) : j \in S => j + 1 \in S
    BY <1>5
  <2> HIDE DEF S
  <2> QED
    BY <1>3, <1>4, <2>1, Steps
<1>7. b + 1 + (m - b) = m + 1 /\ at[m + 1] = n
  BY <1>1, <1>3 DEF Pieces
<1> QED
  BY <1>6, <1>7

\* INSERTs of chunks of the rows say what their cells mean, however they are cut.
LEMMA ChunksTell == ASSUME NEW r, NEW rows, NEW w, Telling(r, rows, w), NEW picked, Picked(picked, Len(rows)),
    NEW columns, Picked(columns, Len(r.columns)), NEW dialect \in Dialects, NEW chunks, NEW at, Chunks(chunks, at, picked),
    NEW inserts, inserts = [b \in DOMAIN chunks |-> [n \in DOMAIN chunks[b] |->
                              [k \in DOMAIN columns |-> Literal(dialect, CellOf(r, chunks[b][n], columns[k]))]]]
  PROVE InsertsRight(PushedOf(rows, picked, columns), dialect, inserts)
<1>1. PICK m, q, c : m = Len(picked) /\ q = Len(columns) /\ c = Len(chunks)
  OBVIOUS
<1>2. /\ m \in Nat /\ q \in Nat /\ c \in Nat /\ c # 0 /\ DOMAIN picked = 1..m /\ DOMAIN columns = 1..q /\ DOMAIN chunks = 1..c
      /\ Pieces(chunks, at, m) /\ Listed(chunks)
  BY <1>1, Ranging DEF Picked, Listed, Chunks, Pieces
<1>3. PICK all : all = [n \in 1..m |-> [k \in 1..q |-> Literal(dialect, CellOf(r, picked[n], columns[k]))]]
  OBVIOUS
<1>4. Listed(inserts) /\ Len(inserts) = c
  <2>1. inserts = [b \in 1..c |-> inserts[b]]
    BY <1>2
  <2> QED
    BY <1>2, <2>1, ListMade
<1>5. ASSUME NEW b \in 1..c
      PROVE /\ Listed(inserts[b]) /\ Len(inserts[b]) = at[b + 1] - at[b] /\ Len(inserts[b]) \in 1..BatchRows
            /\ \A i \in 1..(at[b + 1] - at[b]) : inserts[b][i] = all[at[b] + i]
  <2>1. PICK chunk, insert, l : chunk = chunks[b] /\ insert = inserts[b] /\ l = Len(chunk)
    OBVIOUS
  <2>2. /\ Listed(chunk) /\ l = at[b + 1] - at[b] /\ l \in 1..BatchRows /\ l \in Nat
        /\ \A i \in 1..l : chunk[i] = picked[at[b] + i]
    BY <1>1, <1>2, <2>1 DEF Chunks, Pieces, Listed
  <2>3. DOMAIN chunk = 1..l
    BY <2>1, <2>2, Ranging
  <2>4. insert = [n \in 1..l |-> [k \in 1..q |-> Literal(dialect, CellOf(r, chunk[n], columns[k]))]]
    BY <1>2, <2>1, <2>3
  <2>5. Listed(insert) /\ Len(insert) = l
    <3>1. insert = [n \in 1..l |-> insert[n]]
      BY <2>4
    <3> QED
      BY <2>2, <3>1, ListMade
  <2>6. ASSUME NEW i \in 1..l PROVE insert[i] = all[at[b] + i]
    <3>1. at[b] + i \in 1..m
      <4>1. at[b] \in Nat /\ at[b + 1] \in Nat /\ at[b + 1] <= m
        <5>1. at[b] \in Nat /\ at[b + 1] \in Nat
          BY <1>1, <1>2 DEF Pieces
        <5>2. at[b + 1] <= m
          BY <1>1, <1>2, PieceWithin
        <5> QED
          BY <5>1, <5>2
      <4> QED
        BY <1>2, <2>2, <4>1
    <3>2. chunk[i] = picked[at[b] + i]
      BY <2>2
    <3> QED
      BY <1>3, <2>4, <3>1, <3>2
  <2> QED
    BY <2>1, <2>2, <2>5, <2>6
<1>6. Pieces(inserts, at, m)
  <2>1. Len(inserts) # 0 /\ at[1] = 0 /\ at[Len(inserts) + 1] = m /\ \A k \in 1..(Len(inserts) + 1) : at[k] \in Nat
    BY <1>1, <1>2, <1>4 DEF Pieces
  <2> QED
    BY <1>4, <1>5, <2>1 DEF Pieces
<1>7. PICK flat : flat = FlattenSeq(inserts)
  OBVIOUS
<1>8. Listed(flat) /\ Len(flat) = m /\ \A i \in 1..m : flat[i] = all[i]
  <2>1. \A k \in 1..Len(inserts) : \A i \in 1..(at[k + 1] - at[k]) : inserts[k][i] = all[at[k] + i]
    BY <1>4, <1>5
  <2>2. m \in Nat
    BY <1>2
  <2>3. /\ Listed(FlattenSeq(inserts)) /\ Len(FlattenSeq(inserts)) = m
        /\ \A i \in 1..m : FlattenSeq(inserts)[i] = all[i]
    BY ONLY <1>6, <2>1, <2>2, PiecesJoined
  <2> QED
    BY <1>7, <2>3
<1>9. PICK cells : cells = PushedOf(rows, picked, columns)
  OBVIOUS
<1>10. cells = [n \in 1..m |-> cells[n]] /\ \A n \in 1..m : cells[n] = [k \in 1..q |-> rows[picked[n]][columns[k]]]
  BY <1>2, <1>9 DEF PushedOf
<1>11. Len(cells) = m /\ DOMAIN cells = 1..m
  BY <1>2, <1>10, ListMade
<1>12. ASSUME NEW n \in 1..m, NEW k \in 1..q PROVE ReadLiteral(dialect, flat[n][k]) = Meant(cells[n][k])
  <2>1. picked[n] \in 1..Len(rows) /\ columns[k] \in 1..Len(r.columns)
    BY <1>1 DEF Picked
  <2>2. PICK x, i : x = picked[n] /\ i = columns[k]
    OBVIOUS
  <2>3. CellOf(r, x, i) = rows[x][i] /\ rows[x][i] \in CellsIn(w) /\ w \in Worlds
    BY <2>1, <2>2 DEF Telling
  <2>4. flat[n][k] = Literal(dialect, CellOf(r, x, i)) /\ cells[n][k] = rows[x][i]
    <3>1. cells[n] = [j \in 1..q |-> rows[picked[n]][columns[j]]]
      BY <1>10
    <3>2. all[n] = [j \in 1..q |-> Literal(dialect, CellOf(r, picked[n], columns[j]))] /\ flat[n] = all[n]
      BY <1>3, <1>8
    <3> QED
      BY <2>2, <3>1, <3>2
  <2> QED
    BY <2>3, <2>4, LiteralTells
<1>13. \A b \in DOMAIN inserts : Len(inserts[b]) \in 1..BatchRows
  BY <1>2, <1>4, <1>5, Ranging
<1>14. \A n \in 1..m : DOMAIN cells[n] = 1..q
  BY <1>10
<1> QED
  BY <1>7, <1>8, <1>9, <1>11, <1>12, <1>13, <1>14 DEF InsertsRight, LiteralsRight

LEMMA InsertsTell == ASSUME NEW r, NEW rows, NEW w, Telling(r, rows, w), NEW picked, Picked(picked, Len(rows)),
    NEW columns, Picked(columns, Len(r.columns)), NEW dialect \in Dialects, NEW batch
  PROVE InsertsRight(PushedOf(rows, picked, columns), dialect, Inserts(r, picked, columns, batch, dialect))
<1>1. PICK chunks : chunks = IF batch /\ dialect # "scylla" THEN Batched(picked) ELSE [n \in DOMAIN picked |-> <<picked[n]>>]
  OBVIOUS
<1>2. PICK inserts : inserts = Inserts(r, picked, columns, batch, dialect)
  OBVIOUS
<1>3. inserts = [b \in DOMAIN chunks |-> [n \in DOMAIN chunks[b] |->
                   [k \in DOMAIN columns |-> Literal(dialect, CellOf(r, chunks[b][n], columns[k]))]]]
  BY <1>1, <1>2 DEF Inserts
<1>4. chunks = Batched(picked) \/ chunks = [n \in DOMAIN picked |-> <<picked[n]>>]
  BY <1>1
<1>5. Listed(picked)
  BY DEF Picked
<1>6. CASE Len(picked) = 0
  <2>1. DOMAIN chunks = {}
    BY <1>4, <1>5, <1>6, NoChunks
  <2>2. inserts = [b \in 1..0 |-> inserts[b]] /\ DOMAIN inserts = {}
    BY <1>3, <2>1
  <2>3. Listed(inserts) /\ Len(inserts) = 0
    BY <2>2, ListMade
  <2>4. FlattenSeq(inserts) = inserts
    BY <2>3 DEF FlattenSeq
  <2>5. PICK cells : cells = PushedOf(rows, picked, columns)
    OBVIOUS
  <2>6. DOMAIN picked = {}
    BY <1>5, <1>6, Ranging
  <2>7. cells = [n \in 1..0 |-> cells[n]] /\ DOMAIN cells = {}
    BY <2>5, <2>6 DEF PushedOf
  <2>8. Len(cells) = 0
    BY <2>7, ListMade
  <2> QED
    BY <1>2, <2>2, <2>3, <2>4, <2>5, <2>7, <2>8 DEF InsertsRight, LiteralsRight
<1>7. CASE Len(picked) # 0
  <2>1. \E at : Chunks(chunks, at, picked)
    BY <1>4, <1>5, <1>7, BatchesCut, SinglesCut
  <2> QED
    BY <1>2, <1>3, <2>1, ChunksTell
<1> QED
  BY <1>6, <1>7


\* Rows that are shown are a sequence of numbers, and no mark.
LEMMA PickedIsSeen == ASSUME NEW shown, NEW n \in Nat, Picked(shown, n)
  PROVE shown \in Seq(Nat) /\ shown # None /\ shown # Failed /\ DOMAIN shown = 1..Len(shown)
<1>1. Len(shown) \in Nat /\ shown = [k \in 1..Len(shown) |-> shown[k]] /\ \A k \in 1..Len(shown) : shown[k] \in Nat
  BY DEF Picked, Listed
<1>2. shown \in Seq(Nat)
  BY <1>1
<1> QED
  BY <1>1, <1>2, MarksApart

\* The rows of a window are those of the view, from the first to the last or to its end.
InWindow(window, shown) == {p \in DOMAIN shown : window.first <= p /\ (window.last = None \/ p <= window.last)}
InPlace(rows, window, shown) == \A k \in DOMAIN rows : rows[k] = shown[window.first + k - 1]
LEMMA Windowed == ASSUME NEW r, NEW n \in Nat, NEW shown, Picked(shown, n), NEW window \in Windows,
    NEW rows, rows = Resolve(r, window, shown)
  PROVE Picked(rows, n) /\ Len(rows) = Cardinality(InWindow(window, shown)) /\ InPlace(rows, window, shown)
<1>1. PICK m \in Nat, a \in Nat \ {0} : m = Len(shown) /\ a = window.first
  BY WindowsGiven DEF Picked, Listed
<1>2. PICK e : e = IF window.last = None \/ window.last > m THEN m ELSE window.last
  OBVIOUS
<1>3. shown # None /\ DOMAIN shown = 1..m /\ \A k \in 1..m : shown[k] \in 1..n
  BY <1>1, PickedIsSeen DEF Picked
<1>4. window.last = None \/ (window.last # None /\ window.last \in Nat)
  BY WindowsGiven
<1>5. e \in Nat /\ e <= m
  BY <1>1, <1>2, <1>4
<1>6. rows = SubSeq(shown, a, e)
  BY <1>1, <1>2, <1>3 DEF Resolve
<1>7. \A k \in a..e : shown[k] \in 1..n
  BY <1>3, <1>5
<1>8. /\ rows \in Seq(1..n)
      /\ Len(rows) = IF a <= e THEN e - a + 1 ELSE 0
      /\ \A k \in 1..(e - a + 1) : rows[k] = shown[a + k - 1]
  BY <1>5, <1>6, <1>7, SubSeqProperties
<1>9. PICK l : l = Len(rows)
  OBVIOUS
<1>10. l \in Nat /\ rows = [k \in 1..l |-> rows[k]] /\ DOMAIN rows = 1..l /\ \A k \in 1..l : rows[k] \in 1..n
  BY <1>8, <1>9
<1>11. l = IF a > e THEN 0 ELSE e - a + 1
  BY <1>5, <1>8, <1>9
<1>12. Picked(rows, n)
  BY <1>9, <1>10 DEF Picked, Listed
<1>13. InWindow(window, shown) = a..e
  <2>1. ASSUME NEW p \in 1..m PROVE (a <= p /\ (window.last = None \/ p <= window.last)) <=> p \in a..e
    <3>1. CASE window.last = None
      BY <1>2, <3>1
    <3>2. CASE window.last # None
      <4>1. PICK x \in Nat : x = window.last
        BY <1>4, <3>2
      <4>2. e = IF x > m THEN m ELSE x
        BY <1>2, <3>2, <4>1
      <4>3. (a <= p /\ p <= x) <=> p \in a..e
        BY <4>2
      <4> QED
        BY <3>2, <4>1, <4>3
    <3> QED
      BY <3>1, <3>2
  <2>2. \A p \in a..e : p \in 1..m
    BY <1>5
  <2>3. {p \in 1..m : a <= p /\ (window.last = None \/ p <= window.last)} = a..e
    BY <2>1, <2>2
  <2> QED
    BY <1>1, <1>3, <2>3 DEF InWindow
<1>14. Cardinality(a..e) = l
  BY <1>5, <1>11, FS_Interval
<1>15. \A k \in 1..l : rows[k] = shown[a + k - 1]
  BY <1>5, <1>8, <1>11
<1> QED
  BY <1>1, <1>9, <1>10, <1>12, <1>13, <1>14, <1>15 DEF InPlace

\* Rows, or columns, out of a list of them.
LEMMA ThosePicked == ASSUME NEW seq, NEW m \in Nat, m = Len(seq), NEW S \in SUBSET (1..m), NEW n \in Nat,
    \A k \in S : seq[k] \in 1..n
  PROVE Picked(Those(seq, S), n)
<1>1. PICK at : /\ Listed(at) /\ Len(at) = Cardinality(S) /\ at \in Bijection(1..Len(at), S)
                /\ \A i, j \in 1..Len(at) : i < j => at[i] < at[j]
                /\ Those(seq, S) = [k \in 1..Len(at) |-> seq[at[k]]]
                /\ Listed(Those(seq, S)) /\ Len(Those(seq, S)) = Len(at)
  BY ONLY ThoseAre, m \in Nat, S \in SUBSET (1..m)
<1>2. \A k \in 1..Len(at) : at[k] \in S
  BY <1>1 DEF Bijection, Injection, Surjection
<1> QED
  BY <1>1, <1>2 DEF Picked

LEMMA ChosenArePicked == ASSUME NEW r, Listed(r.columns), NEW window \in Windows
  PROVE Picked(Chosen(r, window.columns), Len(r.columns))
<1>0. PICK q \in Nat : q = Len(r.columns)
  BY DEF Listed
<1>1. PICK columns : columns = window.columns
  OBVIOUS
<1>2. CASE columns = None
  <2>1. PICK f : f = Chosen(r, columns)
    OBVIOUS
  <2>2. f = [i \in 1..q |-> i]
    BY <1>0, <1>1, <1>2, <2>1, Ranging DEF Chosen
  <2>3. f = [i \in 1..q |-> f[i]]
    BY <2>2
  <2>4. Listed(f) /\ Len(f) = q
    BY <2>3, ListMade
  <2> QED
    BY <1>0, <1>1, <2>1, <2>2, <2>4 DEF Picked
<1>3. CASE columns # None
  <2>1. columns \in Seq(Nat \ {0})
    BY <1>0, <1>1, <1>3, WindowsGiven
  <2>2. PICK m \in Nat : m = Len(columns) /\ DOMAIN columns = 1..m
    BY <2>1
  <2>3. PICK S : S = {k \in DOMAIN columns : columns[k] <= Width(r)}
    OBVIOUS
  <2>4. S \in SUBSET (1..m) /\ \A k \in S : columns[k] \in 1..q
    BY <1>0, <1>1, <2>1, <2>2, <2>3 DEF Width
  <2>5. Chosen(r, columns) = Those(columns, S)
    BY <1>3, <2>3 DEF Chosen
  <2>6. Picked(Those(columns, S), q)
    BY <2>2, <2>4, ThosePicked
  <2> QED
    BY <1>0, <1>1, <2>5, <2>6
<1> QED
  BY <1>2, <1>3

\* Whatever rows a view shows, a window of them carries the cells that were pushed.
LEMMA WindowTells == ASSUME DataInv, NEW shown, Picked(shown, Len(truth)), NEW window \in Windows
  PROVE ShownRight(window, shown)
<1>1. Telling(live, truth, world)
  BY LiveTells
<1>2. PICK n \in Nat : n = Len(truth) /\ live.rows = n /\ Listed(live.columns)
  BY <1>1 DEF Telling, Listed
<1>3. PICK rows, columns : rows = Resolve(live, window, shown) /\ columns = Chosen(live, window.columns)
  OBVIOUS
<1>4. /\ Picked(rows, n)
      /\ Len(rows) = Cardinality({p \in DOMAIN shown : window.first <= p /\ (window.last = None \/ p <= window.last)})
      /\ \A k \in DOMAIN rows : rows[k] = shown[window.first + k - 1]
  <2>1. Picked(shown, n)
    BY <1>2
  <2>2. /\ Picked(rows, n) /\ Len(rows) = Cardinality(InWindow(window, shown))
        /\ \A k \in DOMAIN rows : rows[k] = shown[window.first + k - 1]
    <3>1. PICK r : r = live
      OBVIOUS
    <3>2. rows = Resolve(r, window, shown) /\ n \in Nat
      BY <1>3, <3>1
    <3>3. \A l : \A m \in Nat : \A seen : Picked(seen, m) => \A w \in Windows : \A all : all = Resolve(l, w, seen) =>
            Picked(all, m) /\ Len(all) = Cardinality(InWindow(w, seen)) /\ InPlace(all, w, seen)
      BY Windowed, Zenon
    <3>4. \A l : \A m \in Nat : \A seen : Picked(seen, m) => \A w \in Windows : \A all : all = Resolve(l, w, seen) => Picked(all, m)
      BY <3>3, Zenon
    <3>5. \A l : \A m \in Nat : \A seen : Picked(seen, m) => \A w \in Windows : \A all : all = Resolve(l, w, seen) => Len(all) = Cardinality(InWindow(w, seen))
      BY <3>3, Zenon
    <3>6. \A l : \A m \in Nat : \A seen : Picked(seen, m) => \A w \in Windows : \A all : all = Resolve(l, w, seen) => InPlace(all, w, seen)
      BY <3>3, Zenon
    <3>7. Picked(rows, n)
      BY <2>1, <3>2, <3>4
    <3>8. Len(rows) = Cardinality(InWindow(window, shown))
      BY <2>1, <3>2, <3>5
    <3>9. InPlace(rows, window, shown)
      BY <2>1, <3>2, <3>6
    <3> QED
      BY <3>7, <3>8, <3>9 DEF InPlace
  <2> QED
    BY <2>2 DEF InWindow
<1>5. Picked(columns, Len(live.columns))
  BY <1>2, <1>3, ChosenArePicked
<1>6. Pushed(rows, columns) = PushedOf(truth, rows, columns)
  BY DEF Pushed, PushedOf
<1>7. window.dialect \in Dialects
  BY WindowsGiven
<1>8. FormsRight(rows, columns, window)
  <2>1. CsvRight(PushedOf(truth, rows, columns), Csv(live, rows, columns))
    BY <1>1, <1>2, <1>4, <1>5, LinesTell
  <2>2. JsonRight(PushedOf(truth, rows, columns), [k \in DOMAIN columns |-> live.columns[columns[k]].name],
                  Json(live, rows, columns))
    BY <1>1, <1>2, <1>4, <1>5, ObjectsTell
  <2>3. InsertsRight(PushedOf(truth, rows, columns), window.dialect, Inserts(live, rows, columns, window.batch, window.dialect))
    BY <1>1, <1>2, <1>4, <1>5, <1>7, InsertsTell
  <2> QED
    BY <1>6, <2>1, <2>2, <2>3 DEF FormsRight
<1>9. PageRight(rows, Page(live, window, shown))
  <2>1. PICK leaf : leaf = Page(live, window, shown)
    OBVIOUS
  <2>2. leaf = [indices |-> rows, rows |-> [k \in DOMAIN rows |-> [i \in DOMAIN live.columns |-> PageValue(Column(live, i), rows[k])]]]
    BY <1>3, <2>1 DEF Page
  <2>3. leaf.indices = rows /\ \A k \in DOMAIN rows : leaf.rows[k] = [i \in DOMAIN live.columns |-> PageValue(Column(live, i), rows[k])]
    BY <2>2
  <2>4. DOMAIN rows = 1..Len(rows) /\ DOMAIN live.columns = 1..Len(live.columns)
    BY <1>2, <1>4, Ranging DEF Picked
  <2>5. ASSUME NEW k \in DOMAIN rows, NEW i \in DOMAIN live.columns
        PROVE PageValue(Column(live, i), rows[k]) = Wire(truth[rows[k]][i]) /\ CellOf(live, rows[k], i) = truth[rows[k]][i]
    <3>1. PICK x : x = rows[k]
      OBVIOUS
    <3>2. x \in 1..Len(truth) /\ i \in 1..Len(live.columns)
      BY <1>2, <1>4, <2>4, <2>5, <3>1 DEF Picked
    <3>3. PageValue(Column(live, i), x) = Wire(truth[x][i])
      BY <1>1, <3>2, PageTells
    <3>4. CellOf(live, x, i) = truth[x][i]
      BY <1>1, <3>2 DEF Telling
    <3> QED
      BY <3>1, <3>3, <3>4
  <2>6. ASSUME NEW k \in DOMAIN rows PROVE leaf.rows[k] = [i \in DOMAIN live.columns |-> Wire(truth[rows[k]][i])]
    BY <2>3, <2>5
  <2>7. ASSUME NEW k \in DOMAIN rows, NEW i \in DOMAIN live.columns PROVE Detail(live, rows[k])[i].text = Text(truth[rows[k]][i])
    BY <2>5 DEF Detail
  <2> QED
    BY <2>1, <2>3, <2>6, <2>7 DEF PageRight
<1>10. WindowRight(window, shown, rows)
  BY <1>3, <1>4, <1>8, <1>9 DEF WindowRight
<1> QED
  BY <1>3, <1>10 DEF ShownRight


-----------------------------------------------------------------------------
(* What a projection says of the rows it was made of *)

\* Texts are numbers, in an order.
LEMMA TextsAreNumbers == /\ \A t \in ToSet(TextOrder) : t \in Int /\ TextRank[t] \in Int
<1>1. ToSet(TextOrder) \subseteq Int
  BY DEF ToSet, TextOrder, EmptyText, Blob, LongBlob, LongBlobShown, TypeText, NanText, ListText, FalseText, TrueText, Lines,
         LinesShown, PathBroken, Path, PathTwice, Word
<1>2. \A t \in ToSet(TextOrder) : TextRank[t] \in Int
  <2>1. DOMAIN TextOrder \subseteq Int
    BY DEF TextOrder
  <2> SUFFICES ASSUME NEW t \in ToSet(TextOrder) PROVE TextRank[t] \in Int
    OBVIOUS
  <2>2. \E i \in DOMAIN TextOrder : TextOrder[i] = t
    BY DEF ToSet
  <2>3. TextRank[t] = CHOOSE i \in DOMAIN TextOrder : TextOrder[i] = t
    BY DEF TextRank
  <2> QED
    BY <2>1, <2>2, <2>3
<1> QED
  BY <1>1, <1>2

\* What a cell counts as.
LEMMA NumberIs == ASSUME NEW w \in Worlds, NEW c \in CellsIn(w)
  PROVE /\ c.kind \in {"int", "float"} => Number(c) \in Int
        /\ Number(c) \in Int \/ Number(c) = Nothing
        /\ c.kind \notin {"int", "float", "text"} => Number(c) = Nothing
        /\ Nothing \notin Int
<1>1. c.kind \in {"int", "float"} => c.val \in Int
  BY CellsReadable
<1>2. Nothing \notin Int
  BY MarksApart
<1>3. \A n \in Int : Round(n) \in Int
  BY DEF Round, Exact
<1>4. c.kind = "text" => c.val \in Int
  <2>1. ASSUME c.kind = "text" PROVE c.val \in Int
    <3>1. ~IsNull(c) /\ Text(c) = c.val
      BY <2>1 DEF IsNull, Text
    <3>2. c.val \in ToSet(TextOrder)
      BY <3>1, CellsReadable
    <3> QED
      BY <3>2, TextsAreNumbers
  <2> QED
    BY <2>1
<1>5. CASE c.kind \in {"int", "float"}
  BY <1>1, <1>2, <1>3, <1>5 DEF Number
<1>6. CASE c.kind = "text"
  <2>1. c.val \in Int
    BY <1>4, <1>6
  <2>2. ~(c.val < Words /\ c.val = NanText)
    BY <2>1 DEF Words, NanText
  <2>3. CASE c.val < Words
    BY <1>2, <1>3, <1>6, <2>1, <2>2, <2>3 DEF Number
  <2>4. CASE ~(c.val < Words)
    BY <1>2, <1>6, <2>1, <2>4 DEF Number, NaN
  <2> QED
    BY <2>3, <2>4
<1>7. CASE c.kind \notin {"int", "float", "text"}
  BY <1>2, <1>7 DEF Number
<1> QED
  BY <1>5, <1>6, <1>7

\* A column of the projection has the type its cells are compared by.
DtypeOf == [flag |-> "Boolean", whole |-> "Int64", number |-> "Float64", text |-> "String"]
LEMMA TypeMeans == ASSUME NEW w \in Worlds, NEW cells \in SUBSET CellsIn(w), NEW class, NEW column,
    column.dtype \in Natives \cup {"Null", "Object"},
    column.dtype \in Natives => \A c \in cells : IsNull(c) \/ c.kind = NativeKinds[column.dtype],
    NEW d, NEW how, d = TypeOfCells(column, class, cells), how = How(cells, class)
  PROVE \/ how = "flag" /\ d = "Boolean" /\ \A c \in cells : IsNull(c) \/ c.kind = "bool"
        \/ how = "whole" /\ d = "Int64" /\ \A c \in cells : IsNull(c) \/ c.kind = "int"
        \/ how = "number" /\ d = "Float64" /\ \A c \in cells : IsNull(c) \/ Number(c) # Nothing
        \/ how = "text" /\ d = "String"
<1> DEFINE present == {c \in cells : ~IsNull(c)}
           populated == \E c \in cells : ~IsNull(c)
           all(kind) == \A c \in cells : c.kind \in {kind, "null"}
           only(kinds) == \A c \in present : c.kind \in kinds
           native == column.dtype \in {"Boolean", "Int64", "Float64"} \/ (column.dtype = "String" /\ class # "number")
           number == /\ populated \/ class = "number"
                     /\ class = "number" \/ \A c \in cells : c.kind # "text"
                     /\ \A c \in cells : IsNull(c) \/ Number(c) # Nothing
<1>1. d = IF native /\ populated THEN column.dtype
          ELSE IF (populated \/ class = "boolean") /\ all("bool") THEN "Boolean"
          ELSE IF (populated \/ class = "number") /\ all("int") THEN "Int64"
          ELSE IF number THEN "Float64" ELSE "String"
  BY DEF TypeOfCells
<1>2. how = IF present = {} THEN CASE class = "boolean" -> "flag" [] class = "number" -> "whole" [] OTHER -> "text"
            ELSE IF only({"bool"}) THEN "flag"
            ELSE IF only({"int"}) THEN "whole"
            ELSE IF only({"int", "float"}) \/ (class = "number" /\ \A c \in present : Number(c) # Nothing) THEN "number"
            ELSE "text"
  BY DEF How
<1>3. populated <=> present # {}
  OBVIOUS
<1>4. \A kind : kind # "null" => (all(kind) <=> only({kind})) /\ (all(kind) <=> \A c \in cells : IsNull(c) \/ c.kind = kind)
  BY DEF IsNull
<1>5. all("bool") = only({"bool"}) /\ all("int") = only({"int"})
  BY <1>4
<1>6. /\ all("bool") => \A c \in cells : IsNull(c) \/ c.kind = "bool"
      /\ all("int") => \A c \in cells : IsNull(c) \/ c.kind = "int"
  BY <1>4
<1>7. CASE ~populated
  <2>1. all("bool") /\ all("int") /\ present = {} /\ \A c \in cells : IsNull(c)
    BY <1>3, <1>7 DEF IsNull
  <2> HIDE DEF all, only, native, present, populated
  <2>2. CASE class = "boolean"
    BY <1>1, <1>2, <1>6, <1>7, <2>1, <2>2
  <2>3. CASE class = "number"
    BY <1>1, <1>2, <1>6, <1>7, <2>1, <2>3
  <2>4. CASE class \notin {"boolean", "number"}
    <3>1. ~number
      BY <1>7, <2>4
    <3> HIDE DEF number
    <3> QED
      BY <1>1, <1>2, <1>7, <2>1, <2>4, <3>1
  <2> QED
    BY <2>2, <2>3, <2>4
<1>8. CASE populated /\ native
  <2>1. d = column.dtype /\ column.dtype \in Natives
    BY <1>1, <1>8 DEF Natives
  <2>2. PICK kind : kind = NativeKinds[column.dtype]
    OBVIOUS
  <2>3. \A c \in present : c.kind = kind
    BY <2>1, <2>2
  <2>4. \A kinds : only(kinds) <=> kind \in kinds
    BY <1>3, <1>8, <2>3
  <2>5. present # {}
    BY <1>3, <1>8
  <2>6. PICK o1 \in BOOLEAN, o2 \in BOOLEAN, o3 \in BOOLEAN :
          o1 = only({"bool"}) /\ o2 = only({"int"}) /\ o3 = only({"int", "float"})
    OBVIOUS
  <2>7. (o1 <=> kind = "bool") /\ (o2 <=> kind = "int") /\ (o3 <=> kind \in {"int", "float"})
    <3>1. only({"bool"}) <=> kind \in {"bool"}
      BY <2>4
    <3>2. only({"int"}) <=> kind \in {"int"}
      BY <2>4
    <3>3. only({"int", "float"}) <=> kind \in {"int", "float"}
      BY <2>4
    <3> HIDE DEF only
    <3> QED
      BY <2>6, <3>1, <3>2, <3>3
  <2>8. how = IF o1 THEN "flag" ELSE IF o2 THEN "whole"
              ELSE IF o3 \/ (class = "number" /\ \A c \in present : Number(c) # Nothing) THEN "number" ELSE "text"
    BY <1>2, <2>5, <2>6
  <2>9. /\ column.dtype = "Boolean" => kind = "bool"
        /\ column.dtype = "Int64" => kind = "int"
        /\ column.dtype = "Float64" => kind = "float"
        /\ column.dtype = "String" => kind = "text"
    BY <2>2 DEF NativeKinds
  <2>10. \A c \in cells : IsNull(c) \/ c.kind = kind
    BY <2>3
  <2>11. column.dtype = "Float64" => \A c \in cells : IsNull(c) \/ Number(c) # Nothing
    <3>1. SUFFICES ASSUME column.dtype = "Float64", NEW c \in cells PROVE IsNull(c) \/ Number(c) # Nothing
      OBVIOUS
    <3>2. IsNull(c) \/ c.kind = "float"
      BY <2>9, <2>10, <3>1
    <3>3. c \in CellsIn(w)
      OBVIOUS
    <3> QED
      BY <3>2, <3>3, NumberIs
  <2> HIDE DEF only, present, populated, all, number
  <2>12. CASE column.dtype = "Boolean"
    BY <2>1, <2>2, <2>7, <2>8, <2>9, <2>10, <2>12 DEF NativeKinds
  <2>13. CASE column.dtype = "Int64"
    BY <2>1, <2>2, <2>7, <2>8, <2>9, <2>10, <2>13 DEF NativeKinds
  <2>14. CASE column.dtype = "Float64"
    BY <2>1, <2>2, <2>7, <2>8, <2>9, <2>11, <2>14 DEF NativeKinds
  <2>15. CASE column.dtype = "String" /\ class # "number"
    BY <2>1, <2>2, <2>7, <2>8, <2>9, <2>15 DEF NativeKinds
  <2> QED
    BY <1>8, <2>12, <2>13, <2>14, <2>15
<1>9. CASE populated /\ ~native
  <2>1. number <=> only({"int", "float"}) \/ (class = "number" /\ \A c \in present : Number(c) # Nothing)
    <3>1. CASE class = "number"
      <4>1. \A c \in present : c.kind \in {"int", "float"} => Number(c) # Nothing
        BY NumberIs
      <4>2. (\A c \in cells : IsNull(c) \/ Number(c) # Nothing) <=> \A c \in present : Number(c) # Nothing
        OBVIOUS
      <4> QED
        BY <1>9, <3>1, <4>1, <4>2
    <3>2. CASE class # "number"
      <4>1. ASSUME NEW c \in present PROVE c.kind \in {"int", "float"} <=> c.kind # "text" /\ Number(c) # Nothing
        BY NumberIs
      <4>2. (\A c \in cells : c.kind # "text") <=> \A c \in present : c.kind # "text"
        BY DEF IsNull
      <4>3. (\A c \in cells : IsNull(c) \/ Number(c) # Nothing) <=> \A c \in present : Number(c) # Nothing
        OBVIOUS
      <4> QED
        BY <1>9, <3>2, <4>1, <4>2, <4>3
    <3> QED
      BY <3>1, <3>2
  <2>2. number => \A c \in cells : IsNull(c) \/ Number(c) # Nothing
    OBVIOUS
  <2>3. present # {}
    BY <1>3, <1>9
  <2> HIDE DEF only, present, populated, all, number, native
  <2> QED
    BY <1>1, <1>2, <1>5, <1>6, <1>9, <2>1, <2>2, <2>3
<1> QED
  BY <1>7, <1>8, <1>9


\* A column of values that stand for the cells of some rows.
KeyedBy(column, rows, positions, i, how) ==
  /\ how \in {"flag", "whole", "number", "text"} /\ column.dtype = DtypeOf[how]
  /\ \A p \in 1..Len(positions) :
       LET cell == rows[positions[p]][i] value == column.values[p]
       IN /\ value = Nothing <=> IsNull(cell)
          /\ ~IsNull(cell) => /\ Rank(column.dtype, value) = Key(how, cell) /\ Key(how, cell) \in Int
                              /\ how # "number" => CastText(column.dtype, value) = Text(cell)

\* One value, of the type its column has.
Valued(d, cell) == IF IsNull(cell) THEN Nothing
                   ELSE CASE d = "Float64" -> Number(cell) [] d = "String" -> Text(cell) [] OTHER -> cell.val
LEMMA ValueTells == ASSUME NEW w \in Worlds, NEW cell \in CellsIn(w), Whole(cell), NEW how, NEW d,
    \/ how = "flag" /\ d = "Boolean" /\ (IsNull(cell) \/ cell.kind = "bool")
    \/ how = "whole" /\ d = "Int64" /\ (IsNull(cell) \/ cell.kind = "int")
    \/ how = "number" /\ d = "Float64" /\ (IsNull(cell) \/ Number(cell) # Nothing)
    \/ how = "text" /\ d = "String"
  PROVE /\ Valued(d, cell) = Nothing <=> IsNull(cell)
        /\ ~IsNull(cell) => /\ Rank(d, Valued(d, cell)) = Key(how, cell) /\ Key(how, cell) \in Int
                            /\ how # "number" => CastText(d, Valued(d, cell)) = Text(cell)
<1>1. Nothing \notin Int
  BY MarksApart
<1>2. CASE IsNull(cell)
  BY <1>2 DEF Valued
<1>3. CASE ~IsNull(cell) /\ how \in {"flag", "whole"}
  <2>1. cell.kind \in {"bool", "int"} /\ cell.val \in Int
    BY <1>3, CellsReadable
  <2>2. Valued(d, cell) = cell.val /\ d \in {"Boolean", "Int64"}
    BY <1>3 DEF Valued
  <2>3. Rank(d, cell.val) = cell.val /\ Key(how, cell) = cell.val
    BY <1>3, <2>2 DEF Rank, Key
  <2>4. CastText(d, cell.val) = Text(cell)
    <3>1. CASE d = "Boolean"
      <4>1. cell.kind = "bool"
        BY <1>3, <3>1
      <4>2. Cell("bool", cell.val).kind = "bool" /\ Cell("bool", cell.val).val = cell.val
        BY DEF Cell
      <4> QED
        BY <3>1, <4>1, <4>2 DEF CastText, Text
    <3>2. CASE d = "Int64"
      <4>1. cell.kind = "int"
        BY <1>3, <3>2
      <4> QED
        BY <3>2, <4>1 DEF CastText, Text
    <3> QED
      BY <2>2, <3>1, <3>2
  <2> QED
    BY <1>1, <1>3, <2>1, <2>2, <2>3, <2>4
<1>4. CASE ~IsNull(cell) /\ how = "number"
  <2>1. d = "Float64" /\ Valued(d, cell) = Number(cell)
    BY <1>4 DEF Valued
  <2>2. Number(cell) \in Int
    BY <1>4, NumberIs
  <2>3. Rank(d, Number(cell)) = Number(cell) /\ Key(how, cell) = Number(cell)
    BY <1>4, <2>1 DEF Rank, Key
  <2> QED
    BY <1>1, <1>4, <2>1, <2>2, <2>3
<1>5. CASE ~IsNull(cell) /\ how = "text"
  <2>1. d = "String" /\ Valued(d, cell) = Text(cell)
    BY <1>5 DEF Valued
  <2>2. Text(cell) \in Int /\ TextRank[Text(cell)] \in Int
    BY <1>5, CellsReadable, TextsAreNumbers
  <2>3. Rank(d, Text(cell)) = TextRank[Text(cell)] /\ Key(how, cell) = TextRank[Text(cell)] /\ CastText(d, Text(cell)) = Text(cell)
    BY <1>5, <2>1 DEF Rank, Key, CastText
  <2> QED
    BY <1>1, <1>5, <2>1, <2>2, <2>3
<1> QED
  BY <1>2, <1>3, <1>4, <1>5

LEMMA ColumnTells == ASSUME NEW r, NEW rows, NEW w, Telling(r, rows, w), NEW i \in 1..Len(r.columns),
    NEW positions, Picked(positions, Len(rows)), NEW how,
    how = How({rows[n][i] : n \in ToSet(positions)}, r.columns[i].class)
  PROVE KeyedBy(Projected(r, i, positions), rows, positions, i, how)
<1>1. PICK column, class, d, cells : /\ column = Column(r, i) /\ class = r.columns[i].class /\ d = ColumnType(r, i, positions)
                                     /\ cells = {rows[n][i] : n \in ToSet(positions)}
  OBVIOUS
<1>2. DOMAIN positions = 1..Len(positions) /\ ToSet(positions) = {positions[k] : k \in 1..Len(positions)}
  BY Ranging DEF Picked
<1>3. \A n \in ToSet(positions) : n \in 1..Len(rows)
  BY <1>2 DEF Picked
<1>4. w \in Worlds /\ \A n \in 1..Len(rows) : rows[n][i] \in CellsIn(w) /\ Whole(rows[n][i]) /\ CellOf(r, n, i) = rows[n][i]
  BY DEF Telling
<1>5. \A n \in 1..Len(rows) : CellAt(column, n) = rows[n][i]
  BY <1>1, <1>4 DEF CellOf
<1>6. {CellAt(column, row) : row \in ToSet(positions)} = cells
  BY <1>1, <1>3, <1>5
<1>7. d = TypeOfCells(column, class, cells) /\ how = How(cells, class)
  BY <1>1, <1>6 DEF ColumnType
<1>8. /\ column.dtype \in Natives \cup {"Null", "Object"}
      /\ column.dtype \in Natives => \A n \in 1..Len(rows) : IsNull(rows[n][i]) \/ rows[n][i].kind = NativeKinds[column.dtype]
  <2>1. column.dtype \in Natives \cup {"Null", "Object"}
    BY <1>1, ValuesTell
  <2>2. ASSUME column.dtype \in Natives, NEW n \in 1..Len(rows), ~IsNull(rows[n][i]) PROVE rows[n][i].kind = NativeKinds[column.dtype]
    <3>1. rows[n][i] = Cell(NativeKinds[column.dtype], column.values[n])
      BY <1>1, <2>2, ValuesTell
    <3> QED
      BY <3>1 DEF Cell
  <2> QED
    BY <2>1, <2>2
<1>9. cells \in SUBSET CellsIn(w) /\ (column.dtype \in Natives => \A c \in cells : IsNull(c) \/ c.kind = NativeKinds[column.dtype])
  BY <1>1, <1>3, <1>4, <1>8
<1>10. \/ how = "flag" /\ d = "Boolean" /\ \A c \in cells : IsNull(c) \/ c.kind = "bool"
       \/ how = "whole" /\ d = "Int64" /\ \A c \in cells : IsNull(c) \/ c.kind = "int"
       \/ how = "number" /\ d = "Float64" /\ \A c \in cells : IsNull(c) \/ Number(c) # Nothing
       \/ how = "text" /\ d = "String"
  BY <1>4, <1>7, <1>8, <1>9, TypeMeans
<1>11. PICK projected : projected = Projected(r, i, positions)
  OBVIOUS
<1>12. projected.dtype = d /\ \A p \in 1..Len(positions) : projected.values[p] = Valued(d, CellOf(r, positions[p], i))
  <2>1. projected = [dtype |-> d, values |-> [p \in 1..Len(positions) |-> Valued(d, CellOf(r, positions[p], i))]]
    BY <1>1, <1>2, <1>11 DEF Projected, Cast, Valued
  <2> QED
    BY <2>1
<1>13. ASSUME NEW p \in 1..Len(positions)
       PROVE LET cell == rows[positions[p]][i] value == projected.values[p]
             IN /\ value = Nothing <=> IsNull(cell)
                /\ ~IsNull(cell) => /\ Rank(projected.dtype, value) = Key(how, cell) /\ Key(how, cell) \in Int
                                    /\ how # "number" => CastText(projected.dtype, value) = Text(cell)
  <2>1. PICK n, cell : n = positions[p] /\ cell = rows[n][i]
    OBVIOUS
  <2>2. n \in 1..Len(rows) /\ n \in ToSet(positions) /\ cell \in cells
    BY <1>1, <1>2, <2>1 DEF Picked
  <2>3. cell \in CellsIn(w) /\ Whole(cell) /\ CellOf(r, n, i) = cell
    BY <1>4, <2>1, <2>2
  <2>4. projected.values[p] = Valued(d, cell) /\ projected.dtype = d
    BY <1>12, <2>1, <2>3
  <2>5. \/ how = "flag" /\ d = "Boolean" /\ (IsNull(cell) \/ cell.kind = "bool")
        \/ how = "whole" /\ d = "Int64" /\ (IsNull(cell) \/ cell.kind = "int")
        \/ how = "number" /\ d = "Float64" /\ (IsNull(cell) \/ Number(cell) # Nothing)
        \/ how = "text" /\ d = "String"
    BY <1>10, <2>2
  <2>6. /\ Valued(d, cell) = Nothing <=> IsNull(cell)
        /\ ~IsNull(cell) => /\ Rank(d, Valued(d, cell)) = Key(how, cell) /\ Key(how, cell) \in Int
                            /\ how # "number" => CastText(d, Valued(d, cell)) = Text(cell)
    BY <1>4, <2>3, <2>5, ValueTells
  <2> QED
    BY <2>1, <2>4, <2>6
<1>14. how \in {"flag", "whole", "number", "text"} /\ d = DtypeOf[how]
  BY <1>10 DEF DtypeOf
<1> QED
  BY <1>11, <1>12, <1>13, <1>14 DEF KeyedBy


-----------------------------------------------------------------------------
(* A sort by keys in turn, and then by place, is an order *)

\* What one key says: nothing is before what is before it, and what is between is before or behind.
Weak(R, S) ==
  /\ \A x, y \in S : <<x, y>> \in R => <<y, x>> \notin R
  /\ \A x, y, z \in S : <<x, y>> \in R => <<x, z>> \in R \/ <<z, y>> \in R
Even(R, x, y) == <<x, y>> \notin R /\ <<y, x>> \notin R
InTurn(e, m, x, y) ==
  \/ \E n \in 1..m : <<x, y>> \in e[n] /\ \A k \in 1..(n - 1) : Even(e[k], x, y)
  \/ x < y /\ \A k \in 1..m : Even(e[k], x, y)

LEMMA WeakSteps == ASSUME NEW S, NEW R, Weak(R, S), NEW x \in S, NEW y \in S, NEW z \in S
  PROVE /\ Even(R, x, y) /\ Even(R, y, z) => Even(R, x, z)
        /\ <<x, y>> \in R /\ Even(R, y, z) => <<x, z>> \in R
        /\ Even(R, x, y) /\ <<y, z>> \in R => <<x, z>> \in R
        /\ <<x, y>> \in R /\ <<y, z>> \in R => <<x, z>> \in R
        /\ Even(R, x, x)
BY DEF Weak, Even

LEMMA InTurnOrders == ASSUME NEW S \in SUBSET Nat, NEW m \in Nat, NEW e, \A k \in 1..m : Weak(e[k], S)
  PROVE Orders({pq \in S \X S : InTurn(e, m, pq[1], pq[2])}, S)
<1> DEFINE R == {pq \in S \X S : InTurn(e, m, pq[1], pq[2])}
<1>1. \A x, y \in S : <<x, y>> \in R <=> InTurn(e, m, x, y)
  OBVIOUS
<1>2. ASSUME NEW x \in S PROVE ~InTurn(e, m, x, x)
  <2>1. \A k \in 1..m : Even(e[k], x, x)
    BY WeakSteps
  <2> QED
    BY <2>1 DEF InTurn, Even
<1>3. ASSUME NEW x \in S, NEW y \in S, x # y PROVE InTurn(e, m, x, y) \/ InTurn(e, m, y, x)
  <2>1. CASE \A k \in 1..m : Even(e[k], x, y)
    <3>1. \A k \in 1..m : Even(e[k], y, x)
      BY <2>1 DEF Even
    <3>2. x < y \/ y < x
      BY <1>3
    <3> QED
      BY <2>1, <3>1, <3>2 DEF InTurn
  <2>2. CASE \E k \in 1..m : ~Even(e[k], x, y)
    <3> DEFINE T == {k \in 1..m : ~Even(e[k], x, y)}
    <3>1. T \in SUBSET Nat /\ T # {}
      BY <2>2
    <3>2. PICK n \in T : \A k \in T : n <= k
      <4> HIDE DEF T
      <4> QED
        BY <3>1, Least
    <3>3. n \in 1..m /\ \A k \in 1..(n - 1) : k \in 1..m /\ k \notin T
      BY <3>2
    <3>4. \A k \in 1..(n - 1) : Even(e[k], x, y) /\ Even(e[k], y, x)
      BY <3>3 DEF Even
    <3>5. <<x, y>> \in e[n] \/ <<y, x>> \in e[n]
      BY <3>2 DEF Even
    <3> QED
      BY <3>3, <3>4, <3>5 DEF InTurn
  <2> QED
    BY <2>1, <2>2
<1>4. ASSUME NEW x \in S, NEW y \in S, NEW z \in S, InTurn(e, m, x, y), InTurn(e, m, y, z) PROVE InTurn(e, m, x, z)
  <2>1. \A k \in 1..m : /\ Even(e[k], x, y) /\ Even(e[k], y, z) => Even(e[k], x, z)
                        /\ <<x, y>> \in e[k] /\ Even(e[k], y, z) => <<x, z>> \in e[k]
                        /\ Even(e[k], x, y) /\ <<y, z>> \in e[k] => <<x, z>> \in e[k]
                        /\ <<x, y>> \in e[k] /\ <<y, z>> \in e[k] => <<x, z>> \in e[k]
    BY WeakSteps
  <2>2. CASE (\A k \in 1..m : Even(e[k], x, y)) /\ (\A k \in 1..m : Even(e[k], y, z))
    <3>1. \A k \in 1..m : <<x, y>> \notin e[k] /\ <<y, z>> \notin e[k]
      BY <2>2 DEF Even
    <3>2. x < y /\ y < z
      BY <1>4, <3>1 DEF InTurn
    <3>3. x < z
      BY <3>2
    <3> QED
      BY <2>1, <2>2, <3>3 DEF InTurn
  <2>3. ASSUME NEW n \in 1..m, <<x, y>> \in e[n], \A k \in 1..(n - 1) : Even(e[k], x, y), \A k \in 1..m : Even(e[k], y, z)
        PROVE InTurn(e, m, x, z)
    <3>1. \A k \in 1..(n - 1) : k \in 1..m
      OBVIOUS
    <3>2. <<x, z>> \in e[n] /\ \A k \in 1..(n - 1) : Even(e[k], x, z)
      BY <2>1, <2>3, <3>1
    <3> QED
      BY <3>2 DEF InTurn
  <2>4. ASSUME NEW n \in 1..m, <<y, z>> \in e[n], \A k \in 1..(n - 1) : Even(e[k], y, z), \A k \in 1..m : Even(e[k], x, y)
        PROVE InTurn(e, m, x, z)
    <3>1. \A k \in 1..(n - 1) : k \in 1..m
      OBVIOUS
    <3>2. <<x, z>> \in e[n] /\ \A k \in 1..(n - 1) : Even(e[k], x, z)
      BY <2>1, <2>4, <3>1
    <3> QED
      BY <3>2 DEF InTurn
  <2>5. ASSUME NEW a \in 1..m, <<x, y>> \in e[a], \A k \in 1..(a - 1) : Even(e[k], x, y),
               NEW b \in 1..m, <<y, z>> \in e[b], \A k \in 1..(b - 1) : Even(e[k], y, z)
        PROVE InTurn(e, m, x, z)
    <3>1. PICK n \in 1..m : n = IF a <= b THEN a ELSE b
      OBVIOUS
    <3>2. \A k \in 1..(n - 1) : k \in 1..m /\ k \in 1..(a - 1) /\ k \in 1..(b - 1)
      BY <3>1
    <3>3. \A k \in 1..(n - 1) : Even(e[k], x, z)
      BY <2>1, <2>5, <3>2
    <3>4. CASE a < b
      <4>1. n = a /\ a \in 1..(b - 1)
        BY <3>1, <3>4
      <4>2. <<x, z>> \in e[n]
        BY <2>1, <2>5, <4>1
      <4> QED
        BY <3>3, <4>2 DEF InTurn
    <3>5. CASE b < a
      <4>1. n = b /\ b \in 1..(a - 1)
        BY <3>1, <3>5
      <4>2. <<x, z>> \in e[n]
        BY <2>1, <2>5, <4>1
      <4> QED
        BY <3>3, <4>2 DEF InTurn
    <3>6. CASE a = b
      <4>1. n = a /\ n = b
        BY <3>1, <3>6
      <4>2. <<x, z>> \in e[n]
        BY <2>1, <2>5, <4>1
      <4> QED
        BY <3>3, <4>2 DEF InTurn
    <3> QED
      BY <3>4, <3>5, <3>6
  <2> QED
    BY <1>4, <2>2, <2>3, <2>4, <2>5 DEF InTurn
<1> QED
  BY <1>1, <1>2, <1>3, <1>4 DEF Orders


\* A frame of some rows and columns: what it has stands for the cells there.
HowIn(columns, rows, positions, i) == How({rows[n][i] : n \in ToSet(positions)}, columns[i].class)
Framing(frame, columns, rows, positions, needed) ==
  /\ frame.rows = positions /\ DOMAIN frame.columns = needed
  /\ \A i \in needed : KeyedBy(frame.columns[i], rows, positions, i, HowIn(columns, rows, positions, i))

LEMMA FrameTells == ASSUME NEW r, NEW rows, NEW w, Telling(r, rows, w), NEW positions, Picked(positions, Len(rows)),
    NEW needed \in SUBSET (1..Len(r.columns))
  PROVE Framing(Projection(r, positions, needed), r.columns, rows, positions, needed)
<1>1. PICK frame : frame = Projection(r, positions, needed)
  OBVIOUS
<1>2. frame = [columns |-> [i \in needed |-> Projected(r, i, positions)], rows |-> positions]
  BY <1>1 DEF Projection
<1>3. frame.rows = positions /\ DOMAIN frame.columns = needed /\ \A i \in needed : frame.columns[i] = Projected(r, i, positions)
  BY <1>2
<1>4. \A i \in needed : KeyedBy(Projected(r, i, positions), rows, positions, i, HowIn(r.columns, rows, positions, i))
  BY ColumnTells DEF HowIn
<1> QED
  BY <1>1, <1>3, <1>4 DEF Framing

\* One key of a sort puts what it compares in an order, ties aside.
SoonerBy(frame, key, S) == {pq \in S \X S : Sooner(frame, key, pq[1], pq[2])}
LEMMA KeyIsWeak == ASSUME NEW frame, NEW columns, NEW rows, NEW positions, NEW needed, Framing(frame, columns, rows, positions, needed),
    NEW S \in SUBSET (1..Len(positions)), NEW key, key.column \in needed
  PROVE Weak(SoonerBy(frame, key, S), S)
<1>1. PICK column, i, how : column = frame.columns[key.column] /\ i = key.column /\ how = HowIn(columns, rows, positions, i)
  OBVIOUS
<1>2. KeyedBy(column, rows, positions, i, how)
  BY <1>1 DEF Framing
<1>3. PICK rank : rank = [p \in S |-> Rank(column.dtype, column.values[p])]
  OBVIOUS
<1>4. PICK gone : gone = {p \in S : column.values[p] = Nothing}
  OBVIOUS
<1>5. \A p \in S : p \notin gone => rank[p] \in Int
  <2> SUFFICES ASSUME NEW p \in S, p \notin gone PROVE rank[p] \in Int
    OBVIOUS
  <2>1. PICK cell : cell = rows[positions[p]][i]
    OBVIOUS
  <2>2. column.values[p] # Nothing /\ p \in 1..Len(positions)
    BY <1>4
  <2>3. Rank(column.dtype, column.values[p]) = Key(how, cell) /\ Key(how, cell) \in Int
    BY <1>2, <2>1, <2>2 DEF KeyedBy
  <2> QED
    BY <1>3, <2>3
<1>6. PICK d, f : d = key.descending /\ f = key.nullsFirst
  OBVIOUS
<1>7. ASSUME NEW p \in S, NEW q \in S
      PROVE <<p, q>> \in SoonerBy(frame, key, S) <=>
              IF p \in gone \/ q \in gone THEN IF f THEN p \in gone /\ q \notin gone ELSE p \notin gone /\ q \in gone
              ELSE IF d THEN rank[p] > rank[q] ELSE rank[p] < rank[q]
  <2>1. <<p, q>> \in SoonerBy(frame, key, S) <=> Earlier(column, p, q, d, f)
    BY <1>1, <1>6 DEF SoonerBy, Sooner
  <2>2. (column.values[p] = Nothing <=> p \in gone) /\ (column.values[q] = Nothing <=> q \in gone)
    BY <1>4
  <2>3. Rank(column.dtype, column.values[p]) = rank[p] /\ Rank(column.dtype, column.values[q]) = rank[q]
    BY <1>3
  <2> QED
    BY <2>1, <2>2, <2>3 DEF Earlier
<1>8. PICK R : R = SoonerBy(frame, key, S)
  OBVIOUS
<1>9. ASSUME NEW x \in S, NEW y \in S, <<x, y>> \in R PROVE <<y, x>> \notin R
  BY <1>5, <1>7, <1>8, <1>9
<1>10. ASSUME NEW x \in S, NEW y \in S, NEW z \in S, <<x, y>> \in R PROVE <<x, z>> \in R \/ <<z, y>> \in R
  <2>1. CASE x \in gone \/ y \in gone
    BY <1>7, <1>8, <1>10, <2>1
  <2>2. CASE x \notin gone /\ y \notin gone /\ z \in gone
    BY <1>7, <1>8, <1>10, <2>2
  <2>3. CASE x \notin gone /\ y \notin gone /\ z \notin gone
    <3>1. rank[x] \in Int /\ rank[y] \in Int /\ rank[z] \in Int
      BY <1>5, <2>3
    <3> QED
      BY <1>7, <1>8, <1>10, <2>3, <3>1
  <2> QED
    BY <2>1, <2>2, <2>3
<1> QED
  BY <1>8, <1>9, <1>10 DEF Weak

\* The places a sort puts in order are all there, each once.
InOrderOf(frame, keys, S) == {pq \in S \X S : Before(frame, keys, pq[1], pq[2])}
LEMMA SortedIs == ASSUME NEW frame, NEW columns, NEW rows, NEW positions, NEW needed, Framing(frame, columns, rows, positions, needed),
    Len(positions) \in Nat, NEW S \in SUBSET (1..Len(positions)), NEW keys, Listed(keys), \A k \in 1..Len(keys) : keys[k].column \in needed
  PROVE Lists(Sorted(frame, S, keys), InOrderOf(frame, keys, S), S)
<1>1. PICK m \in Nat, n \in Nat : m = Len(keys) /\ n = Len(positions) /\ DOMAIN keys = 1..m
  BY Ranging DEF Listed
<1>2. PICK e : e = [k \in 1..m |-> SoonerBy(frame, keys[k], S)]
  OBVIOUS
<1>3. ASSUME NEW k \in 1..m PROVE Weak(e[k], S)
  <2>1. keys[k].column \in needed
    BY <1>1
  <2>2. Weak(SoonerBy(frame, keys[k], S), S)
    BY <2>1, KeyIsWeak
  <2> QED
    BY <1>2, <2>2
<1>4. ASSUME NEW p \in S, NEW q \in S PROVE Before(frame, keys, p, q) <=> InTurn(e, m, p, q)
  <2>1. \A k \in 1..m : /\ <<p, q>> \in e[k] <=> Sooner(frame, keys[k], p, q)
                        /\ <<q, p>> \in e[k] <=> Sooner(frame, keys[k], q, p)
    BY <1>2 DEF SoonerBy
  <2>2. \A k \in 1..m : Even(e[k], p, q) <=> Tied(frame, keys[k], p, q)
    BY <2>1 DEF Even, Tied
  <2>3. \A j \in 1..m : \A k \in 1..(j - 1) : k \in 1..m
    OBVIOUS
  <2> QED
    BY <1>1, <2>1, <2>2, <2>3 DEF Before, InTurn
<1>5. InOrderOf(frame, keys, S) = {pq \in S \X S : InTurn(e, m, pq[1], pq[2])}
  BY <1>4 DEF InOrderOf
<1>6. S \in SUBSET Nat /\ IsFiniteSet(S)
  <2>1. IsFiniteSet(1..n) /\ S \subseteq 1..n
    BY <1>1, FS_Interval
  <2>2. IsFiniteSet(S)
    BY <2>1, FS_Subset
  <2>3. S \in SUBSET Nat
    BY <1>1
  <2> QED
    BY <2>2, <2>3
<1>7. Orders(InOrderOf(frame, keys, S), S)
  BY <1>3, <1>5, <1>6, InTurnOrders
<1>8. PICK R : R = InOrderOf(frame, keys, S)
  OBVIOUS
<1>9. Lists(Arranged(S, R), R, S)
  BY <1>6, <1>7, <1>8, ArrangedIs
<1> QED
  BY <1>8, <1>9 DEF Sorted, InOrderOf


\* The frame kept for views is of all the rows and columns there are.
AllOf(rows) == [n \in 1..Len(rows) |-> n]
CacheInv == Kept(live) => Framing(live.cache, live.columns, truth, AllOf(truth), 1..Len(live.columns))

LEMMA AllPicked == ASSUME NEW rows, Listed(rows) PROVE Picked(AllOf(rows), Len(rows)) /\ Len(AllOf(rows)) = Len(rows)
<1>1. PICK n \in Nat, f \in {AllOf(rows)} : f = AllOf(rows) /\ n = Len(rows)
  BY DEF Listed
<1>2. f = [k \in 1..n |-> f[k]] /\ \A k \in 1..n : f[k] = k
  BY <1>1 DEF AllOf
<1>3. Listed(f) /\ Len(f) = n
  BY <1>2, ListMade
<1> QED
  BY <1>1, <1>2, <1>3 DEF Picked

LEMMA CacheInitInv == DataInit => CacheInv
<1> SUFFICES ASSUME DataInit PROVE CacheInv
  OBVIOUS
<1>1. live.cache = None
  BY DEF DataInit, NewResult
<1> QED
  BY <1>1 DEF CacheInv, Kept

LEMMA CacheGone == ASSUME live'.cache = None PROVE CacheInv'
BY DEF CacheInv, Kept

LEMMA CacheSame == ASSUME CacheInv, live'.cache = live.cache, live'.columns = live.columns, truth' = truth PROVE CacheInv'
BY DEF CacheInv, Kept

\* A read makes columns of the buffers, and leaves the rest.
LEMMA FinalKeeps == ASSUME DataInv, CacheInv, live' = Finalized(live), truth' = truth PROVE CacheInv'
<1>1. BuiltOf(live, truth, CellsIn(world))
  BY DEF DataInv, Keeping, Fits
<1>2. PICK r, f, p : r = live /\ live' = [r EXCEPT !.frame = f, !.pending = p]
  BY DEF Finalized
<1>3. live'.cache = r.cache /\ live'.columns = r.columns
  BY <1>1, <1>2 DEF BuiltOf
<1> QED
  BY <1>2, <1>3, CacheSame

LEMMA EnrichForgets == ASSUME DataInv, Enrich PROVE live'.cache = None
<1>1. BuiltOf(live, truth, CellsIn(world))
  BY DEF DataInv, Keeping, Fits
<1>2. PICK r, later, next : r = live /\ live' = next /\ next = Enriched(r, 1, later, "primary")
  BY DEF Enrich
<1>3. r = [columns |-> r.columns, pending |-> r.pending, frame |-> r.frame, cache |-> r.cache, rows |-> r.rows,
           truncated |-> r.truncated, affected |-> r.affected]
  BY <1>1, <1>2 DEF BuiltOf
<1>4. next.cache = None
  BY <1>2, <1>3 DEF Enriched
<1> QED
  BY <1>2, <1>4

LEMMA DescribeForgets == ASSUME DataInv, Describe PROVE live'.cache = None
<1>1. live.columns = <<>> /\ BuiltOf(live, truth, CellsIn(world)) /\ Fits(world, live, truth)
  BY DEF DataInv, Keeping, Fits, Describe
<1>2. truth = <<>> /\ live.rows = 0
  <2>1. truth = <<>>
    BY <1>1, NoColumns, NothingListed DEF Fits
  <2> QED
    BY <1>1, <2>1, NothingListed DEF BuiltOf
<1>3. PICK r, columns : r = live /\ live' = AdoptColumns(r, columns)
  BY DEF Describe
<1>4. live' = [r EXCEPT !.frame = None, !.cache = None, !.columns = columns, !.pending = [i \in DOMAIN columns |-> <<>>]]
  BY <1>1, <1>2, <1>3 DEF AdoptColumns
<1> QED
  BY <1>1, <1>3, <1>4 DEF BuiltOf

LEMMA SearchFrames == ASSUME DataInv, CacheInv, Search PROVE CacheInv'
<1>1. truth' = truth
  BY DEF Search
<1>2. PICK want \in Views, fits \in BOOLEAN : want.scope = None /\ live' = AfterView(live, want, fits)
  BY DEF Search
<1>3. CASE live' = live
  BY <1>1, <1>3, CacheSame
<1>4. CASE live' # live
  <2>1. PICK r, cache : /\ r = live
                        /\ cache = IF fits THEN Projection(r, Positions(r, None), DOMAIN r.columns) ELSE Declined
                        /\ live' = [r EXCEPT !.cache = cache]
    BY <1>2, <1>4 DEF AfterView
  <2>2. BuiltOf(r, truth, CellsIn(world))
    BY <2>1 DEF DataInv, Keeping, Fits
  <2>3. live'.cache = cache /\ live'.columns = r.columns
    BY <2>1, <2>2 DEF BuiltOf
  <2>4. CASE ~fits
    <3>1. cache = Declined
      BY <2>1, <2>4
    <3> QED
      BY <2>3, <3>1 DEF CacheInv, Kept
  <2>5. CASE fits
    <3>1. Telling(r, truth, world)
      BY <2>1, LiveTells
    <3>2. r.rows = Len(truth) /\ Listed(truth) /\ Listed(r.columns)
      BY <3>1 DEF Telling
    <3>3. Positions(r, None) = AllOf(truth)
      BY <3>2 DEF Positions, AllOf
    <3>4. DOMAIN r.columns = 1..Len(r.columns)
      BY <3>2, Ranging
    <3>5. Framing(Projection(r, AllOf(truth), 1..Len(r.columns)), r.columns, truth, AllOf(truth), 1..Len(r.columns))
      <4>1. Picked(AllOf(truth), Len(truth)) /\ 1..Len(r.columns) \in SUBSET (1..Len(r.columns))
        BY <3>2, AllPicked
      <4> QED
        BY <3>1, <4>1, FrameTells
    <3>6. Framing(cache, r.columns, truth, AllOf(truth), 1..Len(r.columns))
      BY <2>1, <2>5, <3>3, <3>4, <3>5
    <3> QED
      BY <1>1, <2>3, <3>6 DEF CacheInv
  <2> QED
    BY <2>4, <2>5
<1> QED
  BY <1>3, <1>4

LEMMA CacheNextInv == ASSUME DataInv, CacheInv, [DataNext]_dataVars PROVE CacheInv'
<1>1. CASE UNCHANGED dataVars
  BY <1>1, CacheSame DEF dataVars
<1>2. CASE Describe
  BY <1>2, DescribeForgets, CacheGone
<1>3. CASE Push
  <2>1. BuiltOf(live, truth, CellsIn(world))
    BY DEF DataInv, Keeping, Fits
  <2>2. PICK row : live' = PushRow(live, row)
    BY <1>3 DEF Push
  <2>3. live'.cache = None
    BY <2>1, <2>2, PushForgets
  <2> QED
    BY <2>3, CacheGone
<1>4. CASE Read
  BY <1>4, FinalKeeps DEF Read
<1>5. CASE Enrich
  BY <1>5, EnrichForgets, CacheGone
<1>6. CASE Search
  BY <1>6, SearchFrames
<1>7. CASE Clone
  BY <1>7, FinalKeeps DEF Clone
<1>8. CASE Save
  BY <1>8, FinalKeeps DEF Save
<1>9. CASE Restore
  <2>1. file # None /\ live' = Unarchive(file.archive) /\ world \in Worlds /\ Filed(world, file)
    BY <1>9 DEF Restore, DataInv, Keeping
  <2>2. live'.cache = None
    BY <2>1, FiledReopens
  <2> QED
    BY <2>2, CacheGone
<1> QED
  BY <1>1, <1>2, <1>3, <1>4, <1>5, <1>6, <1>7, <1>8, <1>9 DEF DataNext

\* The frame kept for views is of the rows and columns there are, whatever was pushed, learned
\* of a column, saved or reopened since it was made (view/cache.rs).
THEOREM CacheInvariant == DataSpec => []CacheInv
<1>1. DataInit => CacheInv
  BY CacheInitInv
<1>2. DataInv /\ CacheInv /\ [DataNext]_dataVars => CacheInv'
  BY CacheNextInv
<1> QED
  BY <1>1, <1>2, DataInvariant, PTL DEF DataSpec


-----------------------------------------------------------------------------
(* What a view shows *)

Askable(want) ==
  /\ want.scope = None \/ want.scope \in Seq(Nat \ {0})
  /\ \A f \in ToSet(want.filters) :
       /\ f.column \in Nat \cup {None} /\ f.op \in Comparing \cup {"is_null", "not_null", "contains", "starts_with"}
       /\ f.op \in Comparing => f.value \in ToSet(TextOrder)
  /\ Listed(want.sort)

LEMMA ViewsAreAskable == ASSUME NEW want \in Views PROVE Askable(want)
BY ViewsGiven DEF Askable, Listed

\* The rows in scope, by their numbers.
LEMMA ScopePicked == ASSUME DataInv, NEW want, Askable(want)
  PROVE Picked(Positions(live, want.scope), Len(truth)) /\ InScope(want) = Positions(live, want.scope)
<1>1. Telling(live, truth, world)
  BY LiveTells
<1>2. PICK n \in Nat : n = Len(truth) /\ live.rows = n /\ Listed(truth) /\ DOMAIN truth = 1..n
  BY <1>1, Ranging DEF Telling, Listed
<1>3. CASE want.scope = None
  <2>1. Positions(live, want.scope) = AllOf(truth) /\ InScope(want) = AllOf(truth)
    BY <1>2, <1>3 DEF Positions, InScope, AllOf
  <2> QED
    BY <1>2, <2>1, AllPicked
<1>4. CASE want.scope # None
  <2>1. PICK scope : scope = want.scope
    OBVIOUS
  <2>2. scope \in Seq(Nat \ {0}) /\ scope # None
    BY <1>4, <2>1 DEF Askable
  <2>3. PICK m \in Nat : m = Len(scope) /\ DOMAIN scope = 1..m
    BY <2>2
  <2>4. PICK S : S = {k \in DOMAIN scope : scope[k] <= n}
    OBVIOUS
  <2>5. S \in SUBSET (1..m) /\ \A k \in S : scope[k] \in 1..n
    BY <2>2, <2>3, <2>4
  <2>6. Positions(live, want.scope) = Those(scope, S) /\ InScope(want) = Those(scope, S)
    BY <1>2, <2>1, <2>2, <2>4 DEF Positions, InScope
  <2>7. Picked(Those(scope, S), n)
    BY <2>3, <2>5, ThosePicked
  <2> QED
    BY <1>2, <2>6, <2>7
<1> QED
  BY <1>3, <1>4

\* The frame a view is computed on: the one kept, or one of its own.
LEMMA FrameOfView == ASSUME DataInv, CacheInv, NEW want, Askable(want)
  PROVE \E needed \in SUBSET (1..Len(live.columns)) :
          /\ Needed(live, want) \subseteq needed
          /\ Framing(Frame(live, want), live.columns, truth, Positions(live, want.scope), needed)
<1>1. Telling(live, truth, world)
  BY LiveTells
<1>2. Listed(truth) /\ live.rows = Len(truth) /\ Listed(live.columns) /\ DOMAIN live.columns = 1..Len(live.columns)
  BY <1>1, Ranging DEF Telling
<1>3. Needed(live, want) \in SUBSET (1..Len(live.columns))
  BY <1>2 DEF Needed
<1>4. Picked(Positions(live, want.scope), Len(truth))
  BY ScopePicked
<1>5. CASE want.scope = None /\ Kept(live)
  <2>1. Frame(live, want) = live.cache /\ Positions(live, want.scope) = AllOf(truth)
    BY <1>2, <1>5 DEF Frame, Positions, AllOf
  <2>2. Framing(live.cache, live.columns, truth, AllOf(truth), 1..Len(live.columns))
    BY <1>5 DEF CacheInv
  <2> QED
    BY <1>3, <2>1, <2>2
<1>6. CASE ~(want.scope = None /\ Kept(live))
  <2>1. Frame(live, want) = Projection(live, Positions(live, want.scope), Needed(live, want))
    BY <1>6 DEF Frame
  <2>2. Framing(Projection(live, Positions(live, want.scope), Needed(live, want)), live.columns, truth,
                Positions(live, want.scope), Needed(live, want))
    BY <1>1, <1>3, <1>4, FrameTells
  <2> QED
    BY <1>3, <2>1, <2>2
<1> QED
  BY <1>5, <1>6

\* The keys of a sort are columns that are there, and in the frame.
LEMMA KeysTell == ASSUME DataInv, NEW want, Askable(want), want.order # None => NamedBy(live, want.order) # {}
  PROVE Listed(SortKeys(live, want)) /\ \A k \in 1..Len(SortKeys(live, want)) : SortKeys(live, want)[k].column \in Needed(live, want)
<1>1. PICK keys : keys = SortKeys(live, want)
  OBVIOUS
<1>2. CASE want.order # None
  <2>1. PICK i, key : /\ i = (CHOOSE j \in DOMAIN live.columns : Names(live.columns)[j] = want.order.name)
                      /\ key = [column |-> i, descending |-> want.order.descending, nullsFirst |-> want.order.nullsFirst]
    OBVIOUS
  <2>2. i \in DOMAIN live.columns
    BY <1>2, <2>1 DEF NamedBy
  <2>3. keys = <<key>>
    BY <1>1, <1>2, <2>1 DEF SortKeys
  <2>4. keys = [k \in 1..1 |-> key]
    BY <2>3
  <2>5. keys = [k \in 1..1 |-> keys[k]] /\ keys[1] = key
    BY <2>4
  <2>6. Listed(keys) /\ Len(keys) = 1
    BY <2>5, ListMade
  <2>7. Needed(live, want) = DOMAIN live.columns /\ key.column = i
    BY <1>2, <2>1 DEF Needed
  <2>8. \A k \in 1..Len(keys) : keys[k].column \in Needed(live, want)
    BY <2>2, <2>5, <2>6, <2>7
  <2> QED
    BY <1>1, <2>6, <2>8
<1>3. CASE want.order = None
  <2>1. PICK sort, S, known : /\ sort = want.sort /\ S = {k \in DOMAIN sort : sort[k].column \in DOMAIN live.columns}
                              /\ known = Those(sort, S)
    OBVIOUS
  <2>2. PICK m \in Nat : m = Len(sort) /\ DOMAIN sort = 1..m /\ ToSet(sort) = {sort[k] : k \in 1..m}
    BY <2>1, Ranging DEF Askable, Listed
  <2>3. S \in SUBSET (1..m)
    BY <2>1, <2>2
  <2>4. PICK at : /\ Listed(at) /\ Len(at) = Cardinality(S) /\ at \in Bijection(1..Len(at), S)
                  /\ \A i, j \in 1..Len(at) : i < j => at[i] < at[j]
                  /\ Those(sort, S) = [k \in 1..Len(at) |-> sort[at[k]]]
                  /\ Listed(Those(sort, S)) /\ Len(Those(sort, S)) = Len(at)
    BY ONLY <2>3, m \in Nat, ThoseAre
  <2>5. PICK l \in Nat : l = Len(at) /\ l = Len(known) /\ DOMAIN known = 1..l
    BY <2>1, <2>4, Ranging DEF Listed
  <2>6. \A k \in 1..l : at[k] \in S /\ known[k] = sort[at[k]]
    BY <2>1, <2>4, <2>5 DEF Bijection, Injection, Surjection
  <2>7. keys = [k \in DOMAIN known |-> [column |-> known[k].column, descending |-> known[k].descending, nullsFirst |-> FALSE]]
    BY <1>1, <1>3, <2>1 DEF SortKeys
  <2>8. keys = [k \in 1..l |-> keys[k]] /\ \A k \in 1..l : keys[k].column = known[k].column
    BY <2>5, <2>7
  <2>9. Listed(keys) /\ Len(keys) = l
    BY <2>8, ListMade
  <2>10. ASSUME NEW k \in 1..l PROVE keys[k].column \in Needed(live, want)
    <3>1. PICK key : key = sort[at[k]]
      OBVIOUS
    <3>2. key \in ToSet(want.sort) /\ key.column \in DOMAIN live.columns /\ keys[k].column = key.column
      BY <2>1, <2>2, <2>3, <2>6, <2>8, <3>1
    <3> QED
      BY <3>2 DEF Needed
  <2> QED
    BY <1>1, <2>9, <2>10
<1> QED
  BY <1>2, <1>3


\* What is left of a frame, in the order of the keys, is what a view shows.
Plainly(want) == want.filters = <<>> /\ want.sort = <<>> /\ want.where = None /\ want.order = None
Showing(want, frame, places, shown) ==
  /\ Lists(places, InOrderOf(frame, SortKeys(live, want), Left(live, want, frame)), Left(live, want, frame))
  /\ shown = [n \in 1..Len(places) |-> Positions(live, want.scope)[places[n]]]
  /\ Picked(shown, Len(truth))
LEMMA SelectTells == ASSUME DataInv, CacheInv, NEW want, Askable(want), Parses(want), ~Plainly(want)
  PROVE \E needed \in SUBSET (1..Len(live.columns)) : \E frame, places :
          /\ Needed(live, want) \subseteq needed
          /\ Framing(frame, live.columns, truth, Positions(live, want.scope), needed)
          /\ IF Refused(live, want, frame) THEN Select(live, want) = Failed ELSE Showing(want, frame, places, Select(live, want))
<1>1. PICK frame, positions : frame = Frame(live, want) /\ positions = Positions(live, want.scope)
  OBVIOUS
<1>2. PICK needed \in SUBSET (1..Len(live.columns)) :
        Needed(live, want) \subseteq needed /\ Framing(frame, live.columns, truth, positions, needed)
  BY <1>1, FrameOfView
<1>3. Picked(positions, Len(truth)) /\ frame.rows = positions
  BY <1>1, <1>2, ScopePicked DEF Framing
<1>4. PICK n \in Nat : n = Len(positions) /\ DOMAIN positions = 1..n /\ \A p \in 1..n : positions[p] \in 1..Len(truth)
  BY <1>3, Ranging DEF Picked, Listed
<1>5. Select(live, want) = RowsAt(frame, Places(live, want, frame))
  BY <1>1 DEF Select, Plainly, Framed
<1>6. CASE Refused(live, want, frame)
  <2>1. Select(live, want) = Failed
    BY <1>5, <1>6 DEF Places, RowsAt
  <2> QED
    BY <1>1, <1>2, <1>6, <2>1
<1>7. CASE ~Refused(live, want, frame)
  <2>1. PICK left, keys, places : /\ left = Left(live, want, frame) /\ keys = SortKeys(live, want)
                                  /\ places = Sorted(frame, left, keys)
    OBVIOUS
  <2>2. left \in SUBSET (1..n)
    BY <1>3, <1>4, <2>1 DEF Left
  <2>3. Listed(keys) /\ \A k \in 1..Len(keys) : keys[k].column \in needed
    <3>1. want.order # None => NamedBy(live, want.order) # {}
      BY <1>7 DEF Refused
    <3> QED
      BY <1>2, <2>1, <3>1, KeysTell
  <2>4. Lists(places, InOrderOf(frame, keys, left), left)
    BY <1>2, <1>4, <2>1, <2>2, <2>3, SortedIs
  <2>5. PICK l \in Nat : l = Len(places) /\ DOMAIN places = 1..l /\ \A k \in 1..l : places[k] \in 1..n
    <3>1. Listed(places) /\ \A k \in 1..Len(places) : places[k] \in left
      BY <2>4 DEF Lists, Bijection, Injection, Surjection
    <3> QED
      BY <2>2, <3>1, Ranging DEF Listed
  <2>6. places # Failed
    <3>1. Picked(places, n)
      BY <2>4, <2>5 DEF Picked, Lists
    <3> QED
      BY <3>1, PickedIsSeen
  <2>7. PICK shown : shown = Select(live, want)
    OBVIOUS
  <2>8. shown = [k \in 1..l |-> positions[places[k]]]
    BY <1>3, <1>5, <1>7, <2>1, <2>5, <2>6, <2>7 DEF Places, RowsAt
  <2>9. Picked(shown, Len(truth))
    <3>1. shown = [k \in 1..l |-> shown[k]]
      BY <2>8
    <3>2. Listed(shown) /\ Len(shown) = l
      BY <3>1, ListMade
    <3>3. \A k \in 1..l : shown[k] \in 1..Len(truth)
      BY <1>4, <2>5, <2>8
    <3> QED
      BY <3>2, <3>3 DEF Picked
  <2>10. Showing(want, frame, places, shown)
    BY <1>1, <2>1, <2>4, <2>5, <2>8, <2>9 DEF Showing
  <2> QED
    BY <1>1, <1>2, <1>7, <2>7, <2>10
<1> QED
  BY <1>6, <1>7

\* A view shows rows of the result, or fails.
LEMMA SelectPicked == ASSUME DataInv, CacheInv, NEW want, Askable(want)
  PROVE Select(live, want) = Failed \/ Picked(Select(live, want), Len(truth))
<1>1. CASE ~Parses(want)
  BY <1>1 DEF Select
<1>2. CASE Parses(want) /\ Plainly(want)
  <2>1. Select(live, want) = Positions(live, want.scope)
    BY <1>2 DEF Select, Plainly
  <2> QED
    BY <2>1, ScopePicked
<1>3. CASE Parses(want) /\ ~Plainly(want)
  BY <1>3, SelectTells DEF Showing
<1> QED
  BY <1>1, <1>2, <1>3

\* Pages, details, files and the clipboard carry the cells that were pushed, of the rows of the
\* window and in their order, each once: off whatever columns, frames and batches (export.rs,
\* server/calls.rs, server/exports.rs).
THEOREM OutputIsExact == DataSpec => []OutputExact
<1>1. DataInv /\ CacheInv => OutputExact
  <2> SUFFICES ASSUME DataInv, CacheInv PROVE OutputExact
    OBVIOUS
  <2>1. ASSUME NEW window \in Windows, NEW want \in Views PROVE ShownRight(window, Select(live, want))
    <3>1. PICK shown : shown = Select(live, want)
      OBVIOUS
    <3>2. shown = Failed \/ Picked(shown, Len(truth))
      BY <3>1, ViewsAreAskable, SelectPicked
    <3>3. CASE shown = Failed
      BY <3>1, <3>3 DEF ShownRight
    <3>4. CASE Picked(shown, Len(truth))
      BY <3>1, <3>4, WindowTells
    <3> QED
      BY <3>2, <3>3, <3>4
  <2> QED
    BY <2>1 DEF OutputExact
<1> QED
  BY <1>1, DataInvariant, CacheInvariant, PTL


-----------------------------------------------------------------------------
(* Filters let through what they are to *)

LEMMA OperandIs == ASSUME NEW how \in {"flag", "whole", "number", "text"}, NEW value \in ToSet(TextOrder)
  PROVE /\ Operand(DtypeOf[how], value) = Failed <=> Typed(how, value) = Failed
        /\ Rank(DtypeOf[how], Operand(DtypeOf[how], value)) = Typed(how, value)
<1>1. value \in Int /\ TextRank[value] \in Int /\ Failed \notin Int
  BY TextsAreNumbers, MarksApart
<1>2. CASE how = "flag"
  <2>1. DtypeOf[how] = "Boolean"
    BY <1>2 DEF DtypeOf
  <2> QED
    BY <1>2, <2>1 DEF Rank, Typed
<1>3. CASE how \in {"whole", "number"}
  <2>1. DtypeOf[how] = IF how = "whole" THEN "Int64" ELSE "Float64"
    BY <1>3 DEF DtypeOf
  <2> QED
    BY <1>3, <2>1 DEF Rank, Typed
<1>4. CASE how = "text"
  <2>1. DtypeOf[how] = "String"
    BY <1>4 DEF DtypeOf
  <2>2. Operand("String", value) = value
    BY DEF Operand
  <2> QED
    BY <1>1, <1>4, <2>1, <2>2 DEF Rank, Typed
<1> QED
  BY <1>2, <1>3, <1>4

\* One filter on one column of a frame.
Asks(f) == /\ f.op \in Comparing \cup {"is_null", "not_null", "contains", "starts_with"}
           /\ f.op \in Comparing => f.value \in ToSet(TextOrder)
LEMMA HoldsTells == ASSUME NEW column, NEW positions, NEW i, KeyedBy(column, truth, positions, i, HowOf(i, positions)),
    NEW p \in 1..Len(positions), NEW f, Asks(f), f.op \in {"contains", "starts_with"} => HowOf(i, positions) # "number"
  PROVE Holds(column, p, f) <=> Passing(i, positions, positions[p], f)
<1>1. PICK how, n, cell, value : /\ how = HowOf(i, positions) /\ n = positions[p]
                                 /\ cell = truth[n][i] /\ value = column.values[p]
  OBVIOUS
<1>2. /\ how \in {"flag", "whole", "number", "text"} /\ column.dtype = DtypeOf[how]
      /\ value = Nothing <=> IsNull(cell)
      /\ ~IsNull(cell) => /\ Rank(column.dtype, value) = Key(how, cell)
                          /\ how # "number" => CastText(column.dtype, value) = Text(cell)
  BY <1>1 DEF KeyedBy
<1>3. CASE f.op \in {"is_null", "not_null"}
  BY <1>1, <1>2, <1>3 DEF Holds, Passing
<1>4. CASE f.op \in {"contains", "starts_with"}
  <2>1. how # "number"
    BY <1>1, <1>4
  <2> QED
    BY <1>1, <1>2, <1>4, <2>1 DEF Holds, Passing
<1>5. CASE f.op \in Comparing
  <2>1. f.op \notin {"is_null", "not_null", "contains", "starts_with"}
    BY <1>5 DEF Comparing
  <2>2. Rank(column.dtype, Operand(column.dtype, f.value)) = Typed(how, f.value)
    BY <1>2, <1>5, OperandIs DEF Asks
  <2>3. Holds(column, p, f) <=> value # Nothing /\ Compares(f.op, Rank(column.dtype, value), Typed(how, f.value))
    BY <1>1, <2>1, <2>2 DEF Holds
  <2>4. Passing(i, positions, n, f) <=> ~IsNull(cell) /\ Compares(f.op, Key(how, cell), Typed(how, f.value))
    BY <1>1, <2>1 DEF Passing
  <2> QED
    BY <1>1, <1>2, <2>3, <2>4
<1> QED
  BY <1>3, <1>4, <1>5 DEF Asks

\* The columns a filter looks at are in the frame.
LEMMA WatchedAre == ASSUME NEW want, NEW f \in ToSet(want.filters), f.column \in Nat \cup {None}, Listed(live.columns),
    NEW needed \in SUBSET (1..Len(live.columns)), Needed(live, want) \subseteq needed, NEW frame, DOMAIN frame.columns = needed
  PROVE \A i : i \in Watched(frame, f) <=> i \in DOMAIN live.columns /\ f.column \in {None, i}
<1>1. DOMAIN live.columns = 1..Len(live.columns)
  BY Ranging
<1>2. None \notin Int
  BY MarksApart
<1>3. CASE f.column = None
  <2>1. Needed(live, want) = DOMAIN live.columns
    BY <1>3 DEF Needed
  <2> QED
    BY <1>1, <1>3, <2>1 DEF Watched
<1>4. CASE f.column # None
  <2>1. f.column \in DOMAIN live.columns => f.column \in needed
    BY DEF Needed
  <2> QED
    BY <1>1, <1>2, <1>4, <2>1 DEF Watched
<1> QED
  BY <1>3, <1>4

\* What is refused of a frame is what cannot be read.
LEMMA RefusedIs == ASSUME NEW want, Askable(want), Parses(want), want.where = None, Listed(live.columns),
    NEW needed \in SUBSET (1..Len(live.columns)), Needed(live, want) \subseteq needed, NEW frame,
    Framing(frame, live.columns, truth, InScope(want), needed)
  PROVE Refused(live, want, frame) <=> ~Sensible(want)
<1>1. PICK rows : rows = InScope(want)
  OBVIOUS
<1>2. DOMAIN frame.columns = needed /\ \A i \in needed : KeyedBy(frame.columns[i], truth, rows, i, HowOf(i, rows))
  BY <1>1 DEF Framing, HowIn, HowOf
<1>3. DOMAIN live.columns = 1..Len(live.columns)
  BY Ranging
<1>4. ASSUME NEW f \in ToSet(want.filters)
      PROVE Mistyped(frame, f) <=> \E i \in DOMAIN live.columns : f.column \in {None, i} /\ f.op \in Comparing
                                                                  /\ Typed(HowOf(i, rows), f.value) = Failed
  <2>1. f.column \in Nat \cup {None} /\ (f.op \in Comparing => f.value \in ToSet(TextOrder))
    BY DEF Askable
  <2>2. \A i : i \in Watched(frame, f) <=> i \in DOMAIN live.columns /\ f.column \in {None, i}
    BY <1>2, <2>1, WatchedAre
  <2>3. \A i : i \in Watched(frame, f) => i \in needed
    BY <1>2 DEF Watched
  <2>4. ASSUME f.op \in Comparing, NEW i \in Watched(frame, f)
        PROVE Operand(frame.columns[i].dtype, f.value) = Failed <=> Typed(HowOf(i, rows), f.value) = Failed
    <3>1. HowOf(i, rows) \in {"flag", "whole", "number", "text"} /\ frame.columns[i].dtype = DtypeOf[HowOf(i, rows)]
      BY <1>2, <2>3, <2>4 DEF KeyedBy
    <3> QED
      BY <2>1, <2>4, <3>1, OperandIs
  <2> QED
    BY <2>2, <2>4 DEF Mistyped
<1>5. NamedBy(live, want.order) = {} <=> ~\E i \in DOMAIN live.columns : Names(live.columns)[i] = want.order.name
  BY DEF NamedBy
<1>6. Refused(live, want, frame) <=> \/ \E f \in ToSet(want.filters) : Mistyped(frame, f)
                                     \/ want.order # None /\ NamedBy(live, want.order) = {}
  BY DEF Refused
<1>7. Sensible(want) <=> /\ \A f \in ToSet(want.filters), i \in DOMAIN live.columns :
                              f.column \in {None, i} /\ f.op \in Comparing => Typed(HowOf(i, rows), f.value) # Failed
                         /\ want.order # None => \E i \in DOMAIN live.columns : Names(live.columns)[i] = want.order.name
  BY <1>1 DEF Sensible
<1> QED
  BY <1>4, <1>5, <1>6, <1>7

\* The rows that are left are those every filter lets through.
Through(want, rows, n) ==
  \A f \in ToSet(want.filters) : \E i \in DOMAIN live.columns : f.column \in {None, i} /\ Passing(i, rows, n, f)
LEMMA LeftAre == ASSUME NEW want, Askable(want), want.where = None, Listed(live.columns),
    NEW needed \in SUBSET (1..Len(live.columns)), Needed(live, want) \subseteq needed, NEW frame,
    Len(InScope(want)) \in Nat, Framing(frame, live.columns, truth, InScope(want), needed), DOMAIN InScope(want) = 1..Len(InScope(want)),
    \A f \in ToSet(want.filters), i \in DOMAIN live.columns :
      f.op \in {"contains", "starts_with"} /\ f.column \in {None, i} => HowOf(i, InScope(want)) # "number"
  PROVE Left(live, want, frame) = {p \in 1..Len(InScope(want)) : Through(want, InScope(want), InScope(want)[p])}
<1>1. PICK rows : rows = InScope(want)
  OBVIOUS
<1>2. /\ frame.rows = rows /\ DOMAIN frame.columns = needed
      /\ \A i \in needed : KeyedBy(frame.columns[i], truth, rows, i, HowOf(i, rows))
  BY <1>1 DEF Framing, HowIn, HowOf
<1>3. ASSUME NEW p \in 1..Len(rows), NEW f \in ToSet(want.filters)
      PROVE Passes(frame, p, f) <=> \E i \in DOMAIN live.columns : f.column \in {None, i} /\ Passing(i, rows, rows[p], f)
  <2>1. f.column \in Nat \cup {None} /\ Asks(f)
    BY DEF Askable, Asks
  <2>2. \A i : i \in Watched(frame, f) <=> i \in DOMAIN live.columns /\ f.column \in {None, i}
    BY <1>2, <2>1, WatchedAre
  <2>3. ASSUME NEW i \in Watched(frame, f) PROVE Holds(frame.columns[i], p, f) <=> Passing(i, rows, rows[p], f)
    <3>1. i \in needed /\ i \in DOMAIN live.columns /\ f.column \in {None, i}
      BY <1>2, <2>2, <2>3 DEF Watched
    <3>2. f.op \in {"contains", "starts_with"} => HowOf(i, rows) # "number"
      BY <1>1, <3>1
    <3>3. PICK column : column = frame.columns[i]
      OBVIOUS
    <3>4. KeyedBy(column, truth, rows, i, HowOf(i, rows))
      BY <1>2, <3>1, <3>3
    <3>5. Holds(column, p, f) <=> Passing(i, rows, rows[p], f)
      BY <2>1, <3>2, <3>4, HoldsTells
    <3> QED
      BY <3>3, <3>5
  <2> QED
    BY <2>2, <2>3 DEF Passes
<1>4. Left(live, want, frame) = {p \in 1..Len(rows) : \A f \in ToSet(want.filters) : Passes(frame, p, f)}
  BY <1>1, <1>2 DEF Left
<1>5. \A p \in 1..Len(rows) : (\A f \in ToSet(want.filters) : Passes(frame, p, f)) <=> Through(want, rows, rows[p])
  BY <1>3 DEF Through
<1> QED
  BY <1>1, <1>4, <1>5


\* One key of a sort puts rows before others that may follow them, and ties those that tie.
LEMMA TiesAre == ASSUME NEW frame, NEW key, NEW rows, NEW how, how = HowOf(key.column, rows),
    KeyedBy(frame.columns[key.column], truth, rows, key.column, how), NEW p \in 1..Len(rows), NEW q \in 1..Len(rows)
  PROVE /\ Tied(frame, key, p, q) <=> Ties(key.column, rows, rows[p], rows[q])
        /\ Sooner(frame, key, p, q) => /\ ~Ties(key.column, rows, rows[p], rows[q])
                                       /\ Follows(key.column, rows, rows[p], rows[q], key.descending, key.nullsFirst)
<1>1. PICK column, i, d, f : column = frame.columns[key.column] /\ i = key.column /\ d = key.descending /\ f = key.nullsFirst
  OBVIOUS
<1>2. PICK x, y, v, u : x = truth[rows[p]][i] /\ y = truth[rows[q]][i] /\ v = column.values[p] /\ u = column.values[q]
  OBVIOUS
<1>3. PICK a, b : a = Rank(column.dtype, v) /\ b = Rank(column.dtype, u)
  OBVIOUS
<1>4. KeyedBy(column, truth, rows, i, how)
  BY <1>1
<1>5. /\ v = Nothing <=> IsNull(x)
      /\ u = Nothing <=> IsNull(y)
      /\ ~IsNull(x) => a = Key(how, x) /\ a \in Int
      /\ ~IsNull(y) => b = Key(how, y) /\ b \in Int
  <2>1. /\ v = Nothing <=> IsNull(x)
        /\ ~IsNull(x) => a = Key(how, x) /\ a \in Int
    BY <1>2, <1>3, <1>4 DEF KeyedBy
  <2>2. /\ u = Nothing <=> IsNull(y)
        /\ ~IsNull(y) => b = Key(how, y) /\ b \in Int
    BY <1>2, <1>3, <1>4 DEF KeyedBy
  <2> QED
    BY <2>1, <2>2
<1>6. Sooner(frame, key, p, q) <=>
        IF v = Nothing \/ u = Nothing THEN IF f THEN v = Nothing /\ u # Nothing ELSE v # Nothing /\ u = Nothing
        ELSE IF d THEN a > b ELSE a < b
  BY <1>1, <1>2, <1>3 DEF Sooner, Earlier
<1>7. Sooner(frame, key, q, p) <=>
        IF v = Nothing \/ u = Nothing THEN IF f THEN u = Nothing /\ v # Nothing ELSE u # Nothing /\ v = Nothing
        ELSE IF d THEN b > a ELSE b < a
  BY <1>1, <1>2, <1>3 DEF Sooner, Earlier
<1>8. PICK kx, ky : kx = Key(how, x) /\ ky = Key(how, y)
  OBVIOUS
<1>9. Follows(i, rows, rows[p], rows[q], d, f) <=>
        IF IsNull(x) \/ IsNull(y) THEN IF f THEN IsNull(x) ELSE IsNull(y) ELSE IF d THEN kx >= ky ELSE kx <= ky
  BY <1>1, <1>2, <1>8 DEF Follows
<1>10. Follows(i, rows, rows[p], rows[q], FALSE, FALSE) <=> IF IsNull(x) \/ IsNull(y) THEN IsNull(y) ELSE kx <= ky
  BY <1>1, <1>2, <1>8 DEF Follows
<1>11. Follows(i, rows, rows[q], rows[p], FALSE, FALSE) <=> IF IsNull(x) \/ IsNull(y) THEN IsNull(x) ELSE ky <= kx
  BY <1>1, <1>2, <1>8 DEF Follows
<1>12. Ties(i, rows, rows[p], rows[q]) <=> IF IsNull(x) \/ IsNull(y) THEN IsNull(x) /\ IsNull(y) ELSE kx <= ky /\ ky <= kx
  BY <1>10, <1>11 DEF Ties
<1>13. PICK ties \in BOOLEAN, follows \in BOOLEAN, sooner \in BOOLEAN, later \in BOOLEAN :
         /\ ties <=> Ties(i, rows, rows[p], rows[q]) 
         /\ follows <=> Follows(i, rows, rows[p], rows[q], d, f)
         /\ sooner <=> Sooner(frame, key, p, q) 
         /\ later <=> Sooner(frame, key, q, p)
  OBVIOUS
<1>14. (~sooner /\ ~later <=> ties) /\ (sooner => ~ties /\ follows)
  <2>1. CASE IsNull(x) \/ IsNull(y)
    BY <1>5, <1>6, <1>7, <1>9, <1>12, <1>13, <2>1
  <2>2. CASE ~IsNull(x) /\ ~IsNull(y)
    <3>1. a = kx /\ b = ky /\ kx \in Int /\ ky \in Int /\ v # Nothing /\ u # Nothing
      BY <1>5, <1>8, <2>2
    <3>2. /\ sooner <=> IF d THEN kx > ky ELSE kx < ky
          /\ later <=> IF d THEN ky > kx ELSE ky < kx
          /\ follows <=> IF d THEN kx >= ky ELSE kx <= ky
          /\ ties <=> kx <= ky /\ ky <= kx
      BY <1>6, <1>7, <1>9, <1>12, <1>13, <2>2, <3>1
    <3> QED
      BY <3>1, <3>2
  <2> QED
    BY <2>1, <2>2
<1>15. Tied(frame, key, p, q) <=> ~sooner /\ ~later
  BY <1>13 DEF Tied
<1> QED
  BY <1>1, <1>13, <1>14, <1>15


\* Rows sorted by the keys of a view are in the order it asks for.
LEMMA OrderTells == ASSUME NEW frame, NEW keys, NEW rows, NEW places, NEW S \in SUBSET (1..Len(rows)), NEW needed,
    Framing(frame, live.columns, truth, rows, needed), DOMAIN rows = 1..Len(rows), Listed(keys),
    \A k \in 1..Len(keys) : keys[k].column \in needed, Lists(places, InOrderOf(frame, keys, S), S)
  PROVE InOrder([n \in 1..Len(places) |-> rows[places[n]]], rows, keys)
<1>1. PICK shown : shown = [n \in 1..Len(places) |-> rows[places[n]]]
  OBVIOUS
<1>2. PICK l, m \in Nat : l = Len(places) /\ m = Len(keys) /\ DOMAIN keys = 1..m
  BY Ranging DEF Lists, Listed
<1>3. \A i, j \in 1..l : i < j => <<places[i], places[j]>> \in InOrderOf(frame, keys, S)
  BY <1>2 DEF Lists
<1>4. DOMAIN shown = 1..l /\ \A i \in 1..l : shown[i] = rows[places[i]]
  BY <1>1, <1>2
<1>5. ASSUME NEW i \in 1..l, NEW j \in 1..l, i < j
      PROVE \/ \E k \in DOMAIN keys :
                 /\ \A h \in 1..(k - 1) : Ties(keys[h].column, rows, shown[i], shown[j])
                 /\ ~Ties(keys[k].column, rows, shown[i], shown[j])
                 /\ Follows(keys[k].column, rows, shown[i], shown[j], keys[k].descending, keys[k].nullsFirst)
            \/ /\ \A k \in DOMAIN keys : Ties(keys[k].column, rows, shown[i], shown[j])
               /\ \E p, q \in DOMAIN rows : p < q /\ rows[p] = shown[i] /\ rows[q] = shown[j]
  <2>1. PICK p, q : p = places[i] /\ q = places[j]
    OBVIOUS
  <2>2. <<p, q>> \in InOrderOf(frame, keys, S)
    BY <1>3, <1>5, <2>1
  <2>3. p \in S /\ q \in S /\ Before(frame, keys, p, q)
    BY <2>2 DEF InOrderOf
  <2>4. p \in 1..Len(rows) /\ q \in 1..Len(rows) /\ rows[p] = shown[i] /\ rows[q] = shown[j]
    BY <1>4, <2>1, <2>3
  <2>5. ASSUME NEW k \in 1..m
        PROVE /\ Tied(frame, keys[k], p, q) <=> Ties(keys[k].column, rows, shown[i], shown[j])
              /\ Sooner(frame, keys[k], p, q) =>
                   /\ ~Ties(keys[k].column, rows, shown[i], shown[j])
                   /\ Follows(keys[k].column, rows, shown[i], shown[j], keys[k].descending, keys[k].nullsFirst)
    <3>1. PICK key, how : key = keys[k] /\ how = HowOf(key.column, rows)
      OBVIOUS
    <3>2. key.column \in needed
      BY <1>2, <3>1
    <3>3. KeyedBy(frame.columns[key.column], truth, rows, key.column, how)
      BY <3>1, <3>2 DEF Framing, HowIn, HowOf
    <3>4. /\ Tied(frame, key, p, q) <=> Ties(key.column, rows, rows[p], rows[q])
          /\ Sooner(frame, key, p, q) => /\ ~Ties(key.column, rows, rows[p], rows[q])
                                         /\ Follows(key.column, rows, rows[p], rows[q], key.descending, key.nullsFirst)
      BY <2>4, <3>1, <3>3, TiesAre
    <3> QED
      BY <2>4, <3>1, <3>4
  <2>6. CASE \E k \in 1..m : Sooner(frame, keys[k], p, q) /\ \A h \in 1..(k - 1) : Tied(frame, keys[h], p, q)
    <3>1. PICK k \in 1..m : Sooner(frame, keys[k], p, q) /\ \A h \in 1..(k - 1) : Tied(frame, keys[h], p, q)
      BY <2>6
    <3>2. \A h \in 1..(k - 1) : h \in 1..m
      OBVIOUS
    <3>3. \A h \in 1..(k - 1) : Ties(keys[h].column, rows, shown[i], shown[j])
      BY <2>5, <3>1, <3>2
    <3> QED
      BY <1>2, <2>5, <3>1, <3>3
  <2>7. CASE p < q /\ \A k \in 1..m : Tied(frame, keys[k], p, q)
    <3>1. \A k \in 1..m : Ties(keys[k].column, rows, shown[i], shown[j])
      BY <2>5, <2>7
    <3> QED
      BY <1>2, <2>4, <2>7, <3>1
  <2> QED
    BY <1>2, <2>3, <2>6, <2>7 DEF Before
<1>6. InOrder(shown, rows, keys)
  BY <1>4, <1>5 DEF InOrder
<1> QED
  BY <1>1, <1>6

\* What is left is shown as often as it is there.
CopiesAmong(rows, S, n) == Cardinality({p \in S : rows[p] = n})
ReadAt(shown, rows, places) == shown = [k \in 1..Len(places) |-> rows[places[k]]]
LEMMA CopiesTell == ASSUME NEW rows, NEW l \in Nat, DOMAIN rows = 1..l, NEW S \in SUBSET (1..l), NEW places, Listed(places),
    places \in Bijection(1..Len(places), S), NEW shown, ReadAt(shown, rows, places), NEW n
  PROVE Copies(shown, n) = CopiesAmong(rows, S, n)
<1>1. PICK m \in Nat : m = Len(places)
  BY DEF Listed
<1>2. shown = [k \in 1..m |-> rows[places[k]]]
  BY <1>1 DEF ReadAt
<1>3. PICK A, B : A = {k \in 1..m : shown[k] = n} /\ B = {p \in S : rows[p] = n}
  OBVIOUS
<1>4. PICK g : g = [k \in A |-> places[k]]
  OBVIOUS
<1>5. /\ \A k \in 1..m : places[k] \in S
      /\ \A j, k \in 1..m : places[j] = places[k] => j = k
      /\ \A p \in S : \E k \in 1..m : places[k] = p
  BY <1>1 DEF Bijection, Injection, IsInjective, Surjection
<1>6. A \in SUBSET (1..m) /\ \A k \in A : rows[places[k]] = n
  BY <1>2, <1>3
<1>7. g \in [A -> B]
  BY <1>3, <1>4, <1>5, <1>6
<1>8. \A j, k \in A : g[j] = g[k] => j = k
  BY <1>4, <1>5, <1>6
<1>9. \A p \in B : \E k \in A : g[k] = p
  <2> SUFFICES ASSUME NEW p \in B PROVE \E k \in A : g[k] = p
    OBVIOUS
  <2>1. PICK k \in 1..m : places[k] = p
    BY <1>3, <1>5
  <2>2. k \in A
    BY <1>2, <1>3, <2>1
  <2> QED
    BY <1>4, <2>1, <2>2
<1>10. g \in Bijection(A, B)
  BY <1>7, <1>8, <1>9 DEF Bijection, Injection, IsInjective, Surjection
<1>11. IsFiniteSet(A)
  <2>1. IsFiniteSet(1..m)
    BY FS_Interval
  <2> QED
    BY <1>6, <2>1, FS_Subset
<1>12. Cardinality(B) = Cardinality(A)
  BY <1>10, <1>11, FS_Bijection DEF ExistsBijection
<1>13. Copies(shown, n) = Cardinality(A)
  BY <1>2, <1>3 DEF Copies
<1> QED
  BY <1>3, <1>12, <1>13 DEF CopiesAmong

\* What a view shows that asks nothing is what is in scope.
LEMMA PlainAsked == ASSUME DataInv, NEW want, Askable(want), Parses(want), Plainly(want)
  PROVE RowsAsked(want, InScope(want), InScope(want))
<1>1. PICK rows : rows = InScope(want)
  OBVIOUS
<1>2. Picked(rows, Len(truth))
  BY <1>1, ScopePicked
<1>3. Len(truth) \in Nat
  BY LiveTells DEF Telling, Listed
<1>4. rows # Failed /\ DOMAIN rows = 1..Len(rows) /\ Len(rows) \in Nat
  BY <1>2, <1>3, PickedIsSeen DEF Picked, Listed
<1>5. ToSet(want.filters) = {}
  BY DEF Plainly, ToSet
<1>6. Sensible(want)
  BY <1>5 DEF Sensible, Plainly
<1>7. PICK keys : keys = KeysOf(want)
  OBVIOUS
<1>8. DOMAIN keys = {}
  <2>1. PICK sort, S, known : /\ sort = want.sort /\ S = {k \in DOMAIN sort : sort[k].column \in DOMAIN live.columns}
                              /\ known = Those(sort, S)
    OBVIOUS
  <2>2. PICK z \in Nat : z = 0
    OBVIOUS
  <2>3. S = {}
    BY <2>1 DEF Plainly
  <2>4. S \in SUBSET (1..z)
    BY <2>3
  <2>5. \E at : /\ Listed(at) /\ Len(at) = Cardinality(S) /\ at \in Bijection(1..Len(at), S)
                /\ \A i, j \in 1..Len(at) : i < j => at[i] < at[j]
                /\ Those(sort, S) = [k \in 1..Len(at) |-> sort[at[k]]]
                /\ Listed(Those(sort, S)) /\ Len(Those(sort, S)) = Len(at)
    BY ONLY <2>4, z \in Nat, ThoseAre
  <2>6. Listed(known) /\ Len(known) = Cardinality(S)
    BY <2>1, <2>5
  <2>7. Len(known) = 0
    BY <2>3, <2>6, FS_EmptySet
  <2>8. DOMAIN known = {}
    BY <2>6, <2>7, Ranging
  <2> QED
    BY <1>7, <2>1, <2>8 DEF KeysOf, Plainly
<1>9. InOrder(rows, rows, keys)
  BY <1>4, <1>8 DEF InOrder
<1> QED
  BY <1>1, <1>4, <1>5, <1>6, <1>7, <1>9 DEF RowsAsked


\* What a view shows that asks something is what its filters let through, in order.
LEMMA FilteredAsked == ASSUME DataInv, CacheInv, NEW want, Askable(want), Parses(want), ~Plainly(want)
  PROVE RowsAsked(want, InScope(want), Select(live, want))
<1>1. PICK rows, shown : rows = InScope(want) /\ shown = Select(live, want)
  OBVIOUS
<1>2. rows = Positions(live, want.scope) /\ Picked(rows, Len(truth))
  BY <1>1, ScopePicked
<1>3. Len(truth) \in Nat /\ Listed(live.columns)
  BY LiveTells DEF Telling, Listed
<1>4. PICK l \in Nat : l = Len(rows) /\ DOMAIN rows = 1..l
  BY <1>2, <1>3, PickedIsSeen DEF Picked, Listed
<1>5. PICK needed \in SUBSET (1..Len(live.columns)) : \E frame, places :
        /\ Needed(live, want) \subseteq needed
        /\ Framing(frame, live.columns, truth, rows, needed)
        /\ IF Refused(live, want, frame) THEN shown = Failed ELSE Showing(want, frame, places, shown)
  BY <1>1, <1>2, SelectTells
<1>6. PICK frame, places :
        /\ Needed(live, want) \subseteq needed
        /\ Framing(frame, live.columns, truth, rows, needed)
        /\ IF Refused(live, want, frame) THEN shown = Failed ELSE Showing(want, frame, places, shown)
  BY <1>5
<1>7. SUFFICES ASSUME want.where = None,
                      \A f \in ToSet(want.filters), i \in DOMAIN live.columns :
                        f.op \in {"contains", "starts_with"} /\ f.column \in {None, i} => HowOf(i, rows) # "number"
               PROVE IF ~Sensible(want) THEN shown = Failed
                     ELSE /\ shown # Failed
                          /\ \A n \in DOMAIN truth : Copies(shown, n) = IF Through(want, rows, n) THEN Copies(rows, n) ELSE 0
                          /\ InOrder(shown, rows, KeysOf(want))
  BY <1>1 DEF RowsAsked, Through
<1>8. Refused(live, want, frame) <=> ~Sensible(want)
  BY <1>1, <1>3, <1>6, <1>7, RefusedIs
<1>9. CASE ~Sensible(want)
  BY <1>6, <1>8, <1>9
<1>10. CASE Sensible(want)
  <2>1. PICK left, keys : left = Left(live, want, frame) /\ keys = SortKeys(live, want)
    OBVIOUS
  <2>2. /\ Lists(places, InOrderOf(frame, keys, left), left) /\ shown = [n \in 1..Len(places) |-> rows[places[n]]]
        /\ Picked(shown, Len(truth))
    BY <1>2, <1>6, <1>8, <1>10, <2>1 DEF Showing
  <2>3. shown # Failed
    BY <1>3, <2>2, PickedIsSeen
  <2>4. left = {p \in 1..l : Through(want, rows, rows[p])}
    <3>1. Left(live, want, frame) = {p \in 1..Len(InScope(want)) : Through(want, InScope(want), InScope(want)[p])}
      BY <1>1, <1>3, <1>4, <1>6, <1>7, LeftAre
    <3> QED
      BY <1>1, <1>4, <2>1, <3>1
  <2>5. ASSUME NEW n \in DOMAIN truth PROVE Copies(shown, n) = IF Through(want, rows, n) THEN Copies(rows, n) ELSE 0
    <3>1. left \in SUBSET (1..l)
      BY <2>4
    <3>2. Listed(places) /\ places \in Bijection(1..Len(places), left)
      BY <2>2 DEF Lists
    <3>3. ReadAt(shown, rows, places)
      BY <2>2 DEF ReadAt
    <3>4. Copies(shown, n) = CopiesAmong(rows, left, n)
      BY ONLY l \in Nat, <1>4, <3>1, <3>2, <3>3, CopiesTell
    <3>5. CASE Through(want, rows, n)
      <4>1. {p \in left : rows[p] = n} = {p \in DOMAIN rows : rows[p] = n}
        BY <1>4, <2>4, <3>5
      <4> QED
        BY <3>4, <3>5, <4>1 DEF Copies, CopiesAmong
    <3>6. CASE ~Through(want, rows, n)
      <4>1. {p \in left : rows[p] = n} = {}
        BY <2>4, <3>6
      <4> QED
        BY <3>4, <3>6, <4>1, FS_EmptySet DEF CopiesAmong
    <3> QED
      BY <3>5, <3>6
  <2>6. InOrder(shown, rows, KeysOf(want))
    <3>1. KeysOf(want) = keys
      BY <2>1 DEF KeysOf, SortKeys
    <3>2. want.order # None => NamedBy(live, want.order) # {}
      BY <1>8, <1>10 DEF Refused
    <3>3. Listed(keys) /\ \A k \in 1..Len(keys) : keys[k].column \in Needed(live, want)
      BY <2>1, <3>2, KeysTell
    <3>4. \A k \in 1..Len(keys) : keys[k].column \in needed
      BY <1>6, <3>3
    <3>5. left \in SUBSET (1..Len(rows)) /\ DOMAIN rows = 1..Len(rows)
      BY <1>4, <2>4
    <3>6. InOrder([n \in 1..Len(places) |-> rows[places[n]]], rows, keys)
      BY <1>6, <2>2, <3>3, <3>4, <3>5, OrderTells
    <3> QED
      BY <2>2, <3>1, <3>6
  <2> QED
    BY <1>10, <2>3, <2>5, <2>6
<1> QED
  BY <1>9, <1>10

\* A view shows the rows in scope that its filters let through, each as often as it is in scope,
\* in the order asked for with ties as they were, off its own frame or off the one kept from an
\* earlier view; what cannot be read is refused (view.rs, view/polars.rs, view/cache.rs).
THEOREM ViewsAreQueries == DataSpec => []ViewIsQuery
<1>1. DataInv /\ CacheInv => ViewIsQuery
  <2> SUFFICES ASSUME DataInv, CacheInv, NEW want \in Views PROVE RowsAsked(want, InScope(want), Select(live, want))
    BY DEF ViewIsQuery
  <2>1. Askable(want)
    BY ViewsAreAskable
  <2>2. CASE ~Parses(want)
    <3>1. Select(live, want) = Failed /\ ~Sensible(want)
      BY <2>2 DEF Select, Sensible
    <3> QED
      BY <3>1 DEF RowsAsked
  <2>3. CASE Parses(want) /\ Plainly(want)
    <3>1. Select(live, want) = InScope(want)
      BY <2>1, <2>3, ScopePicked DEF Select, Plainly
    <3> QED
      BY <2>1, <2>3, <3>1, PlainAsked
  <2>4. CASE Parses(want) /\ ~Plainly(want)
    BY <2>1, <2>4, FilteredAsked
  <2> QED
    BY <2>2, <2>3, <2>4
<1> QED
  BY <1>1, DataInvariant, CacheInvariant, PTL

-----------------------------------------------------------------------------
(* A cell's condition finds its row *)

LEMMA NumberedApart == ASSUME NEW name \in ColumnNames, NEW j \in Nat \ {0}, NEW k \in Nat \ {0}
  PROVE Numbered(name, j) \in ColumnNames /\ (Numbered(name, j) = Numbered(name, k) => j = k)
<1>1. PICK w \in STRING, s \in Seq(Nat) : name = [word |-> w, numbers |-> s]
  BY DEF ColumnNames
<1>2. ASSUME NEW n \in Nat \ {0}
      PROVE Numbered(name, n) = [word |-> w, numbers |-> IF n = 1 THEN s ELSE Append(s, n)]
  BY <1>1 DEF Numbered
<1>3. PICK a, b : a = (IF j = 1 THEN s ELSE Append(s, j)) /\ b = (IF k = 1 THEN s ELSE Append(s, k))
  OBVIOUS
<1>4. a \in Seq(Nat)
  BY <1>3
<1>5. a = b => j = k
  <2> SUFFICES ASSUME a = b, j # k PROVE FALSE
    OBVIOUS
  <2>1. Len(s) \in Nat /\ \A n \in Nat : Len(Append(s, n)) = Len(s) + 1 /\ Append(s, n)[Len(s) + 1] = n
    OBVIOUS
  <2>2. CASE j = 1
    <3>1. Len(s) = Len(Append(s, k))
      BY <1>3, <2>2
    <3> QED
      BY <2>1, <3>1
  <2>3. CASE k = 1
    <3>1. Len(s) = Len(Append(s, j))
      BY <1>3, <2>3
    <3> QED
      BY <2>1, <3>1
  <2>4. CASE j # 1 /\ k # 1
    <3>1. Append(s, j)[Len(s) + 1] = Append(s, k)[Len(s) + 1]
      BY <1>3, <2>4
    <3> QED
      BY <2>1, <3>1
  <2> QED
    BY <2>2, <2>3, <2>4
<1>6. Numbered(name, j) = [word |-> w, numbers |-> a] /\ Numbered(name, k) = [word |-> w, numbers |-> b]
  BY <1>2, <1>3
<1>7. Numbered(name, j) = Numbered(name, k) => a = b
  <2> SUFFICES ASSUME Numbered(name, j) = Numbered(name, k) PROVE a = b
    OBVIOUS
  <2>1. [word |-> w, numbers |-> a].numbers = [word |-> w, numbers |-> b].numbers
    BY <1>6
  <2> QED
    BY <2>1
<1> QED
  BY <1>4, <1>5, <1>6, <1>7 DEF ColumnNames

\* Of as many names as there are columns, one is not taken.
Free(taken, name, k) == ~Contains(taken, Numbered(name, k))
LEMMA OneIsFree == ASSUME NEW taken, NEW n \in Nat \ {0}, Len(taken) = n - 1, NEW name \in ColumnNames
  PROVE \E k \in 1..n : Free(taken, name, k) /\ \A j \in 1..(k - 1) : ~Free(taken, name, j)
<1>1. \E k \in 1..n : Free(taken, name, k)
  <2> SUFFICES ASSUME \A k \in 1..n : ~Free(taken, name, k) PROVE FALSE
    OBVIOUS
  <2>1. \A k \in 1..n : \E i \in 1..(n - 1) : taken[i] = Numbered(name, k)
    BY DEF Free, Contains
  <2>2. PICK f : f = [k \in 1..n |-> CHOOSE i \in 1..(n - 1) : taken[i] = Numbered(name, k)]
    OBVIOUS
  <2>3. \A k \in 1..n : f[k] \in 1..(n - 1) /\ taken[f[k]] = Numbered(name, k)
    BY <2>1, <2>2
  <2>4. f \in [1..n -> 1..(n - 1)]
    BY <2>2, <2>3
  <2>5. /\ IsFiniteSet(1..n) /\ Cardinality(1..n) = n
        /\ IsFiniteSet(1..(n - 1)) /\ Cardinality(1..(n - 1)) = n - 1
    <3>1. ASSUME NEW m \in Nat PROVE IsFiniteSet(1..m) /\ Cardinality(1..m) = m
      <4>1. 1 \in Int /\ m \in Int
        OBVIOUS
      <4>2. IsFiniteSet(1..m) /\ Cardinality(1..m) = IF 1 > m THEN 0 ELSE m - 1 + 1
        BY <4>1, FS_Interval
      <4> QED
        BY <4>2
    <3>2. n \in Nat /\ n - 1 \in Nat
      OBVIOUS
    <3> QED
      BY <3>1, <3>2
  <2>6. Cardinality(1..(n - 1)) < Cardinality(1..n)
    BY <2>5
  <2>7. PICK x \in 1..n, y \in 1..n : x # y /\ f[x] = f[y]
    BY <2>4, <2>5, <2>6, FS_PigeonHole
  <2>8. Numbered(name, x) = Numbered(name, y) /\ x \in Nat \ {0} /\ y \in Nat \ {0}
    BY <2>3, <2>7
  <2> QED
    BY <2>7, <2>8, NumberedApart
<1> DEFINE T == {k \in 1..n : Free(taken, name, k)}
<1>2. T \in SUBSET Nat /\ T # {}
  BY <1>1
<1>3. PICK k \in T : \A m \in T : k <= m
  <2> HIDE DEF T
  <2> QED
    BY <1>2, Least
<1>4. k \in 1..n /\ Free(taken, name, k)
  BY <1>3
<1>5. \A j \in 1..(k - 1) : j \in 1..n /\ j \notin T
  BY <1>3, <1>4
<1> QED
  BY <1>4, <1>5

\* The next name, after those that are taken.
NextName(taken, name, n) ==
  Numbered(name, CHOOSE k \in 1..n : Free(taken, name, k) /\ \A j \in 1..(k - 1) : ~Free(taken, name, j))
Apart(names, m) == /\ Listed(names) /\ Len(names) = m
                   /\ \A i \in 1..m : names[i] \in ColumnNames
                   /\ \A i, j \in 1..m : names[i] = names[j] => i = j
LEMMA NextApart == ASSUME NEW n \in Nat \ {0}, NEW taken, Apart(taken, n - 1), NEW name \in ColumnNames
  PROVE Apart(Append(taken, NextName(taken, name, n)), n)
<1>1. PICK k \in 1..n : /\ Free(taken, name, k)
                        /\ k = CHOOSE h \in 1..n : Free(taken, name, h) /\ \A j \in 1..(h - 1) : ~Free(taken, name, j)
  BY OneIsFree DEF Apart
<1>2. PICK new : new = Numbered(name, k) /\ new = NextName(taken, name, n)
  BY <1>1 DEF NextName
<1>3. new \in ColumnNames
  <2>1. k \in Nat \ {0}
    OBVIOUS
  <2> QED
    BY <1>2, <2>1, NumberedApart
<1>4. \A i \in 1..(n - 1) : taken[i] # new
  BY <1>1, <1>2 DEF Free, Contains, Apart
<1>5. PICK s : s = Append(taken, new)
  OBVIOUS
<1>6. Listed(s) /\ Len(s) = (n - 1) + 1 /\ (\A i \in 1..(n - 1) : s[i] = taken[i]) /\ s[(n - 1) + 1] = new
  BY <1>5, ListAdded DEF Apart
<1>7. Len(s) = n /\ s[n] = new
  BY <1>6
<1>8. \A i \in 1..n : s[i] = IF i = n THEN new ELSE taken[i]
  BY <1>6, <1>7
<1>9. \A i \in 1..n : s[i] \in ColumnNames
  BY <1>3, <1>8 DEF Apart
<1>10. \A i, j \in 1..n : s[i] = s[j] => i = j
  BY <1>4, <1>8 DEF Apart
<1> QED
  BY <1>2, <1>5, <1>6, <1>7, <1>9, <1>10 DEF Apart

\* The names of columns as a frame has them are told apart.
LEMMA NamesApart == ASSUME NEW columns, Listed(columns), \A i \in 1..Len(columns) : columns[i].name \in ColumnNames
  PROVE Apart(Names(columns), Len(columns))
<1> DEFINE Step(taken, n) == Append(taken, NextName(taken, columns[n].name, n))
           Def(f, m) == f = [n \in 0..m |-> IF n = 0 THEN <<>> ELSE Step(f[n - 1], n)]
           S == {m \in Nat : \E f : Def(f, m)}
<1>0. Names(columns) = (CHOOSE g : Def(g, Len(columns)))[Len(columns)]
  BY DEF Names, NextName, Free
<1>l. Len(columns) \in Nat
  BY DEF Listed
<1> HIDE DEF Step
<1>1. 0 \in S
  <2> DEFINE g == [n \in {0} |-> <<>>]
  <2>1. Def(g, 0)
    OBVIOUS
  <2> QED
    BY <2>1
<1>2. ASSUME NEW k \in 0..(Len(columns) - 1), k \in S PROVE k + 1 \in S
  <2>1. PICK f : Def(f, k)
    BY <1>2
  <2> DEFINE g == [n \in 0..(k + 1) |-> IF n = k + 1 THEN Step(f[k], k + 1) ELSE f[n]]
  <2>2. Def(g, k + 1) /\ k + 1 \in Nat
    BY <2>1
  <2> HIDE DEF Def, g
  <2> QED
    BY <2>2
<1>3. \E f : Def(f, Len(columns))
  <2>0. \A k \in 0..(Len(columns) - 1) : k \in S => k + 1 \in S
    BY <1>2
  <2> HIDE DEF S
  <2>1. Len(columns) \in S
    BY <1>l, <1>1, <2>0, Steps
  <2> QED
    BY <2>1 DEF S
<1>4. PICK f : f = (CHOOSE g : Def(g, Len(columns)))
  OBVIOUS
<1>5. Def(f, Len(columns))
  BY <1>3, <1>4
<1>6. Names(columns) = f[Len(columns)]
  BY <1>0, <1>4
<1>7. f[0] = <<>>
  BY <1>l, <1>5
<1>8. ASSUME NEW n \in 1..Len(columns) PROVE f[n] = Append(f[n - 1], NextName(f[n - 1], columns[n].name, n))
  <2>1. n \in 0..Len(columns) /\ n # 0
    BY <1>l
  <2>2. f[n] = Step(f[n - 1], n)
    BY <1>5, <2>1
  <2> QED
    BY <2>2 DEF Step
<1> HIDE DEF Def, S
<1> DEFINE Upto == {m \in 0..Len(columns) : Apart(f[m], m)}
<1>9. 0 \in Upto
  <2>1. Apart(<<>>, 0)
    BY NothingListed DEF Apart
  <2> QED
    BY <1>l, <1>7, <2>1
<1>10. ASSUME NEW k \in 0..(Len(columns) - 1), k \in Upto PROVE k + 1 \in Upto
  <2>1. PICK n, taken, name : n = k + 1 /\ taken = f[k] /\ name = columns[n].name
    OBVIOUS
  <2>2. n \in 1..Len(columns) /\ n \in Nat \ {0} /\ n - 1 = k
    BY <1>l, <2>1
  <2>3. name \in ColumnNames /\ Apart(taken, n - 1)
    BY <1>10, <2>1, <2>2
  <2>4. f[n] = Append(taken, NextName(taken, name, n))
    BY <1>8, <2>1, <2>2
  <2>5. Apart(f[n], n)
    BY <2>2, <2>3, <2>4, NextApart
  <2> QED
    BY <2>1, <2>2, <2>5
<1>11. Len(columns) \in Upto
  <2>1. \A k \in 0..(Len(columns) - 1) : k \in Upto => k + 1 \in Upto
    BY <1>10
  <2> HIDE DEF Upto
  <2> QED
    BY <1>l, <1>9, <2>1, Steps
<1> QED
  BY <1>6, <1>11


\* Columns keep the names they were described with.
NamedIn(columns) == \A i \in 1..Len(columns) : columns[i].name \in ColumnNames
NamesInv == NamedIn(live.columns) /\ (file # None => NamedIn(file.columns))

LEMMA DescribedNamed == ASSUME NEW w \in Worlds PROVE NamedIn(Described(w)) /\ NamedIn(<<>>)
<1>1. Len(Described(w)) = Len(w.columns) /\ DOMAIN w.columns = 1..Len(w.columns)
  BY WorldsAreWhole
<1>2. \A i \in 1..Len(w.columns) : w.columns[i] \in ColumnNames
  BY <1>1, NamesGiven DEF ToSet
<1>3. \A i \in 1..Len(w.columns) : Described(w)[i].name = w.columns[i]
  BY <1>1 DEF Described, NewColumn
<1>4. NamedIn(<<>>)
  BY DEF NamedIn
<1> QED
  BY <1>1, <1>2, <1>3, <1>4 DEF NamedIn

LEMMA LiveIsBuilt == ASSUME DataInv PROVE BuiltOf(live, truth, CellsIn(world)) /\ world \in Worlds
BY DEF DataInv, Keeping, Fits

LEMMA NamesNextInv == ASSUME DataInv, NamesInv, [DataNext]_dataVars PROVE NamesInv'
<1>1. PICK r : r = live /\ BuiltOf(r, truth, CellsIn(world)) /\ world \in Worlds /\ NamedIn(r.columns)
  BY LiveIsBuilt DEF NamesInv
<1>2. ASSUME live'.columns = r.columns, file' = file \/ file'.columns = r.columns PROVE NamesInv'
  BY <1>1, <1>2 DEF NamesInv
<1>3. Finalized(r).columns = r.columns
  BY <1>1 DEF Finalized, BuiltOf
<1>4. CASE UNCHANGED dataVars
  BY <1>1, <1>2, <1>4 DEF dataVars
<1>5. CASE Describe
  <2>1. PICK columns : columns = Described(world) /\ live' = AdoptColumns(r, columns) /\ file' = file
    BY <1>1, <1>5 DEF Describe
  <2>2. live'.columns = r.columns \/ live'.columns = columns
    BY <1>1, <2>1 DEF AdoptColumns, BuiltOf
  <2>3. NamedIn(live'.columns)
    BY <1>1, <2>1, <2>2, DescribedNamed
  <2> QED
    BY <2>1, <2>3 DEF NamesInv
<1>6. CASE Push
  <2>1. PICK row : live' = PushRow(r, row) /\ file' = file
    BY <1>1, <1>6 DEF Push
  <2>2. PICK p, f : live' = IF r.frame = None THEN [r EXCEPT !.cache = None, !.rows = @ + 1, !.pending = p]
                            ELSE [r EXCEPT !.cache = None, !.rows = @ + 1, !.frame = f]
    BY <2>1 DEF PushRow
  <2>3. live'.columns = r.columns
    BY <1>1, <2>2 DEF BuiltOf
  <2> QED
    BY <1>2, <2>1, <2>3
<1>7. CASE Read
  BY <1>1, <1>2, <1>3, <1>7 DEF Read
<1>8. CASE Enrich
  <2>1. PICK class : live' = Enriched(r, 1, class, "primary") /\ file' = file /\ r.columns # <<>>
    BY <1>1, <1>8 DEF Enrich
  <2>2. Len(r.columns) # 0
    BY <1>1, <2>1 DEF BuiltOf, Columned, Listed
  <2>3. PICK next : next = Enriched(r, 1, class, "primary")
    OBVIOUS
  <2>4. SameNames(next.columns, r.columns)
    BY <1>1, <2>2, <2>3, EnrichedBuilt
  <2>5. NamedIn(next.columns)
    BY <1>1, <2>4 DEF NamedIn, SameNames
  <2> QED
    BY <2>1, <2>3, <2>5 DEF NamesInv
<1>9. CASE Search
  <2>1. PICK want, fits : live' = AfterView(r, want, fits) /\ file' = file
    BY <1>1, <1>9 DEF Search
  <2>2. live'.columns = r.columns
    BY <1>1, <2>1 DEF AfterView, BuiltOf
  <2> QED
    BY <1>2, <2>1, <2>2
<1>10. CASE Clone
  BY <1>1, <1>2, <1>3, <1>10 DEF Clone
<1>11. CASE Save
  <2>1. PICK saved : file' = saved /\ saved.columns = r.columns /\ live' = Finalized(r)
    BY <1>1, <1>11 DEF Save
  <2> QED
    BY <1>2, <1>3, <2>1
<1>12. CASE Restore
  <2>1. file # None /\ live' = Unarchive(file.archive) /\ file' = file /\ Filed(world, file)
    BY <1>12 DEF Restore, DataInv, Keeping
  <2>2. live'.columns = file.columns
    BY <1>1, <2>1, FiledReopens
  <2> QED
    BY <2>1, <2>2 DEF NamesInv
<1> QED
  BY <1>4, <1>5, <1>6, <1>7, <1>8, <1>9, <1>10, <1>11, <1>12 DEF DataNext

LEMMA NamesInvariant == DataSpec => []NamesInv
<1>1. DataInit => NamesInv
  <2> SUFFICES ASSUME DataInit PROVE NamesInv
    OBVIOUS
  <2>1. live.columns = <<>> \/ live.columns = Described(world)
    BY DEF DataInit, NewResult
  <2>2. world \in Worlds /\ file = None
    BY DEF DataInit
  <2> QED
    BY <2>1, <2>2, DescribedNamed DEF NamesInv
<1>2. DataInv /\ NamesInv /\ [DataNext]_dataVars => NamesInv'
  BY NamesNextInv
<1> QED
  BY <1>1, <1>2, DataInvariant, PTL DEF DataSpec


\* A condition names one column.
LEMMA NamedOnce == ASSUME DataInv, NamesInv, NEW i \in 1..Len(live.columns), NEW clause, clause.name = Names(live.columns)[i]
  PROVE NamedBy(live, clause) = {i} /\ clause.name \in ColumnNames
<1>1. PICK columns : columns = live.columns /\ Listed(columns) /\ NamedIn(columns)
  BY LiveTells DEF Telling, NamesInv
<1>2. Apart(Names(columns), Len(columns))
  BY <1>1, NamesApart DEF NamedIn
<1>3. DOMAIN columns = 1..Len(columns)
  BY <1>1, Ranging
<1>4. PICK names, m : names = Names(columns) /\ m = Len(columns)
  OBVIOUS
<1>5. (\A k \in 1..m : names[k] \in ColumnNames) /\ \A j, k \in 1..m : names[j] = names[k] => j = k
  BY <1>2, <1>4 DEF Apart
<1>6. clause.name = names[i] /\ i \in 1..m
  BY <1>1, <1>4
<1>7. NamedBy(live, clause) = {k \in 1..m : names[k] = clause.name}
  BY <1>1, <1>3, <1>4 DEF NamedBy
<1> QED
  BY <1>5, <1>6, <1>7

LEMMA CodedIs == ASSUME NEW form, NEW val PROVE Coded(form, val).form = form /\ Coded(form, val).val = val
BY DEF Coded

\* A cell as its column has it.
Forms == {"none", "bool", "int", "float", "string"}
TypedAs(d, cell) ==
  CASE d = "Float64" -> Cell("float", Number(cell)) [] d = "String" -> Cell("text", Text(cell)) [] OTHER -> cell

\* What stands for a cell in a condition is of its column's type, and compares as the cell does.
LEMMA LiteralIs == ASSUME NEW w \in Worlds, NEW cells \in SUBSET CellsIn(w), NEW cell \in cells, ~IsNull(cell), NEW class,
    NEW how, how = How(cells, class), how = "number" => Number(cell) # NaN, 
    NEW typed, typed = TypedAs(DtypeOf[how], cell), NEW literal, literal = Literal("postgres", typed)
  PROVE /\ LiteralFits(DtypeOf[how], literal.form) /\ literal.form \in Forms
        /\ Rank(DtypeOf[how], literal.val) = Key(how, cell) /\ literal.val \in Int
<1> DEFINE present == {c \in cells : ~IsNull(c)}
<1>1. cell \in present /\ cell \in CellsIn(w)
  OBVIOUS
<1>2. \/ how = "flag" /\ cell.kind = "bool"
      \/ how = "whole" /\ cell.kind = "int"
      \/ how = "number" /\ Number(cell) # Nothing
      \/ how = "text"
  <2>1. cell.kind \in {"int", "float"} => Number(cell) # Nothing
    BY <1>1, NumberIs
  <2> QED
    BY <1>1, <2>1 DEF How
<1>3. /\ cell.kind \in {"bool", "int", "float"} => cell.val \in Int
      /\ Text(cell) \in ToSet(TextOrder)
  BY <1>1, CellsReadable
<1>4. CASE how \in {"flag", "whole"}
  <2>1. cell.kind \in {"bool", "int"} /\ cell.val \in Int
    BY <1>2, <1>3, <1>4
  <2>2. DtypeOf[how] = IF how = "flag" THEN "Boolean" ELSE "Int64"
    BY <1>4 DEF DtypeOf
  <2>3. typed = cell
    BY <1>4, <2>2 DEF TypedAs
  <2>4. literal = Coded(cell.kind, cell.val)
    BY <2>1, <2>3 DEF Literal
  <2>5. literal.form = cell.kind /\ literal.val = cell.val
    BY <2>4, CodedIs
  <2>6. LiteralFits(DtypeOf[how], literal.form)
    BY <1>2, <1>4, <2>2, <2>5 DEF LiteralFits, Forms
  <2>7. literal.form \in Forms
    BY <2>1, <2>5 DEF Forms
  <2>8. Rank(DtypeOf[how], literal.val) = Key(how, cell)
    BY <1>4, <2>2, <2>5 DEF Rank, Key
  <2> QED
    BY <2>1, <2>5, <2>6, <2>7, <2>8
<1>5. CASE how = "number"
  <2>1. Number(cell) \in Int /\ Number(cell) # NaN
    BY <1>1, <1>2, <1>5, NumberIs
  <2>2. DtypeOf[how] = "Float64"
    BY <1>5 DEF DtypeOf
  <2>3. typed.kind = "float" /\ typed.val = Number(cell)
    BY <2>2 DEF TypedAs, Cell
  <2>4. literal = Coded("float", Number(cell))
    BY <2>1, <2>3 DEF Literal
  <2>5. literal.form = "float" /\ literal.val = Number(cell)
    BY <2>4, CodedIs
  <2>6. LiteralFits(DtypeOf[how], literal.form) /\ literal.form \in Forms
    BY <2>2, <2>5 DEF LiteralFits, Forms
  <2>7. Rank(DtypeOf[how], literal.val) = Key(how, cell)
    BY <1>5, <2>2, <2>5 DEF Rank, Key
  <2> QED
    BY <2>1, <2>5, <2>6, <2>7
<1>6. CASE how = "text"
  <2>1. DtypeOf[how] = "String"
    BY <1>6 DEF DtypeOf
  <2>2. typed.kind = "text" /\ typed.val = Text(cell)
    BY <2>1 DEF TypedAs, Cell
  <2>3. Text(typed) = Text(cell)
    BY <2>2 DEF Text
  <2>4. literal = Coded("string", Text(cell))
    BY <2>2, <2>3 DEF Literal, QuoteText
  <2>5. literal.form = "string" /\ literal.val = Text(cell)
    BY <2>4, CodedIs
  <2>6. literal.val \in Int
    BY <1>3, <2>5, TextsAreNumbers
  <2>7. LiteralFits(DtypeOf[how], literal.form) /\ literal.form \in Forms
    BY <2>1, <2>5 DEF LiteralFits, Forms
  <2>8. Rank(DtypeOf[how], literal.val) = Key(how, cell)
    BY <1>6, <2>1, <2>5 DEF Rank, Key
  <2> QED
    BY <2>6, <2>7, <2>8
<1> QED
  BY <1>2, <1>4, <1>5, <1>6

\* The condition the code writes for a cell is of the cell as its column has it.
LEMMA ClauseIs == ASSUME DataInv, NamesInv, NEW n \in 1..Len(truth), NEW i \in 1..Len(live.columns), NEW how,
    how = HowOf(i, AllOf(truth))
  PROVE \E cell, name, cells, class, typed :
          /\ cell = truth[n][i] /\ name = Names(live.columns)[i] /\ name \in ColumnNames
          /\ cells \in SUBSET CellsIn(world) /\ cell \in cells /\ how = How(cells, class)
          /\ typed = IF IsNull(cell) THEN cell ELSE TypedAs(DtypeOf[how], cell)
          /\ Condition(live, n, i) = ConditionOf(name, typed)
<1>1. PICK r, rows, w : r = live /\ rows = truth /\ w = world /\ Telling(r, rows, w)
  BY LiveTells
<1>2. PICK cell, name, class : cell = rows[n][i] /\ name = Names(r.columns)[i] /\ class = r.columns[i].class
  OBVIOUS
<1>3. CellOf(r, n, i) = cell /\ cell \in CellsIn(w) /\ w \in Worlds
  BY <1>1, <1>2 DEF Telling
<1>4. PICK all : all = AllOf(rows) /\ Picked(all, Len(rows)) /\ Positions(r, None) = all
  BY <1>1, AllPicked DEF Telling, Positions, AllOf
<1>5. PICK cells : cells = {rows[k][i] : k \in ToSet(all)} /\ how = How(cells, class)
  BY <1>1, <1>2, <1>4 DEF HowOf
<1>6. ToSet(all) = 1..Len(rows)
  <2>1. Len(all) = Len(rows) /\ ToSet(all) = {all[k] : k \in 1..Len(all)}
    BY <1>1, <1>4, AllPicked, Ranging DEF Picked, Telling
  <2> QED
    BY <1>4, <2>1 DEF AllOf
<1>7. cells \in SUBSET CellsIn(w) /\ cell \in cells
  <2>1. \A k \in 1..Len(rows) : rows[k][i] \in CellsIn(w)
    BY <1>1 DEF Telling
  <2> QED
    BY <1>1, <1>2, <1>5, <1>6, <2>1
<1>8. ColumnType(r, i, Positions(r, None)) = DtypeOf[how]
  <2>1. KeyedBy(Projected(r, i, all), rows, all, i, how)
    BY <1>1, <1>2, <1>4, <1>5, ColumnTells
  <2>2. PICK column, cast : column = Projected(r, i, all) /\ column = [dtype |-> ColumnType(r, i, all), values |-> cast]
    BY DEF Projected, Cast
  <2>3. column.dtype = ColumnType(r, i, all)
    BY <2>2
  <2> QED
    BY <1>4, <2>1, <2>2, <2>3 DEF KeyedBy
<1>9. PICK d, typed, clause :
        /\ d = DtypeOf[how] /\ clause = Condition(r, n, i)
        /\ typed = IF IsNull(cell) THEN cell ELSE TypedAs(d, cell)
  OBVIOUS
<1>10. clause = ConditionOf(name, typed)
  BY <1>2, <1>3, <1>8, <1>9 DEF Condition, TypedAs
<1>11. name \in ColumnNames
  <2>1. PICK c : c = [name |-> name]
    OBVIOUS
  <2>2. c.name = Names(live.columns)[i]
    BY <1>1, <1>2, <2>1
  <2>3. c.name \in ColumnNames
    BY <2>2, NamedOnce
  <2> QED
    BY <2>1, <2>3
<1> QED
  BY <1>1, <1>2, <1>5, <1>7, <1>9, <1>10, <1>11

\* The condition of a cell.
Finding(clause, name, how, cell) ==
  /\ clause # None /\ clause.shape = "condition" /\ clause.name = name
  /\ LiteralFits(DtypeOf[how], clause.form)
  /\ IF IsNull(cell) THEN clause.op = "is_null" ELSE clause.op = "eq" /\ Rank(DtypeOf[how], clause.val) = Key(how, cell)
\* A condition is one; a cell that is there is there as its column has it.
LEMMA ClausePresent == ASSUME NEW name \in ColumnNames, NEW op \in {"eq", "is_null"}, NEW form \in Forms, NEW val \in Int
  PROVE [shape |-> "condition", name |-> name, op |-> op, form |-> form, val |-> val] # None
BY NamesGiven DEF Forms
LEMMA StaysPresent == ASSUME NEW d, NEW cell, ~IsNull(cell) PROVE ~IsNull(TypedAs(d, cell))
<1>1. Cell("float", Number(cell)).kind = "float" /\ Cell("text", Text(cell)).kind = "text"
  BY DEF Cell
<1> QED
  BY <1>1 DEF IsNull, TypedAs

LEMMA ConditionTells == ASSUME DataInv, NamesInv, NEW n \in 1..Len(truth), NEW i \in 1..Len(live.columns), NEW how,
    how = HowOf(i, AllOf(truth)), how = "number" => Number(truth[n][i]) # NaN
  PROVE Finding(Condition(live, n, i), Names(live.columns)[i], how, truth[n][i])
<1>1. PICK cell, name, cells, class, typed, clause :
        /\ cell = truth[n][i] /\ name = Names(live.columns)[i] /\ name \in ColumnNames
        /\ cells \in SUBSET CellsIn(world) /\ cell \in cells /\ how = How(cells, class)
        /\ typed = IF IsNull(cell) THEN cell ELSE TypedAs(DtypeOf[how], cell)
        /\ clause = Condition(live, n, i) /\ clause = ConditionOf(name, typed)
  BY ClauseIs
<1>2. world \in Worlds
  BY LiveTells DEF Telling
<1>3. CASE IsNull(cell)
  <2>1. IsNull(typed) /\ typed.kind = "null"
    BY <1>1, <1>3 DEF IsNull
  <2>2. Literal("postgres", typed) = Coded("nil", 0)
    BY <2>1 DEF Literal
  <2>3. clause = [shape |-> "condition", name |-> name, op |-> "is_null", form |-> "none", val |-> 0]
    BY <1>1, <2>1, <2>2, CodedIs DEF ConditionOf
  <2>4. clause # None
    BY <1>1, <2>3, ClausePresent DEF Forms
  <2>5. clause.shape = "condition" /\ clause.name = name /\ clause.op = "is_null" /\ clause.form = "none"
    BY <2>3
  <2> QED
    BY <1>1, <1>3, <2>4, <2>5 DEF Finding, LiteralFits
<1>4. CASE ~IsNull(cell)
  <2>1. typed = TypedAs(DtypeOf[how], cell)
    BY <1>1, <1>4
  <2>2. PICK literal : literal = Literal("postgres", typed)
    OBVIOUS
  <2>3. how = "number" => Number(cell) # NaN
    BY <1>1
  <2>4. /\ LiteralFits(DtypeOf[how], literal.form) /\ literal.form \in Forms
        /\ Rank(DtypeOf[how], literal.val) = Key(how, cell) /\ literal.val \in Int
    BY ONLY <1>1, <1>2, <1>4, <2>1, <2>2, <2>3, LiteralIs
  <2>5. clause = [shape |-> "condition", name |-> name, op |-> "eq", form |-> literal.form, val |-> literal.val]
    BY <1>1, <1>4, <2>1, <2>2, StaysPresent DEF ConditionOf
  <2>6. clause # None
    BY <1>1, <2>4, <2>5, ClausePresent
  <2>7. clause.shape = "condition" /\ clause.name = name /\ clause.op = "eq" /\ clause.form = literal.form /\ clause.val = literal.val
    BY <2>5
  <2> QED
    BY <1>1, <1>4, <2>4, <2>6, <2>7 DEF Finding
<1> QED
  BY <1>3, <1>4

\* The condition of a NaN holds its text, which no column of numbers takes.
Misfitting(clause, name) ==
  clause # None /\ clause.shape = "condition" /\ clause.name = name /\ ~LiteralFits("Float64", clause.form)
LEMMA ConditionMisfits == ASSUME DataInv, NamesInv, NEW n \in 1..Len(truth), NEW i \in 1..Len(live.columns),
    HowOf(i, AllOf(truth)) = "number", Number(truth[n][i]) = NaN
  PROVE Misfitting(Condition(live, n, i), Names(live.columns)[i])
<1>1. PICK cell, name, cells, class, typed, clause :
        /\ cell = truth[n][i] /\ name = Names(live.columns)[i] /\ name \in ColumnNames
        /\ typed = IF IsNull(cell) THEN cell ELSE TypedAs(DtypeOf["number"], cell)
        /\ clause = Condition(live, n, i) /\ clause = ConditionOf(name, typed)
  BY ClauseIs
<1>2. ~IsNull(cell)
  <2>1. ASSUME IsNull(cell) PROVE FALSE
    <3>1. Number(cell) = Nothing
      BY <2>1 DEF IsNull, Number
    <3> QED
      BY <1>1, <3>1, MarksApart DEF NaN
  <2> QED
    BY <2>1
<1>3. typed = Cell("float", NaN) /\ ~IsNull(typed)
  <2>1. typed = Cell("float", NaN)
    BY <1>1, <1>2 DEF TypedAs, DtypeOf
  <2> QED
    BY <2>1, StaysPresent DEF TypedAs, IsNull, Cell
<1>4. Literal("postgres", typed) = Coded("string", NanText)
  <2>1. typed.kind = "float" /\ typed.val = NaN
    BY <1>3 DEF Cell
  <2>2. Text(typed) = NanText
    BY <2>1 DEF Text
  <2> QED
    BY <2>1, <2>2 DEF Literal, QuoteText
<1>5. clause = [shape |-> "condition", name |-> name, op |-> "eq", form |-> "string", val |-> NanText]
  BY <1>1, <1>3, <1>4, CodedIs DEF ConditionOf
<1>6. clause # None
  BY <1>1, <1>5, ClausePresent DEF Forms, NanText
<1>7. clause.shape = "condition" /\ clause.name = name /\ clause.form = "string"
  BY <1>5
<1> QED
  BY <1>1, <1>6, <1>7 DEF Misfitting, LiteralFits


\* Whether a row has the value a cell has.
SameValue(rows, i, how, n, m) ==
  IF IsNull(rows[n][i]) THEN IsNull(rows[m][i])
  ELSE ~IsNull(rows[m][i]) /\ Key(how, rows[n][i]) = Key(how, rows[m][i])

\* A row meets the condition of a cell if it has the same value.
LEMMA MeetsTells == ASSUME NEW column, NEW rows, NEW i, NEW how, KeyedBy(column, rows, AllOf(rows), i, how), Listed(rows),
    NEW n, NEW m \in 1..Len(rows), NEW clause, NEW name, Finding(clause, name, how, rows[n][i])
  PROVE Meets(column, m, clause) <=> SameValue(rows, i, how, n, m)
<1>1. PICK cell, other, value : cell = rows[n][i] /\ other = rows[m][i] /\ value = column.values[m]
  OBVIOUS
<1>2. AllOf(rows)[m] = m /\ m \in 1..Len(AllOf(rows))
  BY AllPicked DEF AllOf
<1>3. /\ column.dtype = DtypeOf[how]
      /\ value = Nothing <=> IsNull(other)
      /\ ~IsNull(other) => Rank(column.dtype, value) = Key(how, other)
  BY <1>1, <1>2 DEF KeyedBy
<1>4. CASE IsNull(cell)
  <2>1. clause.op = "is_null"
    BY <1>1, <1>4 DEF Finding
  <2> QED
    BY <1>1, <1>3, <1>4, <2>1 DEF Meets, SameValue
<1>5. CASE ~IsNull(cell)
  <2>1. clause.op = "eq" /\ Rank(column.dtype, clause.val) = Key(how, cell)
    BY <1>1, <1>3, <1>5 DEF Finding
  <2>2. Meets(column, m, clause) <=> value # Nothing /\ Rank(column.dtype, value) = Rank(column.dtype, clause.val)
    BY <1>1, <2>1 DEF Meets, Compares
  <2> QED
    BY <1>1, <1>3, <1>5, <2>1, <2>2 DEF SameValue
<1> QED
  BY <1>4, <1>5

\* A view of one condition shows the rows that meet it.
LEMMA ConditionFinds == ASSUME DataInv, CacheInv, NamesInv, NEW n \in 1..Len(truth), NEW i \in 1..Len(live.columns), NEW how,
    how = HowOf(i, AllOf(truth)), how = "number" => Number(truth[n][i]) # NaN, NEW want,
    want = [filters |-> <<>>, sort |-> <<>>, scope |-> None, where |-> Condition(live, n, i), order |-> None]
  PROVE /\ Select(live, want) # Failed
        /\ ToSet(Select(live, want)) = {m \in 1..Len(truth) : SameValue(truth, i, how, n, m)}
<1>1. Telling(live, truth, world)
  BY LiveTells
<1>2. PICK clause, name : clause = Condition(live, n, i) /\ name = Names(live.columns)[i] /\ Finding(clause, name, how, truth[n][i])
  BY ConditionTells
<1>3. want.filters = <<>> /\ want.sort = <<>> /\ want.scope = None /\ want.where = clause /\ want.order = None
  BY <1>2
<1>4. clause # None /\ clause.shape = "condition" /\ clause.name = name
  BY <1>2 DEF Finding
<1>5. ToSet(want.filters) = {}
  BY <1>3 DEF ToSet
<1>6. Askable(want) /\ Parses(want) /\ ~Plainly(want)
  BY <1>3, <1>4, <1>5, NothingListed DEF Askable, Parses, Plainly
<1>7. Listed(truth) /\ live.rows = Len(truth) /\ DOMAIN live.columns = 1..Len(live.columns) /\ Len(truth) \in Nat
  BY <1>1, Ranging DEF Telling, Listed
<1>8. PICK all : all = AllOf(truth) /\ all = Positions(live, want.scope) /\ Len(all) = Len(truth) /\ Picked(all, Len(truth))
  BY <1>3, <1>7, AllPicked DEF Positions, AllOf
<1>9. NamedBy(live, clause) = {i}
  BY <1>2, <1>4, NamedOnce
<1>10. PICK needed \in SUBSET (1..Len(live.columns)) : \E frame, places :
          /\ Needed(live, want) \subseteq needed
          /\ Framing(frame, live.columns, truth, Positions(live, want.scope), needed)
          /\ IF Refused(live, want, frame) THEN Select(live, want) = Failed ELSE Showing(want, frame, places, Select(live, want))
  BY <1>6, SelectTells
<1>11. PICK frame, places :
          /\ Needed(live, want) \subseteq needed
          /\ Framing(frame, live.columns, truth, all, needed)
          /\ IF Refused(live, want, frame) THEN Select(live, want) = Failed ELSE Showing(want, frame, places, Select(live, want))
  BY <1>8, <1>10
<1>12. i \in needed
  BY <1>3, <1>4, <1>7, <1>11 DEF Needed
<1>13. frame.rows = all /\ KeyedBy(frame.columns[i], truth, all, i, how)
  BY <1>8, <1>11, <1>12 DEF Framing, HowIn, HowOf
<1>14. frame.columns[i].dtype = DtypeOf[how]
  BY <1>13 DEF KeyedBy
<1>15. ~Refused(live, want, frame)
  <2>1. LiteralFits(frame.columns[i].dtype, clause.form)
    BY <1>2, <1>14 DEF Finding
  <2> QED
    BY <1>3, <1>5, <1>9, <2>1 DEF Refused
<1>16. PICK shown, left, keys, R : /\ shown = Select(live, want) /\ left = Left(live, want, frame)
                                   /\ keys = SortKeys(live, want) /\ R = InOrderOf(frame, keys, left)
  OBVIOUS
<1>17. Lists(places, R, left) /\ shown = [k \in 1..Len(places) |-> all[places[k]]] /\ Picked(shown, Len(truth))
  BY <1>8, <1>11, <1>15, <1>16 DEF Showing
<1>18. left = {m \in 1..Len(truth) : Meets(frame.columns[i], m, clause)}
  <2>1. DOMAIN all = 1..Len(truth)
    BY <1>8 DEF AllOf
  <2> QED
    BY <1>3, <1>4, <1>5, <1>9, <1>13, <1>16, <2>1 DEF Left
<1>19. \A m \in 1..Len(truth) : Meets(frame.columns[i], m, clause) <=> SameValue(truth, i, how, n, m)
  BY <1>2, <1>7, <1>8, <1>13, MeetsTells
<1>20. left = {m \in 1..Len(truth) : SameValue(truth, i, how, n, m)}
  BY <1>18, <1>19
<1>21. ToSet(shown) = left
  <2>1. PICK l \in Nat : /\ l = Len(places) /\ \A k \in 1..l : places[k] \in left
                         /\ \A p \in left : \E k \in 1..l : places[k] = p
    BY <1>17 DEF Lists, Listed, Bijection, Injection, Surjection
  <2>2. \A p \in left : all[p] = p
    BY <1>8, <1>18 DEF AllOf
  <2>3. DOMAIN shown = 1..l /\ \A k \in 1..l : shown[k] = places[k]
    BY <1>17, <2>1, <2>2
  <2> QED
    BY <2>1, <2>3 DEF ToSet
<1>22. shown # Failed
  BY <1>7, <1>17, PickedIsSeen
<1> QED
  BY <1>16, <1>20, <1>21, <1>22

\* A view of a condition its column does not take is refused.
LEMMA MisfitRefused == ASSUME DataInv, CacheInv, NamesInv, NEW n \in 1..Len(truth), NEW i \in 1..Len(live.columns),
    HowOf(i, AllOf(truth)) = "number", Number(truth[n][i]) = NaN, NEW want,
    want = [filters |-> <<>>, sort |-> <<>>, scope |-> None, where |-> Condition(live, n, i), order |-> None]
  PROVE Select(live, want) = Failed
<1>1. Telling(live, truth, world)
  BY LiveTells
<1>2. PICK clause, name : clause = Condition(live, n, i) /\ name = Names(live.columns)[i] /\ Misfitting(clause, name)
  BY ConditionMisfits
<1>3. want.filters = <<>> /\ want.sort = <<>> /\ want.scope = None /\ want.where = clause /\ want.order = None
  BY <1>2
<1>4. clause # None /\ clause.shape = "condition" /\ clause.name = name
  BY <1>2 DEF Misfitting
<1>5. ToSet(want.filters) = {}
  BY <1>3 DEF ToSet
<1>6. Askable(want) /\ Parses(want) /\ ~Plainly(want)
  BY <1>3, <1>4, <1>5, NothingListed DEF Askable, Parses, Plainly
<1>7. live.rows = Len(truth) /\ DOMAIN live.columns = 1..Len(live.columns)
  BY <1>1, Ranging DEF Telling, Listed
<1>8. PICK all : all = AllOf(truth) /\ all = Positions(live, want.scope)
  BY <1>3, <1>7 DEF Positions, AllOf
<1>9. NamedBy(live, clause) = {i}
  BY <1>2, <1>4, NamedOnce
<1>10. PICK needed \in SUBSET (1..Len(live.columns)) : \E frame, places :
          /\ Needed(live, want) \subseteq needed
          /\ Framing(frame, live.columns, truth, Positions(live, want.scope), needed)
          /\ IF Refused(live, want, frame) THEN Select(live, want) = Failed ELSE Showing(want, frame, places, Select(live, want))
  BY <1>6, SelectTells
<1>11. PICK frame, places :
          /\ Needed(live, want) \subseteq needed
          /\ Framing(frame, live.columns, truth, all, needed)
          /\ IF Refused(live, want, frame) THEN Select(live, want) = Failed ELSE Showing(want, frame, places, Select(live, want))
  BY <1>8, <1>10
<1>12. i \in needed
  BY <1>3, <1>4, <1>7, <1>11 DEF Needed
<1>13. frame.columns[i].dtype = DtypeOf["number"]
  BY <1>8, <1>11, <1>12 DEF Framing, HowIn, HowOf, KeyedBy
<1>14. ~LiteralFits(frame.columns[i].dtype, clause.form)
  BY <1>2, <1>13 DEF DtypeOf, Misfitting
<1>15. Refused(live, want, frame)
  BY <1>3, <1>4, <1>9, <1>14 DEF Refused
<1> QED
  BY <1>11, <1>15

\* The condition the `=` key writes for a cell finds the cell's own row and, of the others, just
\* those with the same value, however the names of columns repeat (view.rs names, polars.rs
\* condition, edit/sql.rs literal); for a NaN in a column of numbers it is refused.
THEOREM CellsFindTheirRows == DataSpec => []CellFindsItsRow
<1>1. DataInv /\ CacheInv /\ NamesInv => CellFindsItsRow
  <2> SUFFICES ASSUME DataInv, CacheInv, NamesInv PROVE CellFindsItsRow
    OBVIOUS
  <2>1. Listed(truth) /\ Listed(live.columns)
    BY LiveTells DEF Telling
  <2>2. DOMAIN truth = 1..Len(truth) /\ DOMAIN live.columns = 1..Len(live.columns)
    BY <2>1, Ranging
  <2>3. ASSUME NEW n \in DOMAIN truth, NEW i \in DOMAIN live.columns, NEW how, how = HowOf(i, [m \in DOMAIN truth |-> m]),
               NEW want,
               want = [filters |-> <<>>, sort |-> <<>>, scope |-> None, where |-> Condition(live, n, i), order |-> None]
        PROVE IF how = "number" /\ Number(truth[n][i]) = NaN THEN Select(live, want) = Failed
              ELSE /\ Select(live, want) # Failed
                   /\ ToSet(Select(live, want)) = {m \in DOMAIN truth : SameValue(truth, i, how, n, m)}
    <3>1. n \in 1..Len(truth) /\ i \in 1..Len(live.columns) /\ how = HowOf(i, AllOf(truth))
      BY <2>2, <2>3 DEF AllOf
    <3>2. CASE how = "number" /\ Number(truth[n][i]) = NaN
      BY <2>3, <3>1, <3>2, MisfitRefused
    <3>3. CASE ~(how = "number" /\ Number(truth[n][i]) = NaN)
      <4>1. /\ Select(live, want) # Failed
            /\ ToSet(Select(live, want)) = {m \in 1..Len(truth) : SameValue(truth, i, how, n, m)}
        BY <2>3, <3>1, <3>3, ConditionFinds
      <4> QED
        BY <2>2, <3>3, <4>1
    <3> QED
      BY <3>2, <3>3
  <2> QED
    BY <2>3 DEF CellFindsItsRow, SameValue
<1> QED
  BY <1>1, DataInvariant, CacheInvariant, NamesInvariant, PTL
==============================================================================
