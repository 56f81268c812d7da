------------------------------ MODULE ResultViews ------------------------------
(***************************************************************************)
(* How held results are filtered, sorted and grouped: the engine half in   *)
(* sqmeow-core/src/server/calls.rs and session.rs, the editor half in      *)
(* lua/sqmeow/ui/result.lua.                                               *)
(*                                                                         *)
(* A view of a result is asked for by a request that reserves a generation *)
(* and is answered at once; a task computes it, and what it found is told  *)
(* by an event.  The editor keeps, per result, the specification it asked  *)
(* for, the one to go back to, and two flags that make a grid of groups    *)
(* read-only.  A request waits for its answer, so the editor's step and    *)
(* the serve loop's handler are one action; tasks and events interleave.   *)
(* The results are held throughout: eviction is the subject of Calls.      *)
(***************************************************************************)
EXTENDS Integers, Sequences

CONSTANTS
  Results,    \* the results of one run, by call id
  All,        \* the specification that shows every row
  Filters,    \* specifications that select and order rows
  Groupings,  \* specifications that aggregate them
  Scripted,   \* TRUE: scripts call api.view.view too
  MaxViews,   \* bound: views asked of each result
  NoSpec        \* no specification

Specs == {All} \cup Filters \cup Groupings

ASSUME SpecsOK ==
  /\ All \notin Filters \cup Groupings /\ Filters \cap Groupings = {}
  /\ NoSpec \notin Specs
  /\ MaxViews \in [Results -> Nat] /\ Results # {} /\ Scripted \in BOOLEAN

VARIABLES
  \* engine, per result
  gen,         \* view_generation
  view,        \* Call.view: the specification of the rows the grid can page through
  tasks,       \* view tasks, each with the generation it reserved
  viewGen,     \* the generation `view` was computed for
  \* between them
  events,      \* call:view events not handled yet, oldest first
  \* editor
  current,     \* state.call.call_id
  aggregated,  \* state.call.aggregated: "no" or "yes"
  pending,     \* state.call.aggregate_pending: "no" or "yes"
  specs,       \* specs
  backup,      \* pending_views
  summaries,   \* view_summaries: NoSpec, or whether the last one was of groups
  page,        \* the view the rows on screen were read from
  staged,      \* whether changes are staged: "no" or "yes"
  \* what was observed
  overlapped,  \* results with a view asked for, or left, while another was in flight
  unsure       \* results an overlapping or unprotected request failed on

engine == <<gen, view, tasks, viewGen>>
editor == <<current, aggregated, pending, specs, backup, summaries, page, staged>>
vars == <<engine, events, editor, overlapped, unsure>>

YesNo == {"no", "yes"}
Flag(condition) == IF condition THEN "yes" ELSE "no"
Grouped(spec) == spec \in Groupings

Tasks == [id : Results, gen : Nat \ {0}, spec : Specs, at : {"computing", "committed"}]
Events == [id : Results, told : {"error", "rows", "groups"}]

\* The generation lock, which finish_view holds from the commit to the event.
Locked(id) == \E t \in tasks : t.id = id /\ t.at = "committed"

\* A view of the result is on its way.
InFlight(id) == \/ \E t \in tasks : t.id = id
                \/ \E i \in 1..Len(events) : events[i].id = id

\* An error of an earlier view waits to be handled.
ErrorUntold(id) == \E i \in 1..Len(events) : events[i] = [id |-> id, told |-> "error"]

Init ==
  /\ gen = [id \in Results |-> 0] /\ view = [id \in Results |-> All]
  /\ tasks = {} /\ viewGen = [id \in Results |-> 0]
  /\ events = <<>>
  /\ current \in Results
  /\ aggregated = "no" /\ pending = "no"
  /\ specs = [id \in Results |-> All] /\ backup = [id \in Results |-> NoSpec]
  /\ summaries = [id \in Results |-> "none"]
  /\ page = All /\ staged = "no"
  /\ overlapped = {} /\ unsure = {}

-----------------------------------------------------------------------------
(* The engine's handlers, on the serve loop *)

\* view: the generation is reserved before the request is answered.
BeginView(id, spec) ==
  /\ gen[id] < MaxViews[id] /\ ~Locked(id)
  /\ gen' = [gen EXCEPT ![id] = @ + 1]
  /\ tasks' = tasks \cup {[id |-> id, gen |-> gen[id] + 1, spec |-> spec,
                           at |-> "computing"]}
  /\ UNCHANGED <<view, viewGen>>

\* rows: a page of the view there is now.
Rows(id) == view[id]

-----------------------------------------------------------------------------
(* The editor's requests *)

\* Mutant: the editor learns of a grouping from its event only.
SendViewUnmarked(spec, protected) ==
  LET id == current
  IN /\ Grouped(spec) => staged = "no"
     /\ BeginView(id, spec)
     /\ pending' = "no"
     /\ specs' = [specs EXCEPT ![id] = spec]
     /\ overlapped' = IF InFlight(id) \/ ~protected THEN overlapped \cup {id}
                                                    ELSE overlapped \ {id}
     /\ unsure' = IF ErrorUntold(id) THEN unsure \cup {id} ELSE unsure
     /\ UNCHANGED <<events, current, aggregated, summaries, page, staged>>

\* send_view: refused while changes are staged; once accepted, a grouping is
\* marked as pending.
SendView(spec, protected) ==
  LET id == current
  IN /\ Grouped(spec) => staged = "no"
     /\ BeginView(id, spec)
     /\ pending' = Flag(Grouped(spec))
     /\ specs' = [specs EXCEPT ![id] = spec]
     /\ overlapped' = IF InFlight(id) \/ ~protected THEN overlapped \cup {id}
                                                    ELSE overlapped \ {id}
     /\ unsure' = IF ErrorUntold(id) THEN unsure \cup {id} ELSE unsure
     /\ UNCHANGED <<events, current, aggregated, summaries, page, staged>>

\* Mutant: the specification to go back to is not kept.
NarrowForgets(spec) ==
  /\ SendView(spec, TRUE)
  /\ UNCHANGED backup

\* narrow: the specification to go back to is kept once the request was
\* accepted.  A refused one leaves everything as it was.
Narrow(spec) ==
  /\ SendView(spec, TRUE)
  /\ backup' = [backup EXCEPT ![current] = specs[current]]

\* filter and sort_by narrow whatever is grouped already;
Filter(spec) == Grouped(spec) = Grouped(specs[current]) /\ Narrow(spec)

\* aggregate groups, or stops grouping.
Aggregate(spec) == Narrow(spec)

\* reset_view keeps the specification too.
ResetView ==
  /\ SendView(All, TRUE)
  /\ backup' = [backup EXCEPT ![current] = specs[current]]

\* api.view.view changes filters and sorts in place, and keeps nothing.
View(spec) ==
  /\ Scripted /\ Grouped(spec) = Grouped(specs[current])
  /\ SendView(spec, FALSE)
  /\ UNCHANGED backup

\* The same, refused: by send_view over staged changes or by the engine.
ViewRefused(spec) ==
  /\ Scripted /\ Grouped(spec) = Grouped(specs[current]) /\ spec # specs[current]
  /\ specs' = [specs EXCEPT ![current] = spec]
  /\ unsure' = unsure \cup {current}
  /\ UNCHANGED <<engine, events, current, aggregated, pending, backup, summaries,
                 page, staged, overlapped>>

ShowPage ==
  /\ page' = Rows(current)
  /\ UNCHANGED <<engine, events, current, aggregated, pending, specs, backup,
                 summaries, staged, overlapped, unsure>>

\* render draws a result in a fresh table, which knows of a grouping only if its
\* event was handled.
Render(id) ==
  /\ current' = id
  /\ aggregated' = Flag(summaries[id] = "groups")
  /\ pending' = "no"
  /\ page' = Rows(id)
  /\ overlapped' = IF InFlight(current) THEN overlapped \cup {current} ELSE overlapped
  /\ UNCHANGED <<engine, events, specs, backup, summaries, staged, unsure>>

\* Another result of the run, once staged changes are settled;
Switch(id) == id # current /\ staged = "no" /\ Render(id)

\* one of the query log, which may be the one on screen.
Reopen(id) == staged = "no" /\ Render(id)

\* editing(): changes are staged only while the grid is not of groups.
Editable == aggregated = "no" /\ pending = "no"

Stage ==
  /\ Editable /\ staged = "no"
  /\ staged' = "yes"
  /\ UNCHANGED <<engine, events, current, aggregated, pending, specs, backup,
                 summaries, page, overlapped, unsure>>

\* settle with "Discard them", and the discard action.
Discard ==
  /\ staged = "yes"
  /\ staged' = "no"
  /\ UNCHANGED <<engine, events, current, aggregated, pending, specs, backup,
                 summaries, page, overlapped, unsure>>

-----------------------------------------------------------------------------
(* The engine's tasks: finish_view *)

\* Mutant: the generation is not compared.
CommitStale(t) ==
  /\ t.at = "computing" /\ ~Locked(t.id)
  /\ view' = [view EXCEPT ![t.id] = t.spec]
  /\ viewGen' = [viewGen EXCEPT ![t.id] = t.gen]
  /\ tasks' = (tasks \ {t}) \cup {[t EXCEPT !.at = "committed"]}
  /\ UNCHANGED <<gen, events, editor, overlapped, unsure>>

\* The newest view is stored, under the generation lock,
Commit(t) ==
  /\ t.at = "computing" /\ t.gen = gen[t.id]
  /\ view' = [view EXCEPT ![t.id] = t.spec]
  /\ viewGen' = [viewGen EXCEPT ![t.id] = t.gen]
  /\ tasks' = (tasks \ {t}) \cup {[t EXCEPT !.at = "committed"]}
  /\ UNCHANGED <<gen, events, editor, overlapped, unsure>>

\* and told before the lock is released.
Notify(t) ==
  /\ t.at = "committed"
  /\ tasks' = tasks \ {t}
  /\ events' = Append(events, [id |-> t.id,
                               told |-> IF Grouped(t.spec) THEN "groups" ELSE "rows"])
  /\ UNCHANGED <<gen, view, viewGen, editor, overlapped, unsure>>

\* Mutant: a view that could not be computed is not told.
FailSilent(t) ==
  /\ t.at = "computing" /\ t.gen = gen[t.id] /\ t.spec # All
  /\ tasks' = tasks \ {t}
  /\ UNCHANGED <<gen, view, viewGen, events, editor, overlapped, unsure>>

\* The newest view could not be computed: only that is told.  Every row can be.
Fail(t) ==
  /\ t.at = "computing" /\ t.gen = gen[t.id] /\ t.spec # All
  /\ tasks' = tasks \ {t}
  /\ events' = Append(events, [id |-> t.id, told |-> "error"])
  /\ unsure' = IF t.id \in overlapped
                 THEN unsure \cup {t.id} ELSE unsure
  /\ UNCHANGED <<gen, view, viewGen, editor, overlapped>>

\* A view that a newer request overtook is dropped without a word.
Drop(t) ==
  /\ t.at = "computing" /\ t.gen # gen[t.id] /\ ~Locked(t.id)
  /\ tasks' = tasks \ {t}
  /\ UNCHANGED <<gen, view, viewGen, events, editor, overlapped, unsure>>

-----------------------------------------------------------------------------
(* The editor's handler: on_view *)

\* What an error puts back, if there is something to.
Restored(id) == IF backup[id] = NoSpec THEN specs[id] ELSE backup[id]

OnError(id) ==
  /\ specs' = [specs EXCEPT ![id] = Restored(id)]
  /\ pending' = IF id = current THEN "no" ELSE pending
  /\ UNCHANGED <<aggregated, summaries, page>>

\* The result on screen takes the new schema, and its first page is read.
OnBuilt(id, told) ==
  /\ summaries' = [summaries EXCEPT ![id] = told]
  /\ IF id = current
       THEN /\ pending' = "no"
            /\ aggregated' = Flag(told = "groups")
            /\ page' = Rows(id)
       ELSE UNCHANGED <<pending, aggregated, page>>
  /\ UNCHANGED specs

OnView ==
  LET event == Head(events)
  IN /\ events # <<>>
     /\ events' = Tail(events)
     /\ backup' = [backup EXCEPT ![event.id] = NoSpec]
     /\ IF event.told = "error" THEN OnError(event.id) ELSE OnBuilt(event.id, event.told)
     /\ UNCHANGED <<engine, current, staged, overlapped, unsure>>

-----------------------------------------------------------------------------
Request ==
  \/ \E spec \in Specs : Filter(spec) \/ Aggregate(spec) \/ View(spec) \/ ViewRefused(spec)
  \/ ResetView \/ ShowPage \/ Stage \/ Discard
  \/ \E id \in Results : Switch(id) \/ Reopen(id)

Finish(t) == Commit(t) \/ Notify(t) \/ Fail(t) \/ Drop(t)

Next == Request \/ OnView \/ \E t \in tasks : Finish(t)

Spec == Init /\ [][Next]_vars

\* The runtime finishes every task, and Neovim runs every scheduled callback.
Fairness == WF_vars(OnView) /\ WF_vars(\E t \in tasks : Finish(t))

FairSpec == Spec /\ Fairness

-----------------------------------------------------------------------------
(* Properties *)

TypeOK ==
  /\ gen \in [Results -> Nat] /\ view \in [Results -> Specs]
  /\ tasks \in SUBSET Tasks /\ viewGen \in [Results -> Nat]
  /\ events \in Seq(Events)
  /\ current \in Results /\ aggregated \in YesNo /\ pending \in YesNo
  /\ specs \in [Results -> Specs] /\ backup \in [Results -> Specs \cup {NoSpec}]
  /\ summaries \in [Results -> {"none", "rows", "groups"}]
  /\ page \in Specs /\ staged \in YesNo
  /\ overlapped \in SUBSET Results /\ unsure \in SUBSET Results

\* The comment on finish_view: a view computed for an older request never
\* replaces one computed for a newer, whichever task is done first.
NewestWins == [][\A id \in Results : viewGen'[id] >= viewGen[id]]_vars

\* Why, by induction: no generation runs ahead of the one last reserved.
Reserved ==
  /\ \A id \in Results : viewGen[id] <= gen[id]
  /\ \A t \in tasks : t.gen <= gen[t.id]

\* Once nothing is in flight, the grid is of the view the engine holds, and the
\* flag that makes groups read-only agrees with it.
GridFresh ==
  ~InFlight(current) => /\ page = view[current]
                        /\ (aggregated = "yes") = Grouped(page)
                        /\ pending = "no"

\* A grid of groups is never edited, also between a commit and its event: rows
\* of groups are numbered apart from the rows the changes would name.
GroupsReadOnly == current \notin overlapped /\ Grouped(page) => ~Editable

\* What is drawn can be trusted to be what it says, rows or groups.
GridTrue == GridFresh /\ GroupsReadOnly

\* Once nothing is in flight, the specification shown above the grid is that of
\* its rows, unless requests overlapped, or could not be undone, and one failed.
SpecShown ==
  \A id \in Results \ unsure : ~InFlight(id) => specs[id] = view[id]

\* "aggregating..." is never shown for ever.
NotStuck == pending = "yes" ~> pending = "no"

==============================================================================
