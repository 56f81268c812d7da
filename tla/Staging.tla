-------------------------------- MODULE Staging --------------------------------
(***************************************************************************)
(* Changes staged on the result on screen, their review, and the apply that *)
(* writes them: lua/sqmeow/ui/edit.lua with the plan and apply handlers of  *)
(* sqmeow-core/src/server/edits.rs and the rerun that follows an apply.     *)
(*                                                                         *)
(* An apply is one step at the database (the contract of ApplyContract and  *)
(* of Drivers); what can come before it, between the review and the answer, *)
(* is everything the user and another session do meanwhile.                 *)
(***************************************************************************)
EXTENDS RowEdits

CONSTANTS
  ReadsUsed,    \* the reads to start from
  Starts(_),    \* what a read's tables may hold at first
  MaxChanges(_),   \* how many changes are staged in all on a read
  MaxApplies,   \* applies in flight or applied
  MaxForeign,   \* writes of another session
  MaxResults    \* results drawn

\* The databases a run starts from have rows in each table, and keep the key of the one that
\* has a key.  A Redis key holds each field, member or name once, and no element is the mark
\* of one that is to go.
Listing(rows) == Len(rows) \in Nat /\ rows = [i \in 1..Len(rows) |-> rows[i]]
ASSUME StartsSound ==
  \A kind \in ReadsUsed : \A start \in Starts(kind) :
    /\ start = [t |-> start.t, u |-> start.u, p |-> start.p, c |-> start.c, r |-> start.r]
    /\ \A table \in {"t", "u", "p", "c", "r"} :
         /\ Listing(start[table])
         /\ \A i \in DOMAIN start[table] : start[table][i] = [n \in {"id", "v"} |-> start[table][i][n]]
    /\ Sound("t", start.t)
    /\ kind # "list" => \A i, j \in DOMAIN start.r : start.r[i].id = start.r[j].id => i = j
    /\ kind = "set" => \A i \in DOMAIN start.r : start.r[i].v = Null
    /\ \A i \in DOMAIN start.r : start.r[i].id # "deleted"
ASSUME MarkApart == "deleted" \notin Values \cup {Null}

VARIABLES
  read,       \* what the query on screen reads
  hides,      \* "none" | "blank": whether its WHERE leaves out rows without a v
  stored,     \* the database
  shown,      \* the result on screen, 0 while its rerun executes
  grid,       \* the rows of it
  staged,     \* updates, deletes, inserts
  history,    \* what undoes each change
  review,     \* the review popup: its result, statements and changes
  tasks,      \* applies at the engine
  done,       \* apply:done events on their way
  stash,      \* rows the last apply's inserts returned: Session.inserted
  applying,   \* the result whose changes are being applied, 0 when none
  past,       \* ghost: what was staged before each change
  results, applies, foreign, changes

shownVars == <<shown, grid, results, changes>>
editVars == <<staged, history, past, review>>
engineVars == <<stored, tasks, stash, applies, foreign>>
vars == <<read, hides, shownVars, editVars, engineVars, done, applying>>

Nothing == [updates |-> <<>>, deletes |-> {}, inserts |-> <<>>]
NoReview == [result |-> 0, statements |-> <<>>, changes |-> Nothing, grid |-> <<>>]
Empty == [x \in {} |-> Null]

\* M.count
Count == Len(staged.inserts) + Cardinality(staged.deletes)
         + Cardinality({cell \in (1..4) \X (1..4) :
                          cell[1] \in DOMAIN staged.updates /\ cell[2] \in DOMAIN staged.updates[cell[1]]})

\* The rows the query selects.
Selected ==
  LET rows == Grid(read, stored)
  IN Part(rows, {i \in DOMAIN rows : hides = "none" \/ rows[i][2] # Null})

Init ==
  /\ read \in ReadsUsed
  /\ hides \in IF read \in {"table", "keyless"} THEN {"none", "blank"} ELSE {"none"}
  /\ stored \in Starts(read)
  /\ shown = 1 /\ grid = Selected /\ results = 1
  /\ staged = Nothing /\ history = <<>> /\ past = <<>> /\ review = NoReview
  /\ tasks = <<>> /\ done = <<>> /\ stash = <<>> /\ applying = 0
  /\ applies = 0 /\ foreign = 0 /\ changes = 0

-----------------------------------------------------------------------------
(* Staging *)

\* The grid is in front (a review is left by closing it), and it can be edited.
Editing == shown # 0 /\ review = NoReview /\ changes < MaxChanges(read)

\* remember: a change and what undoes it.
Change(new, undo) ==
  /\ staged' = new
  /\ history' = Append(history, undo) /\ past' = Append(past, staged)
  /\ changes' = changes + 1
  /\ UNCHANGED <<read, hides, shown, grid, results, review, engineVars, done, applying>>

\* What a cell is changed to: NULL, or a value; a key is not left without one.
Given(r, c) == IF c \in 1..2 THEN Values \cup (IF c = 2 THEN {Null} ELSE {}) ELSE Values

\* M.set on a row of the result.
SetCell(r, c, value) ==
  LET cells == IF r \in DOMAIN staged.updates THEN staged.updates[r] ELSE Empty
  IN /\ Editing /\ c \in DOMAIN grid[r] /\ Editable(read, c) /\ value \in Given(r, c)
     /\ Change([staged EXCEPT !.updates = With(@, r, With(cells, c, value))],
               [kind |-> "cell", row |-> r, column |-> c, cells |-> cells])

\* M.set on a new row.
SetNew(i, c, value) ==
  /\ Editing /\ Editable(read, c) /\ value \in Given(0, c)
  /\ Change([staged EXCEPT !.inserts[i] = With(@, c, value)],
            [kind |-> "new", at |-> i, cells |-> staged.inserts[i]])

\* M.add_row, empty or as a copy of a row without its primary key.
AddRow(cells) ==
  /\ Editing /\ Insertable(read)
  /\ Change([staged EXCEPT !.inserts = Append(@, cells)],
            [kind |-> "added", at |-> Len(staged.inserts) + 1])
Copy(r) ==
  LET columns == {c \in DOMAIN grid[r] : Editable(read, c) /\ ~(read = "table" /\ c = 1)}
      changed == IF r \in DOMAIN staged.updates THEN staged.updates[r] ELSE Empty
  IN [c \in columns |-> IF c \in DOMAIN changed THEN changed[c] ELSE grid[r][c]]

\* New rows taken out, and put back, one after the other.
TakenOut(rows, from) == InTurn(LAMBDA kept, i : RemoveAt(kept, i), rows, from)
PutBack(rows, gone) == InTurn(LAMBDA kept, g : InsertAt(kept, g.at, g.row), rows, gone)

\* M.toggle_delete: the new rows that go are taken out from the last one.
ToggleDelete(rows, added) ==
  LET keep == rows # {} /\ rows \subseteq staged.deletes
      from == Reverse(Sorted(added))
  IN /\ Editing
     /\ Change([staged EXCEPT !.deletes = IF keep THEN @ \ rows ELSE @ \cup rows,
                              !.inserts = TakenOut(@, from)],
               [kind |-> "toggled", rows |-> rows, were |-> rows \cap staged.deletes,
                removed |-> [k \in DOMAIN from |-> [at |-> from[k], row |-> staged.inserts[from[k]]]]])

\* Mutant: every row toggled is unmarked, whether or not it was marked before.
BackUnmarked(from, undo) ==
  [from EXCEPT !.deletes = @ \ undo.rows, !.inserts = PutBack(@, Reverse(undo.removed))]

\* What undoing a toggle_delete gives: the last one taken out goes back first.
Back(from, undo) ==
  [from EXCEPT !.deletes = (@ \ undo.rows) \cup undo.were, !.inserts = PutBack(@, Reverse(undo.removed))]

Undone(from, undo) ==
  CASE undo.kind = "cell" ->
         [from EXCEPT !.updates = IF undo.cells = Empty THEN Without(@, undo.row)
                                     ELSE With(@, undo.row, undo.cells)]
    [] undo.kind = "new" -> [from EXCEPT !.inserts[undo.at] = undo.cells]
    [] undo.kind = "added" -> [from EXCEPT !.inserts = RemoveAt(@, undo.at)]
    [] undo.kind = "toggled" -> Back(from, undo)

\* M.undo
Undo ==
  /\ shown # 0 /\ review = NoReview /\ history # <<>>
  /\ staged' = Undone(staged, Last(history))
  /\ history' = Front(history) /\ past' = Front(past)
  /\ UNCHANGED <<read, hides, shownVars, review, engineVars, done, applying>>

\* Mutant: the review stays open over changes that are gone.
ResetKeepsPopup == staged' = Nothing /\ history' = <<>> /\ past' = <<>> /\ UNCHANGED review

\* M.reset
Reset == staged' = Nothing /\ history' = <<>> /\ past' = <<>> /\ review' = NoReview

\* The user gives the staged changes up.
Discard ==
  /\ review = NoReview /\ Count > 0
  /\ Reset
  /\ UNCHANGED <<read, hides, shownVars, engineVars, done, applying>>

-----------------------------------------------------------------------------
(* Review and apply *)

\* M.review: the statements the staged changes plan into.
Review ==
  /\ shown # 0 /\ review = NoReview /\ Count > 0
  /\ ~Refused(read, grid, staged)
  /\ review' = [result |-> shown, statements |-> Plan(read, grid, staged), changes |-> staged, grid |-> grid]
  /\ UNCHANGED <<read, hides, shownVars, staged, history, past, engineVars, done, applying>>

Close ==
  /\ review # NoReview
  /\ review' = NoReview
  /\ UNCHANGED <<read, hides, shownVars, staged, history, past, engineVars, done, applying>>

\* <C-s> in the review: M.apply.  Nothing asks whether an apply is on its way.
Confirm ==
  /\ review # NoReview /\ review.statements # <<>> /\ applies < MaxApplies
  /\ applies' = applies + 1
  /\ tasks' = Append(tasks, review)
  /\ review' = NoReview
  /\ applying' = review.result
  /\ UNCHANGED <<read, hides, shownVars, staged, history, past, stored, stash, foreign, done>>

\* Core::apply: what the statements do, and the rows they returned kept for the rerun.
Execute ==
  /\ tasks # <<>>
  /\ LET outcome == Applied(read, stored, Head(tasks).statements)
     IN /\ stored' = outcome.stored
        /\ stash' = IF outcome.ok THEN TableRead(outcome.returned) ELSE stash
        /\ done' = Append(done, [ok |-> outcome.ok, changes |-> Head(tasks).changes])
  /\ tasks' = Tail(tasks)
  /\ UNCHANGED <<read, hides, shownVars, editVars, applies, foreign, applying>>

\* M.on_applied: an error keeps what is staged; else it goes, and the result is read again.
OnApplied ==
  /\ done # <<>>
  /\ done' = Tail(done) /\ applying' = 0
  /\ IF Head(done).ok THEN Reset /\ shown' = 0 ELSE UNCHANGED <<editVars, shown>>
  /\ UNCHANGED <<read, hides, grid, results, changes, engineVars>>

\* The rerun is drawn, with the rows that were inserted and are not among its own.
Redraw ==
  /\ shown = 0 /\ results < MaxResults
  /\ results' = results + 1 /\ shown' = results + 1
  /\ grid' = AppendInserted(read, Selected, stash)
  /\ stash' = <<>>
  /\ Reset
  /\ UNCHANGED <<read, hides, changes, stored, tasks, applies, foreign, done, applying>>

\* The user runs the query again; settle has him discard what is staged first.
Requery ==
  /\ shown # 0 /\ review = NoReview /\ Count = 0 /\ results < MaxResults
  /\ results' = results + 1 /\ shown' = results + 1
  /\ grid' = Selected
  /\ Reset
  /\ UNCHANGED <<read, hides, changes, engineVars, done, applying>>

\* Another session deletes a row or changes one, before the statements arrive.
Foreign(table, i) ==
  /\ foreign < MaxForeign /\ tasks # <<>>
  /\ foreign' = foreign + 1
  /\ i \in DOMAIN stored[table]
  /\ \/ stored' = [stored EXCEPT ![table] = RemoveAt(@, i)]
     \/ stored' = [stored EXCEPT ![table][i].v = "theirs"]
  /\ UNCHANGED <<read, hides, shownVars, editVars, tasks, stash, applies, done, applying>>

Next ==
  \/ \E r \in DOMAIN grid, c \in 1..4, value \in Values \cup {Null} : SetCell(r, c, value)
  \/ \E i \in DOMAIN staged.inserts, c \in 1..2, value \in Values \cup {Null} : SetNew(i, c, value)
  \/ AddRow(Empty)
  \/ \E r \in DOMAIN grid : AddRow(Copy(r))
  \/ \E rows \in SUBSET DOMAIN grid, added \in SUBSET DOMAIN staged.inserts :
       rows \cup added # {} /\ ToggleDelete(rows, added)
  \/ Undo \/ Discard
  \/ Review \/ Close \/ Confirm \/ Execute \/ OnApplied \/ Redraw \/ Requery
  \/ \E table \in DOMAIN stored, i \in 1..2 : Foreign(table, i)

Spec == Init /\ [][Next]_vars

-----------------------------------------------------------------------------
(* Properties *)

\* Undo gives back exactly what was staged before the last change, however rows that were
\* added have been edited, removed and put back since.
UndoRestores == [][Len(history') = Len(history) - 1 /\ done' = done => staged' = Last(past)]_vars

\* The changes an apply was made from, as meant: for each table row on screen, what becomes
\* of the stored row it showed.
Intents(from) ==
  LET places == IF read \in SqlReads THEN Range(Tables(read))
                ELSE {[name |-> IF read \in StoreReads THEN "c" ELSE "r", key |-> {1}, columns |-> <<"id", "v">>]}
      live(r) == r \in DOMAIN from.changes.updates \ from.changes.deletes
      cells(r, t) == [n \in {t.columns[c] : c \in DOMAIN from.changes.updates[r] \cap DOMAIN t.columns} |->
                        from.changes.updates[r][CHOOSE c \in DOMAIN t.columns : t.columns[c] = n]]
      key(t, r) == [n \in {t.columns[c] : c \in t.key} |->
                      from.grid[r][CHOOSE c \in t.key : t.columns[c] = n]]
      changed(r) == {t \in places : DOMAIN from.changes.updates[r] \cap DOMAIN t.columns # {}}
  IN UNION {{[table |-> t.name, where |-> key(t, r), gone |-> FALSE, set |-> cells(r, t)] : t \in changed(r)} :
              r \in {x \in DOMAIN from.grid : live(x)}}
     \cup {[table |-> t.name, where |-> key(t, r), gone |-> TRUE, set |-> Empty] :
             r \in from.changes.deletes, t \in IF read \in SqlReads THEN {Tables(read)[1]} ELSE places}

\* Two changes of one column of one stored row are no meaning to hold on to, nor is a change
\* of a row whose key another one moves.
Consistent(intents) ==
  \A x, y \in intents : x # y /\ x.table = y.table /\ x.where = y.where =>
    ~x.gone /\ ~y.gone /\ DOMAIN x.set \cap (DOMAIN y.set \cup DOMAIN y.where) = {}
\* A key that moves, or that holds what cannot be compared.
Loose(intents) == \E x \in intents : DOMAIN x.set \cap DOMAIN x.where # {} \/ Opaque \in Range(x.where)

\* A row that was gone, and whose key a new row was given with the same apply.
Reborn(x) == Matched(stored[x.table], x.where) = {} /\ Matched(stored'[x.table], x.where) # {}

\* The rows of one table once every change is made, each to the row it was made on.
Rewritten(table, rows, intents) ==
  LET of(row) == {x \in intents : x.table = table /\ \A n \in DOMAIN x.where : row[n] = x.where[n]}
      kept == Part(rows, {i \in DOMAIN rows : \A x \in of(rows[i]) : ~x.gone})
  IN [i \in DOMAIN kept |->
        [n \in {"id", "v"} |->
           IF \E x \in of(kept[i]) : n \in DOMAIN x.set
             THEN (CHOOSE x \in of(kept[i]) : n \in DOMAIN x.set).set[n] ELSE kept[i][n]]]

InsertsGiven(from) ==
  [i \in DOMAIN from.changes.inserts |->
     [n \in {<<"id", "v">>[c] : c \in DOMAIN from.changes.inserts[i]} |->
        from.changes.inserts[i][IF n = "id" THEN 1 ELSE 2]]]

\* A Redis key once every change is made: its elements in order, its fields as a set.
RedisMeant(from) ==
  LET change == from.changes
      cells(r) == IF r \in DOMAIN change.updates THEN change.updates[r] ELSE Empty
      gone(r) == r \in change.deletes \/ \E c \in DOMAIN cells(r) : cells(r)[c] = Null
      new(r) == [id |-> IF 1 \in DOMAIN cells(r) THEN cells(r)[1] ELSE stored.r[r].id,
                 v |-> IF 2 \in DOMAIN cells(r) THEN cells(r)[2] ELSE stored.r[r].v]
      kept == Sorted({r \in DOMAIN stored.r : ~gone(r)})
      rows == [i \in DOMAIN kept |-> new(kept[i])]
              \o [i \in DOMAIN change.inserts |->
                   [id |-> change.inserts[i][1], v |-> IF read = "hash" THEN change.inserts[i][2] ELSE Null]]
      taken(i) == {rows[j].id : j \in DOMAIN rows \ {i}}
                  \cup {stored.r[j].id : j \in {k \in DOMAIN stored.r : i > Len(kept) \/ k # kept[i]}}
      apart == \A i \in DOMAIN rows : rows[i].id \notin taken(i)
  IN IF read = "list" THEN stored'.r = rows ELSE apart => Range(stored'.r) = Range(rows)

\* An apply that succeeds made each staged change once, to the row it was staged on and to
\* no other, and added the new rows.  (When another session wrote meanwhile, a row that is
\* found by part of its key, or by a key that the staged changes move or a new row was given
\* as well, can be another one.)
AsMeant(from) ==
  LET intents == Intents(from)
      into == CASE read \in SqlReads -> Tables(read)[1].name [] read \in StoreReads -> "c" [] OTHER -> "r"
      added(table) == IF table = into THEN InsertsGiven(from) ELSE <<>>
      first == applies = 1 /\ foreign = 0
  IN IF read \in RedisReads THEN first => RedisMeant(from)
     ELSE (Consistent(intents) /\ (first \/ ~Loose(intents)) /\ ~\E x \in intents : Reborn(x)) =>
       /\ \A x \in intents : Cardinality(Matched(stored[x.table], x.where)) = 1
       /\ \A table \in DOMAIN stored :
            LET kept == Rewritten(table, stored[table], intents)
            IN /\ Len(stored'[table]) = Len(kept) + Len(added(table))
               /\ SubSeq(stored'[table], 1, Len(kept)) = kept
               /\ \A i \in DOMAIN added(table) : \A n \in DOMAIN added(table)[i] :
                    stored'[table][Len(kept) + i][n] = added(table)[i][n]
AppliedAsReviewed == [][tasks # <<>> /\ tasks' = Tail(tasks) /\ Last(done').ok => AsMeant(Head(tasks))]_vars

\* A row that was inserted is on screen once after the rerun, whether the query selects it or not.
InsertedShown ==
  [][shown = 0 /\ shown' # 0 /\ Insertable(read) /\ read = "table" =>
       \A i \in DOMAIN stash : Cardinality({k \in DOMAIN grid' : grid'[k][1] = stash[i][1]}) = 1]_vars

\* What is staged names rows of the result on screen, and what a review asks to approve is
\* the plan of what is staged, however many results came and went since.
StagedOnShown ==
  /\ shown # 0 => (DOMAIN staged.updates) \cup staged.deletes \subseteq DOMAIN grid
  /\ review # NoReview => review.changes = staged /\ review.result = shown /\ review.grid = grid

================================================================================
