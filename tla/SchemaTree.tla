----------------------------- MODULE SchemaTree ------------------------------
(* A connection's schema as the editor shows it while the schema changes: the *)
(* drawer's levels (ui/drawer.lua), the structure and routine popup           *)
(* (ui/structure.lua), the editors opened for a table or a routine, and the  *)
(* core's answers, each read from the database at one moment and delivered at *)
(* a later one, in any order.                                                *)
EXTENDS Schemas

CONSTANTS
  Worlds,        \* where a run starts: [engine, mariadb, db, changes, asking, levels, patterns],
                 \* with the constraints that may be defined, the paths a user opens
                 \* (<<>>, <<schema>>, <<schema, group>>, ...) and a Redis user's globs,
                 \* each the set of keys it matches
  Unread,        \* the answer of a request the core has not begun on
  MaxAsks,       \* bound: requests sent
  MaxDefined     \* bound: constraints, indexes and other objects defined

\* A user has opened finitely many levels.
ASSUME LevelsFinite == \A w \in DOMAIN Worlds : IsFiniteSet(Worlds[w].levels)
\* A database's routines are told apart by number. MySQL and Oracle have no two
\* of one name and kind; SurrealDB and ClickHouse have functions alone, and
\* ClickHouse one of a name in all its databases.
RoutinesOf(e, routines) ==
  /\ IsFiniteSet(routines)
  /\ \A p \in routines : p.no \in Int
  /\ \A p, q \in routines : p.no = q.no => p = q
  /\ e \in {"mysql", "oracle"} => \A p, q \in routines : (p.at = q.at /\ p.kind = q.kind) => p = q
  /\ e \in {"surrealdb", "clickhouse"} => \A p \in routines : p.kind = "function"
  /\ e = "clickhouse" => \A p, q \in routines : p.at[2] = q.at[2] => p = q
ASSUME RoutinesGiven ==
  \A w \in DOMAIN Worlds : /\ "routines" \in DOMAIN Worlds[w].db
                           /\ RoutinesOf(Worlds[w].engine, Worlds[w].db.routines)

\* The engines whose adapters tell of foreign keys, and a node of their answers.
Relational == {"postgres", "mysql", "mssql", "oracle", "duckdb", "sqlite"}
Links == [name : Int, source : Int \X Int, columns : Seq(Int), target : Int \X Int, referenced : Seq(Int)]
ASSUME FailedIsNoAnswer == Failed \notin Seq(Links)
\* Constraints are defined between tables, no two of whose names differ in case
\* alone where a name may be typed in another case. A foreign key names as many
\* columns as it has, and columns of its tables by the names they have there,
\* but in SQLite, where its target need not exist and is spelled as the
\* catalogue spells it if it does, its columns in any case; DuckDB's and
\* SQLite's stay within a schema. No two columns of a table differ in case alone.
Constraint == [no : Nat, kind : {"p", "u", "f", "c"}, name : Int, at : Int \X Int, cols : Seq(Int),
               more : Seq(Int), index : Int, target : Int \X Int, refs : Seq(Int), strict : BOOLEAN]
TablesOf(d) == {r.at : r \in {q \in d.relations : q.kind = "table"}}
ForeignKeyOf(e, d, c) ==
  /\ c.cols # <<>>
  /\ e # "sqlite" => /\ Len(c.refs) = Len(c.cols)
                     /\ Elements(c.cols) \subseteq Elements(ColumnsOf(d, c.at))
                     /\ Elements(c.refs) \subseteq Elements(ColumnsOf(d, c.target))
  /\ e \in {"duckdb", "sqlite"} => c.at[1] = c.target[1]
  /\ e = "oracle" => {c.at, c.target} \subseteq TablesOf(d)
  /\ e = "sqlite" => c.at \in TablesOf(d) /\ \A t \in TablesOf(d) : SameIgnoringCase(t, c.target) => t = c.target
NamesOf(e, d) ==
  /\ \A t \in TablesOf(d) :
       /\ t \in Int \X Int /\ ColumnsOf(d, t) \in Seq(Int)
       /\ \A i, j \in DOMAIN ColumnsOf(d, t) : Upper(ColumnsOf(d, t)[i]) = Upper(ColumnsOf(d, t)[j]) => i = j
  /\ e \in {"oracle", "sqlite"} =>
       \A q, r \in d.relations : (q.kind # "sequence" /\ r.kind # "sequence" /\ SameIgnoringCase(q.at, r.at)) => q.at = r.at
  /\ e = "sqlite" => /\ \A t \in TablesOf(d) : t[1] \in d.schemas
                     /\ \A s, u \in d.schemas : Upper(s) = Upper(u) => s = u
KeysOf(w) ==
  /\ {"constraints", "relations", "schemas"} \subseteq DOMAIN w.db /\ w.db.constraints = {}
  /\ w.changes \subseteq Constraint /\ NamesOf(w.engine, w.db)
  /\ \A c \in w.changes : c.kind = "f" => ForeignKeyOf(w.engine, w.db, c)
ASSUME KeysGiven == \A w \in DOMAIN Worlds : Worlds[w].engine \in Relational => KeysOf(Worlds[w])

VARIABLES
  world,         \* which world this run is in
  db,            \* the database
  asks,          \* requests sent and not answered yet, by number, and what was read for each
  sent,          \* how many requests were sent
  cache,         \* drawer: what each level holds
  expanded,      \* drawer: the levels the user opened
  pattern,       \* drawer: the glob keys are listed by
  edits,         \* drawer: table and routine editors waiting for an answer
  opened,        \* the editors opened: [of, id], the request that was answered
  wanted,        \* structure: what its popup is to show
  shown          \* structure: what its popup shows
vars == <<world, db, asks, sent, cache, expanded, pattern, edits, opened, wanted, shown>>
drawer == <<cache, expanded, pattern, edits, opened>>
popup == <<wanted, shown>>

engine == world.engine
Asking == world.asking
Levels == world.levels
Absent == [loading |-> FALSE, nodes |-> None]
Under(level, prefix) == /\ Len(prefix) <= Len(level)
                        /\ SubSeq(level, 1, Len(prefix)) = prefix

Init == /\ \E w \in DOMAIN Worlds : world = Worlds[w]
        /\ db = world.db
        /\ asks = <<>> /\ sent = 0
        /\ cache = [l \in Levels |-> Absent]
        /\ expanded = {}
        /\ pattern = DOMAIN db.types
        /\ edits = {} /\ opened = {}
        /\ wanted = None /\ shown = None

------------------------------- (* The database changes *) --------------------
\* The names a database keeps apart: a schema's, a table's, or none.
Apart(c, d) ==
  CASE engine \in {"mssql", "oracle"} -> c.at[1] = d.at[1]
    [] engine = "postgres" -> c.at = d.at
    [] engine = "mysql" -> IF c.kind = "f" \/ (c.kind = "c" /\ ~world.mariadb)
                           THEN c.at[1] = d.at[1] ELSE c.at = d.at
    [] OTHER -> FALSE
Permitted(c) ==
  /\ c.kind = "p" => On(db, c.at, {"p"}) = {}
  /\ c.kind = "f" /\ engine # "sqlite" =>
       \E k \in On(db, c.target, {"p", "u"}) : Elements(k.cols) = Elements(c.refs)
  /\ \A d \in db.constraints : (c.kind = d.kind /\ Apart(c, d)) => c.name # d.name
  /\ \A d \in db.constraints : c # [d EXCEPT !.no = 0]
Define(x) ==
  /\ Cardinality(db.constraints) < MaxDefined
  /\ Permitted(x)
  /\ db' = [db EXCEPT !.constraints = @ \cup {[x EXCEPT !.no = Cardinality(db.constraints) + 1]}]
  /\ UNCHANGED <<world, asks, sent, drawer, popup>>
\* A key expires, or is written again with another type.
Retype(k) ==
  /\ world.asking /\ sent > 0
  /\ \E type \in {"none", "hash"} : db' = [db EXCEPT !.types[k] = type]
  /\ db' # db
  /\ UNCHANGED <<world, asks, sent, drawer, popup>>

------------------------------- (* The drawer *) ------------------------------
Ask(what, of) == [what |-> what, of |-> of, pattern |-> pattern', answer |-> Unread]
\* Requests go out, numbered on from the last one.
Send(new) == /\ sent + Len(new) <= MaxAsks
             /\ sent' = sent + Len(new)
             /\ asks' = [id \in DOMAIN asks \cup (sent + 1..sent + Len(new)) |->
                           IF id \in DOMAIN asks THEN asks[id] ELSE new[id - sent]]
AskOne(what, of) == Send(<<Ask(what, of)>>)
\* invalidate: what is cached or waiting below a level is dropped.
\* Mutant: an editor waiting below a level that is dropped keeps waiting.
AllEdits(level) == edits
WithoutEdits(level) == {w \in edits : ~Under(w.level, level)}
\* load: nothing where the level is being read, or else a request; what is
\* drawn stays until its answer.
Loads(levels, after) ==
  LET asked == SetToSeq({l \in levels : ~after[l].loading})
  IN /\ Send([i \in DOMAIN asked |-> Ask("level", asked[i])])
     /\ cache' = [l \in Levels |-> IF Holds(asked, l) THEN [after[l] EXCEPT !.loading = TRUE]
                                   ELSE after[l]]

\* toggle: a level opens, and is read if it never was, or closes.
Toggle(l) ==
  /\ Asking
  /\ expanded' = IF l \in expanded THEN expanded \ {l} ELSE expanded \cup {l}
  /\ UNCHANGED <<world, db, pattern, edits, opened, popup>>
  /\ IF l \notin expanded /\ cache[l] = Absent THEN Loads({l}, cache)
     ELSE UNCHANGED <<cache, asks, sent>>
\* reload: all at or under a level is dropped, its open levels are read again,
\* and so is the level its own row is drawn from.
Reload(level) ==
  LET kept == [l \in Levels |-> IF Under(l, level) THEN Absent ELSE cache[l]]
      open == {l \in expanded : Under(l, level)}
      above == IF level = <<>> THEN {} ELSE {SubSeq(level, 1, Len(level) - 1)} \cap Levels
  IN /\ edits' = WithoutEdits(level)
     /\ Loads(open \cup above, kept)
Refresh(level) ==
  /\ Asking
  /\ UNCHANGED <<world, db, pattern, expanded, opened, popup>>
  /\ Reload(level)
FilterKeys ==
  /\ Asking /\ engine = "redis"
  /\ pattern' \in world.patterns \ {pattern}
  /\ UNCHANGED <<world, db, expanded, opened, popup>>
  /\ Reload(<<>>)
\* edit: a table's editor opens on its cached columns, or once they are read; a
\* routine's once its source is.
EditTable(level) ==
  /\ Asking /\ Len(level) = 3
  /\ UNCHANGED <<world, db, pattern, expanded, popup>>
  /\ IF cache[level].nodes \notin {None, Failed}
     THEN /\ opened' = opened \cup {[of |-> level, id |-> 0]}
          /\ UNCHANGED <<edits, cache, asks, sent>>
     ELSE /\ edits' = {w \in edits : w.level # level \/ w.id # 0} \cup {[level |-> level, id |-> 0]}
          /\ UNCHANGED opened
          /\ Loads({level}, cache)
Named(p) == [at |-> p.at, kind |-> p.kind]
Inspected(p) == p.kind \in {"function", "procedure"}
EditRoutine(p) ==
  /\ Asking /\ Inspected(p)
  /\ LET group == IF p.kind = "function" THEN "functions" ELSE "procedures"
     IN edits' = edits \cup {[level |-> <<p.at[1], group, p.at[2]>>, id |-> sent + 1]}
  /\ UNCHANGED <<world, db, cache, expanded, pattern, opened, popup>>
  /\ AskOne("routine", Named(p))

------------------------------- (* The structure popup *) ---------------------
OpenStructure(t) ==
  /\ Asking
  /\ wanted' = [what |-> "structure", of |-> t, id |-> sent + 1]
  /\ UNCHANGED <<world, db, drawer, shown>>
  /\ AskOne("structure", t)
OpenRoutine(p) ==
  /\ Asking /\ Inspected(p)
  /\ wanted' = [what |-> "routine", of |-> Named(p), id |-> sent + 1]
  /\ shown' = None
  /\ UNCHANGED <<world, db, drawer>>
  /\ AskOne("routine", Named(p))
Close == /\ Asking /\ wanted # None
         /\ wanted' = None /\ shown' = None
         /\ UNCHANGED <<world, db, asks, sent, drawer>>

------------------------------- (* The core *) --------------------------------
\* read_level: what a level holds, by how long its path is.
Nodes(level, glob) ==
  CASE Len(level) = 0 -> db.schemas
    [] Len(level) = 1 -> Groups(engine, db, level[1], glob)
    [] Len(level) = 2 -> Members(engine, db, level[1], level[2], glob)
    [] Len(level) = 3 -> Columns(engine, db, <<level[1], level[3]>>)
\* structure: its columns, its indexes and its details, one after another.
StructurePart(t, i) == CASE i = 1 -> Columns(engine, db, t)
                         [] i = 2 -> Indexes(engine, db, t)
                         [] i = 3 -> DetailsOf(engine, db, t)
Ready(a) == a.answer # Unread /\ (a.what = "structure" /\ a.answer # Failed => Len(a.answer) = 3)
\* Its queries are asked one by one, and the first that fails is the answer.
Read(id) ==
  /\ ~Ready(asks[id])
  /\ LET a == asks[id]
         before == IF a.answer = Unread THEN <<>> ELSE a.answer
         whole == CASE a.what = "level" -> Nodes(a.of, a.pattern)
                    [] a.what = "routine" -> RoutineSource(engine, db, a.of.at, a.of.kind)
                    [] a.what = "structure" -> Append(before, StructurePart(a.of, Len(before) + 1))
     IN \E answer \in {whole, Failed} : asks' = [asks EXCEPT ![id].answer = answer]
  /\ UNCHANGED <<world, db, sent, drawer, popup>>
Delivered(id, what) == /\ asks[id].what = what /\ Ready(asks[id])
                       /\ asks' = Restrict(asks, DOMAIN asks \ {id})

\* What waits for a level's columns.
WaitingFor(level) == {w \in edits : w.level = level /\ w.id = 0}
\* load, refused: the request never goes out, which the level then says, and an
\* editor waiting for the level does not open.
Refuse(id) ==
  /\ asks[id].what = "level" /\ asks[id].answer = Unread
  /\ cache[asks[id].of].loading
  /\ \A k \in DOMAIN asks : asks[k].what = "level" /\ asks[k].of = asks[id].of => k <= id
  /\ asks' = Restrict(asks, DOMAIN asks \ {id})
  /\ cache' = [cache EXCEPT ![asks[id].of] = [loading |-> FALSE, nodes |-> Failed]]
  /\ edits' = edits \ WaitingFor(asks[id].of)
  /\ UNCHANGED <<world, db, sent, expanded, pattern, opened, popup>>
\* on_nodes: whatever arrives last is what the level holds, nothing if it could
\* not be read, and an editor waiting for the level opens if it was.
OnNodes(id) ==
  /\ Delivered(id, "level")
  /\ LET failed == asks[id].answer = Failed
         nodes == IF failed THEN <<>> ELSE asks[id].answer
         waiting == WaitingFor(asks[id].of)
     IN /\ cache' = [cache EXCEPT ![asks[id].of] = [loading |-> FALSE, nodes |-> nodes]]
        /\ edits' = edits \ waiting
        /\ opened' = IF failed THEN opened
                     ELSE opened \cup {[of |-> w.level, id |-> id] : w \in waiting}
  /\ UNCHANGED <<world, db, sent, expanded, pattern, popup>>
\* on_routine, in the drawer and in the popup: each takes its own request's.
OnRoutine(id) ==
  /\ Delivered(id, "routine")
  /\ LET waiting == {w \in edits : w.id = id}
     IN /\ edits' = edits \ waiting
        /\ opened' = opened \cup {[of |-> w.level, id |-> id] : w \in
                                    IF asks[id].answer = Failed THEN {} ELSE waiting}
  /\ IF wanted # None /\ wanted.what = "routine" /\ wanted.id = id
     THEN /\ wanted' = None
          /\ shown' = IF asks[id].answer = Failed THEN shown
                      ELSE [what |-> "routine", of |-> asks[id].of, id |-> id]
     ELSE UNCHANGED popup
  /\ UNCHANGED <<world, db, sent, cache, expanded, pattern>>
\* on_done: a structure of the table asked for last, whichever request's (the
\* id in `wanted` is the model's own: a structure request carries none).
OnDone(id) ==
  /\ Delivered(id, "structure")
  /\ IF wanted # None /\ wanted.what = "structure" /\ wanted.of = asks[id].of
     THEN /\ wanted' = None
          /\ shown' = IF asks[id].answer = Failed THEN shown
                      ELSE [what |-> "structure", of |-> asks[id].of, id |-> id]
     ELSE UNCHANGED popup
  /\ UNCHANGED <<world, db, sent, drawer>>

Answer(id) == id \in DOMAIN asks /\ (Read(id) \/ Refuse(id) \/ OnNodes(id) \/ OnRoutine(id) \/ OnDone(id))
User == \/ \E l \in Levels : Toggle(l) \/ Refresh(l) \/ EditTable(l)
        \/ FilterKeys
        \/ \E p \in db.routines : EditRoutine(p) \/ OpenRoutine(p)
        \/ \E r \in db.relations : OpenStructure(r.at)
        \/ Close
Next == \/ \E x \in world.changes : Define(x)
        \/ \E k \in DOMAIN db.types : Retype(k)
        \/ User
        \/ \E id \in 1..MaxAsks : Answer(id)
Spec == Init /\ [][Next]_vars

------------------------------- (* Properties *) ------------------------------
\* What an adapter answers depends on the database alone: it is judged in the
\* states in which nothing has been asked for yet.
Unasked == sent = 0
Tables == TablesOf(db)
ForeignKeys(t) == On(db, t, {"f"})
Pairs(c) == {<<c.cols[i], Referenced(db, c)[i]>> : i \in DOMAIN c.cols}
\* SQLite resolves a key that names no columns by its target's primary key.
Resolvable(c) == Len(Referenced(db, c)) = Len(c.cols)
\* A name as a user may type it: Oracle folds it to upper case, SQLite ignores case.
Spellings(t) == {t} \cup (IF engine \in {"oracle", "sqlite"}
                          THEN {<<t[1] - 10, t[2] - 10>>} \cap ((1..9) \X (1..9)) ELSE {})
\* The same name in the other case; and whether a key calls a column by a name.
OtherCase(n) == IF n \in 1..9 THEN n + 10 ELSE IF n \in 11..19 THEN n - 10 ELSE n
Calls(column, name) == column = name \/ (engine = "sqlite" /\ Upper(column) = Upper(name))
\* A key's columns at this end of it, which a cell of column i leads along if it
\* is of one of them and there is a cell to use of each; and what the rows of the
\* other end are then asked to hold: each column's value there, that of the cell here.
HereOf(outgoing, k) == IF outgoing THEN k.cols ELSE Referenced(db, k)
Leads(cols, usable, i, here) ==
  /\ \E x \in DOMAIN here : Calls(cols[i], here[x])
  /\ \A x \in DOMAIN here : \E j \in usable : Calls(cols[j], here[x])
Matched(cols, shows, here, there) ==
  {<<p[1], there[p[2]]>> : p \in {q \in shows \X DOMAIN here : Calls(cols[q[1]], here[q[2]])}}
Spelling(cols, shows, recased) == [j \in shows |-> IF j \in recased THEN OtherCase(cols[j]) ELSE cols[j]]
Leading(t, outgoing, i, usable) ==
  {k \in Touching(db, t) : /\ t = IF outgoing THEN k.at ELSE k.target
                          /\ Leads(ColumnsOf(db, t), usable, i, HereOf(outgoing, k))}
Reaches(found, keys, t, outgoing, shows) ==
  /\ Cardinality(found) = Cardinality(keys)
  /\ \A k \in keys : \E f \in found :
       /\ f.table = IF outgoing THEN k.target ELSE k.at
       /\ f.where = Matched(ColumnsOf(db, t), shows, HereOf(outgoing, k), HereOf(~outgoing, k))
Doubled(t, c) == /\ engine \in {"mysql", "duckdb"}
                 /\ Cardinality({k \in ForeignKeys(t) : Holds(k.cols, c)}) > 1
Sampled(t) == engine = "mongodb" \/ (engine = "surrealdb" /\ Elements(ColumnsOf(db, t)) \ {1} = {})
FieldsOf(t) == UNION {DOMAIN db.documents[t][i] : i \in DOMAIN db.documents[t]}
               \cup (IF engine = "mongodb" THEN DOMAIN db.validator[t] ELSE {1})
KeyFields(t) == CASE engine = "mongodb" -> {1} \cap FieldsOf(t)
                  [] engine = "surrealdb" -> {1}
                  [] OTHER -> Elements(KeyOf(db, t))

\* `cols` describes the columns of t.
ColumnsRight(t, cols) ==
    LET names == {cols[i].name : i \in DOMAIN cols}
        marked == {cols[i].name : i \in {j \in DOMAIN cols : cols[j].primary_key}}
    IN /\ names = IF Sampled(t) THEN FieldsOf(t) ELSE Elements(ColumnsOf(db, t))
       /\ \A i, j \in DOMAIN cols : (i # j /\ ~Doubled(t, cols[i].name)) => cols[i].name # cols[j].name
       /\ KeyFields(t) \subseteq marked
       /\ \A c \in marked : \/ c \in KeyFields(t)
                            \/ engine = "postgres" /\ \E k \in On(db, t, {"p"}) : Holds(k.more, c)
                            \/ engine = "mysql" /\ KeyFields(t) = {}
       /\ \A i \in DOMAIN cols :
            LET found == {k \in ForeignKeys(t) : Holds(k.cols, cols[i].name)}
                to == cols[i].foreign_key
            IN /\ to # None => \E k \in found : /\ to.table = k.target
                                                /\ \/ k.refs = <<>> /\ to.column = RowId
                                                   \/ k.refs # <<>> /\ <<cols[i].name, to.column>> \in Pairs(k)
               /\ to = None => found = {} \/ (engine = "oracle" /\ \A k \in found : k.cols[1] # cols[i].name)

\* The drawer and the structure view list every column of a table once, mark
\* those of its primary key and no other, and lead to a column one of its
\* foreign keys points at: the `columns` query of each adapter, whatever the
\* keys on the table. Left out: MySQL and DuckDB list a column of two foreign
\* keys twice, PostgreSQL marks a key's INCLUDE columns, MySQL a unique key's
\* where there is no primary one, Oracle leads on only from a key's first column.
ColumnsTrue ==
  Unasked /\ engine # "redis" => \A t \in Tables : ColumnsRight(t, Columns(engine, db, t))

\* The structure view lists every key and index of a table once, its columns in
\* their order, and calls the primary key primary (each adapter's `indexes`).
\* Left out: Oracle knows a primary key's index only by their having one name.
IndexesTrue ==
  Unasked => \A t \in Tables :
    LET nodes == Indexes(engine, db, t)
        keys == {k \in On(db, t, {"p", "u"}) : k.index # 0}
    IN engine \in Relational =>
       /\ Len(nodes) = Cardinality(keys) + Cardinality({x \in db.indexes : x.at = t})
       /\ \A k \in keys : \E i \in DOMAIN nodes :
            /\ nodes[i].name = k.index /\ nodes[i].columns = k.cols /\ nodes[i].unique
            /\ nodes[i].primary = (k.kind = "p") \/ (engine = "oracle" /\ k.index # k.name)

\* A relationships answer holds each foreign key at either end of the table
\* once, itself included, its columns paired in order, whatever spelling of the
\* table was asked for (adapter.rs; relationship_nodes): a key of two columns
\* comes as two rows, and another key's row may come between no two of them.
RelationshipsTrue ==
  Unasked => \A t \in Tables : \A asked \in Spellings(t) :
    LET answer == Relationships(engine, db, asked)
        keys == Touching(db, t)
    IN IF answer = Failed
       THEN engine \notin Relational
            \/ \E c \in keys : ~Resolvable(c)
       ELSE /\ Len(answer) = Cardinality(keys)
            /\ \A c \in keys : \E i \in DOMAIN answer :
                 /\ answer[i].source = c.at /\ answer[i].target = c.target
                 /\ answer[i].columns = c.cols /\ answer[i].referenced = Referenced(db, c)

\* gd on a cell goes to the rows each foreign key of its column points at, and
\* gr to the rows pointing at it: along all the key's columns, each with the
\* cell of its own column, and along none where the result does not show them
\* all or an edit of one is staged. Names are compared ignoring case, whether
\* the result spells its columns as the catalogue does or in the other case
\* (handle_drilldown, follow_cell). Left out: a table with two columns whose names differ in case
\* alone, of which the first one shown is taken for both; a cell that is NULL.
FollowsTrue ==
  Unasked => \A t \in Tables : \A asked \in Spellings(t) :
    LET answer == Relationships(engine, db, asked)
        cols == ColumnsOf(db, t)
    IN answer # Failed =>
       \A shows \in SUBSET DOMAIN cols : \A recased \in {{}, shows}, staged \in SUBSET shows :
       \A i \in shows, outgoing \in BOOLEAN :
         Reaches(Followed(engine, asked, answer, i, outgoing, Spelling(cols, shows, recased), staged),
                 Leading(t, outgoing, i, shows \ staged), t, outgoing, shows)

\* The details of a table are its own: its foreign keys whole, its checks and
\* its triggers, and none of another table's, whatever names they share (each
\* adapter's `details`). Left out: MariaDB's checks, which are joined by a name
\* that two of its tables may share.
DetailsTrue ==
  Unasked => \A t \in Tables :
    LET d == DetailsOf(engine, db, t)
        checks == {c.name : c \in On(db, t, {"c"})}
    IN engine \in Relational =>
       /\ Len(d.foreign_keys) = Cardinality(ForeignKeys(t))
       /\ \A k \in ForeignKeys(t) : \E i \in DOMAIN d.foreign_keys :
            /\ d.foreign_keys[i].columns = k.cols /\ d.foreign_keys[i].target = k.target
            /\ d.foreign_keys[i].referenced = k.refs
       /\ Elements(d.checks) = IF engine = "sqlite" THEN {} ELSE checks
       /\ Len(d.checks) = Cardinality(Elements(d.checks)) \/ world.mariadb
       /\ Elements(d.triggers) = IF engine = "duckdb" THEN {} ELSE {g.name : g \in {h \in db.triggers : h.at = t}}

\* What is shown of a table is true of it, whatever keys it and its neighbours have.
TableDescribed == ColumnsTrue /\ IndexesTrue /\ DetailsTrue

\* `groups` and their members are what is `listed`.
KeysRight(groups, drawn, scanned) ==
  \/ \E g \in groups : g.capped
  \/ Cardinality(Elements(scanned)) < Len(scanned)
  \/ \E k \in Elements(scanned) : db.types[k] \notin DOMAIN KeyTypes
  \/ {n.name : n \in drawn} = Elements(scanned) \cap pattern
Drawn(groups, drawn, listed) ==
  /\ drawn = Elements(listed) /\ MapThenSumSet(LAMBDA g : g.count, groups) = Len(listed)
  /\ engine # "oracle" => Cardinality(drawn) = Len(listed)
  /\ engine = "redis" => KeysRight(groups, drawn, FlattenSeq(FlattenSeq(db.scans)))
GroupsRight(groups, members, listed) ==
  /\ \A g \in groups : g.count = Len(members[g.key])
  /\ Drawn(groups, UNION {Elements(members[g.key]) : g \in groups}, listed)
SchemaRight(s, groups) ==
  GroupsRight(groups, [key \in {g.key : g \in groups} |-> Members(engine, db, s, key, pattern)],
              IF engine = "redis" THEN RedisKeys(db, pattern) ELSE Relations(engine, db, s) \o Routines(engine, db, s))

\* Every relation and every routine a schema's adapter lists is drawn in one
\* group and counted there (group_nodes, members), and so is every key of a
\* Redis database unless its groups are marked as cut short. Left out: an
\* Oracle materialized view, which is also drawn as the table it is kept in; a
\* scan that repeats a key or meets a type with no group, which shortens the
\* list below the cap after it was cut.
DrawnOnce == Unasked => \A s \in db.schemas : SchemaRight(s, Groups(engine, db, s, pattern))

\* A routine's editor and its popup hold all its definitions, every overload of
\* its kind, or an error: never a part of them (routine_source).
RoutinesWhole ==
  Unasked => \A p \in db.routines :
    LET source == RoutineSource(engine, db, p.at, p.kind)
        all == {q.no : q \in {o \in db.routines : o.at = p.at /\ o.kind = p.kind}}
    IN source # Failed => Elements(source) = all

\* Nothing waits for an answer that will not come: a level that is being read
\* has its request on its way, and an editor that waits for a level waits for
\* one that is being read (load, invalidate, on_nodes, edit).
AnswersComing ==
  LET coming(what, of) == \E id \in DOMAIN asks : asks[id].what = what /\ asks[id].of = of
  IN /\ \A l \in Levels : cache[l].loading => coming("level", l)
     /\ \A w \in edits : IF w.id = 0 THEN cache[w.level].loading ELSE w.id \in DOMAIN asks
     /\ wanted # None => coming(wanted.what, wanted.of)
==============================================================================
