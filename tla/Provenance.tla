------------------------------ MODULE Provenance ------------------------------
(* Which row of which table an edit of a result's cell changes: a query is    *)
(* run, the adapter describes where its columns came from and by which of     *)
(* them a row is found, the tables' keys and rows change behind it, and one   *)
(* cell is edited, which ends it.                                             *)
(*   db.catalog what never changes: cols, a table's columns in order, and     *)
(*              views, a view's one table                                     *)
(*   db.keys    a table's keys [kind, cols, whole]: "p" and "u" constraints,  *)
(*              "i" a unique index, not `whole` if partial or functional      *)
(*   db.rows    a table's rows [id, v]; the id is the model's alone           *)
EXTENDS SqlSides

CONSTANTS
  Adapters, Databases, Queries,   \* what is run, by whom, on which tables
  KeySets, Inserted,              \* keys each table may come to have, values rows may get
  Written,                        \* the value an edit writes
  MaxChanges                      \* changes before the edit

VARIABLES adapter, db, query, known, source, shown, edited, changes, current
vars == <<adapter, db, query, known, source, shown, edited, changes, current>>

--------------------------------------------------------------------------------
(* The databases: external to the repository.                                 *)
Base(c, q, f) == CASE f.kind \in {"table", "derived"} -> f.rel
                   [] f.kind = "view" -> c.views[f.rel]
                   [] f.kind = "cte" -> (CHOOSE t \in Range(q.ctes) : t.name = f.rel).of
BaseAt(c, q, i) == Base(c, q, q.from[i])

\* The factors a named column can be of.
Having(c, q, item) == {i \in DOMAIN q.from : /\ item.qual \in {None, NameOf(q.from[i])}
                                             /\ Contains(c.cols[BaseAt(c, q, i)], item.col)}
\* A query's result columns: which factor and column each really shows.
Expanded(c, q, item) ==
  LET of(i, names) == [j \in DOMAIN names |-> [at |-> i, col |-> names[j], as |-> names[j]]]
      merged(i) == LET names == c.cols[BaseAt(c, q, i)]
                   IN IF q.join # "using" \/ i = 1 THEN names
                      ELSE RemoveAt(names, CHOOSE j \in DOMAIN names : names[j] = "id")
  IN IF item.col = "*" THEN FlattenSeq([i \in DOMAIN q.from |-> of(i, merged(i))])
     ELSE IF item.col = "+" THEN <<[at |-> 0, col |-> "+", as |-> item.as]>>
     ELSE <<[at |-> CHOOSE i \in Having(c, q, item) : TRUE, col |-> item.col, as |-> item.as]>>
ResultColumns(c, q) == FlattenSeq([i \in DOMAIN q.items |-> Expanded(c, q, q.items[i])])

\* The rows of the factors each result row is made of, None for none.
ResultRows(d, q) ==
  LET R(i) == d.rows[BaseAt(d.catalog, q, i)]
      matched == {m \in R(1) \X R(2) :
                    \/ q.join = "cross"
                    \/ q.join = "using" /\ m[1].v["id"] = m[2].v["id"] /\ m[1].v["id"] # None
                    \/ q.join = "left" /\ m[1].v["a"] = m[2].v["id"] /\ m[2].v["id"] # None}
  IN IF Len(q.from) = 1 THEN {<<r>> : r \in R(1)}
     ELSE IF q.clause = "union" THEN {<<r, None>> : r \in R(1)} \cup {<<None, s>> : s \in R(2)}
     ELSE matched \cup (IF q.join # "left" THEN {}
                        ELSE {<<r, None>> : r \in {x \in R(1) : \A m \in matched : m[1] # x}})

\* The factor and the column a cell really came from: factor 0 for a computed
\* value, which is one more than the first factor's id.
CellOf(c, q, row, i) ==
  LET column == ResultColumns(c, q)[i]
  IN IF q.clause = "union" /\ row[1] = None
     THEN [at |-> 2, col |-> c.cols[BaseAt(c, q, 2)][i]]
     ELSE [at |-> column.at, col |-> column.col]
ValueAt(c, q, row, i) ==
  LET cell == CellOf(c, q, row, i)
      from == row[IF cell.at = 0 THEN 1 ELSE cell.at]
      value == IF from = None THEN None ELSE from.v[IF cell.at = 0 THEN "id" ELSE cell.col]
  IN IF cell.at = 0 /\ value # None THEN value + 1 ELSE value
\* The table, the row and the column of a cell; no row and no column of a value
\* that was computed, or of an outer join's missing side.
CameFrom(c, q, row, i) ==
  LET cell == CellOf(c, q, row, i)
  IN IF cell.at = 0 \/ row[IF cell.at = 0 THEN 1 ELSE cell.at] = None THEN None
     ELSE [table |-> BaseAt(c, q, cell.at), id |-> row[cell.at].id, col |-> cell.col]

\* What a database accepts: factors that there are, by names of their own, and
\* named columns that are one factor's.
Listed(s) == Len(s) \in Nat /\ s = [i \in 1..Len(s) |-> s[i]]
FactorThere(d, q, i) ==
  LET f == q.from[i] table == BaseAt(d.catalog, q, i) names == d.catalog.cols[table]
  IN /\ f.kind \in {"table", "view", "cte", "derived"}
     /\ f.kind = "view" => f.rel \in DOMAIN d.catalog.views
     /\ f.kind = "cte" => \E t \in Range(q.ctes) : t.name = f.rel
     /\ table \in DOMAIN d.rows \ DOMAIN d.catalog.views
     /\ Listed(names) /\ ~Contains(names, "+")
     /\ q.join = "using" => Contains(names, "id")
Accepted(d, q) ==
  /\ Listed(q.ctes) /\ Listed(q.from) /\ Listed(q.items) /\ Len(q.from) \in 1..2
  /\ \A i \in DOMAIN q.from : FactorThere(d, q, i)
  /\ \A i, j \in DOMAIN q.from : NameOf(q.from[i]) = NameOf(q.from[j]) => i = j
  /\ \A i, j \in DOMAIN q.ctes : q.ctes[i].name = q.ctes[j].name => i = j
  /\ \A k \in DOMAIN q.items : q.items[k].col \notin {"*", "+"} =>
                                \E i \in DOMAIN q.from : Having(d.catalog, q, q.items[k]) = {i}
ASSUME AdaptersKnown == Adapters \subseteq {"postgres", "mysql", "sqlite", "mssql", "oracle", "duckdb", "scylla"}
ASSUME QueriesAccepted == \A d \in Databases, q \in Queries : Accepted(d, q)
ASSUME DatabasesWhole ==
  \A d \in Databases : /\ d = [catalog |-> d.catalog, keys |-> d.keys, rows |-> d.rows]
                       /\ d.rows = [t \in DOMAIN d.rows |-> d.rows[t]]

\* No two rows agree on a whole key; NULLs agree with nothing.
KeysHold(rows, keys) ==
  \A k \in Range(keys) : k.whole =>
    \A r, s \in rows : r # s => \E c \in Range(k.cols) : r.v[c] # s.v[c] \/ r.v[c] = None
KeysMayHold(rows, keys) ==
  /\ KeysHold(rows, keys)
  /\ \A k \in Range(keys) : k.kind = "p" => \A r \in rows : \A c \in Range(k.cols) : r.v[c] # None

--------------------------------------------------------------------------------
(* Where the adapters say a result's columns came from.                       *)
Origin(table, name) == [table |-> table, name |-> name]

\* The table itself, through views and subqueries, as a driver names it; the
\* PostgreSQL server stops at a view, and no server traces a set operation.
Traced(e, c, q) ==
  LET columns == ResultColumns(c, q)
      table(at) == IF e = "postgres" /\ q.from[at].kind = "view" THEN q.from[at].rel
                   ELSE BaseAt(c, q, at)
  IN [i \in DOMAIN columns |->
        IF columns[i].at = 0 \/ (q.clause = "union" /\ e # "sqlite") THEN None
        ELSE Origin(table(columns[i].at), columns[i].col)]

\* The one table of a plain SELECT, its columns known by the names shown.
SingleTable(q) == /\ Plain(q)
                  /\ q.ctes = <<>>
                  /\ Len(q.from) = 1
                  /\ q.from[1].kind \in {"table", "view"}
ByName(c, q) ==
  LET columns == ResultColumns(c, q)
  IN [i \in DOMAIN columns |->
        IF Contains(c.cols[BaseAt(c, q, 1)], columns[i].as)
        THEN Origin(q.from[1].rel, columns[i].as) ELSE None]

\* DuckDB's own reading: base tables and their joins only.
Described(q) == /\ Plain(q)
                /\ \A i \in DOMAIN q.from : q.from[i].kind = "table"
Scopes(q, relation) == {i \in DOMAIN q.from : relation \in {q.from[i].rel, NameOf(q.from[i])}}
Parsed(c, q, item) ==
  LET repeated(t) == Cardinality({i \in DOMAIN q.from : q.from[i].rel = t}) > 1
      origin(i, name) ==
        IF repeated(q.from[i].rel) \/ ~Contains(c.cols[q.from[i].rel], name) THEN None
        ELSE Origin(q.from[i].rel, name)
      all(i) == LET names == c.cols[q.from[i].rel]
                IN [j \in DOMAIN names |-> origin(i, names[j])]
      having == {i \in IF item.qual = None THEN DOMAIN q.from ELSE Scopes(q, item.qual) :
                   item.qual # None \/ origin(i, item.col) # None}
  IN IF item.col = "*" THEN FlattenSeq([i \in DOMAIN q.from |-> all(i)])
     ELSE IF item.col = "+" \/ Cardinality(having) # 1 THEN <<None>>
     ELSE <<origin(CHOOSE i \in having : TRUE, item.col)>>
\* None at all unless they are as many as the result's columns: a wildcard is
\* taken for every column of both tables, and a join may merge some.
OwnOrigins(c, q) ==
  LET origins == FlattenSeq([i \in DOMAIN q.items |-> Parsed(c, q, q.items[i])])
  IN IF Len(origins) = Len(ResultColumns(c, q)) THEN origins ELSE <<>>

\* The query must be one the adapter describes at all.
Traceable(e, q) == CASE e \in {"postgres", "mysql"} -> TRUE
                     [] e = "sqlite" -> q.clause # "union"
                     [] e = "mssql" -> Plain(q) /\ q.parsed
                     [] e \in {"oracle", "scylla"} -> SingleTable(q)
                     [] e = "duckdb" -> Described(q)
Origins(e, c, q) == CASE e \in {"oracle", "scylla"} -> ByName(c, q)
                      [] e = "duckdb" -> OwnOrigins(c, q)
                      [] OTHER -> Traced(e, c, q)

--------------------------------------------------------------------------------
(* The keys a table is known by: its primary key, then its unique ones.       *)
ColumnsOf(keys) == [i \in DOMAIN keys |-> keys[i].cols]
Primary(keys) == SelectSeq(keys, LAMBDA k : k.kind = "p")
Unique(keys, kinds) == SelectSeq(keys, LAMBDA k : k.whole /\ k.kind \in kinds)
\* Unique indexes, a constraint's or not, but those of a part of the rows and
\* those of an expression.
PostgresKeys(keys) == ColumnsOf(Primary(keys) \o Unique(keys, {"u", "i"}))
SqliteKeys(keys) == ColumnsOf(Primary(keys) \o Unique(keys, {"u", "i"}))
DuckDbKeys(keys) == ColumnsOf(Primary(keys) \o Unique(keys, {"u", "i"}))
MySqlUnique(keys) == Unique(keys, {"u", "i"})
MySqlKeys(keys) == ColumnsOf(Primary(keys) \o MySqlUnique(keys))
\* The primary key's index is a unique one, and the first listed.
MsSqlKeys(keys) == ColumnsOf(Primary(keys) \o Unique(keys, {"u", "i"}))
\* Constraints only.
OracleKeys(keys) == ColumnsOf(Primary(keys) \o Unique(keys, {"u"}))
\* The partition key and the clustering key together.
ScyllaKeys(keys) == ColumnsOf(Primary(keys))
\* A view has no keys; keys of a `lost` kind could not be read.
ReadKeys(e, d, table, lost) ==
  LET keys == IF table \in DOMAIN d.keys THEN SelectSeq(d.keys[table], LAMBDA k : k.kind \notin lost)
              ELSE <<>>
  IN CASE e = "postgres" -> PostgresKeys(keys) [] e = "mysql" -> MySqlKeys(keys)
       [] e = "sqlite" -> SqliteKeys(keys)     [] e = "duckdb" -> DuckDbKeys(keys)
       [] e = "mssql" -> MsSqlKeys(keys)       [] e = "oracle" -> OracleKeys(keys)
       [] e = "scylla" -> ScyllaKeys(keys)

\* The adapters that keep what they read until a statement of theirs may have
\* changed a schema.
Remembers(e) == e \in {"postgres", "mysql"}
TablesOf(origins) == {origins[i].table : i \in {j \in DOMAIN origins : origins[j] # None}}

\* What may fail of reading a table's keys, by kinds: SQLite asks for either kind
\* by itself, three adapters for the unique ones after the rest.
Kinds == {"p", "u", "i"}
Losses(e) == CASE e = "sqlite" -> {{}, {"p"}, {"u", "i"}, Kinds}
               [] e \in {"postgres", "mysql", "duckdb"} -> {{}, {"u", "i"}, Kinds}
               [] OTHER -> {{}, Kinds}
\* MySQL and SQLite ask for one table after another, DuckDB for its unique keys
\* so; else what fails for one table fails for all.
Failures(e, tables) ==
  {lost \in [tables -> Losses(e)] :
     \A t, u \in tables : \/ lost[t] = lost[u] \/ e \in {"mysql", "sqlite"}
                          \/ e = "duckdb" /\ Kinds \notin {lost[t], lost[u]}}
\* What is known once the tables of `lost` have been read: where everything
\* failed nothing is known of them, but MySQL and SQLite know them to have no
\* keys.
Reading(e, d, have, lost) ==
  LET read == {t \in DOMAIN lost : lost[t] # Kinds \/ e \in {"mysql", "sqlite"}}
  IN [t \in DOMAIN have \cup read |->
        IF t \in DOMAIN have THEN have[t] ELSE ReadKeys(e, d, t, lost[t])]

\* The adapters that let every column shown stand in for a key.
EveryColumn(e, q) == e \notin {"mssql", "scylla"} /\ Plain(q)

\* SQLite's texts of its views are taken to be read: where they are not they
\* count as none, and a view is judged as MySQL's is.
SidesFor(e, c, q) ==
  CASE e = "sqlite" -> ExpandViews(ReadSides(q), c.views)
    [] e \in {"duckdb", "scylla"} -> [reads |-> <<>>, qualifiers |-> None]
    [] OTHER -> ReadSides(q)

SourceOf(e, c, q, have) ==
  LET origins == Origins(e, c, q)
      bound == [i \in DOMAIN origins |->
                  IF origins[i] # None /\ origins[i].table \in DOMAIN have THEN origins[i] ELSE None]
  IN IF ~Traceable(e, q) THEN {}
     ELSE Build(bound, SidesFor(e, c, q), have, EveryColumn(e, q))

--------------------------------------------------------------------------------
Nobody == <<>>       \* no table is known yet
Init == /\ adapter \in Adapters
        /\ db \in Databases
        /\ query = None
        /\ known = Nobody
        /\ source = {}
        /\ shown = {}
        /\ edited = {}
        /\ changes = 0
        /\ current = TRUE

\* The tables of a query that can be asked of an adapter: CQL has no joins.
Accepts(e, q) == e = "scylla" => Len(q.from) = 1 /\ q.ctes = <<>> /\ q.from[1].kind = "table"

\* Run a query and describe its result, the catalogue answering all of what is
\* asked or some.
Run ==
  /\ edited = {}
  /\ \E q \in Queries :
       LET have == IF Remembers(adapter) THEN known ELSE Nobody
           tables == IF Traceable(adapter, q) THEN TablesOf(Origins(adapter, db.catalog, q)) ELSE {}
       IN /\ Accepts(adapter, q)
          /\ query' = q
          /\ shown' = ResultRows(db, q)
          /\ \E lost \in Failures(adapter, tables \ DOMAIN have) :
               LET read == Reading(adapter, db, have, lost)
               IN /\ known' = IF Remembers(adapter) THEN read ELSE known
                  /\ source' = SourceOf(adapter, db.catalog, q, read)
                  /\ current' = /\ \A t \in DOMAIN lost : lost[t] = {}
                                /\ Remembers(adapter) => current
  /\ UNCHANGED <<adapter, db, edited, changes>>

Altered(t, keys) == /\ edited = {}
                    /\ changes < MaxChanges
                    /\ keys # db.keys[t]
                    /\ KeysMayHold(db.rows[t], keys)
                    /\ db' = [db EXCEPT !.keys[t] = keys]
                    /\ changes' = changes + 1

\* The adapter's own statement changes a table's keys, shown in place of the
\* query: it forgets every table.
\* Mutant: only a dropped table is forgotten.
ForgetNothing(have) == have
Forget(have) == Nobody
Alter == \E t \in DOMAIN KeySets : \E keys \in KeySets[t] :
  /\ Altered(t, keys)
  /\ known' = Forget(known)
  /\ current' = TRUE
  /\ query' = None
  /\ source' = {}
  /\ shown' = {}
  /\ UNCHANGED <<adapter, edited>>

\* Another session changes a table's keys.
OtherAlters == \E t \in DOMAIN KeySets : \E keys \in KeySets[t] :
  /\ Altered(t, keys)
  /\ current' = FALSE
  /\ UNCHANGED <<adapter, query, known, source, shown, edited>>

\* Another session adds a row, or changes or deletes one.
Rewritten(t, rows) ==
  /\ edited = {}
  /\ changes < MaxChanges
  /\ rows # db.rows[t]
  /\ KeysMayHold(rows, db.keys[t])
  /\ db' = [db EXCEPT !.rows[t] = rows]
  /\ changes' = changes + 1
  /\ UNCHANGED <<adapter, query, known, source, shown, edited, current>>
ValuesOf(t) == {v \in Inserted : DOMAIN v = Range(db.catalog.cols[t])}
OtherInserts == \E t \in DOMAIN db.rows : \E v \in ValuesOf(t) :
  Rewritten(t, db.rows[t] \cup {[id |-> Cardinality(db.rows[t]) + changes + 1, v |-> v]})
OtherUpdates == \E t \in DOMAIN db.rows : \E v \in ValuesOf(t), row \in db.rows[t] :
  Rewritten(t, (db.rows[t] \ {row}) \cup {[row EXCEPT !.v = v]})
OtherDeletes == \E t \in DOMAIN db.rows : \E row \in db.rows[t] : Rewritten(t, db.rows[t] \ {row})

\* The condition an edit finds its row by: every key column's value, NULL by
\* IS NULL; a row with nothing of the table is refused.
Locate(table, row) ==
  LET name(i) == (CHOOSE b \in table.columns : b.column = i).name
      value(i) == ValueAt(db.catalog, query, row, i)
      base == IF table.name \in DOMAIN db.catalog.views THEN db.catalog.views[table.name] ELSE table.name
  IN IF \A i \in table.key : value(i) = None THEN {}
     ELSE {[table |-> base, row |-> r] :
             r \in {x \in db.rows[base] : \A i \in table.key : x.v[name(i)] = value(i)}}

\* Whether the row a cell was shown of still has, in the columns that find it,
\* what it had when it was shown.
Stays(table, row, b) ==
  LET at == CellOf(db.catalog, query, row, b.column).at
      names == {x.name : x \in {y \in table.columns : y.column \in table.key}}
  IN at # 0 /\ row[at] # None =>
       \E r \in db.rows[BaseAt(db.catalog, query, at)] :
         r.id = row[at].id /\ \A name \in names : r.v[name] = row[at].v[name]

\* An edit of one cell changes the one row it is located by, or nothing.
Put(hit, name) == (db.rows[hit.table] \ {hit.row}) \cup {[hit.row EXCEPT !.v[name] = Written]}
Change(table, row, b, hit) ==
  /\ KeysMayHold(Put(hit, b.name), db.keys[hit.table])
  /\ edited' = {[hit |-> [table |-> hit.table, id |-> hit.row.id, col |-> b.name],
                 of |-> CameFrom(db.catalog, query, row, b.column),
                 stays |-> Stays(table, row, b)]}
  /\ db' = [db EXCEPT !.rows[hit.table] = Put(hit, b.name)]
  /\ UNCHANGED <<adapter, query, known, source, shown, changes, current>>
Edit == \E row \in shown, table \in source :
  \E b \in table.columns, hit \in Locate(table, row) :
    /\ edited = {}
    /\ Locate(table, row) = {hit}
    /\ Change(table, row, b, hit)

Next == Run \/ Alter \/ OtherAlters \/ OtherInserts \/ OtherUpdates \/ OtherDeletes \/ Edit
Spec == Init /\ [][Next]_vars
--------------------------------------------------------------------------------
\* How often a query reads a table, however deep.
TimesRead(c, q, t) == Cardinality({i \in DOMAIN q.from : BaseAt(c, q, i) = t})

\* Queries whose columns are known to be bound to the wrong read or column: a
\* common table expression read twice, whose table the text names once; a view
\* beside its table, or read twice, where the driver sees through views and the
\* text is not expanded; a column shown under another's name, where columns are
\* known by their names.
Misjudged(e, c, q) ==
  \/ \E i, j \in DOMAIN q.from : i # j /\ q.from[i].kind = "cte" /\ q.from[i].rel = q.from[j].rel
  \/ e \in {"mysql", "mssql"} /\ \E i \in DOMAIN q.from : q.from[i].kind = "view"
                              /\ TimesRead(c, q, BaseAt(c, q, i)) > 1
  \/ e \in {"oracle", "scylla"} /\ \E i \in DOMAIN q.items : q.items[i].as # q.items[i].col

\* An edit that goes through changes the very cell it was made on, whichever keys
\* and rows other sessions changed since the query ran, as long as that cell's
\* row still has what it is found by: it is found by what the result shows of one
\* read of its table (TableBinder::build, Sides::side, sql.rs locate), and
\* anything but one row is refused (stream.rs check_affected).  A row that has
\* meanwhile lost its key, to none or to another row, no condition tells.
EveryEditHitsShown == \A e \in edited : e.stays => e.hit = e.of
EditHitsShown ==
  \A e \in edited : ~Misjudged(adapter, db.catalog, query) /\ e.stays => e.hit = e.of

\* A table a query reads once and directly, with one of its keys completely
\* shown, is offered for editing and its rows are found by such a key, by the
\* primary one first, as the keys are now: a cached key is never one the
\* adapter's own statement has changed (stream.rs TableKeys, postgres.rs source).
\* DuckDB gives up a wildcard whose columns a join merges.
GivenUp(e, q) == e = "duckdb" /\ q.join = "using" /\ \E i \in DOMAIN q.items : q.items[i].col = "*"
KeysShown(t, k) ==
  LET columns == ResultColumns(db.catalog, query)
      at(name) == {i \in DOMAIN columns : /\ columns[i].col = name
                                          /\ columns[i].at # 0
                                          /\ BaseAt(db.catalog, query, columns[i].at) = t}
  IN \A name \in Range(db.catalog.cols[t]) : Cardinality(at(name)) \in IF name \in Range(k.cols) THEN {1} ELSE {0, 1}
FoundByKey ==
  query # None /\ current /\ Traceable(adapter, query) /\ query.clause # "union"
               /\ query.parsed /\ ~Misjudged(adapter, db.catalog, query) /\ ~GivenUp(adapter, query) =>
    \A i \in DOMAIN query.from :
      LET t == query.from[i].rel
          keys == {k \in Range(db.keys[t]) : /\ k.whole
                                             /\ k.kind \in CASE adapter = "scylla" -> {"p"}
                                                              [] adapter = "oracle" -> {"p", "u"}
                                                              [] OTHER -> {"p", "u", "i"}
                                             /\ KeysShown(t, k)}
          best == IF \E k \in keys : k.kind = "p" THEN {k \in keys : k.kind = "p"} ELSE keys
      IN query.from[i].kind = "table" /\ TimesRead(db.catalog, query, t) = 1 /\ keys # {} =>
           \E table \in source :
             /\ table.name = t
             /\ \E key \in best : {b.name : b \in {x \in table.columns : x.column \in table.key}} = Range(key.cols)
==============================================================================
