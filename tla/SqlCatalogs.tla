----------------------------- MODULE SqlCatalogs -----------------------------
(* How the six SQL adapters read a catalogue: one operator per query, with   *)
(* its joins, its order and what the adapter makes of the rows. Types,       *)
(* defaults, nullability and the text of definitions are left out.           *)
EXTENDS Catalog

RowId == 0                  \* the column SQLite names where a key names none
Names(S, name(_)) == Column(OrderedBy(S, name), "name")
TriggersOf(db, t) == {g.name : g \in {h \in db.triggers : h.at = t}}
Triggers(db, t) == LET key(n) == <<n>> IN OrderedBy(TriggersOf(db, t), key)
Comments(db, t) == LET key(c) == <<c.col>>
                   IN Column(OrderedBy({c \in db.comments : c.at = t}, key), "col")
Kinds == [table |-> "table", view |-> "view", mview |-> "materialized view",
          sequence |-> "sequence", foreign |-> "relation"]
RelationNodes(S) ==
  LET key(r) == <<r.at[2]>>
      rows == OrderedBy(S, key)
  IN [i \in DOMAIN rows |-> [name |-> rows[i].at[2], kind |-> Kinds[rows[i].kind]]]

\* Lists of columns per foreign key, pushed row by row while the name stays.
KeyOfRows(rows) ==
  ForeignKey(rows[1].key.name, [j \in DOMAIN rows |-> rows[j].key.cols[rows[j].i]],
             rows[1].key.target, [j \in DOMAIN rows |-> rows[j].key.refs[rows[j].i]])
KeysOfGroups(groups) == [k \in DOMAIN groups |-> KeyOfRows(groups[k])]
PushedKeys(rows) == KeysOfGroups(Grouped(rows, [i \in DOMAIN rows |-> rows[i].key.name]))
\* relationship_nodes: the same, with both ends in the comparison.
\* Mutant: rows of one name are one key, whatever its ends.
NamedAlike(row) == <<row.key.name>>
Ends(row) == <<row.key.name, row.key.at, row.key.target>>
NodeOfRows(rows) ==
  Relationship(rows[1].key.name, rows[1].key.at, [j \in DOMAIN rows |-> rows[j].key.cols[rows[j].i]],
               rows[1].key.target, [j \in DOMAIN rows |-> rows[j].key.refs[rows[j].i]])
NodesOfGroups(groups) == [k \in DOMAIN groups |-> NodeOfRows(groups[k])]
RelationshipNodes(rows) == NodesOfGroups(Grouped(rows, [i \in DOMAIN rows |-> Ends(rows[i])]))
Touching(db, t) == {c \in db.constraints : c.kind = "f" /\ (c.at = t \/ c.target = t)}
Whole(c) == Relationship(c.name, c.at, c.cols, c.target, c.refs)

\* The index of every key, and the indexes no key made.
KeyIndexes(db, t) ==
  {[name |-> c.index, cols |-> c.cols, unique |-> TRUE, primary |-> c.kind = "p"] :
     c \in {k \in On(db, t, {"p", "u"}) : k.index # 0}}
OwnIndexes(db, t) ==
  {[name |-> x.name, cols |-> x.cols, unique |-> x.unique, primary |-> FALSE] :
     x \in {y \in db.indexes : y.at = t}}
IndexRows(S) == UNION {{[index |-> x, i |-> i] : i \in DOMAIN x.cols} : x \in S}
IndexOfRows(rows) ==
  IndexNode(rows[1].index.name, [j \in DOMAIN rows |-> rows[j].index.cols[rows[j].i]],
            rows[1].index.unique, rows[1].index.primary)
IndexesOfGroups(groups) == [k \in DOMAIN groups |-> IndexOfRows(groups[k])]
IndexNodes(rows) == IndexesOfGroups(Grouped(rows, [i \in DOMAIN rows |-> rows[i].index.name]))

------------------------------- (* PostgreSQL *) ------------------------------
PgRelations(db, s) ==
  RelationNodes({r \in RelationsIn(db, s) :
                   r.kind \in {"table", "view", "mview", "sequence", "foreign"}})
\* Overloads are one row of the group by.
PgRoutines(db, s) ==
  LET rows == {[name |-> p.at[2], kind |-> p.kind] :
                 p \in {q \in db.routines : q.at[1] = s /\ q.kind # "package"}}
      key(p) == <<p.name, IF p.kind = "procedure" THEN 1 ELSE 0>>
  IN OrderedBy(rows, key)
\* Mutant: one overload is read.
PgFirstSource(db, t, kind) ==
  LET first == {p \in db.routines : p.at = t /\ p.kind = kind /\ p.no \in {1, 3}}
  IN IF first = {} THEN Failed ELSE <<(CHOOSE p \in first : TRUE).no>>
PgRoutineSource(db, t, kind) ==
  LET key(p) == <<p.no>>
  IN IF kind = "package" THEN Failed
     ELSE Column(OrderedBy({p \in db.routines : p.at = t /\ p.kind = kind}, key), "no")
\* The primary key's index holds the INCLUDE columns too; of several foreign
\* keys on a column the query keeps one, whichever.
PgColumns(db, t) ==
  LET cols == ColumnsOf(db, t)
      primary(c) == \E k \in On(db, t, {"p"}) : Holds(k.cols, c) \/ Holds(k.more, c)
      keys(c) == {k \in On(db, t, {"f"}) : Holds(k.cols, c)}
  IN [i \in DOMAIN cols |->
        ColumnNode(cols[i], primary(cols[i]),
                   IF keys(cols[i]) = {} THEN None
                   ELSE Pointing(CHOOSE k \in keys(cols[i]) : TRUE, cols[i]))]
PgIndexes(db, t) ==
  LET key(x) == <<x.name>>
      rows == OrderedBy(KeyIndexes(db, t) \cup OwnIndexes(db, t), key)
  IN [i \in DOMAIN rows |->
        IndexNode(rows[i].name, rows[i].cols, rows[i].unique, rows[i].primary)]
PgRelationships(db, t) ==
  LET key(c) == c.at \o <<c.name, c.no>>
      rows == OrderedBy(Touching(db, t), key)
  IN [i \in DOMAIN rows |-> Whole(rows[i])]
PgDetails(db, t) ==
  LET key(c) == <<c.name>>
      keys == OrderedBy(On(db, t, {"f"}), key)
  IN IF RelationAt(db, t) = {} THEN NoDetails
     ELSE Details([i \in DOMAIN keys |-> ForeignKey(keys[i].name, keys[i].cols,
                                                   keys[i].target, keys[i].refs)],
                  Names(On(db, t, {"c"}), key), Triggers(db, t), Comments(db, t), t)

------------------------------- (* MySQL *) -----------------------------------
MySqlRelations(db, s) ==
  LET nodes == RelationNodes(RelationsIn(db, s))
  IN [i \in DOMAIN nodes |-> IF nodes[i].kind \in {"table", "view"} THEN nodes[i]
                             ELSE [nodes[i] EXCEPT !.kind = "relation"]]
MySqlRoutines(db, s) ==
  LET key(p) == <<p.at[2], p.no>>
      rows == OrderedBy({p \in db.routines : p.at[1] = s}, key)
  IN [i \in DOMAIN rows |-> [name |-> rows[i].at[2], kind |-> rows[i].kind]]
MySqlRoutineSource(db, t, kind) ==
  LET found == {p \in db.routines : p.at = t /\ p.kind = kind}
  IN IF kind = "package" \/ found = {} THEN Failed
     ELSE LET p == CHOOSE q \in found : TRUE IN IF p.shown THEN <<p.no>> ELSE Failed
\* key_column_usage has a row for each column of each foreign key; the join
\* keeps the rows at the lowest position the column has in any of them.
MySqlColumns(db, t) ==
  LET cols == ColumnsOf(db, t)
      usage(c) == {p \in AllParts(On(db, t, {"f"})) : p.key.cols[p.i] = c}
      lowest(c) == {p \in usage(c) : \A q \in usage(c) : p.i <= q.i}
      primary(c) == \/ Holds(KeyOf(db, t), c)
                    \/ /\ On(db, t, {"p"}) = {}
                       /\ \E k \in On(db, t, {"u"}) : k.strict /\ Holds(k.cols, c)
      rows == UNION {IF lowest(c) = {} THEN {[col |-> c, no |-> 0, to |-> None]}
                     ELSE {[col |-> c, no |-> p.key.no, to |-> Pointing(p.key, c)] : p \in lowest(c)} :
                       c \in {cols[i] : i \in DOMAIN cols}}
      key(r) == <<Position(cols, r.col), r.no>>
      ordered == OrderedBy(rows, key)
  IN [i \in DOMAIN ordered |-> ColumnNode(ordered[i].col, primary(ordered[i].col), ordered[i].to)]
MySqlIndexes(db, t) ==
  LET key(row) == <<row.index.name, row.i>>
  IN IndexNodes(OrderedBy(IndexRows(KeyIndexes(db, t) \cup OwnIndexes(db, t)), key))
MySqlRelationships(db, t) ==
  LET key(p) == p.key.at \o <<p.key.name, p.i>>
  IN RelationshipNodes(OrderedBy(AllParts(Touching(db, t)), key))
\* check_constraints names no table: MySQL's check names are a schema's own,
\* MariaDB's a table's (`local`), and the join then pairs them all.
MySqlDetails(db, t) ==
  LET key(p) == <<p.key.name, p.i>>
      checks == {[own |-> c, clause |-> d, name |-> c.name] :
                   c \in On(db, t, {"c"}),
                   d \in {e \in db.constraints : e.kind = "c" /\ e.at[1] = t[1]}}
      order(r) == <<r.name, r.clause.no>>
  IN IF RelationAt(db, t) = {} THEN Failed
     ELSE Details(PushedKeys(OrderedBy(AllParts(On(db, t, {"f"})), key)),
                  Names({r \in checks : r.own.name = r.clause.name}, order),
                  Triggers(db, t), Comments(db, t), t)

------------------------------- (* SQL Server *) ------------------------------
MsSqlRelations(db, s) ==
  LET nodes == RelationNodes({r \in RelationsIn(db, s) : r.kind \in {"table", "view", "sequence"}})
  IN nodes
MsSqlRoutines(db, s) == MySqlRoutines(db, s)
MsSqlRoutineSource(db, t, kind) ==
  LET found == {p \in db.routines : p.at = t /\ p.kind = kind}
  IN IF kind = "package" \/ \E p \in found : ~p.shown THEN Failed
     ELSE LET key(p) == <<p.no>> IN Column(OrderedBy(found, key), "no")
MsSqlColumns(db, t) ==
  LET cols == ColumnsOf(db, t)
      keys(c) == {k \in On(db, t, {"f"}) : Holds(k.cols, c)}
  IN [i \in DOMAIN cols |->
        ColumnNode(cols[i], Holds(KeyOf(db, t), cols[i]),
                   IF keys(cols[i]) = {} THEN None
                   ELSE Pointing(CHOOSE k \in keys(cols[i]) : TRUE, cols[i]))]
\* Disabled and filtered indexes, and an index's INCLUDE columns, are left out.
MsSqlIndexes(db, t) ==
  LET made(x) == IF x.primary THEN 0 ELSE 1
      key(row) == <<made(row.index), row.index.name, row.i>>
  IN IndexNodes(OrderedBy(IndexRows(KeyIndexes(db, t) \cup OwnIndexes(db, t)), key))
MsSqlRelationships(db, t) ==
  LET key(p) == p.key.at \o <<p.key.no, p.i>>
  IN RelationshipNodes(OrderedBy(AllParts(Touching(db, t)), key))
MsSqlDetails(db, t) ==
  LET key(p) == <<p.key.name, p.i>>
      name(c) == <<c.name>>
  IN Details(PushedKeys(OrderedBy(AllParts(On(db, t, {"f"})), key)),
             Names(On(db, t, {"c"}), name), Triggers(db, t), <<>>,
             IF \E r \in RelationAt(db, t) : r.kind = "view" THEN t ELSE None)

------------------------------- (* Oracle *) ----------------------------------
\* A materialized view has a container table of its own name.
OracleRelations(db, s) ==
  LET rows == {[at |-> r.at, kind |-> r.kind] : r \in RelationsIn(db, s)}
              \cup {[at |-> r.at, kind |-> "table"] : r \in {m \in RelationsIn(db, s) : m.kind = "mview"}}
      key(r) == <<r.at[2], IF r.kind = "table" THEN 0 ELSE 1>>
      ordered == OrderedBy(rows, key)
  IN [i \in DOMAIN ordered |-> [name |-> ordered[i].at[2], kind |-> Kinds[ordered[i].kind]]]
OracleRoutines(db, s) == MySqlRoutines(db, s)
OracleRoutineSource(db, t, kind) ==
  LET found == {p \in db.routines : p.at = t /\ p.kind = kind /\ p.shown}
  IN IF kind = "package" THEN Failed ELSE IF found = {} THEN <<>> ELSE <<(CHOOSE p \in found : TRUE).no>>
\* resolve_table: the spelling as written, then in upper case.
Resolved(db, t) ==
  LET tables == {r.at : r \in {q \in db.relations : q.kind # "sequence"}}
  IN IF t \in tables THEN t ELSE UpperOf(t)
OracleKeys(db, t) ==
  LET key(p) == <<p.key.name, p.i>> IN PushedKeys(OrderedBy(AllParts(On(db, t, {"f"})), key))
\* Only a key's first column shows what it points at.
ColumnsWithKeys(cols, primary, keys) ==
  LET first(c) == {k \in DOMAIN keys : keys[k].columns[1] = c}
      found(c) == keys[CHOOSE k \in first(c) : \A j \in first(c) : k <= j]
  IN [i \in DOMAIN cols |->
        ColumnNode(cols[i], Holds(primary, cols[i]),
                   IF first(cols[i]) = {} THEN None
                   ELSE [table |-> found(cols[i]).target, column |-> found(cols[i]).referenced[1]])]
OracleColumns(db, asked) ==
  LET t == Resolved(db, asked) IN ColumnsWithKeys(ColumnsOf(db, t), KeyOf(db, t), OracleKeys(db, t))
\* An index is the primary one where a primary key of its schema has its name.
OracleIndexes(db, asked) ==
  LET t == Resolved(db, asked)
      named(x) == \E c \in db.constraints : c.kind = "p" /\ c.at[1] = t[1] /\ c.name = x.name
      found == {[x EXCEPT !.primary = named(x)] : x \in KeyIndexes(db, t) \cup OwnIndexes(db, t)}
      key(row) == <<row.index.name, row.i>>
  IN IndexNodes(OrderedBy(IndexRows(found), key))
OracleRelationships(db, asked) ==
  LET t == Resolved(db, asked)
      key(p) == p.key.at \o <<p.key.name, p.i>>
  IN RelationshipNodes(OrderedBy(AllParts(Touching(db, t)), key))
OracleDetails(db, asked) ==
  LET t == Resolved(db, asked)
      name(c) == <<c.name>>
  IN IF \E r \in RelationAt(db, t) : r.kind = "sequence" THEN Details(<<>>, <<>>, <<>>, <<>>, t)
     ELSE Details(OracleKeys(db, t), Names(On(db, t, {"c"}), name), Triggers(db, t),
                  Comments(db, t), IF RelationAt(db, t) = {} THEN None ELSE t)

------------------------------- (* DuckDB *) ----------------------------------
DuckDbRelations(db, s) ==
  RelationNodes({r \in RelationsIn(db, s) : r.kind \in {"table", "view", "sequence"}})
DuckDbRoutines(db, s) ==
  LET rows == {[name |-> p.at[2], kind |-> "function"] : p \in {q \in db.routines : q.at[1] = s}}
      key(p) == <<p.name>>
  IN OrderedBy(rows, key)
\* A row for every foreign key a column is in.
DuckDbColumns(db, t) ==
  LET cols == ColumnsOf(db, t)
      keys(c) == {k \in On(db, t, {"f"}) : Holds(k.cols, c)}
      rows == UNION {IF keys(c) = {} THEN {[col |-> c, no |-> 0, to |-> None]}
                     ELSE {[col |-> c, no |-> k.no, to |-> Pointing(k, c)] : k \in keys(c)} :
                       c \in {cols[i] : i \in DOMAIN cols}}
      key(r) == <<Position(cols, r.col), r.no>>
      ordered == OrderedBy(rows, key)
  IN [i \in DOMAIN ordered |->
        ColumnNode(ordered[i].col, Holds(KeyOf(db, t), ordered[i].col), ordered[i].to)]
DuckDbIndexes(db, t) == PgIndexes(db, t)
\* A reference stays within its schema, so the target is read as the source's.
DuckDbRelationships(db, t) ==
  LET found == {c \in db.constraints :
                  c.kind = "f" /\ (c.at = t \/ (c.at[1] = t[1] /\ c.target[2] = t[2]))}
      key(c) == c.at \o <<c.no>>
      rows == OrderedBy(found, key)
  IN [i \in DOMAIN rows |-> Relationship(rows[i].name, rows[i].at, rows[i].cols,
                                         <<rows[i].at[1], rows[i].target[2]>>, rows[i].refs)]
DuckDbDetails(db, t) ==
  LET key(c) == <<c.name, c.no>>
      keys == OrderedBy(On(db, t, {"f"}), key)
      found == {r \in RelationAt(db, t) : r.kind \in {"table", "view"}}
  IN Details([i \in DOMAIN keys |-> ForeignKey(keys[i].name, keys[i].cols,
                                              keys[i].target, keys[i].refs)],
             Names(On(db, t, {"c"}), key), <<>>, Comments(db, t),
             IF found = {} THEN None ELSE t)

------------------------------- (* SQLite *) ----------------------------------
SqliteRelations(db, s) == RelationNodes({r \in RelationsIn(db, s) : r.kind \in {"table", "view"}})
\* foreign_key_list numbers a table's keys from the last one declared.
KeyId(db, c) == Cardinality({d \in On(db, c.at, {"f"}) : d.no > c.no})
ListedKeys(db, t) ==
  LET key(c) == <<KeyId(db, c)>> IN OrderedBy(On(db, t, {"f"}), key)
\* Collected into a map by column: of several keys on one the last stays.
SqliteColumns(db, t) ==
  LET cols == ColumnsOf(db, t)
      keys(c) == {k \in On(db, t, {"f"}) : Holds(k.cols, c)}
      kept(c) == CHOOSE k \in keys(c) : \A j \in keys(c) : KeyId(db, j) <= KeyId(db, k)
      to(k, c) == IF k.refs = <<>> THEN [table |-> k.target, column |-> RowId] ELSE Pointing(k, c)
  IN [i \in DOMAIN cols |->
        ColumnNode(cols[i], Holds(KeyOf(db, t), cols[i]),
                   IF keys(cols[i]) = {} THEN None ELSE to(kept(cols[i]), cols[i]))]
SqliteIndexes(db, t) == PgIndexes(db, t)
\* The keys of every table of the database, one table after another.
SqliteRelationships(db, asked) ==
  LET home == {s \in db.schemas : Upper(s) = Upper(asked[1])}
      s == CHOOSE x \in home : TRUE
      key(c) == <<c.at[2], KeyId(db, c)>>
      tables == {r.at : r \in {q \in RelationsIn(db, s) : q.kind = "table"}}
      target(c) == IF \E u \in tables : SameIgnoringCase(u, c.target)
                   THEN CHOOSE u \in tables : SameIgnoringCase(u, c.target) ELSE c.target
      found == {c \in db.constraints : /\ c.kind = "f" /\ c.at \in tables
                                       /\ \/ Upper(c.at[2]) = Upper(asked[2])
                                          \/ Upper(target(c)[2]) = Upper(asked[2])}
      refs(c) == IF c.refs = <<>> THEN KeyOf(db, target(c)) ELSE c.refs
      rows == OrderedBy(found, key)
  IN IF home = {} \/ \E c \in found : Len(refs(c)) # Len(c.cols) THEN Failed
     ELSE [i \in DOMAIN rows |-> Relationship(KeyId(db, rows[i]), rows[i].at, rows[i].cols,
                                              target(rows[i]), refs(rows[i]))]
SqliteDetails(db, t) ==
  LET keys == ListedKeys(db, t)
  IN Details([i \in DOMAIN keys |-> ForeignKey(0, keys[i].cols, keys[i].target, keys[i].refs)],
             <<>>, Triggers(db, t), <<>>, IF RelationAt(db, t) = {} THEN None ELSE t)
==============================================================================
