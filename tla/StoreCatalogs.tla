---------------------------- MODULE StoreCatalogs ----------------------------
(* How the five adapters of stores read theirs. A store's record adds        *)
(*   documents  [at -> a sequence of documents, each a field -> its value]   *)
(*   validator  [at -> the fields its schema names, each -> its type]        *)
(*   scans      a sequence of primaries, each a sequence of SCAN's batches   *)
(*   types      [key -> what TYPE answers]                                   *)
(* and holds a CQL table's key as a constraint whose `cols` are the partition *)
(* and clustering columns and whose `more` are the static ones.              *)
EXTENDS Catalog, SequencesExt

CONSTANT MaxKeys            \* MAX_KEYS: the keys a drawer lists at most

Elements(s) == {s[i] : i \in DOMAIN s}
RelationList(S, kind(_)) ==
  LET key(r) == <<r.at[2]>>
      rows == OrderedBy(S, key)
  IN [i \in DOMAIN rows |-> [name |-> rows[i].at[2], kind |-> kind(rows[i])]]
IndexList(S) == LET key(x) == <<x.name>>
                    rows == OrderedBy(S, key)
                IN [i \in DOMAIN rows |-> IndexNode(rows[i].name, rows[i].cols, rows[i].unique, FALSE)]

\* field_nodes: the fields of a sample, in an order that stands for the one
\* they are first met in.
FieldNodes(sample) ==
  LET key(f) == <<f>> IN OrderedBy(UNION {DOMAIN sample[i] : i \in DOMAIN sample}, key)

------------------------------- (* MongoDB *) ---------------------------------
MongoRelations(db, s) ==
  LET kind(r) == IF r.kind = "view" THEN "view" ELSE "table"
  IN RelationList(RelationsIn(db, s), kind)
FieldColumns(fields) == [i \in DOMAIN fields |-> ColumnNode(fields[i], fields[i] = 1, None)]
\* The sample's fields, then those only the validator's schema names: an empty
\* collection shows no id.
MongoColumns(db, t) ==
  LET fields == FieldNodes(db.documents[t])
      declared == FieldNodes(<<db.validator[t]>>)
      missing(f) == ~Holds(fields, f)
  IN FieldColumns(fields \o SelectSeq(declared, missing))
MongoIndexes(db, t) ==
  <<IndexNode(0, <<1>>, TRUE, TRUE)>> \o IndexList({x \in db.indexes : x.at = t})
MongoDetails(db, t) ==
  Details(<<>>, <<>>, <<>>, <<>>, IF DOMAIN db.validator[t] = {} THEN None ELSE t)

------------------------------- (* CQL *) -------------------------------------
ScyllaRelations(db, s) ==
  LET kind(r) == IF r.kind = "mview" THEN "materialized view" ELSE "table"
  IN RelationList(RelationsIn(db, s), kind)
\* Functions and aggregates, an overloaded one once.
ScyllaRoutines(db, s) ==
  LET key(p) == <<p.name>>
  IN OrderedBy({[name |-> p.at[2], kind |-> "function"] : p \in {q \in db.routines : q.at[1] = s}}, key)
\* The key's columns in their places, the static ones, the others by name.
ScyllaColumns(db, t) ==
  LET p == CHOOSE c \in On(db, t, {"p"}) : TRUE
      rank(c) == IF Holds(p.cols, c) THEN 0 ELSE IF Holds(p.more, c) THEN 1 ELSE 2
      key(c) == <<rank(c), IF rank(c) = 0 THEN Position(p.cols, c) ELSE 0, c>>
      cols == OrderedBy(Elements(ColumnsOf(db, t)), key)
  IN [i \in DOMAIN cols |-> ColumnNode(cols[i], rank(cols[i]) = 0, None)]
ScyllaIndexes(db, t) ==
  LET found == IndexList({[x EXCEPT !.unique = FALSE] : x \in {y \in db.indexes : y.at = t}})
  IN IF KeyOf(db, t) = <<>> THEN found ELSE <<IndexNode(0, KeyOf(db, t), TRUE, TRUE)>> \o found
\* DESCRIBE TABLE describes no materialized view.
ScyllaDetails(db, t) ==
  Details(<<>>, <<>>, <<>>, <<>>, IF \E r \in RelationAt(db, t) : r.kind = "table" THEN t ELSE None)

------------------------------- (* SurrealDB *) -------------------------------
SurrealRelations(db, s) ==
  LET kind(r) == IF r.kind = "view" THEN "view" ELSE "table"
  IN RelationList(RelationsIn(db, s), kind)
SurrealRoutines(db, s) == ScyllaRoutines(db, s)
SurrealRoutineSource(db, t, kind) ==
  IF kind # "function" THEN Failed
  ELSE LET key(p) == <<p.no>> IN Column(OrderedBy({p \in db.routines : p.at = t}, key), "no")
\* The id, then the fields defined, or a sample's where none is.
SurrealColumns(db, t) ==
  LET other(f) == f # 1
      defined == SelectSeq(ColumnsOf(db, t), other)
  IN FieldColumns(<<1>> \o IF defined # <<>> THEN defined
                            ELSE SelectSeq(FieldNodes(db.documents[t]), other))
SurrealIndexes(db, t) ==
  <<IndexNode(0, <<1>>, TRUE, TRUE)>> \o IndexList({x \in db.indexes : x.at = t})
SurrealDetails(db, t) ==
  LET key(g) == <<g.name>>
  IN Details(<<>>, <<>>, Column(OrderedBy({g \in db.triggers : g.at = t}, key), "name"), <<>>,
             IF RelationAt(db, t) = {} THEN None ELSE t)

------------------------------- (* ClickHouse *) ------------------------------
ClickHouseRelations(db, s) ==
  LET kind(r) == CASE r.kind = "view" -> "view"
                   [] r.kind = "mview" -> "materialized view"
                   [] r.kind = "foreign" -> "relation"
                   [] OTHER -> "table"
  IN RelationList(RelationsIn(db, s), kind)
\* Functions belong to the server: every database lists them all.
ClickHouseRoutines(db, s) ==
  LET key(p) == <<p.name>>
  IN OrderedBy({[name |-> p.at[2], kind |-> "function"] : p \in db.routines}, key)
ClickHouseRoutineSource(db, t, kind) ==
  IF kind # "function" THEN Failed
  ELSE LET key(p) == <<p.no>>
       IN Column(OrderedBy({p \in db.routines : p.at[2] = t[2]}, key), "no")
ClickHouseColumns(db, t) ==
  LET cols == ColumnsOf(db, t)
  IN [i \in DOMAIN cols |-> ColumnNode(cols[i], Holds(KeyOf(db, t), cols[i]), None)]
\* The primary key, which does not make rows unique, then the skipping indexes.
ClickHouseIndexes(db, t) ==
  LET found == IndexList({[x EXCEPT !.unique = FALSE] : x \in {y \in db.indexes : y.at = t}})
  IN IF KeyOf(db, t) = <<>> THEN found ELSE <<IndexNode(0, KeyOf(db, t), FALSE, TRUE)>> \o found
ClickHouseDetails(db, t) ==
  LET key(c) == <<c.col>>
  IN IF RelationAt(db, t) = {} THEN NoDetails
     ELSE Details(<<>>, <<>>, <<>>,
                  Column(OrderedBy({c \in db.comments : c.at = t}, key), "col"), t)

------------------------------- (* Redis *) -----------------------------------
\* A scan goes on until the cursor is back at zero or the cap is reached.
Scan(batches) ==
  LET enough(got, batch) == IF Len(got) >= MaxKeys THEN got ELSE got \o batch
  IN FoldLeft(enough, <<>>, batches)
\* Primary after primary until the cap, cut there, and only then each once.
Found(scans, pattern) ==
  LET answer(batch) == SelectSeq(batch, LAMBDA n : n \in pattern)
      primary(s) == Scan([j \in DOMAIN s |-> answer(s[j])])
      all == Scan([i \in DOMAIN scans |-> primary(scans[i])])
  IN Elements(SubSeq(all, 1, IF Len(all) < MaxKeys THEN Len(all) ELSE MaxKeys))
KeyTypes == [string |-> "strings", hash |-> "hashes", list |-> "lists", set |-> "sets",
             zset |-> "sorted_sets", stream |-> "streams", json |-> "json"]
\* A key that is gone by the time TYPE asks, or of a type with no group, is
\* left out.
RedisKeys(db, pattern) ==
  LET names == {n \in Found(db.scans, pattern) : db.types[n] \in DOMAIN KeyTypes}
      key(n) == <<n>>
      rows == OrderedBy(names, key)
  IN [i \in DOMAIN rows |-> [name |-> rows[i], kind |-> db.types[rows[i]]]]
RedisDetails(db, key) == IF db.types[key] = "none" THEN Failed ELSE NoDetails
==============================================================================
