------------------------------- MODULE Schemas -------------------------------
(* What the core makes of the adapters' answers (sqmeow-core/src/server:      *)
(* schema.rs, relationships.rs, routines.rs; sqmeow-adapters/src/lib.rs) and  *)
(* what the grid's gd and gr make of a relationships answer (ui/relationships *)
(* .lua). An engine is the adapter's dialect; MariaDB speaks MySQL's.         *)
EXTENDS SqlCatalogs, StoreCatalogs

NoRoutines == {"sqlite", "mongodb", "redis"}
NoProcedures == {"scylla", "surrealdb", "clickhouse"}

------------------------------- (* Backend: dispatch to an adapter *) ---------
Relations(e, db, s) ==
  CASE e = "postgres" -> PgRelations(db, s)      [] e = "mysql" -> MySqlRelations(db, s)
    [] e = "mssql" -> MsSqlRelations(db, s)      [] e = "oracle" -> OracleRelations(db, s)
    [] e = "duckdb" -> DuckDbRelations(db, s)    [] e = "sqlite" -> SqliteRelations(db, s)
    [] e = "mongodb" -> MongoRelations(db, s)    [] e = "scylla" -> ScyllaRelations(db, s)
    [] e = "surrealdb" -> SurrealRelations(db, s) [] e = "clickhouse" -> ClickHouseRelations(db, s)
    [] e = "redis" -> RedisKeys(db, DOMAIN db.types)
Routines(e, db, s) ==
  CASE e = "postgres" -> PgRoutines(db, s)       [] e = "mysql" -> MySqlRoutines(db, s)
    [] e = "mssql" -> MsSqlRoutines(db, s)       [] e = "oracle" -> OracleRoutines(db, s)
    [] e = "duckdb" -> DuckDbRoutines(db, s)     [] e = "scylla" -> ScyllaRoutines(db, s)
    [] e = "surrealdb" -> SurrealRoutines(db, s) [] e = "clickhouse" -> ClickHouseRoutines(db, s)
    [] e \in NoRoutines -> <<>>
Columns(e, db, t) ==
  CASE e = "postgres" -> PgColumns(db, t)        [] e = "mysql" -> MySqlColumns(db, t)
    [] e = "mssql" -> MsSqlColumns(db, t)        [] e = "oracle" -> OracleColumns(db, t)
    [] e = "duckdb" -> DuckDbColumns(db, t)      [] e = "sqlite" -> SqliteColumns(db, t)
    [] e = "mongodb" -> MongoColumns(db, t)      [] e = "scylla" -> ScyllaColumns(db, t)
    [] e = "surrealdb" -> SurrealColumns(db, t)  [] e = "clickhouse" -> ClickHouseColumns(db, t)
    [] e = "redis" -> <<>>
Indexes(e, db, t) ==
  CASE e = "postgres" -> PgIndexes(db, t)        [] e = "mysql" -> MySqlIndexes(db, t)
    [] e = "mssql" -> MsSqlIndexes(db, t)        [] e = "oracle" -> OracleIndexes(db, t)
    [] e = "duckdb" -> DuckDbIndexes(db, t)      [] e = "sqlite" -> SqliteIndexes(db, t)
    [] e = "mongodb" -> MongoIndexes(db, t)      [] e = "scylla" -> ScyllaIndexes(db, t)
    [] e = "surrealdb" -> SurrealIndexes(db, t)  [] e = "clickhouse" -> ClickHouseIndexes(db, t)
    [] e = "redis" -> <<>>
DetailsOf(e, db, t) ==
  CASE e = "postgres" -> PgDetails(db, t)        [] e = "mysql" -> MySqlDetails(db, t)
    [] e = "mssql" -> MsSqlDetails(db, t)        [] e = "oracle" -> OracleDetails(db, t)
    [] e = "duckdb" -> DuckDbDetails(db, t)      [] e = "sqlite" -> SqliteDetails(db, t)
    [] e = "mongodb" -> MongoDetails(db, t)      [] e = "scylla" -> ScyllaDetails(db, t)
    [] e = "surrealdb" -> SurrealDetails(db, t)  [] e = "clickhouse" -> ClickHouseDetails(db, t)
    [] e = "redis" -> RedisDetails(db, t[2])
\* An adapter with no foreign keys to tell of answers with an error.
Relationships(e, db, t) ==
  CASE e = "postgres" -> PgRelationships(db, t)  [] e = "mysql" -> MySqlRelationships(db, t)
    [] e = "mssql" -> MsSqlRelationships(db, t)  [] e = "oracle" -> OracleRelationships(db, t)
    [] e = "duckdb" -> DuckDbRelationships(db, t) [] e = "sqlite" -> SqliteRelationships(db, t)
    [] OTHER -> Failed
\* A definition that is not there is an error, never an empty one.
RoutineSource(e, db, t, kind) ==
  LET found == CASE e = "postgres" -> PgRoutineSource(db, t, kind)
                 [] e = "mysql" -> MySqlRoutineSource(db, t, kind)
                 [] e = "mssql" -> MsSqlRoutineSource(db, t, kind)
                 [] e = "oracle" -> OracleRoutineSource(db, t, kind)
                 [] e = "surrealdb" -> SurrealRoutineSource(db, t, kind)
                 [] e = "clickhouse" -> ClickHouseRoutineSource(db, t, kind)
                 [] OTHER -> Failed
  IN IF kind = "package" \/ found = <<>> THEN Failed ELSE found

------------------------------- (* schema.rs: the drawer's levels *) ----------
\* Mutant: a sequence is counted with the tables too.
NoView(kind) == kind \notin {"view", "materialized view"}
IsTable(kind) == kind \notin {"view", "materialized view", "sequence"}
Count(s, test(_)) == Cardinality({i \in DOMAIN s : test(s[i])})
Group(key, count) == [key |-> key, count |-> count, capped |-> FALSE]
\* A Redis database's keys, one group per type.
KeyGroups(found) ==
  {[key |-> KeyTypes[type], capped |-> Len(found) >= MaxKeys,
    count |-> Cardinality({i \in DOMAIN found : found[i].kind = type})] : type \in DOMAIN KeyTypes}
\* The groups a schema is drawn as, each with how many things it holds.
GroupsOf(e, relations, routines) ==
  LET tables == Count(relations, LAMBDA r : IsTable(r.kind))
      sequences == Count(relations, LAMBDA r : r.kind = "sequence")
      views == Len(relations) - tables - sequences
      procedures == Count(routines, LAMBDA r : r.kind = "procedure")
      packages == Count(routines, LAMBDA r : r.kind = "package")
  IN CASE e = "mongodb" -> {Group("tables", tables), Group("views", views)}
       [] OTHER ->
            {Group("tables", tables), Group("views", views),
             Group("functions", Len(routines) - procedures - packages)}
            \cup (IF sequences > 0 THEN {Group("sequences", sequences)} ELSE {})
            \cup (IF e \in NoProcedures THEN {} ELSE {Group("procedures", procedures)})
            \cup (IF packages > 0 THEN {Group("packages", packages)} ELSE {})
Groups(e, db, s, pattern) ==
  IF e = "redis" THEN KeyGroups(RedisKeys(db, pattern)) ELSE GroupsOf(e, Relations(e, db, s), Routines(e, db, s))
\* What one group holds.
RelationMembers(relations, group) ==
  CASE group = "tables" -> SelectSeq(relations, LAMBDA r : IsTable(r.kind))
    [] group = "views" -> SelectSeq(relations, LAMBDA r : r.kind \in {"view", "materialized view"})
    [] group = "sequences" -> SelectSeq(relations, LAMBDA r : r.kind = "sequence")
RoutineMembers(routines, group) ==
  CASE group = "functions" -> SelectSeq(routines, LAMBDA p : p.kind = "function")
    [] group = "procedures" -> SelectSeq(routines, LAMBDA p : p.kind = "procedure")
    [] group = "packages" -> SelectSeq(routines, LAMBDA p : p.kind = "package")
Members(e, db, s, group, pattern) ==
  CASE group \in {"tables", "views", "sequences"} -> RelationMembers(Relations(e, db, s), group)
    [] group \in {"functions", "procedures", "packages"} -> RoutineMembers(Routines(e, db, s), group)
    [] OTHER -> SelectSeq(RedisKeys(db, pattern), LAMBDA r : KeyTypes[r.kind] = group)

------------------------------- (* relationships.rs and gd, gr *) -------------
\* The table as the catalogue spells it, read from the answer's ends.
ResolvedIdentity(e, asked, answer) ==
  LET ends == UNION {{answer[i].source, answer[i].target} : i \in DOMAIN answer}
      like == {t \in ends : CASE e = "oracle" -> t = UpperOf(asked)
                              [] e \in {"sqlite", "mssql", "mysql"} -> SameIgnoringCase(t, asked)
                              [] OTHER -> FALSE}
  IN IF asked \in ends \/ like = {} THEN asked ELSE CHOOSE t \in like : TRUE
\* Mutant: a column is looked for as the key spells it.
SpelledAlike(shown, name) == {j \in DOMAIN shown : shown[j] = name}
\* column_index: where a result shows a column, told by its name in any case.
PlacesOf(shown, name) == {j \in DOMAIN shown : Upper(shown[j]) = Upper(name)}
ColumnIndex(shown, name) == Min(PlacesOf(shown, name))
\* The keys the cell of column i can be followed along, given the columns of the
\* table its result shows and those whose cell in its row has an edit staged: a
\* key is followed by all its columns or not at all.
Followed(e, asked, answer, i, outgoing, shown, staged) ==
  LET self == ResolvedIdentity(e, asked, answer)
      here(k) == IF outgoing THEN k.source ELSE k.target
      cols(k) == IF outgoing THEN k.columns ELSE k.referenced
      there(k) == IF outgoing THEN k.referenced ELSE k.columns
      holds(k) == \E x \in DOMAIN cols(k) : Upper(cols(k)[x]) = Upper(shown[i])
      complete(k) == /\ DOMAIN cols(k) \subseteq DOMAIN there(k)
                     /\ \A x \in DOMAIN cols(k) : PlacesOf(shown, cols(k)[x]) # {}
      unstaged(k) == \A x \in DOMAIN cols(k) : ColumnIndex(shown, cols(k)[x]) \notin staged
      matches == {k \in DOMAIN answer : /\ here(answer[k]) = self /\ holds(answer[k])
                                        /\ complete(answer[k]) /\ unstaged(answer[k])}
  IN IF i \in staged THEN {}
     ELSE {[table |-> IF outgoing THEN answer[k].target ELSE answer[k].source, no |-> k,
            where |-> {<<ColumnIndex(shown, cols(answer[k])[x]), there(answer[k])[x]>> :
                         x \in DOMAIN cols(answer[k])}] : k \in matches}
==============================================================================
