---------------------------- MODULE MCSchemaTree -----------------------------
(* One world per adapter, one of MariaDB for its checks, and three in which  *)
(* a user browses: of PostgreSQL, of a routine's editors, and of Redis.      *)
EXTENDS SchemaTree

SqlEngines == {"postgres", "mysql", "mssql", "oracle", "duckdb", "sqlite"}
Up(e, n) == IF e = "oracle" THEN Upper(n) ELSE n
T(e, s, n) == <<Up(e, s), Up(e, n)>>
A(e) == T(e, 1, 1)
B(e) == T(e, 1, 2)
C(e) == T(e, 2, 1)
Cols(e, cols) == [i \in DOMAIN cols |-> Up(e, cols[i])]
Key(e, kind, name, at, cols, more, index) ==
  [no |-> 0, kind |-> kind, name |-> Up(e, name), at |-> at, cols |-> Cols(e, cols),
   more |-> Cols(e, more), index |-> Up(e, index), target |-> at, refs |-> <<>>, strict |-> TRUE]
To(e, name, at, cols, target, refs) ==
  [Key(e, "f", name, at, cols, <<>>, 0) EXCEPT !.index = 0, !.target = target, !.refs = Cols(e, refs)]
Check(e, name, at) == [Key(e, "c", name, at, <<>>, <<>>, 0) EXCEPT !.index = 0]

\* The constraints an engine lets a user define, of three tables.
Changes(e, mariadb) ==
  LET index(name) == IF e = "oracle" THEN name ELSE name + 4
  IN {Key(e, "p", 1, A(e), <<1>>, IF e = "postgres" THEN <<3>> ELSE <<>>, index(1)),
      Key(e, "p", 1, A(e), <<2, 1>>, <<>>, IF e = "oracle" THEN 8 ELSE index(1)),
      Key(e, "u", 2, A(e), <<1, 2>>, <<>>, index(2)),
      Key(e, "p", 1, C(e), <<1>>, <<>>, index(1)),
      To(e, 3, B(e), <<1>>, A(e), <<1>>), To(e, 3, B(e), <<1, 2>>, A(e), <<2, 1>>),
      To(e, 4, B(e), <<2, 1>>, A(e), <<2, 1>>), To(e, 4, A(e), <<2>>, A(e), <<1>>),
      Check(e, 5, A(e)), Check(e, 5, C(e))}
     \cup (IF e = "sqlite" THEN {To(e, 3, B(e), <<1>>, A(e), <<>>), To(e, 4, B(e), <<1, 2>>, A(e), <<>>),
                               To(e, 5, B(e), <<2, 1>>, A(e), <<12, 1>>)}
           ELSE IF e = "duckdb" THEN {}
           ELSE {To(e, 3, C(e), <<1, 2>>, A(e), <<2, 1>>), To(e, 5, B(e), <<1>>, C(e), <<1>>)})
     \cup (IF mariadb THEN {Check(e, 5, B(e))} ELSE {})

Relation(at, kind, cols) == [at |-> at, kind |-> kind, cols |-> cols]
Routine(no, at, kind, source) == [no |-> no, at |-> at, kind |-> kind, shown |-> source]
Bare == [schemas |-> {1}, relations |-> {}, constraints |-> {}, indexes |-> {}, triggers |-> {},
         comments |-> {}, routines |-> {}, documents |-> <<>>, validator |-> <<>>,
         scans |-> <<>>, types |-> <<>>]
World(e, start) == [engine |-> e, mariadb |-> FALSE, db |-> start, changes |-> {}, asking |-> FALSE,
                 levels |-> {}, patterns |-> {}]
Kinded(e) == CASE e = "postgres" -> <<"view", "mview", "sequence", "foreign">>
               [] e = "oracle" -> <<"view", "mview", "sequence">>
               [] e = "sqlite" -> <<"view">>
               [] OTHER -> <<"view", "sequence">>
Overloaded == {"postgres", "duckdb", "scylla"}
Sql(e) ==
  [Bare EXCEPT
    !.schemas = {Up(e, 1), Up(e, 2)},
    !.relations = {Relation(A(e), "table", Cols(e, <<1, 2, 3>>)),
                   Relation(B(e), "table", Cols(e, <<1, 2>>)),
                   Relation(C(e), "table", Cols(e, <<1, 2>>))}
                  \cup {Relation(T(e, 1, 2 + i), Kinded(e)[i], Cols(e, <<1>>)) : i \in DOMAIN Kinded(e)},
    !.indexes = {[name |-> Up(e, 9), at |-> A(e), cols |-> Cols(e, <<3, 1>>), unique |-> FALSE],
                 [name |-> Up(e, 7), at |-> A(e), cols |-> Cols(e, <<3>>), unique |-> TRUE]},
    !.triggers = {[name |-> Up(e, 1), at |-> A(e)], [name |-> Up(e, 2), at |-> A(e)],
                  [name |-> Up(e, 3), at |-> C(e)]},
    !.comments = {[at |-> A(e), col |-> Up(e, 2)]},
    !.routines = IF e = "sqlite" THEN {}
                 ELSE {Routine(1, T(e, 1, 6), "function", e # "mysql")}
                      \cup (IF e = "duckdb" THEN {} ELSE {Routine(3, T(e, 1, 7), "procedure", TRUE)})
                      \cup (IF e \in Overloaded THEN {Routine(2, T(e, 1, 6), "function", TRUE)} ELSE {})
                      \cup (IF e = "oracle" THEN {Routine(4, T(e, 1, 8), "package", TRUE)} ELSE {})]
SqlWorld(e, mariadb) == [World(e, Sql(e)) EXCEPT !.mariadb = mariadb, !.changes = Changes(e, mariadb)]

\* Two collections: one of two documents, one empty and with a validator.
Documents == (<<1, 1>> :> <<1 :> "oid" @@ 2 :> "null", 1 :> "oid" @@ 2 :> "int" @@ 3 :> "str">>)
             @@ (<<1, 2>> :> <<>>)
Stored(e) ==
  [Bare EXCEPT
    !.schemas = {1, 2},
    !.relations = {Relation(<<1, 1>>, "table", <<1, 2, 3>>), Relation(<<1, 2>>, "table", <<1>>),
                   Relation(<<1, 3>>, "view", <<1>>), Relation(<<2, 1>>, "table", <<1>>)}
                  \cup (IF e \in {"scylla", "clickhouse"} THEN {Relation(<<1, 4>>, "mview", <<1, 2>>)} ELSE {}),
    !.constraints = {[Key(e, "p", 1, <<1, n>>, IF n = 1 THEN <<2, 1>> ELSE <<1>>, <<>>, 0)
                        EXCEPT !.index = 0] : n \in IF e = "mongodb" THEN {} ELSE {1, 2, 4}}
                    \cup {[Key(e, "p", 1, <<2, 1>>, <<1>>, <<>>, 0) EXCEPT !.index = 0] :
                            n \in IF e = "mongodb" THEN {} ELSE {1}},
    !.indexes = {[name |-> 7, at |-> <<1, 1>>, cols |-> <<3>>, unique |-> TRUE]},
    !.triggers = {[name |-> 1, at |-> <<1, 1>>]},
    !.comments = {[at |-> <<1, 1>>, col |-> 2]},
    !.routines = IF e = "mongodb" THEN {}
                 ELSE {Routine(1, <<1, 6>>, "function", TRUE), Routine(2, <<1, 7>>, "function", TRUE)},
    !.documents = Documents @@ (<<2, 1>> :> <<>>),
    !.validator = <<1, 1>> :> <<>> @@ (<<1, 2>> :> (4 :> "required")) @@ (<<2, 1>> :> <<>>)]

\* Keys 1 to 5 on two primaries, one of which repeats a key when `again`.
Keys(again, type) ==
  [Bare EXCEPT !.scans = <<<<<<1, 2>>, IF again THEN <<2>> ELSE <<>>>>, <<<<3, 4>>, <<5>>>>>>,
               !.types = [k \in 1..5 |-> IF k = 1 THEN type ELSE "string"]]

Browsing(w, levels, patterns) == [w EXCEPT !.asking = TRUE, !.levels = levels, !.patterns = patterns]
Path == <<1, "tables", 1>>
Small(e) == [Bare EXCEPT !.relations = {Relation(<<1, 1>>, "table", <<1, 2>>)},
                         !.routines = {Routine(1, <<1, 6>>, IF e = "postgres" THEN "procedure" ELSE "function",
                                               e = "postgres")}]
MCWorlds ==
  [e \in SqlEngines |-> SqlWorld(e, FALSE)]
  @@ ("mariadb" :> [SqlWorld("mysql", TRUE) EXCEPT !.changes = {c \in @ : c.kind = "c" \/ Len(c.cols) = 1}])
  @@ [e \in {"mongodb", "scylla", "surrealdb", "clickhouse"} |-> World(e, Stored(e))]
  @@ ("redis" :> World("redis", Keys(FALSE, "hash"))) @@ ("redis_again" :> World("redis", Keys(TRUE, "set")))
  @@ ("redis_gone" :> World("redis", Keys(FALSE, "none")))
  @@ ("browse" :> Browsing(World("postgres", Small("postgres")),
                           {SubSeq(Path, 1, n) : n \in 1..3}, {}))
  @@ ("hidden" :> Browsing(World("mysql", Small("mysql")), {Path}, {}))
  @@ ("globs" :> Browsing(World("redis", [Bare EXCEPT !.scans = <<<<<<1>>>>>>,
                                                     !.types = [k \in {1} |-> "string"]]),
                          {<<>>, <<1, "strings">>}, {{}, {1}}))
==============================================================================
