------------------------------ MODULE SqlSides -------------------------------
(* How a query reads its tables (sqmeow-db/src/sql/sides.rs), and which of    *)
(* them can be edited (sqmeow-db/src/edit/binder.rs).  A driver names         *)
(* the table a result column came from and nothing of which read of it: the   *)
(* query's text has to tell the sides of a table read twice apart.            *)
(*   query   [ctes, from, items, join, clause, parsed]                        *)
(*   cte     [name, of]: all the columns of one table                         *)
(*   factor  [kind, rel, alias]: a "table", "view", "cte" or the "derived"    *)
(*           table of all the columns of `rel`; alias None is its own name    *)
(*   item    [qual, col, as]: qual None is unqualified, col "*" a wildcard    *)
(*           and "+" a computed value                                         *)
(*   clause  "none", "group", "distinct", or "union" of its two factors       *)
(*   parsed  whether the parser the sides are read with knows its syntax      *)
EXTENDS Integers, Sequences, SequencesExt, FiniteSets

CONSTANT None

Only == <<"Only">>
Unknown == <<"Unknown">>
Alias(a) == <<"Alias", a>>

\* No grouping, DISTINCT or set operation at the top level.
Plain(q) == q.clause = "none"

NameOf(f) == IF f.alias = None THEN f.rel ELSE f.alias

\* What one factor of FROM adds to the reads: a table that it does not read itself
\* is read without a name.
Factor(f, direct) ==
  [table |-> f.rel, alias |-> IF direct /\ f.kind # "derived" THEN NameOf(f) ELSE None]
Reads(q) ==
  [i \in DOMAIN q.ctes |-> [table |-> q.ctes[i].of, alias |-> None]]
  \o [i \in DOMAIN q.from |-> Factor(q.from[i], q.clause # "union")]

\* Each item's qualifier and column, or None when a wildcard hides the positions.
Qualifiers(q) ==
  IF q.clause = "union" \/ \E i \in DOMAIN q.items : q.items[i].col = "*" THEN None
  ELSE [i \in DOMAIN q.items |->
          IF q.items[i].qual = None THEN None
          ELSE [qual |-> q.items[i].qual, col |-> q.items[i].col]]

\* The names among a statement's words: keywords and columns name no table.
Words(q) ==
  FlattenSeq([i \in DOMAIN q.ctes |-> <<q.ctes[i].name, q.ctes[i].of>>])
  \o FlattenSeq([i \in DOMAIN q.from |-> <<q.from[i].rel>>
                   \o IF q.from[i].alias = None THEN <<>> ELSE <<q.from[i].alias>>])
  \o FlattenSeq([i \in DOMAIN q.items |->
                   IF q.items[i].qual = None THEN <<>> ELSE <<q.items[i].qual>>])

\* A text that is not parsed may read a table wherever it has its name.
ReadSides(q) ==
  IF q.parsed THEN [reads |-> Reads(q), qualifiers |-> Qualifiers(q)]
  ELSE [reads |-> [i \in DOMAIN Words(q) |-> [table |-> Words(q)[i], alias |-> None]],
        qualifiers |-> None]

\* Every read of a view also reads its table, from inside (views are not nested
\* here, so one pass is all of it).
Inside(read, views) == IF read.table \in DOMAIN views THEN <<[table |-> views[read.table], alias |-> None]>>
                       ELSE <<>>
ExpandViews(sides, views) ==
  [sides EXCEPT !.reads = @ \o FlattenSeq([i \in DOMAIN @ |-> Inside(@[i], views)])]

\* Mutant: a column of a table read twice is taken for its only read's.
SideOfOne(sides, table, column, name) == Only
\* Which read of `table` the result's column, the table's column `name`, came through.
Side(sides, table, column, name) ==
  LET reads == {i \in DOMAIN sides.reads : sides.reads[i].table = table}
      item == IF sides.qualifiers = None \/ column \notin DOMAIN sides.qualifiers THEN None
              ELSE sides.qualifiers[column]
      told == /\ item # None
              /\ item.col = name
              /\ \A i \in reads : sides.reads[i].alias # None
              /\ \E i \in reads : sides.reads[i].alias = item.qual
  IN IF Cardinality(reads) <= 1 THEN Only
     ELSE IF told THEN Alias(item.qual) ELSE Unknown

-----------------------------------------------------------------------------
(* TableBinder: from where its columns came to which tables of a result can   *)
(* be edited, and by which of its columns their rows are found.               *)

\* The result columns that show a table's column.
Bind(origins) ==
  {[column |-> i, table |-> origins[i].table, name |-> origins[i].name] :
     i \in {j \in DOMAIN origins : origins[j] # None}}

\* The columns of each read of each table, but for the tables with a column of an
\* unknown read.
Groups(bound, sides) ==
  LET side(b) == Side(sides, b.table, b.column, b.name)
      known == {b \in bound : \A c \in bound : c.table = b.table => side(c) # Unknown}
  IN {{c \in known : c.table = b.table /\ side(c) = side(b)} : b \in known}

ShownAt(columns, name) == {b.column : b \in {c \in columns : c.name = name}}

\* The result columns of the first key that is completely shown, or all of them
\* where every column may stand in for a key.
KeyShown(columns, keys, every) ==
  LET whole == {i \in DOMAIN keys : /\ keys[i] # <<>>
                                    /\ \A j \in DOMAIN keys[i] : ShownAt(columns, keys[i][j]) # {}}
      first == CHOOSE i \in whole : \A j \in whole : i <= j
  IN IF whole # {} THEN UNION {ShownAt(columns, keys[first][j]) : j \in DOMAIN keys[first]}
     ELSE IF every THEN {b.column : b \in columns} ELSE {}

\* A table's column shown twice is a self-join's whose sides cannot be told apart.
ShownOnce(columns) == \A b, c \in columns : b.name = c.name => b = c

\* The tables that can be edited, keys[t] listing the primary key of one and then
\* its unique keys.
Build(origins, sides, keys, every) ==
  LET table(columns) == LET name == (CHOOSE b \in columns : TRUE).table
                        IN [name |-> name, key |-> KeyShown(columns, keys[name], every), columns |-> columns]
      once == {g \in Groups(Bind(origins), sides) : ShownOnce(g)}
  IN {t \in {table(g) : g \in once} : t.key # {}}
==============================================================================
