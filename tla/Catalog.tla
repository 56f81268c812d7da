------------------------------- MODULE Catalog -------------------------------
(* What a database says of itself, as a record the adapters' catalogue       *)
(* queries read: external to the repository. A name is a number, in the order *)
(* the database sorts names, and a relation is <<schema, name>>.             *)
(*   relations    [at, kind, cols]                                           *)
(*   constraints  [no, kind, name, at, cols, more, index, target, refs]: `no` *)
(*                is its place in the order of creation, `kind` "p", "u", "f" *)
(*                or "c", `more` a key's INCLUDE columns, `index` the name of *)
(*                the index enforcing a key (0: none), and `refs` is empty   *)
(*                where SQLite leaves the target's columns to its key        *)
(*   indexes      [name, at, cols, unique]: those no constraint made         *)
(*   triggers     [name, at]      comments   [at, col]                       *)
(*   routines     [no, at, kind, shown]: overloads share `at` and `kind`     *)
EXTENDS Integers, Sequences, FiniteSets

CONSTANTS None, Failed      \* nothing to tell; an error instead of an answer

Upper(n) == IF n < 10 THEN n + 10 ELSE n
UpperOf(t) == <<Upper(t[1]), Upper(t[2])>>
SameIgnoringCase(s, t) == UpperOf(s) = UpperOf(t)

\* `order by`: tuples of numbers, compared from the left.
Before(a, b) == \E i \in DOMAIN a : /\ a[i] < b[i]
                                    /\ \A j \in 1..(i - 1) : a[j] = b[j]

\* The rows of S in the order of a key that tells them apart (appended to
\* nothing, which makes TLC compute the sequence once).
OrderedBy(S, key(_)) ==
  <<>> \o [i \in 1..Cardinality(S) |->
             CHOOSE r \in S : Cardinality({s \in S : Before(key(s), key(r))}) = i - 1]

Column(rows, field) == [i \in DOMAIN rows |-> rows[i][field]]
Position(s, x) == CHOOSE i \in DOMAIN s : s[i] = x
Holds(s, x) == \E i \in DOMAIN s : s[i] = x

\* Rows next to each other that share their entry of `ids`, as one list each.
Grouped(rows, ids) ==
  LET id == <<>> \o ids
      heads == {i \in DOMAIN rows : i = 1 \/ id[i] # id[i - 1]}
      head(k) == CHOOSE h \in heads : Cardinality({i \in heads : i < h}) = k - 1
      last(k) == IF k = Cardinality(heads) THEN Len(rows) ELSE head(k + 1) - 1
  IN <<>> \o [k \in 1..Cardinality(heads) |-> SubSeq(rows, head(k), last(k))]

RelationsIn(db, s) == {r \in db.relations : r.at[1] = s}
RelationAt(db, t) == {r \in db.relations : r.at = t}
ColumnsOf(db, t) == IF RelationAt(db, t) = {} THEN <<>>
                    ELSE (CHOOSE r \in RelationAt(db, t) : TRUE).cols
On(db, t, kinds) == {c \in db.constraints : c.at = t /\ c.kind \in kinds}
KeyOf(db, t) == LET p == On(db, t, {"p"})
                IN IF p = {} THEN <<>> ELSE (CHOOSE c \in p : TRUE).cols

\* One row per column of a constraint, as the catalogue views list them.
Parts(c) == {[key |-> c, i |-> i] : i \in DOMAIN c.cols}
AllParts(S) == UNION {Parts(c) : c \in S}

\* The columns a foreign key points at, and one pair of it.
Referenced(db, c) == IF c.refs = <<>> THEN KeyOf(db, c.target) ELSE c.refs
\* Mutant: a key's first column is what every column of it leads to.
PointingFirst(c, col) == [table |-> c.target, column |-> c.refs[1]]
Pointing(c, col) == [table |-> c.target, column |-> c.refs[Position(c.cols, col)]]

\* What the adapters answer with (sqmeow-db/src/node.rs).
ColumnNode(name, primary, reference) ==
  [name |-> name, primary_key |-> primary, foreign_key |-> reference]
IndexNode(name, cols, unique, primary) ==
  [name |-> name, columns |-> cols, unique |-> unique, primary |-> primary]
Relationship(name, source, cols, target, refs) ==
  [name |-> name, source |-> source, columns |-> cols, target |-> target, referenced |-> refs]
ForeignKey(name, cols, target, refs) ==
  [name |-> name, columns |-> cols, target |-> target, referenced |-> refs]
Details(keys, checks, triggers, comments, definition) ==
  [foreign_keys |-> keys, checks |-> checks, triggers |-> triggers,
   column_comments |-> comments, definition |-> definition]
NoDetails == Details(<<>>, <<>>, <<>>, <<>>, None)
==============================================================================
