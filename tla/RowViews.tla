------------------------------- MODULE RowViews -------------------------------
(***************************************************************************)
(* Filtering and sorting the rows of a held result: view.rs, view/polars.rs, *)
(* view/cache.rs.  The engine never touches the cells: it builds a frame of   *)
(* typed columns of the rows in scope, with the row each came from beside     *)
(* it, and lets Polars filter and sort that.  A frame of every row and column *)
(* is kept for the next view, budget permitting.                              *)
(*                                                                         *)
(* A view is [filters, sort, scope, where, order]: structured filters and     *)
(* keys by column number, the rows to look at, and the clauses typed into the *)
(* bars, which name columns.                                                  *)
(***************************************************************************)
EXTENDS RetainedResults, TLC

CONSTANT Failed    \* the view could not be computed: nothing changes

\* A name as the frame has it: a word and the numbers behind it.
Named(word) == [word |-> word, numbers |-> <<>>]
Numbered(name, n) == IF n = 1 THEN name ELSE [name EXCEPT !.numbers = Append(@, n)]

\* names: the first name nothing before it has taken.
Names(columns) ==
  LET names[n \in 0..Len(columns)] ==
        IF n = 0 THEN <<>>
        ELSE LET taken == names[n - 1]
                 free(k) == ~Contains(taken, Numbered(columns[n].name, k))
             IN Append(taken, Numbered(columns[n].name, CHOOSE k \in 1..n : free(k) /\ \A j \in 1..(k - 1) : ~free(j)))
  IN names[Len(columns)]

\* The members of S by how many come before them (appended to nothing, which makes TLC compute
\* the sequence once), and what a sequence has at some places.
Arranged(S, before) ==
  <<>> \o [k \in 1..Cardinality(S) |-> CHOOSE x \in S : Cardinality({y \in S : <<y, x>> \in before}) = k - 1]
Those(seq, S) ==
  LET at == Arranged(S, {pq \in S \X S : pq[1] < pq[2]}) IN [n \in DOMAIN at |-> seq[at[n]]]

\* The rows a view looks at, in the order they were given.
Positions(r, scope) ==
  IF scope = None THEN [i \in 1..r.rows |-> i] ELSE Those(scope, {n \in DOMAIN scope : scope[n] <= r.rows})

-----------------------------------------------------------------------------
(* The typed projection *)

\* column_type: one type for the rows in scope.  Only declared numbers are read out of texts.
TypeOfCells(column, class, cells) ==
  LET populated == \E c \in cells : ~IsNull(c)
      all(kind) == \A c \in cells : c.kind \in {kind, "null"}
      native == column.dtype \in {"Boolean", "Int64", "Float64"} \/ (column.dtype = "String" /\ class # "number")
      number == /\ populated \/ class = "number"
                /\ class = "number" \/ \A c \in cells : c.kind # "text"
                /\ \A c \in cells : IsNull(c) \/ Number(c) # Nothing
  IN IF native /\ populated THEN column.dtype
     ELSE IF (populated \/ class = "boolean") /\ all("bool") THEN "Boolean"
     ELSE IF (populated \/ class = "number") /\ all("int") THEN "Int64"
     ELSE IF number THEN "Float64" ELSE "String"
ColumnType(r, i, positions) ==
  TypeOfCells(Column(r, i), r.columns[i].class, {CellAt(Column(r, i), row) : row \in ToSet(positions)})

\* projection, one column: a value for each row in scope, none for a null.
Cast(dtype, cells) ==
  LET value(cell) == IF IsNull(cell) THEN Nothing
                     ELSE CASE dtype = "Float64" -> Number(cell) [] dtype = "String" -> Text(cell) [] OTHER -> cell.val
  IN [dtype |-> dtype, values |-> [p \in DOMAIN cells |-> value(cells[p])]]
Projected(r, i, positions) ==
  Cast(ColumnType(r, i, positions), [p \in DOMAIN positions |-> CellOf(r, positions[p], i)])

\* projection_columns: clauses and searches may name any column.
Needed(r, view) ==
  IF view.where # None \/ view.order # None \/ \E f \in ToSet(view.filters) : f.column = None
  THEN DOMAIN r.columns
  ELSE DOMAIN r.columns \cap ({f.column : f \in ToSet(view.filters)} \cup {k.column : k \in ToSet(view.sort)})

Projection(r, positions, needed) ==
  [columns |-> [i \in needed |-> Projected(r, i, positions)], rows |-> positions]

\* FrameCache::get: a projection that did not fit is not there.
Kept(r) == r.cache \notin {None, Declined}

\* plan_with, its frame: kept, cut out of the one kept, or built.
Frame(r, view) ==
  IF view.scope = None /\ Kept(r) THEN r.cache ELSE Projection(r, Positions(r, view.scope), Needed(r, view))

\* get_or_build: the first full frame is kept if it fits the budget, and asked for once.
AfterView(r, view, fits) ==
  IF view.scope # None \/ Needed(r, view) # DOMAIN r.columns \/ r.cache # None THEN r
  ELSE [r EXCEPT !.cache = IF fits THEN Projection(r, Positions(r, None), DOMAIN r.columns) ELSE Declined]

-----------------------------------------------------------------------------
(* Polars: typed comparisons, null where a side is null *)

Rank(dtype, value) == IF dtype = "String" THEN TextRank[value] ELSE value

Compares(op, left, right) ==
  CASE op = "eq" -> left = right [] op = "ne" -> left # right [] op = "gt" -> left > right
    [] op = "ge" -> left >= right [] op = "lt" -> left < right [] op = "le" -> left <= right

\* The text a typed value is cast to, and what is found in a text.
CastText(dtype, value) ==
  CASE dtype = "Boolean" -> Text(Cell("bool", value)) [] dtype = "Float64" /\ value = NaN -> NanText [] OTHER -> value
Has(op, text, part) == text = part \/ part = EmptyText \/ (part = 1 /\ text \in {10, 11})

\* predicate, its literal: what was typed, read as the column's type.
Operand(dtype, text) ==
  CASE dtype = "Boolean" -> IF text = TrueText THEN 1 ELSE IF text = FalseText THEN 0 ELSE Failed
    [] dtype = "Int64" /\ text < Words -> text
    [] dtype = "Float64" /\ text < Words -> Round(text)
    [] dtype \in {"Int64", "Float64"} -> IF text = NanText THEN NaN ELSE Failed
    [] OTHER -> text

Comparing == {"eq", "ne", "gt", "ge", "lt", "le"}

\* predicate on one value.
Holds(column, p, filter) ==
  LET value == column.values[p]
  IN CASE filter.op = "is_null" -> value = Nothing
       [] filter.op = "not_null" -> value # Nothing
       [] filter.op \in {"contains", "starts_with"} ->
            value # Nothing /\ Has(filter.op, CastText(column.dtype, value), filter.value)
       [] OTHER -> value # Nothing /\ Compares(filter.op, Rank(column.dtype, value),
                                               Rank(column.dtype, Operand(column.dtype, filter.value)))

\* A filter of a column there is not lets nothing through; one of no column looks at all.
Watched(frame, filter) == IF filter.column = None THEN DOMAIN frame.columns ELSE DOMAIN frame.columns \cap {filter.column}
Passes(frame, p, filter) == \E i \in Watched(frame, filter) : Holds(frame.columns[i], p, filter)

\* Comparing a number with a word is an error, whatever the rows.
Mistyped(frame, filter) ==
  filter.op \in Comparing /\ \E i \in Watched(frame, filter) : Operand(frame.columns[i].dtype, filter.value) = Failed

\* A condition is [name, op, form, val]: a literal has its own type.
LiteralFits(dtype, form) ==
  \/ form = "none"
  \/ form = "bool" /\ dtype = "Boolean"
  \/ form \in {"int", "float", "decimal"} /\ dtype \in {"Int64", "Float64"}
  \/ form = "string" /\ dtype = "String"
Meets(column, p, where) ==
  LET value == column.values[p]
  IN IF where.op = "is_null" THEN value = Nothing
     ELSE value # Nothing /\ Compares(where.op, Rank(column.dtype, value), Rank(column.dtype, where.val))

\* Before in one key: nulls last unless asked for first.
Earlier(column, p, q, descending, nullsFirst) ==
  LET a == column.values[p] b == column.values[q] rank(v) == Rank(column.dtype, v)
  IN IF a = Nothing \/ b = Nothing THEN IF nullsFirst THEN a = Nothing /\ b # Nothing ELSE a # Nothing /\ b = Nothing
     ELSE IF descending THEN rank(a) > rank(b)
     ELSE rank(a) < rank(b)

\* A stable sort by the keys in turn.
Sooner(frame, key, p, q) == Earlier(frame.columns[key.column], p, q, key.descending, key.nullsFirst)
Tied(frame, key, p, q) == ~Sooner(frame, key, p, q) /\ ~Sooner(frame, key, q, p)
Before(frame, keys, p, q) ==
  \/ \E n \in DOMAIN keys : Sooner(frame, keys[n], p, q) /\ \A k \in 1..(n - 1) : Tied(frame, keys[k], p, q)
  \/ p < q /\ \A k \in DOMAIN keys : Tied(frame, keys[k], p, q)
Sorted(frame, places, keys) == Arranged(places, {pq \in places \X places : Before(frame, keys, pq[1], pq[2])})

-----------------------------------------------------------------------------
(* Query::parse and select_with *)

\* Only WHERE and ORDER BY may differ from the fixed SELECT: no clause behind them, no query in them.
Parses(view) == (view.where = None \/ view.where.shape = "condition") /\ (view.order = None \/ view.order.shape = "order")

\* plan_with: the columns a clause names, and what cannot be asked of a frame.
NamedBy(r, clause) == {i \in DOMAIN r.columns : Names(r.columns)[i] = clause.name}
Refused(r, view, frame) ==
  \/ \E f \in ToSet(view.filters) : Mistyped(frame, f)
  \/ view.where # None /\ ~\E i \in NamedBy(r, view.where) : LiteralFits(frame.columns[i].dtype, view.where.form)
  \/ view.order # None /\ NamedBy(r, view.order) = {}

\* The places that are left of it, and the keys there are to sort them by.
Left(r, view, frame) ==
  {p \in DOMAIN frame.rows : /\ \A f \in ToSet(view.filters) : Passes(frame, p, f)
                             /\ view.where # None => \A i \in NamedBy(r, view.where) : Meets(frame.columns[i], p, view.where)}
SortKeys(r, view) ==
  IF view.order # None
  THEN <<[column |-> CHOOSE i \in DOMAIN r.columns : Names(r.columns)[i] = view.order.name,
          descending |-> view.order.descending, nullsFirst |-> view.order.nullsFirst]>>
  ELSE LET keys == Those(view.sort, {k \in DOMAIN view.sort : view.sort[k].column \in DOMAIN r.columns})
       IN [k \in DOMAIN keys |-> [column |-> keys[k].column, descending |-> keys[k].descending, nullsFirst |-> FALSE]]

Places(r, view, frame) ==
  IF Refused(r, view, frame) THEN Failed ELSE Sorted(frame, Left(r, view, frame), SortKeys(r, view))

\* The rows of the result at some places of a frame.
RowsAt(frame, places) == IF places = Failed THEN Failed ELSE [n \in DOMAIN places |-> frame.rows[places[n]]]
Framed(r, view, frame) == RowsAt(frame, Places(r, view, frame))

\* The rows a view shows, by their place in the result; nothing to do takes no frame.
Select(r, view) ==
  IF ~Parses(view) THEN Failed
  ELSE IF view.filters = <<>> /\ view.sort = <<>> /\ view.where = None /\ view.order = None THEN Positions(r, view.scope)
  ELSE Framed(r, view, Frame(r, view))

-----------------------------------------------------------------------------
(* condition: the clause that finds a cell's value again *)

ConditionOf(name, cell) ==
  [shape |-> "condition", name |-> name, op |-> IF IsNull(cell) THEN "is_null" ELSE "eq",
   form |-> IF IsNull(cell) THEN "none" ELSE Literal("postgres", cell).form, val |-> Literal("postgres", cell).val]

\* Mutant: the literal is of the cell's own kind, not of the column's type.
ConditionOfCell(r, row, i) == ConditionOf(Names(r.columns)[i], CellOf(r, row, i))

Condition(r, row, i) ==
  LET cell == CellOf(r, row, i)
      dtype == ColumnType(r, i, Positions(r, None))
      typed == IF IsNull(cell) THEN cell
               ELSE CASE dtype = "Float64" -> Cell("float", Number(cell)) [] dtype = "String" -> Cell("text", Text(cell)) [] OTHER -> cell
  IN ConditionOf(Names(r.columns)[i], typed)
==============================================================================
