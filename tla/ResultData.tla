------------------------------ MODULE ResultData ------------------------------
(***************************************************************************)
(* The rows of a run from the adapter that reads them to the grid, the file   *)
(* and the clipboard.  Rows are pushed one at a time; in between the result   *)
(* may be read, cloned for an apply that adds the rows it inserted, viewed,   *)
(* saved and reopened.  Whatever was done before, what is shown of it are the *)
(* rows that were pushed.                                                     *)
(***************************************************************************)
EXTENDS Groupings

CONSTANTS
  BatchRows,  \* BATCH_ROWS, the most rows one INSERT holds
  Worlds,     \* results: [columns, palettes, later, grows]
  Views,      \* the views asked of them
  Groups,     \* the groupings
  Windows,    \* the rows of an export or a page
  Dialects,   \* the dialects literals are written in
  MaxRows,
  SharedAt    \* how many rows it has when it is cloned or saved

\* Cells as drivers make them: there is one null, whatever is no array has a value, and an
\* array holds cells, none of them an array.
Scalar(c) ==
  /\ c.kind \in Kinds \ {"array"} /\ c = Cell(c.kind, c.val) /\ c.val # Nothing
  /\ IsNull(c) => c = NullCell
Whole(c) ==
  \/ Scalar(c)
  \/ /\ c = [kind |-> "array", val |-> c.val, items |-> c.items]
     /\ Len(c.items) \in Nat /\ c.items = [i \in 1..Len(c.items) |-> c.items[i]]
     /\ \A i \in 1..Len(c.items) : Scalar(c.items[i])

\* The cells of a world, and the columns they can be kept in: None is no frame of them.
CellsIn(w) == {NullCell} \cup UNION ToSet(w.palettes)
Frames(w) ==
  LET bare == {c.val : c \in CellsIn(w)} \cup {Nothing}
  IN Seq([dtype : DOMAIN NativeKinds \cup {"Null", "Object"}, values : Seq(CellsIn(w)) \cup Seq(bare)])

ASSUME CellsWhole == \A w \in Worlds : \A c \in CellsIn(w) : Whole(c)
ASSUME ColumnsListed ==
  \A w \in Worlds : Len(w.columns) \in Nat /\ w.columns = [i \in 1..Len(w.columns) |-> w.columns[i]]
ASSUME NoneIsNoFrame == \A w \in Worlds : None \notin Frames(w)

\* Numbers are numbers, texts have their place in the order, and no cell's backslash is
\* doubled before it is quoted.  Marks are neither values nor rows.
ASSUME CellsReadable ==
  \A w \in Worlds : \A c \in CellsIn(w) :
    /\ c.kind \in {"bool", "int", "float"} => c.val \in Int
    /\ ~IsNull(c) => Text(c) \in ToSet(TextOrder) \ {PathTwice}
ASSUME MarksApart == \A mark \in {Nothing, Failed, None} : mark \notin Int /\ mark \notin Seq(Nat)

\* Names are words with numbers behind them, and None is no condition on one.
ColumnNames == [word : STRING, numbers : Seq(Nat)]
ASSUME NamesGiven ==
  /\ \A w \in Worlds : ToSet(w.columns) \subseteq ColumnNames
  /\ None \notin [shape : {"condition"}, name : ColumnNames, op : {"eq", "is_null"},
                  form : {"none", "bool", "int", "float", "string"}, val : Int]

\* What may be asked: rows by number, columns by number or all of them, texts to compare with.
ASSUME ViewsGiven ==
  \A view \in Views :
    /\ view.scope = None \/ view.scope \in Seq(Nat \ {0})
    /\ \A f \in ToSet(view.filters) :
         /\ f.column \in Nat \cup {None} /\ f.op \in Comparing \cup {"is_null", "not_null", "contains", "starts_with"}
         /\ f.op \in Comparing => f.value \in ToSet(TextOrder)
    /\ Len(view.sort) \in Nat /\ view.sort = [k \in 1..Len(view.sort) |-> view.sort[k]]
ASSUME WindowsGiven ==
  /\ BatchRows \in Nat \ {0}
  /\ \A window \in Windows :
       /\ window.first \in Nat \ {0} /\ window.last \in Nat \cup {None}
       /\ window.columns = None \/ window.columns \in Seq(Nat \ {0})
       /\ window.dialect \in Dialects
ASSUME DialectsQuoted == "clickhouse" \notin Dialects

-----------------------------------------------------------------------------
(* What leaves the engine of the rows on show: pages and details for the grid *)
(* (server/calls.rs, server/summary.rs) and exports (export.rs, server/      *)
(* exports.rs).  The layout of a file is left out: a CSV line is a sequence of *)
(* fields, an object a function of its names, an INSERT the rows it writes.   *)

\* Rows::resolve: places first to last of the view, or of the result, as far as it goes.
Resolve(r, window, view) ==
  LET rows == IF view = None THEN [i \in 1..r.rows |-> i] ELSE view
  IN SubSeq(rows, window.first, IF window.last = None \/ window.last > Len(rows) THEN Len(rows) ELSE window.last)

\* chosen: the columns asked for that exist, or all.
Chosen(r, columns) == IF columns = None THEN [i \in DOMAIN r.columns |-> i] ELSE Those(columns, {k \in DOMAIN columns : columns[k] <= Width(r)})

-----------------------------------------------------------------------------
(* CSV *)

Absent == [form |-> "absent", val |-> 0]
Field(text) == [form |-> "field", val |-> text]

\* Mutant: the rows are cut out where they start, and not gathered.
GatheredFrom(column, rows) ==
  LET place(n) == rows[1] + n - 1
  IN [n \in DOMAIN rows |-> IF place(n) \in DOMAIN column.values THEN column.values[place(n)] ELSE Nothing]

\* csv_frame: rows in a run are sliced, others gathered.
Gathered(column, rows) ==
  IF \A n \in DOMAIN rows \ {1} : rows[n] = rows[n - 1] + 1
  THEN SubSeq(column.values, IF rows = <<>> THEN 1 ELSE rows[1], IF rows = <<>> THEN 0 ELSE rows[1] + Len(rows) - 1)
  ELSE [n \in DOMAIN rows |-> column.values[rows[n]]]

\* The field of a typed value is that of its cell; a null has none, unless it is alone on its line.
CsvColumn(r, i, rows, alone) ==
  LET column == Column(r, i)
      nulls == \E row \in 1..r.rows : IsNull(CellAt(column, row))
      native == column.dtype \in {"Boolean", "Int64", "String"} /\ (~alone \/ ~nulls)
      typed == Gathered(column, rows)
      field(cell) == IF ~IsNull(cell) THEN Field(Text(cell)) ELSE IF alone THEN Field(EmptyText) ELSE Absent
  IN [n \in DOMAIN rows |->
        IF native THEN IF typed[n] = Nothing THEN Absent ELSE Field(Text(Cell(NativeKinds[column.dtype], typed[n])))
        ELSE field(CellAt(column, rows[n]))]

Csv(r, rows, columns) ==
  LET fields == [k \in DOMAIN columns |-> CsvColumn(r, columns[k], rows, Len(columns) = 1)]
  IN [n \in DOMAIN rows |-> [k \in DOMAIN columns |-> fields[k][n]]]

-----------------------------------------------------------------------------
(* JSON and SQL *)

\* json: an object has one value for a name, the last one put there.
Json(r, rows, columns) ==
  LET last(name) == CHOOSE i \in ToSet(columns) :
                      /\ r.columns[i].name = name
                      /\ \A k \in DOMAIN columns : r.columns[columns[k]].name = name =>
                           \E j \in k..Len(columns) : columns[j] = i
  IN [n \in DOMAIN rows |-> [name \in {r.columns[i].name : i \in ToSet(columns)} |-> JsonValue(CellOf(r, rows[n], last(name)))]]

\* rows.chunks.
Batched(rows) ==
  [b \in 1..((Len(rows) + BatchRows - 1) \div BatchRows) |->
     SubSeq(rows, (b - 1) * BatchRows + 1, IF b * BatchRows < Len(rows) THEN b * BatchRows ELSE Len(rows))]

\* sql: one INSERT a row, or a batch of them where the dialect can.
Inserts(r, rows, columns, batch, dialect) ==
  LET values(row) == [k \in DOMAIN columns |-> Literal(dialect, CellOf(r, row, columns[k]))]
      chunks == IF batch /\ dialect # "scylla" THEN Batched(rows) ELSE [n \in DOMAIN rows |-> <<rows[n]>>]
  IN [b \in DOMAIN chunks |-> [n \in DOMAIN chunks[b] |-> values(chunks[b][n])]]

-----------------------------------------------------------------------------
(* The grid *)

\* page_values: typed columns are encoded as they are stored.
PageValue(column, row) ==
  LET value == column.values[row]
  IN IF column.dtype \in {"Object", "Binary", "Null"} THEN Wire(CellAt(column, row))
     ELSE IF value = Nothing THEN Coded("nil", 0)
     ELSE
     CASE column.dtype = "String" -> Coded("string", Escape(value))
       [] column.dtype = "Float64" /\ value = NaN -> Coded("string", NanText)
       [] OTHER -> Coded(NativeKinds[column.dtype], value)

\* rows: offset and limit count through the view; a page past its end is empty.
Page(r, window, view) ==
  LET rows == Resolve(r, window, view)
  IN [indices |-> rows, rows |-> [n \in DOMAIN rows |-> [i \in DOMAIN r.columns |-> PageValue(Column(r, i), rows[n])]]]

\* row: every cell of one row, for the detail window.
Detail(r, row) ==
  [i \in DOMAIN r.columns |-> LET cell == CellOf(r, row, i) IN [null |-> IsNull(cell), kind |-> cell.kind, text |-> Text(cell)]]

-----------------------------------------------------------------------------
(* A result's life *)

VARIABLES
  world,
  live, truth,    \* the result, and the rows pushed to it
  copy,           \* a clone that is kept, with the rows it was made of
  file            \* the saved result, with the rows it was made of
dataVars == <<world, live, truth, copy, file>>

Described(w) == [i \in DOMAIN w.columns |-> NewColumn(w.columns[i], w.classes[i])]

DataInit ==
  /\ world \in Worlds
  /\ live = NewResult(IF world.grows THEN <<>> ELSE Described(world))
  /\ truth = <<>> /\ copy = None /\ file = None

\* A result that started without columns takes those the first row describes.
Describe ==
  /\ live.columns = <<>>
  /\ live' = AdoptColumns(live, Described(world))
  /\ UNCHANGED <<world, truth, copy, file>>

\* A row of the cursor, or one an INSERT returned.
Push ==
  /\ live.columns # <<>> /\ Len(truth) < MaxRows
  /\ \E row \in {r \in [DOMAIN world.columns -> UNION ToSet(world.palettes)] :
                   \A i \in DOMAIN r : r[i] \in world.palettes[i]} :
       \E width \in IF world.short THEN {1, Width(live)} ELSE {Width(live)} :
         LET pushed == SubSeq(<<>> \o row, 1, width)
         IN /\ live' = PushRow(live, pushed)
            /\ truth' = Append(truth, [i \in DOMAIN live.columns |-> IF i <= width THEN row[i] ELSE NullCell])
  /\ UNCHANGED <<world, copy, file>>

\* Any reader makes columns of the buffers.
Read ==
  /\ live.frame = None /\ live.columns # <<>>
  /\ live' = Finalized(live)
  /\ UNCHANGED <<world, truth, copy, file>>

\* The catalog is asked once the rows are there.
Enrich ==
  /\ live.columns # <<>> /\ live.columns[1].key = "none" /\ world.later # None
  /\ live' = Enriched(live, 1, world.later, "primary")
  /\ UNCHANGED <<world, truth, copy, file>>

\* A search of every column, whose frame may be kept.
Search ==
  /\ live.frame # None /\ live.cache = None
  /\ \E view \in Views, fits \in BOOLEAN :
       /\ view.scope = None /\ Needed(live, view) = DOMAIN live.columns
       /\ live' = AfterView(live, view, fits)
  /\ UNCHANGED <<world, truth, copy, file>>

Clone ==
  /\ copy = None /\ file = None /\ Len(truth) \in SharedAt
  /\ copy' = [result |-> Cloned(live), truth |-> truth]
  /\ live' = Finalized(live)
  /\ UNCHANGED <<world, truth, file>>

\* write, whole or not at all: a temporary file takes the name at the end.
Save ==
  /\ copy = None /\ file = None /\ Len(truth) \in SharedAt
  /\ file' = [archive |-> Archive(live), columns |-> live.columns, truth |-> truth]
  /\ live' = Finalized(live)
  /\ UNCHANGED <<world, truth, copy>>

Restore ==
  /\ file # None
  /\ live' = Unarchive(file.archive) /\ truth' = file.truth
  /\ UNCHANGED <<world, copy, file>>

DataNext == Describe \/ Push \/ Read \/ Enrich \/ Search \/ Clone \/ Save \/ Restore

DataSpec == DataInit /\ [][DataNext]_dataVars

-----------------------------------------------------------------------------
(* What views promise, of the rows alone *)

\* How the cells of a column are compared: doc/sqmeow.txt, "Filtering and sorting".
How(cells, class) ==
  LET present == {c \in cells : ~IsNull(c)}
      only(kinds) == \A c \in present : c.kind \in kinds
  IN IF present = {} THEN CASE class = "boolean" -> "flag" [] class = "number" -> "whole" [] OTHER -> "text"
     ELSE IF only({"bool"}) THEN "flag"
     ELSE IF only({"int"}) THEN "whole"
     ELSE IF only({"int", "float"}) \/ (class = "number" /\ \A c \in present : Number(c) # Nothing) THEN "number"
     ELSE "text"

Key(how, cell) ==
  CASE how \in {"flag", "whole"} -> cell.val [] how = "number" -> Number(cell) [] OTHER -> TextRank[Text(cell)]

\* What was typed, as the column compares: None if it does not read as one.
Typed(how, text) ==
  CASE how = "flag" -> Operand("Boolean", text) [] how = "text" -> TextRank[text]
    [] how = "whole" -> Operand("Int64", text) [] how = "number" -> Operand("Float64", text)

InScope(view) ==
  IF view.scope = None THEN [n \in DOMAIN truth |-> n]
  ELSE Those(view.scope, {p \in DOMAIN view.scope : view.scope[p] <= Len(truth)})
HowOf(i, rows) == How({truth[n][i] : n \in ToSet(rows)}, live.columns[i].class)

Passing(i, rows, n, filter) ==
  LET cell == truth[n][i] how == HowOf(i, rows)
  IN CASE filter.op = "is_null" -> IsNull(cell)
       [] filter.op = "not_null" -> ~IsNull(cell)
       [] filter.op \in {"contains", "starts_with"} -> ~IsNull(cell) /\ Has(filter.op, Text(cell), filter.value)
       [] OTHER -> ~IsNull(cell) /\ Compares(filter.op, Key(how, cell), Typed(how, filter.value))

\* Whether b may follow a in one key.
Follows(i, rows, a, b, descending, nullsFirst) ==
  LET x == truth[a][i] y == truth[b][i] key(c) == Key(HowOf(i, rows), c)
  IN IF IsNull(x) \/ IsNull(y) THEN IF nullsFirst THEN IsNull(x) ELSE IsNull(y)
     ELSE IF descending THEN key(x) >= key(y)
     ELSE key(x) <= key(y)
Ties(i, rows, a, b) == Follows(i, rows, a, b, FALSE, FALSE) /\ Follows(i, rows, b, a, FALSE, FALSE)

\* The keys of a view, by column.
KeysOf(view) ==
  IF view.order # None
  THEN <<[column |-> CHOOSE i \in DOMAIN live.columns : Names(live.columns)[i] = view.order.name,
          descending |-> view.order.descending, nullsFirst |-> view.order.nullsFirst]>>
  ELSE LET known == Those(view.sort, {k \in DOMAIN view.sort : view.sort[k].column \in DOMAIN live.columns})
       IN [k \in DOMAIN known |-> [column |-> known[k].column, descending |-> known[k].descending, nullsFirst |-> FALSE]]

\* The filters of a view that can be read, and clauses that say only what they may.
Sensible(view) ==
  LET rows == InScope(view)
  IN /\ Parses(view)
     /\ \A f \in ToSet(view.filters), i \in DOMAIN live.columns :
          f.column \in {None, i} /\ f.op \in Comparing => Typed(HowOf(i, rows), f.value) # Failed
     /\ view.order # None => \E i \in DOMAIN live.columns : Names(live.columns)[i] = view.order.name

\* Rows in order: by each key in turn, then as they were given.
InOrder(shown, rows, keys) ==
  \A m, n \in DOMAIN shown : m < n =>
    \/ \E k \in DOMAIN keys :
         /\ \A j \in 1..(k - 1) : Ties(keys[j].column, rows, shown[m], shown[n])
         /\ ~Ties(keys[k].column, rows, shown[m], shown[n])
         /\ Follows(keys[k].column, rows, shown[m], shown[n], keys[k].descending, keys[k].nullsFirst)
    \/ /\ \A k \in DOMAIN keys : Ties(keys[k].column, rows, shown[m], shown[n])
       /\ \E p, q \in DOMAIN rows : p < q /\ rows[p] = shown[m] /\ rows[q] = shown[n]

Copies(seq, x) == Cardinality({n \in DOMAIN seq : seq[n] = x})

-----------------------------------------------------------------------------
(* Properties *)

AppendedAsBuilt(r, rows) ==
  /\ RowsOf(r) = rows
  /\ \A i \in DOMAIN r.columns :
       LET cells == [n \in DOMAIN rows |-> rows[n][i]]
       IN /\ Column(r, i) = TypedColumn(cells)
          /\ Stats(r, i) = [nulls |-> NullCell \in ToSet(cells),
                            numeric |-> cells # <<>> /\ \A c \in ToSet(cells) : IsNull(c) \/ IsNumeric(c)]

\* "Lossless": whenever the rows became columns, and whatever was appended to a column of
\* another type since, a held result and every clone of it hold the cells pushed to them.
HeldAsPushed == AppendedAsBuilt(live, truth) /\ (copy # None => AppendedAsBuilt(copy.result, copy.truth))

\* A saved result reopens with its cells, kind by kind, and with the classes it was shown with.
ReopenedSame ==
  file # None =>
    LET r == Unarchive(file.archive)
    IN AppendedAsBuilt(r, file.truth) /\ r.columns = file.columns

\* Cells survive whatever holds them: columns, clones, files.
CellsKept == HeldAsPushed /\ ReopenedSame

\* The rows a view is to show, out of the rows in its scope.
RowsAsked(view, rows, shown) ==
  LET through(n) == \A f \in ToSet(view.filters) :
                      \E i \in DOMAIN live.columns : f.column \in {None, i} /\ Passing(i, rows, n, f)
      judged == /\ view.where = None \/ ~Parses(view)
                /\ \A f \in ToSet(view.filters), i \in DOMAIN live.columns :
                     f.op \in {"contains", "starts_with"} /\ f.column \in {None, i} => HowOf(i, rows) # "number"
  IN judged =>
       IF ~Sensible(view) THEN shown = Failed
       ELSE /\ shown # Failed
            /\ \A n \in DOMAIN truth : Copies(shown, n) = IF through(n) THEN Copies(rows, n) ELSE 0
            /\ InOrder(shown, rows, KeysOf(view))

\* A view shows the rows in scope that its filters let through, each as often as it is in
\* scope, in the order asked for with ties as they were: also off a frame kept from an
\* earlier view.  Input that cannot be read is refused.  Parts of a float's digits are not
\* judged: filters see them as Polars writes them, the grid as the engine does.
ViewIsQuery ==
  live.columns # <<>> => \A view \in Views : RowsAsked(view, InScope(view), Select(live, view))

\* The condition `=` writes for a cell finds its row, and only rows with the same value.  The
\* code does not keep this for a NaN in a column of numbers: the text it writes for one is
\* refused there (polars.rs, condition).
CellFindsItsRow ==
  \A n \in DOMAIN truth, i \in DOMAIN live.columns :
    LET same(m, how) == IF IsNull(truth[n][i]) THEN IsNull(truth[m][i])
                        ELSE ~IsNull(truth[m][i]) /\ Key(how, truth[n][i]) = Key(how, truth[m][i])
        finds(how, found) == IF how = "number" /\ Number(truth[n][i]) = NaN THEN found = Failed
                             ELSE found # Failed /\ ToSet(found) = {m \in DOMAIN truth : same(m, how)}
        how == HowOf(i, [m \in DOMAIN truth |-> m])
    IN finds(how, Select(live, [filters |-> <<>>, sort |-> <<>>, scope |-> None,
                                where |-> Condition(live, n, i), order |-> None]))

-----------------------------------------------------------------------------
(* Groups *)

\* A column as groups take it: one kind of scalar, or none at all.
OneKind(i) == {truth[n][i].kind : n \in DOMAIN truth} \ {"null"}
Groupable(i, kinds) == Cardinality(OneKind(i)) <= 1 /\ OneKind(i) \subseteq kinds

\* doc/sqmeow.txt, "Grouping": what may be grouped by, and what aggregates take.
Allowed(keys, ops) ==
  /\ \A i \in ToSet(keys) : Groupable(i, {"bool", "int", "text"})
  /\ \A o \in ToSet(ops) : o.column # None =>
       Groupable(o.column, CASE o.op = "count" -> {"bool", "int", "float", "text"}
                             [] o.op \in {"sum", "avg"} -> {"int", "float"}
                             [] OTHER -> {"int", "float", "text"})

CellTotal(cells) == FoldLeft(LAMBDA sum, c : sum + c.val, 0, cells)

\* One aggregate of the cells of a group, Failed when the answer does not fit.
Summary(op, cells) ==
  LET present == SelectSeq(cells, LAMBDA c : ~IsNull(c))
      kind == present[1].kind
      least(c) == \A d \in ToSet(present) : Rank(TypeOf(c), c.val) <= Rank(TypeOf(d), d.val)
      most(c) == \A d \in ToSet(present) : Rank(TypeOf(c), c.val) >= Rank(TypeOf(d), d.val)
  IN IF op = "count" THEN Cell("int", Len(present))
     ELSE IF present = <<>> THEN NullCell
     ELSE
     CASE op = "sum" /\ kind = "int" -> IF CellTotal(present) \in -(MaxInt + 1)..MaxInt
                                        THEN Cell("int", CellTotal(present)) ELSE Failed
       [] op \in {"sum", "avg"} /\ kind # "int" /\ CellTotal(present) \notin -MaxFloat..MaxFloat -> Failed
       [] op = "sum" /\ kind # "int" -> Cell("float", Round(CellTotal(present)))
       [] op = "avg" -> Cell("float", (12 * FoldLeft(LAMBDA sum, c : sum + Number(c), 0, present)) \div Len(present))
       [] op = "min" -> CHOOSE c \in ToSet(present) : least(c)
       [] op = "max" -> CHOOSE c \in ToSet(present) : most(c)

\* The answer to a group, one row of cells for each set of places with the same keys, in the
\* order of their first places.
Answer(keys, ops, rows) ==
  LET key(p) == [k \in DOMAIN keys |-> truth[rows[p]][keys[k]]]
      places == IF keys = <<>> THEN {DOMAIN rows} ELSE {{q \in DOMAIN rows : key(q) = key(p)} : p \in DOMAIN rows}
      first(P) == CHOOSE p \in P : \A q \in P : p <= q
      sets == SetToSortSeq(places, LAMBDA P, Q : first(P) < first(Q))
      cells(P, column) == LET at == SetToSortSeq(P, LAMBDA p, q : p < q)
                          IN [n \in DOMAIN at |-> IF column = None THEN Cell("int", 0) ELSE truth[rows[at[n]]][column]]
  IN [g \in DOMAIN sets |-> (IF keys = <<>> THEN <<>> ELSE key(first(sets[g])))
                              \o [a \in DOMAIN ops |-> Summary(ops[a].op, cells(sets[g], ops[a].column))]]

\* What is got for a group of `rows`, beside the answer over the cells that were pushed.
AsAnswered(group, got, answer) ==
  LET having(row) == group.having = None \/ row[Len(row)].val >= group.having.val
      order(a, b) == /\ group.sort # <<>>
                     /\ a[1] # b[1]
                     /\ IF IsNull(a[1]) \/ IsNull(b[1]) THEN IsNull(b[1])
                        ELSE (Rank(TypeOf(a[1]), a[1].val) < Rank(TypeOf(b[1]), b[1].val)) # group.sort[1].descending
  IN IF \E n \in DOMAIN answer : Failed \in ToSet(answer[n]) THEN got = Failed
     ELSE got # Failed /\ RowsOf(got) = SortSeq(SelectSeq(answer, having), order)
GroupRight(group, g, rows, got) ==
  LET finite == \A o \in ToSet(g.ops), n \in ToSet(rows) : o.column # None => truth[n][o.column] # Cell("float", NaN)
  IN IF g = Failed THEN got = Failed
     ELSE IF rows = Failed THEN got = Failed
     ELSE IF ~Allowed(g.keys, g.ops) THEN got = Failed
     ELSE IF ~finite THEN got = Failed
     ELSE AsAnswered(group, got, Answer(g.keys, g.ops, rows))
GroupsRight(groups, view, rows) ==
  \A group \in groups : GroupRight(group, ParseGroup(live, group), rows, Aggregation(live, group, view))
AllGroupsRight(groups) ==
  \A view \in Views : GroupsRight(groups, view, Select(live, [view EXCEPT !.sort = <<>>, !.order = None]))

\* Groups are the rows a view shows, partitioned by what the cells are and not by how they
\* read, with exact counts, sums that fit or an error, and nothing left out in silence.
GroupsExact == live.columns # <<>> => AllGroupsRight(Groups)

-----------------------------------------------------------------------------
(* What leaves *)

\* What a literal says: the number it spells, or else the text.
Meant(cell) == IF cell.kind \in {"null", "bool", "int", "decimal", "bytes"} \/ (cell.kind = "float" /\ cell.val # NaN)
               THEN cell.val ELSE Text(cell)

\* Each form of some rows and columns, beside the cells that were pushed there.
Pushed(rows, columns) == [n \in DOMAIN rows |-> [k \in DOMAIN columns |-> truth[rows[n]][columns[k]]]]
CsvRight(cells, lines) ==
  /\ Len(lines) = Len(cells)
  /\ \A n \in DOMAIN cells : \A k \in DOMAIN cells[n] :
       lines[n][k] = IF ~IsNull(cells[n][k]) THEN Field(Text(cells[n][k]))
                     ELSE IF Len(cells[n]) = 1 THEN Field(EmptyText) ELSE Absent
JsonRight(cells, names, objects) ==
  /\ Len(objects) = Len(cells)
  /\ \A n \in DOMAIN cells : \A k \in DOMAIN names :
       (\A j \in DOMAIN names \ {k} : names[j] # names[k]) => objects[n][names[k]] = JsonValue(cells[n][k])
LiteralsRight(cells, dialect, written) ==
  /\ Len(written) = Len(cells)
  /\ \A n \in DOMAIN cells : \A k \in DOMAIN cells[n] : ReadLiteral(dialect, written[n][k]) = Meant(cells[n][k])
InsertsRight(cells, dialect, inserts) ==
  /\ \A b \in DOMAIN inserts : Len(inserts[b]) \in 1..BatchRows
  /\ LiteralsRight(cells, dialect, FlattenSeq(inserts))
PageRight(rows, page) ==
  /\ page.indices = rows
  /\ \A n \in DOMAIN rows :
       /\ page.rows[n] = [i \in DOMAIN live.columns |-> Wire(truth[rows[n]][i])]
       /\ \A i \in DOMAIN live.columns : Detail(live, rows[n])[i].text = Text(truth[rows[n]][i])
FormsRight(rows, columns, window) ==
  /\ CsvRight(Pushed(rows, columns), Csv(live, rows, columns))
  /\ JsonRight(Pushed(rows, columns), [k \in DOMAIN columns |-> live.columns[columns[k]].name], Json(live, rows, columns))
  /\ InsertsRight(Pushed(rows, columns), window.dialect, Inserts(live, rows, columns, window.batch, window.dialect))
WindowRight(window, shown, rows) ==
  /\ Len(rows) = Cardinality({p \in DOMAIN shown : window.first <= p /\ (window.last = None \/ p <= window.last)})
  /\ \A n \in DOMAIN rows : rows[n] = shown[window.first + n - 1]
  /\ PageRight(rows, Page(live, window, shown))
  /\ FormsRight(rows, Chosen(live, window.columns), window)
ShownRight(window, shown) == shown # Failed => WindowRight(window, shown, Resolve(live, window, shown))

\* Pages, details, files and the clipboard carry the cells that were pushed, the rows of the
\* view they are asked for in its order, each once: whatever columns hold them and however the
\* rows fall into batches.  Names that repeat are left to JSON.
OutputExact ==
  live.columns # <<>> => \A window \in Windows, view \in Views : ShownRight(window, Select(live, view))
==============================================================================
