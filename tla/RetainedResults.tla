---------------------------- MODULE RetainedResults ----------------------------
(***************************************************************************)
(* A held result: rows arrive one by one in buffers, the first reader turns  *)
(* the buffers into typed columns, and rows added later are appended to      *)
(* those.  result.rs, result/retained.rs, view/cache.rs, server/archive.rs.  *)
(*                                                                         *)
(* A typed column keeps bare values, and what they are is known by its type  *)
(* alone; a column of cells of several kinds keeps the cells.                 *)
(***************************************************************************)
EXTENDS Cells, FiniteSets

CONSTANTS
  None,       \* no frame yet, no such option
  Declined    \* a projection was built and did not fit the budget

\* The kind of cell a column type stands for.
NativeKinds == [Boolean |-> "bool", Int64 |-> "int", Float64 |-> "float", String |-> "text", Binary |-> "bytes"]

TypeOf(cell) ==
  IF IsNull(cell) THEN "Null"
  ELSE IF \E t \in DOMAIN NativeKinds : NativeKinds[t] = cell.kind
       THEN CHOOSE t \in DOMAIN NativeKinds : NativeKinds[t] = cell.kind
       ELSE "Object"

Bare(cell) == IF IsNull(cell) THEN Nothing ELSE cell.val

ObjectColumn(cells) == [dtype |-> "Object", values |-> cells]

\* retained::column: one type for all, or the cells themselves.
TypedColumn(cells) ==
  LET types == {TypeOf(c) : c \in ToSet(cells)} \ {"Null"}
  IN IF Cardinality(types) > 1 \/ "Object" \in types THEN ObjectColumn(cells)
     ELSE [dtype |-> IF types = {} THEN "Null" ELSE CHOOSE t \in types : TRUE,
           values |-> [i \in DOMAIN cells |-> Bare(cells[i])]]

\* retained::cell.
CellAt(column, row) ==
  IF column.dtype = "Object" THEN column.values[row]
  ELSE IF column.values[row] = Nothing THEN NullCell
  ELSE Cell(NativeKinds[column.dtype], column.values[row])
CellsOf(column) == [row \in DOMAIN column.values |-> CellAt(column, row)]

\* Mutant: a value of another type is taken for one of the column's.
AppendedCoerced(column, cell) ==
  IF column.dtype = "Object" \/ TypeOf(cell) = "Object" THEN ObjectColumn(Append(CellsOf(column), cell))
  ELSE [dtype |-> IF column.dtype = "Null" THEN TypeOf(cell) ELSE column.dtype, values |-> Append(column.values, Bare(cell))]

\* retained::append, one column of it: a change of type promotes the column.
Appended(column, cell) ==
  LET tail == TypeOf(cell)
  IN IF column.dtype = "Object" \/ (tail # "Null" /\ tail # column.dtype /\ (column.dtype # "Null" \/ tail = "Object"))
     THEN ObjectColumn(Append(CellsOf(column), cell))
     ELSE [dtype |-> IF column.dtype = "Null" THEN tail ELSE column.dtype, values |-> Append(column.values, Bare(cell))]

-----------------------------------------------------------------------------
(* ResultSet *)

\* Column: the class is worked out from the type's name unless it was saved.
NewColumn(name, class) == [name |-> name, inferred |-> class, class |-> class, key |-> "none"]

NewResult(columns) ==
  [columns |-> columns, pending |-> [i \in DOMAIN columns |-> <<>>], frame |-> None, cache |-> None,
   rows |-> 0, truncated |-> FALSE, affected |-> 0]

Width(r) == Len(r.columns)

\* storage: the buffers become columns on the first read.
Storage(r) == IF r.frame = None THEN [i \in DOMAIN r.columns |-> TypedColumn(r.pending[i])] ELSE r.frame
Finalized(r) == [r EXCEPT !.frame = Storage(r), !.pending = [i \in DOMAIN r.columns |-> <<>>]]
Column(r, i) == Storage(r)[i]
CellOf(r, row, i) == CellAt(Column(r, i), row)
RowsOf(r) == [row \in 1..r.rows |-> [i \in DOMAIN r.columns |-> CellOf(r, row, i)]]

\* A row as wide as the result: short ones are padded, the rest of long ones is dropped.
Resized(r, row) == [i \in DOMAIN r.columns |-> IF i <= Len(row) THEN row[i] ELSE NullCell]

\* Mutant: the projection of the rows there were is kept.
PushRowKeepsCache(r, row) ==
  LET cells == Resized(r, row)
  IN IF r.frame = None
     THEN [r EXCEPT !.rows = @ + 1, !.pending = [i \in DOMAIN r.columns |-> Append(@[i], cells[i])]]
     ELSE [r EXCEPT !.rows = @ + 1, !.frame = [i \in DOMAIN r.columns |-> Appended(@[i], cells[i])]]

PushRow(r, row) ==
  LET cells == Resized(r, row)
  IN IF r.frame = None
     THEN [r EXCEPT !.cache = None, !.rows = @ + 1, !.pending = [i \in DOMAIN r.columns |-> Append(@[i], cells[i])]]
     ELSE [r EXCEPT !.cache = None, !.rows = @ + 1, !.frame = [i \in DOMAIN r.columns |-> Appended(@[i], cells[i])]]

\* adopt_columns: only a result that started without any.
AdoptColumns(r, columns) ==
  IF r.columns # <<>> \/ r.rows > 0 THEN r
  ELSE [r EXCEPT !.frame = None, !.cache = None, !.columns = columns, !.pending = [i \in DOMAIN columns |-> <<>>]]

\* columns_mut: what the catalog knows is learned after the rows.
Enriched(r, i, class, key) == [r EXCEPT !.cache = None, !.columns[i].class = class, !.columns[i].key = key]

\* A clone shares the columns, and the projection with them.
Cloned(r) == Finalized(r)

\* column_stats.
Stats(r, i) ==
  LET column == Column(r, i)
      cells == CellsOf(column)
      nulls == {row \in DOMAIN cells : IsNull(cells[row])}
  IN [nulls |-> nulls # {},
      numeric |-> IF column.dtype = "Object"
                  THEN cells # <<>> /\ \A row \in DOMAIN cells \ nulls : IsNumeric(cells[row])
                  ELSE cells # <<>> /\ (column.dtype \in {"Int64", "Float64", "Null"} \/ nulls = DOMAIN cells)]

\* from_frame: a computed result has types of its own and no source.
Classes == [Boolean |-> "boolean", Int64 |-> "number", Float64 |-> "number", String |-> "text", Null |-> "text"]
FromFrame(names, frame, height, truncated) ==
  [NewResult([i \in DOMAIN frame |-> NewColumn(names[i], Classes[frame[i].dtype])])
     EXCEPT !.frame = frame, !.rows = height, !.truncated = truncated, !.pending = [i \in DOMAIN frame |-> <<>>]]

-----------------------------------------------------------------------------
(* The saved result *)

\* header and write_to; what the database fills in itself is not saved.
Archive(r) ==
  [columns |-> r.columns, truncated |-> r.truncated, affected |-> r.affected,
   rows |-> [row \in 1..r.rows |-> [i \in DOMAIN r.columns |-> Encode(CellOf(r, row, i))]]]

\* column: kept as it was saved rather than worked out again.
SavedColumn(saved) == [NewColumn(saved.name, saved.inferred) EXCEPT !.class = saved.class, !.key = saved.key]

\* read: every row is pushed, and a row of another width is refused.
Unarchive(file) ==
  LET empty == NewResult([i \in DOMAIN file.columns |-> SavedColumn(file.columns[i])])
      decoded(row) == [i \in DOMAIN row |-> Decode(row[i])]
      read[n \in 0..Len(file.rows)] ==
        IF n = 0 THEN empty ELSE LET before == read[n - 1] IN PushRow(before, decoded(file.rows[n]))
  IN [read[Len(file.rows)] EXCEPT !.truncated = file.truncated, !.affected = file.affected]
==============================================================================
