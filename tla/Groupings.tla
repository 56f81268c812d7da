------------------------------- MODULE Groupings -------------------------------
(***************************************************************************)
(* Grouping the rows of a held result: view/aggregate.rs.  A group asks for   *)
(* key columns and for aggregates, by name: [keys, aggregates, having, order, *)
(* sort], an aggregate being [op, column, alias].  It is checked before any   *)
(* work starts; its source is never changed.                                  *)
(***************************************************************************)
EXTENDS RowViews

\* column: a name of the result, quoted.
ColumnNamed(names, name) == IF \E i \in DOMAIN names : names[i] = name THEN CHOOSE i \in DOMAIN names : names[i] = name ELSE Failed

AggregateOps == {"count", "sum", "avg", "min", "max"}

\* Group::parse: keys and outputs that are told apart, functions of one column, or COUNT(*).
ParseGroup(r, group) ==
  LET names == Names(r.columns)
      keys == [k \in DOMAIN group.keys |-> ColumnNamed(names, group.keys[k])]
      columns == [a \in DOMAIN group.aggregates |->
                    IF group.aggregates[a].column = None THEN None ELSE ColumnNamed(names, group.aggregates[a].column)]
      outputs == group.keys \o [a \in DOMAIN group.aggregates |-> group.aggregates[a].alias]
      refused == \/ group.aggregates = <<>> \/ Failed \in ToSet(keys) \cup ToSet(columns)
                 \/ Cardinality(ToSet(outputs)) # Len(outputs)
                 \/ \E a \in DOMAIN columns : \/ group.aggregates[a].op \notin AggregateOps
                                              \/ columns[a] = None /\ group.aggregates[a].op # "count"
  IN IF refused THEN Failed
     ELSE [keys |-> keys, ops |-> [a \in DOMAIN columns |-> [op |-> group.aggregates[a].op, column |-> columns[a]]],
           outputs |-> outputs]

\* The types aggregates take, as the columns are stored and not as filters see them.
Aggregable(r, g) ==
  LET dtype(i) == Column(r, i).dtype
      inputs == {o \in ToSet(g.ops) : o.column # None}
  IN /\ \A i \in ToSet(g.keys) : dtype(i) \in {"Boolean", "Int64", "String", "Null"}
     /\ \A o \in inputs : /\ dtype(o.column) \in {"Boolean", "Int64", "Float64", "String", "Null"}
                          /\ o.op \in {"sum", "avg"} => dtype(o.column) \in {"Int64", "Float64", "Null"}
                          /\ o.op \in {"min", "max"} => dtype(o.column) # "Boolean"

-----------------------------------------------------------------------------
(* Polars: one aggregate of the values of a group, nulls left out *)

Total(values) == FoldLeft(LAMBDA sum, v : sum + v, 0, values)

\* Mutant: the sum wraps as the column's integers do.
WrappedSum(dtype, sum) == IF dtype = "Int64" THEN sum % (MaxInt + 1) ELSE Round(sum)

\* A wide sum, then a checked narrowing; a sum of floats that is no longer finite is refused.
Infinite(sum) == sum \notin -MaxFloat..MaxFloat
CheckedSum(dtype, sum) ==
  CASE dtype = "Int64" -> IF sum \in -(MaxInt + 1)..MaxInt THEN sum ELSE Failed
    [] OTHER -> IF Infinite(sum) THEN Failed ELSE Round(sum)

Extreme(dtype, values, less(_, _)) ==
  CHOOSE v \in ToSet(values) : \A w \in ToSet(values) : v = w \/ less(Rank(dtype, v), Rank(dtype, w))

\* A mean, in twelfths, by way of the sum.
Mean(dtype, values) ==
  IF dtype = "Float64" /\ Infinite(Total(values)) THEN Failed ELSE (12 * Total(values)) \div Len(values)

\* The type of an aggregate's output and its value over `values`, all of one column.
OutputType(o, dtype) ==
  CASE o.op = "count" -> "Int64" [] o.op = "avg" -> "Float64"
    [] o.op = "sum" /\ dtype = "Null" -> "Float64" [] OTHER -> IF dtype = "Null" THEN "String" ELSE dtype
Output(o, dtype, values) ==
  LET present == SelectSeq(values, LAMBDA v : v # Nothing)
  IN IF o.op = "count" THEN Len(present)
     ELSE IF present = <<>> THEN Nothing
     ELSE
     CASE o.op = "sum" -> CheckedSum(dtype, Total(present))
       [] o.op = "avg" -> Mean(dtype, [i \in DOMAIN present |-> Round(present[i])])
       [] o.op = "min" -> Extreme(dtype, present, LAMBDA a, b : a < b)
       [] o.op = "max" -> Extreme(dtype, present, LAMBDA a, b : a > b)

-----------------------------------------------------------------------------
\* The column as it is stored: text identities survive what filters make of them.
StoredValues(r, i, rows) == [n \in DOMAIN rows |-> Column(r, i).values[rows[n]]]

\* The rows of each group, groups in the order they are first seen; one group if there is no key.
GroupedRows(r, keys, rows) ==
  LET key(row) == [k \in DOMAIN keys |-> Column(r, keys[k]).values[row]]
      firsts == SelectSeq([n \in DOMAIN rows |-> n], LAMBDA n : \A m \in 1..(n - 1) : key(rows[m]) # key(rows[n]))
  IN IF keys = <<>> THEN <<rows>>
     ELSE [g \in DOMAIN firsts |-> SelectSeq(rows, LAMBDA row : key(row) = key(rows[firsts[g]]))]

\* Not-a-number in a column that is summed or counted, in a row that passed the filters.
NonFinite(r, g, rows) == \E o \in ToSet(g.ops) : /\ o.column # None /\ Column(r, o.column).dtype = "Float64"
                                                 /\ NaN \in ToSet(StoredValues(r, o.column, rows))

\* The computed frame: the keys, then the aggregates.
Computed(r, g, groups) ==
  LET keyColumn(i) == [dtype |-> IF Column(r, i).dtype = "Null" THEN "String" ELSE Column(r, i).dtype,
                       values |-> [n \in DOMAIN groups |-> StoredValues(r, i, groups[n])[1]]]
      dtypeOf(o) == IF o.column = None THEN "Int64" ELSE Column(r, o.column).dtype
      values(o, rows) == IF o.column = None THEN rows ELSE StoredValues(r, o.column, rows)
      opColumn(o) == [dtype |-> OutputType(o, dtypeOf(o)),
                      values |-> [n \in DOMAIN groups |-> Output(o, dtypeOf(o), values(o, groups[n]))]]
  IN [k \in DOMAIN g.keys |-> keyColumn(g.keys[k])] \o [a \in DOMAIN g.ops |-> opColumn(g.ops[a])]

\* The rows of the computed result that HAVING keeps, in the order asked for.
Taken(derived, rows) ==
  IF rows = Failed THEN Failed
  ELSE [derived EXCEPT !.rows = Len(rows),
                       !.frame = [i \in DOMAIN @ |-> [@[i] EXCEPT !.values = [n \in DOMAIN rows |-> @[rows[n]]]]]]
Finished(derived, group) ==
  Taken(derived, Select(derived, [filters |-> <<>>, sort |-> group.sort, scope |-> None,
                                  where |-> group.having, order |-> group.order]))

\* aggregate: WHERE first, then the groups, then HAVING and the order.
Answered(r, group, g, computed, height) ==
  IF \E c \in ToSet(computed) : Failed \in ToSet(c.values) THEN Failed
  ELSE Finished(FromFrame(g.outputs, computed, height, r.truncated), group)
OfGroups(r, group, g, groups) == Answered(r, group, g, Computed(r, g, groups), Len(groups))
OfRows(r, group, g, rows) ==
  IF ~Aggregable(r, g) \/ rows = Failed \/ NonFinite(r, g, rows) THEN Failed
  ELSE OfGroups(r, group, g, GroupedRows(r, g.keys, rows))
OfSource(r, group, g, view) ==
  IF g = Failed THEN Failed ELSE OfRows(r, group, g, Select(r, [view EXCEPT !.sort = <<>>, !.order = None]))
Stored(r, group, view) == OfSource(r, group, ParseGroup(r, group), view)
Aggregation(r, group, view) == Stored(Finalized(r), group, view)
==============================================================================
