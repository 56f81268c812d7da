------------------------------- MODULE RowEdits -------------------------------
(***************************************************************************)
(* From the changes staged on a grid to the statements a review shows, and  *)
(* what those statements do to what is stored: sqmeow-db/src/edit.rs,       *)
(* edit/sql.rs, edit/binder.rs, and the plans of the MongoDB, SurrealDB and *)
(* Redis adapters.                                                          *)
(*                                                                         *)
(* A grid is a sequence of rows, a row a sequence of cells.  Changes are a  *)
(* record of updates (row -> column -> value), deletes (a set of rows) and  *)
(* inserts (a sequence of column -> value).  A table is a sequence of       *)
(* records; a statement that cannot be planned is <<>> of a refused plan.   *)
(***************************************************************************)
EXTENDS Integers, Sequences, FiniteSets, SequencesExt

CONSTANTS
  Values,     \* what is typed into a cell
  NewKeys,    \* keys the server gives to rows added without one
  Null,
  Opaque      \* a JSON, an array: shown, but nothing can be compared with it

\* What is on screen: a table read whole, one without a key, a left join of two
\* tables, a table joined with itself; a collection; and what Redis can read back.
SqlReads == {"table", "keyless", "joined", "self"}
RedisReads == {"hash", "set", "list", "keys"}
StoreReads == {"collection", "records"}
Reads == SqlReads \cup RedisReads \cup StoreReads

\* What the steps of a sequence make of a value, one after the other.
InTurn(step(_, _), from, seq) ==
  LET after[n \in 0..Len(seq)] == IF n = 0 THEN from ELSE LET before == after[n - 1] IN step(before, seq[n])
  IN after[Len(seq)]

\* A set of numbers in their order: each stands where it has as many below it.
Sorted(s) == [k \in 1..Cardinality(s) |-> CHOOSE x \in s : Cardinality({y \in s : y < x}) = k - 1]
\* What stands at some places of a sequence, in its order.
Part(seq, places) == [k \in 1..Cardinality(places) |-> seq[Sorted(places)[k]]]

Without(f, k) == [x \in DOMAIN f \ {k} |-> f[x]]
With(f, k, v) == [x \in DOMAIN f \cup {k} |-> IF x = k THEN v ELSE f[x]]

-----------------------------------------------------------------------------
(* Where the cells of a result are stored: TableBinder *)

\* Which column each result column shows, of which table, under which alias.
Bound(read) ==
  LET of(table, side) == <<[table |-> table, side |-> side, name |-> "id"],
                           [table |-> table, side |-> side, name |-> "v"]>>
  IN CASE read = "table" -> of("t", "only")
       [] read = "keyless" -> of("u", "only")
       [] read = "joined" -> of("p", "only") \o of("t", "only")
       [] read = "self" -> of("t", "a") \o of("t", "b")

\* The keys the catalog knows, the primary one first.
CatalogKeys(table) == IF table = "u" THEN <<>> ELSE <<{"id"}>>

\* TableBinder::build: the columns of each read of a table, and those that find its row
\* again: the first key that is shown whole, or every column when rows are table rows.
Build(bound, everyColumn) ==
  LET reads == {<<b.table, b.side>> : b \in {c \in Range(bound) : c.side # "unknown"}}
      known == {x \in reads : \A b \in Range(bound) : b.table = x[1] => b.side # "unknown"}
      at(x) == {i \in DOMAIN bound : <<bound[i].table, bound[i].side>> = x}
      names(x) == {bound[i].name : i \in at(x)}
      keys(x) == CatalogKeys(x[1])
      whole(x) == Part(keys(x), {k \in DOMAIN keys(x) : keys(x)[k] \subseteq names(x)})
      key(x) == IF whole(x) # <<>> THEN {i \in at(x) : bound[i].name \in whole(x)[1]} ELSE at(x)
      located == {x \in known : /\ Cardinality(names(x)) = Cardinality(at(x))
                                /\ whole(x) # <<>> \/ everyColumn}
      first(x) == CHOOSE i \in at(x) : \A j \in at(x) : i <= j
  IN [n \in 1..Cardinality(located) |->
        LET x == CHOOSE y \in located : Cardinality({z \in located : first(z) < first(y)}) = n - 1
        IN [name |-> x[1], key |-> key(x), columns |-> [i \in at(x) |-> bound[i].name]]]

TablesOf == [read \in SqlReads |-> Build(Bound(read), read = "keyless")]
Tables(read) == TablesOf[read]

\* Source::editable and insertable, MongoDB's and SurrealDB's key being the first column.
Editable(read, c) ==
  CASE read \in SqlReads -> \E t \in Range(Tables(read)) : c \in DOMAIN t.columns
    [] read \in StoreReads -> c # 1
    [] read = "hash" -> c <= 2
    [] OTHER -> c = 1
Insertable(read) == read \in SqlReads => Len(Tables(read)) = 1

-----------------------------------------------------------------------------
(* Planning *)

\* Changes::live_updates: a row that is deleted as well is not updated.
LiveUpdates(changes) == Sorted({r \in DOMAIN changes.updates \ changes.deletes : DOMAIN changes.updates[r] # {}})

\* Planner::locate: the row's key as it was read; what cannot be compared is left out.
Where(table, row) ==
  [n \in {table.columns[c] : c \in {k \in table.key : row[k] # Opaque}} |->
     row[CHOOSE c \in table.key : table.columns[c] = n]]
Locatable(table, row) ==
  /\ \E c \in table.key : row[c] # Null
  /\ \E c \in table.key : row[c] # Opaque

Delete(table, row) == [op |-> "delete", table |-> table.name, where |-> Where(table, row)]

\* The cells by their columns' names; those that are not the table's are left out.
Named(table, cells) ==
  [n \in {table.columns[c] : c \in DOMAIN cells \cap DOMAIN table.columns} |->
     cells[CHOOSE c \in DOMAIN cells \cap DOMAIN table.columns : table.columns[c] = n]]
Insert(table, cells) == [op |-> "insert", table |-> table.name, row |-> Named(table, cells)]

\* One UPDATE for each table the changed cells belong to.
Update(tables, row, cells) ==
  LET changed == Part(tables, {i \in DOMAIN tables : DOMAIN tables[i].columns \cap DOMAIN cells # {}})
  IN [i \in DOMAIN changed |->
        [op |-> "update", table |-> changed[i].name, set |-> Named(changed[i], cells),
         where |-> Where(changed[i], row)]]

\* sql_plan: deletes, then inserts, then updates.
SqlRefused(tables, grid, changes) ==
  \/ tables = <<>>
  \/ \E r \in changes.deletes : ~Locatable(tables[1], grid[r])
  \/ changes.inserts # <<>> /\ Len(tables) # 1
  \/ \E r \in Range(LiveUpdates(changes)), t \in Range(tables) :
       DOMAIN t.columns \cap DOMAIN changes.updates[r] # {} /\ ~Locatable(t, grid[r])
SqlPlan(tables, grid, changes) ==
  LET deletes == [i \in 1..Cardinality(changes.deletes) |-> Delete(tables[1], grid[Sorted(changes.deletes)[i]])]
      inserts == [i \in DOMAIN changes.inserts |-> Insert(tables[1], changes.inserts[i])]
      live == LiveUpdates(changes)
      updates == FlattenSeq([i \in DOMAIN live |-> Update(tables, grid[live[i]], changes.updates[live[i]])])
  IN deletes \o inserts \o updates

\* MongoDB's plan: updates, deletes, inserts; the key never changes.
CollectionPlan(grid, changes) ==
  LET names == <<"id", "v">>
      named(cells) == [n \in {names[c] : c \in DOMAIN cells} |->
                         cells[CHOOSE c \in DOMAIN cells : names[c] = n]]
      found(r) == [n \in {"id"} |-> grid[r][1]]
      live == LiveUpdates(changes)
  IN [i \in DOMAIN live |->
        [op |-> "update", table |-> "c", set |-> named(changes.updates[live[i]]), where |-> found(live[i])]]
     \o [i \in 1..Cardinality(changes.deletes) |->
        [op |-> "delete", table |-> "c", where |-> found(Sorted(changes.deletes)[i])]]
     \o [i \in DOMAIN changes.inserts |->
        [op |-> "insert", table |-> "c", row |-> named(changes.inserts[i])]]

\* SurrealDB's plan makes its statements of the same changes, in the same order.
RecordPlan(grid, changes) == CollectionPlan(grid, changes)

\* What removes a row of a Redis key; a list's element is marked by its index.
Removal(read, grid, r) ==
  CASE read = "list" -> [op |-> "lset", at |-> r, value |-> "deleted"]
    [] read = "keys" -> [op |-> "del", field |-> grid[r][1]]
    [] OTHER -> [op |-> "rem", field |-> grid[r][1]]

\* A changed row: a new value, or a new name and then the old one removed first.
Rewrites(read, grid, r, cells) ==
  LET field == grid[r][1]
      name == IF 1 \in DOMAIN cells THEN cells[1] ELSE field
      value == IF 2 \in DOMAIN cells THEN cells[2] ELSE grid[r][2]
  IN CASE read = "hash" ->
            IF name # field
              THEN <<[op |-> "rem", field |-> field], [op |-> "put", field |-> name, value |-> value]>>
              ELSE <<[op |-> "put", field |-> field, value |-> value]>>
       [] read = "set" -> <<[op |-> "rem", field |-> field], [op |-> "put", field |-> name, value |-> Null]>>
       [] read = "list" -> <<[op |-> "lset", at |-> r, value |-> name]>>
       [] read = "keys" -> <<[op |-> "renamenx", field |-> field, to |-> name]>>

\* The Redis adapter's plan: updates (a value set to NULL is a removal), deletes, the
\* marked elements, inserts.
RedisRefused(read, changes) ==
  \E i \in DOMAIN changes.inserts :
    LET cells == changes.inserts[i]
    IN \/ read = "keys"
       \/ \E c \in 1..(IF read = "hash" THEN 2 ELSE 1) : c \notin DOMAIN cells \/ cells[c] = Null
RedisPlan(read, grid, changes) ==
  LET live == LiveUpdates(changes)
      gone(r) == \E c \in DOMAIN changes.updates[r] : changes.updates[r][c] = Null
      updates == FlattenSeq([i \in DOMAIN live |->
                   IF gone(live[i]) THEN <<Removal(read, grid, live[i])>>
                                    ELSE Rewrites(read, grid, live[i], changes.updates[live[i]])])
      deletes == [i \in 1..Cardinality(changes.deletes) |-> Removal(read, grid, Sorted(changes.deletes)[i])]
      marked == \E s \in Range(updates \o deletes) : s.op = "lset" /\ s.value = "deleted"
      inserts == [i \in DOMAIN changes.inserts |->
                    LET cells == changes.inserts[i]
                    IN IF read = "list" THEN [op |-> "rpush", value |-> cells[1]]
                       ELSE [op |-> "put", field |-> cells[1], value |-> IF read = "hash" THEN cells[2] ELSE Null]]
  IN updates \o deletes \o (IF marked THEN <<[op |-> "lrem", value |-> "deleted"]>> ELSE <<>>) \o inserts

Refused(read, grid, changes) ==
  CASE read \in SqlReads -> SqlRefused(Tables(read), grid, changes)
    [] read \in RedisReads -> RedisRefused(read, changes)
    [] OTHER -> FALSE

Plan(read, grid, changes) ==
  CASE read \in SqlReads -> SqlPlan(Tables(read), grid, changes)
    [] read \in RedisReads -> RedisPlan(read, grid, changes)
    [] read = "collection" -> CollectionPlan(grid, changes)
    [] read = "records" -> RecordPlan(grid, changes)

-----------------------------------------------------------------------------
(* The server: a store is a record of tables and keys by name *)

HasKey(table) == table \in {"t", "p", "c"}
Matched(rows, where) == {i \in DOMAIN rows : \A n \in DOMAIN where : rows[i][n] = where[n]}
Sound(table, rows) ==
  HasKey(table) => /\ \A i \in DOMAIN rows : rows[i].id # Null
                   /\ \A i, j \in DOMAIN rows : i # j => rows[i].id # rows[j].id

\* A row as it is stored: what was not given is NULL, a key the server's own.
Stored(rows, table, row) ==
  [n \in {"id", "v"} |->
     IF n \in DOMAIN row THEN row[n]
     ELSE IF n = "id" /\ HasKey(table) /\ \E k \in NewKeys : \A i \in DOMAIN rows : rows[i].id # k
       THEN CHOOSE k \in NewKeys : \A i \in DOMAIN rows : rows[i].id # k
       ELSE Null]

\* Mutant: rows that are gone, and rows that are more than one, are not noticed.
AffectedUnchecked(op, matched) == TRUE

\* check_affected: an UPDATE or a DELETE that does not match one row fails.
CheckAffected(op, matched) == op \in {"update", "delete"} => Cardinality(matched) = 1

\* The rows of a table after one statement, or a failure.
Rows(stored, s) ==
  LET rows == stored[s.table]
      matched == IF s.op = "insert" THEN {} ELSE Matched(rows, s.where)
  IN CASE s.op = "delete" -> Part(rows, DOMAIN rows \ matched)
       [] s.op = "insert" -> Append(rows, Stored(rows, s.table, s.row))
       [] s.op = "update" -> [i \in DOMAIN rows |->
            IF i \notin matched THEN rows[i]
            ELSE [n \in {"id", "v"} |-> IF n \in DOMAIN s.set THEN s.set[n] ELSE rows[i][n]]]
Fails(stored, s) ==
  \/ s.op # "insert" /\ ~CheckAffected(s.op, Matched(stored[s.table], s.where))
  \/ ~Sound(s.table, Rows(stored, s))

\* In one transaction: all of them, or none.
Made(at, s) ==
  LET rows == Rows(at.stored, s)
  IN [ok |-> TRUE, stored |-> [at.stored EXCEPT ![s.table] = rows],
      returned |-> IF s.op = "insert" THEN Append(at.returned, Last(rows)) ELSE at.returned]
Transact(stored, statements) ==
  InTurn(LAMBDA at, s : IF ~at.ok \/ Fails(at.stored, s) THEN [ok |-> FALSE, stored |-> stored, returned |-> <<>>]
                        ELSE Made(at, s),
         [ok |-> TRUE, stored |-> stored, returned |-> <<>>], statements)

\* A Redis key: rows for its fields or members, or the elements of a list.
Command(rows, s) ==
  LET others(f) == Part(rows, {i \in DOMAIN rows : rows[i].id # f})
  IN CASE s.op \in {"rem", "del"} -> others(s.field)
       [] s.op = "put" ->
            IF \E i \in DOMAIN rows : rows[i].id = s.field
              THEN [i \in DOMAIN rows |-> IF rows[i].id = s.field THEN [rows[i] EXCEPT !.v = s.value] ELSE rows[i]]
              ELSE Append(rows, [id |-> s.field, v |-> s.value])
       [] s.op = "lset" -> IF s.at \in DOMAIN rows THEN [rows EXCEPT ![s.at].id = s.value] ELSE rows
       [] s.op = "lrem" -> others(s.value)
       [] s.op = "rpush" -> Append(rows, [id |-> s.value, v |-> Null])
       [] s.op = "renamenx" ->
            IF (\E i \in DOMAIN rows : rows[i].id = s.to) \/ (\A i \in DOMAIN rows : rows[i].id # s.field) THEN rows
            ELSE [i \in DOMAIN rows |-> IF rows[i].id = s.field THEN [rows[i] EXCEPT !.id = s.to] ELSE rows[i]]
CommandFails(rows, s) ==
  \/ s.op = "lset" /\ s.at \notin DOMAIN rows
  \/ s.op = "renamenx" /\ ((\E i \in DOMAIN rows : rows[i].id = s.to) \/ (\A i \in DOMAIN rows : rows[i].id # s.field))

\* MULTI: a command that fails does not keep the others from taking effect.
Multi(stored, statements) ==
  InTurn(LAMBDA at, s : [ok |-> at.ok /\ ~CommandFails(at.stored.r, s),
                           stored |-> [at.stored EXCEPT !.r = Command(at.stored.r, s)], returned |-> <<>>],
           [ok |-> TRUE, stored |-> stored, returned |-> <<>>], statements)

Applied(read, stored, statements) ==
  IF read \in RedisReads THEN Multi(stored, statements) ELSE Transact(stored, statements)

-----------------------------------------------------------------------------
(* Reading *)

TableRead(rows) == [i \in DOMAIN rows |-> <<rows[i].id, rows[i].v>>]

\* A left join of two tables on the second's key, which is unique.
LeftJoin(left, right) ==
  [i \in DOMAIN left |->
     LET found == Part(right, {j \in DOMAIN right : right[j].id = left[i].v})
     IN <<left[i].id, left[i].v>> \o (IF found = <<>> THEN <<Null, Null>> ELSE <<found[1].id, found[1].v>>)]

Grid(read, stored) ==
  CASE read = "table" -> TableRead(stored.t)
    [] read = "keyless" -> TableRead(stored.u)
    [] read \in StoreReads -> TableRead(stored.c)
    [] read = "joined" -> LeftJoin(stored.p, stored.t)
    [] read = "self" -> LeftJoin(stored.t, stored.t)
    [] read = "hash" -> TableRead(stored.r)
    [] OTHER -> [i \in DOMAIN stored.r |-> <<stored.r[i].id>>]

\* Mutant: rows the query selects are shown again.
AppendAll(read, grid, returned) == grid \o returned

\* edit::append_inserted: the rows an apply returned that a rerun does not hold by key.
AppendInserted(read, grid, returned) ==
  IF read \notin SqlReads \/ Len(Tables(read)) # 1 THEN grid
  ELSE InTurn(LAMBDA rows, row :
         IF \E i \in DOMAIN rows : \A c \in Tables(read)[1].key : rows[i][c] = row[c] THEN rows ELSE Append(rows, row),
         grid, returned)
================================================================================
