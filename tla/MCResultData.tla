------------------------------ MODULE MCResultData ------------------------------
(***************************************************************************)
(* Small results of every kind of column, and the views asked of them.       *)
(***************************************************************************)
EXTENDS ResultData

A == Named("a")
B == Named("b")
I(n) == Cell("int", n)
F(n) == Cell("float", n)
T(t) == Cell("text", t)

World(columns, classes, palettes) ==
  [columns |-> columns, classes |-> classes, palettes |-> palettes, later |-> None, grows |-> FALSE, short |-> FALSE]
One(class, palette) == World(<<A>>, <<class>>, <<palette>>)

Both == [Cell("array", 0) EXCEPT !.items = <<I(1), NullCell>>]

MCWorlds ==
  { [One("number", {NullCell, I(9), I(10)}) EXCEPT !.grows = TRUE],
    One("number", {I(20), I(21), F(9)}),
    One("number", {F(9), F(NaN), NullCell}),
    One("number", {F(40), F(9)}),
    One("number", {I(-20), I(9)}),
    One("number", {T(9), T(10), T(Word)}),
    One("number", {T(9), T(20), T(21)}),
    [One("text", {T(9), T(10), NullCell}) EXCEPT !.later = "number"],
    One("text", {T(Lines), T(EmptyText), T(TrueText)}),
    One("number", {Cell("decimal", 9), Cell("decimal", 10), I(9)}),
    [One("text", {Cell("bool", 0), Cell("bool", 1), NullCell}) EXCEPT !.later = "boolean"],
    [One("text", {NullCell}) EXCEPT !.later = "number"],
    One("text", {I(9), T(9), Both}),
    One("text", {Cell("json", 9), Cell("json", Word)}),
    One("text", {Cell("bytes", LongBlob), Cell("unsupported", EmptyText)}),
    One("timestamp", {Cell("timestamp", Word), Cell("date", Word), T(Path)}),
    World(<<A, B>>, <<"text", "number">>, <<{T(9), NullCell}, {I(20), I(1)}>>),
    [World(<<A, B>>, <<"number", "number">>, <<{I(9)}, {NullCell, F(9), I(21)}>>) EXCEPT !.short = TRUE],
    World(<<A, Numbered(A, 2), A>>, <<"number", "number", "number">>, <<{I(1), I(9)}, {I(1)}, {I(10)}>>) }

-----------------------------------------------------------------------------
View(filters, sort, scope) == [filters |-> filters, sort |-> sort, scope |-> scope, where |-> None, order |-> None]
By(column, descending) == [column |-> column, descending |-> descending]
Filter(column, op, value) == [column |-> column, op |-> op, value |-> value]

Plain == View(<<>>, <<>>, None)
MCViews ==
  { Plain,
    View(<<Filter(1, "eq", 9)>>, <<>>, None),
    View(<<Filter(1, "ge", 10)>>, <<By(1, TRUE)>>, None),
    View(<<Filter(1, "ge", NanText)>>, <<>>, None),
    View(<<Filter(1, "lt", 21), Filter(2, "ne", 1)>>, <<>>, None),
    View(<<Filter(None, "contains", 1)>>, <<>>, None),
    View(<<Filter(1, "is_null", 0)>>, <<By(2, FALSE)>>, None),
    View(<<Filter(2, "not_null", 0)>>, <<By(1, TRUE), By(2, TRUE), By(7, TRUE)>>, None),
    View(<<Filter(1, "eq", TrueText)>>, <<>>, <<2, 1, 2, 9>>),
    View(<<>>, <<By(1, FALSE)>>, <<2, 1, 2, 9>>),
    [Plain EXCEPT !.order = [shape |-> "order", name |-> A, descending |-> TRUE, nullsFirst |-> TRUE]],
    [Plain EXCEPT !.order = [shape |-> "order", name |-> Numbered(A, 2), descending |-> FALSE, nullsFirst |-> FALSE]],
    [Plain EXCEPT !.where = [shape |-> "nested"]] }

Aggregates(op, column, alias) == [op |-> op, column |-> column, alias |-> Named(alias)]
Grouped(keys, aggregates) == [keys |-> keys, aggregates |-> aggregates, having |-> None, order |-> None, sort |-> <<>>]
Count == Aggregates("count", None, "n")
MCGroups ==
  { Grouped(<<A>>, <<Count>>),
    [Grouped(<<A>>, <<Count>>) EXCEPT !.sort = <<By(1, TRUE)>>],
    [Grouped(<<A>>, <<Count>>) EXCEPT
       !.having = [shape |-> "condition", name |-> Named("n"), op |-> "ge", form |-> "int", val |-> 2]],
    Grouped(<<>>, <<Aggregates("sum", A, "s"), Aggregates("avg", A, "m"), Aggregates("count", A, "n")>>),
    Grouped(<<>>, <<Aggregates("min", A, "l"), Aggregates("max", A, "h")>>),
    Grouped(<<A, B>>, <<Count>>),
    Grouped(<<A>>, <<Aggregates("sum", B, "s"), Aggregates("max", B, "h")>>),
    Grouped(<<A>>, <<Aggregates("count", None, "a")>>) }

MCWindows ==
  { [first |-> 1, last |-> None, columns |-> None, batch |-> TRUE, dialect |-> "mysql"],
    [first |-> 2, last |-> 3, columns |-> <<1>>, batch |-> FALSE, dialect |-> "postgres"],
    [first |-> 1, last |-> 2, columns |-> <<2, 7, 1>>, batch |-> TRUE, dialect |-> "scylla"] }
==============================================================================
