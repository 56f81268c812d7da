---------------------------- MODULE MCProvenance -----------------------------
(* Seven adapters, nineteen queries over two tables and a view, and three     *)
(* sets of keys.                                                              *)
EXTENDS Provenance, TLC

Table(r, a) == [kind |-> "table", rel |-> r, alias |-> a]
View(a) == [kind |-> "view", rel |-> "staff", alias |-> a]
Cte(a) == [kind |-> "cte", rel |-> "t", alias |-> a]
Derived(a) == [kind |-> "derived", rel |-> "emp", alias |-> a]
As(q, c, n) == [qual |-> q, col |-> c, as |-> n]
Item(q, c) == As(q, c, c)
Star == Item(None, "*")
Q(from, items) == [ctes |-> <<>>, from |-> from, items |-> items, join |-> "cross",
                   clause |-> "none", parsed |-> TRUE]
With(q) == [q EXCEPT !.ctes = <<[name |-> "t", of |-> "emp"]>>]
IdOfA == <<Item("x", "id"), Item("y", "a")>>
Emp == <<Table("emp", None)>>
Pair == <<Table("emp", "x"), Table("emp", "y")>>
Both == <<Table("emp", "x"), Table("dept", "y")>>
MCQueries ==
  {Q(Emp, <<Star>>), Q(Emp, <<Item(None, "a")>>),
   Q(Emp, <<As(None, "a", "id"), As(None, "id", "a")>>),
   Q(Emp, <<As(None, "+", "id"), Item(None, "a")>>),
   [Q(Emp, <<Item(None, "id")>>) EXCEPT !.clause = "group"],
   [Q(Emp, <<Item(None, "a")>>) EXCEPT !.clause = "distinct"],
   Q(Pair, <<Item("x", "id"), Item("x", "a"), Item("y", "id"), Item("y", "a")>>),
   Q(Pair, IdOfA), Q(Pair, <<Star>>), [Q(Pair, IdOfA) EXCEPT !.parsed = FALSE],
   [Q(Both, <<Item("x", "id"), Item("x", "a"), Item("y", "id"), Item("y", "b")>>) EXCEPT !.join = "left"],
   [Q(Both, <<Star>>) EXCEPT !.join = "using"],
   [Q(Both, <<Item("x", "id"), Item("x", "a")>>) EXCEPT !.clause = "union"],
   With(Q(<<Cte("x"), Table("emp", "y")>>, IdOfA)),
   With(Q(<<Cte("x"), Cte("y")>>, IdOfA)),
   Q(<<Derived("x"), Table("emp", "y")>>, IdOfA),
   Q(<<View(None)>>, <<Star>>),
   Q(<<View("x"), Table("emp", "y")>>, IdOfA),
   Q(<<View("x"), View("y")>>, IdOfA)}

Key(kind, cols, whole) == [kind |-> kind, cols |-> cols, whole |-> whole]
IndexKeys == <<Key("i", <<"id">>, FALSE), Key("i", <<"a", "id">>, TRUE)>>
Later == {<<Key("p", <<"a", "id">>, TRUE)>>,
            <<Key("u", <<"a">>, TRUE), Key("p", <<"id">>, TRUE)>>}
MCKeySets == "emp" :> Later
Employee(i, n, a) == [id |-> i, v |-> [id |-> n, a |-> a]]
Dept == [id |-> 1, v |-> [id |-> 1, b |-> 2]]
Employees == {Employee(1, 1, 1), Employee(2, 2, None)}
Db(keys) == [catalog |-> [cols |-> "emp" :> <<"id", "a">> @@ "dept" :> <<"id", "b">>,
                          views |-> "staff" :> "emp"],
             keys |-> "emp" :> keys @@ "dept" :> <<Key("p", <<"id">>, TRUE)>>,
             rows |-> "emp" :> Employees @@ "dept" :> {Dept}]
MCDatabases == {Db(k) : k \in {x \in Later \cup {IndexKeys} : KeysMayHold(Employees, x)}}
MCInserted == {[id |-> 1, a |-> 2]}
==============================================================================
