------------------------------ MODULE MCStaging -------------------------------
(* Two rows a table, three values. *)
EXTENDS Staging

R(id, v) == [id |-> id, v |-> v]
None == [t |-> <<>>, u |-> <<>>, p |-> <<>>, c |-> <<>>, r |-> <<>>]

MCStarts(kind) ==
  CASE kind = "table" -> {[None EXCEPT !.t = <<R("1", "1"), R("2", Null)>>]}
    [] kind = "keyless" -> {[None EXCEPT !.u = <<R("1", "1"), R("1", v)>>] : v \in {"1", Opaque}}
    [] kind = "joined" -> {[None EXCEPT !.p = <<R("1", "1"), R("2", v)>>, !.t = <<R("1", "1")>>] : v \in {"1", Null}}
    [] kind = "self" -> {[None EXCEPT !.t = <<R("1", "2"), R("2", Null)>>]}
    [] kind \in StoreReads -> {[None EXCEPT !.c = <<R("1", "1"), R("2", Null)>>]}
    [] kind = "hash" -> {[None EXCEPT !.r = <<R("1", "1"), R("2", "1")>>]}
    [] OTHER -> {[None EXCEPT !.r = <<R("1", Null), R("2", Null)>>]}
MCChanges(kind) == IF kind \in {"list"} THEN 3 ELSE 2
================================================================================
