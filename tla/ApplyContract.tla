----------------------------- MODULE ApplyContract -----------------------------
(***************************************************************************)
(* What an adapter with transactions promises of Adapter::apply: the       *)
(* statements of a review take effect together or not at all, and the      *)
(* answer says which.  The steps between, the cancel and the connection's  *)
(* end are the implementation's business.                                  *)
(***************************************************************************)
CONSTANT Reviews      \* the calls of apply

VARIABLES
  effect,             \* the reviews whose statements are in the database
  answer              \* what each call returned

Answers == {"none", "ok", "cancelled", "error"}

Init == effect = {} /\ answer = [r \in Reviews |-> "none"]

\* The one instant at which a review takes effect.
Commit(r) ==
  /\ r \notin effect /\ answer[r] = "none"
  /\ effect' = effect \cup {r}
  /\ UNCHANGED answer

\* "ok" is said of a review in effect, anything else of one that never will be.
Return(r, a) ==
  /\ answer[r] = "none"
  /\ (a = "ok") <=> (r \in effect)
  /\ answer' = [answer EXCEPT ![r] = a]
  /\ UNCHANGED effect

Next == \E r \in Reviews : Commit(r) \/ \E a \in Answers \ {"none"} : Return(r, a)

Spec == Init /\ [][Next]_<<effect, answer>>
================================================================================
