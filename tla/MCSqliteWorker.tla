---------------------------- MODULE MCSqliteWorker ----------------------------
(* SqliteWorker with two requests: a run that opens a transaction, commits it *)
(* and goes on, unless it is stopped and leaves it open, and a review.        *)
EXTENDS SqliteWorker, TLC

CONSTANTS r1, a1

RunAndReview == [r \in {r1, a1} |-> IF r = r1 THEN <<"begin", "commit", "work">> ELSE <<"work">>]
================================================================================
