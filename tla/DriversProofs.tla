---------------------------- MODULE DriversProofs ----------------------------
(***************************************************************************)
(* What holds of the adapters for any number of requests, whatever they    *)
(* are, and however their cancels, kills and broken connections fall.      *)
(***************************************************************************)
EXTENDS Drivers, TLAPS

Calls == [pc : Pcs, step : 1..Edits, outcome : Outcomes, answer : Answers]
Wires == {m \in [what : Sendable, reply : Replies] : m.what = "none" \/ m.reply = "none"}
Sessions == {"up", "broken", "closing", "down"}

\* What a step of a driver on r may change, and into what.
Turns(r) == \E c \in Calls : call' = [call EXCEPT ![r] = c]
Keeps(r) ==
  /\ \E m \in Wires : sent' = [sent EXCEPT ![r] = m]
  /\ holder' \in Requests \cup {None} /\ session' \in Sessions /\ kill' \subseteq Requests
Shaped(r) == Turns(r) /\ Keeps(r)

\* The types, piece by piece, as the steps below use them.
LEMMA Types ==
  ASSUME TypeOK, NEW r \in Requests
  PROVE  /\ call \in [Requests -> Calls] /\ sent \in [Requests -> Wires]
         /\ call[r] \in Calls /\ sent[r] \in Wires
         /\ holder \in Requests \cup {None} /\ session \in Sessions /\ kill \subseteq Requests
         /\ GivenUp \in Sessions /\ Statement(r) \in Sendable /\ Outcome(r) \in Answers
         /\ adapter \in AllAdapters
<1>1. call \in [Requests -> Calls] /\ call[r] \in Calls
  BY DEF TypeOK, Calls
<1>2. /\ holder \in Requests \cup {None} /\ session \in Sessions /\ kill \subseteq Requests
      /\ GivenUp \in Sessions
  BY DEF TypeOK, GivenUp, Sessions
<1>3. sent \in [Requests -> Wires] /\ sent[r] \in Wires
  BY DEF TypeOK, Wires
<1>4. adapter \in AllAdapters
  BY AdaptersAreModelled DEF TypeOK
<1>5. Statement(r) \in Sendable
  <2>1. \A a \in AllAdapters : KindsOf(a) \subseteq Sendable
    BY DEF KindsOf, Sendable
  <2>2. r \notin Applies => kind[r] \in Sendable
    BY <2>1, <1>4 DEF TypeOK, Requests
  <2> QED
    BY <2>2 DEF Statement, IsApply, Sendable
<1>6. Outcome(r) \in Answers
  BY <1>1 DEF Outcome, Calls, Outcomes, Answers
<1> QED
  BY <1>1, <1>2, <1>3, <1>4, <1>5, <1>6

\* The building blocks of a driver's step change no more than that.
LEMMA Blocks ==
  ASSUME TypeOK, NEW r \in Requests
  PROVE  /\ Stays => Keeps(r)
         /\ call' = call => Turns(r)
         /\ UNCHANGED <<session, sent, kill>> /\ holder' = r => Keeps(r)
         /\ UNCHANGED <<holder, sent, kill>> /\ session' \in Sessions => Keeps(r)
         /\ (sent' = [sent EXCEPT ![r] = IF session = "up" THEN [what |-> "rollback", reply |-> "none"]
                                            ELSE [what |-> "none", reply |-> "lost"]])
            /\ UNCHANGED <<holder, session, kill>> => Keeps(r)
         /\ UNCHANGED <<holder, session, sent>> /\ kill' = kill \cup {r} => Keeps(r)
         /\ \A p \in Pcs : Moves(r, p) => Turns(r)
         /\ \A p \in Pcs, o \in Outcomes :
              \/ call' = [call EXCEPT ![r].pc = p, ![r].outcome = o]
              \/ call' = [call EXCEPT ![r].outcome = o, ![r].pc = p]
              => Turns(r)
         /\ \A p \in Pcs :
              /\ call[r].step < Edits
              /\ \/ call' = [call EXCEPT ![r].pc = p, ![r].step = @ + 1]
                 \/ call' = [call EXCEPT ![r].step = @ + 1, ![r].pc = p]
              => Turns(r)
         /\ \A s \in Sendable, p \in Pcs : Sends(r, s, p) => Shaped(r)
         /\ \A a \in Answers, s \in Sessions : Ends(r, a, s) => Shaped(r)
         /\ \A o \in Outcomes, s \in Sessions : Notes(r, o, s) => Shaped(r)
<1>1. /\ call[r] \in Calls /\ call \in [Requests -> Calls]
      /\ sent \in [Requests -> Wires] /\ sent[r] \in Wires
      /\ holder \in Requests \cup {None} /\ session \in Sessions /\ kill \subseteq Requests
  BY Types
<1>2. sent' = sent => \E m \in Wires : sent' = [sent EXCEPT ![r] = m]
  BY <1>1
<1>11. call' = call => Turns(r)
  BY <1>1 DEF Turns
<1>3. \A p \in Pcs : [call[r] EXCEPT !.pc = p] \in Calls
  BY <1>1 DEF Calls
<1>4. ASSUME NEW p \in Pcs, Moves(r, p) PROVE Turns(r)
  BY <1>3, <1>4 DEF Moves, Turns
<1>5. ASSUME NEW s \in Sendable, NEW p \in Pcs, Sends(r, s, p) PROVE Shaped(r)
  <2>1. [what |-> s, reply |-> "none"] \in Wires /\ [what |-> "none", reply |-> "lost"] \in Wires
    BY DEF Wires, Replies, Sendable
  <2>2. \E m \in Wires : sent' = [sent EXCEPT ![r] = m]
    BY <1>5, <2>1 DEF Sends
  <2> QED
    BY <1>1, <1>4, <1>5, <2>2 DEF Sends, Shaped, Keeps
<1>6. ASSUME NEW a \in Answers, NEW s \in Sessions, Ends(r, a, s) PROVE Shaped(r)
  <2>1. [call[r] EXCEPT !.pc = "returned", !.answer = a] \in Calls
    BY <1>1 DEF Calls, Pcs
  <2>2. Turns(r)
    BY <1>6, <2>1 DEF Ends, Turns
  <2> QED
    BY <1>1, <1>2, <1>6, <2>2 DEF Ends, Shaped, Keeps
<1>7. ASSUME NEW o \in Outcomes, NEW s \in Sessions, Notes(r, o, s) PROVE Shaped(r)
  <2>1. [call[r] EXCEPT !.pc = "done", !.outcome = o] \in Calls
    BY <1>1 DEF Calls, Pcs
  <2>2. Turns(r)
    BY <1>7, <2>1 DEF Notes, Turns
  <2> QED
    BY <1>1, <1>2, <1>7, <2>2 DEF Notes, Shaped, Keeps
<1>8. ASSUME NEW p \in Pcs, NEW o \in Outcomes,
             \/ call' = [call EXCEPT ![r].pc = p, ![r].outcome = o]
             \/ call' = [call EXCEPT ![r].outcome = o, ![r].pc = p]
      PROVE  Turns(r)
  <2>1. [call[r] EXCEPT !.pc = p, !.outcome = o] \in Calls /\ [call[r] EXCEPT !.outcome = o, !.pc = p] \in Calls
    BY <1>1 DEF Calls
  <2>2. ASSUME call' = [call EXCEPT ![r].pc = p, ![r].outcome = o] PROVE Turns(r)
    BY <2>1, <2>2 DEF Turns
  <2>3. ASSUME call' = [call EXCEPT ![r].outcome = o, ![r].pc = p] PROVE Turns(r)
    BY <2>1, <2>3 DEF Turns
  <2> QED
    BY <1>8, <2>2, <2>3
<1>9. ASSUME NEW p \in Pcs, call[r].step < Edits,
             \/ call' = [call EXCEPT ![r].pc = p, ![r].step = @ + 1]
             \/ call' = [call EXCEPT ![r].step = @ + 1, ![r].pc = p]
      PROVE  Turns(r)
  <2>1. call[r].step + 1 \in 1..Edits
    BY <1>1, <1>9, SessionConstants DEF Calls
  <2>2. /\ [call[r] EXCEPT !.pc = p, !.step = call[r].step + 1] \in Calls
        /\ [call[r] EXCEPT !.step = call[r].step + 1, !.pc = p] \in Calls
    BY <1>1, <2>1 DEF Calls
  <2>3. ASSUME call' = [call EXCEPT ![r].pc = p, ![r].step = @ + 1] PROVE Turns(r)
    BY <2>2, <2>3 DEF Turns
  <2>4. ASSUME call' = [call EXCEPT ![r].step = @ + 1, ![r].pc = p] PROVE Turns(r)
    BY <2>2, <2>4 DEF Turns
  <2> QED
    BY <1>9, <2>3, <2>4
<1>10. ASSUME UNCHANGED <<holder, session, kill>>,
              sent' = [sent EXCEPT ![r] = IF session = "up" THEN [what |-> "rollback", reply |-> "none"]
                                          ELSE [what |-> "none", reply |-> "lost"]]
       PROVE  Keeps(r)
  <2>1. [what |-> "rollback", reply |-> "none"] \in Wires /\ [what |-> "none", reply |-> "lost"] \in Wires
    BY DEF Wires, Replies, Sendable
  <2>2. \E m \in Wires : sent' = [sent EXCEPT ![r] = m]
    BY <1>10, <2>1
  <2> QED
    BY <1>1, <1>10, <2>2 DEF Keeps
<1> QED
  BY <1>1, <1>2, <1>4, <1>5, <1>6, <1>7, <1>8, <1>9, <1>10, <1>11 DEF Stays, Keeps

-----------------------------------------------------------------------------
(* PostgreSQL *)

LEMMA PostgresBlocks ==
  /\ Postgres!Stays <=> Stays
  /\ Postgres!Usable <=> Usable
  /\ Postgres!GivenUp = GivenUp
  /\ \A r : /\ Postgres!Pc(r) = Pc(r) /\ Postgres!Outcome(r) = Outcome(r) /\ Postgres!Reply(r) = Reply(r)
            /\ Postgres!Statement(r) = Statement(r)
            /\ Postgres!IsApply(r) <=> IsApply(r)
            /\ Postgres!Interruptible(r) <=> Interruptible(r)
  /\ \A r, p : Postgres!Moves(r, p) <=> Moves(r, p)
  /\ \A r, s, p : Postgres!Sends(r, s, p) <=> Sends(r, s, p)
  /\ \A r, a, s : Postgres!Ends(r, a, s) <=> Ends(r, a, s)
  /\ \A r, o, s : Postgres!Notes(r, o, s) <=> Notes(r, o, s)
BY DEF Postgres!Stays, Postgres!Usable, Postgres!GivenUp, Postgres!Pc, Postgres!Outcome, Postgres!Reply,
       Postgres!Statement, Postgres!IsApply, Postgres!Interruptible, Postgres!Moves, Postgres!Sends,
       Postgres!Ends, Postgres!Notes, Stays, Usable, GivenUp, Pc, Outcome, Reply, Statement, IsApply,
       Interruptible, Moves, Sends, Ends, Notes

LEMMA PostgresShaped ==
  ASSUME TypeOK, NEW r \in Requests, Postgres!Steps(r) \/ Postgres!Drop(r)
  PROVE  Shaped(r)
<1> USE PostgresBlocks, Blocks, Types
<1>1. ASSUME Postgres!Enter(r) PROVE Shaped(r)
  <2>1. ASSUME Postgres!Ends(r, "cancelled", session) \/ Postgres!Ends(r, "error", Postgres!GivenUp) PROVE Shaped(r)
    BY <2>1, Zenon DEF Answers
  <2>2. ASSUME holder' = r, UNCHANGED <<session, sent, kill>>,
               Postgres!Moves(r, IF Postgres!IsApply(r) THEN "begin" ELSE "check")
        PROVE  Shaped(r)
    BY <2>2, ZenonT(20) DEF Pcs, Shaped
  <2> QED
    BY <1>1, <2>1, <2>2 DEF Postgres!Enter
<1>2. ASSUME Postgres!Check(r) PROVE Shaped(r)
  BY <1>2, ZenonT(20) DEF Postgres!Check, Pcs, Outcomes
<1>3. ASSUME Postgres!Settle(r) PROVE Shaped(r)
  BY <1>3 DEF Postgres!Settle, Postgres!Heard, Outcomes
<1>4. ASSUME Postgres!NoticeCancel(r) PROVE Shaped(r)
  BY <1>4, ZenonT(20) DEF Postgres!NoticeCancel, Pcs, Shaped
<1>5. ASSUME Postgres!StopQuery(r) PROVE Shaped(r)
  BY <1>5, Zenon DEF Postgres!StopQuery, Pcs, Shaped
<1>6. ASSUME Postgres!Drain(r) \/ Postgres!CleanupTimeout(r) PROVE Shaped(r)
  BY <1>6 DEF Postgres!Drain, Postgres!CleanupTimeout, Postgres!Heard, Outcomes
<1>7. ASSUME Postgres!EndRun(r) PROVE Shaped(r)
  BY <1>7 DEF Postgres!EndRun
<1>8. ASSUME Postgres!Begin(r) PROVE Shaped(r)
  BY <1>8, ZenonT(60) DEF Postgres!Begin, Pcs, Sendable, Answers, Shaped
<1>9. ASSUME Postgres!NextEdit(r) PROVE Shaped(r)
  <2>1. CASE Postgres!Notes(r, "error", session)
    BY <2>1 DEF Outcomes
  <2>2. CASE call[r].step < Edits /\ ~Postgres!Notes(r, "error", session)
    BY <1>9, <2>2, ZenonT(20) DEF Postgres!NextEdit, Pcs, Shaped
  <2>3. CASE ~(call[r].step < Edits) /\ ~Postgres!Notes(r, "error", session)
    BY <1>9, <2>3, ZenonT(20) DEF Postgres!NextEdit, Pcs, Shaped, Moves
  <2> QED
    BY <2>1, <2>2, <2>3
<1>10. ASSUME Postgres!Undo(r) PROVE Shaped(r)
  BY <1>10, ZenonT(20) DEF Postgres!Undo, Pcs, Sendable, Answers
<1>11. ASSUME Postgres!Undone(r) PROVE Shaped(r)
  BY <1>11 DEF Postgres!Undone, Answers
<1>12. ASSUME Postgres!Commit(r) PROVE Shaped(r)
  <2>1. CASE Postgres!Pc(r) = "decide" /\ r \in token
    BY <1>12, <2>1, ZenonT(20) DEF Postgres!Commit, Pcs, Outcomes, Shaped
  <2>2. CASE Postgres!Pc(r) = "decide" /\ r \notin token
    BY <1>12, <2>2, Zenon DEF Postgres!Commit, Pcs, Sendable
  <2>3. CASE Postgres!Pc(r) = "committing"
    BY <1>12, <2>3, ZenonT(60) DEF Postgres!Commit, Answers
  <2> QED
    BY <1>12, <2>1, <2>2, <2>3 DEF Postgres!Commit
<1>13. ASSUME Postgres!Drop(r) PROVE Shaped(r)
  BY <1>13 DEF Postgres!Drop, Postgres!Drops, Answers
<1> QED
  BY <1>1, <1>2, <1>3, <1>4, <1>5, <1>6, <1>7, <1>8, <1>9, <1>10, <1>11, <1>12, <1>13 DEF Postgres!Steps

-----------------------------------------------------------------------------
(* MySQL *)

LEMMA MySqlBlocks ==
  /\ MySql!Stays <=> Stays
  /\ MySql!Usable <=> Usable
  /\ MySql!GivenUp = GivenUp
  /\ \A r : /\ MySql!Pc(r) = Pc(r) /\ MySql!Outcome(r) = Outcome(r) /\ MySql!Reply(r) = Reply(r)
            /\ MySql!Statement(r) = Statement(r)
            /\ MySql!IsApply(r) <=> IsApply(r)
            /\ MySql!Interruptible(r) <=> Interruptible(r)
  /\ \A r, p : MySql!Moves(r, p) <=> Moves(r, p)
  /\ \A r, s, p : MySql!Sends(r, s, p) <=> Sends(r, s, p)
  /\ \A r, a, s : MySql!Ends(r, a, s) <=> Ends(r, a, s)
  /\ \A r, o, s : MySql!Notes(r, o, s) <=> Notes(r, o, s)
BY DEF MySql!Stays, MySql!Usable, MySql!GivenUp, MySql!Pc, MySql!Outcome, MySql!Reply,
       MySql!Statement, MySql!IsApply, MySql!Interruptible, MySql!Moves, MySql!Sends,
       MySql!Ends, MySql!Notes, Stays, Usable, GivenUp, Pc, Outcome, Reply, Statement, IsApply,
       Interruptible, Moves, Sends, Ends, Notes

LEMMA MySqlShaped ==
  ASSUME TypeOK, NEW r \in Requests, MySql!Steps(r) \/ MySql!Drop(r)
  PROVE  Shaped(r)
<1> USE MySqlBlocks, Blocks, Types
<1>1. ASSUME MySql!Enter(r) PROVE Shaped(r)
  <2>1. ASSUME MySql!Ends(r, "cancelled", session) \/ MySql!Ends(r, "error", session) PROVE Shaped(r)
    BY <2>1 DEF Answers
  <2>2. ASSUME holder' = r, UNCHANGED <<session, sent, kill>>,
               MySql!Moves(r, IF MySql!IsApply(r) THEN "begin" ELSE "check")
        PROVE  Shaped(r)
    BY <2>2, ZenonT(20) DEF Pcs, Shaped
  <2> QED
    BY <1>1, <2>1, <2>2 DEF MySql!Enter
<1>2. ASSUME MySql!Check(r) PROVE Shaped(r)
  BY <1>2, ZenonT(20) DEF MySql!Check, Pcs, Outcomes
<1>3. ASSUME MySql!Settle(r) PROVE Shaped(r)
  BY <1>3 DEF MySql!Settle, MySql!Heard, Outcomes
<1>4. ASSUME MySql!NoticeCancel(r) PROVE Shaped(r)
  BY <1>4, ZenonT(20) DEF MySql!NoticeCancel, Pcs, Shaped
<1>5. ASSUME MySql!StopQuery(r) PROVE Shaped(r)
  BY <1>5, ZenonT(20) DEF MySql!StopQuery, Pcs, Shaped
<1>6. ASSUME MySql!CleanupTimeout(r) PROVE Shaped(r)
  BY <1>6 DEF MySql!CleanupTimeout, Outcomes
<1>7. ASSUME MySql!EndRun(r) PROVE Shaped(r)
  BY <1>7 DEF MySql!EndRun, Answers
<1>8. ASSUME MySql!Begin(r) PROVE Shaped(r)
  BY <1>8, ZenonT(60) DEF MySql!Begin, Pcs, Sendable, Answers, Shaped
<1>9. ASSUME MySql!NextEdit(r) PROVE Shaped(r)
  <2>1. CASE MySql!Notes(r, "error", session)
    BY <2>1 DEF Outcomes
  <2>2. CASE call[r].step < Edits /\ ~MySql!Notes(r, "error", session)
    BY <1>9, <2>2, ZenonT(20) DEF MySql!NextEdit, Pcs, Shaped
  <2>3. CASE ~(call[r].step < Edits) /\ ~MySql!Notes(r, "error", session)
    BY <1>9, <2>3, ZenonT(20) DEF MySql!NextEdit, Pcs, Shaped, Moves
  <2> QED
    BY <2>1, <2>2, <2>3
<1>10. ASSUME MySql!Undo(r) PROVE Shaped(r)
  BY <1>10, Zenon DEF MySql!Undo, Pcs, Sendable, Answers
<1>11. ASSUME MySql!Undone(r) PROVE Shaped(r)
  BY <1>11 DEF MySql!Undone, Answers
<1>12. ASSUME MySql!Commit(r) PROVE Shaped(r)
  BY <1>12, ZenonT(60) DEF MySql!Commit, Pcs, Sendable, Answers, Outcomes
<1>13. ASSUME MySql!Drop(r) PROVE Shaped(r)
  BY <1>13 DEF MySql!Drop, MySql!Drops, Answers
<1> QED
  BY <1>1, <1>2, <1>3, <1>4, <1>5, <1>6, <1>7, <1>8, <1>9, <1>10, <1>11, <1>12, <1>13 DEF MySql!Steps

-----------------------------------------------------------------------------
(* SQL Server *)

LEMMA MsSqlBlocks ==
  /\ MsSql!Stays <=> Stays
  /\ MsSql!Usable <=> Usable
  /\ MsSql!GivenUp = GivenUp
  /\ \A r : /\ MsSql!Pc(r) = Pc(r) /\ MsSql!Outcome(r) = Outcome(r) /\ MsSql!Reply(r) = Reply(r)
            /\ MsSql!Statement(r) = Statement(r)
            /\ MsSql!IsApply(r) <=> IsApply(r)
            /\ MsSql!Interruptible(r) <=> Interruptible(r)
  /\ \A r, p : MsSql!Moves(r, p) <=> Moves(r, p)
  /\ \A r, s, p : MsSql!Sends(r, s, p) <=> Sends(r, s, p)
  /\ \A r, a, s : MsSql!Ends(r, a, s) <=> Ends(r, a, s)
  /\ \A r, o, s : MsSql!Notes(r, o, s) <=> Notes(r, o, s)
BY DEF MsSql!Stays, MsSql!Usable, MsSql!GivenUp, MsSql!Pc, MsSql!Outcome, MsSql!Reply,
       MsSql!Statement, MsSql!IsApply, MsSql!Interruptible, MsSql!Moves, MsSql!Sends,
       MsSql!Ends, MsSql!Notes, Stays, Usable, GivenUp, Pc, Outcome, Reply, Statement, IsApply,
       Interruptible, Moves, Sends, Ends, Notes

LEMMA MsSqlShaped ==
  ASSUME TypeOK, NEW r \in Requests, MsSql!Steps(r)
  PROVE  Shaped(r)
<1> USE MsSqlBlocks, Blocks, Types
<1>1. ASSUME MsSql!Enter(r) PROVE Shaped(r)
  <2>1. ASSUME MsSql!Ends(r, "cancelled", session) PROVE Shaped(r)
    BY <2>1 DEF Answers
  <2>2. ASSUME holder' = r, UNCHANGED <<session, sent, kill>>,
               MsSql!Moves(r, IF MsSql!Usable THEN "open" ELSE "opening")
        PROVE  Shaped(r)
    BY <2>2, ZenonT(20) DEF Pcs, Shaped
  <2> QED
    BY <1>1, <2>1, <2>2 DEF MsSql!Enter
<1>2. ASSUME MsSql!Open(r) PROVE Shaped(r)
  <2>1. ASSUME session' = "up", MsSql!Moves(r, "open"), UNCHANGED <<holder, sent, kill>> PROVE Shaped(r)
    BY <2>1, Zenon DEF Pcs, Sessions, Shaped
  <2>2. ASSUME MsSql!Ends(r, "cancelled", session) \/ MsSql!Ends(r, "error", session) PROVE Shaped(r)
    BY <2>2 DEF Answers
  <2>3. ASSUME MsSql!Sends(r, "ask", "asking") \/ MsSql!Sends(r, MsSql!Statement(r), "running") PROVE Shaped(r)
    BY <2>3, ZenonT(60) DEF Pcs, Sendable
  <2> QED
    BY <1>2, <2>1, <2>2, <2>3 DEF MsSql!Open
<1>3. ASSUME MsSql!Ask(r) PROVE Shaped(r)
  BY <1>3, ZenonT(60) DEF MsSql!Ask, Pcs, Sendable, Answers
<1>4. ASSUME MsSql!Abort(r) PROVE Shaped(r)
  BY <1>4, ZenonT(20) DEF MsSql!Abort, Pcs, Shaped
<1>5. ASSUME MsSql!Settle(r) PROVE Shaped(r)
  <2>1. ASSUME call[r].step < Edits, call' = [call EXCEPT ![r].step = @ + 1, ![r].pc = "sending"], MsSql!Stays
        PROVE  Shaped(r)
    BY <2>1, Zenon DEF Pcs, Shaped
  <2>2. ASSUME MsSql!Notes(r, "error", session) \/ MsSql!Notes(r, "ok", session) PROVE Shaped(r)
    BY <2>2, Zenon DEF Outcomes
  <2>3. ASSUME MsSql!Sends(r, "work", "running") PROVE Shaped(r)
    BY <2>3, ZenonT(20) DEF Pcs, Sendable
  <2> QED
    BY <1>5, <2>1, <2>2, <2>3 DEF MsSql!Settle
<1>6. ASSUME MsSql!SendNext(r) PROVE Shaped(r)
  BY <1>6, Zenon DEF MsSql!SendNext, Pcs, Sendable
<1>7. ASSUME MsSql!Discard(r) \/ MsSql!EndRun(r) PROVE Shaped(r)
  BY <1>7 DEF MsSql!Discard, MsSql!EndRun, Answers
<1>8. ASSUME MsSql!Commit(r) PROVE Shaped(r)
  BY <1>8, ZenonT(60) DEF MsSql!Commit, Pcs, Sendable, Answers
<1> QED
  BY <1>1, <1>2, <1>3, <1>4, <1>5, <1>6, <1>7, <1>8 DEF MsSql!Steps

-----------------------------------------------------------------------------
(* Oracle *)

LEMMA OracleBlocks ==
  /\ Oracle!Stays <=> Stays
  /\ Oracle!Usable <=> Usable
  /\ Oracle!GivenUp = GivenUp
  /\ \A r : /\ Oracle!Pc(r) = Pc(r) /\ Oracle!Outcome(r) = Outcome(r) /\ Oracle!Reply(r) = Reply(r)
            /\ Oracle!Statement(r) = Statement(r)
            /\ Oracle!IsApply(r) <=> IsApply(r)
            /\ Oracle!Interruptible(r) <=> Interruptible(r)
  /\ \A r, p : Oracle!Moves(r, p) <=> Moves(r, p)
  /\ \A r, s, p : Oracle!Sends(r, s, p) <=> Sends(r, s, p)
  /\ \A r, a, s : Oracle!Ends(r, a, s) <=> Ends(r, a, s)
  /\ \A r, o, s : Oracle!Notes(r, o, s) <=> Notes(r, o, s)
BY DEF Oracle!Stays, Oracle!Usable, Oracle!GivenUp, Oracle!Pc, Oracle!Outcome, Oracle!Reply,
       Oracle!Statement, Oracle!IsApply, Oracle!Interruptible, Oracle!Moves, Oracle!Sends,
       Oracle!Ends, Oracle!Notes, Stays, Usable, GivenUp, Pc, Outcome, Reply, Statement, IsApply,
       Interruptible, Moves, Sends, Ends, Notes

LEMMA OracleShaped ==
  ASSUME TypeOK, NEW r \in Requests, Oracle!Steps(r)
  PROVE  Shaped(r)
<1> USE OracleBlocks, Blocks, Types
<1>1. ASSUME Oracle!Enter(r) PROVE Shaped(r)
  BY <1>1, ZenonT(20) DEF Oracle!Enter, Pcs, Answers, Shaped
<1>2. ASSUME Oracle!Job(r) PROVE Shaped(r)
  <2>1. ASSUME session' = "up", UNCHANGED <<call, holder, sent, kill>> PROVE Shaped(r)
    BY <2>1 DEF Sessions, Shaped
  <2>2. ASSUME Oracle!Ends(r, "cancelled", session) \/ Oracle!Ends(r, "error", session) PROVE Shaped(r)
    BY <2>2 DEF Answers
  <2>3. ASSUME Oracle!Sends(r, Oracle!Statement(r), "running") PROVE Shaped(r)
    BY <2>3, ZenonT(20) DEF Pcs
  <2>4. ASSUME Oracle!Moves(r, "check"), Oracle!Stays PROVE Shaped(r)
    BY <2>4, Zenon DEF Pcs, Shaped
  <2> QED
    BY <1>2, <2>1, <2>2, <2>3, <2>4 DEF Oracle!Job
<1>3. ASSUME Oracle!Ran(r) PROVE Shaped(r)
  BY <1>3, ZenonT(60) DEF Oracle!Ran, Pcs, Sendable, Outcomes
<1>4. ASSUME Oracle!Probe(r) PROVE Shaped(r)
  BY <1>4 DEF Oracle!Probe, Answers
<1>5. \A o \in Outcomes : Oracle!Rollback(r, o) => Shaped(r)
  BY Zenon DEF Oracle!Rollback, Pcs, Shaped
<1>6. ASSUME Oracle!Edit(r) PROVE Shaped(r)
  <2>1. ASSUME Oracle!Stays,
               call' = (IF call[r].step < Edits
                                   THEN [call EXCEPT ![r].pc = "check", ![r].step = @ + 1]
                                   ELSE [call EXCEPT ![r].pc = "decide"])
        PROVE  Shaped(r)
    <3>1. CASE call[r].step < Edits
      BY <2>1, <3>1, ZenonT(20) DEF Pcs, Shaped
    <3>2. CASE ~(call[r].step < Edits)
      BY <2>1, <3>2, Zenon DEF Pcs, Shaped, Moves
    <3> QED
      BY <3>1, <3>2, SMTT(20)
  <2>2. ASSUME Oracle!Rollback(r, "cancelled") \/ Oracle!Rollback(r, "undone") PROVE Shaped(r)
    BY <1>5, <2>2 DEF Outcomes
  <2>3. ASSUME Oracle!Sends(r, "work", "running") PROVE Shaped(r)
    BY <2>3, ZenonT(20) DEF Pcs, Sendable
  <2> QED
    BY <1>6, <2>1, <2>2, <2>3 DEF Oracle!Edit
<1>7. ASSUME Oracle!Undone(r) PROVE Shaped(r)
  <2>1. Outcome(r) \in Outcomes
    BY DEF Outcome, Calls
  <2> QED
    BY <1>7, <2>1 DEF Oracle!Undone, Outcomes
<1>8. ASSUME Oracle!Commit(r) PROVE Shaped(r)
  BY <1>5, <1>8, ZenonT(60) DEF Oracle!Commit, Pcs, Sendable, Outcomes
<1> QED
  BY <1>1, <1>2, <1>3, <1>4, <1>6, <1>7, <1>8 DEF Oracle!Steps

-----------------------------------------------------------------------------
(* DuckDB *)

LEMMA DuckDbBlocks ==
  /\ DuckDb!Stays <=> Stays
  /\ DuckDb!Usable <=> Usable
  /\ DuckDb!GivenUp = GivenUp
  /\ \A r : /\ DuckDb!Pc(r) = Pc(r) /\ DuckDb!Outcome(r) = Outcome(r) /\ DuckDb!Reply(r) = Reply(r)
            /\ DuckDb!Statement(r) = Statement(r)
            /\ DuckDb!IsApply(r) <=> IsApply(r)
            /\ DuckDb!Interruptible(r) <=> Interruptible(r)
  /\ \A r, p : DuckDb!Moves(r, p) <=> Moves(r, p)
  /\ \A r, s, p : DuckDb!Sends(r, s, p) <=> Sends(r, s, p)
  /\ \A r, a, s : DuckDb!Ends(r, a, s) <=> Ends(r, a, s)
  /\ \A r, o, s : DuckDb!Notes(r, o, s) <=> Notes(r, o, s)
BY DEF DuckDb!Stays, DuckDb!Usable, DuckDb!GivenUp, DuckDb!Pc, DuckDb!Outcome, DuckDb!Reply,
       DuckDb!Statement, DuckDb!IsApply, DuckDb!Interruptible, DuckDb!Moves, DuckDb!Sends,
       DuckDb!Ends, DuckDb!Notes, Stays, Usable, GivenUp, Pc, Outcome, Reply, Statement, IsApply,
       Interruptible, Moves, Sends, Ends, Notes

LEMMA DuckDbShaped ==
  ASSUME TypeOK, NEW r \in Requests, DuckDb!Steps(r)
  PROVE  Shaped(r)
<1> USE DuckDbBlocks, Blocks, Types
<1>1. \A s \in Sendable, p \in Pcs : DuckDb!Starts(r, s, p) => Shaped(r)
  <2> SUFFICES ASSUME NEW s \in Sendable, NEW p \in Pcs, DuckDb!Starts(r, s, p) PROVE Shaped(r)
    OBVIOUS
  <2>1. [what |-> s, reply |-> "none"] \in Wires
    BY DEF Wires, Replies
  <2>2. Keeps(r)
    BY <2>1 DEF DuckDb!Starts, Keeps
  <2> QED
    BY <2>2 DEF DuckDb!Starts, Shaped
<1>2. ASSUME DuckDb!GiveUp(r) PROVE Shaped(r)
  <2>1. [call[r] EXCEPT !.pc = "orphan", !.answer = "cancelled"] \in Calls
    BY ZenonT(60) DEF Calls, Pcs, Answers
  <2> QED
    BY <1>2, <2>1, ZenonT(60) DEF DuckDb!GiveUp, Shaped, Turns
<1>3. ASSUME DuckDb!Watch(r) PROVE Shaped(r)
  BY <1>3 DEF DuckDb!Watch, Shaped
<1>4. ASSUME DuckDb!Acquire(r) PROVE Shaped(r)
  BY <1>4, ZenonT(20) DEF DuckDb!Acquire, Pcs, Answers, Shaped
<1>5. ASSUME DuckDb!Run(r) PROVE Shaped(r)
  BY <1>1, <1>5, ZenonT(60) DEF DuckDb!Run, DuckDb!Hears, Pcs, Answers
<1>6. ASSUME DuckDb!Begin(r) PROVE Shaped(r)
  BY <1>1, <1>6, ZenonT(60) DEF DuckDb!Begin, DuckDb!Hears, Pcs, Sendable, Answers, Shaped
<1>7. ASSUME DuckDb!Edit(r) PROVE Shaped(r)
  <2>1. ASSUME DuckDb!Stays,
               call' = (IF call[r].step < Edits
                                   THEN [call EXCEPT ![r].pc = "check", ![r].step = @ + 1]
                                   ELSE [call EXCEPT ![r].pc = "decide"])
        PROVE  Shaped(r)
    <3>1. CASE call[r].step < Edits
      BY <2>1, <3>1, ZenonT(20) DEF Pcs, Shaped
    <3>2. CASE ~(call[r].step < Edits)
      BY <2>1, <3>2 DEF Pcs, Shaped, Moves
    <3> QED
      BY <3>1, <3>2
  <2>2. ASSUME DuckDb!Starts(r, "rollback", "undoing") \/ DuckDb!Starts(r, "work", "running") PROVE Shaped(r)
    BY <1>1, <2>2, Zenon DEF Pcs, Sendable
  <2> QED
    BY <1>7, <2>1, <2>2 DEF DuckDb!Edit
<1>8. ASSUME DuckDb!Undone(r) PROVE Shaped(r)
  BY <1>8 DEF DuckDb!Undone, DuckDb!Hears, Answers
<1>9. ASSUME DuckDb!Commit(r) PROVE Shaped(r)
  BY <1>1, <1>9, ZenonT(60) DEF DuckDb!Commit, Pcs, Sendable, Answers
<1> QED
  BY <1>2, <1>3, <1>4, <1>5, <1>6, <1>7, <1>8, <1>9 DEF DuckDb!Steps, DuckDb!Job

-----------------------------------------------------------------------------
(* The stores *)

LEMMA StoresBlocks ==
  /\ Stores!Stays <=> Stays
  /\ Stores!Usable <=> Usable
  /\ Stores!GivenUp = GivenUp
  /\ \A r : /\ Stores!Pc(r) = Pc(r) /\ Stores!Outcome(r) = Outcome(r) /\ Stores!Reply(r) = Reply(r)
            /\ Stores!Statement(r) = Statement(r)
            /\ Stores!IsApply(r) <=> IsApply(r)
            /\ Stores!Interruptible(r) <=> Interruptible(r)
  /\ \A r, p : Stores!Moves(r, p) <=> Moves(r, p)
  /\ \A r, s, p : Stores!Sends(r, s, p) <=> Sends(r, s, p)
  /\ \A r, a, s : Stores!Ends(r, a, s) <=> Ends(r, a, s)
  /\ \A r, o, s : Stores!Notes(r, o, s) <=> Notes(r, o, s)
BY DEF Stores!Stays, Stores!Usable, Stores!GivenUp, Stores!Pc, Stores!Outcome, Stores!Reply,
       Stores!Statement, Stores!IsApply, Stores!Interruptible, Stores!Moves, Stores!Sends,
       Stores!Ends, Stores!Notes, Stays, Usable, GivenUp, Pc, Outcome, Reply, Statement, IsApply,
       Interruptible, Moves, Sends, Ends, Notes

LEMMA StoresShaped ==
  ASSUME TypeOK, NEW r \in Requests, Stores!Steps(r)
  PROVE  Shaped(r)
<1> USE StoresBlocks, Blocks, Types
<1>1. ASSUME Stores!SurrealRun(r) \/ Stores!SurrealApply(r) PROVE Shaped(r)
  <2>1. ASSUME holder' = r, Stores!Moves(r, "task"), UNCHANGED <<session, sent, kill>> PROVE Shaped(r)
    BY <2>1, Zenon DEF Pcs, Shaped
  <2>2. \A a \in {"ok", "cancelled", "error", "undone"} : Stores!Ends(r, a, session) => Shaped(r)
    BY DEF Answers
  <2>3. Stores!Sends(r, "batch", "running") \/ Stores!Sends(r, Stores!Statement(r), "running") => Shaped(r)
    BY ZenonT(60) DEF Pcs, Sendable
  <2>4. CASE Stores!SurrealRun(r)
    <3>1. \A s : s = (IF Stores!IsApply(r) THEN "batch" ELSE Stores!Statement(r)) =>
            s = "batch" \/ s = Stores!Statement(r)
      OBVIOUS
    <3> QED
      BY <2>1, <2>2, <2>3, <2>4, <3>1 DEF Stores!SurrealRun
  <2>5. CASE Stores!SurrealApply(r)
    BY <2>2, <2>5 DEF Stores!SurrealApply
  <2> QED
    BY <1>1, <2>4, <2>5
<1>2. Stores!Kills(r) => Shaped(r)
  BY ZenonT(20) DEF Stores!Kills, Pcs, Shaped
<1>3. ASSUME Stores!MongoRun(r) \/ Stores!ClickHouseRun(r) \/ Stores!RedisRun(r) \/ Stores!ScyllaRun(r)
      PROVE  Shaped(r)
  <2>1. Stores!Sends(r, Stores!Statement(r), "running") => Shaped(r)
    BY Zenon DEF Pcs
  <2>2. \A a \in {"ok", "cancelled", "error"} : Stores!Ends(r, a, session) => Shaped(r)
    BY DEF Answers
  <2> QED
    BY <1>2, <1>3, <2>1, <2>2
    DEF Stores!MongoRun, Stores!ClickHouseRun, Stores!RedisRun, Stores!ScyllaRun, Stores!Races
<1>4. ASSUME Stores!MongoKill(r) \/ Stores!ClickHouseKill(r) \/ Stores!ClickHouseApply(r) PROVE Shaped(r)
  BY <1>4 DEF Stores!MongoKill, Stores!ClickHouseKill, Stores!ClickHouseApply, Answers
<1>5. ASSUME Stores!RedisApply(r) PROVE Shaped(r)
  BY <1>5, ZenonT(60) DEF Stores!RedisApply, Pcs, Sendable, Answers
<1>6. ASSUME Stores!InTurn(r) PROVE Shaped(r)
  <2>1. ASSUME call[r].step # Edits, call' = [call EXCEPT ![r].pc = "turn", ![r].step = @ + 1], Stores!Stays
        PROVE  Shaped(r)
    <3>1. call[r].step < Edits
      BY <2>1, SessionConstants DEF Calls
    <3> QED
      BY <2>1, <3>1, Zenon DEF Pcs, Shaped
  <2>2. \A a \in Answers : Stores!Ends(r, a, session) => Shaped(r)
    OBVIOUS
  <2>3. Stores!Sends(r, "work", "waiting") => Shaped(r)
    BY ZenonT(20) DEF Pcs, Sendable
  <2> QED
    BY <1>6, <2>1, <2>2, <2>3 DEF Stores!InTurn, Stores!CancelledAfter, Answers
<1>7. ASSUME Stores!ScyllaApply(r) PROVE Shaped(r)
  BY <1>7, Zenon DEF Stores!ScyllaApply, Pcs, Shaped
<1>8. ASSUME Stores!MongoCancel(r) PROVE Shaped(r)
  BY <1>8, ZenonT(60) DEF Stores!MongoCancel, Pcs, Sendable, Answers
<1>9. ASSUME Stores!MongoApply(r) PROVE Shaped(r)
  <2>1. ASSUME Stores!Stays,
               call' = (IF call[r].step < Edits
                                   THEN [call EXCEPT ![r].pc = "check", ![r].step = @ + 1]
                                   ELSE [call EXCEPT ![r].pc = "decide"])
        PROVE  Shaped(r)
    <3>1. CASE call[r].step < Edits
      BY <2>1, <3>1, ZenonT(20) DEF Pcs, Shaped
    <3>2. CASE ~(call[r].step < Edits)
      BY <2>1, <3>2 DEF Pcs, Shaped, Moves
    <3> QED
      BY <3>1, <3>2
  <2>2. ASSUME call' = [call EXCEPT ![r].pc = "killing", ![r].outcome = "cancelled"],
               kill' = kill \cup {r}, UNCHANGED <<holder, session, sent>>
        PROVE  Shaped(r)
    BY <2>2, ZenonT(20) DEF Pcs, Outcomes, Shaped
  <2>3. ASSUME call' = [call EXCEPT ![r].pc = "abort", ![r].outcome = "undone"], Stores!Stays PROVE Shaped(r)
    BY <2>3, ZenonT(20) DEF Pcs, Outcomes, Shaped
  <2>4. Stores!Stays /\ (Stores!Moves(r, "check") \/ Stores!Moves(r, "turn")) => Shaped(r)
    BY ZenonT(20) DEF Pcs, Shaped
  <2>5. Stores!Ends(r, "cancelled", session) => Shaped(r)
    BY DEF Answers
  <2>6. Stores!Sends(r, "stage", "staging") \/ Stores!Sends(r, "discard", "aborting") => Shaped(r)
    BY ZenonT(20) DEF Pcs, Sendable
  <2> QED
    BY <1>9, <2>1, <2>2, <2>3, <2>4, <2>5, <2>6 DEF Stores!MongoApply
<1>10. ASSUME Stores!MongoCommit(r) PROVE Shaped(r)
  BY <1>10, ZenonT(60) DEF Stores!MongoCommit, Pcs, Sendable, Outcomes, Answers, Shaped
<1> QED
  BY <1>1, <1>3, <1>4, <1>5, <1>6, <1>7, <1>8, <1>9, <1>10 DEF Stores!Steps

-----------------------------------------------------------------------------
(* The types of all of them *)

LEMMA DriverShaped ==
  ASSUME TypeOK, NEW r \in Requests, Steps(r) \/ Drop(r)
  PROVE  Shaped(r)
BY PostgresShaped, MySqlShaped, MsSqlShaped, OracleShaped, DuckDbShaped, StoresShaped DEF Steps, Drop

Writes == (Requests \X (1..Edits)) \cup {Users}
DbTyped == tx' \in {"none", "open", "nested", "aborted"} /\ pending' \cup durable' \subseteq Writes

\* A step on a request's call and wire, or on neither, leaves the types.
LEMMA ShapedTyped ==
  ASSUME TypeOK, NEW r \in Requests, Shaped(r), DbTyped, UNCHANGED choice, token' \subseteq Requests
  PROVE  TypeOK'
<1>1. PICK c \in Calls : call' = [call EXCEPT ![r] = c]
  BY DEF Shaped, Turns
<1>2. PICK m \in Wires : sent' = [sent EXCEPT ![r] = m]
  BY DEF Shaped, Keeps
<1>3. call' \in [Requests -> Calls] /\ sent' \in [Requests -> Wires]
  BY <1>1, <1>2, Types
<1>4. /\ sent' \in [Requests -> [what : Sendable, reply : Replies]]
      /\ \A q \in Requests : sent'[q].what = "none" \/ sent'[q].reply = "none"
  BY <1>3 DEF Wires
<1> QED
  BY <1>3, <1>4 DEF TypeOK, Shaped, Keeps, Calls, Sessions, DbTyped, Writes, choice

\* What the server executes writes what the review asked for.
LEMMA ServedTyped ==
  ASSUME TypeOK, NEW r \in Requests
  PROVE  /\ UNCHANGED db => DbTyped
         /\ \A s : TakesEffect(r, s) => DbTyped
         /\ Aborts => DbTyped
         /\ RollsBack => DbTyped
         /\ \A w \in SUBSET Whole(r) : durable' = durable \cup w /\ UNCHANGED <<tx, pending>> => DbTyped
<1>1. /\ tx \in {"none", "open", "nested", "aborted"} /\ pending \subseteq Writes /\ durable \subseteq Writes
      /\ Whole(r) \subseteq Writes
  BY DEF TypeOK, Writes, Whole
<1>2. Write(r) \in Writes
  BY Types DEF Write, Writes, Calls
<1>3. Own(r) \subseteq pending
  BY DEF Own
<1>4. UNCHANGED db => DbTyped
  BY <1>1 DEF db, DbTyped
<1>5. Aborts => DbTyped
  BY <1>1, <1>4 DEF Aborts, DbTyped
<1>6. RollsBack => DbTyped
  BY <1>1 DEF RollsBack, DbTyped
<1>7. ASSUME NEW s, TakesEffect(r, s) PROVE DbTyped
  <2>1. Changes(r) => DbTyped
    BY <1>1, <1>2 DEF Changes, DbTyped
  <2>2. Begins => DbTyped
    BY <1>1, <1>4 DEF Begins, DbTyped
  <2>3. Commits => DbTyped
    BY <1>1 DEF Commits, DbTyped
  <2>4. pending' = pending \cup {Write(r)} /\ UNCHANGED <<tx, durable>> => DbTyped
    BY <1>1, <1>2 DEF DbTyped
  <2>5. durable' = durable \cup Own(r) /\ pending' = pending \ Own(r) /\ UNCHANGED tx => DbTyped
    BY <1>1, <1>3 DEF DbTyped
  <2>6. pending' = pending \ Own(r) /\ UNCHANGED <<tx, durable>> => DbTyped
    BY <1>1 DEF DbTyped
  <2>7. durable' = durable \cup Whole(r) /\ UNCHANGED <<tx, pending>> => DbTyped
    BY <1>1 DEF DbTyped
  <2> QED
    BY <1>4, <1>6, <1>7, <2>1, <2>2, <2>3, <2>4, <2>5, <2>6, <2>7 DEF TakesEffect
<1>8. \A w \in SUBSET Whole(r) : durable' = durable \cup w /\ UNCHANGED <<tx, pending>> => DbTyped
  BY <1>1 DEF DbTyped
<1> QED
  BY <1>4, <1>5, <1>6, <1>7, <1>8

LEMMA RepliedShaped ==
  ASSUME TypeOK, NEW r \in Requests, NEW o \in Replies, Replied(r, o), UNCHANGED <<call, holder, session>>,
         kill' \subseteq Requests
  PROVE  Shaped(r)
<1>1. [what |-> "none", reply |-> o] \in Wires
  BY DEF Wires, Sendable
<1>2. Turns(r)
  BY Blocks
<1> QED
  BY <1>1, <1>2, Types DEF Replied, Shaped, Keeps

LEMMA ServerTyped ==
  ASSUME TypeOK, Server
  PROVE  TypeOK'
<1>1. ASSUME NEW r \in Requests, Serves(r) PROVE TypeOK'
  <2>1. Shaped(r) /\ DbTyped
    BY <1>1, RepliedShaped, ServedTyped, Types DEF Serves, Replies
  <2> QED
    BY <1>1, <2>1, ShapedTyped DEF Serves, TypeOK
<1>2. ASSUME NEW r \in Requests, Refuses(r) PROVE TypeOK'
  <2>1. PICK o \in Replies : Replied(r, o)
    BY <1>2 DEF Refuses, Replies
  <2>2. Shaped(r)
    BY <1>2, <2>1, RepliedShaped, Types DEF Refuses
  <2>3. DbTyped
    BY <1>2, ServedTyped DEF Refuses
  <2> QED
    BY <1>2, <2>2, <2>3, ShapedTyped DEF Refuses, TypeOK
<1>3. ASSUME NEW r \in Requests, ServesSome(r) PROVE TypeOK'
  <2>1. Shaped(r)
    BY <1>3, RepliedShaped, Types DEF ServesSome, Replies
  <2>2. DbTyped
    BY <1>3, ServedTyped DEF ServesSome
  <2> QED
    BY <1>3, <2>1, <2>2, ShapedTyped DEF ServesSome, TypeOK
<1>4. ASSUME NEW k \in kill, KillArrives(k) PROVE TypeOK'
  <2>1. k \in Requests /\ kill' \subseteq Requests
    BY <1>4 DEF TypeOK, KillArrives
  <2>2. CASE Struck(k) # {}
    <3>1. PICK r \in Struck(k) : Replied(r, "killed") /\ Aborts
      BY <1>4, <2>2 DEF KillArrives
    <3>2. r \in Requests
      BY DEF Struck
    <3>3. Shaped(r) /\ DbTyped
      BY <1>4, <2>1, <3>1, <3>2, RepliedShaped, ServedTyped DEF KillArrives, Replies
    <3> QED
      BY <1>4, <3>2, <3>3, ShapedTyped DEF KillArrives, TypeOK
  <2>3. CASE Struck(k) = {}
    <3>1. Turns(k) /\ DbTyped
      BY <1>4, <2>1, <2>3, Blocks, ServedTyped DEF KillArrives
    <3>2. Keeps(k)
      <4>1. sent' = [sent EXCEPT ![k] = sent[k]] /\ sent[k] \in Wires
        BY <1>4, <2>1, <2>3, Types DEF KillArrives
      <4> QED
        BY <1>4, <2>1, <4>1, Types DEF KillArrives, Keeps
    <3> QED
      BY <1>4, <2>1, <3>1, <3>2, ShapedTyped DEF KillArrives, TypeOK, Shaped
  <2> QED
    BY <2>2, <2>3
<1>5. ASSUME Breaks PROVE TypeOK'
  <2>1. durable' \subseteq Writes
    <3>1. /\ durable \subseteq Writes /\ pending \subseteq Writes
          /\ \A r \in Requests : Write(r) \in Writes /\ Own(r) \subseteq Writes /\ Whole(r) \subseteq Writes
      BY Types DEF TypeOK, Writes, Write, Own, Whole, Calls
    <3> QED
      BY <1>5, <3>1 DEF Breaks
  <2>2. \A r \in Requests : sent'[r] = IF sent[r].what = "none" THEN sent[r] ELSE [what |-> "none", reply |-> "lost"]
    BY <1>5 DEF Breaks
  <2>3. \A r \in Requests : sent[r] \in Wires /\ sent'[r] \in Wires
    BY <2>2, Types DEF Wires, Sendable, Replies
  <2>4. sent' \in [Requests -> Wires]
    BY <1>5, <2>3 DEF Breaks
  <2>5. /\ sent' \in [Requests -> [what : Sendable, reply : Replies]]
        /\ \A r \in Requests : sent'[r].what = "none" \/ sent'[r].reply = "none"
    BY <2>4 DEF Wires
  <2> QED
    BY <1>5, <2>1, <2>5 DEF Breaks, TypeOK, Writes, choice
<1> QED
  BY <1>1, <1>2, <1>3, <1>4, <1>5 DEF Server

\* The types of the state hold for all adapters, requests and lengths of a review.
THEOREM Typing == Spec => []TypeOK
<1>1. Init => TypeOK
  <2> SUFFICES ASSUME Init PROVE TypeOK
    OBVIOUS
  <2>1. [pc |-> "idle", step |-> 1, outcome |-> "none", answer |-> "none"]
           \in [pc : Pcs, step : 1..Edits, outcome : Outcomes, answer : Answers]
    BY SessionConstants DEF Pcs, Outcomes, Answers
  <2>2. Nothing \in [what : Sendable, reply : Replies]
    BY DEF Nothing, Sendable, Replies
  <2>3. \A r \in Requests : sent[r].what = "none"
    BY DEF Init, Nothing
  <2> QED
    BY <2>1, <2>2, <2>3 DEF Init, TypeOK
<1>2. TypeOK /\ [Next]_vars => TypeOK'
  <2> SUFFICES ASSUME TypeOK, [Next]_vars PROVE TypeOK'
    OBVIOUS
  <2>1. ASSUME NEW r \in Requests, Call(r) PROVE TypeOK'
    <3>1. Shaped(r) /\ DbTyped
      BY <2>1, Blocks, ServedTyped, Zenon DEF Call, Shaped, Pcs
    <3> QED
      BY <2>1, <3>1, ShapedTyped, SMTT(20) DEF Call, TypeOK
  <2>2. ASSUME NEW r \in Requests, Cancel(r) PROVE TypeOK'
    BY <2>2 DEF Cancel, TypeOK, choice, driver, db
  <2>3. ASSUME NEW r \in Requests, Local(Steps(r)) \/ Local(Drop(r)) PROVE TypeOK'
    <3>1. Shaped(r) /\ DbTyped
      BY <2>3, DriverShaped, ServedTyped DEF Local
    <3> QED
      BY <2>3, <3>1, ShapedTyped DEF Local, TypeOK
  <2>4. ASSUME UNCHANGED vars PROVE TypeOK'
    BY <2>4 DEF vars, choice, driver, db, TypeOK
  <2> QED
    BY <2>1, <2>2, <2>3, <2>4, ServerTyped DEF Next
<1> QED
  BY <1>1, <1>2, PTL DEF Spec

-----------------------------------------------------------------------------
(* A kill meets only its own statement *)

\* The adapters that take a lock for their one session, and those of them whose kill
\* stops what the session executes, whoever's it is.
Locking == {"postgres", "mysql", "mssql", "oracle", "duckdb"}
Wired == {"postgres", "mysql", "duckdb"}

\* Only the request that holds the lock is past waiting for it, and where only a review
\* can be, a review is.
Outside == {"idle", "wait", "orphan", "returned"}
Reviewing == {"begin", "beginning", "asking", "sending", "decide"}
             \cup (IF adapter \in {"oracle", "duckdb"} THEN {"check"} ELSE {})
LockOK == adapter \in Locking =>
  \A r \in Requests : /\ Pc(r) \notin Outside => holder = r
                      /\ Pc(r) \in Reviewing => IsApply(r)

\* What a session in use executes is what its request waits for; one that is gone
\* executes nothing.
Executing == IF adapter = "duckdb" THEN {"running"}
             ELSE {"running", "finishing", "stopping", "stopped", "draining", "quitting"}
Executes(r, p, s) ==
  \/ p \in Executing /\ s = Statement(r)
  \/ p = "beginning" /\ s = "begin"
  \/ p = "undoing" /\ s = "rollback"
  \/ p = "committing" /\ s = "commit"
  \/ adapter = "mssql" /\ p = "asking" /\ s = "ask"
  \/ adapter = "mssql" /\ p = "attention" /\ s \in {"begin", Statement(r)}
  \/ adapter = "oracle" /\ p = "settling" /\ s = "commit"
  \/ adapter = "oracle" /\ p = "retrying" /\ s = "read"
WireOK ==
  adapter \in Locking =>
    /\ session = "up" => \A r \in Requests : sent[r].what # "none" => Executes(r, Pc(r), sent[r].what)
    /\ session \in {"broken", "down"} => \A r \in Requests : sent[r].what = "none"

\* A kill on its way is that of the request being stopped, or finds nothing to stop.
KillOK ==
  /\ adapter \notin Wired \cup Tagging => kill = {}
  /\ adapter \in {"postgres", "mysql"} /\ session = "up" =>
       \A k \in kill : Pc(k) \in {"stopping", "quitting"} /\ Interruptible(k)
  /\ adapter = "duckdb" =>
       /\ session = "up"
       /\ \A r \in Requests : Pc(r) = "running" => Statement(r) # "commit"
       /\ \A k \in kill, r \in Requests : sent[r].what # "none" =>
            r = k /\ Pc(r) \in {"running", "beginning"}

KillInv == LockOK /\ WireOK /\ KillOK

\* What the building blocks do to the request whose step it is.
LEMMA Effects ==
  ASSUME TypeOK, NEW r \in Requests
  PROVE  /\ \A p : Moves(r, p) => call'[r].pc = p
         /\ \A s, p : Sends(r, s, p) =>
              /\ call'[r].pc = p /\ UNCHANGED <<holder, session, kill>>
              /\ session = "up" => sent'[r].what = s
              /\ session # "up" => sent'[r].what = "none"
         /\ \A a, s : Ends(r, a, s) =>
              /\ call'[r].pc = "returned" /\ session' = s /\ UNCHANGED <<sent, kill>>
              /\ holder' = IF holder = r THEN None ELSE holder
         /\ \A o, s : Notes(r, o, s) =>
              call'[r].pc = "done" /\ session' = s /\ UNCHANGED <<holder, sent, kill>>
<1>1. /\ call \in [Requests -> Calls] /\ sent \in [Requests -> Wires] /\ call[r] \in Calls
  BY Types
<1>2. \A p : Moves(r, p) => call'[r].pc = p
  BY <1>1 DEF Moves, Calls
<1>3. ASSUME NEW s, NEW p, Sends(r, s, p)
      PROVE  /\ call'[r].pc = p /\ UNCHANGED <<holder, session, kill>>
             /\ session = "up" => sent'[r].what = s
             /\ session # "up" => sent'[r].what = "none"
  BY <1>1, <1>2, <1>3 DEF Sends
<1>4. ASSUME NEW a, NEW s, Ends(r, a, s)
      PROVE  /\ call'[r].pc = "returned" /\ session' = s /\ UNCHANGED <<sent, kill>>
             /\ holder' = IF holder = r THEN None ELSE holder
  BY <1>1, <1>4 DEF Ends, Calls
<1>5. ASSUME NEW o, NEW s, Notes(r, o, s)
      PROVE  call'[r].pc = "done" /\ session' = s /\ UNCHANGED <<holder, sent, kill>>
  BY <1>1, <1>5 DEF Notes, Calls
<1> QED
  BY <1>2, <1>3, <1>4, <1>5

\* A step that leaves the lock and the wire as the invariant has them.
Safe(r) ==
  /\ call'[r].pc \notin Outside => holder' = r
  /\ call'[r].pc \in Reviewing => IsApply(r)
  /\ holder' = holder \/ holder \in {None, r}
  /\ session' = "up" => session = "up" \/ (session = "down" /\ Pc(r) \notin Outside)
  /\ session' \in {"broken", "down"} => session \in {"broken", "down"}
  /\ session' = "up" /\ sent'[r].what # "none" => Executes(r, call'[r].pc, sent'[r].what)
  /\ session \in {"broken", "down"} => sent'[r].what = "none"
  /\ sent[r].what = "none" /\ sent'[r].what # "none" => session = "up" /\ session' = "up"

\* A step that asks for a kill only of its own statement, while it waits for it.
Stops(r) ==
  session' = "up" =>
    session = "up" /\ kill' \subseteq kill \cup {r} /\ (r \in kill' => call'[r].pc \in {"stopping", "quitting"} /\ Interruptible(r))

LEMMA PostgresSafe ==
  ASSUME TypeOK, KillInv, adapter = "postgres", NEW r \in Requests, Postgres!Steps(r) \/ Postgres!Drop(r)
  PROVE  Safe(r) /\ Stops(r)
<1> DEFINE Good == Safe(r) /\ Stops(r)
<1>1. /\ Pc(r) \notin Outside => holder = r
      /\ Pc(r) \in Reviewing => IsApply(r)
      /\ session = "up" /\ sent[r].what # "none" => Executes(r, Pc(r), sent[r].what)
      /\ session = "up" /\ r \in kill => Pc(r) \in {"stopping", "quitting"} /\ Interruptible(r)
      /\ r # None /\ call[r].pc = Pc(r) /\ sent[r].reply = Reply(r)
      /\ Reply(r) # "none" => sent[r].what = "none"
      /\ GivenUp # "up" /\ (Usable /\ session # "up" => session = "broken")
      /\ GivenUp \in {"broken", "down"} => session \in {"broken", "down"}
      /\ session \in {"broken", "down"} => sent[r].what = "none"
  BY Types, SessionConstants DEF KillInv, LockOK, WireOK, KillOK, Locking, Requests, Pc, Reply, Wires, GivenUp, Usable, Sessions
<1>2. /\ Executing = {"running", "finishing", "stopping", "stopped", "draining", "quitting"}
      /\ Reviewing = {"begin", "beginning", "asking", "sending", "decide"}
                     \cup (IF adapter \in {"oracle", "duckdb"} THEN {"check"} ELSE {})
  BY DEF Executing, Reviewing
<1> USE PostgresBlocks, Effects, <1>1, <1>2 DEF Safe, Stops, Outside, Executes
<1>3. ASSUME Postgres!Enter(r) PROVE Good
  BY <1>3 DEF Postgres!Enter
<1>4. ASSUME Postgres!Check(r) PROVE Good
  BY <1>4 DEF Postgres!Check
<1>5. ASSUME Postgres!Settle(r) PROVE Good
  BY <1>5 DEF Postgres!Settle
<1>6. ASSUME Postgres!NoticeCancel(r) PROVE Good
  BY <1>6 DEF Postgres!NoticeCancel, Stays
<1>7. ASSUME Postgres!StopQuery(r) PROVE Good
  BY <1>7 DEF Postgres!StopQuery, Postgres!Acknowledged, Stays
<1>8. ASSUME Postgres!Drain(r) \/ Postgres!CleanupTimeout(r) PROVE Good
  BY <1>8 DEF Postgres!Drain, Postgres!CleanupTimeout
<1>9. ASSUME Postgres!EndRun(r) PROVE Good
  BY <1>9 DEF Postgres!EndRun
<1>10. ASSUME Postgres!Begin(r) PROVE Good
  BY <1>10 DEF Postgres!Begin, Stays
<1>11. ASSUME Postgres!NextEdit(r) PROVE Good
  BY <1>11 DEF Postgres!NextEdit, Stays
<1>12. ASSUME Postgres!Undo(r) PROVE Good
  BY <1>12 DEF Postgres!Undo
<1>13. ASSUME Postgres!Undone(r) PROVE Good
  BY <1>13 DEF Postgres!Undone
<1>14. ASSUME Postgres!Commit(r) PROVE Good
  <2>1. CASE Postgres!Pc(r) = "decide" /\ r \in token
    <3>1. call'[r].pc = "undoing"
      BY <1>14, <2>1, Types DEF Postgres!Commit, Calls
    <3>2. sent'[r].what = IF session = "up" THEN "rollback" ELSE "none"
      BY <1>14, <2>1, Types DEF Postgres!Commit, Wires
    <3> QED
      BY <1>14, <2>1, <3>1, <3>2 DEF Postgres!Commit
  <2>2. CASE Postgres!Pc(r) = "decide" /\ r \notin token
    BY <1>14, <2>2 DEF Postgres!Commit
  <2>3. CASE Postgres!Pc(r) = "committing"
    BY <1>14, <2>3 DEF Postgres!Commit
  <2> QED
    BY <1>14, <2>1, <2>2, <2>3 DEF Postgres!Commit
<1>15. ASSUME Postgres!Drop(r) PROVE Good
  BY <1>15 DEF Postgres!Drop, Postgres!Drops
<1> QED
  BY <1>3, <1>4, <1>5, <1>6, <1>7, <1>8, <1>9, <1>10, <1>11, <1>12, <1>13, <1>14, <1>15 DEF Postgres!Steps

LEMMA MySqlSafe ==
  ASSUME TypeOK, KillInv, adapter = "mysql", NEW r \in Requests, MySql!Steps(r) \/ MySql!Drop(r)
  PROVE  Safe(r) /\ Stops(r)
<1> DEFINE Good == Safe(r) /\ Stops(r)
<1>1. /\ Pc(r) \notin Outside => holder = r
      /\ Pc(r) \in Reviewing => IsApply(r)
      /\ session = "up" /\ sent[r].what # "none" => Executes(r, Pc(r), sent[r].what)
      /\ session = "up" /\ r \in kill => Pc(r) \in {"stopping", "quitting"} /\ Interruptible(r)
      /\ r # None /\ call[r].pc = Pc(r) /\ sent[r].reply = Reply(r)
      /\ Reply(r) # "none" => sent[r].what = "none"
      /\ GivenUp # "up" /\ (Usable /\ session # "up" => session = "broken")
      /\ GivenUp \in {"broken", "down"} => session \in {"broken", "down"}
      /\ session \in {"broken", "down"} => sent[r].what = "none"
  BY Types, SessionConstants DEF KillInv, LockOK, WireOK, KillOK, Locking, Requests, Pc, Reply, Wires, GivenUp, Usable, Sessions
<1>2. /\ Executing = {"running", "finishing", "stopping", "stopped", "draining", "quitting"}
      /\ Reviewing = {"begin", "beginning", "asking", "sending", "decide"}
                     \cup (IF adapter \in {"oracle", "duckdb"} THEN {"check"} ELSE {})
  BY DEF Executing, Reviewing
<1> USE MySqlBlocks, Effects, <1>1, <1>2 DEF Safe, Stops, Outside, Executes
<1>3. ASSUME MySql!Enter(r) PROVE Good
  BY <1>3 DEF MySql!Enter
<1>4. ASSUME MySql!Check(r) PROVE Good
  BY <1>4 DEF MySql!Check
<1>5. ASSUME MySql!Settle(r) PROVE Good
  BY <1>5 DEF MySql!Settle
<1>6. ASSUME MySql!NoticeCancel(r) PROVE Good
  BY <1>6 DEF MySql!NoticeCancel, Stays
<1>7. ASSUME MySql!StopQuery(r) PROVE Good
  BY <1>7 DEF MySql!StopQuery, Stays
<1>8. ASSUME MySql!CleanupTimeout(r) PROVE Good
  BY <1>8 DEF MySql!CleanupTimeout
<1>9. ASSUME MySql!EndRun(r) PROVE Good
  BY <1>9 DEF MySql!EndRun
<1>10. ASSUME MySql!Begin(r) PROVE Good
  BY <1>10 DEF MySql!Begin, Stays
<1>11. ASSUME MySql!NextEdit(r) PROVE Good
  BY <1>11 DEF MySql!NextEdit, Stays
<1>12. ASSUME MySql!Undo(r) PROVE Good
  BY <1>12 DEF MySql!Undo
<1>13. ASSUME MySql!Undone(r) PROVE Good
  BY <1>13 DEF MySql!Undone
<1>14. ASSUME MySql!Commit(r) PROVE Good
  BY <1>14 DEF MySql!Commit
<1>15. ASSUME MySql!Drop(r) PROVE Good
  BY <1>15 DEF MySql!Drop, MySql!Drops
<1> QED
  BY <1>3, <1>4, <1>5, <1>6, <1>7, <1>8, <1>9, <1>10, <1>11, <1>12, <1>13, <1>14, <1>15 DEF MySql!Steps

LEMMA MsSqlSafe ==
  ASSUME TypeOK, KillInv, adapter = "mssql", NEW r \in Requests, MsSql!Steps(r)
  PROVE  Safe(r)
<1> DEFINE Good == Safe(r)
<1>1. /\ Pc(r) \notin Outside => holder = r
      /\ Pc(r) \in Reviewing => IsApply(r)
      /\ session = "up" /\ sent[r].what # "none" => Executes(r, Pc(r), sent[r].what)
      /\ r # None /\ call[r].pc = Pc(r) /\ sent[r].reply = Reply(r)
      /\ IsApply(r) => Statement(r) = "work"
      /\ Reply(r) # "none" => sent[r].what = "none"
      /\ GivenUp # "up" /\ (Usable /\ session # "up" => session = "broken")
      /\ GivenUp \in {"broken", "down"} => session \in {"broken", "down"}
      /\ session \in {"broken", "down"} => sent[r].what = "none"
  BY Types, SessionConstants DEF KillInv, LockOK, WireOK, Locking, Requests, Pc, Reply, Statement, Wires, GivenUp, Usable, Sessions
<1>2. /\ Executing = {"running", "finishing", "stopping", "stopped", "draining", "quitting"}
      /\ Reviewing = {"begin", "beginning", "asking", "sending", "decide"}
                     \cup (IF adapter \in {"oracle", "duckdb"} THEN {"check"} ELSE {})
  BY DEF Executing, Reviewing
<1> USE MsSqlBlocks, Effects, <1>1, <1>2 DEF Safe, Outside, Executes
<1>3. ASSUME MsSql!Enter(r) PROVE Good
  BY <1>3 DEF MsSql!Enter
<1>4. ASSUME MsSql!Open(r) PROVE Good
  BY <1>4 DEF MsSql!Open
<1>5. ASSUME MsSql!Ask(r) PROVE Good
  BY <1>5 DEF MsSql!Ask
<1>6. ASSUME MsSql!Abort(r) PROVE Good
  BY <1>6 DEF MsSql!Abort, Stays
<1>7. ASSUME MsSql!Settle(r) PROVE Good
  BY <1>7 DEF MsSql!Settle, Stays
<1>8. ASSUME MsSql!SendNext(r) PROVE Good
  BY <1>8 DEF MsSql!SendNext
<1>9. ASSUME MsSql!Discard(r) PROVE Good
  BY <1>9 DEF MsSql!Discard
<1>10. ASSUME MsSql!EndRun(r) PROVE Good
  BY <1>10 DEF MsSql!EndRun
<1>11. ASSUME MsSql!Commit(r) PROVE Good
  BY <1>11 DEF MsSql!Commit
<1> QED
  BY <1>3, <1>4, <1>5, <1>6, <1>7, <1>8, <1>9, <1>10, <1>11 DEF MsSql!Steps

LEMMA OracleSafe ==
  ASSUME TypeOK, KillInv, adapter = "oracle", NEW r \in Requests, Oracle!Steps(r)
  PROVE  Safe(r)
<1> DEFINE Good == Safe(r)
<1>1. /\ Pc(r) \notin Outside => holder = r
      /\ Pc(r) \in Reviewing => IsApply(r)
      /\ session = "up" /\ sent[r].what # "none" => Executes(r, Pc(r), sent[r].what)
      /\ r # None /\ call[r].pc = Pc(r) /\ sent[r].reply = Reply(r)
      /\ IsApply(r) => Statement(r) = "work"
      /\ Reply(r) # "none" => sent[r].what = "none"
      /\ GivenUp # "up" /\ (Usable /\ session # "up" => session = "broken")
      /\ GivenUp \in {"broken", "down"} => session \in {"broken", "down"}
      /\ session \in {"broken", "down"} => sent[r].what = "none"
  BY Types, SessionConstants DEF KillInv, LockOK, WireOK, Locking, Requests, Pc, Reply, Statement, Wires, GivenUp, Usable, Sessions
<1>2. /\ Executing = {"running", "finishing", "stopping", "stopped", "draining", "quitting"}
      /\ Reviewing = {"begin", "beginning", "asking", "sending", "decide"}
                     \cup (IF adapter \in {"oracle", "duckdb"} THEN {"check"} ELSE {})
  BY DEF Executing, Reviewing
<1>3. \A o : Oracle!Rollback(r, o) =>
        /\ call'[r].pc = "undoing" /\ UNCHANGED <<holder, session, kill>>
        /\ session = "up" => sent'[r].what = "rollback"
        /\ session # "up" => sent'[r].what = "none"
  BY Types DEF Oracle!Rollback, Calls
<1> USE <1>3, OracleBlocks, Effects, <1>1, <1>2 DEF Safe, Outside, Executes
<1>4. ASSUME Oracle!Enter(r) PROVE Good
  BY <1>4 DEF Oracle!Enter
<1>5. ASSUME Oracle!Job(r) PROVE Good
  BY <1>5 DEF Oracle!Job, Stays
<1>6. ASSUME Oracle!Ran(r) PROVE Good
  BY <1>6 DEF Oracle!Ran
<1>7. ASSUME Oracle!Probe(r) PROVE Good
  BY <1>7 DEF Oracle!Probe
<1>8. ASSUME Oracle!Edit(r) PROVE Good
  <2>1. CASE Pc(r) = "check"
    BY <1>8, <2>1 DEF Oracle!Edit
  <2>2. CASE Pc(r) = "running" /\ Oracle!Rollback(r, "undone")
    BY <2>2
  <2>3. ASSUME call' = (IF call[r].step < Edits
                          THEN [call EXCEPT ![r].pc = "check", ![r].step = @ + 1]
                          ELSE [call EXCEPT ![r].pc = "decide"])
        PROVE  call'[r].pc \in {"check", "decide"}
    <3>1. CASE call[r].step < Edits
      BY <2>3, <3>1, Types DEF Calls
    <3>2. CASE ~(call[r].step < Edits)
      BY <2>3, <3>2, Types DEF Calls
    <3> QED
      BY <3>1, <3>2
  <2> QED
    BY <1>8, <2>1, <2>2, <2>3 DEF Oracle!Edit, Stays
<1>9. ASSUME Oracle!Undone(r) PROVE Good
  BY <1>9 DEF Oracle!Undone
<1>10. ASSUME Oracle!Commit(r) PROVE Good
  BY <1>10 DEF Oracle!Commit
<1> QED
  BY <1>4, <1>5, <1>6, <1>7, <1>8, <1>9, <1>10 DEF Oracle!Steps

\* A step of DuckDB's: a kill is asked for while its statement runs, and a statement
\* that starts forgets the kills before it.
Fences(r) ==
  /\ session' = session
  /\ call'[r].pc = "running" => Statement(r) # "commit"
  /\ \/ kill' = {}
     \/ kill' = kill /\ (sent'[r].what # "none" => sent' = sent /\ call'[r].pc = Pc(r))
     \/ kill' = kill \cup {r} /\ sent' = sent /\ call' = call /\ holder = r
        /\ Pc(r) \notin {"committing", "undoing"}

LEMMA DuckDbSafe ==
  ASSUME TypeOK, KillInv, adapter = "duckdb", NEW r \in Requests, DuckDb!Steps(r)
  PROVE  Safe(r) /\ Fences(r)
<1> DEFINE Good == Safe(r) /\ Fences(r)
<1>1. /\ Pc(r) \notin Outside => holder = r
      /\ Pc(r) \in Reviewing => IsApply(r)
      /\ sent[r].what # "none" => Executes(r, Pc(r), sent[r].what)
      /\ session = "up" /\ (Pc(r) = "running" => Statement(r) # "commit")
      /\ r # None /\ call[r].pc = Pc(r) /\ sent[r].reply = Reply(r)
      /\ Reply(r) # "none" => sent[r].what = "none"
      /\ IsApply(r) => Statement(r) = "work"
  BY Types, SessionConstants
  DEF KillInv, LockOK, WireOK, KillOK, Locking, Requests, Pc, Reply, Wires, Statement, IsApply
<1>2. /\ Executing = {"running"}
      /\ Reviewing = {"begin", "beginning", "asking", "sending", "decide"}
                     \cup (IF adapter \in {"oracle", "duckdb"} THEN {"check"} ELSE {})
  BY DEF Executing, Reviewing
<1>3. \A s, p : DuckDb!Starts(r, s, p) =>
        /\ call'[r].pc = p /\ sent'[r].what = s /\ kill' = {} /\ UNCHANGED <<holder, session>>
  BY DuckDbBlocks, Effects, Types DEF DuckDb!Starts
<1> USE DuckDbBlocks, Effects, <1>1, <1>2, <1>3 DEF Safe, Fences, Outside, Executes
<1>4. ASSUME DuckDb!GiveUp(r) PROVE Good
  <2>1. call'[r].pc = "orphan"
    BY <1>4, Types DEF DuckDb!GiveUp, Calls
  <2> QED
    BY <1>4, <2>1 DEF DuckDb!GiveUp, Stays
<1>5. ASSUME DuckDb!Watch(r) PROVE Good
  BY <1>5 DEF DuckDb!Watch, DuckDb!Phase
<1>6. ASSUME DuckDb!Acquire(r) PROVE Good
  BY <1>6 DEF DuckDb!Acquire
<1>7. ASSUME DuckDb!Run(r) PROVE Good
  BY <1>7 DEF DuckDb!Run
<1>8. ASSUME DuckDb!Begin(r) PROVE Good
  BY <1>8 DEF DuckDb!Begin, Stays
<1>9. ASSUME DuckDb!Edit(r) PROVE Good
  <2>1. CASE DuckDb!Starts(r, "rollback", "undoing")
    BY <2>1, <1>9 DEF DuckDb!Edit
  <2>2. CASE DuckDb!Starts(r, "work", "running")
    BY <2>2, <1>9 DEF DuckDb!Edit
  <2>3. ASSUME Reply(r) # "none", Stays, IsApply(r), Pc(r) = "running",
               call'[r].pc \in {"check", "decide"}
        PROVE  Good
    BY <2>3 DEF Stays
  <2>4. ASSUME call' = (IF call[r].step < Edits
                          THEN [call EXCEPT ![r].pc = "check", ![r].step = @ + 1]
                          ELSE [call EXCEPT ![r].pc = "decide"])
        PROVE  call'[r].pc \in {"check", "decide"}
    <3>1. CASE call[r].step < Edits
      BY <2>4, <3>1, Types DEF Calls
    <3>2. CASE ~(call[r].step < Edits)
      BY <2>4, <3>2, Types DEF Calls
    <3> QED
      BY <3>1, <3>2
  <2> QED
    BY <1>9, <2>1, <2>2, <2>3, <2>4 DEF DuckDb!Edit
<1>10. ASSUME DuckDb!Undone(r) PROVE Good
  BY <1>10 DEF DuckDb!Undone
<1>11. ASSUME DuckDb!Commit(r) PROVE Good
  BY <1>11 DEF DuckDb!Commit
<1> QED
  BY <1>4, <1>5, <1>6, <1>7, <1>8, <1>9, <1>10, <1>11 DEF DuckDb!Steps, DuckDb!Job

\* The other adapters have no kill to send, MongoDB's and ClickHouse's names its request.
LEMMA NeverKills ==
  ASSUME TypeOK, adapter \notin Wired \cup Tagging, NEW r \in Requests, Steps(r) \/ Drop(r)
  PROVE  kill' = kill
<1>1. ASSUME MsSql!Steps(r) PROVE kill' = kill
  BY <1>1, MsSqlBlocks, Effects
  DEF MsSql!Steps, MsSql!Enter, MsSql!Open, MsSql!Ask, MsSql!Abort, MsSql!Settle, MsSql!SendNext,
      MsSql!Discard, MsSql!EndRun, MsSql!Commit, Stays
<1>2. ASSUME Oracle!Steps(r) PROVE kill' = kill
  BY <1>2, OracleBlocks, Effects
  DEF Oracle!Steps, Oracle!Enter, Oracle!Job, Oracle!Ran, Oracle!Probe, Oracle!Edit, Oracle!Undone,
      Oracle!Commit, Oracle!Rollback, Stays
<1>3. ASSUME Stores!Steps(r), adapter \in {"surrealdb", "redis", "scylla"} PROVE kill' = kill
  <2>1. CASE Stores!SurrealRun(r) \/ Stores!SurrealApply(r)
    BY <2>1, StoresBlocks, Effects DEF Stores!SurrealRun, Stores!SurrealApply
  <2>2. CASE Stores!RedisRun(r) \/ Stores!ScyllaRun(r)
    BY <2>2, StoresBlocks, Effects DEF Stores!RedisRun, Stores!ScyllaRun, Stores!Races
  <2>3. CASE Stores!RedisApply(r) \/ Stores!ScyllaApply(r)
    BY <2>3, StoresBlocks, Effects DEF Stores!RedisApply, Stores!ScyllaApply, Stays
  <2>4. CASE Stores!InTurn(r)
    BY <2>4, StoresBlocks, Effects DEF Stores!InTurn, Stays
  <2> QED
    BY <1>3, <2>1, <2>2, <2>3, <2>4
    DEF Stores!Steps, Stores!MongoRun, Stores!ClickHouseRun, Stores!MongoKill, Stores!ClickHouseKill,
        Stores!ClickHouseApply, Stores!MongoApply, Stores!MongoCancel, Stores!MongoCommit
<1> QED
  BY <1>1, <1>2, <1>3, Types DEF Steps, Drop, Wired, Tagging, AllAdapters, Stored

\* The others are as they were.
LEMMA OthersStay ==
  ASSUME TypeOK, NEW r \in Requests, Shaped(r), UNCHANGED choice
  PROVE  /\ \A q \in Requests \ {r} : call'[q] = call[q] /\ sent'[q] = sent[q]
         /\ adapter' = adapter /\ kind' = kind
         /\ \A q : Statement(q)' = Statement(q) /\ Interruptible(q)' = Interruptible(q)
         /\ \A q, p, s : Executes(q, p, s)' = Executes(q, p, s)
BY Types DEF Shaped, Turns, Keeps, choice, Statement, IsApply, Interruptible, Executes, Executing

\* A step of a driver keeps the invariant.
LEMMA DriverKeepsKill ==
  ASSUME TypeOK, KillInv, NEW r \in Requests, Steps(r) \/ Drop(r), UNCHANGED choice
  PROVE  KillInv'
<1>0. /\ Shaped(r) /\ adapter' = adapter
      /\ \A q \in Requests \ {r} : call'[q] = call[q] /\ sent'[q] = sent[q]
      /\ \A q : Statement(q)' = Statement(q) /\ Interruptible(q)' = Interruptible(q)
      /\ \A q, p, s : Executes(q, p, s)' = Executes(q, p, s)
  BY DriverShaped, OthersStay
<1>1. CASE adapter \notin Locking
  BY <1>0, <1>1, NeverKills DEF KillInv, LockOK, WireOK, KillOK, Wired, Locking
<1>2. ASSUME Safe(r), adapter \in Locking PROVE LockOK' /\ WireOK'
  <2>1. \A q \in Requests : /\ call'[q].pc \notin Outside => holder' = q
                            /\ call'[q].pc \in Reviewing => IsApply(q)
    BY <1>0, <1>2, SessionConstants DEF KillInv, LockOK, Safe, Pc, Requests
  <2>2. session' = "up" =>
          \A q \in Requests : sent'[q].what # "none" => Executes(q, call'[q].pc, sent'[q].what)
    BY <1>0, <1>2 DEF KillInv, WireOK, Safe, Pc
  <2>3. session' \in {"broken", "down"} => \A q \in Requests : sent'[q].what = "none"
    BY <1>0, <1>2 DEF KillInv, WireOK, Safe
  <2> QED
    BY <1>0, <2>1, <2>2, <2>3 DEF LockOK, WireOK, Pc, Reviewing, IsApply
<1>5. CASE adapter \in {"mssql", "oracle"}
  <2>1. Safe(r)
    BY <1>5, MsSqlSafe, OracleSafe DEF Steps, Drop, Stored
  <2>2. kill' = kill
    BY <1>5, NeverKills DEF Wired, Tagging
  <2> QED
    BY <1>0, <1>2, <1>5, <2>1, <2>2 DEF KillInv, KillOK, Wired, Tagging, Locking
<1>3. CASE adapter \in {"postgres", "mysql"}
  <2>1. Safe(r) /\ Stops(r)
    BY <1>3, PostgresSafe, MySqlSafe DEF Steps, Drop, Stored
  <2>2. session' = "up" => \A k \in kill' : call'[k].pc \in {"stopping", "quitting"} /\ Interruptible(k)
    BY <1>0, <1>3, <2>1, Types DEF KillInv, KillOK, Safe, Stops, Pc
  <2> QED
    BY <1>0, <1>2, <1>3, <2>1, <2>2 DEF KillInv, KillOK, Pc, Wired, Tagging, Locking
<1>4. CASE adapter = "duckdb"
  <2>1. Safe(r) /\ Fences(r)
    BY <1>4, DuckDbSafe DEF Steps, Drop, Stored
  <2>2. \A q \in Requests : call'[q].pc = "running" => Statement(q) # "commit"
    BY <1>0, <1>4, <2>1 DEF KillInv, KillOK, Fences, Pc
  <2>3. \A k \in kill', q \in Requests : sent'[q].what # "none" =>
          q = k /\ call'[q].pc \in {"running", "beginning"}
    <3> SUFFICES ASSUME NEW k \in kill', NEW q \in Requests, sent'[q].what # "none"
                 PROVE  q = k /\ call'[q].pc \in {"running", "beginning"}
      OBVIOUS
    <3>1. CASE kill' = kill /\ (sent'[r].what # "none" => sent' = sent /\ call'[r].pc = Pc(r))
      BY <1>0, <1>4, <3>1 DEF KillInv, KillOK, Pc
    <3>2. CASE kill' = kill \cup {r} /\ sent' = sent /\ call' = call /\ holder = r
               /\ Pc(r) \notin {"committing", "undoing"}
      <4>1. Executes(q, Pc(q), sent[q].what)
        BY <1>4, <3>2 DEF KillInv, WireOK, KillOK, Locking
      <4>2. Pc(q) \in {"running", "beginning", "committing", "undoing"}
        BY <1>4, <4>1 DEF Executes, Executing
      <4>3. q = r
        BY <1>4, <3>2, <4>2 DEF KillInv, LockOK, Locking, Outside
      <4> QED
        BY <1>4, <3>2, <4>2, <4>3 DEF KillInv, KillOK, Pc
    <3> QED
      BY <2>1, <3>1, <3>2 DEF Fences
  <2> QED
    BY <1>0, <1>2, <1>4, <2>1, <2>2, <2>3 DEF KillInv, KillOK, Pc, Wired, Tagging, Fences, Locking
<1> QED
  BY <1>1, <1>3, <1>4, <1>5 DEF Locking

\* So does a step of the server, which takes statements and kills away.
LEMMA ServerKeepsKill ==
  ASSUME TypeOK, KillInv, Server
  PROVE  KillInv'
<1>1. /\ choice' = choice /\ call' = call /\ holder' = holder /\ kill' \subseteq kill
      /\ \A q \in Requests : sent'[q] = sent[q] \/ sent'[q].what = "none"
      /\ session' = session \/ (adapter # "duckdb" /\ session' # "up")
      /\ session' \in {"broken", "down"} =>
           session' = session \/ \A q \in Requests : sent'[q].what = "none"
  <2>1. ASSUME NEW r \in Requests, Serves(r) \/ Refuses(r) \/ ServesSome(r)
        PROVE  /\ UNCHANGED <<choice, call, holder, session, kill>>
               /\ \E o \in {"ok", "error", "killed", "standalone", "some"} : Replied(r, o)
    BY <2>1 DEF Serves, Refuses, ServesSome
  <2>2. \A r \in Requests, o \in {"ok", "error", "killed", "standalone", "some"} : Replied(r, o) =>
          \A q \in Requests : sent'[q] = sent[q] \/ sent'[q].what = "none"
    BY Types DEF Replied
  <2>3. ASSUME NEW k \in kill, KillArrives(k)
        PROVE  /\ UNCHANGED <<choice, call, holder, session>> /\ kill' \subseteq kill
               /\ sent' = sent \/ \E r \in Requests : Replied(r, "killed")
    BY <2>3 DEF KillArrives, Struck
  <2>4. ASSUME Breaks
        PROVE  /\ UNCHANGED <<choice, call, holder>> /\ kill' \subseteq kill
               /\ adapter # "duckdb" /\ session' # "up"
               /\ \A q \in Requests : (sent'[q] = sent[q] \/ sent'[q].what = "none") /\ sent'[q].what = "none"
    BY <2>4 DEF Breaks
  <2> QED
    <3>1. CASE \E r \in Requests : Serves(r) \/ Refuses(r) \/ ServesSome(r)
      <4>1. PICK r \in Requests : Serves(r) \/ Refuses(r) \/ ServesSome(r)
        BY <3>1
      <4>2. \A q \in Requests : sent'[q] = sent[q] \/ sent'[q].what = "none"
        BY <2>1, <2>2, <4>1
      <4>3. choice' = choice /\ call' = call /\ holder' = holder /\ session' = session /\ kill' = kill
        BY <2>1, <4>1
      <4> QED
        BY <4>2, <4>3
    <3>2. CASE \E k \in kill : KillArrives(k)
      <4>1. PICK k \in kill : KillArrives(k)
        BY <3>2
      <4>2. \A q \in Requests : sent'[q] = sent[q] \/ sent'[q].what = "none"
        BY <2>2, <2>3, <4>1
      <4>3. choice' = choice /\ call' = call /\ holder' = holder /\ session' = session /\ kill' \subseteq kill
        BY <2>3, <4>1
      <4> QED
        BY <4>2, <4>3
    <3>3. CASE Breaks
      BY <2>4, <3>3
    <3> QED
      BY <3>1, <3>2, <3>3 DEF Server
<1>2. /\ adapter' = adapter
      /\ \A q : Statement(q)' = Statement(q) /\ Interruptible(q)' = Interruptible(q) /\ Pc(q)' = Pc(q)
      /\ \A q, p, s : Executes(q, p, s)' = Executes(q, p, s)
  BY <1>1 DEF choice, Statement, IsApply, Interruptible, Pc, Executes, Executing
<1>3. LockOK'
  BY <1>1, <1>2 DEF KillInv, LockOK, Reviewing, IsApply
<1>4. WireOK'
  <2>1. adapter \in Locking /\ session' = "up" =>
          \A q \in Requests : sent'[q].what # "none" => Executes(q, Pc(q), sent'[q].what)
    BY <1>1 DEF KillInv, WireOK
  <2>2. adapter \in Locking /\ session' \in {"broken", "down"} => \A q \in Requests : sent'[q].what = "none"
    BY <1>1 DEF KillInv, WireOK
  <2> QED
    BY <1>2, <2>1, <2>2 DEF WireOK
<1>5. KillOK'
  BY <1>1, <1>2 DEF KillInv, KillOK
<1> QED
  BY <1>3, <1>4, <1>5 DEF KillInv

\* In what order the cancels, kills and replies fall: KillInv holds throughout.
THEOREM KillInvariant == Spec => []KillInv
<1>1. Init => KillInv
  <2> SUFFICES ASSUME Init PROVE KillInv
    OBVIOUS
  <2>1. \A r \in Requests : Pc(r) = "idle" /\ sent[r].what = "none"
    BY DEF Init, Pc, Nothing
  <2> QED
    BY <2>1 DEF Init, KillInv, LockOK, WireOK, KillOK, Outside, Reviewing
<1>2. TypeOK /\ KillInv /\ [Next]_vars => KillInv'
  <2> SUFFICES ASSUME TypeOK, KillInv, [Next]_vars PROVE KillInv'
    OBVIOUS
  <2>1. ASSUME NEW r \in Requests, Call(r) PROVE KillInv'
    <3>1. Shaped(r) /\ UNCHANGED choice
      BY <2>1, Blocks, Zenon DEF Call, Shaped, Pcs
    <3>2. /\ call'[r].pc = "wait" /\ Pc(r) = "idle" /\ UNCHANGED <<holder, session, sent, kill>>
      BY <2>1, Effects DEF Call, Stays
    <3>3. /\ adapter' = adapter
          /\ \A q \in Requests \ {r} : call'[q] = call[q]
          /\ \A q : Statement(q)' = Statement(q) /\ Interruptible(q)' = Interruptible(q)
          /\ \A q, p, s : Executes(q, p, s)' = Executes(q, p, s)
      BY <3>1, OthersStay
    <3>4. \A q \in Requests : q # r => Pc(q)' = Pc(q)
      BY <3>3 DEF Pc
    <3>5. Pc(r)' = "wait"
      BY <3>2 DEF Pc
    <3>6. LockOK'
      BY <3>2, <3>3, <3>4, <3>5 DEF KillInv, LockOK, Outside, Reviewing, IsApply
    <3>7. WireOK'
      <4>1. adapter \in Locking /\ session = "up" => sent[r].what = "none"
        BY <3>2 DEF KillInv, WireOK, Executes, Executing
      <4>2. adapter \in Locking /\ session = "up" =>
              \A q \in Requests : sent[q].what # "none" => q # r /\ Executes(q, Pc(q), sent[q].what)
        BY <4>1 DEF KillInv, WireOK
      <4> QED
        BY <3>2, <3>3, <3>4, <4>2 DEF KillInv, WireOK
    <3>8. KillOK'
      BY <3>2, <3>3, <3>4, <3>5, Types DEF KillInv, KillOK
    <3> QED
      BY <3>6, <3>7, <3>8, SMTT(20) DEF KillInv
  <2>2. ASSUME UNCHANGED <<choice, driver>> PROVE KillInv'
    BY <2>2 DEF choice, driver, KillInv, LockOK, WireOK, KillOK, Pc, Statement, IsApply, Interruptible,
         Executes, Executing, Reviewing
  <2>3. ASSUME NEW r \in Requests, Local(Steps(r)) \/ Local(Drop(r)) PROVE KillInv'
    BY <2>3, DriverKeepsKill DEF Local
  <2>4. ASSUME NEW r \in Requests, Cancel(r) PROVE KillInv'
    BY <2>2, <2>4 DEF Cancel
  <2>5. ASSUME UNCHANGED vars PROVE KillInv'
    BY <2>2, <2>5 DEF vars
  <2> QED
    BY <2>1, <2>3, <2>4, <2>5, ServerKeepsKill DEF Next
<1> QED
  BY <1>1, <1>2, Typing, PTL DEF Spec

\* Whatever the invariant allows a kill to strike is its own statement.
LEMMA KillMeetsItsOwn == ASSUME TypeOK, KillInv PROVE OwnKill
<1> SUFFICES ASSUME NEW k \in kill, NEW r \in Struck(k), session = "up"
             PROVE  r = k /\ sent[r].what \notin {"commit", "rollback", "publish"}
  BY DEF OwnKill
<1>1. r \in Requests /\ k \in Requests /\ sent[r].what # "none"
  BY DEF Struck, AtServer, TypeOK
<1>2. CASE adapter \in Tagging
  BY <1>2 DEF Struck, Tagged
<1>3. CASE adapter \in {"postgres", "mysql"}
  <2>1. Pc(k) \in {"stopping", "quitting"} /\ Interruptible(k) /\ holder = k
    BY <1>1, <1>3 DEF KillInv, KillOK, LockOK, Locking, Wired, Outside
  <2>2. Executes(r, Pc(r), sent[r].what)
    BY <1>1, <1>3 DEF KillInv, WireOK, Locking
  <2>3. holder = r
    BY <1>1, <1>3, <2>2 DEF KillInv, LockOK, Locking, Outside, Executes, Executing
  <2> QED
    BY <2>1, <2>2, <2>3 DEF Executes, Interruptible
<1>4. CASE adapter = "duckdb"
  <2>1. r = k /\ Pc(r) \in {"running", "beginning"} /\ (Pc(r) = "running" => Statement(r) # "commit")
    BY <1>1, <1>4 DEF KillInv, KillOK
  <2>2. Executes(r, Pc(r), sent[r].what)
    BY <1>1, <1>4 DEF KillInv, WireOK, Locking
  <2>3. Statement(r) \in {"work", "read", "begin", "commit"}
    BY <1>1, <1>4 DEF TypeOK, KindsOf, Stored, Statement, IsApply, Requests
  <2> QED
    BY <1>4, <2>1, <2>2, <2>3 DEF Executes, Executing
<1> QED
  BY <1>2, <1>3, <1>4 DEF KillInv, KillOK, Wired

\* A kill on its way to a session in use meets only a statement of the request that
\* asked for it, and never a COMMIT, a rollback or the publishing of a review.
THEOREM KillsMeetTheirOwn == Spec => []OwnKill
BY KillMeetsItsOwn, Typing, KillInvariant, PTL

-----------------------------------------------------------------------------
(* What the user left uncommitted *)

\* Where a review has a transaction of its own, or is about to be refused one: DuckDB
\* tells by the reply to BEGIN, SQL Server asks first.
Aside == IF adapter = "mssql" THEN {"idle", "wait", "opening", "open", "asking", "returned"}
         ELSE {"idle", "wait", "orphan", "begin", "beginning", "returned"}
Apart(c, m) == \/ c.pc \notin Aside
               \/ adapter = "duckdb" /\ c.pc = "beginning" /\ m.reply = "ok"

\* Nothing is uncommitted outside a transaction, and a review inside its own has none of
\* the user's writes beside it.
ApartInv ==
  /\ tx = "none" => Users \notin pending
  /\ adapter \in {"duckdb", "mssql"} => \A a \in Applies : Apart(call[a], sent[a]) => Users \notin pending

\* A statement adds no write of the user's, and where it ends the transaction takes all.
LEMMA UsersFare ==
  ASSUME TypeOK, tx = "none" => Users \notin pending, NEW r \in Requests,
         \/ UNCHANGED db
         \/ \E s : TakesEffect(r, s)
         \/ Aborts
         \/ RollsBack
         \/ UNCHANGED <<tx, pending>>
         \/ pending' = {}
  PROVE  /\ Users \notin pending => Users \notin pending'
         /\ tx' = "none" => Users \notin pending'
<1>1. Write(r) # Users
  BY SessionConstants DEF Write, Users, Requests
<1> DEFINE Good == /\ Users \notin pending => Users \notin pending'
                   /\ tx' = "none" => Users \notin pending'
<1>2. UNCHANGED <<tx, pending>> => Good
  OBVIOUS
<1>3. pending' = {} => Good
  OBVIOUS
<1>4. Changes(r) => Good
  BY <1>1 DEF Changes, Autocommits
<1>5. Begins => Good
  BY DEF Begins, db
<1>6. Commits => Good
  BY DEF Commits, TypeOK
<1>7. ASSUME NEW s, TakesEffect(r, s) PROVE Good
  <2>1. ASSUME s = "stage" PROVE Good
    BY <1>1, <1>7, <2>1 DEF TakesEffect
  <2>2. ASSUME s \in {"publish", "discard"} PROVE Good
    BY <1>7, <2>2 DEF TakesEffect
  <2> HIDE DEF Good
  <2> QED
    BY <1>2, <1>3, <1>4, <1>5, <1>6, <1>7, <2>1, <2>2 DEF TakesEffect, RollsBack, db
<1>8. Aborts => Good
  BY DEF Aborts, db
<1> QED
  BY <1>2, <1>3, <1>7, <1>8 DEF RollsBack, db

\* A driver puts a review where it has a transaction only when there is none of the user's.
LEMMA DriverStaysApart ==
  ASSUME TypeOK, ApartInv, adapter \in {"duckdb", "mssql"}, NEW a \in Applies, Steps(a),
         Apart(call'[a], sent'[a])
  PROVE  Users \notin pending
<1>1. /\ Apart(call[a], sent[a]) => Users \notin pending
      /\ tx = "none" => Users \notin pending
      /\ a \in Requests /\ IsApply(a)
      /\ call \in [Requests -> Calls] /\ sent \in [Requests -> Wires] /\ call[a] \in Calls
  BY Types DEF ApartInv, Requests, IsApply
<1> USE <1>1, Effects
<1>2. CASE adapter = "mssql"
  <2>1. MsSql!Steps(a)
    BY <1>2 DEF Steps, Stored
  <2> USE MsSqlBlocks, <1>2 DEF Apart, Aside, Pc, Reply
  <2>2. ASSUME MsSql!Enter(a) \/ MsSql!Open(a) PROVE Users \notin pending
    BY <2>2 DEF MsSql!Enter, MsSql!Open
  <2>3. ASSUME MsSql!Ask(a) PROVE Users \notin pending
    BY <2>3 DEF MsSql!Ask
  <2>4. ASSUME MsSql!Abort(a) \/ MsSql!Settle(a) \/ MsSql!SendNext(a) PROVE Users \notin pending
    BY <2>4 DEF MsSql!Abort, MsSql!Settle, MsSql!SendNext
  <2>5. ASSUME MsSql!Discard(a) \/ MsSql!EndRun(a) \/ MsSql!Commit(a) PROVE Users \notin pending
    BY <2>5 DEF MsSql!Discard, MsSql!EndRun, MsSql!Commit
  <2> QED
    BY <2>1, <2>2, <2>3, <2>4, <2>5 DEF MsSql!Steps
<1>3. CASE adapter = "duckdb"
  <2>1. DuckDb!Steps(a)
    BY <1>3 DEF Steps, Stored
  <2> USE DuckDbBlocks, <1>3 DEF Apart, Aside, Pc, Reply
  <2>0. \A s, p : DuckDb!Starts(a, s, p) => call'[a].pc = p /\ sent'[a].reply = "none"
    BY DEF DuckDb!Starts
  <2>2. ASSUME DuckDb!GiveUp(a) \/ DuckDb!Watch(a) PROVE Users \notin pending
    <3>1. CASE DuckDb!GiveUp(a)
      BY <3>1 DEF DuckDb!GiveUp, Calls
    <3>2. CASE DuckDb!Watch(a)
      BY <3>2 DEF DuckDb!Watch
    <3> QED
      BY <2>2, <3>1, <3>2
  <2>3. ASSUME DuckDb!Acquire(a) PROVE Users \notin pending
    BY <2>3 DEF DuckDb!Acquire
  <2>4. ASSUME DuckDb!Run(a) PROVE Users \notin pending
    BY <2>0, <2>4 DEF DuckDb!Run
  <2>5. ASSUME DuckDb!Begin(a) PROVE Users \notin pending
    BY <2>0, <2>5 DEF DuckDb!Begin
  <2>6. ASSUME DuckDb!Edit(a) PROVE Users \notin pending
    BY <2>0, <2>6 DEF DuckDb!Edit
  <2>7. ASSUME DuckDb!Undone(a) \/ DuckDb!Commit(a) PROVE Users \notin pending
    BY <2>0, <2>7 DEF DuckDb!Undone, DuckDb!Commit
  <2> QED
    BY <2>1, <2>2, <2>3, <2>4, <2>5, <2>6, <2>7 DEF DuckDb!Steps, DuckDb!Job
<1> QED
  BY <1>2, <1>3

\* What a step of the server does to the requests and to the transaction.
LEMMA ServerLeaves ==
  ASSUME TypeOK, KillInv, adapter \in {"duckdb", "mssql"}, Server
  PROVE  /\ call' = call /\ adapter' = adapter
         /\ \/ session' # "up" /\ adapter # "duckdb" /\ pending' = {}
            \/ UNCHANGED <<session, sent, db>>
            \/ \E r \in Requests :
                 /\ AtServer(r) /\ session' = session /\ \A q \in Requests \ {r} : sent'[q] = sent[q]
                 /\ \/ sent'[r].reply = "ok" /\ TakesEffect(r, sent[r].what)
                    \/ sent'[r].reply # "ok" /\ sent[r].what = "commit" /\ RollsBack
                    \/ sent'[r].reply # "ok" /\ UNCHANGED db
<1> DEFINE One(r) == /\ AtServer(r) /\ session' = session /\ \A q \in Requests \ {r} : sent'[q] = sent[q]
                     /\ \/ sent'[r].reply = "ok" /\ TakesEffect(r, sent[r].what)
                        \/ sent'[r].reply # "ok" /\ sent[r].what = "commit" /\ RollsBack
                        \/ sent'[r].reply # "ok" /\ UNCHANGED db
<1>1. Aborts => UNCHANGED db
  BY DEF Aborts
<1>2. ASSUME NEW r \in Requests, NEW o, Replied(r, o)
      PROVE  sent'[r].reply = o /\ \A q \in Requests \ {r} : sent'[q] = sent[q]
  BY <1>2, Types DEF Replied
<1>3. ASSUME NEW r \in Requests, Serves(r) PROVE call' = call /\ adapter' = adapter /\ One(r)
  BY <1>2, <1>3 DEF Serves, choice
<1>4. ASSUME NEW r \in Requests, Refuses(r) PROVE call' = call /\ adapter' = adapter /\ One(r)
  <2>1. PICK o \in {"error", "killed", "standalone"} : Replied(r, o)
    BY <1>4 DEF Refuses
  <2>2. /\ AtServer(r) /\ call' = call /\ adapter' = adapter /\ session' = session
        /\ (sent[r].what = "commit" /\ RollsBack) \/ UNCHANGED db
    BY <1>1, <1>4 DEF Refuses, choice
  <2> QED
    BY <1>2, <2>1, <2>2
<1>5. \A r \in Requests : ~ServesSome(r)
  BY DEF ServesSome
<1>6. ASSUME NEW k \in kill, KillArrives(k)
      PROVE  /\ call' = call /\ adapter' = adapter
             /\ UNCHANGED <<session, sent, db>> \/ \E r \in Requests : One(r)
  <2>1. call' = call /\ adapter' = adapter /\ session' = session
    BY <1>6 DEF KillArrives, choice
  <2>2. CASE Struck(k) = {}
    BY <1>6, <2>1, <2>2 DEF KillArrives
  <2>3. CASE Struck(k) # {}
    <3>1. PICK r \in Struck(k) : Replied(r, "killed") /\ Aborts
      BY <1>6, <2>3 DEF KillArrives
    <3>2. r \in Requests /\ AtServer(r)
      BY DEF Struck
    <3>3. One(r)
      BY <1>1, <1>2, <2>1, <3>1, <3>2
    <3> QED
      BY <2>1, <3>2, <3>3
  <2> QED
    BY <2>2, <2>3
<1>7. Breaks => call' = call /\ adapter' = adapter /\ session' # "up" /\ adapter # "duckdb" /\ pending' = {}
  BY DEF Breaks, choice
<1> HIDE DEF One
<1>8. /\ call' = call /\ adapter' = adapter
      /\ \/ session' # "up" /\ adapter # "duckdb" /\ pending' = {}
         \/ UNCHANGED <<session, sent, db>>
         \/ \E r \in Requests : One(r)
  BY <1>3, <1>4, <1>5, <1>6, <1>7 DEF Server
<1> QED
  BY <1>8 DEF One

\* Nothing but a BEGIN that found no transaction puts a review inside one of its own.
LEMMA ServerStaysApart ==
  ASSUME TypeOK, KillInv, ApartInv, adapter \in {"duckdb", "mssql"}, Server
  PROVE  ApartInv'
<1>1. /\ call' = call /\ adapter' = adapter
      /\ \/ session' # "up" /\ adapter # "duckdb" /\ pending' = {}
         \/ UNCHANGED <<session, sent, db>>
         \/ \E r \in Requests :
              /\ AtServer(r) /\ session' = session /\ \A q \in Requests \ {r} : sent'[q] = sent[q]
              /\ \/ sent'[r].reply = "ok" /\ TakesEffect(r, sent[r].what)
                 \/ sent'[r].reply # "ok" /\ sent[r].what = "commit" /\ RollsBack
                 \/ sent'[r].reply # "ok" /\ UNCHANGED db
  BY ServerLeaves
<1>2. /\ tx = "none" => Users \notin pending
      /\ \A a \in Applies : Apart(call[a], sent[a]) => Users \notin pending
  BY DEF ApartInv
<1>3. CASE pending' = {}
  BY <1>3 DEF ApartInv
<1>4. CASE UNCHANGED <<session, sent, db>>
  BY <1>1, <1>2, <1>4 DEF ApartInv, Apart, Aside, db
<1>5. ASSUME NEW r \in Requests, AtServer(r), session' = session, \A q \in Requests \ {r} : sent'[q] = sent[q],
             \/ sent'[r].reply = "ok" /\ TakesEffect(r, sent[r].what)
             \/ sent'[r].reply # "ok" /\ sent[r].what = "commit" /\ RollsBack
             \/ sent'[r].reply # "ok" /\ UNCHANGED db
      PROVE  ApartInv'
  <2>1. /\ Users \notin pending => Users \notin pending'
        /\ tx' = "none" => Users \notin pending'
    BY <1>2, <1>5, UsersFare
  <2>2. ASSUME NEW a \in Applies, Apart(call[a], sent'[a]), Users \in pending PROVE FALSE
    <3>1. /\ ~Apart(call[a], sent[a]) /\ a \in Requests
          /\ adapter = "duckdb" /\ call[a].pc = "beginning" /\ sent'[a].reply = "ok"
      BY <1>1, <1>2, <2>2 DEF Apart, Aside, Requests
    <3>2. a = r
      BY <1>5, <3>1 DEF Apart
    <3>3. sent[a].what = "begin"
      BY <1>5, <3>1, <3>2 DEF KillInv, WireOK, KillOK, Locking, Executes, Executing, Pc, AtServer
    <3>4. TakesEffect(a, "begin")
      BY <1>5, <3>1, <3>2, <3>3
    <3>5. tx = "none"
      BY <3>1, <3>4 DEF TakesEffect, Begins
    <3> QED
      BY <1>2, <2>2, <3>5
  <2> QED
    BY <1>1, <2>1, <2>2 DEF ApartInv, Apart, Aside
<1> QED
  BY <1>1, <1>3, <1>4, <1>5

\* A review never has a transaction together with writes the user left uncommitted.
THEOREM ApartInvariant == Spec => [](adapter \in {"duckdb", "mssql"} => ApartInv)
<1> DEFINE Inv == adapter \in {"duckdb", "mssql"} => ApartInv
<1>1. Init => Inv
  <2> SUFFICES ASSUME Init, adapter \in {"duckdb", "mssql"} PROVE ApartInv
    OBVIOUS
  <2>1. \A a \in Applies : call[a] = [pc |-> "idle", step |-> 1, outcome |-> "none", answer |-> "none"]
                           /\ sent[a] = [what |-> "none", reply |-> "none"]
    BY DEF Init, Requests, Nothing
  <2> QED
    BY <2>1 DEF Init, ApartInv, Apart, Aside
<1>2. TypeOK /\ KillInv /\ Inv /\ [Next]_vars => Inv'
  <2> SUFFICES ASSUME TypeOK, KillInv, Inv, [Next]_vars, adapter' \in {"duckdb", "mssql"} PROVE ApartInv'
    OBVIOUS
  <2>1. adapter' = adapter
    <3>1. ASSUME NEW r \in Requests, Call(r) \/ Cancel(r) \/ Local(Steps(r)) \/ Local(Drop(r)) PROVE adapter' = adapter
      BY <3>1 DEF Call, Cancel, Local, choice
    <3>2. ASSUME Server PROVE adapter' = adapter
      BY <3>2 DEF Server, Serves, Refuses, ServesSome, KillArrives, Breaks, choice
    <3>3. ASSUME UNCHANGED vars PROVE adapter' = adapter
      BY <3>3 DEF vars, choice
    <3> QED
      BY <3>1, <3>2, <3>3 DEF Next
  <2>2. adapter \in {"duckdb", "mssql"} /\ ApartInv
    BY <2>1
  <2>3. ASSUME NEW r \in Requests, Call(r) PROVE ApartInv'
    <3>1. /\ call'[r].pc = "wait" /\ sent' = sent /\ UNCHANGED db
          /\ \A q \in Requests \ {r} : call'[q] = call[q]
      BY <2>3, Types, Effects DEF Call, Stays, Moves
    <3> QED
      BY <2>1, <2>2, <3>1 DEF ApartInv, Apart, Aside, Requests, db
  <2>4. ASSUME NEW r \in Requests, Local(Steps(r)) PROVE ApartInv'
    <3>1. /\ UNCHANGED db /\ Steps(r)
          /\ \A q \in Requests \ {r} : call'[q] = call[q] /\ sent'[q] = sent[q]
      BY <2>4, DriverShaped, OthersStay DEF Local
    <3>2. ASSUME NEW a \in Applies, Apart(call'[a], sent'[a]) PROVE Users \notin pending
      BY <2>2, <3>1, <3>2, DriverStaysApart DEF ApartInv, Requests
    <3> QED
      BY <2>1, <2>2, <3>1, <3>2 DEF ApartInv, Apart, Aside, db
  <2>5. ASSUME UNCHANGED <<call, sent, db>> PROVE ApartInv'
    BY <2>1, <2>2, <2>5 DEF ApartInv, Apart, Aside, db
  <2>6. ASSUME NEW r \in Requests, Local(Drop(r)) PROVE ApartInv'
    BY <2>2, <2>6 DEF Local, Drop
  <2> QED
    BY <2>2, <2>3, <2>4, <2>5, <2>6, ServerStaysApart DEF Next, Cancel, vars, driver
<1> QED
  BY <1>1, <1>2, Typing, KillInvariant, PTL DEF Spec

\* A review neither commits nor undoes what the user left uncommitted: what of it ends
\* at the server beside the user's writes can only be SQL Server's question and DuckDB's
\* refused BEGIN (Session::open_transaction, and BEGIN in duckdb.rs).
THEOREM LeavesWhatUsersWrote == Spec => LeavesUsersWrites
<1>1. TypeOK /\ KillInv /\ (adapter \in {"duckdb", "mssql"} => ApartInv) /\ [Next]_vars
      => [\A a \in Applies : adapter \in {"duckdb", "mssql"} /\ AtServer(a) /\ session = "up" /\ ~AtServer(a)'
            => (Users \in pending => Users \in pending' \/ session' # "up")]_vars
  <2> SUFFICES ASSUME TypeOK, KillInv, ApartInv, Next, NEW a \in Applies, adapter \in {"duckdb", "mssql"},
                      AtServer(a), session = "up", Users \in pending, session' = "up", sent'[a].what = "none"
               PROVE  Users \in pending'
    BY DEF AtServer
  <2>1. /\ sent[a].what # "none" /\ Executes(a, Pc(a), sent[a].what) /\ Statement(a) = "work"
        /\ tx # "none" /\ ~Apart(call[a], sent[a]) /\ a \in Requests
    BY DEF AtServer, KillInv, WireOK, Locking, ApartInv, Requests, Statement, IsApply
  <2>2. sent[a].what \in {"ask", "begin"} /\ (adapter = "mssql" => sent[a].what = "ask")
    BY <2>1 DEF Executes, Executing, Apart, Aside, Pc
  <2>3. ASSUME Server PROVE Users \in pending'
    <3>1. CASE UNCHANGED <<session, sent, db>>
      BY <3>1 DEF db
    <3>2. ASSUME NEW r \in Requests, \A q \in Requests \ {r} : sent'[q] = sent[q],
                 TakesEffect(r, sent[r].what) \/ sent[r].what = "commit" \/ UNCHANGED db
          PROVE  Users \in pending'
      <4>1. r = a
        BY <2>1, <3>2
      <4>2. CASE UNCHANGED db
        BY <4>2 DEF db
      <4>3. CASE sent[a].what = "ask" /\ TakesEffect(a, "ask")
        BY <4>3 DEF TakesEffect, db
      <4>4. CASE sent[a].what = "begin" /\ adapter = "duckdb" /\ TakesEffect(a, "begin")
        BY <2>1, <4>4 DEF TakesEffect, Begins
      <4> QED
        BY <2>2, <3>2, <4>1, <4>2, <4>3, <4>4
    <3> QED
      BY <2>3, <3>1, <3>2, ServerLeaves
  <2>4. UNCHANGED db => Users \in pending'
    BY DEF db
  <2> QED
    BY <2>3, <2>4 DEF Next, Call, Cancel, Local
<1> QED
  BY <1>1, Typing, KillInvariant, ApartInvariant, PTL DEF Spec, LeavesUsersWrites

Upto(a, n) == {<<a, i>> : i \in 1..n}

\* An Oracle review that was told the outcome is unknown is owed nothing more.
Void(a) == adapter = "oracle" /\ Pc(a) = "returned" /\ Said(a) = "unknown"

\* One statement at a time is at the server, and a session that is gone kept nothing.
AloneOK ==
  /\ \A q, r \in Requests : sent[q].what # "none" /\ sent[r].what # "none" => q = r
  /\ session \in {"broken", "down"} => pending = {} /\ tx = "none"

\* Where a review can be, and where no statement of it has been sent.
Unwritten == {"idle", "wait", "orphan", "begin", "open", "opening", "asking", "job", "beginning"}
Places == Unwritten \cup {"returned", "check", "sending", "running", "finishing", "done", "decide", "undoing",
                          "committing", "attention"}

\* What it has at the server, wherever its caller is: of its call c, its wire m, the
\* session's transaction t, its writes that wait and those that are durable.
WireFate(a, c, m, t, own) ==
  /\ m.what \in {"none", "ask", "begin", "work", "commit", "rollback"}
  /\ c.pc = "committing" => m.what \in {"none", "commit"}
  /\ m.what = "work" => t \in {"open", "aborted"} \/ adapter = "oracle"
  /\ m.what = "begin" => own = {} /\ (adapter = "mssql" => t = "none")
  /\ m.what = "commit" =>
       /\ t = "open" /\ own = Whole(a)
       /\ c.pc = "committing" \/ (c.pc = "returned" /\ c.answer = "none")
  /\ adapter = "duckdb" => m.reply # "lost"

\* How far it came, while the session is in use.
Written(a, n, t, own) == own = Upto(a, n) /\ (t = "open" \/ (adapter = "oracle" /\ n = 0))
Progress(a, c, m, t, own) ==
  /\ c.pc \in Unwritten \cup {"returned"} => own = {}
  /\ c.pc = "beginning" /\ m.reply = "ok" => t = "open"
  /\ c.pc \in {"check", "sending"} => Written(a, c.step - 1, t, own)
  /\ c.pc \in {"running", "finishing"} =>
       /\ m.what # "none" => Written(a, c.step - 1, t, own)
       /\ m.reply = "ok" => Written(a, c.step, t, own)
  /\ c.pc = "done" /\ c.outcome = "ok" /\ adapter # "oracle" => Written(a, c.step, t, own)
  /\ c.pc = "done" /\ c.outcome # "unknown" /\ adapter = "oracle" => own = {}
  /\ c.pc = "decide" => Written(a, Edits, t, own)
  /\ c.pc = "undoing" /\ (m.reply = "ok" \/ (m.reply # "none" /\ adapter = "duckdb")) => own = {}
  /\ c.pc = "committing" /\ m.what = "none" => own = {}

\* What became of it.
Decided(a, c, m, own, made) ==
  /\ c.pc = "done" /\ c.outcome = "ok" /\ adapter = "mssql" => c.step = Edits
  /\ c.pc = "undoing" /\ adapter = "oracle" => c.outcome \in {"cancelled", "undone"}
  /\ c.pc = "committing" /\ m.reply = "ok" => made = Whole(a)
  /\ c.pc = "done" /\ c.outcome = "ok" /\ adapter = "oracle" => made = Whole(a)
  /\ c.answer = "ok" => made = Whole(a)
  /\ c.answer # "none" => c.pc \in {"returned", "orphan"}
  /\ c.pc = "orphan" => c.answer = "cancelled" /\ a \in token
  /\ c.answer # "partial"
  /\ made # {} =>
       /\ made = Whole(a) /\ own = {} /\ m.what = "none"
       /\ \/ c.pc = "committing" /\ m.reply \in {"ok", "lost"}
          \/ adapter = "oracle" /\ c.pc = "done" /\ c.outcome \in {"ok", "unknown"}
          \/ c.pc = "returned" /\ c.answer \in {"ok", "unknown", "none"}

Fated(a, c, m, s, t, own, made) ==
  /\ c.pc \in Places /\ (c.pc \in Unwritten => c.step = 1)
  /\ WireFate(a, c, m, t, own)
  /\ s = "up" => Progress(a, c, m, t, own)
  /\ Decided(a, c, m, own, made)
Fate(a) == Fated(a, call[a], sent[a], session, tx, Own(a), Made(a))

\* While a review has writes uncommitted, nothing but its own is at the server.
Sole(a) == Own(a) # {} => \A r \in Requests : sent[r].what # "none" => r = a

FateInv == adapter \in Locking => AloneOK /\ \A a \in Applies : Void(a) \/ (Sole(a) /\ Fate(a))

-----------------------------------------------------------------------------
(* What the server does to a review's writes *)

LEMMA Writing ==
  ASSUME TypeOK, NEW a \in Applies
  PROVE  /\ a \in Requests /\ call[a] \in Calls /\ sent[a] \in Wires
         /\ Upto(a, Edits) = Whole(a) /\ Upto(a, 0) = {} /\ Whole(a) # {}
         /\ call[a].step \in 1..Edits
         /\ Upto(a, call[a].step) = Upto(a, call[a].step - 1) \cup {Write(a)}
         /\ Own(a) \subseteq pending /\ Made(a) \subseteq durable
<1>1. a \in Requests /\ call[a] \in Calls /\ sent[a] \in Wires
  BY Types DEF Requests
<1>2. call[a].step \in 1..Edits /\ Edits \in Nat \ {0}
  BY <1>1, SessionConstants DEF Calls
<1>3. Upto(a, Edits) = Whole(a) /\ Upto(a, 0) = {}
  BY DEF Upto, Whole
<1>4. Whole(a) # {}
  <2>1. <<a, 1>> \in Whole(a)
    BY <1>2 DEF Whole
  <2> QED
    BY <2>1
<1>5. Upto(a, call[a].step) = Upto(a, call[a].step - 1) \cup {Write(a)}
  <2> DEFINE n == call[a].step
  <2>1. 1..n = (1..(n - 1)) \cup {n}
    BY <1>2
  <2> QED
    BY <2>1 DEF Upto, Write
<1> QED
  BY <1>1, <1>2, <1>3, <1>4, <1>5 DEF Own, Made

\* What another request executes makes no write of a review durable but those that wait.
LEMMA Elsewhere ==
  ASSUME NEW a \in Applies, NEW r \in Requests, r # a, NEW s, TakesEffect(r, s) \/ RollsBack \/ Aborts
  PROVE  /\ Own(a)' \subseteq Own(a)
         /\ Made(a) \subseteq Made(a)' /\ Made(a)' \subseteq Made(a) \cup Own(a)
<1> DEFINE Grows == /\ pending' \subseteq pending \cup {Write(r)}
                    /\ durable \subseteq durable' /\ durable' \subseteq durable \cup pending \cup {Write(r)} \cup Whole(r)
<1>1. ASSUME Grows
      PROVE  /\ Own(a)' \subseteq Own(a)
             /\ Made(a) \subseteq Made(a)' /\ Made(a)' \subseteq Made(a) \cup Own(a)
  BY <1>1 DEF Own, Made, Write, Whole
<1>2. Own(r) \subseteq pending
  BY DEF Own
<1>3. Grows
  <2>1. CASE RollsBack \/ Aborts
    BY <2>1 DEF RollsBack, Aborts, db
  <2>2. ASSUME Changes(r) PROVE Grows
    BY <2>2 DEF Changes
  <2>3. ASSUME Begins PROVE Grows
    BY <2>3 DEF Begins, db
  <2>4. ASSUME Commits PROVE Grows
    BY <2>4 DEF Commits
  <2>5. CASE TakesEffect(r, s)
    BY <1>2, <2>1, <2>2, <2>3, <2>4, <2>5 DEF TakesEffect, db
  <2> QED
    BY <2>1, <2>5
<1> QED
  BY <1>1, <1>3

\* A statement of the review itself that the server executes.
LEMMA OwnServed ==
  ASSUME TypeOK, adapter \in Locking, NEW a \in Applies, WireFate(a, call[a], sent[a], tx, Own(a)), AtServer(a),
         Made(a) = {}, TakesEffect(a, sent[a].what)
  PROVE  /\ sent[a].what = "ask" => Own(a)' = Own(a) /\ Made(a)' = {} /\ tx' = tx
         /\ sent[a].what = "begin" => Own(a)' = {} /\ Made(a)' = {} /\ tx' = "open"
         /\ sent[a].what = "work" => Own(a)' = Own(a) \cup {Write(a)} /\ Made(a)' = {} /\ tx' = "open"
         /\ sent[a].what = "commit" => Own(a)' = {} /\ Made(a)' = Whole(a)
         /\ sent[a].what = "rollback" => Own(a)' = {} /\ Made(a)' = {}
<1>1. ASSUME sent[a].what = "ask" PROVE Own(a)' = Own(a) /\ Made(a)' = {} /\ tx' = tx
  BY <1>1 DEF TakesEffect, db, Own, Made
<1>2. ASSUME sent[a].what = "begin" PROVE Own(a)' = {} /\ Made(a)' = {} /\ tx' = "open"
  BY <1>2 DEF TakesEffect, Begins, db, Own, Made, WireFate
<1>3. ASSUME sent[a].what = "work"
      PROVE  Own(a)' = Own(a) \cup {Write(a)} /\ Made(a)' = {} /\ tx' = "open"
  BY <1>3 DEF TakesEffect, Changes, Autocommits, Own, Made, WireFate, Write
<1>4. ASSUME sent[a].what = "commit" PROVE Own(a)' = {} /\ Made(a)' = Whole(a)
  <2>1. durable' = durable \cup pending /\ pending' = {}
    BY <1>4 DEF TakesEffect, Commits, WireFate
  <2>2. Made(a)' = Made(a) \cup Own(a)
    BY <2>1 DEF Made, Own
  <2> QED
    BY <1>4, <2>1, <2>2 DEF WireFate, Own
<1>5. ASSUME sent[a].what = "rollback" PROVE Own(a)' = {} /\ Made(a)' = {}
  BY <1>5 DEF TakesEffect, RollsBack, Own, Made
<1> QED
  BY <1>1, <1>2, <1>3, <1>4, <1>5

\* What a step leaves of a review, with the session and the transaction it leaves.
LEMMA FateKept ==
  ASSUME NEW a \in Applies, UNCHANGED adapter, token \subseteq token',
         Fated(a, call'[a], sent'[a], session', tx', Own(a)', Made(a)')
  PROVE  Fate(a)'
BY DEF Fate, Fated, WireFate, Progress, Decided, Written, Whole, Upto

\* The fate of a review whose statement is answered, by what became of its writes.
LEMMA OwnReplied ==
  ASSUME TypeOK, adapter \in Locking, NEW a \in Applies, Fate(a), sent[a].what # "none",
         session = "up" => Executes(a, call[a].pc, sent[a].what),
         NEW o \in {"ok", "error", "killed", "standalone", "some"},
         sent'[a] = [what |-> "none", reply |-> o], call'[a] = call[a], UNCHANGED session,
         \/ o = "ok" /\ TakesEffect(a, sent[a].what) /\ AtServer(a)
         \/ /\ o # "ok" /\ Made(a)' = {} /\ Own(a)' \subseteq Own(a)
            /\ session = "up" /\ sent[a].what = "commit" => Own(a)' = {}
            /\ session = "up" => ~(adapter = "duckdb" /\ sent[a].what = "rollback")
  PROVE  Fated(a, call'[a], sent'[a], session', tx', Own(a)', Made(a)')
<1> DEFINE c == call[a]
           m == sent[a]
<1>1. /\ c.pc \in Places /\ (c.pc \in Unwritten => c.step = 1)
      /\ WireFate(a, c, m, tx, Own(a)) /\ (session = "up" => Progress(a, c, m, tx, Own(a)))
      /\ Decided(a, c, m, Own(a), Made(a))
  BY DEF Fate, Fated
<1>2. Made(a) = {}
  BY <1>1 DEF Decided
<1>3. /\ m.what \in {"ask", "begin", "work", "commit", "rollback"} /\ m.reply = "none"
      /\ sent'[a].what = "none" /\ sent'[a].reply = o /\ o # "lost" /\ o # "none"
      /\ Statement(a) = "work" /\ call'[a] = c
  BY <1>1, Writing DEF WireFate, Wires, Statement, IsApply
<1>4. WireFate(a, call'[a], sent'[a], tx', Own(a)')
  BY <1>3 DEF WireFate
<1>5. ASSUME o = "ok"
      PROVE  Decided(a, c, sent'[a], Own(a)', Made(a)') /\ (session = "up" => Progress(a, c, sent'[a], tx', Own(a)'))
  <2>1. /\ m.what = "ask" => Own(a)' = Own(a) /\ Made(a)' = {} /\ tx' = tx
        /\ m.what = "begin" => Own(a)' = {} /\ Made(a)' = {} /\ tx' = "open"
        /\ m.what = "work" => Own(a)' = Own(a) \cup {Write(a)} /\ Made(a)' = {} /\ tx' = "open"
        /\ m.what = "commit" => Own(a)' = {} /\ Made(a)' = Whole(a)
        /\ m.what = "rollback" => Own(a)' = {} /\ Made(a)' = {}
    BY <1>1, <1>2, <1>5, OwnServed
  <2>2. Decided(a, c, sent'[a], Own(a)', Made(a)')
    <3>1. CASE m.what = "commit"
      BY <1>1, <1>2, <1>3, <1>5, <2>1, <3>1 DEF Decided, WireFate
    <3>2. CASE m.what # "commit"
      <4>1. c.pc # "committing" /\ Made(a)' = {}
        BY <1>1, <1>3, <2>1, <3>2 DEF WireFate
      <4> QED
        BY <1>1, <1>2, <1>3, <4>1 DEF Decided
    <3> QED
      BY <3>1, <3>2
  <2>3. ASSUME session = "up" PROVE Progress(a, c, sent'[a], tx', Own(a)')
    <3>1. Progress(a, c, m, tx, Own(a)) /\ Executes(a, c.pc, m.what)
      BY <1>1, <2>3
    <3>2. CASE m.what = "work"
      <4>1. c.pc \in {"running", "finishing", "attention"}
        BY <1>1, <1>3, <3>1, <3>2 DEF Executes, Executing, Places, Unwritten
      <4>2. c.pc \in {"running", "finishing"} => Written(a, c.step, tx', Own(a)')
        BY <2>1, <3>1, <3>2, <1>3, Writing DEF Progress, Written
      <4> QED
        BY <1>3, <4>1, <4>2 DEF Progress, Unwritten
    <3>3. CASE m.what # "work"
      <4>1. c.pc \in {"asking", "beginning", "attention", "undoing", "committing"}
        BY <1>1, <1>3, <3>1, <3>3 DEF Executes, Executing, Places, Unwritten
      <4>2. /\ m.what \in {"begin", "commit", "rollback"} => Own(a)' = {}
            /\ m.what = "begin" => tx' = "open"
            /\ c.pc = "asking" => Own(a)' = {}
            /\ c.pc = "beginning" => m.what = "begin"
            /\ c.pc \in {"undoing", "committing"} => m.what \in {"commit", "rollback"}
        BY <1>3, <2>1, <3>1, <3>3 DEF Progress, Executes, Executing, Unwritten
      <4> QED
        BY <1>3, <4>1, <4>2 DEF Progress, Unwritten
    <3> QED
      BY <3>2, <3>3
  <2> QED
    BY <2>2, <2>3
<1>6. ASSUME o # "ok"
      PROVE  Decided(a, c, sent'[a], Own(a)', Made(a)') /\ (session = "up" => Progress(a, c, sent'[a], tx', Own(a)'))
  <2>1. /\ Made(a)' = {} /\ Own(a)' \subseteq Own(a)
        /\ session = "up" /\ m.what = "commit" => Own(a)' = {}
        /\ session = "up" => ~(adapter = "duckdb" /\ m.what = "rollback")
    BY <1>6
  <2>2. Decided(a, c, sent'[a], Own(a)', Made(a)')
    BY <1>1, <1>2, <1>3, <1>6, <2>1 DEF Decided
  <2>3. ASSUME session = "up" PROVE Progress(a, c, sent'[a], tx', Own(a)')
    <3>1. Progress(a, c, m, tx, Own(a)) /\ Executes(a, c.pc, m.what)
      BY <1>1, <2>3
    <3>2. c.pc \in {"running", "finishing", "asking", "beginning", "attention", "undoing", "committing"}
      BY <1>1, <1>3, <3>1 DEF Executes, Executing, Places, Unwritten
    <3>3. /\ c.pc \in {"asking", "beginning"} => Own(a)' = {}
          /\ c.pc = "committing" => Own(a)' = {}
          /\ c.pc = "undoing" => adapter # "duckdb"
      BY <1>3, <2>1, <2>3, <3>1 DEF Progress, Executes, Executing, Unwritten
    <3> QED
      BY <1>3, <1>6, <3>2, <3>3 DEF Progress, Unwritten
  <2> QED
    BY <2>2, <2>3
<1> QED
  BY <1>1, <1>3, <1>4, <1>5, <1>6 DEF Fated

\* A statement of another request is answered: a review that waits is as it was.
LEMMA OtherReplied ==
  ASSUME TypeOK, KillInv, AloneOK, adapter \in Locking, NEW a \in Applies, Fate(a), Sole(a),
         NEW r \in Requests, r # a, sent[r].what # "none",
         sent'[a] = sent[a], call'[a] = call[a], UNCHANGED session,
         \E s : TakesEffect(r, s) \/ RollsBack \/ Aborts
  PROVE  Fated(a, call'[a], sent'[a], session', tx', Own(a)', Made(a)')
<1>1. /\ call[a].pc \in Places /\ (call[a].pc \in Unwritten => call[a].step = 1)
      /\ WireFate(a, call[a], sent[a], tx, Own(a)) /\ (session = "up" => Progress(a, call[a], sent[a], tx, Own(a)))
      /\ Decided(a, call[a], sent[a], Own(a), Made(a))
  BY DEF Fate, Fated
<1>2. a \in Requests /\ sent[a].what = "none"
  BY Writing DEF AloneOK
<1>3. Own(a) = {} /\ Own(a)' = {} /\ Made(a)' = Made(a)
  BY Elsewhere DEF Sole
<1>4. session = "up" => call[a].pc \in Outside
  BY <1>2 DEF KillInv, LockOK, WireOK, Pc, Executes, Executing, Outside
<1>5. WireFate(a, call[a], sent[a], tx', Own(a)')
  BY <1>1, <1>2 DEF WireFate
<1>6. session = "up" => Progress(a, call[a], sent[a], tx', Own(a)')
  BY <1>1, <1>3, <1>4 DEF Progress, Outside
<1> QED
  BY <1>1, <1>3, <1>5, <1>6 DEF Fated

-----------------------------------------------------------------------------
(* What a driver's step on a review makes of it *)

\* Its fate with what the step leaves of its call, its wire and the session.
Fares(a) == Fated(a, call'[a], sent'[a], session', tx, Own(a), Made(a))

\* Its call with a new place, outcome or answer.
Left(c, d) == c.step = d.step /\ c.outcome = d.outcome /\ c.answer = d.answer

LEMMA OfReview ==
  ASSUME TypeOK, NEW a \in Applies
  PROVE  /\ a \in Requests /\ IsApply(a) /\ Statement(a) = "work" /\ ~Interruptible(a)
         /\ call[a].pc = Pc(a) /\ sent[a].reply = Reply(a) /\ call[a].outcome = Outcome(a)
         /\ Reply(a) # "none" => sent[a].what = "none"
         /\ \A p : Moves(a, p) => call'[a].pc = p /\ Left(call'[a], call[a])
         /\ \A s, p : Sends(a, s, p) =>
              /\ call'[a].pc = p /\ Left(call'[a], call[a]) /\ session' = session
              /\ session = "up" => sent'[a].what = s /\ sent'[a].reply = "none"
              /\ session # "up" => sent'[a].what = "none" /\ sent'[a].reply = "lost"
         /\ \A o, s : Ends(a, o, s) =>
              /\ call'[a].pc = "returned" /\ call'[a].step = call[a].step /\ call'[a].outcome = call[a].outcome
              /\ call'[a].answer = o /\ session' = s /\ sent' = sent
         /\ \A o, s : Notes(a, o, s) =>
              /\ call'[a].pc = "done" /\ call'[a].step = call[a].step /\ call'[a].outcome = o
              /\ call'[a].answer = call[a].answer /\ session' = s /\ sent' = sent
<1>1. /\ call \in [Requests -> Calls] /\ sent \in [Requests -> Wires] /\ call[a] \in Calls /\ a \in Requests
  BY Types DEF Requests
<1>2. /\ IsApply(a) /\ Statement(a) = "work" /\ ~Interruptible(a)
      /\ call[a].pc = Pc(a) /\ sent[a].reply = Reply(a) /\ call[a].outcome = Outcome(a)
      /\ Reply(a) # "none" => sent[a].what = "none"
  BY <1>1 DEF IsApply, Statement, Interruptible, Pc, Reply, Outcome, Wires
<1>3. \A p : Moves(a, p) => call'[a].pc = p /\ Left(call'[a], call[a])
  BY <1>1 DEF Moves, Calls, Left
<1>4. ASSUME NEW s, NEW p, Sends(a, s, p)
      PROVE  /\ call'[a].pc = p /\ Left(call'[a], call[a]) /\ session' = session
             /\ session = "up" => sent'[a].what = s /\ sent'[a].reply = "none"
             /\ session # "up" => sent'[a].what = "none" /\ sent'[a].reply = "lost"
  BY <1>1, <1>3, <1>4 DEF Sends
<1>5. ASSUME NEW o, NEW s, Ends(a, o, s)
      PROVE  /\ call'[a].pc = "returned" /\ call'[a].step = call[a].step /\ call'[a].outcome = call[a].outcome
             /\ call'[a].answer = o /\ session' = s /\ sent' = sent
  BY <1>1, <1>5 DEF Ends, Calls
<1>6. ASSUME NEW o, NEW s, Notes(a, o, s)
      PROVE  /\ call'[a].pc = "done" /\ call'[a].step = call[a].step /\ call'[a].outcome = o
             /\ call'[a].answer = call[a].answer /\ session' = s /\ sent' = sent
  BY <1>1, <1>6 DEF Notes, Calls
<1> QED
  BY <1>1, <1>2, <1>3, <1>4, <1>5, <1>6

\* The next statement of a review, or its end.
LEMMA Onward ==
  ASSUME TypeOK, NEW a \in Applies,
         call' = IF call[a].step < Edits
                   THEN [call EXCEPT ![a].pc = "check", ![a].step = @ + 1]
                   ELSE [call EXCEPT ![a].pc = "decide"]
  PROVE  /\ call'[a].outcome = call[a].outcome /\ call'[a].answer = call[a].answer
         /\ \/ call'[a].pc = "check" /\ call'[a].step - 1 = call[a].step
            \/ call'[a].pc = "decide" /\ call[a].step = Edits
<1>1. call \in [Requests -> Calls] /\ call[a] \in Calls /\ a \in Requests /\ call[a].step \in 1..Edits /\ Edits \in Nat
  BY Types, SessionConstants DEF Requests, Calls
<1>2. CASE call[a].step < Edits
  BY <1>1, <1>2 DEF Calls
<1>3. CASE ~(call[a].step < Edits)
  BY <1>1, <1>3 DEF Calls
<1> QED
  BY <1>2, <1>3

LEMMA PostgresFares ==
  ASSUME TypeOK, KillInv, adapter = "postgres", NEW a \in Applies, Fate(a),
         Postgres!Steps(a) \/ Postgres!Drop(a)
  PROVE  Fares(a)
<1>1. /\ call[a].pc \in Places /\ (call[a].pc \in Unwritten => call[a].step = 1)
      /\ WireFate(a, call[a], sent[a], tx, Own(a)) /\ (session = "up" => Progress(a, call[a], sent[a], tx, Own(a)))
      /\ Decided(a, call[a], sent[a], Own(a), Made(a))
  BY DEF Fate, Fated
<1>2. /\ Pc(a) \notin Outside => holder = a
      /\ GivenUp # "up" /\ (Usable /\ session # "up" => session = "broken")
      /\ ~Usable => session # "up"
  BY OfReview DEF KillInv, LockOK, Locking, GivenUp, Usable
<1>3. /\ Upto(a, Edits) = Whole(a) /\ Upto(a, 0) = {} /\ Whole(a) # {}
      /\ call[a].step \in 1..Edits /\ 1 - 1 = 0
  BY Writing
<1> USE PostgresBlocks, OfReview, <1>1, <1>2, <1>3
    DEF Fares, Fated, WireFate, Progress, Decided, Written, Places, Unwritten, Outside, Left
<1>4. ASSUME Postgres!Enter(a) PROVE Fares(a)
  BY <1>4 DEF Postgres!Enter
<1>5. ASSUME Postgres!Check(a) PROVE Fares(a)
  BY <1>5 DEF Postgres!Check
<1>6. ASSUME Postgres!Settle(a) PROVE Fares(a)
  BY <1>6 DEF Postgres!Settle, Postgres!Heard
<1>7. ASSUME Postgres!NoticeCancel(a) PROVE Fares(a)
  BY <1>7 DEF Postgres!NoticeCancel, Stays
<1>8. ASSUME Postgres!StopQuery(a) \/ Postgres!Drain(a) \/ Postgres!CleanupTimeout(a) \/ Postgres!EndRun(a)
      PROVE Fares(a)
  BY <1>8 DEF Postgres!StopQuery, Postgres!Drain, Postgres!CleanupTimeout, Postgres!EndRun
<1>9. ASSUME Postgres!Begin(a) PROVE Fares(a)
  <2>1. ASSUME Sends(a, "begin", "beginning"), Pc(a) = "begin" PROVE Fares(a)
    <3>1. CASE session = "up"
      BY <2>1, <3>1
    <3>2. CASE session # "up"
      BY <2>1, <3>2
    <3> QED
      BY <3>1, <3>2
  <2>2. ASSUME Pc(a) = "beginning", Reply(a) = "ok", Moves(a, "check"), Stays PROVE Fares(a)
    <3>1. call'[a].step - 1 = 0 /\ call'[a].pc = "check" /\ Left(call'[a], call[a])
      BY <2>2
    <3>2. session = "up" => Written(a, call'[a].step - 1, tx, Own(a))
      BY <2>2, <3>1
    <3> QED
      BY <2>2, <3>1, <3>2 DEF Stays
  <2>3. ASSUME Pc(a) = "beginning", Ends(a, "error", GivenUp) PROVE Fares(a)
    BY <2>3
  <2> QED
    BY <1>9, <2>1, <2>2, <2>3 DEF Postgres!Begin
<1>10. ASSUME Postgres!NextEdit(a) PROVE Fares(a)
  BY <1>10, Onward DEF Postgres!NextEdit, Stays
<1>11. ASSUME Postgres!Undo(a) PROVE Fares(a)
  <2>1. ASSUME Sends(a, "rollback", "undoing"), Pc(a) = "done" PROVE Fares(a)
    <3>1. CASE session = "up"
      BY <2>1, <3>1
    <3>2. CASE session # "up"
      BY <2>1, <3>2
    <3> QED
      BY <3>1, <3>2
  <2>2. ASSUME session # "up", Ends(a, "cancelled", session), Pc(a) = "done" PROVE Fares(a)
    BY <2>2
  <2> QED
    BY <1>11, <2>1, <2>2 DEF Postgres!Undo
<1>12. ASSUME Postgres!Undone(a) PROVE Fares(a)
  BY <1>12 DEF Postgres!Undone
<1>13. ASSUME Postgres!Commit(a) PROVE Fares(a)
  <2>1. ASSUME Sends(a, "commit", "committing"), Pc(a) = "decide" PROVE Fares(a)
    <3>1. CASE session = "up"
      BY <2>1, <3>1
    <3>2. CASE session # "up"
      BY <2>1, <3>2
    <3> QED
      BY <3>1, <3>2
  <2>2. ASSUME Pc(a) = "decide",
               call' = [call EXCEPT ![a].outcome = "cancelled", ![a].pc = "undoing"],
               sent' = [sent EXCEPT ![a] = IF session = "up" THEN [what |-> "rollback", reply |-> "none"]
                                           ELSE [what |-> "none", reply |-> "lost"]],
               session' = session
        PROVE  Fares(a)
    <3>1. call'[a].pc = "undoing" /\ call'[a].step = call[a].step /\ call'[a].answer = call[a].answer
      BY <2>2, Types DEF Calls
    <3>2. /\ session = "up" => sent'[a].what = "rollback" /\ sent'[a].reply = "none"
          /\ session # "up" => sent'[a].what = "none" /\ sent'[a].reply = "lost"
      BY <2>2, Types
    <3> QED
      BY <2>2, <3>1, <3>2
  <2>3. ASSUME Pc(a) = "committing",
               \/ Reply(a) = "ok" /\ Ends(a, "ok", session)
               \/ Reply(a) = "error" /\ \E s \in {session, GivenUp} : Ends(a, "error", s)
               \/ Reply(a) = "killed" /\ \E s \in {session, GivenUp} : Ends(a, "cancelled", s)
               \/ Reply(a) = "lost" /\ Ends(a, "unknown", GivenUp)
        PROVE  Fares(a)
    <3>1. CASE Reply(a) = "ok"
      BY <2>3, <3>1
    <3>2. CASE Reply(a) = "lost"
      BY <2>3, <3>2
    <3>3. CASE Reply(a) \in {"error", "killed"}
      <4>1. PICK s \in {session, GivenUp} : Ends(a, "error", s) \/ Ends(a, "cancelled", s)
        BY <2>3, <3>3
      <4>2. /\ call'[a].pc = "returned" /\ call'[a].answer \in {"error", "cancelled"} /\ sent' = sent
            /\ session' \in {session, GivenUp} /\ call'[a].step = call[a].step /\ call'[a].outcome = call[a].outcome
        BY <4>1
      <4>3. Made(a) = {} /\ sent[a].what = "none" /\ (session = "up" => Own(a) = {})
        BY <2>3, <3>3
      <4> QED
        BY <2>3, <3>3, <4>2, <4>3
    <3> QED
      BY <2>3, <3>1, <3>2, <3>3
  <2>4. CASE Pc(a) = "decide"
    BY <1>13, <2>1, <2>2, <2>4 DEF Postgres!Commit
  <2>5. CASE Pc(a) = "committing"
    BY <1>13, <2>3, <2>5 DEF Postgres!Commit
  <2> QED
    BY <1>13, <2>4, <2>5 DEF Postgres!Commit
<1>14. ASSUME Postgres!Drop(a) PROVE Fares(a)
  BY <1>14, SMTT(20) DEF Postgres!Drop, Postgres!Drops
<1> QED
  BY <1>4, <1>5, <1>6, <1>7, <1>8, <1>9, <1>10, <1>11, <1>12, <1>13, <1>14, Zenon DEF Postgres!Steps

LEMMA MySqlFares ==
  ASSUME TypeOK, KillInv, adapter = "mysql", NEW a \in Applies, Fate(a), MySql!Steps(a) \/ MySql!Drop(a)
  PROVE  Fares(a)
<1>1. /\ call[a].pc \in Places /\ (call[a].pc \in Unwritten => call[a].step = 1)
      /\ WireFate(a, call[a], sent[a], tx, Own(a)) /\ (session = "up" => Progress(a, call[a], sent[a], tx, Own(a)))
      /\ Decided(a, call[a], sent[a], Own(a), Made(a))
  BY DEF Fate, Fated
<1>2. /\ Pc(a) \notin Outside => holder = a
      /\ GivenUp # "up" /\ (Usable /\ session # "up" => session = "broken")
      /\ ~Usable => session # "up"
  BY OfReview DEF KillInv, LockOK, Locking, GivenUp, Usable
<1>3. /\ Upto(a, Edits) = Whole(a) /\ Upto(a, 0) = {} /\ Whole(a) # {}
      /\ call[a].step \in 1..Edits /\ 1 - 1 = 0
  BY Writing
<1> USE MySqlBlocks, OfReview, <1>1, <1>2, <1>3
    DEF Fares, Fated, WireFate, Progress, Decided, Written, Places, Unwritten, Outside, Left
<1>4. ASSUME MySql!Enter(a) PROVE Fares(a)
  BY <1>4 DEF MySql!Enter
<1>5. ASSUME MySql!Check(a) PROVE Fares(a)
  BY <1>5 DEF MySql!Check
<1>6. ASSUME MySql!Settle(a) PROVE Fares(a)
  BY <1>6 DEF MySql!Settle, MySql!Heard
<1>7. ASSUME MySql!NoticeCancel(a) \/ MySql!StopQuery(a) \/ MySql!CleanupTimeout(a) \/ MySql!EndRun(a)
      PROVE Fares(a)
  BY <1>7 DEF MySql!NoticeCancel, MySql!StopQuery, MySql!CleanupTimeout, MySql!EndRun
<1>8. ASSUME MySql!Begin(a) PROVE Fares(a)
  <2>1. ASSUME Sends(a, "begin", "beginning"), Pc(a) = "begin" PROVE Fares(a)
    <3>1. CASE session = "up"
      BY <2>1, <3>1
    <3>2. CASE session # "up"
      BY <2>1, <3>2
    <3> QED
      BY <3>1, <3>2
  <2>2. ASSUME Pc(a) = "beginning", Reply(a) = "ok", Moves(a, "check"), Stays PROVE Fares(a)
    <3>1. call'[a].step - 1 = 0 /\ call'[a].pc = "check" /\ Left(call'[a], call[a])
      BY <2>2
    <3>2. session = "up" => Written(a, call'[a].step - 1, tx, Own(a))
      BY <2>2, <3>1
    <3> QED
      BY <2>2, <3>1, <3>2 DEF Stays
  <2>3. ASSUME Pc(a) = "beginning", Ends(a, "error", GivenUp) PROVE Fares(a)
    BY <2>3
  <2> QED
    BY <1>8, <2>1, <2>2, <2>3 DEF MySql!Begin
<1>9. ASSUME MySql!NextEdit(a) PROVE Fares(a)
  BY <1>9, Onward DEF MySql!NextEdit, Stays
<1>10. ASSUME MySql!Undo(a) PROVE Fares(a)
  <2>1. ASSUME Sends(a, "rollback", "undoing"), Pc(a) = "done" PROVE Fares(a)
    <3>1. CASE session = "up"
      BY <2>1, <3>1
    <3>2. CASE session # "up"
      BY <2>1, <3>2
    <3> QED
      BY <3>1, <3>2
  <2>2. ASSUME session # "up", Ends(a, "error", session), Pc(a) = "done" PROVE Fares(a)
    BY <2>2
  <2> QED
    BY <1>10, <2>1, <2>2 DEF MySql!Undo
<1>11. ASSUME MySql!Undone(a) PROVE Fares(a)
  BY <1>11 DEF MySql!Undone
<1>12. ASSUME MySql!Commit(a) PROVE Fares(a)
  <2>1. ASSUME Sends(a, "commit", "committing"), Pc(a) = "decide" PROVE Fares(a)
    <3>1. CASE session = "up"
      BY <2>1, <3>1
    <3>2. CASE session # "up"
      BY <2>1, <3>2
    <3> QED
      BY <3>1, <3>2
  <2>2. ASSUME Pc(a) = "decide", Notes(a, "cancelled", session) PROVE Fares(a)
    BY <2>2
  <2>3. ASSUME Pc(a) = "committing", Reply(a) = "ok", Ends(a, "ok", session) PROVE Fares(a)
    BY <2>3
  <2>4. ASSUME Pc(a) = "committing", Reply(a) \notin {"ok", "none"}, Ends(a, "unknown", GivenUp) PROVE Fares(a)
    BY <2>4
  <2> QED
    BY <1>12, <2>1, <2>2, <2>3, <2>4 DEF MySql!Commit
<1>13. ASSUME MySql!Drop(a) PROVE Fares(a)
  BY <1>13, SMTT(20) DEF MySql!Drop, MySql!Drops
<1> QED
  BY <1>4, <1>5, <1>6, <1>7, <1>8, <1>9, <1>10, <1>11, <1>12, <1>13 DEF MySql!Steps

LEMMA MsSqlFares ==
  ASSUME TypeOK, KillInv, AloneOK, adapter = "mssql", NEW a \in Applies, Fate(a), MsSql!Steps(a)
  PROVE  Fares(a)
<1>1. /\ call[a].pc \in Places /\ (call[a].pc \in Unwritten => call[a].step = 1)
      /\ WireFate(a, call[a], sent[a], tx, Own(a)) /\ (session = "up" => Progress(a, call[a], sent[a], tx, Own(a)))
      /\ Decided(a, call[a], sent[a], Own(a), Made(a))
  BY DEF Fate, Fated
<1>2. /\ Pc(a) \notin Outside => holder = a
      /\ GivenUp # "up" /\ (Usable /\ session # "up" => session = "broken")
      /\ ~Usable => session # "up"
      /\ session = "up" /\ sent[a].what # "none" => Executes(a, call[a].pc, sent[a].what)
  BY OfReview DEF KillInv, LockOK, WireOK, Locking, GivenUp, Usable
<1>3. /\ Upto(a, Edits) = Whole(a) /\ Upto(a, 0) = {} /\ Whole(a) # {}
      /\ call[a].step \in 1..Edits /\ Edits \in Nat /\ 1 - 1 = 0
      /\ Own(a) \subseteq pending
  BY Writing, SessionConstants
<1> USE MsSqlBlocks, OfReview, <1>1, <1>2, <1>3
    DEF Fares, Fated, WireFate, Progress, Decided, Written, Places, Unwritten, Outside, Left
<1>4. ASSUME MsSql!Enter(a) PROVE Fares(a)
  BY <1>4 DEF MsSql!Enter
<1>5. ASSUME MsSql!Open(a) PROVE Fares(a)
  <2>1. ASSUME Pc(a) = "opening", \E o \in {"cancelled", "error"} : Ends(a, o, session) PROVE Fares(a)
    BY <2>1
  <2>2. ASSUME Pc(a) = "opening", session = "down", Moves(a, "open"), UNCHANGED sent PROVE Fares(a)
    BY <2>2 DEF AloneOK
  <2>3. ASSUME Pc(a) = "open", Sends(a, "ask", "asking") PROVE Fares(a)
    BY <2>3
  <2> QED
    BY <1>5, <2>1, <2>2, <2>3 DEF MsSql!Open
<1>6. ASSUME MsSql!Ask(a) PROVE Fares(a)
  <2>1. ASSUME Pc(a) = "asking", \E o \in {"cancelled", "error"} : Ends(a, o, GivenUp) PROVE Fares(a)
    BY <2>1
  <2>2. ASSUME Pc(a) = "asking", Reply(a) = "ok", Ends(a, "error", session) PROVE Fares(a)
    BY <2>2
  <2>3. ASSUME Pc(a) = "asking", tx = "none", Sends(a, "begin", "beginning") PROVE Fares(a)
    <3>1. CASE session = "up"
      BY <2>3, <3>1
    <3>2. CASE session # "up"
      BY <2>3, <3>2
    <3> QED
      BY <3>1, <3>2
  <2>4. Pc(a) = "asking" /\ (a \in token \/ Reply(a) # "none")
    BY <1>6 DEF MsSql!Ask
  <2>5. CASE a \in token
    BY <1>6, <2>1, <2>5 DEF MsSql!Ask
  <2>6. CASE a \notin token
    BY <1>6, <2>1, <2>2, <2>3, <2>4, <2>6 DEF MsSql!Ask
  <2> QED
    BY <2>5, <2>6
<1>7. ASSUME MsSql!Abort(a) PROVE Fares(a)
  BY <1>7 DEF MsSql!Abort, Stays
<1>8. ASSUME MsSql!Settle(a) PROVE Fares(a)
  <2>1. ASSUME Pc(a) \in {"beginning", "running"}, Notes(a, "error", session) PROVE Fares(a)
    BY <2>1
  <2>2. ASSUME Pc(a) = "beginning", Reply(a) = "ok", Sends(a, "work", "running") PROVE Fares(a)
    <3>1. call'[a].step - 1 = 0 /\ call'[a].pc = "running" /\ Left(call'[a], call[a])
      BY <2>2
    <3>2. session = "up" => Written(a, call'[a].step - 1, tx, Own(a))
      BY <2>2, <3>1
    <3>3. CASE session = "up"
      BY <2>2, <3>1, <3>2, <3>3
    <3>4. CASE session # "up"
      BY <2>2, <3>1, <3>4
    <3> QED
      BY <3>3, <3>4
  <2>3. ASSUME Pc(a) = "running", Reply(a) = "ok", call[a].step = Edits, Notes(a, "ok", session) PROVE Fares(a)
    BY <2>3
  <2>4. ASSUME Pc(a) = "running", Reply(a) = "ok", Stays,
               call' = [call EXCEPT ![a].step = @ + 1, ![a].pc = "sending"]
        PROVE  Fares(a)
    <3>1. /\ call'[a].pc = "sending" /\ call'[a].step = call[a].step + 1
          /\ call'[a].outcome = call[a].outcome /\ call'[a].answer = call[a].answer
      BY <2>4, Types DEF Calls
    <3>2. call'[a].step - 1 = call[a].step
      BY <3>1
    <3> QED
      BY <2>4, <3>1, <3>2, SMTT(20) DEF Stays
  <2> QED
    BY <1>8, <2>1, <2>2, <2>3, <2>4 DEF MsSql!Settle
<1>9. ASSUME MsSql!SendNext(a) PROVE Fares(a)
  <2>1. Pc(a) = "sending" /\ Sends(a, "work", "running")
    BY <1>9 DEF MsSql!SendNext
  <2>2. CASE session = "up"
    BY <2>1, <2>2
  <2>3. CASE session # "up"
    BY <2>1, <2>3
  <2> QED
    BY <2>2, <2>3
<1>10. ASSUME MsSql!Discard(a) PROVE Fares(a)
  BY <1>10 DEF MsSql!Discard
<1>11. ASSUME MsSql!Commit(a) PROVE Fares(a)
  <2>1. ASSUME Pc(a) = "done", Outcome(a) = "ok", Ends(a, "cancelled", GivenUp) PROVE Fares(a)
    BY <2>1
  <2>2. ASSUME Pc(a) = "done", Outcome(a) = "ok", Sends(a, "commit", "committing") PROVE Fares(a)
    <3>1. CASE session = "up"
      BY <2>2, <3>1
    <3>2. CASE session # "up"
      BY <2>2, <3>2
    <3> QED
      BY <3>1, <3>2
  <2>3. ASSUME Pc(a) = "committing", Reply(a) = "ok", Ends(a, "ok", session) PROVE Fares(a)
    BY <2>3
  <2>4. ASSUME Pc(a) = "committing", Reply(a) \notin {"ok", "none"}, Ends(a, "unknown", GivenUp) PROVE Fares(a)
    BY <2>4
  <2> QED
    BY <1>11, <2>1, <2>2, <2>3, <2>4 DEF MsSql!Commit
<1> QED
  BY <1>4, <1>5, <1>6, <1>7, <1>8, <1>9, <1>10, <1>11, Zenon DEF MsSql!Steps, MsSql!EndRun

LEMMA OracleFares ==
  ASSUME TypeOK, KillInv, AloneOK, adapter = "oracle", NEW a \in Applies, Fate(a), Oracle!Steps(a)
  PROVE  Fares(a) \/ (call'[a].pc = "returned" /\ call'[a].answer = "unknown")
<1>1. /\ call[a].pc \in Places /\ (call[a].pc \in Unwritten => call[a].step = 1)
      /\ WireFate(a, call[a], sent[a], tx, Own(a)) /\ (session = "up" => Progress(a, call[a], sent[a], tx, Own(a)))
      /\ Decided(a, call[a], sent[a], Own(a), Made(a))
  BY DEF Fate, Fated
<1>2. /\ Pc(a) \notin Outside => holder = a
      /\ GivenUp # "up" /\ (Usable /\ session # "up" => session = "broken")
      /\ ~Usable => session # "up"
  BY OfReview DEF KillInv, LockOK, Locking, GivenUp, Usable
<1>3. /\ Upto(a, Edits) = Whole(a) /\ Upto(a, 0) = {} /\ Whole(a) # {}
      /\ call[a].step \in 1..Edits /\ 1 - 1 = 0
      /\ Own(a) \subseteq pending
  BY Writing
<1>4. \A o : Oracle!Rollback(a, o) =>
        /\ call'[a].pc = "undoing" /\ call'[a].step = call[a].step /\ call'[a].outcome = o
        /\ call'[a].answer = call[a].answer /\ session' = session
        /\ session = "up" => sent'[a].what = "rollback" /\ sent'[a].reply = "none"
        /\ session # "up" => sent'[a].what = "none" /\ sent'[a].reply = "lost"
  BY OfReview, Types DEF Oracle!Rollback, Calls
<1> USE OracleBlocks, OfReview, <1>1, <1>2, <1>3
    DEF Fares, Fated, WireFate, Progress, Decided, Written, Places, Unwritten, Outside, Left
<1>5. ASSUME Pc(a) \in {"check", "running", "decide"}, Reply(a) # "lost" \/ Pc(a) # "committing",
             NEW o \in {"cancelled", "undone"}, Oracle!Rollback(a, o)
      PROVE  Fares(a)
  <2>1. CASE session = "up"
    BY <1>4, <1>5, <2>1
  <2>2. CASE session # "up"
    BY <1>4, <1>5, <2>2
  <2> QED
    BY <2>1, <2>2
<1>6. ASSUME Oracle!Enter(a) PROVE Fares(a)
  BY <1>6 DEF Oracle!Enter
<1>7. ASSUME Oracle!Job(a) PROVE Fares(a)
  <2>1. ASSUME Pc(a) = "job", \E o \in {"cancelled", "error"} : Ends(a, o, session) PROVE Fares(a)
    BY <2>1
  <2>2. ASSUME Pc(a) = "job", Moves(a, "check"), Stays PROVE Fares(a)
    <3>1. call'[a].step - 1 = 0 /\ call'[a].pc = "check" /\ Left(call'[a], call[a])
      BY <2>2
    <3>2. session = "up" => Written(a, call'[a].step - 1, tx, Own(a))
      BY <2>2, <3>1
    <3> QED
      BY <2>2, <3>1, <3>2 DEF Stays
  <2>3. ASSUME Pc(a) = "job", session = "down", UNCHANGED <<call, sent>> PROVE Fares(a)
    BY <2>3 DEF AloneOK
  <2> QED
    BY <1>7, <2>1, <2>2, <2>3 DEF Oracle!Job
<1>8. ~Oracle!Ran(a)
  BY DEF Oracle!Ran
<1>9. ASSUME Oracle!Probe(a), Outcome(a) # "unknown"
      PROVE  Fares(a) \/ (call'[a].pc = "returned" /\ call'[a].answer = "unknown")
  <2>1. Outcome(a) \in {"none", "ok", "cancelled", "error", "undone"}
    BY <1>9, Writing DEF Calls, Outcomes
  <2>2. Pc(a) = "done" /\ (Ends(a, Outcome(a), session) \/ Ends(a, "unknown", GivenUp))
    BY <1>9 DEF Oracle!Probe
  <2>3. ASSUME Ends(a, Outcome(a), session) PROVE Fares(a)
    BY <1>9, <2>1, <2>2, <2>3
  <2> QED
    BY <2>2, <2>3
<1>10. ASSUME Oracle!Probe(a), Outcome(a) = "unknown"
       PROVE  call'[a].pc = "returned" /\ call'[a].answer = "unknown"
  BY <1>10 DEF Oracle!Probe
<1>11. ASSUME Oracle!Edit(a) PROVE Fares(a)
  <2>1. ASSUME Pc(a) = "check", Sends(a, "work", "running") PROVE Fares(a)
    <3>1. CASE session = "up"
      <4>1. /\ call'[a].pc = "running" /\ Left(call'[a], call[a]) /\ session' = session
            /\ sent'[a].what = "work" /\ sent'[a].reply = "none"
        BY <2>1, <3>1
      <4>2. Made(a) = {} /\ Written(a, call'[a].step - 1, tx, Own(a)) /\ call'[a].answer = "none"
        BY <2>1, <3>1, <4>1
      <4> QED
        BY <3>1, <4>1, <4>2
    <3>2. CASE session # "up"
      BY <2>1, <3>2
    <3> QED
      BY <3>1, <3>2
  <2>2. ASSUME Pc(a) = "running", Reply(a) = "ok", Stays,
               call' = IF call[a].step < Edits
                         THEN [call EXCEPT ![a].pc = "check", ![a].step = @ + 1]
                         ELSE [call EXCEPT ![a].pc = "decide"]
        PROVE  Fares(a)
    BY <2>2, Onward, ZenonT(60) DEF Stays
  <2> QED
    BY <1>5, <1>11, <2>1, <2>2 DEF Oracle!Edit
<1>12. ASSUME Oracle!Undone(a) PROVE Fares(a)
  BY <1>12 DEF Oracle!Undone
<1>13. ASSUME Oracle!Commit(a) PROVE Fares(a)
  <2>1. ASSUME Pc(a) = "decide", Sends(a, "commit", "committing") PROVE Fares(a)
    <3>1. CASE session = "up"
      BY <2>1, <3>1
    <3>2. CASE session # "up"
      BY <2>1, <3>2
    <3> QED
      BY <3>1, <3>2
  <2>2. ASSUME Pc(a) = "committing", Reply(a) = "ok", Notes(a, "ok", session) PROVE Fares(a)
    BY <2>2
  <2>3. ASSUME Pc(a) = "committing", Reply(a) \notin {"ok", "none"}, Notes(a, "unknown", session) PROVE Fares(a)
    BY <2>3
  <2> QED
    BY <1>5, <1>13, <2>1, <2>2, <2>3 DEF Oracle!Commit
<1> QED
  BY <1>6, <1>7, <1>8, <1>9, <1>10, <1>11, <1>12, <1>13 DEF Oracle!Steps

LEMMA DuckDbFares ==
  ASSUME TypeOK, KillInv, adapter = "duckdb", NEW a \in Applies, Fate(a), DuckDb!Steps(a)
  PROVE  Fares(a)
<1>1. /\ call[a].pc \in Places /\ (call[a].pc \in Unwritten => call[a].step = 1)
      /\ WireFate(a, call[a], sent[a], tx, Own(a)) /\ (session = "up" => Progress(a, call[a], sent[a], tx, Own(a)))
      /\ Decided(a, call[a], sent[a], Own(a), Made(a))
  BY DEF Fate, Fated
<1>2. session = "up"
  BY DEF KillInv, KillOK
<1>3. /\ Upto(a, Edits) = Whole(a) /\ Upto(a, 0) = {} /\ Whole(a) # {}
      /\ call[a].step \in 1..Edits /\ 1 - 1 = 0
  BY Writing
<1>4. \A s, p : DuckDb!Starts(a, s, p) =>
        /\ call'[a].pc = p /\ Left(call'[a], call[a]) /\ session' = session
        /\ sent'[a].what = s /\ sent'[a].reply = "none"
  BY DuckDbBlocks, OfReview, Types DEF DuckDb!Starts
<1> USE DuckDbBlocks, OfReview, <1>1, <1>2, <1>3, <1>4
    DEF Fares, Fated, WireFate, Progress, Decided, Written, Places, Unwritten, Left
<1>5. ASSUME DuckDb!GiveUp(a) PROVE Fares(a)
  <2>1. /\ call'[a].pc = "orphan" /\ call'[a].answer = "cancelled"
        /\ call'[a].step = call[a].step /\ call'[a].outcome = call[a].outcome
    BY <1>5, Types DEF DuckDb!GiveUp, Calls
  <2> QED
    BY <1>5, <2>1 DEF DuckDb!GiveUp, Stays
<1>6. ASSUME DuckDb!Watch(a) PROVE Fares(a)
  BY <1>6 DEF DuckDb!Watch
<1>7. ASSUME DuckDb!Acquire(a) PROVE Fares(a)
  BY <1>7 DEF DuckDb!Acquire
<1>8. ~DuckDb!Run(a)
  BY DEF DuckDb!Run
<1>9. ASSUME DuckDb!Begin(a) PROVE Fares(a)
  <2>1. ASSUME Pc(a) = "begin", DuckDb!Starts(a, "begin", "beginning") PROVE Fares(a)
    BY <2>1
  <2>2. ASSUME Pc(a) \in {"begin", "beginning"}, \E o \in {"cancelled", "error"} : Ends(a, o, session) PROVE Fares(a)
    BY <2>2
  <2>3. ASSUME Pc(a) = "beginning", Reply(a) = "ok", Moves(a, "check"), Stays PROVE Fares(a)
    <3>1. call'[a].step - 1 = 0 /\ call'[a].pc = "check" /\ Left(call'[a], call[a])
      BY <2>3
    <3>2. Written(a, call'[a].step - 1, tx, Own(a))
      BY <2>3, <3>1
    <3> QED
      BY <2>3, <3>1, <3>2 DEF Stays
  <2> QED
    BY <1>9, <2>1, <2>2, <2>3 DEF DuckDb!Begin, DuckDb!Hears
<1>10. ASSUME Pc(a) \in {"check", "running", "decide"}, DuckDb!Starts(a, "rollback", "undoing") PROVE Fares(a)
  BY <1>10
<1>11. ASSUME DuckDb!Edit(a) PROVE Fares(a)
  <2>1. ASSUME Pc(a) = "check", DuckDb!Starts(a, "work", "running") PROVE Fares(a)
    BY <2>1
  <2>2. ASSUME Pc(a) = "running", Reply(a) = "ok", Stays,
               call' = IF call[a].step < Edits
                         THEN [call EXCEPT ![a].pc = "check", ![a].step = @ + 1]
                         ELSE [call EXCEPT ![a].pc = "decide"]
        PROVE  Fares(a)
    BY <2>2, Onward, ZenonT(60) DEF Stays
  <2> QED
    BY <1>10, <1>11, <2>1, <2>2 DEF DuckDb!Edit
<1>12. ASSUME DuckDb!Undone(a) PROVE Fares(a)
  BY <1>12 DEF DuckDb!Undone, DuckDb!Hears
<1>13. ASSUME DuckDb!Commit(a) PROVE Fares(a)
  <2>1. ASSUME Pc(a) = "decide", DuckDb!Starts(a, "commit", "committing") PROVE Fares(a)
    BY <2>1
  <2>2. ASSUME Pc(a) = "committing", Reply(a) = "ok", Ends(a, "ok", session) PROVE Fares(a)
    BY <2>2
  <2>3. ASSUME Pc(a) = "committing", Reply(a) \notin {"ok", "none"}, Ends(a, "error", session) PROVE Fares(a)
    BY <2>3
  <2> QED
    BY <1>10, <1>13, <2>1, <2>2, <2>3 DEF DuckDb!Commit
<1> QED
  BY <1>5, <1>6, <1>7, <1>8, <1>9, <1>11, <1>12, <1>13 DEF DuckDb!Steps, DuckDb!Job

\* A driver's step on a request, seen from every review.
LEMMA DriverKeepsFate ==
  ASSUME TypeOK, KillInv, KillInv', FateInv, adapter \in Locking, NEW r \in Requests,
         Local(Steps(r)) \/ Local(Drop(r))
  PROVE  FateInv'
<1>1. /\ Shaped(r) /\ (Steps(r) \/ Drop(r)) /\ adapter' = adapter /\ token' = token
      /\ tx' = tx /\ pending' = pending /\ durable' = durable
      /\ \A q \in Requests \ {r} : call'[q] = call[q] /\ sent'[q] = sent[q]
      /\ \A q, p, s : Executes(q, p, s)' = Executes(q, p, s)
  BY DriverShaped, OthersStay DEF Local, choice, db
<1>2. \A a : Own(a)' = Own(a) /\ Made(a)' = Made(a)
  BY <1>1 DEF Own, Made
<1>3. Safe(r)
  BY <1>1, PostgresSafe, MySqlSafe, MsSqlSafe, OracleSafe, DuckDbSafe DEF Steps, Drop, Locking, Stored
<1>4. AloneOK /\ \A a \in Applies : Void(a) \/ (Sole(a) /\ Fate(a))
  BY DEF FateInv
<1>5. AloneOK'
  <2>1. ASSUME NEW p \in Requests, NEW q \in Requests, sent'[p].what # "none", sent'[q].what # "none"
        PROVE  p = q
    <3>1. CASE session' = "up"
      <4>1. Executes(p, call'[p].pc, sent'[p].what) /\ Executes(q, call'[q].pc, sent'[q].what)
        BY <1>1, <2>1, <3>1 DEF KillInv, WireOK, Pc
      <4>2. call'[p].pc \notin Outside /\ call'[q].pc \notin Outside
        BY <4>1 DEF Executes, Executing, Outside
      <4> QED
        BY <1>1, <4>2 DEF KillInv, LockOK, Pc
    <3>2. CASE session' # "up"
      <4>1. sent[p].what # "none" /\ sent[q].what # "none"
        BY <1>1, <1>3, <2>1, <3>2 DEF Safe
      <4> QED
        BY <1>4, <4>1 DEF AloneOK
    <3> QED
      BY <3>1, <3>2
  <2>2. session' \in {"broken", "down"} => pending' = {} /\ tx' = "none"
    BY <1>1, <1>3, <1>4 DEF Safe, AloneOK
  <2> QED
    BY <2>1, <2>2 DEF AloneOK
<1>6. ASSUME NEW a \in Applies, a = r PROVE Void(a)' \/ (Sole(a)' /\ Fate(a)')
  <2>1. ~Void(a)
    <3>1. adapter = "oracle" => Pc(r) # "returned"
      BY <1>1, OracleBlocks
      DEF Steps, Drop, Stored, Oracle!Steps, Oracle!Enter, Oracle!Job, Oracle!Ran, Oracle!Probe, Oracle!Edit,
          Oracle!Undone, Oracle!Commit
    <3> QED
      BY <1>6, <3>1 DEF Void
  <2>2. Sole(a) /\ Fate(a)
    BY <1>4, <2>1
  <2>3. Sole(a)'
    BY <1>1, <1>2, <1>6, <2>2 DEF Sole
  <2>4. CASE Fares(a)
    BY <1>1, <1>2, <2>3, <2>4, FateKept DEF Fares
  <2>5. Fares(a) \/ (adapter = "oracle" /\ call'[a].pc = "returned" /\ call'[a].answer = "unknown")
    BY <1>1, <1>4, <1>6, <2>2, PostgresFares, MySqlFares, MsSqlFares, OracleFares, DuckDbFares
    DEF Steps, Drop, Locking, Stored
  <2>6. CASE adapter = "oracle" /\ call'[a].pc = "returned" /\ call'[a].answer = "unknown"
    BY <1>1, <2>6 DEF Void, Pc, Said
  <2> QED
    BY <2>4, <2>5, <2>6
<1>7. ASSUME NEW a \in Applies, a # r PROVE Void(a)' \/ (Sole(a)' /\ Fate(a)')
  <2>1. a \in Requests /\ call'[a] = call[a] /\ sent'[a] = sent[a]
    BY <1>1, <1>7 DEF Requests
  <2>2. CASE Void(a)
    BY <1>1, <2>1, <2>2 DEF Void, Pc, Said
  <2>3. CASE Sole(a) /\ Fate(a)
    <3>1. /\ call[a].pc \in Places /\ (call[a].pc \in Unwritten => call[a].step = 1)
          /\ WireFate(a, call[a], sent[a], tx, Own(a)) /\ (session = "up" => Progress(a, call[a], sent[a], tx, Own(a)))
          /\ Decided(a, call[a], sent[a], Own(a), Made(a))
      BY <2>3 DEF Fate, Fated
    <3>2. ASSUME Own(a) # {}, sent[r].what = "none", sent'[r].what # "none" PROVE FALSE
      <4>1. session = "up" /\ session' = "up" /\ Executes(r, call'[r].pc, sent'[r].what)
        BY <1>3, <3>2 DEF Safe
      <4>2. holder' = r
        BY <1>3, <4>1 DEF Safe, Executes, Executing, Outside
      <4>3. call'[a].pc \in Outside
        BY <1>1, <1>7, <2>1, <4>2 DEF KillInv, LockOK, Pc
      <4> QED
        BY <2>1, <3>1, <3>2, <4>1, <4>3 DEF Progress, Outside, Unwritten
    <3>3. Sole(a)'
      BY <1>1, <1>2, <1>7, <2>3, <3>2 DEF Sole
    <3>4. session' = "up" => Progress(a, call[a], sent[a], tx, Own(a))
      <4>1. ASSUME session' = "up", session = "down", Pc(r) \notin Outside
            PROVE  Progress(a, call[a], sent[a], tx, Own(a))
        <5>1. call[a].pc \in Outside
          BY <1>7, <2>1, <4>1 DEF KillInv, LockOK, Pc
        <5>2. Own(a) = {}
          BY <1>4, <4>1 DEF AloneOK, Own
        <5> QED
          BY <5>1, <5>2 DEF Progress, Outside
      <4> QED
        BY <1>3, <3>1, <4>1 DEF Safe
    <3>6. Fate(a)'
      <4>1. Fated(a, call'[a], sent'[a], session', tx', Own(a)', Made(a)')
        BY <1>1, <1>2, <2>1, <3>1, <3>4 DEF Fated
      <4> QED
        BY <1>1, <4>1, FateKept
    <3> QED
      BY <3>3, <3>6
  <2> QED
    BY <1>4, <2>2, <2>3
<1> QED
  BY <1>5, <1>6, <1>7 DEF FateInv

\* The server answers a statement: it took effect, or it did not.
LEMMA AnswerKeepsFate ==
  ASSUME TypeOK, KillInv, FateInv, adapter \in Locking, NEW r \in Requests, AtServer(r),
         NEW o \in {"ok", "error", "killed", "standalone", "some"}, Replied(r, o),
         UNCHANGED <<choice, token, call, session>>,
         \/ o = "ok" /\ TakesEffect(r, sent[r].what)
         \/ /\ o # "ok" /\ (RollsBack \/ Aborts)
            /\ session = "up" /\ sent[r].what = "commit" => RollsBack
            /\ session = "up" => ~(adapter = "duckdb" /\ sent[r].what = "rollback")
  PROVE  FateInv'
<1>1. /\ sent[r].what # "none" /\ session \in {"up", "closing"} /\ adapter' = adapter
      /\ sent'[r] = [what |-> "none", reply |-> o]
      /\ \A q \in Requests \ {r} : sent'[q] = sent[q]
      /\ call' = call /\ session' = session /\ token' = token
  BY Types DEF AtServer, Replied, choice
<1>2. AloneOK /\ \A a \in Applies : Void(a) \/ (Sole(a) /\ Fate(a))
  BY DEF FateInv
<1>3. \A q \in Requests : sent'[q].what = "none"
  BY <1>1, <1>2 DEF AloneOK
<1>4. AloneOK'
  BY <1>1, <1>3 DEF AloneOK
<1>5. ASSUME NEW a \in Applies, ~Void(a) PROVE Sole(a)' /\ Fate(a)'
  <2>1. Sole(a) /\ Fate(a) /\ a \in Requests
    BY <1>2, <1>5 DEF Requests
  <2>2. Sole(a)'
    BY <1>3 DEF Sole
  <2>3. Fated(a, call'[a], sent'[a], session', tx', Own(a)', Made(a)')
    <3>1. CASE a # r
      <4>1. \E s : TakesEffect(r, s) \/ RollsBack \/ Aborts
        OBVIOUS
      <4> QED
        BY <1>1, <1>2, <2>1, <3>1, <4>1, OtherReplied
    <3>2. CASE a = r
      <4>1. session = "up" => Executes(a, call[a].pc, sent[a].what)
        BY <1>1, <2>1, <3>2 DEF KillInv, WireOK, Pc
      <4>2. Made(a) = {}
        BY <1>1, <2>1, <3>2 DEF Fate, Fated, Decided
      <4>3. ASSUME o # "ok"
            PROVE  /\ Made(a)' = {} /\ Own(a)' \subseteq Own(a)
                   /\ session = "up" /\ sent[a].what = "commit" => Own(a)' = {}
        <5>1. CASE RollsBack
          BY <4>2, <5>1 DEF RollsBack, Made, Own
        <5>2. CASE Aborts
          <6>1. pending' = pending /\ durable' = durable
            BY <5>2 DEF Aborts, db
          <6>2. Made(a)' = Made(a) /\ Own(a)' = Own(a)
            BY <6>1 DEF Made, Own
          <6>3. session = "up" /\ sent[a].what = "commit" => RollsBack
            BY <3>2, <4>3
          <6> QED
            BY <4>2, <5>1, <6>2, <6>3
        <5> QED
          BY <4>3, <5>1, <5>2
      <4> QED
        BY <1>1, <2>1, <3>2, <4>1, <4>3, OwnReplied
    <3> QED
      BY <3>1, <3>2
  <2> QED
    BY <1>1, <2>2, <2>3, FateKept
<1>6. ASSUME NEW a \in Applies, Void(a) PROVE Void(a)'
  BY <1>1, <1>6 DEF Void, Pc, Said
<1> QED
  BY <1>4, <1>5, <1>6 DEF FateInv

\* The connection breaks: what was uncommitted is gone, what was in flight took effect or not.
LEMMA BreakKeepsFate ==
  ASSUME TypeOK, FateInv, adapter \in Locking, Breaks
  PROVE  FateInv'
<1>1. /\ adapter' = adapter /\ token' = token /\ call' = call /\ adapter # "duckdb"
      /\ session' \in {"broken", "down"} /\ tx' = "none" /\ pending' = {}
      /\ \A q \in Requests : IF sent[q].what = "none" THEN sent'[q] = sent[q]
                             ELSE sent'[q] = [what |-> "none", reply |-> "lost"]
  BY DEF Breaks, choice
<1>2. AloneOK /\ \A a \in Applies : Void(a) \/ (Sole(a) /\ Fate(a))
  BY DEF FateInv
<1>3. \A q \in Requests : sent'[q].what = "none"
  BY <1>1
<1>4. AloneOK'
  BY <1>1, <1>3 DEF AloneOK
<1>5. ASSUME NEW a \in Applies, Sole(a), Fate(a) PROVE Sole(a)' /\ Fate(a)'
  <2>1. /\ call[a].pc \in Places /\ (call[a].pc \in Unwritten => call[a].step = 1)
        /\ WireFate(a, call[a], sent[a], tx, Own(a)) /\ Decided(a, call[a], sent[a], Own(a), Made(a))
        /\ a \in Requests /\ Whole(a) # {}
    BY <1>5, Writing DEF Fate, Fated
  <2>2. Sole(a)' /\ Own(a)' = {}
    BY <1>1, <1>3 DEF Sole, Own
  <2>3. Made(a)' = Made(a) \/ (sent[a].what = "commit" /\ Made(a)' = Whole(a))
    <3>1. CASE durable' = durable
      BY <3>1 DEF Made
    <3>2. ASSUME NEW r \in Requests, sent[r].what = "commit", durable' = durable \cup pending
          PROVE  Made(a)' = Made(a) \/ (sent[a].what = "commit" /\ Made(a)' = Whole(a))
      <4>1. Made(a)' = Made(a) \cup Own(a)
        BY <3>2 DEF Made, Own
      <4>2. CASE r = a
        <5>1. Made(a) = {} /\ Own(a) = Whole(a)
          BY <2>1, <3>2, <4>2 DEF WireFate, Decided
        <5> QED
          BY <3>2, <4>1, <4>2, <5>1
      <4>3. CASE r # a
        BY <1>5, <3>2, <4>1, <4>3 DEF Sole
      <4> QED
        BY <4>2, <4>3
    <3>3. ASSUME NEW r \in Requests, NEW w, durable' = durable \cup w,
                 \/ sent[r].what = "work" /\ Autocommits /\ w = {Write(r)}
                 \/ sent[r].what = "publish" /\ w = Own(r)
                 \/ sent[r].what = "batch" /\ w \subseteq Whole(r)
          PROVE  Made(a)' = Made(a)
      <4>1. r # a
        BY <2>1, <3>3 DEF WireFate, Autocommits
      <4>2. \A x \in w : x[1] = r
        BY <3>3 DEF Write, Own, Whole
      <4> QED
        BY <3>3, <4>1, <4>2 DEF Made
    <3>4. CASE \E r \in Requests :
                 \/ sent[r].what = "commit" /\ tx = "open" /\ durable' = durable \cup pending
                 \/ sent[r].what = "work" /\ Autocommits /\ durable' = durable \cup {Write(r)}
                 \/ sent[r].what = "publish" /\ durable' = durable \cup Own(r)
                 \/ sent[r].what = "batch" /\ \E w \in (IF adapter = "redis" THEN SUBSET Whole(r) ELSE {Whole(r)}) :
                                                durable' = durable \cup w
      <4>1. PICK r \in Requests :
                 \/ sent[r].what = "commit" /\ tx = "open" /\ durable' = durable \cup pending
                 \/ sent[r].what = "work" /\ Autocommits /\ durable' = durable \cup {Write(r)}
                 \/ sent[r].what = "publish" /\ durable' = durable \cup Own(r)
                 \/ sent[r].what = "batch" /\ \E w \in (IF adapter = "redis" THEN SUBSET Whole(r) ELSE {Whole(r)}) :
                                                durable' = durable \cup w
        BY <3>4
      <4>2. CASE sent[r].what = "commit" /\ durable' = durable \cup pending
        BY <3>2, <4>2
      <4>3. CASE sent[r].what = "work" /\ Autocommits /\ durable' = durable \cup {Write(r)}
        BY <3>3, <4>3
      <4>4. CASE sent[r].what = "publish" /\ durable' = durable \cup Own(r)
        BY <3>3, <4>4
      <4>5. CASE sent[r].what = "batch" /\ \E w \in SUBSET Whole(r) : durable' = durable \cup w
        BY <3>3, <4>5
      <4> QED
        BY <4>1, <4>2, <4>3, <4>4, <4>5
    <3> QED
      BY <3>1, <3>4 DEF Breaks
  <2>4. Decided(a, call[a], sent'[a], Own(a)', Made(a)')
    <3>1. CASE sent[a].what = "none"
      BY <1>1, <2>1, <2>2, <2>3, <3>1 DEF Decided
    <3>2. CASE sent[a].what # "none" /\ Made(a)' = Made(a)
      <4>1. Made(a) = {} /\ sent'[a].what = "none" /\ sent'[a].reply = "lost"
        BY <1>1, <2>1, <3>2 DEF Decided
      <4> QED
        BY <2>1, <3>2, <4>1 DEF Decided
    <3>3. CASE sent[a].what = "commit" /\ Made(a)' = Whole(a)
      <4>1. /\ Made(a) = {} /\ sent'[a].what = "none" /\ sent'[a].reply = "lost"
            /\ call[a].pc = "committing" \/ (call[a].pc = "returned" /\ call[a].answer = "none")
        BY <1>1, <2>1, <3>3 DEF Decided, WireFate
      <4> QED
        BY <2>1, <2>2, <3>3, <4>1 DEF Decided
    <3> QED
      BY <2>3, <3>1, <3>2, <3>3
  <2>5. WireFate(a, call[a], sent'[a], tx', Own(a)')
    BY <1>1, <1>3, <2>1 DEF WireFate
  <2>6. Fated(a, call'[a], sent'[a], session', tx', Own(a)', Made(a)')
    BY <1>1, <2>1, <2>4, <2>5 DEF Fated
  <2> QED
    BY <1>1, <2>2, <2>6, FateKept
<1>6. ASSUME NEW a \in Applies, Void(a) PROVE Void(a)'
  BY <1>1, <1>6 DEF Void, Pc, Said
<1> QED
  BY <1>2, <1>4, <1>5, <1>6 DEF FateInv

\* So does every step of the server.
LEMMA ServerKeepsFate ==
  ASSUME TypeOK, KillInv, FateInv, adapter \in Locking, Server
  PROVE  FateInv'
<1>1. ASSUME NEW r \in Requests, Serves(r) PROVE FateInv'
  BY <1>1, AnswerKeepsFate DEF Serves
<1>2. ASSUME NEW r \in Requests, Refuses(r) PROVE FateInv'
  <2>1. PICK o \in {"error", "killed", "standalone"} : Replied(r, o)
    BY <1>2 DEF Refuses
  <2>2. /\ AtServer(r) /\ UNCHANGED <<choice, token, call, session>> /\ (RollsBack \/ Aborts)
        /\ sent[r].what = "commit" => RollsBack
        /\ ~(adapter = "duckdb" /\ sent[r].what = "rollback")
    BY <1>2 DEF Refuses
  <2> QED
    BY <2>1, <2>2, AnswerKeepsFate
<1>3. ASSUME NEW r \in Requests, ServesSome(r) PROVE FateInv'
  BY <1>3 DEF ServesSome, Locking
<1>4. ASSUME NEW k \in kill, KillArrives(k) PROVE FateInv'
  <2>1. CASE Struck(k) = {}
    <3>1. UNCHANGED <<choice, token, call, session, sent, db>>
      BY <1>4, <2>1 DEF KillArrives
    <3>2. \A a : Own(a)' = Own(a) /\ Made(a)' = Made(a)
      BY <3>1 DEF db, Own, Made
    <3>3. /\ adapter' = adapter /\ AloneOK' /\ tx' = tx
          /\ \A a : (Void(a) => Void(a)') /\ (Sole(a) => Sole(a)')
      BY <3>1, <3>2 DEF choice, db, AloneOK, Void, Pc, Said, Sole, FateInv
    <3>4. ASSUME NEW a \in Applies, Fate(a) PROVE Fate(a)'
      BY <3>1, <3>2, <3>3, <3>4, FateKept DEF Fate
    <3> QED
      BY <3>3, <3>4 DEF FateInv
  <2>2. CASE Struck(k) # {}
    <3>1. PICK r \in Struck(k) : Replied(r, "killed") /\ Aborts
      BY <1>4, <2>2 DEF KillArrives
    <3>2. r \in Requests /\ AtServer(r) /\ UNCHANGED <<choice, token, call, session>>
      BY <1>4 DEF KillArrives, Struck
    <3>3. session = "up" => sent[r].what \notin {"commit", "rollback"}
      BY KillMeetsItsOwn DEF OwnKill
    <3> QED
      BY <3>1, <3>2, <3>3, AnswerKeepsFate
  <2> QED
    BY <2>1, <2>2
<1> QED
  BY <1>1, <1>2, <1>3, <1>4, BreakKeepsFate DEF Server

\* What a review has written, uncommitted and for good, is always what its place and
\* its answer say, however it is cancelled, killed, dropped or cut off.
THEOREM FateInvariant == Spec => []FateInv
<1>1. Init => FateInv
  <2> SUFFICES ASSUME Init, adapter \in Locking PROVE FateInv
    BY DEF FateInv
  <2>1. \A r \in Requests : /\ call[r] = [pc |-> "idle", step |-> 1, outcome |-> "none", answer |-> "none"]
                            /\ sent[r] = [what |-> "none", reply |-> "none"]
    BY DEF Init, Nothing
  <2>2. AloneOK
    BY <2>1 DEF Init, AloneOK
  <2>3. ASSUME NEW a \in Applies PROVE Sole(a) /\ Fate(a)
    <3>1. a \in Requests /\ Own(a) = {} /\ Made(a) = {}
      BY SessionConstants DEF Init, Own, Made, Users, Requests
    <3>2. WireFate(a, call[a], sent[a], tx, Own(a)) /\ Progress(a, call[a], sent[a], tx, Own(a))
      BY <2>1, <3>1 DEF WireFate, Progress, Unwritten
    <3>3. Decided(a, call[a], sent[a], Own(a), Made(a))
      BY <2>1, <3>1 DEF Decided
    <3> QED
      BY <2>1, <3>1, <3>2, <3>3 DEF Sole, Fate, Fated, Places, Unwritten
  <2> QED
    BY <2>2, <2>3 DEF FateInv
<1>2. TypeOK /\ KillInv /\ KillInv' /\ FateInv /\ [Next]_vars => FateInv'
  <2> SUFFICES ASSUME TypeOK, KillInv, KillInv', FateInv, [Next]_vars PROVE FateInv'
    OBVIOUS
  <2>1. adapter' = adapter
    <3>1. ASSUME NEW r \in Requests, Call(r) \/ Cancel(r) \/ Local(Steps(r)) \/ Local(Drop(r)) PROVE adapter' = adapter
      BY <3>1 DEF Call, Cancel, Local, choice
    <3>2. ASSUME Server PROVE adapter' = adapter
      BY <3>2 DEF Server, Serves, Refuses, ServesSome, KillArrives, Breaks, choice
    <3>3. ASSUME UNCHANGED vars PROVE adapter' = adapter
      BY <3>3 DEF vars, choice
    <3> QED
      BY <3>1, <3>2, <3>3 DEF Next
  <2>2. CASE adapter \notin Locking
    BY <2>1, <2>2 DEF FateInv
  <2>3. ASSUME adapter \in Locking, UNCHANGED <<sent, session, db>>, token \subseteq token',
               NEW r \in Requests, \A q \in Requests \ {r} : call'[q] = call[q],
               call'[r] = call[r] \/ (Pc(r) = "idle" /\ Moves(r, "wait"))
        PROVE  FateInv'
    <3>1. \A a : Own(a)' = Own(a) /\ Made(a)' = Made(a)
      BY <2>3 DEF db, Own, Made
    <3>2. tx' = tx /\ AloneOK /\ AloneOK' /\ \A a \in Applies : Void(a) \/ (Sole(a) /\ Fate(a))
      BY <2>3 DEF db, FateInv, AloneOK
    <3>3. ASSUME NEW a \in Applies, Void(a) PROVE Void(a)'
      <4>1. a \in Requests /\ Pc(a) = "returned"
        BY <3>3 DEF Void, Requests
      <4>2. call'[a] = call[a]
        BY <2>3, <4>1
      <4> QED
        BY <2>1, <3>3, <4>2 DEF Void, Pc, Said
    <3>4. ASSUME NEW a \in Applies, Sole(a), Fate(a) PROVE Sole(a)' /\ Fate(a)'
      <4>1. Sole(a)' /\ a \in Requests
        BY <2>3, <3>1, <3>4 DEF Sole, Requests
      <4>2. CASE call'[a] = call[a]
        BY <2>1, <2>3, <3>1, <3>2, <3>4, <4>1, <4>2, FateKept DEF Fate
      <4>3. CASE a = r /\ Pc(r) = "idle" /\ Moves(r, "wait")
        <5>1. call[a].pc = "idle" /\ call'[a].pc = "wait" /\ Left(call'[a], call[a])
          BY <4>3, OfReview
        <5>2. Fated(a, call'[a], sent[a], session, tx, Own(a), Made(a))
          BY <3>4, <5>1 DEF Fate, Fated, WireFate, Progress, Decided, Written, Places, Unwritten, Left
        <5> QED
          BY <2>1, <2>3, <3>1, <3>2, <4>1, <5>2, FateKept
      <4> QED
        BY <2>3, <4>1, <4>2, <4>3
    <3> QED
      BY <3>2, <3>3, <3>4 DEF FateInv
  <2>4. ASSUME adapter \in Locking, NEW r \in Requests, Call(r) PROVE FateInv'
    <3>1. UNCHANGED <<sent, session, db>> /\ token' = token /\ Pc(r) = "idle" /\ Moves(r, "wait")
      BY <2>4 DEF Call, Stays
    <3>2. \A q \in Requests \ {r} : call'[q] = call[q]
      BY <3>1, Types DEF Moves
    <3> QED
      BY <2>3, <2>4, <3>1, <3>2
  <2>5. ASSUME adapter \in Locking, NEW r \in Requests, Cancel(r) PROVE FateInv'
    BY <2>3, <2>5 DEF Cancel, driver
  <2>6. ASSUME adapter \in Locking, UNCHANGED vars PROVE FateInv'
    <3>1. UNCHANGED <<sent, session, db>> /\ token' = token /\ call' = call
      BY <2>6 DEF vars, driver
    <3>2. \A a : Own(a)' = Own(a) /\ Made(a)' = Made(a)
      BY <3>1 DEF db, Own, Made
    <3>3. /\ AloneOK' /\ tx' = tx
          /\ \A a : (Void(a) => Void(a)') /\ (Sole(a) => Sole(a)')
      BY <2>1, <2>6, <3>1, <3>2 DEF db, AloneOK, Void, Pc, Said, Sole, FateInv
    <3>4. ASSUME NEW a \in Applies, Fate(a) PROVE Fate(a)'
      BY <2>1, <3>1, <3>2, <3>3, <3>4, FateKept DEF Fate
    <3> QED
      BY <2>6, <3>3, <3>4 DEF FateInv
  <2> QED
    BY <2>2, <2>4, <2>5, <2>6, DriverKeepsFate, ServerKeepsFate DEF Next
<1> QED
  BY <1>1, <1>2, Typing, KillInvariant, PTL DEF Spec

\* With it, what the caller of an apply hears is true.
LEMMA FateIsTold == ASSUME TypeOK, FateInv, adapter \in Locking PROVE AnswersTrue
<1>1. AloneOK /\ \A a \in Applies : Void(a) \/ (Sole(a) /\ Fate(a))
  BY DEF FateInv
<1>2. ASSUME NEW a \in Applies, Fate(a)
      PROVE  /\ Decided(a, call[a], sent[a], Own(a), Made(a))
             /\ call[a].pc \in {"returned", "orphan"} /\ session \in {"up", "broken"} => Own(a) = {}
  <2>1. Decided(a, call[a], sent[a], Own(a), Made(a)) /\ (session = "up" => Progress(a, call[a], sent[a], tx, Own(a)))
    BY <1>2 DEF Fate, Fated
  <2>2. session = "broken" => Own(a) = {}
    BY <1>1 DEF AloneOK, Own
  <2> QED
    BY <2>1, <2>2 DEF Progress, Unwritten
<1>3. OkIsDurable
  BY <1>1, <1>2 DEF OkIsDurable, Void, Said, Decided
<1>4. RefusedStays
  <2> SUFFICES ASSUME NEW a \in Applies, Said(a) \in {"cancelled", "undone", "error"}
               PROVE  Made(a) = {} /\ (Usable => Own(a) = {})
    BY DEF RefusedStays, Refusals
  <2>1. Fate(a) /\ call[a].answer \in {"cancelled", "undone", "error"}
    BY <1>1 DEF Void, Said
  <2>2. Decided(a, call[a], sent[a], Own(a), Made(a)) /\ call[a].pc \in {"returned", "orphan"}
    BY <1>2, <2>1 DEF Decided
  <2>3. Made(a) = {}
    BY <2>1, <2>2 DEF Decided
  <2> QED
    BY <1>2, <2>1, <2>2, <2>3 DEF Usable
<1>5. PartialIsExact
  BY <1>1, <1>2 DEF PartialIsExact, Void, Said, Decided
<1>6. AllOrNothing
  BY <1>1, <1>2 DEF AllOrNothing, Void, Said, Decided, Locking
<1> QED
  BY <1>3, <1>4, <1>5, <1>6 DEF AnswersTrue
-----------------------------------------------------------------------------
(* The stores *)

\* Where a review can be, by adapter.
Stands(c) ==
  /\ c.pc \in {"idle", "wait", "task", "running", "check", "staging", "killing", "abort", "aborting",
               "decide", "committing", "turn", "waiting", "returned"}
  /\ c.pc \in {"check", "staging", "decide", "committing", "abort", "killing", "aborting"} => adapter = "mongodb"
  /\ c.pc \in {"turn", "waiting"} => adapter \in {"mongodb", "scylla"}
  /\ c.pc \in {"task", "running"} => adapter \in {"surrealdb", "redis"}
  /\ c.pc \in {"idle", "wait"} => c.step = 1
  /\ c.pc \in {"abort", "aborting", "killing"} => c.outcome \in {"cancelled", "undone"}

\* What it has at the server, or the reply that came.
Asks(c, m) ==
  /\ m.what # "none" => \/ c.pc \in {"staging", "killing"} /\ m.what = "stage"
                        \/ c.pc = "committing" /\ m.what = "publish"
                        \/ c.pc = "aborting" /\ m.what = "discard"
                        \/ c.pc = "waiting" /\ m.what = "work"
                        \/ c.pc = "running" /\ m.what = "batch"
  /\ c.pc = "staging" /\ m.reply = "standalone" => c.step = 1
  /\ c.pc = "running" /\ m.reply = "some" => adapter = "redis"

\* What of it waits in its client's session, as long as the connection holds.
Staged(a, c, m, s, own) ==
  /\ c.pc \in {"idle", "wait"} => own = {}
  /\ s = "up" =>
       /\ c.pc = "check" => own = Upto(a, c.step - 1)
       /\ c.pc = "staging" /\ m.what # "none" => own = Upto(a, c.step - 1)
       /\ c.pc = "staging" /\ m.reply = "ok" => own = Upto(a, c.step)
       /\ c.pc = "decide" => own = Whole(a)
       /\ c.pc = "committing" /\ m.what # "none" => own = Whole(a)

\* What of it is in the database.
Applied(a, c, m, made) ==
  /\ c.pc \in {"idle", "wait", "task", "check", "staging", "decide", "abort", "killing", "aborting"} => made = {}
  /\ c.pc = "committing" /\ m.reply = "ok" => made = Whole(a)
  /\ c.pc = "turn" \/ (c.pc = "waiting" /\ m.what # "none") => made = Upto(a, c.step - 1)
  /\ c.pc = "waiting" /\ m.reply = "ok" => made = Upto(a, c.step)
  /\ c.pc = "running" => /\ m.what # "none" => made = {}
                         /\ m.reply = "ok" => made = Whole(a)
                         /\ m.reply \notin {"ok", "lost", "some"} => made = {}
  /\ adapter = "surrealdb" => made \in {{}, Whole(a)}

\* What its caller has heard.
Heard(a, c, made) ==
  /\ c.answer # "none" => c.pc = "returned"
  /\ c.answer = "ok" => made = Whole(a)
  /\ c.answer \in Refusals => made = {}
  /\ c.answer = "partial" => c.step > 1 /\ made = Upto(a, c.step - 1)

Kept(a, c, m, s, own, made) ==
  Stands(c) /\ Asks(c, m) /\ Staged(a, c, m, s, own) /\ Applied(a, c, m, made) /\ Heard(a, c, made)
InStore(a) == Kept(a, call[a], sent[a], session, Own(a), Made(a))

StoreInv == adapter \in Stored =>
  /\ tx = "none" /\ session \in {"up", "broken"}
  /\ session = "broken" => \A r \in Requests : sent[r].what = "none"
  /\ \A r \in Runs : sent[r].what \in {"none", "read", "work"}
  /\ \A a \in Applies : InStore(a)

\* Its fate with what the step of a driver leaves of its call and its wire.
Lasts(a) == Kept(a, call'[a], sent'[a], session, Own(a), Made(a))

\* The writes there can be of a review.
LEMMA WritesAreIts == ASSUME TypeOK, NEW a \in Applies PROVE Own(a) \cup Made(a) \subseteq Whole(a)
<1> SUFFICES ASSUME NEW w \in pending \cup durable, w[1] = a PROVE w \in Whole(a)
  BY DEF Own, Made
<1>1. w \in (Requests \X (1..Edits)) \cup {Users}
  BY DEF TypeOK
<1>2. w # Users
  BY SessionConstants DEF Users
<1>3. PICK r \in Requests, i \in 1..Edits : w = <<r, i>>
  BY <1>1, <1>2, SMTT(20)
<1> QED
  BY <1>3 DEF Whole

LEMMA StoreFares ==
  ASSUME TypeOK, adapter \in Stored, session \in {"up", "broken"}, NEW a \in Applies, InStore(a), Stores!Steps(a)
  PROVE  Lasts(a)
<1>1. /\ Stands(call[a]) /\ Asks(call[a], sent[a]) /\ Staged(a, call[a], sent[a], session, Own(a))
      /\ Applied(a, call[a], sent[a], Made(a)) /\ Heard(a, call[a], Made(a))
  BY DEF InStore, Kept
<1>2. /\ Upto(a, Edits) = Whole(a) /\ Upto(a, 0) = {} /\ Whole(a) # {}
      /\ call[a].step \in 1..Edits /\ Edits \in Nat /\ 1 - 1 = 0
      /\ call[a] \in Calls /\ sent[a] \in Wires /\ a \in Requests
  BY Writing, SessionConstants
<1>3. Refusals \subseteq {"cancelled", "undone", "error"} /\ (adapter \in {"surrealdb", "redis"} => "error" \notin Refusals)
  BY DEF Refusals
<1> USE StoresBlocks, OfReview, <1>1, <1>2, <1>3
    DEF Lasts, Kept, Stands, Asks, Staged, Applied, Heard, Left
<1>4. ASSUME Stores!SurrealRun(a) PROVE Lasts(a)
  <2>1. ASSUME Pc(a) \in {"wait", "task"}, adapter = "surrealdb", Ends(a, "cancelled", session) PROVE Lasts(a)
    BY <2>1
  <2>2. ASSUME Pc(a) = "wait", adapter = "surrealdb", Moves(a, "task"), UNCHANGED sent PROVE Lasts(a)
    BY <2>2
  <2>3. ASSUME Pc(a) = "task", adapter = "surrealdb", Sends(a, "batch", "running") PROVE Lasts(a)
    BY <2>3
  <2> QED
    BY <1>4, <2>1, <2>2, <2>3 DEF Stores!SurrealRun
<1>5. ASSUME Stores!SurrealApply(a) PROVE Lasts(a)
  <2>1. CASE Reply(a) = "ok"
    BY <1>5, <2>1 DEF Stores!SurrealApply
  <2>2. CASE Reply(a) = "lost"
    BY <1>5, <2>2 DEF Stores!SurrealApply
  <2>3. CASE Reply(a) \notin {"ok", "lost"}
    BY <1>5, <2>3 DEF Stores!SurrealApply
  <2> QED
    BY <2>1, <2>2, <2>3
<1>6. ~Stores!MongoRun(a) /\ ~Stores!ClickHouseRun(a) /\ ~Stores!RedisRun(a) /\ ~Stores!ScyllaRun(a)
      /\ ~Stores!MongoKill(a) /\ ~Stores!ClickHouseKill(a)
  BY DEF Stores!MongoRun, Stores!ClickHouseRun, Stores!RedisRun, Stores!ScyllaRun, Stores!Races,
     Stores!MongoKill, Stores!ClickHouseKill
<1>7. ASSUME Stores!ClickHouseApply(a) PROVE Lasts(a)
  BY <1>7 DEF Stores!ClickHouseApply
<1>8. ASSUME Stores!RedisApply(a) PROVE Lasts(a)
  <2>1. ASSUME Pc(a) = "wait", adapter = "redis", Ends(a, "cancelled", session) PROVE Lasts(a)
    BY <2>1
  <2>2. ASSUME Pc(a) = "wait", adapter = "redis", Sends(a, "batch", "running") PROVE Lasts(a)
    BY <2>2
  <2>3. ASSUME Pc(a) = "running", adapter = "redis",
               \/ Reply(a) = "ok" /\ Ends(a, "ok", session)
               \/ Reply(a) = "some" /\ Ends(a, "kept", session)
               \/ Reply(a) \in {"error", "lost"} /\ Ends(a, "error", session)
        PROVE  Lasts(a)
    BY <2>3
  <2>4. CASE Pc(a) = "wait"
    BY <1>8, <2>1, <2>2, <2>4 DEF Stores!RedisApply
  <2>5. CASE Pc(a) = "running"
    BY <1>8, <2>3, <2>5 DEF Stores!RedisApply
  <2> QED
    BY <1>8, <2>4, <2>5 DEF Stores!RedisApply
<1>9. ASSUME Stores!InTurn(a) PROVE Lasts(a)
  <2>1. ASSUME Pc(a) = "turn", call[a].step = 1, Ends(a, "cancelled", session) PROVE Lasts(a)
    BY <2>1
  <2>2. ASSUME Pc(a) = "turn", call[a].step # 1, Ends(a, "partial", session) PROVE Lasts(a)
    BY <2>2
  <2>3. ASSUME Pc(a) = "turn", Sends(a, "work", "waiting") PROVE Lasts(a)
    BY <2>3
  <2>4. ASSUME Pc(a) = "waiting", Ends(a, "unknown", session), Reply(a) # "none" PROVE Lasts(a)
    BY <2>4
  <2>5. ASSUME Pc(a) = "waiting", Reply(a) = "ok", call[a].step = Edits, Ends(a, "ok", session) PROVE Lasts(a)
    BY <2>5
  <2>6. ASSUME Pc(a) = "waiting", Reply(a) = "ok", UNCHANGED sent,
               call' = [call EXCEPT ![a].pc = "turn", ![a].step = @ + 1]
        PROVE  Lasts(a)
    <3>1. /\ call'[a].pc = "turn" /\ call'[a].step = call[a].step + 1
          /\ call'[a].outcome = call[a].outcome /\ call'[a].answer = call[a].answer
      BY <2>6, Types DEF Calls
    <3>2. call'[a].step - 1 = call[a].step
      BY <3>1
    <3> QED
      BY <2>6, <3>1, <3>2
  <2>7. CASE Pc(a) = "turn"
    BY <1>9, <2>1, <2>2, <2>3, <2>7 DEF Stores!InTurn, Stores!CancelledAfter
  <2>8. CASE Pc(a) = "waiting"
    BY <1>9, <2>4, <2>5, <2>6, <2>8 DEF Stores!InTurn, Stays
  <2> QED
    BY <1>9, <2>7, <2>8 DEF Stores!InTurn
<1>10. ASSUME Stores!ScyllaApply(a) PROVE Lasts(a)
  <2>1. /\ call'[a].pc = "turn" /\ Left(call'[a], call[a]) /\ sent' = sent /\ Pc(a) = "wait"
        /\ call'[a].step - 1 = 0 /\ adapter = "scylla"
    BY <1>10 DEF Stores!ScyllaApply, Stays
  <2> QED
    BY <2>1
<1>11. ASSUME Stores!MongoCancel(a) PROVE Lasts(a)
  <2>1. ASSUME Pc(a) = "killing", Sends(a, "discard", "aborting") PROVE Lasts(a)
    BY <2>1
  <2>2. ASSUME Pc(a) = "aborting", NEW o \in {"cancelled", "undone", "error", "unknown"}, Ends(a, o, session),
               Reply(a) # "none"
        PROVE  Lasts(a)
    BY <2>2
  <2>3. PICK o : o = IF Reply(a) = "ok" THEN call[a].outcome
                     ELSE IF call[a].outcome = "cancelled" THEN "error" ELSE "unknown"
    OBVIOUS
  <2>4. \/ Pc(a) = "killing" /\ Sends(a, "discard", "aborting")
        \/ Pc(a) = "aborting" /\ Reply(a) # "none" /\ Ends(a, o, session)
    BY <1>11, <2>3 DEF Stores!MongoCancel
  <2>5. CASE Pc(a) = "killing" /\ Sends(a, "discard", "aborting")
    BY <2>1, <2>5
  <2>6. CASE Pc(a) = "aborting" /\ Reply(a) # "none" /\ Ends(a, o, session)
    <3>1. o \in {"cancelled", "undone", "error", "unknown"}
      BY <2>3, <2>6
    <3> QED
      BY <2>2, <2>6, <3>1
  <2> QED
    BY <2>4, <2>5, <2>6
<1>12. ASSUME Stores!MongoApply(a) PROVE Lasts(a)
  <2>0. adapter = "mongodb"
    BY <1>12 DEF Stores!MongoApply
  <2>1. ASSUME Pc(a) = "wait", Ends(a, "cancelled", session) PROVE Lasts(a)
    BY <2>1
  <2>2. ASSUME Pc(a) = "wait", Moves(a, "check"), UNCHANGED sent PROVE Lasts(a)
    <3>1. /\ call'[a].pc = "check" /\ Left(call'[a], call[a]) /\ call'[a].step - 1 = 0
      BY <2>2
    <3> QED
      BY <2>0, <2>2, <3>1
  <2>3. ASSUME Pc(a) = "check", Sends(a, "stage", "staging") PROVE Lasts(a)
    BY <2>0, <2>3
  <2>4. ASSUME Pc(a) \in {"check", "staging"}, UNCHANGED sent,
               call' = [call EXCEPT ![a].pc = "killing", ![a].outcome = "cancelled"]
        PROVE  Lasts(a)
    <3>1. /\ call'[a].pc = "killing" /\ call'[a].outcome = "cancelled"
          /\ call'[a].step = call[a].step /\ call'[a].answer = call[a].answer
      BY <2>4, Types DEF Calls
    <3> QED
      BY <2>0, <2>4, <3>1
  <2>5. ASSUME Pc(a) = "staging", Reply(a) = "standalone", Moves(a, "turn"), UNCHANGED sent PROVE Lasts(a)
    <3>1. /\ call'[a].pc = "turn" /\ Left(call'[a], call[a]) /\ call'[a].step - 1 = 0
      BY <2>5
    <3> QED
      BY <2>0, <2>5, <3>1
  <2>6. ASSUME Pc(a) = "staging", Reply(a) # "none", UNCHANGED sent,
               call' = [call EXCEPT ![a].pc = "abort", ![a].outcome = "undone"]
        PROVE  Lasts(a)
    <3>1. /\ call'[a].pc = "abort" /\ call'[a].outcome = "undone"
          /\ call'[a].step = call[a].step /\ call'[a].answer = call[a].answer
      BY <2>6, Types DEF Calls
    <3> QED
      BY <2>0, <2>6, <3>1
  <2>7. ASSUME Pc(a) = "staging", Reply(a) = "ok", UNCHANGED sent,
               call' = IF call[a].step < Edits
                         THEN [call EXCEPT ![a].pc = "check", ![a].step = @ + 1]
                         ELSE [call EXCEPT ![a].pc = "decide"]
        PROVE  Lasts(a)
    <3>1. /\ call'[a].outcome = call[a].outcome /\ call'[a].answer = call[a].answer /\ Made(a) = {}
          /\ sent'[a] = sent[a] /\ sent[a].what = "none" /\ (session = "up" => Own(a) = Upto(a, call[a].step))
          /\ \/ call'[a].pc = "check" /\ call'[a].step - 1 = call[a].step
             \/ call'[a].pc = "decide" /\ call[a].step = Edits
      BY <2>7, Onward
    <3>2. CASE call'[a].pc = "check" /\ call'[a].step - 1 = call[a].step
      BY <2>0, <2>7, <3>1, <3>2, SMTT(20)
    <3>3. CASE call'[a].pc = "decide" /\ call[a].step = Edits
      BY <2>0, <2>7, <3>1, <3>3
    <3> QED
      BY <3>1, <3>2, <3>3
  <2>8. ASSUME Pc(a) = "abort", Sends(a, "discard", "aborting") PROVE Lasts(a)
    BY <2>8
  <2> QED
    BY <1>12, <2>1, <2>2, <2>3, <2>4, <2>5, <2>6, <2>7, <2>8 DEF Stores!MongoApply, Stays
<1>13. ASSUME Stores!MongoCommit(a) PROVE Lasts(a)
  <2>1. ASSUME Pc(a) = "decide", UNCHANGED sent, call' = [call EXCEPT ![a].pc = "abort", ![a].outcome = "cancelled"]
        PROVE  Lasts(a)
    <3>1. /\ call'[a].pc = "abort" /\ call'[a].outcome = "cancelled"
          /\ call'[a].step = call[a].step /\ call'[a].answer = call[a].answer
      BY <2>1, Types DEF Calls
    <3> QED
      BY <2>1, <3>1
  <2>2. ASSUME Pc(a) = "decide", Sends(a, "publish", "committing") PROVE Lasts(a)
    BY <2>2
  <2>3. ASSUME Pc(a) = "committing", Reply(a) = "ok", Ends(a, "ok", session) PROVE Lasts(a)
    BY <2>3
  <2>4. ASSUME Pc(a) = "committing", Reply(a) \notin {"ok", "none"}, Ends(a, "unknown", session) PROVE Lasts(a)
    BY <2>4
  <2> QED
    BY <1>13, <2>1, <2>2, <2>3, <2>4 DEF Stores!MongoCommit, Stays
<1> QED
  BY <1>4, <1>5, <1>6, <1>7, <1>8, <1>9, <1>10, <1>11, <1>12, <1>13, Zenon DEF Stores!Steps

\* No store gives its connection up, and a run sends its own statement only.
LEMMA StoresKeepSession ==
  ASSUME TypeOK, adapter \in Stored, NEW r \in Requests, Stores!Steps(r)
  PROVE  /\ session' = session
         /\ r \in Runs /\ sent[r].what \in {"none", "read", "work"} => sent'[r].what \in {"none", "read", "work"}
         /\ session = "broken" /\ sent[r].what = "none" => sent'[r].what = "none"
<1> DEFINE Good == /\ session' = session
                   /\ r \in Runs /\ sent[r].what \in {"none", "read", "work"} => sent'[r].what \in {"none", "read", "work"}
                   /\ session = "broken" /\ sent[r].what = "none" => sent'[r].what = "none"
<1>1. r \in Runs => Statement(r) \in {"read", "work"} /\ ~IsApply(r)
  <2> SUFFICES ASSUME r \in Runs PROVE Statement(r) \in {"read", "work"} /\ ~IsApply(r)
    OBVIOUS
  <2>1. ~IsApply(r)
    BY SessionConstants DEF IsApply
  <2>2. KindsOf(adapter) = {"read", "work"}
    BY DEF KindsOf, Stored
  <2>3. kind[r] \in {"read", "work"}
    BY <2>2 DEF TypeOK
  <2> QED
    BY <2>1, <2>3 DEF Statement
<1>2. ASSUME session' = session, sent' = sent PROVE Good
  BY <1>2
<1>3. ASSUME NEW s, NEW p, Sends(r, s, p), r \in Runs => s \in {"read", "work"} PROVE Good
  BY <1>3, Effects
<1>4. \A o, s : Ends(r, o, s) => session' = s /\ sent' = sent
  BY DEF Ends
<1> HIDE DEF Good
<1> USE StoresBlocks, <1>1, <1>2, <1>3, <1>4
<1>5. ASSUME Stores!SurrealRun(r) \/ Stores!SurrealApply(r) PROVE Good
  BY <1>5 DEF Stores!SurrealRun, Stores!SurrealApply
<1>6. ASSUME Stores!MongoRun(r) \/ Stores!ClickHouseRun(r) \/ Stores!RedisRun(r) \/ Stores!ScyllaRun(r) PROVE Good
  BY <1>6 DEF Stores!MongoRun, Stores!ClickHouseRun, Stores!RedisRun, Stores!ScyllaRun, Stores!Races, Stores!Kills
<1>7. ASSUME Stores!MongoKill(r) \/ Stores!ClickHouseKill(r) \/ Stores!ClickHouseApply(r) PROVE Good
  BY <1>7 DEF Stores!MongoKill, Stores!ClickHouseKill, Stores!ClickHouseApply
<1>8. ASSUME Stores!RedisApply(r) PROVE Good
  BY <1>8 DEF Stores!RedisApply
<1>9. ASSUME Stores!InTurn(r) \/ Stores!ScyllaApply(r) PROVE Good
  BY <1>9 DEF Stores!InTurn, Stores!ScyllaApply, Stays
<1>10. ASSUME Stores!MongoApply(r) \/ Stores!MongoCancel(r) PROVE Good
  BY <1>10 DEF Stores!MongoApply, Stores!MongoCancel, Stays
<1>11. ASSUME Stores!MongoCommit(r) PROVE Good
  BY <1>11 DEF Stores!MongoCommit, Stays
<1>12. Good
  BY <1>5, <1>6, <1>7, <1>8, <1>9, <1>10, <1>11 DEF Stores!Steps
<1> QED
  BY <1>12 DEF Good

\* What a step leaves of a review, with the session and the writes it leaves.
LEMMA StoreKept ==
  ASSUME NEW a \in Applies, UNCHANGED adapter, Kept(a, call'[a], sent'[a], session', Own(a)', Made(a)')
  PROVE  InStore(a)'
BY DEF InStore, Kept, Stands, Asks, Staged, Applied, Heard, Refusals, Whole, Upto

\* A statement takes effect: on the writes of the request that sent it, and no other.
LEMMA StoreEffect ==
  ASSUME adapter \in Stored, tx = "none", NEW r \in Requests,
         NEW s \in {"read", "work", "stage", "publish", "discard", "batch"}, TakesEffect(r, s)
  PROVE  /\ tx' = "none"
         /\ \A a \in Applies : a # r => Own(a)' = Own(a) /\ Made(a)' = Made(a)
         /\ s = "work" => Own(r)' = Own(r) /\ Made(r)' = Made(r) \cup {Write(r)}
         /\ s = "stage" => Own(r)' = Own(r) \cup {Write(r)} /\ Made(r)' = Made(r)
         /\ s = "publish" => Made(r)' = Made(r) \cup Own(r)
         /\ s = "discard" => Made(r)' = Made(r)
         /\ s = "batch" => Own(r)' = Own(r) /\ Made(r)' = Made(r) \cup Whole(r)
<1> USE DEF Own, Made, Write, Whole
<1>1. CASE s = "read"
  BY <1>1 DEF TakesEffect, db
<1>2. CASE s = "work"
  <2>1. durable' = durable \cup {Write(r)} /\ UNCHANGED <<tx, pending>>
    BY <1>2 DEF TakesEffect, Changes, Autocommits, Stored
  <2> QED
    BY <1>2, <2>1
<1>3. CASE s = "stage"
  <2>1. pending' = pending \cup {Write(r)} /\ UNCHANGED <<tx, durable>>
    BY <1>3 DEF TakesEffect
  <2> QED
    BY <1>3, <2>1
<1>4. CASE s = "publish"
  <2>1. durable' = durable \cup Own(r) /\ pending' = pending \ Own(r) /\ UNCHANGED tx
    BY <1>4 DEF TakesEffect
  <2> QED
    BY <1>4, <2>1
<1>5. CASE s = "discard"
  <2>1. pending' = pending \ Own(r) /\ UNCHANGED <<tx, durable>>
    BY <1>5 DEF TakesEffect
  <2> QED
    BY <1>5, <2>1
<1>6. CASE s = "batch"
  <2>1. durable' = durable \cup Whole(r) /\ UNCHANGED <<tx, pending>>
    BY <1>6 DEF TakesEffect
  <2>2. \A w \in Whole(r) : w[1] = r
    OBVIOUS
  <2> QED
    BY <1>6, <2>1, <2>2
<1> QED
  BY <1>1, <1>2, <1>3, <1>4, <1>5, <1>6

\* The server answers a review.
LEMMA StoreAnswers ==
  ASSUME TypeOK, adapter \in Stored, NEW a \in Applies, InStore(a), sent[a].what # "none", session = "up",
         NEW o \in {"ok", "error", "killed", "standalone", "some"},
         sent'[a] = [what |-> "none", reply |-> o], call'[a] = call[a], session' = session,
         \/ o = "ok" /\ TakesEffect(a, sent[a].what) /\ tx = "none"
         \/ /\ o # "ok" /\ Own(a)' = Own(a)
            /\ Made(a)' = Made(a) \/ (o = "some" /\ adapter = "redis" /\ sent[a].what = "batch")
            /\ o = "standalone" => call[a].step = 1
            /\ o = "some" => adapter = "redis"
  PROVE  Kept(a, call'[a], sent'[a], session', Own(a)', Made(a)')
<1>1. /\ Stands(call[a]) /\ Asks(call[a], sent[a]) /\ Staged(a, call[a], sent[a], session, Own(a))
      /\ Applied(a, call[a], sent[a], Made(a)) /\ Heard(a, call[a], Made(a))
  BY DEF InStore, Kept
<1>2. /\ Upto(a, Edits) = Whole(a) /\ Upto(a, 0) = {} /\ Whole(a) # {} /\ a \in Requests
      /\ Upto(a, call[a].step) = Upto(a, call[a].step - 1) \cup {Write(a)}
      /\ sent[a].reply = "none" /\ sent'[a].what = "none" /\ sent'[a].reply = o
      /\ Made(a) \subseteq Whole(a)
  BY Writing, WritesAreIts DEF Wires
<1>3. Stands(call'[a]) /\ Asks(call'[a], sent'[a])
  BY <1>1, <1>2 DEF Stands, Asks
<1>4. sent[a].what \in {"stage", "publish", "discard", "work", "batch"}
      /\ call[a].pc \notin {"idle", "wait", "returned"} /\ call'[a] = call[a]
  BY <1>1 DEF Asks
<1>8. "none" \notin Refusals
  BY DEF Refusals
<1>5. ASSUME o = "ok"
      PROVE  /\ sent[a].what = "work" => Own(a)' = Own(a) /\ Made(a)' = Made(a) \cup {Write(a)}
             /\ sent[a].what = "stage" => Own(a)' = Own(a) \cup {Write(a)} /\ Made(a)' = Made(a)
             /\ sent[a].what = "publish" => Made(a)' = Made(a) \cup Own(a)
             /\ sent[a].what = "discard" => Made(a)' = Made(a)
             /\ sent[a].what = "batch" => Own(a)' = Own(a) /\ Made(a)' = Made(a) \cup Whole(a)
  BY <1>2, <1>4, <1>5, StoreEffect
<1>6. CASE o = "ok"
  <2>1. Staged(a, call'[a], sent'[a], session', Own(a)')
    BY <1>1, <1>2, <1>4, <1>5, <1>6 DEF Staged, Asks
  <2>2. Applied(a, call'[a], sent'[a], Made(a)')
    BY <1>1, <1>2, <1>4, <1>5, <1>6 DEF Staged, Applied, Asks, Stands
  <2>3. Heard(a, call'[a], Made(a)')
    BY <1>1, <1>4, <1>8 DEF Heard
  <2> QED
    BY <1>3, <2>1, <2>2, <2>3 DEF Kept
<1>7. CASE o # "ok"
  <2>1. Staged(a, call'[a], sent'[a], session', Own(a)')
    BY <1>1, <1>2, <1>4, <1>7 DEF Staged
  <2>2. Applied(a, call'[a], sent'[a], Made(a)')
    BY <1>1, <1>2, <1>4, <1>7 DEF Applied, Asks, Stands
  <2>3. Heard(a, call'[a], Made(a)')
    BY <1>1, <1>4, <1>8 DEF Heard
  <2> QED
    BY <1>3, <2>1, <2>2, <2>3 DEF Kept
<1> QED
  BY <1>6, <1>7

\* What a step leaves alone of a review.
LEMMA StoreSame ==
  ASSUME NEW a \in Applies, InStore(a), UNCHANGED <<adapter, session, db>>, call'[a] = call[a], sent'[a] = sent[a]
  PROVE  InStore(a)'
<1>1. Own(a)' = Own(a) /\ Made(a)' = Made(a)
  BY DEF db, Own, Made
<1> QED
  BY <1>1, StoreKept DEF InStore

\* The steps of a driver keep what is said of the stores.
LEMMA DriverKeepsStore ==
  ASSUME TypeOK, StoreInv, adapter \in Stored, NEW r \in Requests, Local(Steps(r)) \/ Local(Drop(r))
  PROVE  StoreInv'
<1>1. Stores!Steps(r) /\ UNCHANGED <<choice, token, db>>
  BY DEF Local, Steps, Drop, Stored
<1>2. /\ tx = "none" /\ session \in {"up", "broken"}
      /\ session = "broken" => \A q \in Requests : sent[q].what = "none"
      /\ \A q \in Runs : sent[q].what \in {"none", "read", "work"}
      /\ \A a \in Applies : InStore(a)
  BY DEF StoreInv
<1>3. /\ \A q \in Requests \ {r} : call'[q] = call[q] /\ sent'[q] = sent[q]
      /\ adapter' = adapter
  BY <1>1, DriverShaped, OthersStay, StoresShaped
<1>4. /\ session' = session
      /\ r \in Runs /\ sent[r].what \in {"none", "read", "work"} => sent'[r].what \in {"none", "read", "work"}
      /\ session = "broken" /\ sent[r].what = "none" => sent'[r].what = "none"
  BY <1>1, StoresKeepSession
<1>5. tx' = tx /\ \A a : Own(a)' = Own(a) /\ Made(a)' = Made(a)
  BY <1>1 DEF db, Own, Made
<1>6. ASSUME NEW a \in Applies PROVE InStore(a)'
  <2>1. CASE a = r
    <3>1. Kept(a, call'[a], sent'[a], session, Own(a), Made(a))
      BY <1>1, <1>2, <2>1, StoreFares DEF Lasts
    <3> QED
      BY <1>3, <1>4, <1>5, <3>1, StoreKept
  <2>2. CASE a # r
    BY <1>1, <1>2, <1>3, <1>4, <2>2, StoreSame DEF Requests
  <2> QED
    BY <2>1, <2>2
<1>7. session' = "broken" => \A q \in Requests : sent'[q].what = "none"
  BY <1>2, <1>3, <1>4
<1>8. \A q \in Runs : sent'[q].what \in {"none", "read", "work"}
  BY <1>2, <1>3, <1>4 DEF Requests
<1> QED
  BY <1>2, <1>4, <1>5, <1>6, <1>7, <1>8 DEF StoreInv

\* So does the server's answer to one request, whatever it is.
LEMMA AnswerKeepsStore ==
  ASSUME TypeOK, StoreInv, adapter \in Stored, NEW r \in Requests, AtServer(r),
         UNCHANGED <<choice, call, session>>,
         NEW o \in {"ok", "error", "killed", "standalone", "some"}, Replied(r, o),
         \/ o = "ok" /\ TakesEffect(r, sent[r].what)
         \/ o \in {"error", "killed"} /\ UNCHANGED db
         \/ o = "standalone" /\ call[r].step = 1 /\ UNCHANGED db
         \/ /\ o = "some" /\ adapter = "redis" /\ sent[r].what = "batch" /\ UNCHANGED <<tx, pending>>
            /\ \E w \in SUBSET Whole(r) : durable' = durable \cup w
  PROVE  StoreInv'
<1>1. /\ tx = "none" /\ session = "up" /\ session' = "up" /\ adapter' = adapter
      /\ \A q \in Runs : sent[q].what \in {"none", "read", "work"}
      /\ \A a \in Applies : InStore(a)
      /\ sent[r].what # "none"
  BY DEF StoreInv, AtServer, choice
<1>2. /\ sent'[r] = [what |-> "none", reply |-> o]
      /\ \A q \in Requests \ {r} : sent'[q] = sent[q]
  BY Types DEF Replied
<1>3. sent[r].what \in {"read", "work", "stage", "publish", "discard", "batch"}
  <2>1. CASE r \in Runs
    BY <1>1, <2>1
  <2>2. CASE r \in Applies
    BY <1>1, <2>2 DEF InStore, Kept, Asks
  <2> QED
    BY <2>1, <2>2 DEF Requests
<1>4. tx' = "none" /\ \A a \in Applies : a # r => Own(a)' = Own(a) /\ Made(a)' = Made(a)
  <2>1. CASE o = "ok"
    BY <1>1, <1>3, <2>1, StoreEffect
  <2>2. CASE UNCHANGED db
    BY <1>1, <2>2 DEF db, Own, Made
  <2>3. ASSUME UNCHANGED <<tx, pending>>, NEW w \in SUBSET Whole(r), durable' = durable \cup w
        PROVE  tx' = "none" /\ \A a \in Applies : a # r => Own(a)' = Own(a) /\ Made(a)' = Made(a)
    <3>1. \A x \in w : x[1] = r
      BY <2>3 DEF Whole
    <3> QED
      BY <1>1, <2>3, <3>1 DEF Own, Made
  <2> QED
    BY <2>1, <2>2, <2>3
<1>5. ASSUME NEW a \in Applies, a = r PROVE InStore(a)'
  <2>1. CASE o = "ok"
    <3>1. TakesEffect(a, sent[a].what)
      BY <1>5, <2>1
    <3>2. Kept(a, call'[a], sent'[a], session', Own(a)', Made(a)')
      BY <1>1, <1>2, <1>5, <2>1, <3>1, StoreAnswers
    <3> QED
      BY <1>1, <3>2, StoreKept
  <2>2. CASE o # "ok"
    <3>1. Own(a)' = Own(a) /\ (Made(a)' = Made(a) \/ (o = "some" /\ adapter = "redis" /\ sent[a].what = "batch"))
      BY <1>5, <2>2 DEF db, Own, Made
    <3>2. (o = "standalone" => call[a].step = 1) /\ (o = "some" => adapter = "redis")
      BY <1>5
    <3>3. Kept(a, call'[a], sent'[a], session', Own(a)', Made(a)')
      BY <1>1, <1>2, <1>5, <2>2, <3>1, <3>2, StoreAnswers
    <3> QED
      BY <1>1, <3>3, StoreKept
  <2> QED
    BY <2>1, <2>2
<1>6. ASSUME NEW a \in Applies, a # r PROVE InStore(a)'
  <2>1. call'[a] = call[a] /\ sent'[a] = sent[a] /\ session' = session /\ InStore(a)
    BY <1>1, <1>2, <1>6 DEF Requests
  <2>2. Own(a)' = Own(a) /\ Made(a)' = Made(a)
    BY <1>4, <1>6
  <2> QED
    BY <1>1, <2>1, <2>2, StoreKept DEF InStore
<1>7. \A q \in Runs : sent'[q].what \in {"none", "read", "work"}
  BY <1>1, <1>2 DEF Requests
<1> QED
  BY <1>1, <1>4, <1>5, <1>6, <1>7 DEF StoreInv

\* The connection breaks under a review: what was in flight may have been applied.
LEMMA StoreBroken ==
  ASSUME TypeOK, adapter \in Stored, NEW a \in Applies, InStore(a), adapter' = adapter,
         call'[a] = call[a], session' = "broken", Own(a)' = {},
         \/ sent'[a] = sent[a] /\ sent[a].what = "none"
         \/ sent'[a] = [what |-> "none", reply |-> "lost"] /\ sent[a].what # "none",
         \/ Made(a)' = Made(a)
         \/ sent[a].what \in {"work", "publish"}
         \/ sent[a].what = "batch" /\ (adapter = "redis" \/ Made(a)' = Made(a) \cup Whole(a))
  PROVE  InStore(a)'
<1>1. /\ Stands(call[a]) /\ Asks(call[a], sent[a]) /\ Staged(a, call[a], sent[a], session, Own(a))
      /\ Applied(a, call[a], sent[a], Made(a)) /\ Heard(a, call[a], Made(a))
  BY DEF InStore, Kept
<1>2. Made(a) \cup Whole(a) = Whole(a) /\ "none" \notin Refusals
  BY WritesAreIts DEF Refusals
<1>3. Stands(call'[a]) /\ Asks(call'[a], sent'[a]) /\ Staged(a, call'[a], sent'[a], session', Own(a)')
  BY <1>1 DEF Stands, Asks, Staged
<1>4. CASE Made(a)' = Made(a)
  <2>1. Applied(a, call'[a], sent'[a], Made(a)') /\ Heard(a, call'[a], Made(a)')
    BY <1>1, <1>4 DEF Applied, Heard
  <2> QED
    BY <1>3, <2>1, StoreKept DEF Kept
<1>5. CASE Made(a)' # Made(a)
  <2>1. /\ sent[a].what \in {"work", "publish", "batch"} /\ sent'[a].what = "none" /\ sent'[a].reply = "lost"
        /\ sent[a].what = "batch" /\ adapter # "redis" => Made(a)' = Whole(a)
    BY <1>2, <1>5
  <2>2. /\ call[a].pc \in {"waiting", "committing", "running"} /\ call[a].answer = "none"
        /\ call[a].pc = "running" => sent[a].what = "batch"
        /\ call[a].pc # "running" => adapter # "surrealdb"
    BY <1>1, <2>1 DEF Asks, Heard, Stands
  <2>3. Applied(a, call'[a], sent'[a], Made(a)')
    BY <2>1, <2>2 DEF Applied
  <2>4. Heard(a, call'[a], Made(a)')
    BY <1>2, <2>2 DEF Heard
  <2> QED
    BY <1>3, <2>3, <2>4, StoreKept DEF Kept
<1> QED
  BY <1>4, <1>5

LEMMA BreakKeepsStore == ASSUME TypeOK, StoreInv, adapter \in Stored, Breaks PROVE StoreInv'
<1>1. /\ tx = "none" /\ session = "up"
      /\ \A q \in Runs : sent[q].what \in {"none", "read", "work"}
      /\ \A a \in Applies : InStore(a)
  BY DEF StoreInv, Breaks
<1>2. /\ session' = "broken" /\ tx' = "none" /\ pending' = {} /\ adapter' = adapter /\ call' = call
      /\ \A q \in Requests : \/ sent'[q] = sent[q] /\ sent[q].what = "none"
                             \/ sent'[q] = [what |-> "none", reply |-> "lost"] /\ sent[q].what # "none"
  BY <1>1 DEF Breaks, choice
<1>3. \A q \in Requests : sent[q].what # "commit"
  BY <1>1 DEF InStore, Kept, Asks, Requests
<1>4. ASSUME NEW a \in Applies PROVE InStore(a)'
  <2>1. Own(a)' = {} /\ a \in Requests /\ InStore(a)
    BY <1>1, <1>2 DEF Own, Requests
  <2>2. CASE UNCHANGED durable
    <3>1. Made(a)' = Made(a)
      BY <2>2 DEF Made
    <3> QED
      BY <1>2, <2>1, <3>1, StoreBroken
  <2>3. ASSUME NEW r \in Requests, r # a, NEW w, durable' = durable \cup w, \A x \in w : x[1] = r PROVE InStore(a)'
    <3>1. Made(a)' = Made(a)
      BY <2>3 DEF Made
    <3> QED
      BY <1>2, <2>1, <3>1, StoreBroken
  <2>4. CASE sent[a].what \in {"work", "publish"}
    BY <1>2, <2>1, <2>4, StoreBroken
  <2>5. ASSUME sent[a].what = "batch", NEW w \in (IF adapter = "redis" THEN SUBSET Whole(a) ELSE {Whole(a)}),
               durable' = durable \cup w
        PROVE  InStore(a)'
    <3>1. adapter # "redis" => Made(a)' = Made(a) \cup Whole(a)
      BY <2>5 DEF Made, Whole
    <3> QED
      BY <1>2, <2>1, <2>5, <3>1, StoreBroken
  <2>6. ASSUME NEW r \in Requests, sent[r].what = "work", durable' = durable \cup {Write(r)} PROVE InStore(a)'
    <3>1. PICK w : w = {Write(r)}
      OBVIOUS
    <3>4. durable' = durable \cup w /\ \A x \in w : x[1] = r
      BY <2>6, <3>1 DEF Write
    <3>2. CASE r = a
      BY <2>4, <2>6, <3>2
    <3>3. CASE r # a
      BY <2>3, <3>3, <3>4
    <3> QED
      BY <3>2, <3>3
  <2>7. ASSUME NEW r \in Requests, sent[r].what = "publish", durable' = durable \cup Own(r) PROVE InStore(a)'
    <3>1. \A x \in Own(r) : x[1] = r
      BY DEF Own
    <3> QED
      BY <2>3, <2>4, <2>7, <3>1
  <2>8. ASSUME NEW r \in Requests, sent[r].what = "batch",
               NEW w \in (IF adapter = "redis" THEN SUBSET Whole(r) ELSE {Whole(r)}), durable' = durable \cup w
        PROVE  InStore(a)'
    <3>1. \A x \in w : x[1] = r
      BY <2>8 DEF Whole
    <3>2. CASE r = a
      BY <2>5, <2>8, <3>2
    <3>3. CASE r # a
      BY <2>3, <2>8, <3>1, <3>3
    <3> QED
      BY <3>2, <3>3
  <2> QED
    BY <1>3, <2>2, <2>6, <2>7, <2>8 DEF Breaks
<1>5. /\ \A q \in Requests : sent'[q].what = "none"
      /\ \A q \in Runs : sent'[q].what \in {"none", "read", "work"}
  BY <1>2 DEF Requests
<1> QED
  BY <1>2, <1>4, <1>5 DEF StoreInv

LEMMA ServerKeepsStore == ASSUME TypeOK, StoreInv, adapter \in Stored, Server PROVE StoreInv'
<1>1. ASSUME NEW r \in Requests, Serves(r) PROVE StoreInv'
  BY <1>1, AnswerKeepsStore DEF Serves
<1>2. Aborts => UNCHANGED db
  BY DEF Aborts, Stored
<1>3. ASSUME NEW r \in Requests, AtServer(r) PROVE sent[r].what # "commit"
  <2>1. CASE r \in Runs
    BY <2>1 DEF StoreInv
  <2>2. CASE r \in Applies
    BY <1>3, <2>2 DEF StoreInv, InStore, Kept, Asks, AtServer
  <2> QED
    BY <2>1, <2>2 DEF Requests
<1>4. ASSUME NEW r \in Requests, Refuses(r) PROVE StoreInv'
  <2>1. AtServer(r) /\ UNCHANGED <<choice, call, session>> /\ UNCHANGED db
    BY <1>2, <1>3, <1>4 DEF Refuses
  <2>2. CASE Replied(r, "error")
    BY <2>1, <2>2, AnswerKeepsStore
  <2>3. CASE Replied(r, "killed")
    BY <2>1, <2>3, AnswerKeepsStore
  <2>4. CASE Replied(r, "standalone") /\ call[r].step = 1
    BY <2>1, <2>4, AnswerKeepsStore
  <2> QED
    BY <1>4, <2>2, <2>3, <2>4 DEF Refuses
<1>5. ASSUME NEW r \in Requests, ServesSome(r) PROVE StoreInv'
  BY <1>5, AnswerKeepsStore DEF ServesSome
<1>6. ASSUME NEW k \in kill, KillArrives(k) PROVE StoreInv'
  <2>1. CASE Struck(k) = {}
    <3>1. UNCHANGED <<choice, call, session, sent, db>>
      BY <1>6, <2>1 DEF KillArrives
    <3>2. \A a \in Applies : InStore(a) => InStore(a)'
      BY <3>1, StoreSame DEF choice
    <3> QED
      BY <3>1, <3>2 DEF StoreInv, choice, db
  <2>2. CASE Struck(k) # {}
    <3>1. PICK r \in Struck(k) : Replied(r, "killed") /\ Aborts
      BY <1>6, <2>2 DEF KillArrives
    <3>2. r \in Requests /\ AtServer(r) /\ UNCHANGED <<choice, call, session>>
      BY <1>6 DEF KillArrives, Struck
    <3> QED
      BY <1>2, <3>1, <3>2, AnswerKeepsStore
  <2> QED
    BY <2>1, <2>2
<1> QED
  BY <1>1, <1>4, <1>5, <1>6, BreakKeepsStore DEF Server

\* In a store, what a review has staged and applied is what its place and its answer
\* say, however it is cancelled, killed or cut off.
THEOREM StoreInvariant == Spec => []StoreInv
<1>1. Init => StoreInv
  <2> SUFFICES ASSUME Init, adapter \in Stored PROVE StoreInv
    BY DEF StoreInv
  <2>1. \A r \in Requests : /\ call[r] = [pc |-> "idle", step |-> 1, outcome |-> "none", answer |-> "none"]
                            /\ sent[r] = [what |-> "none", reply |-> "none"]
    BY DEF Init, Nothing
  <2>2. tx = "none" /\ session = "up" /\ pending = {} /\ durable = {} /\ "none" \notin Refusals
    BY DEF Init, Refusals
  <2>3. ASSUME NEW a \in Applies PROVE InStore(a)
    <3>1. a \in Requests /\ Own(a) = {} /\ Made(a) = {}
      BY <2>2 DEF Own, Made, Requests
    <3> QED
      BY <2>1, <2>2, <3>1 DEF InStore, Kept, Stands, Asks, Staged, Applied, Heard
  <2> QED
    BY <2>1, <2>2, <2>3 DEF StoreInv, Requests
<1>2. TypeOK /\ StoreInv /\ [Next]_vars => StoreInv'
  <2> SUFFICES ASSUME TypeOK, StoreInv, [Next]_vars PROVE StoreInv'
    OBVIOUS
  <2>1. adapter' = adapter
    <3>1. ASSUME NEW r \in Requests, Call(r) \/ Cancel(r) \/ Local(Steps(r)) \/ Local(Drop(r)) PROVE adapter' = adapter
      BY <3>1 DEF Call, Cancel, Local, choice
    <3>2. ASSUME Server PROVE adapter' = adapter
      BY <3>2 DEF Server, Serves, Refuses, ServesSome, KillArrives, Breaks, choice
    <3>3. ASSUME UNCHANGED vars PROVE adapter' = adapter
      BY <3>3 DEF vars, choice
    <3> QED
      BY <3>1, <3>2, <3>3 DEF Next
  <2>2. CASE adapter \notin Stored
    BY <2>1, <2>2 DEF StoreInv
  <2>3. ASSUME adapter \in Stored, UNCHANGED <<sent, session, db, call>> PROVE StoreInv'
    <3>1. \A a \in Applies : InStore(a) => InStore(a)'
      BY <2>1, <2>3, StoreSame
    <3> QED
      BY <2>3, <3>1 DEF StoreInv, db
  <2>4. ASSUME adapter \in Stored, NEW r \in Requests, Call(r) PROVE StoreInv'
    <3>1. UNCHANGED <<sent, session, db>> /\ Pc(r) = "idle" /\ Moves(r, "wait")
      BY <2>4 DEF Call, Stays
    <3>2. \A q \in Requests \ {r} : call'[q] = call[q]
      BY <3>1, Types DEF Moves
    <3>3. ASSUME NEW a \in Applies PROVE InStore(a)'
      <4>1. InStore(a) /\ a \in Requests
        BY <2>4 DEF StoreInv, Requests
      <4>2. CASE a # r
        BY <2>1, <3>1, <3>2, <4>1, <4>2, StoreSame
      <4>3. CASE a = r
        <5>1. call[a].pc = "idle" /\ call'[a].pc = "wait" /\ Left(call'[a], call[a])
          BY <3>1, <4>3, OfReview
        <5>2. Own(a)' = Own(a) /\ Made(a)' = Made(a)
          BY <3>1 DEF db, Own, Made
        <5>3. Kept(a, call'[a], sent[a], session, Own(a), Made(a))
          BY <4>1, <5>1 DEF InStore, Kept, Stands, Asks, Staged, Applied, Heard, Left
        <5> QED
          BY <2>1, <3>1, <5>2, <5>3, StoreKept
      <4> QED
        BY <4>2, <4>3
    <3> QED
      BY <2>4, <3>1, <3>3 DEF StoreInv, db
  <2>5. ASSUME adapter \in Stored, NEW r \in Requests, Cancel(r) PROVE StoreInv'
    BY <2>3, <2>5 DEF Cancel, driver
  <2>6. ASSUME adapter \in Stored, UNCHANGED vars PROVE StoreInv'
    BY <2>3, <2>6 DEF vars, driver
  <2> QED
    BY <2>2, <2>4, <2>5, <2>6, DriverKeepsStore, ServerKeepsStore DEF Next
<1> QED
  BY <1>1, <1>2, Typing, PTL DEF Spec

\* With it, what the caller of an apply hears is true.
LEMMA StoreIsTold == ASSUME TypeOK, StoreInv, adapter \in Stored PROVE AnswersTrue
<1>1. ASSUME NEW a \in Applies
      PROVE  /\ Stands(call[a]) /\ Applied(a, call[a], sent[a], Made(a)) /\ Heard(a, call[a], Made(a))
             /\ call[a].step \in 1..Edits
  BY Writing DEF StoreInv, InStore, Kept
<1>2. OkIsDurable
  BY <1>1 DEF OkIsDurable, Said, Heard
<1>3. RefusedStays
  BY <1>1 DEF RefusedStays, Said, Heard
<1>4. PartialIsExact
  <2> SUFFICES ASSUME NEW a \in Applies, Said(a) = "partial"
               PROVE  Made(a) # {} /\ Made(a) = Upto(a, call[a].step - 1)
    BY DEF PartialIsExact, Upto
  <2>1. call[a].step > 1 /\ Made(a) = Upto(a, call[a].step - 1) /\ call[a].step \in 1..Edits
    BY <1>1 DEF Said, Heard
  <2>2. 1 \in 1..call[a].step - 1
    BY <2>1, SessionConstants
  <2>3. <<a, 1>> \in Upto(a, call[a].step - 1)
    BY <2>2 DEF Upto
  <2> QED
    BY <2>1, <2>3
<1>5. AllOrNothing
  <2> SUFFICES ASSUME NEW a \in Applies, adapter \in Transactional,
                      adapter = "mongodb" => Said(a) \in {"cancelled", "undone"}
               PROVE  Made(a) \in {{}, Whole(a)}
    BY DEF AllOrNothing
  <2>1. CASE adapter = "mongodb"
    BY <1>1, <2>1 DEF Heard, Refusals, Said
  <2>2. CASE adapter = "surrealdb"
    BY <1>1, <2>2 DEF Applied
  <2> QED
    BY <2>1, <2>2 DEF Stored, Transactional
<1> QED
  BY <1>2, <1>3, <1>4, <1>5 DEF AnswersTrue

\* What the caller of an apply hears is true of the database, now and for good: of all
\* ten adapters, for any number of requests and of changes (Adapter::apply).
THEOREM AnswersAreTrue == Spec => []AnswersTrue
<1>1. TypeOK => adapter \in Locking \cup Stored
  BY AdaptersAreModelled DEF TypeOK, AllAdapters, Locking
<1>2. TypeOK /\ FateInv /\ StoreInv => AnswersTrue
  BY <1>1, FateIsTold, StoreIsTold
<1> QED
  BY <1>2, Typing, FateInvariant, StoreInvariant, PTL
==============================================================================
