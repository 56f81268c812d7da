----------------------------- MODULE SqliteProofs -----------------------------
(***************************************************************************)
(* Theorems of SqliteWorker, for every set of requests, every script and   *)
(* every size of the queue: whom an interrupt reaches, and what a review   *)
(* shares its transaction with.                                            *)
(***************************************************************************)
EXTENDS SqliteWorker, SequenceTheorems, TLAPS

-----------------------------------------------------------------------------
(* Types *)

\* A message taken from the queue, and what is left of it.
LEMMA TakenType ==
  ASSUME NEW S, NEW q \in Seq(S), q # <<>>
  PROVE  Head(q) \in S /\ Tail(q) \in Seq(S)
  OBVIOUS

LEMMA TypeStep == TypeOK /\ [Next]_vars => TypeOK'
<1> SUFFICES ASSUME TypeOK, [Next]_vars PROVE TypeOK'
  OBVIOUS
<1> USE WorkerConstants DEF TypeOK, Stopping, calls, lock, thread, db, Callers, Answers, Points, Busy
<1>1. ASSUME NEW r \in Requests, Call(r) \/ Cancel(r) \/ Abandon(r) \/ CallSteps(r)
      PROVE  TypeOK'
  <2>1. CASE Call(r)
    <3>1. CASE r \in cancelled \/ Stopping
      <4>1. answer' = [answer EXCEPT ![r] = IF r \in cancelled THEN "cancelled" ELSE "error"]
        BY <2>1, <3>1 DEF Call
      <4>2. answer' \in [Requests -> Answers]
        BY <4>1
      <4>3. /\ caller' = [caller EXCEPT ![r] = "returned"]
            /\ UNCHANGED <<cancelled, token, queue, started, reply, lock, closer, thread,
                           signal, db>>
        BY <2>1, <3>1 DEF Call
      <4> HIDE DEF Stopping
      <4> QED BY <4>2, <4>3
    <3>2. CASE ~(r \in cancelled \/ Stopping)
      <4>1. /\ caller' = [caller EXCEPT ![r] = "sending"]
            /\ UNCHANGED <<answer, cancelled, token, queue, started, reply, lock, closer,
                           thread, signal, db>>
        BY <2>1, <3>2 DEF Call
      <4> QED BY <4>1
    <3> QED BY <3>1, <3>2
  <2>2. CASE Cancel(r)        BY <2>2 DEF Cancel
  <2>3. CASE Abandon(r)       BY <2>3 DEF Abandon
  <2>4. CASE Send(r)          BY <2>4 DEF Send
  <2>5. CASE SendEnds(r)
    <3>1. \/ Settles(r, "cancelled")
          \/ Settles(r, "error")
      BY <2>5 DEF SendEnds
    <3>2. /\ caller' \in [Requests -> Callers] /\ answer' \in [Requests -> Answers]
          /\ token' \in SUBSET Requests
      BY <3>1 DEF Settles
    <3> QED BY <2>5, <3>2 DEF SendEnds
  <2>6. CASE Receive(r)       BY <2>6 DEF Receive, Settles
  <2>7. CASE NoticeCancel(r)
    <3>1. CASE r \notin started
      <4>1. Settles(r, "cancelled")
        BY <2>7, <3>1 DEF NoticeCancel
      <4> QED BY <2>7, <4>1 DEF NoticeCancel, Settles
    <3>2. CASE r \in started
      <4>1. /\ caller' = [caller EXCEPT ![r] = "interrupting"]
            /\ UNCHANGED <<answer, cancelled, token, queue, started, reply, lock, closer,
                           thread, signal, db>>
        BY <2>7, <3>2 DEF NoticeCancel
      <4> QED BY <4>1
    <3> QED BY <3>1, <3>2
  <2>8. CASE InterruptOwn(r)  BY <2>8 DEF InterruptOwn, Interrupt
  <2>9. CASE DropGuard(r)     BY <2>9 DEF DropGuard, Interrupt
  <2> QED BY <1>1, <2>1, <2>2, <2>3, <2>4, <2>5, <2>6, <2>7, <2>8, <2>9 DEF CallSteps
<1>2. CASE Closing
  <2>1. CASE RaiseStop     BY <2>1 DEF RaiseStop
  <2>2. CASE StrikeActive  BY <2>2 DEF StrikeActive
  <2>3. CASE WakeThread    BY <2>3 DEF WakeThread
  <2>4. CASE Closed        BY <2>4 DEF Closed
  <2> QED BY <1>2, <2>1, <2>2, <2>3, <2>4 DEF Closing
<1>3. CASE Executes
  <2>1. CASE Succeeds  BY <2>1 DEF Succeeds, Goto, At, TakesEffect, Statement
  <2>2. CASE Fails     BY <2>2 DEF Fails, Leave, Failure, Goto, At, TakesEffect, Statement, RollsBack
  <2>3. CASE GivesUp   BY <2>3 DEF GivesUp, Leave, Goto, At, TakesEffect, Statement
  <2>4. CASE Truncates BY <2>4 DEF Truncates, Goto, At, TakesEffect, Statement
  <2> QED BY <1>3, <2>1, <2>2, <2>3, <2>4 DEF Executes
<1>4. CASE Bounded
  <2>1. CASE Take            BY <2>1, TakenType DEF Take, Goto, At
  <2>2. CASE Publish
    <3>1. CASE Stopping   BY <2>2, <3>1 DEF Publish, Goto, At
    <3>2. CASE ~Stopping  BY <2>2, <3>2 DEF Publish, Goto, At
    <3> QED BY <3>1, <3>2
  <2>3. CASE TestToken       BY <2>3 DEF TestToken, Goto, At
  <2>4. CASE EnableCancel    BY <2>4 DEF EnableCancel, At
  <2>5. CASE Prepare         BY <2>5 DEF Prepare, Leave, Goto, At
  <2>6. CASE Start           BY <2>6 DEF Start, Goto, At
  <2>7. CASE RunEnds         BY <2>7 DEF RunEnds, Goto, At
  <2>8. CASE Begin           BY <2>8 DEF Begin, Failure, Goto, At
  <2>9. CASE StatementsDone  BY <2>9 DEF StatementsDone, Leave, Goto, At
  <2>10. CASE Fence          BY <2>10 DEF Fence, Goto, At
  <2>11. CASE Decide         BY <2>11 DEF Decide, RollsBack, Goto, At
  <2>12. CASE Commit         BY <2>12 DEF Commit, RollsBack, Goto, At
  <2>13. CASE Undo           BY <2>13 DEF Undo, RollsBack, Goto, At
  <2>14. CASE Disarm         BY <2>14 DEF Disarm, Goto, At
  <2>15. CASE Reply          BY <2>15 DEF Reply, Goto, At
  <2>16. CASE Clear          BY <2>16 DEF Clear, Goto, At
  <2>17. CASE Finish         BY <2>17 DEF Finish, Goto, At
  <2> QED BY <1>4, <2>1, <2>2, <2>3, <2>4, <2>5, <2>6, <2>7, <2>8, <2>9, <2>10, <2>11,
             <2>12, <2>13, <2>14, <2>15, <2>16, <2>17 DEF Bounded
<1>5. CASE UNCHANGED vars BY <1>5 DEF vars
<1> QED BY <1>1, <1>2, <1>3, <1>4, <1>5 DEF Next

\* Every reachable state of a connection is well typed.
THEOREM Typing == Spec => []TypeOK
<1>1. Init => TypeOK
  BY WorkerConstants DEF Init, TypeOK, Callers, Answers, Points, Busy
<1> QED BY <1>1, TypeStep, PTL DEF Spec

-----------------------------------------------------------------------------
(* Interrupts and transactions *)

\* The induction step of WorkerInv, one step per action.
LEMMA InvStep == TypeOK /\ WorkerInv /\ [Next]_vars => WorkerInv'
<1> SUFFICES ASSUME TypeOK, WorkerInv, [Next]_vars PROVE WorkerInv'
  OBVIOUS
<1>t. TypeOK'
  BY TypeStep
<1> USE WorkerConstants, <1>t
    DEF TypeOK, WorkerInv, LockOK, FenceOK, TokensOK, OwnersOK, OwnInterrupt, FenceHolds,
        StopReaches, ApplyAlone, Exposed, Busy, Points, Applying, Statement, AtEnd,
        At, Goto, calls, lock, thread, db
<1>1. ASSUME NEW r \in Requests, Call(r) \/ Cancel(r) \/ Abandon(r) \/ CallSteps(r)
      PROVE  WorkerInv'
  <2>1. CASE Call(r)  BY <2>1 DEF Call
  <2>2. CASE Cancel(r)  BY <2>2 DEF Cancel
  <2>3. CASE Abandon(r)  BY <2>3 DEF Abandon
  <2>4. CASE Send(r)  BY <2>4 DEF Send
  <2>5. CASE SendEnds(r)  BY <2>5 DEF SendEnds, Settles
  <2>6. CASE Receive(r)  BY <2>6 DEF Receive, Settles
  <2>7. CASE NoticeCancel(r)  BY <2>7 DEF NoticeCancel, Settles
  <2>8. CASE InterruptOwn(r)  BY <2>8 DEF InterruptOwn, Interrupt
  <2>9. CASE DropGuard(r)  BY <2>9 DEF DropGuard, Interrupt
  <2> QED BY <1>1, <2>1, <2>2, <2>3, <2>4, <2>5, <2>6, <2>7, <2>8, <2>9 DEF CallSteps
<1>2. CASE Closing
  <2>1. CASE RaiseStop  BY <2>1 DEF RaiseStop
  <2>2. CASE StrikeActive  BY <2>2 DEF StrikeActive
  <2>3. CASE WakeThread  BY <2>3 DEF WakeThread
  <2>4. CASE Closed  BY <2>4 DEF Closed
  <2> QED BY <1>2, <2>1, <2>2, <2>3, <2>4 DEF Closing
<1>3. CASE Executes
  <2>1. CASE Succeeds  BY <2>1 DEF Succeeds, TakesEffect
  <2>2. CASE Fails  BY <2>2 DEF Fails, Leave, TakesEffect, RollsBack
  <2>3. CASE GivesUp  BY <2>3 DEF GivesUp, Leave, TakesEffect
  <2>4. CASE Truncates  BY <2>4 DEF Truncates, TakesEffect
  <2> QED BY <1>3, <2>1, <2>2, <2>3, <2>4 DEF Executes
<1>4. CASE Bounded
  <2>1. CASE Take  BY <2>1 DEF Take
  <2>2. CASE Publish  BY <2>2 DEF Publish, Stopping
  <2>3. CASE TestToken  BY <2>3 DEF TestToken
  <2>4. CASE EnableCancel  BY <2>4 DEF EnableCancel, Stopping
  <2>5. CASE Prepare  BY <2>5 DEF Prepare, Leave
  <2>6. CASE Start  BY <2>6 DEF Start
  <2>7. CASE RunEnds  BY <2>7 DEF RunEnds
  <2>8. CASE Begin  BY <2>8 DEF Begin
  <2>9. CASE StatementsDone  BY <2>9 DEF StatementsDone, Leave
  <2>10. CASE Fence  BY <2>10 DEF Fence
  <2>11. CASE Decide  BY <2>11 DEF Decide, RollsBack
  <2>12. CASE Commit  BY <2>12 DEF Commit, RollsBack
  <2>13. CASE Undo  BY <2>13 DEF Undo, RollsBack
  <2>14. CASE Disarm  BY <2>14 DEF Disarm
  <2>15. CASE Reply  BY <2>15 DEF Reply
  <2>16. CASE Clear  BY <2>16 DEF Clear
  <2>17. CASE Finish  BY <2>17 DEF Finish
  <2> QED BY <1>4, <2>1, <2>2, <2>3, <2>4, <2>5, <2>6, <2>7, <2>8, <2>9, <2>10, <2>11, <2>12, <2>13, <2>14, <2>15, <2>16, <2>17 DEF Bounded
<1>5. CASE UNCHANGED vars  BY <1>5 DEF vars
<1> QED BY <1>1, <1>2, <1>3, <1>4, <1>5 DEF Next

\* The invariant behind the theorems below.
THEOREM WorkerInvariant == Spec => []WorkerInv
<1>1. Init => WorkerInv
  BY WorkerConstants DEF Init, WorkerInv, LockOK, FenceOK, TokensOK, OwnersOK, OwnInterrupt,
     FenceHolds, StopReaches, ApplyAlone, Applying, At
<1> QED BY <1>1, InvStep, Typing, PTL DEF Spec

\* A late cancel, a dropped call or the end of the connection never interrupts a
\* request that is not itself to be stopped.
THEOREM InterruptsItsOwn == Spec => []OwnInterrupt
<1>1. WorkerInv => OwnInterrupt  BY DEF WorkerInv
<1> QED BY <1>1, WorkerInvariant, PTL

\* No COMMIT is ever interrupted.
THEOREM CommitsAreFenced == Spec => []FenceHolds
<1>1. WorkerInv => FenceHolds  BY DEF WorkerInv
<1> QED BY <1>1, WorkerInvariant, PTL

\* stop() leaves nothing running that could go on.
THEOREM StopIsHeard == Spec => []StopReaches
<1>1. WorkerInv => StopReaches  BY DEF WorkerInv
<1> QED BY <1>1, WorkerInvariant, PTL

\* A review shares its transaction with nobody.
THEOREM ReviewsAreAlone == Spec => []ApplyAlone
<1>1. WorkerInv => ApplyAlone  BY DEF WorkerInv, OwnersOK
<1> QED BY <1>1, WorkerInvariant, PTL

-----------------------------------------------------------------------------
(* The contract of apply *)

\* What is in the queue after a message is added, and after one is taken.
LEMMA Queued ==
  ASSUME NEW S, NEW q \in Seq(S), NEW x \in S
  PROVE  /\ Append(q, x) \in Seq(S)
         /\ Len(Append(q, x)) = Len(q) + 1
         /\ \A i \in 1..Len(q) : Append(q, x)[i] = q[i]
         /\ Append(q, x)[Len(q) + 1] = x
  OBVIOUS

LEMMA Dequeued ==
  ASSUME NEW S, NEW q \in Seq(S), q # <<>>
  PROVE  /\ Tail(q) \in Seq(S) /\ Head(q) = q[1] /\ 1 \in 1..Len(q)
         /\ Len(Tail(q)) = Len(q) - 1
         /\ \A i \in 1..Len(Tail(q)) : Tail(q)[i] = q[i + 1] /\ i + 1 \in 1..Len(q)
  OBVIOUS

\* A request is taken from the queue once.
LEMMA QueueStep == TypeOK /\ QueueOK /\ [Next]_vars => QueueOK'
<1> SUFFICES ASSUME TypeOK, QueueOK, [Next]_vars PROVE QueueOK'
  OBVIOUS
<1>t. TypeOK'
  BY TypeStep
<1> USE WorkerConstants, <1>t
    DEF calls, lock, thread, db, At, Goto, Busy, Points, Callers, Answers, TypeOK, QueueOK, InQueue
<1>1. ASSUME NEW r \in Requests, Call(r) \/ Cancel(r) \/ Abandon(r) \/ CallSteps(r)
      PROVE  QueueOK'
  <2>1. CASE Call(r)  BY <2>1 DEF Call, Stopping
  <2>2. CASE Cancel(r)  BY <2>2 DEF Cancel
  <2>3. CASE Abandon(r)  BY <2>3 DEF Abandon
  <2>4. CASE Send(r)  BY <2>4 DEF Send
  <2>5. CASE SendEnds(r)  BY <2>5 DEF SendEnds, Settles
  <2>6. CASE Receive(r)  BY <2>6 DEF Receive, Settles
  <2>7. CASE NoticeCancel(r)  BY <2>7 DEF NoticeCancel, Settles
  <2>8. CASE InterruptOwn(r)  BY <2>8 DEF InterruptOwn, Interrupt
  <2>9. CASE DropGuard(r)  BY <2>9 DEF DropGuard, Interrupt
  <2> QED BY <1>1, <2>1, <2>2, <2>3, <2>4, <2>5, <2>6, <2>7, <2>8, <2>9 DEF CallSteps
<1>2. CASE Closing
  <2>1. CASE RaiseStop  BY <2>1 DEF RaiseStop
  <2>2. CASE StrikeActive  BY <2>2 DEF StrikeActive
  <2>3. CASE WakeThread  BY <2>3 DEF WakeThread
  <2>4. CASE Closed  BY <2>4 DEF Closed
  <2> QED BY <1>2, <2>1, <2>2, <2>3, <2>4 DEF Closing
<1>3. CASE Executes
  <2>1. CASE Succeeds
    <3>1. /\ pc = "running" /\ pc' = "next"
          /\ UNCHANGED <<caller, queue, started, reply, cur, outcome>>
      BY <2>1 DEF Succeeds
    <3> QED BY <3>1
  <2>2. CASE Fails  BY <2>2 DEF Fails, Leave, Failure, TakesEffect, RollsBack
  <2>3. CASE GivesUp  BY <2>3 DEF GivesUp, Leave, TakesEffect
  <2>4. CASE Truncates  BY <2>4 DEF Truncates, TakesEffect
  <2> QED BY <1>3, <2>1, <2>2, <2>3, <2>4 DEF Executes
<1>4. CASE Bounded
  <2>1. CASE Take  BY <2>1 DEF Take
  <2>2. CASE Publish  BY <2>2 DEF Publish, Stopping
  <2>3. CASE TestToken  BY <2>3 DEF TestToken
  <2>4. CASE EnableCancel  BY <2>4 DEF EnableCancel, Stopping
  <2>5. CASE Prepare  BY <2>5 DEF Prepare, Leave
  <2>6. CASE Start  BY <2>6 DEF Start
  <2>7. CASE RunEnds  BY <2>7 DEF RunEnds
  <2>8. CASE Begin  BY <2>8 DEF Begin, Failure
  <2>9. CASE StatementsDone  BY <2>9 DEF StatementsDone, Leave
  <2>10. CASE Fence  BY <2>10 DEF Fence
  <2>11. CASE Decide  BY <2>11 DEF Decide, RollsBack
  <2>12. CASE Commit  BY <2>12 DEF Commit, RollsBack
  <2>13. CASE Undo  BY <2>13 DEF Undo, RollsBack
  <2>14. CASE Disarm  BY <2>14 DEF Disarm
  <2>15. CASE Reply  BY <2>15 DEF Reply
  <2>16. CASE Clear  BY <2>16 DEF Clear
  <2>17. CASE Finish  BY <2>17 DEF Finish
  <2> QED BY <1>4, <2>1, <2>2, <2>3, <2>4, <2>5, <2>6, <2>7, <2>8, <2>9, <2>10, <2>11, <2>12, <2>13, <2>14, <2>15, <2>16, <2>17 DEF Bounded
<1>5. CASE UNCHANGED vars  BY <1>5 DEF vars
<1> QED BY <1>1, <1>2, <1>3, <1>4, <1>5 DEF Next

\* What is in effect changes with what is durable of the reviews only.
LEMMA SameEffect ==
  ASSUME \A a \in Applies : \A i \in Nat : <<a, i>> \in durable' <=> <<a, i>> \in durable
  PROVE  InEffect' = InEffect
<1>1. \A a \in Applies : Writes(a) \subseteq durable' <=> Writes(a) \subseteq durable
  BY WorkerConstants DEF Writes
<1> QED BY <1>1 DEF InEffect, Writes

\* Steps of the callers leave what is written alone.
LEMMA WritesFrame ==
  ASSUME WritesOK, UNCHANGED <<db, cur, index>>, started \subseteq started',
         pc' = pc
  PROVE  WritesOK'
<1>1. InEffect' = InEffect
  BY DEF InEffect, Writes, db
<1>2. (\A w \in pending \cup durable : w[1] \in started)'
  BY DEF WritesOK, db
<1>3. (\A w \in pending : w[1] \in Applies => cur = w[1] /\ pc \in Inside)'
  BY DEF WritesOK, db, Inside
<1>4. (Applying /\ pc \in Inside \ {"undo"} =>
       transaction = "open" /\ \A i \in 1..index - 1 : <<cur, i>> \in pending)'
  BY DEF WritesOK, db, Inside, Applying
<1>5. (Applying /\ pc \in {"ready", "running"} => Statement = "work" /\ index <= Len(Script[cur]))'
  BY DEF WritesOK, db, Applying, Statement
<1>6. (\A w \in durable : w[1] \in Applies => w[1] \in InEffect)'
  BY <1>1 DEF WritesOK, db
<1> QED BY <1>1, <1>2, <1>3, <1>4, <1>5, <1>6 DEF WritesOK, db, Inside, Applying, Statement

\* What is in effect changes with what is durable.
LEMMA SameDurable == UNCHANGED durable => InEffect' = InEffect
  BY DEF InEffect, Writes

\* What the statement of a command in progress may change of what was written.
Effects ==
  /\ InEffect' = InEffect
  /\ \A w \in durable' : w[1] \in Applies => w \in durable
  /\ \A w \in durable' \cup pending' : w \in durable \cup pending \/ w[1] = cur
  /\ ~Applying => \A w \in pending' : w[1] \notin Applies
  /\ Applying => /\ durable' = durable /\ transaction' = transaction
                 /\ pending' = pending \cup {<<cur, index>>}

LEMMA EffectOK ==
  ASSUME TypeOK, WritesOK, pc = "running", TakesEffect
  PROVE  Effects
<1> USE WorkerConstants DEF TypeOK, WritesOK, Applying, Inside, Busy, Points
<1>1. cur \in Requests
  OBVIOUS
<1>2. Applying => /\ Statement = "work" /\ transaction = "open"
                  /\ durable' = durable /\ transaction' = transaction
                  /\ pending' = pending \cup {<<cur, index>>}
  BY DEF TakesEffect
<1>3. ~Applying => \A w \in pending : w[1] \notin Applies
  OBVIOUS
<1>4. \A w \in durable' : w \in durable \/ w \in pending \/ w = <<cur, index>>
  BY DEF TakesEffect
<1>5. \A w \in pending' : w \in pending \/ w = <<cur, index>>
  BY DEF TakesEffect
<1>6. \A w \in durable' : w[1] \in Applies => w \in durable
  BY <1>1, <1>2, <1>3, <1>4
<1>7. durable \subseteq durable'
  BY DEF TakesEffect
<1>8. InEffect' = InEffect
  BY <1>6, <1>7, SameEffect
<1> QED BY <1>1, <1>2, <1>3, <1>4, <1>5, <1>6, <1>8 DEF Effects

LEMMA CommitEffect ==
  ASSUME TypeOK, OwnersOK, WritesOK, Commit
  PROVE  \/ outcome' = "ok" /\ InEffect' = InEffect \cup {cur}
         \/ outcome' = "error" /\ InEffect' = InEffect
<1>0. /\ pc = "commit" /\ cur \in Applies /\ cur' = cur
      /\ \A w \in pending : w[1] = cur
      /\ \A w \in durable : w[1] # cur
      /\ \A i \in 1..Len(Script[cur]) : <<cur, i>> \in pending
  BY WorkerConstants DEF Commit, At, WritesOK, Inside, OwnersOK, ApplyAlone, Applying, TypeOK
<1>1. CASE outcome' = "error" /\ RollsBack
  BY <1>1, SameDurable DEF RollsBack
<1>2. CASE outcome' = "ok" /\ durable' = durable \cup pending
  <2>1. Writes(cur) \subseteq durable'
    BY <1>0, <1>2 DEF Writes
  <2>2. \A a \in Applies : a # cur => (Writes(a) \subseteq durable' <=> Writes(a) \subseteq durable)
    BY <1>0, <1>2 DEF Writes
  <2>3. InEffect' = InEffect \cup {cur}
    BY <1>0, <2>1, <2>2 DEF InEffect, Writes
  <2> QED BY <1>2, <2>3
<1> QED BY <1>1, <1>2 DEF Commit

\* The effect of a review grows at its COMMIT, and with nothing else.
Committed ==
  /\ pc = "commit" /\ pc' = "disarm" /\ outcome' = "ok" /\ cur \in Applies /\ cur' = cur
  /\ InEffect' = InEffect \cup {cur} /\ UNCHANGED <<calls, token, queue, reply>>

LEMMA EffectStep ==
  TypeOK /\ OwnersOK /\ WritesOK /\ [Next]_vars => InEffect' = InEffect \/ Committed
<1> SUFFICES ASSUME TypeOK, OwnersOK, WritesOK, [Next]_vars PROVE InEffect' = InEffect \/ Committed
  OBVIOUS
<1> USE DEF At, db
<1>1. ASSUME NEW r \in Requests, Call(r) \/ Cancel(r) \/ Abandon(r) \/ CallSteps(r)
      PROVE  UNCHANGED durable
  BY <1>1 DEF Call, Cancel, Abandon, CallSteps, Send, SendEnds, Receive, NoticeCancel,
              InterruptOwn, DropGuard
<1>2. CASE Closing
  BY <1>2, SameDurable DEF Closing, RaiseStop, StrikeActive, WakeThread, Closed
<1>3. CASE Executes
  <2>1. pc = "running" /\ (UNCHANGED durable \/ TakesEffect)
    BY <1>3 DEF Executes, Succeeds, Fails, GivesUp, Truncates, RollsBack
  <2> QED BY <2>1, SameDurable, EffectOK DEF Effects
<1>4. CASE Bounded /\ ~Commit
  BY <1>4, SameDurable DEF Bounded, Take, Publish, TestToken, EnableCancel, Prepare, Start,
     RunEnds, Begin, StatementsDone, Fence, Decide, Undo, Disarm, Reply, Clear, Finish, RollsBack
<1>5. CASE Commit
  BY <1>5, CommitEffect DEF Commit, Committed, WritesOK, Applying, Goto, calls
<1>6. CASE UNCHANGED vars
  BY <1>6, SameDurable DEF vars
<1> QED BY <1>1, <1>2, <1>3, <1>4, <1>5, <1>6, SameDurable DEF Next

\* A review's writes stay its own until they are durable together.
LEMMA WritesStep == TypeOK /\ QueueOK /\ LockOK /\ OwnersOK /\ WritesOK /\ [Next]_vars => WritesOK'
<1> SUFFICES ASSUME TypeOK, QueueOK, LockOK, OwnersOK, WritesOK, [Next]_vars PROVE WritesOK'
  OBVIOUS
<1>t. TypeOK'
  BY TypeStep
<1>f. InEffect' = InEffect \/ Committed
  BY EffectStep
<1> USE WorkerConstants, <1>t, <1>f
    DEF Committed, calls, lock, thread, db, At, Goto, Busy, Points, Callers, Answers, TypeOK, WritesOK, Inside, Applying, Statement, AtEnd, LockOK, OwnersOK, QueueOK
<1>1. ASSUME NEW r \in Requests, Call(r) \/ Cancel(r) \/ Abandon(r) \/ CallSteps(r)
      PROVE  WritesOK'
  <2>1. UNCHANGED <<db, thread, started>>
    BY <1>1 DEF Call, Cancel, Abandon, CallSteps, Send, SendEnds, Receive, NoticeCancel,
                InterruptOwn, DropGuard
  <2> QED BY <2>1, WritesFrame
<1>2. CASE Closing
  <2>1. UNCHANGED <<db, thread, started>>
    BY <1>2 DEF Closing, RaiseStop, StrikeActive, WakeThread, Closed
  <2> QED BY <2>1, WritesFrame
<1>3. CASE Executes
  <2>1. CASE Succeeds
    <3>1. Effects  BY <2>1, EffectOK DEF Succeeds
    <3> QED BY <2>1, <3>1 DEF Succeeds, Effects
  <2>2. CASE Fails
    <3>0. /\ pc = "running" /\ Leave(Failure)
          /\ UNCHANGED <<started, cur, index>>
      BY <2>2 DEF Fails
    <3>1. CASE UNCHANGED db   BY <3>0, <3>1 DEF Leave
    <3>2. CASE RollsBack   BY <3>0, <3>2 DEF Leave, RollsBack
    <3>3. CASE TakesEffect
      <4>1. Effects  BY <3>0, <3>3, EffectOK
      <4> QED BY <3>0, <4>1 DEF Leave, Effects
    <3> QED BY <2>2, <3>1, <3>2, <3>3 DEF Fails
  <2>3. CASE GivesUp
    <3>1. CASE UNCHANGED db   BY <2>3, <3>1 DEF GivesUp, Leave
    <3>2. CASE TakesEffect
      <4>1. Effects  BY <2>3, <3>2, EffectOK DEF GivesUp
      <4> QED BY <2>3, <4>1 DEF GivesUp, Leave, Effects
    <3> QED BY <2>3, <3>1, <3>2 DEF GivesUp
  <2>4. CASE Truncates
    <3>1. CASE UNCHANGED db   BY <2>4, <3>1 DEF Truncates
    <3>2. CASE TakesEffect
      <4>1. Effects  BY <2>4, <3>2, EffectOK DEF Truncates
      <4> QED BY <2>4, <4>1 DEF Truncates, Effects
    <3> QED BY <2>4, <3>1, <3>2 DEF Truncates
  <2> QED BY <1>3, <2>1, <2>2, <2>3, <2>4 DEF Executes
<1>4. CASE Bounded
  <2>1. CASE Take  BY <2>1 DEF Take
  <2>2. CASE Publish  BY <2>2 DEF Publish, Stopping
  <2>3. CASE TestToken  BY <2>3 DEF TestToken
  <2>4. CASE EnableCancel  BY <2>4 DEF EnableCancel, Stopping
  <2>5. CASE Prepare  BY <2>5 DEF Prepare, Leave
  <2>6. CASE Start  BY <2>6 DEF Start
  <2>7. CASE RunEnds  BY <2>7 DEF RunEnds
  <2>8. CASE Begin  BY <2>8 DEF Begin, Failure
  <2>9. CASE StatementsDone  BY <2>9 DEF StatementsDone, Leave
  <2>10. CASE Fence  BY <2>10 DEF Fence
  <2>11. CASE Decide  BY <2>11 DEF Decide, RollsBack
  <2>12. CASE Commit
    <3>0. /\ pc = "commit" /\ pc' = "disarm" /\ cur \in Applies /\ UNCHANGED <<started, cur, index>>
      BY <2>12 DEF Commit
    <3>1. CASE RollsBack   BY <3>0, <3>1 DEF RollsBack
    <3>2. CASE durable' = durable \cup pending /\ pending' = {} /\ transaction' = "none"
      <4>1. \A w \in pending : w[1] = cur
        BY <3>0 DEF ApplyAlone
      <4>2. Writes(cur) \subseteq durable'
        BY <3>0, <3>2 DEF Writes
      <4>3. InEffect \subseteq InEffect' /\ cur \in InEffect'
        BY <3>0, <3>2, <4>2 DEF InEffect, Writes
      <4> QED BY <3>0, <3>2, <4>1, <4>3
    <3> QED BY <2>12, <3>1, <3>2 DEF Commit
  <2>13. CASE Undo  BY <2>13 DEF Undo, RollsBack
  <2>14. CASE Disarm  BY <2>14 DEF Disarm
  <2>15. CASE Reply  BY <2>15 DEF Reply
  <2>16. CASE Clear  BY <2>16 DEF Clear
  <2>17. CASE Finish  BY <2>17 DEF Finish
  <2> QED BY <1>4, <2>1, <2>2, <2>3, <2>4, <2>5, <2>6, <2>7, <2>8, <2>9, <2>10, <2>11, <2>12, <2>13, <2>14, <2>15, <2>16, <2>17 DEF Bounded
<1>5. CASE UNCHANGED vars  BY <1>5, WritesFrame DEF vars
<1> QED BY <1>1, <1>2, <1>3, <1>4, <1>5 DEF Next

\* What is replied and answered follows what is in effect.
LEMMA NotYet ==
  ASSUME TypeOK, WritesOK
  PROVE  /\ InEffect \subseteq started
         /\ Applying /\ pc \in Inside \cup {"test", "begin"} => cur \notin InEffect
<1>1. ASSUME NEW a \in InEffect
      PROVE  \E w \in durable : w[1] = a
  <2>1. a \in Applies /\ 1 \in 1..Len(Script[a]) /\ Writes(a) \subseteq durable
    BY WorkerConstants DEF InEffect
  <2>2. <<a, 1>> \in Writes(a) /\ <<a, 1>>[1] = a
    BY <2>1 DEF Writes
  <2> QED BY <2>1, <2>2
<1> QED BY <1>1 DEF WritesOK, Applying

LEMMA AnswersStep == TypeOK /\ QueueOK /\ OwnersOK /\ WritesOK /\ AnswersOK /\ [Next]_vars => AnswersOK'
<1> SUFFICES ASSUME TypeOK, QueueOK, OwnersOK, WritesOK, AnswersOK, [Next]_vars PROVE AnswersOK'
  OBVIOUS
<1>t. TypeOK'
  BY TypeStep
<1>e. /\ InEffect \subseteq started
      /\ Applying /\ pc \in Inside \cup {"test", "begin"} => cur \notin InEffect
  BY NotYet
<1>f. InEffect' = InEffect \/ Committed
  BY EffectStep
<1> USE WorkerConstants, <1>t, <1>e, <1>f
    DEF Committed, calls, lock, thread, db, At, Goto, Busy, Points, Callers, Answers, TypeOK, AnswersOK, QueueOK, WritesOK, Inside, Applying, InQueue
<1>1. ASSUME NEW r \in Requests, Call(r) \/ Cancel(r) \/ Abandon(r) \/ CallSteps(r)
      PROVE  AnswersOK'
  <2>1. CASE Call(r)
    <3>1. InEffect' = InEffect  BY <2>1 DEF Call, Stopping
    <3>2. /\ caller[r] = "idle" /\ ~InQueue(r) /\ cur # r /\ r \notin started
          /\ UNCHANGED <<cancelled, token, queue, started, reply, thread>>
      BY <2>1 DEF Call, Stopping
    <3>3. CASE r \in cancelled \/ Stopping
      <4>1. \E x \in {"cancelled", "error"} : answer' = [answer EXCEPT ![r] = x]
        BY <2>1, <3>3 DEF Call
      <4>2. caller' = [caller EXCEPT ![r] = "returned"]
        BY <2>1, <3>3 DEF Call
      <4>3. r \notin InEffect
        BY <3>2
      <4> QED BY <3>1, <3>2, <4>1, <4>2, <4>3
    <3>4. CASE ~(r \in cancelled \/ Stopping)
      <4>1. caller' = [caller EXCEPT ![r] = "sending"] /\ UNCHANGED answer
        BY <2>1, <3>4 DEF Call
      <4>2. r \in Applies => answer[r] = "none"
        BY <3>2
      <4> QED BY <3>1, <3>2, <4>1, <4>2
    <3> QED BY <3>3, <3>4
  <2>2. CASE Cancel(r)  BY <2>2 DEF Cancel
  <2>3. CASE Abandon(r)  BY <2>3 DEF Abandon
  <2>4. CASE Send(r)
    <3>1. InEffect' = InEffect  BY <2>4 DEF Send
    <3>2. /\ caller[r] = "sending" /\ caller' = [caller EXCEPT ![r] = "waiting"]
          /\ queue' = Append(queue, r)
          /\ UNCHANGED <<answer, token, started, reply, thread>>
      BY <2>4 DEF Send
    <3>3. r \in Applies => answer[r] = "none"
      BY <3>2
    <3>4. ASSUME NEW a \in Requests, a # r
          PROVE  InQueue(a)' <=> InQueue(a)
      BY <3>2, <3>4, Queued
    <3> QED BY <3>1, <3>2, <3>3, <3>4
  <2>5. CASE SendEnds(r)
    <3>1. /\ caller[r] = "sending"
          /\ Settles(r, "cancelled") \/ Settles(r, "error")
          /\ UNCHANGED <<cancelled, queue, started, reply, thread>>
      BY <2>5 DEF SendEnds
    <3>2. InEffect' = InEffect /\ r \notin InEffect
      BY <3>1
    <3>3. PICK x \in {"cancelled", "error"} :
               /\ answer' = [answer EXCEPT ![r] = x]
               /\ caller' = [caller EXCEPT ![r] = "dropping"]
               /\ token' = token \cup {r}
      BY <3>1 DEF Settles
    <3>4. ~InQueue(r) /\ cur # r
      BY <3>1
    <3> QED BY <3>1, <3>2, <3>3, <3>4
  <2>6. CASE Receive(r)  BY <2>6 DEF Receive, Settles
  <2>7. CASE NoticeCancel(r)
    <3>1. InEffect' = InEffect  BY <2>7 DEF NoticeCancel, Settles
    <3>2. /\ caller[r] = "waiting" /\ r \in cancelled
          /\ UNCHANGED <<cancelled, queue, started, reply, thread>>
      BY <2>7 DEF NoticeCancel
    <3>3. CASE r \notin started
      <4>1. /\ caller' = [caller EXCEPT ![r] = "dropping"]
            /\ answer' = [answer EXCEPT ![r] = "cancelled"]
            /\ token' = token \cup {r}
        BY <2>7, <3>3 DEF NoticeCancel, Settles
      <4>2. r \notin InEffect /\ (cur = r => pc \notin Inside \cup {"begin"})
        BY <3>3
      <4> QED BY <3>1, <3>2, <4>1, <4>2
    <3>4. CASE r \in started
      <4>1. caller' = [caller EXCEPT ![r] = "interrupting"] /\ UNCHANGED <<answer, token>>
        BY <2>7, <3>4 DEF NoticeCancel
      <4>2. r \in Applies => answer[r] = "none"
        BY <3>2
      <4> QED BY <3>1, <3>2, <4>1, <4>2
    <3> QED BY <3>3, <3>4
  <2>8. CASE InterruptOwn(r)  BY <2>8 DEF InterruptOwn, Interrupt
  <2>9. CASE DropGuard(r)  BY <2>9 DEF DropGuard, Interrupt
  <2> QED BY <1>1, <2>1, <2>2, <2>3, <2>4, <2>5, <2>6, <2>7, <2>8, <2>9 DEF CallSteps
<1>2. CASE Closing
  <2>1. CASE RaiseStop  BY <2>1 DEF RaiseStop
  <2>2. CASE StrikeActive  BY <2>2 DEF StrikeActive
  <2>3. CASE WakeThread  BY <2>3 DEF WakeThread
  <2>4. CASE Closed  BY <2>4 DEF Closed
  <2> QED BY <1>2, <2>1, <2>2, <2>3, <2>4 DEF Closing
<1>3. CASE Executes
  <2>1. CASE Succeeds  BY <2>1 DEF Succeeds
  <2>2. CASE Fails     BY <2>2 DEF Fails, Leave, Failure
  <2>3. CASE GivesUp   BY <2>3 DEF GivesUp, Leave
  <2>4. CASE Truncates  BY <2>4 DEF Truncates
  <2> QED BY <1>3, <2>1, <2>2, <2>3, <2>4 DEF Executes
<1>4. CASE Bounded
  <2>1. CASE Take  BY <2>1 DEF Take
  <2>2. CASE Publish  BY <2>2 DEF Publish, Stopping
  <2>3. CASE TestToken  BY <2>3 DEF TestToken
  <2>4. CASE EnableCancel  BY <2>4 DEF EnableCancel, Stopping
  <2>5. CASE Prepare  BY <2>5 DEF Prepare, Leave
  <2>6. CASE Start  BY <2>6 DEF Start
  <2>7. CASE RunEnds  BY <2>7 DEF RunEnds
  <2>8. CASE Begin  BY <2>8 DEF Begin, Failure
  <2>9. CASE StatementsDone  BY <2>9 DEF StatementsDone, Leave
  <2>10. CASE Fence  BY <2>10 DEF Fence
  <2>11. CASE Decide  BY <2>11 DEF Decide, RollsBack
  <2>12. CASE Commit  BY <2>12, CommitEffect DEF Commit
  <2>13. CASE Undo  BY <2>13 DEF Undo, RollsBack
  <2>14. CASE Disarm  BY <2>14 DEF Disarm
  <2>15. CASE Reply  BY <2>15 DEF Reply
  <2>16. CASE Clear  BY <2>16 DEF Clear
  <2>17. CASE Finish  BY <2>17 DEF Finish
  <2> QED BY <1>4, <2>1, <2>2, <2>3, <2>4, <2>5, <2>6, <2>7, <2>8, <2>9, <2>10, <2>11, <2>12, <2>13, <2>14, <2>15, <2>16, <2>17 DEF Bounded
<1>5. CASE UNCHANGED vars  BY <1>5 DEF vars
<1> QED BY <1>1, <1>2, <1>3, <1>4, <1>5 DEF Next

\* The invariant behind the contract: a review is in the database whole or not at
\* all, and whatever its caller hears is true of it.
THEOREM ContractInvariant == Spec => []ContractInv
<1>1. Init => ContractInv
  <2> SUFFICES ASSUME Init PROVE ContractInv
    OBVIOUS
  <2>1. QueueOK    BY WorkerConstants DEF Init, QueueOK, InQueue, Busy, Points
  <2>2. WritesOK   BY WorkerConstants DEF Init, WritesOK, Inside, Applying
  <2>3. AnswersOK  BY WorkerConstants DEF Init, AnswersOK, Applying
  <2> QED BY <2>1, <2>2, <2>3 DEF ContractInv
<1>2. TypeOK /\ WorkerInv /\ ContractInv /\ [Next]_vars => ContractInv'
  BY QueueStep, WritesStep, AnswersStep DEF WorkerInv, ContractInv
<1> QED BY <1>1, <1>2, Typing, WorkerInvariant, PTL DEF Spec

\* A review is never half in the database.
THEOREM WholeOrNotAtAll == Spec => []AllOrNothing
<1>1. TypeOK /\ ContractInv => AllOrNothing
  <2> SUFFICES ASSUME WritesOK, NEW a \in Applies, Writes(a) \cap durable # {}
               PROVE  Writes(a) \subseteq durable
    BY DEF ContractInv, AllOrNothing
  <2>1. PICK w \in durable : w[1] = a
    BY DEF Writes
  <2> QED BY <2>1 DEF WritesOK, InEffect
<1> QED BY <1>1, Typing, ContractInvariant, PTL

\* The answers of the reviews alone.
ReviewAnswers == [a \in Applies |-> answer[a]]

\* A step of the worker, seen from the contract: nothing, a COMMIT, or a return.
LEMMA ContractStep ==
  ASSUME TypeOK, OwnersOK, ContractInv, [Next]_vars
  PROVE  [Contract!Next]_<<InEffect, ReviewAnswers>>
<1> USE WorkerConstants DEF TypeOK, ContractInv, Answers, Callers
<1>1. CASE Committed
  <2>1. answer[cur] = "none"
    BY <1>1 DEF Committed, AnswersOK, QueueOK, Inside
  <2>2. cur \notin InEffect
    BY <1>1, NotYet DEF Committed, Inside, Applying
  <2>3. Contract!Commit(cur)
    BY <1>1, <2>1, <2>2 DEF Committed, Contract!Commit, calls
  <2> QED BY <1>1, <2>3 DEF Committed, Contract!Next
<1>2. ASSUME NEW r \in Requests, NEW x \in Answers \ {"none"}, InEffect' = InEffect,
             answer' = [answer EXCEPT ![r] = x],
             r \in Applies => answer[r] = "none" /\ (x = "ok" <=> r \in InEffect)
      PROVE  [Contract!Next]_<<InEffect, ReviewAnswers>>
  <2>1. CASE r \in Applies
    <3>1. Contract!Return(r, x)
      BY <1>2, <2>1 DEF Contract!Return
    <3> QED BY <1>2, <2>1, <3>1 DEF Contract!Next, Contract!Answers
  <2>2. CASE r \notin Applies
    BY <1>2, <2>2 DEF ReviewAnswers
  <2> QED BY <2>1, <2>2
<1>3. CASE InEffect' = InEffect /\ UNCHANGED answer
  BY <1>3 DEF ReviewAnswers
<1>4. ASSUME InEffect' = InEffect, NEW r \in Requests,
             Call(r) \/ SendEnds(r) \/ Receive(r) \/ NoticeCancel(r)
      PROVE  [Contract!Next]_<<InEffect, ReviewAnswers>>
  <2>1. r \in Applies /\ caller[r] \notin {"dropping", "returned"} => answer[r] = "none"
    BY DEF AnswersOK
  <2>2. r \notin started => r \notin InEffect
    BY NotYet
  <2>3. CASE Call(r) /\ (r \in cancelled \/ Stopping)
    <3>1. PICK x \in {"cancelled", "error"} : answer' = [answer EXCEPT ![r] = x]
      BY <2>3 DEF Call
    <3>2. caller[r] = "idle" /\ r \notin started
      BY <2>3 DEF Call, QueueOK
    <3> QED BY <1>2, <1>4, <2>1, <2>2, <3>1, <3>2
  <2>4. CASE Call(r) /\ ~(r \in cancelled \/ Stopping)
    BY <1>3, <1>4, <2>4 DEF Call
  <2>5. CASE SendEnds(r)
    <3>1. PICK x \in {"cancelled", "error"} : answer' = [answer EXCEPT ![r] = x]
      BY <2>5 DEF SendEnds, Settles
    <3>2. caller[r] = "sending" /\ r \notin started
      BY <2>5 DEF SendEnds, QueueOK
    <3> QED BY <1>2, <1>4, <2>1, <2>2, <3>1, <3>2
  <2>6. CASE Receive(r) /\ reply[r] # "none"
    <3>1. answer' = [answer EXCEPT ![r] = reply[r]] /\ caller[r] \in {"waiting", "awaiting"}
      BY <2>6 DEF Receive, Settles
    <3>2. r \in Applies => (reply[r] = "ok" <=> r \in InEffect)
      BY <2>6 DEF AnswersOK
    <3> QED BY <1>2, <1>4, <2>1, <2>6, <3>1, <3>2
  <2>7. CASE Receive(r) /\ reply[r] = "none"
    <3>1. /\ answer' = [answer EXCEPT ![r] = "error"] /\ caller[r] \in {"waiting", "awaiting"}
          /\ pc = "finished"
      BY <2>7 DEF Receive, Settles
    <3>2. r \notin started
      BY <2>7, <3>1 DEF QueueOK
    <3> QED BY <1>2, <1>4, <2>1, <2>2, <3>1, <3>2
  <2>8. CASE NoticeCancel(r) /\ r \notin started
    <3>1. answer' = [answer EXCEPT ![r] = "cancelled"] /\ caller[r] = "waiting"
      BY <2>8 DEF NoticeCancel, Settles
    <3> QED BY <1>2, <1>4, <2>1, <2>2, <2>8, <3>1
  <2>9. CASE NoticeCancel(r) /\ r \in started
    BY <1>3, <1>4, <2>9 DEF NoticeCancel
  <2> QED BY <1>4, <2>3, <2>4, <2>5, <2>6, <2>7, <2>8, <2>9
<1>5. ASSUME InEffect' = InEffect,
             ~ \E r \in Requests : Call(r) \/ SendEnds(r) \/ Receive(r) \/ NoticeCancel(r)
      PROVE  UNCHANGED answer
  <2>1. ASSUME NEW r \in Requests,
               Cancel(r) \/ Abandon(r) \/ Send(r) \/ InterruptOwn(r) \/ DropGuard(r)
        PROVE  UNCHANGED answer
    BY <2>1 DEF Cancel, Abandon, Send, InterruptOwn, DropGuard
  <2>2. CASE Closing
    BY <2>2 DEF Closing, RaiseStop, StrikeActive, WakeThread, Closed, calls
  <2>3. CASE Executes
    BY <2>3 DEF Executes, Succeeds, Fails, GivesUp, Truncates, calls
  <2>4. CASE Bounded
    BY <2>4 DEF Bounded, Take, Publish, TestToken, EnableCancel, Prepare, Start, RunEnds, Begin,
       StatementsDone, Fence, Decide, Commit, Undo, Disarm, Reply, Clear, Finish, calls
  <2>5. CASE UNCHANGED vars
    BY <2>5 DEF vars, calls
  <2> QED BY <1>5, <2>1, <2>2, <2>3, <2>4, <2>5 DEF Next, CallSteps
<1>6. InEffect' = InEffect \/ Committed
  BY EffectStep DEF ContractInv
<1> QED BY <1>1, <1>3, <1>4, <1>5, <1>6

\* One connection implements the contract of apply, with the COMMIT of a review as
\* the instant at which it takes effect.
THEOREM ImplementsContract == Spec => KeepsContract
<1>1. Init => Contract!Init
  <2> SUFFICES ASSUME Init PROVE Contract!Init
    OBVIOUS
  <2>1. ASSUME NEW a \in Applies PROVE Writes(a) # {}
    <3>1. 1 \in 1..Len(Script[a])
      BY WorkerConstants
    <3> QED BY <3>1 DEF Writes
  <2>2. InEffect = {}
    BY <2>1 DEF Init, InEffect
  <2> QED BY WorkerConstants, <2>2 DEF Init, Contract!Init
<1>2. TypeOK /\ WorkerInv /\ ContractInv /\ [Next]_vars =>
        [Contract!Next]_<<InEffect, ReviewAnswers>>
  BY ContractStep DEF WorkerInv
<1> QED BY <1>1, <1>2, Typing, WorkerInvariant, ContractInvariant, PTL
    DEF Spec, KeepsContract, Contract!Spec, ReviewAnswers
================================================================================
