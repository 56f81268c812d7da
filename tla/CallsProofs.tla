----------------------------- MODULE CallsProofs -----------------------------
(***************************************************************************)
(* What holds of the engine's calls for any number of requests, whatever   *)
(* they are and in whatever order their tasks are polled.                  *)
(***************************************************************************)
EXTENDS Calls, SequenceTheorems, TLAPS

\* The first Excess runs go, the others stay in their order.
LEMMA SuffixType ==
  ASSUME NEW S, NEW s \in Seq(S), NEW n \in Nat
  PROVE  SubSeq(s, n + 1, Len(s)) \in Seq(S)
  OBVIOUS

LEMMA ExcessNat ==
  ASSUME NEW S, NEW s \in Seq(S), NEW m \in Nat \ {0}
  PROVE  /\ Excess(s, m) \in Nat
         /\ Excess(s, m) <= Len(s)
         /\ s # <<>> => Excess(s, m) < Len(s)
  BY DEF Excess

\* What is stored, and what the editor hears of, are call ids.
LEMMA GroupNat ==
  ASSUME TypeOK
  PROVE  /\ \A j \in Jobs : Group(j) \in SUBSET Nat
         /\ Reported \in SUBSET Nat
  <1>1. \A j \in Jobs : Group(j) \in SUBSET Nat
    BY DEF TypeOK, Group
  <1>2. QED
    BY <1>1 DEF Reported, Jobs

\* Every step keeps every variable in its type.
LEMMA TypeStep == TypeOK /\ [Next]_vars => TypeOK'
  <1> SUFFICES ASSUME TypeOK, [Next]_vars PROVE TypeOK'
    OBVIOUS
  <1> USE ConstantsOK DEF TypeOK, Goto, work, session, Jobs, Phases, Verdicts
  <1>1. ASSUME NEW setting \in Settings, Configure(setting) PROVE TypeOK'
    BY <1>1 DEF Configure, AtLeastOne
  <1>2. ASSUME NEW j \in Runs, NEW n \in 1..MaxStatements, NEW ins \in BOOLEAN,
               Execute(j, n, ins) PROVE TypeOK'
    BY <1>2, SMTT(30) DEF Execute
  <1>3. ASSUME NEW j \in Applies, NEW id \in Reported, Apply(j, id) PROVE TypeOK'
    <2>1. id \in Nat
      BY <1>3, GroupNat
    <2>2. QED
      BY <1>3, <2>1 DEF Apply
  <1>4. ASSUME NEW j \in Restores, Restore(j) PROVE TypeOK'
    BY <1>4 DEF Restore
  <1>5. ASSUME NEW j \in Jobs, Cancel(callId[j]) PROVE TypeOK'
    BY <1>5 DEF Cancel, Unregister
  <1>6. ASSUME NEW j \in Runs, NEW n \in 0..MaxResults, StatementReturns(j, n)
        PROVE TypeOK'
    BY <1>6 DEF StatementReturns, Fresh
  <1>7. ASSUME NEW j \in Runs, NEW c \in BOOLEAN, StatementFails(j, c) PROVE TypeOK'
    <2>1. Fresh(1) \subseteq Nat /\ ErrorVerdict(j, c) \in Verdicts
      BY DEF Fresh, ErrorVerdict
    <2> QED
      BY <1>7, <2>1 DEF StatementFails
  <1>8. ASSUME NEW j \in Applies, NEW o \in {"done", "error", "cancelled"},
               ApplyReturns(j, o) PROVE TypeOK'
    BY <1>8 DEF ApplyReturns
  <1>9. ASSUME NEW j \in Jobs, Begin(j) PROVE TypeOK'
    BY <1>9 DEF Begin, Register
  <1>10. ASSUME NEW j \in Jobs, Announce(j) PROVE TypeOK'
    BY <1>10 DEF Announce
  <1>11. ASSUME NEW j \in Jobs, TakeInserted(j) PROVE TypeOK'
    <2>1. Conn[j] \in Conns
      BY <1>11
    <2>2. CASE wants[j]
      <3>1. stash' = [stash EXCEPT ![Conn[j]] = None]
        BY <1>11, <2>2 DEF TakeInserted
      <3>2. shown' = [a \in Jobs |-> IF a = stash[Conn[j]] THEN shown[a] \cup {j}
                                                           ELSE shown[a]]
        BY <1>11, <2>2 DEF TakeInserted
      <3>3. stash' \in [Conns -> Jobs \cup {None}]
        BY <3>1
      <3>4. shown' \in [Jobs -> SUBSET Jobs]
        BY <3>2
      <3>5. QED
        BY <1>11, <3>3, <3>4 DEF TakeInserted
    <2>3. CASE ~wants[j]
      BY <1>11, <2>3 DEF TakeInserted
    <2>4. QED
      BY <2>2, <2>3
  <1>12. ASSUME NEW j \in Jobs, DropRun(j) PROVE TypeOK'
    BY <1>12 DEF DropRun, Unregister
  <1>13. ASSUME NEW j \in Jobs, DropApply(j) PROVE TypeOK'
    BY <1>13 DEF DropApply, Unregister
  <1>14. ASSUME NEW j \in Jobs, Settle(j) PROVE TypeOK'
    <2>1. Conn[j] \in Conns
      BY <1>14
    <2>2. stash' \in [Conns -> Jobs \cup {None}] /\ verdict' \in [Jobs -> Verdicts]
      <3>1. CASE verdict[j] = "done"
        BY <1>14, <2>1, <3>1, ZenonT(60) DEF Settle
      <3>2. CASE verdict[j] # "done"
        <4>1. ErrorVerdict(j, verdict[j] = "cancelled") \in Verdicts
          BY DEF ErrorVerdict
        <4>2. QED
          BY <1>14, <3>2, <4>1, ZenonT(60) DEF Settle
      <3>3. QED
        BY <3>1, <3>2
    <2>3. phase' \in [Jobs -> Phases]
      BY <1>14 DEF Settle
    <2>4. QED
      BY <1>14, <2>2, <2>3 DEF Settle
  <1>15. ASSUME NEW j \in Restores, NEW found \in BOOLEAN, NEW n \in 0..MaxResults,
                RestoreReads(j, found, n) PROVE TypeOK'
    BY <1>15, SMTT(30) DEF RestoreReads, Fresh
  <1>16. ASSUME NEW j \in Jobs, Timer(j) PROVE TypeOK'
    BY <1>16 DEF Timer
  <1>17. ASSUME NEW j \in Jobs, ReadLimit(j) PROVE TypeOK'
    BY <1>17 DEF ReadLimit, AtLeastOne
  <1>18. ASSUME NEW j \in Jobs, Store(j) PROVE TypeOK'
    <2> DEFINE runs == Append(order, Group(j))
               out == Excess(runs, limit[j])
    <2>1. Group(j) \in SUBSET Nat
      BY GroupNat
    <2>2. runs \in Seq(SUBSET Nat) /\ Append(log, Group(j)) \in Seq(SUBSET Nat)
      BY <2>1
    <2>3. out \in Nat
      BY <2>2, ExcessNat
    <2>4. SubSeq(runs, out + 1, Len(runs)) \in Seq(SUBSET Nat)
      BY <2>2, <2>3, SuffixType
    <2>5. order' \in Seq(SUBSET Nat) /\ log' \in Seq(SUBSET Nat) /\ held' \in SUBSET Nat
      BY <1>18, <2>1, <2>2, <2>4 DEF Store
    <2>6. phase' \in [Jobs -> Phases]
      BY <1>18 DEF Store
    <2>7. QED
      BY <1>18, <2>5, <2>6 DEF Store
  <1>19. ASSUME NEW j \in Jobs, Tell(j) PROVE TypeOK'
    BY <1>19 DEF Tell
  <1>20. ASSUME NEW j \in Jobs, Close(j) PROVE TypeOK'
    BY <1>20 DEF Close, Unregister
  <1>21. CASE UNCHANGED vars
    BY <1>21 DEF vars
  <1> HIDE DEF TypeOK
  <1>22. ASSUME Request PROVE TypeOK'
    BY <1>22, <1>1, <1>2, <1>3, <1>4, <1>5 DEF Request
  <1>23. ASSUME NEW j \in Jobs, Returns(j) PROVE TypeOK'
    BY <1>23, <1>6, <1>7, <1>8 DEF Returns
  <1>24. ASSUME NEW j \in Jobs, Step(j) PROVE TypeOK'
    BY <1>24, <1>9, <1>10, <1>11, <1>12, <1>13, <1>14, <1>15, <1>16, <1>17, <1>18,
       <1>19, <1>20 DEF Step, RunStep, ApplyStep, RestoreStep
  <1>25. QED
    BY <1>21, <1>22, <1>23, <1>24 DEF Next

\* The type invariant of the session and its tasks holds in every instance.
THEOREM Typing == Spec => []TypeOK
  <1>1. Init => TypeOK
    <2> USE DEF Init, Phases, Verdicts
    <2>1. ASSUME Init PROVE order \in Seq(SUBSET Nat) /\ log \in Seq(SUBSET Nat)
      BY <2>1
    <2>2. ASSUME Init PROVE said \in [Jobs -> Seq(Verdicts \cup {"executing"})]
      BY <2>2
    <2>3. ASSUME Init
          PROVE  /\ issued \in Nat /\ held \in SUBSET Nat
                 /\ running \in SUBSET [id : Nat, job : Jobs]
                 /\ historySize \in Nat \ {0} /\ timeout \in BOOLEAN
                 /\ armed \in SUBSET Jobs /\ passed \in SUBSET Jobs
      <3>1. /\ historySize = 32 /\ issued = 0 /\ timeout \in BOOLEAN
            /\ held = {} /\ running = {} /\ armed = {} /\ passed = {}
        BY <2>3, Zenon
      <3> HIDE DEF Init
      <3>2. QED
        BY <3>1
    <2>4. ASSUME Init
          PROVE  /\ stash \in [Conns -> Jobs \cup {None}]
                 /\ phase \in [Jobs -> Phases] /\ callId \in [Jobs -> Nat]
                 /\ left \in [Jobs -> Nat] /\ last \in [Jobs -> BOOLEAN]
                 /\ kept \in [Jobs -> SUBSET Nat] /\ wants \in [Jobs -> BOOLEAN]
                 /\ limit \in [Jobs -> Nat \ {0}] /\ verdict \in [Jobs -> Verdicts]
                 /\ tripper \in [Jobs -> {"none", "cancel", "deadline"}]
                 /\ shown \in [Jobs -> SUBSET Jobs]
      <3>1. /\ stash \in [Conns -> Jobs \cup {None}]
            /\ phase \in [Jobs -> Phases] /\ callId \in [Jobs -> Nat]
            /\ left \in [Jobs -> Nat] /\ last \in [Jobs -> BOOLEAN]
        BY <2>4
      <3>2. kept \in [Jobs -> SUBSET Nat] /\ wants \in [Jobs -> BOOLEAN]
        BY <2>4
      <3>3. limit \in [Jobs -> Nat \ {0}] /\ verdict \in [Jobs -> Verdicts]
        BY <2>4
      <3>4. /\ tripper \in [Jobs -> {"none", "cancel", "deadline"}]
            /\ shown \in [Jobs -> SUBSET Jobs]
        BY <2>4
      <3>5. QED
        BY <3>1, <3>2, <3>3, <3>4
    <2> HIDE DEF Init
    <2>5. QED
      BY <2>1, <2>2, <2>3, <2>4 DEF TypeOK
  <1>2. QED
    BY <1>1, TypeStep, PTL DEF Spec

-----------------------------------------------------------------------------
(* The registry of running calls *)

\* The steps that touch no call id and start no job.
Quiet ==
  \/ \E setting \in Settings : Configure(setting)
  \/ \E j \in Jobs : Cancel(callId[j])
  \/ \E j \in Applies, o \in {"done", "error", "cancelled"} : ApplyReturns(j, o)
  \/ \E j \in Jobs : \/ Timer(j) \/ ReadLimit(j) \/ Store(j) \/ Tell(j) \/ Close(j)
                     \/ j \in Runs \cup Applies /\ Begin(j)
                     \/ j \in Runs /\ RunStep(j)
                     \/ j \in Applies /\ ApplyStep(j)
  \/ UNCHANGED vars

LEMMA QuietFrame ==
  ASSUME TypeOK, Quiet
  PROVE  /\ UNCHANGED <<issued, callId, kept>>
         /\ \A i \in Jobs : phase'[i] = "idle" <=> phase[i] = "idle"
  <1> USE DEF TypeOK, Goto, work, session
  <1>1. ASSUME NEW setting \in Settings, Configure(setting)
        PROVE UNCHANGED <<issued, callId, kept, phase>>
    BY <1>1 DEF Configure
  <1>2. ASSUME NEW j \in Jobs, Cancel(callId[j])
        PROVE UNCHANGED <<issued, callId, kept, phase>>
    BY <1>2 DEF Cancel
  <1>3. ASSUME NEW j \in Jobs, NEW o \in {"done", "error", "cancelled"},
               ApplyReturns(j, o)
        PROVE  /\ UNCHANGED <<issued, callId, kept>>
               /\ \A i \in Jobs : phase'[i] = "idle" <=> phase[i] = "idle"
    BY <1>3 DEF ApplyReturns
  <1>4. ASSUME NEW j \in Jobs,
               Timer(j) \/ ReadLimit(j) \/ Store(j) \/ Tell(j) \/ Close(j) \/ Begin(j)
        PROVE  /\ UNCHANGED <<issued, callId, kept>>
               /\ \A i \in Jobs : phase'[i] = "idle" <=> phase[i] = "idle"
    BY <1>4 DEF Timer, ReadLimit, Store, Tell, Close, Begin
  <1>5. ASSUME NEW j \in Jobs, RunStep(j) \/ ApplyStep(j)
        PROVE  /\ UNCHANGED <<issued, callId, kept>>
               /\ \A i \in Jobs : phase'[i] = "idle" <=> phase[i] = "idle"
    BY <1>5 DEF RunStep, ApplyStep, Announce, TakeInserted, DropRun, DropApply, Settle
  <1>6. CASE UNCHANGED vars
    BY <1>6 DEF vars
  <1> HIDE DEF TypeOK
  <1>7. QED
    BY <1>1, <1>2, <1>3, <1>4, <1>5, <1>6 DEF Quiet, Jobs

\* Every step is quiet, or one of six.
LEMMA StepKinds ==
  ASSUME [Next]_vars
  PROVE  \/ Quiet
         \/ \E j \in Runs, n \in 1..MaxStatements, ins \in BOOLEAN : Execute(j, n, ins)
         \/ \E j \in Applies, id \in Reported : Apply(j, id)
         \/ \E j \in Restores : Restore(j)
         \/ \E j \in Runs, n \in 0..MaxResults : StatementReturns(j, n)
         \/ \E j \in Runs, c \in BOOLEAN : StatementFails(j, c)
         \/ \E j \in Restores, found \in BOOLEAN, n \in 0..MaxResults :
              RestoreReads(j, found, n)
  BY DEF Next, Request, Returns, Step, RestoreStep, Quiet

\* A call id names one call.
LEMMA IdsStep == TypeOK /\ IdsOK /\ [Next]_vars => IdsOK'
  <1> SUFFICES ASSUME TypeOK, IdsOK, [Next]_vars PROVE IdsOK'
    OBVIOUS
  <1>0. issued \in Nat
    BY DEF TypeOK
  <1>1. CASE Quiet
    <2>1. /\ UNCHANGED <<issued, callId, kept>>
          /\ \A i \in Owners : phase'[i] = "idle" <=> phase[i] = "idle"
      BY <1>1, QuietFrame DEF Owners, Jobs
    <2>2. QED
      BY <2>1 DEF IdsOK
  <1>2. ASSUME NEW j \in Owners,
               /\ phase' = [phase EXCEPT ![j] = "accepted"]
               /\ callId' = [callId EXCEPT ![j] = issued + 1]
               /\ issued' = issued + 1 /\ kept' = kept
        PROVE  IdsOK'
    <2>1. issued' \in Nat /\ issued' > issued
      BY <1>0, <1>2
    <2>2. \A i \in Owners : i # j => callId'[i] = callId[i] /\ phase'[i] = phase[i]
      BY <1>2 DEF TypeOK, Owners, Jobs
    <2>3. callId'[j] = issued'
      BY <1>2 DEF TypeOK, Owners, Jobs
    <2>4. /\ \A i \in Owners : kept'[i] \subseteq 1..issued
          /\ \A i \in Owners : i # j /\ phase'[i] # "idle" => callId'[i] \in 1..issued
      BY <1>2, <2>2 DEF IdsOK
    <2>5. QED
      BY <1>0, <1>2, <2>1, <2>2, <2>3, <2>4 DEF IdsOK
  <1>3. ASSUME NEW j \in Owners, NEW n \in Nat, NEW p \in Phases \ {"idle"}, NEW base,
               base = kept[j] \/ base = {},
               phase[j] # "idle",
               /\ phase' = [phase EXCEPT ![j] = p]
               /\ kept' = [kept EXCEPT ![j] = base \cup Fresh(n)]
               /\ issued' = issued + n /\ callId' = callId
        PROVE  IdsOK'
    <2>1. issued' \in Nat /\ issued' >= issued
      BY <1>0, <1>3
    <2>2. \A i \in Owners : i # j => kept'[i] = kept[i] /\ phase'[i] = phase[i]
      BY <1>3 DEF TypeOK, Owners, Jobs
    <2>3. /\ kept'[j] \subseteq kept[j] \cup issued + 1 .. issued + n
          /\ phase'[j] = p
      BY <1>3 DEF TypeOK, Owners, Jobs, Fresh
    <2>4. \A i \in Owners : phase'[i] # "idle" <=> phase[i] # "idle"
      BY <1>3, <2>2, <2>3
    <2>5. QED
      BY <1>0, <1>3, <2>1, <2>2, <2>3, <2>4 DEF IdsOK
  <1>4. ASSUME NEW j \in Runs, NEW n \in 1..MaxStatements, NEW ins \in BOOLEAN,
               Execute(j, n, ins) PROVE IdsOK'
    BY <1>4, <1>2 DEF Execute, Goto, Owners
  <1>5. ASSUME NEW j \in Restores, Restore(j) PROVE IdsOK'
    BY <1>5, <1>2 DEF Restore, Goto, Owners
  <1>6. ASSUME NEW j \in Applies, NEW id \in Reported, Apply(j, id) PROVE IdsOK'
    BY <1>6, ConstantsOK, SMTT(30) DEF Apply, Goto, IdsOK, TypeOK, Owners, Jobs, session
  <1>7. ASSUME NEW j \in Runs, NEW n \in 0..MaxResults, StatementReturns(j, n)
        PROVE IdsOK'
    <2> DEFINE m == IF n = 0 THEN 0 ELSE IF last[j] THEN n ELSE n - 1
               p == IF left[j] = 1 THEN "ran" ELSE "working"
    <2>1. m \in Nat /\ p \in Phases \ {"idle"} /\ phase[j] # "idle"
      BY <1>7, ConstantsOK DEF Phases, StatementReturns
    <2>2. /\ phase' = [phase EXCEPT ![j] = p] /\ callId' = callId
          /\ issued' = issued + m
          /\ kept' = [kept EXCEPT ![j] = kept[j] \cup Fresh(m)]
      <3>1. /\ phase' = [phase EXCEPT ![j] = p] /\ callId' = callId
            /\ kept' = [kept EXCEPT ![j] =
                         kept[j] \cup (IF n = 0 THEN {} ELSE Fresh(m))]
            /\ issued' = IF n = 0 THEN issued ELSE issued + m
        BY <1>7 DEF StatementReturns, Goto
      <3>2. m = 0 => Fresh(m) = {} /\ issued + m = issued
        BY <1>0 DEF Fresh
      <3> HIDE DEF p
      <3>3. CASE n = 0
        BY <3>1, <3>2, <3>3
      <3>4. CASE n # 0
        BY <3>1, <3>4
      <3>5. QED
        BY <3>3, <3>4
    <2>3. QED
      BY <2>1, <2>2, <1>3 DEF Owners
  <1>8. ASSUME NEW j \in Runs, NEW c \in BOOLEAN, StatementFails(j, c) PROVE IdsOK'
    <2> DEFINE m == IF last[j] THEN 1 ELSE 0
               p == IF last[j] \/ kept[j] # {} THEN "keeping" ELSE "telling"
    <2>1. m \in Nat /\ p \in Phases \ {"idle"} /\ phase[j] # "idle"
      BY <1>8 DEF Phases, StatementFails
    <2>2. /\ phase' = [phase EXCEPT ![j] = p] /\ callId' = callId
          /\ issued' = issued + m
          /\ kept' = [kept EXCEPT ![j] = kept[j] \cup Fresh(m)]
      <3>1. /\ phase' = [phase EXCEPT ![j] = p] /\ callId' = callId
            /\ kept' = [kept EXCEPT ![j] =
                         kept[j] \cup (IF last[j] THEN Fresh(1) ELSE {})]
            /\ issued' = IF last[j] THEN issued + 1 ELSE issued
        BY <1>8 DEF StatementFails, Goto
      <3>2. Fresh(0) = {} /\ issued + 0 = issued
        BY <1>0 DEF Fresh
      <3> HIDE DEF p
      <3>3. CASE last[j]
        BY <3>1, <3>3
      <3>4. CASE ~last[j]
        BY <3>1, <3>2, <3>4
      <3>5. QED
        BY <3>3, <3>4
    <2>3. QED
      BY <2>1, <2>2, <1>3 DEF Owners
  <1>9. ASSUME NEW j \in Restores, NEW found \in BOOLEAN, NEW n \in 0..MaxResults,
               RestoreReads(j, found, n) PROVE IdsOK'
    <2> DEFINE m == IF found THEN n ELSE 0
               p == IF found THEN "keeping" ELSE "telling"
    <2>1. m \in Nat /\ p \in Phases \ {"idle"} /\ phase[j] # "idle"
      BY <1>9, ConstantsOK DEF Phases, RestoreReads
    <2>2. /\ phase' = [phase EXCEPT ![j] = p] /\ callId' = callId
          /\ issued' = issued + m
          /\ kept' = [kept EXCEPT ![j] = {} \cup Fresh(m)]
      <3>1. /\ phase' = [phase EXCEPT ![j] = p] /\ callId' = callId
            /\ kept' = [kept EXCEPT ![j] = IF found THEN Fresh(n) ELSE {}]
            /\ issued' = IF found THEN issued + n ELSE issued
        BY <1>9 DEF RestoreReads, Goto
      <3>2. Fresh(0) = {} /\ issued + 0 = issued
        BY <1>0 DEF Fresh
      <3> HIDE DEF p
      <3>3. CASE found
        BY <3>1, <3>3
      <3>4. CASE ~found
        BY <3>1, <3>2, <3>4
      <3>5. QED
        BY <3>3, <3>4
    <2>3. QED
      BY <2>1, <2>2, <1>3 DEF Owners
  <1>10. QED
    BY StepKinds, <1>1, <1>4, <1>5, <1>6, <1>7, <1>8, <1>9

\* Each kind of job keeps to its phases.
LEMMA PhaseStep == TypeOK /\ PhaseOK /\ [Next]_vars => PhaseOK'
  <1> SUFFICES ASSUME TypeOK, PhaseOK, [Next]_vars PROVE PhaseOK'
    OBVIOUS
  <1> USE ConstantsOK DEF PhaseOK, TypeOK, Goto, Jobs
  <1>1. ASSUME NEW setting \in Settings, Configure(setting) PROVE PhaseOK'
    BY <1>1 DEF Configure
  <1>2. ASSUME NEW j \in Runs, NEW n \in 1..MaxStatements, NEW ins \in BOOLEAN,
               Execute(j, n, ins) PROVE PhaseOK'
    BY <1>2 DEF Execute
  <1>3. ASSUME NEW j \in Applies, NEW id \in Reported, Apply(j, id) PROVE PhaseOK'
    BY <1>3 DEF Apply
  <1>4. ASSUME NEW j \in Restores, Restore(j) PROVE PhaseOK'
    BY <1>4 DEF Restore
  <1>5. ASSUME NEW j \in Jobs, Cancel(callId[j]) PROVE PhaseOK'
    BY <1>5 DEF Cancel
  <1>6. ASSUME NEW j \in Runs, NEW n \in 0..MaxResults, StatementReturns(j, n)
        PROVE PhaseOK'
    BY <1>6 DEF StatementReturns
  <1>7. ASSUME NEW j \in Runs, NEW c \in BOOLEAN, StatementFails(j, c) PROVE PhaseOK'
    BY <1>7 DEF StatementFails
  <1>8. ASSUME NEW j \in Applies, NEW o \in {"done", "error", "cancelled"},
               ApplyReturns(j, o) PROVE PhaseOK'
    BY <1>8 DEF ApplyReturns
  <1>9. ASSUME NEW j \in Runs \cup Applies, Begin(j) PROVE PhaseOK'
    BY <1>9 DEF Begin
  <1>10. ASSUME NEW j \in Runs, RunStep(j) PROVE PhaseOK'
    BY <1>10 DEF RunStep, Announce, TakeInserted, DropRun
  <1>11. ASSUME NEW j \in Applies, ApplyStep(j) PROVE PhaseOK'
    BY <1>11 DEF ApplyStep, DropApply, Settle
  <1>12. ASSUME NEW j \in Restores, NEW found \in BOOLEAN, NEW n \in 0..MaxResults,
                RestoreReads(j, found, n) PROVE PhaseOK'
    BY <1>12 DEF RestoreReads
  <1>13. ASSUME NEW j \in Jobs, Timer(j) PROVE PhaseOK'
    BY <1>13 DEF Timer
  <1>14. ASSUME NEW j \in Jobs, ReadLimit(j) \/ Store(j) PROVE PhaseOK'
    <2>1. phase[j] \in {"keeping", "sized"}
      BY <1>14 DEF ReadLimit, Store
    <2>2. PICK p \in {"sized", "stored", "telling"} :
            phase' = [phase EXCEPT ![j] = p] /\ (p = "stored" => j \in Runs)
      BY <1>14, Zenon DEF ReadLimit, Store
    <2>3. j \notin Applies
      BY <2>1
    <2>4. QED
      BY <2>2, <2>3
  <1>15. ASSUME NEW j \in Jobs, Tell(j) \/ Close(j) PROVE PhaseOK'
    BY <1>15, ZenonT(60) DEF Tell, Close
  <1>16. CASE UNCHANGED vars
    BY <1>16 DEF vars
  <1> HIDE DEF PhaseOK, TypeOK
  <1>17. QED
    BY <1>1, <1>2, <1>3, <1>4, <1>5, <1>6, <1>7, <1>8, <1>9, <1>10, <1>11, <1>12,
       <1>13, <1>14, <1>15, <1>16 DEF Next, Request, Returns, Step, RestoreStep

\* Once a job told its outcome, nothing about it changes but closing.
LEMMA ToldStays ==
  ASSUME TypeOK, PhaseOK, [Next]_vars, NEW r \in Jobs, phase[r] \in {"told", "closed"}
  PROVE  /\ phase'[r] \in {"told", "closed"} /\ verdict'[r] = verdict[r]
         /\ callId'[r] = callId[r] /\ kept'[r] = kept[r]
  <1> DEFINE Stays == /\ phase'[r] \in {"told", "closed"} /\ verdict'[r] = verdict[r]
                      /\ callId'[r] = callId[r] /\ kept'[r] = kept[r]
  <1> SUFFICES Stays
    BY DEF Stays
  <1> USE ConstantsOK DEF TypeOK, Goto, Jobs, work, session
  <1>1. CASE Request
    <2>1. ASSUME NEW setting \in Settings, Configure(setting) PROVE Stays
      BY <2>1 DEF Configure
    <2>2. ASSUME NEW j \in Runs, NEW n \in 1..MaxStatements, NEW ins \in BOOLEAN,
                 Execute(j, n, ins) PROVE Stays
      BY <2>2 DEF Execute
    <2>3. ASSUME NEW j \in Applies, NEW id \in Reported, Apply(j, id) PROVE Stays
      BY <2>3 DEF Apply
    <2>4. ASSUME NEW j \in Restores, Restore(j) PROVE Stays
      BY <2>4 DEF Restore
    <2>5. ASSUME NEW j \in Jobs, Cancel(callId[j]) PROVE Stays
      BY <2>5 DEF Cancel
    <2> HIDE ConstantsOK DEF TypeOK, Stays, Jobs, Goto, work, session
    <2>6. QED
      BY <1>1, <2>1, <2>2, <2>3, <2>4, <2>5 DEF Request
  <1>2. ASSUME NEW j \in Jobs, Returns(j) PROVE Stays
    BY <1>2 DEF Returns, StatementReturns, StatementFails, ApplyReturns
  <1>3. ASSUME NEW j \in Jobs, Step(j) PROVE Stays
    <2>1. CASE j \in Runs \cup Applies /\ Begin(j)
      BY <2>1 DEF Begin
    <2>2. CASE j \in Runs /\ RunStep(j)
      BY <2>2 DEF RunStep, Announce, TakeInserted, DropRun
    <2>3. CASE j \in Applies /\ ApplyStep(j)
      BY <2>3 DEF ApplyStep, DropApply, Settle
    <2>4. CASE j \in Restores /\ RestoreStep(j)
      BY <2>4 DEF RestoreStep, RestoreReads
    <2>5. CASE Timer(j) \/ ReadLimit(j) \/ Store(j)
      BY <2>5 DEF Timer, ReadLimit, Store
    <2>6. CASE Tell(j) \/ Close(j)
      BY <2>6 DEF Tell, Close
    <2>7. QED
      BY <1>3, <2>1, <2>2, <2>3, <2>4, <2>5, <2>6 DEF Step
  <1>4. CASE UNCHANGED vars
    BY <1>4 DEF vars
  <1> HIDE ConstantsOK DEF TypeOK, Stays, Jobs, Goto, work, session
  <1>5. QED
    BY <1>1, <1>2, <1>3, <1>4 DEF Next

\* Ids are only ever added: a job keeps its own, a new run gets a fresh one.
LEMMA IdsFixed ==
  ASSUME TypeOK, [Next]_vars
  PROVE  /\ issued' \in Nat /\ issued' >= issued
         /\ \A i \in Jobs : phase[i] # "idle" =>
              callId'[i] = callId[i] /\ phase'[i] # "idle"
         /\ \A i \in Runs : phase[i] = "idle" /\ phase'[i] # "idle" =>
              callId'[i] = issued + 1
         /\ \A i \in Applies : phase[i] = "idle" /\ phase'[i] # "idle" =>
              /\ callId'[i] \in Reported /\ UNCHANGED <<issued, verdict>>
              /\ \A k \in Jobs : k # i => phase'[k] = phase[k] /\ callId'[k] = callId[k]
  <1> USE ConstantsOK DEF TypeOK, Goto, Jobs, session
  <1>1. CASE Quiet
    <2> HIDE DEF TypeOK
    <2>1. /\ UNCHANGED <<issued, callId, kept>>
          /\ \A i \in Jobs : phase'[i] = "idle" <=> phase[i] = "idle"
      BY <1>1, QuietFrame
    <2>2. issued \in Nat
      BY DEF TypeOK
    <2>3. QED
      BY <2>1, <2>2
  <1>2. CASE \E j \in Runs, n \in 1..MaxStatements, ins \in BOOLEAN : Execute(j, n, ins)
    BY <1>2 DEF Execute
  <1>3. ASSUME NEW j \in Applies, NEW id \in Reported, Apply(j, id)
        PROVE  /\ issued' = issued /\ verdict' = verdict
               /\ phase' = [phase EXCEPT ![j] = "accepted"] /\ phase[j] = "idle"
               /\ callId' = [callId EXCEPT ![j] = id]
     BY <1>3 DEF Apply
  <1>4. CASE \E j \in Restores : Restore(j)
    BY <1>4 DEF Restore
  <1>5. CASE \E j \in Runs, n \in 0..MaxResults : StatementReturns(j, n)
    BY <1>5 DEF StatementReturns
  <1>6. CASE \E j \in Runs, c \in BOOLEAN : StatementFails(j, c)
    BY <1>6 DEF StatementFails
  <1>7. CASE \E j \in Restores, found \in BOOLEAN, n \in 0..MaxResults :
               RestoreReads(j, found, n)
    BY <1>7 DEF RestoreReads
  <1>8. CASE \E j \in Applies, id \in Reported : Apply(j, id)
    BY <1>3, <1>8
  <1>9. QED
    BY StepKinds, <1>1, <1>2, <1>4, <1>5, <1>6, <1>7, <1>8

\* An apply never shares its id with a run that still works.
LEMMA AppliesStep ==
  TypeOK /\ PhaseOK /\ IdsOK /\ AppliesOK /\ [Next]_vars => AppliesOK'
  <1> SUFFICES ASSUME TypeOK, PhaseOK, IdsOK, AppliesOK, [Next]_vars PROVE AppliesOK'
    OBVIOUS
  <1>0. issued \in Nat /\ Runs \subseteq Jobs /\ Applies \subseteq Jobs
    BY DEF TypeOK, Jobs
  <1>1. ASSUME NEW id \in Reported
        PROVE  /\ id \in 1..issued
               /\ \A r \in Runs : phase[r] # "idle" /\ callId[r] = id =>
                    phase[r] \in {"told", "closed"} /\ verdict[r] = "done"
    <2>1. PICK j \in Owners : phase[j] \in {"told", "closed"} /\ id \in Group(j)
      BY DEF Reported, Owners
    <2>2. CASE id \in kept[j]
      BY <2>1, <2>2 DEF IdsOK, Owners
    <2>3. CASE verdict[j] = "done" /\ id = callId[j]
      BY <2>1, <2>3 DEF IdsOK, Owners
    <2>4. QED
      BY <2>1, <2>2, <2>3 DEF Group
  <1>2. ASSUME NEW a \in Applies, phase'[a] # "idle", phase[a] = "idle"
        PROVE  /\ callId'[a] \in 1..issued'
               /\ \A r \in Runs : phase'[r] # "idle" /\ callId'[r] = callId'[a] =>
                    phase'[r] \in {"told", "closed"} /\ verdict'[r] = "done"
    <2>1. \A r \in Runs : r # a
      BY ConstantsOK
    <2>2. QED
      BY <1>0, <1>1, <1>2, <2>1, IdsFixed
  <1>3. ASSUME NEW a \in Applies, phase'[a] # "idle", phase[a] # "idle"
        PROVE  /\ callId'[a] \in 1..issued'
               /\ \A r \in Runs : phase'[r] # "idle" /\ callId'[r] = callId'[a] =>
                    phase'[r] \in {"told", "closed"} /\ verdict'[r] = "done"
    <2>1. callId'[a] = callId[a] /\ callId[a] \in 1..issued /\ callId'[a] \in 1..issued'
      BY <1>0, <1>3, IdsFixed DEF AppliesOK
    <2>2. ASSUME NEW r \in Runs, phase'[r] # "idle", callId'[r] = callId[a]
          PROVE  phase'[r] \in {"told", "closed"} /\ verdict'[r] = "done"
      <3>1. phase[r] # "idle"
        BY <1>0, <2>1, <2>2, IdsFixed
      <3>2. callId[r] = callId[a]
        BY <1>0, <2>2, <3>1, IdsFixed
      <3>3. phase[r] \in {"told", "closed"} /\ verdict[r] = "done"
        BY <1>3, <3>1, <3>2 DEF AppliesOK
      <3>4. QED
        BY <1>0, <3>3, ToldStays
    <2>3. QED
      BY <2>1, <2>2
  <1>4. QED
    BY <1>2, <1>3 DEF AppliesOK

\* Work whose guard is alive has been given its call id and its phase says so.
LEMMA GuardedStarted ==
  ASSUME PhaseOK, NEW j \in Jobs, Guarded(j)
  PROVE  /\ j \in Runs \cup Applies
         /\ phase[j] \notin {"idle", "accepted", "closed"}
         /\ j \in Runs => ~(phase[j] \in {"told", "closed"} /\ verdict[j] = "done")
  BY ConstantsOK DEF Guarded, InFlight, PhaseOK

\* Two guards over one call id are two applies that overlap.
LEMMA OneGuard ==
  ASSUME TypeOK, PhaseOK, IdsOK, AppliesOK,
         NEW i \in Jobs, NEW j \in Jobs, Guarded(i), Guarded(j), callId[i] = callId[j], i # j
  PROVE  i \in Applies /\ j \in Applies
  <1>1. CASE i \in Runs /\ j \in Runs
    BY <1>1, GuardedStarted DEF IdsOK, Owners
  <1>2. CASE i \in Applies /\ j \in Applies
    BY <1>2
  <1>3. ASSUME NEW r \in Runs, NEW a \in Applies, Guarded(r), Guarded(a),
               callId[r] = callId[a]
        PROVE  FALSE
    BY <1>3, GuardedStarted DEF AppliesOK, Jobs
  <1>4. QED
    BY <1>1, <1>2, <1>3, GuardedStarted

\* A token is registered for live work only, one per call id.
LEMMA RegistryStep ==
  TypeOK /\ PhaseOK /\ RegistryOK /\ [Next]_vars => RegistryOK'
  <1> SUFFICES ASSUME TypeOK, PhaseOK, RegistryOK, [Next]_vars PROVE RegistryOK'
    OBVIOUS
  <1>0. \A r \in running : r.job \in Jobs /\ r.id \in Nat
    BY DEF TypeOK
  \* The registry is left alone, and so is the work in it.
  <1>a. ASSUME running' = running,
               \A k \in Jobs : Guarded(k) => Guarded(k)' /\ callId'[k] = callId[k]
        PROVE  RegistryOK'
    BY <1>0, <1>a DEF RegistryOK
  \* One job leaves the registry, and only that job stops being guarded.
  <1>b. ASSUME NEW j \in Jobs, running' = Unregister(callId[j]),
               \A k \in Jobs : k # j /\ Guarded(k) => Guarded(k)' /\ callId'[k] = callId[k]
        PROVE  RegistryOK'
    BY <1>0, <1>b DEF RegistryOK, Unregister
  <1> USE ConstantsOK DEF TypeOK, Goto, Jobs, work, session
  <1>1. ASSUME NEW setting \in Settings, Configure(setting) PROVE RegistryOK'
    BY <1>1, <1>a DEF Configure, Guarded, InFlight
  <1>2. ASSUME NEW j \in Runs, NEW n \in 1..MaxStatements, NEW ins \in BOOLEAN,
               Execute(j, n, ins) PROVE RegistryOK'
    BY <1>2, <1>a DEF Execute, Guarded, InFlight
  <1>3. ASSUME NEW j \in Applies, NEW id \in Reported, Apply(j, id) PROVE RegistryOK'
    BY <1>3, <1>a DEF Apply, Guarded, InFlight
  <1>4. ASSUME NEW j \in Restores, Restore(j) PROVE RegistryOK'
    BY <1>4, <1>a DEF Restore, Guarded, InFlight
  <1>5. ASSUME NEW j \in Jobs, Cancel(callId[j]) PROVE RegistryOK'
    BY <1>5, <1>b DEF Cancel, Guarded, InFlight
  <1>6. ASSUME NEW j \in Runs, NEW n \in 0..MaxResults, StatementReturns(j, n)
        PROVE RegistryOK'
    BY <1>6, <1>a DEF StatementReturns, Guarded, InFlight
  <1>7. ASSUME NEW j \in Runs, NEW c \in BOOLEAN, StatementFails(j, c)
        PROVE RegistryOK'
    BY <1>7, <1>a DEF StatementFails, Guarded, InFlight, ErrorVerdict
  <1>8. ASSUME NEW j \in Applies, NEW o \in {"done", "error", "cancelled"},
               ApplyReturns(j, o) PROVE RegistryOK'
    BY <1>8, <1>a DEF ApplyReturns, Guarded, InFlight
  <1>9. ASSUME NEW j \in Runs \cup Applies, Begin(j) PROVE RegistryOK'
    <2>1. running' = Register(callId[j], j) /\ callId' = callId
      BY <1>9 DEF Begin
    <2>2. Guarded(j)'
      BY <1>9 DEF Begin, Guarded, InFlight, PhaseOK
    <2>3. \A k \in Jobs : Guarded(k) => Guarded(k)'
      BY <1>9 DEF Begin, Guarded, InFlight
    <2> HIDE DEF TypeOK
    <2>4. QED
      BY <1>0, <2>1, <2>2, <2>3 DEF RegistryOK, Register
  <1>10. ASSUME NEW j \in Runs, Announce(j) \/ TakeInserted(j) PROVE RegistryOK'
    <2>1. running' = running /\ callId' = callId /\ verdict' = verdict
      BY <1>10 DEF Announce, TakeInserted
    <2>2. \/ phase[j] = "begun" /\ phase' = [phase EXCEPT ![j] = "working"]
          \/ phase[j] = "ran" /\ phase' = [phase EXCEPT ![j] = "keeping"]
      BY <1>10 DEF Announce, TakeInserted
    <2>3. QED
      BY <2>1, <2>2, <1>a DEF Guarded, InFlight
  <1>11. ASSUME NEW j \in Runs, DropRun(j) PROVE RegistryOK'
    BY <1>11, <1>b DEF DropRun, Guarded, InFlight
  <1>12. ASSUME NEW j \in Applies, DropApply(j) PROVE RegistryOK'
    BY <1>12, <1>b DEF DropApply, Guarded, InFlight
  <1>13. ASSUME NEW j \in Applies, Settle(j) PROVE RegistryOK'
    BY <1>13, <1>a DEF Settle, Guarded, InFlight
  <1>14. ASSUME NEW j \in Restores, NEW found \in BOOLEAN, NEW n \in 0..MaxResults,
                RestoreReads(j, found, n) PROVE RegistryOK'
    BY <1>14, <1>a DEF RestoreReads, Guarded, InFlight
  <1>15. ASSUME NEW j \in Jobs, Timer(j) PROVE RegistryOK'
    BY <1>15, <1>a DEF Timer, Guarded, InFlight
  <1>16. ASSUME NEW j \in Jobs, ReadLimit(j) PROVE RegistryOK'
    BY <1>16, <1>a DEF ReadLimit, Guarded, InFlight
  <1>17. ASSUME NEW j \in Jobs, Store(j) PROVE RegistryOK'
    <2>1. /\ running' = running /\ callId' = callId /\ verdict' = verdict
          /\ phase[j] = "sized"
          /\ phase' = [phase EXCEPT ![j] = IF j \in Runs /\ verdict[j] = "done"
                                             THEN "stored" ELSE "telling"]
      BY <1>17 DEF Store
    <2>2. QED
      BY <2>1, <1>a DEF Guarded, InFlight
  <1>18. ASSUME NEW j \in Jobs, Tell(j) PROVE RegistryOK'
    BY <1>18, <1>a DEF Tell, Guarded, InFlight
  <1>19. ASSUME NEW j \in Jobs, Close(j) PROVE RegistryOK'
    <2>1. /\ callId' = callId /\ verdict' = verdict /\ phase[j] = "told"
          /\ phase' = [phase EXCEPT ![j] = "closed"]
      BY <1>19 DEF Close
    <2>2. CASE j \in Runs /\ verdict[j] # "done"
      BY <1>19, <2>1, <2>2, <1>b DEF Close, Guarded, InFlight
    <2>3. CASE ~(j \in Runs /\ verdict[j] # "done")
      BY <1>19, <2>1, <2>3, <1>a DEF Close, Guarded, InFlight
    <2>4. QED
      BY <2>2, <2>3
  <1>20. CASE UNCHANGED vars
    BY <1>20, <1>a DEF vars, Guarded, InFlight
  <1> HIDE ConstantsOK DEF TypeOK, Goto, Jobs, work, session
  <1>21. QED
    BY <1>1, <1>2, <1>3, <1>4, <1>5, <1>6, <1>7, <1>8, <1>9, <1>10, <1>11, <1>12,
       <1>13, <1>14, <1>15, <1>16, <1>17, <1>18, <1>19, <1>20
       DEF Next, Request, Returns, Step, RunStep, ApplyStep, RestoreStep

\* While nobody trips its token, work in flight stays registered.
StaysCancellable(j) ==
  /\ InFlight(j)' /\ tripper'[j] = "none"
  /\ InFlight(j) => Registered(j)
  => Registered(j)' \/ Overlapped(j)

LEMMA CancellableStep ==
  TypeOK /\ RegistryInv /\ [Next]_vars => \A k \in Jobs : StaysCancellable(k)
  <1> SUFFICES ASSUME TypeOK, RegistryInv, [Next]_vars, NEW k \in Jobs,
                      InFlight(k)', tripper'[k] = "none", InFlight(k) => Registered(k)
               PROVE  Registered(k)' \/ Overlapped(k)
    BY DEF StaysCancellable
  <1> DEFINE Kept == Registered(k)' \/ Overlapped(k)
  <1>0. PhaseOK /\ IdsOK /\ AppliesOK /\ RegistryOK
    BY DEF RegistryInv
  \* Nothing leaves the registry, and k was in flight before.
  <1>a. ASSUME running \subseteq running', InFlight(k), callId'[k] = callId[k]
        PROVE  Kept
    BY <1>a DEF Registered
  \* The guard of j goes: k has another call id, or both are applies of one result.
  <1>b. ASSUME NEW j \in Jobs, Guarded(j), j \in Applies => ~Guarded(j)', j # k,
               running' = Unregister(callId[j]), UNCHANGED callId, InFlight(k)
        PROVE  Kept
    <2>1. Registered(k) /\ Guarded(k)
      BY <1>0, <1>b, ConstantsOK DEF Guarded, InFlight, PhaseOK, Jobs
    <2>2. CASE callId[k] # callId[j]
      BY <1>b, <2>1, <2>2 DEF Unregister, Registered
    <2>3. CASE callId[k] = callId[j]
      <3>1. j \in Applies
        BY <1>0, <1>b, <2>1, <2>3, OneGuard
      <3>2. QED
        BY <1>b, <2>3, <3>1 DEF Overlapped
    <2>4. QED
      BY <2>2, <2>3
  <1> HIDE DEF Kept
  <1> USE ConstantsOK DEF TypeOK, Goto, Jobs, work, session
  <1>1. ASSUME NEW setting \in Settings, Configure(setting) PROVE Kept
    BY <1>1, <1>a DEF Configure, InFlight
  <1>2. ASSUME NEW j \in Runs, NEW n \in 1..MaxStatements, NEW ins \in BOOLEAN,
               Execute(j, n, ins) PROVE Kept
    BY <1>2, <1>a DEF Execute, InFlight
  <1>3. ASSUME NEW j \in Applies, NEW id \in Reported, Apply(j, id) PROVE Kept
    BY <1>3, <1>a DEF Apply, InFlight
  <1>4. ASSUME NEW j \in Restores, Restore(j) PROVE Kept
    BY <1>4, <1>a DEF Restore, InFlight
  <1>5. ASSUME NEW j \in Jobs, Cancel(callId[j]) PROVE Kept
    <2>1. InFlight(k) /\ callId' = callId /\ Registered(k)
      BY <1>5 DEF Cancel, InFlight
    <2>2. ~([id |-> callId[j], job |-> k] \in running)
      BY <1>5 DEF Cancel
    <2>3. QED
      BY <1>5, <2>1, <2>2 DEF Cancel, Unregister, Registered, Kept
  <1>6. ASSUME NEW j \in Runs, NEW n \in 0..MaxResults, StatementReturns(j, n)
        PROVE Kept
    BY <1>6, <1>a DEF StatementReturns, InFlight
  <1>7. ASSUME NEW j \in Runs, NEW c \in BOOLEAN, StatementFails(j, c)
        PROVE Kept
    BY <1>7, <1>a DEF StatementFails, InFlight
  <1>8. ASSUME NEW j \in Applies, NEW o \in {"done", "error", "cancelled"},
               ApplyReturns(j, o) PROVE Kept
    BY <1>8, <1>a DEF ApplyReturns, InFlight
  <1>9. ASSUME NEW j \in Runs \cup Applies, Begin(j) PROVE Kept
    <2>1. /\ running' = Register(callId[j], j) /\ UNCHANGED <<callId, tripper>>
          /\ phase[j] = "accepted"
          /\ \A i \in Jobs : i # j => phase'[i] = phase[i]
      BY <1>9 DEF Begin
    <2>2. Guarded(j)' /\ ~Guarded(j)
      BY <1>9 DEF Begin, Guarded, InFlight, PhaseOK
    <2> HIDE DEF TypeOK
    <2>3. CASE k = j
      BY <2>1, <2>3 DEF Register, Registered, Kept
    <2>4. CASE k # j
      <3>1. InFlight(k) /\ Registered(k)
        BY <2>1, <2>4 DEF InFlight
      <3>2. Guarded(k)
        BY <1>0, <3>1 DEF Guarded, InFlight, PhaseOK
      <3>3. CASE callId[k] # callId[j]
        BY <2>1, <3>1, <3>3 DEF Register, Registered, Kept
      <3>4. CASE callId[k] = callId[j] /\ j \in Applies
        BY <2>2, <2>4, <3>4 DEF Overlapped, Kept
      <3>5. CASE j \in Runs
        BY <1>0, <2>1, <3>2, <2>4, <3>3, <3>5, GuardedStarted DEF IdsOK, AppliesOK, Owners
      <3>6. QED
        BY <3>3, <3>4, <3>5
    <2>5. QED
      BY <2>3, <2>4
  <1>10. ASSUME NEW j \in Runs, Announce(j) \/ TakeInserted(j) PROVE Kept
    <2>1. running' = running /\ callId' = callId /\ tripper' = tripper
      BY <1>10 DEF Announce, TakeInserted
    <2>2. \/ phase[j] = "begun" /\ phase' = [phase EXCEPT ![j] = "working"]
          \/ phase[j] = "ran" /\ phase' = [phase EXCEPT ![j] = "keeping"]
      BY <1>10 DEF Announce, TakeInserted
    <2>3. QED
      BY <2>1, <2>2, <1>a DEF InFlight
  <1>11. ASSUME NEW j \in Runs, DropRun(j) PROVE Kept
    <2>1. /\ running' = Unregister(callId[j]) /\ callId' = callId
          /\ phase[j] = "stored" /\ phase' = [phase EXCEPT ![j] = "telling"]
      BY <1>11 DEF DropRun
    <2>2. QED
      BY <2>1, <1>b DEF Guarded, InFlight
  <1>12. ASSUME NEW j \in Applies, DropApply(j) PROVE Kept
    BY <1>12, <1>b DEF DropApply, Guarded, InFlight
  <1>13. ASSUME NEW j \in Applies, Settle(j) PROVE Kept
    <2>1. running' = running /\ callId' = callId /\ tripper' = tripper
      BY <1>13 DEF Settle
    <2>2. phase' = [phase EXCEPT ![j] = "telling"]
      BY <1>13 DEF Settle
    <2>3. QED
      BY <2>1, <2>2, <1>a DEF InFlight
  <1>14. ASSUME NEW j \in Restores, NEW found \in BOOLEAN, NEW n \in 0..MaxResults,
                RestoreReads(j, found, n) PROVE Kept
    BY <1>14, <1>a DEF RestoreReads, InFlight
  <1>15. ASSUME NEW j \in Jobs, Timer(j) PROVE Kept
    BY <1>15, <1>a DEF Timer, InFlight
  <1>16. ASSUME NEW j \in Jobs, ReadLimit(j) PROVE Kept
    BY <1>16, <1>a DEF ReadLimit, InFlight
  <1>17. ASSUME NEW j \in Jobs, Store(j) PROVE Kept
    <2>1. /\ running' = running /\ callId' = callId /\ tripper' = tripper
          /\ phase[j] = "sized"
          /\ phase' = [phase EXCEPT ![j] = IF j \in Runs /\ verdict[j] = "done"
                                             THEN "stored" ELSE "telling"]
      BY <1>17 DEF Store
    <2>2. QED
      BY <2>1, <1>a DEF InFlight
  <1>18. ASSUME NEW j \in Jobs, Tell(j) PROVE Kept
    BY <1>18, <1>a DEF Tell, InFlight
  <1>19. ASSUME NEW j \in Jobs, Close(j) PROVE Kept
    <2>1. /\ callId' = callId /\ tripper' = tripper /\ phase[j] = "told"
          /\ phase' = [phase EXCEPT ![j] = "closed"] /\ verdict' = verdict
      BY <1>19 DEF Close
    <2>2. CASE j \in Runs /\ verdict[j] # "done"
      BY <1>19, <2>1, <2>2, <1>b DEF Close, Guarded, InFlight
    <2>3. CASE ~(j \in Runs /\ verdict[j] # "done")
      BY <1>19, <2>1, <2>3, <1>a DEF Close, InFlight
    <2>4. QED
      BY <2>2, <2>3
  <1>20. ASSUME UNCHANGED vars PROVE Kept
    <2>1. UNCHANGED <<running, callId, phase>>
      BY <1>20 DEF vars
    <2>2. QED
      BY <2>1, <1>a DEF InFlight
  <1> HIDE ConstantsOK DEF TypeOK, Goto, Jobs, work, session
  <1>21. Kept
    BY <1>1, <1>2, <1>3, <1>4, <1>5, <1>6, <1>7, <1>8, <1>9, <1>10, <1>11, <1>12,
       <1>13, <1>14, <1>15, <1>16, <1>17, <1>18, <1>19, <1>20
       DEF Next, Request, Returns, Step, RunStep, ApplyStep, RestoreStep
  <1>22. QED
    BY <1>21 DEF Kept

\* The strengthened invariant, for any number of requests of any kind.
THEOREM RegistryInvariant == Spec => []RegistryInv
  <1>1. Init => RegistryInv
    BY DEF Init, RegistryInv, PhaseOK, IdsOK, AppliesOK, RegistryOK, Owners, Jobs
  <1>2. TypeOK /\ RegistryInv /\ [Next]_vars => RegistryInv'
    BY PhaseStep, IdsStep, AppliesStep, RegistryStep DEF RegistryInv
  <1>3. QED
    BY <1>1, <1>2, Typing, PTL DEF Spec

\* A cancel answered "true" was about work that had not returned: no token of
\* finished work, and no token of other work, is ever found under a call id.
THEOREM RegistryIsSound == Spec => []RegistrySound
  <1>1. TypeOK /\ RegistryInv => RegistrySound
    <2> SUFFICES ASSUME TypeOK, RegistryInv PROVE RegistrySound
      OBVIOUS
    <2>1. PhaseOK /\ RegistryOK /\ \A r \in running : r.job \in Jobs
      BY DEF RegistryInv, TypeOK
    <2>2. ASSUME NEW r \in running
          PROVE  /\ phase[r.job] \notin {"idle", "accepted", "closed"}
                 /\ verdict[r.job] = "done" => phase[r.job] # "told"
      <3>1. Guarded(r.job) /\ r.job \in Jobs
        BY <2>1 DEF RegistryOK
      <3>2. QED
        BY <2>1, <3>1, GuardedStarted DEF Guarded
    <2>3. QED
      BY <2>1, <2>2 DEF RegistrySound, RegistryOK
  <1>2. QED
    BY <1>1, Typing, RegistryInvariant, PTL

\* Work under way can be cancelled, whatever the tasks around it do: its token is
\* lost only to a second apply of the same result that overlaps with it.
THEOREM AlwaysCancellable == Spec => Cancellable
  <1>1. TypeOK /\ RegistryInv /\ [Next]_vars =>
          [\A j \in Jobs :
             /\ InFlight(j)' /\ tripper'[j] = "none"
             /\ InFlight(j) => Registered(j)
             => Registered(j)' \/ Overlapped(j)]_vars
    BY CancellableStep DEF StaysCancellable
  <1>2. QED
    BY <1>1, Typing, RegistryInvariant, PTL DEF Spec, Cancellable

-----------------------------------------------------------------------------
(* What the events say *)

\* A token the deadline tripped has its flag up until the task returned.
DeadlineFlagged(k) == tripper[k] = "deadline" => k \in passed \/ phase[k] = "closed"

\* Work ends as cancelled only after a cancel; of an apply it is settled later which
\* of the two stopped it.
CancelledByCancel(k) ==
  verdict[k] = "cancelled" =>
    \/ tripper[k] = "cancel"
    \/ phase[k] \in {"applied", "dropped"} /\ tripper[k] # "none"

\* Nothing but "executing" is said of work before its verdict, and nothing after it.
SaidInOrder(k) ==
  \A i \in 1..Len(said[k]) :
    \/ said[k][i] = "executing"
    \/ phase[k] \in {"told", "closed"} /\ i = Len(said[k]) /\ said[k][i] = verdict[k]

\* What succeeded was stored, whole, before it is told.
StoredFirst(k) ==
  k \in Owners /\ verdict[k] = "done" /\ phase[k] \in {"stored", "telling", "told", "closed"}
    => \E i \in 1..Len(log) : log[i] = Group(k)

JobTrue(k) == DeadlineFlagged(k) /\ CancelledByCancel(k) /\ SaidInOrder(k) /\ StoredFirst(k)

\* A job that a step does not touch.
LEMMA JobLeft ==
  ASSUME TypeOK, NEW k \in Jobs, JobTrue(k),
         phase'[k] = phase[k], verdict'[k] = verdict[k], said'[k] = said[k],
         callId'[k] = callId[k], kept'[k] = kept[k], tripper'[k] = tripper[k],
         k \in passed => k \in passed',
         \/ log' = log
         \/ \E g \in SUBSET Nat : log' = Append(log, g)
  PROVE  JobTrue(k)'
  <1>1. DeadlineFlagged(k)' /\ CancelledByCancel(k)' /\ SaidInOrder(k)'
    BY DEF JobTrue, DeadlineFlagged, CancelledByCancel, SaidInOrder
  <1>2. StoredFirst(k)'
    <2>1. Group(k)' = Group(k)
      BY DEF Group
    <2>2. log \in Seq(SUBSET Nat)
      BY DEF TypeOK
    <2>3. \A i \in 1..Len(log) : i \in 1..Len(log') /\ log'[i] = log[i]
      BY <2>2
    <2>4. QED
      BY <2>1, <2>3 DEF JobTrue, StoredFirst
  <1>3. QED
    BY <1>1, <1>2 DEF JobTrue

\* The step of every operation, for one job.
LEMMA JobStep ==
  ASSUME TypeOK, [Next]_vars, NEW k \in Jobs, JobTrue(k)
  PROVE  JobTrue(k)'
  <1> USE ConstantsOK DEF Goto, work, session
  <1>0. k \in Jobs /\ JobTrue(k)
    OBVIOUS
  <1>1. ASSUME NEW setting \in Settings, Configure(setting) PROVE JobTrue(k)'
    BY <1>1, JobLeft DEF Configure
  <1>2. ASSUME NEW j \in Runs, NEW n \in 1..MaxStatements, NEW ins \in BOOLEAN,
               Execute(j, n, ins) PROVE JobTrue(k)'
    <2>1. CASE k = j
      <3>1. /\ phase[k] = "idle" /\ phase'[k] = "accepted"
            /\ UNCHANGED <<tripper, passed, verdict, said>>
        BY <1>2, <2>1 DEF Execute, TypeOK
      <3>2. QED
        BY <3>1 DEF JobTrue, DeadlineFlagged, CancelledByCancel, SaidInOrder, StoredFirst
    <2>2. CASE k # j
      BY <1>2, <2>2, JobLeft DEF Execute, TypeOK
    <2>3. QED
      BY <2>1, <2>2
  <1>3. ASSUME NEW j \in Applies, NEW id \in Reported, Apply(j, id) PROVE JobTrue(k)'
    <2>1. CASE k = j
      <3>1. /\ phase[k] = "idle" /\ phase'[k] = "accepted"
            /\ UNCHANGED <<tripper, passed, verdict, said>>
        BY <1>3, <2>1 DEF Apply, TypeOK
      <3>2. QED
        BY <3>1 DEF JobTrue, DeadlineFlagged, CancelledByCancel, SaidInOrder, StoredFirst
    <2>2. CASE k # j
      BY <1>3, <2>2, JobLeft DEF Apply, TypeOK
    <2>3. QED
      BY <2>1, <2>2
  <1>4. ASSUME NEW j \in Restores, Restore(j) PROVE JobTrue(k)'
    <2>1. CASE k = j
      <3>1. /\ phase[k] = "idle" /\ phase'[k] = "accepted"
            /\ UNCHANGED <<tripper, passed, verdict, said>>
        BY <1>4, <2>1 DEF Restore, TypeOK
      <3>2. QED
        BY <3>1 DEF JobTrue, DeadlineFlagged, CancelledByCancel, SaidInOrder, StoredFirst
    <2>2. CASE k # j
      BY <1>4, <2>2, JobLeft DEF Restore, TypeOK
    <2>3. QED
      BY <2>1, <2>2
  <1>5. ASSUME NEW j \in Jobs, Cancel(callId[j]) PROVE JobTrue(k)'
    <2>1. UNCHANGED <<phase, verdict, said, callId, kept, passed, log>>
      BY <1>5 DEF Cancel
    <2>2. tripper'[k] = tripper[k] \/ (tripper[k] = "none" /\ tripper'[k] = "cancel")
      BY <1>5 DEF Cancel, TypeOK
    <2>3. CASE tripper'[k] = tripper[k]
      BY <2>1, <2>3, JobLeft
    <2>4. CASE tripper[k] = "none" /\ tripper'[k] = "cancel"
      <3>1. DeadlineFlagged(k)' /\ CancelledByCancel(k)' /\ SaidInOrder(k)'
        BY <2>1, <2>4 DEF JobTrue, DeadlineFlagged, CancelledByCancel, SaidInOrder
      <3>2. StoredFirst(k)'
        BY <2>1 DEF JobTrue, StoredFirst, Group
      <3>3. QED
        BY <3>1, <3>2 DEF JobTrue
    <2>5. QED
      BY <2>2, <2>3, <2>4
  <1>6. ASSUME NEW j \in Runs, NEW n \in 0..MaxResults, StatementReturns(j, n)
        PROVE JobTrue(k)'
    <2>1. CASE k = j
      <3>1. /\ phase[k] = "working" /\ phase'[k] \in {"ran", "working"}
            /\ verdict'[k] \in {verdict[k], "done"}
            /\ UNCHANGED <<tripper, passed, said>>
        BY <1>6, <2>1 DEF StatementReturns, TypeOK, Jobs
      <3>2. QED
        BY <3>1 DEF JobTrue, DeadlineFlagged, CancelledByCancel, SaidInOrder, StoredFirst
    <2>2. CASE k # j
      <3>1. /\ phase'[k] = phase[k] /\ verdict'[k] = verdict[k] /\ kept'[k] = kept[k]
            /\ UNCHANGED <<said, callId, tripper, passed, log>>
        BY <1>6, <2>2 DEF StatementReturns, TypeOK
      <3>2. QED
        BY <3>1, JobLeft
    <2>3. QED
      BY <2>1, <2>2
  <1>7. ASSUME NEW j \in Runs, NEW c \in BOOLEAN, StatementFails(j, c) PROVE JobTrue(k)'
    <2>1. CASE k = j
      <3>1. /\ phase[k] = "working" /\ phase'[k] \in {"keeping", "telling"}
            /\ verdict'[k] = ErrorVerdict(k, c)
            /\ c => tripper[k] # "none"
            /\ UNCHANGED <<tripper, passed, said>>
        BY <1>7, <2>1 DEF StatementFails, TypeOK, Jobs
      <3>2. verdict'[k] # "done" /\ (verdict'[k] = "cancelled" => c /\ k \notin passed)
        BY <3>1 DEF ErrorVerdict
      <3>3. verdict'[k] = "cancelled" => tripper[k] = "cancel"
        BY <3>1, <3>2 DEF JobTrue, DeadlineFlagged, TypeOK
      <3>4. QED
        BY <3>1, <3>2, <3>3
        DEF JobTrue, DeadlineFlagged, CancelledByCancel, SaidInOrder, StoredFirst
    <2>2. CASE k # j
      <3>1. /\ phase'[k] = phase[k] /\ verdict'[k] = verdict[k] /\ kept'[k] = kept[k]
            /\ UNCHANGED <<said, callId, tripper, passed, log>>
        BY <1>7, <2>2 DEF StatementFails, TypeOK
      <3>2. QED
        BY <3>1, JobLeft
    <2>3. QED
      BY <2>1, <2>2
  <1>8. ASSUME NEW j \in Applies, NEW o \in {"done", "error", "cancelled"},
               ApplyReturns(j, o) PROVE JobTrue(k)'
    <2>1. CASE k = j
      <3>1. /\ phase[k] = "working" /\ phase'[k] = "applied" /\ verdict'[k] = o
            /\ o = "cancelled" => tripper[k] # "none"
            /\ UNCHANGED <<tripper, passed, said>>
        BY <1>8, <2>1 DEF ApplyReturns, TypeOK, Jobs
      <3>2. QED
        BY <3>1 DEF JobTrue, DeadlineFlagged, CancelledByCancel, SaidInOrder, StoredFirst
    <2>2. CASE k # j
      <3>1. /\ phase'[k] = phase[k] /\ verdict'[k] = verdict[k]
            /\ UNCHANGED <<said, callId, kept, tripper, passed, log>>
        BY <1>8, <2>2 DEF ApplyReturns, TypeOK
      <3>2. QED
        BY <3>1, JobLeft
    <2>3. QED
      BY <2>1, <2>2
  <1>9. ASSUME NEW j \in Jobs, Begin(j) \/ Announce(j) \/ TakeInserted(j) \/ ReadLimit(j)
                                \/ DropRun(j) \/ DropApply(j)
        PROVE JobTrue(k)'
    <2>1. UNCHANGED <<verdict, callId, kept, tripper, passed, log>>
      BY <1>9 DEF Begin, Announce, TakeInserted, ReadLimit, DropRun, DropApply
    <2>2. \A i \in Jobs : i # j => phase'[i] = phase[i] /\ said'[i] = said[i]
      BY <1>9 DEF Begin, Announce, TakeInserted, ReadLimit, DropRun, DropApply, TypeOK
    <2>3. CASE k # j
      BY <2>1, <2>2, <2>3, JobLeft
    <2>4. CASE k = j
      <3>1. /\ phase[k] \notin {"told", "closed"}
            /\ phase'[k] \notin {"told", "closed"}
            /\ phase[k] = "applied" => phase'[k] = "dropped"
            /\ phase[k] = "dropped" => FALSE
            /\ phase'[k] \in {"stored", "telling"} => phase[k] = "stored"
        BY <1>9, <2>4 DEF Begin, Announce, TakeInserted, ReadLimit, DropRun, DropApply, TypeOK
      <3>2. said'[k] = said[k] \/ said'[k] = Append(said[k], "executing")
        BY <1>9, <2>4 DEF Begin, Announce, TakeInserted, ReadLimit, DropRun, DropApply, TypeOK
      <3>3. SaidInOrder(k)'
        <4>1. said[k] \in Seq(Verdicts \cup {"executing"})
          BY DEF TypeOK
        <4>2. \A i \in 1..Len(said[k]) : said[k][i] = "executing"
          BY <3>1 DEF JobTrue, SaidInOrder
        <4>3. \A i \in 1..Len(said'[k]) : said'[k][i] = "executing"
          <5>1. CASE said'[k] = said[k]
            BY <4>2, <5>1
          <5>2. CASE said'[k] = Append(said[k], "executing")
            BY <4>1, <4>2, <5>2
          <5> QED
            BY <3>2, <5>1, <5>2
        <4>4. QED
          BY <4>3 DEF SaidInOrder
      <3>4. DeadlineFlagged(k)' /\ CancelledByCancel(k)'
        BY <2>1, <3>1 DEF JobTrue, DeadlineFlagged, CancelledByCancel
      <3>5. StoredFirst(k)'
        BY <2>1, <3>1 DEF JobTrue, StoredFirst, Group
      <3>6. QED
        BY <3>3, <3>4, <3>5 DEF JobTrue
    <2>5. QED
      BY <2>3, <2>4
  <1>10. ASSUME NEW j \in Applies, Settle(j) PROVE JobTrue(k)'
    <2>1. /\ UNCHANGED <<callId, kept, tripper, passed, said, log>>
          /\ phase[j] = "dropped" /\ phase' = [phase EXCEPT ![j] = "telling"]
      BY <1>10 DEF Settle
    <2>2. CASE verdict[j] = "done"
      <3>1. verdict' = verdict
        BY <1>10, <2>2 DEF Settle
      <3>2. CASE k = j
        BY <2>1, <2>2, <3>1, <3>2
        DEF JobTrue, DeadlineFlagged, CancelledByCancel, SaidInOrder, StoredFirst, Owners, TypeOK
      <3>3. CASE k # j
        BY <2>1, <3>1, <3>3, JobLeft DEF TypeOK
      <3>4. QED
        BY <3>2, <3>3
    <2>3. CASE verdict[j] # "done"
      <3>1. verdict' = [verdict EXCEPT ![j] = ErrorVerdict(j, verdict[j] = "cancelled")]
        BY <1>10, <2>3 DEF Settle
      <3>2. CASE k = j
        <4>1. phase[k] = "dropped" /\ phase'[k] = "telling"
          BY <2>1, <3>2 DEF TypeOK
        <4>2. verdict'[k] = ErrorVerdict(k, verdict[k] = "cancelled")
          BY <3>1, <3>2 DEF TypeOK
        <4>3. verdict'[k] # "done"
          BY <4>2 DEF ErrorVerdict
        <4>4. verdict'[k] = "cancelled" => verdict[k] = "cancelled" /\ k \notin passed
          BY <4>2 DEF ErrorVerdict
        <4>5. verdict'[k] = "cancelled" => tripper[k] = "cancel"
          BY <4>1, <4>4 DEF JobTrue, DeadlineFlagged, CancelledByCancel, TypeOK
        <4>6. QED
          BY <2>1, <4>1, <4>3, <4>5
          DEF JobTrue, DeadlineFlagged, CancelledByCancel, SaidInOrder, StoredFirst
      <3>3. CASE k # j
        <4>1. verdict'[k] = verdict[k] /\ phase'[k] = phase[k]
          BY <2>1, <3>1, <3>3 DEF TypeOK
        <4>2. QED
          BY <2>1, <4>1, JobLeft
      <3>4. QED
        BY <3>2, <3>3
    <2>4. QED
      BY <2>2, <2>3
  <1>11. ASSUME NEW j \in Restores, NEW found \in BOOLEAN, NEW n \in 0..MaxResults,
                RestoreReads(j, found, n) PROVE JobTrue(k)'
    <2>1. CASE k = j
      <3>1. /\ phase[k] = "accepted" /\ phase'[k] = IF found THEN "keeping" ELSE "telling"
            /\ verdict'[k] = IF found THEN "done" ELSE "error"
            /\ UNCHANGED <<tripper, passed, said>>
        BY <1>11, <2>1 DEF RestoreReads, TypeOK, Jobs
      <3>2. QED
        BY <3>1 DEF JobTrue, DeadlineFlagged, CancelledByCancel, SaidInOrder, StoredFirst
    <2>2. CASE k # j
      <3>1. /\ phase'[k] = phase[k] /\ verdict'[k] = verdict[k] /\ kept'[k] = kept[k]
            /\ UNCHANGED <<said, callId, tripper, passed, log>>
        BY <1>11, <2>2 DEF RestoreReads, TypeOK
      <3>2. QED
        BY <3>1, JobLeft
    <2>3. QED
      BY <2>1, <2>2
  <1>12. ASSUME NEW j \in Jobs, Timer(j) PROVE JobTrue(k)'
    <2>1. /\ UNCHANGED <<phase, verdict, said, callId, kept, log>>
          /\ passed' = passed \cup {j}
          /\ tripper' = [tripper EXCEPT ![j] = IF @ = "none" THEN "deadline" ELSE @]
      BY <1>12 DEF Timer
    <2>2. CASE k # j
      <3>1. tripper'[k] = tripper[k]
        BY <2>1, <2>2 DEF TypeOK
      <3>2. QED
        BY <2>1, <3>1, JobLeft
    <2>3. CASE k = j
      <3>1. k \in passed' /\ tripper'[k] = IF tripper[k] = "none" THEN "deadline" ELSE tripper[k]
        BY <2>1, <2>3 DEF TypeOK
      <3>2. DeadlineFlagged(k)' /\ CancelledByCancel(k)' /\ SaidInOrder(k)'
        BY <2>1, <3>1 DEF JobTrue, DeadlineFlagged, CancelledByCancel, SaidInOrder
      <3>3. StoredFirst(k)'
        BY <2>1 DEF JobTrue, StoredFirst, Group
      <3>4. QED
        BY <3>2, <3>3 DEF JobTrue
    <2>4. QED
      BY <2>2, <2>3
  <1>13. ASSUME NEW j \in Jobs, Store(j) PROVE JobTrue(k)'
    <2>1. /\ UNCHANGED <<verdict, said, callId, kept, tripper, passed>>
          /\ log' = Append(log, Group(j)) /\ phase[j] = "sized"
      BY <1>13 DEF Store
    <2>2. phase' = [phase EXCEPT ![j] = IF j \in Runs /\ verdict[j] = "done" THEN "stored"
                                                                             ELSE "telling"]
      BY <1>13 DEF Store
    <2>3. Group(j) \in SUBSET Nat /\ log \in Seq(SUBSET Nat)
      BY GroupNat DEF TypeOK
    <2>4. CASE k # j
      <3>1. phase'[k] = phase[k]
        BY <2>2, <2>4 DEF TypeOK
      <3>2. QED
        BY <2>1, <2>3, <3>1, JobLeft
    <2>5. CASE k = j
      <3>1. phase[k] = "sized" /\ phase'[k] \in {"stored", "telling"}
        BY <2>1, <2>2, <2>5 DEF TypeOK
      <3>2. DeadlineFlagged(k)' /\ CancelledByCancel(k)' /\ SaidInOrder(k)'
        BY <2>1, <3>1 DEF JobTrue, DeadlineFlagged, CancelledByCancel, SaidInOrder
      <3>3. Group(k)' = Group(k)
        BY <2>1 DEF Group
      <3>4. Len(log') \in 1..Len(log') /\ log'[Len(log')] = Group(k)
        BY <2>1, <2>3, <2>5
      <3>5. StoredFirst(k)'
        BY <3>3, <3>4 DEF StoredFirst
      <3>6. QED
        BY <3>2, <3>5 DEF JobTrue
    <2>6. QED
      BY <2>4, <2>5
  <1>14. ASSUME NEW j \in Jobs, Tell(j) PROVE JobTrue(k)'
    <2>1. /\ UNCHANGED <<verdict, callId, kept, tripper, passed, log>> /\ phase[j] = "telling"
          /\ phase' = [phase EXCEPT ![j] = "told"]
          /\ said' = [said EXCEPT ![j] = Append(said[j], verdict[j])]
      BY <1>14 DEF Tell
    <2>2. CASE k # j
      <3>1. phase'[k] = phase[k] /\ said'[k] = said[k]
        BY <2>1, <2>2 DEF TypeOK
      <3>2. QED
        BY <2>1, <3>1, JobLeft
    <2>3. CASE k = j
      <3>1. phase[k] = "telling" /\ phase'[k] = "told" /\ said'[k] = Append(said[k], verdict[k])
        BY <2>1, <2>3 DEF TypeOK
      <3>2. SaidInOrder(k)'
        <4>1. said[k] \in Seq(Verdicts \cup {"executing"}) /\ verdict[k] \in Verdicts
          BY DEF TypeOK
        <4>2. \A i \in 1..Len(said[k]) : said[k][i] = "executing"
          BY <3>1 DEF JobTrue, SaidInOrder
        <4>3. /\ Len(said'[k]) = Len(said[k]) + 1
              /\ \A i \in 1..Len(said[k]) : said'[k][i] = said[k][i]
              /\ said'[k][Len(said[k]) + 1] = verdict[k]
          BY <3>1, <4>1
        <4>4. \A i \in 1..Len(said'[k]) : i \in 1..Len(said[k]) \/ i = Len(said[k]) + 1
          BY <4>1, <4>3
        <4>5. QED
          BY <2>1, <3>1, <4>2, <4>3, <4>4 DEF SaidInOrder
      <3>3. DeadlineFlagged(k)' /\ CancelledByCancel(k)'
        BY <2>1, <3>1 DEF JobTrue, DeadlineFlagged, CancelledByCancel
      <3>4. StoredFirst(k)'
        BY <2>1, <3>1 DEF JobTrue, StoredFirst, Group
      <3>5. QED
        BY <3>2, <3>3, <3>4 DEF JobTrue
    <2>4. QED
      BY <2>2, <2>3
  <1>15. ASSUME NEW j \in Jobs, Close(j) PROVE JobTrue(k)'
    <2>1. /\ UNCHANGED <<verdict, callId, kept, tripper, said, log>> /\ phase[j] = "told"
          /\ phase' = [phase EXCEPT ![j] = "closed"] /\ passed' = passed \ {j}
      BY <1>15 DEF Close
    <2>2. CASE k # j
      <3>1. phase'[k] = phase[k] /\ (k \in passed => k \in passed')
        BY <2>1, <2>2 DEF TypeOK
      <3>2. QED
        BY <2>1, <3>1, JobLeft
    <2>3. CASE k = j
      <3>1. phase[k] = "told" /\ phase'[k] = "closed"
        BY <2>1, <2>3 DEF TypeOK
      <3>2. DeadlineFlagged(k)' /\ CancelledByCancel(k)' /\ SaidInOrder(k)'
        BY <2>1, <3>1 DEF JobTrue, DeadlineFlagged, CancelledByCancel, SaidInOrder
      <3>3. StoredFirst(k)'
        BY <2>1, <3>1 DEF JobTrue, StoredFirst, Group
      <3>4. QED
        BY <3>2, <3>3 DEF JobTrue
    <2>4. QED
      BY <2>2, <2>3
  <1>16. CASE UNCHANGED vars
    BY <1>16, JobLeft DEF vars
  <1>17. ASSUME NEW j \in Jobs, Step(j) PROVE JobTrue(k)'
    BY <1>17, <1>9, <1>10, <1>11, <1>12, <1>13, <1>14, <1>15
    DEF Step, RunStep, ApplyStep, RestoreStep
  <1>18. ASSUME NEW j \in Jobs, Returns(j) PROVE JobTrue(k)'
    BY <1>18, <1>6, <1>7, <1>8 DEF Returns
  <1>19. CASE Request
    BY <1>19, <1>1, <1>2, <1>3, <1>4, <1>5 DEF Request
  <1>20. QED
    BY <1>16, <1>17, <1>18, <1>19 DEF Next

\* What the editor is told of a call is so: "done" of what was stored before, whole,
\* and "cancelled" of what a cancel stopped and no deadline.
THEOREM EventsAreTrue == Spec => []EventsTrue
  <1> DEFINE Inv == \A k \in Jobs : JobTrue(k)
  <1>1. Init => Inv
    <2>1. ASSUME Init, NEW k \in Jobs
          PROVE  phase[k] = "idle" /\ verdict[k] = "none" /\ tripper[k] = "none" /\ said[k] = <<>>
      BY <2>1 DEF Init
    <2>2. QED
      BY <2>1 DEF JobTrue, DeadlineFlagged, CancelledByCancel, SaidInOrder, StoredFirst
  <1>2. TypeOK /\ Inv /\ [Next]_vars => Inv'
    BY JobStep
  <1>3. TypeOK /\ Inv => EventsTrue
    <2>1. ASSUME TypeOK, Inv, NEW j \in Owners, "done" \in {said[j][i] : i \in 1..Len(said[j])}
          PROVE  /\ \E i \in 1..Len(log) : callId[j] \in log[i] /\ kept[j] \subseteq log[i]
                 /\ said[j][Len(said[j])] = "done"
                 /\ \A i \in 1..Len(said[j]) - 1 : said[j][i] = "executing"
      <3>1. j \in Jobs /\ JobTrue(j) /\ said[j] \in Seq(Verdicts \cup {"executing"})
        BY <2>1 DEF Owners, Jobs, TypeOK
      <3>2. PICK i \in 1..Len(said[j]) : said[j][i] = "done"
        BY <2>1
      <3>3. phase[j] \in {"told", "closed"} /\ i = Len(said[j]) /\ verdict[j] = "done"
        BY <3>1, <3>2 DEF JobTrue, SaidInOrder
      <3>4. \A n \in 1..Len(said[j]) - 1 : said[j][n] = "executing"
        BY <3>1 DEF JobTrue, SaidInOrder
      <3>5. PICK n \in 1..Len(log) : log[n] = Group(j)
        BY <2>1, <3>1, <3>3 DEF JobTrue, StoredFirst
      <3>6. callId[j] \in log[n] /\ kept[j] \subseteq log[n]
        BY <3>3, <3>5 DEF Group
      <3>7. QED
        BY <3>2, <3>3, <3>4, <3>6
    <2>2. ASSUME Inv, NEW j \in Jobs, NEW i \in 1..Len(said[j]), said[j][i] = "cancelled"
          PROVE  tripper[j] = "cancel"
      BY <2>2 DEF JobTrue, SaidInOrder, CancelledByCancel
    <2>3. QED
      BY <2>1, <2>2 DEF EventsTrue, DoneIsStored, CancelledMeansCancelled, Owners
  <1> HIDE DEF Inv
  <1>4. QED
    BY <1>1, <1>2, <1>3, Typing, PTL DEF Spec

-----------------------------------------------------------------------------
(* The results that can be read *)

\* Before a run is stored its ids are its own: no stored run has any of them.
Unstored == {"accepted", "begun", "working", "ran", "keeping", "sized"}
LogOK ==
  /\ \A i \in 1..Len(log) : log[i] \subseteq 1..issued
  /\ \A i, k \in 1..Len(log) : i # k => log[i] \cap log[k] = {}
  /\ \A j \in Owners, i \in 1..Len(log) :
       /\ phase[j] \in Unstored \cup {"idle"} => kept[j] \cap log[i] = {}
       /\ phase[j] \in Unstored => callId[j] \notin log[i]

\* A run on its way to the history has a result.
ResultsOK ==
  \A j \in Owners : /\ phase[j] = "ran" => verdict[j] = "done"
                    /\ phase[j] \in {"keeping", "sized"} => verdict[j] = "done" \/ kept[j] # {}

\* The history holds the last runs of the log, and what can be read is theirs.
HeldOK ==
  /\ Len(order) <= Len(log)
  /\ \A k \in 1..Len(order) : order[k] = log[Len(log) - Len(order) + k]
  /\ held = UNION {order[k] : k \in 1..Len(order)}

HistoryInv == LogOK /\ ResultsOK /\ HeldOK

\* What a step that stores nothing must do for the history to stay as it is.
HistoryIdle ==
  /\ UNCHANGED <<held, order, log>>
  /\ issued' \in Nat /\ issued' >= issued
  /\ \A j \in Owners :
       /\ \A n \in kept'[j] : n \in kept[j] \/ n > issued
       /\ phase'[j] \in Unstored \cup {"idle"} => phase[j] \in Unstored \cup {"idle"}
       /\ phase'[j] \in Unstored => \/ phase[j] \in Unstored /\ callId'[j] = callId[j]
                                    \/ callId'[j] > issued
       /\ phase'[j] = "ran" => verdict'[j] = "done"
       /\ phase'[j] \in {"keeping", "sized"} => verdict'[j] = "done" \/ kept'[j] # {}

LEMMA HistoryKept ==
  ASSUME TypeOK, HistoryInv, HistoryIdle
  PROVE  HistoryInv'
<1>1. issued \in Nat /\ log' = log /\ order' = order /\ held' = held
  BY DEF TypeOK, HistoryIdle
<1>2. \A i \in 1..Len(log) : log[i] \subseteq 1..issued /\ log[i] \subseteq 1..issued'
  BY <1>1 DEF HistoryInv, LogOK, HistoryIdle
<1>3. LogOK'
  <2>1. ASSUME NEW j \in Owners, NEW i \in 1..Len(log), phase'[j] \in Unstored \cup {"idle"}
        PROVE  kept'[j] \cap log[i] = {}
    <3>1. kept[j] \cap log[i] = {}
      BY <2>1 DEF HistoryIdle, HistoryInv, LogOK
    <3>2. \A n \in log[i] : ~(n > issued)
      BY <1>1, <1>2
    <3> QED
      BY <3>1, <3>2 DEF HistoryIdle
  <2>2. ASSUME NEW j \in Owners, NEW i \in 1..Len(log), phase'[j] \in Unstored
        PROVE  callId'[j] \notin log[i]
    <3>1. \A n \in log[i] : ~(n > issued)
      BY <1>1, <1>2
    <3> QED
      BY <2>2, <3>1 DEF HistoryIdle, HistoryInv, LogOK
  <2>3. \A i, k \in 1..Len(log) : i # k => log[i] \cap log[k] = {}
    BY DEF HistoryInv, LogOK
  <2> QED
    BY <1>1, <1>2, <2>1, <2>2, <2>3 DEF LogOK
<1>4. ResultsOK'
  BY DEF HistoryIdle, ResultsOK
<1>5. HeldOK'
  BY <1>1 DEF HistoryInv, HeldOK
<1> QED
  BY <1>3, <1>4, <1>5 DEF HistoryInv

\* Every step but that of store_run is such a step.
LEMMA HistoryStep ==
  ASSUME TypeOK, HistoryInv, PhaseOK, [Next]_vars
  PROVE  HistoryIdle \/ \E j \in Owners : Store(j)
<1>0. issued \in Nat /\ issued >= issued /\ issued + 1 \in Nat /\ issued + 1 > issued
  BY DEF TypeOK
<1>1. ASSUME UNCHANGED <<held, order, log, issued, kept, callId, verdict>>,
             NEW j \in Jobs, NEW p \in Phases, phase' = [phase EXCEPT ![j] = p],
             p \in Unstored => phase[j] \in Unstored, p # "idle", p # "ran",
             p \in {"keeping", "sized"} => \/ phase[j] \in {"keeping", "sized"}
                                           \/ phase[j] = "ran"
      PROVE  HistoryIdle
  <2>1. \A k \in Jobs : phase'[k] = IF k = j THEN p ELSE phase[k]
    BY <1>1 DEF TypeOK
  <2> QED
    BY <1>0, <1>1, <2>1 DEF HistoryIdle, HistoryInv, ResultsOK, Owners, Jobs, Unstored
<1>2. ASSUME UNCHANGED <<held, order, log, issued, kept, callId, verdict, phase>>
      PROVE  HistoryIdle
  BY <1>0, <1>2 DEF HistoryIdle, HistoryInv, ResultsOK
<1>3. ASSUME UNCHANGED <<held, order, log, kept, verdict>>, issued' = issued + 1, NEW j \in Jobs,
             phase' = [phase EXCEPT ![j] = "accepted"], callId' = [callId EXCEPT ![j] = issued + 1],
             phase[j] = "idle"
      PROVE  HistoryIdle
  <2>1. \A k \in Jobs : phase'[k] = IF k = j THEN "accepted" ELSE phase[k]
    BY <1>3 DEF TypeOK
  <2>2. \A k \in Jobs : callId'[k] = IF k = j THEN issued + 1 ELSE callId[k]
    BY <1>3 DEF TypeOK
  <2>3. issued' \in Nat /\ issued' >= issued
    BY <1>0, <1>3
  <2> QED
    BY <1>0, <1>3, <2>1, <2>2, <2>3 DEF HistoryIdle, HistoryInv, ResultsOK, Owners, Jobs, Unstored
<1>4. ASSUME NEW j \in Applies, UNCHANGED <<held, order, log, issued, kept>>,
             \A k \in Owners : /\ phase'[k] = phase[k] /\ callId'[k] = callId[k]
                               /\ verdict'[k] = verdict[k]
      PROVE  HistoryIdle
  BY <1>0, <1>4 DEF HistoryIdle, HistoryInv, ResultsOK
<1>5. ASSUME NEW j \in Runs \cup Restores, NEW n \in Nat, NEW p \in Phases,
             UNCHANGED <<held, order, log, callId>>, issued' = issued + n,
             phase[j] \in Unstored, phase' = [phase EXCEPT ![j] = p], p # "idle",
             \A k \in Jobs : k # j => kept'[k] = kept[k] /\ verdict'[k] = verdict[k],
             \A m \in kept'[j] : m \in kept[j] \/ m > issued,
             p = "ran" => verdict'[j] = "done",
             p \in {"keeping", "sized"} => verdict'[j] = "done" \/ kept'[j] # {}
      PROVE  HistoryIdle
  <2>1. \A k \in Jobs : phase'[k] = IF k = j THEN p ELSE phase[k]
    BY <1>5 DEF TypeOK
  <2>2. issued' \in Nat /\ issued' >= issued
    BY <1>0, <1>5
  <2> QED
    BY <1>5, <2>1, <2>2 DEF HistoryIdle, HistoryInv, ResultsOK, Owners, Jobs, Unstored
<1>6. ASSUME NEW setting \in Settings, Configure(setting) PROVE HistoryIdle
  BY <1>2, <1>6 DEF Configure, work
<1>7. ASSUME NEW j \in Runs, NEW n \in 1..MaxStatements, NEW ins \in BOOLEAN, Execute(j, n, ins)
      PROVE  HistoryIdle
  BY <1>3, <1>7 DEF Execute, Goto, Jobs
<1>8. ASSUME NEW j \in Restores, Restore(j) PROVE HistoryIdle
  BY <1>3, <1>8 DEF Restore, Goto, Jobs
<1>9. ASSUME NEW j \in Applies, NEW id \in Reported, Apply(j, id) PROVE HistoryIdle
  BY <1>4, <1>9, ConstantsOK DEF Apply, Goto, session, Owners, Jobs, TypeOK
<1>10. ASSUME NEW j \in Jobs, Cancel(callId[j]) PROVE HistoryIdle
  BY <1>2, <1>10 DEF Cancel, work
<1>11. ASSUME NEW j \in Runs, NEW n \in 0..MaxResults, StatementReturns(j, n) PROVE HistoryIdle
  <2>1. PICK d \in Nat : issued' = issued + d
    <3>1. ASSUME n # 0 PROVE (IF last[j] THEN n ELSE n - 1) \in Nat
      BY <3>1, ConstantsOK
    <3>2. CASE n = 0
      BY <1>0, <1>11, <3>2 DEF StatementReturns
    <3>3. CASE n # 0
      BY <1>11, <3>1, <3>3 DEF StatementReturns
    <3> QED
      BY <3>2, <3>3
  <2>2. \A m \in kept'[j] : m \in kept[j] \/ m > issued
    <3>1. \A k : \A m \in Fresh(k) : m > issued
      BY <1>0 DEF Fresh
    <3> QED
      BY <1>11, <3>1 DEF StatementReturns, TypeOK, Jobs
  <2>3. /\ \A k \in Jobs : k # j => kept'[k] = kept[k] /\ verdict'[k] = verdict[k]
        /\ left[j] = 1 => verdict'[j] = "done"
    BY <1>11 DEF StatementReturns, TypeOK, Jobs
  <2>4. /\ phase' = [phase EXCEPT ![j] = IF left[j] = 1 THEN "ran" ELSE "working"]
        /\ phase[j] = "working" /\ UNCHANGED <<held, order, log, callId>>
    BY <1>11 DEF StatementReturns, Goto
  <2>5. CASE left[j] = 1
    BY <1>5, <2>1, <2>2, <2>3, <2>4, <2>5 DEF Phases, Unstored
  <2>6. CASE left[j] # 1
    BY <1>5, <2>1, <2>2, <2>3, <2>4, <2>6 DEF Phases, Unstored
  <2> QED
    BY <2>5, <2>6
<1>12. ASSUME NEW j \in Runs, NEW c \in BOOLEAN, StatementFails(j, c) PROVE HistoryIdle
  <2>1. PICK d \in Nat : issued' = issued + d
    <3>1. CASE last[j]
      BY <1>12, <3>1 DEF StatementFails
    <3>2. CASE ~last[j]
      BY <1>0, <1>12, <3>2 DEF StatementFails
    <3> QED
      BY <3>1, <3>2
  <2>2. kept'[j] = kept[j] \cup (IF last[j] THEN Fresh(1) ELSE {})
    BY <1>12 DEF StatementFails, TypeOK, Jobs
  <2>3. issued + 1 \in Fresh(1) /\ \A m \in Fresh(1) : m > issued
    BY <1>0 DEF Fresh
  <2>4. \A k \in Jobs : k # j => kept'[k] = kept[k] /\ verdict'[k] = verdict[k]
    BY <1>12 DEF StatementFails, TypeOK, Jobs
  <2>5. /\ phase' = [phase EXCEPT ![j] = IF last[j] \/ kept[j] # {} THEN "keeping" ELSE "telling"]
        /\ phase[j] = "working" /\ UNCHANGED <<held, order, log, callId>>
    BY <1>12 DEF StatementFails, Goto
  <2>6. CASE last[j] \/ kept[j] # {}
    <3>1. kept'[j] # {}
      BY <2>2, <2>3, <2>6
    <3> QED
      BY <1>5, <2>1, <2>2, <2>3, <2>4, <2>5, <2>6, <3>1 DEF Phases, Unstored
  <2>7. CASE ~(last[j] \/ kept[j] # {})
    BY <1>5, <2>1, <2>2, <2>3, <2>4, <2>5, <2>7 DEF Phases, Unstored
  <2> QED
    BY <2>6, <2>7
<1>13. ASSUME NEW j \in Restores, NEW found \in BOOLEAN, NEW n \in 0..MaxResults,
              RestoreReads(j, found, n) PROVE HistoryIdle
  <2>1. PICK d \in Nat : issued' = issued + d
    <3>1. CASE found
      BY <1>13, <3>1, ConstantsOK DEF RestoreReads
    <3>2. CASE ~found
      BY <1>0, <1>13, <3>2 DEF RestoreReads
    <3> QED
      BY <3>1, <3>2
  <2>2. \A m \in kept'[j] : m > issued
    <3>1. \A m \in Fresh(n) : m > issued
      BY <1>0 DEF Fresh
    <3> QED
      BY <1>13, <3>1 DEF RestoreReads, TypeOK, Jobs
  <2>3. /\ \A k \in Jobs : k # j => kept'[k] = kept[k] /\ verdict'[k] = verdict[k]
        /\ found => verdict'[j] = "done"
    BY <1>13 DEF RestoreReads, TypeOK, Jobs
  <2>4. /\ phase' = [phase EXCEPT ![j] = IF found THEN "keeping" ELSE "telling"]
        /\ phase[j] = "accepted" /\ UNCHANGED <<held, order, log, callId>>
    BY <1>13 DEF RestoreReads, Goto
  <2>5. CASE found
    BY <1>5, <2>1, <2>2, <2>3, <2>4, <2>5 DEF Phases, Unstored
  <2>6. CASE ~found
    BY <1>5, <2>1, <2>2, <2>3, <2>4, <2>6 DEF Phases, Unstored
  <2> QED
    BY <2>5, <2>6
<1>14. ASSUME NEW j \in Applies, NEW o \in {"done", "error", "cancelled"}, ApplyReturns(j, o)
       PROVE  HistoryIdle
  BY <1>4, <1>14, ConstantsOK DEF ApplyReturns, Goto, session, work, Owners, Jobs, TypeOK
<1>15. ASSUME NEW j \in Applies, DropApply(j) \/ Settle(j) PROVE HistoryIdle
  <2>1. UNCHANGED <<held, order, log, issued, kept, callId>>
    BY <1>15 DEF DropApply, Settle, work
  <2>2. \A k \in Owners : phase'[k] = phase[k] /\ verdict'[k] = verdict[k]
    BY <1>15, ConstantsOK, SMTT(30) DEF DropApply, Settle, Goto, Owners, Jobs, TypeOK
  <2> QED
    BY <1>4, <2>1, <2>2
<1>16. ASSUME NEW j \in Jobs, Begin(j) PROVE HistoryIdle
  <2>1. PICK p \in {"begun", "working"} : phase' = [phase EXCEPT ![j] = p]
    BY <1>16 DEF Begin, Goto
  <2> QED
    BY <1>1, <1>16, <2>1 DEF Begin, work, Phases, Unstored
<1>17. ASSUME NEW j \in Jobs, Announce(j) \/ TakeInserted(j) \/ ReadLimit(j) \/ DropRun(j)
                                \/ Tell(j) \/ Close(j)
       PROVE  HistoryIdle
  <2>1. UNCHANGED <<held, order, log, issued, kept, callId, verdict>>
    BY <1>17 DEF Announce, TakeInserted, ReadLimit, DropRun, Tell, Close, session, work
  <2>2. PICK p \in {"working", "keeping", "sized", "telling", "told", "closed"} :
          /\ phase' = [phase EXCEPT ![j] = p]
          /\ p = "working" => phase[j] = "begun"
          /\ p = "keeping" => phase[j] = "ran"
          /\ p = "sized" => phase[j] = "keeping"
    BY <1>17, Zenon DEF Announce, TakeInserted, ReadLimit, DropRun, Tell, Close, Goto
  <2> QED
    BY <1>1, <2>1, <2>2 DEF Phases, Unstored
<1>18. ASSUME NEW j \in Jobs, Timer(j) PROVE HistoryIdle
  BY <1>2, <1>18 DEF Timer, session, work
<1>19. ASSUME NEW j \in Jobs, Store(j) PROVE j \in Owners
  BY <1>19 DEF Store, PhaseOK, Owners, Jobs
<1>20. CASE UNCHANGED vars
  BY <1>2, <1>20 DEF vars, session, work
<1>21. ASSUME NEW j \in Jobs, Step(j) PROVE HistoryIdle \/ \E k \in Owners : Store(k)
  BY <1>13, <1>15, <1>16, <1>17, <1>18, <1>19, <1>21 DEF Step, RunStep, ApplyStep, RestoreStep
<1>22. ASSUME NEW j \in Jobs, Returns(j) PROVE HistoryIdle
  BY <1>11, <1>12, <1>14, <1>22 DEF Returns
<1>23. CASE Request
  BY <1>6, <1>7, <1>8, <1>9, <1>10, <1>23 DEF Request
<1> QED
  BY <1>20, <1>21, <1>22, <1>23 DEF Next

\* store_run keeps the promise, and the history as it should be.
LEMMA HistoryStored ==
  ASSUME TypeOK, IdsOK, HistoryInv, NEW j \in Owners, Store(j)
  PROVE  HistoryInv' /\ Promise!Stored
<1> DEFINE G == Group(j)
           M == Len(order)
           N == Len(log)
           runs == Append(order, G)
           out == Excess(runs, limit[j])
<1>1. /\ phase[j] = "sized" /\ UNCHANGED <<issued, kept, callId, verdict>>
      /\ order' = SubSeq(runs, out + 1, Len(runs))
      /\ held' = (held \cup G) \ UNION {runs[i] : i \in 1..out}
      /\ log' = Append(log, G)
      /\ phase' = [phase EXCEPT ![j] = IF j \in Runs /\ verdict[j] = "done" THEN "stored" ELSE "telling"]
  BY DEF Store, Goto, work
<1>2. /\ j \in Jobs /\ issued \in Nat /\ G \in SUBSET Nat /\ limit[j] \in Nat \ {0}
      /\ order \in Seq(SUBSET Nat) /\ log \in Seq(SUBSET Nat) /\ M \in Nat /\ N \in Nat
  BY GroupNat DEF Owners, Jobs, TypeOK
<1>3. /\ runs \in Seq(SUBSET Nat) /\ Len(runs) = M + 1 /\ runs[M + 1] = G
      /\ \A k \in 1..M : runs[k] = order[k]
  BY <1>2
<1>4. /\ Len(log') = N + 1 /\ log'[N + 1] = G
      /\ \A k \in 1..N : log'[k] = log[k]
  BY <1>1, <1>2
<1>5. G # {} /\ G \subseteq 1..issued
  <2>1. callId[j] \in 1..issued /\ kept[j] \subseteq 1..issued
    BY <1>1 DEF IdsOK
  <2>2. verdict[j] = "done" \/ kept[j] # {}
    BY <1>1 DEF HistoryInv, ResultsOK
  <2> QED
    BY <2>1, <2>2 DEF Group
<1>6. \A i \in 1..N : G \cap log[i] = {}
  <2>1. \A i \in 1..N : kept[j] \cap log[i] = {} /\ callId[j] \notin log[i]
    BY <1>1 DEF HistoryInv, LogOK, Unstored
  <2> QED
    BY <2>1 DEF Group
<1> HIDE DEF G, runs, M, N
<1>7. out \in Nat /\ out <= M
  <2>1. runs # <<>>
    BY <1>2, <1>3
  <2>2. out \in Nat /\ out < Len(runs)
    BY <1>2, <1>3, <2>1, ExcessNat
  <2> QED
    BY <1>2, <1>3, <2>2
<1> HIDE DEF out
<1>8. \A i, k \in 1..N + 1 : i # k => log'[i] \cap log'[k] = {}
  <2>1. \A i \in 1..N + 1 : i \in 1..N \/ i = N + 1
    BY <1>2
  <2>2. \A i, k \in 1..N : i # k => log[i] \cap log[k] = {}
    BY DEF HistoryInv, LogOK, N
  <2> QED
    BY <1>4, <1>6, <2>1, <2>2
<1>9. LogOK'
  <2>1. \A i \in 1..N + 1 : i \in 1..N \/ i = N + 1
    BY <1>2
  <2>2. \A i \in 1..N + 1 : log'[i] \subseteq 1..issued
    <3>1. \A i \in 1..N : log[i] \subseteq 1..issued
      BY DEF HistoryInv, LogOK, N
    <3> QED
      BY <1>4, <1>5, <2>1, <3>1
  <2>3. ASSUME NEW k \in Owners, phase'[k] \in Unstored \cup {"idle"}, NEW i \in 1..N + 1
        PROVE  kept[k] \cap log'[i] = {} /\ (phase'[k] \in Unstored => callId[k] \notin log'[i])
    <3>1. k # j /\ phase'[k] = phase[k]
      BY <1>1, <1>2, <2>3 DEF TypeOK, Unstored, Owners, Jobs
    <3>2. CASE i \in 1..N
      BY <1>4, <2>3, <3>1, <3>2 DEF HistoryInv, LogOK, N
    <3>3. CASE i = N + 1
      <4>1. kept[k] \cap G = {}
        BY <1>1, <3>1 DEF IdsOK, Group, G
      <4>2. phase[k] # "idle" => callId[k] \notin G
        BY <1>1, <3>1 DEF IdsOK, Group, G
      <4> QED
        BY <1>4, <3>1, <3>3, <4>1, <4>2 DEF Unstored
    <3> QED
      BY <2>1, <3>2, <3>3
  <2> QED
    BY <1>1, <1>4, <1>8, <2>2, <2>3 DEF LogOK
<1>10. ResultsOK'
  <2>1. \A k \in Owners : phase'[k] \in {"ran", "keeping", "sized"} => phase'[k] = phase[k]
    BY <1>1, <1>2 DEF TypeOK, Owners, Jobs
  <2> QED
    BY <1>1, <2>1 DEF HistoryInv, ResultsOK
<1>11. M <= N /\ \A q \in 1..M + 1 : N - M + q \in 1..N + 1 /\ runs[q] = log'[N - M + q]
  <2>1. M <= N /\ \A k \in 1..M : order[k] = log[N - M + k]
    BY DEF HistoryInv, HeldOK, M, N
  <2>2. ASSUME NEW q \in 1..M PROVE N - M + q \in 1..N /\ runs[q] = log'[N - M + q]
    <3>1. N - M + q \in 1..N
      BY <1>2, <2>1
    <3> QED
      BY <1>3, <1>4, <2>1, <3>1
  <2>3. N - M + (M + 1) = N + 1 /\ N + 1 \in 1..N + 1
    BY <1>2
  <2>4. \A q \in 1..M + 1 : q \in 1..M \/ q = M + 1
    BY <1>2
  <2>5. \A q \in 1..M : N - M + q \in 1..N + 1
    BY <1>2, <2>1
  <2> QED
    BY <1>3, <1>4, <2>1, <2>2, <2>3, <2>4, <2>5
<1>12. /\ Len(order') = M + 1 - out
       /\ \A k \in 1..M + 1 - out : out + k \in 1..M + 1 /\ order'[k] = runs[out + k]
  BY <1>1, <1>2, <1>3, <1>7
<1>13. held \cup G = UNION {runs[q] : q \in 1..M + 1}
  <2>1. held = UNION {order[k] : k \in 1..M}
    BY DEF HistoryInv, HeldOK, M
  <2>2. \A q \in 1..M + 1 : q \in 1..M \/ q = M + 1
    BY <1>2
  <2>3. M + 1 \in 1..M + 1 /\ \A k \in 1..M : k \in 1..M + 1
    BY <1>2
  <2> QED
    BY <1>3, <2>1, <2>2, <2>3
<1>14. \A p, q \in 1..M + 1 : p # q => runs[p] \cap runs[q] = {}
  <2>1. ASSUME NEW p \in 1..M + 1, NEW q \in 1..M + 1, p # q PROVE N - M + p # N - M + q
    BY <1>2, <2>1
  <2> QED
    BY <1>8, <1>11, <2>1
<1>15. held' = UNION {runs[q] : q \in out + 1..M + 1}
  <2>1. \A q \in 1..M + 1 : q \in 1..out \/ q \in out + 1..M + 1
    BY <1>2, <1>7
  <2>2. /\ \A q \in out + 1..M + 1 : q \in 1..M + 1 /\ \A p \in 1..out : p # q
        /\ \A p \in 1..out : p \in 1..M + 1
    BY <1>2, <1>7
  <2> QED
    BY <1>1, <1>13, <1>14, <2>1, <2>2
<1>16. HeldOK'
  <2>1. \A k \in 1..M + 1 - out : N + 1 - (M + 1 - out) + k = N - M + (out + k)
    BY <1>2, <1>7
  <2>2. M + 1 - out <= N + 1
    BY <1>2, <1>7, <1>11
  <2>3. \A k \in 1..M + 1 - out : order'[k] = log'[N + 1 - (M + 1 - out) + k]
    BY <1>11, <1>12, <2>1
  <2>4. held' = UNION {order'[k] : k \in 1..M + 1 - out}
    <3>1. \A q \in out + 1..M + 1 : q - out \in 1..M + 1 - out /\ out + (q - out) = q
      BY <1>2, <1>7
    <3>2. \A k \in 1..M + 1 - out : out + k \in out + 1..M + 1
      BY <1>2, <1>7
    <3>3. \A q \in out + 1..M + 1 : runs[q] = order'[q - out]
      BY <1>12, <3>1
    <3> QED
      BY <1>12, <1>15, <3>1, <3>2, <3>3
  <2> QED
    <3>1. Len(order') <= Len(log')
      BY <1>4, <1>12, <2>2
    <3>2. \A k \in 1..Len(order') : order'[k] = log'[Len(log') - Len(order') + k]
      <4> SUFFICES ASSUME NEW k \in 1..Len(order')
                   PROVE  order'[k] = log'[Len(log') - Len(order') + k]
        OBVIOUS
      <4>1. /\ k \in 1..M + 1 - out
            /\ Len(log') - Len(order') + k = N + 1 - (M + 1 - out) + k
        BY <1>2, <1>4, <1>7, <1>12
      <4>2. order'[k] = log'[N + 1 - (M + 1 - out) + k]
        BY <2>3, <4>1
      <4> QED
        BY <4>1, <4>2
    <3>3. held' = UNION {order'[k] : k \in 1..Len(order')}
      BY <1>12, <2>4
    <3> QED
      BY <3>1, <3>2, <3>3 DEF HeldOK
<1>17. Promise!Stored
  <2>1. G \cap Promise!IdsFrom(log, 1) = {}
    BY <1>6 DEF Promise!IdsFrom, N
  <2>2. PICK i \in 1..N + 1 : i = N - M + (out + 1)
    BY <1>2, <1>7, <1>11
  <2>3. held' = UNION {log'[k] : k \in i..N + 1}
    <3>1. \A q \in out + 1..M + 1 : N - M + q \in i..N + 1 /\ q \in 1..M + 1
      BY <1>2, <1>7, <1>11, <2>2
    <3>2. \A k \in i..N + 1 : k - (N - M) \in out + 1..M + 1 /\ N - M + (k - (N - M)) = k
      BY <1>2, <1>7, <1>11, <2>2
    <3>3. \A k \in i..N + 1 : log'[k] = runs[k - (N - M)]
      BY <1>11, <3>1, <3>2
    <3> QED
      BY <1>11, <1>15, <3>1, <3>2, <3>3
  <2>4. \E k \in 1..Len(log) + 1 : held' = Promise!IdsFrom(log', k)
    BY <1>4, <2>3 DEF Promise!IdsFrom, N
  <2>5. Promise!Store(G)
    BY <1>1, <1>5, <2>1, <2>4 DEF Promise!Store
  <2> QED
    BY <1>4, <2>5 DEF Promise!Stored, N
<1> QED
  BY <1>9, <1>10, <1>16, <1>17 DEF HistoryInv

\* The history and the log fit together in every reachable state.
THEOREM HistoryInvariant == Spec => []HistoryInv
<1>1. Init => HistoryInv
  <2> SUFFICES ASSUME Init PROVE HistoryInv
    OBVIOUS
  <2>1. /\ order = <<>> /\ log = <<>> /\ held = {}
        /\ \A j \in Jobs : phase[j] = "idle"
    BY DEF Init
  <2>2. Len(log) = 0 /\ Len(order) = 0
    BY <2>1
  <2> QED
    BY <2>1, <2>2 DEF HistoryInv, LogOK, ResultsOK, HeldOK, Owners, Jobs
<1>2. TypeOK /\ RegistryInv /\ HistoryInv /\ [Next]_vars => HistoryInv'
  BY HistoryStep, HistoryKept, HistoryStored DEF RegistryInv
<1> QED
  BY <1>1, <1>2, Typing, RegistryInvariant, PTL DEF Spec

\* What can be read is always the whole of the latest runs: the engine's history
\* implements ResultLog, whatever is run, restored, cancelled or configured.
THEOREM KeepsLatest == Spec => KeepsLatestRuns
<1>1. Init => Promise!Init
  BY DEF Init, Promise!Init
<1>2. TypeOK /\ RegistryInv /\ HistoryInv /\ [Next]_vars => [Promise!Stored]_<<log, held>>
  BY HistoryStep, HistoryStored DEF RegistryInv, HistoryIdle
<1> QED
  BY <1>1, <1>2, Typing, RegistryInvariant, HistoryInvariant, PTL
  DEF Spec, KeepsLatestRuns, Promise!Spec, Promise!vars
==============================================================================
