--------------------------- MODULE SchedulerProofs ---------------------------
(***************************************************************************)
(* Proofs about Scheduler, for every plan and every setting of the         *)
(* options: IInv is an inductive invariant, and with it type correctness   *)
(* and DependenciesFirst.                                                  *)
(***************************************************************************)
EXTENDS Scheduler, FiniteSetTheorems, TLAPS

\* The initial state has the types.
LEMMA TypeInit == Init => TypeOK
<1>1. Init => DataOK
  BY SizeAssumption, PlanTypes, OptionAssumption
     DEF Init, DataOK, Step, Pcs, States, Tasks, Results
<1>2. Init => FlagsOK
  BY Zenon DEF Init, FlagsOK
<1> QED
  BY <1>1, <1>2 DEF TypeOK

\* handle and the flags: it raises stopped and cancelled, or leaves them.
LEMMA HandleFlags ==
  ASSUME FlagsOK, NEW i, NEW r, Handle(i, r)
  PROVE  FlagsOK'
  BY Zenon DEF FlagsOK, Handle, WindDown

\* Every step of the run leaves truth values in the flags.
LEMMA FlagsStep == FlagsOK /\ [Next]_vars => FlagsOK'
<1> SUFFICES ASSUME FlagsOK, [Next]_vars PROVE FlagsOK'
  OBVIOUS
<1>1. CASE SupplyInput \/ InlineFinish \/ SelectDone
  BY <1>1, HandleFlags, Zenon DEF SupplyInput, InlineFinish, SelectDone
<1>2. CASE SupplyRoots \/ ReleaseNext \/ ReleaseDone \/ NotInline \/ PumpDone
  BY <1>2, Zenon DEF FlagsOK, SupplyRoots, ReleaseNext, ReleaseDone, NotInline, PumpDone,
                     execVars, ctxVars
<1>3. CASE Begin
  BY <1>3, Zenon DEF FlagsOK, Begin, ctxVars
<1>4. CASE InlineStart \/ PumpLaunch \/ SelectSlot
  BY <1>3, <1>4, Zenon DEF InlineStart, PumpLaunch, SelectSlot, Launch
<1>5. CASE SelectCaller
  BY <1>5, Zenon DEF FlagsOK, SelectCaller, WindDown
<1>6. CASE SelectAbandon \/ LoopEnds
  BY <1>6, Zenon DEF FlagsOK, SelectAbandon, LoopEnds, Finalize, Failed
<1>7. ASSUME NEW i \in Step, NodeReturns(i) \/ NodeWrites(i) \/ StepTask(i)
      PROVE  FlagsOK'
  BY <1>7, Zenon DEF FlagsOK, NodeReturns, NodeWrites, StepTask, BackoffElapses,
                     BackoffCancelled, ReleaseSlot, coordVars, execVars, ctxVars
<1>8. CASE CallerGivesUp \/ TimerFires \/ OtherTakes \/ OtherReturns
  BY <1>8, Zenon DEF FlagsOK, CallerGivesUp, TimerFires, OtherTakes, OtherReturns,
                     coordVars, execVars, ctxVars
<1>9. CASE AllGone \/ UNCHANGED vars
  BY <1>9, Zenon DEF FlagsOK, AllGone, vars, coordVars, execVars, ctxVars
<1> QED
  BY <1>1, <1>2, <1>4, <1>5, <1>6, <1>7, <1>8, <1>9 DEF Next, Coordinator

\* Recording a completion keeps the types of everything handle writes.
LEMMA HandleTypes ==
  ASSUME DataOK, NEW i \in Step, NEW r \in Results, Handle(i, r)
  PROVE  /\ pc' \in Pcs /\ cursor' \in Nat \X Nat
         /\ unmet' = unmet /\ ready' = ready
         /\ state' \in [Step -> States]
         /\ failedStep' \in -1 .. N - 1
         /\ abandoned' = abandoned /\ mutations' = mutations
         /\ timer' \in {"off", "armed", "fired"}
         /\ taken' \subseteq Step /\ snapshot' \in [Step -> Contents]
         /\ content' = content /\ written' = written
<1>1. /\ taken' \subseteq Step /\ snapshot' \in [Step -> Contents]
      /\ content' = content /\ written' = written
  <2>1. /\ taken \subseteq Step /\ memory \in [Step -> Step]
        /\ snapshot \in [Step -> Contents] /\ content \in [Step -> Contents]
    BY DEF DataOK
  <2>2. memory[i] \in Step
    BY <2>1
  <2>3. content[memory[i]] \in Contents
    BY <2>1, <2>2
  <2>4. GuardRecord(i, r)
    BY DEF Handle
  <2> QED
    BY <2>1, <2>3, <2>4 DEF GuardRecord
<1>2. failedStep' \in -1 .. N - 1 /\ timer' \in {"off", "armed", "fired"}
  <2>1. /\ failedStep' \in {i, failedStep}
        /\ timer' = timer \/ timer' = "armed"
    BY DEF Handle, WindDown
  <2>2. i \in -1 .. N - 1 /\ failedStep \in -1 .. N - 1
    BY SizeAssumption DEF DataOK, Step
  <2>3. timer \in {"off", "armed", "fired"}
    BY DEF DataOK
  <2> QED
    BY <2>1, <2>2, <2>3
<1>3. pc' \in Pcs /\ cursor' \in Nat \X Nat
  <2>1. cursor \in Nat \X Nat /\ i \in Nat
    BY SizeAssumption DEF DataOK, Step
  <2>2. /\ pc' \in {Resume(i), "release"}
        /\ cursor' = cursor \/ cursor' = <<i, 1>>
    BY DEF Handle
  <2> QED
    BY <2>1, <2>2 DEF Resume, Pcs
<1>4. state' \in [Step -> States]
  BY DEF DataOK, Handle, Recorded, Results, States
<1> QED
  BY <1>1, <1>2, <1>3, <1>4 DEF Handle

\* Every step of the run preserves the types of the data.
LEMMA DataStep == IInv /\ [Next]_vars => DataOK'
<1> SUFFICES ASSUME IInv, [Next]_vars PROVE DataOK'
  OBVIOUS
<1> USE SizeAssumption, PlanTypes, OptionAssumption
<1>t. DataOK
  BY DEF IInv, TypeOK
<1> USE <1>t
<1>1. CASE SupplyInput
  <2>1. PICK r \in {"ok", "failed"} : Handle(Inputs[fed + 1], r)
    BY <1>1 DEF SupplyInput
  <2>2. Inputs[fed + 1] \in Step
    BY <1>1 DEF SupplyInput, DataOK
  <2>3. QED
    <3>1. r \in Results
      BY DEF Results
    <3>2. fed' \in 0 .. Len(Inputs)
      BY <1>1 DEF SupplyInput, DataOK
    <3>3. UNCHANGED <<launched, inflight, task, attempt, outcome, memory, result, done, held, others>>
      BY <1>1 DEF SupplyInput, taskVars, poolVars
    <3>4. QED
      BY <2>1, <2>2, <3>1, <3>2, <3>3, HandleTypes DEF DataOK
<1>2. CASE SupplyRoots
  BY <1>2 DEF SupplyRoots, DataOK, Pcs, execVars, taskVars, ctxVars, poolVars, guardVars
<1>3. CASE ReleaseNext
  <2>1. cursor[1] \in Step /\ cursor[2] \in 1 .. Len(Dependents[cursor[1]])
    BY <1>3 DEF ReleaseNext, IInv, CountInv, DataOK
  <2>2. Target(cursor) \in Step
    BY <2>1 DEF Target
  <2>3. QED
    <3>1. unmet' \in [Step -> Int]
      <4>1. unmet' = [unmet EXCEPT ![Target(cursor)] = unmet[Target(cursor)] - 1]
        BY <1>3 DEF ReleaseNext
      <4>2. unmet \in [Step -> Int]
        BY DEF DataOK
      <4>3. QED
        BY <2>2, <4>1, <4>2
    <3>2. Append(ready, Target(cursor)) \in Seq(Step) /\ Len(Append(ready, Target(cursor))) = Len(ready) + 1
      BY <2>2 DEF DataOK
    <3>3. ready' \in Seq(Step) /\ launched' \in 0 .. Len(ready')
      BY <1>3, <3>2 DEF ReleaseNext, DataOK
    <3>4. cursor' \in Nat \X Nat
      <4>1. cursor' = <<cursor[1], cursor[2] + 1>>
        BY <1>3 DEF ReleaseNext
      <4>2. cursor[1] \in Nat /\ cursor[2] \in Nat
        BY DEF DataOK
      <4>3. QED
        BY <4>1, <4>2
    <3>5. QED
      BY <1>3, <3>1, <3>3, <3>4
         DEF ReleaseNext, DataOK, execVars, taskVars, ctxVars, poolVars, guardVars
<1>4. CASE ReleaseDone
  BY <1>4 DEF ReleaseDone, DataOK, Resume, Pcs, execVars, taskVars, ctxVars, poolVars, guardVars
<1>b. ASSUME Begin, launched < Len(ready), pc' \in Pcs, inflight' \in Int
      PROVE  DataOK'
  <2>1. ready[launched + 1] \in Step
    BY <1>b DEF DataOK
  <2>2. QED
    <3>1. launched' \in 0 .. Len(ready') /\ held' \in Int
      BY <1>b DEF Begin, DataOK, TakeSlot
    <3>2. state' \in [Step -> States]
      BY <1>b, <2>1 DEF Begin, DataOK, States
    <3>3. task' \in [Step -> Tasks]
      BY <1>b, <2>1 DEF Begin, DataOK, Tasks
    <3>4. attempt' \in [Step -> Nat]
      BY <1>b, <2>1 DEF Begin, DataOK
    <3>5. QED
      BY <1>b, <3>1, <3>2, <3>3, <3>4 DEF Begin, DataOK, ctxVars, guardVars
<1>5. CASE InlineStart
  <2>1. launched < Len(ready)
    BY <1>5 DEF InlineStart, Solo, DataOK
  <2>2. QED
    <3>1. Begin /\ pc' \in Pcs /\ inflight' \in Int
      BY <1>5 DEF InlineStart, DataOK, Pcs
    <3>2. QED
      BY <2>1, <3>1, <1>b
<1>6. CASE InlineFinish
  <2> DEFINE i == ready[launched]
  <2>1. i \in Step
    BY <1>6 DEF InlineFinish, DataOK, IInv, QueueInv
  <2>2. result[i] \in Results
    BY SMTT(20), <1>6, <2>1 DEF InlineFinish, DataOK, IInv, StateInv
  <2>3. Handle(i, result[i]) /\ GiveSlot /\ task' = [task EXCEPT ![i] = "gone"]
    BY <1>6 DEF InlineFinish
  <2> HIDE DEF i
  <2>4. QED
    <3>1. task' \in [Step -> Tasks] /\ held' \in Int
      BY <2>1, <2>3 DEF GiveSlot, DataOK, Tasks
    <3>2. /\ pc' \in Pcs /\ cursor' \in Nat \X Nat /\ unmet' = unmet /\ ready' = ready
          /\ state' \in [Step -> States] /\ failedStep' \in -1 .. N - 1
          /\ abandoned' = abandoned /\ mutations' = mutations
          /\ timer' \in {"off", "armed", "fired"}
          /\ taken' \subseteq Step /\ snapshot' \in [Step -> Contents]
          /\ content' = content /\ written' = written
      BY <2>1, <2>2, <2>3, HandleTypes
    <3>3. UNCHANGED <<fed, launched, inflight, attempt, outcome, memory, result, done, others>>
      BY <1>6 DEF InlineFinish
    <3>4. QED
      BY <3>1, <3>2, <3>3 DEF DataOK
<1>7. CASE NotInline
  BY <1>7 DEF NotInline, DataOK, Pcs, execVars, taskVars, ctxVars, poolVars, guardVars
<1>8. CASE PumpLaunch
  <2>1. Begin /\ launched < Len(ready) /\ pc' \in Pcs /\ inflight' \in Int
    BY <1>8 DEF PumpLaunch, Launch, Startable, DataOK
  <2>2. QED
    BY <2>1, <1>b
<1>9. CASE PumpDone
  BY <1>9 DEF PumpDone, DataOK, Pcs, execVars, taskVars, ctxVars, poolVars, guardVars
<1>10. CASE SelectSlot
  <2>1. Begin /\ launched < Len(ready) /\ pc' \in Pcs /\ inflight' \in Int
    BY <1>10 DEF SelectSlot, Waiting, Launch, Startable, Pcs, DataOK
  <2>2. QED
    BY <2>1, <1>b
<1>11. CASE SelectDone
  <2>1. Head(done) \in Step /\ done' \in Seq(Step) /\ inflight' \in Int
    BY <1>11 DEF SelectDone, DataOK
  <2>2. 1 \in 1 .. Len(done) /\ Head(done) = done[1]
    BY <1>11 DEF SelectDone, DataOK
  <2>3. result[Head(done)] \in Results
    <3>1. task[Head(done)] \in {"release", "gone"}
      BY <2>2 DEF IInv, StateInv
    <3>2. result[Head(done)] # "none"
      BY <2>1, <3>1 DEF IInv, StateInv
    <3>3. QED
      BY <2>1, <3>2 DEF DataOK
  <2>4. QED
    BY <1>11, <2>1, <2>3, HandleTypes DEF SelectDone, DataOK, poolVars
<1>12. CASE SelectCaller
  BY <1>12 DEF SelectCaller, WindDown, DataOK, Pcs, taskVars, poolVars, guardVars
<1>13. ASSUME NEW g \in BOOLEAN, Finalize(g)
       PROVE  DataOK'
  <2>0. IsFiniteSet(Step)
    BY FS_Interval DEF Step
  <2>1. IsFiniteSet({i \in Step : g /\ state[i] = "running"})
    BY <2>0, FS_Subset
  <2>2. Cardinality({i \in Step : g /\ state[i] = "running"}) \in Nat
    BY <2>1, FS_CardinalityType
  <2>3. state' \in [Step -> States]
    BY <1>13 DEF Finalize, DataOK, States
  <2>4. abandoned' \in Nat
    BY <1>13, <2>2 DEF Finalize, DataOK
  <2>5. QED
    BY <1>13, <2>3, <2>4 DEF Finalize, GuardCheck, DataOK, Pcs, Failed, taskVars, poolVars, guardVars
<1>14. CASE SelectAbandon
  BY <1>14, <1>13 DEF SelectAbandon
<1>15. CASE LoopEnds
  BY <1>15, <1>13 DEF LoopEnds
<1>c. ASSUME NEW i \in Step, NEW r \in Results, Complete(i, r)
      PROVE  /\ result' \in [Step -> Results \cup {"none"}]
             /\ task' \in [Step -> Tasks]
             /\ done' \in Seq(Step) /\ attempt' = attempt
  <2>1. Append(done, i) \in Seq(Step)
    BY DEF DataOK
  <2>2. done' \in Seq(Step)
    BY <1>c, <2>1 DEF Complete, DataOK
  <2>3. task' \in [Step -> Tasks]
    BY <1>c DEF Complete, DataOK, Tasks
  <2>4. result' \in [Step -> Results \cup {"none"}]
    BY <1>c DEF Complete, DataOK
  <2>5. QED
    BY <1>c, <2>2, <2>3, <2>4 DEF Complete
<1>16. ASSUME NEW i \in Step, NodeReturns(i)
       PROVE  DataOK'
  <2>0. PICK o \in Outcomes :
           /\ outcome' = [outcome EXCEPT ![i] = o]
           /\ \E m \in Returnable(i, o) : memory' = [memory EXCEPT ![i] = m]
           /\ IF o = "transient" /\ attempt[i] < MaxAttempts[i]
                THEN task' = [task EXCEPT ![i] = "wait"] /\ UNCHANGED <<attempt, result, done>>
                ELSE Complete(i, IF o = "transient" THEN "failed" ELSE o)
    BY <1>16 DEF NodeReturns
  <2>1. PICK m \in Returnable(i, o) : memory' = [memory EXCEPT ![i] = m]
    BY <2>0
  <2>2. /\ result' \in [Step -> Results \cup {"none"}]
        /\ task' \in [Step -> Tasks]
        /\ done' \in Seq(Step) /\ attempt' = attempt
    <3>1. CASE o = "transient" /\ attempt[i] < MaxAttempts[i]
      <4>1. task' = [task EXCEPT ![i] = "wait"] /\ UNCHANGED <<attempt, result, done>>
        BY <2>0, <3>1
      <4>2. /\ task \in [Step -> Tasks] /\ result \in [Step -> Results \cup {"none"}]
            /\ done \in Seq(Step)
        BY DEF DataOK
      <4> QED
        BY <4>1, <4>2 DEF Tasks
    <3>2. CASE ~ (o = "transient" /\ attempt[i] < MaxAttempts[i])
      BY <2>0, <3>2, <1>c DEF Outcomes, Results
    <3>3. QED
      BY <3>1, <3>2
  <2>3. outcome' \in [Step -> Outcomes \cup {"none"}]
    BY <2>0 DEF DataOK
  <2>4. memory' \in [Step -> Step]
    <3>1. memory \in [Step -> Step]
      BY DEF DataOK
    <3>2. \A p \in 1 .. Len(Deps[i]) : Deps[i][p] \in Step
      OBVIOUS
    <3>3. m \in Step
      BY <2>1, <3>1, <3>2 DEF Returnable
    <3> QED
      BY <2>1, <3>1, <3>3
  <2>5. QED
    BY <1>16, <2>2, <2>3, <2>4 DEF NodeReturns, DataOK, coordVars, execVars, ctxVars, poolVars, guardVars
<1>17. ASSUME NEW i \in Step, NodeWrites(i)
       PROVE  DataOK'
  <2>1. PICK p \in 1 .. Len(Deps[i]), c \in Contents :
           /\ content' = [content EXCEPT ![memory[Deps[i][p]]] = c]
           /\ written' = written \cup {memory[Deps[i][p]]}
    BY <1>17 DEF NodeWrites
  <2>2. memory[Deps[i][p]] \in Step
    <3>1. Deps[i][p] \in Step
      OBVIOUS
    <3>2. memory \in [Step -> Step]
      BY DEF DataOK
    <3> QED
      BY <3>1, <3>2
  <2>3. content' \in [Step -> Contents] /\ written' \subseteq Step
    BY <2>1, <2>2 DEF DataOK
  <2>4. QED
    BY <1>17, <2>3 DEF NodeWrites, DataOK, coordVars, execVars, taskVars, ctxVars, poolVars
<1>18. ASSUME NEW i \in Step, StepTask(i)
       PROVE  DataOK'
  <2>1. CASE BackoffElapses(i)
    <3>1. task' \in [Step -> Tasks] /\ attempt' \in [Step -> Nat]
      <4>1. task \in [Step -> Tasks] /\ attempt \in [Step -> Nat]
        BY DEF DataOK
      <4> QED
        BY <2>1, <4>1 DEF BackoffElapses, Tasks
    <3> QED
      BY <2>1, <3>1 DEF BackoffElapses, DataOK, coordVars, execVars, ctxVars, poolVars, guardVars
  <2>2. CASE BackoffCancelled(i)
    BY <2>2, <1>c DEF BackoffCancelled, Results, DataOK, coordVars, execVars, ctxVars, poolVars, guardVars
  <2>3. CASE ReleaseSlot(i)
    <3>1. task' \in [Step -> Tasks] /\ held' \in Int
      BY <2>3 DEF ReleaseSlot, GiveSlot, DataOK, Tasks
    <3>2. QED
      BY <2>3, <3>1 DEF ReleaseSlot, DataOK, coordVars, execVars, ctxVars, guardVars
  <2>4. QED
    BY <1>18, <2>1, <2>2, <2>3 DEF StepTask
<1>19. CASE CallerGivesUp
  BY <1>19 DEF CallerGivesUp, DataOK, coordVars, execVars, taskVars, poolVars, guardVars
<1>20. CASE TimerFires
  BY <1>20 DEF TimerFires, DataOK, coordVars, execVars, taskVars, poolVars, guardVars
<1>21. CASE OtherTakes
  BY <1>21 DEF OtherTakes, TakeSlot, DataOK, coordVars, execVars, taskVars, ctxVars, guardVars
<1>22. CASE OtherReturns
  BY <1>22 DEF OtherReturns, GiveSlot, DataOK, coordVars, execVars, taskVars, ctxVars, guardVars
<1>23. CASE AllGone \/ UNCHANGED vars
  BY <1>23 DEF AllGone, vars, DataOK, coordVars, execVars, taskVars, ctxVars, poolVars, guardVars
<1> QED
  BY <1>1, <1>2, <1>3, <1>4, <1>5, <1>6, <1>7, <1>8, <1>9, <1>10, <1>11, <1>12, <1>14, <1>15,
     <1>16, <1>17, <1>18, <1>19, <1>20, <1>21, <1>22, <1>23 DEF Next, Coordinator

-----------------------------------------------------------------------------
(* Counting dependencies down.                                             *)

\* A plan has finitely many steps.
LEMMA StepFinite == IsFiniteSet(Step)
  BY FS_Interval, SizeAssumption DEF Step

\* The reverse edges of a plan, all Dependents lists together, are finite.
LEMMA EdgesFinite == IsFiniteSet(Edges)
<1> DEFINE fan == [i \in Step |-> {i} \X (1 .. Len(Dependents[i]))]
           fans == {{i} \X (1 .. Len(Dependents[i])) : i \in Step}
<1>1. fan \in Surjection(Step, fans)
  BY DEF Surjection
<1>2. IsFiniteSet(fans)
  BY <1>1, StepFinite, FS_Surjection
<1>3. ASSUME NEW i \in Step
      PROVE  IsFiniteSet({i} \X (1 .. Len(Dependents[i])))
  <2>1. Len(Dependents[i]) \in Int
    BY PlanTypes
  <2>2. IsFiniteSet(1 .. Len(Dependents[i]))
    BY <2>1, FS_Interval
  <2>3. QED
    BY <2>2, FS_Singleton, FS_Product
<1>4. QED
  BY <1>2, <1>3, FS_UNION DEF Edges

\* An edge is a step and a position in its Dependents, and leads to a step.
LEMMA EdgeShape ==
  ASSUME NEW e \in Edges
  PROVE  /\ e[1] \in Step /\ e[2] \in 1 .. Len(Dependents[e[1]])
         /\ e = <<e[1], e[2]>> /\ Target(e) \in Step
<1>1. PICK i \in Step : e \in {i} \X (1 .. Len(Dependents[i]))
  BY DEF Edges
<1>2. e[1] = i /\ e[2] \in 1 .. Len(Dependents[i]) /\ e = <<e[1], e[2]>>
  BY <1>1
<1>3. Dependents[i] \in Seq(Step)
  BY PlanTypes
<1>4. QED
  BY <1>2, <1>3 DEF Target

\* Every position of a Dependents list is an edge.
LEMMA EdgeIn ==
  ASSUME NEW i \in Step, NEW k \in 1 .. Len(Dependents[i])
  PROVE  <<i, k>> \in Edges
  BY DEF Edges

\* What is outstanding is finite, and nothing is outstanding iff the count is 0.
LEMMA OutstandingFinite ==
  ASSUME NEW j
  PROVE  /\ IsFiniteSet(Outstanding(j)) /\ Cardinality(Outstanding(j)) \in Nat
         /\ Cardinality(Outstanding(j)) = 0 <=> Outstanding(j) = {}
<1>1. Outstanding(j) \subseteq Edges
  BY DEF Outstanding, EdgesInto
<1>2. IsFiniteSet(Outstanding(j))
  BY <1>1, EdgesFinite, FS_Subset
<1>3. QED
  BY <1>2, FS_CardinalityType, FS_EmptySet

SameOutstanding ==
    /\ \A i \in Step : state'[i] = "succeeded" <=> state[i] = "succeeded"
    /\ pc' = "release" <=> pc = "release"
    /\ pc = "release" => cursor' = cursor

\* A step that leaves states and the release loop alone leaves what every
\* unmet counter has to count down.
LEMMA OutstandingSame ==
  ASSUME SameOutstanding, NEW j
  PROVE  Outstanding(j)' = Outstanding(j)
<1>1. \A e \in EdgesInto(j) : e[1] \in Step
  BY EdgeShape DEF EdgesInto
<1>2. QED
  BY <1>1 DEF Outstanding, SameOutstanding

\* handle settles a step that had not succeeded: outstanding edges only go,
\* and while the run has not stopped none does before the release loop.
LEMMA OutstandingHandle ==
  ASSUME DataOK, NEW i \in Step, NEW r, Handle(i, r), NEW j,
         state[i] # "succeeded", pc # "release"
  PROVE  /\ Outstanding(j)' \subseteq Outstanding(j)
         /\ ~stopped' => Outstanding(j)' = Outstanding(j)
<1>1. \A e \in EdgesInto(j) : e[1] \in Step /\ e[2] >= 1
  BY EdgeShape DEF EdgesInto
<1>2. state' = [state EXCEPT ![i] = Recorded(r)] /\ state \in [Step -> States]
  BY DEF Handle, DataOK
<1>3. Outstanding(j) = {e \in EdgesInto(j) : state[e[1]] # "succeeded"}
  BY DEF Outstanding
<1>4. Outstanding(j)' \subseteq Outstanding(j)
  <2> SUFFICES ASSUME NEW e \in EdgesInto(j), state[e[1]] = "succeeded",
                      \/ state'[e[1]] # "succeeded"
                      \/ pc' = "release" /\ e[1] = cursor'[1] /\ e[2] >= cursor'[2]
               PROVE  FALSE
    BY <1>3 DEF Outstanding
  <2>1. e[1] # i /\ state'[e[1]] = "succeeded"
    BY <1>1, <1>2
  <2>2. pc' = "release" => cursor' = <<i, 1>>
    BY DEF Handle, Resume
  <2>3. QED
    BY <2>1, <2>2
<1>5. ASSUME ~stopped', NEW e \in Outstanding(j) PROVE e \in Outstanding(j)'
  <2>1. ~stopped /\ (r # "ok" => FALSE)
    BY <1>5 DEF Handle
  <2>2. pc' = "release" /\ cursor' = <<i, 1>>
    BY <2>1 DEF Handle
  <2>3. e \in EdgesInto(j) /\ state[e[1]] # "succeeded"
    BY <1>3
  <2>4. CASE e[1] = i
    BY <2>2, <2>3, <2>4, <1>1 DEF Outstanding
  <2>5. CASE e[1] # i
    <3>1. state'[e[1]] = state[e[1]]
      BY <1>1, <1>2, <2>3, <2>5
    <3>2. QED
      BY <3>1, <2>3 DEF Outstanding
  <2>6. QED
    BY <2>4, <2>5
<1>6. QED
  BY <1>4, <1>5

\* One round of the release loop takes exactly the edge under the cursor from
\* what is outstanding, at its target and nowhere else.
LEMMA OutstandingRelease ==
  ASSUME DataOK, CountInv, ReleaseNext, NEW j
  PROVE  /\ cursor \in Edges
         /\ j = Target(cursor) => /\ cursor \in Outstanding(j)
                                  /\ Outstanding(j)' = Outstanding(j) \ {cursor}
         /\ j # Target(cursor) => Outstanding(j)' = Outstanding(j)
<1>1. /\ cursor[1] \in Step /\ cursor[2] \in 1 .. Len(Dependents[cursor[1]])
      /\ cursor = <<cursor[1], cursor[2]>> /\ pc = "release" /\ pc' = "release"
      /\ cursor' = <<cursor[1], cursor[2] + 1>> /\ state' = state
      /\ cursor[1] \in Nat /\ cursor[2] \in Nat
  BY PlanTypes DEF ReleaseNext, CountInv, DataOK, execVars
<1>2. cursor \in Edges
  BY <1>1, EdgeIn
<1>3. \A e \in EdgesInto(j) : e[1] \in Step /\ e[2] \in Nat /\ e = <<e[1], e[2]>> /\ Target(e) = j
  BY EdgeShape DEF EdgesInto
<1>4. \A e \in EdgesInto(j) : e \in Outstanding(j)' <=> e \in Outstanding(j) /\ e # cursor
  <2> TAKE e \in EdgesInto(j)
  <2>a. state[cursor[1]] = "succeeded"
    BY <1>1 DEF CountInv
  <2>1. e # cursor <=> (e[1] # cursor[1] \/ e[2] # cursor[2])
    BY <1>1, <1>3
  <2>2. e \in Outstanding(j) <=> (state[e[1]] # "succeeded" \/ (e[1] = cursor[1] /\ e[2] >= cursor[2]))
    BY <1>1 DEF Outstanding
  <2>3. e \in Outstanding(j)' <=> (state[e[1]] # "succeeded" \/ (e[1] = cursor[1] /\ e[2] >= cursor[2] + 1))
    BY <1>1 DEF Outstanding
  <2>4. e[2] \in Nat /\ cursor[2] \in Nat
    BY <1>1, <1>3
  <2>5. QED
    BY <2>a, <2>1, <2>2, <2>3, <2>4
<1>5. Outstanding(j) \subseteq EdgesInto(j) /\ Outstanding(j)' \subseteq EdgesInto(j)
  BY DEF Outstanding
<1>6. j = Target(cursor) => cursor \in Outstanding(j)
  BY <1>1, <1>2 DEF Outstanding, EdgesInto
<1>7. j # Target(cursor) => cursor \notin Outstanding(j)
  BY <1>3, <1>5
<1>8. QED
  BY <1>2, <1>4, <1>5, <1>6, <1>7

\* What a step does to the queue when it starts nothing and readies nothing.
SameQueue ==
    /\ ready' = ready /\ launched' = launched
    /\ \A i \in Step : task'[i] = "idle" <=> task[i] = "idle"
    /\ Supplying' => Supplying
    /\ pc' = "inline" => pc = "inline"

SameCount ==
    /\ SameOutstanding
    /\ unmet' = unmet
    /\ stopped => stopped'
    /\ pc = "release" /\ stopped' => stopped

\* A step that leaves the queue alone keeps QueueInv, if nothing becomes
\* outstanding that was not.
LEMMA QueueFrame ==
  ASSUME IInv, SameQueue, \A j \in Step : Outstanding(j)' \subseteq Outstanding(j)
  PROVE  QueueInv'
<1>1. /\ \A k \in 1 .. Len(ready) : ready[k] \in Step
      /\ ready' = ready /\ launched' = launched
  BY DEF SameQueue, IInv, TypeOK, DataOK
<1>2. \A a, b \in 1 .. Len(ready') : ready'[a] = ready'[b] => a = b
  BY <1>1 DEF IInv, QueueInv
<1>3. \A k \in 1 .. Len(ready') :
          /\ ready'[k] \notin InputSteps
          /\ Supplying' => ready'[k] \notin RootSteps
          /\ task'[ready'[k]] = "idle" <=> k > launched'
  BY <1>1 DEF IInv, QueueInv, SameQueue
<1>4. \A i \in Step : task'[i] # "idle" => \E k \in 1 .. Len(ready') : ready'[k] = i
  BY <1>1 DEF IInv, QueueInv, SameQueue
<1>5. pc' = "inline" => launched' >= 1
  BY <1>1 DEF IInv, QueueInv, SameQueue
<1>6. ASSUME NEW CONSTANT k \in 1 .. Len(ready), NEW CONSTANT j \in Step, ready[k] = j
      PROVE  Outstanding(j)' = {}
  BY <1>6 DEF IInv, QueueInv
<1>7. (\A k \in 1 .. Len(ready) : Outstanding(ready[k]) = {})'
  BY <1>1, <1>6 DEF Outstanding
<1> QED
  BY <1>2, <1>3, <1>4, <1>5, <1>7 DEF QueueInv

\* A step that leaves the counters and what they count alone keeps CountInv.
LEMMA CountFrame ==
  ASSUME IInv, SameCount
  PROVE  CountInv'
<1>1. \A j \in Step : Outstanding(j)' = Outstanding(j)
  BY OutstandingSame DEF SameCount
<1>2. ~stopped' => \A j \in Step : unmet'[j] = Cardinality(Outstanding(j)')
  BY <1>1 DEF SameCount, IInv, CountInv
<1>3. pc' = "release" => /\ ~stopped' /\ cursor'[1] \in Step /\ cursor'[2] >= 1
                         /\ state'[cursor'[1]] = "succeeded"
  BY DEF SameCount, SameOutstanding, IInv, CountInv
<1> QED
  BY <1>2, <1>3 DEF CountInv

\* The steps that leave the queue and the counting alone.
LEMMA QuietSteps ==
  ASSUME IInv,
         \/ NotInline \/ PumpDone \/ SelectCaller \/ SelectAbandon \/ LoopEnds
         \/ \E i \in Step : NodeReturns(i) \/ NodeWrites(i) \/ StepTask(i)
         \/ CallerGivesUp \/ TimerFires \/ OtherTakes \/ OtherReturns
         \/ AllGone \/ UNCHANGED vars
  PROVE  SameQueue /\ SameCount
<1>t. task \in [Step -> Tasks] /\ state \in [Step -> States]
  BY DEF IInv, TypeOK, DataOK
<1>1. CASE NotInline \/ PumpDone
  BY <1>1 DEF NotInline, PumpDone, SameQueue, SameCount, SameOutstanding, Supplying,
              execVars, taskVars
<1>2. CASE SelectCaller
  BY <1>2 DEF SelectCaller, SameQueue, SameCount, SameOutstanding, Supplying, taskVars
<1>3. ASSUME NEW g \in BOOLEAN, Finalize(g), pc = "select"
      PROVE  SameQueue /\ SameCount
  <2>1. \A i \in Step : state'[i] = "succeeded" <=> state[i] = "succeeded"
    BY <1>3, <1>t DEF Finalize
  <2>2. QED
    BY <1>3, <2>1 DEF Finalize, SameQueue, SameCount, SameOutstanding, Supplying, taskVars
<1>4. CASE SelectAbandon \/ LoopEnds
  BY <1>3, <1>4 DEF SelectAbandon, LoopEnds
<1>5. ASSUME NEW i \in Step, NEW t \in Tasks \ {"idle"}, task[i] # "idle",
             task' = [task EXCEPT ![i] = t], UNCHANGED <<coordVars, execVars>>
      PROVE  SameQueue /\ SameCount
  <2>1. \A k \in Step : task'[k] = "idle" <=> task[k] = "idle"
    BY <1>5, <1>t
  <2>2. QED
    BY <1>5, <2>1 DEF SameQueue, SameCount, SameOutstanding, Supplying, coordVars, execVars
<1>6. ASSUME NEW i \in Step, NodeReturns(i) \/ StepTask(i)
      PROVE  SameQueue /\ SameCount
  <2>1. UNCHANGED <<coordVars, execVars>> /\ task[i] # "idle"
    BY <1>6 DEF NodeReturns, StepTask, BackoffElapses, BackoffCancelled, ReleaseSlot
  <2>2. \E t \in Tasks \ {"idle"} : task' = [task EXCEPT ![i] = t]
    <3>1. ASSUME NEW r, Complete(i, r)
          PROVE  \E t \in Tasks \ {"idle"} : task' = [task EXCEPT ![i] = t]
      BY <3>1 DEF Complete, Tasks
    <3>2. CASE NodeReturns(i)
      <4>1. PICK o \in Outcomes :
               IF o = "transient" /\ attempt[i] < MaxAttempts[i]
                 THEN task' = [task EXCEPT ![i] = "wait"] /\ UNCHANGED <<attempt, result, done>>
                 ELSE Complete(i, IF o = "transient" THEN "failed" ELSE o)
        BY <3>2 DEF NodeReturns
      <4>2. QED
        BY <3>1, <4>1 DEF Tasks
    <3>3. CASE StepTask(i)
      BY <3>1, <3>3 DEF StepTask, BackoffElapses, BackoffCancelled, ReleaseSlot, Tasks
    <3>4. QED
      BY <1>6, <3>2, <3>3
  <2>3. QED
    BY <1>5, <2>1, <2>2
<1>7. CASE UNCHANGED <<coordVars, execVars, taskVars>>
  BY <1>7 DEF SameQueue, SameCount, SameOutstanding, Supplying, coordVars, execVars, taskVars
<1>8. ASSUME \/ \E i \in Step : NodeWrites(i)
             \/ CallerGivesUp \/ TimerFires \/ OtherTakes \/ OtherReturns
             \/ AllGone \/ UNCHANGED vars
      PROVE  UNCHANGED <<coordVars, execVars, taskVars>>
  BY <1>8 DEF NodeWrites, CallerGivesUp, TimerFires, OtherTakes, OtherReturns, AllGone, vars
<1> QED
  BY <1>1, <1>2, <1>4, <1>6, <1>7, <1>8

\* What the three callers of handle have in common.
Handles(i, r) ==
    /\ Handle(i, r)
    /\ state[i] # "succeeded"
    /\ pc \in {"supply", "inline", "select"}
    /\ i \in InputSteps => pc = "supply"
    /\ launched' = launched
    /\ \A k \in Step : task'[k] = "idle" <=> task[k] = "idle"

\* The three callers of handle: supplyInputs, tryInline and the done arm of
\* loop's select pass it a step that has not succeeded.
LEMMA HandleSteps ==
  ASSUME IInv, SupplyInput \/ InlineFinish \/ SelectDone
  PROVE  \E i \in Step, r \in Results : Handles(i, r)
<1>t. DataOK
  BY DEF IInv, TypeOK
<1>n. ASSUME NEW i \in Step, task[i] # "idle" PROVE i \notin InputSteps
  BY <1>n DEF IInv, QueueInv
<1>1. CASE SupplyInput
  <2>1. PICK r \in {"ok", "failed"} : Handle(Inputs[fed + 1], r)
    BY <1>1 DEF SupplyInput
  <2>2. Inputs[fed + 1] \in Step /\ fed + 1 \in 1 .. Len(Inputs) /\ fed + 1 > fed
    <3>1. fed \in 0 .. Len(Inputs) /\ fed < Len(Inputs) /\ Inputs \in Seq(Step)
      BY <1>1, <1>t, PlanTypes DEF SupplyInput, DataOK
    <3>2. QED
      BY <3>1
  <2>3. state[Inputs[fed + 1]] = "pending"
    BY <1>1, <2>2 DEF SupplyInput, IInv, StateInv
  <2>4. Handles(Inputs[fed + 1], r)
    <3>1. pc = "supply" /\ launched' = launched /\ task' = task
      BY <1>1 DEF SupplyInput, taskVars
    <3>2. QED
      BY <2>1, <2>3, <3>1 DEF Handles
  <2>5. QED
    BY <2>2, <2>4 DEF Results
<1>2. CASE InlineFinish
  <2> DEFINE i == ready[launched]
  <2>1. i \in Step
    BY <1>2, <1>t DEF InlineFinish, DataOK, IInv, QueueInv
  <2>2. task[i] = "inlined" /\ Handle(i, result[i]) /\ task' = [task EXCEPT ![i] = "gone"]
        /\ pc = "inline" /\ launched' = launched
    BY <1>2 DEF InlineFinish
  <2> HIDE DEF i
  <2>3. result[i] \in Results /\ state[i] = "running"
    BY <1>t, <2>1, <2>2 DEF DataOK, IInv, StateInv
  <2>4. Handles(i, result[i])
    BY <1>t, <1>n, <2>1, <2>2, <2>3 DEF Handles, DataOK
  <2>5. QED
    BY <2>1, <2>3, <2>4
<1>3. CASE SelectDone
  <2> DEFINE i == Head(done)
  <2>1. i \in Step /\ 1 \in 1 .. Len(done) /\ i = done[1]
    BY <1>3, <1>t DEF SelectDone, DataOK
  <2>2. Handle(i, result[i]) /\ pc = "select" /\ launched' = launched /\ task' = task
    BY <1>3 DEF SelectDone
  <2> HIDE DEF i
  <2>3. task[i] \in {"release", "gone"} /\ state[i] = "running"
    BY <2>1, <2>2 DEF IInv, StateInv
  <2>4. result[i] \in Results
    BY <1>t, <2>1, <2>3 DEF DataOK, IInv, StateInv
  <2>5. Handles(i, result[i])
    BY <1>n, <2>1, <2>2, <2>3 DEF Handles
  <2>6. QED
    BY <2>1, <2>4, <2>5
<1> QED
  BY <1>1, <1>2, <1>3

\* The step a launch starts is pending, idle and no input.
LEMMA StartedStep ==
  ASSUME IInv, launched < Len(ready), pc # "returned"
  PROVE  /\ launched + 1 \in 1 .. Len(ready)
         /\ ready[launched + 1] \in Step \ InputSteps
         /\ task[ready[launched + 1]] = "idle"
         /\ state[ready[launched + 1]] = "pending"
<1>1. launched \in 0 .. Len(ready) /\ ready \in Seq(Step)
  BY DEF IInv, TypeOK, DataOK
<1>2. launched + 1 \in 1 .. Len(ready) /\ launched + 1 > launched
  BY <1>1
<1>3. ready[launched + 1] \in Step
  BY <1>1, <1>2
<1>4. task[ready[launched + 1]] = "idle" /\ ready[launched + 1] \notin InputSteps
  BY <1>2 DEF IInv, QueueInv
<1>5. state[ready[launched + 1]] = "pending"
  BY <1>3, <1>4 DEF IInv, StateInv
<1> QED
  BY <1>2, <1>3, <1>4, <1>5

\* The three ways to start a step.
LEMMA StartSteps ==
  ASSUME IInv, InlineStart \/ PumpLaunch \/ SelectSlot
  PROVE  /\ Begin /\ launched < Len(ready)
         /\ pc \in {"loop", "pump", "select"} /\ pc' \in {"inline", "pump", "loop"}
<1>1. launched \in 0 .. Len(ready) /\ Len(ready) \in Nat
  BY DEF IInv, TypeOK, DataOK
<1> QED
  BY <1>1 DEF InlineStart, Solo, PumpLaunch, SelectSlot, Launch, Startable, Waiting

\* Starting a step moves it from pending to running: nothing was counted.
LEMMA StartCount ==
  ASSUME IInv, InlineStart \/ PumpLaunch \/ SelectSlot
  PROVE  SameCount
<1> DEFINE i == ready[launched + 1]
<1>1. /\ Begin /\ launched < Len(ready)
      /\ pc \in {"loop", "pump", "select"} /\ pc' \in {"inline", "pump", "loop"}
  BY StartSteps
<1>2. state' = [state EXCEPT ![i] = "running"] /\ unmet' = unmet /\ stopped' = stopped
  BY <1>1 DEF Begin
<1>3. i \in Step /\ state[i] = "pending"
  BY <1>1, StartedStep
<1>4. state \in [Step -> States]
  BY DEF IInv, TypeOK, DataOK
<1> HIDE DEF i
<1>5. \A k \in Step : state'[k] = "succeeded" <=> state[k] = "succeeded"
  BY <1>2, <1>3, <1>4
<1> QED
  BY <1>1, <1>2, <1>5 DEF SameCount, SameOutstanding

\* Starting a step moves the launch cursor over it, and over nothing else.
LEMMA StartQueue ==
  ASSUME IInv, InlineStart \/ PumpLaunch \/ SelectSlot
  PROVE  QueueInv'
<1> DEFINE i == ready[launched + 1]
<1>1. /\ Begin /\ launched < Len(ready)
      /\ pc \in {"loop", "pump", "select"} /\ pc' \in {"inline", "pump", "loop"}
  BY StartSteps
<1>2. /\ task' = [task EXCEPT ![i] = "invoke"] /\ ready' = ready
      /\ launched' = launched + 1
  BY <1>1 DEF Begin
<1>3. i \in Step /\ launched + 1 \in 1 .. Len(ready) /\ task[i] = "idle"
  BY <1>1, StartedStep
<1>4. /\ task \in [Step -> Tasks] /\ launched \in Nat
      /\ \A k \in 1 .. Len(ready) : ready[k] \in Step /\ k \in Nat
  BY DEF IInv, TypeOK, DataOK
<1>5. \A j \in Step : Outstanding(j)' = Outstanding(j)
  BY StartCount, OutstandingSame DEF SameCount
<1>6. \A a, b \in 1 .. Len(ready') : ready'[a] = ready'[b] => a = b
  BY <1>2 DEF IInv, QueueInv
<1>7. \A k \in 1 .. Len(ready') : ready'[k] = i <=> k = launched + 1
  BY <1>2, <1>3 DEF IInv, QueueInv
<1>8. ASSUME NEW k \in 1 .. Len(ready)
      PROVE  task'[ready[k]] = "idle" <=> k > launched + 1
  <2>1. task[ready[k]] = "idle" <=> k > launched
    BY DEF IInv, QueueInv
  <2>2. CASE k = launched + 1
    BY <1>2, <1>3, <1>4, <2>2
  <2>3. CASE k # launched + 1
    <3>1. ready[k] # i /\ ready[k] \in Step
      BY <1>2, <1>4, <1>7, <2>3
    <3>2. task'[ready[k]] = task[ready[k]]
      BY <1>2, <1>4, <3>1
    <3>3. QED
      BY <1>4, <2>1, <2>3, <3>2
  <2>4. QED
    BY <2>2, <2>3
<1>9. \A j \in Step : task'[j] # "idle" => \E k \in 1 .. Len(ready') : ready'[k] = j
  <2> TAKE j \in Step
  <2>1. CASE j = i
    BY <1>2, <1>3, <2>1
  <2>2. CASE j # i
    <3>1. task'[j] = task[j]
      BY <1>2, <1>4, <2>2
    <3>2. QED
      BY <1>2, <3>1 DEF IInv, QueueInv
  <2>3. QED
    BY <2>1, <2>2
<1>10. ~Supplying'
  BY <1>1 DEF Supplying
<1>11. ASSUME NEW CONSTANT k \in 1 .. Len(ready), NEW CONSTANT j \in Step, ready[k] = j
       PROVE  Outstanding(j)' = {}
  BY <1>5, <1>11 DEF IInv, QueueInv
<1>12. (\A k \in 1 .. Len(ready) : Outstanding(ready[k]) = {})'
  BY <1>2, <1>4, <1>11 DEF Outstanding
<1>13. \A k \in 1 .. Len(ready') : ready'[k] \notin InputSteps /\ (task'[ready'[k]] = "idle" <=> k > launched')
  BY <1>2, <1>8 DEF IInv, QueueInv
<1>14. launched' >= 1
  BY <1>2, <1>4
<1> QED
  BY <1>6, <1>9, <1>10, <1>12, <1>13, <1>14 DEF QueueInv

\* A step with an edge into it is neither an input nor a root, and the other way
\* round.
LEMMA Sources ==
  ASSUME NEW j \in Step
  PROVE  j \in InputSteps \cup RootSteps <=> EdgesInto(j) = {}
<1>1. EdgesInto(j) \subseteq Edges
  BY DEF EdgesInto
<1>2. IsFiniteSet(EdgesInto(j))
  BY <1>1, EdgesFinite, FS_Subset
<1>3. Cardinality(EdgesInto(j)) = 0 <=> EdgesInto(j) = {}
  BY <1>2, FS_EmptySet
<1>4. Len(Deps[j]) = 0 <=> Deps[j] = <<>>
  BY PlanTypes
<1> QED
  BY <1>3, <1>4, PlanLayout

\* supplyInputs appends the roots: they are new to the queue.
LEMMA RootsQueue ==
  ASSUME IInv, SupplyRoots
  PROVE  SameCount /\ QueueInv'
<1>1. /\ pc = "supply" /\ pc' = "loop" /\ ready' = ready \o Roots
      /\ UNCHANGED <<unmet, launched, stopped, state, task>>
  BY DEF SupplyRoots, execVars, taskVars
<1>2. SameCount
  BY <1>1 DEF SameCount, SameOutstanding
<1>3. /\ ready \in Seq(Step) /\ Roots \in Seq(Step) /\ launched \in 0 .. Len(ready)
  BY PlanTypes DEF IInv, TypeOK, DataOK
<1>4. Len(ready') = Len(ready) + Len(Roots) /\ ready' \in Seq(Step)
  BY <1>1, <1>3
<1>5. \A k \in 1 .. Len(ready') :
         /\ k <= Len(ready) => k \in 1 .. Len(ready) /\ ready'[k] = ready[k]
         /\ k > Len(ready) => k - Len(ready) \in 1 .. Len(Roots) /\ ready'[k] = Roots[k - Len(ready)]
  BY <1>1, <1>3, <1>4
<1>6. \A k \in 1 .. Len(ready) : ready[k] \notin RootSteps
  BY <1>1 DEF IInv, QueueInv, Supplying
<1>7. \A k \in 1 .. Len(Roots) : Roots[k] \in RootSteps /\ Roots[k] \in Step
  BY <1>3 DEF RootSteps
<1>8. \A a, b \in 1 .. Len(ready') : ready'[a] = ready'[b] => a = b
  <2> TAKE a, b \in 1 .. Len(ready')
  <2>1. CASE a <= Len(ready) /\ b <= Len(ready)
    BY <1>5, <2>1 DEF IInv, QueueInv
  <2>2. CASE a > Len(ready) /\ b > Len(ready)
    <3>0. a - Len(ready) \in 1 .. Len(Roots) /\ b - Len(ready) \in 1 .. Len(Roots)
      BY <1>5, <2>2
    <3>1. Roots[a - Len(ready)] = Roots[b - Len(ready)] => a - Len(ready) = b - Len(ready)
      BY <3>0, PlanLayout
    <3>2. ready'[a] = Roots[a - Len(ready)] /\ ready'[b] = Roots[b - Len(ready)]
      BY <1>5, <2>2
    <3>3. a \in Int /\ b \in Int /\ Len(ready) \in Int
      BY <1>3
    <3>4. QED
      BY <3>1, <3>2, <3>3
  <2>3. CASE a <= Len(ready) /\ b > Len(ready)
    BY <1>5, <1>6, <1>7, <2>3
  <2>4. CASE a > Len(ready) /\ b <= Len(ready)
    BY <1>5, <1>6, <1>7, <2>4
  <2>5. QED
    BY <1>3, <2>1, <2>2, <2>3, <2>4
<1>9. \A j \in RootSteps : j \in Step /\ j \notin InputSteps /\ EdgesInto(j) = {} /\ task[j] = "idle"
  <2> TAKE j \in RootSteps
  <2>1. j \in Step
    BY <1>3 DEF RootSteps
  <2>2. EdgesInto(j) = {} /\ j \notin InputSteps
    BY <2>1, Sources, PlanLayout
  <2>3. task[j] = "idle"
    BY <1>6, <2>1 DEF IInv, QueueInv
  <2>4. QED
    BY <2>1, <2>2, <2>3
<1>10. \A k \in 1 .. Len(ready') :
          ready'[k] \notin InputSteps /\ (task'[ready'[k]] = "idle" <=> k > launched')
  <2> TAKE k \in 1 .. Len(ready')
  <2>1. CASE k <= Len(ready)
    BY <1>1, <1>5, <2>1 DEF IInv, QueueInv
  <2>2. CASE k > Len(ready)
    <3>1. ready'[k] \in RootSteps
      BY <1>5, <1>7, <2>2
    <3>2. k > launched
      BY <1>3, <2>2
    <3>3. QED
      BY <1>1, <1>9, <3>1, <3>2
  <2>3. QED
    BY <1>3, <2>1, <2>2
<1>11. \A j \in Step : task'[j] # "idle" => \E k \in 1 .. Len(ready') : ready'[k] = j
  <2> SUFFICES ASSUME NEW j \in Step, task[j] # "idle"
               PROVE  \E k \in 1 .. Len(ready') : ready'[k] = j
    BY <1>1
  <2>1. PICK k \in 1 .. Len(ready) : ready[k] = j
    BY DEF IInv, QueueInv
  <2>2. k \in 1 .. Len(ready') /\ ready'[k] = j
    BY <1>3, <1>4, <1>5, <2>1
  <2>3. QED
    BY <2>2
<1>12. ASSUME NEW CONSTANT k \in 1 .. Len(ready'), NEW CONSTANT j \in Step, ready'[k] = j
       PROVE  Outstanding(j)' = {}
  <2>1. CASE k <= Len(ready)
    <3>1. Outstanding(j) = {}
      BY <1>5, <1>12, <2>1 DEF IInv, QueueInv
    <3>2. QED
      BY <1>2, <3>1, OutstandingSame DEF SameCount
  <2>2. CASE k > Len(ready)
    <3>1. EdgesInto(j) = {}
      BY <1>5, <1>7, <1>9, <1>12, <2>2
    <3>2. QED
      BY <3>1 DEF Outstanding
  <2>3. QED
    BY <1>3, <2>1, <2>2
<1>13. (\A k \in 1 .. Len(ready) : Outstanding(ready[k]) = {})'
  <2>1. \A k \in 1 .. Len(ready') : ready'[k] \in Step
    BY <1>4
  <2>2. QED
    BY <1>12, <2>1 DEF Outstanding
<1>14. ~Supplying' /\ pc' # "inline"
  BY <1>1 DEF Supplying
<1> QED
  BY <1>2, <1>8, <1>10, <1>11, <1>13, <1>14 DEF QueueInv

\* The loop over the dependents: one edge is counted, and a step with nothing
\* outstanding any more joins the queue for the first time.
LEMMA ReleaseCount ==
  ASSUME IInv, ReleaseNext
  PROVE  CountInv'
<1> DEFINE d == Target(cursor)
<1>1. DataOK /\ CountInv
  BY DEF IInv, TypeOK
<1>2. cursor \in Edges /\ cursor \in Outstanding(d) /\ d \in Step
  BY <1>1, OutstandingRelease, EdgeShape
<1>3. /\ unmet' = [unmet EXCEPT ![d] = unmet[d] - 1] /\ unmet \in [Step -> Int]
      /\ pc = "release" /\ pc' = "release" /\ stopped' = stopped /\ state' = state
      /\ cursor' = <<cursor[1], cursor[2] + 1>> /\ cursor[2] \in Nat
  BY <1>1 DEF ReleaseNext, DataOK, execVars
<1> HIDE DEF d
<1>4. ~stopped /\ cursor[1] \in Step /\ cursor[2] >= 1 /\ state[cursor[1]] = "succeeded"
  BY <1>1, <1>3 DEF CountInv
<1>5. ASSUME NEW j \in Step PROVE unmet'[j] = Cardinality(Outstanding(j)')
  <2>1. unmet[j] = Cardinality(Outstanding(j))
    BY <1>1, <1>4 DEF CountInv
  <2>2. CASE j = d
    <3>1. Outstanding(j)' = Outstanding(j) \ {cursor} /\ cursor \in Outstanding(j)
      BY <1>1, <1>2, <2>2, OutstandingRelease DEF d
    <3>2. Cardinality(Outstanding(j) \ {cursor}) = Cardinality(Outstanding(j)) - 1
      BY <3>1, OutstandingFinite, FS_RemoveElement
    <3>3. QED
      BY <1>2, <1>3, <2>1, <2>2, <3>1, <3>2
  <2>3. CASE j # d
    <3>1. Outstanding(j)' = Outstanding(j)
      BY <1>1, <2>3, OutstandingRelease DEF d
    <3>2. QED
      BY <1>3, <2>1, <2>3, <3>1
  <2>4. QED
    BY <2>2, <2>3
<1>6. cursor'[1] = cursor[1] /\ cursor'[2] = cursor[2] + 1
  BY <1>3
<1> QED
  BY <1>3, <1>4, <1>5, <1>6 DEF CountInv

\* The release loop appends a dependent at most once, when its last
\* outstanding edge was counted down.
LEMMA ReleaseQueue ==
  ASSUME IInv, ReleaseNext
  PROVE  QueueInv'
<1> DEFINE d == Target(cursor)
<1>1. DataOK /\ CountInv
  BY DEF IInv, TypeOK
<1>2. cursor \in Edges /\ cursor \in Outstanding(d) /\ d \in Step
  BY <1>1, OutstandingRelease, EdgeShape
<1>3. /\ ready' = (IF unmet[d] = 1 THEN Append(ready, d) ELSE ready)
      /\ pc = "release" /\ pc' = "release" /\ launched' = launched /\ task' = task
      /\ cursor' = <<cursor[1], cursor[2] + 1>>
      /\ ready \in Seq(Step) /\ launched \in 0 .. Len(ready)
  BY <1>1 DEF ReleaseNext, DataOK, taskVars
<1>4. \A j \in Step : Outstanding(j)' \subseteq Outstanding(j)
  BY <1>1, OutstandingRelease
<1>5. Supplying' => Supplying
  BY <1>3 DEF Supplying
<1>6. d \notin InputSteps /\ d \notin RootSteps
  <2>1. EdgesInto(d) # {}
    BY <1>2 DEF Outstanding
  <2>2. QED
    BY <1>2, <2>1, Sources
<1>7. \A k \in 1 .. Len(ready) : ready[k] # d
  BY <1>2 DEF IInv, QueueInv
<1>8. task[d] = "idle"
  BY <1>2, <1>7 DEF IInv, QueueInv
<1>10. CASE unmet[d] # 1
  <2>1. SameQueue
    BY <1>3, <1>5, <1>10 DEF SameQueue
  <2>2. QED
    BY <1>4, <2>1, QueueFrame
<1>11. CASE unmet[d] = 1
  <2>1. ready' = Append(ready, d)
    BY <1>3, <1>11
  <2> HIDE DEF d
  <2>2. /\ Len(ready') = Len(ready) + 1 /\ ready' \in Seq(Step)
        /\ \A k \in 1 .. Len(ready') :
              \/ k \in 1 .. Len(ready) /\ ready'[k] = ready[k]
              \/ k = Len(ready) + 1 /\ ready'[k] = d
    BY <1>2, <1>3, <2>1
  <2>3. \A a, b \in 1 .. Len(ready') : ready'[a] = ready'[b] => a = b
    BY <1>7, <2>2 DEF IInv, QueueInv
  <2>4. ASSUME NEW k \in 1 .. Len(ready')
        PROVE  /\ ready'[k] \notin InputSteps
               /\ Supplying' => ready'[k] \notin RootSteps
               /\ task'[ready'[k]] = "idle" <=> k > launched'
    <3>1. CASE k \in 1 .. Len(ready) /\ ready'[k] = ready[k]
      BY <1>3, <1>5, <3>1 DEF IInv, QueueInv
    <3>2. CASE k = Len(ready) + 1 /\ ready'[k] = d
      <4>1. k > launched'
        BY <1>3, <3>2
      <4>2. QED
        BY <1>3, <1>6, <1>8, <3>2, <4>1
    <3>3. QED
      BY <2>2, <3>1, <3>2
  <2>5. \A j \in Step : task'[j] # "idle" => \E k \in 1 .. Len(ready') : ready'[k] = j
    <3> SUFFICES ASSUME NEW j \in Step, task[j] # "idle"
                 PROVE  \E k \in 1 .. Len(ready') : ready'[k] = j
      BY <1>3
    <3>1. PICK k \in 1 .. Len(ready) : ready[k] = j
      BY DEF IInv, QueueInv
    <3>2. k \in 1 .. Len(ready') /\ ready'[k] = ready[k]
      BY <1>3, <2>1, <2>2
    <3>3. QED
      BY <3>1, <3>2
  <2>6. ASSUME NEW CONSTANT k \in 1 .. Len(ready'), NEW CONSTANT j \in Step, ready'[k] = j
        PROVE  Outstanding(j)' = {}
    <3>1. CASE k \in 1 .. Len(ready) /\ ready'[k] = ready[k]
      <4>1. Outstanding(j) = {}
        BY <2>6, <3>1 DEF IInv, QueueInv
      <4>2. QED
        BY <1>4, <4>1
    <3>2. CASE j = d
      <4>1. j = Target(cursor)
        BY <3>2 DEF d
      <4>2. /\ Outstanding(j)' = Outstanding(j) \ {cursor}
            /\ cursor \in Outstanding(j) /\ unmet[j] = 1
        BY <1>1, <1>11, <3>2, <4>1, OutstandingRelease DEF d
      <4>3. unmet[j] = Cardinality(Outstanding(j))
        BY <1>1, <1>3 DEF CountInv
      <4>4. /\ IsFiniteSet(Outstanding(j) \ {cursor})
            /\ Cardinality(Outstanding(j) \ {cursor}) = Cardinality(Outstanding(j)) - 1
        BY <4>2, OutstandingFinite, FS_RemoveElement
      <4>5. Cardinality(Outstanding(j) \ {cursor}) = 0
        BY <4>2, <4>3, <4>4
      <4>6. Outstanding(j) \ {cursor} = {}
        BY <4>4, <4>5, FS_EmptySet
      <4>7. QED
        BY <4>2, <4>6
    <3>3. QED
      BY <2>2, <2>6, <3>1, <3>2
  <2>7. (\A k \in 1 .. Len(ready) : Outstanding(ready[k]) = {})'
    <3>1. \A k \in 1 .. Len(ready') : ready'[k] \in Step
      BY <2>2
    <3>2. QED
      BY <2>6, <3>1 DEF Outstanding
  <2>8. pc' # "inline"
    BY <1>3
  <2>9. QED
    BY <2>3, <2>4, <2>5, <2>7, <2>8 DEF QueueInv
<1> QED
  BY <1>10, <1>11

\* Leaving the release loop: every dependent of the step was visited.
LEMMA ReleaseDoneCount ==
  ASSUME IInv, ReleaseDone
  PROVE  CountInv' /\ QueueInv' /\ \A j \in Step : Outstanding(j)' = Outstanding(j)
<1>1. /\ pc = "release" /\ pc' = Resume(cursor[1]) /\ cursor[1] \in Step
      /\ UNCHANGED <<unmet, ready, launched, stopped, state, task>>
      /\ cursor[2] > Len(Dependents[cursor[1]]) /\ cursor[2] \in Nat
  BY DEF ReleaseDone, IInv, CountInv, TypeOK, DataOK, execVars, taskVars
<1>2. pc' \in {"supply", "loop"} /\ (pc' = "supply" => cursor[1] \in InputSteps)
  BY <1>1 DEF Resume
<1>3. ASSUME NEW j \in Step PROVE Outstanding(j)' = Outstanding(j)
  <2>1. \A e \in EdgesInto(j) : ~ (e[1] = cursor[1] /\ e[2] >= cursor[2])
    <3> SUFFICES ASSUME NEW e \in EdgesInto(j), e[1] = cursor[1], e[2] >= cursor[2]
                 PROVE  FALSE
      OBVIOUS
    <3>1. e[2] \in 1 .. Len(Dependents[cursor[1]])
      BY EdgeShape DEF EdgesInto
    <3>2. Len(Dependents[cursor[1]]) \in Nat
      BY <1>1, PlanTypes
    <3>3. QED
      BY <1>1, <3>1, <3>2
  <2>2. QED
    BY <1>1, <1>2, <2>1 DEF Outstanding
<1>4. SameQueue
  BY <1>1, <1>2 DEF SameQueue, Supplying
<1>5. QueueInv'
  BY <1>3, <1>4, QueueFrame
<1>6. CountInv'
  <2>1. ~stopped' => \A j \in Step : unmet'[j] = Cardinality(Outstanding(j)')
    BY <1>1, <1>3 DEF IInv, CountInv
  <2>2. QED
    BY <1>2, <2>1 DEF CountInv
<1> QED
  BY <1>3, <1>5, <1>6

\* handle keeps the counters and the queue, whichever of its callers it has.
LEMMA HandlesCount ==
  ASSUME IInv, NEW i \in Step, NEW r \in Results, Handles(i, r)
  PROVE  CountInv' /\ QueueInv'
<1>1. Handle(i, r) /\ state[i] # "succeeded" /\ pc # "release" /\ DataOK
  BY DEF Handles, IInv, TypeOK
<1>2. \A j \in Step : /\ Outstanding(j)' \subseteq Outstanding(j)
                      /\ ~stopped' => Outstanding(j)' = Outstanding(j)
  BY <1>1, OutstandingHandle
<1>3. unmet' = unmet /\ ready' = ready /\ launched' = launched /\ (stopped => stopped')
  BY <1>1 DEF Handle, Handles
<1>4. pc' = "release" => cursor' = <<i, 1>> /\ ~stopped' /\ state'[i] = "succeeded"
  BY <1>1 DEF Handle, Resume, Recorded, DataOK
<1>5. pc' \in {"supply", "loop", "release"} /\ (pc' = "supply" => i \in InputSteps)
  BY <1>1 DEF Handle, Resume
<1>6. SameQueue
  BY <1>3, <1>4, <1>5 DEF SameQueue, Supplying, Handles
<1>7. QueueInv'
  BY <1>2, <1>6, QueueFrame
<1>8. ~stopped' => \A j \in Step : unmet'[j] = Cardinality(Outstanding(j)')
  BY <1>2, <1>3 DEF IInv, CountInv
<1>9. CountInv'
  BY <1>4, <1>8 DEF CountInv
<1> QED
  BY <1>7, <1>9

\* Every step of the run preserves the counting and the queue.
LEMMA CountStep == IInv /\ [Next]_vars => CountInv' /\ QueueInv'
<1> SUFFICES ASSUME IInv, [Next]_vars PROVE CountInv' /\ QueueInv'
  OBVIOUS
<1>1. CASE SupplyInput \/ InlineFinish \/ SelectDone
  BY <1>1, HandleSteps, HandlesCount
<1>2. CASE SupplyRoots
  BY <1>2, RootsQueue, CountFrame
<1>3. CASE ReleaseNext
  BY <1>3, ReleaseCount, ReleaseQueue
<1>4. CASE ReleaseDone
  BY <1>4, ReleaseDoneCount
<1>5. CASE InlineStart \/ PumpLaunch \/ SelectSlot
  BY <1>5, StartCount, StartQueue, CountFrame
<1>6. ASSUME SameQueue /\ SameCount PROVE CountInv' /\ QueueInv'
  <2>1. \A j \in Step : Outstanding(j)' \subseteq Outstanding(j)
    BY <1>6, OutstandingSame DEF SameCount
  <2>2. QED
    BY <1>6, <2>1, QueueFrame, CountFrame
<1>7. CASE \/ NotInline \/ PumpDone \/ SelectCaller \/ SelectAbandon \/ LoopEnds
           \/ \E i \in Step : NodeReturns(i) \/ NodeWrites(i) \/ StepTask(i)
           \/ CallerGivesUp \/ TimerFires \/ OtherTakes \/ OtherReturns
           \/ AllGone \/ UNCHANGED vars
  BY <1>6, <1>7, QuietSteps
<1> QED
  BY <1>1, <1>2, <1>3, <1>4, <1>5, <1>7 DEF Next, Coordinator

-----------------------------------------------------------------------------
(* Step states, tasks, results and the done channel.                       *)

\* A step that touches no state, task, result or completion keeps StateInv.
LEMMA StateFrame ==
  ASSUME StateInv, UNCHANGED <<state, task, result, done, fed>>,
         pc' # "returned" => pc # "returned"
  PROVE  StateInv'
  BY DEF StateInv

\* A task moves on without completing, or gives its slot back.
LEMMA StateMove ==
  ASSUME IInv, NEW i \in Step, NEW t,
         \/ task[i] \in {"invoke", "wait"} /\ t \in {"invoke", "wait"}
         \/ task[i] = "release" /\ t = "gone",
         task' = [task EXCEPT ![i] = t],
         UNCHANGED <<state, result, done, fed, pc>>
  PROVE  StateInv'
<1>1. task \in [Step -> Tasks] /\ done \in Seq(Step)
  BY DEF IInv, TypeOK, DataOK
<1>2. \A j \in Step : task'[j] = IF j = i THEN t ELSE task[j]
  BY <1>1
<1>3. \A k \in 1 .. Len(done) : done[k] \in Step
  BY <1>1
<1>4. \A j \in Step : result'[j] # "none" <=> task'[j] \in {"inlined", "release", "gone"}
  BY <1>2 DEF IInv, StateInv
<1>5. \A k \in 1 .. Len(done') : task'[done'[k]] \in {"release", "gone"}
  BY <1>2, <1>3 DEF IInv, StateInv
<1>6. ASSUME pc' # "returned"
      PROVE  /\ \A j \in Step : task'[j] \in {"invoke", "wait", "inlined"} => state'[j] = "running"
             /\ \A j \in Step \ InputSteps : task'[j] = "idle" <=> state'[j] = "pending"
  BY <1>2, <1>6 DEF IInv, StateInv
<1> QED
  BY <1>4, <1>5, <1>6 DEF IInv, StateInv

\* runStep returns: the result is known from now on, in the channel or inline.
LEMMA StateComplete ==
  ASSUME IInv, NEW i \in Step, NEW r \in Results, Complete(i, r),
         task[i] \in {"invoke", "wait"}, UNCHANGED <<state, fed, pc>>
  PROVE  StateInv'
<1>1. /\ task \in [Step -> Tasks] /\ done \in Seq(Step)
      /\ result \in [Step -> Results \cup {"none"}]
  BY DEF IInv, TypeOK, DataOK
<1>2. \A k \in 1 .. Len(done) : done[k] \in Step /\ done[k] # i
  BY <1>1 DEF IInv, StateInv
<1>3. PICK t \in {"inlined", "release"} : task' = [task EXCEPT ![i] = t]
  BY DEF Complete
<1>4. \A j \in Step : /\ task'[j] = IF j = i THEN t ELSE task[j]
                      /\ result'[j] = IF j = i THEN r ELSE result[j]
  BY <1>1, <1>3 DEF Complete
<1>5. /\ \A k \in 1 .. Len(done') : \/ k \in 1 .. Len(done) /\ done'[k] = done[k]
                                    \/ k = Len(done) + 1 /\ done'[k] = i /\ t = "release"
  <2>1. CASE pc = "inline"
    BY <2>1 DEF Complete
  <2>2. CASE pc # "inline"
    <3>1. done' = Append(done, i) /\ task' = [task EXCEPT ![i] = "release"]
      BY <2>2 DEF Complete
    <3>2. t = "release"
      BY <1>1, <1>4, <3>1
    <3>3. QED
      BY <1>1, <3>1, <3>2
  <2>3. QED
    BY <2>1, <2>2
<1>6. \A j \in Step : result'[j] # "none" <=> task'[j] \in {"inlined", "release", "gone"}
  BY <1>4 DEF IInv, StateInv, Results
<1>7. \A a, b \in 1 .. Len(done') : done'[a] = done'[b] => a = b
  BY <1>2, <1>5 DEF IInv, StateInv
<1>8. \A k \in 1 .. Len(done') : task'[done'[k]] \in {"release", "gone"}
  BY <1>2, <1>4, <1>5 DEF IInv, StateInv
<1>9. ASSUME pc' # "returned"
      PROVE  /\ \A j \in Step : task'[j] \in {"invoke", "wait", "inlined"} => state'[j] = "running"
             /\ \A j \in Step \ InputSteps : task'[j] = "idle" <=> state'[j] = "pending"
             /\ \A k \in 1 .. Len(done') : state'[done'[k]] = "running"
             /\ \A k \in 1 .. Len(Inputs) : k > fed' => state'[Inputs[k]] = "pending"
  <2>1. pc # "returned" /\ state' = state /\ fed' = fed
    BY <1>9
  <2>2. state[i] = "running"
    BY <2>1 DEF IInv, StateInv
  <2>3. \A j \in Step : task'[j] \in {"invoke", "wait", "inlined"} => state'[j] = "running"
    BY <1>4, <2>1, <2>2 DEF IInv, StateInv
  <2>4. \A j \in Step \ InputSteps : task'[j] = "idle" <=> state'[j] = "pending"
    BY <1>4, <2>1, <2>2 DEF IInv, StateInv
  <2>5. \A k \in 1 .. Len(done') : state'[done'[k]] = "running"
    BY <1>5, <2>1, <2>2 DEF IInv, StateInv
  <2>6. \A k \in 1 .. Len(Inputs) : k > fed' => state'[Inputs[k]] = "pending"
    BY <2>1 DEF IInv, StateInv
  <2>7. QED
    BY <2>3, <2>4, <2>5, <2>6
<1> QED
  BY <1>6, <1>7, <1>8, <1>9 DEF StateInv

\* Starting a step: it is running and its task is under way.
LEMMA StateBegin ==
  ASSUME IInv, InlineStart \/ PumpLaunch \/ SelectSlot
  PROVE  StateInv'
<1> DEFINE i == ready[launched + 1]
<1>1. /\ Begin /\ launched < Len(ready)
      /\ pc \in {"loop", "pump", "select"} /\ pc' \in {"inline", "pump", "loop"}
  BY StartSteps
<1>2. /\ task' = [task EXCEPT ![i] = "invoke"] /\ state' = [state EXCEPT ![i] = "running"]
      /\ UNCHANGED <<result, done, fed>>
  BY <1>1 DEF Begin
<1>3. i \in Step /\ i \notin InputSteps /\ task[i] = "idle"
  BY <1>1, StartedStep
<1> HIDE DEF i
<1>4. /\ task \in [Step -> Tasks] /\ state \in [Step -> States]
      /\ \A k \in 1 .. Len(done) : done[k] \in Step
  BY DEF IInv, TypeOK, DataOK
<1>5. \A j \in Step : /\ task'[j] = IF j = i THEN "invoke" ELSE task[j]
                      /\ state'[j] = IF j = i THEN "running" ELSE state[j]
  BY <1>2, <1>4
<1>6. \A k \in 1 .. Len(done) : done[k] # i
  BY <1>3 DEF IInv, StateInv
<1>7. \A k \in 1 .. Len(Inputs) : Inputs[k] # i /\ Inputs[k] \in Step
  <2>1. \A k \in 1 .. Len(Inputs) : Inputs[k] \in InputSteps
    BY DEF InputSteps
  <2>2. \A k \in 1 .. Len(Inputs) : Inputs[k] \in Step
    BY PlanTypes
  <2> QED
    BY <1>3, <2>1, <2>2
<1>8. \A j \in Step : result'[j] # "none" <=> task'[j] \in {"inlined", "release", "gone"}
  BY <1>2, <1>3, <1>5 DEF IInv, StateInv
<1>9. \A k \in 1 .. Len(done') : task'[done'[k]] \in {"release", "gone"} /\ state'[done'[k]] = "running"
  BY <1>1, <1>2, <1>4, <1>5, <1>6 DEF IInv, StateInv
<1>10. /\ \A j \in Step : task'[j] \in {"invoke", "wait", "inlined"} => state'[j] = "running"
       /\ \A j \in Step \ InputSteps : task'[j] = "idle" <=> state'[j] = "pending"
  BY <1>1, <1>5 DEF IInv, StateInv
<1>11. \A k \in 1 .. Len(Inputs) : k > fed' => state'[Inputs[k]] = "pending"
  BY <1>1, <1>2, <1>5, <1>7 DEF IInv, StateInv
<1>12. \A a, b \in 1 .. Len(done') : done'[a] = done'[b] => a = b
  BY <1>2 DEF IInv, StateInv
<1> QED
  BY <1>8, <1>9, <1>10, <1>11, <1>12 DEF StateInv

\* Recording step i: only its state changes, and not back to pending.
LEMMA HandleState ==
  ASSUME DataOK, NEW i \in Step, NEW r \in Results, Handle(i, r)
  PROVE  /\ \A j \in Step \ {i} : state'[j] = state[j]
         /\ state'[i] \notin {"pending", "running"}
         /\ pc' # "returned"
<1>1. state' = [state EXCEPT ![i] = Recorded(r)] /\ state \in [Step -> States]
  BY DEF Handle, DataOK
<1>2. Recorded(r) \notin {"pending", "running"}
  BY DEF Recorded, Results
<1>3. pc' # "returned"
  BY DEF Handle, Resume
<1> QED
  BY <1>1, <1>2, <1>3

\* supplyInputs records an input, which has no task and no completion.
LEMMA StateSupply ==
  ASSUME IInv, SupplyInput
  PROVE  StateInv'
<1> DEFINE i == Inputs[fed + 1]
<1>1. PICK r \in {"ok", "failed"} : Handle(i, r)
  BY DEF SupplyInput
<1>2. /\ fed \in 0 .. Len(Inputs) /\ fed < Len(Inputs) /\ Inputs \in Seq(Step)
      /\ fed' = fed + 1 /\ pc = "supply" /\ UNCHANGED <<task, result, done>> /\ DataOK
      /\ done \in Seq(Step)
  BY PlanTypes DEF SupplyInput, IInv, TypeOK, DataOK, taskVars
<1>3. i \in InputSteps /\ i \in Step
  BY <1>2 DEF InputSteps
<1>4. \A j \in Step \ {i} : state'[j] = state[j]
  BY <1>1, <1>2, <1>3, HandleState DEF Results
<1>5. task[i] = "idle"
  BY <1>3 DEF IInv, QueueInv
<1>6. \A k \in 1 .. Len(done) : done[k] # i /\ done[k] \in Step
  BY <1>2, <1>5 DEF IInv, StateInv
<1>7. \A k \in 1 .. Len(Inputs) : k > fed + 1 => Inputs[k] # i /\ Inputs[k] \in Step
  <2> TAKE k \in 1 .. Len(Inputs)
  <2>1. fed + 1 \in 1 .. Len(Inputs)
    BY <1>2
  <2>2. Inputs[k] = i => k = fed + 1
    BY <2>1, PlanLayout
  <2>3. QED
    BY <1>2, <2>1, <2>2
<1> HIDE DEF i
<1>8. \A j \in Step : task'[j] \in {"invoke", "wait", "inlined"} => state'[j] = "running"
  BY <1>2, <1>4, <1>5 DEF IInv, StateInv
<1>9. \A j \in Step \ InputSteps : task'[j] = "idle" <=> state'[j] = "pending"
  BY <1>2, <1>3, <1>4 DEF IInv, StateInv
<1>10. \A k \in 1 .. Len(done') : state'[done'[k]] = "running"
  BY <1>2, <1>4, <1>6 DEF IInv, StateInv
<1>11. \A k \in 1 .. Len(Inputs) : k > fed' => state'[Inputs[k]] = "pending"
  <2> SUFFICES ASSUME NEW k \in 1 .. Len(Inputs), k > fed'
               PROVE  state'[Inputs[k]] = "pending"
    OBVIOUS
  <2>1. k > fed + 1 /\ k > fed
    BY <1>2
  <2>2. state[Inputs[k]] = "pending"
    BY <1>2, <2>1 DEF IInv, StateInv
  <2>3. QED
    BY <1>4, <1>7, <2>1, <2>2
<1> QED
  BY <1>2, <1>8, <1>9, <1>10, <1>11 DEF IInv, StateInv

\* tryInline records the step it ran itself; nothing is in the channel.
LEMMA StateInline ==
  ASSUME IInv, InlineFinish
  PROVE  StateInv'
<1> DEFINE i == ready[launched]
<1>1. i \in Step
  BY DEF InlineFinish, IInv, TypeOK, DataOK, QueueInv
<1>2. /\ task[i] = "inlined" /\ task' = [task EXCEPT ![i] = "gone"] /\ pc = "inline"
      /\ Handle(i, result[i]) /\ UNCHANGED <<fed, result, done>>
  BY DEF InlineFinish
<1> HIDE DEF i
<1>3. /\ DataOK /\ task \in [Step -> Tasks] /\ result \in [Step -> Results \cup {"none"}]
      /\ \A k \in 1 .. Len(done) : done[k] \in Step
  BY DEF IInv, TypeOK, DataOK
<1>4. result[i] \in Results
  BY <1>1, <1>2, <1>3 DEF IInv, StateInv
<1>5. (\A j \in Step \ {i} : state'[j] = state[j]) /\ state'[i] \notin {"pending", "running"}
  BY <1>1, <1>2, <1>3, <1>4, HandleState
<1>6. \A j \in Step : task'[j] = IF j = i THEN "gone" ELSE task[j]
  BY <1>2, <1>3
<1>7. i \notin InputSteps
  BY <1>1, <1>2 DEF IInv, QueueInv
<1>8. \A k \in 1 .. Len(Inputs) : Inputs[k] # i /\ Inputs[k] \in Step
  BY <1>7, PlanTypes DEF InputSteps
<1>9. \A k \in 1 .. Len(done) : done[k] # i
  BY <1>2 DEF IInv, StateInv
<1>10. \A j \in Step : result'[j] # "none" <=> task'[j] \in {"inlined", "release", "gone"}
  BY <1>2, <1>6 DEF IInv, StateInv
<1>11. \A k \in 1 .. Len(done') : task'[done'[k]] \in {"release", "gone"} /\ state'[done'[k]] = "running"
  BY <1>2, <1>3, <1>5, <1>6, <1>9 DEF IInv, StateInv
<1>12. /\ \A j \in Step : task'[j] \in {"invoke", "wait", "inlined"} => state'[j] = "running"
       /\ \A j \in Step \ InputSteps : task'[j] = "idle" <=> state'[j] = "pending"
  BY <1>2, <1>5, <1>6 DEF IInv, StateInv
<1>13. \A k \in 1 .. Len(Inputs) : k > fed' => state'[Inputs[k]] = "pending"
  BY <1>2, <1>5, <1>8 DEF IInv, StateInv
<1>14. \A a, b \in 1 .. Len(done') : done'[a] = done'[b] => a = b
  BY <1>2 DEF IInv, StateInv
<1> QED
  BY <1>10, <1>11, <1>12, <1>13, <1>14 DEF StateInv

\* The done arm of loop's select records the completion it received, and no
\* other completion in the channel is of the same step.
LEMMA StateDone ==
  ASSUME IInv, SelectDone
  PROVE  StateInv'
<1> DEFINE i == Head(done)
<1>1. /\ done # <<>> /\ done' = Tail(done) /\ Handle(i, result[i]) /\ pc = "select"
      /\ UNCHANGED <<fed, task, result>>
  BY DEF SelectDone
<1>2. DataOK /\ done \in Seq(Step) /\ result \in [Step -> Results \cup {"none"}]
  BY DEF IInv, TypeOK, DataOK
<1>3. /\ 1 \in 1 .. Len(done) /\ i = done[1] /\ i \in Step
      /\ Len(done') = Len(done) - 1 /\ Len(done) \in Nat
      /\ \A k \in 1 .. Len(done') : /\ k + 1 \in 1 .. Len(done) /\ done'[k] = done[k + 1]
                                    /\ done[k + 1] \in Step
  BY <1>1, <1>2
<1> HIDE DEF i
<1>4. task[i] \in {"release", "gone"}
  BY <1>3 DEF IInv, StateInv
<1>5. result[i] \in Results
  BY <1>2, <1>3, <1>4 DEF IInv, StateInv
<1>6. (\A j \in Step \ {i} : state'[j] = state[j]) /\ state'[i] \notin {"pending", "running"}
  BY <1>1, <1>2, <1>3, <1>5, HandleState
<1>7. i \notin InputSteps
  BY <1>3, <1>4 DEF IInv, QueueInv
<1>8. \A k \in 1 .. Len(Inputs) : Inputs[k] # i /\ Inputs[k] \in Step
  BY <1>7, PlanTypes DEF InputSteps
<1>9. \A k \in 1 .. Len(done') : done'[k] # i
  <2> TAKE k \in 1 .. Len(done')
  <2>1. k + 1 # 1 /\ k + 1 \in 1 .. Len(done) /\ done'[k] = done[k + 1]
    BY <1>3
  <2>2. QED
    BY <1>3, <2>1 DEF IInv, StateInv
<1>10. \A a, b \in 1 .. Len(done') : done'[a] = done'[b] => a = b
  <2> TAKE a, b \in 1 .. Len(done')
  <2>1. done[a + 1] = done[b + 1] => a + 1 = b + 1
    BY <1>3 DEF IInv, StateInv
  <2>2. QED
    BY <1>3, <2>1
<1>11. \A k \in 1 .. Len(done') : task'[done'[k]] \in {"release", "gone"} /\ state'[done'[k]] = "running"
  BY <1>1, <1>3, <1>6, <1>9 DEF IInv, StateInv
<1>12. /\ \A j \in Step : task'[j] \in {"invoke", "wait", "inlined"} => state'[j] = "running"
       /\ \A j \in Step \ InputSteps : task'[j] = "idle" <=> state'[j] = "pending"
  BY <1>1, <1>4, <1>6 DEF IInv, StateInv
<1>13. \A k \in 1 .. Len(Inputs) : k > fed' => state'[Inputs[k]] = "pending"
  BY <1>1, <1>6, <1>8 DEF IInv, StateInv
<1>14. \A j \in Step : result'[j] # "none" <=> task'[j] \in {"inlined", "release", "gone"}
  BY <1>1 DEF IInv, StateInv
<1> QED
  BY <1>10, <1>11, <1>12, <1>13, <1>14 DEF StateInv

\* Every step of the run keeps states, tasks, results and the channel together.
LEMMA StateStep == IInv /\ [Next]_vars => StateInv'
<1> SUFFICES ASSUME IInv, [Next]_vars PROVE StateInv'
  OBVIOUS
<1>s. StateInv
  BY DEF IInv
<1>1. CASE SupplyInput
  BY <1>1, StateSupply
<1>2. CASE InlineFinish
  BY <1>2, StateInline
<1>3. CASE SelectDone
  BY <1>3, StateDone
<1>4. CASE InlineStart \/ PumpLaunch \/ SelectSlot
  BY <1>4, StateBegin
<1>5. CASE SupplyRoots \/ ReleaseNext \/ ReleaseDone \/ NotInline \/ PumpDone \/ SelectCaller
  <2>1. UNCHANGED <<state, task, result, done, fed>> /\ pc # "returned"
    BY <1>5 DEF SupplyRoots, ReleaseNext, ReleaseDone, NotInline, PumpDone, SelectCaller,
                execVars, taskVars
  <2>2. QED
    BY <1>s, <2>1, StateFrame
<1>6. CASE SelectAbandon \/ LoopEnds
  <2>1. UNCHANGED <<task, result, done, fed>> /\ pc' = "returned"
    BY <1>6 DEF SelectAbandon, LoopEnds, Finalize, taskVars
  <2>2. QED
    BY <1>s, <2>1 DEF StateInv
<1>7. ASSUME NEW i \in Step, NodeReturns(i)
      PROVE  StateInv'
  <2>1. PICK o \in Outcomes :
           IF o = "transient" /\ attempt[i] < MaxAttempts[i]
             THEN task' = [task EXCEPT ![i] = "wait"] /\ UNCHANGED <<attempt, result, done>>
             ELSE Complete(i, IF o = "transient" THEN "failed" ELSE o)
    BY <1>7 DEF NodeReturns
  <2>2. task[i] = "invoke" /\ UNCHANGED <<state, fed, pc>>
    BY <1>7 DEF NodeReturns, coordVars, execVars
  <2>3. CASE o = "transient" /\ attempt[i] < MaxAttempts[i]
    BY <2>1, <2>2, <2>3, StateMove
  <2>4. CASE ~ (o = "transient" /\ attempt[i] < MaxAttempts[i])
    <3>1. PICK r \in Results : Complete(i, r)
      BY <2>1, <2>4 DEF Outcomes, Results
    <3>2. QED
      BY <2>2, <3>1, StateComplete
  <2>5. QED
    BY <2>3, <2>4
<1>8. ASSUME NEW i \in Step, StepTask(i)
      PROVE  StateInv'
  <2>1. UNCHANGED <<state, fed, pc>>
    BY <1>8 DEF StepTask, BackoffElapses, BackoffCancelled, ReleaseSlot, coordVars, execVars
  <2>2. CASE BackoffElapses(i)
    BY <2>1, <2>2, StateMove DEF BackoffElapses
  <2>3. CASE BackoffCancelled(i)
    BY <2>1, <2>3, StateComplete DEF BackoffCancelled, Results
  <2>4. CASE ReleaseSlot(i)
    BY <2>1, <2>4, StateMove DEF ReleaseSlot
  <2>5. QED
    BY <1>8, <2>2, <2>3, <2>4 DEF StepTask
<1>9. CASE \/ \E i \in Step : NodeWrites(i)
           \/ CallerGivesUp \/ TimerFires \/ OtherTakes \/ OtherReturns
           \/ AllGone \/ UNCHANGED vars
  <2>1. UNCHANGED <<state, task, result, done, fed>> /\ pc' = pc
    BY <1>9 DEF NodeWrites, CallerGivesUp, TimerFires, OtherTakes, OtherReturns, AllGone,
                vars, coordVars, execVars, taskVars
  <2>2. QED
    BY <1>s, <2>1, StateFrame
<1> QED
  BY <1>1, <1>2, <1>3, <1>4, <1>5, <1>6, <1>7, <1>8, <1>9 DEF Next, Coordinator

-----------------------------------------------------------------------------
(* The theorems.                                                           *)

\* The inductive invariant holds when newScheduler returns.
LEMMA IInvInit == Init => IInv
<1> SUFFICES ASSUME Init PROVE IInv
  OBVIOUS
<1>1. TypeOK
  BY TypeInit
<1>2. /\ pc # "release" /\ pc # "inline"
      /\ unmet = [i \in Step |-> Len(Deps[i])] /\ state = [i \in Step |-> "pending"]
      /\ ready = <<>> /\ done = <<>> /\ launched = 0
      /\ task = [i \in Step |-> "idle"] /\ result = [i \in Step |-> "none"]
  BY DEF Init
<1>3. ASSUME NEW j \in Step PROVE unmet[j] = Cardinality(Outstanding(j))
  <2>1. \A e \in EdgesInto(j) : e[1] \in Step
    BY EdgeShape DEF EdgesInto
  <2>2. Outstanding(j) = EdgesInto(j)
    BY <1>2, <2>1 DEF Outstanding
  <2>3. QED
    BY <1>2, <2>2, PlanLayout
<1>4. CountInv
  BY <1>2, <1>3 DEF CountInv
<1>5. QueueInv
  BY <1>2 DEF QueueInv
<1>6. \A k \in 1 .. Len(Inputs) : Inputs[k] \in Step
  BY PlanTypes
<1>7. StateInv
  BY <1>2, <1>6 DEF StateInv
<1> QED
  BY <1>1, <1>4, <1>5, <1>7 DEF IInv

\* Every step of a run keeps it.
LEMMA IInvStep == IInv /\ [Next]_vars => IInv'
  BY DataStep, FlagsStep, CountStep, StateStep DEF IInv, TypeOK

\* The inductive invariant holds throughout every run.
THEOREM Invariance == Spec => []IInv
  BY IInvInit, IInvStep, PTL DEF Spec

\* Type correctness, for every plan and every setting of Run's options.
THEOREM TypeCorrect == Spec => []TypeOK
<1>1. IInv => TypeOK
  BY DEF IInv
<1> QED
  BY Invariance, <1>1, PTL

\* IInv has what DependenciesFirst says: a step with a task is queued, and a
\* queued step has nothing outstanding.
LEMMA DependenciesSucceeded == IInv => DependenciesFirst
<1> SUFFICES ASSUME IInv, NEW i \in Step, task[i] # "idle",
                    NEW p \in 1 .. Len(Deps[i])
             PROVE  state[Deps[i][p]] = "succeeded"
  BY DEF DependenciesFirst
<1>1. Outstanding(i) = {}
  BY DEF IInv, QueueInv
<1>2. Deps[i][p] \in Step
  BY PlanTypes
<1>3. PICK e \in EdgesInto(i) : e[1] = Deps[i][p]
  BY <1>2, PlanLayout
<1> QED
  BY <1>1, <1>3 DEF Outstanding

\* No step of any plan is started, by launch or inline, before all its
\* dependencies have succeeded, in any order of completions, retries,
\* cancellations and slot shortages.
THEOREM StartsOnValues == Spec => []DependenciesFirst
  BY Invariance, DependenciesSucceeded, PTL
=============================================================================
