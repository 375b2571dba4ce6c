-------------------------- MODULE SchedulerRunProofs --------------------------
(***************************************************************************)
(* More proofs about Scheduler, for every plan and every setting of the    *)
(* options.  On top of IInv, RunInv is inductive: it counts the steps in   *)
(* flight and the slots, keeps the verdict honest and the mutation guard   *)
(* exact, and shows that Scheduler implements RunContract.                 *)
(***************************************************************************)
EXTENDS SchedulerProofs

-----------------------------------------------------------------------------
(* The kinds of steps.                                                     *)

Busy == {"invoke", "wait"}

\* The coordinator moves on without settling or starting a step.
Quiet == SupplyRoots \/ ReleaseNext \/ ReleaseDone \/ NotInline \/ PumpDone

Starts == InlineStart \/ PumpLaunch \/ SelectSlot
Settles == SupplyInput \/ InlineFinish \/ SelectDone
Ends == SelectAbandon \/ LoopEnds

\* A goroutine of a step goes from the node to the backoff or back...
Shifts(i) ==
    /\ task[i] \in Busy
    /\ \E t \in Busy : task' = [task EXCEPT ![i] = t]
    /\ UNCHANGED <<result, done, poolVars>>

\* ...or completes...
Completes(i) ==
    /\ task[i] \in Busy
    /\ \E r \in Results : Complete(i, r)
    /\ UNCHANGED poolVars

\* ...or gives its slot back.
TaskStep(i) ==
    /\ Shifts(i) \/ Completes(i) \/ ReleaseSlot(i)
    /\ UNCHANGED <<coordVars, execVars, ctxVars, guardVars>>

\* The world around the run, and a node that writes where it must not.
Outside ==
    \/ \E i \in Step : NodeWrites(i)
    \/ CallerGivesUp \/ TimerFires \/ OtherTakes \/ OtherReturns
    \/ AllGone \/ UNCHANGED vars

\* The moves of a step's goroutine are of these three forms.
LEMMA TaskForms ==
  ASSUME NEW i \in Step, NodeReturns(i) \/ StepTask(i)
  PROVE  TaskStep(i)
<1>1. UNCHANGED <<coordVars, execVars, ctxVars, guardVars>>
  BY DEF NodeReturns, StepTask, BackoffElapses, BackoffCancelled, ReleaseSlot
<1>2. CASE NodeReturns(i)
  <2>1. PICK o \in Outcomes :
           IF o = "transient" /\ attempt[i] < MaxAttempts[i]
             THEN task' = [task EXCEPT ![i] = "wait"] /\ UNCHANGED <<attempt, result, done>>
             ELSE Complete(i, IF o = "transient" THEN "failed" ELSE o)
    BY <1>2 DEF NodeReturns
  <2>2. task[i] \in Busy /\ UNCHANGED poolVars
    BY <1>2 DEF NodeReturns, Busy
  <2>3. CASE o = "transient" /\ attempt[i] < MaxAttempts[i]
    <3>1. Shifts(i)
      BY <2>1, <2>2, <2>3 DEF Shifts, Busy
    <3>2. QED
      BY <1>1, <3>1 DEF TaskStep
  <2>4. CASE ~ (o = "transient" /\ attempt[i] < MaxAttempts[i])
    <3>1. \E r \in Results : Complete(i, r)
      BY <2>1, <2>4 DEF Outcomes, Results
    <3>2. QED
      BY <1>1, <2>2, <3>1 DEF TaskStep, Completes
  <2>5. QED
    BY <2>3, <2>4
<1>3. CASE BackoffElapses(i)
  <2>1. Shifts(i)
    BY <1>3 DEF BackoffElapses, Shifts, Busy
  <2>2. QED
    BY <1>1, <2>1 DEF TaskStep
<1>4. CASE BackoffCancelled(i)
  <2>1. Completes(i)
    BY <1>4 DEF BackoffCancelled, Completes, Busy, Results
  <2>2. QED
    BY <1>1, <2>1 DEF TaskStep
<1>5. CASE ReleaseSlot(i)
  BY <1>1, <1>5 DEF TaskStep
<1> QED
  BY <1>2, <1>3, <1>4, <1>5 DEF StepTask

\* Every step of the run is of one of these kinds.
LEMMA StepKinds ==
  ASSUME [Next]_vars
  PROVE  \/ Quiet \/ SelectCaller \/ Starts \/ Settles \/ Ends
         \/ \E i \in Step : TaskStep(i)
         \/ Outside
<1>1. CASE Coordinator
  BY <1>1 DEF Coordinator, Quiet, Starts, Settles, Ends
<1>2. CASE \E i \in Step : NodeReturns(i) \/ StepTask(i)
  BY <1>2, TaskForms
<1>3. CASE ~Coordinator /\ ~ \E i \in Step : NodeReturns(i) \/ StepTask(i)
  BY <1>3 DEF Next, Outside
<1> QED
  BY <1>1, <1>2, <1>3

\* What the quiet steps leave alone.
LEMMA QuietFrame ==
  ASSUME Quiet
  PROVE  /\ UNCHANGED <<execVars, taskVars, ctxVars, poolVars, guardVars>>
         /\ UNCHANGED <<fed, launched, inflight, stopped>>
         /\ pc \in {"supply", "release", "loop", "pump"}
         /\ pc' \in {"supply", "release", "loop", "pump", "select"}
  BY DEF Quiet, SupplyRoots, ReleaseNext, ReleaseDone, NotInline, PumpDone, Resume

\* What the world around the run leaves alone.
LEMMA OutsideFrame ==
  ASSUME Outside
  PROVE  UNCHANGED <<coordVars, execVars, taskVars>>
  BY DEF Outside, NodeWrites, CallerGivesUp, TimerFires, OtherTakes, OtherReturns, AllGone, vars

\* What returning leaves alone.
LEMMA EndsFrame ==
  ASSUME Ends
  PROVE  /\ \E g \in BOOLEAN : Finalize(g)
         /\ UNCHANGED <<taskVars, poolVars, guardVars, ready, launched, stopped, failedStep>>
         /\ pc = "select" /\ pc' = "returned" /\ timer' = "off"
  BY DEF Ends, SelectAbandon, LoopEnds, Finalize

-----------------------------------------------------------------------------
(* Counting tasks.                                                         *)

TasksAt(S) == {i \in Step : task[i] \in S}
One(t, S) == IF t \in S THEN 1 ELSE 0
MoveTask(i, t) == task' = [task EXCEPT ![i] = t]

\* Executing and Holding count tasks; a number of tasks is a natural number.
LEMMA TasksFinite ==
  /\ \A S : IsFiniteSet(TasksAt(S)) /\ Cardinality(TasksAt(S)) \in Nat
  /\ Executing = TasksAt(Busy)
  /\ Holding = TasksAt({"invoke", "wait", "inlined", "release"})
<1>1. ASSUME NEW S PROVE IsFiniteSet(TasksAt(S)) /\ Cardinality(TasksAt(S)) \in Nat
  <2>1. IsFiniteSet(TasksAt(S))
    BY StepFinite, FS_Subset DEF TasksAt
  <2>2. QED
    BY <2>1, FS_CardinalityType
<1> QED
  BY <1>1 DEF Executing, Holding, TasksAt, Busy

\* When one task moves, the number of those in S changes by what it leaves and
\* where it goes.
LEMMA TasksMove ==
  ASSUME task \in [Step -> Tasks], NEW i \in Step, NEW t,
         task' = [task EXCEPT ![i] = t], NEW S
  PROVE  Cardinality(TasksAt(S)') = Cardinality(TasksAt(S)) + One(t, S) - One(task[i], S)
<1>1. IsFiniteSet(TasksAt(S)) /\ Cardinality(TasksAt(S)) \in Nat
  BY TasksFinite
<1>2. \A j \in Step : task'[j] = IF j = i THEN t ELSE task[j]
  OBVIOUS
<1>3. i \in TasksAt(S) <=> task[i] \in S
  BY DEF TasksAt
<1>4. CASE t \in S
  <2>1. TasksAt(S)' = TasksAt(S) \cup {i}
    BY <1>2, <1>4 DEF TasksAt
  <2>2. Cardinality(TasksAt(S) \cup {i}) =
            IF i \in TasksAt(S) THEN Cardinality(TasksAt(S)) ELSE Cardinality(TasksAt(S)) + 1
    BY <1>1, FS_AddElement
  <2>3. QED
    BY <1>1, <1>3, <1>4, <2>1, <2>2 DEF One
<1>5. CASE t \notin S
  <2>1. TasksAt(S)' = TasksAt(S) \ {i}
    BY <1>2, <1>5 DEF TasksAt
  <2>2. Cardinality(TasksAt(S) \ {i}) =
            IF i \in TasksAt(S) THEN Cardinality(TasksAt(S)) - 1 ELSE Cardinality(TasksAt(S))
    BY <1>1, FS_RemoveElement
  <2>3. QED
    BY <1>1, <1>3, <1>5, <2>1, <2>2 DEF One
<1> QED
  BY <1>4, <1>5

\* The two counts, after one task moved.
LEMMA CountsMove ==
  ASSUME task \in [Step -> Tasks], NEW i \in Step, NEW t, MoveTask(i, t)
  PROVE  /\ Cardinality(Executing) \in Nat /\ Cardinality(Holding) \in Nat
         /\ Cardinality(Executing') = Cardinality(Executing) + One(t, Busy) - One(task[i], Busy)
         /\ Cardinality(Holding') =
               Cardinality(Holding) + One(t, {"invoke", "wait", "inlined", "release"})
                                    - One(task[i], {"invoke", "wait", "inlined", "release"})
<1>1. /\ Executing = TasksAt(Busy) /\ Executing' = TasksAt(Busy)'
      /\ Holding = TasksAt({"invoke", "wait", "inlined", "release"})
      /\ Holding' = TasksAt({"invoke", "wait", "inlined", "release"})'
  BY DEF Executing, Holding, TasksAt, Busy
<1> QED
  BY <1>1, TasksFinite, TasksMove DEF MoveTask

\* Without a task moving the counts stay.
LEMMA CountsStay ==
  ASSUME task' = task
  PROVE  Executing' = Executing /\ Holding' = Holding
  BY DEF Executing, Holding

-----------------------------------------------------------------------------
(* Steps in flight.                                                        *)

\* Starting a step: the counts before, whichever of the three ways it is.
LEMMA StartsForm ==
  ASSUME IInv, Starts
  PROVE  /\ Begin /\ launched < Len(ready)
         /\ pc \in {"loop", "pump", "select"} /\ pc' \in {"inline", "pump", "loop"}
         /\ ready[launched + 1] \in Step \ InputSteps
         /\ task[ready[launched + 1]] = "idle"
         /\ state[ready[launched + 1]] = "pending"
         /\ \/ pc' = "inline" /\ inflight = 0 /\ inflight' = inflight /\ ~stopped
            \/ /\ pc' # "inline" /\ inflight < MaxConcurrency /\ inflight' = inflight + 1
               /\ pc = "pump" \/ ~stopped
<1>1. /\ Begin /\ launched < Len(ready)
      /\ pc \in {"loop", "pump", "select"} /\ pc' \in {"inline", "pump", "loop"}
  BY StartSteps DEF Starts
<1>2. /\ ready[launched + 1] \in Step \ InputSteps
      /\ task[ready[launched + 1]] = "idle"
      /\ state[ready[launched + 1]] = "pending"
  BY <1>1, StartedStep
<1>3. \/ pc' = "inline" /\ inflight = 0 /\ inflight' = inflight /\ ~stopped
      \/ /\ pc' # "inline" /\ inflight < MaxConcurrency /\ inflight' = inflight + 1
         /\ pc = "pump" \/ ~stopped
  BY <1>1 DEF Starts, InlineStart, PumpLaunch, SelectSlot, Launch, Solo, Startable, Waiting
<1> QED
  BY <1>1, <1>2, <1>3

\* launch and tryInline count a step in, within the cap.
LEMMA FlightStarts ==
  ASSUME IInv, FlightInv, Starts
  PROVE  FlightInv'
<1> DEFINE i == ready[launched + 1]
<1>1. /\ task' = [task EXCEPT ![i] = "invoke"] /\ UNCHANGED <<done, ready>>
      /\ launched' = launched + 1
  BY StartsForm DEF Begin
<1>2. /\ task \in [Step -> Tasks] /\ i \in Step /\ task[i] = "idle" /\ done \in Seq(Step)
      /\ inflight \in Int /\ launched \in Nat /\ MaxConcurrency \in Nat \ {0}
  <2>1. i \in Step /\ task[i] = "idle"
    BY StartsForm
  <2> HIDE DEF i
  <2>2. DataOK /\ MaxConcurrency \in Nat \ {0}
    BY OptionAssumption DEF IInv, TypeOK
  <2> QED
    BY <2>1, <2>2 DEF DataOK
<1>3. pc \in {"loop", "pump", "select"} /\ pc' \in {"inline", "pump", "loop"}
  BY StartsForm
<1>4. /\ inflight = Cardinality(Executing) + Len(done)
      /\ \A j \in Step : task[j] # "inlined"
  BY <1>3 DEF FlightInv
<1> HIDE DEF i
<1>5. Cardinality(Executing') = Cardinality(Executing) + 1 /\ Cardinality(Executing) \in Nat
  <2>1. MoveTask(i, "invoke")
    BY <1>1, <1>2 DEF MoveTask
  <2>2. QED
    BY <1>1, <1>2, <2>1, CountsMove DEF One, Busy
<1>6. \A j \in Step : task'[j] = IF j = i THEN "invoke" ELSE task[j]
  BY <1>1, <1>2
<1>7. CASE pc' = "inline" /\ inflight = 0 /\ inflight' = inflight
  <2>1. Cardinality(Executing) = 0 /\ Len(done) = 0
    BY <1>2, <1>4, <1>5, <1>7
  <2>2. done = <<>>
    BY <1>2, <2>1
  <2>3. Executing = {}
    BY <2>1, TasksFinite, FS_EmptySet
  <2>4. \A j \in Step : task[j] \notin {"invoke", "wait", "inlined"}
    BY <1>4, <2>3 DEF Executing
  <2>5. i = ready'[launched']
    BY <1>1 DEF i
  <2>6. \A j \in Step : task'[j] \in {"invoke", "wait", "inlined"} => j = ready'[launched']
    BY <1>6, <2>4, <2>5
  <2>7. Cardinality(Executing') <= MaxConcurrency
    BY <1>2, <1>5, <2>1
  <2>8. QED
    BY <1>1, <1>7, <2>2, <2>6, <2>7 DEF FlightInv
<1>8. CASE pc' # "inline" /\ inflight < MaxConcurrency /\ inflight' = inflight + 1
  <2>1. inflight' = Cardinality(Executing') + Len(done)
    BY <1>2, <1>4, <1>5, <1>8
  <2>2. Cardinality(Executing') <= MaxConcurrency
    <3>1. Len(done) \in Nat
      BY <1>2
    <3>2. QED
      BY <1>2, <1>4, <1>5, <1>8, <3>1
  <2>3. QED
    BY <1>1, <1>3, <1>4, <1>6, <1>8, <2>1, <2>2 DEF FlightInv
<1> QED
  BY <1>7, <1>8, StartsForm

\* The done arm and tryInline count it out; an input was never counted.
LEMMA FlightSettles ==
  ASSUME IInv, FlightInv, Settles
  PROVE  FlightInv'
<1>t. /\ task \in [Step -> Tasks] /\ done \in Seq(Step) /\ inflight \in Int
      /\ Cardinality(Executing) \in Nat
  BY TasksFinite DEF IInv, TypeOK, DataOK
<1>p. pc' \in {"supply", "loop", "release"}
  BY DEF Settles, SupplyInput, InlineFinish, SelectDone, Handle, Resume
<1>1. CASE SupplyInput
  <2>1. pc = "supply" /\ UNCHANGED <<inflight, task, done>>
    BY <1>1 DEF SupplyInput, taskVars
  <2>2. Executing' = Executing
    BY <2>1, CountsStay
  <2>3. QED
    BY <1>p, <2>1, <2>2 DEF FlightInv
<1>2. CASE SelectDone
  <2>1. pc = "select" /\ done # <<>> /\ done' = Tail(done) /\ inflight' = inflight - 1 /\ task' = task
    BY <1>2 DEF SelectDone
  <2>2. Executing' = Executing
    BY <2>1, CountsStay
  <2>3. Len(done') = Len(done) - 1 /\ Len(done) \in Nat
    BY <1>t, <2>1
  <2>4. QED
    BY <1>t, <1>p, <2>1, <2>2, <2>3 DEF FlightInv
<1>3. CASE InlineFinish
  <2> DEFINE i == ready[launched]
  <2>1. /\ pc = "inline" /\ task[i] = "inlined" /\ task' = [task EXCEPT ![i] = "gone"]
        /\ UNCHANGED <<inflight, done>>
    BY <1>3 DEF InlineFinish
  <2>2. inflight = 0 /\ done = <<>> /\ \A j \in Step : task[j] \in {"invoke", "wait", "inlined"} => j = i
    BY <2>1 DEF FlightInv
  <2>3. \A j \in Step : task'[j] \notin {"invoke", "wait", "inlined"}
    BY <1>t, <2>1, <2>2
  <2>4. Executing' = {}
    BY <2>3 DEF Executing
  <2>5. Cardinality(Executing') = 0
    BY <2>4, FS_EmptySet
  <2>6. QED
    BY <1>p, <2>1, <2>2, <2>3, <2>5, OptionAssumption DEF FlightInv
<1> QED
  BY <1>1, <1>2, <1>3 DEF Settles

\* A goroutine leaves the executing steps as its completion enters the channel.
LEMMA FlightTask ==
  ASSUME IInv, FlightInv, NEW i \in Step, TaskStep(i)
  PROVE  FlightInv'
<1>t. /\ task \in [Step -> Tasks] /\ done \in Seq(Step) /\ inflight \in Int
      /\ MaxConcurrency \in Nat
  BY OptionAssumption DEF IInv, TypeOK, DataOK
<1>u. UNCHANGED <<pc, inflight, ready, launched>>
  BY DEF TaskStep, coordVars
<1>1. CASE Shifts(i)
  <2>1. PICK t \in Busy : task' = [task EXCEPT ![i] = t]
    BY <1>1 DEF Shifts
  <2>2. task[i] \in Busy /\ done' = done
    BY <1>1 DEF Shifts
  <2>3. Cardinality(Executing') = Cardinality(Executing)
    <3>1. MoveTask(i, t)
      BY <1>t, <2>1, <2>2 DEF MoveTask
    <3>2. QED
      BY <1>t, <2>1, <2>2, <3>1, CountsMove DEF One
  <2>4. \A j \in Step : /\ task'[j] = "inlined" => task[j] = "inlined"
                        /\ task'[j] \in {"invoke", "wait", "inlined"} => task[j] \in {"invoke", "wait", "inlined"}
    BY <1>t, <2>1, <2>2 DEF Busy
  <2>5. QED
    BY <1>u, <2>2, <2>3, <2>4 DEF FlightInv
<1>2. CASE Completes(i)
  <2>1. PICK r \in Results : Complete(i, r)
    BY <1>2 DEF Completes
  <2>2. task[i] \in Busy
    BY <1>2 DEF Completes
  <2>3. CASE pc = "inline"
    <3>1. task' = [task EXCEPT ![i] = "inlined"] /\ done' = done
      BY <2>1, <2>3 DEF Complete
    <3>2. Cardinality(Executing') = Cardinality(Executing) - 1 /\ Cardinality(Executing) \in Nat
      <4>1. MoveTask(i, "inlined")
        BY <1>t, <2>2, <3>1 DEF MoveTask
      <4>2. QED
        <5>1. One("inlined", Busy) = 0 /\ One(task[i], Busy) = 1
          BY <2>2 DEF One, Busy
        <5> QED
          BY <1>t, <4>1, <5>1, CountsMove
    <3>3. \A j \in Step : task'[j] \in {"invoke", "wait", "inlined"} => task[j] \in {"invoke", "wait", "inlined"}
      BY <1>t, <2>2, <3>1 DEF Busy
    <3>4. QED
      BY <1>t, <1>u, <2>3, <3>1, <3>2, <3>3 DEF FlightInv
  <2>4. CASE pc # "inline"
    <3>1. task' = [task EXCEPT ![i] = "release"] /\ done' = Append(done, i)
      BY <2>1, <2>4 DEF Complete
    <3>2. Cardinality(Executing') = Cardinality(Executing) - 1 /\ Cardinality(Executing) \in Nat
      <4>1. MoveTask(i, "release")
        BY <1>t, <2>2, <3>1 DEF MoveTask
      <4>2. One("release", Busy) = 0 /\ One(task[i], Busy) = 1
        BY <2>2 DEF One, Busy
      <4>3. QED
        BY <1>t, <4>1, <4>2, CountsMove
    <3>3. Len(done') = Len(done) + 1 /\ Len(done) \in Nat
      BY <1>t, <3>1
    <3>4. \A j \in Step : task'[j] = "inlined" => task[j] = "inlined"
      BY <1>t, <3>1
    <3>5. QED
      BY <1>t, <1>u, <2>4, <3>2, <3>3, <3>4 DEF FlightInv
  <2>5. QED
    BY <2>3, <2>4
<1>3. CASE ReleaseSlot(i)
  <2>1. task[i] = "release" /\ task' = [task EXCEPT ![i] = "gone"] /\ done' = done
    BY <1>3 DEF ReleaseSlot
  <2>2. Cardinality(Executing') = Cardinality(Executing)
    <3>1. MoveTask(i, "gone")
      BY <1>t, <2>1 DEF MoveTask
    <3>2. QED
      BY <1>t, <2>1, <3>1, CountsMove DEF One, Busy
  <2>3. \A j \in Step : task'[j] \in {"invoke", "wait", "inlined"} => task'[j] = task[j]
    BY <1>t, <2>1
  <2>4. QED
    BY <1>u, <2>1, <2>2, <2>3 DEF FlightInv
<1> QED
  BY <1>1, <1>2, <1>3 DEF TaskStep

\* Every step keeps the count of completions to come.
LEMMA FlightStep ==
  ASSUME IInv, FlightInv, [Next]_vars
  PROVE  FlightInv'
<1>1. CASE Quiet
  <2>1. UNCHANGED <<task, done, inflight>> /\ pc \notin {"inline", "returned"} /\ pc' \notin {"inline", "returned"}
    BY <1>1, QuietFrame DEF taskVars
  <2>2. QED
    BY <2>1, CountsStay DEF FlightInv
<1>2. CASE SelectCaller
  <2>1. UNCHANGED <<task, done, inflight>> /\ pc \notin {"inline", "returned"} /\ pc' \notin {"inline", "returned"}
    BY <1>2 DEF SelectCaller, taskVars
  <2>2. QED
    BY <2>1, CountsStay DEF FlightInv
<1>3. CASE Ends
  <2>1. task' = task /\ pc' = "returned"
    BY <1>3, EndsFrame DEF taskVars
  <2>2. QED
    BY <2>1, CountsStay DEF FlightInv
<1>4. CASE Outside
  <2>1. UNCHANGED <<task, done, inflight, pc, ready, launched>>
    BY <1>4, OutsideFrame DEF taskVars, coordVars
  <2>2. QED
    BY <2>1, CountsStay DEF FlightInv
<1> QED
  BY <1>1, <1>2, <1>3, <1>4, FlightStarts, FlightSettles, FlightTask, StepKinds

-----------------------------------------------------------------------------
(* Slots.                                                                  *)

\* Every token in the pool has one holder, whatever became of the run.
LEMMA SlotsStep ==
  ASSUME IInv, SlotsConserved, [Next]_vars
  PROVE  SlotsConserved'
<1> SUFFICES ASSUME SlotCap > 0
             PROVE  held' = others' + Cardinality(Holding') /\ held' <= SlotCap
  BY DEF SlotsConserved
<1>t. /\ task \in [Step -> Tasks] /\ held \in Int /\ others \in Nat /\ SlotCap \in Nat
      /\ Cardinality(Holding) \in Nat
  BY TasksFinite, OptionAssumption DEF IInv, TypeOK, DataOK
<1>i. held = others + Cardinality(Holding) /\ held <= SlotCap
  BY DEF SlotsConserved
<1>s. CASE UNCHANGED <<task, held, others>>
  BY <1>i, <1>s, CountsStay
<1>1. CASE Quiet
  BY <1>1, <1>s, QuietFrame DEF taskVars, poolVars
<1>2. CASE SelectCaller
  BY <1>2, <1>s DEF SelectCaller, taskVars, poolVars
<1>3. CASE Ends
  BY <1>3, <1>s, EndsFrame DEF taskVars, poolVars
<1>4. CASE Starts
  <2> DEFINE i == ready[launched + 1]
  <2>1. /\ i \in Step /\ task[i] = "idle" /\ task' = [task EXCEPT ![i] = "invoke"] /\ others' = others
        /\ SlotFree /\ TakeSlot
    BY <1>4, StartsForm DEF Begin
  <2> HIDE DEF i
  <2>2. Cardinality(Holding') = Cardinality(Holding) + 1
    <3>1. MoveTask(i, "invoke")
      BY <1>t, <2>1 DEF MoveTask
    <3>2. QED
      BY <1>t, <2>1, <3>1, CountsMove DEF One
  <2>3. QED
    BY <1>t, <1>i, <2>1, <2>2 DEF SlotFree, TakeSlot
<1>5. CASE InlineFinish
  <2> DEFINE i == ready[launched]
  <2>1. /\ i \in Step
    BY <1>5 DEF InlineFinish, IInv, TypeOK, DataOK, QueueInv
  <2>2. task[i] = "inlined" /\ task' = [task EXCEPT ![i] = "gone"] /\ others' = others /\ GiveSlot
    BY <1>5 DEF InlineFinish
  <2> HIDE DEF i
  <2>3. Cardinality(Holding') = Cardinality(Holding) - 1
    <3>1. MoveTask(i, "gone")
      BY <1>t, <2>1, <2>2 DEF MoveTask
    <3>2. QED
      BY <1>t, <2>1, <2>2, <3>1, CountsMove DEF One
  <2>4. QED
    BY <1>t, <1>i, <2>2, <2>3 DEF GiveSlot
<1>6. CASE SupplyInput \/ SelectDone
  BY <1>6, <1>s DEF SupplyInput, SelectDone, taskVars, poolVars
<1>7. ASSUME NEW i \in Step, TaskStep(i)
      PROVE  held' = others' + Cardinality(Holding') /\ held' <= SlotCap
  <2>1. CASE Shifts(i)
    <3>1. PICK t \in Busy : task' = [task EXCEPT ![i] = t]
      BY <2>1 DEF Shifts
    <3>2. Cardinality(Holding') = Cardinality(Holding)
      <4>1. MoveTask(i, t)
        BY <1>t, <2>1, <3>1 DEF MoveTask
      <4>2. QED
        BY <1>t, <2>1, <3>1, <4>1, CountsMove DEF Shifts, One, Busy
    <3>3. QED
      BY <1>i, <2>1, <3>2 DEF Shifts, poolVars
  <2>2. CASE Completes(i)
    <3>1. PICK t \in {"inlined", "release"} : task' = [task EXCEPT ![i] = t]
      BY <2>2 DEF Completes, Complete
    <3>2. Cardinality(Holding') = Cardinality(Holding)
      <4>1. MoveTask(i, t)
        BY <1>t, <2>2, <3>1 DEF MoveTask
      <4>2. QED
        BY <1>t, <2>2, <3>1, <4>1, CountsMove DEF Completes, One, Busy
    <3>3. QED
      BY <1>i, <2>2, <3>2 DEF Completes, poolVars
  <2>3. CASE ReleaseSlot(i)
    <3>1. task[i] = "release" /\ task' = [task EXCEPT ![i] = "gone"] /\ others' = others /\ GiveSlot
      BY <2>3 DEF ReleaseSlot
    <3>2. Cardinality(Holding') = Cardinality(Holding) - 1
      <4>1. MoveTask(i, "gone")
        BY <1>t, <3>1 DEF MoveTask
      <4>2. QED
        BY <1>t, <3>1, <4>1, CountsMove DEF One
    <3>3. QED
      BY <1>t, <1>i, <3>1, <3>2 DEF GiveSlot
  <2>4. QED
    BY <1>7, <2>1, <2>2, <2>3 DEF TaskStep
<1>8. CASE OtherTakes \/ OtherReturns
  <2>1. Holding' = Holding
    BY <1>8, CountsStay DEF OtherTakes, OtherReturns, taskVars
  <2>2. QED
    BY <1>t, <1>i, <1>8, <2>1 DEF OtherTakes, OtherReturns, TakeSlot, GiveSlot, SlotFree
<1>9. CASE (\E i \in Step : NodeWrites(i)) \/ CallerGivesUp \/ TimerFires \/ AllGone \/ UNCHANGED vars
  BY <1>9, <1>s DEF NodeWrites, CallerGivesUp, TimerFires, AllGone, vars, taskVars, poolVars
<1> QED
  BY <1>1, <1>2, <1>3, <1>4, <1>5, <1>6, <1>7, <1>8, <1>9, StepKinds DEF Settles, Outside

-----------------------------------------------------------------------------
(* The verdict.                                                            *)

\* handle is called on a step that is being settled: an input that was pending,
\* the step tryInline ran, or the one whose completion was received.
Settling(i, r) ==
    /\ Handle(i, r)
    /\ \/ /\ SupplyInput /\ i = Inputs[fed + 1] /\ fed + 1 \in 1 .. Len(Inputs)
          /\ i \in InputSteps /\ state[i] = "pending" /\ r \in {"ok", "failed"}
       \/ /\ InlineFinish /\ i = ready[launched] /\ task[i] = "inlined"
          /\ i \notin InputSteps /\ state[i] = "running"
       \/ /\ SelectDone /\ i = Head(done) /\ task[i] \in {"release", "gone"}
          /\ i \notin InputSteps /\ state[i] = "running"

\* The three callers of handle, and the step each settles.
LEMMA SettlesForm ==
  ASSUME IInv, Settles
  PROVE  \E i \in Step, r \in Results : Settling(i, r)
<1>t. DataOK
  BY DEF IInv, TypeOK
<1>n. ASSUME NEW i \in Step, task[i] # "idle" PROVE i \notin InputSteps
  BY <1>n DEF IInv, QueueInv
<1>1. CASE SupplyInput
  <2>1. PICK r \in {"ok", "failed"} : Handle(Inputs[fed + 1], r)
    BY <1>1 DEF SupplyInput
  <2>2. fed \in 0 .. Len(Inputs) /\ fed < Len(Inputs) /\ Inputs \in Seq(Step)
    BY <1>1, <1>t, PlanTypes DEF SupplyInput, DataOK
  <2>3. Inputs[fed + 1] \in Step /\ fed + 1 \in 1 .. Len(Inputs) /\ fed + 1 > fed
    BY <2>2
  <2>4. state[Inputs[fed + 1]] = "pending" /\ Inputs[fed + 1] \in InputSteps
    BY <1>1, <2>3 DEF SupplyInput, IInv, StateInv, InputSteps
  <2>5. Settling(Inputs[fed + 1], r)
    BY <1>1, <2>1, <2>3, <2>4 DEF Settling
  <2>6. QED
    BY <2>3, <2>5 DEF Results
<1>2. CASE InlineFinish
  <2> DEFINE i == ready[launched]
  <2>1. i \in Step
    BY <1>2, <1>t DEF InlineFinish, DataOK, IInv, QueueInv
  <2>2. task[i] = "inlined" /\ Handle(i, result[i]) /\ pc = "inline"
    BY <1>2 DEF InlineFinish
  <2>3. result[i] \in Results /\ state[i] = "running"
    BY <1>t, <2>1, <2>2 DEF DataOK, IInv, StateInv
  <2>4. Settling(i, result[i])
    BY <1>2, <1>n, <2>1, <2>2, <2>3 DEF Settling
  <2>5. QED
    BY <2>1, <2>3, <2>4
<1>3. CASE SelectDone
  <2> DEFINE i == Head(done)
  <2>1. i \in Step /\ 1 \in 1 .. Len(done) /\ i = done[1]
    BY <1>3, <1>t DEF SelectDone, DataOK
  <2>2. Handle(i, result[i]) /\ pc = "select"
    BY <1>3 DEF SelectDone
  <2>3. task[i] \in {"release", "gone"} /\ state[i] = "running"
    BY <2>1, <2>2 DEF IInv, StateInv
  <2>4. result[i] \in Results
    BY <1>t, <2>1, <2>3 DEF DataOK, IInv, StateInv
  <2>5. Settling(i, result[i])
    BY <1>3, <1>n, <2>1, <2>2, <2>3 DEF Settling
  <2>6. QED
    BY <2>1, <2>4, <2>5
<1> QED
  BY <1>1, <1>2, <1>3 DEF Settles

\* What handle does to the verdict and to the states.
LEMMA SettlingEffect ==
  ASSUME IInv, NEW i \in Step, NEW r \in Results, Settling(i, r)
  PROVE  /\ state[i] \in {"pending", "running"}
         /\ state' = [state EXCEPT ![i] = Recorded(r)]
         /\ Recorded(r) \in {"succeeded", "failed", "cancelled"}
         /\ Recorded(r) = "succeeded" <=> r = "ok"
         /\ r # "ok" /\ ~stopped => stopped' /\ failedStep' = i
         /\ ~ (r # "ok" /\ ~stopped) => UNCHANGED <<stopped, failedStep, timer>>
         /\ UNCHANGED <<caller, unmet, ready, abandoned, mutations, ctxDone>>
         /\ pc \in {"supply", "inline", "select"} /\ pc' \in {"supply", "loop", "release"}
  BY DEF Settling, Handle, Resume, Recorded, Results, SupplyInput, InlineFinish, SelectDone

\* handle stops the run at the first failure and blames that step.
LEMMA VerdictSettles ==
  ASSUME IInv, VerdictInv, NEW i \in Step, NEW r \in Results, Settling(i, r)
  PROVE  VerdictInv'
<1>t. /\ state \in [Step -> States] /\ failedStep \in -1 .. N - 1 /\ i \in 0 .. N - 1
  BY DEF IInv, TypeOK, DataOK, Step
<1>1. \A j \in Step : state'[j] = IF j = i THEN Recorded(r) ELSE state[j]
  BY <1>t, SettlingEffect
<1>2. CASE r # "ok" /\ ~stopped
  <2>1. stopped' /\ failedStep' = i /\ caller' = caller
    BY <1>2, SettlingEffect
  <2>2. ~Failed /\ ~caller
    BY <1>2 DEF VerdictInv, Failed
  <2>3. ~caller' /\ failedStep' >= 0
    BY <1>t, <2>1, <2>2, SizeAssumption
  <2>4. state'[i] \in {"failed", "cancelled"}
    BY <1>1, <1>2, SettlingEffect
  <2>5. QED
    BY <2>1, <2>3, <2>4 DEF VerdictInv, Failed
<1>3. CASE ~ (r # "ok" /\ ~stopped)
  <2>1. UNCHANGED <<stopped, failedStep, timer, caller>>
    BY <1>3, SettlingEffect
  <2>2. failedStep # i \/ failedStep < 0
    BY <1>t, SettlingEffect DEF VerdictInv
  <2>3. failedStep >= 0 => state'[failedStep] = state[failedStep]
    BY <1>t, <1>1, <2>2, SizeAssumption DEF Step
  <2>4. state'[i] \in {"failed", "cancelled"} => stopped
    BY <1>1, <1>3, SettlingEffect
  <2>5. \A j \in Step : state'[j] \in {"failed", "cancelled"} => Failed
    BY <1>1, <2>4 DEF VerdictInv
  <2>6. QED
    BY <2>1, <2>3, <2>5 DEF VerdictInv, Failed
<1> QED
  BY <1>2, <1>3

\* The caller's giving up is the verdict only of a run that had none.
LEMMA VerdictCaller ==
  ASSUME IInv, VerdictInv, SelectCaller
  PROVE  VerdictInv'
<1>1. stopped' /\ UNCHANGED <<failedStep, state>>
  BY DEF SelectCaller
<1>2. caller' = (caller \/ ~stopped)
  BY DEF SelectCaller
<1>3. caller' <=> caller \/ ~stopped
  BY <1>2, Zenon
<1>4. Failed'
  BY <1>1, <1>3, Zenon DEF VerdictInv, Failed
<1>5. ~ (failedStep >= 0 /\ caller')
  BY <1>3, Zenon DEF VerdictInv, Failed
<1> QED
  BY <1>1, <1>4, <1>5 DEF VerdictInv

\* finalize leaves the verdict: the abandonment timer has fired only in a run
\* that had stopped.
LEMMA EndsVerdict ==
  ASSUME IInv, VerdictInv, Ends
  PROVE  /\ caller' <=> caller
         /\ SelectAbandon => Failed
<1>1. SelectAbandon => stopped /\ Failed
  BY DEF SelectAbandon, VerdictInv
<1>2. CASE SelectAbandon
  <2>1. caller' = (caller \/ (TRUE /\ ~Failed))
    BY <1>2 DEF SelectAbandon, Finalize
  <2>2. QED
    BY <1>1, <1>2, <2>1, Zenon
<1>3. CASE LoopEnds
  <2>1. caller' = (caller \/ (FALSE /\ ~Failed))
    BY <1>3 DEF LoopEnds, Finalize
  <2>2. caller' <=> caller
    BY <2>1, Zenon
  <2>3. QED
    BY <1>1, <2>2
<1> QED
  BY <1>2, <1>3 DEF Ends

\* The states Run returns.
LEMMA EndsStates ==
  ASSUME IInv, Ends
  PROVE  \A j \in Step : state'[j] = IF SelectAbandon /\ state[j] = "running" THEN "cancelled"
                                      ELSE IF state[j] = "pending" THEN "skipped" ELSE state[j]
<1>1. CASE SelectAbandon
  BY <1>1 DEF SelectAbandon, Finalize
<1>2. CASE ~SelectAbandon
  BY <1>2 DEF Ends, LoopEnds, Finalize
<1> QED
  BY <1>1, <1>2

\* Every step keeps the verdict.
LEMMA VerdictStep ==
  ASSUME IInv, VerdictInv, [Next]_vars
  PROVE  VerdictInv'
<1>t. state \in [Step -> States] /\ failedStep \in -1 .. N - 1
  BY DEF IInv, TypeOK, DataOK
<1>s. ASSUME UNCHANGED <<state, failedStep, caller, stopped>>, timer' # "off" => timer # "off"
      PROVE  VerdictInv'
  BY <1>s DEF VerdictInv, Failed
<1>1. CASE Quiet
  BY <1>1, <1>s, QuietFrame DEF execVars, ctxVars
<1>2. CASE Starts
  <2> DEFINE i == ready[launched + 1]
  <2>1. /\ i \in Step /\ state[i] = "pending" /\ state' = [state EXCEPT ![i] = "running"]
        /\ UNCHANGED <<failedStep, caller, stopped, timer>>
    BY <1>2, StartsForm DEF Begin, ctxVars
  <2>2. \A j \in Step : state'[j] = IF j = i THEN "running" ELSE state[j]
    BY <1>t, <2>1
  <2>3. failedStep >= 0 => failedStep \in Step /\ failedStep # i
    BY <1>t, <2>1 DEF VerdictInv, Step
  <2>4. QED
    BY <2>1, <2>2, <2>3 DEF VerdictInv, Failed
<1>3. CASE Ends
  <2>1. UNCHANGED <<stopped, failedStep>> /\ timer' = "off"
    BY <1>3, EndsFrame
  <2>2. (caller' <=> caller) /\ (SelectAbandon => Failed)
    BY <1>3, EndsVerdict
  <2>3. Failed' <=> Failed
    BY <2>1, <2>2, Zenon DEF Failed
  <2>4. failedStep >= 0 => failedStep \in Step
    BY <1>t DEF Step
  <2>5. failedStep >= 0 => state'[failedStep] = state[failedStep]
    BY <1>3, <2>4, EndsStates DEF VerdictInv
  <2>6. \A j \in Step : state'[j] \in {"failed", "cancelled"} => Failed
    BY <1>3, <2>2, EndsStates DEF VerdictInv
  <2>7. ~ (failedStep >= 0 /\ caller')
    BY <2>2, Zenon DEF VerdictInv
  <2>8. stopped' <=> Failed'
    BY <2>1, <2>3, Zenon DEF VerdictInv
  <2>9. QED
    BY <2>1, <2>3, <2>5, <2>6, <2>7, <2>8 DEF VerdictInv
<1>4. ASSUME NEW i \in Step, TaskStep(i) PROVE VerdictInv'
  BY <1>4, <1>s DEF TaskStep, execVars, coordVars, ctxVars
<1>5. CASE Outside
  <2>1. UNCHANGED <<state, failedStep, caller, stopped>>
    BY <1>5, OutsideFrame DEF coordVars, execVars
  <2>2. timer' # "off" => timer # "off"
    BY <1>5 DEF Outside, NodeWrites, CallerGivesUp, TimerFires, OtherTakes, OtherReturns, AllGone,
                vars, ctxVars
  <2>3. QED
    BY <1>s, <2>1, <2>2
<1> QED
  BY <1>1, <1>2, <1>3, <1>4, <1>5, VerdictCaller, SettlesForm, VerdictSettles, StepKinds

-----------------------------------------------------------------------------
(* Progress: nothing is forgotten.                                         *)

\* A running step stays busy or has its completion in the channel.
LEMMA RunningStep ==
  ASSUME IInv, RunningInv, [Next]_vars, pc' # "returned"
  PROVE  RunningInv'
<1>t. /\ state \in [Step -> States] /\ task \in [Step -> Tasks] /\ done \in Seq(Step)
  BY DEF IInv, TypeOK, DataOK
<1>s. ASSUME UNCHANGED <<state, task, done>> PROVE RunningInv'
  BY <1>s DEF RunningInv
<1>1. CASE Quiet
  BY <1>1, <1>s, QuietFrame DEF execVars, taskVars
<1>2. CASE SelectCaller
  BY <1>2, <1>s DEF SelectCaller, taskVars
<1>3. CASE Ends
  BY <1>3, EndsFrame
<1>4. CASE Outside
  BY <1>4, <1>s, OutsideFrame DEF execVars, taskVars
<1>5. CASE Starts
  <2> DEFINE i == ready[launched + 1]
  <2>1. /\ i \in Step /\ state' = [state EXCEPT ![i] = "running"] /\ done' = done
        /\ task' = [task EXCEPT ![i] = "invoke"]
    BY <1>5, StartsForm DEF Begin
  <2>2. \A j \in Step : /\ state'[j] = IF j = i THEN "running" ELSE state[j]
                        /\ task'[j] = IF j = i THEN "invoke" ELSE task[j]
    BY <1>t, <2>1
  <2>3. QED
    BY <2>1, <2>2 DEF RunningInv
<1>6. ASSUME NEW i \in Step, NEW r \in Results, Settling(i, r) PROVE RunningInv'
  <2>1. \A j \in Step : /\ j # i => state'[j] = state[j]
                        /\ state'[i] \in {"succeeded", "failed", "cancelled"}
    BY <1>t, <1>6, SettlingEffect
  <2>2. CASE SupplyInput
    BY <2>1, <2>2 DEF SupplyInput, taskVars, RunningInv
  <2>3. CASE InlineFinish /\ i = ready[launched]
    <3>1. task' = [task EXCEPT ![i] = "gone"] /\ done' = done
      BY <2>3 DEF InlineFinish
    <3>2. \A j \in Step : j # i => task'[j] = task[j]
      BY <1>t, <3>1
    <3>3. QED
      BY <2>1, <3>1, <3>2 DEF RunningInv
  <2>4. CASE SelectDone /\ i = Head(done)
    <3>1. task' = task /\ done # <<>> /\ done' = Tail(done) /\ i = done[1]
      BY <1>t, <2>4 DEF SelectDone
    <3>2. ASSUME NEW j \in Step, j # i, NEW k \in 1 .. Len(done), done[k] = j
          PROVE  k - 1 \in 1 .. Len(done') /\ done'[k - 1] = j
      BY <1>t, <3>1, <3>2
    <3>3. \A j \in Step : j # i /\ (\E k \in 1 .. Len(done) : done[k] = j) =>
                              \E k \in 1 .. Len(done') : done'[k] = j
      BY <3>2
    <3>4. QED
      BY <2>1, <3>1, <3>3 DEF RunningInv
  <2>5. QED
    BY <1>6, <2>2, <2>3, <2>4 DEF Settling
<1>7. ASSUME NEW i \in Step, TaskStep(i) PROVE RunningInv'
  <2>1. state' = state
    BY <1>7 DEF TaskStep, execVars
  <2>2. CASE Shifts(i)
    <3>1. done' = done /\ \A j \in Step : task'[j] = task[j] \/ task'[j] \in Busy
      BY <1>t, <2>2 DEF Shifts
    <3>2. QED
      BY <2>1, <3>1 DEF RunningInv, Busy
  <2>3. CASE Completes(i)
    <3>1. PICK r \in Results : Complete(i, r)
      BY <2>3 DEF Completes
    <3>2. CASE pc = "inline"
      <4>1. done' = done /\ task' = [task EXCEPT ![i] = "inlined"]
        BY <3>1, <3>2 DEF Complete
      <4>2. \A j \in Step : task'[j] = IF j = i THEN "inlined" ELSE task[j]
        BY <1>t, <4>1
      <4>3. QED
        BY <2>1, <4>1, <4>2 DEF RunningInv
    <3>3. CASE pc # "inline"
      <4>1. done' = Append(done, i) /\ task' = [task EXCEPT ![i] = "release"]
        BY <3>1, <3>3 DEF Complete
      <4>2. \A j \in Step : j # i => task'[j] = task[j]
        BY <1>t, <4>1
      <4>3. /\ Len(done') = Len(done) + 1 /\ Len(done) \in Nat
            /\ \A k \in 1 .. Len(done) : done'[k] = done[k]
            /\ done'[Len(done) + 1] = i
        BY <1>t, <4>1
      <4>4. /\ \E k \in 1 .. Len(done') : done'[k] = i
            /\ \A j : (\E k \in 1 .. Len(done) : done[k] = j) => \E k \in 1 .. Len(done') : done'[k] = j
        BY <4>3
      <4>5. QED
        BY <2>1, <4>2, <4>4 DEF RunningInv
    <3>4. QED
      BY <3>2, <3>3
  <2>4. CASE ReleaseSlot(i)
    <3>1. task[i] = "release" /\ task' = [task EXCEPT ![i] = "gone"] /\ done' = done
      BY <2>4 DEF ReleaseSlot
    <3>2. \A j \in Step : task[j] \in {"invoke", "wait", "inlined"} => task'[j] = task[j]
      BY <1>t, <3>1
    <3>3. QED
      BY <2>1, <3>1, <3>2 DEF RunningInv
  <2>5. QED
    BY <1>7, <2>2, <2>3, <2>4 DEF TaskStep
<1> QED
  BY <1>1, <1>2, <1>3, <1>4, <1>5, <1>6, <1>7, SettlesForm, StepKinds

\* supplyInputs settles the inputs in order, and the main loop starts after it.
LEMMA SupplyStep ==
  ASSUME IInv, SupplyInv, [Next]_vars, pc' # "returned"
  PROVE  SupplyInv'
<1>t. /\ state \in [Step -> States] /\ Inputs \in Seq(Step) /\ fed \in 0 .. Len(Inputs)
      /\ \A k \in 1 .. Len(Inputs) : Inputs[k] \in Step /\ Inputs[k] \in InputSteps
  <2>1. state \in [Step -> States] /\ fed \in 0 .. Len(Inputs)
    BY DEF IInv, TypeOK, DataOK
  <2>2. Inputs \in Seq(Step) /\ \A k \in 1 .. Len(Inputs) : Inputs[k] \in Step
    BY PlanTypes
  <2>3. \A k \in 1 .. Len(Inputs) : Inputs[k] \in InputSteps
    BY DEF InputSteps
  <2>4. QED
    BY <2>1, <2>2, <2>3
<1>s. ASSUME fed' = fed, \A k \in 1 .. Len(Inputs) : state'[Inputs[k]] = state[Inputs[k]],
             ~Supplying' => ~Supplying \/ fed = Len(Inputs)
      PROVE  SupplyInv'
  <2>1. \A k \in 1 .. fed : k \in 1 .. Len(Inputs)
    BY <1>t
  <2>2. \A k \in 1 .. fed' : state'[Inputs[k]] \in {"succeeded", "failed"}
    BY <1>s, <2>1 DEF SupplyInv
  <2>3. QED
    BY <1>s, <2>2 DEF SupplyInv
<1>1. CASE Quiet
  <2>1. UNCHANGED <<fed, state>>
    BY <1>1, QuietFrame DEF execVars
  <2>2. ~Supplying' => ~Supplying \/ fed = Len(Inputs)
    <3>1. CASE SupplyRoots
      BY <3>1 DEF SupplyRoots
    <3>2. CASE ReleaseNext
      BY <3>2 DEF ReleaseNext, Supplying, IInv, TypeOK, DataOK
    <3>3. CASE ReleaseDone
      BY <3>3 DEF ReleaseDone, Supplying, Resume
    <3>4. CASE NotInline \/ PumpDone
      BY <3>4 DEF NotInline, PumpDone, Supplying
    <3>5. QED
      BY <1>1, <3>1, <3>2, <3>3, <3>4 DEF Quiet
  <2>3. QED
    BY <1>s, <2>1, <2>2
<1>2. CASE SelectCaller
  BY <1>2, <1>s DEF SelectCaller, Supplying
<1>3. CASE Ends
  BY <1>3, EndsFrame
<1>4. CASE Outside \/ \E i \in Step : TaskStep(i)
  <2>1. UNCHANGED <<coordVars, execVars>>
    BY <1>4, OutsideFrame DEF TaskStep
  <2>2. QED
    BY <1>s, <2>1 DEF Supplying, coordVars, execVars
<1>5. CASE Starts
  <2> DEFINE i == ready[launched + 1]
  <2>1. /\ i \in Step /\ i \notin InputSteps /\ state' = [state EXCEPT ![i] = "running"] /\ fed' = fed
        /\ pc \in {"loop", "pump", "select"}
    BY <1>5, StartsForm DEF Begin
  <2>2. QED
    BY <1>s, <1>t, <2>1 DEF Supplying
<1>6. ASSUME NEW i \in Step, NEW r \in Results, Settling(i, r) PROVE SupplyInv'
  <2>1. CASE i \notin InputSteps
    <3>1. ~Supplying /\ fed' = fed
      BY <1>6, <2>1 DEF Settling, Supplying, InlineFinish, SelectDone
    <3>2. \A k \in 1 .. Len(Inputs) : state'[Inputs[k]] = state[Inputs[k]]
      BY <1>6, <1>t, <2>1, SettlingEffect
    <3>3. QED
      BY <1>s, <3>1, <3>2
  <2>2. CASE i \in InputSteps
    <3>1. /\ SupplyInput /\ i = Inputs[fed + 1] /\ fed + 1 \in 1 .. Len(Inputs) /\ r \in {"ok", "failed"}
          /\ fed' = fed + 1
      BY <1>6, <2>2 DEF Settling, SupplyInput
    <3>2. \A k \in 1 .. Len(Inputs) : k # fed + 1 => state'[Inputs[k]] = state[Inputs[k]]
      <4>1. \A k \in 1 .. Len(Inputs) : Inputs[k] = i => k = fed + 1
        BY <3>1, PlanLayout
      <4>2. QED
        BY <1>6, <1>t, <4>1, SettlingEffect
    <3>3. state'[i] \in {"succeeded", "failed"}
      BY <1>6, <1>t, <3>1, SettlingEffect DEF Recorded
    <3>4. Supplying'
      <4>1. pc' = "supply" \/ (pc' = "release" /\ cursor' = <<i, 1>>)
        BY <1>6, <2>2 DEF Settling, Handle, Resume
      <4>2. QED
        BY <2>2, <4>1 DEF Supplying
    <3>5. QED
      BY <1>t, <3>1, <3>2, <3>3, <3>4 DEF SupplyInv
  <2>3. QED
    BY <2>1, <2>2
<1> QED
  BY <1>1, <1>2, <1>3, <1>4, <1>5, <1>6, SettlesForm, StepKinds

\* A step that leaves the queue and what is outstanding alone.
LEMMA ReadyFrame ==
  ASSUME ReadyInv, ~stopped' => ~stopped /\ ready' = ready /\ (Supplying => Supplying'),
         ~stopped' => \A j \in Step : Outstanding(j)' = Outstanding(j)
  PROVE  ReadyInv'
  BY DEF ReadyInv

\* Whatever has nothing outstanding is queued: the release loop appends a step
\* with its last dependency, supplyInputs the roots.
LEMMA ReadyStep ==
  ASSUME IInv, ReadyInv, [Next]_vars, pc' # "returned"
  PROVE  ReadyInv'
<1>t. ready \in Seq(Step) /\ Roots \in Seq(Step) /\ DataOK /\ CountInv
  BY PlanTypes DEF IInv, TypeOK, DataOK
<1>1. CASE SupplyRoots
  <2>1. ready' = ready \o Roots /\ pc = "supply" /\ pc' = "loop" /\ stopped' = stopped
    BY <1>1 DEF SupplyRoots
  <2>2. \A j \in Step : Outstanding(j)' = Outstanding(j)
    BY <1>1, RootsQueue, OutstandingSame DEF SameCount
  <2>3. /\ Len(ready') = Len(ready) + Len(Roots) /\ Len(ready) \in Nat /\ Len(Roots) \in Nat
        /\ \A k \in 1 .. Len(ready) : ready'[k] = ready[k]
        /\ \A k \in 1 .. Len(Roots) : ready'[Len(ready) + k] = Roots[k]
    BY <1>t, <2>1
  <2>4. ASSUME NEW i \in RootSteps PROVE \E k \in 1 .. Len(ready') : ready'[k] = i
    <3>1. PICK k \in 1 .. Len(Roots) : Roots[k] = i
      BY DEF RootSteps
    <3>2. Len(ready) + k \in 1 .. Len(ready') /\ ready'[Len(ready) + k] = i
      BY <2>3, <3>1
    <3>3. QED
      BY <3>2
  <2>5. ASSUME NEW i \in Step \ InputSteps, ~stopped, Outstanding(i) = {}, i \notin RootSteps
        PROVE  \E k \in 1 .. Len(ready') : ready'[k] = i
    BY <2>3, <2>5 DEF ReadyInv
  <2>6. QED
    BY <2>1, <2>2, <2>4, <2>5 DEF ReadyInv
<1>2. CASE ReleaseNext
  <2> DEFINE d == Target(cursor)
  <2>1. /\ ready' = (IF unmet[d] = 1 THEN Append(ready, d) ELSE ready) /\ stopped' = stopped
        /\ pc = "release" /\ pc' = "release" /\ cursor'[1] = cursor[1]
    BY <1>2 DEF ReleaseNext
  <2>2. ASSUME ~stopped, NEW i \in Step \ InputSteps, Outstanding(i)' = {}, Supplying' => i \notin RootSteps
        PROVE  \E k \in 1 .. Len(ready') : ready'[k] = i
    <3>s. Supplying => i \notin RootSteps
      BY <2>1, <2>2 DEF Supplying
    <3>1. CASE i # d
      <4>1. Outstanding(i) = {}
        BY <1>2, <1>t, <2>2, <3>1, OutstandingRelease
      <4>2. PICK k \in 1 .. Len(ready) : ready[k] = i
        BY <2>2, <3>s, <4>1 DEF ReadyInv
      <4>3. k \in 1 .. Len(ready') /\ ready'[k] = i
        BY <1>t, <2>1, <4>2, OutstandingRelease, <1>2, EdgeShape
      <4>4. QED
        BY <4>3
    <3>2. CASE i = d
      <4>1. cursor \in Outstanding(i) /\ Outstanding(i)' = Outstanding(i) \ {cursor}
        BY <1>2, <1>t, <3>2, OutstandingRelease
      <4>2. Outstanding(i) = {cursor}
        BY <2>2, <3>2, <4>1
      <4>3. Cardinality(Outstanding(i)) = 1
        BY <4>2, FS_Singleton
      <4>4. unmet[d] = 1
        BY <1>t, <2>2, <3>2, <4>3 DEF CountInv
      <4>5. ready' = Append(ready, i) /\ i \in Step
        BY <2>1, <2>2, <3>2, <4>4
      <4>6. Len(ready) + 1 \in 1 .. Len(ready') /\ ready'[Len(ready) + 1] = i
        BY <1>t, <4>5
      <4>7. QED
        BY <4>6
    <3>3. QED
      BY <3>1, <3>2
  <2>3. QED
    BY <2>1, <2>2 DEF ReadyInv
<1>3. CASE ReleaseDone
  <2>1. \A j \in Step : Outstanding(j)' = Outstanding(j)
    BY <1>3, ReleaseDoneCount
  <2>2. UNCHANGED <<ready, stopped>> /\ (Supplying => Supplying')
    BY <1>3 DEF ReleaseDone, Supplying, Resume
  <2>3. QED
    BY <2>1, <2>2, ReadyFrame
<1>4. CASE NotInline \/ PumpDone
  <2>1. \A j \in Step : Outstanding(j)' = Outstanding(j)
    BY <1>4, QuietSteps, OutstandingSame DEF SameCount
  <2>2. UNCHANGED <<ready, stopped>> /\ ~Supplying
    BY <1>4 DEF NotInline, PumpDone, Supplying
  <2>3. QED
    BY <2>1, <2>2, ReadyFrame
<1>5. CASE SelectCaller
  BY <1>5 DEF SelectCaller, ReadyInv
<1>6. CASE Starts
  <2>1. \A j \in Step : Outstanding(j)' = Outstanding(j)
    BY <1>6, StartCount, OutstandingSame DEF SameCount, Starts
  <2>2. UNCHANGED <<ready, stopped>> /\ ~Supplying
    BY <1>6, StartsForm DEF Begin, Supplying
  <2>3. QED
    BY <2>1, <2>2, ReadyFrame
<1>7. ASSUME NEW i \in Step, NEW r \in Results, Settling(i, r) PROVE ReadyInv'
  <2>1. Handle(i, r) /\ state[i] # "succeeded" /\ pc # "release" /\ ready' = ready
    BY <1>7, SettlingEffect DEF Settling
  <2>2. ~stopped' => \A j \in Step : Outstanding(j)' = Outstanding(j)
    BY <1>t, <2>1, OutstandingHandle
  <2>3. stopped => stopped'
    BY <2>1 DEF Handle
  <2>4. Supplying => Supplying'
    <3>1. Supplying => i \in InputSteps
      BY <1>7 DEF Settling, Supplying, InlineFinish, SelectDone
    <3>2. i \in InputSteps => pc' = "supply" \/ (pc' = "release" /\ cursor' = <<i, 1>>)
      BY <1>7 DEF Settling, Handle, Resume
    <3>3. QED
      BY <3>1, <3>2 DEF Supplying
  <2>5. QED
    BY <2>1, <2>2, <2>3, <2>4, ReadyFrame
<1>8. CASE Outside \/ \E i \in Step : TaskStep(i)
  <2>1. UNCHANGED <<coordVars, execVars>>
    BY <1>8, OutsideFrame DEF TaskStep
  <2>2. UNCHANGED <<ready, stopped>> /\ (Supplying => Supplying')
    BY <2>1 DEF Supplying, coordVars
  <2>3. \A j \in Step : Outstanding(j)' = Outstanding(j)
    BY <2>1 DEF Outstanding, coordVars, execVars
  <2>4. QED
    BY <2>2, <2>3, ReadyFrame
<1>9. CASE Ends
  BY <1>9, EndsFrame
<1> QED
  BY <1>1, <1>2, <1>3, <1>4, <1>5, <1>6, <1>7, <1>8, <1>9, SettlesForm, StepKinds DEF Quiet

\* The coordinator blocks in its select only when pump had nothing to start.
LEMMA PumpStep ==
  ASSUME IInv, PumpInv, [Next]_vars, pc' # "returned"
  PROVE  PumpInv'
<1>1. CASE Quiet
  <2>1. CASE SupplyRoots \/ ReleaseNext \/ ReleaseDone
    BY <2>1 DEF SupplyRoots, ReleaseNext, ReleaseDone, Resume, PumpInv
  <2>2. CASE NotInline
    BY <2>2 DEF NotInline, PumpInv
  <2>3. CASE PumpDone
    <3>1. pc' = "select" /\ UNCHANGED <<launched, ready, inflight>> /\ ~ (Startable /\ SlotFree)
      BY <2>3 DEF PumpDone
    <3>2. QED
      BY <3>1 DEF PumpInv, SlotFree, Startable
  <2>4. QED
    BY <1>1, <2>1, <2>2, <2>3 DEF Quiet
<1>2. CASE SelectCaller
  BY <1>2 DEF SelectCaller, PumpInv
<1>3. CASE Starts
  <2>1. pc' \in {"inline", "pump", "loop"} /\ stopped' = stopped /\ (pc' = "pump" => pc = "pump")
    BY <1>3, StartsForm DEF Begin, Starts, InlineStart, PumpLaunch, SelectSlot
  <2>2. QED
    BY <2>1 DEF PumpInv
<1>4. CASE Settles
  BY <1>4, SettlesForm, SettlingEffect DEF PumpInv
<1>5. CASE Outside \/ \E i \in Step : TaskStep(i)
  <2>1. UNCHANGED <<pc, stopped, launched, ready, inflight>>
    BY <1>5, OutsideFrame DEF TaskStep, coordVars
  <2>2. QED
    BY <2>1 DEF PumpInv, Startable
<1>6. CASE Ends
  BY <1>6, EndsFrame
<1> QED
  BY <1>1, <1>2, <1>3, <1>4, <1>5, <1>6, StepKinds

\* A run that has returned does not come back.
LEMMA ReturnedStays ==
  ASSUME [Next]_vars, pc = "returned"
  PROVE  /\ Outside \/ \E i \in Step : TaskStep(i)
         /\ UNCHANGED <<coordVars, execVars>>
<1>1. ~Quiet /\ ~SelectCaller /\ ~Starts /\ ~Settles /\ ~Ends
  BY DEF Quiet, SupplyRoots, ReleaseNext, ReleaseDone, NotInline, PumpDone, SelectCaller, Starts,
         InlineStart, PumpLaunch, SelectSlot, Settles, SupplyInput, InlineFinish, SelectDone,
         Ends, SelectAbandon, LoopEnds
<1> QED
  BY <1>1, StepKinds, OutsideFrame DEF TaskStep

\* Every step keeps the account of what is left to do.
LEMMA ProgressStep ==
  ASSUME IInv, ProgressInv, [Next]_vars
  PROVE  ProgressInv'
<1>1. CASE pc' = "returned"
  BY <1>1 DEF ProgressInv
<1>2. CASE pc' # "returned"
  <2>1. pc # "returned"
    BY <1>2, ReturnedStays DEF coordVars
  <2>2. QED
    BY <1>2, <2>1, RunningStep, SupplyStep, ReadyStep, PumpStep DEF ProgressInv
<1> QED
  BY <1>1, <1>2

-----------------------------------------------------------------------------
(* What Run returns.                                                       *)

\* The reverse edges into a step come from its dependencies.
LEMMA OutstandingDeps ==
  ASSUME NEW i \in Step, pc # "release",
         \A p \in 1 .. Len(Deps[i]) : state[Deps[i][p]] = "succeeded"
  PROVE  Outstanding(i) = {}
<1> SUFFICES ASSUME NEW e \in EdgesInto(i), state[e[1]] # "succeeded" PROVE FALSE
  BY DEF Outstanding
<1>1. e[1] \in Step
  BY EdgeShape DEF EdgesInto
<1>2. PICK p \in 1 .. Len(Deps[i]) : Deps[i][p] = e[1]
  BY <1>1, PlanLayout
<1> QED
  BY <1>2

\* The loop ends with nothing in flight: no step executes and none is running.
LEMMA NothingInFlight ==
  ASSUME IInv, FlightInv, LoopEnds
  PROVE  Executing = {} /\ (RunningInv => \A i \in Step : state[i] # "running")
<1>1. pc = "select" /\ inflight = 0 /\ done \in Seq(Step)
  BY DEF LoopEnds, IInv, TypeOK, DataOK
<1>2. Cardinality(Executing) = 0 /\ Len(done) = 0 /\ \A i \in Step : task[i] # "inlined"
  BY <1>1, TasksFinite DEF FlightInv
<1>3. Executing = {}
  BY <1>2, TasksFinite, FS_EmptySet
<1> QED
  BY <1>2, <1>3 DEF RunningInv, Executing

\* The graph is finished: when nothing is in flight and nothing may start, a run
\* without a failure has run every step to success.
LEMMA LoopEndsComplete ==
  ASSUME IInv, FlightInv, VerdictInv, ProgressInv, LoopEnds
  PROVE  ~Failed => \A i \in Step : state[i] = "succeeded"
<1> SUFFICES ASSUME ~Failed PROVE \A i \in Step : state[i] = "succeeded"
  OBVIOUS
<1>1. pc = "select" /\ inflight = 0 /\ ~Waiting /\ ~stopped
  BY DEF LoopEnds, VerdictInv
<1>2. RunningInv /\ SupplyInv /\ ReadyInv /\ PumpInv
  BY <1>1 DEF ProgressInv
<1>t. /\ state \in [Step -> States] /\ task \in [Step -> Tasks] /\ done \in Seq(Step)
      /\ launched \in 0 .. Len(ready) /\ ready \in Seq(Step)
      /\ SlotCap \in Nat /\ MaxConcurrency \in Nat \ {0}
  BY OptionAssumption DEF IInv, TypeOK, DataOK
<1>3. \A i \in Step : state[i] # "running"
  BY <1>2, NothingInFlight
<1>6. \A i \in Step : state[i] # "succeeded" => state[i] = "pending"
  BY <1>2, <1>3, <1>t DEF RunningInv, VerdictInv, States
<1>7. ~Startable
  BY <1>1, <1>2, <1>t DEF Waiting, PumpInv
<1>8. launched = Len(ready)
  BY <1>1, <1>7, <1>t DEF Startable
<1>9. ASSUME NEW k \in 1 .. Len(ready) PROVE state[ready[k]] = "succeeded"
  <2>1. ready[k] \in Step /\ task[ready[k]] # "idle" /\ ready[k] \notin InputSteps
    BY <1>8, <1>t DEF IInv, QueueInv
  <2>2. state[ready[k]] # "pending"
    BY <1>1, <2>1 DEF IInv, StateInv
  <2>3. QED
    BY <1>6, <2>1, <2>2
<1>10. ASSUME NEW i \in InputSteps PROVE state[i] = "succeeded"
  <2>1. PICK k \in 1 .. Len(Inputs) : Inputs[k] = i
    BY DEF InputSteps
  <2>2. fed = Len(Inputs)
    BY <1>1, <1>2 DEF SupplyInv, Supplying
  <2>3. state[i] \in {"succeeded", "failed"} /\ i \in Step
    <3>1. k \in 1 .. fed /\ Inputs[k] \in Step
      BY <2>1, <2>2, PlanTypes
    <3>2. QED
      BY <1>2, <2>1, <3>1 DEF SupplyInv
  <2>4. QED
    BY <1>6, <2>3
<1> DEFINE Left == {i \in Step : state[i] # "succeeded"}
<1>11. SUFFICES ASSUME Left # {} PROVE FALSE
  OBVIOUS
<1>12. PICK i \in Left : \A p \in 1 .. Len(Deps[i]) : Deps[i][p] \notin Left
  BY <1>11, PlanAcyclic
<1>13. \A p \in 1 .. Len(Deps[i]) : state[Deps[i][p]] = "succeeded"
  BY SMTT(20), <1>12, PlanTypes
<1>14. Outstanding(i) = {}
  BY <1>1, <1>12, <1>13, OutstandingDeps
<1>15. i \in Step \ InputSteps
  BY <1>10, <1>12
<1>16. PICK k \in 1 .. Len(ready) : ready[k] = i
  BY <1>1, <1>2, <1>14, <1>15 DEF ReadyInv, Supplying
<1> QED
  BY <1>9, <1>12, <1>16

\* Run returns an honest report.
LEMMA HonestEnds ==
  ASSUME IInv, FlightInv, VerdictInv, ProgressInv, Ends
  PROVE  HonestReport'
<1>t. state \in [Step -> States] /\ failedStep \in -1 .. N - 1
  BY DEF IInv, TypeOK, DataOK
<1>1. UNCHANGED <<stopped, failedStep, task>> /\ pc = "select"
  BY EndsFrame DEF taskVars
<1>2. (caller' <=> caller) /\ (SelectAbandon => Failed)
  BY EndsVerdict
<1>3. Failed' <=> Failed
  BY <1>1, <1>2, Zenon DEF Failed
<1>r. LoopEnds => \A i \in Step : state[i] # "running"
  BY <1>1, NothingInFlight DEF ProgressInv
<1>4. \A i \in Step : state'[i] \in Terminal
  BY <1>t, <1>r, EndsStates DEF Terminal, States, Ends
<1>5. ~Failed => \A i \in Step : state'[i] = "succeeded"
  BY <1>2, LoopEndsComplete, EndsStates DEF Ends
<1>6. failedStep >= 0 => state'[failedStep] \in {"failed", "cancelled"}
  <2>1. failedStep >= 0 => failedStep \in Step
    BY <1>t DEF Step
  <2>2. QED
    BY <2>1, EndsStates DEF VerdictInv
<1>7. ~ (failedStep >= 0 /\ caller')
  BY <1>2, Zenon DEF VerdictInv
<1>8. ASSUME NEW i \in Step, state'[i] = "skipped" PROVE task'[i] = "idle"
  <2>1. state[i] = "pending"
    BY <1>1, <1>8, <1>t, EndsStates DEF ProgressInv, RunningInv
  <2>2. task[i] = "idle"
    BY <1>1, <2>1 DEF IInv, StateInv, QueueInv
  <2>3. QED
    BY <1>1, <2>2
<1> QED
  BY <1>1, <1>3, <1>4, <1>5, <1>6, <1>7, <1>8 DEF HonestReport

\* Run returns through finalize only.
LEMMA OnlyEnds ==
  ASSUME IInv, [Next]_vars, ~Ends, pc # "returned"
  PROVE  pc' # "returned"
<1>1. CASE Quiet
  BY <1>1, QuietFrame
<1>2. CASE SelectCaller
  BY <1>2 DEF SelectCaller
<1>3. CASE Starts
  BY <1>3, StartsForm
<1>4. CASE Settles
  BY <1>4, SettlesForm, SettlingEffect
<1>5. CASE Outside \/ \E i \in Step : TaskStep(i)
  BY <1>5, OutsideFrame DEF TaskStep, coordVars
<1> QED
  BY <1>1, <1>2, <1>3, <1>4, <1>5, StepKinds

\* No goroutine that Run left behind starts over.
LEMMA LeftBehind ==
  ASSUME IInv, [Next]_vars, pc = "returned"
  PROVE  /\ \A i \in Step : task[i] = "idle" => task'[i] = "idle"
         /\ Executing' \subseteq Executing
<1>1. task \in [Step -> Tasks]
  BY DEF IInv, TypeOK, DataOK
<1>2. CASE Outside
  BY <1>2, OutsideFrame DEF taskVars, Executing
<1>3. ASSUME NEW i \in Step, TaskStep(i)
      PROVE  \A j \in Step : /\ task[j] = "idle" => task'[j] = "idle"
                             /\ task'[j] \in Busy => task[j] \in Busy
  BY <1>1, <1>3 DEF TaskStep, Shifts, Completes, Complete, ReleaseSlot, Busy
<1> QED
  BY <1>2, <1>3, ReturnedStays DEF Executing, Busy

\* The report stays honest while abandoned steps go on after Run returned.
LEMMA HonestStep ==
  ASSUME IInv, FlightInv, VerdictInv, ProgressInv, HonestReport, [Next]_vars
  PROVE  HonestReport'
<1>1. CASE Ends
  BY <1>1, HonestEnds
<1>2. CASE ~Ends /\ pc # "returned"
  BY <1>2, OnlyEnds DEF HonestReport
<1>3. CASE pc = "returned"
  <2>1. UNCHANGED <<pc, state, failedStep, caller>>
    BY <1>3, ReturnedStays DEF coordVars, execVars
  <2>2. \A i \in Step : task[i] = "idle" => task'[i] = "idle"
    BY <1>3, LeftBehind
  <2>3. QED
    BY <2>1, <2>2 DEF HonestReport, Failed
<1> QED
  BY <1>1, <1>2, <1>3

\* Run leaves a step behind only through the abandonment arm, and counts it.
LEMMA CutShortStep ==
  ASSUME IInv, FlightInv, VerdictInv, NeverCutShort, [Next]_vars
  PROVE  NeverCutShort'
<1>1. CASE LoopEnds
  <2>1. task' = task
    BY <1>1 DEF LoopEnds, Finalize, taskVars
  <2>2. Executing' = {}
    BY <1>1, <2>1, NothingInFlight, CountsStay
  <2>3. QED
    BY <2>2 DEF NeverCutShort
<1>2. CASE SelectAbandon
  <2> DEFINE left == {i \in Step : state[i] = "running"}
  <2>1. /\ pc = "select" /\ task' = task /\ abandoned' = abandoned + Cardinality(left)
        /\ UNCHANGED <<stopped, failedStep>>
    BY <1>2 DEF SelectAbandon, Finalize, taskVars
  <2>2. stopped /\ Failed
    BY <1>2 DEF SelectAbandon, VerdictInv
  <2>3. Failed'
    <3>1. caller' <=> caller
      BY <1>2, EndsVerdict DEF Ends
    <3>2. QED
      BY <2>1, <2>2, <3>1, Zenon DEF Failed
  <2>4. Executing' # {} => left # {}
    BY <2>1 DEF Executing, IInv, StateInv
  <2>5. IsFiniteSet(left)
    BY StepFinite, FS_Subset
  <2>6. abandoned \in Nat /\ Cardinality(left) \in Nat /\ (left # {} => Cardinality(left) # 0)
    BY <2>5, FS_CardinalityType, FS_EmptySet DEF IInv, TypeOK, DataOK
  <2> HIDE DEF left
  <2>7. Executing' # {} => abandoned' > 0
    BY <2>1, <2>4, <2>6
  <2>8. QED
    BY <2>1, <2>2, <2>3, <2>7 DEF NeverCutShort
<1>3. CASE ~Ends /\ pc # "returned"
  BY <1>3, OnlyEnds DEF NeverCutShort
<1>4. CASE pc = "returned"
  <2>1. UNCHANGED <<pc, stopped, failedStep, caller, abandoned>>
    BY <1>4, ReturnedStays DEF coordVars, execVars
  <2>2. Executing' \subseteq Executing
    BY <1>4, LeftBehind
  <2>3. Failed' <=> Failed
    BY <2>1 DEF Failed
  <2>4. QED
    BY <1>4, <2>1, <2>2, <2>3 DEF NeverCutShort
<1> QED
  BY <1>1, <1>2, <1>3, <1>4 DEF Ends

-----------------------------------------------------------------------------
(* The mutation guard.                                                     *)

\* Only a node that returns says what it returned.
LEMMA NotReturning ==
  ASSUME [Next]_vars, ~ \E i \in Step : NodeReturns(i)
  PROVE  UNCHANGED <<outcome, memory>>
<1>1. CASE Quiet
  BY <1>1, QuietFrame DEF taskVars
<1>2. CASE SelectCaller \/ Settles
  BY <1>2 DEF SelectCaller, Settles, SupplyInput, InlineFinish, SelectDone, taskVars
<1>3. CASE Ends
  BY <1>3, EndsFrame DEF taskVars
<1>4. CASE Starts
  BY <1>4 DEF Starts, InlineStart, PumpLaunch, SelectSlot, Launch, Begin
<1>5. CASE \E i \in Step : StepTask(i)
  BY <1>5 DEF StepTask, BackoffElapses, BackoffCancelled, ReleaseSlot
<1>6. CASE Outside
  BY <1>6, OutsideFrame DEF taskVars
<1>7. CASE Coordinator
  BY <1>1, <1>2, <1>3, <1>4, <1>7 DEF Coordinator, Quiet, Starts, Settles, Ends
<1>8. CASE ~Coordinator /\ ~ \E i \in Step : StepTask(i)
  <2>1. Outside
    BY <1>8 DEF Next, Outside
  <2>2. QED
    BY <1>6, <2>1
<1> QED
  BY <1>5, <1>7, <1>8

\* What a node returns is its own, or a value one of its dependencies returned.
LEMMA ReturningEffect ==
  ASSUME IInv, NEW i \in Step, NodeReturns(i)
  PROVE  /\ task[i] = "invoke" /\ UNCHANGED <<coordVars, execVars, guardVars>>
         /\ \A j \in Step : j # i => memory'[j] = memory[j]
         /\ \/ memory'[i] = i
            \/ \E d \in Step : state[d] = "succeeded" /\ memory'[i] = memory[d]
<1>t. memory \in [Step -> Step]
  BY DEF IInv, TypeOK, DataOK
<1>1. task[i] = "invoke" /\ UNCHANGED <<coordVars, execVars, guardVars>>
  BY DEF NodeReturns
<1>2. PICK o \in Outcomes : \E m \in Returnable(i, o) : memory' = [memory EXCEPT ![i] = m]
  BY DEF NodeReturns
<1>3. PICK m \in Returnable(i, o) : memory' = [memory EXCEPT ![i] = m]
  BY <1>2
<1>4. memory'[i] = m /\ \A j \in Step : j # i => memory'[j] = memory[j]
  BY <1>t, <1>3
<1>5. m = i \/ \E p \in 1 .. Len(Deps[i]) : m = memory[Deps[i][p]]
  BY DEF Returnable
<1>6. \A p \in 1 .. Len(Deps[i]) : Deps[i][p] \in Step /\ state[Deps[i][p]] = "succeeded"
  <2>1. \A p \in 1 .. Len(Deps[i]) : Deps[i][p] \in Step
    BY PlanTypes
  <2>2. \A p \in 1 .. Len(Deps[i]) : state[Deps[i][p]] = "succeeded"
    BY <1>1, DependenciesSucceeded DEF DependenciesFirst
  <2> QED
    BY <2>1, <2>2
<1> QED
  BY <1>1, <1>4, <1>5, <1>6

\* A step that succeeded stays so.
LEMMA SucceededStays ==
  ASSUME IInv, [Next]_vars, NEW j \in Step, state[j] = "succeeded"
  PROVE  state'[j] = "succeeded"
<1>t. state \in [Step -> States]
  BY DEF IInv, TypeOK, DataOK
<1>1. CASE Quiet
  BY <1>1, QuietFrame DEF execVars
<1>2. CASE SelectCaller
  BY <1>2 DEF SelectCaller
<1>3. CASE Starts
  BY <1>t, <1>3, StartsForm DEF Begin
<1>4. CASE Settles
  <2>1. PICK i \in Step, r \in Results : Settling(i, r)
    BY <1>4, SettlesForm
  <2>2. state[i] \in {"pending", "running"} /\ state' = [state EXCEPT ![i] = Recorded(r)]
    BY <2>1, SettlingEffect
  <2>3. QED
    BY <1>t, <2>2
<1>5. CASE Ends
  BY <1>5, EndsStates
<1>6. CASE \E i \in Step : TaskStep(i)
  BY <1>6 DEF TaskStep, execVars
<1>7. CASE Outside
  BY <1>7, OutsideFrame DEF execVars
<1> QED
  BY <1>1, <1>2, <1>3, <1>4, <1>5, <1>6, <1>7, StepKinds

\* A node under way has not succeeded, after Run returned either.
LEMMA BusyStep ==
  ASSUME IInv, MemoryInv, [Next]_vars, NEW j \in Step, task'[j] \in Busy
  PROVE  state'[j] # "succeeded"
<1>t. task \in [Step -> Tasks] /\ state \in [Step -> States]
  BY DEF IInv, TypeOK, DataOK
<1>1. CASE pc' # "returned"
  <2>1. StateInv'
    BY IInvStep DEF IInv
  <2>2. QED
    BY <1>1, <2>1 DEF StateInv, Busy
<1>2. CASE Ends
  <2>1. task' = task /\ pc = "select"
    BY <1>2, EndsFrame DEF taskVars
  <2>2. state[j] = "running"
    BY <2>1 DEF IInv, StateInv, Busy
  <2>3. QED
    BY <1>2, <2>2, EndsStates
<1>3. CASE pc = "returned"
  <2>1. UNCHANGED execVars
    BY <1>3, ReturnedStays
  <2>2. task[j] \in Busy
    <3>1. CASE Outside
      BY <3>1, OutsideFrame DEF taskVars
    <3>2. ASSUME NEW i \in Step, TaskStep(i) PROVE task[j] \in Busy
      BY <1>t, <3>2 DEF TaskStep, Shifts, Completes, Complete, ReleaseSlot, Busy
    <3>3. QED
      BY <1>3, <3>1, <3>2, ReturnedStays
  <2>3. QED
    BY <2>1, <2>2 DEF MemoryInv, Busy, execVars
<1> QED
  BY <1>1, <1>2, <1>3, OnlyEnds

\* A value passed on keeps its maker.
LEMMA MemoryStep ==
  ASSUME IInv, MemoryInv, [Next]_vars
  PROVE  MemoryInv'
<1>t. memory \in [Step -> Step]
  BY DEF IInv, TypeOK, DataOK
<1>b. \A j \in Step : task'[j] \in {"invoke", "wait"} => state'[j] # "succeeded"
  BY BusyStep DEF Busy
<1>s. \A j \in Step : state[j] = "succeeded" => state'[j] = "succeeded"
  BY SucceededStays
<1>m. \A j \in Step : memory[j] \in Step
  BY <1>t
<1>1. CASE ~ \E i \in Step : NodeReturns(i)
  <2>1. memory' = memory
    BY <1>1, NotReturning
  <2>2. QED
    BY <1>b, <1>s, <1>m, <2>1 DEF MemoryInv
<1>2. ASSUME NEW i \in Step, NodeReturns(i) PROVE MemoryInv'
  <2>1. /\ task[i] = "invoke"
        /\ \A j \in Step : j # i => memory'[j] = memory[j]
    BY <1>2, ReturningEffect
  <2>2. state[i] # "succeeded"
    BY <2>1 DEF MemoryInv
  <2>3. \A j \in Step : memory[j] = i => j = i
    BY <2>2 DEF MemoryInv
  <2>4. \/ memory'[i] = i
        \/ /\ memory'[i] \in Step /\ memory'[i] # i /\ state[memory'[i]] = "succeeded"
           /\ memory[memory'[i]] = memory'[i]
    <3>1. CASE memory'[i] = i
      BY <3>1
    <3>2. ASSUME NEW d \in Step, state[d] = "succeeded", memory'[i] = memory[d]
          PROVE  /\ memory'[i] \in Step /\ memory'[i] # i /\ state[memory'[i]] = "succeeded"
                 /\ memory[memory'[i]] = memory'[i]
      BY <1>m, <2>2, <2>3, <3>2 DEF MemoryInv
    <3>3. QED
      BY <1>2, <3>1, <3>2, ReturningEffect
  <2>5. ASSUME NEW j \in Step
        PROVE  /\ memory'[j] # j => state'[memory'[j]] = "succeeded"
               /\ memory'[memory'[j]] = memory'[j]
    <3>1. CASE j = i
      BY <1>s, <2>1, <2>4, <3>1
    <3>2. CASE j # i
      <4>1. memory'[j] = memory[j] /\ memory[j] \in Step /\ memory[j] # i
        BY <1>m, <2>1, <2>3, <3>2
      <4>2. QED
        BY <1>s, <2>1, <4>1 DEF MemoryInv
    <3>3. QED
      BY <3>1, <3>2
  <2>6. QED
    BY <1>b, <2>5 DEF MemoryInv
<1> QED
  BY <1>1, <1>2

\* The guard's account of one state.
GuardExact ==
    /\ \A m \in Step : content[m] # 0 => m \in written
    /\ \A m \in written : state[m] = "succeeded"
    /\ DetectMutation =>
          /\ \A i \in Step : i \in taken <=> state[i] = "succeeded"
          /\ \A i \in taken : /\ memory[i] = i => snapshot[i] = 0
                              /\ snapshot[i] # 0 => memory[i] \in written

\* mutationGuard.record renders the value handle stores, as its consumers will
\* get it.
LEMMA GuardSettles ==
  ASSUME IInv, GuardExact, NEW i \in Step, NEW r \in Results, Settling(i, r), memory' = memory
  PROVE  GuardExact'
<1>t. /\ state \in [Step -> States] /\ written \subseteq Step /\ taken \subseteq Step
      /\ memory \in [Step -> Step] /\ snapshot \in [Step -> Contents]
  BY DEF IInv, TypeOK, DataOK
<1>1. \A j \in Step : state'[j] = IF j = i THEN Recorded(r) ELSE state[j]
  BY <1>t, SettlingEffect
<1>2. i \notin written /\ (DetectMutation => i \notin taken)
  BY SettlingEffect DEF GuardExact
<1>3. GuardRecord(i, r)
  BY DEF Settling, Handle
<1>4. written' = written /\ content' = content
  BY <1>3 DEF GuardRecord
<1>5. \A j \in written' : state'[j] = "succeeded"
  BY <1>1, <1>2, <1>4, <1>t DEF GuardExact
<1>6. ASSUME DetectMutation, NEW j \in Step PROVE j \in taken' <=> state'[j] = "succeeded"
  <2>1. taken' = IF r = "ok" THEN taken \cup {i} ELSE taken
    BY <1>3, <1>6 DEF GuardRecord
  <2>2. QED
    BY <1>1, <1>2, <1>6, <2>1, SettlingEffect DEF GuardExact
<1>7. ASSUME DetectMutation, NEW j \in taken'
      PROVE  /\ memory'[j] = j => snapshot'[j] = 0
             /\ snapshot'[j] # 0 => memory'[j] \in written'
  <2>1. CASE j = i /\ r = "ok"
    <3>1. snapshot'[j] = content[memory[j]] /\ memory[j] \in Step
      BY <1>t, <1>3, <1>7, <2>1 DEF GuardRecord
    <3>2. QED
      BY <1>2, <1>4, <2>1, <3>1 DEF GuardExact
  <2>2. CASE ~ (j = i /\ r = "ok")
    <3>1. j \in taken /\ snapshot'[j] = snapshot[j]
      BY <1>t, <1>2, <1>3, <1>7, <2>2 DEF GuardRecord
    <3>2. QED
      BY <1>4, <1>7, <3>1 DEF GuardExact
  <2>3. QED
    BY <2>1, <2>2
<1> QED
  BY <1>4, <1>5, <1>6, <1>7 DEF GuardExact

\* A node can write only into values whose maker succeeded.
LEMMA GuardWrites ==
  ASSUME IInv, MemoryInv, GuardExact, NEW i \in Step, NodeWrites(i)
  PROVE  GuardExact'
<1>1. task[i] = "invoke" /\ UNCHANGED <<state, taken, snapshot, memory>>
  BY DEF NodeWrites, execVars, taskVars
<1>2. PICK p \in 1 .. Len(Deps[i]), c \in Contents :
         /\ content' = [content EXCEPT ![memory[Deps[i][p]]] = c]
         /\ written' = written \cup {memory[Deps[i][p]]}
  BY DEF NodeWrites
<1> DEFINE d == Deps[i][p]
           m == memory[d]
<1>3. d \in Step /\ state[d] = "succeeded"
  <2>1. d \in Step
    BY PlanTypes
  <2>2. state[d] = "succeeded"
    BY <1>1, DependenciesSucceeded DEF DependenciesFirst
  <2> QED
    BY <2>1, <2>2
<1>4. state[m] = "succeeded"
  BY <1>3 DEF MemoryInv
<1>5. \A k \in Step : k # m => content'[k] = content[k]
  BY <1>2 DEF IInv, TypeOK, DataOK
<1>6. written' = written \cup {m}
  BY <1>2
<1> HIDE DEF d, m
<1>7. \A k \in Step : content'[k] # 0 => k \in written'
  BY <1>5, <1>6 DEF GuardExact
<1> QED
  BY <1>1, <1>4, <1>6, <1>7 DEF GuardExact

\* What the guard's check at the end sees, given its account.
LEMMA GuardReports ==
  ASSUME IInv, MemoryInv, GuardExact, DetectMutation
  PROVE  /\ \A i \in Step : state[i] = "succeeded" =>
                (memory[i] \in GuardCheck <=> content[memory[i]] # 0)
         /\ \A i \in GuardCheck : state[i] = "succeeded" /\ memory[i] \in written
<1>t. memory \in [Step -> Step] /\ taken \subseteq Step
  BY DEF IInv, TypeOK, DataOK
<1>0. GuardCheck = {i \in taken : content[memory[i]] # snapshot[i]}
  BY DEF GuardCheck
<1>1. ASSUME NEW i \in Step, state[i] = "succeeded"
      PROVE  memory[i] \in GuardCheck <=> content[memory[i]] # 0
  <2>1. memory[i] \in Step /\ state[memory[i]] = "succeeded" /\ memory[memory[i]] = memory[i]
    BY <1>t, <1>1 DEF MemoryInv
  <2>2. memory[i] \in taken /\ snapshot[memory[i]] = 0
    BY <2>1 DEF GuardExact
  <2>3. QED
    BY <1>0, <2>1, <2>2
<1>2. ASSUME NEW i \in GuardCheck
      PROVE  state[i] = "succeeded" /\ memory[i] \in written
  <2>1. i \in taken /\ i \in Step /\ content[memory[i]] # snapshot[i] /\ memory[i] \in Step
    BY <1>0, <1>t, <1>2
  <2>2. QED
    BY <2>1 DEF GuardExact
<1> QED
  BY <1>1, <1>2

\* Once Run has returned its report stays true of what it was about.
LEMMA GuardAfter ==
  ASSUME IInv, MemoryInv, MutationsExact, pc = "returned", [Next]_vars
  PROVE  MutationsExact'
<1>1. UNCHANGED <<pc, mutations, state>>
  BY ReturnedStays DEF coordVars, execVars
<1>2. UNCHANGED <<written, content>>
  <2>1. CASE Outside
    BY <2>1 DEF Outside, NodeWrites, CallerGivesUp, TimerFires, OtherTakes, OtherReturns, AllGone,
                vars, guardVars
  <2>2. CASE \E i \in Step : TaskStep(i)
    BY <2>2 DEF TaskStep, guardVars
  <2>3. QED
    BY <2>1, <2>2, ReturnedStays
<1>3. ASSUME NEW j \in Step, state[j] = "succeeded" PROVE memory'[j] = memory[j]
  <2>1. ASSUME NEW i \in Step, NodeReturns(i) PROVE memory'[j] = memory[j]
    <3>1. task[i] = "invoke" /\ (j # i => memory'[j] = memory[j])
      BY <2>1, ReturningEffect
    <3>2. QED
      BY <1>3, <3>1 DEF MemoryInv
  <2>2. QED
    BY <2>1, NotReturning
<1>4. mutations \subseteq Step
  BY DEF IInv, TypeOK, DataOK
<1>5. CASE DetectMutation
  <2>1. \A i \in Step : state'[i] = "succeeded" =>
            (memory'[i] \in mutations' <=> content'[memory'[i]] # 0)
    BY <1>1, <1>2, <1>3, <1>5 DEF MutationsExact
  <2>2. \A i \in mutations' : state'[i] = "succeeded" /\ memory'[i] \in written'
    BY <1>1, <1>2, <1>3, <1>4, <1>5 DEF MutationsExact
  <2>3. QED
    BY <1>5, <2>1, <2>2 DEF MutationsExact
<1>6. CASE ~DetectMutation
  BY <1>1, <1>6 DEF MutationsExact
<1> QED
  BY <1>5, <1>6

\* At the end the guard reports what ended up changed, at the step it came from.
LEMMA GuardStep ==
  ASSUME IInv, MemoryInv, GuardInv, [Next]_vars
  PROVE  GuardInv'
<1>t. /\ state \in [Step -> States] /\ written \subseteq Step /\ taken \subseteq Step
      /\ memory \in [Step -> Step]
  BY DEF IInv, TypeOK, DataOK
<1>1. CASE pc = "returned"
  <2>1. pc' = "returned"
    BY <1>1, ReturnedStays DEF coordVars
  <2>2. MutationsExact'
    BY <1>1, GuardAfter DEF GuardInv
  <2>3. QED
    BY <2>1, <2>2 DEF GuardInv
<1>2. CASE Ends
  <2>1. pc = "select" /\ pc' = "returned" /\ UNCHANGED <<memory, content, written>>
    BY <1>2, EndsFrame DEF guardVars, taskVars
  <2>2. mutations' = GuardCheck
    BY <1>2, EndsFrame DEF Finalize
  <2>3. GuardExact
    BY <2>1 DEF GuardInv, GuardExact
  <2>4. \A j \in Step : state'[j] = "succeeded" <=> state[j] = "succeeded"
    BY <1>2, EndsStates
  <2>5. CASE DetectMutation
    <3>1. /\ \A i \in Step : state[i] = "succeeded" =>
                (memory[i] \in GuardCheck <=> content[memory[i]] # 0)
          /\ \A i \in GuardCheck : i \in Step /\ state[i] = "succeeded" /\ memory[i] \in written
      BY <1>t, <2>3, <2>5, GuardReports DEF GuardCheck
    <3>2. /\ \A i \in Step : state'[i] = "succeeded" =>
                (memory'[i] \in mutations' <=> content'[memory'[i]] # 0)
          /\ \A i \in mutations' : state'[i] = "succeeded" /\ memory'[i] \in written'
      BY <2>1, <2>2, <2>4, <3>1
    <3>3. QED
      BY <2>1, <2>5, <3>2 DEF GuardInv, MutationsExact
  <2>6. CASE ~DetectMutation
    BY <2>1, <2>2, <2>6 DEF GuardInv, MutationsExact, GuardCheck
  <2>7. QED
    BY <2>5, <2>6
<1>3. CASE pc # "returned" /\ ~Ends
  <2>1. pc' # "returned"
    BY <1>3, OnlyEnds
  <2>2. GuardExact
    BY <1>3 DEF GuardInv, GuardExact
  <2> SUFFICES GuardExact'
    BY <2>1 DEF GuardInv, GuardExact, MutationsExact
  <2>s. ASSUME UNCHANGED guardVars,
               \A j \in Step : state'[j] = "succeeded" <=> state[j] = "succeeded",
               \A j \in Step : state[j] = "succeeded" => memory'[j] = memory[j]
        PROVE  GuardExact'
    <3>1. UNCHANGED <<taken, snapshot, content, written>>
      BY <2>s DEF guardVars
    <3>2. \A m \in written : state'[m] = "succeeded"
      BY <1>t, <2>2, <2>s DEF GuardExact
    <3>3. ASSUME DetectMutation, NEW j \in taken
          PROVE  /\ memory'[j] = j => snapshot[j] = 0
                 /\ snapshot[j] # 0 => memory'[j] \in written
      BY <1>t, <2>2, <2>s, <3>3 DEF GuardExact
    <3>4. QED
      BY <2>2, <2>s, <3>1, <3>2, <3>3 DEF GuardExact
  <2>3. ASSUME NEW i \in Step, NodeReturns(i) PROVE GuardExact'
    <3>1. /\ task[i] = "invoke" /\ UNCHANGED <<execVars, guardVars>>
          /\ \A j \in Step : j # i => memory'[j] = memory[j]
      BY <2>3, ReturningEffect
    <3>2. state[i] # "succeeded" /\ state' = state
      BY <3>1 DEF MemoryInv, execVars
    <3>3. QED
      BY <2>s, <3>1, <3>2
  <2>4. CASE ~ \E i \in Step : NodeReturns(i)
    <3>m. memory' = memory
      BY <2>4, NotReturning
    <3>1. CASE Quiet
      BY <2>s, <3>1, <3>m, QuietFrame DEF execVars
    <3>2. CASE SelectCaller
      BY <2>s, <3>2, <3>m DEF SelectCaller
    <3>3. CASE Starts
      <4>1. UNCHANGED guardVars /\ \A j \in Step : state'[j] = "succeeded" <=> state[j] = "succeeded"
        BY <1>t, <3>3, StartsForm DEF Begin
      <4>2. QED
        BY <2>s, <3>m, <4>1
    <3>4. CASE Settles
      BY <2>2, <3>4, <3>m, SettlesForm, GuardSettles
    <3>5. CASE \E i \in Step : TaskStep(i)
      BY <2>s, <3>5, <3>m DEF TaskStep, execVars
    <3>6. CASE Outside /\ ~ \E i \in Step : NodeWrites(i)
      <4>1. UNCHANGED <<state, guardVars>>
        BY <3>6 DEF Outside, CallerGivesUp, TimerFires, OtherTakes, OtherReturns, AllGone, vars, execVars
      <4>2. QED
        BY <2>s, <3>m, <4>1
    <3>7. CASE \E i \in Step : NodeWrites(i)
      BY <2>2, <3>7, GuardWrites
    <3>8. QED
      BY <1>3, <3>1, <3>2, <3>3, <3>4, <3>5, <3>6, <3>7, StepKinds
  <2>5. QED
    BY <2>3, <2>4
<1> QED
  BY <1>1, <1>2, <1>3

-----------------------------------------------------------------------------
(* Retries.                                                                *)

\* The steps that call a node, or wait to call it again.
Calling == Starts \/ \E i \in Step : NodeReturns(i) \/ BackoffElapses(i)

\* No other step counts an attempt or enters the backoff.
LEMMA NotCalling ==
  ASSUME IInv, [Next]_vars, ~Calling
  PROVE  /\ attempt' = attempt
         /\ outcome' = outcome
         /\ \A j \in Step : /\ task'[j] = "wait" => task[j] = "wait"
                            /\ task'[j] = "idle" => task[j] = "idle"
<1>t. task \in [Step -> Tasks]
  BY DEF IInv, TypeOK, DataOK
<1>o. outcome' = outcome
  BY NotReturning DEF Calling
<1>1. CASE Quiet
  BY <1>1, QuietFrame DEF taskVars
<1>2. CASE SelectCaller
  BY <1>2 DEF SelectCaller, taskVars
<1>3. CASE Ends
  BY <1>3, EndsFrame DEF taskVars
<1>4. CASE Outside
  BY <1>4, OutsideFrame DEF taskVars
<1>5. CASE SupplyInput \/ SelectDone
  BY <1>5 DEF SupplyInput, SelectDone, taskVars
<1>6. CASE InlineFinish
  <2>1. attempt' = attempt /\ task' = [task EXCEPT ![ready[launched]] = "gone"]
    BY <1>6 DEF InlineFinish
  <2>2. QED
    BY <1>o, <1>t, <2>1
<1>7. ASSUME NEW i \in Step, BackoffCancelled(i) \/ ReleaseSlot(i)
      PROVE  /\ attempt' = attempt
             /\ \A j \in Step : /\ task'[j] = "wait" => task[j] = "wait"
                                /\ task'[j] = "idle" => task[j] = "idle"
  BY <1>t, <1>7 DEF BackoffCancelled, ReleaseSlot, Complete
<1>8. CASE Coordinator
  BY <1>1, <1>2, <1>3, <1>5, <1>6, <1>8 DEF Coordinator, Quiet, Ends, Calling, Starts
<1>9. CASE \E i \in Step : StepTask(i)
  BY <1>o, <1>7, <1>9 DEF StepTask, Calling
<1>10. CASE ~Coordinator /\ ~ (\E i \in Step : StepTask(i)) /\ ~ \E i \in Step : NodeReturns(i)
  <2>1. Outside
    BY <1>10 DEF Next, Outside
  <2>2. QED
    BY <1>4, <2>1
<1> QED
  BY <1>o, <1>8, <1>9, <1>10 DEF Calling

\* A step waits only with an attempt left, and counts it when it calls again.
LEMMA AttemptStep ==
  ASSUME IInv, AttemptInv, [Next]_vars
  PROVE  AttemptInv'
<1>t. /\ task \in [Step -> Tasks] /\ attempt \in [Step -> Nat] /\ MaxAttempts \in [Step -> Nat \ {0}]
      /\ outcome \in [Step -> Outcomes \cup {"none"}]
  BY PlanTypes DEF IInv, TypeOK, DataOK
<1>1. CASE Starts
  <2> DEFINE i == ready[launched + 1]
  <2>1. /\ i \in Step /\ task' = [task EXCEPT ![i] = "invoke"] /\ attempt' = [attempt EXCEPT ![i] = 1]
        /\ outcome' = outcome
    BY <1>1, StartsForm DEF Begin
  <2> HIDE DEF i
  <2>2. \A j \in Step : IF j = i THEN task'[j] = "invoke" /\ attempt'[j] = 1 /\ MaxAttempts[j] >= 1
                                 ELSE task'[j] = task[j] /\ attempt'[j] = attempt[j]
    BY <1>t, <2>1
  <2>3. QED
    BY <2>1, <2>2 DEF AttemptInv
<1>2. ASSUME NEW i \in Step, NodeReturns(i) PROVE AttemptInv'
  <2>1. attempt' = attempt
    BY <1>2 DEF NodeReturns, Complete
  <2>2. task'[i] = "wait" => attempt[i] < MaxAttempts[i] /\ outcome'[i] = "transient"
    BY <1>t, <1>2 DEF NodeReturns, Complete
  <2>3. \A j \in Step : j # i => task'[j] = task[j] /\ outcome'[j] = outcome[j]
    BY <1>t, <1>2 DEF NodeReturns, Complete
  <2>4. task'[i] # "idle"
    BY <1>t, <1>2 DEF NodeReturns, Complete
  <2>5. QED
    BY <2>1, <2>2, <2>3, <2>4 DEF AttemptInv
<1>3. ASSUME NEW i \in Step, BackoffElapses(i) PROVE AttemptInv'
  <2>1. /\ task[i] = "wait" /\ task' = [task EXCEPT ![i] = "invoke"]
        /\ attempt' = [attempt EXCEPT ![i] = attempt[i] + 1]
        /\ outcome' = outcome
    BY <1>3 DEF BackoffElapses
  <2>2. \A j \in Step : IF j = i THEN task'[j] = "invoke" /\ attempt'[j] = attempt[j] + 1
                                 ELSE task'[j] = task[j] /\ attempt'[j] = attempt[j]
    BY <1>t, <2>1
  <2>3. attempt[i] + 1 <= MaxAttempts[i]
    BY <1>t, <2>1 DEF AttemptInv
  <2>4. QED
    BY <2>1, <2>2, <2>3 DEF AttemptInv
<1>4. CASE ~Calling
  BY <1>4, NotCalling DEF AttemptInv
<1> QED
  BY <1>1, <1>2, <1>3, <1>4 DEF Calling

\* Only a call that starts over counts an attempt more, after a retryable error.
LEMMA Recalls ==
  ASSUME IInv, AttemptInv, [Next]_vars, NEW j \in Step,
         attempt'[j] # attempt[j], attempt[j] > 0
  PROVE  /\ outcome[j] = "transient" /\ result[j] = "none"
         /\ attempt'[j] = attempt[j] + 1 /\ attempt'[j] <= MaxAttempts[j]
<1>t. /\ task \in [Step -> Tasks] /\ attempt \in [Step -> Nat]
      /\ MaxAttempts \in [Step -> Nat \ {0}]
  BY PlanTypes DEF IInv, TypeOK, DataOK
<1>1. ~Starts
  <2>1. ASSUME Starts PROVE FALSE
    <3>1. /\ ready[launched + 1] \in Step /\ task[ready[launched + 1]] = "idle"
          /\ attempt' = [attempt EXCEPT ![ready[launched + 1]] = 1]
      BY <2>1, StartsForm DEF Begin
    <3>2. task[j] # "idle"
      BY DEF AttemptInv
    <3>3. QED
      BY <1>t, <3>1, <3>2
  <2>2. QED
    BY <2>1
<1>2. ~ \E i \in Step : NodeReturns(i)
  BY DEF NodeReturns, Complete
<1>3. PICK i \in Step : BackoffElapses(i)
  BY <1>1, <1>2, NotCalling DEF Calling
<1>4. i = j /\ task[j] = "wait" /\ attempt'[j] = attempt[j] + 1
  BY <1>t, <1>3 DEF BackoffElapses
<1>5. outcome[j] = "transient" /\ attempt[j] < MaxAttempts[j]
  BY <1>4 DEF AttemptInv
<1>6. result[j] = "none"
  BY <1>4 DEF IInv, StateInv
<1> QED
  BY <1>t, <1>4, <1>5, <1>6

\* A result is what the last call of the node returned, or a cancellation.
LEMMA ResultIsOutcome ==
  ASSUME IInv, AttemptInv, [Next]_vars, NEW j \in Step, result'[j] # result[j]
  PROVE  /\ result[j] = "none"
         /\ IF outcome'[j] = "transient"
              THEN \/ result'[j] = "failed" /\ attempt[j] = MaxAttempts[j]
                   \/ result'[j] = "cancelled" /\ RunCtxDone
              ELSE result'[j] = outcome'[j]
<1>t. /\ task \in [Step -> Tasks] /\ attempt \in [Step -> Nat]
      /\ MaxAttempts \in [Step -> Nat \ {0}]
      /\ result \in [Step -> Results \cup {"none"}]
      /\ outcome \in [Step -> Outcomes \cup {"none"}]
  BY PlanTypes DEF IInv, TypeOK, DataOK
<1>1. \E i \in Step : NodeReturns(i) \/ StepTask(i)
  <2>1. CASE Quiet
    BY <2>1, QuietFrame DEF taskVars
  <2>2. CASE SelectCaller \/ Settles
    BY <2>2 DEF SelectCaller, Settles, SupplyInput, InlineFinish, SelectDone, taskVars
  <2>3. CASE Ends
    BY <2>3, EndsFrame DEF taskVars
  <2>4. CASE Outside
    BY <2>4, OutsideFrame DEF taskVars
  <2>5. CASE Starts
    BY <2>5, StartsForm DEF Begin
  <2>6. CASE Coordinator
    BY <2>1, <2>2, <2>3, <2>5, <2>6 DEF Coordinator, Quiet, Starts, Settles, Ends
  <2>7. CASE ~Coordinator /\ ~ \E i \in Step : NodeReturns(i) \/ StepTask(i)
    <3>1. Outside
      BY <2>7 DEF Next, Outside
    <3>2. QED
      BY <2>4, <3>1
  <2>8. QED
    BY <2>6, <2>7
<1>2. PICK i \in Step : NodeReturns(i) \/ StepTask(i)
  BY <1>1
<1>3. task[j] \in Busy /\ i = j
  <2>1. TaskStep(i)
    BY <1>2, TaskForms
  <2>2. QED
    BY <1>t, <2>1 DEF TaskStep, Shifts, Completes, Complete, ReleaseSlot
<1>4. result[j] = "none"
  BY <1>3 DEF IInv, StateInv, Busy
<1>5. CASE NodeReturns(j)
  <2>1. PICK o \in Outcomes :
           /\ outcome' = [outcome EXCEPT ![j] = o]
           /\ IF o = "transient" /\ attempt[j] < MaxAttempts[j]
                THEN UNCHANGED <<attempt, result, done>>
                ELSE Complete(j, IF o = "transient" THEN "failed" ELSE o)
    BY <1>5 DEF NodeReturns
  <2>2. /\ outcome'[j] = o /\ ~ (o = "transient" /\ attempt[j] < MaxAttempts[j])
        /\ result'[j] = IF o = "transient" THEN "failed" ELSE o
    BY <1>t, <2>1 DEF Complete
  <2>3. attempt[j] <= MaxAttempts[j]
    BY DEF AttemptInv
  <2>4. QED
    BY <1>t, <1>4, <2>2, <2>3
<1>6. CASE StepTask(j)
  <2>1. BackoffCancelled(j)
    BY <1>6 DEF StepTask, BackoffElapses, ReleaseSlot
  <2>2. /\ task[j] = "wait" /\ RunCtxDone /\ outcome' = outcome
        /\ result'[j] = "cancelled"
    BY <1>t, <2>1 DEF BackoffCancelled, Complete
  <2>3. outcome'[j] = "transient"
    BY <2>2 DEF AttemptInv
  <2>4. QED
    BY <1>4, <2>2, <2>3
<1> QED
  BY <1>2, <1>3, <1>5, <1>6

-----------------------------------------------------------------------------
(* The theorems.                                                           *)

\* RunInv holds when newScheduler returns.
LEMMA RunInvInit == Init => RunInv
<1> SUFFICES ASSUME Init PROVE RunInv
  OBVIOUS
<1>1. IInv
  BY IInvInit
<1>2. \A i \in Step : state[i] = "pending" /\ task[i] = "idle" /\ attempt[i] = 0
  BY DEF Init
<1>3. Executing = {} /\ Holding = {}
  BY <1>2 DEF Executing, Holding
<1>4. Cardinality(Executing) = 0 /\ Cardinality(Holding) = 0
  BY <1>3, FS_EmptySet
<1>5. FlightInv
  BY <1>2, <1>4, OptionAssumption DEF FlightInv, Init
<1>6. SlotsConserved
  BY <1>4, OptionAssumption DEF SlotsConserved, Init
<1>7. VerdictInv
  BY <1>2 DEF VerdictInv, Failed, Init
<1>8. ProgressInv
  <2>1. RunningInv
    BY <1>2 DEF RunningInv
  <2>2. pc # "returned" => Supplying
    BY DEF Init, Supplying
  <2>3. pc # "returned" => SupplyInv
    BY <2>2 DEF Init, SupplyInv
  <2>4. pc # "returned" => ReadyInv
    <3> SUFFICES ASSUME pc # "returned", NEW i \in Step \ InputSteps, Outstanding(i) = {}, i \notin RootSteps
                 PROVE  FALSE
      BY <2>2 DEF ReadyInv
    <3>1. EdgesInto(i) # {}
      BY Sources
    <3>2. \A e \in EdgesInto(i) : e[1] \in Step
      BY EdgeShape DEF EdgesInto
    <3>3. QED
      BY <1>2, <3>1, <3>2 DEF Outstanding
  <2>5. PumpInv
    BY DEF Init, PumpInv
  <2>6. QED
    BY <2>1, <2>3, <2>4, <2>5 DEF ProgressInv
<1>9. HonestReport
  <2> SUFFICES ASSUME pc = "returned" PROVE HonestReport
    BY DEF HonestReport
  <2>1. N = 0 /\ failedStep = -1
    BY DEF Init
  <2>2. Step = {}
    BY <2>1 DEF Step
  <2>3. QED
    BY <2>1, <2>2 DEF HonestReport
<1>10. NeverCutShort
  BY <1>3 DEF NeverCutShort
<1>11. MemoryInv /\ GuardInv
  <2>1. \A i \in Step : memory[i] = i /\ content[i] = 0
    BY DEF Init
  <2>2. MemoryInv
    BY <1>2, <2>1 DEF MemoryInv
  <2>3. GuardInv
    BY <1>2, <2>1 DEF GuardInv, MutationsExact, Init, Step
  <2> QED
    BY <2>2, <2>3
<1>12. AttemptInv
  BY <1>2, PlanTypes DEF AttemptInv
<1> QED
  BY <1>1, <1>5, <1>6, <1>7, <1>8, <1>9, <1>10, <1>11, <1>12 DEF RunInv

\* Every step of a run keeps RunInv.
LEMMA RunInvStep == RunInv /\ [Next]_vars => RunInv'
  BY IInvStep, FlightStep, SlotsStep, VerdictStep, ProgressStep, HonestStep, CutShortStep,
     MemoryStep, GuardStep, AttemptStep DEF RunInv

\* RunInv holds throughout every run.
THEOREM RunInvariance == Spec => []RunInv
  BY RunInvInit, RunInvStep, PTL DEF Spec

\* Run's result can be trusted, for every plan: every step is settled, a run
\* that reports no failure ran them all to success, and the blame is right.
THEOREM ReportsHonestly == Spec => []HonestReport
<1>1. RunInv => HonestReport
  BY DEF RunInv
<1> QED
  BY <1>1, RunInvariance, PTL

\* inflight is exactly the completions to come, and nothing is queued twice.
THEOREM CompletionsAlwaysExact == Spec => []CompletionsExact
<1>1. RunInv => CompletionsExact
  BY DEF RunInv, IInv, QueueInv, StateInv, FlightInv, CompletionsExact
<1> QED
  BY <1>1, RunInvariance, PTL

\* At most MaxConcurrency steps execute at once, inline or abandoned ones too.
THEOREM ConcurrencyAlwaysBounded == Spec => []ConcurrencyBounded
<1>1. RunInv => ConcurrencyBounded
  BY DEF RunInv, FlightInv, ConcurrencyBounded
<1> QED
  BY <1>1, RunInvariance, PTL

\* The pool's tokens always have their holders, after an abandonment too.
THEOREM SlotsAlwaysConserved == Spec => []SlotsConserved
<1>1. RunInv => SlotsConserved
  BY DEF RunInv
<1> QED
  BY <1>1, RunInvariance, PTL

\* Run leaves a step behind only in a run that had failed and counts it.
THEOREM HealthyRunsFinish == Spec => []NeverCutShort
<1>1. RunInv => NeverCutShort
  BY DEF RunInv
<1> QED
  BY <1>1, RunInvariance, PTL

\* With DetectMutation every value that ends up changed is reported at the step
\* that made it, and no step whose value nobody wrote through is.
THEOREM MutationsAlwaysExact == Spec => []MutationsExact
<1>1. RunInv => MutationsExact
  BY DEF RunInv, GuardInv
<1> QED
  BY <1>1, RunInvariance, PTL

\* A node is called again only after a retryable error with an attempt left and
\* before its result was sent, and its result is what the last call returned.
THEOREM RetriesWithinPolicy == Spec => RetryWithinPolicy
<1>1. ASSUME RunInv, [Next]_vars, NEW i \in Step
      PROVE  RecalledInPolicy(i) /\ ResultOfLastCall(i)
  <2>1. IInv /\ AttemptInv
    BY <1>1 DEF RunInv
  <2>2. RecalledInPolicy(i)
    BY <1>1, <2>1, Recalls DEF RecalledInPolicy
  <2>3. ResultOfLastCall(i)
    BY <1>1, <2>1, ResultIsOutcome DEF ResultOfLastCall
  <2>4. QED
    BY <2>2, <2>3
<1>2. RunInv /\ [Next]_vars =>
        [\A i \in Step : RecalledInPolicy(i) /\ ResultOfLastCall(i)]_vars
  BY <1>1
<1> QED
  BY <1>2, RunInvariance, PTL DEF Spec, RetryWithinPolicy
=============================================================================
