------------------------------ MODULE Scheduler ------------------------------
(***************************************************************************)
(* One run of a compiled plan: internal/runtime/scheduler.go and the parts *)
(* of executor.go it drives.  The coordinator is the goroutine inside      *)
(* Run; every launched step is a goroutine of its own that applies the     *)
(* retry policy, sends its completion and only then gives its slot back.   *)
(* The two sides meet in the done channel, the run's context and the slot  *)
(* pool, which other runs of the process take from and return to.          *)
(***************************************************************************)
EXTENDS Integers, Sequences, FiniteSets

CONSTANTS
    N,              \* number of steps of the plan, declared inputs included
    Deps,           \* Deps[i]: the steps feeding step i, in port order
    Dependents,     \* Dependents[i]: the steps waiting on i, one entry per port
    Inputs,         \* the steps whose value the run supplies, in plan order
    Roots,          \* the steps without dependencies that are not inputs
    MaxAttempts,    \* MaxAttempts[i]: the retry policy's attempts of step i
    NoBackoff,      \* the steps whose retry policy has no backoff
    MaxConcurrency, \* Options.MaxConcurrency, once defaulted
    SlotCap,        \* capacity of Options.Slots, 0 when Slots is nil
    Inline,         \* Options.InlineSoloSteps
    DetectMutation, \* Options.DetectMutation
    Mutators,       \* steps whose node writes through the values it is given
    Aliases,        \* steps whose node may return a value it was given
    Contents        \* the renderings of a value; 0 is how it was made

Step == 0 .. N - 1

\* The positions of the Dependents lists: one edge per port of a consumer.
Edges == UNION {{i} \X (1 .. Len(Dependents[i])) : i \in Step}
Target(e) == Dependents[e[1]][e[2]]
EdgesInto(j) == {e \in Edges : Target(e) = j}

InputSteps == {Inputs[k] : k \in 1 .. Len(Inputs)}
RootSteps == {Roots[k] : k \in 1 .. Len(Roots)}

ASSUME SizeAssumption == N \in Nat

ASSUME PlanTypes ==
    /\ Deps \in [Step -> Seq(Step)]
    /\ Dependents \in [Step -> Seq(Step)]
    /\ Inputs \in Seq(Step)
    /\ Roots \in Seq(Step)
    /\ MaxAttempts \in [Step -> Nat \ {0}]

\* What compiler.plan lays out: an input has no dependencies, a root is any
\* other step without them, both are listed once, and the reverse edges list a
\* consumer once per port it binds.
ASSUME PlanLayout ==
    /\ \A i \in Step : Deps[i] = <<>> <=> i \in InputSteps \cup RootSteps
    /\ InputSteps \cap RootSteps = {}
    /\ \A a, b \in 1 .. Len(Inputs) : Inputs[a] = Inputs[b] => a = b
    /\ \A a, b \in 1 .. Len(Roots) : Roots[a] = Roots[b] => a = b
    /\ \A j \in Step : Len(Deps[j]) = Cardinality(EdgesInto(j))
    /\ \A i, j \in Step : (\E p \in 1 .. Len(Deps[j]) : Deps[j][p] = i)
                              <=> (\E e \in EdgesInto(j) : e[1] = i)

\* What compiler.checkCycles establishes, as well-foundedness: every set of
\* steps has one that depends on none of the others.
ASSUME PlanAcyclic ==
    \A S \in (SUBSET Step) \ {{}} :
        \E i \in S : \A p \in 1 .. Len(Deps[i]) : Deps[i][p] \notin S

ASSUME OptionAssumption ==
    /\ MaxConcurrency \in Nat \ {0}
    /\ SlotCap \in Nat
    /\ Inline \in BOOLEAN
    /\ DetectMutation \in BOOLEAN
    /\ NoBackoff \subseteq Step
    /\ Mutators \subseteq Step
    /\ Aliases \subseteq Step
    /\ Contents \subseteq Nat /\ 0 \in Contents

VARIABLES
    pc,         \* where the coordinator is
    fed,        \* supplyInputs: inputs recorded so far
    cursor,     \* handle's loop: the step and the position in its Dependents
    unmet,      \* unmet[i]: dependencies of i still outstanding
    ready,      \* steps whose dependencies are met, in order
    launched,   \* how many of ready have been started
    inflight,   \* launched steps whose completion was not received
    stopped,    \* nothing new may start
    listening,  \* callerDone has not been cleared
    state,      \* Execution.Steps[i].State
    failedStep, \* Execution.FailedStep
    caller,     \* Execution.Cancelled
    abandoned,  \* Execution.Abandoned
    mutations,  \* Execution.Mutations, as the set of victims
    task,       \* where step i's runStep is
    attempt,    \* ec.Attempt of step i
    outcome,    \* what step i's latest node call returned
    memory,     \* memory[i]: the step that made the value step i's node returned
    result,     \* what step i's runStep returned
    done,       \* the done channel
    ctxDone,    \* the caller's context is done
    cancelled,  \* the run's own cancel was called
    timer,      \* the abandonment timer
    held,       \* tokens in the slot pool
    others,     \* of which other runs hold this many
    taken,      \* guard: outputs a snapshot was taken of
    snapshot,   \* guard: how an output rendered when it was recorded
    content,    \* content[m]: how the value step m made renders now
    written     \* history: the values some consumer wrote through during the run

coordVars == <<pc, fed, cursor, unmet, ready, launched, inflight, stopped, listening>>
execVars == <<state, failedStep, caller, abandoned, mutations>>
taskVars == <<task, attempt, outcome, memory, result, done>>
ctxVars == <<ctxDone, cancelled, timer>>
poolVars == <<held, others>>
guardVars == <<taken, snapshot, content, written>>
vars == <<coordVars, execVars, taskVars, ctxVars, poolVars, guardVars>>

Pcs == {"supply", "release", "loop", "pump", "select", "inline", "returned"}
States == {"pending", "running", "succeeded", "failed", "cancelled", "skipped"}
Results == {"ok", "failed", "cancelled"}
\* "transient" is a retryable error; a panic is a "failed", invoke recovers it.
Outcomes == Results \cup {"transient"}
Tasks == {"idle", "invoke", "wait", "inlined", "release", "gone"}

\* The variables that hold truth values, and all the others.
FlagsOK ==
    /\ stopped \in BOOLEAN /\ listening \in BOOLEAN /\ caller \in BOOLEAN
    /\ ctxDone \in BOOLEAN /\ cancelled \in BOOLEAN

DataOK ==
    /\ pc \in Pcs
    /\ fed \in 0 .. Len(Inputs)
    /\ cursor \in Nat \X Nat
    /\ unmet \in [Step -> Int]
    /\ ready \in Seq(Step)
    /\ launched \in 0 .. Len(ready)
    /\ inflight \in Int
    /\ state \in [Step -> States]
    /\ failedStep \in -1 .. N - 1
    /\ abandoned \in Nat
    /\ mutations \subseteq Step
    /\ task \in [Step -> Tasks]
    /\ attempt \in [Step -> Nat]
    /\ outcome \in [Step -> Outcomes \cup {"none"}]
    /\ memory \in [Step -> Step]
    /\ result \in [Step -> Results \cup {"none"}]
    /\ done \in Seq(Step)
    /\ timer \in {"off", "armed", "fired"}
    /\ held \in Int /\ others \in Nat
    /\ taken \subseteq Step /\ written \subseteq Step
    /\ snapshot \in [Step -> Contents] /\ content \in [Step -> Contents]

TypeOK == DataOK /\ FlagsOK

Failed == failedStep >= 0 \/ caller
RunCtxDone == ctxDone \/ cancelled

Init ==
    /\ pc = IF N = 0 THEN "returned" ELSE "supply"
    /\ fed = 0
    /\ cursor = <<0, 0>>
    /\ unmet = [i \in Step |-> Len(Deps[i])]
    /\ ready = <<>> /\ launched = 0 /\ inflight = 0
    /\ stopped = FALSE /\ listening = TRUE
    /\ state = [i \in Step |-> "pending"]
    /\ failedStep = -1 /\ caller = FALSE /\ abandoned = 0 /\ mutations = {}
    /\ task = [i \in Step |-> "idle"]
    /\ attempt = [i \in Step |-> 0]
    /\ outcome = [i \in Step |-> "none"]
    /\ memory = [i \in Step |-> i]
    /\ result = [i \in Step |-> "none"]
    /\ done = <<>>
    /\ ctxDone \in BOOLEAN      \* the caller may hand over a context already done
    /\ cancelled = FALSE /\ timer = "off"
    /\ others \in 0 .. SlotCap /\ held = others
    /\ taken = {} /\ written = {}
    /\ snapshot = [i \in Step |-> 0] /\ content = [i \in Step |-> 0]

-----------------------------------------------------------------------------
(* The slot pool: a channel whose tokens are the slots in use.             *)

SlotFree == SlotCap = 0 \/ held < SlotCap
TakeSlot == held' = IF SlotCap = 0 THEN held ELSE held + 1

\* Mutant: the slot is never given back.
GiveSlotLeaks == UNCHANGED held

GiveSlot ==
    /\ SlotCap > 0 => held > 0
    /\ held' = IF SlotCap = 0 THEN held ELSE held - 1

-----------------------------------------------------------------------------
(* The coordinator.                                                        *)

\* Mutant: the run is cancelled but no deadline is armed.
WindDownUnarmed == cancelled' = TRUE /\ UNCHANGED timer

\* windDown: cancel the run, arm the abandonment deadline unless it is armed.
WindDown ==
    /\ cancelled' = TRUE
    /\ timer' = IF timer = "off" THEN "armed" ELSE timer

\* Where handle's caller goes on: supplyInputs or the main loop.
Resume(i) == IF i \in InputSteps THEN "supply" ELSE "loop"

\* Mutant: the result is stored as it came.
RecordedRaw(r) == r

Recorded(r) == IF r = "ok" THEN "succeeded" ELSE r

\* Mutant: supplied inputs are not snapshotted.
GuardRecordSteps(i, r) ==
    /\ IF DetectMutation /\ r = "ok" /\ i \notin InputSteps
         THEN /\ taken' = taken \cup {i}
              /\ snapshot' = [snapshot EXCEPT ![i] = content[memory[i]]]
         ELSE UNCHANGED <<taken, snapshot>>
    /\ UNCHANGED <<content, written>>

\* mutationGuard.record: render the output as it is now.  Only a success
\* leaves a value to render.
GuardRecord(i, r) ==
    /\ IF DetectMutation /\ r = "ok"
         THEN /\ taken' = taken \cup {i}
              /\ snapshot' = [snapshot EXCEPT ![i] = content[memory[i]]]
         ELSE UNCHANGED <<taken, snapshot>>
    /\ UNCHANGED <<content, written>>

\* mutationGuard.check: the outputs that render differently now.
GuardCheck ==
    IF DetectMutation THEN {i \in taken : content[memory[i]] # snapshot[i]} ELSE {}

\* handle up to its early return; what it releases is ReleaseNext's.
Handle(i, r) ==
    /\ state' = [state EXCEPT ![i] = Recorded(r)]
    /\ IF r # "ok" /\ ~stopped
         THEN stopped' = TRUE /\ failedStep' = i /\ WindDown
         ELSE UNCHANGED <<stopped, failedStep, cancelled, timer>>
    /\ GuardRecord(i, r)
    /\ IF stopped \/ r # "ok"
         THEN pc' = Resume(i) /\ UNCHANGED cursor
         ELSE pc' = "release" /\ cursor' = <<i, 1>>
    /\ UNCHANGED <<unmet, ready, listening, caller, abandoned, mutations, ctxDone>>

\* Mutant: a dependent is ready as soon as one of its dependencies is met.
ReleaseNextEager ==
    /\ pc = "release"
    /\ cursor[2] <= Len(Dependents[cursor[1]])
    /\ LET d == Target(cursor) IN
         /\ unmet' = [unmet EXCEPT ![d] = @ - 1]
         /\ ready' = IF unmet[d] = Len(Deps[d]) THEN Append(ready, d) ELSE ready
    /\ cursor' = <<cursor[1], cursor[2] + 1>>
    /\ UNCHANGED <<pc, fed, launched, inflight, stopped, listening>>
    /\ UNCHANGED <<execVars, taskVars, ctxVars, poolVars, guardVars>>

\* One iteration of handle's loop over the dependents of the finished step.
ReleaseNext ==
    /\ pc = "release"
    /\ cursor[2] <= Len(Dependents[cursor[1]])
    /\ LET d == Target(cursor) IN
         /\ unmet' = [unmet EXCEPT ![d] = @ - 1]
         /\ ready' = IF unmet[d] = 1 THEN Append(ready, d) ELSE ready
    /\ cursor' = <<cursor[1], cursor[2] + 1>>
    /\ UNCHANGED <<pc, fed, launched, inflight, stopped, listening>>
    /\ UNCHANGED <<execVars, taskVars, ctxVars, poolVars, guardVars>>

ReleaseDone ==
    /\ pc = "release"
    /\ cursor[2] > Len(Dependents[cursor[1]])
    /\ pc' = Resume(cursor[1])
    /\ cursor' = <<0, 0>>
    /\ UNCHANGED <<fed, unmet, ready, launched, inflight, stopped, listening>>
    /\ UNCHANGED <<execVars, taskVars, ctxVars, poolVars, guardVars>>

\* supply finds the value, or it is missing or of another type: invalid_input.
SupplyInput ==
    /\ pc = "supply"
    /\ fed < Len(Inputs)
    /\ fed' = fed + 1
    /\ \E r \in {"ok", "failed"} : Handle(Inputs[fed + 1], r)
    /\ UNCHANGED <<launched, inflight, taskVars, poolVars>>

SupplyRoots ==
    /\ pc = "supply"
    /\ fed = Len(Inputs)
    /\ ready' = ready \o Roots
    /\ pc' = "loop"
    /\ UNCHANGED <<fed, cursor, unmet, launched, inflight, stopped, listening>>
    /\ UNCHANGED <<execVars, taskVars, ctxVars, poolVars, guardVars>>

\* prepare and the start of runStep, for the step at the launch cursor.
Begin ==
    LET i == ready[launched + 1] IN
    /\ SlotFree
    /\ TakeSlot
    /\ launched' = launched + 1
    /\ state' = [state EXCEPT ![i] = "running"]
    /\ task' = [task EXCEPT ![i] = "invoke"]
    /\ attempt' = [attempt EXCEPT ![i] = 1]
    /\ UNCHANGED <<fed, cursor, unmet, ready, stopped, listening>>
    /\ UNCHANGED <<failedStep, caller, abandoned, mutations, others>>
    /\ UNCHANGED <<outcome, memory, result, done>>
    /\ UNCHANGED <<ctxVars, guardVars>>

Launch == Begin /\ inflight' = inflight + 1

\* Mutant: a stopped run still runs a solitary step inline.
SoloStopped == Inline /\ inflight = 0 /\ Len(ready) - launched = 1

Solo == Inline /\ ~stopped /\ inflight = 0 /\ Len(ready) - launched = 1

\* Mutant: an inlined step is counted in flight.
InlineStartCounted ==
    /\ pc = "loop"
    /\ Solo
    /\ Begin
    /\ pc' = "inline"
    /\ inflight' = inflight + 1

\* tryInline up to the call of the node.
InlineStart ==
    /\ pc = "loop"
    /\ Solo
    /\ Begin
    /\ pc' = "inline"
    /\ UNCHANGED inflight

\* Mutant: the inline path forgets its slot.
InlineFinishLeaks ==
    /\ pc = "inline"
    /\ LET i == ready[launched] IN
         /\ task[i] = "inlined"
         /\ task' = [task EXCEPT ![i] = "gone"]
         /\ UNCHANGED held
         /\ Handle(i, result[i])
    /\ UNCHANGED <<fed, launched, inflight, attempt, outcome, memory, result, done, others>>

\* tryInline after the node came back.
InlineFinish ==
    /\ pc = "inline"
    /\ LET i == ready[launched] IN
         /\ task[i] = "inlined"
         /\ task' = [task EXCEPT ![i] = "gone"]
         /\ GiveSlot
         /\ Handle(i, result[i])
    /\ UNCHANGED <<fed, launched, inflight, attempt, outcome, memory, result, done, others>>

\* tryInline declined; pump runs only while the run has not stopped.
NotInline ==
    /\ pc = "loop"
    /\ ~ (Solo /\ SlotFree)
    /\ pc' = IF stopped THEN "select" ELSE "pump"
    /\ UNCHANGED <<fed, cursor, unmet, ready, launched, inflight, stopped, listening>>
    /\ UNCHANGED <<execVars, taskVars, ctxVars, poolVars, guardVars>>

\* Mutant: off by one at the concurrency cap.
StartableOver == launched < Len(ready) /\ inflight <= MaxConcurrency

Startable == launched < Len(ready) /\ inflight < MaxConcurrency

PumpLaunch ==
    /\ pc = "pump"
    /\ Startable
    /\ Launch
    /\ UNCHANGED pc

PumpDone ==
    /\ pc = "pump"
    /\ ~ (Startable /\ SlotFree)
    /\ pc' = "select"
    /\ UNCHANGED <<fed, cursor, unmet, ready, launched, inflight, stopped, listening>>
    /\ UNCHANGED <<execVars, taskVars, ctxVars, poolVars, guardVars>>

\* Mutant: a run short of slots does not wait for one.
WaitingNever == FALSE

\* waitingOn returns a channel, rather than nil.
Waiting == ~stopped /\ Startable /\ SlotCap > 0

SelectSlot ==
    /\ pc = "select"
    /\ Waiting
    /\ Launch
    /\ pc' = "loop"

SelectDone ==
    /\ pc = "select"
    /\ inflight # 0 \/ Waiting
    /\ done # <<>>
    /\ done' = Tail(done)
    /\ inflight' = inflight - 1
    /\ Handle(Head(done), result[Head(done)])
    /\ UNCHANGED <<fed, launched, task, attempt, outcome, memory, result, poolVars>>

\* Mutant: a run that already failed is reported as cancelled too.
SelectCallerAlways ==
    /\ pc = "select"
    /\ inflight # 0 \/ Waiting
    /\ ctxDone /\ listening
    /\ listening' = FALSE
    /\ stopped' = TRUE
    /\ caller' = TRUE
    /\ WindDown
    /\ pc' = "loop"
    /\ UNCHANGED <<fed, cursor, unmet, ready, launched, inflight, ctxDone>>
    /\ UNCHANGED <<state, failedStep, abandoned, mutations>>
    /\ UNCHANGED <<taskVars, poolVars, guardVars>>

SelectCaller ==
    /\ pc = "select"
    /\ inflight # 0 \/ Waiting
    /\ ctxDone /\ listening
    /\ listening' = FALSE
    /\ stopped' = TRUE
    /\ caller' = (caller \/ ~stopped)
    /\ WindDown
    /\ pc' = "loop"
    /\ UNCHANGED <<fed, cursor, unmet, ready, launched, inflight, ctxDone>>
    /\ UNCHANGED <<state, failedStep, abandoned, mutations>>
    /\ UNCHANGED <<taskVars, poolVars, guardVars>>

\* finalize, then close.  gaveUp says whether loop abandoned running steps.
Finalize(gaveUp) ==
    LET left == {i \in Step : gaveUp /\ state[i] = "running"} IN
    /\ state' = [i \in Step |-> IF i \in left THEN "cancelled"
                              ELSE IF state[i] = "pending" THEN "skipped"
                              ELSE state[i]]
    /\ abandoned' = abandoned + Cardinality(left)
    /\ caller' = (caller \/ (gaveUp /\ ~Failed))
    /\ mutations' = GuardCheck
    /\ cancelled' = TRUE
    /\ timer' = "off"
    /\ pc' = "returned"
    /\ UNCHANGED <<fed, cursor, unmet, ready, launched, inflight, stopped, listening>>
    /\ UNCHANGED <<failedStep, ctxDone, taskVars, poolVars, guardVars>>

\* Nothing running and nothing startable: the graph is finished.
LoopEnds ==
    /\ pc = "select"
    /\ inflight = 0 /\ ~Waiting
    /\ Finalize(FALSE)

SelectAbandon ==
    /\ pc = "select"
    /\ inflight # 0 \/ Waiting
    /\ timer = "fired"
    /\ Finalize(TRUE)

Coordinator ==
    \/ SupplyInput \/ SupplyRoots \/ ReleaseNext \/ ReleaseDone
    \/ InlineStart \/ InlineFinish \/ NotInline \/ PumpLaunch \/ PumpDone
    \/ SelectSlot \/ SelectDone \/ SelectCaller \/ SelectAbandon \/ LoopEnds

-----------------------------------------------------------------------------
(* A step: runStep on its own goroutine, or on the coordinator's.          *)

\* runStep returned r: the goroutine sends its completion, which never waits
\* for room unless the buffer is full; inline, the coordinator just has r.
Complete(i, r) ==
    /\ result' = [result EXCEPT ![i] = r]
    /\ IF pc = "inline"
         THEN task' = [task EXCEPT ![i] = "inlined"] /\ UNCHANGED done
         ELSE /\ Len(done) < N
              /\ done' = Append(done, i)
              /\ task' = [task EXCEPT ![i] = "release"]
    /\ UNCHANGED attempt

\* What a node that returned o may have put in its result: a value of its own
\* or, passing a pointer through, one it was given.
Returnable(i, o) ==
    {i} \cup {memory[Deps[i][p]] : p \in {q \in 1 .. Len(Deps[i]) : o = "ok" /\ i \in Aliases}}

\* Mutant: every failure is taken for a retryable one.
NodeReturnsAny(i) ==
    /\ task[i] = "invoke"
    /\ \E o \in Outcomes :
         /\ outcome' = [outcome EXCEPT ![i] = o]
         /\ \E m \in Returnable(i, o) : memory' = [memory EXCEPT ![i] = m]
         /\ IF o # "ok" /\ attempt[i] < MaxAttempts[i]
              THEN task' = [task EXCEPT ![i] = "wait"] /\ UNCHANGED <<attempt, result, done>>
              ELSE Complete(i, IF o = "transient" THEN "failed" ELSE o)
    /\ UNCHANGED <<coordVars, execVars, ctxVars, poolVars, guardVars>>

\* The node returns.  A retryable error with attempts left goes to the backoff.
NodeReturns(i) ==
    /\ task[i] = "invoke"
    /\ \E o \in Outcomes :
         /\ outcome' = [outcome EXCEPT ![i] = o]
         /\ \E m \in Returnable(i, o) : memory' = [memory EXCEPT ![i] = m]
         /\ IF o = "transient" /\ attempt[i] < MaxAttempts[i]
              THEN task' = [task EXCEPT ![i] = "wait"] /\ UNCHANGED <<attempt, result, done>>
              ELSE Complete(i, IF o = "transient" THEN "failed" ELSE o)
    /\ UNCHANGED <<coordVars, execVars, ctxVars, poolVars, guardVars>>

\* The backoff elapses.  With no backoff, wait looks at the context first.
BackoffElapses(i) ==
    /\ task[i] = "wait"
    /\ i \in NoBackoff => ~RunCtxDone
    /\ task' = [task EXCEPT ![i] = "invoke"]
    /\ attempt' = [attempt EXCEPT ![i] = @ + 1]
    /\ UNCHANGED <<outcome, memory, result, done>>
    /\ UNCHANGED <<coordVars, execVars, ctxVars, poolVars, guardVars>>

BackoffCancelled(i) ==
    /\ task[i] = "wait"
    /\ RunCtxDone
    /\ Complete(i, "cancelled")
    /\ UNCHANGED <<outcome, memory>>
    /\ UNCHANGED <<coordVars, execVars, ctxVars, poolVars, guardVars>>

\* Mutant: the slot goes back only while the run is there to see it.
ReleaseSlotInRun(i) ==
    /\ task[i] = "release" /\ pc # "returned"
    /\ task' = [task EXCEPT ![i] = "gone"]
    /\ GiveSlot
    /\ UNCHANGED <<attempt, outcome, memory, result, done, others>>
    /\ UNCHANGED <<coordVars, execVars, ctxVars, guardVars>>

\* The goroutine gives its slot back, after its completion is in the channel.
ReleaseSlot(i) ==
    /\ task[i] = "release"
    /\ task' = [task EXCEPT ![i] = "gone"]
    /\ GiveSlot
    /\ UNCHANGED <<attempt, outcome, memory, result, done, others>>
    /\ UNCHANGED <<coordVars, execVars, ctxVars, guardVars>>

\* A node that breaks the immutability rule writes through one of its inputs,
\* into memory another step may have returned too.  The write may undo an
\* earlier one or leave the rendering as it was.  After Run has returned no
\* report can see it.
NodeWrites(i) ==
    /\ task[i] = "invoke" /\ i \in Mutators /\ pc # "returned"
    /\ \E p \in 1 .. Len(Deps[i]), c \in Contents :
         LET m == memory[Deps[i][p]] IN
         /\ content' = [content EXCEPT ![m] = c]
         /\ written' = written \cup {m}
    /\ UNCHANGED <<taken, snapshot, coordVars, execVars, taskVars, ctxVars, poolVars>>

StepTask(i) == BackoffElapses(i) \/ BackoffCancelled(i) \/ ReleaseSlot(i)

-----------------------------------------------------------------------------
(* What the process around the run does.                                   *)

\* The caller's context is cancelled or its deadline passes.
CallerGivesUp ==
    /\ ~ctxDone /\ pc # "returned"
    /\ ctxDone' = TRUE
    /\ UNCHANGED <<cancelled, timer, coordVars, execVars, taskVars, poolVars, guardVars>>

\* Mutant: the deadline runs from the start of the run.
TimerFiresEarly ==
    /\ timer # "fired" /\ pc # "returned"
    /\ timer' = "fired"
    /\ UNCHANGED <<ctxDone, cancelled, coordVars, execVars, taskVars, poolVars, guardVars>>

TimerFires ==
    /\ timer = "armed"
    /\ timer' = "fired"
    /\ UNCHANGED <<ctxDone, cancelled, coordVars, execVars, taskVars, poolVars, guardVars>>

OtherTakes ==
    /\ SlotCap > 0 /\ SlotFree
    /\ others' = others + 1
    /\ TakeSlot
    /\ UNCHANGED <<coordVars, execVars, taskVars, ctxVars, guardVars>>

OtherReturns ==
    /\ others > 0
    /\ others' = others - 1
    /\ GiveSlot
    /\ UNCHANGED <<coordVars, execVars, taskVars, ctxVars, guardVars>>

\* The run is over and none of its goroutines is left.
AllGone ==
    /\ pc = "returned"
    /\ \A i \in Step : task[i] \in {"idle", "gone"}
    /\ UNCHANGED vars

Next ==
    \/ Coordinator
    \/ \E i \in Step : NodeReturns(i) \/ NodeWrites(i) \/ StepTask(i)
    \/ CallerGivesUp \/ TimerFires \/ OtherTakes \/ OtherReturns
    \/ AllGone

Spec == Init /\ [][Next]_vars

(* Fairness.  The Go runtime schedules every runnable goroutine, so the     *)
(* coordinator and a step between two node calls make progress, and a timer *)
(* that was armed fires.  A send blocked in a select is queued at the       *)
(* channel and served by a later receive: strong fairness for the slot arm. *)
(* Nodes and the other runs of the process promise nothing.                 *)
EngineFairness ==
    /\ WF_vars(Coordinator)
    /\ SF_vars(SelectSlot)
    /\ WF_vars(TimerFires)
    /\ \A i \in Step : WF_vars(StepTask(i))

EngineSpec == Spec /\ EngineFairness

\* Every node call comes back, and other runs do return the slots they took.
NodesReturn == (\A i \in Step : WF_vars(NodeReturns(i))) /\ WF_vars(OtherReturns)

-----------------------------------------------------------------------------
(* Properties.                                                             *)

Holding == {i \in Step : task[i] \in {"invoke", "wait", "inlined", "release"}}
Executing == {i \in Step : task[i] \in {"invoke", "wait"}}
Terminal == {"succeeded", "failed", "cancelled", "skipped"}

\* prepare reads ex.Steps[dep].Value without looking at the dependency's state:
\* whatever the order completions arrive in, a step that was started has all
\* its dependencies succeeded, then and for the rest of the run.
DependenciesFirst ==
    \A i \in Step : task[i] # "idle" =>
        \A p \in 1 .. Len(Deps[i]) : state[Deps[i][p]] = "succeeded"

\* Run's result can be trusted: every step is settled, a run that does not
\* report failure ran every step to success, the step blamed did fail, and
\* skipped or cancelled steps only occur in a run that reports failure.
HonestReport ==
    pc = "returned" =>
        /\ \A i \in Step : state[i] \in Terminal
        /\ ~Failed => \A i \in Step : state[i] = "succeeded"
        /\ failedStep >= 0 => state[failedStep] \in {"failed", "cancelled"}
        /\ ~ (failedStep >= 0 /\ caller)
        /\ \A i \in Step : state[i] = "skipped" => task[i] = "idle"

\* The pool's tokens are exactly the steps that hold one, here and in other
\* runs, so an abandoned step keeps its slot and none is returned twice.
SlotsConserved ==
    SlotCap > 0 => /\ held = others + Cardinality(Holding)
                   /\ held <= SlotCap

\* MaxConcurrency bounds the steps executing at once, inline ones and ones
\* Run has abandoned included, although inflight only counts completions.
ConcurrencyBounded == Cardinality(Executing) <= MaxConcurrency

\* inflight counts the completions still to come, and no step is queued or
\* completes twice: the loop neither ends early nor waits for a message that
\* will never be sent, and the done channel has room for every send.
CompletionsExact ==
    /\ \A a, b \in 1 .. Len(ready) : ready[a] = ready[b] => a = b
    /\ \A a, b \in 1 .. Len(done) : done[a] = done[b] => a = b
    /\ pc \notin {"inline", "returned"} =>
           inflight = Cardinality(Executing) + Len(done)

\* A healthy run is never cut short: Run leaves a step behind only in a run
\* that had stopped and whose abandonment deadline had been armed before.
NeverCutShort ==
    pc = "returned" /\ Executing # {} => Failed /\ stopped /\ abandoned > 0

\* With DetectMutation, Run reports every value that ends up changed, at the
\* step that made it, whoever wrote it, when, and however many steps passed
\* the pointer on; writes that cancel out are not charged to that step; and no
\* step is accused whose value nobody wrote through.
MutationsExact ==
    pc = "returned" =>
        IF DetectMutation
          THEN /\ \A i \in Step : state[i] = "succeeded" =>
                     (memory[i] \in mutations <=> content[memory[i]] # 0)
               /\ \A i \in mutations : state[i] = "succeeded" /\ memory[i] \in written
          ELSE mutations = {}

\* What a step of the run that calls node i again, or settles its result, may do.
RecalledInPolicy(i) ==
    attempt'[i] # attempt[i] /\ attempt[i] > 0 =>
        /\ outcome[i] = "transient" /\ result[i] = "none"
        /\ attempt'[i] = attempt[i] + 1 /\ attempt'[i] <= MaxAttempts[i]

ResultOfLastCall(i) ==
    result'[i] # result[i] =>
        /\ result[i] = "none"
        /\ IF outcome'[i] = "transient"
             THEN \/ result'[i] = "failed" /\ attempt[i] = MaxAttempts[i]
                  \/ result'[i] = "cancelled" /\ RunCtxDone
             ELSE result'[i] = outcome'[i]

\* A node is called again only after a call of it that returned a retryable
\* error with an attempt left, and never once its result was sent.  The result
\* is what the last call returned: a retryable error is final only when the
\* attempts are used up, or gives way to a cancellation of the run.
RetryWithinPolicy ==
    [][\A i \in Step : RecalledInPolicy(i) /\ ResultOfLastCall(i)]_vars

\* executor.go: once ctx is done or a step has failed, Run returns within
\* AbandonAfter, whatever the nodes do.
ReturnsOnceStopping == (ctxDone \/ stopped) ~> pc = "returned"

\* When nodes do return, so does Run: no run parks for ever on the slot pool.
Terminates == NodesReturn => <>(pc = "returned")

\* Every slot comes back once the nodes have returned, after Run returned too.
SlotsComeBack == NodesReturn => (pc = "returned" ~> Holding = {})

\* state.go: Abandoned counts steps that were still running when Run gave up,
\* so the step that gives up counts no more than the nodes executing then.
AbandonedWereRunning ==
    [][abandoned' > abandoned => abandoned' - abandoned <= Cardinality(Executing)]_vars

-----------------------------------------------------------------------------
(* The inductive invariant behind DependenciesFirst.                       *)

\* The reverse edges into j that unmet[j] has yet to count down: those of a
\* dependency that has not succeeded, and those ReleaseNext has yet to visit.
Outstanding(j) ==
    {e \in EdgesInto(j) :
        \/ state[e[1]] # "succeeded"
        \/ pc = "release" /\ e[1] = cursor[1] /\ e[2] >= cursor[2]}

CountInv ==
    /\ pc = "release" => /\ ~stopped
                         /\ cursor[1] \in Step /\ cursor[2] >= 1
                         /\ state[cursor[1]] = "succeeded"
    /\ ~stopped => \A j \in Step : unmet[j] = Cardinality(Outstanding(j))

Supplying == pc = "supply" \/ (pc = "release" /\ cursor[1] \in InputSteps)

\* ready holds distinct steps with nothing outstanding; the launched ones, and
\* no others, have a task.
QueueInv ==
    /\ \A a, b \in 1 .. Len(ready) : ready[a] = ready[b] => a = b
    /\ \A k \in 1 .. Len(ready) :
          /\ ready[k] \notin InputSteps
          /\ Outstanding(ready[k]) = {}
          /\ Supplying => ready[k] \notin RootSteps
          /\ task[ready[k]] = "idle" <=> k > launched
    /\ \A i \in Step : task[i] # "idle" => \E k \in 1 .. Len(ready) : ready[k] = i
    /\ pc = "inline" => launched >= 1

\* How step states, tasks, results and the done channel go together.
StateInv ==
    /\ \A i \in Step : result[i] # "none" <=> task[i] \in {"inlined", "release", "gone"}
    /\ \A a, b \in 1 .. Len(done) : done[a] = done[b] => a = b
    /\ \A k \in 1 .. Len(done) : task[done[k]] \in {"release", "gone"}
    /\ pc # "returned" =>
          /\ \A i \in Step : task[i] \in {"invoke", "wait", "inlined"} => state[i] = "running"
          /\ \A i \in Step \ InputSteps : task[i] = "idle" <=> state[i] = "pending"
          /\ \A k \in 1 .. Len(done) : state[done[k]] = "running"
          /\ \A k \in 1 .. Len(Inputs) : k > fed => state[Inputs[k]] = "pending"

IInv == TypeOK /\ CountInv /\ QueueInv /\ StateInv

-----------------------------------------------------------------------------
(* What the other safety properties need beside it.                        *)

\* Completions to come, while the run lasts; an inlined step is on its own.
FlightInv ==
    /\ pc \notin {"inline", "returned"} =>
          /\ inflight = Cardinality(Executing) + Len(done)
          /\ \A i \in Step : task[i] # "inlined"
    /\ pc = "inline" =>
          /\ inflight = 0 /\ done = <<>>
          /\ \A i \in Step : task[i] \in {"invoke", "wait", "inlined"} => i = ready[launched]
    /\ Cardinality(Executing) <= MaxConcurrency

\* The verdict: a run is stopped exactly when it has a failure to report, and
\* the abandonment timer only runs in one.
VerdictInv ==
    /\ stopped <=> Failed
    /\ timer # "off" => stopped
    /\ ~ (failedStep >= 0 /\ caller)
    /\ failedStep >= 0 => state[failedStep] \in {"failed", "cancelled"}
    /\ \A i \in Step : state[i] \in {"failed", "cancelled"} => Failed

\* A step that runs will complete: its task is busy, or its completion is waiting.
RunningInv ==
    \A i \in Step :
        /\ state[i] # "skipped"
        /\ state[i] = "running" =>
              task[i] \in {"invoke", "wait", "inlined"} \/ \E k \in 1 .. Len(done) : done[k] = i

\* The inputs fed are settled, and all are fed before anything is started.
SupplyInv ==
    /\ \A k \in 1 .. fed : state[Inputs[k]] \in {"succeeded", "failed"}
    /\ ~Supplying => fed = Len(Inputs)

\* In a run that has not stopped, every step that may start is queued.
ReadyInv ==
    ~stopped => \A i \in Step \ InputSteps :
        Outstanding(i) = {} /\ (Supplying => i \notin RootSteps) =>
            \E k \in 1 .. Len(ready) : ready[k] = i

\* pump starts all it may before the coordinator blocks.
PumpInv ==
    /\ pc = "pump" => ~stopped
    /\ pc = "select" /\ ~stopped /\ SlotCap = 0 => ~Startable

ProgressInv == pc # "returned" => RunningInv /\ SupplyInv /\ ReadyInv /\ PumpInv

\* A value passed on belongs to a step that succeeded, and was made there; what
\* a step that succeeded returned stays what it is.
MemoryInv ==
    \A i \in Step :
        /\ task[i] \in {"invoke", "wait"} => state[i] # "succeeded"
        /\ memory[i] # i => state[memory[i]] = "succeeded"
        /\ memory[memory[i]] = memory[i]

\* Every output a consumer can hold was rendered, the one of its maker before
\* anybody could write to it.
GuardInv ==
    /\ pc # "returned" =>
          /\ \A m \in Step : content[m] # 0 => m \in written
          /\ \A m \in written : state[m] = "succeeded"
          /\ DetectMutation =>
                /\ \A i \in Step : i \in taken <=> state[i] = "succeeded"
                /\ \A i \in taken : /\ memory[i] = i => snapshot[i] = 0
                                    /\ snapshot[i] # 0 => memory[i] \in written
    /\ MutationsExact

AttemptInv ==
    \A i \in Step : /\ attempt[i] <= MaxAttempts[i]
                    /\ task[i] = "idle" => attempt[i] = 0
                    /\ task[i] = "wait" => attempt[i] < MaxAttempts[i]
                                           /\ outcome[i] = "transient"

RunInv ==
    /\ IInv /\ FlightInv /\ SlotsConserved /\ VerdictInv /\ ProgressInv
    /\ HonestReport /\ NeverCutShort /\ MemoryInv /\ GuardInv /\ AttemptInv

-----------------------------------------------------------------------------
RC == INSTANCE RunContract WITH over <- (pc = "returned")

\* The scheduler implements the contract of Run.
Contract == RC!Spec
=============================================================================
