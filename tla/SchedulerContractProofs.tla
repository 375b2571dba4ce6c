----------------------- MODULE SchedulerContractProofs -----------------------
(***************************************************************************)
(* Scheduler implements RunContract, for every plan and every setting of   *)
(* the options: under RunInv each of its steps is a step of the contract   *)
(* or leaves what the contract sees alone.                                 *)
(***************************************************************************)
EXTENDS SchedulerRunProofs

\* What the contract sees does not change.
Unseen ==
    /\ UNCHANGED <<state, failedStep, caller>>
    /\ pc' = "returned" <=> pc = "returned"

\* A step the contract does not see is a stutter of it.
LEMMA UnseenStutters ==
  ASSUME Unseen
  PROVE  UNCHANGED RC!vars
<1>1. (pc' = "returned") = (pc = "returned")
  BY Zenon DEF Unseen
<1> QED
  BY <1>1 DEF Unseen, RC!vars

\* The two modules name the same steps and the same failure.
LEMMA SameNames ==
  /\ RC!Step = Step /\ RC!InputSteps = InputSteps
  /\ RC!Failed <=> Failed
  BY DEF RC!Step, Step, RC!InputSteps, InputSteps, RC!Failed, Failed

\* handle settles the step as the contract says: the first failure is blamed.
LEMMA HandleSettles ==
  ASSUME IInv, VerdictInv, NEW i \in Step, NEW r \in Results, Settling(i, r)
  PROVE  \E j \in Step : RC!Feed(j) \/ RC!Finish(j)
<1>1. /\ state' = [state EXCEPT ![i] = Recorded(r)]
      /\ caller' = caller /\ pc # "returned" /\ pc' # "returned"
      /\ Recorded(r) \in {"succeeded", "failed", "cancelled"}
  BY SettlingEffect
<1>2. failedStep' = IF Recorded(r) # "succeeded" /\ ~RC!Failed THEN i ELSE failedStep
  BY SettlingEffect, SameNames DEF VerdictInv
<1>3. (pc' = "returned") = (pc = "returned")
  BY <1>1
<1>4. RC!Settle(i, Recorded(r))
  BY <1>1, <1>2, <1>3 DEF RC!Settle
<1>5. CASE i \in InputSteps
  <2>1. state[i] = "pending" /\ Recorded(r) \in {"succeeded", "failed"}
    BY <1>5 DEF Settling, Recorded
  <2>2. RC!Feed(i)
    BY <1>1, <1>4, <1>5, <2>1, SameNames DEF RC!Feed
  <2>3. QED
    BY <2>2
<1>6. CASE i \notin InputSteps
  <2>1. state[i] = "running"
    BY <1>6 DEF Settling
  <2>2. RC!Finish(i)
    BY <1>1, <1>4, <2>1 DEF RC!Finish
  <2>3. QED
    BY <2>2
<1> QED
  BY <1>5, <1>6

\* launch and tryInline start a step on values that exist, in a run that has
\* not stopped.
LEMMA BeginStarts ==
  ASSUME IInv, VerdictInv, ProgressInv, Starts
  PROVE  \E j \in Step : RC!Start(j)
<1> DEFINE i == ready[launched + 1]
<1>1. /\ i \in Step /\ i \notin InputSteps /\ state[i] = "pending"
      /\ state' = [state EXCEPT ![i] = "running"] /\ UNCHANGED <<failedStep, caller>>
      /\ pc # "returned" /\ pc' # "returned"
      /\ pc = "pump" \/ ~stopped
  BY StartsForm DEF Begin
<1>2. ~RC!Failed
  <2>1. ~stopped
    BY <1>1 DEF ProgressInv, PumpInv
  <2>2. QED
    BY <2>1, SameNames DEF VerdictInv
<1>3. ASSUME NEW p \in 1 .. Len(Deps[i]) PROVE state[Deps[i][p]] = "succeeded"
  <2>1. launched + 1 \in 1 .. Len(ready)
    BY StartsForm DEF IInv, TypeOK, DataOK
  <2>2. Outstanding(i) = {}
    BY <2>1 DEF IInv, QueueInv
  <2>3. Deps[i][p] \in Step
    BY <1>1, PlanTypes
  <2>4. PICK e \in EdgesInto(i) : e[1] = Deps[i][p]
    BY <1>1, <2>3, PlanLayout
  <2>5. QED
    BY <2>2, <2>4 DEF Outstanding
<1>4. (pc' = "returned") = (pc = "returned")
  BY <1>1
<1> HIDE DEF i
<1>5. RC!Start(i)
  BY <1>1, <1>2, <1>3, <1>4, SameNames DEF RC!Start
<1> QED
  BY <1>1, <1>5

\* The caller's giving up is the contract's, in a run that had not failed, and
\* otherwise nothing the contract sees.
LEMMA CallerGoesUnlessFailed ==
  ASSUME IInv, VerdictInv, SelectCaller
  PROVE  RC!CallerCancels \/ UNCHANGED RC!vars
<1>1. /\ UNCHANGED <<state, failedStep>> /\ caller' = (caller \/ ~stopped)
      /\ pc = "select" /\ pc' = "loop"
  BY DEF SelectCaller
<1>2. (pc' = "returned") = (pc = "returned")
  BY <1>1
<1>3. CASE stopped
  <2>1. caller' = (caller \/ FALSE)
    BY <1>1, <1>3, Zenon
  <2>2. caller \in BOOLEAN
    BY Zenon DEF IInv, TypeOK, FlagsOK
  <2>3. caller' = caller
    BY <2>1, <2>2, Zenon
  <2>4. QED
    BY <1>1, <1>2, <2>3 DEF RC!vars
<1>4. CASE ~stopped
  <2>1. caller' = TRUE
    BY <1>1, <1>4, Zenon
  <2>2. ~RC!Failed
    BY <1>4, SameNames DEF VerdictInv
  <2>3. QED
    BY <1>1, <1>2, <2>1, <2>2 DEF RC!CallerCancels
<1> QED
  BY <1>3, <1>4

\* finalize is the contract's Return.
LEMMA FinalizeReturns ==
  ASSUME IInv, FlightInv, VerdictInv, ProgressInv, Ends
  PROVE  RC!Return
<1>1. failedStep' = failedStep /\ pc = "select" /\ pc' = "returned"
  BY EndsFrame
<1>2. caller' = caller
  <2>1. caller' <=> caller
    BY EndsVerdict
  <2>2. caller \in BOOLEAN /\ caller' \in BOOLEAN
    <3>1. \E g \in BOOLEAN : caller' = (caller \/ (g /\ ~Failed))
      BY EndsFrame DEF Finalize
    <3>2. caller' \in BOOLEAN
      BY <3>1, Zenon
    <3>3. caller \in BOOLEAN
      BY Zenon DEF IInv, TypeOK, FlagsOK
    <3>4. QED
      BY <3>2, <3>3
  <2>3. QED
    BY <2>1, <2>2, Zenon
<1>3. ~RC!Failed => \A i \in Step : state[i] = "succeeded"
  <2>1. SelectAbandon => Failed
    BY EndsVerdict
  <2>2. QED
    BY <2>1, LoopEndsComplete, SameNames DEF Ends
<1>4. LoopEnds => \A i \in Step : state[i] # "running"
  BY <1>1, NothingInFlight DEF ProgressInv
<1>5. state' = [i \in Step |-> IF state[i] = "running" THEN "cancelled"
                               ELSE IF state[i] = "pending" THEN "skipped"
                               ELSE state[i]]
  <2>1. CASE SelectAbandon
    BY <2>1 DEF SelectAbandon, Finalize
  <2>2. CASE LoopEnds
    BY <1>4, <2>2 DEF LoopEnds, Finalize
  <2>3. QED
    BY <2>1, <2>2 DEF Ends
<1>6. (pc = "returned") = FALSE /\ (pc' = "returned") = TRUE
  BY <1>1
<1> QED
  BY <1>1, <1>2, <1>3, <1>5, <1>6, SameNames DEF RC!Return

\* A run starts as the contract says.
LEMMA ContractInit == Init => RC!Init
<1> SUFFICES ASSUME Init PROVE RC!Init
  OBVIOUS
<1>1. (pc = "returned") = (N = 0)
  BY DEF Init
<1> QED
  BY <1>1, SameNames DEF Init, RC!Init

\* Every step of a run is a step of the contract or a stutter.
LEMMA ContractStep == RunInv /\ [Next]_vars => [RC!Next]_(RC!vars)
<1> SUFFICES ASSUME RunInv, [Next]_vars PROVE [RC!Next]_(RC!vars)
  OBVIOUS
<1>i. IInv /\ FlightInv /\ VerdictInv /\ ProgressInv
  BY DEF RunInv
<1>1. CASE Settles
  <2>1. \E j \in Step : RC!Feed(j) \/ RC!Finish(j)
    BY <1>i, <1>1, SettlesForm, HandleSettles
  <2>2. QED
    BY <2>1, SameNames DEF RC!Next
<1>2. CASE Starts
  <2>1. \E j \in Step : RC!Start(j)
    BY <1>i, <1>2, BeginStarts
  <2>2. QED
    BY <2>1, SameNames DEF RC!Next
<1>3. CASE SelectCaller
  BY <1>i, <1>3, CallerGoesUnlessFailed DEF RC!Next
<1>4. CASE Ends
  BY <1>i, <1>4, FinalizeReturns DEF RC!Next
<1>5. CASE Quiet
  <2>1. Unseen
    BY <1>5, QuietFrame DEF Unseen, execVars
  <2>2. QED
    BY <2>1, UnseenStutters
<1>6. CASE Outside \/ \E i \in Step : TaskStep(i)
  <2>1. UNCHANGED <<coordVars, execVars>>
    BY <1>6, OutsideFrame DEF TaskStep
  <2>2. Unseen
    BY <2>1 DEF Unseen, coordVars, execVars
  <2>3. QED
    BY <2>2, UnseenStutters
<1> QED
  BY <1>1, <1>2, <1>3, <1>4, <1>5, <1>6, StepKinds

\* The coordinator, the goroutines, the channel and the pool together implement
\* what Run promises about the Execution it returns.
THEOREM Refinement == Spec => Contract
  BY ContractInit, ContractStep, RunInvariance, PTL DEF Spec, Contract, RC!Spec
=============================================================================
