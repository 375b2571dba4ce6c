----------------------------- MODULE RunContract -----------------------------
(***************************************************************************)
(* What runtime.Run promises about the Execution it returns, with no       *)
(* coordinator, queue, channel or pool: the lifecycle of step states and   *)
(* of the run's verdict (state.go).  Scheduler implements it.              *)
(***************************************************************************)
EXTENDS Integers, Sequences

CONSTANTS N, Deps, Inputs

Step == 0 .. N - 1
InputSteps == {Inputs[k] : k \in 1 .. Len(Inputs)}

VARIABLES
    state,      \* Execution.Steps[i].State
    failedStep, \* Execution.FailedStep
    caller,     \* Execution.Cancelled
    over        \* Run has returned

vars == <<state, failedStep, caller, over>>

Failed == failedStep >= 0 \/ caller

Init ==
    /\ state = [i \in Step |-> "pending"]
    /\ failedStep = -1
    /\ caller = FALSE
    /\ over = (N = 0)

\* The step settles as s; the first failure is the one the run reports.
Settle(i, s) ==
    /\ state' = [state EXCEPT ![i] = s]
    /\ failedStep' = IF s # "succeeded" /\ ~Failed THEN i ELSE failedStep
    /\ UNCHANGED <<caller, over>>

\* A declared input is recorded, or is missing or ill-typed.
Feed(i) ==
    /\ ~over
    /\ i \in InputSteps /\ state[i] = "pending"
    /\ \E s \in {"succeeded", "failed"} : Settle(i, s)

\* A step starts only in a run that has not stopped, on values that exist.
Start(i) ==
    /\ ~over /\ ~Failed
    /\ i \notin InputSteps /\ state[i] = "pending"
    /\ \A p \in 1 .. Len(Deps[i]) : state[Deps[i][p]] = "succeeded"
    /\ state' = [state EXCEPT ![i] = "running"]
    /\ UNCHANGED <<failedStep, caller, over>>

Finish(i) ==
    /\ ~over
    /\ state[i] = "running"
    /\ \E s \in {"succeeded", "failed", "cancelled"} : Settle(i, s)

CallerCancels ==
    /\ ~over /\ ~Failed
    /\ caller' = TRUE
    /\ UNCHANGED <<state, failedStep, over>>

\* Run returns: without a failure only once every step succeeded; otherwise
\* what was running is given up on and what never started is skipped.
Return ==
    /\ ~over
    /\ ~Failed => \A i \in Step : state[i] = "succeeded"
    /\ state' = [i \in Step |-> IF state[i] = "running" THEN "cancelled"
                              ELSE IF state[i] = "pending" THEN "skipped"
                              ELSE state[i]]
    /\ over' = TRUE
    /\ UNCHANGED <<failedStep, caller>>

Next ==
    \/ \E i \in Step : Feed(i) \/ Start(i) \/ Finish(i)
    \/ CallerCancels
    \/ Return

Spec == Init /\ [][Next]_vars
=============================================================================
