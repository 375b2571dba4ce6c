---------------------------- MODULE MCScheduler -----------------------------
(* Small plans and retry policies for model checking Scheduler.             *)
EXTENDS Scheduler, TLC

\* A diamond: input 0 and root 2 feed step 3, step 4 binds root 2 on two
\* ports, step 5 joins 3, 4 and input 1.
DiamondDeps ==
    0 :> <<>> @@ 1 :> <<>> @@ 2 :> <<>> @@ 3 :> <<0, 2>> @@ 4 :> <<2, 2>> @@ 5 :> <<3, 4, 1>>
DiamondDependents ==
    0 :> <<3>> @@ 1 :> <<5>> @@ 2 :> <<3, 4, 4>> @@ 3 :> <<5>> @@ 4 :> <<5>> @@ 5 :> <<>>
DiamondInputs == <<0, 1>>
DiamondRoots == <<2>>
\* The root and step 3 retry once.
DiamondAttempts == [i \in 0 .. 5 |-> IF i \in {2, 3} THEN 2 ELSE 1]

\* Two inputs, two roots and a fan-in over all of them.
FanDeps == 0 :> <<>> @@ 1 :> <<>> @@ 2 :> <<>> @@ 3 :> <<>> @@ 4 :> <<0, 2, 1, 3>>
FanDependents == 0 :> <<4>> @@ 1 :> <<4>> @@ 2 :> <<4>> @@ 3 :> <<4>> @@ 4 :> <<>>
FanInputs == <<0, 1>>
FanRoots == <<2, 3>>
FanAttempts == 0 :> 1 @@ 1 :> 1 @@ 2 :> 2 @@ 3 :> 1 @@ 4 :> 1

\* An input and three roots, one more than may execute at once, and a fan-in.
WideDeps == 0 :> <<>> @@ 1 :> <<>> @@ 2 :> <<>> @@ 3 :> <<>> @@ 4 :> <<0, 1, 2, 3>>
WideDependents == [i \in 0 .. 4 |-> IF i = 4 THEN <<>> ELSE <<4>>]
WideInputs == <<0>>
WideRoots == <<1, 2, 3>>
WideAttempts == [i \in 0 .. 4 |-> IF i = 1 THEN 2 ELSE 1]
=============================================================================
