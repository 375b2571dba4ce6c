------------------------------- MODULE Compiler -------------------------------
(***************************************************************************)
(* pipeline.Compile: from a parsed document to the plan Scheduler runs, or *)
(* to the list of what is wrong with it.  Every phase runs on every file;  *)
(* the search for a cycle is a step per edge, the other phases one each.   *)
(*                                                                         *)
(* Inputs and steps share one index space, inputs first, each group sorted *)
(* by name; a name is its index, and N stands for a name that is neither.  *)
(* Port names are the numbers 1, 2, ... in sorted order.                   *)
(***************************************************************************)
EXTENDS Integers, Sequences, FiniteSets, SequencesExt, Ranks

CONSTANTS
    NumInputs,     \* number of declared inputs
    N,             \* number of inputs and steps
    Types,         \* the registered types
    Catalog,       \* Catalog[c]: the ports of capability c, its output type
    ResponseTypes, \* the types a trigger that answers can write back
    Files          \* the documents to compile

Index == 0 .. N - 1
InputIndex == 0 .. NumInputs - 1
StepIndex == NumInputs .. N - 1

ASSUME CompilerAssumption ==
    /\ N \in Nat /\ NumInputs \in 0 .. N
    /\ "" \notin Types
    /\ \A c \in DOMAIN Catalog :
          Catalog[c].ins \in Seq([name : Nat, type : STRING]) /\ Catalog[c].out # ""

\* A File: inputs with a type each, steps with a capability and their needs in
\* one of the two forms, a trigger block or none.
IsFile(f) ==
    /\ DOMAIN f.inputs = InputIndex
    /\ DOMAIN f.uses = StepIndex /\ DOMAIN f.needs = StepIndex
    /\ \A i \in StepIndex :
          /\ f.needs[i].named \in BOOLEAN
          /\ IF f.needs[i].named THEN f.needs[i].order = <<>> ELSE f.needs[i].byPort = <<>>
          /\ f.needs[i].order \in Seq(0 .. N)
          /\ DOMAIN f.needs[i].byPort \subseteq Nat /\ IsFiniteSet(DOMAIN f.needs[i].byPort)
          /\ \A p \in DOMAIN f.needs[i].byPort : f.needs[i].byPort[p] \in 0 .. N
    /\ f.trigger.kind \in {"none", "broken", "built"}
    /\ f.trigger.answers \in BOOLEAN /\ f.trigger.timed \in BOOLEAN
    /\ DOMAIN f.trigger.provides = InputIndex
    /\ f.trigger.respond \in -1 .. N

\* What validate lets through to the compiler: some step, no missing type or
\* capability, a known overlap policy, no step that needs itself.
Validated(f) ==
    /\ StepIndex # {}
    /\ \A i \in InputIndex : f.inputs[i] # ""
    /\ f.trigger.overlap \in {"", "allow", "drop"}
    /\ \A i \in StepIndex :
          /\ f.uses[i] # ""
          /\ i \notin Range(f.needs[i].order) \cup Range(f.needs[i].byPort)

ASSUME FilesAssumption == \A f \in Files : IsFile(f) /\ Validated(f)

VARIABLES
    file,       \* the document
    phase,      \* the phase to run next, or the verdict
    problems,   \* what was reported: a step, or -1, and the complaint
    inputTypes, \* inputTypes[i]: the type of input i, "" if unusable
    nodes,      \* the steps whose node was built
    color,      \* checkCycles: white, grey or black
    path,       \* checkCycles: the current path, with the next edge to follow
    root,       \* checkCycles: the next start
    cycle,      \* the cycle that was reported, if any
    deps,       \* deps[i]: the dependencies of i in port order
    binding,    \* the trigger binding
    plan        \* the plan

compVars == <<inputTypes, nodes, deps, binding, plan>>
dfsVars == <<color, path, root, cycle>>
vars == <<file, phase, problems, compVars, dfsVars>>

NoPlan == [deps |-> <<>>, dependents |-> <<>>, offsets |-> <<>>, total |-> 0,
           inputs |-> <<>>, roots |-> <<>>]
NoBinding == [respond |-> -1, overlap |-> "", timed |-> FALSE]
Verdicts == {"accepted", "rejected"}

TypeOK ==
    /\ phase \in {"inputs", "resolve", "dependencies", "cycles", "edges", "trigger",
                  "finish"} \cup Verdicts
    /\ \A x \in problems : x[1] \in -1 .. N - 1
    /\ inputTypes \in [InputIndex -> Types \cup {""}]
    /\ nodes \subseteq StepIndex
    /\ color \in [Index -> {"white", "grey", "black"}]
    /\ path \in Seq(Index \X (Nat \ {0}))
    /\ root \in 0 .. N
    /\ deps \in [Index -> Seq(Index)]
    /\ binding.respond \in -1 .. N - 1

Init ==
    /\ file \in Files
    /\ phase = "inputs" /\ problems = {}
    /\ inputTypes = [i \in InputIndex |-> ""]
    /\ nodes = {}
    /\ color = [i \in Index |-> "white"]
    /\ path = <<>> /\ root = 0 /\ cycle = <<>>
    /\ deps = [i \in Index |-> <<>>]
    /\ binding = NoBinding
    /\ plan = NoPlan

-----------------------------------------------------------------------------
(* What the document says.                                                 *)

Known(name) == name \in Index

\* Needs.Steps: every name a step refers to; nothing for an input.
NeedsSteps(i) ==
    IF i \in InputIndex THEN <<>>
    ELSE IF ~file.needs[i].named THEN file.needs[i].order
    ELSE LET byPort == file.needs[i].byPort IN
         Pick(byPort, DOMAIN byPort)

Named(i, k) == NeedsSteps(i)[k]

Descriptor(i) == Catalog[file.uses[i]]
Arity(i) == Len(Descriptor(i).ins)

OutputType(i) ==
    IF i \in InputIndex THEN inputTypes[i]
    ELSE IF i \in nodes THEN Descriptor(i).out ELSE ""

-----------------------------------------------------------------------------
(* The phases.                                                             *)

\* Mutant: a type that is not registered is kept.
ResolveInputsKeep ==
    LET bad == {i \in InputIndex : file.inputs[i] \notin Types} IN
    /\ phase = "inputs"
    /\ inputTypes' = file.inputs
    /\ problems' = problems \cup {<<-1, "input type", i>> : i \in bad}
    /\ phase' = "resolve"
    /\ UNCHANGED <<file, nodes, deps, binding, plan, dfsVars>>

ResolveInputs ==
    LET bad == {i \in InputIndex : file.inputs[i] \notin Types} IN
    /\ phase = "inputs"
    /\ inputTypes' = [i \in InputIndex |-> IF i \in bad THEN "" ELSE file.inputs[i]]
    /\ problems' = problems \cup {<<-1, "input type", i>> : i \in bad}
    /\ phase' = "resolve"
    /\ UNCHANGED <<file, nodes, deps, binding, plan, dfsVars>>

\* A capability outside the catalog is unknown, or refuses its configuration.
Resolve ==
    LET built == {i \in StepIndex : file.uses[i] \in DOMAIN Catalog} IN
    /\ phase = "resolve"
    /\ nodes' = built
    /\ problems' = problems \cup {<<i, "capability">> : i \in StepIndex \ built}
    /\ phase' = "dependencies"
    /\ UNCHANGED <<file, inputTypes, deps, binding, plan, dfsVars>>

Unresolved(i) == {k \in DOMAIN NeedsSteps(i) : ~Known(Named(i, k))}

CheckDependencies ==
    /\ phase = "dependencies"
    /\ problems' = problems \cup {<<i, "unknown step">> : i \in {j \in Index : Unresolved(j) # {}}}
    /\ phase' = "cycles"
    /\ UNCHANGED <<file, compVars, dfsVars>>

\* visit(i): on the path, with its first edge to follow.
Push(i) ==
    /\ color' = [color EXCEPT ![i] = "grey"]
    /\ path' = Append(path, <<i, 1>>)

Top == path[Len(path)]
FollowNext == path' = [path EXCEPT ![Len(path)] = <<@[1], @[2] + 1>>]

\* The next unvisited start, or the end of the search.
VisitRoot ==
    /\ phase = "cycles" /\ path = <<>>
    /\ IF root = N
         THEN phase' = "edges" /\ UNCHANGED <<color, path, root>>
         ELSE /\ UNCHANGED phase
              /\ root' = root + 1
              /\ IF color[root] = "white" THEN Push(root) ELSE UNCHANGED <<color, path>>
    /\ UNCHANGED <<file, problems, cycle, compVars>>

\* Mutant: the whole path is reported.
ReportCyclePath(j) ==
    /\ cycle' = Append([k \in DOMAIN path |-> path[k][1]], j)
    /\ problems' = problems \cup {<<-1, "cycle">>}
    /\ phase' = "edges"

\* reportCycle: the path from the step met again, and back to it.
ReportCycle(j) ==
    LET ids == [k \in DOMAIN path |-> path[k][1]]
        start == SelectInSeq(ids, LAMBDA x : x = j)
    IN  /\ cycle' = Append(SubSeq(ids, start, Len(ids)), j)
        /\ problems' = problems \cup {<<-1, "cycle">>}
        /\ phase' = "edges"

\* One edge of the step on top of the path.
VisitEdge ==
    /\ phase = "cycles" /\ path # <<>>
    /\ Top[2] <= Len(NeedsSteps(Top[1]))
    /\ LET j == Named(Top[1], Top[2]) IN
         \/ /\ Known(j) => color[j] = "black"
            /\ FollowNext
            /\ UNCHANGED <<color, cycle, problems, phase>>
         \/ /\ Known(j) /\ color[j] = "white"
            /\ Push(j)
            /\ UNCHANGED <<cycle, problems, phase>>
         \/ /\ Known(j) /\ color[j] = "grey"
            /\ ReportCycle(j)
            /\ UNCHANGED <<color, path>>
    /\ UNCHANGED <<file, root, compVars>>

\* visit returns: the step is finished, and its caller's next edge is up.
VisitDone ==
    /\ phase = "cycles" /\ path # <<>>
    /\ Top[2] > Len(NeedsSteps(Top[1]))
    /\ color' = [color EXCEPT ![Top[1]] = "black"]
    /\ LET rest == SubSeq(path, 1, Len(path) - 1) IN
         path' = IF rest = <<>> THEN rest ELSE [rest EXCEPT ![Len(rest)] = <<@[1], @[2] + 1>>]
    /\ UNCHANGED <<file, phase, problems, root, cycle, compVars>>

-----------------------------------------------------------------------------
(* checkEdges.                                                             *)

\* Mutant: the list form is always accepted.
AmbiguousNever(i) == FALSE

\* Two ports of one type: a swapped list would type check.
Ambiguous(i) ==
    \E a, b \in 1 .. Arity(i) : a # b /\ Descriptor(i).ins[a].type = Descriptor(i).ins[b].type

PortNames(i) == {Descriptor(i).ins[p].name : p \in 1 .. Arity(i)}

\* resolveNeeds and resolveNamedNeeds: what is wrong with the shape...
ShapeProblems(i) ==
    IF file.needs[i].named
    THEN {<<i, "unbound", x>> : x \in PortNames(i) \ DOMAIN file.needs[i].byPort}
         \cup {<<i, "no such input", x>> : x \in DOMAIN file.needs[i].byPort \ PortNames(i)}
    ELSE IF Ambiguous(i) THEN {<<i, "ambiguous">>}
    ELSE IF Len(file.needs[i].order) # Arity(i) THEN {<<i, "arity">>}
    ELSE {}

\* ...and the dependencies in port order when nothing is.
Bound(i) ==
    IF file.needs[i].named
    THEN [p \in 1 .. Arity(i) |-> file.needs[i].byPort[Descriptor(i).ins[p].name]]
    ELSE file.needs[i].order

\* The edges whose two ends disagree, the producer's type being known.
Mismatched(i) ==
    {p \in 1 .. Arity(i) : OutputType(Bound(i)[p]) \notin {"", Descriptor(i).ins[p].type}}

\* Mutant: a file that already has problems is not type checked.
CheckEdgesUnlessFailed ==
    LET judged == {i \in nodes : problems = {} /\ Unresolved(i) = {}}
        shaped == {i \in judged : ShapeProblems(i) = {}}
    IN  /\ phase = "edges"
        /\ deps' = [i \in Index |-> IF i \in shaped THEN Bound(i) ELSE <<>>]
        /\ problems' = problems
               \cup (UNION {ShapeProblems(i) : i \in judged})
               \cup (UNION {{<<i, "edge type", p>> : p \in Mismatched(i)} : i \in shaped})
        /\ phase' = "trigger"
        /\ UNCHANGED <<file, inputTypes, nodes, binding, plan, dfsVars>>

CheckEdges ==
    LET judged == {i \in nodes : Unresolved(i) = {}}
        shaped == {i \in judged : ShapeProblems(i) = {}}
    IN  /\ phase = "edges"
        /\ deps' = [i \in Index |-> IF i \in shaped THEN Bound(i) ELSE <<>>]
        /\ problems' = problems
               \cup (UNION {ShapeProblems(i) : i \in judged})
               \cup (UNION {{<<i, "edge type", p>> : p \in Mismatched(i)} : i \in shaped})
        /\ phase' = "trigger"
        /\ UNCHANGED <<file, inputTypes, nodes, binding, plan, dfsVars>>

-----------------------------------------------------------------------------
(* resolveTrigger and resolveRespondWith.                                  *)

RespondProblem(t) ==
    IF t.respond = -1 THEN ""
    ELSE IF ~t.answers THEN "nobody to answer"
    ELSE IF ~Known(t.respond) THEN "unknown step"
    ELSE IF t.respond \in InputIndex THEN "an input"
    ELSE IF OutputType(t.respond) \notin ResponseTypes \cup {""} THEN "response type"
    ELSE ""

OverlapDefault(t) == IF t.answers THEN "allow" ELSE "drop"

TriggerProblems(t) ==
    {<<-1, "not supplied", i>> : i \in {j \in InputIndex :
        inputTypes[j] # "" /\ t.provides[j] # inputTypes[j]}}
    \cup (IF t.answers /\ ~t.timed THEN {<<-1, "timeout">>} ELSE {})
    \cup (IF RespondProblem(t) # "" THEN {<<-1, RespondProblem(t)>>} ELSE {})

ResolveTrigger ==
    LET t == file.trigger IN
    /\ phase = "trigger"
    /\ phase' = "finish"
    /\ \/ /\ t.kind = "none"
          /\ UNCHANGED <<problems, binding>>
       \/ /\ t.kind = "broken"
          /\ problems' = problems \cup {<<-1, "trigger">>}
          /\ UNCHANGED binding
       \/ /\ t.kind = "built"
          /\ problems' = problems \cup TriggerProblems(t)
          /\ binding' = [respond |-> IF RespondProblem(t) = "" /\ t.respond # -1
                                        /\ OutputType(t.respond) # ""
                                     THEN t.respond ELSE -1,
                         overlap |-> IF t.overlap = "" THEN OverlapDefault(t) ELSE t.overlap,
                         timed |-> t.timed]
    /\ UNCHANGED <<file, inputTypes, nodes, deps, plan, dfsVars>>

-----------------------------------------------------------------------------
(* plan.                                                                   *)

Ids == [k \in 1 .. N |-> k - 1]

\* The offset of step i in the backing array all steps take their inputs from.
Offset[i \in 0 .. N] == IF i = 0 THEN 0 ELSE Offset[i - 1] + Len(deps[i - 1])

\* The reverse edges in the order plan meets them.  Edge e is the e-th input of
\* the backing array: the step it is an input of, and the step it comes from.
ConsumerOf(e) == CHOOSE j \in Index : e \in Offset[j] + 1 .. Offset[j] + Len(deps[j])
ProducerOf(e) == deps[ConsumerOf(e)][e - Offset[ConsumerOf(e)]]

EdgesFrom(i) == {e \in 1 .. Offset[N] : ProducerOf(e) = i}
DependentsOf(i) == [k \in 1 .. Cardinality(EdgesFrom(i)) |-> ConsumerOf(Nth(EdgesFrom(i), k))]

\* The steps that wait for nothing, as Ids has them.
Ready(candidates) == Listed({i \in candidates : deps[i] = <<>>})

\* Mutant: inputs count as roots.
MakePlanRooted ==
    [deps |-> deps,
     dependents |-> [i \in Index |-> DependentsOf(i)],
     offsets |-> [i \in Index |-> Offset[i]],
     total |-> Offset[N],
     inputs |-> SubSeq(Ids, 1, NumInputs),
     roots |-> Ready(Index)]

\* Mutant: the offset is taken after the step's own inputs were counted.
MakePlanShifted ==
    [deps |-> deps,
     dependents |-> [i \in Index |-> DependentsOf(i)],
     offsets |-> [i \in Index |-> Offset[i + 1]],
     total |-> Offset[N],
     inputs |-> SubSeq(Ids, 1, NumInputs),
     roots |-> Ready(StepIndex)]

MakePlan ==
    [deps |-> deps,
     dependents |-> [i \in Index |-> DependentsOf(i)],
     offsets |-> [i \in Index |-> Offset[i]],
     total |-> Offset[N],
     inputs |-> SubSeq(Ids, 1, NumInputs),
     roots |-> Ready(StepIndex)]

Finish ==
    /\ phase = "finish"
    /\ IF problems # {}
         THEN phase' = "rejected" /\ UNCHANGED plan
         ELSE phase' = "accepted" /\ plan' = MakePlan
    /\ UNCHANGED <<file, problems, inputTypes, nodes, deps, binding, dfsVars>>

\* Execute of the node adapters: the checks each makes of the values it is
\* handed, which the compiler is to have made needless.
ExecuteError(i, types) ==
    IF Len(types) # Arity(i) THEN "arity_mismatch"
    ELSE IF \E p \in DOMAIN types : types[p] # Descriptor(i).ins[p].type THEN "type_mismatch"
    ELSE ""

\* The types of the values the scheduler hands step i.
Delivered(i) == [p \in DOMAIN plan.deps[i] |-> OutputType(plan.deps[i][p])]

\* Respond of a webhook: the payloads it can write.
Respondable(i) == OutputType(i) \in ResponseTypes

Done == phase \in Verdicts /\ UNCHANGED vars

Next ==
    \/ ResolveInputs \/ Resolve \/ CheckDependencies
    \/ VisitRoot \/ VisitEdge \/ VisitDone
    \/ CheckEdges \/ ResolveTrigger \/ Finish \/ Done

Spec == Init /\ [][Next]_vars

-----------------------------------------------------------------------------
(* Properties.                                                             *)

\* The names step i refers to, whichever form its needs take.
NeedSet(i) == {Named(i, k) : k \in DOMAIN NeedsSteps(i)}

\* Some step depends on itself through others: a set of steps each of which
\* needs a member of the set.
Cyclic == \E S \in (SUBSET StepIndex) \ {{}} : \A i \in S : NeedSet(i) \cap S # {}

\* Reference: what a well-formed step is, from the type rules alone.
StepFits(i) ==
    LET needs == file.needs[i] d == Catalog[file.uses[i]]
        Source(x) == IF x \in InputIndex THEN file.inputs[x] ELSE Catalog[file.uses[x]].out
    IN  IF needs.named
        THEN /\ DOMAIN needs.byPort = {d.ins[p].name : p \in DOMAIN d.ins}
             /\ \A p \in DOMAIN d.ins : Source(needs.byPort[d.ins[p].name]) = d.ins[p].type
        ELSE /\ Cardinality({d.ins[p].type : p \in DOMAIN d.ins}) = Len(d.ins)
             /\ Len(needs.order) = Len(d.ins)
             /\ \A p \in DOMAIN d.ins : Source(needs.order[p]) = d.ins[p].type

TriggerFits ==
    LET t == file.trigger IN
    \/ t.kind = "none"
    \/ /\ t.kind = "built"
       /\ \A i \in InputIndex : t.provides[i] = file.inputs[i]
       /\ t.answers => t.timed
       /\ t.respond # -1 => /\ t.answers /\ t.respond \in StepIndex
                            /\ Catalog[file.uses[t.respond]].out \in ResponseTypes

WellFormed ==
    /\ \A i \in InputIndex : file.inputs[i] \in Types
    /\ \A i \in StepIndex : file.uses[i] \in DOMAIN Catalog /\ NeedSet(i) \subseteq Index
    /\ ~Cyclic
    /\ \A i \in StepIndex : StepFits(i)
    /\ TriggerFits

\* The phases skip what they cannot judge and report nothing twice, and still
\* the compiler accepts exactly the well-formed files.
AcceptsExactly == phase \in Verdicts => (phase = "accepted" <=> WellFormed)

\* No step of an accepted plan waits for itself, none is handed too few values
\* or one of another type, and the trigger can write the answer.
PlanExecutable ==
    phase = "accepted" =>
        /\ \A S \in (SUBSET Index) \ {{}} :
              \E i \in S : \A p \in DOMAIN plan.deps[i] : plan.deps[i][p] \notin S
        /\ \A i \in StepIndex : ExecuteError(i, Delivered(i)) = ""
        /\ binding.respond # -1 => Respondable(binding.respond)

\* An accepted plan is one the scheduler can run: the layout and the
\* acyclicity that Scheduler assumes of its constants, no node that is handed
\* too few values or one of another type, and an answer its trigger can write.
PlanRunnable ==
    /\ PlanExecutable
    /\ phase = "accepted" =>
        LET ins == {plan.inputs[k] : k \in DOMAIN plan.inputs}
            start == {plan.roots[k] : k \in DOMAIN plan.roots}
            Into(j) == {e \in UNION {{i} \X DOMAIN plan.dependents[i] : i \in Index} :
                           plan.dependents[e[1]][e[2]] = j}
        IN  /\ \A i \in Index : plan.deps[i] = <<>> <=> i \in ins \cup start
            /\ ins \cap start = {}
            /\ IsInjective(plan.inputs) /\ IsInjective(plan.roots)
            /\ \A j \in Index : Len(plan.deps[j]) = Cardinality(Into(j))
            /\ \A i, j \in Index : (\E p \in DOMAIN plan.deps[j] : plan.deps[j][p] = i)
                                       <=> (\E e \in Into(j) : e[1] = i)

\* prepare gives step i the slice at its offset of one shared array: the
\* slices of two steps never overlap and all fit, so no step reads or
\* overwrites another's inputs.
WindowsDisjoint ==
    phase = "accepted" =>
        LET Window(i) == plan.offsets[i] .. plan.offsets[i] + Len(plan.deps[i]) - 1 IN
        /\ \A i, j \in Index : i # j => Window(i) \cap Window(j) = {}
        /\ UNION {Window(i) : i \in Index} = 0 .. plan.total - 1

\* The cycle that is reported is one, named in order, and one is reported
\* whenever the file has one.
CycleReal ==
    phase \in {"edges", "trigger", "finish"} \cup Verdicts =>
        /\ Cyclic <=> cycle # <<>>
        /\ cycle # <<>> =>
              /\ Len(cycle) > 1 /\ cycle[1] = cycle[Len(cycle)]
              /\ \A k \in 1 .. Len(cycle) - 1 : cycle[k + 1] \in NeedSet(cycle[k])

\* One fault hides no other: a step that is wrong on its own account is
\* reported whatever is wrong elsewhere in the file.
NothingHidden ==
    phase \in Verdicts =>
        \A i \in StepIndex :
            LET judgeable == /\ file.uses[i] \in DOMAIN Catalog
                             /\ NeedSet(i) \subseteq Index
                             /\ \A x \in NeedSet(i) : OutputType(x) # ""
            IN  (file.uses[i] \notin DOMAIN Catalog \/ ~ (NeedSet(i) \subseteq Index)
                     \/ (judgeable /\ ~StepFits(i)))
                => \E x \in problems : x[1] = i

-----------------------------------------------------------------------------
(* What they need to be inductive.                                         *)

Phases == {"inputs", "resolve", "dependencies", "cycles", "edges", "trigger", "finish"} \cup Verdicts
PastInputs == phase # "inputs"
PastResolve == phase \notin {"inputs", "resolve"}
PastDependencies == phase \notin {"inputs", "resolve", "dependencies"}
PastCycles == phase \in {"edges", "trigger", "finish"} \cup Verdicts
PastEdges == phase \in {"trigger", "finish"} \cup Verdicts
PastTrigger == phase \in {"finish"} \cup Verdicts

\* The search: the path is the steps in grey, each the need its predecessor is
\* looking at; every need before that, and every need of a step in black, is
\* black; and no set of steps in black goes round in a circle.
PathInv ==
    /\ \A k \in 1 .. Len(path) : color[path[k][1]] = "grey"
    /\ \A k, m \in 1 .. Len(path) : path[k][1] = path[m][1] => k = m
    /\ \A k \in 1 .. Len(path) - 1 :
          /\ path[k][2] <= Len(NeedsSteps(path[k][1]))
          /\ Named(path[k][1], path[k][2]) = path[k + 1][1]

ColorInv ==
    /\ \A i \in Index : color[i] = "grey" => \E k \in 1 .. Len(path) : path[k][1] = i
    /\ \A i \in Index : i < root => color[i] # "white"
    /\ \A k \in 1 .. Len(path) : \A m \in 1 .. path[k][2] - 1 :
          m <= Len(NeedsSteps(path[k][1])) /\ Known(Named(path[k][1], m)) =>
              color[Named(path[k][1], m)] = "black"
    /\ \A i \in Index : color[i] = "black" =>
          \A x \in NeedSet(i) : Known(x) => color[x] = "black"
    /\ \A S \in (SUBSET Index) \ {{}} : (\A i \in S : color[i] = "black") =>
          \E i \in S : NeedSet(i) \cap S = {}

CycleInv == (~PastCycles => cycle = <<>>) /\ CycleReal

SearchInv == PathInv /\ ColorInv /\ CycleInv

\* What the phases know is what the file says.
KnownInv ==
    /\ PastInputs => inputTypes = [i \in InputIndex |->
                         IF file.inputs[i] \in Types THEN file.inputs[i] ELSE ""]
    /\ PastResolve => nodes = {i \in StepIndex : file.uses[i] \in DOMAIN Catalog}

\* What is wrong with step i itself, of what its phases can tell.
Faulty(i) ==
    \/ PastResolve /\ file.uses[i] \notin DOMAIN Catalog
    \/ PastDependencies /\ Unresolved(i) # {}
    \/ /\ PastEdges /\ file.uses[i] \in DOMAIN Catalog /\ Unresolved(i) = {}
       /\ ShapeProblems(i) # {} \/ Mismatched(i) # {}

TriggerFaulty ==
    \/ file.trigger.kind = "broken"
    \/ file.trigger.kind = "built" /\ TriggerProblems(file.trigger) # {}

\* Every fault is reported, under its step if it has one, and nothing else is.
ReportInv ==
    /\ \A i \in StepIndex : Faulty(i) => \E x \in problems : x[1] = i
    /\ problems = {} <=>
          /\ PastInputs => \A i \in InputIndex : file.inputs[i] \in Types
          /\ \A i \in StepIndex : ~Faulty(i)
          /\ cycle = <<>>
          /\ PastTrigger => ~TriggerFaulty

VerdictInv == phase \in Verdicts => (phase = "accepted" <=> problems = {})

IInv == TypeOK /\ IsFile(file) /\ Validated(file) /\ SearchInv /\ KnownInv /\ ReportInv /\ VerdictInv

\* What the steps were bound to, and what the plan and the answer are made of.
PlanInv ==
    /\ PastEdges => deps = [i \in Index |->
          IF i \in nodes /\ Unresolved(i) = {} /\ ShapeProblems(i) = {} THEN Bound(i) ELSE <<>>]
    /\ binding.respond # -1 => PastTrigger /\ OutputType(binding.respond) \in ResponseTypes
    /\ phase = "accepted" => plan = MakePlan
=============================================================================
