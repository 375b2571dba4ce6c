# p6e in TLA+

p6e compiles a YAML file into a typed graph of steps and runs it: once from the
command line, or again and again in a daemon whose triggers (webhooks and
schedules) start runs. This directory holds TLA+ modules of the parts of p6e
whose correctness depends on the order in which things happen, the TLC
configurations that check them on small instances, and TLAPS proofs of their
safety properties for plans, files, directories and command lines of any size and
for any number of events.

`PROJECT.json` lists the runs, the source lines each definition models, the
mutants that show each property can fail, the hazards the properties are aimed
at, the findings and the theorems.

## The system

| Component | State | Operations | Meets |
|---|---|---|---|
| Scheduler and executor (`internal/runtime/scheduler.go`, `executor.go`, `state.go`) | ready queue, unmet counters, in-flight count, `Execution`, done channel, run context, abandonment timer | `Run`: supply inputs, launch, inline, select, handle, finalize; `runStep` with retry and backoff | step goroutines over the done channel; other runs over the slot pool; the caller over its context |
| Slot pool (`Options.Slots`) | a channel of tokens | take (try, or in the select), return | every run of the process |
| Mutation guard (`mutation.go`) | a rendering of every output | record, check | nodes that write through shared values |
| Daemon: admission (`internal/daemon/run.go`) | per pipeline: in flight, streak, quarantined, counts; wait group, total, draining | `fire`, `admit`, `claimSlot`, `record`, the deferred release | Serve over the lock and the wait group |
| Daemon: Serve (`daemon.go`) | listeners, servers, error channel | serve, shut down, drain | listeners, handlers, runs |
| Admin (`admin.go`) | none of its own | readiness, liveness, metrics | reads the daemon's state |
| Webhook handler (`serve.go`, `internal/trigger/webhook.go`, `auth.go`) | body cap, authentication of a route | configuration, `Values`, `verify`, `Respond`, `statusFor` | called by net/http, calls `fire` |
| Schedule (`internal/trigger/schedule.go`) | ticker | `Listen` | calls `fire` |
| Loading and routes (`load.go`, `serve.go`) | candidates, claims, rejections, routes | `Load`, `resolveClaims`, `New`, registration with net/http | Compile, `http.ServeMux` |
| Compiler and plan (`internal/pipeline`) | problems, nodes, search colours, dependencies | eight phases of `Compile` | hands `ExecutionPlan` to Run |
| Nodes that leave the process (`nodes/exec`, `nodes/httpnode`) | one call: child process, pipe, connection, its own timeout | start, kill, wait; dial, redirect, read a body | called by `runStep`; programs, servers, resolvers |
| Command line (`cmd/p6e`) | arguments, inputs, exit status | one invocation of `run`, `check`, `check --dir`, `serve` | Compile, Load, Run, Serve |
| Node contracts, registries, transformation nodes | stateless, or filled at start-up | single calls | called by the above |

What is hard in it:

- one coordinator, many step goroutines, and a `select` whose arms (completion,
  slot, caller, abandonment) may all be ready together;
- a run may give up on a step, whose goroutine lives on, holds its slot, and
  still sends its completion into a channel nobody reads;
- the pool is shared, so a run may hold nothing, wait, and have to notice
  cancellation meanwhile;
- admission is a sequence of atomic accesses by any number of goroutines, racing
  the shutdown that wants to know which runs to wait for;
- the shutdown waits on four things in turn, any of which may take for ever;
- a call that leaves the process sees two contexts, its execution's and its own
  timeout, either of which may end while a program exits, a background process
  keeps a pipe open, or a body is half read; what is reported decides on a retry;
- a body is read under a cap and then authenticated, so a cap that truncates
  instead of refusing would run a signed prefix, and a cap at the end of the
  integer range overflows;
- a claim is compared as text but registered as a `ServeMux` pattern;
- the command line is parsed by hand, an option taking whatever word comes next;
- the compiler's phases skip what an earlier phase found unusable, and the
  scheduler trusts the resulting plan without looking.

What makes each correct: a step starts once, on values that exist, and the
report is honest (scheduler); slots are neither lost nor invented (pool); the
overlap policy and the counters are exact and a clean drain is clean (daemon);
exactly the well-formed files become plans, and the plans are ones the scheduler
can run (compiler); nobody answers on a route two files claim (load); a run
starts only on what the sender sent and signed, and the status says what became
of the request (webhook); a result says what happened, and timeouts bound
something (exec, http); the exit status tells a broken pipeline from a broken
invocation (command line).

## Modules

| Module | Models |
|---|---|
| `Scheduler` | one run of a plan, with the rest of the process as its environment |
| `RunContract` | abstract: what `Run` promises of the states and the verdict it returns |
| `Daemon` | events calling `fire`, and `Serve` with its shutdown |
| `Compiler` | `pipeline.Compile` |
| `Load` | `daemon.Load`, `resolveClaims`, the route table of `New` and its registration with net/http |
| `Cli` | extends `Load`: one invocation of `p6e`, from its words to its exit status |
| `Calls` | one step that runs a program or makes an HTTP call, under `runStep`'s retries |
| `Event` | extends `Calls`: one webhook request, from its bytes to its status |
| `Ranks` | sorted and filtered slices, which `Compiler` and `Load` build |
| `SchedulerProofs`, `SchedulerRunProofs`, `SchedulerContractProofs` | proofs about `Scheduler`: the engine, the rest of its safety, the refinement of `RunContract` |
| `DaemonProofs`, `CompilerProofs`, `EventProofs`, `CliProofs` | proofs about `Daemon`; `Compiler`; `Calls` and `Event`; `Load` and `Cli` |
| `RankProofs` | lemmas about `Ranks`, and that a set of naturals has a least element |
| `MCScheduler`, `MCDaemon`, `MCCompiler`, `MCLoad`, `MCCli`, `MCEvent` | instances for TLC |

`Scheduler` is parameterised by a plan (`Deps`, `Dependents`, `Inputs`, `Roots`)
and by the options of a run. What it assumes of a plan is named: `PlanTypes`,
`PlanLayout`, `PlanAcyclic`. The same conditions are the property `PlanRunnable`
of `Compiler`, so the assumption of one module is what the other is checked to
deliver. `Daemon` takes `Run` as one call with the outcomes `Scheduler` allows.
`Event` puts the layers of one request together: the trigger, admission (any of
the refusals `Daemon` has), a run of one step, the step itself (`Calls`) and the
answer. `Cli` puts `Load` under the verbs that use it.

### Scheduler

The variables are the fields of the `scheduler` struct, of `Execution` and of the
shared objects; `pc` is the line the coordinator is at and `task[i]` where step
i's `runStep` is. Each arm of the select, each round of `handle`'s release loop,
and the two sides of `tryInline` (before and after the node call) are actions,
because other goroutines act between them. `prepare`, `launch` and `handle`'s
recording have no observable point inside and are one action each.

- A node call returns any outcome at any time, or never. A panic is a failure:
  `invoke` recovers it.
- A completion goes into the done channel first, the slot back second
  (`Complete`, `ReleaseSlot`), the order of `launch`'s goroutine.
- A context that is done from the start is an initial state.
- `SlotCap = 0` is a nil `Slots`.
- Other runs only take and return slots (`OtherTakes`, `OtherReturns`).
- An output is a pointer to memory: `memory[i]` is the step whose node made the
  value step i returned, another step's where a node passes a pointer on
  (`Aliases`, as the node of `mutation_test.go` that returns its input), and
  `content` how that memory renders now. `GuardRecord` renders an output when it
  is recorded, `GuardCheck` compares renderings at the end. A write may restore
  what an earlier one changed (`Contents`), which the guard cannot see, as
  ADR 0006 says.
- `written` (memory somebody wrote to) and `outcome` (what the latest call of a
  node returned) are history variables: only properties and invariants read them.
- Left out: values, error texts, durations. The backoff's length does not matter
  to any property; whether it elapses or is cancelled does.

### Daemon

Every event is a goroutine with a position (`at`); each access to an atomic, to
the lock or to the wait group is one action. `claimSlot` is a single
compare-and-swap under `drop` and a load and a swap under `allow`. The read lock
is a set of positions (`Reading`); a pending writer (`serve = "lock"`) holds back
new readers, as `sync.RWMutex` does. Four pieces of straight-line code touch
several atomics that nothing but the metrics page reads in between and are one
action each: `Register` (under the read lock), `RecordAbandoned`, `Decide` and
`RecordOther`. Two variables are history that only properties read: `ends`, how
the runs of a pipeline ended in the order they were recorded (`QuarantineExact`),
and `elapsed`, how often a whole `DrainTimeout` went by while Serve waited
(`RunsMayFinish`).

net/http is external: a request is handed to a handler while the listener
accepts, and `Shutdown` returns when the handlers have or its context expires.
How an event was refused is left out (the code goes to the caller).

### Compiler

A document's inputs and steps share one index space in sorted order, as in
`Compile`; a name is its index and N is a name nobody has. The cycle search is a
step per edge with its explicit path, the other phases one step each. Problems
are pairs of a step and a complaint, not texts. What `validate` guarantees of a
parsed file is the assumption `FilesAssumption`. A slice that the code fills in a
loop that skips some places, and one it sorts, is given by ranks (`Ranks`): what
comes k-th.

The checks the adapters make once a plan runs (`ExecuteError`: how many values a
node gets, and of which types) and those of `Respond` on the value it is handed
are part of `PlanRunnable`: on a compiled plan none of them can fail.

### Load

An entry is its position in the directory (the order of `os.ReadDir`, hence of
paths) with how far parsing and compiling get and the claim of its trigger.
Claims are judged one by one in any order, and routes registered one by one in
any order: both are iterations of a Go map. A pattern is the set of requests it
matches, which is all net/http's rule needs: two patterns conflict if they meet
and neither is strictly inside the other. A pattern it cannot parse is the empty
set. Registration that fails is a panic on the main goroutine, after the
schedules were started.

### Cli

An argument that begins with `-` is an option, with or without `=value` and known
to the verb or not; any other is plain text. The two
hand-written parsers are recursive functions of how many words were read, `Split`
and, over the assignments, `Built`; `bad` is the early return. A missing value is
the empty string, `Empty`, and no directory has that path (`os.ReadDir("")`
fails): `CliAssumption`.
`Dispatch` is the switch over the verbs, then `CompileFile`, `BindInputs` and
`RunReturns` are `checkCommand` and `runCommand`, and `Loads`, `CheckDir`,
`NothingToServe`, `Serves` and `ServeReturns` are `checkDirCommand` and
`serveCommand` around the steps of `Load`. Conversion of a literal is the set of
types it converts to; an `@FILE` literal is what the file holds, and only a time
is trimmed of white space. A panic exits with 2, as the Go runtime does. What is
printed is left out.

### Calls and Event

`doing` is where a step's call is, `attempt` and the backoff are `runStep`'s.
os/exec and net/http are external and modelled from how the nodes use them: the
context kills the process, `Wait` prefers a non-zero exit to the context's error
and that to a pipe cut short by `WaitDelay`; the dialer resolves a name again on
every hop and asks the `Control` hook about the address it is about to connect
to. `ctx` is the execution's context and `own` the call's timeout; the order in
which `classify` and `transportError` ask them is what `ResultTruthful` is about.

In `Event`, `NewWebhook` is the configuration, `ReadBody` and `Verify` are
`Values`, `Refused` and `Fire` are `fire`'s two ways, `RunFinishes` and
`RunCancelled` the two orders in which `Run` may see its completion and its
context, `Answer` is `respond` with `statusFor`, and `HandlerPanics` the recovery
in `handle`. A body is its length and a signature the length of the body it was
made over: the properties only ask whether these are the same.

Three things the code does that one might not expect. A limit of the largest
integer overflows to a reader that reads nothing, so the body is empty: the
properties say so exactly, for a request and for a response, although
`docs/pipeline.md` promises that no body is lost in silence.
`start_failed` also stands for a command that ended well but left its output open
to another process past `WaitDelay` (`OutputHeld`): `ResultTruthful` names exactly
that case, and it is the violation `exec_held`. A call's own timeout that passes
while the body is read is `body_read`, not `timeout`.

## Runs

Passing:

| Run | Shows |
|---|---|
| `sched_diamond` | A diamond with a doubled edge, retries, nodes that write through inputs or pass them on, the inline path, two slots that other runs compete for. `DependenciesFirst`, `HonestReport`, `CompletionsExact` (nothing queued or completed twice, `inflight` exact), `NeverCutShort`, `MutationsExact` (the guard reports a value at the step that made it exactly when it ends up changed, and accuses no step whose value nobody wrote through, with aliased outputs and writes that cancel out), `SlotsConserved`, `RetryWithinPolicy` (a node is called again only after a retryable failure with an attempt left, and the result is what its last call returned), and `Contract`: refinement of `RunContract`. |
| `sched_pool` | Three roots of which two may execute at once, three slots. `ConcurrencyBounded` (abandoned steps included; the inline path is off here, and covered by the theorem), `Contract`. Liveness: `ReturnsOnceStopping` whatever nodes and other runs do; `Terminates` and `SlotsComeBack` if nodes return. |
| `daemon_mixed` | Two requests of a drop webhook and a tick against the shutdown: `OverlapRespected`, `CountersExact`, `CleanDrain`. |
| `daemon_burst` | Three requests of one allow webhook, ceiling two: `OverlapRespected` through the swap loop, `QuarantineExact` (quarantined exactly when two runs recorded one after the other abandoned a step), `RegistrationCloses`, `QuarantineBrakes` (a quarantine stays, and only events already past the check may still start). Liveness, with no assumption on runs: `ShutdownEnds` and `EventsAnswered`, where swaps fail and their loop goes round. |
| `compiler` | `AcceptsExactly` against a reference definition of a well-formed file; `PlanRunnable` (what `Scheduler` assumes, and no adapter check can fail); `WindowsDisjoint` (the slices of the shared input array); `CycleReal`; `NothingHidden`. |
| `cli` | Every small command line over every small directory, claims and routes in any order. `NoHijack` (each claimed request is answered by the right pipeline), `Accounted` (one bad file takes nothing else down), `Deterministic`, `ExitTruthful`, `GateHolds` (`check --dir` passes exactly the directories without a bad file or a shared claim). |
| `event` | Every small configuration and request; every step under timeouts, clients that leave, programs that hang or leave a process behind, servers that stall or redirect. `StatusTruthful`, `RunsOnWhatWasSent`, `ResultTruthful`, and the liveness property `StepReturns`. |

Violations, each a disagreement between the code and what the repository says of
it (quoted in `PROJECT.json`, `findings`):

| Run | Shows |
|---|---|
| `sched_abandoned` | At the moment Run gives up, a step whose completion is already in the channel is counted as abandoned, when the select takes the abandonment arm; `state.go` says the count is of steps still running. |
| `exec_held` | A command that ran and exited 0 is reported `start_failed` when a background process holds its output past the grace; the docs say a process that could not be started. |
| `daemon_cut_short` | A scheduled run is cancelled the moment shutdown begins, since it runs under the listeners' context; the docs say runs already going may finish. |
| `daemon_ready` | Readiness answers ready while the webhook listener is closed and its handlers are waited for: `draining` is set only afterwards. |
| `serve_conflict` | Two files whose routes are different patterns that meet, such as `POST /a/{x}` and `POST /{x}/b`, both load, and registering the second panics: one file takes the whole daemon down, and `check --dir` passes the directory. |

### Bounds, and why they are enough

- The diamond has six steps, one of them bound twice to one producer, a join, two
  inputs next to a root, and two steps ready at once. Two attempts at most: the
  second is the first that is a retry and the last allowed; the root retries
  without a backoff, the other with one. Two nodes write through inputs they share,
  one of which may also return what it was given, and two renderings are the
  fewest with which a write can change a value or restore it.
- The wide plan has five steps: an input, a fan-in, and three roots ready at once with
  `MaxConcurrency` 2, so one waits for a completion; a pool of 3 that other runs
  may fill and empty makes a run find anything from no slot to more than it may use.
- Daemon: three events. Two goroutines make every race of the lock, and two that
  loaded the same counter make a swap fail and go round; the third makes a ceiling
  of two exact at and past the limit, and a reset of the streak between two
  abandoned runs, before, while or after either is judged. `QuarantineAfter` is a
  constant of the module (3 in `run.go`): two in a row is the shortest row that a
  reset can break. `daemon_burst` has no schedule and no admin listener, which
  `daemon_mixed` has: the end of the Listen loops is a step of the shutdown that
  liveness does not exercise, and the only thing asked of them is to notice a done
  context.
- Compiler: every graph on an input and three steps with up to two needs each
  (cycles of length two and three, through any start), every way to bind one step
  in either form with right, missing, foreign and unknown names, and every trigger
  block over a good file. A fault and a second fault elsewhere both occur.
- Cli: command lines of up to four words after `run` and two after `serve` and
  `check`: a doubled option, an option that takes an option for its value, one
  that lacks a value, two files. Directories of up to three files of any kind, and
  of four servable ones: a route contested by two or three files next to an
  uncontested one, nested routes and one that does not parse.
- Event: integers of three bits, so that a cap of the largest integer is one of
  three; bodies below, at, one over and two over the cap; three attempts (the last
  allowed is not the first retry) and three requests per call.

### Fairness

`EngineFairness`: the Go runtime runs every runnable goroutine, so the
coordinator and a step between node calls make progress, and an armed timer
fires. The slot arm of the select has strong fairness: a send blocked in a select
is queued at the channel and served by a later receive. Nodes and other runs get
none. `Terminates` and `SlotsComeBack` name what they need of nodes as an
antecedent, `NodesReturn`, instead of assuming it of the engine.

`DaemonFairness`: each goroutine of an event, each `Listen` loop and `Serve` make
progress, timers included. A run need not return. The swap loop of `claimSlot`
needs no more: a failed swap means another event's succeeded, and there are
finitely many.

`Fairness` of `Event`: the handler and the node's own steps, the executor and
timers make progress. Programs, servers, resolvers, clients and background
processes get none: `StepReturns` holds although they may do nothing for ever.

## Proofs

TLAPS checks the proofs for every value of the constants that satisfies the named
assumptions: `SizeAssumption`, `PlanTypes`, `PlanLayout`, `PlanAcyclic` and
`OptionAssumption` of `Scheduler`, `ServedAssumption` of `Daemon`,
`CompilerAssumption` and `FilesAssumption` of `Compiler`, `CallsAssumption` and
`EventAssumption`, `ClaimAssumption` and `DirectoriesAssumption` of `Load`, and
`CliAssumption`. TLC evaluates each of them in the runs. `PlanLayout` and
`PlanAcyclic` are what `AcceptedPlansRun` shows of every plan `Compiler` accepts.

Every safety invariant and every action property of a passing run is a theorem.

| Module | Theorem | Property |
|---|---|---|
| `SchedulerProofs` | `Invariance` | `IInv`, inductive |
| | `TypeCorrect` | `TypeOK` |
| | `StartsOnValues` | `DependenciesFirst` |
| `SchedulerRunProofs` | `RunInvariance` | `RunInv`, inductive |
| | `ReportsHonestly` | `HonestReport` |
| | `CompletionsAlwaysExact` | `CompletionsExact` |
| | `ConcurrencyAlwaysBounded` | `ConcurrencyBounded` |
| | `SlotsAlwaysConserved` | `SlotsConserved` |
| | `HealthyRunsFinish` | `NeverCutShort` |
| | `MutationsAlwaysExact` | `MutationsExact` |
| | `RetriesWithinPolicy` | `RetryWithinPolicy` (action) |
| `SchedulerContractProofs` | `Refinement` | `Contract`: `Scheduler` implements `RunContract` |
| `DaemonProofs` | `Invariance` | `IInv`, inductive |
| | `TypeCorrect` | `TypeOK` |
| | `CountersAlwaysExact` | `CountersExact` |
| | `OverlapAlwaysRespected` | `OverlapRespected` |
| | `DrainLeavesNothing` | `CleanDrain` |
| | `QuarantineAlwaysExact` | `QuarantineExact` |
| | `DrainClosesRegistration` | `RegistrationCloses` (action) |
| | `QuarantineAlwaysBrakes` | `QuarantineBrakes` (action) |
| `CompilerProofs` | `Invariance` | `IInv`, inductive |
| | `TypeCorrect` | `TypeOK` |
| | `CyclesAlwaysReal` | `CycleReal` |
| | `FaultsNeverHidden` | `NothingHidden` |
| | `AcceptsWellFormedOnly` | `AcceptsExactly` |
| | `PlanInvariance` | `PlanInv`, inductive beside `IInv` |
| | `WindowsAlwaysDisjoint` | `WindowsDisjoint` |
| | `AcceptedPlansRun` | `PlanRunnable` |
| `EventProofs` | `Invariance` | `EventInv`, inductive |
| | `RunsAlwaysOnWhatWasSent` | `RunsOnWhatWasSent` |
| | `StatusAlwaysTruthful` | `StatusTruthful` |
| | `ResultsAlwaysTruthful` | `ResultTruthful` (action) |
| `CliProofs` | `LoadingSafe` | `Load` by itself: `LoadInv`, inductive, `NoHijack`, `Accounted`, `Deterministic` |
| | `CliInvariant` | `LoadInv` and `CliInv`, inductive |
| | `CliTypes` | `CliTypeOK` |
| | `ServeNeverHijacks`, `LoadAccounts`, `LoadDeterministic` | `NoHijack`, `Accounted`, `Deterministic` under the command |
| | `ExitsTruthfully` | `ExitTruthful` |
| | `GateIsExact` | `GateHolds` |

### Scheduler

`DependenciesFirst` is not inductive: that a ready step's dependencies succeeded
rests on `unmet`, a counter. `IInv` adds

- `CountInv`: while the run has not stopped, `unmet[j]` is the number of reverse
  edges into j that are *outstanding*, those whose source has not succeeded or
  that the release loop has yet to visit. Counting edges, not dependencies, makes
  a step bound twice to one producer come out right, and lets the invariant hold
  in the middle of the loop;
- `QueueInv`: the queue holds each step once, none with anything outstanding, and
  exactly the launched part has a task. That a step is not appended a second time
  needs that it still had an outstanding edge;
- `StateInv`: a completion in the channel is of a step that is still running and
  is there once, so `handle` never settles a step that had succeeded before. Without it
  `handle` could count an edge down twice.

The argument follows the actions: the three that call `handle` only make
outstanding edges disappear by moving them to the release loop
(`OutstandingHandle`), the loop takes exactly one at a time
(`OutstandingRelease`), the three that start a step move it past the launch
cursor, and all others leave the counted things alone (`QuietSteps`).

`RunInv` carries the rest. `FlightInv` is the in-flight count as a cardinality,
with the inlined step on its own; `VerdictInv` ties the stop flag to the failure
that will be reported; `ProgressInv` is why a healthy run ends with nothing left:
a step with nothing outstanding is in the queue, and a set of steps that are all
pending has a first one by `PlanAcyclic`, which has nothing outstanding. That is
where acyclicity enters, and `HonestReport` needs it. `MemoryInv` says that a value
passed on was made by a step that had succeeded, so nobody writes to memory before
its maker's output was rendered; `GuardInv` that a maker's rendering is therefore
the unwritten one, and another step's differs from it only in memory that was
written to, which with the final comparison is `MutationsExact`. `AttemptInv` has a
backoff follow a retryable outcome with an attempt left, for `RetryWithinPolicy`.

`Refinement` maps `over` to `pc = "returned"` and each action to a step of
`RunContract` or a stutter, from `RunInv`.

### Daemon

`OverlapRespected` counts events; the code compares a counter. `IInv` has
`CountersExact` for the passage from one to the other, and `OverlapInv` for what a
goroutine between its load and its swap knows: the value it loaded was under the
ceiling, so the swap, which succeeds only on that value, stays within it.
`DrainInv` says that nobody is between reading the draining flag and registering
once the flag is set, which is what the write lock is for: `CleanDrain` and
`RegistrationCloses` rest on it. `StreakInv` says that the streak is the longest row
of abandoned runs at the end of `ends`, and that what a goroutine is about to judge
was such a row when it was recorded: a quarantine then follows a row, and the run
that completes a row of `QuarantineAfter` judges a streak that long.

### Compiler

`SearchInv` is the correctness of the depth-first search, edge by edge: the path
is the grey steps, each the need its predecessor looks at (so a cycle found is
real, `CycleReal`), and no set of black steps goes round in a circle (so an
accepted file has none, `AcceptsExactly`). The second part is stated over sets, as
`PlanAcyclic` is, and holds when a step turns black because all its needs are
black already. `KnownInv` is what the phases have recorded of the file, `ReportInv`
that a fault is reported exactly when a phase that can tell has run, whatever was
skipped, and `VerdictInv` the verdict.

`PlanInv` adds what the bound dependencies and the plan are; the lemmas on
`MakePlan` then give `PlanRunnable`: reverse edges are counted as the edges whose
target is a given step, and the windows of the shared array follow from `Offset`
being the running sum of the lengths.

### Calls and Event

`CallInv` places a call: which of the two contexts and which process, connection
and result are possible where the step is. `PathInv` says what each stage of a
request has established about its body and signature; the body kept is the body
sent, for every cap and integer width, because the reader asks for one byte more
than the cap, and the one cap for which that overflows reads nothing. `FailureInv`
has a disjunct for each step that can reject a request, so the status is of a
cause that is there. `ResultTruthful` and `RunsOnWhatWasSent` name the cases in
which the code does not do what its documentation says, and prove that there are
no others.

### Load and Cli

`LoadInv` follows the lists: `ReadInv`, what reading has put where; `ClaimsInv`,
that exactly the rivals for the claims judged so far are contested, in whatever
order they were judged; `ServedInv`, that the lists are increasing once settled,
which with their elements determines them (`Deterministic`); `RoutesInv`, that
what is registered is pairwise compatible. `NoHijack` then needs that among
finitely many pairwise compatible patterns that match one request there is a most
specific one (`MostSpecific`: the one that the fewest others are narrower than).

`CliInv` has three parts beside the types: `StageInv`, how far each verb may have
got (nothing is served but by `serve`, nothing loaded but from the directory);
`GateInv`, what a command over the directory exits with; `InputsInv`, that a run
has the file and the inputs of its words. The lemmas on `Split` and `Built` say
what the two parsers return for a command line of any length.

### Induction over data

The prover has no induction schema it can instantiate. Where a fact is about every
position of a sequence or every argument of a recursive function (`Offset`,
`Split`, `Built`), the proof takes a least counterexample: `LeastNat`, from the
well-foundedness of the naturals, gives the first place where the fact fails, and
the defining equation refutes it there. That a function with the defining equation
exists at all is shown in the same way. `SortSeq` and `SelectSeq` are defined by
recursion inside library operators, which is why `Ranks` states the slices they
would build by rank.

### Only model-checked

Liveness under fairness is beyond the prover: `Terminates`, `ReturnsOnceStopping`,
`SlotsComeBack`, `ShutdownEnds`, `EventsAnswered` and `StepReturns` stay with TLC,
and so do the six violations.

## Not modelled

- Transformation nodes (text, JSON, environment): single stateless calls on one
  value. `Scheduler` lets a node do anything a caller could see. A JSON number
  beyond the range of int64 that `json.get` is asked for as an integer is the one
  edge seen there (`hazards`).
- YAML decoding, durations, templates, JSON paths: text processing. What
  `validate` guarantees of a parsed file is assumed, by name, in `Compiler`.
- Hashing: that a signature over other bytes does not verify is assumed.
- Registries: maps behind a lock, filled before anything runs.
- Printing, logging and the metrics page, and with it the names of pipelines:
  `a.yaml` and `a.yml` share one name, which only the metrics page shows. A
  pipeline's `failures` counter, which nothing else reads, is left out too.
- The validation of a schedule's interval.
- A run of several steps that leave the process: `Scheduler` has several steps
  and any outcome, `Event` has one step and its causes.

## Plan

Done: `Scheduler` and `RunContract`; `Daemon`; `Compiler`; `Load`; `Cli`; `Calls`
and `Event`; proofs of all safety properties of the runs and of the refinement.

Next, in this order:

1. A theorem that composes `Compiler` with `Scheduler`: the plan of an accepted
   file, as `Scheduler`'s constants, satisfies its assumptions.
2. Two runs over one pool, composed from `Scheduler`'s actions, so that "other
   runs" is no longer an environment.
3. Schedule validation.
