----------------------------- MODULE DaemonProofs -----------------------------
(***************************************************************************)
(* Proofs about Daemon, for any number of pipelines and events and every   *)
(* policy, ceiling and threshold: IInv is an inductive invariant, and with *)
(* it the overlap policy, the counters, the drain and the quarantine.      *)
(***************************************************************************)
EXTENDS Daemon, FiniteSetTheorems, TLAPS

-----------------------------------------------------------------------------
(* Counting the goroutines at a set of positions.                          *)

\* The events of F whose goroutine is at a position of S.
Among(F, S) == {e \in F : at[e] \in S}

In(w, S) == IF w \in S THEN 1 ELSE 0

\* What the move of e's goroutine to w adds to the number of those at S.
Delta(e, w, S) == In(w, S) - In(at[e], S)

\* A number of goroutines is a natural number.
LEMMA AmongFinite ==
  ASSUME NEW F \in SUBSET Events, NEW S
  PROVE  IsFiniteSet(Among(F, S)) /\ Cardinality(Among(F, S)) \in Nat
<1>1. Among(F, S) \subseteq Events
  BY DEF Among
<1>2. IsFiniteSet(Among(F, S))
  BY <1>1, ServedAssumption, FS_Subset
<1> QED
  BY <1>2, FS_CardinalityType

\* When one goroutine moves, the number at a set of positions changes by what
\* its leaving and its arriving say.
LEMMA AmongMove ==
  ASSUME NEW F \in SUBSET Events, NEW S, NEW e \in Events, NEW w,
         at \in [Events -> Positions], MoveTo(e, w)
  PROVE  Cardinality(Among(F, S)') =
             Cardinality(Among(F, S)) + IF e \in F THEN Delta(e, w, S) ELSE 0
<1>1. IsFiniteSet(Among(F, S)) /\ Cardinality(Among(F, S)) \in Nat
  BY AmongFinite
<1>2. \A x \in Events : at'[x] = IF x = e THEN w ELSE at[x]
  BY DEF MoveTo
<1>3. CASE e \notin F
  <2>1. Among(F, S)' = Among(F, S)
    BY <1>2, <1>3 DEF Among
  <2>2. QED
    BY <1>1, <1>3, <2>1
<1>4. CASE e \in F /\ w \in S
  <2>1. Among(F, S)' = Among(F, S) \cup {e}
    BY <1>2, <1>4 DEF Among
  <2>2. Cardinality(Among(F, S) \cup {e}) =
            IF e \in Among(F, S) THEN Cardinality(Among(F, S)) ELSE Cardinality(Among(F, S)) + 1
    BY <1>1, FS_AddElement
  <2>3. e \in Among(F, S) <=> at[e] \in S
    BY <1>4 DEF Among
  <2>4. QED
    BY <1>1, <1>4, <2>1, <2>2, <2>3 DEF Delta, In
<1>5. CASE e \in F /\ w \notin S
  <2>1. Among(F, S)' = Among(F, S) \ {e}
    BY <1>2, <1>5 DEF Among
  <2>2. Cardinality(Among(F, S) \ {e}) =
            IF e \in Among(F, S) THEN Cardinality(Among(F, S)) - 1 ELSE Cardinality(Among(F, S))
    BY <1>1, FS_RemoveElement
  <2>3. e \in Among(F, S) <=> at[e] \in S
    BY <1>5 DEF Among
  <2>4. QED
    BY <1>1, <1>5, <2>1, <2>2, <2>3 DEF Delta, In
<1> QED
  BY <1>3, <1>4, <1>5

OfPipeline(p) == {e \in Events : PipelineOf[e] = p}

\* The two ways Daemon counts, as one.
LEMMA Counts ==
  /\ \A S : EventsAt(S) = Among(Events, S)
  /\ \A p, S : EventsOf(p, S) = Among(OfPipeline(p), S)
  /\ \A p : OfPipeline(p) \in SUBSET Events
  BY DEF EventsAt, EventsOf, Among, OfPipeline

-----------------------------------------------------------------------------
(* Every step of an event keeps the counters' accounts.                    *)

Accounts(e, w) ==
    /\ MoveTo(e, w)
    /\ wg' = wg + Delta(e, w, Registered)
    /\ total' = total + Delta(e, w, Counted)
    /\ inflight' = [inflight EXCEPT ![PipelineOf[e]] = @ + Delta(e, w, Claimed)]

EventStep(e) == Tick(e) \/ Request(e) \/ FireStep(e) \/ RunReturns(e)

\* The sets of positions, spelled out.
LEMMA PositionSets ==
  /\ Registered = {"start", "run", "record", "decide", "release", "uncount", "leave"}
  /\ Counted = {"start", "run", "record", "decide", "release", "uncount"}
  /\ Claimed = {"start", "run", "record", "decide", "release", "claimed"}
  BY DEF Registered, Counted, Claimed

\* A move that leaves the counters alone keeps the accounts if it crosses none
\* of the borders at which they are counted.
LEMMA QuietMove ==
  ASSUME TypeOK, NEW e \in Events, NEW w, MoveTo(e, w), UNCHANGED countVars,
         \A S \in {Registered, Counted, Claimed} : w \in S <=> at[e] \in S
  PROVE  Accounts(e, w)
<1>1. \A S \in {Registered, Counted, Claimed} : Delta(e, w, S) = 0
  BY DEF Delta, In
<1>2. /\ wg \in Nat /\ total \in Nat /\ inflight \in [Pipelines -> Nat]
      /\ PipelineOf[e] \in Pipelines
  BY ServedAssumption DEF TypeOK
<1>3. inflight = [inflight EXCEPT ![PipelineOf[e]] = @ + 0]
  BY <1>2
<1> QED
  BY <1>1, <1>2, <1>3 DEF Accounts, countVars

\* Whatever an event does, the wait group, the total and its pipeline's counter
\* change by what its goroutine's position says.
LEMMA EventAccounts ==
  ASSUME TypeOK, NEW e \in Events, EventStep(e)
  PROVE  \E w \in Positions : Accounts(e, w)
<1>t. /\ wg \in Nat /\ total \in Nat /\ inflight \in [Pipelines -> Nat]
      /\ PipelineOf[e] \in Pipelines
  BY ServedAssumption DEF TypeOK
<1>1. CASE Tick(e) \/ Request(e) \/ Values(e) \/ CheckQuarantine(e) \/ ReadLock(e) \/ RefuseDraining(e)
  <2>1. /\ UNCHANGED countVars
        /\ at[e] \in {"idle", "values", "fire", "rlock", "admit"}
        /\ \E w \in {"values", "fire", "gone", "rlock", "admit"} : MoveTo(e, w)
    BY <1>1 DEF Tick, Request, Values, CheckQuarantine, ReadLock, RefuseDraining, Refuse
  <2>2. QED
    BY <2>1, PositionSets, QuietMove DEF Positions
<1>2. CASE ClaimDrop(e)
  <2>1. CASE inflight[PipelineOf[e]] = 0
    <3>1. /\ MoveTo(e, "claimed") /\ at[e] = "admit" /\ UNCHANGED <<wg, total>>
          /\ inflight' = [inflight EXCEPT ![PipelineOf[e]] = @ + 1]
      BY <1>2, <2>1, <1>t DEF ClaimDrop
    <3>2. Accounts(e, "claimed")
      BY <3>1, <1>t, PositionSets DEF Accounts, Delta, In
    <3>3. QED
      BY <3>2 DEF Positions
  <2>2. CASE inflight[PipelineOf[e]] # 0
    <3>1. MoveTo(e, "gone") /\ at[e] = "admit" /\ UNCHANGED countVars
      BY <1>2, <2>2 DEF ClaimDrop, Refuse, countVars
    <3>2. QED
      BY <3>1, PositionSets, QuietMove DEF Positions
  <2>3. QED
    BY <2>1, <2>2
<1>3. CASE ClaimLoad(e)
  <2>1. at[e] = "admit" /\ UNCHANGED countVars /\ \E w \in {"gone", "swap"} : MoveTo(e, w)
    BY <1>3 DEF ClaimLoad, Refuse
  <2>2. QED
    BY <2>1, PositionSets, QuietMove DEF Positions
<1>4. CASE ClaimSwap(e)
  <2>1. CASE inflight[PipelineOf[e]] = seen[e]
    <3>1. /\ MoveTo(e, "claimed") /\ at[e] = "swap" /\ UNCHANGED <<wg, total>>
          /\ inflight' = [inflight EXCEPT ![PipelineOf[e]] = @ + 1]
      BY <1>4, <2>1 DEF ClaimSwap
    <3>2. Accounts(e, "claimed")
      BY <3>1, <1>t, PositionSets DEF Accounts, Delta, In
    <3>3. QED
      BY <3>2 DEF Positions
  <2>2. CASE inflight[PipelineOf[e]] # seen[e]
    <3>1. MoveTo(e, "admit") /\ at[e] = "swap" /\ UNCHANGED countVars
      BY <1>4, <2>2 DEF ClaimSwap, countVars
    <3>2. QED
      BY <3>1, PositionSets, QuietMove DEF Positions
  <2>3. QED
    BY <2>1, <2>2
<1>5. CASE Register(e)
  <2>1. /\ MoveTo(e, "start") /\ at[e] = "claimed" /\ wg' = wg + 1 /\ total' = total + 1
        /\ inflight' = [inflight EXCEPT ![PipelineOf[e]] = @ + 0]
    BY <1>5, <1>t DEF Register
  <2>2. Accounts(e, "start")
    BY <2>1, <1>t, PositionSets DEF Accounts, Delta, In
  <2>3. QED
    BY <2>2 DEF Positions
<1>6. CASE Start(e) \/ RunReturns(e) \/ RecordAbandoned(e) \/ Decide(e) \/ RecordOther(e)
  <2>1. /\ UNCHANGED countVars
        /\ at[e] \in {"start", "run", "record", "decide"}
        /\ \E w \in {"run", "record", "decide", "release"} : MoveTo(e, w)
    BY <1>6 DEF Start, RunReturns, RecordAbandoned, Decide, RecordOther
  <2>2. QED
    BY <2>1, PositionSets, QuietMove DEF Positions
<1>7. CASE ReleasePipeline(e)
  <2>1. /\ MoveTo(e, "uncount") /\ at[e] = "release" /\ UNCHANGED <<wg, total>>
        /\ inflight' = [inflight EXCEPT ![PipelineOf[e]] = @ - 1]
    BY <1>7 DEF ReleasePipeline
  <2>2. /\ Delta(e, "uncount", Registered) = 0 /\ Delta(e, "uncount", Counted) = 0
        /\ Delta(e, "uncount", Claimed) = -1
    BY <2>1, PositionSets DEF Delta, In
  <2>3. inflight[PipelineOf[e]] + Delta(e, "uncount", Claimed) = inflight[PipelineOf[e]] - 1
    BY <1>t, <2>2
  <2>4. inflight' = [inflight EXCEPT ![PipelineOf[e]] = @ + Delta(e, "uncount", Claimed)]
    BY <2>1, <2>3, Zenon
  <2>5. wg' = wg + Delta(e, "uncount", Registered) /\ total' = total + Delta(e, "uncount", Counted)
    BY <1>t, <2>1, <2>2
  <2>6. QED
    BY <2>1, <2>4, <2>5, Zenon DEF Accounts, Positions
<1>8. CASE ReleaseTotal(e)
  <2>1. /\ MoveTo(e, "leave") /\ at[e] = "uncount" /\ wg' = wg /\ total' = total - 1
        /\ inflight' = [inflight EXCEPT ![PipelineOf[e]] = @ + 0]
    BY <1>8, <1>t DEF ReleaseTotal
  <2>2. Accounts(e, "leave")
    BY <2>1, <1>t, PositionSets DEF Accounts, Delta, In
  <2>3. QED
    BY <2>2 DEF Positions
<1>9. CASE ReleaseGroup(e)
  <2>1. /\ MoveTo(e, "gone") /\ at[e] = "leave" /\ wg' = wg - 1 /\ total' = total
        /\ inflight' = [inflight EXCEPT ![PipelineOf[e]] = @ + 0]
    BY <1>9, <1>t DEF ReleaseGroup
  <2>2. Accounts(e, "gone")
    BY <2>1, <1>t, PositionSets DEF Accounts, Delta, In
  <2>3. QED
    BY <2>2 DEF Positions
<1> QED
  BY <1>1, <1>2, <1>3, <1>4, <1>5, <1>6, <1>7, <1>8, <1>9 DEF EventStep, FireStep

\* A step that keeps the accounts keeps the counters exact.
LEMMA AccountsExact ==
  ASSUME TypeOK, CountersExact, NEW e \in Events, NEW w, Accounts(e, w)
  PROVE  CountersExact'
<1>1. at \in [Events -> Positions] /\ MoveTo(e, w) /\ PipelineOf[e] \in Pipelines
  BY ServedAssumption DEF TypeOK, Accounts
<1>2. wg' = Cardinality(EventsAt(Registered)')
  <2>1. Cardinality(Among(Events, Registered)') = Cardinality(Among(Events, Registered)) + Delta(e, w, Registered)
    BY <1>1, AmongMove
  <2>2. QED
    BY <2>1 DEF Accounts, CountersExact, EventsAt, Among
<1>3. total' = Cardinality(EventsAt(Counted)')
  <2>1. Cardinality(Among(Events, Counted)') = Cardinality(Among(Events, Counted)) + Delta(e, w, Counted)
    BY <1>1, AmongMove
  <2>2. QED
    BY <2>1 DEF Accounts, CountersExact, EventsAt, Among
<1>4. ASSUME NEW p \in Pipelines PROVE inflight'[p] = Cardinality(EventsOf(p, Claimed)')
  <2>1. Cardinality(Among(OfPipeline(p), Claimed)') =
            Cardinality(Among(OfPipeline(p), Claimed)) + IF e \in OfPipeline(p) THEN Delta(e, w, Claimed) ELSE 0
    BY <1>1, AmongMove, Counts
  <2>2. e \in OfPipeline(p) <=> p = PipelineOf[e]
    BY DEF OfPipeline
  <2>3. inflight'[p] = IF p = PipelineOf[e] THEN inflight[p] + Delta(e, w, Claimed) ELSE inflight[p]
    BY <1>1 DEF Accounts, TypeOK
  <2>4. inflight[p] = Cardinality(Among(OfPipeline(p), Claimed)) /\ inflight[p] \in Nat
    BY Counts DEF CountersExact, TypeOK
  <2>5. EventsOf(p, Claimed)' = Among(OfPipeline(p), Claimed)'
    BY DEF EventsOf, Among, OfPipeline
  <2>6. QED
    BY <2>1, <2>2, <2>3, <2>4, <2>5
<1> QED
  BY <1>2, <1>3, <1>4 DEF CountersExact

-----------------------------------------------------------------------------
(* Type correctness.                                                       *)

\* The steps that move no event: a Listen loop, the context, a listener, Serve.
OtherStep ==
    \/ \E p \in Pipelines : ListenerStops(p)
    \/ ContextDone \/ ListenerFails \/ ServeStep \/ Quiet \/ UNCHANGED vars

\* None of them touches a counter, a goroutine of an event or a record.
LEMMA OtherFrame ==
  ASSUME OtherStep
  PROVE  UNCHANGED <<countVars, eventVars, recordVars>>
  BY DEF OtherStep, ListenerStops, ContextDone, ListenerFails, ServeStep, BeginStop, StopAccepting,
         HandlersGone, ShutdownTimesOut, ListenersGone, BeginDrain, RunsFinished, DrainTimesOut,
         StopAdmin, Quiet, vars

\* No event touches what Serve and the drain keep.
LEMMA EventFrame ==
  ASSUME NEW e \in Events, EventStep(e)
  PROVE  UNCHANGED <<serveVars, drainVars>>
  BY DEF EventStep, Tick, Request, FireStep, RunReturns, Values, CheckQuarantine, ReadLock,
         RefuseDraining, ClaimDrop, ClaimLoad, ClaimSwap, Register, Start, RecordAbandoned, Decide,
         RecordOther, ReleasePipeline, ReleaseTotal, ReleaseGroup

\* Every step is of an event or moves none.
LEMMA StepKinds ==
  ASSUME [Next]_vars
  PROVE  (\E e \in Events : EventStep(e)) \/ OtherStep
  BY DEF Next, EventStep, OtherStep

\* The truth values among what Serve and the drain keep.
FlagsOK ==
    /\ ctxDone \in BOOLEAN /\ accepting \in BOOLEAN /\ adminUp \in BOOLEAN
    /\ failure \in BOOLEAN /\ draining \in BOOLEAN

\* They stay truth values.
LEMMA FlagsStep ==
  ASSUME TypeOK, OtherStep
  PROVE  FlagsOK'
<1>1. FlagsOK
  BY Zenon DEF TypeOK, FlagsOK
<1>2. CASE \E p \in Pipelines : ListenerStops(p)
  BY <1>1, <1>2, Zenon DEF ListenerStops, FlagsOK, drainVars
<1>3. CASE ContextDone \/ ListenerFails \/ Quiet \/ UNCHANGED vars
  BY <1>1, <1>3, Zenon DEF ContextDone, ListenerFails, Quiet, vars, FlagsOK, drainVars, serveVars
<1>4. CASE BeginStop \/ StopAccepting \/ HandlersGone \/ ListenersGone \/ StopAdmin
  BY <1>1, <1>4, Zenon DEF BeginStop, StopAccepting, HandlersGone, ListenersGone, StopAdmin, FlagsOK,
                           drainVars
<1>5. CASE ShutdownTimesOut \/ BeginDrain \/ RunsFinished \/ DrainTimesOut
  BY <1>1, <1>5, Zenon DEF ShutdownTimesOut, BeginDrain, RunsFinished, DrainTimesOut, FlagsOK
<1> QED
  BY <1>2, <1>3, <1>4, <1>5 DEF OtherStep, ServeStep

\* The rest of what Serve and the drain keep, and how often a DrainTimeout may
\* have gone by in each phase.
ServeOK ==
    /\ serve \in Phases
    /\ listening \subseteq Pipelines \ Webhooks
    /\ errs \subseteq {"webhook", "admin"}
    /\ drained \in {"no", "clean", "gaveup"}
    /\ elapsed \in 0 .. 2
    /\ serve \in {"serving", "stopping", "shutdown"} => elapsed = 0
    /\ serve \in {"listeners", "lock", "drain"} => elapsed <= 1

\* What Serve and the drain keep stays within its types, and the shutdown waits
\* out at most two DrainTimeouts.
LEMMA ServeTypes ==
  ASSUME TypeOK, DrainInv, OtherStep
  PROVE  ServeOK'
<1>t. ServeOK
  BY DEF TypeOK, DrainInv, ServeOK
<1>1. CASE \E p \in Pipelines : ListenerStops(p)
  BY <1>t, <1>1 DEF ServeOK, ListenerStops, drainVars
<1>2. CASE ContextDone \/ Quiet \/ UNCHANGED vars
  BY <1>t, <1>2 DEF ServeOK, ContextDone, Quiet, vars, serveVars, drainVars
<1>3. CASE ListenerFails
  BY <1>t, <1>3 DEF ServeOK, ListenerFails, drainVars
<1>4. CASE BeginStop \/ StopAccepting
  BY <1>t, <1>4 DEF ServeOK, BeginStop, StopAccepting, drainVars, Phases
<1>9. CASE HandlersGone
  BY <1>t, <1>9 DEF ServeOK, HandlersGone, drainVars, Phases
<1>5. CASE ListenersGone \/ StopAdmin
  BY <1>t, <1>5 DEF ServeOK, ListenersGone, StopAdmin, drainVars, Phases
<1>6. CASE ShutdownTimesOut
  BY <1>t, <1>6 DEF ServeOK, ShutdownTimesOut, Phases
<1>7. CASE DrainTimesOut
  BY <1>t, <1>7 DEF ServeOK, DrainTimesOut, Phases
<1>8. CASE BeginDrain \/ RunsFinished
  BY <1>t, <1>8 DEF ServeOK, BeginDrain, RunsFinished, Phases
<1> QED
  BY <1>1, <1>2, <1>3, <1>4, <1>5, <1>6, <1>7, <1>8, <1>9 DEF OtherStep, ServeStep

\* What an event's goroutine records keeps its types.
LEMMA RecordTypes ==
  ASSUME TypeOK, NEW e \in Events, EventStep(e)
  PROVE  /\ seen' \in [Events -> Nat]
         /\ verdict' \in [Events -> RunEnds \cup {"none"}]
         /\ streak' \in [Pipelines -> Nat] /\ abandonedRuns' \in [Pipelines -> Nat]
         /\ runs' \in [Pipelines -> Nat]
         /\ ends' \in [Pipelines -> Seq({"abandoned", "other"})]
<1>t. /\ seen \in [Events -> Nat] /\ verdict \in [Events -> RunEnds \cup {"none"}]
      /\ streak \in [Pipelines -> Nat] /\ abandonedRuns \in [Pipelines -> Nat]
      /\ runs \in [Pipelines -> Nat] /\ inflight \in [Pipelines -> Nat]
      /\ ends \in [Pipelines -> Seq({"abandoned", "other"})]
      /\ PipelineOf[e] \in Pipelines
  BY ServedAssumption DEF TypeOK
<1>a. ASSUME NEW v \in {"abandoned", "other"}
      PROVE  Append(ends[PipelineOf[e]], v) \in Seq({"abandoned", "other"})
  <2>1. ends[PipelineOf[e]] \in Seq({"abandoned", "other"})
    BY <1>t, Zenon
  <2> QED
    BY <2>1
<1>1. CASE Tick(e) \/ Request(e) \/ Values(e) \/ CheckQuarantine(e) \/ ReadLock(e) \/ RefuseDraining(e)
  BY <1>t, <1>1 DEF Tick, Request, Values, CheckQuarantine, ReadLock, RefuseDraining, recordVars
<1>2. CASE ClaimDrop(e) \/ Register(e) \/ ReleasePipeline(e) \/ ReleaseTotal(e)
  BY <1>t, <1>2 DEF ClaimDrop, Register, ReleasePipeline, ReleaseTotal, recordVars
<1>3. CASE ClaimLoad(e) \/ ClaimSwap(e)
  BY <1>t, <1>3 DEF ClaimLoad, ClaimSwap, recordVars
<1>4. CASE Start(e)
  BY <1>t, <1>4 DEF Start
<1>5. CASE RunReturns(e) \/ ReleaseGroup(e)
  BY <1>t, <1>5 DEF RunReturns, ReleaseGroup, recordVars
<1>6. CASE RecordAbandoned(e)
  <2>1. ends' \in [Pipelines -> Seq({"abandoned", "other"})]
    <3>1. ends' = [ends EXCEPT ![PipelineOf[e]] = Append(ends[PipelineOf[e]], "abandoned")]
      BY <1>6 DEF RecordAbandoned
    <3>2. Append(ends[PipelineOf[e]], "abandoned") \in Seq({"abandoned", "other"})
      BY <1>a
    <3>3. QED
      BY <1>t, <3>1, <3>2, Zenon
  <2>2. /\ abandonedRuns' = [abandonedRuns EXCEPT ![PipelineOf[e]] = abandonedRuns[PipelineOf[e]] + 1]
        /\ streak' = [streak EXCEPT ![PipelineOf[e]] = streak[PipelineOf[e]] + 1]
        /\ seen' = [seen EXCEPT ![e] = streak[PipelineOf[e]] + 1]
        /\ verdict' = [verdict EXCEPT ![e] = "none"] /\ UNCHANGED runs
    BY <1>6 DEF RecordAbandoned
  <2>3. streak[PipelineOf[e]] + 1 \in Nat /\ abandonedRuns[PipelineOf[e]] + 1 \in Nat
    BY <1>t
  <2>4. QED
    BY <1>t, <2>1, <2>2, <2>3, Zenon
<1>7. CASE Decide(e)
  BY <1>t, <1>7 DEF Decide
<1>8. CASE RecordOther(e)
  <2>1. ends' \in [Pipelines -> Seq({"abandoned", "other"})]
    <3>1. ends' = [ends EXCEPT ![PipelineOf[e]] = Append(ends[PipelineOf[e]], "other")]
      BY <1>8 DEF RecordOther
    <3>2. Append(ends[PipelineOf[e]], "other") \in Seq({"abandoned", "other"})
      BY <1>a
    <3>3. QED
      BY <1>t, <3>1, <3>2, Zenon
  <2>2. QED
    BY <1>t, <1>8, <2>1 DEF RecordOther
<1> QED
  BY <1>1, <1>2, <1>3, <1>4, <1>5, <1>6, <1>7, <1>8 DEF EventStep, FireStep

\* The quarantine flags stay flags, and once set stay set.
LEMMA QuarantineFlags ==
  ASSUME quarantined \in [Pipelines -> BOOLEAN], NEW e \in Events, EventStep(e)
  PROVE  /\ quarantined' \in [Pipelines -> BOOLEAN]
         /\ \A p \in Pipelines : quarantined[p] => quarantined'[p]
<1>1. CASE Decide(e)
  <2> DEFINE q == PipelineOf[e]
             b == quarantined[q] \/ seen[e] >= QuarantineAfter
  <2>1. quarantined' = [quarantined EXCEPT ![q] = b]
    BY <1>1 DEF Decide
  <2>2. b \in BOOLEAN /\ (quarantined[q] => b)
    BY Zenon
  <2>3. q \in Pipelines
    BY ServedAssumption
  <2> HIDE DEF b, q
  <2>4. QED
    BY <2>1, <2>2, <2>3, Zenon
<1>2. CASE ~Decide(e)
  <2>1. quarantined' = quarantined
    BY <1>2 DEF EventStep, Tick, Request, FireStep, RunReturns, Values, CheckQuarantine, ReadLock,
         RefuseDraining, ClaimDrop, ClaimLoad, ClaimSwap, Register, Start, RecordAbandoned,
         RecordOther, ReleasePipeline, ReleaseTotal, ReleaseGroup, recordVars
  <2>2. QED
    BY <2>1, Zenon
<1> QED
  BY <1>1, <1>2

\* Every step keeps the types, the counters' by their exactness.
LEMMA TypeStep ==
  ASSUME TypeOK, CountersExact, DrainInv, [Next]_vars
  PROVE  TypeOK' /\ CountersExact'
<1>1. CASE OtherStep
  <2>1. UNCHANGED <<countVars, eventVars, recordVars>>
    BY <1>1, OtherFrame
  <2>2. CountersExact'
    BY <2>1 DEF CountersExact, countVars, eventVars, EventsAt, EventsOf
  <2>3. FlagsOK'
    BY <1>1, FlagsStep
  <2>4. quarantined' \in [Pipelines -> BOOLEAN]
    BY <2>1, Zenon DEF TypeOK, recordVars
  <2>5. TypeOK'
    BY <1>1, <2>1, <2>3, <2>4, ServeTypes DEF TypeOK, ServeOK, FlagsOK, countVars, eventVars, recordVars
  <2>6. QED
    BY <2>2, <2>5
<1>2. ASSUME NEW e \in Events, EventStep(e) PROVE TypeOK' /\ CountersExact'
  <2>1. PICK w \in Positions : Accounts(e, w)
    BY <1>2, EventAccounts
  <2>2. CountersExact'
    BY <2>1, AccountsExact
  <2>3. at' \in [Events -> Positions]
    BY <2>1 DEF TypeOK, Accounts, MoveTo
  <2>4. wg' \in Nat /\ total' \in Nat
    <3>1. \A S : IsFiniteSet(EventsAt(S)')
      BY ServedAssumption, FS_Subset DEF EventsAt
    <3>2. QED
      BY <2>2, <3>1, FS_CardinalityType DEF CountersExact
  <2>5. inflight' \in [Pipelines -> Nat]
    <3>1. inflight' \in [Pipelines -> Int]
      <4>1. Delta(e, w, Claimed) \in Int
        BY DEF Delta, In
      <4>2. inflight \in [Pipelines -> Nat] /\ PipelineOf[e] \in Pipelines
        BY ServedAssumption DEF TypeOK
      <4>3. inflight' = [inflight EXCEPT ![PipelineOf[e]] = @ + Delta(e, w, Claimed)]
        BY <2>1 DEF Accounts
      <4>4. QED
        BY <4>1, <4>2, <4>3
    <3>2. \A p \in Pipelines : IsFiniteSet(EventsOf(p, Claimed)')
      BY ServedAssumption, FS_Subset DEF EventsOf
    <3>3. \A p \in Pipelines : inflight'[p] \in Nat
      BY <2>2, <3>2, FS_CardinalityType DEF CountersExact
    <3>4. QED
      BY <3>1, <3>3
  <2>6. UNCHANGED <<serveVars, drainVars>>
    BY <1>2, EventFrame
  <2>7. FlagsOK'
    BY <2>6, Zenon DEF TypeOK, FlagsOK, serveVars, drainVars
  <2>8. quarantined' \in [Pipelines -> BOOLEAN]
    BY <1>2, QuarantineFlags, Zenon DEF TypeOK
  <2>9. TypeOK'
    BY <1>2, <2>3, <2>4, <2>5, <2>6, <2>7, <2>8, RecordTypes DEF TypeOK, FlagsOK, serveVars, drainVars
  <2>10. QED
    BY <2>2, <2>9
<1> QED
  BY <1>1, <1>2, StepKinds

-----------------------------------------------------------------------------
(* The overlap policy, the drain and the quarantine.                       *)

\* An event touches its own goroutine and its own pipeline only.
LEMMA EventLocal ==
  ASSUME TypeOK, NEW e \in Events, EventStep(e)
  PROVE  /\ \A x \in Events \ {e} : at'[x] = at[x] /\ seen'[x] = seen[x]
         /\ \A p \in Pipelines \ {PipelineOf[e]} :
               inflight'[p] = inflight[p] /\ streak'[p] = streak[p] /\ ends'[p] = ends[p]
<1>t. /\ at \in [Events -> Positions] /\ seen \in [Events -> Nat] /\ inflight \in [Pipelines -> Nat]
      /\ streak \in [Pipelines -> Nat] /\ ends \in [Pipelines -> Seq({"abandoned", "other"})]
  BY DEF TypeOK
<1>1. \A x \in Events \ {e} : at'[x] = at[x]
  BY <1>t, EventAccounts DEF Accounts, MoveTo
<1>2. \A p \in Pipelines \ {PipelineOf[e]} : inflight'[p] = inflight[p]
  BY <1>t, EventAccounts DEF Accounts
<1>3. \/ seen' = seen \/ \E v \in Nat : seen' = [seen EXCEPT ![e] = v]
  <2>1. CASE ClaimLoad(e)
    BY <1>t, <2>1, ServedAssumption DEF ClaimLoad
  <2>2. CASE ClaimSwap(e) \/ Decide(e)
    BY <2>2 DEF ClaimSwap, Decide
  <2>3. CASE RecordAbandoned(e)
    <3>1. streak[PipelineOf[e]] + 1 \in Nat
      BY <1>t, ServedAssumption
    <3>2. QED
      BY <2>3, <3>1 DEF RecordAbandoned
  <2>4. CASE ~ (ClaimLoad(e) \/ ClaimSwap(e) \/ Decide(e) \/ RecordAbandoned(e))
    BY <2>4 DEF EventStep, Tick, Request, FireStep, RunReturns, Values, CheckQuarantine, ReadLock,
         RefuseDraining, ClaimDrop, Register, Start, RecordOther, ReleasePipeline, ReleaseTotal,
         ReleaseGroup
  <2>5. QED
    BY <2>1, <2>2, <2>3, <2>4
<1>4. \A x \in Events \ {e} : seen'[x] = seen[x]
  BY <1>t, <1>3
<1>5. \A p \in Pipelines \ {PipelineOf[e]} : streak'[p] = streak[p] /\ ends'[p] = ends[p]
  <2>1. CASE RecordAbandoned(e)
    BY <1>t, <2>1 DEF RecordAbandoned
  <2>2. CASE RecordOther(e)
    BY <1>t, <2>2 DEF RecordOther
  <2>3. CASE ~ (RecordAbandoned(e) \/ RecordOther(e))
    BY <2>3 DEF EventStep, Tick, Request, FireStep, RunReturns, Values, CheckQuarantine, ReadLock,
         RefuseDraining, ClaimDrop, ClaimLoad, ClaimSwap, Register, Start, Decide, ReleasePipeline,
         ReleaseTotal, ReleaseGroup, recordVars
  <2>4. QED
    BY <2>1, <2>2, <2>3
<1> QED
  BY <1>1, <1>2, <1>4, <1>5

\* How many runs a pipeline may have claimed.
Within(p, n) ==
    /\ p \in Drop => n <= 1
    /\ p \notin Drop /\ MaxRuns > 0 => n <= MaxRuns

\* claimSlot, in both its forms, keeps the overlap policy.
LEMMA OverlapStep ==
  ASSUME TypeOK, OverlapInv, NEW e \in Events, EventStep(e)
  PROVE  OverlapInv'
<1> DEFINE q == PipelineOf[e]
<1>t. /\ at \in [Events -> Positions] /\ seen \in [Events -> Nat] /\ inflight \in [Pipelines -> Nat]
      /\ q \in Pipelines /\ MaxRuns \in Nat
  BY ServedAssumption DEF TypeOK
<1>i. \A p \in Pipelines : Within(p, inflight[p])
  BY DEF OverlapInv, Within
<1>1. Within(q, inflight'[q])
  <2>1. CASE ClaimDrop(e)
    BY <1>t, <1>i, <2>1 DEF ClaimDrop, Within
  <2>2. CASE ClaimSwap(e)
    <3>1. at[e] = "swap" => q \notin Drop /\ (MaxRuns > 0 => seen[e] < MaxRuns)
      BY DEF OverlapInv
    <3>2. CASE inflight[q] = seen[e]
      <4>1. inflight'[q] = inflight[q] + 1 /\ at[e] = "swap"
        BY <1>t, <2>2, <3>2 DEF ClaimSwap
      <4>2. QED
        BY <1>t, <3>1, <3>2, <4>1 DEF Within
    <3>3. CASE inflight[q] # seen[e]
      BY <1>i, <1>t, <2>2, <3>3 DEF ClaimSwap
    <3>4. QED
      BY <3>2, <3>3
  <2>3. CASE ReleasePipeline(e)
    <3>1. inflight'[q] = inflight[q] - 1
      BY <1>t, <2>3 DEF ReleasePipeline
    <3>2. QED
      BY <1>t, <1>i, <3>1 DEF Within
  <2>4. CASE ~ (ClaimDrop(e) \/ ClaimSwap(e) \/ ReleasePipeline(e))
    <3>1. inflight' = inflight
      BY <2>4 DEF EventStep, Tick, Request, FireStep, RunReturns, Values, CheckQuarantine, ReadLock,
           RefuseDraining, ClaimLoad, Register, Start, RecordAbandoned, Decide, RecordOther,
           ReleaseTotal, ReleaseGroup, countVars
    <3>2. QED
      BY <1>i, <1>t, <3>1
  <2>5. QED
    BY <2>1, <2>2, <2>3, <2>4
<1>2. \A p \in Pipelines : Within(p, inflight'[p])
  BY <1>1, <1>i, EventLocal
<1>3. at'[e] = "swap" => q \notin Drop /\ (MaxRuns > 0 => seen'[e] < MaxRuns)
  <2>1. CASE ClaimLoad(e)
    <3>1. CASE MaxRuns > 0 /\ inflight[q] >= MaxRuns
      BY <1>t, <2>1, <3>1 DEF ClaimLoad, Refuse, MoveTo
    <3>2. CASE ~ (MaxRuns > 0 /\ inflight[q] >= MaxRuns)
      BY <1>t, <2>1, <3>2 DEF ClaimLoad, MoveTo
    <3>3. QED
      BY <3>1, <3>2
  <2>2. CASE ~ClaimLoad(e)
    BY <1>t, <2>2 DEF EventStep, Tick, Request, FireStep, RunReturns, Values, CheckQuarantine, ReadLock,
         RefuseDraining, ClaimDrop, ClaimSwap, Register, Start, RecordAbandoned, Decide,
         RecordOther, ReleasePipeline, ReleaseTotal, ReleaseGroup, Refuse, MoveTo
  <2>3. QED
    BY <2>1, <2>2
<1>4. \A x \in Events : at'[x] = "swap" =>
         PipelineOf[x] \notin Drop /\ (MaxRuns > 0 => seen'[x] < MaxRuns)
  BY <1>3, EventLocal DEF OverlapInv
<1> QED
  BY <1>2, <1>4 DEF OverlapInv, Within

\* Serve takes the write lock only when no goroutine is inside admit, and a
\* goroutine that gets the read lock later sees the flag.
LEMMA DrainStep ==
  ASSUME TypeOK, CountersExact, DrainInv, [Next]_vars
  PROVE  DrainInv'
<1>1. CASE OtherStep
  <2>1. /\ UNCHANGED <<wg, at>> /\ ServeOK'
    BY <1>1, OtherFrame, ServeTypes DEF countVars, eventVars
  <2> DEFINE Phase == /\ draining <=> serve \in {"drain", "admin", "returned"}
                      /\ drained = "clean" => draining /\ wg = 0
             Empty == draining => \A e \in Events : at[e] \notin {"swap", "claimed"}
  <2>p. Phase /\ Empty
    BY DEF DrainInv
  <2>2. CASE \/ \E p \in Pipelines : ListenerStops(p)
             \/ ContextDone \/ ListenerFails \/ Quiet \/ UNCHANGED vars
    <3>1. UNCHANGED <<serve, draining, drained, wg, at>>
      BY <2>1, <2>2 DEF ListenerStops, ContextDone, ListenerFails, Quiet, vars, serveVars, drainVars
    <3>2. QED
      BY <2>p, <2>1, <3>1 DEF DrainInv, ServeOK
  <2>3. CASE BeginStop \/ StopAccepting \/ HandlersGone \/ ShutdownTimesOut \/ ListenersGone
    <3>1. /\ serve' \in {"stopping", "shutdown", "listeners", "lock"}
          /\ serve \in {"serving", "stopping", "shutdown", "listeners"}
          /\ UNCHANGED <<draining, drained>>
      BY <2>3 DEF BeginStop, StopAccepting, HandlersGone, ShutdownTimesOut, ListenersGone, drainVars
    <3>2. QED
      BY <2>p, <2>1, <3>1 DEF DrainInv, ServeOK
  <2>4. CASE BeginDrain
    <3>1. /\ serve' = "drain" /\ draining' /\ drained' = drained /\ serve = "lock"
          /\ \A e \in Events : at[e] \notin {"swap", "claimed"}
      BY <2>4 DEF BeginDrain, EventsAt, Reading
    <3>2. drained # "clean"
      BY <2>p, <3>1
    <3>3. QED
      BY <2>1, <3>1, <3>2 DEF DrainInv, ServeOK
  <2>5. CASE RunsFinished \/ DrainTimesOut \/ StopAdmin
    <3>1. /\ serve \in {"drain", "admin"} /\ serve' \in {"admin", "returned"}
          /\ draining' = draining
          /\ drained' = "clean" => wg = 0 \/ drained = "clean"
      BY <2>5 DEF RunsFinished, DrainTimesOut, StopAdmin, drainVars
    <3>2. QED
      BY <2>p, <2>1, <3>1 DEF DrainInv, ServeOK
  <2>6. QED
    BY <1>1, <2>2, <2>3, <2>4, <2>5 DEF OtherStep, ServeStep
<1>2. ASSUME NEW e \in Events, EventStep(e) PROVE DrainInv'
  <2>1. UNCHANGED <<serve, draining, drained, elapsed>>
    BY <1>2, EventFrame DEF serveVars, drainVars
  <2>2. PICK w \in Positions : Accounts(e, w)
    BY <1>2, EventAccounts
  <2>3. at' = [at EXCEPT ![e] = w] /\ at \in [Events -> Positions]
    BY <2>2 DEF Accounts, MoveTo, TypeOK
  <2>4. ASSUME draining PROVE w \notin {"swap", "claimed"} /\ at[e] \notin {"swap", "claimed"}
    <3>1. at[e] \notin {"swap", "claimed"}
      BY <2>4 DEF DrainInv
    <3>2. at'[e] \notin {"swap", "claimed"}
      BY <1>2, <2>3, <2>4, <3>1
         DEF EventStep, Tick, Request, FireStep, RunReturns, Values, CheckQuarantine, ReadLock,
             RefuseDraining, ClaimDrop, ClaimLoad, ClaimSwap, Register, Start, RecordAbandoned, Decide,
             RecordOther, ReleasePipeline, ReleaseTotal, ReleaseGroup, Refuse, MoveTo
    <3>3. QED
      BY <2>3, <3>1, <3>2
  <2>5. draining => \A x \in Events : at'[x] \notin {"swap", "claimed"}
    BY <2>3, <2>4 DEF DrainInv
  <2>6. drained = "clean" => wg' = 0
    <3> SUFFICES ASSUME drained = "clean" PROVE wg' = 0
      OBVIOUS
    <3>1. draining /\ wg = 0
      BY DEF DrainInv
    <3>2. Delta(e, w, Registered) <= 0
      <4>1. w \in Registered => at[e] \in Registered \cup {"claimed"}
        BY <1>2, <2>3, PositionSets
           DEF EventStep, Tick, Request, FireStep, RunReturns, Values, CheckQuarantine, ReadLock,
               RefuseDraining, ClaimDrop, ClaimLoad, ClaimSwap, Register, Start, RecordAbandoned, Decide,
               RecordOther, ReleasePipeline, ReleaseTotal, ReleaseGroup, Refuse, MoveTo
      <4>2. QED
        BY <2>4, <3>1, <4>1 DEF Delta, In
    <3>3. wg' \in Nat
      BY TypeStep DEF TypeOK
    <3>4. wg' = wg + Delta(e, w, Registered) /\ Delta(e, w, Registered) \in Int
      BY <2>2 DEF Accounts, Delta, In
    <3>5. QED
      BY <3>1, <3>2, <3>3, <3>4
  <2>7. QED
    BY <2>1, <2>5, <2>6 DEF DrainInv
<1> QED
  BY <1>1, <1>2, StepKinds

-----------------------------------------------------------------------------
(* Rows of abandoned runs in a record of how runs ended.                   *)

Ends == Seq({"abandoned", "other"})

Row(s, k, n) == k \in n .. Len(s) /\ \A j \in k - n + 1 .. k : s[j] = "abandoned"

\* n is the length of the row of abandoned runs that the record ends with.
LastRow(s, n) == Row(s, Len(s), n) /\ (n < Len(s) => s[Len(s) - n] = "other")

\* What another run adds to a record.
LEMMA RecordAppend ==
  ASSUME NEW s \in Ends, NEW v \in {"abandoned", "other"}
  PROVE  /\ Append(s, v) \in Ends /\ Len(Append(s, v)) = Len(s) + 1 /\ Len(s) \in Nat
         /\ Append(s, v)[Len(s) + 1] = v
         /\ \A j \in 1 .. Len(s) : Append(s, v)[j] = s[j]
  BY DEF Ends

\* A row stays where it is when another run is recorded, and has shorter ones.
LEMMA RowStays ==
  ASSUME NEW s \in Ends, NEW v \in {"abandoned", "other"}, NEW k \in Int, NEW n \in Nat, Row(s, k, n)
  PROVE  Row(Append(s, v), k, n)
<1>1. Len(s) \in Nat
  BY RecordAppend
<1>2. ASSUME NEW j \in k - n + 1 .. k PROVE Append(s, v)[j] = "abandoned"
  <2>1. j \in 1 .. Len(s) /\ s[j] = "abandoned"
    BY <1>1, <1>2 DEF Row
  <2>2. QED
    BY <2>1, RecordAppend
<1>3. k \in n .. Len(Append(s, v))
  BY <1>1, RecordAppend DEF Row
<1> QED
  BY <1>2, <1>3 DEF Row

LEMMA RowShorter ==
  ASSUME NEW s \in Ends, NEW k \in Int, NEW n \in Nat, NEW m \in Nat, m <= n, Row(s, k, n)
  PROVE  Row(s, k, m)
<1>1. Len(s) \in Nat
  BY DEF Ends
<1> QED
  BY <1>1 DEF Row

\* An abandoned run lengthens the last row; any other ends it.
LEMMA LastRowMoves ==
  ASSUME NEW s \in Ends, NEW n \in Nat, LastRow(s, n)
  PROVE  /\ LastRow(Append(s, "abandoned"), n + 1)
         /\ LastRow(Append(s, "other"), 0)
<1>0. Len(s) \in Nat /\ n <= Len(s)
  BY DEF LastRow, Row, Ends
<1>1. LastRow(Append(s, "abandoned"), n + 1)
  <2> DEFINE t == Append(s, "abandoned")
  <2>1. /\ Len(t) = Len(s) + 1 /\ t[Len(s) + 1] = "abandoned"
        /\ \A j \in 1 .. Len(s) : t[j] = s[j]
    BY RecordAppend
  <2> HIDE DEF t
  <2>2. ASSUME NEW j \in Len(t) - (n + 1) + 1 .. Len(t) PROVE t[j] = "abandoned"
    <3>1. j = Len(s) + 1 \/ j \in Len(s) - n + 1 .. Len(s)
      BY <1>0, <2>1, <2>2
    <3>2. j \in Len(s) - n + 1 .. Len(s) => j \in 1 .. Len(s) /\ s[j] = "abandoned"
      BY <1>0 DEF LastRow, Row
    <3>3. QED
      BY <2>1, <3>1, <3>2
  <2>3. Row(t, Len(t), n + 1)
    BY <1>0, <2>1, <2>2 DEF Row
  <2>4. ASSUME n + 1 < Len(t) PROVE t[Len(t) - (n + 1)] = "other"
    <3>1. n < Len(s) /\ Len(t) - (n + 1) = Len(s) - n /\ Len(s) - n \in 1 .. Len(s)
      BY <1>0, <2>1, <2>4
    <3>2. QED
      BY <2>1, <3>1 DEF LastRow
  <2>5. QED
    BY <2>3, <2>4 DEF LastRow, t
<1>2. LastRow(Append(s, "other"), 0)
  <2>1. Len(Append(s, "other")) = Len(s) + 1 /\ Append(s, "other")[Len(s) + 1] = "other"
    BY RecordAppend
  <2>2. QED
    BY <1>0, <2>1 DEF LastRow, Row
<1> QED
  BY <1>1, <1>2

\* A row that another run completes is the last row and that run.
LEMMA RowNew ==
  ASSUME NEW s \in Ends, NEW n \in Nat, LastRow(s, n), NEW v \in {"abandoned", "other"},
         NEW k \in Int, NEW m \in Nat \ {0}, Row(Append(s, v), k, m)
  PROVE  Row(s, k, m) \/ (v = "abandoned" /\ n + 1 >= m)
<1> DEFINE t == Append(s, v)
<1>0. Len(s) \in Nat /\ n <= Len(s)
  BY DEF LastRow, Row, Ends
<1>1. /\ Len(t) = Len(s) + 1 /\ t[Len(s) + 1] = v
      /\ \A j \in 1 .. Len(s) : t[j] = s[j]
  BY RecordAppend
<1>2. k \in m .. Len(t) /\ \A j \in k - m + 1 .. k : t[j] = "abandoned"
  BY DEF Row
<1> HIDE DEF t
<1>3. CASE k <= Len(s)
  <2>1. ASSUME NEW j \in k - m + 1 .. k PROVE s[j] = "abandoned"
    <3>1. j \in 1 .. Len(s)
      BY <1>0, <1>2, <1>3, <2>1
    <3>2. QED
      BY <1>1, <1>2, <2>1, <3>1
  <2>2. QED
    BY <1>0, <1>2, <1>3, <2>1 DEF Row
<1>4. CASE k = Len(s) + 1
  <2>1. v = "abandoned"
    BY <1>0, <1>1, <1>2, <1>4
  <2>2. ASSUME n + 1 < m PROVE FALSE
    <3>1. n < Len(s) /\ Len(s) - n \in k - m + 1 .. k /\ Len(s) - n \in 1 .. Len(s)
      BY <1>0, <1>1, <1>2, <1>4, <2>2
    <3>2. s[Len(s) - n] = "other" /\ t[Len(s) - n] = "abandoned" /\ t[Len(s) - n] = s[Len(s) - n]
      BY <1>1, <1>2, <3>1 DEF LastRow
    <3>3. QED
      BY <3>2
  <2>3. QED
    BY <1>0, <2>1, <2>2
<1> QED
  BY <1>0, <1>1, <1>2, <1>3, <1>4

-----------------------------------------------------------------------------
(* The quarantine.                                                         *)

\* The model's rows, in these terms.
LEMMA Rows ==
  /\ \A p, k, n : AbandonedRow(p, k, n) <=> Row(ends[p], k, n)
  /\ StreakInv <=> /\ \A p \in Pipelines : LastRow(ends[p], streak[p])
                   /\ \A e \in Events : at[e] = "decide" =>
                        \E k \in 1 .. Len(ends[PipelineOf[e]]) : Row(ends[PipelineOf[e]], k, seen[e])
  /\ \A p : Deserved(p) <=> \E k \in 1 .. Len(ends[p]) : Row(ends[p], k, QuarantineAfter)
  BY DEF AbandonedRow, Row, LastRow, StreakInv, Deserved

\* What an event does to the record of its pipeline, to the streak and to what
\* its goroutine will judge.
Records(e) ==
    LET q == PipelineOf[e] IN
    \/ /\ at'[e] = "decide" /\ ends'[q] = Append(ends[q], "abandoned")
       /\ streak'[q] = streak[q] + 1 /\ seen'[e] = streak[q] + 1
    \/ /\ at'[e] # "decide" /\ ends'[q] = Append(ends[q], "other") /\ streak'[q] = 0
    \/ /\ at'[e] # "decide" /\ ends'[q] = ends[q] /\ streak'[q] = streak[q]

LEMMA RecordMoves ==
  ASSUME TypeOK, NEW e \in Events, EventStep(e)
  PROVE  /\ Records(e)
         /\ at[e] = "decide" => Decide(e) /\ at'[e] # "decide"
<1> DEFINE q == PipelineOf[e]
<1>t. /\ at \in [Events -> Positions] /\ seen \in [Events -> Nat] /\ q \in Pipelines
      /\ streak \in [Pipelines -> Nat] /\ ends \in [Pipelines -> Seq({"abandoned", "other"})]
  BY ServedAssumption DEF TypeOK
<1>1. CASE RecordAbandoned(e)
  BY <1>t, <1>1 DEF RecordAbandoned, MoveTo, Records
<1>2. CASE RecordOther(e)
  BY <1>t, <1>2 DEF RecordOther, MoveTo, Records
<1>3. CASE Decide(e)
  BY <1>t, <1>3 DEF Decide, MoveTo, Records
<1>4. CASE ~ (RecordAbandoned(e) \/ RecordOther(e) \/ Decide(e))
  <2>1. UNCHANGED <<streak, ends>> /\ at[e] # "decide" /\ at'[e] # "decide"
    BY <1>t, <1>4 DEF EventStep, Tick, Request, FireStep, RunReturns, Values, CheckQuarantine, ReadLock,
         RefuseDraining, ClaimDrop, ClaimLoad, ClaimSwap, Register, Start, ReleasePipeline,
         ReleaseTotal, ReleaseGroup, Refuse, MoveTo, recordVars
  <2>2. QED
    BY <2>1 DEF Records
<1> QED
  BY <1>1, <1>2, <1>3, <1>4

\* Rows in the record of any pipeline outlive the step of an event.
LEMMA RowsStay ==
  ASSUME TypeOK, NEW e \in Events, EventStep(e), NEW p \in Pipelines,
         NEW k \in 1 .. Len(ends[p]), NEW n \in Nat, Row(ends[p], k, n)
  PROVE  k \in 1 .. Len(ends'[p]) /\ Row(ends'[p], k, n)
<1>t. ends[p] \in Ends /\ Len(ends[p]) \in Nat
  BY DEF TypeOK, Ends
<1>1. CASE ends'[p] = ends[p]
  BY <1>1
<1>2. ASSUME NEW v \in {"abandoned", "other"}, ends'[p] = Append(ends[p], v)
      PROVE  k \in 1 .. Len(ends'[p]) /\ Row(ends'[p], k, n)
  <2>1. Len(Append(ends[p], v)) = Len(ends[p]) + 1
    BY <1>t, RecordAppend
  <2>2. Row(Append(ends[p], v), k, n)
    BY <1>t, RowStays
  <2>3. QED
    BY <1>t, <1>2, <2>1, <2>2
<1>3. CASE p = PipelineOf[e]
  BY <1>1, <1>2, <1>3, RecordMoves DEF Records
<1> QED
  BY <1>1, <1>3, EventLocal

\* The streak is the last row, and what is judged of it was.
LEMMA StreakStep ==
  ASSUME TypeOK, StreakInv, NEW e \in Events, EventStep(e)
  PROVE  StreakInv'
<1> DEFINE q == PipelineOf[e]
<1>t. /\ q \in Pipelines /\ streak \in [Pipelines -> Nat] /\ seen \in [Events -> Nat]
      /\ \A x \in Events : PipelineOf[x] \in Pipelines
      /\ \A p \in Pipelines : ends[p] \in Ends /\ Len(ends[p]) \in Nat
  BY ServedAssumption DEF TypeOK, Ends
<1>i. /\ \A p \in Pipelines : LastRow(ends[p], streak[p])
      /\ \A x \in Events : at[x] = "decide" =>
            \E k \in 1 .. Len(ends[PipelineOf[x]]) : Row(ends[PipelineOf[x]], k, seen[x])
  BY Rows
<1>1. LastRow(ends'[q], streak'[q])
  <2>1. LastRow(ends[q], streak[q]) /\ streak[q] \in Nat /\ ends[q] \in Ends
    BY <1>t, <1>i
  <2>2. /\ LastRow(Append(ends[q], "abandoned"), streak[q] + 1)
        /\ LastRow(Append(ends[q], "other"), 0)
    BY <2>1, LastRowMoves
  <2>3. QED
    BY <2>1, <2>2, RecordMoves DEF Records
<1>2. \A p \in Pipelines : LastRow(ends'[p], streak'[p])
  BY <1>1, <1>i, EventLocal
<1>3. ASSUME NEW x \in Events, at'[x] = "decide"
      PROVE  \E k \in 1 .. Len(ends'[PipelineOf[x]]) : Row(ends'[PipelineOf[x]], k, seen'[x])
  <2>1. CASE x = e
    <3>1. ends'[q] = Append(ends[q], "abandoned") /\ streak'[q] = streak[q] + 1 /\ seen'[e] = streak'[q]
      BY <1>3, <2>1, RecordMoves DEF Records
    <3>2. Len(ends'[q]) = Len(ends[q]) + 1
      BY <1>t, <3>1, RecordAppend
    <3>3. Len(ends'[q]) \in 1 .. Len(ends'[q]) /\ Row(ends'[q], Len(ends'[q]), seen'[e])
      BY <1>t, <1>1, <3>1, <3>2 DEF LastRow
    <3>4. QED
      BY <2>1, <3>3
  <2>2. CASE x # e
    <3>1. seen'[x] = seen[x] /\ at[x] = "decide"
      BY <1>3, <2>2, EventLocal
    <3>2. PICK k \in 1 .. Len(ends[PipelineOf[x]]) : Row(ends[PipelineOf[x]], k, seen[x])
      BY <1>i, <3>1
    <3>3. k \in 1 .. Len(ends'[PipelineOf[x]]) /\ Row(ends'[PipelineOf[x]], k, seen[x])
      BY <1>t, <3>2, RowsStay
    <3>4. QED
      BY <3>1, <3>3
  <2>3. QED
    BY <2>1, <2>2
<1> QED
  BY <1>2, <1>3 DEF StreakInv, AbandonedRow, Row, LastRow

\* Somebody is about to judge a streak of p that quarantines it.
Judging(p) == \E e \in EventsOf(p, {"decide"}) : seen[e] >= QuarantineAfter

\* The quarantine is decided by the goroutine whose run made the streak long
\* enough, however the others' records fall between its two steps.
LEMMA QuarantineStep ==
  ASSUME TypeOK, StreakInv, QuarantineExact, NEW e \in Events, EventStep(e)
  PROVE  QuarantineExact'
<1> DEFINE q == PipelineOf[e]
<1>t. /\ q \in Pipelines /\ streak \in [Pipelines -> Nat] /\ seen \in [Events -> Nat]
      /\ PipelineOf \in [Events -> Pipelines] /\ quarantined \in [Pipelines -> BOOLEAN]
      /\ QuarantineAfter \in Nat \ {0}
      /\ \A p \in Pipelines : ends[p] \in Ends /\ Len(ends[p]) \in Nat
  <2>1. quarantined \in [Pipelines -> BOOLEAN]
    BY Zenon DEF TypeOK
  <2>2. QED
    BY <2>1, ServedAssumption DEF TypeOK, Ends
<1>d. Decide(e) => quarantined' = [quarantined EXCEPT ![q] = quarantined[q] \/ seen[e] >= QuarantineAfter]
  BY DEF Decide
<1>n. ~Decide(e) => quarantined' = quarantined
  BY DEF EventStep, Tick, Request, FireStep, RunReturns, Values, CheckQuarantine, ReadLock,
         RefuseDraining, ClaimDrop, ClaimLoad, ClaimSwap, Register, Start, RecordAbandoned,
         RecordOther, ReleasePipeline, ReleaseTotal, ReleaseGroup, recordVars
<1>f. \A p \in Pipelines : quarantined'[p] => quarantined[p] \/ (p = q /\ Decide(e) /\ seen[e] >= QuarantineAfter)
  <2>1. CASE Decide(e)
    BY <1>t, <1>d, <2>1, Zenon
  <2>2. CASE ~Decide(e)
    BY <1>t, <1>n, <2>2, Zenon
  <2>3. QED
    BY <2>1, <2>2
<1>s. \A p \in Pipelines : quarantined[p] => quarantined'[p]
  BY <1>t, QuarantineFlags
<1>2. ASSUME NEW p \in Pipelines, quarantined'[p] PROVE Deserved(p)'
  <2>1. \E k \in 1 .. Len(ends[p]) : Row(ends[p], k, QuarantineAfter)
    <3>1. CASE quarantined[p]
      <4>1. Deserved(p)
        BY <3>1, Zenon DEF QuarantineExact
      <4>2. QED
        BY <4>1, Rows
    <3>2. CASE p = q /\ Decide(e) /\ seen[e] >= QuarantineAfter
      <4>1. PICK k \in 1 .. Len(ends[p]) : Row(ends[p], k, seen[e])
        BY <3>2, Rows DEF Decide
      <4>2. Row(ends[p], k, QuarantineAfter)
        BY <1>t, <3>2, <4>1, RowShorter
      <4>3. QED
        BY <4>2
    <3>3. QED
      BY <1>2, <1>f, <3>1, <3>2, Zenon
  <2>2. PICK k \in 1 .. Len(ends[p]) : Row(ends[p], k, QuarantineAfter)
    BY <2>1
  <2>3. k \in 1 .. Len(ends'[p]) /\ Row(ends'[p], k, QuarantineAfter)
    BY <1>t, <2>2, RowsStay
  <2>4. QED
    BY <2>3 DEF Deserved, AbandonedRow, Row
<1>3. ASSUME NEW p \in Pipelines, Deserved(p)' PROVE quarantined'[p] \/ Judging(p)'
  <2>0. PICK k \in 1 .. Len(ends'[p]) : Row(ends'[p], k, QuarantineAfter)
    BY <1>3 DEF Deserved, AbandonedRow, Row
  <2>l. LastRow(ends[p], streak[p]) /\ streak[p] \in Nat
    BY <1>t, Rows
  <2>1. CASE p = q /\ at'[e] = "decide" /\ seen'[e] >= QuarantineAfter
    <3>1. e \in EventsOf(p, {"decide"})'
      BY <2>1 DEF EventsOf
    <3>2. QED
      BY <2>1, <3>1 DEF Judging
  <2>2. CASE ~ (p = q /\ at'[e] = "decide" /\ seen'[e] >= QuarantineAfter)
    <3>1. Deserved(p)
      <4>1. ASSUME NEW v \in {"abandoned", "other"}, ends'[p] = Append(ends[p], v),
                   v = "abandoned" => ~ (streak[p] + 1 >= QuarantineAfter)
            PROVE  Deserved(p)
        <5>1. Row(ends[p], k, QuarantineAfter)
          BY <1>t, <2>0, <2>l, <4>1, RowNew
        <5>2. k \in 1 .. Len(ends[p])
          BY <1>t, <5>1 DEF Row
        <5>3. QED
          BY <5>1, <5>2, Rows
      <4>2. CASE ends'[p] = ends[p]
        BY <2>0, <4>2, Rows
      <4>3. CASE p = q
        <5>1. \/ ends'[p] = Append(ends[p], "abandoned") /\ ~ (streak[p] + 1 >= QuarantineAfter)
              \/ ends'[p] = Append(ends[p], "other")
              \/ ends'[p] = ends[p]
          BY <2>2, <4>3, RecordMoves DEF Records
        <5>2. QED
          BY <4>1, <4>2, <5>1
      <4>4. CASE p # q
        BY <4>2, <4>4, EventLocal
      <4>5. QED
        BY <4>3, <4>4
    <3>2. quarantined[p] \/ Judging(p)
      BY <3>1, Zenon DEF QuarantineExact, Judging
    <3>3. CASE quarantined[p]
      BY <1>s, <3>3, Zenon
    <3>4. CASE Judging(p)
      <4>1. PICK x \in EventsOf(p, {"decide"}) : seen[x] >= QuarantineAfter
        BY <3>4 DEF Judging
      <4>2. CASE x # e
        <5>1. x \in EventsOf(p, {"decide"})' /\ seen'[x] >= QuarantineAfter
          BY <4>1, <4>2, EventLocal DEF EventsOf
        <5>2. QED
          BY <5>1 DEF Judging
      <4>3. CASE x = e
        <5>1. Decide(e) /\ p = q
          BY <4>1, <4>3, RecordMoves DEF EventsOf
        <5>2. quarantined'[p]
          BY <1>t, <1>d, <4>1, <4>3, <5>1, Zenon
        <5>3. QED
          BY <5>2, Zenon
      <4>4. QED
        BY <4>2, <4>3
    <3>5. QED
      BY <3>2, <3>3, <3>4, Zenon
  <2>3. QED
    BY <2>1, <2>2
<1> QED
  BY <1>2, <1>3, Zenon DEF QuarantineExact, Judging

-----------------------------------------------------------------------------
(* The theorems.                                                           *)

\* No goroutine is anywhere when Serve starts its listeners.
LEMMA IInvInit ==
  ASSUME Init PROVE IInv
<1>1. TypeOK
  <2>1. FlagsOK /\ quarantined \in [Pipelines -> BOOLEAN]
    <3>1. (Webhooks # {}) \in BOOLEAN
      BY Zenon
    <3>2. QED
      BY <3>1, ServedAssumption, Zenon DEF Init, FlagsOK
  <2>2. QED
    BY <2>1, ServedAssumption DEF Init, TypeOK, FlagsOK, Phases, Positions, RunEnds
<1>2. \A S \in {Registered, Counted, Claimed} : "idle" \notin S
  BY PositionSets
<1>3. CountersExact
  <2>1. EventsAt(Registered) = {} /\ EventsAt(Counted) = {} /\ \A p \in Pipelines : EventsOf(p, Claimed) = {}
    BY <1>2 DEF Init, EventsAt, EventsOf
  <2>2. QED
    BY <2>1, FS_EmptySet DEF CountersExact, Init
<1>4. OverlapInv /\ StreakInv
  BY ServedAssumption DEF Init, OverlapInv, StreakInv, AbandonedRow
<1>5. DrainInv
  BY DEF Init, DrainInv
<1>6. QuarantineExact
  <2>1. \A p \in Pipelines : ~quarantined[p]
    BY Zenon DEF Init
  <2>2. \A p \in Pipelines : ~Deserved(p)
    BY DEF Init, Deserved
  <2>3. QED
    BY <2>1, <2>2, Zenon DEF QuarantineExact
<1> QED
  BY <1>1, <1>3, <1>4, <1>5, <1>6 DEF IInv

\* Every step, of an event or of Serve, keeps IInv.
LEMMA IInvStep ==
  ASSUME IInv, [Next]_vars
  PROVE  IInv'
<1> USE DEF IInv
<1>1. TypeOK' /\ CountersExact'
  BY TypeStep
<1>2. DrainInv'
  BY DrainStep
<1>3. OverlapInv' /\ StreakInv' /\ QuarantineExact'
  <2>1. CASE OtherStep
    <3>1. UNCHANGED <<at, seen, inflight, streak, quarantined, ends>>
      BY <2>1, OtherFrame DEF countVars, eventVars, recordVars
    <3>2. OverlapInv' /\ StreakInv'
      BY <3>1 DEF OverlapInv, StreakInv, AbandonedRow
    <3>3. QuarantineExact'
      <4>1. \A p \in Pipelines : Deserved(p)' <=> Deserved(p)
        BY <3>1 DEF Deserved, AbandonedRow
      <4>2. \A p \in Pipelines : EventsOf(p, {"decide"})' = EventsOf(p, {"decide"})
        BY <3>1 DEF EventsOf
      <4>3. seen' = seen /\ quarantined' = quarantined
        BY <3>1
      <4>4. QED
        BY <4>1, <4>2, <4>3, Zenon DEF QuarantineExact
    <3>4. QED
      BY <3>2, <3>3
  <2>2. CASE \E e \in Events : EventStep(e)
    BY <2>2, OverlapStep, StreakStep, QuarantineStep
  <2>3. QED
    BY <2>1, <2>2, StepKinds
<1> QED
  BY <1>1, <1>2, <1>3

\* IInv holds in every state of the daemon.
THEOREM Invariance == Spec => []IInv
<1>1. Init => IInv
  BY IInvInit
<1>2. IInv /\ [Next]_vars => IInv'
  BY IInvStep
<1> QED
  BY <1>1, <1>2, PTL DEF Spec

\* Every variable keeps its type.
THEOREM TypeCorrect == Spec => []TypeOK
<1>1. IInv => TypeOK
  BY DEF IInv
<1> QED
  BY <1>1, Invariance, PTL

\* The wait group, the daemon's counter and every pipeline's are exact.
THEOREM CountersAlwaysExact == Spec => []CountersExact
<1>1. IInv => CountersExact
  BY DEF IInv
<1> QED
  BY <1>1, Invariance, PTL

\* claimSlot admits no more runs than the overlap policy allows, whatever the
\* goroutines that race for a slot do.
THEOREM OverlapAlwaysRespected == Spec => []OverlapRespected
<1>1. IInv => OverlapRespected
  BY DEF IInv, CountersExact, OverlapInv, OverlapRespected
<1> QED
  BY <1>1, Invariance, PTL

\* A clean drain leaves nothing behind and nothing starts after it.
THEOREM DrainLeavesNothing == Spec => []CleanDrain
<1>1. ASSUME IInv, drained = "clean" PROVE CleanDrain
  <2>1. wg = 0 /\ draining /\ wg = Cardinality(EventsAt(Registered))
    BY <1>1 DEF IInv, DrainInv, CountersExact
  <2>2. IsFiniteSet(EventsAt(Registered))
    BY ServedAssumption, FS_Subset DEF EventsAt
  <2>3. EventsAt(Registered) = {}
    BY <2>1, <2>2, FS_EmptySet
  <2>4. \A e \in Events : at[e] \notin Registered /\ at[e] # "claimed"
    BY <1>1, <2>1, <2>3 DEF IInv, DrainInv, EventsAt
  <2>5. EventsAt(Counted) = {} /\ \A p \in Pipelines : EventsOf(p, Claimed) = {}
    BY <2>4 DEF EventsAt, EventsOf, Counted, Claimed
  <2>6. QED
    BY <1>1, <2>3, <2>5, FS_EmptySet DEF IInv, CountersExact, CleanDrain
<1>2. IInv => CleanDrain
  BY <1>1 DEF CleanDrain
<1> QED
  BY <1>2, Invariance, PTL

\* A pipeline is quarantined when, and only when, QuarantineAfter runs recorded in
\* a row abandoned a step.
THEOREM QuarantineAlwaysExact == Spec => []QuarantineExact
<1>1. IInv => QuarantineExact
  BY DEF IInv
<1> QED
  BY <1>1, Invariance, PTL

\* Only a goroutine that claimed its slot registers.
LEMMA RegistersClaimed ==
  ASSUME TypeOK, NEW e \in Events, EventStep(e)
  PROVE  at'[e] \in Registered => at[e] \in Registered \cup {"claimed"}
<1>1. at \in [Events -> Positions]
  BY DEF TypeOK
<1> QED
  BY <1>1, PositionSets
     DEF EventStep, Tick, Request, FireStep, RunReturns, Values, CheckQuarantine, ReadLock,
         RefuseDraining, ClaimDrop, ClaimLoad, ClaimSwap, Register, Start, RecordAbandoned, Decide,
         RecordOther, ReleasePipeline, ReleaseTotal, ReleaseGroup, Refuse, MoveTo

\* Once draining is set the wait group only counts down.
THEOREM DrainClosesRegistration == Spec => RegistrationCloses
<1>1. ASSUME IInv, [Next]_vars, draining PROVE wg' <= wg
  <2>t. wg \in Nat
    BY <1>1 DEF IInv, TypeOK
  <2>1. CASE OtherStep
    BY <2>t, <2>1, OtherFrame DEF countVars
  <2>2. ASSUME NEW e \in Events, EventStep(e) PROVE wg' <= wg
    <3>1. PICK w \in Positions : Accounts(e, w)
      BY <1>1, <2>2, EventAccounts DEF IInv
    <3>2. at'[e] = w
      BY <1>1, <3>1 DEF Accounts, MoveTo, IInv, TypeOK
    <3>3. at[e] # "claimed"
      BY <1>1 DEF IInv, DrainInv
    <3>4. w \in Registered => at[e] \in Registered
      BY <1>1, <2>2, <3>2, <3>3, RegistersClaimed DEF IInv
    <3>5. QED
      BY <2>t, <3>1, <3>4 DEF Accounts, Delta, In
  <2>3. QED
    BY <1>1, <2>1, <2>2, StepKinds
<1>2. IInv /\ [Next]_vars => [draining => wg' <= wg]_vars
  BY <1>1
<1> QED
  BY <1>2, Invariance, PTL DEF Spec, RegistrationCloses

\* A goroutine passes the quarantine check only of a pipeline that is not
\* quarantined, and its run starts as it leaves the events still to start.
LEMMA StartsOnce ==
  ASSUME TypeOK, NEW e \in Events, EventStep(e)
  PROVE  /\ ~Start(e) => runs' = runs
         /\ ~Start(e) /\ at'[e] \in Unstarted => at[e] \in Unstarted \/ ~quarantined[PipelineOf[e]]
         /\ Start(e) => /\ runs' = [runs EXCEPT ![PipelineOf[e]] = @ + 1]
                        /\ at[e] \in Unstarted /\ at'[e] \notin Unstarted
<1>t. at \in [Events -> Positions]
  BY DEF TypeOK
<1>u. Unstarted = {"admit", "swap", "claimed", "rlock", "start"}
  BY DEF Unstarted, Reading
<1>1. ~Start(e) => runs' = runs
  BY DEF EventStep, Tick, Request, FireStep, RunReturns, Values, CheckQuarantine, ReadLock,
         RefuseDraining, ClaimDrop, ClaimLoad, ClaimSwap, Register, RecordAbandoned, Decide,
         RecordOther, ReleasePipeline, ReleaseTotal, ReleaseGroup, recordVars
<1>2. ASSUME CheckQuarantine(e), quarantined[PipelineOf[e]] PROVE at'[e] = "gone"
  <2>1. MoveTo(e, "gone")
    BY <1>2, Zenon DEF CheckQuarantine, Refuse
  <2>2. QED
    BY <1>t, <2>1 DEF MoveTo
<1>3. ASSUME ~Start(e), ~CheckQuarantine(e), at'[e] \in Unstarted PROVE at[e] \in Unstarted
  BY <1>t, <1>u, <1>3
     DEF EventStep, Tick, Request, FireStep, RunReturns, Values, ReadLock,
         RefuseDraining, ClaimDrop, ClaimLoad, ClaimSwap, Register, RecordAbandoned, Decide,
         RecordOther, ReleasePipeline, ReleaseTotal, ReleaseGroup, Refuse, MoveTo
<1>4. ASSUME ~Start(e), at'[e] \in Unstarted PROVE at[e] \in Unstarted \/ ~quarantined[PipelineOf[e]]
  <2>1. "gone" \notin Unstarted
    BY <1>u
  <2>2. QED
    BY <1>2, <1>3, <1>4, <2>1, Zenon
<1>5. ASSUME Start(e)
      PROVE  /\ runs' = [runs EXCEPT ![PipelineOf[e]] = @ + 1]
             /\ at[e] \in Unstarted /\ at'[e] \notin Unstarted
  BY <1>t, <1>u, <1>5 DEF Start, MoveTo
<1> QED
  BY <1>1, <1>4, <1>5, Zenon

\* A quarantine is for good, and the only runs that start under it are those of
\* events that had passed the check before it was set, each once.
THEOREM QuarantineAlwaysBrakes == Spec => QuarantineBrakes
<1>1. ASSUME IInv, [Next]_vars, NEW p \in Pipelines, quarantined[p]
      PROVE  quarantined'[p] /\ RunsEver(p)' <= RunsEver(p)
  <2>q. quarantined \in [Pipelines -> BOOLEAN]
    BY <1>1, Zenon DEF IInv, TypeOK
  <2>t. TypeOK /\ at \in [Events -> Positions] /\ runs \in [Pipelines -> Nat]
    BY <1>1 DEF IInv, TypeOK
  <2>c. /\ Cardinality(EventsOf(p, Unstarted)) = Cardinality(Among(OfPipeline(p), Unstarted))
        /\ Cardinality(EventsOf(p, Unstarted)') = Cardinality(Among(OfPipeline(p), Unstarted)')
        /\ Cardinality(Among(OfPipeline(p), Unstarted)) \in Nat
    <3>1. EventsOf(p, Unstarted) = Among(OfPipeline(p), Unstarted)
      BY Counts
    <3>2. EventsOf(p, Unstarted)' = Among(OfPipeline(p), Unstarted)'
      BY DEF EventsOf, Among, OfPipeline
    <3>3. QED
      BY <3>1, <3>2, AmongFinite, Counts
  <2>1. CASE OtherStep
    <3>1. UNCHANGED <<at, quarantined, runs>>
      BY <2>1, OtherFrame DEF eventVars, recordVars
    <3>2. quarantined'[p]
      BY <1>1, <3>1, Zenon
    <3>3. Among(OfPipeline(p), Unstarted)' = Among(OfPipeline(p), Unstarted)
      BY <3>1 DEF Among
    <3>4. QED
      BY <2>c, <2>t, <3>1, <3>2, <3>3 DEF RunsEver
  <2>2. ASSUME NEW e \in Events, EventStep(e) PROVE quarantined'[p] /\ RunsEver(p)' <= RunsEver(p)
    <3>1. quarantined'[p]
      BY <1>1, <2>q, <2>2, QuarantineFlags
    <3>2. PICK w \in Positions : Accounts(e, w)
      BY <2>t, <2>2, EventAccounts
    <3>3. at'[e] = w /\ MoveTo(e, w)
      BY <2>t, <3>2 DEF Accounts, MoveTo
    <3>4. Cardinality(Among(OfPipeline(p), Unstarted)') =
             Cardinality(Among(OfPipeline(p), Unstarted)) + IF e \in OfPipeline(p) THEN Delta(e, w, Unstarted) ELSE 0
      BY <2>t, <3>3, AmongMove, Counts
    <3>5. e \in OfPipeline(p) <=> p = PipelineOf[e]
      BY DEF OfPipeline
    <3>6. CASE Start(e)
      <4>1. runs'[p] = runs[p] + IF p = PipelineOf[e] THEN 1 ELSE 0
        BY <2>t, <2>2, <3>6, StartsOnce
      <4>2. Delta(e, w, Unstarted) = -1
        BY <2>t, <2>2, <3>3, <3>6, StartsOnce DEF Delta, In
      <4>3. QED
        BY <2>c, <2>t, <3>1, <3>4, <3>5, <4>1, <4>2 DEF RunsEver
    <3>7. CASE ~Start(e)
      <4>1. runs'[p] = runs[p]
        BY <2>t, <2>2, <3>7, StartsOnce
      <4>2. p = PipelineOf[e] => Delta(e, w, Unstarted) <= 0
        <5>1. p = PipelineOf[e] /\ w \in Unstarted => at[e] \in Unstarted
          BY <1>1, <2>t, <2>2, <3>3, <3>7, StartsOnce
        <5>2. QED
          BY <5>1 DEF Delta, In
      <4>3. Delta(e, w, Unstarted) \in Int
        BY DEF Delta, In
      <4>4. QED
        BY <2>c, <2>t, <3>1, <3>4, <3>5, <4>1, <4>2, <4>3 DEF RunsEver
    <3>8. QED
      BY <3>6, <3>7
  <2>3. QED
    BY <1>1, <2>1, <2>2, StepKinds
<1>2. IInv /\ [Next]_vars =>
        [\A p \in Pipelines : quarantined[p] => quarantined'[p] /\ RunsEver(p)' <= RunsEver(p)]_vars
  BY <1>1, Zenon
<1> QED
  BY <1>2, Invariance, PTL DEF Spec, QuarantineBrakes
=============================================================================
