-------------------------------- MODULE Daemon --------------------------------
(***************************************************************************)
(* The daemon around the engine: internal/daemon/run.go (admission, the    *)
(* overlap policy, quarantine), daemon.go (Serve and its shutdown) and the *)
(* readiness of admin.go.  Every event of a trigger is a goroutine calling *)
(* fire; Serve is one more.  They share atomics, a read-write lock and a   *)
(* wait group, and each access to one of those is a step of its own.       *)
(* runtime.Run is a single call here: Scheduler models what it does.       *)
(***************************************************************************)
EXTENDS Integers, Sequences, FiniteSets

CONSTANTS
    Pipelines,       \* the pipelines served
    Webhooks,        \* those with an HTTP-driven trigger; the others are schedules
    Drop,            \* those whose overlap policy is drop, rather than allow
    MaxRuns,         \* Daemon.maxRuns: the ceiling under allow, 0 for none
    QuarantineAfter, \* abandoned runs in a row that quarantine a pipeline
    Events,          \* the events that may occur
    PipelineOf,      \* PipelineOf[e]: the pipeline whose trigger carries e
    AdminOn          \* AdminAddr is not "-"

ASSUME ServedAssumption ==
    /\ IsFiniteSet(Pipelines) /\ Pipelines # {}
    /\ Webhooks \subseteq Pipelines
    /\ Drop \subseteq Pipelines
    /\ MaxRuns \in Nat
    /\ QuarantineAfter \in Nat \ {0}
    /\ IsFiniteSet(Events)
    /\ PipelineOf \in [Events -> Pipelines]
    /\ AdminOn \in BOOLEAN

VARIABLES
    serve,         \* where Serve is
    ctxDone,       \* the context Serve was given is done
    listening,     \* schedules whose Listen loop is still running
    accepting,     \* the webhook listener accepts requests
    adminUp,       \* the admin listener answers
    errs,          \* listeners that failed and sent on serverErr
    failure,       \* what Serve will return is an error
    draining,      \* Daemon.draining
    drained,       \* how drainRuns ended
    elapsed,       \* how many times a whole DrainTimeout went by waiting on runs
    wg,            \* Daemon.wg
    total,         \* Daemon.inflight
    at,            \* where event e's goroutine is
    seen,          \* the counter value e's goroutine loaded, until it used it
    verdict,       \* how e's run ended, until it is recorded
    inflight,      \* Pipeline.inflight
    streak,        \* Pipeline.consecutiveAbandoned
    abandonedRuns, \* Pipeline.abandonedRuns
    quarantined,   \* Pipeline.quarantined
    runs,          \* Pipeline.runs
    ends           \* history: how the runs of a pipeline ended, in the order recorded

serveVars == <<serve, ctxDone, listening, accepting, adminUp, errs, failure>>
drainVars == <<draining, drained, elapsed>>
countVars == <<wg, total, inflight>>
eventVars == <<at, seen, verdict>>
recordVars == <<streak, abandonedRuns, quarantined, runs, ends>>
vars == <<serveVars, drainVars, countVars, eventVars, recordVars>>

Phases == {"serving", "stopping", "shutdown", "listeners", "lock", "drain",
           "admin", "returned"}
\* "finished": it succeeded, a step failed, the trigger's timeout passed or a
\* webhook's client left; "cancelled": the daemon cancelled the run's context.
\* The failures counter, which only the metrics report, is left out.
RunEnds == {"finished", "cancelled", "abandoned"}
Positions == {"idle", "values", "fire", "rlock", "admit", "swap", "claimed",
              "start", "run", "record", "decide", "release", "uncount", "leave",
              "gone"}

\* The parts of fire: holding the read lock, counted in Pipeline.inflight,
\* counted in Daemon.inflight, and registered in the wait group.
Reading == {"admit", "swap", "claimed"}
Registered == {"start", "run", "record", "decide", "release", "uncount", "leave"}
Counted == Registered \ {"leave"}
Claimed == (Counted \ {"uncount"}) \cup {"claimed"}

EventsAt(S) == {e \in Events : at[e] \in S}
EventsOf(p, S) == {e \in Events : PipelineOf[e] = p /\ at[e] \in S}

\* Requests the webhook server is still handling.
Handlers == {e \in Events : PipelineOf[e] \in Webhooks /\ at[e] \notin {"idle", "gone"}}

TypeOK ==
    /\ serve \in Phases
    /\ ctxDone \in BOOLEAN /\ accepting \in BOOLEAN /\ adminUp \in BOOLEAN
    /\ failure \in BOOLEAN /\ draining \in BOOLEAN
    /\ listening \subseteq Pipelines \ Webhooks
    /\ errs \subseteq {"webhook", "admin"}
    /\ drained \in {"no", "clean", "gaveup"}
    /\ elapsed \in 0 .. 2
    /\ wg \in Nat /\ total \in Nat
    /\ at \in [Events -> Positions]
    /\ seen \in [Events -> Nat]
    /\ verdict \in [Events -> RunEnds \cup {"none"}]
    /\ inflight \in [Pipelines -> Nat]
    /\ streak \in [Pipelines -> Nat]
    /\ abandonedRuns \in [Pipelines -> Nat]
    /\ quarantined \in [Pipelines -> BOOLEAN]
    /\ runs \in [Pipelines -> Nat]
    /\ ends \in [Pipelines -> Seq({"abandoned", "other"})]

\* Serve after it started its listeners.
Init ==
    /\ serve = "serving" /\ ctxDone = FALSE
    /\ listening = Pipelines \ Webhooks
    /\ accepting = (Webhooks # {})
    /\ adminUp = AdminOn
    /\ errs = {} /\ failure = FALSE
    /\ draining = FALSE /\ drained = "no" /\ elapsed = 0
    /\ wg = 0 /\ total = 0
    /\ at = [e \in Events |-> "idle"]
    /\ seen = [e \in Events |-> 0]
    /\ verdict = [e \in Events |-> "none"]
    /\ inflight = [p \in Pipelines |-> 0]
    /\ streak = [p \in Pipelines |-> 0]
    /\ abandonedRuns = [p \in Pipelines |-> 0]
    /\ quarantined = [p \in Pipelines |-> FALSE]
    /\ runs = [p \in Pipelines |-> 0]
    /\ ends = [p \in Pipelines |-> <<>>]

-----------------------------------------------------------------------------
(* Events: how a goroutine comes to call fire.                             *)

MoveTo(e, where) == at' = [at EXCEPT ![e] = where]

\* listenCtx: Serve's context, or Serve's own stopListeners.
ListenDone == ctxDone \/ serve # "serving"

\* A tick.  The loop selects between the ticker and ctx.Done, so it may still
\* fire when both are ready.
Tick(e) ==
    /\ at[e] = "idle"
    /\ PipelineOf[e] \in listening
    /\ MoveTo(e, "fire")
    /\ UNCHANGED <<seen, verdict, serveVars, drainVars, countVars, recordVars>>

ListenerStops(p) ==
    /\ p \in listening
    /\ ListenDone
    /\ listening' = listening \ {p}
    /\ UNCHANGED <<serve, ctxDone, accepting, adminUp, errs, failure>>
    /\ UNCHANGED <<drainVars, countVars, eventVars, recordVars>>

\* net/http hands a request of a webhook's route to its handler.
Request(e) ==
    /\ at[e] = "idle"
    /\ PipelineOf[e] \in Webhooks
    /\ accepting
    /\ MoveTo(e, "values")
    /\ UNCHANGED <<seen, verdict, serveVars, drainVars, countVars, recordVars>>

\* The event is refused; the code that says why is the caller's to read.
Refuse(e) == MoveTo(e, "gone")

\* The handler reads the request; it answers an unusable one without a run.
Values(e) ==
    /\ at[e] = "values"
    /\ MoveTo(e, "fire") \/ Refuse(e)
    /\ UNCHANGED <<seen, verdict, serveVars, drainVars, countVars, recordVars>>

-----------------------------------------------------------------------------
(* fire: admit, run, record, release.                                      *)

CheckQuarantine(e) ==
    /\ at[e] = "fire"
    /\ IF quarantined[PipelineOf[e]]
         THEN Refuse(e)
         ELSE MoveTo(e, "rlock")
    /\ UNCHANGED <<seen, verdict, serveVars, drainVars, countVars, recordVars>>

\* Mutant: the write lock is never released.
ReadLockServing(e) ==
    /\ at[e] = "rlock"
    /\ serve # "lock" /\ ~draining
    /\ MoveTo(e, "admit")
    /\ UNCHANGED <<seen, verdict, serveVars, drainVars, countVars, recordVars>>

\* A pending writer holds back new readers.
ReadLock(e) ==
    /\ at[e] = "rlock"
    /\ serve # "lock"
    /\ MoveTo(e, "admit")
    /\ UNCHANGED <<seen, verdict, serveVars, drainVars, countVars, recordVars>>

\* Mutant: the refusal runs the release of a run that was never registered.
RefuseDrainingReleases(e) ==
    /\ at[e] = "admit"
    /\ draining
    /\ Refuse(e)
    /\ wg' = wg - 1
    /\ UNCHANGED <<total, inflight, seen, verdict, serveVars, drainVars, recordVars>>

RefuseDraining(e) ==
    /\ at[e] = "admit"
    /\ draining
    /\ Refuse(e)
    /\ UNCHANGED <<seen, verdict, serveVars, drainVars, countVars, recordVars>>

\* Mutant: the counter is raised without being compared.
ClaimDropUnchecked(e) ==
    /\ at[e] = "admit" /\ ~draining
    /\ PipelineOf[e] \in Drop
    /\ inflight' = [inflight EXCEPT ![PipelineOf[e]] = @ + 1]
    /\ MoveTo(e, "claimed")
    /\ UNCHANGED <<wg, total, seen, verdict, serveVars, drainVars, recordVars>>

\* Mutant: the run is registered before the claim and the refusal forgets it.
ClaimDropLeaks(e) ==
    /\ at[e] = "admit" /\ ~draining
    /\ PipelineOf[e] \in Drop
    /\ IF inflight[PipelineOf[e]] = 0
         THEN /\ inflight' = [inflight EXCEPT ![PipelineOf[e]] = 1]
              /\ MoveTo(e, "claimed") /\ UNCHANGED wg
         ELSE Refuse(e) /\ wg' = wg + 1 /\ UNCHANGED inflight
    /\ UNCHANGED <<total, seen, verdict, serveVars, drainVars, recordVars>>

\* claimSlot under drop: one compare-and-swap from 0 to 1.
ClaimDrop(e) ==
    /\ at[e] = "admit" /\ ~draining
    /\ PipelineOf[e] \in Drop
    /\ IF inflight[PipelineOf[e]] = 0
         THEN /\ inflight' = [inflight EXCEPT ![PipelineOf[e]] = 1]
              /\ MoveTo(e, "claimed")
         ELSE Refuse(e) /\ UNCHANGED inflight
    /\ UNCHANGED <<wg, total, seen, verdict, serveVars, drainVars, recordVars>>

\* Mutant: draining is not looked at.
ClaimLoadAnytime(e) ==
    /\ at[e] = "admit"
    /\ PipelineOf[e] \notin Drop
    /\ IF MaxRuns > 0 /\ inflight[PipelineOf[e]] >= MaxRuns
         THEN Refuse(e) /\ UNCHANGED seen
         ELSE MoveTo(e, "swap") /\ seen' = [seen EXCEPT ![e] = inflight[PipelineOf[e]]]
    /\ UNCHANGED <<verdict, serveVars, drainVars, countVars, recordVars>>

\* claimSlot under allow: load the counter and compare it with the ceiling...
ClaimLoad(e) ==
    /\ at[e] = "admit" /\ ~draining
    /\ PipelineOf[e] \notin Drop
    /\ IF MaxRuns > 0 /\ inflight[PipelineOf[e]] >= MaxRuns
         THEN Refuse(e) /\ UNCHANGED seen
         ELSE MoveTo(e, "swap") /\ seen' = [seen EXCEPT ![e] = inflight[PipelineOf[e]]]
    /\ UNCHANGED <<verdict, serveVars, drainVars, countVars, recordVars>>

\* Mutant: check, then increment.
ClaimSwapAdds(e) ==
    /\ at[e] = "swap"
    /\ inflight' = [inflight EXCEPT ![PipelineOf[e]] = @ + 1]
    /\ MoveTo(e, "claimed")
    /\ seen' = [seen EXCEPT ![e] = 0]
    /\ UNCHANGED <<wg, total, verdict, serveVars, drainVars, recordVars>>

\* ...then swap, or go round again if the counter moved meanwhile.
ClaimSwap(e) ==
    /\ at[e] = "swap"
    /\ IF inflight[PipelineOf[e]] = seen[e]
         THEN /\ inflight' = [inflight EXCEPT ![PipelineOf[e]] = @ + 1]
              /\ MoveTo(e, "claimed")
         ELSE MoveTo(e, "admit") /\ UNCHANGED inflight
    /\ seen' = [seen EXCEPT ![e] = 0]
    /\ UNCHANGED <<wg, total, verdict, serveVars, drainVars, recordVars>>

\* wg.Add and inflight.Add, then the read lock is released.
Register(e) ==
    /\ at[e] = "claimed"
    /\ wg' = wg + 1
    /\ total' = total + 1
    /\ MoveTo(e, "start")
    /\ UNCHANGED <<inflight, seen, verdict, serveVars, drainVars, recordVars>>

Start(e) ==
    /\ at[e] = "start"
    /\ runs' = [runs EXCEPT ![PipelineOf[e]] = @ + 1]
    /\ MoveTo(e, "run")
    /\ UNCHANGED <<seen, verdict, serveVars, drainVars, countVars>>
    /\ UNCHANGED <<streak, abandonedRuns, quarantined, ends>>

\* A schedule fires with listenCtx, a webhook with its request's context.
RunCancelled(e) == PipelineOf[e] \notin Webhooks /\ ListenDone

\* runtime.Run returns.
RunReturns(e) ==
    /\ at[e] = "run"
    /\ \E end \in RunEnds :
         /\ end = "cancelled" => RunCancelled(e)
         /\ verdict' = [verdict EXCEPT ![e] = end]
    /\ MoveTo(e, "record")
    /\ UNCHANGED <<seen, serveVars, drainVars, countVars, recordVars>>

\* record for a run that abandoned a step: count it, lengthen the streak...
RecordAbandoned(e) ==
    /\ at[e] = "record" /\ verdict[e] = "abandoned"
    /\ abandonedRuns' = [abandonedRuns EXCEPT ![PipelineOf[e]] = @ + 1]
    /\ streak' = [streak EXCEPT ![PipelineOf[e]] = @ + 1]
    /\ ends' = [ends EXCEPT ![PipelineOf[e]] = Append(@, "abandoned")]
    /\ seen' = [seen EXCEPT ![e] = streak[PipelineOf[e]] + 1]
    /\ verdict' = [verdict EXCEPT ![e] = "none"]
    /\ MoveTo(e, "decide")
    /\ UNCHANGED <<serveVars, drainVars, countVars>>
    /\ UNCHANGED <<quarantined, runs>>

\* ...and judge the streak it got.
Decide(e) ==
    /\ at[e] = "decide"
    /\ quarantined' = [quarantined EXCEPT ![PipelineOf[e]] = @ \/ seen[e] >= QuarantineAfter]
    /\ seen' = [seen EXCEPT ![e] = 0]
    /\ MoveTo(e, "release")
    /\ UNCHANGED <<verdict, serveVars, drainVars, countVars>>
    /\ UNCHANGED <<streak, abandonedRuns, runs, ends>>

\* Mutant: a run that ends well lifts the quarantine with the streak.
RecordOtherForgives(e) ==
    /\ at[e] = "record" /\ verdict[e] # "abandoned"
    /\ streak' = [streak EXCEPT ![PipelineOf[e]] = 0]
    /\ quarantined' = [quarantined EXCEPT ![PipelineOf[e]] = FALSE]
    /\ ends' = [ends EXCEPT ![PipelineOf[e]] = Append(@, "other")]
    /\ verdict' = [verdict EXCEPT ![e] = "none"]
    /\ MoveTo(e, "release")
    /\ UNCHANGED <<seen, serveVars, drainVars, countVars>>
    /\ UNCHANGED <<abandonedRuns, runs>>

\* Mutant: the streak is not reset.
RecordOtherKeeps(e) ==
    /\ at[e] = "record" /\ verdict[e] # "abandoned"
    /\ ends' = [ends EXCEPT ![PipelineOf[e]] = Append(@, "other")]
    /\ verdict' = [verdict EXCEPT ![e] = "none"]
    /\ MoveTo(e, "release")
    /\ UNCHANGED <<seen, serveVars, drainVars, countVars>>
    /\ UNCHANGED <<streak, abandonedRuns, quarantined, runs>>

\* record for any other run: the streak ends.
RecordOther(e) ==
    /\ at[e] = "record" /\ verdict[e] # "abandoned"
    /\ streak' = [streak EXCEPT ![PipelineOf[e]] = 0]
    /\ ends' = [ends EXCEPT ![PipelineOf[e]] = Append(@, "other")]
    /\ verdict' = [verdict EXCEPT ![e] = "none"]
    /\ MoveTo(e, "release")
    /\ UNCHANGED <<seen, serveVars, drainVars, countVars>>
    /\ UNCHANGED <<abandonedRuns, quarantined, runs>>

\* fire's deferred release: three counters, the wait group last.
ReleasePipeline(e) ==
    /\ at[e] = "release"
    /\ inflight' = [inflight EXCEPT ![PipelineOf[e]] = @ - 1]
    /\ MoveTo(e, "uncount")
    /\ UNCHANGED <<wg, total, seen, verdict, serveVars, drainVars, recordVars>>

ReleaseTotal(e) ==
    /\ at[e] = "uncount"
    /\ total' = total - 1
    /\ MoveTo(e, "leave")
    /\ UNCHANGED <<wg, inflight, seen, verdict, serveVars, drainVars, recordVars>>

ReleaseGroup(e) ==
    /\ at[e] = "leave"
    /\ wg' = wg - 1
    /\ MoveTo(e, "gone")
    /\ UNCHANGED <<total, inflight, seen, verdict, serveVars, drainVars, recordVars>>

\* Every step of fire but the run itself.
FireStep(e) ==
    \/ Values(e) \/ CheckQuarantine(e) \/ ReadLock(e) \/ RefuseDraining(e)
    \/ ClaimDrop(e) \/ ClaimLoad(e) \/ ClaimSwap(e) \/ Register(e) \/ Start(e)
    \/ RecordAbandoned(e) \/ Decide(e) \/ RecordOther(e)
    \/ ReleasePipeline(e) \/ ReleaseTotal(e) \/ ReleaseGroup(e)

-----------------------------------------------------------------------------
(* Serve.                                                                  *)

ContextDone ==
    /\ ~ctxDone
    /\ ctxDone' = TRUE
    /\ UNCHANGED <<serve, listening, accepting, adminUp, errs, failure>>
    /\ UNCHANGED <<drainVars, countVars, eventVars, recordVars>>

\* A listener fails: it cannot bind, or it stops accepting.
ListenerFails ==
    /\ serve = "serving"
    /\ \/ accepting /\ accepting' = FALSE /\ errs' = errs \cup {"webhook"} /\ UNCHANGED adminUp
       \/ adminUp /\ adminUp' = FALSE /\ errs' = errs \cup {"admin"} /\ UNCHANGED accepting
    /\ UNCHANGED <<serve, ctxDone, listening, failure>>
    /\ UNCHANGED <<drainVars, countVars, eventVars, recordVars>>

\* The select of Serve: either its context or a listener's error ends it, and
\* stopListeners follows.
BeginStop ==
    /\ serve = "serving"
    /\ \/ ctxDone /\ UNCHANGED failure
       \/ errs # {} /\ failure' = TRUE
    /\ serve' = "stopping"
    /\ UNCHANGED <<ctxDone, listening, accepting, adminUp, errs>>
    /\ UNCHANGED <<drainVars, countVars, eventVars, recordVars>>

\* shutdownServer: the webhook server's Shutdown closes its socket...
StopAccepting ==
    /\ serve = "stopping"
    /\ serve' = "shutdown"
    /\ accepting' = FALSE
    /\ UNCHANGED <<ctxDone, listening, adminUp, errs, failure>>
    /\ UNCHANGED <<drainVars, countVars, eventVars, recordVars>>

\* ...and returns when the handlers have, or after DrainTimeout.
HandlersGone ==
    /\ serve = "shutdown"
    /\ Handlers = {}
    /\ serve' = "listeners"
    /\ UNCHANGED <<ctxDone, listening, accepting, adminUp, errs, failure>>
    /\ UNCHANGED <<drainVars, countVars, eventVars, recordVars>>

ShutdownTimesOut ==
    /\ serve = "shutdown"
    /\ Handlers # {}
    /\ serve' = "listeners"
    /\ elapsed' = elapsed + 1
    /\ UNCHANGED <<ctxDone, listening, accepting, adminUp, errs, failure>>
    /\ UNCHANGED <<draining, drained, countVars, eventVars, recordVars>>

ListenersGone ==
    /\ serve = "listeners"
    /\ listening = {}
    /\ serve' = "lock"
    /\ UNCHANGED <<ctxDone, listening, accepting, adminUp, errs, failure>>
    /\ UNCHANGED <<drainVars, countVars, eventVars, recordVars>>

\* Mutant: draining is set without the lock.
BeginDrainUnlocked ==
    /\ serve = "lock"
    /\ draining' = TRUE
    /\ serve' = "drain"
    /\ UNCHANGED <<ctxDone, listening, accepting, adminUp, errs, failure>>
    /\ UNCHANGED <<drained, elapsed, countVars, eventVars, recordVars>>

\* drainRuns takes the write lock, which waits for the readers.
BeginDrain ==
    /\ serve = "lock"
    /\ EventsAt(Reading) = {}
    /\ draining' = TRUE
    /\ serve' = "drain"
    /\ UNCHANGED <<ctxDone, listening, accepting, adminUp, errs, failure>>
    /\ UNCHANGED <<drained, elapsed, countVars, eventVars, recordVars>>

RunsFinished ==
    /\ serve = "drain"
    /\ wg = 0
    /\ drained' = "clean"
    /\ serve' = "admin"
    /\ UNCHANGED <<ctxDone, listening, accepting, adminUp, errs, failure>>
    /\ UNCHANGED <<draining, elapsed, countVars, eventVars, recordVars>>

\* Mutant: the drain has no timeout.
DrainTimesOutNever == FALSE /\ UNCHANGED vars

DrainTimesOut ==
    /\ serve = "drain"
    /\ drained' = "gaveup"
    /\ elapsed' = elapsed + 1
    /\ serve' = "admin"
    /\ UNCHANGED <<ctxDone, listening, accepting, adminUp, errs, failure>>
    /\ UNCHANGED <<draining, countVars, eventVars, recordVars>>

StopAdmin ==
    /\ serve = "admin"
    /\ adminUp' = FALSE
    /\ serve' = "returned"
    /\ UNCHANGED <<ctxDone, listening, accepting, errs, failure>>
    /\ UNCHANGED <<drainVars, countVars, eventVars, recordVars>>

ServeStep ==
    \/ BeginStop \/ StopAccepting \/ HandlersGone \/ ShutdownTimesOut
    \/ ListenersGone \/ BeginDrain \/ RunsFinished \/ DrainTimesOut \/ StopAdmin

\* Serve has returned and no goroutine of an event is left.
Quiet ==
    /\ serve = "returned"
    /\ EventsAt(Positions \ {"idle", "gone"}) = {}
    /\ UNCHANGED vars

Next ==
    \/ \E e \in Events : Tick(e) \/ Request(e) \/ FireStep(e) \/ RunReturns(e)
    \/ \E p \in Pipelines : ListenerStops(p)
    \/ ContextDone \/ ListenerFails \/ ServeStep \/ Quiet

Spec == Init /\ [][Next]_vars

(* Fairness.  The Go runtime schedules every runnable goroutine and fires    *)
(* every timer, so Serve, the Listen loops and each step of fire make        *)
(* progress.  A run need not return: nothing is assumed of RunReturns.       *)
DaemonFairness ==
    /\ WF_vars(ServeStep)
    /\ \A p \in Pipelines : WF_vars(ListenerStops(p))
    /\ \A e \in Events : WF_vars(FireStep(e))

DaemonSpec == Spec /\ DaemonFairness

-----------------------------------------------------------------------------
(* Properties.                                                             *)

\* readiness, as the admin listener answers it.
Ready == adminUp /\ ~draining /\ \E p \in Pipelines : ~quarantined[p]

\* The overlap policy holds between events that arrive together: a drop
\* pipeline has one run at a time, an allow pipeline no more than its ceiling.
OverlapRespected ==
    \A p \in Pipelines :
        /\ p \in Drop => Cardinality(EventsOf(p, Claimed)) <= 1
        /\ p \notin Drop /\ MaxRuns > 0 => Cardinality(EventsOf(p, Claimed)) <= MaxRuns

\* The counters are exact whichever way events were refused or runs ended: no
\* refusal leaves a registration behind and no run releases one twice.
CountersExact ==
    /\ wg = Cardinality(EventsAt(Registered))
    /\ total = Cardinality(EventsAt(Counted))
    /\ \A p \in Pipelines : inflight[p] = Cardinality(EventsOf(p, Claimed))

\* When drainRuns reports that all runs finished, none is left anywhere and
\* none starts later: the counters a final report shows are zero for good.
CleanDrain ==
    drained = "clean" =>
        /\ EventsAt(Registered) = {}
        /\ total = 0
        /\ \A p \in Pipelines : inflight[p] = 0

\* daemon.go: a run cannot start after the drain has decided what to wait for.
\* Once draining, the wait group is only ever counted down.
RegistrationCloses == [][draining => wg' <= wg]_vars

\* The n runs of p recorded up to the k-th all abandoned a step.
AbandonedRow(p, k, n) ==
    k \in n .. Len(ends[p]) /\ \A j \in k - n + 1 .. k : ends[p][j] = "abandoned"

Deserved(p) == \E k \in 1 .. Len(ends[p]) : AbandonedRow(p, k, QuarantineAfter)

\* The quarantine is neither missed nor undeserved, although the streak is
\* lengthened, reset and judged by runs that end at the same time: a pipeline
\* is quarantined only when QuarantineAfter runs recorded one after the other
\* abandoned a step, and when that happened it is quarantined, or the goroutine
\* that recorded the last of them is about to.
QuarantineExact ==
    \A p \in Pipelines :
        /\ quarantined[p] => Deserved(p)
        /\ Deserved(p) =>
               quarantined[p] \/ \E e \in EventsOf(p, {"decide"}) : seen[e] >= QuarantineAfter

\* Events of p past the quarantine check whose run has not started.
Unstarted == Reading \cup {"rlock", "start"}
RunsEver(p) == runs[p] + Cardinality(EventsOf(p, Unstarted))

\* The quarantine flag is read before the run is registered, so runs still
\* start after it is set: only those of events that were already past the
\* check, each once, and no later run lifts the quarantine.
QuarantineBrakes ==
    [][\A p \in Pipelines : quarantined[p] =>
          quarantined'[p] /\ RunsEver(p)' <= RunsEver(p)]_vars

\* Once its context is done or a listener failed, Serve returns, whatever the
\* runs do: neither the write lock nor a wait holds it for ever.
ShutdownEnds == (ctxDone \/ errs # {}) ~> serve = "returned"

\* Every event that occurs gets its run or its refusal, and every run that
\* ends is released, during the shutdown too: the lock and the swap loop let
\* every caller of fire through, so in the end an event has not occurred, its
\* run is going on, or its goroutine is gone.
EventsAnswered == <>[](EventsAt(Positions \ {"idle", "run", "gone"}) = {})

\* daemon.go: draining lets the runs already going finish until DrainTimeout.
RunsMayFinish ==
    \A e \in Events : verdict[e] = "cancelled" => elapsed > 0

\* pipeline.md: readiness answers 503 while draining.
NotReadyWhileDraining == Ready => serve \in {"serving", "stopping"}

-----------------------------------------------------------------------------
(* The inductive invariant behind the safety properties.                   *)

\* What the counters say of each pipeline, and what a goroutine between its load
\* and its swap knows: the value it loaded was under the ceiling.
OverlapInv ==
    /\ \A p \in Pipelines :
          /\ p \in Drop => inflight[p] <= 1
          /\ p \notin Drop /\ MaxRuns > 0 => inflight[p] <= MaxRuns
    /\ \A e \in Events : at[e] = "swap" =>
          /\ PipelineOf[e] \notin Drop
          /\ MaxRuns > 0 => seen[e] < MaxRuns

\* Once draining, no goroutine is between reading the flag and registering.
DrainInv ==
    /\ draining <=> serve \in {"drain", "admin", "returned"}
    /\ draining => \A e \in Events : at[e] \notin {"swap", "claimed"}
    /\ drained = "clean" => draining /\ wg = 0
    /\ serve \in {"serving", "stopping", "shutdown"} => elapsed = 0
    /\ serve \in {"listeners", "lock", "drain"} => elapsed <= 1

\* The streak is the longest row of abandoned runs that ends with the last run
\* recorded, and what a goroutine judges was one when it was recorded.
StreakInv ==
    /\ \A p \in Pipelines :
          /\ AbandonedRow(p, Len(ends[p]), streak[p])
          /\ streak[p] < Len(ends[p]) => ends[p][Len(ends[p]) - streak[p]] = "other"
    /\ \A e \in Events : at[e] = "decide" =>
          \E k \in 1 .. Len(ends[PipelineOf[e]]) : AbandonedRow(PipelineOf[e], k, seen[e])

IInv == TypeOK /\ CountersExact /\ OverlapInv /\ DrainInv /\ StreakInv /\ QuarantineExact
=============================================================================
