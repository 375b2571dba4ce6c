--------------------------------- MODULE Calls ---------------------------------
(***************************************************************************)
(* One step that leaves the process, under runStep's retries: exec, which  *)
(* runs a program, or http.request, which makes a call.  The step sees the *)
(* execution's context and has a timeout of its own; programs, servers and *)
(* resolvers do what they like, when they like or never.  os/exec and      *)
(* net/http are modelled from how the two nodes use them.                  *)
(***************************************************************************)
EXTENDS Integers, FiniteSets

CONSTANTS
    Steps,        \* step configurations, see IsStep
    MaxAttempts,  \* retry.max_attempts
    MaxInt,       \* the largest int64
    MaxBody,      \* the longest response body, a bound
    MaxRedirects, \* maxRedirects
    Addresses,    \* what host names resolve to
    Internal      \* those blockedDestination refuses

IsStep(s) ==
    /\ s.kind \in {"exec", "http"}
    /\ s.timed \in BOOLEAN          \* has a timeout of its own
    /\ s.usable \in BOOLEAN         \* the Command has a name, the Request a URL
    /\ s.guarded \in BOOLEAN        \* allow_private is not set
    /\ s.limit \in 1 .. MaxInt      \* max_body_bytes

ASSUME CallsAssumption ==
    /\ \A s \in Steps : IsStep(s) /\ (s.kind = "http" => s.timed)
    /\ MaxAttempts \in Nat \ {0} /\ MaxInt \in Nat \ {0} /\ MaxBody \in 0 .. MaxInt
    /\ MaxRedirects \in Nat \ {0} /\ Internal \subseteq Addresses

VARIABLES
    step,     \* the step's configuration
    ctx,      \* the execution's context: live, cancelled or past its deadline
    doing,    \* where the step is
    attempt,
    own,      \* this attempt's own timeout has passed
    proc,     \* the child process: its state and exit code
    held,     \* another process holds the output pipe
    cut,      \* WaitDelay has passed and the pipe was closed
    hops,     \* requests sent for this call
    dialled,  \* addresses connected to
    size,     \* length of the response body
    result    \* the attempt's result

world == <<proc, held, cut, hops, dialled, size>>
callVars == <<step, ctx, doing, attempt, own, world, result>>

None == [kind |-> "none", code |-> "", value |-> 0]
Ok(v) == [kind |-> "ok", code |-> "", value |-> v]
Fail(kind, code) == [kind |-> kind, code |-> code, value |-> 0]
Retryable(r) == r.kind = "transient"

NoProc == [state |-> "none", exit |-> 0, killed |-> FALSE]

CallInit ==
    /\ step \in Steps
    /\ ctx = "live" /\ doing = "idle" /\ attempt = 0 /\ own = FALSE
    /\ proc = NoProc /\ held = FALSE /\ cut = FALSE
    /\ hops = 0 /\ dialled = {} /\ size = 0 /\ result = None

\* The context a call runs under: the execution's, or its own timeout.
InnerDone == ctx # "live" \/ own

\* node.Normalize of the context's error.
Cancellation == Fail("cancelled", IF ctx = "deadline" THEN "deadline_exceeded" ELSE "cancelled")

Return(r) == doing' = "returned" /\ result' = r

-----------------------------------------------------------------------------
(* exec.                                                                   *)

\* Mutant: the command's own context is consulted first.
ClassifyInner(err) ==
    IF InnerDone THEN Fail("transient", "timeout")
    ELSE IF err = "exit" THEN Ok(proc.exit)
    ELSE IF err = "absent" THEN Fail("permanent", "not_found")
    ELSE Fail("permanent", "start_failed")

\* What a failed Run means, the execution's context first.
Classify(err) ==
    IF ctx # "live" THEN Cancellation
    ELSE IF own THEN Fail("transient", "timeout")
    ELSE IF err = "exit" THEN Ok(proc.exit)
    ELSE IF err = "absent" THEN Fail("permanent", "not_found")
    ELSE Fail("permanent", "start_failed")

\* Start: refused, failed, or a process runs.
StartProcess ==
    /\ doing = "calling" /\ step.kind = "exec"
    /\ \/ ~step.usable /\ Return(Fail("invalid_input", "no_command")) /\ UNCHANGED proc
       \/ /\ step.usable
          /\ \E err \in IF InnerDone THEN {"context"} ELSE {"absent", "refused"} : Return(Classify(err))
          /\ UNCHANGED proc
       \/ /\ step.usable /\ ~InnerDone
          /\ doing' = "waiting" /\ proc' = [NoProc EXCEPT !.state = "running"]
          /\ UNCHANGED result
    /\ UNCHANGED <<step, ctx, attempt, own, held, cut, hops, dialled, size>>

\* The program leaves a background process that keeps its output open; that
\* process may end, or not.
Backgrounds == held' = TRUE /\ proc.state = "running" /\ ~held /\ UNCHANGED proc
Releases == held' = FALSE /\ held /\ ~cut /\ UNCHANGED proc
\* It ends by itself or by a signal from elsewhere.
Exits ==
    /\ proc.state = "running"
    /\ \E code \in {-1, 0, 1} : proc' = [proc EXCEPT !.state = "exited", !.exit = code]
    /\ UNCHANGED held
ProgramStep ==
    /\ Backgrounds \/ Releases \/ Exits
    /\ UNCHANGED <<step, ctx, doing, attempt, own, cut, hops, dialled, size, result>>

\* CommandContext kills the process when its context ends; the signal may reach
\* one that has just ended, and Wait then reports the context all the same.
Kill ==
    /\ doing = "waiting" /\ InnerDone /\ ~proc.killed
    /\ proc' = [state |-> "exited", killed |-> TRUE,
                exit |-> IF proc.state = "running" THEN -1 ELSE proc.exit]
    /\ UNCHANGED <<step, ctx, doing, attempt, own, held, cut, hops, dialled, size, result>>

\* WaitDelay passes after the process ended: the pipe is closed under its holder.
GraceEnds ==
    /\ doing = "waiting" /\ proc.state = "exited" /\ held /\ ~cut
    /\ cut' = TRUE
    /\ UNCHANGED <<step, ctx, doing, attempt, own, proc, held, hops, dialled, size, result>>

\* Mutant: without WaitDelay the wait lasts as long as the pipe is open.
WaitReturnsUnbounded ==
    /\ doing = "waiting" /\ proc.state = "exited" /\ ~held
    /\ Return(IF proc.exit # 0 THEN Classify("exit")
              ELSE IF proc.killed THEN Classify("context") ELSE Ok(0))
    /\ UNCHANGED <<step, ctx, attempt, own, world>>

\* Wait returns: the process ended and its output is closed.  A non-zero exit
\* is preferred to the context's error, and that to a pipe cut short.
WaitReturns ==
    /\ doing = "waiting" /\ proc.state = "exited" /\ (held => cut)
    /\ Return(IF proc.exit # 0 THEN Classify("exit")
              ELSE IF proc.killed THEN Classify("context")
              ELSE IF held THEN Classify("delay") ELSE Ok(0))
    /\ UNCHANGED <<step, ctx, attempt, own, world>>

-----------------------------------------------------------------------------
(* http.request.                                                           *)

\* transportError: the execution's context, a timeout, anything else.
TransportError(timeout) ==
    IF ctx # "live" THEN Cancellation
    ELSE Fail("transient", IF timeout THEN "timeout" ELSE "transport")

\* build: a method or URL that makes no request is refused before anything is
\* sent, and so is the zero CheckedURL, which has no scheme.
BuildRequest ==
    /\ doing = "calling" /\ step.kind = "http"
    /\ IF step.usable
         THEN doing' = "dialling" /\ UNCHANGED result
         ELSE \E code \in {"invalid_request", "unsupported_scheme"} : Return(Fail("permanent", code))
    /\ UNCHANGED <<step, ctx, attempt, own, world>>

\* controlDestination, installed in the transport a step without allow_private
\* uses.
Blocked(a) == step.guarded /\ a \in Internal

\* The dialer resolves the host, anew on every hop, and the transport's Control
\* hook judges the address it is about to connect to.
Dial(a) ==
    /\ doing = "dialling" /\ ~InnerDone
    /\ IF Blocked(a)
         THEN Return(TransportError(FALSE)) /\ UNCHANGED <<hops, dialled>>
         ELSE /\ doing' = "sent" /\ hops' = hops + 1 /\ dialled' = dialled \cup {a}
              /\ UNCHANGED result
    /\ UNCHANGED <<step, ctx, attempt, own, proc, held, cut, size>>

\* The server redirects; checkRedirect stops a long chain or a strange scheme.
Redirect ==
    /\ doing = "sent" /\ ~InnerDone
    /\ \E web \in BOOLEAN :
          IF hops >= MaxRedirects \/ ~web
            THEN Return(TransportError(FALSE))
            ELSE doing' = "dialling" /\ UNCHANGED result
    /\ UNCHANGED <<step, ctx, attempt, own, world>>

\* The server answers, with a body of some length.
Respond ==
    /\ doing = "sent" /\ ~InnerDone
    /\ doing' = "reading" /\ size' \in 0 .. MaxBody
    /\ UNCHANGED <<step, ctx, attempt, own, proc, held, cut, hops, dialled, result>>

\* No response: the connection fails or a timeout of the transport passes.
ConnectionFails ==
    /\ doing \in {"dialling", "sent"} /\ ~InnerDone
    /\ \E timeout \in BOOLEAN : Return(TransportError(timeout))
    /\ UNCHANGED <<step, ctx, attempt, own, world>>

\* The call's context ends it while nothing has come back.
CallInterrupted ==
    /\ doing \in {"dialling", "sent"} /\ InnerDone
    /\ Return(TransportError(TRUE))
    /\ UNCHANGED <<step, ctx, attempt, own, world>>

\* int64 addition.
Wrap(n) == IF n > MaxInt THEN n - 2 * (MaxInt + 1) ELSE n

\* A LimitedReader given the limit plus one: a body that leaves it nothing is
\* one byte too long at least, and a reader that may read nothing ends at once.
BodyRead ==
    LET quota == Wrap(step.limit + 1)
        read == IF quota <= 0 THEN 0 ELSE IF size < quota THEN size ELSE quota
    IN  /\ doing = "reading"
        /\ Return(IF quota - read = 0 THEN Fail("permanent", "body_too_large") ELSE Ok(read))
        /\ UNCHANGED <<step, ctx, attempt, own, world>>

\* Reading fails, of the connection or of the call's context.
BodyFails ==
    /\ doing = "reading"
    /\ Return(IF ctx # "live" THEN Cancellation ELSE Fail("transient", "body_read"))
    /\ UNCHANGED <<step, ctx, attempt, own, world>>

-----------------------------------------------------------------------------
(* runStep: attempts, timers and the execution's context.                  *)

Attempt(n) ==
    /\ attempt' = n /\ doing' = "calling" /\ own' = FALSE /\ result' = None
    /\ proc' = NoProc /\ held' = FALSE /\ cut' = FALSE
    /\ hops' = 0 /\ dialled' = {} /\ size' = 0
    /\ UNCHANGED <<step, ctx>>

\* Success, a failure no retry can help, or the last attempt is final.
Judge ==
    /\ doing = "returned"
    /\ doing' = IF Retryable(result) /\ attempt < MaxAttempts THEN "backoff" ELSE "done"
    /\ UNCHANGED <<step, ctx, attempt, own, world, result>>

\* wait: the backoff ends or the context does, and when both have, either.
Retry == doing = "backoff" /\ Attempt(attempt + 1)
BackoffInterrupted ==
    /\ doing = "backoff" /\ ctx # "live"
    /\ doing' = "done" /\ result' = Cancellation
    /\ UNCHANGED <<step, ctx, attempt, own, world>>

OwnTimeout ==
    /\ step.timed /\ ~own /\ doing \in {"calling", "waiting", "dialling", "sent", "reading"}
    /\ own' = TRUE
    /\ UNCHANGED <<step, ctx, doing, attempt, world, result>>

\* What the node, the standard library and the executor do.
NodeStep ==
    \/ StartProcess \/ Kill \/ GraceEnds \/ WaitReturns
    \/ BuildRequest \/ CallInterrupted \/ (InnerDone /\ BodyFails)
    \/ Judge \/ Retry \/ BackoffInterrupted
    \/ OwnTimeout

\* What programs, servers and resolvers may do.
WorldStep ==
    \/ ProgramStep
    \/ (\E a \in Addresses : Dial(a))
    \/ Redirect \/ Respond \/ ConnectionFails \/ BodyRead \/ BodyFails

-----------------------------------------------------------------------------
(* Properties.                                                             *)

\* The command ended well, and what held it back was its output: WaitDelay cut
\* the pipe that a background process kept open.
OutputHeld ==
    proc.state = "exited" /\ proc.exit = 0 /\ ~proc.killed /\ held /\ cut

\* The step ends an attempt.
Returning == doing # "returned" /\ doing' = "returned"

\* What the step that ends an attempt reports.
TruthfulReturn ==
    Returning =>
        /\ IF ctx = "live" THEN result'.kind # "cancelled" ELSE ~Retryable(result')
        /\ step.kind = "exec" =>
              /\ result'.code = "timeout" => own
              /\ result'.code = "not_found" => proc.state = "none"
              /\ result'.code = "start_failed" => proc.state = "none" \/ OutputHeld
              /\ result'.kind = "ok" =>
                    proc.state = "exited" /\ ~proc.killed /\ result'.value = proc.exit
        /\ step.kind = "http" =>
              /\ result'.code = "body_too_large" => size > step.limit
              /\ result'.kind = "ok" =>
                    /\ size <= step.limit
                    /\ result'.value = IF step.limit < MaxInt THEN size ELSE 0

\* A result says what happened, which is what policy acts on.  An attempt that
\* ends after its execution did is never reported as worth retrying, and none is
\* reported cancelled before; a command is reported timed out, with its exit
\* code or as not found only when it was; a body handed on is whole and within
\* the limit, and one refused is over it; a guarded step never connects to an
\* internal address, and no call sends more than MaxRedirects requests.
\* Two results say something else than pipeline.md, and here exactly when they
\* do: start_failed is a command that was not started or OutputHeld (see
\* StartFailedMeansNotStarted), and a limit of the largest integer overflows
\* and hands on an empty body whatever was sent.
ResultTruthful ==
    [][ /\ TruthfulReturn
        /\ step.guarded => dialled' \cap Internal = {}
        /\ hops' <= MaxRedirects ]_callVars

\* pipeline.md on start_failed: the process could not be started; exec.go: a node
\* error means that the process never ran, or was killed.
StartFailedMeansNotStarted ==
    [][Returning /\ result'.code = "start_failed" => proc.state = "none"]_callVars

\* Timeouts bound something: once a step has a timeout of its own, or its
\* execution is over, it returns in the end, whatever the program or the server
\* does, and whatever a background process keeps open.
StepReturns == attempt > 0 /\ (step.timed \/ ctx # "live") ~> doing = "done"

-----------------------------------------------------------------------------
(* What ResultTruthful needs to be inductive.                              *)

Doings ==
    {"idle", "calling", "waiting", "dialling", "sent", "reading", "returned", "backoff", "done"}
CallCodes ==
    {"cancelled", "deadline_exceeded", "timeout", "not_found", "start_failed", "no_command",
     "transport", "invalid_request", "unsupported_scheme", "body_too_large", "body_read"}

CallTypeOK ==
    /\ step \in Steps /\ doing \in Doings /\ attempt \in Nat
    /\ ctx \in {"live", "cancelled", "deadline"}
    /\ own \in BOOLEAN /\ held \in BOOLEAN /\ cut \in BOOLEAN
    /\ proc \in [state : {"none", "running", "exited"}, exit : Int, killed : BOOLEAN]
    /\ hops \in Nat /\ dialled \subseteq Addresses /\ size \in 0 .. MaxBody

\* Where a step can be says what it is and what it has done: an attempt begins
\* with nothing run and nothing sent, only a command waits for a process, and
\* only a call is anywhere between dialling and reading.
PlaceInv ==
    /\ doing = "calling" => proc = NoProc /\ hops = 0
    /\ doing = "waiting" => step.kind = "exec"
    /\ doing \in {"dialling", "sent", "reading"} => step.kind = "http"

\* Only an ended context kills, so a killed process never looks like one that
\* failed to start.
KillInv == proc.killed => InnerDone

\* What the dialer and checkRedirect keep, hop after hop.
HopInv ==
    /\ step.guarded => dialled \cap Internal = {}
    /\ hops <= MaxRedirects
    /\ doing = "dialling" => hops < MaxRedirects

\* What runStep and the run are told: a step that returned has a result, one of
\* the nodes' own, and it is cancelled only when the execution is over.
ResultInv ==
    /\ doing \in {"returned", "backoff", "done"} => result.kind # "none"
    /\ result.kind \in {"none", "ok"} \/ result.code \in CallCodes
    /\ result.kind = "cancelled" => ctx # "live"

CallInv == CallTypeOK /\ PlaceInv /\ KillInv /\ HopInv /\ ResultInv
=============================================================================
