--------------------------------- MODULE Event ---------------------------------
(***************************************************************************)
(* One webhook request, end to end: the trigger's configuration, the body  *)
(* read under its cap, the signature, admission, a run of one step that    *)
(* Calls describes, and the status that answers.  Daemon models admission, *)
(* Scheduler the run; here each is what it may tell the handler.           *)
(***************************************************************************)
EXTENDS Calls

CONSTANTS
    Scenarios,   \* a trigger.webhook `with` block, a request and a step each
    DefaultMax   \* DefaultMaxBodyBytes

\* A body is known by its length, a signature by the length of the body it was
\* computed over with the right secret, -1 for any other.
IsRequest(r) ==
    /\ r.sent \in 0 .. MaxInt         \* bytes of the body
    /\ r.broken \in BOOLEAN           \* the connection fails after them
    /\ r.header \in {"", "bare", "prefixed"}
    /\ r.signs \in -1 .. MaxInt
    /\ r.leaves \in BOOLEAN           \* the client may go away

IsHook(h) ==
    /\ h.maxBody \in -(MaxInt + 1) .. MaxInt       \* max_body, an int64
    /\ h.auth.on \in BOOLEAN /\ h.auth.prefixed \in BOOLEAN

ASSUME EventAssumption ==
    /\ \A s \in Scenarios : IsHook(s.hook) /\ IsRequest(s.request) /\ s.step \in Steps
    /\ DefaultMax \in 1 .. MaxInt

VARIABLES
    hook,     \* the trigger's configuration
    limit,    \* webhook.maxBody
    request,
    secret,   \* the environment variable holds a secret
    stage,    \* where the handler is
    body,     \* bytes read of the body
    started,  \* a run was started
    failure,  \* Outcome.Err, or the error of Values
    status    \* the HTTP status, 0 before

eventVars == <<hook, limit, request, secret, stage, body, started, failure, status>>
vars == <<callVars, eventVars>>

Init ==
    /\ \E s \in Scenarios : hook = s.hook /\ request = s.request /\ step = s.step
    /\ secret \in BOOLEAN
    /\ limit = 0 /\ stage = "config" /\ body = 0 /\ started = FALSE
    /\ failure = None /\ status = 0
    /\ CallInit

-----------------------------------------------------------------------------
(* The trigger.                                                            *)

\* authConfig.compile.
AuthCompiles(a) == a.on => a.scheme = "hmac-sha256" /\ a.header # "" /\ a.secretEnv # ""

\* newWebhook: a configuration that compiles, and its cap.
NewWebhook ==
    /\ stage = "config"
    /\ IF /\ hook.path = "absolute"
          /\ hook.method \in {"", "known"}
          /\ hook.maxBody >= 0
          /\ AuthCompiles(hook.auth)
         THEN stage' = "reading" /\ limit' = IF hook.maxBody = 0 THEN DefaultMax ELSE hook.maxBody
         ELSE stage' = "uncompiled" /\ UNCHANGED limit
    /\ UNCHANGED <<callVars, hook, request, secret, body, started, failure, status>>

Reject(err) == stage' = "failed" /\ failure' = err

\* Mutant: the reader is given the limit itself.
ReadBodyExact ==
    LET read == IF request.sent < limit THEN request.sent ELSE limit
    IN  /\ stage = "reading"
        /\ IF request.broken /\ read < limit
             THEN Reject(Fail("invalid_input", "body_unreadable")) /\ UNCHANGED body
             ELSE stage' = "verifying" /\ body' = read /\ UNCHANGED failure
        /\ UNCHANGED <<callVars, hook, limit, request, secret, started, status>>

\* Values: at most one byte more than the cap is read, and an error beyond that
\* is never met.
ReadBody ==
    LET quota == Wrap(limit + 1)
        read == IF quota <= 0 THEN 0 ELSE IF request.sent < quota THEN request.sent ELSE quota
    IN  /\ stage = "reading"
        /\ IF request.broken /\ read < quota
             THEN Reject(Fail("invalid_input", "body_unreadable")) /\ UNCHANGED body
           ELSE IF read > limit
             THEN Reject(Fail("invalid_input", "body_too_large")) /\ UNCHANGED body
           ELSE stage' = "verifying" /\ body' = read /\ UNCHANGED failure
        /\ UNCHANGED <<callVars, hook, limit, request, secret, started, status>>

\* verify: a missing secret is the daemon's fault, anything else the caller's.
Verify ==
    /\ stage = "verifying"
    /\ IF ~hook.auth.on THEN stage' = "admitting" /\ UNCHANGED failure
       ELSE IF ~secret THEN Reject(Fail("internal", "secret_unset"))
       ELSE IF /\ request.header # ""
               /\ hook.auth.prefixed => request.header = "prefixed"
               /\ ~hook.auth.prefixed => request.header = "bare"
               /\ request.signs = body
         THEN stage' = "admitting" /\ UNCHANGED failure
       ELSE Reject(Fail("permanent", "unauthorized"))
    /\ UNCHANGED <<callVars, hook, limit, request, secret, body, started, status>>

-----------------------------------------------------------------------------
(* The run.                                                                *)

Refusals ==
    {Fail("permanent", "quarantined")}
    \cup {Fail("transient", c) : c \in {"draining", "overlapped", "at_capacity"}}

\* admit refuses.
Refused ==
    /\ stage = "admitting"
    /\ \E err \in Refusals : Reject(err)
    /\ UNCHANGED <<callVars, hook, limit, request, secret, body, started, status>>

\* fire: the run starts, and with it its step.
Fire ==
    /\ stage = "admitting"
    /\ stage' = "running" /\ started' = TRUE
    /\ Attempt(1)
    /\ UNCHANGED <<hook, limit, request, secret, body, failure, status>>

\* The step finished and its completion is what Run handles first.
RunFinishes ==
    /\ stage = "running" /\ doing = "done"
    /\ IF result.kind = "ok" THEN stage' = "responding" /\ UNCHANGED failure ELSE Reject(result)
    /\ UNCHANGED <<callVars, hook, limit, request, secret, body, started, status>>

\* Run notices its context first and reports Cancelled, once the step has
\* returned or been abandoned.
RunCancelled ==
    /\ stage = "running" /\ ctx # "live"
    /\ Reject(Fail("cancelled", "cancelled"))
    /\ UNCHANGED <<callVars, hook, limit, request, secret, body, started, status>>

\* The client goes away, or the trigger's timeout passes during the run.
ContextEnds ==
    /\ ctx = "live"
    /\ \/ request.leaves /\ stage \notin {"config", "uncompiled", "answered"} /\ ctx' = "cancelled"
       \/ hook.timed /\ stage = "running" /\ ctx' = "deadline"
    /\ UNCHANGED <<eventVars, step, doing, attempt, own, world, result>>

-----------------------------------------------------------------------------
(* The answer.                                                             *)

\* Mutant: a refused signature is an error like any other.
StatusForKind(err) ==
    IF err.code \in {"overlapped", "at_capacity"} THEN 429
    ELSE IF err.code \in {"quarantined", "draining"} THEN 503
    ELSE IF err.kind = "cancelled" THEN 504
    ELSE IF err.kind = "invalid_input" THEN 400
    ELSE 500

\* statusFor: codes of the daemon's own first, then kinds, in this order.
StatusFor(err) ==
    IF err.code = "unauthorized" THEN 401
    ELSE IF err.code \in {"overlapped", "at_capacity"} THEN 429
    ELSE IF err.code \in {"quarantined", "draining"} THEN 503
    ELSE IF err.kind = "cancelled" THEN 504
    ELSE IF err.kind = "invalid_input" THEN 400
    ELSE 500

\* handle: an error's status, or the response.
Answer ==
    /\ stage \in {"failed", "responding"}
    /\ stage' = "answered"
    /\ status' = IF stage = "failed" THEN StatusFor(failure) ELSE 200
    /\ UNCHANGED <<callVars, hook, limit, request, secret, body, started, failure>>

\* handle recovers a panic in Values or Respond and answers all the same.
HandlerPanics ==
    /\ stage \in {"reading", "verifying", "responding"}
    /\ Reject(Fail("internal", "panic"))
    /\ UNCHANGED <<callVars, hook, limit, request, secret, body, started, status>>

\* An abandoned step goes on after the answer.
Settled == stage \in {"uncompiled", "answered"} /\ UNCHANGED vars
Running == (NodeStep \/ WorldStep) /\ UNCHANGED eventVars

HandlerStep ==
    NewWebhook \/ ReadBody \/ Verify \/ Refused \/ Fire \/ RunFinishes \/ RunCancelled \/ Answer

Next == HandlerStep \/ HandlerPanics \/ Running \/ ContextEnds \/ Settled

\* Timers fire and runnable goroutines run.  Nothing is assumed of programs,
\* servers, clients or background processes.
Fairness ==
    /\ WF_vars(HandlerStep)
    /\ WF_vars(NodeStep /\ UNCHANGED eventVars)

Spec == Init /\ [][Next]_vars /\ Fairness

-----------------------------------------------------------------------------
(* Properties.                                                             *)

Readable == ~request.broken /\ request.sent <= limit
Authentic ==
    /\ request.header = (IF hook.auth.prefixed THEN "prefixed" ELSE "bare")
    /\ request.signs = request.sent

\* The status tells the caller what became of the event.  200 is a run that
\* finished well and 504 one its context cut short, and only those; 401, 429
\* and 503 ran nothing.  A body over the cap or cut off is a 400 that ran
\* nothing, and a readable request is refused with 401 exactly when the route
\* authenticates, has its secret, and the signature is not over what was sent.
StatusTruthful ==
    stage = "answered" =>
        /\ status \in {401, 429, 503} => ~started
        /\ status = 200 <=> started /\ failure = None
        /\ status = 504 => started /\ ctx # "live"
        /\ limit < MaxInt /\ failure.code # "panic" =>
              /\ ~Readable => status = 400 /\ ~started
              /\ Readable => (status = 401 <=> hook.auth.on /\ secret /\ ~Authentic)

\* Nothing runs on a body the sender did not send or did not sign: a run was
\* started only on the whole body, within the cap, and, on a route that
\* authenticates, only on a signature over exactly those bytes.  The one other
\* body a run gets is the empty one of a cap that overflows, the largest integer.
RunsOnWhatWasSent ==
    started =>
        /\ body <= limit
        /\ IF limit < MaxInt THEN body = request.sent /\ ~request.broken ELSE body = 0
        /\ hook.auth.on => secret /\ request.header # "" /\ request.signs = body

-----------------------------------------------------------------------------
(* What they need to be inductive: every stage of the handler carries what *)
(* the stages before it established.                                       *)

Stages ==
    {"config", "uncompiled", "reading", "verifying", "admitting", "running", "responding",
     "failed", "answered"}

EventTypeOK ==
    /\ IsHook(hook) /\ IsRequest(request)
    /\ secret \in BOOLEAN /\ started \in BOOLEAN
    /\ stage \in Stages /\ limit \in 0 .. MaxInt /\ body \in Nat

\* What ReadBody hands on.
BodyKept ==
    /\ body <= limit
    /\ IF limit < MaxInt THEN body = request.sent /\ ~request.broken ELSE body = 0

\* What Verify lets through.
SignedBy ==
    /\ request.header = (IF hook.auth.prefixed THEN "prefixed" ELSE "bare")
    /\ request.signs = body
Verified == hook.auth.on => secret /\ SignedBy

PathInv ==
    /\ stage \notin {"config", "uncompiled"} => limit >= 1
    /\ stage = "verifying" => BodyKept
    /\ stage = "admitting" \/ started => BodyKept /\ Verified
    /\ started => stage \in {"running", "responding", "failed", "answered"}
    /\ stage \in {"running", "responding"} => started

\* Why the event failed, one disjunct for each step that can reject it.
Cause ==
    \/ /\ ~started /\ ~Readable /\ failure.kind = "invalid_input"
       /\ failure.code \in {"body_unreadable", "body_too_large"}
    \/ failure = Fail("internal", "panic")
    \/ ~started /\ BodyKept /\ hook.auth.on /\ ~secret /\ failure = Fail("internal", "secret_unset")
    \/ /\ ~started /\ BodyKept /\ hook.auth.on /\ secret /\ ~SignedBy
       /\ failure = Fail("permanent", "unauthorized")
    \/ ~started /\ BodyKept /\ Verified /\ failure \in Refusals
    \/ /\ started /\ failure.kind \notin {"none", "ok"} /\ failure.code \in CallCodes
       /\ failure.kind = "cancelled" => ctx # "live"

FailureInv ==
    /\ stage \notin {"failed", "answered"} => failure = None
    /\ stage = "failed" => Cause
    /\ stage = "answered" =>
          \/ started /\ failure = None /\ status = 200
          \/ Cause /\ status = StatusFor(failure)

EventInv == CallInv /\ EventTypeOK /\ PathInv /\ FailureInv
=============================================================================
