------------------------------ MODULE EventProofs ------------------------------
(***************************************************************************)
(* Proofs about Event and the step it runs, for every configuration,       *)
(* request, step and limit: EventInv is an inductive invariant, and with   *)
(* it what a run was given, what the answer says and what a result means.  *)
(***************************************************************************)
EXTENDS Event, TLAPS

-----------------------------------------------------------------------------
(* The step.                                                               *)

\* A step's configuration is what IsStep says.
LEMMA StepKind ==
  ASSUME CallTypeOK
  PROVE  IsStep(step)
BY CallsAssumption DEF CallTypeOK

\* What a failed command is reported as, from its error and the contexts.
LEMMA ClassifyIs ==
  ASSUME CallTypeOK, NEW err \in {"exit", "absent", "refused", "context", "delay"}
  PROVE  /\ Classify(err).kind \in {"cancelled", "transient", "permanent", "ok"}
         /\ Classify(err).kind = "ok" => err = "exit" /\ ~InnerDone /\ Classify(err) = Ok(proc.exit)
         /\ Classify(err).kind # "ok" => Classify(err).code \in CallCodes
         /\ Classify(err).kind = "cancelled" <=> ctx # "live"
         /\ Classify(err).kind = "transient" => ctx = "live"
         /\ Classify(err).code = "timeout" => own
         /\ Classify(err).code = "not_found" => err = "absent"
         /\ Classify(err).code = "start_failed" => ~InnerDone /\ err \notin {"exit", "absent"}
BY DEF CallTypeOK, Classify, Cancellation, Fail, Ok, InnerDone, CallCodes

\* What a failed call is reported as.
LEMMA TransportErrorIs ==
  ASSUME NEW timeout \in BOOLEAN
  PROVE  /\ TransportError(timeout).kind \in {"cancelled", "transient"}
         /\ TransportError(timeout).code \in CallCodes \ {"body_too_large"}
         /\ TransportError(timeout).kind = "cancelled" <=> ctx # "live"
BY DEF TransportError, Cancellation, Fail, CallCodes

\* What a cancellation is reported as.
LEMMA CancellationIs ==
  Cancellation.kind = "cancelled" /\ Cancellation.code \in CallCodes
BY DEF Cancellation, Fail, CallCodes

\* An attempt begins clean, whatever went before.
LEMMA AttemptKeepsCallInv ==
  ASSUME CallInv, NEW n \in Nat, Attempt(n)
  PROVE  CallInv'
<1> USE CallsAssumption DEF CallInv, Attempt
<1>1. CallTypeOK'
  <2>1. NoProc \in [state : {"none", "running", "exited"}, exit : Int, killed : BOOLEAN]
    BY DEF NoProc
  <2>2. 0 \in 0 .. MaxBody
    BY CallsAssumption
  <2> QED
    BY <2>1, <2>2 DEF CallTypeOK, Doings
<1>2. PlaceInv'
  BY DEF PlaceInv
<1>3. KillInv'
  BY DEF KillInv, NoProc
<1>4. HopInv'
  BY DEF HopInv
<1>5. ResultInv'
  BY DEF ResultInv, None
<1> QED
  BY <1>1, <1>2, <1>3, <1>4, <1>5

\* The program and its background process do what they like, and a process that
\* has not been started does nothing.
LEMMA ProgramKeepsCallInv ==
  ASSUME CallInv, ProgramStep
  PROVE  CallInv'
<1>1. CASE Backgrounds \/ Releases
  <2>1. held' \in BOOLEAN
    BY <1>1 DEF Backgrounds, Releases
  <2>2. UNCHANGED <<step, ctx, doing, attempt, own, proc, cut, hops, dialled, size, result>>
    BY <1>1 DEF ProgramStep, Backgrounds, Releases
  <2>3. CallTypeOK'
    BY <2>1, <2>2 DEF CallInv, CallTypeOK
  <2>4. PlaceInv' /\ KillInv' /\ HopInv' /\ ResultInv'
    BY <2>2 DEF CallInv, PlaceInv, KillInv, InnerDone, HopInv, ResultInv
  <2> QED
    BY <2>3, <2>4 DEF CallInv
<1>2. CASE Exits
  <2>1. PICK code \in {-1, 0, 1} : proc' = [proc EXCEPT !.state = "exited", !.exit = code]
    BY <1>2 DEF Exits
  <2>2. proc.state = "running" /\ UNCHANGED <<step, ctx, doing, attempt, own, held, cut, hops, dialled, size, result>>
    BY <1>2 DEF Exits, ProgramStep
  <2>3. CallTypeOK'
    <3>1. code \in Int
      OBVIOUS
    <3>2. proc' \in [state : {"none", "running", "exited"}, exit : Int, killed : BOOLEAN]
      BY <2>1, <3>1 DEF CallInv, CallTypeOK
    <3> QED
      BY <2>2, <3>2 DEF CallInv, CallTypeOK
  <2>4. doing # "calling"
    BY <2>2 DEF CallInv, PlaceInv, NoProc
  <2>5. PlaceInv' /\ HopInv' /\ ResultInv'
    BY <2>2, <2>4 DEF CallInv, PlaceInv, HopInv, ResultInv
  <2>6. KillInv'
    BY <2>1, <2>2 DEF CallInv, CallTypeOK, KillInv, InnerDone
  <2> QED
    BY <2>3, <2>5, <2>6 DEF CallInv
<1> QED
  BY <1>1, <1>2 DEF ProgramStep

\* A step that returns keeps the invariant when its result is one of the nodes'
\* own: nothing but the place and the result changes.
LEMMA ReturnKeepsCallInv ==
  ASSUME CallInv, NEW r, Return(r), UNCHANGED <<step, ctx, attempt, own, world>>,
         r.kind # "none", r.kind = "ok" \/ r.code \in CallCodes,
         r.kind = "cancelled" => ctx # "live"
  PROVE  CallInv'
<1> USE DEF CallInv, Return, world
<1>1. CallTypeOK'
  BY DEF CallTypeOK, Doings
<1>2. PlaceInv'
  BY DEF PlaceInv
<1>3. KillInv'
  BY DEF KillInv, InnerDone
<1>4. HopInv'
  BY DEF HopInv
<1>5. ResultInv'
  BY DEF ResultInv
<1> QED
  BY <1>1, <1>2, <1>3, <1>4, <1>5

\* A step that moves on keeps the invariant when the place it reaches suits it.
LEMMA MoveKeepsCallInv ==
  ASSUME CallInv, UNCHANGED <<step, ctx, attempt, own, world, result>>,
         doing' \in Doings \ {"calling"},
         doing' = "waiting" => step.kind = "exec",
         doing' \in {"dialling", "sent", "reading"} => step.kind = "http",
         doing' = "dialling" => hops < MaxRedirects,
         doing' \in {"returned", "backoff", "done"} => result.kind # "none"
  PROVE  CallInv'
<1> USE DEF CallInv, world
<1>1. CallTypeOK'
  BY DEF CallTypeOK, Doings
<1>2. PlaceInv'
  BY DEF PlaceInv
<1>3. KillInv'
  BY DEF KillInv, InnerDone
<1>4. HopInv'
  BY DEF HopInv
<1>5. ResultInv'
  BY DEF ResultInv
<1> QED
  BY <1>1, <1>2, <1>3, <1>4, <1>5

-----------------------------------------------------------------------------
(* Every step of a command or a call.                                      *)

\* A command starts, or is reported as never having.
LEMMA StartKeeps ==
  ASSUME CallInv, StartProcess
  PROVE  CallInv' /\ TruthfulReturn
<1> USE DEF CallInv
<1>1. CASE ~step.usable /\ Return(Fail("invalid_input", "no_command")) /\ UNCHANGED proc
  <2> DEFINE r == Fail("invalid_input", "no_command")
  <2>1. r.kind = "invalid_input" /\ r.code = "no_command" /\ r.code \in CallCodes
    BY DEF Fail, CallCodes
  <2>2. UNCHANGED <<step, ctx, attempt, own, world>>
    BY <1>1 DEF StartProcess, world
  <2>3. CallInv'
    BY <1>1, <2>1, <2>2, ReturnKeepsCallInv
  <2>4. TruthfulReturn
    BY <1>1, <2>1 DEF Returning, TruthfulReturn, Return, Retryable, StartProcess
  <2> QED
    BY <2>3, <2>4
<1>2. CASE /\ step.usable
           /\ \E err \in IF InnerDone THEN {"context"} ELSE {"absent", "refused"} : Return(Classify(err))
           /\ UNCHANGED proc
  <2>1. PICK err \in {"context", "absent", "refused"} :
             Return(Classify(err)) /\ (err # "context" \/ InnerDone)
    BY <1>2
  <2> DEFINE r == Classify(err)
  <2>2. /\ r.kind \in {"cancelled", "transient", "permanent"}
        /\ r.code \in CallCodes
        /\ r.kind = "cancelled" <=> ctx # "live"
        /\ r.kind = "transient" => ctx = "live"
        /\ r.code = "timeout" => own
    BY <2>1, ClassifyIs
  <2>3. UNCHANGED <<step, ctx, attempt, own, world>>
    BY <1>2 DEF StartProcess, world
  <2>4. CallInv'
    BY <2>1, <2>2, <2>3, ReturnKeepsCallInv
  <2>5. proc.state = "none" /\ step.kind = "exec"
    BY DEF StartProcess, PlaceInv, NoProc
  <2>6. TruthfulReturn
    BY <2>1, <2>2, <2>5 DEF Returning, TruthfulReturn, Return, Retryable
  <2> QED
    BY <2>4, <2>6
<1>3. CASE /\ step.usable /\ ~InnerDone
           /\ doing' = "waiting" /\ proc' = [NoProc EXCEPT !.state = "running"]
           /\ UNCHANGED result
  <2>1. /\ proc' = [state |-> "running", exit |-> 0, killed |-> FALSE]
        /\ UNCHANGED <<step, ctx, attempt, own, held, cut, hops, dialled, size, result>>
        /\ step.kind = "exec" /\ doing' = "waiting"
    BY <1>3 DEF StartProcess, NoProc
  <2>2. proc' \in [state : {"none", "running", "exited"}, exit : Int, killed : BOOLEAN]
    BY <2>1
  <2>3. CallTypeOK'
    BY <2>1, <2>2 DEF CallTypeOK, Doings
  <2>4. PlaceInv' /\ KillInv' /\ HopInv' /\ ResultInv'
    BY <2>1 DEF PlaceInv, KillInv, HopInv, ResultInv
  <2> QED
    BY <2>1, <2>3, <2>4 DEF Returning, TruthfulReturn
<1> QED
  BY <1>1, <1>2, <1>3 DEF StartProcess

\* The context's end kills the process, and says so.
LEMMA KillKeeps ==
  ASSUME CallInv, Kill
  PROVE  CallInv' /\ TruthfulReturn
<1> USE DEF CallInv
<1>1. /\ UNCHANGED <<step, ctx, doing, attempt, own, held, cut, hops, dialled, size, result>>
      /\ InnerDone /\ doing = "waiting"
  BY DEF Kill
<1>2. proc' \in [state : {"none", "running", "exited"}, exit : Int, killed : BOOLEAN]
  <2>1. proc.exit \in Int
    BY DEF CallTypeOK
  <2>2. (IF proc.state = "running" THEN -1 ELSE proc.exit) \in Int
    BY <2>1
  <2> QED
    BY <2>2 DEF Kill
<1>3. CallTypeOK'
  BY <1>1, <1>2 DEF CallTypeOK
<1>4. PlaceInv' /\ KillInv' /\ HopInv' /\ ResultInv'
  BY <1>1 DEF PlaceInv, KillInv, InnerDone, HopInv, ResultInv
<1> QED
  BY <1>1, <1>3, <1>4 DEF Returning, TruthfulReturn

\* The pipe is cut.
LEMMA GraceKeeps ==
  ASSUME CallInv, GraceEnds
  PROVE  CallInv' /\ TruthfulReturn
<1> USE DEF CallInv
<1>1. /\ UNCHANGED <<step, ctx, doing, attempt, own, proc, held, hops, dialled, size, result>>
      /\ cut' \in BOOLEAN
  BY DEF GraceEnds
<1>2. CallTypeOK'
  BY <1>1 DEF CallTypeOK
<1>3. PlaceInv' /\ KillInv' /\ HopInv' /\ ResultInv'
  BY <1>1 DEF PlaceInv, KillInv, InnerDone, HopInv, ResultInv
<1> QED
  BY <1>1, <1>2, <1>3 DEF Returning, TruthfulReturn

\* Wait's error says what became of the process: a killed one is never taken
\* for one that ended by itself, as the context that killed it is over.
LEMMA WaitKeeps ==
  ASSUME CallInv, WaitReturns
  PROVE  CallInv' /\ TruthfulReturn
<1> USE DEF CallInv
<1> DEFINE r == IF proc.exit # 0 THEN Classify("exit")
                ELSE IF proc.killed THEN Classify("context")
                ELSE IF held THEN Classify("delay") ELSE Ok(0)
<1>1. /\ Return(r) /\ UNCHANGED <<step, ctx, attempt, own, world>>
      /\ doing = "waiting" /\ proc.state = "exited" /\ (held => cut)
  BY DEF WaitReturns
<1>2. step.kind = "exec"
  BY <1>1 DEF PlaceInv
<1>3. proc.killed => InnerDone
  BY DEF KillInv
<1>4. /\ r.kind \in {"cancelled", "transient", "permanent", "ok"}
      /\ r.kind = "ok" => r.value = proc.exit /\ ~proc.killed
      /\ r.kind = "ok" \/ r.code \in CallCodes
      /\ r.kind = "cancelled" => ctx # "live"
      /\ r.kind = "transient" => ctx = "live"
      /\ r.code = "timeout" => own
      /\ r.code # "not_found"
      /\ r.code = "start_failed" => OutputHeld
  <2>1. CASE proc.exit # 0
    <3>1. r = Classify("exit")
      BY <2>1
    <3>2. r.kind = "ok" => r = Ok(proc.exit) /\ ~proc.killed
      BY <1>3, <3>1, ClassifyIs
    <3> HIDE DEF r
    <3>3. Ok(proc.exit).value = proc.exit
      BY DEF Ok
    <3>4. /\ r.kind \in {"cancelled", "transient", "permanent", "ok"}
          /\ r.kind = "ok" \/ r.code \in CallCodes
          /\ r.kind = "cancelled" => ctx # "live"
          /\ r.kind = "transient" => ctx = "live"
      BY <3>1, ClassifyIs
    <3>5. (r.code = "timeout" => own) /\ r.code \notin {"not_found", "start_failed"}
      BY <3>1, ClassifyIs
    <3> QED
      BY <3>2, <3>3, <3>4, <3>5, Zenon
  <2>2. CASE proc.exit = 0 /\ proc.killed
    BY <2>2, <1>3, ClassifyIs DEF Ok
  <2>3. CASE proc.exit = 0 /\ ~proc.killed /\ held
    <3>1. r = Classify("delay") /\ cut
      BY <2>3, <1>1
    <3>2. r.kind # "ok" /\ r.code # "not_found"
      BY <3>1, ClassifyIs
    <3>3. OutputHeld
      BY <2>3, <1>1, <3>1 DEF OutputHeld
    <3> QED
      BY <3>1, <3>2, <3>3, ClassifyIs
  <2>4. CASE proc.exit = 0 /\ ~proc.killed /\ ~held
    BY <2>4 DEF Ok
  <2> QED
    BY <2>1, <2>2, <2>3, <2>4
<1> HIDE DEF r
<1>5. CallInv'
  BY <1>1, <1>4, ReturnKeepsCallInv
<1>6. TruthfulReturn
  BY <1>1, <1>2, <1>4 DEF Returning, TruthfulReturn, Return, Retryable
<1> QED
  BY <1>5, <1>6

\* A request is built or refused.
LEMMA BuildKeeps ==
  ASSUME CallInv, BuildRequest
  PROVE  CallInv' /\ TruthfulReturn
<1> USE DEF CallInv
<1>1. UNCHANGED <<step, ctx, attempt, own, world>> /\ step.kind = "http" /\ doing = "calling"
  BY DEF BuildRequest
<1>2. CASE step.usable
  <2>1. doing' = "dialling" /\ UNCHANGED result
    BY <1>2 DEF BuildRequest
  <2>2. hops < MaxRedirects
    BY <1>1, CallsAssumption DEF PlaceInv
  <2>3. CallInv'
    BY <1>1, <2>1, <2>2, MoveKeepsCallInv DEF Doings
  <2> QED
    BY <2>1, <2>3 DEF Returning, TruthfulReturn
<1>3. CASE ~step.usable
  <2>0. PICK code \in {"invalid_request", "unsupported_scheme"} : Return(Fail("permanent", code))
    BY <1>3 DEF BuildRequest
  <2> DEFINE r == Fail("permanent", code)
  <2>1. r.kind = "permanent" /\ r.code \in CallCodes \ {"body_too_large"}
    BY DEF Fail, CallCodes
  <2>2. Return(r)
    BY <2>0
  <2> HIDE DEF r
  <2>3. CallInv'
    BY <1>1, <2>1, <2>2, ReturnKeepsCallInv
  <2>4. TruthfulReturn
    BY <1>1, <2>1, <2>2 DEF Returning, TruthfulReturn, Return, Retryable
  <2> QED
    BY <2>3, <2>4
<1> QED
  BY <1>2, <1>3

\* A call that fails is reported by transportError.
LEMMA TransportKeeps ==
  ASSUME CallInv, NEW timeout \in BOOLEAN, Return(TransportError(timeout)),
         UNCHANGED <<step, ctx, attempt, own, world>>, step.kind = "http"
  PROVE  CallInv' /\ TruthfulReturn
<1> DEFINE r == TransportError(timeout)
<1>1. /\ r.kind \in {"cancelled", "transient"} /\ r.code \in CallCodes \ {"body_too_large"}
      /\ r.kind = "cancelled" <=> ctx # "live"
  BY TransportErrorIs
<1>2. Return(r)
  OBVIOUS
<1> HIDE DEF r
<1>3. CallInv'
  BY <1>1, <1>2, ReturnKeepsCallInv
<1>4. TruthfulReturn
  BY <1>1, <1>2 DEF Returning, TruthfulReturn, Return, Retryable
<1> QED
  BY <1>3, <1>4

\* Every hop is judged by the address it resolved to, and counted.
LEMMA DialKeeps ==
  ASSUME CallInv, NEW a \in Addresses, Dial(a)
  PROVE  CallInv' /\ TruthfulReturn
<1>1. UNCHANGED <<step, ctx, attempt, own, proc, held, cut, size>> /\ doing = "dialling"
  BY DEF Dial
<1>2. step.kind = "http" /\ hops < MaxRedirects
  BY <1>1 DEF CallInv, PlaceInv, HopInv
<1>3. CASE Blocked(a)
  <2>1. Return(TransportError(FALSE)) /\ UNCHANGED <<step, ctx, attempt, own, world>>
    BY <1>1, <1>3 DEF Dial, world
  <2> QED
    BY <1>2, <2>1, TransportKeeps
<1>4. CASE ~Blocked(a)
  <2>1. /\ doing' = "sent" /\ hops' = hops + 1 /\ dialled' = dialled \cup {a}
        /\ UNCHANGED result
    BY <1>4 DEF Dial
  <2>2. CallTypeOK'
    BY <1>1, <2>1 DEF CallInv, CallTypeOK, Doings
  <2>3. PlaceInv' /\ KillInv' /\ ResultInv'
    BY <1>1, <1>2, <2>1 DEF CallInv, PlaceInv, KillInv, InnerDone, ResultInv
  <2>4. HopInv'
    <3>1. hops' <= MaxRedirects
      BY <1>2, <2>1, CallsAssumption DEF CallInv, CallTypeOK
    <3>2. step.guarded => dialled' \cap Internal = {}
      BY <1>4, <2>1 DEF CallInv, HopInv, Blocked
    <3> QED
      BY <1>1, <2>1, <3>1, <3>2 DEF HopInv
  <2> QED
    BY <2>1, <2>2, <2>3, <2>4 DEF CallInv, Returning, TruthfulReturn
<1> QED
  BY <1>3, <1>4

\* A redirect is followed only while there are requests left.
LEMMA RedirectKeeps ==
  ASSUME CallInv, Redirect
  PROVE  CallInv' /\ TruthfulReturn
<1>1. UNCHANGED <<step, ctx, attempt, own, world>> /\ doing = "sent"
  BY DEF Redirect
<1>2. step.kind = "http"
  BY <1>1 DEF CallInv, PlaceInv
<1>3. CASE Return(TransportError(FALSE))
  BY <1>1, <1>2, <1>3, TransportKeeps
<1>4. CASE ~(hops >= MaxRedirects) /\ doing' = "dialling" /\ UNCHANGED result
  <2>1. hops < MaxRedirects
    BY <1>4, CallsAssumption DEF CallInv, CallTypeOK
  <2>2. CallInv'
    BY <1>1, <1>2, <1>4, <2>1, MoveKeepsCallInv DEF Doings
  <2> QED
    BY <1>4, <2>2 DEF Returning, TruthfulReturn
<1> QED
  BY <1>3, <1>4 DEF Redirect

\* A response has a body of some length.
LEMMA RespondKeeps ==
  ASSUME CallInv, Respond
  PROVE  CallInv' /\ TruthfulReturn
<1>1. /\ UNCHANGED <<step, ctx, attempt, own, proc, held, cut, hops, dialled, result>>
      /\ doing = "sent" /\ doing' = "reading" /\ size' \in 0 .. MaxBody
  BY DEF Respond
<1>2. CallTypeOK'
  BY <1>1 DEF CallInv, CallTypeOK, Doings
<1>3. PlaceInv' /\ KillInv' /\ HopInv' /\ ResultInv'
  BY <1>1 DEF CallInv, PlaceInv, KillInv, InnerDone, HopInv, ResultInv
<1> QED
  BY <1>1, <1>2, <1>3 DEF CallInv, Returning, TruthfulReturn

\* A body handed on is whole and within the limit: the reader is given one byte
\* more, and the sum overflows for the largest limit only.
LEMMA BodyReadKeeps ==
  ASSUME CallInv, BodyRead
  PROVE  CallInv' /\ TruthfulReturn
<1> DEFINE quota == Wrap(step.limit + 1)
           read == IF quota <= 0 THEN 0 ELSE IF size < quota THEN size ELSE quota
           r == IF quota - read = 0 THEN Fail("permanent", "body_too_large") ELSE Ok(read)
<1>1. UNCHANGED <<step, ctx, attempt, own, world>> /\ doing = "reading" /\ Return(r)
  BY DEF BodyRead
<1>2. step.kind = "http"
  BY <1>1 DEF CallInv, PlaceInv
<1>3. step.limit \in 1 .. MaxInt /\ MaxInt \in Nat /\ size \in 0 .. MaxInt
  BY StepKind, CallsAssumption DEF CallInv, CallTypeOK, IsStep
<1>4. IF quota - read = 0
        THEN size > step.limit
        ELSE size <= step.limit /\ read = IF step.limit < MaxInt THEN size ELSE 0
  BY <1>3 DEF Wrap
<1>5. \/ r.kind = "permanent" /\ r.code = "body_too_large" /\ size > step.limit
      \/ /\ r.kind = "ok" /\ r.code = "" /\ size <= step.limit
         /\ r.value = IF step.limit < MaxInt THEN size ELSE 0
  <2> HIDE DEF quota, read
  <2>1. CASE quota - read = 0
    BY <1>4, <2>1 DEF Fail
  <2>2. CASE quota - read # 0
    BY <1>4, <2>2 DEF Ok
  <2> QED
    BY <2>1, <2>2
<1> HIDE DEF r
<1>6. CallInv'
  BY <1>1, <1>5, ReturnKeepsCallInv DEF CallCodes
<1>7. TruthfulReturn
  BY <1>1, <1>2, <1>5 DEF Returning, TruthfulReturn, Return, Retryable
<1> QED
  BY <1>6, <1>7

\* A body that cannot be read is the context's fault or the connection's.
LEMMA BodyFailsKeeps ==
  ASSUME CallInv, BodyFails
  PROVE  CallInv' /\ TruthfulReturn
<1> DEFINE r == IF ctx # "live" THEN Cancellation ELSE Fail("transient", "body_read")
<1>1. UNCHANGED <<step, ctx, attempt, own, world>> /\ doing = "reading" /\ Return(r)
  BY DEF BodyFails
<1>2. step.kind = "http"
  BY <1>1 DEF CallInv, PlaceInv
<1>3. /\ r.kind \in {"cancelled", "transient"} /\ r.code \in CallCodes \ {"body_too_large"}
      /\ r.kind = "cancelled" <=> ctx # "live"
  BY DEF Cancellation, Fail, CallCodes
<1> HIDE DEF r
<1>4. CallInv'
  BY <1>1, <1>3, ReturnKeepsCallInv
<1>5. TruthfulReturn
  BY <1>1, <1>2, <1>3 DEF Returning, TruthfulReturn, Return, Retryable
<1> QED
  BY <1>4, <1>5

\* runStep's own steps: a verdict, another attempt, a backoff cut short, a
\* timeout.
LEMMA RunStepKeeps ==
  ASSUME CallInv, Judge \/ Retry \/ BackoffInterrupted \/ OwnTimeout
  PROVE  CallInv' /\ TruthfulReturn
<1>1. CASE Judge
  <2>1. /\ UNCHANGED <<step, ctx, attempt, own, world, result>>
        /\ doing = "returned" /\ doing' \in {"backoff", "done"}
    BY <1>1 DEF Judge
  <2>2. result.kind # "none"
    BY <2>1 DEF CallInv, ResultInv
  <2>3. CallInv'
    BY <2>1, <2>2, MoveKeepsCallInv DEF Doings
  <2> QED
    BY <2>1, <2>3 DEF Returning, TruthfulReturn
<1>2. CASE Retry
  <2>1. attempt + 1 \in Nat /\ Attempt(attempt + 1)
    BY <1>2 DEF Retry, CallInv, CallTypeOK
  <2>2. doing' = "calling"
    BY <2>1 DEF Attempt
  <2>3. CallInv'
    BY <2>1, AttemptKeepsCallInv
  <2> QED
    BY <2>2, <2>3 DEF Returning, TruthfulReturn
<1>3. CASE BackoffInterrupted
  <2>1. /\ UNCHANGED <<step, ctx, attempt, own, world>>
        /\ ctx # "live" /\ doing' = "done" /\ result' = Cancellation
    BY <1>3 DEF BackoffInterrupted
  <2>2. CallTypeOK'
    BY <2>1 DEF CallInv, CallTypeOK, Doings, world
  <2>3. PlaceInv' /\ KillInv' /\ HopInv'
    BY <2>1 DEF CallInv, PlaceInv, KillInv, InnerDone, HopInv, world
  <2>4. ResultInv'
    BY <2>1, CancellationIs DEF ResultInv
  <2> QED
    BY <2>1, <2>2, <2>3, <2>4 DEF CallInv, Returning, TruthfulReturn
<1>4. CASE OwnTimeout
  <2>1. UNCHANGED <<step, ctx, doing, attempt, world, result>> /\ own' = TRUE
    BY <1>4 DEF OwnTimeout
  <2>2. CallTypeOK'
    BY <2>1 DEF CallInv, CallTypeOK, world
  <2>3. PlaceInv' /\ KillInv' /\ HopInv' /\ ResultInv'
    BY <2>1 DEF CallInv, PlaceInv, KillInv, InnerDone, HopInv, ResultInv, world
  <2> QED
    BY <2>1, <2>2, <2>3 DEF CallInv, Returning, TruthfulReturn
<1> QED
  BY <1>1, <1>2, <1>3, <1>4

\* Every step of a command or a call keeps the invariant and reports the truth.
LEMMA CallStepKeeps ==
  ASSUME CallInv, NodeStep \/ WorldStep
  PROVE  CallInv' /\ TruthfulReturn
<1>1. CASE ProgramStep
  <2>1. doing' = doing
    BY <1>1 DEF ProgramStep
  <2> QED
    BY <1>1, <2>1, ProgramKeepsCallInv DEF Returning, TruthfulReturn
<1>2. CASE CallInterrupted \/ ConnectionFails
  <2>1. /\ \E timeout \in BOOLEAN : Return(TransportError(timeout))
        /\ UNCHANGED <<step, ctx, attempt, own, world>> /\ doing \in {"dialling", "sent"}
    BY <1>2 DEF CallInterrupted, ConnectionFails
  <2>2. step.kind = "http"
    BY <2>1 DEF CallInv, PlaceInv
  <2> QED
    BY <2>1, <2>2, TransportKeeps
<1>3. CASE \E a \in Addresses : Dial(a)
  BY <1>3, DialKeeps
<1> QED
  BY <1>1, <1>2, <1>3, StartKeeps, KillKeeps, GraceKeeps, WaitKeeps, BuildKeeps, RedirectKeeps,
     RespondKeeps, BodyReadKeeps, BodyFailsKeeps, RunStepKeeps DEF NodeStep, WorldStep

\* A step keeps its configuration, its execution's context and an attempt's end.
LEMMA CallStepFrame ==
  ASSUME NodeStep \/ WorldStep
  PROVE  step' = step /\ ctx' = ctx
BY DEF NodeStep, WorldStep, StartProcess, Kill, GraceEnds, WaitReturns, BuildRequest,
   CallInterrupted, BodyFails, Judge, Retry, Attempt, BackoffInterrupted, OwnTimeout, ProgramStep,
   Dial, Redirect, Respond, ConnectionFails, BodyRead

-----------------------------------------------------------------------------
(* The handler.                                                            *)

\* What the trigger and the sender are, in every state.
LEMMA InitEventInv == Init => EventInv
<1> SUFFICES ASSUME Init PROVE EventInv
  OBVIOUS
<1>1. CallInv
  <2>1. NoProc \in [state : {"none", "running", "exited"}, exit : Int, killed : BOOLEAN]
    BY DEF NoProc
  <2>c. CallInit
    BY DEF Init
  <2>0. 0 \in 0 .. MaxBody
    BY CallsAssumption
  <2>2. CallTypeOK
    BY <2>c, <2>0, <2>1 DEF CallInit, CallTypeOK, Doings
  <2>3. PlaceInv /\ ResultInv
    BY <2>c DEF CallInit, PlaceInv, ResultInv, None
  <2>4. KillInv
    BY <2>c DEF CallInit, KillInv, NoProc
  <2>5. HopInv
    BY <2>c, CallsAssumption DEF CallInit, HopInv
  <2> QED
    BY <2>2, <2>3, <2>4, <2>5 DEF CallInv
<1>2. EventTypeOK
  <2>s. PICK s \in Scenarios : hook = s.hook /\ request = s.request
    BY Zenon DEF Init
  <2>1. IsHook(hook) /\ IsRequest(request)
    BY <2>s, EventAssumption, Zenon
  <2>2. secret \in BOOLEAN /\ started \in BOOLEAN
    BY Zenon DEF Init
  <2>3. stage \in Stages /\ limit \in 0 .. MaxInt /\ body \in Nat
    BY CallsAssumption DEF Init, Stages
  <2> QED
    BY <2>1, <2>2, <2>3 DEF EventTypeOK
<1>3. PathInv
  BY DEF Init, PathInv
<1>4. FailureInv
  BY DEF Init, FailureInv
<1> QED
  BY <1>1, <1>2, <1>3, <1>4 DEF EventInv

\* A handler's step leaves the run's step alone.
LEMMA CallFrame ==
  ASSUME CallInv, UNCHANGED callVars
  PROVE  CallInv'
BY DEF CallInv, callVars, world, CallTypeOK, PlaceInv, KillInv, InnerDone, HopInv, ResultInv

\* While the handler waits, the run's step and its context go on under it; the
\* context ends once, so a failure that blames it stays right.
LEMMA HandlerWaits ==
  ASSUME EventInv, UNCHANGED eventVars, ctx # "live" => ctx' # "live"
  PROVE  EventTypeOK' /\ PathInv' /\ FailureInv'
<1>1. UNCHANGED <<hook, limit, request, secret, stage, body, started, failure, status>>
  BY DEF eventVars
<1>2. EventTypeOK'
  BY <1>1 DEF EventInv, EventTypeOK, IsHook, IsRequest
<1>3. UNCHANGED <<BodyKept, SignedBy, Readable>>
  BY <1>1 DEF BodyKept, SignedBy, Readable
<1>4. UNCHANGED Verified
  BY <1>1, <1>3 DEF Verified
<1>5. PathInv'
  BY <1>1, <1>3, <1>4 DEF EventInv, PathInv
<1>6. Cause => Cause'
  BY <1>1, <1>3, <1>4 DEF Cause
<1>7. FailureInv'
  BY <1>1, <1>6 DEF EventInv, FailureInv, StatusFor
<1> QED
  BY <1>2, <1>5, <1>7

\* An event is rejected with what rejected it.
LEMMA RejectKeeps ==
  ASSUME EventInv, NEW err, Reject(err), Cause', stage \notin {"config", "uncompiled"},
         UNCHANGED <<callVars, hook, limit, request, secret, body, started, status>>
  PROVE  EventInv'
<1>1. CallInv'
  BY CallFrame DEF EventInv
<1>2. EventTypeOK'
  BY DEF EventInv, EventTypeOK, IsHook, IsRequest, Reject, Stages
<1>3. UNCHANGED <<BodyKept, SignedBy>>
  BY DEF BodyKept, SignedBy
<1>4. UNCHANGED Verified
  BY <1>3 DEF Verified
<1>5. PathInv'
  BY <1>3, <1>4 DEF EventInv, PathInv, Reject
<1>6. FailureInv'
  BY DEF FailureInv, Reject
<1> QED
  BY <1>1, <1>2, <1>5, <1>6 DEF EventInv

\* A configuration that compiles has a cap of at least one byte.
LEMMA NewWebhookKeeps ==
  ASSUME EventInv, NewWebhook
  PROVE  EventInv'
<1>1. UNCHANGED <<callVars, hook, request, secret, body, started, failure, status>> /\ stage = "config"
  BY DEF NewWebhook
<1>2. CallInv'
  BY <1>1, CallFrame DEF EventInv
<1>3. \/ /\ stage' = "reading" /\ hook.maxBody >= 0
         /\ limit' = IF hook.maxBody = 0 THEN DefaultMax ELSE hook.maxBody
      \/ stage' = "uncompiled" /\ limit' = limit
  BY DEF NewWebhook
<1>4. limit' \in 0 .. MaxInt /\ (stage' = "reading" => limit' >= 1)
  BY <1>3, EventAssumption, CallsAssumption DEF EventInv, EventTypeOK, IsHook
<1>5. EventTypeOK'
  <2>1. stage' \in Stages
    BY <1>3 DEF Stages
  <2> QED
    BY <1>1, <1>4, <2>1 DEF EventInv, EventTypeOK, IsHook, IsRequest
<1>6. ~started
  BY <1>1 DEF EventInv, PathInv
<1>7. PathInv'
  BY <1>1, <1>3, <1>4, <1>6 DEF PathInv
<1>8. FailureInv'
  BY <1>1, <1>3 DEF EventInv, FailureInv
<1> QED
  BY <1>2, <1>5, <1>7, <1>8 DEF EventInv

\* The body is read whole, within the cap, or refused; the sum of the cap and
\* one overflows for the largest cap only.
LEMMA ReadBodyKeeps ==
  ASSUME EventInv, ReadBody
  PROVE  EventInv'
<1> DEFINE quota == Wrap(limit + 1)
           read == IF quota <= 0 THEN 0 ELSE IF request.sent < quota THEN request.sent ELSE quota
<1>1. UNCHANGED <<callVars, hook, limit, request, secret, started, status>> /\ stage = "reading"
  BY DEF ReadBody
<1>2. limit \in 1 .. MaxInt /\ MaxInt \in Nat /\ request.sent \in Nat /\ ~started
  <2>1. limit >= 1 /\ ~started
    BY <1>1 DEF EventInv, PathInv
  <2>2. limit \in 0 .. MaxInt /\ request.sent \in 0 .. MaxInt
    BY DEF EventInv, EventTypeOK, IsRequest
  <2> QED
    BY <2>1, <2>2, CallsAssumption
<1>3. CASE request.broken /\ read < quota
  <2>1. Reject(Fail("invalid_input", "body_unreadable")) /\ UNCHANGED body
    BY <1>3 DEF ReadBody
  <2>2. Cause'
    BY <1>1, <1>2, <1>3, <2>1 DEF Cause, Reject, Fail, Readable
  <2> QED
    BY <1>1, <2>1, <2>2, RejectKeeps
<1>4. CASE ~(request.broken /\ read < quota) /\ read > limit
  <2>1. Reject(Fail("invalid_input", "body_too_large")) /\ UNCHANGED body
    BY <1>4 DEF ReadBody
  <2>2. request.sent > limit
    BY <1>2, <1>4 DEF Wrap
  <2>3. ~(request.sent <= limit)
    BY <1>2, <2>2
  <2>4. Cause'
    BY <1>1, <1>2, <2>1, <2>3 DEF Cause, Reject, Fail, Readable
  <2> QED
    BY <1>1, <2>1, <2>4, RejectKeeps
<1>5. CASE ~(request.broken /\ read < quota) /\ ~(read > limit)
  <2>1. stage' = "verifying" /\ body' = read /\ failure' = failure
    BY <1>5 DEF ReadBody
  <2>2. /\ read \in Nat /\ read <= limit
        /\ IF limit < MaxInt THEN read = request.sent /\ read < quota ELSE read = 0
    BY <1>2, <1>5 DEF Wrap
  <2>3. limit < MaxInt => ~request.broken
    BY <1>5, <2>2
  <2> HIDE DEF read, quota
  <2>4. BodyKept'
    BY <1>1, <2>1, <2>2, <2>3 DEF BodyKept
  <2>5. CallInv'
    BY <1>1, CallFrame DEF EventInv
  <2>6. EventTypeOK'
    BY <1>1, <2>1, <2>2 DEF EventInv, EventTypeOK, IsHook, IsRequest, Stages
  <2>7. PathInv'
    BY <1>1, <1>2, <2>1, <2>4 DEF PathInv
  <2>8. FailureInv'
    BY <1>1, <2>1 DEF EventInv, FailureInv
  <2> QED
    BY <2>5, <2>6, <2>7, <2>8 DEF EventInv
<1> QED
  BY <1>3, <1>4, <1>5

\* Only a body whose signature was checked against the secret, where the route
\* has one, goes on to admission.
LEMMA VerifyKeeps ==
  ASSUME EventInv, Verify
  PROVE  EventInv'
<1>1. UNCHANGED <<callVars, hook, limit, request, secret, body, started, status>> /\ stage = "verifying"
  BY DEF Verify
<1>2. BodyKept /\ ~started
  BY <1>1 DEF EventInv, PathInv
<1>3. UNCHANGED <<BodyKept, SignedBy>>
  BY <1>1 DEF BodyKept, SignedBy
<1>4. SignedBy <=> /\ request.header # ""
                   /\ hook.auth.prefixed => request.header = "prefixed"
                   /\ ~hook.auth.prefixed => request.header = "bare"
                   /\ request.signs = body
  BY DEF SignedBy
<1>5. CASE Verified /\ stage' = "admitting" /\ failure' = failure
  <2>1. Verified'
    BY <1>1, <1>3, <1>5 DEF Verified
  <2>2. CallInv'
    BY <1>1, CallFrame DEF EventInv
  <2>3. EventTypeOK'
    BY <1>1, <1>5 DEF EventInv, EventTypeOK, IsHook, IsRequest, Stages
  <2>4. PathInv'
    BY <1>1, <1>2, <1>3, <1>5, <2>1 DEF EventInv, PathInv
  <2>5. FailureInv'
    BY <1>1, <1>5 DEF EventInv, FailureInv
  <2> QED
    BY <2>2, <2>3, <2>4, <2>5 DEF EventInv
<1>6. CASE hook.auth.on /\ ~secret /\ Reject(Fail("internal", "secret_unset"))
  <2>1. Cause'
    BY <1>1, <1>2, <1>3, <1>6 DEF Cause, Reject
  <2> QED
    BY <1>1, <1>6, <2>1, RejectKeeps
<1>7. CASE hook.auth.on /\ secret /\ ~SignedBy /\ Reject(Fail("permanent", "unauthorized"))
  <2>1. Cause'
    BY <1>1, <1>2, <1>3, <1>7 DEF Cause, Reject
  <2> QED
    BY <1>1, <1>7, <2>1, RejectKeeps
<1>8. \/ Verified /\ stage' = "admitting" /\ failure' = failure
      \/ hook.auth.on /\ ~secret /\ Reject(Fail("internal", "secret_unset"))
      \/ hook.auth.on /\ secret /\ ~SignedBy /\ Reject(Fail("permanent", "unauthorized"))
  BY <1>4 DEF Verify, Verified
<1> QED
  BY <1>5, <1>6, <1>7, <1>8

\* Admission refuses with a refusal of its own.
LEMMA RefusedKeeps ==
  ASSUME EventInv, Refused
  PROVE  EventInv'
<1>1. UNCHANGED <<callVars, hook, limit, request, secret, body, started, status>> /\ stage = "admitting"
  BY DEF Refused
<1>2. PICK err \in Refusals : Reject(err)
  BY DEF Refused
<1>3. BodyKept /\ Verified /\ ~started
  BY <1>1 DEF EventInv, PathInv
<1>4. UNCHANGED <<BodyKept, SignedBy>>
  BY <1>1 DEF BodyKept, SignedBy
<1>5. BodyKept' /\ Verified' /\ ~started' /\ failure' \in Refusals
  BY <1>1, <1>2, <1>3, <1>4 DEF Verified, Reject
<1>6. Cause'
  BY <1>5 DEF Cause, Refusals
<1> QED
  BY <1>1, <1>2, <1>6, RejectKeeps

\* A run starts on the body that was read and verified.
LEMMA FireKeeps ==
  ASSUME EventInv, Fire
  PROVE  EventInv'
<1>1. /\ UNCHANGED <<hook, limit, request, secret, body, failure, status>>
      /\ stage = "admitting" /\ stage' = "running" /\ started' = TRUE /\ Attempt(1)
  BY DEF Fire
<1>2. CallInv'
  BY <1>1, AttemptKeepsCallInv DEF EventInv
<1>3. EventTypeOK'
  BY <1>1 DEF EventInv, EventTypeOK, IsHook, IsRequest, Stages
<1>4. UNCHANGED <<BodyKept, SignedBy>>
  BY <1>1 DEF BodyKept, SignedBy
<1>5. BodyKept' /\ Verified'
  BY <1>1, <1>4 DEF EventInv, PathInv, Verified
<1>6. PathInv'
  BY <1>1, <1>5 DEF EventInv, PathInv
<1>7. FailureInv'
  BY <1>1 DEF EventInv, FailureInv
<1> QED
  BY <1>2, <1>3, <1>6, <1>7 DEF EventInv

\* A run ends as its step did, or cancelled when its context was.
LEMMA RunEndsKeeps ==
  ASSUME EventInv, RunFinishes \/ RunCancelled
  PROVE  EventInv'
<1>1. UNCHANGED <<callVars, hook, limit, request, secret, body, started, status>> /\ stage = "running"
  BY DEF RunFinishes, RunCancelled
<1>2. started /\ ctx' = ctx
  BY <1>1 DEF EventInv, PathInv, callVars
<1>3. CASE RunFinishes /\ result.kind = "ok"
  <2>1. stage' = "responding" /\ failure' = failure
    BY <1>3 DEF RunFinishes
  <2>2. CallInv'
    BY <1>1, CallFrame DEF EventInv
  <2>3. EventTypeOK'
    BY <1>1, <2>1 DEF EventInv, EventTypeOK, IsHook, IsRequest, Stages
  <2>4. UNCHANGED <<BodyKept, SignedBy>>
    BY <1>1 DEF BodyKept, SignedBy
  <2>5. PathInv'
    BY <1>1, <1>2, <2>1, <2>4 DEF EventInv, PathInv, Verified
  <2>6. FailureInv'
    BY <1>1, <2>1 DEF EventInv, FailureInv
  <2> QED
    BY <2>2, <2>3, <2>5, <2>6 DEF EventInv
<1>4. CASE RunFinishes /\ result.kind # "ok"
  <2>1. Reject(result) /\ doing = "done"
    BY <1>4 DEF RunFinishes
  <2>2. /\ result.kind \notin {"none", "ok"} /\ result.code \in CallCodes
        /\ result.kind = "cancelled" => ctx # "live"
    BY <1>4, <2>1 DEF EventInv, CallInv, ResultInv
  <2>3. Cause'
    BY <1>1, <1>2, <2>1, <2>2 DEF Cause, Reject
  <2> QED
    BY <1>1, <2>1, <2>3, RejectKeeps
<1>5. CASE RunCancelled
  <2> DEFINE r == Fail("cancelled", "cancelled")
  <2>1. Reject(r) /\ ctx # "live"
    BY <1>5 DEF RunCancelled
  <2>2. r.kind = "cancelled" /\ r.code \in CallCodes
    BY DEF Fail, CallCodes
  <2> HIDE DEF r
  <2>3. Cause'
    BY <1>1, <1>2, <2>1, <2>2 DEF Cause, Reject
  <2> QED
    BY <1>1, <2>1, <2>3, RejectKeeps
<1> QED
  BY <1>3, <1>4, <1>5

\* A panic is an internal error, whatever came before.
LEMMA PanicKeeps ==
  ASSUME EventInv, HandlerPanics
  PROVE  EventInv'
<1>1. /\ UNCHANGED <<callVars, hook, limit, request, secret, body, started, status>>
      /\ stage \in {"reading", "verifying", "responding"} /\ Reject(Fail("internal", "panic"))
  BY DEF HandlerPanics
<1>2. Cause'
  BY <1>1 DEF Cause, Reject
<1> QED
  BY <1>1, <1>2, RejectKeeps

\* The answer is the failure's status, or 200 when there is none.
LEMMA AnswerKeeps ==
  ASSUME EventInv, Answer
  PROVE  EventInv'
<1>1. /\ UNCHANGED <<callVars, hook, limit, request, secret, body, started, failure>>
      /\ stage \in {"failed", "responding"} /\ stage' = "answered"
      /\ status' = IF stage = "failed" THEN StatusFor(failure) ELSE 200
  BY DEF Answer
<1>2. CallInv'
  BY <1>1, CallFrame DEF EventInv
<1>3. EventTypeOK'
  BY <1>1 DEF EventInv, EventTypeOK, IsHook, IsRequest, Stages
<1>4. UNCHANGED <<BodyKept, SignedBy, Readable>>
  BY <1>1 DEF BodyKept, SignedBy, Readable
<1>5. UNCHANGED Verified
  BY <1>1, <1>4 DEF Verified
<1>6. PathInv'
  BY <1>1, <1>4, <1>5 DEF EventInv, PathInv
<1>7. Cause => Cause'
  BY <1>1, <1>4, <1>5 DEF Cause, callVars
<1>8. StatusFor(failure)' = StatusFor(failure)
  BY <1>1 DEF StatusFor
<1>9. FailureInv'
  BY <1>1, <1>7, <1>8 DEF EventInv, FailureInv, PathInv
<1> QED
  BY <1>2, <1>3, <1>6, <1>9 DEF EventInv

\* The context ends under whatever is going on.
LEMMA ContextEndsKeeps ==
  ASSUME EventInv, ContextEnds
  PROVE  EventInv'
<1>1. /\ UNCHANGED <<eventVars, step, doing, attempt, own, world, result>>
      /\ ctx = "live" /\ ctx' \in {"cancelled", "deadline"}
  BY DEF ContextEnds
<1>2. CallTypeOK'
  BY <1>1 DEF EventInv, CallInv, CallTypeOK, world
<1>3. PlaceInv' /\ KillInv' /\ HopInv' /\ ResultInv'
  BY <1>1 DEF EventInv, CallInv, PlaceInv, KillInv, InnerDone, HopInv, ResultInv, world
<1>4. EventTypeOK' /\ PathInv' /\ FailureInv'
  BY <1>1, HandlerWaits
<1> QED
  BY <1>2, <1>3, <1>4 DEF EventInv, CallInv

\* Every step keeps the invariant.
LEMMA EventInvStep ==
  ASSUME EventInv, [Next]_vars
  PROVE  EventInv'
<1>1. CASE Running
  BY <1>1, CallStepKeeps, CallStepFrame, HandlerWaits DEF Running, EventInv
<1>2. CASE UNCHANGED vars
  <2>1. UNCHANGED callVars /\ UNCHANGED eventVars /\ ctx' = ctx
    BY <1>2 DEF vars, callVars
  <2> QED
    BY <2>1, CallFrame, HandlerWaits DEF EventInv
<1>3. CASE Settled
  BY <1>2, <1>3 DEF Settled
<1> QED
  BY <1>1, <1>2, <1>3, NewWebhookKeeps, ReadBodyKeeps, VerifyKeeps, RefusedKeeps, FireKeeps,
     RunEndsKeeps, AnswerKeeps, PanicKeeps, ContextEndsKeeps DEF Next, HandlerStep

-----------------------------------------------------------------------------
(* What is proved of every event.                                          *)

\* EventInv holds in every reachable state, for every configuration of the
\* trigger, every request and every step.
THEOREM Invariance == Spec => []EventInv
<1>1. EventInv /\ [Next]_vars => EventInv'
  BY EventInvStep
<1> QED
  BY InitEventInv, <1>1, PTL DEF Spec

\* Nothing runs on a body the sender did not send or did not sign: Values hands
\* on the whole body under its cap, and verify checks exactly those bytes.
THEOREM RunsAlwaysOnWhatWasSent == Spec => []RunsOnWhatWasSent
<1>1. EventInv => RunsOnWhatWasSent
  BY DEF EventInv, PathInv, BodyKept, Verified, SignedBy, RunsOnWhatWasSent
<1> QED
  BY <1>1, Invariance, PTL

\* A body kept under a cap that does not overflow is the one a readable request
\* sent, and its signature is then the request's.
LEMMA KeptIsReadable ==
  ASSUME BodyKept, limit < MaxInt
  PROVE  Readable /\ (SignedBy <=> Authentic)
BY DEF BodyKept, Readable, SignedBy, Authentic

\* The status handle answers with tells the caller what became of the event.
THEOREM StatusAlwaysTruthful == Spec => []StatusTruthful
<1>1. ASSUME EventInv, stage = "answered" PROVE StatusTruthful
  <2>s. started => BodyKept /\ Verified
    BY <1>1 DEF EventInv, PathInv
  <2>1. CASE started /\ failure = None /\ status = 200
    <3>1. limit < MaxInt => Readable /\ (hook.auth.on => secret /\ Authentic)
      BY <2>1, <2>s, KeptIsReadable, Zenon DEF Verified
    <3>2. status \notin {401, 429, 503, 504}
      BY <2>1
    <3> QED
      BY <2>1, <3>1, <3>2, ZenonT(30) DEF StatusTruthful
  <2>2. CASE Cause /\ status = StatusFor(failure)
    <3>0. /\ status \in {400, 401, 429, 500, 503, 504}
          /\ status = 401 <=> failure.code = "unauthorized"
          /\ status \in {429, 503} =>
                failure.code \in {"overlapped", "at_capacity", "quarantined", "draining"}
          /\ status = 504 => failure.kind = "cancelled"
          /\ failure.kind = "invalid_input" /\ failure.code \in {"body_unreadable", "body_too_large"} =>
                status = 400
      BY <2>2 DEF StatusFor
    <3>a. failure.code # ""
      <4>1. failure \in Refusals => failure.code # ""
        <5>1. failure \in Refusals =>
                  \/ failure = Fail("permanent", "quarantined")
                  \/ \E c \in {"draining", "overlapped", "at_capacity"} : failure = Fail("transient", c)
          BY Zenon DEF Refusals
        <5>2. \A kind, code : Fail(kind, code).code = code
          BY DEF Fail
        <5>3. "quarantined" # "" /\ "" \notin {"draining", "overlapped", "at_capacity"}
          OBVIOUS
        <5> QED
          BY <5>1, <5>2, <5>3, Zenon
      <4>2. Fail("internal", "panic").code # "" /\ Fail("internal", "secret_unset").code # ""
            /\ Fail("permanent", "unauthorized").code # ""
        BY DEF Fail
      <4>3. "" \notin CallCodes /\ "" \notin {"body_unreadable", "body_too_large"}
        BY DEF CallCodes
      <4> QED
        BY <2>2, <4>1, <4>2, <4>3, Zenon DEF Cause
    <3>b. failure.kind = "cancelled" => started /\ ctx # "live"
      BY <2>2 DEF Cause, Fail, Refusals
    <3>c. failure.code \in {"unauthorized", "overlapped", "at_capacity", "quarantined", "draining"} =>
              ~started
      BY <2>2 DEF Cause, Fail, CallCodes
    <3>2. failure # None /\ status # 200
      <4>1. None.code = ""
        BY DEF None
      <4>2. failure # None
        BY <3>a, <4>1
      <4> QED
        BY <3>0, <4>2
    <3>3. status \in {401, 429, 503} => ~started
      BY <3>0, <3>c
    <3>4. status = 504 => started /\ ctx # "live"
      BY <3>0, <3>b
    <3>5. ASSUME limit < MaxInt, failure.code # "panic"
          PROVE  /\ ~Readable => status = 400 /\ ~started
                 /\ Readable => (status = 401 <=> hook.auth.on /\ secret /\ ~Authentic)
      <4>0. failure # Fail("internal", "panic")
        BY <3>5 DEF Fail
      <4>1. CASE /\ ~started /\ ~Readable /\ failure.kind = "invalid_input"
                 /\ failure.code \in {"body_unreadable", "body_too_large"}
        BY <3>0, <4>1
      <4>2. CASE /\ ~started /\ BodyKept /\ hook.auth.on /\ ~secret
                 /\ failure = Fail("internal", "secret_unset")
        <5>1. status # 401
          BY <3>0, <4>2 DEF Fail
        <5> QED
          BY <3>5, <4>2, <5>1, KeptIsReadable, Zenon
      <4>3. CASE /\ ~started /\ BodyKept /\ hook.auth.on /\ secret /\ ~SignedBy
                 /\ failure = Fail("permanent", "unauthorized")
        <5>1. status = 401
          BY <3>0, <4>3 DEF Fail
        <5> QED
          BY <3>5, <4>3, <5>1, KeptIsReadable, Zenon
      <4>4. CASE BodyKept /\ Verified /\ failure.code # "unauthorized"
        <5>1. status # 401
          BY <3>0, <4>4
        <5> QED
          BY <3>5, <4>4, <5>1, KeptIsReadable, Zenon DEF Verified
      <4>5. CASE ~started /\ BodyKept /\ Verified /\ failure \in Refusals
        <5>1. failure.code # "unauthorized"
          BY <4>5 DEF Refusals, Fail
        <5> QED
          BY <4>4, <4>5, <5>1
      <4>6. CASE started /\ failure.code \in CallCodes
        <5>1. failure.code # "unauthorized"
          BY <4>6 DEF CallCodes
        <5> QED
          BY <2>s, <4>4, <4>6, <5>1
      <4> QED
        BY <2>2, <4>0, <4>1, <4>2, <4>3, <4>5, <4>6 DEF Cause
    <3> QED
      BY <3>2, <3>3, <3>4, <3>5, Zenon DEF StatusTruthful
  <2> QED
    BY <1>1, <2>1, <2>2 DEF EventInv, FailureInv
<1>2. EventInv => StatusTruthful
  BY <1>1 DEF StatusTruthful
<1> QED
  BY <1>2, Invariance, PTL

\* What an attempt reports is what happened: runStep's retries, and the run's
\* verdict, rest on it.
THEOREM ResultsAlwaysTruthful == Spec => ResultTruthful
<1> DEFINE A == /\ TruthfulReturn
                /\ step.guarded => dialled' \cap Internal = {}
                /\ hops' <= MaxRedirects
<1>1. ASSUME EventInv, [Next]_vars PROVE [A]_callVars
  <2>1. CASE UNCHANGED callVars
    BY <2>1
  <2>2. CASE ~UNCHANGED callVars
    <3>1. Running \/ Fire \/ ContextEnds
      BY <1>1, <2>2 DEF Next, HandlerStep, NewWebhook, ReadBody, Verify, Refused, RunFinishes,
         RunCancelled, Answer, HandlerPanics, Settled, vars
    <3>2. HopInv' /\ step' = step
      BY <1>1, <3>1, EventInvStep, CallStepFrame
         DEF EventInv, CallInv, Running, Fire, Attempt, ContextEnds
    <3>3. TruthfulReturn
      <4>1. CASE Running
        BY <1>1, <4>1, CallStepKeeps DEF Running, EventInv
      <4>2. CASE Fire \/ ContextEnds
        <5>1. doing' # "returned" \/ doing' = doing
          BY <4>2 DEF Fire, Attempt, ContextEnds
        <5> QED
          BY <5>1 DEF Returning, TruthfulReturn
      <4> QED
        BY <3>1, <4>1, <4>2
    <3> QED
      BY <3>2, <3>3 DEF HopInv
  <2> QED
    BY <2>1, <2>2
<1>2. EventInv /\ [Next]_vars => [A]_callVars
  BY <1>1
<1> QED
  BY <1>2, Invariance, PTL DEF Spec, ResultTruthful
=============================================================================
