-------------------------------- MODULE MCEvent --------------------------------
(* Small instances of Event: integers of three bits.                       *)
EXTENDS Event

NoAuth == [on |-> FALSE, scheme |-> "", header |-> "", secretEnv |-> "", prefixed |-> FALSE]
Hmac(p) == [on |-> TRUE, scheme |-> "hmac-sha256", header |-> "X", secretEnv |-> "S", prefixed |-> p]

Hook(cap, auth, timed) ==
    [path |-> "absolute", method |-> "", maxBody |-> cap, auth |-> auth, timed |-> timed]

SmallSteps ==
    [kind : {"exec"}, timed : BOOLEAN, usable : BOOLEAN, guarded : {FALSE}, limit : {1}]
    \cup [kind : {"http"}, timed : {TRUE}, usable : {TRUE}, guarded : {TRUE}, limit : {1, 3}]
    \cup [kind : {"http"}, timed : {TRUE}, usable : {FALSE}, guarded : {FALSE}, limit : {1}]

\* Every `with` block worth telling apart, bad ones included.
SmallHooks ==
    {Hook(c, a, FALSE) : c \in {0, 1, 3}, a \in {NoAuth, Hmac(TRUE), Hmac(FALSE)}}
    \cup [path : {"", "relative", "absolute"}, method : {"known", "unknown"}, maxBody : {-1, 1},
          auth : {NoAuth, [Hmac(TRUE) EXCEPT !.scheme = "md5"], [Hmac(TRUE) EXCEPT !.secretEnv = ""]},
          timed : {FALSE}]

SmallRequests ==
    [sent : 0 .. 3, broken : BOOLEAN, header : {"", "bare", "prefixed"}, signs : {-1, 0, 2},
     leaves : {FALSE}]

\* Every request on every hook with a step that fails at once, and every step
\* on a request that is admitted, with a client that stays or leaves.
Admitted == [sent |-> 1, broken |-> FALSE, header |-> "", signs |-> -1, leaves |-> FALSE]
SmallScenarios ==
    [hook : SmallHooks, request : SmallRequests,
     step : {s \in SmallSteps : s.kind = "http" /\ ~s.usable}]
    \cup [hook : {Hook(1, NoAuth, timed) : timed \in BOOLEAN},
          request : {Admitted, [Admitted EXCEPT !.leaves = TRUE]}, step : SmallSteps]
=============================================================================
