--------------------------------- MODULE Load ---------------------------------
(***************************************************************************)
(* From a directory of pipelines to routes that answer: daemon.Load and    *)
(* resolveClaims sort the files into what is served, what is rejected and  *)
(* what has no trigger; New builds the route table; Serve registers each   *)
(* route with net/http, which panics on a pattern it cannot place.  An     *)
(* entry is its position in the directory, which os.ReadDir lists by name, *)
(* so positions order paths too.  A claim's key is a ServeMux pattern, and *)
(* a pattern is known by the requests it matches.                          *)
(***************************************************************************)
EXTENDS Integers, Sequences, FiniteSets, SequencesExt, FiniteSetsExt, Ranks

CONSTANTS
    Directories, \* the directories to load: sequences of entries
    Claims,      \* the routes a webhook may claim
    NoClaim,     \* the zero claim, of a schedule
    Matches      \* Matches[c]: the requests pattern c matches, none if net/http
                 \* cannot parse it

ASSUME ClaimAssumption ==
    /\ NoClaim \notin Claims
    /\ DOMAIN Matches = Claims

\* What there is to know of an entry: whether it is a pipeline file at all, how
\* far parsing and compiling get, and its trigger's claim.
Entries ==
    [outcome : {"ignored", "unparsed", "uncompiled", "untriggered"}, claim : {NoClaim}]
    \cup [outcome : {"triggered"}, claim : Claims \cup {NoClaim}]

ASSUME DirectoriesAssumption == \A d \in Directories : d \in Seq(Entries)

VARIABLES
    dir,         \* the directory
    next,        \* the entry Load looks at next
    phase,       \* reading, resolving claims, loaded, registering, up or panicked
    candidates,  \* compiled pipelines with a trigger
    rejected,    \* Loaded.Rejected
    untriggered, \* Loaded.Untriggered
    pending,     \* claims resolveClaims has yet to look at
    contested,   \* candidates whose claim another makes
    served,      \* Loaded.Served
    routes,      \* Daemon.routes
    mux          \* patterns registered with the ServeMux

loadVars == <<dir, next, candidates, untriggered, contested>>
vars == <<loadVars, phase, rejected, pending, served, routes, mux>>

Positions == 1 .. Len(dir)
ClaimOf(p) == dir[p].claim

ControlOK ==
    /\ next \in 1 .. Len(dir) + 1
    /\ phase \in {"read", "claims", "loaded", "routing", "up", "panicked"}
    /\ pending \subseteq Claims
    /\ \A c \in DOMAIN routes : c \in Claims /\ routes[c] \in Positions
    /\ mux \subseteq DOMAIN routes

TypeOK ==
    /\ ControlOK
    /\ \A p \in Positions : dir[p] \in Entries
    /\ Elements(candidates) \cup Elements(rejected) \cup Elements(untriggered)
           \cup Elements(served) \cup contested \subseteq Positions

Unread ==
    /\ next = 1 /\ phase = "read"
    /\ candidates = <<>> /\ rejected = <<>> /\ untriggered = <<>>
    /\ pending = {} /\ contested = {} /\ served = <<>>
    /\ routes = <<>> /\ mux = {}

Init == dir \in Directories /\ Unread

\* One entry: skipped, rejected, set aside or a candidate.
ReadEntry ==
    /\ phase = "read" /\ next <= Len(dir)
    /\ next' = next + 1
    /\ LET outcome == dir[next].outcome
           To(list, kept) == IF outcome \in kept THEN Append(list, next) ELSE list
       IN  /\ rejected' = To(rejected, {"unparsed", "uncompiled"})
           /\ untriggered' = To(untriggered, {"untriggered"})
           /\ candidates' = To(candidates, {"triggered"})
    /\ UNCHANGED <<dir, phase, pending, contested, served, routes, mux>>

\* Mutant: the zero claim is grouped like any other.
GroupClaimsAll ==
    /\ phase = "read" /\ next > Len(dir)
    /\ phase' = "claims"
    /\ pending' = {ClaimOf(p) : p \in Elements(candidates)}
    /\ UNCHANGED <<dir, next, candidates, rejected, untriggered, contested, served, routes, mux>>

\* resolveClaims groups the candidates by claim; the zero claim is left out.
GroupClaims ==
    /\ phase = "read" /\ next > Len(dir)
    /\ phase' = "claims"
    /\ pending' = {ClaimOf(p) : p \in Elements(candidates)} \ {NoClaim}
    /\ UNCHANGED <<dir, next, candidates, rejected, untriggered, contested, served, routes, mux>>

Claimants(c) == Pick(candidates, {k \in DOMAIN candidates : ClaimOf(candidates[k]) = c})

\* Mutant: the first claimant keeps the route.
JudgeClaimFirstWins(c) ==
    LET all == Claimants(c)
        lost == IF Len(all) < 2 THEN <<>> ELSE Tail(all)
    IN  /\ phase = "claims" /\ c \in pending
        /\ pending' = pending \ {c}
        /\ contested' = contested \cup Elements(lost)
        /\ rejected' = rejected \o lost
        /\ UNCHANGED <<dir, next, phase, candidates, untriggered, served, routes, mux>>

\* One claim, in whatever order the map yields them: all its claimants lose it.
JudgeClaim(c) ==
    LET all == Claimants(c)
        lost == IF Len(all) < 2 THEN <<>> ELSE all
    IN  /\ phase = "claims" /\ c \in pending
        /\ pending' = pending \ {c}
        /\ contested' = contested \cup Elements(lost)
        /\ rejected' = rejected \o lost
        /\ UNCHANGED <<dir, next, phase, candidates, untriggered, served, routes, mux>>

\* Mutant: the rejections stay in the order they were found.
SettleUnsorted ==
    /\ phase = "claims" /\ pending = {}
    /\ phase' = "loaded"
    /\ served' = Pick(candidates, {k \in DOMAIN candidates : candidates[k] \notin contested})
    /\ UNCHANGED <<dir, next, candidates, rejected, untriggered, pending, contested, routes, mux>>

\* Mutant: a pipeline without a claim is not served.
SettleClaimed ==
    /\ phase = "claims" /\ pending = {}
    /\ phase' = "loaded"
    /\ served' = Pick(candidates, {k \in DOMAIN candidates :
                     candidates[k] \notin contested /\ ClaimOf(candidates[k]) # NoClaim})
    /\ rejected' = Sorted(rejected)
    /\ UNCHANGED <<dir, next, candidates, untriggered, pending, contested, routes, mux>>

\* What nobody contests is served; rejections are sorted by path.
Settle ==
    /\ phase = "claims" /\ pending = {}
    /\ phase' = "loaded"
    /\ served' = Pick(candidates, {k \in DOMAIN candidates : candidates[k] \notin contested})
    /\ rejected' = Sorted(rejected)
    /\ UNCHANGED <<dir, next, candidates, untriggered, pending, contested, routes, mux>>

\* New: one route per webhook, a later pipeline of the same key replacing an
\* earlier one.
BuildRoutes ==
    LET hooks == {p \in Elements(served) : ClaimOf(p) # NoClaim} IN
    /\ phase = "loaded"
    /\ phase' = "routing"
    /\ routes' = [c \in {ClaimOf(p) : p \in hooks} |-> Max({p \in hooks : ClaimOf(p) = c})]
    /\ UNCHANGED <<loadVars, rejected, pending, served, mux>>

\* net/http refuses a pattern it cannot parse, and two that match a request in
\* common unless one is the more specific.
Narrower(c, d) == Matches[c] \subseteq Matches[d] /\ Matches[c] # Matches[d]
Conflict(c, d) == Matches[c] \cap Matches[d] # {} /\ ~Narrower(c, d) /\ ~Narrower(d, c)

\* handler: one HandleFunc per route, in whatever order the map yields them.
RegisterRoute(c) ==
    /\ phase = "routing" /\ c \in DOMAIN routes \ mux
    /\ IF Matches[c] = {} \/ \E d \in mux : Conflict(c, d)
         THEN phase' = "panicked" /\ UNCHANGED mux
         ELSE mux' = mux \cup {c} /\ UNCHANGED phase
    /\ UNCHANGED <<loadVars, rejected, pending, served, routes>>

ComeUp ==
    /\ phase = "routing" /\ mux = DOMAIN routes
    /\ phase' = "up"
    /\ UNCHANGED <<loadVars, rejected, pending, served, routes, mux>>

\* The pipeline net/http gives request r to: the most specific pattern's.
Answering(r) ==
    {routes[c] : c \in {c \in mux : r \in Matches[c] /\ ~\E d \in mux : r \in Matches[d] /\ Narrower(d, c)}}

LoadStep == ReadEntry \/ GroupClaims \/ (\E c \in Claims : JudgeClaim(c)) \/ Settle
ServeStep == BuildRoutes \/ (\E c \in Claims : RegisterRoute(c)) \/ ComeUp
Done == phase \in {"up", "panicked"} /\ UNCHANGED vars

Next == LoadStep \/ ServeStep \/ Done

Spec == Init /\ [][Next]_vars

-----------------------------------------------------------------------------
(* Properties.                                                             *)

\* No pipeline answers for its neighbour: once the daemon is up, every request
\* a served pipeline claims is answered by one pipeline, itself or one whose
\* own claim is the more specific, and no other file of the whole directory
\* makes the claim of a pipeline that is served.
NoHijack ==
    phase = "up" =>
        \A p \in Elements(served) : ClaimOf(p) # NoClaim =>
            /\ \A q \in Positions \ {p} : dir[q].outcome = "triggered" => ClaimOf(q) # ClaimOf(p)
            /\ \A r \in Matches[ClaimOf(p)] : \E q \in Elements(served) :
                  /\ Answering(r) = {q}
                  /\ q = p \/ Narrower(ClaimOf(q), ClaimOf(p))

\* One bad file takes nothing else down and no file is lost: each pipeline file
\* is served, rejected or set aside, exactly once, and a file that could run
\* and shares its claim with none is served.
Accounted ==
    phase = "loaded" =>
        /\ IsInjective(served \o rejected \o untriggered)
        /\ Elements(served) \cup Elements(rejected) \cup Elements(untriggered)
               = {p \in Positions : dir[p].outcome # "ignored"}
        /\ \A p \in Positions :
              /\ dir[p].outcome = "triggered"
              /\ \A q \in Positions \ {p} :
                    dir[q].outcome = "triggered" => ClaimOf(q) # ClaimOf(p) \/ ClaimOf(p) = NoClaim
              => p \in Elements(served)

\* The result does not depend on the order a Go map is iterated in.
Deterministic ==
    phase = "loaded" =>
        \A list \in {served, rejected, untriggered} : Increasing(list)

\* load.go, and serveCommand: what one file says must not take down the
\* unrelated pipelines beside it.  Registering the routes must not panic.
ServeComesUp == phase # "panicked"

-----------------------------------------------------------------------------
(* The inductive invariant: what is in each list, and where it came from.  *)

Triggered == {p \in Positions : dir[p].outcome = "triggered"}
Broken == {p \in Positions : dir[p].outcome \in {"unparsed", "uncompiled"}}
Aside == {p \in Positions : dir[p].outcome = "untriggered"}
\* The candidates that make claim c, if it is a claim and more than one makes it.
Contenders(c) ==
    {p \in Triggered : c # NoClaim /\ ClaimOf(p) = c /\ \E q \in Triggered \ {p} : ClaimOf(q) = c}
Hooks == {p \in Elements(served) : ClaimOf(p) # NoClaim}

ListsInv ==
    /\ dir \in Seq(Entries)
    /\ {candidates, rejected, untriggered, served} \subseteq Seq(Nat)

\* What reading the directory leaves in the lists.
ReadInv ==
    /\ phase # "read" => next = Len(dir) + 1
    /\ Increasing(candidates) /\ Elements(candidates) = {p \in Triggered : p < next}
    /\ Increasing(untriggered) /\ Elements(untriggered) = {p \in Aside : p < next}
    /\ IsInjective(rejected) /\ Elements(rejected) = {p \in Broken : p < next} \cup contested

\* Exactly the rivals for the claims judged so far are contested.
ClaimsInv ==
    /\ phase = "read" => contested = {}
    /\ phase = "claims" => contested = UNION {Contenders(c) : c \in Claims \ pending}
    /\ phase \notin {"read", "claims"} => pending = {} /\ contested = UNION {Contenders(c) : c \in Claims}

ServedInv ==
    /\ phase \in {"read", "claims"} => served = <<>>
    /\ phase \notin {"read", "claims"} =>
          /\ Increasing(served) /\ Elements(served) = Triggered \ contested
          /\ Increasing(rejected)

\* Every route leads to the one pipeline that claims it, and what is registered
\* is pairwise compatible.
RoutesInv ==
    /\ phase \in {"read", "claims", "loaded"} => mux = {}
    /\ phase \notin {"read", "claims", "loaded"} =>
          /\ DOMAIN routes = {ClaimOf(p) : p \in Hooks}
          /\ \A p \in Hooks : routes[ClaimOf(p)] = p
    /\ IsFiniteSet(mux)
    /\ \A c, d \in mux : c # d => ~Conflict(c, d)
    /\ phase = "up" => mux = DOMAIN routes

LoadInv == ControlOK /\ ListsInv /\ ReadInv /\ ClaimsInv /\ ServedInv /\ RoutesInv
=============================================================================
