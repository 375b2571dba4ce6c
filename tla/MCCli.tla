-------------------------------- MODULE MCCli --------------------------------
(***************************************************************************)
(* Command lines of run up to four words after the verb, of serve and      *)
(* check up to two, over small directories with nested routes.             *)
(***************************************************************************)
EXTENDS Cli

\* Directories of up to three files, and of four servable ones.
SmallDirectories ==
    UNION {[1 .. n -> Entries] : n \in 0 .. 3}
    \cup [1 .. 4 -> {e \in Entries : e.outcome = "triggered" /\ e.claim \notin {"POST /", "POST /{"}}]

\* "POST /" answers whatever the first two do not; "POST /{" is no pattern.
Nested == ("POST /a" :> {1}) @@ ("POST /b" :> {2}) @@ ("POST /" :> {1, 2, 3})
          @@ ("POST /{" :> {})

\* The inputs a plan declares.
SmallPlans ==
    ("p.yaml" :> [inputs |-> [x |-> "Int"], mutates |-> TRUE])
    @@ ("q.yaml" :> [inputs |-> [x |-> "Time", y |-> "Bool"], mutates |-> FALSE])

SmallAssignments ==
    ("x=1" :> [name |-> "x", at |-> FALSE, literal |-> "1"])
    @@ ("y=1" :> [name |-> "y", at |-> FALSE, literal |-> "1"])
    @@ ("x=@t" :> [name |-> "x", at |-> TRUE, literal |-> "t"])
    @@ ("x=@gone" :> [name |-> "x", at |-> TRUE, literal |-> "gone"])

SmallContents == "t" :> "noon\n"

Verbs(vs) == {[Nothing EXCEPT !.text = v] : v \in vs}
Lines(verbs, words, n) ==
    {<<v>> \o rest : v \in Verbs(verbs), rest \in UNION {[1 .. k -> words] : k \in 0 .. n}}

\* --input with and without "=", a flag, files and assignments.
RunWords ==
    {w \in Words({"p.yaml", "q.yaml", "x=1", "y=1", "x=@t", "x=@gone"}, {"--input"}) :
        IF w.eq THEN w.text \notin {"p.yaml", "q.yaml"} ELSE w.text \notin {"y=1", "x=@gone"}}
    \cup {[opt |-> "--detect-mutation", eq |-> FALSE, text |-> ""]}

\* Every number of --max-runs is "-1", which is an option when it stands alone.
ServeWords ==
    Words({"d"}, {"--listen"}) \cup Words({"1s"}, {"--drain"})
    \cup {w \in Words({"-1"}, {"--max-runs"}) : w.opt # Empty}
    \cup {[opt |-> "-1", eq |-> FALSE, text |-> Empty]}

CheckWords == Words({"d", "p.yaml"}, {"--dir"})

SmallLines ==
    {<<>>} \cup Lines({"nodes", "what"}, {}, 0)
    \cup Lines({"run"}, RunWords, 4)
    \cup Lines({"serve"}, ServeWords, 2)
    \cup Lines({"check"}, CheckWords, 2)
=============================================================================
