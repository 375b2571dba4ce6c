---------------------------------- MODULE Cli ----------------------------------
(***************************************************************************)
(* The p6e command: one invocation, from its arguments to its exit status. *)
(* check and run take one file, check --dir and serve one directory, which *)
(* is loaded and served as Load describes.  What a file compiles to and    *)
(* what a run of it may do is given by Plans; Scheduler and Compiler model *)
(* how.                                                                    *)
(***************************************************************************)
EXTENDS Load

CONSTANTS
    CommandLines, \* sequences of words
    Plans,        \* Plans[path]: the plan a file compiles to, for those that do
    Assignments,  \* Assignments[text]: NAME=LITERAL, for the words of that form
    Contents,     \* Contents[path]: what an @FILE literal reads, if readable
    DirPath       \* the path of the directory

Empty == "" \* an empty text: the option of a word that is none, a path not given

\* A word that begins with "-" is an option, with or without "=value", whether
\* the verb knows it or not; any other is plain text.
Words(texts, opts) ==
    [opt : {Empty}, eq : {FALSE}, text : texts]
    \cup [opt : opts, eq : {TRUE}, text : texts]
    \cup [opt : opts, eq : {FALSE}, text : {Empty}]

Nothing == [opt |-> Empty, eq |-> FALSE, text |-> Empty]

\* os.ReadDir reads nothing under the empty path.
ASSUME CliAssumption ==
    /\ CommandLines \subseteq Seq(Words(STRING, STRING))
    /\ DirPath # Empty

VARIABLES
    args,     \* the arguments
    at,       \* what the process is doing: parsing, compiling, running, loading...
    path,     \* the file or directory given
    given,    \* the --input assignments of run, as written
    options,  \* the options given, with their values
    values,   \* the inputs handed to the run, by name
    outcome,  \* how the run ended
    exit      \* the exit status, or -1

cliVars == <<args, at, path, given, options, values, outcome, exit>>
allVars == <<vars, cliVars>>

StatusOK ==
    /\ at \in {"parsing", "compiling", "binding", "running", "loading", "exited"}
    /\ exit \in -1 .. 2
    /\ (exit = -1) <=> at # "exited"
    /\ outcome \in {"none", "ok", "failed", "mutated"}

CliTypeOK ==
    /\ TypeOK
    /\ StatusOK
    /\ at = "running" => /\ path \in DOMAIN Plans
                         /\ DOMAIN values \subseteq DOMAIN Plans[path].inputs

CliInit ==
    /\ args \in CommandLines
    /\ dir \in (IF \E k \in DOMAIN args : args[k].text = DirPath THEN Directories ELSE {<<>>})
    /\ Unread
    /\ at = "parsing" /\ path = Empty /\ given = <<>> /\ options = {}
    /\ values = <<>> /\ outcome = "none" /\ exit = -1

Exit(code) == at' = "exited" /\ exit' = code

-----------------------------------------------------------------------------
(* Arguments.  An option that takes a value takes the next word, whatever  *)
(* it is, and one without a value to take ends the parse as unknown.       *)

Unparsed == [paths |-> <<>>, given |-> <<>>, options |-> {}, wants |-> Nothing, bad |-> FALSE]

\* splitRunArgs, one word.
RunWord(acc, w) ==
    IF acc.bad THEN acc
    ELSE IF acc.wants # Nothing
      THEN [acc EXCEPT !.given = Append(@, w), !.wants = Nothing]
    ELSE IF w.opt \in {"--detect-mutation", "--inline"} /\ ~w.eq
      THEN [acc EXCEPT !.options = @ \cup {<<w.opt, Empty>>}]
    ELSE IF w.opt = "--input" /\ ~w.eq THEN [acc EXCEPT !.wants = w]
    ELSE IF w.opt = "--input"
      THEN [acc EXCEPT !.given = Append(@, [Nothing EXCEPT !.text = w.text])]
    ELSE IF w.opt # Empty THEN [acc EXCEPT !.bad = TRUE]
    ELSE [acc EXCEPT !.paths = Append(@, w.text)]

\* What strconv.Atoi and time.ParseDuration accept, within each option's bounds.
Accepted(opt, text) ==
    CASE opt = "--max-concurrency" -> text \in {"1"}
      [] opt = "--max-runs" -> text \in {"1", "-1"}
      [] opt = "--drain" -> text \in {"1s"}
      [] OTHER -> TRUE
ServeOptions == {"--listen", "--admin-listen", "--max-concurrency", "--drain", "--max-runs"}

\* One option's value: refused, or set over any earlier one.
SetOption(acc, opt, text) ==
    IF Accepted(opt, text)
      THEN [acc EXCEPT !.options = {o \in @ : o[1] # opt} \cup {<<opt, text>>}, !.wants = Nothing]
      ELSE [acc EXCEPT !.bad = TRUE]

\* The text of a word as it was typed, its "=value" left out.
Typed(w) == IF w.opt = Empty THEN w.text ELSE w.opt

\* splitServeArgs, one word.
ServeWord(acc, w) ==
    IF acc.bad THEN acc
    ELSE IF acc.wants # Nothing THEN SetOption(acc, acc.wants.opt, Typed(w))
    ELSE IF w.opt \in ServeOptions
      THEN IF w.eq THEN SetOption(acc, w.opt, w.text) ELSE [acc EXCEPT !.wants = w]
    ELSE IF w.opt # Empty THEN [acc EXCEPT !.bad = TRUE]
    ELSE [acc EXCEPT !.paths = Append(@, w.text)]

Verb == IF args = <<>> THEN Empty ELSE Typed(args[1])

\* What splitRunArgs or splitServeArgs has found in the first k words, the verb
\* being the first of them.
Split[k \in 1 .. Len(args)] ==
    IF k = 1 THEN Unparsed
    ELSE IF Verb = "run" THEN RunWord(Split[k - 1], args[k])
    ELSE ServeWord(Split[k - 1], args[k])
SplitArgs == Split[Len(args)]

\* The parse succeeded and names exactly one file or directory.
WellFormed(acc) == ~acc.bad /\ acc.wants = Nothing /\ Len(acc.paths) = 1

\* dirArg: the directory check is given, Empty for --dir without one.
HasDir == Len(args) > 1 /\ args[2].opt = "--dir"
DirArg ==
    IF args[2].eq THEN args[2].text
    ELSE IF Len(args) = 3 THEN Typed(args[3]) ELSE Empty

\* withFile, or dirArg, or the options of a verb: go on with one path, or exit
\* with the usage status.
Proceed(ok, to, p) ==
    IF ok THEN at' = to /\ path' = p /\ UNCHANGED exit
    ELSE Exit(2) /\ UNCHANGED path

\* run: the switch over the verbs.
Dispatch ==
    /\ at = "parsing"
    /\ \/ /\ Verb = "check" /\ HasDir
          /\ Proceed(DirArg # Empty, "loading", DirArg)
          /\ UNCHANGED <<given, options>>
       \/ /\ Verb = "check" /\ ~HasDir
          /\ Proceed(Len(args) = 2, "compiling", IF Len(args) = 2 THEN Typed(args[2]) ELSE Empty)
          /\ UNCHANGED <<given, options>>
       \/ /\ Verb \in {"run", "serve"}
          /\ LET acc == SplitArgs
                 to == IF Verb = "run" THEN "compiling" ELSE "loading"
             IN  /\ Proceed(WellFormed(acc), to, IF WellFormed(acc) THEN acc.paths[1] ELSE Empty)
                 /\ given' = acc.given /\ options' = acc.options
       \/ /\ Verb \in {"nodes", "triggers", "version", "--version", "help", "-h", "--help"}
          /\ Exit(0) /\ UNCHANGED <<path, given, options>>
       \/ /\ Verb \notin {"check", "run", "serve", "nodes", "triggers", "version",
                          "--version", "help", "-h", "--help"}
          /\ Exit(2) /\ UNCHANGED <<path, given, options>>
    /\ UNCHANGED <<vars, args, values, outcome>>

-----------------------------------------------------------------------------
(* check and run of one file.                                              *)

\* compile: the file parses and compiles.
Compiles == path \in DOMAIN Plans

\* checkCommand, and the first lines of runCommand.
CompileFile ==
    /\ at = "compiling"
    /\ IF ~Compiles THEN Exit(1)
       ELSE IF Verb = "check" THEN Exit(0)
       ELSE at' = "binding" /\ UNCHANGED exit
    /\ UNCHANGED <<vars, args, path, given, options, values, outcome>>

\* The types a literal converts to; only a Time is trimmed of white space.
Converts(literal) ==
    {"Text", "Bytes"}
    \cup (IF literal \in {"0", "1"} THEN {"Bool", "Int"} ELSE {})
    \cup (IF literal = "-1" THEN {"Int"} ELSE {})
    \cup (IF literal \in {"noon", "noon\n"} THEN {"Time"} ELSE {})

\* The literal an assignment supplies: its own text, or the file it names.
IsFile(a) == a.at
Readable(a) == IsFile(a) => a.literal \in DOMAIN Contents
Literal(a) == IF IsFile(a) THEN Contents[a.literal] ELSE a.literal

\* The map vs with key n set to v.
With(vs, n, v) == [m \in DOMAIN vs \cup {n} |-> IF m = n THEN v ELSE vs[m]]

\* Mutant: of two values for one input the last counts.
AssignLast(acc, w) ==
    IF ~acc.ok \/ w.opt # Empty \/ w.text \notin DOMAIN Assignments THEN [acc EXCEPT !.ok = FALSE]
    ELSE LET a == Assignments[w.text] IN
         IF /\ a.name \in DOMAIN Plans[path].inputs
            /\ Readable(a)
            /\ Plans[path].inputs[a.name] \in Converts(Literal(a))
           THEN [acc EXCEPT !.values = With(@, a.name, Literal(a))]
           ELSE [acc EXCEPT !.ok = FALSE]

\* buildInputs, one assignment after another until one is refused.  An option
\* swallowed as a value has no "=" or names no declared input.
Assign(acc, w) ==
    IF ~acc.ok \/ w.opt # Empty \/ w.text \notin DOMAIN Assignments THEN [acc EXCEPT !.ok = FALSE]
    ELSE LET a == Assignments[w.text] IN
         IF /\ a.name \in DOMAIN Plans[path].inputs
            /\ a.name \notin DOMAIN acc.values
            /\ Readable(a)
            /\ Plans[path].inputs[a.name] \in Converts(Literal(a))
           THEN [acc EXCEPT !.values = With(@, a.name, Literal(a))]
           ELSE [acc EXCEPT !.ok = FALSE]

\* buildInputs after the first k assignments.
Built[k \in 0 .. Len(given)] ==
    IF k = 0 THEN [ok |-> TRUE, values |-> <<>>] ELSE Assign(Built[k - 1], given[k])

\* runCommand: buildInputs over all assignments.
BindInputs ==
    LET acc == Built[Len(given)] IN
    /\ at = "binding"
    /\ IF acc.ok
         THEN at' = "running" /\ values' = acc.values /\ UNCHANGED exit
         ELSE Exit(2) /\ UNCHANGED values
    /\ UNCHANGED <<vars, args, path, given, options, outcome>>

\* The run ends, a signal included: without an input it needs it has failed,
\* and writing through a shared value is noticed only if asked for.
RunReturns ==
    LET plan == Plans[path]
        missing == DOMAIN plan.inputs \ DOMAIN values
    IN  /\ at = "running"
        /\ \E failed \in BOOLEAN :
              /\ missing # {} => failed
              /\ outcome' = IF failed THEN "failed"
                            ELSE IF plan.mutates /\ <<"--detect-mutation", Empty>> \in options
                              THEN "mutated" ELSE "ok"
              /\ Exit(IF outcome' = "ok" THEN 0 ELSE 1)
        /\ UNCHANGED <<vars, args, path, given, options, values>>

-----------------------------------------------------------------------------
(* check --dir and serve.                                                  *)

\* Load cannot read the directory.
LoadFails ==
    /\ at = "loading" /\ path # DirPath
    /\ Exit(1)
    /\ UNCHANGED <<vars, args, path, given, options, values, outcome>>

Loads ==
    /\ at = "loading" /\ path = DirPath
    /\ LoadStep
    /\ UNCHANGED cliVars

\* Mutant: check looks at what is served, as serve does.
CheckDirServable ==
    /\ at = "loading" /\ path = DirPath /\ phase = "loaded" /\ Verb = "check"
    /\ Exit(IF served = <<>> THEN 1 ELSE 0)
    /\ UNCHANGED <<vars, args, path, given, options, values, outcome>>

\* checkDirCommand: any rejection fails the command.
CheckDir ==
    /\ at = "loading" /\ path = DirPath /\ phase = "loaded" /\ Verb = "check"
    /\ Exit(IF rejected = <<>> THEN 0 ELSE 1)
    /\ UNCHANGED <<vars, args, path, given, options, values, outcome>>

\* serveCommand with nothing to serve.
NothingToServe ==
    /\ at = "loading" /\ path = DirPath /\ phase = "loaded" /\ Verb = "serve"
    /\ served = <<>>
    /\ Exit(1)
    /\ UNCHANGED <<vars, args, path, given, options, values, outcome>>

Serves ==
    /\ at = "loading" /\ path = DirPath /\ Verb = "serve" /\ served # <<>>
    /\ ServeStep
    /\ UNCHANGED cliVars

\* Serve returns, nil or a listener's failure, or the process dies of a panic,
\* which Go reports with status 2.
ServeReturns ==
    /\ at = "loading"
    /\ \/ phase = "up" /\ \E code \in {0, 1} : Exit(code)
       \/ phase = "panicked" /\ Exit(2)
    /\ UNCHANGED <<vars, args, path, given, options, values, outcome>>

Exited == at = "exited" /\ UNCHANGED allVars

CliNext ==
    \/ Dispatch \/ CompileFile \/ BindInputs \/ RunReturns
    \/ LoadFails \/ Loads \/ CheckDir \/ NothingToServe \/ Serves \/ ServeReturns
    \/ Exited

CliSpec == CliInit /\ [][CliNext]_allVars

-----------------------------------------------------------------------------
(* Properties.                                                             *)

Bare(k) == args[k].opt = "--input" /\ ~args[k].eq
\* A word is the value of an --input if an odd number of bare ones precede it.
IsValue(k) ==
    \E n \in 1 .. k - 2 :
        n % 2 = 1 /\ (\A j \in k - n .. k - 1 : Bare(j)) /\ ~Bare(k - n - 1)
\* The words of the line that supply input n.
Supplying(n) ==
    {k \in 2 .. Len(args) :
        /\ IF IsValue(k) THEN args[k].opt = Empty ELSE args[k].opt = "--input" /\ args[k].eq
        /\ args[k].text \in DOMAIN Assignments
        /\ Assignments[args[k].text].name = n}

\* The exit status tells a broken pipeline from a broken invocation: a command
\* refused for its arguments ran nothing, and one that ran a pipeline ran the
\* only word that is neither an option nor an option's value, with each input
\* from the only word that supplies it and none left over; it exits 0 only if
\* every declared input was there and the run was clean.  (A panic, which Go
\* also reports as 2, is ServeComesUp's.)
ExitTruthful ==
    /\ at = "exited" /\ exit = 2 /\ phase # "panicked" => outcome = "none" /\ mux = {}
    /\ at = "exited" /\ outcome # "none" =>
          /\ exit = 0 => DOMAIN values = DOMAIN Plans[path].inputs /\ outcome = "ok"
          /\ \A n \in {Assignments[t].name : t \in DOMAIN Assignments} :
                IF n \in DOMAIN values
                  THEN \E k \in Supplying(n) :
                          Supplying(n) = {k} /\ values[n] = Literal(Assignments[args[k].text])
                  ELSE Supplying(n) = {}
          /\ \E k \in 2 .. Len(args) :
                /\ {j \in 2 .. Len(args) : args[j].opt = Empty /\ ~IsValue(j)} = {k}
                /\ args[k].text = path
          /\ Bare(Len(args)) => IsValue(Len(args))

\* check --dir is the gate it claims to be: it passes a directory exactly when
\* every pipeline file in it compiles and no two claim one route, whatever else
\* the directory holds; serve exits with a failure when it can serve nothing.
GateHolds ==
    at = "exited" /\ path = DirPath =>
        /\ Verb = "check" /\ HasDir =>
              (exit = 0 <=>
                 /\ \A p \in Positions : dir[p].outcome \notin {"unparsed", "uncompiled"}
                 /\ \A p, q \in Positions :
                       ClaimOf(p) = ClaimOf(q) => p = q \/ ClaimOf(p) = NoClaim)
        /\ Verb = "serve" /\ (\A p \in Positions : dir[p].outcome # "triggered") => exit = 1

-----------------------------------------------------------------------------
(* The inductive invariant, beside LoadInv.                                *)

\* How far a command has got, by its verb: nothing is loaded but from the
\* directory, nothing is served but by serve, and a serving command exits only
\* when it is up or has panicked.
StageInv ==
    /\ outcome # "none" => at = "exited" /\ Verb = "run" /\ exit \in {0, 1}
    /\ at = "parsing" => path = Empty
    /\ at = "compiling" => Verb \in {"run", "check"} /\ ~(Verb = "check" /\ HasDir)
    /\ at \in {"binding", "running"} => Verb = "run"
    /\ phase # "read" => path = DirPath /\ at \in {"loading", "exited"}
    /\ phase \notin {"read", "claims", "loaded"} => Verb = "serve" /\ served # <<>>
    /\ at = "exited" => phase # "routing" /\ (phase = "up" => exit \in {0, 1})

\* What a command over the directory exits with.
GateInv ==
    at = "exited" /\ path = DirPath =>
        /\ Verb = "check" /\ HasDir => phase = "loaded" /\ exit = IF rejected = <<>> THEN 0 ELSE 1
        /\ Verb = "serve" => \/ phase = "loaded" /\ served = <<>> /\ exit = 1
                             \/ phase \in {"up", "panicked"}

\* A run is of the file its arguments name, with the inputs they supply.
InputsInv ==
    /\ (at = "compiling" /\ Verb = "run") \/ at \in {"binding", "running"} \/ outcome # "none" =>
          WellFormed(SplitArgs) /\ path = SplitArgs.paths[1] /\ given = SplitArgs.given
    /\ at \in {"binding", "running"} \/ outcome # "none" => Compiles
    /\ at = "running" \/ outcome # "none" =>
          Built[Len(given)].ok /\ values = Built[Len(given)].values
    /\ outcome # "none" /\ exit = 0 => outcome = "ok" /\ DOMAIN Plans[path].inputs \subseteq DOMAIN values

CliInv == args \in Seq(Words(STRING, STRING)) /\ StatusOK /\ StageInv /\ GateInv /\ InputsInv
=============================================================================
