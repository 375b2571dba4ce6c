------------------------------ MODULE MCCompiler ------------------------------
(* Small documents: one input, numbered 0, and steps 1 to 3.               *)
EXTENDS Compiler

In(name, type) == [name |-> name, type |-> type]
SmallCatalog ==
    [source |-> [ins |-> <<>>, out |-> "A"],
     map    |-> [ins |-> <<In(1, "A")>>, out |-> "A"],
     mix    |-> [ins |-> <<In(1, "A"), In(2, "B")>>, out |-> "B"],
     pair   |-> [ins |-> <<In(2, "A"), In(1, "A")>>, out |-> "B"]]

List(order) == [named |-> FALSE, order |-> order, byPort |-> <<>>]
Mapping(byPort) == [named |-> TRUE, order |-> <<>>, byPort |-> byPort]
NoTrigger == [kind |-> "none", answers |-> FALSE, provides |-> [i \in {0} |-> ""],
              timed |-> FALSE, overlap |-> "", respond |-> -1]

Document(type, uses, needs, trigger) ==
    [inputs |-> [i \in {0} |-> type], uses |-> uses, needs |-> needs, trigger |-> trigger]

\* The parser refuses a step that needs itself.
Others(i) == 0 .. 4 \ {i}
Lists(i, names) == {List(<<>>)} \cup {List(<<x>>) : x \in names}
                       \cup {List(<<x, y>>) : x \in names, y \in names}
UsesFor(needs) == CASE Len(needs.order) = 0 -> "source"
                    [] Len(needs.order) = 1 -> "map"
                    [] OTHER -> "mix"

\* Every graph on three steps, with the capability the arity asks for.
Graphs3 ==
    {Document("B", [i \in 1 .. 3 |-> UsesFor(n[i])], n, NoTrigger) :
        n \in {f \in [1 .. 3 -> UNION {Lists(i, 0 .. 3) : i \in 1 .. 3}] :
                  \A i \in 1 .. 3 : f[i] \in Lists(i, 0 .. 3 \ {i})}}

\* Every way two steps may bind, the third being a plain source.
Mappings(names) ==
    {Mapping([p \in P |-> f[p]]) :
        P \in {{1}, {1, 2}, {2, 3}}, f \in [1 .. 3 -> names]}
NeedsOf(i) == LET names == {0, 3 - i, 4} IN Lists(i, names) \cup Mappings(names)
Bindings ==
    {Document(type, [i \in 1 .. 3 |-> IF i = 3 THEN "source" ELSE u[i]],
              [i \in 1 .. 3 |-> CASE i = 1 -> n1 [] i = 2 -> n2 [] OTHER -> List(<<>>)], NoTrigger) :
        type \in {"A", "C"}, u \in [1 .. 2 -> {"map", "mix", "pair", "broken"}],
        n1 \in NeedsOf(1), n2 \in {List(<<3>>), List(<<1>>), List(<<0, 1>>), List(<<4>>), Mapping([p \in {1} |-> 3])}}

\* Every trigger, over a file that is otherwise well-formed.
Triggers ==
    {Document("A", [i \in 1 .. 3 |-> IF i = 1 THEN "pair" ELSE "map"],
              [i \in 1 .. 3 |-> IF i = 1 THEN Mapping([p \in {1, 2} |-> 2 * (p - 1)]) ELSE List(<<0>>)],
              [kind |-> k, answers |-> a, provides |-> [i \in {0} |-> g],
               timed |-> d, overlap |-> o, respond |-> r]) :
        k \in {"built", "broken"}, a \in BOOLEAN, g \in {"", "A", "B"}, d \in BOOLEAN,
        o \in {"", "drop"}, r \in {-1, 0, 1, 2, 4}}

SmallFiles == Graphs3 \cup Bindings \cup Triggers
=============================================================================
