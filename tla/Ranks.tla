-------------------------------- MODULE Ranks --------------------------------
(***************************************************************************)
(* Go's sorted and filtered slices by rank: which element comes k-th.  The *)
(* provers can reason about ranks, not about the recursion inside SortSeq  *)
(* and SelectSeq.                                                          *)
(***************************************************************************)
EXTENDS Integers, Sequences, FiniteSets

\* The k-th smallest of the numbers S, counting from 1.
Nth(S, k) == CHOOSE p \in S : Cardinality({q \in S : q <= p}) = k

\* The numbers S in increasing order.
Listed(S) == [k \in 1 .. Cardinality(S) |-> Nth(S, k)]

\* What f holds at the places P, in the order of the places: an append to a
\* new slice in a loop that skips the other places.
Pick(f, P) == [k \in 1 .. Cardinality(P) |-> f[Nth(P, k)]]

Elements(s) == {s[k] : k \in DOMAIN s}

\* The sequence s of numbers sorted, equal ones kept: the k-th has fewer than k
\* smaller than itself, and with its equals at least k up to itself.
Sorted(s) ==
    [k \in DOMAIN s |->
        CHOOSE v \in Elements(s) :
            /\ Cardinality({j \in DOMAIN s : s[j] < v}) < k
            /\ Cardinality({j \in DOMAIN s : s[j] <= v}) >= k]

Increasing(s) == \A a, b \in DOMAIN s : a < b => s[a] < s[b]
=============================================================================
