------------------------------ MODULE RankProofs ------------------------------
(***************************************************************************)
(* Lemmas about Ranks: least numbers, ranks, filtered and sorted slices.   *)
(***************************************************************************)
EXTENDS Ranks, FiniteSetTheorems, SequenceTheorems, TLAPS

\* A set of naturals has a least element: what induction over steps rests on.
LEMMA LeastNat ==
  ASSUME NEW T \in SUBSET Nat, T # {}
  PROVE  \E n \in T : \A m \in T : n <= m
<1> DEFINE R == {ss \in Nat \X Nat : ss[1] < ss[2]}
<1>1. IsWellFoundedOn(R, Nat)
  BY NatLessThanWellFounded, Zenon DEF OpToRel
<1>2. PICK n \in T : \A m \in T : ~(<<m, n>> \in R)
  BY <1>1, WFMin
<1>3. \A m \in T : ~(m < n)
  BY <1>2
<1> QED
  BY <1>3

\* Two numbers of one rank are one number: sorting names each once.
LEMMA RankInjective ==
  ASSUME NEW P \in SUBSET Nat, IsFiniteSet(P), NEW p \in P, NEW r \in P,
         Cardinality({q \in P : q <= r}) = Cardinality({q \in P : q <= p})
  PROVE  r = p
<1> DEFINE Up(x) == {q \in P : q <= x}
<1>1. ASSUME NEW a \in P, NEW b \in P, a < b, Cardinality(Up(a)) = Cardinality(Up(b)) PROVE FALSE
  <2>0. a \in Nat /\ b \in Nat /\ \A q \in P : q \in Nat
    OBVIOUS
  <2>1. Up(b) \in SUBSET P /\ Up(a) \in SUBSET Up(b)
    <3>1. \A q \in P : q <= a => q <= b
      BY <1>1, <2>0
    <3> QED
      BY <3>1
  <2>2. IsFiniteSet(Up(b))
    BY <2>1, FS_Subset
  <2>3. Up(b) = Up(a)
    BY <1>1, <2>1, <2>2, FS_Subset
  <2>4. b \in Up(b) /\ b \notin Up(a)
    BY <1>1
  <2> QED
    BY <2>3, <2>4
<1> HIDE DEF Up
<1>2. Cardinality(Up(r)) = Cardinality(Up(p))
  BY DEF Up
<1>3. p \in Int /\ r \in Int
  OBVIOUS
<1> QED
  BY <1>1, <1>2, <1>3

\* In a finite set of numbers each has a rank, and each rank is some number's.
LEMMA NthRank ==
  ASSUME NEW S \in SUBSET Nat, IsFiniteSet(S)
  PROVE  /\ \A p \in S : /\ Cardinality({q \in S : q <= p}) \in 1 .. Cardinality(S)
                         /\ Nth(S, Cardinality({q \in S : q <= p})) = p
         /\ \A k \in 1 .. Cardinality(S) : Nth(S, k) \in S /\ Cardinality({q \in S : q <= Nth(S, k)}) = k
<1> DEFINE Rank(p) == Cardinality({q \in S : q <= p})
           n == Cardinality(S)
<1>n. n \in Nat
  BY FS_CardinalityType
<1>1. ASSUME NEW p \in S PROVE Rank(p) \in 1 .. n
  <2>1. {q \in S : q <= p} \in SUBSET S /\ {p} \in SUBSET {q \in S : q <= p}
    OBVIOUS
  <2>2. IsFiniteSet({q \in S : q <= p}) /\ Rank(p) <= n
    BY <2>1, FS_Subset
  <2>3. Cardinality({p}) <= Rank(p)
    BY <2>1, <2>2, FS_Subset
  <2>4. Cardinality({p}) = 1 /\ Rank(p) \in Nat
    BY <2>2, FS_Singleton, FS_CardinalityType
  <2> QED
    BY <1>n, <2>2, <2>3, <2>4
<1>2. ASSUME NEW p \in S, NEW r \in S, Rank(r) = Rank(p) PROVE r = p
  BY <1>2, RankInjective
<1>3. ASSUME NEW k \in 1 .. n PROVE \E p \in S : Rank(p) = k
  <2> DEFINE f == [p \in S |-> Rank(p)]
  <2> HIDE DEF Rank, n
  <2>1. f \in Injection(S, 1 .. n)
    BY <1>1, <1>2 DEF Injection, IsInjective
  <2>2. IsFiniteSet(1 .. n) /\ Cardinality(1 .. n) = n
    BY <1>n, FS_Interval
  <2>3. Cardinality(S) = Cardinality(1 .. n)
    BY <2>2 DEF n
  <2>4. f \in Surjection(S, 1 .. n)
    BY <2>1, <2>2, <2>3, FS_Injection
  <2> QED
    BY <2>4 DEF Surjection
<1>4. ASSUME NEW k \in 1 .. n PROVE Nth(S, k) \in S /\ Rank(Nth(S, k)) = k
  BY <1>3 DEF Nth
<1>5. ASSUME NEW p \in S PROVE Nth(S, Rank(p)) = p
  <2> DEFINE r == Nth(S, Rank(p))
  <2>1. r \in S /\ Rank(r) = Rank(p)
    BY <1>1, <1>4
  <2> HIDE DEF r, Rank
  <2>2. r = p
    BY <1>2, <2>1
  <2> QED
    BY <2>2 DEF r
<1> QED
  BY <1>1, <1>4, <1>5


\* Ranks order the numbers.
LEMMA NthOrder ==
  ASSUME NEW S \in SUBSET Nat, IsFiniteSet(S),
         NEW a \in 1 .. Cardinality(S), NEW b \in 1 .. Cardinality(S), a < b
  PROVE  Nth(S, a) < Nth(S, b)
<1> DEFINE x == Nth(S, a)
           y == Nth(S, b)
           Up(z) == {q \in S : q <= z}
<1>1. x \in S /\ y \in S /\ Cardinality(Up(x)) = a /\ Cardinality(Up(y)) = b
  BY NthRank
<1> HIDE DEF x, y
<1>2. a \in Int /\ b \in Int /\ x \in Nat /\ y \in Nat
  <2>1. Cardinality(S) \in Nat
    BY FS_CardinalityType
  <2>2. a \in Int /\ b \in Int
    BY <2>1
  <2>3. x \in Nat /\ y \in Nat
    BY <1>1
  <2> QED
    BY <2>2, <2>3
<1>3. ASSUME y <= x PROVE FALSE
  <2>1. \A q \in S : q <= y => q <= x
    BY <1>2, <1>3
  <2>2. Up(y) \in SUBSET Up(x) /\ Up(x) \in SUBSET S
    BY <2>1
  <2>3. IsFiniteSet(Up(x))
    BY <2>2, FS_Subset
  <2>4. Cardinality(Up(y)) <= Cardinality(Up(x))
    BY <2>2, <2>3, FS_Subset
  <2> QED
    BY <1>1, <1>2, <2>4
<1> QED
  BY <1>2, <1>3 DEF x, y

\* An increasing sequence repeats nothing.
LEMMA IncreasingInjective ==
  ASSUME NEW s \in Seq(Nat), Increasing(s)
  PROVE  IsInjective(s)
<1>1. DOMAIN s \in SUBSET Nat /\ \A a \in DOMAIN s : s[a] \in Nat
  <2>1. DOMAIN s = 1 .. Len(s) /\ Len(s) \in Nat
    BY LenProperties
  <2> QED
    BY <2>1, ElementOfSeq
<1>2. ASSUME NEW a \in DOMAIN s, NEW b \in DOMAIN s, s[a] = s[b] PROVE a = b
  <2>1. a \in Nat /\ b \in Nat /\ s[a] \in Nat /\ s[b] \in Nat
    BY <1>1
  <2>2. (a < b => s[a] < s[b]) /\ (b < a => s[b] < s[a])
    BY DEF Increasing
  <2> QED
    BY <1>2, <2>1, <2>2
<1> QED
  BY <1>2 DEF IsInjective

\* Filtering a slice keeps what it selects, in order and as often as it was there.
LEMMA PickSeq ==
  ASSUME NEW s \in Seq(Nat), NEW P \in SUBSET DOMAIN s
  PROVE  /\ Pick(s, P) \in Seq(Nat) /\ Len(Pick(s, P)) = Cardinality(P)
         /\ IsFiniteSet(P) /\ Cardinality(P) \in Nat
         /\ Elements(Pick(s, P)) = {s[k] : k \in P}
         /\ IsInjective(s) => IsInjective(Pick(s, P))
         /\ Increasing(s) => Increasing(Pick(s, P))
<1> DEFINE t == Pick(s, P)
           c == Cardinality(P)
           rank(x) == Cardinality({q \in P : q <= x})
<1>1. /\ DOMAIN s = 1 .. Len(s) /\ Len(s) \in Nat
      /\ \A k \in DOMAIN s : s[k] \in Nat
  BY LenProperties, ElementOfSeq
<1>2. IsFiniteSet(P) /\ P \in SUBSET Nat /\ c \in Nat
  <2>1. IsFiniteSet(DOMAIN s)
    BY <1>1, FS_Interval
  <2> QED
    BY <1>1, <2>1, FS_Subset, FS_CardinalityType
<1>3. /\ \A x \in P : rank(x) \in 1 .. c /\ Nth(P, rank(x)) = x
      /\ \A k \in 1 .. c : Nth(P, k) \in P /\ rank(Nth(P, k)) = k
  BY <1>2, NthRank
<1>4. \A a, b \in 1 .. c : a < b => Nth(P, a) < Nth(P, b)
  BY <1>2, NthOrder
<1>5. DOMAIN t = 1 .. c /\ \A k \in 1 .. c : t[k] = s[Nth(P, k)]
  BY DEF Pick
<1>6. t \in Seq(Nat) /\ Len(t) = c
  <2>1. \A k \in 1 .. c : s[Nth(P, k)] \in Nat
    BY <1>1, <1>3
  <2> HIDE DEF c
  <2>2. t \in [1 .. c -> Nat]
    BY <2>1 DEF Pick, c
  <2>3. t \in Seq(Nat)
    BY <1>2, <2>2, SeqDef
  <2>4. DOMAIN t = 1 .. Len(t) /\ Len(t) \in Nat
    BY <2>3, LenProperties
  <2> HIDE DEF t
  <2>5. Len(t) = c
    BY <1>2, <1>5, <2>4
  <2> QED
    BY <2>3, <2>5
<1> HIDE DEF c, rank, t
<1>7. Elements(t) = {s[k] : k \in P}
  <2>1. ASSUME NEW k \in P PROVE \E j \in 1 .. c : t[j] = s[k]
    BY <1>3, <1>5
  <2>2. ASSUME NEW j \in 1 .. c PROVE \E k \in P : t[j] = s[k]
    BY <1>3, <1>5
  <2>3. \A v : v \in Elements(t) <=> \E j \in 1 .. c : v = t[j]
    BY <1>5 DEF Elements
  <2>4. \A v : v \in {s[k] : k \in P} <=> \E k \in P : v = s[k]
    OBVIOUS
  <2>5. \A v : v \in Elements(t) <=> v \in {s[k] : k \in P}
    BY <2>1, <2>2, <2>3, <2>4
  <2> QED
    BY <2>5
<1>8. ASSUME IsInjective(s) PROVE IsInjective(t)
  <2>1. ASSUME NEW a \in 1 .. c, NEW b \in 1 .. c, t[a] = t[b] PROVE a = b
    <3>1. Nth(P, a) \in DOMAIN s /\ Nth(P, b) \in DOMAIN s /\ s[Nth(P, a)] = s[Nth(P, b)]
      BY <1>3, <1>5, <2>1
    <3>2. Nth(P, a) = Nth(P, b)
      BY <1>8, <3>1 DEF IsInjective
    <3>3. rank(Nth(P, a)) = a /\ rank(Nth(P, b)) = b
      BY <1>3
    <3> QED
      BY <3>2, <3>3
  <2> QED
    BY <1>5, <2>1 DEF IsInjective
<1>9. ASSUME Increasing(s) PROVE Increasing(t)
  <2>1. ASSUME NEW a \in 1 .. c, NEW b \in 1 .. c, a < b PROVE t[a] < t[b]
    <3>1. Nth(P, a) \in DOMAIN s /\ Nth(P, b) \in DOMAIN s /\ Nth(P, a) < Nth(P, b)
      BY <1>3, <1>4, <2>1
    <3>2. s[Nth(P, a)] < s[Nth(P, b)]
      BY <1>9, <3>1 DEF Increasing
    <3> QED
      BY <1>5, <3>2
  <2> QED
    BY <1>5, <2>1 DEF Increasing
<1> QED
  BY <1>2, <1>6, <1>7, <1>8, <1>9 DEF t, c

\* Appending one element.
LEMMA AppendSeq ==
  ASSUME NEW s \in Seq(Nat), NEW e \in Nat
  PROVE  /\ Append(s, e) \in Seq(Nat)
         /\ Elements(Append(s, e)) = Elements(s) \cup {e}
         /\ IsInjective(s) /\ e \notin Elements(s) => IsInjective(Append(s, e))
         /\ Increasing(s) /\ (\A x \in Elements(s) : x < e) => Increasing(Append(s, e))
<1> DEFINE t == Append(s, e)
           n == Len(s)
<1>1. /\ t \in Seq(Nat) /\ Len(t) = n + 1
      /\ \A i \in 1 .. n : t[i] = s[i]
      /\ t[n + 1] = e
  BY AppendProperties
<1>2. n \in Nat /\ DOMAIN s = 1 .. n
  BY LenProperties
<1>3. DOMAIN t = 1 .. n + 1
  BY <1>1, LenProperties
<1> HIDE DEF t, n
<1>4. 1 .. n + 1 = (1 .. n) \cup {n + 1}
  BY <1>2
<1>5. \A i \in 1 .. n : s[i] \in Elements(s)
  BY <1>2 DEF Elements
<1>6. \A v : v \in Elements(s) <=> \E i \in 1 .. n : v = s[i]
  BY <1>2 DEF Elements
<1>7. \A v : v \in Elements(t) <=> \E i \in 1 .. n + 1 : v = t[i]
  BY <1>3 DEF Elements
<1>8. Elements(t) = Elements(s) \cup {e}
  <2>1. ASSUME NEW v PROVE v \in Elements(t) <=> v \in Elements(s) \/ v = e
    BY <1>1, <1>4, <1>6, <1>7
  <2> QED
    BY <2>1
<1>9. ASSUME IsInjective(s), e \notin Elements(s) PROVE IsInjective(t)
  <2>1. ASSUME NEW a \in 1 .. n + 1, NEW b \in 1 .. n + 1, t[a] = t[b] PROVE a = b
    <3>1. CASE a \in 1 .. n /\ b \in 1 .. n
      BY <1>1, <1>2, <1>9, <2>1, <3>1 DEF IsInjective
    <3>2. CASE a = n + 1 /\ b \in 1 .. n
      BY <1>1, <1>5, <1>9, <2>1, <3>2
    <3>3. CASE b = n + 1 /\ a \in 1 .. n
      BY <1>1, <1>5, <1>9, <2>1, <3>3
    <3> QED
      BY <1>4, <3>1, <3>2, <3>3
  <2> QED
    BY <1>3, <2>1 DEF IsInjective
<1>10. ASSUME Increasing(s), \A x \in Elements(s) : x < e PROVE Increasing(t)
  <2>1. ASSUME NEW a \in 1 .. n + 1, NEW b \in 1 .. n + 1, a < b PROVE t[a] < t[b]
    <3>1. a \in 1 .. n
      BY <1>2, <2>1
    <3>2. CASE b \in 1 .. n
      BY <1>1, <1>2, <1>10, <2>1, <3>1, <3>2 DEF Increasing
    <3>3. CASE b = n + 1
      BY <1>1, <1>5, <1>10, <3>1, <3>3
    <3> QED
      BY <1>4, <3>2, <3>3
  <2> QED
    BY <1>3, <2>1 DEF Increasing
<1> QED
  BY <1>1, <1>8, <1>9, <1>10 DEF t

\* Appending one slice to another.
LEMMA ConcatSeq ==
  ASSUME NEW s \in Seq(Nat), NEW u \in Seq(Nat)
  PROVE  /\ s \o u \in Seq(Nat)
         /\ Elements(s \o u) = Elements(s) \cup Elements(u)
         /\ IsInjective(s) /\ IsInjective(u) /\ Elements(s) \cap Elements(u) = {} => IsInjective(s \o u)
<1> DEFINE t == s \o u
           n == Len(s)
           m == Len(u)
<1>1. /\ t \in Seq(Nat) /\ Len(t) = n + m
      /\ \A i \in 1 .. n + m : t[i] = IF i <= n THEN s[i] ELSE u[i - n]
  BY ConcatProperties
<1>2. n \in Nat /\ DOMAIN s = 1 .. n /\ m \in Nat /\ DOMAIN u = 1 .. m
  BY LenProperties
<1>3. DOMAIN t = 1 .. n + m
  BY <1>1, LenProperties
<1> HIDE DEF t, n, m
<1>4. ASSUME NEW i \in 1 .. n + m
      PROVE  \/ i \in 1 .. n /\ t[i] = s[i]
             \/ i - n \in 1 .. m /\ t[i] = u[i - n]
  <2>1. CASE i <= n
    BY <1>1, <1>2, <2>1
  <2>2. CASE ~(i <= n)
    BY <1>1, <1>2, <2>2
  <2> QED
    BY <2>1, <2>2
<1>5. /\ \A i \in 1 .. n : i \in 1 .. n + m /\ t[i] = s[i]
      /\ \A i \in 1 .. m : i + n \in 1 .. n + m /\ t[i + n] = u[i]
  <2>1. ASSUME NEW i \in 1 .. n PROVE i \in 1 .. n + m /\ i <= n
    BY <1>2
  <2>2. ASSUME NEW i \in 1 .. m PROVE i + n \in 1 .. n + m /\ ~(i + n <= n) /\ (i + n) - n = i
    BY <1>2
  <2>3. ASSUME NEW i \in 1 .. m PROVE t[i + n] = u[i]
    BY <1>1, <2>2
  <2> QED
    BY <1>1, <2>1, <2>2, <2>3
<1>6. /\ \A v : v \in Elements(s) <=> \E i \in 1 .. n : v = s[i]
      /\ \A v : v \in Elements(u) <=> \E i \in 1 .. m : v = u[i]
      /\ \A v : v \in Elements(t) <=> \E i \in 1 .. n + m : v = t[i]
  BY <1>2, <1>3 DEF Elements
<1>7. Elements(t) = Elements(s) \cup Elements(u)
  <2>1. ASSUME NEW v \in Elements(t) PROVE v \in Elements(s) \cup Elements(u)
    <3>1. PICK i \in 1 .. n + m : v = t[i]
      BY <1>6
    <3>2. (i \in 1 .. n /\ v = s[i]) \/ (i - n \in 1 .. m /\ v = u[i - n])
      BY <1>4, <3>1
    <3> QED
      BY <1>6, <3>2
  <2>2. ASSUME NEW v \in Elements(s) PROVE v \in Elements(t)
    <3>1. PICK i \in 1 .. n : v = s[i]
      BY <1>6
    <3>2. i \in 1 .. n + m /\ v = t[i]
      BY <1>5, <3>1
    <3> QED
      BY <1>6, <3>2
  <2>3. ASSUME NEW v \in Elements(u) PROVE v \in Elements(t)
    <3>1. PICK i \in 1 .. m : v = u[i]
      BY <1>6
    <3>2. i + n \in 1 .. n + m /\ v = t[i + n]
      BY <1>5, <3>1
    <3> QED
      BY <1>6, <3>2
  <2> QED
    BY <2>1, <2>2, <2>3
<1>8. ASSUME IsInjective(s), IsInjective(u), Elements(s) \cap Elements(u) = {} PROVE IsInjective(t)
  <2>1. ASSUME NEW a \in 1 .. n + m, NEW b \in 1 .. n + m, t[a] = t[b] PROVE a = b
    <3>1. CASE a \in 1 .. n /\ t[a] = s[a] /\ b \in 1 .. n /\ t[b] = s[b]
      BY <1>2, <1>8, <2>1, <3>1 DEF IsInjective
    <3>2. CASE a - n \in 1 .. m /\ t[a] = u[a - n] /\ b - n \in 1 .. m /\ t[b] = u[b - n]
      <4>1. a - n = b - n
        BY <1>2, <1>8, <2>1, <3>2 DEF IsInjective
      <4> QED
        BY <1>2, <4>1
    <3>3. CASE a \in 1 .. n /\ t[a] = s[a] /\ b - n \in 1 .. m /\ t[b] = u[b - n]
      <4>1. t[a] \in Elements(s) /\ t[b] \in Elements(u)
        BY <1>6, <3>3
      <4> QED
        BY <1>8, <2>1, <4>1
    <3>4. CASE a - n \in 1 .. m /\ t[a] = u[a - n] /\ b \in 1 .. n /\ t[b] = s[b]
      <4>1. t[b] \in Elements(s) /\ t[a] \in Elements(u)
        BY <1>6, <3>4
      <4> QED
        BY <1>8, <2>1, <4>1
    <3>5. /\ (a \in 1 .. n /\ t[a] = s[a]) \/ (a - n \in 1 .. m /\ t[a] = u[a - n])
          /\ (b \in 1 .. n /\ t[b] = s[b]) \/ (b - n \in 1 .. m /\ t[b] = u[b - n])
      BY <1>4
    <3> QED
      BY <3>1, <3>2, <3>3, <3>4, <3>5
  <2> QED
    BY <1>3, <2>1 DEF IsInjective
<1> QED
  BY <1>1, <1>7, <1>8 DEF t

\* Fewer than two, or another for each.
LEMMA TwoOrMore ==
  ASSUME NEW S, IsFiniteSet(S)
  PROVE  /\ Cardinality(S) < 2 => \A a, b \in S : a = b
         /\ ~(Cardinality(S) < 2) => \A a \in S : \E b \in S : b # a
<1>1. Cardinality(S) \in Nat
  BY FS_CardinalityType
<1>2. ASSUME Cardinality(S) < 2, NEW a \in S, NEW b \in S PROVE a = b
  <2>1. {a, b} \in SUBSET S
    OBVIOUS
  <2>2. Cardinality({a, b}) <= Cardinality(S)
    BY <2>1, FS_Subset
  <2>3. Cardinality({a} \cup {b}) = IF b \in {a} THEN Cardinality({a}) ELSE Cardinality({a}) + 1
    BY FS_Singleton, FS_AddElement
  <2>4. {a} \cup {b} = {a, b} /\ Cardinality({a}) = 1
    BY FS_Singleton
  <2> QED
    BY <1>1, <1>2, <2>2, <2>3, <2>4
<1>3. ASSUME ~(Cardinality(S) < 2), NEW a \in S, \A b \in S : b = a PROVE FALSE
  <2>1. S = {a}
    BY <1>3
  <2>2. Cardinality(S) = 1
    BY <2>1, FS_Singleton
  <2> QED
    BY <1>3, <2>2
<1> QED
  BY <1>2, <1>3

\* Sorting a slice without repetitions keeps its elements and orders them.
LEMMA SortedSeq ==
  ASSUME NEW s \in Seq(Nat), IsInjective(s)
  PROVE  Sorted(s) \in Seq(Nat) /\ Elements(Sorted(s)) = Elements(s) /\ Increasing(Sorted(s))
<1> DEFINE S == Elements(s)
           n == Len(s)
           Up(v) == {j \in DOMAIN s : s[j] <= v}
           Below(v) == {j \in DOMAIN s : s[j] < v}
           rank(v) == Cardinality({q \in S : q <= v})
<1>1. n \in Nat /\ DOMAIN s = 1 .. n /\ \A k \in 1 .. n : s[k] \in Nat
  BY LenProperties, ElementOfSeq
<1>2. \A v : v \in S <=> \E k \in 1 .. n : v = s[k]
  BY <1>1 DEF Elements
<1> HIDE DEF S, n
<1>3. S \in SUBSET Nat
  BY <1>1, <1>2
<1>4. IsFiniteSet(S) /\ Cardinality(S) = n
  <2>1. s \in [1 .. n -> S]
    <3>1. s \in [1 .. n -> Nat]
      BY LenProperties DEF n
    <3> QED
      BY <1>2, <3>1
  <2>2. s \in Bijection(1 .. n, S)
    BY <1>1, <1>2, <2>1 DEF Bijection, Injection, Surjection, IsInjective
  <2>3. ExistsBijection(1 .. n, S)
    BY <2>2 DEF ExistsBijection
  <2>4. IsFiniteSet(1 .. n) /\ Cardinality(1 .. n) = n
    BY <1>1, FS_Interval
  <2> QED
    BY <2>3, <2>4, FS_Bijection
<1>5. ASSUME NEW v \in S
      PROVE  /\ Cardinality(Up(v)) = rank(v) /\ rank(v) \in Nat
             /\ Cardinality(Below(v)) = rank(v) - 1
  <2> DEFINE Q == {q \in S : q <= v}
             f == [j \in Up(v) |-> s[j]]
  <2>1. Up(v) \in SUBSET (1 .. n) /\ IsFiniteSet(Up(v))
    <3>1. Up(v) \in SUBSET (1 .. n) /\ IsFiniteSet(1 .. n)
      BY <1>1, FS_Interval
    <3> QED
      BY <3>1, FS_Subset
  <2>2. f \in Bijection(Up(v), Q)
    <3>1. \A j \in Up(v) : f[j] \in Q
      BY <1>1, <1>2
    <3>2. ASSUME NEW a \in Up(v), NEW b \in Up(v), f[a] = f[b] PROVE a = b
      BY <3>2 DEF IsInjective
    <3>3. ASSUME NEW q \in Q PROVE \E j \in Up(v) : f[j] = q
      BY <1>1, <1>2
    <3>4. f \in [Up(v) -> Q]
      BY <3>1
    <3> HIDE DEF Up, Q, f
    <3> QED
      BY <3>2, <3>3, <3>4 DEF Bijection, Injection, Surjection, IsInjective
  <2>3. ExistsBijection(Up(v), Q)
    BY <2>2 DEF ExistsBijection
  <2>4. Cardinality(Up(v)) = rank(v) /\ rank(v) \in Nat
    <3>1. Cardinality(Q) = Cardinality(Up(v)) /\ Cardinality(Up(v)) \in Nat
      BY <2>1, <2>3, FS_Bijection, FS_CardinalityType
    <3> QED
      BY <3>1
  <2>5. PICK k \in 1 .. n : v = s[k]
    BY <1>2
  <2>6. k \in Up(v)
    BY <1>1, <2>5
  <2>7. Below(v) = Up(v) \ {k}
    <3>1. ASSUME NEW j \in 1 .. n PROVE s[j] < v <=> s[j] <= v /\ j # k
      <4>1. s[j] \in Nat /\ v \in Nat /\ (s[j] = s[k] => j = k)
        BY <1>1, <1>3 DEF IsInjective
      <4> QED
        BY <2>5, <4>1
    <3> QED
      BY <1>1, <3>1
  <2>8. Cardinality(Up(v) \ {k}) = Cardinality(Up(v)) - 1
    BY <2>1, <2>6, FS_RemoveElement
  <2> QED
    BY <2>4, <2>7, <2>8
<1>6. /\ \A v \in S : rank(v) \in 1 .. n /\ Nth(S, rank(v)) = v
      /\ \A k \in 1 .. n : Nth(S, k) \in S /\ rank(Nth(S, k)) = k
  BY <1>3, <1>4, NthRank
<1> DEFINE Is(v, k) == Cardinality(Below(v)) < k /\ Cardinality(Up(v)) >= k
<1>7. ASSUME NEW k \in 1 .. n, NEW v \in S PROVE Is(v, k) <=> v = Nth(S, k)
  <2>1. rank(v) \in Nat /\ (Is(v, k) <=> rank(v) - 1 < k /\ rank(v) >= k)
    BY <1>5
  <2> HIDE DEF rank, Is
  <2>2. k \in Nat
    BY <1>1
  <2>3. Is(v, k) <=> rank(v) = k
    BY <2>1, <2>2
  <2> QED
    BY <1>6, <2>3
<1>8. Sorted(s) = [k \in 1 .. n |-> Nth(S, k)]
  <2>1. Sorted(s) = [k \in 1 .. n |-> CHOOSE v \in S : Is(v, k)]
    BY <1>1 DEF Sorted, S
  <2> HIDE DEF Is, rank
  <2>2. ASSUME NEW k \in 1 .. n PROVE (CHOOSE v \in S : Is(v, k)) = Nth(S, k)
    <3>1. Nth(S, k) \in S /\ Is(Nth(S, k), k)
      BY <1>6, <1>7
    <3>2. (CHOOSE v \in S : Is(v, k)) \in S /\ Is(CHOOSE v \in S : Is(v, k), k)
      BY <3>1, Zenon
    <3> QED
      BY <1>7, <3>2
  <2> QED
    BY <2>1, <2>2
<1> HIDE DEF rank
<1> DEFINE t == Sorted(s)
<1>9. t \in Seq(Nat) /\ DOMAIN t = 1 .. n /\ \A k \in 1 .. n : t[k] = Nth(S, k)
  <2>1. t \in [1 .. n -> Nat]
    BY <1>3, <1>6, <1>8
  <2>2. t \in Seq(Nat)
    BY <1>1, <2>1, SeqDef
  <2> QED
    BY <1>8, <2>2
<1> HIDE DEF t
<1>10. Elements(t) = S
  <2>1. ASSUME NEW v PROVE v \in Elements(t) <=> \E k \in 1 .. n : v = Nth(S, k)
    BY <1>9 DEF Elements
  <2>2. ASSUME NEW v \in S PROVE \E k \in 1 .. n : v = Nth(S, k)
    <3>1. rank(v) \in 1 .. n /\ Nth(S, rank(v)) = v
      BY <1>6
    <3> QED
      BY <3>1
  <2>3. ASSUME NEW v PROVE v \in Elements(t) <=> v \in S
    <3>1. ASSUME v \in Elements(t) PROVE v \in S
      BY <1>6, <2>1, <3>1
    <3>2. ASSUME v \in S PROVE v \in Elements(t)
      BY <2>1, <2>2, <3>2
    <3> QED
      BY <3>1, <3>2
  <2> QED
    BY <2>3
<1>11. Increasing(t)
  <2>1. ASSUME NEW a \in 1 .. n, NEW b \in 1 .. n, a < b PROVE Nth(S, a) < Nth(S, b)
    BY <1>3, <1>4, <2>1, NthOrder
  <2> QED
    BY <1>9, <2>1 DEF Increasing
<1> QED
  BY <1>9, <1>10, <1>11 DEF t, S
=============================================================================
