---------------------------- MODULE CompilerProofs ----------------------------
(***************************************************************************)
(* Proofs about Compiler, for any number of inputs and steps, any catalog  *)
(* and any documents: IInv is an inductive invariant, and with it what the *)
(* compiler accepts, the cycle it reports and that no fault hides another. *)
(***************************************************************************)
EXTENDS Compiler, RankProofs

-----------------------------------------------------------------------------
(* The document.                                                           *)

\* What the parser hands the compiler for every step.
LEMMA NeedsType ==
  ASSUME IsFile(file), NEW i \in StepIndex
  PROVE  /\ file.needs[i].named \in BOOLEAN
         /\ file.needs[i].order \in Seq(0 .. N)
         /\ DOMAIN file.needs[i].byPort \subseteq Nat
         /\ IsFiniteSet(DOMAIN file.needs[i].byPort)
         /\ \A p \in DOMAIN file.needs[i].byPort : file.needs[i].byPort[p] \in 0 .. N
BY DEF IsFile

\* Inputs come first, and every index is an input's or a step's.
LEMMA Indices ==
  /\ Index = InputIndex \cup StepIndex
  /\ InputIndex \cap StepIndex = {}
  /\ InputIndex \subseteq Nat /\ StepIndex \subseteq Nat
<1>1. N \in Nat /\ NumInputs \in 0 .. N
  BY CompilerAssumption
<1>2. \A i : i \in Index <=> i \in InputIndex \/ i \in StepIndex
  BY <1>1 DEF Index, InputIndex, StepIndex
<1>3. \A i : ~(i \in InputIndex /\ i \in StepIndex)
  BY <1>1 DEF InputIndex, StepIndex
<1>4. InputIndex \subseteq Nat /\ StepIndex \subseteq Nat
  BY <1>1 DEF InputIndex, StepIndex
<1> QED
  BY <1>2, <1>3, <1>4

\* The needs of a step are a list, in either form, and an input has none.
LEMMA NeedsList ==
  ASSUME IsFile(file), NEW i \in Index
  PROVE  /\ Len(NeedsSteps(i)) \in Nat
         /\ DOMAIN NeedsSteps(i) = 1 .. Len(NeedsSteps(i))
         /\ i \in InputIndex => Len(NeedsSteps(i)) = 0
<1>1. CASE i \in InputIndex
  BY <1>1 DEF NeedsSteps, Pick
<1>2. CASE i \in StepIndex /\ ~file.needs[i].named
  <2>1. NeedsSteps(i) = file.needs[i].order
    BY <1>2, Indices DEF NeedsSteps, Pick
  <2>2. file.needs[i].order \in Seq(0 .. N)
    BY <1>2, NeedsType
  <2> QED
    BY <1>2, <2>1, <2>2, LenProperties, Indices
<1>3. CASE i \in StepIndex /\ file.needs[i].named
  <2> DEFINE byPort == file.needs[i].byPort
             n == Cardinality(DOMAIN byPort)
  <2>1. NeedsSteps(i) = [k \in 1 .. n |-> byPort[Nth(DOMAIN byPort, k)]]
    BY <1>3, Indices DEF NeedsSteps, Pick
  <2>2. n \in Nat
    BY <1>3, NeedsType, FS_CardinalityType
  <2> HIDE DEF byPort, n
  <2>3. Len(NeedsSteps(i)) = n /\ DOMAIN NeedsSteps(i) = 1 .. n
    BY <2>1, <2>2
  <2> QED
    BY <1>3, <2>2, <2>3, Indices
<1> QED
  BY <1>1, <1>2, <1>3, Indices

\* The document does not change, and with it who needs whom.
LEMMA NeedsFrame ==
  ASSUME file' = file
  PROVE  /\ \A i : NeedsSteps(i)' = NeedsSteps(i)
         /\ \A i, k : Named(i, k)' = Named(i, k)
         /\ \A i : NeedSet(i)' = NeedSet(i)
         /\ Cyclic' = Cyclic
         /\ \A i : Unresolved(i)' = Unresolved(i)
<1>1. \A i : NeedsSteps(i)' = NeedsSteps(i)
  BY DEF NeedsSteps, Pick
<1>2. \A i, k : Named(i, k)' = Named(i, k)
  BY <1>1 DEF Named
<1>3. \A i : NeedSet(i)' = NeedSet(i)
  BY <1>1, <1>2 DEF NeedSet
<1>4. Cyclic' = Cyclic
  BY <1>3 DEF Cyclic
<1>5. \A i : Unresolved(i)' = Unresolved(i)
  BY <1>1, <1>2 DEF Unresolved, Known
<1> QED
  BY <1>1, <1>2, <1>3, <1>4, <1>5

\* A need is one of the list's.
LEMMA NeedIs ==
  ASSUME IsFile(file), NEW i \in Index
  PROVE  /\ \A m \in 1 .. Len(NeedsSteps(i)) : Named(i, m) \in NeedSet(i)
         /\ \A x \in NeedSet(i) : \E m \in 1 .. Len(NeedsSteps(i)) : x = Named(i, m)
         /\ i \in InputIndex => NeedSet(i) = {}
<1>1. DOMAIN NeedsSteps(i) = 1 .. Len(NeedsSteps(i))
  BY NeedsList
<1>2. i \in InputIndex => DOMAIN NeedsSteps(i) = {}
  BY <1>1, NeedsList
<1> QED
  BY <1>1, <1>2 DEF NeedSet

-----------------------------------------------------------------------------
(* The search for a cycle.                                                 *)

PathType == path \in Seq(Index \X (Nat \ {0}))
ColorType == color \in [Index -> {"white", "grey", "black"}]

\* What a position of the path is.
LEMMA PathAt ==
  ASSUME PathType
  PROVE  /\ Len(path) \in Nat
         /\ \A k \in 1 .. Len(path) :
               /\ path[k][1] \in Index /\ path[k][2] \in Nat /\ path[k][2] >= 1
               /\ path[k] = <<path[k][1], path[k][2]>>
<1>1. Len(path) \in Nat
  BY LenProperties DEF PathType
<1>2. \A k \in 1 .. Len(path) : path[k] \in Index \X (Nat \ {0})
  BY ElementOfSeq DEF PathType
<1> QED
  BY <1>1, <1>2

\* The part of ColorInv that speaks of steps in black alone.
BlackInv ==
    /\ \A i \in Index : color[i] = "black" =>
          \A x \in NeedSet(i) : Known(x) => color[x] = "black"
    /\ \A S \in (SUBSET Index) \ {{}} : (\A i \in S : color[i] = "black") =>
          \E i \in S : NeedSet(i) \cap S = {}

\* A step that turns no step black disturbs none of them.
LEMMA BlackKept ==
  ASSUME BlackInv, file' = file,
         \A i \in Index : color'[i] = "black" <=> color[i] = "black"
  PROVE  BlackInv'
<1>1. \A i : NeedSet(i)' = NeedSet(i)
  BY NeedsFrame
<1>2. ASSUME NEW i \in Index, color'[i] = "black", NEW x \in NeedSet(i), Known(x)
      PROVE  color'[x] = "black"
  BY <1>2 DEF BlackInv, Known
<1>3. ASSUME NEW S \in (SUBSET Index) \ {{}}, \A i \in S : color'[i] = "black"
      PROVE  \E i \in S : NeedSet(i) \cap S = {}
  BY <1>3 DEF BlackInv
<1> QED
  BY <1>1, <1>2, <1>3 DEF BlackInv, Known

\* visit of a step not seen before, from the loop or from the step that needs it.
LEMMA PushKeeps ==
  ASSUME IsFile(file), PathType, ColorType, PathInv, ColorInv, NEW i \in Index, color[i] = "white",
         Push(i), file' = file,
         path # <<>> => Top[2] <= Len(NeedsSteps(Top[1])) /\ Named(Top[1], Top[2]) = i,
         \A j \in Index : j < root' => j < root \/ j = i
  PROVE  PathType' /\ ColorType' /\ PathInv' /\ ColorInv'
<1> DEFINE n == Len(path)
<1>n. n \in Nat /\ \A k \in 1 .. n : /\ path[k][1] \in Index /\ path[k][2] \in Nat /\ path[k][2] >= 1
                                     /\ path[k] = <<path[k][1], path[k][2]>>
  BY PathAt
<1>1. /\ Len(path') = n + 1
      /\ \A k \in 1 .. n : path'[k] = path[k]
      /\ path'[n + 1] = <<i, 1>>
      /\ PathType'
  <2>1. path' = Append(path, <<i, 1>>) /\ <<i, 1>> \in Index \X (Nat \ {0})
    BY DEF Push
  <2> QED
    BY <2>1, AppendProperties DEF PathType
<1>2. /\ \A j \in Index : color'[j] = IF j = i THEN "grey" ELSE color[j]
      /\ ColorType'
  BY DEF Push, ColorType
<1>f. \A x, k : NeedsSteps(x)' = NeedsSteps(x) /\ Named(x, k)' = Named(x, k)
  BY NeedsFrame
<1>t. n > 0 => path[n][2] <= Len(NeedsSteps(path[n][1])) /\ Named(path[n][1], path[n][2]) = i
  <2>1. n > 0 => path # <<>>
    BY <1>n
  <2> QED
    BY <2>1 DEF Top
<1>3. \A k \in 1 .. n : path[k][1] # i
  BY <1>n DEF PathInv
<1>4. ASSUME NEW k \in 1 .. n + 1 PROVE color'[path'[k][1]] = "grey"
  <2>1. CASE k \in 1 .. n
    BY <1>n, <1>1, <1>2, <1>3, <2>1 DEF PathInv
  <2>2. CASE k = n + 1
    BY <1>1, <1>2, <2>2
  <2> QED
    BY <1>n, <2>1, <2>2
<1>5. ASSUME NEW k \in 1 .. n + 1, NEW m \in 1 .. n + 1, path'[k][1] = path'[m][1] PROVE k = m
  <2>1. CASE k \in 1 .. n /\ m \in 1 .. n
    BY <1>1, <1>5, <2>1 DEF PathInv
  <2>2. CASE k = n + 1 \/ m = n + 1
    <3>1. \A x \in 1 .. n : path'[x][1] # path'[n + 1][1]
      BY <1>1, <1>3
    <3> QED
      BY <1>n, <1>5, <2>2, <3>1
  <2> QED
    BY <1>n, <2>1, <2>2
<1>6. ASSUME NEW k \in 1 .. n
      PROVE  /\ path'[k][2] <= Len(NeedsSteps(path'[k][1]))
             /\ Named(path'[k][1], path'[k][2]) = path'[k + 1][1]
  <2>1. CASE k < n
    <3>1. k \in 1 .. n - 1 /\ k + 1 \in 1 .. n
      BY <1>n, <2>1
    <3>2. path'[k] = path[k] /\ path'[k + 1] = path[k + 1]
      BY <1>1, <3>1
    <3> QED
      BY <3>1, <3>2 DEF PathInv
  <2>2. CASE k = n
    <3>1. path'[k] = path[n] /\ path'[k + 1] = <<i, 1>> /\ n > 0
      BY <1>n, <1>1, <2>2
    <3> QED
      BY <1>t, <3>1
  <2> QED
    BY <1>n, <2>1, <2>2
<1>7. PathInv'
  <2>1. (n + 1) - 1 = n
    BY <1>n
  <2> QED
    BY <1>1, <1>4, <1>5, <1>6, <1>f, <2>1 DEF PathInv
<1>8. ASSUME NEW j \in Index, color'[j] = "grey" PROVE \E k \in 1 .. n + 1 : path'[k][1] = j
  <2>1. CASE j = i
    <3>1. n + 1 \in 1 .. n + 1 /\ path'[n + 1][1] = i
      BY <1>n, <1>1
    <3> QED
      BY <2>1, <3>1
  <2>2. CASE j # i
    <3>1. PICK k \in 1 .. n : path[k][1] = j
      BY <1>2, <1>8, <2>2 DEF ColorInv
    <3>2. k \in 1 .. n + 1 /\ path'[k][1] = j
      BY <1>n, <1>1, <3>1
    <3> QED
      BY <3>2
  <2> QED
    BY <2>1, <2>2
<1>9. \A j \in Index : j < root' => color'[j] # "white"
  BY <1>2 DEF ColorInv
<1>10. ASSUME NEW k \in 1 .. n + 1, NEW m \in 1 .. path'[k][2] - 1,
              m <= Len(NeedsSteps(path'[k][1])), Known(Named(path'[k][1], m))
       PROVE  color'[Named(path'[k][1], m)] = "black"
  <2>1. k \in 1 .. n
    BY <1>n, <1>1
  <2>2. path'[k] = path[k]
    BY <1>1, <2>1
  <2>3. color[Named(path[k][1], m)] = "black"
    BY <1>10, <2>1, <2>2 DEF ColorInv
  <2> QED
    BY <1>2, <1>10, <2>2, <2>3 DEF Known
<1>11. BlackInv'
  <2>1. \A j \in Index : color'[j] = "black" <=> color[j] = "black"
    BY <1>2
  <2>2. BlackInv
    BY DEF ColorInv, BlackInv
  <2> QED
    BY <2>1, <2>2, BlackKept
<1>12. ColorInv'
  <2> HIDE DEF n
  <2>1. Len(path') = n + 1 /\ Len(path)' = n + 1
    BY <1>1
  <2>2. \A x : Known(x)' = Known(x)
    BY DEF Known
  <2> QED
    BY <1>8, <1>9, <1>10, <1>11, <1>f, <2>1, <2>2 DEF ColorInv, BlackInv
<1> QED
  BY <1>1, <1>2, <1>7, <1>12

\* The loop of visit goes on past a need that is unknown or finished.
LEMMA FollowKeeps ==
  ASSUME IsFile(file), PathType, ColorType, PathInv, ColorInv, path # <<>>,
         Known(Named(Top[1], Top[2])) => color[Named(Top[1], Top[2])] = "black",
         FollowNext, UNCHANGED <<file, color, root>>
  PROVE  PathType' /\ ColorType' /\ PathInv' /\ ColorInv'
<1> DEFINE n == Len(path)
<1>n. n \in Nat /\ \A k \in 1 .. n : /\ path[k][1] \in Index /\ path[k][2] \in Nat /\ path[k][2] >= 1
                                     /\ path[k] = <<path[k][1], path[k][2]>>
  BY PathAt
<1>0. n \in 1 .. n
  <2>1. n # 0
    BY EmptySeq DEF PathType
  <2> QED
    BY <1>n, <2>1
<1>1. /\ Len(path') = n
      /\ \A k \in 1 .. n : k # n => path'[k] = path[k]
      /\ path'[n] = <<path[n][1], path[n][2] + 1>>
      /\ PathType'
  <2>1. path' = [path EXCEPT ![n] = <<path[n][1], path[n][2] + 1>>]
    BY DEF FollowNext
  <2>2. <<path[n][1], path[n][2] + 1>> \in Index \X (Nat \ {0})
    BY <1>n, <1>0
  <2> QED
    BY <1>0, <2>1, <2>2, ExceptSeq DEF PathType
<1>f. \A x, k : NeedsSteps(x)' = NeedsSteps(x) /\ Named(x, k)' = Named(x, k)
  BY NeedsFrame
<1>2. \A k \in 1 .. n : path'[k][1] = path[k][1] /\ (k # n => path'[k][2] = path[k][2])
  BY <1>1
<1>3. ASSUME NEW k \in 1 .. n - 1
      PROVE  /\ path'[k][2] <= Len(NeedsSteps(path'[k][1]))
             /\ Named(path'[k][1], path'[k][2]) = path'[k + 1][1]
  <2>1. k \in 1 .. n /\ k # n /\ k + 1 \in 1 .. n
    BY <1>n
  <2> QED
    BY <1>2, <2>1 DEF PathInv
<1>4. PathInv'
  BY <1>1, <1>2, <1>3, <1>f DEF PathInv
<1>5. ASSUME NEW k \in 1 .. n, NEW m \in 1 .. path'[k][2] - 1,
             m <= Len(NeedsSteps(path'[k][1])), Known(Named(path'[k][1], m))
      PROVE  color[Named(path'[k][1], m)] = "black"
  <2>1. CASE k # n \/ m # path[n][2]
    <3>1. m \in 1 .. path[k][2] - 1
      BY <1>n, <1>0, <1>1, <1>2, <2>1
    <3> QED
      BY <1>2, <1>5, <3>1 DEF ColorInv
  <2>2. CASE k = n /\ m = path[n][2]
    BY <1>1, <1>5, <2>2 DEF Top
  <2> QED
    BY <2>1, <2>2
<1>6. ColorInv'
  <2> HIDE DEF n
  <2>1. Len(path) = n /\ Len(path)' = n
    BY <1>1 DEF n
  <2>2. \A x : Known(x)' = Known(x) /\ NeedSet(x)' = NeedSet(x)
    BY NeedsFrame DEF Known
  <2>3. \A j \in Index : color[j] = "grey" => \E k \in 1 .. n : path'[k][1] = j
    BY <1>2, <2>1 DEF ColorInv
  <2> QED
    BY <1>5, <1>f, <2>1, <2>2, <2>3 DEF ColorInv
<1> QED
  BY <1>1, <1>4, <1>6 DEF ColorType

\* visit returns: the step and, with it, all it needs are in black, and no set
\* of steps in black that holds it goes round in a circle, as nothing finished
\* earlier needs it.
LEMMA DoneKeeps ==
  ASSUME IsFile(file), PathType, ColorType, PathInv, ColorInv, VisitDone
  PROVE  PathType' /\ ColorType' /\ PathInv' /\ ColorInv'
<1> DEFINE n == Len(path)
           t == path[n][1]
           rest == SubSeq(path, 1, n - 1)
<1>n. n \in Nat /\ \A k \in 1 .. n : /\ path[k][1] \in Index /\ path[k][2] \in Nat /\ path[k][2] >= 1
                                     /\ path[k] = <<path[k][1], path[k][2]>>
  BY PathAt
<1>0. n \in 1 .. n
  <2>1. n # 0
    BY EmptySeq DEF PathType, VisitDone
  <2> QED
    BY <1>n, <2>1
<1>v. /\ path[n][2] > Len(NeedsSteps(t))
      /\ color' = [color EXCEPT ![t] = "black"]
      /\ path' = IF rest = <<>> THEN rest ELSE [rest EXCEPT ![Len(rest)] = <<@[1], @[2] + 1>>]
      /\ UNCHANGED <<file, root>>
  BY DEF VisitDone, Top
<1>c. t \in Index /\ color[t] = "grey" /\ \A j \in Index : color'[j] = IF j = t THEN "black" ELSE color[j]
  BY <1>n, <1>0, <1>v DEF ColorType, PathInv
<1>1. /\ PathType' /\ Len(path') = n - 1
      /\ \A k \in 1 .. n - 1 : /\ path'[k][1] = path[k][1]
                               /\ path'[k][2] = IF k = n - 1 THEN path[k][2] + 1 ELSE path[k][2]
  <2>1. /\ rest \in Seq(Index \X (Nat \ {0})) /\ Len(rest) = n - 1
        /\ \A k \in 1 .. n - 1 : rest[k] = path[k]
    <3>1. n - 1 \in Int /\ 1 \in Int /\ \A k \in 1 .. n - 1 : path[k] \in Index \X (Nat \ {0})
      BY <1>n, <1>0, ElementOfSeq DEF PathType
    <3>2. /\ rest \in Seq(Index \X (Nat \ {0}))
          /\ Len(rest) = IF 1 <= n - 1 THEN (n - 1) - 1 + 1 ELSE 0
          /\ \A k \in 1 .. (n - 1) - 1 + 1 : rest[k] = path[1 + k - 1]
      BY <3>1, SubSeqProperties
    <3> HIDE DEF rest, n
    <3>3. Len(rest) = n - 1 /\ (n - 1) - 1 + 1 = n - 1
      <4>1. n \in Nat /\ n >= 1
        BY <1>n, <1>0
      <4>2. CASE 1 <= n - 1
        BY <3>2, <4>1, <4>2
      <4>3. CASE ~(1 <= n - 1)
        BY <3>2, <4>1, <4>3
      <4> QED
        BY <4>2, <4>3
    <3>4. \A k \in 1 .. n - 1 : 1 + k - 1 = k
      BY <1>n
    <3> QED
      BY <3>2, <3>3, <3>4
  <2>2. CASE rest = <<>>
    <3>1. path' = rest
      BY <1>v, <2>2
    <3> HIDE DEF rest, n
    <3>2. n - 1 = 0
      BY <2>1, <2>2
    <3>3. \A k \in 1 .. n - 1 : FALSE
      BY <1>n, <3>2
    <3> QED
      BY <2>1, <3>1, <3>3 DEF PathType
  <2>3. CASE rest # <<>>
    <3> DEFINE m == n - 1
    <3>1. m \in 1 .. Len(rest) /\ m = Len(rest) /\ m \in 1 .. n
      <4>1. m # 0
        BY <2>1, <2>3, EmptySeq
      <4> QED
        BY <1>n, <1>0, <2>1, <4>1
    <3>2. path' = [rest EXCEPT ![m] = <<path[m][1], path[m][2] + 1>>]
      BY <1>v, <2>1, <2>3, <3>1
    <3>3. <<path[m][1], path[m][2] + 1>> \in Index \X (Nat \ {0})
      BY <1>n, <3>1
    <3> HIDE DEF rest, m
    <3>4. /\ PathType' /\ Len(path') = Len(rest)
          /\ \A k \in 1 .. Len(rest) : path'[k] = IF k = m THEN <<path[m][1], path[m][2] + 1>> ELSE rest[k]
      <4> DEFINE e == <<path[m][1], path[m][2] + 1>>
                 T == Index \X (Nat \ {0})
      <4>1. rest \in Seq(T) /\ m \in 1 .. Len(rest) /\ e \in T /\ path' = [rest EXCEPT ![m] = e]
        BY <2>1, <3>1, <3>2, <3>3
      <4> HIDE DEF e, T
      <4>2. /\ path' \in Seq(T) /\ Len(path') = Len(rest)
            /\ \A k \in 1 .. Len(rest) : path'[k] = IF k = m THEN e ELSE rest[k]
        BY <4>1, ExceptSeq
      <4> QED
        BY <4>2 DEF PathType, e, T
    <3>5. \A k \in 1 .. n - 1 : path'[k] = IF k = m THEN <<path[m][1], path[m][2] + 1>> ELSE path[k]
      BY <2>1, <3>4
    <3>6. \A k \in 1 .. n - 1 : /\ path'[k][1] = path[k][1]
                                 /\ path'[k][2] = IF k = m THEN path[k][2] + 1 ELSE path[k][2]
      BY <3>5
    <3> QED
      BY <2>1, <3>4, <3>6 DEF m
  <2> QED
    BY <2>2, <2>3
<1>f. \A x, k : NeedsSteps(x)' = NeedsSteps(x) /\ Named(x, k)' = Named(x, k)
  BY <1>v, NeedsFrame
<1>2. \A k \in 1 .. n - 1 : k \in 1 .. n /\ k # n /\ path[k][1] # t
  BY <1>n, <1>0 DEF PathInv
<1>3. PathInv'
  <2>1. ASSUME NEW k \in 1 .. n - 1 PROVE color'[path'[k][1]] = "grey"
    <3>1. k \in 1 .. n /\ path'[k][1] = path[k][1] /\ path[k][1] \in Index /\ path[k][1] # t
      BY <1>n, <1>1, <1>2
    <3>2. color[path[k][1]] = "grey"
      BY <3>1 DEF PathInv
    <3> QED
      BY <1>c, <3>1, <3>2
  <2>2. \A k, m \in 1 .. n - 1 : path'[k][1] = path'[m][1] => k = m
    BY <1>1, <1>2 DEF PathInv
  <2>3. ASSUME NEW k \in 1 .. (n - 1) - 1
        PROVE  /\ path'[k][2] <= Len(NeedsSteps(path'[k][1]))
               /\ Named(path'[k][1], path'[k][2]) = path'[k + 1][1]
    <3>1. k \in 1 .. n - 1 /\ k # n - 1 /\ k + 1 \in 1 .. n - 1
      BY <1>n
    <3> QED
      BY <1>1, <3>1 DEF PathInv
  <2>4. Len(path') = n - 1
    BY <1>1
  <2> HIDE DEF n
  <2> QED
    BY <1>f, <2>1, <2>2, <2>3, <2>4 DEF PathInv
<1>4. \A m \in 1 .. Len(NeedsSteps(t)) : Known(Named(t, m)) => color[Named(t, m)] = "black"
  <2> SUFFICES ASSUME NEW m \in 1 .. Len(NeedsSteps(t)), Known(Named(t, m))
               PROVE  color[Named(t, m)] = "black"
    OBVIOUS
  <2>1. Len(NeedsSteps(t)) \in Nat
    BY <1>c, NeedsList
  <2>2. m \in 1 .. path[n][2] - 1 /\ m <= Len(NeedsSteps(t))
    BY <1>n, <1>0, <1>v, <2>1
  <2> QED
    BY <1>0, <2>2 DEF ColorInv
<1>5. \A x \in NeedSet(t) : Known(x) => color[x] = "black"
  BY <1>c, <1>4, NeedIs
<1>6. BlackInv'
  <2>1. BlackInv
    BY DEF ColorInv, BlackInv
  <2>2. ASSUME NEW i \in Index, color'[i] = "black", NEW x \in NeedSet(i), Known(x)
        PROVE  color'[x] = "black"
    <3>1. color[x] = "black"
      BY <1>c, <1>5, <2>1, <2>2 DEF BlackInv
    <3> QED
      BY <1>c, <2>2, <3>1 DEF Known
  <2>3. ASSUME NEW S \in (SUBSET Index) \ {{}}, \A i \in S : color'[i] = "black"
        PROVE  \E i \in S : NeedSet(i) \cap S = {}
    <3>1. CASE t \notin S
      <4>1. \A i \in S : color[i] = "black"
        BY <1>c, <2>3, <3>1
      <4> QED
        BY <2>1, <4>1 DEF BlackInv
    <3>2. CASE S = {t}
      <4>1. t \notin NeedSet(t)
        BY <1>c, <1>5 DEF Known
      <4> QED
        BY <3>2, <4>1
    <3>3. CASE t \in S /\ S # {t}
      <4> DEFINE R == S \ {t}
      <4>1. R \in (SUBSET Index) \ {{}} /\ \A i \in R : color[i] = "black"
        BY <1>c, <2>3, <3>3
      <4>2. PICK i \in R : NeedSet(i) \cap R = {}
        BY <2>1, <4>1 DEF BlackInv
      <4>3. t \notin NeedSet(i)
        BY <1>c, <2>1, <4>1 DEF BlackInv, Known
      <4> QED
        BY <4>2, <4>3
    <3> QED
      BY <3>1, <3>2, <3>3
  <2>4. \A x : Known(x)' = Known(x) /\ NeedSet(x)' = NeedSet(x)
    BY <1>v, NeedsFrame DEF Known
  <2> QED
    BY <2>2, <2>3, <2>4 DEF BlackInv
<1>7. ASSUME NEW j \in Index, color'[j] = "grey" PROVE \E k \in 1 .. n - 1 : path'[k][1] = j
  <2>1. PICK k \in 1 .. n : path[k][1] = j
    BY <1>c, <1>7 DEF ColorInv
  <2>2. k # n
    BY <1>c, <1>7, <2>1
  <2>3. k \in 1 .. n - 1
    BY <1>n, <2>2
  <2> QED
    BY <1>1, <2>1, <2>3
<1>8. \A j \in Index : j < root' => color'[j] # "white"
  BY <1>c, <1>v DEF ColorInv
<1>9. ASSUME NEW k \in 1 .. n - 1, NEW m \in 1 .. path'[k][2] - 1,
             m <= Len(NeedsSteps(path'[k][1])), Known(Named(path'[k][1], m))
      PROVE  color'[Named(path'[k][1], m)] = "black"
  <2>k. k \in 1 .. n /\ path'[k][1] = path[k][1]
    BY <1>1, <1>2
  <2>1. CASE m \in 1 .. path[k][2] - 1
    <3>1. color[Named(path[k][1], m)] = "black"
      BY <1>9, <2>k, <2>1 DEF ColorInv
    <3> QED
      BY <1>c, <1>9, <2>k, <3>1 DEF Known
  <2>2. CASE m \notin 1 .. path[k][2] - 1
    <3>1. k = n - 1 /\ m = path[k][2]
      BY <1>n, <1>1, <2>k, <2>2
    <3>2. Named(path[k][1], m) = path[k + 1][1]
      BY <3>1 DEF PathInv
    <3>3. k + 1 = n
      BY <1>n, <3>1
    <3> QED
      BY <1>c, <2>k, <3>2, <3>3
  <2> QED
    BY <2>1, <2>2
<1>10. ColorInv'
  <2> HIDE DEF n
  <2>1. Len(path)' = n - 1
    BY <1>1
  <2>2. \A x : Known(x)' = Known(x)
    BY DEF Known
  <2> QED
    BY <1>6, <1>7, <1>8, <1>9, <1>f, <2>1, <2>2 DEF ColorInv, BlackInv
<1>11. ColorType'
  BY <1>v DEF ColorType
<1> QED
  BY <1>1, <1>3, <1>10, <1>11

\* The step that is met again is on the path, once, and that is where reportCycle
\* starts.
LEMMA CycleStart ==
  ASSUME PathType, PathInv, NEW s \in 1 .. Len(path), NEW j, path[s][1] = j, ReportCycle(j)
  PROVE  LET ids == [k \in DOMAIN path |-> path[k][1]] IN
         cycle' = Append(SubSeq(ids, s, Len(ids)), j)
<1> DEFINE ids == [k \in DOMAIN path |-> path[k][1]]
           I == {k \in 1 .. Len(ids) : ids[k] = j}
<1>1. Len(path) \in Nat /\ DOMAIN path = 1 .. Len(path)
  BY PathAt, LenProperties DEF PathType
<1>2. Len(ids) = Len(path)
  BY <1>1
<1>3. I = {s}
  <2>1. \A k \in 1 .. Len(path) : ids[k] = path[k][1]
    BY <1>1
  <2>2. \A k \in 1 .. Len(path) : path[k][1] = j => k = s
    BY DEF PathInv
  <2> HIDE DEF ids
  <2> QED
    BY <1>2, <2>1, <2>2
<1>4. Min({s}) = s
  <2>1. s \in Int /\ s <= s
    BY <1>1
  <2>2. \E x \in {s} : \A y \in {s} : x =< y
    BY <2>1
  <2> QED
    BY <2>2 DEF Min
<1>5. cycle' = Append(SubSeq(ids, IF I # {} THEN Min(I) ELSE 0, Len(ids)), j)
  BY Zenon DEF ReportCycle, SelectInSeq
<1> HIDE DEF I, ids
<1>6. (IF I # {} THEN Min(I) ELSE 0) = s
  BY <1>3, <1>4
<1>7. cycle' = Append(SubSeq(ids, s, Len(ids)), j)
  BY <1>5, <1>6, Zenon
<1> QED
  BY <1>7 DEF ids

\* The cycle that is reported is one: each name needs the next, the last is the
\* first, and its members are steps that need one another.
LEMMA ReportCycleKeeps ==
  ASSUME IsFile(file), PathType, PathInv, ColorInv, path # <<>>,
         Top[2] <= Len(NeedsSteps(Top[1])), NEW j \in Index, j = Named(Top[1], Top[2]),
         color[j] = "grey", ReportCycle(j)
  PROVE  /\ Cyclic /\ cycle' # <<>>
         /\ Len(cycle') > 1 /\ cycle'[1] = cycle'[Len(cycle')]
         /\ \A k \in 1 .. Len(cycle') - 1 : cycle'[k + 1] \in NeedSet(cycle'[k])
<1> DEFINE n == Len(path)
           ids == [k \in DOMAIN path |-> path[k][1]]
<1>n. n \in Nat /\ \A k \in 1 .. n : /\ path[k][1] \in Index /\ path[k][2] \in Nat /\ path[k][2] >= 1
                                     /\ path[k] = <<path[k][1], path[k][2]>>
  BY PathAt
<1>0. n \in 1 .. n
  <2>1. n # 0
    BY EmptySeq DEF PathType
  <2> QED
    BY <1>n, <2>1
<1>1. PICK s \in 1 .. n : path[s][1] = j
  BY DEF ColorInv
<1>3. cycle' = Append(SubSeq(ids, s, Len(ids)), j)
  BY <1>1, CycleStart
<1>4. DOMAIN path = 1 .. n /\ Len(ids) = n /\ \A k \in 1 .. n : ids[k] = path[k][1]
  <2>1. DOMAIN path = 1 .. n
    BY LenProperties DEF PathType
  <2> QED
    BY <1>n, <2>1
<1> DEFINE c == SubSeq(ids, s, n)
           L == n - s + 1
<1>5. L \in Nat /\ L >= 1 /\ s \in Nat /\ s >= 1 /\ \A k \in 1 .. L : s + k - 1 \in 1 .. n
  BY <1>n, <1>1
<1>6. c \in Seq(Index) /\ Len(c) = L /\ \A k \in 1 .. L : c[k] = path[s + k - 1][1]
  <2>1. s \in Int /\ n \in Int /\ \A k \in s .. n : ids[k] \in Index
    BY <1>n, <1>4, <1>5
  <2>2. /\ c \in Seq(Index) /\ Len(c) = IF s <= n THEN n - s + 1 ELSE 0
        /\ \A k \in 1 .. n - s + 1 : c[k] = ids[s + k - 1]
    BY <2>1, SubSeqProperties
  <2>3. s <= n
    BY <1>n, <1>1
  <2> HIDE DEF ids, c
  <2> QED
    BY <1>4, <1>5, <2>2, <2>3
<1>7. /\ Len(cycle') = L + 1 /\ cycle' # <<>>
      /\ \A k \in 1 .. L : cycle'[k] = path[s + k - 1][1]
      /\ cycle'[L + 1] = j
  <2>1. cycle' = Append(c, j)
    BY <1>3, <1>4
  <2> HIDE DEF c, L, ids
  <2>2. /\ Len(Append(c, j)) = Len(c) + 1 /\ Append(c, j) # <<>>
        /\ \A k \in 1 .. Len(c) : Append(c, j)[k] = c[k]
        /\ Append(c, j)[Len(c) + 1] = j
    BY <1>6, AppendProperties
  <2> QED
    BY <1>6, <2>1, <2>2
<1>8. ASSUME NEW k \in s .. n
      PROVE  /\ path[k][1] \in StepIndex
             /\ IF k = n THEN j \in NeedSet(path[k][1])
                ELSE k + 1 \in s .. n /\ path[k + 1][1] \in NeedSet(path[k][1])
  <2>1. k \in 1 .. n /\ path[k][1] \in Index /\ path[k][2] \in Nat /\ path[k][2] >= 1
    BY <1>n, <1>5
  <2>2. path[k][2] <= Len(NeedsSteps(path[k][1]))
    <3>1. CASE k = n
      BY <3>1 DEF Top
    <3>2. CASE k # n
      <4>1. k \in 1 .. n - 1
        BY <1>n, <2>1, <3>2
      <4> QED
        BY <4>1 DEF PathInv
    <3> QED
      BY <3>1, <3>2
  <2>3. Named(path[k][1], path[k][2]) \in NeedSet(path[k][1])
    <3>1. Len(NeedsSteps(path[k][1])) \in Nat
      BY <2>1, NeedsList
    <3>2. path[k][2] \in 1 .. Len(NeedsSteps(path[k][1]))
      BY <2>1, <2>2, <3>1
    <3> QED
      BY <2>1, <3>2, NeedIs
  <2>4. path[k][1] \in StepIndex
    BY <2>1, <2>3, NeedIs, Indices
  <2>5. CASE k = n
    BY <2>3, <2>4, <2>5 DEF Top
  <2>6. CASE k # n
    <3>1. k \in 1 .. n - 1 /\ k + 1 \in s .. n
      BY <1>n, <1>5, <2>1, <2>6
    <3>2. Named(path[k][1], path[k][2]) = path[k + 1][1]
      BY <3>1 DEF PathInv
    <3> QED
      BY <2>3, <2>4, <2>6, <3>1, <3>2
  <2> QED
    BY <2>5, <2>6
<1>9. Cyclic
  <2> DEFINE S == {path[k][1] : k \in s .. n}
  <2>1. j \in S
    <3>1. s \in s .. n
      BY <1>n, <1>1
    <3> QED
      BY <1>1, <3>1
  <2>2. S \in (SUBSET StepIndex) \ {{}}
    BY <1>8, <2>1
  <2>3. ASSUME NEW i \in S PROVE NeedSet(i) \cap S # {}
    <3>1. PICK k \in s .. n : i = path[k][1]
      OBVIOUS
    <3>2. \A q \in s .. n : path[q][1] \in S
      OBVIOUS
    <3> HIDE DEF S
    <3>3. CASE k = n
      BY <1>8, <2>1, <3>1, <3>3
    <3>4. CASE k # n
      BY <1>8, <3>1, <3>2, <3>4
    <3> QED
      BY <3>3, <3>4
  <2> HIDE DEF S
  <2> QED
    BY <2>2, <2>3 DEF Cyclic
<1>10. Len(cycle') > 1 /\ cycle'[1] = cycle'[Len(cycle')]
  <2> HIDE DEF L
  <2>1. 1 \in 1 .. L /\ s + 1 - 1 = s
    BY <1>5
  <2> QED
    BY <1>1, <1>5, <1>7, <2>1
<1>11. ASSUME NEW k \in 1 .. Len(cycle') - 1 PROVE cycle'[k + 1] \in NeedSet(cycle'[k])
  <2>1. k \in 1 .. L /\ k \in Nat
    BY <1>5, <1>7
  <2>2. s + k - 1 \in s .. n /\ (s + k - 1 = n <=> k = L)
    BY <1>n, <1>5, <2>1
  <2>3. CASE k = L
    BY <1>7, <1>8, <2>1, <2>2, <2>3
  <2>4. CASE k # L
    <3>1. k + 1 \in 1 .. L /\ s + (k + 1) - 1 = (s + k - 1) + 1
      BY <1>5, <2>1, <2>4
    <3>2. cycle'[k + 1] = path[(s + k - 1) + 1][1] /\ cycle'[k] = path[s + k - 1][1]
      BY <1>7, <2>1, <3>1
    <3> QED
      BY <1>8, <2>2, <2>4, <3>2
  <2> QED
    BY <2>3, <2>4
<1> QED
  BY <1>7, <1>9, <1>10, <1>11

\* When the loop over the steps is over, all of them are in black, and there is
\* no cycle to report.
LEMMA SearchEnds ==
  ASSUME IsFile(file), PathType, ColorType, ColorInv, path = <<>>, root = N
  PROVE  ~Cyclic
<1>1. Len(path) = 0
  OBVIOUS
<1>2. \A i \in Index : color[i] = "black"
  <2> SUFFICES ASSUME NEW i \in Index PROVE color[i] = "black"
    OBVIOUS
  <2>1. color[i] # "grey"
    BY <1>1 DEF ColorInv
  <2>2. i < root
    <3>1. N \in Nat
      BY CompilerAssumption
    <3> QED
      BY <3>1 DEF Index
  <2> QED
    BY <2>1, <2>2 DEF ColorInv, ColorType
<1>3. ASSUME NEW S \in (SUBSET StepIndex) \ {{}} PROVE \E i \in S : NeedSet(i) \cap S = {}
  <2>1. S \in (SUBSET Index) \ {{}}
    BY Indices
  <2> QED
    BY <1>2, <2>1 DEF ColorInv
<1> QED
  BY <1>3 DEF Cyclic

-----------------------------------------------------------------------------
(* Binding.                                                                *)

\* Every name a step binds, by either form, is one of its needs.
LEMMA BoundIsNeed ==
  ASSUME IsFile(file), NEW i \in StepIndex
  PROVE  /\ file.needs[i].named =>
               \A p \in DOMAIN file.needs[i].byPort : file.needs[i].byPort[p] \in NeedSet(i)
         /\ ~file.needs[i].named =>
               \A k \in 1 .. Len(file.needs[i].order) : file.needs[i].order[k] \in NeedSet(i)
<1>i. i \in Index /\ i \notin InputIndex
  BY Indices
<1>1. ASSUME file.needs[i].named, NEW p \in DOMAIN file.needs[i].byPort
      PROVE  file.needs[i].byPort[p] \in NeedSet(i)
  <2> DEFINE byPort == file.needs[i].byPort
             P == DOMAIN byPort
             m == Cardinality({q \in P : q <= p})
  <2>1. P \in SUBSET Nat /\ IsFiniteSet(P) /\ Cardinality(P) \in Nat
    BY NeedsType, FS_CardinalityType
  <2>2. NeedsSteps(i) = [k \in 1 .. Cardinality(P) |-> byPort[Nth(P, k)]]
    BY <1>i, <1>1 DEF NeedsSteps, Pick
  <2>3. m \in 1 .. Cardinality(P) /\ Nth(P, m) = p
    <3>1. p \in P
      BY <1>1
    <3> HIDE DEF P
    <3> QED
      BY <2>1, <3>1, NthRank
  <2>5. Named(i, m) = byPort[p] /\ m \in DOMAIN NeedsSteps(i)
    BY <2>2, <2>3 DEF Named
  <2> QED
    BY <2>5 DEF NeedSet
<1>2. ASSUME ~file.needs[i].named, NEW k \in 1 .. Len(file.needs[i].order)
      PROVE  file.needs[i].order[k] \in NeedSet(i)
  <2>1. NeedsSteps(i) = file.needs[i].order
    BY <1>i, <1>2 DEF NeedsSteps, Pick
  <2>2. k \in DOMAIN NeedsSteps(i)
    BY <1>2, <2>1, NeedsType, LenProperties
  <2> QED
    BY <2>1, <2>2 DEF NeedSet, Named
<1> QED
  BY <1>1, <1>2

\* Nothing unresolved: all needs are known.
LEMMA ResolvedNeeds ==
  ASSUME NEW i
  PROVE  Unresolved(i) = {} <=> NeedSet(i) \subseteq Index
BY DEF Unresolved, NeedSet, Known

\* The ports of a capability in the catalog.
LEMMA PortsType ==
  ASSUME NEW i, file.uses[i] \in DOMAIN Catalog
  PROVE  /\ Arity(i) \in Nat /\ Arity(i) = Len(Descriptor(i).ins)
         /\ DOMAIN Descriptor(i).ins = 1 .. Arity(i)
         /\ Descriptor(i).out # ""
<1>1. Descriptor(i).ins \in Seq([name : Nat, type : STRING]) /\ Descriptor(i).out # ""
  BY CompilerAssumption DEF Descriptor
<1> QED
  BY <1>1, LenProperties DEF Arity

\* A step without a shape problem binds every port to one of its needs.
LEMMA BoundFits ==
  ASSUME IsFile(file), NEW i \in StepIndex, file.uses[i] \in DOMAIN Catalog, ShapeProblems(i) = {}
  PROVE  /\ Bound(i) \in Seq(NeedSet(i)) /\ Len(Bound(i)) = Arity(i)
         /\ \A p \in 1 .. Arity(i) : Bound(i)[p] \in NeedSet(i)
<1>1. CASE file.needs[i].named
  <2>1. PortNames(i) \ DOMAIN file.needs[i].byPort = {}
    BY <1>1 DEF ShapeProblems
  <2>2. \A p \in 1 .. Arity(i) : file.needs[i].byPort[Descriptor(i).ins[p].name] \in NeedSet(i)
    BY <1>1, <2>1, BoundIsNeed DEF PortNames
  <2>3. Bound(i) = [p \in 1 .. Arity(i) |-> file.needs[i].byPort[Descriptor(i).ins[p].name]]
    BY <1>1 DEF Bound
  <2>4. Arity(i) \in Nat
    BY PortsType
  <2>5. \A p \in 1 .. Arity(i) : Bound(i)[p] \in NeedSet(i)
    BY <2>2, <2>3
  <2>6. Bound(i) \in [1 .. Arity(i) -> NeedSet(i)]
    BY <2>2, <2>3
  <2> QED
    BY <2>4, <2>5, <2>6, IsASeq, LenProperties
<1>2. CASE ~file.needs[i].named
  <2>1. Len(file.needs[i].order) = Arity(i)
    BY <1>2 DEF ShapeProblems
  <2>2. Bound(i) = file.needs[i].order
    BY <1>2 DEF Bound
  <2>3. \A p \in 1 .. Arity(i) : Bound(i)[p] \in NeedSet(i)
    BY <1>2, <2>1, <2>2, BoundIsNeed
  <2>4. file.needs[i].order \in Seq(0 .. N)
    BY NeedsType
  <2>5. Bound(i) \in [1 .. Arity(i) -> NeedSet(i)] /\ Arity(i) \in Nat
    BY <2>1, <2>2, <2>3, <2>4, LenProperties
  <2> QED
    BY <2>1, <2>2, <2>3, <2>5, IsASeq
<1> QED
  BY <1>1, <1>2

-----------------------------------------------------------------------------
(* The phases.                                                             *)

\* A phase other than the search leaves the search as it is.
LEMMA SearchFrame ==
  ASSUME SearchInv, UNCHANGED <<file, dfsVars>>, (PastCycles' <=> PastCycles)
  PROVE  SearchInv'
<1>1. UNCHANGED <<file, color, path, root, cycle>>
  BY DEF dfsVars
<1>2. /\ \A i : NeedsSteps(i)' = NeedsSteps(i) /\ NeedSet(i)' = NeedSet(i)
      /\ \A i, k : Named(i, k)' = Named(i, k)
      /\ Cyclic' = Cyclic
      /\ \A x : Known(x)' = Known(x)
  BY <1>1, NeedsFrame DEF Known
<1>3. PathInv'
  BY <1>1, <1>2 DEF SearchInv, PathInv
<1>4. ColorInv'
  BY <1>1, <1>2 DEF SearchInv, ColorInv
<1>5. CycleInv'
  BY <1>1, <1>2 DEF SearchInv, CycleInv, CycleReal, PastCycles
<1> QED
  BY <1>3, <1>4, <1>5 DEF SearchInv

\* What a step is faulty of depends on the file and on what the phases know.
LEMMA FaultFrame ==
  ASSUME UNCHANGED <<file, inputTypes, nodes>>
  PROVE  /\ \A i : ShapeProblems(i)' = ShapeProblems(i)
         /\ \A i : Mismatched(i)' = Mismatched(i)
         /\ \A i : Unresolved(i)' = Unresolved(i)
         /\ TriggerProblems(file.trigger)' = TriggerProblems(file.trigger)
         /\ TriggerFaulty' = TriggerFaulty
<1>1. \A i : Descriptor(i)' = Descriptor(i)
  BY DEF Descriptor
<1>2. \A i : Arity(i)' = Arity(i)
  BY <1>1 DEF Arity
<1>3. \A i : OutputType(i)' = OutputType(i)
  BY <1>1 DEF OutputType
<1>4. \A i : PortNames(i)' = PortNames(i) /\ Ambiguous(i)' = Ambiguous(i)
  BY <1>1, <1>2 DEF PortNames, Ambiguous
<1>5. \A i : ShapeProblems(i)' = ShapeProblems(i)
  BY <1>2, <1>4 DEF ShapeProblems
<1>6. \A i : Bound(i)' = Bound(i)
  BY <1>1, <1>2 DEF Bound
<1>7. \A i : Mismatched(i)' = Mismatched(i)
  BY <1>1, <1>2, <1>3, <1>6 DEF Mismatched
<1>8. RespondProblem(file.trigger)' = RespondProblem(file.trigger)
  BY <1>3 DEF RespondProblem, Known
<1>9. TriggerProblems(file.trigger)' = TriggerProblems(file.trigger)
  BY <1>8 DEF TriggerProblems
<1>10. TriggerFaulty' = TriggerFaulty
  BY <1>9 DEF TriggerFaulty
<1> QED
  BY <1>5, <1>7, <1>9, <1>10, NeedsFrame

\* The phases come one after the other.
LEMMA PhaseOrder ==
  /\ phase = "inputs" => ~PastInputs /\ ~PastResolve /\ ~PastDependencies /\ ~PastCycles /\ ~PastEdges /\ ~PastTrigger
  /\ phase = "resolve" => PastInputs /\ ~PastResolve /\ ~PastDependencies /\ ~PastCycles /\ ~PastEdges /\ ~PastTrigger
  /\ phase = "dependencies" => PastInputs /\ PastResolve /\ ~PastDependencies /\ ~PastCycles /\ ~PastEdges /\ ~PastTrigger
  /\ phase = "cycles" => PastInputs /\ PastResolve /\ PastDependencies /\ ~PastCycles /\ ~PastEdges /\ ~PastTrigger
  /\ phase = "edges" => PastInputs /\ PastResolve /\ PastDependencies /\ PastCycles /\ ~PastEdges /\ ~PastTrigger
  /\ phase = "trigger" => PastInputs /\ PastResolve /\ PastDependencies /\ PastCycles /\ PastEdges /\ ~PastTrigger
  /\ phase \in {"finish", "accepted", "rejected"} =>
        PastInputs /\ PastResolve /\ PastDependencies /\ PastCycles /\ PastEdges /\ PastTrigger
BY DEF PastInputs, PastResolve, PastDependencies, PastCycles, PastEdges, PastTrigger, Verdicts

\* The parts of the type invariant the search does not touch, and those it does.
CompType ==
    /\ inputTypes \in [InputIndex -> Types \cup {""}]
    /\ nodes \subseteq StepIndex
    /\ deps \in [Index -> Seq(Index)]
    /\ binding.respond \in -1 .. N - 1
DfsType == ColorType /\ PathType /\ root \in 0 .. N
ProblemType == \A x \in problems : x[1] \in -1 .. N - 1

\* Phases without the prime, for the type invariant's own sake.
LEMMA TypeParts == TypeOK <=> phase \in Phases /\ ProblemType /\ CompType /\ DfsType
BY DEF TypeOK, Phases, ProblemType, CompType, DfsType, ColorType, PathType

\* Nothing is known, found or reported at first.
LEMMA InitIInv == Init => IInv
<1> SUFFICES ASSUME Init PROVE IInv
  OBVIOUS
<1>a. N \in Nat /\ NumInputs \in 0 .. N
  BY CompilerAssumption
<1>f. IsFile(file) /\ Validated(file)
  BY FilesAssumption DEF Init
<1>1. /\ phase = "inputs" /\ problems = {} /\ path = <<>> /\ root = 0 /\ cycle = <<>> /\ nodes = {}
      /\ color = [i \in Index |-> "white"] /\ deps = [i \in Index |-> <<>>]
      /\ inputTypes = [i \in InputIndex |-> ""] /\ binding.respond = -1
  BY DEF Init, NoBinding
<1>r. root = 0 /\ binding.respond = -1
  BY <1>1
<1>2. TypeOK
  <2>1. phase \in Phases /\ ProblemType
    BY <1>1 DEF Phases, ProblemType
  <2>2. CompType
    <3>1. \A i \in Index : deps[i] \in Seq(Index)
      BY <1>1, EmptySeq
    <3>2. deps \in [Index -> Seq(Index)]
      BY <1>1, <3>1
    <3>3. binding.respond \in -1 .. N - 1
      BY <1>a, <1>r
    <3>4. inputTypes \in [InputIndex -> Types \cup {""}]
      BY <1>1
    <3>5. nodes \subseteq StepIndex
      BY <1>1
    <3> QED
      BY <3>2, <3>3, <3>4, <3>5 DEF CompType
  <2>3. DfsType
    <3>1. ColorType
      BY <1>1 DEF ColorType
    <3>2. PathType
      BY <1>1, EmptySeq DEF PathType
    <3>3. root \in 0 .. N
      BY <1>a, <1>r
    <3> QED
      BY <3>1, <3>2, <3>3 DEF DfsType
  <2> QED
    BY <2>1, <2>2, <2>3, TypeParts
<1>3. SearchInv
  <2>1. Len(path) = 0 /\ \A i \in Index : color[i] = "white"
    BY <1>1
  <2>e. \A k \in 1 .. Len(path) : FALSE
    BY <2>1
  <2>2. PathInv
    <3>1. \A k \in 1 .. Len(path) - 1 : FALSE
      BY <2>1
    <3> QED
      BY <2>e, <3>1 DEF PathInv
  <2>3. \A i \in Index : ~(i < root)
    BY <1>a, <1>r DEF Index
  <2>4. ColorInv
    BY <2>1, <2>3, <2>e DEF ColorInv
  <2>5. CycleInv
    BY <1>1 DEF CycleInv, CycleReal, Verdicts
  <2> QED
    BY <2>2, <2>4, <2>5 DEF SearchInv
<1>4. KnownInv
  BY <1>1, PhaseOrder DEF KnownInv
<1>5. ReportInv
  BY <1>1, PhaseOrder DEF ReportInv, Faulty
<1>6. VerdictInv
  BY <1>1 DEF VerdictInv, Verdicts
<1> QED
  BY <1>f, <1>2, <1>3, <1>4, <1>5, <1>6 DEF IInv

\* A complaint names its step first, whatever it says.
LEMMA NamesFirst ==
  ASSUME NEW S, NEW what
  PROVE  /\ \A i : \A y \in {<<i, what, x>> : x \in S} : y[1] = i
         /\ \A y \in {<<i, what>> : i \in S} : y[1] \in S
OBVIOUS

\* A document that does not change stays what the parser lets through.
LEMMA FileFrame ==
  ASSUME IsFile(file), Validated(file), file' = file
  PROVE  IsFile(file)' /\ Validated(file)'
OBVIOUS

\* What the phases know changes with the two phases that find it out.
LEMMA KnownFrame ==
  ASSUME KnownInv, UNCHANGED <<file, inputTypes, nodes>>,
         (PastInputs' <=> PastInputs), (PastResolve' <=> PastResolve)
  PROVE  KnownInv'
BY DEF KnownInv

\* A step is not found faulty of anything new between two of the phases that judge it.
LEMMA FaultyFrame ==
  ASSUME UNCHANGED <<file, inputTypes, nodes>>,
         (PastResolve' <=> PastResolve), (PastDependencies' <=> PastDependencies), (PastEdges' <=> PastEdges)
  PROVE  \A i : Faulty(i)' = Faulty(i)
BY FaultFrame DEF Faulty

\* A step of the search that reports nothing, and the verdict, leave the report.
LEMMA ReportFrame ==
  ASSUME ReportInv, UNCHANGED <<file, inputTypes, nodes, problems, cycle>>, (PastInputs' <=> PastInputs),
         (PastResolve' <=> PastResolve), (PastDependencies' <=> PastDependencies),
         (PastEdges' <=> PastEdges), (PastTrigger' <=> PastTrigger)
  PROVE  ReportInv'
<1>1. \A i : Faulty(i)' = Faulty(i)
  BY FaultyFrame
<1>2. TriggerFaulty' = TriggerFaulty
  BY FaultFrame
<1> QED
  BY <1>1, <1>2 DEF ReportInv

\* resolveInputs reports the inputs of a type nobody registered.
LEMMA ResolveInputsKeeps ==
  ASSUME IInv, ResolveInputs
  PROVE  IInv'
<1> DEFINE bad == {i \in InputIndex : file.inputs[i] \notin Types}
<1>0. /\ phase = "inputs" /\ phase' = "resolve"
      /\ inputTypes' = [i \in InputIndex |-> IF i \in bad THEN "" ELSE file.inputs[i]]
      /\ problems' = problems \cup {<<-1, "input type", i>> : i \in bad}
      /\ UNCHANGED <<file, nodes, deps, binding, plan, dfsVars>>
  BY DEF ResolveInputs
<1>p. /\ ~PastInputs /\ ~PastResolve /\ ~PastDependencies /\ ~PastCycles /\ ~PastEdges /\ ~PastTrigger
      /\ PastInputs' /\ ~PastResolve' /\ ~PastDependencies' /\ ~PastCycles' /\ ~PastEdges' /\ ~PastTrigger'
  BY <1>0 DEF PastInputs, PastResolve, PastDependencies, PastCycles, PastEdges, PastTrigger, Verdicts
<1>d. UNCHANGED <<color, path, root, cycle>>
  BY <1>0 DEF dfsVars
<1>n. N \in Nat
  BY CompilerAssumption
<1>1. TypeOK'
  <2>1. ProblemType'
    <3>1. -1 \in -1 .. N - 1
      BY <1>n
    <3>2. \A x \in problems' : x \in problems \/ x[1] = -1
      <4>1. problems' = problems \cup {<<-1, "input type", i>> : i \in bad}
        BY <1>0
      <4>2. ASSUME NEW i PROVE <<-1, "input type", i>>[1] = -1
        OBVIOUS
      <4> QED
        BY <4>1, <4>2
    <3> QED
      BY <3>1, <3>2, TypeParts DEF ProblemType, IInv
  <2>2. CompType'
    <3>1. inputTypes' \in [InputIndex -> Types \cup {""}]
      BY <1>0
    <3> QED
      BY <1>0, <3>1, TypeParts DEF CompType, IInv
  <2>3. DfsType'
    BY <1>d, TypeParts DEF DfsType, ColorType, PathType, IInv
  <2> QED
    BY <1>0, <2>1, <2>2, <2>3 DEF TypeOK, ProblemType, CompType, DfsType, ColorType, PathType
<1>2. KnownInv'
  <2>1. inputTypes' = [i \in InputIndex |-> IF file.inputs[i] \in Types THEN file.inputs[i] ELSE ""]
    BY <1>0
  <2> QED
    BY <1>0, <1>p, <2>1 DEF KnownInv
<1>3. SearchInv'
  BY <1>0, <1>p, SearchFrame DEF IInv
<1>4. ReportInv'
  <2>1. \A i : ~Faulty(i) /\ ~Faulty(i)'
    BY <1>p DEF Faulty
  <2>2. problems = {} <=> cycle = <<>>
    BY <1>p, <2>1 DEF ReportInv, IInv
  <2>3. problems' = {} <=> problems = {} /\ bad = {}
    BY <1>0
  <2>4. bad = {} <=> \A i \in InputIndex : file.inputs[i] \in Types
    OBVIOUS
  <2> QED
    BY <1>0, <1>d, <1>p, <2>1, <2>2, <2>3, <2>4 DEF ReportInv
<1>5. VerdictInv'
  BY <1>0 DEF VerdictInv, Verdicts
<1> QED
  BY <1>0, <1>1, <1>2, <1>3, <1>4, <1>5, FileFrame DEF IInv

\* resolve reports the steps whose capability is unknown or refuses its configuration.
LEMMA ResolveKeeps ==
  ASSUME IInv, Resolve
  PROVE  IInv'
<1> DEFINE built == {i \in StepIndex : file.uses[i] \in DOMAIN Catalog}
<1>0. /\ phase = "resolve" /\ phase' = "dependencies" /\ nodes' = built
      /\ problems' = problems \cup {<<i, "capability">> : i \in StepIndex \ built}
      /\ UNCHANGED <<file, inputTypes, deps, binding, plan, dfsVars>>
  BY DEF Resolve
<1>p. /\ PastInputs /\ ~PastResolve /\ ~PastDependencies /\ ~PastCycles /\ ~PastEdges /\ ~PastTrigger
      /\ PastInputs' /\ PastResolve' /\ ~PastDependencies' /\ ~PastCycles' /\ ~PastEdges' /\ ~PastTrigger'
  BY <1>0 DEF PastInputs, PastResolve, PastDependencies, PastCycles, PastEdges, PastTrigger, Verdicts
<1>d. UNCHANGED <<color, path, root, cycle>>
  BY <1>0 DEF dfsVars
<1>n. N \in Nat
  BY CompilerAssumption
<1>1. TypeOK'
  <2>1. ProblemType'
    <3>1. \A i \in StepIndex : i \in -1 .. N - 1
      BY <1>n, Indices DEF StepIndex
    <3>2. \A x \in problems' : x \in problems \/ x[1] \in StepIndex
      BY <1>0
    <3> QED
      BY <3>1, <3>2, TypeParts DEF ProblemType, IInv
  <2>2. CompType'
    <3>1. nodes' \subseteq StepIndex
      BY <1>0
    <3> QED
      BY <1>0, <3>1, TypeParts DEF CompType, IInv
  <2>3. DfsType'
    BY <1>d, TypeParts DEF DfsType, ColorType, PathType, IInv
  <2> QED
    BY <1>0, <2>1, <2>2, <2>3 DEF TypeOK, ProblemType, CompType, DfsType, ColorType, PathType
<1>2. KnownInv'
  BY <1>0, <1>p DEF KnownInv, IInv
<1>3. SearchInv'
  BY <1>0, <1>p, SearchFrame DEF IInv
<1>4. ReportInv'
  <2>1. \A i : ~Faulty(i) /\ (Faulty(i)' <=> file.uses[i] \notin DOMAIN Catalog)
    BY <1>0, <1>p DEF Faulty
  <2>2. problems = {} <=> (\A i \in InputIndex : file.inputs[i] \in Types) /\ cycle = <<>>
    BY <1>p, <2>1 DEF ReportInv, IInv
  <2>3. \A i \in StepIndex : i \notin built => <<i, "capability">> \in problems'
    BY <1>0
  <2>4. problems' = {} <=> problems = {} /\ \A i \in StepIndex : i \in built
    BY <1>0
  <2>5. \A i \in StepIndex : i \in built <=> ~Faulty(i)'
    BY <2>1
  <2>6. ASSUME NEW i \in StepIndex, Faulty(i)' PROVE \E x \in problems' : x[1] = i
    <3>1. <<i, "capability">> \in problems'
      BY <2>3, <2>5, <2>6
    <3> QED
      BY <3>1
  <2> HIDE DEF built
  <2> QED
    BY <1>0, <1>d, <1>p, <2>2, <2>4, <2>5, <2>6 DEF ReportInv
<1>5. VerdictInv'
  BY <1>0 DEF VerdictInv, Verdicts
<1> QED
  BY <1>0, <1>1, <1>2, <1>3, <1>4, <1>5, FileFrame DEF IInv

\* checkDependencies reports the steps that need a name nobody has.
LEMMA CheckDependenciesKeeps ==
  ASSUME IInv, CheckDependencies
  PROVE  IInv'
<1> DEFINE lost == {j \in Index : Unresolved(j) # {}}
<1>0. /\ phase = "dependencies" /\ phase' = "cycles"
      /\ problems' = problems \cup {<<i, "unknown step">> : i \in lost}
      /\ UNCHANGED <<file, inputTypes, nodes, deps, binding, plan, dfsVars>>
  BY DEF CheckDependencies, compVars
<1>p. /\ PastInputs /\ PastResolve /\ ~PastDependencies /\ ~PastCycles /\ ~PastEdges /\ ~PastTrigger
      /\ PastInputs' /\ PastResolve' /\ PastDependencies' /\ ~PastCycles' /\ ~PastEdges' /\ ~PastTrigger'
  BY <1>0 DEF PastInputs, PastResolve, PastDependencies, PastCycles, PastEdges, PastTrigger, Verdicts
<1>d. UNCHANGED <<color, path, root, cycle>>
  BY <1>0 DEF dfsVars
<1>n. N \in Nat
  BY CompilerAssumption
<1>s. \A i : i \in lost <=> i \in StepIndex /\ Unresolved(i) # {}
  <2>1. ASSUME NEW i \in InputIndex PROVE Unresolved(i) = {}
    <3>1. DOMAIN NeedsSteps(i) = 1 .. 0
      BY NeedsList, Indices DEF IInv
    <3> QED
      BY <3>1 DEF Unresolved
  <2> QED
    BY <2>1, Indices
<1>1. TypeOK'
  <2>1. ProblemType'
    <3>0. \A i \in Index : i \in -1 .. N - 1
      BY <1>n DEF Index
    <3>1. \A i \in lost : i \in -1 .. N - 1
      BY <3>0
    <3>2. \A x \in problems' : x \in problems \/ x[1] \in lost
      <4>1. problems' = problems \cup {<<i, "unknown step">> : i \in lost}
        BY <1>0
      <4>2. \A y \in {<<i, "unknown step">> : i \in lost} : y[1] \in lost
        BY NamesFirst
      <4> QED
        BY <4>1, <4>2
    <3> QED
      BY <3>1, <3>2, TypeParts DEF ProblemType, IInv
  <2>2. CompType'
    BY <1>0, TypeParts DEF CompType, IInv
  <2>3. DfsType'
    BY <1>d, TypeParts DEF DfsType, ColorType, PathType, IInv
  <2> QED
    BY <1>0, <2>1, <2>2, <2>3 DEF TypeOK, ProblemType, CompType, DfsType, ColorType, PathType
<1>2. KnownInv'
  BY <1>0, <1>p, KnownFrame DEF IInv
<1>3. SearchInv'
  BY <1>0, <1>p, SearchFrame DEF IInv
<1>4. ReportInv'
  <2>1. \A i : Faulty(i)' <=> Faulty(i) \/ Unresolved(i) # {}
    BY <1>0, <1>p, FaultFrame DEF Faulty
  <2>2. \A i \in StepIndex : i \in lost <=> Unresolved(i) # {}
    BY <1>s
  <2>3. \A i \in StepIndex : Faulty(i)' <=> Faulty(i) \/ i \in lost
    BY <2>1, <2>2
  <2>4. \A i \in lost : i \in StepIndex /\ <<i, "unknown step">> \in problems'
    BY <1>0, <1>s
  <2>5. problems' = {} <=> problems = {} /\ lost = {}
    BY <1>0
  <2>6. ASSUME NEW i \in StepIndex, Faulty(i)' PROVE \E x \in problems' : x[1] = i
    <3>1. CASE Faulty(i)
      BY <1>0, <3>1 DEF IInv, ReportInv
    <3>2. CASE i \in lost
      <4>1. <<i, "unknown step">> \in problems'
        BY <2>4, <3>2
      <4> QED
        BY <4>1
    <3> QED
      BY <2>3, <2>6, <3>1, <3>2
  <2> HIDE DEF lost
  <2>7. problems = {} <=> /\ \A i \in InputIndex : file.inputs[i] \in Types
                          /\ \A i \in StepIndex : ~Faulty(i)
                          /\ cycle = <<>>
    BY <1>p DEF ReportInv, IInv
  <2>8. (\A i \in StepIndex : ~Faulty(i)') <=> (\A i \in StepIndex : ~Faulty(i)) /\ lost = {}
    BY <2>3, <2>4
  <2> QED
    BY <1>0, <1>d, <1>p, <2>5, <2>6, <2>7, <2>8 DEF ReportInv
<1>5. VerdictInv'
  BY <1>0 DEF VerdictInv, Verdicts
<1> QED
  BY <1>0, <1>1, <1>2, <1>3, <1>4, <1>5, FileFrame DEF IInv

\* A step of the search that goes on.
LEMMA SearchOn ==
  ASSUME IInv, phase = "cycles", UNCHANGED <<file, phase, problems, cycle, compVars>>,
         PathType', ColorType', PathInv', ColorInv', root' \in 0 .. N
  PROVE  IInv'
<1>0. UNCHANGED <<inputTypes, nodes, deps, binding, plan>>
  BY DEF compVars
<1>p. /\ (PastInputs' <=> PastInputs) /\ (PastResolve' <=> PastResolve)
      /\ (PastDependencies' <=> PastDependencies) /\ ~PastCycles /\ ~PastCycles'
      /\ (PastEdges' <=> PastEdges) /\ (PastTrigger' <=> PastTrigger)
  BY DEF PastInputs, PastResolve, PastDependencies, PastCycles, PastEdges, PastTrigger, Verdicts
<1>1. TypeOK'
  <2>1. ProblemType' /\ CompType'
    BY <1>0, TypeParts DEF ProblemType, CompType, IInv
  <2>2. DfsType'
    BY DEF DfsType
  <2> QED
    BY <2>1, <2>2 DEF TypeOK, ProblemType, CompType, DfsType, ColorType, PathType
<1>2. KnownInv'
  BY <1>0, <1>p, KnownFrame DEF IInv
<1>3. SearchInv'
  <2>1. CycleInv'
    BY <1>p DEF CycleInv, CycleReal, SearchInv, IInv, PastCycles
  <2> QED
    BY <2>1 DEF SearchInv
<1>4. ReportInv'
  BY <1>0, <1>p, ReportFrame DEF IInv
<1>5. VerdictInv'
  BY DEF VerdictInv, Verdicts
<1> QED
  BY <1>1, <1>2, <1>3, <1>4, <1>5, FileFrame DEF IInv

\* checkCycles takes the next start, or ends with every step seen.
LEMMA VisitRootKeeps ==
  ASSUME IInv, VisitRoot
  PROVE  IInv'
<1>t. /\ IsFile(file) /\ Validated(file) /\ PathType /\ ColorType /\ PathInv /\ ColorInv /\ CycleInv
      /\ KnownInv /\ ReportInv
  BY TypeParts DEF IInv, SearchInv, DfsType
<1>r. N \in Nat /\ root \in 0 .. N
  BY CompilerAssumption, TypeParts DEF IInv, DfsType
<1>v. phase = "cycles" /\ path = <<>> /\ UNCHANGED <<file, problems, cycle, compVars>>
  BY DEF VisitRoot
<1>1. CASE root = N
  <2>1. phase' = "edges" /\ UNCHANGED <<color, path, root>>
    BY <1>1 DEF VisitRoot
  <2>0. UNCHANGED <<inputTypes, nodes, deps, binding, plan>>
    BY <1>v DEF compVars
  <2>p. /\ (PastInputs' <=> PastInputs) /\ (PastResolve' <=> PastResolve)
        /\ (PastDependencies' <=> PastDependencies) /\ ~PastCycles /\ PastCycles'
        /\ (PastEdges' <=> PastEdges) /\ (PastTrigger' <=> PastTrigger)
    BY <1>v, <2>1 DEF PastInputs, PastResolve, PastDependencies, PastCycles, PastEdges, PastTrigger, Verdicts
  <2>2. TypeOK'
    BY <1>v, <2>0, <2>1 DEF TypeOK, IInv
  <2>3. KnownInv'
    BY <1>t, <1>v, <2>0, <2>p, KnownFrame
  <2>4. SearchInv'
    <3>1. ~Cyclic /\ cycle = <<>>
      BY <1>t, <1>v, <1>1, <2>p, SearchEnds DEF CycleInv
    <3>2. /\ \A i : NeedsSteps(i)' = NeedsSteps(i) /\ NeedSet(i)' = NeedSet(i)
          /\ \A i, k : Named(i, k)' = Named(i, k)
          /\ Cyclic' = Cyclic
          /\ \A x : Known(x)' = Known(x)
      BY <1>v, NeedsFrame DEF Known
    <3>3. CycleInv'
      BY <1>v, <2>p, <3>1, <3>2 DEF CycleInv, CycleReal
    <3>4. PathInv'
      BY <1>t, <2>1, <3>2 DEF PathInv
    <3>5. ColorInv'
      BY <1>t, <2>1, <3>2 DEF ColorInv
    <3> QED
      BY <3>3, <3>4, <3>5 DEF SearchInv
  <2>5. ReportInv'
    BY <1>t, <1>v, <2>0, <2>p, ReportFrame
  <2>6. VerdictInv'
    BY <2>1 DEF VerdictInv, Verdicts
  <2> QED
    BY <1>t, <1>v, <2>2, <2>3, <2>4, <2>5, <2>6, FileFrame DEF IInv
<1>2. CASE root # N /\ color[root] = "white"
  <2>1. phase' = phase /\ root' = root + 1 /\ Push(root) /\ root \in Index
    BY <1>r, <1>2 DEF VisitRoot, Index
  <2>2. root' \in 0 .. N /\ \A j \in Index : j < root' => j < root \/ j = root
    BY <1>r, <1>2, <2>1 DEF Index
  <2>3. PathType' /\ ColorType' /\ PathInv' /\ ColorInv'
    BY <1>t, <1>v, <1>2, <2>1, <2>2, PushKeeps
  <2> QED
    BY <1>v, <2>1, <2>2, <2>3, SearchOn
<1>3. CASE root # N /\ color[root] # "white"
  <2>1. phase' = phase /\ root' = root + 1 /\ UNCHANGED <<color, path>>
    BY <1>3 DEF VisitRoot
  <2>2. root' \in 0 .. N /\ \A j \in Index : j < root' => j < root \/ j = root
    BY <1>r, <1>3, <2>1 DEF Index
  <2>3. /\ \A i : NeedsSteps(i)' = NeedsSteps(i) /\ NeedSet(i)' = NeedSet(i)
        /\ \A i, k : Named(i, k)' = Named(i, k)
        /\ \A x : Known(x)' = Known(x)
    BY <1>v, NeedsFrame DEF Known
  <2>4. PathType' /\ ColorType'
    BY <1>t, <2>1 DEF PathType, ColorType
  <2>5. PathInv'
    BY <1>t, <2>1, <2>3 DEF PathInv
  <2>6. ColorInv'
    <3>1. \A j \in Index : j < root' => color[j] # "white"
      BY <1>t, <1>3, <2>2 DEF ColorInv
    <3> QED
      BY <1>t, <2>1, <2>3, <3>1 DEF ColorInv
  <2> QED
    BY <1>v, <2>1, <2>2, <2>4, <2>5, <2>6, SearchOn
<1> QED
  BY <1>1, <1>2, <1>3

\* visit looks at one need of the step on top of the path.
LEMMA VisitEdgeKeeps ==
  ASSUME IInv, VisitEdge
  PROVE  IInv'
<1> DEFINE j == Named(Top[1], Top[2])
<1>t. /\ IsFile(file) /\ Validated(file) /\ PathType /\ ColorType /\ PathInv /\ ColorInv /\ CycleInv
      /\ KnownInv /\ ReportInv /\ root \in 0 .. N
  BY TypeParts DEF IInv, SearchInv, DfsType
<1>v. /\ phase = "cycles" /\ path # <<>> /\ Top[2] <= Len(NeedsSteps(Top[1]))
      /\ UNCHANGED <<file, root, compVars>>
  BY DEF VisitEdge
<1>1. CASE (Known(j) => color[j] = "black") /\ FollowNext /\ UNCHANGED <<color, cycle, problems, phase>>
  <2>1. PathType' /\ ColorType' /\ PathInv' /\ ColorInv'
    BY <1>t, <1>v, <1>1, FollowKeeps
  <2> QED
    BY <1>t, <1>v, <1>1, <2>1, SearchOn
<1>2. CASE Known(j) /\ color[j] = "white" /\ Push(j) /\ UNCHANGED <<cycle, problems, phase>>
  <2>1. j \in Index /\ color[j] = "white" /\ Push(j)
    BY <1>2 DEF Known
  <2>2. \A x \in Index : x < root' => x < root \/ x = j
    BY <1>v
  <2>3. path # <<>> => Top[2] <= Len(NeedsSteps(Top[1])) /\ Named(Top[1], Top[2]) = j
    BY <1>v
  <2> HIDE DEF j
  <2>4. PathType' /\ ColorType' /\ PathInv' /\ ColorInv'
    BY <1>t, <1>v, <2>1, <2>2, <2>3, PushKeeps
  <2> QED
    BY <1>t, <1>v, <1>2, <2>4, SearchOn
<1>3. CASE Known(j) /\ color[j] = "grey" /\ ReportCycle(j) /\ UNCHANGED <<color, path>>
  <2>0. UNCHANGED <<inputTypes, nodes, deps, binding, plan>>
    BY <1>v DEF compVars
  <2>1. phase' = "edges" /\ problems' = problems \cup {<<-1, "cycle">>}
    BY <1>3 DEF ReportCycle
  <2>p. /\ (PastInputs' <=> PastInputs) /\ (PastResolve' <=> PastResolve)
        /\ (PastDependencies' <=> PastDependencies) /\ ~PastCycles /\ PastCycles'
        /\ (PastEdges' <=> PastEdges) /\ ~PastTrigger /\ ~PastTrigger'
    BY <1>v, <2>1 DEF PastInputs, PastResolve, PastDependencies, PastCycles, PastEdges, PastTrigger, Verdicts
  <2>2. TypeOK'
    <3>1. CompType'
      BY <2>0, TypeParts DEF CompType, IInv
    <3>2. DfsType'
      BY <1>t, <1>v, <1>3 DEF DfsType, ColorType, PathType
    <3>3. ProblemType'
      <4>1. N \in Nat
        BY CompilerAssumption
      <4>2. -1 \in -1 .. N - 1
        BY <4>1
      <4>3. \A x \in problems' : x \in problems \/ x[1] = -1
        BY <2>1
      <4> QED
        BY <4>2, <4>3, TypeParts DEF ProblemType, IInv
    <3> QED
      BY <2>1, <3>1, <3>2, <3>3 DEF TypeOK, ProblemType, CompType, DfsType, ColorType, PathType
  <2>3. KnownInv'
    BY <1>t, <1>v, <2>0, <2>p, KnownFrame
  <2>c. /\ Cyclic /\ cycle' # <<>>
        /\ Len(cycle') > 1 /\ cycle'[1] = cycle'[Len(cycle')]
        /\ \A k \in 1 .. Len(cycle') - 1 : cycle'[k + 1] \in NeedSet(cycle'[k])
    <3>1. j \in Index /\ j = Named(Top[1], Top[2]) /\ color[j] = "grey" /\ ReportCycle(j)
      BY <1>3 DEF Known
    <3> HIDE DEF j
    <3> QED
      BY <1>t, <1>v, <3>1, ReportCycleKeeps
  <2>4. SearchInv'
    <3>2. /\ \A i : NeedsSteps(i)' = NeedsSteps(i) /\ NeedSet(i)' = NeedSet(i)
          /\ \A i, k : Named(i, k)' = Named(i, k)
          /\ Cyclic' = Cyclic
          /\ \A x : Known(x)' = Known(x)
      BY <1>v, NeedsFrame DEF Known
    <3>3. CycleInv'
      BY <2>p, <2>c, <3>2 DEF CycleInv, CycleReal
    <3>4. PathInv'
      BY <1>t, <1>3, <3>2 DEF PathInv
    <3>5. ColorInv'
      BY <1>t, <1>v, <1>3, <3>2 DEF ColorInv
    <3> QED
      BY <3>3, <3>4, <3>5 DEF SearchInv
  <2>5. ReportInv'
    <3>1. \A i : Faulty(i)' = Faulty(i)
      BY <1>v, <2>0, <2>p, FaultyFrame
    <3>2. problems' # {} /\ problems \subseteq problems'
      BY <2>1
    <3> QED
      BY <1>t, <2>p, <2>c, <3>1, <3>2 DEF ReportInv
  <2>6. VerdictInv'
    BY <2>1 DEF VerdictInv, Verdicts
  <2> QED
    BY <1>t, <1>v, <2>2, <2>3, <2>4, <2>5, <2>6, FileFrame DEF IInv
<1> QED
  BY <1>1, <1>2, <1>3 DEF VisitEdge

\* visit returns to the step that needed this one, or to the loop.
LEMMA VisitDoneKeeps ==
  ASSUME IInv, VisitDone
  PROVE  IInv'
<1>t. /\ IsFile(file) /\ PathType /\ ColorType /\ PathInv /\ ColorInv /\ root \in 0 .. N
  BY TypeParts DEF IInv, SearchInv, DfsType
<1>1. PathType' /\ ColorType' /\ PathInv' /\ ColorInv'
  BY <1>t, DoneKeeps
<1>2. phase = "cycles" /\ UNCHANGED <<file, phase, problems, root, cycle, compVars>>
  BY DEF VisitDone
<1> QED
  BY <1>t, <1>1, <1>2, SearchOn

\* A complaint about the shape of a step's needs names that step.
LEMMA ShapeNamesStep ==
  ASSUME NEW i
  PROVE  \A x \in ShapeProblems(i) : x[1] = i
<1>1. CASE file.needs[i].named
  <2> DEFINE unbound == PortNames(i) \ DOMAIN file.needs[i].byPort
             extra == DOMAIN file.needs[i].byPort \ PortNames(i)
  <2>1. ShapeProblems(i) = {<<i, "unbound", x>> : x \in unbound} \cup {<<i, "no such input", x>> : x \in extra}
    BY <1>1 DEF ShapeProblems
  <2> HIDE DEF unbound, extra
  <2>2. \A y \in {<<i, "unbound", x>> : x \in unbound} : y[1] = i
    BY NamesFirst
  <2>3. ASSUME NEW x PROVE <<i, "no such input", x>>[1] = i
    OBVIOUS
  <2> QED
    BY <2>1, <2>2, <2>3
<1>2. CASE ~file.needs[i].named
  BY <1>2 DEF ShapeProblems
<1> QED
  BY <1>1, <1>2

\* Finish gives the verdict: accepted exactly when nothing was reported.
LEMMA FinishKeeps ==
  ASSUME IInv, Finish
  PROVE  IInv'
<1>0. /\ phase = "finish" /\ UNCHANGED <<file, problems, inputTypes, nodes, deps, binding, dfsVars>>
      /\ phase' = IF problems # {} THEN "rejected" ELSE "accepted"
  BY DEF Finish
<1>p. /\ (PastInputs' <=> PastInputs) /\ (PastResolve' <=> PastResolve)
      /\ (PastDependencies' <=> PastDependencies) /\ (PastCycles' <=> PastCycles)
      /\ (PastEdges' <=> PastEdges) /\ (PastTrigger' <=> PastTrigger)
  BY <1>0 DEF PastInputs, PastResolve, PastDependencies, PastCycles, PastEdges, PastTrigger, Verdicts
<1>d. UNCHANGED <<color, path, root, cycle>>
  BY <1>0 DEF dfsVars
<1>1. TypeOK'
  <2>1. phase' \in Phases
    BY <1>0 DEF Phases, Verdicts
  <2>2. ProblemType' /\ CompType' /\ DfsType'
    BY <1>0, <1>d, TypeParts DEF ProblemType, CompType, DfsType, ColorType, PathType, IInv
  <2> QED
    BY <2>1, <2>2 DEF TypeOK, Phases, ProblemType, CompType, DfsType, ColorType, PathType
<1>2. KnownInv'
  BY <1>0, <1>p, KnownFrame DEF IInv
<1>3. SearchInv'
  BY <1>0, <1>p, SearchFrame DEF IInv
<1>4. ReportInv'
  BY <1>0, <1>d, <1>p, ReportFrame DEF IInv
<1>5. VerdictInv'
  BY <1>0 DEF VerdictInv, Verdicts
<1> QED
  BY <1>0, <1>1, <1>2, <1>3, <1>4, <1>5, FileFrame DEF IInv

\* checkEdges reports every step whose needs do not fit its ports, and binds the others.
LEMMA CheckEdgesKeeps ==
  ASSUME IInv, CheckEdges
  PROVE  IInv'
<1> DEFINE judged == {i \in nodes : Unresolved(i) = {}}
           shaped == {i \in judged : ShapeProblems(i) = {}}
           Edges(i) == {<<i, "edge type", p>> : p \in Mismatched(i)}
<1>0. /\ phase = "edges" /\ phase' = "trigger"
      /\ deps' = [i \in Index |-> IF i \in shaped THEN Bound(i) ELSE <<>>]
      /\ problems' = problems \cup (UNION {ShapeProblems(i) : i \in judged}) \cup (UNION {Edges(i) : i \in shaped})
      /\ UNCHANGED <<file, inputTypes, nodes, binding, plan, dfsVars>>
  BY DEF CheckEdges
<1>p. /\ PastInputs /\ PastResolve /\ PastDependencies /\ PastCycles /\ ~PastEdges /\ ~PastTrigger
      /\ PastInputs' /\ PastResolve' /\ PastDependencies' /\ PastCycles' /\ PastEdges' /\ ~PastTrigger'
  BY <1>0 DEF PastInputs, PastResolve, PastDependencies, PastCycles, PastEdges, PastTrigger, Verdicts
<1>d. UNCHANGED <<color, path, root, cycle>>
  BY <1>0 DEF dfsVars
<1>n. N \in Nat
  BY CompilerAssumption
<1>f. IsFile(file) /\ ReportInv /\ nodes = {i \in StepIndex : file.uses[i] \in DOMAIN Catalog}
  BY <1>p DEF IInv, KnownInv
<1>j. \A i : i \in judged <=> i \in StepIndex /\ file.uses[i] \in DOMAIN Catalog /\ Unresolved(i) = {}
  BY <1>f
<1>e. \A i : /\ \A x \in Edges(i) : x[1] = i
             /\ Edges(i) = {} <=> Mismatched(i) = {}
  <2> SUFFICES ASSUME NEW i PROVE /\ \A x \in Edges(i) : x[1] = i
                                  /\ Edges(i) = {} <=> Mismatched(i) = {}
    OBVIOUS
  <2>1. ASSUME NEW p PROVE <<i, "edge type", p>>[1] = i
    OBVIOUS
  <2> QED
    BY <2>1
<1>u. \A x : x \in problems' <=> \/ x \in problems
                                 \/ \E i \in judged : x \in ShapeProblems(i)
                                 \/ \E i \in shaped : x \in Edges(i)
  <2> DEFINE A == UNION {ShapeProblems(i) : i \in judged}
             B == UNION {Edges(i) : i \in shaped}
  <2>0. problems' = problems \cup (UNION {ShapeProblems(i) : i \in judged}) \cup (UNION {Edges(i) : i \in shaped})
    BY <1>0
  <2> HIDE DEF judged, shaped, Edges
  <2>1. problems' = problems \cup A \cup B
    BY <2>0
  <2>2. \A x : x \in A <=> \E i \in judged : x \in ShapeProblems(i)
    OBVIOUS
  <2>3. \A x : x \in B <=> \E i \in shaped : x \in Edges(i)
    OBVIOUS
  <2> HIDE DEF A, B
  <2> QED
    BY <2>1, <2>2, <2>3
<1>w. \A x \in problems' : \/ x \in problems
                           \/ \E i \in judged : x \in ShapeProblems(i)
                           \/ \E i \in shaped : x \in Edges(i)
  BY <1>u
<1>i. /\ problems \subseteq problems'
      /\ \A i \in judged : ShapeProblems(i) \subseteq problems'
      /\ \A i \in shaped : Edges(i) \subseteq problems'
  <2> HIDE DEF judged, shaped, Edges
  <2> QED
    BY <1>u
<1>1. TypeOK'
  <2>1. ProblemType'
    <3>1. \A i \in StepIndex : i \in -1 .. N - 1
      BY <1>n, Indices DEF StepIndex
    <3>2. \A x \in problems' : x \in problems \/ x[1] \in StepIndex
      <4> SUFFICES ASSUME NEW x \in problems', x \notin problems PROVE x[1] \in StepIndex
        OBVIOUS
      <4>1. ASSUME NEW i \in judged, x \in ShapeProblems(i) PROVE x[1] \in StepIndex
        BY <1>j, <4>1, ShapeNamesStep
      <4>2. ASSUME NEW i \in shaped, x \in Edges(i) PROVE x[1] \in StepIndex
        BY <1>e, <1>j, <4>2
      <4> HIDE DEF judged, shaped, Edges
      <4> QED
        BY <1>w, <4>1, <4>2
    <3> QED
      BY <3>1, <3>2, TypeParts DEF ProblemType, IInv
  <2>2. CompType'
    <3>1. ASSUME NEW i \in Index PROVE deps'[i] \in Seq(Index)
      <4>1. CASE i \in shaped
        <5>1. /\ i \in StepIndex /\ file.uses[i] \in DOMAIN Catalog /\ ShapeProblems(i) = {}
              /\ NeedSet(i) \subseteq Index
          BY <1>j, <4>1, ResolvedNeeds
        <5>2. Bound(i) \in Seq(NeedSet(i))
          BY <1>f, <5>1, BoundFits
        <5>3. Bound(i) \in Seq(Index)
          BY <5>1, <5>2
        <5>4. deps'[i] = Bound(i)
          BY <1>0, <4>1
        <5> QED
          BY <5>3, <5>4
      <4>2. CASE i \notin shaped
        <5>1. deps'[i] = <<>>
          BY <1>0, <4>2
        <5> QED
          BY <5>1, EmptySeq
      <4> QED
        BY <4>1, <4>2
    <3>2. deps' \in [Index -> Seq(Index)]
      <4>1. deps' = [i \in Index |-> deps'[i]]
        BY <1>0
      <4> QED
        BY <3>1, <4>1
    <3> QED
      BY <1>0, <3>2, TypeParts DEF CompType, IInv
  <2>3. DfsType'
    BY <1>d, TypeParts DEF DfsType, ColorType, PathType, IInv
  <2> QED
    BY <1>0, <2>1, <2>2, <2>3 DEF TypeOK, ProblemType, CompType, DfsType, ColorType, PathType
<1>2. KnownInv'
  BY <1>0, <1>p, KnownFrame DEF IInv
<1>3. SearchInv'
  BY <1>0, <1>p, SearchFrame DEF IInv
<1>4. ReportInv'
  <2> DEFINE Unfit(i) == i \in judged /\ (ShapeProblems(i) # {} \/ Mismatched(i) # {})
  <2>1. \A i \in StepIndex : Faulty(i)' <=> Faulty(i) \/ Unfit(i)
    <3>1. \A i : /\ ShapeProblems(i)' = ShapeProblems(i) /\ Mismatched(i)' = Mismatched(i)
                 /\ Unresolved(i)' = Unresolved(i)
      BY <1>0, FaultFrame
    <3> HIDE DEF judged
    <3> QED
      BY <1>0, <1>p, <1>j, <3>1 DEF Faulty
  <2>2. ASSUME NEW i \in StepIndex, Unfit(i) PROVE \E x \in problems' : x[1] = i
    <3>1. CASE ShapeProblems(i) # {}
      BY <1>i, <2>2, <3>1, ShapeNamesStep
    <3>2. CASE ShapeProblems(i) = {}
      <4>1. i \in shaped /\ Edges(i) # {}
        BY <1>e, <2>2, <3>2
      <4> HIDE DEF Edges, shaped
      <4> QED
        BY <1>e, <1>i, <4>1
    <3> QED
      BY <3>1, <3>2
  <2>3. problems' = {} <=> problems = {} /\ \A i \in StepIndex : ~Unfit(i)
    <3>1. ASSUME problems' = {} PROVE problems = {} /\ \A i \in StepIndex : ~Unfit(i)
      <4> HIDE DEF Unfit
      <4> QED
        BY <1>i, <2>2, <3>1
    <3>2. ASSUME problems = {}, \A i \in StepIndex : ~Unfit(i) PROVE problems' = {}
      <4>1. \A i \in judged : ShapeProblems(i) = {} /\ Mismatched(i) = {}
        BY <1>j, <3>2
      <4>2. \A i \in judged : Edges(i) = {}
        BY <1>e, <4>1
      <4>3. \A i \in shaped : i \in judged
        OBVIOUS
      <4> HIDE DEF judged, shaped, Edges
      <4> QED
        BY <1>w, <3>2, <4>1, <4>2, <4>3
    <3> QED
      BY <3>1, <3>2
  <2> HIDE DEF Unfit
  <2>4. problems = {} <=> /\ \A i \in InputIndex : file.inputs[i] \in Types
                          /\ \A i \in StepIndex : ~Faulty(i)
                          /\ cycle = <<>>
    BY <1>f, <1>p DEF ReportInv
  <2>5. ASSUME NEW i \in StepIndex, Faulty(i)' PROVE \E x \in problems' : x[1] = i
    BY <1>f, <1>i, <2>1, <2>2, <2>5 DEF ReportInv
  <2>6. (\A i \in StepIndex : ~Faulty(i)') <=> /\ \A i \in StepIndex : ~Faulty(i)
                                               /\ \A i \in StepIndex : ~Unfit(i)
    BY <2>1
  <2> QED
    BY <1>0, <1>d, <1>p, <2>3, <2>4, <2>5, <2>6 DEF ReportInv
<1>5. VerdictInv'
  BY <1>0 DEF VerdictInv, Verdicts
<1> QED
  BY <1>0, <1>1, <1>2, <1>3, <1>4, <1>5, FileFrame DEF IInv

\* A complaint about the trigger names no step.
LEMMA TriggerNamesNone ==
  ASSUME NEW t
  PROVE  \A x \in TriggerProblems(t) : x[1] = -1
<1> DEFINE unmet == {j \in InputIndex : inputTypes[j] # "" /\ t.provides[j] # inputTypes[j]}
           r == RespondProblem(t)
<1>1. TriggerProblems(t) = {<<-1, "not supplied", i>> : i \in unmet}
                           \cup (IF t.answers /\ ~t.timed THEN {<<-1, "timeout">>} ELSE {})
                           \cup (IF r # "" THEN {<<-1, r>>} ELSE {})
  BY DEF TriggerProblems
<1> HIDE DEF unmet, r
<1>2. ASSUME NEW i PROVE <<-1, "not supplied", i>>[1] = -1
  OBVIOUS
<1>3. <<-1, "timeout">>[1] = -1 /\ <<-1, r>>[1] = -1
  OBVIOUS
<1> QED
  BY <1>1, <1>2, <1>3

\* A step that answers is one of the file's.
LEMMA RespondKnown ==
  ASSUME NEW t, RespondProblem(t) = "", t.respond # -1
  PROVE  t.respond \in Index
<1>1. "nobody to answer" # "" /\ "unknown step" # ""
  OBVIOUS
<1> QED
  BY <1>1 DEF RespondProblem, Known

\* resolveTrigger reports what the trigger cannot supply or cannot answer with.
LEMMA ResolveTriggerKeeps ==
  ASSUME IInv, ResolveTrigger
  PROVE  IInv'
<1> DEFINE t == file.trigger
<1>0. /\ phase = "trigger" /\ phase' = "finish"
      /\ UNCHANGED <<file, inputTypes, nodes, deps, plan, dfsVars>>
  BY DEF ResolveTrigger
<1>p. /\ PastInputs /\ PastResolve /\ PastDependencies /\ PastCycles /\ PastEdges /\ ~PastTrigger
      /\ PastInputs' /\ PastResolve' /\ PastDependencies' /\ PastCycles' /\ PastEdges' /\ PastTrigger'
  BY <1>0 DEF PastInputs, PastResolve, PastDependencies, PastCycles, PastEdges, PastTrigger, Verdicts
<1>d. UNCHANGED <<color, path, root, cycle>>
  BY <1>0 DEF dfsVars
<1>n. N \in Nat
  BY CompilerAssumption
<1>b. binding'.respond \in -1 .. N - 1
  <2>0. binding.respond \in -1 .. N - 1
    BY TypeParts DEF IInv, CompType
  <2>1. CASE binding' = binding
    BY <2>0, <2>1
  <2>2. CASE binding' # binding
    <3>1. binding'.respond = IF RespondProblem(t) = "" /\ t.respond # -1 /\ OutputType(t.respond) # ""
                             THEN t.respond ELSE -1
      <4>1. binding' = [respond |-> IF RespondProblem(t) = "" /\ t.respond # -1 /\ OutputType(t.respond) # ""
                                    THEN t.respond ELSE -1,
                        overlap |-> IF t.overlap = "" THEN OverlapDefault(t) ELSE t.overlap,
                        timed |-> t.timed]
        BY <2>2, Zenon DEF ResolveTrigger
      <4> HIDE DEF t
      <4> QED
        BY <4>1
    <3>2. RespondProblem(t) = "" /\ t.respond # -1 => t.respond \in Index
      BY RespondKnown
    <3>3. binding'.respond = -1 \/ binding'.respond \in Index
      BY <3>1, <3>2
    <3> QED
      BY <1>n, <3>3 DEF Index
  <2> QED
    BY <2>1, <2>2
<1>w. /\ problems \subseteq problems'
      /\ \A x \in problems' : x \in problems \/ x[1] = -1
      /\ problems' = {} <=> problems = {} /\ ~TriggerFaulty
  <2>1. CASE t.kind = "none" /\ problems' = problems
    BY <2>1 DEF TriggerFaulty
  <2>2. CASE t.kind = "broken" /\ problems' = problems \cup {<<-1, "trigger">>}
    <3>1. <<-1, "trigger">>[1] = -1
      OBVIOUS
    <3>2. TriggerFaulty
      BY <2>2 DEF TriggerFaulty
    <3> QED
      BY <2>2, <3>1, <3>2
  <2>3. CASE t.kind = "built" /\ problems' = problems \cup TriggerProblems(t)
    <3>1. TriggerFaulty <=> TriggerProblems(t) # {}
      BY <2>3 DEF TriggerFaulty
    <3>2. \A x \in TriggerProblems(t) : x[1] = -1
      BY TriggerNamesNone
    <3> QED
      BY <2>3, <3>1, <3>2
  <2> QED
    BY <2>1, <2>2, <2>3 DEF ResolveTrigger
<1>1. TypeOK'
  <2>1. ProblemType'
    <3>1. -1 \in -1 .. N - 1
      BY <1>n
    <3> QED
      BY <1>w, <3>1, TypeParts DEF ProblemType, IInv
  <2>2. CompType'
    BY <1>0, <1>b, TypeParts DEF CompType, IInv
  <2>3. DfsType'
    BY <1>d, TypeParts DEF DfsType, ColorType, PathType, IInv
  <2> QED
    BY <1>0, <2>1, <2>2, <2>3 DEF TypeOK, ProblemType, CompType, DfsType, ColorType, PathType
<1>2. KnownInv'
  BY <1>0, <1>p, KnownFrame DEF IInv
<1>3. SearchInv'
  BY <1>0, <1>p, SearchFrame DEF IInv
<1>4. ReportInv'
  <2>1. \A i : Faulty(i)' = Faulty(i)
    BY <1>0, <1>p, FaultyFrame
  <2>2. TriggerFaulty' = TriggerFaulty
    BY <1>0, FaultFrame
  <2>3. ReportInv
    BY DEF IInv
  <2> QED
    BY <1>0, <1>d, <1>p, <1>w, <2>1, <2>2, <2>3 DEF ReportInv
<1>5. VerdictInv'
  BY <1>0 DEF VerdictInv, Verdicts
<1> QED
  BY <1>0, <1>1, <1>2, <1>3, <1>4, <1>5, FileFrame DEF IInv

\* Every step of the compiler keeps the invariant.
LEMMA NextIInv == IInv /\ [Next]_vars => IInv'
<1> SUFFICES ASSUME IInv, [Next]_vars PROVE IInv'
  OBVIOUS
<1>1. CASE UNCHANGED vars
  <2>1. UNCHANGED <<file, phase, problems, inputTypes, nodes, deps, binding, plan, color, path, root, cycle>>
    BY <1>1 DEF vars, compVars, dfsVars
  <2>p. /\ (PastInputs' <=> PastInputs) /\ (PastResolve' <=> PastResolve)
        /\ (PastDependencies' <=> PastDependencies) /\ (PastCycles' <=> PastCycles)
        /\ (PastEdges' <=> PastEdges) /\ (PastTrigger' <=> PastTrigger)
    BY <2>1 DEF PastInputs, PastResolve, PastDependencies, PastCycles, PastEdges, PastTrigger
  <2>2. TypeOK'
    BY <2>1 DEF TypeOK, IInv
  <2>3. KnownInv'
    BY <2>1, <2>p, KnownFrame DEF IInv
  <2>4. SearchInv'
    BY <2>1, <2>p, SearchFrame DEF IInv, dfsVars
  <2>5. ReportInv'
    BY <2>1, <2>p, ReportFrame DEF IInv
  <2>6. VerdictInv'
    BY <2>1 DEF VerdictInv, IInv
  <2> QED
    BY <2>1, <2>2, <2>3, <2>4, <2>5, <2>6, FileFrame DEF IInv
<1>2. CASE Next
  BY <1>1, <1>2, ResolveInputsKeeps, ResolveKeeps, CheckDependenciesKeeps, VisitRootKeeps, VisitEdgeKeeps,
     VisitDoneKeeps, CheckEdgesKeeps, ResolveTriggerKeeps, FinishKeeps DEF Next, Done
<1> QED
  BY <1>1, <1>2

\* The invariant holds throughout the compilation of any document.
THEOREM Invariance == Spec => []IInv
BY InitIInv, NextIInv, PTL DEF Spec

\* The state of the compiler is always of its type, for every catalog and document.
THEOREM TypeCorrect == Spec => []TypeOK
<1>1. IInv => TypeOK
  BY DEF IInv
<1> QED
  BY <1>1, Invariance, PTL

\* A cycle is reported exactly when the file has one, and the one reported is real.
THEOREM CyclesAlwaysReal == Spec => []CycleReal
<1>1. IInv => CycleReal
  BY DEF IInv, SearchInv, CycleInv
<1> QED
  BY <1>1, Invariance, PTL

-----------------------------------------------------------------------------
(* What the compiler finds is what the type rules say.                     *)

\* A list counts as many values as it has positions exactly when no two are equal.
LEMMA DistinctCount ==
  ASSUME NEW n \in Nat, NEW f, f = [p \in 1 .. n |-> f[p]]
  PROVE  Cardinality({f[p] : p \in 1 .. n}) = n <=> \A a, b \in 1 .. n : f[a] = f[b] => a = b
<1> DEFINE S == 1 .. n
           T == {f[p] : p \in 1 .. n}
<1>1. IsFiniteSet(S) /\ Cardinality(S) = n
  BY FS_Interval
<1>2. f \in Surjection(S, T)
  BY DEF Surjection
<1>3. Cardinality(T) = Cardinality(S) <=> f \in Injection(S, T)
  BY <1>1, <1>2, FS_Surjection
<1>4. f \in Injection(S, T) <=> \A a, b \in S : f[a] = f[b] => a = b
  BY DEF Injection, IsInjective
<1> QED
  BY <1>1, <1>3, <1>4

\* A producer whose type is known has the type the file and the catalog give it.
LEMMA SourceKnown ==
  ASSUME KnownInv, PastInputs, PastResolve, NEW x \in Index, OutputType(x) # ""
  PROVE  OutputType(x) = IF x \in InputIndex THEN file.inputs[x] ELSE Catalog[file.uses[x]].out
<1>1. CASE x \in InputIndex
  BY <1>1 DEF OutputType, KnownInv
<1>2. CASE x \notin InputIndex
  BY <1>2 DEF OutputType, Descriptor
<1> QED
  BY <1>1, <1>2

\* checkEdges finds a step whose producers are known faultless exactly when it fits.
LEMMA FitsJudged ==
  ASSUME IsFile(file), KnownInv, PastInputs, PastResolve, NEW i \in StepIndex,
         file.uses[i] \in DOMAIN Catalog, NeedSet(i) \subseteq Index,
         \A x \in NeedSet(i) : OutputType(x) # ""
  PROVE  StepFits(i) <=> ShapeProblems(i) = {} /\ Mismatched(i) = {}
<1> DEFINE needs == file.needs[i]
           d == Catalog[file.uses[i]]
           Source(x) == IF x \in InputIndex THEN file.inputs[x] ELSE Catalog[file.uses[x]].out
           n == Arity(i)
<1>1. /\ n \in Nat /\ DOMAIN d.ins = 1 .. n /\ Len(d.ins) = n /\ Descriptor(i) = d
  BY PortsType DEF Descriptor, Arity
<1>2. \A x \in NeedSet(i) : OutputType(x) = Source(x) /\ OutputType(x) # ""
  BY SourceKnown
<1>3. ShapeProblems(i) = {} =>
         (Mismatched(i) = {} <=> \A p \in 1 .. n : Source(Bound(i)[p]) = d.ins[p].type)
  <2> SUFFICES ASSUME ShapeProblems(i) = {}
               PROVE  Mismatched(i) = {} <=> \A p \in 1 .. n : Source(Bound(i)[p]) = d.ins[p].type
    OBVIOUS
  <2>1. \A p \in 1 .. n : Bound(i)[p] \in NeedSet(i)
    BY BoundFits
  <2>2. Mismatched(i) = {p \in 1 .. n : OutputType(Bound(i)[p]) \notin {"", d.ins[p].type}}
    BY <1>1 DEF Mismatched
  <2>3. \A p \in 1 .. n : OutputType(Bound(i)[p]) = Source(Bound(i)[p]) /\ OutputType(Bound(i)[p]) # ""
    BY <1>2, <2>1
  <2> HIDE DEF n, d, Source
  <2> QED
    BY <2>2, <2>3
<1>4. CASE needs.named
  <2>1. PortNames(i) = {d.ins[p].name : p \in 1 .. n}
    BY <1>1 DEF PortNames
  <2>2. ShapeProblems(i) = {} <=> DOMAIN needs.byPort = PortNames(i)
    <3> DEFINE unbound == PortNames(i) \ DOMAIN file.needs[i].byPort
               extra == DOMAIN file.needs[i].byPort \ PortNames(i)
    <3>1. ShapeProblems(i) = {<<i, "unbound", x>> : x \in unbound} \cup {<<i, "no such input", x>> : x \in extra}
      BY <1>4 DEF ShapeProblems
    <3>2. unbound = {} /\ extra = {} <=> DOMAIN needs.byPort = PortNames(i)
      OBVIOUS
    <3> HIDE DEF unbound, extra
    <3> DEFINE U == {<<i, "unbound", x>> : x \in unbound}
               E == {<<i, "no such input", x>> : x \in extra}
    <3>u. U = {} <=> unbound = {}
      OBVIOUS
    <3>e. E = {} <=> extra = {}
      <4>1. \A x \in extra : <<i, "no such input", x>> \in E
        OBVIOUS
      <4>2. extra = {} => E = {}
        OBVIOUS
      <4> QED
        BY <4>1, <4>2
    <3>s. ShapeProblems(i) = U \cup E
      BY <3>1
    <3> HIDE DEF U, E
    <3>3. ShapeProblems(i) = {} <=> unbound = {} /\ extra = {}
      BY <3>u, <3>e, <3>s
    <3> QED
      BY <3>2, <3>3
  <2>3. \A p \in 1 .. n : Bound(i)[p] = needs.byPort[d.ins[p].name]
    BY <1>1, <1>4 DEF Bound
  <2>4. StepFits(i) <=> /\ DOMAIN needs.byPort = {d.ins[p].name : p \in 1 .. n}
                        /\ \A p \in 1 .. n : Source(needs.byPort[d.ins[p].name]) = d.ins[p].type
    BY <1>1, <1>4 DEF StepFits
  <2> HIDE DEF n, d, Source, needs
  <2>5. StepFits(i) <=> /\ ShapeProblems(i) = {}
                        /\ \A p \in 1 .. n : Source(Bound(i)[p]) = d.ins[p].type
    BY <2>1, <2>2, <2>3, <2>4
  <2> QED
    BY <1>3, <2>5
<1>5. CASE ~needs.named
  <2>1. Ambiguous(i) <=> \E a, b \in 1 .. n : a # b /\ d.ins[a].type = d.ins[b].type
    BY <1>1 DEF Ambiguous
  <2>2. Cardinality({d.ins[p].type : p \in 1 .. n}) = n <=> ~Ambiguous(i)
    <3> DEFINE f == [p \in 1 .. n |-> d.ins[p].type]
    <3> HIDE DEF n, d
    <3>1. f = [p \in 1 .. n |-> f[p]] /\ \A p \in 1 .. n : f[p] = d.ins[p].type
      OBVIOUS
    <3>2. {f[p] : p \in 1 .. n} = {d.ins[p].type : p \in 1 .. n}
      BY <3>1
    <3> HIDE DEF f
    <3>3. Cardinality({f[p] : p \in 1 .. n}) = n <=> \A a, b \in 1 .. n : f[a] = f[b] => a = b
      <4>1. n \in Nat
        BY <1>1
      <4>2. f = [p \in 1 .. n |-> f[p]]
        BY <3>1
      <4> QED
        BY <4>1, <4>2, DistinctCount, Zenon
    <3> QED
      BY <2>1, <3>1, <3>2, <3>3
  <2>3. ShapeProblems(i) = {} <=> ~Ambiguous(i) /\ Len(needs.order) = n
    BY <1>5 DEF ShapeProblems
  <2>4. Bound(i) = needs.order
    BY <1>5 DEF Bound
  <2>5. StepFits(i) <=> /\ Cardinality({d.ins[p].type : p \in 1 .. n}) = n
                        /\ Len(needs.order) = n
                        /\ \A p \in 1 .. n : Source(needs.order[p]) = d.ins[p].type
    BY <1>1, <1>5 DEF StepFits
  <2> HIDE DEF n, d, Source, needs
  <2> QED
    BY <1>3, <2>2, <2>3, <2>4, <2>5
<1> QED
  BY <1>4, <1>5

\* One fault hides no other: a step wrong on its own account is always reported.
THEOREM FaultsNeverHidden == Spec => []NothingHidden
<1>1. IInv => NothingHidden
  <2> SUFFICES ASSUME IInv, phase \in Verdicts, NEW i \in StepIndex,
                      \/ file.uses[i] \notin DOMAIN Catalog
                      \/ ~(NeedSet(i) \subseteq Index)
                      \/ /\ file.uses[i] \in DOMAIN Catalog /\ NeedSet(i) \subseteq Index
                         /\ \A x \in NeedSet(i) : OutputType(x) # ""
                         /\ ~StepFits(i)
               PROVE  \E x \in problems : x[1] = i
    BY DEF NothingHidden
  <2>p. PastInputs /\ PastResolve /\ PastDependencies /\ PastEdges
    BY PhaseOrder DEF Verdicts
  <2>1. Faulty(i)
    <3>1. CASE file.uses[i] \notin DOMAIN Catalog
      BY <2>p, <3>1 DEF Faulty
    <3>2. CASE ~(NeedSet(i) \subseteq Index)
      BY <2>p, <3>2, ResolvedNeeds DEF Faulty
    <3>3. CASE /\ file.uses[i] \in DOMAIN Catalog /\ NeedSet(i) \subseteq Index
               /\ \A x \in NeedSet(i) : OutputType(x) # ""
               /\ ~StepFits(i)
      <4>1. ~(ShapeProblems(i) = {} /\ Mismatched(i) = {})
        BY <2>p, <3>3, FitsJudged DEF IInv
      <4>2. Unresolved(i) = {}
        BY <3>3, ResolvedNeeds
      <4> QED
        BY <2>p, <3>3, <4>1, <4>2 DEF Faulty
    <3> QED
      BY <3>1, <3>2, <3>3
  <2> QED
    BY <2>1 DEF IInv, ReportInv
<1> QED
  BY <1>1, Invariance, PTL

\* A trigger is faultless exactly when it supplies what the inputs ask for, and
\* what it answers with is a step of a type it can write, within a time.
LEMMA TriggerJudged ==
  ASSUME IsFile(file), KnownInv, PastInputs, PastResolve,
         \A i \in InputIndex : file.inputs[i] \in Types,
         \A i \in StepIndex : file.uses[i] \in DOMAIN Catalog
  PROVE  ~TriggerFaulty <=> TriggerFits
<1> DEFINE t == file.trigger
           unmet == {j \in InputIndex : inputTypes[j] # "" /\ t.provides[j] # inputTypes[j]}
           Answers == t.respond # -1 => /\ t.answers /\ t.respond \in StepIndex
                                        /\ Catalog[file.uses[t.respond]].out \in ResponseTypes
<1>1. \A i \in InputIndex : inputTypes[i] = file.inputs[i] /\ inputTypes[i] # ""
  BY CompilerAssumption DEF KnownInv
<1>2. \A i \in StepIndex : OutputType(i) = Catalog[file.uses[i]].out /\ OutputType(i) # ""
  BY CompilerAssumption, Indices DEF OutputType, Descriptor, KnownInv
<1>3. RespondProblem(t) = "" <=> Answers
  <2>s. "nobody to answer" # "" /\ "unknown step" # "" /\ "an input" # "" /\ "response type" # ""
    OBVIOUS
  <2>1. CASE t.respond = -1
    BY <2>1 DEF RespondProblem
  <2>2. CASE t.respond # -1 /\ ~t.answers
    BY <2>s, <2>2 DEF RespondProblem
  <2>3. CASE t.respond # -1 /\ t.answers /\ t.respond \notin Index
    BY <2>s, <2>3, Indices DEF RespondProblem, Known
  <2>4. CASE t.respond # -1 /\ t.answers /\ t.respond \in InputIndex
    BY <2>s, <2>4, Indices DEF RespondProblem, Known
  <2>5. CASE t.respond # -1 /\ t.answers /\ t.respond \in StepIndex
    <3>1. t.respond \in Index /\ t.respond \notin InputIndex
      BY <2>5, Indices
    <3>2. RespondProblem(t) = IF OutputType(t.respond) \notin ResponseTypes \cup {""} THEN "response type" ELSE ""
      BY <2>5, <3>1 DEF RespondProblem, Known
    <3>3. OutputType(t.respond) = Catalog[file.uses[t.respond]].out /\ OutputType(t.respond) # ""
      BY <1>2, <2>5
    <3> QED
      BY <2>s, <2>5, <3>2, <3>3
  <2> QED
    BY <2>1, <2>2, <2>3, <2>4, <2>5, Indices
<1>4. TriggerProblems(t) = {} <=> unmet = {} /\ (t.answers => t.timed) /\ RespondProblem(t) = ""
  <2> DEFINE r == RespondProblem(t)
             A == {<<-1, "not supplied", i>> : i \in unmet}
             B == IF t.answers /\ ~t.timed THEN {<<-1, "timeout">>} ELSE {}
             C == IF r # "" THEN {<<-1, r>>} ELSE {}
  <2>1. TriggerProblems(t) = A \cup B \cup C
    BY DEF TriggerProblems
  <2> HIDE DEF unmet, r, t
  <2>2. A = {} <=> unmet = {}
    <3>1. \A x \in unmet : <<-1, "not supplied", x>> \in A
      OBVIOUS
    <3>2. unmet = {} => A = {}
      OBVIOUS
    <3> QED
      BY <3>1, <3>2
  <2>3. B = {} <=> ~(t.answers /\ ~t.timed)
    OBVIOUS
  <2>4. C = {} <=> r = ""
    OBVIOUS
  <2> HIDE DEF A, B, C
  <2>5. TriggerProblems(t) = {} <=> A = {} /\ B = {} /\ C = {}
    BY <2>1
  <2> QED
    BY <2>2, <2>3, <2>4, <2>5 DEF r
<1>5. unmet = {} <=> \A i \in InputIndex : t.provides[i] = file.inputs[i]
  BY <1>1
<1>6. t.kind \in {"none", "broken", "built"}
  BY DEF IsFile
<1>7. TriggerFits <=> \/ t.kind = "none"
                      \/ /\ t.kind = "built"
                         /\ \A i \in InputIndex : t.provides[i] = file.inputs[i]
                         /\ t.answers => t.timed
                         /\ Answers
  BY DEF TriggerFits
<1>8. TriggerFaulty <=> \/ t.kind = "broken"
                        \/ t.kind = "built" /\ TriggerProblems(t) # {}
  BY DEF TriggerFaulty
<1> HIDE DEF t, unmet, Answers
<1> QED
  BY <1>3, <1>4, <1>5, <1>6, <1>7, <1>8

\* The phases skip what they cannot judge, and still the compiler accepts exactly
\* the well-formed files, whatever the catalog and the document.
THEOREM AcceptsWellFormedOnly == Spec => []AcceptsExactly
<1>1. IInv => AcceptsExactly
  <2> SUFFICES ASSUME IInv, phase \in Verdicts PROVE phase = "accepted" <=> WellFormed
    BY DEF AcceptsExactly
  <2>p. PastInputs /\ PastResolve /\ PastDependencies /\ PastCycles /\ PastEdges /\ PastTrigger
    BY PhaseOrder DEF Verdicts
  <2> DEFINE InputsOk == \A i \in InputIndex : file.inputs[i] \in Types
             BuiltOk == \A i \in StepIndex : file.uses[i] \in DOMAIN Catalog /\ NeedSet(i) \subseteq Index
             FitOk == \A i \in StepIndex : StepFits(i)
  <2>1. phase = "accepted" <=> problems = {}
    BY DEF IInv, VerdictInv
  <2>2. problems = {} <=> InputsOk /\ (\A i \in StepIndex : ~Faulty(i)) /\ cycle = <<>> /\ ~TriggerFaulty
    BY <2>p DEF IInv, ReportInv
  <2>3. cycle = <<>> <=> ~Cyclic
    BY <2>p DEF IInv, SearchInv, CycleInv, CycleReal, PastCycles
  <2>4. \A i \in StepIndex : ~Faulty(i) <=> /\ file.uses[i] \in DOMAIN Catalog /\ NeedSet(i) \subseteq Index
                                            /\ ShapeProblems(i) = {} /\ Mismatched(i) = {}
    BY <2>p, ResolvedNeeds DEF Faulty
  <2>5. InputsOk /\ BuiltOk => \A x \in Index : OutputType(x) # ""
    <3> SUFFICES ASSUME InputsOk, BuiltOk, NEW x \in Index PROVE OutputType(x) # ""
      OBVIOUS
    <3>1. CASE x \in InputIndex
      BY <2>p, <3>1, CompilerAssumption DEF OutputType, IInv, KnownInv
    <3>2. CASE x \in StepIndex
      <4>1. x \in nodes /\ x \notin InputIndex
        BY <2>p, <3>2, Indices DEF IInv, KnownInv
      <4> QED
        BY <3>2, <4>1, CompilerAssumption DEF OutputType, Descriptor
    <3> QED
      BY <3>1, <3>2, Indices
  <2>6. ASSUME InputsOk, BuiltOk, NEW i \in StepIndex
        PROVE  StepFits(i) <=> ShapeProblems(i) = {} /\ Mismatched(i) = {}
    <3>1. file.uses[i] \in DOMAIN Catalog /\ NeedSet(i) \subseteq Index
      BY <2>6
    <3>2. \A x \in NeedSet(i) : OutputType(x) # ""
      BY <2>5, <2>6, <3>1
    <3> QED
      BY <2>p, <3>1, <3>2, FitsJudged DEF IInv
  <2>7. InputsOk /\ BuiltOk => (~TriggerFaulty <=> TriggerFits)
    BY <2>p, TriggerJudged DEF IInv
  <2>8. WellFormed <=> InputsOk /\ BuiltOk /\ ~Cyclic /\ FitOk /\ TriggerFits
    BY DEF WellFormed
  <2>9. InputsOk /\ (\A i \in StepIndex : ~Faulty(i)) <=> InputsOk /\ BuiltOk /\ FitOk
    BY <2>4, <2>6
  <2>10. InputsOk /\ (\A i \in StepIndex : ~Faulty(i)) => BuiltOk
    BY <2>4
  <2> HIDE DEF InputsOk, BuiltOk, FitOk
  <2> QED
    BY <2>1, <2>2, <2>3, <2>7, <2>8, <2>9, <2>10
<1> QED
  BY <1>1, Invariance, PTL

-----------------------------------------------------------------------------
(* The plan.                                                               *)

\* What a step is bound to and what it produces follow from the same knowledge.
LEMMA BoundFrame ==
  ASSUME UNCHANGED <<file, inputTypes, nodes>>
  PROVE  /\ \A i : Bound(i)' = Bound(i)
         /\ \A i : OutputType(i)' = OutputType(i)
<1>1. \A i : Descriptor(i)' = Descriptor(i) /\ Arity(i)' = Arity(i)
  BY DEF Descriptor, Arity
<1> QED
  BY <1>1 DEF Bound, OutputType

\* The plan is made of what was bound and of nothing else.
LEMMA PlanOfDeps ==
  ASSUME deps' = deps
  PROVE  MakePlan' = MakePlan
<1>1. Offset' = Offset
  BY DEF Offset
<1>2. \A e : ConsumerOf(e)' = ConsumerOf(e)
  BY <1>1 DEF ConsumerOf
<1>3. \A e : ProducerOf(e)' = ProducerOf(e)
  BY <1>1, <1>2 DEF ProducerOf
<1>4. \A i : EdgesFrom(i)' = EdgesFrom(i)
  BY <1>1, <1>3 DEF EdgesFrom
<1>5. \A i : DependentsOf(i)' = DependentsOf(i)
  BY <1>2, <1>4 DEF DependentsOf
<1>6. Ready(StepIndex)' = Ready(StepIndex)
  BY DEF Ready, Listed
<1> QED
  BY <1>1, <1>5, <1>6 DEF MakePlan

\* The fields of the plan.
LEMMA PlanFields ==
  /\ MakePlan.deps = deps
  /\ MakePlan.dependents = [i \in Index |-> DependentsOf(i)]
  /\ MakePlan.offsets = [i \in Index |-> Offset[i]]
  /\ MakePlan.total = Offset[N]
  /\ MakePlan.inputs = SubSeq(Ids, 1, NumInputs)
  /\ MakePlan.roots = Ready(StepIndex)
BY DEF MakePlan

\* A step of the compiler that neither binds, nor answers, nor makes the plan.
LEMMA PlanFrame ==
  ASSUME PlanInv, UNCHANGED <<file, inputTypes, nodes, deps, binding>>,
         PastEdges' => PastEdges, PastTrigger => PastTrigger', phase' # "accepted"
  PROVE  PlanInv'
<1>1. \A i : Unresolved(i)' = Unresolved(i) /\ ShapeProblems(i)' = ShapeProblems(i)
  BY FaultFrame
<1>2. \A i : Bound(i)' = Bound(i) /\ OutputType(i)' = OutputType(i)
  BY BoundFrame
<1> QED
  BY <1>1, <1>2 DEF PlanInv

\* The answer a trigger is bound to is of a type it can write.
LEMMA RespondTyped ==
  ASSUME NEW t, RespondProblem(t) = "", t.respond # -1, OutputType(t.respond) # ""
  PROVE  OutputType(t.respond) \in ResponseTypes
<1>1. "nobody to answer" # "" /\ "unknown step" # "" /\ "an input" # "" /\ "response type" # ""
  OBVIOUS
<1>2. OutputType(t.respond) \in ResponseTypes \cup {""}
  BY <1>1 DEF RespondProblem
<1> QED
  BY <1>2

\* checkEdges binds, resolveTrigger finds the answer, plan copies what was bound.
LEMMA NextPlanInv == IInv /\ PlanInv /\ [Next]_vars => PlanInv'
<1> SUFFICES ASSUME IInv, PlanInv, [Next]_vars PROVE PlanInv'
  OBVIOUS
<1> USE DEF PastEdges, PastTrigger, Verdicts
<1>1. CASE UNCHANGED vars
  <2>1. UNCHANGED <<file, phase, inputTypes, nodes, deps, binding, plan>>
    BY <1>1 DEF vars, compVars
  <2>2. \A i : Unresolved(i)' = Unresolved(i) /\ ShapeProblems(i)' = ShapeProblems(i)
    BY <2>1, FaultFrame
  <2>3. \A i : Bound(i)' = Bound(i) /\ OutputType(i)' = OutputType(i)
    BY <2>1, BoundFrame
  <2>4. MakePlan' = MakePlan
    BY <2>1, PlanOfDeps
  <2> QED
    BY <2>1, <2>2, <2>3, <2>4 DEF PlanInv
<1>2. CASE ResolveInputs
  <2>1. phase = "inputs" /\ phase' = "resolve" /\ binding' = binding
    BY <1>2 DEF ResolveInputs
  <2>2. binding.respond = -1
    BY <2>1 DEF PlanInv
  <2> QED
    BY <2>1, <2>2 DEF PlanInv
<1>3. CASE Resolve
  <2>1. phase = "resolve" /\ phase' = "dependencies" /\ binding' = binding
    BY <1>3 DEF Resolve
  <2>2. binding.respond = -1
    BY <2>1 DEF PlanInv
  <2> QED
    BY <2>1, <2>2 DEF PlanInv
<1>4. CASE CheckDependencies
  BY <1>4, PlanFrame DEF CheckDependencies, compVars
<1>5. CASE VisitRoot
  <2>1. phase = "cycles" /\ phase' \in {"cycles", "edges"} /\ UNCHANGED <<file, inputTypes, nodes, deps, binding>>
    BY <1>5 DEF VisitRoot, compVars
  <2> QED
    BY <2>1, PlanFrame
<1>6. CASE VisitEdge
  <2>1. phase = "cycles" /\ phase' \in {"cycles", "edges"} /\ UNCHANGED <<file, inputTypes, nodes, deps, binding>>
    <3>1. phase = "cycles" /\ UNCHANGED <<file, compVars>>
      BY <1>6 DEF VisitEdge
    <3>2. phase' = phase \/ phase' = "edges"
      BY <1>6 DEF VisitEdge, ReportCycle
    <3> QED
      BY <3>1, <3>2 DEF compVars
  <2> QED
    BY <2>1, PlanFrame
<1>7. CASE VisitDone
  <2>1. phase = "cycles" /\ phase' = phase /\ UNCHANGED <<file, inputTypes, nodes, deps, binding>>
    BY <1>7 DEF VisitDone, compVars
  <2> QED
    BY <2>1, PlanFrame
<1>8. CASE CheckEdges
  <2>1. /\ phase = "edges" /\ phase' = "trigger" /\ UNCHANGED <<file, inputTypes, nodes, binding>>
        /\ deps' = [i \in Index |-> IF i \in nodes /\ Unresolved(i) = {} /\ ShapeProblems(i) = {}
                                    THEN Bound(i) ELSE <<>>]
    BY <1>8 DEF CheckEdges
  <2>2. \A i : Unresolved(i)' = Unresolved(i) /\ ShapeProblems(i)' = ShapeProblems(i)
    BY <2>1, FaultFrame
  <2>3. \A i : Bound(i)' = Bound(i)
    BY <2>1, BoundFrame
  <2>4. binding.respond = -1
    BY <2>1 DEF PlanInv
  <2> QED
    BY <2>1, <2>2, <2>3, <2>4 DEF PlanInv
<1>9. CASE ResolveTrigger
  <2> DEFINE t == file.trigger
  <2>1. phase = "trigger" /\ phase' = "finish" /\ UNCHANGED <<file, inputTypes, nodes, deps>>
    BY <1>9 DEF ResolveTrigger
  <2>2. \A i : Unresolved(i)' = Unresolved(i) /\ ShapeProblems(i)' = ShapeProblems(i)
    BY <2>1, FaultFrame
  <2>3. \A i : Bound(i)' = Bound(i) /\ OutputType(i)' = OutputType(i)
    BY <2>1, BoundFrame
  <2>4. binding'.respond # -1 => OutputType(binding'.respond) \in ResponseTypes
    <3>0. binding.respond = -1
      BY <2>1 DEF PlanInv
    <3>1. CASE binding' = binding
      BY <3>0, <3>1
    <3>2. CASE binding' # binding
      <4>1. binding' = [respond |-> IF RespondProblem(t) = "" /\ t.respond # -1 /\ OutputType(t.respond) # ""
                                    THEN t.respond ELSE -1,
                        overlap |-> IF t.overlap = "" THEN OverlapDefault(t) ELSE t.overlap,
                        timed |-> t.timed]
        BY <1>9, <3>2, Zenon DEF ResolveTrigger
      <4> HIDE DEF t
      <4>2. binding'.respond = IF RespondProblem(t) = "" /\ t.respond # -1 /\ OutputType(t.respond) # ""
                               THEN t.respond ELSE -1
        BY <4>1
      <4> QED
        BY <4>2, RespondTyped
    <3> QED
      BY <3>1, <3>2
  <2>5. PastEdges /\ PastTrigger' /\ phase' # "accepted"
    BY <2>1
  <2> HIDE DEF PastEdges, PastTrigger
  <2> QED
    BY <2>1, <2>2, <2>3, <2>4, <2>5 DEF PlanInv
<1>10. CASE Finish
  <2>1. /\ phase = "finish" /\ UNCHANGED <<file, inputTypes, nodes, deps, binding>>
        /\ phase' = "accepted" => plan' = MakePlan
        /\ phase' \in Verdicts
    BY <1>10 DEF Finish
  <2>2. \A i : Unresolved(i)' = Unresolved(i) /\ ShapeProblems(i)' = ShapeProblems(i)
    BY <2>1, FaultFrame
  <2>3. \A i : Bound(i)' = Bound(i) /\ OutputType(i)' = OutputType(i)
    BY <2>1, BoundFrame
  <2>4. MakePlan' = MakePlan
    BY <2>1, PlanOfDeps
  <2>5. PastEdges /\ PastTrigger /\ PastTrigger'
    BY <2>1
  <2> HIDE DEF PastEdges, PastTrigger
  <2> QED
    BY <2>1, <2>2, <2>3, <2>4, <2>5 DEF PlanInv
<1> QED
  BY <1>1, <1>2, <1>3, <1>4, <1>5, <1>6, <1>7, <1>8, <1>9, <1>10 DEF Next, Done

\* What the plan is made of is known in every state.
THEOREM PlanInvariance == Spec => [](IInv /\ PlanInv)
<1>1. Init => PlanInv
  <2> SUFFICES ASSUME Init PROVE PlanInv
    OBVIOUS
  <2>1. phase = "inputs" /\ binding.respond = -1
    BY DEF Init, NoBinding
  <2> QED
    BY <2>1, PhaseOrder DEF PlanInv
<1> QED
  BY <1>1, Invariance, NextPlanInv, PTL DEF Spec

\* No step of an accepted plan waits for itself, none is handed too few values or
\* one of another type, and the trigger can write the answer: the checks the node
\* adapters repeat at run time never fail.
THEOREM AcceptedPlansExecute == Spec => []PlanExecutable
<1>1. IInv /\ PlanInv => PlanExecutable
  <2> SUFFICES ASSUME IInv, PlanInv, phase = "accepted"
               PROVE  /\ \A S \in (SUBSET Index) \ {{}} :
                            \E i \in S : \A p \in DOMAIN plan.deps[i] : plan.deps[i][p] \notin S
                      /\ \A i \in StepIndex : ExecuteError(i, Delivered(i)) = ""
                      /\ binding.respond # -1 => Respondable(binding.respond)
    BY DEF PlanExecutable
  <2>p. PastInputs /\ PastResolve /\ PastDependencies /\ PastCycles /\ PastEdges /\ PastTrigger
    BY PhaseOrder
  <2>f. IsFile(file) /\ KnownInv /\ problems = {} /\ phase \in Verdicts
    BY DEF IInv, VerdictInv, Verdicts
  <2>1. /\ \A i \in InputIndex : file.inputs[i] \in Types
        /\ \A i \in StepIndex : ~Faulty(i)
        /\ ~Cyclic
    BY <2>f, <2>p DEF IInv, ReportInv, SearchInv, CycleInv, CycleReal, PastCycles
  <2>2. ASSUME NEW i \in StepIndex
        PROVE  /\ file.uses[i] \in DOMAIN Catalog /\ NeedSet(i) \subseteq Index /\ i \in nodes
               /\ ShapeProblems(i) = {} /\ Mismatched(i) = {} /\ plan.deps[i] = Bound(i)
    <3>1. /\ file.uses[i] \in DOMAIN Catalog /\ Unresolved(i) = {}
          /\ ShapeProblems(i) = {} /\ Mismatched(i) = {}
      BY <2>1, <2>p DEF Faulty
    <3>2. i \in nodes /\ i \in Index
      BY <2>f, <2>p, <3>1, Indices DEF KnownInv
    <3>3. plan.deps[i] = Bound(i)
      BY <2>p, <3>1, <3>2, PlanFields DEF PlanInv
    <3> QED
      BY <3>1, <3>2, <3>3, ResolvedNeeds
  <2>3. ASSUME NEW i \in InputIndex PROVE plan.deps[i] = <<>>
    <3>1. i \in Index /\ i \notin nodes
      BY Indices, <2>f, <2>p DEF KnownInv
    <3> QED
      BY <2>p, <3>1, PlanFields DEF PlanInv
  <2>4. ASSUME NEW i \in StepIndex
        PROVE  /\ DOMAIN plan.deps[i] = 1 .. Arity(i) /\ Arity(i) \in Nat
               /\ \A p \in 1 .. Arity(i) : plan.deps[i][p] \in NeedSet(i)
    <3>1. /\ Bound(i) \in Seq(NeedSet(i)) /\ Len(Bound(i)) = Arity(i)
          /\ \A p \in 1 .. Arity(i) : Bound(i)[p] \in NeedSet(i)
      BY <2>2, <2>f, BoundFits
    <3> QED
      BY <2>2, <3>1, PortsType, LenProperties
  <2>5. ASSUME NEW x \in Index PROVE OutputType(x) # ""
    <3>1. CASE x \in InputIndex
      BY <2>1, <2>f, <2>p, <3>1, CompilerAssumption DEF OutputType, KnownInv
    <3>2. CASE x \in StepIndex
      BY <2>2, <3>2, Indices, PortsType DEF OutputType
    <3> QED
      BY <3>1, <3>2, Indices
  <2>6. ASSUME NEW S \in (SUBSET Index) \ {{}}
        PROVE  \E i \in S : \A p \in DOMAIN plan.deps[i] : plan.deps[i][p] \notin S
    <3>1. CASE S \cap InputIndex # {}
      <4>1. PICK i \in S : i \in InputIndex
        BY <3>1
      <4>2. DOMAIN plan.deps[i] = {}
        BY <2>3, <4>1
      <4> QED
        BY <4>2
    <3>2. CASE S \cap InputIndex = {}
      <4>1. S \in (SUBSET StepIndex) \ {{}}
        BY <3>2, Indices
      <4>2. PICK i \in S : NeedSet(i) \cap S = {}
        BY <2>1, <4>1 DEF Cyclic
      <4>3. i \in StepIndex
        BY <4>1
      <4> QED
        BY <2>4, <4>2, <4>3
    <3> QED
      BY <3>1, <3>2
  <2>7. ASSUME NEW i \in StepIndex PROVE ExecuteError(i, Delivered(i)) = ""
    <3> DEFINE types == Delivered(i)
               n == Arity(i)
    <3>1. /\ n \in Nat /\ types = [p \in 1 .. n |-> OutputType(plan.deps[i][p])]
      BY <2>4 DEF Delivered
    <3>2. \A p \in 1 .. n : OutputType(plan.deps[i][p]) = Descriptor(i).ins[p].type
      <4>1. \A p \in 1 .. n : OutputType(Bound(i)[p]) \in {"", Descriptor(i).ins[p].type}
        BY <2>2 DEF Mismatched
      <4>2. \A p \in 1 .. n : plan.deps[i][p] \in Index
        BY <2>2, <2>4
      <4> QED
        BY <2>2, <2>5, <4>1, <4>2
    <3> HIDE DEF types, n
    <3>3. Len(types) = n /\ DOMAIN types = 1 .. n /\ \A p \in 1 .. n : types[p] = Descriptor(i).ins[p].type
      BY <3>1, <3>2
    <3>4. ExecuteError(i, types) = ""
      BY <3>3 DEF ExecuteError, n
    <3> QED
      BY <3>4 DEF types
  <2>8. binding.respond # -1 => Respondable(binding.respond)
    BY DEF PlanInv, Respondable
  <2> QED
    BY <2>6, <2>7, <2>8
<1> QED
  BY <1>1, PlanInvariance, PTL

-----------------------------------------------------------------------------
(* The shared array of inputs.                                             *)

\* The running total that plan keeps is well defined: each offset is the one
\* before it and the number of inputs of the step before.
LEMMA OffsetDef ==
  ASSUME \A i \in Index : Len(deps[i]) \in Nat
  PROVE  Offset = [i \in 0 .. N |-> IF i = 0 THEN 0 ELSE Offset[i - 1] + Len(deps[i - 1])]
<1> DEFINE Eq(g, n) == g = [i \in 0 .. n |-> IF i = 0 THEN 0 ELSE g[i - 1] + Len(deps[i - 1])]
           T == {n \in Nat : ~\E g : Eq(g, n)}
<1>1. \E g : Eq(g, 0)
  <2> DEFINE g == [i \in 0 .. 0 |-> 0]
  <2>1. Eq(g, 0)
    OBVIOUS
  <2> QED
    BY <2>1
<1>2. ASSUME NEW n \in Nat, NEW g, Eq(g, n) PROVE \E h : Eq(h, n + 1)
  <2> DEFINE v == g[n] + Len(deps[n])
             h == [i \in 0 .. n + 1 |-> IF i = n + 1 THEN v ELSE g[i]]
  <2> HIDE DEF v
  <2>1. \A i \in 0 .. n : h[i] = g[i] /\ g[i] = IF i = 0 THEN 0 ELSE g[i - 1] + Len(deps[i - 1])
    BY <1>2
  <2>2. h[n + 1] = h[(n + 1) - 1] + Len(deps[(n + 1) - 1])
    <3>1. (n + 1) - 1 = n
      OBVIOUS
    <3> QED
      BY <2>1, <3>1 DEF v
  <2>3. \A i \in 0 .. n + 1 : h[i] = IF i = 0 THEN 0 ELSE h[i - 1] + Len(deps[i - 1])
    <3> SUFFICES ASSUME NEW i \in 0 .. n + 1 PROVE h[i] = IF i = 0 THEN 0 ELSE h[i - 1] + Len(deps[i - 1])
      OBVIOUS
    <3> HIDE DEF h
    <3>1. CASE i = n + 1
      BY <2>2, <3>1
    <3>2. CASE i \in 0 .. n
      BY <2>1, <3>2
    <3> QED
      BY <3>1, <3>2
  <2>4. Eq(h, n + 1)
    BY <2>3
  <2> QED
    BY <2>4
<1> HIDE DEF Eq
<1>3. T = {}
  <2>1. SUFFICES ASSUME T # {} PROVE FALSE
    OBVIOUS
  <2>2. PICK n \in T : \A m \in T : n <= m
    BY <2>1, LeastNat
  <2>3. n # 0
    BY <1>1, <2>2
  <2>4. n - 1 \in Nat /\ n - 1 \notin T /\ (n - 1) + 1 = n
    BY <2>2, <2>3
  <2> QED
    BY <1>2, <2>2, <2>4
<1>4. N \in Nat
  BY CompilerAssumption
<1>5. \E g : Eq(g, N)
  BY <1>3, <1>4
<1>6. Offset = CHOOSE g : Eq(g, N)
  BY DEF Offset, Eq
<1>7. Eq(Offset, N)
  BY <1>5, <1>6
<1> QED
  BY <1>7 DEF Eq

\* Offsets are naturals that grow with every step, so one never falls behind an earlier.
LEMMA OffsetGrows ==
  ASSUME \A i \in Index : Len(deps[i]) \in Nat
  PROVE  /\ \A i \in 0 .. N : Offset[i] \in Nat
         /\ \A i \in Index : Offset[i + 1] = Offset[i] + Len(deps[i])
         /\ \A j \in 0 .. N : \A i \in 0 .. j : Offset[i] <= Offset[j]
<1>n. N \in Nat
  BY CompilerAssumption
<1>0. Offset[0] = 0
  BY <1>n, OffsetDef
<1>1. ASSUME NEW i \in Index PROVE Offset[i + 1] = Offset[i] + Len(deps[i])
  <2>1. i + 1 \in 0 .. N /\ i + 1 # 0 /\ (i + 1) - 1 = i
    BY <1>n DEF Index
  <2>2. Offset[i + 1] = Offset[(i + 1) - 1] + Len(deps[(i + 1) - 1])
    BY <2>1, OffsetDef
  <2> QED
    BY <2>1, <2>2
<1> DEFINE Good(j) == Offset[j] \in Nat /\ \A i \in 0 .. j : Offset[i] \in Nat /\ Offset[i] <= Offset[j]
           T == {j \in Nat : j <= N /\ ~Good(j)}
<1>2. Good(0)
  BY <1>0
<1>3. ASSUME NEW j \in Index, Good(j) PROVE Good(j + 1)
  <2>1. Offset[j + 1] = Offset[j] + Len(deps[j]) /\ Len(deps[j]) \in Nat /\ j \in Nat
    BY <1>1, <1>n DEF Index
  <2>2. Offset[j + 1] \in Nat /\ Offset[j] <= Offset[j + 1]
    BY <1>3, <2>1
  <2>3. ASSUME NEW i \in 0 .. j + 1 PROVE Offset[i] \in Nat /\ Offset[i] <= Offset[j + 1]
    <3>1. CASE i = j + 1
      BY <2>2, <3>1
    <3>2. CASE i \in 0 .. j
      <4>1. Offset[i] \in Nat /\ Offset[i] <= Offset[j] /\ Offset[j] \in Nat
        BY <1>3, <3>2
      <4> QED
        BY <2>2, <4>1
    <3> QED
      BY <2>1, <3>1, <3>2
  <2> QED
    BY <2>2, <2>3
<1> HIDE DEF Good
<1>4. T = {}
  <2>1. SUFFICES ASSUME T # {} PROVE FALSE
    OBVIOUS
  <2>2. PICK j \in T : \A m \in T : j <= m
    BY <2>1, LeastNat
  <2>3. j # 0
    BY <1>2, <2>2
  <2>4. j - 1 \in Nat /\ j - 1 <= N /\ j - 1 \in Index /\ j - 1 \notin T /\ (j - 1) + 1 = j
    BY <1>n, <2>2, <2>3 DEF Index
  <2> QED
    BY <1>3, <2>2, <2>4
<1>5. \A j \in 0 .. N : Good(j)
  BY <1>4, <1>n
<1> QED
  BY <1>1, <1>5 DEF Good

\* Up to any step, every place below its offset belongs to an earlier step.
LEMMA WindowsCover ==
  ASSUME \A i \in Index : Len(deps[i]) \in Nat
  PROVE  \A j \in 0 .. N : \A x \in 0 .. Offset[j] - 1 :
            \E i \in Index : x \in Offset[i] .. Offset[i] + Len(deps[i]) - 1
<1>n. N \in Nat
  BY CompilerAssumption
<1>o. /\ \A i \in 0 .. N : Offset[i] \in Nat
      /\ \A i \in Index : Offset[i + 1] = Offset[i] + Len(deps[i])
  BY OffsetGrows
<1>z. Offset[0] = 0
  BY <1>n, OffsetDef
<1> DEFINE Covered(j) == \A x \in 0 .. Offset[j] - 1 :
                            \E i \in Index : x \in Offset[i] .. Offset[i] + Len(deps[i]) - 1
           T == {j \in Nat : j <= N /\ ~Covered(j)}
<1>1. Covered(0)
  BY <1>z
<1>2. ASSUME NEW j \in Index, Covered(j) PROVE Covered(j + 1)
  <2>1. /\ Offset[j + 1] = Offset[j] + Len(deps[j]) /\ Offset[j] \in Nat /\ Len(deps[j]) \in Nat
    BY <1>n, <1>o DEF Index
  <2> SUFFICES ASSUME NEW x \in 0 .. Offset[j + 1] - 1
               PROVE  \E i \in Index : x \in Offset[i] .. Offset[i] + Len(deps[i]) - 1
    OBVIOUS
  <2>2. CASE x < Offset[j]
    <3>1. x \in 0 .. Offset[j] - 1
      BY <2>1, <2>2
    <3> QED
      BY <1>2, <3>1
  <2>3. CASE ~(x < Offset[j])
    <3>1. x \in Offset[j] .. Offset[j] + Len(deps[j]) - 1
      BY <2>1, <2>3
    <3> QED
      BY <3>1
  <2> QED
    BY <2>2, <2>3
<1> HIDE DEF Covered
<1>3. T = {}
  <2>1. SUFFICES ASSUME T # {} PROVE FALSE
    OBVIOUS
  <2>2. PICK j \in T : \A m \in T : j <= m
    BY <2>1, LeastNat
  <2>3. j # 0
    BY <1>1, <2>2
  <2>4. j - 1 \in Nat /\ j - 1 <= N /\ j - 1 \in Index /\ j - 1 \notin T /\ (j - 1) + 1 = j
    BY <1>n, <2>2, <2>3 DEF Index
  <2> QED
    BY <1>2, <2>2, <2>4
<1>4. \A j \in 0 .. N : Covered(j)
  BY <1>3, <1>n
<1> QED
  BY <1>4 DEF Covered

\* The slices prepare cuts from the shared array never overlap and fill it exactly.
THEOREM WindowsAlwaysDisjoint == Spec => []WindowsDisjoint
<1>1. IInv /\ PlanInv => WindowsDisjoint
  <2> SUFFICES ASSUME IInv, PlanInv, phase = "accepted"
               PROVE  LET Window(i) == plan.offsets[i] .. plan.offsets[i] + Len(plan.deps[i]) - 1
                      IN  /\ \A i, j \in Index : i # j => Window(i) \cap Window(j) = {}
                          /\ UNION {Window(i) : i \in Index} = 0 .. plan.total - 1
    BY DEF WindowsDisjoint
  <2> DEFINE Window(i) == plan.offsets[i] .. plan.offsets[i] + Len(plan.deps[i]) - 1
             W(i) == Offset[i] .. Offset[i] + Len(deps[i]) - 1
  <2>n. N \in Nat
    BY CompilerAssumption
  <2>1. \A i \in Index : Len(deps[i]) \in Nat
    <3>1. deps \in [Index -> Seq(Index)]
      BY DEF IInv, TypeOK
    <3>2. \A i \in Index : deps[i] \in Seq(Index)
      BY <3>1
    <3> QED
      BY <3>2, LenProperties
  <2>2. \A i \in Index : Window(i) = W(i)
    BY PlanFields DEF PlanInv
  <2>3. plan.total = Offset[N]
    BY PlanFields DEF PlanInv
  <2>o. /\ \A i \in 0 .. N : Offset[i] \in Nat
        /\ \A i \in Index : Offset[i + 1] = Offset[i] + Len(deps[i])
        /\ \A j \in 0 .. N : \A i \in 0 .. j : Offset[i] <= Offset[j]
    BY <2>1, OffsetGrows
  <2>4. ASSUME NEW i \in Index, NEW j \in Index, i < j PROVE W(i) \cap W(j) = {}
    <3>1. i + 1 \in 0 .. j /\ j \in 0 .. N /\ i \in 0 .. N
      BY <2>4, <2>n DEF Index
    <3>2. /\ Offset[i] + Len(deps[i]) <= Offset[j]
          /\ Offset[i] \in Nat /\ Offset[j] \in Nat /\ Len(deps[i]) \in Nat /\ Len(deps[j]) \in Nat
      BY <2>1, <2>o, <3>1
    <3> QED
      BY <3>2
  <2>5. ASSUME NEW i \in Index, NEW j \in Index, i # j PROVE W(i) \cap W(j) = {}
    <3>1. i < j \/ j < i
      BY <2>5, <2>n DEF Index
    <3>2. CASE i < j
      BY <2>4, <3>2
    <3>3. CASE j < i
      <4>1. W(j) \cap W(i) = {}
        BY <2>4, <3>3
      <4> HIDE DEF W
      <4> QED
        BY <4>1
    <3> QED
      BY <3>1, <3>2, <3>3
  <2>6. ASSUME NEW i \in Index, NEW x \in W(i) PROVE x \in 0 .. Offset[N] - 1
    <3>1. i \in 0 .. N /\ i + 1 \in 0 .. N /\ N \in 0 .. N
      BY <2>n DEF Index
    <3>2. /\ Offset[i] + Len(deps[i]) <= Offset[N]
          /\ Offset[i] \in Nat /\ Offset[N] \in Nat /\ Len(deps[i]) \in Nat
      BY <2>1, <2>o, <3>1
    <3> QED
      BY <3>2
  <2>7. ASSUME NEW x \in 0 .. Offset[N] - 1 PROVE \E i \in Index : x \in W(i)
    <3>1. N \in 0 .. N
      BY <2>n
    <3> QED
      BY <2>1, <3>1, WindowsCover
  <2> HIDE DEF Window, W
  <2>8. UNION {W(i) : i \in Index} = 0 .. Offset[N] - 1
    BY <2>6, <2>7
  <2>9. UNION {Window(i) : i \in Index} = UNION {W(i) : i \in Index}
    BY <2>2
  <2>10. \A i, j \in Index : i # j => Window(i) \cap Window(j) = {}
    BY <2>2, <2>5
  <2> QED
    BY <2>3, <2>8, <2>9, <2>10 DEF Window
<1> QED
  BY <1>1, PlanInvariance, PTL

-----------------------------------------------------------------------------
(* The layout of the plan.                                                 *)

\* Every input of every step has a place of its own in the shared array.
LEMMA EdgeIs ==
  ASSUME \A i \in Index : Len(deps[i]) \in Nat, NEW j \in Index, NEW p \in 1 .. Len(deps[j])
  PROVE  /\ Offset[j] + p \in 1 .. Offset[N]
         /\ ConsumerOf(Offset[j] + p) = j
         /\ ProducerOf(Offset[j] + p) = deps[j][p]
<1> DEFINE e == Offset[j] + p
<1>n. N \in Nat
  BY CompilerAssumption
<1>o. /\ \A i \in 0 .. N : Offset[i] \in Nat
      /\ \A i \in Index : Offset[i + 1] = Offset[i] + Len(deps[i])
      /\ \A i \in 0 .. N : \A h \in 0 .. i : Offset[h] <= Offset[i]
  BY OffsetGrows
<1>1. \A h \in Index : Offset[h] \in Nat /\ Len(deps[h]) \in Nat
  BY <1>n, <1>o DEF Index
<1>2. e \in Offset[j] + 1 .. Offset[j] + Len(deps[j])
  BY <1>1
<1>3. ASSUME NEW a \in Index, NEW b \in Index, a < b PROVE Offset[a] + Len(deps[a]) <= Offset[b]
  <2>1. a + 1 \in 0 .. b /\ b \in 0 .. N
    BY <1>3, <1>n DEF Index
  <2> QED
    BY <1>o, <2>1
<1>4. ASSUME NEW h \in Index, e \in Offset[h] + 1 .. Offset[h] + Len(deps[h]) PROVE h = j
  <2>1. h \in Int /\ j \in Int
    BY <1>n DEF Index
  <2>2. CASE h < j
    <3>1. Offset[h] + Len(deps[h]) <= Offset[j]
      BY <1>3, <2>2
    <3> QED
      BY <1>1, <1>2, <1>4, <3>1
  <2>3. CASE j < h
    <3>1. Offset[j] + Len(deps[j]) <= Offset[h]
      BY <1>3, <2>3
    <3> QED
      BY <1>1, <1>2, <1>4, <3>1
  <2> QED
    BY <2>1, <2>2, <2>3
<1>5. e \in 1 .. Offset[N]
  <2>1. j + 1 \in 0 .. N /\ N \in 0 .. N
    BY <1>n DEF Index
  <2>2. Offset[j] + Len(deps[j]) <= Offset[N] /\ Offset[N] \in Nat
    BY <1>o, <2>1
  <2> QED
    BY <1>1, <1>2, <2>2
<1> HIDE DEF e
<1>6. ConsumerOf(e) = j
  BY <1>2, <1>4 DEF ConsumerOf
<1>7. e - Offset[j] = p
  BY <1>1 DEF e
<1>8. ProducerOf(e) = deps[j][p]
  BY <1>6, <1>7 DEF ProducerOf
<1> QED
  BY <1>5, <1>6, <1>8 DEF e

\* Every place of the shared array is some step's input.
LEMMA EdgePlace ==
  ASSUME \A i \in Index : Len(deps[i]) \in Nat, NEW e \in 1 .. Offset[N]
  PROVE  /\ ConsumerOf(e) \in Index
         /\ e - Offset[ConsumerOf(e)] \in 1 .. Len(deps[ConsumerOf(e)])
         /\ e = Offset[ConsumerOf(e)] + (e - Offset[ConsumerOf(e)])
<1>m. N \in Nat
  BY CompilerAssumption
<1>n. N \in Nat /\ N \in 0 .. N
  BY <1>m
<1>o. \A i \in 0 .. N : Offset[i] \in Nat
  BY OffsetGrows
<1>1. e - 1 \in 0 .. Offset[N] - 1 /\ e \in Nat
  BY <1>n, <1>o
<1>2. PICK j \in Index : e - 1 \in Offset[j] .. Offset[j] + Len(deps[j]) - 1
  BY <1>n, <1>1, WindowsCover
<1>3. \A h \in Index : Offset[h] \in Nat /\ Len(deps[h]) \in Nat
  BY <1>n, <1>o DEF Index
<1>4. e \in Offset[j] + 1 .. Offset[j] + Len(deps[j])
  BY <1>1, <1>2, <1>3
<1> DEFINE c == ConsumerOf(e)
<1>5. c \in Index /\ e \in Offset[c] + 1 .. Offset[c] + Len(deps[c])
  BY <1>4, Zenon DEF ConsumerOf
<1> HIDE DEF c
<1>6. e - Offset[c] \in 1 .. Len(deps[c]) /\ e = Offset[c] + (e - Offset[c])
  BY <1>1, <1>3, <1>5
<1> QED
  BY <1>5, <1>6 DEF c

\* The reverse edges of a step are finitely many.
LEMMA EdgesFromType ==
  ASSUME \A i \in Index : Len(deps[i]) \in Nat
  PROVE  \A i : EdgesFrom(i) \in SUBSET Nat /\ IsFiniteSet(EdgesFrom(i))
<1>m. N \in Nat
  BY CompilerAssumption
<1>n. N \in Nat /\ N \in 0 .. N
  BY <1>m
<1>o. Offset[N] \in Nat
  BY <1>n, OffsetGrows
<1>1. IsFiniteSet(1 .. Offset[N]) /\ 1 .. Offset[N] \in SUBSET Nat
  BY <1>o, FS_Interval
<1> SUFFICES ASSUME NEW i PROVE EdgesFrom(i) \in SUBSET Nat /\ IsFiniteSet(EdgesFrom(i))
  OBVIOUS
<1>2. EdgesFrom(i) \in SUBSET (1 .. Offset[N])
  BY DEF EdgesFrom
<1>3. IsFiniteSet(EdgesFrom(i))
  BY <1>1, <1>2, FS_Subset
<1> QED
  BY <1>1, <1>2, <1>3

\* As many reverse edges lead into a step as it has inputs, from the same
\* producers: the counter the scheduler starts from is the number of releases.
LEMMA IntoCount ==
  ASSUME deps \in [Index -> Seq(Index)], NEW j \in Index, NEW I,
         I = {e \in UNION {{i} \X DOMAIN DependentsOf(i) : i \in Index} : DependentsOf(e[1])[e[2]] = j}
  PROVE  /\ Cardinality(I) = Len(deps[j])
         /\ \A i \in Index : (\E p \in DOMAIN deps[j] : deps[j][p] = i) <=> (\E e \in I : e[1] = i)
<1> DEFINE n == Len(deps[j])
           Rank(i, o) == Cardinality({q \in EdgesFrom(i) : q <= o})
<1>t. \A i \in Index : Len(deps[i]) \in Nat /\ DOMAIN deps[i] = 1 .. Len(deps[i])
  <2>1. \A i \in Index : deps[i] \in Seq(Index)
    OBVIOUS
  <2> QED
    BY <2>1, LenProperties
<1>l. \A i \in Index : Len(deps[i]) \in Nat
  BY <1>t
<1>d. \A p \in 1 .. n : deps[j][p] \in Index
  BY <1>t, ElementOfSeq
<1>c. \A i : Cardinality(EdgesFrom(i)) \in Nat
  BY <1>l, EdgesFromType, FS_CardinalityType
<1>1. \A e : e \in I <=> \E i \in Index : \E k \in 1 .. Cardinality(EdgesFrom(i)) :
                            e = <<i, k>> /\ ConsumerOf(Nth(EdgesFrom(i), k)) = j
  <2>1. \A i : /\ DOMAIN DependentsOf(i) = 1 .. Cardinality(EdgesFrom(i))
               /\ \A k \in 1 .. Cardinality(EdgesFrom(i)) :
                     DependentsOf(i)[k] = ConsumerOf(Nth(EdgesFrom(i), k))
    BY DEF DependentsOf
  <2>2. ASSUME NEW e
        PROVE  e \in UNION {{i} \X DOMAIN DependentsOf(i) : i \in Index}
                   <=> \E i \in Index : \E k \in 1 .. Cardinality(EdgesFrom(i)) : e = <<i, k>>
    <3> DEFINE D(i) == DOMAIN DependentsOf(i)
    <3>1. \A i : D(i) = 1 .. Cardinality(EdgesFrom(i))
      BY <2>1
    <3> HIDE DEF D
    <3>2. e \in UNION {{i} \X D(i) : i \in Index} <=> \E i \in Index : \E k \in D(i) : e = <<i, k>>
      <4>1. e \in UNION {{i} \X D(i) : i \in Index} <=> \E i \in Index : e \in {i} \X D(i)
        OBVIOUS
      <4>2. ASSUME NEW i PROVE e \in {i} \X D(i) <=> \E k \in D(i) : e = <<i, k>>
        OBVIOUS
      <4> QED
        BY <4>1, <4>2
    <3> QED
      BY <3>1, <3>2 DEF D
  <2>3. ASSUME NEW e, NEW i \in Index, NEW k \in 1 .. Cardinality(EdgesFrom(i)), e = <<i, k>>
        PROVE  DependentsOf(e[1])[e[2]] = ConsumerOf(Nth(EdgesFrom(i), k))
    BY <2>1, <2>3
  <2> QED
    BY <2>2, <2>3
<1>2. ASSUME NEW i PROVE EdgesFrom(i) \in SUBSET Nat /\ IsFiniteSet(EdgesFrom(i))
  BY <1>l, EdgesFromType
<1>3. ASSUME NEW i, NEW o \in EdgesFrom(i)
      PROVE  Rank(i, o) \in 1 .. Cardinality(EdgesFrom(i)) /\ Nth(EdgesFrom(i), Rank(i, o)) = o
  BY <1>2, NthRank
<1>4. ASSUME NEW i, NEW k \in 1 .. Cardinality(EdgesFrom(i))
      PROVE  Nth(EdgesFrom(i), k) \in EdgesFrom(i) /\ Rank(i, Nth(EdgesFrom(i), k)) = k
  BY <1>2, NthRank
<1> HIDE DEF Rank
<1>5. ASSUME NEW p \in 1 .. n
      PROVE  /\ Offset[j] + p \in EdgesFrom(deps[j][p])
             /\ ConsumerOf(Offset[j] + p) = j
  <2>1. /\ Offset[j] + p \in 1 .. Offset[N] /\ ConsumerOf(Offset[j] + p) = j
        /\ ProducerOf(Offset[j] + p) = deps[j][p]
    BY <1>l, EdgeIs
  <2> QED
    BY <2>1 DEF EdgesFrom
<1>6. ASSUME NEW i \in Index, NEW k \in 1 .. Cardinality(EdgesFrom(i)),
             ConsumerOf(Nth(EdgesFrom(i), k)) = j
      PROVE  \E p \in 1 .. n : deps[j][p] = i /\ Rank(i, Offset[j] + p) = k
  <2> DEFINE o == Nth(EdgesFrom(i), k)
             p == o - Offset[j]
  <2>1. o \in EdgesFrom(i) /\ Rank(i, o) = k /\ ConsumerOf(o) = j
    BY <1>4, <1>6
  <2> HIDE DEF o
  <2>2. o \in 1 .. Offset[N] /\ ProducerOf(o) = i
    BY <2>1 DEF EdgesFrom
  <2>3. p \in 1 .. n /\ o = Offset[j] + p
    BY <1>l, <2>1, <2>2, EdgePlace
  <2> HIDE DEF p
  <2>4. ProducerOf(Offset[j] + p) = deps[j][p]
    BY <1>l, <2>3, EdgeIs
  <2> QED
    BY <2>1, <2>2, <2>3, <2>4
<1> DEFINE f == [p \in 1 .. n |-> <<deps[j][p], Rank(deps[j][p], Offset[j] + p)>>]
<1>7. ASSUME NEW p \in 1 .. n PROVE f[p] \in I
  <2>1. /\ deps[j][p] \in Index
        /\ Rank(deps[j][p], Offset[j] + p) \in 1 .. Cardinality(EdgesFrom(deps[j][p]))
        /\ Nth(EdgesFrom(deps[j][p]), Rank(deps[j][p], Offset[j] + p)) = Offset[j] + p
    BY <1>3, <1>5, <1>d
  <2> QED
    BY <1>1, <1>5, <2>1
<1>8. ASSUME NEW p \in 1 .. n, NEW q \in 1 .. n, f[p] = f[q] PROVE p = q
  <2>1. deps[j][p] = deps[j][q] /\ Rank(deps[j][p], Offset[j] + p) = Rank(deps[j][q], Offset[j] + q)
    BY <1>8
  <2>2. /\ Nth(EdgesFrom(deps[j][p]), Rank(deps[j][p], Offset[j] + p)) = Offset[j] + p
        /\ Nth(EdgesFrom(deps[j][q]), Rank(deps[j][q], Offset[j] + q)) = Offset[j] + q
    BY <1>3, <1>5
  <2>3. Offset[j] + p = Offset[j] + q
    BY <2>1, <2>2
  <2>4. Offset[j] \in Nat
    <3>1. N \in Nat
      BY CompilerAssumption
    <3>2. j \in 0 .. N
      BY <3>1 DEF Index
    <3> QED
      BY <1>l, <3>2, OffsetGrows
  <2> QED
    BY <2>3, <2>4
<1>9. ASSUME NEW e \in I PROVE \E p \in 1 .. n : f[p] = e
  <2>0. PICK i \in Index : \E k \in 1 .. Cardinality(EdgesFrom(i)) :
           e = <<i, k>> /\ ConsumerOf(Nth(EdgesFrom(i), k)) = j
    BY <1>1
  <2>1. PICK k \in 1 .. Cardinality(EdgesFrom(i)) :
           e = <<i, k>> /\ ConsumerOf(Nth(EdgesFrom(i), k)) = j
    BY <2>0
  <2>2. PICK p \in 1 .. n : deps[j][p] = i /\ Rank(i, Offset[j] + p) = k
    BY <1>6, <2>1
  <2> QED
    BY <2>1, <2>2
<1>10. Cardinality(I) = n
  <2>f. f = [p \in 1 .. n |-> f[p]]
    OBVIOUS
  <2> HIDE DEF f, n
  <2>1. f \in [1 .. n -> I]
    BY <1>7, <2>f
  <2>2. f \in Bijection(1 .. n, I)
    BY <1>8, <1>9, <2>1 DEF Bijection, Injection, Surjection, IsInjective
  <2>3. n \in Nat
    BY <1>l DEF n
  <2>4. ExistsBijection(1 .. n, I)
    BY <2>2 DEF ExistsBijection
  <2> QED
    BY <2>3, <2>4, FS_CountingElements
<1>11. ASSUME NEW i \in Index
       PROVE  (\E p \in 1 .. n : deps[j][p] = i) <=> (\E e \in I : e[1] = i)
  <2>1. ASSUME NEW p \in 1 .. n, deps[j][p] = i PROVE \E e \in I : e[1] = i
    <3>1. f[p] \in I /\ f[p][1] = i
      BY <1>7, <2>1
    <3> QED
      BY <3>1
  <2>2. ASSUME NEW e \in I, e[1] = i PROVE \E p \in 1 .. n : deps[j][p] = i
    <3>1. PICK p \in 1 .. n : f[p] = e
      BY <1>9
    <3>2. f[p][1] = deps[j][p]
      OBVIOUS
    <3> QED
      BY <2>2, <3>1, <3>2
  <2> QED
    BY <2>1, <2>2
<1> QED
  BY <1>10, <1>11, <1>t

\* The plan is laid out as the scheduler assumes: whatever waits for nothing is an
\* input or a root, listed once, and reverse edges agree with dependencies.
THEOREM AcceptedPlansRun == Spec => []PlanRunnable
<1>1. IInv /\ PlanInv /\ PlanExecutable => PlanRunnable
  <2> SUFFICES ASSUME IInv, PlanInv, PlanExecutable, phase = "accepted"
               PROVE  LET ins == {plan.inputs[k] : k \in DOMAIN plan.inputs}
                          start == {plan.roots[k] : k \in DOMAIN plan.roots}
                          Into(j) == {e \in UNION {{i} \X DOMAIN plan.dependents[i] : i \in Index} :
                                         plan.dependents[e[1]][e[2]] = j}
                      IN  /\ \A i \in Index : plan.deps[i] = <<>> <=> i \in ins \cup start
                          /\ ins \cap start = {}
                          /\ IsInjective(plan.inputs) /\ IsInjective(plan.roots)
                          /\ \A j \in Index : Len(plan.deps[j]) = Cardinality(Into(j))
                          /\ \A i, j \in Index : (\E p \in DOMAIN plan.deps[j] : plan.deps[j][p] = i)
                                                     <=> (\E e \in Into(j) : e[1] = i)
    BY DEF PlanRunnable
  <2> DEFINE ins == {plan.inputs[k] : k \in DOMAIN plan.inputs}
             start == {plan.roots[k] : k \in DOMAIN plan.roots}
             Into(j) == {e \in UNION {{i} \X DOMAIN plan.dependents[i] : i \in Index} :
                            plan.dependents[e[1]][e[2]] = j}
             R == {i \in StepIndex : deps[i] = <<>>}
  <2>n. N \in Nat /\ NumInputs \in 0 .. N
    BY CompilerAssumption
  <2>t. deps \in [Index -> Seq(Index)]
    BY DEF IInv, TypeOK
  <2>p. /\ plan.deps = deps /\ plan.roots = Ready(StepIndex)
        /\ plan.inputs = SubSeq(Ids, 1, NumInputs)
        /\ plan.dependents = [i \in Index |-> DependentsOf(i)]
    BY PlanFields DEF PlanInv
  <2>1. /\ DOMAIN plan.inputs = 1 .. NumInputs
        /\ \A k \in 1 .. NumInputs : plan.inputs[k] = k - 1
    <3>1. Ids \in Seq(Int) /\ Len(Ids) = N /\ \A k \in 1 .. N : Ids[k] = k - 1
      <4>1. Ids \in [1 .. N -> Int]
        BY <2>n DEF Ids
      <4> QED
        BY <2>n, <4>1, IsASeq, LenProperties DEF Ids
    <3>2. NumInputs \in Nat /\ \A k \in 1 .. NumInputs : k \in 1 .. N /\ Ids[k] \in Int
      BY <2>n, <3>1
    <3> DEFINE s == SubSeq(Ids, 1, NumInputs)
    <3>3. /\ s \in Seq(Int) /\ Len(s) = (IF 1 <= NumInputs THEN NumInputs - 1 + 1 ELSE 0)
          /\ \A k \in 1 .. NumInputs - 1 + 1 : s[k] = Ids[1 + k - 1]
      BY <3>1, <3>2, SubSeqProperties
    <3> HIDE DEF s
    <3>4. NumInputs - 1 + 1 = NumInputs /\ Len(s) = NumInputs /\ \A k \in 1 .. NumInputs : 1 + k - 1 = k
      BY <3>2, <3>3
    <3>5. DOMAIN s = 1 .. NumInputs
      BY <3>3, <3>4, LenProperties
    <3>6. \A k \in 1 .. NumInputs : s[k] = k - 1
      BY <3>1, <3>2, <3>3, <3>4
    <3> QED
      BY <2>p, <3>5, <3>6 DEF s
  <2>2. ins = InputIndex /\ IsInjective(plan.inputs)
    <3>1. \A x : x \in ins <=> \E k \in 1 .. NumInputs : x = k - 1
      BY <2>1
    <3>2. ASSUME NEW x \in InputIndex PROVE \E k \in 1 .. NumInputs : x = k - 1
      <4>1. x + 1 \in 1 .. NumInputs /\ x = (x + 1) - 1
        BY <2>n DEF InputIndex
      <4> QED
        BY <4>1
    <3>3. \A k \in 1 .. NumInputs : k - 1 \in InputIndex
      BY <2>n DEF InputIndex
    <3>4. IsInjective(plan.inputs)
      <4>1. \A a, b \in 1 .. NumInputs : a - 1 = b - 1 => a = b
        BY <2>n
      <4> QED
        BY <2>1, <4>1 DEF IsInjective
    <3> HIDE DEF ins
    <3> QED
      BY <3>1, <3>2, <3>3, <3>4
  <2>r. R \in SUBSET Nat /\ IsFiniteSet(R)
    <3>1. IsFiniteSet(StepIndex) /\ StepIndex \in SUBSET Nat
      BY <2>n, FS_Interval, Indices DEF StepIndex
    <3>2. R \in SUBSET StepIndex
      OBVIOUS
    <3> HIDE DEF R
    <3> QED
      BY <3>1, <3>2, FS_Subset
  <2>3. start = R /\ IsInjective(plan.roots)
    <3>1. plan.roots = [k \in 1 .. Cardinality(R) |-> Nth(R, k)]
      BY <2>p DEF Ready, Listed
    <3> HIDE DEF R
    <3> DEFINE c == Cardinality(R)
               rank(x) == Cardinality({q \in R : q <= x})
    <3>2. /\ \A x \in R : rank(x) \in 1 .. c /\ Nth(R, rank(x)) = x
          /\ \A k \in 1 .. c : Nth(R, k) \in R /\ rank(Nth(R, k)) = k
      BY <2>r, NthRank
    <3>3. /\ DOMAIN plan.roots = 1 .. c
          /\ \A k \in 1 .. c : plan.roots[k] = Nth(R, k)
      BY <3>1
    <3>5. \A x : x \in start <=> \E k \in 1 .. c : x = Nth(R, k)
      BY <3>3
    <3> HIDE DEF start, c, rank, ins, Into
    <3>4. ASSUME NEW a \in 1 .. c, NEW b \in 1 .. c, plan.roots[a] = plan.roots[b] PROVE a = b
      <4>1. Nth(R, a) = Nth(R, b)
        BY <3>3, <3>4
      <4>2. rank(Nth(R, a)) = a /\ rank(Nth(R, b)) = b
        BY <3>2
      <4> QED
        BY <4>1, <4>2
    <3>6. ASSUME NEW x PROVE x \in start <=> x \in R
      <4>1. ASSUME x \in R PROVE x \in start
        BY <3>2, <3>5, <4>1
      <4>2. ASSUME x \in start PROVE x \in R
        BY <3>2, <3>5, <4>2
      <4> QED
        BY <4>1, <4>2
    <3>7. start = R
      BY <3>6
    <3>8. IsInjective(plan.roots)
      BY <3>3, <3>4, Zenon DEF IsInjective
    <3> QED
      BY <3>7, <3>8
  <2>4. ASSUME NEW i \in InputIndex PROVE deps[i] = <<>>
    <3>1. PastEdges /\ PastResolve
      BY PhaseOrder
    <3>2. i \in Index /\ i \notin nodes
      BY <3>1, Indices DEF IInv, KnownInv
    <3> QED
      BY <3>1, <3>2 DEF PlanInv
  <2>5. \A i \in Index : plan.deps[i] = <<>> <=> i \in ins \cup start
    BY <2>2, <2>3, <2>4, <2>p, Indices
  <2>6. ins \cap start = {}
    BY <2>2, <2>3, Indices
  <2>7. ASSUME NEW j \in Index
        PROVE  /\ Cardinality(Into(j)) = Len(deps[j])
               /\ \A i \in Index : (\E p \in DOMAIN deps[j] : deps[j][p] = i) <=> (\E e \in Into(j) : e[1] = i)
    <3> DEFINE U == UNION {{i} \X DOMAIN DependentsOf(i) : i \in Index}
               I == {e \in U : DependentsOf(e[1])[e[2]] = j}
    <3>1. \A i \in Index : plan.dependents[i] = DependentsOf(i)
      BY <2>p
    <3>2. UNION {{i} \X DOMAIN plan.dependents[i] : i \in Index} = U
      BY <3>1
    <3>3. \A e \in U : e[1] \in Index
      OBVIOUS
    <3> HIDE DEF U
    <3>4. Into(j) = I
      BY <3>1, <3>2, <3>3
    <3>5. /\ Cardinality(I) = Len(deps[j])
          /\ \A i \in Index : (\E p \in DOMAIN deps[j] : deps[j][p] = i) <=> (\E e \in I : e[1] = i)
      BY <2>t, IntoCount DEF U
    <3> HIDE DEF I, Into
    <3> QED
      BY <3>4, <3>5
  <2> HIDE DEF Into, ins, start
  <2>8. \A j \in Index : Len(plan.deps[j]) = Cardinality(Into(j))
    BY <2>7, <2>p
  <2>9. \A i, j \in Index : (\E p \in DOMAIN plan.deps[j] : plan.deps[j][p] = i) <=> (\E e \in Into(j) : e[1] = i)
    BY <2>7, <2>p
  <2> QED
    BY <2>2, <2>3, <2>5, <2>6, <2>8, <2>9 DEF Into, ins, start
<1> QED
  BY <1>1, PlanInvariance, AcceptedPlansExecute, PTL
=============================================================================
