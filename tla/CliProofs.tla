------------------------------ MODULE CliProofs ------------------------------
(***************************************************************************)
(* Proofs about Load and Cli, for any directory, any claims and any        *)
(* patterns: LoadInv is an inductive invariant of the loading and of every *)
(* command that loads, and with it nothing is lost or hijacked.            *)
(***************************************************************************)
EXTENDS Cli, RankProofs

-----------------------------------------------------------------------------
(* Entries and lists.                                                      *)

\* What is known of an entry: only a trigger makes a claim.
LEMMA EntryFacts ==
  ASSUME ListsInv
  PROVE  /\ Len(dir) \in Nat /\ Positions \in SUBSET Nat /\ IsFiniteSet(Positions)
         /\ \A p \in Positions :
               /\ dir[p] \in Entries
               /\ dir[p].outcome \in {"ignored", "unparsed", "uncompiled", "untriggered", "triggered"}
               /\ ClaimOf(p) \in Claims \cup {NoClaim}
               /\ dir[p].outcome # "triggered" => ClaimOf(p) = NoClaim
<1>1. Len(dir) \in Nat
  BY LenProperties DEF ListsInv
<1>2. Positions \in SUBSET Nat /\ IsFiniteSet(Positions)
  BY <1>1, FS_Interval DEF Positions
<1>3. ASSUME NEW p \in Positions
      PROVE  dir[p] \in Entries
  BY ElementOfSeq DEF ListsInv, Positions
<1>4. ASSUME NEW e \in Entries
      PROVE  /\ e.outcome \in {"ignored", "unparsed", "uncompiled", "untriggered", "triggered"}
             /\ e.claim \in Claims \cup {NoClaim}
             /\ e.outcome # "triggered" => e.claim = NoClaim
  BY DEF Entries
<1> QED
  BY <1>1, <1>2, <1>3, <1>4 DEF ClaimOf

\* As long as the directory is the same, so is what is said of its entries.
LEMMA DirFrame ==
  ASSUME dir' = dir
  PROVE  /\ Positions' = Positions /\ Triggered' = Triggered /\ Broken' = Broken /\ Aside' = Aside
         /\ \A p : ClaimOf(p)' = ClaimOf(p)
         /\ \A c : Contenders(c)' = Contenders(c)
<1>1. Positions' = Positions /\ \A p : ClaimOf(p)' = ClaimOf(p)
  BY DEF Positions, ClaimOf
<1>2. Triggered' = Triggered /\ Broken' = Broken /\ Aside' = Aside
  BY <1>1 DEF Triggered, Broken, Aside
<1> QED
  BY <1>1, <1>2 DEF Contenders

\* Contenders are triggered, and contend for a claim they make.
LEMMA ContendersAre ==
  ASSUME ListsInv
  PROVE  /\ \A c : Contenders(c) \in SUBSET Triggered
         /\ \A c, p : p \in Contenders(c) => ClaimOf(p) = c /\ c \in Claims
         /\ \A p : p \in UNION {Contenders(c) : c \in Claims} <=>
                      /\ p \in Triggered /\ ClaimOf(p) # NoClaim
                      /\ \E q \in Triggered \ {p} : ClaimOf(q) = ClaimOf(p)
<1>1. \A p \in Triggered : p \in Positions /\ ClaimOf(p) \in Claims \cup {NoClaim}
  BY EntryFacts DEF Triggered
<1>2. ASSUME NEW c, NEW p \in Contenders(c)
      PROVE  p \in Triggered /\ ClaimOf(p) = c /\ c # NoClaim /\ \E q \in Triggered \ {p} : ClaimOf(q) = c
  BY DEF Contenders
<1>3. ASSUME NEW p \in Triggered, ClaimOf(p) # NoClaim, \E q \in Triggered \ {p} : ClaimOf(q) = ClaimOf(p)
      PROVE  p \in Contenders(ClaimOf(p)) /\ ClaimOf(p) \in Claims
  BY <1>1, <1>3 DEF Contenders
<1> QED
  BY <1>1, <1>2, <1>3

\* The numbers of X below n.
Before(X, n) == {p \in X : p < n}

\* List s, which takes entries of X, after entry n.
Read(s, X, n) == IF n \in X THEN Append(s, n) ELSE s

\* An entry is read into a list or passed by.
LEMMA ReadList ==
  ASSUME NEW s \in Seq(Nat), NEW X \in SUBSET Nat, NEW n \in Nat, Elements(s) = Before(X, n)
  PROVE  /\ Read(s, X, n) \in Seq(Nat) /\ Elements(Read(s, X, n)) = Before(X, n + 1)
         /\ IsInjective(s) => IsInjective(Read(s, X, n))
         /\ Increasing(s) => Increasing(Read(s, X, n))
<1> DEFINE t == Read(s, X, n)
<1>1. ASSUME NEW p \in X PROVE p < n + 1 <=> p < n \/ p = n
  OBVIOUS
<1>2. Before(X, n + 1) = IF n \in X THEN Before(X, n) \cup {n} ELSE Before(X, n)
  BY <1>1 DEF Before
<1>3. (\A x \in Elements(s) : x < n) /\ n \notin Elements(s)
  BY DEF Before
<1>4. CASE n \in X
  <2>1. t = Append(s, n)
    BY <1>4 DEF Read
  <2>2. /\ Append(s, n) \in Seq(Nat)
        /\ Elements(Append(s, n)) = Elements(s) \cup {n}
        /\ IsInjective(s) /\ n \notin Elements(s) => IsInjective(Append(s, n))
        /\ Increasing(s) /\ (\A x \in Elements(s) : x < n) => Increasing(Append(s, n))
    BY AppendSeq
  <2> QED
    BY <1>2, <1>3, <1>4, <2>1, <2>2
<1>5. CASE n \notin X
  <2>1. t = s
    BY <1>5 DEF Read
  <2> QED
    BY <1>2, <1>5, <2>1
<1> QED
  BY <1>4, <1>5

-----------------------------------------------------------------------------
(* LoadInv, action by action.                                              *)

\* The lists hold positions of the directory.
LEMMA TypeFromParts ==
  ASSUME ListsInv, ControlOK, ReadInv, ClaimsInv, ServedInv
  PROVE  TypeOK
<1>1. Triggered \in SUBSET Positions /\ Broken \in SUBSET Positions /\ Aside \in SUBSET Positions
  BY DEF Triggered, Broken, Aside
<1>2. contested \in SUBSET Positions
  <2>1. \A c : Contenders(c) \in SUBSET Positions
    BY <1>1, ContendersAre
  <2>2. \/ contested = {} \/ contested = UNION {Contenders(c) : c \in Claims \ pending}
        \/ contested = UNION {Contenders(c) : c \in Claims}
    BY DEF ClaimsInv
  <2> QED
    BY <2>1, <2>2
<1>3. Elements(candidates) \in SUBSET Positions /\ Elements(untriggered) \in SUBSET Positions
  BY <1>1 DEF ReadInv
<1>4. Elements(rejected) \in SUBSET Positions
  BY <1>1, <1>2 DEF ReadInv
<1>5. Elements(served) \in SUBSET Positions
  <2>1. CASE phase \in {"read", "claims"}
    BY <2>1 DEF ServedInv, Elements
  <2>2. CASE phase \notin {"read", "claims"}
    BY <1>1, <2>2 DEF ServedInv
  <2> QED
    BY <2>1, <2>2
<1>6. \A p \in Positions : dir[p] \in Entries
  BY EntryFacts
<1> QED
  BY <1>2, <1>3, <1>4, <1>5, <1>6 DEF TypeOK

\* While files are loaded there are no routes.
LEMMA RoutesFrame ==
  ASSUME RoutesInv, phase \in {"read", "claims"}, phase' \in {"read", "claims", "loaded"}, mux' = mux
  PROVE  RoutesInv'
<1>1. mux = {} /\ IsFiniteSet(mux)
  BY DEF RoutesInv
<1> QED
  BY <1>1 DEF RoutesInv

\* Before anything is read.
LEMMA UnreadLoadInv ==
  ASSUME dir \in Seq(Entries), Unread
  PROVE  LoadInv
<1>1. ListsInv
  <2>1. <<>> \in Seq(Nat)
    BY EmptySeq
  <2> QED
    BY <2>1 DEF ListsInv, Unread
<1>2. Len(dir) \in Nat /\ Positions \in SUBSET Nat
  BY <1>1, EntryFacts
<1>3. /\ Elements(<<>>) = {} /\ Increasing(<<>>) /\ IsInjective(<<>>)
  BY DEF Elements, Increasing, IsInjective
<1>4. \A p \in Positions : ~(p < 1)
  BY <1>2 DEF Positions
<1>5. ReadInv
  BY <1>3, <1>4 DEF ReadInv, Unread, Triggered, Broken, Aside
<1>6. ClaimsInv /\ ServedInv
  BY DEF ClaimsInv, ServedInv, Unread
<1>7. ControlOK
  BY <1>2 DEF ControlOK, Unread
<1>8. RoutesInv
  BY FS_EmptySet DEF RoutesInv, Unread
<1> QED
  BY <1>1, <1>5, <1>6, <1>7, <1>8 DEF LoadInv

\* Reading an entry puts it where it belongs.
LEMMA ReadEntryKeeps ==
  ASSUME LoadInv, ReadEntry
  PROVE  LoadInv'
<1>l. ListsInv /\ ReadInv /\ ClaimsInv /\ ServedInv /\ RoutesInv /\ ControlOK
  BY DEF LoadInv
<1>s. candidates \in Seq(Nat) /\ rejected \in Seq(Nat) /\ untriggered \in Seq(Nat) /\ served \in Seq(Nat)
  BY <1>l DEF ListsInv
<1>v. /\ phase = "read" /\ next <= Len(dir) /\ next' = next + 1
      /\ UNCHANGED <<dir, phase, pending, contested, served, routes, mux>>
  BY DEF ReadEntry
<1>f. /\ Positions' = Positions /\ Triggered' = Triggered /\ Broken' = Broken /\ Aside' = Aside
      /\ \A p : ClaimOf(p)' = ClaimOf(p)
  BY <1>v, DirFrame
<1>1. Len(dir) \in Nat /\ Positions \in SUBSET Nat /\ next \in Positions /\ next \in Nat
  <2>1. Len(dir) \in Nat /\ Positions \in SUBSET Nat
    BY <1>l, EntryFacts
  <2> QED
    BY <1>l, <1>v, <2>1 DEF ControlOK, Positions
<1>2. /\ rejected' = Read(rejected, Broken, next)
      /\ untriggered' = Read(untriggered, Aside, next)
      /\ candidates' = Read(candidates, Triggered, next)
  BY <1>1 DEF ReadEntry, Broken, Aside, Triggered, Read
<1>x. Triggered \in SUBSET Nat /\ Broken \in SUBSET Nat /\ Aside \in SUBSET Nat
  BY <1>1 DEF Triggered, Broken, Aside
<1>3. candidates' \in Seq(Nat) /\ Increasing(candidates') /\ Elements(candidates') = {p \in Triggered : p < next + 1}
  <2>1. Increasing(candidates) /\ Elements(candidates) = Before(Triggered, next)
    BY <1>l DEF ReadInv, Before
  <2>2. Increasing(candidates') /\ candidates' \in Seq(Nat) /\ Elements(candidates') = Before(Triggered, next + 1)
    BY <1>1, <1>2, <1>s, <1>x, <2>1, ReadList
  <2> QED
    BY <2>2 DEF Before
<1>4. untriggered' \in Seq(Nat) /\ Increasing(untriggered') /\ Elements(untriggered') = {p \in Aside : p < next + 1}
  <2>1. Increasing(untriggered) /\ Elements(untriggered) = Before(Aside, next)
    BY <1>l DEF ReadInv, Before
  <2>2. Increasing(untriggered') /\ untriggered' \in Seq(Nat) /\ Elements(untriggered') = Before(Aside, next + 1)
    BY <1>1, <1>2, <1>s, <1>x, <2>1, ReadList
  <2> QED
    BY <2>2 DEF Before
<1>5. rejected' \in Seq(Nat) /\ IsInjective(rejected') /\ Elements(rejected') = {p \in Broken : p < next + 1}
  <2>1. IsInjective(rejected) /\ Elements(rejected) = {p \in Broken : p < next} \cup contested /\ contested = {}
    BY <1>l, <1>v DEF ReadInv, ClaimsInv
  <2>2. Elements(rejected) = Before(Broken, next)
    BY <2>1 DEF Before
  <2>3. IsInjective(rejected') /\ rejected' \in Seq(Nat) /\ Elements(rejected') = Before(Broken, next + 1)
    BY <1>1, <1>2, <1>s, <1>x, <2>1, <2>2, ReadList
  <2> QED
    BY <2>3 DEF Before
<1>6. ListsInv'
  BY <1>3, <1>4, <1>5, <1>l, <1>v DEF ListsInv
<1>7. ReadInv'
  <2>1. contested' = {} /\ phase' = "read"
    BY <1>l, <1>v DEF ClaimsInv
  <2> QED
    BY <1>3, <1>4, <1>5, <1>f, <1>v, <2>1 DEF ReadInv
<1>8. ClaimsInv' /\ ServedInv'
  BY <1>l, <1>v DEF ClaimsInv, ServedInv
<1>9. RoutesInv'
  BY <1>l, <1>v, RoutesFrame
<1>10. ControlOK'
  <2>1. next' \in 1 .. Len(dir) + 1
    BY <1>1, <1>v
  <2> QED
    BY <1>f, <1>l, <1>v, <2>1 DEF ControlOK
<1> QED
  BY <1>6, <1>7, <1>8, <1>9, <1>10 DEF LoadInv

\* Grouping the candidates by claim contests nothing yet.
LEMMA GroupClaimsKeeps ==
  ASSUME LoadInv, GroupClaims
  PROVE  LoadInv'
<1>l. ListsInv /\ ReadInv /\ ClaimsInv /\ ServedInv /\ RoutesInv /\ ControlOK
  BY DEF LoadInv
<1>v. /\ phase = "read" /\ next > Len(dir) /\ phase' = "claims"
      /\ pending' = {ClaimOf(p) : p \in Elements(candidates)} \ {NoClaim}
      /\ UNCHANGED <<dir, next, candidates, rejected, untriggered, contested, served, routes, mux>>
  BY DEF GroupClaims
<1>f. /\ Positions' = Positions /\ Triggered' = Triggered /\ Broken' = Broken /\ Aside' = Aside
      /\ \A p : ClaimOf(p)' = ClaimOf(p)
      /\ \A c : Contenders(c)' = Contenders(c)
  BY <1>v, DirFrame
<1>1. Len(dir) \in Nat /\ Positions \in SUBSET Nat /\ next = Len(dir) + 1
  <2>1. Len(dir) \in Nat /\ Positions \in SUBSET Nat
    BY <1>l, EntryFacts
  <2> QED
    BY <1>l, <1>v, <2>1 DEF ControlOK
<1>2. Elements(candidates) = Triggered
  <2>1. \A p \in Positions : p < next
    BY <1>1 DEF Positions
  <2>2. Elements(candidates) = {p \in Triggered : p < next} /\ Triggered \in SUBSET Positions
    BY <1>l DEF ReadInv, Triggered
  <2> QED
    BY <2>1, <2>2
<1>3. contested = {}
  BY <1>l, <1>v DEF ClaimsInv
<1>4. pending' \in SUBSET Claims
  <2>1. \A p \in Triggered : ClaimOf(p) \in Claims \cup {NoClaim}
    BY <1>l, EntryFacts DEF Triggered
  <2> QED
    BY <1>2, <1>v, <2>1
<1>5. \A c \in Claims \ pending' : Contenders(c) = {}
  <2>1. ASSUME NEW c \in Claims \ pending', NEW p \in Contenders(c) PROVE FALSE
    <3>1. p \in Triggered /\ ClaimOf(p) = c /\ c # NoClaim
      BY DEF Contenders
    <3> QED
      BY <1>2, <1>v, <3>1
  <2> QED
    BY <2>1
<1>6. ClaimsInv'
  <2>1. contested' = UNION {Contenders(c)' : c \in Claims \ pending'}
    BY <1>3, <1>5, <1>f, <1>v
  <2> QED
    BY <1>v, <2>1 DEF ClaimsInv
<1>7. ListsInv' /\ ServedInv'
  BY <1>l, <1>v DEF ListsInv, ServedInv
<1>8. ReadInv'
  BY <1>1, <1>f, <1>l, <1>v DEF ReadInv
<1>9. RoutesInv'
  BY <1>l, <1>v, RoutesFrame
<1>10. ControlOK'
  BY <1>4, <1>f, <1>l, <1>v DEF ControlOK
<1> QED
  BY <1>6, <1>7, <1>8, <1>9, <1>10 DEF LoadInv

\* The claimants of a claim lose it if there is more than one: its contenders.
LEMMA LostAreContenders ==
  ASSUME LoadInv, next = Len(dir) + 1, NEW c \in Claims, NEW lost,
         lost = IF Len(Claimants(c)) < 2 THEN <<>> ELSE Claimants(c)
  PROVE  lost \in Seq(Nat) /\ IsInjective(lost) /\ Elements(lost) = Contenders(c)
<1>l. ListsInv /\ ReadInv
  BY DEF LoadInv
<1>s. candidates \in Seq(Nat) /\ Increasing(candidates)
  BY <1>l DEF ListsInv, ReadInv
<1>t. Elements(candidates) = Triggered
  <2>1. \A p \in Positions : p < next
    BY <1>l, EntryFacts DEF Positions
  <2>2. Elements(candidates) = {p \in Triggered : p < next} /\ Triggered \in SUBSET Positions
    BY <1>l DEF ReadInv, Triggered
  <2> QED
    BY <2>1, <2>2
<1>c. c # NoClaim
  BY ClaimAssumption
<1> DEFINE P == {k \in DOMAIN candidates : ClaimOf(candidates[k]) = c}
           all == Pick(candidates, P)
<1>i. IsInjective(candidates)
  BY <1>s, IncreasingInjective
<1>1. /\ all \in Seq(Nat) /\ Len(all) = Cardinality(P) /\ IsFiniteSet(P)
      /\ Elements(all) = {candidates[k] : k \in P} /\ IsInjective(all)
  BY <1>i, <1>s, PickSeq
<1>2. lost = IF Cardinality(P) < 2 THEN <<>> ELSE all
  BY <1>1 DEF Claimants
<1>3. \A p : p \in Triggered <=> \E k \in DOMAIN candidates : p = candidates[k]
  BY <1>t DEF Elements
<1>4. \A k \in P : candidates[k] \in Triggered /\ ClaimOf(candidates[k]) = c
  BY <1>3
<1>5. \A p \in Triggered : ClaimOf(p) = c => \E k \in P : p = candidates[k]
  BY <1>3
<1>6. \A a, b \in P : candidates[a] = candidates[b] => a = b
  BY <1>i DEF IsInjective
<1> HIDE DEF P, all
<1>7. CASE Cardinality(P) < 2
  <2>1. \A a, b \in P : a = b
    BY <1>1, <1>7, TwoOrMore
  <2>2. Contenders(c) = {}
    <3>1. ASSUME NEW p \in Triggered, ClaimOf(p) = c, NEW q \in Triggered \ {p}, ClaimOf(q) = c PROVE FALSE
      <4>1. PICK a \in P : p = candidates[a]
        BY <1>5, <3>1
      <4>2. PICK b \in P : q = candidates[b]
        BY <1>5, <3>1
      <4> QED
        BY <2>1, <4>1, <4>2
    <3> QED
      BY <3>1 DEF Contenders
  <2>3. <<>> \in Seq(Nat) /\ IsInjective(<<>>) /\ Elements(<<>>) = {}
    BY EmptySeq DEF IsInjective, Elements
  <2> QED
    BY <1>2, <1>7, <2>2, <2>3
<1>8. CASE ~(Cardinality(P) < 2)
  <2>1. \A a \in P : \E b \in P : b # a
    BY <1>1, <1>8, TwoOrMore
  <2>2. ASSUME NEW a \in P PROVE candidates[a] \in Contenders(c)
    <3>1. PICK b \in P : b # a
      BY <2>1
    <3>2. candidates[b] # candidates[a] /\ candidates[b] \in Triggered /\ ClaimOf(candidates[b]) = c
      BY <1>4, <1>6, <3>1
    <3> QED
      BY <1>4, <1>c, <3>2 DEF Contenders
  <2>3. ASSUME NEW p \in Contenders(c) PROVE \E a \in P : p = candidates[a]
    BY <1>5 DEF Contenders
  <2>4. Elements(all) = Contenders(c)
    BY <1>1, <2>2, <2>3
  <2> QED
    BY <1>1, <1>2, <1>8, <2>4
<1> QED
  BY <1>7, <1>8

\* Judging one claim contests exactly its contenders, whatever was judged before.
LEMMA JudgeClaimKeeps ==
  ASSUME LoadInv, NEW c \in Claims, JudgeClaim(c)
  PROVE  LoadInv'
<1>l. ListsInv /\ ReadInv /\ ClaimsInv /\ ServedInv /\ RoutesInv /\ ControlOK
  BY DEF LoadInv
<1> DEFINE lost == IF Len(Claimants(c)) < 2 THEN <<>> ELSE Claimants(c)
<1>v. /\ phase = "claims" /\ c \in pending /\ pending' = pending \ {c}
      /\ contested' = contested \cup Elements(lost)
      /\ rejected' = rejected \o lost
      /\ UNCHANGED <<dir, next, phase, candidates, untriggered, served, routes, mux>>
  BY DEF JudgeClaim
<1>f. /\ Positions' = Positions /\ Triggered' = Triggered /\ Broken' = Broken /\ Aside' = Aside
      /\ \A p : ClaimOf(p)' = ClaimOf(p)
      /\ \A d : Contenders(d)' = Contenders(d)
  BY <1>v, DirFrame
<1>n. next = Len(dir) + 1
  BY <1>l, <1>v DEF ReadInv
<1>1. lost \in Seq(Nat) /\ IsInjective(lost) /\ Elements(lost) = Contenders(c)
  BY <1>n, LostAreContenders
<1> HIDE DEF lost
<1>2. contested = UNION {Contenders(d) : d \in Claims \ pending}
  BY <1>l, <1>v DEF ClaimsInv
<1>3. contested' = UNION {Contenders(d) : d \in Claims \ pending'}
  <2>1. Claims \ pending' = (Claims \ pending) \cup {c}
    BY <1>v
  <2> QED
    BY <1>1, <1>2, <1>v, <2>1
<1>4. Elements(rejected) \cap Elements(lost) = {}
  <2>1. Elements(rejected) = {p \in Broken : p < next} \cup contested
    BY <1>l DEF ReadInv
  <2>2. ASSUME NEW p \in Contenders(c) PROVE p \notin Broken /\ p \notin contested
    <3>1. p \in Triggered /\ ClaimOf(p) = c
      BY DEF Contenders
    <3>2. p \notin Broken
      BY <3>1 DEF Triggered, Broken
    <3>3. ASSUME NEW d \in Claims \ pending PROVE p \notin Contenders(d)
      BY <1>v, <3>1 DEF Contenders
    <3> QED
      BY <1>2, <3>2, <3>3
  <2> QED
    BY <1>1, <2>1, <2>2
<1>5. rejected' \in Seq(Nat) /\ IsInjective(rejected') /\ Elements(rejected') = Elements(rejected) \cup Contenders(c)
  <2>1. rejected \in Seq(Nat) /\ IsInjective(rejected)
    BY <1>l DEF ListsInv, ReadInv
  <2> QED
    BY <1>1, <1>4, <1>v, <2>1, ConcatSeq
<1>6. ListsInv'
  BY <1>5, <1>l, <1>v DEF ListsInv
<1>7. ReadInv'
  <2>1. Elements(rejected') = {p \in Broken : p < next} \cup contested'
    BY <1>1, <1>5, <1>l, <1>v DEF ReadInv
  <2> QED
    BY <1>5, <1>f, <1>l, <1>v, <2>1 DEF ReadInv
<1>8. ClaimsInv'
  BY <1>3, <1>f, <1>v DEF ClaimsInv
<1>9. ServedInv'
  BY <1>l, <1>v DEF ServedInv
<1>10. RoutesInv'
  BY <1>l, <1>v, RoutesFrame
<1>11. ControlOK'
  BY <1>f, <1>l, <1>v DEF ControlOK
<1> QED
  BY <1>6, <1>7, <1>8, <1>9, <1>10, <1>11 DEF LoadInv

\* Once all claims are judged, what nobody contests is served.
LEMMA SettleKeeps ==
  ASSUME LoadInv, Settle
  PROVE  LoadInv'
<1>l. ListsInv /\ ReadInv /\ ClaimsInv /\ ServedInv /\ RoutesInv /\ ControlOK
  BY DEF LoadInv
<1> DEFINE P == {k \in DOMAIN candidates : candidates[k] \notin contested}
<1>v. /\ phase = "claims" /\ pending = {} /\ phase' = "loaded"
      /\ served' = Pick(candidates, P) /\ rejected' = Sorted(rejected)
      /\ UNCHANGED <<dir, next, candidates, untriggered, pending, contested, routes, mux>>
  BY DEF Settle
<1>f. /\ Positions' = Positions /\ Triggered' = Triggered /\ Broken' = Broken /\ Aside' = Aside
      /\ \A p : ClaimOf(p)' = ClaimOf(p)
      /\ \A c : Contenders(c)' = Contenders(c)
  BY <1>v, DirFrame
<1>n. next = Len(dir) + 1
  BY <1>l, <1>v DEF ReadInv
<1>s. /\ candidates \in Seq(Nat) /\ Increasing(candidates) /\ rejected \in Seq(Nat) /\ IsInjective(rejected)
  BY <1>l DEF ListsInv, ReadInv
<1>t. Elements(candidates) = Triggered
  <2>1. \A p \in Positions : p < next
    BY <1>l, <1>n, EntryFacts DEF Positions
  <2>2. Elements(candidates) = {p \in Triggered : p < next} /\ Triggered \in SUBSET Positions
    BY <1>l DEF ReadInv, Triggered
  <2> QED
    BY <2>1, <2>2
<1>1. served' \in Seq(Nat) /\ Increasing(served') /\ Elements(served') = Triggered \ contested
  <2>1. /\ Pick(candidates, P) \in Seq(Nat) /\ Increasing(Pick(candidates, P))
        /\ Elements(Pick(candidates, P)) = {candidates[k] : k \in P}
    BY <1>s, PickSeq
  <2>2. {candidates[k] : k \in P} = Elements(candidates) \ contested
    BY DEF Elements
  <2> QED
    BY <1>t, <1>v, <2>1, <2>2
<1>2. rejected' \in Seq(Nat) /\ Increasing(rejected') /\ Elements(rejected') = Elements(rejected)
  BY <1>s, <1>v, SortedSeq
<1>3. IsInjective(rejected')
  BY <1>2, IncreasingInjective
<1>4. ListsInv'
  BY <1>1, <1>2, <1>l, <1>v DEF ListsInv
<1>5. ReadInv'
  BY <1>2, <1>3, <1>f, <1>l, <1>n, <1>v DEF ReadInv
<1>6. ClaimsInv'
  <2>1. contested = UNION {Contenders(c) : c \in Claims \ pending}
    BY <1>l, <1>v DEF ClaimsInv
  <2>2. contested' = UNION {Contenders(c)' : c \in Claims}
    BY <1>f, <1>v, <2>1
  <2> QED
    BY <1>v, <2>2 DEF ClaimsInv
<1>7. ServedInv'
  BY <1>1, <1>2, <1>f, <1>v DEF ServedInv
<1>8. RoutesInv'
  BY <1>l, <1>v, RoutesFrame
<1>9. ControlOK'
  BY <1>f, <1>l, <1>v DEF ControlOK
<1> QED
  BY <1>4, <1>5, <1>6, <1>7, <1>8, <1>9 DEF LoadInv

\* What is served is triggered and shares its claim with nothing in the directory.
LEMMA ServedAlone ==
  ASSUME LoadInv, phase \notin {"read", "claims"}, NEW p \in Elements(served), ClaimOf(p) # NoClaim
  PROVE  /\ p \in Triggered /\ ClaimOf(p) \in Claims
         /\ \A q \in Triggered : ClaimOf(q) = ClaimOf(p) => q = p
<1>1. ListsInv /\ ClaimsInv /\ ServedInv
  BY DEF LoadInv
<1>2. p \in Triggered /\ p \notin contested /\ contested = UNION {Contenders(c) : c \in Claims}
  BY <1>1 DEF ServedInv, ClaimsInv
<1>3. \A q \in Triggered : ClaimOf(q) = ClaimOf(p) => q = p
  BY <1>1, <1>2, ContendersAre
<1>4. ClaimOf(p) \in Claims
  BY <1>1, <1>2, EntryFacts DEF Triggered
<1> QED
  BY <1>2, <1>3, <1>4

\* Steps that serve leave what was loaded alone.
LEMMA ServeFrame ==
  ASSUME LoadInv, UNCHANGED <<loadVars, rejected, pending, served>>,
         phase \in {"loaded", "routing"}, phase' \in {"routing", "up", "panicked"}
  PROVE  /\ ListsInv' /\ ReadInv' /\ ClaimsInv' /\ ServedInv' /\ Hooks' = Hooks
         /\ Positions' = Positions /\ \A p : ClaimOf(p)' = ClaimOf(p)
<1>l. ListsInv /\ ReadInv /\ ClaimsInv /\ ServedInv
  BY DEF LoadInv
<1>v. UNCHANGED <<dir, next, candidates, untriggered, contested, rejected, pending, served>>
  BY DEF loadVars
<1>f. /\ Positions' = Positions /\ Triggered' = Triggered /\ Broken' = Broken /\ Aside' = Aside
      /\ \A p : ClaimOf(p)' = ClaimOf(p)
      /\ \A c : Contenders(c)' = Contenders(c)
  BY <1>v, DirFrame
<1>1. ListsInv'
  BY <1>l, <1>v DEF ListsInv
<1>2. ReadInv'
  BY <1>f, <1>l, <1>v DEF ReadInv
<1>3. ClaimsInv'
  <2>1. pending = {} /\ contested = UNION {Contenders(c) : c \in Claims}
    BY <1>l DEF ClaimsInv
  <2>2. pending' = {} /\ contested' = UNION {Contenders(c)' : c \in Claims}
    BY <1>f, <1>v, <2>1
  <2> QED
    BY <2>2 DEF ClaimsInv
<1>4. ServedInv'
  BY <1>f, <1>l, <1>v DEF ServedInv
<1>5. Hooks' = Hooks
  BY <1>f, <1>v DEF Hooks
<1> QED
  BY <1>1, <1>2, <1>3, <1>4, <1>5, <1>f

\* Every webhook that is served gets the route it claims.
LEMMA BuildRoutesKeeps ==
  ASSUME LoadInv, BuildRoutes
  PROVE  LoadInv'
<1>v. /\ phase = "loaded" /\ phase' = "routing"
      /\ UNCHANGED <<loadVars, rejected, pending, served, mux>>
      /\ routes' = [c \in {ClaimOf(p) : p \in Hooks} |-> Max({p \in Hooks : ClaimOf(p) = c})]
  BY DEF BuildRoutes, Hooks
<1>f. /\ ListsInv' /\ ReadInv' /\ ClaimsInv' /\ ServedInv' /\ Hooks' = Hooks
      /\ Positions' = Positions /\ \A p : ClaimOf(p)' = ClaimOf(p)
  BY <1>v, ServeFrame
<1>l. ControlOK /\ RoutesInv /\ ListsInv
  BY DEF LoadInv
<1>1. ASSUME NEW p \in Hooks
      PROVE  p \in Positions /\ p \in Nat /\ ClaimOf(p) \in Claims /\ \A q \in Hooks : ClaimOf(q) = ClaimOf(p) => q = p
  <2>1. \A q \in Hooks : q \in Elements(served) /\ ClaimOf(q) # NoClaim
    BY DEF Hooks
  <2>2. /\ \A q \in Hooks : q \in Triggered
        /\ ClaimOf(p) \in Claims /\ \A q \in Triggered : ClaimOf(q) = ClaimOf(p) => q = p
    BY <1>v, <2>1, ServedAlone
  <2>3. p \in Positions /\ Positions \in SUBSET Nat
    BY <1>l, <2>2, EntryFacts DEF Triggered
  <2> QED
    BY <2>2, <2>3
<1>2. DOMAIN routes' = {ClaimOf(p) : p \in Hooks}
  BY <1>v
<1>3. ASSUME NEW p \in Hooks PROVE routes'[ClaimOf(p)] = p
  <2>1. {q \in Hooks : ClaimOf(q) = ClaimOf(p)} = {p}
    BY <1>1
  <2>2. routes'[ClaimOf(p)] = Max({q \in Hooks : ClaimOf(q) = ClaimOf(p)})
    BY <1>v
  <2>3. Max({p}) = p
    <3>1. p >= p
      BY <1>1
    <3> QED
      BY <3>1, Zenon DEF Max
  <2> QED
    BY <2>1, <2>2, <2>3
<1>4. \A c \in DOMAIN routes' : c \in Claims /\ routes'[c] \in Positions
  BY <1>1, <1>2, <1>3
<1>5. mux = {} /\ mux' = {}
  BY <1>l, <1>v DEF RoutesInv
<1>6. ControlOK'
  BY <1>4, <1>5, <1>f, <1>l, <1>v DEF ControlOK, loadVars
<1>7. RoutesInv'
  BY <1>2, <1>3, <1>5, <1>f, <1>v, FS_EmptySet DEF RoutesInv
<1> QED
  BY <1>6, <1>7, <1>f DEF LoadInv

\* A pattern is registered beside patterns it is compatible with, or not at all.
LEMMA RegisterRouteKeeps ==
  ASSUME LoadInv, NEW c \in Claims, RegisterRoute(c)
  PROVE  LoadInv'
<1>v. /\ phase = "routing" /\ c \in DOMAIN routes \ mux
      /\ UNCHANGED <<loadVars, rejected, pending, served, routes>>
      /\ \/ phase' = "panicked" /\ mux' = mux
         \/ /\ phase' = "routing" /\ mux' = mux \cup {c}
            /\ \A d \in mux : ~Conflict(c, d)
  BY DEF RegisterRoute
<1>f. /\ ListsInv' /\ ReadInv' /\ ClaimsInv' /\ ServedInv' /\ Hooks' = Hooks
      /\ Positions' = Positions /\ \A p : ClaimOf(p)' = ClaimOf(p)
  BY <1>v, ServeFrame
<1>l. ControlOK /\ RoutesInv
  BY DEF LoadInv
<1>1. ControlOK'
  BY <1>f, <1>l, <1>v DEF ControlOK, loadVars
<1>2. \A d \in mux : Conflict(d, c) <=> Conflict(c, d)
  BY DEF Conflict
<1>3. IsFiniteSet(mux') /\ \A a, b \in mux' : a # b => ~Conflict(a, b)
  <2>1. IsFiniteSet(mux) /\ \A a, b \in mux : a # b => ~Conflict(a, b)
    BY <1>l DEF RoutesInv
  <2>2. IsFiniteSet(mux \cup {c})
    BY <2>1, FS_AddElement
  <2> QED
    BY <1>2, <1>v, <2>1, <2>2
<1>4. /\ DOMAIN routes = {ClaimOf(p) : p \in Hooks}
      /\ \A p \in Hooks : routes[ClaimOf(p)] = p
  BY <1>l, <1>v DEF RoutesInv
<1>5. /\ DOMAIN routes' = {ClaimOf(p)' : p \in Hooks'}
      /\ \A p \in Hooks' : routes'[ClaimOf(p)'] = p
  BY <1>4, <1>f, <1>v
<1>6. \A a, b \in mux' : a # b => ~Conflict(a, b)'
  BY <1>3 DEF Conflict, Narrower
<1>7. RoutesInv'
  BY <1>3, <1>5, <1>6, <1>v DEF RoutesInv
<1> QED
  BY <1>1, <1>7, <1>f DEF LoadInv

\* The daemon is up once every route is registered.
LEMMA ComeUpKeeps ==
  ASSUME LoadInv, ComeUp
  PROVE  LoadInv'
<1>v. /\ phase = "routing" /\ mux = DOMAIN routes /\ phase' = "up"
      /\ UNCHANGED <<loadVars, rejected, pending, served, routes, mux>>
  BY DEF ComeUp
<1>f. /\ ListsInv' /\ ReadInv' /\ ClaimsInv' /\ ServedInv' /\ Hooks' = Hooks
      /\ Positions' = Positions /\ \A p : ClaimOf(p)' = ClaimOf(p)
  BY <1>v, ServeFrame
<1>l. ControlOK /\ RoutesInv
  BY DEF LoadInv
<1>1. ControlOK'
  BY <1>f, <1>l, <1>v DEF ControlOK, loadVars
<1>2. /\ DOMAIN routes = {ClaimOf(p) : p \in Hooks}
      /\ \A p \in Hooks : routes[ClaimOf(p)] = p
      /\ IsFiniteSet(mux) /\ \A a, b \in mux : a # b => ~Conflict(a, b)
  BY <1>l, <1>v DEF RoutesInv
<1>3. /\ DOMAIN routes' = {ClaimOf(p)' : p \in Hooks'}
      /\ \A p \in Hooks' : routes'[ClaimOf(p)'] = p
  BY <1>2, <1>f, <1>v
<1>4. \A a, b \in mux' : a # b => ~Conflict(a, b)'
  BY <1>2, <1>v DEF Conflict, Narrower
<1>5. RoutesInv'
  BY <1>2, <1>3, <1>4, <1>v DEF RoutesInv
<1> QED
  BY <1>1, <1>5, <1>f DEF LoadInv

\* A step that touches none of Load's variables.
LEMMA LoadInvFrame ==
  ASSUME LoadInv, UNCHANGED vars
  PROVE  LoadInv'
<1>l. ListsInv /\ ReadInv /\ ClaimsInv /\ ServedInv /\ RoutesInv /\ ControlOK
  BY DEF LoadInv
<1>v. UNCHANGED <<dir, next, candidates, untriggered, contested, phase, rejected, pending, served, routes, mux>>
  BY DEF vars, loadVars
<1>f. /\ Positions' = Positions /\ Triggered' = Triggered /\ Broken' = Broken /\ Aside' = Aside
      /\ \A p : ClaimOf(p)' = ClaimOf(p)
      /\ \A c : Contenders(c)' = Contenders(c)
  BY <1>v, DirFrame
<1>1. ListsInv' /\ ControlOK'
  BY <1>f, <1>l, <1>v DEF ListsInv, ControlOK
<1>2. ReadInv' /\ ServedInv'
  BY <1>f, <1>l, <1>v DEF ReadInv, ServedInv
<1>3. ClaimsInv'
  BY <1>f, <1>l, <1>v DEF ClaimsInv
<1>4. RoutesInv'
  <2>1. Hooks' = Hooks
    BY <1>f, <1>v DEF Hooks
  <2>2. \A a, b \in mux' : a # b => ~Conflict(a, b)'
    BY <1>l, <1>v DEF RoutesInv, Conflict, Narrower
  <2> QED
    BY <1>f, <1>l, <1>v, <2>1, <2>2 DEF RoutesInv
<1> QED
  BY <1>1, <1>2, <1>3, <1>4 DEF LoadInv

\* Loading, serving or neither: LoadInv stays.
LEMMA LoadInvKept ==
  ASSUME LoadInv, LoadStep \/ ServeStep \/ UNCHANGED vars
  PROVE  LoadInv'
<1>1. CASE ReadEntry
  BY <1>1, ReadEntryKeeps
<1>2. CASE GroupClaims
  BY <1>2, GroupClaimsKeeps
<1>3. ASSUME NEW c \in Claims, JudgeClaim(c) PROVE LoadInv'
  BY <1>3, JudgeClaimKeeps
<1>4. CASE Settle
  BY <1>4, SettleKeeps
<1>5. CASE BuildRoutes
  BY <1>5, BuildRoutesKeeps
<1>6. ASSUME NEW c \in Claims, RegisterRoute(c) PROVE LoadInv'
  BY <1>6, RegisterRouteKeeps
<1>7. CASE ComeUp
  BY <1>7, ComeUpKeeps
<1>8. CASE UNCHANGED vars
  BY <1>8, LoadInvFrame
<1> QED
  BY <1>1, <1>2, <1>3, <1>4, <1>5, <1>6, <1>7, <1>8 DEF LoadStep, ServeStep

-----------------------------------------------------------------------------
(* What LoadInv says of a loaded directory and of routes that answer.      *)

\* Of finitely many patterns that match one request and are pairwise compatible
\* one is the most specific.
LEMMA MostSpecific ==
  ASSUME NEW M, IsFiniteSet(M), M # {}, NEW r, \A c \in M : r \in Matches[c],
         \A c, d \in M : c # d => ~Conflict(c, d)
  PROVE  \E c \in M : \A d \in M : d # c => Narrower(c, d) /\ ~Narrower(d, c)
<1> DEFINE Below(c) == {e \in M : Narrower(e, c)}
           T == {Cardinality(Below(c)) : c \in M}
<1>1. ASSUME NEW c \in M PROVE IsFiniteSet(Below(c)) /\ Cardinality(Below(c)) \in Nat
  <2>1. Below(c) \in SUBSET M
    OBVIOUS
  <2> HIDE DEF Below
  <2>2. IsFiniteSet(Below(c))
    BY <2>1, FS_Subset
  <2> QED
    BY <2>2, FS_CardinalityType
<1>2. ASSUME NEW c \in M, NEW d \in M, Narrower(d, c)
      PROVE  Cardinality(Below(d)) < Cardinality(Below(c))
  <2>1. Below(d) \subseteq Below(c)
    BY <1>2 DEF Narrower
  <2>2. d \in Below(c) /\ d \notin Below(d)
    BY <1>2 DEF Narrower
  <2>3. Cardinality(Below(d)) <= Cardinality(Below(c)) /\ Cardinality(Below(d)) # Cardinality(Below(c))
    <3> HIDE DEF Below
    <3>1. IsFiniteSet(Below(c)) /\ Below(d) \in SUBSET Below(c) /\ Below(c) # Below(d)
      BY <1>1, <2>1, <2>2
    <3> QED
      BY <3>1, FS_Subset
  <2> HIDE DEF Below
  <2> QED
    BY <1>1, <2>3
<1> HIDE DEF Below
<1>3. T \in SUBSET Nat /\ T # {}
  BY <1>1
<1>4. PICK n \in T : \A m \in T : n <= m
  BY <1>3, LeastNat
<1>5. PICK c \in M : n = Cardinality(Below(c))
  BY <1>4
<1>6. \A d \in M : ~Narrower(d, c)
  <2> SUFFICES ASSUME NEW d \in M, Narrower(d, c) PROVE FALSE
    OBVIOUS
  <2>1. Cardinality(Below(d)) < Cardinality(Below(c))
    BY <1>2
  <2>2. n <= Cardinality(Below(d))
    BY <1>4
  <2> QED
    BY <1>1, <1>5, <2>1, <2>2
<1>7. \A d \in M : d # c => Narrower(c, d)
  <2> SUFFICES ASSUME NEW d \in M, d # c PROVE Narrower(c, d)
    OBVIOUS
  <2>1. ~Conflict(c, d) /\ Matches[c] \cap Matches[d] # {}
    OBVIOUS
  <2> QED
    BY <1>6, <2>1 DEF Conflict
<1> QED
  BY <1>6, <1>7

\* LoadInv says that no pipeline answers for its neighbour.
LEMMA LoadInvNoHijack == LoadInv => NoHijack
<1> SUFFICES ASSUME LoadInv, phase = "up", NEW p \in Elements(served), ClaimOf(p) # NoClaim
             PROVE  /\ \A q \in Positions \ {p} : dir[q].outcome = "triggered" => ClaimOf(q) # ClaimOf(p)
                    /\ \A r \in Matches[ClaimOf(p)] : \E q \in Elements(served) :
                          /\ Answering(r) = {q}
                          /\ q = p \/ Narrower(ClaimOf(q), ClaimOf(p))
  BY DEF NoHijack
<1>1. \A q \in Positions \ {p} : dir[q].outcome = "triggered" => ClaimOf(q) # ClaimOf(p)
  <2>1. \A q \in Triggered : ClaimOf(q) = ClaimOf(p) => q = p
    BY ServedAlone
  <2> QED
    BY <2>1 DEF Triggered
<1>2. /\ mux = {ClaimOf(q) : q \in Hooks} /\ \A q \in Hooks : routes[ClaimOf(q)] = q
      /\ IsFiniteSet(mux) /\ \A a, b \in mux : a # b => ~Conflict(a, b)
  BY DEF LoadInv, RoutesInv
<1>3. p \in Hooks /\ \A q \in Hooks : q \in Elements(served)
  BY DEF Hooks
<1>4. ASSUME NEW r \in Matches[ClaimOf(p)]
      PROVE  \E q \in Elements(served) : Answering(r) = {q} /\ (q = p \/ Narrower(ClaimOf(q), ClaimOf(p)))
  <2> DEFINE M == {c \in mux : r \in Matches[c]}
  <2>1. IsFiniteSet(M) /\ ClaimOf(p) \in M
    BY <1>2, <1>3, <1>4, FS_Subset
  <2>2. \A c, d \in M : c # d => ~Conflict(c, d)
    BY <1>2
  <2>3. \A c \in M : r \in Matches[c]
    OBVIOUS
  <2>4. \E c \in M : \A d \in M : d # c => Narrower(c, d) /\ ~Narrower(d, c)
    <3> HIDE DEF M
    <3>1. M # {}
      BY <2>1
    <3> QED
      BY <2>1, <2>2, <2>3, <3>1, MostSpecific
  <2>5. PICK c \in M : \A d \in M : d # c => Narrower(c, d) /\ ~Narrower(d, c)
    BY <2>4
  <2>6. ~Narrower(c, c)
    BY DEF Narrower
  <2>7. {d \in mux : r \in Matches[d] /\ ~\E e \in mux : r \in Matches[e] /\ Narrower(e, d)} = {c}
    BY <2>5, <2>6
  <2>8. Answering(r) = {routes[c]}
    BY <2>7 DEF Answering
  <2>9. PICK q \in Hooks : c = ClaimOf(q)
    BY <1>2, <2>5
  <2>10. routes[c] = q /\ q \in Elements(served)
    BY <1>2, <1>3, <2>9
  <2>11. q = p \/ Narrower(ClaimOf(q), ClaimOf(p))
    <3>1. CASE ClaimOf(p) = c
      BY <1>2, <1>3, <2>9, <3>1
    <3>2. CASE ClaimOf(p) # c
      BY <2>1, <2>5, <2>9, <3>2
    <3> QED
      BY <3>1, <3>2
  <2> QED
    BY <2>8, <2>10, <2>11
<1> QED
  BY <1>1, <1>4

\* LoadInv says that every file is accounted for, once.
LEMMA LoadInvAccounted == LoadInv => Accounted
<1> SUFFICES ASSUME LoadInv, phase = "loaded" PROVE Accounted
  BY DEF Accounted
<1>l. ListsInv /\ ReadInv /\ ClaimsInv /\ ServedInv
  BY DEF LoadInv
<1>s. served \in Seq(Nat) /\ rejected \in Seq(Nat) /\ untriggered \in Seq(Nat)
  BY <1>l DEF ListsInv
<1>p. \A p \in Positions : p < next
  BY <1>l, EntryFacts DEF ReadInv, Positions
<1>c. /\ contested = UNION {Contenders(c) : c \in Claims}
      /\ Elements(served) = Triggered \ contested
  BY <1>l DEF ClaimsInv, ServedInv
<1>d. contested \in SUBSET Triggered
  BY <1>c, <1>l, ContendersAre
<1>e. /\ Elements(rejected) = Broken \cup contested /\ Elements(untriggered) = Aside
  BY <1>l, <1>p DEF ReadInv, Broken, Aside
<1>i. IsInjective(served) /\ IsInjective(rejected) /\ IsInjective(untriggered)
  BY <1>l, <1>s, IncreasingInjective DEF ReadInv, ServedInv
<1>x. Triggered \cap Broken = {} /\ Triggered \cap Aside = {} /\ Broken \cap Aside = {}
  BY DEF Triggered, Broken, Aside
<1>1. IsInjective(served \o rejected \o untriggered)
  <2>1. Elements(served) \cap Elements(rejected) = {}
    BY <1>c, <1>e, <1>x
  <2>2. /\ served \o rejected \in Seq(Nat) /\ IsInjective(served \o rejected)
        /\ Elements(served \o rejected) = Elements(served) \cup Elements(rejected)
    BY <1>i, <1>s, <2>1, ConcatSeq
  <2>3. Elements(served \o rejected) \cap Elements(untriggered) = {}
    BY <1>c, <1>d, <1>e, <1>x, <2>2
  <2> QED
    BY <1>i, <1>s, <2>2, <2>3, ConcatSeq
<1>2. Elements(served) \cup Elements(rejected) \cup Elements(untriggered)
         = {p \in Positions : dir[p].outcome # "ignored"}
  <2>1. Elements(served) \cup Elements(rejected) \cup Elements(untriggered) = Triggered \cup Broken \cup Aside
    BY <1>c, <1>d, <1>e
  <2>2. Triggered \cup Broken \cup Aside = {p \in Positions : dir[p].outcome # "ignored"}
    BY <1>l, EntryFacts DEF Triggered, Broken, Aside
  <2> QED
    BY <2>1, <2>2
<1>3. ASSUME NEW p \in Positions, dir[p].outcome = "triggered",
             \A q \in Positions \ {p} : dir[q].outcome = "triggered" => ClaimOf(q) # ClaimOf(p) \/ ClaimOf(p) = NoClaim
      PROVE  p \in Elements(served)
  <2>1. p \in Triggered /\ ~\E q \in Triggered \ {p} : ClaimOf(q) = ClaimOf(p) /\ ClaimOf(p) # NoClaim
    BY <1>3 DEF Triggered
  <2>2. p \notin contested
    BY <1>c, <1>l, <2>1, ContendersAre
  <2> QED
    BY <1>c, <2>1, <2>2
<1> QED
  BY <1>1, <1>2, <1>3 DEF Accounted

\* LoadInv says that the result does not depend on a map's order.
LEMMA LoadInvDeterministic == LoadInv => Deterministic
<1> SUFFICES ASSUME LoadInv, phase = "loaded" PROVE Deterministic
  BY DEF Deterministic
<1>1. Increasing(served) /\ Increasing(rejected) /\ Increasing(untriggered)
  BY DEF LoadInv, ReadInv, ServedInv
<1> QED
  BY <1>1 DEF Deterministic

-----------------------------------------------------------------------------
(* The command line: how far a command has got.                            *)

\* The arguments do not change, nor what they say.
LEMMA ArgsFrame ==
  ASSUME args' = args
  PROVE  Verb' = Verb /\ (HasDir' <=> HasDir) /\ DirArg' = DirArg /\ SplitArgs' = SplitArgs
<1>1. Verb' = Verb
  BY DEF Verb
<1>2. (HasDir' <=> HasDir) /\ DirArg' = DirArg
  BY DEF HasDir, DirArg
<1>3. Split' = Split
  BY <1>1 DEF Split
<1> QED
  BY <1>1, <1>2, <1>3 DEF SplitArgs

\* The same assignments build the same inputs.
LEMMA BuiltFrame ==
  ASSUME given' = given, path' = path
  PROVE  Built' = Built
<1>1. \A a, w : Assign(a, w)' = Assign(a, w)
  BY DEF Assign
<1> QED
  BY <1>1 DEF Built

\* Before anything is parsed.
LEMMA CliInitInv == CliInit => LoadInv /\ CliInv
<1> SUFFICES ASSUME CliInit PROVE LoadInv /\ CliInv
  OBVIOUS
<1>1. dir \in Seq(Entries)
  <2>1. <<>> \in Seq(Entries)
    BY EmptySeq
  <2>2. dir \in Directories \/ dir = <<>>
    BY DEF CliInit
  <2> QED
    BY <2>1, <2>2, DirectoriesAssumption
<1>2. LoadInv
  BY <1>1, UnreadLoadInv DEF CliInit
<1>3. args \in Seq(Words(STRING, STRING))
  BY CliAssumption DEF CliInit
<1>4. at = "parsing" /\ path = Empty /\ outcome = "none" /\ exit = -1 /\ phase = "read"
  BY DEF CliInit, Unread
<1>5. StageInv /\ GateInv /\ InputsInv
  BY <1>4 DEF StageInv, GateInv, InputsInv
<1>6. StatusOK
  <2>1. exit \in -1 .. 2
    BY <1>4
  <2> QED
    BY <1>4, <2>1, Zenon DEF StatusOK
<1> QED
  BY <1>2, <1>3, <1>5, <1>6 DEF CliInv

\* Dispatching sends each verb its own way.
LEMMA DispatchKeeps ==
  ASSUME CliInv, Dispatch
  PROVE  CliInv'
<1>i. StatusOK /\ StageInv /\ args \in Seq(Words(STRING, STRING))
  BY DEF CliInv
<1>v. at = "parsing" /\ UNCHANGED <<vars, args, values, outcome>>
  BY DEF Dispatch
<1>f. Verb' = Verb /\ (HasDir' <=> HasDir) /\ SplitArgs' = SplitArgs
  BY <1>v, ArgsFrame
<1>0. path = Empty /\ phase = "read" /\ phase' = "read" /\ outcome' = "none" /\ exit = -1
  BY <1>i, <1>v DEF StageInv, StatusOK, vars
<1>1. \/ at' = "exited" /\ exit' \in {0, 2} /\ path' = path
      \/ at' = "loading" /\ exit' = exit
      \/ /\ at' = "compiling" /\ exit' = exit /\ Verb = "check" /\ ~HasDir
      \/ /\ at' = "compiling" /\ exit' = exit /\ Verb = "run"
         /\ WellFormed(SplitArgs) /\ path' = SplitArgs.paths[1] /\ given' = SplitArgs.given
  BY DEF Dispatch, Proceed, Exit
<1>2. StageInv'
  BY <1>0, <1>1, <1>f DEF StageInv
<1>3. GateInv'
  BY <1>0, <1>1, CliAssumption DEF GateInv
<1>s. StatusOK'
  <2>1. exit' \in -1 .. 2 /\ (exit' # -1 <=> at' = "exited")
    BY <1>0, <1>1
  <2>2. at' \in {"parsing", "compiling", "binding", "running", "loading", "exited"} /\ outcome' = "none"
    BY <1>0, <1>1
  <2> QED
    BY <2>1, <2>2, Zenon DEF StatusOK
<1>4. InputsInv'
  BY <1>0, <1>1, <1>f DEF InputsInv
<1> QED
  BY <1>2, <1>3, <1>4, <1>i, <1>s, <1>v DEF CliInv

\* A file that compiles is bound and run, if it was to be run.
LEMMA CompileFileKeeps ==
  ASSUME CliInv, CompileFile
  PROVE  CliInv'
<1>i. StatusOK /\ StageInv /\ InputsInv /\ args \in Seq(Words(STRING, STRING))
  BY DEF CliInv
<1>v. /\ at = "compiling" /\ UNCHANGED <<phase, served, rejected, args, path, given, options, values, outcome>>
      /\ \/ at' = "exited" /\ exit' \in {0, 1}
         \/ at' = "binding" /\ exit' = exit /\ Compiles /\ Verb # "check"
  BY DEF CompileFile, Exit, vars
<1>f. Verb' = Verb /\ (HasDir' <=> HasDir) /\ SplitArgs' = SplitArgs /\ (Compiles' <=> Compiles)
  BY <1>v, ArgsFrame DEF Compiles
<1>0. phase = "read" /\ outcome = "none" /\ Verb \in {"run", "check"} /\ ~(Verb = "check" /\ HasDir)
  BY <1>i, <1>v DEF StageInv
<1>2. StageInv'
  BY <1>0, <1>f, <1>i, <1>v DEF StageInv
<1>3. GateInv'
  BY <1>0, <1>f, <1>v DEF GateInv
<1>s. StatusOK'
  BY <1>0, <1>i, <1>v DEF StatusOK
<1>4. InputsInv'
  BY <1>0, <1>f, <1>i, <1>v DEF InputsInv
<1> QED
  BY <1>2, <1>3, <1>4, <1>i, <1>s, <1>v DEF CliInv

\* Binding the inputs starts the run with all that was built.
LEMMA BindInputsKeeps ==
  ASSUME CliInv, BindInputs
  PROVE  CliInv'
<1>i. StatusOK /\ StageInv /\ InputsInv /\ args \in Seq(Words(STRING, STRING))
  BY DEF CliInv
<1>v. /\ at = "binding" /\ UNCHANGED <<phase, served, rejected, args, path, given, options, outcome>>
      /\ \/ at' = "exited" /\ exit' = 2
         \/ /\ at' = "running" /\ exit' = exit
            /\ Built[Len(given)].ok /\ values' = Built[Len(given)].values
  BY DEF BindInputs, Exit, vars
<1>f. Verb' = Verb /\ SplitArgs' = SplitArgs /\ (Compiles' <=> Compiles) /\ Built' = Built
  BY <1>v, ArgsFrame, BuiltFrame DEF Compiles
<1>0. phase = "read" /\ outcome = "none" /\ Verb = "run"
  BY <1>i, <1>v DEF StageInv
<1>2. StageInv'
  BY <1>0, <1>f, <1>i, <1>v DEF StageInv
<1>3. GateInv'
  BY <1>0, <1>f, <1>v DEF GateInv
<1>s. StatusOK'
  BY <1>0, <1>i, <1>v DEF StatusOK
<1>4. InputsInv'
  <2>1. WellFormed(SplitArgs) /\ path = SplitArgs.paths[1] /\ given = SplitArgs.given /\ Compiles
    BY <1>i, <1>v DEF InputsInv
  <2> QED
    BY <1>0, <1>f, <1>v, <2>1 DEF InputsInv
<1> QED
  BY <1>2, <1>3, <1>4, <1>i, <1>s, <1>v DEF CliInv

\* A run that ends well had every input.
LEMMA RunReturnsKeeps ==
  ASSUME CliInv, RunReturns
  PROVE  CliInv'
<1>i. StatusOK /\ StageInv /\ InputsInv /\ args \in Seq(Words(STRING, STRING))
  BY DEF CliInv
<1>v. /\ at = "running" /\ UNCHANGED <<phase, served, rejected, args, path, given, options, values>>
      /\ at' = "exited" /\ outcome' \in {"ok", "failed", "mutated"}
      /\ exit' = IF outcome' = "ok" THEN 0 ELSE 1
      /\ outcome' # "failed" => DOMAIN Plans[path].inputs \ DOMAIN values = {}
  BY DEF RunReturns, Exit, vars
<1>f. Verb' = Verb /\ SplitArgs' = SplitArgs /\ (Compiles' <=> Compiles) /\ Built' = Built
  BY <1>v, ArgsFrame, BuiltFrame DEF Compiles
<1>0. phase = "read" /\ Verb = "run"
  BY <1>i, <1>v DEF StageInv
<1>2. StageInv'
  BY <1>0, <1>f, <1>v DEF StageInv
<1>3. GateInv'
  BY <1>0, <1>f, <1>v DEF GateInv
<1>s. StatusOK'
  BY <1>0, <1>i, <1>v DEF StatusOK
<1>4. InputsInv'
  <2>1. /\ WellFormed(SplitArgs) /\ path = SplitArgs.paths[1] /\ given = SplitArgs.given /\ Compiles
        /\ Built[Len(given)].ok /\ values = Built[Len(given)].values
    BY <1>i, <1>v DEF InputsInv
  <2>2. exit' = 0 => outcome' = "ok" /\ DOMAIN Plans[path].inputs \subseteq DOMAIN values
    BY <1>v
  <2> QED
    BY <1>0, <1>f, <1>v, <2>1, <2>2 DEF InputsInv
<1> QED
  BY <1>2, <1>3, <1>4, <1>i, <1>s, <1>v DEF CliInv

\* What a command does while it loads or serves.
LEMMA LoadingKeeps ==
  ASSUME LoadInv, CliInv, LoadFails \/ Loads \/ CheckDir \/ NothingToServe \/ Serves \/ ServeReturns
  PROVE  CliInv'
<1>i. StatusOK /\ StageInv /\ GateInv /\ InputsInv /\ args \in Seq(Words(STRING, STRING))
  BY DEF CliInv
<1>v. at = "loading" /\ UNCHANGED <<args, path, given, options, values, outcome>>
  BY DEF LoadFails, Loads, CheckDir, NothingToServe, Serves, ServeReturns, cliVars
<1>f. Verb' = Verb /\ (HasDir' <=> HasDir)
  BY <1>v, ArgsFrame
<1>0. outcome = "none" /\ exit = -1
  BY <1>i, <1>v DEF StageInv, StatusOK
<1>1. \/ at' = "loading" /\ exit' = exit
      \/ at' = "exited" /\ exit' \in {0, 1, 2}
  BY <1>v DEF LoadFails, Loads, CheckDir, NothingToServe, Serves, ServeReturns, cliVars, Exit
<1>2. InputsInv'
  BY <1>0, <1>1, <1>v DEF InputsInv
<1>s. StatusOK'
  BY <1>0, <1>1, <1>i, <1>v DEF StatusOK
<1>3. StageInv' /\ GateInv'
  <2>1. CASE LoadFails
    <3>1. /\ path # DirPath /\ at' = "exited" /\ exit' = 1 /\ UNCHANGED <<phase, served, rejected>>
      BY <2>1 DEF LoadFails, Exit, vars
    <3>2. phase = "read"
      BY <1>i, <3>1 DEF StageInv
    <3> QED
      BY <1>0, <1>f, <1>v, <3>1, <3>2 DEF StageInv, GateInv
  <2>2. CASE Loads
    <3>1. /\ path = DirPath /\ at' = "loading" /\ exit' = exit
          /\ phase \in {"read", "claims"} /\ phase' \in {"read", "claims", "loaded"}
      BY <1>v, <2>2 DEF Loads, LoadStep, ReadEntry, GroupClaims, JudgeClaim, Settle, cliVars
    <3> QED
      BY <1>0, <1>f, <1>v, <3>1 DEF StageInv, GateInv
  <2>3. CASE CheckDir
    <3>1. /\ path = DirPath /\ phase = "loaded" /\ Verb = "check" /\ at' = "exited"
          /\ exit' = (IF rejected = <<>> THEN 0 ELSE 1) /\ UNCHANGED <<phase, served, rejected>>
      BY <2>3 DEF CheckDir, Exit, vars
    <3> QED
      BY <1>0, <1>f, <1>v, <3>1 DEF StageInv, GateInv
  <2>4. CASE NothingToServe
    <3>1. /\ path = DirPath /\ phase = "loaded" /\ Verb = "serve" /\ at' = "exited"
          /\ exit' = 1 /\ served = <<>> /\ UNCHANGED <<phase, served, rejected>>
      BY <2>4 DEF NothingToServe, Exit, vars
    <3> QED
      BY <1>0, <1>f, <1>v, <3>1 DEF StageInv, GateInv
  <2>5. CASE Serves
    <3>1. /\ path = DirPath /\ Verb = "serve" /\ served # <<>> /\ at' = "loading" /\ exit' = exit
          /\ served' = served /\ phase' \in {"routing", "up", "panicked"}
      BY <1>v, <2>5 DEF Serves, ServeStep, BuildRoutes, RegisterRoute, ComeUp, cliVars
    <3> QED
      BY <1>0, <1>f, <1>v, <3>1 DEF StageInv, GateInv
  <2>6. CASE ServeReturns
    <3>1. /\ at' = "exited" /\ UNCHANGED <<phase, served, rejected>>
          /\ \/ phase = "up" /\ exit' \in {0, 1}
             \/ phase = "panicked" /\ exit' = 2
      BY <2>6 DEF ServeReturns, Exit, vars
    <3>2. path = DirPath /\ Verb = "serve" /\ served # <<>>
      BY <1>i, <3>1 DEF StageInv
    <3> QED
      BY <1>0, <1>f, <1>v, <3>1, <3>2 DEF StageInv, GateInv
  <2> QED
    BY <2>1, <2>2, <2>3, <2>4, <2>5, <2>6
<1> QED
  BY <1>2, <1>3, <1>i, <1>s, <1>v DEF CliInv

\* A step that changes nothing.
LEMMA CliInvFrame ==
  ASSUME CliInv, UNCHANGED allVars
  PROVE  CliInv'
<1>v. UNCHANGED <<vars, args, at, path, given, options, values, outcome, exit, phase, served, rejected>>
  BY DEF allVars, cliVars, vars
<1>f. /\ Verb' = Verb /\ (HasDir' <=> HasDir) /\ SplitArgs' = SplitArgs
      /\ (Compiles' <=> Compiles) /\ Built' = Built
  BY <1>v, ArgsFrame, BuiltFrame DEF Compiles
<1>1. StageInv' /\ GateInv'
  BY <1>f, <1>v DEF CliInv, StageInv, GateInv
<1>2. InputsInv'
  BY <1>f, <1>v DEF CliInv, InputsInv
<1>3. StatusOK'
  BY <1>v DEF CliInv, StatusOK
<1> QED
  BY <1>1, <1>2, <1>3, <1>v DEF CliInv

\* Every step of a command keeps both invariants.
LEMMA CliStepKeeps ==
  ASSUME LoadInv, CliInv, [CliNext]_allVars
  PROVE  LoadInv' /\ CliInv'
<1>1. LoadStep \/ ServeStep \/ UNCHANGED vars
  BY DEF CliNext, Dispatch, CompileFile, BindInputs, RunReturns, LoadFails, Loads, CheckDir,
         NothingToServe, Serves, ServeReturns, Exited, allVars
<1>2. LoadInv'
  BY <1>1, LoadInvKept
<1>3. CASE Dispatch
  BY <1>2, <1>3, DispatchKeeps
<1>4. CASE CompileFile
  BY <1>2, <1>4, CompileFileKeeps
<1>5. CASE BindInputs
  BY <1>2, <1>5, BindInputsKeeps
<1>6. CASE RunReturns
  BY <1>2, <1>6, RunReturnsKeeps
<1>7. CASE LoadFails \/ Loads \/ CheckDir \/ NothingToServe \/ Serves \/ ServeReturns
  BY <1>2, <1>7, LoadingKeeps
<1>8. CASE Exited \/ UNCHANGED allVars
  BY <1>2, <1>8, CliInvFrame DEF Exited
<1> QED
  BY <1>2, <1>3, <1>4, <1>5, <1>6, <1>7, <1>8 DEF CliNext

-----------------------------------------------------------------------------
(* The gate.                                                               *)

\* A list is empty if nothing is in it.
LEMMA EmptyList ==
  ASSUME NEW s \in Seq(Nat)
  PROVE  s = <<>> <=> Elements(s) = {}
<1>1. Len(s) \in Nat /\ DOMAIN s = 1 .. Len(s)
  BY LenProperties
<1>2. ASSUME s = <<>> PROVE Elements(s) = {}
  BY <1>2 DEF Elements
<1>3. ASSUME s # <<>> PROVE Elements(s) # {}
  <2>1. Len(s) # 0
    BY <1>3, EmptySeq
  <2>2. 1 \in DOMAIN s
    BY <1>1, <2>1
  <2>3. s[1] \in Elements(s)
    BY <2>2 DEF Elements
  <2> QED
    BY <2>3
<1> QED
  BY <1>2, <1>3

\* The invariants say that check --dir and serve exit with the right status.
LEMMA InvGateHolds == LoadInv /\ CliInv => GateHolds
<1> SUFFICES ASSUME LoadInv, CliInv, at = "exited", path = DirPath PROVE GateHolds
  BY DEF GateHolds
<1>l. ListsInv /\ ReadInv /\ ClaimsInv /\ ServedInv
  BY DEF LoadInv
<1>c. GateInv /\ StageInv
  BY DEF CliInv
<1>p. phase # "read" => \A p \in Positions : p < next
  BY <1>l, EntryFacts DEF ReadInv, Positions
<1>1. ASSUME Verb = "check", HasDir
      PROVE  exit = 0 <=>
                 /\ \A p \in Positions : dir[p].outcome \notin {"unparsed", "uncompiled"}
                 /\ \A p, q \in Positions : ClaimOf(p) = ClaimOf(q) => p = q \/ ClaimOf(p) = NoClaim
  <2>1. phase = "loaded" /\ exit = IF rejected = <<>> THEN 0 ELSE 1
    BY <1>1, <1>c DEF GateInv
  <2>2. Elements(rejected) = Broken \cup contested
    BY <1>l, <1>p, <2>1 DEF ReadInv, Broken
  <2>3. rejected = <<>> <=> Broken = {} /\ contested = {}
    <3>1. rejected = <<>> <=> Elements(rejected) = {}
      BY <1>l, EmptyList DEF ListsInv
    <3> QED
      BY <2>2, <3>1
  <2>4. Broken = {} <=> \A p \in Positions : dir[p].outcome \notin {"unparsed", "uncompiled"}
    BY DEF Broken
  <2>5. contested = UNION {Contenders(c) : c \in Claims}
    BY <1>l, <2>1 DEF ClaimsInv
  <2>6. \A p : p \in contested <=> /\ p \in Triggered /\ ClaimOf(p) # NoClaim
                                  /\ \E q \in Triggered \ {p} : ClaimOf(q) = ClaimOf(p)
    BY <1>l, <2>5, ContendersAre
  <2>7. \A p \in Positions : ClaimOf(p) # NoClaim => p \in Triggered
    BY <1>l, EntryFacts DEF Triggered
  <2>8. Triggered \in SUBSET Positions
    BY DEF Triggered
  <2>9. contested = {} <=> \A p, q \in Positions : ClaimOf(p) = ClaimOf(q) => p = q \/ ClaimOf(p) = NoClaim
    BY <2>6, <2>7, <2>8
  <2> QED
    BY <2>1, <2>3, <2>4, <2>9
<1>2. ASSUME Verb = "serve", \A p \in Positions : dir[p].outcome # "triggered"
      PROVE  exit = 1
  <2>1. \/ phase = "loaded" /\ served = <<>> /\ exit = 1
        \/ phase \in {"up", "panicked"}
    BY <1>2, <1>c DEF GateInv
  <2>2. ASSUME phase \in {"up", "panicked"} PROVE FALSE
    <3>1. served # <<>>
      BY <1>c, <2>2 DEF StageInv
    <3>2. Elements(served) = {}
      BY <1>2, <1>l, <2>2 DEF ServedInv, Triggered
    <3> QED
      BY <1>l, <3>1, <3>2, EmptyList DEF ListsInv
  <2> QED
    BY <2>1, <2>2
<1> QED
  BY <1>1, <1>2 DEF GateHolds

-----------------------------------------------------------------------------
(* Inputs: what buildInputs makes of the assignments.                      *)

\* Built is the function its definition says it is.
LEMMA BuiltDef ==
  ASSUME Len(given) \in Nat
  PROVE  Built = [k \in 0 .. Len(given) |->
                    IF k = 0 THEN [ok |-> TRUE, values |-> <<>>] ELSE Assign(Built[k - 1], given[k])]
<1> DEFINE None == [ok |-> TRUE, values |-> <<>>]
           Eq(g, n) == g = [k \in 0 .. n |-> IF k = 0 THEN None ELSE Assign(g[k - 1], given[k])]
           T == {n \in Nat : ~\E g : Eq(g, n)}
<1> HIDE DEF None
<1>1. \E g : Eq(g, 0)
  <2> DEFINE g == [k \in 0 .. 0 |-> None]
  <2>1. Eq(g, 0)
    OBVIOUS
  <2> QED
    BY <2>1
<1>2. ASSUME NEW n \in Nat, NEW g, Eq(g, n) PROVE \E h : Eq(h, n + 1)
  <2> DEFINE v == Assign(g[n], given[n + 1])
             h == [k \in 0 .. n + 1 |-> IF k = n + 1 THEN v ELSE g[k]]
  <2> HIDE DEF v
  <2>1. \A k \in 0 .. n : h[k] = g[k] /\ g[k] = IF k = 0 THEN None ELSE Assign(g[k - 1], given[k])
    BY <1>2
  <2>2. h[n + 1] = Assign(h[(n + 1) - 1], given[n + 1])
    <3>1. (n + 1) - 1 = n
      OBVIOUS
    <3> QED
      BY <2>1, <3>1 DEF v
  <2>3. \A k \in 0 .. n + 1 : h[k] = IF k = 0 THEN None ELSE Assign(h[k - 1], given[k])
    <3> SUFFICES ASSUME NEW k \in 0 .. n + 1 PROVE h[k] = IF k = 0 THEN None ELSE Assign(h[k - 1], given[k])
      OBVIOUS
    <3> HIDE DEF h
    <3>1. CASE k = n + 1
      BY <2>2, <3>1
    <3>2. CASE k \in 0 .. n
      BY <2>1, <3>2
    <3> QED
      BY <3>1, <3>2
  <2>4. Eq(h, n + 1)
    BY <2>3
  <2> QED
    BY <2>4
<1> HIDE DEF Eq
<1>3. T = {}
  <2>1. SUFFICES ASSUME T # {} PROVE FALSE
    OBVIOUS
  <2>2. PICK n \in T : \A m \in T : n <= m
    BY <2>1, LeastNat
  <2>3. n # 0
    BY <1>1, <2>2
  <2>4. n - 1 \in Nat /\ n - 1 \notin T /\ (n - 1) + 1 = n
    BY <2>2, <2>3
  <2> QED
    BY <1>2, <2>2, <2>4
<1>4. \E g : Eq(g, Len(given))
  BY <1>3
<1>5. Built = CHOOSE g : Eq(g, Len(given))
  BY DEF Built, Eq, None
<1>6. Eq(Built, Len(given))
  BY <1>4, <1>5
<1> QED
  BY <1>6 DEF Eq, None

\* Assignment w is refused, or sets an input that had no value among those of f.
Assigned(f, w, res) ==
    \/ res = [ok |-> FALSE, values |-> f]
    \/ /\ w.opt = Empty /\ w.text \in DOMAIN Assignments
       /\ Assignments[w.text].name \in DOMAIN Plans[path].inputs \ DOMAIN f
       /\ res = [ok |-> TRUE, values |-> With(f, Assignments[w.text].name, Literal(Assignments[w.text]))]

\* That is what Assign does, and after a refusal it refuses everything.
LEMMA AssignStep ==
  ASSUME NEW b \in BOOLEAN, NEW f, NEW w
  PROVE  /\ Assigned(f, w, Assign([ok |-> b, values |-> f], w))
         /\ b = FALSE => Assign([ok |-> b, values |-> f], w) = [ok |-> FALSE, values |-> f]
  BY DEF Assign, Assigned

\* Only inputs that the plan declares are built.
LEMMA BuiltNames ==
  ASSUME Len(given) \in Nat
  PROVE  \A k \in 0 .. Len(given) : \E b \in BOOLEAN : \E f :
            Built[k] = [ok |-> b, values |-> f] /\ DOMAIN f \subseteq DOMAIN Plans[path].inputs
<1> DEFINE Good(k) == \E b \in BOOLEAN : \E f :
                         Built[k] = [ok |-> b, values |-> f] /\ DOMAIN f \subseteq DOMAIN Plans[path].inputs
           T == {k \in 0 .. Len(given) : ~Good(k)}
<1>1. Good(0)
  <2>1. Built[0] = [ok |-> TRUE, values |-> <<>>]
    BY BuiltDef
  <2>2. DOMAIN <<>> = {}
    OBVIOUS
  <2> QED
    BY <2>1, <2>2
<1>2. ASSUME NEW k \in 1 .. Len(given), Good(k - 1) PROVE Good(k)
  <2>1b. PICK b \in BOOLEAN : \E f :
           Built[k - 1] = [ok |-> b, values |-> f] /\ DOMAIN f \subseteq DOMAIN Plans[path].inputs
    BY <1>2
  <2>1. PICK f :
           Built[k - 1] = [ok |-> b, values |-> f] /\ DOMAIN f \subseteq DOMAIN Plans[path].inputs
    BY <2>1b
  <2>2. Built[k] = Assign(Built[k - 1], given[k])
    BY BuiltDef
  <2> DEFINE a == Assignments[given[k].text]
             g == With(f, a.name, Literal(a))
  <2>3. \/ Built[k] = [ok |-> FALSE, values |-> f]
        \/ a.name \in DOMAIN Plans[path].inputs /\ Built[k] = [ok |-> TRUE, values |-> g]
    <3>1. Assigned(f, given[k], Assign([ok |-> b, values |-> f], given[k]))
      BY AssignStep
    <3>2. Assigned(f, given[k], Built[k])
      BY <2>1, <2>2, <3>1
    <3> QED
      BY <3>2 DEF Assigned
  <2>4. DOMAIN g = DOMAIN f \cup {a.name}
    BY DEF With
  <2> HIDE DEF a, g
  <2> QED
    BY <2>1, <2>3, <2>4
<1> HIDE DEF Good
<1>3. T = {}
  <2>1. SUFFICES ASSUME T # {} PROVE FALSE
    OBVIOUS
  <2>0. T \in SUBSET Nat
    OBVIOUS
  <2>2. PICK k \in T : \A m \in T : k <= m
    BY <2>0, <2>1, LeastNat
  <2>3. k \in 1 .. Len(given)
    BY <1>1, <2>2
  <2>4. k - 1 \notin T /\ k - 1 \in 0 .. Len(given)
    BY <2>2, <2>3
  <2> QED
    BY <1>2, <2>2, <2>3, <2>4
<1> QED
  BY <1>3 DEF Good

-----------------------------------------------------------------------------
(* Arguments: what splitRunArgs makes of the words.                        *)

\* Split is the function its definition says it is.
LEMMA SplitDef ==
  ASSUME Len(args) \in Nat, Verb = "run"
  PROVE  Split = [k \in 1 .. Len(args) |-> IF k = 1 THEN Unparsed ELSE RunWord(Split[k - 1], args[k])]
<1> DEFINE Eq(g, n) == g = [k \in 1 .. n |-> IF k = 1 THEN Unparsed ELSE RunWord(g[k - 1], args[k])]
           T == {n \in Nat : ~\E g : Eq(g, n)}
<1>1. \E g : Eq(g, 0)
  <2> DEFINE g == [k \in 1 .. 0 |-> Unparsed]
  <2>1. Eq(g, 0)
    OBVIOUS
  <2> QED
    BY <2>1
<1>2. ASSUME NEW n \in Nat, NEW g, Eq(g, n) PROVE \E h : Eq(h, n + 1)
  <2> DEFINE v == IF n = 0 THEN Unparsed ELSE RunWord(g[n], args[n + 1])
             h == [k \in 1 .. n + 1 |-> IF k = n + 1 THEN v ELSE g[k]]
  <2> HIDE DEF v
  <2>1. \A k \in 1 .. n : h[k] = g[k] /\ g[k] = IF k = 1 THEN Unparsed ELSE RunWord(g[k - 1], args[k])
    BY <1>2
  <2>2. h[n + 1] = IF n + 1 = 1 THEN Unparsed ELSE RunWord(h[(n + 1) - 1], args[n + 1])
    <3>1. (n + 1) - 1 = n /\ (n + 1 = 1 <=> n = 0) /\ (n # 0 => n \in 1 .. n)
      OBVIOUS
    <3>2. h[n + 1] = v
      OBVIOUS
    <3> HIDE DEF h
    <3> QED
      BY <2>1, <3>1, <3>2 DEF v
  <2>3. \A k \in 1 .. n + 1 : h[k] = IF k = 1 THEN Unparsed ELSE RunWord(h[k - 1], args[k])
    <3> SUFFICES ASSUME NEW k \in 1 .. n + 1 PROVE h[k] = IF k = 1 THEN Unparsed ELSE RunWord(h[k - 1], args[k])
      OBVIOUS
    <3> HIDE DEF h
    <3>1. CASE k = n + 1
      BY <2>2, <3>1
    <3>2. CASE k \in 1 .. n
      <4>1. k # 1 => k - 1 \in 1 .. n
        BY <3>2
      <4> QED
        BY <2>1, <3>2, <4>1
    <3> QED
      BY <3>1, <3>2
  <2>4. Eq(h, n + 1)
    BY <2>3
  <2> QED
    BY <2>4
<1> HIDE DEF Eq
<1>3. T = {}
  <2>1. SUFFICES ASSUME T # {} PROVE FALSE
    OBVIOUS
  <2>2. PICK n \in T : \A m \in T : n <= m
    BY <2>1, LeastNat
  <2>3. n # 0
    BY <1>1, <2>2
  <2>4. n - 1 \in Nat /\ n - 1 \notin T /\ (n - 1) + 1 = n
    BY <2>2, <2>3
  <2> QED
    BY <1>2, <2>2, <2>4
<1>4. \E g : Eq(g, Len(args))
  BY <1>3
<1>5. Split = CHOOSE g : Eq(g, Len(args))
  BY DEF Split, Eq
<1>6. Eq(Split, Len(args))
  BY <1>4, <1>5
<1> QED
  BY <1>6 DEF Eq

\* What a word and what the parse so far may be.
Text == STRING \cup {Empty}
Word == [opt : Text, eq : BOOLEAN, text : Text]
Acc == [paths : Seq(Text), given : Seq(Word), options : SUBSET (Text \X Text),
        wants : Word, bad : BOOLEAN]

\* The words of the line are words, and Nothing is one with no option.
LEMMA WordFacts ==
  ASSUME args \in Seq(Words(STRING, STRING))
  PROVE  /\ args \in Seq(Word) /\ Len(args) \in Nat
         /\ \A k \in 1 .. Len(args) : args[k] \in Word
         /\ Empty \in Text /\ Empty \notin {"--input", "--detect-mutation", "--inline", "run"}
         /\ Nothing \in Word /\ Nothing.opt = Empty
         /\ Unparsed \in Acc
<1>1. Empty \in Text /\ Empty \notin {"--input", "--detect-mutation", "--inline", "run"}
  <2>1. /\ Empty # "--input" /\ Empty # "--detect-mutation" /\ Empty # "--inline" /\ Empty # "run"
    BY Zenon DEF Empty
  <2> QED
    BY <2>1 DEF Text
<1>2. Nothing \in Word /\ Nothing.opt = Empty
  BY <1>1 DEF Nothing, Word
<1>3. \A w \in Words(STRING, STRING) : w \in Word
  BY <1>1 DEF Words, Word, Text
<1>4. Len(args) \in Nat /\ \A k \in 1 .. Len(args) : args[k] \in Word
  BY <1>3, LenProperties, ElementOfSeq
<1>5. args \in Seq(Word)
  BY <1>4, LenProperties, SeqDef
<1>6. Unparsed \in Acc
  <2>1. <<>> \in Seq(Text) /\ <<>> \in Seq(Word)
    BY EmptySeq
  <2> QED
    BY <1>2, <2>1 DEF Unparsed, Acc
<1> QED
  BY <1>1, <1>2, <1>4, <1>5, <1>6

\* Word w of a line that is not refused: a value, an --input to come, an --input
\* with its value, a file, or a flag.
Parsed(acc, w, res) ==
    \/ acc.wants # Nothing /\ res.given = Append(acc.given, w) /\ res.wants = Nothing /\ res.paths = acc.paths
    \/ /\ acc.wants = Nothing /\ res.given = acc.given /\ res.paths = acc.paths
       /\ w.opt = "--input" /\ w.eq = FALSE /\ res.wants = w
    \/ /\ acc.wants = Nothing /\ res.wants = Nothing /\ res.paths = acc.paths
       /\ w.opt = "--input" /\ w.eq = TRUE /\ res.given = Append(acc.given, [Nothing EXCEPT !.text = w.text])
    \/ /\ acc.wants = Nothing /\ res.wants = Nothing /\ res.given = acc.given
       /\ w.opt = Empty /\ res.paths = Append(acc.paths, w.text)
    \/ /\ acc.wants = Nothing /\ res.wants = Nothing /\ res.given = acc.given /\ res.paths = acc.paths
       /\ w.opt \notin {Empty, "--input"}

\* One word of run's arguments.
LEMMA RunWordStep ==
  ASSUME NEW acc \in Acc, NEW w \in Word, Nothing \in Word, Empty \in Text, Empty # "--input",
         Empty \notin {"--detect-mutation", "--inline"}
  PROVE  /\ RunWord(acc, w) \in Acc
         /\ RunWord(acc, w).bad = FALSE => acc.bad = FALSE /\ Parsed(acc, w, RunWord(acc, w))
<1>a. /\ acc.paths \in Seq(Text) /\ acc.given \in Seq(Word) /\ acc.options \in SUBSET (Text \X Text)
      /\ acc.wants \in Word /\ acc.bad \in BOOLEAN
      /\ acc = [paths |-> acc.paths, given |-> acc.given, options |-> acc.options,
                wants |-> acc.wants, bad |-> acc.bad]
  BY DEF Acc
<1>w. w.opt \in Text /\ w.eq \in BOOLEAN /\ w.text \in Text
  BY DEF Word
<1> DEFINE v == [Nothing EXCEPT !.text = w.text]
<1>v. v \in Word
  BY <1>w DEF Word
<1>p. /\ Append(acc.paths, w.text) \in Seq(Text) /\ Append(acc.given, w) \in Seq(Word)
      /\ Append(acc.given, v) \in Seq(Word)
      /\ acc.options \cup {<<w.opt, Empty>>} \in SUBSET (Text \X Text)
  <2> HIDE DEF v
  <2>1. /\ Append(acc.paths, w.text) \in Seq(Text) /\ Append(acc.given, w) \in Seq(Word)
        /\ Append(acc.given, v) \in Seq(Word)
    BY <1>a, <1>v, <1>w, AppendProperties
  <2>2. acc.options \cup {<<w.opt, Empty>>} \in SUBSET (Text \X Text)
    BY <1>a, <1>w
  <2> QED
    BY <2>1, <2>2
<1> HIDE DEF v
<1>1. CASE acc.bad = TRUE
  <2>1. RunWord(acc, w) = acc
    BY <1>1 DEF RunWord
  <2> QED
    BY <1>1, <2>1
<1>2. CASE acc.bad = FALSE /\ acc.wants # Nothing
  <2>1. RunWord(acc, w) = [acc EXCEPT !.given = Append(acc.given, w), !.wants = Nothing]
    BY <1>2 DEF RunWord
  <2> QED
    BY <1>2, <1>a, <1>p, <2>1 DEF Acc, Parsed
<1>3. CASE acc.bad = FALSE /\ acc.wants = Nothing /\ w.opt = "--input" /\ w.eq = FALSE
  <2>1. RunWord(acc, w) = [acc EXCEPT !.wants = w]
    BY <1>3 DEF RunWord
  <2> QED
    BY <1>3, <1>a, <1>p, <2>1 DEF Acc, Parsed
<1>4. CASE acc.bad = FALSE /\ acc.wants = Nothing /\ w.opt = "--input" /\ w.eq = TRUE
  <2>1. RunWord(acc, w) = [acc EXCEPT !.given = Append(acc.given, v)]
    BY <1>4 DEF RunWord, v
  <2> QED
    BY <1>4, <1>a, <1>p, <2>1 DEF Acc, Parsed, v
<1>5. CASE acc.bad = FALSE /\ acc.wants = Nothing /\ w.opt = Empty
  <2>1. RunWord(acc, w) = [acc EXCEPT !.paths = Append(acc.paths, w.text)]
    BY <1>5 DEF RunWord
  <2> QED
    BY <1>5, <1>a, <1>p, <2>1 DEF Acc, Parsed
<1>6. CASE acc.bad = FALSE /\ acc.wants = Nothing /\ w.opt \notin {Empty, "--input"}
  <2>1. \/ RunWord(acc, w) = [acc EXCEPT !.options = acc.options \cup {<<w.opt, Empty>>}]
        \/ RunWord(acc, w) = [acc EXCEPT !.bad = TRUE]
    BY <1>6 DEF RunWord
  <2> QED
    BY <1>6, <1>a, <1>p, <2>1 DEF Acc, Parsed
<1> QED
  BY <1>1, <1>2, <1>3, <1>4, <1>5, <1>6, <1>a, <1>w

\* A number is odd exactly when the next is even.
LEMMA Parity ==
  ASSUME NEW n \in Nat
  PROVE  n % 2 \in {0, 1} /\ ((n + 1) % 2 = 1 <=> n % 2 = 0)
  OBVIOUS

\* A word is the value of an --input exactly when the word before it is a bare
\* --input that is no value itself.
LEMMA ValueAfter ==
  ASSUME NEW k \in Nat, k >= 1, ~Bare(1)
  PROVE  IsValue(k + 1) <=> Bare(k) /\ ~IsValue(k)
<1> DEFINE Run(x, n) == n % 2 = 1 /\ (\A j \in x - n .. x - 1 : Bare(j)) /\ ~Bare(x - n - 1)
<1>v. \A x \in Nat : IsValue(x) <=> \E n \in 1 .. x - 2 : Run(x, n)
  BY DEF IsValue
<1>1. ASSUME NEW n \in 1 .. k - 1, Run(k + 1, n), NEW m \in 1 .. k - 2, Run(k, m)
      PROVE  FALSE
  <2>1. \A j \in (k + 1) - n .. k : Bare(j)
    BY <1>1
  <2>2. ~Bare(k - n)
    <3>1. (k + 1) - n - 1 = k - n
      OBVIOUS
    <3> QED
      BY <1>1, <3>1
  <2>3. (\A j \in k - m .. k - 1 : Bare(j)) /\ ~Bare(k - m - 1)
    BY <1>1
  <2>4. n > m
    BY <2>2, <2>3
  <2>5. n <= m + 1
    BY <2>1, <2>3
  <2>6. n = m + 1 /\ n % 2 = 1 /\ m % 2 = 1
    BY <1>1, <2>4, <2>5
  <2> QED
    BY <2>6, Parity
<1>2. ASSUME IsValue(k + 1) PROVE Bare(k) /\ ~IsValue(k)
  <2>1. PICK n \in 1 .. k - 1 : Run(k + 1, n)
    BY <1>2, <1>v
  <2>2. Bare(k)
    <3>1. k \in (k + 1) - n .. (k + 1) - 1
      OBVIOUS
    <3> QED
      BY <2>1, <3>1
  <2>3. ~IsValue(k)
    <3> HIDE DEF Run
    <3> QED
      BY <1>1, <1>v, <2>1
  <2> QED
    BY <2>2, <2>3
<1>3. ASSUME Bare(k), ~IsValue(k) PROVE IsValue(k + 1)
  <2> DEFINE T == {d \in 0 .. k - 1 : ~Bare(k - d)}
  <2>1. k - 1 \in T
    <3>1. k - (k - 1) = 1 /\ k - 1 \in 0 .. k - 1
      OBVIOUS
    <3> QED
      BY <3>1
  <2>2. T \in SUBSET Nat /\ T # {}
    BY <2>1
  <2>3. PICK n \in T : \A d \in T : n <= d
    BY <2>2, LeastNat
  <2>4. n \in 1 .. k - 1 /\ ~Bare(k - n)
    <3>1. n # 0
      BY <1>3, <2>3
    <3> QED
      BY <2>3, <3>1
  <2>5. \A j \in (k - n) + 1 .. k : Bare(j)
    <3> SUFFICES ASSUME NEW j \in (k - n) + 1 .. k, ~Bare(j) PROVE FALSE
      OBVIOUS
    <3>1. k - j \in 0 .. k - 1 /\ k - (k - j) = j /\ k - j < n
      BY <2>4
    <3>2. k - j \in T
      BY <3>1
    <3> QED
      BY <2>3, <2>4, <3>1, <3>2
  <2>6. CASE n % 2 = 1
    <3>1. (k + 1) - n = (k - n) + 1 /\ (k + 1) - 1 = k /\ (k + 1) - n - 1 = k - n /\ n \in 1 .. (k + 1) - 2
      BY <2>4
    <3>2. Run(k + 1, n)
      BY <2>4, <2>5, <2>6, <3>1
    <3>3. k + 1 \in Nat
      OBVIOUS
    <3> HIDE DEF Run
    <3> QED
      BY <1>v, <3>1, <3>2, <3>3
  <2>7. CASE n % 2 # 1
    <3> DEFINE m == n - 1
    <3>1. m \in Nat /\ n = m + 1
      BY <2>4
    <3>2. m % 2 = 1
      BY <2>7, <3>1, Parity
    <3>3. m # 0
      <4>1. 0 % 2 = 0
        OBVIOUS
      <4> HIDE DEF m
      <4> QED
        BY <3>2, <4>1
    <3>4. k - m = (k - n) + 1 /\ k - m - 1 = k - n /\ m \in 1 .. k - 2
      BY <2>4, <3>3
    <3>5. \A j \in (k - n) + 1 .. k - 1 : Bare(j)
      BY <2>4, <2>5
    <3> HIDE DEF m
    <3>6. Run(k, m)
      BY <2>4, <3>2, <3>4, <3>5
    <3> HIDE DEF Run
    <3> QED
      BY <1>3, <1>v, <3>4, <3>6
  <2> QED
    BY <2>6, <2>7
<1> QED
  BY <1>2, <1>3

\* A line of run that is not refused.
Accepting == args \in Seq(Words(STRING, STRING)) /\ Verb = "run" /\ ~SplitArgs.bad

\* The parse of such a line, word by word.
LEMMA SplitParsed ==
  ASSUME Accepting
  PROVE  /\ Len(args) \in Nat /\ Len(args) >= 1
         /\ Split[1] = Unparsed
         /\ \A k \in 1 .. Len(args) : Split[k] \in Acc /\ Split[k].bad = FALSE
         /\ \A k \in 2 .. Len(args) : k - 1 \in 1 .. Len(args) /\ Parsed(Split[k - 1], args[k], Split[k])
<1> DEFINE L == Len(args)
<1>w. /\ L \in Nat /\ \A k \in 1 .. L : args[k] \in Word
      /\ Empty \in Text /\ Empty \notin {"--input", "--detect-mutation", "--inline", "run"}
      /\ Nothing \in Word /\ Unparsed \in Acc
  BY WordFacts DEF Accepting
<1>1. L >= 1
  <2>1. args # <<>>
    BY <1>w DEF Accepting, Verb
  <2>2. L # 0
    BY <2>1, EmptySeq DEF Accepting
  <2> QED
    BY <1>w, <2>2
<1>2. Split[1] = Unparsed /\ \A k \in 2 .. L : k - 1 \in 1 .. L /\ Split[k] = RunWord(Split[k - 1], args[k])
  <2>1. Split = [k \in 1 .. L |-> IF k = 1 THEN Unparsed ELSE RunWord(Split[k - 1], args[k])]
    BY <1>w, SplitDef DEF Accepting
  <2> QED
    BY <1>1, <1>w, <2>1
<1>s. SplitArgs = Split[L]
  BY DEF SplitArgs
<1>n. L \in Nat
  BY <1>w
<1> HIDE DEF L
<1>3. ASSUME NEW k \in 2 .. L, Split[k - 1] \in Acc
      PROVE  /\ Split[k] \in Acc
             /\ Split[k].bad = FALSE => Split[k - 1].bad = FALSE /\ Parsed(Split[k - 1], args[k], Split[k])
  <2>1. Split[k] = RunWord(Split[k - 1], args[k]) /\ args[k] \in Word
    BY <1>2, <1>w
  <2>2. /\ RunWord(Split[k - 1], args[k]) \in Acc
        /\ RunWord(Split[k - 1], args[k]).bad = FALSE =>
              Split[k - 1].bad = FALSE /\ Parsed(Split[k - 1], args[k], RunWord(Split[k - 1], args[k]))
    BY <1>3, <1>w, <2>1, RunWordStep
  <2> QED
    BY <2>1, <2>2
<1>4. \A k \in 1 .. L : Split[k] \in Acc
  <2> DEFINE T == {k \in 1 .. L : Split[k] \notin Acc}
  <2>1. SUFFICES ASSUME T # {} PROVE FALSE
    OBVIOUS
  <2>2. T \in SUBSET Nat
    OBVIOUS
  <2>3. PICK k \in T : \A m \in T : k <= m
    BY <2>1, <2>2, LeastNat
  <2>4. k \in 2 .. L /\ k - 1 \in 1 .. L /\ k - 1 \notin T
    BY <1>2, <1>w, <2>3
  <2> QED
    BY <1>3, <2>3, <2>4
<1>5. \A k \in 1 .. L : Split[k].bad = FALSE
  <2> DEFINE T == {d \in 0 .. L - 1 : Split[L - d].bad # FALSE}
  <2>1. T = {}
    <3>1. SUFFICES ASSUME T # {} PROVE FALSE
      OBVIOUS
    <3>2. T \in SUBSET Nat /\ \A d \in T : d \in 0 .. L - 1
      <4>1. \A d \in T : d \in 0 .. L - 1
        OBVIOUS
      <4>2. \A d \in 0 .. L - 1 : d \in Nat
        BY <1>n
      <4> HIDE DEF T
      <4> QED
        BY <4>1, <4>2
    <3>3. PICK d \in T : \A m \in T : d <= m
      BY <3>1, <3>2, LeastNat
    <3>4. d # 0
      <4>1. L - 0 = L
        BY <1>w
      <4>2. Split[L].bad \in BOOLEAN
        <5>1. Split[L] \in Acc
          BY <1>1, <1>4, <1>n
        <5> QED
          BY <5>1 DEF Acc
      <4>3. Split[L].bad = FALSE
        BY <1>s, <4>2, Zenon DEF Accepting
      <4> QED
        BY <3>3, <4>1, <4>3
    <3>5. d - 1 \in 0 .. L - 1 /\ d - 1 \notin T /\ L - (d - 1) = (L - d) + 1
      <4> HIDE DEF T
      <4>1. d \in 0 .. L - 1 /\ d - 1 \in 0 .. L - 1 /\ ~(d <= d - 1) /\ L - (d - 1) = (L - d) + 1
        BY <1>n, <3>2, <3>3, <3>4
      <4> QED
        BY <3>3, <4>1
    <3>6. Split[(L - d) + 1].bad = FALSE
      BY <3>5
    <3>7. (L - d) + 1 \in 2 .. L /\ ((L - d) + 1) - 1 = L - d /\ L - d \in 1 .. L
      BY <1>n, <3>2, <3>3, <3>4
    <3>8. Split[L - d].bad = FALSE
      BY <1>3, <1>4, <3>6, <3>7
    <3> QED
      BY <3>3, <3>8
  <2> SUFFICES ASSUME NEW k \in 1 .. L PROVE Split[k].bad = FALSE
    OBVIOUS
  <2>2. L - k \in 0 .. L - 1 /\ L - (L - k) = k
    BY <1>w
  <2> QED
    BY <2>1, <2>2
<1>6. \A k \in 2 .. L : k - 1 \in 1 .. L /\ Parsed(Split[k - 1], args[k], Split[k])
  <2> SUFFICES ASSUME NEW k \in 2 .. L PROVE k - 1 \in 1 .. L /\ Parsed(Split[k - 1], args[k], Split[k])
    OBVIOUS
  <2>1. k - 1 \in 1 .. L /\ k \in 1 .. L
    BY <1>n
  <2>2. Split[k - 1] \in Acc /\ Split[k].bad = FALSE
    BY <1>4, <1>5, <2>1
  <2> QED
    BY <1>3, <2>1, <2>2
<1> QED
  BY <1>1, <1>2, <1>4, <1>5, <1>6, <1>n DEF L

\* Between words, the parse waits for a value exactly when the next word is one.
LEMMA SplitWants ==
  ASSUME Accepting
  PROVE  /\ ~Bare(1)
         /\ \A k \in 1 .. Len(args) : Split[k].wants # Nothing <=> IsValue(k + 1)
         /\ \A k \in 1 .. Len(args) : IsValue(k + 1) <=> Bare(k) /\ ~IsValue(k)
<1> DEFINE L == Len(args)
<1>p. /\ L \in Nat /\ L >= 1 /\ Split[1] = Unparsed
      /\ \A k \in 2 .. L : k - 1 \in 1 .. L /\ Parsed(Split[k - 1], args[k], Split[k])
  BY SplitParsed
<1>w. /\ \A k \in 1 .. L : args[k] \in Word
      /\ Empty \notin {"--input", "run"} /\ Nothing \in Word /\ Nothing.opt = Empty
  BY WordFacts DEF Accepting
<1>1. ~Bare(1)
  <2>1. Typed(args[1]) = "run"
    BY <1>w DEF Accepting, Verb
  <2>2. args[1].opt # "--input"
    BY <1>w, <2>1 DEF Typed
  <2> QED
    BY <2>2 DEF Bare
<1>2. ASSUME NEW k \in 1 .. L PROVE IsValue(k + 1) <=> Bare(k) /\ ~IsValue(k)
  <2>1. k \in Nat /\ k >= 1
    BY <1>p
  <2> HIDE DEF L
  <2> QED
    BY <1>1, <2>1, ValueAfter
<1> HIDE DEF L
<1>3. ASSUME NEW k \in 2 .. L, Split[k - 1].wants # Nothing <=> IsValue(k)
      PROVE  Split[k].wants # Nothing <=> IsValue(k + 1)
  <2>1. Parsed(Split[k - 1], args[k], Split[k]) /\ args[k] \in Word
    BY <1>p, <1>w
  <2>2. Bare(k) <=> args[k].opt = "--input" /\ args[k].eq = FALSE
    <3>1. args[k].eq \in BOOLEAN
      BY <2>1 DEF Word
    <3> QED
      BY <3>1 DEF Bare
  <2>3. args[k].opt = "--input" => args[k] # Nothing
    BY <1>w
  <2>4. Split[k].wants # Nothing <=> Bare(k) /\ Split[k - 1].wants = Nothing
    BY <1>w, <2>1, <2>2, <2>3 DEF Parsed
  <2>5. IsValue(k + 1) <=> Bare(k) /\ ~IsValue(k)
    BY <1>2, <1>p
  <2> QED
    BY <1>3, <2>4, <2>5
<1>4. \A k \in 1 .. L : Split[k].wants # Nothing <=> IsValue(k + 1)
  <2> DEFINE Good(k) == Split[k].wants # Nothing <=> IsValue(k + 1)
             T == {k \in 1 .. L : ~Good(k)}
  <2>1. Good(1)
    <3>1. Split[1].wants = Nothing
      BY <1>p DEF Unparsed
    <3>2. ~IsValue(1 + 1)
      BY <1>1, <1>2, <1>p
    <3> QED
      BY <3>1, <3>2
  <2>2. ASSUME NEW k \in 2 .. L, Good(k - 1) PROVE Good(k)
    <3>1. (k - 1) + 1 = k
      OBVIOUS
    <3> QED
      BY <1>3, <2>2, <3>1
  <2> HIDE DEF Good
  <2>3. T = {}
    <3>1. SUFFICES ASSUME T # {} PROVE FALSE
      OBVIOUS
    <3>2. T \in SUBSET Nat
      OBVIOUS
    <3>3. PICK k \in T : \A m \in T : k <= m
      BY <3>1, <3>2, LeastNat
    <3>4. k \in 2 .. L /\ k - 1 \notin T /\ k - 1 \in 1 .. L
      BY <1>p, <2>1, <3>3
    <3> QED
      BY <2>2, <3>3, <3>4
  <2> QED
    BY <2>3 DEF Good
<1> QED
  BY <1>1, <1>2, <1>4 DEF L

\* The words up to k that are neither an option nor an option's value.
Plain(k) == {j \in 2 .. k : args[j].opt = Empty /\ ~IsValue(j)}

\* What the parse has found of files after word k.
PathsFit(s, k) ==
    \/ s = <<>> /\ Plain(k) = {}
    \/ Len(s) = 1 /\ \E j \in 2 .. k : Plain(k) = {j} /\ args[j].text = s[1]
    \/ Len(s) > 1

\* The files the parse has found are the plain words.
LEMMA SplitPaths ==
  ASSUME Accepting
  PROVE  PathsFit(SplitArgs.paths, Len(args))
<1> DEFINE L == Len(args)
<1>p. /\ L \in Nat /\ L >= 1 /\ Split[1] = Unparsed
      /\ \A k \in 1 .. L : Split[k] \in Acc
      /\ \A k \in 2 .. L : k - 1 \in 1 .. L /\ Parsed(Split[k - 1], args[k], Split[k])
  BY SplitParsed
<1>w. Empty # "--input" /\ \A k \in 1 .. L : args[k] \in Word
  BY WordFacts DEF Accepting
<1>v. \A k \in 1 .. L : Split[k].wants # Nothing <=> IsValue(k + 1)
  BY SplitWants
<1>s. SplitArgs = Split[L]
  BY DEF SplitArgs
<1> HIDE DEF L
<1>1. PathsFit(Split[1].paths, 1)
  <2>1. Plain(1) = {}
    BY DEF Plain
  <2>2. Split[1].paths = <<>>
    BY <1>p DEF Unparsed
  <2> QED
    BY <2>1, <2>2 DEF PathsFit
<1>2. ASSUME NEW k \in 2 .. L, PathsFit(Split[k - 1].paths, k - 1)
      PROVE  PathsFit(Split[k].paths, k)
  <2> DEFINE s == Split[k - 1].paths
             t == Split[k].paths
  <2>1. Parsed(Split[k - 1], args[k], Split[k]) /\ k - 1 \in 1 .. L /\ k \in 1 .. L
    BY <1>p
  <2>2. Split[k - 1].wants # Nothing <=> IsValue(k)
    <3>1. (k - 1) + 1 = k
      OBVIOUS
    <3> QED
      BY <1>v, <2>1, <3>1
  <2>3. s \in Seq(Text)
    <3>1. Split[k - 1] \in Acc
      BY <1>p, <2>1
    <3> QED
      BY <3>1 DEF Acc
  <2>4. \/ t = s /\ ~(args[k].opt = Empty /\ ~IsValue(k))
        \/ t = Append(s, args[k].text) /\ args[k].opt = Empty /\ ~IsValue(k)
    BY <1>w, <2>1, <2>2 DEF Parsed
  <2>5. Plain(k) = IF args[k].opt = Empty /\ ~IsValue(k) THEN Plain(k - 1) \cup {k} ELSE Plain(k - 1)
    <3>1. \A j : j \in 2 .. k <=> j \in 2 .. k - 1 \/ j = k
      OBVIOUS
    <3> QED
      BY <3>1 DEF Plain
  <2>6. args[k].text \in Text
    BY <1>w, <2>1 DEF Word
  <2>7. PathsFit(s, k - 1)
    BY <1>2
  <2> HIDE DEF s, t
  <2>8. CASE t = s /\ ~(args[k].opt = Empty /\ ~IsValue(k))
    <3>1. \A j \in 2 .. k - 1 : j \in 2 .. k
      OBVIOUS
    <3>2. Plain(k) = Plain(k - 1)
      BY <2>5, <2>8
    <3>3. PathsFit(s, k)
      BY <2>7, <3>1, <3>2 DEF PathsFit
    <3> QED
      BY <2>8, <3>3 DEF t
  <2>9. CASE t = Append(s, args[k].text) /\ args[k].opt = Empty /\ ~IsValue(k)
    <3>1. /\ Len(s) \in Nat /\ Len(t) = Len(s) + 1 /\ t[Len(s) + 1] = args[k].text
      BY <2>3, <2>6, <2>9, AppendProperties, LenProperties
    <3>2. Plain(k) = Plain(k - 1) \cup {k}
      BY <2>5, <2>9
    <3>3. CASE s = <<>> /\ Plain(k - 1) = {}
      <4>1. Len(s) = 0
        BY <3>3, EmptySeq
      <4>2. Len(t) = 1 /\ t[1] = args[k].text
        BY <3>1, <4>1
      <4>3. Plain(k) = {k} /\ k \in 2 .. k
        BY <3>2, <3>3
      <4>4. PathsFit(t, k)
        BY <4>2, <4>3 DEF PathsFit
      <4> QED
        BY <4>4 DEF t
    <3>4. CASE Len(s) >= 1
      <4>1. Len(t) > 1
        BY <3>1, <3>4
      <4>2. PathsFit(t, k)
        BY <4>1 DEF PathsFit
      <4> QED
        BY <4>2 DEF t
    <3>5. \/ s = <<>> /\ Plain(k - 1) = {}
          \/ Len(s) >= 1
      BY <2>7, <3>1 DEF PathsFit
    <3> QED
      BY <3>3, <3>4, <3>5
  <2> QED
    BY <2>4, <2>8, <2>9
<1>3. \A k \in 1 .. L : PathsFit(Split[k].paths, k)
  <2> DEFINE T == {k \in 1 .. L : ~PathsFit(Split[k].paths, k)}
  <2>1. SUFFICES ASSUME T # {} PROVE FALSE
    OBVIOUS
  <2>2. T \in SUBSET Nat
    OBVIOUS
  <2>3. PICK k \in T : \A m \in T : k <= m
    BY <2>1, <2>2, LeastNat
  <2>4. k \in 2 .. L /\ k - 1 \notin T /\ k - 1 \in 1 .. L
    BY <1>1, <1>p, <2>3
  <2> QED
    BY <1>2, <2>3, <2>4
<1> QED
  BY <1>3, <1>p, <1>s DEF L

\* The assignments found so far stay the first of all that are found.
LEMMA SplitGiven ==
  ASSUME Accepting
  PROVE  \A k \in 1 .. Len(args) :
            /\ SplitArgs.given \in Seq(Word) /\ Split[k].given \in Seq(Word)
            /\ Len(Split[k].given) <= Len(SplitArgs.given)
            /\ \A i \in 1 .. Len(Split[k].given) : Split[k].given[i] = SplitArgs.given[i]
<1> DEFINE L == Len(args)
           G(k) == Split[k].given
           Fits(k) == /\ Len(G(k)) <= Len(G(L))
                      /\ \A i \in 1 .. Len(G(k)) : G(k)[i] = G(L)[i]
<1>p. /\ L \in Nat /\ L >= 1
      /\ \A k \in 1 .. L : Split[k] \in Acc
      /\ \A k \in 2 .. L : k - 1 \in 1 .. L /\ Parsed(Split[k - 1], args[k], Split[k])
  BY SplitParsed
<1>w. Nothing \in Word /\ \A k \in 1 .. L : args[k] \in Word
  BY WordFacts DEF Accepting
<1>s. SplitArgs.given = G(L)
  BY DEF SplitArgs
<1> HIDE DEF L
<1>1. \A k \in 1 .. L : G(k) \in Seq(Word) /\ Len(G(k)) \in Nat
  BY <1>p, LenProperties DEF Acc
<1>2. ASSUME NEW k \in 2 .. L
      PROVE  /\ Len(G(k - 1)) <= Len(G(k))
             /\ \A i \in 1 .. Len(G(k - 1)) : G(k - 1)[i] = G(k)[i]
  <2>1. k - 1 \in 1 .. L /\ k \in 1 .. L /\ Parsed(Split[k - 1], args[k], Split[k])
    BY <1>p
  <2>2. G(k - 1) \in Seq(Word) /\ Len(G(k - 1)) \in Nat
    BY <1>1, <2>1
  <2> DEFINE v == [Nothing EXCEPT !.text = args[k].text]
  <2>3. v \in Word /\ args[k] \in Word
    BY <1>w, <2>1 DEF Word
  <2>4. G(k) = G(k - 1) \/ G(k) = Append(G(k - 1), args[k]) \/ G(k) = Append(G(k - 1), v)
    BY <2>1 DEF Parsed
  <2> HIDE DEF v, G
  <2>5. ASSUME NEW u \in Word, G(k) = Append(G(k - 1), u)
        PROVE  /\ Len(G(k - 1)) <= Len(G(k))
               /\ \A i \in 1 .. Len(G(k - 1)) : G(k - 1)[i] = G(k)[i]
    BY <2>2, <2>5, AppendProperties
  <2> QED
    BY <2>2, <2>3, <2>4, <2>5
<1> HIDE DEF G
<1>3. \A d \in 0 .. L - 1 : Fits(L - d)
  <2> DEFINE T == {d \in 0 .. L - 1 : ~Fits(L - d)}
  <2>1. SUFFICES ASSUME T # {} PROVE FALSE
    OBVIOUS
  <2>2. T \in SUBSET Nat /\ \A d \in T : d \in 0 .. L - 1
    <3>1. \A d \in T : d \in 0 .. L - 1
      OBVIOUS
    <3>2. \A d \in 0 .. L - 1 : d \in Nat
      BY <1>p
    <3> HIDE DEF T
    <3> QED
      BY <3>1, <3>2
  <2>3. PICK d \in T : \A m \in T : d <= m
    BY <2>1, <2>2, LeastNat
  <2>4. d # 0
    <3>1. L - 0 = L
      BY <1>p
    <3>2. Fits(L)
      <4>1. L \in 1 .. L
        BY <1>p
      <4> QED
        BY <1>1, <4>1
    <3> HIDE DEF Fits
    <3> QED
      BY <2>3, <3>1, <3>2
  <2>5. d - 1 \in 0 .. L - 1 /\ L - (d - 1) = (L - d) + 1 /\ ~(d <= d - 1)
    BY <1>p, <2>2, <2>3, <2>4
  <2>6. Fits((L - d) + 1)
    <3> HIDE DEF Fits
    <3> QED
      BY <2>3, <2>5
  <2> DEFINE k == (L - d) + 1
  <2>7. k \in 2 .. L /\ k - 1 = L - d /\ k - 1 \in 1 .. L /\ k \in 1 .. L /\ L \in 1 .. L
    BY <1>p, <2>2, <2>3, <2>4
  <2> HIDE DEF k
  <2>8. /\ Len(G(k - 1)) <= Len(G(k)) /\ \A i \in 1 .. Len(G(k - 1)) : G(k - 1)[i] = G(k)[i]
    BY <1>2, <2>7
  <2>9. Fits(k)
    BY <2>6 DEF k
  <2>10. Len(G(k)) \in Nat /\ Len(G(k - 1)) \in Nat /\ Len(G(L)) \in Nat
    BY <1>1, <2>7
  <2>11. Fits(k - 1)
    BY <2>8, <2>9, <2>10
  <2> HIDE DEF Fits
  <2> QED
    BY <2>3, <2>7, <2>11
<1>4. ASSUME NEW k \in 1 .. L PROVE Fits(k)
  <2>1. L - k \in 0 .. L - 1 /\ L - (L - k) = k
    BY <1>p
  <2> HIDE DEF Fits
  <2> QED
    BY <1>3, <2>1
<1>5. L \in 1 .. L
  BY <1>p
<1>6. \A k \in 1 .. L : G(k) \in Seq(Word) /\ G(L) \in Seq(Word) /\ Fits(k)
  <2> HIDE DEF Fits
  <2> QED
    BY <1>1, <1>4, <1>5
<1> QED
  BY <1>6, <1>s DEF L, G

\* If the last assignment is not refused, none is, and each sets a new input.
LEMMA BuiltStep ==
  ASSUME Len(given) \in Nat, Built[Len(given)].ok
  PROVE  /\ Built[0].values = <<>>
         /\ \A m \in 1 .. Len(given) :
               /\ given[m].opt = Empty /\ given[m].text \in DOMAIN Assignments
               /\ Assignments[given[m].text].name \notin DOMAIN Built[m - 1].values
               /\ Built[m].values = With(Built[m - 1].values, Assignments[given[m].text].name,
                                         Literal(Assignments[given[m].text]))
<1> DEFINE N == Len(given)
<1>b. Built[0] = [ok |-> TRUE, values |-> <<>>] /\ \A m \in 1 .. N : Built[m] = Assign(Built[m - 1], given[m])
  BY BuiltDef
<1>t. \A m \in 0 .. N : \E b \in BOOLEAN : \E f : Built[m] = [ok |-> b, values |-> f]
  BY BuiltNames
<1>n. N \in Nat
  OBVIOUS
<1>k. Built[N].ok = TRUE
  <2>1. N \in 0 .. N
    BY <1>n
  <2>2b. PICK b \in BOOLEAN : \E f :
           Built[N] = [ok |-> b, values |-> f]
    BY <1>t, <2>1
  <2>2. PICK f :
           Built[N] = [ok |-> b, values |-> f]
    BY <2>2b
  <2>3. Built[N].ok = b
    BY <2>2
  <2>4. b
    BY <2>3
  <2> QED
    BY <2>3, <2>4
<1> HIDE DEF N
<1>1. ASSUME NEW m \in 1 .. N, Built[m].ok = TRUE
      PROVE  Built[m - 1].ok = TRUE /\ Assigned(Built[m - 1].values, given[m], Built[m])
  <2>1. m - 1 \in 0 .. N
    BY <1>n
  <2>2b. PICK b \in BOOLEAN : \E f :
           Built[m - 1] = [ok |-> b, values |-> f]
    BY <1>t, <2>1
  <2>2. PICK f :
           Built[m - 1] = [ok |-> b, values |-> f]
    BY <2>2b
  <2>3. Built[m] = Assign([ok |-> b, values |-> f], given[m])
    BY <1>b, <2>2
  <2>4. /\ Assigned(f, given[m], Built[m])
        /\ b = FALSE => Built[m] = [ok |-> FALSE, values |-> f]
    <3>1. /\ Assigned(f, given[m], Assign([ok |-> b, values |-> f], given[m]))
          /\ b = FALSE => Assign([ok |-> b, values |-> f], given[m]) = [ok |-> FALSE, values |-> f]
      BY AssignStep
    <3> QED
      BY <2>3, <3>1
  <2>5. b = TRUE
    BY <1>1, <2>4
  <2>6. Built[m - 1].ok = b /\ Built[m - 1].values = f
    BY <2>2
  <2> QED
    BY <2>4, <2>5, <2>6
<1>2. \A d \in 0 .. N : Built[N - d].ok = TRUE
  <2> DEFINE T == {d \in 0 .. N : Built[N - d].ok # TRUE}
  <2>1. SUFFICES ASSUME T # {} PROVE FALSE
    OBVIOUS
  <2>2. T \in SUBSET Nat /\ \A d \in T : d \in 0 .. N
    <3>1. \A d \in T : d \in 0 .. N
      OBVIOUS
    <3>2. \A d \in 0 .. N : d \in Nat
      BY <1>n
    <3> HIDE DEF T
    <3> QED
      BY <3>1, <3>2
  <2>3. PICK d \in T : \A m \in T : d <= m
    BY <2>1, <2>2, LeastNat
  <2>4. d # 0
    <3>1. N - 0 = N
      BY <1>n
    <3> QED
      BY <1>k, <2>3, <3>1
  <2>5. d - 1 \in 0 .. N /\ N - (d - 1) = (N - d) + 1 /\ ~(d <= d - 1)
    BY <1>n, <2>2, <2>3, <2>4
  <2>6. Built[(N - d) + 1].ok = TRUE
    BY <2>3, <2>5
  <2>7. (N - d) + 1 \in 1 .. N /\ ((N - d) + 1) - 1 = N - d
    BY <1>n, <2>2, <2>3, <2>4
  <2>8. Built[N - d].ok = TRUE
    BY <1>1, <2>6, <2>7
  <2> QED
    BY <2>3, <2>8
<1>3. ASSUME NEW m \in 1 .. N
      PROVE  Built[m].ok = TRUE /\ Assigned(Built[m - 1].values, given[m], Built[m])
  <2>1. N - m \in 0 .. N /\ N - (N - m) = m
    BY <1>n
  <2>2. Built[m].ok = TRUE
    BY <1>2, <2>1
  <2> QED
    BY <1>1, <2>2
<1>4. Built[0].values = <<>>
  BY <1>b
<1>5. ASSUME NEW m \in 1 .. N
      PROVE  /\ given[m].opt = Empty /\ given[m].text \in DOMAIN Assignments
             /\ Assignments[given[m].text].name \notin DOMAIN Built[m - 1].values
             /\ Built[m].values = With(Built[m - 1].values, Assignments[given[m].text].name,
                                       Literal(Assignments[given[m].text]))
  <2>1. Built[m].ok = TRUE /\ Assigned(Built[m - 1].values, given[m], Built[m])
    BY <1>3
  <2> QED
    BY <2>1 DEF Assigned
<1> QED
  BY <1>4, <1>5 DEF N

\* Word k, by its place, gives an input its value.
Gives(k) == IF IsValue(k) THEN args[k].opt = Empty ELSE args[k].opt = "--input" /\ args[k].eq
Upto(n, k) == {j \in Supplying(n) : j <= k}

\* The inputs vs have their values from the first k words, each from one of them.
Supplied(vs, k) ==
    \A n : IF n \in DOMAIN vs
             THEN \E j \in 2 .. k : Upto(n, k) = {j} /\ vs[n] = Literal(Assignments[args[j].text])
             ELSE Upto(n, k) = {}

\* A word that gives nothing changes nothing.
LEMMA SuppliedSame ==
  ASSUME NEW k \in Nat, k >= 2, ~Gives(k), NEW vs, Supplied(vs, k - 1)
  PROVE  Supplied(vs, k)
<1>1. ASSUME NEW n PROVE Upto(n, k) = Upto(n, k - 1)
  <2>1. k \notin Supplying(n)
    BY DEF Supplying, Gives
  <2>2. \A j \in Supplying(n) : j \in Nat
    BY DEF Supplying
  <2>3. \A j \in Supplying(n) : j <= k <=> j <= k - 1
    BY <2>1, <2>2
  <2> QED
    BY <2>3 DEF Upto
<1>2. \A j \in 2 .. k - 1 : j \in 2 .. k
  OBVIOUS
<1> QED
  BY <1>1, <1>2 DEF Supplied

\* A word that gives an input its first value.
LEMMA SuppliedMore ==
  ASSUME NEW k \in 2 .. Len(args), Len(args) \in Nat, Gives(k), args[k].text \in DOMAIN Assignments,
         NEW vs, Supplied(vs, k - 1), Assignments[args[k].text].name \notin DOMAIN vs
  PROVE  Supplied(With(vs, Assignments[args[k].text].name, Literal(Assignments[args[k].text])), k)
<1> DEFINE a == Assignments[args[k].text]
           us == With(vs, a.name, Literal(a))
<1>1. \A n : k \in Supplying(n) <=> n = a.name
  BY DEF Supplying, Gives
<1>2. \A n : \A j \in Supplying(n) : j \in Nat
  BY DEF Supplying
<1>3. /\ DOMAIN us = DOMAIN vs \cup {a.name} /\ us[a.name] = Literal(a)
      /\ \A n \in DOMAIN vs : us[n] = vs[n]
  BY DEF With
<1>4. ASSUME NEW n PROVE Upto(n, k) = IF n = a.name THEN Upto(n, k - 1) \cup {k} ELSE Upto(n, k - 1)
  <2>1. \A j \in Supplying(n) : j <= k <=> j <= k - 1 \/ j = k
    BY <1>2
  <2>2. k <= k
    OBVIOUS
  <2> HIDE DEF a
  <2> QED
    BY <1>1, <2>1, <2>2 DEF Upto
<1>5. k \in 2 .. k /\ \A j \in 2 .. k - 1 : j \in 2 .. k
  OBVIOUS
<1>6. a = Assignments[args[k].text]
  OBVIOUS
<1>7. a.name \notin DOMAIN vs
  OBVIOUS
<1> HIDE DEF a, us
<1>8. ASSUME NEW n
      PROVE  IF n \in DOMAIN us
               THEN \E j \in 2 .. k : Upto(n, k) = {j} /\ us[n] = Literal(Assignments[args[j].text])
               ELSE Upto(n, k) = {}
  <2>1. CASE n = a.name
    <3>1. Upto(n, k - 1) = {}
      BY <1>7, <2>1 DEF Supplied
    <3>2. Upto(n, k) = {k}
      BY <1>4, <2>1, <3>1
    <3>3. n \in DOMAIN us /\ us[n] = Literal(Assignments[args[k].text])
      BY <1>3, <1>6, <2>1
    <3> QED
      BY <1>5, <3>2, <3>3
  <2>2. CASE n # a.name
    <3>1. Upto(n, k) = Upto(n, k - 1) /\ (n \in DOMAIN us <=> n \in DOMAIN vs)
      BY <1>3, <1>4, <2>2
    <3>2. IF n \in DOMAIN vs
            THEN \E j \in 2 .. k - 1 : Upto(n, k - 1) = {j} /\ vs[n] = Literal(Assignments[args[j].text])
            ELSE Upto(n, k - 1) = {}
      BY DEF Supplied
    <3> QED
      BY <1>3, <1>5, <3>1, <3>2
  <2> QED
    BY <2>1, <2>2
<1> QED
  BY <1>8 DEF Supplied, us, a

\* Each input of a run comes from the one word that supplies it.
LEMMA AllSupplied ==
  ASSUME Accepting, given = SplitArgs.given, Built[Len(given)].ok
  PROVE  Supplied(Built[Len(given)].values, Len(args))
<1> DEFINE L == Len(args)
           G(k) == Split[k].given
           V(k) == Built[Len(G(k))].values
<1>p. /\ L \in Nat /\ L >= 1 /\ Split[1] = Unparsed
      /\ \A k \in 2 .. L : k - 1 \in 1 .. L /\ Parsed(Split[k - 1], args[k], Split[k])
  BY SplitParsed
<1>w. Nothing \in Word /\ Nothing.opt = Empty /\ Empty # "--input" /\ \A k \in 1 .. L : args[k] \in Word
  BY WordFacts DEF Accepting
<1>g. \A k \in 1 .. L : /\ given \in Seq(Word) /\ G(k) \in Seq(Word) /\ Len(G(k)) <= Len(given)
                        /\ \A i \in 1 .. Len(G(k)) : G(k)[i] = given[i]
  BY SplitGiven
<1>l. G(L) = given
  BY DEF SplitArgs
<1>v. \A k \in 1 .. L : Split[k].wants # Nothing <=> IsValue(k + 1)
  BY SplitWants
<1> HIDE DEF L
<1>n. Len(given) \in Nat /\ \A k \in 1 .. L : Len(G(k)) \in Nat
  <2>1. given \in Seq(Word)
    BY <1>g, <1>p
  <2> QED
    BY <1>g, <2>1, LenProperties
<1>b. /\ Built[0].values = <<>>
      /\ \A m \in 1 .. Len(given) :
            /\ given[m].opt = Empty /\ given[m].text \in DOMAIN Assignments
            /\ Assignments[given[m].text].name \notin DOMAIN Built[m - 1].values
            /\ Built[m].values = With(Built[m - 1].values, Assignments[given[m].text].name,
                                      Literal(Assignments[given[m].text]))
  BY <1>n, BuiltStep
<1>1. Supplied(V(1), 1)
  <2>1. G(1) = <<>>
    BY <1>p DEF Unparsed
  <2>2. Len(G(1)) = 0
    BY <2>1, EmptySeq
  <2>3. V(1) = <<>>
    BY <1>b, <2>2
  <2>4. DOMAIN V(1) = {}
    BY <2>3
  <2>5. ASSUME NEW n PROVE Upto(n, 1) = {}
    <3>1. \A j \in Supplying(n) : j \in 2 .. Len(args)
      BY DEF Supplying
    <3>2. \A j \in 2 .. Len(args) : ~(j <= 1)
      BY <1>p DEF L
    <3> QED
      BY <3>1, <3>2 DEF Upto
  <2> HIDE DEF V
  <2> QED
    BY <2>4, <2>5 DEF Supplied
<1>2. ASSUME NEW k \in 2 .. L, Supplied(V(k - 1), k - 1)
      PROVE  Supplied(V(k), k)
  <2>1. k - 1 \in 1 .. L /\ k \in 1 .. L /\ Parsed(Split[k - 1], args[k], Split[k]) /\ args[k] \in Word
    BY <1>p, <1>w
  <2>2. Split[k - 1].wants # Nothing <=> IsValue(k)
    <3>1. (k - 1) + 1 = k
      OBVIOUS
    <3> QED
      BY <1>v, <2>1, <3>1
  <2> DEFINE v == [Nothing EXCEPT !.text = args[k].text]
  <2>3. v \in Word /\ v.text = args[k].text
    BY <1>w, <2>1 DEF Word
  <2>e. args[k].eq \in BOOLEAN
    BY <2>1 DEF Word
  <2>4. \/ G(k) = G(k - 1) /\ ~Gives(k)
        \/ G(k) = Append(G(k - 1), args[k]) /\ (args[k].opt = Empty => Gives(k))
        \/ G(k) = Append(G(k - 1), v) /\ Gives(k)
    BY <1>w, <2>1, <2>2, <2>e DEF Parsed, Gives
  <2> HIDE DEF v, G
  <2>5. CASE G(k) = G(k - 1) /\ ~Gives(k)
    <3>1. k \in Nat /\ k >= 2
      BY <1>p
    <3>2. V(k) = V(k - 1)
      BY <2>5
    <3> HIDE DEF V
    <3> QED
      BY <1>2, <2>5, <3>1, <3>2, SuppliedSame
  <2>6. ASSUME NEW u \in Word, u.text = args[k].text, G(k) = Append(G(k - 1), u), u.opt = Empty => Gives(k)
        PROVE  Supplied(V(k), k)
    <3> DEFINE m == Len(G(k - 1)) + 1
    <3>1. /\ Len(G(k - 1)) \in Nat /\ Len(G(k)) = m /\ G(k)[m] = u
      BY <1>g, <1>n, <2>1, <2>6, AppendProperties
    <3>2. m \in 1 .. Len(given) /\ given[m] = u /\ m - 1 = Len(G(k - 1))
      <4>1. Len(G(k)) <= Len(given) /\ \A i \in 1 .. Len(G(k)) : G(k)[i] = given[i]
        BY <1>g, <2>1
      <4>2. m \in 1 .. Len(G(k)) /\ m \in 1 .. Len(given) /\ m - 1 = Len(G(k - 1))
        BY <1>n, <3>1, <4>1
      <4> QED
        BY <3>1, <4>1, <4>2
    <3> HIDE DEF m
    <3>3. /\ u.opt = Empty /\ u.text \in DOMAIN Assignments
          /\ Assignments[u.text].name \notin DOMAIN Built[m - 1].values
          /\ Built[m].values = With(Built[m - 1].values, Assignments[u.text].name, Literal(Assignments[u.text]))
      BY <1>b, <3>2
    <3>4. V(k - 1) = Built[m - 1].values /\ V(k) = Built[m].values
      BY <3>1, <3>2
    <3> HIDE DEF V
    <3>5. /\ Gives(k) /\ args[k].text \in DOMAIN Assignments
          /\ Assignments[args[k].text].name \notin DOMAIN V(k - 1)
          /\ V(k) = With(V(k - 1), Assignments[args[k].text].name, Literal(Assignments[args[k].text]))
      BY <2>6, <3>3, <3>4
    <3>6. Supplied(With(V(k - 1), Assignments[args[k].text].name, Literal(Assignments[args[k].text])), k)
      BY <1>2, <1>p, <3>5, SuppliedMore DEF L
    <3> QED
      BY <3>5, <3>6
  <2> QED
    BY <2>1, <2>3, <2>4, <2>5, <2>6
<1>3. \A k \in 1 .. L : Supplied(V(k), k)
  <2> HIDE DEF V
  <2> DEFINE T == {k \in 1 .. L : ~Supplied(V(k), k)}
  <2>1. SUFFICES ASSUME T # {} PROVE FALSE
    OBVIOUS
  <2>2. T \in SUBSET Nat
    OBVIOUS
  <2>3. PICK k \in T : \A m \in T : k <= m
    BY <2>1, <2>2, LeastNat
  <2>4. k \in 2 .. L /\ k - 1 \notin T /\ k - 1 \in 1 .. L
    BY <1>1, <1>p, <2>3
  <2> QED
    BY <1>2, <2>3, <2>4
<1>4. Supplied(V(L), L)
  <2> HIDE DEF V
  <2>1. L \in 1 .. L
    BY <1>p
  <2> QED
    BY <1>3, <2>1
<1> QED
  BY <1>4, <1>l DEF L

-----------------------------------------------------------------------------
(* What the invariants say of a command and its exit status.               *)

\* A run is of a line that was accepted and of the assignments it makes.
LEMMA RunAccepted ==
  ASSUME CliInv, at \in {"binding", "running"} \/ outcome # "none"
  PROVE  /\ Accepting /\ given = SplitArgs.given /\ path = SplitArgs.paths[1]
         /\ SplitArgs.wants = Nothing /\ Len(SplitArgs.paths) = 1
         /\ Compiles /\ Len(given) \in Nat
<1>1. /\ args \in Seq(Words(STRING, STRING)) /\ StageInv /\ InputsInv
  BY DEF CliInv
<1>2. Verb = "run"
  BY <1>1 DEF StageInv
<1>3. WellFormed(SplitArgs) /\ path = SplitArgs.paths[1] /\ given = SplitArgs.given /\ Compiles
  BY <1>1 DEF InputsInv
<1>4. Accepting /\ SplitArgs.wants = Nothing /\ Len(SplitArgs.paths) = 1
  BY <1>1, <1>2, <1>3 DEF Accepting, WellFormed
<1>5. Len(args) \in Nat /\ Len(args) >= 1
  BY <1>4, SplitParsed
<1>6. SplitArgs.given \in Seq(Word)
  BY <1>4, <1>5, SplitGiven
<1> QED
  BY <1>3, <1>4, <1>6, LenProperties

\* The invariants say that the types hold.
LEMMA InvCliTypeOK == LoadInv /\ CliInv => CliTypeOK
<1> SUFFICES ASSUME LoadInv, CliInv PROVE CliTypeOK
  OBVIOUS
<1>1. TypeOK
  BY TypeFromParts DEF LoadInv
<1>2. StatusOK
  BY DEF CliInv
<1>3. ASSUME at = "running" PROVE path \in DOMAIN Plans /\ DOMAIN values \subseteq DOMAIN Plans[path].inputs
  <2>1. Compiles /\ Len(given) \in Nat
    BY <1>3, RunAccepted
  <2>2. values = Built[Len(given)].values
    BY <1>3 DEF CliInv, InputsInv
  <2>3. Len(given) \in 0 .. Len(given)
    BY <2>1
  <2>4b. PICK b \in BOOLEAN : \E f :
           Built[Len(given)] = [ok |-> b, values |-> f] /\ DOMAIN f \subseteq DOMAIN Plans[path].inputs
    BY <2>1, <2>3, BuiltNames
  <2>4. PICK f :
           Built[Len(given)] = [ok |-> b, values |-> f] /\ DOMAIN f \subseteq DOMAIN Plans[path].inputs
    BY <2>4b
  <2> QED
    BY <2>1, <2>2, <2>4 DEF Compiles
<1> QED
  BY <1>1, <1>2, <1>3 DEF CliTypeOK

\* The invariants say that the exit status is truthful.
LEMMA InvExitTruthful == LoadInv /\ CliInv => ExitTruthful
<1> SUFFICES ASSUME LoadInv, CliInv PROVE ExitTruthful
  OBVIOUS
<1>c. StageInv /\ InputsInv
  BY DEF CliInv
<1>1. ASSUME at = "exited", exit = 2, phase # "panicked" PROVE outcome = "none" /\ mux = {}
  <2>1. outcome = "none"
    BY <1>1, <1>c DEF StageInv
  <2>2. phase \in {"read", "claims", "loaded"}
    BY <1>1, <1>c DEF StageInv, LoadInv, ControlOK
  <2> QED
    BY <2>1, <2>2 DEF LoadInv, RoutesInv
<1>2. ASSUME at = "exited", outcome # "none"
      PROVE  /\ exit = 0 => DOMAIN values = DOMAIN Plans[path].inputs /\ outcome = "ok"
             /\ \A n \in {Assignments[t].name : t \in DOMAIN Assignments} :
                   IF n \in DOMAIN values
                     THEN \E k \in Supplying(n) :
                             Supplying(n) = {k} /\ values[n] = Literal(Assignments[args[k].text])
                     ELSE Supplying(n) = {}
             /\ \E k \in 2 .. Len(args) :
                   /\ {j \in 2 .. Len(args) : args[j].opt = Empty /\ ~IsValue(j)} = {k}
                   /\ args[k].text = path
             /\ Bare(Len(args)) => IsValue(Len(args))
  <2>r. /\ Accepting /\ given = SplitArgs.given /\ path = SplitArgs.paths[1]
        /\ SplitArgs.wants = Nothing /\ Len(SplitArgs.paths) = 1 /\ Len(given) \in Nat
    BY <1>2, RunAccepted
  <2>b. Built[Len(given)].ok /\ values = Built[Len(given)].values
    BY <1>2, <1>c DEF InputsInv
  <2>l. Len(args) \in Nat /\ Len(args) >= 1 /\ Len(args) \in 1 .. Len(args)
    BY <2>r, SplitParsed
  <2>1. ASSUME exit = 0 PROVE DOMAIN values = DOMAIN Plans[path].inputs /\ outcome = "ok"
    <3>1. outcome = "ok" /\ DOMAIN Plans[path].inputs \subseteq DOMAIN values
      BY <1>2, <1>c, <2>1 DEF InputsInv
    <3>2. Len(given) \in 0 .. Len(given)
      BY <2>r
    <3>3b. PICK b \in BOOLEAN : \E f :
             Built[Len(given)] = [ok |-> b, values |-> f] /\ DOMAIN f \subseteq DOMAIN Plans[path].inputs
      BY <2>r, <3>2, BuiltNames
    <3>3. PICK f :
             Built[Len(given)] = [ok |-> b, values |-> f] /\ DOMAIN f \subseteq DOMAIN Plans[path].inputs
      BY <3>3b
    <3>4. values = f
      BY <2>b, <3>3
    <3> QED
      BY <3>1, <3>3, <3>4
  <2>2. ASSUME NEW n
        PROVE  IF n \in DOMAIN values
                 THEN \E k \in Supplying(n) :
                         Supplying(n) = {k} /\ values[n] = Literal(Assignments[args[k].text])
                 ELSE Supplying(n) = {}
    <3>1. Supplied(values, Len(args))
      BY <2>b, <2>r, AllSupplied
    <3>2. Upto(n, Len(args)) = Supplying(n)
      <4>1. \A j \in Supplying(n) : j \in 2 .. Len(args)
        BY DEF Supplying
      <4>2. \A j \in 2 .. Len(args) : j <= Len(args)
        BY <2>l
      <4> QED
        BY <4>1, <4>2 DEF Upto
    <3>3. IF n \in DOMAIN values
            THEN \E j \in 2 .. Len(args) :
                    Supplying(n) = {j} /\ values[n] = Literal(Assignments[args[j].text])
            ELSE Supplying(n) = {}
      BY <3>1, <3>2 DEF Supplied
    <3> QED
      BY <3>3
  <2>3. \E k \in 2 .. Len(args) :
           /\ {j \in 2 .. Len(args) : args[j].opt = Empty /\ ~IsValue(j)} = {k}
           /\ args[k].text = path
    <3>1. PathsFit(SplitArgs.paths, Len(args))
      BY <2>r, SplitPaths
    <3>2. SplitArgs.paths # <<>> /\ ~(Len(SplitArgs.paths) > 1)
      <4>1. Len(<<>>) = 0
        BY EmptySeq
      <4> QED
        BY <2>r, <4>1
    <3>3. PICK k \in 2 .. Len(args) : Plain(Len(args)) = {k} /\ args[k].text = SplitArgs.paths[1]
      BY <3>1, <3>2 DEF PathsFit
    <3> QED
      BY <2>r, <3>3 DEF Plain
  <2>4. Bare(Len(args)) => IsValue(Len(args))
    <3>1. /\ Split[Len(args)].wants # Nothing <=> IsValue(Len(args) + 1)
          /\ IsValue(Len(args) + 1) <=> Bare(Len(args)) /\ ~IsValue(Len(args))
      BY <2>l, <2>r, SplitWants
    <3>2. Split[Len(args)].wants = Nothing
      BY <2>r DEF SplitArgs
    <3> QED
      BY <3>1, <3>2
  <2> QED
    BY <2>1, <2>2, <2>3, <2>4
<1> QED
  BY <1>1, <1>2 DEF ExitTruthful

-----------------------------------------------------------------------------
(* The theorems.                                                           *)

\* Loading and serving by themselves: LoadInv holds in every state, and with it
\* no pipeline answers for its neighbour, every file is accounted for once, and
\* the result does not depend on the order a Go map is iterated in.
THEOREM LoadingSafe == Spec => [](LoadInv /\ NoHijack /\ Accounted /\ Deterministic)
<1>1. Init => LoadInv
  BY DirectoriesAssumption, UnreadLoadInv DEF Init
<1>2. LoadInv /\ [Next]_vars => LoadInv'
  BY LoadInvKept DEF Next, Done
<1>3. LoadInv => NoHijack /\ Accounted /\ Deterministic
  BY LoadInvNoHijack, LoadInvAccounted, LoadInvDeterministic
<1> QED
  BY <1>1, <1>2, <1>3, PTL DEF Spec

\* LoadInv and CliInv hold in every state of every command.
THEOREM CliInvariant == CliSpec => [](LoadInv /\ CliInv)
<1>1. CliInit => LoadInv /\ CliInv
  BY CliInitInv
<1>2. (LoadInv /\ CliInv) /\ [CliNext]_allVars => (LoadInv /\ CliInv)'
  BY CliStepKeeps
<1> QED
  BY <1>1, <1>2, PTL DEF CliSpec

\* The types of the command's state, with inputs handed to a run only under
\* names its plan declares.
THEOREM CliTypes == CliSpec => []CliTypeOK
<1>1. LoadInv /\ CliInv => CliTypeOK
  BY InvCliTypeOK
<1> QED
  BY <1>1, CliInvariant, PTL

\* NoHijack: once a daemon is up, each request a served pipeline claims goes to
\* it, or to the one whose claim is the most specific.
THEOREM ServeNeverHijacks == CliSpec => []NoHijack
<1>1. LoadInv => NoHijack
  BY LoadInvNoHijack
<1> QED
  BY <1>1, CliInvariant, PTL

\* Accounted: each pipeline file of a directory is served, rejected or set
\* aside, exactly once.
THEOREM LoadAccounts == CliSpec => []Accounted
<1>1. LoadInv => Accounted
  BY LoadInvAccounted
<1> QED
  BY <1>1, CliInvariant, PTL

\* Deterministic: the lists come out in the order of the files.
THEOREM LoadDeterministic == CliSpec => []Deterministic
<1>1. LoadInv => Deterministic
  BY LoadInvDeterministic
<1> QED
  BY <1>1, CliInvariant, PTL

\* ExitTruthful: what exit status 2, a run and status 0 say of the arguments,
\* for every line of words.
THEOREM ExitsTruthfully == CliSpec => []ExitTruthful
<1>1. LoadInv /\ CliInv => ExitTruthful
  BY InvExitTruthful
<1> QED
  BY <1>1, CliInvariant, PTL

\* GateHolds: check --dir passes a directory exactly when all of it compiles and
\* no two files claim one route.
THEOREM GateIsExact == CliSpec => []GateHolds
<1>1. LoadInv /\ CliInv => GateHolds
  BY InvGateHolds
<1> QED
  BY <1>1, CliInvariant, PTL
=============================================================================
