--------------------------- MODULE ScanWalkProofs ---------------------------
(***************************************************************************)
(* What the walk of the scanner lists, for every file system, any names,   *)
(* any number of entries and any limits: with all directories readable or  *)
(* not, it ends with what can be reached.                                  *)
(***************************************************************************)
EXTENDS ScanWalk, SequenceTheorems, FiniteSetTheorems, WellFoundedInduction, TLAPS

(* Sequences *)

\* Every set of numbers has a least one.
LEMMA Least ==
  ASSUME NEW S \in SUBSET Nat, S # {}
  PROVE  \E m \in S : \A k \in S : m <= k
<1> DEFINE Upto(n) == 0 .. n
           T == {Upto(n) : n \in S}
           U == UNION T
<1>1. T # {} /\ T \subseteq FiniteSubsetsOf(Nat)
  <2>1. \A n \in S : Upto(n) \in SUBSET Nat /\ IsFiniteSet(Upto(n))
    BY FS_Interval
  <2>2. QED
    BY <2>1 DEF FiniteSubsetsOf
<1>2. IsWellFoundedOn(StrictSubsetOrdering(Nat), FiniteSubsetsOf(Nat))
  BY FS_StrictSubsetOrderingWellFounded
<1>3. PICK t \in T : \A u \in T : <<u, t>> \notin StrictSubsetOrdering(Nat)
  <2> HIDE DEF T
  <2>1. QED
    BY <1>1, <1>2, WFMin
<1>4. PICK m \in S : t = Upto(m)
  OBVIOUS
<1>5. ASSUME NEW k \in S, k < m
      PROVE  FALSE
  <2>1. Upto(k) \in T /\ Upto(k) \in SUBSET Nat /\ t \in SUBSET Nat
    BY <1>4
  <2>2. Upto(k) \subseteq t /\ m \in t /\ m \notin Upto(k)
    BY <1>4, <1>5
  <2>3. <<Upto(k), t>> \in StrictSubsetOrdering(Nat)
    BY <2>1, <2>2 DEF StrictSubsetOrdering
  <2>4. QED
    BY <1>3, <2>1, <2>3
<1>6. \A k \in S : m <= k
  BY <1>5
<1>7. QED
  BY <1>6

LEMMA AppendIs ==
  ASSUME NEW S, NEW s \in Seq(S), NEW x \in S
  PROVE  /\ Append(s, x) \in Seq(S) /\ Append(s, x) # <<>>
         /\ Len(Append(s, x)) = Len(s) + 1 /\ Len(s) \in Nat
         /\ \A i \in 1 .. Len(s) : Append(s, x)[i] = s[i]
         /\ Append(s, x)[Len(s) + 1] = x
         /\ Last(Append(s, x)) = x
BY DEF Last

\* A sequence is empty, or what is before its last element and that element.
LEMMA EmptyOrAppend ==
  ASSUME NEW S, NEW s \in Seq(S), s # <<>>
  PROVE  \E p \in Seq(S), x \in S : s = Append(p, x)
<1> DEFINE n == Len(s)
           p == SubSeq(s, 1, n - 1)
<1>1. n \in Nat \ {0} /\ s[n] \in S
  BY EmptySeq, LenProperties
<1>2. p \in Seq(S)
  BY <1>1, SubSeqProperties
<1>3. SubSeq(s, 1, n) = p \o <<s[n]>>
  BY <1>1, SubSeqRecursiveSecond
<1>4. SubSeq(s, 1, n) = s
  BY SubSeqFull
<1> HIDE DEF p, n
<1> QED BY <1>1, <1>2, <1>3, <1>4, AppendIsConcat

LEMMA AppendInj ==
  ASSUME NEW S, NEW s \in Seq(S), NEW x \in S, NEW t \in Seq(S), NEW y \in S
  PROVE  Append(s, x) = Append(t, y) <=> s = t /\ x = y
BY AppendInjective

\* What holds of the empty sequence and goes from each to those one longer holds of all.
LEMMA SeqInduction ==
  ASSUME NEW S, NEW T \in SUBSET Seq(S), <<>> \in T,
         \A p \in T, x \in S : Append(p, x) \in T
  PROVE  T = Seq(S)
<1> DEFINE Bad == {Len(s) : s \in Seq(S) \ T}
<1>1. Bad = {}
  <2> SUFFICES ASSUME Bad # {} PROVE FALSE
    OBVIOUS
  <2>1. PICK k \in Bad : \A j \in Bad : k <= j
    <3>1. Bad \in SUBSET Nat
      BY LenProperties
    <3> HIDE DEF Bad
    <3> QED BY <3>1, Least
  <2>2. PICK s \in Seq(S) \ T : Len(s) = k
    OBVIOUS
  <2>3. PICK p \in Seq(S), x \in S : s = Append(p, x)
    BY <2>2, EmptyOrAppend
  <2>4. p \notin T /\ Len(s) = Len(p) + 1 /\ Len(p) \in Nat
    BY <2>2, <2>3, AppendIs
  <2>5. Len(p) \in Bad
    BY <2>4
  <2> HIDE DEF Bad
  <2>6. k <= Len(p) /\ k = Len(p) + 1
    BY <2>1, <2>2, <2>4, <2>5
  <2> QED BY <2>4, <2>6
<1> QED BY <1>1

LEMMA FrontOfAppend ==
  ASSUME NEW S, NEW s \in Seq(S), NEW x \in S
  PROVE  Front(Append(s, x)) = s
<1> DEFINE n == Len(s)
<1>1. PICK r \in Seq(S) : r = Append(s, x)
  BY AppendIs
<1>2. n \in Nat /\ Len(r) = n + 1 /\ \A i \in 1 .. n : r[i] = s[i] /\ r[i] \in S
  BY <1>1, AppendIs, LenProperties
<1>3. /\ SubSeq(r, 1, n) \in Seq(S) /\ Len(SubSeq(r, 1, n)) = n
      /\ \A i \in 1 .. n : SubSeq(r, 1, n)[i] = r[i]
  <2> HIDE DEF n
  <2> QED BY <1>2
<1>4. SubSeq(r, 1, n) = s
  <2> DEFINE t == SubSeq(r, 1, n)
  <2>1. t \in Seq(S) /\ Len(t) = Len(s) /\ \A i \in 1 .. Len(t) : t[i] = s[i]
    BY <1>2, <1>3
  <2> HIDE DEF t
  <2> QED BY <2>1, SeqEqual DEF t
<1>5. Len(r) - 1 = n
  BY <1>2
<1> QED BY <1>1, <1>4, <1>5 DEF Front

(* Flattening *)

\* The function FlattenSeq(t) computes on the first n elements of t.
Flats(t, n, f) == f = [i \in 1 .. n |-> IF i = 1 THEN t[i] ELSE f[i - 1] \o t[i]]

LEMMA FlatsExist ==
  ASSUME NEW t, NEW n \in Nat
  PROVE  \E f : Flats(t, n, f)
<1> DEFINE Bad == {k \in Nat : ~\E f : Flats(t, k, f)}
<1>1. Bad = {}
  <2> SUFFICES ASSUME Bad # {} PROVE FALSE
    OBVIOUS
  <2>1. PICK k \in Bad : \A j \in Bad : k <= j
    <3>1. Bad \in SUBSET Nat
      OBVIOUS
    <3> HIDE DEF Bad
    <3> QED BY <3>1, Least
  <2>2. k \in Nat /\ ~\E f : Flats(t, k, f)
    OBVIOUS
  <2>3. CASE k = 0
    <3>1. Flats(t, 0, [i \in 1 .. 0 |-> <<>>])
      BY DEF Flats
    <3> QED BY <2>2, <2>3, <3>1
  <2>4. CASE k # 0
    <3>1. k - 1 \in Nat /\ k - 1 \notin Bad
      <4> HIDE DEF Bad
      <4>1. k - 1 \in Nat /\ ~(k <= k - 1)
        BY <2>2, <2>4
      <4> QED BY <2>1, <4>1
    <3>2. PICK f : Flats(t, k - 1, f)
      BY <3>1
    <3> DEFINE g == [i \in 1 .. k |->
                       IF i < k THEN f[i] ELSE IF i = 1 THEN t[i] ELSE f[i - 1] \o t[i]]
    <3>3. ASSUME NEW i \in 1 .. k
          PROVE  g[i] = IF i = 1 THEN t[i] ELSE g[i - 1] \o t[i]
      <4>1. i # 1 => i - 1 \in 1 .. k /\ i - 1 < k
        BY <2>2
      <4>2. CASE i < k
        <5>1. i \in 1 .. k - 1
          BY <2>2, <4>2
        <5>2. f[i] = IF i = 1 THEN t[i] ELSE f[i - 1] \o t[i]
          BY <3>2, <5>1 DEF Flats
        <5> QED BY <4>1, <4>2, <5>2
      <4>3. CASE ~(i < k)
        BY <4>1, <4>3
      <4> QED BY <4>2, <4>3
    <3>4. Flats(t, k, g)
      <4> DEFINE h == g
      <4>1. h = [i \in 1 .. k |-> h[i]]
        OBVIOUS
      <4>2. \A i \in 1 .. k : h[i] = IF i = 1 THEN t[i] ELSE h[i - 1] \o t[i]
        BY <3>3
      <4> HIDE DEF h
      <4>3. Flats(t, k, h)
        BY <4>1, <4>2 DEF Flats
      <4> QED BY <4>3 DEF h
    <3> QED BY <2>2, <3>4
  <2> QED BY <2>3, <2>4
<1> QED BY <1>1

\* It only depends on those elements.
LEMMA FlatsAgree ==
  ASSUME NEW t, NEW u, NEW m \in Nat, NEW n \in Nat, m <= n, NEW f, NEW g,
         Flats(t, m, f), Flats(u, n, g), \A i \in 1 .. m : t[i] = u[i]
  PROVE  \A i \in 1 .. m : f[i] = g[i]
<1> DEFINE Bad == {i \in 1 .. m : f[i] # g[i]}
<1>1. Bad = {}
  <2> SUFFICES ASSUME Bad # {} PROVE FALSE
    OBVIOUS
  <2>1. PICK k \in Bad : \A j \in Bad : k <= j
    <3>1. Bad \in SUBSET Nat
      OBVIOUS
    <3> HIDE DEF Bad
    <3> QED BY <3>1, Least
  <2>2. k \in 1 .. m /\ k \in 1 .. n /\ f[k] # g[k]
    OBVIOUS
  <2>3. k - 1 \notin Bad
    <3>1. ~(k <= k - 1)
      BY <2>2
    <3> HIDE DEF Bad
    <3> QED BY <2>1, <3>1
  <2>4. k # 1 => k - 1 \in 1 .. m
    BY <2>2
  <2>5. /\ f[k] = IF k = 1 THEN t[k] ELSE f[k - 1] \o t[k]
        /\ g[k] = IF k = 1 THEN u[k] ELSE g[k - 1] \o u[k]
    BY <2>2 DEF Flats
  <2> QED BY <2>2, <2>3, <2>4, <2>5
<1> QED BY <1>1

LEMMA FlattenIs ==
  ASSUME NEW t, Len(t) \in Nat \ {0}
  PROVE  \E f : Flats(t, Len(t), f) /\ FlattenSeq(t) = f[Len(t)]
<1> DEFINE n == Len(t)
           F(f) == [i \in 1 .. n |-> IF i = 1 THEN t[i] ELSE f[i - 1] \o t[i]]
           flat == CHOOSE f : f = F(f)
<1>1. FlattenSeq(t) = flat[n]
  BY DEF FlattenSeq
<1>2. \E f : f = F(f)
  <2>1. PICK f : Flats(t, n, f)
    BY FlatsExist
  <2>2. f = F(f)
    BY <2>1 DEF Flats
  <2> HIDE DEF F
  <2> QED BY <2>2
<1>3. flat = F(flat)
  <2> HIDE DEF F
  <2> QED BY <1>2
<1> HIDE DEF flat
<1>4. Flats(t, n, flat)
  BY <1>3 DEF Flats
<1> QED BY <1>1, <1>4

LEMMA FlattenAppend ==
  ASSUME NEW S, NEW ss \in Seq(Seq(S)), NEW s \in Seq(S)
  PROVE  FlattenSeq(Append(ss, s)) = FlattenSeq(ss) \o s
<1> DEFINE n == Len(ss)
<1>1. PICK t \in Seq(Seq(S)) : t = Append(ss, s)
  BY AppendIs
<1>2. /\ n \in Nat /\ Len(t) = n + 1 /\ Len(t) \in Nat \ {0}
      /\ t[n + 1] = s /\ \A i \in 1 .. n : ss[i] = t[i]
  BY <1>1, AppendIs
<1>3. PICK g : Flats(t, n + 1, g) /\ FlattenSeq(t) = g[n + 1]
  BY <1>2, FlattenIs
<1>4. g[n + 1] = IF n + 1 = 1 THEN s ELSE g[n] \o s
  <2>1. n + 1 \in 1 .. n + 1 /\ (n + 1) - 1 = n
    BY <1>2
  <2> HIDE DEF n
  <2> QED BY <1>2, <1>3, <2>1 DEF Flats
<1>5. CASE ss = <<>>
  <2>1. n = 0 /\ FlattenSeq(ss) = <<>>
    BY <1>5 DEF FlattenSeq
  <2>2. <<>> \o s = s
    BY ConcatEmptySeq
  <2> HIDE DEF n
  <2> QED BY <1>1, <1>3, <1>4, <2>1, <2>2
<1>6. CASE ss # <<>>
  <2>1. n \in Nat \ {0}
    BY <1>2, <1>6, EmptySeq
  <2>2. PICK f : Flats(ss, n, f) /\ FlattenSeq(ss) = f[n]
    BY <2>1, FlattenIs
  <2>3. f[n] = g[n]
    <3>1. n + 1 \in Nat /\ n <= n + 1 /\ n \in 1 .. n
      BY <2>1
    <3> HIDE DEF n
    <3>2. PICK k : k = n + 1
      OBVIOUS
    <3>3. k \in Nat /\ n <= k /\ Flats(t, k, g)
      BY <1>3, <3>1, <3>2
    <3>4. Flats(ss, n, f) /\ n \in Nat /\ \A i \in 1 .. n : ss[i] = t[i]
      BY <1>2, <2>2
    <3>5. \A i \in 1 .. n : f[i] = g[i]
      BY <3>3, <3>4, FlatsAgree
    <3> QED BY <3>1, <3>5
  <2>4. n + 1 # 1
    BY <2>1
  <2> HIDE DEF n
  <2> QED BY <1>1, <1>3, <1>4, <2>2, <2>3, <2>4
<1> QED BY <1>5, <1>6

-----------------------------------------------------------------------------
(* Ways and their paths *)

\* The components of the directories on a way, its last entry included, and of the path
\* its last entry is listed under.
Under(p) == FlattenSeq([i \in 1 .. Len(p) |-> name[p[i]].under])

ListedAs(p) ==
  FlattenSeq([i \in 1 .. Len(p) |-> IF i < Len(p) THEN name[p[i]].under ELSE name[p[i]].own])

DiskInv == IsDisk /\ \A n \in Nodes : name[n] \in AllNames /\ target[n] \in Nat

LEMMA NameIs ==
  ASSUME Settings, DiskInv, NEW n \in Nodes
  PROVE  /\ name[n] = [own |-> name[n].own, under |-> name[n].under]
         /\ name[n].own \in Seq(Component) /\ name[n].under \in Seq(Component)
         /\ Len(name[n].own) \in Nat /\ Len(name[n].under) \in Nat
         /\ 1 <= Len(name[n].own) /\ Len(name[n].own) <= Len(name[n].under)
         /\ Len(name[n].under) = 1 => name[n].own = name[n].under
<1>1. name[n] \in AllNames
  BY DEF DiskInv
<1>2. PICK x : x = name[n]
  OBVIOUS
<1>3. /\ x = [own |-> x.own, under |-> x.under]
      /\ x.own \in Seq(Component) /\ x.under \in Seq(Component)
      /\ 1 <= Len(x.own) /\ Len(x.own) <= Len(x.under)
      /\ Len(x.under) = 1 => x.own = x.under
  BY <1>1, <1>2 DEF Settings
<1> QED BY <1>2, <1>3, LenProperties

\* One entry further down.
LEMMA UnderAppend ==
  ASSUME Settings, DiskInv, NEW p \in Seq(Nodes), NEW n \in Nodes
  PROVE  /\ Under(Append(p, n)) = Under(p) \o name[n].under
         /\ ListedAs(Append(p, n)) = Under(p) \o name[n].own
<1> DEFINE k == Len(p)
           ss == [i \in 1 .. k |-> name[p[i]].under]
<1>1. PICK q : q = Append(p, n)
  OBVIOUS
<1>2. /\ q \in Seq(Nodes) /\ Len(q) = k + 1 /\ k \in Nat /\ q[k + 1] = n
      /\ \A i \in 1 .. k : q[i] = p[i] /\ p[i] \in Nodes
  BY <1>1, AppendIs, LenProperties
<1>3. PICK own, under : own = name[n].own /\ under = name[n].under
  OBVIOUS
<1>4. own \in Seq(Component) /\ under \in Seq(Component)
  BY <1>3, NameIs
<1>5. \A i \in 1 .. k : name[p[i]].under \in Seq(Component)
  BY <1>2, NameIs
<1> HIDE DEF k
<1>6. ss \in Seq(Seq(Component)) /\ Len(ss) = k
  BY <1>2, <1>5, IsASeq
<1>7. \A i \in 1 .. k + 1 : i # k + 1 => i \in 1 .. k /\ i < k + 1
  BY <1>2
<1>8. ASSUME NEW x \in Seq(Component)
      PROVE  [i \in 1 .. k + 1 |-> IF i < k + 1 THEN name[q[i]].under ELSE x] = Append(ss, x)
  <2> DEFINE t == [i \in 1 .. k + 1 |-> IF i < k + 1 THEN name[q[i]].under ELSE x]
  <2>1. \A i \in 1 .. k + 1 : t[i] \in Seq(Component)
    BY <1>2, <1>5, <1>7
  <2>2. t \in Seq(Seq(Component)) /\ Len(t) = k + 1
    BY <1>2, <2>1, IsASeq
  <2>3. \A i \in 1 .. k : t[i] = ss[i]
    BY <1>2
  <2>4. t[k + 1] = x
    BY <1>2
  <2> HIDE DEF t, ss
  <2>5. /\ Append(ss, x) \in Seq(Seq(Component)) /\ Len(Append(ss, x)) = k + 1
        /\ Append(ss, x)[k + 1] = x /\ \A i \in 1 .. k : Append(ss, x)[i] = ss[i]
    BY <1>6, AppendIs
  <2>6. \A i \in 1 .. Len(t) : t[i] = Append(ss, x)[i]
    BY <1>7, <2>2, <2>3, <2>4, <2>5
  <2>7. t = Append(ss, x)
    BY <2>2, <2>5, <2>6, SeqEqual
  <2> QED BY <2>7 DEF t
<1>9. [i \in 1 .. k + 1 |-> name[q[i]].under] = Append(ss, under)
  <2>1. [i \in 1 .. k + 1 |-> name[q[i]].under]
          = [i \in 1 .. k + 1 |-> IF i < k + 1 THEN name[q[i]].under ELSE under]
    BY <1>2, <1>3, <1>7
  <2> QED BY <1>4, <1>8, <2>1
<1>10. [i \in 1 .. k + 1 |-> IF i < k + 1 THEN name[q[i]].under ELSE name[q[i]].own]
         = Append(ss, own)
  <2>1. [i \in 1 .. k + 1 |-> IF i < k + 1 THEN name[q[i]].under ELSE name[q[i]].own]
          = [i \in 1 .. k + 1 |-> IF i < k + 1 THEN name[q[i]].under ELSE own]
    BY <1>2, <1>3, <1>7
  <2> QED BY <1>4, <1>8, <2>1
<1>11. Under(p) = FlattenSeq(ss)
  BY DEF Under, k
<1> HIDE DEF ss
<1>12. Under(q) = FlattenSeq(ss) \o under
  BY <1>2, <1>4, <1>6, <1>9, FlattenAppend DEF Under
<1>13. ListedAs(q) = FlattenSeq(ss) \o own
  BY <1>2, <1>4, <1>6, <1>10, FlattenAppend DEF ListedAs
<1> QED BY <1>1, <1>3, <1>11, <1>12, <1>13

\* Every entry on a way adds a component at least.
LEMMA UnderTyped ==
  ASSUME Settings, DiskInv, NEW p \in Seq(Nodes)
  PROVE  Under(p) \in Seq(Component) /\ Len(Under(p)) \in Nat /\ Len(p) <= Len(Under(p))
<1> DEFINE T == {w \in Seq(Nodes) : Under(w) \in Seq(Component) /\ Len(w) <= Len(Under(w))}
<1>1. <<>> \in T
  <2>1. Under(<<>>) = <<>>
    BY DEF Under, FlattenSeq
  <2>2. \A S : <<>> \in Seq(S) /\ Len(<<>>) <= Len(<<>>)
    OBVIOUS
  <2> QED BY <2>1, <2>2
<1>2. ASSUME NEW w \in T, NEW n \in Nodes
      PROVE  Append(w, n) \in T
  <2>1. PICK u, own, under : u = Under(w) /\ own = name[n].own /\ under = name[n].under
    OBVIOUS
  <2>2. w \in Seq(Nodes) /\ u \in Seq(Component) /\ Len(w) <= Len(u)
    BY <2>1
  <2>3. under \in Seq(Component) /\ 1 <= Len(under)
    <3>1. /\ under \in Seq(Component) /\ Len(under) \in Nat /\ Len(own) \in Nat
          /\ 1 <= Len(own) /\ Len(own) <= Len(under)
      BY <2>1, NameIs
    <3> QED BY <3>1
  <2>4. Under(Append(w, n)) = u \o under
    BY <2>1, <2>2, UnderAppend
  <2>5. u \o under \in Seq(Component) /\ Len(u \o under) = Len(u) + Len(under)
    BY <2>2, <2>3, ConcatProperties
  <2>6. /\ Append(w, n) \in Seq(Nodes) /\ Len(Append(w, n)) = Len(w) + 1
        /\ Len(w) \in Nat /\ Len(u) \in Nat /\ Len(under) \in Nat
    BY <2>2, <2>3, AppendIs, LenProperties
  <2>7. Len(Append(w, n)) <= Len(u \o under)
    BY <2>2, <2>3, <2>5, <2>6
  <2> QED BY <2>4, <2>5, <2>6, <2>7
<1> HIDE DEF T
<1>3. T = Seq(Nodes)
  <2>1. T \in SUBSET Seq(Nodes)
    BY DEF T
  <2> QED BY <1>1, <1>2, <2>1, SeqInduction
<1> QED BY <1>3, LenProperties DEF T

-----------------------------------------------------------------------------
(* What may follow a way *)

DirAt(p) == IF p = <<>> THEN Root ELSE target[Last(p)]

\* Where the links on a way have led.
LinkedTo(p) == {target[p[i]] : i \in {j \in 1 .. Len(p) : kind[p[j]] = "link"}}

\* The entry is in the last directory of the way and can be listed there.
Fits(p, n) ==
  /\ parent[n] = DirAt(p) /\ n \notin skip /\ Len(p) <= MaxDepth
  /\ kind[n] = "link" =>
       FollowSymlinks /\ target[n] # Broken /\ target[n] \notin {Root} \cup LinkedTo(p)
  /\ Len(Under(p)) + Len(name[n].own) <= MaxLength

LEMMA LinkedAppend ==
  ASSUME NEW p \in Seq(Nodes), NEW n \in Nodes
  PROVE  LinkedTo(Append(p, n)) =
           LinkedTo(p) \cup (IF kind[n] = "link" THEN {target[n]} ELSE {})
<1>1. PICK q, k : q = Append(p, n) /\ k = Len(p)
  OBVIOUS
<1>2. /\ Len(q) = k + 1 /\ k \in Nat /\ q[k + 1] = n /\ \A i \in 1 .. k : q[i] = p[i]
  BY <1>1, AppendIs
<1>3. \A i : i \in 1 .. k + 1 <=> i \in 1 .. k \/ i = k + 1
  BY <1>2
<1>4. \A x : x \in LinkedTo(q) <=> \E i \in 1 .. k + 1 : kind[q[i]] = "link" /\ x = target[q[i]]
  BY <1>2 DEF LinkedTo
<1>5. \A x : x \in LinkedTo(p) <=> \E i \in 1 .. k : kind[p[i]] = "link" /\ x = target[p[i]]
  BY <1>1 DEF LinkedTo
<1>6. \A x : x \in LinkedTo(q) <=> x \in LinkedTo(p) \/ (kind[n] = "link" /\ x = target[n])
  BY <1>2, <1>3, <1>4, <1>5
<1> QED BY <1>1, <1>6

\* A way is reachable if all but its last entry is, and that entry may follow.
LEMMA ReachableAppend ==
  ASSUME MaxDepth \in Nat, NEW p \in Seq(Nodes), NEW n \in Nodes
  PROVE  Reachable(Append(p, n)) <=>
           /\ Reachable(p) /\ (p = <<>> \/ p \notin failed)
           /\ parent[n] = DirAt(p) /\ n \notin skip /\ Len(p) <= MaxDepth
           /\ kind[n] = "link" =>
                FollowSymlinks /\ target[n] # Broken /\ target[n] \notin {Root} \cup LinkedTo(p)
<1>1. PICK q, k : q = Append(p, n) /\ k = Len(p)
  OBVIOUS
<1>2. /\ q \in Seq(Nodes) /\ Len(q) = k + 1 /\ k \in Nat /\ q[k + 1] = n
      /\ \A i \in 1 .. k : q[i] = p[i]
  BY <1>1, AppendIs
<1> DEFINE Good(w, i) ==
             /\ Way(w[i], SubSeq(w, 1, i - 1)) /\ w[i] \notin skip
             /\ kind[w[i]] = "link" =>
                  /\ FollowSymlinks /\ target[w[i]] \notin {Root, Broken}
                  /\ \A j \in 1 .. i - 1 : kind[w[j]] = "link" => target[w[j]] # target[w[i]]
           Read(w, i) == SubSeq(w, 1, i) \notin failed
<1>3. ASSUME NEW w, Len(w) \in Nat
      PROVE  Reachable(w) <=> /\ \A i \in 1 .. Len(w) : Good(w, i)
                              /\ \A i \in 1 .. Len(w) - 1 : Read(w, i)
                              /\ Len(w) <= MaxDepth + 1
  <2>1. \A i : i \in 1 .. Len(w) /\ i < Len(w) <=> i \in 1 .. Len(w) - 1
    BY <1>3
  <2> QED BY <2>1 DEF Reachable
<1>4. \A i \in 0 .. k : SubSeq(q, 1, i) = SubSeq(p, 1, i)
  <2> TAKE i \in 0 .. k
  <2>1. i \in Nat /\ i <= k /\ i <= k + 1 /\ \A j \in 1 .. i : j \in 1 .. k
    BY <1>2
  <2>2. /\ SubSeq(q, 1, i) = [j \in 1 .. i |-> q[j]]
        /\ SubSeq(p, 1, i) = [j \in 1 .. i |-> p[j]]
    BY <1>1, <1>2, <2>1
  <2> QED BY <1>2, <2>1, <2>2
<1>5. SubSeq(p, 1, k) = p
  BY <1>1, SubSeqFull
<1>6. \A i \in 1 .. k : Good(q, i) <=> Good(p, i)
  <2> TAKE i \in 1 .. k
  <2>1. i - 1 \in 0 .. k /\ \A j \in 1 .. i - 1 : j \in 1 .. k
    BY <1>2
  <2>2. q[i] = p[i] /\ SubSeq(q, 1, i - 1) = SubSeq(p, 1, i - 1)
    BY <1>2, <1>4, <2>1
  <2>3. \A j \in 1 .. i - 1 : q[j] = p[j]
    BY <1>2, <2>1
  <2> QED BY <2>2, <2>3
<1>7. Good(q, k + 1) <=>
        /\ parent[n] = DirAt(p) /\ n \notin skip
        /\ kind[n] = "link" =>
             FollowSymlinks /\ target[n] # Broken /\ target[n] \notin {Root} \cup LinkedTo(p)
  <2>1. (k + 1) - 1 = k /\ SubSeq(q, 1, k) = p
    BY <1>2, <1>4, <1>5
  <2>2. Way(n, p) <=> parent[n] = DirAt(p)
    BY DEF Way, DirAt
  <2>3. (\A j \in 1 .. k : kind[q[j]] = "link" => target[q[j]] # target[n])
          <=> target[n] \notin LinkedTo(p)
    BY <1>1, <1>2 DEF LinkedTo
  <2> QED BY <1>2, <2>1, <2>2, <2>3
<1>8. (\A i \in 1 .. k : Read(q, i))
        <=> (\A i \in 1 .. k - 1 : Read(p, i)) /\ (p = <<>> \/ p \notin failed)
  <2>1. CASE k = 0
    <3>1. p = <<>>
      BY <1>1, <2>1, EmptySeq
    <3> QED BY <2>1, <3>1
  <2>2. CASE k # 0
    <3>1. p # <<>>
      BY <1>1, <2>2
    <3>2. \A i : i \in 1 .. k <=> i \in 1 .. k - 1 \/ i = k
      BY <1>2, <2>2
    <3>3. \A i \in 1 .. k : SubSeq(q, 1, i) = SubSeq(p, 1, i)
      BY <1>2, <1>4
    <3> QED BY <1>5, <3>1, <3>2, <3>3
  <2> QED BY <2>1, <2>2
<1> HIDE DEF Good, Read
<1>9. Reachable(q) <=> /\ \A i \in 1 .. k + 1 : Good(q, i)
                       /\ \A i \in 1 .. k : Read(q, i)
                       /\ k <= MaxDepth
  <2>1. Len(q) \in Nat /\ Len(q) - 1 = k /\ (Len(q) <= MaxDepth + 1 <=> k <= MaxDepth)
    BY <1>2
  <2> QED BY <1>2, <1>3, <2>1
<1>10. Reachable(p) <=> /\ \A i \in 1 .. k : Good(p, i)
                        /\ \A i \in 1 .. k - 1 : Read(p, i)
                        /\ k <= MaxDepth + 1
  BY <1>1, <1>2, <1>3
<1>11. \A i : i \in 1 .. k + 1 <=> i \in 1 .. k \/ i = k + 1
  BY <1>2
<1>12. k <= MaxDepth => k <= MaxDepth + 1
  BY <1>2
<1> QED BY <1>1, <1>6, <1>7, <1>8, <1>9, <1>10, <1>11, <1>12

\* The ways the walk should list.
Goal == {p \in Ways : Reachable(p) /\ PathLength(p) <= MaxLength}

LEMMA ListedShorter ==
  ASSUME Settings, DiskInv, NEW p \in Seq(Nodes), p # <<>>
  PROVE  Len(ListedAs(p)) \in Nat /\ Len(p) <= Len(ListedAs(p)) /\ Len(ListedAs(p)) <= Len(Under(p))
<1>1. PICK w \in Seq(Nodes), n \in Nodes : p = Append(w, n)
  BY EmptyOrAppend
<1>2. PICK u, own, under : u = Under(w) /\ own = name[n].own /\ under = name[n].under
  OBVIOUS
<1>3. u \in Seq(Component) /\ Len(u) \in Nat /\ Len(w) <= Len(u)
  BY <1>2, UnderTyped
<1>4. /\ own \in Seq(Component) /\ under \in Seq(Component) /\ Len(own) \in Nat
      /\ Len(under) \in Nat /\ 1 <= Len(own) /\ Len(own) <= Len(under)
  BY <1>2, NameIs
<1>5. Under(p) = u \o under /\ ListedAs(p) = u \o own
  BY <1>1, <1>2, UnderAppend
<1>6. Len(u \o under) = Len(u) + Len(under) /\ Len(u \o own) = Len(u) + Len(own)
  BY <1>3, <1>4, ConcatProperties
<1>7. Len(p) = Len(w) + 1 /\ Len(w) \in Nat
  BY <1>1, AppendIs
<1> QED BY <1>3, <1>4, <1>5, <1>6, <1>7

LEMMA GoalIs ==
  ASSUME Settings, DiskInv, NEW p
  PROVE  p \in Goal <=> /\ p \in Seq(Nodes) /\ p # <<>> /\ Reachable(p)
                        /\ Len(ListedAs(p)) <= MaxLength
<1>1. PathLength(p) = Len(ListedAs(p))
  BY DEF PathLength, ListedAs
<1>2. MaxLength \in Nat
  BY DEF Settings
<1>3. ASSUME p \in Ways
      PROVE  p \in Seq(Nodes) /\ p # <<>>
  <2>1. PICK k \in 1 .. MaxLength : p \in [1 .. k -> Nodes]
    BY <1>3 DEF Ways
  <2>2. k \in Nat \ {0} /\ p = [i \in 1 .. k |-> p[i]] /\ \A i \in 1 .. k : p[i] \in Nodes
    BY <1>2, <2>1
  <2>3. p \in Seq(Nodes) /\ Len(p) = k
    BY <2>2, IsASeq
  <2> QED BY <2>2, <2>3, EmptySeq
<1>4. ASSUME p \in Seq(Nodes), p # <<>>, Len(ListedAs(p)) <= MaxLength
      PROVE  p \in Ways
  <2>1. Len(p) \in 1 .. MaxLength
    <3>1. Len(p) \in Nat \ {0} /\ Len(ListedAs(p)) \in Nat /\ Len(p) <= Len(ListedAs(p))
      BY <1>4, ListedShorter, EmptySeq
    <3> QED BY <1>2, <1>4, <3>1
  <2>2. p \in [1 .. Len(p) -> Nodes]
    BY <1>4, LenProperties
  <2> QED BY <2>1, <2>2 DEF Ways
<1> QED BY <1>1, <1>3, <1>4 DEF Goal

\* The ways down from a way that should be listed.
LEMMA GoalAppend ==
  ASSUME Settings, DiskInv, NEW p \in Seq(Nodes), NEW n \in Nodes
  PROVE  Append(p, n) \in Goal <=> (p = <<>> \/ (p \in Goal /\ p \notin failed)) /\ Fits(p, n)
<1>1. MaxDepth \in Nat /\ MaxLength \in Nat
  BY DEF Settings
<1>2. Append(p, n) \in Seq(Nodes) /\ Append(p, n) # <<>>
  BY AppendIs
<1>3. Len(ListedAs(Append(p, n))) = Len(Under(p)) + Len(name[n].own)
  <2>1. PICK u, own : u = Under(p) /\ own = name[n].own
    OBVIOUS
  <2>2. u \in Seq(Component) /\ own \in Seq(Component)
    BY <2>1, UnderTyped, NameIs
  <2>3. Len(u \o own) = Len(u) + Len(own)
    BY <2>2, ConcatProperties
  <2> QED BY <2>1, <2>3, UnderAppend
<1>4. Append(p, n) \in Goal <=> /\ Reachable(p) /\ (p = <<>> \/ p \notin failed)
                                /\ Fits(p, n)
  <2>1. PICK q : q = Append(p, n)
    OBVIOUS
  <2>2. q \in Goal <=> Reachable(q) /\ Len(ListedAs(q)) <= MaxLength
    BY <1>2, <2>1, GoalIs
  <2>3. Reachable(Append(p, n)) <=>
          /\ Reachable(p) /\ (p = <<>> \/ p \notin failed)
          /\ parent[n] = DirAt(p) /\ n \notin skip /\ Len(p) <= MaxDepth
          /\ kind[n] = "link" =>
               FollowSymlinks /\ target[n] # Broken /\ target[n] \notin {Root} \cup LinkedTo(p)
    BY <1>1, ReachableAppend
  <2> QED BY <1>3, <2>1, <2>2, <2>3 DEF Fits
<1>5. CASE p = <<>>
  <2>1. Reachable(p)
    BY <1>1, <1>5, EmptySeq DEF Reachable
  <2> QED BY <1>4, <1>5, <2>1
<1>6. CASE p # <<>>
  <2>1. ASSUME Fits(p, n), Reachable(p)
        PROVE  p \in Goal
    <3>1. /\ Len(ListedAs(p)) \in Nat /\ Len(ListedAs(p)) <= Len(Under(p)) /\ Len(Under(p)) \in Nat
          /\ Len(name[n].own) \in Nat /\ Len(Under(p)) + Len(name[n].own) <= MaxLength
      BY <1>6, <2>1, ListedShorter, UnderTyped, NameIs DEF Fits
    <3>2. Len(ListedAs(p)) <= MaxLength
      BY <1>1, <3>1
    <3> QED BY <1>6, <2>1, <3>2, GoalIs
  <2>2. p \in Goal => Reachable(p)
    BY DEF Goal
  <2> QED BY <1>4, <1>6, <2>1, <2>2
<1> QED BY <1>5, <1>6

-----------------------------------------------------------------------------
(* The invariant of the walk *)

Recorded == {r.nodes : r \in records}

\* The ways whose directory is being read or has been.
OpenWays == {<<>>} \cup (Recorded \ failed)

Frame == [dir : Nat, via : Nat, nodes : Seq(Nodes), base : Seq(Component), todo : SUBSET Nodes]

\* The k-th call, with its way among those given as open.
Call(f, k, open) ==
  /\ Len(f.nodes) = k - 1 /\ f.nodes \in open
  /\ f.base = Under(f.nodes) /\ f.todo \subseteq Children(DirAt(f.nodes))

\* A call of the second for an entry of the first.
Calls(g, f) ==
  \E m \in Nodes : /\ f.nodes = Append(g.nodes, m)
                   /\ f.via = IF kind[m] = "link" THEN target[m] ELSE Root

Stacked(s, open) ==
  /\ s \in Seq(Frame) /\ Len(s) <= MaxDepth + 1
  /\ \A k \in 1 .. Len(s) :
       Call(s[k], k, open) /\ IF k = 1 THEN s[k].via = Root ELSE Calls(s[k - 1], s[k])

\* An entry that a call has not come to.
Waiting(s, p, n) == \E k \in 1 .. Len(s) : s[k].nodes = p /\ n \in s[k].todo

\* What has been listed: what may be below the open ways, except for what waits.
AllListed(rec, open, s) ==
  \A p \in Seq(Nodes), n \in Nodes :
    Append(p, n) \in rec <=> p \in open /\ Fits(p, n) /\ ~Waiting(s, p, n)

RecordInv == \A r \in records : r.nodes \in Seq(Nodes) \ {<<>>} /\ r.path = ListedAs(r.nodes)

WalkInv ==
  /\ DiskInv /\ RecordInv
  /\ Stacked(stack, OpenWays)
  /\ stack # <<>> => visited = {Root} \cup LinkedTo(Top.nodes)
  /\ AllListed(Recorded, OpenWays, stack)
  /\ failed \subseteq Recorded

-----------------------------------------------------------------------------
(* The stack *)

LEMMA PlaceIs ==
  ASSUME NEW k \in Nat
  PROVE  /\ \A i : i \in 1 .. k + 1 <=> i \in 1 .. k \/ i = k + 1
         /\ \A i \in 1 .. k : i # k + 1
         /\ \A i \in 1 .. k + 1 : i # 1 => i - 1 \in 1 .. k
         /\ (k + 1 = 1 <=> k = 0) /\ (k + 1) - 1 = k
OBVIOUS

LEMMA WaitingAppend ==
  ASSUME NEW s \in Seq(Frame), NEW t \in Frame, NEW p, NEW n
  PROVE  Waiting(Append(s, t), p, n) <=> Waiting(s, p, n) \/ (t.nodes = p /\ n \in t.todo)
<1>1. PICK r, k : r = Append(s, t) /\ k = Len(s)
  OBVIOUS
<1>2. Len(r) = k + 1 /\ k \in Nat /\ r[k + 1] = t /\ \A i \in 1 .. k : r[i] = s[i]
  BY <1>1, AppendIs
<1>3. \A i : i \in 1 .. k + 1 <=> i \in 1 .. k \/ i = k + 1
  BY <1>2, PlaceIs
<1> QED BY <1>1, <1>2, <1>3 DEF Waiting

LEMMA StackedAppend ==
  ASSUME MaxDepth \in Nat, NEW s \in Seq(Frame), NEW t \in Frame, NEW open
  PROVE  Stacked(Append(s, t), open) <=>
           /\ Stacked(s, open) /\ Len(s) <= MaxDepth /\ Call(t, Len(s) + 1, open)
           /\ IF s = <<>> THEN t.via = Root ELSE Calls(Last(s), t)
<1>1. PICK r, k : r = Append(s, t) /\ k = Len(s)
  OBVIOUS
<1>2. /\ r \in Seq(Frame) /\ Len(r) = k + 1 /\ k \in Nat /\ r[k + 1] = t
      /\ \A i \in 1 .. k : r[i] = s[i]
  BY <1>1, AppendIs
<1> DEFINE Good(w, i) ==
             Call(w[i], i, open) /\ IF i = 1 THEN w[i].via = Root ELSE Calls(w[i - 1], w[i])
<1>3. \A i \in 1 .. k : Good(r, i) <=> Good(s, i)
  <2> TAKE i \in 1 .. k
  <2>1. i # 1 => i - 1 \in 1 .. k
    BY <1>2
  <2>2. r[i] = s[i] /\ (i # 1 => r[i - 1] = s[i - 1])
    BY <1>2, <2>1
  <2> QED BY <2>2
<1>4. s = <<>> <=> k = 0
  BY <1>1, EmptySeq
<1>5. Last(s) = s[k]
  BY <1>1 DEF Last
<1>6. Good(r, k + 1) <=> /\ Call(t, k + 1, open)
                         /\ IF s = <<>> THEN t.via = Root ELSE Calls(Last(s), t)
  <2>1. (k + 1 = 1 <=> k = 0) /\ (k + 1) - 1 = k /\ (k # 0 => k \in 1 .. k)
    BY <1>2
  <2>2. k # 0 => r[k] = Last(s)
    BY <1>2, <1>5, <2>1
  <2> QED BY <1>2, <1>4, <2>1, <2>2
<1>7. Stacked(r, open) <=> Len(r) <= MaxDepth + 1 /\ \A i \in 1 .. Len(r) : Good(r, i)
  BY <1>2 DEF Stacked
<1>8. Stacked(s, open) <=> k <= MaxDepth + 1 /\ \A i \in 1 .. k : Good(s, i)
  BY <1>1 DEF Stacked
<1> HIDE DEF Good
<1>9. (Len(r) <= MaxDepth + 1 <=> k <= MaxDepth) /\ (k <= MaxDepth => k <= MaxDepth + 1)
  BY <1>2
<1>10. \A i : i \in 1 .. k + 1 <=> i \in 1 .. k \/ i = k + 1
  BY <1>2, PlaceIs
<1> QED BY <1>1, <1>2, <1>3, <1>6, <1>7, <1>8, <1>9, <1>10

\* The calls stay in order when more ways are open.
LEMMA StackedMore ==
  ASSUME NEW s, NEW open, NEW more, open \subseteq more, Stacked(s, open)
  PROVE  Stacked(s, more)
BY DEF Stacked, Call

\* The innermost call and the others.
LEMMA TopIs ==
  ASSUME Settings, WalkInv, stack # <<>>
  PROVE  \E s \in Seq(Frame), t \in Frame :
           /\ stack = Append(s, t) /\ Top = t /\ Front(stack) = s
           /\ Len(stack) = Len(s) + 1 /\ Len(s) \in Nat /\ Len(t.nodes) = Len(s)
           /\ Stacked(s, OpenWays) /\ Len(s) <= MaxDepth /\ Call(t, Len(s) + 1, OpenWays)
           /\ IF s = <<>> THEN t.via = Root ELSE Calls(Last(s), t)
           /\ visited = {Root} \cup LinkedTo(t.nodes)
<1>1. stack \in Seq(Frame) /\ Stacked(stack, OpenWays)
  BY DEF WalkInv, Stacked
<1>2. PICK s \in Seq(Frame), t \in Frame : stack = Append(s, t)
  BY <1>1, EmptyOrAppend
<1>3. Top = t /\ Front(stack) = s /\ Len(stack) = Len(s) + 1 /\ Len(s) \in Nat
  BY <1>2, AppendIs, FrontOfAppend DEF Top
<1>4. MaxDepth \in Nat
  BY DEF Settings
<1>5. PICK open : open = OpenWays
  OBVIOUS
<1>6. /\ Stacked(s, open) /\ Len(s) <= MaxDepth /\ Call(t, Len(s) + 1, open)
      /\ IF s = <<>> THEN t.via = Root ELSE Calls(Last(s), t)
  BY <1>1, <1>2, <1>4, <1>5, StackedAppend
<1>7. Len(t.nodes) = Len(s)
  BY <1>3, <1>6 DEF Call
<1>8. visited = {Root} \cup LinkedTo(t.nodes)
  BY <1>3 DEF WalkInv
<1> QED BY <1>2, <1>3, <1>5, <1>6, <1>7, <1>8

\* No other call is for the way of the innermost one.
LEMMA OnlyTop ==
  ASSUME NEW s \in Seq(Frame), NEW open, Stacked(s, open), NEW p, Len(p) >= Len(s), NEW n
  PROVE  ~Waiting(s, p, n)
<1> SUFFICES ASSUME NEW k \in 1 .. Len(s), s[k].nodes = p
             PROVE  FALSE
  BY DEF Waiting
<1>1. Len(s) \in Nat
  BY LenProperties
<1>2. Len(p) = k - 1
  BY DEF Stacked, Call
<1> QED BY <1>1, <1>2

-----------------------------------------------------------------------------
(* What is listed *)

\* The last of the calls has come to one of its entries.
LEMMA WaitingLess ==
  ASSUME NEW s \in Seq(Frame), NEW t \in Frame, NEW u \in Frame, NEW n \in t.todo,
         u.nodes = t.nodes, u.todo = t.todo \ {n},
         NEW open, Stacked(s, open), Len(t.nodes) = Len(s)
  PROVE  \A p, m : Waiting(Append(s, u), p, m) <=>
                     Waiting(Append(s, t), p, m) /\ ~(p = t.nodes /\ m = n)
<1> SUFFICES ASSUME NEW p, NEW m
             PROVE  Waiting(Append(s, u), p, m) <=>
                      Waiting(Append(s, t), p, m) /\ ~(p = t.nodes /\ m = n)
  OBVIOUS
<1>1. /\ Waiting(Append(s, t), p, m) <=> Waiting(s, p, m) \/ (t.nodes = p /\ m \in t.todo)
      /\ Waiting(Append(s, u), p, m) <=> Waiting(s, p, m) \/ (u.nodes = p /\ m \in u.todo)
  BY WaitingAppend
<1>2. p = t.nodes => ~Waiting(s, p, m)
  <2>1. Len(t.nodes) >= Len(s)
    BY LenProperties
  <2> QED BY <2>1, OnlyTop
<1> QED BY <1>1, <1>2

\* It is listed, or it is not because it may not be.
Grown(rec, p, n) == rec \cup (IF Fits(p, n) THEN {Append(p, n)} ELSE {})

LEMMA ListedNext ==
  ASSUME NEW rec, NEW open, NEW s \in Seq(Frame), NEW t \in Frame, NEW u \in Frame,
         NEW n \in t.todo, u.nodes = t.nodes, u.todo = t.todo \ {n},
         Stacked(s, open), Len(t.nodes) = Len(s), t.nodes \in open,
         AllListed(rec, open, Append(s, t))
  PROVE  AllListed(Grown(rec, t.nodes, n), open, Append(s, u)) /\ Append(t.nodes, n) \notin rec
<1>0. PICK new : new = Grown(rec, t.nodes, n)
  OBVIOUS
<1>1. t.nodes \in Seq(Nodes) /\ n \in Nodes
  BY DEF Frame
<1>2. \A p, m : Waiting(Append(s, u), p, m) <=>
                  Waiting(Append(s, t), p, m) /\ ~(p = t.nodes /\ m = n)
  BY WaitingLess
<1>3. Waiting(Append(s, t), t.nodes, n)
  BY WaitingAppend
<1>4. Append(t.nodes, n) \notin rec
  BY <1>1, <1>3 DEF AllListed
<1>5. ASSUME NEW p \in Seq(Nodes), NEW m \in Nodes
      PROVE  Append(p, m) \in new <=> p \in open /\ Fits(p, m) /\ ~Waiting(Append(s, u), p, m)
  <2>1. Append(p, m) = Append(t.nodes, n) <=> p = t.nodes /\ m = n
    <3>1. PICK w \in Seq(Nodes), l \in Nodes : w = t.nodes /\ l = n
      BY <1>1
    <3>2. Append(p, m) = Append(w, l) <=> p = w /\ m = l
      BY AppendInj
    <3> QED BY <3>1, <3>2
  <2>2. Append(p, m) \in rec <=> p \in open /\ Fits(p, m) /\ ~Waiting(Append(s, t), p, m)
    BY DEF AllListed
  <2>3. CASE p = t.nodes /\ m = n
    BY <1>0, <1>2, <1>4, <2>1, <2>3 DEF Grown
  <2>4. CASE ~(p = t.nodes /\ m = n)
    BY <1>0, <1>2, <2>1, <2>2, <2>4 DEF Grown
  <2> QED BY <2>3, <2>4
<1> QED BY <1>0, <1>4, <1>5 DEF AllListed

\* Another way is open: all that may be below it waits in its call, or there is nothing.
LEMMA ListedOpen ==
  ASSUME NEW rec, NEW open, NEW s, AllListed(rec, open, s),
         NEW q \in Seq(Nodes), \A m \in Nodes : Append(q, m) \notin rec,
         NEW r, \A p, m : Waiting(s, p, m) => Waiting(r, p, m),
         \A p, m : p # q => (Waiting(r, p, m) => Waiting(s, p, m)),
         \A m \in Nodes : Fits(q, m) => Waiting(r, q, m)
  PROVE  AllListed(rec, open \cup {q}, r)
<1> SUFFICES ASSUME NEW p \in Seq(Nodes), NEW m \in Nodes
             PROVE  Append(p, m) \in rec
                      <=> p \in open \cup {q} /\ Fits(p, m) /\ ~Waiting(r, p, m)
  BY DEF AllListed
<1>1. Append(p, m) \in rec <=> p \in open /\ Fits(p, m) /\ ~Waiting(s, p, m)
  BY DEF AllListed
<1>2. CASE p = q
  BY <1>1, <1>2
<1>3. CASE p # q
  BY <1>1, <1>3
<1> QED BY <1>2, <1>3

\* What the walk tests of an entry is what Fits says of it.
LEMMA ListedIsFits ==
  ASSUME Settings, DiskInv, NEW t \in Frame, t = Top, NEW n \in t.todo,
         t.base = Under(t.nodes), t.todo \subseteq Children(DirAt(t.nodes)),
         Len(t.nodes) <= MaxDepth, visited = {Root} \cup LinkedTo(t.nodes)
  PROVE  Listed(n) <=> Fits(t.nodes, n)
<1>1. n \in Nodes /\ t.nodes \in Seq(Nodes) /\ parent[n] = DirAt(t.nodes)
  BY DEF Frame, Children
<1>2. PICK u, own : u = Under(t.nodes) /\ own = name[n].own
  OBVIOUS
<1>3. u \in Seq(Component) /\ own \in Seq(Component)
  BY <1>1, <1>2, UnderTyped, NameIs
<1>4. Len(u \o own) = Len(u) + Len(own)
  BY <1>3, ConcatProperties
<1>5. Len(Path(n)) = Len(Under(t.nodes)) + Len(name[n].own)
  BY <1>2, <1>4 DEF Path
<1>6. Followed(n) <=> (kind[n] = "link" =>
        FollowSymlinks /\ target[n] # Broken /\ target[n] \notin {Root} \cup LinkedTo(t.nodes))
  BY DEF Followed
<1> QED BY <1>1, <1>5, <1>6 DEF Listed, Fits

-----------------------------------------------------------------------------
(* The steps *)

\* All of it depends on the file system alone, which stands still.
LEMMA DiskStays ==
  ASSUME UNCHANGED disk
  PROVE  /\ DiskInv <=> DiskInv'
         /\ \A p : ListedAs(p)' = ListedAs(p) /\ LinkedTo(p)' = LinkedTo(p)
         /\ \A s, open : Stacked(s, open)' <=> Stacked(s, open)
         /\ \A rec, open, s : AllListed(rec, open, s)' <=> AllListed(rec, open, s)
<1>1. UNCHANGED <<parent, kind, target, name, skip>>
  BY DEF disk
<1>2. \A p : Under(p)' = Under(p) /\ DirAt(p)' = DirAt(p) /\ LinkedTo(p)' = LinkedTo(p)
  BY <1>1 DEF Under, DirAt, LinkedTo
<1>3. \A p : ListedAs(p)' = ListedAs(p)
  BY <1>1 DEF ListedAs
<1>4. \A p, n : Fits(p, n)' <=> Fits(p, n)
  BY <1>1, <1>2 DEF Fits
<1>5. DiskInv <=> DiskInv'
  BY <1>1 DEF DiskInv, IsDisk, IsDir, Ends
<1>6. \A f, k, open : Call(f, k, open)' <=> Call(f, k, open)
  BY <1>1, <1>2 DEF Call, Children
<1>7. \A g, f : Calls(g, f)' <=> Calls(g, f)
  BY <1>1 DEF Calls
<1>8. \A s, open : Stacked(s, open)' <=> Stacked(s, open)
  BY <1>6, <1>7 DEF Stacked
<1>9. \A rec, open, s : AllListed(rec, open, s)' <=> AllListed(rec, open, s)
  BY <1>4 DEF AllListed
<1> QED BY <1>2, <1>3, <1>5, <1>8, <1>9

LEMMA Assemble ==
  ASSUME DiskInv, UNCHANGED disk, NEW s, stack' = s, NEW rec, Recorded' = rec,
         NEW open, OpenWays' = open, Stacked(s, open), AllListed(rec, open, s),
         RecordInv', failed' \subseteq rec,
         s # <<>> => visited' = {Root} \cup LinkedTo(Last(s).nodes)
  PROVE  WalkInv'
<1>1. DiskInv' /\ Stacked(s, open)' /\ AllListed(rec, open, s)'
  BY DiskStays
<1>2. LinkedTo(Last(s).nodes)' = LinkedTo(Last(s).nodes)
  BY DiskStays
<1>3. Stacked(stack, OpenWays)' /\ AllListed(Recorded, OpenWays, stack)'
  <2>1. Stacked(stack, OpenWays)' <=> Stacked(s, open)'
    BY DEF Stacked, Call, Calls, Under, DirAt, Children
  <2>2. AllListed(Recorded, OpenWays, stack)' <=> AllListed(rec, open, s)'
    BY DEF AllListed, Fits, Under, DirAt, LinkedTo
  <2> QED BY <1>1, <2>1, <2>2
<1>4. (stack # <<>> => visited = {Root} \cup LinkedTo(Top.nodes))'
  BY <1>2 DEF Top, LinkedTo
<1> QED BY <1>1, <1>3, <1>4 DEF WalkInv

\* The innermost call with one entry less to come to.
LEMMA TakenIs ==
  ASSUME Settings, WalkInv, NEW s \in Seq(Frame), NEW t \in Frame, NEW n \in t.todo,
         Stacked(s, OpenWays), Len(s) <= MaxDepth, Call(t, Len(s) + 1, OpenWays),
         IF s = <<>> THEN t.via = Root ELSE Calls(Last(s), t)
  PROVE  \E u \in Frame :
           /\ u = [t EXCEPT !.todo = t.todo \ {n}]
           /\ u.nodes = t.nodes /\ u.todo = t.todo \ {n}
           /\ Stacked(Append(s, u), OpenWays)
           /\ Append(s, u) \in Seq(Frame) /\ Len(Append(s, u)) = Len(s) + 1
           /\ Last(Append(s, u)) = u
<1>1. PICK u : u = [t EXCEPT !.todo = t.todo \ {n}]
  OBVIOUS
<1>2. /\ u \in Frame /\ u.nodes = t.nodes /\ u.todo = t.todo \ {n}
      /\ u.base = t.base /\ u.via = t.via
  BY <1>1 DEF Frame
<1>3. Call(u, Len(s) + 1, OpenWays)
  BY <1>2 DEF Call
<1>4. IF s = <<>> THEN u.via = Root ELSE Calls(Last(s), u)
  BY <1>2 DEF Calls
<1>5. PICK open : open = OpenWays
  OBVIOUS
<1>6. Stacked(Append(s, u), open)
  <2>1. MaxDepth \in Nat
    BY DEF Settings
  <2> QED BY <1>2, <1>3, <1>4, <1>5, <2>1, StackedAppend
<1>7. Append(s, u) \in Seq(Frame) /\ Len(Append(s, u)) = Len(s) + 1 /\ Last(Append(s, u)) = u
  BY <1>2, AppendIs
<1> QED BY <1>1, <1>2, <1>5, <1>6, <1>7

LEMMA SkipStep ==
  ASSUME Settings, WalkInv, stack # <<>>, NEW n \in Top.todo, Skip(n)
  PROVE  WalkInv'
<1>1. PICK s \in Seq(Frame), t \in Frame :
        /\ stack = Append(s, t) /\ Top = t /\ Front(stack) = s
        /\ Len(stack) = Len(s) + 1 /\ Len(s) \in Nat /\ Len(t.nodes) = Len(s)
        /\ Stacked(s, OpenWays) /\ Len(s) <= MaxDepth /\ Call(t, Len(s) + 1, OpenWays)
        /\ IF s = <<>> THEN t.via = Root ELSE Calls(Last(s), t)
        /\ visited = {Root} \cup LinkedTo(t.nodes)
  BY TopIs
<1>2. n \in t.todo /\ DiskInv
  BY <1>1 DEF WalkInv
<1>3. PICK u \in Frame :
        /\ u = [t EXCEPT !.todo = t.todo \ {n}]
        /\ u.nodes = t.nodes /\ u.todo = t.todo \ {n}
        /\ Stacked(Append(s, u), OpenWays)
        /\ Append(s, u) \in Seq(Frame) /\ Len(Append(s, u)) = Len(s) + 1
        /\ Last(Append(s, u)) = u
  BY <1>1, <1>2, TakenIs
<1>4. stack' = Append(s, u) /\ UNCHANGED <<disk, visited, records, failed>>
  <2>1. [Top EXCEPT !.todo = Top.todo \ {n}] = u
    BY <1>1, <1>3
  <2> QED BY <1>1, <2>1 DEF Skip, Taken
<1>5. ~Fits(t.nodes, n)
  BY <1>1, <1>2, ListedIsFits DEF Skip, Call
<1>6. PICK rec, open, r : rec = Recorded /\ open = OpenWays /\ r = Append(s, u)
  OBVIOUS
<1>7. t.nodes \in open /\ AllListed(rec, open, Append(s, t))
  BY <1>1, <1>6 DEF Call, WalkInv
<1>8. AllListed(rec, open, r)
  <2>1. rec = Grown(rec, t.nodes, n)
    BY <1>5 DEF Grown
  <2>2. Stacked(s, open)
    BY <1>1, <1>6
  <2>3. Len(t.nodes) = Len(s) /\ u.nodes = t.nodes /\ u.todo = t.todo \ {n}
    BY <1>1, <1>3
  <2>4. AllListed(Grown(rec, t.nodes, n), open, Append(s, u))
    BY <1>2, <1>7, <2>2, <2>3, ListedNext
  <2> QED BY <1>6, <2>1, <2>4
<1>9. Recorded' = rec /\ OpenWays' = open /\ stack' = r
  BY <1>4, <1>6 DEF Recorded, OpenWays
<1>10. RecordInv'
  BY <1>4, DiskStays DEF WalkInv, RecordInv
<1>11. failed' \subseteq rec /\ (r # <<>> => visited' = {Root} \cup LinkedTo(Last(r).nodes))
  BY <1>1, <1>3, <1>4, <1>6 DEF WalkInv
<1>12. Stacked(r, open)
  BY <1>3, <1>6
<1> QED BY <1>2, <1>4, <1>8, <1>9, <1>10, <1>11, <1>12, Assemble

\* What List and Enter have in common.
LEMMA RecordStep ==
  ASSUME Settings, WalkInv, stack # <<>>, NEW n \in Top.todo, Listed(n), Record(n), UNCHANGED disk
  PROVE  \E s \in Seq(Frame), t \in Frame, u \in Frame, q \in Seq(Nodes) :
           /\ Top = t /\ Len(stack) = Len(s) + 1 /\ Len(s) \in Nat /\ n \in Nodes
           /\ u.nodes = t.nodes /\ Taken(t.todo \ {n}) = Append(s, u)
           /\ Append(s, u) \in Seq(Frame) /\ Len(Append(s, u)) = Len(s) + 1
           /\ Last(Append(s, u)) = u /\ Stacked(Append(s, u), OpenWays)
           /\ q = Append(t.nodes, n) /\ Len(q) = Len(s) + 1 /\ q # <<>> /\ Last(q) = n
           /\ t.nodes \in Seq(Nodes) /\ t.base = Under(t.nodes)
           /\ q \notin Recorded /\ Recorded' = Recorded \cup {q} /\ RecordInv'
           /\ AllListed(Recorded \cup {q}, OpenWays, Append(s, u))
           /\ \A m \in Nodes : Append(q, m) \notin Recorded \cup {q}
           /\ visited = {Root} \cup LinkedTo(t.nodes)
<1>1. PICK s \in Seq(Frame), t \in Frame :
        /\ stack = Append(s, t) /\ Top = t /\ Front(stack) = s
        /\ Len(stack) = Len(s) + 1 /\ Len(s) \in Nat /\ Len(t.nodes) = Len(s)
        /\ Stacked(s, OpenWays) /\ Len(s) <= MaxDepth /\ Call(t, Len(s) + 1, OpenWays)
        /\ IF s = <<>> THEN t.via = Root ELSE Calls(Last(s), t)
        /\ visited = {Root} \cup LinkedTo(t.nodes)
  BY TopIs
<1>2. n \in t.todo /\ DiskInv /\ RecordInv
  BY <1>1 DEF WalkInv
<1>3. PICK u \in Frame :
        /\ u = [t EXCEPT !.todo = t.todo \ {n}]
        /\ u.nodes = t.nodes /\ u.todo = t.todo \ {n}
        /\ Stacked(Append(s, u), OpenWays)
        /\ Append(s, u) \in Seq(Frame) /\ Len(Append(s, u)) = Len(s) + 1
        /\ Last(Append(s, u)) = u
  BY <1>1, <1>2, TakenIs
<1>4. Taken(t.todo \ {n}) = Append(s, u)
  BY <1>1, <1>3 DEF Taken
<1>5. Fits(t.nodes, n)
  BY <1>1, <1>2, ListedIsFits DEF Call
<1>6. t.nodes \in Seq(Nodes) /\ n \in Nodes /\ t.base = Under(t.nodes)
  BY <1>1, <1>2 DEF Frame, Call
<1>7. PICK q \in Seq(Nodes) : q = Append(t.nodes, n)
  BY <1>6, AppendIs
<1>8. Len(q) = Len(s) + 1 /\ q # <<>> /\ Last(q) = n
  BY <1>1, <1>6, <1>7, AppendIs
<1>9. PICK rec, open : rec = Recorded /\ open = OpenWays
  OBVIOUS
<1>10. t.nodes \in open /\ AllListed(rec, open, Append(s, t)) /\ Stacked(s, open)
  BY <1>1, <1>9 DEF Call, WalkInv
<1>11. AllListed(rec \cup {q}, open, Append(s, u)) /\ q \notin rec
  <2>1. Len(t.nodes) = Len(s) /\ u.nodes = t.nodes /\ u.todo = t.todo \ {n}
    BY <1>1, <1>3
  <2>2. AllListed(Grown(rec, t.nodes, n), open, Append(s, u)) /\ Append(t.nodes, n) \notin rec
    BY <1>2, <1>10, <2>1, ListedNext
  <2>3. Grown(rec, t.nodes, n) = rec \cup {q}
    BY <1>5, <1>7 DEF Grown
  <2> QED BY <1>7, <2>2, <2>3
<1>12. \A m \in Nodes : Append(q, m) \notin rec \cup {q}
  <2>1. q \notin open
    BY <1>8, <1>9, <1>11 DEF OpenWays
  <2> QED BY <1>11, <2>1 DEF AllListed
<1>13. PICK r : r = [nodes |-> q, path |-> Path(n), dir |-> IsDir(target[n])]
  OBVIOUS
<1>14. records' = records \cup {r} /\ r.nodes = q
  BY <1>1, <1>7, <1>13 DEF Record
<1>15. Recorded' = rec \cup {q}
  BY <1>9, <1>14 DEF Recorded
<1>16. r.path = ListedAs(q)
  BY <1>1, <1>2, <1>6, <1>7, <1>13, UnderAppend DEF Path
<1>17. RecordInv'
  <2>1. \A p : ListedAs(p)' = ListedAs(p)
    BY DiskStays
  <2> QED BY <1>2, <1>8, <1>14, <1>16, <2>1 DEF RecordInv
<1>18. u.nodes = t.nodes
  BY <1>3
<1> QED BY <1>1, <1>3, <1>4, <1>6, <1>7, <1>8, <1>9, <1>11, <1>12, <1>15, <1>17, <1>18

\* Below a file there is nothing, and below a directory that is too deep nothing is listed.
LEMMA NothingBelow ==
  ASSUME Settings, DiskInv, NEW q \in Seq(Nodes), q # <<>>, NEW m \in Nodes, Fits(q, m)
  PROVE  IsDir(target[Last(q)]) /\ ~(Len(q) > MaxDepth)
<1>1. parent[m] = target[Last(q)] /\ IsDir(parent[m])
  BY DEF Fits, DirAt, DiskInv, IsDisk
<1>2. Len(q) \in Nat /\ MaxDepth \in Nat /\ Len(q) <= MaxDepth
  BY LenProperties DEF Fits, Settings
<1>3. ~(Len(q) > MaxDepth)
  BY <1>2
<1> QED BY <1>1, <1>3

LEMMA ListStep ==
  ASSUME Settings, WalkInv, stack # <<>>, NEW n \in Top.todo, List(n)
  PROVE  WalkInv'
<1>1. PICK s \in Seq(Frame), t \in Frame, u \in Frame, q \in Seq(Nodes) :
        /\ Top = t /\ Len(stack) = Len(s) + 1 /\ Len(s) \in Nat /\ n \in Nodes
        /\ u.nodes = t.nodes /\ Taken(t.todo \ {n}) = Append(s, u)
        /\ Append(s, u) \in Seq(Frame) /\ Len(Append(s, u)) = Len(s) + 1
        /\ Last(Append(s, u)) = u /\ Stacked(Append(s, u), OpenWays)
        /\ q = Append(t.nodes, n) /\ Len(q) = Len(s) + 1 /\ q # <<>> /\ Last(q) = n
        /\ t.nodes \in Seq(Nodes) /\ t.base = Under(t.nodes)
        /\ q \notin Recorded /\ Recorded' = Recorded \cup {q} /\ RecordInv'
        /\ AllListed(Recorded \cup {q}, OpenWays, Append(s, u))
        /\ \A m \in Nodes : Append(q, m) \notin Recorded \cup {q}
        /\ visited = {Root} \cup LinkedTo(t.nodes)
  BY RecordStep DEF List
<1>2. PICK rec, open, r : rec = Recorded \cup {q} /\ open = OpenWays /\ r = Append(s, u)
  OBVIOUS
<1>3. DiskInv /\ UNCHANGED <<disk, visited>> /\ stack' = r /\ Recorded' = rec
  BY <1>1, <1>2 DEF List, WalkInv
<1>4. r # <<>> => visited' = {Root} \cup LinkedTo(Last(r).nodes)
  BY <1>1, <1>2, <1>3
<1>5. Stacked(r, open) /\ AllListed(rec, open, r) /\ \A m \in Nodes : Append(q, m) \notin rec
  BY <1>1, <1>2
<1>6. failed \subseteq Recorded /\ q \notin failed
  BY <1>1 DEF WalkInv
<1>7. CASE UNCHANGED failed /\ (~IsDir(target[n]) \/ Len(stack) > MaxDepth)
  <2>1. OpenWays' = open \cup {q}
    <3>1. OpenWays' = {<<>>} \cup (rec \ failed)
      BY <1>3, <1>7 DEF OpenWays
    <3> QED BY <1>2, <1>6, <3>1 DEF OpenWays
  <2>2. Stacked(r, open \cup {q})
    BY <1>5, StackedMore
  <2>3. \A m \in Nodes : Fits(q, m) => Waiting(r, q, m)
    BY <1>1, <1>3, <1>7, NothingBelow
  <2>4. AllListed(rec, open \cup {q}, r)
    BY <1>5, <2>3, ListedOpen
  <2>5. failed' \subseteq rec
    BY <1>2, <1>6, <1>7
  <2> QED BY <1>1, <1>3, <1>4, <2>1, <2>2, <2>4, <2>5, Assemble
<1>8. CASE failed' = failed \cup {q}
  <2>1. OpenWays' = open
    <3>1. OpenWays' = {<<>>} \cup (rec \ (failed \cup {q}))
      BY <1>3, <1>8 DEF OpenWays
    <3> QED BY <1>1, <1>2, <3>1 DEF OpenWays
  <2>2. failed' \subseteq rec
    BY <1>2, <1>6, <1>8
  <2> QED BY <1>1, <1>3, <1>4, <1>5, <2>1, <2>2, Assemble
<1> QED BY <1>1, <1>7, <1>8 DEF List

LEMMA EnterStep ==
  ASSUME Settings, WalkInv, stack # <<>>, NEW n \in Top.todo, Enter(n)
  PROVE  WalkInv'
<1>1. PICK s \in Seq(Frame), t \in Frame, u \in Frame, q \in Seq(Nodes) :
        /\ Top = t /\ Len(stack) = Len(s) + 1 /\ Len(s) \in Nat /\ n \in Nodes
        /\ u.nodes = t.nodes /\ Taken(t.todo \ {n}) = Append(s, u)
        /\ Append(s, u) \in Seq(Frame) /\ Len(Append(s, u)) = Len(s) + 1
        /\ Last(Append(s, u)) = u /\ Stacked(Append(s, u), OpenWays)
        /\ q = Append(t.nodes, n) /\ Len(q) = Len(s) + 1 /\ q # <<>> /\ Last(q) = n
        /\ t.nodes \in Seq(Nodes) /\ t.base = Under(t.nodes)
        /\ q \notin Recorded /\ Recorded' = Recorded \cup {q} /\ RecordInv'
        /\ AllListed(Recorded \cup {q}, OpenWays, Append(s, u))
        /\ \A m \in Nodes : Append(q, m) \notin Recorded \cup {q}
        /\ visited = {Root} \cup LinkedTo(t.nodes)
  BY RecordStep DEF Enter
<1>2. PICK rec, open, v : rec = Recorded \cup {q} /\ open = OpenWays /\ v = Append(s, u)
  OBVIOUS
<1>3. PICK f : f = [dir |-> target[n], via |-> IF kind[n] = "link" THEN target[n] ELSE Root,
                    nodes |-> q, base |-> Under(t.nodes) \o name[n].under,
                    todo |-> Children(target[n])]
  OBVIOUS
<1>4. PICK r : r = Append(v, f)
  OBVIOUS
<1>5. DiskInv /\ UNCHANGED <<disk, failed>> /\ stack' = r /\ Recorded' = rec
  BY <1>1, <1>2, <1>3, <1>4 DEF Enter, WalkInv
<1>6. f.base = Under(q) /\ f.nodes = q /\ f.todo = Children(DirAt(q))
  BY <1>1, <1>3, <1>5, UnderAppend DEF DirAt
<1>7. f \in Frame
  <2>1. target[n] \in Nat /\ f.via \in Nat
    BY <1>1, <1>3, <1>5 DEF DiskInv, Root
  <2>2. f.base \in Seq(Component)
    BY <1>5, <1>6, UnderTyped
  <2>3. f.todo \in SUBSET Nodes
    BY <1>3 DEF Children
  <2>4. f = [dir |-> target[n], via |-> f.via, nodes |-> q, base |-> f.base, todo |-> f.todo]
    BY <1>3
  <2> QED BY <2>1, <2>2, <2>3, <2>4 DEF Frame
<1>8. v \in Seq(Frame) /\ Len(v) = Len(s) + 1 /\ Last(v) = u /\ v # <<>> /\ Stacked(v, open)
  <2>1. v # <<>>
    BY <1>1, <1>2, AppendIs
  <2> QED BY <1>1, <1>2, <2>1
<1>9. Stacked(r, open \cup {q})
  <2>1. Stacked(v, open \cup {q})
    BY <1>8, StackedMore
  <2>2. Call(f, Len(v) + 1, open \cup {q})
    <3>1. Len(f.nodes) = (Len(v) + 1) - 1
      BY <1>1, <1>6, <1>8
    <3> QED BY <1>6, <3>1 DEF Call
  <2>3. Calls(Last(v), f)
    BY <1>1, <1>3, <1>8 DEF Calls
  <2>4. MaxDepth \in Nat /\ Len(v) <= MaxDepth
    BY <1>1, <1>8 DEF Settings, Enter
  <2> QED BY <1>4, <1>7, <1>8, <2>1, <2>2, <2>3, <2>4, StackedAppend
<1>10. OpenWays' = open \cup {q} /\ failed' \subseteq rec
  <2>1. failed \subseteq Recorded /\ q \notin failed
    BY <1>1 DEF WalkInv
  <2>2. OpenWays' = {<<>>} \cup (rec \ failed)
    BY <1>5 DEF OpenWays
  <2> QED BY <1>2, <1>5, <2>1, <2>2 DEF OpenWays
<1>11. AllListed(rec, open \cup {q}, r)
  <2>1. \A p, m : Waiting(r, p, m) <=> Waiting(v, p, m) \/ (q = p /\ m \in f.todo)
    BY <1>4, <1>6, <1>7, <1>8, WaitingAppend
  <2>2. \A m \in Nodes : Fits(q, m) => m \in f.todo
    BY <1>6 DEF Fits, Children
  <2>3. AllListed(rec, open, v) /\ \A m \in Nodes : Append(q, m) \notin rec
    BY <1>1, <1>2
  <2> QED BY <2>1, <2>2, <2>3, ListedOpen
<1>12. r # <<>> => visited' = {Root} \cup LinkedTo(Last(r).nodes)
  <2>1. Last(r) = f
    BY <1>4, <1>7, <1>8, AppendIs
  <2>2. visited' = IF kind[n] = "link" THEN visited \cup {target[n]} ELSE visited
    BY DEF Enter
  <2>3. LinkedTo(q) = LinkedTo(t.nodes) \cup (IF kind[n] = "link" THEN {target[n]} ELSE {})
    BY <1>1, LinkedAppend
  <2> QED BY <1>1, <1>6, <2>1, <2>2, <2>3
<1> QED BY <1>1, <1>5, <1>9, <1>10, <1>11, <1>12, Assemble

\* The directory that a call was for is no longer visited, and the others still are: no
\* link may lead to a directory that an earlier one on the way has led to.
LEMMA LeaveStep ==
  ASSUME Settings, WalkInv, stack # <<>>, Leave
  PROVE  WalkInv'
<1>1. PICK s \in Seq(Frame), t \in Frame :
        /\ stack = Append(s, t) /\ Top = t /\ Front(stack) = s
        /\ Len(stack) = Len(s) + 1 /\ Len(s) \in Nat /\ Len(t.nodes) = Len(s)
        /\ Stacked(s, OpenWays) /\ Len(s) <= MaxDepth /\ Call(t, Len(s) + 1, OpenWays)
        /\ IF s = <<>> THEN t.via = Root ELSE Calls(Last(s), t)
        /\ visited = {Root} \cup LinkedTo(t.nodes)
  BY TopIs
<1>2. PICK rec, open : rec = Recorded /\ open = OpenWays
  OBVIOUS
<1>3. /\ DiskInv /\ RecordInv /\ UNCHANGED <<disk, records, failed>> /\ stack' = s
      /\ t.todo = {} /\ visited' = IF t.via = Root THEN visited ELSE visited \ {t.via}
  BY <1>1 DEF Leave, WalkInv
<1>4. Recorded' = rec /\ OpenWays' = open /\ failed' \subseteq rec
  BY <1>2, <1>3 DEF Recorded, OpenWays, WalkInv
<1>5. RecordInv'
  BY <1>3, DiskStays DEF RecordInv
<1>6. AllListed(rec, open, stack)
  BY <1>2 DEF WalkInv
<1>7. AllListed(rec, open, s)
  <2>1. \A p, m : Waiting(stack, p, m) <=> Waiting(s, p, m)
    BY <1>1, <1>3, WaitingAppend
  <2> QED BY <1>6, <2>1 DEF AllListed
<1>8. ASSUME s # <<>>
      PROVE  visited' = {Root} \cup LinkedTo(Last(s).nodes)
  <2>1. PICK g : g = Last(s)
    OBVIOUS
  <2>2. g \in Frame
    <3>1. PICK w \in Seq(Frame), x \in Frame : s = Append(w, x)
      BY <1>8, EmptyOrAppend
    <3> QED BY <2>1, <3>1, AppendIs
  <2>3. PICK m \in Nodes :
          t.nodes = Append(g.nodes, m) /\ t.via = IF kind[m] = "link" THEN target[m] ELSE Root
    BY <1>1, <1>8, <2>1 DEF Calls
  <2>4. PICK p \in Seq(Nodes) : p = g.nodes
    BY <2>2 DEF Frame
  <2>5. Append(p, m) \in rec
    <3>1. t.nodes \in open
      BY <1>1, <1>2 DEF Call
    <3>2. Append(p, m) # <<>>
      BY AppendIs
    <3> QED BY <1>2, <2>3, <2>4, <3>1, <3>2 DEF OpenWays
  <2>6. kind[m] = "link" => target[m] \notin {Root} \cup LinkedTo(p)
    BY <1>6, <2>5 DEF AllListed, Fits
  <2>7. LinkedTo(t.nodes) = LinkedTo(p) \cup (IF kind[m] = "link" THEN {target[m]} ELSE {})
    BY <2>3, <2>4, LinkedAppend
  <2> QED BY <1>1, <1>3, <2>1, <2>3, <2>4, <2>6, <2>7
<1>9. Stacked(s, open)
  BY <1>1, <1>2
<1> QED BY <1>3, <1>4, <1>5, <1>7, <1>8, <1>9, Assemble

LEMMA WalkBegins ==
  ASSUME Settings, Init
  PROVE  WalkInv
<1>1. DiskInv
  <2>1. IsDisk
    BY DEF Init
  <2>2. ASSUME NEW n \in Nodes
        PROVE  name[n] \in AllNames
    <3>1. PICK f \in [Nodes -> UNION {Names[m] : m \in Nodes}] : name = f
      BY DEF Init
    <3> QED BY <3>1 DEF AllNames
  <2>3. ASSUME NEW n \in Nodes
        PROVE  target[n] \in Nat
    <3>1. target[n] \in Ends
      BY <2>1 DEF IsDisk
    <3>2. N \in Nat
      BY DEF Settings
    <3> QED BY <3>1, <3>2 DEF Ends, Nodes, Root, Elsewhere, Broken
  <2> QED BY <2>1, <2>2, <2>3 DEF DiskInv
<1>2. PICK f : f = [dir |-> Root, via |-> Root, nodes |-> <<>>, base |-> <<>>,
                    todo |-> Children(Root)]
  OBVIOUS
<1>3. stack = <<f>> /\ visited = {Root} /\ records = {} /\ failed = {}
  BY <1>2 DEF Init
<1>4. Under(<<>>) = <<>> /\ LinkedTo(<<>>) = {} /\ DirAt(<<>>) = Root
  <2>1. Len(<<>>) = 0 /\ 1 .. 0 = {}
    OBVIOUS
  <2> QED BY <2>1 DEF Under, FlattenSeq, LinkedTo, DirAt
<1>5. f \in Frame
  BY <1>2 DEF Frame, Root, Children
<1>6. <<>> \in Seq(Frame) /\ stack = Append(<<>>, f) /\ Last(stack) = f
  BY <1>3, <1>5 DEF Last
<1>7. Recorded = {} /\ OpenWays = {<<>>}
  BY <1>3 DEF Recorded, OpenWays
<1>8. Stacked(stack, {<<>>})
  <2>1. MaxDepth \in Nat /\ Len(<<>>) = 0
    BY DEF Settings
  <2>2. Stacked(<<>>, {<<>>})
    BY <1>6, <2>1 DEF Stacked
  <2>3. Call(f, Len(<<>>) + 1, {<<>>})
    BY <1>2, <1>4 DEF Call
  <2>4. f.via = Root
    BY <1>2
  <2>5. PICK w, open : w \in Seq(Frame) /\ w = <<>> /\ open = {<<>>}
    BY <1>6
  <2>6. Stacked(Append(w, f), open) <=>
          /\ Stacked(w, open) /\ Len(w) <= MaxDepth /\ Call(f, Len(w) + 1, open)
          /\ IF w = <<>> THEN f.via = Root ELSE Calls(Last(w), f)
    BY <1>5, <2>1, <2>5, StackedAppend
  <2>7. Len(w) <= MaxDepth
    BY <2>1, <2>5
  <2> QED BY <1>6, <2>2, <2>3, <2>4, <2>5, <2>6, <2>7
<1>9. AllListed({}, {<<>>}, stack)
  <2> SUFFICES ASSUME NEW p \in Seq(Nodes), NEW m \in Nodes, p = <<>>, Fits(p, m)
               PROVE  Waiting(stack, p, m)
    BY DEF AllListed
  <2>1. f.nodes = p /\ m \in f.todo
    BY <1>2, <1>4 DEF Fits, Children
  <2> QED BY <1>5, <1>6, <2>1, WaitingAppend
<1>10. visited = {Root} \cup LinkedTo(Top.nodes)
  BY <1>2, <1>3, <1>4, <1>6 DEF Top
<1>11. RecordInv /\ failed \subseteq Recorded
  BY <1>3 DEF RecordInv
<1> QED BY <1>1, <1>7, <1>8, <1>9, <1>10, <1>11 DEF WalkInv

LEMMA WalkGoesOn ==
  ASSUME Settings, WalkInv, [Next]_vars
  PROVE  WalkInv'
<1>1. CASE UNCHANGED vars
  <2>1. /\ UNCHANGED <<disk, stack, visited, records, failed>>
    BY <1>1 DEF vars
  <2>2. Recorded' = Recorded /\ OpenWays' = OpenWays
    BY <2>1 DEF Recorded, OpenWays
  <2>3. RecordInv'
    BY <2>1, DiskStays DEF RecordInv, WalkInv
  <2>4. stack # <<>> => visited' = {Root} \cup LinkedTo(Last(stack).nodes)
    BY <2>1 DEF WalkInv, Top
  <2>5. PICK s, rec, open : s = stack /\ rec = Recorded /\ open = OpenWays
    OBVIOUS
  <2>6. /\ DiskInv /\ stack' = s /\ Recorded' = rec /\ OpenWays' = open
        /\ Stacked(s, open) /\ AllListed(rec, open, s) /\ failed' \subseteq rec
        /\ (s # <<>> => visited' = {Root} \cup LinkedTo(Last(s).nodes))
    BY <2>1, <2>2, <2>4, <2>5 DEF WalkInv
  <2> QED BY <2>1, <2>3, <2>6, Assemble
<1>2. CASE Walk
  <2>1. CASE Leave
    BY <1>2, <2>1, LeaveStep DEF Walk
  <2>2. CASE \E n \in Top.todo : Skip(n) \/ List(n) \/ Enter(n)
    BY <1>2, <2>2, SkipStep, ListStep, EnterStep DEF Walk
  <2> QED BY <1>2, <2>1, <2>2 DEF Walk
<1> QED BY <1>1, <1>2 DEF Next, Finished

-----------------------------------------------------------------------------
(* What the invariant says *)

\* When no call is left nothing waits: what is listed is all there is below the open ways,
\* and these are the ways that should be listed.
LEMMA ListedIsGoal ==
  ASSUME Settings, WalkInv, stack = <<>>
  PROVE  Recorded = Goal
<1> DEFINE T == {p \in Seq(Nodes) : p \in Goal <=> p \in Recorded}
<1>1. DiskInv /\ \A p \in Recorded : p \in Seq(Nodes) /\ p # <<>>
  BY DEF WalkInv, RecordInv, Recorded
<1>2. \A p \in Goal : p \in Seq(Nodes) /\ p # <<>>
  BY <1>1, GoalIs
<1>3. <<>> \in T
  <2>1. <<>> \in Seq(Nodes)
    OBVIOUS
  <2> QED BY <1>1, <1>2, <2>1
<1>4. ASSUME NEW p \in T, NEW n \in Nodes
      PROVE  Append(p, n) \in T
  <2>1. p \in Seq(Nodes) /\ (p \in Goal <=> p \in Recorded) /\ Append(p, n) \in Seq(Nodes)
    BY AppendIs
  <2>2. Append(p, n) \in Goal <=> (p = <<>> \/ (p \in Goal /\ p \notin failed)) /\ Fits(p, n)
    BY <1>1, <2>1, GoalAppend
  <2>3. Append(p, n) \in Recorded <=> p \in OpenWays /\ Fits(p, n) /\ ~Waiting(stack, p, n)
    BY <2>1 DEF WalkInv, AllListed
  <2>4. ~Waiting(stack, p, n)
    <3>1. Len(<<>>) = 0 /\ 1 .. 0 = {}
      OBVIOUS
    <3> QED BY <3>1 DEF Waiting
  <2> QED BY <2>1, <2>2, <2>3, <2>4 DEF OpenWays
<1>5. T = Seq(Nodes)
  <2>1. T \in SUBSET Seq(Nodes)
    OBVIOUS
  <2> HIDE DEF T
  <2> QED BY <1>3, <1>4, <2>1, SeqInduction
<1>6. \A p \in Seq(Nodes) : p \in Goal <=> p \in Recorded
  BY <1>5
<1> HIDE DEF T
<1> QED BY <1>1, <1>2, <1>6

\* While calls are left, nothing is listed that should not be.
LEMMA ListedInGoal ==
  ASSUME Settings, WalkInv
  PROVE  Recorded \subseteq Goal
<1> DEFINE T == {p \in Seq(Nodes) : p \in Recorded => p \in Goal}
<1>1. DiskInv /\ \A p \in Recorded : p \in Seq(Nodes) /\ p # <<>>
  BY DEF WalkInv, RecordInv, Recorded
<1>2. <<>> \in T
  <2>1. <<>> \in Seq(Nodes)
    OBVIOUS
  <2> QED BY <1>1, <2>1
<1>3. ASSUME NEW p \in T, NEW n \in Nodes
      PROVE  Append(p, n) \in T
  <2>1. p \in Seq(Nodes) /\ (p \in Recorded => p \in Goal) /\ Append(p, n) \in Seq(Nodes)
    BY AppendIs
  <2>2. Append(p, n) \in Goal <=> (p = <<>> \/ (p \in Goal /\ p \notin failed)) /\ Fits(p, n)
    BY <1>1, <2>1, GoalAppend
  <2>3. Append(p, n) \in Recorded => p \in OpenWays /\ Fits(p, n)
    BY <2>1 DEF WalkInv, AllListed
  <2> QED BY <2>1, <2>2, <2>3 DEF OpenWays
<1>4. T = Seq(Nodes)
  <2>1. T \in SUBSET Seq(Nodes)
    OBVIOUS
  <2> HIDE DEF T
  <2> QED BY <1>2, <1>3, <2>1, SeqInduction
<1> QED BY <1>1, <1>4

\* An entry that its call has not come to is not listed yet.
LEMMA FreshWay ==
  ASSUME Settings, WalkInv, stack # <<>>, NEW n \in Top.todo
  PROVE  Append(Top.nodes, n) \notin Recorded
<1>1. PICK s \in Seq(Frame), t \in Frame : stack = Append(s, t) /\ Top = t
  BY TopIs
<1>2. PICK p \in Seq(Nodes) : p = t.nodes
  BY DEF Frame
<1>3. n \in t.todo /\ n \in Nodes
  BY <1>1 DEF Frame
<1>4. Waiting(stack, p, n)
  BY <1>1, <1>2, <1>3, WaitingAppend
<1>5. Append(p, n) \notin Recorded
  BY <1>3, <1>4 DEF WalkInv, AllListed
<1> QED BY <1>1, <1>2, <1>5

LEMMA InvMeansReach ==
  ASSUME Settings, WalkInv
  PROVE  WalkIsReach
<1> SUFFICES ASSUME stack = <<>>
             PROVE  Recorded = Goal
  BY DEF WalkIsReach, Recorded, Goal
<1> QED BY ListedIsGoal

\* No name on the way has a separator in it.
Plain(p) == \A i \in 1 .. Len(p) : Len(name[p[i]].under) = 1

LEMMA PlainAppend ==
  ASSUME NEW p \in Seq(Nodes), NEW n \in Nodes
  PROVE  Plain(Append(p, n)) <=> Plain(p) /\ Len(name[n].under) = 1
<1>1. PICK q, k : q = Append(p, n) /\ k = Len(p)
  OBVIOUS
<1>2. Len(q) = k + 1 /\ k \in Nat /\ q[k + 1] = n /\ \A i \in 1 .. k : q[i] = p[i]
  BY <1>1, AppendIs
<1>3. \A i : i \in 1 .. k + 1 <=> i \in 1 .. k \/ i = k + 1
  BY <1>2, PlaceIs
<1> QED BY <1>1, <1>2, <1>3 DEF Plain

LEMMA OneMore ==
  \A u, v, x, y \in Seq(Component) :
    Len(x) = 1 /\ Len(y) = 1 /\ u \o x = v \o y => u = v /\ x = y
<1> SUFFICES ASSUME NEW u \in Seq(Component), NEW v \in Seq(Component),
                    NEW x \in Seq(Component), NEW y \in Seq(Component),
                    Len(x) = 1, Len(y) = 1, u \o x = v \o y
             PROVE  u = v /\ x = y
  OBVIOUS
<1>1. /\ x = <<x[1]>> /\ y = <<y[1]>> /\ x[1] \in Component /\ y[1] \in Component
  BY LenProperties
<1>2. PICK a \in Component, b \in Component : a = x[1] /\ b = y[1]
  BY <1>1
<1>3. u \o <<a>> = Append(u, a) /\ v \o <<b>> = Append(v, b)
  BY AppendIsConcat
<1>4. Append(u, a) = Append(v, b)
  BY <1>1, <1>2, <1>3
<1>5. u = v /\ a = b
  BY <1>4, AppendInj
<1> QED BY <1>1, <1>2, <1>5

LEMMA EmptyUnder ==
  Under(<<>>) = <<>>
<1>1. Len(<<>>) = 0 /\ 1 .. 0 = {}
  OBVIOUS
<1> QED BY <1>1 DEF Under, FlattenSeq

\* Without separators, two ways with the same components are the same: their last entries
\* have one name, in one directory.
LEMMA PlainWays ==
  ASSUME Settings, WalkInv, NEW p \in Seq(Nodes), NEW q \in Seq(Nodes),
         p \in {<<>>} \cup Recorded, q \in {<<>>} \cup Recorded,
         Plain(p), Plain(q), Under(p) = Under(q)
  PROVE  p = q
<1> DEFINE Known(w) == w \in {<<>>} \cup Recorded /\ Plain(w)
           T == {w \in Seq(Nodes) : Known(w) =>
                   \A v \in Seq(Nodes) : Known(v) /\ Under(w) = Under(v) => w = v}
<1>1. DiskInv
  BY DEF WalkInv
<1>2. Under(<<>>) = <<>> /\ <<>> \in Seq(Nodes)
  BY EmptyUnder
<1>3. ASSUME NEW w \in Seq(Nodes), NEW n \in Nodes, Known(Append(w, n))
      PROVE  Known(w) /\ Fits(w, n) /\ Len(name[n].under) = 1
  <2>1. Append(w, n) \in Recorded
    BY <1>3, AppendIs
  <2>2. w \in OpenWays /\ Fits(w, n)
    BY <2>1 DEF WalkInv, AllListed
  <2>3. Plain(w) /\ Len(name[n].under) = 1
    BY <1>3, PlainAppend
  <2> QED BY <2>2, <2>3 DEF OpenWays
<1> HIDE DEF Known
<1>4. \A v \in Seq(Nodes) : Under(v) = <<>> => v = <<>>
  <2> TAKE v \in Seq(Nodes)
  <2>1. Len(v) <= Len(Under(v)) /\ Len(v) \in Nat /\ Len(<<>>) = 0
    BY <1>1, UnderTyped
  <2> QED BY <2>1, EmptySeq
<1>5. <<>> \in T
  BY <1>2, <1>4
<1>6. ASSUME NEW w \in T, NEW n \in Nodes
      PROVE  Append(w, n) \in T
  <2>0. w \in Seq(Nodes) /\ Append(w, n) \in Seq(Nodes)
    BY AppendIs
  <2> SUFFICES ASSUME NEW v \in Seq(Nodes), Known(Append(w, n)), Known(v),
                      Under(Append(w, n)) = Under(v)
               PROVE  Append(w, n) = v
    BY <2>0
  <2>1. PICK u, x : u = Under(w) /\ x = name[n].under
    OBVIOUS
  <2>2. Known(w) /\ Fits(w, n) /\ Len(x) = 1
    BY <1>3, <2>0, <2>1
  <2>3. u \in Seq(Component) /\ x \in Seq(Component) /\ name[n].own = x
    BY <1>1, <2>0, <2>1, <2>2, UnderTyped, NameIs
  <2>4. Under(v) = u \o x
    BY <1>1, <2>0, <2>1, UnderAppend
  <2>5. v # <<>>
    <3>1. Len(u \o x) = Len(u) + Len(x)
      BY <2>3, ConcatProperties
    <3>2. Len(u) \in Nat /\ Len(x) = 1 /\ Len(<<>>) = 0
      BY <2>2, <2>3, LenProperties
    <3>3. u \o x # <<>>
      BY <3>1, <3>2
    <3> QED BY <1>2, <2>4, <3>3
  <2>6. PICK z \in Seq(Nodes), m \in Nodes : v = Append(z, m)
    BY <2>5, EmptyOrAppend
  <2>7. PICK a, y : a = Under(z) /\ y = name[m].under
    OBVIOUS
  <2>8. Known(z) /\ Fits(z, m) /\ Len(y) = 1
    BY <1>3, <2>6, <2>7
  <2>9. a \in Seq(Component) /\ y \in Seq(Component) /\ name[m].own = y
    BY <1>1, <2>7, <2>8, UnderTyped, NameIs
  <2>10. Under(v) = a \o y
    BY <1>1, <2>6, <2>7, UnderAppend
  <2>11. u = a /\ x = y
    <3>1. u \o x = a \o y
      BY <2>4, <2>10
    <3>2. Len(x) = 1 /\ Len(y) = 1
      BY <2>2, <2>8
    <3>3. u \in Seq(Component) /\ x \in Seq(Component) /\ a \in Seq(Component) /\ y \in Seq(Component)
      BY <2>3, <2>9
    <3> HIDE DEF T
    <3>4. u \o x = a \o y => u = a /\ x = y
      BY ONLY <3>2, <3>3, OneMore
    <3> QED BY <3>1, <3>4
  <2>12. w = z
    BY <2>1, <2>2, <2>7, <2>8, <2>11
  <2>13. n = m
    <3>1. parent[n] = parent[m]
      BY <2>2, <2>8, <2>12 DEF Fits
    <3>2. name[n] = [own |-> x, under |-> x] /\ name[m] = [own |-> y, under |-> y]
      BY <1>1, <2>1, <2>3, <2>7, <2>9, NameIs
    <3> QED BY <1>1, <2>11, <3>1, <3>2 DEF DiskInv, IsDisk
  <2> QED BY <2>6, <2>12, <2>13
<1>7. T = Seq(Nodes)
  <2>1. T \in SUBSET Seq(Nodes)
    OBVIOUS
  <2> HIDE DEF T
  <2> QED BY <1>5, <1>6, <2>1, SeqInduction
<1>8. Known(p) /\ Known(q)
  BY DEF Known
<1> QED BY <1>7, <1>8

LEMMA PlainPath ==
  ASSUME Settings, DiskInv, NEW p \in Seq(Nodes), p # <<>>, Plain(p)
  PROVE  ListedAs(p) = Under(p)
<1>1. PICK w \in Seq(Nodes), n \in Nodes : p = Append(w, n)
  BY EmptyOrAppend
<1>2. Len(name[n].under) = 1
  BY <1>1, PlainAppend
<1>3. name[n].own = name[n].under
  BY <1>2, NameIs
<1> QED BY <1>1, <1>3, UnderAppend

LEMMA InvMeansApart ==
  ASSUME Settings, WalkInv
  PROVE  OnlySeparatorsCollide
<1> SUFFICES ASSUME NEW q \in records, NEW r \in records, q.path = r.path, q.nodes # r.nodes,
                    ~\E n \in Range(q.nodes) \cup Range(r.nodes) : Len(name[n].under) > 1
             PROVE  FALSE
  BY DEF OnlySeparatorsCollide
<1>1. ASSUME NEW x \in {q, r}
      PROVE  /\ x.nodes \in Seq(Nodes) /\ x.nodes \in Recorded /\ Plain(x.nodes)
             /\ x.path = Under(x.nodes)
  <2>1. x.nodes \in Seq(Nodes) /\ x.nodes # <<>> /\ x.path = ListedAs(x.nodes) /\ x \in records
    BY DEF WalkInv, RecordInv
  <2>2. PICK p \in Seq(Nodes) : p = x.nodes
    BY <2>1
  <2>3. ASSUME NEW i \in 1 .. Len(p)
        PROVE  Len(name[p[i]].under) = 1
    <3>1. p[i] \in Range(p) /\ p[i] \in Nodes
      BY LenProperties DEF Range
    <3>2. ~(Len(name[p[i]].under) > 1)
      BY <1>1, <2>2, <3>1
    <3>3. DiskInv
      BY DEF WalkInv
    <3>4. PICK n \in Nodes : n = p[i]
      BY <3>1
    <3>5. /\ Len(name[n].under) \in Nat /\ Len(name[n].own) \in Nat
          /\ 1 <= Len(name[n].own) /\ Len(name[n].own) <= Len(name[n].under)
      BY <3>3, NameIs
    <3>6. PICK k : k = Len(name[n].under)
      OBVIOUS
    <3>7. k \in Nat /\ 1 <= k /\ ~(k > 1)
      BY <3>2, <3>4, <3>5, <3>6
    <3>8. k = 1
      BY <3>7
    <3> QED BY <3>4, <3>6, <3>8
  <2>4. Plain(p)
    BY <2>3 DEF Plain
  <2>5. ListedAs(p) = Under(p)
    BY <2>1, <2>2, <2>4, PlainPath DEF WalkInv
  <2> QED BY <2>1, <2>2, <2>4, <2>5 DEF Recorded
<1>2. Under(q.nodes) = Under(r.nodes)
  BY <1>1
<1> QED BY <1>1, <1>2, PlainWays

-----------------------------------------------------------------------------
(* Over any file system, with any limits, followed links or not *)

\* At every moment what has been listed is all that may be below the directories read so
\* far, except for what their calls have still to come to (scan_dir).
THEOREM WalkInOrder ==
  ASSUME Settings
  PROVE  Spec => []WalkInv
<1>1. Init => WalkInv
  BY WalkBegins
<1>2. WalkInv /\ [Next]_vars => WalkInv'
  BY WalkGoesOn
<1> QED BY <1>1, <1>2, PTL DEF Spec

\* In whatever order directories are read, and whichever cannot be, scan_dir ends with
\* every entry on a way that takes no link twice, and with nothing else.
THEOREM WalkFindsAll ==
  ASSUME Settings
  PROVE  Spec => []WalkIsReach
<1>1. WalkInv => WalkIsReach
  BY InvMeansReach
<1> QED BY <1>1, WalkInOrder, PTL

\* Nothing is listed that should not be, at any moment of scan_dir and not only at its end.
THEOREM WalkListsNoMore ==
  ASSUME Settings
  PROVE  Spec => [](Recorded \subseteq Goal)
<1>1. WalkInv => Recorded \subseteq Goal
  BY ListedInGoal
<1> QED BY <1>1, WalkInOrder, PTL

\* No way is taken twice, so a walk among finitely many ways cannot go on for ever: the
\* records grow with every entry that is listed (scan_dir's visited).
THEOREM NoWayTwice ==
  ASSUME Settings
  PROVE  Spec => [][\A n \in Top.todo :
                      stack # <<>> /\ (List(n) \/ Enter(n)) => Append(Top.nodes, n) \notin Recorded]_vars
<1>1. WalkInv /\ stack # <<>> => \A n \in Top.todo : Append(Top.nodes, n) \notin Recorded
  BY FreshWay
<1>2. WalkInv /\ [Next]_vars =>
        [\A n \in Top.todo :
           stack # <<>> /\ (List(n) \/ Enter(n)) => Append(Top.nodes, n) \notin Recorded]_vars
  BY <1>1
<1> QED BY <1>2, WalkInOrder, PTL DEF Spec

\* Two entries are never listed under one path unless a name on their ways has a separator
\* in it (build_relative_path).
THEOREM PathsTellApart ==
  ASSUME Settings
  PROVE  Spec => []OnlySeparatorsCollide
<1>1. WalkInv => OnlySeparatorsCollide
  BY InvMeansApart
<1> QED BY <1>1, WalkInOrder, PTL
=============================================================================
