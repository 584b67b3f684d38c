-------------------------- MODULE PermissionsProofs --------------------------
(***************************************************************************)
(* Proofs about permissions: the walk over sorted levels against what the  *)
(* nearest rows say, for any finite table, and what deletions and other    *)
(* storages leave alone, for every set of bounds b of an instance Perms(b).    *)
(***************************************************************************)
EXTENDS MCPermissions, Sequences, FiniteSetTheorems, FunctionTheorems, TLAPS

(* Order *)

\* The instances count like the module itself.
LEMMA SameCardinality == \A b, S : Perms(b)!Cardinality(S) = Cardinality(S)
BY DEF Cardinality, Perms!Cardinality, IsFiniteSet, Perms!IsFiniteSet

LEMMA Smallest ==
  ASSUME NEW S \in SUBSET Nat, S # {}
  PROVE  \E m \in S : \A k \in S : m <= k
<1>1. PICK m \in S : \A k \in S : <<k, m>> \notin OpToRel(<, Nat)
  BY NatLessThanWellFounded, WFMin
<1>2. \A k \in S : ~(k < m)
  BY <1>1 DEF OpToRel
<1>3. m \in Nat /\ \A k \in S : k \in Nat
  OBVIOUS
<1> QED BY <1>2, <1>3

Ordered(s, n, R) == \A i, j \in 1 .. n : i < j => <<s[i], s[j]>> \in R

\* A finite set in a total order: the place of each is the number of those up to it.
LEMMA OrderExists ==
  ASSUME NEW S, IsFiniteSet(S), NEW R,
         \A x \in S : <<x, x>> \notin R,
         \A x, y \in S : x # y => <<x, y>> \in R \/ <<y, x>> \in R,
         \A x, y, z \in S : <<x, y>> \in R /\ <<y, z>> \in R => <<x, z>> \in R
  PROVE  \E s \in [1 .. Cardinality(S) -> S] : Ordered(s, Cardinality(S), R)
<1> DEFINE n == Cardinality(S)
           UpTo(x) == {y \in S : y = x \/ <<y, x>> \in R}
           place == [x \in S |-> Cardinality(UpTo(x))]
<1>1. \A x \in S : IsFiniteSet(UpTo(x)) /\ Cardinality(UpTo(x)) \in Nat
  BY FS_Subset, FS_CardinalityType
<1>2. n \in Nat
  BY FS_CardinalityType
<1>3. ASSUME NEW x \in S, NEW y \in S, <<x, y>> \in R
      PROVE  place[x] < place[y]
  <2>1. UpTo(x) \subseteq UpTo(y) \ {y} /\ y \in UpTo(y)
    BY <1>3
  <2>2. IsFiniteSet(UpTo(y) \ {y}) /\ Cardinality(UpTo(y) \ {y}) = Cardinality(UpTo(y)) - 1
    BY <1>1, <2>1, FS_RemoveElement
  <2>3. Cardinality(UpTo(x)) <= Cardinality(UpTo(y) \ {y})
    BY <2>1, <2>2, FS_Subset
  <2> HIDE DEF UpTo
  <2> QED BY <1>1, <2>2, <2>3
<1>4. \A x \in S : place[x] \in 1 .. n
  <2> TAKE x \in S
  <2>1. UpTo(x) \in SUBSET S /\ x \in UpTo(x)
    OBVIOUS
  <2>2. Cardinality(UpTo(x)) <= n
    BY <2>1, FS_Subset
  <2>3. Cardinality(UpTo(x)) # 0
    BY <1>1, <2>1, FS_EmptySet
  <2> HIDE DEF UpTo, n
  <2> QED BY <1>1, <1>2, <2>2, <2>3
<1> HIDE DEF n, UpTo, place
<1>5. place \in [S -> 1 .. n] /\ \A x, y \in S : place[x] = place[y] => x = y
  <2>1. place \in [S -> 1 .. n]
    BY <1>4 DEF place
  <2>2. \A x \in S : place[x] \in Nat
    BY <1>2, <1>4
  <2>3. \A x, y \in S : place[x] = place[y] => <<x, y>> \notin R
    <3> SUFFICES ASSUME NEW x \in S, NEW y \in S, place[x] = place[y], <<x, y>> \in R
                 PROVE  FALSE
      OBVIOUS
    <3>1. place[x] < place[y]
      BY <1>3
    <3>2. place[x] \in Nat
      BY <2>2
    <3> QED BY <3>1, <3>2
  <2> QED BY <2>1, <2>3
<1>6. place \in Injection(S, 1 .. n)
  BY <1>5 DEF Injection, IsInjective
<1>7. IsFiniteSet(1 .. n) /\ Cardinality(1 .. n) = n
  BY <1>2, FS_Interval
<1>8. place \in Surjection(S, 1 .. n)
  BY <1>6, <1>7, FS_Injection DEF n
<1>9. \A i \in 1 .. n : \E x \in S : place[x] = i
  BY <1>8 DEF Surjection
<1> DEFINE s == [i \in 1 .. n |-> CHOOSE x \in S : place[x] = i]
<1>10. \A i \in 1 .. n : s[i] \in S /\ place[s[i]] = i
  BY <1>9
<1>11. s \in [1 .. n -> S]
  BY <1>10
<1> HIDE DEF s
<1>12. ASSUME NEW i \in 1 .. n, NEW j \in 1 .. n, i < j
       PROVE  <<s[i], s[j]>> \in R
  <2>1. i \in Nat /\ j \in Nat
    BY <1>2
  <2>2. s[i] # s[j] /\ ~(place[s[j]] < place[s[i]])
    BY <1>10, <1>12, <2>1
  <2> QED BY <1>3, <1>10, <2>2
<1> QED BY <1>11, <1>12 DEF Ordered, n

-----------------------------------------------------------------------------
(* The rows in their order *)

\* What the rows that are walked over look like.
Walkable(rows) ==
  /\ IsFiniteSet(rows)
  /\ \A row \in rows : Len(row.path) \in Nat /\ row.deny \in BOOLEAN

LEMMA DepthIs ==
  ASSUME NEW b, NEW x, NEW y, Len(x.path) \in Nat, Len(y.path) \in Nat
  PROVE  /\ Perms(b)!Depth(x) \in Nat
         /\ Perms(b)!Closer(x, y) <=> Perms(b)!Depth(x) > Perms(b)!Depth(y)
         /\ Perms(b)!Specificity(x) = Perms(b)!Specificity(y) <=> Perms(b)!Depth(x) = Perms(b)!Depth(y)
<1>1. CASE x.resource = "file"
  BY <1>1 DEF Perms!Depth, Perms!Closer, Perms!Specificity
<1>2. CASE x.resource = "storage"
  BY <1>2 DEF Perms!Depth, Perms!Closer, Perms!Specificity
<1>3. CASE x.resource \notin {"file", "storage"}
  BY <1>3 DEF Perms!Depth, Perms!Closer, Perms!Specificity
<1> QED BY <1>1, <1>2, <1>3

\* Every row has its place, and none a deeper one behind it.
LEMMA SortedIs ==
  ASSUME NEW b, NEW rows, Walkable(rows)
  PROVE  LET s == Perms(b)!Sorted(rows)
             n == Cardinality(rows)
         IN  /\ n \in Nat /\ s \in [1 .. n -> rows] /\ Len(s) = n
             /\ \A i, j \in 1 .. n : i < j => Perms(b)!Depth(s[j]) <= Perms(b)!Depth(s[i])
             /\ \A row \in rows : \E i \in 1 .. n : s[i] = row
<1> DEFINE n == Cardinality(rows)
           s == Perms(b)!Sorted(rows)
           D(row) == Perms(b)!Depth(row)
<1>1. n \in Nat /\ ExistsBijection(rows, 1 .. n)
  BY FS_CardinalityType, Fun_ExistsBijSymmetric DEF Walkable
<1>2. PICK num \in Bijection(rows, 1 .. n) : TRUE
  BY <1>1 DEF ExistsBijection
<1>3. \A x, y \in rows : num[x] \in Nat /\ (num[x] = num[y] => x = y)
  BY <1>1, <1>2 DEF Bijection, Injection, IsInjective
<1>4. \A x, y \in rows : /\ D(x) \in Nat
                         /\ Perms(b)!Closer(x, y) <=> D(x) > D(y)
  BY DepthIs DEF Walkable
<1> HIDE DEF D, n, s
<1> DEFINE R == {p \in rows \X rows :
                   D(p[1]) > D(p[2]) \/ (D(p[1]) = D(p[2]) /\ num[p[1]] < num[p[2]])}
<1>5. \A x, y \in rows :
        <<x, y>> \in R <=> D(x) > D(y) \/ (D(x) = D(y) /\ num[x] < num[y])
  OBVIOUS
<1> HIDE DEF R
<1>6. \A x \in rows : <<x, x>> \notin R
  BY <1>3, <1>4, <1>5
<1>7. \A x, y \in rows : x # y => <<x, y>> \in R \/ <<y, x>> \in R
  BY <1>3, <1>4, <1>5
<1>8. \A x, y, z \in rows : <<x, y>> \in R /\ <<y, z>> \in R => <<x, z>> \in R
  BY <1>3, <1>4, <1>5
<1>9. PICK t \in [1 .. n -> rows] : Ordered(t, n, R)
  BY <1>6, <1>7, <1>8, OrderExists DEF n, Walkable
<1>10. \A i, j \in 1 .. n : i < j => t[i] # t[j] /\ ~Perms(b)!Closer(t[j], t[i])
  <2> SUFFICES ASSUME NEW i \in 1 .. n, NEW j \in 1 .. n, i < j
               PROVE  t[i] # t[j] /\ ~Perms(b)!Closer(t[j], t[i])
    OBVIOUS
  <2>1. <<t[i], t[j]>> \in R /\ t[i] \in rows /\ t[j] \in rows
    BY <1>9 DEF Ordered
  <2> QED BY <1>4, <1>5, <1>6, <2>1
<1>11. s \in [1 .. n -> rows]
       /\ \A i, j \in 1 .. n : i < j => s[i] # s[j] /\ ~Perms(b)!Closer(s[j], s[i])
  BY <1>9, <1>10, SameCardinality DEF n, s, Perms!Sorted
<1>12. \A i, j \in 1 .. n : i < j => D(s[j]) <= D(s[i])
  BY <1>4, <1>11
<1>13. \A i, j \in 1 .. n : s[i] = s[j] => i = j
  BY <1>1, <1>11
<1>14. s \in Injection(1 .. n, rows)
  BY <1>11, <1>13 DEF Injection, IsInjective
<1>15. Cardinality(1 .. n) = n
  BY <1>1, FS_Interval
<1>16. s \in Surjection(1 .. n, rows)
  BY <1>14, <1>15, FS_Injection DEF n, Walkable
<1>17. Len(s) = n
  BY <1>1, <1>11
<1> QED BY <1>1, <1>11, <1>12, <1>16, <1>17 DEF Surjection, n, s, D

-----------------------------------------------------------------------------
(* The walk over the sorted rows of depth D[1] >= D[2] >= ... *)

\* The rows from i on that mention the action, and what the deepest of them say.
Mention(s, i, action) == {j \in i .. Len(s) : action \in s[j].set}
Denied(b, s, i, action) ==
  \E j \in Mention(s, i, action) :
    /\ s[j].deny
    /\ \A k \in Mention(s, i, action) : Perms(b)!Depth(s[k]) <= Perms(b)!Depth(s[j])
Verdict(b, s, i, action) ==
  IF Mention(s, i, action) = {} THEN "undecided"
  ELSE IF Denied(b, s, i, action) THEN "deny" ELSE "allow"

\* A sequence of rows, the deepest first.
Descending(b, s, n) ==
  /\ n \in Nat /\ Len(s) = n
  /\ \A i \in 1 .. n : /\ Len(s[i].path) \in Nat /\ s[i].deny \in BOOLEAN
                       /\ Perms(b)!Depth(s[i]) \in Nat
  /\ \A i, j \in 1 .. n : i <= j => Perms(b)!Depth(s[j]) <= Perms(b)!Depth(s[i])

\* A level is an interval that starts where it is asked for.
LEMMA LevelIs ==
  ASSUME NEW b, NEW s, NEW n, Descending(b, s, n), NEW i \in 1 .. n
  PROVE  \E m \in i + 1 .. n + 1 :
           /\ i + Perms(b)!Cardinality(Perms(b)!Level(s, i)) = m
           /\ Perms(b)!Level(s, i) = i .. m - 1
           /\ \A j \in i .. n : j \in i .. m - 1 <=> Perms(b)!Depth(s[j]) = Perms(b)!Depth(s[i])
<1> DEFINE D(j) == Perms(b)!Depth(s[j])
           L == Perms(b)!Level(s, i)
           T == {j \in i .. n + 1 : j = n + 1 \/ D(j) # D(i)}
<1>1. n \in Nat /\ i \in Nat /\ Len(s) = n /\ i <= n /\ 1 <= i
  BY DEF Descending
<1>2. \A j \in i .. n : j \in 1 .. n /\ D(j) \in Nat /\ D(j) <= D(i)
  BY <1>1 DEF Descending
<1>3. \A j, k \in i .. n : j <= k => D(k) <= D(j)
  BY <1>1 DEF Descending
<1>4. L = {j \in i .. n : D(j) = D(i)}
  BY <1>1, <1>2, DepthIs DEF Perms!Level, Descending
<1> HIDE DEF D, L
<1>5. T \in SUBSET Nat /\ n + 1 \in T
  BY <1>1
<1>6. PICK m \in T : \A k \in T : m <= k
  BY <1>5, Smallest
<1>7. m \in i + 1 .. n + 1
  BY <1>1, <1>6
<1>8. \A j \in i .. n : j \in i .. m - 1 <=> D(j) = D(i)
  <2> TAKE j \in i .. n
  <2>1. CASE j < m
    BY <1>1, <1>6, <1>7, <2>1
  <2>2. CASE m <= j
    <3>1. m \in i .. n /\ D(m) # D(i)
      BY <1>1, <1>6, <1>7, <2>2
    <3>2. D(j) <= D(m) /\ D(m) <= D(i) /\ D(j) \in Nat /\ D(m) \in Nat /\ D(i) \in Nat
      BY <1>1, <1>2, <1>3, <2>2, <3>1
    <3> QED BY <1>1, <1>7, <2>2, <3>1, <3>2
  <2> QED BY <1>1, <1>7, <2>1, <2>2
<1>9. L = i .. m - 1
  BY <1>1, <1>4, <1>7, <1>8
<1>10. i + Cardinality(L) = m
  BY <1>1, <1>7, <1>9, FS_Interval
<1> QED BY <1>7, <1>8, <1>9, <1>10, SameCardinality DEF D, L

\* The verdict at a place follows from its level and the verdict behind that.
NextLevel(b, s, i) == i + Perms(b)!Cardinality(Perms(b)!Level(s, i))

LEMMA VerdictStep ==
  ASSUME NEW b, NEW s, NEW n, Descending(b, s, n), NEW action
  PROVE  \A i \in 1 .. n :
           /\ NextLevel(b, s, i) \in i + 1 .. n + 1
           /\ Verdict(b, s, i, action) =
                IF TRUE \in Perms(b)!Said(s, i, action) THEN "deny"
                ELSE IF FALSE \in Perms(b)!Said(s, i, action) THEN "allow"
                ELSE Verdict(b, s, NextLevel(b, s, i), action)
<1> TAKE i \in 1 .. n
<1> DEFINE D(j) == Perms(b)!Depth(s[j])
<1>1. PICK m \in i + 1 .. n + 1 :
        /\ NextLevel(b, s, i) = m
        /\ Perms(b)!Level(s, i) = i .. m - 1
        /\ \A j \in i .. n : j \in i .. m - 1 <=> D(j) = D(i)
  BY LevelIs DEF NextLevel
<1>2. n \in Nat /\ i \in Nat /\ Len(s) = n /\ i <= n /\ 1 <= i
  BY DEF Descending
<1>3. \A j \in i .. n : D(j) \in Nat /\ D(j) <= D(i) /\ s[j].deny \in BOOLEAN
  BY <1>2 DEF Descending
<1> HIDE DEF D
<1>4. Mention(s, i, action) = {j \in i .. n : action \in s[j].set}
  BY <1>2 DEF Mention
<1>5. \A x : x \in Perms(b)!Said(s, i, action) <=>
               \E j \in i .. m - 1 : action \in s[j].set /\ s[j].deny = x
  BY <1>1 DEF Perms!Said
<1>6. \A j \in i .. m - 1 : j \in i .. n
  BY <1>1, <1>2
<1>7. Denied(b, s, i, action) <=>
        \E j \in Mention(s, i, action) :
          s[j].deny /\ \A k \in Mention(s, i, action) : D(k) <= D(j)
  BY DEF Denied, D
<1>8. CASE TRUE \in Perms(b)!Said(s, i, action)
  <2>1. PICK j \in i .. m - 1 : action \in s[j].set /\ s[j].deny
    BY <1>5, <1>8
  <2>2. j \in i .. n /\ D(j) = D(i)
    BY <1>1, <1>6
  <2>3. Denied(b, s, i, action) /\ Mention(s, i, action) # {}
    BY <1>3, <1>4, <1>7, <2>1, <2>2
  <2> QED BY <1>1, <1>8, <2>3 DEF Verdict
<1>9. CASE TRUE \notin Perms(b)!Said(s, i, action) /\ FALSE \in Perms(b)!Said(s, i, action)
  <2>1. PICK j \in i .. m - 1 : action \in s[j].set
    BY <1>5, <1>9
  <2>2. j \in i .. n /\ D(j) = D(i) /\ j \in Mention(s, i, action)
    BY <1>1, <1>4, <1>6, <2>1
  <2>3. ASSUME NEW k \in Mention(s, i, action), s[k].deny, D(j) <= D(k)
        PROVE  FALSE
    <3>1. k \in i .. n /\ action \in s[k].set
      BY <1>4
    <3>2. D(k) = D(i)
      BY <1>2, <1>3, <2>2, <2>3, <3>1
    <3>3. k \in i .. m - 1
      BY <1>1, <3>1, <3>2
    <3> QED BY <1>3, <1>5, <1>9, <2>3, <3>1, <3>3
  <2>4. ~Denied(b, s, i, action)
    BY <1>7, <2>2, <2>3
  <2> QED BY <1>1, <1>9, <2>2, <2>4 DEF Verdict
<1>10. CASE TRUE \notin Perms(b)!Said(s, i, action) /\ FALSE \notin Perms(b)!Said(s, i, action)
  <2>1. \A j \in i .. m - 1 : action \notin s[j].set
    BY <1>3, <1>5, <1>6, <1>10
  <2>2. Mention(s, m, action) = {j \in m .. n : action \in s[j].set}
    BY <1>2 DEF Mention
  <2>3. \A j \in i .. n : j \in i .. m - 1 \/ j \in m .. n
    BY <1>1, <1>2
  <2>4. \A j \in m .. n : j \in i .. n
    BY <1>1, <1>2
  <2>5. Mention(s, m, action) = Mention(s, i, action)
    BY <1>4, <2>1, <2>2, <2>3, <2>4
  <2>6. Verdict(b, s, i, action) = Verdict(b, s, m, action)
    BY <2>5 DEF Verdict, Denied
  <2> QED BY <1>1, <1>10, <2>6
<1> QED BY <1>8, <1>9, <1>10

\* The walk gives the verdict at its start.
LEMMA WalkIs ==
  ASSUME NEW b, NEW rows, NEW action,
         Descending(b, Perms(b)!Sorted(rows), Cardinality(rows))
  PROVE  Perms(b)!ResolveAction(rows, action) = Verdict(b, Perms(b)!Sorted(rows), 1, action)
<1> DEFINE n == Cardinality(rows)
           s == Perms(b)!Sorted(rows)
           After(i) == NextLevel(b, s, i)
           Walk(w) == [i \in 1 .. Len(s) + 1 |->
                         IF i > Len(s) THEN "undecided"
                         ELSE IF TRUE \in Perms(b)!Said(s, i, action) THEN "deny"
                         ELSE IF FALSE \in Perms(b)!Said(s, i, action) THEN "allow"
                         ELSE w[After(i)]]
           v == [i \in 1 .. n + 1 |-> Verdict(b, s, i, action)]
           walk == CHOOSE w : w = Walk(w)
<1>1. n \in Nat /\ Len(s) = n
  BY DEF Descending
<1>2. Perms(b)!ResolveAction(rows, action) = walk[1]
  BY DEF Perms!ResolveAction, NextLevel
<1>3. Descending(b, s, n)
  OBVIOUS
<1> HIDE DEF n, s
<1>4. ASSUME NEW i \in 1 .. n
      PROVE  /\ After(i) \in i + 1 .. n + 1
             /\ Verdict(b, s, i, action) =
                  IF TRUE \in Perms(b)!Said(s, i, action) THEN "deny"
                  ELSE IF FALSE \in Perms(b)!Said(s, i, action) THEN "allow"
                  ELSE Verdict(b, s, After(i), action)
  BY <1>3, VerdictStep
<1>5. Verdict(b, s, n + 1, action) = "undecided"
  BY <1>1 DEF Verdict, Mention
<1> HIDE DEF After
<1>6. \A i \in 1 .. n + 1 : i <= n =>
        /\ i \in 1 .. n /\ After(i) \in 1 .. n + 1 /\ After(i) \in Nat /\ i < After(i)
        /\ Verdict(b, s, i, action) =
             IF TRUE \in Perms(b)!Said(s, i, action) THEN "deny"
             ELSE IF FALSE \in Perms(b)!Said(s, i, action) THEN "allow"
             ELSE Verdict(b, s, After(i), action)
  <2> TAKE i \in 1 .. n + 1
  <2> HAVE i <= n
  <2>1. i \in 1 .. n
    BY <1>1
  <2>2. After(i) \in i + 1 .. n + 1
    BY <1>4, <2>1
  <2>3. After(i) \in 1 .. n + 1 /\ After(i) \in Nat /\ i < After(i)
    BY <1>1, <2>1, <2>2
  <2> QED BY <1>4, <2>1, <2>3
<1>7. v = Walk(v)
  <2>1. \A i \in 1 .. n + 1 : v[i] = Walk(v)[i]
    <3> TAKE i \in 1 .. n + 1
    <3>1. CASE i > n
      BY <1>1, <1>5, <3>1
    <3>2. CASE ~(i > n)
      <4>1. i <= n
        BY <1>1, <3>2
      <4>2. i \in 1 .. n /\ After(i) \in 1 .. n + 1
        BY <1>6, <4>1
      <4>3. v[After(i)] = Verdict(b, s, After(i), action) /\ v[i] = Verdict(b, s, i, action)
        BY <4>2
      <4> HIDE DEF v
      <4> QED BY <1>1, <1>6, <3>2, <4>1, <4>2, <4>3
    <3> QED BY <3>1, <3>2
  <2> QED BY <1>1, <2>1
<1>8. walk = Walk(walk)
  BY <1>7
<1> HIDE DEF walk
<1> DEFINE Wrong == {k \in Nat : n + 1 - k \in 1 .. n + 1 /\ walk[n + 1 - k] # v[n + 1 - k]}
<1>9. Wrong = {}
  <2> SUFFICES ASSUME Wrong # {} PROVE FALSE
    OBVIOUS
  <2>1. PICK k \in Wrong : \A l \in Wrong : k <= l
    BY Smallest
  <2>2. PICK i \in 1 .. n + 1 : i = n + 1 - k /\ walk[i] # v[i]
    OBVIOUS
  <2>3. k \in Nat /\ i \in Nat
    BY <1>1
  <2> HIDE DEF Wrong
  <2>4. Walk(walk)[i] = walk[i] /\ Walk(v)[i] = v[i]
    BY <1>7, <1>8
  <2>5. i <= n
    <3>1. CASE i > n
      <4> HIDE DEF v
      <4>1. Walk(walk)[i] = "undecided" /\ Walk(v)[i] = "undecided"
        BY <1>1, <3>1
      <4> QED BY <2>2, <2>4, <4>1
    <3> QED BY <1>1, <2>3, <3>1
  <2>6. After(i) \in Nat /\ After(i) \in 1 .. n + 1 /\ i < After(i)
    BY <1>6, <2>5
  <2>7. walk[After(i)] = v[After(i)]
    <3>1. PICK l \in Nat : l < k /\ n + 1 - l = After(i)
      <4>1. n + 1 - After(i) \in Nat /\ n + 1 - After(i) < k
        BY <1>1, <2>2, <2>3, <2>6
      <4>2. n + 1 - (n + 1 - After(i)) = After(i)
        BY <1>1, <2>6
      <4> QED BY <4>1, <4>2
    <3>2. l \notin Wrong
      BY <2>1, <2>3, <3>1
    <3> HIDE DEF v
    <3> QED BY <2>6, <3>1, <3>2 DEF Wrong
  <2>8. Walk(walk)[i] = Walk(v)[i]
    <3> HIDE DEF v
    <3> QED BY <1>1, <2>7
  <2> QED BY <2>2, <2>4, <2>8
<1>10. walk[1] = v[1]
  <2>1. n \in Nat /\ n + 1 - n = 1 /\ 1 \in 1 .. n + 1
    BY <1>1
  <2>2. n \notin Wrong
    BY <1>9
  <2> HIDE DEF walk, v
  <2> QED BY <2>1, <2>2
<1> QED BY <1>1, <1>2, <1>10 DEF n, s

-----------------------------------------------------------------------------
(* The verdict is that of the nearest rows *)

About(rows, action) == {row \in rows : action \in row.set}
Nearest(b, rows, action) ==
  {row \in About(rows, action) :
     \A other \in About(rows, action) : Perms(b)!Depth(other) <= Perms(b)!Depth(row)}

LEMMA ResolveIs ==
  ASSUME NEW b, NEW rows, Walkable(rows), NEW action
  PROVE  Perms(b)!ResolveAction(rows, action) =
           IF About(rows, action) = {} THEN "undecided"
           ELSE IF \E row \in Nearest(b, rows, action) : row.deny THEN "deny" ELSE "allow"
<1> DEFINE n == Cardinality(rows)
           s == Perms(b)!Sorted(rows)
           D(row) == Perms(b)!Depth(row)
<1>1. /\ n \in Nat /\ s \in [1 .. n -> rows] /\ Len(s) = n
      /\ \A i, j \in 1 .. n : i < j => D(s[j]) <= D(s[i])
      /\ \A row \in rows : \E i \in 1 .. n : s[i] = row
  BY SortedIs
<1>2. \A row \in rows : Len(row.path) \in Nat /\ row.deny \in BOOLEAN /\ D(row) \in Nat
  BY DepthIs DEF Walkable
<1> HIDE DEF n, s, D
<1>3. \A i, j \in 1 .. n : i <= j => D(s[j]) <= D(s[i])
  <2> SUFFICES ASSUME NEW i \in 1 .. n, NEW j \in 1 .. n, i <= j
               PROVE  D(s[j]) <= D(s[i])
    OBVIOUS
  <2>1. i < j \/ i = j
    BY <1>1
  <2>2. D(s[i]) \in Nat
    BY <1>1, <1>2
  <2> QED BY <1>1, <2>1, <2>2
<1>4. Descending(b, s, n)
  BY <1>1, <1>2, <1>3 DEF Descending, D
<1>5. Perms(b)!ResolveAction(rows, action) = Verdict(b, s, 1, action)
  BY <1>4, WalkIs DEF n, s
<1>6. \A row : row \in About(rows, action) <=> \E i \in Mention(s, 1, action) : s[i] = row
  BY <1>1 DEF About, Mention
<1>7. Mention(s, 1, action) = {} <=> About(rows, action) = {}
  BY <1>6
<1>8. Denied(b, s, 1, action) <=> \E row \in Nearest(b, rows, action) : row.deny
  BY <1>6 DEF Denied, Nearest
<1> QED BY <1>5, <1>7, <1>8 DEF Verdict

\* Of the rows about an action there is a deepest one.
LEMMA NearestExists ==
  ASSUME NEW b, NEW rows, Walkable(rows), NEW action, About(rows, action) # {}
  PROVE  Nearest(b, rows, action) # {}
<1> DEFINE n == Cardinality(rows)
           s == Perms(b)!Sorted(rows)
           D(row) == Perms(b)!Depth(row)
           I == {i \in 1 .. n : action \in s[i].set}
<1>1. /\ n \in Nat /\ s \in [1 .. n -> rows]
      /\ \A i, j \in 1 .. n : i < j => D(s[j]) <= D(s[i])
      /\ \A row \in rows : \E i \in 1 .. n : s[i] = row
  BY SortedIs
<1>2. \A row \in rows : D(row) \in Nat
  BY DepthIs DEF Walkable
<1> HIDE DEF n, s, D
<1>3. \A row \in About(rows, action) : \E i \in I : s[i] = row
  BY <1>1 DEF About
<1>4. I \in SUBSET Nat /\ I # {}
  BY <1>1, <1>3
<1>5. PICK m \in I : \A i \in I : m <= i
  BY <1>4, Smallest
<1>6. s[m] \in About(rows, action)
  BY <1>1 DEF About
<1>7. ASSUME NEW other \in About(rows, action)
      PROVE  D(other) <= D(s[m])
  <2>1. PICK i \in I : s[i] = other
    BY <1>3
  <2>2. m < i \/ m = i
    BY <1>1, <1>5
  <2>3. D(s[m]) \in Nat
    BY <1>1, <1>2
  <2> QED BY <1>1, <2>1, <2>2, <2>3
<1> QED BY <1>6, <1>7 DEF Nearest, D

\* The walk with its fallback decides as the nearest rows do.
LEMMA CheckIs ==
  ASSUME NEW b, NEW rows, Walkable(rows), NEW action
  PROVE  Perms(b)!Check(rows, action) <=> Perms(b)!NearestDecides(rows, action)
<1> DEFINE Allowed(a) == /\ Nearest(b, rows, a) # {}
                         /\ \A row \in Nearest(b, rows, a) : ~row.deny
<1>1. Perms(b)!NearestDecides(rows, action) <=>
        IF About(rows, action) # {} THEN Allowed(action) ELSE Allowed("admin")
  BY DEF Perms!NearestDecides, About, Nearest
<1>2. ASSUME NEW a
      PROVE  /\ Perms(b)!ResolveAction(rows, a) = "undecided" <=> About(rows, a) = {}
             /\ Perms(b)!ResolveAction(rows, a) = "allow" <=> Allowed(a)
  <2>1. About(rows, a) = {} => Nearest(b, rows, a) = {}
    BY DEF Nearest
  <2>2. About(rows, a) # {} => Nearest(b, rows, a) # {}
    BY NearestExists
  <2> QED BY <2>1, <2>2, ResolveIs
<1>3. About(rows, action) = {} => ~Allowed(action)
  BY DEF Nearest
<1> HIDE DEF Allowed
<1>4. About(rows, action) = {} /\ action = "admin" => ~Allowed("admin")
  BY <1>3
<1> QED BY <1>1, <1>2, <1>3, <1>4 DEF Perms!Check

-----------------------------------------------------------------------------
(* Tables *)

LEMMA FreshId ==
  ASSUME NEW b, NEW n \in Nat, NEW ids \in SUBSET (1 .. n), NEW id, Perms(b)!IsNextId(id, ids)
  PROVE  id \notin ids
<1> DEFINE S == {0} \cup ids
           T == {m \in Nat : \A x \in S : x <= m}
<1>1. \A x \in S : x \in Nat /\ x <= n
  OBVIOUS
<1>2. n \in T /\ T \in SUBSET Nat
  BY <1>1
<1>3. PICK m \in T : \A k \in T : m <= k
  BY <1>2, Smallest
<1>4. m \in S
  <2> SUFFICES ASSUME m \notin S PROVE FALSE
    OBVIOUS
  <2>1. m \in Nat /\ m # 0 /\ \A x \in S : x <= m /\ x # m
    OBVIOUS
  <2> HIDE DEF S
  <2>2. m - 1 \in Nat /\ \A x \in S : x <= m - 1
    BY <1>1, <2>1
  <2>3. m <= m - 1
    BY <1>3, <2>2
  <2> QED BY <2>1, <2>3
<1>5. \A x \in S : m >= x
  BY <1>1
<1>6. Perms(b)!Max(S) \in S /\ \A x \in S : Perms(b)!Max(S) >= x
  BY <1>4, <1>5 DEF Perms!Max
<1>7. id = 1 + Perms(b)!Max(S)
  BY DEF Perms!IsNextId
<1> HIDE DEF S
<1>8. id \notin S
  BY <1>1, <1>6, <1>7
<1> QED BY <1>8 DEF S

\* The steps of requests that only read, and those that write.
Reads(b, c) ==
  \/ \E user \in 1 .. MaxUsers : Perms(b)!Send(c, user)
  \/ Perms(b)!ServerError(c) \/ Perms(b)!RequireAuth(c) \/ Perms(b)!Authorize(c)
  \/ Perms(b)!ResourceContext(c) \/ Perms(b)!AuthorizeGrant(c)
Writes(b, c) ==
  \/ Perms(b)!InsertPermission(c) \/ Perms(b)!DeletePermission(c)
  \/ Perms(b)!CreateUser(c) \/ Perms(b)!DeleteUser(c)
  \/ Perms(b)!CreateGroup(c) \/ Perms(b)!DeleteGroup(c)
  \/ Perms(b)!AddMember(c) \/ Perms(b)!RemoveMember(c)
  \/ Perms(b)!CreateStorage(c) \/ Perms(b)!DeleteStorage(c)
Makes(b) ==
  \E storage \in 1 .. b.storages, path \in b.paths : Perms(b)!Materialize(storage, path)

LEMMA StepsAre ==
  ASSUME NEW b
  PROVE  Perms(b)!Next <=> (\E c \in b.slots : Reads(b, c) \/ Writes(b, c)) \/ Makes(b)
BY DEF Perms!Next, Reads, Writes, Makes

LEMMA ReadsAre ==
  ASSUME NEW b, NEW c, Reads(b, c)
  PROVE  UNCHANGED <<users, groups, storages, members, files, permissions>>
BY DEF Reads, Perms!tables, Perms!Send, Perms!ServerError, Perms!RequireAuth, Perms!Authorize,
       Perms!ResourceContext, Perms!AuthorizeGrant

LEMMA WritesAre ==
  ASSUME NEW b, NEW c, Writes(b, c)
  PROVE  Perms(b)!Done(c) /\ calls[c].phase = "allowed"
BY DEF Writes, Perms!Ready, Perms!InsertPermission, Perms!DeletePermission, Perms!CreateUser,
       Perms!DeleteUser, Perms!CreateGroup, Perms!DeleteGroup, Perms!AddMember,
       Perms!RemoveMember, Perms!CreateStorage, Perms!DeleteStorage

Granted(b, c, id) ==
  /\ calls[c].phase = "allowed" /\ calls[c].want.op = "grant"
  /\ Perms(b)!IsNextId(id, DOMAIN permissions)
  /\ permissions' = Perms(b)!With(permissions, id, calls[c].want.row)
  /\ UNCHANGED <<users, groups, storages, members, files>>

\* What a step can do to the permission rows.
LEMMA RowsStep ==
  ASSUME NEW b, Perms(b)!Next
  PROVE  \/ UNCHANGED permissions
         \/ \E ids : permissions' = Perms(b)!Without(permissions, ids)
         \/ \E c \in b.slots, id \in 1 .. b.rows : Granted(b, c, id)
<1>1. ASSUME NEW c \in b.slots, Perms(b)!InsertPermission(c)
      PROVE  \E id \in 1 .. b.rows : Granted(b, c, id)
  BY <1>1 DEF Perms!InsertPermission, Perms!Ready, Granted
<1>2. ASSUME NEW c, \/ Perms(b)!DeletePermission(c) \/ Perms(b)!DeleteUser(c)
                    \/ Perms(b)!DeleteGroup(c) \/ Perms(b)!DeleteStorage(c)
      PROVE  UNCHANGED permissions \/ \E ids : permissions' = Perms(b)!Without(permissions, ids)
  BY <1>2 DEF Perms!DeletePermission, Perms!DeleteUser, Perms!DeleteGroup, Perms!DeleteStorage,
              Perms!DeletePrincipalRows
<1>3. ASSUME NEW c, \/ Perms(b)!CreateUser(c) \/ Perms(b)!CreateGroup(c)
                    \/ Perms(b)!AddMember(c) \/ Perms(b)!RemoveMember(c)
                    \/ Perms(b)!CreateStorage(c)
      PROVE  UNCHANGED permissions
  BY <1>3 DEF Perms!CreateUser, Perms!CreateGroup, Perms!AddMember, Perms!RemoveMember,
              Perms!CreateStorage
<1>4. CASE Makes(b)
  BY <1>4 DEF Makes, Perms!Materialize
<1> QED BY <1>1, <1>2, <1>3, <1>4, StepsAre, ReadsAre DEF Writes

\* What a step can do to the files.
LEMMA FilesStep ==
  ASSUME NEW b, Perms(b)!Next
  PROVE  \/ UNCHANGED files
         \/ \E ids : files' = Perms(b)!Without(files, ids)
         \/ \E id, storage : \E path \in b.paths :
              files' = Perms(b)!With(files, id, [storage |-> storage, path |-> path])
<1>1. ASSUME NEW c, Writes(b, c)
      PROVE  UNCHANGED files \/ \E ids : files' = Perms(b)!Without(files, ids)
  BY <1>1 DEF Writes, Perms!InsertPermission, Perms!DeletePermission, Perms!CreateUser,
              Perms!DeleteUser, Perms!CreateGroup, Perms!DeleteGroup, Perms!AddMember,
              Perms!RemoveMember, Perms!CreateStorage, Perms!DeleteStorage
<1>2. CASE Makes(b)
  BY <1>2 DEF Makes, Perms!Materialize
<1> QED BY <1>1, <1>2, StepsAre, ReadsAre

-----------------------------------------------------------------------------
(* Requests *)

\* A row that is asked for names what exists.
Names(b, row) ==
  /\ row.deny \in BOOLEAN
  /\ row.principal \in Perms(b)!Principals
  /\ <<row.resource, row.id>> \in Perms(b)!Resources

LEMMA WantedIs ==
  ASSUME NEW b, NEW w \in Perms(b)!Wanted, w.op = "grant"
  PROVE  Names(b, w.row)
<1>1. PICK p \in Perms(b)!Principals, r \in Perms(b)!Resources, s \in b.grants, d \in BOOLEAN :
        w = [op |-> "grant", row |-> [principal |-> p, resource |-> r[1], id |-> r[2],
                                      set |-> s, deny |-> d]]
  BY DEF Perms!Wanted
<1>2. r = <<r[1], r[2]>>
  BY DEF Perms!Resources
<1> QED BY <1>1, <1>2 DEF Names

\* A request keeps what it asks for until it is done.
Asks(call) == {"phase", "want"} \subseteq DOMAIN call /\ call.phase # "none"
CallsInv(b) ==
  /\ DOMAIN calls = b.slots
  /\ \A c \in b.slots : calls[c].phase # "none" => Asks(calls[c])

\* What a step can do to the requests.
CallsStep(b) ==
  \A c \in b.slots :
    \/ calls'[c] = calls[c]
    \/ calls'[c].phase = "none"
    \/ /\ calls[c].phase # "none" /\ Asks(calls'[c])
       /\ calls'[c].want = calls[c].want
    \/ /\ Asks(calls'[c]) /\ calls'[c].want \in Perms(b)!Wanted
       /\ UNCHANGED <<users, groups, storages, files>>

LEMMA CallsMove ==
  ASSUME NEW b, CallsInv(b), Perms(b)!Next
  PROVE  CallsInv(b)' /\ CallsStep(b)
<1>1. ASSUME NEW c \in b.slots, NEW x, calls' = [calls EXCEPT ![c] = x],
             \/ x.phase = "none"
             \/ calls[c].phase # "none" /\ Asks(x) /\ x.want = calls[c].want
             \/ /\ Asks(x) /\ x.want \in Perms(b)!Wanted
                /\ UNCHANGED <<users, groups, storages, files>>
      PROVE  CallsInv(b)' /\ CallsStep(b)
  BY <1>1 DEF CallsInv, CallsStep
<1>2. ASSUME NEW c \in b.slots, Perms(b)!Done(c)
      PROVE  CallsInv(b)' /\ CallsStep(b)
  <2>1. calls' = [calls EXCEPT ![c] = Perms(b)!NoCall]
    BY <1>2 DEF Perms!Done
  <2>2. Perms(b)!NoCall.phase = "none"
    BY DEF Perms!NoCall
  <2> QED BY <1>1, <2>1, <2>2
<1>3. ASSUME NEW c \in b.slots, NEW user, Perms(b)!Send(c, user)
      PROVE  CallsInv(b)' /\ CallsStep(b)
  <2>1. PICK w \in Perms(b)!Wanted :
          calls' = [calls EXCEPT ![c] = [phase |-> "sent", by |-> user, want |-> w]]
    BY <1>3 DEF Perms!Send
  <2>2. UNCHANGED <<users, groups, storages, files>>
    BY <1>3 DEF Perms!Send, Perms!tables
  <2> DEFINE x == [phase |-> "sent", by |-> user, want |-> w]
  <2>3. Asks(x) /\ x.want = w
    BY DEF Asks
  <2> HIDE DEF x
  <2>4. calls' = [calls EXCEPT ![c] = x]
    BY <2>1 DEF x
  <2> QED BY <1>1, <2>2, <2>3, <2>4
<1>4. ASSUME NEW c \in b.slots, calls[c].phase # "none", NEW x,
             calls' = [calls EXCEPT ![c] = x], Asks(x), x.want = calls[c].want
      PROVE  CallsInv(b)' /\ CallsStep(b)
  BY <1>1, <1>4
<1>5. ASSUME NEW c \in b.slots, calls[c].phase # "none",
             calls' = [calls EXCEPT ![c].phase = "allowed"]
      PROVE  CallsInv(b)' /\ CallsStep(b)
  <2>1. Asks(calls[c])
    BY <1>5 DEF CallsInv
  <2> DEFINE x == [calls[c] EXCEPT !.phase = "allowed"]
  <2>2. Asks(x) /\ x.want = calls[c].want
    BY <2>1 DEF Asks
  <2>3. calls' = [calls EXCEPT ![c] = x]
    BY <1>5
  <2> HIDE DEF x
  <2> QED BY <1>4, <1>5, <2>2, <2>3
<1>6. ASSUME NEW c \in b.slots, Perms(b)!RequireAuth(c)
      PROVE  CallsInv(b)' /\ CallsStep(b)
  <2> DEFINE x == [phase |-> "authed", by |-> calls[c].by, want |-> calls[c].want,
                   groups |-> Perms(b)!GroupsOf(calls[c].by)]
  <2>1. calls[c].phase # "none" /\ calls' = [calls EXCEPT ![c] = x]
    BY <1>6 DEF Perms!RequireAuth
  <2>2. Asks(x) /\ x.want = calls[c].want
    BY DEF Asks
  <2> HIDE DEF x
  <2> QED BY <1>4, <2>1, <2>2
<1>7. ASSUME NEW c \in b.slots, Perms(b)!ResourceContext(c)
      PROVE  CallsInv(b)' /\ CallsStep(b)
  <2> DEFINE At(storage, path) ==
               [phase |-> "located", by |-> calls[c].by, want |-> calls[c].want,
                groups |-> calls[c].groups, storage |-> storage, path |-> path]
  <2>1. \/ Perms(b)!Done(c)
        \/ /\ calls[c].phase # "none"
           /\ \E storage, path : calls' = [calls EXCEPT ![c] = At(storage, path)]
    BY <1>7 DEF Perms!ResourceContext
  <2>2. \A storage, path : Asks(At(storage, path)) /\ At(storage, path).want = calls[c].want
    BY DEF Asks
  <2> HIDE DEF At
  <2> QED BY <1>2, <1>4, <2>1, <2>2
<1>8. ASSUME NEW c \in b.slots, Perms(b)!Authorize(c) \/ Perms(b)!AuthorizeGrant(c)
      PROVE  CallsInv(b)' /\ CallsStep(b)
  <2>1. \/ Perms(b)!Done(c)
        \/ calls[c].phase # "none" /\ calls' = [calls EXCEPT ![c].phase = "allowed"]
    BY <1>8 DEF Perms!Authorize, Perms!AuthorizeGrant
  <2> QED BY <1>2, <1>5, <2>1
<1>9. ASSUME NEW c \in b.slots, Perms(b)!ServerError(c)
      PROVE  CallsInv(b)' /\ CallsStep(b)
  BY <1>2, <1>9 DEF Perms!ServerError
<1>10. CASE Makes(b)
  BY <1>10 DEF Makes, Perms!Materialize, CallsInv, CallsStep, Asks
<1> QED BY <1>2, <1>3, <1>6, <1>7, <1>8, <1>9, <1>10, StepsAre, WritesAre DEF Reads

-----------------------------------------------------------------------------
(* Deletions *)

\* A principal or resource only goes in a step that takes the rows about it.
TakesRowsOf(b, p) ==
  \E ids : Perms(b)!RowsOf(p) \subseteq ids /\ permissions' = Perms(b)!Without(permissions, ids)

LEMMA PrincipalsStep ==
  ASSUME NEW b, Perms(b)!Next, NEW p \in Perms(b)!Principals, p \notin Perms(b)!Principals'
  PROVE  TakesRowsOf(b, p)
<1>1. ASSUME NEW c, Perms(b)!DeleteUser(c)
      PROVE  TakesRowsOf(b, p)
  <2> DEFINE id == calls[c].want.id
  <2>1. \/ /\ users' = users \ {id}
           /\ permissions' = Perms(b)!Without(permissions, Perms(b)!RowsOf(<<"user", id>>))
        \/ UNCHANGED users
    BY <1>1 DEF Perms!DeleteUser, Perms!DeletePrincipalRows
  <2>2. UNCHANGED groups
    BY <1>1 DEF Perms!DeleteUser
  <2> HIDE DEF id
  <2>3. p = <<"user", id>> /\ users' = users \ {id}
    BY <2>1, <2>2 DEF Perms!Principals
  <2>4. permissions' = Perms(b)!Without(permissions, Perms(b)!RowsOf(p))
    BY <2>1, <2>2, <2>3 DEF Perms!Principals
  <2> QED BY <2>4 DEF TakesRowsOf
<1>2. ASSUME NEW c, Perms(b)!DeleteGroup(c)
      PROVE  TakesRowsOf(b, p)
  <2> DEFINE id == calls[c].want.id
  <2>1. \/ /\ groups' = groups \ {id}
           /\ permissions' = Perms(b)!Without(permissions, Perms(b)!RowsOf(<<"group", id>>))
        \/ UNCHANGED groups
    BY <1>2 DEF Perms!DeleteGroup, Perms!DeletePrincipalRows
  <2>2. UNCHANGED users
    BY <1>2 DEF Perms!DeleteGroup
  <2> HIDE DEF id
  <2>3. p = <<"group", id>> /\ groups' = groups \ {id}
    BY <2>1, <2>2 DEF Perms!Principals
  <2>4. permissions' = Perms(b)!Without(permissions, Perms(b)!RowsOf(p))
    BY <2>1, <2>2, <2>3 DEF Perms!Principals
  <2> QED BY <2>4 DEF TakesRowsOf
<1>3. users \subseteq users' /\ groups \subseteq groups' => FALSE
  BY DEF Perms!Principals
<1>4. ASSUME NEW c, Writes(b, c)
      PROVE  \/ users \subseteq users' /\ groups \subseteq groups'
             \/ Perms(b)!DeleteUser(c) \/ Perms(b)!DeleteGroup(c)
  BY <1>4 DEF Writes, Perms!InsertPermission, Perms!DeletePermission, Perms!CreateUser,
              Perms!CreateGroup, Perms!AddMember, Perms!RemoveMember, Perms!CreateStorage,
              Perms!DeleteStorage
<1>5. Makes(b) => users \subseteq users' /\ groups \subseteq groups'
  BY DEF Makes, Perms!Materialize
<1> QED BY <1>1, <1>2, <1>3, <1>4, <1>5, StepsAre, ReadsAre

LEMMA ResourcesStep ==
  ASSUME NEW b, Perms(b)!Next, NEW r \in Perms(b)!Resources, r \notin Perms(b)!Resources'
  PROVE  TakesRowsOf(b, r)
<1>1. ASSUME NEW c, Perms(b)!DeleteStorage(c), ~(storages = storages' /\ files = files')
      PROVE  TakesRowsOf(b, r)
  <2> DEFINE id == calls[c].want.id
  <2>1. /\ permissions' = Perms(b)!Without(permissions, Perms(b)!StorageRows(id))
        /\ storages' = storages \ {id}
        /\ files' = Perms(b)!Without(files, Perms(b)!FilesOf(id))
    BY <1>1 DEF Perms!DeleteStorage
  <2> HIDE DEF id
  <2>2. DOMAIN files' = DOMAIN files \ Perms(b)!FilesOf(id)
    BY <2>1 DEF Perms!Without
  <2>3. r = <<"storage", id>> \/ \E f \in Perms(b)!FilesOf(id) : r = <<"file", f>>
    BY <2>1, <2>2 DEF Perms!Resources
  <2>4. Perms(b)!RowsOf(r) \subseteq Perms(b)!StorageRows(id)
    BY <2>3 DEF Perms!StorageRows
  <2> QED BY <2>1, <2>4 DEF TakesRowsOf
<1>2. storages \subseteq storages' /\ DOMAIN files \subseteq DOMAIN files' => FALSE
  BY DEF Perms!Resources
<1>3. ASSUME NEW c, Writes(b, c)
      PROVE  \/ storages \subseteq storages' /\ DOMAIN files \subseteq DOMAIN files'
             \/ Perms(b)!DeleteStorage(c)
  BY <1>3 DEF Writes, Perms!InsertPermission, Perms!DeletePermission, Perms!CreateUser,
              Perms!DeleteUser, Perms!CreateGroup, Perms!DeleteGroup, Perms!AddMember,
              Perms!RemoveMember, Perms!CreateStorage
<1>4. Makes(b) => storages \subseteq storages' /\ DOMAIN files \subseteq DOMAIN files'
  BY DEF Makes, Perms!Materialize, Perms!With
<1> QED BY <1>1, <1>2, <1>3, <1>4, StepsAre, ReadsAre

LEMMA RowsGone ==
  ASSUME NEW b, NEW p, TakesRowsOf(b, p), NEW i \in DOMAIN permissions'
  PROVE  /\ i \in DOMAIN permissions /\ permissions'[i] = permissions[i]
         /\ p # permissions[i].principal
         /\ p # <<permissions[i].resource, permissions[i].id>>
<1>1. PICK ids : Perms(b)!RowsOf(p) \subseteq ids
                 /\ permissions' = Perms(b)!Without(permissions, ids)
  BY DEF TakesRowsOf
<1>2. i \in DOMAIN permissions /\ i \notin ids /\ permissions'[i] = permissions[i]
  BY <1>1 DEF Perms!Without
<1>3. i \notin Perms(b)!RowsOf(p)
  BY <1>1, <1>2
<1> QED BY <1>2, <1>3 DEF Perms!RowsOf

\* However requests overlap.
LEMMA DeletionTakesRows ==
  ASSUME NEW b, Perms(b)!Next
  PROVE  Perms(b)!TakesItsRows
<1>1. ASSUME NEW p, TakesRowsOf(b, p)
      PROVE  Perms(b)!RowsOf(p)' = {}
  BY <1>1, RowsGone DEF Perms!RowsOf
<1> QED BY <1>1, PrincipalsStep, ResourcesStep DEF Perms!TakesItsRows

-----------------------------------------------------------------------------
(* Tables of rows that can be walked over *)

Sizes(b) == b.rows \in Nat \ {0} /\ \A path \in b.paths : Len(path) \in Nat

AsksWell(call) == call.want.op = "grant" => call.want.row.deny \in BOOLEAN

TablesInv(b) ==
  /\ CallsInv(b)
  /\ \A c \in b.slots : calls[c].phase # "none" => AsksWell(calls[c])
  /\ DOMAIN permissions \subseteq 1 .. b.rows
  /\ \A i \in DOMAIN permissions : permissions[i].deny \in BOOLEAN
  /\ \A f \in DOMAIN files : files[f].path \in b.paths

\* A row that is inserted gets an id of its own.
LEMMA RowsKept ==
  ASSUME NEW b, Sizes(b), TablesInv(b), Perms(b)!Next,
         NEW i \in DOMAIN permissions, i \in DOMAIN permissions'
  PROVE  permissions'[i] = permissions[i]
<1>1. ASSUME NEW c, NEW id, Granted(b, c, id)
      PROVE  permissions'[i] = permissions[i]
  <2>1. id \notin DOMAIN permissions
    <3>1. PICK ids \in SUBSET (1 .. b.rows) : ids = DOMAIN permissions
      BY DEF TablesInv
    <3>2. Perms(b)!IsNextId(id, ids) /\ b.rows \in Nat
      BY <1>1, <3>1 DEF Granted, Sizes
    <3> QED BY <3>1, <3>2, FreshId
  <2> QED BY <1>1, <2>1 DEF Granted, Perms!With
<1>2. ASSUME NEW ids, permissions' = Perms(b)!Without(permissions, ids)
      PROVE  permissions'[i] = permissions[i]
  BY <1>2 DEF Perms!Without
<1> QED BY <1>1, <1>2, RowsStep

LEMMA TablesStep ==
  ASSUME NEW b, Sizes(b), TablesInv(b), Perms(b)!Next
  PROVE  TablesInv(b)'
<1>1. CallsInv(b)' /\ CallsStep(b)
  BY CallsMove DEF TablesInv
<1>2. ASSUME NEW c \in b.slots, calls'[c].phase # "none"
      PROVE  AsksWell(calls[c])'
  <2>1. \A w \in Perms(b)!Wanted : w.op = "grant" => w.row.deny \in BOOLEAN
    BY WantedIs DEF Names
  <2>2. calls[c].phase # "none" => AsksWell(calls[c])
    BY DEF TablesInv
  <2> QED BY <1>1, <1>2, <2>1, <2>2 DEF CallsStep, AsksWell
<1>3. DOMAIN permissions' \subseteq 1 .. b.rows
      /\ \A i \in DOMAIN permissions' : permissions'[i].deny \in BOOLEAN
  <2>1. ASSUME NEW c \in b.slots, NEW id \in 1 .. b.rows, Granted(b, c, id)
        PROVE  <1>3!:
    <3>1. calls[c].want.row.deny \in BOOLEAN
      BY <2>1 DEF TablesInv, Granted, AsksWell
    <3> QED BY <2>1, <3>1 DEF TablesInv, Granted, Perms!With
  <2>2. ASSUME NEW ids, permissions' = Perms(b)!Without(permissions, ids)
        PROVE  <1>3!:
    BY <2>2 DEF TablesInv, Perms!Without
  <2>3. UNCHANGED permissions => <1>3!:
    BY DEF TablesInv
  <2> QED BY <2>1, <2>2, <2>3, RowsStep
<1>4. \A f \in DOMAIN files' : files'[f].path \in b.paths
  <2>1. ASSUME NEW id, NEW storage, NEW path \in b.paths,
               files' = Perms(b)!With(files, id, [storage |-> storage, path |-> path])
        PROVE  <1>4!:
    BY <2>1 DEF TablesInv, Perms!With
  <2>2. ASSUME NEW ids, files' = Perms(b)!Without(files, ids)
        PROVE  <1>4!:
    BY <2>2 DEF TablesInv, Perms!Without
  <2>3. UNCHANGED files => <1>4!:
    BY DEF TablesInv
  <2> QED BY <2>1, <2>2, <2>3, FilesStep
<1> QED BY <1>1, <1>2, <1>3, <1>4 DEF TablesInv

LEMMA TablesInit ==
  ASSUME NEW b, Sizes(b), Perms(b)!Init
  PROVE  TablesInv(b)
<1>1. /\ calls = [c \in b.slots |-> Perms(b)!NoCall]
      /\ DOMAIN permissions = {1} /\ permissions[1].deny = FALSE
      /\ \A f \in DOMAIN files : files[f].path \in b.paths
  BY DEF Perms!Init
<1>2. 1 \in 1 .. b.rows
  BY DEF Sizes
<1>3. CallsInv(b) /\ \A c \in b.slots : calls[c].phase = "none"
  BY <1>1 DEF CallsInv, Perms!NoCall
<1> QED BY <1>1, <1>2, <1>3 DEF TablesInv

\* What is fetched for a user at a place can be walked over.
LEMMA FetchedIsWalkable ==
  ASSUME NEW b, Sizes(b), TablesInv(b), NEW user, NEW gs, NEW storage, NEW target
  PROVE  Walkable(Perms(b)!FetchRows(Perms(b)!Range(permissions), files, user, gs, storage, target))
<1> DEFINE Shape(p) ==
             [resource |-> p.resource, set |-> p.set, deny |-> p.deny,
              path |-> IF p.resource = "file" THEN files[p.id].path ELSE <<>>]
           On == {i \in DOMAIN permissions :
                    Perms(b)!OnChain(permissions[i], files, storage, target)}
           F == Perms(b)!FetchRows(Perms(b)!Range(permissions), files, user, gs, storage, target)
<1>1. F \subseteq {Shape(permissions[i]) : i \in On}
  BY DEF Perms!FetchRows, Perms!Range
<1>2. IsFiniteSet(On)
  <2>1. IsFiniteSet(1 .. b.rows)
    BY FS_Interval DEF Sizes
  <2>2. On \subseteq 1 .. b.rows
    BY DEF TablesInv
  <2> HIDE DEF On
  <2> QED BY <2>1, <2>2, FS_Subset
<1>3. \A i \in On : /\ Len(Shape(permissions[i]).path) \in Nat
                    /\ Shape(permissions[i]).deny \in BOOLEAN
  <2> TAKE i \in On
  <2>1. permissions[i].resource = "file" => permissions[i].id \in DOMAIN files
    BY DEF Perms!OnChain
  <2> QED BY <2>1 DEF TablesInv, Sizes
<1> HIDE DEF On, F
<1>4. IsFiniteSet({Shape(permissions[i]) : i \in On})
  <2> DEFINE T == {Shape(permissions[i]) : i \in On}
             g == [i \in On |-> Shape(permissions[i])]
  <2>1. g \in Surjection(On, T)
    BY DEF Surjection
  <2> HIDE DEF T, g
  <2> QED BY <1>2, <2>1, FS_Surjection DEF T
<1>5. IsFiniteSet(F)
  BY <1>1, <1>4, FS_Subset
<1> QED BY <1>1, <1>3, <1>5 DEF Walkable, F

LEMMA RulesFollow ==
  ASSUME NEW b, Sizes(b), TablesInv(b)
  PROVE  Perms(b)!RulesAreNearest
BY FetchedIsWalkable, CheckIs
   DEF Perms!RulesAreNearest, Perms!May, Perms!ResolveEffective, Perms!Effective

-----------------------------------------------------------------------------
(* Other storages *)

\* A row that is about another storage is not fetched.
LEMMA FetchedIsLocal ==
  ASSUME NEW b, NEW p, NEW storage, NEW target, Perms(b)!OnChain(p, files, storage, target)
  PROVE  Perms(b)!About(p, storage)
BY DEF Perms!OnChain, Perms!About, Perms!FilesOf

LEMMA OthersStay ==
  ASSUME NEW b, Sizes(b), TablesInv(b), Perms(b)!Next
  PROVE  Perms(b)!StaysLocal
<1> SUFFICES ASSUME UNCHANGED <<members, files>>, NEW storage, NEW user, NEW path,
                    \A i \in Perms(b)!Gone : ~Perms(b)!About(permissions[i], storage),
                    \A i \in Perms(b)!Added : ~Perms(b)!About(permissions'[i], storage)
             PROVE  Perms(b)!May(user, <<storage, path>>)' = Perms(b)!May(user, <<storage, path>>)
  BY DEF Perms!StaysLocal
<1> DEFINE On(table) == {p \in table : Perms(b)!OnChain(p, files, storage, path)}
<1>1. \A i \in DOMAIN permissions \cap DOMAIN permissions' : permissions'[i] = permissions[i]
  BY RowsKept
<1>2. ASSUME NEW i \in DOMAIN permissions, Perms(b)!OnChain(permissions[i], files, storage, path)
      PROVE  i \in DOMAIN permissions' /\ permissions'[i] = permissions[i]
  <2>1. Perms(b)!About(permissions[i], storage)
    BY <1>2, FetchedIsLocal
  <2> QED BY <1>1, <2>1 DEF Perms!Gone
<1>3. ASSUME NEW i \in DOMAIN permissions', Perms(b)!OnChain(permissions'[i], files, storage, path)
      PROVE  i \in DOMAIN permissions /\ permissions'[i] = permissions[i]
  <2>1. Perms(b)!About(permissions'[i], storage)
    BY <1>3 DEF Perms!OnChain, Perms!About, Perms!FilesOf
  <2> QED BY <1>1, <2>1 DEF Perms!Added
<1>4. On(Perms(b)!Range(permissions')) = On(Perms(b)!Range(permissions))
  BY <1>2, <1>3 DEF Perms!Range
<1>5. Perms(b)!FetchRows(Perms(b)!Range(permissions'), files, user, Perms(b)!GroupsOf(user),
                         storage, path)
      = Perms(b)!FetchRows(Perms(b)!Range(permissions), files, user, Perms(b)!GroupsOf(user),
                           storage, path)
  BY <1>4 DEF Perms!FetchRows
<1>6. Perms(b)!GroupsOf(user)' = Perms(b)!GroupsOf(user)
  BY DEF Perms!GroupsOf
<1> QED BY <1>5, <1>6 DEF Perms!May, Perms!ResolveEffective, Perms!Range

-----------------------------------------------------------------------------
(* One request after the other *)

\* What a request names is there until it is done.
AloneInv ==
  /\ Perms(Serial)!NoOrphanRows
  /\ calls[Alone].phase # "none" /\ calls[Alone].want.op = "grant" =>
       Names(Serial, calls[Alone].want.row)

LEMMA AloneStep ==
  ASSUME AloneInv, CallsInv(Serial), Perms(Serial)!Next
  PROVE  AloneInv'
<1> DEFINE b == Serial
<1>1. b.slots = {Alone}
  BY DEF Serial
<1> HIDE DEF b
<1>2. CallsStep(b)
  BY CallsMove DEF b
<1> DEFINE Named(i) ==
             /\ permissions'[i].principal \in Perms(b)!Principals'
             /\ <<permissions'[i].resource, permissions'[i].id>> \in Perms(b)!Resources'
<1>3. ASSUME NEW i \in DOMAIN permissions'
      PROVE  Named(i)
  <2>1. ASSUME NEW c \in b.slots, NEW id, Granted(b, c, id)
        PROVE  Named(i)
    <3>1. Names(b, calls[c].want.row)
      BY <1>1, <2>1 DEF AloneInv, Granted, b
    <3>2. permissions'[i] = calls[c].want.row \/ (i \in DOMAIN permissions
                                                  /\ permissions'[i] = permissions[i])
      BY <2>1 DEF Granted, Perms!With
    <3>3. Perms(b)!Principals' = Perms(b)!Principals /\ Perms(b)!Resources' = Perms(b)!Resources
      BY <2>1 DEF Granted, Perms!Principals, Perms!Resources
    <3> QED BY <3>1, <3>2, <3>3 DEF AloneInv, Names, Perms!NoOrphanRows, b
  <2>2. ASSUME i \in DOMAIN permissions, permissions'[i] = permissions[i]
        PROVE  Named(i)
    <3> DEFINE p == permissions[i].principal
               r == <<permissions[i].resource, permissions[i].id>>
    <3>1. p \in Perms(b)!Principals /\ r \in Perms(b)!Resources
      BY <2>2 DEF AloneInv, Perms!NoOrphanRows, b
    <3>2. p \in Perms(b)!Principals'
      BY <3>1, PrincipalsStep, RowsGone DEF b
    <3>3. r \in Perms(b)!Resources'
      BY <3>1, ResourcesStep, RowsGone DEF b
    <3> QED BY <2>2, <3>2, <3>3
  <2>3. UNCHANGED permissions \/ (\E ids : permissions' = Perms(b)!Without(permissions, ids))
          => i \in DOMAIN permissions /\ permissions'[i] = permissions[i]
    BY DEF Perms!Without
  <2> QED BY <2>1, <2>2, <2>3, RowsStep DEF b
<1>4. ASSUME calls'[Alone].phase # "none", calls'[Alone].want.op = "grant"
      PROVE  Names(b, calls[Alone].want.row)'
  <2>1. CASE UNCHANGED <<users, groups, storages, files>>
    <3>1. Perms(b)!Principals' = Perms(b)!Principals /\ Perms(b)!Resources' = Perms(b)!Resources
      BY <2>1 DEF Perms!Principals, Perms!Resources
    <3>2. Names(b, calls'[Alone].want.row)
      BY <1>1, <1>2, <1>4, WantedIs DEF CallsStep, AloneInv, b
    <3> QED BY <3>1, <3>2 DEF Names
  <2>2. ASSUME Makes(b)
        PROVE  Names(b, calls[Alone].want.row)'
    <3>1. UNCHANGED <<users, groups, storages, calls>> /\ DOMAIN files \subseteq DOMAIN files'
      BY <2>2 DEF Makes, Perms!Materialize, Perms!With
    <3>2. Perms(b)!Principals' = Perms(b)!Principals
          /\ Perms(b)!Resources \subseteq Perms(b)!Resources'
      BY <3>1 DEF Perms!Principals, Perms!Resources
    <3>3. Names(b, calls[Alone].want.row)
      BY <1>4, <3>1 DEF AloneInv, b
    <3> QED BY <3>1, <3>2, <3>3 DEF Names
  <2>3. ASSUME NEW c \in b.slots, Writes(b, c)
        PROVE  FALSE
    <3>1. Perms(b)!Done(Alone)
      BY <1>1, <2>3, WritesAre
    <3>2. calls'[Alone] = Perms(b)!NoCall
      BY <1>1, <3>1 DEF Perms!Done, CallsInv, b
    <3> QED BY <1>4, <3>2 DEF Perms!NoCall
  <2> QED BY <2>1, <2>2, <2>3, StepsAre, ReadsAre DEF b
<1> QED BY <1>3, <1>4 DEF AloneInv, Perms!NoOrphanRows, b

-----------------------------------------------------------------------------
(* Theorems *)

LEMMA InitAlone == Perms(Serial)!Init => AloneInv /\ CallsInv(Serial)
<1> SUFFICES ASSUME Perms(Serial)!Init PROVE AloneInv /\ CallsInv(Serial)
  OBVIOUS
<1>1. /\ calls = [c \in {Alone} |-> Perms(Serial)!NoCall]
      /\ users = {1, 2} /\ DOMAIN permissions = {1}
      /\ permissions[1].principal = <<"user", 1>>
      /\ <<permissions[1].resource, permissions[1].id>> = <<"system", 0>>
  BY DEF Perms!Init, Serial
<1>2. CallsInv(Serial) /\ calls[Alone].phase = "none"
  BY <1>1 DEF CallsInv, Perms!NoCall, Serial
<1>3. Perms(Serial)!NoOrphanRows
  BY <1>1 DEF Perms!NoOrphanRows, Perms!Principals, Perms!Resources
<1> QED BY <1>2, <1>3 DEF AloneInv

LEMMA SizesAre == Sizes(Rules) /\ Sizes(Local)
<1>1. \A x, y : Len(<<x, y>>) = 2
  OBVIOUS
<1>2. \A x, y, z : Len(<<x, y, z>>) = 3
  OBVIOUS
<1>3. Rules.rows \in Nat \ {0} /\ Local.rows \in Nat \ {0}
  BY IdsAssumption DEF Rules, Local
<1>4. /\ Rules.paths = {<<"a", "/">>, <<"a", "/", "b">>}
      /\ Local.paths = {<<"_", "/">>, <<"A", "/", "b">>}
  BY DEF Rules, Local
<1>5. /\ \A path \in Rules.paths : Len(path) \in {2, 3}
      /\ \A path \in Local.paths : Len(path) \in {2, 3}
  BY <1>1, <1>2, <1>4, Zenon
<1> QED BY <1>3, <1>5 DEF Sizes

PermsInv ==
  /\ part = "serial" => AloneInv /\ CallsInv(Serial)
  /\ part = "rules" => TablesInv(Rules)
  /\ part = "local" => TablesInv(Local)

LEMMA StutterPerms == PermsInv /\ UNCHANGED vars => PermsInv'
<1> SUFFICES ASSUME PermsInv, UNCHANGED vars PROVE PermsInv'
  OBVIOUS
<1>1. UNCHANGED <<part, users, groups, storages, members, files, permissions, logins, calls>>
  BY DEF vars
<1>2. \A b : /\ CallsInv(b)' <=> CallsInv(b)
             /\ TablesInv(b)' <=> TablesInv(b)
  BY <1>1 DEF CallsInv, TablesInv, Asks, AsksWell
<1>3. AloneInv' <=> AloneInv
  BY <1>1 DEF AloneInv, Names, Perms!NoOrphanRows, Perms!Principals, Perms!Resources
<1> QED BY <1>1, <1>2, <1>3 DEF PermsInv

LEMMA NextPerms == PermsInv /\ Next => PermsInv'
<1> SUFFICES ASSUME PermsInv, Next PROVE PermsInv'
  OBVIOUS
<1>1. CASE part = "serial" /\ Perms(Serial)!Next
  BY <1>1, AloneStep, CallsMove DEF PermsInv, Next
<1>2. CASE part = "races" /\ Perms(Races)!Next
  BY <1>2 DEF PermsInv, Next
<1>3. CASE part = "rules" /\ Perms(Rules)!Next
  BY <1>3, TablesStep, SizesAre DEF PermsInv, Next
<1>4. CASE part = "local" /\ Perms(Local)!Next
  BY <1>4, TablesStep, SizesAre DEF PermsInv, Next
<1> QED BY <1>1, <1>2, <1>3, <1>4 DEF Next

\* Whatever requests do, the tables stay such that the rules can be walked, and one request
\* after the other names what exists until it is done (perm/admin.go, api/handlers_admin.go).
THEOREM PermissionsKeep == Spec => []PermsInv
<1>1. Init => PermsInv
  BY InitAlone, TablesInit, SizesAre DEF Init, PermsInv
<1>2. PermsInv /\ [Next]_vars => PermsInv'
  BY NextPerms, StutterPerms
<1> QED BY <1>1, <1>2, PTL DEF Spec

\* For every table that requests build: the walk over sorted levels with its admin fallback
\* (perm.go: resolveAction, Check) allows what section 6.3.4 of the design says it should.
THEOREM NearestRowsDecide == Spec => []RulesAreNearest
<1>1. PermsInv => RulesAreNearest
  BY RulesFollow, SizesAre DEF PermsInv, RulesAreNearest
<1> QED BY <1>1, PermissionsKeep, PTL

\* A deletion takes the rows about what it deletes, the files of a storage included, however
\* requests overlap (auth/service.go: deletePrincipal, catalog.go: DeleteStorage); if they come
\* one after the other, no row names what is gone.
THEOREM DeletionsTakeRows == Spec => DeletionsLeaveNoRows
<1>1. ASSUME PermsInv, PermsInv', [Next]_vars
      PROVE  [/\ part = "serial" => Perms(Serial)!NoOrphanRows'
              /\ part = "races" => Perms(Races)!TakesItsRows]_vars
  <2> SUFFICES ASSUME Next
               PROVE  /\ part = "serial" => Perms(Serial)!NoOrphanRows'
                      /\ part = "races" => Perms(Races)!TakesItsRows
    BY <1>1
  <2>1. part' = part
    BY DEF Next
  <2>2. part = "serial" => Perms(Serial)!NoOrphanRows'
    BY <1>1, <2>1 DEF PermsInv, AloneInv
  <2>3. part = "races" => Perms(Races)!Next
    BY DEF Next
  <2> QED BY <2>2, <2>3, DeletionTakesRows
<1> QED BY <1>1, PermissionsKeep, PTL DEF Spec, DeletionsLeaveNoRows

\* Rows about one storage and its files change nothing in another, although paths are
\* compared by pattern (resolve.go: fetchRows joins with f.storage_id = ?).
THEOREM OtherStoragesStay == Spec => RowsStayLocal
<1>1. ASSUME PermsInv, [Next]_vars
      PROVE  [part = "local" => Perms(Local)!StaysLocal]_vars
  BY <1>1, OthersStay, SizesAre DEF PermsInv, Next
<1> QED BY <1>1, PermissionsKeep, PTL DEF Spec, RowsStayLocal

\* The same of the rules for any users, paths, actions and requests, any number of them.
THEOREM NearestRowsDecideAnywhere ==
  ASSUME NEW b, Sizes(b)
  PROVE  Perms(b)!Spec => []Perms(b)!RulesAreNearest
<1>1. Perms(b)!Init => TablesInv(b)
  BY TablesInit
<1>2. TablesInv(b) /\ [Perms(b)!Next]_(Perms(b)!vars) => TablesInv(b)'
  <2> SUFFICES ASSUME TablesInv(b), [Perms(b)!Next]_(Perms(b)!vars) PROVE TablesInv(b)'
    OBVIOUS
  <2>1. CASE UNCHANGED Perms(b)!vars
    BY <2>1 DEF Perms!vars, Perms!tables, TablesInv, CallsInv, Asks, AsksWell
  <2> QED BY <2>1, TablesStep
<1>3. TablesInv(b) => Perms(b)!RulesAreNearest
  BY RulesFollow
<1> QED BY <1>1, <1>2, <1>3, PTL DEF Perms!Spec
==============================================================================
