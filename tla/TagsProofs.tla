----------------------------- MODULE TagsProofs -----------------------------
(***************************************************************************)
(* What Tags keeps true for every set of files and requests and every bound *)
(* on the ids.                                                             *)
(***************************************************************************)
EXTENDS EffectiveFields, SequenceTheorems, FiniteSetTheorems, WellFoundedInduction, TLAPS

(* Paths *)

\* A prefix agrees with the sequence at every place it has.
LEMMA PrefixDef ==
  ASSUME NEW S, NEW p \in Seq(S), NEW q \in Seq(S)
  PROVE  IsPrefix(p, q) <=> /\ Len(p) <= Len(q)
                            /\ \A i \in 1 .. Len(p) : p[i] = q[i]
<1>1. ASSUME Len(p) <= Len(q)
      PROVE  SubSeq(p, 1, Len(p)) = SubSeq(q, 1, Len(p))
               <=> \A i \in 1 .. Len(p) : p[i] = q[i]
  <2>1. /\ SubSeq(p, 1, Len(p)) = [i \in 1 .. Len(p) |-> p[i]]
        /\ SubSeq(q, 1, Len(p)) = [i \in 1 .. Len(p) |-> q[i]]
    BY <1>1, SMT
  <2>2. QED
    BY <2>1
<1>2. QED
  BY <1>1 DEF IsPrefix

\* A prefix of a path and one more id: the whole of it, or a prefix of the path.
LEMMA PrefixOfAppend ==
  ASSUME NEW S, NEW p \in Seq(S), NEW q \in Seq(S), NEW x \in S
  PROVE  IsPrefix(p, Append(q, x)) <=> p = Append(q, x) \/ IsPrefix(p, q)
<1> DEFINE r == Append(q, x)
<1>1. /\ r \in Seq(S)
      /\ Len(r) = Len(q) + 1
      /\ \A i \in 1 .. Len(q) : r[i] = q[i]
      /\ r[Len(q) + 1] = x
  BY AppendProperties
<1>2. /\ Len(p) \in Nat /\ Len(q) \in Nat
      /\ p \in [1 .. Len(p) -> S]
      /\ r \in [1 .. Len(r) -> S]
  BY <1>1, LenProperties
<1> HIDE DEF r
<1>3. ASSUME p = r PROVE IsPrefix(p, r)
  BY <1>3, <1>1, <1>2, PrefixDef
<1>4. ASSUME IsPrefix(p, q) PROVE IsPrefix(p, r)
  <2>1. Len(p) <= Len(q) /\ \A i \in 1 .. Len(p) : p[i] = q[i]
    BY <1>4, PrefixDef
  <2>2. Len(p) <= Len(r) /\ \A i \in 1 .. Len(p) : p[i] = r[i]
    BY <2>1, <1>1, <1>2
  <2>3. QED
    BY <2>2, <1>1, PrefixDef
<1>5. ASSUME IsPrefix(p, r), p # r PROVE IsPrefix(p, q)
  <2>1. Len(p) <= Len(r) /\ \A i \in 1 .. Len(p) : p[i] = r[i]
    BY <1>5, <1>1, PrefixDef
  <2>2. Len(p) # Len(r)
    BY <2>1, <1>5, <1>1, SeqEqual
  <2>3. Len(p) <= Len(q)
    <3>1. Len(p) <= Len(r) /\ Len(r) = Len(q) + 1 /\ Len(p) # Len(r)
      BY <2>1, <2>2, <1>1
    <3>2. Len(p) \in Nat /\ Len(q) \in Nat
      BY <1>2
    <3>3. QED
      BY <3>1, <3>2
  <2>4. \A i \in 1 .. Len(p) : p[i] = q[i]
    BY <2>1, <2>3, <1>1, <1>2
  <2>5. QED
    BY <2>3, <2>4, PrefixDef
<1>6. QED
  BY <1>3, <1>4, <1>5 DEF r

\* Rebasing commutes with going one level down.
LEMMA RebaseAppend ==
  ASSUME NEW S, NEW p \in Seq(S), NEW old \in Seq(S), NEW new \in Seq(S),
         NEW x \in S, IsPrefix(old, p)
  PROVE  /\ Rebase(p, old, new) \in Seq(S)
         /\ Rebase(Append(p, x), old, new) = Append(Rebase(p, old, new), x)
<1> DEFINE r == Append(p, x)
           n == Len(old) + 1
           rest == SubSeq(p, n, Len(p))
<1>1. /\ r \in Seq(S)
      /\ Len(r) = Len(p) + 1
      /\ \A i \in 1 .. Len(p) : r[i] = p[i]
      /\ r[Len(p) + 1] = x
  BY AppendProperties
<1>2. /\ Len(p) \in Nat /\ Len(old) \in Nat /\ Len(old) <= Len(p)
      /\ p \in [1 .. Len(p) -> S]
      /\ r \in [1 .. Len(r) -> S]
  BY <1>1, LenProperties, PrefixDef
<1> HIDE DEF r
<1>3. rest \in Seq(S)
  BY <1>2, SubSeqProperties
<1>4. SubSeq(r, n, Len(r)) = Append(rest, x)
  <2>1. SubSeq(r, n, Len(r)) = SubSeq(r, n, Len(r) - 1) \o << r[Len(r)] >>
    <3>1. Len(r) = Len(p) + 1
      BY <1>1
    <3>2. Len(p) \in Nat /\ Len(old) \in Nat /\ Len(old) <= Len(p)
      BY <1>2
    <3>3. n \in 1 .. Len(r) /\ Len(r) \in n .. Len(r)
      BY <3>1, <3>2
    <3>4. QED
      BY <3>3, <1>1, SubSeqRecursiveSecond
  <2>2. SubSeq(r, n, Len(r) - 1) = rest
    <3>1. SubSeq(r, n, Len(p)) = [i \in 1 .. Len(p) - n + 1 |-> r[n + i - 1]]
      BY <1>1, <1>2, SMT
    <3>2. rest = [i \in 1 .. Len(p) - n + 1 |-> p[n + i - 1]]
      BY <1>2, SMT
    <3>3. \A i \in 1 .. Len(p) - n + 1 : r[n + i - 1] = p[n + i - 1]
      BY <1>1, <1>2
    <3>4. QED
      BY <3>1, <3>2, <3>3, <1>1, <1>2
  <2>3. QED
    BY <2>1, <2>2, <1>1, <1>3, AppendIsConcat
<1>5. /\ new \o rest \in Seq(S)
      /\ new \o Append(rest, x) = Append(new \o rest, x)
  <2>1. <<x>> \in Seq(S)
    OBVIOUS
  <2>2. new \o rest \in Seq(S)
    BY <1>3, ConcatProperties
  <2>3. /\ Append(rest, x) = rest \o <<x>>
        /\ Append(new \o rest, x) = (new \o rest) \o <<x>>
    BY <1>3, <2>2, AppendIsConcat
  <2> HIDE DEF rest
  <2>4. (new \o rest) \o <<x>> = new \o (rest \o <<x>>)
    BY <1>3, <2>1, ConcatAssociative
  <2>5. QED
    BY <2>2, <2>3, <2>4
<1>6. QED
  BY <1>4, <1>5 DEF Rebase, r

\* Rebasing the moved path itself gives the new one.
LEMMA RebaseSelf ==
  ASSUME NEW S, NEW old \in Seq(S), NEW new \in Seq(S)
  PROVE  Rebase(old, old, new) = new
<1>1. SubSeq(old, Len(old) + 1, Len(old)) = << >>
  BY LenProperties, SubSeqEmpty
<1>2. QED
  BY <1>1, ConcatEmptySeq DEF Rebase

-----------------------------------------------------------------------------
(* Applications *)

\* What SingleValued and NoDanglingRows ask of the rows, with the files row of
\* every tagged file among fs; the state of a transaction between two applyTx.
Sound(rows, fs) ==
  /\ rows \subseteq Row
  /\ \A r \in rows : r.file \in fs /\ r.ft \in DOMAIN types /\ r.value \in Live
  /\ \A ft \in DOMAIN types : ~types[ft] => AtMostOne(rows, ft)

\* Removing rows, or creating files rows, breaks nothing.
LEMMA FewerRows ==
  ASSUME NEW rows, NEW fewer \in SUBSET rows, NEW fs, NEW gs,
         Sound(rows, fs), fs \subseteq gs
  PROVE  Sound(fewer, gs)
BY DEF Sound, AtMostOne

\* applyTx leaves at most one value of a single-value type on each target.
LEMMA TagSound ==
  ASSUME NEW rows, NEW fs \in SUBSET Files, NEW targets \in SUBSET fs,
         NEW ref \in Refs, TypeOK, Sound(rows, fs)
  PROVE  Sound(Tag(rows, targets, ref), fs)
<1> DEFINE kept == IF types[ref.ft] THEN rows ELSE Clear(rows, targets, ref.ft)
           new  == {[file |-> f, ft |-> ref.ft, value |-> ref.value] : f \in targets}
<1>1. /\ ref.ft \in DOMAIN types /\ ref.value \in Live
      /\ ref.ft \in TypeIds /\ ref.value \in ValueIds
  BY DEF Refs, TypeOK
<1>2. kept \in SUBSET rows /\ Sound(kept, fs)
  <2>1. kept \in SUBSET rows
    BY DEF Clear
  <2>2. QED
    BY <2>1, FewerRows
<1>3. /\ new \subseteq Row
      /\ \A r \in new : /\ r.file \in targets
                        /\ r.ft = ref.ft
                        /\ r.value = ref.value
  BY <1>1 DEF Row
<1>4. Tag(rows, targets, ref) = kept \cup new
  BY DEF Tag
<1>5. ASSUME NEW ft \in DOMAIN types, ~types[ft]
      PROVE  AtMostOne(kept \cup new, ft)
  <2>1. AtMostOne(kept, ft)
    BY <1>2, <1>5 DEF Sound
  <2>2. \A r \in kept : ~(ft = ref.ft /\ r.file \in targets /\ r.ft = ft)
    BY <1>5 DEF Clear
  <2>3. ASSUME NEW r \in new, NEW s \in new, r.file = s.file PROVE r = s
    BY <2>3
  <2>4. QED
    BY <1>3, <2>1, <2>2, <2>3 DEF AtMostOne
<1>6. QED
  <2>1. kept \cup new \subseteq Row
    BY <1>2, <1>3 DEF Sound
  <2>2. \A r \in kept \cup new :
          r.file \in fs /\ r.ft \in DOMAIN types /\ r.value \in Live
    BY <1>1, <1>2, <1>3 DEF Sound
  <2>3. QED
    BY <1>4, <1>5, <2>1, <2>2 DEF Sound

-----------------------------------------------------------------------------
(* The tables keep their types *)

\* A row's path, and the path a request names, are sequences of ids.
LEMMA PathTyped ==
  ASSUME TypeOK, NEW parent \in ValueIds \cup {Root}, parent # Root => parent \in Live
  PROVE  PathOf(parent) \in Seq(ValueIds)
BY DEF PathOf, TypeOK, Value, Root

LEMMA NoRequestPending == NoRequest \in Pending
BY DEF Pending

LEMMA CreateTyped ==
  ASSUME TypeOK, NEW id \in ValueIds, NEW ft \in TypeIds,
         NEW parent \in ValueIds \cup {Root}, CreateFieldValue(id, ft, parent)
  PROVE  Live' = Live \cup {id} /\ values' \in [Live' -> Value]
<1>1. PathOf(parent) \in Seq(ValueIds)
  BY PathTyped DEF CreateFieldValue, GoodParent
<1>2. [ft |-> ft, parent |-> parent, path |-> Append(PathOf(parent), id)] \in Value
  BY <1>1, AppendProperties DEF Value
<1>3. QED
  BY <1>2 DEF CreateFieldValue, TypeOK, Live

LEMMA MoveTyped ==
  ASSUME TypeOK, NEW id \in ValueIds, NEW parent \in ValueIds \cup {Root},
         MoveFieldValue(id, parent)
  PROVE  Live' = Live /\ values' \in [Live -> Value]
<1> DEFINE old == values[id].path
           new == Append(PathOf(parent), id)
<1>1. id \in Live /\ (parent # Root => parent \in Live)
  BY DEF MoveFieldValue, GoodParent
<1>2. old \in Seq(ValueIds) /\ new \in Seq(ValueIds)
  BY <1>1, PathTyped, AppendProperties DEF TypeOK, Value
<1> HIDE DEF old, new
<1>3. ASSUME NEW v \in WithPrefix(old)
      PROVE  Rebase(values[v].path, old, new) \in Seq(ValueIds)
  <2>1. values[v].path \in Seq(ValueIds) /\ IsPrefix(old, values[v].path)
    BY <1>3 DEF WithPrefix, TypeOK, Value
  <2>2. QED
    BY <1>1, <1>2, <2>1, RebaseAppend
<1>4. values' = [v \in Live |->
        [values[v] EXCEPT
           !.path = IF v \in WithPrefix(old) THEN Rebase(@, old, new) ELSE @,
           !.parent = IF v = id THEN parent ELSE @]]
  BY DEF MoveFieldValue, old, new
<1>5. ASSUME NEW v \in Live PROVE values'[v] \in Value
  BY <1>3, <1>4, <1>5 DEF TypeOK, Value
<1>6. QED
  BY <1>4, <1>5 DEF Live

\* Whatever DeleteFieldValue and DeleteFieldType take, the rest is unchanged.
LEMMA FewerValues ==
  ASSUME TypeOK, NEW gone, values' = [v \in Live \ gone |-> values[v]]
  PROVE  Live' = Live \ gone /\ values' \in [Live' -> Value]
BY DEF TypeOK, Live

LEMMA TypeStep ==
  ASSUME TypeOK, [Next]_vars
  PROVE  /\ DOMAIN types' \subseteq TypeIds /\ types' \in [DOMAIN types' -> BOOLEAN]
         /\ Live' \subseteq ValueIds /\ values' \in [Live' -> Value]
         /\ files' \subseteq Files
         /\ deleting' \in [Requests -> Pending]
<1> USE DEF TypeOK
<1>1. ASSUME NEW id \in TypeIds, NEW multi \in BOOLEAN, CreateFieldType(id, multi)
      PROVE  /\ DOMAIN types' \subseteq TypeIds /\ types' \in [DOMAIN types' -> BOOLEAN]
             /\ UNCHANGED <<values, files, deleting>>
  BY <1>1 DEF CreateFieldType
<1>2. ASSUME NEW ft \in TypeIds, NEW multi \in BOOLEAN, UpdateFieldType(ft, multi)
      PROVE  /\ DOMAIN types' \subseteq TypeIds /\ types' \in [DOMAIN types' -> BOOLEAN]
             /\ UNCHANGED <<values, files, deleting>>
  BY <1>2 DEF UpdateFieldType
<1>3. ASSUME NEW ft \in TypeIds, DeleteFieldType(ft)
      PROVE  /\ DOMAIN types' \subseteq TypeIds /\ types' \in [DOMAIN types' -> BOOLEAN]
             /\ Live' \subseteq ValueIds /\ values' \in [Live' -> Value]
             /\ UNCHANGED <<files, deleting>>
  BY <1>3, FewerValues DEF DeleteFieldType
<1>4. ASSUME NEW id \in ValueIds, NEW ft \in TypeIds,
             NEW parent \in ValueIds \cup {Root}, CreateFieldValue(id, ft, parent)
      PROVE  /\ Live' \subseteq ValueIds /\ values' \in [Live' -> Value]
             /\ UNCHANGED <<types, files, deleting>>
  BY <1>4, CreateTyped DEF CreateFieldValue
<1>5. ASSUME NEW id \in ValueIds, NEW parent \in ValueIds \cup {Root},
             MoveFieldValue(id, parent)
      PROVE  /\ Live' \subseteq ValueIds /\ values' \in [Live' -> Value]
             /\ UNCHANGED <<types, files, deleting>>
  BY <1>5, MoveTyped DEF MoveFieldValue
<1>6. ASSUME NEW q \in Requests, NEW id \in ValueIds, BeginDeleteFieldValue(q, id)
      PROVE  /\ deleting' \in [Requests -> Pending]
             /\ UNCHANGED <<types, values, files>>
  <2>1. [id |-> id, path |-> values[id].path] \in Pending
    BY <1>6 DEF BeginDeleteFieldValue, Pending, Value
  <2>2. QED
    BY <1>6, <2>1 DEF BeginDeleteFieldValue
<1>7. ASSUME NEW q \in Requests, FinishDeleteFieldValue(q)
      PROVE  /\ Live' \subseteq ValueIds /\ values' \in [Live' -> Value]
             /\ deleting' \in [Requests -> Pending]
             /\ UNCHANGED <<types, files>>
  BY <1>7, FewerValues, NoRequestPending DEF FinishDeleteFieldValue, DeleteValues
<1>8. ASSUME NEW id \in ValueIds, NEW target \in ValueIds, MergeFieldValue(id, target)
      PROVE  /\ Live' \subseteq ValueIds /\ values' \in [Live' -> Value]
             /\ UNCHANGED <<types, files, deleting>>
  BY <1>8, FewerValues DEF MergeFieldValue
<1>9. CASE Tagging
  BY <1>9 DEF Tagging, ApplyByFileID, ApplyByPath, RemoveField, Batch, DeleteStorage, Live
<1>10. CASE UNCHANGED vars
  BY <1>10 DEF vars, Live
<1>11. QED
  BY <1>1, <1>2, <1>3, <1>4, <1>5, <1>6, <1>7, <1>8, <1>9, <1>10
     DEF Next, Vocabulary, Live

-----------------------------------------------------------------------------
(* Paths follow parents *)

\* The part of PathMatchesParent that speaks of one value.
Placed(v) ==
  /\ values[v].ft \in DOMAIN types
  /\ GoodParent(values[v].parent, values[v].ft)
  /\ values[v].path = Append(PathOf(values[v].parent), v)

\* ON DELETE CASCADE takes the children of what it takes.
LEMMA CascadeClosed ==
  ASSUME NEW S, NEW v \in Live, v \notin Cascade(S)
  PROVE  values[v].parent \notin Cascade(S) /\ (S \subseteq Live => v \notin S)
BY DEF Cascade

\* Deleting a set closed under children leaves the others in their places.
LEMMA FewerPlaced ==
  ASSUME TypeOK, PathMatchesParent, NEW gone,
         \A v \in Live \ gone : values[v].parent \notin gone,
         \A v \in Live \ gone : values[v].ft \in DOMAIN types',
         values' = [v \in Live \ gone |-> values[v]]
  PROVE  PathMatchesParent'
<1> SUFFICES ASSUME NEW v \in Live' PROVE Placed(v)'
  BY DEF PathMatchesParent, Placed
<1>1. /\ v \in Live \ gone /\ Live' = Live \ gone
      /\ values'[v] = values[v]
  BY DEF Live
<1>2. Placed(v)
  BY <1>1 DEF PathMatchesParent, Placed
<1>3. values[v].parent # Root =>
        /\ values[v].parent \in Live'
        /\ values'[values[v].parent] = values[values[v].parent]
  BY <1>1, <1>2 DEF Placed, GoodParent
<1>4. QED
  BY <1>1, <1>2, <1>3 DEF Placed, GoodParent, PathOf

LEMMA CreatePlaced ==
  ASSUME TypeOK, PathMatchesParent, NEW id \in ValueIds, NEW ft \in TypeIds,
         NEW parent \in ValueIds \cup {Root}, CreateFieldValue(id, ft, parent)
  PROVE  PathMatchesParent'
<1>1. /\ Live' = Live \cup {id} /\ types' = types /\ id \notin Live
      /\ \A v \in Live : values'[v] = values[v]
      /\ values'[id] = [ft |-> ft, parent |-> parent,
                        path |-> Append(PathOf(parent), id)]
      /\ GoodParent(parent, ft) /\ ft \in DOMAIN types
  BY CreateTyped DEF CreateFieldValue, IsNextId, Live
<1>2. \A p \in Live : values'[p] = values[p] /\ p \in Live'
  BY <1>1
<1>3. ASSUME NEW v \in Live PROVE Placed(v)'
  <2>1. Placed(v)
    BY DEF PathMatchesParent, Placed
  <2>2. QED
    BY <1>1, <1>2, <2>1 DEF Placed, GoodParent, PathOf
<1>4. Placed(id)'
  BY <1>1, <1>2 DEF Placed, GoodParent, PathOf
<1>5. QED
  BY <1>1, <1>3, <1>4 DEF PathMatchesParent, Placed

\* Below the moved value, a value and its parent are rebased together; beside it
\* neither is; and the new parent is not below the moved value.
LEMMA MovePlaced ==
  ASSUME TypeOK, PathMatchesParent, NEW id \in ValueIds,
         NEW parent \in ValueIds \cup {Root}, MoveFieldValue(id, parent)
  PROVE  PathMatchesParent'
<1> DEFINE old == values[id].path
           new == Append(PathOf(parent), id)
           Moved(v) == v \in WithPrefix(old)
<1>1. /\ id \in Live /\ GoodParent(parent, values[id].ft)
      /\ types' = types /\ Live' = Live
      /\ ~IsPrefix(old, PathOf(parent))
  BY MoveTyped DEF MoveFieldValue
<1>2. \A v \in Live :
        /\ values'[v].path = IF Moved(v) THEN Rebase(values[v].path, old, new)
                                         ELSE values[v].path
        /\ values'[v].parent = IF v = id THEN parent ELSE values[v].parent
        /\ values'[v].ft = values[v].ft
  BY DEF MoveFieldValue, TypeOK, Value
<1>3. /\ \A v \in Live : values[v].path \in Seq(ValueIds)
      /\ PathOf(parent) \in Seq(ValueIds)
      /\ new \in Seq(ValueIds)
      /\ Live \subseteq ValueIds
  BY <1>1, PathTyped, AppendProperties DEF GoodParent, TypeOK, Value
<1>4. \A v \in Live : Moved(v) <=> IsPrefix(old, values[v].path)
  BY DEF WithPrefix
<1>5. Moved(id)
  BY <1>1, <1>3, <1>4, PrefixDef
<1>6. parent # Root => ~Moved(parent) /\ values'[parent].path = PathOf(parent)
  BY <1>1, <1>2, <1>4 DEF GoodParent, PathOf
<1>7. Placed(id)'
  <2>1. values'[id].path = new
    BY <1>1, <1>2, <1>3, <1>5, RebaseSelf
  <2>2. PathOf(parent)' = PathOf(parent)
    BY <1>6 DEF PathOf
  <2>3. GoodParent(parent, values[id].ft)'
    BY <1>1, <1>2 DEF GoodParent
  <2>4. values[id].ft \in DOMAIN types
    BY <1>1 DEF PathMatchesParent
  <2>5. QED
    BY <1>1, <1>2, <2>1, <2>2, <2>3, <2>4 DEF Placed, GoodParent, PathOf
<1>8. ASSUME NEW v \in Live, v # id PROVE Placed(v)'
  <2>0. PICK p : p = values[v].parent
    OBVIOUS
  <2>1. Placed(v)
    BY DEF PathMatchesParent, Placed
  <2>2. /\ values'[v].ft = values[v].ft /\ values'[v].parent = p
        /\ GoodParent(p, values[v].ft)'
    BY <1>1, <1>2, <1>8, <2>0, <2>1 DEF Placed, GoodParent
  <2>3. PathOf(p) \in Seq(ValueIds)
    BY <2>0, <2>1, PathTyped DEF Placed, GoodParent, TypeOK, Value
  <2>4. values[v].path = Append(PathOf(p), v)
    BY <2>0, <2>1 DEF Placed
  <2>5. values[v].path # old
    <3>1. \E r \in Seq(ValueIds) : old = Append(r, id)
      <4>1. old = Append(PathOf(values[id].parent), id)
        BY <1>1 DEF PathMatchesParent
      <4>2. PathOf(values[id].parent) \in Seq(ValueIds)
        BY <1>1, PathTyped DEF PathMatchesParent, GoodParent, TypeOK, Value
      <4>3. QED
        BY <4>1, <4>2
    <3>2. QED
      BY <1>3, <1>8, <2>3, <2>4, <3>1, AppendInjective
  <2>6. IsPrefix(old, values[v].path) <=> IsPrefix(old, PathOf(p))
    BY <1>1, <1>3, <2>3, <2>4, <2>5, PrefixOfAppend
  <2>7. p = Root => ~IsPrefix(old, PathOf(p))
    <3>1. Len(old) # 0
      <4>1. old = Append(PathOf(values[id].parent), id)
        BY <1>1 DEF PathMatchesParent
      <4>2. PathOf(values[id].parent) \in Seq(ValueIds)
        BY <1>1, PathTyped DEF PathMatchesParent, GoodParent, TypeOK, Value
      <4>3. QED
        BY <4>1, <4>2, AppendProperties, LenProperties
    <3>2. Len(old) \in Nat
      BY <1>1, <1>3, LenProperties
    <3>3. QED
      BY <3>1, <3>2 DEF IsPrefix, PathOf
  <2>8. PathOf(p)' = IF Moved(v) THEN Rebase(PathOf(p), old, new) ELSE PathOf(p)
    <3>1. CASE p = Root
      BY <3>1, <1>4, <2>6, <2>7 DEF PathOf
    <3>2. CASE p # Root
      <4>1. p \in Live /\ PathOf(p) = values[p].path
        BY <3>2, <2>0, <2>1 DEF Placed, GoodParent, PathOf
      <4>2. PathOf(p)' = values'[p].path
        BY <3>2 DEF PathOf
      <4>3. Moved(v) <=> Moved(p)
        BY <1>4, <2>6, <4>1
      <4>4. QED
        BY <1>2, <4>1, <4>2, <4>3
    <3>3. QED
      BY <3>1, <3>2
  <2>9. values'[v].path = Append(PathOf(p)', v)
    <3>1. CASE Moved(v)
      <4>1. IsPrefix(old, PathOf(p)) /\ v \in ValueIds /\ old \in Seq(ValueIds)
        BY <3>1, <1>1, <1>3, <1>4, <2>6
      <4> HIDE DEF old, new
      <4>2. Rebase(Append(PathOf(p), v), old, new)
              = Append(Rebase(PathOf(p), old, new), v)
        BY <1>3, <2>3, <4>1, RebaseAppend
      <4>3. QED
        BY <3>1, <1>2, <2>4, <2>8, <4>2
    <3>2. CASE ~Moved(v)
      BY <3>2, <1>2, <2>4, <2>8
    <3>3. QED
      BY <3>1, <3>2
  <2>10. QED
    BY <1>1, <2>1, <2>2, <2>9 DEF Placed, GoodParent, PathOf
<1>9. QED
  BY <1>1, <1>7, <1>8 DEF PathMatchesParent, Placed

-----------------------------------------------------------------------------
(* The inductive invariant *)

\* SingleValued is not inductive alone: the id of a deleted type is given out
\* again, so it needs that no application outlives its type, and that needs the
\* cascades to be complete.
IndInv == TypeOK /\ PathMatchesParent /\ NoDanglingRows /\ SingleValued

\* The two invariants of the rows, in the form of the lemmas above.
LEMMA SoundRows ==
  TypeOK => (NoDanglingRows /\ SingleValued <=> Sound(fields, files))
BY DEF TypeOK, NoDanglingRows, SingleValued, Sound

LEMMA InitInv == Init => IndInv
BY DEF Init, IndInv, TypeOK, PathMatchesParent, NoDanglingRows, SingleValued,
       Pending, Live

LEMMA PathStep ==
  ASSUME TypeOK, PathMatchesParent, [Next]_vars
  PROVE  PathMatchesParent'
<1>1. ASSUME UNCHANGED values, DOMAIN types \subseteq DOMAIN types'
      PROVE  PathMatchesParent'
  BY <1>1 DEF PathMatchesParent, GoodParent, PathOf, Live
<1>2. ASSUME NEW id \in TypeIds, NEW multi \in BOOLEAN,
             CreateFieldType(id, multi) \/ UpdateFieldType(id, multi)
      PROVE  UNCHANGED values /\ DOMAIN types \subseteq DOMAIN types'
  BY <1>2 DEF CreateFieldType, UpdateFieldType
<1>3. ASSUME NEW ft \in TypeIds, DeleteFieldType(ft) PROVE PathMatchesParent'
  <2>1. PICK gone : gone = Cascade({v \in Live : values[v].ft = ft})
    OBVIOUS
  <2>2. \A v \in Live \ gone : values[v].parent \notin gone /\ values[v].ft # ft
    BY <2>1, CascadeClosed
  <2>3. \A v \in Live \ gone : values[v].ft \in DOMAIN types'
    BY <1>3, <2>2 DEF PathMatchesParent, DeleteFieldType
  <2>4. values' = [v \in Live \ gone |-> values[v]]
    BY <1>3, <2>1 DEF DeleteFieldType
  <2>5. QED
    BY <2>2, <2>3, <2>4, FewerPlaced
<1>4. ASSUME NEW q \in Requests, FinishDeleteFieldValue(q) PROVE PathMatchesParent'
  <2>1. PICK gone : gone = Cascade(WithPrefix(deleting[q].path))
    OBVIOUS
  <2>2. \A v \in Live \ gone : values[v].parent \notin gone
    BY <2>1, CascadeClosed
  <2>3. values' = [v \in Live \ gone |-> values[v]] /\ types' = types
    BY <1>4, <2>1 DEF FinishDeleteFieldValue, DeleteValues
  <2>4. \A v \in Live \ gone : values[v].ft \in DOMAIN types'
    BY <2>3 DEF PathMatchesParent
  <2>5. QED
    BY <2>2, <2>3, <2>4, FewerPlaced
<1>5. ASSUME NEW id \in ValueIds, NEW target \in ValueIds, MergeFieldValue(id, target)
      PROVE  PathMatchesParent'
  <2>1. /\ values' = [v \in Live \ {id} |-> values[v]]
        /\ types' = types
        /\ \A v \in Live : values[v].parent # id
    BY <1>5 DEF MergeFieldValue
  <2>2. \A v \in Live \ {id} : values[v].ft \in DOMAIN types'
    BY <2>1 DEF PathMatchesParent
  <2>3. QED
    BY <2>1, <2>2, FewerPlaced
<1>6. ASSUME NEW q \in Requests, NEW id \in ValueIds, BeginDeleteFieldValue(q, id)
      PROVE  UNCHANGED <<types, values>>
  BY <1>6 DEF BeginDeleteFieldValue
<1>7. ASSUME Tagging \/ UNCHANGED vars PROVE UNCHANGED <<types, values>>
  BY <1>7 DEF Tagging, ApplyByFileID, ApplyByPath, RemoveField, Batch, DeleteStorage, vars
<1>8. QED
  BY <1>1, <1>2, <1>3, <1>4, <1>5, <1>6, <1>7, CreatePlaced, MovePlaced
     DEF Next, Vocabulary

\* MergeFieldValue repoints rows without making two of one: rows of a file and
\* type that were one stay one.
LEMMA MergeSound ==
  ASSUME TypeOK, Sound(fields, files), NEW id \in ValueIds, NEW target \in ValueIds,
         MergeFieldValue(id, target)
  PROVE  Sound(fields, files)'
<1> DEFINE Moved(r) == [r EXCEPT !.value = IF @ = id THEN target ELSE @]
<1>1. /\ fields' = {Moved(r) : r \in fields}
      /\ Live' = Live \ {id} /\ target \in Live /\ id # target
      /\ types' = types /\ files' = files
  BY DEF MergeFieldValue, Live
<1>2. ASSUME NEW r \in fields
      PROVE  /\ Moved(r) \in Row
             /\ Moved(r).file = r.file /\ Moved(r).ft = r.ft
             /\ r.file \in files /\ r.ft \in DOMAIN types
             /\ Moved(r).value \in Live \ {id}
  BY <1>1 DEF Sound, Row
<1>3. ASSUME NEW ft \in DOMAIN types, ~types[ft] PROVE AtMostOne(fields', ft)
  <2>1. AtMostOne(fields, ft)
    BY <1>3 DEF Sound
  <2> HIDE DEF Moved
  <2>2. ASSUME NEW r \in fields, NEW s \in fields,
               Moved(r).file = Moved(s).file, Moved(r).ft = ft, Moved(s).ft = ft
        PROVE  r = s
    BY <1>2, <2>1, <2>2 DEF AtMostOne
  <2>3. QED
    BY <1>1, <2>2 DEF AtMostOne
<1>4. QED
  <2>1. /\ fields' \subseteq Row
        /\ \A r \in fields' : r.file \in files' /\ r.ft \in DOMAIN types' /\ r.value \in Live'
    BY <1>1, <1>2
  <2>2. QED
    BY <1>1, <1>3, <2>1 DEF Sound, AtMostOne

LEMMA BatchSound ==
  ASSUME TypeOK, Sound(fields, files), NEW targets \in SUBSET Files,
         NEW remove, NEW apply \in Applies, Batch(targets, remove, apply)
  PROVE  Sound(fields, files)'
<1> DEFINE fs    == files \cup targets
           kept  == {r \in fields : ~(r.file \in targets /\ r.ft \in remove)}
           first == IF apply = << >> THEN kept ELSE Tag(kept, targets, apply[1])
<1>1. targets \in SUBSET fs /\ fs \in SUBSET Files
  BY DEF TypeOK
<1>2. Sound(kept, fs)
  BY FewerRows
<1>3. /\ apply # << >> => apply[1] \in Refs
      /\ ~(Len(apply) < 2) => apply[2] \in Refs
  BY DEF Applies
<1> HIDE DEF kept, fs
<1>4. Sound(first, fs)
  BY <1>1, <1>2, <1>3, TagSound
<1> HIDE DEF first
<1>5. Sound(IF Len(apply) < 2 THEN first ELSE Tag(first, targets, apply[2]), fs)
  BY <1>1, <1>3, <1>4, TagSound
<1>6. Sound(fields', fs)
  BY <1>5 DEF Batch, BatchRows, first, kept
<1>7. QED
  BY <1>6 DEF Batch, fs, Sound, AtMostOne, Live

LEMMA RowStep ==
  ASSUME TypeOK, Sound(fields, files), [Next]_vars
  PROVE  Sound(fields, files)'
<1>1. ASSUME NEW id \in TypeIds, NEW multi \in BOOLEAN, CreateFieldType(id, multi)
      PROVE  Sound(fields, files)'
  <2>1. /\ id \notin DOMAIN types /\ DOMAIN types' = DOMAIN types \cup {id}
        /\ \A t \in DOMAIN types : types'[t] = types[t]
        /\ UNCHANGED <<values, files, fields>>
    BY <1>1 DEF CreateFieldType, IsNextId
  <2>2. QED
    BY <2>1 DEF Sound, AtMostOne, Live
<1>2. ASSUME NEW ft \in TypeIds, NEW multi \in BOOLEAN, UpdateFieldType(ft, multi)
      PROVE  Sound(fields, files)'
  BY <1>2 DEF UpdateFieldType, TypeOK, Sound, AtMostOne, Live
<1>3. ASSUME NEW ft \in TypeIds, DeleteFieldType(ft) PROVE Sound(fields, files)'
  <2>1. PICK gone : gone = Cascade({v \in Live : values[v].ft = ft})
    OBVIOUS
  <2>2. /\ types' = [t \in DOMAIN types \ {ft} |-> types[t]]
        /\ values' = [v \in Live \ gone |-> values[v]]
        /\ fields' = {r \in fields : r.ft # ft /\ r.value \notin gone}
        /\ files' = files
    BY <1>3, <2>1 DEF DeleteFieldType
  <2>3. /\ Live' = Live \ gone /\ DOMAIN types' = DOMAIN types \ {ft}
        /\ \A t \in DOMAIN types' : types'[t] = types[t]
    BY <2>2 DEF Live
  <2>4. QED
    BY <2>2, <2>3 DEF Sound, AtMostOne
<1>4. ASSUME NEW q \in Requests, FinishDeleteFieldValue(q) PROVE Sound(fields, files)'
  <2>1. PICK gone : gone = Cascade(WithPrefix(deleting[q].path))
    OBVIOUS
  <2>2. /\ values' = [v \in Live \ gone |-> values[v]]
        /\ fields' = {r \in fields : r.value \notin gone}
        /\ UNCHANGED <<types, files>>
    BY <1>4, <2>1 DEF FinishDeleteFieldValue, DeleteValues
  <2>3. Live' = Live \ gone
    BY <2>2 DEF Live
  <2>4. QED
    BY <2>2, <2>3 DEF Sound, AtMostOne
<1>5. ASSUME UNCHANGED <<types, files, fields>>, Live \subseteq Live'
      PROVE  Sound(fields, files)'
  BY <1>5 DEF Sound, AtMostOne
<1>6. ASSUME NEW id \in ValueIds, NEW ft \in TypeIds,
             NEW parent \in ValueIds \cup {Root}, CreateFieldValue(id, ft, parent)
      PROVE  UNCHANGED <<types, files, fields>> /\ Live \subseteq Live'
  BY <1>6, CreateTyped DEF CreateFieldValue
<1>7. ASSUME NEW id \in ValueIds, NEW parent \in ValueIds \cup {Root},
             MoveFieldValue(id, parent)
      PROVE  UNCHANGED <<types, files, fields>> /\ Live \subseteq Live'
  BY <1>7, MoveTyped DEF MoveFieldValue
<1>8. ASSUME NEW q \in Requests, NEW id \in ValueIds, BeginDeleteFieldValue(q, id)
      PROVE  UNCHANGED <<types, files, fields>> /\ Live \subseteq Live'
  BY <1>8 DEF BeginDeleteFieldValue, Live
<1>9. ASSUME NEW f \in Files, NEW ref \in Refs,
             ApplyByFileID(f, ref) \/ ApplyByPath(f, ref)
      PROVE  Sound(fields, files)'
  <2>1. /\ fields' = Tag(fields, {f}, ref) /\ files' = files \cup {f}
        /\ UNCHANGED <<types, values>>
    BY <1>9 DEF ApplyByFileID, ApplyByPath
  <2>2. /\ files \cup {f} \in SUBSET Files /\ {f} \in SUBSET (files \cup {f})
        /\ Sound(fields, files \cup {f})
    BY FewerRows DEF TypeOK
  <2>3. Sound(Tag(fields, {f}, ref), files \cup {f})
    BY <2>2, TagSound
  <2>4. QED
    BY <2>1, <2>3 DEF Sound, AtMostOne, Live
<1>10. ASSUME NEW f \in Files, NEW ft \in TypeIds, RemoveField(f, ft)
       PROVE  Sound(fields, files)'
  BY <1>10 DEF RemoveField, Clear, Sound, AtMostOne, Live
<1>11. ASSUME NEW s \in Storages, DeleteStorage(s) PROVE Sound(fields, files)'
  BY <1>11 DEF DeleteStorage, Sound, AtMostOne, Live
<1>12. CASE UNCHANGED vars
  BY <1>12 DEF vars, Sound, AtMostOne, Live
<1>13. QED
  BY <1>1, <1>2, <1>3, <1>4, <1>5, <1>6, <1>7, <1>8, <1>9, <1>10, <1>11, <1>12,
     MergeSound, BatchSound
     DEF Next, Vocabulary, Tagging

LEMMA IndStep == IndInv /\ [Next]_vars => IndInv'
<1> SUFFICES ASSUME IndInv, [Next]_vars PROVE IndInv'
  OBVIOUS
<1>1. Sound(fields, files)
  BY SoundRows DEF IndInv
<1>2. Sound(fields, files)'
  BY <1>1, RowStep DEF IndInv
<1>3. TypeOK'
  BY <1>2, TypeStep DEF TypeOK, IndInv, Sound
<1>4. PathMatchesParent'
  BY PathStep DEF IndInv
<1>5. (NoDanglingRows /\ SingleValued)'
  BY <1>2 DEF NoDanglingRows, SingleValued, Sound
<1>6. QED
  BY <1>3, <1>4, <1>5 DEF IndInv

LEMMA Inductive == Spec => []IndInv
<1>1. Spec => Init /\ [][Next]_vars
  BY DEF Spec
<1>2. QED
  BY <1>1, InitInv, IndStep, PTL

-----------------------------------------------------------------------------
(* The theorems *)

\* The tables and the deletions in flight keep their types, for any number of
\* files, requests, types and values.
THEOREM TypeCorrect == Spec => []TypeOK
<1>1. IndInv => TypeOK
  BY DEF IndInv
<1>2. QED
  BY <1>1, Inductive, PTL

\* The materialized path of every value stays in step with its parent.
THEOREM PathsFollowParents == Spec => []PathMatchesParent
<1>1. IndInv => PathMatchesParent
  BY DEF IndInv
<1>2. QED
  BY <1>1, Inductive, PTL

\* No sequence of tag operations leaves a file with two values of a single-value
\* field type.
THEOREM SingleValuedAlways == Spec => []SingleValued
<1>1. IndInv => SingleValued
  BY DEF IndInv
<1>2. QED
  BY <1>1, Inductive, PTL

\* No application refers to a type, a value or a file that is gone.
THEOREM RowsNeverDangle == Spec => []NoDanglingRows
<1>1. IndInv => NoDanglingRows
  BY DEF IndInv
<1>2. QED
  BY <1>1, Inductive, PTL

-----------------------------------------------------------------------------
(* The forest *)

\* Every set of numbers has a least one.
LEMMA LeastNat ==
  ASSUME NEW S \in SUBSET Nat, S # {}
  PROVE  \E m \in S : \A k \in S : m <= k
<1> DEFINE Upto(n) == 0 .. n
           T == {Upto(n) : n \in S}
           U == UNION T
<1>1. T # {} /\ T \subseteq FiniteSubsetsOf(Nat)
  <2>1. \A n \in S : Upto(n) \in SUBSET Nat /\ IsFiniteSet(Upto(n))
    BY FS_Interval
  <2>2. QED
    BY <2>1 DEF FiniteSubsetsOf
<1>2. IsWellFoundedOn(StrictSubsetOrdering(Nat), FiniteSubsetsOf(Nat))
  BY FS_StrictSubsetOrderingWellFounded
<1>3. PICK t \in T : \A u \in T : <<u, t>> \notin StrictSubsetOrdering(Nat)
  <2> HIDE DEF T
  <2>1. QED
    BY <1>1, <1>2, WFMin
<1>4. PICK m \in S : t = Upto(m)
  OBVIOUS
<1>5. ASSUME NEW k \in S, k < m
      PROVE  FALSE
  <2>1. Upto(k) \in T /\ Upto(k) \in SUBSET Nat /\ t \in SUBSET Nat
    BY <1>4
  <2>2. Upto(k) \subseteq t /\ m \in t /\ m \notin Upto(k)
    BY <1>4, <1>5
  <2>3. <<Upto(k), t>> \in StrictSubsetOrdering(Nat)
    BY <2>1, <2>2 DEF StrictSubsetOrdering
  <2>4. QED
    BY <1>3, <2>1, <2>3
<1>6. \A k \in S : m <= k
  BY <1>5
<1>7. QED
  BY <1>6

\* The paths of a tree are as long as their values are deep: of a set of values some
\* value has its parent outside the set.
LEMMA Topmost ==
  ASSUME TypeOK, PathMatchesParent, NEW S \in SUBSET Live, S # {}
  PROVE  \E v \in S : values[v].parent \notin S
<1> DEFINE Height(v) == Len(values[v].path)
           D == {Height(v) : v \in S}
<1>1. \A v \in Live : values[v].path \in Seq(ValueIds) /\ Height(v) \in Nat
  BY LenProperties DEF TypeOK, Value
<1>2. D \in SUBSET Nat /\ D # {}
  BY <1>1
<1>3. PICK m \in D : \A k \in D : m <= k
  <2> HIDE DEF D
  <2>1. QED
    BY <1>2, LeastNat
<1>4. PICK v \in S : m = Height(v)
  OBVIOUS
<1>5. ASSUME values[v].parent \in S
      PROVE  FALSE
  <2> DEFINE p == values[v].parent
  <2>1. p \in ValueIds /\ p # Root /\ p \in Live /\ v \in ValueIds /\ v \in Live
    BY <1>5 DEF TypeOK, ValueIds, Root
  <2>2. values[v].path = Append(values[p].path, v)
    BY <2>1 DEF PathMatchesParent, PathOf
  <2>3. Height(v) = Height(p) + 1
    BY <1>1, <2>1, <2>2, AppendProperties
  <2>4. Height(v) <= Height(p)
    BY <1>3, <1>4, <1>5
  <2>5. QED
    BY <1>1, <2>1, <2>3, <2>4
<1>6. QED
  BY <1>5

\* A path that has p as a prefix is p, or its parent's path has it.
LEMMA PrefixUp ==
  ASSUME TypeOK, PathMatchesParent, NEW p \in Seq(ValueIds), p # << >>, NEW v \in Live
  PROVE  v \in WithPrefix(p) <=> values[v].path = p \/ values[v].parent \in WithPrefix(p)
<1> DEFINE u == values[v].parent
<1>1. /\ v \in ValueIds /\ u \in ValueIds \cup {Root} /\ (u # Root => u \in Live)
      /\ values[v].path = Append(PathOf(u), v)
  BY DEF TypeOK, PathMatchesParent, GoodParent, Value
<1>2. PathOf(u) \in Seq(ValueIds)
  BY <1>1, PathTyped
<1>3. v \in WithPrefix(p) <=> p = values[v].path \/ IsPrefix(p, PathOf(u))
  <2> DEFINE q == PathOf(u)
  <2> HIDE DEF q
  <2>1. IsPrefix(p, Append(q, v)) <=> p = Append(q, v) \/ IsPrefix(p, q)
    BY <1>1, <1>2, PrefixOfAppend DEF q
  <2>2. v \in WithPrefix(p) <=> IsPrefix(p, values[v].path)
    BY DEF WithPrefix
  <2>3. QED
    BY <1>1, <2>1, <2>2 DEF q
<1>4. CASE u = Root
  <2>1. Len(p) \in Nat \ {0} /\ Len(<< >>) = 0
    BY EmptySeq, SMT
  <2>2. ~IsPrefix(p, << >>)
    BY <2>1 DEF IsPrefix
  <2>3. PathOf(u) = << >> /\ u \notin Live
    BY <1>4 DEF PathOf, TypeOK, ValueIds, Root
  <2>4. QED
    BY <1>3, <2>2, <2>3 DEF WithPrefix
<1>5. CASE u # Root
  BY <1>1, <1>3, <1>5 DEF WithPrefix, PathOf
<1>6. QED
  BY <1>4, <1>5

\* ON DELETE CASCADE takes the least set that holds S and the children of its members.
LEMMA CascadeLeast ==
  ASSUME NEW S \in SUBSET Live
  PROVE  /\ S \subseteq Cascade(S) /\ Cascade(S) \subseteq Live
         /\ \A c \in Live : values[c].parent \in Cascade(S) => c \in Cascade(S)
         /\ \A T \in SUBSET Live :
              S \subseteq T /\ (\A c \in Live : values[c].parent \in T => c \in T)
                => Cascade(S) \subseteq T
BY DEF Cascade

\* DeleteFieldValue's pattern selects a whole subtree: every value whose path begins
\* with a value's path lies below that value, and no other does.
LEMMA PrefixIsSubtree ==
  ASSUME TypeOK, PathMatchesParent, NEW p \in Seq(ValueIds), p # << >>, WithPrefix(p) # {}
  PROVE  \E x \in Live : values[x].path = p /\ WithPrefix(p) = Cascade({x})
<1> DEFINE W == WithPrefix(p)
<1>1. W \in SUBSET Live /\ W # {}
  BY DEF WithPrefix
<1>2. PICK x \in W : values[x].parent \notin W
  <2> HIDE DEF W
  <2>1. QED
    BY <1>1, Topmost
<1>3. ASSUME NEW v \in W, values[v].parent \notin W
      PROVE  v = x
  <2>1. values[v].path = values[x].path
    BY <1>1, <1>2, <1>3, PrefixUp
  <2>2. \A y \in Live : y \in ValueIds /\ PathOf(values[y].parent) \in Seq(ValueIds)
    BY PathTyped DEF TypeOK, PathMatchesParent, GoodParent, Value
  <2>3. \A y \in Live : values[y].path = Append(PathOf(values[y].parent), y)
    BY DEF PathMatchesParent
  <2>4. v \in Live /\ x \in Live
    BY <1>1
  <2> DEFINE s == PathOf(values[v].parent)
             t == PathOf(values[x].parent)
  <2>5. s \in Seq(ValueIds) /\ t \in Seq(ValueIds) /\ v \in ValueIds /\ x \in ValueIds
    BY <2>2, <2>4
  <2>6. Append(s, v) = Append(t, x)
    BY <2>1, <2>3, <2>4
  <2> HIDE DEF s, t
  <2>7. QED
    BY <2>5, <2>6, AppendInjective
<1>4. /\ values[x].path = p
      /\ \A c \in Live : values[c].parent \in W => c \in W
  BY <1>1, <1>2, PrefixUp
<1> HIDE DEF W
<1>5. Cascade({x}) \subseteq W
  BY <1>1, <1>4, CascadeLeast
<1>6. W \subseteq Cascade({x})
  <2> DEFINE S == W \ Cascade({x})
  <2>1. ASSUME S # {}
        PROVE  FALSE
    <3>1. PICK v \in S : values[v].parent \notin S
      <4> HIDE DEF S
      <4>1. S \in SUBSET Live
        BY <1>1 DEF S
      <4>2. QED
        BY <2>1, <4>1, Topmost
    <3>2. v \in Live /\ x \in Cascade({x}) /\ {x} \subseteq Live
      BY <1>1, CascadeLeast
    <3>3. values[v].parent \notin W
      BY <3>1, <3>2, CascadeLeast
    <3>4. QED
      BY <1>3, <3>2, <3>3
  <2>2. QED
    BY <2>1
<1>7. W = Cascade({x}) /\ x \in Live
  BY <1>1, <1>5, <1>6
<1>8. QED
  BY <1>4, <1>7 DEF W

\* What a value has below it, by the parents alone, is what the cascade takes.
LEMMA BelowIsCascade ==
  ASSUME NEW S \in SUBSET Live
  PROVE  Forest!Below(S) = Cascade(S)
<1>1. S \cap Live = S
  OBVIOUS
<1>2. QED
  BY <1>1 DEF Forest!Below, Forest!Live, Cascade

Trees == [v \in Live |-> [ft |-> values[v].ft, parent |-> values[v].parent]]

LEMMA LoseWhole ==
  ASSUME NEW S \in SUBSET Live, values' = [v \in Live \ Cascade(S) |-> values[v]]
  PROVE  Forest!Lose(S)
<1>1. Live' = Live \ Cascade(S) /\ \A v \in Live' : values'[v] = values[v]
  BY DEF Live
<1>2. Trees' = [v \in Live \ Cascade(S) |-> Trees[v]]
  BY <1>1 DEF Trees
<1>3. QED
  BY <1>2, BelowIsCascade DEF Forest!Lose, Forest!Live, Trees

\* A value cannot move below itself: what lies below it has its path as a prefix.
LEMMA GraftsNoCycle ==
  ASSUME TypeOK, PathMatchesParent, NEW id \in ValueIds, NEW parent \in ValueIds \cup {Root},
         MoveFieldValue(id, parent)
  PROVE  Forest!Graft(id, parent)
<1> DEFINE old == values[id].path
<1>1. /\ id \in Live /\ GoodParent(parent, values[id].ft) /\ ~IsPrefix(old, PathOf(parent))
      /\ Live' = Live
      /\ \A v \in Live : /\ values'[v].ft = values[v].ft
                         /\ values'[v].parent = IF v = id THEN parent ELSE values[v].parent
  <2>1. \A v \in Live : values[v] \in Value
    BY DEF TypeOK
  <2>2. QED
    BY <2>1, MoveTyped DEF MoveFieldValue, Value
<1>2. old \in Seq(ValueIds) /\ old # << >>
  <2>1. PathOf(values[id].parent) \in Seq(ValueIds) /\ id \in ValueIds
    BY <1>1, PathTyped DEF TypeOK, PathMatchesParent, GoodParent, Value
  <2>2. old = Append(PathOf(values[id].parent), id)
    BY <1>1 DEF PathMatchesParent
  <2>3. QED
    BY <2>1, <2>2, AppendProperties
<1>3. parent # Root => parent \in Live \ Cascade({id}) /\ values[parent].ft = values[id].ft
  <2>1. Cascade({id}) \subseteq WithPrefix(old)
    <3>1. \A c \in Live : values[c].parent \in WithPrefix(old) => c \in WithPrefix(old)
      BY <1>2, PrefixUp
    <3>2. id \in WithPrefix(old)
      BY <1>1, <1>2, PrefixUp
    <3>3. {id} \in SUBSET Live /\ WithPrefix(old) \in SUBSET Live
      BY <1>1 DEF WithPrefix
    <3> HIDE DEF old
    <3>4. QED
      BY <3>1, <3>2, <3>3, CascadeLeast
  <2>2. parent # Root => parent \notin WithPrefix(old)
    BY <1>1 DEF WithPrefix, PathOf
  <2>3. QED
    BY <1>1, <2>1, <2>2 DEF GoodParent
<1>4. Trees' = [Trees EXCEPT ![id].parent = parent]
  BY <1>1 DEF Trees
<1>5. Forest!Below({id}) = Cascade({id})
  BY <1>1, BelowIsCascade
<1>6. QED
  BY <1>1, <1>3, <1>4, <1>5 DEF Forest!Graft, Forest!Live, Trees

\* A request that deletes has read a path, and no path is empty.
PathsRead == \A q \in Requests : deleting[q] # NoRequest => deleting[q].path # << >>

LEMMA PathsReadStep == IndInv /\ PathsRead /\ [Next]_vars => PathsRead'
<1> SUFFICES ASSUME IndInv, PathsRead, [Next]_vars PROVE PathsRead'
  OBVIOUS
<1>1. ASSUME NEW q \in Requests, NEW id \in ValueIds, BeginDeleteFieldValue(q, id)
      PROVE  PathsRead'
  <2>1. /\ deleting' = [deleting EXCEPT ![q] = [id |-> id, path |-> values[id].path]]
        /\ deleting \in [Requests -> Pending] /\ id \in Live
    BY <1>1 DEF BeginDeleteFieldValue, IndInv, TypeOK
  <2>2. values[id].path # << >>
    <3>1. PathOf(values[id].parent) \in Seq(ValueIds)
      BY <2>1, PathTyped DEF IndInv, TypeOK, PathMatchesParent, GoodParent, Value
    <3>2. QED
      BY <2>1, <3>1, AppendProperties DEF IndInv, PathMatchesParent
  <2>3. QED
    BY <2>1, <2>2 DEF PathsRead
<1>2. ASSUME NEW q \in Requests, FinishDeleteFieldValue(q)
      PROVE  PathsRead'
  BY <1>2 DEF FinishDeleteFieldValue, PathsRead, IndInv, TypeOK
<1>3. CASE UNCHANGED deleting
  BY <1>3 DEF PathsRead
<1>4. QED
  BY <1>1, <1>2, <1>3
     DEF Next, Vocabulary, Tagging, CreateFieldType, UpdateFieldType, DeleteFieldType,
         CreateFieldValue, MoveFieldValue, MergeFieldValue, ApplyByFileID, ApplyByPath,
         RemoveField, Batch, DeleteStorage, vars

LEMMA ForestStep == IndInv /\ PathsRead /\ [Next]_vars => [Forest!Next]_Trees
<1> SUFFICES ASSUME IndInv, PathsRead, [Next]_vars PROVE [Forest!Next]_Trees
  OBVIOUS
<1>1. ASSUME NEW ft \in TypeIds, DeleteFieldType(ft)
      PROVE  Forest!Next
  <2>1. PICK S : S = {v \in Live : values[v].ft = ft}
    OBVIOUS
  <2>2. S \in SUBSET Live /\ values' = [v \in Live \ Cascade(S) |-> values[v]]
    BY <1>1, <2>1 DEF DeleteFieldType
  <2>3. Forest!Lose(S)
    BY <2>2, LoseWhole
  <2>4. S = {v \in DOMAIN Trees : Trees[v].ft = ft}
    BY <2>1 DEF Trees
  <2>5. Forest!Clear(ft)
    BY <2>3, <2>4 DEF Forest!Clear, Forest!Lose, Forest!Live, Trees
  <2>6. QED
    BY <2>5 DEF Forest!Next
<1>2. ASSUME NEW id \in ValueIds, NEW ft \in TypeIds,
             NEW parent \in ValueIds \cup {Root}, CreateFieldValue(id, ft, parent)
      PROVE  Forest!Next
  <2>1. /\ id \notin Live /\ GoodParent(parent, ft) /\ Live' = Live \cup {id}
        /\ \A v \in Live : values'[v] = values[v]
        /\ values'[id].ft = ft /\ values'[id].parent = parent
    BY <1>2, CreateTyped DEF CreateFieldValue, IsNextId, IndInv
  <2>2. Trees' = [v \in Live \cup {id} |->
                    IF v = id THEN [ft |-> ft, parent |-> parent] ELSE Trees[v]]
    BY <2>1 DEF Trees
  <2>3. Forest!Grow(id, ft, parent)
    BY <2>1, <2>2 DEF Forest!Grow, Forest!Live, Trees, GoodParent
  <2>4. QED
    BY <2>3 DEF Forest!Next
<1>3. ASSUME NEW id \in ValueIds, NEW parent \in ValueIds \cup {Root},
             MoveFieldValue(id, parent)
      PROVE  Forest!Next
  BY <1>3, GraftsNoCycle DEF Forest!Next, IndInv
\* A stale path names a subtree that is there, or nothing.
<1>4. ASSUME NEW q \in Requests, FinishDeleteFieldValue(q)
      PROVE  Forest!Next \/ UNCHANGED Trees
  <2> DEFINE p == deleting[q].path
             W == WithPrefix(p)
  <2>1. p \in Seq(ValueIds) /\ p # << >>
    <3>1. deleting[q] # NoRequest /\ deleting[q] \in Pending
      BY <1>4 DEF FinishDeleteFieldValue, IndInv, TypeOK
    <3>2. QED
      BY <3>1 DEF PathsRead, Pending
  <2>2. values' = [v \in Live \ Cascade(W) |-> values[v]]
    BY <1>4 DEF FinishDeleteFieldValue, DeleteValues
  <2>3. CASE W = {}
    <3>1. {} \in SUBSET Live
      OBVIOUS
    <3>2. Cascade({}) \subseteq {}
      BY <3>1, CascadeLeast
    <3> HIDE DEF W
    <3>3. values' = [v \in Live |-> values[v]]
      BY <2>2, <2>3, <3>2
    <3>4. values' = values
      BY <3>3 DEF IndInv, TypeOK
    <3>5. QED
      BY <3>4 DEF Trees, Live
  <2>4. CASE W # {}
    <3>1. PICK x \in Live : W = Cascade({x})
      BY <2>1, <2>4, PrefixIsSubtree DEF IndInv
    <3>2. Cascade(W) = Cascade({x})
      <4>1. {x} \in SUBSET Live /\ W \in SUBSET Live
        BY DEF WithPrefix
      <4> HIDE DEF W
      <4>2. /\ \A c \in Live : values[c].parent \in W => c \in W
            /\ W \subseteq Cascade(W)
            /\ \A T \in SUBSET Live :
                 W \subseteq T /\ (\A c \in Live : values[c].parent \in T => c \in T)
                   => Cascade(W) \subseteq T
        BY <3>1, <4>1, CascadeLeast
      <4>3. Cascade(W) \subseteq W
        BY <4>1, <4>2
      <4>4. QED
        BY <3>1, <4>2, <4>3
    <3>3. Forest!Lose({x})
      BY <2>2, <3>2, LoseWhole
    <3>4. x \in ValueIds /\ x \in Forest!Live
      BY DEF IndInv, TypeOK, Forest!Live
    <3>5. QED
      BY <3>3, <3>4 DEF Forest!Next, Forest!Prune
  <2>5. QED
    BY <2>3, <2>4
<1>5. ASSUME NEW id \in ValueIds, NEW target \in ValueIds, MergeFieldValue(id, target)
      PROVE  Forest!Next
  <2>1. /\ id \in Live /\ \A v \in Live : values[v].parent # id
        /\ values' = [v \in Live \ {id} |-> values[v]]
    BY <1>5 DEF MergeFieldValue
  <2>2. Cascade({id}) = {id}
    BY <2>1, CascadeLeast
  <2>3. Forest!Lose({id})
    BY <2>1, <2>2, LoseWhole
  <2>4. QED
    BY <2>1, <2>3 DEF Forest!Next, Forest!Prune, Forest!Live
<1>6. CASE UNCHANGED values
  BY <1>6 DEF Trees, Live
<1>7. QED
  BY <1>1, <1>2, <1>3, <1>4, <1>5, <1>6
     DEF Next, Vocabulary, Tagging, CreateFieldType, UpdateFieldType, BeginDeleteFieldValue,
         ApplyByFileID, ApplyByPath, RemoveField, Batch, DeleteStorage, vars

\* The paths implement the forest: whatever requests to move, merge and delete overlap,
\* a value moves and leaves with its whole subtree, never with a part of it, and never
\* moves below itself.
THEOREM PathsImplementForest == Spec => ImplementsForest
<1>1. Init => PathsRead
  BY DEF Init, PathsRead
<1>2. Init => Forest!Init
  <2> SUFFICES ASSUME Init PROVE Forest!Init
    OBVIOUS
  <2>1. Live = {}
    BY DEF Init, Live
  <2>2. QED
    BY <2>1 DEF Forest!Init
<1>3. Spec => []PathsRead
  BY <1>1, PathsReadStep, Inductive, PTL DEF Spec
<1>4. IndInv /\ PathsRead /\ [Next]_vars => [Forest!Next]_Trees
  BY ForestStep
<1>5. QED
  BY <1>2, <1>3, <1>4, Inductive, PTL DEF Spec, ImplementsForest, Forest!Spec, Trees

\* A merge loses no tag: what the merged value was on, the target is on afterwards, and
\* every other application stays.
THEOREM MergeLosesNoTag == Spec => MergeKeepsTags
<1>1. ASSUME IndInv, NEW id \in ValueIds, NEW target \in ValueIds,
             MergeFieldValue(id, target)
      PROVE  /\ {r \in fields : r.value # id} \subseteq fields'
             /\ {<<r.file, r.ft>> : r \in {s \in fields : s.value = id}}
                  \subseteq {<<r.file, r.ft>> : r \in {s \in fields' : s.value = target}}
             /\ \A r \in fields' : r.value # id
  <2> DEFINE Moved(r) == [r EXCEPT !.value = IF @ = id THEN target ELSE @]
  <2>1. fields' = {Moved(r) : r \in fields} /\ id # target
    BY <1>1 DEF MergeFieldValue
  <2>2. \A r \in fields :
          /\ r.value # id => Moved(r) = r
          /\ Moved(r).file = r.file /\ Moved(r).ft = r.ft
          /\ Moved(r).value = IF r.value = id THEN target ELSE r.value
    BY <1>1 DEF IndInv, TypeOK, Row
  <2> HIDE DEF Moved
  <2>3. QED
    BY <2>1, <2>2
<1>2. IndInv /\ [Next]_vars =>
        [\A id, target \in ValueIds : MergeFieldValue(id, target) =>
           /\ {r \in fields : r.value # id} \subseteq fields'
           /\ {<<r.file, r.ft>> : r \in {s \in fields : s.value = id}}
                \subseteq {<<r.file, r.ft>> : r \in {s \in fields' : s.value = target}}
           /\ \A r \in fields' : r.value # id]_vars
  BY <1>1
<1>3. QED
  BY <1>2, Inductive, PTL DEF Spec, MergeKeepsTags

-----------------------------------------------------------------------------
(* What a path shows *)

\* The directory of depth n around a path, or at its own depth the path itself.
At(p, n) == IF n = Depth(p) THEN p ELSE DirOf(p, n)

LEMMA AtIs ==
  ASSUME NEW p, IsPath(p), NEW n \in 1 .. Depth(p)
  PROVE  Depth(At(p, n)) = n /\ (At(p, n) = p <=> n = Depth(p))
<1> DEFINE S == {p.segs[i] : i \in 1 .. Len(p.segs)}
<1>1. p.segs \in Seq(S) /\ Len(p.segs) \in Nat \ {0} /\ n \in 1 .. Len(p.segs)
  BY IsASeq DEF IsPath, Depth
<1>2. Len(SubSeq(p.segs, 1, n)) = n
  BY <1>1, SubSeqProperties
<1>3. p = [storage |-> p.storage, segs |-> p.segs, dir |-> p.dir]
  BY DEF IsPath
<1>4. DirOf(p, n).segs = SubSeq(p.segs, 1, n)
  BY <1>3 DEF DirOf
<1>5. Depth(DirOf(p, n)) = n
  BY <1>2, <1>4 DEF Depth
<1>6. QED
  BY <1>5 DEF At

LEMMA AncestorsAre ==
  ASSUME NEW p, IsPath(p)
  PROVE  Range(AncestorPaths(p)) = {At(p, n) : n \in 1 .. Depth(p)}
<1> DEFINE D == Depth(p)
           above == [i \in 1 .. D - 1 |-> DirOf(p, D - i)]
           S == {At(p, n) : n \in 1 .. D}
<1>1. D \in Nat \ {0}
  BY DEF IsPath, Depth
<1> HIDE DEF D
<1>2. \A i \in 1 .. D - 1 : D - i \in 1 .. D /\ D - i # D /\ above[i] = At(p, D - i)
  BY <1>1 DEF At, D
<1>3. At(p, D) = p /\ D \in 1 .. D
  BY <1>1 DEF At, D
<1>4. above \in Seq(S) /\ Len(above) = D - 1
  BY <1>1, <1>2, IsASeq
<1>5. <<p>> \in Seq(S) /\ Len(<<p>>) = 1 /\ <<p>>[1] = p
  BY <1>3
<1> HIDE DEF above, S
<1>6. /\ Len(<<p>> \o above) = D
      /\ (<<p>> \o above)[1] = p
      /\ \A i \in 2 .. D : (<<p>> \o above)[i] = above[i - 1]
  BY <1>1, <1>4, <1>5, ConcatProperties
<1>7. <<p>> \o above \in Seq(S)
  BY <1>4, <1>5, ConcatProperties
<1>8. \A i \in 2 .. D : i - 1 \in 1 .. D - 1 /\ D - (i - 1) = D - i + 1
  BY <1>1
<1>9. \A i \in 1 .. D : (<<p>> \o above)[i] = At(p, D - i + 1) /\ D - i + 1 \in 1 .. D
  <2> TAKE i \in 1 .. D
  <2>1. CASE i = 1
    BY <1>1, <1>3, <1>6, <2>1
  <2>2. CASE i # 1
    <3>1. i \in 2 .. D
      BY <1>1, <2>2
    <3>2. (<<p>> \o above)[i] = above[i - 1] /\ above[i - 1] = At(p, D - (i - 1))
      BY <1>2, <1>6, <1>8, <3>1
    <3>3. D - i + 1 \in 1 .. D
      BY <1>1, <3>1
    <3>4. QED
      BY <1>8, <3>1, <3>2, <3>3
  <2>3. QED
    BY <2>1, <2>2
<1>10. \A n \in 1 .. D : \E i \in 1 .. D : n = D - i + 1
  <2> TAKE n \in 1 .. D
  <2>1. D - n + 1 \in 1 .. D /\ n = D - (D - n + 1) + 1
    BY <1>1
  <2>2. QED
    BY <2>1
<1>11. DOMAIN (<<p>> \o above) = 1 .. D
  BY <1>6, <1>7, LenProperties
<1> DEFINE all == <<p>> \o above
<1> HIDE DEF all
<1>12. Range(all) = {all[i] : i \in 1 .. D}
  BY <1>11 DEF Range, all
<1>13. \A i \in 1 .. D : all[i] = At(p, D - i + 1) /\ D - i + 1 \in 1 .. D
  BY <1>9 DEF all
<1>14. ASSUME NEW x \in Range(all)
       PROVE  x \in {At(p, n) : n \in 1 .. D}
  BY <1>12, <1>13, <1>14
<1>15. ASSUME NEW n \in 1 .. D
       PROVE  At(p, n) \in Range(all)
  <2>1. PICK i \in 1 .. D : n = D - i + 1
    BY <1>10, <1>15
  <2>2. QED
    BY <1>12, <1>13, <2>1
<1>16. Range(all) = {At(p, n) : n \in 1 .. D}
  BY <1>14, <1>15
<1>17. QED
  BY <1>16 DEF AncestorPaths, above, D, all

\* The values the nearest directory with any has, at depth n or less: only one
\* m has values of its own and none below it.
Nearest(p, ft, n) ==
  UNION {Own(At(p, m), ft) : m \in {m \in 1 .. n : \A k \in m + 1 .. n : Own(At(p, k), ft) = {}}}

\* One level up, when the path at depth n has none of its own.
LEMMA NearestStep ==
  ASSUME NEW p, NEW ft, NEW n \in Nat \ {0}
  PROVE  Nearest(p, ft, n) = IF Own(At(p, n), ft) # {} \/ n = 1 THEN Own(At(p, n), ft)
                             ELSE Nearest(p, ft, n - 1)
<1> DEFINE O(m) == Own(At(p, m), ft)
           M(i) == {m \in 1 .. i : \A k \in m + 1 .. i : O(k) = {}}
<1>1. \A i : Nearest(p, ft, i) = UNION {O(m) : m \in M(i)}
  BY DEF Nearest
<1> HIDE DEF O
<1>2. n \in M(n)
  OBVIOUS
<1>3. CASE O(n) # {}
  <2>1. \A m \in M(n) : m = n
    <3> TAKE m \in M(n)
    <3>1. m \in 1 .. n /\ n \notin m + 1 .. n
      BY <1>3
    <3> QED BY <3>1
  <2>2. M(n) = {n}
    BY <1>2, <2>1
  <2> HIDE DEF M
  <2>3. UNION {O(m) : m \in M(n)} = O(n)
    BY <2>2
  <2>4. Nearest(p, ft, n) = O(n)
    BY <1>1, <2>3
  <2> QED BY <1>3, <2>4 DEF O
<1>4. CASE n = 1
  <2>1. M(n) = {n}
    BY <1>2, <1>4
  <2> HIDE DEF M
  <2>2. UNION {O(m) : m \in M(n)} = O(n)
    BY <2>1
  <2>3. Nearest(p, ft, n) = O(n)
    BY <1>1, <2>2
  <2> QED BY <1>4, <2>3 DEF O
<1>5. CASE O(n) = {} /\ n # 1
  <2>1. \A m \in M(n - 1) : m \in M(n)
    BY <1>5
  <2>2. \A m \in M(n) : m = n \/ m \in M(n - 1)
    BY <1>5
  <2> HIDE DEF M
  <2>3. UNION {O(m) : m \in M(n)} = UNION {O(m) : m \in M(n - 1)}
    BY <1>5, <2>1, <2>2
  <2> QED BY <1>1, <1>5, <2>3 DEF O
<1> QED BY <1>3, <1>4, <1>5

\* The recursion of the reference definition ends there.
LEMMA InheritedIs ==
  ASSUME NEW p, IsPath(p), NEW ft
  PROVE  Inherited(p, ft) = Nearest(p, ft, Depth(p))
<1> DEFINE D == Depth(p)
           O(n) == Own(At(p, n), ft)
           Up(f) == [n \in 1 .. D |-> IF O(n) # {} \/ n = 1 THEN O(n) ELSE f[n - 1]]
           near == [n \in 1 .. D |-> Nearest(p, ft, n)]
           around == CHOOSE f : f = Up(f)
<1>1. D \in Nat \ {0}
  BY DEF IsPath, Depth
<1>2. Inherited(p, ft) = around[D]
  BY DEF Inherited, At
<1> HIDE DEF D
<1>3. \A n \in 1 .. D :
        Nearest(p, ft, n) = IF O(n) # {} \/ n = 1 THEN O(n) ELSE Nearest(p, ft, n - 1)
  BY <1>1, NearestStep
<1> HIDE DEF O
<1>4. near = Up(near)
  BY <1>1, <1>3
<1>5. around = Up(around)
  BY <1>4
<1> HIDE DEF around
<1> DEFINE Wrong == {n \in 1 .. D : around[n] # near[n]}
<1>6. Wrong = {}
  <2> SUFFICES ASSUME Wrong # {} PROVE FALSE
    OBVIOUS
  <2>1. PICK n \in Wrong : \A l \in Wrong : n <= l
    <3>1. Wrong \in SUBSET Nat
      BY <1>1
    <3> HIDE DEF Wrong
    <3> QED BY <3>1, LeastNat
  <2>2. n \in 1 .. D /\ around[n] # near[n] /\ n - 1 \notin Wrong
    BY <1>1, <2>1
  <2> HIDE DEF near
  <2>3. /\ around[n] = IF O(n) # {} \/ n = 1 THEN O(n) ELSE around[n - 1]
        /\ near[n] = IF O(n) # {} \/ n = 1 THEN O(n) ELSE near[n - 1]
    BY <1>4, <1>5, <2>2
  <2>4. n - 1 \in 1 .. D \/ n = 1
    BY <1>1, <2>2
  <2> QED BY <2>2, <2>3, <2>4
<1>7. \A n \in 1 .. D : around[n] = near[n]
  BY <1>6
<1>8. around[D] = near[D]
  <2> HIDE DEF near
  <2> QED BY <1>1, <1>7
<1> QED BY <1>1, <1>2, <1>8 DEF D

\* The rows the query finds lie on the way down to the path, and those shown are
\* the ones no other row of the type lies below.
LEMMA FirstRows ==
  ASSUME NEW p, IsPath(p), NEW ft, NEW r \in Firsts(fields, p, ft)
  PROVE  \E m \in 1 .. Depth(p) :
           /\ Path[r.file] = At(p, m) /\ r \in fields /\ r.ft = ft
           /\ \A k \in m + 1 .. Depth(p) : Own(At(p, k), ft) = {}
<1>1. r \in fields /\ r.ft = ft /\ Path[r.file] \in Range(AncestorPaths(p))
  BY DEF Firsts, Candidates
<1>2. PICK m \in 1 .. Depth(p) : Path[r.file] = At(p, m)
  BY <1>1, AncestorsAre
<1>3. Depth(At(p, m)) = m /\ Depth(p) \in Nat
  BY AtIs DEF IsPath, Depth
<1>4. ASSUME NEW k \in m + 1 .. Depth(p), Own(At(p, k), ft) # {}
      PROVE  FALSE
  <2>1. PICK s \in fields : Path[s.file] = At(p, k) /\ s.ft = ft
    BY <1>4 DEF Own
  <2>2. k \in 1 .. Depth(p) /\ k > m
    BY <1>3
  <2>3. Path[s.file] \in Range(AncestorPaths(p)) /\ Depth(At(p, k)) = k
    BY <2>1, <2>2, AncestorsAre, AtIs
  <2>4. s \in {t \in Candidates(fields, p) : t.ft = ft}
    BY <2>1, <2>3 DEF Candidates
  <2>5. Depth(Path[s.file]) <= Depth(Path[r.file])
    BY <2>4 DEF Firsts
  <2> QED BY <1>2, <1>3, <2>1, <2>2, <2>3, <2>5
<1> QED BY <1>1, <1>2, <1>4

LEMMA FirstRowsAll ==
  ASSUME NEW p, IsPath(p), NEW ft, NEW m \in 1 .. Depth(p),
         \A k \in m + 1 .. Depth(p) : Own(At(p, k), ft) = {},
         NEW r \in fields, Path[r.file] = At(p, m), r.ft = ft
  PROVE  r \in Firsts(fields, p, ft)
<1>1. Depth(At(p, m)) = m /\ Depth(p) \in Nat
  BY AtIs DEF IsPath, Depth
<1>2. r \in Candidates(fields, p)
  BY AncestorsAre DEF Candidates
<1>3. ASSUME NEW s \in Candidates(fields, p), s.ft = ft
      PROVE  Depth(Path[s.file]) <= Depth(Path[r.file])
  <2>1. s \in fields /\ Path[s.file] \in Range(AncestorPaths(p))
    BY <1>3 DEF Candidates
  <2>2. PICK k \in 1 .. Depth(p) : Path[s.file] = At(p, k)
    BY <2>1, AncestorsAre
  <2>3. Depth(At(p, k)) = k
    BY AtIs
  <2>4. Own(At(p, k), ft) # {}
    BY <1>3, <2>1, <2>2 DEF Own
  <2>5. k \notin m + 1 .. Depth(p)
    BY <2>4
  <2>6. k <= m
    BY <1>1, <2>5
  <2> QED BY <1>1, <2>2, <2>3, <2>6
<1> QED BY <1>2, <1>3 DEF Firsts

\* One query, sorted by depth and filtered by the types already seen, finds the
\* nearest values, and marks them inherited when they are not the path's own.
LEMMA ShownIs ==
  ASSUME NEW p, IsPath(p), NEW ft
  PROVE  /\ {s.value : s \in Shown(fields, p, ft)} = Nearest(p, ft, Depth(p))
         /\ \A s \in Shown(fields, p, ft) :
              /\ s.inherited <=> Own(p, ft) = {}
              /\ \E r \in fields : s.value = r.value
<1> DEFINE D == Depth(p)
<1>1. D \in Nat \ {0} /\ D \in 1 .. D /\ At(p, D) = p
  BY DEF IsPath, Depth, At
<1>2. ASSUME NEW s \in Shown(fields, p, ft)
      PROVE  /\ s.value \in Nearest(p, ft, D)
             /\ s.inherited <=> Own(p, ft) = {}
             /\ \E r \in fields : s.value = r.value
  <2>1. PICK r \in Firsts(fields, p, ft) :
          s = [value |-> r.value, inherited |-> Path[r.file] # p]
    BY DEF Shown
  <2>2. PICK m \in 1 .. D :
          /\ Path[r.file] = At(p, m) /\ r \in fields /\ r.ft = ft
          /\ \A k \in m + 1 .. D : Own(At(p, k), ft) = {}
    BY FirstRows
  <2>3. r.value \in Own(At(p, m), ft)
    BY <2>2 DEF Own
  <2>4. s.value \in Nearest(p, ft, D)
    BY <2>1, <2>2, <2>3 DEF Nearest
  <2>5. Path[r.file] = p <=> m = D
    BY <2>2, AtIs
  <2>6. m = D <=> Own(p, ft) # {}
    <3>1. CASE m = D
      BY <1>1, <2>3, <3>1
    <3>2. CASE m # D
      <4>1. D \in m + 1 .. D
        BY <1>1, <2>2, <3>2
      <4> QED BY <1>1, <2>2, <3>2, <4>1
    <3> QED BY <3>1, <3>2
  <2> QED BY <2>1, <2>2, <2>4, <2>5, <2>6
<1>3. ASSUME NEW x \in Nearest(p, ft, D)
      PROVE  x \in {s.value : s \in Shown(fields, p, ft)}
  <2>1. PICK m \in 1 .. D :
          x \in Own(At(p, m), ft) /\ \A k \in m + 1 .. D : Own(At(p, k), ft) = {}
    BY <1>3 DEF Nearest
  <2>2. PICK r \in fields : x = r.value /\ Path[r.file] = At(p, m) /\ r.ft = ft
    BY <2>1 DEF Own
  <2>3. r \in Firsts(fields, p, ft)
    BY <2>1, <2>2, FirstRowsAll
  <2>4. [value |-> r.value, inherited |-> Path[r.file] # p] \in Shown(fields, p, ft)
    BY <2>3 DEF Shown
  <2> QED BY <2>2, <2>4
<1> QED BY <1>2, <1>3

-----------------------------------------------------------------------------
(* The labels of a value *)

\* The ids of a live value's path are live.
LEMMA PathLive ==
  ASSUME TypeOK, PathMatchesParent, NEW v \in Live
  PROVE  \A i \in 1 .. Len(values[v].path) : values[v].path[i] \in Live
<1> DEFINE Good(u) == \A i \in 1 .. Len(values[u].path) : values[u].path[i] \in Live
           Bad == {u \in Live : ~Good(u)}
<1>1. Bad = {}
  <2> SUFFICES ASSUME Bad # {} PROVE FALSE
    OBVIOUS
  <2>1. PICK u \in Bad : values[u].parent \notin Bad
    <3>1. Bad \in SUBSET Live
      OBVIOUS
    <3> HIDE DEF Bad
    <3> QED BY <3>1, Topmost
  <2> DEFINE w == values[u].parent
             q == PathOf(w)
  <2>2. /\ u \in Live /\ u \in ValueIds /\ (w # Root => w \in Live)
        /\ values[u].path = Append(q, u) /\ q \in Seq(ValueIds)
    BY PathTyped DEF TypeOK, Value, PathMatchesParent, GoodParent
  <2>3. \A i \in 1 .. Len(q) : q[i] \in Live
    <3>1. CASE w = Root
      BY <3>1, EmptySeq DEF PathOf
    <3>2. CASE w # Root
      <4>1. w \in Live /\ Good(w) /\ q = values[w].path
        BY <2>1, <2>2, <3>2 DEF PathOf
      <4> QED BY <4>1
    <3> QED BY <3>1, <3>2
  <2> HIDE DEF q
  <2>4. /\ Len(Append(q, u)) = Len(q) + 1 /\ Append(q, u)[Len(q) + 1] = u
        /\ \A i \in 1 .. Len(q) : Append(q, u)[i] = q[i]
    BY <2>2, AppendProperties
  <2>5. Len(q) \in Nat
    BY <2>2, LenProperties
  <2>6. \A i \in 1 .. Len(Append(q, u)) : Append(q, u)[i] \in Live
    BY <2>2, <2>3, <2>4, <2>5
  <2> QED BY <2>1, <2>2, <2>6
<1> QED BY <1>1

\* The labels shown are those of the whole path column.
LEMMA BreadcrumbIs ==
  ASSUME TypeOK, PathMatchesParent, NEW v \in Live
  PROVE  Breadcrumb(v) = values[v].path
<1> DEFINE p == values[v].path
           n == Len(p)
           Down(f) == [i \in 0 .. n |->
                         IF i = 0 THEN << >>
                         ELSE IF p[i] \in Live THEN Append(f[i - 1], p[i]) ELSE f[i - 1]]
           crumb == CHOOSE f : f = Down(f)
           sub == [i \in 0 .. n |-> SubSeq(p, 1, i)]
<1>1. Breadcrumb(v) = crumb[n]
  BY DEF Breadcrumb
<1>2. p \in Seq(ValueIds) /\ \A i \in 1 .. n : p[i] \in Live
  BY PathLive DEF TypeOK, Value
<1> HIDE DEF p
<1>3. n \in Nat
  BY <1>2, LenProperties
<1>4. SubSeq(p, 1, 0) = << >> /\ SubSeq(p, 1, n) = p
  BY <1>2, <1>3, SubSeqEmpty, SubSeqFull
<1>5. \A i \in 1 .. n : SubSeq(p, 1, i) = Append(SubSeq(p, 1, i - 1), p[i])
  <2> TAKE i \in 1 .. n
  <2>1. /\ SubSeq(p, 1, i) = SubSeq(p, 1, i - 1) \o << p[i] >>
        /\ SubSeq(p, 1, i - 1) \in Seq(ValueIds)
        /\ p[i] \in ValueIds
    <3>1. 1 \in 1 .. n /\ i \in 1 .. n /\ i - 1 \in 0 .. n
      BY <1>3
    <3>2. SubSeq(p, 1, i) = SubSeq(p, 1, i - 1) \o << p[i] >>
      BY <1>2, <1>3, <3>1, SubSeqRecursiveSecond
    <3>3. SubSeq(p, 1, i - 1) \in Seq(ValueIds)
      BY <1>2, <1>3, <3>1, SubSeqProperties
    <3> QED BY <1>2, <3>2, <3>3, LenProperties
  <2> HIDE DEF n
  <2> QED BY <2>1, AppendIsConcat
<1> HIDE DEF n
<1>6. sub = Down(sub)
  <2>1. \A i \in 0 .. n : i # 0 => i \in 1 .. n /\ i - 1 \in 0 .. n
    BY <1>3
  <2> QED BY <1>2, <1>4, <1>5, <2>1
<1>7. crumb = Down(crumb)
  BY <1>6
<1> HIDE DEF crumb
<1> DEFINE Wrong == {i \in 0 .. n : crumb[i] # sub[i]}
<1>8. Wrong = {}
  <2> SUFFICES ASSUME Wrong # {} PROVE FALSE
    OBVIOUS
  <2>1. PICK i \in Wrong : \A l \in Wrong : i <= l
    <3>1. Wrong \in SUBSET Nat
      BY <1>3
    <3> HIDE DEF Wrong
    <3> QED BY <3>1, LeastNat
  <2> HIDE DEF sub
  <2>2. i \in 0 .. n /\ crumb[i] # sub[i] /\ i - 1 \notin Wrong
    <3>1. i \in 0 .. n /\ crumb[i] # sub[i]
      OBVIOUS
    <3> HIDE DEF Wrong
    <3>2. ~(i <= i - 1)
      BY <1>3, <3>1
    <3> QED BY <2>1, <3>1, <3>2
  <2>3. i # 0 => i - 1 \in 0 .. n
    BY <1>3, <2>2
  <2>4. /\ crumb[i] = IF i = 0 THEN << >>
                      ELSE IF p[i] \in Live THEN Append(crumb[i - 1], p[i]) ELSE crumb[i - 1]
        /\ sub[i] = IF i = 0 THEN << >>
                    ELSE IF p[i] \in Live THEN Append(sub[i - 1], p[i]) ELSE sub[i - 1]
    BY <1>6, <1>7, <2>2
  <2> QED BY <2>2, <2>3, <2>4
<1>9. \A i \in 0 .. n : crumb[i] = sub[i]
  BY <1>8
<1>10. n \in 0 .. n
  BY <1>3
<1> QED BY <1>1, <1>4, <1>9, <1>10 DEF p

\* They are the labels of the values above it.
LEMMA ChainIs ==
  ASSUME TypeOK, PathMatchesParent
  PROVE  \A v \in Live : Chain[v] = values[v].path
<1> DEFINE Down(f) == [v \in Live |-> IF values[v].parent = Root THEN <<v>>
                                      ELSE Append(f[values[v].parent], v)]
           path == [v \in Live |-> values[v].path]
           chain == CHOOSE f : f = Down(f)
<1>1. Chain = chain
  BY DEF Chain
<1>2. ASSUME NEW v \in Live
      PROVE  /\ values[v].parent # Root => values[v].parent \in Live
             /\ values[v].path = IF values[v].parent = Root THEN <<v>>
                                 ELSE Append(values[values[v].parent].path, v)
  <2>1. /\ values[v].parent # Root => values[v].parent \in Live
        /\ values[v].path = Append(PathOf(values[v].parent), v)
    BY DEF PathMatchesParent, GoodParent
  <2>2. Append(<< >>, v) = <<v>>
    OBVIOUS
  <2> QED BY <2>1, <2>2 DEF PathOf
<1>3. path = Down(path)
  BY <1>2
<1>4. chain = Down(chain)
  <2>1. \E f : f = Down(f)
    <3> HIDE DEF Down
    <3> QED BY <1>3
  <2> HIDE DEF Down
  <2> QED BY <2>1
<1> HIDE DEF chain
<1> DEFINE Wrong == {v \in Live : chain[v] # values[v].path}
<1>5. Wrong = {}
  <2> SUFFICES ASSUME Wrong # {} PROVE FALSE
    OBVIOUS
  <2>1. PICK v \in Wrong : values[v].parent \notin Wrong
    <3>1. Wrong \in SUBSET Live
      OBVIOUS
    <3> HIDE DEF Wrong
    <3> QED BY <3>1, Topmost
  <2>2. v \in Live /\ chain[v] # values[v].path
    OBVIOUS
  <2>3. chain[v] = IF values[v].parent = Root THEN <<v>> ELSE Append(chain[values[v].parent], v)
    BY <1>4, <2>2
  <2> QED BY <1>2, <2>1, <2>2, <2>3
<1> QED BY <1>1, <1>5

-----------------------------------------------------------------------------
(* The nearest tag wins *)

LEMMA Nearness ==
  ASSUME IndInv, \A f \in Files : IsPath(Path[f])
  PROVE  NearestWins
<1> SUFFICES ASSUME NEW p \in Paths, NEW ft \in TypeIds
             PROVE  /\ {s.value : s \in Shown(fields, p, ft)} = Inherited(p, ft)
                    /\ \A s \in Shown(fields, p, ft) :
                         /\ s.inherited <=> Own(p, ft) = {}
                         /\ Breadcrumb(s.value) = Chain[s.value]
  BY DEF NearestWins
<1>1. IsPath(p)
  BY DEF Paths
<1>2. /\ {s.value : s \in Shown(fields, p, ft)} = Inherited(p, ft)
      /\ \A s \in Shown(fields, p, ft) :
           /\ s.inherited <=> Own(p, ft) = {}
           /\ \E r \in fields : s.value = r.value
  BY <1>1, ShownIs, InheritedIs
<1>3. ASSUME NEW v \in Live
      PROVE  Breadcrumb(v) = Chain[v]
  BY BreadcrumbIs, ChainIs DEF IndInv
<1>4. \A r \in fields : r.value \in Live
  BY DEF IndInv, NoDanglingRows
<1> QED BY <1>2, <1>3, <1>4

\* A path shows the nearest values of each type, inherited exactly when it has none
\* of its own, each with the labels of the chain of values above it: the one query
\* and the path column answer what a walk up the directories, and one up the
\* parents, would answer.
THEOREM NearestTagWins ==
  ASSUME \A f \in Files : IsPath(Path[f])
  PROVE  Spec => []NearestWins
<1>1. IndInv => NearestWins
  BY Nearness
<1> QED BY <1>1, Inductive, PTL

\* So it does when every operation runs on its own.
LEMMA OneByOneStep == IndInv /\ [OneByOne]_vars => IndInv'
<1>1. OneByOne => Next
  BY DEF OneByOne, Next, Tagging
<1> QED BY <1>1, IndStep
=============================================================================
