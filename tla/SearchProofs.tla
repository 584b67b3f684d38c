----------------------------- MODULE SearchProofs -----------------------------
(***************************************************************************)
(* Proofs about what readers see.  The index of names (FtsIndex) mirrors   *)
(* the tables for every set of names and any number of values and aliases. *)
(* A search read page by page (SearchPages, as a part of MCSearch) is      *)
(* complete for any values and filters, page size, number of files and     *)
(* every bound; how a path is computed plays no part in it: while values   *)
(* that a fuzzy filter asks for stay where they are, it is the same path.  *)
(* The tags shown (EffectiveFields, another part) are those of TagsProofs. *)
(***************************************************************************)
EXTENDS MCSearch, Sequences, FiniteSetTheorems, FunctionTheorems, TLAPS

(* The index of names *)

\* Tables in which the index is right for every value that has a row, and all
\* that belongs to no row belongs to one that is being deleted.
Synced(labels, rows, idx, gone) ==
  /\ \A v \in DOMAIN labels : v \in DOMAIN idx /\ idx[v] = TextOf(v, labels, rows)
  /\ DOMAIN idx \subseteq DOMAIN labels \cup gone
  /\ \A a \in DOMAIN rows : rows[a].owner \in DOMAIN labels \cup gone

Consistent ==
  /\ Synced(label, aliases, index, work.gone)
  /\ work.gone \cap DOMAIN label = {}
  /\ Synced(committed.label, committed.aliases, committed.index, {})

\* What a statement or transaction may assume of its own progress.
Progress ==
  /\ work.op = "none" =>
       /\ work = Idle
       /\ label = committed.label /\ aliases = committed.aliases /\ index = committed.index
  /\ work.todo \subseteq DOMAIN label
  /\ work.op \in {"moveAliases", "addLabel"} =>
       work.gone = {} /\ work.target \in DOMAIN label \ work.todo

\* A merge of id into its target on its way: between them they have the aliases
\* they had, and later the label of id as well.
Merging(id) ==
  LET target == work.target
      before == committed.label
      old    == AliasesOf(id, committed.aliases) \cup AliasesOf(target, committed.aliases)
  IN  /\ id # target /\ {id, target} \subseteq DOMAIN before
      /\ work.op # "dropValue" => work.todo = {id} /\ label = before
      /\ work.op # "moveAliases" => AliasesOf(id, aliases) = {}
      /\ work.op = "moveAliases" => AliasesOf(id, aliases) \cup AliasesOf(target, aliases) = old
      /\ work.op = "addLabel" => AliasesOf(target, aliases) = old
      /\ work.op = "dropValue" =>
           /\ AliasesOf(target, aliases) = old \cup {before[id]}
           /\ work.todo \subseteq {id}
           /\ DOMAIN before = DOMAIN label \cup {id}
           /\ label[target] = before[target]

MergeOnItsWay ==
  work.op \in {"moveAliases", "addLabel", "dropValue"} => \E id \in ValueIds : Merging(id)

IndexInv == TypeOK /\ Consistent /\ Progress /\ MergeOnItsWay

-----------------------------------------------------------------------------
(* Tables *)

LEMMA PartialIff ==
  ASSUME NEW ids, NEW rows, NEW f
  PROVE  f \in Partial(ids, rows) <=> DOMAIN f \subseteq ids /\ f \in [DOMAIN f -> rows]
<1>1. ASSUME f \in Partial(ids, rows)
      PROVE  DOMAIN f \subseteq ids /\ f \in [DOMAIN f -> rows]
  <2>1. PICK S \in SUBSET ids : f \in [S -> rows]
    BY <1>1 DEF Partial
  <2>2. QED
    BY <2>1
<1>2. ASSUME DOMAIN f \subseteq ids, f \in [DOMAIN f -> rows]
      PROVE  f \in Partial(ids, rows)
  BY <1>2 DEF Partial
<1>3. QED
  BY <1>1, <1>2

\* What the writer's tables are.
Typed(labels, rows, idx) ==
  /\ DOMAIN labels \subseteq ValueIds /\ labels \in [DOMAIN labels -> Names]
  /\ DOMAIN rows \subseteq AliasIds   /\ rows \in [DOMAIN rows -> Alias]
  /\ DOMAIN idx \subseteq ValueIds    /\ idx \in [DOMAIN idx -> Text]

LEMMA TypedTables ==
  ASSUME NEW labels, NEW rows, NEW idx
  PROVE  [label |-> labels, aliases |-> rows, index |-> idx] \in Tables
           <=> Typed(labels, rows, idx)
<1>1. [label |-> labels, aliases |-> rows, index |-> idx] \in Tables
        <=> /\ labels \in Partial(ValueIds, Names)
            /\ rows \in Partial(AliasIds, Alias)
            /\ idx \in Partial(ValueIds, Text)
  BY DEF Tables
<1>2. QED
  BY <1>1, PartialIff DEF Typed

LEMMA TypedWriter == TypeOK => Typed(label, aliases, index)
  BY TypedTables DEF TypeOK

LEMMA TypedReaders ==
  ASSUME TypeOK
  PROVE  /\ committed = [label |-> committed.label, aliases |-> committed.aliases,
                         index |-> committed.index]
         /\ Typed(committed.label, committed.aliases, committed.index)
<1>1. committed = [label |-> committed.label, aliases |-> committed.aliases,
                   index |-> committed.index]
  BY DEF TypeOK, Tables
<1>2. QED
  BY <1>1, TypedTables DEF TypeOK

LEMMA TextTyped ==
  ASSUME NEW labels, NEW rows, NEW v \in DOMAIN labels,
         labels \in [DOMAIN labels -> Names], rows \in [DOMAIN rows -> Alias]
  PROVE  TextOf(v, labels, rows) \in Text
<1>1. AliasesOf(v, rows) \subseteq Names
  BY DEF AliasesOf, Alias
<1>2. QED
  BY <1>1 DEF TextOf, Text

LEMMA RebuildTyped ==
  ASSUME NEW labels, NEW rows, NEW S, Typed(labels, rows, index)
  PROVE  Typed(labels, rows, Rebuild(S, labels, rows))
<1> DEFINE new == Rebuild(S, labels, rows)
<1>1. /\ DOMAIN new = (DOMAIN index \ S) \cup (S \cap DOMAIN labels)
      /\ new = [v \in DOMAIN new |-> IF v \in S THEN TextOf(v, labels, rows) ELSE index[v]]
  BY DEF Rebuild
<1>2. ASSUME NEW v \in DOMAIN new PROVE new[v] \in Text
  BY <1>1, <1>2, TextTyped DEF Typed
<1>3. QED
  BY <1>1, <1>2 DEF Typed

\* Rebuilding the entries of S is enough if the others are right.
LEMMA RebuildSyncs ==
  ASSUME NEW labels, NEW rows, NEW S, NEW gone,
         \A v \in DOMAIN labels \ S : v \in DOMAIN index /\ index[v] = TextOf(v, labels, rows),
         DOMAIN index \subseteq DOMAIN labels \cup gone \cup S,
         \A a \in DOMAIN rows : rows[a].owner \in DOMAIN labels \cup gone
  PROVE  Synced(labels, rows, Rebuild(S, labels, rows), gone)
  BY DEF Synced, Rebuild

\* Readers get what the writer has.
LEMMA CommitStep ==
  ASSUME IndexInv, Commit, Typed(label', aliases', index'), Synced(label', aliases', index', {})
  PROVE  IndexInv'
<1>1. /\ work' = Idle
      /\ committed' = [label |-> label', aliases |-> aliases', index |-> index']
  BY DEF Commit
<1>2. Idle \in Work /\ Idle.op = "none" /\ Idle.todo = {} /\ Idle.gone = {}
  BY DEF Idle, Work
<1>3. /\ committed'.label = label' /\ committed'.aliases = aliases'
      /\ committed'.index = index'
  BY <1>1
<1>4. TypeOK'
  BY <1>1, <1>2, TypedTables DEF TypeOK
<1>5. Consistent' /\ Progress' /\ MergeOnItsWay'
  BY <1>1, <1>2, <1>3 DEF Consistent, Progress, MergeOnItsWay
<1>6. QED
  BY <1>4, <1>5 DEF IndexInv

-----------------------------------------------------------------------------
(* Single statements *)

\* Outside of a transaction everything is as it should be.
LEMMA AtRest ==
  ASSUME IndexInv, work = Idle
  PROVE  Typed(label, aliases, index) /\ Synced(label, aliases, index, {})
  BY TypedWriter DEF IndexInv, Consistent, Idle

LEMMA CreateStep ==
  ASSUME IndexInv, NEW v \in ValueIds, NEW name \in Names, CreateFieldValue(v, name)
  PROVE  IndexInv'
<1>1. Typed(label, aliases, index) /\ Synced(label, aliases, index, {})
  BY AtRest DEF CreateFieldValue
<1>2. v \notin DOMAIN label /\ v \notin DOMAIN index
  BY DEF CreateFieldValue, IsNextId
<1>3. /\ label' = [u \in DOMAIN label \cup {v} |-> IF u = v THEN name ELSE label[u]]
      /\ index' = [u \in DOMAIN index \cup {v} |->
                     IF u = v THEN [label |-> name, aliases |-> {}] ELSE index[u]]
      /\ aliases' = aliases /\ Commit
  BY DEF CreateFieldValue
<1>4. AliasesOf(v, aliases) = {}
  BY <1>1, <1>2 DEF Synced, AliasesOf
<1>5. Typed(label', aliases', index')
  <2>1. [label |-> name, aliases |-> {}] \in Text
    BY DEF Text
  <2>2. DOMAIN label' \subseteq ValueIds /\ label' \in [DOMAIN label' -> Names]
    BY <1>1, <1>3 DEF Typed
  <2>3. DOMAIN index' \subseteq ValueIds /\ index' \in [DOMAIN index' -> Text]
    BY <1>1, <1>3, <2>1 DEF Typed
  <2>4. QED
    BY <1>1, <1>3, <2>2, <2>3 DEF Typed
<1>6. Synced(label', aliases', index', {})
  <2>1. \A u \in DOMAIN label' : u \in DOMAIN index' /\ index'[u] = TextOf(u, label', aliases')
    BY <1>1, <1>2, <1>3, <1>4 DEF Synced, TextOf
  <2>2. QED
    BY <1>1, <1>3, <2>1 DEF Synced
<1>7. QED
  BY <1>3, <1>5, <1>6, CommitStep

LEMMA RenameStep ==
  ASSUME IndexInv, NEW v \in ValueIds, NEW name \in Names, RenameFieldValue(v, name)
  PROVE  IndexInv'
<1>1. Typed(label, aliases, index) /\ Synced(label, aliases, index, {})
  BY AtRest DEF RenameFieldValue
<1>2. /\ label' = [label EXCEPT ![v] = name] /\ v \in DOMAIN label
      /\ index' = Rebuild({v}, label', aliases) /\ aliases' = aliases /\ Commit
  BY DEF RenameFieldValue
<1>3. Typed(label', aliases, index)
  BY <1>1, <1>2 DEF Typed
<1>4. Typed(label', aliases', index')
  BY <1>2, <1>3, RebuildTyped
<1>5. \A u \in DOMAIN label' \ {v} : TextOf(u, label', aliases) = TextOf(u, label, aliases)
  BY <1>2 DEF TextOf
<1>6. Synced(label', aliases', index', {})
  <2>1. DOMAIN label' = DOMAIN label
    BY <1>2
  <2>2. \A u \in DOMAIN label' \ {v} :
          u \in DOMAIN index /\ index[u] = TextOf(u, label', aliases)
    BY <1>1, <1>5, <2>1 DEF Synced
  <2>3. DOMAIN index \subseteq DOMAIN label' \cup {} \cup {v}
    BY <1>1, <2>1 DEF Synced
  <2>4. \A a \in DOMAIN aliases : aliases[a].owner \in DOMAIN label' \cup {}
    BY <1>1, <2>1 DEF Synced
  <2>5. Synced(label', aliases, Rebuild({v}, label', aliases), {})
    BY <2>2, <2>3, <2>4, RebuildSyncs
  <2>6. QED
    BY <1>2, <2>5
<1>7. QED
  BY <1>2, <1>4, <1>6, CommitStep

\* One alias more.
LEMMA InsertedAlias ==
  ASSUME NEW v \in DOMAIN label, NEW name \in Names, NEW gone,
         Typed(label, aliases, index), Synced(label, aliases, index, gone),
         InsertAlias(v, name)
  PROVE  /\ Typed(label, aliases', index') /\ Synced(label, aliases', index', gone)
         /\ AliasesOf(v, aliases') = AliasesOf(v, aliases) \cup {name}
         /\ \A u : u # v => AliasesOf(u, aliases') = AliasesOf(u, aliases)
<1>1. PICK a \in AliasIds :
        /\ a \notin DOMAIN aliases
        /\ aliases' = [b \in DOMAIN aliases \cup {a} |->
                         IF b = a THEN [owner |-> v, text |-> name] ELSE aliases[b]]
        /\ index' = Rebuild({v}, label, aliases')
  BY DEF InsertAlias, IsNextId
<1>2. [owner |-> v, text |-> name] \in Alias
  BY DEF Alias, Typed
<1>3. Typed(label, aliases', index)
  BY <1>1, <1>2 DEF Typed
<1>4. Typed(label, aliases', index')
  BY <1>1, <1>3, RebuildTyped
<1>5. /\ DOMAIN aliases' = DOMAIN aliases \cup {a}
      /\ aliases'[a].owner = v /\ aliases'[a].text = name
      /\ \A b \in DOMAIN aliases : aliases'[b] = aliases[b]
  BY <1>1
<1>6. /\ AliasesOf(v, aliases') = AliasesOf(v, aliases) \cup {name}
      /\ \A u : u # v => AliasesOf(u, aliases') = AliasesOf(u, aliases)
  BY <1>1, <1>5 DEF AliasesOf
<1>7. Synced(label, aliases', index', gone)
  <2>1. \A u \in DOMAIN label \ {v} :
          u \in DOMAIN index /\ index[u] = TextOf(u, label, aliases')
    BY <1>6 DEF Synced, TextOf
  <2>2. \A b \in DOMAIN aliases' : aliases'[b].owner \in DOMAIN label \cup gone
    BY <1>5 DEF Synced
  <2>3. DOMAIN index \subseteq DOMAIN label \cup gone \cup {v}
    BY DEF Synced
  <2>4. QED
    BY <1>1, <2>1, <2>2, <2>3, RebuildSyncs
<1>8. QED
  BY <1>4, <1>6, <1>7

\* One alias less, whether its owner has a row or has just lost it.
LEMMA RemovedAlias ==
  ASSUME NEW a \in DOMAIN aliases, NEW gone,
         Typed(label, aliases, index), Synced(label, aliases, index, gone),
         RemoveAlias(a)
  PROVE  /\ Typed(label, aliases', index') /\ Synced(label, aliases', index', gone)
         /\ \A u : u # aliases[a].owner => AliasesOf(u, aliases') = AliasesOf(u, aliases)
         /\ \A u : AliasesOf(u, aliases') \subseteq AliasesOf(u, aliases)
<1> DEFINE v == aliases[a].owner
<1>1. /\ aliases' = [b \in DOMAIN aliases \ {a} |-> aliases[b]]
      /\ index' = Rebuild({v}, label, aliases')
  BY DEF RemoveAlias
<1>2. Typed(label, aliases', index)
  BY <1>1 DEF Typed
<1>3. Typed(label, aliases', index')
  BY <1>1, <1>2, RebuildTyped
<1>4. /\ DOMAIN aliases' = DOMAIN aliases \ {a}
      /\ \A b \in DOMAIN aliases' : aliases'[b] = aliases[b]
  BY <1>1
<1>5. /\ \A u : u # v => AliasesOf(u, aliases') = AliasesOf(u, aliases)
      /\ \A u : AliasesOf(u, aliases') \subseteq AliasesOf(u, aliases)
  BY <1>4 DEF AliasesOf
<1>6. Synced(label, aliases', index', gone)
  <2>1. \A u \in DOMAIN label \ {v} :
          u \in DOMAIN index /\ index[u] = TextOf(u, label, aliases')
    BY <1>5 DEF Synced, TextOf
  <2>2. \A b \in DOMAIN aliases' : aliases'[b].owner \in DOMAIN label \cup gone
    BY <1>4 DEF Synced
  <2>3. DOMAIN index \subseteq DOMAIN label \cup gone \cup {v}
    BY DEF Synced
  <2>4. QED
    BY <1>1, <2>1, <2>2, <2>3, RebuildSyncs
<1>7. QED
  BY <1>3, <1>5, <1>6

LEMMA AliasStep ==
  ASSUME IndexInv,
         \/ \E v \in ValueIds, name \in Names : AddAlias(v, name)
         \/ \E a \in AliasIds : DeleteAlias(a)
  PROVE  IndexInv'
<1>1. Typed(label, aliases, index) /\ Synced(label, aliases, index, {})
  BY AtRest DEF AddAlias, DeleteAlias
<1>2. label' = label /\ Commit
  BY DEF AddAlias, DeleteAlias
<1>3. Typed(label, aliases', index') /\ Synced(label, aliases', index', {})
  BY <1>1, InsertedAlias, RemovedAlias DEF AddAlias, DeleteAlias
<1>4. QED
  BY <1>2, <1>3, CommitStep

-----------------------------------------------------------------------------
(* Deletions *)

LEMMA BeginDeleteStep ==
  ASSUME IndexInv, NEW S \in SUBSET ValueIds, BeginDelete(S)
  PROVE  IndexInv'
<1>1. /\ work = Idle /\ S \subseteq DOMAIN label
      /\ work' = [Idle EXCEPT !.op = "delete", !.todo = S]
      /\ label' = label /\ aliases' = aliases /\ index' = index /\ committed' = committed
  BY DEF BeginDelete, tables
<1>2. /\ work' \in Work /\ work'.op = "delete" /\ work'.todo = S /\ work'.gone = {}
      /\ work.gone = {}
  BY <1>1 DEF Idle, Work
<1>3. TypeOK'
  BY <1>1, <1>2 DEF IndexInv, TypeOK
<1>4. Consistent' /\ Progress' /\ MergeOnItsWay'
  BY <1>1, <1>2 DEF IndexInv, Consistent, Progress, MergeOnItsWay
<1>5. QED
  BY <1>3, <1>4 DEF IndexInv

LEMMA DeleteRowStep ==
  ASSUME IndexInv, NEW v \in ValueIds, DeleteRow(v)
  PROVE  IndexInv'
<1>1. /\ Deleting /\ v \in work.todo /\ v \in DOMAIN label
      /\ label' = [u \in DOMAIN label \ {v} |-> label[u]]
      /\ work' = [work EXCEPT !.todo = @ \ {v}, !.gone = @ \cup {v}]
      /\ aliases' = aliases /\ index' = index /\ committed' = committed
  BY DEF DeleteRow, IndexInv, Progress
<1>2. work \in Work
  BY DEF IndexInv, TypeOK
<1>3. /\ work' \in Work /\ work'.op = work.op /\ work'.target = work.target
      /\ work'.todo = work.todo \ {v} /\ work'.gone = work.gone \cup {v}
  BY <1>1, <1>2 DEF Work
<1>4. /\ DOMAIN label' = DOMAIN label \ {v}
      /\ \A u \in DOMAIN label' : label'[u] = label[u]
  BY <1>1
<1>5. TypeOK'
  <2>1. Typed(label, aliases, index)
    BY TypedWriter DEF IndexInv
  <2>2. Typed(label', aliases', index')
    BY <1>1, <2>1 DEF Typed
  <2>3. QED
    BY <1>1, <1>3, <2>2, TypedTables DEF IndexInv, TypeOK
<1>6. Consistent'
  <2>1. Synced(label', aliases', index', work'.gone)
    BY <1>1, <1>3, <1>4 DEF IndexInv, Consistent, Synced, TextOf
  <2>2. work'.gone \cap DOMAIN label' = {}
    BY <1>3, <1>4 DEF IndexInv, Consistent
  <2>3. QED
    BY <1>1, <2>1, <2>2 DEF IndexInv, Consistent
<1>7. Progress'
  BY <1>1, <1>3, <1>4 DEF IndexInv, Progress, Deleting
<1>8. MergeOnItsWay'
  <2>1. SUFFICES ASSUME work.op = "dropValue"
                 PROVE  \E id \in ValueIds : Merging(id)'
    BY <1>1, <1>3 DEF Deleting, MergeOnItsWay
  <2>2. PICK id \in ValueIds : Merging(id)
    BY <2>1 DEF IndexInv, MergeOnItsWay
  <2>3. v = id /\ work.target # v /\ work.target \in DOMAIN label
    BY <1>1, <2>1, <2>2 DEF Merging
  <2>4. Merging(id)'
    BY <1>1, <1>3, <1>4, <2>1, <2>2, <2>3 DEF Merging
  <2>5. QED
    BY <2>4
<1>9. QED
  BY <1>5, <1>6, <1>7, <1>8 DEF IndexInv

LEMMA CascadeStep ==
  ASSUME IndexInv, NEW a \in AliasIds, CascadeAlias(a)
  PROVE  IndexInv'
<1>1. /\ a \in DOMAIN aliases /\ aliases[a].owner \in work.gone /\ RemoveAlias(a)
      /\ label' = label /\ work' = work /\ committed' = committed
  BY DEF CascadeAlias
<1>2. /\ Typed(label, aliases', index') /\ Synced(label, aliases', index', work.gone)
      /\ \A u : u # aliases[a].owner => AliasesOf(u, aliases') = AliasesOf(u, aliases)
      /\ \A u : AliasesOf(u, aliases') \subseteq AliasesOf(u, aliases)
  BY <1>1, TypedWriter, RemovedAlias DEF IndexInv, Consistent
<1>3. TypeOK'
  BY <1>1, <1>2, TypedTables DEF IndexInv, TypeOK
<1>4. Consistent'
  BY <1>1, <1>2 DEF IndexInv, Consistent
<1>5. work.op \notin {"none", "moveAliases", "addLabel"}
  BY <1>1 DEF IndexInv, Progress, Idle
<1>6. Progress'
  BY <1>1, <1>5 DEF IndexInv, Progress
<1>7. MergeOnItsWay'
  <2>1. SUFFICES ASSUME work.op = "dropValue"
                 PROVE  \E id \in ValueIds : Merging(id)'
    BY <1>1, <1>5 DEF MergeOnItsWay
  <2>2. PICK id \in ValueIds : Merging(id)
    BY <2>1 DEF IndexInv, MergeOnItsWay
  <2>3. work.target \in DOMAIN label
    BY <2>1, <2>2 DEF Merging
  <2>4. work.target # aliases[a].owner
    BY <1>1, <2>3 DEF IndexInv, Consistent
  <2>5. AliasesOf(work.target, aliases') = AliasesOf(work.target, aliases)
    BY <1>2, <2>4
  <2>6. AliasesOf(id, aliases') = {}
    BY <1>2, <2>1, <2>2 DEF Merging
  <2>7. Merging(id)'
    BY <1>1, <2>1, <2>2, <2>5, <2>6 DEF Merging
  <2>8. QED
    BY <2>7
<1>8. QED
  BY <1>3, <1>4, <1>6, <1>7 DEF IndexInv

LEMMA AfterDeleteStep ==
  ASSUME IndexInv, NEW v \in ValueIds, AfterDelete(v)
  PROVE  IndexInv'
<1>1. /\ v \in work.gone
      /\ \A a \in DOMAIN aliases : aliases[a].owner # v
      /\ index' = [u \in DOMAIN index \ {v} |-> index[u]]
      /\ work' = [work EXCEPT !.gone = @ \ {v}]
      /\ label' = label /\ aliases' = aliases /\ committed' = committed
  BY DEF AfterDelete
<1>2. work \in Work
  BY DEF IndexInv, TypeOK
<1>3. /\ work' \in Work /\ work'.op = work.op /\ work'.target = work.target
      /\ work'.todo = work.todo /\ work'.gone = work.gone \ {v}
  BY <1>1, <1>2 DEF Work
<1>4. /\ DOMAIN index' = DOMAIN index \ {v} /\ v \notin DOMAIN label
      /\ \A u \in DOMAIN index' : index'[u] = index[u]
  BY <1>1 DEF IndexInv, Consistent
<1>5. TypeOK'
  <2>1. Typed(label, aliases, index)
    BY TypedWriter DEF IndexInv
  <2>2. Typed(label', aliases', index')
    BY <1>1, <2>1 DEF Typed
  <2>3. QED
    BY <1>1, <1>3, <2>2, TypedTables DEF IndexInv, TypeOK
<1>6. Consistent'
  <2>1. \A u \in DOMAIN label' : u \in DOMAIN index' /\ index'[u] = TextOf(u, label', aliases')
    BY <1>1, <1>4 DEF IndexInv, Consistent, Synced
  <2>2. DOMAIN index' \subseteq DOMAIN label' \cup work'.gone
    BY <1>1, <1>3, <1>4 DEF IndexInv, Consistent, Synced
  <2>3. \A a \in DOMAIN aliases' : aliases'[a].owner \in DOMAIN label' \cup work'.gone
    BY <1>1, <1>3 DEF IndexInv, Consistent, Synced
  <2>4. work'.gone \cap DOMAIN label' = {}
    BY <1>1, <1>3 DEF IndexInv, Consistent
  <2>5. QED
    BY <1>1, <2>1, <2>2, <2>3, <2>4 DEF IndexInv, Consistent, Synced
<1>7. work.op \notin {"none", "moveAliases", "addLabel"}
  BY <1>1 DEF IndexInv, Progress, Idle
<1>8. Progress'
  BY <1>1, <1>3, <1>7 DEF IndexInv, Progress
<1>9. MergeOnItsWay'
  <2>1. SUFFICES ASSUME work.op = "dropValue"
                 PROVE  \E id \in ValueIds : Merging(id)'
    BY <1>3, <1>7 DEF MergeOnItsWay
  <2>2. PICK id \in ValueIds : Merging(id)
    BY <2>1 DEF IndexInv, MergeOnItsWay
  <2>3. Merging(id)'
    BY <1>1, <1>3, <2>2 DEF Merging
  <2>4. QED
    BY <2>3
<1>10. QED
  BY <1>5, <1>6, <1>8, <1>9 DEF IndexInv

LEMMA FinishDeleteStep ==
  ASSUME IndexInv, FinishDelete
  PROVE  IndexInv'
<1>1. /\ work.gone = {} /\ Commit
      /\ label' = label /\ aliases' = aliases /\ index' = index
  BY DEF FinishDelete, tables
<1>2. Typed(label, aliases, index) /\ Synced(label, aliases, index, {})
  BY <1>1, TypedWriter DEF IndexInv, Consistent
<1>3. QED
  BY <1>1, <1>2, CommitStep

-----------------------------------------------------------------------------
(* Merging *)

LEMMA BeginMergeStep ==
  ASSUME IndexInv, NEW id \in ValueIds, NEW target \in ValueIds, BeginMerge(id, target)
  PROVE  IndexInv'
<1>1. /\ work = Idle /\ id # target /\ {id, target} \subseteq DOMAIN label
      /\ work' = [Idle EXCEPT !.op = "moveAliases", !.todo = {id}, !.target = target]
      /\ label' = label /\ aliases' = aliases /\ index' = index /\ committed' = committed
  BY DEF BeginMerge, tables
<1>2. /\ work' \in Work /\ work'.op = "moveAliases" /\ work'.todo = {id} /\ work'.gone = {}
      /\ work'.target = target /\ work.gone = {} /\ work.op = "none"
  BY <1>1 DEF Idle, Work
<1>3. label = committed.label /\ aliases = committed.aliases
  BY <1>2 DEF IndexInv, Progress
<1>4. TypeOK'
  BY <1>1, <1>2 DEF IndexInv, TypeOK
<1>5. Consistent' /\ Progress'
  BY <1>1, <1>2 DEF IndexInv, Consistent, Progress
<1>6. Merging(id)'
  BY <1>1, <1>2, <1>3 DEF Merging
<1>7. QED
  BY <1>4, <1>5, <1>6 DEF IndexInv, MergeOnItsWay

LEMMA MoveAliasStep ==
  ASSUME IndexInv, NEW a \in AliasIds, MoveAlias(a)
  PROVE  IndexInv'
<1> DEFINE t == work.target
           v == aliases[a].owner
<1>1. /\ work.op = "moveAliases" /\ a \in DOMAIN aliases /\ v \in work.todo
      /\ aliases' = [aliases EXCEPT ![a].owner = t]
      /\ index' = Rebuild({v, t}, label, aliases')
      /\ label' = label /\ work' = work /\ committed' = committed
  BY DEF MoveAlias
<1>2. PICK id \in ValueIds : Merging(id)
  BY <1>1 DEF IndexInv, MergeOnItsWay
<1>3. /\ work.gone = {} /\ t \in DOMAIN label /\ v = id /\ id # t
      /\ AliasesOf(id, aliases) \cup AliasesOf(t, aliases)
           = AliasesOf(id, committed.aliases) \cup AliasesOf(t, committed.aliases)
  BY <1>1, <1>2 DEF IndexInv, Progress, Merging
<1>4. Typed(label, aliases, index) /\ Synced(label, aliases, index, {})
  BY <1>3, TypedWriter DEF IndexInv, Consistent
<1>5. /\ DOMAIN aliases' = DOMAIN aliases
      /\ aliases[a] \in Alias
      /\ aliases'[a] = [aliases[a] EXCEPT !.owner = t]
      /\ \A b \in DOMAIN aliases \ {a} : aliases'[b] = aliases[b]
  BY <1>1, <1>4 DEF Typed
<1>6. /\ aliases'[a] \in Alias /\ aliases'[a].owner = t
      /\ aliases'[a].text = aliases[a].text
  BY <1>3, <1>4, <1>5 DEF Alias, Typed
<1>7. /\ \A u : u \notin {v, t} => AliasesOf(u, aliases') = AliasesOf(u, aliases)
      /\ AliasesOf(v, aliases') \cup AliasesOf(t, aliases')
           = AliasesOf(v, aliases) \cup AliasesOf(t, aliases)
  <2>1. ASSUME NEW u, u \notin {v, t}
        PROVE  AliasesOf(u, aliases') = AliasesOf(u, aliases)
    <3>1. aliases'[a].owner # u /\ aliases[a].owner # u
      BY <1>6, <2>1
    <3>2. {b \in DOMAIN aliases' : aliases'[b].owner = u}
            = {b \in DOMAIN aliases : aliases[b].owner = u}
      BY <1>5, <3>1
    <3>3. \A b \in DOMAIN aliases : aliases[b].owner = u => aliases'[b] = aliases[b]
      BY <1>5, <3>1
    <3>4. QED
      BY <3>2, <3>3 DEF AliasesOf
  <2>2. ASSUME NEW n \in AliasesOf(v, aliases') \cup AliasesOf(t, aliases')
        PROVE  n \in AliasesOf(v, aliases) \cup AliasesOf(t, aliases)
    BY <1>5, <1>6, <2>2 DEF AliasesOf
  <2>3. ASSUME NEW n \in AliasesOf(v, aliases) \cup AliasesOf(t, aliases)
        PROVE  n \in AliasesOf(v, aliases') \cup AliasesOf(t, aliases')
    BY <1>5, <1>6, <2>3 DEF AliasesOf
  <2>4. QED
    BY <2>1, <2>2, <2>3
<1>8. Typed(label, aliases', index')
  <2>1. aliases' \in [DOMAIN aliases' -> Alias]
    BY <1>1, <1>4, <1>5, <1>6 DEF Typed
  <2>2. Typed(label, aliases', index)
    BY <1>4, <1>5, <2>1 DEF Typed
  <2>3. QED
    BY <1>1, <2>2, RebuildTyped
<1>9. Synced(label, aliases', index', {})
  <2>1. \A u \in DOMAIN label \ {v, t} :
          u \in DOMAIN index /\ index[u] = TextOf(u, label, aliases')
    BY <1>4, <1>7 DEF Synced, TextOf
  <2>2. DOMAIN index \subseteq DOMAIN label \cup {} \cup {v, t}
    BY <1>4 DEF Synced
  <2>3. \A b \in DOMAIN aliases' : aliases'[b].owner \in DOMAIN label \cup {}
    BY <1>3, <1>4, <1>5, <1>6 DEF Synced
  <2>4. QED
    BY <1>1, <2>1, <2>2, <2>3, RebuildSyncs
<1>10. TypeOK'
  BY <1>1, <1>8, TypedTables DEF IndexInv, TypeOK
<1>11. Consistent' /\ Progress'
  BY <1>1, <1>3, <1>9 DEF IndexInv, Consistent, Progress
<1>12. Merging(id)'
  BY <1>1, <1>2, <1>3, <1>7 DEF Merging
<1>13. QED
  BY <1>10, <1>11, <1>12 DEF IndexInv, MergeOnItsWay

LEMMA AliasesMovedStep ==
  ASSUME IndexInv, AliasesMoved
  PROVE  IndexInv'
<1>1. /\ work.op = "moveAliases" /\ work' = [work EXCEPT !.op = "addLabel"]
      /\ \A a \in DOMAIN aliases : aliases[a].owner \notin work.todo
      /\ label' = label /\ aliases' = aliases /\ index' = index /\ committed' = committed
  BY DEF AliasesMoved, tables
<1>2. /\ work' \in Work /\ work'.op = "addLabel" /\ work'.todo = work.todo
      /\ work'.gone = work.gone /\ work'.target = work.target
  BY <1>1 DEF IndexInv, TypeOK, Work
<1>3. PICK id \in ValueIds : Merging(id)
  BY <1>1 DEF IndexInv, MergeOnItsWay
<1>4. work.todo = {id} /\ AliasesOf(id, aliases) = {}
  BY <1>1, <1>3 DEF Merging, AliasesOf
<1>5. TypeOK'
  BY <1>1, <1>2 DEF IndexInv, TypeOK
<1>6. Consistent' /\ Progress'
  BY <1>1, <1>2 DEF IndexInv, Consistent, Progress
<1>7. Merging(id)'
  BY <1>1, <1>2, <1>3, <1>4 DEF Merging
<1>8. QED
  BY <1>5, <1>6, <1>7 DEF IndexInv, MergeOnItsWay

LEMMA AddLabelStep ==
  ASSUME IndexInv, AddLabel
  PROVE  IndexInv'
<1> DEFINE t == work.target
<1>1. PICK v \in work.todo : InsertAlias(t, label[v])
  BY DEF AddLabel
<1>2. /\ work.op = "addLabel" /\ work' = [work EXCEPT !.op = "dropValue"]
      /\ label' = label /\ committed' = committed
  BY DEF AddLabel
<1>3. /\ work' \in Work /\ work'.op = "dropValue" /\ work'.todo = work.todo
      /\ work'.gone = work.gone /\ work'.target = work.target
  BY <1>2 DEF IndexInv, TypeOK, Work
<1>4. PICK id \in ValueIds : Merging(id)
  BY <1>2 DEF IndexInv, MergeOnItsWay
<1>5. /\ id # t /\ {id, t} \subseteq DOMAIN label /\ label = committed.label
      /\ work.todo = {id} /\ v = id /\ work.gone = {} /\ AliasesOf(id, aliases) = {}
      /\ AliasesOf(t, aliases)
           = AliasesOf(id, committed.aliases) \cup AliasesOf(t, committed.aliases)
  BY <1>1, <1>2, <1>4 DEF Merging, IndexInv, Progress
<1>6. Typed(label, aliases, index) /\ Synced(label, aliases, index, {})
  BY <1>5, TypedWriter DEF IndexInv, Consistent
<1>7. label[id] \in Names
  BY <1>5, <1>6 DEF Typed
<1>8. /\ Typed(label, aliases', index') /\ Synced(label, aliases', index', {})
      /\ AliasesOf(t, aliases') = AliasesOf(t, aliases) \cup {label[id]}
      /\ \A u : u # t => AliasesOf(u, aliases') = AliasesOf(u, aliases)
  BY <1>1, <1>5, <1>6, <1>7, InsertedAlias
<1>9. TypeOK'
  BY <1>2, <1>3, <1>8, TypedTables DEF IndexInv, TypeOK
<1>10. Consistent' /\ Progress'
  BY <1>2, <1>3, <1>5, <1>8 DEF IndexInv, Consistent, Progress
<1>11. Merging(id)'
  BY <1>2, <1>3, <1>5, <1>8 DEF Merging
<1>12. QED
  BY <1>9, <1>10, <1>11 DEF IndexInv, MergeOnItsWay

-----------------------------------------------------------------------------
(* The invariant *)

LEMMA RollbackStep ==
  ASSUME IndexInv, Rollback
  PROVE  IndexInv'
<1>1. /\ label' = committed.label /\ aliases' = committed.aliases /\ index' = committed.index
      /\ work' = Idle /\ committed' = committed
  BY DEF Rollback
<1>2. Idle \in Work /\ Idle.op = "none" /\ Idle.todo = {} /\ Idle.gone = {}
  BY DEF Idle, Work
<1>3. TypeOK'
  BY <1>1, <1>2, TypedReaders, TypedTables DEF IndexInv, TypeOK
<1>4. Consistent' /\ Progress' /\ MergeOnItsWay'
  BY <1>1, <1>2 DEF IndexInv, Consistent, Progress, MergeOnItsWay
<1>5. QED
  BY <1>3, <1>4 DEF IndexInv

LEMMA InitIndex == Init => IndexInv
<1> SUFFICES ASSUME Init PROVE IndexInv
  OBVIOUS
<1>1. /\ label = Nothing /\ aliases = Nothing /\ index = Nothing /\ work = Idle
      /\ committed = [label |-> label, aliases |-> aliases, index |-> index]
  BY DEF Init
<1>2. DOMAIN Nothing = {} /\ \A rows : Nothing \in [DOMAIN Nothing -> rows]
  BY DEF Nothing
<1>3. Idle \in Work /\ Idle.op = "none" /\ Idle.todo = {} /\ Idle.gone = {}
  BY DEF Idle, Work
<1>4. Typed(label, aliases, index)
  BY <1>1, <1>2 DEF Typed
<1>5. TypeOK
  BY <1>1, <1>3, <1>4, TypedTables DEF TypeOK
<1>6. Consistent /\ Progress /\ MergeOnItsWay
  BY <1>1, <1>2, <1>3 DEF Consistent, Synced, Progress, MergeOnItsWay
<1>7. QED
  BY <1>5, <1>6 DEF IndexInv

LEMMA StutterStep ==
  ASSUME IndexInv, UNCHANGED vars
  PROVE  IndexInv'
<1>1. /\ label' = label /\ aliases' = aliases /\ index' = index /\ work' = work
      /\ committed' = committed
  BY DEF vars, tables
<1>2. TypeOK' /\ Consistent' /\ Progress'
  BY <1>1 DEF IndexInv, TypeOK, Consistent, Progress
<1>3. MergeOnItsWay'
  BY <1>1 DEF IndexInv, MergeOnItsWay, Merging
<1>4. QED
  BY <1>2, <1>3 DEF IndexInv

LEMMA NextIndex == IndexInv /\ [Next]_vars => IndexInv'
<1> SUFFICES ASSUME IndexInv, [Next]_vars PROVE IndexInv'
  OBVIOUS
<1>1. CASE Statement
  BY <1>1, CreateStep, RenameStep, AliasStep DEF Statement
<1>2. CASE Deletion
  BY <1>2, BeginDeleteStep, DeleteRowStep, CascadeStep, AfterDeleteStep, FinishDeleteStep
     DEF Deletion
<1>3. CASE Merge
  BY <1>3, BeginMergeStep, MoveAliasStep, AliasesMovedStep, AddLabelStep DEF Merge
<1>4. CASE Rollback
  BY <1>4, RollbackStep
<1>5. CASE UNCHANGED vars
  BY <1>5, StutterStep
<1>6. QED
  BY <1>1, <1>2, <1>3, <1>4, <1>5 DEF Next

LEMMA IndexInductive == Spec => []IndexInv
  BY InitIndex, NextIndex, PTL DEF Spec

-----------------------------------------------------------------------------
(* The theorems *)

\* The tables stay tables of rows with the ids and the columns they have, for
\* the writer and for readers.
THEOREM TypesKept == Spec => []TypeOK
<1>1. IndexInv => TypeOK
  BY DEF IndexInv
<1>2. QED
  BY <1>1, IndexInductive, PTL

\* What the triggers are for: what is committed of the index is the label and
\* the aliases of each value.
THEOREM IndexInStep == Spec => []IndexMirrorsTables
<1>1. IndexInv => IndexMirrorsTables
  BY DEF IndexInv, Consistent, Synced, IndexMirrorsTables
<1>2. QED
  BY <1>1, IndexInductive, PTL

\* The cascade of a deleted value takes all of its aliases.
THEOREM NoOrphanAlias == Spec => []AliasesHaveOwners
<1>1. IndexInv => AliasesHaveOwners
  BY DEF IndexInv, Consistent, Synced, AliasesHaveOwners
<1>2. QED
  BY <1>1, IndexInductive, PTL

\* The names of a merge are those of the two values it started from.
LEMMA MergedNames ==
  ASSUME IndexInv, Next,
         NEW id \in ValueIds, NEW target \in ValueIds,
         work.op = "dropValue", work.target = target,
         id \in DOMAIN committed.label \ DOMAIN committed'.label
  PROVE  NamesOf(target, committed') = NamesOf(target, committed) \cup NamesOf(id, committed)
<1>1. FinishDelete
  <2>1. committed' # committed
    OBVIOUS
  <2>2. work # Idle
    BY DEF Idle
  <2>3. CASE Statement
    BY <2>2, <2>3 DEF Statement, CreateFieldValue, RenameFieldValue, AddAlias, DeleteAlias
  <2>4. CASE Deletion
    BY <2>1, <2>4 DEF Deletion, BeginDelete, DeleteRow, CascadeAlias, AfterDelete
  <2>5. CASE Merge
    BY <2>1, <2>5 DEF Merge, BeginMerge, MoveAlias, AliasesMoved, AddLabel
  <2>6. CASE Rollback
    BY <2>1, <2>6 DEF Rollback
  <2>7. QED
    BY <2>3, <2>4, <2>5, <2>6 DEF Next
<1>2. /\ committed' = [label |-> label, aliases |-> aliases, index |-> index]
      /\ work.gone = {} /\ work.todo = {}
  BY <1>1 DEF FinishDelete, Commit, tables
<1>3. PICK v \in ValueIds : Merging(v)
  BY DEF IndexInv, MergeOnItsWay
<1>4. /\ v # target /\ {v, target} \subseteq DOMAIN committed.label
      /\ AliasesOf(target, aliases)
           = AliasesOf(v, committed.aliases) \cup AliasesOf(target, committed.aliases)
               \cup {committed.label[v]}
      /\ DOMAIN committed.label = DOMAIN label \cup {v}
      /\ label[target] = committed.label[target]
  BY <1>3 DEF Merging
<1>5. id = v /\ committed'.label = label /\ committed'.index = index
  BY <1>2, <1>4
<1>6. /\ target \in DOMAIN label
      /\ index[target] = TextOf(target, label, aliases)
      /\ \A u \in {id, target} :
           committed.index[u] = TextOf(u, committed.label, committed.aliases)
  BY <1>4, <1>5 DEF IndexInv, Consistent, Synced
<1>7. NamesOf(target, committed') = {label[target]} \cup AliasesOf(target, aliases)
  BY <1>5, <1>6 DEF NamesOf, TextOf
<1>8. \A u \in {id, target} :
        NamesOf(u, committed) = {committed.label[u]} \cup AliasesOf(u, committed.aliases)
  BY <1>6 DEF NamesOf, TextOf
<1>9. QED
  BY <1>4, <1>5, <1>7, <1>8

\* A merge loses no name that either value was found by and adds none.
THEOREM MergeLosesNoName == Spec => MergeKeepsNames
<1> DEFINE Kept ==
      \A id, target \in ValueIds :
        (/\ work.op = "dropValue" /\ work.target = target
         /\ id \in DOMAIN committed.label \ DOMAIN committed'.label) =>
          NamesOf(target, committed') = NamesOf(target, committed) \cup NamesOf(id, committed)
<1>1. IndexInv /\ [Next]_vars => [Kept]_vars
  BY MergedNames
<1>2. QED
  BY <1>1, IndexInductive, PTL DEF Spec, MergeKeepsNames

-----------------------------------------------------------------------------
(* ORDER BY f.id *)

\* The instance counts like the module itself.
LEMMA SameCardinality == \A S : Search!Cardinality(S) = Cardinality(S)
BY DEF Cardinality, Search!Cardinality, IsFiniteSet, Search!IsFiniteSet

Ascending(s, n) == \A i, j \in 1 .. n : i < j => s[i] < s[j]

\* Ids in their order: the place of each is the number of those up to it.
LEMMA OrderExists ==
  ASSUME NEW S \in SUBSET Nat, IsFiniteSet(S)
  PROVE  \E s \in [1 .. Cardinality(S) -> S] : Ascending(s, Cardinality(S))
<1> DEFINE n == Cardinality(S)
           UpTo(x) == {y \in S : y <= x}
           place == [x \in S |-> Cardinality(UpTo(x))]
<1>1. \A x \in S : x \in Nat
  OBVIOUS
<1>2. \A x \in S : IsFiniteSet(UpTo(x)) /\ Cardinality(UpTo(x)) \in Nat
  BY FS_Subset, FS_CardinalityType
<1>3. n \in Nat
  BY FS_CardinalityType
<1>4. ASSUME NEW x \in S, NEW y \in S, x < y
      PROVE  place[x] < place[y]
  <2>1. UpTo(x) \subseteq UpTo(y) \ {y} /\ y \in UpTo(y)
    <3>1. x \in Nat /\ y \in Nat
      BY <1>1
    <3>2. y <= y /\ \A z \in Nat : z <= x => z <= y /\ z # y
      BY <1>4, <3>1
    <3> QED BY <1>1, <3>2
  <2>2. IsFiniteSet(UpTo(y) \ {y}) /\ Cardinality(UpTo(y) \ {y}) = Cardinality(UpTo(y)) - 1
    BY <1>2, <2>1, FS_RemoveElement
  <2>3. Cardinality(UpTo(x)) <= Cardinality(UpTo(y) \ {y})
    BY <2>1, <2>2, FS_Subset
  <2> HIDE DEF UpTo
  <2> QED BY <1>2, <2>2, <2>3
<1>5. \A x \in S : place[x] \in 1 .. n
  <2> TAKE x \in S
  <2>1. UpTo(x) \in SUBSET S /\ x \in UpTo(x)
    BY <1>1
  <2>2. Cardinality(UpTo(x)) <= n
    BY <2>1, FS_Subset
  <2>3. Cardinality(UpTo(x)) # 0
    BY <1>2, <2>1, FS_EmptySet
  <2> HIDE DEF UpTo, n
  <2> QED BY <1>2, <1>3, <2>2, <2>3
<1> HIDE DEF n, UpTo, place
<1>6. place \in [S -> 1 .. n] /\ \A x, y \in S : place[x] = place[y] => x = y
  <2>1. place \in [S -> 1 .. n]
    BY <1>5 DEF place
  <2>2. ASSUME NEW x \in S, NEW y \in S, place[x] = place[y]
        PROVE  x = y
    <3>1. x < y \/ y < x \/ x = y
      BY <1>1
    <3>2. place[x] \in Nat /\ place[y] \in Nat
      BY <1>3, <1>5
    <3> QED BY <1>4, <2>2, <3>1, <3>2
  <2> QED BY <2>1, <2>2
<1>7. place \in Injection(S, 1 .. n)
  BY <1>6 DEF Injection, IsInjective
<1>8. IsFiniteSet(1 .. n) /\ Cardinality(1 .. n) = n
  BY <1>3, FS_Interval
<1>9. place \in Surjection(S, 1 .. n)
  BY <1>7, <1>8, FS_Injection DEF n
<1>10. \A i \in 1 .. n : \E x \in S : place[x] = i
  BY <1>9 DEF Surjection
<1> DEFINE s == [i \in 1 .. n |-> CHOOSE x \in S : place[x] = i]
<1>11. \A i \in 1 .. n : s[i] \in S /\ place[s[i]] = i
  BY <1>10
<1>12. s \in [1 .. n -> S]
  BY <1>11
<1> HIDE DEF s
<1>13. ASSUME NEW i \in 1 .. n, NEW j \in 1 .. n, i < j
       PROVE  s[i] < s[j]
  <2>1. /\ s[i] \in Nat /\ s[j] \in Nat /\ s[i] \in S /\ s[j] \in S
        /\ place[s[i]] = i /\ place[s[j]] = j
    BY <1>1, <1>11
  <2>2. i \in Nat /\ j \in Nat
    BY <1>3
  <2>3. CASE s[i] = s[j]
    BY <1>13, <2>1, <2>2, <2>3
  <2>4. CASE s[j] < s[i]
    BY <1>4, <1>13, <2>1, <2>2, <2>4
  <2> QED BY <2>1, <2>3, <2>4
<1>14. Ascending(s, n)
  BY <1>13 DEF Ascending
<1> QED BY <1>12, <1>14 DEF n

\* What the statement returns: every id once, in ascending order.
LEMMA SortedIs ==
  ASSUME NEW S \in SUBSET Nat, IsFiniteSet(S)
  PROVE  LET s == Search!Sorted(S)
             n == Cardinality(S)
         IN  /\ n \in Nat /\ s \in [1 .. n -> S] /\ Ascending(s, n)
             /\ \A x \in S : \E i \in 1 .. n : s[i] = x
<1> DEFINE s == Search!Sorted(S)
           n == Cardinality(S)
<1>1. s \in [1 .. n -> S] /\ Ascending(s, n)
  BY OrderExists, SameCardinality DEF Search!Sorted, Ascending
<1>2. n \in Nat
  BY FS_CardinalityType
<1> HIDE DEF s
<1>3. \A i, j \in 1 .. n : s[i] = s[j] => i = j
  <2> SUFFICES ASSUME NEW i \in 1 .. n, NEW j \in 1 .. n, s[i] = s[j]
               PROVE  i = j
    OBVIOUS
  <2> HIDE DEF n
  <2>1. i \in Nat /\ j \in Nat
    BY <1>2
  <2>2. s[i] \in S /\ s[j] \in S
    BY <1>1
  <2>3. s[i] \in Nat /\ s[j] \in Nat
    BY <2>2
  <2> QED BY <1>1, <2>1, <2>3 DEF Ascending
<1>4. s \in Injection(1 .. n, S)
  BY <1>1, <1>3 DEF Injection, IsInjective
<1>5. Cardinality(1 .. n) = n
  BY <1>2, FS_Interval
<1>6. s \in Surjection(1 .. n, S)
  BY <1>4, <1>5, FS_Injection
<1> QED BY <1>1, <1>2, <1>6 DEF Surjection, s


-----------------------------------------------------------------------------
(* Filters and the files that match them *)

\* What a filter asks for only changes with the parents, and if it is fuzzy.
LEMMA WantedStays ==
  ASSUME NEW filter, UNCHANGED parent \/ filter.strict
  PROVE  Search!Wanted(filter)' = Search!Wanted(filter)
<1>1. CASE UNCHANGED parent
  BY <1>1 DEF Search!Wanted, Search!Under, Search!Path
<1>2. CASE filter.strict
  BY <1>2 DEF Search!Wanted
<1> QED BY <1>1, <1>2

LEMMA MatchingStays ==
  ASSUME UNCHANGED <<parent, tags, query>>
  PROVE  Search!Matching(query)' = Search!Matching(query)
BY WantedStays DEF Search!Matching, Search!Carries

-----------------------------------------------------------------------------
(* The invariant *)

\* A value has moved under a search with a fuzzy filter: no file is asked about.
Disturbed == stable = {} /\ Search!Files \subseteq ever

Listed == {results[i] : i \in 1 .. Len(results)}

\* The results hold every stable file up to c; 0 stands for the end.
Covers(c) == \A f \in stable : c = 0 \/ f <= c => f \in Listed

PageInv ==
  /\ DOMAIN tags \subseteq Search!Files
  /\ filters \in Search!Queries \cup {<<>>}
  /\ query \in Seq(Search!Filters)
  /\ results \in Seq(Search!Files)
  /\ cursor \in Search!Files \cup {0, -1}
  /\ results # <<>> \/ request # Search!NoRequest => query # <<>>

HistoryInv ==
  /\ stable \subseteq Search!Matching(query)
  /\ query # <<>> => Search!Matching(query) \subseteq ever
  /\ Listed \subseteq ever

\* A request in flight: the filters that are expanded already, and those to come.
Request(r) ==
  /\ r.phase \in {"expand", "below"}
  /\ r.todo \in Seq(Search!Filters) /\ r.sets \in Seq(SUBSET (Values \cup Strict))
  /\ r.cursor \in Search!Files \cup {0} /\ r.append \in BOOLEAN
  /\ Len(r.sets) + Len(r.todo) = Len(query)
  /\ \A i \in 1 .. Len(r.todo) : r.todo[i] = query[Len(r.sets) + i]

\* The sets hold what the filters ask for, and so will the next one.
Expands(r) ==
  /\ Disturbed \/ \A i \in 1 .. Len(r.sets) : r.sets[i] = Search!Wanted(query[i])
  /\ r.phase = "below" =>
       /\ r.todo # <<>> /\ ~r.todo[1].strict
       /\ Disturbed \/ r.path = Search!Path(r.todo[1].value)

\* A page is appended after the cursor, or is the first of a new search.
Continues(r) == IF r.append THEN r.cursor = cursor ELSE r.cursor = 0 /\ results = <<>>

RequestInv ==
  request # Search!NoRequest => Request(request) /\ Expands(request) /\ Continues(request)

SearchInv == PageInv /\ HistoryInv /\ Covers(cursor) /\ RequestInv

LEMMA ListedIs == PageInv => Listed = Range(results)
BY DEF PageInv, Listed, Range

\* Places in a sequence, and in two of which the second follows the first.
LEMMA LenIs ==
  ASSUME NEW S, NEW s \in Seq(S)
  PROVE  /\ Len(s) \in Nat /\ DOMAIN s = 1 .. Len(s) /\ s \in [1 .. Len(s) -> S]
         /\ s # <<>> => 1 \in 1 .. Len(s) /\ 1 <= Len(s)
OBVIOUS

LEMMA PlaceIs ==
  ASSUME NEW m \in Nat, NEW n \in Nat, NEW k, m + n = k
  PROVE  /\ \A i \in 1 .. m : i \in 1 .. k
         /\ \A i \in 1 .. n : m + i \in 1 .. k
OBVIOUS

-----------------------------------------------------------------------------
(* Others *)

\* A step of others changes what matches, and the histories with it.
LEMMA WatchedKeeps ==
  ASSUME SearchInv, NEW d, Search!Watch(d), DOMAIN tags' \subseteq Search!Files,
         UNCHANGED <<request, filters, query, results, cursor>>,
         \/ d = Search!Files
         \/ d = {} /\ (UNCHANGED parent \/ \A i \in DOMAIN query : query[i].strict)
  PROVE  SearchInv'
<1>1. PageInv'
  BY DEF SearchInv, PageInv, Search!Files, Search!Filters, Search!Queries
<1>2. /\ stable' = (stable \cap Search!Matching(query)') \ d
      /\ ever' = ever \cup Search!Matching(query)' \cup d
  BY DEF Search!Watch
<1>3. HistoryInv' /\ Covers(cursor)'
  BY <1>2 DEF SearchInv, HistoryInv, Covers, Listed
<1>4. Disturbed => Disturbed'
  BY <1>2 DEF Disturbed, Search!Files
<1>5. CASE d = Search!Files
  <2>1. Search!Matching(query)' \subseteq DOMAIN tags'
    BY DEF Search!Matching
  <2>2. Disturbed'
    BY <1>2, <1>5, <2>1 DEF Disturbed, Search!Files
  <2> QED BY <1>1, <1>3, <2>2 DEF SearchInv, RequestInv, Request, Expands, Continues,
                                  Search!NoRequest, Search!Filters, Search!Files
<1>6. CASE d = {} /\ UNCHANGED parent
  <2>1. \A filter : Search!Wanted(filter)' = Search!Wanted(filter)
    BY <1>6, WantedStays
  <2>2. \A v : Search!Path(v)' = Search!Path(v)
    BY <1>6 DEF Search!Path
  <2>3. RequestInv'
    BY <1>4, <2>1, <2>2 DEF SearchInv, RequestInv, Request, Expands, Continues,
                            Search!NoRequest, Search!Filters, Search!Files
  <2> QED BY <1>1, <1>3, <2>3 DEF SearchInv
<1>7. CASE d = {} /\ \A i \in DOMAIN query : query[i].strict
  <2> SUFFICES ASSUME request # Search!NoRequest
               PROVE  RequestInv'
    BY <1>1, <1>3 DEF SearchInv, RequestInv, Search!NoRequest
  <2>1. Request(request) /\ Expands(request) /\ Continues(request)
    BY DEF SearchInv, RequestInv
  <2>2. /\ query \in Seq(Search!Filters) /\ DOMAIN query = 1 .. Len(query)
        /\ Len(request.sets) \in Nat /\ Len(request.todo) \in Nat
        /\ Len(request.sets) + Len(request.todo) = Len(query)
    BY <2>1, LenIs DEF SearchInv, PageInv, Request
  <2>3. ASSUME NEW i \in 1 .. Len(request.sets)
        PROVE  Search!Wanted(query[i])' = Search!Wanted(query[i])
    <3>1. i \in DOMAIN query
      BY <2>2, PlaceIs
    <3>2. query[i].strict /\ query'[i] = query[i]
      BY <1>7, <3>1
    <3> QED BY <3>2 DEF Search!Wanted
  <2>4. request.phase # "below"
    <3> SUFFICES ASSUME request.phase = "below" PROVE FALSE
      OBVIOUS
    <3>1. request.todo # <<>> /\ ~request.todo[1].strict
      BY <2>1 DEF Expands
    <3>2. 1 \in 1 .. Len(request.todo)
      BY <2>1, <3>1, LenIs DEF Request
    <3>3. Len(request.sets) + 1 \in DOMAIN query
      BY <2>2, <3>2, PlaceIs
    <3> QED BY <1>7, <2>1, <3>1, <3>2, <3>3 DEF Request
  <2>5. Expands(request)'
    BY <1>4, <2>1, <2>3, <2>4 DEF Expands
  <2>6. Request(request)' /\ Continues(request)'
    BY <2>1 DEF Request, Continues, Search!Files, Search!Filters
  <2> QED BY <2>5, <2>6 DEF RequestInv
<1> QED BY <1>5, <1>6, <1>7

-----------------------------------------------------------------------------
(* The page *)

LEMMA QueriesAreSeqs ==
  ASSUME NEW q \in Search!Queries
  PROVE  q \in Seq(Search!Filters) /\ q # <<>>
<1> DEFINE F == Search!Filters
<1>1. CASE q \in {<<f>> : f \in F}
  <2>1. PICK f \in F : q = <<f>>
    BY <1>1
  <2> HIDE DEF F
  <2>2. q \in Seq(F) /\ q # <<>>
    BY <2>1
  <2> QED BY <2>2 DEF F
<1>2. CASE q \in F \X F
  <2>1. PICK f \in F, g \in F : q = <<f, g>>
    BY <1>2
  <2> HIDE DEF F
  <2>2. q \in Seq(F) /\ q # <<>>
    BY <2>1
  <2> QED BY <2>2 DEF F
<1> QED BY <1>1, <1>2 DEF Search!Queries

\* A request that has just been sent has expanded nothing.
LEMMA SentKeeps ==
  ASSUME NEW q \in Seq(Search!Filters), query' = q,
         NEW from \in Search!Files \cup {0}, NEW append \in BOOLEAN,
         request' = [phase |-> "expand", todo |-> q, sets |-> <<>>, cursor |-> from,
                     append |-> append],
         Continues(request)'
  PROVE  RequestInv'
<1>1. Len(request'.sets) = 0 /\ request'.sets \in Seq(SUBSET (Values \cup Strict))
  OBVIOUS
<1>2. Len(q) \in Nat
  BY LenIs
<1>3. /\ Len(request'.sets) + Len(request'.todo) = Len(query')
      /\ \A i \in 1 .. Len(request'.todo) : request'.todo[i] = query'[Len(request'.sets) + i]
      /\ request'.todo \in Seq(Search!Filters)
  BY <1>1, <1>2
<1>4. Request(request)'
  BY <1>1, <1>3 DEF Request, Search!Filters, Search!Files
<1>5. Expands(request)'
  BY <1>1 DEF Expands
<1> QED BY <1>4, <1>5 DEF RequestInv

\* A new search starts with no results, and watches what matches then.
LEMMA SearchKeeps ==
  ASSUME SearchInv, Search!Search
  PROVE  SearchInv'
<1>. PICK q : q = filters
  OBVIOUS
<1>1. /\ query' = q /\ results' = <<>> /\ cursor' = -1 /\ UNCHANGED <<parent, tags, filters>>
      /\ stable' = Search!Matching(q) /\ ever' = Search!Matching(q)
      /\ request' = [phase |-> "expand", todo |-> q, sets |-> <<>>, cursor |-> 0, append |-> FALSE]
  BY DEF Search!Search, Search!Send, Search!Null
<1>2. q \in Seq(Search!Filters) /\ q # <<>>
  BY QueriesAreSeqs DEF Search!Search, SearchInv, PageInv
<1>3. PageInv'
  <2>1. /\ Search!Files' = Search!Files /\ Search!Filters' = Search!Filters
        /\ Search!Queries' = Search!Queries /\ Search!NoRequest' = Search!NoRequest
    BY DEF Search!Files, Search!Filters, Search!Queries, Search!NoRequest
  <2>2. results' \in Seq(Search!Files)
    BY <1>1
  <2> QED BY <1>1, <1>2, <2>1, <2>2 DEF SearchInv, PageInv
<1>4. Search!Matching(query)' = Search!Matching(q)
  <2>1. \A filter : Search!Wanted(filter)' = Search!Wanted(filter)
    BY <1>1, WantedStays
  <2> QED BY <1>1, <2>1 DEF Search!Matching, Search!Carries
<1>5. Listed' = {}
  BY <1>1 DEF Listed
<1>6. HistoryInv'
  BY <1>1, <1>4, <1>5 DEF HistoryInv
<1>7. Covers(cursor)'
  <2>1. stable' \subseteq Search!Files
    BY <1>1 DEF Search!Matching, SearchInv, PageInv
  <2>2. \A f \in Search!Files : ~(f <= -1)
    BY PagesAssumption DEF Search!Files
  <2> QED BY <1>1, <2>1, <2>2 DEF Covers
<1>8. RequestInv'
  <2>1. Continues(request)'
    BY <1>1 DEF Continues
  <2> QED BY <1>1, <1>2, <2>1, SentKeeps DEF Search!Files
<1> QED BY <1>3, <1>6, <1>7, <1>8 DEF SearchInv

\* A step that leaves the tables, the filters and the histories alone: what it must show.
LEMMA ServerStep ==
  ASSUME SearchInv, UNCHANGED <<parent, tags, filters, query, stable, ever>>,
         results' \in Seq(Search!Files), cursor' \in Search!Files \cup {0, -1},
         Listed' \subseteq ever, Covers(cursor)', RequestInv',
         results' # <<>> \/ request' # Search!NoRequest => query # <<>>
  PROVE  SearchInv'
<1>1. PageInv'
  BY DEF SearchInv, PageInv, Search!Files, Search!Filters, Search!Queries, Search!NoRequest
<1>2. Search!Matching(query)' = Search!Matching(query)
  BY MatchingStays
<1>3. HistoryInv'
  BY <1>2 DEF SearchInv, HistoryInv
<1> QED BY <1>1, <1>3 DEF SearchInv

\* The same of a step that leaves the results alone, too.
LEMMA QuietStep ==
  ASSUME SearchInv, UNCHANGED <<parent, tags, filters, query, stable, ever, results, cursor>>,
         RequestInv', request' # Search!NoRequest => query # <<>>
  PROVE  SearchInv'
<1>1. Listed' \subseteq ever /\ Covers(cursor)'
  BY DEF SearchInv, HistoryInv, Covers, Listed
<1> QED BY <1>1, ServerStep DEF SearchInv, PageInv

\* The next page is asked for with the cursor of the last one and the filters as they stand:
\* from here on they are the ones that are watched.
LEMMA LoadMoreKeeps ==
  ASSUME SearchInv, Search!LoadMore
  PROVE  SearchInv'
<1>. PICK q : q = filters
  OBVIOUS
<1>1. /\ query' = q /\ UNCHANGED <<parent, tags, filters, results, cursor>>
      /\ q # <<>> /\ results # <<>> /\ cursor # -1
      /\ stable' = stable \cap Search!Matching(q) /\ ever' = ever \cup Search!Matching(q)
      /\ request' = [phase |-> "expand", todo |-> q, sets |-> <<>>, cursor |-> cursor,
                     append |-> TRUE]
  BY DEF Search!LoadMore, Search!Send, Search!Null
<1>2. q \in Seq(Search!Filters) /\ cursor \in Search!Files \cup {0}
  BY <1>1, QueriesAreSeqs DEF SearchInv, PageInv
<1>3. PageInv'
  BY <1>1, <1>2 DEF SearchInv, PageInv, Search!Files, Search!Filters, Search!Queries
<1>4. Search!Matching(query)' = Search!Matching(q)
  <2>1. \A filter : Search!Wanted(filter)' = Search!Wanted(filter)
    BY <1>1, WantedStays
  <2> QED BY <1>1, <2>1 DEF Search!Matching, Search!Carries
<1>5. Listed' = Listed
  BY <1>1 DEF Listed
<1>6. HistoryInv' /\ Covers(cursor)'
  BY <1>1, <1>4, <1>5 DEF SearchInv, HistoryInv, Covers
<1>7. Continues(request)'
  BY <1>1 DEF Continues
<1>8. RequestInv'
  BY <1>1, <1>2, <1>7, SentKeeps
<1> QED BY <1>3, <1>6, <1>8 DEF SearchInv

\* What is known of a request stays so while tables, filters and results do.
LEMMA RequestStays ==
  ASSUME NEW r, Request(r), Expands(r), Continues(r),
         UNCHANGED <<parent, query, stable, ever, results, cursor>>
  PROVE  Request(r)' /\ Expands(r)' /\ Continues(r)'
<1>1. \A filter : Search!Wanted(filter)' = Search!Wanted(filter)
  BY WantedStays
<1>2. \A v : Search!Path(v)' = Search!Path(v)
  BY DEF Search!Path
<1>3. Request(r)'
  BY DEF Request, Search!Filters, Search!Files
<1>4. Expands(r)'
  BY <1>1, <1>2 DEF Expands, Disturbed, Search!Files
<1> QED BY <1>3, <1>4 DEF Continues

\* To edit the filters changes nothing that has been asked for.
LEMMA EditKeeps ==
  ASSUME SearchInv, NEW q \in Search!Queries \cup {<<>>}, Search!EditFilters(q)
  PROVE  SearchInv'
<1>1. filters' = q /\ UNCHANGED <<parent, tags, request, query, results, cursor, stable, ever>>
  BY DEF Search!EditFilters
<1>2. PageInv'
  BY <1>1 DEF SearchInv, PageInv, Search!Files, Search!Filters, Search!Queries, Search!NoRequest
<1>3. Search!Matching(query)' = Search!Matching(query)
  BY <1>1, MatchingStays
<1>4. HistoryInv' /\ Covers(cursor)'
  BY <1>1, <1>3 DEF SearchInv, HistoryInv, Covers, Listed
<1>5. RequestInv'
  <2> SUFFICES ASSUME request # Search!NoRequest PROVE RequestInv'
    BY <1>1 DEF RequestInv, Search!NoRequest
  <2>1. Request(request) /\ Expands(request) /\ Continues(request)
    BY DEF SearchInv, RequestInv
  <2>2. PICK r : r = request
    OBVIOUS
  <2>3. Request(r)' /\ Expands(r)' /\ Continues(r)'
    BY <1>1, <2>1, <2>2, RequestStays
  <2>4. request' = r
    BY <1>1, <2>2
  <2> QED BY <2>3, <2>4 DEF RequestInv, Request, Expands, Continues
<1> QED BY <1>2, <1>4, <1>5 DEF SearchInv

LEMMA ServerErrorKeeps ==
  ASSUME SearchInv, Search!ServerError
  PROVE  SearchInv'
<1>1. UNCHANGED <<parent, tags, filters, query, stable, ever, results, cursor>>
      /\ request' = Search!NoRequest
  BY DEF Search!ServerError, Search!page
<1> QED BY <1>1, QuietStep DEF RequestInv, Search!NoRequest

-----------------------------------------------------------------------------
(* The server *)

LEMMA TailIs ==
  ASSUME NEW S, NEW s \in Seq(S), s # <<>>
  PROVE  /\ Tail(s) \in Seq(S) /\ Len(Tail(s)) = Len(s) - 1 /\ Len(s) \in Nat /\ Len(s) >= 1
         /\ \A i \in 1 .. Len(s) - 1 : Tail(s)[i] = s[i + 1]
OBVIOUS

LEMMA AppendIs ==
  ASSUME NEW S, NEW s \in Seq(S), NEW x \in S
  PROVE  /\ Append(s, x) \in Seq(S) /\ Len(Append(s, x)) = Len(s) + 1 /\ Len(s) \in Nat
         /\ \A i \in 1 .. Len(s) : Append(s, x)[i] = s[i]
         /\ Append(s, x)[Len(s) + 1] = x
OBVIOUS

\* The set of the next filter joins the others.
LEMMA ExpandedKeeps ==
  ASSUME SearchInv, request # Search!NoRequest, request.todo # <<>>, NEW ids \in SUBSET (Values \cup Strict),
         Disturbed \/ ids = Search!Wanted(request.todo[1]), Search!Expanded(ids),
         UNCHANGED <<parent, tags, filters, query, stable, ever, results, cursor>>
  PROVE  SearchInv'
<1>1. Request(request) /\ Expands(request) /\ Continues(request) /\ query # <<>>
  BY DEF SearchInv, RequestInv, PageInv
<1>2. PICK todo, sets, m, n :
        /\ todo = request.todo /\ sets = request.sets /\ m = Len(sets) /\ n = Len(todo)
  OBVIOUS
<1>3. PICK r : r = [phase |-> "expand", todo |-> Tail(todo), sets |-> Append(sets, ids),
                    cursor |-> request.cursor, append |-> request.append]
  OBVIOUS
<1>4. request' = r
  BY <1>2, <1>3 DEF Search!Expanded
<1>5. /\ todo \in Seq(Search!Filters) /\ sets \in Seq(SUBSET (Values \cup Strict)) /\ todo # <<>>
      /\ m + n = Len(query) /\ \A i \in 1 .. n : todo[i] = query[m + i]
  BY <1>1, <1>2 DEF Request
<1>6. /\ Tail(todo) \in Seq(Search!Filters) /\ Len(Tail(todo)) = n - 1 /\ n \in Nat /\ n >= 1
      /\ \A i \in 1 .. n - 1 : Tail(todo)[i] = todo[i + 1]
  BY <1>2, <1>5, TailIs
<1>7. /\ Append(sets, ids) \in Seq(SUBSET (Values \cup Strict)) /\ Len(Append(sets, ids)) = m + 1
      /\ m \in Nat /\ \A i \in 1 .. m : Append(sets, ids)[i] = sets[i]
      /\ Append(sets, ids)[m + 1] = ids
  BY <1>2, <1>5, AppendIs
<1>8. /\ Len(r.sets) + Len(r.todo) = Len(query)
      /\ \A i \in 1 .. Len(r.todo) : r.todo[i] = query[Len(r.sets) + i]
  <2>1. (m + 1) + (n - 1) = m + n
    BY <1>6, <1>7
  <2>2. \A i \in 1 .. n - 1 : i + 1 \in 1 .. n /\ m + (i + 1) = (m + 1) + i
    BY <1>6, <1>7
  <2>3. \A i \in 1 .. n - 1 : Tail(todo)[i] = query[(m + 1) + i]
    BY <1>5, <1>6, <2>2
  <2>4. /\ r.sets = Append(sets, ids) /\ r.todo = Tail(todo)
        /\ Len(r.sets) = m + 1 /\ Len(r.todo) = n - 1
    BY <1>3, <1>6, <1>7
  <2> QED BY <1>5, <2>1, <2>3, <2>4
<1>9. Request(r)
  BY <1>1, <1>3, <1>6, <1>7, <1>8 DEF Request
<1>10. Disturbed \/ \A i \in 1 .. Len(r.sets) : r.sets[i] = Search!Wanted(query[i])
  <2> SUFFICES ASSUME ~Disturbed, NEW i \in 1 .. m + 1
               PROVE  Append(sets, ids)[i] = Search!Wanted(query[i])
    BY <1>3, <1>7
  <2>1. CASE i \in 1 .. m
    BY <1>1, <1>2, <1>7, <2>1 DEF Expands
  <2>2. CASE i = m + 1
    <3>1. 1 \in 1 .. n
      BY <1>6
    <3>2. todo[1] = query[m + 1]
      BY <1>5, <3>1
    <3> QED BY <1>2, <1>7, <2>2, <3>2
  <2> QED BY <1>7, <2>1, <2>2
<1>11. Expands(r)
  BY <1>3, <1>10 DEF Expands
<1>12. Continues(r)
  BY <1>1, <1>3 DEF Continues
<1>13. Request(r)' /\ Expands(r)' /\ Continues(r)'
  BY <1>9, <1>11, <1>12, RequestStays
<1>14. RequestInv'
  BY <1>4, <1>13 DEF RequestInv
<1> QED BY <1>1, <1>14, QuietStep

\* A strict filter is its value; of a fuzzy one the path is read.
LEMMA ReadPathKeeps ==
  ASSUME SearchInv, Search!ReadPath
  PROVE  SearchInv'
<1>1. /\ request # Search!NoRequest /\ request.todo # <<>>
      /\ UNCHANGED <<parent, tags, filters, query, stable, ever, results, cursor>>
  BY DEF Search!ReadPath, Search!page, Search!NoRequest
<1>2. Request(request) /\ Expands(request) /\ Continues(request) /\ query # <<>>
  BY <1>1 DEF SearchInv, RequestInv, PageInv
<1>3. request.todo[1] \in Search!Filters /\ Head(request.todo) = request.todo[1]
  BY <1>1, <1>2, LenIs DEF Request
<1>4. CASE request.todo[1].strict
  <2>1. Search!Expanded({request.todo[1].value})
    BY <1>3, <1>4 DEF Search!ReadPath
  <2>2. {request.todo[1].value} = Search!Wanted(request.todo[1])
    BY <1>4 DEF Search!Wanted
  <2>3. request.todo[1].value \in Strict
    BY <1>3, <1>4 DEF Search!Filters
  <2>4. {request.todo[1].value} \in SUBSET (Values \cup Strict)
    BY <2>3
  <2> QED BY <1>1, <2>1, <2>2, <2>4, ExpandedKeeps
<1>5. CASE ~request.todo[1].strict
  <2>1. PICK r : r = [phase |-> "below", todo |-> request.todo, sets |-> request.sets,
                      cursor |-> request.cursor, append |-> request.append,
                      path |-> Search!Path(request.todo[1].value)]
    OBVIOUS
  <2>2. request' = r
    BY <1>3, <1>5, <2>1 DEF Search!ReadPath
  <2>3. Request(r)
    BY <1>2, <2>1 DEF Request
  <2>4. Expands(r)
    BY <1>1, <1>2, <1>5, <2>1 DEF Expands
  <2>5. Continues(r)
    BY <1>2, <2>1 DEF Continues
  <2>6. RequestInv'
    BY <1>1, <2>2, <2>3, <2>4, <2>5, RequestStays DEF RequestInv
  <2> QED BY <1>1, <1>2, <2>6, QuietStep
<1> QED BY <1>4, <1>5

\* An answer adds its hits.
LEMMA AnswerLists ==
  ASSUME SearchInv, request # Search!NoRequest, NEW S, S \subseteq Search!Files,
         NEW hits \in Seq(S), NEW next, Search!Answer(hits, next)
  PROVE  /\ results' \in Seq(Search!Files)
         /\ Listed' \subseteq Listed \cup S
         /\ request.append => Listed \subseteq Listed'
         /\ \A i \in 1 .. Len(hits) : hits[i] \in Listed'
         /\ cursor' = next /\ request' = Search!NoRequest
<1>1. Request(request) /\ Continues(request)
  BY DEF SearchInv, RequestInv
<1>2. results \in Seq(Search!Files) /\ hits \in Seq(Search!Files)
  BY DEF SearchInv, PageInv
<1>3. /\ Len(results) \in Nat /\ Len(hits) \in Nat
      /\ \A i \in 1 .. Len(hits) : hits[i] \in S
  BY <1>2, LenIs
<1>4. CASE request.append
  <2>1. results' = results \o hits
    BY <1>4 DEF Search!Answer
  <2>2. PICK m, n : m = Len(results) /\ n = Len(hits)
    OBVIOUS
  <2>3. /\ results' \in Seq(Search!Files) /\ Len(results') = m + n
        /\ \A i \in 1 .. m + n : results'[i] = IF i <= m THEN results[i] ELSE hits[i - m]
    BY <1>2, <2>1, <2>2
  <2>4. m \in Nat /\ n \in Nat
    BY <1>3, <2>2
  <2>5. \A i \in 1 .. n : m + i \in 1 .. m + n /\ ~(m + i <= m) /\ (m + i) - m = i
    BY <2>4
  <2>6. \A i \in 1 .. n : hits[i] \in Listed'
    BY <2>3, <2>5 DEF Listed
  <2>7. \A i \in 1 .. m : i \in 1 .. m + n /\ i <= m
    BY <2>4
  <2>8. Listed \subseteq Listed'
    BY <2>2, <2>3, <2>7 DEF Listed
  <2>9. \A i \in 1 .. m + n : (i <= m => i \in 1 .. m) /\ (~(i <= m) => i - m \in 1 .. n)
    BY <2>4
  <2>10. Listed' \subseteq Listed \cup S
    BY <1>3, <2>2, <2>3, <2>9 DEF Listed
  <2> QED BY <2>2, <2>3, <2>6, <2>8, <2>10 DEF Search!Answer
<1>5. CASE ~request.append
  BY <1>2, <1>3, <1>5 DEF Search!Answer, Listed
<1> QED BY <1>1, <1>4, <1>5 DEF Request

\* With no value left under the path the answer is empty, and no file can be stable.
LEMMA ReadBelowKeeps ==
  ASSUME SearchInv, Search!ReadBelow
  PROVE  SearchInv'
<1>1. /\ request # Search!NoRequest /\ request.phase = "below"
      /\ UNCHANGED <<parent, tags, filters, query, stable, ever>>
  BY DEF Search!ReadBelow, Search!NoRequest
<1>2. Request(request) /\ Expands(request) /\ Continues(request) /\ query # <<>>
  BY <1>1 DEF SearchInv, RequestInv, PageInv
<1>3. /\ request.todo # <<>> /\ ~request.todo[1].strict
      /\ Disturbed \/ request.path = Search!Path(request.todo[1].value)
  BY <1>1, <1>2 DEF Expands
<1>4. Disturbed \/ Search!Under(request.path) = Search!Wanted(request.todo[1])
  BY <1>3 DEF Search!Wanted
<1>5. CASE Search!Under(request.path) = {}
  <2>1. Search!Answer(<<>>, 0)
    BY <1>5 DEF Search!ReadBelow
  <2>2. stable = {}
    <3> SUFFICES ASSUME ~Disturbed, NEW f \in stable PROVE FALSE
      BY DEF Disturbed
    <3>1. f \in Search!Matching(query)
      BY DEF SearchInv, HistoryInv
    <3>2. PICK k : k = Len(request.sets) + 1
      OBVIOUS
    <3>3. k \in DOMAIN query /\ request.todo[1] = query[k]
      <4>1. /\ Len(request.sets) \in Nat /\ Len(request.todo) \in Nat /\ 1 \in 1 .. Len(request.todo)
            /\ DOMAIN query = 1 .. Len(query)
            /\ Len(request.sets) + Len(request.todo) = Len(query)
        BY <1>2, <1>3, LenIs DEF Request, SearchInv, PageInv
      <4>2. k \in DOMAIN query
        BY <3>2, <4>1, PlaceIs
      <4>3. request.todo[1] = query[k]
        BY <1>2, <3>2, <4>1 DEF Request
      <4> QED BY <4>2, <4>3
    <3>4. Search!Carries(f, Search!Wanted(query[k]))
      BY <3>1, <3>3 DEF Search!Matching
    <3> QED BY <1>4, <1>5, <3>3, <3>4 DEF Search!Carries
  <2>3. /\ results' \in Seq(Search!Files) /\ Listed' \subseteq Listed \cup {}
        /\ cursor' = 0 /\ request' = Search!NoRequest
    <3>1. <<>> \in Seq({})
      OBVIOUS
    <3> QED BY <1>1, <2>1, <3>1, AnswerLists
  <2>4. Listed' \subseteq ever
    BY <2>3 DEF SearchInv, HistoryInv
  <2>5. Covers(cursor)' /\ RequestInv'
    BY <1>1, <2>2, <2>3 DEF Covers, RequestInv, Search!NoRequest
  <2> QED BY <1>1, <1>2, <2>3, <2>4, <2>5, ServerStep
<1>6. CASE Search!Under(request.path) # {}
  <2>1. Search!Expanded(Search!Under(request.path)) /\ UNCHANGED <<results, cursor>>
    BY <1>6 DEF Search!ReadBelow
  <2>2. Search!Under(request.path) \in SUBSET (Values \cup Strict)
    BY DEF Search!Under
  <2> QED BY <1>1, <1>3, <1>4, <2>1, <2>2, ExpandedKeeps
<1> QED BY <1>5, <1>6

\* The files the statement finds have matched, unless the search is disturbed.
LEMMA RowsHaveMatched ==
  ASSUME SearchInv, request # Search!NoRequest, request.phase = "expand", request.todo = <<>>
  PROVE  /\ Search!Rows \subseteq Search!Files /\ Search!Rows \subseteq ever
         /\ \A f \in stable : f > request.cursor => f \in Search!Rows
<1>1. Request(request) /\ Expands(request) /\ query # <<>>
  BY DEF SearchInv, RequestInv, PageInv
<1>2. Search!Rows \subseteq Search!Files
  BY DEF Search!Rows, SearchInv, PageInv
<1>3. CASE Disturbed
  BY <1>2, <1>3 DEF Disturbed
<1>4. CASE ~Disturbed
  <2>1. /\ DOMAIN query = 1 .. Len(query) /\ DOMAIN request.sets = 1 .. Len(request.sets)
        /\ Len(request.sets) \in Nat /\ Len(query) \in Nat
    BY <1>1, LenIs DEF Request, SearchInv, PageInv
  <2>2. Len(request.sets) = Len(query)
    <3>1. Len(request.todo) = 0
      OBVIOUS
    <3>2. Len(request.sets) + Len(request.todo) = Len(query)
      BY <1>1 DEF Request
    <3> QED BY <2>1, <3>1, <3>2
  <2>3. \A i \in DOMAIN query : request.sets[i] = Search!Wanted(query[i])
    BY <1>1, <1>4, <2>1, <2>2 DEF Expands
  <2>4. Search!Rows = {f \in Search!Matching(query) : f > request.cursor}
    BY <2>1, <2>2, <2>3 DEF Search!Rows, Search!Matching
  <2> QED BY <1>1, <1>2, <2>4 DEF SearchInv, HistoryInv
<1> QED BY <1>3, <1>4

\* One statement reads the page; what it leaves is after the new cursor.
LEMMA QueryKeeps ==
  ASSUME SearchInv, Search!Query
  PROVE  SearchInv'
<1>1. /\ request # Search!NoRequest /\ request.phase = "expand" /\ request.todo = <<>>
      /\ UNCHANGED <<parent, tags, filters, query, stable, ever>>
  BY DEF Search!Query, Search!NoRequest
<1>2. Request(request) /\ Continues(request) /\ query # <<>>
  BY <1>1 DEF SearchInv, RequestInv, PageInv
<1>3. PICK S, rows, n : S = Search!Rows /\ rows = Search!Sorted(S) /\ n = Cardinality(S)
  OBVIOUS
<1>4. /\ S \subseteq Search!Files /\ S \subseteq ever
      /\ \A f \in stable : f > request.cursor => f \in S
  BY <1>1, <1>3, RowsHaveMatched
<1>5. S \in SUBSET Nat /\ IsFiniteSet(S)
  <2>1. IsFiniteSet(Search!Files) /\ Search!Files \subseteq Nat
    BY PagesAssumption, FS_Interval DEF Search!Files
  <2> QED BY <1>4, <2>1, FS_Subset
<1>6. /\ n \in Nat /\ rows \in [1 .. n -> S] /\ Ascending(rows, n)
      /\ \A x \in S : \E i \in 1 .. n : rows[i] = x
  BY <1>3, <1>5, SortedIs
<1>7. rows \in Seq(S) /\ Len(rows) = n
  BY <1>6
\* Which stable files an answer covers.
<1>8. ASSUME NEW hits \in Seq(S), NEW next \in Search!Files \cup {0}, Search!Answer(hits, next),
             \A i \in 1 .. n : next = 0 \/ rows[i] <= next =>
               \E j \in 1 .. Len(hits) : hits[j] = rows[i]
      PROVE  SearchInv'
  <2>1. /\ results' \in Seq(Search!Files) /\ Listed' \subseteq Listed \cup S
        /\ request.append => Listed \subseteq Listed'
        /\ \A i \in 1 .. Len(hits) : hits[i] \in Listed'
        /\ cursor' = next /\ request' = Search!NoRequest
    BY <1>1, <1>4, <1>8, AnswerLists
  <2>2. ASSUME NEW f \in stable, next = 0 \/ f <= next
        PROVE  f \in Listed'
    <3>1. f \in Nat /\ f >= 1
      <4>1. f \in Search!Files
        BY DEF SearchInv, HistoryInv, PageInv, Search!Matching
      <4> QED BY <4>1, PagesAssumption DEF Search!Files
    <3>2. CASE f > request.cursor
      <4>1. f \in S
        BY <1>4, <3>2
      <4>2. PICK i \in 1 .. n : rows[i] = f
        BY <1>6, <4>1
      <4> QED BY <1>8, <2>1, <2>2, <4>2
    <3>3. CASE ~(f > request.cursor)
      <4>1. request.cursor \in Nat
        BY <1>2, PagesAssumption DEF Request, Search!Files
      <4>2. request.cursor # 0 /\ f <= request.cursor
        BY <3>1, <3>3, <4>1
      <4>3. request.append /\ f <= cursor
        BY <1>2, <4>2 DEF Continues
      <4> QED BY <2>1, <4>3 DEF SearchInv, Covers
    <3> QED BY <3>2, <3>3
  <2>3. Covers(cursor)'
    BY <1>1, <2>1, <2>2 DEF Covers
  <2>4. Listed' \subseteq ever
    BY <1>4, <2>1 DEF SearchInv, HistoryInv
  <2>5. RequestInv'
    BY <2>1 DEF RequestInv, Search!NoRequest
  <2> QED BY <1>1, <1>2, <1>8, <2>1, <2>3, <2>4, <2>5, ServerStep
<1>9. Limit \in Nat /\ Limit >= 1
  BY PagesAssumption
<1>10. CASE n > Limit
  <2>1. PICK hits, next : hits = SubSeq(rows, 1, Limit) /\ next = rows[Limit]
    OBVIOUS
  <2>2. Search!Answer(hits, next)
    BY <1>1, <1>3, <1>7, <1>10, <2>1 DEF Search!Query, Search!NextCursor
  <2>3. Limit \in 1 .. n
    BY <1>6, <1>9, <1>10
  <2>4. next \in S
    BY <1>6, <2>1, <2>3
  <2>5. /\ hits \in Seq(S) /\ Len(hits) = Limit
        /\ \A i \in 1 .. Limit : hits[i] = rows[i]
    BY <1>7, <1>9, <1>10, <2>1, <2>3
  <2>6. ASSUME NEW i \in 1 .. n, next = 0 \/ rows[i] <= next
        PROVE  i \in 1 .. Limit
    <3>1. next \in Nat /\ next # 0 /\ rows[i] \in Nat
      <4>1. \A x \in Search!Files : x \in Nat /\ x # 0
        BY PagesAssumption DEF Search!Files
      <4>2. rows[i] \in S
        BY <1>6
      <4> QED BY <1>4, <2>4, <4>1, <4>2
    <3>2. rows[i] <= rows[Limit]
      BY <2>1, <2>6, <3>1
    <3>3. i \in Nat /\ i >= 1
      BY <1>6
    <3>4. ~(Limit < i)
      BY <1>6, <2>1, <2>3, <3>1, <3>2 DEF Ascending
    <3> QED BY <1>9, <3>3, <3>4
  <2>7. next \in Search!Files \cup {0}
    BY <1>4, <2>4
  <2>8. \A i \in 1 .. n : next = 0 \/ rows[i] <= next =>
          \E j \in 1 .. Len(hits) : hits[j] = rows[i]
    BY <2>5, <2>6
  <2> QED BY <1>8, <2>2, <2>5, <2>7, <2>8
<1>11. CASE ~(n > Limit)
  <2>1. Search!Answer(rows, 0)
    BY <1>1, <1>3, <1>7, <1>11 DEF Search!Query
  <2>2. \A i \in 1 .. n : \E j \in 1 .. Len(rows) : rows[j] = rows[i]
    BY <1>7
  <2> QED BY <1>7, <1>8, <2>1, <2>2
<1> QED BY <1>10, <1>11

-----------------------------------------------------------------------------
(* All steps *)

LEMMA InitSearch == Search!Init => SearchInv
<1> SUFFICES ASSUME Search!Init PROVE SearchInv
  OBVIOUS
<1>1. /\ DOMAIN tags \subseteq Search!Files /\ filters = <<>> /\ query = <<>> /\ results = <<>> /\ cursor = -1
      /\ stable = {} /\ request = Search!NoRequest
  BY DEF Search!Init, Search!Null
<1>2. Listed = {}
  BY <1>1 DEF Listed
<1> QED BY <1>1, <1>2 DEF SearchInv, PageInv, HistoryInv, Covers, RequestInv

LEMMA NextSearch == SearchInv /\ Search!Next => SearchInv'
<1> SUFFICES ASSUME SearchInv, Search!Next PROVE SearchInv'
  OBVIOUS
<1>1. ASSUME NEW v \in Values, NEW p \in Values \cup {Search!Root}, Search!MoveValue(v, p)
      PROVE  SearchInv'
  <2>1. /\ UNCHANGED <<tags, request, filters, query, results, cursor>>
        /\ Search!Watch(IF \E i \in DOMAIN query : ~query[i].strict THEN Search!Files ELSE {})
    BY <1>1 DEF Search!MoveValue, Search!page
  <2>2. CASE \E i \in DOMAIN query : ~query[i].strict
    <3>1. Search!Watch(Search!Files)
      BY <2>1, <2>2
    <3> QED BY <2>1, <3>1, WatchedKeeps DEF SearchInv, PageInv
  <2>3. CASE ~\E i \in DOMAIN query : ~query[i].strict
    <3>1. Search!Watch({})
      BY <2>1, <2>3
    <3> QED BY <2>1, <2>3, <3>1, WatchedKeeps DEF SearchInv, PageInv
  <2> QED BY <2>2, <2>3
<1>2. ASSUME Search!Change, DOMAIN tags' \subseteq Search!Files
      PROVE  SearchInv'
  <2>1. Search!Watch({}) /\ UNCHANGED <<parent, request, filters, query, results, cursor>>
    BY <1>2 DEF Search!Change, Search!page
  <2> QED BY <1>2, <2>1, WatchedKeeps
<1>3. DOMAIN tags \subseteq Search!Files
  BY DEF SearchInv, PageInv
<1>4. ASSUME NEW f \in Search!Files,
             (\E set : Search!TagFile(f, set)) \/ Search!DeleteFile(f)
      PROVE  SearchInv'
  <2>1. Search!Change /\ DOMAIN tags' \subseteq DOMAIN tags
    BY <1>4 DEF Search!TagFile, Search!DeleteFile
  <2> QED BY <1>2, <1>3, <2>1
<1>5. CASE Search!AddFile
  <2>1. PICK f : /\ f \in Search!Files /\ Search!Change
                 /\ tags' = [g \in DOMAIN tags \cup {f} |-> IF g = f THEN {} ELSE tags[g]]
    BY <1>5 DEF Search!AddFile
  <2>2. DOMAIN tags' \subseteq Search!Files
    BY <1>3, <2>1
  <2> QED BY <1>2, <2>1, <2>2
<1> QED BY <1>1, <1>4, <1>5, EditKeeps, SearchKeeps, LoadMoreKeeps, ReadPathKeeps, ReadBelowKeeps,
           QueryKeeps, ServerErrorKeeps DEF Search!Next

LEMMA OthersPartKeeps == SearchInv /\ UNCHANGED search => SearchInv'
<1> SUFFICES ASSUME SearchInv, UNCHANGED search PROVE SearchInv'
  OBVIOUS
<1>1. UNCHANGED <<parent, tags, request, filters, query, results, cursor, stable, ever>>
  BY DEF search
<1>2. request # Search!NoRequest => query # <<>>
  BY DEF SearchInv, PageInv
<1>3. RequestInv'
  <2>1. \A filter : Search!Wanted(filter)' = Search!Wanted(filter)
    BY <1>1, WantedStays
  <2>2. \A v : Search!Path(v)' = Search!Path(v)
    BY <1>1 DEF Search!Path
  <2> QED BY <1>1, <2>1, <2>2 DEF SearchInv, RequestInv, Request, Expands, Continues, Disturbed,
                                  Search!NoRequest, Search!Filters, Search!Files
<1> QED BY <1>1, <1>2, <1>3, QuietStep DEF Search!NoRequest

-----------------------------------------------------------------------------
(* Theorems *)

\* However requests, moves of values and changes of files follow each other: the page has the
\* stable files up to its cursor, a request in flight continues it, and the sets of the filters
\* expanded so far are those that the filters ask for, unless a fuzzy one was disturbed.
THEOREM SearchStaysInOrder == PartSpec => []SearchInv
<1>1. PartInit => SearchInv
  BY InitSearch DEF PartInit
<1>2. SearchInv /\ [PartNext]_<<part, vars, search, tagTables>> => SearchInv'
  BY NextSearch, OthersPartKeeps DEF PartNext
<1> QED BY <1>1, <1>2, PTL DEF PartSpec

\* The pages of a search (search.go: the keyset f.id > cursor, LIMIT limit + 1; SearchPage.tsx:
\* runSearch) that has been read to its end list every file that matched all the time.
THEOREM NothingIsSkipped == PartSpec => []Complete
<1>1. SearchInv => Complete
  <2> SUFFICES ASSUME SearchInv, cursor = 0, NEW f \in stable
               PROVE  \E i \in DOMAIN results : results[i] = f
    BY DEF Complete, Search!Complete, Search!Range
  <2>1. f \in Listed
    BY DEF SearchInv, Covers
  <2>2. DOMAIN results = 1 .. Len(results)
    BY LenIs DEF SearchInv, PageInv
  <2> QED BY <2>1, <2>2 DEF Listed
<1> QED BY <1>1, SearchStaysInOrder, PTL

\* No page lists a file that at no time of the search carried a value of every filter's set
\* (search.go: valueIDs and the statement of the files).
THEOREM NothingIsMadeUp == PartSpec => []OnlyHits
<1>1. SearchInv => OnlyHits
  <2> SUFFICES ASSUME SearchInv, NEW i \in DOMAIN results
               PROVE  results[i] \in ever
    BY DEF OnlyHits, Search!OnlyHits, Search!Range
  <2>1. i \in 1 .. Len(results)
    BY LenIs DEF SearchInv, PageInv
  <2>2. results[i] \in Listed
    BY <2>1 DEF Listed
  <2> QED BY <2>2 DEF SearchInv, HistoryInv
<1> QED BY <1>1, SearchStaysInOrder, PTL

-----------------------------------------------------------------------------
(* The tags shown *)

Tagged == INSTANCE TagsProofs
            WITH Files <- {dir, file, other}, Path <- PathOfFile,
                 Storages <- {{dir, file}, {other}}, Requests <- {}, MaxType <- 2, MaxValue <- 2

\* The bounds are numbers and the storages hold files, as Tags asks.
LEMMA InstanceIsSound ==
  /\ {{dir, file}, {other}} \subseteq SUBSET {dir, file, other}
  /\ 2 \in Nat
  OBVIOUS

LEMMA FilesArePaths == \A f \in {dir, file, other} : Tagged!IsPath(PathOfFile[f])
<1> DEFINE a == [storage |-> 1, segs |-> <<"A">>, dir |-> TRUE]
           b == [storage |-> 1, segs |-> <<"A", "B", "x">>, dir |-> FALSE]
           c == [storage |-> 2, segs |-> <<"A">>, dir |-> TRUE]
<1>1. Tagged!IsPath(a) /\ Tagged!IsPath(b) /\ Tagged!IsPath(c)
  <2>1. Len(<<"A">>) = 1 /\ <<"A">> = [i \in 1 .. 1 |-> <<"A">>[i]]
    OBVIOUS
  <2>2. /\ Len(<<"A", "B", "x">>) = 3
        /\ <<"A", "B", "x">> = [i \in 1 .. 3 |-> <<"A", "B", "x">>[i]]
    OBVIOUS
  <2> QED BY <2>1, <2>2 DEF Tagged!IsPath
<1>2. \A f \in {dir, file, other} : PathOfFile[f] \in {a, b, c}
  BY DEF PathOfFile
<1> HIDE DEF a, b, c
<1> QED BY <1>1, <1>2

\* The values, the tables of tags and what is shown are in order in every part.
THEOREM TagsStayInOrder == PartSpec => []Tagged!IndInv
<1>1. PartInit => Tagged!IndInv
  <2>1. Fields!Init <=> Tagged!Init
    BY DEF Fields!Init, Tagged!Init
  <2> QED BY <2>1, Tagged!InitInv DEF PartInit
<1>2. Tagged!IndInv /\ [PartNext]_<<part, vars, search, tagTables>> => Tagged!IndInv'
  <2>1. Fields!OneByOne <=> Tagged!OneByOne
    BY DEF Fields!OneByOne, Tagged!OneByOne, Fields!Vocabulary, Tagged!Vocabulary,
           Fields!TypeIds, Tagged!TypeIds, Fields!ValueIds, Tagged!ValueIds, Fields!Root,
           Tagged!Root, Fields!Live, Tagged!Live, Fields!Refs, Tagged!Refs, Fields!NoRequest,
           Tagged!NoRequest, Fields!CreateFieldType, Tagged!CreateFieldType,
           Fields!UpdateFieldType, Tagged!UpdateFieldType, Fields!DeleteFieldType,
           Tagged!DeleteFieldType, Fields!CreateFieldValue, Tagged!CreateFieldValue,
           Fields!MoveFieldValue, Tagged!MoveFieldValue, Fields!BeginDeleteFieldValue,
           Tagged!BeginDeleteFieldValue, Fields!FinishDeleteFieldValue,
           Tagged!FinishDeleteFieldValue, Fields!MergeFieldValue, Tagged!MergeFieldValue,
           Fields!ApplyByPath, Tagged!ApplyByPath, Fields!RemoveField, Tagged!RemoveField,
           Fields!DeleteStorage, Tagged!DeleteStorage, Fields!IsNextId, Tagged!IsNextId,
           Fields!AtMostOne, Tagged!AtMostOne, Fields!Cascade, Tagged!Cascade, Fields!GoodParent,
           Tagged!GoodParent, Fields!PathOf, Tagged!PathOf, Fields!WithPrefix, Tagged!WithPrefix,
           Fields!Rebase, Tagged!Rebase, Fields!DeleteValues, Tagged!DeleteValues, Fields!Tag,
           Tagged!Tag, Fields!Clear, Tagged!Clear, Fields!IsPrefix, Tagged!IsPrefix
  <2>2. [PartNext]_<<part, vars, search, tagTables>> => [Tagged!OneByOne]_Tagged!vars
    BY <2>1 DEF PartNext, tagTables, Tagged!vars
  <2> QED BY <2>2, Tagged!OneByOneStep
<1> QED BY <1>1, <1>2, PTL DEF PartSpec

\* A path shows the nearest values of each type, inherited exactly when they are not its own,
\* each with the labels of the whole chain above it (tagging.go: EffectiveFields, whose one
\* query and whose path column answer like a walk up the directories and up the parents).
THEOREM NearestTagsWin == PartSpec => []NearestWins
<1>1. Tagged!IndInv => Tagged!NearestWins
  BY FilesArePaths, Tagged!Nearness
<1>2. Fields!NearestWins <=> Tagged!NearestWins
  BY DEF Fields!NearestWins, Tagged!NearestWins, Fields!Paths, Tagged!Paths, Fields!TypeIds,
         Tagged!TypeIds, Fields!Shown, Tagged!Shown, Fields!Firsts, Tagged!Firsts,
         Fields!Candidates, Tagged!Candidates, Fields!AncestorPaths, Tagged!AncestorPaths,
         Fields!Range, Tagged!Range, Fields!Depth, Tagged!Depth, Fields!DirOf, Tagged!DirOf,
         Fields!Inherited, Tagged!Inherited, Fields!Own, Tagged!Own, Fields!Breadcrumb,
         Tagged!Breadcrumb, Fields!Live, Tagged!Live, Fields!Chain, Tagged!Chain, Fields!Root,
         Tagged!Root
<1>3. Tagged!IndInv => NearestWins
  BY <1>1, <1>2 DEF NearestWins
<1> QED BY <1>3, TagsStayInOrder, PTL
===============================================================================
