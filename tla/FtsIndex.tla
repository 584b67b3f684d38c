------------------------------ MODULE FtsIndex ------------------------------
(***************************************************************************)
(* The full-text index over labels and aliases of field values: the        *)
(* triggers of db/migrations/0002_fts.sql under every statement of         *)
(* server/internal/tags that writes field_values or field_value_aliases.   *)
(*                                                                         *)
(* A statement that touches several rows, and a merge, are several steps,  *)
(* one per row or statement, because each trigger reads the tables as they *)
(* are at that moment.  Readers (search.go) use other connections and see  *)
(* what is committed.  A transaction may be rolled back after any step.    *)
(*                                                                         *)
(* The text of an index row, the label and the aliases joined with blanks, *)
(* is the pair of the label and the set of aliases.  Which values a        *)
(* deletion takes is the business of module Tags: here it is any set.      *)
(***************************************************************************)
EXTENDS Naturals, FiniteSets, TLC

CONSTANTS
  Names,    \* labels and aliases
  MaxValue, \* bound: ids of field_values are 1..MaxValue
  MaxAlias  \* bound: ids of field_value_aliases are 1..MaxAlias

ASSUME BoundsAssumption == MaxValue \in Nat /\ MaxAlias \in Nat

ValueIds == 1 .. MaxValue
AliasIds == 1 .. MaxAlias
None == 0

VARIABLES
  label,    \* field_values: id |-> value
  aliases,  \* field_value_aliases: id |-> [owner, text]
  index,    \* field_value_fts: rowid |-> [label, aliases]
  work,     \* the statement or transaction that is under way
  committed \* what readers see of label, aliases and index

tables == <<label, aliases, index>>
vars == <<label, aliases, index, work, committed>>

Idle == [op |-> "none", todo |-> {}, gone |-> {}, target |-> None]

Alias == [owner : ValueIds, text : Names]
Text  == [label : Names, aliases : SUBSET Names]
Work  == [op : {"none", "delete", "moveAliases", "addLabel", "dropValue"},
          todo : SUBSET ValueIds, gone : SUBSET ValueIds, target : ValueIds \cup {None}]

IsNextId(id, used) == id \notin used /\ (\A u \in used : u < id) /\ (id = 1 \/ id - 1 \in used)

-----------------------------------------------------------------------------
(* The triggers *)

AliasesOf(v, rows) == {rows[a].text : a \in {b \in DOMAIN rows : rows[b].owner = v}}

TextOf(v, labels, rows) == [label |-> labels[v], aliases |-> AliasesOf(v, rows)]

\* DELETE the index rows of S, then INSERT ... SELECT FROM field_values: a value
\* of S that has no row any more gets none.
Rebuild(S, labels, rows) ==
  [v \in (DOMAIN index \ S) \cup (S \cap DOMAIN labels) |->
     IF v \in S THEN TextOf(v, labels, rows) ELSE index[v]]

-----------------------------------------------------------------------------
Nothing == [v \in {} |-> None]

Init ==
  /\ label = Nothing /\ aliases = Nothing /\ index = Nothing
  /\ work = Idle
  /\ committed = [label |-> label, aliases |-> aliases, index |-> index]

Commit ==
  /\ work' = Idle
  /\ committed' = [label |-> label', aliases |-> aliases', index |-> index']

\* fv_fts_ai.  The index refuses a rowid it already has.
CreateFieldValue(v, name) ==
  /\ work = Idle
  /\ IsNextId(v, DOMAIN label)
  /\ v \notin DOMAIN index
  /\ label' = [u \in DOMAIN label \cup {v} |-> IF u = v THEN name ELSE label[u]]
  /\ index' = [u \in DOMAIN index \cup {v} |->
                 IF u = v THEN [label |-> name, aliases |-> {}] ELSE index[u]]
  /\ UNCHANGED aliases
  /\ Commit

\* fv_fts_au
RenameFieldValue(v, name) ==
  /\ work = Idle
  /\ v \in DOMAIN label                                 \* else ErrNotFound
  /\ label' = [label EXCEPT ![v] = name]
  /\ index' = Rebuild({v}, label', aliases)
  /\ UNCHANGED aliases
  /\ Commit

\* fva_fts_ai
InsertAlias(v, name) ==
  \E a \in AliasIds :
    /\ IsNextId(a, DOMAIN aliases)
    /\ aliases' = [b \in DOMAIN aliases \cup {a} |->
                     IF b = a THEN [owner |-> v, text |-> name] ELSE aliases[b]]
    /\ index' = Rebuild({v}, label, aliases')

AddAlias(v, name) ==
  /\ work = Idle
  /\ v \in DOMAIN label                                 \* foreign key
  /\ InsertAlias(v, name)
  /\ UNCHANGED label
  /\ Commit

\* fva_fts_ad
RemoveAlias(a) ==
  /\ aliases' = [b \in DOMAIN aliases \ {a} |-> aliases[b]]
  /\ index' = Rebuild({aliases[a].owner}, label, aliases')

DeleteAlias(a) ==
  /\ work = Idle
  /\ a \in DOMAIN aliases
  /\ RemoveAlias(a)
  /\ UNCHANGED label
  /\ Commit

(* DELETE FROM field_values: of a subtree, of a field type, of a merged value. *)

BeginDelete(S) ==
  /\ work = Idle
  /\ S # {} /\ S \subseteq DOMAIN label
  /\ work' = [Idle EXCEPT !.op = "delete", !.todo = S]
  /\ UNCHANGED <<tables, committed>>

Deleting == work.op \in {"delete", "dropValue"}

\* The row goes first, then what refers to it, then the AFTER DELETE trigger;
\* rows of a subtree may be under way together.
DeleteRow(v) ==
  /\ Deleting
  /\ v \in work.todo
  /\ label' = [u \in DOMAIN label \ {v} |-> label[u]]
  /\ work' = [work EXCEPT !.todo = @ \ {v}, !.gone = @ \cup {v}]
  /\ UNCHANGED <<aliases, index, committed>>

\* ON DELETE CASCADE, which fires the trigger of the alias.
CascadeAlias(a) ==
  /\ a \in DOMAIN aliases
  /\ aliases[a].owner \in work.gone
  /\ RemoveAlias(a)
  /\ UNCHANGED <<label, work, committed>>

\* Mutant of AfterDelete: there is no such trigger.
NoAfterDelete(v) ==
  /\ v \in work.gone
  /\ \A a \in DOMAIN aliases : aliases[a].owner # v
  /\ work' = [work EXCEPT !.gone = @ \ {v}]
  /\ UNCHANGED <<tables, committed>>

\* fv_fts_ad
AfterDelete(v) ==
  /\ v \in work.gone
  /\ \A a \in DOMAIN aliases : aliases[a].owner # v
  /\ index' = [u \in DOMAIN index \ {v} |-> index[u]]
  /\ work' = [work EXCEPT !.gone = @ \ {v}]
  /\ UNCHANGED <<label, aliases, committed>>

FinishDelete ==
  /\ Deleting
  /\ work.todo = {} /\ work.gone = {}
  /\ UNCHANGED tables
  /\ Commit

(* MergeFieldValue: three statements on aliases and values. *)

BeginMerge(id, target) ==
  /\ work = Idle
  /\ id # target /\ {id, target} \subseteq DOMAIN label
  /\ work' = [Idle EXCEPT !.op = "moveAliases", !.todo = {id}, !.target = target]
  /\ UNCHANGED <<tables, committed>>

\* UPDATE ... SET field_value_id: fva_fts_au fires for each row.
MoveAlias(a) ==
  /\ work.op = "moveAliases"
  /\ a \in DOMAIN aliases
  /\ aliases[a].owner \in work.todo
  /\ aliases' = [aliases EXCEPT ![a].owner = work.target]
  /\ index' = Rebuild({aliases[a].owner, work.target}, label, aliases')
  /\ UNCHANGED <<label, work, committed>>

\* Mutant of AliasesMoved: the aliases are left to the cascade.
AliasesForgotten ==
  /\ work.op = "moveAliases"
  /\ work' = [work EXCEPT !.op = "addLabel"]
  /\ UNCHANGED <<tables, committed>>

AliasesMoved ==
  /\ work.op = "moveAliases"
  /\ \A a \in DOMAIN aliases : aliases[a].owner \notin work.todo
  /\ work' = [work EXCEPT !.op = "addLabel"]
  /\ UNCHANGED <<tables, committed>>

\* INSERT ... SELECT value: the label of the merged value becomes an alias.
AddLabel ==
  /\ work.op = "addLabel"
  /\ \E v \in work.todo : InsertAlias(work.target, label[v])
  /\ work' = [work EXCEPT !.op = "dropValue"]
  /\ UNCHANGED <<label, committed>>

\* A failed statement, a cancelled request, a crash of the server.
Rollback ==
  /\ work # Idle
  /\ label' = committed.label /\ aliases' = committed.aliases /\ index' = committed.index
  /\ work' = Idle
  /\ UNCHANGED committed

-----------------------------------------------------------------------------
Statement ==
  \/ \E v \in ValueIds, name \in Names : CreateFieldValue(v, name)
  \/ \E v \in ValueIds, name \in Names : RenameFieldValue(v, name)
  \/ \E v \in ValueIds, name \in Names : AddAlias(v, name)
  \/ \E a \in AliasIds : DeleteAlias(a)

Deletion ==
  \/ \E S \in SUBSET ValueIds : BeginDelete(S)
  \/ \E v \in ValueIds : DeleteRow(v)
  \/ \E a \in AliasIds : CascadeAlias(a)
  \/ \E v \in ValueIds : AfterDelete(v)
  \/ FinishDelete

Merge ==
  \/ \E id, target \in ValueIds : BeginMerge(id, target)
  \/ \E a \in AliasIds : MoveAlias(a)
  \/ AliasesMoved
  \/ AddLabel

Next == Statement \/ Deletion \/ Merge \/ Rollback

Spec == Init /\ [][Next]_vars

-----------------------------------------------------------------------------
(* What must hold *)

\* The functions on some of the ids.
Partial(ids, rows) == UNION {[S -> rows] : S \in SUBSET ids}

Tables == [label   : Partial(ValueIds, Names),
           aliases : Partial(AliasIds, Alias),
           index   : Partial(ValueIds, Text)]

\* Type invariant of the three tables, as the writer and as readers see them.
TypeOK ==
  /\ [label |-> label, aliases |-> aliases, index |-> index] \in Tables
  /\ committed \in Tables
  /\ work \in Work

\* "Triggers keep it in sync": what a reader finds in the index is exactly the
\* label and the aliases of every value that exists, after any statement,
\* deletion or merge, complete or rolled back.
IndexMirrorsTables ==
  /\ DOMAIN committed.index = DOMAIN committed.label
  /\ \A v \in DOMAIN committed.index :
       committed.index[v] = TextOf(v, committed.label, committed.aliases)

\* No alias outlives its value, so none turns up at the next value of that id.
AliasesHaveOwners ==
  \A a \in DOMAIN committed.aliases : committed.aliases[a].owner \in DOMAIN committed.label

\* The names a value is found by.
NamesOf(v, row) == {row.index[v].label} \cup row.index[v].aliases

\* MergeFieldValue loses no name: the target is found by what the two values were
\* found by before, and by nothing else.
MergeKeepsNames ==
  [][\A id, target \in ValueIds :
       (/\ work.op = "dropValue" /\ work.target = target
        /\ id \in DOMAIN committed.label \ DOMAIN committed'.label) =>
         NamesOf(target, committed') = NamesOf(target, committed) \cup NamesOf(id, committed)]_vars

\* For TLC: names are interchangeable.
Symmetric == Permutations(Names)
=============================================================================
