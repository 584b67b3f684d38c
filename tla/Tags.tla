-------------------------------- MODULE Tags --------------------------------
(***************************************************************************)
(* The tagging system of server/internal/tags: field types, the trees of   *)
(* field values kept as materialized paths, and the applications of values *)
(* to files.  Every operation that runs in one SQLite transaction, or is   *)
(* one statement, is one action: the write pool has a single connection    *)
(* (db/db.go), so write transactions never overlap.  DeleteFieldValue is   *)
(* two actions, since it reads the path on the READ pool and deletes later *)
(* on the write pool.  A request that returns an error rolls back, so it   *)
(* is no action.                                                           *)
(*                                                                         *)
(* A path "/1/3/" is the sequence <<1, 3>>: ids hold no LIKE wildcard and  *)
(* "/" ends each of them, so path LIKE p || '%' is IsPrefix(p, path).      *)
(* Names of types and labels of values play no part here.                  *)
(***************************************************************************)
EXTENDS Naturals, FiniteSets, SequencesExt, TLC

CONSTANTS
  Files,     \* paths that exist in the storages and can be tagged
  Storages,  \* the storages that may be deleted, each as the set of its Files
  Requests,  \* slots of concurrent DELETE /api/field-values/{id} requests
  MaxType,   \* bound: ids of field_types are 1..MaxType
  MaxValue   \* bound: ids of field_values are 1..MaxValue

ASSUME StoragesAssumption == Storages \subseteq SUBSET Files
ASSUME BoundsAssumption == MaxType \in Nat /\ MaxValue \in Nat

TypeIds  == 1 .. MaxType
ValueIds == 1 .. MaxValue
Root == 0                            \* parent_id NULL
NoRequest == [id |-> Root, path |-> << >>]

VARIABLES
  types,    \* field_types: id |-> allow_multi
  values,   \* field_values: id |-> [ft, parent, path]
  files,    \* the files that have a row in files
  fields,   \* file_fields: set of [file, ft, value]
  deleting  \* per request slot: the DELETE that has read its path

vars == <<types, values, files, fields, deleting>>

Value == [ft : TypeIds, parent : ValueIds \cup {Root}, path : Seq(ValueIds)]
Row   == [file : Files, ft : TypeIds, value : ValueIds]
Pending == [id : ValueIds, path : Seq(ValueIds)] \cup {NoRequest}

Live == DOMAIN values

-----------------------------------------------------------------------------
(* SQL *)

\* INTEGER PRIMARY KEY without AUTOINCREMENT: one more than the largest id in
\* use, so the id of a deleted last row is given out again.
IsNextId(id, used) ==
  /\ id \notin used
  /\ \A u \in used : u < id
  /\ id = 1 \/ id - 1 \in used

\* The rows a DELETE of the values S takes: parent_id ... ON DELETE CASCADE.
Cascade(S) ==
  {v \in Live : \A T \in SUBSET Live :
     (/\ S \subseteq T
      /\ \A c \in Live : values[c].parent \in T => c \in T)
     => v \in T}

\* Mutant of DeleteValues: foreign keys are not enforced on file_fields.
DeleteValuesOnly(S) ==
  /\ values' = [v \in Live \ Cascade(S) |-> values[v]]
  /\ UNCHANGED fields

\* DELETE FROM field_values: the applications of the values cascade as well.
DeleteValues(S) ==
  LET gone == Cascade(S)
  IN  /\ values' = [v \in Live \ gone |-> values[v]]
      /\ fields' = {r \in fields : r.value \notin gone}

WithPrefix(path) == {v \in Live : IsPrefix(path, values[v].path)}

-----------------------------------------------------------------------------
Init ==
  /\ types    = [t \in {} |-> FALSE]
  /\ values   = [v \in {} |-> NoRequest]
  /\ files    = {}
  /\ fields   = {}
  /\ deleting = [q \in Requests |-> NoRequest]

(* Field types *)

CreateFieldType(id, multi) ==
  /\ IsNextId(id, DOMAIN types)
  /\ types' = [t \in DOMAIN types \cup {id} |->
                 IF t = id THEN multi ELSE types[t]]
  /\ UNCHANGED <<values, files, fields, deleting>>

\* No file carries two values of the type.
AtMostOne(rows, ft) ==
  \A r, s \in rows : r.file = s.file /\ r.ft = ft /\ s.ft = ft => r = s

\* Mutant of UpdateFieldType: files with several values are not looked for.
UpdateUnchecked(ft, multi) ==
  /\ ft \in DOMAIN types
  /\ types' = [types EXCEPT ![ft] = multi]
  /\ UNCHANGED <<values, files, fields, deleting>>

UpdateFieldType(ft, multi) ==
  /\ ft \in DOMAIN types
  /\ ~multi => AtMostOne(fields, ft)           \* else ErrMultiValueConflict
  /\ types' = [types EXCEPT ![ft] = multi]
  /\ UNCHANGED <<values, files, fields, deleting>>

\* field_type_id ... ON DELETE CASCADE, in field_values and in file_fields.
DeleteFieldType(ft) ==
  /\ ft \in DOMAIN types
  /\ types' = [t \in DOMAIN types \ {ft} |-> types[t]]
  /\ LET gone == Cascade({v \in Live : values[v].ft = ft})
     IN  /\ values' = [v \in Live \ gone |-> values[v]]
         /\ fields' = {r \in fields : r.ft # ft /\ r.value \notin gone}
  /\ UNCHANGED <<files, deleting>>

(* Field values *)

\* The parent the request names, if any: it exists and has the same type.
GoodParent(parent, ft) ==
  parent # Root => parent \in Live /\ values[parent].ft = ft

\* Mutant of PathOf: the NULL parent is read as the id 0.
PathOfNull(parent) == IF parent = Root THEN <<Root>> ELSE values[parent].path

PathOf(parent) == IF parent = Root THEN << >> ELSE values[parent].path

CreateFieldValue(id, ft, parent) ==
  /\ GoodParent(parent, ft)
  /\ ft \in DOMAIN types                       \* foreign key
  /\ IsNextId(id, Live)
  /\ values' = [v \in Live \cup {id} |->
                  IF v = id
                  THEN [ft |-> ft, parent |-> parent,
                        path |-> Append(PathOf(parent), id)]
                  ELSE values[v]]
  /\ UNCHANGED <<types, files, fields, deleting>>

\* Mutant of Rebase: substr starts one id late.
RebaseLate(path, old, new) == new \o SubSeq(path, Len(old) + 2, Len(path))

\* newPath || substr(path, len(oldPath) + 1)
Rebase(path, old, new) == new \o SubSeq(path, Len(old) + 1, Len(path))

\* Mutant of MoveFieldValue: no check for a cycle.
MoveAnywhere(id, parent) ==
  /\ id \in Live
  /\ GoodParent(parent, values[id].ft)
  /\ LET old == values[id].path
         new == Append(PathOf(parent), id)
     IN  values' = [v \in Live |->
           [values[v] EXCEPT
              !.path = IF v \in WithPrefix(old) THEN Rebase(@, old, new) ELSE @,
              !.parent = IF v = id THEN parent ELSE @]]
  /\ UNCHANGED <<types, files, fields, deleting>>

MoveFieldValue(id, parent) ==
  /\ id \in Live
  /\ GoodParent(parent, values[id].ft)
  /\ LET old == values[id].path
         new == Append(PathOf(parent), id)
     IN  /\ new # old                          \* else a no-op
         /\ ~IsPrefix(old, PathOf(parent))     \* else ErrCycle
         /\ values' = [v \in Live |->
              [values[v] EXCEPT
                 !.path = IF v \in WithPrefix(old) THEN Rebase(@, old, new)
                                                   ELSE @,
                 !.parent = IF v = id THEN parent ELSE @]]
  /\ UNCHANGED <<types, files, fields, deleting>>

\* valuePath: SELECT path on the read pool.
BeginDeleteFieldValue(q, id) ==
  /\ deleting[q] = NoRequest
  /\ id \in Live                               \* else ErrNotFound
  /\ deleting' = [deleting EXCEPT ![q] = [id |-> id, path |-> values[id].path]]
  /\ UNCHANGED <<types, values, files, fields>>

\* DELETE ... WHERE path LIKE on the write pool; the handler answers 204
\* whatever the number of rows deleted.
FinishDeleteFieldValue(q) ==
  /\ deleting[q] # NoRequest
  /\ DeleteValues(WithPrefix(deleting[q].path))
  /\ deleting' = [deleting EXCEPT ![q] = NoRequest]
  /\ UNCHANGED <<types, files>>

\* Mutant of MergeFieldValue: the rows are not updated, only cascade away.
MergeLosingRows(id, target) ==
  /\ id # target
  /\ {id, target} \subseteq Live
  /\ values[id].ft = values[target].ft
  /\ \A v \in Live : values[v].parent # id
  /\ fields' = {r \in fields : r.value # id}
  /\ values' = [v \in Live \ {id} |-> values[v]]
  /\ UNCHANGED <<types, files, deleting>>

\* UPDATE OR IGNORE, then DELETE of the rows the update left, then DELETE of
\* the value.
MergeFieldValue(id, target) ==
  /\ id # target
  /\ {id, target} \subseteq Live               \* else ErrNotFound
  /\ values[id].ft = values[target].ft         \* else ErrFieldTypeMismatch
  /\ \A v \in Live : values[v].parent # id     \* else ErrHasChildren
  /\ fields' = {[r EXCEPT !.value = IF @ = id THEN target ELSE @] : r \in fields}
  /\ values' = [v \in Live \ {id} |-> values[v]]
  /\ UNCHANGED <<types, files, deleting>>

(* Applications *)

\* applyTx on the rows built so far in the transaction, for each of fs: a
\* single-value type loses the file's previous value first.
Clear(rows, fs, ft) == {r \in rows : ~(r.file \in fs /\ r.ft = ft)}

Tag(rows, fs, ref) ==
  (IF types[ref.ft] THEN rows ELSE Clear(rows, fs, ref.ft))
    \cup {[file |-> f, ft |-> ref.ft, value |-> ref.value] : f \in fs}

\* A (field type, value) pair the foreign keys accept.  Nothing compares the
\* type of the value with the type it is applied under.
Refs == [ft : DOMAIN types, value : Live]

ApplyByFileID(f, ref) ==
  /\ f \in files
  /\ fields' = Tag(fields, {f}, ref)
  /\ UNCHANGED <<types, values, files, deleting>>

\* The files row is created in the same transaction if it is missing.
ApplyByPath(f, ref) ==
  /\ files' = files \cup {f}
  /\ fields' = Tag(fields, {f}, ref)
  /\ UNCHANGED <<types, values, deleting>>

RemoveField(f, ft) ==
  /\ f \in files
  /\ fields' = Clear(fields, {f}, ft)
  /\ UNCHANGED <<types, values, files, deleting>>

\* catalog.DeleteStorage: the rows in files go, and their applications with
\* them.  The same directory may be registered again as a new storage.
DeleteStorage(s) ==
  /\ files' = files \ s
  /\ fields' = {r \in fields : r.file \notin s}
  /\ UNCHANGED <<types, values, deleting>>

\* One POST /api/batch/tags: every target gets a files row, loses the types of
\* remove, then gets the pairs of apply in order; one error undoes it all.
BatchRows(targets, remove, apply) ==
  LET kept  == {r \in fields : ~(r.file \in targets /\ r.ft \in remove)}
      first == IF apply = << >> THEN kept ELSE Tag(kept, targets, apply[1])
  IN  IF Len(apply) < 2 THEN first ELSE Tag(first, targets, apply[2])

\* Bound: a batch applies at most two pairs.
Applies == {<< >>} \cup {<<a>> : a \in Refs} \cup {<<a, b>> : a, b \in Refs}

Batch(targets, remove, apply) ==
  /\ targets # {}
  /\ files' = files \cup targets
  /\ fields' = BatchRows(targets, remove, apply)
  /\ UNCHANGED <<types, values, deleting>>

-----------------------------------------------------------------------------
Vocabulary ==
  \/ \E id \in TypeIds, multi \in BOOLEAN : CreateFieldType(id, multi)
  \/ \E ft \in TypeIds, multi \in BOOLEAN : UpdateFieldType(ft, multi)
  \/ \E ft \in TypeIds : DeleteFieldType(ft)
  \/ \E id \in ValueIds, ft \in TypeIds, parent \in ValueIds \cup {Root} :
       CreateFieldValue(id, ft, parent)
  \/ \E id \in ValueIds, parent \in ValueIds \cup {Root} :
       MoveFieldValue(id, parent)
  \/ \E q \in Requests, id \in ValueIds : BeginDeleteFieldValue(q, id)
  \/ \E q \in Requests : FinishDeleteFieldValue(q)
  \/ \E id, target \in ValueIds : MergeFieldValue(id, target)

Tagging ==
  \/ \E f \in Files, ref \in Refs : ApplyByFileID(f, ref)
  \/ \E f \in Files, ref \in Refs : ApplyByPath(f, ref)
  \/ \E f \in Files, ft \in TypeIds : RemoveField(f, ft)
  \/ \E s \in Storages : DeleteStorage(s)
  \/ \E targets \in SUBSET Files, remove \in SUBSET TypeIds, apply \in Applies :
       Batch(targets, remove, apply)

Next == Vocabulary \/ Tagging

Spec == Init /\ [][Next]_vars

-----------------------------------------------------------------------------
(* What must hold *)

\* Type invariant of the tables and of the requests in flight.
TypeOK ==
  /\ DOMAIN types \subseteq TypeIds /\ types \in [DOMAIN types -> BOOLEAN]
  /\ Live \subseteq ValueIds /\ values \in [Live -> Value]
  /\ files \subseteq Files
  /\ fields \subseteq Row
  /\ deleting \in [Requests -> Pending]

\* Every value's path is its parent's path followed by its own id, and the
\* parent is a live value of the same type.  CreateFieldValue and the two
\* UPDATEs of MoveFieldValue keep the redundant column in step with parent_id.
PathMatchesParent ==
  \A v \in Live :
    /\ values[v].ft \in DOMAIN types
    /\ GoodParent(values[v].parent, values[v].ft)
    /\ values[v].path = Append(PathOf(values[v].parent), v)

\* A file carries at most one value of a type that does not allow several,
\* whatever sequence of applies, batches, merges and changes of allow_multi led
\* here: the primary key of file_fields does not enforce it.
SingleValued ==
  \A ft \in DOMAIN types : ~types[ft] => AtMostOne(fields, ft)

\* Applications never outlive what they refer to.  Ids are given out again, so a
\* row left behind would tag its file with the next value, or count against the
\* next type, of that id.
NoDanglingRows ==
  \A r \in fields : r.file \in files /\ r.ft \in DOMAIN types /\ r.value \in Live

\* MergeFieldValue loses no tag: a file tagged with the merged value is tagged
\* with the target, and every other application stays as it was.
MergeKeepsTags ==
  [][\A id, target \in ValueIds : MergeFieldValue(id, target) =>
       /\ {r \in fields : r.value # id} \subseteq fields'
       /\ {<<r.file, r.ft>> : r \in {s \in fields : s.value = id}}
            \subseteq {<<r.file, r.ft>> : r \in {s \in fields' : s.value = target}}
       /\ \A r \in fields' : r.value # id]_vars

Finished(q) == deleting[q] # NoRequest /\ deleting'[q] = NoRequest

\* Violated.  "DeleteFieldValue removes a value and its whole subtree": when the
\* request has been answered with success the value is gone.
DeleteRemovesValue ==
  [][\A q \in Requests : Finished(q) => deleting[q].id \notin Live']_vars

\* The paths are an implementation of a forest in which subtrees move, and
\* leave, whole.
Forest == INSTANCE TagForest
            WITH Types <- TypeIds, Values <- ValueIds,
                 forest <- [v \in Live |-> [ft |-> values[v].ft,
                                           parent |-> values[v].parent]]

ImplementsForest == Forest!Spec
==============================================================================
