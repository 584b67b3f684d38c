--------------------------- MODULE EffectiveFields ---------------------------
(***************************************************************************)
(* What GET /api/files/{id}/fields shows (server/internal/tags/tagging.go, *)
(* EffectiveFields): the tags of a path, its own or inherited from the     *)
(* nearest directory above it, each with the labels from the root of its   *)
(* tree down to it.  Nothing is stored for an inherited tag, so the answer *)
(* is computed over the tables of Tags.tla, in every state they can reach. *)
(*                                                                         *)
(* Tags.tla takes the members of Files as they come; here each is a path:  *)
(* its storage, its segments and whether it ends in "/".  Two paths on one *)
(* way down differ in length, so ORDER BY length(f.path) DESC orders them  *)
(* by their number of segments.  The labels are read by a second statement *)
(* which is evaluated here in the same state as the first.                 *)
(***************************************************************************)
EXTENDS Tags

CONSTANT Path   \* which path each file is: [storage, segs, dir]

\* A path has segments, and ends in "/" or not.
IsPath(p) ==
  /\ p = [storage |-> p.storage, segs |-> p.segs, dir |-> p.dir]
  /\ Len(p.segs) \in Nat \ {0} /\ p.segs = [i \in 1 .. Len(p.segs) |-> p.segs[i]]

Depth(p) == Len(p.segs)

\* The directory that holds the first n segments of p.
DirOf(p, n) == [p EXCEPT !.segs = SubSeq(@, 1, n), !.dir = TRUE]

\* Mutant of AncestorPaths: the loop ends before the topmost directory.
AncestorsBelowTop(p) ==
  <<p>> \o [i \in 1 .. Depth(p) - 2 |-> DirOf(p, Depth(p) - i)]

\* The path itself, then the directories above it, nearest first.
AncestorPaths(p) ==
  <<p>> \o [i \in 1 .. Depth(p) - 1 |-> DirOf(p, Depth(p) - i)]

\* The rows of the one batched query: f.storage_id = ? AND f.path IN (...).
Candidates(rows, p) ==
  LET ancestors == Range(AncestorPaths(p))
  IN  {r \in rows : Path[r.file] \in ancestors}

\* The rows that may come first among those of their type.  Rows of one path
\* come in no particular order: of several values of a multi-value type, any.
Firsts(rows, p, ft) ==
  LET seen == {r \in Candidates(rows, p) : r.ft = ft}
  IN  {r \in seen : \A s \in seen : Depth(Path[s.file]) <= Depth(Path[r.file])}

Shown(rows, p, ft) ==
  {[value |-> r.value, inherited |-> Path[r.file] # p] : r \in Firsts(rows, p, ft)}

\* fillBreadcrumbs: the ids of the value's path, those that still have a label.
Breadcrumb(v) ==
  LET path == values[v].path
      crumb[i \in 0 .. Len(path)] ==
        IF i = 0 THEN << >>
        ELSE IF path[i] \in Live THEN Append(crumb[i - 1], path[i]) ELSE crumb[i - 1]
  IN  crumb[Len(path)]

-----------------------------------------------------------------------------
\* The operations of Tags.tla, each on its own: a batch reaches no state that
\* its applications and removals one after the other do not reach.
OneByOne ==
  \/ Vocabulary
  \/ \E f \in Files, ref \in Refs : ApplyByPath(f, ref)
  \/ \E f \in Files, ft \in TypeIds : RemoveField(f, ft)
  \/ \E s \in Storages : DeleteStorage(s)

(* What must hold *)

\* Every path the provider can list: also those that have no row in files.
Paths == {Path[f] : f \in Files}

Own(p, ft) == {r.value : r \in {s \in fields : Path[s.file] = p /\ s.ft = ft}}

\* Inheritance as a user thinks of it: a path shows its own values, and without
\* any what the directory around it shows.
Inherited(p, ft) ==
  LET Around[n \in 1 .. Depth(p)] ==
        LET own == Own(IF n = Depth(p) THEN p ELSE DirOf(p, n), ft)
        IN  IF own # {} \/ n = 1 THEN own ELSE Around[n - 1]
  IN  Around[Depth(p)]

\* The value and the values above it in the tree, root first.
Chain[v \in Live] ==
  IF values[v].parent = Root THEN <<v>> ELSE Append(Chain[values[v].parent], v)

\* The nearest value wins, type by type, along directories of which some have
\* no row in files at all; a value is called inherited exactly when it is not
\* the path's own; and its labels are those of the whole chain of values above it,
\* after any moves, merges and deletions.  EffectiveFields finds this with one
\* query over all ancestors and a filter on the types already seen, and takes the
\* labels from the path column without looking at parent_id.  Of several values of a
\* type at one path the code shows one, whichever row comes first: Shown holds all
\* that may.
NearestWins ==
  \A p \in Paths, ft \in TypeIds :
    LET shown == Shown(fields, p, ft)
    IN  /\ {s.value : s \in shown} = Inherited(p, ft)
        /\ \A s \in shown :
             /\ s.inherited <=> Own(p, ft) = {}
             /\ Breadcrumb(s.value) = Chain[s.value]
=============================================================================
