------------------------------ MODULE PermRules ------------------------------
(***************************************************************************)
(* How permission rows decide what a user may do: the in-memory rules      *)
(* (server/internal/perm/perm.go) and the query that fetches the rows      *)
(* along the chain of a target (server/internal/perm/resolve.go).          *)
(*                                                                         *)
(* A path is a sequence of characters; "/" ends every directory.  The      *)
(* actions, a struct of five flags in the code, are a set.                 *)
(***************************************************************************)
EXTENDS Naturals, Sequences, FiniteSets

CONSTANT Actions   \* what a row may grant or deny, "admin" among it

-----------------------------------------------------------------------------
(* perm.go.  A row is [resource, path, set, deny]. *)

\* Level of a row: files above storages above the system, longer paths first.
Specificity(row) ==
  CASE row.resource = "file"    -> <<3, Len(row.path)>>
    [] row.resource = "storage" -> <<2, 0>>
    [] OTHER                    -> <<1, 0>>

Closer(row, other) ==
  LET a == Specificity(row)
      b == Specificity(other)
  IN  a[1] > b[1] \/ (a[1] = b[1] /\ a[2] > b[2])

\* The rows, the closest first.
Sorted(rows) ==
  LET n == Cardinality(rows)
  IN  CHOOSE s \in [1 .. n -> rows] :
        \A i, j \in 1 .. n : i < j => s[i] # s[j] /\ ~Closer(s[j], s[i])

\* The rows from i on that are of one level with it, and what they say of an action.
Level(sorted, i) ==
  {j \in i .. Len(sorted) : Specificity(sorted[j]) = Specificity(sorted[i])}
Said(sorted, i, action) ==
  {sorted[j].deny : j \in {k \in Level(sorted, i) : action \in sorted[k].set}}

\* The walk over the sorted rows, a level at a time: the first level with a row
\* that mentions the action decides, and there a denial wins.
ResolveAction(rows, action) ==
  LET sorted == Sorted(rows)
      walk[i \in 1 .. Len(sorted) + 1] ==
        IF i > Len(sorted) THEN "undecided"
        ELSE IF TRUE \in Said(sorted, i, action) THEN "deny"
        ELSE IF FALSE \in Said(sorted, i, action) THEN "allow"
        ELSE walk[i + Cardinality(Level(sorted, i))]
  IN  walk[1]

\* Mutant of Check: the fallback is asked before the action itself.
CheckAdminFirst(rows, action) ==
  \/ action # "admin" /\ ResolveAction(rows, "admin") = "allow"
  \/ ResolveAction(rows, action) = "allow"

\* What no level mentions is left to the admin permission.
Check(rows, action) ==
  \/ ResolveAction(rows, action) = "allow"
  \/ /\ ResolveAction(rows, action) = "undecided"
     /\ action # "admin"
     /\ ResolveAction(rows, "admin") = "allow"

Effective(rows) == {action \in Actions : Check(rows, action)}

-----------------------------------------------------------------------------
(* resolve.go.  A stored permission is [principal, resource, id, set, deny]; a *)
(* principal is <<"user", id>> or <<"group", id>>; files are [storage, path].  *)

\* SQLite's LIKE as fetchRows uses it: path || '%' against the target.  It folds
\* case ("A" stands for the capital of "a") and "_" in the path matches any
\* character.  Bound: no path holds a "%".
LikePrefix(path, target) ==
  LET Fold(char) == IF char = "A" THEN "a" ELSE char
  IN  /\ Len(path) <= Len(target)
      /\ \A i \in 1 .. Len(path) :
           path[i] = "_" \/ Fold(path[i]) = Fold(target[i])

\* Mutant of OnChain: the join forgets f.storage_id = ?.
OnAnyChain(p, files, storage, target) ==
  \/ p.resource = "system"
  \/ p.resource = "storage" /\ p.id = storage
  \/ /\ p.resource = "file" /\ p.id \in DOMAIN files
     /\ LikePrefix(files[p.id].path, target)

\* The row is about the system, the storage, or a file on the way to the target.
OnChain(p, files, storage, target) ==
  \/ p.resource = "system"
  \/ p.resource = "storage" /\ p.id = storage
  \/ /\ p.resource = "file" /\ p.id \in DOMAIN files
     /\ files[p.id].storage = storage
     /\ LikePrefix(files[p.id].path, target)

\* fetchRows: one query for the user's own rows and those of its groups.
FetchRows(table, files, user, groups, storage, target) ==
  LET mine == {p \in table : \/ p.principal = <<"user", user>>
                             \/ p.principal \in {"group"} \X groups}
  IN  {[resource |-> p.resource, set |-> p.set, deny |-> p.deny,
        path |-> IF p.resource = "file" THEN files[p.id].path ELSE <<>>] :
          p \in {q \in mine : OnChain(q, files, storage, target)}}

ResolveEffective(table, files, user, groups, storage, target) ==
  Effective(FetchRows(table, files, user, groups, storage, target))

Resolve(table, files, user, groups, storage, target, action) ==
  Check(FetchRows(table, files, user, groups, storage, target), action)

-----------------------------------------------------------------------------
(* Reference: section 6.3.4 of docs/design-v0.5.md. *)

Depth(row) ==
  CASE row.resource = "file"    -> 2 + Len(row.path)
    [] row.resource = "storage" -> 1
    [] OTHER                    -> 0

\* Of the rows that mention the action the deepest decide, and one denial among
\* them is enough to refuse; what nobody mentions follows the admin permission.
NearestDecides(rows, action) ==
  LET About(a)   == {row \in rows : a \in row.set}
      Nearest(a) == {row \in About(a) : \A other \in About(a) : Depth(other) <= Depth(row)}
      Allowed(a) == Nearest(a) # {} /\ \A row \in Nearest(a) : ~row.deny
  IN  IF About(action) # {} THEN Allowed(action) ELSE Allowed("admin")
==============================================================================
