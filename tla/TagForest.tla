------------------------------ MODULE TagForest ------------------------------
(***************************************************************************)
(* What the tag vocabulary promises its users, without any materialized    *)
(* path: a forest of values, each tree inside one field type.  A value is  *)
(* born a leaf, moves with everything below it, and leaves with everything *)
(* below it.  Tags.tla, which keeps a path beside every parent edge and    *)
(* deletes by path prefix, is shown to implement this specification.       *)
(***************************************************************************)
EXTENDS Naturals

CONSTANTS Types,   \* ids of field types
          Values,  \* ids of field values
          Root     \* the parent of a top-level value, no member of Values

VARIABLE forest    \* [ids of the live values -> [ft : Types, parent : ...]]

Live == DOMAIN forest

Node == [ft : Types, parent : Values \cup {Root}]

(***************************************************************************)
(* The least set that holds S and the children of its members.             *)
(***************************************************************************)
Below(S) ==
  {v \in Live : \A T \in SUBSET Live :
     (/\ S \cap Live \subseteq T
      /\ \A c \in Live : forest[c].parent \in T => c \in T)
     => v \in T}

ForestType == \E D \in SUBSET Values : forest \in [D -> Node]

Init == forest = [v \in {} |-> [ft |-> v, parent |-> Root]]

\* A new value starts without children, beside or below a value of its type.
Grow(id, ft, parent) ==
  /\ id \notin Live
  /\ parent # Root => parent \in Live /\ forest[parent].ft = ft
  /\ forest' = [v \in Live \cup {id} |->
                  IF v = id THEN [ft |-> ft, parent |-> parent] ELSE forest[v]]

\* A value moves below a value of its type that is not below itself.
Graft(id, parent) ==
  /\ id \in Live
  /\ parent # Root => /\ parent \in Live \ Below({id})
                      /\ forest[parent].ft = forest[id].ft
  /\ forest' = [forest EXCEPT ![id].parent = parent]

Lose(S) == forest' = [v \in Live \ Below(S) |-> forest[v]]

\* A value leaves with its whole subtree, never with a part of it.
Prune(id) == id \in Live /\ Lose({id})

\* A field type leaves with all its values.
Clear(ft) == Lose({v \in Live : forest[v].ft = ft})

Next ==
  \/ \E id \in Values, ft \in Types, parent \in Values \cup {Root} :
       Grow(id, ft, parent)
  \/ \E id \in Values, parent \in Values \cup {Root} : Graft(id, parent)
  \/ \E id \in Values : Prune(id)
  \/ \E ft \in Types : Clear(ft)

Spec == Init /\ [][Next]_forest
=============================================================================
