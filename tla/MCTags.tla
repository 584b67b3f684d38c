-------------------------------- MODULE MCTags --------------------------------
(***************************************************************************)
(* Tags for TLC: its behaviours with three values of two types, two files  *)
(* and two deletions in flight are too many for one run, so it checks two  *)
(* parts of them, of which one is chosen at the start.                     *)
(*   forest  all three values and both deletions, but no file gets a row;  *)
(*   rows    both files and every way to apply values, but never more than *)
(*           two values and one deletion in flight.                        *)
(* The properties are those of Tags.                                       *)
(***************************************************************************)
EXTENDS Tags

CONSTANTS q1, q2, f1, f2

VARIABLE part

InFlight == {q \in Requests : deleting[q] # NoRequest}

PartInit == part \in {"forest", "rows"} /\ Init

PartNext ==
  /\ Next
  /\ UNCHANGED part
  /\ part = "forest" => files' = {}
  /\ part = "rows" => Live' \subseteq {1, 2} /\ Cardinality(InFlight') <= 1

PartSpec == PartInit /\ [][PartNext]_<<part, vars>>

\* For TLC: slots of requests are interchangeable, and files that lie in like storages.
Interchangeable == Permutations({q1, q2}) \cup Permutations({f1, f2})
===============================================================================
