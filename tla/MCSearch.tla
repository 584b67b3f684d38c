------------------------------- MODULE MCSearch -------------------------------
(***************************************************************************)
(* What readers see, for TLC: the index of names under its triggers        *)
(* (FtsIndex) and, as parts of the same run, a search by filters           *)
(* (SearchPages) and the tags shown for a file (EffectiveFields).  One of  *)
(* the parts is chosen at the start, the others stand still.               *)
(*   index   three values and three aliases with two names;                *)
(*   search  searches of up to three pages over three files;               *)
(*   fields  a directory and a file two levels down in it, with no row for *)
(*           the directory between them, and a directory of the first      *)
(*           one's name in another storage; two types, two values.         *)
(***************************************************************************)
EXTENDS FtsIndex

CONSTANTS
  dir, file, other,   \* of the tags shown
  Values, MaxFiles, Limit, MaxPages, Fuzzy, Strict, MaxMoves, MaxChanges  \* of searches

ASSUME PagesAssumption == MaxFiles \in Nat /\ Limit \in Nat \ {0}

VARIABLES
  part,
  parent, tags, request, filters, query, results, cursor, pages, stable, ever, moves, changes,
  types, values, files, fields, deleting

search ==
  <<parent, tags, request, filters, query, results, cursor, pages, stable, ever, moves, changes>>
tagTables == <<types, values, files, fields, deleting>>

Search == INSTANCE SearchPages

PathOfFile ==
  [f \in {dir, file, other} |->
     CASE f = dir   -> [storage |-> 1, segs |-> <<"A">>, dir |-> TRUE]
       [] f = file  -> [storage |-> 1, segs |-> <<"A", "B", "x">>, dir |-> FALSE]
       [] f = other -> [storage |-> 2, segs |-> <<"A">>, dir |-> TRUE]]

Fields == INSTANCE EffectiveFields
            WITH Files <- {dir, file, other}, Path <- PathOfFile,
                 Storages <- {{dir, file}, {other}}, Requests <- {}, MaxType <- 2, MaxValue <- 2

PartInit ==
  /\ part \in {"index", "search", "fields"}
  /\ Init /\ Fields!Init
  /\ Search!Init /\ (part # "search" => DOMAIN tags = {})

PartNext ==
  /\ UNCHANGED part
  /\ \/ part = "index" /\ Next /\ UNCHANGED <<search, tagTables>>
     \/ part = "search" /\ Search!Next /\ UNCHANGED <<vars, tagTables>>
     \/ part = "fields" /\ Fields!OneByOne /\ UNCHANGED <<vars, search>>

PartSpec == PartInit /\ [][PartNext]_<<part, vars, search, tagTables>>

-----------------------------------------------------------------------------
(* The properties of SearchPages and EffectiveFields; those of FtsIndex come with it *)

\* A search read to its end lists every file that matched all the time what was asked for.
Complete == Search!Complete

\* No file is listed that at no time of the search matched what was asked for.
OnlyHits == Search!OnlyHits

\* A path shows the nearest values, each with the labels of the chain above it.
NearestWins == part = "fields" => Fields!NearestWins
===============================================================================
