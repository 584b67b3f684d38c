------------------------------ MODULE MCScanJobs ------------------------------
(***************************************************************************)
(* Scans for TLC: ScanJobs with two storages and two scans, and, as parts  *)
(* of the same run, the walk of the scanner (ScanWalk).  One of the parts  *)
(* is chosen at the start, the others stand still.                         *)
(*   jobs   cancellations, deletions with reuse of ids, crashes of the     *)
(*          scanner, restarts of the server;                               *)
(*   loops  a walk over every file system of four entries, with links;     *)
(*   names  a walk over entries whose names hold separators, links not     *)
(*          followed.                                                      *)
(***************************************************************************)
EXTENDS ScanJobs

CONSTANTS r1, r2

VARIABLES part, parent, kind, target, name, skip, stack, visited, records, failed

walk == <<parent, kind, target, name, skip, stack, visited, records, failed>>

Plain(x) == [own |-> <<x>>, under |-> <<x>>]
Wide == [own |-> <<1, 2>>, under |-> <<1, 2>>]        \* with a full-width slash
Backslash == [own |-> <<3>>, under |-> <<1, 2>>]

Loops == INSTANCE ScanWalk
           WITH N <- 4, Names <- [n \in 1 .. 4 |-> {Plain(n)}], FollowSymlinks <- TRUE,
                MaxDepth <- 3, MaxLength <- 4, Links <- TRUE, Skippable <- {}

WalkNames == INSTANCE ScanWalk
               WITH N <- 3, Names <- <<{Plain(1), Backslash}, {Plain(2), Wide},
                                       {Plain(2), Wide, Backslash}>>,
                    FollowSymlinks <- FALSE, MaxDepth <- 1, MaxLength <- 3, Links <- TRUE,
                    Skippable <- {1}

\* A walk that stands still.
NoWalk ==
  /\ parent = <<>> /\ kind = <<>> /\ target = <<>> /\ name = <<>> /\ skip = {}
  /\ stack = <<0>> /\ visited = {} /\ records = {} /\ failed = {}

PartInit ==
  /\ Init
  /\ \/ part = "jobs" /\ NoWalk
     \/ part = "loops" /\ Loops!Init
     \/ part = "names" /\ WalkNames!Init

PartNext ==
  /\ UNCHANGED part
  /\ \/ part = "jobs" /\ Next /\ UNCHANGED walk
     \/ part = "loops" /\ Loops!Next /\ UNCHANGED vars
     \/ part = "names" /\ WalkNames!Next /\ UNCHANGED vars

PartSpec == PartInit /\ [][PartNext]_<<part, vars, walk>>

-----------------------------------------------------------------------------
(* The property of ScanWalk; those of ScanJobs come with it *)

\* The walk lists what it can reach without taking a link twice, and nothing else.
WalkIsReach ==
  /\ part = "loops" => Loops!WalkIsReach
  /\ part = "names" => WalkNames!WalkIsReach

\* Two entries have one path only if a name on the way holds a separator.
OnlySeparatorsCollide ==
  /\ part = "loops" => Loops!OnlySeparatorsCollide
  /\ part = "names" => WalkNames!OnlySeparatorsCollide

\* For TLC: the slots of scans are interchangeable.
Interchangeable == Permutations({r1, r2})
===============================================================================
