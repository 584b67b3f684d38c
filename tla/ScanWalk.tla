------------------------------ MODULE ScanWalk ------------------------------
(***************************************************************************)
(* The walk of the scanner over one root (scanner/src/scan.rs): which      *)
(* entries are listed, under which path, and what keeps the walk finite    *)
(* when symbolic links lead back.                                          *)
(*                                                                         *)
(* scan_dir calls itself; its calls are the frames of a stack here.  Each  *)
(* directory is taken in any order: the code sorts by name, and the whole  *)
(* list again at the end.  The file system stands still during the walk,   *)
(* but any directory may turn out to be unreadable.  (ScanJobs has files   *)
(* that come and go and sees only which paths a scan reports.)             *)
(***************************************************************************)
EXTENDS Naturals, Sequences, SequencesExt

CONSTANTS
  N,               \* bound: entries 1 .. N of the file system
  Names,           \* [1 .. N -> sets of names]
  FollowSymlinks,
  MaxDepth,        \* the deepest directory that is read, the root having depth 0
  MaxLength,       \* the longest path, in components
  Links,           \* whether the file system has symbolic links
  Skippable        \* bound: entries one of which may be of a kind that is left out

Nodes == 1 .. N

AllNames  == UNION {Names[n] : n \in Nodes}
Component == UNION {Range(x.own) \cup Range(x.under) : x \in AllNames}

\* A name has components, at least as many below it as in its own path, since backslashes
\* become separators only there; without separators it is the same in both.
Settings ==
  /\ N \in Nat /\ MaxDepth \in Nat /\ MaxLength \in Nat
  /\ \A x \in AllNames :
       /\ x = [own |-> x.own, under |-> x.under]
       /\ x.own \in Seq(Component) /\ x.under \in Seq(Component)
       /\ 1 <= Len(x.own) /\ Len(x.own) <= Len(x.under)
       /\ Len(x.under) = 1 => x.own = x.under

Root == 0
Elsewhere == N + 1    \* a directory outside the root that a link may lead to
Broken == N + 2       \* where a link leads to nothing

VARIABLES
  parent,   \* the directory each entry is in
  kind,     \* "dir", "file" or "link"
  target,   \* what an entry is after links have been resolved: itself, for most
  name,     \* [own, under]: the components of the name in its path and in paths below it
  skip,     \* entries of a kind that is left out: hidden, reserved, no UTF-8, no metadata
  stack,    \* the calls of scan_dir
  visited,  \* directories that links have led to, while the walk is below them
  records,  \* [nodes, path, dir]; nodes, the entries on the way, is history
  failed    \* history: the ways to directories that could not be read

disk == <<parent, kind, target, name, skip>>
vars == <<disk, stack, visited, records, failed>>

IsDir(n) == n \in {Root, Elsewhere} \/ (n \in Nodes /\ kind[n] = "dir")
Children(d) == {n \in Nodes : parent[n] = d}

\* What is left when all links have been resolved.
Ends == {e \in Nodes : kind[e] # "link"} \cup {Root, Elsewhere, Broken}

IsDisk ==
  /\ \A n \in Nodes : IsDir(parent[n]) /\ target[n] \in Ends
  /\ \A m, n \in Nodes : m # n /\ parent[m] = parent[n] => name[m] # name[n]

Init ==
  /\ parent \in {p \in [Nodes -> Nodes \cup {Root, Elsewhere}] :
                   \A n \in Nodes : p[n] \notin n .. N}
  /\ kind \in [Nodes -> IF Links THEN {"dir", "file", "link"} ELSE {"dir", "file"}]
  /\ \E to \in [{n \in Nodes : kind[n] = "link"} -> Ends] :
       target = [n \in Nodes |-> IF kind[n] = "link" THEN to[n] ELSE n]
  /\ name \in {f \in [Nodes -> UNION {Names[n] : n \in Nodes}] : \A n \in Nodes : f[n] \in Names[n]}
  /\ skip \in {{}} \cup {{n} : n \in Skippable}
  /\ IsDisk
  /\ stack = <<[dir |-> Root, via |-> Root, nodes |-> <<>>, base |-> <<>>, todo |-> Children(Root)]>>
  /\ visited = {Root} /\ records = {} /\ failed = {}

-----------------------------------------------------------------------------
Top == Last(stack)

\* Mutant of Path: the directories above are left out.
LastPart(n) == name[n].own

\* build_relative_path: backslashes and full-width slashes in a name become
\* separators, the backslashes only in the names of directories above.
Path(n) == Top.base \o name[n].own

\* Links are listed only if they are followed and do not lead back.
Followed(n) ==
  kind[n] = "link" => FollowSymlinks /\ target[n] # Broken /\ target[n] \notin visited

Listed(n) == n \notin skip /\ Followed(n) /\ Len(Path(n)) <= MaxLength

Taken(rest) == Append(Front(stack), [Top EXCEPT !.todo = rest])

\* Mutant of Leave: directories stay visited when the walk has left them.
LeaveVisited ==
  /\ Top.todo = {}
  /\ stack' = Front(stack)
  /\ UNCHANGED <<disk, visited, records, failed>>

\* The end of a call of scan_dir.
Leave ==
  /\ Top.todo = {}
  /\ stack' = Front(stack)
  /\ visited' = IF Top.via = Root THEN visited ELSE visited \ {Top.via}
  /\ UNCHANGED <<disk, records, failed>>

\* An entry that is left out, with a warning or without.
Skip(n) ==
  /\ ~Listed(n)
  /\ stack' = Taken(Top.todo \ {n})
  /\ UNCHANGED <<disk, visited, records, failed>>

Record(n) ==
  records' = records \cup {[nodes |-> Append(Top.nodes, n), path |-> Path(n), dir |-> IsDir(target[n])]}

\* A file, or a directory that is too deep or cannot be read.
List(n) ==
  /\ Listed(n)
  /\ Record(n)
  /\ stack' = Taken(Top.todo \ {n})
  /\ \/ /\ ~IsDir(target[n]) \/ Len(stack) > MaxDepth
        /\ UNCHANGED failed
     \/ /\ IsDir(target[n]) /\ Len(stack) <= MaxDepth
        /\ failed' = failed \cup {Append(Top.nodes, n)}
  /\ UNCHANGED <<disk, visited>>

\* A directory, whose call comes before the rest of its siblings.
Enter(n) ==
  /\ Listed(n)
  /\ IsDir(target[n]) /\ Len(stack) <= MaxDepth
  /\ Record(n)
  /\ stack' = Append(Taken(Top.todo \ {n}),
                     [dir |-> target[n], via |-> IF kind[n] = "link" THEN target[n] ELSE Root,
                      nodes |-> Append(Top.nodes, n), base |-> Top.base \o name[n].under,
                      todo |-> Children(target[n])])
  /\ visited' = IF kind[n] = "link" THEN visited \cup {target[n]} ELSE visited
  /\ UNCHANGED <<disk, failed>>

Walk ==
  /\ stack # <<>>
  /\ Leave \/ \E n \in Top.todo : Skip(n) \/ List(n) \/ Enter(n)

Finished == stack = <<>> /\ UNCHANGED vars

Next == Walk \/ Finished

Spec == Init /\ [][Next]_vars

-----------------------------------------------------------------------------
(* What must hold *)

Way(n, p) == IF p = <<>> THEN parent[n] = Root ELSE parent[n] = target[Last(p)]

\* The ways a walk should take: down the directories and through links, none of which
\* leads to the root or a second time to a directory it has led to.
Reachable(p) ==
  /\ \A i \in 1 .. Len(p) :
       /\ Way(p[i], SubSeq(p, 1, i - 1))
       /\ p[i] \notin skip
       /\ kind[p[i]] = "link" =>
            /\ FollowSymlinks /\ target[p[i]] \notin {Root, Broken}
            /\ \A j \in 1 .. i - 1 : kind[p[j]] = "link" => target[p[j]] # target[p[i]]
       /\ i < Len(p) => SubSeq(p, 1, i) \notin failed
  /\ Len(p) <= MaxDepth + 1

Ways == UNION {[1 .. k -> Nodes] : k \in 1 .. MaxLength}
\* The length of a path as it is listed.
PathLength(p) == Len(FlattenSeq([i \in 1 .. Len(p) |-> IF i < Len(p) THEN name[p[i]].under
                                                       ELSE name[p[i]].own]))

\* In whatever order directories are read, the walk ends with every entry it can reach
\* on a way that takes no link twice, and with nothing else: links that lead back are
\* cut, and cut where they repeat, not before.
WalkIsReach ==
  stack = <<>> =>
    {r.nodes : r \in records} = {p \in Ways : Reachable(p) /\ PathLength(p) <= MaxLength}

\* A path stands for one entry; only names with separators in them can share one.
OnlySeparatorsCollide ==
  \A q, r \in records : q.path = r.path /\ q.nodes # r.nodes =>
    \E n \in Range(q.nodes) \cup Range(r.nodes) : Len(name[n].under) > 1
=============================================================================
