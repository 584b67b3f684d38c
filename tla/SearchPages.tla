----------------------------- MODULE SearchPages -----------------------------
(***************************************************************************)
(* A tag search from the search page to its last result: the server        *)
(* expands every filter in statements of its own, reads one page by keyset *)
(* and answers a cursor (server/internal/search/search.go,                 *)
(* api/handlers_search.go); the page appends what it gets                  *)
(* (web/src/pages/SearchPage.tsx).  Meanwhile others move values, tag      *)
(* files, and remove and add files, and the user edits the filters, which  *)
(* does not touch the results: the next page is asked for with the filters *)
(* as they stand and the cursor of the last one.  The storage a search may *)
(* be limited to, sent and edited like the filters, is left out: it is one *)
(* more condition on a file.                                               *)
(*                                                                         *)
(* All values are of one field type; Tags shows that their paths always    *)
(* follow the parents, so a path is read off the parents here.             *)
(***************************************************************************)
EXTENDS Integers, Sequences, FiniteSets, SequencesExt

CONSTANTS
  Values,     \* ids of field values
  MaxFiles,   \* bound: file ids
  Limit,      \* files on a page
  MaxPages,   \* bound: pages asked for in one search
  Fuzzy, Strict,   \* values the user filters by, with and without those below them
  MaxMoves,   \* bound: moves of values
  MaxChanges  \* bound: changes of files and their tags

Root == 0
Null == -1                 \* the page's cursor before the first answer
Files == 1 .. MaxFiles
Filters == [value : Fuzzy, strict : {FALSE}] \cup [value : Strict, strict : {TRUE}]
\* Bound: one filter, or two of different values.
Queries ==
  {<<f>> : f \in Filters} \cup {q \in Filters \X Filters : q[1].value < q[2].value}

VARIABLES
  parent,   \* value |-> parent value or Root
  tags,     \* the live files: id |-> values applied to it (file_fields)
  request,  \* the search in flight, or [phase |-> "none"]
  filters,  \* the page: the filters as the user has set them
  query,    \* history: the filters the last page was asked with
  results,  \* the page: file ids listed
  cursor,   \* the page: next_cursor of the last answer
  pages,    \* number of pages asked for in this search
  stable,   \* history: files that have matched the query ever since the search began; none,
            \* if values are moved under a search with a fuzzy filter
  ever,     \* history: files that have matched the query at some time since then; all of
            \* them, if values are moved under a search with a fuzzy filter
  moves, changes

vars ==
  <<parent, tags, request, filters, query, results, cursor, pages, stable, ever, moves, changes>>
page == <<filters, query, results, cursor, pages>>

NoRequest == [phase |-> "none"]

-----------------------------------------------------------------------------
(* What a filter asks for *)

\* The materialized path of a value: its ancestors from the root, itself last.
Path(v) ==
  LET up[w \in Values] == IF parent[w] = Root THEN <<w>> ELSE Append(up[parent[w]], w)
  IN  up[v]

Under(prefix) == {v \in Values : IsPrefix(prefix, Path(v))}
Wanted(filter) == IF filter.strict THEN {filter.value} ELSE Under(Path(filter.value))
Carries(f, values) == tags[f] \cap values # {}
Matching(q) == {f \in DOMAIN tags : \A i \in DOMAIN q : Carries(f, Wanted(q[i]))}

\* Others' steps, and the two histories of the running search.
\* A disturbed file is not asked about: it is not stable, and may be listed.
Watch(disturbed) ==
  /\ stable' = (stable \cap Matching(query)') \ disturbed
  /\ ever' = ever \cup Matching(query)' \cup disturbed

Init ==
  /\ parent = [v \in Values |-> Root]
  /\ \E live \in SUBSET Files : tags \in [live -> SUBSET Values]
  /\ request = NoRequest
  /\ filters = <<>> /\ query = <<>> /\ results = <<>> /\ cursor = Null /\ pages = 0
  /\ stable = {} /\ ever = {}
  /\ moves = 0 /\ changes = 0

-----------------------------------------------------------------------------
(* Others *)

MoveValue(v, p) ==
  /\ moves < MaxMoves /\ moves' = moves + 1          \* bound
  /\ p # parent[v] /\ p \notin Under(Path(v))
  /\ parent' = [parent EXCEPT ![v] = p]
  /\ UNCHANGED <<tags, request, page, changes>>
  /\ Watch(IF \E i \in DOMAIN query : ~query[i].strict THEN Files ELSE {})

Change ==
  /\ changes < MaxChanges /\ changes' = changes + 1  \* bound
  /\ UNCHANGED <<parent, request, page, moves>>
  /\ Watch({})

\* Values are applied or removed.
TagFile(f, values) ==
  /\ f \in DOMAIN tags /\ tags[f] # values
  /\ tags' = [tags EXCEPT ![f] = values]
  /\ Change

DeleteFile(f) ==
  /\ f \in DOMAIN tags
  /\ tags' = [g \in DOMAIN tags \ {f} |-> tags[g]]
  /\ Change

\* The new file gets the id after the last one in use.
AddFile ==
  LET f == 1 + Max(DOMAIN tags \cup {0})
  IN
    /\ f \in Files                                   \* bound
    /\ tags' = [g \in DOMAIN tags \cup {f} |-> IF g = f THEN {} ELSE tags[g]]
    /\ Change

-----------------------------------------------------------------------------
(* The search page *)

Send(q, from, append) ==
  request' = [phase |-> "expand", todo |-> q, sets |-> <<>>, cursor |-> from, append |-> append]

\* The filter bar: filters are added, removed and toggled at any time.  Results, cursor and
\* a request in flight stay as they are.
EditFilters(q) ==
  /\ q # filters /\ filters' = q
  /\ UNCHANGED <<parent, tags, request, query, results, cursor, pages, stable, ever, moves, changes>>

\* handleSearch: a new search of the filters as they stand.
Search ==
  /\ request = NoRequest /\ filters # <<>>
  /\ query' = filters /\ results' = <<>> /\ cursor' = Null /\ pages' = 1
  /\ Send(filters, 0, FALSE)
  /\ stable' = Matching(filters) /\ ever' = Matching(filters)
  /\ UNCHANGED <<parent, tags, filters, moves, changes>>

\* The button under the results, shown while the cursor is not null: the filters as they
\* stand now, which need not be those the results came from, after the last page's cursor.
LoadMore ==
  /\ request = NoRequest /\ filters # <<>>
  /\ results # <<>> /\ cursor # Null
  /\ pages < MaxPages /\ pages' = pages + 1          \* bound
  /\ query' = filters
  /\ Send(filters, cursor, TRUE)
  /\ stable' = stable \cap Matching(filters) /\ ever' = ever \cup Matching(filters)
  /\ UNCHANGED <<parent, tags, filters, results, cursor, moves, changes>>

\* runSearch: the page is put behind the earlier ones, the cursor is kept as it came.
Answer(hits, next) ==
  /\ results' = IF request.append THEN results \o hits ELSE hits
  /\ cursor' = next
  /\ request' = NoRequest

-----------------------------------------------------------------------------
(* The server *)

Expanded(ids) ==
  request' = [phase |-> "expand", todo |-> Tail(request.todo), sets |-> Append(request.sets, ids),
              cursor |-> request.cursor, append |-> request.append]

\* valueIDs of the next filter: a strict one is its id, a fuzzy one reads its path ...
ReadPath ==
  /\ request.phase = "expand" /\ request.todo # <<>>
  /\ IF Head(request.todo).strict
     THEN Expanded({Head(request.todo).value})
     ELSE request' = [phase |-> "below", todo |-> request.todo, sets |-> request.sets,
                      cursor |-> request.cursor, append |-> request.append,
                      path |-> Path(Head(request.todo).value)]
  /\ UNCHANGED <<parent, tags, page, stable, ever, moves, changes>>

\* ... and then the values under that path; with none the answer is empty.
ReadBelow ==
  /\ request.phase = "below"
  /\ IF Under(request.path) = {} THEN Answer(<<>>, 0)
     ELSE /\ Expanded(Under(request.path))
          /\ UNCHANGED <<results, cursor>>
  /\ UNCHANGED <<parent, tags, filters, query, pages, stable, ever, moves, changes>>

\* The files that carry a value of every set, after the cursor.
Rows == {f \in DOMAIN tags : f > request.cursor /\ \A i \in DOMAIN request.sets :
                               Carries(f, request.sets[i])}
\* ORDER BY f.id.
Sorted(S) ==
  LET n == Cardinality(S)
  IN  CHOOSE s \in [1 .. n -> S] : \A i, j \in 1 .. n : i < j => s[i] < s[j]

\* Mutant of NextCursor: the cursor is the row that told there is more.
NextCursorAfter(rows) == rows[Limit + 1]

NextCursor(rows) == rows[Limit]

\* Mutant of Query: the sets are united instead of intersected.
QueryAny ==
  /\ request.phase = "expand" /\ request.todo = <<>>
  /\ LET rows == Sorted({f \in DOMAIN tags : f > request.cursor /\ \E i \in DOMAIN request.sets :
                                               Carries(f, request.sets[i])})
     IN  IF Len(rows) > Limit THEN Answer(SubSeq(rows, 1, Limit), rows[Limit])
         ELSE Answer(rows, 0)
  /\ UNCHANGED <<parent, tags, filters, query, pages, stable, ever, moves, changes>>

\* One statement reads a row more than the page holds.
Query ==
  /\ request.phase = "expand" /\ request.todo = <<>>
  /\ LET rows == Sorted(Rows)
     IN  IF Len(rows) > Limit THEN Answer(SubSeq(rows, 1, Limit), NextCursor(rows))
         ELSE Answer(rows, 0)
  /\ UNCHANGED <<parent, tags, filters, query, pages, stable, ever, moves, changes>>

\* A statement fails, or the value of a fuzzy filter is gone: the page keeps what it has.
ServerError ==
  /\ request # NoRequest /\ request' = NoRequest
  /\ UNCHANGED <<parent, tags, page, stable, ever, moves, changes>>

Next ==
  \/ \E v \in Values, p \in Values \cup {Root} : MoveValue(v, p)
  \/ \E f \in Files : (\E values \in SUBSET Values : TagFile(f, values)) \/ DeleteFile(f)
  \/ AddFile
  \/ \E q \in Queries \cup {<<>>} : EditFilters(q)
  \/ Search \/ LoadMore \/ ReadPath \/ ReadBelow \/ Query \/ ServerError

Spec == Init /\ [][Next]_vars

-----------------------------------------------------------------------------
(* What must hold *)

\* Type invariant of the vocabulary, which is a forest, the files and the page.
TypeOK ==
  /\ parent \in [Values -> Values \cup {Root}]
  /\ \A v \in Values : parent[Head(Path(v))] = Root
  /\ DOMAIN tags \subseteq Files /\ tags \in [DOMAIN tags -> SUBSET Values]
  /\ {filters, query} \subseteq Queries \cup {<<>>}
  /\ results \in Seq(Files) /\ cursor \in Files \cup {0, Null}

\* A search that has been read to its end lists every file that matched all the time,
\* however the others' changes fell between its pages and statements.  To match is to carry
\* what the filters of the last page asked for ask for: with filters edited between the
\* pages, the earlier ones until the next page is asked for, the edited ones from then on.
\* Moves of values are the exception if a filter is fuzzy: path, subtree and files are read
\* in statements of their own.
Complete ==
  request = NoRequest /\ cursor = 0 => stable \subseteq Range(results)

\* No file is listed that at no time of the search carried what every filter of a page
\* asked for asks for, with the same exception: a value that has left the subtree of a
\* filter counts until the files are read, also for a file that only gets it then.
OnlyHits == Range(results) \subseteq ever
==============================================================================
