---------------------------- MODULE FileRequests ----------------------------
(***************************************************************************)
(* Requests about files: a listing joins the live directory with the rows  *)
(* it knows, the page sends back the id it was shown, and the handler      *)
(* loads the row, checks it and acts by id (server/internal/api/           *)
(* handlers_files.go, handlers_storage.go, handlers_preview.go,            *)
(* catalog/catalog.go, audit/audit.go, web/src/pages/BrowserPage.tsx).     *)
(*                                                                         *)
(* Every statement is a step of its own.  Ids of deleted rows are given    *)
(* out again, so a storage also carries its birth, a number the program    *)
(* does not have.  What permissions decide is in Permissions, what tags    *)
(* are applied in Tags.                                                    *)
(***************************************************************************)
EXTENDS Naturals, FiniteSets, FiniteSetsExt, TLC

CONSTANTS
  Calls,       \* bound: requests in flight
  Roots,       \* directories a storage may have as its root
  Paths, Images,   \* paths below a root; Images are those of image files
  MaxIds,      \* bound: ids of files
  MaxBirths,   \* bound: storages ever made
  MaxDeletes,  \* bound: storages ever deleted
  MaxWrites,   \* bound: audited operations
  MaxRoots     \* bound: changes of a root

NoCall  == [phase |-> "none"]
NoFile == [id |-> 0]
Births  == 1 .. MaxBirths

VARIABLES
  storages,  \* id |-> [root, birth]
  files,     \* id |-> [storage, birth, path, thumb]; thumb: of what kind thumbnail_path is
  cache,     \* <<storage id, file id>> |-> <<root, path>> of the image the thumbnail shows
  shown,     \* the entry the page has open: [storage, birth, path, id], or NoFile
  calls,     \* requests in flight
  births, deletes, roots,   \* counters for the bounds
  done,      \* number of operations that are to be audited
  logged,    \* number of rows of audit_log
  hits,      \* history: <<file meant, file written>> of every write by id or path
  served     \* history: <<file meant, image>> of every thumbnail served

vars == <<storages, files, cache, shown, calls, births, deletes, roots, done, logged, hits, served>>
counters == <<births, deletes, roots>>
history  == <<hits, served>>
audit    == <<done, logged>>

NextId(table) == 1 + Max(DOMAIN table \cup {0})
Without(f, S) == [x \in DOMAIN f \ S |-> f[x]]
With(f, x, v) == [y \in DOMAIN f \cup {x} |-> IF y = x THEN v ELSE f[y]]
\* Mutant of RowsOf: rows of the path in any storage.
RowsOfPath(s, path) == {i \in DOMAIN files : files[i].path = path}

RowsOf(s, path) == {i \in DOMAIN files : files[i].storage = s /\ files[i].path = path}
Name(row) == <<row.birth, row.path>>
Become(c, call) == calls' = [calls EXCEPT ![c] = call]

Init ==
  /\ \E r \in Roots : storages = [s \in {1} |-> [root |-> r, birth |-> 1]]
  /\ files = [i \in {} |-> NoFile] /\ cache = [k \in {} |-> NoFile]
  /\ shown = NoFile /\ calls = [c \in Calls |-> NoCall]
  /\ births = 1 /\ deletes = 0 /\ roots = 0
  /\ done = 0 /\ logged = 0
  /\ hits = {} /\ served = {}

-----------------------------------------------------------------------------
(* Storages *)

CreateStorage(c, root) ==
  /\ calls[c] = NoCall
  /\ births < MaxBirths /\ births' = births + 1      \* bound
  /\ storages' = With(storages, NextId(storages), [root |-> root, birth |-> births + 1])
  /\ UNCHANGED <<files, cache, shown, calls, deletes, roots, audit, history>>

\* The files go with it (ON DELETE CASCADE), the thumbnails in the data directory do not.
DeleteStorage(c, s) ==
  /\ calls[c] = NoCall
  /\ s \in DOMAIN storages
  /\ deletes < MaxDeletes /\ deletes' = deletes + 1  \* bound
  /\ done < MaxWrites /\ done' = done + 1            \* bound
  /\ storages' = Without(storages, {s})
  /\ files' = Without(files, {i \in DOMAIN files : files[i].storage = s})
  /\ Become(c, [phase |-> "written"])
  /\ UNCHANGED <<cache, shown, births, roots, logged, history>>

SetRoot(s, root) == storages' = [storages EXCEPT ![s].root = root]

\* handleStorageRoot: one UPDATE of the root.
UpdateStorageRoot(c, s, root) ==
  /\ calls[c] = NoCall
  /\ s \in DOMAIN storages
  /\ roots < MaxRoots /\ roots' = roots + 1          \* bound
  /\ SetRoot(s, root)
  /\ UNCHANGED <<files, cache, shown, calls, births, deletes, audit, history>>

\* handleUpdateStorage: the row is read on the read pool ...
BeginUpdateStorage(c, s) ==
  /\ calls[c] = NoCall
  /\ s \in DOMAIN storages
  /\ Become(c, [phase |-> "updating", storage |-> s, root |-> storages[s].root])
  /\ UNCHANGED <<storages, files, cache, shown, counters, audit, history>>

\* ... and both columns are written: a root the request does not name is the one that
\* was read.
UpdateStorage(c) ==
  /\ calls[c].phase = "updating"
  /\ LET s == calls[c].storage
     IN  \/ /\ s \in DOMAIN storages
            /\ SetRoot(s, calls[c].root)
            /\ UNCHANGED roots
         \/ /\ s \in DOMAIN storages
            /\ roots < MaxRoots /\ roots' = roots + 1             \* bound
            /\ \E r \in Roots : SetRoot(s, r)
         \/ s \notin DOMAIN storages /\ UNCHANGED <<storages, roots>>
  /\ Become(c, NoCall)
  /\ UNCHANGED <<files, cache, shown, births, deletes, audit, history>>

-----------------------------------------------------------------------------
(* Listings *)

\* ListChildren, up to the live directory: any of its entries may be the one that the
\* user is going to open.
ListDir(c, s, path) ==
  /\ calls[c] = NoCall
  /\ s \in DOMAIN storages
  /\ Become(c, [phase |-> "listed", storage |-> s, birth |-> storages[s].birth, path |-> path])
  /\ UNCHANGED <<storages, files, cache, shown, counters, audit, history>>

\* filesByPaths: an entry with a row is shown with its id, one without with null (0).
JoinRows(c) ==
  /\ calls[c].phase = "listed"
  /\ LET s == calls[c].storage  path == calls[c].path
     IN  shown' = [storage |-> s, birth |-> calls[c].birth, path |-> path,
                   id |-> IF RowsOf(s, path) = {} THEN 0 ELSE CHOOSE i \in RowsOf(s, path) : TRUE]
  /\ Become(c, NoCall)
  /\ UNCHANGED <<storages, files, cache, counters, audit, history>>

-----------------------------------------------------------------------------
(* Requests by id or by path *)

\* fileForAction: the row is loaded and the right to act on its path checked.
FileForAction(c, act) ==
  /\ calls[c] = NoCall
  /\ shown # NoFile /\ shown.id \in DOMAIN files
  /\ Become(c, [phase |-> act, want |-> <<shown.birth, shown.path>>,
                id |-> shown.id, row |-> files[shown.id]])
  /\ UNCHANGED <<storages, files, cache, shown, counters, audit, history>>

Hit(c, name) == hits' = hits \cup {<<calls[c].want, name>>}
Perform == done < MaxWrites /\ done' = done + 1      \* bound

\* Mutant of WriteField: the error of an application is not looked at.
WriteFieldAnyway(c) ==
  /\ calls[c].phase \in {"apply", "remove"}
  /\ \/ /\ calls[c].id \in DOMAIN files
        /\ Perform /\ Hit(c, Name(files[calls[c].id]))
     \/ /\ calls[c].id \notin DOMAIN files
        /\ UNCHANGED <<done, hits>>
  /\ Become(c, [phase |-> "written"])
  /\ UNCHANGED <<storages, files, cache, shown, counters, logged, served>>

\* handleApplyField, handleRemoveField, up to the log.  Of a row that has gone a value
\* is removed with success and applied with an error.
WriteField(c) ==
  /\ calls[c].phase \in {"apply", "remove"}
  /\ \/ /\ calls[c].id \in DOMAIN files
        /\ Perform /\ Hit(c, Name(files[calls[c].id]))
        /\ Become(c, [phase |-> "written"])
     \/ /\ calls[c].id \notin DOMAIN files /\ calls[c].phase = "remove"
        /\ Perform /\ UNCHANGED hits
        /\ Become(c, [phase |-> "written"])
     \/ /\ calls[c].id \notin DOMAIN files /\ calls[c].phase = "apply"
        /\ Become(c, NoCall)
        /\ UNCHANGED <<done, hits>>
  /\ UNCHANGED <<storages, files, cache, shown, counters, logged, served>>

\* handleSetThumbnail: the path a user gives.
SetThumbnail(c) ==
  /\ calls[c].phase = "thumbnail"
  /\ \/ /\ calls[c].id \in DOMAIN files
        /\ files' = [files EXCEPT ![calls[c].id].thumb = "manual"]
        /\ Hit(c, Name(files[calls[c].id]))
     \/ calls[c].id \notin DOMAIN files /\ UNCHANGED <<files, hits>>
  /\ Become(c, NoCall)
  /\ UNCHANGED <<storages, cache, shown, counters, audit, served>>

\* handleTagByPath, up to the stat of the path below the root that was read: the page
\* sends an entry without an id this way.
StatPath(c) ==
  /\ calls[c] = NoCall
  /\ shown # NoFile /\ shown.id = 0 /\ shown.storage \in DOMAIN storages
  /\ Become(c, [phase |-> "stat", want |-> <<shown.birth, shown.path>>,
                storage |-> shown.storage, path |-> shown.path])
  /\ UNCHANGED <<storages, files, cache, shown, counters, audit, history>>

\* INSERT ... ON CONFLICT DO NOTHING.
Materialize(s, path) ==
  \/ RowsOf(s, path) # {} /\ UNCHANGED files
  \/ /\ RowsOf(s, path) = {}
     /\ NextId(files) <= MaxIds                      \* bound
     /\ files' = With(files, NextId(files), [storage |-> s, birth |-> storages[s].birth,
                                             path |-> path, thumb |-> "none"])

\* ApplyByPath: the row and the tag in one transaction, which a storage that has gone
\* makes fail.
ApplyByPath(c) ==
  /\ calls[c].phase = "stat"
  /\ LET s == calls[c].storage  path == calls[c].path
     IN  \/ /\ s \in DOMAIN storages
            /\ Materialize(s, path) /\ Perform
            /\ Hit(c, <<storages[s].birth, path>>)
            /\ Become(c, [phase |-> "written"])
         \/ /\ s \notin DOMAIN storages /\ Become(c, NoCall)
            /\ UNCHANGED <<files, done, hits>>
  /\ UNCHANGED <<storages, cache, shown, counters, logged, served>>

\* audit.Log, the last statement of the request.
Log(c) ==
  /\ calls[c].phase = "written"
  /\ logged' = logged + 1
  /\ Become(c, NoCall)
  /\ UNCHANGED <<storages, files, cache, shown, counters, done, history>>

-----------------------------------------------------------------------------
(* Thumbnails *)

Serve(c, image) == served' = served \cup {<<calls[c].want, image>>}

\* Mutant of Key: one thumbnail for each storage.
KeyOfStorage(call) == <<call.row.storage, 0>>

Key(call) == <<call.row.storage, call.id>>

\* The cached file, named by the two ids, is served whatever the file now is.
ServeCached(c) ==
  /\ calls[c].phase = "show" /\ Key(calls[c]) \in DOMAIN cache
  /\ Serve(c, cache[Key(calls[c])])
  /\ Become(c, NoCall)
  /\ UNCHANGED <<storages, files, cache, shown, counters, audit, hits>>

\* Otherwise an image is read below the root as it now is and scaled.
Generate(c) ==
  /\ calls[c].phase = "show" /\ Key(calls[c]) \notin DOMAIN cache
  /\ LET s == calls[c].row.storage  path == calls[c].row.path
     IN  \/ /\ path \in Images /\ s \in DOMAIN storages
            /\ Become(c, [phase |-> "made", want |-> calls[c].want, id |-> calls[c].id,
                          row |-> calls[c].row, image |-> <<storages[s].root, path>>])
         \/ /\ path \notin Images \/ s \notin DOMAIN storages
            /\ Become(c, NoCall)
  /\ UNCHANGED <<storages, files, cache, shown, counters, audit, history>>

\* The thumbnail file, then the row's thumbnail_path, if there still is a row.
StoreThumbnail(c) ==
  /\ calls[c].phase = "made"
  /\ cache' = With(cache, Key(calls[c]), calls[c].image)
  /\ calls' = [calls EXCEPT ![c].phase = "stored"]
  /\ UNCHANGED <<storages, files, shown, counters, audit, history>>

RecordThumbnail(c) ==
  /\ calls[c].phase = "stored"
  /\ files' = IF calls[c].id \in DOMAIN files
              THEN [files EXCEPT ![calls[c].id].thumb = "cache"] ELSE files
  /\ Serve(c, calls[c].image)
  /\ Become(c, NoCall)
  /\ UNCHANGED <<storages, cache, shown, counters, audit, hits>>

\* The server ends between two statements; the database and the data directory stay.
Crash ==
  /\ \E c \in Calls : calls[c] # NoCall
  /\ calls' = [c \in Calls |-> NoCall]
  /\ UNCHANGED <<storages, files, cache, shown, counters, audit, history>>

Acts == {"apply", "remove", "thumbnail", "show"}

Next ==
  \/ \E c \in Calls :
       \/ \E r \in Roots : CreateStorage(c, r)
       \/ \E s \in DOMAIN storages :
            \/ DeleteStorage(c, s) \/ BeginUpdateStorage(c, s)
            \/ \E r \in Roots : UpdateStorageRoot(c, s, r)
            \/ \E p \in Paths : ListDir(c, s, p)
       \/ UpdateStorage(c) \/ JoinRows(c)
       \/ \E act \in Acts : FileForAction(c, act)
       \/ WriteField(c) \/ SetThumbnail(c) \/ StatPath(c) \/ ApplyByPath(c) \/ Log(c)
       \/ ServeCached(c) \/ Generate(c) \/ StoreThumbnail(c) \/ RecordThumbnail(c)
  \/ Crash

Spec == Init /\ [][Next]_vars

-----------------------------------------------------------------------------
(* What must hold *)

\* Type invariant of the tables: files belong to live storages, one row for each path.
TypeOK ==
  /\ \A s \in DOMAIN storages : storages[s] \in [root : Roots, birth : Births]
  /\ \A i \in DOMAIN files : files[i].storage \in DOMAIN storages /\ files[i].path \in Paths
                             /\ RowsOf(files[i].storage, files[i].path) = {i}
  /\ \A k \in DOMAIN cache : cache[k] \in Roots \X Images

\* A write reaches the file of the entry the page showed, not another one that has
\* taken over its id or its storage's id.
WritesReachShown == \A h \in hits : h[1] = h[2]

\* The thumbnail served for a file was made from the file of that path: not from one whose
\* ids it has taken over.  Its root and its content are not compared.
ThumbnailIsOwn == \A t \in served : t[2][2] = t[1][2]

\* Nothing is logged that has not been done.
AuditIsTrue == logged <= done
==============================================================================
