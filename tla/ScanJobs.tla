------------------------------ MODULE ScanJobs ------------------------------
(***************************************************************************)
(* Background scans: the JobManager, the goroutine that runs RunScanner    *)
(* and Ingest, the scanner process behind a pipe, and the one write        *)
(* connection they share with every other writer of the server             *)
(* (server/internal/ingest, scanner/src/scan.rs).                          *)
(*                                                                         *)
(* Ingest holds the write connection from BeginTx on, so also while the    *)
(* scanner still walks the tree and has written nothing.  The other        *)
(* writers are one transaction each and need the connection free.          *)
(*                                                                         *)
(* Row states: path_status and last_scanned together, the latter compared  *)
(* with the scanStart of the storage's latest scan.                        *)
(*   "none"       no row                                                   *)
(*   "untouched"  'ok', last_scanned NULL: made by tagging, never scanned  *)
(*   "current"    'ok', stamped by the latest scan                         *)
(*   "stale"      'ok', stamped by an earlier scan                         *)
(*   "missing"    'missing'                                                *)
(* Timestamps of two scans of a storage are taken to compare in order, and *)
(* the scans the server starts have the empty path prefix.                 *)
(***************************************************************************)
EXTENDS Naturals, FiniteSets, FiniteSetsExt, TLC

CONSTANTS
  NStorages,      \* bound: ids of storage_providers are 1..NStorages
  Runs,           \* bound: slots of scan requests and scan goroutines
  Roots,          \* directories a storage can point at
  NPaths,         \* bound: the paths below a root are 1..NPaths, sorted
  Volatile,       \* paths that come and go on disk; the others always exist
  Unreadable,     \* paths a walk may fail to read
  Taggable,       \* paths others make rows of
  ScannerCrashes, \* can the scanner die on its own?
  StatementsFail, \* can a statement of Ingest fail although its rows are in order?
  Deletable,      \* storages an administrator may delete
  PipeCap,        \* records the pipe holds
  BatchSize       \* records per transaction
CONSTANTS None, Free   \* no value, and nobody

ASSUME NobodyAssumption == None \notin Runs /\ Free \notin Runs

ASSUME PathsAssumption == Volatile \cup Taggable \subseteq 1 .. NPaths

ASSUME SizesAssumption ==
  NStorages \in Nat /\ NPaths \in Nat /\ PipeCap \in Nat \ {0} /\ BatchSize \in Nat \ {0}

Storages == 1 .. NStorages
Paths == 1 .. NPaths
Torn  == NPaths + 1        \* a line cut short by the death of the scanner

NoJob == [state |-> "none", run |-> None]
NoRun == [pc |-> "idle", storage |-> None, root |-> None,
          cancelled |-> FALSE, failed |-> FALSE, proc |-> "none",
          todo |-> {}, pipe |-> {}, batch |-> {},
          saved |-> {}, always |-> {}, ever |-> {}]

VARIABLES
  jobs,    \* JobManager.jobs
  run,     \* per slot: the request or goroutine, its scanner and its pipe
  conn,    \* the write connection: Free or the run that holds it
  rows,    \* files, per storage and path
  rootOf,  \* storage_providers: root_path
  disk     \* what exists below each root

vars == <<jobs, run, conn, rows, rootOf, disk>>

\* The first path of a sorted listing.
First(S) == {p \in S : \A q \in S : p <= q}

Active(r) == run[r].pc \notin {"idle", "looked"}
Ended(r)  == run[r].proc \in {"exited", "failed"}

Init ==
  /\ jobs   = [s \in Storages |-> NoJob]
  /\ run    = [r \in Runs |-> NoRun]
  /\ conn   = Free
  /\ rows   = [s \in Storages |-> [p \in Paths |-> "none"]]
  /\ rootOf = [s \in Storages |-> None]
  /\ disk   = [d \in Roots |-> Paths]

-----------------------------------------------------------------------------
(* The request *)

\* triggerScan reads the storage first.
Lookup(r, s) ==
  /\ run[r].pc = "idle"
  /\ rootOf[s] # None                                   \* else 404
  /\ run' = [run EXCEPT ![r].pc = "looked", ![r].storage = s, ![r].root = rootOf[s]]
  /\ UNCHANGED <<jobs, conn, rows, rootOf, disk>>

\* Mutant of Start: a running scan does not count.
StartAnyway(r) ==
  /\ run[r].pc = "looked"
  /\ run' = [run EXCEPT ![r].pc = "spawn"]
  /\ jobs' = [jobs EXCEPT ![run[r].storage] = [state |-> "scanning", run |-> r]]
  /\ UNCHANGED <<conn, rows, rootOf, disk>>

Start(r) ==
  LET s == run[r].storage
  IN  /\ run[r].pc = "looked"
      /\ IF jobs[s].state = "scanning"                  \* ErrBusy: 409
         THEN /\ run' = [run EXCEPT ![r] = NoRun]
              /\ UNCHANGED jobs
         ELSE /\ run' = [run EXCEPT ![r].pc = "spawn"]
              /\ jobs' = [jobs EXCEPT ![s] = [state |-> "scanning", run |-> r]]
  /\ UNCHANGED <<conn, rows, rootOf, disk>>

\* Only asks: the goroutine notices on its own.
Cancel(s) ==
  /\ jobs[s].state = "scanning"                         \* else 400
  /\ run' = [run EXCEPT ![jobs[s].run].cancelled = TRUE]
  /\ UNCHANGED <<jobs, conn, rows, rootOf, disk>>

-----------------------------------------------------------------------------
(* RunScanner and Ingest *)

\* cmd.Start, then scanStart: what earlier scans stamped is now older.
Spawn(r) ==
  /\ run[r].pc = "spawn"
  /\ ~run[r].cancelled
  /\ run' = [run EXCEPT ![r].pc = "begin", ![r].proc = "walking",
                        ![r].always = disk[run[r].root], ![r].ever = disk[run[r].root]]
  /\ rows' = [rows EXCEPT ![run[r].storage] =
                [p \in Paths |-> IF @[p] = "current" THEN "stale" ELSE @[p]]]
  /\ UNCHANGED <<jobs, conn, rootOf, disk>>

\* No such binary, or cancelled already.
SpawnFails(r) ==
  /\ run[r].pc = "spawn"
  /\ run' = [run EXCEPT ![r].pc = "finish", ![r].failed = TRUE]
  /\ UNCHANGED <<jobs, conn, rows, rootOf, disk>>

\* Mutant of Quit: the transaction is not rolled back.
QuitKeepingConn(r, line) ==
  /\ run' = [run EXCEPT ![r].pc = "wait", ![r].failed = TRUE, ![r].batch = {},
                        ![r].pipe = @ \ line]
  /\ UNCHANGED <<conn, rows>>

\* Ingest returns an error.  The transaction is rolled back; the scanner and
\* its pipe stay, and nobody reads the pipe any more.
Quit(r, line) ==
  /\ run' = [run EXCEPT ![r].pc = "wait", ![r].failed = TRUE, ![r].batch = {},
                        ![r].pipe = @ \ line]
  /\ conn' = IF conn = r THEN Free ELSE conn
  /\ UNCHANGED rows

\* Mutant of Commit: the connection does not go back to the pool.
CommitKeepingConn(r, next) ==
  /\ run' = [run EXCEPT ![r].pc = next, ![r].batch = {},
                        ![r].saved = @ \cup run[r].batch]
  /\ rows' = [rows EXCEPT ![run[r].storage] =
                [p \in Paths |-> IF p \in run[r].batch THEN "current" ELSE @[p]]]
  /\ UNCHANGED conn

\* The rows of the batch, and the connection back to the pool.
Commit(r, next) ==
  /\ run' = [run EXCEPT ![r].pc = next, ![r].batch = {},
                        ![r].saved = @ \cup run[r].batch]
  /\ rows' = [rows EXCEPT ![run[r].storage] =
                [p \in Paths |-> IF p \in run[r].batch THEN "current" ELSE @[p]]]
  /\ conn' = Free

Begin(r) ==
  /\ run[r].pc = "begin"
  /\ \/ run[r].cancelled /\ Quit(r, {})
     \/ /\ ~run[r].cancelled
        /\ conn = Free
        /\ conn' = r
        /\ run' = [run EXCEPT ![r].pc = "read"]
        /\ UNCHANGED rows
  /\ UNCHANGED <<jobs, rootOf, disk>>

\* database/sql rolls a transaction back as soon as its context is cancelled,
\* whatever the goroutine is doing.
RollbackOnCancel(r) ==
  /\ conn = r
  /\ run[r].cancelled
  /\ conn' = Free
  /\ run' = [run EXCEPT ![r].batch = {}]
  /\ UNCHANGED <<jobs, rows, rootOf, disk>>

\* One line: the checks in the order of the loop, then the UPSERT, which fails
\* on the foreign key when the storage is gone.
ReadLine(r) ==
  /\ run[r].pc = "read"
  /\ Cardinality(run[r].batch) < BatchSize
  /\ \E p \in First(run[r].pipe) :
       IF run[r].cancelled \/ p = Torn \/ rootOf[run[r].storage] = None
       THEN Quit(r, {p})
       ELSE /\ run' = [run EXCEPT ![r].pipe = @ \ {p}, ![r].batch = @ \cup {p}]
            /\ UNCHANGED <<conn, rows>>
  /\ UNCHANGED <<jobs, rootOf, disk>>

CommitBatch(r) ==
  /\ run[r].pc = "read"
  /\ Cardinality(run[r].batch) = BatchSize
  /\ IF run[r].cancelled THEN Quit(r, {}) ELSE Commit(r, "begin")
  /\ UNCHANGED <<jobs, rootOf, disk>>

\* End of file: the scanner has ended, however it ended.
ReadEnd(r) ==
  /\ run[r].pc = "read"
  /\ Cardinality(run[r].batch) < BatchSize
  /\ run[r].pipe = {} /\ Ended(r)
  /\ IF run[r].cancelled THEN Quit(r, {}) ELSE Commit(r, "sweep")
  /\ UNCHANGED <<jobs, rootOf, disk>>

\* Any statement of Ingest may fail for a reason of its own, a full disk or an error of the
\* disk: BeginTx, the UPSERT of the line that was read, Commit, which then has written
\* nothing, or the sweep; and so may the reading of the pipe, with a line beyond 8 MiB.
StatementFails(r) ==
  /\ StatementsFail
  /\ \/ run[r].pc \in {"begin", "read", "sweep"} /\ Quit(r, {})
     \/ /\ run[r].pc = "read"
        /\ Cardinality(run[r].batch) < BatchSize
        /\ \E p \in First(run[r].pipe) : Quit(r, {p})
  /\ UNCHANGED <<jobs, rootOf, disk>>

\* Mutant of Sweep: last_scanned IS NOT NULL is left out.
SweepUnscanned(r) ==
  /\ run[r].pc = "sweep"
  /\ conn = Free
  /\ rows' = [rows EXCEPT ![run[r].storage] =
                [p \in Paths |-> IF @[p] \in {"stale", "untouched"} THEN "missing"
                                                                    ELSE @[p]]]
  /\ run' = [run EXCEPT ![r].pc = "wait"]
  /\ UNCHANGED <<jobs, conn, rootOf, disk>>

Sweep(r) ==
  /\ run[r].pc = "sweep"
  /\ \/ run[r].cancelled /\ Quit(r, {})
     \/ /\ ~run[r].cancelled
        /\ conn = Free
        /\ rows' = [rows EXCEPT ![run[r].storage] =
                      [p \in Paths |-> IF @[p] = "stale" THEN "missing" ELSE @[p]]]
        /\ run' = [run EXCEPT ![r].pc = "wait"]
        /\ UNCHANGED conn
  /\ UNCHANGED <<jobs, rootOf, disk>>

\* Mutant of Wait: the exit status is dropped.
WaitOnly(r) ==
  /\ run[r].pc = "wait"
  /\ Ended(r)
  /\ run' = [run EXCEPT ![r].pc = "finish"]
  /\ UNCHANGED <<jobs, conn, rows, rootOf, disk>>

\* cmd.Wait: only here does the exit status count.
Wait(r) ==
  /\ run[r].pc = "wait"
  /\ Ended(r)
  /\ run' = [run EXCEPT ![r].pc = "finish", ![r].failed = @ \/ run[r].proc = "failed"]
  /\ UNCHANGED <<jobs, conn, rows, rootOf, disk>>

Verdict(r) ==
  CASE run[r].cancelled -> "cancelled"
    [] ~run[r].cancelled /\ run[r].failed -> "error"
    [] OTHER -> "done"

Finish(r) ==
  /\ run[r].pc = "finish"
  /\ jobs' = [jobs EXCEPT ![run[r].storage] = [state |-> Verdict(r), run |-> None]]
  /\ run' = [run EXCEPT ![r] = NoRun]
  /\ UNCHANGED <<conn, rows, rootOf, disk>>

-----------------------------------------------------------------------------
(* The scanner process *)

\* scan_dir collects everything before the first line is written.  A path that
\* was there all along is found unless it cannot be read; one that came or went
\* may be; a path that cannot be read, and a root that cannot, are skipped and
\* do not change the exit status.
Walk(r) ==
  /\ run[r].proc = "walking"
  /\ \E found \in SUBSET run[r].ever :
       /\ run[r].always \ Unreadable \subseteq found
       /\ run' = [run EXCEPT ![r].proc = "writing", ![r].todo = found]
  /\ UNCHANGED <<jobs, conn, rows, rootOf, disk>>

Emit(r) ==
  /\ run[r].proc = "writing"
  /\ Cardinality(run[r].pipe) < PipeCap
  /\ \E p \in First(run[r].todo) :
       run' = [run EXCEPT ![r].todo = @ \ {p}, ![r].pipe = @ \cup {p}]
  /\ UNCHANGED <<jobs, conn, rows, rootOf, disk>>

Exit(r) ==
  /\ run[r].proc = "writing"
  /\ run[r].todo = {}
  /\ run' = [run EXCEPT ![r].proc = "exited"]
  /\ UNCHANGED <<jobs, conn, rows, rootOf, disk>>

\* Mutant of Kill: exec.Command, which knows no context.
NoKill(r) == FALSE /\ run[r].cancelled /\ UNCHANGED vars

\* exec.CommandContext kills it.
Kill(r) ==
  /\ run[r].proc \in {"walking", "writing"}
  /\ run[r].cancelled
  /\ run' = [run EXCEPT ![r].proc = "failed"]
  /\ UNCHANGED <<jobs, conn, rows, rootOf, disk>>

\* It dies on its own, between two lines or within one.
Crash(r) ==
  /\ ScannerCrashes
  /\ run[r].proc \in {"walking", "writing"}
  /\ \E cut \in IF run[r].todo = {} THEN {{}} ELSE {{}, {Torn}} :
       run' = [run EXCEPT ![r].proc = "failed", ![r].pipe = @ \cup cut]
  /\ UNCHANGED <<jobs, conn, rows, rootOf, disk>>

-----------------------------------------------------------------------------
(* Everybody else *)

DiskChange(d, p) ==
  LET on == IF p \in disk[d] THEN disk[d] \ {p} ELSE disk[d] \cup {p}
  IN  /\ disk' = [disk EXCEPT ![d] = on]
      /\ run' = [r \in Runs |->
           IF run[r].proc = "walking" /\ run[r].root = d
           THEN [run[r] EXCEPT !.always = @ \cap on, !.ever = @ \cup on]
           ELSE run[r]]
      /\ UNCHANGED <<jobs, conn, rows, rootOf>>

\* Tagging, a thumbnail or a permission makes the row of a path.
Materialize(s, p) ==
  /\ conn = Free
  /\ rootOf[s] # None
  /\ rows[s][p] = "none"                               \* else DO NOTHING
  /\ rows' = [rows EXCEPT ![s][p] = "untouched"]
  /\ UNCHANGED <<jobs, run, conn, rootOf, disk>>

\* The id is one more than the largest in use.
CreateStorage(s, root) ==
  /\ conn = Free
  /\ s = 1 + Max({0} \cup {t \in Storages : rootOf[t] # None})
  /\ rootOf' = [rootOf EXCEPT ![s] = root]
  /\ UNCHANGED <<jobs, run, conn, rows, disk>>

UpdateStorageRoot(s, root) ==
  /\ conn = Free
  /\ rootOf[s] \notin {None, root}
  /\ rootOf' = [rootOf EXCEPT ![s] = root]
  /\ UNCHANGED <<jobs, run, conn, rows, disk>>

\* Nothing tells the JobManager; the rows of files cascade.
DeleteStorage(s) ==
  /\ s \in Deletable
  /\ conn = Free
  /\ rootOf[s] # None
  /\ rootOf' = [rootOf EXCEPT ![s] = None]
  /\ rows' = [rows EXCEPT ![s] = [p \in Paths |-> "none"]]
  /\ UNCHANGED <<jobs, run, conn, disk>>

\* The server stops at any point: jobs live in memory, an open transaction is
\* rolled back.
Restart ==
  /\ \E r \in Runs : Active(r)
  /\ jobs' = [s \in Storages |-> NoJob]
  /\ run'  = [r \in Runs |-> NoRun]
  /\ conn' = Free
  /\ UNCHANGED <<rows, rootOf, disk>>

-----------------------------------------------------------------------------
Goroutine(r) ==
  \/ Start(r)       \/ Spawn(r)       \/ SpawnFails(r)       \/ RollbackOnCancel(r)
  \/ ReadLine(r)    \/ CommitBatch(r) \/ ReadEnd(r)
  \/ Wait(r)        \/ Finish(r)

Scanner(r) == Walk(r) \/ Emit(r) \/ Exit(r) \/ Kill(r)

Environment ==
  \/ \E r \in Runs, s \in Storages : Lookup(r, s)
  \/ \E s \in Storages : Cancel(s)
  \/ \E r \in Runs : Crash(r)
  \/ \E d \in Roots, p \in Volatile : DiskChange(d, p)
  \/ \E s \in Storages, p \in Taggable : Materialize(s, p)
  \/ \E s \in Storages, root \in Roots : CreateStorage(s, root)
  \/ \E s \in Storages, root \in Roots : UpdateStorageRoot(s, root)
  \/ \E s \in Storages : DeleteStorage(s)
  \/ Restart

Next ==
  \/ \E r \in Runs : Goroutine(r) \/ Begin(r) \/ Sweep(r) \/ StatementFails(r) \/ Scanner(r)
  \/ Environment

Spec == Init /\ [][Next]_vars

\* Goroutines and processes run.  A goroutine that waits for the write
\* connection gets it if it comes free again and again: database/sql hands a
\* returned connection to a waiter chosen at random.  Nobody has to crash, fail,
\* cancel, restart, or send a request.
Fairness ==
  \A r \in Runs :
    /\ WF_vars(Goroutine(r)) /\ WF_vars(Scanner(r))
    /\ SF_vars(Begin(r)) /\ SF_vars(Sweep(r))

FairSpec == Spec /\ Fairness

-----------------------------------------------------------------------------
(* What must hold *)

Scanned == {"current", "stale", "missing"}
RowStates == Scanned \cup {"none", "untouched"}
JobStates == {"none", "scanning", "done", "error", "cancelled"}

Job  == [state : JobStates, run : Runs \cup {None}]
Slot == [pc : {"idle", "looked", "spawn", "begin", "read", "sweep", "wait", "finish"},
         storage : Storages \cup {None}, root : Roots \cup {None},
         cancelled : BOOLEAN, failed : BOOLEAN,
         proc : {"none", "walking", "writing", "exited", "failed"},
         todo : SUBSET Paths, pipe : SUBSET (Paths \cup {Torn}), batch : SUBSET Paths,
         saved : SUBSET Paths, always : SUBSET Paths, ever : SUBSET Paths]

\* Type invariant of the jobs, the runs, the connection and the tables.
TypeOK ==
  /\ jobs \in [Storages -> Job]
  /\ run \in [Runs -> Slot]
  /\ conn \in Runs \cup {Free}
  /\ rows \in [Storages -> [Paths -> RowStates]]
  /\ rootOf \in [Storages -> Roots \cup {None}]
  /\ disk \in [Roots -> SUBSET Paths]

\* "JobManager tracks at most one running scan per storage": a goroutine runs for
\* a storage exactly as long as its job says scanning, and it is the one the
\* job's cancel function stops.  finish writes to the job it finds under the
\* storage id, so with two of them the wrong job would be settled.
JobTracksRun ==
  /\ \A r \in Runs : Active(r) =>
       jobs[run[r].storage] = [state |-> "scanning", run |-> r]
  /\ \A s \in Storages : jobs[s].state = "scanning" =>
       /\ jobs[s].run \in Runs
       /\ Active(jobs[s].run) /\ run[jobs[s].run].storage = s

\* The write connection is held by nobody but a run that reads lines, and rows
\* wait for a commit only in the run that holds it: no early return of Ingest
\* leaks the connection, or writes without it.
ConnectionFollowsTx ==
  \A r \in Runs :
    /\ conn = r => run[r].pc = "read"
    /\ run[r].pc = "read" /\ ~run[r].cancelled => conn = r
    /\ run[r].batch # {} => conn = r

NewlyMissing(s, p) == rows[s][p] # "missing" /\ rows'[s][p] = "missing"

\* The sweep marks only rows that an earlier scan stamped and this one did not,
\* batch boundaries, crashes and cancelled scans in between notwithstanding; and
\* if the scanner ended well, only paths that it could not read or that were not
\* there during the whole of its walk.
SweepMarksOnlyUnseen ==
  [][\A s \in Storages, p \in Paths : NewlyMissing(s, p) =>
       /\ rows[s][p] \in Scanned
       /\ \E r \in Runs :
            /\ run[r].pc = "sweep" /\ run[r].storage = s
            /\ p \notin run[r].saved
            /\ run[r].proc = "exited" => p \notin run[r].always \ Unreadable]_vars

\* A job ends as done only if its scanner ended well and every path it could read
\* throughout was committed; and unless the storage was deleted meanwhile, none
\* of those rows is left as missing.
DoneMeansIngested ==
  [][\A s \in Storages :
       jobs[s].state = "scanning" /\ jobs'[s].state = "done" =>
         LET r == jobs[s].run
         IN  /\ run[r].proc = "exited"
             /\ run[r].always \ Unreadable \subseteq run[r].saved
             /\ \A p \in run[r].saved : rows[s][p] \notin {"missing", "stale"}]_vars

\* Violated.  The design marks rows missing because the entity no longer exists,
\* but the sweep runs before the exit status of the scanner is looked at.
MissingMeansGone ==
  [][\A s \in Storages, p \in Paths : NewlyMissing(s, p) =>
       \E r \in Runs : run[r].storage = s /\ p \notin run[r].always]_vars

\* Ingest has returned an error, and the scanner waits for a reader of its full pipe.
Blocked(r) ==
  /\ run[r].pc = "wait" /\ run[r].failed /\ ~run[r].cancelled
  /\ run[r].proc = "writing" /\ run[r].todo # {}
  /\ Cardinality(run[r].pipe) = PipeCap

\* Every scan ends, or its ingest has failed and cmd.Wait waits for a scanner that waits for
\* a reader, until somebody cancels: nothing else holds a scan up, neither a wait for the
\* write connection nor a pipe that is full or empty.
ScanEnds == \A r \in Runs : Active(r) ~> ~Active(r) \/ Blocked(r)

\* A scan that somebody cancels ends as cancelled, even one that had failed, had
\* finished its work, or waits for a scanner that waits for a reader.
CancelSettles ==
  \A s \in Storages :
    (jobs[s].state = "scanning" /\ run[jobs[s].run].cancelled)
      ~> jobs[s].state \in {"cancelled", "none"}
==============================================================================
