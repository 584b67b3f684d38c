--------------------------- MODULE ScanJobsProofs ---------------------------
(***************************************************************************)
(* What ScanJobs keeps true for every number of storages, runs, roots and  *)
(* paths and every size of the pipe and of a batch.                        *)
(***************************************************************************)
EXTENDS MCScanJobs, Sequences, TLAPS

\* Whoever has looked a storage up knows which, and its root.
SlotHasStorage ==
  \A r \in Runs : run[r].pc # "idle" =>
    run[r].storage \in Storages /\ run[r].root \in Roots

IndInv == TypeOK /\ SlotHasStorage /\ JobTracksRun /\ ConnectionFollowsTx

\* A slot with a goroutine behind it.
Works(slot) == slot.pc \notin {"idle", "looked"}

\* What the connection and one slot must say of each other.
ConnFits(c, r, slot) ==
  /\ c = r => slot.pc = "read"
  /\ slot.pc = "read" /\ ~slot.cancelled => c = r
  /\ slot.batch # {} => c = r

-----------------------------------------------------------------------------
LEMMA TornIsNoPath == Torn \notin Paths
  BY SizesAssumption DEF Torn, Paths

LEMMA FirstIsMember == \A S : First(S) \subseteq S
  BY DEF First

\* A step of one run that leaves the jobs alone: it is enough to look at the
\* slot of that run and at the connection.
LEMMA SlotStep ==
  ASSUME IndInv, NEW r \in Runs, NEW new \in Slot,
         run' = [run EXCEPT ![r] = new],
         UNCHANGED <<jobs, rootOf, disk>>,
         rows' \in [Storages -> [Paths -> RowStates]],
         Works(new) <=> Works(run[r]),
         Works(new) => new.storage = run[r].storage,
         new.pc # "idle" => new.storage \in Storages /\ new.root \in Roots,
         conn' \in {conn, r, Free},
         conn' # conn => conn \in {r, Free},
         ConnFits(conn', r, new)
  PROVE  IndInv'
<1> USE DEF IndInv
<1>1. run \in [Runs -> Slot] /\ run' \in [Runs -> Slot]
  BY DEF TypeOK
<1>2. run'[r] = new /\ \A q \in Runs \ {r} : run'[q] = run[q]
  BY <1>1
<1>3. conn' \in Runs \cup {Free}
  BY DEF TypeOK
<1>4. TypeOK'
  BY <1>1, <1>3 DEF TypeOK
<1>5. SlotHasStorage'
  BY <1>2 DEF SlotHasStorage
<1>6. JobTracksRun'
  <2>1. \A q \in Runs : /\ Works(run'[q]) <=> Works(run[q])
                        /\ Works(run[q]) => run'[q].storage = run[q].storage
    BY <1>2
  <2>2. QED
    BY <2>1 DEF JobTracksRun, Active, Works
<1>7. ConnectionFollowsTx'
  <2>1. \A q \in Runs \ {r} : conn' = q <=> conn = q
    BY NobodyAssumption
  <2>2. \A q \in Runs : ConnFits(conn', q, run'[q])
    <3>1. ASSUME NEW q \in Runs \ {r} PROVE ConnFits(conn', q, run'[q])
      BY <3>1, <2>1, <1>2 DEF ConnFits, ConnectionFollowsTx
    <3>2. QED
      BY <3>1, <1>2
  <2>3. QED
    BY <2>2 DEF ConnFits, ConnectionFollowsTx
<1>8. QED
  BY <1>4, <1>5, <1>6, <1>7

\* Ingest gives up: whoever held the connection has given it back.
LEMMA QuitStep ==
  ASSUME IndInv, NEW r \in Runs, NEW line, Quit(r, line), Works(run[r]),
         UNCHANGED <<jobs, rootOf, disk>>
  PROVE  IndInv'
<1> DEFINE new == [run[r] EXCEPT !.pc = "wait", !.failed = TRUE, !.batch = {},
                                 !.pipe = @ \ line]
<1>1. run[r] \in Slot /\ run[r].storage \in Storages /\ run[r].root \in Roots
  BY DEF IndInv, TypeOK, SlotHasStorage, Works
<1>2. new \in Slot /\ Works(new) /\ new.storage = run[r].storage /\ new.root = run[r].root
  BY <1>1 DEF Slot, Works
<1>3. run' = [run EXCEPT ![r] = new]
  BY DEF Quit
<1>4. rows' \in [Storages -> [Paths -> RowStates]]
  BY DEF Quit, IndInv, TypeOK
<1>5. /\ conn' \in {conn, r, Free} /\ (conn' # conn => conn \in {r, Free})
      /\ ConnFits(conn', r, new)
  <2>1. new.pc = "wait" /\ new.batch = {}
    BY <1>1 DEF Slot
  <2>2. QED
    BY <2>1, NobodyAssumption DEF Quit, ConnFits
<1> HIDE DEF new
<1>6. QED
  BY <1>1, <1>2, <1>3, <1>4, <1>5, SlotStep

\* A commit by the run that holds the connection.
LEMMA CommitStep ==
  ASSUME IndInv, NEW r \in Runs, NEW next \in {"begin", "sweep"}, Commit(r, next),
         run[r].pc = "read", ~run[r].cancelled,
         UNCHANGED <<jobs, rootOf, disk>>
  PROVE  IndInv'
<1> DEFINE new == [run[r] EXCEPT !.pc = next, !.batch = {}, !.saved = @ \cup run[r].batch]
<1>1. run[r] \in Slot /\ run[r].storage \in Storages /\ run[r].root \in Roots
  BY DEF IndInv, TypeOK, SlotHasStorage
<1>2. /\ new \in Slot /\ Works(new) /\ Works(run[r])
      /\ new.storage = run[r].storage /\ new.root = run[r].root
  BY <1>1 DEF Slot, Works
<1>3. run' = [run EXCEPT ![r] = new]
  BY DEF Commit
<1>4. rows' \in [Storages -> [Paths -> RowStates]]
  BY <1>1 DEF Commit, IndInv, TypeOK, RowStates, Scanned
<1>5. /\ conn' = Free /\ conn = r
      /\ ConnFits(conn', r, new)
  BY <1>1, NobodyAssumption DEF Commit, ConnFits, IndInv, ConnectionFollowsTx, Slot
<1> HIDE DEF new
<1>6. QED
  BY <1>1, <1>2, <1>3, <1>4, <1>5, SlotStep

\* The job of a running goroutine is its own.
LEMMA OwnJob ==
  ASSUME JobTracksRun
  PROVE  \A q \in Runs : Active(q) => /\ jobs[run[q].storage].state = "scanning"
                                      /\ jobs[run[q].storage].run = q
<1> SUFFICES ASSUME NEW q \in Runs, Active(q)
             PROVE  /\ jobs[run[q].storage].state = "scanning"
                    /\ jobs[run[q].storage].run = q
  OBVIOUS
<1>1. jobs[run[q].storage] = [state |-> "scanning", run |-> q]
  BY DEF JobTracksRun
<1>2. QED
  BY <1>1

-----------------------------------------------------------------------------
(* One step of a run *)

LEMMA StartStep ==
  ASSUME IndInv, NEW r \in Runs, Start(r)
  PROVE  IndInv'
<1> DEFINE s == run[r].storage
<1> USE DEF IndInv
<1>1. s \in Storages /\ run[r] \in Slot /\ run[r].pc = "looked" /\ ~Active(r)
  BY DEF Start, TypeOK, SlotHasStorage, Active
<1>2. CASE jobs[s].state = "scanning"
  <2>1. NoRun \in Slot /\ NoRun.pc = "idle" /\ NoRun.batch = {} /\ conn # r
    BY <1>1 DEF NoRun, Slot, ConnectionFollowsTx
  <2>2. ~Works(NoRun) /\ ~Works(run[r]) /\ ConnFits(conn, r, NoRun)
    BY <1>1, <2>1 DEF Works, ConnFits
  <2>3. /\ run' = [run EXCEPT ![r] = NoRun]
        /\ UNCHANGED <<jobs, rootOf, disk, conn>>
        /\ rows' \in [Storages -> [Paths -> RowStates]]
    BY <1>2 DEF Start, TypeOK
  <2>4. QED
    BY <2>1, <2>2, <2>3, SlotStep
<1>3. CASE jobs[s].state # "scanning"
  <2> DEFINE new == [run[r] EXCEPT !.pc = "spawn"]
             job == [state |-> "scanning", run |-> r]
  <2>1. /\ run' = [run EXCEPT ![r] = new]
        /\ jobs' = [jobs EXCEPT ![s] = job]
        /\ UNCHANGED <<conn, rows, rootOf, disk>>
    BY <1>3 DEF Start
  <2>2. /\ new \in Slot /\ new.storage = s /\ new.root = run[r].root
        /\ new.pc = "spawn" /\ new.batch = run[r].batch
    BY <1>1 DEF Slot
  <2>3. job \in Job /\ job.state = "scanning" /\ job.run = r
    BY DEF Job, JobStates
  <2> HIDE DEF new, job
  <2>4. TypeOK'
    BY <1>1, <2>1, <2>2, <2>3 DEF TypeOK
  <2>5. /\ run'[r] = new /\ \A q \in Runs \ {r} : run'[q] = run[q]
        /\ jobs'[s] = job /\ \A t \in Storages \ {s} : jobs'[t] = jobs[t]
    BY <1>1, <2>1 DEF TypeOK
  <2>6. SlotHasStorage'
    BY <1>1, <2>2, <2>5 DEF SlotHasStorage
  <2>7. \A q \in Runs : Active(q) => run[q].storage # s
    BY <1>3, OwnJob
  <2>8. JobTracksRun'
    <3>1. \A q \in Runs : Active(q)' =>
            jobs'[run'[q].storage] = [state |-> "scanning", run |-> q]
      BY <1>1, <2>2, <2>5, <2>7 DEF JobTracksRun, Active, SlotHasStorage, job
    <3>2. ASSUME NEW t \in Storages, jobs'[t].state = "scanning"
          PROVE  /\ jobs'[t].run \in Runs
                 /\ Active(jobs[t].run)' /\ run'[jobs'[t].run].storage = t
      <4>1. CASE t = s
        BY <4>1, <2>2, <2>3, <2>5 DEF Active
      <4>2. CASE t # s
        BY <4>2, <3>2, <1>1, <2>5 DEF JobTracksRun, Active
      <4>3. QED
        BY <4>1, <4>2
    <3>3. QED
      BY <3>1, <3>2 DEF JobTracksRun
  <2>9. ConnectionFollowsTx'
    BY <1>1, <2>1, <2>2, <2>5 DEF ConnectionFollowsTx
  <2>10. QED
    BY <2>4, <2>6, <2>8, <2>9
<1>4. QED
  BY <1>2, <1>3

LEMMA FinishStep ==
  ASSUME IndInv, NEW r \in Runs, Finish(r)
  PROVE  IndInv'
<1> DEFINE s == run[r].storage
           job == [state |-> Verdict(r), run |-> None]
<1> USE DEF IndInv
<1>1. s \in Storages /\ run[r].pc = "finish" /\ Active(r)
  BY DEF Finish, TypeOK, SlotHasStorage, Active
<1>2. /\ run' = [run EXCEPT ![r] = NoRun]
      /\ jobs' = [jobs EXCEPT ![s] = job]
      /\ UNCHANGED <<conn, rows, rootOf, disk>>
  BY DEF Finish
<1>3. job \in Job /\ job.state # "scanning"
  BY DEF Job, JobStates, Verdict
<1>4. NoRun \in Slot /\ NoRun.pc = "idle" /\ NoRun.batch = {}
  BY DEF NoRun, Slot
<1> HIDE DEF job
<1>5. TypeOK'
  BY <1>1, <1>2, <1>3, <1>4 DEF TypeOK
<1>6. /\ run'[r] = NoRun /\ \A q \in Runs \ {r} : run'[q] = run[q]
      /\ jobs'[s] = job /\ \A t \in Storages \ {s} : jobs'[t] = jobs[t]
  BY <1>1, <1>2 DEF TypeOK
<1>7. SlotHasStorage'
  BY <1>4, <1>6 DEF SlotHasStorage
<1>8. JobTracksRun'
  <2>2. \A q \in Runs \ {r} : Active(q) => run[q].storage # s
    BY <1>1, OwnJob
  <2>3. \A q \in Runs : Active(q)' => q # r /\ Active(q)
    BY <1>4, <1>6 DEF Active
  <2>4. \A q \in Runs : Active(q)' =>
          jobs'[run'[q].storage] = [state |-> "scanning", run |-> q]
    BY <1>6, <2>2, <2>3 DEF JobTracksRun, SlotHasStorage, Active
  <2>5. ASSUME NEW t \in Storages, jobs'[t].state = "scanning"
        PROVE  /\ jobs'[t].run \in Runs
               /\ Active(jobs[t].run)' /\ run'[jobs'[t].run].storage = t
    <3>1. t # s /\ jobs'[t] = jobs[t]
      BY <2>5, <1>3, <1>6
    <3>2. jobs[t].run \in Runs \ {r}
      BY <2>5, <3>1, <1>1 DEF JobTracksRun
    <3>3. QED
      BY <2>5, <3>1, <3>2, <1>6 DEF JobTracksRun, Active
  <2>6. QED
    BY <2>4, <2>5 DEF JobTracksRun
<1>9. ConnectionFollowsTx'
  BY <1>1, <1>2, <1>4, <1>6 DEF ConnectionFollowsTx
<1>10. QED
  BY <1>5, <1>7, <1>8, <1>9

\* The steps of Ingest that commit, give up, or take the connection.
LEMMA IngestStep ==
  ASSUME IndInv, NEW r \in Runs,
         Begin(r) \/ ReadLine(r) \/ CommitBatch(r) \/ ReadEnd(r) \/ Sweep(r)
  PROVE  IndInv'
<1>1. /\ run[r].pc \in {"begin", "read", "sweep"} /\ UNCHANGED <<jobs, rootOf, disk>>
      /\ Works(run[r]) /\ run[r] \in Slot
      /\ run[r].storage \in Storages /\ run[r].root \in Roots
  BY DEF Begin, ReadLine, CommitBatch, ReadEnd, Sweep, Works, IndInv, TypeOK, SlotHasStorage
<1>2. CASE \E line : Quit(r, line)
  BY <1>1, <1>2, QuitStep
<1>3. CASE ~run[r].cancelled /\ run[r].pc = "read" /\ \E next \in {"begin", "sweep"} : Commit(r, next)
  BY <1>1, <1>3, CommitStep
<1>4. CASE /\ run[r].pc = "begin" /\ ~run[r].cancelled /\ conn = Free /\ conn' = r
           /\ run' = [run EXCEPT ![r].pc = "read"] /\ UNCHANGED rows
  <2> DEFINE new == [run[r] EXCEPT !.pc = "read"]
  <2>1. /\ new \in Slot /\ Works(new) /\ new.storage = run[r].storage
        /\ new.root = run[r].root /\ new.pc = "read"
    BY <1>1 DEF Slot, Works
  <2>2. run' = [run EXCEPT ![r] = new] /\ conn' \in {conn, r, Free} /\ conn \in {r, Free}
    BY <1>4
  <2>3. ConnFits(conn', r, new)
    BY <1>4, <2>1 DEF ConnFits
  <2>4. rows' \in [Storages -> [Paths -> RowStates]]
    BY <1>4 DEF IndInv, TypeOK
  <2> HIDE DEF new
  <2>5. QED
    BY <1>1, <2>1, <2>2, <2>3, <2>4, SlotStep
<1>5. CASE /\ run[r].pc = "read" /\ ~run[r].cancelled /\ UNCHANGED <<conn, rows>>
           /\ \E p \in First(run[r].pipe) :
                /\ p # Torn
                /\ run' = [run EXCEPT ![r].pipe = @ \ {p}, ![r].batch = @ \cup {p}]
  <2>1. PICK p \in First(run[r].pipe) :
               /\ p # Torn
               /\ run' = [run EXCEPT ![r].pipe = @ \ {p}, ![r].batch = @ \cup {p}]
    BY <1>5
  <2> DEFINE new == [run[r] EXCEPT !.pipe = @ \ {p}, !.batch = @ \cup {p}]
  <2>2. p \in Paths
    BY <1>1, <2>1, FirstIsMember DEF Slot
  <2>3. /\ new \in Slot /\ Works(new) /\ new.storage = run[r].storage
        /\ new.root = run[r].root
        /\ new.pc = "read" /\ new.cancelled = run[r].cancelled
    BY <1>1, <1>5, <2>2 DEF Slot, Works
  <2>4. run' = [run EXCEPT ![r] = new] /\ conn' = conn
    BY <1>5, <2>1
  <2>5. ConnFits(conn', r, new)
    BY <1>5, <2>3 DEF ConnFits, IndInv, ConnectionFollowsTx
  <2>6. rows' \in [Storages -> [Paths -> RowStates]]
    BY <1>5 DEF IndInv, TypeOK
  <2> HIDE DEF new
  <2>7. QED
    BY <1>1, <2>3, <2>4, <2>5, <2>6, SlotStep
<1>6. CASE /\ run[r].pc = "sweep" /\ ~run[r].cancelled /\ conn = Free /\ UNCHANGED conn
           /\ rows' = [rows EXCEPT ![run[r].storage] =
                         [p \in Paths |-> IF @[p] = "stale" THEN "missing" ELSE @[p]]]
           /\ run' = [run EXCEPT ![r].pc = "wait"]
  <2> DEFINE new == [run[r] EXCEPT !.pc = "wait"]
  <2>1. /\ new \in Slot /\ Works(new) /\ new.storage = run[r].storage
        /\ new.root = run[r].root
        /\ new.pc = "wait" /\ new.batch = run[r].batch
    BY <1>1 DEF Slot, Works
  <2>2. run' = [run EXCEPT ![r] = new] /\ conn' = conn
    BY <1>6
  <2>3. ConnFits(conn', r, new)
    BY <1>6, <2>1, NobodyAssumption DEF ConnFits, IndInv, ConnectionFollowsTx
  <2>4. rows' \in [Storages -> [Paths -> RowStates]]
    BY <1>1, <1>6 DEF IndInv, TypeOK, RowStates, Scanned
  <2> HIDE DEF new
  <2>5. QED
    BY <1>1, <2>1, <2>2, <2>3, <2>4, SlotStep
<1>7. QED
  <2>1. CASE Begin(r)
    BY <2>1, <1>2, <1>4 DEF Begin
  <2>2. CASE ReadLine(r)
    BY <2>2, <1>2, <1>5 DEF ReadLine
  <2>3. CASE CommitBatch(r)
    BY <2>3, <1>2, <1>3 DEF CommitBatch
  <2>4. CASE ReadEnd(r)
    BY <2>4, <1>2, <1>3 DEF ReadEnd
  <2>5. CASE Sweep(r)
    BY <2>5, <1>2, <1>6 DEF Sweep
  <2>6. QED
    BY <2>1, <2>2, <2>3, <2>4, <2>5

\* A statement that fails is a way out of Ingest like any other.
LEMMA FailureQuits ==
  ASSUME IndInv, NEW r \in Runs, StatementFails(r)
  PROVE  /\ UNCHANGED <<jobs, rows, rootOf, disk>> /\ Works(run[r]) /\ Active(r)
         /\ \E line : Quit(r, line)
BY DEF StatementFails, Quit, Works, Active

LEMMA FailureStep ==
  ASSUME IndInv, NEW r \in Runs, StatementFails(r)
  PROVE  IndInv'
BY FailureQuits, QuitStep

\* The other steps of the goroutine and those of its scanner: the connection,
\* the storage and the batch stay.
LEMMA QuietStep ==
  ASSUME IndInv, NEW r \in Runs, NEW new \in Slot,
         run' = [run EXCEPT ![r] = new], UNCHANGED <<jobs, conn, rootOf, disk>>,
         rows' \in [Storages -> [Paths -> RowStates]],
         new.storage = run[r].storage, new.root = run[r].root, new.batch = run[r].batch,
         run[r].cancelled => new.cancelled,
         \/ new.pc = run[r].pc
         \/ Works(new) /\ Works(run[r]) /\ run[r].pc # "read" /\ new.pc # "read"
  PROVE  IndInv'
<1>1. Works(new) <=> Works(run[r])
  BY DEF Works
<1>2. new.pc # "idle" => new.storage \in Storages /\ new.root \in Roots
  BY DEF IndInv, SlotHasStorage, Works
<1>3. ConnFits(conn', r, new)
  BY DEF ConnFits, IndInv, ConnectionFollowsTx, Slot
<1>4. QED
  BY <1>1, <1>2, <1>3, SlotStep

LEMMA RunStep ==
  ASSUME IndInv, NEW r \in Runs,
         Spawn(r) \/ SpawnFails(r) \/ Wait(r) \/ Scanner(r) \/ Crash(r)
  PROVE  IndInv'
<1>1. run[r] \in Slot /\ UNCHANGED <<jobs, conn, rootOf, disk>>
  BY DEF IndInv, TypeOK, Spawn, SpawnFails, Wait, Scanner, Walk, Emit, Exit, Kill, Crash
<1>2. rows' \in [Storages -> [Paths -> RowStates]]
  <2>1. CASE Spawn(r)
    BY <2>1 DEF Spawn, IndInv, TypeOK, SlotHasStorage, RowStates, Scanned
  <2>2. CASE ~Spawn(r)
    BY <2>2 DEF IndInv, TypeOK, SpawnFails, Wait, Scanner, Walk, Emit, Exit, Kill, Crash
  <2>3. QED
    BY <2>1, <2>2
<1>3. \E new \in Slot :
        /\ run' = [run EXCEPT ![r] = new]
        /\ new.storage = run[r].storage /\ new.root = run[r].root
        /\ new.batch = run[r].batch /\ new.cancelled = run[r].cancelled
        /\ \/ new.pc = run[r].pc
           \/ Works(new) /\ Works(run[r]) /\ run[r].pc # "read" /\ new.pc # "read"
  <2>1. CASE Spawn(r)
    <3> DEFINE on  == disk[run[r].root]
               new == [run[r] EXCEPT !.pc = "begin", !.proc = "walking",
                                     !.always = on, !.ever = on]
    <3>1. on \in SUBSET Paths
      BY <2>1 DEF IndInv, TypeOK, SlotHasStorage, Spawn
    <3>2. new \in Slot
      BY <1>1, <3>1 DEF Slot
    <3>3. run' = [run EXCEPT ![r] = new]
      BY <2>1 DEF Spawn
    <3>4. QED
      BY <1>1, <2>1, <3>2, <3>3 DEF Slot, Spawn, Works
  <2>2. CASE SpawnFails(r)
    <3> DEFINE new == [run[r] EXCEPT !.pc = "finish", !.failed = TRUE]
    <3>1. new \in Slot /\ run' = [run EXCEPT ![r] = new]
      BY <1>1, <2>2 DEF Slot, SpawnFails
    <3>2. QED
      BY <1>1, <2>2, <3>1 DEF Slot, SpawnFails, Works
  <2>3. CASE Wait(r)
    <3> DEFINE new == [run[r] EXCEPT !.pc = "finish", !.failed = @ \/ run[r].proc = "failed"]
    <3>1. (run[r].failed \/ run[r].proc = "failed") \in BOOLEAN
      OBVIOUS
    <3>2. new \in Slot
      BY <1>1, <3>1 DEF Slot
    <3>3. run' = [run EXCEPT ![r] = new]
      BY <2>3 DEF Wait
    <3>4. /\ new.pc = "finish" /\ new.storage = run[r].storage /\ new.root = run[r].root
          /\ new.batch = run[r].batch /\ new.cancelled = run[r].cancelled
      BY <1>1 DEF Slot
    <3>5. Works(new) /\ Works(run[r]) /\ run[r].pc # "read" /\ new.pc # "read"
      BY <2>3, <3>4 DEF Wait, Works
    <3> HIDE DEF new
    <3>6. QED
      BY <3>2, <3>3, <3>4, <3>5
  <2>4. CASE Walk(r)
    <3>1. PICK found \in SUBSET run[r].ever :
            run' = [run EXCEPT ![r].proc = "writing", ![r].todo = found]
      BY <2>4 DEF Walk
    <3> DEFINE new == [run[r] EXCEPT !.proc = "writing", !.todo = found]
    <3>2. new \in Slot /\ run' = [run EXCEPT ![r] = new]
      BY <1>1, <3>1 DEF Slot
    <3>3. QED
      BY <1>1, <3>2 DEF Slot
  <2>5. CASE Emit(r)
    <3>1. PICK p \in First(run[r].todo) :
            run' = [run EXCEPT ![r].todo = @ \ {p}, ![r].pipe = @ \cup {p}]
      BY <2>5 DEF Emit
    <3> DEFINE new == [run[r] EXCEPT !.todo = @ \ {p}, !.pipe = @ \cup {p}]
    <3>2. p \in Paths
      BY <1>1, FirstIsMember DEF Slot
    <3>3. new \in Slot /\ run' = [run EXCEPT ![r] = new]
      BY <1>1, <3>1, <3>2 DEF Slot
    <3>4. QED
      BY <1>1, <3>3 DEF Slot
  <2>6. CASE Exit(r)
    <3> DEFINE new == [run[r] EXCEPT !.proc = "exited"]
    <3>1. new \in Slot /\ run' = [run EXCEPT ![r] = new]
      BY <1>1, <2>6 DEF Slot, Exit
    <3>2. QED
      BY <1>1, <3>1 DEF Slot
  <2>7. CASE Kill(r)
    <3> DEFINE new == [run[r] EXCEPT !.proc = "failed"]
    <3>1. new \in Slot /\ run' = [run EXCEPT ![r] = new]
      BY <1>1, <2>7 DEF Slot, Kill
    <3>2. QED
      BY <1>1, <3>1 DEF Slot
  <2>8. CASE Crash(r)
    <3>1. PICK cut \in {{}, {Torn}} :
            run' = [run EXCEPT ![r].proc = "failed", ![r].pipe = @ \cup cut]
      BY <2>8 DEF Crash
    <3> DEFINE new == [run[r] EXCEPT !.proc = "failed", !.pipe = @ \cup cut]
    <3>2. new \in Slot /\ run' = [run EXCEPT ![r] = new]
      BY <1>1, <3>1 DEF Slot
    <3>3. QED
      BY <1>1, <3>2 DEF Slot
  <2>9. QED
    BY <2>1, <2>2, <2>3, <2>4, <2>5, <2>6, <2>7, <2>8 DEF Scanner
<1>4. QED
  BY <1>1, <1>2, <1>3, QuietStep

\* The rollback that database/sql does on its own.
LEMMA RollbackStep ==
  ASSUME IndInv, NEW r \in Runs, RollbackOnCancel(r)
  PROVE  IndInv'
<1> DEFINE new == [run[r] EXCEPT !.batch = {}]
<1>1. /\ run[r] \in Slot /\ run[r].pc = "read" /\ run[r].cancelled
      /\ run[r].storage \in Storages /\ run[r].root \in Roots
      /\ rows' \in [Storages -> [Paths -> RowStates]]
  BY DEF IndInv, TypeOK, RollbackOnCancel, ConnectionFollowsTx, SlotHasStorage
<1>2. /\ new \in Slot /\ new.pc = "read" /\ new.cancelled /\ new.batch = {}
      /\ new.storage = run[r].storage /\ new.root = run[r].root
  BY <1>1 DEF Slot
<1>3. run' = [run EXCEPT ![r] = new] /\ conn' = Free /\ UNCHANGED <<jobs, rootOf, disk>> /\ conn = r
  BY DEF RollbackOnCancel
<1>4. ConnFits(conn', r, new) /\ (Works(new) <=> Works(run[r]))
  BY <1>1, <1>2, <1>3, NobodyAssumption DEF ConnFits, Works
<1> HIDE DEF new
<1>5. QED
  BY <1>1, <1>2, <1>3, <1>4, SlotStep

LEMMA LookupStep ==
  ASSUME IndInv, NEW r \in Runs, NEW s \in Storages, Lookup(r, s)
  PROVE  IndInv'
<1> DEFINE new == [run[r] EXCEPT !.pc = "looked", !.storage = s, !.root = rootOf[s]]
<1>1. /\ run[r] \in Slot /\ run[r].pc = "idle" /\ rootOf[s] \in Roots /\ conn # r
      /\ run[r].batch = {} /\ rows' \in [Storages -> [Paths -> RowStates]]
  BY DEF IndInv, TypeOK, Lookup, ConnectionFollowsTx
<1>2. /\ new \in Slot /\ new.pc = "looked" /\ new.batch = {}
      /\ new.storage = s /\ new.root = rootOf[s]
  BY <1>1 DEF Slot
<1>3. run' = [run EXCEPT ![r] = new] /\ UNCHANGED <<jobs, rootOf, disk, conn>>
  BY DEF Lookup
<1>4. ConnFits(conn', r, new) /\ ~Works(new) /\ ~Works(run[r])
  BY <1>1, <1>2, <1>3 DEF ConnFits, Works
<1> HIDE DEF new
<1>5. QED
  BY <1>1, <1>2, <1>3, <1>4, SlotStep

LEMMA CancelStep ==
  ASSUME IndInv, NEW s \in Storages, Cancel(s)
  PROVE  IndInv'
<1> DEFINE r   == jobs[s].run
           new == [run[r] EXCEPT !.cancelled = TRUE]
<1>1. r \in Runs /\ run[r] \in Slot /\ rows' \in [Storages -> [Paths -> RowStates]]
  BY DEF IndInv, TypeOK, Cancel, JobTracksRun
<1>2. /\ new \in Slot /\ new.pc = run[r].pc /\ new.batch = run[r].batch /\ new.cancelled
      /\ new.storage = run[r].storage /\ new.root = run[r].root
  BY <1>1 DEF Slot
<1>3. run' = [run EXCEPT ![r] = new] /\ UNCHANGED <<jobs, rootOf, disk, conn>>
  BY DEF Cancel
<1> HIDE DEF new
<1>4. QED
  BY <1>1, <1>2, <1>3, QuietStep

-----------------------------------------------------------------------------
(* Everybody else *)

LEMMA DiskStep ==
  ASSUME IndInv, NEW d \in Roots, NEW p \in Volatile, DiskChange(d, p)
  PROVE  IndInv'
<1> DEFINE on == IF p \in disk[d] THEN disk[d] \ {p} ELSE disk[d] \cup {p}
           seen(slot) == [slot EXCEPT !.always = @ \cap on, !.ever = @ \cup on]
<1> USE DEF IndInv
<1>1. on \in SUBSET Paths
  BY PathsAssumption DEF TypeOK, Paths
<1>2. /\ disk' = [disk EXCEPT ![d] = on]
      /\ run' = [r \in Runs |-> IF run[r].proc = "walking" /\ run[r].root = d
                                THEN seen(run[r]) ELSE run[r]]
      /\ UNCHANGED <<jobs, conn, rows, rootOf>>
  BY DEF DiskChange
<1> HIDE DEF on
<1>3. ASSUME NEW r \in Runs
      PROVE  /\ run'[r] \in Slot
             /\ run'[r].pc = run[r].pc /\ run'[r].storage = run[r].storage
             /\ run'[r].root = run[r].root /\ run'[r].cancelled = run[r].cancelled
             /\ run'[r].batch = run[r].batch
  <2>1. run[r] \in Slot /\ run'[r] \in {run[r], seen(run[r])}
    BY <1>2 DEF TypeOK
  <2>2. seen(run[r]) \in Slot
    BY <1>1, <2>1 DEF Slot
  <2>3. QED
    BY <2>1, <2>2 DEF Slot
<1> HIDE DEF seen
<1>4. run' \in [Runs -> Slot]
  BY <1>2, <1>3
<1>5. disk' \in [Roots -> SUBSET Paths]
  BY <1>1, <1>2 DEF TypeOK
<1>6. TypeOK'
  BY <1>2, <1>4, <1>5 DEF TypeOK
<1>7. SlotHasStorage' /\ JobTracksRun' /\ ConnectionFollowsTx'
  BY <1>2, <1>3 DEF SlotHasStorage, JobTracksRun, ConnectionFollowsTx, Active
<1>8. QED
  BY <1>6, <1>7

\* Steps of other writers: the tables only.
LEMMA WriterStep ==
  ASSUME IndInv, UNCHANGED <<jobs, run, conn, disk>>,
         rows' \in [Storages -> [Paths -> RowStates]],
         rootOf' \in [Storages -> Roots \cup {None}]
  PROVE  IndInv'
  BY DEF IndInv, TypeOK, SlotHasStorage, JobTracksRun, ConnectionFollowsTx, Active

LEMMA RestartStep ==
  ASSUME IndInv, Restart
  PROVE  IndInv'
<1>1. NoRun \in Slot /\ NoRun.pc = "idle" /\ NoRun.batch = {}
  BY DEF NoRun, Slot
<1>2. NoJob \in Job /\ NoJob.state = "none"
  BY DEF NoJob, Job, JobStates
<1>3. /\ \A r \in Runs : run'[r] = NoRun
      /\ \A s \in Storages : jobs'[s] = NoJob
      /\ conn' = Free
  BY DEF Restart
<1>4. TypeOK'
  BY <1>1, <1>2 DEF IndInv, TypeOK, Restart
<1>5. SlotHasStorage' /\ JobTracksRun' /\ ConnectionFollowsTx'
  BY <1>1, <1>2, <1>3, NobodyAssumption
     DEF SlotHasStorage, JobTracksRun, ConnectionFollowsTx, Active
<1>6. QED
  BY <1>4, <1>5 DEF IndInv

-----------------------------------------------------------------------------
LEMMA InitInv == Init => IndInv
<1> SUFFICES ASSUME Init PROVE IndInv
  OBVIOUS
<1>1. NoRun \in Slot /\ NoRun.pc = "idle" /\ NoRun.batch = {}
  BY DEF NoRun, Slot
<1>2. NoJob \in Job /\ NoJob.state = "none"
  BY DEF NoJob, Job, JobStates
<1>3. TypeOK
  BY <1>1, <1>2 DEF Init, TypeOK, RowStates
<1>4. SlotHasStorage /\ JobTracksRun /\ ConnectionFollowsTx
  BY <1>1, <1>2, NobodyAssumption
     DEF Init, SlotHasStorage, JobTracksRun, ConnectionFollowsTx, Active
<1>5. QED
  BY <1>3, <1>4 DEF IndInv

LEMMA NextInv == IndInv /\ [Next]_vars => IndInv'
<1> SUFFICES ASSUME IndInv, [Next]_vars PROVE IndInv'
  OBVIOUS
<1>1. ASSUME NEW r \in Runs,
             Goroutine(r) \/ Begin(r) \/ Sweep(r) \/ StatementFails(r) \/ Scanner(r)
      PROVE  IndInv'
  BY <1>1, StartStep, RunStep, RollbackStep, IngestStep, FailureStep, FinishStep DEF Goroutine
<1>2. ASSUME NEW r \in Runs, NEW s \in Storages, Lookup(r, s) PROVE IndInv'
  BY <1>2, LookupStep
<1>3. ASSUME NEW s \in Storages, Cancel(s) PROVE IndInv'
  BY <1>3, CancelStep
<1>4. ASSUME NEW r \in Runs, Crash(r) PROVE IndInv'
  BY <1>4, RunStep
<1>5. ASSUME NEW d \in Roots, NEW p \in Volatile, DiskChange(d, p) PROVE IndInv'
  BY <1>5, DiskStep
<1>6. ASSUME NEW s \in Storages, NEW p \in Taggable, Materialize(s, p) PROVE IndInv'
  BY <1>6, WriterStep, PathsAssumption DEF Materialize, IndInv, TypeOK, RowStates, Paths
<1>7. ASSUME NEW s \in Storages, NEW root \in Roots, CreateStorage(s, root) PROVE IndInv'
  BY <1>7, WriterStep DEF CreateStorage, IndInv, TypeOK
<1>8. ASSUME NEW s \in Storages, NEW root \in Roots, UpdateStorageRoot(s, root) PROVE IndInv'
  BY <1>8, WriterStep DEF UpdateStorageRoot, IndInv, TypeOK
<1>9. ASSUME NEW s \in Storages, DeleteStorage(s) PROVE IndInv'
  <2>1. /\ rows' \in [Storages -> [Paths -> RowStates]]
        /\ rootOf' \in [Storages -> Roots \cup {None}]
    BY <1>9 DEF DeleteStorage, IndInv, TypeOK, RowStates
  <2>2. QED
    BY <1>9, <2>1, WriterStep DEF DeleteStorage
<1>10. CASE Restart
  BY <1>10, RestartStep
<1>11. CASE UNCHANGED vars
  BY <1>11, WriterStep DEF vars, IndInv, TypeOK
<1>12. QED
  BY <1>1, <1>2, <1>3, <1>4, <1>5, <1>6, <1>7, <1>8, <1>9, <1>10, <1>11
     DEF Next, Environment

-----------------------------------------------------------------------------
(* No path gets lost between the walk and the table *)

\* As long as a run has neither failed nor been cancelled, whatever its walk had
\* to find is still to be written, in the pipe, in the batch or committed; and
\* when its listing has been read to the end nothing is under way any more.
SlotFlow(slot) ==
  /\ slot.pc \in {"idle", "looked", "spawn"} => slot.saved = {} /\ slot.proc = "none"
  /\ slot.pc \notin {"wait", "finish"} => ~slot.failed
  /\ slot.proc = "exited" => slot.todo = {}
  /\ ~slot.failed /\ ~slot.cancelled =>
       /\ slot.proc \in {"writing", "exited"} =>
            slot.always \ Unreadable
              \subseteq slot.todo \cup slot.pipe \cup slot.batch \cup slot.saved
       /\ slot.pc \in {"sweep", "wait", "finish"} =>
            /\ slot.pipe = {} /\ slot.batch = {}
            /\ slot.proc \in {"exited", "failed"}
       /\ slot.pc = "finish" => slot.proc = "exited"

Flow == \A r \in Runs : SlotFlow(run[r])

\* The rows a running scan has committed stay fresh, or go with their storage.
SavedFresh ==
  \A r \in Runs : Active(r) =>
    \A p \in run[r].saved : rows[run[r].storage][p] \notin {"stale", "missing"}

\* What a step of one run makes of its slot, where Flow is concerned.
LEMMA FlowOfSlot ==
  ASSUME IndInv, Flow, NEW r \in Runs,
         Goroutine(r) \/ Begin(r) \/ Sweep(r) \/ StatementFails(r) \/ Scanner(r) \/ Crash(r)
  PROVE  SlotFlow(run'[r]) /\ \A q \in Runs \ {r} : run'[q] = run[q]
<1>1. run \in [Runs -> Slot] /\ run[r] \in Slot
  BY DEF IndInv, TypeOK
<1>2. SlotFlow(run[r])
  BY DEF Flow
<1>3. SlotFlow(NoRun)
  BY DEF SlotFlow, NoRun
<1>4. CASE \E line : Quit(r, line) /\ Works(run[r])
  <2>1. PICK line : Quit(r, line) /\ Works(run[r])
    BY <1>4
  <2> DEFINE new == [run[r] EXCEPT !.pc = "wait", !.failed = TRUE, !.batch = {},
                                   !.pipe = @ \ line]
  <2>2. run' = [run EXCEPT ![r] = new]
    BY <2>1 DEF Quit
  <2>3. new.pc = "wait" /\ new.failed /\ new.proc = run[r].proc /\ new.todo = run[r].todo
    BY <1>1 DEF Slot
  <2> HIDE DEF new
  <2>4. SlotFlow(new)
    BY <1>2, <2>3 DEF SlotFlow
  <2>5. QED
    BY <1>1, <2>2, <2>4
<1>5. CASE \E next : Commit(r, next) /\ run[r].pc = "read" /\ next = "begin"
  <2> DEFINE new == [run[r] EXCEPT !.pc = "begin", !.batch = {},
                                   !.saved = @ \cup run[r].batch]
  <2>1. run' = [run EXCEPT ![r] = new]
    BY <1>5 DEF Commit
  <2>2. /\ new.pc = "begin" /\ new.failed = run[r].failed /\ new.proc = run[r].proc
        /\ new.todo = run[r].todo /\ new.pipe = run[r].pipe /\ new.batch = {}
        /\ new.saved = run[r].saved \cup run[r].batch /\ new.always = run[r].always
        /\ new.cancelled = run[r].cancelled
    BY <1>1 DEF Slot
  <2> HIDE DEF new
  <2>3. SlotFlow(new)
    BY <1>2, <1>5, <2>2 DEF SlotFlow
  <2>4. QED
    BY <1>1, <2>1, <2>3
<1>6. CASE /\ Commit(r, "sweep") /\ run[r].pc = "read"
           /\ run[r].pipe = {} /\ Ended(r)
  <2> DEFINE new == [run[r] EXCEPT !.pc = "sweep", !.batch = {},
                                   !.saved = @ \cup run[r].batch]
  <2>1. run' = [run EXCEPT ![r] = new]
    BY <1>6 DEF Commit
  <2>2. /\ new.pc = "sweep" /\ new.failed = run[r].failed /\ new.proc = run[r].proc
        /\ new.todo = run[r].todo /\ new.pipe = run[r].pipe /\ new.batch = {}
        /\ new.saved = run[r].saved \cup run[r].batch /\ new.always = run[r].always
        /\ new.cancelled = run[r].cancelled
    BY <1>1 DEF Slot
  <2> HIDE DEF new
  <2>3. SlotFlow(new)
    BY <1>2, <1>6, <2>2 DEF SlotFlow, Ended
  <2>4. QED
    BY <1>1, <2>1, <2>3
<1>7. CASE \E p \in run[r].pipe :
             /\ run[r].pc = "read"
             /\ run' = [run EXCEPT ![r].pipe = @ \ {p}, ![r].batch = @ \cup {p}]
  <2>1. PICK p \in run[r].pipe :
             /\ run[r].pc = "read"
             /\ run' = [run EXCEPT ![r].pipe = @ \ {p}, ![r].batch = @ \cup {p}]
    BY <1>7
  <2> DEFINE new == [run[r] EXCEPT !.pipe = @ \ {p}, !.batch = @ \cup {p}]
  <2>2. run' = [run EXCEPT ![r] = new]
    BY <2>1
  <2>3. /\ new.pc = "read" /\ new.failed = run[r].failed /\ new.proc = run[r].proc
        /\ new.todo = run[r].todo /\ new.pipe = run[r].pipe \ {p}
        /\ new.batch = run[r].batch \cup {p} /\ new.cancelled = run[r].cancelled
        /\ new.saved = run[r].saved /\ new.always = run[r].always
    BY <1>1, <2>1 DEF Slot
  <2> HIDE DEF new
  <2>4. SlotFlow(new)
    BY <1>2, <2>1, <2>3 DEF SlotFlow
  <2>5. QED
    BY <1>1, <2>2, <2>4
<1>8. CASE \E p \in run[r].todo :
             /\ run[r].proc = "writing"
             /\ run' = [run EXCEPT ![r].todo = @ \ {p}, ![r].pipe = @ \cup {p}]
  <2>1. PICK p \in run[r].todo :
             /\ run[r].proc = "writing"
             /\ run' = [run EXCEPT ![r].todo = @ \ {p}, ![r].pipe = @ \cup {p}]
    BY <1>8
  <2> DEFINE new == [run[r] EXCEPT !.todo = @ \ {p}, !.pipe = @ \cup {p}]
  <2>2. run' = [run EXCEPT ![r] = new]
    BY <2>1
  <2>3. /\ new.pc = run[r].pc /\ new.failed = run[r].failed /\ new.proc = "writing"
        /\ new.todo = run[r].todo \ {p} /\ new.pipe = run[r].pipe \cup {p}
        /\ new.batch = run[r].batch /\ new.cancelled = run[r].cancelled
        /\ new.saved = run[r].saved /\ new.always = run[r].always
    BY <1>1, <2>1 DEF Slot
  <2> HIDE DEF new
  <2>4. SlotFlow(new)
    BY <1>2, <2>1, <2>3 DEF SlotFlow
  <2>5. QED
    BY <1>1, <2>2, <2>4
<1>9. CASE /\ run[r].proc \in {"walking", "writing"}
           /\ \/ run[r].cancelled \/ ScannerCrashes
           /\ \E cut : run' = [run EXCEPT ![r].proc = "failed", ![r].pipe = @ \cup cut]
  <2>1. PICK cut : run' = [run EXCEPT ![r].proc = "failed", ![r].pipe = @ \cup cut]
    BY <1>9
  <2> DEFINE new == [run[r] EXCEPT !.proc = "failed", !.pipe = @ \cup cut]
  <2>2. run' = [run EXCEPT ![r] = new]
    BY <2>1
  <2>3. /\ new.pc = run[r].pc /\ new.failed = run[r].failed /\ new.proc = "failed"
        /\ new.saved = run[r].saved /\ new.cancelled = run[r].cancelled
    BY <1>1 DEF Slot
  <2> HIDE DEF new
  <2>4. SlotFlow(new)
    BY <1>2, <1>9, <2>3 DEF SlotFlow
  <2>5. QED
    BY <1>1, <2>2, <2>4
<1>10. CASE Spawn(r)
  <2> DEFINE new == [run[r] EXCEPT !.pc = "begin", !.proc = "walking",
                                   !.always = disk[run[r].root], !.ever = disk[run[r].root]]
  <2>1. run' = [run EXCEPT ![r] = new]
    BY <1>10 DEF Spawn
  <2>2. /\ new.pc = "begin" /\ new.proc = "walking"
        /\ new.failed = run[r].failed
    BY <1>1 DEF Slot
  <2> HIDE DEF new
  <2>3. SlotFlow(new)
    BY <1>2, <1>10, <2>2 DEF SlotFlow, Spawn
  <2>4. QED
    BY <1>1, <2>1, <2>3
<1>11. CASE SpawnFails(r)
  <2> DEFINE new == [run[r] EXCEPT !.pc = "finish", !.failed = TRUE]
  <2>1. run' = [run EXCEPT ![r] = new]
    BY <1>11 DEF SpawnFails
  <2>2. /\ new.pc = "finish" /\ new.failed
        /\ new.proc = run[r].proc /\ new.todo = run[r].todo
    BY <1>1 DEF Slot
  <2> HIDE DEF new
  <2>3. SlotFlow(new)
    BY <1>2, <1>11, <2>2 DEF SlotFlow, SpawnFails
  <2>4. QED
    BY <1>1, <2>1, <2>3
<1>12. CASE Wait(r)
  <2> DEFINE lost == run[r].failed \/ run[r].proc = "failed"
             new  == [run[r] EXCEPT !.pc = "finish", !.failed = lost]
  <2>1. run' = [run EXCEPT ![r] = new]
    BY <1>12 DEF Wait
  <2>2. /\ new.pc = "finish" /\ new.failed = lost
        /\ new.proc = run[r].proc /\ new.todo = run[r].todo
        /\ new.pipe = run[r].pipe /\ new.batch = run[r].batch
        /\ new.saved = run[r].saved /\ new.always = run[r].always
        /\ new.cancelled = run[r].cancelled
    BY <1>1 DEF Slot
  <2> HIDE DEF new
  <2>3. CASE lost
    <3>1. new.failed
      BY <2>2, <2>3
    <3>2. SlotFlow(new)
      BY <1>2, <2>2, <3>1 DEF SlotFlow
    <3>3. QED
      BY <1>1, <2>1, <3>2
  <2>4. CASE ~lost
    <3>1. ~new.failed /\ ~run[r].failed /\ run[r].proc = "exited" /\ run[r].pc = "wait"
      BY <1>12, <2>2, <2>4 DEF Wait, Ended
    <3>2. SlotFlow(new)
      BY <1>2, <2>2, <3>1 DEF SlotFlow
    <3>3. QED
      BY <1>1, <2>1, <3>2
  <2>5. QED
    BY <2>3, <2>4
<1>13. CASE RollbackOnCancel(r)
  <2> DEFINE new == [run[r] EXCEPT !.batch = {}]
  <2>1. run' = [run EXCEPT ![r] = new]
    BY <1>13 DEF RollbackOnCancel
  <2>2. /\ new.pc = run[r].pc /\ new.failed = run[r].failed
        /\ new.proc = run[r].proc /\ new.todo = run[r].todo
        /\ new.saved = run[r].saved /\ new.cancelled = run[r].cancelled
    BY <1>1 DEF Slot
  <2> HIDE DEF new
  <2>3. SlotFlow(new)
    BY <1>2, <1>13, <2>2 DEF SlotFlow, RollbackOnCancel
  <2>4. QED
    BY <1>1, <2>1, <2>3
<1>14. CASE Walk(r)
  <2>1. PICK found \in SUBSET run[r].ever :
          /\ run[r].always \ Unreadable \subseteq found
          /\ run' = [run EXCEPT ![r].proc = "writing", ![r].todo = found]
    BY <1>14 DEF Walk
  <2> DEFINE new == [run[r] EXCEPT !.proc = "writing", !.todo = found]
  <2>2. run' = [run EXCEPT ![r] = new]
    BY <2>1
  <2>3. /\ new.pc = run[r].pc /\ new.failed = run[r].failed /\ new.proc = "writing"
        /\ new.todo = found /\ new.saved = run[r].saved /\ new.always = run[r].always
        /\ new.cancelled = run[r].cancelled
    BY <1>1 DEF Slot
  <2>4. run[r].proc = "walking"
    BY <1>14 DEF Walk
  <2> HIDE DEF new
  <2>5. SlotFlow(new)
    BY <1>2, <2>1, <2>3, <2>4 DEF SlotFlow
  <2>6. QED
    BY <1>1, <2>2, <2>5
<1>15. CASE Exit(r)
  <2> DEFINE new == [run[r] EXCEPT !.proc = "exited"]
  <2>1. run' = [run EXCEPT ![r] = new]
    BY <1>15 DEF Exit
  <2>2. /\ new.proc = "exited"
        /\ new.pc = run[r].pc /\ new.failed = run[r].failed
        /\ new.todo = run[r].todo /\ new.pipe = run[r].pipe
        /\ new.batch = run[r].batch /\ new.saved = run[r].saved
        /\ new.always = run[r].always /\ new.cancelled = run[r].cancelled
    BY <1>1 DEF Slot
  <2> HIDE DEF new
  <2>3. SlotFlow(new)
    BY <1>2, <1>15, <2>2 DEF SlotFlow, Exit
  <2>4. QED
    BY <1>1, <2>1, <2>3
<1>16. CASE Kill(r)
  <2> DEFINE new == [run[r] EXCEPT !.proc = "failed"]
  <2>1. run' = [run EXCEPT ![r] = new]
    BY <1>16 DEF Kill
  <2>2. /\ new.proc = "failed"
        /\ new.pc = run[r].pc /\ new.failed = run[r].failed
        /\ new.saved = run[r].saved /\ new.cancelled = run[r].cancelled
    BY <1>1 DEF Slot
  <2> HIDE DEF new
  <2>3. SlotFlow(new)
    BY <1>2, <1>16, <2>2 DEF SlotFlow, Kill
  <2>4. QED
    BY <1>1, <2>1, <2>3
<1>17. CASE Start(r)
  <2> DEFINE new == [run[r] EXCEPT !.pc = "spawn"]
  <2>1. run' = [run EXCEPT ![r] = NoRun] \/ run' = [run EXCEPT ![r] = new]
    BY <1>17 DEF Start
  <2>2. /\ new.pc = "spawn" /\ new.proc = run[r].proc /\ new.failed = run[r].failed
        /\ new.saved = run[r].saved
    BY <1>1 DEF Slot
  <2> HIDE DEF new
  <2>3. SlotFlow(new)
    BY <1>2, <1>17, <2>2 DEF SlotFlow, Start
  <2>4. QED
    BY <1>1, <1>3, <2>1, <2>3
<1>18. CASE Finish(r)
  BY <1>1, <1>3, <1>18 DEF Finish
<1>19. CASE UNCHANGED run
  BY <1>2, <1>19
<1>20. CASE \E next \in {"read", "wait"} :
              /\ run[r].pc = IF next = "read" THEN "begin" ELSE "sweep"
              /\ run' = [run EXCEPT ![r].pc = next]
  <2>1. PICK next \in {"read", "wait"} :
              /\ run[r].pc = IF next = "read" THEN "begin" ELSE "sweep"
              /\ run' = [run EXCEPT ![r].pc = next]
    BY <1>20
  <2> DEFINE new == [run[r] EXCEPT !.pc = next]
  <2>2. run' = [run EXCEPT ![r] = new]
    BY <2>1
  <2>3. /\ new.pc = next /\ new.failed = run[r].failed
        /\ new.proc = run[r].proc /\ new.todo = run[r].todo
        /\ new.pipe = run[r].pipe /\ new.batch = run[r].batch
        /\ new.saved = run[r].saved /\ new.always = run[r].always
        /\ new.cancelled = run[r].cancelled
    BY <1>1 DEF Slot
  <2> HIDE DEF new
  <2>4. SlotFlow(new)
    BY <1>2, <2>1, <2>3 DEF SlotFlow
  <2>5. QED
    BY <1>1, <2>2, <2>4
<1>21. QED
  <2>1. CASE Begin(r)
    BY <2>1, <1>4, <1>20 DEF Begin, Works
  <2>2. CASE ReadLine(r)
    <3>1. PICK p \in First(run[r].pipe) :
            \/ Quit(r, {p})
            \/ run' = [run EXCEPT ![r].pipe = @ \ {p}, ![r].batch = @ \cup {p}]
      BY <2>2 DEF ReadLine
    <3>2. p \in run[r].pipe /\ run[r].pc = "read" /\ Works(run[r])
      BY <2>2, FirstIsMember DEF ReadLine, Works
    <3>3. QED
      BY <3>1, <3>2, <1>4, <1>7
  <2>3. CASE CommitBatch(r)
    BY <2>3, <1>4, <1>5 DEF CommitBatch, Works
  <2>4. CASE ReadEnd(r)
    BY <2>4, <1>4, <1>6 DEF ReadEnd, Works
  <2>5. CASE Sweep(r)
    BY <2>5, <1>4, <1>20 DEF Sweep, Works
  <2>6. CASE Emit(r)
    <3>1. PICK p \in First(run[r].todo) :
            run' = [run EXCEPT ![r].todo = @ \ {p}, ![r].pipe = @ \cup {p}]
      BY <2>6 DEF Emit
    <3>2. p \in run[r].todo /\ run[r].proc = "writing"
      BY <2>6, FirstIsMember DEF Emit
    <3>3. QED
      BY <3>1, <3>2, <1>8
  <2>7. CASE Crash(r)
    <3>1. \E cut : run' = [run EXCEPT ![r].proc = "failed", ![r].pipe = @ \cup cut]
      BY <2>7 DEF Crash
    <3>2. QED
      BY <2>7, <3>1, <1>9 DEF Crash
  <2>8. CASE StatementFails(r)
    BY <2>8, <1>4, FailureQuits
  <2>9. QED
    BY <2>1, <2>2, <2>3, <2>4, <2>5, <2>6, <2>7, <2>8, <1>10, <1>11, <1>12, <1>13, <1>14,
       <1>15, <1>16, <1>17, <1>18 DEF Goroutine, Scanner

LEMMA FlowInit == Init => Flow
<1>1. SlotFlow(NoRun)
  BY DEF SlotFlow, NoRun
<1>2. QED
  BY <1>1 DEF Init, Flow

\* Cancelling only weakens what is asked of a slot, and files come and go where
\* it matters only while the walk has not ended.
LEMMA FlowNext == IndInv /\ Flow /\ [Next]_vars => Flow'
<1> SUFFICES ASSUME IndInv, Flow, [Next]_vars PROVE Flow'
  OBVIOUS
<1>1. run \in [Runs -> Slot]
  BY DEF IndInv, TypeOK
<1>2. ASSUME NEW r \in Runs,
             \/ Goroutine(r) \/ Begin(r) \/ Sweep(r) \/ StatementFails(r)
             \/ Scanner(r) \/ Crash(r)
      PROVE  Flow'
  BY <1>2, FlowOfSlot DEF Flow
<1>3. ASSUME NEW r \in Runs, NEW s \in Storages, Lookup(r, s) PROVE Flow'
  <2> DEFINE new == [run[r] EXCEPT !.pc = "looked", !.storage = s, !.root = rootOf[s]]
  <2>1. run' = [run EXCEPT ![r] = new]
    BY <1>3 DEF Lookup
  <2>2. /\ new.pc = "looked" /\ new.proc = run[r].proc /\ new.failed = run[r].failed
        /\ new.saved = run[r].saved
    BY <1>1 DEF Slot
  <2> HIDE DEF new
  <2>3. SlotFlow(new)
    BY <1>3, <2>2 DEF Flow, SlotFlow, Lookup
  <2>4. QED
    BY <1>1, <2>1, <2>3 DEF Flow
<1>4. ASSUME NEW s \in Storages, Cancel(s) PROVE Flow'
  <2> DEFINE r   == jobs[s].run
             new == [run[r] EXCEPT !.cancelled = TRUE]
  <2>1. run' = [run EXCEPT ![r] = new] /\ r \in Runs
    BY <1>4 DEF Cancel, IndInv, JobTracksRun
  <2>2. /\ new.pc = run[r].pc /\ new.proc = run[r].proc /\ new.failed = run[r].failed
        /\ new.saved = run[r].saved /\ new.todo = run[r].todo /\ new.cancelled
    BY <1>1, <2>1 DEF Slot
  <2> HIDE DEF new
  <2>3. SlotFlow(new)
    BY <2>1, <2>2 DEF Flow, SlotFlow
  <2>4. QED
    BY <1>1, <2>1, <2>3 DEF Flow
<1>5. ASSUME NEW d \in Roots, NEW p \in Volatile, DiskChange(d, p) PROVE Flow'
  <2>1. ASSUME NEW r \in Runs PROVE SlotFlow(run'[r])
    <3> DEFINE on  == IF p \in disk[d] THEN disk[d] \ {p} ELSE disk[d] \cup {p}
               new == [run[r] EXCEPT !.always = @ \cap on, !.ever = @ \cup on]
    <3>1. run'[r] = run[r] \/ (run'[r] = new /\ run[r].proc = "walking")
      BY <1>5 DEF DiskChange
    <3>2. /\ new.pc = run[r].pc /\ new.proc = run[r].proc /\ new.failed = run[r].failed
          /\ new.saved = run[r].saved /\ new.todo = run[r].todo
          /\ new.cancelled = run[r].cancelled
      BY <1>1 DEF Slot
    <3> HIDE DEF new
    <3>3. SlotFlow(run[r]) /\ (run[r].proc = "walking" => SlotFlow(new))
      BY <3>2 DEF Flow, SlotFlow
    <3>4. QED
      BY <3>1, <3>3
  <2>2. QED
    BY <2>1 DEF Flow
<1>6. CASE Restart
  BY <1>6, FlowInit DEF Restart, Flow, SlotFlow, NoRun
<1>7. CASE UNCHANGED run
  BY <1>7 DEF Flow
<1>8. QED
  BY <1>2, <1>3, <1>4, <1>5, <1>6, <1>7
     DEF Next, Environment, vars, Materialize, CreateStorage, UpdateStorageRoot, DeleteStorage

-----------------------------------------------------------------------------
(* Committed rows stay fresh *)

LEMMA FreshInit == Init => SavedFresh
  BY DEF Init, SavedFresh, Active, NoRun

\* A run that was active before and has committed nothing new.
Carried(r) ==
  /\ Active(r) /\ run'[r].storage = run[r].storage /\ run'[r].saved \subseteq run[r].saved

\* Rows of one storage change only where they are not among the saved ones, or
\* for the better.
LEMMA FreshStep ==
  ASSUME SavedFresh, TypeOK, SlotHasStorage, TypeOK', SlotHasStorage',
         \A r \in Runs : Active(r)' => run'[r].saved = {} \/ Carried(r),
         \A r \in Runs : Active(r) => \A p \in run[r].saved :
           rows[run[r].storage][p] \notin {"stale", "missing"}
             => rows'[run[r].storage][p] \notin {"stale", "missing"}
  PROVE  SavedFresh'
<1> SUFFICES ASSUME NEW r \in Runs, Active(r)', NEW p \in run'[r].saved
             PROVE  rows'[run'[r].storage][p] \notin {"stale", "missing"}
  BY DEF SavedFresh
<1>1. Carried(r)
  OBVIOUS
<1>2. p \in run[r].saved /\ run'[r].storage = run[r].storage /\ Active(r)
  BY <1>1 DEF Carried
<1>3. QED
  BY <1>2 DEF SavedFresh

\* Steps that leave the rows alone and commit nothing.
LEMMA FreshQuiet ==
  ASSUME IndInv, SavedFresh, IndInv', UNCHANGED rows,
         \A r \in Runs : Active(r)' => run'[r].saved = {} \/ Carried(r)
  PROVE  SavedFresh'
  BY FreshStep DEF IndInv

\* The rows of other storages than that of an active run.
LEMMA OthersElsewhere ==
  ASSUME JobTracksRun, NEW r \in Runs, Active(r)
  PROVE  \A q \in Runs \ {r} : Active(q) => run[q].storage # run[r].storage
  BY OwnJob

LEMMA FreshCommit ==
  ASSUME IndInv, SavedFresh, NEW r \in Runs, NEW next \in {"begin", "sweep"},
         Commit(r, next), run[r].pc = "read"
  PROVE  SavedFresh'
<1> DEFINE s == run[r].storage
<1>1. /\ run[r] \in Slot /\ s \in Storages /\ Active(r)
      /\ run \in [Runs -> Slot] /\ rows \in [Storages -> [Paths -> RowStates]]
  BY DEF IndInv, TypeOK, SlotHasStorage, Active
<1>2. /\ run'[r].storage = s /\ run'[r].saved = run[r].saved \cup run[r].batch
      /\ \A q \in Runs \ {r} : run'[q] = run[q]
  BY <1>1 DEF Commit, Slot
<1>3. /\ \A p \in Paths : rows'[s][p] = IF p \in run[r].batch THEN "current" ELSE rows[s][p]
      /\ \A t \in Storages \ {s} : rows'[t] = rows[t]
  BY <1>1 DEF Commit
<1>4. ASSUME NEW q \in Runs, Active(q)', NEW p \in run'[q].saved
      PROVE  rows'[run'[q].storage][p] \notin {"stale", "missing"}
  <2>1. CASE q = r
    <3>1. p \in Paths /\ p \in run[r].saved \cup run[r].batch
      BY <1>1, <1>2, <1>4, <2>1 DEF Slot
    <3>2. QED
      BY <1>1, <1>2, <1>3, <2>1, <3>1 DEF SavedFresh
  <2>2. CASE q # r
    <3>1. Active(q) /\ run'[q] = run[q] /\ run[q].storage \in Storages \ {s}
      BY <1>1, <1>2, <1>4, <2>2, OthersElsewhere DEF Active, IndInv, SlotHasStorage
    <3>2. QED
      BY <1>3, <1>4, <3>1 DEF SavedFresh
  <2>3. QED
    BY <2>1, <2>2
<1>5. QED
  BY <1>4 DEF SavedFresh

\* A new stamp ages rows of a storage for which nothing is committed yet.
LEMMA FreshSpawn ==
  ASSUME IndInv, Flow, SavedFresh, IndInv', NEW r \in Runs, Spawn(r)
  PROVE  SavedFresh'
<1> DEFINE s == run[r].storage
<1>1. /\ run[r] \in Slot /\ s \in Storages /\ Active(r) /\ run[r].saved = {}
      /\ run \in [Runs -> Slot] /\ rows \in [Storages -> [Paths -> RowStates]]
  BY DEF IndInv, TypeOK, SlotHasStorage, Active, Spawn, Flow, SlotFlow
<1>2. run'[r].saved = {} /\ \A q \in Runs \ {r} : run'[q] = run[q]
  BY <1>1 DEF Spawn, Slot
<1>3. \A t \in Storages \ {s} : rows'[t] = rows[t]
  BY <1>1 DEF Spawn
<1>4. \A q \in Runs : Active(q)' => run'[q].saved = {} \/ Carried(q)
  BY <1>2 DEF Carried, Active
<1>5. \A q \in Runs : Active(q) => \A p \in run[q].saved :
        rows[run[q].storage][p] \notin {"stale", "missing"}
          => rows'[run[q].storage][p] \notin {"stale", "missing"}
  <2>1. \A q \in Runs \ {r} : Active(q) => run[q].storage \in Storages \ {s}
    BY <1>1, OthersElsewhere DEF IndInv, SlotHasStorage, Active
  <2>2. QED
    BY <1>1, <1>3, <2>1
<1>6. QED
  BY <1>4, <1>5, FreshStep DEF IndInv

\* The steps of one run that commit nothing carry what is committed over.
LEMMA Carrying ==
  ASSUME IndInv, Flow, NEW r \in Runs,
         \/ Start(r) \/ SpawnFails(r) \/ RollbackOnCancel(r) \/ ReadLine(r) \/ Wait(r)
         \/ Finish(r) \/ Begin(r) \/ Sweep(r) \/ Scanner(r) \/ Crash(r)
         \/ (\E line : Quit(r, line) /\ Active(r))
  PROVE  \A q \in Runs : Active(q)' => run'[q].saved = {} \/ Carried(q)
<1>1. run \in [Runs -> Slot] /\ run[r] \in Slot
  BY DEF IndInv, TypeOK
<1>2. ASSUME NEW new, run' = [run EXCEPT ![r] = new],
             Works(new) => \/ new.saved = {}
                           \/ /\ Works(run[r]) /\ new.storage = run[r].storage
                              /\ new.saved \subseteq run[r].saved
      PROVE  \A q \in Runs : Active(q)' => run'[q].saved = {} \/ Carried(q)
  BY <1>1, <1>2 DEF Carried, Active, Works
<1>3. ASSUME NEW line, Quit(r, line), Active(r)
      PROVE  \A q \in Runs : Active(q)' => run'[q].saved = {} \/ Carried(q)
  <2> DEFINE new == [run[r] EXCEPT !.pc = "wait", !.failed = TRUE, !.batch = {},
                                   !.pipe = @ \ line]
  <2>1. new.storage = run[r].storage /\ new.saved = run[r].saved
    BY <1>1 DEF Slot
  <2>2. run' = [run EXCEPT ![r] = new]
    BY <1>3 DEF Quit
  <2> HIDE DEF new
  <2>3. QED
    BY <1>2, <1>3, <2>1, <2>2 DEF Active, Works
<1>4. CASE Start(r)
  <2> DEFINE new == [run[r] EXCEPT !.pc = "spawn"]
  <2>1. new.saved = {} /\ ~Works(NoRun)
    BY <1>1, <1>4 DEF Slot, Start, Flow, SlotFlow, NoRun, Works
  <2>2. run' = [run EXCEPT ![r] = NoRun] \/ run' = [run EXCEPT ![r] = new]
    BY <1>4 DEF Start
  <2> HIDE DEF new
  <2>3. QED
    BY <1>2, <2>1, <2>2
<1>5. CASE SpawnFails(r)
  <2> DEFINE new == [run[r] EXCEPT !.pc = "finish", !.failed = TRUE]
  <2>1. new.storage = run[r].storage /\ new.saved = run[r].saved /\ Works(run[r])
    BY <1>1, <1>5 DEF Slot, SpawnFails, Works
  <2>2. run' = [run EXCEPT ![r] = new]
    BY <1>5 DEF SpawnFails
  <2> HIDE DEF new
  <2>3. QED
    BY <1>2, <2>1, <2>2
<1>6. CASE RollbackOnCancel(r)
  <2> DEFINE new == [run[r] EXCEPT !.batch = {}]
  <2>1. new.storage = run[r].storage /\ new.saved = run[r].saved /\ new.pc = run[r].pc
    BY <1>1 DEF Slot
  <2>2. run' = [run EXCEPT ![r] = new]
    BY <1>6 DEF RollbackOnCancel
  <2> HIDE DEF new
  <2>3. QED
    BY <1>2, <2>1, <2>2 DEF Works
<1>7. CASE ReadLine(r)
  <2>1. PICK p \in First(run[r].pipe) :
          \/ Quit(r, {p})
          \/ run' = [run EXCEPT ![r].pipe = @ \ {p}, ![r].batch = @ \cup {p}]
    BY <1>7 DEF ReadLine
  <2> DEFINE new == [run[r] EXCEPT !.pipe = @ \ {p}, !.batch = @ \cup {p}]
  <2>2. new.storage = run[r].storage /\ new.saved = run[r].saved /\ Works(run[r]) /\ Active(r)
    BY <1>1, <1>7 DEF Slot, ReadLine, Works, Active
  <2>3. Quit(r, {p}) \/ run' = [run EXCEPT ![r] = new]
    BY <2>1
  <2> HIDE DEF new
  <2>4. QED
    BY <1>2, <1>3, <2>2, <2>3
<1>8. CASE Wait(r)
  <2> DEFINE new == [run[r] EXCEPT !.pc = "finish", !.failed = @ \/ run[r].proc = "failed"]
  <2>1. new.storage = run[r].storage /\ new.saved = run[r].saved /\ Works(run[r])
    BY <1>1, <1>8 DEF Slot, Wait, Works
  <2>2. run' = [run EXCEPT ![r] = new]
    BY <1>8 DEF Wait
  <2> HIDE DEF new
  <2>3. QED
    BY <1>2, <2>1, <2>2
<1>9. CASE Finish(r)
  <2>1. run' = [run EXCEPT ![r] = NoRun] /\ NoRun.saved = {}
    BY <1>9 DEF Finish, NoRun
  <2>2. QED
    BY <1>2, <2>1
<1>10. ASSUME NEW next, run' = [run EXCEPT ![r].pc = next], Active(r)
       PROVE  \A q \in Runs : Active(q)' => run'[q].saved = {} \/ Carried(q)
  <2> DEFINE new == [run[r] EXCEPT !.pc = next]
  <2>1. new.storage = run[r].storage /\ new.saved = run[r].saved
    BY <1>1 DEF Slot
  <2>2. run' = [run EXCEPT ![r] = new]
    BY <1>10
  <2> HIDE DEF new
  <2>3. QED
    BY <1>2, <1>10, <2>1, <2>2 DEF Active, Works
<1>11. CASE Begin(r)
  BY <1>3, <1>10, <1>11 DEF Begin, Active
<1>12. CASE Sweep(r)
  BY <1>3, <1>10, <1>12 DEF Sweep, Active
<1>13. CASE Scanner(r) \/ Crash(r)
  <2>1. ASSUME NEW new, run' = [run EXCEPT ![r] = new], new.storage = run[r].storage,
               new.saved = run[r].saved, new.pc = run[r].pc
        PROVE  \A q \in Runs : Active(q)' => run'[q].saved = {} \/ Carried(q)
    BY <1>2, <2>1 DEF Works
  <2>2. CASE Walk(r)
    <3>1. PICK found : run' = [run EXCEPT ![r].proc = "writing", ![r].todo = found]
      BY <2>2 DEF Walk
    <3> DEFINE new == [run[r] EXCEPT !.proc = "writing", !.todo = found]
    <3>2. run' = [run EXCEPT ![r] = new]
      BY <3>1
    <3>3. new.storage = run[r].storage /\ new.saved = run[r].saved /\ new.pc = run[r].pc
      BY <1>1 DEF Slot
    <3> HIDE DEF new
    <3>4. QED
      BY <2>1, <3>2, <3>3
  <2>3. CASE Emit(r)
    <3>1. PICK p : run' = [run EXCEPT ![r].todo = @ \ {p}, ![r].pipe = @ \cup {p}]
      BY <2>3 DEF Emit
    <3> DEFINE new == [run[r] EXCEPT !.todo = @ \ {p}, !.pipe = @ \cup {p}]
    <3>2. run' = [run EXCEPT ![r] = new]
      BY <3>1
    <3>3. new.storage = run[r].storage /\ new.saved = run[r].saved /\ new.pc = run[r].pc
      BY <1>1 DEF Slot
    <3> HIDE DEF new
    <3>4. QED
      BY <2>1, <3>2, <3>3
  <2>4. CASE Exit(r)
    <3> DEFINE new == [run[r] EXCEPT !.proc = "exited"]
    <3>1. run' = [run EXCEPT ![r] = new]
      BY <2>4 DEF Exit
    <3>2. new.storage = run[r].storage /\ new.saved = run[r].saved /\ new.pc = run[r].pc
      BY <1>1 DEF Slot
    <3> HIDE DEF new
    <3>3. QED
      BY <2>1, <3>1, <3>2
  <2>5. CASE Kill(r)
    <3> DEFINE new == [run[r] EXCEPT !.proc = "failed"]
    <3>1. run' = [run EXCEPT ![r] = new]
      BY <2>5 DEF Kill
    <3>2. new.storage = run[r].storage /\ new.saved = run[r].saved /\ new.pc = run[r].pc
      BY <1>1 DEF Slot
    <3> HIDE DEF new
    <3>3. QED
      BY <2>1, <3>1, <3>2
  <2>6. CASE Crash(r)
    <3>1. PICK cut : run' = [run EXCEPT ![r].proc = "failed", ![r].pipe = @ \cup cut]
      BY <2>6 DEF Crash
    <3> DEFINE new == [run[r] EXCEPT !.proc = "failed", !.pipe = @ \cup cut]
    <3>2. run' = [run EXCEPT ![r] = new]
      BY <3>1
    <3>3. new.storage = run[r].storage /\ new.saved = run[r].saved /\ new.pc = run[r].pc
      BY <1>1 DEF Slot
    <3> HIDE DEF new
    <3>4. QED
      BY <2>1, <3>2, <3>3
  <2>7. QED
    BY <1>13, <2>2, <2>3, <2>4, <2>5, <2>6 DEF Scanner
<1>14. QED
  BY <1>3, <1>4, <1>5, <1>6, <1>7, <1>8, <1>9, <1>11, <1>12, <1>13

LEMMA FreshSweep ==
  ASSUME IndInv, Flow, SavedFresh, IndInv', NEW r \in Runs, Sweep(r)
  PROVE  SavedFresh'
<1>1. run[r].storage \in Storages /\ rows \in [Storages -> [Paths -> RowStates]]
  BY DEF IndInv, TypeOK, SlotHasStorage, Sweep
<1>2. \A q \in Runs : Active(q)' => run'[q].saved = {} \/ Carried(q)
  BY Carrying
<1>3. \A t \in Storages, p \in Paths :
        rows[t][p] \notin {"stale", "missing"} => rows'[t][p] \notin {"stale", "missing"}
  BY <1>1 DEF Sweep, Quit
<1>4. \A q \in Runs : Active(q) => run[q].storage \in Storages /\ run[q].saved \subseteq Paths
  BY DEF IndInv, TypeOK, SlotHasStorage, Active, Slot
<1>5. QED
  BY <1>2, <1>3, <1>4, FreshStep DEF IndInv

LEMMA FreshNext == IndInv /\ Flow /\ SavedFresh /\ [Next]_vars => SavedFresh'
<1> SUFFICES ASSUME IndInv, Flow, SavedFresh, [Next]_vars PROVE SavedFresh'
  OBVIOUS
<1>1. /\ IndInv' /\ run \in [Runs -> Slot] /\ rows \in [Storages -> [Paths -> RowStates]]
      /\ \A q \in Runs : Active(q) => run[q].storage \in Storages /\ run[q].saved \subseteq Paths
  BY NextInv DEF IndInv, TypeOK, SlotHasStorage, Active, Slot
<1>2. ASSUME NEW r \in Runs,
             \/ Start(r) \/ SpawnFails(r) \/ RollbackOnCancel(r) \/ ReadLine(r) \/ Wait(r)
             \/ Finish(r) \/ Begin(r) \/ Scanner(r) \/ Crash(r)
      PROVE  SavedFresh'
  <2>1. \A q \in Runs : Active(q)' => run'[q].saved = {} \/ Carried(q)
    BY <1>2, Carrying
  <2>2. UNCHANGED rows
    BY <1>2 DEF Start, SpawnFails, RollbackOnCancel, ReadLine, Quit, Wait, Finish, Begin,
                Scanner, Walk, Emit, Exit, Kill, Crash
  <2>3. QED
    BY <1>1, <2>1, <2>2, FreshQuiet
<1>3. ASSUME NEW r \in Runs, CommitBatch(r) \/ ReadEnd(r) PROVE SavedFresh'
  <2>1. run[r].pc = "read" /\ Active(r)
    BY <1>3 DEF CommitBatch, ReadEnd, Active
  <2>2. CASE Quit(r, {})
    <3>1. UNCHANGED rows
      BY <2>2 DEF Quit
    <3>2. \A q \in Runs : Active(q)' => run'[q].saved = {} \/ Carried(q)
      BY <2>1, <2>2, Carrying
    <3>3. QED
      BY <1>1, <3>1, <3>2, FreshQuiet
  <2>3. QED
    BY <1>3, <2>1, <2>2, FreshCommit DEF CommitBatch, ReadEnd
<1>4. ASSUME NEW r \in Runs, Spawn(r) \/ Sweep(r) \/ StatementFails(r) PROVE SavedFresh'
  <2>1. CASE StatementFails(r)
    <3>1. \A q \in Runs : Active(q)' => run'[q].saved = {} \/ Carried(q)
      BY <2>1, FailureQuits, Carrying
    <3>2. QED
      BY <1>1, <2>1, <3>1, FailureQuits, FreshQuiet
  <2>2. QED
    BY <1>1, <1>4, <2>1, FreshSpawn, FreshSweep
<1>5. ASSUME NEW r \in Runs, NEW s \in Storages, Lookup(r, s) PROVE SavedFresh'
  <2>1. \A q \in Runs : Active(q)' => q # r /\ run'[q] = run[q]
    BY <1>1, <1>5 DEF Lookup, Active, Slot
  <2>2. QED
    BY <1>1, <1>5, <2>1, FreshQuiet DEF Lookup, Carried, Active
<1>6. ASSUME NEW s \in Storages, Cancel(s) PROVE SavedFresh'
  <2> DEFINE r   == jobs[s].run
             new == [run[r] EXCEPT !.cancelled = TRUE]
  <2>1. run' = [run EXCEPT ![r] = new] /\ r \in Runs /\ UNCHANGED rows
    BY <1>6 DEF Cancel, IndInv, JobTracksRun
  <2>2. new.pc = run[r].pc /\ new.storage = run[r].storage /\ new.saved = run[r].saved
    BY <1>1, <2>1 DEF Slot
  <2> HIDE DEF new
  <2>3. QED
    BY <1>1, <2>1, <2>2, FreshQuiet DEF Carried, Active
<1>7. ASSUME NEW d \in Roots, NEW p \in Volatile, DiskChange(d, p) PROVE SavedFresh'
  <2>1. ASSUME NEW q \in Runs
        PROVE  /\ run'[q].pc = run[q].pc /\ run'[q].storage = run[q].storage
               /\ run'[q].saved = run[q].saved
    <3> DEFINE on  == IF p \in disk[d] THEN disk[d] \ {p} ELSE disk[d] \cup {p}
               new == [run[q] EXCEPT !.always = @ \cap on, !.ever = @ \cup on]
    <3>1. run'[q] \in {run[q], new}
      BY <1>7 DEF DiskChange
    <3>2. new.pc = run[q].pc /\ new.storage = run[q].storage /\ new.saved = run[q].saved
      BY <1>1 DEF Slot
    <3> HIDE DEF new
    <3>3. QED
      BY <3>1, <3>2
  <2>2. QED
    BY <1>1, <1>7, <2>1, FreshQuiet DEF DiskChange, Carried, Active
<1>8. ASSUME UNCHANGED run,
             \A s \in Storages, p \in Paths :
               rows'[s][p] \in {rows[s][p], "none", "untouched"}
      PROVE  SavedFresh'
  BY <1>1, <1>8, FreshStep DEF Carried, Active, IndInv
<1>9. ASSUME NEW s \in Storages, NEW p \in Taggable, Materialize(s, p) PROVE SavedFresh'
  BY <1>1, <1>8, <1>9, PathsAssumption DEF Materialize, Paths
<1>10. ASSUME NEW s \in Storages, DeleteStorage(s) PROVE SavedFresh'
  BY <1>1, <1>8, <1>10 DEF DeleteStorage
<1>11. CASE Restart
  BY <1>11 DEF Restart, SavedFresh, Active, NoRun
<1>12. CASE UNCHANGED <<run, rows>>
  BY <1>8, <1>12
<1>13. QED
  BY <1>2, <1>3, <1>4, <1>5, <1>6, <1>7, <1>9, <1>10, <1>11, <1>12
     DEF Next, Environment, Goroutine, vars, CreateStorage, UpdateStorageRoot

LEMMA Inductive == Spec => [](IndInv /\ Flow /\ SavedFresh)
<1>1. Init => Flow /\ SavedFresh
  BY FlowInit, FreshInit
<1>2. IndInv /\ Flow /\ SavedFresh /\ [Next]_vars => (IndInv /\ Flow /\ SavedFresh)'
  BY NextInv, FlowNext, FreshNext
<1>3. QED
  BY <1>1, <1>2, InitInv, PTL DEF Spec

\* Jobs, slots, connection and tables stay of their types.
THEOREM TypesKept == Spec => []TypeOK
<1>1. IndInv => TypeOK
  BY DEF IndInv
<1>2. QED
  BY <1>1, Inductive, PTL

\* At most one scan goroutine runs for a storage, and the job of the storage
\* names it, whatever is cancelled, deleted, created again or restarted.
THEOREM OneScanPerStorage == Spec => []JobTracksRun
<1>1. IndInv => JobTracksRun
  BY DEF IndInv
<1>2. QED
  BY <1>1, Inductive, PTL

\* No path through Ingest leaks the write connection or writes without it.
THEOREM ConnectionNotLeaked == Spec => []ConnectionFollowsTx
<1>1. IndInv => ConnectionFollowsTx
  BY DEF IndInv
<1>2. QED
  BY <1>1, Inductive, PTL

-----------------------------------------------------------------------------
(* What the sweep and the verdict of a job may rely on *)

\* Only a sweep makes a row missing.
LEMMA OnlySweepMarks ==
  ASSUME IndInv, [Next]_vars, NEW s \in Storages, NEW p \in Paths, NewlyMissing(s, p)
  PROVE  \E r \in Runs : /\ run[r].pc = "sweep" /\ ~run[r].cancelled
                         /\ run[r].storage = s /\ rows[s][p] = "stale"
<1>1. rows \in [Storages -> [Paths -> RowStates]]
  BY DEF IndInv, TypeOK
<1>2. ASSUME NEW r \in Runs, Sweep(r)
      PROVE  /\ run[r].pc = "sweep" /\ ~run[r].cancelled
             /\ run[r].storage = s /\ rows[s][p] = "stale"
  <2>1. run[r].storage \in Storages
    BY <1>2 DEF IndInv, SlotHasStorage, Sweep
  <2>2. QED
    BY <1>1, <1>2, <2>1 DEF Sweep, Quit, NewlyMissing
<1>3. ASSUME NEW r \in Runs, NEW next, Commit(r, next), run[r].pc = "read" PROVE FALSE
  <2>1. run[r].storage \in Storages
    BY <1>3 DEF IndInv, SlotHasStorage
  <2>2. QED
    BY <1>1, <1>3, <2>1 DEF Commit, NewlyMissing
<1>4. ASSUME NEW r \in Runs,
             Goroutine(r) \/ Begin(r) \/ StatementFails(r) \/ Scanner(r) \/ Crash(r)
      PROVE  FALSE
  <2>1. CASE Spawn(r)
    <3>1. run[r].storage \in Storages
      BY <2>1 DEF IndInv, SlotHasStorage, Spawn
    <3>2. QED
      BY <1>1, <2>1, <3>1 DEF Spawn, NewlyMissing
  <2>2. CASE CommitBatch(r) \/ ReadEnd(r)
    BY <1>3, <2>2 DEF CommitBatch, ReadEnd, Quit, NewlyMissing
  <2>3. CASE UNCHANGED rows
    BY <2>3 DEF NewlyMissing
  <2>4. ~StatementFails(r)
    BY FailureQuits DEF NewlyMissing
  <2>5. QED
    BY <1>4, <2>1, <2>2, <2>3, <2>4
       DEF Goroutine, Start, SpawnFails, RollbackOnCancel, ReadLine, Quit, Wait, Finish, Begin,
           Scanner, Walk, Emit, Exit, Kill, Crash
<1>5. ~Environment /\ ~UNCHANGED vars
  BY <1>1, <1>4 DEF Environment, Lookup, Cancel, DiskChange, Materialize, CreateStorage,
       UpdateStorageRoot, DeleteStorage, Restart, NewlyMissing, vars
<1>6. QED
  BY <1>2, <1>4, <1>5 DEF Next

\* The sweep of a scan spares every row that the scan has committed, and after a
\* scanner that ended well every path it was bound to find: nothing such a path
\* passes through on its way to the table loses it.
THEOREM SweepIsSound == Spec => SweepMarksOnlyUnseen
<1> DEFINE Unseen == \A s \in Storages, p \in Paths : NewlyMissing(s, p) =>
       /\ rows[s][p] \in Scanned
       /\ \E r \in Runs :
            /\ run[r].pc = "sweep" /\ run[r].storage = s
            /\ p \notin run[r].saved
            /\ run[r].proc = "exited" => p \notin run[r].always \ Unreadable
<1>1. IndInv /\ Flow /\ SavedFresh /\ [Next]_vars => Unseen
  <2> SUFFICES ASSUME IndInv, Flow, SavedFresh, [Next]_vars,
                      NEW s \in Storages, NEW p \in Paths, NewlyMissing(s, p)
               PROVE  /\ rows[s][p] \in Scanned
                      /\ \E r \in Runs :
                           /\ run[r].pc = "sweep" /\ run[r].storage = s
                           /\ p \notin run[r].saved
                           /\ run[r].proc = "exited" => p \notin run[r].always \ Unreadable
    OBVIOUS
  <2>1. PICK r \in Runs : /\ run[r].pc = "sweep" /\ ~run[r].cancelled
                          /\ run[r].storage = s /\ rows[s][p] = "stale"
    BY OnlySweepMarks
  <2>2. p \notin run[r].saved
    BY <2>1 DEF SavedFresh, Active
  <2>3. run[r].proc = "exited" => p \notin run[r].always \ Unreadable
    BY <2>1, <2>2 DEF Flow, SlotFlow
  <2>4. QED
    BY <2>1, <2>2, <2>3 DEF Scanned
<1>2. QED
  BY <1>1, Inductive, PTL DEF Spec, SweepMarksOnlyUnseen

\* A job that ends as done has its whole listing in the table.
THEOREM DoneIsIngested == Spec => DoneMeansIngested
<1> DEFINE Ingested == \A s \in Storages :
       jobs[s].state = "scanning" /\ jobs'[s].state = "done" =>
         LET r == jobs[s].run
         IN  /\ run[r].proc = "exited"
             /\ run[r].always \ Unreadable \subseteq run[r].saved
             /\ \A p \in run[r].saved : rows[s][p] \notin {"missing", "stale"}
<1>1. IndInv /\ Flow /\ SavedFresh /\ [Next]_vars => Ingested
  <2> SUFFICES ASSUME IndInv, Flow, SavedFresh, [Next]_vars, NEW s \in Storages,
                      jobs[s].state = "scanning", jobs'[s].state = "done"
               PROVE  LET r == jobs[s].run
                      IN  /\ run[r].proc = "exited"
                          /\ run[r].always \ Unreadable \subseteq run[r].saved
                          /\ \A p \in run[r].saved : rows[s][p] \notin {"missing", "stale"}
    OBVIOUS
  <2>1. PICK r \in Runs : Finish(r) /\ run[r].storage = s /\ Verdict(r) = "done"
    <3>1. jobs \in [Storages -> Job]
      BY DEF IndInv, TypeOK
    <3>2. ASSUME NEW r \in Runs, Start(r) PROVE FALSE
      BY <3>1, <3>2 DEF Start
    <3>3. ASSUME NEW r \in Runs, Finish(r)
          PROVE  run[r].storage = s /\ Verdict(r) = "done"
      <4>1. run[r].storage \in Storages
        BY <3>3 DEF IndInv, SlotHasStorage, Finish
      <4>2. QED
        BY <3>1, <3>3, <4>1 DEF Finish
    <3>4. ASSUME NEW r \in Runs,
                 \/ Goroutine(r) \/ Begin(r) \/ Sweep(r) \/ StatementFails(r)
                 \/ Scanner(r) \/ Crash(r)
          PROVE  Finish(r)
      BY <3>2, <3>4, FailureQuits DEF Goroutine, Spawn, SpawnFails, RollbackOnCancel, ReadLine, CommitBatch,
           ReadEnd, Wait, Begin, Sweep, Scanner, Walk, Emit, Exit, Kill, Crash
    <3>5. ~UNCHANGED jobs /\ ~Restart
      BY DEF Restart, NoJob
    <3>6. \E r \in Runs : Finish(r)
      BY <3>4, <3>5 DEF Next, Environment, Lookup, Cancel, DiskChange, Materialize, CreateStorage,
           UpdateStorageRoot, DeleteStorage, vars
    <3>7. QED
      BY <3>3, <3>6
  <2>2. Active(r) /\ run[r].pc = "finish" /\ ~run[r].cancelled /\ ~run[r].failed
    BY <2>1 DEF Finish, Active, Verdict
  <2>3. jobs[s].run = r
    BY <2>1, <2>2, OwnJob DEF IndInv
  <2>4. /\ run[r].proc = "exited" /\ run[r].todo = {} /\ run[r].pipe = {} /\ run[r].batch = {}
        /\ run[r].always \ Unreadable \subseteq run[r].saved
    BY <2>2 DEF Flow, SlotFlow
  <2>5. \A p \in run[r].saved : rows[s][p] \notin {"missing", "stale"}
    BY <2>1, <2>2 DEF SavedFresh
  <2>6. QED
    BY <2>3, <2>4, <2>5
<1>2. QED
  BY <1>1, Inductive, PTL DEF Spec, DoneMeansIngested

-----------------------------------------------------------------------------
(* The walk of the scanner, beside the jobs *)

L == INSTANCE ScanWalkProofs
       WITH N <- 4, Names <- [n \in 1 .. 4 |-> {Plain(n)}], FollowSymlinks <- TRUE,
            MaxDepth <- 3, MaxLength <- 4, Links <- TRUE, Skippable <- {}

W == INSTANCE ScanWalkProofs
       WITH N <- 3, Names <- <<{Plain(1), Backslash}, {Plain(2), Wide},
                               {Plain(2), Wide, Backslash}>>,
            FollowSymlinks <- FALSE, MaxDepth <- 1, MaxLength <- 3, Links <- TRUE,
            Skippable <- {1}

\* Each name of the two walks is one that a file may have.
LEMMA LoopsSettings == L!Settings
<1>1. \A x \in L!AllNames : \E k \in 1 .. 4 : x = Plain(k)
  BY DEF L!AllNames, L!Nodes
<1>2. ASSUME NEW x \in L!AllNames
      PROVE  /\ x = [own |-> x.own, under |-> x.under]
             /\ x.own \in Seq(L!Component) /\ x.under \in Seq(L!Component)
             /\ 1 <= Len(x.own) /\ Len(x.own) <= Len(x.under)
             /\ Len(x.under) = 1 => x.own = x.under
  <2>1. PICK k \in 1 .. 4 : x = [own |-> <<k>>, under |-> <<k>>]
    BY <1>1 DEF Plain
  <2>2. k \in L!Component
    <3>1. 1 \in DOMAIN <<k>> /\ <<k>>[1] = k
      OBVIOUS
    <3>2. k \in L!Range(x.own)
      BY <2>1, <3>1 DEF L!Range
    <3> QED BY <3>2 DEF L!Component
  <2>3. <<k>> \in Seq(L!Component) /\ Len(<<k>>) = 1
    BY <2>2
  <2> QED BY <2>1, <2>3
<1> QED BY <1>2 DEF L!Settings

LEMMA NamesSettings == W!Settings
<1>1. \A x \in W!AllNames : x \in {Plain(1), Plain(2), Wide, Backslash}
  <2>1. ASSUME NEW n \in 1 .. 3, NEW x \in <<{Plain(1), Backslash}, {Plain(2), Wide},
                                             {Plain(2), Wide, Backslash}>>[n]
        PROVE  x \in {Plain(1), Plain(2), Wide, Backslash}
    <3>1. n = 1 \/ n = 2 \/ n = 3
      OBVIOUS
    <3> QED BY <3>1
  <2> QED BY <2>1 DEF W!AllNames, W!Nodes
<1>2. ASSUME NEW x \in W!AllNames
      PROVE  /\ x = [own |-> x.own, under |-> x.under]
             /\ x.own \in Seq(W!Component) /\ x.under \in Seq(W!Component)
             /\ 1 <= Len(x.own) /\ Len(x.own) <= Len(x.under)
             /\ Len(x.under) = 1 => x.own = x.under
  <2>1. \A k \in DOMAIN x.own : x.own[k] \in W!Component
    BY DEF W!Range, W!Component
  <2>2. \A k \in DOMAIN x.under : x.under[k] \in W!Component
    BY DEF W!Range, W!Component
  <2>3. CASE \E k \in {1, 2} : x = [own |-> <<k>>, under |-> <<k>>]
    <3>1. PICK k : x = [own |-> <<k>>, under |-> <<k>>]
      BY <2>3
    <3>2. k \in W!Component
      <4>1. 1 \in DOMAIN <<k>> /\ <<k>>[1] = k
        OBVIOUS
      <4> QED BY <2>1, <3>1, <4>1
    <3>3. <<k>> \in Seq(W!Component) /\ Len(<<k>>) = 1
      BY <3>2
    <3> QED BY <3>1, <3>3
  <2>4. CASE x = [own |-> <<1, 2>>, under |-> <<1, 2>>]
    <3>1. 1 \in W!Component /\ 2 \in W!Component
      <4>1. {1, 2} \subseteq DOMAIN <<1, 2>> /\ <<1, 2>>[1] = 1 /\ <<1, 2>>[2] = 2
        OBVIOUS
      <4> QED BY <2>1, <2>4, <4>1
    <3>2. <<1, 2>> \in Seq(W!Component) /\ Len(<<1, 2>>) = 2
      BY <3>1
    <3> QED BY <2>4, <3>2
  <2>5. CASE x = [own |-> <<3>>, under |-> <<1, 2>>]
    <3>1. 1 \in W!Component /\ 2 \in W!Component /\ 3 \in W!Component
      <4>1. {1, 2} \subseteq DOMAIN <<1, 2>> /\ <<1, 2>>[1] = 1 /\ <<1, 2>>[2] = 2
        OBVIOUS
      <4>2. 1 \in DOMAIN <<3>> /\ <<3>>[1] = 3
        OBVIOUS
      <4> QED BY <2>1, <2>2, <2>5, <4>1, <4>2
    <3>2. /\ <<1, 2>> \in Seq(W!Component) /\ Len(<<1, 2>>) = 2
          /\ <<3>> \in Seq(W!Component) /\ Len(<<3>>) = 1
      BY <3>1
    <3> QED BY <2>5, <3>2
  <2> QED BY <1>1, <2>3, <2>4, <2>5 DEF Plain, Wide, Backslash
<1> QED BY <1>2 DEF W!Settings

\* The walk of the part that has one is in order.
WalksInv == (part = "loops" => L!WalkInv) /\ (part = "names" => W!WalkInv)

LEMMA LoopsSame ==
  /\ Loops!Init <=> L!Init
  /\ Loops!Next <=> L!Next
  /\ Loops!WalkIsReach <=> L!WalkIsReach
  /\ Loops!OnlySeparatorsCollide <=> L!OnlySeparatorsCollide
<1>1. Loops!Init <=> L!Init
  BY DEF Loops!Init, L!Init, Loops!Nodes, L!Nodes, Loops!Root, L!Root, Loops!Elsewhere,
         L!Elsewhere, Loops!Broken, L!Broken, Loops!Ends, L!Ends, Loops!IsDisk, L!IsDisk,
         Loops!IsDir, L!IsDir, Loops!Children, L!Children
<1>2. Loops!Next <=> L!Next
  BY DEF Loops!Next, L!Next, Loops!Walk, L!Walk, Loops!Finished, L!Finished, Loops!Leave,
         L!Leave, Loops!Skip, L!Skip, Loops!List, L!List, Loops!Enter, L!Enter, Loops!Record,
         L!Record, Loops!Taken, L!Taken, Loops!Listed, L!Listed, Loops!Followed, L!Followed,
         Loops!Path, L!Path, Loops!Top, L!Top, Loops!IsDir, L!IsDir, Loops!Children,
         L!Children, Loops!Nodes, L!Nodes, Loops!Root, L!Root, Loops!Elsewhere, L!Elsewhere,
         Loops!Broken, L!Broken, Loops!disk, L!disk, Loops!vars, L!vars, Loops!Last, L!Last,
         Loops!Front, L!Front
<1>3. Loops!WalkIsReach <=> L!WalkIsReach
  BY DEF Loops!WalkIsReach, L!WalkIsReach, Loops!Ways, L!Ways, Loops!Nodes, L!Nodes,
         Loops!Reachable, L!Reachable, Loops!Way, L!Way, Loops!PathLength, L!PathLength,
         Loops!FlattenSeq, L!FlattenSeq, Loops!Last, L!Last, Loops!Root, L!Root,
         Loops!Broken, L!Broken
<1>4. Loops!OnlySeparatorsCollide <=> L!OnlySeparatorsCollide
  BY DEF Loops!OnlySeparatorsCollide, L!OnlySeparatorsCollide, Loops!Range, L!Range
<1> QED BY <1>1, <1>2, <1>3, <1>4

LEMMA NamesSame ==
  /\ WalkNames!Init <=> W!Init
  /\ WalkNames!Next <=> W!Next
  /\ WalkNames!WalkIsReach <=> W!WalkIsReach
  /\ WalkNames!OnlySeparatorsCollide <=> W!OnlySeparatorsCollide
<1>1. WalkNames!Init <=> W!Init
  BY DEF WalkNames!Init, W!Init, WalkNames!Nodes, W!Nodes, WalkNames!Root, W!Root,
         WalkNames!Elsewhere, W!Elsewhere, WalkNames!Broken, W!Broken, WalkNames!Ends,
         W!Ends, WalkNames!IsDisk, W!IsDisk, WalkNames!IsDir, W!IsDir, WalkNames!Children,
         W!Children
<1>2. WalkNames!Next <=> W!Next
  BY DEF WalkNames!Next, W!Next, WalkNames!Walk, W!Walk, WalkNames!Finished, W!Finished,
         WalkNames!Leave, W!Leave, WalkNames!Skip, W!Skip, WalkNames!List, W!List,
         WalkNames!Enter, W!Enter, WalkNames!Record, W!Record, WalkNames!Taken, W!Taken,
         WalkNames!Listed, W!Listed, WalkNames!Followed, W!Followed, WalkNames!Path, W!Path,
         WalkNames!Top, W!Top, WalkNames!IsDir, W!IsDir, WalkNames!Children, W!Children,
         WalkNames!Nodes, W!Nodes, WalkNames!Root, W!Root, WalkNames!Elsewhere, W!Elsewhere,
         WalkNames!Broken, W!Broken, WalkNames!disk, W!disk, WalkNames!vars, W!vars,
         WalkNames!Last, W!Last, WalkNames!Front, W!Front
<1>3. WalkNames!WalkIsReach <=> W!WalkIsReach
  BY DEF WalkNames!WalkIsReach, W!WalkIsReach, WalkNames!Ways, W!Ways, WalkNames!Nodes,
         W!Nodes, WalkNames!Reachable, W!Reachable, WalkNames!Way, W!Way,
         WalkNames!PathLength, W!PathLength, WalkNames!FlattenSeq, W!FlattenSeq,
         WalkNames!Last, W!Last, WalkNames!Root, W!Root, WalkNames!Broken, W!Broken
<1>4. WalkNames!OnlySeparatorsCollide <=> W!OnlySeparatorsCollide
  BY DEF WalkNames!OnlySeparatorsCollide, W!OnlySeparatorsCollide, WalkNames!Range, W!Range
<1> QED BY <1>1, <1>2, <1>3, <1>4

\* What has been listed is at every moment what the calls so far should have listed.
THEOREM WalksStayInOrder == PartSpec => []WalksInv
<1>1. PartInit => WalksInv
  <2> SUFFICES ASSUME PartInit PROVE WalksInv
    OBVIOUS
  <2>1. part = "loops" => L!WalkInv
    BY LoopsSame, LoopsSettings, L!WalkBegins DEF PartInit
  <2>2. part = "names" => W!WalkInv
    BY NamesSame, NamesSettings, W!WalkBegins DEF PartInit
  <2> QED BY <2>1, <2>2 DEF WalksInv
<1>2. WalksInv /\ [PartNext]_<<part, vars, walk>> => WalksInv'
  <2> SUFFICES ASSUME WalksInv, [PartNext]_<<part, vars, walk>> PROVE WalksInv'
    OBVIOUS
  <2>1. part' = part
    BY DEF PartNext
  <2>2. ASSUME part = "loops"
        PROVE  L!WalkInv'
    <3>1. L!Next \/ UNCHANGED L!vars
      BY <2>2, LoopsSame DEF PartNext, walk, L!vars, L!disk
    <3> QED BY <2>2, <3>1, LoopsSettings, L!WalkGoesOn DEF WalksInv
  <2>3. ASSUME part = "names"
        PROVE  W!WalkInv'
    <3>1. W!Next \/ UNCHANGED W!vars
      BY <2>3, NamesSame DEF PartNext, walk, W!vars, W!disk
    <3> QED BY <2>3, <3>1, NamesSettings, W!WalkGoesOn DEF WalksInv
  <2> QED BY <2>1, <2>2, <2>3 DEF WalksInv
<1> QED BY <1>1, <1>2, PTL DEF PartSpec

\* In whatever order directories are read, and whichever cannot be, a walk (scan.rs: scan_dir)
\* ends with every entry on a way that takes no link twice, and with nothing else.
THEOREM WalksFindAll == PartSpec => []WalkIsReach
<1>1. WalksInv => WalkIsReach
  <2>1. WalksInv /\ part = "loops" => Loops!WalkIsReach
    BY LoopsSame, LoopsSettings, L!InvMeansReach DEF WalksInv
  <2>2. WalksInv /\ part = "names" => WalkNames!WalkIsReach
    BY NamesSame, NamesSettings, W!InvMeansReach DEF WalksInv
  <2> QED BY <2>1, <2>2 DEF WalkIsReach
<1> QED BY <1>1, WalksStayInOrder, PTL

\* A walk lists two entries under one path only if a name on their ways has a separator in
\* it (scan.rs: build_relative_path).
THEOREM WalksTellApart == PartSpec => []OnlySeparatorsCollide
<1>1. WalksInv => OnlySeparatorsCollide
  <2>1. WalksInv /\ part = "loops" => Loops!OnlySeparatorsCollide
    BY LoopsSame, LoopsSettings, L!InvMeansApart DEF WalksInv
  <2>2. WalksInv /\ part = "names" => WalkNames!OnlySeparatorsCollide
    BY NamesSame, NamesSettings, W!InvMeansApart DEF WalksInv
  <2> QED BY <2>1, <2>2 DEF OnlySeparatorsCollide
<1> QED BY <1>1, WalksStayInOrder, PTL
=============================================================================
