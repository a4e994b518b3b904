---------------------------- MODULE ScanPipeline ----------------------------
(***************************************************************************)
(* The library scan of the analytics service: the Postgres task queue      *)
(* (task_queue.py), the workers that drain it, and the scan steps that run *)
(* as tasks (tasks.py):                                                    *)
(*                                                                         *)
(*   trigger_library_scan -> process_audio_folder (one per folder)         *)
(*     -> finalize_scan -> rebuild_analysis                                *)
(*       -> fetch_artist_genres (in batches) -> score_genres               *)
(*                                                                         *)
(* An action is one database transaction, or one step between two of them; *)
(* the transaction of _finish_folder is split at the row lock it waits     *)
(* for.  What a killed process had not committed is lost.                  *)
(***************************************************************************)
EXTENDS Naturals, FiniteSets

CONSTANTS
    Workers,      \* the worker processes of the worker service
    Supervisor,   \* the process that starts them, and requeues before it does
    Callers,      \* who queues scans: requests to /scan, the folder watcher
    Nobody,       \* a lock without holder
    Scans,        \* the top-level scan jobs there can be (all of one path)
    NoScan,       \* rebuild_analysis(None)
    NumFolders,   \* the folders of the library are 1..NumFolders
    MaxAttempts,  \* MAX_ATTEMPTS
    MaxCrashes,   \* bound on how often a process or the service is killed
    MusicBrainz,  \* MUSICBRAINZ_ENABLED
    MaxBatches,   \* bound on the fetches in a row that leave artists to look up
    FailingTasks  \* the tasks whose code may raise

Folders == 1..NumFolders
NoFolder == 0

Procs == Workers \cup {Supervisor}

TaskKinds == {"trigger_library_scan", "process_audio_folder", "finalize_scan",
              "rebuild_analysis", "fetch_artist_genres", "score_genres"}

ASSUME Constants ==
    /\ Supervisor \notin Workers
    /\ Nobody \notin Procs
    /\ Nobody \notin Callers
    /\ NoScan \notin Scans
    /\ NumFolders \in Nat
    /\ MaxAttempts \in Nat \ {0}
    /\ MaxCrashes \in Nat
    /\ MusicBrainz \in BOOLEAN
    /\ MaxBatches \in Nat
    /\ FailingTasks \subseteq TaskKinds

VARIABLES
    queue,       \* task_queue: a set of rows
    nextId,      \* the next task id
    master,      \* status of each top-level scan job
    job,         \* status of the folder jobs of each scan
    asking,      \* where each caller is in queue_library_scan
    scanLock,    \* who holds the advisory lock _SCAN_LOCK
    masterLock,  \* who holds the row lock on each top-level scan job
    fetchLock,   \* who holds the advisory lock _MB_LOCK
    batches,     \* the fetches in a row that left artists to look up
    svc,         \* the worker service: "starting", "up" or "stopping"
    pc,          \* where each process is
    cur,         \* the row each process is working on, as it read it
    finalizers,  \* how many finalize_scan tasks each scan was ever given
    crashes

queueVars == <<queue, nextId>>
scanVars == <<master, job>>
callerVars == <<asking, scanLock>>
fetchVars == <<fetchLock, batches>>
lockVars == <<callerVars, masterLock, fetchVars>>
procVars == <<pc, cur>>
serviceVars == <<svc, crashes>>
vars == <<queue, nextId, master, job, asking, scanLock, masterLock, fetchLock,
          batches, svc, pc, cur, finalizers, crashes>>

-----------------------------------------------------------------------------
(* Rows of task_queue and scan_jobs.                                       *)

RowStatus == {"pending", "delayed", "running", "failed"}

Row == [id: Nat, kind: TaskKinds, scan: Scans \cup {NoScan},
        folder: Folders \cup {NoFolder}, status: RowStatus, attempts: Nat]

NewRow(id, kind, s, f) ==
    [id |-> id, kind |-> kind, scan |-> s, folder |-> f,
     status |-> "pending", attempts |-> 0]

WithStatus(r, status) == [r EXCEPT !.status = status]
Claimed(r) == [r EXCEPT !.status = "running", !.attempts = @ + 1]

NoRow == NewRow(0, "score_genres", NoScan, NoFolder)

Unfinished == {"pending", "running"}
Finished == {"completed", "failed"}
JobStatus == {"none"} \cup Unfinished \cup Finished

\* active_scan: a scan of the path that has not finished.
ActiveScans == {s \in Scans : master[s] \in Unfinished}

UnfinishedFolders(s) == {f \in Folders : job[s][f] \in Unfinished}
Dispatched(s) == \E f \in Folders : job[s][f] # "none"

\* The first step of each task's code.
FirstStep == [kind \in TaskKinds |->
    CASE kind = "trigger_library_scan" -> "trigger"
      [] kind = "process_audio_folder" -> "process"
      [] kind = "finalize_scan" -> "finalize"
      [] kind = "rebuild_analysis" -> "rebuild"
      [] kind = "fetch_artist_genres" -> "fetch"
      [] kind = "score_genres" -> "score"]

\* Steps at which the process has a task in hand.
BusySteps == {"trigger", "process", "import", "mark", "lock", "count", "last", "notlast",
              "finalize", "pruned", "rebuild", "fetch", "lookup", "unlock", "score",
              "done", "raised"}
\* Steps of a task's code, at which it can still raise.
TaskSteps == BusySteps \ {"done", "raised"}
ProcSteps == {"idle", "dead"} \cup BusySteps

Busy(p) == pc[p] \in BusySteps

-----------------------------------------------------------------------------

Init ==
    /\ queue = {}
    /\ nextId = 1
    /\ master = [s \in Scans |-> "none"]
    /\ job = [s \in Scans |-> [f \in Folders |-> "none"]]
    /\ asking = [c \in Callers |-> "idle"]
    /\ scanLock = Nobody
    /\ fetchLock = Nobody
    /\ batches = 0
    /\ masterLock = [s \in Scans |-> Nobody]
    /\ svc = "up"
    /\ pc = [p \in Procs |-> "idle"]
    /\ cur = [p \in Procs |-> NoRow]
    /\ finalizers = [s \in Scans |-> 0]
    /\ crashes = 0

\* enqueue: one more row, in the transaction of the caller.
Enqueue(kind, s) ==
    /\ queue' = queue \cup {NewRow(nextId, kind, s, NoFolder)}
    /\ nextId' = nextId + 1

\* The row p works on, changed to r.
Rewrite(p, r) == (queue \ {cur[p]}) \cup {r}

Goto(p, step) == pc' = [pc EXCEPT ![p] = step]

-----------------------------------------------------------------------------
(* Callers: queue_library_scan, serialised by an advisory lock that is     *)
(* held until the caller's transaction ends.                               *)

Ask(c, step) == asking' = [asking EXCEPT ![c] = step]

\* Mistake: no lock, so the caller does not wait for the others.
LookWithoutLock(c) ==
    /\ asking[c] = "idle"
    /\ Ask(c, "look")
    /\ UNCHANGED <<queueVars, scanVars, scanLock, masterLock, fetchVars, serviceVars,
                   procVars, finalizers>>

LockScanCreation(c) ==
    /\ asking[c] = "idle"
    /\ scanLock = Nobody
    /\ scanLock' = c
    /\ Ask(c, "look")
    /\ UNCHANGED <<queueVars, scanVars, masterLock, fetchVars, serviceVars, procVars, finalizers>>

\* The caller's transaction ends, and the lock with it.
Unlocked(c) == IF scanLock = c THEN Nobody ELSE scanLock

\* A scan that is still active is returned and nothing is queued.
ReturnActiveScan(c) ==
    /\ asking[c] = "look"
    /\ ActiveScans # {}
    /\ scanLock' = Unlocked(c)
    /\ Ask(c, "idle")
    /\ UNCHANGED <<queueVars, scanVars, masterLock, fetchVars, serviceVars, procVars, finalizers>>

NoActiveScan(c) ==
    /\ asking[c] = "look"
    /\ ActiveScans = {}
    /\ Ask(c, "create")
    /\ UNCHANGED <<queueVars, scanVars, scanLock, masterLock, fetchVars, serviceVars,
                   procVars, finalizers>>

\* What the caller saw may be old by now, but for the lock.
CreateScan(c) ==
    /\ asking[c] = "create"
    /\ \E s \in Scans :
        /\ master[s] = "none"
        /\ master' = [master EXCEPT ![s] = "pending"]
        /\ Enqueue("trigger_library_scan", s)
    /\ scanLock' = Unlocked(c)
    /\ Ask(c, "idle")
    /\ UNCHANGED <<job, masterLock, fetchVars, serviceVars, procVars, finalizers>>

-----------------------------------------------------------------------------
(* run_one: claim a task, run it, acknowledge it.                          *)

Runnable(r) ==
    /\ r \in queue
    /\ r.status = "pending"
    /\ \A other \in queue : other.status = "pending" => r.id <= other.id

\* Mistake: the row leaves the queue when it is claimed, not when it is done.
ClaimTakesRow(w) ==
    /\ svc = "up"
    /\ pc[w] = "idle"
    /\ \E r \in queue :
        /\ Runnable(r)
        /\ queue' = queue \ {r}
        /\ cur' = [cur EXCEPT ![w] = Claimed(r)]
        /\ Goto(w, FirstStep[r.kind])
    /\ UNCHANGED <<nextId, scanVars, lockVars, serviceVars, finalizers>>

\* claim: the oldest runnable row, marked running, one more attempt.
Claim(w) ==
    /\ svc = "up"
    /\ pc[w] = "idle"
    /\ \E r \in queue :
        /\ Runnable(r)
        /\ queue' = (queue \ {r}) \cup {Claimed(r)}
        /\ cur' = [cur EXCEPT ![w] = Claimed(r)]
        /\ Goto(w, FirstStep[r.kind])
    /\ UNCHANGED <<nextId, scanVars, lockVars, serviceVars, finalizers>>

\* complete: the task ran through, its row is deleted.
Complete(w) ==
    /\ pc[w] = "done"
    /\ queue' = queue \ {cur[w]}
    /\ Goto(w, "idle")
    /\ UNCHANGED <<nextId, scanVars, lockVars, cur, serviceVars, finalizers>>

\* The end of a process's session ends its locks.
DropLocks(w) ==
    /\ masterLock' = [s \in Scans |-> IF masterLock[s] = w THEN Nobody ELSE masterLock[s]]
    /\ fetchLock' = IF fetchLock = w THEN Nobody ELSE fetchLock

\* An exception in a task's code rolls back its transaction.  The handler of
\* a given-up task is not inside that try: see CrashWorker.
Raise(w) ==
    /\ pc[w] \in TaskSteps
    /\ cur[w].kind \in FailingTasks
    /\ cur[w].status = "running"
    /\ Goto(w, "raised")
    /\ DropLocks(w)
    /\ UNCHANGED <<queueVars, scanVars, callerVars, batches, cur, serviceVars, finalizers>>

\* fail, with attempts left: the row waits for run_after.
RetryLater(w) ==
    /\ pc[w] = "raised"
    /\ cur[w].attempts < MaxAttempts
    /\ queue' = Rewrite(w, WithStatus(cur[w], "delayed"))
    /\ Goto(w, "idle")
    /\ UNCHANGED <<nextId, scanVars, lockVars, cur, serviceVars, finalizers>>

\* Mistake: the failure handler is never called.
GiveUpSilently(p, r) ==
    /\ queue' = (queue \ {r}) \cup {WithStatus(r, "failed")}
    /\ cur' = [cur EXCEPT ![p] = WithStatus(r, "failed")]
    /\ Goto(p, "idle")
    /\ UNCHANGED <<nextId, scanVars, lockVars, serviceVars, finalizers>>

\* _give_up: the row is failed, and committed, before ON_FAILURE's handler
\* (only process_audio_folder has one) starts a transaction of its own.
GiveUp(p, r) ==
    /\ queue' = (queue \ {r}) \cup {WithStatus(r, "failed")}
    /\ cur' = [cur EXCEPT ![p] = WithStatus(r, "failed")]
    /\ Goto(p, IF r.kind = "process_audio_folder" THEN "mark" ELSE "idle")
    /\ UNCHANGED <<nextId, scanVars, lockVars, serviceVars, finalizers>>

OutOfAttempts(w) ==
    /\ pc[w] = "raised"
    /\ cur[w].attempts >= MaxAttempts
    /\ GiveUp(w, cur[w])

\* RETRY_DELAY_SECONDS have passed: the row is runnable again.
DelayEnds ==
    /\ \E r \in queue :
        /\ r.status = "delayed"
        /\ queue' = (queue \ {r}) \cup {WithStatus(r, "pending")}
    /\ UNCHANGED <<nextId, scanVars, lockVars, serviceVars, procVars, finalizers>>

-----------------------------------------------------------------------------
(* trigger_library_scan                                                    *)

TriggerRerun(w) ==
    /\ pc[w] = "trigger"
    /\ Dispatched(cur[w].scan)
    /\ Goto(w, "done")
    /\ UNCHANGED <<queueVars, scanVars, lockVars, cur, serviceVars, finalizers>>

\* Not a directory ("failed") or no audio in it ("completed").
TriggerWithoutFolders(w) ==
    /\ pc[w] = "trigger"
    /\ ~Dispatched(cur[w].scan)
    /\ \E outcome \in Finished : master' = [master EXCEPT ![cur[w].scan] = outcome]
    /\ Goto(w, "done")
    /\ UNCHANGED <<queueVars, job, lockVars, cur, serviceVars, finalizers>>

\* The folder jobs and their tasks, in one transaction.
TriggerDispatch(w) ==
    LET s == cur[w].scan IN
    /\ pc[w] = "trigger"
    /\ ~Dispatched(s)
    /\ \E found \in SUBSET Folders :
        /\ found # {}
        /\ job' = [job EXCEPT ![s] = [f \in Folders |-> IF f \in found THEN "pending" ELSE "none"]]
        /\ queue' = queue \cup {NewRow(nextId + f, "process_audio_folder", s, f) : f \in found}
    /\ nextId' = nextId + NumFolders + 1
    /\ master' = [master EXCEPT ![s] = "running"]
    /\ Goto(w, "done")
    /\ UNCHANGED <<lockVars, cur, serviceVars, finalizers>>

-----------------------------------------------------------------------------
(* process_audio_folder and _finish_folder                                 *)

\* The status _finish_folder is called with: "failed" by the failure handler.
Outcome(p) == IF cur[p].status = "failed" THEN "failed" ELSE "completed"

\* Where _finish_folder returns to: run_one's acknowledgement, or, from the
\* handler, the loop.
AfterFinish(p) == IF cur[p].status = "failed" THEN "idle" ELSE "done"

ProcessSkip(w) ==
    /\ pc[w] = "process"
    /\ job[cur[w].scan][cur[w].folder] \in Finished
    /\ Goto(w, "done")
    /\ UNCHANGED <<queueVars, scanVars, lockVars, cur, serviceVars, finalizers>>

ProcessBegin(w) ==
    /\ pc[w] = "process"
    /\ job[cur[w].scan][cur[w].folder] \notin Finished
    /\ job' = [job EXCEPT ![cur[w].scan][cur[w].folder] = "running"]
    /\ Goto(w, "import")
    /\ UNCHANGED <<queueVars, master, lockVars, cur, serviceVars, finalizers>>

\* import_folder commits file by file and touches no job or task.
ImportFolder(w) ==
    /\ pc[w] = "import"
    /\ Goto(w, "mark")
    /\ UNCHANGED <<queueVars, scanVars, lockVars, cur, serviceVars, finalizers>>

\* UPDATE scan_jobs ... WHERE status IN ('pending', 'running').  The change is
\* not committed yet, so nobody else sees it; no row changed means return.
FinishMark(p) ==
    /\ pc[p] = "mark"
    /\ Goto(p, IF job[cur[p].scan][cur[p].folder] \in Unfinished THEN "lock" ELSE AfterFinish(p))
    /\ UNCHANGED <<queueVars, scanVars, lockVars, cur, serviceVars, finalizers>>

\* Mistake: a plain SELECT, which waits for nobody.
FinishWithoutLock(p) ==
    /\ pc[p] = "lock"
    /\ Goto(p, "count")
    /\ UNCHANGED <<queueVars, scanVars, lockVars, cur, serviceVars, finalizers>>

\* SELECT ... FOR UPDATE on the top-level job.
FinishLock(p) ==
    /\ pc[p] = "lock"
    /\ masterLock[cur[p].scan] = Nobody
    /\ masterLock' = [masterLock EXCEPT ![cur[p].scan] = p]
    /\ Goto(p, "count")
    /\ UNCHANGED <<queueVars, scanVars, callerVars, fetchVars, cur, serviceVars, finalizers>>

\* SELECT COUNT(*): it sees what is committed, and p's own change.
FinishCount(p) ==
    /\ pc[p] = "count"
    /\ Goto(p, IF UnfinishedFolders(cur[p].scan) \subseteq {cur[p].folder} THEN "last" ELSE "notlast")
    /\ UNCHANGED <<queueVars, scanVars, lockVars, cur, serviceVars, finalizers>>

\* The last folder queues finalize_scan; the commit releases the lock.
FinishCommit(p) ==
    LET s == cur[p].scan IN
    /\ pc[p] \in {"last", "notlast"}
    /\ job' = [job EXCEPT ![s][cur[p].folder] = Outcome(p)]
    /\ IF pc[p] = "last"
       THEN /\ Enqueue("finalize_scan", s)
            /\ finalizers' = [finalizers EXCEPT ![s] = @ + 1]
       ELSE UNCHANGED <<queueVars, finalizers>>
    /\ masterLock' = [masterLock EXCEPT ![s] = Nobody]
    /\ Goto(p, AfterFinish(p))
    /\ UNCHANGED <<master, callerVars, fetchVars, cur, serviceVars>>

-----------------------------------------------------------------------------
(* finalize_scan, rebuild_analysis, fetch_artist_genres and score_genres   *)

FailedFolders(s) == {f \in Folders : job[s][f] = "failed"}

\* Mistake: the scan is left to rebuild_analysis, which is not told of it.
FinalizeFailedOpen(w) ==
    /\ pc[w] = "finalize"
    /\ FailedFolders(cur[w].scan) # {}
    /\ Enqueue("rebuild_analysis", NoScan)
    /\ Goto(w, "done")
    /\ UNCHANGED <<scanVars, lockVars, cur, serviceVars, finalizers>>

\* Mistake: a failed scan is not followed by rebuild_analysis.
FinalizeFailedLast(w) ==
    /\ pc[w] = "finalize"
    /\ FailedFolders(cur[w].scan) # {}
    /\ master' = [master EXCEPT ![cur[w].scan] = "failed"]
    /\ Goto(w, "done")
    /\ UNCHANGED <<queueVars, job, lockVars, cur, serviceVars, finalizers>>

\* Some folder failed: no prune, the scan is failed.
FinalizeFailed(w) ==
    LET s == cur[w].scan IN
    /\ pc[w] = "finalize"
    /\ FailedFolders(s) # {}
    /\ master' = [master EXCEPT ![s] = "failed"]
    /\ Enqueue("rebuild_analysis", NoScan)
    /\ Goto(w, "done")
    /\ UNCHANGED <<job, lockVars, cur, serviceVars, finalizers>>

\* Mistake: the prune does not look at what failed.
PruneAlways(w) ==
    /\ pc[w] = "finalize"
    /\ Goto(w, "pruned")
    /\ UNCHANGED <<queueVars, scanVars, lockVars, cur, serviceVars, finalizers>>

\* prune_library commits by itself.
Prune(w) ==
    /\ pc[w] = "finalize"
    /\ FailedFolders(cur[w].scan) = {}
    /\ Goto(w, "pruned")
    /\ UNCHANGED <<queueVars, scanVars, lockVars, cur, serviceVars, finalizers>>

\* Mistake: a failed prune queues rebuild_analysis and raises all the same.
PruneRaisesQueued(w) ==
    /\ pc[w] = "finalize"
    /\ "finalize_scan" \in FailingTasks
    /\ FailedFolders(cur[w].scan) = {}
    /\ master' = [master EXCEPT ![cur[w].scan] = "failed"]
    /\ Enqueue("rebuild_analysis", cur[w].scan)
    /\ Goto(w, "raised")
    /\ UNCHANGED <<job, lockVars, cur, serviceVars, finalizers>>

\* prune_library raised: rollback, the scan is failed, and the task raises.
PruneRaises(w) ==
    /\ pc[w] = "finalize"
    /\ "finalize_scan" \in FailingTasks
    /\ FailedFolders(cur[w].scan) = {}
    /\ master' = [master EXCEPT ![cur[w].scan] = "failed"]
    /\ Goto(w, "raised")
    /\ UNCHANGED <<queueVars, job, lockVars, cur, serviceVars, finalizers>>

QueueRebuild(w) ==
    /\ pc[w] = "pruned"
    /\ Enqueue("rebuild_analysis", cur[w].scan)
    /\ Goto(w, "done")
    /\ UNCHANGED <<scanVars, lockVars, cur, serviceVars, finalizers>>

\* The scan is completed and queue_genre_refresh called.
RebuildAnalysis(w) ==
    LET s == cur[w].scan IN
    /\ pc[w] = "rebuild"
    /\ master' = IF s = NoScan THEN master ELSE [master EXCEPT ![s] = "completed"]
    /\ Enqueue(IF MusicBrainz THEN "fetch_artist_genres" ELSE "score_genres", NoScan)
    /\ Goto(w, "done")
    /\ UNCHANGED <<job, lockVars, cur, serviceVars, finalizers>>

\* pg_try_advisory_lock does not wait: another fetch is running.
FetchSkip(w) ==
    /\ pc[w] = "fetch"
    /\ fetchLock # Nobody
    /\ Goto(w, "done")
    /\ UNCHANGED <<queueVars, scanVars, lockVars, cur, serviceVars, finalizers>>

FetchBegin(w) ==
    /\ pc[w] = "fetch"
    /\ fetchLock = Nobody
    /\ fetchLock' = w
    /\ Goto(w, "lookup")
    /\ UNCHANGED <<queueVars, scanVars, callerVars, masterLock, batches, cur, serviceVars,
                   finalizers>>

\* The look-ups, of which one that fails is only counted, and then the next
\* run if artists are left and few look-ups failed, or else score_genres.
FetchArtists(w) ==
    /\ pc[w] = "lookup"
    /\ \/ /\ batches < MaxBatches
          /\ Enqueue("fetch_artist_genres", NoScan)
          /\ batches' = batches + 1
       \/ /\ Enqueue("score_genres", NoScan)
          /\ batches' = 0
    /\ Goto(w, "unlock")
    /\ UNCHANGED <<scanVars, callerVars, masterLock, fetchLock, cur, serviceVars, finalizers>>

\* The lock outlives the commit before it.
FetchUnlock(w) ==
    /\ pc[w] = "unlock"
    /\ fetchLock' = Nobody
    /\ Goto(w, "done")
    /\ UNCHANGED <<queueVars, scanVars, callerVars, masterLock, batches, cur, serviceVars,
                   finalizers>>

\* score_genres touches no scan job and queues nothing.
ScoreGenres(w) ==
    /\ pc[w] = "score"
    /\ Goto(w, "done")
    /\ UNCHANGED <<queueVars, scanVars, lockVars, cur, serviceVars, finalizers>>

-----------------------------------------------------------------------------
(* The service: run_worker, _work_loop and requeue_running.                *)

\* A worker dies: killed, or a database error outside a task's code.  The
\* supervisor then stops the others, which finish the task they have.
CrashWorker(w) ==
    /\ crashes < MaxCrashes
    /\ svc # "starting"
    /\ pc[w] # "dead"
    /\ Goto(w, "dead")
    /\ svc' = "stopping"
    /\ DropLocks(w)
    /\ crashes' = crashes + 1
    /\ UNCHANGED <<queueVars, scanVars, callerVars, batches, cur, finalizers>>

\* The container is killed.
KillService ==
    /\ crashes < MaxCrashes
    /\ pc' = [p \in Procs |-> IF p = Supervisor THEN "idle" ELSE "dead"]
    /\ svc' = "stopping"
    /\ masterLock' = [s \in Scans |-> Nobody]
    /\ fetchLock' = Nobody
    /\ crashes' = crashes + 1
    /\ UNCHANGED <<queueVars, scanVars, callerVars, batches, cur, finalizers>>

Restart ==
    /\ svc = "stopping"
    /\ \A w \in Workers : pc[w] \in {"idle", "dead"}
    /\ pc' = [p \in Procs |-> "idle"]
    /\ svc' = "starting"
    /\ UNCHANGED <<queueVars, scanVars, lockVars, cur, finalizers, crashes>>

\* requeue_running meets a row that is out of attempts.
RequeueGiveUp ==
    /\ svc = "starting"
    /\ pc[Supervisor] = "idle"
    /\ \E r \in queue :
        /\ r.status = "running"
        /\ r.attempts >= MaxAttempts
        /\ GiveUp(Supervisor, r)

\* Mistake: rows out of attempts are requeued like the others.
RequeueAll ==
    /\ svc = "starting"
    /\ pc[Supervisor] = "idle"
    /\ queue' = {IF r.status = "running" THEN WithStatus(r, "pending") ELSE r : r \in queue}
    /\ svc' = "up"
    /\ UNCHANGED <<nextId, scanVars, lockVars, procVars, finalizers, crashes>>

\* Mistake: the rows of killed workers are left as they are.
RequeueNothing ==
    /\ svc = "starting"
    /\ pc[Supervisor] = "idle"
    /\ svc' = "up"
    /\ UNCHANGED <<queueVars, scanVars, lockVars, procVars, finalizers, crashes>>

\* The other running rows become pending and the workers start.
RequeueRest ==
    /\ svc = "starting"
    /\ pc[Supervisor] = "idle"
    /\ \A r \in queue : r.status = "running" => r.attempts < MaxAttempts
    /\ queue' = {IF r.status = "running" THEN WithStatus(r, "pending") ELSE r : r \in queue}
    /\ svc' = "up"
    /\ UNCHANGED <<nextId, scanVars, lockVars, procVars, finalizers, crashes>>

-----------------------------------------------------------------------------

QueueLibraryScan(c) ==
    LockScanCreation(c) \/ ReturnActiveScan(c) \/ NoActiveScan(c) \/ CreateScan(c)

TriggerLibraryScan(w) == TriggerRerun(w) \/ TriggerWithoutFolders(w) \/ TriggerDispatch(w)

ProcessAudioFolder(w) == ProcessSkip(w) \/ ProcessBegin(w) \/ ImportFolder(w)

FinishFolder(p) == FinishMark(p) \/ FinishLock(p) \/ FinishCount(p) \/ FinishCommit(p)

FinalizeScan(w) == FinalizeFailed(w) \/ Prune(w) \/ PruneRaises(w) \/ QueueRebuild(w)

FetchArtistGenres(w) == FetchSkip(w) \/ FetchBegin(w) \/ FetchArtists(w) \/ FetchUnlock(w)

Acknowledge(w) == Complete(w) \/ RetryLater(w) \/ OutOfAttempts(w)

\* What a worker does of its own accord, errors left out.
WorkerStep(w) ==
    \/ Claim(w)
    \/ TriggerLibraryScan(w)
    \/ ProcessAudioFolder(w)
    \/ FinalizeScan(w)
    \/ RebuildAnalysis(w)
    \/ FetchArtistGenres(w)
    \/ ScoreGenres(w)
    \/ Acknowledge(w)

ServiceStep == Restart \/ RequeueGiveUp \/ RequeueRest

Next ==
    \/ \E c \in Callers : QueueLibraryScan(c)
    \/ \E w \in Workers : WorkerStep(w) \/ Raise(w) \/ CrashWorker(w)
    \/ \E p \in Procs : FinishFolder(p)
    \/ DelayEnds
    \/ KillService
    \/ ServiceStep

Spec == Init /\ [][Next]_vars

\* The workers and the supervisor keep running, PostgreSQL hands out a row
\* lock that is asked for, and time passes.  Nothing forces a scan request,
\* an exception or a crash.
Fairness ==
    /\ \A w \in Workers : WF_vars(WorkerStep(w))
    /\ \A p \in Procs : WF_vars(FinishMark(p) \/ FinishCount(p) \/ FinishCommit(p))
    /\ \A p \in Procs : SF_vars(FinishLock(p))
    /\ WF_vars(DelayEnds)
    /\ WF_vars(ServiceStep)

FairSpec == Spec /\ Fairness
-----------------------------------------------------------------------------
(* Properties                                                              *)

\* Every variable holds what its column or local can hold; in particular no
\* row is run more than MAX_ATTEMPTS times, however often it was requeued.
TypeOK ==
    /\ queue \subseteq Row
    /\ \A r \in queue : r.attempts <= MaxAttempts
    /\ nextId \in Nat
    /\ master \in [Scans -> JobStatus]
    /\ job \in [Scans -> [Folders -> JobStatus]]
    /\ asking \in [Callers -> {"idle", "look", "create"}]
    /\ scanLock \in Callers \cup {Nobody}
    /\ fetchLock \in Procs \cup {Nobody}
    /\ batches \in 0..MaxBatches
    /\ masterLock \in [Scans -> Procs \cup {Nobody}]
    /\ svc \in {"starting", "up", "stopping"}
    /\ pc \in [Procs -> ProcSteps]
    /\ cur \in [Procs -> Row]
    /\ finalizers \in [Scans -> Nat]
    /\ crashes \in 0..MaxCrashes

\* "Exactly one of them sees no unfinished folders left" (_finish_folder):
\* a scan was given one finalize_scan task if its folder jobs exist and all
\* are finished, and none otherwise, whatever finishes at the same time,
\* raises, or is killed half way.
ExactlyOneFinalizer ==
    \A s \in Scans :
        finalizers[s] = IF Dispatched(s) /\ UnfinishedFolders(s) = {} THEN 1 ELSE 0

\* The prune of a scan runs when all its folders were imported, and none
\* failed: a moved file whose new folder is not imported would lose its
\* history (finalize_scan).
PruneAfterImports ==
    [][\A w \in Workers : pc[w] = "finalize" /\ pc'[w] = "pruned" =>
        \A f \in Folders : job[cur[w].scan][f] \in {"none", "completed"}]_vars

\* An unfinished folder job has a task that will finish it, or a failure
\* handler at work on it ("every folder job has a task to finish it",
\* trigger_library_scan).
FolderJobHasTask ==
    \A s \in Scans : \A f \in UnfinishedFolders(s) :
        \E r \in queue :
            /\ r.kind = "process_audio_folder" /\ r.scan = s /\ r.folder = f
            /\ r.status = "failed" => \E p \in Procs : Busy(p) /\ cur[p] = r

\* At most one scan of a path is pending or running (queue_library_scan).
OneActiveScan == Cardinality(ActiveScans) <= 1

\* No prune runs while another scan of the library imports folders: it would
\* delete the track of a file whose new place is not imported yet.
PruneSeesNoImport ==
    [][\A w \in Workers : pc[w] = "finalize" /\ pc'[w] = "pruned" =>
        \A s \in Scans : UnfinishedFolders(s) = {}]_vars

\* A scan that was completed is never reopened or failed by a late step.
CompletedIsFinal ==
    [][\A s \in Scans : master[s] = "completed" => master'[s] = "completed"]_vars

\* Every scan that is queued ends, so that the next change can be scanned.
ScanEnds ==
    \A s \in Scans : master[s] \in Unfinished ~> master[s] \in Finished

Finalizing(s) == \E w \in Workers : pc[w] = "finalize" /\ cur[w].scan = s
Scoring == \E w \in Workers : pc[w] = "score"

\* A fetch finds the lock with one that has queued what follows it already.
FetchMissed == \E v, w \in Workers : pc[v] = "fetch" /\ pc[w] = "unlock"

\* The genres are scored after every scan, failed or not ("genre stations
\* follow once the genres are scored", rebuild_analysis).  A fetch of artists
\* that is given up, or missed, ends the chain of tasks that leads there.
ScoringFollows == \A s \in Scans : Finalizing(s) ~> Scoring

\* A scan whose folders are done has the genres scored, failed or not ("still
\* refresh analysis for the folders that did import", finalize_scan), however
\* many fetches of artists come between and whichever of them is skipped for
\* another: all but one that meets the other between its commit and its unlock.
RefreshFollows == \A s \in Scans : Finalizing(s) ~> Scoring \/ FetchMissed
=============================================================================
