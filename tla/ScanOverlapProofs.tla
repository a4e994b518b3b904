------------------------- MODULE ScanOverlapProofs -------------------------
(***************************************************************************)
(* What the task queue guarantees about scans, and what it takes.          *)
(*                                                                         *)
(* Whatever raises or crashes, an unfinished folder job has its row in the *)
(* queue.  That the row is one that will finish it needs a failure handler *)
(* that is not killed (FoldersFinish: no crash) or imports that are not    *)
(* given up (FoldersSurvive: no error, fewer crashes than attempts).       *)
(*                                                                         *)
(* That scans do not overlap and that a completed one stays completed need *)
(* tasks that run once through (no crash): a trigger that is run again     *)
(* after its commit reopens its scan.  No lock is held between the tasks   *)
(* of a scan, so the invariant is about which of them can still run.       *)
(***************************************************************************)
EXTENDS ScanPipelineProofs, FiniteSetTheorems

-----------------------------------------------------------------------------
(* The invariants.                                                         *)

GenreSteps == {"fetch", "lookup", "unlock", "score"}
GenreTasks == {"fetch_artist_genres", "score_genres"}

\* A row given up is held by its failure handler; rebuild_analysis and the
\* genre steps are run for their own rows.
HeldSteps ==
    \A p \in Procs :
        /\ Busy(p) /\ cur[p].status = "failed" => pc[p] \in {"mark"} \cup FinishSteps
        /\ pc[p] = "rebuild" => cur[p].kind = "rebuild_analysis"
        /\ pc[p] \in GenreSteps => cur[p].kind \in GenreTasks

\* An unfinished folder job has its row, which leaves the queue no earlier than
\* the job is finished.
JobHasRow ==
    \A s \in Scans : \A f \in UnfinishedFolders(s) :
        \E r \in queue : r.kind = "process_audio_folder" /\ r.scan = s /\ r.folder = f
FolderDone ==
    \A p \in Procs :
        pc[p] = "done" /\ cur[p].kind = "process_audio_folder"
            => cur[p].folder \notin UnfinishedFolders(cur[p].scan)

\* A folder task is not given up, but by a handler that is at work on it.
FailedHeld ==
    \A r \in queue :
        /\ r.kind = "process_audio_folder" /\ r.status = "failed"
        /\ r.folder \in UnfinishedFolders(r.scan)
        => \E p \in Procs : Busy(p) /\ cur[p] = r

\* No crash, no error: a folder task is run once for each crash, and once more.
AttemptsLast ==
    /\ \A r \in queue : r.kind = "process_audio_folder" =>
        /\ r.status \in {"pending", "running"}
        /\ r.attempts <= IF svc = "up" THEN crashes + 1 ELSE crashes
        /\ r.status = "pending" => r.attempts <= crashes
    /\ \A p \in Procs : pc[p] = "raised" => cur[p].kind # "process_audio_folder"

\* Its code has not run through yet, and may still.
Active(r) ==
    /\ r.status # "failed"
    /\ \A p \in Procs : pc[p] = "done" => cur[p] # r

\* No task of the kind that may still run for the scan.
NoActive(kind, s) == \A r \in queue : r.kind = kind /\ r.scan = s => ~Active(r)

\* A scan has one trigger and one finalizer at most.
OneOfEach ==
    \A kind \in {"trigger_library_scan", "finalize_scan"} : \A r1, r2 \in queue :
        r1.kind = kind /\ r2.kind = kind /\ r1.scan = r2.scan => r1 = r2

\* A trigger that may still run belongs to a scan that waits for it.
TriggerRows ==
    \A r \in queue : r.kind = "trigger_library_scan" =>
        /\ master[r.scan] # "none"
        /\ Active(r) => master[r.scan] = "pending" /\ ~Dispatched(r.scan)

\* rebuild_analysis is queued for a scan by its finalizer.
RebuildRows ==
    \A r \in queue : r.kind = "rebuild_analysis" /\ r.scan \in Scans => finalizers[r.scan] > 0

\* It is queued last: while the finalizer may still run, the scan has none and
\* is not completed.
FinalizeRows ==
    \A r \in queue : r.kind = "finalize_scan" /\ Active(r) =>
        /\ master[r.scan] # "completed"
        /\ \A other \in queue : other.kind = "rebuild_analysis" => other.scan # r.scan

\* A scan is completed by its trigger, without folders, or after its finalizer.
CompletedRows ==
    \A s \in Scans : master[s] = "completed" => ~Dispatched(s) \/ finalizers[s] > 0

NewScans == \A s \in Scans : master[s] = "none" => ~Dispatched(s)

\* If no prune raises, a scan stays "running" until its finalizer is through.
RunningScans ==
    "finalize_scan" \notin FailingTasks =>
        \A s \in Scans :
            /\ Dispatched(s)
            /\ finalizers[s] = 0 \/ ~NoActive("finalize_scan", s)
            => master[s] = "running"

OverlapInv ==
    /\ OneOfEach /\ TriggerRows /\ RebuildRows /\ FinalizeRows
    /\ CompletedRows /\ NewScans /\ RunningScans

-----------------------------------------------------------------------------
(* Rows and folder jobs, whatever crashes.                                 *)

\* No process takes up a row that was given up, or leaves its own for another.
LEMMA HeldStepsStep ==
    ASSUME TypeInv, QueueInv, HeldSteps, [Next]_vars
    PROVE  HeldSteps'
<1> USE DEF queueVars, scanVars, lockVars, callerVars, fetchVars, procVars, serviceVars, Goto
<1>t. cur \in [Procs -> Row] /\ pc \in [Procs -> ProcSteps]
  BY DEF TypeInv, RestOK, RowOK
\* One process moves, with the row it has.
<1>m. ASSUME NEW p \in Procs, NEW step, pc' = [pc EXCEPT ![p] = step], cur' = cur,
             step # "rebuild", step \in GenreSteps => cur[p].kind \in GenreTasks,
             Busy(p)' /\ cur[p].status = "failed" => step \in {"mark"} \cup FinishSteps
      PROVE  HeldSteps'
  <2> SUFFICES ASSUME NEW q \in Procs
               PROVE  /\ Busy(q)' /\ cur[q].status = "failed" => pc'[q] \in {"mark"} \cup FinishSteps
                      /\ pc'[q] = "rebuild" => cur[q].kind = "rebuild_analysis"
                      /\ pc'[q] \in GenreSteps => cur[q].kind \in GenreTasks
    BY <1>m DEF HeldSteps
  <2>1. CASE q = p
    BY <1>m, <1>t, <2>1
  <2>2. CASE q # p
    <3>1. pc'[q] = pc[q]
      BY <1>m, <1>t, <2>2
    <3> QED BY <3>1 DEF HeldSteps, Busy
  <2> QED BY <2>1, <2>2
<1>n. ASSUME UNCHANGED <<pc, cur>> PROVE HeldSteps'
  BY <1>n DEF HeldSteps, Busy
\* A step of a task's code that is not a failure handler's.
<1>w. ASSUME NEW w \in Workers, NEW step, pc' = [pc EXCEPT ![w] = step], cur' = cur,
             step # "rebuild", step \in GenreSteps => pc[w] \in GenreSteps,
             pc[w] \in BusySteps \ ({"mark"} \cup FinishSteps)
      PROVE  HeldSteps'
  <2>1. /\ w \in Procs /\ Busy(w) /\ cur[w].status # "failed"
        /\ step \in GenreSteps => cur[w].kind \in GenreTasks
    BY <1>w DEF HeldSteps, Busy, Procs
  <2> QED BY <1>w, <2>1, <1>m
<1>1. ASSUME NEW c \in Callers, QueueLibraryScan(c) PROVE HeldSteps'
  BY <1>1, <1>n
     DEF QueueLibraryScan, LockScanCreation, ReturnActiveScan, NoActiveScan, CreateScan
<1>2. ASSUME NEW w \in Workers, Claim(w) PROVE HeldSteps'
  <2>1. PICK r \in queue : /\ cur' = [cur EXCEPT ![w] = Claimed(r)]
                            /\ pc' = [pc EXCEPT ![w] = FirstStep[r.kind]]
    BY <1>2 DEF Claim
  <2>2. /\ r.kind \in TaskKinds
        /\ Claimed(r).status = "running" /\ Claimed(r).kind = r.kind
    BY RowFields, ClaimedType DEF TypeInv, RowOK
  <2>3. /\ FirstStep[r.kind] = "rebuild" => r.kind = "rebuild_analysis"
        /\ FirstStep[r.kind] \in GenreSteps => r.kind \in GenreTasks
    BY <2>2 DEF FirstStep, TaskKinds, GenreSteps, GenreTasks
  <2>4. cur'[w] = Claimed(r) /\ pc'[w] = FirstStep[r.kind]
    BY <1>t, <2>1 DEF Procs
  <2>5. \A q \in Procs : q # w => cur'[q] = cur[q] /\ pc'[q] = pc[q]
    BY <1>t, <2>1
  <2> SUFFICES ASSUME NEW q \in Procs
               PROVE  /\ Busy(q)' /\ cur'[q].status = "failed" => pc'[q] \in {"mark"} \cup FinishSteps
                      /\ pc'[q] = "rebuild" => cur'[q].kind = "rebuild_analysis"
                      /\ pc'[q] \in GenreSteps => cur'[q].kind \in GenreTasks
    BY DEF HeldSteps
  <2>6. CASE q = w   BY <2>2, <2>3, <2>4, <2>6
  <2>7. CASE q # w   BY <2>5, <2>7 DEF HeldSteps, Busy
  <2> QED BY <2>6, <2>7
<1>3. ASSUME NEW w \in Workers, TriggerLibraryScan(w) PROVE HeldSteps'
  <2>1. pc[w] \in BusySteps \ ({"mark"} \cup FinishSteps)
    BY <1>3
       DEF TriggerLibraryScan, TriggerRerun, TriggerWithoutFolders, TriggerDispatch, BusySteps,
                FinishSteps
  <2>2. pc' = [pc EXCEPT ![w] = "done"] /\ cur' = cur
    BY <1>3 DEF TriggerLibraryScan, TriggerRerun, TriggerWithoutFolders, TriggerDispatch
  <2> QED BY <2>1, <2>2, <1>w DEF GenreSteps
<1>4. ASSUME NEW w \in Workers, ProcessAudioFolder(w) PROVE HeldSteps'
  <2>1. pc[w] \in BusySteps \ ({"mark"} \cup FinishSteps)
    BY <1>4
       DEF ProcessAudioFolder, ProcessSkip, ProcessBegin, ImportFolder, BusySteps, FinishSteps
  <2>2. cur' = cur /\ \E step \in {"done", "import", "mark"} : pc' = [pc EXCEPT ![w] = step]
    BY <1>4 DEF ProcessAudioFolder, ProcessSkip, ProcessBegin, ImportFolder
  <2> QED BY <2>1, <2>2, <1>w DEF GenreSteps
<1>5. ASSUME NEW p \in Procs, FinishFolder(p) PROVE HeldSteps'
  <2>1. PICK step \in FinishSteps \cup {"idle", "done"} :
          pc' = [pc EXCEPT ![p] = step] /\ (cur[p].status = "failed" => step # "done")
    BY <1>5
       DEF FinishFolder, FinishMark, FinishLock, FinishCount, FinishCommit, AfterFinish,
           FinishSteps
  <2>2. cur' = cur
    BY <1>5 DEF FinishFolder, FinishMark, FinishLock, FinishCount, FinishCommit
  <2>3. step # "rebuild" /\ step \notin GenreSteps /\ (Busy(p)' => step # "idle")
    BY <1>t, <2>1 DEF FinishSteps, GenreSteps, Busy, BusySteps
  <2>4. Busy(p)' /\ cur[p].status = "failed" => step \in {"mark"} \cup FinishSteps
    BY <2>1, <2>3
  <2> QED BY <2>1, <2>2, <2>3, <2>4, <1>m
<1>6. ASSUME NEW w \in Workers,
             FinalizeScan(w) \/ RebuildAnalysis(w) \/ FetchArtistGenres(w) \/ ScoreGenres(w)
      PROVE  HeldSteps'
  <2>1. pc[w] \in BusySteps \ ({"mark"} \cup FinishSteps)
    BY <1>6 DEF FinalizeScan, FinalizeFailed, Prune, PruneRaises, QueueRebuild, RebuildAnalysis,
                FetchArtistGenres, FetchSkip, FetchBegin, FetchArtists, FetchUnlock,
                ScoreGenres, BusySteps, FinishSteps
  <2>2. /\ cur' = cur
        /\ \E step \in {"done", "raised", "pruned", "lookup", "unlock"} :
              /\ pc' = [pc EXCEPT ![w] = step]
              /\ step \in GenreSteps => pc[w] \in GenreSteps
    BY <1>6 DEF FinalizeScan, FinalizeFailed, Prune, PruneRaises, QueueRebuild, RebuildAnalysis,
                FetchArtistGenres, FetchSkip, FetchBegin, FetchArtists, FetchUnlock, ScoreGenres,
                GenreSteps
  <2> QED BY <2>1, <2>2, <1>w
<1>7. ASSUME NEW w \in Workers, Complete(w) \/ RetryLater(w) \/ CrashWorker(w) PROVE HeldSteps'
  <2>1. cur' = cur /\ \E step \in {"idle", "dead"} : pc' = [pc EXCEPT ![w] = step]
    BY <1>7 DEF Complete, RetryLater, CrashWorker
  <2>2. ~Busy(w)'
    BY <1>t, <2>1 DEF Busy, BusySteps, Procs
  <2> QED BY <2>1, <2>2, <1>m DEF Procs, GenreSteps
<1>8. ASSUME NEW w \in Workers, Raise(w) PROVE HeldSteps'
  BY <1>8, <1>m DEF Raise, Procs, GenreSteps
<1>9. ASSUME NEW p \in Procs, NEW r \in queue, GiveUp(p, r) PROVE HeldSteps'
  <2>1. PICK step \in {"mark", "idle"} : pc' = [pc EXCEPT ![p] = step]
    BY <1>9 DEF GiveUp
  <2>2. \A q \in Procs : q # p => cur'[q] = cur[q] /\ pc'[q] = pc[q]
    BY <1>9, <1>t, <2>1 DEF GiveUp
  <2>3. pc'[p] = step
    BY <1>t, <2>1
  <2> SUFFICES ASSUME NEW q \in Procs
               PROVE  /\ Busy(q)' /\ cur'[q].status = "failed" => pc'[q] \in {"mark"} \cup FinishSteps
                      /\ pc'[q] = "rebuild" => cur'[q].kind = "rebuild_analysis"
                      /\ pc'[q] \in GenreSteps => cur'[q].kind \in GenreTasks
    BY DEF HeldSteps
  <2>4. CASE q = p   BY <2>3, <2>4 DEF Busy, BusySteps, GenreSteps
  <2>5. CASE q # p   BY <2>2, <2>5 DEF HeldSteps, Busy
  <2> QED BY <2>4, <2>5
<1>10. ASSUME NEW w \in Workers, OutOfAttempts(w) PROVE HeldSteps'
  <2>1. w \in Procs /\ cur[w] \in queue
    BY <1>10 DEF OutOfAttempts, Busy, BusySteps, Procs, QueueInv, HoldInv, HeldRows
  <2> QED BY <1>9, <1>10, <2>1 DEF OutOfAttempts
<1>11. CASE KillService \/ Restart
  <2>1. \A q \in Procs : pc'[q] \in {"idle", "dead"}
    BY <1>11 DEF KillService, Restart
  <2> QED BY <2>1 DEF HeldSteps, Busy, BusySteps, GenreSteps
<1>12. CASE RequeueGiveUp
  BY <1>12, <1>9 DEF RequeueGiveUp, Procs
<1>13. CASE DelayEnds \/ RequeueRest \/ UNCHANGED vars
  BY <1>13, <1>n DEF DelayEnds, RequeueRest, vars
<1> QED BY <1>1, <1>2, <1>3, <1>4, <1>5, <1>6, <1>7, <1>8, <1>10, <1>11, <1>12, <1>13
        DEF Next, WorkerStep, Acknowledge, ServiceStep

\* The rows of unfinished folder jobs stay, perhaps rewritten, and nothing
\* becomes unfinished.
JobRowsStay ==
    \A s \in Scans : \A f \in UnfinishedFolders(s)' :
        /\ f \in UnfinishedFolders(s)
        /\ \A r \in queue :
            r.kind = "process_audio_folder" /\ r.scan = s /\ r.folder = f
                => \E new \in queue' : SameTask(new, r)

LEMMA JobRowsKept ==
    ASSUME JobHasRow, JobRowsStay
    PROVE  JobHasRow'
<1> SUFFICES ASSUME NEW s \in Scans, NEW f \in UnfinishedFolders(s)'
             PROVE  \E r \in queue' : r.kind = "process_audio_folder" /\ r.scan = s /\ r.folder = f
  BY DEF JobHasRow
<1>1. PICK r \in queue : r.kind = "process_audio_folder" /\ r.scan = s /\ r.folder = f
  BY DEF JobHasRow, JobRowsStay
<1> QED BY <1>1 DEF JobRowsStay, SameTask

\* What leaves a folder job unfinished that was: a step that dispatches no
\* scan.
LEMMA UnfinishedShrinks ==
    ASSUME TypeInv, QueueInv, [Next]_vars, \A w \in Workers : ~TriggerDispatch(w)
    PROVE  \A s \in Scans : UnfinishedFolders(s)' \subseteq UnfinishedFolders(s)
<1> USE DEF serviceVars, queueVars, scanVars, lockVars, callerVars, fetchVars, procVars
<1>t. job \in [Scans -> [Folders -> JobStatus]]
  BY DEF TypeInv, RestOK
<1>k. ASSUME job' = job
      PROVE  \A s \in Scans : UnfinishedFolders(s)' \subseteq UnfinishedFolders(s)
  BY <1>k DEF UnfinishedFolders
<1>1. ASSUME NEW w \in Workers, ProcessBegin(w)
      PROVE  \A s \in Scans : UnfinishedFolders(s)' \subseteq UnfinishedFolders(s)
  <2>1. PICK s \in Scans, f \in Folders :
          /\ s = cur[w].scan /\ f = cur[w].folder
          /\ job[s][f] # "none"
    BY <1>1, FinishRows DEF ProcessBegin, FolderSteps, Procs
  <2>2. job[s][f] \in Unfinished /\ job' = [job EXCEPT ![s][f] = "running"]
    BY <1>1, <1>t, <2>1 DEF ProcessBegin, JobStatus, Finished
  <2>3. \A s2 \in Scans : \A f2 \in Folders :
          job'[s2][f2] \in Unfinished <=> job[s2][f2] \in Unfinished
    BY <1>t, <2>1, <2>2 DEF Unfinished
  <2> QED BY <2>3 DEF UnfinishedFolders
<1>2. ASSUME NEW p \in Procs, FinishCommit(p)
      PROVE  \A s \in Scans : UnfinishedFolders(s)' \subseteq UnfinishedFolders(s)
  <2>1. PICK s \in Scans, f \in Folders : s = cur[p].scan /\ f = cur[p].folder
    BY <1>2, FinishRows DEF FinishCommit, FolderSteps, FinishSteps
  <2>2. PICK done \in Finished : job' = [job EXCEPT ![s][f] = done]
    BY <1>2, <2>1 DEF FinishCommit, Outcome, Finished
  <2>3. \A s2 \in Scans : \A f2 \in Folders :
          job'[s2][f2] \in Unfinished => job[s2][f2] \in Unfinished
    BY <1>t, <2>1, <2>2 DEF Unfinished, Finished
  <2> QED BY <2>3 DEF UnfinishedFolders
<1>3. ASSUME NEW c \in Callers, QueueLibraryScan(c) PROVE job' = job
  BY <1>3 DEF QueueLibraryScan, LockScanCreation, ReturnActiveScan, NoActiveScan, CreateScan
<1>4. ASSUME NEW w \in Workers, Claim(w) \/ TriggerLibraryScan(w) PROVE job' = job
  BY <1>4 DEF Claim, TriggerLibraryScan, TriggerRerun, TriggerWithoutFolders
<1>5. ASSUME NEW w \in Workers, ProcessSkip(w) \/ ImportFolder(w) PROVE job' = job
  BY <1>5 DEF ProcessSkip, ImportFolder
<1>6. ASSUME NEW p \in Procs, FinishMark(p) \/ FinishLock(p) \/ FinishCount(p) PROVE job' = job
  BY <1>6 DEF FinishMark, FinishLock, FinishCount
<1>7. ASSUME NEW w \in Workers,
             FinalizeScan(w) \/ RebuildAnalysis(w) \/ FetchArtistGenres(w) \/ ScoreGenres(w)
      PROVE  job' = job
  BY <1>7 DEF FinalizeScan, FinalizeFailed, Prune, PruneRaises, QueueRebuild, RebuildAnalysis,
              FetchArtistGenres, FetchSkip, FetchBegin, FetchArtists, FetchUnlock, ScoreGenres
<1>8. ASSUME NEW w \in Workers, Acknowledge(w) \/ Raise(w) \/ CrashWorker(w) PROVE job' = job
  BY <1>8 DEF Acknowledge, Complete, RetryLater, OutOfAttempts, GiveUp, Raise, CrashWorker
<1>9. CASE DelayEnds \/ KillService \/ ServiceStep \/ UNCHANGED vars
  BY <1>9, <1>k DEF DelayEnds, KillService, ServiceStep, Restart, RequeueGiveUp, RequeueRest,
                    GiveUp, vars
<1> QED BY <1>k, <1>1, <1>2, <1>3, <1>4, <1>5, <1>6, <1>7, <1>8, <1>9
        DEF Next, WorkerStep, ProcessAudioFolder, FinishFolder

\* Only run_one's acknowledgement takes a row out of the queue, and then its
\* code ran through.
LEMMA RowsStay ==
    ASSUME TypeInv, QueueInv, [Next]_vars, NEW r \in queue
    PROVE  \/ \E new \in queue' : SameTask(new, r)
           \/ \E w \in Workers : Complete(w) /\ r = cur[w]
<1> USE DEF serviceVars, queueVars, scanVars, lockVars, callerVars, fetchVars, procVars
<1>t. \A r2 \in queue : r2 \in Row
  BY DEF TypeInv, RowOK
<1>h. \A p \in Procs : Busy(p) => cur[p] \in queue
  BY DEF QueueInv, HoldInv, HeldRows
<1>k. ASSUME queue \subseteq queue' PROVE \E new \in queue' : SameTask(new, r)
  BY <1>k DEF SameTask
<1>w. ASSUME NEW old \in queue, NEW status \in RowStatus,
             queue' = (queue \ {old}) \cup {WithStatus(old, status)}
      PROVE  \E new \in queue' : SameTask(new, r)
  <2>1. SameTask(WithStatus(old, status), old)
    BY <1>t, WithStatusType DEF SameTask
  <2> QED BY <1>w, <2>1 DEF SameTask
<1>1. ASSUME NEW c \in Callers, QueueLibraryScan(c) PROVE queue \subseteq queue'
  BY <1>1
     DEF QueueLibraryScan, LockScanCreation, ReturnActiveScan, NoActiveScan, CreateScan,
         Enqueue
<1>2. ASSUME NEW w \in Workers, Claim(w) PROVE \E new \in queue' : SameTask(new, r)
  <2>1. PICK old \in queue : queue' = (queue \ {old}) \cup {Claimed(old)}
    BY <1>2 DEF Claim
  <2>2. SameTask(Claimed(old), old)
    BY <1>t, ClaimedType DEF SameTask
  <2> QED BY <2>1, <2>2 DEF SameTask
<1>3. ASSUME NEW w \in Workers, TriggerLibraryScan(w) \/ ProcessAudioFolder(w)
      PROVE  queue \subseteq queue'
  BY <1>3 DEF TriggerLibraryScan, TriggerRerun, TriggerWithoutFolders, TriggerDispatch,
              ProcessAudioFolder, ProcessSkip, ProcessBegin, ImportFolder
<1>4. ASSUME NEW p \in Procs, FinishFolder(p) PROVE queue \subseteq queue'
  BY <1>4 DEF FinishFolder, FinishMark, FinishLock, FinishCount, FinishCommit, Enqueue
<1>5. ASSUME NEW w \in Workers,
             FinalizeScan(w) \/ RebuildAnalysis(w) \/ FetchArtistGenres(w) \/ ScoreGenres(w)
      PROVE  queue \subseteq queue'
  BY <1>5 DEF FinalizeScan, FinalizeFailed, Prune, PruneRaises, QueueRebuild, RebuildAnalysis,
              FetchArtistGenres, FetchSkip, FetchBegin, FetchArtists, FetchUnlock, ScoreGenres,
              Enqueue
<1>6. ASSUME NEW w \in Workers, Complete(w)
      PROVE  r = cur[w] \/ \E new \in queue' : SameTask(new, r)
  BY <1>6 DEF Complete, SameTask
<1>7. ASSUME NEW w \in Workers, RetryLater(w) PROVE \E new \in queue' : SameTask(new, r)
  <2>1. cur[w] \in queue
    BY <1>7, <1>h DEF RetryLater, Busy, BusySteps, Procs
  <2> QED BY <1>7, <1>w, <2>1 DEF RetryLater, Rewrite, RowStatus
<1>8. ASSUME NEW w \in Workers, OutOfAttempts(w) PROVE \E new \in queue' : SameTask(new, r)
  <2>1. cur[w] \in queue
    BY <1>8, <1>h DEF OutOfAttempts, Busy, BusySteps, Procs
  <2> QED BY <1>8, <1>w, <2>1 DEF OutOfAttempts, GiveUp, RowStatus
<1>9. ASSUME NEW w \in Workers, Raise(w) \/ CrashWorker(w) PROVE queue \subseteq queue'
  BY <1>9 DEF Raise, CrashWorker
<1>10. CASE DelayEnds
  BY <1>10, <1>w DEF DelayEnds, RowStatus
<1>11. CASE KillService \/ Restart \/ UNCHANGED vars
  BY <1>11, <1>k DEF KillService, Restart, vars
<1>12. CASE RequeueGiveUp
  BY <1>12, <1>w DEF RequeueGiveUp, GiveUp, RowStatus
<1>13. CASE RequeueRest
  <2>1. SameTask(WithStatus(r, "pending"), r) /\ SameTask(r, r)
    BY <1>t, WithStatusType DEF SameTask, RowStatus
  <2>2. r \in queue' \/ WithStatus(r, "pending") \in queue'
    BY <1>13 DEF RequeueRest
  <2> QED BY <2>1, <2>2
<1> QED
  BY <1>k, <1>1, <1>2, <1>3, <1>4, <1>5, <1>6, <1>7, <1>8, <1>9, <1>10, <1>11, <1>12, <1>13
        DEF Next, WorkerStep, Acknowledge, ServiceStep

\* A scan that has no folder jobs has no folder tasks: trigger_library_scan
\* creates both, and both are new.
LEMMA JobHasRowStep ==
    ASSUME TypeInv, QueueInv, JobHasRow, FolderDone, [Next]_vars
    PROVE  JobHasRow'
<1>1. CASE \A w \in Workers : ~TriggerDispatch(w)
  <2>1. \A s \in Scans : UnfinishedFolders(s)' \subseteq UnfinishedFolders(s)
    BY <1>1, UnfinishedShrinks
  <2>2. ASSUME NEW r \in queue, r.kind = "process_audio_folder",
               r.scan \in Scans, r.folder \in UnfinishedFolders(r.scan)
        PROVE  \E new \in queue' : SameTask(new, r)
    <3>1. ASSUME NEW w \in Workers, Complete(w), r = cur[w] PROVE FALSE
      BY <2>2, <3>1 DEF Complete, FolderDone, Procs
    <3> QED BY <3>1, RowsStay
  <2> QED BY <2>1, <2>2, JobRowsKept DEF JobRowsStay
<1>2. ASSUME NEW w \in Workers, TriggerDispatch(w) PROVE JobHasRow'
  <2> DEFINE s == cur[w].scan
             new(f) == NewRow(nextId + f, "process_audio_folder", s, f)
  <2>1. w \in Procs /\ Busy(w) /\ pc[w] = "trigger"
    BY <1>2 DEF TriggerDispatch, Busy, BusySteps, Procs
  <2>2. s \in Scans
    BY <2>1 DEF QueueInv, HoldInv, HeldRows, StepsMatchRows, RowsInv, RowsMatchJobs
  <2>3. job \in [Scans -> [Folders -> JobStatus]]
    BY DEF TypeInv, RestOK
  <2>4. PICK found \in SUBSET Folders :
          /\ job' = [job EXCEPT ![s] = [f \in Folders |-> IF f \in found THEN "pending" ELSE "none"]]
          /\ queue' = queue \cup {new(f) : f \in found}
    BY <1>2 DEF TriggerDispatch
  <2>5. \A f : new(f).kind = "process_audio_folder" /\ new(f).scan = s /\ new(f).folder = f
    BY DEF NewRow
  <2> HIDE DEF new, s
  <2> SUFFICES ASSUME NEW s2 \in Scans, NEW f \in UnfinishedFolders(s2)'
               PROVE  \E r \in queue' : r.kind = "process_audio_folder" /\ r.scan = s2 /\ r.folder = f
    BY DEF JobHasRow
  <2>6. CASE s2 = s
    <3>1. f \in Folders /\ job'[s][f] \in Unfinished
      BY <2>6 DEF UnfinishedFolders
    <3>2. f \in found
      BY <2>2, <2>3, <2>4, <3>1 DEF Unfinished
    <3>3. new(f) \in queue'
      BY <2>4, <3>2
    <3> QED BY <2>5, <2>6, <3>3
  <2>7. CASE s2 # s
    <3>1. f \in UnfinishedFolders(s2)
      BY <2>2, <2>3, <2>4, <2>7 DEF UnfinishedFolders
    <3> QED BY <2>4, <3>1 DEF JobHasRow
  <2> QED BY <2>6, <2>7
<1> QED BY <1>1, <1>2

LEMMA FolderDoneStep ==
    ASSUME TypeInv, QueueInv, HeldSteps, FolderDone, [Next]_vars,
           \A w \in Workers : ~TriggerDispatch(w)
    PROVE  FolderDone'
<1> USE DEF queueVars, scanVars, lockVars, callerVars, fetchVars, procVars, serviceVars, Goto
<1>t. cur \in [Procs -> Row] /\ pc \in [Procs -> ProcSteps]
  BY DEF TypeInv, RestOK, RowOK
<1>s. \A p \in Procs : Busy(p) /\ cur[p].kind = "process_audio_folder" =>
        cur[p].scan \in Scans /\ cur[p].folder \in Folders
  BY DEF QueueInv, HoldInv, HeldRows, RowsInv, RowsMatchJobs
<1>u. \A s \in Scans : UnfinishedFolders(s)' \subseteq UnfinishedFolders(s)
  BY UnfinishedShrinks
\* A process that was done before stays right.
<1>k. ASSUME NEW p \in Procs, pc[p] = "done", cur[p].kind = "process_audio_folder"
      PROVE  job'[cur[p].scan][cur[p].folder] \notin Unfinished
  <2>1. PICK s \in Scans : s = cur[p].scan
    BY <1>k, <1>s DEF Busy, BusySteps
  <2>2. cur[p].folder \notin UnfinishedFolders(s)
    BY <1>k, <2>1 DEF FolderDone
  <2>3. cur[p].folder \in Folders
    BY <1>k, <1>s DEF Busy, BusySteps
  <2> QED BY <1>u, <2>1, <2>2, <2>3 DEF UnfinishedFolders
\* One process moves with the row it has: its folder job is finished.
<1>m. ASSUME NEW p \in Procs, NEW step, pc' = [pc EXCEPT ![p] = step], cur' = cur,
             step = "done" /\ cur[p].kind = "process_audio_folder" =>
                job'[cur[p].scan][cur[p].folder] \notin Unfinished
      PROVE  FolderDone'
  <2> SUFFICES ASSUME NEW q \in Procs, pc'[q] = "done", cur[q].kind = "process_audio_folder"
               PROVE  job'[cur[q].scan][cur[q].folder] \notin Unfinished
    BY <1>m DEF FolderDone, UnfinishedFolders
  <2>1. CASE q = p
    <3>1. step = "done"
      BY <1>m, <1>t, <2>1
    <3> QED BY <1>m, <2>1, <3>1
  <2>2. CASE q # p
    <3>1. pc[q] = "done"
      BY <1>m, <1>t, <2>2
    <3> QED BY <1>k, <3>1
  <2> QED BY <2>1, <2>2
\* A step that leaves nobody done who was not.
<1>n. ASSUME \A p \in Procs : pc'[p] = "done" => pc[p] = "done" /\ cur'[p] = cur[p]
      PROVE  FolderDone'
  <2> SUFFICES ASSUME NEW p \in Procs, pc'[p] = "done", cur'[p].kind = "process_audio_folder"
               PROVE  job'[cur'[p].scan][cur'[p].folder] \notin Unfinished
    BY DEF FolderDone, UnfinishedFolders
  <2>1. pc[p] = "done" /\ cur'[p] = cur[p]
    BY <1>n
  <2> QED BY <1>k, <2>1
\* A step of another kind of task.
<1>o. ASSUME NEW w \in Workers,
             pc[w] \in {"trigger", "finalize", "pruned", "rebuild"} \cup GenreSteps,
             NEW step, pc' = [pc EXCEPT ![w] = step], cur' = cur
      PROVE  FolderDone'
  <2>1. w \in Procs /\ cur[w].kind # "process_audio_folder"
    BY <1>o DEF QueueInv, HoldInv, StepsMatchRows, HeldSteps, GenreTasks, Procs
  <2> QED BY <1>o, <2>1, <1>m
<1>1. ASSUME NEW c \in Callers, QueueLibraryScan(c) PROVE FolderDone'
  BY <1>1, <1>n
     DEF QueueLibraryScan, LockScanCreation, ReturnActiveScan, NoActiveScan, CreateScan
<1>2. ASSUME NEW w \in Workers, Claim(w) PROVE FolderDone'
  <2>1. PICK r \in queue : /\ cur' = [cur EXCEPT ![w] = Claimed(r)]
                            /\ pc' = [pc EXCEPT ![w] = FirstStep[r.kind]]
    BY <1>2 DEF Claim
  <2>2. r.kind \in TaskKinds
    BY RowFields DEF TypeInv, RowOK
  <2>3. FirstStep[r.kind] # "done"
    BY <2>2 DEF FirstStep, TaskKinds
  <2> QED BY <1>n, <1>t, <2>1, <2>3
<1>3. ASSUME NEW w \in Workers, TriggerLibraryScan(w) PROVE FolderDone'
  BY <1>3, <1>o DEF TriggerLibraryScan, TriggerRerun, TriggerWithoutFolders
<1>4. ASSUME NEW w \in Workers, ProcessAudioFolder(w) PROVE FolderDone'
  <2>1. CASE ProcessSkip(w)
    BY <2>1, <1>m DEF ProcessSkip, Procs, Finished, Unfinished
  <2>2. CASE ProcessBegin(w)
    BY <2>2, <1>m DEF ProcessBegin, Procs
  <2>3. CASE ImportFolder(w)
    BY <2>3, <1>m DEF ImportFolder, Procs
  <2> QED BY <1>4, <2>1, <2>2, <2>3 DEF ProcessAudioFolder
<1>5. ASSUME NEW p \in Procs, FinishFolder(p) PROVE FolderDone'
  <2>1. CASE FinishMark(p)
    <3>1. PICK step \in {"lock", "idle", "done"} :
            /\ pc' = [pc EXCEPT ![p] = step]
            /\ step = "done" => job[cur[p].scan][cur[p].folder] \notin Unfinished
      BY <2>1 DEF FinishMark, AfterFinish
    <3> QED BY <2>1, <3>1, <1>m DEF FinishMark
  <2>2. CASE FinishLock(p)
    BY <2>2, <1>m DEF FinishLock
  <2>3. CASE FinishCount(p)
    <3>1. PICK step \in {"last", "notlast"} : pc' = [pc EXCEPT ![p] = step]
      BY <2>3 DEF FinishCount
    <3> QED BY <2>3, <3>1, <1>m DEF FinishCount
  <2>4. CASE FinishCommit(p)
    <3>1. Busy(p) /\ cur[p].kind = "process_audio_folder"
      BY <2>4, FinishRows DEF FinishCommit, FolderSteps, FinishSteps
    <3>2. PICK s \in Scans, f \in Folders : s = cur[p].scan /\ f = cur[p].folder
      BY <1>s, <3>1
    <3>3. job' = [job EXCEPT ![s][f] = Outcome(p)] /\ Outcome(p) \notin Unfinished
      BY <2>4, <3>2 DEF FinishCommit, Outcome, Unfinished
    <3>4. job'[s][f] \notin Unfinished
      BY <3>3 DEF TypeInv, RestOK
    <3> QED BY <2>4, <3>2, <3>4, <1>m DEF FinishCommit
  <2> QED BY <1>5, <2>1, <2>2, <2>3, <2>4 DEF FinishFolder
<1>6. ASSUME NEW w \in Workers,
             FinalizeScan(w) \/ RebuildAnalysis(w) \/ FetchArtistGenres(w) \/ ScoreGenres(w)
      PROVE  FolderDone'
  BY <1>6, <1>o
     DEF FinalizeScan, FinalizeFailed, Prune, PruneRaises, QueueRebuild, RebuildAnalysis,
         FetchArtistGenres, FetchSkip, FetchBegin, FetchArtists, FetchUnlock, ScoreGenres,
         GenreSteps
<1>7. ASSUME NEW w \in Workers, Complete(w) \/ RetryLater(w) \/ Raise(w) \/ CrashWorker(w)
      PROVE  FolderDone'
  <2>1. cur' = cur /\ \E step \in {"idle", "raised", "dead"} : pc' = [pc EXCEPT ![w] = step]
    BY <1>7 DEF Complete, RetryLater, Raise, CrashWorker
  <2> QED BY <2>1, <1>m DEF Procs
<1>8. ASSUME NEW p \in Procs, NEW r, GiveUp(p, r) PROVE FolderDone'
  <2>1. PICK step \in {"mark", "idle"} : pc' = [pc EXCEPT ![p] = step]
    BY <1>8 DEF GiveUp
  <2>2. \A q \in Procs : q # p => cur'[q] = cur[q] /\ pc'[q] = pc[q]
    BY <1>8, <1>t, <2>1 DEF GiveUp
  <2>3. pc'[p] # "done"
    BY <1>t, <2>1
  <2> QED BY <1>n, <2>2, <2>3
<1>9. CASE KillService \/ Restart
  BY <1>9, <1>n DEF KillService, Restart
<1>10. CASE RequeueGiveUp
  BY <1>10, <1>8 DEF RequeueGiveUp, Procs
<1>11. CASE DelayEnds \/ RequeueRest \/ UNCHANGED vars
  BY <1>11, <1>n DEF DelayEnds, RequeueRest, vars
<1> QED BY <1>1, <1>2, <1>3, <1>4, <1>5, <1>6, <1>7, <1>8, <1>9, <1>10, <1>11
        DEF Next, WorkerStep, Acknowledge, OutOfAttempts, ServiceStep, Procs

\* No folder of the scan was done when its folder jobs are created.
LEMMA FolderDoneDispatch ==
    ASSUME TypeInv, QueueInv, FolderDone, NEW w \in Workers, TriggerDispatch(w)
    PROVE  FolderDone'
<1> DEFINE s == cur[w].scan
<1>1. w \in Procs /\ Busy(w) /\ pc[w] = "trigger"
  BY DEF TriggerDispatch, Busy, BusySteps, Procs
<1>2. s \in Scans /\ cur[w].kind = "trigger_library_scan"
  BY <1>1 DEF QueueInv, HoldInv, HeldRows, StepsMatchRows, RowsInv, RowsMatchJobs
<1>3. job \in [Scans -> [Folders -> JobStatus]] /\ pc \in [Procs -> ProcSteps]
  BY DEF TypeInv, RestOK
<1>4. \A s2 \in Scans : s2 # s => job'[s2] = job[s2]
  BY <1>2, <1>3 DEF TriggerDispatch
<1>5. ~Dispatched(s) /\ cur' = cur /\ pc' = [pc EXCEPT ![w] = "done"]
  BY DEF TriggerDispatch, Goto
<1> SUFFICES ASSUME NEW p \in Procs, pc'[p] = "done", cur[p].kind = "process_audio_folder"
             PROVE  job'[cur[p].scan][cur[p].folder] \notin Unfinished
  BY <1>5 DEF FolderDone, UnfinishedFolders
<1>6. pc[p] = "done"
  BY <1>2, <1>3, <1>5
<1>7. /\ cur[p].scan \in Scans /\ cur[p].folder \in Folders
      /\ job[cur[p].scan][cur[p].folder] # "none"
  BY <1>6 DEF QueueInv, HoldInv, HeldRows, RowsInv, RowsMatchJobs, Busy, BusySteps
<1>8. cur[p].scan # s
  BY <1>5, <1>7 DEF Dispatched
<1>9. cur[p].folder \notin UnfinishedFolders(cur[p].scan)
  BY <1>6 DEF FolderDone
<1> QED BY <1>4, <1>7, <1>8, <1>9 DEF UnfinishedFolders

RowInv == IInv /\ HeldSteps /\ JobHasRow /\ FolderDone

\* No task is lost: a folder job that is not finished has its row, whatever
\* raises, is given up or crashes.
THEOREM EveryJobHasRow == Spec => []RowInv
<1>1. Init => HeldSteps /\ JobHasRow /\ FolderDone
  BY DEF Init, HeldSteps, JobHasRow, FolderDone, Busy, BusySteps, UnfinishedFolders, Unfinished,
         GenreSteps
<1>2. IInv /\ HeldSteps /\ JobHasRow /\ FolderDone /\ [Next]_vars
        => HeldSteps' /\ JobHasRow' /\ FolderDone'
  BY HeldStepsStep, JobHasRowStep, FolderDoneStep, FolderDoneDispatch DEF IInv
<1> QED BY <1>1, <1>2, Inductive, PTL DEF Spec, RowInv

\* A folder task's job was unfinished before, if it is after a step.
LEMMA RowUnfinished ==
    ASSUME TypeInv, QueueInv, [Next]_vars, NEW r \in queue, r.kind = "process_audio_folder",
           r.folder \in UnfinishedFolders(r.scan)'
    PROVE  r.folder \in UnfinishedFolders(r.scan)
<1>1. r.scan \in Scans /\ r.folder \in Folders /\ job[r.scan][r.folder] # "none"
  BY DEF QueueInv, RowsInv, RowsMatchJobs
<1>2. CASE \A w \in Workers : ~TriggerDispatch(w)
  BY <1>1, <1>2, UnfinishedShrinks
<1>3. ASSUME NEW w \in Workers, TriggerDispatch(w)
      PROVE  r.folder \in UnfinishedFolders(r.scan)
  <2>1. r.scan # cur[w].scan
    BY <1>1, <1>3 DEF TriggerDispatch, Dispatched
  <2>2. job'[r.scan] = job[r.scan]
    BY <1>1, <1>3, <2>1 DEF TriggerDispatch, TypeInv, RestOK
  <2> QED BY <2>2 DEF UnfinishedFolders
<1> QED BY <1>2, <1>3

-----------------------------------------------------------------------------
(* Nothing crashes.                                                        *)

CalmStep ==
    \/ \E c \in Callers : QueueLibraryScan(c)
    \/ \E w \in Workers : WorkerStep(w) \/ Raise(w)
    \/ \E p \in Procs : FinishFolder(p)
    \/ DelayEnds

\* Without a crash the service is up and is not restarted.
LEMMA Calm ==
    ASSUME MaxCrashes = 0, TypeInv, svc = "up", [Next]_vars
    PROVE  svc' = "up" /\ [CalmStep]_vars
<1> USE DEF serviceVars, queueVars, scanVars, lockVars, callerVars, fetchVars, procVars
<1>1. ~(crashes < MaxCrashes)
  BY DEF TypeInv, RestOK
<1>2. CASE CalmStep
  <2>1. ASSUME NEW c \in Callers, QueueLibraryScan(c) PROVE svc' = svc
    BY <2>1 DEF QueueLibraryScan, LockScanCreation, ReturnActiveScan, NoActiveScan, CreateScan
  <2>2. ASSUME NEW w \in Workers, Claim(w) \/ TriggerLibraryScan(w) \/ ProcessAudioFolder(w)
        PROVE  svc' = svc
    BY <2>2 DEF Claim, TriggerLibraryScan, TriggerRerun, TriggerWithoutFolders, TriggerDispatch,
                ProcessAudioFolder, ProcessSkip, ProcessBegin, ImportFolder
  <2>3. ASSUME NEW w \in Workers,
               FinalizeScan(w) \/ RebuildAnalysis(w) \/ FetchArtistGenres(w) \/ ScoreGenres(w)
        PROVE  svc' = svc
    BY <2>3 DEF FinalizeScan, FinalizeFailed, Prune, PruneRaises, QueueRebuild, RebuildAnalysis,
                FetchArtistGenres, FetchSkip, FetchBegin, FetchArtists, FetchUnlock, ScoreGenres
  <2>4. ASSUME NEW w \in Workers, Acknowledge(w) \/ Raise(w) PROVE svc' = svc
    BY <2>4 DEF Acknowledge, Complete, RetryLater, OutOfAttempts, GiveUp, Raise
  <2>5. ASSUME NEW p \in Procs, FinishFolder(p) PROVE svc' = svc
    BY <2>5 DEF FinishFolder, FinishMark, FinishLock, FinishCount, FinishCommit
  <2>6. ASSUME DelayEnds PROVE svc' = svc
    BY <2>6 DEF DelayEnds
  <2> QED BY <1>2, <2>1, <2>2, <2>3, <2>4, <2>5, <2>6 DEF CalmStep, WorkerStep
<1>3. CASE UNCHANGED vars
  BY <1>3 DEF vars
<1>4. ASSUME NEW w \in Workers, CrashWorker(w) PROVE FALSE
  BY <1>1, <1>4 DEF CrashWorker
<1>5. ~KillService /\ ~ServiceStep
  BY <1>1 DEF KillService, ServiceStep, Restart, RequeueGiveUp, RequeueRest
<1> QED BY <1>2, <1>3, <1>4, <1>5 DEF Next, CalmStep

\* A failure handler that was started finishes its folder.
LEMMA FailedHeldStep ==
    ASSUME TypeInv, QueueInv, HeldSteps, FailedHeld, [Next]_vars, [CalmStep]_vars
    PROVE  FailedHeld'
<1> USE DEF serviceVars, queueVars, scanVars, lockVars, callerVars, fetchVars, procVars, Goto
<1>t. /\ cur \in [Procs -> Row] /\ pc \in [Procs -> ProcSteps]
      /\ \A r \in queue : r \in Row
  BY DEF TypeInv, RestOK, RowOK
\* The rows given up are the old ones, or the one a handler starts with; the
\* handlers keep theirs, or have finished its folder.
<1>f. ASSUME \A r \in queue' : r.kind = "process_audio_folder" /\ r.status = "failed" =>
                r \in queue \/ \E p \in Procs : Busy(p)' /\ cur'[p] = r,
             \A p \in Procs : pc[p] \in {"mark"} \cup FinishSteps =>
                \/ Busy(p)' /\ cur'[p] = cur[p]
                \/ job'[cur[p].scan][cur[p].folder] \notin Unfinished
      PROVE  FailedHeld'
  <2> SUFFICES ASSUME NEW r \in queue', r.kind = "process_audio_folder", r.status = "failed",
                      r.folder \in UnfinishedFolders(r.scan)'
               PROVE  \E p \in Procs : Busy(p)' /\ cur'[p] = r
    BY DEF FailedHeld
  <2>1. CASE r \in queue
    <3>1. r.folder \in UnfinishedFolders(r.scan)
      BY <2>1, RowUnfinished
    <3>2. PICK p \in Procs : Busy(p) /\ cur[p] = r
      BY <2>1, <3>1 DEF FailedHeld
    <3>3. pc[p] \in {"mark"} \cup FinishSteps
      BY <3>2 DEF HeldSteps
    <3>4. job'[r.scan][r.folder] \in Unfinished
      BY DEF UnfinishedFolders
    <3> QED BY <1>f, <3>2, <3>3, <3>4
  <2> QED BY <1>f, <2>1
\* No handler moves.
<1>o. ASSUME NEW p \in Procs, pc[p] \notin {"mark"} \cup FinishSteps,
             \A q \in Procs : q # p => pc'[q] = pc[q] /\ cur'[q] = cur[q],
             \A r \in queue' : r.kind = "process_audio_folder" /\ r.status = "failed" =>
                r \in queue \/ (pc'[p] = "mark" /\ cur'[p] = r)
      PROVE  FailedHeld'
  <2>1. \A q \in Procs : pc[q] \in {"mark"} \cup FinishSteps => Busy(q)' /\ cur'[q] = cur[q]
    BY <1>o DEF Busy, BusySteps, FinishSteps
  <2>2. pc'[p] = "mark" => Busy(p)'
    BY DEF Busy, BusySteps
  <2> QED BY <1>o, <1>f, <2>1, <2>2
\* A row that is added is not failed.
<1>e. ASSUME NEW kind, NEW s, Enqueue(kind, s)
      PROVE  \A r \in queue' : r.status = "failed" => r \in queue
  BY <1>e DEF Enqueue, NewRow
<1>1. ASSUME NEW c \in Callers, QueueLibraryScan(c) PROVE FailedHeld'
  <2>1. \A r \in queue' : r.status = "failed" => r \in queue
    BY <1>1, <1>e
       DEF QueueLibraryScan, LockScanCreation, ReturnActiveScan, NoActiveScan, CreateScan
  <2>2. UNCHANGED <<pc, cur>>
    BY <1>1 DEF QueueLibraryScan, LockScanCreation, ReturnActiveScan, NoActiveScan, CreateScan
  <2> QED BY <1>f, <2>1, <2>2 DEF Busy, BusySteps, FinishSteps
<1>2. ASSUME NEW w \in Workers, Claim(w) PROVE FailedHeld'
  <2>1. PICK r \in queue :
          /\ queue' = (queue \ {r}) \cup {Claimed(r)}
          /\ cur' = [cur EXCEPT ![w] = Claimed(r)]
          /\ pc' = [pc EXCEPT ![w] = FirstStep[r.kind]]
    BY <1>2 DEF Claim
  <2>2. Claimed(r).status = "running"
    BY <1>t, ClaimedType
  <2>3. pc[w] \notin {"mark"} \cup FinishSteps /\ w \in Procs
    BY <1>2 DEF Claim, FinishSteps, Procs
  <2>4. \A q \in Procs : q # w => pc'[q] = pc[q] /\ cur'[q] = cur[q]
    BY <1>t, <2>1
  <2> QED BY <2>1, <2>2, <2>3, <2>4, <1>o
<1>3. ASSUME NEW w \in Workers, TriggerLibraryScan(w) PROVE FailedHeld'
  <2>1. \A r \in queue' : r.status = "failed" => r \in queue
    <3>1. CASE TriggerRerun(w) \/ TriggerWithoutFolders(w)
      BY <3>1 DEF TriggerRerun, TriggerWithoutFolders
    <3>2. CASE TriggerDispatch(w)
      <4>1. \A id, kind, s, f : NewRow(id, kind, s, f).status = "pending"
        BY DEF NewRow
      <4>2. PICK found \in SUBSET Folders :
              queue' = queue \cup
                {NewRow(nextId + f, "process_audio_folder", cur[w].scan, f) : f \in found}
        BY <3>2 DEF TriggerDispatch
      <4> QED BY <4>1, <4>2
    <3> QED BY <1>3, <3>1, <3>2 DEF TriggerLibraryScan
  <2>2. pc' = [pc EXCEPT ![w] = "done"] /\ cur' = cur /\ pc[w] = "trigger"
    BY <1>3 DEF TriggerLibraryScan, TriggerRerun, TriggerWithoutFolders, TriggerDispatch
  <2> QED BY <1>t, <2>1, <2>2, <1>o DEF FinishSteps, Procs
<1>4. ASSUME NEW w \in Workers, ProcessAudioFolder(w) PROVE FailedHeld'
  <2>1. pc[w] \in {"process", "import"} /\ cur' = cur /\ queue' = queue
    BY <1>4 DEF ProcessAudioFolder, ProcessSkip, ProcessBegin, ImportFolder
  <2>2. \A q \in Procs : q # w => pc'[q] = pc[q]
    BY <1>4, <1>t DEF ProcessAudioFolder, ProcessSkip, ProcessBegin, ImportFolder
  <2> QED BY <2>1, <2>2, <1>o DEF FinishSteps, Procs
<1>5. ASSUME NEW p \in Procs, FinishFolder(p) PROVE FailedHeld'
  <2>1. cur' = cur
    BY <1>5 DEF FinishFolder, FinishMark, FinishLock, FinishCount, FinishCommit
  <2>2. \A r \in queue' : r.status = "failed" => r \in queue
    BY <1>5, <1>e DEF FinishFolder, FinishMark, FinishLock, FinishCount, FinishCommit
  <2>3. PICK step \in FinishSteps \cup {"idle", "done"} : pc' = [pc EXCEPT ![p] = step]
    BY <1>5
       DEF FinishFolder, FinishMark, FinishLock, FinishCount, FinishCommit, AfterFinish,
           FinishSteps
  <2>4. Busy(p)' \/ job'[cur[p].scan][cur[p].folder] \notin Unfinished
    <3>1. CASE FinishMark(p)
      BY <3>1, <1>t DEF FinishMark, Busy, BusySteps
    <3>2. CASE FinishLock(p) \/ FinishCount(p)
      BY <3>2, <1>t DEF FinishLock, FinishCount, Busy, BusySteps
    <3>3. CASE FinishCommit(p)
      <4>1. PICK s \in Scans, f \in Folders : s = cur[p].scan /\ f = cur[p].folder
        BY <3>3, FinishRows DEF FinishCommit, FolderSteps, FinishSteps
      <4>2. job' = [job EXCEPT ![s][f] = Outcome(p)] /\ Outcome(p) \notin Unfinished
        BY <3>3, <4>1 DEF FinishCommit, Outcome, Unfinished
      <4> QED BY <4>1, <4>2 DEF TypeInv, RestOK
    <3> QED BY <1>5, <3>1, <3>2, <3>3 DEF FinishFolder
  <2>5. \A q \in Procs : q # p /\ pc[q] \in {"mark"} \cup FinishSteps => Busy(q)'
    BY <1>t, <2>3 DEF Busy, BusySteps, FinishSteps
  <2> QED BY <2>1, <2>2, <2>4, <2>5, <1>f
<1>6. ASSUME NEW w \in Workers,
             FinalizeScan(w) \/ RebuildAnalysis(w) \/ FetchArtistGenres(w) \/ ScoreGenres(w)
      PROVE  FailedHeld'
  <2>1. pc[w] \in {"finalize", "pruned", "rebuild"} \cup GenreSteps /\ cur' = cur
    BY <1>6 DEF FinalizeScan, FinalizeFailed, Prune, PruneRaises, QueueRebuild, RebuildAnalysis,
                FetchArtistGenres, FetchSkip, FetchBegin, FetchArtists, FetchUnlock, ScoreGenres,
                GenreSteps
  <2>2. \A q \in Procs : q # w => pc'[q] = pc[q]
    BY <1>6, <1>t
       DEF FinalizeScan, FinalizeFailed, Prune, PruneRaises, QueueRebuild, RebuildAnalysis,
                FetchArtistGenres, FetchSkip, FetchBegin, FetchArtists, FetchUnlock, ScoreGenres
  <2>3. \A r \in queue' : r.status = "failed" => r \in queue
    BY <1>6, <1>e
       DEF FinalizeScan, FinalizeFailed, Prune, PruneRaises, QueueRebuild, RebuildAnalysis,
                FetchArtistGenres, FetchSkip, FetchBegin, FetchArtists, FetchUnlock, ScoreGenres
  <2> QED BY <2>1, <2>2, <2>3, <1>o DEF FinishSteps, GenreSteps, Procs
<1>7. ASSUME NEW w \in Workers, Complete(w) PROVE FailedHeld'
  BY <1>7, <1>t, <1>o DEF Complete, FinishSteps, Procs
<1>8. ASSUME NEW w \in Workers, RetryLater(w) PROVE FailedHeld'
  <2>1. WithStatus(cur[w], "delayed").status = "delayed" /\ w \in Procs
    BY <1>t, WithStatusType DEF RowStatus, Procs
  <2> QED BY <1>8, <1>t, <2>1, <1>o DEF RetryLater, Rewrite, FinishSteps
<1>9. ASSUME NEW w \in Workers, OutOfAttempts(w) PROVE FailedHeld'
  <2> DEFINE new == WithStatus(cur[w], "failed")
  <2>1. w \in Procs /\ new.kind = cur[w].kind
    BY <1>t, WithStatusType DEF RowStatus, Procs
  <2>2. /\ queue' = (queue \ {cur[w]}) \cup {new}
        /\ cur' = [cur EXCEPT ![w] = new]
        /\ pc' = [pc EXCEPT ![w] = IF cur[w].kind = "process_audio_folder" THEN "mark" ELSE "idle"]
        /\ pc[w] = "raised"
    BY <1>9 DEF OutOfAttempts, GiveUp
  <2> HIDE DEF new
  <2>3. new.kind = "process_audio_folder" => pc'[w] = "mark" /\ cur'[w] = new
    BY <1>t, <2>1, <2>2
  <2>4. \A q \in Procs : q # w => pc'[q] = pc[q] /\ cur'[q] = cur[q]
    BY <1>t, <2>2
  <2> QED BY <2>1, <2>2, <2>3, <2>4, <1>o DEF FinishSteps
<1>10. ASSUME NEW w \in Workers, Raise(w) PROVE FailedHeld'
  <2>1. /\ cur' = cur /\ queue' = queue /\ cur[w].status = "running"
        /\ pc' = [pc EXCEPT ![w] = "raised"] /\ w \in Procs
    BY <1>10 DEF Raise, Procs
  <2>2. \A q \in Procs : pc[q] \in {"mark"} \cup FinishSteps => Busy(q)'
    BY <1>t, <2>1 DEF Busy, BusySteps, FinishSteps
  <2> QED BY <2>1, <2>2, <1>f
<1>11. CASE DelayEnds
  <2>1. PICK r \in queue : queue' = (queue \ {r}) \cup {WithStatus(r, "pending")}
    BY <1>11 DEF DelayEnds
  <2>2. WithStatus(r, "pending").status = "pending"
    BY <1>t, WithStatusType DEF RowStatus
  <2>3. UNCHANGED <<pc, cur>>
    BY <1>11 DEF DelayEnds
  <2> QED BY <2>1, <2>2, <2>3, <1>f DEF Busy, BusySteps, FinishSteps
<1>12. CASE UNCHANGED vars
  BY <1>12, <1>f DEF vars, Busy, BusySteps, FinishSteps
<1> QED BY <1>1, <1>2, <1>3, <1>4, <1>5, <1>6, <1>7, <1>8, <1>9, <1>10, <1>11, <1>12
        DEF CalmStep, WorkerStep, Acknowledge

\* When nothing crashes, an unfinished folder job has a task that will finish
\* it or a failure handler at work on it, whatever raises and is given up.
THEOREM FoldersFinish ==
    ASSUME MaxCrashes = 0
    PROVE  Spec => []FolderJobHasTask
<1> DEFINE Inv == svc = "up" /\ FailedHeld
<1>1. Init => Inv
  BY DEF Init, FailedHeld
<1>2. RowInv /\ Inv /\ [Next]_vars => Inv'
  BY Calm, FailedHeldStep DEF RowInv, IInv
<1>3. RowInv /\ Inv => FolderJobHasTask
  BY DEF RowInv, FailedHeld, JobHasRow, FolderJobHasTask
<1> QED BY <1>1, <1>2, <1>3, EveryJobHasRow, PTL DEF Spec

-----------------------------------------------------------------------------
(* Crashes, and no error.                                                  *)

LEMMA AttemptsLastStep ==
    ASSUME "process_audio_folder" \notin FailingTasks, MaxCrashes < MaxAttempts,
           TypeInv, QueueInv, HeldSteps, AttemptsLast, [Next]_vars
    PROVE  AttemptsLast'
<1> USE DEF serviceVars, queueVars, scanVars, lockVars, callerVars, fetchVars, procVars, Goto
<1>t. /\ cur \in [Procs -> Row] /\ pc \in [Procs -> ProcSteps]
      /\ \A r \in queue : r \in Row /\ r.attempts \in Nat
      /\ crashes \in Nat /\ crashes <= MaxCrashes /\ MaxCrashes \in Nat /\ MaxAttempts \in Nat
  BY RowFields, Constants DEF TypeInv, RestOK, RowOK
<1>h. \A p \in Procs : Busy(p) => cur[p] \in queue
  BY DEF QueueInv, HoldInv, HeldRows
\* A step in which nothing is claimed, nothing crashes and nothing starts.
<1>f. ASSUME svc' = svc, crashes' = crashes,
             \A r \in queue' : \/ r \in queue
                               \/ r.kind # "process_audio_folder"
                               \/ r.status = "pending" /\ r.attempts = 0,
             \A p \in Procs : pc'[p] = "raised" =>
                \/ pc[p] = "raised" /\ cur'[p] = cur[p]
                \/ cur'[p].kind # "process_audio_folder"
      PROVE  AttemptsLast'
  BY <1>f, <1>t DEF AttemptsLast
\* One process moves, and not because its import raised.
<1>m. ASSUME svc' = svc, crashes' = crashes,
             \A r \in queue' : \/ r \in queue
                               \/ r.kind # "process_audio_folder"
                               \/ r.status = "pending" /\ r.attempts = 0,
             NEW p \in Procs, NEW step, pc' = [pc EXCEPT ![p] = step],
             \A q \in Procs : q # p => cur'[q] = cur[q],
             step = "raised" => cur'[p].kind # "process_audio_folder"
      PROVE  AttemptsLast'
  <2>1. \A q \in Procs : pc'[q] = "raised" =>
          \/ pc[q] = "raised" /\ cur'[q] = cur[q]
          \/ cur'[q].kind # "process_audio_folder"
    BY <1>m, <1>t
  <2> QED BY <1>m, <2>1, <1>f
<1>e. ASSUME NEW kind, NEW s, Enqueue(kind, s)
      PROVE  \A r \in queue' : r \in queue \/ (r.status = "pending" /\ r.attempts = 0)
  BY <1>e DEF Enqueue, NewRow
<1>1. ASSUME NEW c \in Callers, QueueLibraryScan(c) PROVE AttemptsLast'
  <2>1. \A r \in queue' : r \in queue \/ (r.status = "pending" /\ r.attempts = 0)
    BY <1>1, <1>e
       DEF QueueLibraryScan, LockScanCreation, ReturnActiveScan, NoActiveScan, CreateScan
  <2>2. UNCHANGED <<pc, cur, svc, crashes>>
    BY <1>1 DEF QueueLibraryScan, LockScanCreation, ReturnActiveScan, NoActiveScan, CreateScan
  <2> QED BY <2>1, <2>2, <1>f
<1>2. ASSUME NEW w \in Workers, Claim(w) PROVE AttemptsLast'
  <2>1. PICK r \in queue :
          /\ r.status = "pending"
          /\ queue' = (queue \ {r}) \cup {Claimed(r)}
          /\ cur' = [cur EXCEPT ![w] = Claimed(r)]
          /\ pc' = [pc EXCEPT ![w] = FirstStep[r.kind]]
    BY <1>2 DEF Claim, Runnable
  <2>2. /\ r.kind \in TaskKinds /\ r.attempts \in Nat
        /\ Claimed(r).kind = r.kind /\ Claimed(r).status = "running"
        /\ Claimed(r).attempts = r.attempts + 1
    BY <1>t, RowFields, ClaimedType
  <2>3. FirstStep[r.kind] # "raised"
    BY <2>2 DEF FirstStep, TaskKinds
  <2>4. svc = "up" /\ UNCHANGED <<svc, crashes>>
    BY <1>2 DEF Claim
  <2>5. \A r2 \in queue' : r2.kind = "process_audio_folder" =>
          /\ r2.status \in {"pending", "running"}
          /\ r2.attempts <= IF svc' = "up" THEN crashes' + 1 ELSE crashes'
          /\ r2.status = "pending" => r2.attempts <= crashes'
    BY <1>t, <2>1, <2>2, <2>4 DEF AttemptsLast
  <2>6. \A p \in Procs : pc'[p] = "raised" => cur'[p].kind # "process_audio_folder"
    BY <1>t, <2>1, <2>3 DEF AttemptsLast
  <2> QED BY <2>5, <2>6 DEF AttemptsLast
<1>3. ASSUME NEW w \in Workers, TriggerLibraryScan(w) PROVE AttemptsLast'
  <2>1. \A r \in queue' : r \in queue \/ (r.status = "pending" /\ r.attempts = 0)
    <3>1. CASE TriggerRerun(w) \/ TriggerWithoutFolders(w)
      BY <3>1 DEF TriggerRerun, TriggerWithoutFolders
    <3>2. CASE TriggerDispatch(w)
      <4>1. \A id, kind, s, f : /\ NewRow(id, kind, s, f).status = "pending"
                                /\ NewRow(id, kind, s, f).attempts = 0
        BY DEF NewRow
      <4>2. PICK found \in SUBSET Folders :
              queue' = queue \cup
                {NewRow(nextId + f, "process_audio_folder", cur[w].scan, f) : f \in found}
        BY <3>2 DEF TriggerDispatch
      <4> QED BY <4>1, <4>2
    <3> QED BY <1>3, <3>1, <3>2 DEF TriggerLibraryScan
  <2>2. pc' = [pc EXCEPT ![w] = "done"] /\ UNCHANGED <<cur, svc, crashes>> /\ w \in Procs
    BY <1>3 DEF TriggerLibraryScan, TriggerRerun, TriggerWithoutFolders, TriggerDispatch, Procs
  <2> QED BY <2>1, <2>2, <1>m
<1>4. ASSUME NEW w \in Workers, ProcessAudioFolder(w) PROVE AttemptsLast'
  <2>1. PICK step \in {"done", "import", "mark"} : pc' = [pc EXCEPT ![w] = step]
    BY <1>4 DEF ProcessAudioFolder, ProcessSkip, ProcessBegin, ImportFolder
  <2>2. UNCHANGED <<queue, cur, svc, crashes>> /\ w \in Procs
    BY <1>4 DEF ProcessAudioFolder, ProcessSkip, ProcessBegin, ImportFolder, Procs
  <2> QED BY <2>1, <2>2, <1>m
<1>5. ASSUME NEW p \in Procs, FinishFolder(p) PROVE AttemptsLast'
  <2>1. PICK step \in FinishSteps \cup {"idle", "done"} : pc' = [pc EXCEPT ![p] = step]
    BY <1>5
       DEF FinishFolder, FinishMark, FinishLock, FinishCount, FinishCommit, AfterFinish,
           FinishSteps
  <2>2. UNCHANGED <<cur, svc, crashes>>
    BY <1>5 DEF FinishFolder, FinishMark, FinishLock, FinishCount, FinishCommit
  <2>3. \A r \in queue' : r \in queue \/ (r.status = "pending" /\ r.attempts = 0)
    BY <1>5, <1>e DEF FinishFolder, FinishMark, FinishLock, FinishCount, FinishCommit
  <2>4. step # "raised"
    BY <2>1 DEF FinishSteps
  <2> QED BY <2>1, <2>2, <2>3, <2>4, <1>m
<1>6. ASSUME NEW w \in Workers,
             FinalizeScan(w) \/ RebuildAnalysis(w) \/ FetchArtistGenres(w) \/ ScoreGenres(w)
      PROVE  AttemptsLast'
  <2>1. PICK step \in {"done", "raised", "pruned", "lookup", "unlock"} :
          pc' = [pc EXCEPT ![w] = step]
    BY <1>6
       DEF FinalizeScan, FinalizeFailed, Prune, PruneRaises, QueueRebuild, RebuildAnalysis,
           FetchArtistGenres, FetchSkip, FetchBegin, FetchArtists, FetchUnlock, ScoreGenres
  <2>2. UNCHANGED <<cur, svc, crashes>> /\ pc[w] \in {"finalize", "pruned", "rebuild"} \cup GenreSteps
    BY <1>6
       DEF FinalizeScan, FinalizeFailed, Prune, PruneRaises, QueueRebuild, RebuildAnalysis,
           FetchArtistGenres, FetchSkip, FetchBegin, FetchArtists, FetchUnlock, ScoreGenres,
           GenreSteps
  <2>3. \A r \in queue' : r \in queue \/ (r.status = "pending" /\ r.attempts = 0)
    BY <1>6, <1>e DEF FinalizeScan, FinalizeFailed, Prune, PruneRaises, QueueRebuild,
                      RebuildAnalysis, FetchArtistGenres, FetchSkip, FetchBegin, FetchArtists,
                      FetchUnlock, ScoreGenres
  <2>4. w \in Procs /\ cur[w].kind # "process_audio_folder"
    BY <2>2 DEF QueueInv, HoldInv, StepsMatchRows, HeldSteps, GenreTasks, Procs
  <2> QED BY <2>1, <2>2, <2>3, <2>4, <1>m
<1>7. ASSUME NEW w \in Workers, Complete(w) PROVE AttemptsLast'
  BY <1>7, <1>m DEF Complete, Procs
<1>8. ASSUME NEW w \in Workers, RetryLater(w) PROVE AttemptsLast'
  <2>1. WithStatus(cur[w], "delayed").kind = cur[w].kind /\ w \in Procs
    BY <1>t, WithStatusType DEF RowStatus, Procs
  <2>2. cur[w].kind # "process_audio_folder"
    BY <1>8, <2>1 DEF RetryLater, AttemptsLast
  <2> QED BY <1>8, <2>1, <2>2, <1>m DEF RetryLater, Rewrite
<1>9. ASSUME NEW p \in Procs, NEW r \in Row, r.kind # "process_audio_folder", GiveUp(p, r)
      PROVE  AttemptsLast'
  <2>1. WithStatus(r, "failed").kind = r.kind
    BY WithStatusType DEF RowStatus
  <2>2. pc' = [pc EXCEPT ![p] = "idle"] /\ UNCHANGED <<svc, crashes>>
    BY <1>9 DEF GiveUp
  <2>3. \A q \in Procs : q # p => cur'[q] = cur[q]
    BY <1>9, <1>t DEF GiveUp
  <2>4. \A r2 \in queue' : r2 \in queue \/ r2.kind # "process_audio_folder"
    BY <1>9, <2>1 DEF GiveUp
  <2> QED BY <2>2, <2>3, <2>4, <1>m
<1>10. ASSUME NEW w \in Workers, OutOfAttempts(w) PROVE AttemptsLast'
  <2>1. w \in Procs /\ cur[w] \in Row /\ cur[w].kind # "process_audio_folder"
    BY <1>10, <1>t DEF OutOfAttempts, AttemptsLast, Procs
  <2> QED BY <1>9, <1>10, <2>1 DEF OutOfAttempts
<1>11. ASSUME NEW w \in Workers, Raise(w) PROVE AttemptsLast'
  BY <1>11, <1>m DEF Raise, Procs
<1>12. CASE DelayEnds
  <2>1. PICK r \in queue : /\ r.status = "delayed"
                            /\ queue' = (queue \ {r}) \cup {WithStatus(r, "pending")}
    BY <1>12 DEF DelayEnds
  <2>2. WithStatus(r, "pending").kind = r.kind
    BY <1>t, WithStatusType DEF RowStatus
  <2>3. r.kind # "process_audio_folder"
    BY <2>1 DEF AttemptsLast
  <2>4. UNCHANGED <<pc, cur, svc, crashes>>
    BY <1>12 DEF DelayEnds
  <2> QED BY <2>1, <2>2, <2>3, <2>4, <1>f
\* A crash gives every folder task one more attempt, used already.
<1>13. ASSUME KillService \/ \E w \in Workers : CrashWorker(w) PROVE AttemptsLast'
  <2>1. svc' = "stopping" /\ crashes' = crashes + 1 /\ UNCHANGED <<queue, cur>>
    BY <1>13 DEF KillService, CrashWorker
  <2>2. \A p \in Procs : pc'[p] = "raised" => pc[p] = "raised"
    BY <1>13, <1>t DEF KillService, CrashWorker
  <2>3. \A r \in queue : r.kind = "process_audio_folder" =>
          /\ r.status \in {"pending", "running"}
          /\ r.attempts <= crashes + 1
    BY <1>t DEF AttemptsLast
  <2> QED BY <1>t, <2>1, <2>2, <2>3 DEF AttemptsLast
<1>14. CASE Restart
  <2>1. svc = "stopping" /\ svc' = "starting" /\ UNCHANGED <<queue, crashes>>
    BY <1>14 DEF Restart
  <2>2. \A p \in Procs : pc'[p] # "raised"
    BY <1>14 DEF Restart
  <2> QED BY <2>1, <2>2 DEF AttemptsLast
\* No folder task is out of attempts when it is requeued.
<1>15. CASE RequeueGiveUp
  <2>1. PICK r \in queue : /\ svc = "starting" /\ r.attempts >= MaxAttempts
                            /\ GiveUp(Supervisor, r)
    BY <1>15 DEF RequeueGiveUp
  <2>2. r.kind # "process_audio_folder"
    BY <1>t, <2>1 DEF AttemptsLast
  <2> QED BY <1>t, <1>9, <2>1, <2>2 DEF Procs
<1>16. CASE RequeueRest
  <2>1. svc = "starting" /\ svc' = "up" /\ UNCHANGED <<pc, cur, crashes>>
    BY <1>16 DEF RequeueRest
  <2>2. \A new \in queue' : \E r \in queue : new = r \/ new = WithStatus(r, "pending")
    BY <1>16 DEF RequeueRest
  <2>3. \A r \in queue : /\ WithStatus(r, "pending").kind = r.kind
                         /\ WithStatus(r, "pending").status = "pending"
                         /\ WithStatus(r, "pending").attempts = r.attempts
    BY <1>t, WithStatusType DEF RowStatus
  <2>4. \A r \in queue' : r.kind = "process_audio_folder" =>
          /\ r.status \in {"pending", "running"}
          /\ r.attempts <= crashes
    BY <2>1, <2>2, <2>3 DEF AttemptsLast
  <2>5. \A r \in queue' : r.kind = "process_audio_folder" => r.attempts <= crashes + 1
    <3>1. \A r \in queue' : r.attempts \in Nat
      BY <1>t, <2>2, <2>3
    <3> QED BY <1>t, <2>4, <3>1
  <2> QED BY <2>1, <2>4, <2>5 DEF AttemptsLast
<1>17. CASE UNCHANGED vars
  BY <1>17, <1>f DEF vars
<1> QED BY <1>1, <1>2, <1>3, <1>4, <1>5, <1>6, <1>7, <1>8, <1>10, <1>11, <1>12, <1>13, <1>14,
           <1>15, <1>16, <1>17
        DEF Next, WorkerStep, Acknowledge, ServiceStep

\* When imports do not raise and the service crashes less often than a task
\* has attempts, no folder task is ever given up: every unfinished folder job
\* keeps a task that will finish it, whatever is killed at any step.
THEOREM FoldersSurvive ==
    ASSUME "process_audio_folder" \notin FailingTasks, MaxCrashes < MaxAttempts
    PROVE  Spec => []FolderJobHasTask
<1>1. Init => AttemptsLast
  BY DEF Init, AttemptsLast
<1>2. RowInv /\ AttemptsLast /\ [Next]_vars => AttemptsLast'
  BY AttemptsLastStep DEF RowInv, IInv
<1>3. RowInv /\ AttemptsLast => FolderJobHasTask
  BY DEF RowInv, AttemptsLast, JobHasRow, FolderJobHasTask
<1> QED BY <1>1, <1>2, <1>3, EveryJobHasRow, PTL DEF Spec

-----------------------------------------------------------------------------
(* Scans that follow each other.                                           *)

\* After this step, r is a row that was there, and not done, failed or more
\* active than it was.
KeptRow(r) == \E old \in queue : SameTask(r, old) /\ (Active(r)' => Active(old))

\* A row that is added and matters to no trigger or finalizer.
QuietRow(r) ==
    \/ r.kind \in {"process_audio_folder"} \cup GenreTasks
    \/ /\ r.kind = "rebuild_analysis"
       /\ r.scan \in Scans => finalizers[r.scan] > 0 /\ NoActive("finalize_scan", r.scan)

DispatchFrame ==
    \A s \in Scans :
        Dispatched(s)' =>
            \/ Dispatched(s)
            \/ NoActive("trigger_library_scan", s)' /\ master'[s] = "running"

MasterFrame ==
    \A s \in Scans :
        \/ master'[s] = master[s]
        \/ /\ master'[s] # "none"
           /\ NoActive("trigger_library_scan", s)'
           /\ master'[s] = "completed" =>
                /\ NoActive("finalize_scan", s)'
                /\ ~Dispatched(s)' \/ finalizers'[s] > 0
           /\ \/ "finalize_scan" \in FailingTasks
              \/ master'[s] = "running"
              \/ ~Dispatched(s)'
              \/ finalizers'[s] > 0 /\ NoActive("finalize_scan", s)'

OverlapBase == IInv /\ HeldSteps /\ svc = "up"

LEMMA OverlapKept ==
    ASSUME OverlapBase, OverlapInv, QueueInv', DispatchFrame, MasterFrame,
           \A s \in Scans : finalizers[s] > 0 => finalizers'[s] > 0,
           \A r \in queue' : KeptRow(r) \/ QuietRow(r)'
    PROVE  OverlapInv'
<1> USE DEF OverlapBase, OverlapInv
<1>s. \A r \in queue' :
        r.kind \in {"trigger_library_scan", "finalize_scan"} => r.scan \in Scans /\ KeptRow(r)
  BY DEF QuietRow, GenreTasks, QueueInv, RowsInv, RowsMatchJobs
<1>1. OneOfEach'
  <2> SUFFICES ASSUME NEW kind \in {"trigger_library_scan", "finalize_scan"},
                      NEW r1 \in queue', NEW r2 \in queue',
                      r1.kind = kind, r2.kind = kind, r1.scan = r2.scan
               PROVE  r1 = r2
    BY DEF OneOfEach
  <2>1. PICK old1 \in queue : SameTask(r1, old1)
    BY <1>s DEF KeptRow
  <2>2. PICK old2 \in queue : SameTask(r2, old2)
    BY <1>s DEF KeptRow
  <2>3. old1 = old2
    BY <2>1, <2>2 DEF OneOfEach, SameTask
  <2> QED BY <2>1, <2>2, <2>3 DEF SameTask, QueueInv, RowsInv, UniqueIds
<1>2. TriggerRows'
  <2> SUFFICES ASSUME NEW r \in queue', r.kind = "trigger_library_scan"
               PROVE  /\ master'[r.scan] # "none"
                      /\ Active(r)' => master'[r.scan] = "pending" /\ ~Dispatched(r.scan)'
    BY DEF TriggerRows
  <2>1. PICK old \in queue : SameTask(r, old) /\ (Active(r)' => Active(old))
    BY <1>s DEF KeptRow
  <2>2. PICK s \in Scans : s = r.scan
    BY <1>s
  <2>3. /\ master[s] # "none"
        /\ Active(r)' => master[s] = "pending" /\ ~Dispatched(s)
    BY <2>1, <2>2 DEF TriggerRows, SameTask
  <2>4. Active(r)' => ~NoActive("trigger_library_scan", s)'
    BY <2>2 DEF NoActive
  <2>5. master'[s] # "none" /\ (Active(r)' => master'[s] = "pending")
    BY <2>3, <2>4 DEF MasterFrame
  <2>6. Active(r)' => ~Dispatched(s)'
    BY <2>3, <2>4 DEF DispatchFrame
  <2> QED BY <2>2, <2>5, <2>6
<1>3. RebuildRows'
  <2> SUFFICES ASSUME NEW r \in queue', r.kind = "rebuild_analysis", r.scan \in Scans
               PROVE  finalizers'[r.scan] > 0
    BY DEF RebuildRows
  <2>1. CASE KeptRow(r)
    BY <2>1 DEF KeptRow, SameTask, RebuildRows
  <2>2. CASE QuietRow(r)'
    BY <2>2 DEF QuietRow, GenreTasks
  <2> QED BY <2>1, <2>2
<1>4. FinalizeRows'
  <2> SUFFICES ASSUME NEW r \in queue', r.kind = "finalize_scan", Active(r)'
               PROVE  /\ master'[r.scan] # "completed"
                      /\ \A other \in queue' : other.kind = "rebuild_analysis" => other.scan # r.scan
    BY DEF FinalizeRows
  <2>1. PICK old \in queue : SameTask(r, old) /\ Active(old)
    BY <1>s DEF KeptRow
  <2>2. PICK s \in Scans : s = r.scan
    BY <1>s
  <2>3. /\ master[s] # "completed"
        /\ \A other \in queue : other.kind = "rebuild_analysis" => other.scan # s
    BY <2>1, <2>2 DEF FinalizeRows, SameTask
  <2>4. ~NoActive("finalize_scan", s)'
    BY <2>2 DEF NoActive
  <2>5. master'[s] # "completed"
    BY <2>3, <2>4 DEF MasterFrame
  <2>6. ASSUME NEW other \in queue', other.kind = "rebuild_analysis" PROVE other.scan # s
    <3>1. CASE KeptRow(other)
      BY <2>3, <2>6, <3>1 DEF KeptRow, SameTask
    <3>2. CASE QuietRow(other)'
      BY <2>4, <2>6, <3>2 DEF QuietRow, GenreTasks
    <3> QED BY <3>1, <3>2
  <2> QED BY <2>2, <2>5, <2>6
<1>5. CompletedRows'
  <2> SUFFICES ASSUME NEW s \in Scans, master'[s] = "completed"
               PROVE  ~Dispatched(s)' \/ finalizers'[s] > 0
    BY DEF CompletedRows
  <2> QED BY DEF CompletedRows, MasterFrame, DispatchFrame
<1>6. NewScans'
  BY DEF NewScans, MasterFrame, DispatchFrame
<1>7. RunningScans'
  <2> SUFFICES ASSUME "finalize_scan" \notin FailingTasks, NEW s \in Scans,
                      Dispatched(s)', finalizers'[s] = 0 \/ ~NoActive("finalize_scan", s)',
                      master'[s] # "running"
               PROVE  FALSE
    BY DEF RunningScans
  <2>1. Dispatched(s) /\ master[s] # "running"
    BY DEF DispatchFrame, MasterFrame
  <2>2. finalizers[s] > 0 /\ NoActive("finalize_scan", s)
    BY <2>1 DEF RunningScans, IInv, TypeInv, RestOK
  <2>3. finalizers'[s] > 0
    BY <2>2
  <2>4. ASSUME NEW r \in queue', r.kind = "finalize_scan", r.scan = s PROVE ~Active(r)'
    <3>1. PICK old \in queue : SameTask(r, old) /\ (Active(r)' => Active(old))
      BY <1>s, <2>4 DEF KeptRow
    <3> QED BY <2>2, <2>4, <3>1 DEF NoActive, SameTask
  <2>5. NoActive("finalize_scan", s)'
    BY <2>4 DEF NoActive
  <2> QED BY <2>3, <2>5
<1> QED BY <1>1, <1>2, <1>3, <1>4, <1>5, <1>6, <1>7

\* A task in hand is active while its code runs; a finalizer's scan has folder
\* jobs, a trigger's has none.
LEMMA HeldActive ==
    ASSUME OverlapBase, OverlapInv, NEW w \in Workers,
           pc[w] \in {"trigger", "finalize", "pruned"}
    PROVE  /\ w \in Procs /\ Busy(w) /\ cur[w] \in queue /\ cur[w].scan \in Scans
           /\ Active(cur[w])
           /\ pc[w] = "trigger" => /\ cur[w].kind = "trigger_library_scan"
                                   /\ master[cur[w].scan] = "pending"
                                   /\ ~Dispatched(cur[w].scan)
           /\ pc[w] # "trigger" => /\ cur[w].kind = "finalize_scan"
                                   /\ master[cur[w].scan] # "completed"
                                   /\ Dispatched(cur[w].scan)
                                   /\ finalizers[cur[w].scan] > 0
<1> USE DEF OverlapBase, OverlapInv, IInv
<1>1. w \in Procs /\ Busy(w)
  BY DEF Busy, BusySteps, Procs
<1>2. /\ cur[w] \in queue
      /\ pc[w] = "trigger" => cur[w].kind = "trigger_library_scan"
      /\ pc[w] # "trigger" => cur[w].kind = "finalize_scan"
  BY <1>1 DEF QueueInv, HoldInv, HeldRows, StepsMatchRows
<1>3. cur[w].scan \in Scans
  BY <1>2 DEF QueueInv, RowsInv, RowsMatchJobs
<1>4. cur[w].status # "failed"
  BY <1>1 DEF HeldSteps, FinishSteps
<1>5. \A p \in Procs : pc[p] = "done" => cur[p] # cur[w]
  BY <1>1 DEF QueueInv, HoldInv, HeldRows, Busy, BusySteps
<1>6. Active(cur[w])
  BY <1>4, <1>5 DEF Active
<1>7. pc[w] = "trigger" => master[cur[w].scan] = "pending" /\ ~Dispatched(cur[w].scan)
  BY <1>2, <1>6 DEF TriggerRows
<1>8. pc[w] # "trigger" => master[cur[w].scan] # "completed" /\ finalizers[cur[w].scan] > 0
  BY <1>2, <1>6 DEF FinalizeRows, FinalizerRows
<1>9. pc[w] # "trigger" => Dispatched(cur[w].scan)
  BY <1>3, <1>8 DEF ExactlyOneFinalizer
<1> QED BY <1>1, <1>2, <1>3, <1>6, <1>7, <1>8, <1>9

\* A process with a task in hand moves, and rows are at most added.
LEMMA MoveKeeps ==
    ASSUME OverlapBase, NEW p \in Procs, NEW step, pc[p] # "done",
           pc' = [pc EXCEPT ![p] = step], cur' = cur, NEW r \in queue
    PROVE  KeptRow(r)
<1>1. \A q \in Procs : pc[q] = "done" => pc'[q] = "done"
  BY DEF OverlapBase, IInv, TypeInv, RestOK
<1>2. Active(r)' => Active(r)
  BY <1>1 DEF Active
<1> QED BY <1>2 DEF KeptRow, SameTask

\* The process that finishes its code leaves no task of this kind active: the
\* scan has only its own.
LEMMA DoneRests ==
    ASSUME OverlapBase, OverlapInv, QueueInv', NEW w \in Workers,
           pc[w] \in {"trigger", "finalize", "pruned"},
           pc' = [pc EXCEPT ![w] = "done"], cur' = cur,
           \A r \in queue' : r.kind = cur[w].kind => r \in queue
    PROVE  NoActive(cur[w].kind, cur[w].scan)'
<1>1. /\ w \in Procs /\ cur[w] \in queue
      /\ cur[w].kind \in {"trigger_library_scan", "finalize_scan"}
  BY HeldActive
<1>2. pc'[w] = "done"
  BY <1>1 DEF OverlapBase, IInv, TypeInv, RestOK
<1>3. \A r \in queue' : r.kind = cur[w].kind /\ r.scan = cur[w].scan => r = cur[w]
  BY <1>1 DEF OverlapInv, OneOfEach
<1>4. ~Active(cur[w])'
  BY <1>1, <1>2 DEF Active
<1> QED BY <1>3, <1>4 DEF NoActive

\* A scan is created when there is none of it.
LEMMA OverlapCreated ==
    ASSUME OverlapBase, OverlapInv, QueueInv', NEW c \in Callers, CreateScan(c)
    PROVE  OverlapInv'
<1> USE DEF OverlapBase, OverlapInv
<1>1. PICK s \in Scans : /\ master[s] = "none"
                          /\ master' = [master EXCEPT ![s] = "pending"]
                          /\ Enqueue("trigger_library_scan", s)
  BY DEF CreateScan
<1> DEFINE new == NewRow(nextId, "trigger_library_scan", s, NoFolder)
<1>2. /\ queue' = queue \cup {new}
      /\ UNCHANGED <<pc, cur, job, finalizers>>
  BY <1>1 DEF CreateScan, Enqueue, serviceVars, procVars
<1>3. new.kind = "trigger_library_scan" /\ new.scan = s
  BY DEF NewRow
<1> HIDE DEF new
<1>4. /\ master \in [Scans -> JobStatus] /\ master'[s] = "pending"
      /\ \A t : t # s => master'[t] = master[t]
  BY <1>1 DEF IInv, TypeInv, RestOK
<1>5. \A r : Active(r)' <=> Active(r)
  BY <1>2 DEF Active
<1>6. \A t : Dispatched(t)' <=> Dispatched(t)
  BY <1>2 DEF Dispatched
<1>7. ~Dispatched(s)
  BY <1>1 DEF NewScans
<1>8. OneOfEach'
  <2>1. \A r \in queue : r.kind = "trigger_library_scan" => r.scan # s
    BY <1>1 DEF TriggerRows
  <2> QED BY <1>2, <1>3, <2>1 DEF OneOfEach
<1>9. TriggerRows'
  <2> SUFFICES ASSUME NEW r \in queue', r.kind = "trigger_library_scan"
               PROVE  /\ master'[r.scan] # "none"
                      /\ Active(r)' => master'[r.scan] = "pending" /\ ~Dispatched(r.scan)'
    BY DEF TriggerRows
  <2>1. CASE r = new
    BY <1>3, <1>4, <1>6, <1>7, <2>1
  <2>2. CASE r \in queue
    <3>1. r.scan # s
      BY <1>1, <2>2 DEF TriggerRows
    <3> QED BY <1>4, <1>5, <1>6, <2>2, <3>1 DEF TriggerRows
  <2> QED BY <1>2, <2>1, <2>2
<1>10. RebuildRows'
  BY <1>2, <1>3 DEF RebuildRows
<1>11. FinalizeRows'
  <2> SUFFICES ASSUME NEW r \in queue', r.kind = "finalize_scan", Active(r)'
               PROVE  /\ master'[r.scan] # "completed"
                      /\ \A other \in queue' : other.kind = "rebuild_analysis" => other.scan # r.scan
    BY DEF FinalizeRows
  <2>1. r \in queue /\ Active(r)
    BY <1>2, <1>3, <1>5
  <2>2. master'[r.scan] # "completed"
    BY <1>4, <2>1 DEF FinalizeRows
  <2> QED BY <1>2, <1>3, <2>1, <2>2 DEF FinalizeRows
<1>12. CompletedRows' /\ NewScans'
  BY <1>2, <1>4, <1>6 DEF CompletedRows, NewScans
<1>13. \A t : NoActive("finalize_scan", t) => NoActive("finalize_scan", t)'
  BY <1>2, <1>3, <1>5 DEF NoActive
<1>14. RunningScans'
  BY <1>2, <1>4, <1>6, <1>7, <1>13 DEF RunningScans
<1> QED BY <1>8, <1>9, <1>10, <1>11, <1>12, <1>14

\* The first finalizer of a scan is queued: there was no rebuild_analysis of
\* the scan, and the scan was not completed.
LEMMA OverlapFinished ==
    ASSUME OverlapBase, OverlapInv, QueueInv', NEW p \in Procs, FinishCommit(p), pc[p] = "last"
    PROVE  OverlapInv'
<1> USE DEF OverlapBase, OverlapInv, IInv
<1>1. PICK s \in Scans, g \in Folders :
        /\ s = cur[p].scan /\ g = cur[p].folder
        /\ job[s][g] # "none"
  BY FinishRows DEF FolderSteps, FinishSteps
<1> DEFINE new == NewRow(nextId, "finalize_scan", s, NoFolder)
<1>2. /\ queue' = queue \cup {new}
      /\ finalizers' = [finalizers EXCEPT ![s] = @ + 1]
      /\ UNCHANGED <<cur, master>>
      /\ pc' = [pc EXCEPT ![p] = AfterFinish(p)]
      /\ job' = [job EXCEPT ![s][g] = Outcome(p)]
  BY <1>1 DEF FinishCommit, Enqueue, serviceVars, Goto
<1>3. new.kind = "finalize_scan" /\ new.scan = s
  BY DEF NewRow
<1> HIDE DEF new
<1>4. /\ job \in [Scans -> [Folders -> JobStatus]]
      /\ finalizers \in [Scans -> Nat]
      /\ pc \in [Procs -> ProcSteps]
  BY DEF TypeInv, RestOK
<1>5. g \in UnfinishedFolders(s)
  BY <1>1 DEF FinishInv, FinishSteps
<1>6. Dispatched(s) /\ finalizers[s] = 0
  BY <1>1, <1>5 DEF Dispatched, ExactlyOneFinalizer
<1>7. \A t \in Scans : Dispatched(t)' => Dispatched(t)
  BY <1>1, <1>2, <1>4 DEF Dispatched
<1>8. \A t \in Scans : finalizers[t] > 0 => finalizers'[t] > 0
  BY <1>2, <1>4
<1>9. \A r : Active(r)' => Active(r)
  BY <1>2, <1>4 DEF Active
<1>10. OneOfEach'
  <2>1. \A r \in queue : r.kind = "finalize_scan" => r.scan # s
    BY <1>6 DEF FinalizerRows
  <2> QED BY <1>2, <1>3, <2>1 DEF OneOfEach
<1>11. TriggerRows'
  <2> SUFFICES ASSUME NEW r \in queue', r.kind = "trigger_library_scan"
               PROVE  /\ master'[r.scan] # "none"
                      /\ Active(r)' => master'[r.scan] = "pending" /\ ~Dispatched(r.scan)'
    BY DEF TriggerRows
  <2>1. r \in queue /\ r.scan \in Scans
    BY <1>2, <1>3 DEF QueueInv, RowsInv, RowsMatchJobs
  <2> QED BY <1>2, <1>7, <1>9, <2>1 DEF TriggerRows
<1>12. RebuildRows'
  BY <1>2, <1>3, <1>8 DEF RebuildRows
<1>13. FinalizeRows'
  <2> SUFFICES ASSUME NEW r \in queue', r.kind = "finalize_scan", Active(r)'
               PROVE  /\ master[r.scan] # "completed"
                      /\ \A other \in queue : other.kind = "rebuild_analysis" => other.scan # r.scan
    BY <1>2, <1>3 DEF FinalizeRows
  <2>1. CASE r = new
    BY <1>3, <1>6, <2>1 DEF CompletedRows, RebuildRows
  <2>2. CASE r \in queue
    BY <1>9, <2>2 DEF FinalizeRows
  <2> QED BY <1>2, <2>1, <2>2
<1>14. CompletedRows' /\ NewScans'
  BY <1>2, <1>7, <1>8 DEF CompletedRows, NewScans
<1>15. \A t : t # s /\ NoActive("finalize_scan", t) => NoActive("finalize_scan", t)'
  BY <1>2, <1>3, <1>9 DEF NoActive
<1>16. \A t \in Scans : t # s => finalizers'[t] = finalizers[t]
  BY <1>2, <1>4
<1>17. RunningScans'
  BY <1>2, <1>6, <1>7, <1>15, <1>16 DEF RunningScans
<1> QED BY <1>10, <1>11, <1>12, <1>13, <1>14, <1>17

LEMMA OverlapTriggered ==
    ASSUME OverlapBase, OverlapInv, QueueInv', NEW w \in Workers,
           TriggerWithoutFolders(w) \/ TriggerDispatch(w)
    PROVE  OverlapInv'
<1> USE DEF OverlapBase, OverlapInv, IInv, scanVars, queueVars, lockVars, callerVars, fetchVars, serviceVars
<1>1. PICK s \in Scans :
        /\ s = cur[w].scan
        /\ cur[w].kind = "trigger_library_scan"
        /\ w \in Procs /\ pc[w] = "trigger"
        /\ ~Dispatched(s)
  BY HeldActive DEF TriggerWithoutFolders, TriggerDispatch
<1>2. pc' = [pc EXCEPT ![w] = "done"] /\ UNCHANGED <<cur, finalizers>>
  BY DEF TriggerWithoutFolders, TriggerDispatch, Goto
<1>3. \A r \in queue' : r \in queue \/ r.kind = "process_audio_folder"
  <2>1. CASE TriggerWithoutFolders(w)
    BY <2>1 DEF TriggerWithoutFolders
  <2>2. CASE TriggerDispatch(w)
    <3>1. \A id, kind, t, f : NewRow(id, kind, t, f).kind = kind
      BY DEF NewRow
    <3>2. PICK found \in SUBSET Folders :
            queue' = queue \cup
              {NewRow(nextId + f, "process_audio_folder", cur[w].scan, f) : f \in found}
      BY <2>2 DEF TriggerDispatch
    <3> QED BY <3>1, <3>2
  <2> QED BY <2>1, <2>2
<1>4. NoActive("trigger_library_scan", s)'
  <2>1. NoActive(cur[w].kind, cur[w].scan)'
    BY <1>1, <1>2, <1>3, DoneRests
  <2> QED BY <1>1, <1>2, <2>1 DEF NoActive
<1>5. NoActive("finalize_scan", s)'
  <2>1. finalizers[s] = 0
    BY <1>1 DEF ExactlyOneFinalizer
  <2>2. \A r \in queue' : r.kind = "finalize_scan" => r.scan # s
    BY <1>3, <2>1 DEF FinalizerRows
  <2> QED BY <2>2 DEF NoActive
<1>6. /\ master \in [Scans -> JobStatus]
      /\ job \in [Scans -> [Folders -> JobStatus]]
  BY DEF TypeInv, RestOK
<1>7. CASE TriggerWithoutFolders(w)
  <2>1. job' = job /\ \E outcome \in Finished : master' = [master EXCEPT ![s] = outcome]
    BY <1>1, <1>7 DEF TriggerWithoutFolders
  <2>2. \A t \in Scans : Dispatched(t)' <=> Dispatched(t)
    BY <2>1 DEF Dispatched
  <2>3. MasterFrame
    BY <1>1, <1>4, <1>5, <1>6, <2>1, <2>2 DEF MasterFrame, Finished
  <2>4. DispatchFrame
    BY <2>2 DEF DispatchFrame
  <2>5. \A r \in queue' : KeptRow(r) \/ QuietRow(r)'
    BY <1>1, <1>2, <1>3, MoveKeeps DEF QuietRow
  <2> QED BY <1>2, <2>3, <2>4, <2>5, OverlapKept
<1>8. CASE TriggerDispatch(w)
  <2>1. /\ master' = [master EXCEPT ![s] = "running"]
        /\ \A t \in Scans : t # s => job'[t] = job[t]
    BY <1>1, <1>6, <1>8 DEF TriggerDispatch
  <2>2. MasterFrame
    BY <1>4, <1>6, <2>1 DEF MasterFrame
  <2>3. DispatchFrame
    BY <1>4, <1>6, <2>1 DEF DispatchFrame, Dispatched
  <2>4. \A r \in queue' : KeptRow(r) \/ QuietRow(r)'
    BY <1>1, <1>2, <1>3, MoveKeeps DEF QuietRow
  <2> QED BY <1>2, <2>2, <2>3, <2>4, OverlapKept
<1> QED BY <1>7, <1>8

LEMMA OverlapFinalized ==
    ASSUME OverlapBase, OverlapInv, QueueInv', NEW w \in Workers, FinalizeScan(w)
    PROVE  OverlapInv'
<1> USE DEF OverlapBase, OverlapInv, IInv, scanVars, queueVars, lockVars, callerVars, fetchVars, serviceVars
<1>1. PICK s \in Scans :
        /\ s = cur[w].scan
        /\ cur[w].kind = "finalize_scan"
        /\ w \in Procs /\ pc[w] \in {"finalize", "pruned"}
        /\ Dispatched(s) /\ finalizers[s] > 0
  <2>1. pc[w] \in {"finalize", "pruned"}
    BY DEF FinalizeScan, FinalizeFailed, Prune, PruneRaises, QueueRebuild
  <2> QED BY <2>1, HeldActive
<1>2. UNCHANGED <<cur, finalizers, job>>
  BY DEF FinalizeScan, FinalizeFailed, Prune, PruneRaises, QueueRebuild
<1>3. PICK step \in {"pruned", "done", "raised"} : pc' = [pc EXCEPT ![w] = step]
  BY DEF FinalizeScan, FinalizeFailed, Prune, PruneRaises, QueueRebuild, Goto
<1>4. \A t \in Scans : Dispatched(t)' <=> Dispatched(t)
  BY <1>2 DEF Dispatched
<1>5. DispatchFrame
  BY <1>4 DEF DispatchFrame
<1>6. \A r \in queue : KeptRow(r)
  BY <1>1, <1>2, <1>3, MoveKeeps
<1>7. \A r \in queue' : r \in queue \/ r.kind = "rebuild_analysis"
  BY DEF FinalizeScan, FinalizeFailed, Prune, PruneRaises, QueueRebuild, Enqueue, NewRow
\* The trigger of a scan that has folder jobs is done.
<1>8. NoActive("trigger_library_scan", s)'
  <2> SUFFICES ASSUME NEW r \in queue', r.kind = "trigger_library_scan", r.scan = s
               PROVE  ~Active(r)'
    BY DEF NoActive
  <2>1. r \in queue
    BY <1>7
  <2>2. ~Active(r)
    BY <1>1, <2>1 DEF TriggerRows
  <2>3. Active(r)' => Active(r)
    <3>1. \A q \in Procs : pc[q] = "done" => pc'[q] = "done"
      BY <1>1, <1>3 DEF TypeInv, RestOK
    <3> QED BY <1>2, <3>1 DEF Active
  <2> QED BY <2>2, <2>3
<1>9. MasterFrame
  <2>1. CASE Prune(w) \/ QueueRebuild(w)
    BY <2>1 DEF Prune, QueueRebuild, MasterFrame
  <2>2. CASE PruneRaises(w)
    <3>1. master' = [master EXCEPT ![s] = "failed"] /\ "finalize_scan" \in FailingTasks
      BY <1>1, <2>2 DEF PruneRaises
    <3> QED BY <1>8, <3>1 DEF MasterFrame, TypeInv, RestOK
  <2>3. CASE FinalizeFailed(w)
    <3>1. master' = [master EXCEPT ![s] = "failed"] /\ pc' = [pc EXCEPT ![w] = "done"]
      BY <1>1, <2>3 DEF FinalizeFailed, Goto
    <3>2. NoActive(cur[w].kind, cur[w].scan)'
      BY <1>1, <1>2, <1>7, <3>1, DoneRests
    <3>3. NoActive("finalize_scan", s)' /\ finalizers'[s] > 0
      BY <1>1, <1>2, <3>2 DEF NoActive
    <3> QED BY <1>8, <3>1, <3>3 DEF MasterFrame, TypeInv, RestOK
  <2> QED BY <2>1, <2>2, <2>3 DEF FinalizeScan
<1>10. \A r \in queue' : KeptRow(r) \/ QuietRow(r)'
  <2>1. CASE Prune(w) \/ PruneRaises(w)
    BY <1>6, <2>1 DEF Prune, PruneRaises
  <2>2. CASE FinalizeFailed(w)
    <3>1. queue' = queue \cup {NewRow(nextId, "rebuild_analysis", NoScan, NoFolder)}
      BY <2>2 DEF FinalizeFailed, Enqueue
    <3>2. /\ NewRow(nextId, "rebuild_analysis", NoScan, NoFolder).kind = "rebuild_analysis"
          /\ NewRow(nextId, "rebuild_analysis", NoScan, NoFolder).scan \notin Scans
      BY Constants DEF NewRow
    <3> QED BY <1>6, <3>1, <3>2 DEF QuietRow
  <2>3. CASE QueueRebuild(w)
    <3>0. PICK new : new = NewRow(nextId, "rebuild_analysis", s, NoFolder)
      OBVIOUS
    <3>1. queue' = queue \cup {new} /\ pc' = [pc EXCEPT ![w] = "done"]
      BY <1>1, <2>3, <3>0 DEF QueueRebuild, Enqueue, Goto
    <3>2. new.kind = "rebuild_analysis" /\ new.scan = s
      BY <3>0 DEF NewRow
    <3>3. NoActive(cur[w].kind, cur[w].scan)'
      BY <1>1, <1>2, <3>1, <3>2, DoneRests
    <3>4. NoActive("finalize_scan", s)' /\ finalizers'[s] > 0
      BY <1>1, <1>2, <3>3 DEF NoActive
    <3>5. QuietRow(new)'
      BY <3>2, <3>4 DEF QuietRow
    <3> QED BY <1>6, <3>1, <3>5
  <2> QED BY <2>1, <2>2, <2>3 DEF FinalizeScan
<1> QED BY <1>2, <1>5, <1>9, <1>10, OverlapKept

LEMMA OverlapRebuilt ==
    ASSUME OverlapBase, OverlapInv, QueueInv', NEW w \in Workers, RebuildAnalysis(w)
    PROVE  OverlapInv'
<1> USE DEF OverlapBase, OverlapInv, IInv, scanVars, queueVars, lockVars, callerVars, fetchVars, serviceVars
<1> DEFINE s == cur[w].scan
           kind == IF MusicBrainz THEN "fetch_artist_genres" ELSE "score_genres"
           new == NewRow(nextId, kind, NoScan, NoFolder)
<1>1. /\ w \in Procs /\ pc[w] = "rebuild"
      /\ pc' = [pc EXCEPT ![w] = "done"]
      /\ UNCHANGED <<cur, finalizers, job>>
      /\ queue' = queue \cup {new}
      /\ master' = IF s = NoScan THEN master ELSE [master EXCEPT ![s] = "completed"]
  BY DEF RebuildAnalysis, Enqueue, Goto, Procs
<1>2. new.kind \in GenreTasks
  BY DEF NewRow, GenreTasks
<1>3. cur[w] \in queue /\ cur[w].kind = "rebuild_analysis" /\ s \in Scans \cup {NoScan}
  <2>1. Busy(w) /\ cur[w].kind = "rebuild_analysis"
    BY <1>1 DEF HeldSteps, Busy, BusySteps
  <2>2. cur[w] \in queue
    BY <1>1, <2>1 DEF QueueInv, HoldInv, HeldRows
  <2>3. s \in Scans \cup {NoScan}
    BY <2>2, RowFields DEF TypeInv, RowOK
  <2> QED BY <2>1, <2>2, <2>3
<1> HIDE DEF new, kind, s
<1>4. \A t \in Scans : Dispatched(t)' <=> Dispatched(t)
  BY <1>1 DEF Dispatched
<1>5. DispatchFrame
  BY <1>4 DEF DispatchFrame
<1>6. \A r \in queue : KeptRow(r)
  BY <1>1, MoveKeeps
<1>7. \A r \in queue' : KeptRow(r) \/ QuietRow(r)'
  BY <1>1, <1>2, <1>6 DEF QuietRow
<1>8. \A r : Active(r)' => Active(r)
  <2>1. \A q \in Procs : pc[q] = "done" => pc'[q] = "done"
    BY <1>1 DEF TypeInv, RestOK
  <2> QED BY <1>1, <2>1 DEF Active
<1>9. MasterFrame
  <2>1. CASE s = NoScan
    BY <1>1, <2>1 DEF MasterFrame
  <2>2. CASE s # NoScan
    <3>1. s \in Scans /\ finalizers[s] > 0
      BY <1>3, <2>2 DEF RebuildRows, s
    <3>2. Dispatched(s)
      BY <3>1 DEF ExactlyOneFinalizer
    <3>3. \A r \in queue : r.kind = "trigger_library_scan" /\ r.scan = s => ~Active(r)
      BY <3>2 DEF TriggerRows
    <3>4. \A r \in queue : r.kind = "finalize_scan" /\ r.scan = s => ~Active(r)
      BY <1>3 DEF FinalizeRows, s
    <3>5. \A r \in queue' :
            r.kind \in {"trigger_library_scan", "finalize_scan"} /\ r.scan = s => ~Active(r)'
      BY <1>1, <1>2, <1>8, <3>3, <3>4 DEF GenreTasks
    <3>6. PICK t \in Scans : t = s
      BY <3>1
    <3>7. NoActive("trigger_library_scan", t)' /\ NoActive("finalize_scan", t)'
      BY <3>5, <3>6 DEF NoActive
    <3>8. master' = [master EXCEPT ![t] = "completed"]
      BY <1>1, <2>2, <3>6
    <3> QED BY <1>1, <3>1, <3>6, <3>7, <3>8 DEF MasterFrame, TypeInv, RestOK
  <2> QED BY <2>1, <2>2
<1> QED BY <1>1, <1>5, <1>7, <1>9, OverlapKept

\* The steps that change no scan and add no task that matters to one.
LEMMA OverlapRest ==
    ASSUME OverlapBase, OverlapInv, QueueInv', [Next]_vars, master' = master,
           \A s \in Scans : Dispatched(s)' => Dispatched(s),
           \A r \in queue' : KeptRow(r) \/ QuietRow(r)'
    PROVE  OverlapInv'
<1>1. \A s \in Scans : finalizers[s] > 0 => finalizers'[s] > 0
  BY FinalizersGrow DEF OverlapBase, IInv
<1>2. MasterFrame /\ DispatchFrame
  BY DEF MasterFrame, DispatchFrame
<1> QED BY <1>1, <1>2, OverlapKept

LEMMA OverlapAcknowledged ==
    ASSUME OverlapBase, OverlapInv, QueueInv', [Next]_vars, NEW w \in Workers, Acknowledge(w)
    PROVE  OverlapInv'
<1> USE DEF OverlapBase, IInv, scanVars, queueVars, lockVars, callerVars, fetchVars, serviceVars
<1>1. UNCHANGED <<master, job>>
  BY DEF Acknowledge, Complete, RetryLater, OutOfAttempts, GiveUp
<1>2. \A s \in Scans : Dispatched(s)' => Dispatched(s)
  BY <1>1 DEF Dispatched
<1>t. cur \in [Procs -> Row] /\ pc \in [Procs -> ProcSteps] /\ w \in Procs
  BY DEF TypeInv, RestOK, RowOK, Procs
<1>3. \A r \in queue' : KeptRow(r)
  <2>1. CASE Complete(w)
    <3>1. /\ queue' = queue \ {cur[w]} /\ cur' = cur
          /\ \A q \in Procs : q # w => pc'[q] = pc[q]
      BY <1>t, <2>1 DEF Complete, Goto
    <3>2. ASSUME NEW r \in queue', Active(r)' PROVE Active(r)
      BY <3>1, <3>2 DEF Active
    <3> QED BY <3>1, <3>2 DEF KeptRow, SameTask
  <2>2. CASE RetryLater(w) \/ OutOfAttempts(w)
    <3>1. Busy(w) /\ pc[w] = "raised"
      BY <2>2 DEF RetryLater, OutOfAttempts, Busy, BusySteps
    <3>2. PICK status \in {"delayed", "failed"} :
            queue' = (queue \ {cur[w]}) \cup {WithStatus(cur[w], status)}
      BY <2>2 DEF RetryLater, OutOfAttempts, Rewrite, GiveUp
    <3>3. PICK new : new = WithStatus(cur[w], status)
      OBVIOUS
    <3>4. SameTask(new, cur[w])
      BY <1>t, <3>3, WithStatusType DEF SameTask, RowStatus
    <3>5. cur[w] \in queue /\ Active(cur[w])
      BY <1>t, <3>1
         DEF Active, HeldSteps, FinishSteps, QueueInv, HoldInv, HeldRows, Busy, BusySteps
    <3>6. KeptRow(new)
      BY <3>4, <3>5 DEF KeptRow
    <3>7. \A q \in Procs : pc[q] = "done" => pc'[q] = "done" /\ cur'[q] = cur[q]
      BY <1>t, <2>2, <3>1 DEF RetryLater, OutOfAttempts, GiveUp, Goto
    <3>8. ASSUME NEW r \in queue, Active(r)' PROVE Active(r)
      BY <3>7, <3>8 DEF Active
    <3>9. ASSUME NEW r \in queue PROVE KeptRow(r)
      BY <3>8 DEF KeptRow, SameTask
    <3> QED BY <3>2, <3>3, <3>6, <3>9
  <2> QED BY <2>1, <2>2 DEF Acknowledge
<1> QED BY <1>1, <1>2, <1>3, OverlapRest

LEMMA OverlapStep ==
    ASSUME OverlapBase, OverlapInv, QueueInv', [Next]_vars, [CalmStep]_vars
    PROVE  OverlapInv'
<1> USE DEF OverlapBase, IInv, scanVars, queueVars, lockVars, callerVars, fetchVars, serviceVars, procVars
<1>t. /\ cur \in [Procs -> Row] /\ pc \in [Procs -> ProcSteps]
      /\ job \in [Scans -> [Folders -> JobStatus]]
      /\ \A r \in queue : r \in Row
  BY DEF TypeInv, RestOK, RowOK
\* One process moves with its task, and nothing else happens.
<1>m. ASSUME NEW p \in Procs, NEW step, pc[p] # "done", pc' = [pc EXCEPT ![p] = step],
             cur' = cur, queue' = queue, master' = master,
             \A s \in Scans : Dispatched(s)' => Dispatched(s)
      PROVE  OverlapInv'
  <2>1. \A r \in queue' : KeptRow(r)
    BY <1>m, MoveKeeps
  <2> QED BY <1>m, <2>1, OverlapRest
<1>n. ASSUME UNCHANGED <<pc, cur, queue, master, job>> PROVE OverlapInv'
  <2>1. \A r \in queue' : KeptRow(r)
    BY <1>n DEF KeptRow, SameTask, Active
  <2> QED BY <1>n, <2>1, OverlapRest DEF Dispatched
<1>1. ASSUME NEW c \in Callers, QueueLibraryScan(c) PROVE OverlapInv'
  <2>1. CASE CreateScan(c)
    BY <2>1, OverlapCreated
  <2>2. CASE ~CreateScan(c)
    BY <1>1, <1>n, <2>2 DEF QueueLibraryScan, LockScanCreation, ReturnActiveScan, NoActiveScan
  <2> QED BY <2>1, <2>2
<1>2. ASSUME NEW w \in Workers, Claim(w) PROVE OverlapInv'
  <2>1. PICK old \in queue :
          /\ old.status = "pending" /\ pc[w] = "idle"
          /\ queue' = (queue \ {old}) \cup {Claimed(old)}
          /\ cur' = [cur EXCEPT ![w] = Claimed(old)]
          /\ pc' = [pc EXCEPT ![w] = FirstStep[old.kind]]
    BY <1>2 DEF Claim, Runnable, Goto
  <2>2. PICK new : new = Claimed(old)
    OBVIOUS
  <2>3. SameTask(new, old)
    BY <1>t, <2>2, ClaimedType DEF SameTask
  <2>4. Active(old)
    BY <2>1 DEF Active, QueueInv, HoldInv, HeldRows, Busy, BusySteps
  <2>5. KeptRow(new)
    BY <2>3, <2>4 DEF KeptRow
  <2>6. \A q \in Procs : pc[q] = "done" => pc'[q] = "done" /\ cur'[q] = cur[q]
    BY <1>t, <2>1
  <2>7. ASSUME NEW r \in queue, Active(r)' PROVE Active(r)
    BY <2>6, <2>7 DEF Active
  <2>8. ASSUME NEW r \in queue PROVE KeptRow(r)
    BY <2>7 DEF KeptRow, SameTask
  <2>9. UNCHANGED <<master, job>>
    BY <1>2 DEF Claim
  <2> QED BY <2>1, <2>2, <2>5, <2>8, <2>9, OverlapRest DEF Dispatched
<1>3. ASSUME NEW w \in Workers, TriggerRerun(w) PROVE OverlapInv'
  BY <1>3, <1>m DEF TriggerRerun, Goto, Dispatched, Procs
<1>4. ASSUME NEW w \in Workers, ProcessAudioFolder(w) PROVE OverlapInv'
  <2>1. PICK step : pc' = [pc EXCEPT ![w] = step]
    BY <1>4 DEF ProcessAudioFolder, ProcessSkip, ProcessBegin, ImportFolder, Goto
  <2>2. /\ w \in Procs /\ pc[w] \in {"process", "import"} /\ UNCHANGED <<cur, queue, master>>
    BY <1>4 DEF ProcessAudioFolder, ProcessSkip, ProcessBegin, ImportFolder, Procs
  <2>3. /\ cur[w].scan \in Scans /\ cur[w].folder \in Folders
        /\ job[cur[w].scan][cur[w].folder] # "none"
    BY <2>2, FinishRows DEF FolderSteps
  <2>4. \A s \in Scans : Dispatched(s)' => Dispatched(s)
    <3>1. CASE job' = job
      BY <3>1 DEF Dispatched
    <3>2. CASE ProcessBegin(w)
      BY <1>t, <2>3, <3>2 DEF ProcessBegin, Dispatched
    <3> QED BY <1>4, <3>1, <3>2 DEF ProcessAudioFolder, ProcessSkip, ImportFolder
  <2> QED BY <2>1, <2>2, <2>4, <1>m
<1>5. ASSUME NEW p \in Procs, FinishFolder(p) PROVE OverlapInv'
  <2>1. CASE FinishCommit(p) /\ pc[p] = "last"
    BY <2>1, OverlapFinished
  <2>2. CASE ~(FinishCommit(p) /\ pc[p] = "last")
    <3>1. PICK step : pc' = [pc EXCEPT ![p] = step]
      BY <1>5 DEF FinishFolder, FinishMark, FinishLock, FinishCount, FinishCommit, Goto
    <3>2. pc[p] \in FolderSteps /\ pc[p] # "done" /\ UNCHANGED <<cur, queue, master>>
      BY <1>5, <2>2
         DEF FinishFolder, FinishMark, FinishLock, FinishCount, FinishCommit, FolderSteps,
                        FinishSteps
    <3>3. /\ cur[p].scan \in Scans /\ cur[p].folder \in Folders
          /\ job[cur[p].scan][cur[p].folder] # "none"
      BY <3>2, FinishRows
    <3>4. \A s \in Scans : Dispatched(s)' => Dispatched(s)
      <4>1. CASE job' = job
        BY <4>1 DEF Dispatched
      <4>2. CASE FinishCommit(p)
        BY <1>t, <3>3, <4>2 DEF FinishCommit, Dispatched
      <4> QED BY <1>5, <4>1, <4>2 DEF FinishFolder, FinishMark, FinishLock, FinishCount
    <3> QED BY <3>1, <3>2, <3>4, <1>m
  <2> QED BY <2>1, <2>2
<1>9. ASSUME NEW w \in Workers, FetchArtistGenres(w) PROVE OverlapInv'
  <2>1. PICK step : pc' = [pc EXCEPT ![w] = step]
    BY <1>9 DEF FetchArtistGenres, FetchSkip, FetchBegin, FetchArtists, FetchUnlock, Goto
  <2>2. w \in Procs /\ pc[w] # "done" /\ UNCHANGED <<cur, master, job>>
    BY <1>9 DEF FetchArtistGenres, FetchSkip, FetchBegin, FetchArtists, FetchUnlock, Procs
  <2>3. \A r \in queue : KeptRow(r)
    BY <2>1, <2>2, MoveKeeps
  <2>4. \A r \in queue' : r \in queue \/ r.kind \in GenreTasks
    BY <1>9 DEF FetchArtistGenres, FetchSkip, FetchBegin, FetchArtists, FetchUnlock, Enqueue,
                NewRow, GenreTasks
  <2>5. \A r \in queue' : KeptRow(r) \/ QuietRow(r)'
    BY <2>3, <2>4 DEF QuietRow
  <2> QED BY <2>2, <2>5, OverlapRest DEF Dispatched
<1>6. ASSUME NEW w \in Workers, ScoreGenres(w) \/ Raise(w) PROVE OverlapInv'
  <2>1. PICK step : pc' = [pc EXCEPT ![w] = step]
    BY <1>6 DEF ScoreGenres, Raise, Goto
  <2>2. w \in Procs /\ pc[w] # "done" /\ UNCHANGED <<cur, queue, master, job>>
    BY <1>6 DEF ScoreGenres, Raise, TaskSteps, Procs
  <2> QED BY <2>1, <2>2, <1>m DEF Dispatched
<1>7. CASE DelayEnds
  <2>1. PICK old \in queue : /\ old.status = "delayed"
                              /\ queue' = (queue \ {old}) \cup {WithStatus(old, "pending")}
    BY <1>7 DEF DelayEnds
  <2>2. PICK new : new = WithStatus(old, "pending")
    OBVIOUS
  <2>3. SameTask(new, old)
    BY <1>t, <2>2, WithStatusType DEF SameTask, RowStatus
  <2>4. Active(old)
    BY <2>1 DEF Active, QueueInv, HoldInv, HeldRows, Busy, BusySteps
  <2>5. UNCHANGED <<pc, cur, master, job>>
    BY <1>7 DEF DelayEnds
  <2>6. \A r : Active(r)' => Active(r)
    BY <2>5 DEF Active
  <2>7. \A r \in queue' : KeptRow(r)
    BY <2>1, <2>2, <2>3, <2>4, <2>6 DEF KeptRow, SameTask
  <2> QED BY <2>5, <2>7, OverlapRest DEF Dispatched
<1>8. CASE UNCHANGED vars
  BY <1>8, <1>n DEF vars
<1> QED
  BY <1>1, <1>2, <1>3, <1>4, <1>5, <1>6, <1>7, <1>8, <1>9, OverlapTriggered, OverlapFinalized,
     OverlapRebuilt, OverlapAcknowledged
     DEF CalmStep, WorkerStep, TriggerLibraryScan

\* At most one scan.
OneAtATime == \A s, t \in ActiveScans : s = t

\* A caller that looks has the lock, and what it saw stays true until it creates
\* its scan.
LockedLook ==
    \A c \in Callers :
        /\ asking[c] # "idle" => scanLock = c
        /\ asking[c] = "create" => ActiveScans = {}

\* No scan becomes active but by its creation.
ActiveFrame == ActiveScans' \subseteq ActiveScans \/ \E c \in Callers : CreateScan(c)

LEMMA LookStep ==
    ASSUME TypeInv, LockedLook, [CalmStep]_vars, ActiveFrame
    PROVE  LockedLook'
<1> USE DEF queueVars, scanVars, lockVars, callerVars, fetchVars, serviceVars
<1>t. asking \in [Callers -> {"idle", "look", "create"}]
  BY DEF TypeInv, RestOK
<1>k. ASSUME UNCHANGED callerVars PROVE LockedLook'
  <2>1. \A c \in Callers : ~CreateScan(c)
    BY <1>k, <1>t DEF CreateScan, Ask
  <2> QED BY <1>k, <2>1 DEF LockedLook, ActiveFrame
<1>1. ASSUME NEW c \in Callers, QueueLibraryScan(c) PROVE LockedLook'
  <2>1. CASE LockScanCreation(c)
    <3>1. ActiveScans' = ActiveScans
      BY <2>1 DEF LockScanCreation, ActiveScans
    <3> QED BY <1>t, <2>1, <3>1, Constants DEF LockScanCreation, Ask, LockedLook
  <2>2. CASE NoActiveScan(c)
    <3>1. ActiveScans' = ActiveScans
      BY <2>2 DEF NoActiveScan, ActiveScans
    <3> QED BY <1>t, <2>2, <3>1 DEF NoActiveScan, Ask, LockedLook
  <2>3. CASE ReturnActiveScan(c) \/ CreateScan(c)
    <3>1. asking' = [asking EXCEPT ![c] = "idle"] /\ asking[c] # "idle"
      BY <2>3 DEF ReturnActiveScan, CreateScan, Ask
    <3>2. \A d \in Callers : d # c => asking[d] = "idle"
      BY <3>1 DEF LockedLook
    <3>3. \A d \in Callers : asking'[d] = "idle"
      BY <1>t, <3>1, <3>2
    <3> QED BY <3>3 DEF LockedLook
  <2> QED BY <1>1, <2>1, <2>2, <2>3 DEF QueueLibraryScan
<1>2. ASSUME NEW w \in Workers, WorkerStep(w) \/ Raise(w) PROVE UNCHANGED callerVars
  <2>1. CASE Claim(w) \/ TriggerLibraryScan(w) \/ ProcessAudioFolder(w)
    BY <2>1 DEF Claim, TriggerLibraryScan, TriggerRerun, TriggerWithoutFolders, TriggerDispatch,
                ProcessAudioFolder, ProcessSkip, ProcessBegin, ImportFolder
  <2>2. CASE FinalizeScan(w) \/ RebuildAnalysis(w) \/ FetchArtistGenres(w) \/ ScoreGenres(w)
    BY <2>2 DEF FinalizeScan, FinalizeFailed, Prune, PruneRaises, QueueRebuild, RebuildAnalysis,
                FetchArtistGenres, FetchSkip, FetchBegin, FetchArtists, FetchUnlock, ScoreGenres
  <2>3. CASE Acknowledge(w) \/ Raise(w)
    BY <2>3 DEF Acknowledge, Complete, RetryLater, OutOfAttempts, GiveUp, Raise
  <2> QED BY <1>2, <2>1, <2>2, <2>3 DEF WorkerStep
<1>3. ASSUME NEW p \in Procs, FinishFolder(p) PROVE UNCHANGED callerVars
  BY <1>3 DEF FinishFolder, FinishMark, FinishLock, FinishCount, FinishCommit
<1>4. ASSUME DelayEnds \/ UNCHANGED vars PROVE UNCHANGED callerVars
  BY <1>4 DEF DelayEnds, vars
<1> QED BY <1>k, <1>1, <1>2, <1>3, <1>4 DEF CalmStep

\* What a step does to the scans: one is created when none is active, the
\* active ones go on or end, and what was completed stays so.
LEMMA ScanSteps ==
    ASSUME OverlapBase, OverlapInv, OneAtATime, LockedLook, [CalmStep]_vars
    PROVE  /\ OneAtATime' /\ ActiveFrame
           /\ \A s \in Scans : master[s] = "completed" => master'[s] = "completed"
<1> USE DEF OverlapBase, IInv, scanVars, queueVars, lockVars, callerVars, fetchVars, serviceVars
<1>t. master \in [Scans -> JobStatus]
  BY DEF TypeInv, RestOK
<1> DEFINE Goal == /\ OneAtATime' /\ ActiveFrame
                   /\ \A s \in Scans : master[s] = "completed" => master'[s] = "completed"
<1>k. ASSUME master' = master PROVE Goal
  BY <1>k DEF OneAtATime, ActiveFrame, ActiveScans
\* One scan changes.
<1>m. ASSUME NEW s \in Scans, NEW status, master' = [master EXCEPT ![s] = status],
             master[s] = "completed" => status = "completed",
             status \in Unfinished => s \in ActiveScans
      PROVE  Goal
  <2>1. \A t \in Scans : master'[t] \in Unfinished => master[t] \in Unfinished
    BY <1>m, <1>t DEF ActiveScans
  <2>2. OneAtATime' /\ ActiveFrame
    BY <2>1 DEF OneAtATime, ActiveFrame, ActiveScans
  <2> QED BY <1>m, <1>t, <2>2
<1> HIDE DEF Goal
<1>1. ASSUME NEW c \in Callers, QueueLibraryScan(c) PROVE Goal
  <2>1. CASE CreateScan(c)
    <3>1. PICK s \in Scans : /\ ActiveScans = {} /\ master[s] = "none"
                              /\ master' = [master EXCEPT ![s] = "pending"]
      BY <2>1 DEF CreateScan, LockedLook
    <3>2. \A t \in Scans : t # s => master'[t] \notin Unfinished
      BY <1>t, <3>1 DEF ActiveScans
    <3>3. OneAtATime'
      BY <3>2 DEF OneAtATime, ActiveScans
    <3> QED BY <1>t, <2>1, <3>1, <3>3 DEF Goal, ActiveFrame
  <2>2. CASE ~CreateScan(c)
    BY <1>1, <1>k, <2>2 DEF QueueLibraryScan, LockScanCreation, ReturnActiveScan, NoActiveScan
  <2> QED BY <2>1, <2>2
<1>2. ASSUME NEW w \in Workers, TriggerLibraryScan(w) PROVE Goal
  <2>1. CASE TriggerRerun(w)
    BY <1>k, <2>1 DEF TriggerRerun
  <2>2. CASE TriggerWithoutFolders(w) \/ TriggerDispatch(w)
    <3>1. PICK s \in Scans : s = cur[w].scan /\ master[s] = "pending"
      BY <2>2, HeldActive DEF TriggerWithoutFolders, TriggerDispatch
    <3>2. s \in ActiveScans /\ master[s] # "completed"
      BY <3>1 DEF ActiveScans, Unfinished
    <3>3. \E status : master' = [master EXCEPT ![s] = status]
      BY <2>2, <3>1 DEF TriggerWithoutFolders, TriggerDispatch
    <3> QED BY <1>m, <3>2, <3>3
  <2> QED BY <1>2, <2>1, <2>2 DEF TriggerLibraryScan
<1>3. ASSUME NEW w \in Workers, FinalizeScan(w) PROVE Goal
  <2>1. PICK s \in Scans : s = cur[w].scan /\ master[s] # "completed"
    <3>1. pc[w] \in {"finalize", "pruned"}
      BY <1>3 DEF FinalizeScan, FinalizeFailed, Prune, PruneRaises, QueueRebuild
    <3> QED BY <3>1, HeldActive
  <2>2. master' = master \/ master' = [master EXCEPT ![s] = "failed"]
    BY <1>3, <2>1 DEF FinalizeScan, FinalizeFailed, Prune, PruneRaises, QueueRebuild
  <2>3. "failed" \notin Unfinished
    BY DEF Unfinished
  <2> QED BY <1>k, <1>m, <2>1, <2>2, <2>3
<1>4. ASSUME NEW w \in Workers, RebuildAnalysis(w) PROVE Goal
  <2>1. cur[w].scan \in Scans \cup {NoScan}
    <3>1. cur[w] \in Row
      BY DEF TypeInv, RowOK, Procs
    <3> QED BY <3>1, RowFields
  <2>2. "completed" \notin Unfinished
    BY DEF Unfinished
  <2>3. CASE cur[w].scan = NoScan
    BY <1>4, <1>k, <2>3 DEF RebuildAnalysis
  <2>4. CASE cur[w].scan # NoScan
    <3>1. PICK s \in Scans : s = cur[w].scan
      BY <2>1, <2>4
    <3>2. master' = [master EXCEPT ![s] = "completed"]
      BY <1>4, <2>4, <3>1 DEF RebuildAnalysis
    <3> QED BY <1>m, <2>2, <3>2
  <2> QED BY <2>3, <2>4
<1>5. ASSUME NEW w \in Workers,
             Claim(w) \/ ProcessAudioFolder(w) \/ FetchArtistGenres(w) \/ ScoreGenres(w)
      PROVE  master' = master
  BY <1>5 DEF Claim, ProcessAudioFolder, ProcessSkip, ProcessBegin, ImportFolder,
              FetchArtistGenres, FetchSkip, FetchBegin, FetchArtists, FetchUnlock, ScoreGenres
<1>6. ASSUME NEW w \in Workers, Acknowledge(w) \/ Raise(w) PROVE master' = master
  BY <1>6 DEF Acknowledge, Complete, RetryLater, OutOfAttempts, GiveUp, Raise
<1>7. ASSUME NEW p \in Procs, FinishFolder(p) PROVE master' = master
  BY <1>7 DEF FinishFolder, FinishMark, FinishLock, FinishCount, FinishCommit
<1>8. ASSUME DelayEnds \/ UNCHANGED vars PROVE master' = master
  BY <1>8 DEF DelayEnds, vars
<1>9. Goal
  BY <1>k, <1>1, <1>2, <1>3, <1>4, <1>5, <1>6, <1>7, <1>8 DEF CalmStep, WorkerStep
<1> QED BY <1>9 DEF Goal

ScansInv == OverlapBase /\ OverlapInv /\ OneAtATime /\ LockedLook

\* The invariant of the scans, when nothing crashes.
LEMMA ScansInductive ==
    ASSUME MaxCrashes = 0
    PROVE  Spec => []ScansInv
<1> DEFINE Inv == svc = "up" /\ OverlapInv /\ OneAtATime /\ LockedLook
<1>1. Init => Inv
  BY DEF Init, OverlapInv, OneOfEach, TriggerRows, RebuildRows, FinalizeRows, CompletedRows,
         NewScans, RunningScans, OneAtATime, LockedLook, ActiveScans, Unfinished, Dispatched
<1>2. ASSUME RowInv, RowInv', Inv, [Next]_vars PROVE Inv'
  <2>1. TypeInv /\ OverlapBase /\ QueueInv'
    BY <1>2 DEF RowInv, IInv, OverlapBase
  <2>2. svc' = "up" /\ [CalmStep]_vars
    BY <1>2, <2>1, Calm
  <2>3. OneAtATime' /\ ActiveFrame
    BY <1>2, <2>1, <2>2, ScanSteps
  <2> QED BY <1>2, <2>1, <2>2, <2>3, OverlapStep, LookStep
<1>3. RowInv /\ Inv => ScansInv
  BY DEF RowInv, ScansInv, OverlapBase
<1> HIDE DEF Inv
<1> QED BY <1>1, <1>2, <1>3, EveryJobHasRow, PTL DEF Spec

\* At most one scan of the library is pending or running, whatever callers ask
\* for scans at the same time and whatever raises, if nothing crashes
\* (queue_library_scan).
THEOREM ScansDoNotOverlap ==
    ASSUME MaxCrashes = 0
    PROVE  Spec => []OneActiveScan
<1>1. ScansInv => OneActiveScan
  <2> SUFFICES ASSUME OneAtATime PROVE Cardinality(ActiveScans) <= 1
    BY DEF ScansInv, OneActiveScan
  <2>1. CASE ActiveScans = {}
    BY <2>1, FS_EmptySet
  <2>2. ASSUME NEW s \in ActiveScans PROVE Cardinality(ActiveScans) <= 1
    <3>1. ActiveScans = {s}
      BY <2>2 DEF OneAtATime
    <3>2. Cardinality({s}) = 1
      BY FS_Singleton
    <3> QED BY <3>1, <3>2
  <2> QED BY <2>1, <2>2
<1> QED BY <1>1, ScansInductive, PTL

\* No late step, retried or run by another worker, reopens or fails a scan
\* that was completed, if nothing crashes.
THEOREM CompletedStays ==
    ASSUME MaxCrashes = 0
    PROVE  Spec => CompletedIsFinal
<1>1. ScansInv /\ [Next]_vars =>
        \A s \in Scans : master[s] = "completed" => master'[s] = "completed"
  BY Calm, ScanSteps DEF ScansInv, OverlapBase, IInv
<1> QED BY <1>1, ScansInductive, PTL DEF Spec, CompletedIsFinal

\* No prune runs while another scan of the library imports folders, if neither
\* a prune raises nor anything crashes: the retry of a failed prune is what
\* meets the next scan.
THEOREM PrunesAlone ==
    ASSUME MaxCrashes = 0, "finalize_scan" \notin FailingTasks
    PROVE  Spec => PruneSeesNoImport
<1>1. ScansInv /\ [Next]_vars =>
        \A w \in Workers : pc[w] = "finalize" /\ pc'[w] = "pruned" =>
            \A s \in Scans : UnfinishedFolders(s) = {}
  <2> SUFFICES ASSUME ScansInv, NEW w \in Workers, pc[w] = "finalize", NEW s \in Scans,
                      UnfinishedFolders(s) # {}
               PROVE  FALSE
    OBVIOUS
  <2> USE DEF ScansInv, OverlapBase, OverlapInv
  <2>1. PICK t \in Scans : t = cur[w].scan
    BY HeldActive
  <2>2. Dispatched(t) /\ finalizers[t] > 0 /\ ~NoActive("finalize_scan", t)
    BY <2>1, HeldActive DEF NoActive
  <2>3. master[t] = "running"
    BY <2>2 DEF RunningScans
  <2>4. Dispatched(s) /\ finalizers[s] = 0
    BY DEF IInv, ExactlyOneFinalizer, Dispatched, UnfinishedFolders, Unfinished
  <2>5. master[s] = "running"
    BY <2>4 DEF RunningScans
  <2>6. s = t
    BY <2>3, <2>5 DEF OneAtATime, ActiveScans, Unfinished
  <2> QED BY <2>2, <2>4, <2>6
<1> QED BY <1>1, ScansInductive, PTL DEF Spec, PruneSeesNoImport
=============================================================================
