------------------------- MODULE ScanPipelineProofs -------------------------
(***************************************************************************)
(* For any number of workers, scans, folders, attempts and crashes: every  *)
(* variable keeps its type and no row exceeds MAX_ATTEMPTS, exactly one of *)
(* the finishers of a scan's folders queues finalize_scan, and no library  *)
(* is pruned before every folder of the scan is imported.                  *)
(*                                                                         *)
(* The second needs to know that a folder job is finished by one process   *)
(* at a time.  No lock says so: it follows from how rows are claimed, so   *)
(* the inductive invariant is mostly about the queue.                      *)
(***************************************************************************)
EXTENDS ScanPipeline, TLAPS

-----------------------------------------------------------------------------
(* The inductive invariant.                                                *)

FinishSteps == {"lock", "count", "last", "notlast"}
LockedSteps == {"count", "last", "notlast"}
FolderSteps == {"process", "import", "mark"} \cup FinishSteps

\* Ids are never given twice.
UniqueIds ==
    /\ \A r \in queue : r.id < nextId
    /\ \A r1, r2 \in queue : r1.id = r2.id => r1 = r2

\* A scan's task names its scan; a folder task its folder, whose job exists.
RowsMatchJobs ==
    /\ \A r \in queue :
        r.kind \in {"trigger_library_scan", "process_audio_folder", "finalize_scan"}
            => r.scan \in Scans
    /\ \A r \in queue :
        r.kind = "process_audio_folder" =>
            /\ r.folder \in Folders
            /\ job[r.scan][r.folder] # "none"

\* A folder job has at most one task.
UniqueFolderRows ==
    \A r1, r2 \in queue :
        /\ r1.kind = "process_audio_folder"
        /\ r2.kind = "process_audio_folder"
        /\ r1.scan = r2.scan
        /\ r1.folder = r2.folder
        => r1 = r2

\* A busy process holds a row nobody else holds and nobody can claim.
HeldRows ==
    /\ \A p \in Procs : Busy(p) => cur[p] \in queue /\ cur[p].status \in {"running", "failed"}
    /\ \A p, q \in Procs : Busy(p) /\ Busy(q) /\ p # q => cur[p] # cur[q]

\* The supervisor requeues before the workers start, and only then.
RequeueAlone ==
    /\ svc = "starting" => \A w \in Workers : ~Busy(w)
    /\ svc # "starting" => ~Busy(Supervisor)

\* What a process does is what its row asks for.
StepsMatchRows ==
    \A p \in Procs :
        /\ pc[p] \in FolderSteps => cur[p].kind = "process_audio_folder"
        /\ pc[p] = "trigger" => cur[p].kind = "trigger_library_scan"
        /\ pc[p] \in {"finalize", "pruned"} => cur[p].kind = "finalize_scan"

RowsInv == UniqueIds /\ RowsMatchJobs /\ UniqueFolderRows
HoldInv == HeldRows /\ RequeueAlone /\ StepsMatchRows
QueueInv == RowsInv /\ HoldInv

\* The transaction of _finish_folder: its folder is still unfinished for the
\* others, and from the lock on, what it counted stays true.
FinishInv ==
    \A p \in Procs :
        /\ pc[p] \in FinishSteps => cur[p].folder \in UnfinishedFolders(cur[p].scan)
        /\ pc[p] \in LockedSteps => masterLock[cur[p].scan] = p
        /\ pc[p] = "last" => UnfinishedFolders(cur[p].scan) \subseteq {cur[p].folder}
        /\ pc[p] = "notlast" => ~(UnfinishedFolders(cur[p].scan) \subseteq {cur[p].folder})

\* A finalize_scan task was queued by the last finisher of its scan.
FinalizerRows ==
    \A r \in queue : r.kind = "finalize_scan" => finalizers[r.scan] > 0

-----------------------------------------------------------------------------
(* Types.                                                                  *)

\* A row that may still be claimed has an attempt left.
RowOK(r) ==
    /\ r \in Row
    /\ r.attempts <= MaxAttempts
    /\ r.status \in {"pending", "delayed"} => r.attempts < MaxAttempts

RestOK ==
    /\ nextId \in Nat
    /\ master \in [Scans -> JobStatus]
    /\ job \in [Scans -> [Folders -> JobStatus]]
    /\ asking \in [Callers -> {"idle", "look", "create"}]
    /\ scanLock \in Callers \cup {Nobody}
    /\ fetchLock \in Procs \cup {Nobody}
    /\ batches \in 0..MaxBatches
    /\ masterLock \in [Scans -> Procs \cup {Nobody}]
    /\ svc \in {"starting", "up", "stopping"}
    /\ pc \in [Procs -> ProcSteps]
    /\ finalizers \in [Scans -> Nat]
    /\ crashes \in 0..MaxCrashes

TypeInv ==
    /\ \A r \in queue : RowOK(r)
    /\ cur = [p \in Procs |-> cur[p]]
    /\ \A p \in Procs : RowOK(cur[p])
    /\ RestOK

LEMMA FirstStepType == \A kind \in TaskKinds : FirstStep[kind] \in BusySteps
BY DEF FirstStep, TaskKinds, BusySteps

\* What run_one and requeue_running do to a row keeps all but its status and
\* its attempts.
LEMMA WithStatusType ==
    ASSUME NEW r \in Row, NEW status \in RowStatus
    PROVE  /\ WithStatus(r, status) \in Row
           /\ WithStatus(r, status).status = status
           /\ WithStatus(r, status).attempts = r.attempts
           /\ WithStatus(r, status).id = r.id
           /\ WithStatus(r, status).kind = r.kind
           /\ WithStatus(r, status).scan = r.scan
           /\ WithStatus(r, status).folder = r.folder
BY DEF WithStatus, Row

LEMMA ClaimedType ==
    ASSUME NEW r \in Row
    PROVE  /\ Claimed(r) \in Row
           /\ Claimed(r).status = "running"
           /\ Claimed(r).attempts = r.attempts + 1
           /\ Claimed(r).id = r.id
           /\ Claimed(r).kind = r.kind
           /\ Claimed(r).scan = r.scan
           /\ Claimed(r).folder = r.folder
<1> DEFINE running == [r EXCEPT !.status = "running"]
<1>1. /\ running \in Row
      /\ running.status = "running"
      /\ running.attempts = r.attempts
      /\ running.id = r.id
      /\ running.kind = r.kind
      /\ running.scan = r.scan
      /\ running.folder = r.folder
  BY DEF Row, RowStatus
<1>2. Claimed(r) = [running EXCEPT !.attempts = r.attempts + 1]
  BY DEF Claimed
<1> HIDE DEF running
<1> QED BY <1>1, <1>2 DEF Row

LEMMA RowFields ==
    ASSUME NEW r \in Row
    PROVE  /\ r.id \in Nat
           /\ r.kind \in TaskKinds
           /\ r.scan \in Scans \cup {NoScan}
           /\ r.folder \in Folders \cup {NoFolder}
           /\ r.status \in RowStatus
           /\ r.attempts \in Nat
BY DEF Row

\* The rows the actions write.
LEMMA NewRowOK ==
    ASSUME NEW id \in Nat, NEW kind \in TaskKinds, NEW s \in Scans \cup {NoScan},
           NEW f \in Folders \cup {NoFolder}
    PROVE  RowOK(NewRow(id, kind, s, f))
<1>1. /\ NewRow(id, kind, s, f) \in Row
      /\ NewRow(id, kind, s, f).attempts = 0
  BY DEF NewRow, Row, RowStatus
<1> QED BY <1>1, Constants DEF RowOK

LEMMA ClaimedOK ==
    ASSUME NEW r, RowOK(r), r.status = "pending"
    PROVE  RowOK(Claimed(r))
BY ClaimedType, RowFields, Constants DEF RowOK

LEMMA WithStatusOK ==
    ASSUME NEW r, RowOK(r), NEW status \in RowStatus,
           status \in {"pending", "delayed"} => r.attempts < MaxAttempts
    PROVE  RowOK(WithStatus(r, status))
BY WithStatusType DEF RowOK

LEMMA EnqueueOK ==
    ASSUME NEW kind \in TaskKinds, NEW s \in Scans \cup {NoScan},
           TypeInv, Enqueue(kind, s)
    PROVE  /\ \A r \in queue' : RowOK(r)
           /\ nextId' \in Nat
BY NewRowOK DEF TypeInv, RestOK, Enqueue

LEMMA TypeInit == Init => TypeInv
<1> SUFFICES ASSUME Init PROVE TypeInv
  OBVIOUS
<1>1. RowOK(NoRow)
  BY NewRowOK DEF NoRow, TaskKinds
<1>2. cur = [p \in Procs |-> NoRow] /\ queue = {}
  BY DEF Init
<1>3. RestOK
  BY Constants DEF Init, RestOK, JobStatus, Unfinished, Finished, ProcSteps
<1> HIDE DEF NoRow
<1> QED BY <1>1, <1>2, <1>3 DEF TypeInv

LEMMA TypeStep == TypeInv /\ [Next]_vars => TypeInv'
<1> SUFFICES ASSUME TypeInv, [Next]_vars PROVE TypeInv'
  OBVIOUS
<1> USE DEF TypeInv, RestOK, queueVars, scanVars, lockVars, callerVars, fetchVars, procVars, serviceVars,
            ProcSteps, BusySteps, Goto, Procs
<1>1. ASSUME NEW c \in Callers, QueueLibraryScan(c) PROVE TypeInv'
  <2>1. CASE LockScanCreation(c)  BY <2>1 DEF LockScanCreation, Ask
  <2>2. CASE ReturnActiveScan(c)  BY <2>2 DEF ReturnActiveScan, Ask, Unlocked
  <2>4. CASE NoActiveScan(c)      BY <2>4 DEF NoActiveScan, Ask
  <2>3. CASE CreateScan(c)
    <3>1. PICK s \in Scans : /\ master' = [master EXCEPT ![s] = "pending"]
                              /\ Enqueue("trigger_library_scan", s)
      BY <2>3 DEF CreateScan
    <3>2. (\A r \in queue' : RowOK(r)) /\ nextId' \in Nat
      BY <3>1, EnqueueOK DEF TaskKinds
    <3>3. scanLock' \in Callers \cup {Nobody} /\ asking' \in [Callers -> {"idle", "look", "create"}]
      BY <2>3 DEF CreateScan, Ask, Unlocked
    <3> QED BY <2>3, <3>1, <3>2, <3>3 DEF CreateScan, JobStatus, Unfinished
  <2> QED BY <1>1, <2>1, <2>2, <2>3, <2>4 DEF QueueLibraryScan
<1>2. ASSUME NEW w \in Workers, Claim(w) PROVE TypeInv'
  <2>1. PICK r \in queue :
          /\ r.status = "pending"
          /\ queue' = (queue \ {r}) \cup {Claimed(r)}
          /\ cur' = [cur EXCEPT ![w] = Claimed(r)]
          /\ pc' = [pc EXCEPT ![w] = FirstStep[r.kind]]
    BY <1>2 DEF Claim, Runnable
  <2>2. RowOK(Claimed(r)) /\ r.kind \in TaskKinds
    BY <2>1, ClaimedOK, RowFields DEF RowOK
  <2>3. FirstStep[r.kind] \in ProcSteps
    BY <2>2, FirstStepType
  <2> QED BY <1>2, <2>1, <2>2, <2>3 DEF Claim
<1>3. ASSUME NEW w \in Workers, TriggerLibraryScan(w) PROVE TypeInv'
  <2>1. CASE TriggerRerun(w)  BY <2>1 DEF TriggerRerun
  <2>2. CASE TriggerWithoutFolders(w)
    BY <2>2 DEF TriggerWithoutFolders, Finished, JobStatus
  <2>3. CASE TriggerDispatch(w)
    <3> DEFINE s == cur[w].scan
    <3>1. s \in Scans \cup {NoScan}
      BY RowFields DEF RowOK
    <3>2. PICK found \in SUBSET Folders :
            /\ job' = [job EXCEPT ![s] = [f \in Folders |-> IF f \in found THEN "pending" ELSE "none"]]
            /\ queue' = queue \cup {NewRow(nextId + f, "process_audio_folder", s, f) : f \in found}
      BY <2>3 DEF TriggerDispatch
    <3> HIDE DEF s
    <3>3. \A f \in found : RowOK(NewRow(nextId + f, "process_audio_folder", s, f))
      <4> TAKE f \in found
      <4>1. f \in Folders /\ nextId + f \in Nat
        BY Constants DEF Folders
      <4> QED BY <3>1, <4>1, NewRowOK DEF TaskKinds
    <3>4. \A r \in queue' : RowOK(r)
      BY <3>2, <3>3
    <3>5. nextId' \in Nat
      BY <2>3, Constants DEF TriggerDispatch
    <3>6. job' \in [Scans -> [Folders -> JobStatus]]
      BY <3>2 DEF JobStatus, Unfinished
    <3> QED BY <2>3, <3>4, <3>5, <3>6 DEF TriggerDispatch, JobStatus, Unfinished
  <2> QED BY <1>3, <2>1, <2>2, <2>3 DEF TriggerLibraryScan
<1>4. ASSUME NEW w \in Workers, ProcessAudioFolder(w) PROVE TypeInv'
  <2>1. CASE ProcessSkip(w)   BY <2>1 DEF ProcessSkip
  <2>2. CASE ProcessBegin(w)
    <3>1. job' \in [Scans -> [Folders -> JobStatus]]
      BY <2>2 DEF ProcessBegin, JobStatus, Unfinished
    <3> QED BY <2>2, <3>1 DEF ProcessBegin
  <2>3. CASE ImportFolder(w)  BY <2>3 DEF ImportFolder
  <2> QED BY <1>4, <2>1, <2>2, <2>3 DEF ProcessAudioFolder
<1>5. ASSUME NEW p \in Procs, FinishFolder(p) PROVE TypeInv'
  <2>1. AfterFinish(p) \in ProcSteps  BY DEF AfterFinish
  <2>2. CASE FinishMark(p)   BY <2>1, <2>2 DEF FinishMark
  <2>3. CASE FinishLock(p)   BY <2>3 DEF FinishLock
  <2>4. CASE FinishCount(p)  BY <2>4 DEF FinishCount
  <2>5. CASE FinishCommit(p)
    <3> DEFINE s == cur[p].scan
    <3>1. s \in Scans \cup {NoScan}
      BY RowFields DEF RowOK
    <3>2. (\A r \in queue' : RowOK(r)) /\ nextId' \in Nat
      BY <2>5, <3>1, EnqueueOK DEF FinishCommit, TaskKinds
    <3>3. job' \in [Scans -> [Folders -> JobStatus]]
      BY <2>5 DEF FinishCommit, Outcome, JobStatus, Finished
    <3>4. pc' \in [Procs -> ProcSteps] /\ masterLock' \in [Scans -> Procs \cup {Nobody}]
      BY <2>1, <2>5 DEF FinishCommit
    <3>5. finalizers' \in [Scans -> Nat]
      BY <2>5 DEF FinishCommit
    <3> QED BY <2>5, <3>2, <3>3, <3>4, <3>5 DEF FinishCommit
  <2> QED BY <1>5, <2>2, <2>3, <2>4, <2>5 DEF FinishFolder
<1>6. ASSUME NEW w \in Workers, FinalizeScan(w) PROVE TypeInv'
  <2>1. CASE FinalizeFailed(w)
    <3>1. (\A r \in queue' : RowOK(r)) /\ nextId' \in Nat
      BY <2>1, EnqueueOK DEF FinalizeFailed, TaskKinds
    <3> QED BY <2>1, <3>1 DEF FinalizeFailed, JobStatus, Finished
  <2>2. CASE Prune(w)        BY <2>2 DEF Prune
  <2>3. CASE PruneRaises(w)  BY <2>3 DEF PruneRaises, JobStatus, Finished
  <2>4. CASE QueueRebuild(w)
    <3>1. cur[w].scan \in Scans \cup {NoScan}
      BY RowFields DEF RowOK
    <3>2. (\A r \in queue' : RowOK(r)) /\ nextId' \in Nat
      BY <2>4, <3>1, EnqueueOK DEF QueueRebuild, TaskKinds
    <3> QED BY <2>4, <3>2 DEF QueueRebuild
  <2> QED BY <1>6, <2>1, <2>2, <2>3, <2>4 DEF FinalizeScan
<1>7. ASSUME NEW w \in Workers, RebuildAnalysis(w) PROVE TypeInv'
  <2>1. (\A r \in queue' : RowOK(r)) /\ nextId' \in Nat
    BY <1>7, EnqueueOK DEF RebuildAnalysis, TaskKinds
  <2> QED BY <1>7, <2>1 DEF RebuildAnalysis, JobStatus, Finished
<1>17. ASSUME NEW w \in Workers, FetchArtistGenres(w) PROVE TypeInv'
  <2>1. CASE FetchSkip(w)    BY <2>1 DEF FetchSkip
  <2>2. CASE FetchBegin(w)   BY <2>2 DEF FetchBegin
  <2>3. CASE FetchArtists(w)
    <3>1. PICK kind \in {"fetch_artist_genres", "score_genres"} : Enqueue(kind, NoScan)
      BY <2>3 DEF FetchArtists
    <3>2. (\A r \in queue' : RowOK(r)) /\ nextId' \in Nat
      BY <3>1, EnqueueOK DEF TaskKinds
    <3>3. batches' \in 0..MaxBatches
      BY <2>3, Constants DEF FetchArtists
    <3> QED BY <2>3, <3>2, <3>3 DEF FetchArtists
  <2>4. CASE FetchUnlock(w)  BY <2>4 DEF FetchUnlock
  <2> QED BY <1>17, <2>1, <2>2, <2>3, <2>4 DEF FetchArtistGenres
<1>8. ASSUME NEW w \in Workers, ScoreGenres(w) \/ Complete(w) PROVE TypeInv'
  BY <1>8 DEF ScoreGenres, Complete
<1>9. ASSUME NEW w \in Workers, RetryLater(w) PROVE TypeInv'
  <2>1. RowOK(WithStatus(cur[w], "delayed"))
    BY <1>9, WithStatusOK DEF RetryLater, RowStatus
  <2> QED BY <1>9, <2>1 DEF RetryLater, Rewrite
<1>10. ASSUME NEW p \in Procs, NEW r, RowOK(r), GiveUp(p, r)
       PROVE  TypeInv'
  <2>1. RowOK(WithStatus(r, "failed"))
    BY <1>10, WithStatusOK DEF RowStatus
  <2> QED BY <1>10, <2>1 DEF GiveUp
<1>11. ASSUME NEW w \in Workers, OutOfAttempts(w) PROVE TypeInv'
  BY <1>10, <1>11 DEF OutOfAttempts
<1>12. ASSUME NEW w \in Workers, Raise(w) \/ CrashWorker(w) PROVE TypeInv'
  <2>1. masterLock' \in [Scans -> Procs \cup {Nobody}] /\ fetchLock' \in Procs \cup {Nobody}
    BY <1>12 DEF Raise, CrashWorker, DropLocks
  <2>2. crashes' \in 0..MaxCrashes
    BY <1>12, Constants DEF Raise, CrashWorker
  <2>3. pc' \in [Procs -> ProcSteps]
    BY <1>12 DEF Raise, CrashWorker
  <2> QED BY <1>12, <2>1, <2>2, <2>3 DEF Raise, CrashWorker
<1>13. CASE DelayEnds
  <2>1. PICK r \in queue : /\ r.status = "delayed"
                            /\ queue' = (queue \ {r}) \cup {WithStatus(r, "pending")}
    BY <1>13 DEF DelayEnds
  <2>2. RowOK(WithStatus(r, "pending"))
    BY <2>1, WithStatusOK DEF RowOK, RowStatus
  <2> QED BY <1>13, <2>1, <2>2 DEF DelayEnds
<1>14. CASE KillService
  <2>1. crashes' \in 0..MaxCrashes
    BY <1>14, Constants DEF KillService
  <2>2. pc' \in [Procs -> ProcSteps]
    BY <1>14 DEF KillService
  <2> QED BY <1>14, <2>1, <2>2 DEF KillService
<1>15. CASE ServiceStep
  <2>1. CASE Restart        BY <2>1 DEF Restart
  <2>2. CASE RequeueGiveUp  BY <1>10, <2>2 DEF RequeueGiveUp
  <2>3. CASE RequeueRest
    <3>1. \A r \in queue : r.status = "running" => RowOK(WithStatus(r, "pending"))
      BY <2>3, WithStatusOK DEF RequeueRest, RowStatus
    <3>2. \A r \in queue' : RowOK(r)
      BY <2>3, <3>1 DEF RequeueRest
    <3> QED BY <2>3, <3>2 DEF RequeueRest
  <2> QED BY <1>15, <2>1, <2>2, <2>3 DEF ServiceStep
<1>16. CASE UNCHANGED vars
  BY <1>16 DEF vars
<1> QED
  BY <1>1, <1>2, <1>3, <1>4, <1>5, <1>6, <1>7, <1>8, <1>9, <1>11, <1>12, <1>13, <1>14,
     <1>15, <1>16, <1>17
     DEF Next, WorkerStep, Acknowledge

\* Every variable keeps its type, and no task is run more than MAX_ATTEMPTS
\* times, whatever raises and however often the service is restarted.
THEOREM TypeCorrect == Spec => []TypeOK
<1>1. TypeInv => TypeOK  BY DEF TypeInv, RestOK, RowOK, TypeOK
<1> QED BY TypeInit, TypeStep, <1>1, PTL DEF Spec

-----------------------------------------------------------------------------
(* The queue.                                                              *)

\* No step forgets that a folder job was created.
JobsStay == \A s \in Scans : \A f \in Folders : job[s][f] # "none" => job'[s][f] # "none"

SameTask(r1, r2) ==
    /\ r1.id = r2.id
    /\ r1.kind = r2.kind
    /\ r1.scan = r2.scan
    /\ r1.folder = r2.folder

LEMMA RowsKept ==
    ASSUME TypeInv, RowsInv, JobsStay, queue' \subseteq queue, nextId' = nextId
    PROVE  RowsInv'
<1>1. UniqueIds'         BY DEF RowsInv, UniqueIds
<1>2. RowsMatchJobs'     BY DEF RowsInv, RowsMatchJobs, JobsStay
<1>3. UniqueFolderRows'  BY DEF RowsInv, UniqueFolderRows
<1> QED BY <1>1, <1>2, <1>3 DEF RowsInv

LEMMA RowsRewritten ==
    ASSUME TypeInv, RowsInv, JobsStay, nextId' = nextId,
           \A r \in queue' : \E old \in queue : SameTask(r, old),
           \A r1, r2 \in queue' : r1.id = r2.id => r1 = r2
    PROVE  RowsInv'
<1> USE DEF RowsInv, SameTask
<1>1. UniqueIds'         BY DEF UniqueIds
<1>2. RowsMatchJobs'
  <2> SUFFICES ASSUME NEW r \in queue'
               PROVE  /\ r.kind \in {"trigger_library_scan", "process_audio_folder", "finalize_scan"}
                            => r.scan \in Scans
                      /\ r.kind = "process_audio_folder" =>
                            r.folder \in Folders /\ job'[r.scan][r.folder] # "none"
    BY DEF RowsMatchJobs
  <2>1. PICK old \in queue : SameTask(r, old)  OBVIOUS
  <2> QED BY <2>1 DEF RowsMatchJobs, JobsStay
<1>3. UniqueFolderRows'
  <2> SUFFICES ASSUME NEW r1 \in queue', NEW r2 \in queue',
                      r1.kind = "process_audio_folder", r2.kind = "process_audio_folder",
                      r1.scan = r2.scan, r1.folder = r2.folder
               PROVE  r1 = r2
    BY DEF UniqueFolderRows
  <2>1. PICK old1 \in queue : SameTask(r1, old1)  OBVIOUS
  <2>2. PICK old2 \in queue : SameTask(r2, old2)  OBVIOUS
  <2>3. /\ old1.kind = "process_audio_folder" /\ old2.kind = "process_audio_folder"
        /\ old1.scan = old2.scan /\ old1.folder = old2.folder
    BY <2>1, <2>2
  <2>4. old1 = old2  BY <2>3 DEF UniqueFolderRows
  <2> QED BY <2>1, <2>2, <2>4
<1> QED BY <1>1, <1>2, <1>3

\* One row is rewritten in place.
LEMMA RowRewritten ==
    ASSUME TypeInv, RowsInv, JobsStay, nextId' = nextId,
           NEW r \in queue, NEW new, SameTask(new, r),
           queue' = (queue \ {r}) \cup {new}
    PROVE  RowsInv'
<1>1. \A r1 \in queue' : \E old \in queue : SameTask(r1, old)
  BY DEF SameTask
<1>2. \A r1, r2 \in queue' : r1.id = r2.id => r1 = r2
  BY DEF SameTask, RowsInv, UniqueIds
<1> QED BY <1>1, <1>2, RowsRewritten

\* A task of the scan as a whole is added.
LEMMA RowAdded ==
    ASSUME TypeInv, RowsInv, JobsStay,
           NEW kind \in TaskKinds \ {"process_audio_folder"}, NEW s \in Scans \cup {NoScan},
           kind \in {"trigger_library_scan", "finalize_scan"} => s \in Scans,
           Enqueue(kind, s)
    PROVE  RowsInv'
<1> DEFINE new == NewRow(nextId, kind, s, NoFolder)
<1>1. new.id = nextId /\ new.kind = kind /\ new.scan = s
  BY DEF NewRow
<1>2. queue' = queue \cup {new} /\ nextId' = nextId + 1 /\ nextId \in Nat
  BY DEF Enqueue, TypeInv, RestOK
<1>3. \A r \in queue : r.id \in Nat
  BY RowFields DEF TypeInv, RowOK
<1> HIDE DEF new
<1>4. UniqueIds'         BY <1>1, <1>2, <1>3 DEF RowsInv, UniqueIds
<1>5. RowsMatchJobs'     BY <1>1, <1>2 DEF RowsInv, RowsMatchJobs, JobsStay
<1>6. UniqueFolderRows'  BY <1>1, <1>2 DEF RowsInv, UniqueFolderRows
<1> QED BY <1>4, <1>5, <1>6 DEF RowsInv

\* trigger_library_scan adds one task for each folder of a scan without any.
LEMMA RowsDispatched ==
    ASSUME TypeInv, RowsInv, NEW w \in Workers, cur[w].scan \in Scans, TriggerDispatch(w)
    PROVE  RowsInv'
<1> DEFINE s == cur[w].scan
           new(f) == NewRow(nextId + f, "process_audio_folder", s, f)
<1>1. PICK found \in SUBSET Folders :
        /\ job' = [job EXCEPT ![s] = [f \in Folders |-> IF f \in found THEN "pending" ELSE "none"]]
        /\ queue' = queue \cup {new(f) : f \in found}
  BY DEF TriggerDispatch
<1>2. \A f : new(f).id = nextId + f /\ new(f).kind = "process_audio_folder"
             /\ new(f).scan = s /\ new(f).folder = f
  BY DEF NewRow
<1>3. /\ nextId \in Nat
      /\ \A f \in found : f \in Nat /\ f >= 1 /\ f <= NumFolders
      /\ nextId' = nextId + NumFolders + 1
      /\ NumFolders \in Nat
  BY Constants DEF Folders, TypeInv, RestOK, TriggerDispatch
<1>4. \A r \in queue : r.id \in Nat
  BY RowFields DEF TypeInv, RowOK
<1>5. \A f \in Folders : job[s][f] = "none"
  BY DEF TriggerDispatch, Dispatched
<1>6. job \in [Scans -> [Folders -> JobStatus]]
  BY DEF TypeInv, RestOK
<1> HIDE DEF new
<1>7. UniqueIds'
  <2>1. \A r \in queue' : r.id < nextId'
    BY <1>1, <1>2, <1>3, <1>4 DEF RowsInv, UniqueIds
  <2>2. \A r1, r2 \in queue' : r1.id = r2.id => r1 = r2
    BY <1>1, <1>2, <1>3, <1>4 DEF RowsInv, UniqueIds
  <2> QED BY <2>1, <2>2 DEF UniqueIds
<1>8. RowsMatchJobs'
  <2>1. \A r \in queue : r.kind = "process_audio_folder" => r.scan # s
    BY <1>5 DEF RowsInv, RowsMatchJobs
  <2>2. \A r \in queue : r.kind = "process_audio_folder" =>
            r.folder \in Folders /\ job'[r.scan][r.folder] # "none"
    BY <1>1, <1>6, <2>1 DEF RowsInv, RowsMatchJobs
  <2>3. \A f \in found : job'[s][f] = "pending" /\ f \in Folders
    BY <1>1, <1>6
  <2> QED BY <1>1, <1>2, <2>2, <2>3 DEF RowsInv, RowsMatchJobs
<1>9. UniqueFolderRows'
  <2>1. \A r \in queue : r.kind = "process_audio_folder" => r.scan # s
    BY <1>5 DEF RowsInv, RowsMatchJobs
  <2> QED BY <1>1, <1>2, <2>1 DEF RowsInv, UniqueFolderRows
<1> QED BY <1>7, <1>8, <1>9 DEF RowsInv

\* A step that hands out no row and moves no row keeps who holds what.
LEMMA HoldKept ==
    ASSUME TypeInv, HoldInv, cur' = cur, queue \subseteq queue', svc' = svc,
           \A p \in Procs : Busy(p)' => Busy(p)
    PROVE  HeldRows' /\ RequeueAlone'
<1>1. HeldRows'      BY DEF HoldInv, HeldRows
<1>2. RequeueAlone'  BY DEF HoldInv, RequeueAlone, Procs
<1> QED BY <1>1, <1>2

\* The holder of a row drops it from the queue, or puts it back, and is idle.
LEMMA HoldReleased ==
    ASSUME TypeInv, HoldInv, NEW w \in Workers, Busy(w),
           cur' = cur, svc' = svc, pc' = [pc EXCEPT ![w] = "idle"],
           \A r \in queue : r # cur[w] => r \in queue'
    PROVE  HoldInv'
<1> USE DEF HoldInv, Busy, Procs
<1>1. \A p \in Procs : Busy(p)' => Busy(p) /\ p # w
  BY DEF TypeInv, RestOK, BusySteps
<1>2. HeldRows'
  BY <1>1 DEF HeldRows
<1>3. RequeueAlone'
  BY <1>1 DEF RequeueAlone
<1>4. StepsMatchRows'
  BY DEF StepsMatchRows, FolderSteps, FinishSteps, TypeInv, RestOK
<1> QED BY <1>2, <1>3, <1>4

\* p gives up the row r: its own, or one left running by a killed worker.
LEMMA HoldGivenUp ==
    ASSUME TypeInv, QueueInv, NEW p \in Procs, NEW r \in queue,
           \A q \in Procs : q # p /\ Busy(q) => cur[q] # r,
           p \in Workers => Busy(p),
           p = Supervisor => svc = "starting",
           GiveUp(p, r)
    PROVE  QueueInv'
<1> USE DEF QueueInv
<1> DEFINE new == WithStatus(r, "failed")
<1>1. SameTask(new, r) /\ new.status = "failed" /\ RowOK(r)
  BY WithStatusType DEF SameTask, TypeInv, RowOK, RowStatus
<1>2. /\ queue' = (queue \ {r}) \cup {new}
      /\ cur' = [cur EXCEPT ![p] = new]
      /\ pc' = [pc EXCEPT ![p] = IF r.kind = "process_audio_folder" THEN "mark" ELSE "idle"]
      /\ UNCHANGED <<nextId, job, svc>>
  BY DEF GiveUp, Goto, scanVars, serviceVars
<1>3. cur \in [Procs -> Row] /\ pc \in [Procs -> ProcSteps]
  BY DEF TypeInv, RestOK, RowOK
<1> HIDE DEF new
<1>4. RowsInv'
  BY <1>1, <1>2, RowRewritten DEF JobsStay
<1>5. HeldRows'
  <2>1. ASSUME NEW q \in Procs, q # p, Busy(q)'
        PROVE  /\ cur'[q] = cur[q] /\ cur[q] \in queue /\ cur[q] # r
               /\ cur[q].status \in {"running", "failed"}
    BY <1>2, <1>3, <2>1 DEF HoldInv, HeldRows, Busy
  <2>2. \A old \in queue : old # r => old.id # r.id
    BY DEF RowsInv, UniqueIds
  <2>3. cur'[p] = new
    BY <1>2, <1>3
  <2>4. \A q \in Procs : Busy(q)' => cur'[q] \in queue' /\ cur'[q].status \in {"running", "failed"}
    BY <1>1, <1>2, <2>1, <2>3
  <2>5. ASSUME NEW q \in Procs, NEW q2 \in Procs, q # q2, Busy(q)', Busy(q2)'
        PROVE  cur'[q] # cur'[q2]
    <3>1. CASE q # p /\ q2 # p
      BY <1>2, <1>3, <2>1, <2>5, <3>1 DEF HoldInv, HeldRows, Busy
    <3>2. CASE q = p /\ q2 # p
      BY <1>1, <2>1, <2>2, <2>3, <2>5, <3>2 DEF SameTask
    <3>3. CASE q # p /\ q2 = p
      BY <1>1, <2>1, <2>2, <2>3, <2>5, <3>3 DEF SameTask
    <3> QED BY <2>5, <3>1, <3>2, <3>3
  <2> QED BY <2>4, <2>5 DEF HeldRows
<1>6. RequeueAlone'
  <2>1. \A w \in Workers : Busy(w)' => Busy(w)
    BY <1>2, <1>3 DEF Busy, Procs
  <2>2. p # Supervisor => (Busy(Supervisor)' => Busy(Supervisor))
    BY <1>2, <1>3 DEF Busy, Procs
  <2> QED BY <1>2, <2>1, <2>2 DEF HoldInv, RequeueAlone, Procs
<1>7. StepsMatchRows'
  BY <1>1, <1>2, <1>3 DEF HoldInv, StepsMatchRows, FolderSteps, FinishSteps, SameTask
<1> QED BY <1>4, <1>5, <1>6, <1>7 DEF HoldInv

LEMMA QueueInit == Init => QueueInv
<1> SUFFICES ASSUME Init PROVE QueueInv
  OBVIOUS
<1>1. RowsInv
  BY DEF Init, RowsInv, UniqueIds, RowsMatchJobs, UniqueFolderRows
<1>2. HoldInv
  BY DEF Init, HoldInv, HeldRows, RequeueAlone, StepsMatchRows, Busy, BusySteps, FolderSteps,
         FinishSteps, Procs
<1> QED BY <1>1, <1>2 DEF QueueInv

\* Steps that stay within what a process holds: its row is untouched, or only
\* a new one is added.
LEMMA HoldMoved ==
    ASSUME TypeInv, HoldInv, NEW p \in Procs, Busy(p), NEW step,
           pc' = [pc EXCEPT ![p] = step], cur' = cur, svc' = svc, queue \subseteq queue',
           /\ step \in FolderSteps => cur[p].kind = "process_audio_folder"
           /\ step = "trigger" => cur[p].kind = "trigger_library_scan"
           /\ step \in {"finalize", "pruned"} => cur[p].kind = "finalize_scan"
    PROVE  HoldInv'
<1>1. \A q \in Procs : Busy(q)' => Busy(q)
  BY DEF Busy, TypeInv, RestOK
<1>2. HeldRows' /\ RequeueAlone'
  BY <1>1, HoldKept
<1>3. StepsMatchRows'
  BY DEF HoldInv, StepsMatchRows, TypeInv, RestOK
<1> QED BY <1>2, <1>3 DEF HoldInv

LEMMA QueueStep == TypeInv /\ QueueInv /\ [Next]_vars => QueueInv'
<1> SUFFICES ASSUME TypeInv, QueueInv, [Next]_vars PROVE QueueInv'
  OBVIOUS
<1> USE DEF QueueInv, queueVars, scanVars, lockVars, callerVars, fetchVars, procVars, serviceVars, Goto
<1>t. /\ cur \in [Procs -> Row]
      /\ pc \in [Procs -> ProcSteps]
      /\ job \in [Scans -> [Folders -> JobStatus]]
  BY DEF TypeInv, RestOK, RowOK
<1>h. HeldRows /\ RequeueAlone /\ StepsMatchRows
  BY DEF HoldInv
<1>s. \A p \in Procs : Busy(p) =>
        /\ cur[p].scan \in Scans \cup {NoScan}
        /\ cur[p].kind \in {"trigger_library_scan", "process_audio_folder", "finalize_scan"}
             => cur[p].scan \in Scans
  BY <1>h, RowFields DEF HeldRows, RowsInv, RowsMatchJobs, TypeInv, RowOK
<1>1. ASSUME NEW c \in Callers, QueueLibraryScan(c) PROVE QueueInv'
  <2>1. CASE LockScanCreation(c) \/ ReturnActiveScan(c) \/ NoActiveScan(c)
    <3>1. UNCHANGED <<queue, nextId, job, cur, pc, svc>>
      BY <2>1 DEF LockScanCreation, ReturnActiveScan, NoActiveScan
    <3> QED BY <3>1, <1>h DEF RowsInv, HoldInv, UniqueIds, RowsMatchJobs, UniqueFolderRows,
                              HeldRows, RequeueAlone, StepsMatchRows, Busy
  <2>2. CASE CreateScan(c)
    <3>1. PICK s \in Scans : Enqueue("trigger_library_scan", s)
      BY <2>2 DEF CreateScan
    <3>2. RowsInv'
      BY <2>2, <3>1, RowAdded DEF CreateScan, JobsStay, TaskKinds
    <3>3. UNCHANGED <<cur, pc, svc>> /\ queue \subseteq queue'
      BY <2>2, <3>1 DEF CreateScan, Enqueue
    <3>4. HeldRows' /\ RequeueAlone'
      BY <3>3, HoldKept DEF Busy
    <3> QED BY <3>2, <3>3, <3>4, <1>h DEF HoldInv, StepsMatchRows
  <2> QED BY <1>1, <2>1, <2>2 DEF QueueLibraryScan
<1>2. ASSUME NEW w \in Workers, Claim(w) PROVE QueueInv'
  <2>1. PICK r \in queue :
          /\ r.status = "pending"
          /\ queue' = (queue \ {r}) \cup {Claimed(r)}
          /\ cur' = [cur EXCEPT ![w] = Claimed(r)]
          /\ pc' = [pc EXCEPT ![w] = FirstStep[r.kind]]
    BY <1>2 DEF Claim, Runnable
  <2> DEFINE new == Claimed(r)
  <2>2. SameTask(new, r) /\ new.status = "running" /\ r.kind \in TaskKinds
    BY ClaimedType, RowFields DEF SameTask, TypeInv, RowOK
  <2>3. UNCHANGED <<nextId, job, svc>> /\ svc = "up" /\ ~Busy(w)
    BY <1>2 DEF Claim, Busy, BusySteps
  <2> HIDE DEF new
  <2>4. RowsInv'
    BY <2>1, <2>2, <2>3, RowRewritten DEF JobsStay, new
  <2>5. \A q \in Procs : q # w /\ Busy(q)' => /\ cur'[q] = cur[q] /\ cur[q] \in queue
                                              /\ cur[q] # r /\ cur[q].id # r.id /\ Busy(q)
                                              /\ cur[q].status \in {"running", "failed"}
    BY <1>t, <1>h, <2>1 DEF HeldRows, Busy, RowsInv, UniqueIds
  <2>6. cur'[w] = new
    BY <1>t, <2>1 DEF Procs, new
  <2>7. HeldRows'
    <3>1. \A q \in Procs : Busy(q)' => cur'[q] \in queue' /\ cur'[q].status \in {"running", "failed"}
      BY <2>1, <2>2, <2>5, <2>6 DEF new
    <3>2. ASSUME NEW q \in Procs, NEW q2 \in Procs, q # q2, Busy(q)', Busy(q2)'
          PROVE  cur'[q] # cur'[q2]
      <4>1. CASE q # w /\ q2 # w
        BY <1>h, <2>5, <3>2, <4>1 DEF HeldRows
      <4>2. CASE q = w \/ q2 = w
        BY <2>2, <2>5, <2>6, <3>2, <4>2 DEF SameTask
      <4> QED BY <4>1, <4>2
    <3> QED BY <3>1, <3>2 DEF HeldRows
  <2>8. RequeueAlone'
    <3>1. Supervisor # w  BY Constants
    <3> QED BY <1>h, <2>3, <2>5, <3>1 DEF RequeueAlone, Procs
  <2>9. StepsMatchRows'
    <3>1. \A q \in Procs : q # w => pc'[q] = pc[q] /\ cur'[q] = cur[q]
      BY <1>t, <2>1
    <3>2. pc'[w] = FirstStep[r.kind]
      BY <1>t, <2>1 DEF Procs
    <3>3. /\ FirstStep[r.kind] \in FolderSteps => r.kind = "process_audio_folder"
          /\ FirstStep[r.kind] = "trigger" => r.kind = "trigger_library_scan"
          /\ FirstStep[r.kind] \in {"finalize", "pruned"} => r.kind = "finalize_scan"
      BY <2>2 DEF FirstStep, TaskKinds, FolderSteps, FinishSteps
    <3> QED BY <1>h, <2>2, <2>6, <3>1, <3>2, <3>3 DEF StepsMatchRows, SameTask
  <2> QED BY <2>4, <2>7, <2>8, <2>9 DEF HoldInv
<1>3. ASSUME NEW w \in Workers, TriggerLibraryScan(w) PROVE QueueInv'
  <2>1. w \in Procs /\ Busy(w) /\ cur[w].kind = "trigger_library_scan" /\ cur[w].scan \in Scans
    BY <1>3, <1>h, <1>s
       DEF Procs, Busy, BusySteps, StepsMatchRows, TriggerLibraryScan, TriggerRerun,
                       TriggerWithoutFolders, TriggerDispatch
  <2>2. /\ pc' = [pc EXCEPT ![w] = "done"] /\ cur' = cur /\ svc' = svc
        /\ queue \subseteq queue'
    BY <1>3 DEF TriggerLibraryScan, TriggerRerun, TriggerWithoutFolders, TriggerDispatch
  <2>3. HoldInv'
    BY <2>1, <2>2, HoldMoved DEF FolderSteps, FinishSteps
  <2>4. CASE TriggerRerun(w) \/ TriggerWithoutFolders(w)
    <3>1. UNCHANGED <<queue, nextId, job>>
      BY <2>4 DEF TriggerRerun, TriggerWithoutFolders
    <3> QED BY <2>3, <3>1, RowsKept DEF JobsStay
  <2>5. CASE TriggerDispatch(w)
    BY <2>1, <2>3, <2>5, RowsDispatched
  <2> QED BY <1>3, <2>4, <2>5 DEF TriggerLibraryScan
<1>4. ASSUME NEW w \in Workers, ProcessAudioFolder(w) PROVE QueueInv'
  <2>1. PICK step \in {"done", "import", "mark"} : pc' = [pc EXCEPT ![w] = step]
    BY <1>4 DEF ProcessAudioFolder, ProcessSkip, ProcessBegin, ImportFolder
  <2>2. w \in Procs /\ Busy(w) /\ cur[w].kind = "process_audio_folder"
    BY <1>4, <1>h DEF Procs, Busy, BusySteps, StepsMatchRows, FolderSteps, FinishSteps,
                 ProcessAudioFolder, ProcessSkip, ProcessBegin, ImportFolder
  <2>3. UNCHANGED <<cur, svc, queue, nextId>>
    BY <1>4 DEF ProcessAudioFolder, ProcessSkip, ProcessBegin, ImportFolder
  <2>4. HoldInv'
    BY <2>1, <2>2, <2>3, HoldMoved
  <2>5. JobsStay
    BY <1>4, <1>t DEF ProcessAudioFolder, ProcessSkip, ProcessBegin, ImportFolder, JobsStay
  <2> QED BY <2>3, <2>4, <2>5, RowsKept
<1>5. ASSUME NEW p \in Procs, FinishFolder(p) PROVE QueueInv'
  <2>1. PICK step \in FinishSteps \cup {"idle", "done"} : pc' = [pc EXCEPT ![p] = step]
    BY <1>5
       DEF FinishFolder, FinishMark, FinishLock, FinishCount, FinishCommit, AfterFinish,
           FinishSteps
  <2>2. Busy(p) /\ cur[p].kind = "process_audio_folder" /\ cur[p].scan \in Scans
    BY <1>5, <1>h, <1>s
       DEF Busy, BusySteps, StepsMatchRows, FolderSteps, FinishSteps, FinishFolder,
                       FinishMark, FinishLock, FinishCount, FinishCommit
  <2>3. cur' = cur /\ svc' = svc /\ queue \subseteq queue'
    BY <1>5 DEF FinishFolder, FinishMark, FinishLock, FinishCount, FinishCommit, Enqueue
  <2>4. HoldInv'
    BY <2>1, <2>2, <2>3, HoldMoved DEF FinishSteps
  <2>5. JobsStay
    BY <1>5, <1>t
       DEF FinishFolder, FinishMark, FinishLock, FinishCount, FinishCommit, JobsStay, Outcome
  <2>6. CASE queue' = queue /\ nextId' = nextId
    BY <2>4, <2>5, <2>6, RowsKept
  <2>7. CASE Enqueue("finalize_scan", cur[p].scan)
    BY <2>2, <2>4, <2>5, <2>7, RowAdded DEF TaskKinds
  <2> QED
    BY <1>5, <2>6, <2>7
       DEF FinishFolder, FinishMark, FinishLock, FinishCount, FinishCommit
<1>6. ASSUME NEW w \in Workers,
             FinalizeScan(w) \/ RebuildAnalysis(w) \/ FetchArtistGenres(w) \/ ScoreGenres(w)
      PROVE  QueueInv'
  <2>1. PICK step \in {"done", "raised", "pruned", "lookup", "unlock"} :
          pc' = [pc EXCEPT ![w] = step] /\ (step = "pruned" => pc[w] = "finalize")
    BY <1>6
       DEF FinalizeScan, FinalizeFailed, Prune, PruneRaises, QueueRebuild, RebuildAnalysis,
           FetchArtistGenres, FetchSkip, FetchBegin, FetchArtists, FetchUnlock, ScoreGenres
  <2>2. /\ w \in Procs /\ Busy(w) /\ cur[w].scan \in Scans \cup {NoScan}
        /\ pc[w] = "finalize" => cur[w].kind = "finalize_scan"
    BY <1>6, <1>h, <1>s
       DEF Procs, Busy, BusySteps, StepsMatchRows, FinalizeScan, FinalizeFailed, Prune,
                       PruneRaises, QueueRebuild, RebuildAnalysis, FetchArtistGenres, FetchSkip,
                       FetchBegin, FetchArtists, FetchUnlock, ScoreGenres
  <2>3. cur' = cur /\ svc' = svc /\ queue \subseteq queue' /\ job' = job
    BY <1>6 DEF FinalizeScan, FinalizeFailed, Prune, PruneRaises, QueueRebuild, RebuildAnalysis,
                FetchArtistGenres, FetchSkip, FetchBegin, FetchArtists, FetchUnlock,
                ScoreGenres, Enqueue
  <2>4. HoldInv'
    BY <2>1, <2>2, <2>3, HoldMoved DEF FolderSteps, FinishSteps
  <2>5. CASE queue' = queue /\ nextId' = nextId
    BY <2>3, <2>4, <2>5, RowsKept DEF JobsStay
  <2>6. CASE \E kind \in {"rebuild_analysis", "fetch_artist_genres", "score_genres"} :
               Enqueue(kind, NoScan) \/ Enqueue(kind, cur[w].scan)
    BY <2>2, <2>3, <2>4, <2>6, RowAdded DEF JobsStay, TaskKinds
  <2> QED
    BY <1>6, <2>5, <2>6
       DEF FinalizeScan, FinalizeFailed, Prune, PruneRaises, QueueRebuild,
                                RebuildAnalysis, FetchArtistGenres, FetchSkip, FetchBegin,
                                FetchArtists, FetchUnlock, ScoreGenres
<1>7. ASSUME NEW w \in Workers, Complete(w) PROVE QueueInv'
  <2>1. RowsInv'
    BY <1>7, RowsKept DEF Complete, JobsStay
  <2>2. HoldInv'
    BY <1>7, HoldReleased DEF Complete, Busy, BusySteps
  <2> QED BY <2>1, <2>2
<1>8. ASSUME NEW w \in Workers, RetryLater(w) PROVE QueueInv'
  <2>1. Busy(w) /\ w \in Procs
    BY <1>8 DEF RetryLater, Busy, BusySteps, Procs
  <2>2. cur[w] \in queue /\ SameTask(WithStatus(cur[w], "delayed"), cur[w])
    BY <1>h, <2>1, WithStatusType DEF HeldRows, SameTask, TypeInv, RowOK, RowStatus
  <2>3. RowsInv'
    BY <1>8, <2>2, RowRewritten DEF RetryLater, Rewrite, JobsStay
  <2>4. HoldInv'
    BY <1>8, <2>1, HoldReleased DEF RetryLater, Rewrite
  <2> QED BY <2>3, <2>4
<1>9. ASSUME NEW w \in Workers, OutOfAttempts(w) PROVE QueueInv'
  <2>1. Busy(w) /\ w \in Procs /\ w # Supervisor
    BY <1>9, Constants DEF OutOfAttempts, Busy, BusySteps, Procs
  <2>2. cur[w] \in queue /\ \A q \in Procs : q # w /\ Busy(q) => cur[q] # cur[w]
    BY <1>h, <2>1 DEF HeldRows
  <2> QED BY <1>9, <2>1, <2>2, HoldGivenUp DEF OutOfAttempts
<1>10. ASSUME NEW w \in Workers, Raise(w) PROVE QueueInv'
  <2>1. w \in Procs /\ Busy(w)
    BY <1>10 DEF Raise, TaskSteps, Busy, Procs
  <2>2. HoldInv'
    BY <1>10, <2>1, HoldMoved DEF Raise, FolderSteps, FinishSteps
  <2>3. RowsInv'
    BY <1>10, RowsKept DEF Raise, JobsStay
  <2> QED BY <2>2, <2>3
<1>11. ASSUME NEW w \in Workers, CrashWorker(w) PROVE QueueInv'
  <2>1. RowsInv'
    BY <1>11, RowsKept DEF CrashWorker, JobsStay
  <2>2. \A q \in Procs : Busy(q)' => Busy(q) /\ pc'[q] = pc[q]
    BY <1>11, <1>t DEF CrashWorker, Busy, BusySteps, Procs
  <2>3. HeldRows'
    BY <1>11, <1>h, <2>2 DEF CrashWorker, HeldRows
  <2>4. RequeueAlone'
    BY <1>11, <1>h, <2>2 DEF CrashWorker, RequeueAlone, Procs
  <2>5. StepsMatchRows'
    BY <1>11, <1>t, <1>h DEF CrashWorker, StepsMatchRows, FolderSteps, FinishSteps, Procs
  <2> QED BY <2>1, <2>3, <2>4, <2>5 DEF HoldInv
<1>12. CASE DelayEnds
  <2>1. PICK r \in queue : /\ r.status = "delayed"
                            /\ queue' = (queue \ {r}) \cup {WithStatus(r, "pending")}
    BY <1>12 DEF DelayEnds
  <2>2. SameTask(WithStatus(r, "pending"), r)
    BY WithStatusType DEF SameTask, TypeInv, RowOK, RowStatus
  <2>3. RowsInv'
    BY <1>12, <2>1, <2>2, RowRewritten DEF DelayEnds, JobsStay
  <2>4. UNCHANGED <<pc, cur, svc>>
    BY <1>12 DEF DelayEnds
  <2>5. HeldRows'
    BY <1>h, <2>1, <2>4 DEF HeldRows, Busy
  <2>6. RequeueAlone' /\ StepsMatchRows'
    BY <1>h, <2>4 DEF RequeueAlone, StepsMatchRows, Busy
  <2> QED BY <2>3, <2>5, <2>6 DEF HoldInv
<1>13. CASE KillService \/ Restart
  <2>1. RowsInv'
    BY <1>13, RowsKept DEF KillService, Restart, JobsStay
  <2>2. \A q \in Procs : pc'[q] \in {"idle", "dead"}
    BY <1>13 DEF KillService, Restart
  <2>3. HoldInv'
    BY <2>2 DEF HoldInv, HeldRows, RequeueAlone, StepsMatchRows, Busy, BusySteps, FolderSteps,
                FinishSteps, Procs
  <2> QED BY <2>1, <2>3
<1>14. CASE RequeueGiveUp
  <2>1. PICK r \in queue : GiveUp(Supervisor, r)
    BY <1>14 DEF RequeueGiveUp
  <2>2. \A q \in Procs : ~Busy(q) /\ svc = "starting"
    BY <1>14, <1>h DEF RequeueGiveUp, RequeueAlone, Busy, BusySteps, Procs
  <2> QED BY <2>1, <2>2, Constants, HoldGivenUp DEF Procs
<1>15. CASE RequeueRest
  <2> DEFINE new(r) == IF r.status = "running" THEN WithStatus(r, "pending") ELSE r
  <2>1. \A r \in queue : SameTask(new(r), r)
    BY WithStatusType DEF SameTask, TypeInv, RowOK, RowStatus
  <2>2. queue' = {new(r) : r \in queue}
    BY <1>15 DEF RequeueRest
  <2> HIDE DEF new
  <2>3. RowsInv'
    <3>1. \A r \in queue' : \E old \in queue : SameTask(r, old)
      BY <2>1, <2>2
    <3>2. \A r1, r2 \in queue' : r1.id = r2.id => r1 = r2
      BY <2>1, <2>2 DEF SameTask, RowsInv, UniqueIds
    <3> QED BY <1>15, <3>1, <3>2, RowsRewritten DEF RequeueRest, JobsStay
  <2>4. \A q \in Procs : ~Busy(q) /\ pc'[q] = pc[q]
    BY <1>15, <1>h DEF RequeueRest, RequeueAlone, Busy, BusySteps, Procs
  <2>5. HoldInv'
    BY <2>4 DEF HoldInv, HeldRows, RequeueAlone, StepsMatchRows, Busy, BusySteps, FolderSteps,
                FinishSteps, Procs
  <2> QED BY <2>3, <2>5
<1>16. CASE UNCHANGED vars
  <2>1. UNCHANGED <<queue, nextId, job, cur, pc, svc>>
    BY <1>16 DEF vars
  <2> QED BY <2>1, <1>h DEF RowsInv, HoldInv, UniqueIds, RowsMatchJobs, UniqueFolderRows,
                            HeldRows, RequeueAlone, StepsMatchRows, Busy
<1> QED
  BY <1>1, <1>2, <1>3, <1>4, <1>5, <1>6, <1>7, <1>8, <1>9, <1>10, <1>11, <1>12, <1>13, <1>14,
     <1>15, <1>16
     DEF Next, WorkerStep, Acknowledge, ServiceStep

-----------------------------------------------------------------------------
(* The last folder.                                                        *)

\* No folder job is finished or created by this step.
JobsFrame ==
    \A s \in Scans :
        /\ UnfinishedFolders(s)' = UnfinishedFolders(s)
        /\ Dispatched(s)' <=> Dispatched(s)

\* Whoever is inside _finish_folder's transaction after this step was there
\* before it, and kept its lock.
FinishFrame ==
    \A p \in Procs :
        /\ pc'[p] \in FinishSteps => pc'[p] = pc[p] /\ cur'[p] = cur[p]
        /\ pc'[p] \in LockedSteps => masterLock'[cur[p].scan] = masterLock[cur[p].scan]

LEMMA FinishRows ==
    ASSUME TypeInv, QueueInv, NEW p \in Procs, pc[p] \in FolderSteps
    PROVE  /\ Busy(p)
           /\ cur[p] \in queue
           /\ cur[p].kind = "process_audio_folder"
           /\ cur[p].scan \in Scans
           /\ cur[p].folder \in Folders
           /\ job[cur[p].scan][cur[p].folder] # "none"
<1>1. Busy(p)  BY DEF Busy, BusySteps, FolderSteps, FinishSteps
<1>2. cur[p] \in queue /\ cur[p].kind = "process_audio_folder"
  BY <1>1 DEF QueueInv, HoldInv, HeldRows, StepsMatchRows
<1> QED BY <1>1, <1>2 DEF QueueInv, RowsInv, RowsMatchJobs

LEMMA FinishKept ==
    ASSUME TypeInv, QueueInv, FinishInv, ExactlyOneFinalizer,
           JobsFrame, FinishFrame, finalizers' = finalizers
    PROVE  FinishInv' /\ ExactlyOneFinalizer'
<1>1. ExactlyOneFinalizer'
  BY DEF ExactlyOneFinalizer, JobsFrame
<1>2. FinishInv'
  <2> SUFFICES ASSUME NEW p \in Procs, pc'[p] \in FinishSteps
               PROVE  /\ (cur[p].folder \in UnfinishedFolders(cur[p].scan))'
                      /\ pc'[p] \in LockedSteps => (masterLock[cur[p].scan] = p)'
                      /\ pc'[p] = "last" => (UnfinishedFolders(cur[p].scan) \subseteq {cur[p].folder})'
                      /\ pc'[p] = "notlast" => ~(UnfinishedFolders(cur[p].scan) \subseteq {cur[p].folder})'
    BY DEF FinishInv, LockedSteps, FinishSteps
  <2>1. pc'[p] = pc[p] /\ cur'[p] = cur[p] /\ cur[p].scan \in Scans
    BY FinishRows DEF FinishFrame, FolderSteps
  <2>2. (UnfinishedFolders(cur[p].scan))' = UnfinishedFolders(cur[p].scan)
    BY <2>1 DEF JobsFrame, UnfinishedFolders
  <2> QED BY <2>1, <2>2 DEF FinishInv, FinishFrame
<1> QED BY <1>1, <1>2

LEMMA FinishInit == Init => FinishInv /\ ExactlyOneFinalizer
<1> SUFFICES ASSUME Init PROVE FinishInv /\ ExactlyOneFinalizer
  OBVIOUS
<1>1. FinishInv
  BY DEF Init, FinishInv, FinishSteps, LockedSteps
<1>2. ExactlyOneFinalizer
  BY DEF Init, ExactlyOneFinalizer, Dispatched
<1> QED BY <1>1, <1>2

\* No process is finishing a folder of a scan that has no folder jobs yet.
LEMMA FinishDispatch ==
    ASSUME TypeInv, QueueInv, FinishInv, ExactlyOneFinalizer,
           NEW w \in Workers, TriggerDispatch(w)
    PROVE  FinishInv' /\ ExactlyOneFinalizer'
<1> DEFINE s == cur[w].scan
<1>1. /\ w \in Procs /\ Busy(w) /\ pc[w] = "trigger"
  BY DEF TriggerDispatch, Busy, BusySteps, Procs
<1>2. s \in Scans
  BY <1>1 DEF QueueInv, HoldInv, HeldRows, StepsMatchRows, RowsInv, RowsMatchJobs
<1>3. job \in [Scans -> [Folders -> JobStatus]] /\ pc \in [Procs -> ProcSteps]
  BY DEF TypeInv, RestOK
<1>4. PICK found \in SUBSET Folders :
        /\ found # {}
        /\ job' = [job EXCEPT ![s] = [f \in Folders |-> IF f \in found THEN "pending" ELSE "none"]]
  BY DEF TriggerDispatch
<1>5. UNCHANGED <<cur, masterLock, finalizers>> /\ pc' = [pc EXCEPT ![w] = "done"] /\ ~Dispatched(s)
  BY DEF TriggerDispatch, lockVars, callerVars, fetchVars, Goto
<1>6. FinishInv'
  <2>1. ASSUME NEW p \in Procs, pc'[p] \in FinishSteps
        PROVE  /\ pc'[p] = pc[p] /\ cur[p].scan # s /\ cur[p].scan \in Scans
               /\ (UnfinishedFolders(cur[p].scan))' = UnfinishedFolders(cur[p].scan)
    <3>1. pc'[p] = pc[p]
      BY <1>3, <1>5, <2>1 DEF FinishSteps
    <3>2. cur[p].scan \in Scans /\ job[cur[p].scan][cur[p].folder] # "none" /\ cur[p].folder \in Folders
      BY <2>1, <3>1, FinishRows DEF FolderSteps
    <3>3. cur[p].scan # s
      BY <1>5, <3>2 DEF Dispatched
    <3> QED BY <1>3, <1>4, <1>5, <3>1, <3>2, <3>3 DEF UnfinishedFolders
  <2> QED BY <1>5, <2>1 DEF FinishInv, FinishSteps, LockedSteps
<1>7. ExactlyOneFinalizer'
  <2>1. \A s2 \in Scans : s2 # s => UnfinishedFolders(s2)' = UnfinishedFolders(s2)
                                   /\ (Dispatched(s2)' <=> Dispatched(s2))
    BY <1>3, <1>4 DEF UnfinishedFolders, Dispatched
  <2>2. \A f \in found : job'[s][f] = "pending"
    BY <1>2, <1>3, <1>4
  <2>3. \E f \in Folders : job'[s][f] \in Unfinished
    BY <1>4, <2>2 DEF Unfinished
  <2>4. {f \in Folders : job'[s][f] \in Unfinished} # {}
    BY <2>3
  <2>5. finalizers[s] = 0
    BY <1>2, <1>5 DEF ExactlyOneFinalizer
  <2> SUFFICES ASSUME NEW s2 \in Scans
               PROVE  finalizers'[s2] = IF Dispatched(s2)' /\ UnfinishedFolders(s2)' = {} THEN 1 ELSE 0
    BY DEF ExactlyOneFinalizer
  <2>6. CASE s2 = s
    BY <1>5, <2>4, <2>5, <2>6 DEF UnfinishedFolders
  <2>7. CASE s2 # s
    BY <1>5, <2>1, <2>7 DEF ExactlyOneFinalizer
  <2> QED BY <2>6, <2>7
<1> QED BY <1>6, <1>7

\* The commit of a finisher: nobody else is finishing the same folder, or
\* counting the folders of the same scan.
LEMMA FinishCommitted ==
    ASSUME TypeInv, QueueInv, FinishInv, ExactlyOneFinalizer,
           NEW p \in Procs, FinishCommit(p)
    PROVE  FinishInv' /\ ExactlyOneFinalizer'
<1>1. pc[p] \in {"last", "notlast"} /\ pc[p] \in FolderSteps
  BY DEF FinishCommit, FolderSteps, FinishSteps
<1>2. PICK s \in Scans, g \in Folders :
        /\ s = cur[p].scan /\ g = cur[p].folder
        /\ Busy(p) /\ cur[p] \in queue /\ cur[p].kind = "process_audio_folder"
  BY <1>1, FinishRows
<1>3. /\ job \in [Scans -> [Folders -> JobStatus]]
      /\ pc \in [Procs -> ProcSteps]
      /\ masterLock \in [Scans -> Procs \cup {Nobody}]
      /\ finalizers \in [Scans -> Nat]
  BY DEF TypeInv, RestOK
<1>4. /\ g \in UnfinishedFolders(s)
      /\ masterLock[s] = p
      /\ pc[p] = "last" => UnfinishedFolders(s) \subseteq {g}
      /\ pc[p] = "notlast" => ~(UnfinishedFolders(s) \subseteq {g})
  BY <1>1, <1>2 DEF FinishInv, FinishSteps, LockedSteps
<1>5. PICK done \in Finished : job' = [job EXCEPT ![s][g] = done]
  BY <1>2 DEF FinishCommit, Outcome, Finished
<1>6. /\ cur' = cur
      /\ masterLock' = [masterLock EXCEPT ![s] = Nobody]
      /\ pc' = [pc EXCEPT ![p] = AfterFinish(p)]
      /\ AfterFinish(p) \in {"idle", "done"}
      /\ pc[p] = "last" => finalizers' = [finalizers EXCEPT ![s] = @ + 1]
      /\ pc[p] = "notlast" => finalizers' = finalizers
  BY <1>2 DEF FinishCommit, Goto, AfterFinish
<1>7. /\ \A s2 \in Scans : s2 # s => job'[s2] = job[s2]
      /\ \A f \in Folders : f # g => job'[s][f] = job[s][f]
      /\ job'[s][g] = done
  BY <1>2, <1>3, <1>5
<1>8. {f \in Folders : job'[s][f] \in Unfinished} = UnfinishedFolders(s) \ {g}
  BY <1>2, <1>7 DEF UnfinishedFolders, Unfinished, Finished
<1>9. FinishInv'
  <2> SUFFICES ASSUME NEW q \in Procs, pc'[q] \in FinishSteps
               PROVE  /\ (cur[q].folder \in UnfinishedFolders(cur[q].scan))'
                      /\ pc'[q] \in LockedSteps => (masterLock[cur[q].scan] = q)'
                      /\ pc'[q] = "last" => (UnfinishedFolders(cur[q].scan) \subseteq {cur[q].folder})'
                      /\ pc'[q] = "notlast" => ~(UnfinishedFolders(cur[q].scan) \subseteq {cur[q].folder})'
    BY DEF FinishInv, LockedSteps, FinishSteps
  <2>1. q # p /\ pc'[q] = pc[q]
    BY <1>3, <1>6 DEF FinishSteps
  <2>2. /\ Busy(q) /\ cur[q] \in queue /\ cur[q].kind = "process_audio_folder"
        /\ cur[q].scan \in Scans /\ cur[q].folder \in Folders
    BY <2>1, FinishRows DEF FolderSteps
  <2>3. cur[q].scan = s => cur[q].folder # g
    BY <1>2, <2>1, <2>2 DEF QueueInv, RowsInv, UniqueFolderRows, HoldInv, HeldRows
  <2>4. pc[q] \in LockedSteps => cur[q].scan # s
    BY <1>4, <2>1 DEF FinishInv
  <2>5. CASE cur[q].scan = s
    <3>1. (UnfinishedFolders(cur[q].scan))' = UnfinishedFolders(s) \ {g}
      BY <1>6, <1>8, <2>5 DEF UnfinishedFolders
    <3>2. cur[q].folder \in UnfinishedFolders(s)
      BY <2>1, <2>5 DEF FinishInv
    <3>3. pc'[q] \notin LockedSteps
      BY <2>1, <2>4, <2>5
    <3> QED BY <1>6, <2>3, <2>5, <3>1, <3>2, <3>3 DEF LockedSteps
  <2>6. CASE cur[q].scan # s
    <3>1. (UnfinishedFolders(cur[q].scan))' = UnfinishedFolders(cur[q].scan)
      BY <1>6, <1>7, <2>2, <2>6 DEF UnfinishedFolders
    <3>2. masterLock'[cur[q].scan] = masterLock[cur[q].scan]
      BY <1>3, <1>6, <2>2, <2>6
    <3> QED BY <1>6, <2>1, <3>1, <3>2 DEF FinishInv
  <2> QED BY <2>5, <2>6
<1>10. ExactlyOneFinalizer'
  <2>1. UnfinishedFolders(s)' = UnfinishedFolders(s) \ {g}
    BY <1>8 DEF UnfinishedFolders
  <2>2. Dispatched(s)'
    BY <1>2, <1>7 DEF Dispatched, Finished
  <2>3. finalizers[s] = 0
    BY <1>2, <1>4 DEF ExactlyOneFinalizer
  <2>4. finalizers'[s] = IF pc[p] = "last" THEN 1 ELSE 0
    BY <1>1, <1>2, <1>3, <1>6, <2>3
  <2>5. UnfinishedFolders(s)' = {} <=> pc[p] = "last"
    BY <1>1, <1>4, <2>1
  <2> SUFFICES ASSUME NEW s2 \in Scans
               PROVE  finalizers'[s2] = IF Dispatched(s2)' /\ UnfinishedFolders(s2)' = {} THEN 1 ELSE 0
    BY DEF ExactlyOneFinalizer
  <2>6. CASE s2 = s
    BY <2>2, <2>4, <2>5, <2>6
  <2>7. CASE s2 # s
    <3>1. finalizers'[s2] = finalizers[s2]
      BY <1>1, <1>3, <1>6, <2>7
    <3>2. UnfinishedFolders(s2)' = UnfinishedFolders(s2) /\ (Dispatched(s2)' <=> Dispatched(s2))
      BY <1>7, <2>7 DEF UnfinishedFolders, Dispatched
    <3> QED BY <3>1, <3>2 DEF ExactlyOneFinalizer
  <2> QED BY <2>6, <2>7
<1> QED BY <1>9, <1>10

LEMMA FinishStep ==
    TypeInv /\ QueueInv /\ FinishInv /\ ExactlyOneFinalizer /\ [Next]_vars
        => FinishInv' /\ ExactlyOneFinalizer'
<1> SUFFICES ASSUME TypeInv, QueueInv, FinishInv, ExactlyOneFinalizer, [Next]_vars
             PROVE  FinishInv' /\ ExactlyOneFinalizer'
  OBVIOUS
<1> USE DEF queueVars, scanVars, lockVars, callerVars, fetchVars, procVars, serviceVars, Goto
<1>t. /\ cur \in [Procs -> Row]
      /\ pc \in [Procs -> ProcSteps]
      /\ job \in [Scans -> [Folders -> JobStatus]]
      /\ masterLock \in [Scans -> Procs \cup {Nobody}]
  BY DEF TypeInv, RestOK, RowOK
\* A process that moves outside _finish_folder, the jobs untouched.
<1>m. ASSUME NEW p \in Procs, NEW step, step \notin FinishSteps,
             pc' = [pc EXCEPT ![p] = step], \A q \in Procs : q # p => cur'[q] = cur[q],
             \/ masterLock' = masterLock
             \/ masterLock' = [s \in Scans |-> IF masterLock[s] = p THEN Nobody ELSE masterLock[s]],
             job' = job, finalizers' = finalizers
      PROVE  FinishInv' /\ ExactlyOneFinalizer'
  <2>1. JobsFrame
    BY <1>m DEF JobsFrame, UnfinishedFolders, Dispatched
  <2>2. ASSUME NEW q \in Procs, pc'[q] \in FinishSteps
        PROVE  /\ pc'[q] = pc[q] /\ cur'[q] = cur[q]
               /\ pc'[q] \in LockedSteps => masterLock'[cur[q].scan] = masterLock[cur[q].scan]
    <3>1. q # p /\ pc'[q] = pc[q] /\ cur'[q] = cur[q]
      BY <1>t, <1>m, <2>2
    <3>2. pc[q] \in LockedSteps => cur[q].scan \in Scans /\ masterLock[cur[q].scan] = q
      BY FinishRows DEF FinishInv, FolderSteps, FinishSteps, LockedSteps
    <3> QED BY <1>m, <3>1, <3>2
  <2>3. FinishFrame
    BY <2>2 DEF FinishFrame, FinishSteps, LockedSteps
  <2> QED BY <1>m, <2>1, <2>3, FinishKept
\* Nobody moves.
<1>n. ASSUME UNCHANGED <<pc, cur, masterLock, job, finalizers>>
      PROVE  FinishInv' /\ ExactlyOneFinalizer'
  BY <1>n, FinishKept DEF JobsFrame, FinishFrame, UnfinishedFolders, Dispatched
<1>1. ASSUME NEW c \in Callers, QueueLibraryScan(c)
      PROVE  FinishInv' /\ ExactlyOneFinalizer'
  BY <1>1, <1>n
     DEF QueueLibraryScan, LockScanCreation, ReturnActiveScan, NoActiveScan, CreateScan
<1>2. ASSUME NEW w \in Workers, Claim(w)
      PROVE  FinishInv' /\ ExactlyOneFinalizer'
  <2>1. PICK r \in queue : /\ cur' = [cur EXCEPT ![w] = Claimed(r)]
                            /\ pc' = [pc EXCEPT ![w] = FirstStep[r.kind]]
    BY <1>2 DEF Claim
  <2>2. r.kind \in TaskKinds
    BY RowFields DEF TypeInv, RowOK
  <2>3. FirstStep[r.kind] \notin FinishSteps
    BY <2>2 DEF FirstStep, TaskKinds, FinishSteps
  <2>4. w \in Procs /\ UNCHANGED <<masterLock, job, finalizers>>
    BY <1>2 DEF Claim, Procs
  <2>5. \A q \in Procs : q # w => cur'[q] = cur[q]
    BY <1>t, <2>1
  <2> QED BY <1>m, <2>1, <2>3, <2>4, <2>5
<1>3. ASSUME NEW w \in Workers, TriggerRerun(w) \/ TriggerWithoutFolders(w)
      PROVE  FinishInv' /\ ExactlyOneFinalizer'
  BY <1>3, <1>m DEF TriggerRerun, TriggerWithoutFolders, Procs, FinishSteps
<1>4. ASSUME NEW w \in Workers, ProcessSkip(w) \/ ImportFolder(w)
      PROVE  FinishInv' /\ ExactlyOneFinalizer'
  BY <1>4, <1>m DEF ProcessSkip, ImportFolder, Procs, FinishSteps
<1>5. ASSUME NEW w \in Workers, ProcessBegin(w)
      PROVE  FinishInv' /\ ExactlyOneFinalizer'
  <2>1. PICK s \in Scans, f \in Folders :
          /\ s = cur[w].scan /\ f = cur[w].folder
          /\ job[s][f] # "none"
    BY <1>5, FinishRows DEF ProcessBegin, FolderSteps, Procs
  <2>2. job[s][f] \in Unfinished /\ job' = [job EXCEPT ![s][f] = "running"]
    BY <1>5, <1>t, <2>1 DEF ProcessBegin, JobStatus, Finished
  <2>3. \A s2 \in Scans : \A f2 \in Folders :
          /\ job'[s2][f2] \in Unfinished <=> job[s2][f2] \in Unfinished
          /\ job'[s2][f2] # "none" <=> job[s2][f2] # "none"
    BY <1>t, <2>1, <2>2 DEF Unfinished
  <2>4. JobsFrame
    BY <2>3 DEF JobsFrame, UnfinishedFolders, Dispatched
  <2>5. FinishFrame
    BY <1>5, <1>t DEF ProcessBegin, FinishFrame, FinishSteps, LockedSteps
  <2> QED BY <1>5, <2>4, <2>5, FinishKept DEF ProcessBegin
<1>6. ASSUME NEW p \in Procs, FinishMark(p)
      PROVE  FinishInv' /\ ExactlyOneFinalizer'
  <2>1. PICK s \in Scans, f \in Folders : s = cur[p].scan /\ f = cur[p].folder
    BY <1>6, FinishRows DEF FinishMark, FolderSteps
  <2>2. pc' = [pc EXCEPT ![p] = IF f \in UnfinishedFolders(s) THEN "lock" ELSE AfterFinish(p)]
    BY <1>6, <2>1 DEF FinishMark, UnfinishedFolders
  <2>3. UNCHANGED <<cur, masterLock, job, finalizers>> /\ AfterFinish(p) \in {"idle", "done"}
    BY <1>6 DEF FinishMark, AfterFinish
  <2>4. FinishInv'
    BY <1>t, <2>1, <2>2, <2>3 DEF FinishInv, FinishSteps, LockedSteps, UnfinishedFolders
  <2> QED BY <2>3, <2>4 DEF ExactlyOneFinalizer, UnfinishedFolders, Dispatched
<1>7. ASSUME NEW p \in Procs, FinishLock(p)
      PROVE  FinishInv' /\ ExactlyOneFinalizer'
  <2>1. PICK s \in Scans : s = cur[p].scan
    BY <1>7, FinishRows DEF FinishLock, FolderSteps, FinishSteps
  <2>2. /\ masterLock[s] = Nobody /\ masterLock' = [masterLock EXCEPT ![s] = p]
        /\ pc[p] = "lock" /\ pc' = [pc EXCEPT ![p] = "count"]
        /\ UNCHANGED <<cur, job, finalizers>>
    BY <1>7, <2>1 DEF FinishLock
  <2>3. \A q \in Procs : pc[q] \in LockedSteps => cur[q].scan # s /\ cur[q].scan \in Scans
    <3> SUFFICES ASSUME NEW q \in Procs, pc[q] \in LockedSteps
                 PROVE  cur[q].scan # s /\ cur[q].scan \in Scans
      OBVIOUS
    <3>1. masterLock[cur[q].scan] = q /\ cur[q].scan \in Scans
      BY FinishRows DEF FinishInv, FolderSteps, FinishSteps, LockedSteps
    <3> QED BY <2>2, <3>1, Constants
  <2>4. FinishInv'
    BY <1>t, <2>1, <2>2, <2>3 DEF FinishInv, FinishSteps, LockedSteps, UnfinishedFolders
  <2> QED BY <2>2, <2>4 DEF ExactlyOneFinalizer, UnfinishedFolders, Dispatched
<1>8. ASSUME NEW p \in Procs, FinishCount(p)
      PROVE  FinishInv' /\ ExactlyOneFinalizer'
  <2>1. UNCHANGED <<cur, masterLock, job, finalizers>>
    BY <1>8 DEF FinishCount
  <2>2. FinishInv'
    BY <1>8, <1>t, <2>1 DEF FinishCount, FinishInv, FinishSteps, LockedSteps, UnfinishedFolders
  <2> QED BY <2>1, <2>2 DEF ExactlyOneFinalizer, UnfinishedFolders, Dispatched
<1>9. ASSUME NEW w \in Workers,
             FinalizeScan(w) \/ RebuildAnalysis(w) \/ FetchArtistGenres(w) \/ ScoreGenres(w)
      PROVE  FinishInv' /\ ExactlyOneFinalizer'
  BY <1>9, <1>m
     DEF FinalizeScan, FinalizeFailed, Prune, PruneRaises, QueueRebuild, RebuildAnalysis,
                    FetchArtistGenres, FetchSkip, FetchBegin, FetchArtists, FetchUnlock,
                    ScoreGenres, Procs, FinishSteps
<1>10. ASSUME NEW w \in Workers, Complete(w) \/ RetryLater(w)
       PROVE  FinishInv' /\ ExactlyOneFinalizer'
  BY <1>10, <1>m DEF Complete, RetryLater, Procs, FinishSteps
<1>11. ASSUME NEW p \in Procs, NEW r, GiveUp(p, r)
       PROVE  FinishInv' /\ ExactlyOneFinalizer'
  <2>1. \A q \in Procs : q # p => cur'[q] = cur[q]
    BY <1>11, <1>t DEF GiveUp
  <2>2. UNCHANGED <<masterLock, job, finalizers>>
    BY <1>11 DEF GiveUp
  <2>3. PICK step \in {"mark", "idle"} : pc' = [pc EXCEPT ![p] = step]
    BY <1>11 DEF GiveUp
  <2>4. step \notin FinishSteps
    BY <2>3 DEF FinishSteps
  <2> QED BY <1>m, <2>1, <2>2, <2>3, <2>4
<1>12. ASSUME NEW w \in Workers, OutOfAttempts(w)
       PROVE  FinishInv' /\ ExactlyOneFinalizer'
  BY <1>11, <1>12 DEF OutOfAttempts, Procs
<1>13. ASSUME NEW w \in Workers, Raise(w) \/ CrashWorker(w)
       PROVE  FinishInv' /\ ExactlyOneFinalizer'
  BY <1>13, <1>m DEF Raise, CrashWorker, DropLocks, Procs, FinishSteps
<1>14. CASE KillService \/ Restart
  <2>1. \A q \in Procs : pc'[q] \notin FinishSteps
    BY <1>14 DEF KillService, Restart, FinishSteps
  <2>2. UNCHANGED <<job, finalizers>>
    BY <1>14 DEF KillService, Restart
  <2>3. FinishInv'
    BY <2>1 DEF FinishInv, FinishSteps, LockedSteps
  <2> QED BY <2>2, <2>3 DEF ExactlyOneFinalizer, UnfinishedFolders, Dispatched
<1>15. CASE RequeueGiveUp
  BY <1>11, <1>15 DEF RequeueGiveUp, Procs
<1>16. CASE DelayEnds \/ RequeueRest \/ UNCHANGED vars
  BY <1>16, <1>n DEF DelayEnds, RequeueRest, vars
<1> QED
  BY <1>1, <1>2, <1>3, <1>4, <1>5, <1>6, <1>7, <1>8, <1>9, <1>10, <1>12, <1>13, <1>14, <1>15,
     <1>16,
     FinishDispatch, FinishCommitted
     DEF Next, WorkerStep, Acknowledge, ServiceStep, TriggerLibraryScan, ProcessAudioFolder, FinishFolder

-----------------------------------------------------------------------------
(* The prune.                                                              *)

LEMMA FinalizersGrow ==
    ASSUME TypeInv, [Next]_vars
    PROVE  \A s \in Scans : finalizers[s] > 0 => finalizers'[s] > 0
<1> USE DEF serviceVars, queueVars, scanVars, lockVars, callerVars, fetchVars, procVars
<1>1. finalizers \in [Scans -> Nat]
  BY DEF TypeInv, RestOK
<1>2. ASSUME NEW p \in Procs, FinishFolder(p)
      PROVE  \A s \in Scans : finalizers[s] > 0 => finalizers'[s] > 0
  <2>1. \/ finalizers' = finalizers
        \/ finalizers' = [finalizers EXCEPT ![cur[p].scan] = @ + 1]
    BY <1>2 DEF FinishFolder, FinishMark, FinishLock, FinishCount, FinishCommit
  <2> QED BY <1>1, <2>1
<1>3. ASSUME NEW c \in Callers, QueueLibraryScan(c) PROVE finalizers' = finalizers
  BY <1>3 DEF QueueLibraryScan, LockScanCreation, ReturnActiveScan, NoActiveScan, CreateScan
<1>4. ASSUME NEW w \in Workers, WorkerStep(w) PROVE finalizers' = finalizers
  <2>1. CASE Claim(w) \/ TriggerLibraryScan(w) \/ ProcessAudioFolder(w)
    BY <2>1 DEF Claim, TriggerLibraryScan, TriggerRerun, TriggerWithoutFolders, TriggerDispatch,
                ProcessAudioFolder, ProcessSkip, ProcessBegin, ImportFolder
  <2>2. CASE FinalizeScan(w) \/ RebuildAnalysis(w) \/ FetchArtistGenres(w) \/ ScoreGenres(w)
    BY <2>2 DEF FinalizeScan, FinalizeFailed, Prune, PruneRaises, QueueRebuild, RebuildAnalysis,
                FetchArtistGenres, FetchSkip, FetchBegin, FetchArtists, FetchUnlock, ScoreGenres
  <2>3. CASE Acknowledge(w)
    BY <2>3 DEF Acknowledge, Complete, RetryLater, OutOfAttempts, GiveUp
  <2> QED BY <1>4, <2>1, <2>2, <2>3 DEF WorkerStep
<1>5. ASSUME NEW w \in Workers, Raise(w) \/ CrashWorker(w) PROVE finalizers' = finalizers
  BY <1>5 DEF Raise, CrashWorker
<1>6. CASE DelayEnds \/ KillService \/ ServiceStep \/ UNCHANGED vars
  BY <1>6
     DEF DelayEnds, KillService, ServiceStep, Restart, RequeueGiveUp, RequeueRest, GiveUp, vars
<1> QED BY <1>2, <1>3, <1>4, <1>5, <1>6 DEF Next

LEMMA FinalizerRowsStep ==
    ASSUME TypeInv, QueueInv, FinalizerRows, [Next]_vars
    PROVE  FinalizerRows'
<1> USE DEF serviceVars, queueVars, scanVars, lockVars, callerVars, fetchVars, procVars
<1>t. \A r \in queue : r \in Row /\ (r.kind = "finalize_scan" => r.scan \in Scans)
  BY DEF TypeInv, RowOK, QueueInv, RowsInv, RowsMatchJobs
<1>h. \A p \in Procs : Busy(p) => cur[p] \in queue
  BY DEF QueueInv, HoldInv, HeldRows
\* Every finalize_scan row is an old one, perhaps rewritten.
<1>o. ASSUME \A r \in queue' : r.kind = "finalize_scan" =>
                \E old \in queue : old.kind = r.kind /\ old.scan = r.scan
      PROVE  FinalizerRows'
  BY <1>o, <1>t, FinalizersGrow DEF FinalizerRows
\* One row is rewritten in place.
<1>w. ASSUME NEW r \in queue, NEW new, SameTask(new, r), queue' = (queue \ {r}) \cup {new}
      PROVE  FinalizerRows'
  BY <1>w, <1>o DEF SameTask
\* Another kind of task is added.
<1>e. ASSUME NEW kind \in TaskKinds \ {"finalize_scan"}, NEW s, Enqueue(kind, s)
      PROVE  FinalizerRows'
  BY <1>e, <1>o DEF Enqueue, NewRow
<1>k. ASSUME queue' \subseteq queue PROVE FinalizerRows'
  BY <1>k, <1>o
<1>g. ASSUME NEW p \in Procs, NEW r \in queue, GiveUp(p, r) PROVE FinalizerRows'
  <2>1. SameTask(WithStatus(r, "failed"), r)
    BY <1>t, WithStatusType DEF SameTask, RowStatus
  <2> QED BY <1>g, <1>w, <2>1 DEF GiveUp
<1>1. ASSUME NEW c \in Callers, QueueLibraryScan(c) PROVE FinalizerRows'
  BY <1>1, <1>e, <1>k
     DEF QueueLibraryScan, LockScanCreation, ReturnActiveScan, NoActiveScan, CreateScan,
         TaskKinds
<1>2. ASSUME NEW w \in Workers, Claim(w) PROVE FinalizerRows'
  <2>1. PICK r \in queue : queue' = (queue \ {r}) \cup {Claimed(r)}
    BY <1>2 DEF Claim
  <2>2. SameTask(Claimed(r), r)
    BY <1>t, ClaimedType DEF SameTask
  <2> QED BY <1>w, <2>1, <2>2
<1>3. ASSUME NEW w \in Workers, TriggerLibraryScan(w) PROVE FinalizerRows'
  <2>1. CASE queue' = queue
    BY <1>k, <2>1
  <2>2. CASE TriggerDispatch(w)
    <3>1. PICK found \in SUBSET Folders :
            queue' = queue \cup {NewRow(nextId + f, "process_audio_folder", cur[w].scan, f) : f \in found}
      BY <2>2 DEF TriggerDispatch
    <3>2. \A f \in found :
            NewRow(nextId + f, "process_audio_folder", cur[w].scan, f).kind = "process_audio_folder"
      BY DEF NewRow
    <3> QED BY <1>o, <3>1, <3>2
  <2> QED BY <1>3, <2>1, <2>2 DEF TriggerLibraryScan, TriggerRerun, TriggerWithoutFolders
<1>4. ASSUME NEW w \in Workers, ProcessAudioFolder(w) PROVE FinalizerRows'
  BY <1>4, <1>k DEF ProcessAudioFolder, ProcessSkip, ProcessBegin, ImportFolder
<1>5. ASSUME NEW p \in Procs, FinishFolder(p) PROVE FinalizerRows'
  <2>1. CASE queue' = queue
    BY <1>k, <2>1
  <2>2. CASE FinishCommit(p) /\ pc[p] = "last"
    <3>1. cur[p].scan \in Scans
      BY <2>2, FinishRows DEF FolderSteps, FinishSteps
    <3>2. PICK s \in Scans : s = cur[p].scan
      BY <3>1
    <3>3. /\ queue' = queue \cup {NewRow(nextId, "finalize_scan", s, NoFolder)}
          /\ finalizers' = [finalizers EXCEPT ![s] = @ + 1]
      BY <2>2, <3>2 DEF FinishCommit, Enqueue
    <3>4. finalizers'[s] > 0
      BY <3>3 DEF TypeInv, RestOK
    <3>5. NewRow(nextId, "finalize_scan", s, NoFolder).scan = s
      BY DEF NewRow
    <3> QED BY <1>t, <3>3, <3>4, <3>5, FinalizersGrow DEF FinalizerRows
  <2> QED
    BY <1>5, <2>1, <2>2
       DEF FinishFolder, FinishMark, FinishLock, FinishCount, FinishCommit
<1>6. ASSUME NEW w \in Workers,
             FinalizeScan(w) \/ RebuildAnalysis(w) \/ FetchArtistGenres(w) \/ ScoreGenres(w)
      PROVE  FinalizerRows'
  BY <1>6, <1>e, <1>k DEF FinalizeScan, FinalizeFailed, Prune, PruneRaises, QueueRebuild,
                          RebuildAnalysis, FetchArtistGenres, FetchSkip, FetchBegin,
                          FetchArtists, FetchUnlock, ScoreGenres, TaskKinds
<1>7. ASSUME NEW w \in Workers, Acknowledge(w) PROVE FinalizerRows'
  <2>1. w \in Procs /\ cur[w] \in queue
    BY <1>7, <1>h DEF Acknowledge, Complete, RetryLater, OutOfAttempts, Busy, BusySteps, Procs
  <2>2. SameTask(WithStatus(cur[w], "delayed"), cur[w])
    BY <1>t, <2>1, WithStatusType DEF SameTask, RowStatus
  <2>3. CASE Complete(w)       BY <2>3, <1>k DEF Complete
  <2>4. CASE RetryLater(w)     BY <2>1, <2>2, <2>4, <1>w DEF RetryLater, Rewrite
  <2>5. CASE OutOfAttempts(w)  BY <2>1, <2>5, <1>g DEF OutOfAttempts
  <2> QED BY <1>7, <2>3, <2>4, <2>5 DEF Acknowledge
<1>8. ASSUME NEW w \in Workers, Raise(w) \/ CrashWorker(w) PROVE FinalizerRows'
  BY <1>8, <1>k DEF Raise, CrashWorker
<1>9. CASE DelayEnds
  <2>1. PICK r \in queue : queue' = (queue \ {r}) \cup {WithStatus(r, "pending")}
    BY <1>9 DEF DelayEnds
  <2>2. SameTask(WithStatus(r, "pending"), r)
    BY <1>t, WithStatusType DEF SameTask, RowStatus
  <2> QED BY <1>w, <2>1, <2>2
<1>10. CASE KillService \/ Restart \/ UNCHANGED vars
  BY <1>10, <1>k DEF KillService, Restart, vars
<1>11. CASE RequeueGiveUp
  BY <1>11, <1>g DEF RequeueGiveUp, Procs
<1>12. CASE RequeueRest
  <2>1. \A new \in queue' : \E r \in queue : new = r \/ new = WithStatus(r, "pending")
    BY <1>12 DEF RequeueRest
  <2>2. \A r \in queue : SameTask(WithStatus(r, "pending"), r)
    BY <1>t, WithStatusType DEF SameTask, RowStatus
  <2> QED BY <1>o, <2>1, <2>2 DEF SameTask
<1> QED BY <1>1, <1>2, <1>3, <1>4, <1>5, <1>6, <1>7, <1>8, <1>9, <1>10, <1>11, <1>12
        DEF Next, WorkerStep, ServiceStep

\* Only the prune leads from "finalize" to "pruned".
LEMMA OnlyPrune ==
    ASSUME TypeInv, [Next]_vars, NEW w \in Workers, pc[w] = "finalize", pc'[w] = "pruned"
    PROVE  Prune(w)
<1> USE DEF Goto, procVars
<1>t. pc \in [Procs -> ProcSteps] /\ w \in Procs
  BY DEF TypeInv, RestOK, Procs
\* A step of one process to another place than "pruned".
<1>m. ASSUME NEW p, NEW step, pc' = [pc EXCEPT ![p] = step], step # "pruned" PROVE FALSE
  BY <1>m, <1>t
<1>n. pc' # pc
  OBVIOUS
<1>1. ASSUME NEW c \in Callers, QueueLibraryScan(c) PROVE FALSE
  BY <1>1, <1>n
     DEF QueueLibraryScan, LockScanCreation, ReturnActiveScan, NoActiveScan, CreateScan
<1>2. ASSUME NEW x \in Workers, Claim(x) PROVE FALSE
  <2>1. PICK r \in queue : pc' = [pc EXCEPT ![x] = FirstStep[r.kind]]
    BY <1>2 DEF Claim
  <2>2. FirstStep[r.kind] # "pruned"
    BY RowFields DEF TypeInv, RowOK, FirstStep, TaskKinds
  <2> QED BY <1>m, <2>1, <2>2
<1>3. ASSUME NEW x \in Workers, TriggerLibraryScan(x) \/ ProcessAudioFolder(x) PROVE FALSE
  <2>1. PICK step \in {"done", "import", "mark"} : pc' = [pc EXCEPT ![x] = step]
    BY <1>3 DEF TriggerLibraryScan, TriggerRerun, TriggerWithoutFolders, TriggerDispatch,
                ProcessAudioFolder, ProcessSkip, ProcessBegin, ImportFolder
  <2> QED BY <1>m, <2>1
<1>4. ASSUME NEW p \in Procs, FinishFolder(p) PROVE FALSE
  <2>1. PICK step \in FinishSteps \cup {"idle", "done"} : pc' = [pc EXCEPT ![p] = step]
    BY <1>4
       DEF FinishFolder, FinishMark, FinishLock, FinishCount, FinishCommit, AfterFinish,
           FinishSteps
  <2> QED BY <1>m, <2>1 DEF FinishSteps
<1>5. ASSUME NEW x \in Workers,
             FinalizeScan(x) \/ RebuildAnalysis(x) \/ FetchArtistGenres(x) \/ ScoreGenres(x)
      PROVE  Prune(w)
  <2>1. CASE Prune(x)
    <3>1. pc' = [pc EXCEPT ![x] = "pruned"]
      BY <2>1 DEF Prune
    <3>2. w = x
      BY <1>t, <3>1
    <3> QED BY <2>1, <3>2
  <2>2. CASE ~Prune(x)
    <3>1. PICK step \in {"done", "raised", "lookup", "unlock"} : pc' = [pc EXCEPT ![x] = step]
      BY <1>5, <2>2
         DEF FinalizeScan, FinalizeFailed, PruneRaises, QueueRebuild, RebuildAnalysis,
                        FetchArtistGenres, FetchSkip, FetchBegin, FetchArtists, FetchUnlock,
                        ScoreGenres
    <3> QED BY <1>m, <3>1
  <2> QED BY <2>1, <2>2
<1>6. ASSUME NEW p \in Procs, NEW r, GiveUp(p, r) PROVE FALSE
  <2>1. PICK step \in {"mark", "idle"} : pc' = [pc EXCEPT ![p] = step]
    BY <1>6 DEF GiveUp
  <2> QED BY <1>m, <2>1
<1>7. ASSUME NEW x \in Workers, Acknowledge(x) \/ Raise(x) \/ CrashWorker(x) PROVE FALSE
  <2>1. CASE OutOfAttempts(x)
    BY <1>6, <2>1 DEF OutOfAttempts, Procs
  <2>2. CASE ~OutOfAttempts(x)
    <3>1. PICK step \in {"idle", "raised", "dead"} : pc' = [pc EXCEPT ![x] = step]
      BY <1>7, <2>2 DEF Acknowledge, Complete, RetryLater, Raise, CrashWorker
    <3> QED BY <1>m, <3>1
  <2> QED BY <2>1, <2>2
<1>8. CASE KillService \/ Restart
  BY <1>8, <1>t DEF KillService, Restart
<1>9. CASE DelayEnds \/ RequeueRest \/ UNCHANGED vars
  BY <1>9, <1>n DEF DelayEnds, RequeueRest, vars
<1>10. CASE RequeueGiveUp
  BY <1>10, <1>6 DEF RequeueGiveUp, Procs
<1> QED
  BY <1>1, <1>2, <1>3, <1>4, <1>5, <1>7, <1>8, <1>9, <1>10
     DEF Next, WorkerStep, ServiceStep

-----------------------------------------------------------------------------
(* The theorems.                                                           *)

IInv == TypeInv /\ QueueInv /\ FinishInv /\ ExactlyOneFinalizer /\ FinalizerRows

\* The whole inductive invariant: it is what the next theorems rest on.
THEOREM Inductive == Spec => []IInv
<1>1. Init => FinalizerRows
  BY DEF Init, FinalizerRows
<1>2. Init => IInv
  BY <1>1, TypeInit, QueueInit, FinishInit DEF IInv
<1>3. IInv /\ [Next]_vars => IInv'
  BY TypeStep, QueueStep, FinishStep, FinalizerRowsStep DEF IInv
<1> QED BY <1>2, <1>3, PTL DEF Spec

\* A scan gets one finalize_scan task exactly when the last of its folders is
\* finished, with any number of workers finishing folders at the same time,
\* retrying them, giving up on them or being killed at any step.
THEOREM OneFinalizer == Spec => []ExactlyOneFinalizer
<1>1. IInv => ExactlyOneFinalizer
  BY DEF IInv
<1> QED BY <1>1, Inductive, PTL

\* However tasks are retried or requeued, the library is pruned only when
\* every folder of the scan was imported: not while one is still being
\* imported, and not after one failed (finalize_scan).
THEOREM PrunesLast == Spec => PruneAfterImports
<1>1. IInv /\ [Next]_vars =>
        \A w \in Workers : pc[w] = "finalize" /\ pc'[w] = "pruned" =>
            \A f \in Folders : job[cur[w].scan][f] \in {"none", "completed"}
  <2> SUFFICES ASSUME IInv, [Next]_vars, NEW w \in Workers, pc[w] = "finalize", pc'[w] = "pruned",
                      NEW f \in Folders
               PROVE  job[cur[w].scan][f] \in {"none", "completed"}
    OBVIOUS
  <2>1. Prune(w)
    BY OnlyPrune DEF IInv
  <2>2. cur[w] \in queue /\ cur[w].kind = "finalize_scan"
    BY DEF IInv, QueueInv, HoldInv, HeldRows, StepsMatchRows, Busy, BusySteps, Procs
  <2>3. PICK s \in Scans : s = cur[w].scan
    BY <2>2 DEF IInv, QueueInv, RowsInv, RowsMatchJobs
  <2>4. finalizers[s] > 0
    BY <2>2, <2>3 DEF IInv, FinalizerRows
  <2>5. UnfinishedFolders(s) = {}
    BY <2>4 DEF IInv, ExactlyOneFinalizer
  <2>6. job[s][f] \in JobStatus /\ job[s][f] # "failed"
    BY <2>1, <2>3 DEF Prune, FailedFolders, IInv, TypeInv, RestOK
  <2> QED BY <2>3, <2>5, <2>6 DEF UnfinishedFolders, JobStatus, Unfinished, Finished
<1> QED BY <1>1, Inductive, PTL DEF Spec, PruneAfterImports

=============================================================================
