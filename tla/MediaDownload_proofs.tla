------------------------- MODULE MediaDownload_proofs -------------------------
(* Theorems of MediaDownload, for every set of jobs and workers, every kind *)
(* of failure and every bound.                                              *)
EXTENDS MediaDownload, TLAPS

-----------------------------------------------------------------------------
(* Type correctness.                                                       *)

LEMMA UnchangedTypes ==
  ASSUME TypeOK
  PROVE  /\ UNCHANGED rowVars => RowType'
         /\ UNCHANGED fileVars => FileType'
         /\ UNCHANGED workerVars => WorkerType'
         /\ UNCHANGED queueVars => QueueType'
         /\ UNCHANGED histVars => HistType'
<1> USE DEF TypeOK
<1>1. UNCHANGED rowVars => RowType'
  BY DEF RowType, rowVars
<1>2. UNCHANGED fileVars => FileType'
  BY DEF FileType, fileVars
<1>3. UNCHANGED workerVars => WorkerType'
  BY DEF WorkerType, workerVars
<1>4. UNCHANGED queueVars => QueueType'
  BY DEF QueueType, queueVars
<1>5. UNCHANGED histVars => HistType'
  BY DEF HistType, histVars
<1> QED BY <1>1, <1>2, <1>3, <1>4, <1>5

(* A slot that runs process has a job. *)
LEMMA RunningWorker ==
  ASSUME TypeOK, NEW w \in Workers, pc[w] # "idle"
  PROVE  cur[w] \in Jobs
BY DEF TypeOK, WorkerType

(* A run that goes on keeps its job. *)
LEMMA GoOnTypes ==
  ASSUME TypeOK, NEW w \in Workers, pc[w] # "idle", NEW label \in Labels \ {"idle"},
         Goto(w, label), UNCHANGED cur
  PROVE  WorkerType'
BY DEF TypeOK, WorkerType, Goto

LEMMA ReleaseTypes ==
  ASSUME TypeOK, NEW w \in Workers, Release(w)
  PROVE  WorkerType'
BY DownloadAssumption DEF TypeOK, WorkerType, Release, Goto, Labels

LEMMA FaultType ==
  ASSUME TypeOK, NEW kind, Fault(kind)
  PROVE  faults' \in Nat
BY DEF TypeOK, Fault

LEMMA SettleTypes ==
  ASSUME TypeOK, NEW w, NEW j \in Jobs, NEW made \in Nat,
         NEW state \in {"delayed", "completed", "failed"}, Settle(w, j, state, made)
  PROVE  QueueType'
<1>1. CASE lock[j] = w
  BY <1>1 DEF TypeOK, QueueType, Settle
<1>2. CASE lock[j] # w
  BY <1>2, UnchangedTypes DEF Settle
<1> QED BY <1>1, <1>2

LEMMA JobStepTypes ==
  ASSUME TypeOK, NEW j \in Jobs
  PROVE  InsertAndQueue(j) \/ CommitMessage(j) \/ RollBack(j) \/ BackoffElapsed(j)
           \/ RecoverOrphan(j) \/ LockExpires(j) \/ RetryFailedJob(j) => TypeOK'
<1> USE UnchangedTypes DEF TypeOK
<1>1. CASE InsertAndQueue(j)
  <2>1. RowType'
    BY <1>1 DEF RowType, InsertAndQueue
  <2>2. QueueType'
    BY <1>1 DEF QueueType, InsertAndQueue, Add
  <2> QED BY <1>1, <2>1, <2>2 DEF InsertAndQueue
<1>2. CASE CommitMessage(j)
  <2>1. RowType'
    BY <1>2 DEF RowType, CommitMessage
  <2> QED BY <1>2, <2>1 DEF CommitMessage
<1>3. CASE RollBack(j)
  <2>1. RowType'
    BY <1>3 DEF RowType, RollBack
  <2> QED BY <1>3, <2>1, FaultType DEF RollBack
<1>4. CASE BackoffElapsed(j) \/ RetryFailedJob(j)
  <2>1. QueueType'
    BY <1>4 DEF QueueType, BackoffElapsed, BackoffOver, RetryFailedJob, Retry
  <2> QED BY <1>4, <2>1 DEF BackoffElapsed, RetryFailedJob
<1>5. CASE RecoverOrphan(j) \/ LockExpires(j)
  <2>1. PutBackOrFail(j) /\ faults' \in Nat
    BY <1>5, FaultType DEF RecoverOrphan, LockExpires
  <2>2. QueueType'
    BY <2>1 DEF QueueType, PutBackOrFail, PutBack
  <2>3. HistType'
    BY <1>5, <2>1 DEF HistType, RecoverOrphan, LockExpires, PutBackOrFail
  <2> QED BY <2>1, <2>2, <2>3 DEF PutBackOrFail
<1> QED BY <1>1, <1>2, <1>3, <1>4, <1>5

LEMMA WorkerStepTypes ==
  ASSUME TypeOK, RunSeesMessage, NEW w \in Workers
  PROVE  TakeDownload(w) \/ WorkerStep(w) \/ Crash(w) => TypeOK'
<1> USE UnchangedTypes DEF TypeOK
<1>1. CASE TakeDownload(w)
  <2>1. QueueType'
    BY <1>1 DEF QueueType, TakeDownload, Take
  <2>2. WorkerType'
    BY <1>1, DownloadAssumption DEF WorkerType, TakeDownload, Goto, Labels
  <2> QED BY <1>1, <2>1, <2>2 DEF TakeDownload
<1>2. CASE ResolveToken(w) \/ GetMediaUrl(w) \/ GetMediaStream(w)
  <2>1. WorkerType'
    BY <1>2, GoOnTypes DEF ResolveToken, GetMediaUrl, GetMediaStream, Labels
  <2>2. faults' \in Nat
    BY <1>2, FaultType DEF ResolveToken, GetMediaUrl, GetMediaStream
  <2> QED BY <1>2, <2>1, <2>2 DEF ResolveToken, GetMediaUrl, GetMediaStream
<1>3. CASE MarkDownloading(w)
  <2>1. cur[w] \in Jobs
    BY <1>3, RunningWorker DEF MarkDownloading
  <2>2. WorkerType'
    BY <1>3, GoOnTypes DEF MarkDownloading, Labels
  <2>3. RowType'
    BY <1>3, <2>1 DEF RowType, MarkDownloading
  <2>4. faults' \in Nat
    BY <1>3, FaultType DEF MarkDownloading
  <2>5. HistType'
    BY <1>3 DEF HistType, MarkDownloading
  <2> QED BY <1>3, <2>2, <2>3, <2>4, <2>5 DEF MarkDownloading
<1>4. CASE OpenFile(w) \/ SaveFile(w)
  <2>1. WorkerType'
    BY <1>4, GoOnTypes DEF OpenFile, SaveFile, Labels
  <2>2. FileType'
    BY <1>4 DEF FileType, OpenFile, SaveFile
  <2>3. faults' \in Nat
    BY <1>4, FaultType DEF OpenFile, SaveFile
  <2> QED BY <1>4, <2>1, <2>2, <2>3 DEF OpenFile, SaveFile
<1>5. CASE MakeAvailable(w)
  <2>1. cur[w] \in Jobs
    BY <1>5, RunningWorker DEF MakeAvailable
  <2>2. WorkerType'
    BY <1>5, GoOnTypes DEF MakeAvailable, Labels
  <2>3. RowType'
    <3>1. tx[cur[w]] = "committed"
      BY <1>5 DEF MakeAvailable, RunSeesMessage
    <3>2. UNCHANGED tx /\ announced' \in [Jobs -> Nat]
      <4>1. announced' = [announced EXCEPT ![cur[w]] = @ + 1] \/ UNCHANGED announced
        BY <1>5 DEF MakeAvailable
      <4>2. announced[cur[w]] + 1 \in Nat
        <5>1. announced \in [Jobs -> Nat]
          BY DEF RowType
        <5> QED BY ONLY <2>1, <5>1
      <4>3. announced' \in [Jobs -> Nat]
        BY <2>1, <4>1, <4>2 DEF RowType
      <4> QED BY <1>5, <4>3 DEF MakeAvailable
    <3>3. media' = [media EXCEPT ![cur[w]] = "AVAILABLE"] \/ UNCHANGED media
      BY <1>5 DEF MakeAvailable
    <3> QED BY <2>1, <3>1, <3>2, <3>3 DEF RowType
  <2>4. faults' \in Nat
    BY <1>5, FaultType DEF MakeAvailable
  <2> QED BY <1>5, <2>2, <2>3, <2>4 DEF MakeAvailable
<1>6. CASE MarkFailed(w)
  <2>1. cur[w] \in Jobs
    BY <1>6, RunningWorker DEF MarkFailed
  <2>2. WorkerType'
    BY <1>6, GoOnTypes DEF MarkFailed, CatchEnds, Labels
  <2>3. RowType'
    BY <1>6, <2>1 DEF RowType, MarkFailed
  <2>4. faults' \in Nat
    BY <1>6, FaultType DEF MarkFailed
  <2>5. HistType'
    BY <1>6, <2>1 DEF HistType, MarkFailed
  <2> QED BY <1>6, <2>2, <2>3, <2>4, <2>5 DEF MarkFailed
<1>7. CASE JobCompleted(w) \/ JobThrew(w)
  <2>1. cur[w] \in Jobs
    BY <1>7, RunningWorker DEF JobCompleted, JobThrew
  <2>2. attemptsMade[cur[w]] \in Nat /\ attemptsMade[cur[w]] + 1 \in Nat
    BY <2>1 DEF QueueType
  <2>3. QueueType'
    BY <1>7, <2>1, <2>2, SettleTypes DEF JobCompleted, JobThrew, Complete, Threw
  <2>4. WorkerType'
    BY <1>7, ReleaseTypes DEF JobCompleted, JobThrew
  <2> QED BY <1>7, <2>3, <2>4 DEF JobCompleted, JobThrew
<1>8. CASE Crash(w)
  <2>1. QueueType'
    BY <1>8 DEF QueueType, Crash, DropLocks
  <2> QED BY <1>8, <2>1, ReleaseTypes, FaultType DEF Crash
<1> QED BY <1>1, <1>2, <1>3, <1>4, <1>5, <1>6, <1>7, <1>8 DEF WorkerStep

(* A run gets past its first update only when it sees the message, and a    *)
(* committed message stays.                                                 *)
LEMMA SeesMessageStep ==
  ASSUME TypeOK, RunSeesMessage, [Next]_vars
  PROVE  RunSeesMessage'
<1> USE DEF RunSeesMessage
<1>1. CASE UNCHANGED <<tx, pc, cur>>
  BY <1>1
<1>2. ASSUME NEW j \in Jobs, InsertAndQueue(j) \/ CommitMessage(j) \/ RollBack(j)
      PROVE  RunSeesMessage'
  <2>1. UNCHANGED <<pc, cur>> /\ \A i \in Jobs : tx[i] = "committed" => tx'[i] = "committed"
    BY <1>2 DEF InsertAndQueue, CommitMessage, RollBack, workerVars, TypeOK, RowType
  <2> QED BY <2>1, RunningWorker
<1>3. ASSUME NEW w \in Workers, TakeDownload(w) \/ Crash(w)
      PROVE  RunSeesMessage'
  BY <1>3 DEF TakeDownload, Crash, Release, Goto, rowVars, TypeOK, WorkerType
<1>4. ASSUME NEW w \in Workers, WorkerStep(w)
      PROVE  RunSeesMessage'
  <2>1. UNCHANGED tx
    BY <1>4 DEF WorkerStep, ResolveToken, MarkDownloading, GetMediaUrl, GetMediaStream, OpenFile,
       SaveFile, MakeAvailable, MarkFailed, JobCompleted, JobThrew, rowVars
  <2>2. CASE MarkDownloading(w)
    <3>1. cur[w] \in Jobs
      BY <2>2, RunningWorker DEF MarkDownloading
    <3>2. media[cur[w]] # "none" => tx[cur[w]] = "committed"
      BY <3>1 DEF TypeOK, RowType
    <3>3. CASE Goto(w, "catch")
      BY <2>1, <2>2, <3>3 DEF MarkDownloading, Goto, TypeOK, WorkerType
    <3>4. CASE Goto(w, "url") /\ media[cur[w]] # "none"
      BY <2>1, <2>2, <3>2, <3>4 DEF MarkDownloading, Goto, TypeOK, WorkerType
    <3> QED BY <2>2, <3>3, <3>4 DEF MarkDownloading
  <2>3. CASE ResolveToken(w) \/ GetMediaUrl(w) \/ GetMediaStream(w) \/ OpenFile(w)
    BY <2>1, <2>3 DEF ResolveToken, GetMediaUrl, GetMediaStream, OpenFile, Goto, TypeOK, WorkerType
  <2>4. CASE SaveFile(w) \/ MakeAvailable(w)
    BY <2>1, <2>4 DEF SaveFile, MakeAvailable, Goto, TypeOK, WorkerType
  <2>5. CASE MarkFailed(w) \/ JobCompleted(w) \/ JobThrew(w)
    BY <2>1, <2>5 DEF MarkFailed, CatchEnds, JobCompleted, JobThrew, Release, Goto, TypeOK, WorkerType
  <2> QED BY <1>4, <2>2, <2>3, <2>4, <2>5 DEF WorkerStep
<1>5. ASSUME NEW j \in Jobs,
             BackoffElapsed(j) \/ RecoverOrphan(j) \/ LockExpires(j) \/ RetryFailedJob(j)
      PROVE  UNCHANGED <<tx, pc, cur>>
  BY <1>5 DEF BackoffElapsed, RecoverOrphan, LockExpires, PutBackOrFail, RetryFailedJob,
     rowVars, workerVars
<1>6. UNCHANGED vars => UNCHANGED <<tx, pc, cur>>
  BY DEF vars, rowVars, workerVars
<1> QED BY <1>1, <1>2, <1>3, <1>4, <1>5, <1>6 DEF Next

(* The variables of MediaDownload keep their types: a slot has a job while  *)
(* process runs, and a message has a status exactly once it is committed    *)
(* (no run writes to the row of a message that is not).                     *)
LEMMA TypeStep ==
  ASSUME TypeOK, RunSeesMessage, [Next]_vars
  PROVE  TypeOK'
<1>1. UNCHANGED vars => TypeOK'
  BY UnchangedTypes DEF TypeOK, vars
<1> QED BY <1>1, JobStepTypes, WorkerStepTypes DEF Next

-----------------------------------------------------------------------------
(* One run per job, until a lock expires under its holder.                  *)

LEMMA OneRun ==
  ASSUME TypeOK, RunsAlone, NEW w \in Workers, NEW v \in Workers,
         cur[w] \in Jobs \ overlapped, cur[v] = cur[w]
  PROVE  v = w
BY DEF RunsAlone

(* The steps that change no run. *)
LEMMA RunsKept ==
  ASSUME NEW j \in Jobs,
         \/ InsertAndQueue(j) \/ CommitMessage(j) \/ RollBack(j) \/ BackoffElapsed(j)
         \/ RecoverOrphan(j) \/ LockExpires(j) \/ RetryFailedJob(j)
  PROVE  UNCHANGED <<pc, cur, file, opener>> /\ overlapped \subseteq overlapped'
BY DEF InsertAndQueue, CommitMessage, RollBack, BackoffElapsed, RecoverOrphan, LockExpires,
   PutBackOrFail, RetryFailedJob, workerVars, fileVars, histVars

(* The end of a run in BullMQ. *)
LEMMA SettledJob ==
  ASSUME TypeOK, NEW w \in Workers, NEW j \in Jobs, NEW made, NEW state,
         Settle(w, j, state, made)
  PROVE  /\ \A i \in Jobs : i # j => lock'[i] = lock[i] /\ jobState'[i] = jobState[i]
         /\ jobState'[j] = jobState[j] \/ jobState'[j] = state
<1>1. CASE lock[j] = w
  BY <1>1 DEF Settle, queueVars, TypeOK, QueueType
<1>2. CASE lock[j] # w
  BY <1>2 DEF Settle, queueVars
<1> QED BY <1>1, <1>2

LEMMA RunsAloneStep ==
  ASSUME TypeOK, RunsAlone, [Next]_vars
  PROVE  RunsAlone'
<1> USE DEF RunsAlone
<1>1. CASE UNCHANGED <<cur, queueVars, overlapped>>
  BY <1>1 DEF queueVars
<1>2. ASSUME NEW j \in Jobs, InsertAndQueue(j)
      PROVE  RunsAlone'
  BY <1>2, RunsKept DEF InsertAndQueue, Add, histVars, TypeOK, QueueType
<1>3. ASSUME NEW j \in Jobs, BackoffElapsed(j) \/ RetryFailedJob(j)
      PROVE  RunsAlone'
  BY <1>3, RunsKept DEF BackoffElapsed, BackoffOver, RetryFailedJob, Retry, histVars, TypeOK, QueueType
<1>4. ASSUME NEW j \in Jobs, RecoverOrphan(j) \/ LockExpires(j)
      PROVE  RunsAlone'
  <2>1. \A w \in Workers : cur[w] \in Jobs \ overlapped' => cur[w] # j
    BY <1>4, QueueAssumption DEF RecoverOrphan, LockExpires
  <2>2. \A i \in Jobs : i # j => lock'[i] = lock[i] /\ jobState'[i] = jobState[i]
    BY <1>4 DEF RecoverOrphan, LockExpires, PutBackOrFail, PutBack, TypeOK, QueueType
  <2> QED BY <1>4, <2>1, <2>2, RunsKept
<1>5. ASSUME NEW j \in Jobs, CommitMessage(j) \/ RollBack(j)
      PROVE  UNCHANGED <<cur, queueVars, overlapped>>
  BY <1>5 DEF CommitMessage, RollBack, workerVars, histVars
<1>6. ASSUME NEW w \in Workers, TakeDownload(w)
      PROVE  RunsAlone'
  <2>1. PICK j \in Jobs : Take(w, j) /\ cur' = [cur EXCEPT ![w] = j]
    BY <1>6 DEF TakeDownload
  <2>2. \A v \in Workers : cur[v] \in Jobs \ overlapped => cur[v] # j
    BY <2>1 DEF Take
  <2> QED BY <1>6, <2>1, <2>2 DEF TakeDownload, Take, histVars, TypeOK, QueueType, WorkerType
<1>7. ASSUME NEW w \in Workers, Crash(w)
      PROVE  RunsAlone'
  BY <1>7, DownloadAssumption DEF Crash, Release, DropLocks, histVars, TypeOK, QueueType, WorkerType
<1>8. ASSUME NEW w \in Workers, JobCompleted(w) \/ JobThrew(w)
      PROVE  RunsAlone'
  <2>1. cur[w] \in Jobs
    BY <1>8, RunningWorker DEF JobCompleted, JobThrew
  <2>2. \A i \in Jobs : i # cur[w] => lock'[i] = lock[i] /\ jobState'[i] = jobState[i]
    BY <1>8, <2>1, SettledJob DEF JobCompleted, JobThrew, Complete, Threw
  <2>3. cur' = [cur EXCEPT ![w] = NoJob] /\ UNCHANGED overlapped
    BY <1>8 DEF JobCompleted, JobThrew, Release, histVars
  <2>4. \A v \in Workers : v # w /\ cur[v] \in Jobs \ overlapped => cur[v] # cur[w]
    BY <2>1, OneRun
  <2> QED BY <2>2, <2>3, <2>4, DownloadAssumption DEF TypeOK, WorkerType
<1>9. ASSUME NEW w \in Workers, WorkerStep(w), ~(JobCompleted(w) \/ JobThrew(w))
      PROVE  UNCHANGED <<cur, queueVars, overlapped>>
  BY <1>9 DEF WorkerStep, ResolveToken, MarkDownloading, GetMediaUrl, GetMediaStream, OpenFile,
     SaveFile, MakeAvailable, MarkFailed, histVars
<1>10. UNCHANGED vars => UNCHANGED <<cur, queueVars, overlapped>>
  BY DEF vars, workerVars, histVars
<1> QED BY <1>1, <1>2, <1>3, <1>4, <1>5, <1>6, <1>7, <1>8, <1>9, <1>10 DEF Next

-----------------------------------------------------------------------------
(* What a run has done is still there when it goes on.                      *)

(* RunProgress of one slot. *)
ProgressOf(w) ==
  /\ pc[w] \in {"url", "stream", "open", "save", "commit"} => media[cur[w]] = "DOWNLOADING"
  /\ pc[w] = "save" => opener[cur[w]] = w
  /\ pc[w] = "commit" => file[cur[w]] = "whole"
  /\ pc[w] = "complete" => media[cur[w]] = "AVAILABLE"
  /\ pc[w] \in {"threw", "gave up"} => media[cur[w]] = "FAILED" \/ cur[w] \in silent

(* A step of a run touches what belongs to its job only. *)
LEMMA OwnJobOnly ==
  ASSUME TypeOK, NEW w \in Workers, WorkerStep(w)
  PROVE  /\ \A v \in Workers \ {w} : pc'[v] = pc[v] /\ cur'[v] = cur[v]
         /\ \A j \in Jobs \ {cur[w]} :
              /\ media'[j] = media[j] /\ file'[j] = file[j] /\ opener'[j] = opener[j]
              /\ announced'[j] = announced[j] /\ jobState'[j] = jobState[j]
              /\ j \in silent' <=> j \in silent
         /\ UNCHANGED <<tx, overlapped>>
<1> USE DEF TypeOK, WorkerType, Goto, Release, rowVars, fileVars, histVars
<1>1. CASE ResolveToken(w) \/ GetMediaUrl(w) \/ GetMediaStream(w)
  BY <1>1 DEF ResolveToken, GetMediaUrl, GetMediaStream, queueVars
<1>2. CASE OpenFile(w) \/ SaveFile(w)
  BY <1>2 DEF OpenFile, SaveFile, FileType, queueVars
<1>3. CASE MarkDownloading(w) \/ MarkFailed(w)
  BY <1>3 DEF MarkDownloading, MarkFailed, CatchEnds, RowType, queueVars
<1>4. CASE MakeAvailable(w)
  <2>1. media' = [media EXCEPT ![cur[w]] = "AVAILABLE"] \/ UNCHANGED media
    BY <1>4 DEF MakeAvailable
  <2>2. announced' = [announced EXCEPT ![cur[w]] = @ + 1] \/ UNCHANGED announced
    BY <1>4 DEF MakeAvailable
  <2> QED BY <1>4, <2>1, <2>2 DEF MakeAvailable, RowType, queueVars
<1>5. CASE JobCompleted(w) \/ JobThrew(w)
  <2>1. cur[w] \in Jobs
    BY <1>5, RunningWorker DEF JobCompleted, JobThrew
  <2>2. \A i \in Jobs : i # cur[w] => jobState'[i] = jobState[i]
    BY <1>5, <2>1, SettledJob DEF JobCompleted, JobThrew, Complete, Threw
  <2> QED BY <1>5, <2>2 DEF JobCompleted, JobThrew
<1> QED BY <1>1, <1>2, <1>3, <1>4, <1>5 DEF WorkerStep

LEMMA WorkerProgress ==
  ASSUME TypeOK, RunsAlone, RunProgress, NEW w \in Workers, WorkerStep(w), cur[w] \notin overlapped
  PROVE  cur'[w] \in Jobs => ProgressOf(w)'
<1>1. cur[w] \in Jobs
  BY RunningWorker DEF WorkerStep, ResolveToken, MarkDownloading, GetMediaUrl, GetMediaStream,
     OpenFile, SaveFile, MakeAvailable, MarkFailed, JobCompleted, JobThrew
<1>2. ProgressOf(w)
  BY <1>1 DEF RunProgress, ProgressOf
<1> USE <1>1, <1>2 DEF ProgressOf, TypeOK, WorkerType, Goto
<1>3. CASE ResolveToken(w) \/ GetMediaUrl(w) \/ GetMediaStream(w)
  BY <1>3 DEF ResolveToken, GetMediaUrl, GetMediaStream, rowVars, fileVars
<1>4. CASE OpenFile(w) \/ SaveFile(w)
  BY <1>4 DEF OpenFile, SaveFile, rowVars, FileType
<1>5. CASE MarkDownloading(w)
  <2>1. CASE Goto(w, "url")
    BY <1>5, <2>1 DEF MarkDownloading, RowType
  <2>2. CASE Goto(w, "catch")
    BY <1>5, <2>2 DEF MarkDownloading
  <2> QED BY <1>5, <2>1, <2>2 DEF MarkDownloading
<1>6. CASE MakeAvailable(w)
  <2>1. CASE Goto(w, "complete")
    BY <1>6, <2>1 DEF MakeAvailable, fileVars, RowType
  <2>2. CASE Goto(w, "catch")
    BY <1>6, <2>2 DEF MakeAvailable
  <2> QED BY <1>6, <2>1, <2>2 DEF MakeAvailable
<1>7. CASE MarkFailed(w)
  BY <1>7 DEF MarkFailed, CatchEnds, fileVars, RowType, HistType
<1>8. CASE JobCompleted(w) \/ JobThrew(w)
  BY <1>8, DownloadAssumption DEF JobCompleted, JobThrew, Release
<1> QED BY <1>3, <1>4, <1>5, <1>6, <1>7, <1>8 DEF WorkerStep

LEMMA ProgressStep ==
  ASSUME TypeOK, RunSeesMessage, RunsAlone, RunProgress, [Next]_vars
  PROVE  RunProgress'
<1>1. SUFFICES ASSUME NEW v \in Workers, cur'[v] \in Jobs, cur'[v] \notin overlapped'
               PROVE  ProgressOf(v)'
  BY DEF RunProgress, ProgressOf
<1>2. cur[v] \in Jobs \ overlapped => ProgressOf(v)
  BY DEF RunProgress, ProgressOf
<1>3. ASSUME NEW j \in Jobs,
             \/ InsertAndQueue(j) \/ RollBack(j) \/ BackoffElapsed(j)
             \/ RecoverOrphan(j) \/ LockExpires(j) \/ RetryFailedJob(j)
      PROVE  ProgressOf(v)'
  <2>1. UNCHANGED media /\ silent \subseteq silent'
    BY <1>3 DEF InsertAndQueue, RollBack, BackoffElapsed, RecoverOrphan, LockExpires,
       PutBackOrFail, RetryFailedJob, rowVars, histVars
  <2> QED BY <1>1, <1>2, <1>3, <2>1, RunsKept DEF ProgressOf
<1>4. ASSUME NEW j \in Jobs, CommitMessage(j)
      PROVE  ProgressOf(v)'
  <2>1. UNCHANGED silent /\ media' = [media EXCEPT ![j] = "PENDING"]
    BY <1>4 DEF CommitMessage, histVars
  <2>2. media[j] = "none" /\ tx[j] # "committed"
    BY <1>4 DEF CommitMessage, TypeOK, RowType
  <2> QED BY <1>1, <1>2, <1>4, <2>1, <2>2, RunsKept DEF ProgressOf, RunSeesMessage, TypeOK, RowType
<1>5. ASSUME NEW w \in Workers, TakeDownload(w) \/ Crash(w)
      PROVE  ProgressOf(v)'
  <2>1. UNCHANGED <<media, file, opener, silent, overlapped>>
    BY <1>5 DEF TakeDownload, Crash, rowVars, fileVars, histVars
  <2>2. CASE v = w
    BY <1>5, <2>2 DEF TakeDownload, Crash, Release, Goto, ProgressOf, TypeOK, WorkerType
  <2>3. CASE v # w
    BY <1>1, <1>2, <1>5, <2>1, <2>3
       DEF TakeDownload, Crash, Release, Goto, ProgressOf, TypeOK, WorkerType
  <2> QED BY <2>2, <2>3
<1>6. ASSUME NEW w \in Workers, WorkerStep(w)
      PROVE  ProgressOf(v)'
  <2>1. CASE v = w
    <3>1. cur[w] \notin overlapped
      BY <1>1, <1>6, <2>1, OwnJobOnly, DownloadAssumption DEF WorkerStep, ResolveToken,
         MarkDownloading, GetMediaUrl, GetMediaStream, OpenFile, SaveFile, MakeAvailable,
         MarkFailed, JobCompleted, JobThrew, Release, TypeOK, WorkerType
    <3> QED BY <1>1, <1>6, <2>1, <3>1, WorkerProgress
  <2>2. CASE v # w
    <3>1. cur'[v] = cur[v] /\ pc'[v] = pc[v] /\ UNCHANGED overlapped
      BY <1>6, <2>2, OwnJobOnly
    <3>2. cur[v] \in Jobs \ overlapped /\ cur[v] # cur[w]
      BY <1>1, <2>2, <3>1, OneRun
    <3> QED BY <1>2, <1>6, <3>1, <3>2, OwnJobOnly DEF ProgressOf
  <2> QED BY <2>1, <2>2
<1>7. CASE UNCHANGED vars
  BY <1>1, <1>2, <1>7 DEF vars, rowVars, fileVars, workerVars, histVars, ProgressOf
<1> QED BY <1>3, <1>4, <1>5, <1>6, <1>7 DEF Next

-----------------------------------------------------------------------------
(* What AvailableIsSaved says of one job. *)
SavedJob(j) ==
  /\ j \notin overlapped /\ media[j] = "AVAILABLE" => file[j] = "whole" /\ announced[j] > 0
  /\ tx[j] # "committed" => file[j] = "none" /\ announced[j] = 0

LEMMA WorkerSaves ==
  ASSUME TypeOK, RunSeesMessage, RunsAlone, RunProgress, NEW w \in Workers, WorkerStep(w),
         NEW j \in Jobs, j = cur[w], SavedJob(j)
  PROVE  SavedJob(j)'
<1>1. j \in Jobs /\ UNCHANGED <<tx, overlapped>>
  BY OwnJobOnly
<1>2. ProgressOf(w) \/ j \in overlapped
  BY <1>1 DEF RunProgress, ProgressOf
<1>3. announced[j] \in Nat
  BY <1>1 DEF TypeOK, RowType
<1>4. CASE UNCHANGED <<media, file, announced>>
  BY <1>1, <1>4 DEF SavedJob
<1>5. CASE MarkDownloading(w) \/ MarkFailed(w)
  <2>1. UNCHANGED <<file, announced>> /\ (UNCHANGED media \/ media'[j] # "AVAILABLE")
    BY <1>1, <1>5 DEF MarkDownloading, MarkFailed, fileVars, TypeOK, RowType
  <2> QED BY <1>1, <2>1 DEF SavedJob
<1>6. CASE OpenFile(w)
  <2>1. tx[j] = "committed" /\ (j \in overlapped \/ media[j] = "DOWNLOADING")
    BY <1>2, <1>6 DEF OpenFile, RunSeesMessage, ProgressOf
  <2> QED BY <1>1, <1>6, <2>1 DEF SavedJob, OpenFile, rowVars
<1>7. CASE SaveFile(w)
  <2>1. tx[j] = "committed" /\ (j \in overlapped \/ media[j] = "DOWNLOADING")
    BY <1>2, <1>7 DEF SaveFile, RunSeesMessage, ProgressOf
  <2> QED BY <1>1, <1>7, <2>1 DEF SavedJob, SaveFile, rowVars
<1>8. CASE MakeAvailable(w)
  <2>1. tx[j] = "committed" /\ (j \in overlapped \/ file[j] = "whole")
    BY <1>2, <1>8 DEF MakeAvailable, RunSeesMessage, ProgressOf
  <2>2. CASE announced' = [announced EXCEPT ![j] = @ + 1]
    <3>1. announced \in [Jobs -> Nat] /\ announced' = [announced EXCEPT ![j] = @ + 1]
      BY <2>2 DEF TypeOK, RowType
    <3>2. announced'[j] = announced[j] + 1
      BY ONLY <1>1, <3>1
    <3>3. announced'[j] > 0
      BY ONLY <1>3, <3>2
    <3> QED BY <1>1, <1>8, <2>1, <3>3 DEF SavedJob, MakeAvailable, fileVars
  <2> QED BY <1>4, <1>8, <2>2 DEF MakeAvailable, fileVars
<1>9. CASE ResolveToken(w) \/ GetMediaUrl(w) \/ GetMediaStream(w) \/ JobCompleted(w) \/ JobThrew(w)
  BY <1>4, <1>9 DEF ResolveToken, GetMediaUrl, GetMediaStream, JobCompleted, JobThrew,
     rowVars, fileVars
<1> QED BY <1>5, <1>6, <1>7, <1>8, <1>9 DEF WorkerStep

LEMMA SavedStep ==
  ASSUME TypeOK, TypeOK', RunSeesMessage, RunsAlone, RunProgress, AvailableIsSaved, [Next]_vars
  PROVE  AvailableIsSaved'
<1>1. SUFFICES ASSUME NEW j \in Jobs PROVE SavedJob(j)'
  BY DEF AvailableIsSaved, SavedJob
<1>2. SavedJob(j)
  BY DEF AvailableIsSaved, SavedJob
<1>3. CASE /\ UNCHANGED <<file, announced>> /\ overlapped \subseteq overlapped'
           /\ media'[j] = media[j] \/ media'[j] = "PENDING"
           /\ tx'[j] # "committed" => tx[j] # "committed"
  BY <1>2, <1>3 DEF SavedJob
<1>4. ASSUME NEW i \in Jobs,
             \/ InsertAndQueue(i) \/ CommitMessage(i) \/ RollBack(i) \/ BackoffElapsed(i)
             \/ RecoverOrphan(i) \/ LockExpires(i) \/ RetryFailedJob(i)
      PROVE  SavedJob(j)'
  <2>1. UNCHANGED announced /\ (media'[j] = media[j] \/ media'[j] = "PENDING")
    BY <1>4 DEF InsertAndQueue, CommitMessage, RollBack, BackoffElapsed, RecoverOrphan,
       LockExpires, PutBackOrFail, RetryFailedJob, rowVars, TypeOK, RowType
  <2>2. tx'[j] # "committed" => tx[j] # "committed"
    BY <1>4 DEF InsertAndQueue, CommitMessage, RollBack, BackoffElapsed, RecoverOrphan,
       LockExpires, PutBackOrFail, RetryFailedJob, rowVars, TypeOK, RowType
  <2> QED BY <1>3, <1>4, <2>1, <2>2, RunsKept
<1>5. ASSUME NEW w \in Workers, TakeDownload(w) \/ Crash(w)
      PROVE  SavedJob(j)'
  BY <1>3, <1>5 DEF TakeDownload, Crash, rowVars, fileVars, histVars
<1>6. ASSUME NEW w \in Workers, WorkerStep(w)
      PROVE  SavedJob(j)'
  <2>1. CASE j = cur[w]
    BY <1>2, <1>6, <2>1, WorkerSaves
  <2>2. CASE j # cur[w]
    BY <1>2, <1>6, <2>2, OwnJobOnly DEF SavedJob
  <2> QED BY <2>1, <2>2
<1>7. CASE UNCHANGED vars
  BY <1>3, <1>7 DEF vars, rowVars, fileVars, histVars
<1> QED BY <1>4, <1>5, <1>6, <1>7 DEF Next

-----------------------------------------------------------------------------
(* The row tells how the job ended.                                        *)

(* What EndInRow says of one job. *)
EndOfJob(j) ==
  j \notin overlapped \cup silent =>
    /\ jobState[j] = "completed" => media[j] = "AVAILABLE"
    /\ jobState[j] = "failed" => media[j] \in {"AVAILABLE", "FAILED"}

LEMMA EndStep ==
  ASSUME TypeOK, RunsAlone, RunProgress, EndInRow, [Next]_vars
  PROVE  EndInRow'
<1>1. SUFFICES ASSUME NEW j \in Jobs PROVE EndOfJob(j)'
  BY DEF EndInRow, EndOfJob
<1>2. EndOfJob(j)
  BY DEF EndInRow, EndOfJob
<1>3. CASE /\ overlapped \cup silent \subseteq (overlapped \cup silent)'
           /\ media'[j] = media[j]
           /\ jobState'[j] \in {"completed", "failed"} => jobState'[j] = jobState[j]
  BY <1>2, <1>3 DEF EndOfJob
<1>4. ASSUME NEW i \in Jobs,
             InsertAndQueue(i) \/ RollBack(i) \/ BackoffElapsed(i) \/ RetryFailedJob(i)
      PROVE  EndOfJob(j)'
  BY <1>3, <1>4 DEF InsertAndQueue, Add, RollBack, BackoffElapsed, BackoffOver, RetryFailedJob,
     Retry, rowVars, histVars, queueVars, TypeOK, QueueType
<1>5. ASSUME NEW i \in Jobs, CommitMessage(i)
      PROVE  EndOfJob(j)'
  BY <1>2, <1>5 DEF EndOfJob, CommitMessage, histVars, queueVars, TypeOK, RowType
<1>6. ASSUME NEW i \in Jobs, RecoverOrphan(i) \/ LockExpires(i)
      PROVE  EndOfJob(j)'
  <2>1. PutBackOrFail(i) /\ overlapped \subseteq overlapped'
    BY <1>6 DEF RecoverOrphan, LockExpires
  <2>2. /\ UNCHANGED media /\ silent \subseteq silent'
        /\ \A k \in Jobs : k # i => jobState'[k] = jobState[k]
        /\ jobState'[i] = "failed" => i \in silent'
        /\ jobState'[i] # "completed"
    BY <2>1 DEF PutBackOrFail, PutBack, rowVars, TypeOK, QueueType
  <2> QED BY <1>2, <2>1, <2>2 DEF EndOfJob
<1>7. ASSUME NEW w \in Workers, TakeDownload(w) \/ Crash(w)
      PROVE  EndOfJob(j)'
  BY <1>3, <1>7 DEF TakeDownload, Take, Crash, DropLocks, rowVars, histVars, TypeOK, QueueType
<1>8. ASSUME NEW w \in Workers, WorkerStep(w), j # cur[w]
      PROVE  EndOfJob(j)'
  BY <1>2, <1>8, OwnJobOnly DEF EndOfJob
<1>9. ASSUME NEW w \in Workers, WorkerStep(w), j = cur[w], j \notin overlapped
      PROVE  EndOfJob(j)'
  <2>1. jobState[j] = "active" /\ ProgressOf(w)
    BY <1>9 DEF RunsAlone, RunProgress, ProgressOf
  <2>2. CASE JobCompleted(w) \/ JobThrew(w)
    <3>1. UNCHANGED <<media, silent>>
      BY <2>2 DEF JobCompleted, JobThrew, rowVars, histVars
    <3>2. CASE JobCompleted(w)
      <4>1. media[j] = "AVAILABLE"
        BY <1>9, <2>1, <3>2 DEF JobCompleted, ProgressOf
      <4> QED BY <3>1, <4>1 DEF EndOfJob
    <3>3. CASE JobThrew(w)
      <4>1. media[j] = "FAILED" \/ j \in silent
        BY <1>9, <2>1, <3>3 DEF JobThrew, ProgressOf
      <4>2. jobState'[j] # "completed"
        <5>1. CASE Threw(w, j)
          BY <1>9, <2>1, <5>1 DEF Threw, Settle, queueVars, TypeOK, QueueType
        <5>2. CASE Settle(w, j, "failed", attemptsMade[j] + 1)
          BY <1>9, <2>1, <5>2 DEF Settle, queueVars, TypeOK, QueueType
        <5> QED BY <1>9, <3>3, <5>1, <5>2 DEF JobThrew
      <4> QED BY <3>1, <4>1, <4>2 DEF EndOfJob
    <3> QED BY <2>2, <3>2, <3>3
  <2>3. CASE ~(JobCompleted(w) \/ JobThrew(w))
    <3>1. UNCHANGED jobState
      BY <1>9, <2>3 DEF WorkerStep, ResolveToken, MarkDownloading, GetMediaUrl, GetMediaStream,
         OpenFile, SaveFile, MakeAvailable, MarkFailed, queueVars
    <3> QED BY <2>1, <3>1 DEF EndOfJob
  <2> QED BY <2>2, <2>3
<1>10. ASSUME NEW w \in Workers, WorkerStep(w), j \in overlapped
       PROVE  EndOfJob(j)'
  BY <1>10, OwnJobOnly DEF EndOfJob
<1>11. CASE UNCHANGED vars
  BY <1>3, <1>11 DEF vars, rowVars, histVars, queueVars
<1> QED BY <1>4, <1>5, <1>6, <1>7, <1>8, <1>9, <1>10, <1>11 DEF Next

-----------------------------------------------------------------------------
(* All of DownloadInv, of which TypeOK and RunSeesMessage are a part. *)
THEOREM DownloadInvariant == Spec => []DownloadInv
<1>1. Init => DownloadInv
  <2> SUFFICES ASSUME Init PROVE DownloadInv
    OBVIOUS
  <2>1. TypeOK
    BY DEF Init, QueueInit, TypeOK, QueueType, RowType, FileType, WorkerType, HistType, Labels
  <2>2. \A w \in Workers : cur[w] \notin Jobs /\ pc[w] = "idle"
    BY DownloadAssumption DEF Init
  <2>3. AvailableIsSaved /\ EndInRow
    BY <2>1 DEF Init, QueueInit, AvailableIsSaved, EndInRow
  <2> QED BY <2>2, <2>3 DEF DownloadInv, RunsAlone, RunSeesMessage, RunProgress
<1>2. DownloadInv /\ [Next]_vars => DownloadInv'
  <2> SUFFICES ASSUME DownloadInv, [Next]_vars PROVE DownloadInv'
    OBVIOUS
  <2>1. TypeOK /\ RunSeesMessage /\ RunsAlone /\ RunProgress /\ EndInRow /\ AvailableIsSaved
    BY DEF DownloadInv, AvailableIsSaved
  <2>2. TypeOK'
    BY <2>1, TypeStep
  <2> QED BY <2>1, <2>2, SeesMessageStep, RunsAloneStep, ProgressStep, SavedStep, EndStep
          DEF DownloadInv
<1> QED BY <1>1, <1>2, PTL DEF Spec

(* What clients are told is AVAILABLE is a whole file and has been          *)
(* announced, unless two runs of its job overlapped; nothing is saved or    *)
(* announced for a message that was never committed.                        *)
THEOREM AvailableSaved == Spec => []AvailableIsSaved
<1>1. DownloadInv => AvailableIsSaved
  BY DEF DownloadInv
<1> QED BY <1>1, DownloadInvariant, PTL

(* The row of a committed message tells how its download ended, unless runs *)
(* overlapped or a failure passed in silence.                               *)
THEOREM EndShown == Spec => []EndIsVisible
<1>1. DownloadInv => EndIsVisible
  BY DEF DownloadInv, EndInRow, EndIsVisible
<1> QED BY <1>1, DownloadInvariant, PTL
=============================================================================
