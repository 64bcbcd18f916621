---------------------------- MODULE MediaDownload ----------------------------
(***************************************************************************)
(* Media of customer messages: the webhook processor queues a 'download'   *)
(* job inside the transaction that inserts the message, and                *)
(* MediaProcessor.process fetches the file from Meta, saves it and makes   *)
(* it AVAILABLE together with an outbox row.                               *)
(*                                                                         *)
(* A transaction inserts a row of its own, so Jobs are the row ids; jobs   *)
(* share nothing but the workers.  A row is seen once its transaction has  *)
(* committed.                                                              *)
(***************************************************************************)
EXTENDS BullQueue

CONSTANTS
  Faults,     \* kinds of failure that may happen
  MaxFaults,  \* bound: failures in one behaviour
  NoJob

ASSUME DownloadAssumption ==
  /\ Faults \subseteq {"crash", "stall", "db", "meta", "disk"}
  /\ MaxFaults \in Nat
  /\ NoJob \notin Jobs

VARIABLES
  tx,         \* the webhook processor's transaction
  media,      \* message.mediaStatus, "none" while there is no row
  announced,  \* 'message.media_updated' outbox rows
  file,       \* the file at the key of the message
  opener,     \* the slot that opened the file last
  pc, cur,
  faults,
  \* history
  silent,     \* jobs whose last failure is not in the row
  overlapped  \* jobs that were put back under a live run

rowVars    == <<tx, media, announced>>
fileVars   == <<file, opener>>
workerVars == <<pc, cur>>
histVars   == <<silent, overlapped>>
vars == <<rowVars, fileVars, workerVars, queueVars, faults, histVars>>

Fault(kind) ==
  /\ kind \in Faults /\ faults < MaxFaults
  /\ faults' = faults + 1

Init ==
  /\ QueueInit
  /\ tx = [j \in Jobs |-> "none"]
  /\ media = [j \in Jobs |-> "none"]
  /\ announced = [j \in Jobs |-> 0]
  /\ file = [j \in Jobs |-> "none"]
  /\ opener = [j \in Jobs |-> NoWorker]
  /\ pc = [w \in Workers |-> "idle"]
  /\ cur = [w \in Workers |-> NoJob]
  /\ faults = 0
  /\ silent = {} /\ overlapped = {}

-----------------------------------------------------------------------------
(* The transaction of WebhookProcessor.handleInboundMessages.              *)

InsertAndQueue(j) ==
  /\ tx[j] = "none"
  /\ tx' = [tx EXCEPT ![j] = "open"]
  /\ Add(j)
  /\ UNCHANGED <<media, announced, fileVars, workerVars, faults, histVars>>

CommitMessage(j) ==
  /\ tx[j] = "open"
  /\ tx' = [tx EXCEPT ![j] = "committed"]
  /\ media' = [media EXCEPT ![j] = "PENDING"]
  /\ UNCHANGED <<announced, fileVars, workerVars, queueVars, faults, histVars>>

(* The job is not taken back. *)
RollBack(j) ==
  /\ tx[j] = "open" /\ Fault("db")
  /\ tx' = [tx EXCEPT ![j] = "rolled back"]
  /\ UNCHANGED <<media, announced, fileVars, workerVars, queueVars, histVars>>

-----------------------------------------------------------------------------
(* MediaProcessor.process.                                                 *)

Goto(w, label) == pc' = [pc EXCEPT ![w] = label]

TakeDownload(w) ==
  /\ pc[w] = "idle"
  /\ \E j \in Jobs : Take(w, j) /\ cur' = [cur EXCEPT ![w] = j]
  /\ Goto(w, "token")
  /\ UNCHANGED <<rowVars, fileVars, faults, histVars>>

(* The account is read; whatever goes wrong in resolveAccessToken after that *)
(* is an UnrecoverableError, but for the query of the client.                *)
ResolveToken(w) ==
  /\ pc[w] = "token"
  /\ \/ Goto(w, "mark") /\ UNCHANGED faults
     \/ Goto(w, "fatal") /\ Fault("meta")
     \/ Goto(w, "catch") /\ Fault("db")
  /\ UNCHANGED <<rowVars, fileVars, cur, queueVars, histVars>>

(* message.update throws when there is no such row, or not yet. *)
MarkDownloading(w) ==
  /\ pc[w] = "mark"
  /\ \/ /\ media[cur[w]] # "none"
        /\ media' = [media EXCEPT ![cur[w]] = "DOWNLOADING"]
        /\ silent' = silent \ {cur[w]}
        /\ Goto(w, "url")
        /\ UNCHANGED faults
     \/ /\ \/ media[cur[w]] = "none" /\ UNCHANGED faults
           \/ Fault("db")
        /\ Goto(w, "catch")
        /\ UNCHANGED <<media, silent>>
  /\ UNCHANGED <<tx, announced, fileVars, cur, queueVars, overlapped>>

GetMediaUrl(w) ==
  /\ pc[w] = "url"
  /\ \/ Goto(w, "stream") /\ UNCHANGED faults
     \/ Goto(w, "catch") /\ Fault("meta")
  /\ UNCHANGED <<rowVars, fileVars, cur, queueVars, histVars>>

(* With the read of the conversation's id, for the key. *)
GetMediaStream(w) ==
  /\ pc[w] = "stream"
  /\ \/ Goto(w, "open") /\ UNCHANGED faults
     \/ Goto(w, "catch") /\ (Fault("meta") \/ Fault("db"))
  /\ UNCHANGED <<rowVars, fileVars, cur, queueVars, histVars>>

(* createWriteStream truncates: every run of the job writes the same file. *)
OpenFile(w) ==
  /\ pc[w] = "open"
  /\ file' = [file EXCEPT ![cur[w]] = "partial"]
  /\ opener' = [opener EXCEPT ![cur[w]] = w]
  /\ Goto(w, "save")
  /\ UNCHANGED <<rowVars, cur, queueVars, faults, histVars>>

(* Mutant: the stream is not awaited. *)
SaveFileLater(w) ==
  /\ pc[w] = "save"
  /\ Goto(w, "commit")
  /\ UNCHANGED <<rowVars, fileVars, cur, queueVars, faults, histVars>>

(* pipeline(): the file is whole when its last writer is through. *)
SaveFile(w) ==
  /\ pc[w] = "save"
  /\ \/ /\ file' = [file EXCEPT ![cur[w]] = IF opener[cur[w]] = w THEN "whole" ELSE @]
        /\ Goto(w, "commit")
        /\ UNCHANGED faults
     \/ /\ Fault("disk") \/ Fault("meta")
        /\ Goto(w, "catch")
        /\ UNCHANGED file
  /\ UNCHANGED <<rowVars, opener, cur, queueVars, histVars>>

(* Row and outbox row in one transaction, whose answer may be lost. *)
MakeAvailable(w) ==
  /\ pc[w] = "commit"
  /\ \/ /\ media' = [media EXCEPT ![cur[w]] = "AVAILABLE"]
        /\ announced' = [announced EXCEPT ![cur[w]] = @ + 1]
        /\ \/ Goto(w, "complete") /\ UNCHANGED faults
           \/ Goto(w, "catch") /\ Fault("db")
     \/ /\ Fault("db")
        /\ Goto(w, "catch")
        /\ UNCHANGED <<media, announced>>
  /\ UNCHANGED <<tx, fileVars, cur, queueVars, histVars>>

CatchEnds(w) == Goto(w, IF pc[w] = "fatal" THEN "gave up" ELSE "threw")

(* Mutant: the error of the job is all that is left of it. *)
MarkFailedForgotten(w) ==
  /\ pc[w] \in {"catch", "fatal"}
  /\ CatchEnds(w)
  /\ UNCHANGED <<rowVars, fileVars, cur, queueVars, faults, histVars>>

(* The catch block; an error of its update is logged. *)
MarkFailed(w) ==
  /\ pc[w] \in {"catch", "fatal"}
  /\ \/ /\ media[cur[w]] # "none"
        /\ media' = [media EXCEPT ![cur[w]] = "FAILED"]
        /\ UNCHANGED <<silent, faults>>
     \/ /\ \/ media[cur[w]] = "none" /\ UNCHANGED faults
           \/ Fault("db")
        /\ silent' = silent \cup {cur[w]}
        /\ UNCHANGED media
  /\ CatchEnds(w)
  /\ UNCHANGED <<tx, announced, fileVars, cur, queueVars, overlapped>>

-----------------------------------------------------------------------------
(* BullMQ, and processes that die.                                         *)

Release(w) ==
  /\ Goto(w, "idle")
  /\ cur' = [cur EXCEPT ![w] = NoJob]

JobCompleted(w) ==
  /\ pc[w] = "complete"
  /\ Complete(w, cur[w])
  /\ Release(w)
  /\ UNCHANGED <<rowVars, fileVars, faults, histVars>>

(* Mutant: the catch block swallows the error. *)
JobThrewSwallowed(w) ==
  /\ pc[w] \in {"threw", "gave up"}
  /\ Complete(w, cur[w])
  /\ Release(w)
  /\ UNCHANGED <<rowVars, fileVars, faults, histVars>>

(* An UnrecoverableError is not attempted again. *)
JobThrew(w) ==
  /\ \/ pc[w] = "threw" /\ Threw(w, cur[w])
     \/ pc[w] = "gave up" /\ Settle(w, cur[w], "failed", attemptsMade[cur[w]] + 1)
  /\ Release(w)
  /\ UNCHANGED <<rowVars, fileVars, faults, histVars>>

BackoffElapsed(j) ==
  BackoffOver(j) /\ UNCHANGED <<rowVars, fileVars, workerVars, faults, histVars>>

(* A job that stalls once too often fails without a word in the row. *)
PutBackOrFail(j) ==
  /\ PutBack(j)
  /\ silent' = IF stalledCount[j] < MaxStalled THEN silent ELSE silent \cup {j}
  /\ UNCHANGED <<rowVars, fileVars, workerVars>>

RecoverOrphan(j) ==
  /\ lock[j] = NoWorker /\ PutBackOrFail(j)
  /\ UNCHANGED <<faults, overlapped>>

LockExpires(j) ==
  /\ lock[j] # NoWorker /\ Fault("stall") /\ PutBackOrFail(j)
  /\ overlapped' = overlapped \cup {j}

RetryFailedJob(j) ==
  Retry(j) /\ UNCHANGED <<rowVars, fileVars, workerVars, faults, histVars>>

Crash(w) ==
  /\ pc[w] # "idle" /\ Fault("crash")
  /\ Release(w)
  /\ DropLocks({w})
  /\ UNCHANGED <<rowVars, fileVars, histVars>>

WorkerStep(w) ==
  \/ ResolveToken(w) \/ MarkDownloading(w) \/ GetMediaUrl(w) \/ GetMediaStream(w)
  \/ OpenFile(w) \/ SaveFile(w) \/ MakeAvailable(w) \/ MarkFailed(w) \/ JobCompleted(w) \/ JobThrew(w)

Next ==
  \/ \E j \in Jobs : InsertAndQueue(j) \/ CommitMessage(j) \/ RollBack(j)
  \/ \E w \in Workers : TakeDownload(w) \/ WorkerStep(w) \/ Crash(w)
  \/ \E j \in Jobs :
       BackoffElapsed(j) \/ RecoverOrphan(j) \/ LockExpires(j) \/ RetryFailedJob(j)

Spec == Init /\ [][Next]_vars

(* BullMQ keeps its workers, its delayed set and its stalled check going;  *)
(* calls return in the end, the ones to Meta without a timeout of the code.*)
Fairness ==
  /\ \A w \in Workers : WF_vars(TakeDownload(w)) /\ WF_vars(WorkerStep(w))
  /\ \A j \in Jobs : WF_vars(BackoffElapsed(j)) /\ WF_vars(RecoverOrphan(j))

FairSpec == Spec /\ Fairness

-----------------------------------------------------------------------------
RowType ==
  /\ tx \in [Jobs -> {"none", "open", "committed", "rolled back"}]
  /\ media \in [Jobs -> {"none", "PENDING", "DOWNLOADING", "AVAILABLE", "FAILED"}]
  /\ announced \in [Jobs -> Nat]
  /\ \A j \in Jobs : media[j] = "none" <=> tx[j] # "committed"

FileType ==
  /\ file \in [Jobs -> {"none", "partial", "whole"}]
  /\ opener \in [Jobs -> Workers \cup {NoWorker}]

Labels == {"idle", "token", "mark", "url", "stream", "open", "save", "commit",
           "catch", "fatal", "threw", "gave up", "complete"}

WorkerType ==
  /\ pc \in [Workers -> Labels]
  /\ cur \in [Workers -> Jobs \cup {NoJob}]
  /\ \A w \in Workers : cur[w] = NoJob <=> pc[w] = "idle"

HistType == silent \subseteq Jobs /\ overlapped \subseteq Jobs

(* Every variable keeps its type; a slot has a job while process runs, and  *)
(* a message has a status once it is committed.                             *)
TypeOK == QueueType /\ RowType /\ FileType /\ WorkerType /\ HistType /\ faults \in Nat

(* What clients are told is AVAILABLE is a whole file, also while a job that *)
(* died after its commit is run again, which truncates the file: the rerun   *)
(* takes the status back first. (Two runs at a time may break this.)         *)
(* And a job that is queued for a message that never came to be, or runs    *)
(* before it does, saves no file and announces nothing.                     *)
AvailableIsSaved ==
  /\ TypeOK
  /\ \A j \in Jobs \ overlapped :
       media[j] = "AVAILABLE" => file[j] = "whole" /\ announced[j] > 0
  /\ \A j \in Jobs : tx[j] # "committed" => file[j] = "none" /\ announced[j] = 0

(* The row tells how its job ended. It stays PENDING or DOWNLOADING only if *)
(* the last failure came before the commit, could not be written, or was    *)
(* the stalled check's.                                                     *)
EndIsVisible ==
  \A j \in Jobs \ (overlapped \cup silent) : tx[j] = "committed" =>
    /\ jobState[j] = "completed" => media[j] = "AVAILABLE"
    /\ jobState[j] = "failed" => media[j] \in {"AVAILABLE", "FAILED"}

(* A committed medium is downloaded or seen to have failed, unless a        *)
(* failure passed in silence, or two runs at a time wrote its status.       *)
MediaSettles ==
  \A j \in Jobs :
    tx[j] = "committed" ~>
      media[j] \in {"AVAILABLE", "FAILED"} \/ j \in silent \cup overlapped

-----------------------------------------------------------------------------
(* Why they hold, for jobs that are not put back under a live run.          *)

(* A run holds the lock of its job, so a job has one run. *)
RunsAlone ==
  \A w \in Workers : cur[w] \in Jobs \ overlapped =>
    lock[cur[w]] = w /\ jobState[cur[w]] = "active"

(* A run gets past its first update only when it sees the message. *)
RunSeesMessage ==
  \A w \in Workers :
    pc[w] \in {"url", "stream", "open", "save", "commit", "complete"} => tx[cur[w]] = "committed"

(* What a run has done to the row and to the file is still there. *)
RunProgress ==
  \A w \in Workers : cur[w] \in Jobs \ overlapped =>
    /\ pc[w] \in {"url", "stream", "open", "save", "commit"} => media[cur[w]] = "DOWNLOADING"
    /\ pc[w] = "save" => opener[cur[w]] = w
    /\ pc[w] = "commit" => file[cur[w]] = "whole"
    /\ pc[w] = "complete" => media[cur[w]] = "AVAILABLE"
    /\ pc[w] \in {"threw", "gave up"} => media[cur[w]] = "FAILED" \/ cur[w] \in silent

(* EndIsVisible, also while the message is not committed. *)
EndInRow ==
  \A j \in Jobs \ (overlapped \cup silent) :
    /\ jobState[j] = "completed" => media[j] = "AVAILABLE"
    /\ jobState[j] = "failed" => media[j] \in {"AVAILABLE", "FAILED"}

DownloadInv == AvailableIsSaved /\ RunsAlone /\ RunSeesMessage /\ RunProgress /\ EndInRow
=============================================================================
