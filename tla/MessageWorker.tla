---------------------------- MODULE MessageWorker ----------------------------
(***************************************************************************)
(* The polling workers of the first version, over one campaign:            *)
(* MessageWorker runs several loops that pick up batches of queued         *)
(* messages in MongoDB, send them and write what came of it, and           *)
(* CampaignWorker completes a campaign when no message of it is            *)
(* unfinished.                                                             *)
(*                                                                         *)
(* The loops are in one process.  Time is two flags of a row: due          *)
(* (availableAt is past) and old (processingAt is two minutes ago).        *)
(* Nothing reads the workerId of a row, which is left out, and the template *)
(* of the campaign is taken to exist.                                      *)
(*                                                                         *)
(* createCampaign stores the campaign first and its messages afterwards,   *)
(* chunk by chunk.  It is the handler of a request, here or in another     *)
(* process, and may stop at any point.                                     *)
(***************************************************************************)
EXTENDS Naturals, FiniteSets

CONSTANTS
  Messages,   \* messages of the campaign
  Loops,      \* WORKERS polling loops
  BatchSize,  \* WORKER_BATCH_SIZE
  MaxRetry,   \* WORKER_MAX_RETRY
  Rejected,   \* messages that Meta never accepts
  Callbacks,  \* messages whose delivery Meta may report
  Faults,     \* kinds of failure that may happen
  MaxFaults   \* bound: failures in one behaviour

ASSUME WorkerAssumption ==
  /\ IsFiniteSet(Messages)
  /\ BatchSize \in Nat \ {0} /\ {MaxRetry, MaxFaults} \subseteq Nat
  /\ {Rejected, Callbacks} \subseteq SUBSET Messages
  /\ Faults \subseteq {"crash", "db", "meta", "timeout", "stall"}

VARIABLES
  \* MongoDB, per message
  status, due, old, retryCount,
  logs,       \* MessageLog documents
  completed,  \* the campaign is COMPLETED
  \* startWorker, per loop
  at,
  batch,      \* ids found by lockMessages
  task,       \* where processMessage is with a message of the batch
  copy,       \* retryCount in the documents lockMessages has returned
  \* CampaignWorker: it is about to complete the campaign
  verdict,
  counted,    \* history: the messages there were when it counted none unfinished
  \* Meta
  sends,      \* messages it has accepted
  faults,
  \* history
  excused     \* messages whose send or retry may be repeated for a reason

rowVars  == <<status, due, old, retryCount>>
loopVars == <<at, batch, task, copy>>
campaignVars == <<completed, verdict, counted>>
vars == <<rowVars, logs, campaignVars, loopVars, sends, faults, excused>>

Fault(kind) ==
  /\ kind \in Faults /\ faults < MaxFaults
  /\ faults' = faults + 1

Idle == [m \in Messages |-> "none"]

Init ==
  /\ status = [m \in Messages |-> "none"]
  /\ due = [m \in Messages |-> FALSE]
  /\ old = [m \in Messages |-> FALSE]
  /\ retryCount = [m \in Messages |-> 0]
  /\ logs = [m \in Messages |-> 0]
  /\ completed = FALSE
  /\ at = [w \in Loops |-> "find"]
  /\ batch = [w \in Loops |-> {}]
  /\ task = [w \in Loops |-> Idle]
  /\ copy = [w \in Loops |-> [m \in Messages |-> 0]]
  /\ verdict = FALSE
  /\ counted = {}
  /\ sends = [m \in Messages |-> 0]
  /\ faults = 0
  /\ excused = {}

Inserted == {m \in Messages : status[m] # "none"}

(* createCampaign: the next chunk, due at some time from now on. *)
InsertMessages ==
  \E chunk \in (SUBSET (Messages \ Inserted)) \ {{}} :
    /\ status' = [m \in Messages |-> IF m \in chunk THEN "queued" ELSE status[m]]
    /\ UNCHANGED <<due, old, retryCount, logs, campaignVars, loopVars, sends, faults, excused>>

-----------------------------------------------------------------------------
(* MessageWorker.lockMessages: a find, an updateMany and another find.     *)

Goto(w, label) == at' = [at EXCEPT ![w] = label]

Eligible == {m \in Messages : status[m] = "queued" /\ due[m]}

(* The oldest of them, up to the limit. Nothing found: the loop sleeps. *)
FindMessages(w) ==
  /\ at[w] = "find"
  /\ \E found \in SUBSET Eligible :
       /\ found # {}
       /\ Cardinality(found) = BatchSize \/ (found = Eligible /\ Cardinality(found) < BatchSize)
       /\ batch' = [batch EXCEPT ![w] = found]
  /\ Goto(w, "lock")
  /\ UNCHANGED <<rowVars, logs, campaignVars, task, copy, sends, faults, excused>>

(* Mutant: updateMany by the ids alone. *)
LockWhatWasFound(w) ==
  /\ at[w] = "lock"
  /\ status' = [m \in Messages |-> IF m \in batch[w] THEN "processing" ELSE status[m]]
  /\ old' = [m \in Messages |-> m \notin batch[w] /\ old[m]]
  /\ Goto(w, "load")
  /\ UNCHANGED <<due, retryCount, logs, campaignVars, batch, task, copy, sends, faults, excused>>

LockBatch(w) ==
  LET mine == {m \in batch[w] : status[m] = "queued"}
  IN /\ at[w] = "lock"
     /\ status' = [m \in Messages |-> IF m \in mine THEN "processing" ELSE status[m]]
     /\ old' = [m \in Messages |-> m \notin mine /\ old[m]]
     /\ Goto(w, "load")
     /\ UNCHANGED <<due, retryCount, logs, campaignVars, batch, task, copy, sends, faults, excused>>

(* Another loop has the message, or has had it between the find of w and now. *)
Raced(w, m) ==
  \/ status[m] # "processing"
  \/ \E v \in Loops \ {w} : m \in batch[v] /\ at[v] \in {"load", "work"}

(* All ids of the batch are read back, also those another loop has locked.  *)
LoadBatch(w) ==
  /\ at[w] = "load"
  /\ task' = [task EXCEPT ![w] = [m \in Messages |-> IF m \in batch[w] THEN "send" ELSE "none"]]
  /\ copy' = [copy EXCEPT ![w] = [m \in Messages |-> IF m \in batch[w] THEN retryCount[m] ELSE 0]]
  /\ excused' = excused \cup {m \in batch[w] : Raced(w, m)}
  /\ Goto(w, "work")
  /\ UNCHANGED <<rowVars, logs, campaignVars, batch, sends, faults>>

-----------------------------------------------------------------------------
(* MessageWorker.processMessage: the messages of a batch run side by side. *)

TaskTo(w, m, label) == task' = [task EXCEPT ![w][m] = label]

Accepted(m) == sends' = [sends EXCEPT ![m] = @ + 1]

(* Meta takes the message, or its answer is lost; or it rejects the message. *)
SendMessage(w, m) ==
  /\ task[w][m] = "send"
  /\ \/ /\ m \notin Rejected /\ Accepted(m)
        /\ TaskTo(w, m, "record")
        /\ UNCHANGED <<faults, excused>>
     \/ /\ m \notin Rejected /\ Accepted(m) /\ Fault("timeout")
        /\ excused' = excused \cup {m}
        /\ TaskTo(w, m, "fail")
     \/ /\ m \in Rejected /\ UNCHANGED faults
        /\ TaskTo(w, m, "fail")
        /\ UNCHANGED <<sends, excused>>
     \/ /\ m \notin Rejected /\ Fault("meta")
        /\ TaskTo(w, m, "fail")
        /\ UNCHANGED <<sends, excused>>
  /\ UNCHANGED <<rowVars, logs, campaignVars, at, batch, copy>>

RecordSent(w, m) ==
  /\ task[w][m] = "record"
  /\ status' = [status EXCEPT ![m] = "sent"]
  /\ TaskTo(w, m, "done")
  /\ UNCHANGED <<due, old, retryCount, logs, campaignVars, at, batch, copy, sends, faults, excused>>

(* The update is not made, or is made and not answered: the catch takes it   *)
(* for a failed send.                                                       *)
RecordFails(w, m) ==
  /\ task[w][m] = "record" /\ Fault("db")
  /\ status' \in {status, [status EXCEPT ![m] = "sent"]}
  /\ excused' = excused \cup {m}
  /\ TaskTo(w, m, "caught")
  /\ UNCHANGED <<due, old, retryCount, logs, campaignVars, at, batch, copy, sends>>

(* failMessage is called in the try, and again in the catch when it throws. *)
Failing(w, m) == task[w][m] \in {"fail", "caught"}

(* Mutant: the retry is not counted. *)
RetryLaterUncounted(w, m) ==
  /\ Failing(w, m) /\ copy[w][m] < MaxRetry
  /\ status' = [status EXCEPT ![m] = "queued"]
  /\ due' = [due EXCEPT ![m] = FALSE]
  /\ old' = [old EXCEPT ![m] = FALSE]
  /\ TaskTo(w, m, "done")
  /\ UNCHANGED <<retryCount, logs, campaignVars, at, batch, copy, sends, faults, excused>>

RetryLater(w, m) ==
  /\ Failing(w, m) /\ copy[w][m] < MaxRetry
  /\ status' = [status EXCEPT ![m] = "queued"]
  /\ retryCount' = [retryCount EXCEPT ![m] = @ + 1]
  /\ due' = [due EXCEPT ![m] = FALSE]
  /\ old' = [old EXCEPT ![m] = FALSE]
  /\ TaskTo(w, m, "done")
  /\ UNCHANGED <<logs, campaignVars, at, batch, copy, sends, faults, excused>>

(* Mutant: retryCount >= MAX_RETRY. *)
MoveToDeadEarly(w, m) ==
  /\ Failing(w, m) /\ copy[w][m] + 1 >= MaxRetry
  /\ status' = [status EXCEPT ![m] = "dead"]
  /\ TaskTo(w, m, IF task[w][m] = "fail" THEN "log" ELSE "caught log")
  /\ UNCHANGED <<due, old, retryCount, logs, campaignVars, at, batch, copy, sends, faults, excused>>

MoveToDead(w, m) ==
  /\ Failing(w, m) /\ copy[w][m] >= MaxRetry
  /\ status' = [status EXCEPT ![m] = "dead"]
  /\ TaskTo(w, m, IF task[w][m] = "fail" THEN "log" ELSE "caught log")
  /\ UNCHANGED <<due, old, retryCount, logs, campaignVars, at, batch, copy, sends, faults, excused>>

(* MessageLog takes no errorType 'provider', which a failure of the provider *)
(* always has: its create throws, and the catch calls failMessage again.     *)
LogRejected(w, m) ==
  /\ task[w][m] = "log"
  /\ TaskTo(w, m, "caught")
  /\ UNCHANGED <<rowVars, logs, campaignVars, at, batch, copy, sends, faults, excused>>

LogDead(w, m) ==
  /\ task[w][m] = "caught log"
  /\ logs' = [logs EXCEPT ![m] = @ + 1]
  /\ TaskTo(w, m, "done")
  /\ UNCHANGED <<rowVars, campaignVars, at, batch, copy, sends, faults, excused>>

(* The update of failMessage throws in the try, not made or not answered: a  *)
(* retry that was made is counted again by the catch.                        *)
FailureNotWritten(w, m) ==
  /\ task[w][m] = "fail" /\ Fault("db")
  /\ \/ UNCHANGED <<rowVars, excused>>
     \/ /\ copy[w][m] < MaxRetry
        /\ status' = [status EXCEPT ![m] = "queued"]
        /\ retryCount' = [retryCount EXCEPT ![m] = @ + 1]
        /\ due' = [due EXCEPT ![m] = FALSE]
        /\ old' = [old EXCEPT ![m] = FALSE]
        /\ excused' = excused \cup {m}
     \/ /\ copy[w][m] >= MaxRetry
        /\ status' = [status EXCEPT ![m] = "dead"]
        /\ UNCHANGED <<due, old, retryCount, excused>>
  /\ TaskTo(w, m, "caught")
  /\ UNCHANGED <<logs, campaignVars, at, batch, copy, sends>>

(* processMessage of the message has not ended. *)
Running(w, m) == task[w][m] \in {"send", "record", "fail", "log", "caught", "caught log"}

(* Promise.all, then requeueStuckMessages: rows that have been processing   *)
(* for two minutes, locked by whichever loop.                               *)
RequeueStuck(w) ==
  LET stuck == {m \in Messages : status[m] = "processing" /\ old[m]}
  IN /\ at[w] = "work" /\ \A m \in batch[w] : ~Running(w, m)
     /\ status' = [m \in Messages |-> IF m \in stuck THEN "queued" ELSE status[m]]
     /\ due' = [m \in Messages |-> due[m] \/ m \in stuck]
     /\ old' = [m \in Messages |-> old[m] /\ m \notin stuck]
     /\ batch' = [batch EXCEPT ![w] = {}]
     /\ task' = [task EXCEPT ![w] = Idle]
     /\ copy' = [copy EXCEPT ![w] = [m \in Messages |-> 0]]
     /\ Goto(w, "find")
     /\ UNCHANGED <<retryCount, logs, campaignVars, sends, faults, excused>>

-----------------------------------------------------------------------------
(* Time, and the end of the process.                                       *)

BackoffElapses(m) ==
  /\ status[m] = "queued" /\ ~due[m]
  /\ due' = [due EXCEPT ![m] = TRUE]
  /\ UNCHANGED <<status, old, retryCount, logs, campaignVars, loopVars, sends, faults, excused>>

Held(m) == \E w \in Loops : m \in batch[w]

(* A loop gets nowhere near two minutes with a message, but for a stall. *)
TwoMinutesPass(m) ==
  /\ status[m] = "processing" /\ ~old[m]
  /\ old' = [old EXCEPT ![m] = TRUE]
  /\ IF Held(m) THEN Fault("stall") /\ excused' = excused \cup {m}
               ELSE UNCHANGED <<faults, excused>>
  /\ UNCHANGED <<status, due, retryCount, logs, campaignVars, loopVars, sends>>

(* The loops end with the process, and begin anew with the next one. An     *)
(* error of MongoDB outside the try rejects startWorker, which nobody       *)
(* awaits: it ends the process, too.                                        *)
Crash ==
  /\ Fault("crash")
  /\ at' = [w \in Loops |-> "find"]
  /\ batch' = [w \in Loops |-> {}]
  /\ task' = [w \in Loops |-> Idle]
  /\ copy' = [w \in Loops |-> [m \in Messages |-> 0]]
  /\ verdict' = FALSE /\ counted' = IF completed THEN counted ELSE {}
  /\ excused' = excused \cup {m \in Messages : \E w \in Loops :
                    task[w][m] \in {"record", "log", "caught", "caught log"}}
  /\ UNCHANGED <<rowVars, logs, completed, sends>>

-----------------------------------------------------------------------------
(* WhatsappWebhookService.processStatus, as far as the campaign sees it.   *)
DeliveryReported(m) ==
  /\ m \in Callbacks /\ status[m] = "sent"
  /\ status' = [status EXCEPT ![m] = "delivered"]
  /\ UNCHANGED <<due, old, retryCount, logs, campaignVars, loopVars, sends, faults, excused>>

(* CampaignWorker.processCampaign: a count, then an update.                *)

(* Mutant: what a loop has picked up counts as finished. *)
UnfinishedQueued == {m \in Inserted : status[m] \notin {"sent", "dead", "processing"}}

Unfinished == {m \in Inserted : status[m] \notin {"sent", "dead"}}

(* Messages left, or none: QUEUED becomes PROCESSING, which no other step    *)
(* tells apart, or the campaign is about to be completed.                    *)
CountUnfinished ==
  /\ ~completed /\ ~verdict
  /\ Unfinished = {}
  /\ verdict' = TRUE /\ counted' = Inserted
  /\ UNCHANGED <<rowVars, logs, completed, loopVars, sends, faults, excused>>

UpdateCampaign ==
  /\ verdict
  /\ completed' = TRUE /\ verdict' = FALSE
  /\ UNCHANGED <<rowVars, logs, counted, loopVars, sends, faults, excused>>

-----------------------------------------------------------------------------
LoopStep(w) == FindMessages(w) \/ LockBatch(w) \/ LoadBatch(w) \/ RequeueStuck(w)

TaskStep(w, m) ==
  \/ SendMessage(w, m) \/ RecordSent(w, m) \/ RecordFails(w, m) \/ RetryLater(w, m)
  \/ MoveToDead(w, m) \/ LogRejected(w, m) \/ LogDead(w, m) \/ FailureNotWritten(w, m)

Next ==
  \/ \E w \in Loops :
       \/ LoopStep(w)
       \/ \E m \in Messages : TaskStep(w, m)
  \/ \E m \in Messages : BackoffElapses(m) \/ TwoMinutesPass(m) \/ DeliveryReported(m)
  \/ InsertMessages \/ Crash \/ CountUnfinished \/ UpdateCampaign

Spec == Init /\ [][Next]_vars

(* The loops go on for ever, and time passes. *)
Fairness ==
  /\ \A w \in Loops :
       /\ WF_vars(LoopStep(w))
       /\ \A m \in Messages : WF_vars(TaskStep(w, m))
  /\ \A m \in Messages : WF_vars(BackoffElapses(m))

FairSpec == Spec /\ Fairness

-----------------------------------------------------------------------------
RowType ==
  /\ status \in [Messages -> {"none", "queued", "processing", "sent", "dead", "delivered"}]
  /\ due \in [Messages -> BOOLEAN] /\ old \in [Messages -> BOOLEAN]
  /\ retryCount \in [Messages -> Nat] /\ logs \in [Messages -> Nat]

LoopType ==
  /\ at \in [Loops -> {"find", "lock", "load", "work"}]
  /\ batch \in [Loops -> SUBSET Messages]
  /\ task \in [Loops -> [Messages -> {"none", "send", "record", "fail", "log",
                                     "caught", "caught log", "done"}]]
  /\ copy \in [Loops -> [Messages -> Nat]]
  /\ \A w \in Loops :
       /\ batch[w] = {} <=> at[w] = "find"
       /\ \A m \in Messages : task[w][m] # "none" <=> at[w] = "work" /\ m \in batch[w]

WorldType ==
  /\ completed \in BOOLEAN /\ verdict \in BOOLEAN
  /\ counted \subseteq Inserted
  /\ sends \in [Messages -> Nat]
  /\ faults \in Nat /\ excused \subseteq Messages

(* Every variable keeps its type; a loop has a batch while it works on one, *)
(* and tasks once the batch is loaded.                                      *)
TypeOK == RowType /\ LoopType /\ WorldType

(* A message goes out twice only when a loop has read back a message that   *)
(* another one had locked, or the first send has not been recorded: a       *)
(* rejected, retried or requeued message does not.                          *)
RepeatHasReason ==
  /\ TypeOK
  /\ \A m \in Messages \ excused : sends[m] <= 1

(* failMessage has not logged it yet. *)
Logging(w, m) == task[w][m] \in {"log", "caught", "caught log"}

(* What is given up has never been sent, after all its retries, and has one *)
(* entry in the log, although failMessage may run twice for it.             *)
DeadMeansUnsent ==
  \A m \in Messages \ excused : status[m] = "dead" =>
    /\ sends[m] = 0 /\ retryCount[m] = MaxRetry
    /\ logs[m] = IF \E w \in Loops : Logging(w, m) THEN 0 ELSE 1

Settled(m) == status[m] \in {"sent", "dead", "delivered"}

(* What there was of a completed campaign at the count has nothing left to  *)
(* send, although the update comes later: no loop takes up again what has   *)
(* been sent or given up.                                                   *)
CompletedMeansSettled ==
  completed => \A m \in counted \ excused : Settled(m)

(* A message that is queued goes out or is given up, or a loop has died     *)
(* with it: such a row is only put back by a loop that has had a batch.     *)
QueuedSettles ==
  \A m \in Messages :
    status[m] = "queued" ~>
      \/ status[m] \in {"sent", "dead", "delivered"}
      \/ status[m] = "processing" /\ ~Held(m)
-----------------------------------------------------------------------------
(* Why they hold, of a message that is not excused.                        *)

Working(w, m) == at[w] = "work" /\ m \in batch[w]

(* It is put back only when no loop has it. *)
IsYoung(m) == status[m] \in {"none", "queued"} \/ Held(m) => ~old[m]

(* One loop processes it, from the copy of its row. *)
HasOneLoop(m) ==
  \A v, w \in Loops : Working(v, m) /\ Working(w, m) => v = w

TaskFits(m) ==
  \A w \in Loops :
    /\ task[w][m] \in {"send", "record", "fail"} => status[m] = "processing"
    /\ task[w][m] = "caught" => status[m] \in {"processing", "dead"}
    /\ task[w][m] \in {"log", "caught log"} => status[m] = "dead"
    /\ Running(w, m) => copy[w][m] = retryCount[m]

(* It has been sent when it is sent, or about to be recorded as sent; it is *)
(* logged when it is dead, or about to be.                                  *)
CountsFit(m) ==
  /\ sends[m] = IF status[m] \in {"sent", "delivered"} \/ \E w \in Loops : task[w][m] = "record"
                THEN 1 ELSE 0
  /\ logs[m] = IF status[m] = "dead" /\ \A w \in Loops : ~Logging(w, m) THEN 1 ELSE 0
  /\ retryCount[m] <= MaxRetry /\ (status[m] = "dead" => retryCount[m] = MaxRetry)

(* The count of CampaignWorker stays right until its update. *)
VerdictHolds ==
  verdict => \A m \in counted \ excused : Settled(m)

MessageInv(m) == IsYoung(m) /\ HasOneLoop(m) /\ TaskFits(m) /\ CountsFit(m)

WorkerInv ==
  /\ TypeOK /\ \A m \in Messages \ excused : MessageInv(m)
  /\ CompletedMeansSettled /\ VerdictHolds
=============================================================================
