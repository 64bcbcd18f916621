--------------------------- MODULE OutboundPipeline ---------------------------
(***************************************************************************)
(* The path of an outbound message: the POST handlers of                   *)
(* MessagesController write a message and an outbox row in one             *)
(* transaction; OutboxService.publishPending emits the PENDING rows on the *)
(* in-process event bus; OutboundListener turns every message.* event into *)
(* a BullMQ job whose id is the message id; OutboundProcessor sends it to  *)
(* Meta and records the wamid; WebhookProcessor.handleStatusUpdates        *)
(* records what Meta later reports of it, with another outbox row.         *)
(*                                                                         *)
(* Several processes run the same code (Nodes); each has one publisher,    *)
(* serialised by isProcessing, and some worker slots.  One step is one     *)
(* call to the database, to Redis or to Meta: everything else may happen   *)
(* between two of them.                                                    *)
(***************************************************************************)
EXTENDS Naturals, Sequences, FiniteSets

CONSTANTS
  Messages,          \* ids of the messages POSTed to /messages/send*
  Nodes,             \* processes running the application
  Slots,             \* worker slots of a process (concurrency: 5)
  NoAccount,         \* messages whose tenant has no WabaAccount row
  CallbackStatuses,  \* statuses Meta may report for a dispatched message
  Faults,            \* kinds of failure that may happen
  BatchSize,         \* rows one publishPending reads (50)
  MaxAttempts,       \* attempts of a job (3)
  MaxStalled,        \* times BullMQ puts a stalled job back (1)
  MaxMade,           \* bound: attempts with the operator's retries included
  MaxFaults,         \* bound: failures in one behaviour
  NoWorker, NoMessage

Workers == Nodes \X Slots
FaultKinds == {"crash", "stall", "db", "redis", "timeout"}
StatusKinds == {"SENT", "DELIVERED", "READ", "FAILED"}

ASSUME ConstantsAssumption ==
  /\ IsFiniteSet(Messages) /\ IsFiniteSet(Nodes) /\ IsFiniteSet(Slots)
  /\ NoAccount \subseteq Messages
  /\ CallbackStatuses \subseteq StatusKinds
  /\ Faults \subseteq FaultKinds
  /\ BatchSize \in Nat \ {0} /\ MaxAttempts \in Nat \ {0}
  /\ MaxStalled \in Nat /\ MaxMade \in Nat /\ MaxFaults \in Nat
  /\ NoWorker \notin Workers /\ NoMessage \notin Messages

VARIABLES
  \* PostgreSQL
  wamid,        \* message.wamid: 0 is NULL, k is the id of the k-th dispatch
  statuses,     \* statuses of the message's MessageStatusEvent rows
  outbox,       \* outbox rows in createdAt order
  \* publishPending of each process
  pubPc,        \* "idle" is isProcessing = false
  batch,        \* rows of pendingEvents not yet dealt with
  \* the "outbound" queue in Redis, one job per message id at most
  jobState, jobType, attemptsMade, stalledCount, lock,
  \* OutboundProcessor.process, per worker slot
  pc, cur, got,
  \* Meta
  dispatched,   \* sends of the message Meta accepted
  issued,       \* status callbacks Meta has issued
  inFlight,     \* those the webhook worker has not handled
  \* history
  unrecorded,   \* dispatches whose wamid will never be stored
  faults

dbVars     == <<wamid, statuses>>
pubVars    == <<pubPc, batch>>
queueVars  == <<jobState, jobType, attemptsMade, stalledCount, lock>>
workerVars == <<pc, cur, got>>
metaVars   == <<dispatched, unrecorded>>
hookVars   == <<issued, inFlight>>
vars == <<dbVars, outbox, pubVars, queueVars, workerVars, metaVars, hookVars, faults>>

Row == [type : {"send", "status"}, msg : Messages,
        state : {"PENDING", "PUBLISHED", "FAILED"}]
Callback == [msg : Messages, wamid : Nat, status : StatusKinds]

HasIntent(m) == \E i \in DOMAIN outbox : outbox[i].type = "send" /\ outbox[i].msg = m
NewRow(type, m) == [type |-> type, msg |-> m, state |-> "PENDING"]
WithState(row, s) == [type |-> row.type, msg |-> row.msg, state |-> s]

(* A failure of one of the kinds that the instance allows. *)
Fault(kind) ==
  /\ kind \in Faults
  /\ faults < MaxFaults
  /\ faults' = faults + 1

Init ==
  /\ wamid = [m \in Messages |-> 0]
  /\ statuses = [m \in Messages |-> {}]
  /\ outbox = <<>>
  /\ pubPc = [n \in Nodes |-> "idle"]
  /\ batch = [n \in Nodes |-> {}]
  /\ jobState = [m \in Messages |-> "none"]
  /\ jobType = [m \in Messages |-> "send"]
  /\ attemptsMade = [m \in Messages |-> 0]
  /\ stalledCount = [m \in Messages |-> 0]
  /\ lock = [m \in Messages |-> NoWorker]
  /\ pc = [w \in Workers |-> "idle"]
  /\ cur = [w \in Workers |-> NoMessage]
  /\ got = [w \in Workers |-> 0]
  /\ dispatched = [m \in Messages |-> 0]
  /\ unrecorded = [m \in Messages |-> {}]
  /\ issued = {}
  /\ inFlight = {}
  /\ faults = 0

-----------------------------------------------------------------------------
(* MessagesController: sendMessage, sendTemplate and sendMedia commit the  *)
(* message (wamid NULL) and its outbox row in one transaction.             *)

AcceptMessage(m) ==
  /\ ~HasIntent(m)
  /\ outbox' = Append(outbox, NewRow("send", m))
  /\ UNCHANGED <<dbVars, pubVars, queueVars, workerVars, metaVars, hookVars, faults>>

-----------------------------------------------------------------------------
(* OutboxService.publishPending and OutboundListener.handleMessageSend.    *)

IsPending(i) == outbox[i].state = "PENDING"

OldestPending ==
  {i \in DOMAIN outbox :
     /\ IsPending(i)
     /\ Cardinality({j \in DOMAIN outbox : j < i /\ IsPending(j)}) < BatchSize}

(* The row the loop of node n is at. *)
IsCurrent(n, i) == i \in batch[n] /\ \A j \in batch[n] : i <= j

(* The cron tick: skipped while isProcessing, ends at once when no row is PENDING. *)
ReadPending(n) ==
  /\ pubPc[n] = "idle"
  /\ OldestPending # {}
  /\ batch' = [batch EXCEPT ![n] = OldestPending]
  /\ pubPc' = [pubPc EXCEPT ![n] = "emit"]
  /\ UNCHANGED <<dbVars, outbox, queueVars, workerVars, metaVars, hookVars, faults>>

(* Mutant: no jobId, so adding starts the message over. *)
AddJobAlways(type, m) ==
  /\ jobState' = [jobState EXCEPT ![m] = "waiting"]
  /\ jobType' = [jobType EXCEPT ![m] = type]
  /\ attemptsMade' = [attemptsMade EXCEPT ![m] = 0]
  /\ stalledCount' = [stalledCount EXCEPT ![m] = 0]
  /\ UNCHANGED lock

(* queue.add: a job id that exists, in whatever state, makes it a no-op. *)
AddJob(type, m) ==
  IF jobState[m] = "none"
  THEN /\ jobState' = [jobState EXCEPT ![m] = "waiting"]
       /\ jobType' = [jobType EXCEPT ![m] = type]
       /\ attemptsMade' = [attemptsMade EXCEPT ![m] = 0]
       /\ stalledCount' = [stalledCount EXCEPT ![m] = 0]
       /\ UNCHANGED lock
  ELSE UNCHANGED queueVars

(* emitAsync reaches the listener's queue.add, whose error the listener swallows. *)
EmitEvent(n) ==
  /\ pubPc[n] = "emit"
  /\ \E i \in DOMAIN outbox :
       /\ IsCurrent(n, i)
       /\ \/ AddJob(outbox[i].type, outbox[i].msg) /\ UNCHANGED faults
          \/ Fault("redis") /\ UNCHANGED queueVars
  /\ pubPc' = [pubPc EXCEPT ![n] = "mark"]
  /\ UNCHANGED <<dbVars, outbox, batch, workerVars, metaVars, hookVars>>

(* The loop writes the row's state and goes on to the next row. *)
FinishRow(n, state) ==
  /\ \E i \in DOMAIN outbox :
       /\ IsCurrent(n, i)
       /\ outbox' = [outbox EXCEPT ![i] = WithState(@, state)]
       /\ batch' = [batch EXCEPT ![n] = @ \ {i}]
       /\ pubPc' = [pubPc EXCEPT ![n] = IF batch[n] = {i} THEN "idle" ELSE "emit"]
  /\ UNCHANGED <<dbVars, queueVars, workerVars, metaVars, hookVars, faults>>

MarkPublished(n) == pubPc[n] = "mark" /\ FinishRow(n, "PUBLISHED")

MarkPublishedFails(n) ==
  /\ pubPc[n] = "mark"
  /\ Fault("db")
  /\ pubPc' = [pubPc EXCEPT ![n] = "markFailed"]
  /\ UNCHANGED <<dbVars, outbox, batch, queueVars, workerVars, metaVars, hookVars>>

MarkFailed(n) == pubPc[n] = "markFailed" /\ FinishRow(n, "FAILED")

(* Mutant: no finally, isProcessing stays set. *)
MarkFailedFailsNoFinally(n) ==
  /\ pubPc[n] = "markFailed"
  /\ Fault("db")
  /\ batch' = [batch EXCEPT ![n] = {}]
  /\ UNCHANGED <<pubPc, dbVars, outbox, queueVars, workerVars, metaVars, hookVars>>

(* The update in the catch block throws: the loop is left, finally resets isProcessing. *)
MarkFailedFails(n) ==
  /\ pubPc[n] = "markFailed"
  /\ Fault("db")
  /\ pubPc' = [pubPc EXCEPT ![n] = "idle"]
  /\ batch' = [batch EXCEPT ![n] = {}]
  /\ UNCHANGED <<dbVars, outbox, queueVars, workerVars, metaVars, hookVars>>

PublisherStep(n) ==
  \/ ReadPending(n) \/ EmitEvent(n)
  \/ MarkPublished(n) \/ MarkPublishedFails(n)
  \/ MarkFailed(n) \/ MarkFailedFails(n)

-----------------------------------------------------------------------------
(* OutboundProcessor.process in worker slot w.                             *)

Goto(w, label) == pc' = [pc EXCEPT ![w] = label]

TakeJob(w) ==
  /\ pc[w] = "idle"
  /\ \E m \in Messages :
       /\ jobState[m] = "waiting"
       /\ jobState' = [jobState EXCEPT ![m] = "active"]
       /\ lock' = [lock EXCEPT ![m] = w]
       /\ cur' = [cur EXCEPT ![w] = m]
  /\ Goto(w, "check")
  /\ UNCHANGED <<dbVars, outbox, pubVars, jobType, attemptsMade, stalledCount,
                 got, metaVars, hookVars, faults>>

(* Mutant: the idempotency check is missing. *)
ReadStateUnchecked(w) ==
  /\ pc[w] = "check"
  /\ Goto(w, IF cur[w] \in NoAccount THEN "reject" ELSE "send")
  /\ UNCHANGED <<dbVars, outbox, pubVars, queueVars, cur, got, metaVars, hookVars, faults>>

(* The account first, then the idempotency check on the wamid just read. *)
ReadState(w) ==
  /\ pc[w] = "check"
  /\ Goto(w, IF cur[w] \in NoAccount THEN "reject"
             ELSE IF wamid[cur[w]] # 0 THEN "complete" ELSE "send")
  /\ UNCHANGED <<dbVars, outbox, pubVars, queueVars, cur, got, metaVars, hookVars, faults>>

(* The rate limiter refuses the tenant: an ordinary Error, hence a retry. *)
Throttled(w) ==
  /\ pc[w] = "check"
  /\ Goto(w, "retry")
  /\ UNCHANGED <<dbVars, outbox, pubVars, queueVars, cur, got, metaVars, hookVars, faults>>

MetaAccepts(w) ==
  /\ pc[w] = "send"
  /\ dispatched' = [dispatched EXCEPT ![cur[w]] = @ + 1]
  /\ got' = [got EXCEPT ![w] = dispatched[cur[w]] + 1]
  /\ Goto(w, "store")
  /\ UNCHANGED <<dbVars, outbox, pubVars, queueVars, cur, unrecorded, hookVars, faults>>

(* The token cannot be resolved, or Meta answers with one of permanentCodes. *)
PermanentError(w) ==
  /\ pc[w] = "send"
  /\ Goto(w, "reject")
  /\ UNCHANGED <<dbVars, outbox, pubVars, queueVars, cur, got, metaVars, hookVars, faults>>

TransientError(w) ==
  /\ pc[w] = "send"
  /\ Goto(w, "retry")
  /\ UNCHANGED <<dbVars, outbox, pubVars, queueVars, cur, got, metaVars, hookVars, faults>>

(* Meta has taken the message but the answer is lost: a transient error here. *)
ResponseLost(w) ==
  /\ pc[w] = "send"
  /\ Fault("timeout")
  /\ dispatched' = [dispatched EXCEPT ![cur[w]] = @ + 1]
  /\ unrecorded' = [unrecorded EXCEPT ![cur[w]] = @ \cup {dispatched[cur[w]] + 1}]
  /\ Goto(w, "retry")
  /\ UNCHANGED <<dbVars, outbox, pubVars, queueVars, cur, got, hookVars>>

(* Mutant: the SENT event is forgotten. *)
StoreWamidOnly(w) ==
  /\ pc[w] = "store"
  /\ wamid' = [wamid EXCEPT ![cur[w]] = got[w]]
  /\ Goto(w, "complete")
  /\ UNCHANGED <<statuses, outbox, pubVars, queueVars, cur, got, metaVars, hookVars, faults>>

StoreWamid(w) ==
  /\ pc[w] = "store"
  /\ wamid' = [wamid EXCEPT ![cur[w]] = got[w]]
  /\ Goto(w, "event")
  /\ UNCHANGED <<statuses, outbox, pubVars, queueVars, cur, got, metaVars, hookVars, faults>>

StoreWamidFails(w) ==
  /\ pc[w] = "store"
  /\ Fault("db")
  /\ unrecorded' = [unrecorded EXCEPT ![cur[w]] = @ \cup {got[w]}]
  /\ Goto(w, "retry")
  /\ UNCHANGED <<dbVars, outbox, pubVars, queueVars, cur, got, dispatched, hookVars>>

AddStatus(m, s) == statuses' = [statuses EXCEPT ![m] = @ \cup {s}]

RecordSent(w) ==
  /\ pc[w] = "event"
  /\ AddStatus(cur[w], "SENT")
  /\ Goto(w, "complete")
  /\ UNCHANGED <<wamid, outbox, pubVars, queueVars, cur, got, metaVars, hookVars, faults>>

RecordSentFails(w) ==
  /\ pc[w] = "event"
  /\ Fault("db")
  /\ Goto(w, "retry")
  /\ UNCHANGED <<dbVars, outbox, pubVars, queueVars, cur, got, metaVars, hookVars>>

(* The FAILED row of a permanent error; an error of that write is ignored. *)
RecordFailed(w) ==
  /\ pc[w] = "reject"
  /\ \/ AddStatus(cur[w], "FAILED") /\ UNCHANGED faults
     \/ Fault("db") /\ UNCHANGED statuses
  /\ Goto(w, "bury")
  /\ UNCHANGED <<wamid, outbox, pubVars, queueVars, cur, got, metaVars, hookVars>>

-----------------------------------------------------------------------------
(* BullMQ: what it does with the job once process has returned or thrown.  *)
(* A worker that no longer holds the job's lock changes nothing.           *)

Release(w) ==
  /\ Goto(w, "idle")
  /\ cur' = [cur EXCEPT ![w] = NoMessage]
  /\ got' = [got EXCEPT ![w] = 0]

SetJob(w, state, made) ==
  IF lock[cur[w]] = w
  THEN /\ jobState' = [jobState EXCEPT ![cur[w]] = state]
       /\ attemptsMade' = [attemptsMade EXCEPT ![cur[w]] = made]
       /\ lock' = [lock EXCEPT ![cur[w]] = NoWorker]
       /\ UNCHANGED <<jobType, stalledCount>>
  ELSE UNCHANGED queueVars

JobCompleted(w) ==        \* removeOnComplete: true
  /\ pc[w] = "complete"
  /\ SetJob(w, "none", 0)
  /\ Release(w)
  /\ UNCHANGED <<dbVars, outbox, pubVars, metaVars, hookVars, faults>>

(* Mutant: removeOnFail, as for completed jobs. *)
JobThrewRemoved(w) ==
  LET made == attemptsMade[cur[w]] + 1
  IN /\ pc[w] = "retry"
     /\ SetJob(w, IF made < MaxAttempts THEN "delayed" ELSE "none", made)
     /\ Release(w)
     /\ UNCHANGED <<dbVars, outbox, pubVars, metaVars, hookVars, faults>>

JobThrew(w) ==
  LET made == attemptsMade[cur[w]] + 1
  IN /\ pc[w] = "retry"
     /\ SetJob(w, IF made < MaxAttempts THEN "delayed" ELSE "failed", made)
     /\ Release(w)
     /\ UNCHANGED <<dbVars, outbox, pubVars, metaVars, hookVars, faults>>

JobUnrecoverable(w) ==
  /\ pc[w] = "bury"
  /\ SetJob(w, "failed", attemptsMade[cur[w]] + 1)
  /\ Release(w)
  /\ UNCHANGED <<dbVars, outbox, pubVars, metaVars, hookVars, faults>>

WorkerStep(w) ==
  \/ ReadState(w) \/ Throttled(w)
  \/ MetaAccepts(w) \/ PermanentError(w) \/ TransientError(w) \/ ResponseLost(w)
  \/ StoreWamid(w) \/ StoreWamidFails(w)
  \/ RecordSent(w) \/ RecordSentFails(w) \/ RecordFailed(w)
  \/ JobCompleted(w) \/ JobThrew(w) \/ JobUnrecoverable(w)

BackoffElapsed(m) ==
  /\ jobState[m] = "delayed"
  /\ jobState' = [jobState EXCEPT ![m] = "waiting"]
  /\ UNCHANGED <<dbVars, outbox, pubVars, jobType, attemptsMade, stalledCount, lock,
                 workerVars, metaVars, hookVars, faults>>

(* The stalled-job check finds an active job whose lock has expired. *)
PutBackStalled(m) ==
  /\ jobState[m] = "active"
  /\ lock' = [lock EXCEPT ![m] = NoWorker]
  /\ IF stalledCount[m] < MaxStalled
     THEN /\ jobState' = [jobState EXCEPT ![m] = "waiting"]
          /\ stalledCount' = [stalledCount EXCEPT ![m] = @ + 1]
     ELSE /\ jobState' = [jobState EXCEPT ![m] = "failed"]
          /\ UNCHANGED stalledCount
  /\ UNCHANGED <<dbVars, outbox, pubVars, jobType, attemptsMade, workerVars, metaVars, hookVars>>

RecoverOrphan(m) == lock[m] = NoWorker /\ PutBackStalled(m) /\ UNCHANGED faults
LockExpires(m) == lock[m] # NoWorker /\ Fault("stall") /\ PutBackStalled(m)

(* ManagementController.retryJob: job.retry() of a failed job. *)
RetryFailedJob(m) ==
  /\ jobState[m] = "failed"
  /\ attemptsMade[m] < MaxMade
  /\ jobState' = [jobState EXCEPT ![m] = "waiting"]
  /\ UNCHANGED <<dbVars, outbox, pubVars, jobType, attemptsMade, stalledCount, lock,
                 workerVars, metaVars, hookVars, faults>>

-----------------------------------------------------------------------------
(* A process dies and is restarted; its jobs stay active without a holder. *)

Crash(n) ==
  LET mine == {w \in Workers : w[1] = n}
      held(m) == {w \in mine : pc[w] = "store" /\ cur[w] = m}
  IN /\ Fault("crash")
     /\ pubPc' = [pubPc EXCEPT ![n] = "idle"]
     /\ batch' = [batch EXCEPT ![n] = {}]
     /\ pc' = [w \in Workers |-> IF w \in mine THEN "idle" ELSE pc[w]]
     /\ cur' = [w \in Workers |-> IF w \in mine THEN NoMessage ELSE cur[w]]
     /\ got' = [w \in Workers |-> IF w \in mine THEN 0 ELSE got[w]]
     /\ lock' = [m \in Messages |-> IF lock[m] \in mine THEN NoWorker ELSE lock[m]]
     /\ unrecorded' = [m \in Messages |-> unrecorded[m] \cup {got[w] : w \in held(m)}]
     /\ UNCHANGED <<dbVars, outbox, jobState, jobType, attemptsMade, stalledCount,
                    dispatched, hookVars>>

-----------------------------------------------------------------------------
(* Meta reports on a dispatch, in any order and at any time after it; the  *)
(* webhook worker looks the wamid up (WebhookProcessor.handleStatusUpdates); *)
(* the status of a wamid that is not stored yet is dropped.                 *)

IssueCallback(m) ==
  \E s \in CallbackStatuses, k \in 1..dispatched[m] :
    LET c == [msg |-> m, wamid |-> k, status |-> s]
    IN /\ c \notin issued
       /\ issued' = issued \cup {c}
       /\ inFlight' = inFlight \cup {c}
       /\ UNCHANGED <<dbVars, outbox, pubVars, queueVars, workerVars, metaVars, faults>>

HandleCallback(c) ==
  /\ c \in inFlight
  /\ inFlight' = inFlight \ {c}
  /\ \/ /\ wamid[c.msg] = c.wamid
        /\ AddStatus(c.msg, c.status)
        /\ outbox' = Append(outbox, NewRow("status", c.msg))
     \/ /\ wamid[c.msg] # c.wamid
        /\ UNCHANGED <<statuses, outbox>>
  /\ UNCHANGED <<wamid, pubVars, queueVars, workerVars, metaVars, issued, faults>>

-----------------------------------------------------------------------------
Next ==
  \/ \E m \in Messages :
       \/ AcceptMessage(m) \/ BackoffElapsed(m) \/ RecoverOrphan(m) \/ LockExpires(m)
       \/ RetryFailedJob(m) \/ IssueCallback(m)
  \/ \E n \in Nodes : PublisherStep(n) \/ Crash(n)
  \/ \E w \in Workers : TakeJob(w) \/ WorkerStep(w)
  \/ \E c \in inFlight : HandleCallback(c)

Spec == Init /\ [][Next]_vars

(* The cron fires every second, BullMQ keeps its workers, its delayed set   *)
(* and its stalled check going.  Nothing forces a request, a callback, a    *)
(* failure or an operator.                                                  *)
Fairness ==
  /\ \A n \in Nodes : WF_vars(PublisherStep(n))
  /\ \A w \in Workers : WF_vars(TakeJob(w)) /\ WF_vars(WorkerStep(w))
  /\ \A m \in Messages : WF_vars(BackoffElapsed(m)) /\ WF_vars(RecoverOrphan(m))

FairSpec == Spec /\ Fairness

-----------------------------------------------------------------------------
DbType ==
  /\ wamid \in [Messages -> Nat]
  /\ statuses \in [Messages -> SUBSET StatusKinds]

OutboxType ==
  /\ outbox \in Seq(Row)
  /\ pubPc \in [Nodes -> {"idle", "emit", "mark", "markFailed"}]
  /\ batch \in [Nodes -> SUBSET (DOMAIN outbox)]

QueueType ==
  /\ jobState \in [Messages -> {"none", "waiting", "active", "delayed", "failed"}]
  /\ jobType \in [Messages -> {"send", "status"}]
  /\ attemptsMade \in [Messages -> Nat]
  /\ stalledCount \in [Messages -> Nat]
  /\ lock \in [Messages -> Workers \cup {NoWorker}]

WorkerType ==
  /\ pc \in [Workers -> {"idle", "check", "send", "store", "event", "reject",
                         "complete", "retry", "bury"}]
  /\ cur \in [Workers -> Messages \cup {NoMessage}]
  /\ got \in [Workers -> Nat]
  /\ \A w \in Workers : (cur[w] = NoMessage) <=> (pc[w] = "idle")

MetaType ==
  /\ dispatched \in [Messages -> Nat]
  /\ unrecorded \in [Messages -> SUBSET Nat]

HookType == issued \subseteq Callback /\ inFlight \subseteq issued

(* Every variable keeps its type: the rows of a batch exist, a lock is a    *)
(* worker's or nobody's, a slot has a message exactly while process runs.   *)
TypeOK ==
  DbType /\ OutboxType /\ QueueType /\ WorkerType /\ MetaType /\ HookType /\ faults \in Nat

-----------------------------------------------------------------------------
(* Properties.  Which kinds of failure each of them survives is for the     *)
(* instances and the theorems to say.                                       *)

(* Of all the hand-overs of a message to Meta, every one but the last lost  *)
(* its record: its run died, or failed, between Meta's acceptance and the   *)
(* update of message.wamid.  The job id, the lock and the wamid check keep  *)
(* several publishers and workers from sending a message twice otherwise.   *)
DuplicateOnlyAfterLostRecord ==
  \A m \in Messages : \A k \in 1..dispatched[m] :
    k < dispatched[m] => k \in unrecorded[m]

HandedOver(m) == jobState[m] # "none" \/ wamid[m] # 0

(* An outbox row that is no longer PENDING has a job in the queue, or its   *)
(* message has been sent: nothing else would ever look at the row again.    *)
NoLostIntent ==
  \A i \in DOMAIN outbox : ~IsPending(i) => HandedOver(outbox[i].msg)

(* The wamid check lets through what it should, no more.  The listener      *)
(* turns every message.* event into a job, status updates too: such a job,  *)
(* which carries no recipient, never gets as far as Meta.  And a run that   *)
(* is about to report FAILED belongs to a message that has no recorded      *)
(* dispatch: the agent is not told that a sent message failed.              *)
OnlyDueRunsPassTheCheck ==
  /\ TypeOK
  /\ \A w \in Workers :
       /\ pc[w] \in {"send", "store", "event", "reject"} => jobType[cur[w]] = "send"
       /\ pc[w] = "reject" => wamid[cur[w]] = 0

(* Once stored, the wamid that Meta's callbacks refer to is not replaced.   *)
WamidKept ==
  [][\A m \in Messages : wamid[m] # 0 => wamid'[m] = wamid[m]]_vars

(* A recorded dispatch has its SENT event, or its worker is about to write  *)
(* it, as long as nothing has failed: the event is not retried.             *)
SentRecorded ==
  \A m \in Messages : faults = 0 /\ wamid[m] # 0 =>
    \/ "SENT" \in statuses[m]
    \/ \E w \in Workers : pc[w] = "event" /\ cur[w] = m

(* A message that was accepted is sent, or its job ends in the failed set.  *)
EveryIntentSettles ==
  \A m \in Messages : HasIntent(m) ~> (wamid[m] # 0 \/ jobState[m] = "failed")

(* Why the four properties above hold while no lock expires: a run holds   *)
(* the lock of its job, so a message has one run at most, and what the run *)
(* has read of the message stays true until the run itself changes it.     *)
RunHoldsLock ==
  \A w \in Workers : pc[w] # "idle" => jobState[cur[w]] = "active" /\ lock[cur[w]] = w

RunState ==
  \A w \in Workers :
    /\ pc[w] \in {"send", "store", "event"} => cur[w] \notin NoAccount
    /\ pc[w] \in {"send", "store", "reject"} => wamid[cur[w]] = 0
    /\ pc[w] = "store" => got[w] = dispatched[cur[w]] /\ got[w] # 0
    /\ pc[w] = "event" => jobType[cur[w]] = "send"

InStore(m) == \E w \in Workers : pc[w] = "store" /\ cur[w] = m

Accounted ==
  \A m \in Messages :
    wamid[m] = 0 /\ ~InStore(m) => 1..dispatched[m] \subseteq unrecorded[m]

StatusImpliesRecorded ==
  /\ \A m \in NoAccount : wamid[m] = 0
  /\ \A c \in issued : c.wamid # 0
  /\ \A i \in DOMAIN outbox : outbox[i].type = "status" => wamid[outbox[i].msg] # 0
  /\ \A m \in Messages : jobType[m] = "status" => wamid[m] # 0

(* Every reason a second dispatch cannot follow a recorded one, together. *)
DispatchInv ==
  /\ RunHoldsLock
  /\ RunState
  /\ Accounted
  /\ StatusImpliesRecorded
  /\ DuplicateOnlyAfterLostRecord

(* Why no intent is lost: a run that completes its job, or is past storing  *)
(* the wamid, has a recorded message; a publisher marks a row only after    *)
(* the job of the row was added.                                            *)
PastStoreRecorded ==
  \A w \in Workers : pc[w] \in {"event", "complete"} => wamid[cur[w]] # 0

GotId == \A w \in Workers : pc[w] = "store" => got[w] # 0

MarkedAfterEmit ==
  \A n \in Nodes : pubPc[n] \in {"mark", "markFailed"} =>
    \A i \in DOMAIN outbox : IsCurrent(n, i) => HandedOver(outbox[i].msg)

IntentInv == PastStoreRecorded /\ GotId /\ MarkedAfterEmit /\ NoLostIntent

(* Nothing is queued or sent for a message that was never POSTed. *)
IntentFirst ==
  \A m \in Messages : ~HasIntent(m) => wamid[m] = 0 /\ jobState[m] = "none"

(* The message as its sender sees it. *)
MessageState(m) ==
  IF ~HasIntent(m) THEN "new"
  ELSE IF wamid[m] # 0 THEN "recorded"
  ELSE IF jobState[m] = "failed" THEN "givenUp" ELSE "accepted"

(* Without expired locks the pipeline implements RecordedDispatch. *)
Abstract == INSTANCE RecordedDispatch
              WITH state <- [m \in Messages |-> MessageState(m)], copies <- dispatched
ImplementsRecordedDispatch == Abstract!Spec
=============================================================================
