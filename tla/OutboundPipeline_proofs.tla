----------------------- MODULE OutboundPipeline_proofs -----------------------
(* Theorems of OutboundPipeline, for every set of messages, processes and  *)
(* worker slots and every bound.                                           *)
EXTENDS OutboundPipeline, TLAPS

-----------------------------------------------------------------------------
(* Type correctness.                                                       *)

(* The part of TypeOK about variables that a step leaves alone. *)
LEMMA UnchangedTypes ==
  ASSUME TypeOK
  PROVE  /\ UNCHANGED dbVars => DbType'
         /\ UNCHANGED <<outbox, pubVars>> => OutboxType'
         /\ UNCHANGED queueVars => QueueType'
         /\ UNCHANGED workerVars => WorkerType'
         /\ UNCHANGED metaVars => MetaType'
         /\ UNCHANGED hookVars => HookType'
<1>1. UNCHANGED dbVars => DbType'
  BY DEF TypeOK, DbType, dbVars
<1>2. UNCHANGED <<outbox, pubVars>> => OutboxType'
  BY DEF TypeOK, OutboxType, pubVars
<1>3. UNCHANGED queueVars => QueueType'
  BY DEF TypeOK, QueueType, queueVars
<1>4. UNCHANGED workerVars => WorkerType'
  BY DEF TypeOK, WorkerType, workerVars
<1>5. UNCHANGED metaVars => MetaType'
  BY DEF TypeOK, MetaType, metaVars
<1>6. UNCHANGED hookVars => HookType'
  BY DEF TypeOK, HookType, hookVars
<1> QED BY <1>1, <1>2, <1>3, <1>4, <1>5, <1>6

(* What a row of the outbox is made of. *)
LEMMA RowFields ==
  ASSUME TypeOK, NEW i \in DOMAIN outbox
  PROVE  /\ outbox \in Seq(Row)
         /\ outbox[i].type \in {"send", "status"}
         /\ outbox[i].msg \in Messages
         /\ \A s \in {"PUBLISHED", "FAILED"} : WithState(outbox[i], s) \in Row
<1>1. outbox \in Seq(Row) /\ outbox[i] \in Row
  BY DEF TypeOK, OutboxType
<1>2. outbox[i].type \in {"send", "status"} /\ outbox[i].msg \in Messages
  BY <1>1 DEF Row
<1> QED BY <1>1, <1>2 DEF WithState, Row

(* Appending a PENDING row. *)
LEMMA AppendRow ==
  ASSUME TypeOK, NEW m \in Messages, NEW t \in {"send", "status"},
         outbox' = Append(outbox, NewRow(t, m)), UNCHANGED pubVars
  PROVE  OutboxType'
<1>1. outbox' \in Seq(Row)
  BY DEF TypeOK, OutboxType, NewRow, Row
<1>2. DOMAIN outbox \subseteq DOMAIN outbox'
  BY DEF TypeOK, OutboxType
<1> QED BY <1>1, <1>2 DEF TypeOK, OutboxType, pubVars

(* A slot that runs process has a message. *)
LEMMA RunningWorker ==
  ASSUME TypeOK, NEW w \in Workers, pc[w] # "idle"
  PROVE  cur[w] \in Messages
BY DEF TypeOK, WorkerType

(* BullMQ's answer to the end of a run. *)
LEMMA SettledTypes ==
  ASSUME TypeOK, NEW w \in Workers, pc[w] # "idle", NEW made \in Nat,
         NEW state \in {"none", "delayed", "failed"}, SetJob(w, state, made), Release(w)
  PROVE  QueueType' /\ WorkerType'
<1>1. cur[w] \in Messages
  BY RunningWorker
<1>2. QueueType'
  <2>1. CASE lock[cur[w]] = w
    BY <1>1, <2>1 DEF TypeOK, QueueType, SetJob
  <2>2. CASE lock[cur[w]] # w
    BY <2>2, UnchangedTypes DEF SetJob
  <2> QED BY <2>1, <2>2
<1>3. WorkerType'
  BY ConstantsAssumption DEF TypeOK, WorkerType, Release, Goto
<1> QED BY <1>2, <1>3

LEMMA MessageStepTypes ==
  ASSUME TypeOK, NEW m \in Messages
  PROVE  AcceptMessage(m) \/ BackoffElapsed(m) \/ RecoverOrphan(m) \/ LockExpires(m)
           \/ RetryFailedJob(m) \/ IssueCallback(m) => TypeOK'
<1> USE UnchangedTypes
<1>1. CASE AcceptMessage(m)
  BY <1>1, AppendRow DEF AcceptMessage, TypeOK
<1>2. CASE BackoffElapsed(m) \/ RetryFailedJob(m)
  <2>1. QueueType'
    BY <1>2 DEF TypeOK, QueueType, BackoffElapsed, RetryFailedJob
  <2> QED BY <1>2, <2>1 DEF TypeOK, BackoffElapsed, RetryFailedJob
<1>3. CASE RecoverOrphan(m) \/ LockExpires(m)
  <2>1. PutBackStalled(m)
    BY <1>3 DEF RecoverOrphan, LockExpires
  <2>2. faults' \in Nat
    BY <1>3 DEF RecoverOrphan, LockExpires, Fault, TypeOK
  <2>3. QueueType'
    BY <2>1 DEF TypeOK, QueueType, PutBackStalled
  <2> QED BY <2>1, <2>2, <2>3 DEF TypeOK, PutBackStalled
<1>4. CASE IssueCallback(m)
  <2>1. PICK s \in CallbackStatuses, k \in 1..dispatched[m] :
          /\ issued' = issued \cup {[msg |-> m, wamid |-> k, status |-> s]}
          /\ inFlight' = inFlight \cup {[msg |-> m, wamid |-> k, status |-> s]}
    BY <1>4 DEF IssueCallback
  <2>2. dispatched[m] \in Nat /\ s \in StatusKinds
    BY ConstantsAssumption DEF TypeOK, MetaType
  <2>3. [msg |-> m, wamid |-> k, status |-> s] \in Callback
    BY <2>2 DEF Callback
  <2>4. HookType'
    BY <2>1, <2>3 DEF TypeOK, HookType
  <2> QED BY <1>4, <2>4 DEF TypeOK, IssueCallback
<1> QED BY <1>1, <1>2, <1>3, <1>4

LEMMA PublisherStepTypes ==
  ASSUME TypeOK, NEW n \in Nodes, PublisherStep(n)
  PROVE  TypeOK'
<1> USE UnchangedTypes
<1>1. CASE ReadPending(n)
  <2>1. OutboxType'
    BY <1>1 DEF TypeOK, OutboxType, ReadPending, OldestPending
  <2> QED BY <1>1, <2>1 DEF TypeOK, ReadPending
<1>2. CASE EmitEvent(n)
  <2>1. OutboxType'
    BY <1>2 DEF TypeOK, OutboxType, EmitEvent
  <2>2. PICK i \in DOMAIN outbox :
          \/ AddJob(outbox[i].type, outbox[i].msg) /\ UNCHANGED faults
          \/ Fault("redis") /\ UNCHANGED queueVars
    BY <1>2 DEF EmitEvent
  <2>3. outbox[i].type \in {"send", "status"} /\ outbox[i].msg \in Messages
    BY RowFields
  <2>4. QueueType'
    <3>1. CASE UNCHANGED queueVars
      BY <3>1
    <3>2. CASE AddJob(outbox[i].type, outbox[i].msg) /\ jobState[outbox[i].msg] = "none"
      BY <2>3, <3>2 DEF TypeOK, QueueType, AddJob
    <3> QED BY <2>2, <3>1, <3>2 DEF AddJob
  <2>5. faults' \in Nat
    BY <2>2 DEF TypeOK, Fault
  <2> QED BY <1>2, <2>1, <2>4, <2>5 DEF TypeOK, EmitEvent
<1>3. ASSUME NEW s \in {"PUBLISHED", "FAILED"}, FinishRow(n, s) PROVE TypeOK'
  <2>1. PICK i \in DOMAIN outbox :
          /\ outbox' = [outbox EXCEPT ![i] = WithState(@, s)]
          /\ batch' = [batch EXCEPT ![n] = @ \ {i}]
          /\ pubPc' = [pubPc EXCEPT ![n] = IF batch[n] = {i} THEN "idle" ELSE "emit"]
    BY <1>3 DEF FinishRow
  <2>2. outbox \in Seq(Row) /\ WithState(outbox[i], s) \in Row
    BY RowFields
  <2>3. outbox' \in Seq(Row) /\ DOMAIN outbox' = DOMAIN outbox
    <3>1. DOMAIN outbox = 1..Len(outbox) /\ Len(outbox) \in Nat
      BY <2>2
    <3>2. DOMAIN outbox' = DOMAIN outbox /\ \A j \in DOMAIN outbox : outbox'[j] \in Row
      BY <2>1, <2>2
    <3> QED BY <2>1, <2>2, <3>1, <3>2
  <2>4. OutboxType'
    BY <2>1, <2>3 DEF TypeOK, OutboxType
  <2> QED BY <1>3, <2>4 DEF TypeOK, FinishRow
<1>4. CASE MarkPublishedFails(n) \/ MarkFailedFails(n)
  <2>1. OutboxType'
    BY <1>4 DEF TypeOK, OutboxType, MarkPublishedFails, MarkFailedFails
  <2>2. faults' \in Nat
    BY <1>4 DEF TypeOK, MarkPublishedFails, MarkFailedFails, Fault
  <2> QED BY <1>4, <2>1, <2>2 DEF TypeOK, MarkPublishedFails, MarkFailedFails
<1> QED BY <1>1, <1>2, <1>3, <1>4 DEF PublisherStep, MarkPublished, MarkFailed

LEMMA WorkerStepTypes ==
  ASSUME TypeOK, NEW w \in Workers, TakeJob(w) \/ WorkerStep(w)
  PROVE  TypeOK'
<1> USE UnchangedTypes
<1>1. CASE TakeJob(w)
  <2>1. QueueType' /\ WorkerType'
    BY <1>1, ConstantsAssumption DEF TypeOK, QueueType, WorkerType, TakeJob, Goto
  <2> QED BY <1>1, <2>1 DEF TypeOK, TakeJob
<1>2. CASE ReadState(w) \/ Throttled(w) \/ PermanentError(w) \/ TransientError(w)
  <2>1. WorkerType'
    BY <1>2 DEF TypeOK, WorkerType, ReadState, Throttled, PermanentError, TransientError, Goto
  <2> QED BY <1>2, <2>1 DEF TypeOK, ReadState, Throttled, PermanentError, TransientError
<1>3. CASE MetaAccepts(w) \/ ResponseLost(w)
  <2>1. cur[w] \in Messages
    BY <1>3, RunningWorker DEF MetaAccepts, ResponseLost
  <2>2. WorkerType' /\ MetaType'
    BY <1>3, <2>1 DEF TypeOK, WorkerType, MetaType, MetaAccepts, ResponseLost, Goto
  <2>3. faults' \in Nat
    BY <1>3 DEF TypeOK, MetaAccepts, ResponseLost, Fault
  <2> QED BY <1>3, <2>2, <2>3 DEF TypeOK, MetaAccepts, ResponseLost
<1>4. CASE StoreWamid(w)
  <2>1. DbType' /\ WorkerType'
    BY <1>4 DEF TypeOK, DbType, WorkerType, StoreWamid, Goto
  <2> QED BY <1>4, <2>1 DEF TypeOK, StoreWamid
<1>5. CASE StoreWamidFails(w)
  <2>1. WorkerType' /\ MetaType'
    BY <1>5 DEF TypeOK, WorkerType, MetaType, StoreWamidFails, Goto
  <2> QED BY <1>5, <2>1 DEF TypeOK, StoreWamidFails, Fault
<1>6. CASE RecordSent(w) \/ RecordSentFails(w) \/ RecordFailed(w)
  <2>1. DbType' /\ WorkerType'
    BY <1>6 DEF TypeOK, DbType, WorkerType, RecordSent, RecordSentFails, RecordFailed,
       AddStatus, Goto, StatusKinds, dbVars
  <2>2. faults' \in Nat
    BY <1>6 DEF TypeOK, RecordSent, RecordSentFails, RecordFailed, Fault
  <2> QED BY <1>6, <2>1, <2>2 DEF TypeOK, RecordSent, RecordSentFails, RecordFailed
<1>7. CASE JobCompleted(w) \/ JobThrew(w) \/ JobUnrecoverable(w)
  <2>1. cur[w] \in Messages
    BY <1>7, RunningWorker DEF JobCompleted, JobThrew, JobUnrecoverable
  <2>2. attemptsMade[cur[w]] + 1 \in Nat
    BY <2>1 DEF TypeOK, QueueType
  <2>3. QueueType' /\ WorkerType'
    BY <1>7, <2>2, SettledTypes DEF JobCompleted, JobThrew, JobUnrecoverable
  <2> QED BY <1>7, <2>3 DEF TypeOK, JobCompleted, JobThrew, JobUnrecoverable
<1> QED BY <1>1, <1>2, <1>3, <1>4, <1>5, <1>6, <1>7 DEF WorkerStep

LEMMA CrashTypes ==
  ASSUME TypeOK, NEW n \in Nodes, Crash(n)
  PROVE  TypeOK'
<1> USE UnchangedTypes
<1>1. OutboxType'
  BY DEF TypeOK, OutboxType, Crash
<1>2. QueueType'
  BY DEF TypeOK, QueueType, Crash
<1>3. WorkerType'
  BY DEF TypeOK, WorkerType, Crash
<1>4. MetaType'
  BY DEF TypeOK, MetaType, WorkerType, Crash
<1> QED BY <1>1, <1>2, <1>3, <1>4 DEF TypeOK, Crash, Fault

LEMMA CallbackTypes ==
  ASSUME TypeOK, NEW c \in inFlight, HandleCallback(c)
  PROVE  TypeOK'
<1> USE UnchangedTypes
<1>1. c \in issued /\ c.msg \in Messages /\ c.status \in StatusKinds
  BY DEF TypeOK, HookType, Callback
<1>2. DbType'
  BY <1>1 DEF TypeOK, DbType, HandleCallback, AddStatus
<1>3. OutboxType'
  BY <1>1, AppendRow DEF HandleCallback
<1>4. HookType'
  BY <1>1 DEF TypeOK, HookType, HandleCallback
<1> QED BY <1>2, <1>3, <1>4 DEF TypeOK, HandleCallback

(* The variables of OutboundPipeline keep their types: the rows of a batch *)
(* exist, the lock of a job is a worker's or nobody's, and a slot has a    *)
(* message exactly while process runs.                                     *)
THEOREM TypeCorrect == Spec => []TypeOK
<1>1. Init => TypeOK
  BY ConstantsAssumption DEF Init, TypeOK, DbType, OutboxType, QueueType, WorkerType,
     MetaType, HookType
<1>2. TypeOK /\ [Next]_vars => TypeOK'
  <2>1. TypeOK /\ UNCHANGED vars => TypeOK'
    BY UnchangedTypes DEF TypeOK, vars
  <2> QED BY <2>1, MessageStepTypes, PublisherStepTypes, WorkerStepTypes, CrashTypes,
            CallbackTypes DEF Next
<1> QED BY <1>1, <1>2, PTL DEF Spec

-----------------------------------------------------------------------------
(* No intent is lost while Redis answers.                                  *)

(* What a step may do to the run of a slot: a run that gets past storing   *)
(* the wamid has a recorded message.                                       *)
LEMMA RunStep ==
  ASSUME TypeOK, PastStoreRecorded, GotId, [Next]_vars
  PROVE  /\ PastStoreRecorded' /\ GotId'
         /\ \A m \in Messages : wamid[m] # 0 => wamid'[m] # 0
<1> USE DEF PastStoreRecorded, GotId
<1>1. CASE UNCHANGED <<wamid, pc, cur, got>>
  BY <1>1
<1>2. ASSUME NEW n \in Nodes, Crash(n)
      PROVE  PastStoreRecorded' /\ GotId' /\ UNCHANGED wamid
  BY <1>2 DEF Crash, dbVars, TypeOK, WorkerType
<1>3. ASSUME NEW w \in Workers, TakeJob(w)
      PROVE  PastStoreRecorded' /\ GotId' /\ UNCHANGED wamid
  BY <1>3 DEF TakeJob, Goto, dbVars, TypeOK, WorkerType
<1>4. ASSUME NEW w \in Workers, WorkerStep(w)
      PROVE  /\ PastStoreRecorded' /\ GotId'
             /\ \A m \in Messages : wamid[m] # 0 => wamid'[m] # 0
  <2>1. CASE ReadState(w) \/ Throttled(w) \/ PermanentError(w) \/ TransientError(w)
    BY <2>1 DEF ReadState, Throttled, PermanentError, TransientError, Goto, dbVars,
       TypeOK, WorkerType
  <2>2. CASE MetaAccepts(w) \/ ResponseLost(w)
    <3>1. cur[w] \in Messages
      BY <2>2, RunningWorker DEF MetaAccepts, ResponseLost
    <3>2. dispatched[cur[w]] + 1 # 0
      BY <3>1 DEF TypeOK, MetaType
    <3> QED BY <2>2, <3>2 DEF MetaAccepts, ResponseLost, Goto, dbVars, TypeOK, WorkerType
  <2>3. CASE StoreWamid(w) \/ StoreWamidFails(w)
    <3>1. cur[w] \in Messages
      BY <2>3, RunningWorker DEF StoreWamid, StoreWamidFails
    <3> QED BY <2>3, <3>1 DEF StoreWamid, StoreWamidFails, Goto, dbVars,
               TypeOK, WorkerType, DbType
  <2>4. CASE RecordSent(w) \/ RecordSentFails(w) \/ RecordFailed(w)
    BY <2>4 DEF RecordSent, RecordSentFails, RecordFailed, Goto, dbVars, TypeOK, WorkerType
  <2>5. CASE JobCompleted(w) \/ JobThrew(w) \/ JobUnrecoverable(w)
    BY <2>5 DEF JobCompleted, JobThrew, JobUnrecoverable, Release, Goto, dbVars,
       TypeOK, WorkerType
  <2> QED BY <1>4, <2>1, <2>2, <2>3, <2>4, <2>5 DEF WorkerStep
<1>5. ASSUME NEW m \in Messages,
             \/ AcceptMessage(m) \/ BackoffElapsed(m) \/ RecoverOrphan(m) \/ LockExpires(m)
             \/ RetryFailedJob(m) \/ IssueCallback(m)
      PROVE  UNCHANGED <<wamid, pc, cur, got>>
  BY <1>5 DEF AcceptMessage, BackoffElapsed, RecoverOrphan, LockExpires, PutBackStalled,
     RetryFailedJob, IssueCallback, dbVars, workerVars
<1>6. ASSUME NEW n \in Nodes, PublisherStep(n)
      PROVE  UNCHANGED <<wamid, pc, cur, got>>
  BY <1>6 DEF PublisherStep, ReadPending, EmitEvent, MarkPublished, MarkPublishedFails,
     MarkFailed, MarkFailedFails, FinishRow, dbVars, workerVars
<1>7. ASSUME NEW c \in inFlight, HandleCallback(c)
      PROVE  UNCHANGED <<wamid, pc, cur, got>>
  BY <1>7 DEF HandleCallback, workerVars
<1>8. UNCHANGED vars => UNCHANGED <<wamid, pc, cur, got>>
  BY DEF vars, dbVars, workerVars
<1> QED BY <1>1, <1>2, <1>3, <1>4, <1>5, <1>6, <1>7, <1>8 DEF Next

(* A message that has a job, or is sent, stays so: BullMQ forgets a job    *)
(* only on completion, and a run completes only on a recorded message.     *)
LEMMA HandedOverKept ==
  ASSUME TypeOK, PastStoreRecorded, GotId, [Next]_vars, NEW m \in Messages, HandedOver(m)
  PROVE  HandedOver(m)'
<1> USE DEF HandedOver
<1>1. wamid[m] # 0 => wamid'[m] # 0
  BY RunStep
<1>2. SUFFICES ASSUME wamid[m] = 0, jobState[m] # "none" PROVE jobState'[m] # "none"
  BY <1>1
<1>3. CASE UNCHANGED queueVars
  BY <1>2, <1>3 DEF queueVars
<1>4. ASSUME NEW k \in Messages,
             \/ BackoffElapsed(k) \/ RecoverOrphan(k) \/ LockExpires(k) \/ RetryFailedJob(k)
      PROVE  jobState'[m] # "none"
  BY <1>2, <1>4 DEF BackoffElapsed, RecoverOrphan, LockExpires, PutBackStalled,
     RetryFailedJob, TypeOK, QueueType
<1>5. ASSUME NEW n \in Nodes, EmitEvent(n) PROVE jobState'[m] # "none"
  <2>1. PICK i \in DOMAIN outbox :
          AddJob(outbox[i].type, outbox[i].msg) \/ UNCHANGED queueVars
    BY <1>5 DEF EmitEvent
  <2>2. CASE UNCHANGED queueVars
    BY <1>3, <2>2
  <2>3. CASE jobState' = [jobState EXCEPT ![outbox[i].msg] = "waiting"]
    BY <1>2, <2>3, RowFields DEF TypeOK, QueueType
  <2> QED BY <2>1, <2>2, <2>3 DEF AddJob
<1>6. ASSUME NEW w \in Workers, TakeJob(w) PROVE jobState'[m] # "none"
  BY <1>2, <1>6 DEF TakeJob, TypeOK, QueueType
<1>7. ASSUME NEW w \in Workers, JobCompleted(w) PROVE jobState'[m] # "none"
  <2>1. cur[w] \in Messages /\ wamid[cur[w]] # 0
    BY <1>7, RunningWorker DEF JobCompleted, PastStoreRecorded
  <2> QED BY <1>2, <1>7, <2>1 DEF JobCompleted, SetJob, queueVars, TypeOK, QueueType
<1>8. ASSUME NEW w \in Workers, JobThrew(w) \/ JobUnrecoverable(w)
      PROVE  jobState'[m] # "none"
  <2>1. cur[w] \in Messages
    BY <1>8, RunningWorker DEF JobThrew, JobUnrecoverable
  <2> QED BY <1>2, <1>8, <2>1 DEF JobThrew, JobUnrecoverable, SetJob, queueVars,
             TypeOK, QueueType
<1>9. ASSUME NEW w \in Workers, WorkerStep(w)
      PROVE  JobCompleted(w) \/ JobThrew(w) \/ JobUnrecoverable(w) \/ UNCHANGED queueVars
  BY <1>9 DEF WorkerStep, ReadState, Throttled, MetaAccepts, PermanentError, TransientError,
     ResponseLost, StoreWamid, StoreWamidFails, RecordSent, RecordSentFails, RecordFailed
<1>10. ASSUME NEW n \in Nodes, PublisherStep(n)
       PROVE  EmitEvent(n) \/ UNCHANGED queueVars
  BY <1>10 DEF PublisherStep, ReadPending, MarkPublished, MarkPublishedFails,
     MarkFailed, MarkFailedFails, FinishRow
<1>11. ASSUME NEW n \in Nodes, Crash(n) PROVE jobState'[m] # "none"
  BY <1>2, <1>11 DEF Crash
<1>12. ASSUME NEW k \in Messages, AcceptMessage(k) \/ IssueCallback(k)
       PROVE  UNCHANGED queueVars
  BY <1>12 DEF AcceptMessage, IssueCallback
<1>13. ASSUME NEW c \in inFlight, HandleCallback(c) PROVE UNCHANGED queueVars
  BY <1>13 DEF HandleCallback
<1>14. UNCHANGED vars => UNCHANGED queueVars
  BY DEF vars
<1> QED BY <1>3, <1>4, <1>5, <1>6, <1>7, <1>8, <1>9, <1>10, <1>11, <1>12, <1>13, <1>14 DEF Next

(* A step leaves the rows, the publishers and the batches of an intent     *)
(* consistent with what has been added to the queue.                       *)
LEMMA OutboxStep ==
  ASSUME TypeOK, IntentInv, [Next]_vars, "redis" \notin Faults
  PROVE  MarkedAfterEmit' /\ NoLostIntent'
<1>1. \A m \in Messages : HandedOver(m) => HandedOver(m)'
  BY HandedOverKept DEF IntentInv
<1> USE RowFields DEF IntentInv, MarkedAfterEmit, NoLostIntent, IsPending
<1>2. CASE UNCHANGED <<outbox, pubVars>>
  BY <1>1, <1>2 DEF pubVars, IsCurrent
<1>3. ASSUME NEW m \in Messages, NEW t \in {"send", "status"},
             outbox' = Append(outbox, NewRow(t, m)), UNCHANGED pubVars
      PROVE  MarkedAfterEmit' /\ NoLostIntent'
  <2>1. outbox \in Seq(Row) /\ DOMAIN outbox = 1..Len(outbox) /\ Len(outbox) \in Nat
    BY DEF TypeOK, OutboxType
  <2>2. /\ DOMAIN outbox' = 1..(Len(outbox) + 1)
        /\ \A i \in DOMAIN outbox : outbox'[i] = outbox[i]
        /\ outbox'[Len(outbox) + 1] = NewRow(t, m)
    BY <1>3, <2>1
  <2>3. \A n \in Nodes : batch[n] \subseteq DOMAIN outbox
    BY DEF TypeOK, OutboxType
  <2>4. MarkedAfterEmit'
    BY <1>1, <1>3, <2>2, <2>3 DEF pubVars, IsCurrent
  <2>5. NoLostIntent'
    BY <1>1, <2>1, <2>2 DEF NewRow
  <2> QED BY <2>4, <2>5
<1>4. ASSUME NEW n \in Nodes, ReadPending(n) PROVE MarkedAfterEmit' /\ NoLostIntent'
  BY <1>1, <1>4 DEF ReadPending, TypeOK, OutboxType, IsCurrent
<1>5. ASSUME NEW n \in Nodes, EmitEvent(n) PROVE MarkedAfterEmit' /\ NoLostIntent'
  <2>1. PICK i \in DOMAIN outbox : IsCurrent(n, i) /\ AddJob(outbox[i].type, outbox[i].msg)
    BY <1>5 DEF EmitEvent, Fault
  <2>2. jobState'[outbox[i].msg] # "none"
    BY <2>1, RowFields DEF AddJob, queueVars, TypeOK, QueueType
  <2>3. \A j \in DOMAIN outbox : IsCurrent(n, j) => j = i
    <3>1. DOMAIN outbox \subseteq Nat
      BY DEF TypeOK, OutboxType
    <3> QED BY <2>1, <3>1 DEF IsCurrent
  <2>4. UNCHANGED <<outbox, batch>> /\ pubPc' = [pubPc EXCEPT ![n] = "mark"]
    BY <1>5 DEF EmitEvent
  <2> QED BY <1>1, <2>2, <2>3, <2>4 DEF TypeOK, OutboxType, IsCurrent, HandedOver
<1>6. ASSUME NEW n \in Nodes, NEW s \in {"PUBLISHED", "FAILED"}, FinishRow(n, s),
             pubPc[n] \in {"mark", "markFailed"}
      PROVE  MarkedAfterEmit' /\ NoLostIntent'
  <2>1. PICK i \in DOMAIN outbox :
          /\ IsCurrent(n, i)
          /\ outbox' = [outbox EXCEPT ![i] = WithState(@, s)]
          /\ batch' = [batch EXCEPT ![n] = @ \ {i}]
          /\ pubPc' = [pubPc EXCEPT ![n] = IF batch[n] = {i} THEN "idle" ELSE "emit"]
    BY <1>6 DEF FinishRow
  <2>2. HandedOver(outbox[i].msg)
    BY <1>6, <2>1
  <2>3. /\ DOMAIN outbox' = DOMAIN outbox
        /\ outbox'[i] = WithState(outbox[i], s)
        /\ \A j \in DOMAIN outbox : j # i => outbox'[j] = outbox[j]
    BY <2>1 DEF TypeOK, OutboxType
  <2>4. \A j \in DOMAIN outbox : outbox'[j].msg = outbox[j].msg
    BY <2>3 DEF WithState
  <2>5. NoLostIntent'
    BY <1>1, <2>2, <2>3, <2>4
  <2>6. MarkedAfterEmit'
    BY <1>1, <2>1, <2>3, <2>4 DEF TypeOK, OutboxType, IsCurrent
  <2> QED BY <2>5, <2>6
<1>7. ASSUME NEW n \in Nodes, MarkPublishedFails(n) PROVE MarkedAfterEmit' /\ NoLostIntent'
  BY <1>1, <1>7 DEF MarkPublishedFails, TypeOK, OutboxType, IsCurrent
<1>8. ASSUME NEW n \in Nodes, MarkFailedFails(n) \/ Crash(n)
      PROVE  MarkedAfterEmit' /\ NoLostIntent'
  BY <1>1, <1>8 DEF MarkFailedFails, Crash, TypeOK, OutboxType, IsCurrent
<1>9. ASSUME NEW m \in Messages,
             \/ BackoffElapsed(m) \/ RecoverOrphan(m) \/ LockExpires(m)
             \/ RetryFailedJob(m) \/ IssueCallback(m)
      PROVE  UNCHANGED <<outbox, pubVars>>
  BY <1>9 DEF BackoffElapsed, RecoverOrphan, LockExpires, PutBackStalled, RetryFailedJob,
     IssueCallback
<1>10. ASSUME NEW w \in Workers, TakeJob(w) \/ WorkerStep(w)
       PROVE  UNCHANGED <<outbox, pubVars>>
  BY <1>10 DEF TakeJob, WorkerStep, ReadState, Throttled, MetaAccepts, PermanentError,
     TransientError, ResponseLost, StoreWamid, StoreWamidFails, RecordSent, RecordSentFails,
     RecordFailed, JobCompleted, JobThrew, JobUnrecoverable
<1>11. ASSUME NEW c \in inFlight, HandleCallback(c)
       PROVE  MarkedAfterEmit' /\ NoLostIntent'
  <2>1. c.msg \in Messages
    BY DEF TypeOK, HookType, Callback
  <2>2. CASE UNCHANGED outbox
    BY <1>2, <1>11, <2>2 DEF HandleCallback
  <2>3. CASE outbox' = Append(outbox, NewRow("status", c.msg))
    BY <1>3, <1>11, <2>1, <2>3 DEF HandleCallback
  <2> QED BY <1>11, <2>2, <2>3 DEF HandleCallback
<1>12. ASSUME NEW m \in Messages, AcceptMessage(m) PROVE MarkedAfterEmit' /\ NoLostIntent'
  BY <1>3, <1>12 DEF AcceptMessage
<1>13. UNCHANGED vars => UNCHANGED <<outbox, pubVars>>
  BY DEF vars
<1> QED BY <1>2, <1>4, <1>5, <1>6, <1>7, <1>8, <1>9, <1>10, <1>11, <1>12, <1>13
       DEF Next, PublisherStep, MarkPublished, MarkFailed

(* OutboxService, OutboundListener: as long as no enqueue is refused by    *)
(* Redis, a row that left PENDING has a job in the queue or its message    *)
(* has been sent, whatever crashes, expired locks, lost answers and        *)
(* database errors happen.                                                 *)
THEOREM IntentsKept ==
  ASSUME "redis" \notin Faults
  PROVE  Spec => []NoLostIntent
<1>1. Init => IntentInv
  BY DEF Init, IntentInv, PastStoreRecorded, GotId, MarkedAfterEmit, NoLostIntent
<1>2. TypeOK /\ IntentInv /\ [Next]_vars => IntentInv'
  BY RunStep, OutboxStep DEF IntentInv
<1>3. IntentInv => NoLostIntent
  BY DEF IntentInv
<1> QED BY <1>1, <1>2, <1>3, TypeCorrect, PTL DEF Spec

-----------------------------------------------------------------------------
(* One run per message, while no lock expires.                             *)

(* A run keeps the lock of its job until it ends: BullMQ puts back only    *)
(* the jobs whose holder is gone, and adding an existing job is a no-op.   *)
LEMMA LockStep ==
  ASSUME TypeOK, RunHoldsLock, [Next]_vars, "stall" \notin Faults
  PROVE  RunHoldsLock'
<1> USE DEF RunHoldsLock
<1>1. CASE UNCHANGED <<jobState, lock, pc, cur>>
  BY <1>1
<1>2. ASSUME NEW k \in Messages, BackoffElapsed(k) \/ RetryFailedJob(k) PROVE RunHoldsLock'
  BY <1>2 DEF BackoffElapsed, RetryFailedJob, workerVars, TypeOK, QueueType, WorkerType
<1>3. ASSUME NEW k \in Messages, RecoverOrphan(k) PROVE RunHoldsLock'
  BY <1>3, ConstantsAssumption DEF RecoverOrphan, PutBackStalled, workerVars,
     TypeOK, QueueType, WorkerType
<1>4. ASSUME NEW k \in Messages PROVE ~LockExpires(k)
  BY DEF LockExpires, Fault
<1>5. ASSUME NEW n \in Nodes, EmitEvent(n) PROVE RunHoldsLock'
  <2>1. UNCHANGED workerVars
    BY <1>5 DEF EmitEvent
  <2>2. PICK i \in DOMAIN outbox :
          AddJob(outbox[i].type, outbox[i].msg) \/ UNCHANGED queueVars
    BY <1>5 DEF EmitEvent
  <2>3. CASE UNCHANGED queueVars
    BY <2>1, <2>3 DEF queueVars, workerVars
  <2>4. CASE /\ jobState[outbox[i].msg] = "none"
             /\ jobState' = [jobState EXCEPT ![outbox[i].msg] = "waiting"]
             /\ UNCHANGED lock
    BY <2>1, <2>4, RowFields DEF workerVars, TypeOK, QueueType, WorkerType
  <2> QED BY <2>2, <2>3, <2>4 DEF AddJob
<1>6. ASSUME NEW w \in Workers, TakeJob(w) PROVE RunHoldsLock'
  BY <1>6 DEF TakeJob, Goto, TypeOK, QueueType, WorkerType
<1>7. ASSUME NEW w \in Workers, NEW state, NEW made, SetJob(w, state, made), Release(w),
             pc[w] # "idle"
      PROVE  RunHoldsLock'
  <2>1. cur[w] \in Messages /\ lock[cur[w]] = w
    BY <1>7, RunningWorker
  <2>2. \A v \in Workers \ {w} : pc[v] # "idle" => cur[v] \in Messages /\ cur[v] # cur[w]
    BY <1>7, <2>1, RunningWorker
  <2> QED BY <1>7, <2>1, <2>2 DEF SetJob, Release, Goto, TypeOK, QueueType, WorkerType
<1>8. ASSUME NEW w \in Workers, JobCompleted(w) \/ JobThrew(w) \/ JobUnrecoverable(w)
      PROVE  RunHoldsLock'
  BY <1>7, <1>8 DEF JobCompleted, JobThrew, JobUnrecoverable
<1>9. ASSUME NEW w \in Workers, WorkerStep(w),
             ~(JobCompleted(w) \/ JobThrew(w) \/ JobUnrecoverable(w))
      PROVE  RunHoldsLock'
  <2>1. UNCHANGED <<jobState, lock, cur>> /\ pc[w] # "idle"
    BY <1>9 DEF WorkerStep, ReadState, Throttled, MetaAccepts, PermanentError, TransientError,
       ResponseLost, StoreWamid, StoreWamidFails, RecordSent, RecordSentFails, RecordFailed,
       queueVars
  <2>2. \A v \in Workers \ {w} : pc'[v] = pc[v]
    BY <1>9 DEF WorkerStep, ReadState, Throttled, MetaAccepts, PermanentError, TransientError,
       ResponseLost, StoreWamid, StoreWamidFails, RecordSent, RecordSentFails, RecordFailed,
       Goto, TypeOK, WorkerType
  <2> QED BY <2>1, <2>2
<1>10. ASSUME NEW n \in Nodes, Crash(n) PROVE RunHoldsLock'
  BY <1>10 DEF Crash, TypeOK, QueueType, WorkerType
<1>11. ASSUME NEW n \in Nodes, PublisherStep(n)
       PROVE  EmitEvent(n) \/ UNCHANGED <<jobState, lock, pc, cur>>
  BY <1>11 DEF PublisherStep, ReadPending, MarkPublished, MarkPublishedFails,
     MarkFailed, MarkFailedFails, FinishRow, queueVars, workerVars
<1>12. ASSUME NEW k \in Messages, AcceptMessage(k) \/ IssueCallback(k)
       PROVE  UNCHANGED <<jobState, lock, pc, cur>>
  BY <1>12 DEF AcceptMessage, IssueCallback, queueVars, workerVars
<1>13. ASSUME NEW c \in inFlight, HandleCallback(c) PROVE UNCHANGED <<jobState, lock, pc, cur>>
  BY <1>13 DEF HandleCallback, queueVars, workerVars
<1>14. UNCHANGED vars => UNCHANGED <<jobState, lock, pc, cur>>
  BY DEF vars, queueVars, workerVars
<1> QED BY <1>1, <1>2, <1>3, <1>4, <1>5, <1>6, <1>8, <1>9, <1>10, <1>11, <1>12, <1>13, <1>14
       DEF Next

(* Two runs of one message are the same run. *)
LEMMA OneRun ==
  ASSUME TypeOK, RunHoldsLock, NEW v \in Workers, NEW w \in Workers,
         pc[v] # "idle", pc[w] # "idle", cur[v] = cur[w]
  PROVE  v = w
BY DEF RunHoldsLock

(* What a step of a running slot does to the other parts of DispatchInv. *)
LEMMA WorkerDispatch ==
  ASSUME TypeOK, DispatchInv, NEW w \in Workers, WorkerStep(w)
  PROVE  /\ RunState' /\ Accounted' /\ DuplicateOnlyAfterLostRecord'
         /\ \A m \in NoAccount : wamid'[m] = 0
         /\ \A m \in Messages : wamid[m] # 0 => wamid'[m] = wamid[m]
<1> DEFINE m == cur[w]
<1>1. m \in Messages /\ pc[w] # "idle"
  BY RunningWorker DEF WorkerStep, ReadState, Throttled, MetaAccepts, PermanentError,
     TransientError, ResponseLost, StoreWamid, StoreWamidFails, RecordSent, RecordSentFails,
     RecordFailed, JobCompleted, JobThrew, JobUnrecoverable
<1>2. \A v \in Workers \ {w} : pc[v] # "idle" => cur[v] \in Messages /\ cur[v] # m
  BY <1>1, OneRun, RunningWorker DEF DispatchInv
<1>3. dispatched[m] \in Nat /\ got[w] \in Nat /\ wamid[m] \in Nat
  BY <1>1 DEF TypeOK, MetaType, WorkerType, DbType
<1>4. \A k \in NoAccount : wamid[k] = 0
  BY DEF DispatchInv, StatusImpliesRecorded
<1> USE DEF DispatchInv, RunState, Accounted, InStore, DuplicateOnlyAfterLostRecord
<1>5. ASSUME UNCHANGED <<wamid, jobType, cur, got, dispatched, unrecorded>>, pc[w] # "store",
             NEW l, pc' = [pc EXCEPT ![w] = l],
             \/ l \in {"complete", "retry", "bury"}
             \/ l \in {"send", "reject"} /\ wamid[m] = 0 /\ (l = "send" => m \notin NoAccount)
      PROVE  RunState' /\ Accounted' /\ DuplicateOnlyAfterLostRecord' /\ UNCHANGED wamid
  <2>1. RunState'
    BY <1>1, <1>5 DEF TypeOK, WorkerType
  <2>2. \A k \in Messages : InStore(k)' <=> InStore(k)
    BY <1>5 DEF TypeOK, WorkerType
  <2> QED BY <1>5, <2>1, <2>2
<1>6. CASE ReadState(w)
  BY <1>1, <1>3, <1>4, <1>5, <1>6 DEF ReadState, Goto, dbVars, queueVars, metaVars
<1>7. CASE Throttled(w) \/ PermanentError(w) \/ TransientError(w) \/ RecordSent(w)
           \/ RecordSentFails(w) \/ RecordFailed(w)
  BY <1>4, <1>5, <1>7 DEF Throttled, PermanentError, TransientError, RecordSent,
     RecordSentFails, RecordFailed, Goto, dbVars, queueVars, metaVars
<1>8. CASE MetaAccepts(w)
  <2>1. wamid[m] = 0 /\ ~InStore(m) /\ m \notin NoAccount
    BY <1>1, <1>2, <1>8 DEF MetaAccepts
  <2>2. 1..dispatched[m] \subseteq unrecorded[m]
    BY <1>1, <2>1
  <2>3. /\ dispatched' = [dispatched EXCEPT ![m] = dispatched[m] + 1]
        /\ got' = [got EXCEPT ![w] = dispatched[m] + 1]
        /\ pc' = [pc EXCEPT ![w] = "store"]
        /\ UNCHANGED <<wamid, jobType, cur, unrecorded>>
    BY <1>8 DEF MetaAccepts, Goto, dbVars, queueVars
  <2>4. RunState'
    BY <1>1, <1>2, <1>3, <2>1, <2>3 DEF TypeOK, WorkerType, MetaType
  <2>5. InStore(m)'
    BY <2>3 DEF TypeOK, WorkerType
  <2>6. \A k \in Messages \ {m} : InStore(k)' <=> InStore(k)
    BY <1>8, <2>3 DEF MetaAccepts, TypeOK, WorkerType
  <2>7. Accounted'
    BY <2>3, <2>5, <2>6 DEF TypeOK, MetaType
  <2>8. DuplicateOnlyAfterLostRecord'
    BY <1>3, <2>2, <2>3 DEF TypeOK, MetaType
  <2> QED BY <1>4, <2>3, <2>4, <2>7, <2>8
<1>9. CASE ResponseLost(w)
  <2>1. wamid[m] = 0 /\ ~InStore(m)
    BY <1>1, <1>2, <1>9 DEF ResponseLost
  <2>2. 1..dispatched[m] \subseteq unrecorded[m]
    BY <1>1, <2>1
  <2>3. /\ dispatched' = [dispatched EXCEPT ![m] = dispatched[m] + 1]
        /\ unrecorded' = [unrecorded EXCEPT ![m] = unrecorded[m] \cup {dispatched[m] + 1}]
        /\ pc' = [pc EXCEPT ![w] = "retry"]
        /\ UNCHANGED <<wamid, jobType, cur, got>>
    BY <1>9 DEF ResponseLost, Goto, dbVars, queueVars
  <2>4. RunState'
    BY <1>1, <1>2, <2>3 DEF TypeOK, WorkerType, MetaType
  <2>5. \A k \in Messages : InStore(k)' <=> InStore(k)
    BY <1>9, <2>3 DEF ResponseLost, TypeOK, WorkerType
  <2>6. Accounted'
    BY <1>3, <2>2, <2>3, <2>5 DEF TypeOK, MetaType
  <2>7. DuplicateOnlyAfterLostRecord'
    BY <1>3, <2>2, <2>3 DEF TypeOK, MetaType
  <2> QED BY <1>4, <2>3, <2>4, <2>6, <2>7
<1>10. CASE StoreWamid(w)
  <2>1. /\ wamid[m] = 0 /\ got[w] # 0 /\ m \notin NoAccount
    BY <1>1, <1>10 DEF StoreWamid
  <2>2. jobType[m] = "send"
    BY <1>1, <2>1 DEF StatusImpliesRecorded, TypeOK, QueueType
  <2>3. /\ wamid' = [wamid EXCEPT ![m] = got[w]]
        /\ pc' = [pc EXCEPT ![w] = "event"]
        /\ UNCHANGED <<jobType, cur, got, dispatched, unrecorded>>
    BY <1>10 DEF StoreWamid, Goto, queueVars, metaVars
  <2>4. RunState'
    BY <1>1, <1>2, <2>1, <2>2, <2>3 DEF TypeOK, WorkerType, DbType
  <2>5. \A k \in Messages \ {m} : InStore(k)' <=> InStore(k)
    BY <2>3 DEF TypeOK, WorkerType
  <2>6. Accounted'
    BY <1>1, <2>1, <2>3, <2>5 DEF TypeOK, DbType
  <2> QED BY <1>4, <2>1, <2>3, <2>4, <2>6 DEF TypeOK, DbType
<1>11. CASE StoreWamidFails(w)
  <2>1. got[w] = dispatched[m]
    BY <1>1, <1>11 DEF StoreWamidFails
  <2>2. /\ unrecorded' = [unrecorded EXCEPT ![m] = unrecorded[m] \cup {got[w]}]
        /\ pc' = [pc EXCEPT ![w] = "retry"]
        /\ UNCHANGED <<wamid, jobType, cur, got, dispatched>>
    BY <1>11 DEF StoreWamidFails, Goto, dbVars, queueVars
  <2>3. RunState'
    BY <1>1, <1>2, <2>2 DEF TypeOK, WorkerType
  <2>4. \A k \in Messages \ {m} : InStore(k)' <=> InStore(k)
    BY <2>2 DEF TypeOK, WorkerType
  <2>5. 1..dispatched[m] \subseteq unrecorded'[m]
    BY <1>1, <1>3, <2>1, <2>2 DEF TypeOK, MetaType
  <2>6. Accounted'
    BY <2>2, <2>4, <2>5 DEF TypeOK, MetaType
  <2>7. DuplicateOnlyAfterLostRecord'
    BY <2>2 DEF TypeOK, MetaType
  <2> QED BY <1>4, <2>2, <2>3, <2>6, <2>7
<1>12. CASE JobCompleted(w) \/ JobThrew(w) \/ JobUnrecoverable(w)
  <2>1. pc[w] # "store" /\ Release(w) /\ UNCHANGED <<wamid, jobType, dispatched, unrecorded>>
    BY <1>12 DEF JobCompleted, JobThrew, JobUnrecoverable, SetJob, dbVars, queueVars, metaVars
  <2>2. RunState'
    BY <1>1, <2>1 DEF Release, Goto, TypeOK, WorkerType
  <2>3. \A k \in Messages : InStore(k)' <=> InStore(k)
    BY <2>1, ConstantsAssumption DEF Release, Goto, TypeOK, WorkerType
  <2> QED BY <1>4, <2>1, <2>2, <2>3
<1> QED BY <1>6, <1>7, <1>8, <1>9, <1>10, <1>11, <1>12 DEF WorkerStep

(* A crash turns the dispatches in hand into unrecorded ones. *)
LEMMA CrashDispatch ==
  ASSUME TypeOK, DispatchInv, NEW n \in Nodes, Crash(n)
  PROVE  RunState' /\ Accounted' /\ DuplicateOnlyAfterLostRecord'
<1> USE DEF DispatchInv, RunState, Accounted, InStore, DuplicateOnlyAfterLostRecord
<1> DEFINE mine == {w \in Workers : w[1] = n}
           held(m) == {w \in mine : pc[w] = "store" /\ cur[w] = m}
<1>1. /\ \A w \in Workers : pc'[w] = IF w \in mine THEN "idle" ELSE pc[w]
      /\ \A w \in Workers : cur'[w] = IF w \in mine THEN NoMessage ELSE cur[w]
      /\ \A w \in Workers : got'[w] = IF w \in mine THEN 0 ELSE got[w]
      /\ \A m \in Messages : unrecorded'[m] = unrecorded[m] \cup {got[w] : w \in held(m)}
      /\ UNCHANGED <<wamid, jobType, dispatched>>
  BY DEF Crash, dbVars
<1>2. RunState'
  BY <1>1
<1>3. ASSUME NEW m \in Messages, wamid[m] = 0, ~InStore(m)'
      PROVE  1..dispatched[m] \subseteq unrecorded'[m]
  <2>1. CASE InStore(m)
    <3>1. PICK w \in Workers : pc[w] = "store" /\ cur[w] = m
      BY <2>1
    <3>2. w \in mine /\ got[w] = dispatched[m]
      BY <1>1, <1>3, <3>1
    <3>3. dispatched[m] \in unrecorded'[m]
      BY <1>1, <3>1, <3>2
    <3>4. dispatched[m] \in Nat
      BY DEF TypeOK, MetaType
    <3> QED BY <1>1, <3>3, <3>4
  <2>2. CASE ~InStore(m)
    BY <1>1, <1>3, <2>2
  <2> QED BY <2>1, <2>2
<1>4. Accounted'
  BY <1>1, <1>3
<1>5. DuplicateOnlyAfterLostRecord'
  BY <1>1
<1> QED BY <1>2, <1>4, <1>5

(* A status row, or a job made from one, belongs to a recorded message. *)
LEMMA StatusStep ==
  ASSUME TypeOK, StatusImpliesRecorded, [Next]_vars,
         \A m \in Messages : wamid[m] # 0 => wamid'[m] # 0,
         \A m \in NoAccount : wamid'[m] = 0
  PROVE  StatusImpliesRecorded'
<1> USE DEF StatusImpliesRecorded
<1> DEFINE Hooks == \A c \in issued : c.wamid # 0
           Rows == \A i \in DOMAIN outbox : outbox[i].type = "status" => wamid[outbox[i].msg] # 0
           Jobs == \A m \in Messages : jobType[m] = "status" => wamid[m] # 0
<1>1. Hooks'
  <2>1. CASE UNCHANGED issued
    BY <2>1
  <2>2. ASSUME NEW m \in Messages, IssueCallback(m) PROVE Hooks'
    BY <2>2 DEF IssueCallback, TypeOK, MetaType
  <2>3. ASSUME NEW m \in Messages, \/ AcceptMessage(m) \/ BackoffElapsed(m) \/ RecoverOrphan(m)
                                   \/ LockExpires(m) \/ RetryFailedJob(m)
        PROVE  UNCHANGED issued
    BY <2>3 DEF AcceptMessage, BackoffElapsed, RecoverOrphan, LockExpires, PutBackStalled,
       RetryFailedJob, hookVars
  <2>4. ASSUME NEW n \in Nodes, PublisherStep(n) \/ Crash(n) PROVE UNCHANGED issued
    BY <2>4 DEF PublisherStep, ReadPending, EmitEvent, MarkPublished, MarkPublishedFails,
       MarkFailed, MarkFailedFails, FinishRow, Crash, hookVars
  <2>5. ASSUME NEW w \in Workers, TakeJob(w) \/ WorkerStep(w) PROVE UNCHANGED issued
    BY <2>5 DEF TakeJob, WorkerStep, ReadState, Throttled, MetaAccepts, PermanentError,
       TransientError, ResponseLost, StoreWamid, StoreWamidFails, RecordSent, RecordSentFails,
       RecordFailed, JobCompleted, JobThrew, JobUnrecoverable, hookVars
  <2>6. ASSUME NEW c \in inFlight, HandleCallback(c) PROVE UNCHANGED issued
    BY <2>6 DEF HandleCallback
  <2>7. UNCHANGED vars => UNCHANGED issued
    BY DEF vars, hookVars
  <2> QED BY <2>1, <2>2, <2>3, <2>4, <2>5, <2>6, <2>7 DEF Next
<1>2. Rows'
  <2>1. CASE UNCHANGED outbox
    BY <2>1, RowFields
  <2>2. ASSUME NEW m \in Messages, NEW t \in {"send", "status"},
               outbox' = Append(outbox, NewRow(t, m)), t = "status" => wamid[m] # 0
        PROVE  Rows'
    <3>1. outbox \in Seq(Row) /\ DOMAIN outbox = 1..Len(outbox) /\ Len(outbox) \in Nat
      BY DEF TypeOK, OutboxType
    <3>2. /\ DOMAIN outbox' = 1..(Len(outbox) + 1)
          /\ \A i \in DOMAIN outbox : outbox'[i] = outbox[i]
          /\ outbox'[Len(outbox) + 1] = NewRow(t, m)
      BY <2>2, <3>1
    <3> QED BY <2>2, <3>1, <3>2, RowFields DEF NewRow
  <2>3. ASSUME NEW m \in Messages, AcceptMessage(m) PROVE Rows'
    BY <2>2, <2>3 DEF AcceptMessage
  <2>4. ASSUME NEW c \in inFlight, HandleCallback(c) PROVE Rows'
    <3>1. c \in issued /\ c.msg \in Messages /\ c.wamid # 0
      BY DEF TypeOK, HookType, Callback
    <3>2. CASE /\ wamid[c.msg] = c.wamid
               /\ outbox' = Append(outbox, NewRow("status", c.msg))
      BY <2>2, <3>1, <3>2
    <3> QED BY <2>1, <2>4, <3>2 DEF HandleCallback
  <2>5. ASSUME NEW n \in Nodes, NEW s \in {"PUBLISHED", "FAILED"}, FinishRow(n, s) PROVE Rows'
    <3>1. PICK i \in DOMAIN outbox : outbox' = [outbox EXCEPT ![i] = WithState(@, s)]
      BY <2>5 DEF FinishRow
    <3>2. /\ DOMAIN outbox' = DOMAIN outbox
          /\ outbox'[i] = WithState(outbox[i], s)
          /\ \A j \in DOMAIN outbox : j # i => outbox'[j] = outbox[j]
      BY <3>1 DEF TypeOK, OutboxType
    <3>3. \A j \in DOMAIN outbox :
            outbox'[j].msg = outbox[j].msg /\ outbox'[j].type = outbox[j].type
      BY <3>2 DEF WithState
    <3> QED BY <3>2, <3>3, RowFields
  <2>6. ASSUME NEW n \in Nodes, PublisherStep(n) \/ Crash(n)
        PROVE  (\E s \in {"PUBLISHED", "FAILED"} : FinishRow(n, s)) \/ UNCHANGED outbox
    BY <2>6 DEF PublisherStep, ReadPending, EmitEvent, MarkPublished, MarkPublishedFails,
       MarkFailed, MarkFailedFails, Crash
  <2>7. ASSUME NEW m \in Messages, \/ BackoffElapsed(m) \/ RecoverOrphan(m) \/ LockExpires(m)
                                   \/ RetryFailedJob(m) \/ IssueCallback(m)
        PROVE  UNCHANGED outbox
    BY <2>7 DEF BackoffElapsed, RecoverOrphan, LockExpires, PutBackStalled, RetryFailedJob,
       IssueCallback
  <2>8. ASSUME NEW w \in Workers, TakeJob(w) \/ WorkerStep(w) PROVE UNCHANGED outbox
    BY <2>8 DEF TakeJob, WorkerStep, ReadState, Throttled, MetaAccepts, PermanentError,
       TransientError, ResponseLost, StoreWamid, StoreWamidFails, RecordSent, RecordSentFails,
       RecordFailed, JobCompleted, JobThrew, JobUnrecoverable
  <2>9. UNCHANGED vars => UNCHANGED outbox
    BY DEF vars
  <2> QED BY <2>1, <2>3, <2>4, <2>5, <2>6, <2>7, <2>8, <2>9 DEF Next
<1>3. Jobs'
  <2>1. CASE UNCHANGED jobType
    BY <2>1
  <2>2. ASSUME NEW n \in Nodes, EmitEvent(n) PROVE Jobs'
    <3>1. PICK i \in DOMAIN outbox :
            \/ jobType' = [jobType EXCEPT ![outbox[i].msg] = outbox[i].type]
            \/ UNCHANGED jobType
      BY <2>2 DEF EmitEvent, AddJob, queueVars
    <3> QED BY <2>1, <3>1, RowFields DEF TypeOK, QueueType
  <2>3. ASSUME NEW n \in Nodes, PublisherStep(n) \/ Crash(n)
        PROVE  EmitEvent(n) \/ UNCHANGED jobType
    BY <2>3 DEF PublisherStep, ReadPending, MarkPublished, MarkPublishedFails,
       MarkFailed, MarkFailedFails, FinishRow, Crash, queueVars
  <2>4. ASSUME NEW m \in Messages, \/ AcceptMessage(m) \/ BackoffElapsed(m) \/ RecoverOrphan(m)
                                   \/ LockExpires(m) \/ RetryFailedJob(m) \/ IssueCallback(m)
        PROVE  UNCHANGED jobType
    BY <2>4 DEF AcceptMessage, BackoffElapsed, RecoverOrphan, LockExpires, PutBackStalled,
       RetryFailedJob, IssueCallback, queueVars
  <2>5. ASSUME NEW w \in Workers, TakeJob(w) \/ WorkerStep(w) PROVE UNCHANGED jobType
    BY <2>5 DEF TakeJob, WorkerStep, ReadState, Throttled, MetaAccepts, PermanentError,
       TransientError, ResponseLost, StoreWamid, StoreWamidFails, RecordSent, RecordSentFails,
       RecordFailed, JobCompleted, JobThrew, JobUnrecoverable, SetJob, queueVars
  <2>6. ASSUME NEW c \in inFlight, HandleCallback(c) PROVE UNCHANGED jobType
    BY <2>6 DEF HandleCallback, queueVars
  <2>7. UNCHANGED vars => UNCHANGED jobType
    BY DEF vars, queueVars
  <2> QED BY <2>1, <2>2, <2>3, <2>4, <2>5, <2>6, <2>7 DEF Next
<1> QED BY <1>1, <1>2, <1>3

LEMMA DispatchStep ==
  ASSUME TypeOK, DispatchInv, [Next]_vars, "stall" \notin Faults
  PROVE  /\ DispatchInv'
         /\ \A m \in Messages : wamid[m] # 0 => wamid'[m] = wamid[m]
<1> DEFINE Frame == UNCHANGED <<wamid, pc, cur, got, dispatched, unrecorded>>
           Goal == /\ RunState' /\ Accounted' /\ DuplicateOnlyAfterLostRecord'
                   /\ \A m \in NoAccount : wamid'[m] = 0
                   /\ \A m \in Messages : wamid[m] # 0 => wamid'[m] = wamid[m]
<1>1. RunHoldsLock'
  BY LockStep DEF DispatchInv
<1>2. \A m \in NoAccount : wamid[m] = 0
  BY DEF DispatchInv, StatusImpliesRecorded
<1>3. Frame /\ UNCHANGED jobType => Goal
  BY <1>2 DEF DispatchInv, RunState, Accounted, InStore, DuplicateOnlyAfterLostRecord
<1>4. ASSUME NEW n \in Nodes, EmitEvent(n) PROVE Goal
  <2>1. Frame
    BY <1>4 DEF EmitEvent, dbVars, workerVars, metaVars
  <2>2. PICK i \in DOMAIN outbox :
          \/ UNCHANGED jobType
          \/ /\ jobState[outbox[i].msg] = "none"
             /\ jobType' = [jobType EXCEPT ![outbox[i].msg] = outbox[i].type]
    BY <1>4 DEF EmitEvent, AddJob, queueVars
  <2>3. \A w \in Workers : pc[w] = "event" =>
          cur[w] \in Messages /\ (jobType'[cur[w]] = jobType[cur[w]])
    BY <2>2, RowFields, RunningWorker DEF DispatchInv, RunHoldsLock, TypeOK, QueueType
  <2>4. RunState'
    BY <2>1, <2>3 DEF DispatchInv, RunState
  <2> QED BY <1>2, <2>1, <2>4
          DEF DispatchInv, Accounted, InStore, DuplicateOnlyAfterLostRecord
<1>5. ASSUME NEW w \in Workers, TakeJob(w) PROVE Goal
  <2>1. UNCHANGED <<wamid, jobType, got, dispatched, unrecorded>>
    BY <1>5 DEF TakeJob, dbVars, metaVars
  <2>2. /\ pc[w] = "idle" /\ pc' = [pc EXCEPT ![w] = "check"]
        /\ \A v \in Workers \ {w} : cur'[v] = cur[v]
    BY <1>5 DEF TakeJob, Goto, TypeOK, WorkerType
  <2>3. \A v \in Workers : pc'[v] = IF v = w THEN "check" ELSE pc[v]
    BY <2>2 DEF TypeOK, WorkerType
  <2>4. RunState'
    BY <2>1, <2>2, <2>3 DEF DispatchInv, RunState
  <2>5. \A m \in Messages : InStore(m)' <=> InStore(m)
    BY <2>2, <2>3 DEF InStore
  <2> QED BY <1>2, <2>1, <2>4, <2>5 DEF DispatchInv, Accounted, DuplicateOnlyAfterLostRecord
<1>6. ASSUME NEW w \in Workers, WorkerStep(w) PROVE Goal
  BY <1>6, WorkerDispatch
<1>7. ASSUME NEW n \in Nodes, Crash(n) PROVE Goal
  BY <1>2, <1>7, CrashDispatch DEF Crash, dbVars
<1>8. ASSUME NEW n \in Nodes, PublisherStep(n)
      PROVE  EmitEvent(n) \/ (Frame /\ UNCHANGED jobType)
  BY <1>8 DEF PublisherStep, ReadPending, MarkPublished, MarkPublishedFails,
     MarkFailed, MarkFailedFails, FinishRow, dbVars, queueVars, workerVars, metaVars
<1>9. ASSUME NEW m \in Messages, \/ AcceptMessage(m) \/ BackoffElapsed(m) \/ RecoverOrphan(m)
                                 \/ LockExpires(m) \/ RetryFailedJob(m) \/ IssueCallback(m)
      PROVE  Frame /\ UNCHANGED jobType
  BY <1>9 DEF AcceptMessage, BackoffElapsed, RecoverOrphan, LockExpires, PutBackStalled,
     RetryFailedJob, IssueCallback, dbVars, queueVars, workerVars, metaVars
<1>10. ASSUME NEW c \in inFlight, HandleCallback(c) PROVE Frame /\ UNCHANGED jobType
  BY <1>10 DEF HandleCallback, queueVars, workerVars, metaVars
<1>11. UNCHANGED vars => Frame /\ UNCHANGED jobType
  BY DEF vars, dbVars, queueVars, workerVars, metaVars
<1>12. Goal
  BY <1>3, <1>4, <1>5, <1>6, <1>7, <1>8, <1>9, <1>10, <1>11 DEF Next
<1>13. StatusImpliesRecorded'
  BY <1>12, StatusStep DEF DispatchInv
<1> QED BY <1>1, <1>12, <1>13 DEF DispatchInv

LEMMA DispatchCorrect ==
  ASSUME "stall" \notin Faults
  PROVE  Spec => [](TypeOK /\ DispatchInv)
<1>1. Init => DispatchInv
  BY ConstantsAssumption DEF Init, DispatchInv, RunHoldsLock, RunState, Accounted,
     StatusImpliesRecorded, DuplicateOnlyAfterLostRecord
<1>2. TypeOK /\ DispatchInv /\ [Next]_vars => DispatchInv'
  BY DispatchStep
<1> QED BY <1>1, <1>2, TypeCorrect, PTL DEF Spec

(* OutboundProcessor.process: while no lock expires under a live worker,   *)
(* a message reaches Meta a second time only if the record of the first    *)
(* hand-over was lost, however many publishers, workers, crashes, lost     *)
(* answers, database and Redis errors and operator retries there are.      *)
THEOREM DuplicatesExplained ==
  ASSUME "stall" \notin Faults
  PROVE  Spec => []DuplicateOnlyAfterLostRecord
<1>1. DispatchInv => DuplicateOnlyAfterLostRecord
  BY DEF DispatchInv
<1> QED BY <1>1, DispatchCorrect, PTL

(* OutboundListener turns status updates into outbound jobs: their runs    *)
(* never get past the wamid check of OutboundProcessor.process.  And       *)
(* isPermanentError writes FAILED only for a message that has no recorded  *)
(* dispatch.                                                               *)
THEOREM ChecksPassOnlyDueRuns ==
  ASSUME "stall" \notin Faults
  PROVE  Spec => []OnlyDueRunsPassTheCheck
<1>1. TypeOK /\ DispatchInv => OnlyDueRunsPassTheCheck
  <2> SUFFICES ASSUME TypeOK, DispatchInv, NEW w \in Workers
               PROVE  /\ pc[w] \in {"send", "store", "event", "reject"} => jobType[cur[w]] = "send"
                      /\ pc[w] = "reject" => wamid[cur[w]] = 0
    BY DEF OnlyDueRunsPassTheCheck
  <2>1. pc[w] \in {"send", "store", "event", "reject"} => jobType[cur[w]] = "send"
    BY RunningWorker DEF DispatchInv, RunState, StatusImpliesRecorded, TypeOK, QueueType
  <2>2. pc[w] = "reject" => wamid[cur[w]] = 0
    BY DEF DispatchInv, RunState
  <2> QED BY <2>1, <2>2
<1> QED BY <1>1, DispatchCorrect, PTL

(* message.wamid is written once. *)
THEOREM WamidWrittenOnce ==
  ASSUME "stall" \notin Faults
  PROVE  Spec => WamidKept
<1>1. TypeOK /\ DispatchInv /\ [Next]_vars =>
        [\A m \in Messages : wamid[m] # 0 => wamid'[m] = wamid[m]]_vars
  BY DispatchStep
<1> QED BY <1>1, DispatchCorrect, PTL DEF Spec, WamidKept

-----------------------------------------------------------------------------
(* The SENT event.                                                         *)

(* What keeps a recorded dispatch and its event together: statuses are     *)
(* only added, no failure is taken back, and a slot leaves "event" by      *)
(* writing SENT unless something fails.                                    *)
LEMMA SentKept ==
  ASSUME NEW m \in Messages,
         faults' = 0 => faults = 0,
         wamid'[m] # 0 => wamid[m] # 0,
         statuses[m] \subseteq statuses'[m],
         \A w \in Workers : pc[w] = "event" /\ cur[w] = m /\ faults' = 0 =>
           (pc'[w] = "event" /\ cur'[w] = m) \/ "SENT" \in statuses'[m],
         SentRecorded
  PROVE  faults' = 0 /\ wamid'[m] # 0 =>
           \/ "SENT" \in statuses'[m]
           \/ \E w \in Workers : pc'[w] = "event" /\ cur'[w] = m
BY DEF SentRecorded

(* The steps outside of OutboundProcessor.process. *)
LEMMA SentStep ==
  ASSUME TypeOK, SentRecorded, [Next]_vars, \A w \in Workers : ~ WorkerStep(w)
  PROVE  SentRecorded'
<1> SUFFICES ASSUME NEW m \in Messages
             PROVE  /\ faults' = 0 => faults = 0
                    /\ wamid'[m] = wamid[m] /\ statuses[m] \subseteq statuses'[m]
                    /\ \A w \in Workers : pc[w] = "event" /\ faults' = 0 =>
                         pc'[w] = "event" /\ cur'[w] = cur[w]
  BY SentKept DEF SentRecorded
<1>1. CASE UNCHANGED <<dbVars, workerVars, faults>>
  BY <1>1 DEF dbVars, workerVars
<1>2. ASSUME NEW k \in Messages,
             \/ AcceptMessage(k) \/ BackoffElapsed(k) \/ RecoverOrphan(k)
             \/ RetryFailedJob(k) \/ IssueCallback(k)
      PROVE  UNCHANGED <<dbVars, workerVars, faults>>
  BY <1>2 DEF AcceptMessage, BackoffElapsed, RecoverOrphan, PutBackStalled,
     RetryFailedJob, IssueCallback
<1>3. ASSUME NEW k \in Messages, LockExpires(k)
      PROVE  UNCHANGED <<dbVars, workerVars>> /\ faults' = faults + 1
  BY <1>3 DEF LockExpires, PutBackStalled, Fault
<1>4. ASSUME NEW n \in Nodes, PublisherStep(n)
      PROVE  UNCHANGED <<dbVars, workerVars>> /\ faults' \in {faults, faults + 1}
  BY <1>4 DEF PublisherStep, ReadPending, EmitEvent, MarkPublished, MarkPublishedFails,
     MarkFailed, MarkFailedFails, FinishRow, Fault
<1>5. ASSUME NEW n \in Nodes, Crash(n)
      PROVE  UNCHANGED dbVars /\ faults' = faults + 1
  BY <1>5 DEF Crash, Fault
<1>6. ASSUME NEW w \in Workers, TakeJob(w)
      PROVE  UNCHANGED <<dbVars, faults>>
             /\ \A v \in Workers : pc[v] = "event" => pc'[v] = "event" /\ cur'[v] = cur[v]
  BY <1>6 DEF TakeJob, Goto, TypeOK, WorkerType
<1>7. ASSUME NEW c \in inFlight, HandleCallback(c)
      PROVE  /\ UNCHANGED <<wamid, workerVars, faults>>
             /\ statuses[m] \subseteq statuses'[m]
  BY <1>7 DEF HandleCallback, AddStatus, TypeOK, DbType
<1>8. UNCHANGED vars => UNCHANGED <<dbVars, workerVars, faults>>
  BY DEF vars
<1>9. faults' = faults + 1 => faults' # 0
  BY DEF TypeOK
<1> USE DEF dbVars, workerVars
<1>10. (\E k \in Messages :
          \/ AcceptMessage(k) \/ BackoffElapsed(k) \/ RecoverOrphan(k) \/ LockExpires(k)
          \/ RetryFailedJob(k) \/ IssueCallback(k))
       \/ (\E n \in Nodes : PublisherStep(n) \/ Crash(n))
       \/ (\E w \in Workers : TakeJob(w))
       \/ (\E c \in inFlight : HandleCallback(c))
       \/ UNCHANGED vars
  BY DEF Next
<1> QED BY <1>1, <1>2, <1>3, <1>4, <1>5, <1>6, <1>7, <1>8, <1>9, <1>10

(* The steps of OutboundProcessor.process: the slot that stores the wamid  *)
(* is the one that writes the event next.                                  *)
LEMMA SentRun ==
  ASSUME TypeOK, SentRecorded, NEW w \in Workers, WorkerStep(w)
  PROVE  SentRecorded'
<1> SUFFICES ASSUME NEW m \in Messages
             PROVE  faults' = 0 /\ wamid'[m] # 0 =>
                      \/ "SENT" \in statuses'[m]
                      \/ \E v \in Workers : pc'[v] = "event" /\ cur'[v] = m
  BY DEF SentRecorded
<1> USE DEF Goto, dbVars
<1>1. /\ wamid \in [Messages -> Nat] /\ statuses \in [Messages -> SUBSET StatusKinds]
      /\ DOMAIN pc = Workers /\ DOMAIN cur = Workers /\ faults \in Nat
  BY DEF TypeOK, DbType, WorkerType
<1>2. ASSUME UNCHANGED dbVars, pc[w] # "event" \/ faults' = faults + 1,
             faults' \in {faults, faults + 1},
             \A v \in Workers \ {w} : pc'[v] = pc[v] /\ cur'[v] = cur[v]
      PROVE  faults' = 0 /\ wamid'[m] # 0 =>
               \/ "SENT" \in statuses'[m]
               \/ \E v \in Workers : pc'[v] = "event" /\ cur'[v] = m
  <2>1. (faults' = 0 => faults = 0) /\ (faults' = faults + 1 => faults' # 0)
    BY <1>1, <1>2
  <2> QED BY <1>2, <2>1, SentKept
<1>3. CASE ReadState(w) \/ Throttled(w) \/ PermanentError(w) \/ TransientError(w) \/ MetaAccepts(w)
  BY <1>1, <1>2, <1>3 DEF ReadState, Throttled, PermanentError, TransientError, MetaAccepts
<1>4. CASE ResponseLost(w) \/ StoreWamidFails(w) \/ RecordSentFails(w)
  BY <1>1, <1>2, <1>4 DEF ResponseLost, StoreWamidFails, RecordSentFails, Fault
<1>5. CASE JobCompleted(w) \/ JobThrew(w) \/ JobUnrecoverable(w)
  BY <1>1, <1>2, <1>5 DEF JobCompleted, JobThrew, JobUnrecoverable, Release
<1>6. CASE StoreWamid(w)
  <2>1. /\ pc' = [pc EXCEPT ![w] = "event"] /\ cur' = cur
        /\ wamid' = [wamid EXCEPT ![cur[w]] = got[w]]
        /\ statuses' = statuses /\ faults' = faults /\ pc[w] = "store"
    BY <1>6 DEF StoreWamid
  <2>2. CASE cur[w] = m
    BY <1>1, <2>1, <2>2
  <2>3. CASE cur[w] # m
    BY <1>1, <2>1, <2>3, SentKept
  <2> QED BY <2>2, <2>3
<1>7. CASE RecordSent(w)
  <2>1. /\ pc' = [pc EXCEPT ![w] = "complete"] /\ cur' = cur
        /\ statuses' = [statuses EXCEPT ![cur[w]] = @ \cup {"SENT"}]
        /\ wamid' = wamid /\ faults' = faults
    BY <1>7 DEF RecordSent, AddStatus
  <2>2. CASE cur[w] = m
    BY <1>1, <2>1, <2>2
  <2>3. CASE cur[w] # m
    BY <1>1, <2>1, <2>3, SentKept
  <2> QED BY <2>2, <2>3
<1>8. CASE RecordFailed(w)
  <2>1. /\ pc' = [pc EXCEPT ![w] = "bury"] /\ cur' = cur /\ wamid' = wamid
        /\ pc[w] = "reject" /\ faults' \in {faults, faults + 1}
        /\ \/ statuses' = [statuses EXCEPT ![cur[w]] = @ \cup {"FAILED"}]
           \/ statuses' = statuses
    BY <1>8 DEF RecordFailed, AddStatus, Fault
  <2>2. statuses[m] \subseteq statuses'[m]
    BY <1>1, <2>1
  <2>3. faults' = 0 => faults = 0
    BY <1>1, <2>1
  <2> QED BY <1>1, <2>1, <2>2, <2>3, SentKept
<1> QED BY <1>3, <1>4, <1>5, <1>6, <1>7, <1>8 DEF WorkerStep

(* OutboundProcessor.process: as long as nothing has failed, a message     *)
(* whose wamid is stored has its SENT event, or its worker is about to     *)
(* write it; callbacks and other runs take neither away.                   *)
THEOREM SentIsRecorded == Spec => []SentRecorded
<1>1. Init => SentRecorded
  BY DEF Init, SentRecorded
<1>2. TypeOK /\ SentRecorded /\ [Next]_vars => SentRecorded'
  BY SentStep, SentRun
<1> QED BY <1>1, <1>2, TypeCorrect, PTL DEF Spec

-----------------------------------------------------------------------------
(* Refinement of RecordedDispatch.                                         *)

(* Rows are only added and re-marked, so intents come from POSTs alone. *)
LEMMA IntentStep ==
  ASSUME TypeOK, StatusImpliesRecorded, [Next]_vars, NEW m \in Messages
  PROVE  HasIntent(m)' <=> HasIntent(m) \/ AcceptMessage(m)
<1> USE DEF HasIntent
<1>1. CASE UNCHANGED outbox
  BY <1>1 DEF AcceptMessage, TypeOK, OutboxType
<1>2. ASSUME NEW k \in Messages, NEW t \in {"send", "status"},
             outbox' = Append(outbox, NewRow(t, k))
      PROVE  HasIntent(m)' <=> HasIntent(m) \/ (t = "send" /\ k = m)
  <2>1. outbox \in Seq(Row) /\ DOMAIN outbox = 1..Len(outbox) /\ Len(outbox) \in Nat
    BY DEF TypeOK, OutboxType
  <2>2. /\ DOMAIN outbox' = 1..(Len(outbox) + 1)
        /\ \A i \in DOMAIN outbox : outbox'[i] = outbox[i]
        /\ outbox'[Len(outbox) + 1] = NewRow(t, k)
    BY <1>2, <2>1
  <2> QED BY <2>1, <2>2 DEF NewRow
<1>3. ASSUME NEW k \in Messages, AcceptMessage(k)
      PROVE  HasIntent(m)' <=> HasIntent(m) \/ AcceptMessage(m)
  <2>1. HasIntent(m)' <=> HasIntent(m) \/ k = m
    BY <1>2, <1>3 DEF AcceptMessage
  <2>2. AcceptMessage(m) => HasIntent(m)'
    BY <1>2 DEF AcceptMessage
  <2> QED BY <1>3, <2>1, <2>2
<1>4. ASSUME NEW c \in inFlight, HandleCallback(c)
      PROVE  HasIntent(m)' <=> HasIntent(m) \/ AcceptMessage(m)
  <2>1. c.msg \in Messages
    BY DEF TypeOK, HookType, Callback
  <2>2. CASE outbox' = Append(outbox, NewRow("status", c.msg))
    <3>1. HasIntent(m)' <=> HasIntent(m)
      BY <1>2, <2>1, <2>2
    <3>2. AcceptMessage(m) => HasIntent(m)'
      BY <1>2 DEF AcceptMessage
    <3> QED BY <3>1, <3>2
  <2> QED BY <1>1, <1>4, <2>2 DEF HandleCallback
<1>5. ASSUME NEW n \in Nodes, NEW s \in {"PUBLISHED", "FAILED"}, FinishRow(n, s)
      PROVE  HasIntent(m)' <=> HasIntent(m) \/ AcceptMessage(m)
  <2>1. PICK i \in DOMAIN outbox : outbox' = [outbox EXCEPT ![i] = WithState(@, s)]
    BY <1>5 DEF FinishRow
  <2>2. /\ DOMAIN outbox' = DOMAIN outbox
        /\ outbox'[i] = WithState(outbox[i], s)
        /\ \A j \in DOMAIN outbox : j # i => outbox'[j] = outbox[j]
    BY <2>1 DEF TypeOK, OutboxType
  <2>3. \A j \in DOMAIN outbox :
          outbox'[j].msg = outbox[j].msg /\ outbox'[j].type = outbox[j].type
    BY <2>2 DEF WithState
  <2>4. AcceptMessage(m) => HasIntent(m)'
    BY <1>2 DEF AcceptMessage
  <2> QED BY <2>2, <2>3, <2>4
<1>6. ASSUME NEW n \in Nodes, PublisherStep(n) \/ Crash(n)
      PROVE  (\E s \in {"PUBLISHED", "FAILED"} : FinishRow(n, s)) \/ UNCHANGED outbox
  BY <1>6 DEF PublisherStep, ReadPending, EmitEvent, MarkPublished, MarkPublishedFails,
     MarkFailed, MarkFailedFails, Crash
<1>7. ASSUME NEW k \in Messages, \/ BackoffElapsed(k) \/ RecoverOrphan(k) \/ LockExpires(k)
                                 \/ RetryFailedJob(k) \/ IssueCallback(k)
      PROVE  UNCHANGED outbox
  BY <1>7 DEF BackoffElapsed, RecoverOrphan, LockExpires, PutBackStalled, RetryFailedJob,
     IssueCallback
<1>8. ASSUME NEW w \in Workers, TakeJob(w) \/ WorkerStep(w) PROVE UNCHANGED outbox
  BY <1>8 DEF TakeJob, WorkerStep, ReadState, Throttled, MetaAccepts, PermanentError,
     TransientError, ResponseLost, StoreWamid, StoreWamidFails, RecordSent, RecordSentFails,
     RecordFailed, JobCompleted, JobThrew, JobUnrecoverable
<1>9. UNCHANGED vars => UNCHANGED outbox
  BY DEF vars
<1> QED BY <1>1, <1>3, <1>4, <1>5, <1>6, <1>7, <1>8, <1>9 DEF Next

(* How a step may change the state a sender sees of message m. *)
Seen(m) == <<MessageState(m), dispatched[m]>>

LEMMA SameSeen ==
  ASSUME NEW m \in Messages, HasIntent(m)' <=> HasIntent(m), wamid'[m] = wamid[m],
         jobState'[m] = "failed" <=> jobState[m] = "failed", dispatched'[m] = dispatched[m]
  PROVE  Seen(m)' = Seen(m)
BY DEF Seen, MessageState

(* A step that changes what is seen of one message only, and changes it in *)
(* a way RecordedDispatch allows, is a step of RecordedDispatch.           *)
LEMMA OneMessage ==
  ASSUME NEW k \in Messages, \A m \in Messages \ {k} : Seen(m)' = Seen(m),
         dispatched \in [Messages -> Nat], dispatched' \in [Messages -> Nat],
         \/ Seen(k)' = Seen(k)
         \/ /\ dispatched'[k] = dispatched[k]
            /\ \/ MessageState(k) = "new" /\ MessageState(k)' = "accepted"
               \/ MessageState(k) = "accepted" /\ MessageState(k)' = "givenUp"
               \/ MessageState(k) = "givenUp" /\ MessageState(k)' = "accepted"
               \/ /\ MessageState(k) = "accepted" /\ MessageState(k)' = "recorded"
                  /\ dispatched[k] > 0
         \/ /\ MessageState(k) = "accepted" /\ MessageState(k)' = "accepted"
            /\ dispatched'[k] = dispatched[k] + 1
  PROVE  [Abstract!Next]_(Abstract!vars)
<1> DEFINE S == [m \in Messages |-> MessageState(m)]
<1>1. \A m \in Messages \ {k} : MessageState(m)' = MessageState(m) /\ dispatched'[m] = dispatched[m]
  BY DEF Seen
<1>2. S' = [S EXCEPT ![k] = MessageState(k)']
  BY <1>1
<1>3. dispatched'[k] = dispatched[k] => dispatched' = dispatched
  BY <1>1
<1>4. dispatched' = [dispatched EXCEPT ![k] = dispatched'[k]]
  BY <1>1
<1>5. CASE Seen(k)' = Seen(k)
  <2>1. S' = S /\ dispatched' = dispatched
    BY <1>2, <1>3, <1>5 DEF Seen
  <2> QED BY <2>1 DEF Abstract!vars
<1>6. CASE dispatched'[k] = dispatched[k] /\ MessageState(k) = "new" /\ MessageState(k)' = "accepted"
  BY <1>2, <1>3, <1>6 DEF Abstract!Next, Abstract!Accept, Abstract!Move
<1>7. CASE dispatched'[k] = dispatched[k] /\ MessageState(k) = "accepted" /\ MessageState(k)' = "givenUp"
  BY <1>2, <1>3, <1>7 DEF Abstract!Next, Abstract!GiveUp, Abstract!Move
<1>8. CASE dispatched'[k] = dispatched[k] /\ MessageState(k) = "givenUp" /\ MessageState(k)' = "accepted"
  BY <1>2, <1>3, <1>8 DEF Abstract!Next, Abstract!Reopen, Abstract!Move
<1>9. CASE /\ dispatched'[k] = dispatched[k] /\ dispatched[k] > 0
           /\ MessageState(k) = "accepted" /\ MessageState(k)' = "recorded"
  BY <1>2, <1>3, <1>9 DEF Abstract!Next, Abstract!Record, Abstract!Move
<1>10. CASE /\ dispatched'[k] = dispatched[k] + 1
            /\ MessageState(k) = "accepted" /\ MessageState(k)' = "accepted"
  <2>1. S' = S
    BY <1>2, <1>10
  <2> QED BY <1>4, <1>10, <2>1 DEF Abstract!Next, Abstract!HandOver
<1> QED BY <1>5, <1>6, <1>7, <1>8, <1>9, <1>10

(* What the three variables behind MessageState do at message k in a step. *)
SameRecord(m) ==
  wamid'[m] = wamid[m] /\ jobState'[m] = jobState[m] /\ dispatched'[m] = dispatched[m]

QueueMove(k) == wamid'[k] = wamid[k] /\ dispatched'[k] = dispatched[k]

RecordMove(k) ==
  /\ wamid[k] = 0 /\ wamid'[k] # 0 /\ jobState[k] # "failed"
  /\ dispatched'[k] = dispatched[k] /\ dispatched[k] > 0

HandOverMove(k) ==
  /\ wamid[k] = 0 /\ wamid'[k] = 0
  /\ jobState[k] # "failed" /\ jobState'[k] = jobState[k]
  /\ dispatched'[k] = dispatched[k] + 1

(* A step moves one message at most, one that was POSTed. *)
MovesOne(k) ==
  /\ HasIntent(k)
  /\ \A m \in Messages \ {k} : SameRecord(m)
  /\ QueueMove(k) \/ RecordMove(k) \/ HandOverMove(k)

LEMMA WorkerMoves ==
  ASSUME TypeOK, DispatchInv, IntentFirst, NEW w \in Workers, WorkerStep(w)
  PROVE  MovesOne(cur[w])
<1> DEFINE k == cur[w]
<1>1. k \in Messages /\ pc[w] # "idle"
  BY RunningWorker DEF WorkerStep, ReadState, Throttled, MetaAccepts, PermanentError,
     TransientError, ResponseLost, StoreWamid, StoreWamidFails, RecordSent, RecordSentFails,
     RecordFailed, JobCompleted, JobThrew, JobUnrecoverable
<1>2. jobState[k] = "active"
  BY <1>1 DEF DispatchInv, RunHoldsLock
<1>3. HasIntent(k)
  BY <1>1, <1>2 DEF IntentFirst
<1>4. dispatched[k] \in Nat /\ got[w] \in Nat
  BY <1>1 DEF TypeOK, MetaType, WorkerType
<1>5. CASE UNCHANGED <<wamid, jobState, dispatched>>
  BY <1>1, <1>3, <1>5 DEF MovesOne, SameRecord, QueueMove
<1>6. CASE MetaAccepts(w) \/ ResponseLost(w)
  <2>1. wamid[k] = 0
    BY <1>6 DEF DispatchInv, RunState, MetaAccepts, ResponseLost
  <2>2. /\ UNCHANGED <<wamid, jobState>>
        /\ dispatched' = [dispatched EXCEPT ![k] = dispatched[k] + 1]
    BY <1>6 DEF MetaAccepts, ResponseLost, dbVars, queueVars
  <2>3. HandOverMove(k)
    BY <1>1, <1>2, <2>1, <2>2 DEF HandOverMove, TypeOK, MetaType
  <2> QED BY <1>1, <1>3, <2>2, <2>3 DEF MovesOne, SameRecord, TypeOK, MetaType
<1>7. CASE StoreWamid(w)
  <2>1. wamid[k] = 0 /\ got[w] = dispatched[k] /\ got[w] # 0
    BY <1>7 DEF DispatchInv, RunState, StoreWamid
  <2>2. UNCHANGED <<jobState, dispatched>> /\ wamid' = [wamid EXCEPT ![k] = got[w]]
    BY <1>7 DEF StoreWamid, queueVars, metaVars
  <2>3. RecordMove(k)
    BY <1>1, <1>2, <1>4, <2>1, <2>2 DEF RecordMove, TypeOK, DbType
  <2> QED BY <1>1, <1>3, <2>2, <2>3 DEF MovesOne, SameRecord, TypeOK, DbType
<1>8. ASSUME NEW state, NEW made, SetJob(w, state, made), UNCHANGED <<wamid, dispatched>>
      PROVE  MovesOne(k)
  BY <1>1, <1>3, <1>8
     DEF MovesOne, SameRecord, QueueMove, SetJob, queueVars, TypeOK, QueueType
<1>9. CASE JobCompleted(w) \/ JobThrew(w) \/ JobUnrecoverable(w)
  BY <1>8, <1>9 DEF JobCompleted, JobThrew, JobUnrecoverable, dbVars, metaVars
<1>10. WorkerStep(w) =>
         \/ MetaAccepts(w) \/ ResponseLost(w) \/ StoreWamid(w)
         \/ JobCompleted(w) \/ JobThrew(w) \/ JobUnrecoverable(w)
         \/ UNCHANGED <<wamid, jobState, dispatched>>
  BY DEF WorkerStep, ReadState, Throttled, PermanentError, TransientError, StoreWamidFails,
     RecordSent, RecordSentFails, RecordFailed, dbVars, queueVars, metaVars
<1> QED BY <1>5, <1>6, <1>7, <1>9, <1>10

LEMMA StepMoves ==
  ASSUME TypeOK, DispatchInv, IntentFirst, [Next]_vars, "stall" \notin Faults
  PROVE  \/ \A m \in Messages : SameRecord(m)
         \/ \E k \in Messages : MovesOne(k)
<1> DEFINE Same == UNCHANGED <<wamid, jobState, dispatched>>
<1>1. Same => \A m \in Messages : SameRecord(m)
  BY DEF SameRecord
<1>2. ASSUME NEW k \in Messages, jobState[k] # "none", UNCHANGED <<wamid, dispatched>>,
             NEW s, jobState' = [jobState EXCEPT ![k] = s]
      PROVE  MovesOne(k)
  BY <1>2 DEF IntentFirst, MovesOne, SameRecord, QueueMove, TypeOK, QueueType
<1>3. ASSUME NEW k \in Messages, BackoffElapsed(k) \/ RetryFailedJob(k) \/ RecoverOrphan(k)
      PROVE  MovesOne(k)
  BY <1>2, <1>3
     DEF BackoffElapsed, RetryFailedJob, RecoverOrphan, PutBackStalled, dbVars, metaVars
<1>4. ASSUME NEW k \in Messages PROVE ~LockExpires(k)
  BY DEF LockExpires, Fault
<1>5. ASSUME NEW n \in Nodes, EmitEvent(n) PROVE Same \/ \E k \in Messages : MovesOne(k)
  <2>1. UNCHANGED <<wamid, dispatched>>
    BY <1>5 DEF EmitEvent, dbVars, metaVars
  <2>2. PICK i \in DOMAIN outbox :
          AddJob(outbox[i].type, outbox[i].msg) \/ UNCHANGED queueVars
    BY <1>5 DEF EmitEvent
  <2>3. HasIntent(outbox[i].msg)
    <3>1. CASE outbox[i].type = "send"
      BY <3>1 DEF HasIntent
    <3>2. CASE outbox[i].type = "status"
      BY <3>2, RowFields DEF IntentFirst, DispatchInv, StatusImpliesRecorded
    <3> QED BY <3>1, <3>2, RowFields
  <2>4. Same \/ jobState' = [jobState EXCEPT ![outbox[i].msg] = "waiting"]
    BY <2>1, <2>2 DEF AddJob, queueVars
  <2> QED BY <2>1, <2>3, <2>4, RowFields DEF MovesOne, SameRecord, QueueMove, TypeOK, QueueType
<1>6. ASSUME NEW w \in Workers, TakeJob(w) PROVE \E k \in Messages : MovesOne(k)
  BY <1>2, <1>6 DEF TakeJob, dbVars, metaVars
<1>7. ASSUME NEW w \in Workers, WorkerStep(w) PROVE \E k \in Messages : MovesOne(k)
  <2>1. cur[w] \in Messages
    BY <1>7, RunningWorker DEF WorkerStep, ReadState, Throttled, MetaAccepts, PermanentError,
       TransientError, ResponseLost, StoreWamid, StoreWamidFails, RecordSent, RecordSentFails,
       RecordFailed, JobCompleted, JobThrew, JobUnrecoverable
  <2> QED BY <1>7, <2>1, WorkerMoves
<1>8. ASSUME NEW n \in Nodes, PublisherStep(n) \/ Crash(n) PROVE EmitEvent(n) \/ Same
  BY <1>8 DEF PublisherStep, ReadPending, MarkPublished, MarkPublishedFails,
     MarkFailed, MarkFailedFails, FinishRow, Crash, dbVars, queueVars, metaVars
<1>9. ASSUME NEW k \in Messages, AcceptMessage(k) \/ IssueCallback(k) PROVE Same
  BY <1>9 DEF AcceptMessage, IssueCallback, dbVars, queueVars, metaVars
<1>10. ASSUME NEW c \in inFlight, HandleCallback(c) PROVE Same
  BY <1>10 DEF HandleCallback, queueVars, metaVars
<1>11. UNCHANGED vars => Same
  BY DEF vars, dbVars, queueVars, metaVars
<1> QED BY <1>1, <1>3, <1>4, <1>5, <1>6, <1>7, <1>8, <1>9, <1>10, <1>11 DEF Next

LEMMA IntentFirstStep ==
  ASSUME TypeOK, DispatchInv, IntentFirst, [Next]_vars, "stall" \notin Faults
  PROVE  IntentFirst'
<1> SUFFICES ASSUME NEW m \in Messages, ~HasIntent(m)'
             PROVE  wamid'[m] = 0 /\ jobState'[m] = "none"
  BY DEF IntentFirst
<1>1. ~HasIntent(m)
  BY IntentStep DEF DispatchInv
<1>2. SameRecord(m)
  BY <1>1, StepMoves DEF MovesOne
<1> QED BY <1>1, <1>2 DEF SameRecord, IntentFirst

LEMMA RefinementStep ==
  ASSUME TypeOK, TypeOK', DispatchInv, IntentFirst, [Next]_vars, "stall" \notin Faults
  PROVE  [Abstract!Next]_(Abstract!vars)
<1>1. \A m \in Messages : HasIntent(m)' <=> HasIntent(m) \/ AcceptMessage(m)
  BY IntentStep DEF DispatchInv
<1>2. dispatched \in [Messages -> Nat] /\ dispatched' \in [Messages -> Nat]
  BY DEF TypeOK, MetaType
<1>3. CASE \E k \in Messages : AcceptMessage(k)
  <2>1. PICK k \in Messages : AcceptMessage(k)
    BY <1>3
  <2>2. UNCHANGED <<wamid, jobState, dispatched>> /\ ~HasIntent(k)
    BY <2>1 DEF AcceptMessage, dbVars, queueVars, metaVars
  <2>3. \A m \in Messages \ {k} : HasIntent(m)' <=> HasIntent(m)
    <3>1. ASSUME NEW m \in Messages \ {k} PROVE ~AcceptMessage(m)
      <4>1. outbox' = Append(outbox, NewRow("send", k)) /\ outbox \in Seq(Row)
        BY <2>1 DEF AcceptMessage, TypeOK, OutboxType
      <4>2. outbox'[Len(outbox) + 1].msg = k
        BY <4>1 DEF NewRow
      <4>3. AcceptMessage(m) => outbox'[Len(outbox) + 1].msg = m
        BY <4>1 DEF AcceptMessage, NewRow
      <4> QED BY <4>2, <4>3
    <3> QED BY <1>1, <3>1
  <2>4. \A m \in Messages \ {k} : Seen(m)' = Seen(m)
    BY <2>2, <2>3, SameSeen
  <2>5. HasIntent(k)' /\ wamid[k] = 0 /\ jobState[k] = "none"
    BY <1>1, <2>1, <2>2 DEF IntentFirst
  <2>6. MessageState(k) = "new" /\ MessageState(k)' = "accepted"
    BY <2>2, <2>5 DEF MessageState
  <2> QED BY <1>2, <2>2, <2>4, <2>6, OneMessage
<1>4. CASE \A k \in Messages : ~AcceptMessage(k)
  <2>1. \A m \in Messages : HasIntent(m)' <=> HasIntent(m)
    BY <1>1, <1>4
  <2>2. \A m \in Messages : SameRecord(m) => Seen(m)' = Seen(m)
    BY <2>1, SameSeen DEF SameRecord
  <2>3. CASE \A m \in Messages : SameRecord(m)
    <3>1. \A m \in Messages : MessageState(m)' = MessageState(m) /\ dispatched'[m] = dispatched[m]
      BY <2>2, <2>3 DEF Seen
    <3> QED BY <1>2, <3>1 DEF Abstract!vars
  <2>4. CASE \E k \in Messages : MovesOne(k)
    <3>1. PICK k \in Messages : MovesOne(k)
      BY <2>4
    <3>2. \A m \in Messages \ {k} : Seen(m)' = Seen(m)
      BY <2>2, <3>1 DEF MovesOne
    <3>3. HasIntent(k) /\ HasIntent(k)'
      BY <2>1, <3>1 DEF MovesOne
    <3>4. dispatched[k] \in Nat
      BY <1>2
    <3>5. CASE QueueMove(k)
      <4>1. \/ MessageState(k)' = MessageState(k)
            \/ MessageState(k) = "accepted" /\ MessageState(k)' = "givenUp"
            \/ MessageState(k) = "givenUp" /\ MessageState(k)' = "accepted"
        BY <3>3, <3>5 DEF MessageState, QueueMove
      <4> QED BY <1>2, <3>2, <3>5, <4>1, OneMessage DEF Seen, QueueMove
    <3>6. CASE RecordMove(k)
      <4>1. MessageState(k) = "accepted" /\ MessageState(k)' = "recorded"
        BY <3>3, <3>6 DEF MessageState, RecordMove
      <4> QED BY <1>2, <3>2, <3>6, <4>1, OneMessage DEF RecordMove
    <3>7. CASE HandOverMove(k)
      <4>1. MessageState(k) = "accepted" /\ MessageState(k)' = "accepted"
        BY <3>3, <3>7 DEF MessageState, HandOverMove
      <4> QED BY <1>2, <3>2, <3>7, <4>1, OneMessage DEF HandOverMove
    <3> QED BY <3>1, <3>5, <3>6, <3>7 DEF MovesOne
  <2> QED BY <2>3, <2>4, StepMoves
<1> QED BY <1>3, <1>4

(* The whole path implements RecordedDispatch: what a sender can observe   *)
(* of a message is accept, hand-overs, at most one record and no hand-over *)
(* after it, giving up and an operator's reopening.                        *)
THEOREM PipelineImplementsRecordedDispatch ==
  ASSUME "stall" \notin Faults
  PROVE  Spec => ImplementsRecordedDispatch
<1>1. Init => Abstract!Init
  BY DEF Init, Abstract!Init, MessageState, HasIntent
<1>2. Init => IntentFirst
  BY DEF Init, IntentFirst
<1>3. TypeOK /\ DispatchInv /\ IntentFirst /\ [Next]_vars => IntentFirst'
  BY IntentFirstStep
<1>4. TypeOK /\ TypeOK' /\ DispatchInv /\ IntentFirst /\ [Next]_vars
        => [Abstract!Next]_(Abstract!vars)
  BY RefinementStep
<1> QED BY <1>1, <1>2, <1>3, <1>4, TypeCorrect, DispatchCorrect, PTL
        DEF Spec, ImplementsRecordedDispatch, Abstract!Spec
=============================================================================
