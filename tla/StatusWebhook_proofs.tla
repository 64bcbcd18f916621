------------------------- MODULE StatusWebhook_proofs -------------------------
(* Theorems of StatusWebhook, for every set of webhooks and requests, every *)
(* kind of failure and every bound.                                         *)
EXTENDS StatusWebhook, TLAPS

-----------------------------------------------------------------------------
(* Operators of the model.                                                 *)

LEMMA WeightRange ==
  /\ \A s : Weight(s) \in 0..4
  /\ \A s \in Reported : Weight(s) > 0
  /\ \A s : Weight(s) <= Weight("failed")
BY DEF Weight, Reported

(* The item a request is at. *)
LEMMA ItemType ==
  ASSUME TypeOK, NEW h \in Requests, at[h] # "idle"
  PROVE  /\ webhook[h] \in Webhooks /\ Item(h) \in StatusItems \cup Inbound
         /\ pos[h] \in 1..Len(Payload[webhook[h]]) /\ Len(Payload[webhook[h]]) \in Nat
         /\ ItemIsStatus(h) => Item(h) \in StatusItems
<1>1. webhook[h] \in Webhooks
  BY DEF TypeOK, RequestType
<1>2. Payload[webhook[h]] \in Seq(StatusItems \cup Inbound)
  BY <1>1, StatusAssumption
<1>3. pos[h] \in 1..Len(Payload[webhook[h]])
  BY <1>2 DEF TypeOK, RequestType
<1> QED BY <1>1, <1>2, <1>3 DEF Item, ItemIsStatus

LEMMA StatusItemType ==
  ASSUME NEW i \in StatusItems
  PROVE  i.msg \in Messages /\ i.status \in Reported
BY DEF StatusItems

-----------------------------------------------------------------------------
(* Type correctness.                                                       *)

LEMMA UnchangedTypes ==
  ASSUME TypeOK
  PROVE  /\ UNCHANGED queueVars => QueueType'
         /\ UNCHANGED rowVars => RowType'
         /\ UNCHANGED requestVars => RequestType'
         /\ UNCHANGED workerVars => WorkerType'
         /\ UNCHANGED worldVars => WorldType'
         /\ UNCHANGED histVars => HistType'
<1> USE DEF TypeOK
<1>1. UNCHANGED queueVars => QueueType'
  BY DEF QueueType, queueVars
<1>2. UNCHANGED rowVars => RowType'
  BY DEF RowType, rowVars
<1>3. UNCHANGED requestVars => RequestType'
  BY DEF RequestType, requestVars, ItemIsStatus, Item
<1>4. UNCHANGED workerVars => WorkerType'
  BY DEF WorkerType, workerVars
<1>5. UNCHANGED worldVars => WorldType'
  BY DEF WorldType, worldVars
<1>6. UNCHANGED histVars => HistType'
  BY DEF HistType, histVars
<1> QED BY <1>1, <1>2, <1>3, <1>4, <1>5, <1>6

LEMMA FaultType ==
  ASSUME TypeOK, NEW kind, Fault(kind)
  PROVE  faults' \in Nat
BY DEF TypeOK, Fault

(* A step of one request leaves the others at their items. *)
LEMMA OwnItemOnly ==
  ASSUME TypeOK, NEW h \in Requests, NEW g \in Requests, g # h, Deliver(h) \/ RequestStep(h)
  PROVE  at'[g] = at[g] /\ webhook'[g] = webhook[g] /\ pos'[g] = pos[g] /\ Item(g)' = Item(g)
<1>1. ASSUME NEW label, Goto(h, label),
             UNCHANGED webhook \/ \E x : webhook' = [webhook EXCEPT ![h] = x],
             UNCHANGED pos \/ \E n : pos' = [pos EXCEPT ![h] = n]
      PROVE  at'[g] = at[g] /\ webhook'[g] = webhook[g] /\ pos'[g] = pos[g]
  BY <1>1 DEF Goto, TypeOK, RequestType
<1>2. EndHandling(h) \/ NextItem(h) =>
        at'[g] = at[g] /\ webhook'[g] = webhook[g] /\ pos'[g] = pos[g]
  BY <1>1 DEF EndHandling, NextItem
<1>3. at'[g] = at[g] /\ webhook'[g] = webhook[g] /\ pos'[g] = pos[g]
  BY <1>1, <1>2 DEF Deliver, RequestStep, NotMapped, Skip, Proceed, ReadFails, Abandon, QueueRefund,
     QueueRefundFails, WriteStatus, WriteFails, StoreInbound
<1> QED BY <1>3 DEF Item

(* A request that is through with an item is at the next one, or at the end. *)
LEMMA MovesOn ==
  ASSUME TypeOK, NEW h \in Requests, at[h] # "idle", NextItem(h) \/ EndHandling(h)
  PROVE  \/ /\ pos[h] = Len(Payload[webhook[h]]) \/ EndHandling(h)
            /\ at'[h] = "idle" /\ webhook'[h] = NoWebhook /\ pos'[h] = 1
            /\ handled' = handled \cup {webhook[h]}
         \/ /\ pos[h] < Len(Payload[webhook[h]])
            /\ at'[h] = "item" /\ webhook'[h] = webhook[h] /\ pos'[h] = pos[h] + 1
            /\ UNCHANGED handled
<1>1. CASE EndHandling(h)
  BY <1>1 DEF EndHandling, Goto, TypeOK, RequestType
<1>2. CASE pos[h] # Len(Payload[webhook[h]]) /\ ~EndHandling(h)
  BY <1>2, ItemType DEF NextItem, Goto, TypeOK, RequestType
<1> QED BY <1>1, <1>2 DEF NextItem

LEMMA MovesOnTypes ==
  ASSUME TypeOK, NEW h \in Requests, at[h] # "idle", NextItem(h) \/ EndHandling(h),
         \A g \in Requests \ {h} :
           at'[g] = at[g] /\ webhook'[g] = webhook[g] /\ pos'[g] = pos[g] /\ Item(g)' = Item(g)
  PROVE  RequestType' /\ handled' \subseteq Webhooks
<1>1. /\ at' \in [Requests -> {"idle", "item", "refund", "write"}]
      /\ webhook' \in [Requests -> Webhooks \cup {NoWebhook}]
      /\ pos' \in [Requests -> Nat \ {0}]
  <2>1. CASE EndHandling(h)
    BY <2>1 DEF EndHandling, Goto, TypeOK, RequestType
  <2>2. CASE Goto(h, "item") /\ pos' = [pos EXCEPT ![h] = @ + 1] /\ UNCHANGED webhook
    BY <2>2 DEF Goto, TypeOK, RequestType
  <2> QED BY <2>1, <2>2 DEF NextItem
<1>2. handled' \subseteq Webhooks
  BY MovesOn, ItemType DEF TypeOK, WorldType
<1>3. ASSUME NEW g \in Requests
      PROVE  /\ webhook'[g] = NoWebhook <=> at'[g] = "idle"
             /\ IF at'[g] = "idle" THEN pos'[g] = 1 ELSE pos'[g] \in DOMAIN Payload[webhook'[g]]
             /\ at'[g] \in {"refund", "write"} => ItemIsStatus(g)'
             /\ at'[g] = "refund" => Item(g)'.status = "failed"
  <2>1. CASE g # h
    BY <2>1 DEF TypeOK, RequestType, ItemIsStatus
  <2>2. CASE g = h
    <3>1. Payload[webhook[h]] \in Seq(StatusItems \cup Inbound) /\ webhook[h] # NoWebhook
      BY ItemType, StatusAssumption
    <3>2. pos[h] < Len(Payload[webhook[h]]) => pos[h] + 1 \in DOMAIN Payload[webhook[h]]
      BY <3>1, ItemType
    <3> QED BY <2>2, <3>1, <3>2, MovesOn
  <2> QED BY <2>1, <2>2
<1> QED BY <1>1, <1>2, <1>3 DEF RequestType

(* A request that stays at its item. *)
LEMMA StaysTypes ==
  ASSUME TypeOK, NEW h \in Requests, at[h] # "idle", ItemIsStatus(h), UNCHANGED <<webhook, pos>>,
         \/ Goto(h, "write")
         \/ Goto(h, "refund") /\ Item(h).status = "failed"
  PROVE  RequestType'
BY DEF Goto, TypeOK, RequestType, ItemIsStatus, Item

LEMMA DeliverTypes ==
  ASSUME TypeOK, NEW h \in Requests, Deliver(h)
  PROVE  TypeOK'
<1>1. PICK x \in Webhooks : webhook' = [webhook EXCEPT ![h] = x]
  BY DEF Deliver
<1>2. Payload[x] \in Seq(StatusItems \cup Inbound) /\ Payload[x] # <<>> /\ x # NoWebhook
  BY <1>1, StatusAssumption
<1>3. 1 \in DOMAIN Payload[x]
  BY <1>2
<1>4. RequestType'
  <2>1. /\ at' \in [Requests -> {"idle", "item", "refund", "write"}]
        /\ webhook' \in [Requests -> Webhooks \cup {NoWebhook}] /\ UNCHANGED pos
        /\ at[h] = "idle" /\ at'[h] = "item" /\ webhook'[h] = x
    BY <1>1 DEF Deliver, Goto, TypeOK, RequestType
  <2>2. \A g \in Requests \ {h} : at'[g] = at[g] /\ webhook'[g] = webhook[g] /\ Item(g)' = Item(g)
    BY OwnItemOnly
  <2> QED BY <1>2, <1>3, <2>1, <2>2 DEF TypeOK, RequestType, ItemIsStatus
<1>5. WorldType'
  BY StatusAssumption DEF Deliver, TypeOK, WorldType
<1> QED BY <1>4, <1>5, UnchangedTypes DEF Deliver, TypeOK

LEMMA RequestStepTypes ==
  ASSUME TypeOK, NEW h \in Requests, RequestStep(h)
  PROVE  TypeOK'
<1>1. at[h] # "idle" /\ (ItemIsStatus(h) => Item(h).msg \in Messages /\ Item(h).status \in Reported)
  <2>1. at[h] # "idle"
    BY DEF RequestStep, NotMapped, Skip, Proceed, ReadFails, QueueRefund, QueueRefundFails,
       WriteStatus, WriteFails, StoreInbound
  <2> QED BY <2>1, ItemType, StatusItemType
<1>2. CASE Proceed(h) \/ QueueRefund(h)
  <2>1. RequestType'
    BY <1>1, <1>2, StaysTypes DEF Proceed, QueueRefund, TypeOK, RequestType
  <2>2. HistType'
    BY <1>1, <1>2 DEF Proceed, QueueRefund, TypeOK, HistType, histVars
  <2>3. QueueType'
    <3>1. CASE Add(Item(h).msg)
      BY <3>1 DEF Add, TypeOK, QueueType
    <3> QED BY <1>2, <3>1, UnchangedTypes DEF Proceed, QueueRefund
  <2> QED BY <1>2, <2>1, <2>2, <2>3, UnchangedTypes DEF Proceed, QueueRefund, TypeOK, rowVars
<1>3. CASE ~(Proceed(h) \/ QueueRefund(h))
  <2>1. RequestType' /\ handled' \subseteq Webhooks
    <3>1. NextItem(h) \/ EndHandling(h)
      BY <1>3 DEF RequestStep, NotMapped, Skip, ReadFails, QueueRefundFails, WriteStatus, WriteFails,
         StoreInbound, Abandon
    <3> QED BY <1>1, <3>1, MovesOnTypes, OwnItemOnly
  <2>2. UNCHANGED <<workerVars, delivered, refunded, told>> /\ faults' \in Nat
    BY <1>3, FaultType DEF RequestStep, NotMapped, Skip, ReadFails, QueueRefundFails, WriteStatus,
       WriteFails, StoreInbound, TypeOK, histVars
  <2>2a. QueueType'
    <3>1. UNCHANGED queueVars \/ Add(Item(h).msg)
      BY <1>3 DEF RequestStep, NotMapped, Skip, ReadFails, QueueRefundFails, WriteStatus,
         WriteFails, StoreInbound
    <3>2. CASE Add(Item(h).msg)
      BY <3>2 DEF Add, TypeOK, QueueType
    <3> QED BY <3>1, <3>2, UnchangedTypes
  <2>3. WorldType'
    BY <2>1, <2>2 DEF TypeOK, WorldType
  <2>4. RowType'
    <3>1. CASE WriteStatus(h) \/ WriteFails(h)
      BY <1>1, <3>1 DEF WriteStatus, WriteFails, TypeOK, RowType, RequestType
    <3>2. CASE StoreInbound(h)
      BY <1>1, <3>2, ItemType DEF StoreInbound, TypeOK, RowType, ItemIsStatus
    <3>3. CASE ~(WriteStatus(h) \/ WriteFails(h) \/ StoreInbound(h))
      BY <1>3, <3>3, UnchangedTypes DEF RequestStep, NotMapped, Skip, ReadFails, QueueRefundFails
    <3> QED BY <3>1, <3>2, <3>3
  <2>5. HistType'
    BY <1>1, <1>3, ItemType DEF RequestStep, NotMapped, Skip, ReadFails, QueueRefundFails, WriteStatus,
       WriteFails, StoreInbound, Abandon, TypeOK, HistType, histVars, RequestType
  <2>6. syncs' \subseteq [msg : Messages, status : Reported, left : 0..SyncRetries]
    <3>1. CASE WriteStatus(h)
      <4>1. SyncRetries \in 0..SyncRetries
        BY StatusAssumption
      <4> QED BY <1>1, <3>1, <4>1 DEF WriteStatus, TypeOK, RequestType
    <3>2. CASE ~WriteStatus(h)
      BY <1>3, <3>2 DEF RequestStep, NotMapped, Skip, ReadFails, QueueRefundFails, WriteFails,
         StoreInbound, TypeOK
    <3> QED BY <3>1, <3>2
  <2> QED BY <2>1, <2>2, <2>2a, <2>3, <2>4, <2>5, <2>6, UnchangedTypes DEF TypeOK
<1> QED BY <1>2, <1>3

LEMMA SyncTypes ==
  ASSUME TypeOK, NEW y \in syncs, SyncDelivered(y) \/ SyncFails(y)
  PROVE  TypeOK'
<1>1. /\ y \in [msg : Messages, status : Reported, left : 0..SyncRetries]
      /\ SyncRetries \in Nat
  BY StatusAssumption DEF TypeOK
<1>2. CASE SyncDelivered(y)
  <2>1. WorldType'
    BY <1>1, <1>2 DEF SyncDelivered, TypeOK, WorldType
  <2> QED BY <1>2, <2>1, UnchangedTypes DEF SyncDelivered, TypeOK
<1>3. CASE SyncFails(y)
  <2>1. y.left > 0 => [y EXCEPT !.left = @ - 1] \in [msg : Messages, status : Reported, left : 0..SyncRetries]
    BY <1>1
  <2>2. syncs' \subseteq [msg : Messages, status : Reported, left : 0..SyncRetries]
    BY <1>3, <2>1 DEF SyncFails, TypeOK
  <2>3. HistType'
    BY <1>1, <1>3 DEF SyncFails, TypeOK, HistType
  <2> QED BY <1>3, <2>2, <2>3, FaultType, UnchangedTypes DEF SyncFails, TypeOK
<1> QED BY <1>2, <1>3

(* A worker that is not idle has the job of a message. *)
LEMMA WorkerHasJob ==
  ASSUME TypeOK, NEW w \in Workers, pc[w] # "idle"
  PROVE  cur[w] \in Messages
BY DEF TypeOK, WorkerType

LEMMA ReleaseTypes ==
  ASSUME TypeOK, NEW w \in Workers, Release(w)
  PROVE  WorkerType'
BY StatusAssumption DEF TypeOK, WorkerType, Release, WorkerTo

LEMMA RefundTypes ==
  ASSUME TypeOK, NEW w \in Workers, RefundStep(w)
  PROVE  TypeOK'
<1>1. CASE TakeRefund(w)
  <2>1. PICK m \in Messages : Take(w, m) /\ cur' = [cur EXCEPT ![w] = m]
    BY <1>1 DEF TakeRefund
  <2>2. WorkerType' /\ QueueType'
    BY <1>1, <2>1, StatusAssumption
       DEF TakeRefund, WorkerTo, Take, Messages, TypeOK, WorkerType, QueueType
  <2> QED BY <1>1, <2>2, UnchangedTypes DEF TakeRefund, TypeOK
<1>2. CASE PostRefund(w)
  <2>1. cur[w] \in Messages
    BY <1>2, WorkerHasJob DEF PostRefund
  <2>2. WorkerType'
    BY <1>2, <2>1 DEF PostRefund, WorkerTo, TypeOK, WorkerType
  <2>3. WorldType'
    <3>1. CASE refunded' = [refunded EXCEPT ![cur[w]] = @ + 1]
      BY <1>2, <2>1, <3>1 DEF PostRefund, TypeOK, WorldType
    <3>2. CASE UNCHANGED refunded
      BY <1>2, <3>2 DEF PostRefund, TypeOK, WorldType
    <3> QED BY <1>2, <3>1, <3>2 DEF PostRefund
  <2>4. HistType' /\ faults' \in Nat
    BY <1>2, <2>1, FaultType DEF PostRefund, TypeOK, HistType
  <2> QED BY <1>2, <2>2, <2>3, <2>4, UnchangedTypes DEF PostRefund, TypeOK, rowVars
<1>3. CASE RefundCompleted(w)
  <2>1. QueueType'
    BY <1>3, UnchangedTypes DEF RefundCompleted, TypeOK, QueueType
  <2> QED BY <1>3, <2>1, ReleaseTypes, UnchangedTypes DEF RefundCompleted, TypeOK
<1>4. CASE RefundThrew(w)
  <2>1. cur[w] \in Messages
    BY <1>4, WorkerHasJob DEF RefundThrew
  <2>2. attemptsMade[cur[w]] + 1 \in Nat
    BY <2>1 DEF TypeOK, QueueType, Messages
  <2>3. QueueType'
    BY <1>4, <2>2, UnchangedTypes DEF RefundThrew, Threw, Settle, TypeOK, QueueType
  <2> QED BY <1>4, <2>3, ReleaseTypes, UnchangedTypes DEF RefundThrew, TypeOK
<1> QED BY <1>1, <1>2, <1>3, <1>4 DEF RefundStep

LEMMA QueueTypes ==
  ASSUME TypeOK, NEW m \in Messages, QueueStep(m) \/ LockExpires(m)
  PROVE  TypeOK'
<1>1. CASE BackoffElapsed(m)
  <2>1. QueueType'
    BY <1>1 DEF BackoffElapsed, BackoffOver, TypeOK, QueueType
  <2> QED BY <1>1, <2>1, UnchangedTypes DEF BackoffElapsed, TypeOK
<1>2. CASE PutBack(m)
  <2>1. stalledCount[m] + 1 \in Nat
    BY DEF TypeOK, QueueType, Messages
  <2>2. QueueType'
    BY <1>2, <2>1 DEF PutBack, TypeOK, QueueType
  <2>3. HistType' /\ faults' \in Nat
    BY FaultType DEF QueueStep, BackoffElapsed, RecoverOrphan, LockExpires, TypeOK, HistType, histVars
  <2> QED BY <1>2, <2>2, <2>3, UnchangedTypes DEF QueueStep, BackoffElapsed, RecoverOrphan,
          LockExpires, TypeOK
<1> QED BY <1>1, <1>2 DEF QueueStep, RecoverOrphan, LockExpires

LEMMA CrashTypes ==
  ASSUME TypeOK, Crash
  PROVE  TypeOK'
<1>1. RequestType' /\ WorkerType'
  BY StatusAssumption DEF Crash, TypeOK, RequestType, WorkerType
<1>2. QueueType'
  BY DEF Crash, DropLocks, TypeOK, QueueType
<1>3. HistType'
  <2>1. {y.msg : y \in syncs} \subseteq Messages
    BY DEF TypeOK
  <2>2. {cur[w] : w \in {v \in Workers : pc[v] = "complete"}} \subseteq Messages
    BY WorkerHasJob
  <2>3. {Item(h).msg : h \in {g \in Requests : at[g] = "write"}} \subseteq Messages
    BY ItemType, StatusItemType DEF TypeOK, RequestType
  <2> QED BY <2>1, <2>2, <2>3 DEF Crash, TypeOK, HistType
<1> QED BY <1>1, <1>2, <1>3, FaultType, UnchangedTypes DEF Crash, TypeOK

(* The variables of StatusWebhook keep their types. *)
LEMMA TypeStep ==
  ASSUME TypeOK, [Next]_vars
  PROVE  TypeOK'
<1>1. ASSUME NEW m \in Messages, StoreWamid(m)
      PROVE  TypeOK'
  <2>1. RowType'
    BY <1>1 DEF StoreWamid, TypeOK, RowType, Reported
  <2> QED BY <1>1, <2>1, UnchangedTypes DEF StoreWamid, TypeOK
<1>2. CASE UNCHANGED vars
  BY <1>2, UnchangedTypes DEF vars, TypeOK
<1> QED BY <1>1, <1>2, DeliverTypes, RequestStepTypes, SyncTypes, RefundTypes, QueueTypes, CrashTypes
        DEF Next

-----------------------------------------------------------------------------
(* Which steps change what.                                                *)

(* The queue and its workers do not touch the messages or the requests. *)
LEMMA JobsKeepMessages ==
  ASSUME \/ \E w \in Workers : RefundStep(w)
         \/ \E m \in Messages : QueueStep(m) \/ LockExpires(m)
  PROVE  UNCHANGED <<status, requestVars, syncs, handled, told, spoiled, overlapped, untold>>
BY DEF RefundStep, TakeRefund, PostRefund, RefundCompleted, RefundThrew, QueueStep, BackoffElapsed,
   RecoverOrphan, LockExpires, rowVars, requestVars, worldVars, histVars

(* The syncs touch neither. *)
LEMMA SyncsKeepRest ==
  ASSUME NEW y \in syncs, SyncDelivered(y) \/ SyncFails(y)
  PROVE  /\ UNCHANGED <<status, requestVars, workerVars, queueVars, handled, refunded>>
         /\ UNCHANGED <<spoiled, overlapped, repeatable>>
BY DEF SyncDelivered, SyncFails, rowVars, worldVars, histVars

(* A request has queued a refund and does not know it. *)
AddedUnanswered ==
  \E h \in Requests : /\ at[h] = "refund" /\ Add(Item(h).msg)
                      /\ Item(h).msg \in repeatable'

(* A job that exists is not added again, and no other one is. *)
LEMMA AddMoves ==
  ASSUME TypeOK, AddedUnanswered, NEW m \in Messages, jobState[m] # "none" \/ m \notin repeatable'
  PROVE  jobState'[m] = jobState[m]
BY DEF AddedUnanswered, Add, TypeOK, QueueType, Messages

(* Messages and requests do not touch the jobs, but for the one that is added. *)
LEMMA RequestsKeepJobs ==
  ASSUME \/ \E m \in Messages : StoreWamid(m)
         \/ \E h \in Requests : Deliver(h) \/ RequestStep(h)
  PROVE  /\ UNCHANGED <<workerVars, refunded, lock>>
         /\ \/ UNCHANGED jobState
            \/ \E h \in Requests : QueueRefund(h)
            \/ AddedUnanswered
BY DEF AddedUnanswered, StoreWamid, Deliver, RequestStep, NotMapped, Skip, Proceed, ReadFails, QueueRefund, Add,
   QueueRefundFails, WriteStatus, WriteFails, StoreInbound, queueVars, worldVars

(* What a step of the requests does to a message. *)
LEMMA RequestsMoveStatus ==
  ASSUME TypeOK, NEW h \in Requests, Deliver(h) \/ RequestStep(h)
  PROVE  \/ UNCHANGED status
         \/ /\ at[h] = "write" /\ status' = [status EXCEPT ![Item(h).msg] = Item(h).status]
            /\ UNCHANGED overlapped
BY DEF Deliver, RequestStep, NotMapped, Skip, Proceed, ReadFails, QueueRefund, QueueRefundFails,
   WriteStatus, WriteFails, StoreInbound, rowVars, histVars

(* Histories only grow. *)
LEMMA HistoryGrows ==
  ASSUME [Next]_vars
  PROVE  spoiled \subseteq spoiled' /\ overlapped \subseteq overlapped' /\ repeatable \subseteq repeatable'
<1>1. ASSUME NEW h \in Requests, Deliver(h) \/ RequestStep(h)
      PROVE  spoiled \subseteq spoiled' /\ overlapped \subseteq overlapped' /\ repeatable \subseteq repeatable'
  BY <1>1 DEF Deliver, RequestStep, NotMapped, Skip, Proceed, ReadFails, QueueRefund, Abandon,
     QueueRefundFails, WriteStatus, WriteFails, StoreInbound, histVars
<1>2. ASSUME NEW w \in Workers, RefundStep(w)
      PROVE  repeatable \subseteq repeatable'
  BY <1>2 DEF RefundStep, TakeRefund, PostRefund, RefundCompleted, RefundThrew, histVars
<1>3. ASSUME NEW m \in Messages, StoreWamid(m) \/ QueueStep(m) \/ LockExpires(m)
      PROVE  spoiled \subseteq spoiled' /\ overlapped \subseteq overlapped' /\ repeatable \subseteq repeatable'
  BY <1>3 DEF StoreWamid, QueueStep, BackoffElapsed, RecoverOrphan, LockExpires, histVars
<1>4. Crash => spoiled \subseteq spoiled' /\ overlapped \subseteq overlapped' /\ repeatable \subseteq repeatable'
  BY DEF Crash
<1>5. UNCHANGED vars => UNCHANGED histVars
  BY DEF vars
<1> QED BY <1>1, <1>2, <1>3, <1>4, <1>5, JobsKeepMessages, SyncsKeepRest DEF Next, histVars

(* A request at the write of its item stays there, or ends it; one that is   *)
(* changing a message has got past the guard or is at the write already.    *)
LEMMA OwnChange ==
  ASSUME TypeOK, NEW h \in Requests, Deliver(h) \/ RequestStep(h), at'[h] \in {"refund", "write"}
  PROVE  \/ /\ Proceed(h) /\ at'[h] = (IF Item(h).status = "failed" THEN "refund" ELSE "write")
            /\ Item(h)' = Item(h) /\ ItemIsStatus(h) /\ UNCHANGED <<status, refunded, jobState>>
         \/ /\ QueueRefund(h) /\ at[h] = "refund" /\ at'[h] = "write"
            /\ Item(h)' = Item(h) /\ Item(h).status = "failed" /\ UNCHANGED <<status, overlapped>>
<1>1. CASE Proceed(h) \/ QueueRefund(h)
  BY <1>1 DEF Proceed, QueueRefund, Goto, Item, rowVars, queueVars, worldVars, histVars, TypeOK, RequestType
<1>2. CASE Deliver(h)
  BY <1>2 DEF Deliver, Goto, TypeOK, RequestType
<1>3. CASE ~(Proceed(h) \/ QueueRefund(h)) /\ RequestStep(h)
  <2>1. at[h] # "idle" /\ (NextItem(h) \/ EndHandling(h))
    BY <1>3 DEF RequestStep, NotMapped, Skip, ReadFails, QueueRefundFails, WriteStatus, WriteFails,
       StoreInbound, Abandon
  <2> QED BY <2>1, MovesOn
<1> QED BY <1>1, <1>2, <1>3

-----------------------------------------------------------------------------
(* The progression guard.                                                  *)

LEMMA SeenStep ==
  ASSUME TypeOK, ChangesAreSeen, [Next]_vars
  PROVE  ChangesAreSeen'
<1>1. SUFFICES ASSUME NEW g1 \in Requests, NEW g2 \in Requests, NEW m \in Messages, m \notin overlapped',
                      Changing(g1, m)', Changing(g2, m)', g1 # g2
               PROVE  FALSE
  BY DEF ChangesAreSeen
<1>2. m \notin overlapped /\ ~(Changing(g1, m) /\ Changing(g2, m))
  BY <1>1, HistoryGrows DEF ChangesAreSeen
<1>3. ASSUME NEW h \in Requests, Deliver(h) \/ RequestStep(h)
      PROVE  FALSE
  <2>1. ASSUME NEW g \in Requests, g # h
        PROVE  Changing(g, m)' <=> Changing(g, m)
    BY <1>3, <2>1, OwnItemOnly DEF Changing
  <2>2. ASSUME NEW g \in Requests, g # h, Changing(h, m)', Changing(g, m)
        PROVE  FALSE
    <3>1. CASE Proceed(h)
      <4>1. Item(h).msg = m
        BY <1>3, <2>2, OwnChange DEF Changing, Proceed, QueueRefund
      <4> QED BY <1>1, <2>2, <3>1, <4>1 DEF Proceed
    <3>2. CASE QueueRefund(h)
      <4>1. Changing(h, m)
        BY <1>3, <2>2, <3>2, OwnChange DEF Changing, Proceed, QueueRefund
      <4> QED BY <1>2, <2>2, <4>1 DEF ChangesAreSeen
    <3> QED BY <1>3, <2>2, <3>1, <3>2, OwnChange DEF Changing
  <2>3. CASE g1 = h
    BY <1>1, <2>1, <2>2, <2>3
  <2>4. CASE g2 = h
    BY <1>1, <2>1, <2>2, <2>4
  <2> QED BY <1>1, <1>2, <2>1, <2>3, <2>4
<1>4. CASE UNCHANGED requestVars
  BY <1>1, <1>2, <1>4 DEF requestVars, Changing, Item
<1>5. CASE Crash
  BY <1>1, <1>5 DEF Crash, Changing
<1>6. ASSUME NEW m2 \in Messages, StoreWamid(m2)
      PROVE  FALSE
  BY <1>4, <1>6 DEF StoreWamid
<1> QED BY <1>3, <1>4, <1>5, <1>6, JobsKeepMessages, SyncsKeepRest DEF Next, vars

(* What ChangeIsForward says of one request. *)
ForwardOf(h) ==
  at[h] \in {"refund", "write"} =>
    /\ status[Item(h).msg] # "processing"
    /\ Item(h).msg \notin overlapped => Forward(status[Item(h).msg], Item(h).status)

LEMMA ForwardStep ==
  ASSUME TypeOK, ChangesAreSeen, ChangeIsForward, [Next]_vars
  PROVE  ChangeIsForward'
<1>1. SUFFICES ASSUME NEW g \in Requests, at'[g] \in {"refund", "write"} PROVE ForwardOf(g)'
  BY DEF ChangeIsForward, ForwardOf
<1>2. ForwardOf(g) /\ overlapped \subseteq overlapped'
  BY HistoryGrows DEF ChangeIsForward, ForwardOf
<1>3. CASE at'[g] = at[g] /\ Item(g)' = Item(g) /\ UNCHANGED status
  BY <1>2, <1>3 DEF ForwardOf, Forward
<1>4. ASSUME NEW h \in Requests, Deliver(h) \/ RequestStep(h)
      PROVE  ForwardOf(g)'
  <2>1. CASE g = h
    <3>1. CASE Proceed(h)
      <4>1. Item(h)' = Item(h) /\ UNCHANGED status
        BY <1>1, <1>4, <2>1, <3>1, OwnChange DEF QueueRefund, rowVars, Proceed
      <4> QED BY <2>1, <3>1, <4>1 DEF Proceed, ForwardOf, Forward
    <3>2. CASE QueueRefund(h)
      <4>1. Item(h)' = Item(h) /\ UNCHANGED status /\ at[h] = "refund"
        BY <1>1, <1>4, <2>1, <3>2, OwnChange DEF QueueRefund, rowVars, Proceed
      <4> QED BY <1>2, <2>1, <4>1 DEF ForwardOf, Forward
    <3> QED BY <1>1, <1>4, <2>1, <3>1, <3>2, OwnChange
  <2>2. CASE g # h
    <3>1. at'[g] = at[g] /\ Item(g)' = Item(g)
      BY <1>4, <2>2, OwnItemOnly
    <3>2. CASE at[h] = "write" /\ status' = [status EXCEPT ![Item(h).msg] = Item(h).status]
               /\ UNCHANGED overlapped
      <4>1. Item(h).msg \in Messages /\ Item(h).status \in Reported /\ Item(g).msg \in Messages
        BY <1>1, <3>1, <3>2, ItemType, StatusItemType DEF TypeOK, RequestType
      <4>2. CASE Item(g).msg = Item(h).msg
        BY <1>1, <2>2, <3>1, <3>2, <4>1, <4>2 DEF ForwardOf, ChangesAreSeen, Changing, TypeOK, RowType, Reported
      <4>3. CASE Item(g).msg # Item(h).msg
        BY <1>1, <1>2, <3>1, <3>2, <4>1, <4>3 DEF ForwardOf, Forward, TypeOK, RowType
      <4> QED BY <4>2, <4>3
    <3> QED BY <1>3, <1>4, <3>1, <3>2, RequestsMoveStatus
  <2> QED BY <2>1, <2>2
<1>5. ASSUME NEW m \in Messages, StoreWamid(m)
      PROVE  ForwardOf(g)'
  <2>1. at'[g] = at[g] /\ Item(g)' = Item(g)
    BY <1>5 DEF StoreWamid, requestVars, Item
  <2>2. Item(g).msg # m
    BY <1>1, <1>2, <1>5, <2>1 DEF ForwardOf, StoreWamid
  <2>3. status'[Item(g).msg] = status[Item(g).msg]
    BY <1>5, <2>2 DEF StoreWamid, TypeOK, RowType
  <2> QED BY <1>2, <2>1, <2>3 DEF ForwardOf, Forward
<1>6. CASE Crash
  BY <1>1, <1>6 DEF Crash
<1>7. CASE UNCHANGED <<status, requestVars>>
  BY <1>3, <1>7 DEF requestVars, Item
<1> QED BY <1>4, <1>5, <1>6, <1>7, JobsKeepMessages, SyncsKeepRest DEF Next, vars, rowVars

(* A message that requests change one at a time moves forward only. *)
LEMMA StatusOnlyForward ==
  ASSUME TypeOK, ChangeIsForward, [Next]_vars, NEW m \in Messages, m \notin overlapped'
  PROVE  /\ Weight(status'[m]) >= Weight(status[m])
         /\ status[m] = "failed" => status'[m] = "failed"
<1>1. CASE status'[m] = status[m]
  BY <1>1, WeightRange
<1>2. ASSUME NEW h \in Requests, Deliver(h) \/ RequestStep(h)
      PROVE  /\ Weight(status'[m]) >= Weight(status[m])
             /\ status[m] = "failed" => status'[m] = "failed"
  <2>1. CASE at[h] = "write" /\ status' = [status EXCEPT ![Item(h).msg] = Item(h).status]
             /\ UNCHANGED overlapped /\ Item(h).msg = m
    <3>1. Weight(Item(h).status) > Weight(status[m])
      BY <2>1 DEF ChangeIsForward, Forward
    <3>2. status'[m] = Item(h).status
      BY <2>1 DEF TypeOK, RowType
    <3> QED BY <3>1, <3>2, WeightRange
  <2> QED BY <1>1, <1>2, <2>1, RequestsMoveStatus DEF TypeOK, RowType
<1>3. ASSUME NEW m2 \in Messages, StoreWamid(m2)
      PROVE  /\ Weight(status'[m]) >= Weight(status[m])
             /\ status[m] = "failed" => status'[m] = "failed"
  <2>1. CASE m = m2
    <3>1. status[m] = "processing" /\ status'[m] = "sent"
      BY <1>3, <2>1 DEF StoreWamid, TypeOK, RowType
    <3> QED BY <3>1 DEF Weight
  <2>2. CASE m # m2
    BY <1>1, <1>3, <2>2 DEF StoreWamid, TypeOK, RowType
  <2> QED BY <2>1, <2>2
<1>4. CASE Crash \/ UNCHANGED vars
  BY <1>1, <1>4 DEF Crash, vars, rowVars
<1> QED BY <1>1, <1>2, <1>3, <1>4, JobsKeepMessages, SyncsKeepRest DEF Next

-----------------------------------------------------------------------------
(* What is handled reaches the row.                                        *)

(* Item k of x has reached the row when the step is done. *)
KeptAfter(x, k) ==
  LET i == Payload[x][k]
  IN i \notin Inbound /\ i.msg \notin overlapped' => Weight(status'[i.msg]) >= Weight(i.status)

(* What has reached the row stays there. *)
LEMMA KeptStaysKept ==
  ASSUME TypeOK, ChangeIsForward, [Next]_vars, NEW x \in Webhooks, NEW k \in DOMAIN Payload[x],
         Kept(x, k)
  PROVE  KeptAfter(x, k)
<1> DEFINE i == Payload[x][k]
<1>1. SUFFICES ASSUME i \notin Inbound, i.msg \notin overlapped'
               PROVE  Weight(status'[i.msg]) >= Weight(i.status)
  BY DEF KeptAfter
<1>2. i \in StatusItems
  BY <1>1, StatusAssumption
<1>3. i.msg \in Messages /\ i.msg \notin overlapped
  BY <1>1, <1>2, StatusItemType, HistoryGrows
<1>4. Weight(status[i.msg]) >= Weight(i.status)
  BY <1>1, <1>3 DEF Kept
<1>5. Weight(status'[i.msg]) >= Weight(status[i.msg])
  BY <1>1, <1>3, StatusOnlyForward
<1>6. Weight(status'[i.msg]) \in 0..4 /\ Weight(status[i.msg]) \in 0..4 /\ Weight(i.status) \in 0..4
  BY WeightRange
<1> QED BY ONLY <1>4, <1>5, <1>6

(* A request that is through with its item has kept it, or has dropped it.  *)
LEMMA ItemIsKept ==
  ASSUME TypeOK, ChangeIsForward, NEW h \in Requests, Deliver(h) \/ RequestStep(h),
         at[h] # "idle", pos'[h] # pos[h] \/ at'[h] = "idle"
  PROVE  webhook[h] \in spoiled' \/ KeptAfter(webhook[h], pos[h])
<1>1. CASE NotMapped(h) \/ ReadFails(h) \/ QueueRefundFails(h) \/ WriteFails(h)
  BY <1>1 DEF NotMapped, ReadFails, QueueRefundFails, WriteFails, Abandon
<1>2. CASE Proceed(h) \/ QueueRefund(h)
  BY <1>2 DEF Proceed, QueueRefund, Goto, TypeOK, RequestType
<1>3. CASE Skip(h)
  <2>1. Item(h) \in StatusItems /\ ~Forward(status[Item(h).msg], Item(h).status) /\ UNCHANGED status
    BY <1>3, ItemType DEF Skip, rowVars
  <2>2. Weight(status[Item(h).msg]) >= Weight(Item(h).status)
    BY <2>1, WeightRange DEF Forward
  <2> QED BY <2>1, <2>2 DEF KeptAfter, Item
<1>4. CASE WriteStatus(h)
  <2>1. Item(h).msg \in Messages /\ Item(h).status \in Reported
    BY <1>4, ItemType, StatusItemType DEF WriteStatus, TypeOK, RequestType
  <2>2. status'[Item(h).msg] = Item(h).status
    BY <1>4, <2>1 DEF WriteStatus, TypeOK, RowType
  <2> QED BY <2>2, WeightRange DEF KeptAfter, Item
<1>5. CASE StoreInbound(h)
  <2>1. Item(h) \in Inbound
    BY <1>5 DEF StoreInbound, ItemIsStatus
  <2> QED BY <2>1 DEF KeptAfter, Item
<1>6. CASE Deliver(h)
  BY <1>6 DEF Deliver
<1> QED BY <1>1, <1>2, <1>3, <1>4, <1>5, <1>6 DEF RequestStep

LEMMA KeptStep ==
  ASSUME TypeOK, ChangeIsForward, ItemsAreKept, HandledIsKept, [Next]_vars
  PROVE  ItemsAreKept' /\ HandledIsKept'
<1>1. spoiled \subseteq spoiled'
  BY HistoryGrows
<1>2. ASSUME NEW g \in Requests, at'[g] = at[g], webhook'[g] = webhook[g], pos'[g] = pos[g],
             at[g] # "idle", webhook[g] \notin spoiled', NEW k \in 1..(pos[g] - 1)
      PROVE  KeptAfter(webhook[g], k)
  <2>1. Kept(webhook[g], k)
    BY <1>1, <1>2 DEF ItemsAreKept
  <2>2. /\ webhook[g] \in Webhooks /\ Payload[webhook[g]] \in Seq(StatusItems \cup Inbound)
        /\ pos[g] \in 1..Len(Payload[webhook[g]])
    BY <1>2, ItemType, StatusAssumption
  <2>3. k \in DOMAIN Payload[webhook[g]]
    BY <2>2
  <2> QED BY <2>1, <2>2, <2>3, KeptStaysKept
<1>3. ASSUME NEW x \in handled \ spoiled', NEW k \in DOMAIN Payload[x]
      PROVE  KeptAfter(x, k)
  BY <1>1, <1>3, KeptStaysKept DEF HandledIsKept, TypeOK, WorldType
<1>4. ASSUME NEW h \in Requests, Deliver(h) \/ RequestStep(h)
      PROVE  ItemsAreKept' /\ HandledIsKept'
  <2>1. CASE at[h] = "idle"
    <3>1. Deliver(h)
      BY <1>4, <2>1 DEF RequestStep, NotMapped, Skip, Proceed, ReadFails, QueueRefund,
         QueueRefundFails, WriteStatus, WriteFails, StoreInbound
    <3>2. pos'[h] = 1 /\ UNCHANGED handled
      BY <2>1, <3>1 DEF Deliver, TypeOK, RequestType
    <3> QED BY <1>2, <1>3, <1>4, <3>2, OwnItemOnly DEF ItemsAreKept, HandledIsKept, Kept, KeptAfter
  <2>2. CASE at[h] # "idle"
    <3>1. webhook[h] \in Webhooks /\ pos[h] \in 1..Len(Payload[webhook[h]])
          /\ Payload[webhook[h]] \in Seq(StatusItems \cup Inbound)
      BY <2>2, ItemType, StatusAssumption
    <3>2. ASSUME webhook[h] \notin spoiled', NEW k \in 1..(pos[h] - 1)
          PROVE  KeptAfter(webhook[h], k)
      <4>1. Kept(webhook[h], k)
        BY <1>1, <2>2, <3>2 DEF ItemsAreKept
      <4>2. k \in DOMAIN Payload[webhook[h]]
        BY <3>1, <3>2
      <4> QED BY <3>1, <4>1, <4>2, KeptStaysKept
    <3>3. \/ /\ at'[h] = at[h] \/ at'[h] \in {"refund", "write"}
             /\ webhook'[h] = webhook[h] /\ pos'[h] = pos[h] /\ UNCHANGED handled
          \/ /\ pos[h] = Len(Payload[webhook[h]]) \/ webhook[h] \in spoiled'
             /\ at'[h] = "idle" /\ handled' = handled \cup {webhook[h]}
          \/ /\ webhook'[h] = webhook[h] /\ pos'[h] = pos[h] + 1 /\ UNCHANGED handled
      <4>1. CASE Proceed(h) \/ QueueRefund(h)
        BY <4>1 DEF Proceed, QueueRefund, Goto, worldVars, TypeOK, RequestType
      <4>2. CASE Abandon(h)
        BY <2>2, <4>2, MovesOn DEF Abandon
      <4>3. CASE NextItem(h)
        <5>1. EndHandling(h) => pos[h] = Len(Payload[webhook[h]])
          BY <3>1, <4>3 DEF NextItem, EndHandling, Goto, TypeOK, RequestType
        <5> QED BY <2>2, <4>3, <5>1, MovesOn
      <4> QED BY <1>4, <2>2, <4>1, <4>2, <4>3 DEF Deliver, RequestStep, NotMapped, Skip, ReadFails,
              QueueRefundFails, WriteStatus, WriteFails, StoreInbound
    <3>4. ItemsAreKept'
      <4>1. SUFFICES ASSUME NEW g \in Requests, at'[g] # "idle", webhook'[g] \notin spoiled',
                            NEW k \in 1..(pos'[g] - 1)
                     PROVE  KeptAfter(webhook'[g], k)
        BY DEF ItemsAreKept, Kept, KeptAfter
      <4>2. CASE g # h
        BY <1>2, <1>4, <4>1, <4>2, OwnItemOnly
      <4>3. CASE g = h /\ pos'[h] = pos[h]
        BY <3>2, <3>3, <4>1, <4>3
      <4>4. CASE g = h /\ pos'[h] # pos[h]
        <5>1. webhook'[h] = webhook[h] /\ pos'[h] = pos[h] + 1
          BY <3>3, <4>1, <4>4
        <5>2. k = pos[h] \/ k \in 1..(pos[h] - 1)
          BY <3>1, <4>1, <4>4, <5>1
        <5> QED BY <1>4, <2>2, <3>2, <4>1, <4>4, <5>1, <5>2, ItemIsKept
      <4> QED BY <4>2, <4>3, <4>4
    <3>5. HandledIsKept'
      <4>1. SUFFICES ASSUME NEW x \in handled' \ spoiled', NEW k \in DOMAIN Payload[x]
                     PROVE  KeptAfter(x, k)
        BY DEF HandledIsKept, Kept, KeptAfter
      <4>2. CASE x \notin handled
        <5>1. x = webhook[h] /\ pos[h] = Len(Payload[x]) /\ at'[h] = "idle"
          BY <3>3, <4>1, <4>2
        <5>2. k = pos[h] \/ k \in 1..(pos[h] - 1)
          BY <3>1, <4>1, <5>1
        <5> QED BY <1>4, <2>2, <3>2, <4>1, <5>1, <5>2, ItemIsKept
      <4> QED BY <1>3, <4>1, <4>2
    <3> QED BY <3>4, <3>5
  <2> QED BY <2>1, <2>2
<1>5. CASE UNCHANGED <<requestVars, handled>>
  BY <1>2, <1>3, <1>5 DEF requestVars, ItemsAreKept, HandledIsKept, Kept, KeptAfter
<1>6. CASE Crash
  BY <1>3, <1>6 DEF Crash, worldVars, ItemsAreKept, HandledIsKept, Kept, KeptAfter
<1>7. ASSUME NEW m \in Messages, StoreWamid(m)
      PROVE  ItemsAreKept' /\ HandledIsKept'
  BY <1>5, <1>7 DEF StoreWamid, worldVars
<1> QED BY <1>4, <1>5, <1>6, <1>7, JobsKeepMessages, SyncsKeepRest DEF Next, vars, worldVars

-----------------------------------------------------------------------------
(* The backend is told.                                                    *)

LEMMA ToldStep ==
  ASSUME TypeOK, BackendIsTold, [Next]_vars
  PROVE  BackendIsTold'
<1>1. SUFFICES ASSUME NEW m \in Messages, status'[m] \in Reported \ {"sent"}
               PROVE  \/ <<m, status'[m]>> \in told' \/ m \in untold'
                      \/ \E y \in syncs' : y.msg = m /\ y.status = status'[m]
  BY DEF BackendIsTold
<1>2. status'[m] = status[m] => \/ <<m, status[m]>> \in told \/ m \in untold
                                \/ \E y \in syncs : y.msg = m /\ y.status = status[m]
  BY <1>1 DEF BackendIsTold
<1>3. CASE /\ status'[m] = status[m]
           /\ told \subseteq told' /\ untold \subseteq untold' /\ syncs \subseteq syncs'
  BY <1>2, <1>3
<1>4. ASSUME NEW h \in Requests, Deliver(h) \/ RequestStep(h)
      PROVE  \/ <<m, status'[m]>> \in told' \/ m \in untold'
             \/ \E y \in syncs' : y.msg = m /\ y.status = status'[m]
  <2>1. CASE WriteStatus(h) /\ Item(h).msg = m
    <3>1. status'[m] = Item(h).status
      BY <2>1 DEF WriteStatus, TypeOK, RowType
    <3>2. [msg |-> m, status |-> status'[m], left |-> SyncRetries] \in syncs'
      BY <2>1, <3>1 DEF WriteStatus
    <3> QED BY <3>2
  <2>2. CASE WriteFails(h) /\ m \in untold'
    BY <2>2
  <2>3. CASE ~(WriteStatus(h) /\ Item(h).msg = m) /\ ~(WriteFails(h) /\ m \in untold')
    <3>1. status'[m] = status[m]
      BY <1>4, <2>3 DEF Deliver, RequestStep, NotMapped, Skip, Proceed, ReadFails, QueueRefund,
         QueueRefundFails, WriteStatus, WriteFails, StoreInbound, rowVars, TypeOK, RowType
    <3>2. UNCHANGED told /\ untold \subseteq untold' /\ syncs \subseteq syncs'
      BY <1>4 DEF Deliver, RequestStep, NotMapped, Skip, Proceed, ReadFails, QueueRefund,
         QueueRefundFails, WriteStatus, WriteFails, StoreInbound, worldVars, histVars
    <3> QED BY <1>3, <3>1, <3>2
  <2> QED BY <2>1, <2>2, <2>3
<1>5. ASSUME NEW y \in syncs, SyncDelivered(y)
      PROVE  \/ <<m, status'[m]>> \in told' \/ m \in untold'
             \/ \E z \in syncs' : z.msg = m /\ z.status = status'[m]
  BY <1>2, <1>5 DEF SyncDelivered, rowVars, histVars
<1>6. ASSUME NEW y \in syncs, SyncFails(y)
      PROVE  \/ <<m, status'[m]>> \in told' \/ m \in untold'
             \/ \E z \in syncs' : z.msg = m /\ z.status = status'[m]
  <2>1. UNCHANGED <<status, told>> /\ untold \subseteq untold'
    BY <1>6 DEF SyncFails, rowVars, worldVars
  <2>2. y \in [msg : Messages, status : Reported, left : 0..SyncRetries]
    BY DEF TypeOK
  <2>3. CASE y.left > 0
    <3>1. /\ [y EXCEPT !.left = @ - 1] \in syncs' /\ syncs \ {y} \subseteq syncs'
          /\ [y EXCEPT !.left = @ - 1].msg = y.msg /\ [y EXCEPT !.left = @ - 1].status = y.status
      BY <1>6, <2>2, <2>3 DEF SyncFails
    <3> QED BY <1>2, <2>1, <3>1
  <2>4. CASE ~(y.left > 0)
    <3>1. syncs \ {y} \subseteq syncs' /\ y.msg \in untold'
      BY <1>6, <2>4 DEF SyncFails
    <3> QED BY <1>2, <2>1, <3>1
  <2> QED BY <2>3, <2>4
<1>7. CASE Crash
  BY <1>2, <1>7 DEF Crash, rowVars, worldVars
<1>8. ASSUME NEW m2 \in Messages, StoreWamid(m2)
      PROVE  \/ <<m, status'[m]>> \in told' \/ m \in untold'
             \/ \E y \in syncs' : y.msg = m /\ y.status = status'[m]
  <2>1. m # m2
    BY <1>1, <1>8 DEF StoreWamid, TypeOK, RowType
  <2> QED BY <1>3, <1>8, <2>1 DEF StoreWamid, TypeOK, RowType, worldVars, histVars
<1>9. CASE UNCHANGED vars
  BY <1>3, <1>9 DEF vars, rowVars, worldVars, histVars
<1> QED BY <1>3, <1>4, <1>5, <1>6, <1>7, <1>8, <1>9, JobsKeepMessages DEF Next

-----------------------------------------------------------------------------
(* The refund is queued before the status is written.                      *)

(* The refunds that are made stay made, and only a job whose refund was made *)
(* is removed.                                                              *)
LEMMA SecuredStays ==
  ASSUME TypeOK, RefundIsSecured, [Next]_vars, NEW m \in Messages,
         refunded[m] > 0 \/ jobState[m] # "none"
  PROVE  refunded'[m] > 0 \/ jobState'[m] # "none"
<1>1. CASE refunded'[m] = refunded[m] /\ (jobState[m] # "none" => jobState'[m] # "none")
  BY <1>1
<1>2. CASE UNCHANGED <<refunded, jobState>>
  BY <1>1, <1>2
<1>3. ASSUME NEW h \in Requests, Deliver(h) \/ RequestStep(h)
      PROVE  refunded'[m] > 0 \/ jobState'[m] # "none"
  <2>1. CASE \E g \in Requests : QueueRefund(g)
    <3>1. jobState[m] # "none" => jobState'[m] # "none"
      BY <2>1 DEF QueueRefund, Add, TypeOK, QueueType, Messages
    <3> QED BY <1>1, <1>3, <3>1, RequestsKeepJobs
  <2>2. CASE AddedUnanswered
    BY <1>1, <1>3, <2>2, AddMoves, RequestsKeepJobs
  <2> QED BY <1>2, <1>3, <2>1, <2>2, RequestsKeepJobs
<1>4. ASSUME NEW w \in Workers, RefundStep(w)
      PROVE  refunded'[m] > 0 \/ jobState'[m] # "none"
  <2>1. CASE TakeRefund(w)
    BY <1>1, <2>1 DEF TakeRefund, Take, worldVars, Messages, TypeOK, QueueType
  <2>2. CASE PostRefund(w)
    <3>1. UNCHANGED jobState /\ cur[w] \in Messages
      BY <2>2, WorkerHasJob DEF PostRefund, queueVars
    <3>2. refunded[m] \in Nat
      BY DEF TypeOK, WorldType
    <3>3. refunded'[m] = refunded[m] \/ refunded'[m] = refunded[m] + 1
      BY <2>2, <3>1 DEF PostRefund, TypeOK, WorldType
    <3> QED BY <3>1, <3>2, <3>3
  <2>3. CASE RefundCompleted(w)
    <3>1. UNCHANGED refunded /\ refunded[cur[w]] > 0
      BY <2>3 DEF RefundCompleted, worldVars, RefundIsSecured
    <3>2. m # cur[w] => jobState'[m] = jobState[m]
      BY <2>3 DEF RefundCompleted, queueVars, TypeOK, QueueType, Messages
    <3> QED BY <1>1, <3>1, <3>2
  <2>4. CASE RefundThrew(w)
    <3>1. jobState[m] # "none" => jobState'[m] # "none"
      BY <2>4 DEF RefundThrew, Threw, Settle, queueVars, TypeOK, QueueType, Messages
    <3> QED BY <1>1, <2>4, <3>1 DEF RefundThrew, worldVars
  <2> QED BY <1>4, <2>1, <2>2, <2>3, <2>4 DEF RefundStep
<1>5. ASSUME NEW m2 \in Messages, QueueStep(m2) \/ LockExpires(m2)
      PROVE  refunded'[m] > 0 \/ jobState'[m] # "none"
  <2>1. UNCHANGED refunded
    BY <1>5 DEF QueueStep, BackoffElapsed, RecoverOrphan, LockExpires, worldVars
  <2>2. jobState[m] # "none" => jobState'[m] # "none"
    BY <1>5 DEF QueueStep, BackoffElapsed, RecoverOrphan, LockExpires, BackoffOver, PutBack,
       TypeOK, QueueType, Messages
  <2> QED BY <1>1, <2>1, <2>2
<1>6. CASE Crash
  BY <1>2, <1>6 DEF Crash, DropLocks, worldVars
<1>7. CASE UNCHANGED vars
  BY <1>2, <1>7 DEF vars, queueVars, worldVars
<1>8. ASSUME NEW m2 \in Messages, StoreWamid(m2)
      PROVE  refunded'[m] > 0 \/ jobState'[m] # "none"
  BY <1>2, <1>8 DEF StoreWamid, queueVars, worldVars
<1> QED BY <1>2, <1>3, <1>4, <1>5, <1>6, <1>7, <1>8, SyncsKeepRest DEF Next, queueVars

LEMMA SecuredStep ==
  ASSUME TypeOK, RefundIsSecured, [Next]_vars
  PROVE  RefundIsSecured'
<1>1. ASSUME NEW g \in Requests, at'[g] = "write", Item(g)'.status = "failed"
      PROVE  refunded'[Item(g)'.msg] > 0 \/ jobState'[Item(g)'.msg] # "none"
  <2>1. CASE at[g] = "write" /\ Item(g)' = Item(g)
    <3>1. Item(g).msg \in Messages
      BY <2>1, ItemType, StatusItemType DEF TypeOK, RequestType
    <3> QED BY <1>1, <2>1, <3>1, SecuredStays DEF RefundIsSecured
  <2>2. ASSUME NEW h \in Requests, Deliver(h) \/ RequestStep(h)
        PROVE  refunded'[Item(g)'.msg] > 0 \/ jobState'[Item(g)'.msg] # "none"
    <3>1. CASE g # h
      BY <1>1, <2>1, <2>2, <3>1, OwnItemOnly
    <3>2. CASE g = h
      <4>1. QueueRefund(h) /\ Item(h)' = Item(h)
        BY <1>1, <2>2, <3>2, OwnChange
      <4>2. Item(h).msg \in Messages
        BY <4>1, ItemType, StatusItemType DEF QueueRefund, TypeOK, RequestType
      <4>3. jobState'[Item(h).msg] # "none"
        BY <4>1, <4>2 DEF QueueRefund, Add, TypeOK, QueueType, Messages
      <4> QED BY <3>2, <4>1, <4>3
    <3> QED BY <3>1, <3>2
  <2>3. CASE UNCHANGED requestVars
    BY <1>1, <2>1, <2>3 DEF requestVars, Item
  <2>4. CASE Crash
    BY <1>1, <2>4 DEF Crash
  <2>5. ASSUME NEW m \in Messages, StoreWamid(m)
        PROVE  UNCHANGED requestVars
    BY <2>5 DEF StoreWamid
  <2> QED BY <2>2, <2>3, <2>4, <2>5, JobsKeepMessages, SyncsKeepRest DEF Next, vars
<1>2. ASSUME NEW v \in Workers, pc'[v] = "complete"
      PROVE  refunded'[cur'[v]] > 0
  <2>1. CASE UNCHANGED <<workerVars, refunded>>
    BY <1>2, <2>1 DEF workerVars, RefundIsSecured
  <2>2. ASSUME NEW w \in Workers, RefundStep(w)
        PROVE  refunded'[cur'[v]] > 0
    <3>1. CASE PostRefund(w)
      <4>1. cur[w] \in Messages /\ UNCHANGED cur
        BY <3>1, WorkerHasJob DEF PostRefund
      <4>2. refunded[cur[v]] \in Nat /\ refunded[cur[w]] \in Nat /\ cur[v] \in Messages
        BY <1>2, <3>1, <4>1 DEF PostRefund, WorkerTo, TypeOK, WorkerType, WorldType
      <4>3. CASE v = w
        <5>1. refunded' = [refunded EXCEPT ![cur[w]] = @ + 1]
          BY <1>2, <3>1, <4>3 DEF PostRefund, WorkerTo, TypeOK, WorkerType
        <5>2. refunded'[cur[w]] = refunded[cur[w]] + 1
          BY <4>1, <5>1 DEF TypeOK, WorldType
        <5> QED BY <4>1, <4>2, <4>3, <5>2
      <4>4. CASE v # w
        <5>1. pc[v] = "complete"
          BY <1>2, <3>1, <4>4 DEF PostRefund, WorkerTo, TypeOK, WorkerType
        <5>2. refunded'[cur[v]] = refunded[cur[v]] \/ refunded'[cur[v]] = refunded[cur[v]] + 1
          BY <3>1, <4>1, <4>2 DEF PostRefund, TypeOK, WorldType
        <5> QED BY <4>1, <4>2, <5>1, <5>2 DEF RefundIsSecured
      <4> QED BY <4>3, <4>4
    <3>2. CASE ~PostRefund(w)
      <4>1. UNCHANGED refunded /\ v # w /\ pc[v] = pc'[v] /\ cur[v] = cur'[v]
        BY <1>2, <2>2, <3>2 DEF RefundStep, TakeRefund, RefundCompleted, RefundThrew, Release, WorkerTo,
           worldVars, TypeOK, WorkerType
      <4> QED BY <1>2, <4>1 DEF RefundIsSecured
    <3> QED BY <3>1, <3>2
  <2>3. ASSUME NEW m \in Messages, QueueStep(m) \/ LockExpires(m)
        PROVE  UNCHANGED <<workerVars, refunded>>
    BY <2>3 DEF QueueStep, BackoffElapsed, RecoverOrphan, LockExpires, worldVars
  <2>4. CASE Crash
    BY <1>2, <2>4 DEF Crash
  <2> QED BY <2>1, <2>2, <2>3, <2>4, RequestsKeepJobs, SyncsKeepRest DEF Next, vars, worldVars
<1> QED BY <1>1, <1>2 DEF RefundIsSecured

LEMMA FailedStep ==
  ASSUME TypeOK, RefundIsSecured, FailedHasRefund, [Next]_vars
  PROVE  FailedHasRefund'
<1>1. SUFFICES ASSUME NEW m \in Messages, status'[m] = "failed"
               PROVE  refunded[m] > 0 \/ jobState[m] # "none"
  BY SecuredStays DEF FailedHasRefund
<1>2. CASE status'[m] = status[m]
  BY <1>1, <1>2 DEF FailedHasRefund
<1>3. ASSUME NEW h \in Requests, Deliver(h) \/ RequestStep(h)
      PROVE  refunded[m] > 0 \/ jobState[m] # "none"
  BY <1>1, <1>2, <1>3, RequestsMoveStatus DEF RefundIsSecured, TypeOK, RowType
<1>4. ASSUME NEW m2 \in Messages, StoreWamid(m2)
      PROVE  status'[m] = status[m]
  BY <1>1, <1>4 DEF StoreWamid, TypeOK, RowType
<1>5. CASE Crash \/ UNCHANGED vars
  BY <1>2, <1>5 DEF Crash, vars, rowVars
<1> QED BY <1>2, <1>3, <1>4, <1>5, JobsKeepMessages, SyncsKeepRest DEF Next

-----------------------------------------------------------------------------
(* A refund is made once.                                                  *)

LEMMA AloneStep ==
  ASSUME TypeOK, RunsAlone, [Next]_vars
  PROVE  RunsAlone'
<1>1. SUFFICES ASSUME NEW v \in Workers, cur'[v] \in Messages \ repeatable'
               PROVE  lock'[cur'[v]] = v /\ jobState'[cur'[v]] = "active"
  BY DEF RunsAlone
<1>2. repeatable \subseteq repeatable'
  BY HistoryGrows
<1>3. CASE /\ cur'[v] = cur[v] /\ lock'[cur[v]] = lock[cur[v]]
           /\ jobState[cur[v]] = "active" => jobState'[cur[v]] = "active"
  BY <1>1, <1>2, <1>3 DEF RunsAlone
<1>4. ASSUME \/ \E h \in Requests : Deliver(h) \/ RequestStep(h)
             \/ \E m \in Messages : StoreWamid(m)
      PROVE  lock'[cur'[v]] = v /\ jobState'[cur'[v]] = "active"
  <2>1. ASSUME NEW g \in Requests, QueueRefund(g), jobState[cur[v]] = "active", cur[v] \in Messages
        PROVE  jobState'[cur[v]] = "active"
    BY <2>1 DEF QueueRefund, Add, TypeOK, QueueType, Messages
  <2>2. ASSUME AddedUnanswered, jobState[cur[v]] = "active", cur[v] \in Messages
        PROVE  jobState'[cur[v]] = "active"
    BY <2>2, AddMoves
  <2> QED BY <1>1, <1>3, <1>4, <2>1, <2>2, RequestsKeepJobs DEF workerVars
<1>5. ASSUME NEW w \in Workers, RefundStep(w)
      PROVE  lock'[cur'[v]] = v /\ jobState'[cur'[v]] = "active"
  <2>1. CASE TakeRefund(w)
    <3>1. PICK m \in Messages : Take(w, m) /\ cur' = [cur EXCEPT ![w] = m]
      BY <2>1 DEF TakeRefund
    <3>2. CASE v = w
      BY <3>1, <3>2 DEF Take, Messages, TypeOK, QueueType, WorkerType
    <3>3. CASE v # w
      <4>1. cur'[v] = cur[v] /\ cur[v] # m
        BY <1>1, <1>2, <3>1, <3>3 DEF Take, RunsAlone, TypeOK, WorkerType
      <4> QED BY <1>1, <1>3, <3>1, <4>1 DEF Take, Messages, TypeOK, QueueType
    <3> QED BY <3>2, <3>3
  <2>2. CASE PostRefund(w)
    BY <1>3, <2>2 DEF PostRefund, queueVars
  <2>3. CASE RefundCompleted(w) \/ RefundThrew(w)
    <3>1. v # w /\ cur'[v] = cur[v] /\ cur[w] \in Messages
      BY <1>1, <2>3, WorkerHasJob, StatusAssumption
         DEF RefundCompleted, RefundThrew, Release, TypeOK, WorkerType
    <3>2. CASE lock[cur[w]] = w
      <4>1. cur[v] # cur[w]
        BY <1>1, <1>2, <3>1, <3>2 DEF RunsAlone
      <4>2. cur[v] \in Messages
        BY <1>1, <3>1
      <4>3. CASE RefundCompleted(w)
        BY <1>3, <3>1, <4>1, <4>2, <4>3 DEF RefundCompleted, queueVars, Messages, TypeOK, QueueType
      <4>4. CASE RefundThrew(w)
        BY <1>3, <3>1, <4>1, <4>2, <4>4 DEF RefundThrew, Threw, Settle, queueVars, Messages, TypeOK, QueueType
      <4> QED BY <2>3, <4>3, <4>4
    <3>3. CASE lock[cur[w]] # w
      BY <1>3, <2>3, <3>1, <3>3 DEF RefundCompleted, RefundThrew, Threw, Settle, queueVars
    <3> QED BY <3>2, <3>3
  <2> QED BY <1>5, <2>1, <2>2, <2>3 DEF RefundStep
<1>6. ASSUME NEW m \in Messages, QueueStep(m) \/ LockExpires(m)
      PROVE  lock'[cur'[v]] = v /\ jobState'[cur'[v]] = "active"
  <2>1. UNCHANGED cur
    BY <1>6 DEF QueueStep, BackoffElapsed, RecoverOrphan, LockExpires, workerVars
  <2>2. lock[cur[v]] = v /\ jobState[cur[v]] = "active" /\ cur[v] \in Messages
    BY <1>1, <1>2, <2>1 DEF RunsAlone
  <2>3. m # cur[v]
    BY <1>1, <1>6, <2>1, <2>2, QueueAssumption
       DEF QueueStep, BackoffElapsed, BackoffOver, RecoverOrphan, LockExpires
  <2> QED BY <1>3, <1>6, <2>1, <2>2, <2>3 DEF QueueStep, BackoffElapsed, BackoffOver, RecoverOrphan,
          LockExpires, PutBack, Messages, TypeOK, QueueType
<1>7. CASE Crash
  BY <1>1, <1>7, StatusAssumption DEF Crash
<1>8. CASE UNCHANGED vars
  BY <1>3, <1>8 DEF vars, workerVars, queueVars
<1> QED BY <1>3, <1>4, <1>5, <1>6, <1>7, <1>8, SyncsKeepRest DEF Next, workerVars, queueVars

(* What RefundHasReason says of one message. *)
Reason(m) ==
  \/ status[m] = "failed"
  \/ \E h \in Requests : at[h] = "write" /\ Item(h).msg = m /\ Item(h).status = "failed"

LEMMA ReasonStays ==
  ASSUME TypeOK, ChangesAreSeen, ChangeIsForward, [Next]_vars,
         NEW m \in Messages \ (overlapped' \cup repeatable'), Reason(m)
  PROVE  Reason(m)'
<1>1. m \notin overlapped
  BY HistoryGrows
<1>2. CASE status[m] = "failed"
  BY <1>2, StatusOnlyForward DEF Reason
<1>3. ASSUME NEW g \in Requests, at[g] = "write", Item(g).msg = m, Item(g).status = "failed"
      PROVE  Reason(m)'
  <2>1. CASE at'[g] = at[g] /\ Item(g)' = Item(g)
    BY <1>3, <2>1 DEF Reason
  <2>2. ASSUME NEW h \in Requests, Deliver(h) \/ RequestStep(h)
        PROVE  Reason(m)'
    <3>1. CASE h # g
      BY <2>1, <2>2, <3>1, OwnItemOnly
    <3>2. CASE h = g
      <4>1. WriteStatus(g) \/ WriteFails(g)
        BY <1>3, <2>2, <3>2 DEF Deliver, RequestStep, NotMapped, Skip, Proceed, ReadFails, QueueRefund,
           QueueRefundFails, StoreInbound
      <4>2. ~WriteFails(g)
        BY <1>3 DEF WriteFails
      <4>3. status'[m] = "failed"
        BY <1>3, <4>1, <4>2 DEF WriteStatus, TypeOK, RowType
      <4> QED BY <4>3 DEF Reason
    <3> QED BY <3>1, <3>2
  <2>3. CASE Crash
    BY <1>3, <2>3 DEF Crash
  <2>4. CASE UNCHANGED requestVars
    BY <2>1, <2>4 DEF requestVars, Item
  <2>5. ASSUME NEW m2 \in Messages, StoreWamid(m2)
        PROVE  UNCHANGED requestVars
    BY <2>5 DEF StoreWamid
  <2> QED BY <2>2, <2>3, <2>4, <2>5, JobsKeepMessages, SyncsKeepRest DEF Next, vars
<1> QED BY <1>2, <1>3 DEF Reason

(* A job is added for a reason, and a refund is made for a job. *)
LEMMA ReasonStep ==
  ASSUME TypeOK, ChangesAreSeen, ChangeIsForward, RunsAlone, RefundHasReason, [Next]_vars
  PROVE  RefundHasReason'
<1>1. SUFFICES ASSUME NEW m \in Messages \ (overlapped' \cup repeatable'),
                      refunded'[m] > 0 \/ jobState'[m] # "none"
               PROVE  Reason(m)'
  BY DEF RefundHasReason, Reason
<1>2. m \notin overlapped /\ m \notin repeatable
  BY HistoryGrows
<1>3. CASE refunded[m] > 0 \/ jobState[m] # "none"
  BY <1>2, <1>3, ReasonStays DEF RefundHasReason, Reason
<1>4. CASE UNCHANGED <<refunded, jobState>>
  BY <1>1, <1>3, <1>4
<1>5. ASSUME NEW h \in Requests, Deliver(h) \/ RequestStep(h)
      PROVE  Reason(m)'
  <2>1. ASSUME NEW g \in Requests, QueueRefund(g)
        PROVE  Reason(m)'
    <3>1. UNCHANGED refunded /\ at'[g] = "write" /\ Item(g)' = Item(g) /\ Item(g).status = "failed"
      BY <2>1 DEF QueueRefund, Goto, Item, worldVars, TypeOK, RequestType
    <3>2. CASE Item(g).msg = m
      BY <3>1, <3>2 DEF Reason
    <3>3. CASE Item(g).msg # m
      BY <1>1, <1>3, <2>1, <3>1, <3>3 DEF QueueRefund, Add, TypeOK, QueueType, Messages
    <3> QED BY <3>2, <3>3
  <2>2. CASE AddedUnanswered
    BY <1>1, <1>3, <1>5, <2>2, AddMoves, RequestsKeepJobs
  <2> QED BY <1>4, <1>5, <2>1, <2>2, RequestsKeepJobs
<1>6. ASSUME NEW w \in Workers, RefundStep(w)
      PROVE  Reason(m)'
  <2>1. CASE PostRefund(w)
    <3>1. cur[w] \in Messages /\ UNCHANGED jobState
      BY <2>1, WorkerHasJob DEF PostRefund, queueVars
    <3>2. CASE cur[w] = m
      BY <1>2, <1>3, <3>2 DEF RunsAlone
    <3>3. CASE cur[w] # m
      BY <1>1, <1>3, <2>1, <3>1, <3>3 DEF PostRefund, TypeOK, WorldType
    <3> QED BY <3>2, <3>3
  <2>2. CASE ~PostRefund(w)
    <3>1. UNCHANGED refunded /\ (jobState[m] = "none" => jobState'[m] = "none")
      BY <1>2, <1>6, <2>2 DEF RefundStep, TakeRefund, Take, RefundCompleted, RefundThrew, Threw, Settle,
         RunsAlone, queueVars, worldVars, Messages, TypeOK, QueueType, WorkerType
    <3> QED BY <1>1, <1>3, <3>1
  <2> QED BY <2>1, <2>2
<1>7. ASSUME NEW m2 \in Messages, QueueStep(m2) \/ LockExpires(m2)
      PROVE  Reason(m)'
  <2>1. UNCHANGED refunded /\ (jobState[m] = "none" => jobState'[m] = "none")
    BY <1>7 DEF QueueStep, BackoffElapsed, BackoffOver, RecoverOrphan, LockExpires, PutBack, worldVars,
       Messages, TypeOK, QueueType
  <2> QED BY <1>1, <1>3, <2>1
<1>8. ASSUME NEW m2 \in Messages, StoreWamid(m2)
      PROVE  Reason(m)'
  BY <1>4, <1>8 DEF StoreWamid, queueVars, worldVars
<1>9. CASE Crash \/ UNCHANGED vars
  BY <1>4, <1>9 DEF Crash, DropLocks, vars, queueVars, worldVars
<1> QED BY <1>4, <1>5, <1>6, <1>7, <1>8, <1>9, SyncsKeepRest DEF Next, queueVars

(* A message that has been refunded gets no second job. *)
LEMMA NoSecondJob ==
  ASSUME TypeOK, ChangesAreSeen, ChangeIsForward, RefundHasReason,
         NEW m \in Messages \ (overlapped \cup repeatable), refunded[m] > 0 \/ jobState[m] # "none",
         NEW g \in Requests, QueueRefund(g)
  PROVE  Item(g).msg # m
<1>1. SUFFICES ASSUME Item(g).msg = m
               PROVE  FALSE
  OBVIOUS
<1>2. at[g] = "refund" /\ Item(g).status = "failed"
  BY DEF QueueRefund, TypeOK, RequestType
<1>3. status[m] # "failed"
  BY <1>1, <1>2 DEF ChangeIsForward, Forward, Weight
<1>4. PICK h \in Requests : at[h] = "write" /\ Item(h).msg = m
  BY <1>3 DEF RefundHasReason
<1>5. h = g
  BY <1>1, <1>2, <1>4 DEF ChangesAreSeen, Changing
<1> QED BY <1>2, <1>4, <1>5

(* What RefundEndsJob says of one message. *)
Ended(m) ==
  \/ jobState[m] = "none"
  \/ lock[m] \in Workers /\ cur[lock[m]] = m /\ pc[lock[m]] = "complete"

LEMMA EndedStays ==
  ASSUME TypeOK, ChangesAreSeen, ChangeIsForward, RunsAlone, RefundHasReason, [Next]_vars,
         NEW m \in Messages \ (overlapped' \cup repeatable'), refunded[m] > 0, Ended(m)
  PROVE  Ended(m)' /\ refunded'[m] = refunded[m]
<1>1. m \notin overlapped /\ m \notin repeatable
  BY HistoryGrows
<1>2. CASE UNCHANGED <<workerVars, refunded, lock, jobState>>
  BY <1>2 DEF Ended, workerVars
<1>3. ASSUME \/ \E h \in Requests : Deliver(h) \/ RequestStep(h)
             \/ \E m2 \in Messages : StoreWamid(m2)
      PROVE  Ended(m)' /\ refunded'[m] = refunded[m]
  <2>1. ASSUME NEW g \in Requests, QueueRefund(g)
        PROVE  jobState'[m] = jobState[m]
    <3>1. Item(g).msg # m
      BY <1>1, <2>1, NoSecondJob
    <3> QED BY <2>1, <3>1 DEF QueueRefund, Add, TypeOK, QueueType, Messages
  <2>2. AddedUnanswered => jobState'[m] = jobState[m]
    BY AddMoves
  <2> QED BY <1>2, <1>3, <2>1, <2>2, RequestsKeepJobs DEF Ended, workerVars
<1>4. ASSUME NEW w \in Workers, RefundStep(w)
      PROVE  Ended(m)' /\ refunded'[m] = refunded[m]
  <2>1. CASE jobState[m] = "none"
    <3>1. cur[w] # m
      BY <1>1, <2>1 DEF RunsAlone
    <3>2. jobState'[m] = "none"
      BY <1>4, <2>1, <3>1 DEF RefundStep, TakeRefund, Take, PostRefund, RefundCompleted, RefundThrew, Threw,
         Settle, queueVars, Messages, TypeOK, QueueType
    <3>3. CASE PostRefund(w)
      BY <1>4, <3>1, <3>2, <3>3 DEF PostRefund, Ended, TypeOK, WorldType
    <3>4. CASE ~PostRefund(w)
      BY <1>4, <3>2, <3>4 DEF RefundStep, TakeRefund, RefundCompleted, RefundThrew, Ended, worldVars
    <3> QED BY <3>3, <3>4
  <2>2. CASE jobState[m] # "none"
    <3> DEFINE v == lock[m]
    <3>1. v \in Workers /\ cur[v] = m /\ pc[v] = "complete" /\ jobState[m] = "active"
      BY <1>1, <2>2 DEF Ended, RunsAlone
    <3>2. CASE w = v
      BY <1>4, <3>1, <3>2 DEF RefundStep, TakeRefund, PostRefund, RefundCompleted, RefundThrew, Ended,
         worldVars, Messages, TypeOK, QueueType
    <3>3. CASE w # v
      <4>1. cur[w] # m
        BY <1>1, <3>3 DEF RunsAlone
      <4>2. cur'[v] = cur[v] /\ pc'[v] = pc[v]
        BY <1>4, <3>1, <3>3 DEF RefundStep, TakeRefund, PostRefund, RefundCompleted, RefundThrew, Release,
           WorkerTo, TypeOK, WorkerType
      <4>3. lock'[m] = lock[m]
        BY <1>4, <3>1, <4>1 DEF RefundStep, TakeRefund, Take, PostRefund, RefundCompleted, RefundThrew, Threw,
           Settle, queueVars, Messages, TypeOK, QueueType
      <4>4. refunded'[m] = refunded[m]
        BY <1>4, <4>1 DEF RefundStep, TakeRefund, PostRefund, RefundCompleted, RefundThrew, worldVars,
           TypeOK, WorldType
      <4> QED BY <3>1, <4>2, <4>3, <4>4 DEF Ended
    <3> QED BY <3>2, <3>3
  <2> QED BY <2>1, <2>2
<1>5. ASSUME NEW m2 \in Messages, QueueStep(m2) \/ LockExpires(m2)
      PROVE  Ended(m)' /\ refunded'[m] = refunded[m]
  <2>1. UNCHANGED <<workerVars, refunded>>
    BY <1>5 DEF QueueStep, BackoffElapsed, RecoverOrphan, LockExpires, worldVars
  <2>2. m2 # m
    <3>1. m \notin repeatable'
      OBVIOUS
    <3>2. CASE jobState[m] = "none"
      BY <1>5, <3>2 DEF QueueStep, BackoffElapsed, BackoffOver, RecoverOrphan, LockExpires, PutBack
    <3>3. CASE jobState[m] # "none"
      BY <1>1, <1>5, <3>1, <3>3, QueueAssumption
         DEF QueueStep, BackoffElapsed, BackoffOver, RecoverOrphan, LockExpires, Ended, RunsAlone
    <3> QED BY <3>2, <3>3
  <2>3. jobState'[m] = jobState[m] /\ lock'[m] = lock[m]
    BY <1>5, <2>2 DEF QueueStep, BackoffElapsed, BackoffOver, RecoverOrphan, LockExpires, PutBack,
       Messages, TypeOK, QueueType
  <2> QED BY <2>1, <2>3 DEF Ended, workerVars
<1>6. CASE Crash
  <2>1. jobState[m] = "none"
    <3>1. m \notin {cur[w] : w \in {v \in Workers : pc[v] = "complete"}}
      BY <1>6 DEF Crash
    <3> QED BY <3>1 DEF Ended
  <2> QED BY <1>6, <2>1 DEF Crash, DropLocks, Ended, worldVars
<1>7. CASE UNCHANGED vars
  BY <1>2, <1>7 DEF vars, queueVars, worldVars
<1> QED BY <1>2, <1>3, <1>4, <1>5, <1>6, <1>7, SyncsKeepRest DEF Next, queueVars

(* The first refund: the run that makes it is at its end, or its answer is lost. *)
LEMMA FirstRefund ==
  ASSUME TypeOK, RunsAlone, [Next]_vars,
         NEW m \in Messages \ (overlapped' \cup repeatable'), refunded[m] = 0, refunded'[m] > 0
  PROVE  Ended(m)' /\ refunded'[m] = 1
<1>1. m \notin repeatable
  BY HistoryGrows
<1>2. refunded' # refunded
  OBVIOUS
<1>3. PICK w \in Workers : PostRefund(w)
  BY <1>2, RequestsKeepJobs, SyncsKeepRest DEF Next, RefundStep, TakeRefund, RefundCompleted, RefundThrew,
     QueueStep, BackoffElapsed, RecoverOrphan, LockExpires, Crash, worldVars, vars
<1>4. cur[w] = m
  BY <1>3, WorkerHasJob DEF PostRefund, TypeOK, WorldType
<1>5. lock[m] = w
  BY <1>1, <1>4 DEF RunsAlone
<1>6. m \notin repeatable'
  OBVIOUS
<1>7. refunded'[m] = 1 /\ pc'[w] = "complete" /\ UNCHANGED <<cur, lock>>
  BY <1>3, <1>4, <1>6 DEF PostRefund, WorkerTo, queueVars, TypeOK, WorldType, WorkerType
<1> QED BY <1>4, <1>5, <1>7 DEF Ended

LEMMA EndsStep ==
  ASSUME TypeOK, ChangesAreSeen, ChangeIsForward, RunsAlone, RefundHasReason, RefundEndsJob,
         RefundedOnce, [Next]_vars
  PROVE  RefundEndsJob' /\ RefundedOnce'
<1>1. ASSUME NEW m \in Messages \ (overlapped' \cup repeatable')
      PROVE  refunded'[m] <= 1 /\ (refunded'[m] > 0 => Ended(m)')
  <2>1. m \notin overlapped /\ m \notin repeatable
    BY HistoryGrows
  <2>2. refunded[m] \in Nat /\ refunded'[m] \in Nat
    BY TypeStep DEF TypeOK, WorldType
  <2>3. CASE refunded[m] > 0
    <3>1. Ended(m) /\ refunded[m] <= 1
      BY <2>1, <2>3 DEF RefundEndsJob, RefundedOnce, Ended
    <3> QED BY <2>3, <3>1, EndedStays
  <2>4. CASE refunded[m] = 0
    BY <2>2, <2>4, FirstRefund
  <2> QED BY <2>2, <2>3, <2>4
<1>2. TypeOK'
  BY TypeStep
<1> QED BY <1>1, <1>2 DEF RefundEndsJob, RefundedOnce, Ended

-----------------------------------------------------------------------------
(* Theorems.                                                               *)

LEMMA InitInv == Init => StatusInv
<1> SUFFICES ASSUME Init PROVE StatusInv
  OBVIOUS
<1> USE DEF Init
<1>1. TypeOK
  <2>1. QueueType
    BY DEF QueueInit, QueueType, Messages
  <2>2. RowType /\ WorldType /\ HistType
    BY StatusAssumption DEF RowType, WorldType, HistType
  <2>3. RequestType
    BY StatusAssumption DEF RequestType
  <2>4. WorkerType
    BY StatusAssumption DEF WorkerType
  <2> QED BY <2>1, <2>2, <2>3, <2>4 DEF TypeOK
<1>2. RefundedOnce /\ RefundEndsJob
  BY <1>1 DEF RefundedOnce, RefundEndsJob
<1>3. FailedHasRefund /\ BackendIsTold
  BY DEF FailedHasRefund, BackendIsTold, Reported
<1>4. HandledIsKept /\ ItemsAreKept
  BY DEF HandledIsKept, ItemsAreKept
<1>5. RefundIsSecured /\ ChangesAreSeen /\ ChangeIsForward
  BY DEF RefundIsSecured, ChangesAreSeen, ChangeIsForward, Changing
<1>6. RunsAlone
  BY StatusAssumption DEF RunsAlone
<1>7. RefundHasReason
  BY DEF RefundHasReason, QueueInit, Messages
<1> QED BY <1>2, <1>3, <1>4, <1>5, <1>6, <1>7 DEF StatusInv

LEMMA StepInv == StatusInv /\ [Next]_vars => StatusInv'
<1> SUFFICES ASSUME StatusInv, [Next]_vars PROVE StatusInv'
  OBVIOUS
<1>1. TypeOK
  BY DEF StatusInv, RefundedOnce
<1> USE DEF StatusInv
<1>2. RefundEndsJob' /\ RefundedOnce'
  BY <1>1, EndsStep
<1>3. RefundHasReason'
  BY <1>1, ReasonStep
<1>4. RunsAlone' /\ FailedHasRefund' /\ BackendIsTold'
  BY <1>1, AloneStep, FailedStep, ToldStep
<1>5. RefundIsSecured' /\ ChangesAreSeen' /\ ChangeIsForward'
  BY <1>1, SecuredStep, SeenStep, ForwardStep
<1>6. HandledIsKept' /\ ItemsAreKept'
  BY <1>1, KeptStep
<1> QED BY <1>2, <1>3, <1>4, <1>5, <1>6

(* StatusInv, in which the properties of the webhooks are strong enough to *)
(* be preserved by every step of handleWebhook, the syncs, the refund      *)
(* worker and the queue.                                                   *)
THEOREM StatusInvariant == Spec => []StatusInv
BY InitInv, StepInv, PTL DEF Spec

(* "process restarts, crashes, or OOM kills cannot drop a refund": because  *)
(* processStatus queues the refund before it writes the status, a message   *)
(* whose row says failed is refunded or has a job, whatever fails between.  *)
THEOREM RefundNotDropped == Spec => []FailedHasRefund
<1>1. StatusInv => FailedHasRefund
  BY DEF StatusInv
<1> QED BY <1>1, StatusInvariant, PTL

(* The job named by the message and the status progression guard together   *)
(* make a repeated webhook harmless: one refund for a message, unless two   *)
(* requests overlap on it, or a write or a refund's answer was lost.        *)
THEOREM OneRefund == Spec => []RefundedOnce
<1>1. StatusInv => RefundedOnce
  BY DEF StatusInv
<1> QED BY <1>1, StatusInvariant, PTL

(* Once handleWebhook is through with a webhook and dropped none of its     *)
(* items, every status in it has reached its row, and no late or repeated   *)
(* webhook takes the row back.                                              *)
THEOREM HandledStaysKept == Spec => []HandledIsKept
<1>1. StatusInv => HandledIsKept
  BY DEF StatusInv
<1> QED BY <1>1, StatusInvariant, PTL

(* Every status processStatus writes has been synced, or is being synced,   *)
(* or is one that a crash, the last retry of syncToBackend or an update that *)
(* was made and not answered took away.                                     *)
THEOREM BackendLearns == Spec => []BackendIsTold
<1>1. StatusInv => BackendIsTold
  BY DEF StatusInv
<1> QED BY <1>1, StatusInvariant, PTL
=============================================================================
