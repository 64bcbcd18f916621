---------------------------- MODULE StatusWebhook ----------------------------
(***************************************************************************)
(* Webhooks of the first version: the controller answers 200 and does not  *)
(* wait for WhatsappWebhookService.handleWebhook, which walks through the  *)
(* statuses and the customer messages of a webhook and catches what it     *)
(* throws.  A status moves the message forward, a 'failed' one queues a    *)
(* refund first, and the backend is told of every change; RefundProcessor  *)
(* asks the backend for the refund.                                        *)
(*                                                                         *)
(* The refund job of a message is named by the message, so Jobs are the    *)
(* messages.  One process serves the requests, the syncs and the queue.    *)
(***************************************************************************)
EXTENDS BullQueue, Sequences

CONSTANTS
  Requests,      \* webhooks that may be handled at a time
  Inbound,       \* customer messages
  Payload,       \* webhook -> sequence of its items, statuses and messages
  SyncRetries,   \* retries of syncToBackend (3)
  MaxDeliveries, \* bound: deliveries of webhooks, the repeated ones included
  Faults,        \* kinds of failure that may happen
  MaxFaults,     \* bound: failures in one behaviour
  NoWebhook, NoMessage

Messages == Jobs
Webhooks == DOMAIN Payload

(* STATUS_WEIGHT; a status that is not in it weighs nothing. *)
Weight(s) == CASE s = "sent" -> 1 [] s = "delivered" -> 2 [] s = "read" -> 3
               [] s = "failed" -> 4 [] OTHER -> 0

Reported == {"sent", "delivered", "read", "failed"}
StatusItems == [msg : Messages, status : Reported]

ASSUME StatusAssumption ==
  /\ Payload \in [Webhooks -> Seq(StatusItems \cup Inbound) \ {<<>>}]
  /\ StatusItems \cap Inbound = {}
  /\ {SyncRetries, MaxDeliveries, MaxFaults} \subseteq Nat
  /\ Faults \subseteq {"crash", "stall", "db", "redis", "net"}
  /\ NoWebhook \notin Webhooks /\ NoMessage \notin Messages

VARIABLES
  \* MongoDB
  status,     \* "processing" until the wamid is stored
  inbound,    \* customer messages that have a document
  \* handleWebhook, per request
  at, webhook, pos,
  syncs,      \* calls of syncToBackend that have not ended
  \* RefundProcessor.process, per worker
  pc, cur,
  \* the world
  delivered,  \* deliveries Meta has made
  handled,    \* webhooks that handleWebhook is through with
  refunded,   \* refunds the backend has made
  told,       \* statuses the backend has been told of
  faults,
  \* history
  spoiled,    \* webhooks an item of which was dropped
  overlapped, \* messages that two requests were changing at a time
  repeatable, \* messages whose refund may be made again for a reason
  untold      \* messages of which a sync was lost, or never made

rowVars     == <<status, inbound>>
requestVars == <<at, webhook, pos>>
workerVars  == <<pc, cur>>
worldVars   == <<delivered, handled, refunded, told>>
histVars    == <<spoiled, overlapped, repeatable, untold>>
vars == <<rowVars, requestVars, syncs, workerVars, queueVars, worldVars, faults, histVars>>

Fault(kind) ==
  /\ kind \in Faults /\ faults < MaxFaults
  /\ faults' = faults + 1

Init ==
  /\ QueueInit
  /\ status = [m \in Messages |-> "processing"]
  /\ inbound = {}
  /\ at = [h \in Requests |-> "idle"]
  /\ webhook = [h \in Requests |-> NoWebhook]
  /\ pos = [h \in Requests |-> 1]
  /\ syncs = {}
  /\ pc = [w \in Workers |-> "idle"]
  /\ cur = [w \in Workers |-> NoMessage]
  /\ delivered = 0
  /\ handled = {} /\ told = {}
  /\ refunded = [m \in Messages |-> 0]
  /\ faults = 0
  /\ spoiled = {} /\ overlapped = {} /\ repeatable = {} /\ untold = {}

-----------------------------------------------------------------------------
(* The worker that sends writes the wamid and 'sent' when Meta has answered; *)
(* a webhook about the message may be there first.                           *)
StoreWamid(m) ==
  /\ status[m] = "processing"
  /\ status' = [status EXCEPT ![m] = "sent"]
  /\ UNCHANGED <<inbound, requestVars, syncs, workerVars, queueVars, worldVars, faults, histVars>>

-----------------------------------------------------------------------------
(* WhatsappWebhookService.handleWebhook.                                   *)

Goto(h, label) == at' = [at EXCEPT ![h] = label]

(* The webhook comes in and has its 200, perhaps too late: it may come again. *)
Deliver(h) ==
  /\ at[h] = "idle"
  /\ delivered < MaxDeliveries
  /\ delivered' = delivered + 1
  /\ \E x \in Webhooks : webhook' = [webhook EXCEPT ![h] = x]
  /\ Goto(h, "item")
  /\ UNCHANGED <<rowVars, pos, syncs, workerVars, queueVars, handled, refunded, told,
                 faults, histVars>>

Item(h) == Payload[webhook[h]][pos[h]]
ItemIsStatus(h) == Item(h) \notin Inbound

EndHandling(h) ==
  /\ Goto(h, "idle")
  /\ webhook' = [webhook EXCEPT ![h] = NoWebhook]
  /\ pos' = [pos EXCEPT ![h] = 1]
  /\ handled' = handled \cup {webhook[h]}

NextItem(h) ==
  IF pos[h] = Len(Payload[webhook[h]])
  THEN EndHandling(h)
  ELSE /\ Goto(h, "item")
       /\ pos' = [pos EXCEPT ![h] = @ + 1]
       /\ UNCHANGED <<webhook, handled>>

(* The catch of handleWebhook: the other items are dropped. *)
Abandon(h) == EndHandling(h) /\ spoiled' = spoiled \cup {webhook[h]}

(* processStatus: no message has that wamid. *)
NotMapped(h) ==
  /\ at[h] = "item" /\ ItemIsStatus(h)
  /\ status[Item(h).msg] = "processing"
  /\ NextItem(h)
  /\ spoiled' = spoiled \cup {webhook[h]}
  /\ UNCHANGED <<rowVars, syncs, workerVars, queueVars, delivered, refunded, told, faults,
                 overlapped, repeatable, untold>>

(* Mutant: the guard lets the same status pass again. *)
ForwardOrSame(old, new) == Weight(new) >= Weight(old)

(* Mutant: there is no status progression guard. *)
ForwardAlways(old, new) == TRUE

Forward(old, new) == Weight(new) > Weight(old)

Skip(h) ==
  /\ at[h] = "item" /\ ItemIsStatus(h)
  /\ status[Item(h).msg] # "processing"
  /\ ~Forward(status[Item(h).msg], Item(h).status)
  /\ NextItem(h)
  /\ UNCHANGED <<rowVars, syncs, workerVars, queueVars, delivered, refunded, told, faults,
                 histVars>>

Changing(h, m) == at[h] \in {"refund", "write"} /\ Item(h).msg = m

Proceed(h) ==
  /\ at[h] = "item" /\ ItemIsStatus(h)
  /\ status[Item(h).msg] # "processing"
  /\ Forward(status[Item(h).msg], Item(h).status)
  /\ Goto(h, IF Item(h).status = "failed" THEN "refund" ELSE "write")
  /\ overlapped' = overlapped \cup
       {m \in {Item(h).msg} : \E g \in Requests \ {h} : Changing(g, m)}
  /\ UNCHANGED <<rowVars, webhook, pos, syncs, workerVars, queueVars, worldVars, faults,
                 spoiled, repeatable, untold>>

ReadFails(h) ==
  /\ at[h] = "item" /\ ItemIsStatus(h) /\ Fault("db")
  /\ Abandon(h)
  /\ UNCHANGED <<rowVars, syncs, workerVars, queueVars, delivered, refunded, told,
                 overlapped, repeatable, untold>>

(* Mutant: the refund is queued, if at all, by whoever comes after the write. *)
QueueRefundLater(h) ==
  /\ at[h] = "refund"
  /\ status' = [status EXCEPT ![Item(h).msg] = "failed"]
  /\ Goto(h, "write")
  /\ UNCHANGED <<inbound, webhook, pos, syncs, workerVars, queueVars, worldVars, faults, histVars>>

QueueRefund(h) ==
  /\ at[h] = "refund"
  /\ Add(Item(h).msg)
  /\ Goto(h, "write")
  /\ UNCHANGED <<rowVars, webhook, pos, syncs, workerVars, worldVars, faults, histVars>>

(* Not queued, or queued and not answered. *)
QueueRefundFails(h) ==
  /\ at[h] = "refund" /\ Fault("redis")
  /\ \/ UNCHANGED <<queueVars, repeatable>>
     \/ Add(Item(h).msg) /\ repeatable' = repeatable \cup {Item(h).msg}
  /\ Abandon(h)
  /\ UNCHANGED <<rowVars, syncs, workerVars, delivered, refunded, told, overlapped, untold>>

(* Mutant: the sync is left to the redelivery. *)
WriteStatusUnsynced(h) ==
  /\ at[h] = "write"
  /\ status' = [status EXCEPT ![Item(h).msg] = Item(h).status]
  /\ NextItem(h)
  /\ UNCHANGED <<inbound, syncs, workerVars, queueVars, delivered, refunded, told, faults, histVars>>

(* updateOne by the wamid alone, and the setImmediate. *)
WriteStatus(h) ==
  /\ at[h] = "write"
  /\ status' = [status EXCEPT ![Item(h).msg] = Item(h).status]
  /\ syncs' = syncs \cup {[msg |-> Item(h).msg, status |-> Item(h).status, left |-> SyncRetries]}
  /\ NextItem(h)
  /\ UNCHANGED <<inbound, workerVars, queueVars, delivered, refunded, told, faults, histVars>>

(* Not written, or written and not answered: there is no sync, and the      *)
(* weight of the status keeps the webhook from being handled again.         *)
WriteFails(h) ==
  /\ at[h] = "write" /\ Fault("db")
  /\ \/ UNCHANGED <<status, untold>>
     \/ /\ status' = [status EXCEPT ![Item(h).msg] = Item(h).status]
        /\ untold' = untold \cup {Item(h).msg}
  /\ Abandon(h)
  /\ repeatable' = repeatable \cup {Item(h).msg}
  /\ UNCHANGED <<inbound, syncs, workerVars, queueVars, delivered, refunded, told, overlapped>>

(* InboundMessage: the required paths, and those processInboundMessage sets. *)
RequiredPaths == {"clientId", "wamid", "from", "timestamp", "type"}
GivenPaths == {"wamid", "from", "timestamp", "type", "body", "payload", "rawPayload"}

(* processInboundMessage: a document that does not validate makes create    *)
(* throw. The automation would come after it.                               *)
StoreInbound(h) ==
  /\ at[h] = "item" /\ ~ItemIsStatus(h)
  /\ IF RequiredPaths \subseteq GivenPaths
     THEN inbound' = inbound \cup {Item(h)} /\ NextItem(h) /\ UNCHANGED spoiled
     ELSE Abandon(h) /\ UNCHANGED inbound
  /\ UNCHANGED <<status, syncs, workerVars, queueVars, delivered, refunded, told, faults,
                 overlapped, repeatable, untold>>

-----------------------------------------------------------------------------
(* WhatsappWebhookService.syncToBackend.                                   *)

SyncDelivered(y) ==
  /\ syncs' = syncs \ {y}
  /\ told' = told \cup {<<y.msg, y.status>>}
  /\ UNCHANGED <<rowVars, requestVars, workerVars, queueVars, delivered, handled, refunded,
                 faults, histVars>>

(* Another try after a pause, or the error is logged. *)
SyncFails(y) ==
  /\ Fault("net")
  /\ IF y.left > 0
     THEN /\ syncs' = (syncs \ {y}) \cup {[y EXCEPT !.left = @ - 1]}
          /\ UNCHANGED untold
     ELSE syncs' = syncs \ {y} /\ untold' = untold \cup {y.msg}
  /\ UNCHANGED <<rowVars, requestVars, workerVars, queueVars, worldVars, spoiled, overlapped,
                 repeatable>>

-----------------------------------------------------------------------------
(* RefundProcessor.process.                                                *)

WorkerTo(w, label) == pc' = [pc EXCEPT ![w] = label]

TakeRefund(w) ==
  /\ pc[w] = "idle"
  /\ \E m \in Messages : Take(w, m) /\ cur' = [cur EXCEPT ![w] = m]
  /\ WorkerTo(w, "post")
  /\ UNCHANGED <<rowVars, requestVars, syncs, worldVars, faults, histVars>>

(* Mutant: an answer that is not 2xx is taken for a refund. *)
PostRefundUnchecked(w) ==
  /\ pc[w] = "post"
  /\ \/ refunded' = [refunded EXCEPT ![cur[w]] = @ + 1] /\ UNCHANGED faults
     \/ Fault("net") /\ UNCHANGED refunded
  /\ WorkerTo(w, "complete")
  /\ UNCHANGED <<rowVars, requestVars, syncs, cur, queueVars, delivered, handled, told, histVars>>

(* The backend makes the refund, and its answer may be lost; or it does not. *)
PostRefund(w) ==
  /\ pc[w] = "post"
  /\ \/ /\ refunded' = [refunded EXCEPT ![cur[w]] = @ + 1]
        /\ WorkerTo(w, "complete")
        /\ UNCHANGED <<faults, repeatable>>
     \/ /\ Fault("net")
        /\ refunded' = [refunded EXCEPT ![cur[w]] = @ + 1]
        /\ repeatable' = repeatable \cup {cur[w]}
        /\ WorkerTo(w, "threw")
     \/ /\ Fault("net") /\ WorkerTo(w, "threw")
        /\ UNCHANGED <<refunded, repeatable>>
  /\ UNCHANGED <<rowVars, requestVars, syncs, cur, queueVars, delivered, handled, told,
                 spoiled, overlapped, untold>>

Release(w) == WorkerTo(w, "idle") /\ cur' = [cur EXCEPT ![w] = NoMessage]

(* removeOnComplete: nothing of the job remains, its id may be added again. *)
RefundCompleted(w) ==
  /\ pc[w] = "complete"
  /\ IF lock[cur[w]] = w
     THEN /\ jobState' = [jobState EXCEPT ![cur[w]] = "none"]
          /\ attemptsMade' = [attemptsMade EXCEPT ![cur[w]] = 0]
          /\ stalledCount' = [stalledCount EXCEPT ![cur[w]] = 0]
          /\ lock' = [lock EXCEPT ![cur[w]] = NoWorker]
     ELSE UNCHANGED queueVars
  /\ Release(w)
  /\ UNCHANGED <<rowVars, requestVars, syncs, worldVars, faults, histVars>>

RefundThrew(w) ==
  /\ pc[w] = "threw"
  /\ Threw(w, cur[w])
  /\ Release(w)
  /\ UNCHANGED <<rowVars, requestVars, syncs, worldVars, faults, histVars>>

BackoffElapsed(m) ==
  BackoffOver(m)
  /\ UNCHANGED <<rowVars, requestVars, syncs, workerVars, worldVars, faults, histVars>>

RecoverOrphan(m) ==
  /\ lock[m] = NoWorker /\ PutBack(m)
  /\ UNCHANGED <<rowVars, requestVars, syncs, workerVars, worldVars, faults, histVars>>

LockExpires(m) ==
  /\ lock[m] # NoWorker /\ Fault("stall") /\ PutBack(m)
  /\ repeatable' = repeatable \cup {m}
  /\ UNCHANGED <<rowVars, requestVars, syncs, workerVars, worldVars, spoiled, overlapped, untold>>

(* What is in memory is gone, the webhooks that were being handled too. *)
Crash ==
  /\ Fault("crash")
  /\ at' = [h \in Requests |-> "idle"]
  /\ webhook' = [h \in Requests |-> NoWebhook]
  /\ pos' = [h \in Requests |-> 1]
  /\ syncs' = {}
  /\ untold' = untold \cup {y.msg : y \in syncs}
  /\ pc' = [w \in Workers |-> "idle"]
  /\ cur' = [w \in Workers |-> NoMessage]
  /\ DropLocks(Workers)
  /\ repeatable' = repeatable
       \cup {Item(h).msg : h \in {g \in Requests : at[g] = "write"}}
       \cup {cur[w] : w \in {v \in Workers : pc[v] = "complete"}}
  /\ UNCHANGED <<rowVars, worldVars, spoiled, overlapped>>

-----------------------------------------------------------------------------
RequestStep(h) ==
  \/ NotMapped(h) \/ Skip(h) \/ Proceed(h) \/ ReadFails(h)
  \/ QueueRefund(h) \/ QueueRefundFails(h) \/ WriteStatus(h) \/ WriteFails(h)
  \/ StoreInbound(h)

RefundStep(w) == TakeRefund(w) \/ PostRefund(w) \/ RefundCompleted(w) \/ RefundThrew(w)

QueueStep(m) == BackoffElapsed(m) \/ RecoverOrphan(m)

Next ==
  \/ \E m \in Messages :
       StoreWamid(m) \/ QueueStep(m) \/ LockExpires(m)
  \/ \E h \in Requests : Deliver(h) \/ RequestStep(h)
  \/ \E y \in syncs : SyncDelivered(y) \/ SyncFails(y)
  \/ \E w \in Workers : RefundStep(w)
  \/ Crash

Spec == Init /\ [][Next]_vars

(* BullMQ keeps its worker, its delayed set and its stalled check going;    *)
(* nothing else is needed for what has been queued.                         *)
Fairness ==
  /\ \A w \in Workers : WF_vars(RefundStep(w))
  /\ \A m \in Messages : WF_vars(QueueStep(m))

FairSpec == Spec /\ Fairness

-----------------------------------------------------------------------------
RowType == status \in [Messages -> Reported \cup {"processing"}] /\ inbound \subseteq Inbound

RequestType ==
  /\ at \in [Requests -> {"idle", "item", "refund", "write"}]
  /\ webhook \in [Requests -> Webhooks \cup {NoWebhook}]
  /\ pos \in [Requests -> Nat \ {0}]
  /\ \A h \in Requests :
       /\ webhook[h] = NoWebhook <=> at[h] = "idle"
       /\ IF at[h] = "idle" THEN pos[h] = 1 ELSE pos[h] \in DOMAIN Payload[webhook[h]]
       /\ at[h] \in {"refund", "write"} => ItemIsStatus(h)
       /\ at[h] = "refund" => Item(h).status = "failed"

WorkerType ==
  /\ pc \in [Workers -> {"idle", "post", "complete", "threw"}]
  /\ cur \in [Workers -> Messages \cup {NoMessage}]
  /\ \A w \in Workers : cur[w] = NoMessage <=> pc[w] = "idle"

WorldType ==
  /\ delivered \in 0..MaxDeliveries
  /\ handled \subseteq Webhooks
  /\ refunded \in [Messages -> Nat] /\ told \subseteq Messages \X Reported

HistType ==
  /\ spoiled \subseteq Webhooks
  /\ overlapped \subseteq Messages /\ repeatable \subseteq Messages /\ untold \subseteq Messages

(* Every variable keeps its type; a request has a webhook, and a worker a   *)
(* message, while it is at work.                                            *)
TypeOK ==
  /\ QueueType /\ RowType /\ RequestType /\ WorkerType /\ WorldType /\ HistType
  /\ syncs \subseteq [msg : Messages, status : Reported, left : 0..SyncRetries]
  /\ faults \in Nat

(* Item k of webhook x has reached the row. *)
Kept(x, k) ==
  LET i == Payload[x][k]
  IN i \notin Inbound /\ i.msg \notin overlapped => Weight(status[i.msg]) >= Weight(i.status)

(* What has been handled, with no item dropped on the way, has reached the *)
(* row and is not undone by a status that comes late or again, unless two   *)
(* requests were changing the message at a time.                            *)
HandledIsKept == \A x \in handled \ spoiled : \A k \in DOMAIN Payload[x] : Kept(x, k)

(* "BullMQ persists the job in Redis before the message status is marked as *)
(* failed, so process restarts, crashes, or OOM kills cannot drop a refund":*)
(* a failed message has been refunded, or has a job that will do it.        *)
FailedHasRefund ==
  \A m \in Messages : status[m] = "failed" => refunded[m] > 0 \/ jobState[m] # "none"

(* A failure that is reported again is not refunded again, unless requests  *)
(* overlapped, the write after the job was lost, or the refund itself was   *)
(* made without the worker's seeing it.                                     *)
RefundedOnce ==
  /\ TypeOK
  /\ \A m \in Messages \ (overlapped \cup repeatable) : refunded[m] <= 1

(* A failed message is refunded in the end, or its job is in the failed set. *)
FailedIsRefunded ==
  \A m \in Messages : status[m] = "failed" ~> refunded[m] > 0 \/ jobState[m] = "failed"

(* The backend has been told of the status a message has, or a sync is on   *)
(* its way, or a crash, the last retry or an update that was made and not   *)
(* answered took it away: no redelivery would sync again.                   *)
BackendIsTold ==
  \A m \in Messages : status[m] \in Reported \ {"sent"} =>
    \/ <<m, status[m]>> \in told \/ m \in untold
    \/ \E y \in syncs : y.msg = m /\ y.status = status[m]

(* "Always persist - even if we can't route, the message is not lost." *)
InboundKept ==
  \A x \in handled : \A k \in DOMAIN Payload[x] :
    Payload[x][k] \in Inbound => Payload[x][k] \in inbound

-----------------------------------------------------------------------------
(* Why they hold.                                                          *)

(* A refund is queued before the row says failed, and stays until it is made. *)
RefundIsSecured ==
  /\ \A h \in Requests : at[h] = "write" /\ Item(h).status = "failed" =>
       LET m == Item(h).msg IN refunded[m] > 0 \/ jobState[m] # "none"
  /\ \A w \in Workers : pc[w] = "complete" => refunded[cur[w]] > 0

(* Two requests that change a message at a time are seen to. *)
ChangesAreSeen ==
  \A h, g \in Requests : \A m \in Messages \ overlapped :
    Changing(h, m) /\ Changing(g, m) => h = g

(* The guard still holds when the write comes. *)
ChangeIsForward ==
  \A h \in Requests : at[h] \in {"refund", "write"} =>
    LET i == Item(h)
    IN /\ status[i.msg] # "processing"
       /\ i.msg \notin overlapped => Forward(status[i.msg], i.status)

(* The items a request is through with. *)
ItemsAreKept ==
  \A h \in Requests : at[h] # "idle" /\ webhook[h] \notin spoiled =>
    \A k \in 1..(pos[h] - 1) : Kept(webhook[h], k)

(* A run holds the lock of its job. *)
RunsAlone ==
  \A w \in Workers : cur[w] \in Messages \ repeatable =>
    lock[cur[w]] = w /\ jobState[cur[w]] = "active"

(* Nothing is left to do for a refund that was made but to remove its job. *)
RefundEndsJob ==
  \A m \in Messages \ (overlapped \cup repeatable) : refunded[m] > 0 =>
    \/ jobState[m] = "none"
    \/ lock[m] \in Workers /\ cur[lock[m]] = m /\ pc[lock[m]] = "complete"

(* A message that has a refund is failed, or will be with the next write, so *)
(* that no other request gets past the guard.                               *)
RefundHasReason ==
  \A m \in Messages \ (overlapped \cup repeatable) :
    refunded[m] > 0 \/ jobState[m] # "none" =>
      \/ status[m] = "failed"
      \/ \E h \in Requests : at[h] = "write" /\ Item(h).msg = m /\ Item(h).status = "failed"

StatusInv ==
  /\ RefundedOnce /\ FailedHasRefund /\ HandledIsKept /\ BackendIsTold
  /\ RefundIsSecured /\ ChangesAreSeen /\ ChangeIsForward /\ ItemsAreKept
  /\ RunsAlone /\ RefundEndsJob /\ RefundHasReason
=============================================================================
