--------------------------- MODULE WebhookIngestion ---------------------------
(***************************************************************************)
(* Webhook events on their way in: WhatsAppController.handleWebhook logs a *)
(* payload under its hash and queues a job with that id;                   *)
(* WebhookProcessor.process walks through the payload, storing each        *)
(* customer message in a transaction of its own and appending each status  *)
(* event, and starts again from the first item when anything throws.       *)
(*                                                                         *)
(* The job of an event is named by the event's hash, so Jobs are the       *)
(* events.  Transactions are READ COMMITTED: a step of a worker sees what  *)
(* others have committed, and its own writes appear at the commit.         *)
(***************************************************************************)
EXTENDS BullQueue, Sequences, FiniteSets

CONSTANTS
  Nodes,         \* processes; <<n, i>> \in Workers is slot i of process n
  Messages,      \* wamids of customer messages
  StatusEvents,  \* status items about messages that PostgreSQL has
  Payload,       \* event -> sequence of its items, messages and statuses
  Sender,        \* message -> customer
  SentAt,        \* message -> Meta's timestamp
  HasMedia,      \* messages with a media id
  UnknownNumber, \* messages to a phone number that no tenant has
  Faults,        \* kinds of failure that may happen
  MaxFaults,     \* bound: failures in one behaviour
  NoEvent

Customers == {Sender[m] : m \in Messages}

ASSUME IngestionAssumption ==
  /\ IsFiniteSet(Messages) /\ IsFiniteSet(Workers)
  /\ \A w \in Workers : w[1] \in Nodes
  /\ Messages \cap StatusEvents = {}
  /\ Payload \in [Jobs -> Seq(Messages \cup StatusEvents)]
  /\ DOMAIN Sender = Messages
  /\ SentAt \in [Messages -> Nat \ {0}]
  /\ HasMedia \subseteq Messages /\ UnknownNumber \subseteq Messages
  /\ Faults \subseteq {"crash", "stall", "db", "redis", "net"}
  /\ MaxFaults \in Nat
  /\ MaxStalled > 0          \* BullMQ's default of 1; no processor sets it
  /\ NoEvent \notin Jobs

VARIABLES
  \* PostgreSQL
  row,        \* webhookEvent.processingState, "none" before the row exists
  convs,      \* conversations in order of creation
  stored,     \* message -> index of its conversation, 0 when it has no row
  received,   \* message -> number of 'message.received' outbox rows
  recorded,   \* status item -> number of MessageStatusEvent rows
  \* the media queue: download jobs that name the row of the message
  mediaJobs,
  \* handleWebhook: the event a process has logged and not yet queued
  http,
  acked,      \* events Meta has had a 200 for
  \* WebhookProcessor.process, per slot
  pc, cur, pos,
  conv,       \* the conversation the transaction found, 0 for a new one
  faults,
  unqueued    \* history: events whose request ended before queue.add

dbVars     == <<convs, stored, received, recorded>>
httpVars   == <<http, acked, unqueued>>
workerVars == <<pc, cur, pos, conv>>
vars == <<row, dbVars, mediaJobs, httpVars, queueVars, workerVars, faults>>

Fault(kind) ==
  /\ kind \in Faults /\ faults < MaxFaults
  /\ faults' = faults + 1

Item(w) == Payload[cur[w]][pos[w]]

(* A conversation starts at version 1 with nothing unread. Its state is left *)
(* out: CUSTOMER_MESSAGE_RECEIVED is the only event, and leads from NEW to   *)
(* WAITING_FOR_AGENT and from there to itself.                               *)
NewConversation(c) ==
  [customer |-> c, version |-> 1, unread |-> 0, last |-> 0]

Init ==
  /\ QueueInit
  /\ row = [e \in Jobs |-> "none"]
  /\ convs = <<>>
  /\ stored = [m \in Messages |-> 0]
  /\ received = [m \in Messages |-> 0]
  /\ recorded = [s \in StatusEvents |-> 0]
  /\ mediaJobs = [m \in Messages |-> 0]
  /\ http = [n \in Nodes |-> NoEvent]
  /\ acked = {}
  /\ pc = [w \in Workers |-> "idle"]
  /\ cur = [w \in Workers |-> NoEvent]
  /\ pos = [w \in Workers |-> 1]
  /\ conv = [w \in Workers |-> 0]
  /\ faults = 0
  /\ unqueued = {}

-----------------------------------------------------------------------------
(* WhatsAppController.handleWebhook. Meta delivers an event at least once; *)
(* an answer other than 200, or a lost one, makes it deliver again.        *)

(* A 200 goes out; it may get lost. *)
Acknowledge(e) ==
  \/ acked' = acked \cup {e} /\ UNCHANGED faults
  \/ Fault("net") /\ UNCHANGED acked

(* Mutant: the 200 is sent before the event is queued. *)
LogEventAnswersFirst(n, e) ==
  /\ http[n] = NoEvent
  /\ row[e] = "none"
  /\ row' = [row EXCEPT ![e] = "PENDING"]
  /\ acked' = acked \cup {e}
  /\ UNCHANGED <<dbVars, mediaJobs, http, unqueued, queueVars, workerVars, faults>>

LogEvent(n, e) ==
  /\ http[n] = NoEvent
  /\ row[e] = "none"
  /\ row' = [row EXCEPT ![e] = "PENDING"]
  /\ http' = [http EXCEPT ![n] = e]
  /\ UNCHANGED <<dbVars, mediaJobs, acked, unqueued, queueVars, workerVars, faults>>

(* The insert fails with P2002: the answer is 200, status 'duplicate'. *)
RejectDuplicate(n, e) ==
  /\ http[n] = NoEvent
  /\ row[e] # "none"
  /\ Acknowledge(e)
  /\ UNCHANGED <<row, dbVars, mediaJobs, http, unqueued, queueVars, workerVars>>

EnqueueEvent(n) ==
  /\ http[n] # NoEvent
  /\ Add(http[n])
  /\ Acknowledge(http[n])
  /\ http' = [http EXCEPT ![n] = NoEvent]
  /\ UNCHANGED <<row, dbVars, mediaJobs, unqueued, workerVars>>

(* queue.add throws: the answer is 500, the row stays. *)
EnqueueFails(n) ==
  /\ http[n] # NoEvent
  /\ Fault("redis")
  /\ http' = [http EXCEPT ![n] = NoEvent]
  /\ unqueued' = unqueued \cup {http[n]}
  /\ UNCHANGED <<row, dbVars, mediaJobs, acked, queueVars, workerVars>>

-----------------------------------------------------------------------------
(* WebhookProcessor.process.                                               *)

Goto(w, label) == pc' = [pc EXCEPT ![w] = label]

TakeEvent(w) ==
  /\ pc[w] = "idle"
  /\ \E e \in Jobs : Take(w, e) /\ cur' = [cur EXCEPT ![w] = e]
  /\ Goto(w, "item")
  /\ UNCHANGED <<row, dbVars, mediaJobs, httpVars, pos, conv, faults>>

(* On to the next item, in the same run. *)
NextItem(w) ==
  /\ Goto(w, "item")
  /\ pos' = [pos EXCEPT ![w] = @ + 1]
  /\ conv' = [conv EXCEPT ![w] = 0]

(* A read of an item, or the update at the end, fails.  The read of the event *)
(* at the start of the run is outside the try.                                *)
ReadFails(w) ==
  /\ pc[w] = "item"
  /\ Fault("db")
  /\ \/ Goto(w, "catch")
     \/ pos[w] = 1 /\ Goto(w, "threw")
  /\ UNCHANGED <<row, dbVars, mediaJobs, httpVars, queueVars, cur, pos, conv>>

AtMessage(w) ==
  pc[w] = "item" /\ pos[w] <= Len(Payload[cur[w]]) /\ Item(w) \in Messages

SkipUnknownNumber(w) ==
  /\ AtMessage(w)
  /\ Item(w) \in UnknownNumber
  /\ NextItem(w)
  /\ UNCHANGED <<row, dbVars, mediaJobs, httpVars, queueVars, cur, faults>>

(* Mutant: the lookup never matches. *)
FindConversationNever(w) ==
  /\ AtMessage(w)
  /\ Item(w) \notin UnknownNumber
  /\ conv' = [conv EXCEPT ![w] = 0]
  /\ Goto(w, "check")
  /\ UNCHANGED <<row, dbVars, mediaJobs, httpVars, queueVars, cur, pos, faults>>

(* findFirst without an order: any conversation of the customer. *)
FindConversation(w) ==
  /\ AtMessage(w)
  /\ Item(w) \notin UnknownNumber
  /\ LET mine == {i \in DOMAIN convs : convs[i].customer = Sender[Item(w)]}
     IN \/ mine = {} /\ conv' = [conv EXCEPT ![w] = 0]
        \/ \E i \in mine : conv' = [conv EXCEPT ![w] = i]
  /\ Goto(w, "check")
  /\ UNCHANGED <<row, dbVars, mediaJobs, httpVars, queueVars, cur, pos, faults>>

(* Mutant: the conversation is updated for a message that is there, too. *)
SkipExistingUpdates(w) ==
  /\ pc[w] = "check"
  /\ stored[Item(w)] # 0
  /\ Goto(w, "commit")
  /\ UNCHANGED <<row, dbVars, mediaJobs, httpVars, queueVars, cur, pos, conv, faults>>

(* The message has a row already: the transaction commits what it has done *)
(* so far, a conversation it may have created.                             *)
SkipExisting(w) ==
  /\ pc[w] = "check"
  /\ stored[Item(w)] # 0
  /\ convs' = IF conv[w] = 0 THEN Append(convs, NewConversation(Sender[Item(w)])) ELSE convs
  /\ NextItem(w)
  /\ UNCHANGED <<row, stored, received, recorded, mediaJobs, httpVars, queueVars, cur, faults>>

CheckMessage(w) ==
  /\ pc[w] = "check"
  /\ stored[Item(w)] = 0
  /\ Goto(w, "insert")
  /\ UNCHANGED <<row, dbVars, mediaJobs, httpVars, queueVars, cur, pos, conv, faults>>

(* A transaction holds the unique key of the wamid it has inserted. *)
Holds(w, m) == pc[w] \in {"media", "commit"} /\ Item(w) = m

(* Mutant: no unique constraint on wamid, the row is written over. *)
InsertMessageTwice(w) ==
  /\ pc[w] = "insert"
  /\ Goto(w, IF Item(w) \in HasMedia THEN "media" ELSE "commit")
  /\ UNCHANGED <<row, dbVars, mediaJobs, httpVars, queueVars, cur, pos, conv, faults>>

(* The unique wamid: the insert waits for another transaction that holds   *)
(* the key, and fails once that has committed.                             *)
InsertMessage(w) ==
  /\ pc[w] = "insert"
  /\ \A v \in Workers : ~Holds(v, Item(w))
  /\ Goto(w, IF stored[Item(w)] # 0 THEN "catch"
             ELSE IF Item(w) \in HasMedia THEN "media" ELSE "commit")
  /\ UNCHANGED <<row, dbVars, mediaJobs, httpVars, queueVars, cur, pos, conv, faults>>

(* mediaQueue.add inside the transaction, which cannot take it back. *)
QueueMedia(w) ==
  /\ pc[w] = "media"
  /\ \/ /\ mediaJobs' = [mediaJobs EXCEPT ![Item(w)] = @ + 1]
        /\ Goto(w, "commit")
        /\ UNCHANGED faults
     \/ /\ Fault("redis")
        /\ Goto(w, "catch")
        /\ UNCHANGED mediaJobs
  /\ UNCHANGED <<row, dbVars, httpVars, queueVars, cur, pos, conv>>

(* lastCustomerMsgAt is set, the counters are incremented. *)
WithMessage(c, m) ==
  [c EXCEPT !.last = SentAt[m], !.unread = @ + 1, !.version = @ + 1]

(* Message, conversation counters and outbox row appear together; the       *)
(* increments are of the committed row.                                     *)
CommitMessage(w) ==
  /\ pc[w] = "commit"
  /\ LET m == Item(w)
         i == IF conv[w] = 0 THEN Len(convs) + 1 ELSE conv[w]
     IN /\ convs' = IF conv[w] = 0
                    THEN Append(convs, WithMessage(NewConversation(Sender[m]), m))
                    ELSE [convs EXCEPT ![i] = WithMessage(@, m)]
        /\ stored' = [stored EXCEPT ![m] = i]
        /\ received' = [received EXCEPT ![m] = @ + 1]
  /\ NextItem(w)
  /\ UNCHANGED <<row, recorded, mediaJobs, httpVars, queueVars, cur, faults>>

CommitFails(w) ==
  /\ pc[w] = "commit"
  /\ Fault("db")
  /\ Goto(w, "catch")
  /\ UNCHANGED <<row, dbVars, mediaJobs, httpVars, queueVars, cur, pos, conv>>

(* handleStatusUpdates for a message PostgreSQL has: a row per run. *)
RecordStatus(w) ==
  /\ pc[w] = "item" /\ pos[w] <= Len(Payload[cur[w]]) /\ Item(w) \in StatusEvents
  /\ recorded' = [recorded EXCEPT ![Item(w)] = @ + 1]
  /\ NextItem(w)
  /\ UNCHANGED <<row, convs, stored, received, mediaJobs, httpVars, queueVars, cur, faults>>

(* Mutant: the row is marked when the run starts. *)
MarkProcessedEarly(w) ==
  /\ pc[w] = "item" /\ pos[w] \in {1, Len(Payload[cur[w]]) + 1}
  /\ row' = [row EXCEPT ![cur[w]] = "PROCESSED"]
  /\ Goto(w, IF pos[w] = 1 THEN "item" ELSE "complete")
  /\ UNCHANGED <<dbVars, mediaJobs, httpVars, queueVars, cur, pos, conv, faults>>

MarkProcessed(w) ==
  /\ pc[w] = "item" /\ pos[w] > Len(Payload[cur[w]])
  /\ row' = [row EXCEPT ![cur[w]] = "PROCESSED"]
  /\ Goto(w, "complete")
  /\ UNCHANGED <<dbVars, mediaJobs, httpVars, queueVars, cur, pos, conv, faults>>

(* The catch block marks the row FAILED; either way the job throws. *)
MarkFailed(w) ==
  /\ pc[w] = "catch"
  /\ \/ row' = [row EXCEPT ![cur[w]] = "FAILED"] /\ UNCHANGED faults
     \/ Fault("db") /\ UNCHANGED row
  /\ Goto(w, "threw")
  /\ UNCHANGED <<dbVars, mediaJobs, httpVars, queueVars, cur, pos, conv>>

-----------------------------------------------------------------------------
(* BullMQ, and processes that die.                                         *)

Release(w) ==
  /\ Goto(w, "idle")
  /\ cur' = [cur EXCEPT ![w] = NoEvent]
  /\ pos' = [pos EXCEPT ![w] = 1]
  /\ conv' = [conv EXCEPT ![w] = 0]

JobCompleted(w) ==
  /\ pc[w] = "complete"
  /\ Complete(w, cur[w])
  /\ Release(w)
  /\ UNCHANGED <<row, dbVars, mediaJobs, httpVars, faults>>

(* Mutant: the promise of a failing run is never settled, its lock stays. *)
JobThrewKeepsLock(w) ==
  /\ pc[w] = "threw"
  /\ Release(w)
  /\ UNCHANGED <<row, dbVars, mediaJobs, httpVars, queueVars, faults>>

JobThrew(w) ==
  /\ pc[w] = "threw"
  /\ Threw(w, cur[w])
  /\ Release(w)
  /\ UNCHANGED <<row, dbVars, mediaJobs, httpVars, faults>>

BackoffElapsed(e) ==
  BackoffOver(e) /\ UNCHANGED <<row, dbVars, mediaJobs, httpVars, workerVars, faults>>

RecoverOrphan(e) ==
  /\ lock[e] = NoWorker /\ PutBack(e)
  /\ UNCHANGED <<row, dbVars, mediaJobs, httpVars, workerVars, faults>>

LockExpires(e) ==
  /\ lock[e] # NoWorker /\ Fault("stall") /\ PutBack(e)
  /\ UNCHANGED <<row, dbVars, mediaJobs, httpVars, workerVars>>

RetryFailedJob(e) ==
  Retry(e) /\ UNCHANGED <<row, dbVars, mediaJobs, httpVars, workerVars, faults>>

(* Open transactions roll back, an answer not sent is not sent. *)
Crash(n) ==
  LET mine == {w \in Workers : w[1] = n}
  IN /\ Fault("crash")
     /\ http' = [http EXCEPT ![n] = NoEvent]
     /\ unqueued' = unqueued \cup ({http[n]} \ {NoEvent})
     /\ pc' = [w \in Workers |-> IF w \in mine THEN "idle" ELSE pc[w]]
     /\ cur' = [w \in Workers |-> IF w \in mine THEN NoEvent ELSE cur[w]]
     /\ pos' = [w \in Workers |-> IF w \in mine THEN 1 ELSE pos[w]]
     /\ conv' = [w \in Workers |-> IF w \in mine THEN 0 ELSE conv[w]]
     /\ DropLocks(mine)
     /\ UNCHANGED <<row, dbVars, mediaJobs, acked>>

WorkerStep(w) ==
  \/ ReadFails(w) \/ SkipUnknownNumber(w) \/ FindConversation(w)
  \/ SkipExisting(w) \/ CheckMessage(w) \/ InsertMessage(w) \/ QueueMedia(w)
  \/ CommitMessage(w) \/ CommitFails(w) \/ RecordStatus(w)
  \/ MarkProcessed(w) \/ MarkFailed(w) \/ JobCompleted(w) \/ JobThrew(w)

Next ==
  \/ \E n \in Nodes :
       \/ \E e \in Jobs : LogEvent(n, e) \/ RejectDuplicate(n, e)
       \/ EnqueueEvent(n) \/ EnqueueFails(n) \/ Crash(n)
  \/ \E w \in Workers : TakeEvent(w) \/ WorkerStep(w)
  \/ \E e \in Jobs :
       BackoffElapsed(e) \/ RecoverOrphan(e) \/ LockExpires(e) \/ RetryFailedJob(e)

Spec == Init /\ [][Next]_vars

(* A request that has been logged goes on to its queue.add; BullMQ keeps its *)
(* workers, its delayed set and its stalled check going.  Nothing forces     *)
(* Meta to deliver.                                                          *)
Fairness ==
  /\ \A n \in Nodes : WF_vars(EnqueueEvent(n))
  /\ \A w \in Workers : WF_vars(TakeEvent(w)) /\ WF_vars(WorkerStep(w))
  /\ \A e \in Jobs : WF_vars(BackoffElapsed(e)) /\ WF_vars(RecoverOrphan(e))

FairSpec == Spec /\ Fairness

-----------------------------------------------------------------------------
Conversation == [customer : Customers, version : Nat, unread : Nat, last : Nat]

DbType ==
  /\ row \in [Jobs -> {"none", "PENDING", "PROCESSED", "FAILED"}]
  /\ convs \in Seq(Conversation)
  /\ stored \in [Messages -> Nat] /\ received \in [Messages -> Nat]
  /\ recorded \in [StatusEvents -> Nat] /\ mediaJobs \in [Messages -> Nat]
  /\ \A m \in Messages : stored[m] <= Len(convs)

HttpType ==
  /\ http \in [Nodes -> Jobs \cup {NoEvent}]
  /\ acked \subseteq Jobs /\ unqueued \subseteq Jobs

(* Inside a transaction. *)
Transacting(w) == pc[w] \in {"check", "insert", "media", "commit"}

WorkerType ==
  /\ pc \in [Workers -> {"idle", "item", "check", "insert", "media", "commit",
                         "catch", "threw", "complete"}]
  /\ cur \in [Workers -> Jobs \cup {NoEvent}]
  /\ pos \in [Workers -> Nat \ {0}] /\ conv \in [Workers -> Nat]
  /\ \A w \in Workers :
       /\ cur[w] = NoEvent <=> pc[w] = "idle"
       /\ pc[w] = "idle" => pos[w] = 1
       /\ conv[w] \in 0..Len(convs)
       /\ Transacting(w) =>
            pos[w] <= Len(Payload[cur[w]]) /\ Item(w) \in Messages \ UnknownNumber

(* Every variable keeps its type; a slot has an event while process runs,   *)
(* and an item while it is inside a transaction.                            *)
TypeOK == QueueType /\ DbType /\ HttpType /\ WorkerType /\ faults \in Nat

In(i) == {m \in Messages : stored[m] = i}

(* A conversation counts each of its customer's messages once, whatever is  *)
(* redelivered, retried or processed by two workers at a time, and every    *)
(* stored message has been announced once.                                  *)
CountedOnce ==
  /\ TypeOK
  /\ \A i \in DOMAIN convs :
       /\ convs[i].unread = Cardinality(In(i))
       /\ convs[i].version = 1 + convs[i].unread
       /\ \A m \in In(i) : Sender[m] = convs[i].customer
  /\ \A m \in Messages : received[m] = IF stored[m] = 0 THEN 0 ELSE 1

(* Nothing of the item is missing; the download of a medium is queued. *)
ItemIsThere(x) ==
  IF x \in StatusEvents THEN recorded[x] > 0
  ELSE x \in UnknownNumber \/ (stored[x] # 0 /\ (x \in HasMedia => mediaJobs[x] > 0))

(* The audit row agrees with the queue and with the data: an event whose job *)
(* is completed is PROCESSED, and one that is PROCESSED is complete, however *)
(* often runs of it threw half way, were retried or put back. (A job that    *)
(* was put back may have had two runs at a time: the late one may write      *)
(* FAILED over PROCESSED.)                                                   *)
ProcessedIsComplete ==
  \A e \in Jobs :
    /\ jobState[e] = "completed" /\ stalledCount[e] = 0 => row[e] = "PROCESSED"
    /\ row[e] = "PROCESSED" => \A k \in DOMAIN Payload[e] : ItemIsThere(Payload[e][k])

Owned(c) == {i \in DOMAIN convs : convs[i].customer = c}

(* findFirst-then-create may split a customer over several conversations,   *)
(* but only over as many as there are transactions that can race.           *)
SplitOnlyByRace ==
  \A c \in Customers : Cardinality(Owned(c)) <= Cardinality(Workers)

(* An event that was logged is in the queue, or its request is on the way   *)
(* there, or ended before it: redeliveries are rejected, so nobody else     *)
(* would queue it.                                                          *)
LoggedIsQueued ==
  \A e \in Jobs : row[e] # "none" =>
    \/ jobState[e] # "none" \/ e \in unqueued
    \/ \E n \in Nodes : http[n] = e

(* What Meta has had a 200 for is worked off, or is in the failed set; it   *)
(* may be the 200 of a redelivery, whose first request did not get to the   *)
(* queue.                                                                   *)
AckedEventsSettle ==
  \A e \in Jobs :
    e \in acked ~> jobState[e] \in {"completed", "failed"} \/ e \in unqueued

(* lastCustomerMsgAt, where the 24h window of a conversation starts, is set *)
(* back by a message that is stored late at most, never by one that comes   *)
(* again, in another event, in a retry or by an operator.                   *)
WindowSetBackOnlyByNew ==
  [][\A i \in DOMAIN convs : convs'[i].last < convs[i].last =>
       \E m \in Messages : stored[m] = 0 /\ stored'[m] = i]_vars

-----------------------------------------------------------------------------
(* Why they hold.                                                          *)

(* The unique key of a wamid: one transaction at a time, before the row.   *)
KeyIsUnique ==
  \A m \in Messages : \A w \in Workers : Holds(w, m) =>
    stored[m] = 0 /\ \A v \in Workers : Holds(v, m) => v = w

(* The conversation a transaction found is its customer's. *)
FoundIsOwn ==
  \A w \in Workers : Transacting(w) /\ conv[w] # 0 =>
    convs[conv[w]].customer = Sender[Item(w)]

(* Transactions that found no conversation of c, and will create one. *)
Racing(c) == {w \in Workers : Transacting(w) /\ conv[w] = 0 /\ Sender[Item(w)] = c}

(* Once a customer has a conversation nobody starts to race. *)
RacersAreFew ==
  \A c \in Customers : Cardinality(Owned(c)) + Cardinality(Racing(c)) <= Cardinality(Workers)

(* The download is queued before the row of the message can be seen. *)
MediaIsQueued ==
  /\ \A m \in HasMedia : stored[m] # 0 => mediaJobs[m] > 0
  /\ \A w \in Workers : pc[w] = "commit" /\ Item(w) \in HasMedia => mediaJobs[Item(w)] > 0

(* The items a run is through with. *)
RunIsThrough ==
  /\ \A w \in Workers : cur[w] # NoEvent =>
       \A k \in DOMAIN Payload[cur[w]] : k < pos[w] => ItemIsThere(Payload[cur[w]][k])
  /\ \A w \in Workers : pc[w] = "complete" /\ stalledCount[cur[w]] = 0 => row[cur[w]] = "PROCESSED"

(* A job that was never put back has one run, which holds its lock. *)
OneRun ==
  \A w \in Workers : cur[w] \in Jobs =>
    /\ jobState[cur[w]] # "none"
    /\ stalledCount[cur[w]] = 0 => jobState[cur[w]] = "active" /\ lock[cur[w]] = w

IngestionInv ==
  /\ CountedOnce /\ ProcessedIsComplete /\ SplitOnlyByRace /\ LoggedIsQueued
  /\ KeyIsUnique /\ FoundIsOwn /\ RacersAreFew /\ MediaIsQueued /\ RunIsThrough /\ OneRun

-----------------------------------------------------------------------------
(* The messages of an event that are for a tenant. *)
Delivers(e) == {Payload[e][k] : k \in DOMAIN Payload[e]} \cap (Messages \ UnknownNumber)

(* handleWebhook and process, with redeliveries, retries, runs side by side *)
(* and crashes, keep the inbox every tenant relies on.                      *)
Inbox == INSTANCE CustomerInbox
           WITH threads <- convs, home <- stored, announced <- received,
                reported <- {e \in Jobs : row[e] = "PROCESSED"},
                Contents <- [e \in Jobs |-> Delivers(e)],
                MaxThreads <- Cardinality(Workers)
ImplementsCustomerInbox == Inbox!Spec
=============================================================================
