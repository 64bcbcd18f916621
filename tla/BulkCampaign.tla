---------------------------- MODULE BulkCampaign ----------------------------
(***************************************************************************)
(* Campaigns: WhatsappCampaignService.createCampaign inserts the messages  *)
(* of a campaign in MongoDB and queues a job for each of them;             *)
(* BulkProcessor.process has the backend debit the client, sends, or       *)
(* declares the message dead and has the debit refunded;                   *)
(* CampaignGuardService.checkCompletion completes the campaign when no     *)
(* message of it is pending; the webhook processor writes Meta's delivery  *)
(* statuses over the messages.                                             *)
(*                                                                         *)
(* Recipient k of campaign c is the message <<c, k>>, and the id of its    *)
(* job: "Message-level idempotency".  BulkProcessor sets no concurrency,   *)
(* so a worker is a process.                                               *)
(***************************************************************************)
EXTENDS BullQueue, Sequences, FiniteSets

CONSTANTS
  Campaigns,   \* createCampaign requests, and the campaigns they create
  Name,        \* campaign -> its name
  Recipients,  \* recipients of every campaign
  DbChunk,     \* messages per insertMany (5000)
  QueueChunk,  \* jobs per addBulk (500)
  MaxWaiting,  \* WHATSAPP_BULK_QUEUE_MAX_WAITING
  Callbacks,   \* statuses Meta reports
  Faults,      \* kinds of failure that may happen
  MaxFaults,   \* bound: failures in one behaviour
  NoMessage

Messages == Campaigns \X (1..Recipients)

ASSUME CampaignAssumption ==
  /\ DOMAIN Name = Campaigns
  /\ {Recipients, DbChunk, QueueChunk} \subseteq Nat \ {0}
  /\ {MaxWaiting, MaxFaults} \subseteq Nat
  /\ Jobs = Messages /\ NoMessage \notin Messages
  /\ IsFiniteSet(Workers)
  /\ Callbacks \subseteq {"sent", "delivered", "read", "failed"}
  /\ Faults \subseteq {"crash", "stall", "db", "redis", "debit", "limit",
                       "meta", "timeout", "nowamid"}

VARIABLES
  \* MongoDB
  created,    \* campaigns in the order of their documents
  campaign,   \* status, "none" before the document exists
  status,     \* status of a message, "none" before it is inserted
  hasWamid,   \* providerMessageId is set
  \* createCampaign, per request
  at,         \* "none", then where the request is, or how it was answered
  index,      \* start of the insertMany chunk
  pushed,     \* recipients whose job has been added
  \* BulkProcessor.process, per worker
  pc, cur,
  \* WebhookProcessor: where its checks for completion are, per campaign
  hooks,
  \* the world: what the backend and Meta have done, per message
  debits, refunds, dispatched,
  faults,
  \* history
  losses,     \* how often a run of a message was lost, or an answer or an update of it
  missed,     \* campaigns a run of which left completion undone
  early,      \* campaigns counted as done before the last insertMany
  unsure      \* messages whose wamid was stored for a run that got no answer

mongoVars   == <<created, campaign, status, hasWamid>>
requestVars == <<at, index, pushed>>
workerVars  == <<pc, cur>>
worldVars   == <<debits, refunds, dispatched>>
histVars    == <<losses, missed, early, unsure>>
vars == <<mongoVars, requestVars, workerVars, hooks, worldVars, queueVars, faults, histVars>>

Fault(kind) ==
  /\ kind \in Faults /\ faults < MaxFaults
  /\ faults' = faults + 1

Lesser(a, b) == IF a < b THEN a ELSE b

(* recipients.slice(from, from + size) *)
Slice(c, from, size) == {c} \X (from + 1 .. Lesser(from + size, Recipients))

Init ==
  /\ QueueInit
  /\ created = <<>>
  /\ campaign = [c \in Campaigns |-> "none"]
  /\ status = [m \in Messages |-> "none"]
  /\ hasWamid = [m \in Messages |-> FALSE]
  /\ at = [c \in Campaigns |-> "none"]
  /\ index = [c \in Campaigns |-> 0]
  /\ pushed = [c \in Campaigns |-> 0]
  /\ pc = [w \in Workers |-> "idle"]
  /\ cur = [w \in Workers |-> NoMessage]
  /\ debits = [m \in Messages |-> 0]
  /\ refunds = [m \in Messages |-> 0]
  /\ dispatched = [m \in Messages |-> 0]
  /\ faults = 0
  /\ hooks = [c \in Campaigns |-> {}]
  /\ losses = [m \in Messages |-> 0] /\ missed = {} /\ early = {} /\ unsure = {}

-----------------------------------------------------------------------------
(* WhatsappCampaignService.createCampaign.                                 *)

Moved(c, label) == at' = [at EXCEPT ![c] = label]

(* findOne by name: the oldest campaign of that name. *)
Existing(c) == SelectSeq(created, LAMBDA d : Name[d] = Name[c])

AlreadyQueued(c) == Existing(c) # <<>> /\ campaign[Head(Existing(c))] = "queued"

CheckName(c) ==
  /\ at[c] = "none"
  /\ Moved(c, IF AlreadyQueued(c) THEN "rejected" ELSE "checked")
  /\ UNCHANGED <<mongoVars, index, pushed, workerVars, hooks, worldVars, queueVars, faults, histVars>>

(* No approved template, or no DLT id for it in India. *)
RejectTemplate(c) ==
  /\ at[c] = "checked"
  /\ Moved(c, "rejected")
  /\ UNCHANGED <<mongoVars, index, pushed, workerVars, hooks, worldVars, queueVars, faults, histVars>>

(* A draft is stored and answered; one to be sent is stored as queued. *)
CreateCampaign(c) ==
  /\ at[c] = "checked"
  /\ created' = Append(created, c)
  /\ \E draft \in BOOLEAN :
       /\ campaign' = [campaign EXCEPT ![c] = IF draft THEN "draft" ELSE "queued"]
       /\ Moved(c, IF draft THEN "drafted" ELSE "insert")
  /\ UNCHANGED <<status, hasWamid, index, pushed, workerVars, hooks, worldVars, queueVars, faults, histVars>>

InsertMessages(c) ==
  /\ at[c] = "insert"
  /\ status' = [m \in Messages |->
                  IF m \in Slice(c, index[c], DbChunk) THEN "queued" ELSE status[m]]
  /\ Moved(c, "push")
  /\ UNCHANGED <<created, campaign, hasWamid, index, pushed, workerVars, hooks, worldVars,
                 queueVars, faults, histVars>>

(* insertMany stops at the document that fails. *)
InsertFails(c) ==
  /\ at[c] = "insert"
  /\ Fault("db")
  /\ \E n \in 0..DbChunk :
       status' = [m \in Messages |->
                    IF m \in Slice(c, index[c], n) THEN "queued" ELSE status[m]]
  /\ Moved(c, "error")
  /\ UNCHANGED <<created, campaign, hasWamid, index, pushed, workerVars, hooks, worldVars, queueVars, histVars>>

(* addBulkMessages asks for the load before its first addBulk. *)
Overloaded(c) ==
  /\ pushed[c] = index[c]
  /\ Cardinality({j \in Jobs : jobState[j] \in {"waiting", "active"}}) > MaxWaiting

HardBlock(c) ==
  /\ at[c] = "push" /\ Overloaded(c)
  /\ Moved(c, "error")
  /\ UNCHANGED <<mongoVars, index, pushed, workerVars, hooks, worldVars, queueVars, faults, histVars>>

(* addBulk of one chunk. A job with a delay (scheduled, split or staggered) *)
(* starts out delayed; an id that exists is left alone.                     *)
AddBulk(S) ==
  /\ \E first \in {"waiting", "delayed"} :
       jobState' = [j \in Jobs |->
                      IF j \in S /\ jobState[j] = "none" THEN first ELSE jobState[j]]
  /\ UNCHANGED <<attemptsMade, stalledCount, lock>>

QueueSlice(c) ==
  Slice(c, pushed[c], Lesser(QueueChunk, index[c] + DbChunk - pushed[c]))

(* The next addBulk of this insertMany chunk, the next chunk, or the end. *)
Advance(c) ==
  LET next == pushed[c] + Cardinality(QueueSlice(c))
  IN /\ pushed' = [pushed EXCEPT ![c] = next]
     /\ IF next = Recipients THEN Moved(c, "done") /\ UNCHANGED index
        ELSE IF next < index[c] + DbChunk THEN UNCHANGED <<at, index>>
        ELSE Moved(c, "insert") /\ index' = [index EXCEPT ![c] = @ + DbChunk]

PushChunk(c) ==
  /\ at[c] = "push" /\ ~Overloaded(c)
  /\ AddBulk(QueueSlice(c))
  /\ Advance(c)
  /\ UNCHANGED <<mongoVars, workerVars, hooks, worldVars, faults, histVars>>

(* Mutant: the error of a chunk is logged and the next one is pushed. *)
PushFailsGoesOn(c) ==
  /\ at[c] = "push"
  /\ Fault("redis")
  /\ Advance(c)
  /\ UNCHANGED <<mongoVars, workerVars, hooks, worldVars, queueVars, histVars>>

(* addBulk throws, whether or not Redis has the jobs: the answer is 503. *)
PushFails(c) ==
  /\ at[c] = "push"
  /\ Fault("redis")
  /\ AddBulk(QueueSlice(c)) \/ UNCHANGED queueVars
  /\ Moved(c, "error")
  /\ UNCHANGED <<mongoVars, index, pushed, workerVars, hooks, worldVars, histVars>>

(* The process that serves the request dies. *)
RequestDies(c) ==
  /\ at[c] \in {"checked", "insert", "push"}
  /\ Fault("crash")
  /\ Moved(c, "error")
  /\ UNCHANGED <<mongoVars, index, pushed, workerVars, hooks, worldVars, queueVars, histVars>>

-----------------------------------------------------------------------------
(* CampaignGuardService.checkCompletion: a count, then an update.          *)

Campaign(m) == m[1]

(* Mutant: the count asks for statuses no message ever has. *)
PendingUnknown(c) == {m \in Messages : Campaign(m) = c /\ status[m] = "scheduled"}

(* 'scheduled', 'processing' and 'retry' are asked for too; nothing writes them. *)
Pending(c) == {m \in Messages : Campaign(m) = c /\ status[m] = "queued"}

CountedNone(c) ==
  /\ Pending(c) = {}
  /\ early' = early \cup
       {d \in {c} : \E m \in Messages : Campaign(m) = c /\ status[m] = "none"}
  /\ UNCHANGED faults

CountedSome(c) == Pending(c) # {} /\ UNCHANGED <<faults, early>>

SetCompleted(c) == campaign' = [campaign EXCEPT ![c] = "completed"]

(* Nothing is looked at again. *)
Completed(c) == SetCompleted(c) /\ UNCHANGED faults

(* An error of the count or of the update is logged, no more. The update may *)
(* have been made all the same.                                              *)
CountFails == Fault("db") /\ UNCHANGED early
UpdateFails(c) == Fault("db") /\ (SetCompleted(c) \/ UNCHANGED campaign)

-----------------------------------------------------------------------------
(* BulkProcessor.process.                                                  *)

Goto(w, label) == pc' = [pc EXCEPT ![w] = label]

TakeMessage(w) ==
  /\ pc[w] = "idle"
  /\ \E m \in Jobs : Take(w, m) /\ cur' = [cur EXCEPT ![w] = m]
  /\ Goto(w, "debit")
  /\ UNCHANGED <<mongoVars, requestVars, hooks, worldVars, faults, histVars>>

(* findById fails, or the template cache does: an error that is retried. A *)
(* template that is gone is UNRECOVERABLE.                                  *)
ReadFails(w) ==
  /\ pc[w] = "debit"
  /\ \/ (Fault("db") \/ Fault("redis")) /\ Goto(w, "threw")
     \/ Goto(w, "fatal") /\ UNCHANGED faults
  /\ UNCHANGED <<mongoVars, requestVars, hooks, cur, worldVars, queueVars, histVars>>

Count(counter, m, n) == [counter EXCEPT ![m] = @ + n]

(* Mutant: the client is debited after the message went out. *)
DebitLater(w) ==
  /\ pc[w] = "debit"
  /\ Goto(w, "limit")
  /\ UNCHANGED <<mongoVars, requestVars, hooks, cur, worldVars, queueVars, faults, histVars>>

(* The debit URL, then the loopback URL. The backend may have debited though *)
(* its answer was lost; 402 from either URL is UNRECOVERABLE.                *)
Debit(w) ==
  /\ pc[w] = "debit"
  /\ \/ debits' = Count(debits, cur[w], 1) /\ Goto(w, "limit") /\ UNCHANGED faults
     \/ UNCHANGED <<debits, faults>> /\ Goto(w, "fatal")
     \/ /\ Fault("debit")
        /\ \/ debits' = Count(debits, cur[w], 2) /\ Goto(w, "limit")
           \/ debits' = Count(debits, cur[w], 1) /\ Goto(w, "fatal")
           \/ \E n \in 0..2 : debits' = Count(debits, cur[w], n) /\ Goto(w, "threw")
  /\ UNCHANGED <<mongoVars, requestVars, hooks, cur, refunds, dispatched, queueVars, histVars>>

(* rateLimiter.consume lets the message pass. *)
Consume(w) ==
  /\ pc[w] = "limit"
  /\ Goto(w, "send")
  /\ UNCHANGED <<mongoVars, requestVars, hooks, cur, worldVars, queueVars, faults, histVars>>

(* A worker that is through with its job. *)
Release(w) ==
  /\ Goto(w, "idle")
  /\ cur' = [cur EXCEPT ![w] = NoMessage]

(* RateLimitError, after the debit: the job is moved back to the delayed    *)
(* set without an attempt counted. moveToDelayed is called without the      *)
(* worker's token and may be refused: then process throws.                  *)
Throttled(w) ==
  /\ pc[w] = "limit"
  /\ Fault("limit")
  /\ \/ Settle(w, cur[w], "delayed", attemptsMade[cur[w]]) /\ Release(w)
     \/ Goto(w, "threw") /\ UNCHANGED <<cur, queueVars>>
  /\ UNCHANGED <<mongoVars, requestVars, hooks, worldVars, histVars>>

(* sendTemplateMessage: accepted with a wamid or without one, accepted with *)
(* the answer lost, not sent for a passing reason, or refused for good (a   *)
(* RED rating, a revoked token, a Meta code that is not retriable).         *)
SendTemplate(w) ==
  /\ pc[w] = "send"
  /\ \/ /\ dispatched' = Count(dispatched, cur[w], 1)
        /\ \/ Goto(w, "save") /\ UNCHANGED <<faults, losses, missed>>
           \/ /\ Fault("nowamid") /\ Goto(w, "check")
              /\ missed' = missed \cup {Campaign(cur[w])} /\ UNCHANGED losses
           \/ /\ Fault("timeout") /\ Goto(w, "threw")
              /\ losses' = Count(losses, cur[w], 1) /\ UNCHANGED missed
     \/ Goto(w, "threw") /\ Fault("meta") /\ UNCHANGED <<dispatched, losses, missed>>
     \/ Goto(w, "fatal") /\ UNCHANGED <<dispatched, faults, losses, missed>>
  /\ UNCHANGED <<mongoVars, requestVars, hooks, cur, debits, refunds, queueVars, early, unsure>>

(* An update that fails is an error like any other: the job is retried,    *)
(* also when MongoDB has made it and only the answer was lost.              *)
SaveSent(w) ==
  LET stored == /\ status' = [status EXCEPT ![cur[w]] = "sent"]
                /\ hasWamid' = [hasWamid EXCEPT ![cur[w]] = TRUE]
  IN /\ pc[w] = "save"
     /\ \/ /\ stored /\ unsure' = unsure \ {cur[w]}
           /\ Goto(w, "check")
           /\ UNCHANGED <<faults, losses>>
        \/ /\ Fault("db") /\ Goto(w, "threw")
           /\ losses' = Count(losses, cur[w], 1)
           /\ \/ stored /\ unsure' = unsure \cup {cur[w]}
              \/ UNCHANGED <<status, hasWamid, unsure>>
     /\ UNCHANGED <<created, campaign, requestVars, hooks, cur, worldVars, queueVars, missed, early>>

CountAtEnd(w) ==
  /\ pc[w] = "check"
  /\ \/ CountedNone(Campaign(cur[w])) /\ Goto(w, "update") /\ UNCHANGED missed
     \/ CountedSome(Campaign(cur[w])) /\ Goto(w, "complete") /\ UNCHANGED missed
     \/ CountFails /\ Goto(w, "complete") /\ missed' = missed \cup {Campaign(cur[w])}
  /\ UNCHANGED <<mongoVars, requestVars, hooks, cur, worldVars, queueVars, losses, unsure>>

(* Mutant: an error of the backend's notification is not caught. *)
FinishCheckRethrows(w) ==
  /\ pc[w] = "update"
  /\ Completed(Campaign(cur[w])) /\ UNCHANGED missed
  /\ Goto(w, "complete") \/ Goto(w, "threw")
  /\ UNCHANGED <<created, status, hasWamid, requestVars, hooks, cur, worldVars, queueVars,
                 losses, early, unsure>>

FinishCheck(w) ==
  /\ pc[w] = "update"
  /\ \/ Completed(Campaign(cur[w])) /\ UNCHANGED missed
     \/ UpdateFails(Campaign(cur[w])) /\ missed' = missed \cup {Campaign(cur[w])}
  /\ Goto(w, "complete")
  /\ UNCHANGED <<created, status, hasWamid, requestVars, hooks, cur, worldVars, queueVars,
                 losses, early, unsure>>

(* The failure trace and the status 'dead'. Either update may fail, the     *)
(* second also after it was made.                                           *)
MarkDead(w) ==
  /\ pc[w] = "fatal"
  /\ \/ /\ status' = [status EXCEPT ![cur[w]] = "dead"]
        /\ \/ Goto(w, "refund") /\ UNCHANGED faults
           \/ Goto(w, "threw") /\ Fault("db")
     \/ Fault("db") /\ Goto(w, "threw") /\ UNCHANGED status
  /\ UNCHANGED <<created, campaign, hasWamid, requestVars, hooks, cur, worldVars, queueVars, histVars>>

(* Mutant: the job is retried after the refund. *)
RefundThrows(w) ==
  /\ pc[w] = "refund"
  /\ refunds' = Count(refunds, cur[w], 1)
  /\ Goto(w, "threw")
  /\ UNCHANGED <<mongoVars, requestVars, hooks, cur, debits, dispatched, queueVars, faults, histVars>>

(* Both URLs again; a refund that fails is logged. *)
Refund(w) ==
  /\ pc[w] = "refund"
  /\ \/ refunds' = Count(refunds, cur[w], 1) /\ UNCHANGED faults
     \/ Fault("debit") /\ \E n \in {0, 2} : refunds' = Count(refunds, cur[w], n)
  /\ Goto(w, "check")
  /\ UNCHANGED <<mongoVars, requestVars, hooks, cur, debits, dispatched, queueVars, histVars>>

-----------------------------------------------------------------------------
(* WebhookProcessor.handleStatusUpdates for a message of MongoDB: the       *)
(* status is written over whatever is there, 'failed' as 'dead', then the   *)
(* campaign is checked; an update that fails leaves out the check.  Checks  *)
(* of one campaign that are at the same call are one here: either may come  *)
(* again with another callback.                                             *)
StatusCallback(m) ==
  LET written == \E s \in Callbacks :
                   status' = [status EXCEPT ![m] = IF s = "failed" THEN "dead" ELSE s]
  IN /\ hasWamid[m]
     /\ \/ /\ written /\ UNCHANGED faults
           /\ hooks' = [hooks EXCEPT ![Campaign(m)] = @ \cup {"count"}]
        \/ /\ Fault("db") /\ (written \/ UNCHANGED status)
           /\ UNCHANGED hooks
     /\ UNCHANGED <<created, campaign, hasWamid, requestVars, workerVars, worldVars, queueVars, histVars>>

HookCounts(c) ==
  /\ "count" \in hooks[c]
  /\ \/ CountedNone(c) /\ hooks' = [hooks EXCEPT ![c] = (@ \ {"count"}) \cup {"update"}]
     \/ (CountedSome(c) \/ CountFails) /\ hooks' = [hooks EXCEPT ![c] = @ \ {"count"}]
  /\ UNCHANGED <<mongoVars, requestVars, workerVars, worldVars, queueVars, losses, missed, unsure>>

HookUpdates(c) ==
  /\ "update" \in hooks[c]
  /\ Completed(c) \/ UpdateFails(c)
  /\ hooks' = [hooks EXCEPT ![c] = @ \ {"update"}]
  /\ UNCHANGED <<created, status, hasWamid, requestVars, workerVars, worldVars, queueVars, histVars>>

-----------------------------------------------------------------------------
(* BullMQ, and processes that die.                                         *)

JobCompleted(w) ==
  /\ pc[w] = "complete"
  /\ Complete(w, cur[w])
  /\ Release(w)
  /\ UNCHANGED <<mongoVars, requestVars, hooks, worldVars, faults, histVars>>

JobThrew(w) ==
  /\ pc[w] = "threw"
  /\ Threw(w, cur[w])
  /\ Release(w)
  /\ UNCHANGED <<mongoVars, requestVars, hooks, worldVars, faults, histVars>>

DelayOver(m) ==
  BackoffOver(m) /\ UNCHANGED <<mongoVars, requestVars, workerVars, hooks, worldVars, faults, histVars>>

RecoverOrphan(m) ==
  /\ lock[m] = NoWorker /\ PutBack(m)
  /\ UNCHANGED <<mongoVars, requestVars, workerVars, hooks, worldVars, faults, histVars>>

LockExpires(m) ==
  /\ lock[m] # NoWorker /\ Fault("stall") /\ PutBack(m)
  /\ losses' = Count(losses, m, 1)
  /\ UNCHANGED <<mongoVars, requestVars, workerVars, hooks, worldVars, missed, early, unsure>>

Crash(w) ==
  /\ pc[w] # "idle" /\ Fault("crash")
  /\ losses' = Count(losses, cur[w], 1)
  /\ Release(w)
  /\ DropLocks({w})
  /\ UNCHANGED <<mongoVars, requestVars, hooks, worldVars, missed, early, unsure>>

HookStep(c) == HookCounts(c) \/ HookUpdates(c)

CreateStep(c) ==
  \/ InsertMessages(c) \/ InsertFails(c) \/ HardBlock(c) \/ PushChunk(c) \/ PushFails(c)

WorkerStep(w) ==
  \/ ReadFails(w) \/ Debit(w) \/ Consume(w) \/ Throttled(w) \/ SendTemplate(w)
  \/ SaveSent(w) \/ CountAtEnd(w) \/ FinishCheck(w) \/ MarkDead(w) \/ Refund(w)
  \/ JobCompleted(w) \/ JobThrew(w)

Next ==
  \/ \E c \in Campaigns :
       \/ CheckName(c) \/ RejectTemplate(c) \/ CreateCampaign(c) \/ CreateStep(c) \/ RequestDies(c)
       \/ HookStep(c)
  \/ \E w \in Workers : TakeMessage(w) \/ WorkerStep(w) \/ Crash(w)
  \/ \E m \in Messages :
       StatusCallback(m) \/ DelayOver(m) \/ RecoverOrphan(m) \/ LockExpires(m)

Spec == Init /\ [][Next]_vars

(* BullMQ keeps its workers, its delayed set and its stalled check going.   *)
(* Nothing forces a request or a callback of Meta.                          *)
Fairness ==
  /\ \A w \in Workers : WF_vars(TakeMessage(w) \/ WorkerStep(w))
  /\ \A m \in Messages : WF_vars(DelayOver(m) \/ RecoverOrphan(m))

FairSpec == Spec /\ Fairness

-----------------------------------------------------------------------------
MongoType ==
  /\ created \in Seq(Campaigns)
  /\ campaign \in [Campaigns -> {"none", "draft", "queued", "completed"}]
  /\ status \in [Messages -> {"none", "queued", "sent", "delivered", "read", "dead"}]
  /\ hasWamid \in [Messages -> BOOLEAN]

(* The chunk a request is at has recipients, and of it some have no job yet. *)
RequestType ==
  /\ at \in [Campaigns -> {"none", "checked", "insert", "push", "done", "drafted",
                           "rejected", "error"}]
  /\ index \in [Campaigns -> Nat] /\ pushed \in [Campaigns -> 0..Recipients]
  /\ \A c \in Campaigns :
       /\ at[c] \in {"none", "checked"} => index[c] = 0 /\ pushed[c] = 0
       /\ at[c] = "insert" => index[c] = pushed[c] /\ pushed[c] < Recipients
       /\ at[c] = "push" => /\ index[c] <= pushed[c]
                           /\ pushed[c] < Lesser(index[c] + DbChunk, Recipients)

WorkerType ==
  /\ pc \in [Workers -> {"idle", "debit", "limit", "send", "save", "check", "update",
                         "fatal", "refund", "threw", "complete"}]
  /\ cur \in [Workers -> Messages \cup {NoMessage}]
  /\ \A w \in Workers : cur[w] = NoMessage <=> pc[w] = "idle"

WorldType ==
  /\ {debits, refunds, dispatched} \subseteq [Messages -> Nat]
  /\ faults \in Nat

HookType == hooks \in [Campaigns -> SUBSET {"count", "update"}]

HistType ==
  /\ losses \in [Messages -> Nat]
  /\ missed \subseteq Campaigns /\ early \subseteq Campaigns /\ unsure \subseteq Messages

(* Every variable keeps its type; a worker has a message while process runs. *)
TypeOK == QueueType /\ MongoType /\ RequestType /\ WorkerType /\ HookType /\ WorldType /\ HistType

Sending(m) == {w \in Workers : cur[w] = m /\ pc[w] \in {"limit", "send"}}

(* Whatever fails, every message that goes out has a debit of its own, also *)
(* the ones about to be sent by workers that hold the same job.             *)
SendsArePaid ==
  /\ TypeOK
  /\ \A m \in Messages : dispatched[m] + Cardinality(Sending(m)) <= debits[m]

(* Done are the messages of c, those of the first insertMany at least; all  *)
(* of them, unless a check counted c as done before the last insertMany.    *)
DoneAsCounted(c) ==
  \A k \in 1..Recipients : (c \in early => k <= DbChunk) =>
    status[<<c, k>>] \in {"sent", "delivered", "read", "dead"}

(* A completed campaign has no message left to send: not by the last two    *)
(* workers, a rerun, a retry or a callback of Meta, nor by an update that    *)
(* comes long after its count.  Only messages inserted after a count that    *)
(* found none, in a later insertMany, may be left.                           *)
CompletedMeansDone == \A c \in Campaigns : campaign[c] = "completed" => DoneAsCounted(c)

(* A message that was refunded, or whose wamid a run knows to be stored, is *)
(* closed: it is neither debited nor sent again, unless the stalled check   *)
(* has put its job back.  (process never looks at the status of its         *)
(* message: a job that is put back, or whose update was made and not        *)
(* answered, debits and sends once more.)                                   *)
Closed(m) == refunds[m] > 0 \/ (hasWamid[m] /\ m \notin unsure)

ClosedStaysClosed ==
  [][\A m \in Messages : Closed(m) /\ stalledCount[m] = 0 =>
       debits'[m] = debits[m] /\ dispatched'[m] = dispatched[m]]_vars

(* Whoever gets a message again gets it for an answer, an update or a run   *)
(* of it that was lost, once for each: retries after a throttled run, a     *)
(* failed debit or a passing error of Meta do not send again, nor do two    *)
(* runs of a job that was put back under one of them.                       *)
SentOnce == \A m \in Messages : dispatched[m] <= 1 + losses[m]

(* A campaign that was answered with success completes: through both levels *)
(* of chunking and whatever the queue refuses, every recipient has a job.   *)
(* It does not if a job of it is in the failed set, a message went out      *)
(* without a wamid, or a check for completion failed.                       *)
CampaignCompletes ==
  \A c \in Campaigns :
    at[c] = "done" ~>
      \/ campaign[c] = "completed" \/ c \in missed
      \/ \E m \in Messages : Campaign(m) = c /\ jobState[m] = "failed"

-----------------------------------------------------------------------------
(* Why they hold.                                                          *)

(* Inserted and not inserted, as far as createCampaign has come; only what *)
(* has a document has a job.                                                *)
InsertedFirst ==
  /\ \A c \in Campaigns : \A k \in 1..Recipients :
       /\ at[c] \in {"none", "checked"} => status[<<c, k>>] = "none"
       /\ at[c] = "insert" => (status[<<c, k>>] = "none" <=> k > index[c])
       /\ at[c] = "push" => (status[<<c, k>>] = "none" <=> k > index[c] + DbChunk)
  /\ \A m \in Messages :
       jobState[m] # "none" \/ hasWamid[m] => status[m] # "none"
  /\ \A w \in Workers : cur[w] \in Messages => jobState[cur[w]] # "none"

(* What a check has counted still holds when it comes to its update: by    *)
(* then there is a job, hence the first chunk is inserted.                  *)
FirstChunk(c) == \A k \in 1..Recipients : k <= DbChunk => status[<<c, k>>] # "none"

CountsHold ==
  /\ \A m \in Messages : /\ jobState[m] # "none" => FirstChunk(Campaign(m))
                         /\ hasWamid[m] => jobState[m] # "none"
  /\ \A c \in Campaigns : /\ hooks[c] # {} => FirstChunk(c)
                          /\ "update" \in hooks[c] => DoneAsCounted(c)
  /\ \A w \in Workers : pc[w] = "update" => DoneAsCounted(Campaign(cur[w]))

(* A lock is held by a run of its job. *)
LocksAreHeld ==
  \A m \in Messages : lock[m] \in Workers => cur[lock[m]] = m /\ jobState[m] = "active"

(* A job that was never put back has one run; the run may be cut off from a *)
(* job that failed for having stalled.                                      *)
OneRun ==
  \A m \in Messages : stalledCount[m] = 0 => \A w \in Workers : cur[w] = m =>
    \/ jobState[m] = "active" /\ lock[m] = w
    \/ jobState[m] = "failed" /\ \A v \in Workers : cur[v] = m => v = w

(* The job of m will not be taken again, and a run of it is at one of labels. *)
Over(m, labels) ==
  /\ jobState[m] \in {"active", "completed", "failed"}
  /\ \A w \in Workers : cur[w] = m => pc[w] \in labels

ClosedIsOver ==
  \A m \in Messages : Closed(m) /\ stalledCount[m] = 0 => Over(m, {"check", "update", "complete"})

(* The runs of m that may still send or refund, or hand the job to another. *)
Busy(m) ==
  {w \in Workers : /\ cur[w] = m
                   /\ \/ pc[w] \in {"debit", "limit", "send", "fatal", "refund"}
                      \/ pc[w] = "threw" /\ lock[m] = w}

(* The job of m will be run. *)
Awaited(m) ==
  \/ jobState[m] \in {"none", "waiting", "delayed"}
  \/ jobState[m] = "active" /\ lock[m] = NoWorker

(* Each way to yet another copy, or to a refund, which the backend may make  *)
(* twice, is the first one or has a loss of its own.                         *)
EndsAreCounted ==
  \A m \in Messages :
    2 * (dispatched[m] + Cardinality(Busy(m)) + (IF Awaited(m) THEN 1 ELSE 0)) + refunds[m]
      <= 2 * (1 + losses[m])

CampaignInv ==
  /\ SendsArePaid /\ CompletedMeansDone /\ SentOnce
  /\ InsertedFirst /\ CountsHold /\ LocksAreHeld /\ OneRun /\ ClosedIsOver /\ EndsAreCounted

-----------------------------------------------------------------------------
(* BulkProcessor.process, with retries, throttling, put-back jobs, crashes  *)
(* and lost answers, keeps the ledger of every message.                     *)
Ledger == INSTANCE MessageLedger WITH copies <- dispatched
ImplementsLedger == Ledger!Spec
=============================================================================
