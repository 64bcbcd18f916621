# TLA+ models of the WhatsApp messaging service

This directory holds TLA+ modules for the parts of the service whose
correctness depends on the order of steps of several processes, on queues that
repeat work, and on failures half way: the outbound message path, webhook
ingestion, bulk campaigns, media downloads, account onboarding, message templates and
their cache, and the workers and webhooks of the first version. TLC checks small
instances; TLAPS proves the safety properties of every component but one for every
instance (`TemplatePayload` stays with TLC, and so does liveness).
`PROJECT.json` lists the runs, which source lines every definition stands for, the
hazards, the findings and the theorems.

    tlc -config OutboundSafety.cfg MCOutbound.tla      # a run
    tlapm OutboundPipeline_proofs.tla                  # the proofs of a module

## The system

A NestJS application, run as one or more identical processes, that sends and
receives WhatsApp messages through Meta's Cloud API. It has two halves that share
a process: `src/src/modules` (PostgreSQL through Prisma, an outbox, queues
`webhooks`, `outbound`, `media`) and the older `src/src/whatsapp` (MongoDB,
queues `whatsapp-bulk`, `whatsapp-transactional`, template and refund webhooks),
called the first version below.

| Component | State it keeps | Operations | Talks to |
|---|---|---|---|
| Messages controller | `message`, `outboxEvent` rows | sendMessage, sendTemplate, sendMedia | outbox, by rows of the same transaction |
| Outbox service | row state PENDING, PUBLISHED, FAILED; `isProcessing` per process | recordEvent, publishPending (cron, every process) | in-process event bus |
| Outbound listener | none | `message.*` event to job | queue `outbound`, job id = message id |
| Outbound processor | `message.wamid`, MessageStatusEvent | process (5 slots per process) | Meta, credentials bridge |
| WhatsApp controller | `webhookEvent` row, unique hash | handleWebhook | queue `webhooks`, job id = hash |
| Webhook processor | messages, conversations, status events, processingState | process, handleInboundMessages, handleStatusUpdates | queue `media`, outbox, MongoDB messages |
| Media processor | `mediaStatus`, files | process | Meta, file storage, outbox |
| Management | none | retryJob, queue counters | the three queues |
| Conversations | read models, state table | listMessages, sync, getNextState | |
| Realtime gateway | socket rooms | fan-out of bus events | clients |
| Campaign service | MongoDB campaign and messages | createCampaign | bulk queue |
| Queue service | none | addBulkMessages, addTransactionalMessage, backpressure | BullMQ |
| Bulk processor | message status, providerMessageId | process | backend debit/refund, rate limiter, Meta, guard |
| Campaign guard | campaign status | checkCompletion | backend |
| Transactional processor | none | process | Meta |
| Template service | MongoDB templates with status, provider id, lastEventTs | create, update, delete, sync with Meta | Meta, template cache |
| Template webhook processor | ProcessedEvent, templates | process, replay of failed jobs | its own queue |
| Template cache | Redis entries (TTL 300 s), in-flight map per process | getTemplate, invalidate | MongoDB |
| Onboarding service | account state with version | signup, phone number, OTP, register, webhook, nightly refresh | Meta through the executor |
| Token manager, executor | tokens in memory and Redis, Redis lock | getValidToken, execute with retries | Meta |
| Webhook service of the first version | message status, refund jobs | handleWebhook, processStatus, syncToBackend | backend, refund queue |
| Refund processor | none | process | backend |
| Message worker | status, processingAt, retryCount, MessageLog | lockMessages, processMessage, requeueStuckMessages | Meta |
| Campaign worker | campaign status | processCampaign | |
| Reports, inbox, profile, flows, automation | none | queries and pass-through calls | |

Two parts are not reachable in the application as it is wired: `whatsapp.module.ts`
imports the file of `WhatsappWebhookModule` (line 33) but does not list it in its
`imports`, so its controllers and queues do not run; and no module provides
`MessageWorker` and `CampaignWorker`. They are modelled as the code they are.

What is hard here:

- *Several processes run everything.* Each has its own cron publisher and its own
  slots on each queue; only row state, job ids, BullMQ locks and unique keys
  separate them.
- *At-least-once everywhere.* Meta redelivers webhooks, the outbox re-emits rows,
  BullMQ retries, puts stalled jobs back and lets operators retry.
- *Effects that cannot be rolled back.* A send or a debit happens, and then its
  record is written; a crash, an error or a lost answer separates the two. The record, too, may
  be made and not answered, and the code then goes on as if it had failed. A media
  job is queued inside a database transaction.
- *Events that race their cause.* A delivery status may be handled before the id it
  refers to has been stored; a chunk of a campaign may be finished before the next
  one is inserted; messages are processed out of order; Meta decides about a template
  while a request is still writing it.
- *Read, then write.* Account states, template rows, batches of messages, counts of
  unfinished messages and cached rows are read, other calls follow, and then they are written, with a version, an
  event time or nothing at all to notice that they have changed.

What makes each component correct:

- *Outbound*: an accepted message is not forgotten, is sent again only if the
  record of a send was lost, keeps its wamid, and is not reported as failed after a
  recorded send.
- *Webhook ingestion*: an event is processed once in effect although it is delivered
  and run many times; PROCESSED means nothing is missing; what was acknowledged is
  worked off.
- *Bulk*: nothing goes out undebited, nothing happens to a message after its
  refund, a campaign completes when all that was counted of it is done.
- *Media*: AVAILABLE means the file is there and has been announced; the row shows
  how the download ended.
- *Onboarding*: the account moves along the transition map under concurrent
  requests and webhooks and never claims what Meta has not done; one refresh of a
  token at a time; every request is answered.
- *Templates*: what Meta, the database and the cache say agrees in the end, and a
  message fits the template Meta has.
- *Statuses and refunds*: a status never goes back, a failed message is refunded, and
  once; the backend hears of every change.
- *Message worker*: a message is sent once unless a record was lost or two loops raced
  for it, is given up only unsent and logged once, and a campaign completes only when nothing
  is left of what was counted.

## Modules

| Module | Models | Extends / uses |
|---|---|---|
| `RecordedDispatch` | abstract: what the outbound path promises about a message | |
| `CustomerInbox` | abstract: what a tenant may rely on in its inbox | |
| `MessageLedger` | abstract: what a campaign promises about one message and the money for it | |
| `OutboundPipeline` | controller, outbox, listener, queue, processor, status callbacks | instantiates `RecordedDispatch` |
| `BullQueue` | a BullMQ queue: add, take, settle, backoff, stalled check, retry | |
| `WebhookIngestion` | controller, `webhooks` queue, processor | extends `BullQueue`, instantiates `CustomerInbox` |
| `BulkCampaign` | campaign and queue service, bulk queue, processor, guard, callbacks | extends `BullQueue`, instantiates `MessageLedger` |
| `MediaDownload` | the transaction that queues a download, `media` queue, processor, local storage | extends `BullQueue` |
| `Onboarding` | onboarding service, state machine, token manager, executor | |
| `Templates` | template service, template webhook processor, template cache | extends `BullQueue` |
| `TemplatePayload` | template submitted to Meta against parameters of a message | |
| `StatusWebhook` | webhook service and refund processor of the first version | extends `BullQueue` |
| `MessageWorker` | polling workers of the first version | |
| `OutboundPipeline_proofs`, `WebhookIngestion_proofs`, `BulkCampaign_proofs`, `MediaDownload_proofs`, `Onboarding_proofs`, `Templates_proofs`, `StatusWebhook_proofs`, `MessageWorker_proofs` | theorems about the module of that name | extends it |
| `MCOutbound`, `MCWebhook`, `MCBulk`, `MCMedia`, `MCOnboarding`, `MCTemplates`, `MCPayload`, `MCStatus`, `MCMessageWorker` | instances for TLC | |

In all of them a step is one call to a database, to Redis or to Meta with the
code up to the next one; everything else may happen between two steps. `pc[w]`
names the call a worker slot is about to make. Failures are steps of their own:
`Fault(kind)` allows a kind only if the instance lists it and the behaviour has
had fewer than `MaxFaults`. Ids, payloads and times are model values or small
numbers. BullMQ, Meta, the backend and process exits are modelled from the way
the code uses them and are marked external in the map. Variables under *history* in a
module record what a behaviour has met (an expired lock, a lost record, a named race);
no step of the code depends on them, and the properties that excuse something say by them what.

### OutboundPipeline

`AcceptMessage` is the transaction of each of the three POST handlers.
`ReadPending`, `EmitEvent`, `MarkPublished`, `MarkFailed` and their failures are
`publishPending`, one per process (`isProcessing`), reading rows by age without
locking them. `EmitEvent` contains the listener, which adds a job for *every*
`message.*` event and swallows errors of the queue. Inbound `message.received`
and `message.media_updated` rows become jobs as well, with the id of a message
that has a wamid; they behave like the status rows that the module contains.
`ReadState` to `RecordFailed` are the processor: account and wamid are read
together, then the send (`MetaAccepts`, `ResponseLost`, `TransientError`,
`PermanentError`), then the wamid, then the SENT event. `Throttled` stands for
the rate limiter and for reads that throw; both end the run the same way.
`sendMedia` also appends to a log file at a fixed path outside the repository
and answers with an error where that path does not exist; the model has the
request that gets past it.
A completed job is removed (`removeOnComplete`), so its id can be added again;
this is why the wamid check matters. `wamid[m] = k` names the k-th send that
Meta accepted; `unrecorded` is history: sends whose run died or failed before
the id was stored.

### WebhookIngestion

`LogEvent` and `EnqueueEvent` are the two halves of `handleWebhook`;
`RejectDuplicate` its P2002 branch. A process is given one request at a time,
which loses nothing: a request holds no state other than the event it has
logged. `ReadFails` is a lookup that throws: the first one of a run, of the event itself, stands
outside the try, so that no FAILED row is written for it. `FindConversation` to `CommitMessage` are one transaction per customer
message under READ COMMITTED: own writes appear at the commit, and the unique
wamid makes an insert wait for the transaction that holds the key (`Holds`).
`QueueMedia` happens at once, commit or not. Conversation counters are
increments of the committed row. `conversation.state` is left out:
CUSTOMER_MESSAGE_RECEIVED is the only event the code fires.
The module implements `CustomerInbox` with the conversations as threads, the conversation of a
stored message as its home, the rows PROCESSED as the events reported, and as many threads of
one customer as there are slots. A handler that fails after another run of its event has
reported it takes the report back (`Withdraw`); this is what the code does.

### BulkCampaign

`CheckName` to `PushFails` are `createCampaign` with its loop over insertMany
chunks (5000, `DbChunk`) and, inside `addBulkMessages`, over addBulk chunks (500,
`QueueChunk`). Split campaigns run the same loop with other delays, which the
model leaves open (`AddBulk` lets a job start delayed). The load is read just
before the first addBulk of a chunk and belongs to that step. `Debit` to `Refund`
are the processor: debit *before* the rate limiter, send, status, completion
check; or dead, refund, completion check. Debit and refund go to two URLs of
the same backend and are counted as often as the backend may have executed
them; whether it treats a message id as a key is not known from this repository.
`Throttled` has both outcomes of `moveToDelayed` called without the worker's
token. An update of MongoDB may be made although its answer is lost (`SaveSent`, `MarkDead`,
`UpdateFails`, `StatusCallback`): the processor takes it for a failure.
`checkCompletion` is two calls, a count and an update, and anything may happen between them:
`CountAtEnd` and `FinishCheck` in a worker, `HookCounts` and `HookUpdates` for a callback.
`StatusCallback` is the MongoDB branch of `handleStatusUpdates`; `hooks` says at which call the checks
are that callbacks have started, of which any number may be under way.
A request and a worker of the same process die separately here, which allows
more than a crash of both.
`losses` is history: how often a run of a message was lost with its worker or its lock, or an answer
of Meta or the update after it went missing. `early` names the campaigns of which a count found
nothing pending before the last insertMany, `unsure` the messages whose wamid is stored
for a run that does not know. The module implements `MessageLedger` with the
sends Meta has taken as copies and these losses.

### MediaDownload

`InsertAndQueue`, `CommitMessage` and `RollBack` are what matters here of the transaction
of `handleInboundMessages`: the job is in the queue while the row is not yet visible.
`TakeDownload` to `MakeAvailable` are `process`, call by call; an update of a row that is
not visible throws, and a row that is never committed makes every attempt fail.
`LocalStorageService` opens the file, which truncates it, and then writes; a run whose
lock has expired goes on next to its successor, so the file has an `opener`.
`CatchEnds` and `MarkFailed` are the catch block, with the code's own rule of which
failure is the last. The S3 storage of the same interface is not modelled, and Meta's two
answers are a success or a failure, permanent or not.

### Onboarding

One account, its MongoDB row with a version (`__v`), and requests in slots of several
processes. Every handler is a path through `pc`: read the account, check the idempotency
key, call Meta through the executor, write with the version that was read.
`AllowedTransitions`, `Target` and `WebhookTargets` are the tables of the code. `done` is
what Meta has done for the account: the states claim nothing else (`ClaimsAreDone`). The
signup and the nightly refresh write the status without the version and without the map; the
history `overwritten` says whose copy this has outdated.
The executor's token comes from `TokenManagerServiceImpl`: memory, Redis, then a Redis
lock around a refresh. The executor passes a WABA id where `refreshAndStoreToken` expects
a document id (`findById`, `token-manager.service.ts:130`), which throws; so
a call succeeds only with a token another program has put into Redis under
the WABA id (`BackendCachesToken`, external). The lock is released by GET and DEL, two
steps, and may expire under its holder (`LockExpires`).
`getOrSetIdempotentResponse` never hits, because a handler without a result stores an empty
string; `CheckIdempotency` and `StoreIdempotency` have their failures only.
Audit rows, pushes to the backend and `monitorPhoneQuality` are left out; none
of them is read again here.

### Templates

Requests (`CreateTemplate` to `ClearCache`) in slots, with what they have read in `mem`;
Meta's templates by name with status and content; its decisions as jobs of the
template queue; and readers that fill the cache. A row is found by id or by its unique
name. `Decide` is Meta's event together with the part of the webhook service that queues
it, and may fail to; `TakeEvent`, `RecordEvent` and `ApplyEvent` are the processor: the event
is recorded as processed *before* it is applied, so a failure between the two makes the
retry and the operator's replay skip it. A stale event's upsert inserts and fails on the
unique name; its retry is acknowledged as a duplicate.
`lastEventTs` and times are numbers. `behind` names the cached rows a write has outdated
without clearing them: updateTemplate, deleteTemplate and the processor do not clear the cache.
`astray` names templates that a step has led away from Meta's status: a request that writes
another status, or a time that an event of later time would still overrule (`Marked`, `Late`); an
edit that puts the template under review again (`Reviewed`); an event that ends without
having been applied (`Forgotten`). A write that leaves Meta's status in the row and no
later event to come takes the mark away.
The single flight of the cache is per process, so one reader is one process. Not
modelled: the fallback of the cache to PostgreSQL, `TemplateSyncService` of
`src/src/modules` (one upsert per template), the flag `isActive`, and the
background branch of the synchronisation, which nothing calls.

### TemplatePayload

Two pure functions of the code as operators: `Payload` is `buildMetaTemplatePayload`, what
Meta is asked to accept; `Parts` is `buildComponents`, what a message carries. Texts are
sequences of placeholders, `{{1}}` or otherwise in double braces, because that is
what the two functions tell apart. The reference definition, `Wanted`, is what Meta
demands of a message for a template, and `Given` what the message brings. The transitions (submit, pull back by a sync, send) only
choose which components the second function sees. The url of a button goes to Meta as it is, and only its
`{{digits}}` get a parameter. Templates of category AUTHENTICATION, whose body and footer are
options without a text, are left out.

### StatusWebhook

`Deliver` is the controller, which does not await `handleWebhook` and answers 200 before any
item is looked at. A request walks through the items of its webhook: a status is read,
compared by weight and written (`Skip`, `Proceed`, `QueueRefund`, `WriteStatus`), and the
backend is told by a call that outlives the request (`syncs`, with retries). A throw ends
the webhook (`Abandon`); a status update or a refund job that was made without an answer does so
as well, and nothing is synced then (`WriteFails`, `QueueRefundFails`). `TakeRefund` and `PostRefund` are `RefundProcessor`, on a
queue whose completed jobs are removed. Statuses that arrive before the wamid is
stored are dropped (`NotMapped`); `StoreWamid` is the sender.

### MessageWorker

`InsertMessages` is `createCampaign`, which stores the campaign as queued and due and its messages
afterwards, chunk by chunk; it may stop between two chunks. Loops in one process: `FindMessages`, `LockBatch`, `LoadBatch` are the three statements of
`lockMessages`, then the messages of the batch run side by side (`Promise.all`).
`failMessage` is called in the try and again in the catch: an update of it may be made and not answered,
and the MessageLog of a dead message is always rejected at first (`LogRejected`), because the
schema does not know the provider's errorType. `RequeueStuck` runs in every turn of a loop. Time is two flags of a row, `due` and `old`.
`CountUnfinished` and `UpdateCampaign` are the campaign worker; `counted` is history, the messages
there were when it found none unfinished. Delivery statuses come from
the webhooks; they count as unfinished, so a campaign with one may never complete.

## Runs

Each passing run takes between some seconds and about three minutes with two workers.
`CHECK_DEADLOCK FALSE` is there because the systems may rest: nothing forces a client to
POST, Meta to deliver or a fault to happen, and bounded histories end.

| Run | Instance | Shows |
|---|---|---|
| `outbound_safety` | 1 message, 2 processes, 2 faults of crash, db, redis, timeout; operator retry; delivery callbacks | duplicates only after a lost record, wamid kept, the wamid check passes only runs that are due (no spurious job, FAILED only if unrecorded); the pipeline implements `RecordedDispatch` |
| `outbound_live` | 2 messages, one without account, 1 process, 2 faults of crash, stall, db | no intent lost; without failures a SENT event for every recorded send; accepted messages settle |
| `webhook` | 2 overlapping events of 3 messages and a status, 2 processes, 2 faults of five kinds | counted once, PROCESSED complete, bounded split of conversations, a logged event has a job unless its request ended early, only a new message sets the 24h window back, acknowledged events settle; the conversations implement `CustomerInbox` |
| `bulk` | 2 recipients in two insertMany chunks, a queue that may refuse the second, 2 workers, callbacks, 1 fault of nine kinds | sends are paid, completed means done but for a chunk inserted after the count, a message goes out no more often than once plus what was lost of it, a closed message stays closed, the campaign completes; the books of a message implement `MessageLedger` |
| `media` | 1 download, 2 workers, 3 attempts, 3 faults of five kinds | AVAILABLE is saved and announced, the row shows how the job ended, committed media settle |
| `onboarding` | an account in any state, 2 requests of seven kinds in 2 processes, 2 faults of five kinds | versioned writes follow the map, nothing claimed that Meta has not done, one refresh at a time, requests end |
| `templates` | 2 names, 2 requests of four kinds, 2 decisions, 1 fault of six kinds | a row ends with Meta's status, or a named step led it astray; a provider id means Meta accepted |
| `template_cache` | 1 name, 2 requests, 1 decision, 1 reader, 1 fault | a cached row is the database's, but for the writes that do not clear it |
| `template_payload` | every template of up to three components of a few kinds | the message fits the template |
| `message_worker` | 2 loops with batches of one, 2 messages inserted together or one by one, one never accepted, 1 retry, 1 fault of five kinds | repeats have a reason, dead means unsent and logged once, what was counted as settled stays settled, queued messages settle |
| `status_webhook` | 2 requests, 3 webhooks about 2 messages and a customer message, 1 worker, 1 fault of five kinds | a handled status is not undone, failed has its refund, refunded once, the backend hears of changes |
| `inbound_lost` (violated) | no fault at all | a customer message has no document although its webhook was handled |

The type invariant is a conjunct of an invariant of each module's run
(`OnlyDueRunsPassTheCheck`, `CountedOnce`, `SendsArePaid`, `AvailableIsSaved`,
`OneRefresher`, `IdMeansSubmitted`, `RepeatHasReason`, `RefundedOnce`).

Why the bounds are enough. Messages, and the jobs named after them, do not share
state in the outbound path but for the outbox batch, so one message with two
processes reaches every interleaving of publishers and workers of a message; the
liveness run has two messages in a batch, and one publisher, so that two faults could
silence it; that two publishers lose nothing is a theorem. In the webhooks two events with a
common message and a common customer are the smallest instance in which two
transactions compete for a wamid and for a conversation. In the campaign two
recipients in chunks of one give a first chunk that may be done before the second exists, a
last and a last-but-one worker, and a refused chunk (`MaxWaiting` 0); the inner loop over
addBulk chunks makes one pass here. Downloads share nothing but the workers, so one is
enough; two workers are needed for an expired lock, three attempts for the code's rule
about the last one. For the account two requests suffice for every race about a version,
since a third could only repeat one of the two. Two names are what the unique name and a
rename need, two decisions what an order needs. Two loops race for a message, two
messages are two chunks of a campaign; larger batches are covered by the theorems. Two faults (three in `media`) allow a failure of the
repair of a failure; one, in `bulk`, `templates`, `message_worker` and `status_webhook`, is what a
finished run allows, and the retries of the code are still passed through; the theorems are
about any number. One put-back is BullMQ's own
default. `MaxMade`, `MaxRequests` and `MaxDeliveries` bound operators and clients. `Symmetry` is
used in runs without liveness properties only.
`SplitOnlyByRace` bounds the conversations of a customer by the number of
slots: there is no unique key on tenant and customer, and a transaction that
finds its message stored may still commit the conversation it has just created.

Fairness. Weak fairness of the publisher (cron), of taking a job and of the steps of
a running job, of the delayed set and of the stalled check: these are timers and
loops of the process and of BullMQ that nothing in the application stops. There is
none for requests, callbacks, deliveries, faults and operators. In `webhook` a request that
has been logged goes on to its queue.add, as the handler does when its process stays
alive; `onboarding` has fairness of the steps of a request and of the expiry of a Redis
key; `message_worker` of the loops, the tasks of a batch and of time passing for a
retry; `status_webhook` of the refund worker and its queue. The template runs are about
safety only and state none. The media and onboarding steps include calls to Meta that end;
`axios` is called there without a timeout, so a call that hangs would hold its slot for ever.

## Proofs

Each module with safety properties has a module of proofs. Its theorems hold for all
values of the constants that satisfy the module's assumption: any sets of messages,
events, campaigns, processes, workers and slots, any payloads, and any number of
faults, retries and requests. Under "theorems", `PROJECT.json` says which property of
which run each one states.

The proofs have one shape. The property is not inductive, so the last part of a module
("Why they hold") adds what makes it so; one lemma per group of actions shows what the group
changes, one per conjunct that every step keeps it; the theorems follow from the
inductive invariant. TLC checked each inductive invariant on the instances of the runs
before it was proved; the runs list what it implies. The components with a
`BullQueue` share two arguments: which actions of the queue move a job, and that a job which was
never put back has one run, the holder of its lock.

### OutboundPipeline

- `TypeCorrect`: `Spec => []TypeOK`.
- `IntentsKept` (Redis accepts every enqueue): `[]NoLostIntent`.
- `DuplicatesExplained`, `ChecksPassOnlyDueRuns`, `WamidWrittenOnce` and
  `PipelineImplementsRecordedDispatch` (no lock expires under a live worker).
- `SentIsRecorded`: `[]SentRecorded`.

The hypotheses are those of the code: a refused enqueue does lose a row (see
below, "Disagreements"), and a run whose lock expired does send next to its successor,
since nothing in `process` notices.

*Intents.* `NoLostIntent` is not inductive: a publisher between emitting a row and
marking it must have a job to point to, and a job disappears when it completes, so a
run near its end must have a stored wamid. `IntentInv` adds both (`MarkedAfterEmit`,
`PastStoreRecorded`, `GotId`). `HandedOverKept` shows that a handed-over message stays so;
the rest is about the row indices of a batch.

*Dispatches.* `DispatchInv` says why no second send follows a recorded one: a run
holds the lock of its job (`RunHoldsLock`), so a message has one run (`OneRun`) and what
the run has read stays true (`RunState`); every earlier send is accounted for
(`Accounted`); what Meta reports or the outbox says about statuses concerns
recorded messages (`StatusImpliesRecorded`), which is what stops spurious jobs. One lemma
per group of actions shows that it is kept.

*Refinement.* `MessageState` maps a message to new, accepted, recorded or given up.
With `IntentFirst` and the two invariants every step maps to one step of
`RecordedDispatch` or to a stutter.

*Sent events.* `SentRecorded` speaks of behaviours in which nothing has failed yet, so
it is inductive with the types alone (`SentStep`): a slot leaves the step that
writes the event by writing it, or by a fault.

### WebhookIngestion

`StoredOnce` (`CountedOnce`), `ProcessedHasAll`, `SplitIsBounded`, `LoggedHasJob`, the
action property `WindowKept`, and the refinement `IngestionImplementsInbox`, from
`IngestionInvariant`.

- `CountedOnce` compares counters with sets, so the proof needs that a commit adds one message to
  one conversation: nobody else holds the wamid (`KeyIsUnique`) and the conversation
  belongs to the sender (`FoundIsOwn`).
- `ProcessedIsComplete` needs what a run is through with (`RunIsThrough`), that a stored
  medium was queued before its row became visible (`MediaIsQueued`), and that a job that
  was never put back has one run (`OneRun`).
- `SplitOnlyByRace` is a bound on a sum: conversations plus transactions that have found none
  (`RacersAreFew`).
- `IngestionImplementsInbox` maps the commit of a message to one `Receive` (`CommitReceives`), and
  that of a transaction whose message was there already to `Open`, if it has created a
  conversation (`SkipOpens`). `KeyIsUnique`, `FoundIsOwn` and `RacersAreFew` are what the abstract guards ask for: the message is new because nobody else holds
  its key, the thread is the sender's own, and there is room for another one.
  `MarkReports` shows with `RunIsThrough` that an event is reported when its messages are there.

`MaxStalled > 0` is BullMQ's default of 1, which no processor of the repository changes: with
0 a stalled job would fail under a run that may still complete it. Workers and messages are finite sets.

### BulkCampaign

`EverySendPaid`, `CompletedIsDone`, `SendsOnce`, the action property `ClosedForGood`, and the
refinement `CampaignKeepsLedger`, from `CampaignInvariant`.

- `SendsArePaid` counts the workers that hold a debited message; it holds whatever the locks do.
- `CompletedMeansDone` rests on the order of createCampaign, documents before jobs
  (`InsertedFirst`), and on no status going back to queued: what a check has counted still
  holds when it comes to its update (`CountsHold`), however late, and the first chunk is always
  among it, because it takes a job to start a check.
- `SentOnce` is a count: the copies of a message, its refunds, the runs that may still send or
  refund (`Busy`) and the run its job waits for (`Awaited`) are together one more than its losses at
  most (`EndsAreCounted`). Each step moves one of them to the next or pays with a loss:
  a run whose lock has expired and its successor are two, and the expiry is the loss that
  allows it. No hypothesis about locks or put-back jobs is needed.
- `CampaignKeepsLedger` follows from the same count: a run that debits, sends or refunds is
  busy, so its message is due (`BusyIsDue`), and a send has a debit of its own (`SendIsPaid`).
- `ClosedStaysClosed` is stronger for a message that was never put back: `OneRun` and
  `LocksAreHeld` say that its job has one run, `ClosedIsOver` that this run is at its last
  calls. `process` never reads the status of its message: the job alone is what protects it. A wamid
  that was stored without an answer does not close a message (`unsure`), since the job is retried.

Only the bounds of the chunks are assumed to be positive, and the set of workers finite.

### MediaDownload

`AvailableSaved` and `EndShown`, from `DownloadInvariant`: a run holds its lock
(`RunsAlone`), is past its first update only if the message was committed
(`RunSeesMessage`), and what it has done to row and file is still there (`RunProgress`).
`EndIsVisible` speaks of committed messages, but a job may end before the commit;
`EndInRow` says the same of all.

### Onboarding

`ClaimsDone`, `RefresherAlone` and the action property `AccountMoves`, from
`OnboardingInvariant`.

- `ClaimsAreDone` is a fact about the account; inductive it becomes by what every request
  knows when it comes to its update: Meta has done what it asks for (`MetaWasAsked`).
- `AccountFollowsMap` needs that a copy with the account's version has its status
  (`CopyIsCurrent`), which is what optimistic concurrency means, and is false for
  the requests that a write without a version has overtaken.
- `OneRefresher` is a count; the invariant says who is counted: the holder of the lock (`LockIsHeld`).

### Templates

`TemplateTypes`, `CacheFollowsRows`, `IdsAreSubmitted` and `StatusIsFollowed`, each by an
invariant of its own, since they hold for different reasons: of the cache, what a process
has read and will store is as good as what is stored (`ReadIsCurrent`); of the ids,
what a request has yet to write agrees with its row and with Meta (`RequestKnows`,
`SyncKnows`); of the statuses, the row shows Meta's status and no event that may still
come is later, or the event of the last decision is under way and no event is later
than it (`Followed`).

The search for `Followed` showed that an earlier version of `StatusFollowsMeta` was false for
three decisions, more than a run has: the last event is lost after a crash
between its record and its application, an old one that says the same happens to be applied, and then the
one between the two is applied over it. `astray` now keeps the mark as long as such an event exists (`Late`).
The instance of two decisions could not show that.

The values that stand for "no row" and "deleted" are assumed not to be names of templates.

### StatusWebhook

`RefundNotDropped`, `OneRefund`, `HandledStaysKept` and `BackendLearns`, from
`StatusInvariant`.

- `FailedHasRefund` needs that the job exists before the write and is removed only by a worker
  that has posted the refund (`RefundIsSecured`).
- `HandledIsKept` needs that the guard of a request still holds when it writes
  (`ChangeIsForward`), of messages with one changing request at a time (`ChangesAreSeen`), and
  what a request is already through with (`ItemsAreKept`).
- `RefundedOnce` is the chain from the guard to the job: a refund ends its job
  (`RefundEndsJob`), which a run does alone (`RunsAlone`), and a message with a refund or a job
  is failed or about to be (`RefundHasReason`), so that no other request gets past the guard.

### MessageWorker

`NoRepeat`, `DeadIsUnsent` and `CompletedIsSettled`, from `WorkerInvariant`. It speaks of the
messages that no race and no lost record excuses: such a message is put back only when
no loop has it (`IsYoung`), so that one loop works on it (`HasOneLoop`), from a copy
that still fits its row (`TaskFits`), and its sends, logs and retries are those its status
and its task account for (`CountsFit`). A dead message is logged by the second call of `failMessage`
only, so `TaskFits` and `Logging` follow it through the first, which may have made its update. `VerdictHolds` is why
the stale count of the campaign worker does no harm to what it has counted: what is settled
stays settled. It says nothing of messages that are inserted after the count.

### Only model-checked

- *Liveness* (`EveryIntentSettles`, `AckedEventsSettle`, `CampaignCompletes`, `MediaSettles`,
  `RequestsEnd`, `QueuedSettles`, `FailedIsRefunded`): it needs fairness and ENABLED, which
  are out of the prover's reach.
- `SendFits` of `TemplatePayload` says what two functions on sequences compute for every template. That
  is induction over data, and the operators of the sequence library it is built from are
  RECURSIVE, about which nothing can be proved.
- `InboundKept` is the violated one.

## Findings

`inbound_lost` is a violated run: `processInboundMessage` says "Always persist — even if we
can't route, the message is not lost" (`whatsapp-webhook.service.ts:348`) and creates the
document without `clientId`, which the schema requires (`inbound-message.schema.ts:10`).

### Disagreements without a run of their own

Met while modelling; the properties named say what holds in spite of them.

- A status callback handled before the wamid is stored is dropped
  (`webhook.processor.ts:284`; `implementation_plan.md:42` wants statuses kept).
- The outbound listener swallows a refused enqueue (`outbound.listener.ts:31`), so the row is
  marked PUBLISHED and the message is lost; `outbox.service.ts:41` is written for a throw.
  `NoLostIntent` needs Redis to accept every enqueue.
- A crash or a queue error between the event row and `queue.add`
  (`whatsapp.controller.ts:96`, `:119`) strands the event: redeliveries meet the unique
  hash and are rejected. `LoggedIsQueued` says this is the only way.
- `lastCustomerMsgAt` is set to the time of the message that is processed
  (`webhook.processor.ts:187`), which may be older, and the 24h window of
  `messages.controller.ts:43` then ends early. `WindowSetBackOnlyByNew`.
- A campaign of several insertMany chunks may be completed before its second chunk exists, or
  after it was inserted and queued by an update whose count came before
  (`campaign-guard.service.ts:25`, `:36`). `CompletedMeansDone` and `SentOnce` allow that and no more.
- The campaign worker may complete a campaign that has no messages yet: createCampaign stores it
  as queued and due (`whatsapp-campaign.service.ts:132`) before it inserts any (`:148`), and
  a count of 0 completes it (`campaign-worker.ts:51`). `CompletedMeansSettled` is about the messages counted.
- A bulk job with exhausted attempts leaves its message queued and debited: `attemptsMade >= 3`
  (`bulk.processor.ts:200`) is read before BullMQ counts the run, so it does not hold in
  the last one (`bullmq_queue_architecture.md:70`).
- `bullmq_queue_architecture.md:46` asks for a check of the status SENT before a bulk message
  is sent; `process` has none. A job that was put back, or whose status update was made and
  not answered (`bulk.processor.ts:166`), debits and sends again. `ClosedStaysClosed` and
  `SentOnce` say how far one gets without it.
- The "Double Idempotency Check" of `createCampaign` (`whatsapp-campaign.service.ts:73`) is a
  read and a later create; two requests of one name may pass it together.
- The template synchronisation takes its event time after the fetch
  (`whatsapp-template.service.ts:123`) and writes without comparing, so a decision
  applied meanwhile is overwritten with what Meta said before it.
- updateTemplate writes back the status it read before calling Meta, and a pending template
  is submitted with only its name saved; a renamed row keeps the old provider id if Meta
  rejects the new one. `StatusFollowsMeta` and `IdMeansSubmitted` name these steps.
- An unpulled template with named placeholders is submitted as `{{1}}` and sent without
  parameters: `buildComponents` looks for `{{digits}}` in the local text. In the url of a button they are
  not even renumbered for Meta. `SendFits`.
- The comment "Safe Lock Release" (`token-manager.service.ts:74`) stands above GET, then DEL: a
  lock that expires in between is deleted under its next holder. `OneRefresher`.
- The nightly refresh marks an account FAILED_TEMP where its comment says REAUTH_REQUIRED, and
  like the signup ignores the version and the map. `AccountFollowsMap` is about the others.
- `message.worker.ts:57` says "Atomic message pickup"; find, update and reload are three
  statements, and two loops may both send a message without any failure. `RepeatHasReason`.
- A failure of the provider has errorType 'provider' (`whatsapp-message.provider.ts:120`), MessageLog
  takes 'system' and 'meta' (`message-log.schema.ts:41`): every dead message is logged by the catch, as a
  'system' failure with the schema's complaint as its error. `DeadMeansUnsent` says it is logged once.
- A retry that `failMessage` has written without an answer (`message.worker.ts:163`) is counted again by
  the catch, so the message gets fewer retries. `DeadMeansUnsent` excuses it.
- `whatsapp-webhook.service.ts:98` says 200 is returned only after the enqueue; the controller
  (`whatsapp-webhook.controller.ts:76`) answers before.
- In the first version a status that arrives before the wamid is stored is dropped, a
  `failed` one then never refunded; a crash between the status and its sync, or a status update without an answer
  (`whatsapp-webhook.service.ts:247`), is never made up; refund jobs are deduplicated only while the first one exists; `refund.processor` says
  "1s, 2s, 4s" where the first delay is 5000 ms. `FailedHasRefund`, `RefundedOnce` and
  `BackendIsTold` say what is left.
- Ids of refund and template jobs contain colons, which the BullMQ of the lock file may
  refuse; BullMQ is outside this repository and the models take them as accepted.

## Plan

1. Done: all modules of the table, their runs, and the theorems about the safety properties
   of all of them but `TemplatePayload`; the abstract specifications `RecordedDispatch`,
   `CustomerInbox` and `MessageLedger`, with proofs that they are implemented.
2. Left to specify abstractly: the account as its owner sees it (`Onboarding`), a template as
   a sender sees it (`Templates`).
3. Left to model: the find-or-create of `resolveTenantId`, the credentials cache, the
   transactional queue.

## Not modelled

The realtime gateway keeps nothing and promises nothing about delivery; conversations,
inbox, reports, profile, flows and automation are queries and pass-through calls, apart from
the find-or-create of a tenant; transactional jobs have no record of a send to relate
a repeat to; credentials are lookups whose failure the senders handle; the
infrastructure modules are clients. DTO validation, formatting, media conversion and
logging carry no property here. Prisma migrations, scripts, scratch files and uploads
are not part of the running program.
