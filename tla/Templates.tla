------------------------------ MODULE Templates ------------------------------
(***************************************************************************)
(* Message templates of one client in one language: the requests of        *)
(* WhatsappTemplateService (create, update, delete, sync with Meta), the   *)
(* jobs of TemplateWebhookProcessor that apply Meta's decisions, and       *)
(* TemplateCacheService, which keeps rows in Redis for the senders.        *)
(*                                                                         *)
(* Rows are MongoDB documents, found by id or by their unique name.  ts is *)
(* lastEventTs (0: none); time is Meta's, in seconds.  A row's components  *)
(* are one value, its content.                                             *)
(***************************************************************************)
EXTENDS BullQueue

CONSTANTS
  Names,         \* template names
  Contents,      \* what requests may put in a template
  Ids,           \* bound: rows that may come to be, 1 .. n
  Slots,         \* requests at a time
  Readers,       \* processes that send templates
  Kinds,         \* requests that may come
  Faults,        \* kinds of failure that may happen
  MaxRequests,   \* bound: requests in one behaviour
  MaxFaults      \* bound: failures in one behaviour

ASSUME TemplatesAssumption ==
  /\ {"none", "gone"} \cap Names = {}
  /\ Ids \subseteq Nat \ {0} /\ Jobs \subseteq Nat \ {0}
  /\ Kinds \subseteq {"create", "update", "delete", "sync"}
  /\ Faults \subseteq {"db", "meta", "redis", "crash", "account", "again"}
  /\ {MaxRequests, MaxFaults} \subseteq Nat

NoRow  == [name |-> "none"]
Gone   == [name |-> "gone"]             \* a row that was deleted
NoRead == [id |-> 0]
NoDecision == [name |-> "none"]

VARIABLES
  rows,        \* the templates collection
  meta,        \* Meta: status and content per name
  clock,
  decisions,   \* Meta's status events, by job
  processed,   \* ProcessedEvent
  wpc, cur,    \* the webhook workers
  pc, mem,     \* the requests
  cache,       \* wa:tpl:<id> in Redis
  reading,     \* fetchAndCache of a process: the row it has read
  requests, faults,
  \* history
  astray,      \* names whose status a step took away from Meta's
  behind,      \* ids whose cached row a write has outdated without clearing it
  renamed      \* ids of rows that have changed their name

metaVars   == <<meta, clock, decisions>>
workerVars == <<wpc, cur>>
slotVars   == <<pc, mem, requests>>
cacheVars  == <<cache, reading>>
histVars   == <<astray, behind, renamed>>
vars == <<rows, metaVars, processed, workerVars, queueVars, slotVars, cacheVars, faults, histVars>>

NoId == [by |-> "none"]
MetaId(n) == [by |-> "id", of |-> n]    \* the number Meta gave the template
MetaName(n) == [by |-> "name", of |-> n] \* its name, in the same field

NoMem == [kind |-> "none"]

Fault(kind) ==
  /\ kind \in Faults /\ faults < MaxFaults
  /\ faults' = faults + 1

Existing(ms) == {n \in Names : ms[n].status # "none"}

RowsOf(n) == {i \in Ids : rows[i].name = n}
NewIds == {i \in Ids : rows[i] = NoRow}
NewId == CHOOSE i \in NewIds : TRUE

Init ==
  /\ QueueInit
  /\ rows = [i \in Ids |-> NoRow]
  /\ meta = [n \in Names |-> [status |-> "none"]]
  /\ clock = 1
  /\ decisions = [j \in Jobs |-> NoDecision]
  /\ processed = {}
  /\ wpc = [w \in Workers |-> "idle"] /\ cur = [w \in Workers |-> 0]
  /\ pc = [s \in Slots |-> "idle"] /\ mem = [s \in Slots |-> NoMem]
  /\ cache = [i \in Ids |-> NoRow]
  /\ reading = [p \in Readers |-> NoRead]
  /\ requests = 0 /\ faults = 0
  /\ astray = {} /\ behind = {} /\ renamed = {}

Insert(row) == NewIds # {} /\ rows' = [rows EXCEPT ![NewId] = row]

(* A job that may still write its decision: recorded means never again, but *)
(* for the run that has just recorded it.                                   *)
MayApply(j) ==
  /\ jobState[j] # "none"
  /\ j \in processed => \E w \in Workers : wpc[w] = "apply" /\ cur[w] = j

(* A row of this time would take a decision that is yet to come. *)
Late(n, ts) == \E j \in Jobs : decisions[j].name = n /\ MayApply(j) /\ ts < decisions[j].ts

(* History: a request gives the row of n this status and this time. *)
Marked(n, status, ts) ==
  astray' = IF meta[n].status \in {"none", status} /\ ~ Late(n, ts) THEN astray \ {n} ELSE astray \cup {n}

(* History: Meta puts a template under review, and its row says otherwise. *)
Reviewed ==
  astray' = astray \cup {n \in Names : meta'[n].status # meta[n].status
              /\ \E i \in RowsOf(n) : rows[i].status # meta'[n].status \/ Late(n, rows[i].ts)}

Held(i) == cache[i] # NoRow \/ \E p \in Readers : reading[p].id = i

(* History: row i changes, and nobody is told who holds it. *)
Outdated(i) == behind' = IF Held(i) THEN behind \cup {i} ELSE behind

Goto(s, label) == pc' = [pc EXCEPT ![s] = label]

Answered(s) ==
  /\ Goto(s, "idle")
  /\ mem' = [mem EXCEPT ![s] = NoMem]

Begin(s, k) ==
  /\ pc[s] = "idle" /\ k \in Kinds /\ requests < MaxRequests
  /\ requests' = requests + 1

-----------------------------------------------------------------------------
(* WhatsappTemplateProvider: what Meta does with a submission, and with the *)
(* edit of a template it has.  A failed call may have been carried out.     *)

(* A name is accepted once. *)
SubmitAtMeta(n, c, accepted, refused) ==
  \/ /\ meta[n].status = "none"
     /\ meta' = [meta EXCEPT ![n] = [status |-> "PENDING", content |-> c]]
     /\ \/ accepted /\ UNCHANGED faults
        \/ refused /\ Fault("meta")
  \/ /\ (meta[n].status # "none" /\ UNCHANGED faults) \/ Fault("meta")
     /\ UNCHANGED meta
     /\ refused

(* The number it goes by, else the match by name among all of Meta's. *)
EditTarget(row) == IF row.provider.by = "id" THEN row.provider.of ELSE row.name

EditAtMeta(row, accepted, refused) ==
  LET t == EditTarget(row)
  IN IF meta[t].status = "none"
     THEN SubmitAtMeta(row.name, row.content, accepted, refused)
     ELSE \/ /\ meta' = [meta EXCEPT ![t] = [status |-> "PENDING", content |-> row.content]]
             /\ \/ accepted /\ UNCHANGED faults
                \/ refused /\ Fault("meta")
          \/ Fault("meta") /\ refused /\ UNCHANGED meta

-----------------------------------------------------------------------------
(* WhatsappTemplateService.createTemplate.                                  *)

(* A name that has a row is answered with it, and nothing is done. *)
CreateTemplate(s) ==
  /\ Begin(s, "create")
  /\ \E n \in Names, c \in Contents, st \in {"PENDING", "DRAFT"} :
       /\ RowsOf(n) = {}
       /\ mem' = [mem EXCEPT ![s] = [row |->
            [name |-> n, status |-> st, provider |-> NoId, content |-> c, ts |-> 0]]]
  /\ Goto(s, "insert")
  /\ UNCHANGED <<rows, metaVars, processed, workerVars, queueVars, cacheVars, faults, histVars>>

(* The unique index refuses a second row of the name. *)
InsertTemplate(s) ==
  LET row == mem[s].row
  IN /\ pc[s] = "insert"
     /\ \/ /\ RowsOf(row.name) = {}
           /\ Insert(row)
           /\ IF row.status = "DRAFT" THEN Answered(s)
              ELSE Goto(s, "submit") /\ mem' = [mem EXCEPT ![s] = [id |-> NewId, row |-> row]]
           /\ Marked(row.name, row.status, row.ts)
           /\ UNCHANGED faults
        \/ /\ (RowsOf(row.name) # {} /\ UNCHANGED faults) \/ Fault("db")
           /\ Answered(s)
           /\ UNCHANGED <<rows, astray>>
     /\ UNCHANGED <<metaVars, processed, workerVars, queueVars, requests, cacheVars, behind, renamed>>

(* What the request knows of its row when Meta has answered. *)
Known(s, provider) == [id |-> mem[s].id, row |-> [mem[s].row EXCEPT !.provider = provider]]

(* Mutant: what Meta answered is not looked at. *)
SubmitTemplateAnyway(s) ==
  /\ pc[s] = "submit"
  /\ LET row == mem[s].row
         saved == /\ mem' = [mem EXCEPT ![s] = Known(s, MetaId(row.name))]
                  /\ Goto(s, "saveId")
     IN SubmitAtMeta(row.name, row.content, saved, saved)
  /\ Reviewed
  /\ UNCHANGED <<rows, clock, decisions, processed, workerVars, queueVars, requests, cacheVars, behind, renamed>>

(* A refusal leaves the row as it is, PENDING, for the next sync to push. *)
SubmitTemplate(s) ==
  /\ pc[s] = "submit"
  /\ LET row == mem[s].row
         accepted == /\ mem' = [mem EXCEPT ![s] = Known(s, MetaId(row.name))]
                     /\ Goto(s, "saveId")
     IN SubmitAtMeta(row.name, row.content, accepted, Answered(s))
  /\ Reviewed
  /\ UNCHANGED <<rows, clock, decisions, processed, workerVars, queueVars, requests, cacheVars, behind, renamed>>

(* updateOne by _id, of createTemplate and of updateTemplate; an edit has no *)
(* new id and writes the one it knew.                                        *)
SaveProviderId(s) ==
  LET i == mem[s].id  id == mem[s].row.provider
  IN /\ pc[s] = "saveId"
     /\ \/ /\ IF rows[i] = Gone \/ id = NoId
              THEN UNCHANGED rows
              ELSE rows' = [rows EXCEPT ![i].provider = id]
           /\ UNCHANGED faults
        \/ Fault("db") /\ UNCHANGED rows
     /\ Outdated(i)
     /\ Answered(s)
     /\ UNCHANGED <<metaVars, processed, workerVars, queueVars, requests, cacheVars, astray, renamed>>

-----------------------------------------------------------------------------
(* WhatsappTemplateService.updateTemplate and deleteTemplate.               *)

(* By id, with any name, or by name; the status may be the payload's. *)
UpdateTemplate(s) ==
  /\ Begin(s, "update")
  /\ \E i \in Ids, n \in Names, c \in Contents, draft \in BOOLEAN :
       /\ rows[i].name \in Names
       /\ mem' = [mem EXCEPT ![s] = [id |-> i, old |-> rows[i].name,
            row |-> [rows[i] EXCEPT !.name = n, !.content = c, !.status = IF draft THEN "DRAFT" ELSE @]]]
  /\ Goto(s, "write")
  /\ UNCHANGED <<rows, metaVars, processed, workerVars, queueVars, cacheVars, faults, histVars>>

(* findOneAndUpdate: the status is the one that was read, not the row's. *)
WriteUpdate(s) ==
  LET i == mem[s].id  new == mem[s].row  old == mem[s].old
      written == [rows[i] EXCEPT !.name = new.name, !.content = new.content, !.status = new.status]
  IN /\ pc[s] = "write"
     /\ \/ /\ rows[i] # Gone /\ RowsOf(new.name) \subseteq {i}
           /\ rows' = [rows EXCEPT ![i] = written]
           /\ IF written.status = "DRAFT" THEN Answered(s)
              ELSE Goto(s, "change") /\ mem' = [mem EXCEPT ![s] = [id |-> i, old |-> old, row |-> written]]
           /\ Marked(new.name, new.status, rows[i].ts)
           /\ renamed' = IF new.name = rows[i].name THEN renamed ELSE renamed \cup {i}
           /\ Outdated(i)
           /\ UNCHANGED faults
        \/ /\ rows[i] = Gone \/ ~ RowsOf(new.name) \subseteq {i}
           /\ Answered(s) /\ UNCHANGED <<rows, faults, histVars>>
        \/ Fault("db") /\ Answered(s) /\ UNCHANGED <<rows, histVars>>
     /\ UNCHANGED <<metaVars, processed, workerVars, queueVars, requests, cacheVars>>

(* The row has been written; Meta sees a new name, or an edit. *)
ChangeAtMeta(s) ==
  /\ pc[s] = "change"
  /\ LET row == mem[s].row
         isNew == mem[s].old # row.name \/ meta[EditTarget(row)].status = "none"
         accepted == /\ mem' = [mem EXCEPT ![s] =
                                  Known(s, IF isNew THEN MetaId(row.name) ELSE row.provider)]
                     /\ Goto(s, "saveId")
     IN /\ IF mem[s].old # row.name
           THEN SubmitAtMeta(row.name, row.content, accepted, Answered(s))
           ELSE EditAtMeta(row, accepted, Answered(s))
        /\ Reviewed
  /\ UNCHANGED <<rows, clock, decisions, processed, workerVars, queueVars, requests, cacheVars, behind, renamed>>

(* Meta keeps the template: a decision or a sync brings the name back. *)
DeleteTemplate(s) ==
  /\ Begin(s, "delete")
  /\ \E i \in Ids :
       /\ rows[i].name \in Names
       /\ rows' = [rows EXCEPT ![i] = Gone]
       /\ Outdated(i)
  /\ UNCHANGED <<metaVars, processed, workerVars, queueVars, pc, mem, cacheVars, faults, astray, renamed>>

-----------------------------------------------------------------------------
(* WhatsappTemplateService.syncTemplatesFromMeta, for the one client that   *)
(* the controller names.  Whatever fails ends it, but a push.               *)

SyncTemplates(s) ==
  /\ Begin(s, "sync")
  /\ mem' = [mem EXCEPT ![s] = [todo |->
       {[id |-> i, row |-> rows[i]] : i \in {k \in Ids :
          rows[k].name \in Names /\ rows[k].status = "PENDING" /\ rows[k].provider = NoId}}]]
  /\ Goto(s, "push")
  /\ UNCHANGED <<rows, metaVars, processed, workerVars, queueVars, cacheVars, faults, histVars>>

(* Goes by the rows as they were read.  Of the answer only a name is saved, *)
(* which it may not have.                                                   *)
PushPending(s) ==
  /\ pc[s] = "push"
  /\ \E t \in mem[s].todo :
       LET refused == UNCHANGED <<rows, behind>>
           accepted == \/ refused
                       \/ /\ rows[t.id] # Gone
                          /\ rows' = [rows EXCEPT ![t.id].provider = MetaName(t.row.name)]
                          /\ Outdated(t.id)
       IN /\ SubmitAtMeta(t.row.name, t.row.content, accepted, refused)
          /\ mem' = [mem EXCEPT ![s] = [todo |-> @.todo \ {t}]]
  /\ Reviewed
  /\ UNCHANGED <<clock, decisions, processed, workerVars, queueVars, pc, requests, cacheVars, renamed>>

FetchTemplates(s) ==
  /\ pc[s] = "push" /\ mem[s].todo = {}
  /\ \/ /\ mem' = [mem EXCEPT ![s] = [fetched |-> meta,
                     todo |-> Existing(meta)]]
        /\ Goto(s, "pull")
        /\ UNCHANGED faults
     \/ Fault("meta") /\ Answered(s)
  /\ UNCHANGED <<rows, metaVars, processed, workerVars, queueVars, requests, cacheVars, histVars>>

(* incomingTs is taken before the header media is fetched and cached, which *)
(* may take a while and may fail.                                           *)
PullNext(s) ==
  /\ pc[s] = "pull"
  /\ IF mem[s].todo = {} THEN Answered(s)
     ELSE \E n \in mem[s].todo :
            /\ mem' = [mem EXCEPT ![s] = [fetched |-> @.fetched,
                         todo |-> @.todo \ {n}, name |-> n, ts |-> clock]]
            /\ Goto(s, "upsert")
  /\ UNCHANGED <<rows, metaVars, processed, workerVars, queueVars, requests, cacheVars, faults, histVars>>

(* No timestamp guard for a sync of one client. *)
UpsertPulled(s) ==
  LET n == mem[s].name  m == mem[s].fetched[n]
      row == [name |-> n, status |-> m.status, provider |-> MetaName(n), content |-> m.content, ts |-> mem[s].ts]
  IN /\ pc[s] = "upsert"
     /\ \/ /\ \/ RowsOf(n) = {} /\ Insert(row)
              \/ \E i \in RowsOf(n) : rows' = [rows EXCEPT ![i] = row]
           /\ Marked(n, m.status, row.ts)
           /\ Goto(s, IF rows' = rows THEN "pull" ELSE "clear")
           /\ UNCHANGED <<mem, faults>>
        \/ Fault("db") /\ Answered(s) /\ UNCHANGED <<rows, astray>>
     /\ UNCHANGED <<metaVars, processed, workerVars, queueVars, requests, cacheVars, behind, renamed>>

(* Mutant: the cache is left to its TTL. *)
ClearNothing(s) ==
  /\ pc[s] = "clear"
  /\ Goto(s, "pull")
  /\ UNCHANGED <<rows, metaVars, processed, workerVars, queueVars, mem, requests, cacheVars, faults, histVars>>

(* A fetch that is under way may store the old row after this. *)
ClearCache(s) ==
  LET found == RowsOf(mem[s].name)
      overtaken == {i \in found : \E p \in Readers : reading[p].id = i /\ reading[p].row # rows[i]}
  IN /\ pc[s] = "clear"
     /\ \/ /\ cache' = [i \in Ids |-> IF i \in found THEN NoRow ELSE cache[i]]
           /\ behind' = (behind \ found) \cup overtaken
           /\ Goto(s, "pull")
           /\ UNCHANGED <<mem, faults>>
        \/ /\ Fault("redis") /\ Answered(s)
           /\ behind' = behind \cup found
           /\ UNCHANGED cache
     /\ UNCHANGED <<rows, metaVars, processed, workerVars, queueVars, requests, reading, astray, renamed>>

(* The process of a request exits. *)
Crash(s) ==
  /\ pc[s] # "idle" /\ Fault("crash")
  /\ behind' = IF pc[s] = "clear" THEN behind \cup RowsOf(mem[s].name) ELSE behind
  /\ Answered(s)
  /\ UNCHANGED <<rows, metaVars, processed, workerVars, queueVars, requests, cacheVars, astray, renamed>>

-----------------------------------------------------------------------------
(* Meta decides, and TemplateWebhookProcessor.process applies.              *)

(* WhatsappWebhookService.handleWebhook queues the event, the job named     *)
(* after it, while Meta has its 200 already: an event that is not queued is *)
(* lost.  Two events may bear the same second.                              *)
Decide(j) ==
  /\ decisions[j] = NoDecision /\ \A k \in Jobs : k < j => decisions[k] # NoDecision
  /\ \E n \in Names, st \in {"APPROVED", "REJECTED"}, t \in {clock, clock + 1} :
       /\ meta[n].status \notin {"none", st}
       /\ meta' = [meta EXCEPT ![n].status = st]
       /\ clock' = t
       /\ decisions' = [decisions EXCEPT ![j] = [name |-> n, status |-> st, ts |-> t]]
       /\ \/ Add(j) /\ UNCHANGED <<faults, astray>>
          \/ /\ Fault("redis") \/ Fault("crash")
             /\ astray' = astray \cup {n}
             /\ UNCHANGED queueVars
  /\ UNCHANGED <<rows, processed, workerVars, slotVars, cacheVars, behind, renamed>>

(* Meta sends it again, when the job has been removed already. *)
DecideAgain(j) ==
  /\ jobState[j] = "completed" /\ Fault("again")
  /\ jobState' = [jobState EXCEPT ![j] = "waiting"]
  /\ UNCHANGED <<attemptsMade, stalledCount, lock, rows, metaVars, processed, workerVars, slotVars, cacheVars, histVars>>

WGoto(w, label) == wpc' = [wpc EXCEPT ![w] = label]

(* History: the event ends here, and the row need not show what Meta has. *)
Forgotten(j) ==
  LET d == decisions[j]
      shown == \E i \in RowsOf(d.name) : rows[i].status = meta[d.name].status /\ d.ts <= rows[i].ts
  IN astray' = IF shown THEN astray ELSE astray \cup {d.name}

TakeEvent(w) ==
  /\ wpc[w] = "idle"
  /\ \E j \in Jobs : Take(w, j) /\ cur' = [cur EXCEPT ![w] = j]
  /\ WGoto(w, "record")
  /\ UNCHANGED <<rows, metaVars, processed, slotVars, cacheVars, faults, histVars>>

(* ProcessedEvent comes first; an event that is there is acknowledged, also *)
(* by the attempt that follows a failure after this.                        *)
RecordEvent(w) ==
  /\ wpc[w] = "record"
  /\ \/ /\ cur[w] \notin processed
        /\ processed' = processed \cup {cur[w]}
        /\ WGoto(w, "apply") /\ UNCHANGED <<faults, astray>>
     \/ /\ cur[w] \in processed /\ Forgotten(cur[w])
        /\ WGoto(w, "complete") /\ UNCHANGED <<processed, faults>>
     \/ Fault("db") /\ WGoto(w, "threw") /\ UNCHANGED <<processed, astray>>
  /\ UNCHANGED <<rows, metaVars, cur, queueVars, slotVars, cacheVars, behind, renamed>>

(* Mutant: the last event to come wins. *)
ApplyLastToCome(w) ==
  LET d == decisions[cur[w]]
  IN /\ wpc[w] = "apply"
     /\ \E i \in RowsOf(d.name) :
          /\ rows' = [rows EXCEPT ![i].status = d.status, ![i].ts = d.ts]
          /\ Outdated(i)
     /\ WGoto(w, "complete")
     /\ UNCHANGED <<metaVars, processed, cur, queueVars, slotVars, cacheVars, faults, astray, renamed>>

(* The client of the account, then the upsert.  When the row is newer the   *)
(* filter finds nothing, and the insert runs into the unique index.         *)
ApplyEvent(w) ==
  LET d == decisions[cur[w]]
      fresh == {i \in RowsOf(d.name) : rows[i].ts < d.ts}
  IN /\ wpc[w] = "apply"
     /\ \/ \E i \in fresh :
             /\ rows' = [rows EXCEPT ![i].status = d.status, ![i].ts = d.ts]
             /\ astray' = IF d.status = meta[d.name].status /\ ~ Late(d.name, d.ts)
                          THEN astray \ {d.name} ELSE astray
             /\ Outdated(i)
             /\ WGoto(w, "complete") /\ UNCHANGED faults
        \/ /\ RowsOf(d.name) = {}
           /\ Insert([name |-> d.name, status |-> d.status, provider |-> NoId, content |-> "none", ts |-> d.ts])
           /\ Marked(d.name, d.status, d.ts)
           /\ WGoto(w, "complete") /\ UNCHANGED <<behind, faults>>
        \/ /\ (RowsOf(d.name) # {} /\ fresh = {} /\ UNCHANGED faults) \/ Fault("db")
           /\ WGoto(w, "threw") /\ UNCHANGED <<rows, astray, behind>>
        \/ /\ Fault("account") /\ Forgotten(cur[w])     \* no client has the account yet
           /\ WGoto(w, "complete") /\ UNCHANGED <<rows, behind>>
     /\ UNCHANGED <<metaVars, processed, cur, queueVars, slotVars, cacheVars, renamed>>

Release(w) ==
  /\ WGoto(w, "idle")
  /\ cur' = [cur EXCEPT ![w] = 0]

(* History: a job that fails for good takes its event along. *)
EndOf(w) ==
  IF wpc[w] = "complete"
  THEN Complete(w, cur[w]) /\ UNCHANGED astray
  ELSE /\ Threw(w, cur[w])
       /\ IF jobState'[cur[w]] = "failed" THEN Forgotten(cur[w]) ELSE UNCHANGED astray

EndJob(w) ==
  /\ wpc[w] \in {"complete", "threw"}
  /\ EndOf(w)
  /\ Release(w)
  /\ UNCHANGED <<rows, metaVars, processed, slotVars, cacheVars, faults, behind, renamed>>

BackoffElapsed(j) ==
  BackoffOver(j) /\ UNCHANGED <<rows, metaVars, processed, workerVars, slotVars, cacheVars, faults, histVars>>

CrashWorker(w) ==
  /\ wpc[w] # "idle" /\ Fault("crash")
  /\ Release(w)
  /\ DropLocks({w})
  /\ UNCHANGED <<rows, metaVars, processed, slotVars, cacheVars, histVars>>

RecoverOrphan(j) ==
  /\ lock[j] = NoWorker /\ PutBack(j)
  /\ IF jobState'[j] = "failed" THEN Forgotten(j) ELSE UNCHANGED astray
  /\ UNCHANGED <<rows, metaVars, processed, workerVars, slotVars, cacheVars, faults, behind, renamed>>

(* AdminWebhookController, one failed job or each of them. *)
ReplayJob(j) ==
  Retry(j) /\ UNCHANGED <<rows, metaVars, processed, workerVars, slotVars, cacheVars, faults, histVars>>

-----------------------------------------------------------------------------
(* TemplateCacheService.getTemplate, on behalf of the senders.              *)

(* One fetch of an id at a time in a process: the others wait for it. *)
FetchRow(p, i) ==
  /\ reading[p] = NoRead /\ cache[i] = NoRow
  /\ rows[i].name \in Names
  /\ reading' = [reading EXCEPT ![p] = [id |-> i, row |-> rows[i]]]
  /\ UNCHANGED <<rows, metaVars, processed, workerVars, queueVars, slotVars, cache, faults, histVars>>

(* Settles what is behind when nobody else holds an older row. *)
StoreRow(p) ==
  LET i == reading[p].id
  IN /\ reading[p] # NoRead
     /\ \/ /\ cache' = [cache EXCEPT ![i] = reading[p].row]
           /\ UNCHANGED faults
        \/ Fault("redis") /\ UNCHANGED cache
     /\ reading' = [reading EXCEPT ![p] = NoRead]
     /\ behind' = IF cache'[i] \in {NoRow, rows[i]} /\ \A q \in Readers \ {p} : reading[q].id # i
                  THEN behind \ {i} ELSE behind
     /\ UNCHANGED <<rows, metaVars, processed, workerVars, queueVars, slotVars, astray, renamed>>

ExpireEntry(i) ==
  /\ cache[i] # NoRow
  /\ cache' = [cache EXCEPT ![i] = NoRow]
  /\ behind' = IF \E p \in Readers : reading[p].id = i THEN behind ELSE behind \ {i}
  /\ UNCHANGED <<rows, metaVars, processed, workerVars, queueVars, slotVars, reading, faults, astray, renamed>>

-----------------------------------------------------------------------------
SlotStep(s) ==
  \/ InsertTemplate(s) \/ SubmitTemplate(s) \/ SaveProviderId(s)
  \/ WriteUpdate(s) \/ ChangeAtMeta(s)
  \/ PushPending(s) \/ FetchTemplates(s) \/ PullNext(s) \/ UpsertPulled(s) \/ ClearCache(s)

Next ==
  \/ \E s \in Slots :
       CreateTemplate(s) \/ UpdateTemplate(s) \/ DeleteTemplate(s) \/ SyncTemplates(s) \/ SlotStep(s) \/ Crash(s)
  \/ \E j \in Jobs :
       Decide(j) \/ DecideAgain(j) \/ BackoffElapsed(j) \/ RecoverOrphan(j) \/ ReplayJob(j)
  \/ \E w \in Workers :
       TakeEvent(w) \/ RecordEvent(w) \/ ApplyEvent(w) \/ EndJob(w) \/ CrashWorker(w)
  \/ \E p \in Readers, i \in Ids : FetchRow(p, i)
  \/ \E p \in Readers : StoreRow(p)
  \/ \E i \in Ids : ExpireEntry(i)

Spec == Init /\ [][Next]_vars

-----------------------------------------------------------------------------
Statuses == {"PENDING", "DRAFT", "APPROVED", "REJECTED"}
RowType ==
  [name : Names, status : Statuses, provider : {NoId} \cup [by : {"id", "name"}, of : Names],
   content : Contents \cup {"none"}, ts : Nat]
MetaType ==
  {[status |-> "none"]} \cup
  [status : {"PENDING", "APPROVED", "REJECTED"}, content : Contents \cup {"none"}]
Decision == [name : Names, status : {"APPROVED", "REJECTED"}, ts : Nat]

RowsType ==
  /\ rows \in [Ids -> RowType \cup {NoRow, Gone}]
  /\ \A i, k \in Ids : rows[i].name \in Names /\ rows[k].name = rows[i].name => k = i

EventType ==
  /\ meta \in [Names -> MetaType] /\ clock \in Nat
  /\ decisions \in [Jobs -> Decision \cup {NoDecision}]
  /\ processed \subseteq Jobs

RunType ==
  /\ wpc \in [Workers -> {"idle", "record", "apply", "complete", "threw"}]
  /\ cur \in [Workers -> Jobs \cup {0}]
  /\ \A w \in Workers : cur[w] = 0 <=> wpc[w] = "idle"

(* What a request keeps in its variables at a label. *)
MemFits(label, m) ==
  /\ label = "idle" => m = NoMem
  /\ label = "insert" => m \in [row : RowType]
  /\ label \in {"submit", "saveId"} => m \in [id : Ids, row : RowType]
  /\ label \in {"write", "change"} => m \in [id : Ids, old : Names, row : RowType]
  /\ label = "push" => m \in [todo : SUBSET [id : Ids, row : RowType]]
  /\ label = "pull" => m.fetched \in [Names -> MetaType] /\ m.todo \subseteq Existing(m.fetched)
  /\ label \in {"upsert", "clear"} =>
       /\ m \in [fetched : [Names -> MetaType], todo : SUBSET Names, name : Names, ts : Nat]
       /\ m.todo \cup {m.name} \subseteq Existing(m.fetched)

Labels ==
  {"idle", "insert", "submit", "saveId", "write", "change", "push", "pull", "upsert", "clear"}

SlotType ==
  /\ pc \in [Slots -> Labels]
  /\ DOMAIN mem = Slots
  /\ \A s \in Slots : MemFits(pc[s], mem[s])
  /\ {requests, faults} \subseteq Nat

CacheType ==
  /\ cache \in [Ids -> RowType \cup {NoRow}]
  /\ reading \in [Readers -> [id : Ids, row : RowType] \cup {NoRead}]

HistType == astray \subseteq Names /\ behind \subseteq Ids /\ renamed \subseteq Ids

(* A request has found or inserted the rows it knows. *)
RowsKnown ==
  \A s \in Slots :
    /\ pc[s] \in {"submit", "saveId", "write", "change"} => rows[mem[s].id] # NoRow
    /\ pc[s] = "push" => \A t \in mem[s].todo : rows[t.id] # NoRow

(* Every job is about a decision, and only jobs are run. *)
JobsKnown ==
  /\ \A j \in Jobs : decisions[j] = NoDecision => jobState[j] = "none"
  /\ \A w \in Workers : cur[w] # 0 => jobState[cur[w]] # "none"

(* Every variable keeps its type, and no name has two rows. *)
TypeOK ==
  /\ QueueType /\ RowsType /\ EventType /\ RunType /\ JobsKnown
  /\ SlotType /\ RowsKnown /\ CacheType /\ HistType

(* No event on n is under way. *)
Quiet(n) ==
  \A j \in Jobs : decisions[j].name = n => jobState[j] \in {"none", "completed", "failed"}

(* When Meta's decisions on a template have been worked off, in whatever     *)
(* order they came, the row has Meta's status.  Only these steps lead it     *)
(* astray: an update that writes another status or name, an edit that puts   *)
(* the template under review again, a sync that writes what it fetched       *)
(* before the decision, a row created for a template Meta knows already, an  *)
(* event that was not queued, or was recorded and then not applied, and an   *)
(* old event that comes after the row was deleted with what it knew.         *)
StatusFollowsMeta ==
  \A i \in Ids : LET n == rows[i].name IN
    n \in Names /\ Quiet(n) =>
      meta[n].status \in {"none", rows[i].status} \/ n \in astray

(* A cached row is the row of the database, unless a write that does not     *)
(* clear the cache came after it was read, a sync overtook the fetch, or a   *)
(* sync is about to clear it.                                                *)
CachedIsCurrent ==
  \A i \in Ids : cache[i] \notin {NoRow, rows[i]} =>
    i \in behind \/ \E s \in Slots : pc[s] = "clear" /\ mem[s].name = rows[i].name

(* A row with an id has been accepted by Meta: a template that never was is  *)
(* found by the push of the next sync, whatever failed on the way.  A row    *)
(* that was renamed keeps the id of its old name.                            *)
IdMeansSubmitted ==
  /\ TypeOK
  /\ \A i \in Ids \ renamed :
       rows[i].name \in Names /\ rows[i].provider # NoId => meta[rows[i].name].status # "none"

-----------------------------------------------------------------------------
(* Why they hold.                                                           *)

(* A row exists before a process reads it. *)
HeldExists == \A i \in Ids : rows[i] = NoRow => ~ Held(i)

(* A sync is about to clear row i, or nobody will. *)
Excused(i) == i \in behind \/ \E s \in Slots : pc[s] = "clear" /\ mem[s].name = rows[i].name

(* What a process has read, and will put in the cache, is as good as what is *)
(* in the cache.                                                             *)
ReadIsCurrent ==
  \A p \in Readers : reading[p] # NoRead /\ reading[p].row # rows[reading[p].id] =>
    Excused(reading[p].id)

CacheInv == HeldExists /\ ReadIsCurrent /\ CachedIsCurrent

(* Of a row that is there and keeps its name, a request knows the name. *)
NameHolds(i, n) == i \notin renamed => rows[i].name \in {n, "gone"}

RequestKnows(s) ==
  /\ pc[s] = "insert" => mem[s].row.provider = NoId
  /\ pc[s] \in {"submit", "change", "saveId"} => NameHolds(mem[s].id, mem[s].row.name)
  /\ pc[s] \in {"change", "saveId"} /\ mem[s].id \notin renamed /\ mem[s].row.provider # NoId =>
       meta[mem[s].row.name].status # "none"
  /\ pc[s] = "push" => \A t \in mem[s].todo : NameHolds(t.id, t.row.name)

SyncKnows(s) ==
  /\ pc[s] \in {"pull", "upsert", "clear"} => mem[s].todo \subseteq Existing(meta)
  /\ pc[s] \in {"upsert", "clear"} => mem[s].name \in Existing(meta)

(* What a request still has to write agrees with the row and with Meta. *)
IdInv == IdMeansSubmitted /\ \A s \in Slots : RequestKnows(s) /\ SyncKnows(s)

(* Decisions are about templates that Meta has, and none is of a later time. *)
DecisionsHold ==
  \A j \in Jobs : decisions[j] # NoDecision =>
    decisions[j].name \in Existing(meta) /\ decisions[j].ts <= clock

(* The job will be run, or the run has yet to decide what becomes of it. *)
Due(j) ==
  /\ jobState[j] \in {"waiting", "active", "delayed"}
  /\ ~ \E w \in Workers : wpc[w] = "complete" /\ cur[w] = j

(* The row has Meta's status, and no event can take it away. *)
Shows(i) ==
  LET n == rows[i].name
  IN rows[i].status = meta[n].status /\ ~ Late(n, rows[i].ts)

(* The last decision is under way, and no event can overrule it. *)
Coming(n) ==
  \E j \in Jobs :
    /\ decisions[j].name = n /\ decisions[j].status = meta[n].status
    /\ Due(j) /\ ~ Late(n, decisions[j].ts)

Followed(i) ==
  LET n == rows[i].name
  IN n \in Names \ astray /\ meta[n].status # "none" => Shows(i) \/ Coming(n)

FollowInv == DecisionsHold /\ \A i \in Ids : Followed(i)

=============================================================================
