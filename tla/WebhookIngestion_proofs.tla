------------------------ MODULE WebhookIngestion_proofs ------------------------
(* Theorems of WebhookIngestion, for every set of events and messages, every *)
(* number of processes and slots, every kind of failure and every bound.     *)
EXTENDS WebhookIngestion, FiniteSetTheorems, TLAPS

-----------------------------------------------------------------------------
(* Operators of the model.                                                 *)

LEMMA PayloadType ==
  ASSUME NEW e \in Jobs
  PROVE  /\ Len(Payload[e]) \in Nat /\ DOMAIN Payload[e] = 1..Len(Payload[e])
         /\ \A k \in 1..Len(Payload[e]) : Payload[e][k] \in Messages \cup StatusEvents
BY IngestionAssumption

(* What a run has an event for, and a transaction a message. *)
LEMMA RunHasEvent ==
  ASSUME TypeOK, NEW w \in Workers, pc[w] # "idle"
  PROVE  /\ cur[w] \in Jobs /\ pos[w] \in Nat \ {0}
         /\ Transacting(w) => /\ pos[w] \in DOMAIN Payload[cur[w]]
                              /\ Item(w) \in Messages /\ Item(w) \notin UnknownNumber
                              /\ Sender[Item(w)] \in Customers
<1>1. cur[w] \in Jobs /\ pos[w] \in Nat \ {0}
  BY DEF TypeOK, WorkerType
<1>2. ASSUME Transacting(w)
      PROVE  pos[w] \in DOMAIN Payload[cur[w]] /\ Item(w) \in Messages /\ Item(w) \notin UnknownNumber
  BY <1>1, <1>2, PayloadType DEF TypeOK, WorkerType
<1> QED BY <1>1, <1>2 DEF Customers

LEMMA ConvIsConversation ==
  ASSUME TypeOK, NEW i \in DOMAIN convs
  PROVE  /\ convs[i] \in Conversation /\ i \in Nat \ {0} /\ i <= Len(convs)
         /\ convs[i].unread \in Nat /\ convs[i].version \in Nat /\ convs[i].customer \in Customers
<1>1. convs \in Seq(Conversation) /\ Len(convs) \in Nat /\ i \in 1..Len(convs)
  BY DEF TypeOK, DbType
<1>2. convs[i] \in Conversation
  BY <1>1
<1> QED BY <1>1, <1>2 DEF Conversation

(* A conversation that gets a message keeps its customer. *)
LEMMA WithMessageIs ==
  ASSUME NEW c \in Conversation, NEW m \in Messages
  PROVE  /\ WithMessage(c, m) \in Conversation
         /\ WithMessage(c, m).customer = c.customer
         /\ WithMessage(c, m).unread = c.unread + 1
         /\ WithMessage(c, m).version = c.version + 1
<1>1. SentAt[m] \in Nat
  BY IngestionAssumption
<1>2. c.version + 1 \in Nat /\ c.unread + 1 \in Nat
  BY DEF Conversation
<1> DEFINE d == [c EXCEPT !.last = SentAt[m]]
           e == [d EXCEPT !.unread = c.unread + 1]
           f == [e EXCEPT !.version = c.version + 1]
<1>3. /\ d \in Conversation /\ d.customer = c.customer
      /\ d.unread = c.unread /\ d.version = c.version
  BY <1>1 DEF Conversation
<1> HIDE DEF d
<1>4. /\ e \in Conversation /\ e.customer = c.customer
      /\ e.unread = c.unread + 1 /\ e.version = c.version
  BY <1>2, <1>3 DEF Conversation
<1> HIDE DEF e
<1>5. /\ f \in Conversation /\ f.customer = c.customer
      /\ f.unread = c.unread + 1 /\ f.version = c.version + 1
  BY <1>2, <1>4 DEF Conversation
<1>6. WithMessage(c, m) = f
  BY DEF WithMessage, d, e
<1> QED BY <1>5, <1>6

LEMMA NewConversationIs ==
  ASSUME NEW c \in Customers
  PROVE  /\ NewConversation(c) \in Conversation /\ NewConversation(c).customer = c
         /\ NewConversation(c).unread = 0 /\ NewConversation(c).version = 1
BY DEF NewConversation, Conversation

LEMMA SenderIsCustomer ==
  ASSUME NEW m \in Messages
  PROVE  Sender[m] \in Customers
BY DEF Customers

-----------------------------------------------------------------------------
(* Frames.                                                                 *)

HttpStep(n) ==
  \/ \E e \in Jobs : LogEvent(n, e) \/ RejectDuplicate(n, e)
  \/ EnqueueEvent(n) \/ EnqueueFails(n)

QueueStep(e) == BackoffElapsed(e) \/ RecoverOrphan(e) \/ LockExpires(e) \/ RetryFailedJob(e)

(* The kinds of steps. *)
LEMMA Steps ==
  ASSUME [Next]_vars
  PROVE  \/ \E n \in Nodes : HttpStep(n) \/ Crash(n)
         \/ \E w \in Workers : TakeEvent(w) \/ WorkerStep(w)
         \/ \E e \in Jobs : QueueStep(e)
         \/ UNCHANGED vars
BY DEF Next, HttpStep, QueueStep

LEMMA HttpKeepsRest ==
  ASSUME NEW n \in Nodes, HttpStep(n)
  PROVE  UNCHANGED <<workerVars, dbVars, mediaJobs, stalledCount, lock, attemptsMade>>
BY DEF HttpStep, LogEvent, RejectDuplicate, EnqueueEvent, EnqueueFails, Add, queueVars

LEMMA QueueKeepsRest ==
  ASSUME NEW e \in Jobs, QueueStep(e)
  PROVE  UNCHANGED <<row, workerVars, dbVars, mediaJobs, httpVars>>
BY DEF QueueStep, BackoffElapsed, RecoverOrphan, LockExpires, RetryFailedJob

LEMMA RunsKeepHttp ==
  ASSUME NEW w \in Workers, TakeEvent(w) \/ WorkerStep(w)
  PROVE  UNCHANGED httpVars
BY DEF TakeEvent, WorkerStep, ReadFails, SkipUnknownNumber, FindConversation, SkipExisting, CheckMessage,
   InsertMessage, QueueMedia, CommitMessage, CommitFails, RecordStatus, MarkProcessed, MarkFailed,
   JobCompleted, JobThrew

(* A step of one slot leaves the others where they are. *)
LEMMA OwnRunOnly ==
  ASSUME TypeOK, NEW w \in Workers, NEW v \in Workers, v # w, TakeEvent(w) \/ WorkerStep(w)
  PROVE  /\ pc'[v] = pc[v] /\ cur'[v] = cur[v] /\ pos'[v] = pos[v] /\ conv'[v] = conv[v]
         /\ Item(v)' = Item(v) /\ (Transacting(v)' <=> Transacting(v))
<1>1. pc'[v] = pc[v] /\ cur'[v] = cur[v] /\ pos'[v] = pos[v] /\ conv'[v] = conv[v]
  BY DEF TakeEvent, WorkerStep, ReadFails, SkipUnknownNumber, FindConversation, SkipExisting, CheckMessage,
     InsertMessage, QueueMedia, CommitMessage, CommitFails, RecordStatus, MarkProcessed, MarkFailed,
     JobCompleted, JobThrew, Goto, NextItem, Release, TypeOK, WorkerType
<1> QED BY <1>1 DEF Item, Transacting

(* Which steps of a slot write to PostgreSQL. *)
LEMMA WhoWrites ==
  ASSUME NEW w \in Workers, TakeEvent(w) \/ WorkerStep(w)
  PROVE  /\ \/ CommitMessage(w)
            \/ UNCHANGED <<stored, received>> /\ (SkipExisting(w) \/ UNCHANGED convs)
         /\ RecordStatus(w) \/ UNCHANGED recorded
         /\ QueueMedia(w) \/ UNCHANGED mediaJobs
         /\ MarkProcessed(w) \/ MarkFailed(w) \/ UNCHANGED row
BY DEF TakeEvent, WorkerStep, ReadFails, SkipUnknownNumber, FindConversation, SkipExisting, CheckMessage,
   InsertMessage, QueueMedia, CommitMessage, CommitFails, RecordStatus, MarkProcessed, MarkFailed,
   JobCompleted, JobThrew, dbVars

(* What a step of a slot does to where it is. *)
LEMMA OwnMove ==
  ASSUME TypeOK, NEW w \in Workers, TakeEvent(w) \/ WorkerStep(w)
  PROVE  \/ /\ cur'[w] = cur[w] /\ pos'[w] = pos[w] /\ Item(w)' = Item(w) /\ pc[w] # "idle" /\ pc'[w] # "idle"
            /\ \/ conv'[w] = conv[w] /\ (Transacting(w)' => Transacting(w))
               \/ FindConversation(w)
         \/ /\ cur'[w] = cur[w] /\ pos'[w] = pos[w] + 1 /\ pc'[w] = "item" /\ conv'[w] = 0
            /\ SkipUnknownNumber(w) \/ SkipExisting(w) \/ CommitMessage(w) \/ RecordStatus(w)
            /\ pc[w] # "idle"
         \/ /\ pc'[w] = "idle" /\ cur'[w] = NoEvent /\ pos'[w] = 1 /\ conv'[w] = 0
            /\ JobCompleted(w) \/ JobThrew(w)
         \/ /\ TakeEvent(w) /\ pc'[w] = "item" /\ cur'[w] \in Jobs /\ pos'[w] = 1 /\ pos[w] = 1
            /\ conv'[w] = conv[w]
<1> USE DEF TypeOK, WorkerType, Goto
<1>1. CASE TakeEvent(w)
  BY <1>1 DEF TakeEvent
<1>2. CASE JobCompleted(w) \/ JobThrew(w)
  BY <1>2 DEF JobCompleted, JobThrew, Release
<1>3. CASE SkipUnknownNumber(w) \/ SkipExisting(w) \/ CommitMessage(w) \/ RecordStatus(w)
  <2>1. NextItem(w) /\ UNCHANGED cur /\ pc[w] # "idle"
    BY <1>3 DEF SkipUnknownNumber, AtMessage, SkipExisting, CommitMessage, RecordStatus
  <2> QED BY <1>3, <2>1 DEF NextItem
<1>4. CASE FindConversation(w)
  BY <1>4 DEF FindConversation, AtMessage, Item
<1>5. CASE \/ ReadFails(w) \/ CheckMessage(w) \/ InsertMessage(w) \/ QueueMedia(w) \/ CommitFails(w)
           \/ MarkProcessed(w) \/ MarkFailed(w)
  <2>1. UNCHANGED <<cur, pos, conv>> /\ pc[w] # "idle" /\ pc'[w] # "idle"
    BY <1>5 DEF ReadFails, CheckMessage, InsertMessage, QueueMedia, CommitFails, MarkProcessed, MarkFailed
  <2>2. Transacting(w)' => Transacting(w)
    BY <1>5 DEF ReadFails, CheckMessage, InsertMessage, QueueMedia, CommitFails, MarkProcessed, MarkFailed,
       Transacting
  <2> QED BY <2>1, <2>2 DEF Item
<1> QED BY <1>1, <1>2, <1>3, <1>4, <1>5 DEF WorkerStep

-----------------------------------------------------------------------------
(* Type correctness.                                                       *)

LEMMA UnchangedTypes ==
  ASSUME TypeOK
  PROVE  /\ UNCHANGED queueVars => QueueType'
         /\ UNCHANGED <<row, dbVars, mediaJobs>> => DbType'
         /\ UNCHANGED httpVars => HttpType'
         /\ UNCHANGED <<workerVars, convs>> => WorkerType'
<1> USE DEF TypeOK
<1>1. UNCHANGED queueVars => QueueType'
  BY DEF QueueType, queueVars
<1>2. UNCHANGED <<row, dbVars, mediaJobs>> => DbType'
  BY DEF DbType, dbVars
<1>3. UNCHANGED httpVars => HttpType'
  BY DEF HttpType, httpVars
<1>4. UNCHANGED <<workerVars, convs>> => WorkerType'
  BY DEF WorkerType, workerVars, Transacting, Item
<1> QED BY <1>1, <1>2, <1>3, <1>4

LEMMA QueueStays ==
  ASSUME TypeOK,
         \/ \E e \in Jobs : QueueStep(e) \/ Add(e)
         \/ \E w \in Workers : TakeEvent(w) \/ WorkerStep(w)
         \/ \E n \in Nodes : HttpStep(n) \/ Crash(n)
         \/ UNCHANGED queueVars
  PROVE  QueueType'
<1> USE DEF TypeOK
<1>1. ASSUME NEW e \in Jobs, PutBack(e)
      PROVE  QueueType'
  <2>1. stalledCount' = [stalledCount EXCEPT ![e] = @ + 1] \/ UNCHANGED stalledCount
    BY <1>1 DEF PutBack
  <2>2. stalledCount' \in [Jobs -> Nat]
    BY <2>1 DEF QueueType
  <2> QED BY <1>1, <2>2 DEF PutBack, QueueType
<1>2. ASSUME NEW e \in Jobs, Add(e) \/ BackoffOver(e) \/ Retry(e)
      PROVE  QueueType'
  BY <1>2 DEF Add, BackoffOver, Retry, QueueType
<1>3. ASSUME NEW w \in Workers, TakeEvent(w)
      PROVE  QueueType'
  BY <1>3 DEF TakeEvent, Take, QueueType
<1>4. ASSUME NEW w \in Workers, NEW e \in Jobs, NEW state \in {"completed", "delayed", "failed"}, NEW made \in Nat,
             Settle(w, e, state, made)
      PROVE  QueueType'
  BY <1>4, UnchangedTypes DEF Settle, QueueType
<1>5. ASSUME NEW w \in Workers, JobCompleted(w) \/ JobThrew(w)
      PROVE  QueueType'
  <2>1. cur[w] \in Jobs
    BY <1>5, RunHasEvent DEF JobCompleted, JobThrew
  <2>2. attemptsMade[cur[w]] \in Nat /\ attemptsMade[cur[w]] + 1 \in Nat
    BY <2>1 DEF QueueType
  <2> QED BY <1>4, <1>5, <2>1, <2>2 DEF JobCompleted, JobThrew, Complete, Threw
<1>6. ASSUME NEW n \in Nodes, Crash(n)
      PROVE  QueueType'
  BY <1>6 DEF Crash, DropLocks, QueueType
<1>7. CASE UNCHANGED queueVars
  BY <1>7, UnchangedTypes
<1>8. ASSUME NEW n \in Nodes, HttpStep(n)
      PROVE  QueueType'
  BY <1>2, <1>7, <1>8 DEF HttpStep, LogEvent, RejectDuplicate, EnqueueEvent, EnqueueFails, HttpType
<1>9. ASSUME NEW w \in Workers, WorkerStep(w)
      PROVE  QueueType'
  BY <1>5, <1>7, <1>9 DEF WorkerStep, ReadFails, SkipUnknownNumber, FindConversation, SkipExisting,
     CheckMessage, InsertMessage, QueueMedia, CommitMessage, CommitFails, RecordStatus, MarkProcessed, MarkFailed
<1> QED BY <1>1, <1>2, <1>3, <1>6, <1>7, <1>8, <1>9
     DEF QueueStep, BackoffElapsed, RecoverOrphan, LockExpires, RetryFailedJob

LEMMA NewConv ==
  ASSUME TypeOK, NEW c \in Conversation, convs' = Append(convs, c)
  PROVE  /\ convs' \in Seq(Conversation)
         /\ Len(convs) \in Nat /\ Len(convs') = Len(convs) + 1
         /\ DOMAIN convs' = DOMAIN convs \cup {Len(convs) + 1} /\ Len(convs) + 1 \notin DOMAIN convs
         /\ convs'[Len(convs) + 1] = c
         /\ \A j \in DOMAIN convs : convs'[j] = convs[j]
<1>1. convs \in Seq(Conversation) /\ Len(convs) \in Nat /\ DOMAIN convs = 1..Len(convs)
  BY DEF TypeOK, DbType
<1>2. convs' \in Seq(Conversation) /\ Len(convs') = Len(convs) + 1 /\ DOMAIN convs' = 1..(Len(convs) + 1)
  BY <1>1
<1> QED BY <1>1, <1>2

(* What a committed message does to the conversations. *)
LEMMA CommitIs ==
  ASSUME TypeOK, NEW w \in Workers, CommitMessage(w)
  PROVE  LET m == Item(w)
             i == IF conv[w] = 0 THEN Len(convs) + 1 ELSE conv[w]
         IN /\ m \in Messages /\ i \in Nat \ {0}
            /\ convs' \in Seq(Conversation) /\ Len(convs) <= Len(convs') /\ i <= Len(convs')
            /\ DOMAIN convs' = DOMAIN convs \cup {i}
            /\ (i \in DOMAIN convs) = (conv[w] # 0)
            /\ \A j \in DOMAIN convs : j # i => convs'[j] = convs[j]
            /\ i \in DOMAIN convs => /\ convs'[i].customer = convs[i].customer
                                     /\ convs'[i].unread = convs[i].unread + 1
                                     /\ convs'[i].version = convs[i].version + 1
            /\ i \notin DOMAIN convs => /\ convs'[i].customer = Sender[m]
                                        /\ convs'[i].unread = 1 /\ convs'[i].version = 2
            /\ stored' = [stored EXCEPT ![m] = i] /\ received' = [received EXCEPT ![m] = @ + 1]
<1> DEFINE m == Item(w)
           i == IF conv[w] = 0 THEN Len(convs) + 1 ELSE conv[w]
<1>1. m \in Messages /\ Sender[m] \in Customers
  BY RunHasEvent, SenderIsCustomer DEF CommitMessage, Transacting
<1>2. convs \in Seq(Conversation) /\ Len(convs) \in Nat /\ DOMAIN convs = 1..Len(convs) /\ conv[w] \in 0..Len(convs)
  BY DEF TypeOK, DbType, WorkerType
<1>3. /\ convs' = IF conv[w] = 0
                  THEN Append(convs, WithMessage(NewConversation(Sender[m]), m))
                  ELSE [convs EXCEPT ![i] = WithMessage(@, m)]
      /\ stored' = [stored EXCEPT ![m] = i] /\ received' = [received EXCEPT ![m] = @ + 1]
  BY DEF CommitMessage
<1> HIDE DEF m
<1>4. CASE conv[w] = 0
  <2> DEFINE c == WithMessage(NewConversation(Sender[m]), m)
  <2>1. c \in Conversation /\ c.customer = Sender[m] /\ c.unread = 0 + 1 /\ c.version = 1 + 1
    BY <1>1, NewConversationIs, WithMessageIs
  <2>2. convs' = Append(convs, c)
    BY <1>3, <1>4
  <2> HIDE DEF c
  <2> QED BY <1>1, <1>2, <1>3, <1>4, <2>1, <2>2, NewConv DEF m
<1>5. CASE conv[w] # 0
  <2>1. i = conv[w] /\ i \in DOMAIN convs
    BY <1>2, <1>5
  <2> HIDE DEF i
  <2>2. convs[i] \in Conversation
    BY <1>2, <2>1
  <2> DEFINE c == WithMessage(convs[i], m)
  <2>3. /\ c \in Conversation /\ c.customer = convs[i].customer
        /\ c.unread = convs[i].unread + 1 /\ c.version = convs[i].version + 1
    BY <1>1, <2>2, WithMessageIs
  <2>4. convs' = [convs EXCEPT ![i] = c]
    BY <1>3, <1>5 DEF i
  <2> HIDE DEF c
  <2>5. convs' \in Seq(Conversation) /\ Len(convs') = Len(convs) /\ DOMAIN convs' = DOMAIN convs
    BY <1>2, <2>1, <2>3, <2>4
  <2>6. convs'[i] = c /\ \A j \in DOMAIN convs : j # i => convs'[j] = convs[j]
    BY <1>2, <2>1, <2>4
  <2> QED BY <1>1, <1>2, <1>3, <1>5, <2>1, <2>3, <2>5, <2>6 DEF m, i
<1> QED BY <1>4, <1>5

(* The message had a row already: an empty conversation may be created. *)
LEMMA SkipIs ==
  ASSUME TypeOK, NEW w \in Workers, SkipExisting(w)
  PROVE  LET i == Len(convs) + 1
         IN \/ UNCHANGED convs /\ conv[w] # 0
            \/ /\ conv[w] = 0 /\ i \in Nat \ {0}
               /\ convs' \in Seq(Conversation) /\ Len(convs) <= Len(convs')
               /\ DOMAIN convs' = DOMAIN convs \cup {i} /\ i \notin DOMAIN convs
               /\ \A j \in DOMAIN convs : convs'[j] = convs[j]
               /\ convs'[i].customer = Sender[Item(w)]
               /\ convs'[i].unread = 0 /\ convs'[i].version = 1
<1>1. CASE conv[w] # 0
  BY <1>1 DEF SkipExisting
<1>2. CASE conv[w] = 0
  <2> DEFINE c == NewConversation(Sender[Item(w)])
  <2>1. Sender[Item(w)] \in Customers
    BY RunHasEvent DEF SkipExisting, Transacting
  <2>2. c \in Conversation /\ c.customer = Sender[Item(w)] /\ c.unread = 0 /\ c.version = 1
    BY <2>1, NewConversationIs
  <2>3. convs' = Append(convs, c)
    BY <1>2 DEF SkipExisting
  <2> HIDE DEF c
  <2> QED BY <1>2, <2>2, <2>3, NewConv
<1> QED BY <1>1, <1>2

(* Conversations are never deleted, and stay their customers'. *)
LEMMA ConvsGrow ==
  ASSUME TypeOK, [Next]_vars
  PROVE  /\ convs' \in Seq(Conversation) /\ Len(convs) <= Len(convs')
         /\ \A i \in DOMAIN convs : i \in DOMAIN convs' /\ convs'[i].customer = convs[i].customer
<1>0. convs \in Seq(Conversation) /\ Len(convs) \in Nat
  BY DEF TypeOK, DbType
<1>1. CASE UNCHANGED convs
  BY <1>0, <1>1
<1>2. ASSUME NEW w \in Workers, CommitMessage(w)
      PROVE  /\ convs' \in Seq(Conversation) /\ Len(convs) <= Len(convs')
             /\ \A i \in DOMAIN convs : i \in DOMAIN convs' /\ convs'[i].customer = convs[i].customer
  BY <1>2, CommitIs
<1>3. ASSUME NEW w \in Workers, SkipExisting(w)
      PROVE  /\ convs' \in Seq(Conversation) /\ Len(convs) <= Len(convs')
             /\ \A i \in DOMAIN convs : i \in DOMAIN convs' /\ convs'[i].customer = convs[i].customer
  BY <1>0, <1>1, <1>3, SkipIs
<1> QED BY <1>1, <1>2, <1>3, Steps, WhoWrites, HttpKeepsRest, QueueKeepsRest DEF Crash, dbVars, vars

LEMMA DbStays ==
  ASSUME TypeOK, [Next]_vars
  PROVE  DbType'
<1>1. row' \in [Jobs -> {"none", "PENDING", "PROCESSED", "FAILED"}]
  <2>1. CASE UNCHANGED row
    BY <2>1 DEF TypeOK, DbType
  <2>2. ASSUME NEW n \in Nodes, HttpStep(n)
        PROVE  row' \in [Jobs -> {"none", "PENDING", "PROCESSED", "FAILED"}]
    BY <2>2 DEF HttpStep, LogEvent, RejectDuplicate, EnqueueEvent, EnqueueFails, TypeOK, DbType
  <2>3. ASSUME NEW w \in Workers, MarkProcessed(w) \/ MarkFailed(w)
        PROVE  row' \in [Jobs -> {"none", "PENDING", "PROCESSED", "FAILED"}]
    BY <2>3 DEF MarkProcessed, MarkFailed, TypeOK, DbType
  <2> QED BY <2>1, <2>2, <2>3, Steps, WhoWrites, QueueKeepsRest DEF Crash, vars
<1>2. /\ stored' \in [Messages -> Nat] /\ received' \in [Messages -> Nat]
      /\ \A m \in Messages : stored'[m] <= Len(convs')
  <2>1. CASE UNCHANGED <<stored, received>>
    BY <2>1, ConvsGrow DEF TypeOK, DbType
  <2>2. ASSUME NEW w \in Workers, CommitMessage(w)
        PROVE  /\ stored' \in [Messages -> Nat] /\ received' \in [Messages -> Nat]
               /\ \A m \in Messages : stored'[m] <= Len(convs')
    <3> DEFINE m == Item(w)
               i == IF conv[w] = 0 THEN Len(convs) + 1 ELSE conv[w]
    <3>1. /\ m \in Messages /\ i \in Nat /\ i <= Len(convs') /\ Len(convs) <= Len(convs')
          /\ stored' = [stored EXCEPT ![m] = i] /\ received' = [received EXCEPT ![m] = @ + 1]
          /\ convs' \in Seq(Conversation)
      BY <2>2, CommitIs
    <3> HIDE DEF m, i
    <3>2. Len(convs) \in Nat /\ Len(convs') \in Nat
      BY <3>1 DEF TypeOK, DbType
    <3>3. stored' \in [Messages -> Nat] /\ \A x \in Messages : stored'[x] <= Len(convs')
      BY <3>1, <3>2 DEF TypeOK, DbType
    <3>4. received' \in [Messages -> Nat]
      BY <3>1 DEF TypeOK, DbType
    <3> QED BY <3>3, <3>4
  <2> QED BY <2>1, <2>2, Steps, WhoWrites, HttpKeepsRest, QueueKeepsRest DEF Crash, dbVars, vars
<1>3. recorded' \in [StatusEvents -> Nat]
  <2>1. CASE UNCHANGED recorded
    BY <2>1 DEF TypeOK, DbType
  <2>2. ASSUME NEW w \in Workers, RecordStatus(w)
        PROVE  recorded' \in [StatusEvents -> Nat]
    BY <2>2 DEF RecordStatus, TypeOK, DbType
  <2> QED BY <2>1, <2>2, Steps, WhoWrites, HttpKeepsRest, QueueKeepsRest DEF Crash, dbVars, vars
<1>4. mediaJobs' \in [Messages -> Nat]
  <2>1. CASE UNCHANGED mediaJobs
    BY <2>1 DEF TypeOK, DbType
  <2>2. ASSUME NEW w \in Workers, QueueMedia(w)
        PROVE  mediaJobs' \in [Messages -> Nat]
    <3>1. mediaJobs' = [mediaJobs EXCEPT ![Item(w)] = @ + 1] \/ UNCHANGED mediaJobs
      BY <2>2 DEF QueueMedia
    <3> QED BY <3>1 DEF TypeOK, DbType
  <2> QED BY <2>1, <2>2, Steps, WhoWrites, HttpKeepsRest, QueueKeepsRest DEF Crash, vars
<1> QED BY <1>1, <1>2, <1>3, <1>4, ConvsGrow DEF DbType

LEMMA WorkersStay ==
  ASSUME TypeOK, [Next]_vars
  PROVE  WorkerType'
<1>0. Len(convs) \in Nat /\ Len(convs') \in Nat /\ Len(convs) <= Len(convs')
  BY ConvsGrow DEF TypeOK, DbType
<1>1. CASE UNCHANGED workerVars
  BY <1>0, <1>1 DEF workerVars, Transacting, Item, TypeOK, WorkerType
<1>2. ASSUME NEW w \in Workers, TakeEvent(w) \/ WorkerStep(w)
      PROVE  WorkerType'
  <2>1. /\ pc' \in [Workers -> {"idle", "item", "check", "insert", "media", "commit", "catch", "threw", "complete"}]
        /\ cur' \in [Workers -> Jobs \cup {NoEvent}]
    BY <1>2 DEF TakeEvent, WorkerStep, ReadFails, SkipUnknownNumber, FindConversation, SkipExisting, CheckMessage,
       InsertMessage, QueueMedia, CommitMessage, CommitFails, RecordStatus, MarkProcessed, MarkFailed,
       JobCompleted, JobThrew, Goto, NextItem, Release, TypeOK, WorkerType
  <2>2. /\ pos' \in [Workers -> Nat \ {0}]
    <3>1. \/ UNCHANGED pos \/ pos' = [pos EXCEPT ![w] = 1]
          \/ pos' = [pos EXCEPT ![w] = @ + 1]
      BY <1>2 DEF TakeEvent, WorkerStep, ReadFails, SkipUnknownNumber, FindConversation, SkipExisting, CheckMessage,
         InsertMessage, QueueMedia, CommitMessage, CommitFails, RecordStatus, MarkProcessed, MarkFailed,
         JobCompleted, JobThrew, NextItem, Release
    <3> QED BY <3>1 DEF TypeOK, WorkerType
  <2>3. ASSUME FindConversation(w)
        PROVE  conv' \in [Workers -> Nat] /\ conv'[w] \in 0..Len(convs)
    <3>1. \E i \in {0} \cup DOMAIN convs : conv' = [conv EXCEPT ![w] = i]
      BY <2>3 DEF FindConversation
    <3>2. DOMAIN convs = 1..Len(convs)
      BY DEF TypeOK, DbType
    <3> QED BY <1>0, <3>1, <3>2 DEF TypeOK, WorkerType
  <2>4. conv' \in [Workers -> Nat]
    <3>1. \/ UNCHANGED conv \/ conv' = [conv EXCEPT ![w] = 0] \/ FindConversation(w)
      BY <1>2 DEF TakeEvent, WorkerStep, ReadFails, SkipUnknownNumber, SkipExisting, CheckMessage,
         InsertMessage, QueueMedia, CommitMessage, CommitFails, RecordStatus, MarkProcessed, MarkFailed,
         JobCompleted, JobThrew, NextItem, Release
    <3>2. CASE UNCHANGED conv
      BY <3>2 DEF TypeOK, WorkerType
    <3>3. CASE conv' = [conv EXCEPT ![w] = 0]
      BY <3>3 DEF TypeOK, WorkerType
    <3> QED BY <2>3, <3>1, <3>2, <3>3
  <2>5. ASSUME NEW v \in Workers
        PROVE  /\ cur'[v] = NoEvent <=> pc'[v] = "idle"
               /\ pc'[v] = "idle" => pos'[v] = 1
               /\ conv'[v] \in 0..Len(convs')
               /\ Transacting(v)' =>
                    pos'[v] <= Len(Payload[cur'[v]]) /\ Item(v)' \in Messages \ UnknownNumber
    <3>1. CASE v # w
      BY <1>0, <1>2, <3>1, OwnRunOnly DEF TypeOK, WorkerType
    <3>2. CASE v = w
      <4>1. conv[w] \in 0..Len(convs) /\ (cur[w] = NoEvent <=> pc[w] = "idle") /\ NoEvent \notin Jobs
        BY IngestionAssumption DEF TypeOK, WorkerType
      <4>2. (cur'[w] = NoEvent <=> pc'[w] = "idle") /\ (pc'[w] = "idle" => pos'[w] = 1)
        BY <1>2, <4>1, OwnMove
      <4>3. conv'[w] \in 0..Len(convs')
        <5>1. conv'[w] \in 0..Len(convs)
          BY <1>0, <1>2, <2>3, <4>1, OwnMove
        <5> QED BY <1>0, <5>1
      <4>4. ASSUME Transacting(w)'
            PROVE  pos'[w] <= Len(Payload[cur'[w]]) /\ Item(w)' \in Messages \ UnknownNumber
        <5>1. CASE FindConversation(w)
          <6>1. cur'[w] = cur[w] /\ pos'[w] = pos[w] /\ Item(w)' = Item(w)
            BY <5>1 DEF FindConversation, Item
          <6> QED BY <5>1, <6>1 DEF FindConversation, AtMessage
        <5>2. CASE ~FindConversation(w)
          <6>1. /\ Transacting(w) /\ cur'[w] = cur[w] /\ pos'[w] = pos[w] /\ Item(w)' = Item(w)
            BY <1>2, <4>4, <5>2, OwnMove DEF Transacting
          <6> QED BY <6>1 DEF TypeOK, WorkerType
        <5> QED BY <5>1, <5>2
      <4> QED BY <3>2, <4>2, <4>3, <4>4
    <3> QED BY <3>1, <3>2
  <2> QED BY <2>1, <2>2, <2>4, <2>5 DEF WorkerType
<1>3. ASSUME NEW n \in Nodes, Crash(n)
      PROVE  WorkerType'
  BY <1>0, <1>3 DEF Crash, Transacting, Item, TypeOK, WorkerType
<1> QED BY <1>1, <1>2, <1>3, Steps, HttpKeepsRest, QueueKeepsRest DEF vars

LEMMA TypeStep ==
  ASSUME TypeOK, [Next]_vars
  PROVE  TypeOK'
<1>1. QueueType'
  BY Steps, QueueStays DEF vars
<1>2. HttpType'
  <2>1. ASSUME NEW n \in Nodes, HttpStep(n) \/ Crash(n)
        PROVE  HttpType'
    BY <2>1 DEF HttpStep, LogEvent, RejectDuplicate, EnqueueEvent, EnqueueFails, Acknowledge, Crash, httpVars,
       TypeOK, HttpType
  <2> QED BY <2>1, Steps, RunsKeepHttp, QueueKeepsRest, UnchangedTypes DEF vars
<1>3. faults' \in Nat
  <2>1. UNCHANGED faults \/ faults' = faults + 1
    BY DEF Next, LogEvent, RejectDuplicate, EnqueueEvent, EnqueueFails, Acknowledge, Crash, TakeEvent, WorkerStep,
       ReadFails, SkipUnknownNumber, FindConversation, SkipExisting, CheckMessage, InsertMessage, QueueMedia,
       CommitMessage, CommitFails, RecordStatus, MarkProcessed, MarkFailed, JobCompleted, JobThrew,
       BackoffElapsed, RecoverOrphan, LockExpires, RetryFailedJob, Fault, vars
  <2> QED BY <2>1 DEF TypeOK
<1> QED BY <1>1, <1>2, <1>3, DbStays, WorkersStay DEF TypeOK

-----------------------------------------------------------------------------
(* A message is stored once.                                               *)

(* A crash takes runs away, and leaves the others. *)
LEMMA CrashLeaves ==
  ASSUME NEW n \in Nodes, Crash(n), NEW v \in Workers
  PROVE  /\ \/ pc'[v] = "idle" /\ cur'[v] = NoEvent
            \/ /\ pc'[v] = pc[v] /\ cur'[v] = cur[v] /\ pos'[v] = pos[v] /\ conv'[v] = conv[v]
               /\ Item(v)' = Item(v) /\ (Transacting(v)' <=> Transacting(v))
         /\ UNCHANGED <<row, dbVars, mediaJobs, jobState, stalledCount>>
<1>1. UNCHANGED <<row, dbVars, mediaJobs, jobState, stalledCount>>
  BY DEF Crash, DropLocks
<1>2. \/ pc'[v] = "idle" /\ cur'[v] = NoEvent
      \/ pc'[v] = pc[v] /\ cur'[v] = cur[v] /\ pos'[v] = pos[v] /\ conv'[v] = conv[v]
  BY DEF Crash
<1> QED BY <1>1, <1>2 DEF Item, Transacting

(* Steps in which a slot stays, or is cut off. *)
LEMMA SlotStays ==
  ASSUME TypeOK, [Next]_vars, NEW v \in Workers, ~TakeEvent(v), ~WorkerStep(v)
  PROVE  \/ pc'[v] = "idle" /\ cur'[v] = NoEvent
         \/ /\ pc'[v] = pc[v] /\ cur'[v] = cur[v] /\ pos'[v] = pos[v] /\ conv'[v] = conv[v]
            /\ Item(v)' = Item(v) /\ (Transacting(v)' <=> Transacting(v))
<1>1. CASE UNCHANGED workerVars
  BY <1>1 DEF workerVars, Item, Transacting
<1> QED BY <1>1, Steps, CrashLeaves, OwnRunOnly, HttpKeepsRest, QueueKeepsRest DEF vars

LEMMA CountGrows ==
  ASSUME NEW S, NEW f \in [S -> Nat], NEW g, NEW x, g = [f EXCEPT ![x] = @ + 1] \/ g = f, NEW y \in S, f[y] > 0
  PROVE  g[y] > 0
<1>1. g[y] = f[y] \/ g[y] = f[y] + 1
  OBVIOUS
<1>2. f[y] \in Nat
  OBVIOUS
<1> QED BY <1>1, <1>2

(* Rows of messages are not taken away, nor are download jobs and statuses. *)
LEMMA DataGrows ==
  ASSUME TypeOK, [Next]_vars
  PROVE  /\ \A m \in Messages : stored[m] # 0 => stored'[m] # 0
         /\ \A m \in Messages : mediaJobs[m] > 0 => mediaJobs'[m] > 0
         /\ \A s \in StatusEvents : recorded[s] > 0 => recorded'[s] > 0
<1>1. CASE UNCHANGED <<dbVars, mediaJobs>>
  BY <1>1 DEF dbVars
<1>2. ASSUME NEW w \in Workers, TakeEvent(w) \/ WorkerStep(w)
      PROVE  /\ \A m \in Messages : stored[m] # 0 => stored'[m] # 0
             /\ \A m \in Messages : mediaJobs[m] > 0 => mediaJobs'[m] > 0
             /\ \A s \in StatusEvents : recorded[s] > 0 => recorded'[s] > 0
  <2>1. \A m \in Messages : stored[m] # 0 => stored'[m] # 0
    <3>1. CASE CommitMessage(w)
      <4> DEFINE i == IF conv[w] = 0 THEN Len(convs) + 1 ELSE conv[w]
      <4>1. i # 0 /\ stored' = [stored EXCEPT ![Item(w)] = i]
        BY <3>1, CommitIs
      <4> HIDE DEF i
      <4> QED BY <4>1 DEF TypeOK, DbType
    <3> QED BY <1>2, <3>1, WhoWrites
  <2>2. \A m \in Messages : mediaJobs[m] > 0 => mediaJobs'[m] > 0
    <3>1. mediaJobs' = [mediaJobs EXCEPT ![Item(w)] = @ + 1] \/ UNCHANGED mediaJobs
      BY <1>2, WhoWrites DEF QueueMedia
    <3> QED BY <3>1, CountGrows DEF TypeOK, DbType
  <2>3. \A s \in StatusEvents : recorded[s] > 0 => recorded'[s] > 0
    <3>1. recorded' = [recorded EXCEPT ![Item(w)] = @ + 1] \/ UNCHANGED recorded
      BY <1>2, WhoWrites DEF RecordStatus
    <3> QED BY <3>1, CountGrows DEF TypeOK, DbType
  <2> QED BY <2>1, <2>2, <2>3
<1> QED BY <1>1, <1>2, Steps, HttpKeepsRest, QueueKeepsRest DEF Crash, vars

(* Whoever holds a key has just got it, or held it before. *)
LEMMA HoldsBefore ==
  ASSUME TypeOK, [Next]_vars, NEW v \in Workers, NEW m \in Messages, Holds(v, m)'
  PROVE  \/ Holds(v, m) /\ ~CommitMessage(v)
         \/ /\ InsertMessage(v) /\ Item(v) = m /\ stored[m] = 0 /\ stored'[m] = 0
            /\ \A u \in Workers : ~Holds(u, m)
<1>1. CASE InsertMessage(v)
  <2>1. Item(v)' = Item(v) /\ UNCHANGED stored
    BY <1>1 DEF InsertMessage, Item, dbVars
  <2>2. pc'[v] # "catch"
    BY DEF Holds
  <2> QED BY <1>1, <2>1, <2>2 DEF InsertMessage, Holds, Goto, TypeOK, WorkerType
<1>2. CASE WorkerStep(v) /\ ~InsertMessage(v)
  <2>1. CASE pc'[v] = "commit"
    <3>1. QueueMedia(v)
      BY <1>2, <2>1 DEF WorkerStep, ReadFails, SkipUnknownNumber, FindConversation, SkipExisting,
         CheckMessage, QueueMedia, CommitMessage, CommitFails, RecordStatus, MarkProcessed, MarkFailed, JobCompleted,
         JobThrew, NextItem, Release, Goto, TypeOK, WorkerType
    <3>2. Item(v)' = Item(v) /\ pc[v] = "media" /\ ~CommitMessage(v)
      BY <3>1 DEF QueueMedia, Item, CommitMessage
    <3> QED BY <3>2 DEF Holds
  <2>2. pc'[v] # "media"
    BY <1>2 DEF WorkerStep, ReadFails, SkipUnknownNumber, FindConversation, SkipExisting, CheckMessage, QueueMedia,
       CommitMessage, CommitFails, RecordStatus, MarkProcessed, MarkFailed, JobCompleted, JobThrew,
       NextItem, Release, Goto, TypeOK, WorkerType
  <2> QED BY <2>1, <2>2 DEF Holds
<1>3. CASE TakeEvent(v)
  BY <1>3 DEF TakeEvent, Goto, Holds, TypeOK, WorkerType
<1>4. CASE ~WorkerStep(v) /\ ~TakeEvent(v)
  BY <1>4, SlotStays DEF Holds, WorkerStep
<1> QED BY <1>1, <1>2, <1>3, <1>4 DEF WorkerStep

LEMMA KeyStep ==
  ASSUME TypeOK, KeyIsUnique, [Next]_vars
  PROVE  KeyIsUnique'
<1>1. SUFFICES ASSUME NEW m \in Messages, NEW w \in Workers, Holds(w, m)', NEW v \in Workers
               PROVE  stored'[m] = 0 /\ (Holds(v, m)' => v = w)
  BY DEF KeyIsUnique
<1>2. stored'[m] = 0
  <2>1. CASE Holds(w, m) /\ ~CommitMessage(w)
    <3>1. stored[m] = 0
      BY <2>1 DEF KeyIsUnique
    <3>2. ASSUME NEW u \in Workers, CommitMessage(u)
          PROVE  stored'[m] = stored[m]
      <4>1. Item(u) # m
        BY <2>1, <3>2 DEF KeyIsUnique, Holds, CommitMessage
      <4>2. PICK i : stored' = [stored EXCEPT ![Item(u)] = i]
        BY <3>2 DEF CommitMessage
      <4> QED BY <4>1, <4>2 DEF TypeOK, DbType
    <3>3. (\A u \in Workers : ~CommitMessage(u)) => UNCHANGED stored
      BY Steps, WhoWrites, HttpKeepsRest, QueueKeepsRest DEF Crash, dbVars, vars
    <3> QED BY <3>1, <3>2, <3>3
  <2> QED BY <1>1, <2>1, HoldsBefore
<1>3. ASSUME Holds(v, m)', v # w
      PROVE  FALSE
  <2>1. InsertMessage(v) \/ InsertMessage(w)
    BY <1>1, <1>3, HoldsBefore DEF KeyIsUnique
  <2>2. CASE InsertMessage(v) /\ InsertMessage(w)
    <3>1. pc[w] = "insert" /\ pc'[w] # "insert"
      BY <1>1, <2>2 DEF InsertMessage, Holds
    <3> QED BY <1>3, <2>2, <3>1, OwnRunOnly DEF WorkerStep
  <2>3. ASSUME NEW u \in Workers, NEW o \in Workers, InsertMessage(u), ~InsertMessage(o), Holds(u, m)', Holds(o, m)'
        PROVE  FALSE
    <3>1. ~Holds(u, m)
      BY <2>3 DEF InsertMessage, Holds
    <3>2. ~Holds(o, m)
      BY <2>3, <3>1, HoldsBefore
    <3> QED BY <2>3, <3>2, HoldsBefore
  <2> QED BY <1>1, <1>3, <2>1, <2>2, <2>3
<1> QED BY <1>2, <1>3

LEMMA FoundStep ==
  ASSUME TypeOK, FoundIsOwn, [Next]_vars
  PROVE  FoundIsOwn'
<1>1. SUFFICES ASSUME NEW v \in Workers, Transacting(v)', conv'[v] # 0
               PROVE  convs'[conv'[v]].customer = Sender[Item(v)']
  BY DEF FoundIsOwn
<1>2. DOMAIN convs = 1..Len(convs) /\ Len(convs) \in Nat
  BY DEF TypeOK, DbType
<1>3. CASE Transacting(v) /\ conv'[v] = conv[v] /\ Item(v)' = Item(v)
  <2>1. conv[v] \in DOMAIN convs
    BY <1>1, <1>2, <1>3 DEF TypeOK, WorkerType
  <2> QED BY <1>1, <1>3, <2>1, ConvsGrow DEF FoundIsOwn
<1>4. CASE FindConversation(v)
  <2>1. /\ conv'[v] \in DOMAIN convs /\ convs[conv'[v]].customer = Sender[Item(v)]
        /\ Item(v)' = Item(v) /\ UNCHANGED convs
    BY <1>1, <1>4 DEF FindConversation, Item, dbVars, TypeOK, WorkerType
  <2> QED BY <2>1
<1>5. CASE (TakeEvent(v) \/ WorkerStep(v)) /\ ~FindConversation(v)
  BY <1>1, <1>3, <1>5, OwnMove DEF Transacting
<1>6. CASE ~TakeEvent(v) /\ ~WorkerStep(v)
  BY <1>1, <1>3, <1>6, SlotStays DEF Transacting
<1> QED BY <1>4, <1>5, <1>6

LEMMA CountStep ==
  ASSUME TypeOK, CountedOnce, KeyIsUnique, FoundIsOwn, [Next]_vars
  PROVE  CountedOnce'
<1>1. TypeOK'
  BY TypeStep
<1>2. CASE UNCHANGED <<convs, stored, received>>
  BY <1>1, <1>2 DEF CountedOnce, In
<1>3. ASSUME NEW w \in Workers, CommitMessage(w)
      PROVE  CountedOnce'
  <2>1. PICK m, i :
        /\ m = Item(w) /\ i = IF conv[w] = 0 THEN Len(convs) + 1 ELSE conv[w]
        /\ m \in Messages /\ i \in Nat \ {0}
        /\ DOMAIN convs' = DOMAIN convs \cup {i}
        /\ (i \in DOMAIN convs) = (conv[w] # 0)
        /\ \A j \in DOMAIN convs : j # i => convs'[j] = convs[j]
        /\ i \in DOMAIN convs => /\ convs'[i].customer = convs[i].customer
                                 /\ convs'[i].unread = convs[i].unread + 1
                                 /\ convs'[i].version = convs[i].version + 1
        /\ i \notin DOMAIN convs => /\ convs'[i].customer = Sender[m]
                                    /\ convs'[i].unread = 1 /\ convs'[i].version = 2
        /\ stored' = [stored EXCEPT ![m] = i] /\ received' = [received EXCEPT ![m] = @ + 1]
    <3> WITNESS Item(w), IF conv[w] = 0 THEN Len(convs) + 1 ELSE conv[w]
    <3> QED BY <1>3, CommitIs
  <2>2. stored[m] = 0
    BY <1>3, <2>1 DEF KeyIsUnique, Holds, CommitMessage
  <2>3. i \in DOMAIN convs => convs[i].customer = Sender[m]
    BY <1>3, <2>1 DEF FoundIsOwn, CommitMessage, Transacting
  <2>4. i \notin DOMAIN convs => In(i) = {}
    <3>1. i \notin DOMAIN convs => i = Len(convs) + 1 /\ Len(convs) \in Nat
      BY <2>1 DEF TypeOK, DbType
    <3>2. \A x \in Messages : stored[x] \in Nat /\ stored[x] <= Len(convs)
      BY DEF TypeOK, DbType
    <3> QED BY <3>1, <3>2 DEF In
  <2>5. In(i)' = In(i) \cup {m} /\ m \notin In(i) /\ \A j \in Nat \ {0, i} : In(j)' = In(j)
    <3>1. \A x \in Messages : stored'[x] = IF x = m THEN i ELSE stored[x]
      BY <2>1 DEF TypeOK, DbType
    <3>2. m \notin In(i)
      BY <2>1, <2>2 DEF In
    <3>3. In(i)' = In(i) \cup {m}
      BY <2>1, <3>1 DEF In
    <3>4. \A j \in Nat \ {0, i} : In(j)' = In(j)
      BY <2>2, <3>1 DEF In
    <3> QED BY <3>2, <3>3, <3>4
  <2>6. IsFiniteSet(In(i)) /\ Cardinality(In(i)) \in Nat
    BY IngestionAssumption, FS_Subset, FS_CardinalityType DEF In
  <2>7. Cardinality(In(i)') = Cardinality(In(i)) + 1
    BY <2>5, <2>6, FS_AddElement
  <2>8. ASSUME NEW j \in DOMAIN convs'
        PROVE  /\ convs'[j].unread = Cardinality(In(j)')
               /\ convs'[j].version = 1 + convs'[j].unread
               /\ \A x \in In(j)' : Sender[x] = convs'[j].customer
    <3>1. CASE j # i
      <4>1. j \in DOMAIN convs /\ In(j)' = In(j) /\ convs'[j] = convs[j]
        BY <2>1, <2>5, <2>8, <3>1, ConvIsConversation
      <4> QED BY <4>1 DEF CountedOnce
    <3>2. CASE j = i /\ i \in DOMAIN convs
      <4>1. /\ convs[i].unread = Cardinality(In(i)) /\ convs[i].version = 1 + convs[i].unread
            /\ \A x \in In(i) : Sender[x] = convs[i].customer
        BY <3>2 DEF CountedOnce
      <4>2. convs'[i].unread = Cardinality(In(i)')
        BY <2>1, <2>7, <3>2, <4>1
      <4>3. convs'[i].version = 1 + convs'[i].unread
        BY <2>1, <3>2, <4>1, ConvIsConversation
      <4>4. \A x \in In(i)' : Sender[x] = convs'[i].customer
        BY <2>1, <2>3, <2>5, <3>2, <4>1
      <4> QED BY <3>2, <4>2, <4>3, <4>4
    <3>3. CASE j = i /\ i \notin DOMAIN convs
      <4>1. Cardinality(In(i)') = 1 /\ In(i)' = {m}
        BY <2>4, <2>5, <2>7, <3>3, FS_EmptySet
      <4>2. convs'[i].unread = Cardinality(In(i)') /\ convs'[i].version = 1 + convs'[i].unread
        BY <2>1, <3>3, <4>1
      <4>3. \A x \in In(i)' : Sender[x] = convs'[i].customer
        BY <2>1, <3>3, <4>1
      <4> QED BY <3>3, <4>2, <4>3
    <3> QED BY <3>1, <3>2, <3>3
  <2>9. ASSUME NEW x \in Messages
        PROVE  received'[x] = IF stored'[x] = 0 THEN 0 ELSE 1
    BY <2>1, <2>2 DEF CountedOnce, TypeOK, DbType
  <2> QED BY <1>1, <2>8, <2>9 DEF CountedOnce
<1>4. ASSUME NEW w \in Workers, SkipExisting(w), ~UNCHANGED convs
      PROVE  CountedOnce'
  <2>1. PICK i :
        /\ i = Len(convs) + 1
        /\ i \in Nat \ {0} /\ DOMAIN convs' = DOMAIN convs \cup {i} /\ i \notin DOMAIN convs
        /\ \A j \in DOMAIN convs : convs'[j] = convs[j]
        /\ convs'[i].unread = 0 /\ convs'[i].version = 1
    BY <1>4, SkipIs
  <2>2. UNCHANGED <<stored, received>>
    BY <1>4 DEF SkipExisting
  <2>3. In(i)' = {}
    <3>1. \A x \in Messages : stored[x] \in Nat /\ stored[x] <= Len(convs) /\ Len(convs) \in Nat
      BY DEF TypeOK, DbType
    <3>2. \A x \in Messages : stored[x] # i
      BY <2>1, <3>1
    <3> QED BY <2>2, <3>2 DEF In
  <2>4. ASSUME NEW j \in DOMAIN convs'
        PROVE  /\ convs'[j].unread = Cardinality(In(j)')
               /\ convs'[j].version = 1 + convs'[j].unread
               /\ \A x \in In(j)' : Sender[x] = convs'[j].customer
    <3>1. CASE j \in DOMAIN convs
      BY <2>1, <2>2, <3>1 DEF CountedOnce, In
    <3>2. CASE j = i
      <4>1. Cardinality(In(i)') = 0
        BY <2>3, FS_EmptySet
      <4> QED BY <2>1, <2>3, <3>2, <4>1
    <3> QED BY <2>1, <3>1, <3>2
  <2> QED BY <1>1, <2>2, <2>4 DEF CountedOnce
<1> QED BY <1>2, <1>3, <1>4, Steps, WhoWrites, HttpKeepsRest, QueueKeepsRest DEF Crash, SkipExisting, dbVars, vars

-----------------------------------------------------------------------------
(* A customer is split over few conversations.                             *)

LEMMA CustomersFinite ==
  ASSUME TypeOK, NEW c \in Customers
  PROVE  /\ IsFiniteSet(Owned(c)) /\ Cardinality(Owned(c)) \in Nat
         /\ IsFiniteSet(Racing(c)) /\ Cardinality(Racing(c)) \in Nat
         /\ Cardinality(Racing(c)) <= Cardinality(Workers) /\ Cardinality(Workers) \in Nat
<1>1. IsFiniteSet(1..Len(convs))
  <2>1. Len(convs) \in Nat
    BY DEF TypeOK, DbType
  <2> QED BY <2>1, FS_Interval
<1>2. Owned(c) \subseteq 1..Len(convs)
  BY DEF Owned, TypeOK, DbType
<1>3. Racing(c) \subseteq Workers /\ IsFiniteSet(Workers)
  BY IngestionAssumption DEF Racing
<1> QED BY <1>1, <1>2, <1>3, FS_Subset, FS_CardinalityType

LEMMA RacersStep ==
  ASSUME TypeOK, RacersAreFew, [Next]_vars
  PROVE  RacersAreFew'
<1>1. SUFFICES ASSUME NEW c \in Customers
               PROVE  Cardinality(Owned(c)') + Cardinality(Racing(c)') <= Cardinality(Workers)
  BY DEF RacersAreFew
<1>2. Cardinality(Owned(c)) + Cardinality(Racing(c)) <= Cardinality(Workers)
  BY DEF RacersAreFew
<1>3. TypeOK'
  BY TypeStep
<1>4. /\ IsFiniteSet(Owned(c)) /\ Cardinality(Owned(c)) \in Nat /\ Cardinality(Owned(c)') \in Nat
      /\ IsFiniteSet(Racing(c)) /\ Cardinality(Racing(c)) \in Nat /\ Cardinality(Racing(c)') \in Nat
      /\ Cardinality(Racing(c)') <= Cardinality(Workers) /\ Cardinality(Workers) \in Nat
  <2>1. Cardinality(Owned(c)') \in Nat
    <3>1. Len(convs') \in Nat /\ Owned(c)' \subseteq 1..Len(convs')
      BY <1>3 DEF Owned, TypeOK, DbType
    <3>2. IsFiniteSet(1..Len(convs'))
      BY <3>1, FS_Interval
    <3>3. IsFiniteSet(Owned(c)')
      BY <3>1, <3>2, FS_Subset
    <3> QED BY <3>3, FS_CardinalityType
  <2>2. Cardinality(Racing(c)') \in Nat /\ Cardinality(Racing(c)') <= Cardinality(Workers)
    <3>1. Racing(c)' \subseteq Workers /\ IsFiniteSet(Workers)
      BY IngestionAssumption DEF Racing
    <3> QED BY <3>1, FS_Subset, FS_CardinalityType
  <2> QED BY <2>1, <2>2, CustomersFinite
<1>5. CASE Owned(c)' = Owned(c) /\ Racing(c)' \subseteq Racing(c)
  <2>1. Cardinality(Racing(c)') <= Cardinality(Racing(c))
    BY <1>4, <1>5, FS_Subset
  <2> QED BY <1>2, <1>4, <1>5, <2>1
<1>6. ASSUME UNCHANGED convs
      PROVE  Owned(c)' = Owned(c)
  BY <1>6 DEF Owned
<1>7. ASSUME NEW w \in Workers, FindConversation(w)
      PROVE  Cardinality(Owned(c)') + Cardinality(Racing(c)') <= Cardinality(Workers)
  <2>1. UNCHANGED convs
    BY <1>7 DEF FindConversation, dbVars
  <2>2. \A v \in Workers : v # w => (v \in Racing(c)' <=> v \in Racing(c))
    BY <1>7, OwnRunOnly DEF Racing, WorkerStep
  <2>3. CASE Owned(c) = {}
    <3>1. Cardinality(Owned(c)') = 0
      BY <1>6, <2>1, <2>3, FS_EmptySet
    <3> QED BY <1>4, <3>1
  <2>4. CASE Owned(c) # {}
    <3>1. w \notin Racing(c)'
      <4>1. SUFFICES ASSUME Sender[Item(w)] = c
                     PROVE  conv'[w] # 0
        BY <1>7 DEF Racing, FindConversation, Item
      <4>2. \E i \in Owned(c) : conv' = [conv EXCEPT ![w] = i]
        BY <1>7, <2>4, <4>1 DEF FindConversation, Owned
      <4>3. 0 \notin Owned(c)
        BY DEF Owned, TypeOK, DbType
      <4> QED BY <4>2, <4>3 DEF TypeOK, WorkerType
    <3>2. Racing(c)' \subseteq Racing(c)
      BY <2>2, <3>1 DEF Racing
    <3> QED BY <1>5, <1>6, <2>1, <3>2
  <2> QED BY <2>3, <2>4
<1>8. ASSUME NEW w \in Workers, TakeEvent(w) \/ WorkerStep(w), ~FindConversation(w)
      PROVE  Racing(c)' \subseteq Racing(c)
  <2>1. \A v \in Workers : v # w => (v \in Racing(c)' <=> v \in Racing(c))
    BY <1>8, OwnRunOnly DEF Racing
  <2>2. w \in Racing(c)' => w \in Racing(c)
    BY <1>8, OwnMove DEF Racing, Transacting
  <2> QED BY <2>1, <2>2 DEF Racing
<1>9. ASSUME NEW w \in Workers, SkipExisting(w) \/ CommitMessage(w), ~UNCHANGED convs, conv[w] = 0
      PROVE  Cardinality(Owned(c)') + Cardinality(Racing(c)') <= Cardinality(Workers)
  <2>1. PICK i : /\ i \notin DOMAIN convs /\ DOMAIN convs' = DOMAIN convs \cup {i}
                 /\ convs'[i].customer = Sender[Item(w)]
                 /\ \A j \in DOMAIN convs : convs'[j] = convs[j]
    <3> WITNESS Len(convs) + 1
    <3> QED BY <1>9, SkipIs, CommitIs
  <2>2. /\ w \in Racing(Sender[Item(w)]) /\ ~FindConversation(w) /\ WorkerStep(w) /\ pc'[w] = "item"
    BY <1>9 DEF SkipExisting, CommitMessage, FindConversation, AtMessage, Racing, Transacting, WorkerStep, NextItem,
       Goto, TypeOK, WorkerType
  <2>3. Racing(c)' \subseteq Racing(c) \ {w}
    <3>1. w \notin Racing(c)'
      BY <2>2 DEF Racing, Transacting
    <3> QED BY <1>8, <2>2, <3>1
  <2>4. CASE Sender[Item(w)] = c
    <3>1. Owned(c)' = Owned(c) \cup {i} /\ i \notin Owned(c)
      BY <2>1, <2>4 DEF Owned
    <3>2. Cardinality(Owned(c)') = Cardinality(Owned(c)) + 1
      BY <1>4, <3>1, FS_AddElement
    <3>3. Cardinality(Racing(c) \ {w}) = Cardinality(Racing(c)) - 1 /\ IsFiniteSet(Racing(c) \ {w})
      BY <1>4, <2>2, <2>4, FS_RemoveElement
    <3>4. Cardinality(Racing(c)') <= Cardinality(Racing(c)) - 1
      BY <2>3, <3>3, FS_Subset
    <3> QED BY <1>2, <1>4, <3>2, <3>4
  <2>5. CASE Sender[Item(w)] # c
    <3>1. Owned(c)' = Owned(c)
      BY <2>1, <2>5 DEF Owned
    <3> QED BY <1>5, <2>3, <3>1
  <2> QED BY <2>4, <2>5
<1>10. ASSUME NEW w \in Workers, CommitMessage(w), conv[w] # 0
       PROVE  Owned(c)' = Owned(c)
  <2>1. \A j \in DOMAIN convs : convs'[j].customer = convs[j].customer
    BY ConvsGrow
  <2>2. DOMAIN convs' = DOMAIN convs
    BY <1>10 DEF CommitMessage
  <2> QED BY <2>1, <2>2 DEF Owned
<1>11. ASSUME NEW w \in Workers, TakeEvent(w) \/ WorkerStep(w)
       PROVE  Cardinality(Owned(c)') + Cardinality(Racing(c)') <= Cardinality(Workers)
  <2>1. SkipExisting(w) /\ conv[w] # 0 => UNCHANGED convs
    BY SkipIs
  <2> QED BY <1>5, <1>6, <1>7, <1>8, <1>9, <1>10, <1>11, <2>1, WhoWrites
<1>12. CASE UNCHANGED convs /\ Racing(c)' \subseteq Racing(c)
  BY <1>5, <1>6, <1>12
<1>13. ASSUME NEW n \in Nodes, Crash(n)
       PROVE  UNCHANGED convs /\ Racing(c)' \subseteq Racing(c)
  BY <1>13, CrashLeaves DEF Racing, Transacting, dbVars, Crash
<1>14. UNCHANGED workerVars => Racing(c)' = Racing(c)
  BY DEF workerVars, Racing, Transacting, Item
<1> QED BY <1>11, <1>12, <1>13, <1>14, Steps, HttpKeepsRest, QueueKeepsRest DEF dbVars, vars

LEMMA SplitFollows ==
  ASSUME TypeOK, RacersAreFew
  PROVE  SplitOnlyByRace
<1>1. SUFFICES ASSUME NEW c \in Customers PROVE Cardinality(Owned(c)) <= Cardinality(Workers)
  BY DEF SplitOnlyByRace
<1>2. Cardinality(Owned(c)) + Cardinality(Racing(c)) <= Cardinality(Workers)
  BY DEF RacersAreFew
<1> QED BY <1>2, CustomersFinite

-----------------------------------------------------------------------------
(* An event that is marked as processed is complete.                       *)

LEMMA MediaStep ==
  ASSUME TypeOK, MediaIsQueued, [Next]_vars
  PROVE  MediaIsQueued'
<1>1. ASSUME NEW v \in Workers, pc'[v] = "commit", Item(v)' \in HasMedia
      PROVE  mediaJobs'[Item(v)'] > 0
  <2>1. CASE pc[v] = "commit" /\ Item(v)' = Item(v)
    <3>1. Item(v) \in Messages
      BY <2>1, RunHasEvent DEF Transacting
    <3> QED BY <1>1, <2>1, <3>1, DataGrows DEF MediaIsQueued
  <2>2. CASE QueueMedia(v)
    <3>1. Item(v)' = Item(v) /\ Item(v) \in Messages
      BY <2>2, RunHasEvent DEF QueueMedia, Item, Transacting
    <3>2. mediaJobs' = [mediaJobs EXCEPT ![Item(v)] = @ + 1]
      BY <1>1, <2>2 DEF QueueMedia, Goto, TypeOK, WorkerType
    <3>3. mediaJobs'[Item(v)] = mediaJobs[Item(v)] + 1 /\ mediaJobs[Item(v)] \in Nat
      BY <3>1, <3>2 DEF TypeOK, DbType
    <3> QED BY <3>1, <3>3
  <2>3. CASE InsertMessage(v)
    BY <1>1, <2>3 DEF InsertMessage, Goto, Item, TypeOK, WorkerType
  <2>4. CASE (TakeEvent(v) \/ WorkerStep(v)) /\ ~QueueMedia(v) /\ ~InsertMessage(v)
    <3>1. pc'[v] # "commit"
      BY <2>4 DEF TakeEvent, WorkerStep, ReadFails, SkipUnknownNumber, FindConversation, SkipExisting, CheckMessage,
         CommitMessage, CommitFails, RecordStatus, MarkProcessed, MarkFailed, JobCompleted, JobThrew, NextItem,
         Release, Goto, TypeOK, WorkerType
    <3> QED BY <1>1, <3>1
  <2> QED BY <1>1, <2>1, <2>2, <2>3, <2>4, SlotStays
<1>2. ASSUME NEW m \in HasMedia, stored'[m] # 0
      PROVE  mediaJobs'[m] > 0
  <2>0. m \in Messages
    BY IngestionAssumption
  <2>1. CASE stored[m] # 0
    BY <2>0, <2>1, DataGrows DEF MediaIsQueued
  <2>2. CASE stored[m] = 0
    <3>1. PICK w \in Workers : CommitMessage(w)
      BY <1>2, <2>2, Steps, WhoWrites, HttpKeepsRest, QueueKeepsRest DEF Crash, dbVars, vars
    <3>2. Item(w) = m
      BY <1>2, <2>0, <2>2, <3>1 DEF CommitMessage, TypeOK, DbType
    <3> QED BY <2>0, <3>1, <3>2, DataGrows DEF CommitMessage, MediaIsQueued
  <2> QED BY <2>1, <2>2
<1> QED BY <1>1, <1>2 DEF MediaIsQueued

(* What is there stays there. *)
LEMMA ThereStays ==
  ASSUME TypeOK, [Next]_vars, NEW x \in Messages \cup StatusEvents, ItemIsThere(x)
  PROVE  ItemIsThere(x)'
BY DataGrows, IngestionAssumption DEF ItemIsThere

(* A run goes on to the next item when this one is there. *)
LEMMA ItemDone ==
  ASSUME TypeOK, MediaIsQueued, [Next]_vars, NEW w \in Workers, NEW x, x = Item(w),
         SkipUnknownNumber(w) \/ SkipExisting(w) \/ CommitMessage(w) \/ RecordStatus(w)
  PROVE  ItemIsThere(x)'
<1>1. CASE SkipUnknownNumber(w)
  BY <1>1, IngestionAssumption DEF SkipUnknownNumber, AtMessage, ItemIsThere
<1>2. CASE SkipExisting(w)
  <2>1. x \in Messages /\ x \notin StatusEvents /\ stored[x] # 0
    BY <1>2, RunHasEvent, IngestionAssumption DEF SkipExisting, Transacting
  <2>2. ItemIsThere(x)
    BY <2>1 DEF ItemIsThere, MediaIsQueued
  <2> QED BY <2>1, <2>2, ThereStays
<1>3. CASE CommitMessage(w)
  <2>1. x \in Messages /\ x \notin StatusEvents
    BY <1>3, RunHasEvent, IngestionAssumption DEF CommitMessage, Transacting
  <2>2. stored'[x] # 0
    <3>1. PICK i : i # 0 /\ stored' = [stored EXCEPT ![Item(w)] = i]
      <4> WITNESS IF conv[w] = 0 THEN Len(convs) + 1 ELSE conv[w]
      <4> QED BY <1>3, CommitIs
    <3> QED BY <2>1, <3>1 DEF TypeOK, DbType
  <2>3. x \in HasMedia => mediaJobs'[x] > 0
    BY <1>3, <2>1, DataGrows DEF MediaIsQueued, CommitMessage
  <2> QED BY <2>1, <2>2, <2>3 DEF ItemIsThere
<1>4. CASE RecordStatus(w)
  <2>1. x \in StatusEvents /\ recorded' = [recorded EXCEPT ![x] = @ + 1]
    BY <1>4 DEF RecordStatus
  <2>2. recorded'[x] = recorded[x] + 1 /\ recorded[x] \in Nat
    BY <2>1 DEF TypeOK, DbType
  <2> QED BY <2>1, <2>2 DEF ItemIsThere
<1> QED BY <1>1, <1>2, <1>3, <1>4

-----------------------------------------------------------------------------
(* Events, their jobs and their rows.                                      *)

(* What a step does to a job. *)
LEMMA JobMoves ==
  ASSUME TypeOK, [Next]_vars, NEW e \in Jobs
  PROVE  \/ jobState'[e] = jobState[e] /\ stalledCount'[e] = stalledCount[e] /\ lock'[e] = lock[e]
         \/ /\ jobState[e] \in {"none", "delayed", "failed"} /\ jobState'[e] = "waiting"
            /\ stalledCount'[e] = stalledCount[e]
         \/ \E w \in Workers :
              /\ TakeEvent(w) /\ cur'[w] = e /\ jobState[e] = "waiting" /\ jobState'[e] = "active"
              /\ lock'[e] = w /\ stalledCount'[e] = stalledCount[e]
         \/ \E w \in Workers :
              /\ JobCompleted(w) \/ (JobThrew(w) /\ jobState'[e] # "completed")
              /\ cur[w] = e /\ lock[e] = w /\ jobState'[e] # "none"
              /\ stalledCount'[e] = stalledCount[e]
         \/ stalledCount'[e] # 0 /\ jobState'[e] \in {"waiting", "failed"}
         \/ \E n \in Nodes :
              /\ Crash(n) /\ jobState'[e] = jobState[e] /\ stalledCount'[e] = stalledCount[e]
              /\ lock'[e] = lock[e] \/ lock[e] \in {w \in Workers : w[1] = n}
<1> DEFINE Moves ==
         \/ jobState'[e] = jobState[e] /\ stalledCount'[e] = stalledCount[e] /\ lock'[e] = lock[e]
         \/ /\ jobState[e] \in {"none", "delayed", "failed"} /\ jobState'[e] = "waiting"
            /\ stalledCount'[e] = stalledCount[e]
         \/ \E w \in Workers :
              /\ TakeEvent(w) /\ cur'[w] = e /\ jobState[e] = "waiting" /\ jobState'[e] = "active"
              /\ lock'[e] = w /\ stalledCount'[e] = stalledCount[e]
         \/ \E w \in Workers :
              /\ JobCompleted(w) \/ (JobThrew(w) /\ jobState'[e] # "completed")
              /\ cur[w] = e /\ lock[e] = w /\ jobState'[e] # "none"
              /\ stalledCount'[e] = stalledCount[e]
         \/ stalledCount'[e] # 0 /\ jobState'[e] \in {"waiting", "failed"}
         \/ \E n \in Nodes :
              /\ Crash(n) /\ jobState'[e] = jobState[e] /\ stalledCount'[e] = stalledCount[e]
              /\ lock'[e] = lock[e] \/ lock[e] \in {w \in Workers : w[1] = n}
<1>1. ASSUME UNCHANGED queueVars
      PROVE  Moves
  BY <1>1 DEF queueVars
<1>2. ASSUME NEW n \in Nodes, HttpStep(n)
      PROVE  Moves
  <2>1. UNCHANGED queueVars \/ \E j \in Jobs : Add(j)
    BY <1>2 DEF HttpStep, LogEvent, RejectDuplicate, EnqueueEvent, EnqueueFails, TypeOK, HttpType
  <2> QED BY <1>1, <2>1 DEF Add, TypeOK, QueueType
<1>3. ASSUME NEW n \in Nodes, Crash(n)
      PROVE  Moves
  BY <1>3 DEF Crash, DropLocks
<1>4. ASSUME NEW j \in Jobs, QueueStep(j)
      PROVE  Moves
  <2>1. CASE BackoffElapsed(j) \/ RetryFailedJob(j)
    BY <2>1 DEF BackoffElapsed, RetryFailedJob, BackoffOver, Retry, TypeOK, QueueType
  <2>2. CASE RecoverOrphan(j) \/ LockExpires(j)
    <3>1. PutBack(j)
      BY <2>2 DEF RecoverOrphan, LockExpires
    <3>2. CASE j = e
      <4>1. stalledCount[e] \in Nat /\ stalledCount[e] + 1 # 0
        BY DEF TypeOK, QueueType
      <4>2. MaxStalled \in Nat /\ MaxStalled > 0
        BY IngestionAssumption, QueueAssumption
      <4>3. stalledCount'[e] # 0 /\ jobState'[e] \in {"waiting", "failed"}
        BY <3>1, <3>2, <4>1, <4>2 DEF PutBack, TypeOK, QueueType
      <4> QED BY <4>3
    <3>3. CASE j # e
      BY <3>1, <3>3 DEF PutBack, TypeOK, QueueType
    <3> QED BY <3>2, <3>3
  <2> QED BY <1>4, <2>1, <2>2 DEF QueueStep
<1>5. ASSUME NEW w \in Workers, TakeEvent(w)
      PROVE  Moves
  <2>1. PICK j \in Jobs : Take(w, j) /\ cur' = [cur EXCEPT ![w] = j]
    BY <1>5 DEF TakeEvent
  <2>2. CASE j = e
    BY <1>5, <2>1, <2>2 DEF Take, TypeOK, QueueType, WorkerType
  <2>3. CASE j # e
    BY <2>1, <2>3 DEF Take, TypeOK, QueueType
  <2> QED BY <2>2, <2>3
<1>6. ASSUME NEW w \in Workers, JobCompleted(w) \/ JobThrew(w)
      PROVE  Moves
  <2>1. CASE UNCHANGED queueVars
    BY <1>1, <2>1
  <2>2. CASE ~UNCHANGED queueVars
    <3>1. PICK state, made :
            /\ lock[cur[w]] = w /\ jobState' = [jobState EXCEPT ![cur[w]] = state]
            /\ lock' = [lock EXCEPT ![cur[w]] = NoWorker] /\ UNCHANGED stalledCount
            /\ state \in {"completed", "delayed", "failed"}
            /\ JobThrew(w) => state # "completed"
      BY <1>6, <2>2 DEF JobCompleted, JobThrew, Complete, Threw, Settle
    <3>2. CASE cur[w] = e
      <4>1. jobState'[e] = state /\ stalledCount'[e] = stalledCount[e]
        BY <3>1, <3>2 DEF TypeOK, QueueType
      <4>2. JobCompleted(w) \/ (JobThrew(w) /\ jobState'[e] # "completed")
        BY <1>6, <3>1, <4>1
      <4>3. lock[e] = w /\ jobState'[e] # "none"
        BY <3>1, <3>2, <4>1
      <4> QED BY <3>2, <4>1, <4>2, <4>3
    <3>3. CASE cur[w] # e
      BY <3>1, <3>3 DEF TypeOK, QueueType
    <3> QED BY <3>2, <3>3
  <2> QED BY <2>1, <2>2
<1>7. ASSUME NEW w \in Workers, WorkerStep(w)
      PROVE  Moves
  <2>1. UNCHANGED queueVars \/ JobCompleted(w) \/ JobThrew(w)
    BY <1>7 DEF WorkerStep, ReadFails, SkipUnknownNumber, FindConversation, SkipExisting,
       CheckMessage, InsertMessage, QueueMedia, CommitMessage, CommitFails, RecordStatus, MarkProcessed, MarkFailed
  <2> QED BY <1>1, <1>6, <2>1
<1> HIDE DEF Moves
<1>8. Moves
  BY <1>1, <1>2, <1>3, <1>4, <1>5, <1>7, Steps DEF vars
<1> QED BY <1>8 DEF Moves

(* What a step does to the row of an event. *)
LEMMA RowMoves ==
  ASSUME TypeOK, [Next]_vars, NEW e \in Jobs
  PROVE  \/ row'[e] = row[e]
         \/ row[e] = "none" /\ row'[e] = "PENDING" /\ \E n \in Nodes : LogEvent(n, e)
         \/ \E w \in Workers : MarkProcessed(w) /\ cur[w] = e /\ row'[e] = "PROCESSED"
         \/ \E w \in Workers : MarkFailed(w) /\ cur[w] = e /\ row'[e] = "FAILED"
<1> DEFINE Moves ==
         \/ row'[e] = row[e]
         \/ row[e] = "none" /\ row'[e] = "PENDING" /\ \E n \in Nodes : LogEvent(n, e)
         \/ \E w \in Workers : MarkProcessed(w) /\ cur[w] = e /\ row'[e] = "PROCESSED"
         \/ \E w \in Workers : MarkFailed(w) /\ cur[w] = e /\ row'[e] = "FAILED"
<1>1. ASSUME UNCHANGED row
      PROVE  Moves
  BY <1>1
<1>2. ASSUME NEW n \in Nodes, HttpStep(n)
      PROVE  Moves
  <2>1. ASSUME NEW j \in Jobs, LogEvent(n, j)
        PROVE  Moves
    <3>1. row[j] = "none" /\ row' = [row EXCEPT ![j] = "PENDING"]
      BY <2>1 DEF LogEvent
    <3>2. CASE j = e
      BY <2>1, <3>1, <3>2 DEF TypeOK, DbType
    <3>3. CASE j # e
      BY <3>1, <3>3 DEF TypeOK, DbType
    <3> QED BY <3>2, <3>3
  <2>2. UNCHANGED row \/ \E j \in Jobs : LogEvent(n, j)
    BY <1>2 DEF HttpStep, RejectDuplicate, EnqueueEvent, EnqueueFails
  <2> QED BY <1>1, <2>1, <2>2
<1>3. ASSUME NEW w \in Workers, MarkProcessed(w)
      PROVE  Moves
  BY <1>3 DEF MarkProcessed, TypeOK, DbType
<1>4. ASSUME NEW w \in Workers, MarkFailed(w)
      PROVE  Moves
  BY <1>4 DEF MarkFailed, TypeOK, DbType
<1> HIDE DEF Moves
<1>5. Moves
  BY <1>1, <1>2, <1>3, <1>4, Steps, WhoWrites, QueueKeepsRest DEF Crash, vars
<1> QED BY <1>5 DEF Moves

(* A slot that runs an event was running it, or has just taken it. *)
LEMMA RunGoesOn ==
  ASSUME TypeOK, [Next]_vars, NEW v \in Workers, cur'[v] \in Jobs
  PROVE  \/ /\ cur[v] = cur'[v] /\ pc[v] # "idle" /\ ~JobCompleted(v) /\ ~JobThrew(v)
            /\ \A n \in Nodes : Crash(n) => v[1] # n
         \/ TakeEvent(v) /\ pc'[v] = "item"
<1>0. NoEvent \notin Jobs
  BY IngestionAssumption
<1>1. CASE TakeEvent(v) \/ WorkerStep(v)
  <2>1. \A n \in Nodes : Crash(n) => v[1] # n
    BY <1>0 DEF Crash
  <2>2. ~JobCompleted(v) /\ ~JobThrew(v)
    BY <1>0 DEF JobCompleted, JobThrew, Release, TypeOK, WorkerType
  <2> QED BY <1>0, <1>1, <2>1, <2>2, OwnMove
<1>2. CASE ~TakeEvent(v) /\ ~WorkerStep(v)
  <2>1. cur'[v] = cur[v] /\ pc'[v] = pc[v]
    BY <1>0, <1>2, SlotStays
  <2>2. pc[v] # "idle"
    BY <1>0, <2>1 DEF TypeOK, WorkerType
  <2>3. \A n \in Nodes : Crash(n) => v[1] # n
    BY <1>0 DEF Crash
  <2> QED BY <1>2, <2>1, <2>2, <2>3 DEF WorkerStep
<1> QED BY <1>1, <1>2

LEMMA OneRunStep ==
  ASSUME TypeOK, OneRun, [Next]_vars
  PROVE  OneRun'
<1>1. SUFFICES ASSUME NEW v \in Workers, NEW e \in Jobs, cur'[v] = e
               PROVE  /\ jobState'[e] # "none"
                      /\ stalledCount'[e] = 0 => jobState'[e] = "active" /\ lock'[e] = v
  BY DEF OneRun
<1>2. CASE TakeEvent(v)
  <2>1. PICK j \in Jobs : Take(v, j) /\ cur' = [cur EXCEPT ![v] = j]
    BY <1>2 DEF TakeEvent
  <2>2. j = e
    BY <1>1, <2>1 DEF TypeOK, WorkerType
  <2> QED BY <2>1, <2>2 DEF Take, TypeOK, QueueType
<1>3. CASE cur[v] = e /\ ~JobCompleted(v) /\ ~JobThrew(v) /\ ~TakeEvent(v) /\ \A n \in Nodes : Crash(n) => v[1] # n
  <2>1. /\ jobState[e] # "none"
        /\ stalledCount[e] = 0 => jobState[e] = "active" /\ lock[e] = v
    BY <1>3 DEF OneRun
  <2>2. QueueType
    BY DEF TypeOK
  <2>3. jobState'[e] # "none"
    BY <2>1, JobMoves
  <2>4. ASSUME stalledCount'[e] = 0
        PROVE  jobState'[e] = "active" /\ lock'[e] = v
    BY <1>3, <2>1, <2>4, JobMoves
  <2> QED BY <2>3, <2>4
<1> QED BY <1>1, <1>2, <1>3, RunGoesOn

LEMMA ThroughStep ==
  ASSUME TypeOK, OneRun, MediaIsQueued, RunIsThrough, [Next]_vars
  PROVE  RunIsThrough'
<1>1. ASSUME NEW v \in Workers, cur'[v] # NoEvent, NEW k \in DOMAIN Payload[cur'[v]], k < pos'[v]
      PROVE  ItemIsThere(Payload[cur[v]][k])'
  <2>1. PICK e, x : e = cur'[v] /\ x = Payload[e][k]
    OBVIOUS
  <2>2. e \in Jobs
    <3>1. TypeOK'
      BY TypeStep
    <3> QED BY <1>1, <2>1, <3>1 DEF TypeOK, WorkerType
  <2>3. DOMAIN Payload[e] = 1..Len(Payload[e]) /\ x \in Messages \cup StatusEvents
    BY <1>1, <2>1, <2>2, PayloadType
  <2>4. SUFFICES ItemIsThere(x)'
    BY <2>1
  <2>5. CASE cur[v] = e /\ k < pos[v]
    BY <1>1, <2>1, <2>2, <2>3, <2>5, ThereStays, IngestionAssumption DEF RunIsThrough
  <2>6. CASE TakeEvent(v) \/ WorkerStep(v)
    <3>1. CASE cur'[v] = cur[v] /\ pos'[v] = pos[v]
      BY <1>1, <2>1, <2>5, <3>1
    <3>2. CASE /\ cur'[v] = cur[v] /\ pos'[v] = pos[v] + 1
               /\ SkipUnknownNumber(v) \/ SkipExisting(v) \/ CommitMessage(v) \/ RecordStatus(v)
      <4>1. k < pos[v] \/ k = pos[v]
        BY <1>1, <2>1, <2>3, <3>2 DEF TypeOK, WorkerType
      <4>2. CASE k = pos[v]
        BY <2>1, <3>2, <4>2, ItemDone DEF Item
      <4> QED BY <2>1, <2>5, <3>2, <4>1, <4>2
    <3>3. CASE pos'[v] = 1
      BY <1>1, <2>1, <2>3, <3>3
    <3> QED BY <2>6, <3>1, <3>2, <3>3, OwnMove
  <2>7. CASE ~TakeEvent(v) /\ ~WorkerStep(v)
    BY <1>1, <2>1, <2>5, <2>7, SlotStays
  <2> QED BY <2>6, <2>7
<1>2. ASSUME NEW v \in Workers, pc'[v] = "complete", stalledCount'[cur'[v]] = 0
      PROVE  row'[cur'[v]] = "PROCESSED"
  <2>1. PICK e : e = cur'[v]
    OBVIOUS
  <2>2. e \in Jobs
    <3>1. TypeOK'
      BY TypeStep
    <3> QED BY <1>2, <2>1, <3>1 DEF TypeOK, WorkerType
  <2>3. cur[v] = e
    BY <1>2, <2>1, <2>2, RunGoesOn
  <2>4. CASE MarkProcessed(v)
    BY <2>1, <2>2, <2>3, <2>4 DEF MarkProcessed, TypeOK, DbType
  <2>5. CASE ~MarkProcessed(v)
    <3>1. pc[v] = "complete"
      <4>1. CASE TakeEvent(v) \/ WorkerStep(v)
        BY <1>2, <2>5, <4>1 DEF TakeEvent, WorkerStep, ReadFails, SkipUnknownNumber, FindConversation, SkipExisting,
           CheckMessage, InsertMessage, QueueMedia, CommitMessage, CommitFails, RecordStatus, MarkFailed,
           JobCompleted, JobThrew, NextItem, Release, Goto, TypeOK, WorkerType
      <4>2. CASE ~TakeEvent(v) /\ ~WorkerStep(v)
        BY <1>2, <4>2, SlotStays
      <4> QED BY <4>1, <4>2
    <3>2. stalledCount[e] = 0
      BY <1>2, <2>1, <2>2, JobMoves
    <3>3. row[e] = "PROCESSED" /\ lock[e] = v
      BY <2>2, <2>3, <3>1, <3>2 DEF RunIsThrough, OneRun
    <3>4. ASSUME NEW w \in Workers, MarkFailed(w), cur[w] = e
          PROVE  FALSE
      <4>1. w = v
        BY <2>2, <3>2, <3>3, <3>4 DEF OneRun
      <4> QED BY <3>1, <3>4, <4>1 DEF MarkFailed
    <3> QED BY <2>1, <2>2, <3>3, <3>4, RowMoves
  <2> QED BY <2>4, <2>5
<1> QED BY <1>1, <1>2 DEF RunIsThrough

LEMMA ProcessedStep ==
  ASSUME TypeOK, OneRun, RunIsThrough, ProcessedIsComplete, [Next]_vars
  PROVE  ProcessedIsComplete'
<1>1. SUFFICES ASSUME NEW e \in Jobs
               PROVE  /\ jobState'[e] = "completed" /\ stalledCount'[e] = 0 => row'[e] = "PROCESSED"
                      /\ row'[e] = "PROCESSED" => \A k \in DOMAIN Payload[e] : ItemIsThere(Payload[e][k])'
  BY DEF ProcessedIsComplete
<1>2. ASSUME jobState'[e] = "completed", stalledCount'[e] = 0
      PROVE  row'[e] = "PROCESSED"
  <2>1. CASE jobState[e] = "completed" /\ stalledCount[e] = 0
    <3>1. row[e] = "PROCESSED"
      BY <2>1 DEF ProcessedIsComplete
    <3>2. \A w \in Workers : cur[w] # e
      BY <2>1 DEF OneRun
    <3> QED BY <3>1, <3>2, RowMoves
  <2>2. ASSUME NEW w \in Workers, JobCompleted(w), cur[w] = e, stalledCount[e] = 0
        PROVE  row'[e] = "PROCESSED"
    BY <2>2 DEF JobCompleted, RunIsThrough
  <2> QED BY <1>2, <2>1, <2>2, JobMoves
<1>3. ASSUME row'[e] = "PROCESSED", NEW k \in DOMAIN Payload[e]
      PROVE  ItemIsThere(Payload[e][k])'
  <2>1. PICK x : x = Payload[e][k]
    OBVIOUS
  <2>2. x \in Messages \cup StatusEvents /\ k \in 1..Len(Payload[e]) /\ Len(Payload[e]) \in Nat
    BY <1>3, <2>1, PayloadType
  <2>3. ItemIsThere(x)
    <3>1. CASE row[e] = "PROCESSED"
      BY <1>3, <2>1, <3>1 DEF ProcessedIsComplete
    <3>2. ASSUME NEW w \in Workers, MarkProcessed(w), cur[w] = e
          PROVE  ItemIsThere(x)
      <4>1. pos[w] > Len(Payload[e]) /\ pos[w] \in Nat
        BY <3>2 DEF MarkProcessed, TypeOK, WorkerType
      <4>2. k < pos[w]
        BY <2>2, <4>1
      <4> QED BY <1>3, <2>1, <3>2, <4>2, IngestionAssumption DEF RunIsThrough
    <3> QED BY <1>3, <3>1, <3>2, RowMoves
  <2>4. ItemIsThere(x)'
    BY <2>2, <2>3, ThereStays
  <2> QED BY <2>1, <2>4
<1> QED BY <1>2, <1>3

LEMMA QueuedStep ==
  ASSUME TypeOK, OneRun, LoggedIsQueued, [Next]_vars
  PROVE  LoggedIsQueued'
<1>1. SUFFICES ASSUME NEW e \in Jobs, row'[e] # "none"
               PROVE  jobState'[e] # "none" \/ e \in unqueued' \/ \E n \in Nodes : http'[n] = e
  BY DEF LoggedIsQueued
<1>2. CASE jobState[e] # "none"
  BY <1>2, JobMoves
<1>3. ASSUME e \in unqueued
      PROVE  e \in unqueued'
  <2>1. unqueued \subseteq unqueued'
    BY Steps, RunsKeepHttp, QueueKeepsRest DEF HttpStep, LogEvent, RejectDuplicate, EnqueueEvent, EnqueueFails,
       Crash, httpVars, vars
  <2> QED BY <1>3, <2>1
<1>4. ASSUME NEW n \in Nodes, http[n] = e
      PROVE  jobState'[e] # "none" \/ e \in unqueued' \/ http'[n] = e
  <2>0. e # NoEvent
    BY IngestionAssumption
  <2>1. CASE UNCHANGED httpVars
    BY <1>4, <2>1 DEF httpVars
  <2>2. ASSUME NEW o \in Nodes, HttpStep(o) \/ Crash(o)
        PROVE  jobState'[e] # "none" \/ e \in unqueued' \/ http'[n] = e
    <3>1. CASE o # n
      <4>1. http'[n] = http[n]
        BY <2>2, <3>1 DEF HttpStep, LogEvent, RejectDuplicate, EnqueueEvent, EnqueueFails, Crash, TypeOK, HttpType
      <4> QED BY <1>4, <4>1
    <3>2. CASE o = n /\ (\/ \E j \in Jobs : LogEvent(o, j) \/ RejectDuplicate(o, j)
                         \/ EnqueueFails(o) \/ Crash(o))
      BY <1>4, <2>0, <3>2 DEF LogEvent, RejectDuplicate, EnqueueFails, Crash
    <3>3. CASE o = n /\ EnqueueEvent(o)
      BY <1>4, <3>3 DEF EnqueueEvent, Add, TypeOK, QueueType
    <3> QED BY <2>2, <3>1, <3>2, <3>3 DEF HttpStep
  <2> QED BY <2>1, <2>2, Steps, RunsKeepHttp, QueueKeepsRest DEF vars
<1>5. CASE row[e] # "none"
  BY <1>2, <1>3, <1>4, <1>5 DEF LoggedIsQueued
<1>6. CASE row[e] = "none"
  <2>1. ASSUME NEW n \in Nodes, LogEvent(n, e)
        PROVE  http'[n] = e
    BY <2>1 DEF LogEvent, TypeOK, HttpType
  <2>2. ASSUME NEW w \in Workers, cur[w] = e
        PROVE  jobState[e] # "none"
    BY <2>2 DEF OneRun
  <2> QED BY <1>1, <1>2, <1>6, <2>1, <2>2, RowMoves
<1> QED BY <1>5, <1>6

-----------------------------------------------------------------------------
(* The theorems.                                                           *)

LEMMA InitType == Init => TypeOK
<1> SUFFICES ASSUME Init PROVE TypeOK
  OBVIOUS
<1> USE DEF Init
<1>1. QueueType
  BY DEF QueueInit, QueueType
<1>2. DbType
  <2>1. convs = <<>> /\ convs \in Seq(Conversation) /\ Len(convs) = 0
    OBVIOUS
  <2> QED BY <2>1 DEF DbType
<1>3. HttpType
  BY DEF HttpType
<1>4. WorkerType
  <2>1. Len(convs) = 0
    OBVIOUS
  <2> QED BY <2>1 DEF WorkerType, Transacting
<1> QED BY <1>1, <1>2, <1>3, <1>4 DEF TypeOK

LEMMA InitInv == Init => IngestionInv
<1> SUFFICES ASSUME Init PROVE IngestionInv
  OBVIOUS
<1>1. TypeOK
  BY InitType
<1>2. \A w \in Workers : pc[w] = "idle" /\ cur[w] = NoEvent
  BY DEF Init
<1>3. DOMAIN convs = {}
  BY DEF Init
<1>4. CountedOnce
  BY <1>1, <1>3 DEF Init, CountedOnce
<1>5. ProcessedIsComplete /\ LoggedIsQueued
  BY DEF Init, QueueInit, ProcessedIsComplete, LoggedIsQueued
<1>6. KeyIsUnique /\ FoundIsOwn
  BY <1>2 DEF KeyIsUnique, Holds, FoundIsOwn, Transacting
<1>7. MediaIsQueued
  <2>1. \A m \in HasMedia : stored[m] = 0
    BY IngestionAssumption DEF Init
  <2> QED BY <1>2, <2>1 DEF MediaIsQueued
<1>8. RunIsThrough /\ OneRun
  BY <1>2, IngestionAssumption DEF RunIsThrough, OneRun
<1>9. RacersAreFew
  <2>1. ASSUME NEW c \in Customers
        PROVE  Cardinality(Owned(c)) + Cardinality(Racing(c)) <= Cardinality(Workers)
    <3>1. Owned(c) = {} /\ Racing(c) = {}
      BY <1>2, <1>3 DEF Owned, Racing, Transacting
    <3>2. Cardinality(Owned(c)) = 0 /\ Cardinality(Racing(c)) = 0
      BY <3>1, FS_EmptySet
    <3>3. Cardinality(Workers) \in Nat
      BY IngestionAssumption, FS_CardinalityType
    <3> QED BY <3>2, <3>3
  <2> QED BY <2>1 DEF RacersAreFew
<1> QED BY <1>1, <1>4, <1>5, <1>6, <1>7, <1>8, <1>9, SplitFollows DEF IngestionInv

LEMMA StepInv == IngestionInv /\ [Next]_vars => IngestionInv'
<1> SUFFICES ASSUME IngestionInv, [Next]_vars PROVE IngestionInv'
  OBVIOUS
<1>1. TypeOK
  BY DEF IngestionInv, CountedOnce
<1>2. /\ CountedOnce /\ ProcessedIsComplete /\ LoggedIsQueued /\ KeyIsUnique /\ FoundIsOwn /\ RacersAreFew
      /\ MediaIsQueued /\ RunIsThrough /\ OneRun
  BY DEF IngestionInv
<1>3. CountedOnce' /\ KeyIsUnique' /\ FoundIsOwn'
  BY <1>1, <1>2, CountStep, KeyStep, FoundStep
<1>4. MediaIsQueued' /\ RunIsThrough' /\ OneRun'
  BY <1>1, <1>2, MediaStep, ThroughStep, OneRunStep
<1>5. ProcessedIsComplete' /\ LoggedIsQueued'
  BY <1>1, <1>2, ProcessedStep, QueuedStep
<1>6. RacersAreFew'
  BY <1>1, <1>2, RacersStep
<1>7. SplitOnlyByRace'
  <2>1. TypeOK'
    BY <1>1, TypeStep
  <2> QED BY <1>6, <2>1, SplitFollows, PTL
<1> QED BY <1>3, <1>4, <1>5, <1>6, <1>7 DEF IngestionInv

(* The inductive invariant, from which the others follow. *)
THEOREM IngestionInvariant == Spec => []IngestionInv
BY InitInv, StepInv, PTL DEF Spec

(* WebhookProcessor counts every customer message once in one conversation   *)
(* of its sender, and announces it once, under redelivery, retries, stalled  *)
(* jobs and any number of workers.                                           *)
THEOREM StoredOnce == Spec => []CountedOnce
<1>1. IngestionInv => CountedOnce
  BY DEF IngestionInv
<1> QED BY <1>1, IngestionInvariant, PTL

(* An event marked PROCESSED has all its items stored and its downloads      *)
(* queued; an event whose job completed undisturbed is marked.               *)
THEOREM ProcessedHasAll == Spec => []ProcessedIsComplete
<1>1. IngestionInv => ProcessedIsComplete
  BY DEF IngestionInv
<1> QED BY <1>1, IngestionInvariant, PTL

(* findFirst-then-create makes no more conversations of a customer than      *)
(* there are slots of WebhookProcessor, whatever the interleaving.           *)
THEOREM SplitIsBounded == Spec => []SplitOnlyByRace
<1>1. IngestionInv => SplitOnlyByRace
  BY DEF IngestionInv
<1> QED BY <1>1, IngestionInvariant, PTL

(* A logged event has its job, or its request is under way, or that request  *)
(* died or failed between the insert and queue.add.                          *)
THEOREM LoggedHasJob == Spec => []LoggedIsQueued
<1>1. IngestionInv => LoggedIsQueued
  BY DEF IngestionInv
<1> QED BY <1>1, IngestionInvariant, PTL

(* Only a message that gets its row in this very step sets lastCustomerMsgAt *)
(* of its conversation back.                                                 *)
THEOREM WindowKept == Spec => WindowSetBackOnlyByNew
<1> DEFINE A == \A i \in DOMAIN convs : convs'[i].last < convs[i].last =>
                  \E m \in Messages : stored[m] = 0 /\ stored'[m] = i
<1>1. ASSUME IngestionInv, [Next]_vars
      PROVE  A
  <2>0. TypeOK /\ KeyIsUnique
    BY <1>1 DEF IngestionInv, CountedOnce
  <2>1. SUFFICES ASSUME NEW i \in DOMAIN convs, convs'[i].last < convs[i].last
                 PROVE  \E m \in Messages : stored[m] = 0 /\ stored'[m] = i
    OBVIOUS
  <2>2. convs'[i] # convs[i]
    <3>1. convs[i].last \in Nat
      BY <2>0, ConvIsConversation DEF Conversation
    <3> QED BY <2>1, <3>1
  <2>3. ~UNCHANGED convs
    BY <2>2
  <2>4. PICK w \in Workers : CommitMessage(w)
    <3>1. ASSUME NEW v \in Workers, SkipExisting(v)
          PROVE  FALSE
      BY <2>0, <2>1, <2>2, <3>1, SkipIs
    <3> QED BY <1>1, <2>3, <3>1, Steps, WhoWrites, HttpKeepsRest, QueueKeepsRest DEF Crash, dbVars, vars
  <2>5. PICK m, j : m = Item(w) /\ j = IF conv[w] = 0 THEN Len(convs) + 1 ELSE conv[w]
    OBVIOUS
  <2>6. /\ m \in Messages /\ stored' = [stored EXCEPT ![m] = j]
        /\ \A k \in DOMAIN convs : k # j => convs'[k] = convs[k]
    BY <2>0, <2>4, <2>5, CommitIs
  <2>7. i = j /\ stored'[m] = j
    BY <2>0, <2>1, <2>2, <2>6 DEF TypeOK, DbType
  <2>8. stored[m] = 0
    BY <2>0, <2>4, <2>5, <2>6 DEF KeyIsUnique, Holds, CommitMessage
  <2> QED BY <2>6, <2>7, <2>8
<1>2. IngestionInv /\ [Next]_vars => [A]_vars
  BY <1>1
<1> QED BY <1>2, IngestionInvariant, PTL DEF Spec, WindowSetBackOnlyByNew

-----------------------------------------------------------------------------
(* The inbox.                                                              *)

LEMMA SameCardinality ==
  ASSUME NEW S
  PROVE  Inbox!Cardinality(S) = Cardinality(S)
BY DEF Inbox!Cardinality, Cardinality

(* A transaction that is about to create a conversation may do so. *)
LEMMA RacerMayOpen ==
  ASSUME IngestionInv, NEW w \in Workers, Transacting(w), conv[w] = 0
  PROVE  Inbox!MayOpen(Sender[Item(w)])
<1> DEFINE c == Sender[Item(w)]
<1>1. TypeOK /\ c \in Customers
  <2>1. TypeOK
    BY DEF IngestionInv, CountedOnce
  <2> QED BY <2>1, RunHasEvent DEF Transacting
<1>2. Cardinality(Owned(c)) + Cardinality(Racing(c)) <= Cardinality(Workers)
  BY <1>1 DEF IngestionInv, RacersAreFew
<1>3. {w} \subseteq Racing(c)
  BY DEF Racing
<1> HIDE DEF c
<1>4. /\ IsFiniteSet(Racing(c)) /\ Cardinality(Racing(c)) \in Nat
      /\ Cardinality(Owned(c)) \in Nat /\ Cardinality(Workers) \in Nat
  BY <1>1, CustomersFinite
<1>5. Cardinality(Racing(c)) >= 1
  <2>1. Cardinality({w}) = 1
    BY FS_Singleton
  <2>2. Cardinality({w}) <= Cardinality(Racing(c))
    BY <1>3, <1>4, FS_Subset
  <2> QED BY <1>4, <2>1, <2>2
<1>6. Cardinality(Owned(c)) < Cardinality(Workers)
  BY <1>2, <1>4, <1>5
<1>7. Inbox!Own(c) = Owned(c)
  BY DEF Inbox!Own, Owned
<1>8. Inbox!MayOpen(c)
  BY <1>6, <1>7, SameCardinality DEF Inbox!MayOpen
<1> QED BY <1>8 DEF c

(* The existence check finds the message: a conversation may have been opened. *)
LEMMA SkipOpens ==
  ASSUME IngestionInv, NEW w \in Workers, SkipExisting(w)
  PROVE  [Inbox!Next]_(Inbox!vars)
<1>1. UNCHANGED <<row, stored, received>>
  BY DEF SkipExisting
<1>2. CASE conv[w] # 0
  BY <1>1, <1>2 DEF SkipExisting, Inbox!vars
<1>3. CASE conv[w] = 0
  <2>1. Transacting(w)
    BY DEF SkipExisting, Transacting
  <2>2. Item(w) \in Messages
    BY <2>1, RunHasEvent DEF IngestionInv, CountedOnce, Transacting
  <2>3. convs' = Append(convs, NewConversation(Sender[Item(w)]))
    BY <1>3 DEF SkipExisting
  <2>4. Inbox!Open(Sender[Item(w)])
    BY <1>1, <1>3, <2>1, <2>3, RacerMayOpen DEF Inbox!Open, Inbox!NewThread, NewConversation
  <2> QED BY <2>2, <2>4 DEF Inbox!Next
<1> QED BY <1>2, <1>3

(* The commit of a transaction is the one arrival of its message. *)
LEMMA CommitReceives ==
  ASSUME IngestionInv, NEW w \in Workers, CommitMessage(w)
  PROVE  [Inbox!Next]_(Inbox!vars)
<1> DEFINE m == Item(w)
           i == IF conv[w] = 0 THEN Len(convs) + 1 ELSE conv[w]
<1>1. TypeOK /\ Transacting(w) /\ UNCHANGED row
  BY DEF IngestionInv, CountedOnce, CommitMessage, Transacting
<1>2. m \in Messages /\ Holds(w, m)
  BY <1>1, RunHasEvent DEF CommitMessage, Transacting, Holds
<1>3. stored[m] = 0
  BY <1>2 DEF IngestionInv, KeyIsUnique
<1>4. /\ convs' = IF conv[w] = 0
                  THEN Append(convs, WithMessage(NewConversation(Sender[m]), m))
                  ELSE [convs EXCEPT ![i] = WithMessage(@, m)]
      /\ stored' = [stored EXCEPT ![m] = i] /\ received' = [received EXCEPT ![m] = @ + 1]
  BY DEF CommitMessage
<1>5. Len(convs) \in Nat /\ DOMAIN convs = 1..Len(convs) /\ conv[w] \in 0..Len(convs)
  BY <1>1 DEF TypeOK, DbType, WorkerType
<1>6. conv[w] # 0 => convs[conv[w]].customer = Sender[m]
  BY <1>1 DEF IngestionInv, FoundIsOwn
<1>7. conv[w] = 0 => Inbox!MayOpen(Sender[m])
  BY <1>1, RacerMayOpen
<1> HIDE DEF m
<1>9. i \in Inbox!Own(Sender[m]) \cup {Len(convs) + 1} /\ (i \in DOMAIN convs <=> conv[w] # 0)
  BY <1>5, <1>6 DEF Inbox!Own
<1>10. IF i \in DOMAIN convs
       THEN convs' = [convs EXCEPT ![i] = Inbox!With(@, m)]
       ELSE Inbox!MayOpen(Sender[m]) /\ convs' = Append(convs, Inbox!With(Inbox!NewThread(Sender[m]), m))
  BY <1>4, <1>7, <1>9 DEF Inbox!With, Inbox!NewThread, WithMessage, NewConversation
<1> HIDE DEF i
<1>11. Inbox!Receive(m)
  BY <1>1, <1>3, <1>4, <1>9, <1>10 DEF Inbox!Receive
<1> QED BY <1>2, <1>11 DEF Inbox!Next

LEMMA EventSteps ==
  ASSUME NEW e \in Jobs, Inbox!Report(e) \/ Inbox!Withdraw(e)
  PROVE  Inbox!Next
<1>1. e \in DOMAIN [d \in Jobs |-> Delivers(d)]
  OBVIOUS
<1> QED BY <1>1, Zenon DEF Inbox!Next

(* A run marks its event when it is through with all of its items. *)
LEMMA MarkReports ==
  ASSUME IngestionInv, NEW w \in Workers, MarkProcessed(w)
  PROVE  [Inbox!Next]_(Inbox!vars)
<1> DEFINE Done == {d \in Jobs : row[d] = "PROCESSED"}
<1>0. PICK e \in Jobs : e = cur[w]
  BY RunHasEvent DEF IngestionInv, CountedOnce, MarkProcessed
<1>1. TypeOK /\ pos[w] \in Nat /\ pos[w] > Len(Payload[e])
  BY <1>0, RunHasEvent DEF IngestionInv, CountedOnce, MarkProcessed
<1>2. UNCHANGED dbVars /\ row' = [row EXCEPT ![e] = "PROCESSED"]
  BY <1>0 DEF MarkProcessed
<1>3. \A k \in DOMAIN Payload[e] : ItemIsThere(Payload[e][k])
  <2>1. \A k \in DOMAIN Payload[e] : k < pos[w]
    BY <1>1, PayloadType
  <2>2. e # NoEvent
    BY IngestionAssumption
  <2> QED BY <1>0, <2>1, <2>2 DEF IngestionInv, RunIsThrough
<1>4. \A m \in Delivers(e) : stored[m] # 0
  BY <1>3, IngestionAssumption DEF Delivers, ItemIsThere
<1>5. Done' = Done \cup {e}
  BY <1>1, <1>2 DEF TypeOK, DbType
<1>6. Inbox!Report(e)
  BY <1>1, <1>2, <1>4, <1>5 DEF Inbox!Report, dbVars
<1> QED BY <1>6, EventSteps

LEMMA FailureWithdraws ==
  ASSUME IngestionInv, NEW w \in Workers, MarkFailed(w)
  PROVE  [Inbox!Next]_(Inbox!vars)
<1> DEFINE Done == {d \in Jobs : row[d] = "PROCESSED"}
<1>0. PICK e \in Jobs : e = cur[w]
  BY RunHasEvent DEF IngestionInv, CountedOnce, MarkFailed
<1>1. TypeOK
  BY DEF IngestionInv, CountedOnce
<1>2. UNCHANGED dbVars /\ (UNCHANGED row \/ row' = [row EXCEPT ![e] = "FAILED"])
  BY <1>0 DEF MarkFailed
<1>3. CASE UNCHANGED row
  BY <1>2, <1>3 DEF dbVars, Inbox!vars
<1>4. CASE row' = [row EXCEPT ![e] = "FAILED"]
  <2>1. Done' = Done \ {e}
    BY <1>1, <1>4 DEF TypeOK, DbType
  <2>2. Inbox!Withdraw(e)
    BY <1>2, <2>1 DEF Inbox!Withdraw, dbVars
  <2> QED BY <2>2, EventSteps
<1> QED BY <1>2, <1>3, <1>4

(* handleWebhook and WebhookProcessor.process, with redelivered and repeated *)
(* events, retries, runs side by side, rollbacks and crashes, implement the  *)
(* inbox of CustomerInbox: every committed transaction is one arrival of a   *)
(* message or opens a thread that there is room for, and PROCESSED reports   *)
(* an event whose messages have all arrived.                                 *)
THEOREM IngestionImplementsInbox == Spec => ImplementsCustomerInbox
<1>1. Init => Inbox!Init
  BY DEF Init, Inbox!Init
<1>2. IngestionInv /\ [Next]_vars => [Inbox!Next]_(Inbox!vars)
  <2> SUFFICES ASSUME IngestionInv, [Next]_vars
               PROVE  [Inbox!Next]_(Inbox!vars)
    OBVIOUS
  <2> DEFINE Done == {d \in Jobs : row[d] = "PROCESSED"}
  <2>1. CASE UNCHANGED <<convs, stored, received>> /\ Done' = Done
    BY <2>1 DEF Inbox!vars
  <2>2. ASSUME NEW w \in Workers, TakeEvent(w) \/ WorkerStep(w)
        PROVE  [Inbox!Next]_(Inbox!vars)
    <3>1. CASE UNCHANGED <<convs, stored, received, row>>
      BY <2>1, <3>1
    <3>2. (CommitMessage(w) \/ SkipExisting(w)) => UNCHANGED row
      BY DEF CommitMessage, SkipExisting
    <3> QED BY <2>2, <3>1, <3>2, WhoWrites, SkipOpens, CommitReceives, MarkReports, FailureWithdraws
  <2>3. ASSUME NEW n \in Nodes, NEW e \in Jobs, LogEvent(n, e)
        PROVE  UNCHANGED <<convs, stored, received>> /\ Done' = Done
    <3>1. row \in [Jobs -> {"none", "PENDING", "PROCESSED", "FAILED"}]
      BY DEF IngestionInv, CountedOnce, TypeOK, DbType
    <3> QED BY <2>3, <3>1 DEF LogEvent, dbVars
  <2>4. ASSUME NEW n \in Nodes, HttpStep(n) \/ Crash(n)
        PROVE  [Inbox!Next]_(Inbox!vars)
    <3>1. UNCHANGED <<convs, stored, received>>
      BY <2>4, HttpKeepsRest DEF Crash, dbVars
    <3>2. UNCHANGED row \/ \E e \in Jobs : LogEvent(n, e)
      BY <2>4 DEF HttpStep, RejectDuplicate, EnqueueEvent, EnqueueFails, Crash
    <3> QED BY <2>1, <2>3, <3>1, <3>2
  <2>5. CASE (\E e \in Jobs : QueueStep(e)) \/ UNCHANGED vars
    BY <2>1, <2>5, QueueKeepsRest DEF dbVars, vars
  <2> QED BY <2>2, <2>4, <2>5, Steps
<1> QED BY <1>1, <1>2, IngestionInvariant, PTL DEF Spec, ImplementsCustomerInbox, Inbox!Spec
=============================================================================
