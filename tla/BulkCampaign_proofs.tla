-------------------------- MODULE BulkCampaign_proofs --------------------------
(* Theorems of BulkCampaign, for every number of campaigns, recipients and *)
(* workers, both chunk sizes, every kind of failure and every bound.       *)
EXTENDS BulkCampaign, FiniteSetTheorems, TLAPS

-----------------------------------------------------------------------------
(* Operators of the model.                                                 *)

LEMMA LesserIs ==
  ASSUME NEW a \in Nat, NEW b \in Nat
  PROVE  Lesser(a, b) \in Nat /\ Lesser(a, b) <= a /\ Lesser(a, b) <= b /\ Lesser(a, b) \in {a, b}
BY DEF Lesser

LEMMA MessagesOf ==
  /\ Jobs = Messages
  /\ \A c \in Campaigns, k \in 1..Recipients :
       <<c, k>> \in Messages /\ Campaign(<<c, k>>) = c
  /\ \A m \in Messages : Campaign(m) \in Campaigns /\ \E k \in 1..Recipients : m = <<Campaign(m), k>>
  /\ {Recipients, DbChunk, QueueChunk} \subseteq Nat \ {0}
BY CampaignAssumption DEF Messages, Campaign

LEMMA InSlice ==
  ASSUME NEW c \in Campaigns, NEW from \in Nat, NEW size \in Nat
  PROVE  /\ Slice(c, from, size) \subseteq Messages
         /\ \A d \in Campaigns, k \in 1..Recipients :
              <<d, k>> \in Slice(c, from, size) <=> d = c /\ from < k /\ k <= from + size
<1> DEFINE R == from + 1 .. Lesser(from + size, Recipients)
<1>1. Recipients \in Nat
  BY MessagesOf
<1>2. \A k \in 1..Recipients : k \in R <=> from < k /\ k <= from + size
  BY <1>1 DEF Lesser
<1>3. R \subseteq 1..Recipients
  BY <1>1 DEF Lesser
<1> HIDE DEF R
<1>4. Slice(c, from, size) = {c} \X R
  BY DEF Slice, R
<1> QED BY <1>2, <1>3, <1>4 DEF Messages

(* addBulk takes the next jobs of the chunk, one at least. *)
LEMMA SliceGrows ==
  ASSUME TypeOK, NEW c \in Campaigns, at[c] = "push"
  PROVE  LET next == pushed[c] + Cardinality(QueueSlice(c))
         IN /\ next \in 1..Recipients /\ next > pushed[c]
            /\ next <= index[c] + DbChunk
            /\ QueueSlice(c) \subseteq Messages
            /\ \A d \in Campaigns, k \in 1..Recipients :
                 <<d, k>> \in QueueSlice(c) => d = c /\ k <= index[c] + DbChunk
<1> DEFINE n == Lesser(QueueChunk, index[c] + DbChunk - pushed[c])
           b == Lesser(pushed[c] + n, Recipients)
<1>1. /\ pushed[c] \in 0..Recipients /\ index[c] \in Nat /\ Recipients \in Nat
      /\ QueueChunk \in Nat \ {0} /\ DbChunk \in Nat \ {0}
      /\ pushed[c] < index[c] + DbChunk /\ pushed[c] < Recipients
  <2>1. pushed[c] < Lesser(index[c] + DbChunk, Recipients)
    BY DEF TypeOK, RequestType
  <2> QED BY <2>1, MessagesOf DEF TypeOK, RequestType, Lesser
<1>2. n \in Nat \ {0} /\ pushed[c] + n <= index[c] + DbChunk
  BY <1>1 DEF Lesser
<1>3. b \in 1..Recipients /\ pushed[c] < b /\ b <= index[c] + DbChunk
  BY <1>1, <1>2 DEF Lesser
<1>4. Cardinality(QueueSlice(c)) = b - pushed[c]
  <2>1. QueueSlice(c) = {c} \X (pushed[c] + 1 .. b)
    BY DEF QueueSlice, Slice
  <2>2. IsFiniteSet(pushed[c] + 1 .. b) /\ Cardinality(pushed[c] + 1 .. b) = b - pushed[c]
    <3> DEFINE a == pushed[c] + 1
    <3>1. a \in Int /\ b \in Int /\ ~(a > b) /\ b - a + 1 = b - pushed[c]
      BY <1>1, <1>3
    <3> HIDE DEF a, b
    <3>2. IsFiniteSet(a..b) /\ Cardinality(a..b) = b - a + 1
      BY <3>1, FS_Interval
    <3> QED BY <3>1, <3>2 DEF a
  <2>3. IsFiniteSet({c}) /\ Cardinality({c}) = 1
    BY FS_Singleton
  <2>4. Cardinality(QueueSlice(c)) = 1 * (b - pushed[c])
    <3> DEFINE T == pushed[c] + 1 .. b
    <3>1. QueueSlice(c) = {c} \X T /\ IsFiniteSet(T) /\ Cardinality(T) = b - pushed[c]
      BY <2>1, <2>2
    <3> HIDE DEF T
    <3>2. Cardinality({c} \X T) = Cardinality({c}) * Cardinality(T)
      BY <2>3, <3>1, FS_Product
    <3> QED BY <2>3, <3>1, <3>2
  <2> QED BY <1>1, <1>3, <2>4
<1>5. QueueSlice(c) = {c} \X (pushed[c] + 1 .. b)
  BY DEF QueueSlice, Slice
<1> QED BY <1>1, <1>3, <1>4, <1>5 DEF Messages

-----------------------------------------------------------------------------
(* Frames.                                                                 *)

(* A request of createCampaign adds jobs, and touches no other. *)
LEMMA RequestsKeepJobs ==
  ASSUME TypeOK, NEW c \in Campaigns,
         CheckName(c) \/ RejectTemplate(c) \/ CreateCampaign(c) \/ CreateStep(c) \/ RequestDies(c)
  PROVE  /\ UNCHANGED <<hasWamid, workerVars, hooks, worldVars, histVars, lock, stalledCount, attemptsMade>>
         /\ \/ UNCHANGED jobState
            \/ /\ at[c] = "push" /\ UNCHANGED status
               /\ \E first \in {"waiting", "delayed"} :
                    jobState' = [j \in Jobs |-> IF j \in QueueSlice(c) /\ jobState[j] = "none"
                                                THEN first ELSE jobState[j]]
BY DEF CheckName, RejectTemplate, CreateCampaign, CreateStep, RequestDies, InsertMessages, InsertFails,
   HardBlock, PushChunk, PushFails, AddBulk, queueVars, mongoVars

LEMMA JobsKeepRequests ==
  ASSUME \/ \E w \in Workers : TakeMessage(w) \/ WorkerStep(w) \/ Crash(w)
         \/ \E c \in Campaigns : HookStep(c)
         \/ \E m \in Messages :
              StatusCallback(m) \/ DelayOver(m) \/ RecoverOrphan(m) \/ LockExpires(m)
  PROVE  UNCHANGED <<requestVars, created>>
BY DEF TakeMessage, WorkerStep, Crash, ReadFails, Debit, Consume, Throttled, SendTemplate, SaveSent, CountAtEnd,
    FinishCheck, MarkDead, Refund, JobCompleted, JobThrew, HookStep, HookCounts, HookUpdates, StatusCallback, DelayOver,
   RecoverOrphan, LockExpires, mongoVars

(* The checks of the callbacks are about the campaign only. *)
LEMMA HooksKeepJobs ==
  ASSUME NEW c \in Campaigns, HookStep(c)
  PROVE  UNCHANGED <<status, hasWamid, requestVars, workerVars, worldVars, queueVars, losses, unsure>>
BY DEF HookStep, HookCounts, HookUpdates, mongoVars, histVars

(* A step of one worker leaves the others where they are. *)
LEMMA OwnRunOnly ==
  ASSUME TypeOK, NEW w \in Workers, NEW v \in Workers, v # w,
         TakeMessage(w) \/ WorkerStep(w) \/ Crash(w)
  PROVE  pc'[v] = pc[v] /\ cur'[v] = cur[v]
<1> USE DEF TypeOK, WorkerType, Goto, Release
<1>1. CASE TakeMessage(w)
  BY <1>1 DEF TakeMessage
<1>2. CASE Crash(w)
  BY <1>2 DEF Crash
<1>3. CASE WorkerStep(w)
  BY <1>3 DEF WorkerStep, ReadFails, Debit, Consume, Throttled, SendTemplate, SaveSent, CountAtEnd,
    FinishCheck, MarkDead, Refund, JobCompleted, JobThrew
<1> QED BY <1>1, <1>2, <1>3

LEMMA RunHasMessage ==
  ASSUME TypeOK, NEW w \in Workers
  PROVE  pc[w] # "idle" <=> cur[w] \in Messages
BY CampaignAssumption DEF TypeOK, WorkerType

-----------------------------------------------------------------------------
(* Type correctness.                                                       *)

LEMMA UnchangedTypes ==
  ASSUME TypeOK
  PROVE  /\ UNCHANGED queueVars => QueueType'
         /\ UNCHANGED mongoVars => MongoType'
         /\ UNCHANGED requestVars => RequestType'
         /\ UNCHANGED workerVars => WorkerType'
         /\ UNCHANGED hooks => HookType'
         /\ UNCHANGED <<worldVars, faults>> => WorldType'
         /\ UNCHANGED histVars => HistType'
<1> USE DEF TypeOK
<1>1. UNCHANGED queueVars => QueueType'
  BY DEF QueueType, queueVars
<1>2. UNCHANGED mongoVars => MongoType'
  BY DEF MongoType, mongoVars
<1>3. UNCHANGED requestVars => RequestType'
  BY DEF RequestType, requestVars
<1>4. UNCHANGED workerVars => WorkerType'
  BY DEF WorkerType, workerVars
<1>5. UNCHANGED <<worldVars, faults>> => WorldType'
  BY DEF WorldType, worldVars
<1>6. UNCHANGED histVars => HistType'
  BY DEF HistType, histVars
<1>7. UNCHANGED hooks => HookType'
  BY DEF HookType
<1> QED BY <1>1, <1>2, <1>3, <1>4, <1>5, <1>6, <1>7

LEMMA FaultType ==
  ASSUME TypeOK, UNCHANGED faults \/ \E kind \in Faults : Fault(kind), UNCHANGED worldVars
  PROVE  WorldType'
BY DEF TypeOK, WorldType, worldVars, Fault

LEMMA RequestTypes ==
  ASSUME TypeOK, NEW c \in Campaigns,
         CheckName(c) \/ RejectTemplate(c) \/ CreateCampaign(c) \/ CreateStep(c) \/ RequestDies(c)
  PROVE  TypeOK'
<1>1. HistType' /\ WorkerType' /\ HookType'
  BY RequestsKeepJobs, UnchangedTypes
<1>2. WorldType'
  <2>1. UNCHANGED faults \/ Fault("db") \/ Fault("redis") \/ Fault("crash")
    BY DEF CheckName, RejectTemplate, CreateCampaign, CreateStep, RequestDies, InsertMessages, InsertFails,
       HardBlock, PushChunk, PushFails
  <2>2. UNCHANGED worldVars
    BY RequestsKeepJobs
  <2> QED BY <2>1, <2>2 DEF Fault, TypeOK, WorldType, worldVars
<1>3. QueueType'
  BY RequestsKeepJobs DEF TypeOK, QueueType
<1>4. MongoType'
  <2>1. CASE UNCHANGED mongoVars
    BY <2>1, UnchangedTypes
  <2>2. CASE CreateCampaign(c)
    BY <2>2 DEF CreateCampaign, TypeOK, MongoType
  <2>3. CASE InsertMessages(c)
    BY <2>3 DEF InsertMessages, TypeOK, MongoType
  <2>4. CASE InsertFails(c)
    BY <2>4 DEF InsertFails, TypeOK, MongoType
  <2> QED BY <2>1, <2>2, <2>3, <2>4 DEF CheckName, RejectTemplate, CreateStep, RequestDies, HardBlock,
       PushChunk, PushFails
<1>5. RequestType'
  <2>1. ASSUME NEW label \in {"checked", "done", "drafted", "rejected", "error"}, Moved(c, label),
               UNCHANGED <<index, pushed>>, label = "checked" => at[c] = "none"
        PROVE  RequestType'
    BY <2>1 DEF Moved, TypeOK, RequestType
  <2>2. ASSUME Moved(c, "insert"), at[c] = "checked", UNCHANGED <<index, pushed>>
        PROVE  RequestType'
    BY <2>2, MessagesOf DEF Moved, TypeOK, RequestType
  <2>3. ASSUME InsertMessages(c)
        PROVE  RequestType'
    <3>1. pushed[c] < Lesser(index[c] + DbChunk, Recipients)
      BY <2>3, MessagesOf DEF InsertMessages, Lesser, TypeOK, RequestType
    <3> QED BY <2>3, <3>1 DEF InsertMessages, Moved, TypeOK, RequestType
  <2>4. ASSUME PushChunk(c)
        PROVE  RequestType'
    <3> DEFINE next == pushed[c] + Cardinality(QueueSlice(c))
    <3>1. at[c] = "push" /\ Advance(c)
      BY <2>4 DEF PushChunk
    <3>2. /\ next \in 1..Recipients /\ next > pushed[c] /\ next <= index[c] + DbChunk
          /\ index[c] \in Nat /\ Recipients \in Nat /\ DbChunk \in Nat
          /\ pushed[c] \in Nat /\ index[c] <= pushed[c]
      BY <3>1, SliceGrows, MessagesOf DEF TypeOK, RequestType
    <3> HIDE DEF next
    <3>3. pushed' = [pushed EXCEPT ![c] = next]
      BY <3>1 DEF Advance, next
    <3>4. CASE next = Recipients
      BY <3>1, <3>2, <3>3, <3>4 DEF Advance, next, Moved, TypeOK, RequestType
    <3>5. CASE next # Recipients /\ next < index[c] + DbChunk
      <4>1. UNCHANGED <<at, index>>
        BY <3>1, <3>5 DEF Advance, next
      <4>2. next < Lesser(index[c] + DbChunk, Recipients)
        BY <3>2, <3>5 DEF Lesser
      <4> QED BY <3>1, <3>2, <3>3, <4>1, <4>2 DEF TypeOK, RequestType
    <3>6. CASE next # Recipients /\ ~(next < index[c] + DbChunk)
      <4>1. Moved(c, "insert") /\ index' = [index EXCEPT ![c] = @ + DbChunk]
        BY <3>1, <3>6 DEF Advance, next
      <4> QED BY <3>2, <3>3, <3>6, <4>1 DEF Moved, TypeOK, RequestType
    <3> QED BY <3>4, <3>5, <3>6
  <2> QED BY <2>1, <2>2, <2>3, <2>4 DEF CheckName, RejectTemplate, CreateCampaign, CreateStep, RequestDies,
       InsertFails, HardBlock, PushFails
<1> QED BY <1>1, <1>2, <1>3, <1>4, <1>5 DEF TypeOK

LEMMA CheckTypes ==
  ASSUME TypeOK, NEW c \in Campaigns
  PROVE  /\ SetCompleted(c) => campaign' \in [Campaigns -> {"none", "draft", "queued", "completed"}]
         /\ CountedNone(c) \/ CountedSome(c) \/ CountFails => faults' \in Nat /\ early' \subseteq Campaigns
         /\ Completed(c) \/ UpdateFails(c) =>
              faults' \in Nat /\ (SetCompleted(c) \/ UNCHANGED campaign)
<1>1. SetCompleted(c) => campaign' \in [Campaigns -> {"none", "draft", "queued", "completed"}]
  BY DEF SetCompleted, TypeOK, MongoType
<1>2. CountedNone(c) \/ CountedSome(c) \/ CountFails => faults' \in Nat /\ early' \subseteq Campaigns
  BY DEF CountedNone, CountedSome, CountFails, Fault, TypeOK, WorldType, HistType
<1>3. Completed(c) \/ UpdateFails(c) => faults' \in Nat /\ (SetCompleted(c) \/ UNCHANGED campaign)
  BY DEF Completed, UpdateFails, Fault, TypeOK, WorldType
<1> QED BY <1>1, <1>2, <1>3

LEMMA WorkerTypes ==
  ASSUME TypeOK, NEW w \in Workers, TakeMessage(w) \/ WorkerStep(w) \/ Crash(w)
  PROVE  TypeOK'
<1>1. RequestType' /\ HookType'
  <2>1. UNCHANGED hooks
    BY DEF TakeMessage, WorkerStep, Crash, ReadFails, Debit, Consume, Throttled, SendTemplate, SaveSent, CountAtEnd,
       FinishCheck, MarkDead, Refund, JobCompleted, JobThrew
  <2> QED BY <2>1, JobsKeepRequests, UnchangedTypes
<1>2. WorkerType'
  <2>1. ASSUME NEW label \in {"debit", "limit", "send", "save", "check", "update", "fatal", "refund", "threw",
                                 "complete"},
               Goto(w, label), UNCHANGED cur, pc[w] # "idle"
        PROVE  WorkerType'
    BY <2>1 DEF Goto, TypeOK, WorkerType
  <2>2. ASSUME Release(w)
        PROVE  WorkerType'
    BY <2>2, CampaignAssumption DEF Release, Goto, TypeOK, WorkerType
  <2>3. CASE TakeMessage(w)
    BY <2>3, CampaignAssumption DEF TakeMessage, Goto, TypeOK, WorkerType
  <2> QED BY <2>1, <2>2, <2>3 DEF WorkerStep, Crash, ReadFails, Debit, Consume, Throttled, SendTemplate, SaveSent,
       CountAtEnd, FinishCheck, MarkDead, Refund, JobCompleted, JobThrew
<1>3. CASE TakeMessage(w)
  <2>1. QueueType'
    BY <1>3, MessagesOf DEF TakeMessage, Take, TypeOK, QueueType
  <2>2. MongoType' /\ WorldType' /\ HistType'
    BY <1>3, UnchangedTypes DEF TakeMessage
  <2> QED BY <1>1, <1>2, <2>1, <2>2 DEF TypeOK
<1>4. CASE Crash(w)
  <2>1. QueueType'
    BY <1>4 DEF Crash, DropLocks, TypeOK, QueueType
  <2>2. HistType'
    BY <1>4, RunHasMessage DEF Crash, Count, TypeOK, HistType
  <2>3. MongoType' /\ WorldType'
    BY <1>4, UnchangedTypes, FaultType DEF Crash, Fault
  <2> QED BY <1>1, <1>2, <2>1, <2>2, <2>3 DEF TypeOK
<1>5. CASE WorkerStep(w)
  <2>1. pc[w] # "idle"
    BY <1>5 DEF WorkerStep, ReadFails, Debit, Consume, Throttled, SendTemplate, SaveSent, CountAtEnd,
    FinishCheck, MarkDead, Refund, JobCompleted, JobThrew
  <2>2. cur[w] \in Messages /\ Campaign(cur[w]) \in Campaigns
    BY <2>1, RunHasMessage, MessagesOf
  <2>3. QueueType'
    <3>1. ASSUME NEW state \in {"completed", "delayed", "failed"}, NEW made \in Nat,
                 Settle(w, cur[w], state, made)
          PROVE  QueueType'
      BY <2>2, <3>1, UnchangedTypes, MessagesOf DEF Settle, TypeOK, QueueType
    <3>2. attemptsMade[cur[w]] \in Nat /\ attemptsMade[cur[w]] + 1 \in Nat
      BY <2>2, MessagesOf DEF TypeOK, QueueType
    <3>3. CASE UNCHANGED queueVars
      BY <3>3, UnchangedTypes
    <3> QED BY <1>5, <3>1, <3>2, <3>3 DEF WorkerStep, ReadFails, Debit, Consume, Throttled, SendTemplate,
         SaveSent, CountAtEnd, FinishCheck, MarkDead, Refund, JobCompleted, JobThrew, Complete, Threw
  <2>4. MongoType'
    <3>1. CASE UNCHANGED mongoVars
      BY <3>1, UnchangedTypes
    <3>2. CASE SaveSent(w)
      BY <3>2 DEF SaveSent, TypeOK, MongoType
    <3>3. CASE FinishCheck(w)
      BY <2>2, <3>3, CheckTypes DEF FinishCheck, TypeOK, MongoType
    <3>4. CASE MarkDead(w)
      BY <3>4 DEF MarkDead, TypeOK, MongoType
    <3> QED BY <1>5, <3>1, <3>2, <3>3, <3>4 DEF WorkerStep, ReadFails, Debit, Consume, Throttled, SendTemplate,
         CountAtEnd, Refund, JobCompleted, JobThrew
  <2>5. WorldType'
    <3>1. faults' \in Nat
      BY <1>5, <2>2, CheckTypes DEF WorkerStep, ReadFails, Debit, Consume, Throttled, SendTemplate, SaveSent,
         CountAtEnd, FinishCheck, MarkDead, Refund, JobCompleted, JobThrew, Fault, TypeOK, WorldType
    <3>2. ASSUME NEW counter \in [Messages -> Nat], NEW n \in Nat
          PROVE  Count(counter, cur[w], n) \in [Messages -> Nat]
      BY <2>2, <3>2 DEF Count
    <3>3. debits' \in [Messages -> Nat]
      <4>1. CASE Debit(w)
        <5>1. debits \in [Messages -> Nat]
          BY DEF TypeOK, WorldType
        <5>2. \E n \in {0, 1, 2} : debits' = Count(debits, cur[w], n) \/ UNCHANGED debits
          <6>1. \A n \in 0..2 : n \in {0, 1, 2}
            OBVIOUS
          <6> QED BY <4>1, <6>1 DEF Debit
        <5> QED BY <3>2, <5>1, <5>2
      <4>2. CASE ~Debit(w)
        BY <1>5, <4>2 DEF WorkerStep, ReadFails, Consume, Throttled, SendTemplate, SaveSent, CountAtEnd,
           FinishCheck, MarkDead, Refund, JobCompleted, JobThrew, TypeOK, WorldType, worldVars
      <4> QED BY <4>1, <4>2
    <3>4. refunds' \in [Messages -> Nat]
      BY <1>5, <3>2 DEF WorkerStep, ReadFails, Debit, Consume, Throttled, SendTemplate, SaveSent,
         CountAtEnd, FinishCheck, MarkDead, Refund, JobCompleted, JobThrew, TypeOK, WorldType, worldVars
    <3>5. dispatched' \in [Messages -> Nat]
      BY <1>5, <3>2 DEF WorkerStep, ReadFails, Debit, Consume, Throttled, SendTemplate, SaveSent,
         CountAtEnd, FinishCheck, MarkDead, Refund, JobCompleted, JobThrew, TypeOK, WorldType, worldVars
    <3> QED BY <3>1, <3>3, <3>4, <3>5 DEF WorldType
  <2>6. HistType'
    BY <1>5, <2>2, CheckTypes DEF WorkerStep, ReadFails, Debit, Consume, Throttled, SendTemplate, SaveSent,
       CountAtEnd, FinishCheck, MarkDead, Refund, JobCompleted, JobThrew, Count, TypeOK, HistType, histVars
  <2> QED BY <1>1, <1>2, <2>3, <2>4, <2>5, <2>6 DEF TypeOK
<1> QED BY <1>3, <1>4, <1>5

LEMMA HookTypes ==
  ASSUME TypeOK, NEW c \in Campaigns, HookStep(c)
  PROVE  TypeOK'
<1>1. UNCHANGED <<created, status, hasWamid, requestVars, workerVars, worldVars, queueVars, losses, missed, unsure>>
  BY DEF HookStep, HookCounts, HookUpdates, mongoVars, histVars
<1>2. MongoType'
  BY <1>1, CheckTypes DEF HookStep, HookCounts, HookUpdates, mongoVars, TypeOK, MongoType
<1>3. HookType'
  BY DEF HookStep, HookCounts, HookUpdates, TypeOK, HookType
<1>4. faults' \in Nat /\ early' \subseteq Campaigns
  BY CheckTypes DEF HookStep, HookCounts, HookUpdates, histVars, TypeOK, HistType
<1>5. QueueType' /\ RequestType' /\ WorkerType'
  BY <1>1, UnchangedTypes
<1>6. WorldType' /\ HistType'
  BY <1>1, <1>4 DEF TypeOK, WorldType, HistType, worldVars
<1> QED BY <1>2, <1>3, <1>5, <1>6 DEF TypeOK

LEMMA QueueTypes ==
  ASSUME TypeOK, NEW m \in Messages,
         StatusCallback(m) \/ DelayOver(m) \/ RecoverOrphan(m) \/ LockExpires(m)
  PROVE  TypeOK'
<1>1. CASE StatusCallback(m)
  <2>1. MongoType'
    BY <1>1, CampaignAssumption DEF StatusCallback, TypeOK, MongoType
  <2>2. HookType'
    BY <1>1, MessagesOf DEF StatusCallback, TypeOK, HookType
  <2>3. QueueType' /\ RequestType' /\ WorkerType' /\ HistType'
    BY <1>1, UnchangedTypes DEF StatusCallback
  <2>4. WorldType'
    BY <1>1, FaultType DEF StatusCallback, Fault
  <2> QED BY <2>1, <2>2, <2>3, <2>4 DEF TypeOK
<1>2. CASE DelayOver(m) \/ RecoverOrphan(m) \/ LockExpires(m)
  <2>1. QueueType'
    <3>1. CASE PutBack(m)
      <4>1. stalledCount' = [stalledCount EXCEPT ![m] = @ + 1] \/ UNCHANGED stalledCount
        BY <3>1 DEF PutBack
      <4>2. stalledCount' \in [Jobs -> Nat]
        BY <4>1, MessagesOf DEF TypeOK, QueueType
      <4> QED BY <3>1, <4>2, MessagesOf DEF PutBack, TypeOK, QueueType
    <3>2. CASE BackoffOver(m)
      BY <3>2, MessagesOf DEF BackoffOver, TypeOK, QueueType
    <3> QED BY <1>2, <3>1, <3>2 DEF DelayOver, RecoverOrphan, LockExpires
  <2>2. MongoType' /\ RequestType' /\ WorkerType' /\ HookType' /\ WorldType'
    BY <1>2, UnchangedTypes, FaultType DEF DelayOver, RecoverOrphan, LockExpires, Fault
  <2>3. HistType'
    BY <1>2, UnchangedTypes DEF DelayOver, RecoverOrphan, LockExpires, Count, TypeOK, HistType, histVars
  <2> QED BY <2>1, <2>2, <2>3 DEF TypeOK
<1> QED BY <1>1, <1>2

LEMMA TypeStep ==
  ASSUME TypeOK, [Next]_vars
  PROVE  TypeOK'
<1>1. CASE UNCHANGED vars
  BY <1>1, UnchangedTypes DEF vars, TypeOK
<1> QED BY <1>1, RequestTypes, WorkerTypes, HookTypes, QueueTypes DEF Next

-----------------------------------------------------------------------------
(* A message is sent by a run that had it paid.                            *)

(* What a run of another message leaves alone. *)
LEMMA OwnJobOnly ==
  ASSUME TypeOK, LocksAreHeld, NEW w \in Workers, WorkerStep(w) \/ Crash(w),
         NEW m \in Messages, m # cur[w]
  PROVE  /\ status'[m] = status[m] /\ hasWamid'[m] = hasWamid[m]
         /\ debits'[m] = debits[m] /\ refunds'[m] = refunds[m] /\ dispatched'[m] = dispatched[m]
         /\ jobState'[m] = jobState[m] /\ stalledCount'[m] = stalledCount[m] /\ lock'[m] = lock[m]
         /\ losses'[m] = losses[m]
<1>1. status'[m] = status[m] /\ hasWamid'[m] = hasWamid[m]
  BY DEF Crash, WorkerStep, ReadFails, Debit, Consume, Throttled, SendTemplate, SaveSent, CountAtEnd,
    FinishCheck, MarkDead, Refund, JobCompleted, JobThrew, mongoVars, TypeOK, MongoType
<1>2. debits'[m] = debits[m] /\ refunds'[m] = refunds[m]
  BY DEF Crash, WorkerStep, ReadFails, Debit, Consume, Throttled, SendTemplate, SaveSent, CountAtEnd,
    FinishCheck, MarkDead, Refund, JobCompleted, JobThrew, Count, worldVars, TypeOK, WorldType
<1>3. dispatched'[m] = dispatched[m]
  BY DEF Crash, WorkerStep, ReadFails, Debit, Consume, Throttled, SendTemplate, SaveSent, CountAtEnd,
    FinishCheck, MarkDead, Refund, JobCompleted, JobThrew, Count, worldVars, TypeOK, WorldType
<1>4. losses'[m] = losses[m]
  BY DEF Crash, WorkerStep, ReadFails, Debit, Consume, Throttled, SendTemplate, SaveSent, CountAtEnd,
    FinishCheck, MarkDead, Refund, JobCompleted, JobThrew, Count, histVars, TypeOK, HistType
<1>5. jobState'[m] = jobState[m] /\ stalledCount'[m] = stalledCount[m] /\ lock'[m] = lock[m]
  <2>1. CASE WorkerStep(w)
    BY <2>1, MessagesOf DEF WorkerStep, ReadFails, Debit, Consume, Throttled, SendTemplate, SaveSent, CountAtEnd,
    FinishCheck, MarkDead, Refund, JobCompleted, JobThrew, Complete, Threw, Settle, queueVars, TypeOK, QueueType
  <2>2. CASE Crash(w)
    BY <2>2, MessagesOf DEF Crash, DropLocks, LocksAreHeld, TypeOK, QueueType
  <2> QED BY <2>1, <2>2
<1> QED BY <1>1, <1>2, <1>3, <1>4, <1>5

(* The runs that are about to send m, before and after a step of one of them. *)
LEMMA SendingCount ==
  ASSUME TypeOK, NEW w \in Workers, TakeMessage(w) \/ WorkerStep(w) \/ Crash(w), NEW m \in Messages
  PROVE  LET n == Cardinality(Sending(m) \ {w})
         IN /\ n \in Nat
            /\ Cardinality(Sending(m)) = IF w \in Sending(m) THEN n + 1 ELSE n
            /\ Cardinality(Sending(m)') = IF w \in Sending(m)' THEN n + 1 ELSE n
<1> DEFINE S == Sending(m) \ {w}
<1>1. IsFiniteSet(S) /\ Cardinality(S) \in Nat
  <2>1. S \in SUBSET Workers
    BY DEF Sending
  <2> QED BY <2>1, FS_Subset, FS_CardinalityType, CampaignAssumption
<1>2. Sending(m) = IF w \in Sending(m) THEN S \cup {w} ELSE S
  OBVIOUS
<1>3. Sending(m)' = IF w \in Sending(m)' THEN S \cup {w} ELSE S
  BY OwnRunOnly DEF Sending
<1>4. Cardinality(S \cup {w}) = Cardinality(S) + 1
  <2>1. w \notin S
    OBVIOUS
  <2> HIDE DEF S
  <2> QED BY <1>1, <2>1, FS_AddElement
<1> HIDE DEF S
<1> QED BY <1>1, <1>2, <1>3, <1>4 DEF S

LEMMA PaidStep ==
  ASSUME TypeOK, SendsArePaid, LocksAreHeld, [Next]_vars
  PROVE  SendsArePaid'
<1>1. SUFFICES ASSUME NEW m \in Messages
               PROVE  dispatched'[m] + Cardinality(Sending(m)') <= debits'[m]
  BY TypeStep DEF SendsArePaid
<1>2. dispatched[m] + Cardinality(Sending(m)) <= debits[m]
  BY DEF SendsArePaid
<1>3. dispatched[m] \in Nat /\ debits[m] \in Nat
  BY DEF TypeOK, WorldType
<1>4. CASE UNCHANGED <<workerVars, worldVars>>
  BY <1>2, <1>4 DEF Sending, workerVars, worldVars
<1>5. ASSUME NEW c \in Campaigns,
             CheckName(c) \/ RejectTemplate(c) \/ CreateCampaign(c) \/ CreateStep(c) \/ RequestDies(c)
      PROVE  UNCHANGED <<workerVars, worldVars>>
  BY <1>5, RequestsKeepJobs
<1>6. ASSUME NEW j \in Messages,
             StatusCallback(j) \/ DelayOver(j) \/ RecoverOrphan(j) \/ LockExpires(j)
      PROVE  UNCHANGED <<workerVars, worldVars>>
  BY <1>6 DEF StatusCallback, DelayOver, RecoverOrphan, LockExpires
<1>7. ASSUME NEW w \in Workers, TakeMessage(w) \/ WorkerStep(w) \/ Crash(w)
      PROVE  dispatched'[m] + Cardinality(Sending(m)') <= debits'[m]
  <2> DEFINE n == Cardinality(Sending(m) \ {w})
  <2>1. /\ n \in Nat
        /\ Cardinality(Sending(m)) = IF w \in Sending(m) THEN n + 1 ELSE n
        /\ Cardinality(Sending(m)') = IF w \in Sending(m)' THEN n + 1 ELSE n
    BY <1>7, SendingCount
  <2> HIDE DEF n
  <2>2. CASE dispatched'[m] = dispatched[m] /\ debits'[m] = debits[m] /\ (w \in Sending(m)' => w \in Sending(m))
    BY <1>2, <1>3, <2>1, <2>2
  <2>3. CASE TakeMessage(w)
    BY <2>2, <2>3 DEF TakeMessage, Goto, Sending, worldVars, TypeOK, WorkerType
  <2>4. CASE Crash(w)
    BY <2>2, <2>4, CampaignAssumption DEF Crash, Release, Sending, worldVars, TypeOK, WorkerType
  <2>5. CASE WorkerStep(w) /\ cur[w] # m
    <3>1. w \notin Sending(m)'
      BY <2>5, CampaignAssumption DEF Sending, WorkerStep, ReadFails, Debit, Consume, Throttled, SendTemplate, SaveSent, CountAtEnd,
    FinishCheck, MarkDead, Refund, JobCompleted, JobThrew, Release, TypeOK, WorkerType
    <3> QED BY <2>2, <2>5, <3>1, OwnJobOnly
  <2>6. CASE Debit(w) /\ cur[w] = m
    <3>1. dispatched'[m] = dispatched[m] /\ w \notin Sending(m)
      BY <2>6 DEF Debit, Sending
    <3>2. w \in Sending(m)' => pc'[w] = "limit"
      BY <2>6 DEF Debit, Goto, Sending, TypeOK, WorkerType
    <3>3. debits'[m] \in Nat /\ debits'[m] >= debits[m] /\ (pc'[w] = "limit" => debits'[m] >= debits[m] + 1)
      BY <1>3, <2>6 DEF Debit, Goto, Count, TypeOK, WorkerType, WorldType
    <3> QED BY <1>2, <1>3, <2>1, <3>1, <3>2, <3>3
  <2>7. CASE SendTemplate(w) /\ cur[w] = m
    <3>1. w \in Sending(m) /\ w \notin Sending(m)'
      BY <2>7 DEF SendTemplate, Goto, Sending, TypeOK, WorkerType
    <3>2. debits'[m] = debits[m] /\ (dispatched'[m] = dispatched[m] \/ dispatched'[m] = dispatched[m] + 1)
      BY <1>3, <2>7 DEF SendTemplate, Count, TypeOK, WorldType
    <3> QED BY <1>2, <1>3, <2>1, <3>1, <3>2
  <2>8. CASE WorkerStep(w) /\ cur[w] = m /\ ~Debit(w) /\ ~SendTemplate(w)
    <3>1. w \in Sending(m)' => w \in Sending(m)
      BY <2>8 DEF WorkerStep, ReadFails, Consume, Throttled, SaveSent, CountAtEnd, FinishCheck, MarkDead, Refund,
         JobCompleted, JobThrew, Release, Goto, Sending, TypeOK, WorkerType
    <3>2. UNCHANGED <<debits, dispatched>>
      BY <2>8 DEF WorkerStep, ReadFails, Consume, Throttled, SaveSent, CountAtEnd, FinishCheck, MarkDead, Refund,
         JobCompleted, JobThrew, worldVars
    <3> QED BY <2>2, <3>1, <3>2
  <2> QED BY <1>7, <2>3, <2>4, <2>5, <2>6, <2>7, <2>8 DEF WorkerStep
<1>8. CASE UNCHANGED vars
  BY <1>4, <1>8 DEF vars
<1>9. ASSUME NEW c \in Campaigns, HookStep(c)
      PROVE  UNCHANGED <<workerVars, worldVars>>
  BY <1>9, HooksKeepJobs
<1> QED BY <1>4, <1>5, <1>6, <1>7, <1>8, <1>9 DEF Next

-----------------------------------------------------------------------------
(* A message is inserted before its job is added, and a campaign completes *)
(* when its messages are done.                                             *)

Done == {"sent", "delivered", "read", "dead"}

(* A status is changed by the insertion of the message, or by those who send *)
(* it and report on it.                                                      *)
LEMMA StatusMoves ==
  ASSUME TypeOK, InsertedFirst, LocksAreHeld, [Next]_vars, NEW m \in Messages
  PROVE  \/ status'[m] = status[m]
         \/ status[m] # "none" /\ status'[m] \in Done
         \/ \E c \in Campaigns : /\ (InsertMessages(c) \/ InsertFails(c)) /\ Campaign(m) = c
                                 /\ status[m] = "none" /\ status'[m] = "queued"
<1>1. ASSUME NEW c \in Campaigns, InsertMessages(c) \/ InsertFails(c), status'[m] # status[m]
      PROVE  Campaign(m) = c /\ status[m] = "none" /\ status'[m] = "queued"
  <2>1. PICK n \in Nat : status' = [j \in Messages |-> IF j \in Slice(c, index[c], n) THEN "queued" ELSE status[j]]
    BY <1>1, MessagesOf DEF InsertMessages, InsertFails
  <2>2. m \in Slice(c, index[c], n) /\ status'[m] = "queued"
    BY <1>1, <2>1
  <2>3. PICK k \in 1..Recipients : m = <<Campaign(m), k>> /\ Campaign(m) \in Campaigns
    BY MessagesOf
  <2>4. index[c] \in Nat
    BY DEF TypeOK, RequestType
  <2>5. Campaign(m) = c /\ k > index[c]
    BY <2>2, <2>3, <2>4, InSlice
  <2>6. at[c] = "insert"
    BY <1>1 DEF InsertMessages, InsertFails
  <2> QED BY <2>2, <2>3, <2>5, <2>6 DEF InsertedFirst
<1>2. ASSUME NEW c \in Campaigns,
             CheckName(c) \/ RejectTemplate(c) \/ CreateCampaign(c) \/ CreateStep(c) \/ RequestDies(c),
             ~InsertMessages(c), ~InsertFails(c)
      PROVE  UNCHANGED status
  BY <1>2 DEF CheckName, RejectTemplate, CreateCampaign, CreateStep, RequestDies, HardBlock, PushChunk,
     PushFails, mongoVars
<1>3. ASSUME NEW w \in Workers, TakeMessage(w) \/ WorkerStep(w) \/ Crash(w), status'[m] # status[m]
      PROVE  status[m] # "none" /\ status'[m] \in Done
  <2>1. SaveSent(w) \/ MarkDead(w)
    BY <1>3 DEF TakeMessage, WorkerStep, Crash, ReadFails, Debit, Consume, Throttled, SendTemplate, CountAtEnd, FinishCheck,
       Refund, JobCompleted, JobThrew, mongoVars
  <2>2. cur[w] = m
    BY <1>3, <2>1, OwnJobOnly DEF WorkerStep
  <2>3. status'[m] \in Done
    BY <1>3, <2>1, <2>2 DEF SaveSent, MarkDead, Done, TypeOK, MongoType
  <2> QED BY <2>2, <2>3 DEF InsertedFirst
<1>4. ASSUME NEW j \in Messages, StatusCallback(j), status'[m] # status[m]
      PROVE  status[m] # "none" /\ status'[m] \in Done
  <2>1. j = m /\ hasWamid[m]
    BY <1>4 DEF StatusCallback, TypeOK, MongoType
  <2>2. status'[m] \in Done
    BY <1>4, <2>1, CampaignAssumption DEF StatusCallback, Done, TypeOK, MongoType
  <2> QED BY <2>1, <2>2 DEF InsertedFirst
<1>5. ASSUME NEW j \in Messages, DelayOver(j) \/ RecoverOrphan(j) \/ LockExpires(j)
      PROVE  UNCHANGED status
  BY <1>5 DEF DelayOver, RecoverOrphan, LockExpires, mongoVars
<1>6. CASE UNCHANGED vars
  BY <1>6 DEF vars, mongoVars
<1> QED BY <1>1, <1>2, <1>3, <1>4, <1>5, <1>6, HooksKeepJobs DEF Next

LEMMA InsertedStep ==
  ASSUME TypeOK, InsertedFirst, LocksAreHeld, [Next]_vars,
         NEW c \in Campaigns, NEW k \in 1..Recipients
  PROVE  /\ at'[c] \in {"none", "checked"} => status'[<<c, k>>] = "none"
         /\ at'[c] = "insert" => (status'[<<c, k>>] = "none" <=> k > index'[c])
         /\ at'[c] = "push" => (status'[<<c, k>>] = "none" <=> k > index'[c] + DbChunk)
<1> DEFINE m == <<c, k>>
<1>1. m \in Messages /\ Campaign(m) = c
  BY MessagesOf
<1>2. /\ at[c] \in {"none", "checked"} => status[m] = "none"
      /\ at[c] = "insert" => (status[m] = "none" <=> k > index[c])
      /\ at[c] = "push" => (status[m] = "none" <=> k > index[c] + DbChunk)
  BY DEF InsertedFirst
<1> HIDE DEF m
<1>3. CASE InsertMessages(c)
  <2>1. index[c] \in Nat /\ DbChunk \in Nat
    BY MessagesOf DEF TypeOK, RequestType
  <2>2. at[c] = "insert" /\ at'[c] = "push" /\ UNCHANGED index
    BY <1>3 DEF InsertMessages, Moved, TypeOK, RequestType
  <2>3. m \in Slice(c, index[c], DbChunk) <=> index[c] < k /\ k <= index[c] + DbChunk
    BY <2>1, InSlice DEF m
  <2>4. status'[m] = IF m \in Slice(c, index[c], DbChunk) THEN "queued" ELSE status[m]
    BY <1>1, <1>3 DEF InsertMessages
  <2> QED BY <1>2, <2>1, <2>2, <2>3, <2>4 DEF m
<1>4. CASE InsertFails(c)
  BY <1>4 DEF InsertFails, Moved, TypeOK, RequestType
<1>5. CASE ~InsertMessages(c) /\ ~InsertFails(c)
  <2>1. status'[m] = "none" <=> status[m] = "none"
    BY <1>1, <1>5, StatusMoves DEF Done
  <2>2. CASE at'[c] = at[c] /\ index'[c] = index[c]
    BY <1>2, <2>1, <2>2 DEF m
  <2>3. CASE CheckName(c) \/ RejectTemplate(c)
    BY <1>2, <2>1, <2>3 DEF CheckName, RejectTemplate, Moved, m, TypeOK, RequestType
  <2>4. CASE CreateCampaign(c)
    <3>1. index'[c] = 0 /\ at'[c] \in {"drafted", "insert"} /\ at[c] = "checked"
      BY <2>4 DEF CreateCampaign, Moved, TypeOK, RequestType
    <3> QED BY <1>2, <2>1, <3>1 DEF m
  <2>5. CASE HardBlock(c) \/ PushFails(c) \/ RequestDies(c)
    BY <2>5 DEF HardBlock, PushFails, RequestDies, Moved, TypeOK, RequestType
  <2>6. CASE PushChunk(c)
    <3>1. \/ at'[c] = at[c] /\ index'[c] = index[c]
          \/ at'[c] = "done"
          \/ at'[c] = "insert" /\ index'[c] = index[c] + DbChunk
      BY <2>6 DEF PushChunk, Advance, Moved, TypeOK, RequestType
    <3>2. at[c] = "push"
      BY <2>6 DEF PushChunk
    <3> QED BY <1>2, <2>1, <2>2, <3>1, <3>2 DEF m
  <2>7. ASSUME NEW d \in Campaigns, d # c,
               CheckName(d) \/ RejectTemplate(d) \/ CreateCampaign(d) \/ CreateStep(d) \/ RequestDies(d)
        PROVE  at'[c] = at[c] /\ index'[c] = index[c]
    BY <2>7 DEF CheckName, RejectTemplate, CreateCampaign, CreateStep, RequestDies, InsertMessages, InsertFails,
       HardBlock, PushChunk, PushFails, Advance, Moved, TypeOK, RequestType
  <2>8. CASE UNCHANGED requestVars
    BY <2>2, <2>8 DEF requestVars
  <2> QED BY <1>5, <2>2, <2>3, <2>4, <2>5, <2>6, <2>7, <2>8, JobsKeepRequests DEF Next, CreateStep, vars
<1> QED BY <1>3, <1>4, <1>5

(* A job, once added, does not go away. *)
LEMMA JobStays ==
  ASSUME TypeOK, LocksAreHeld, [Next]_vars, NEW m \in Messages, jobState[m] # "none"
  PROVE  jobState'[m] # "none"
<1>1. ASSUME NEW w \in Workers, TakeMessage(w)
      PROVE  jobState'[m] # "none"
  BY <1>1, MessagesOf DEF TakeMessage, Take, TypeOK, QueueType
<1>2. ASSUME NEW w \in Workers, WorkerStep(w)
      PROVE  jobState'[m] # "none"
  BY <1>2, MessagesOf DEF WorkerStep, ReadFails, Debit, Consume, Throttled, SendTemplate, SaveSent, CountAtEnd,
    FinishCheck, MarkDead, Refund, JobCompleted, JobThrew, Complete, Threw, Settle, queueVars, TypeOK, QueueType
<1>3. ASSUME NEW w \in Workers, Crash(w)
      PROVE  UNCHANGED jobState
  BY <1>3 DEF Crash, DropLocks
<1>4. ASSUME NEW j \in Messages, StatusCallback(j) \/ DelayOver(j) \/ RecoverOrphan(j) \/ LockExpires(j)
      PROVE  jobState'[m] # "none"
  BY <1>4, MessagesOf DEF StatusCallback, DelayOver, BackoffOver, RecoverOrphan, LockExpires, PutBack, queueVars,
     TypeOK, QueueType
<1>5. ASSUME NEW c \in Campaigns,
             CheckName(c) \/ RejectTemplate(c) \/ CreateCampaign(c) \/ CreateStep(c) \/ RequestDies(c)
      PROVE  jobState'[m] # "none"
  BY <1>5, RequestsKeepJobs, MessagesOf
<1> QED BY <1>1, <1>2, <1>3, <1>4, <1>5, HooksKeepJobs DEF Next, vars, queueVars

(* A job is added by the push of its chunk, a wamid stored by a run. *)
LEMMA AddedByPush ==
  ASSUME TypeOK, InsertedFirst, LocksAreHeld, [Next]_vars, NEW m \in Messages,
         jobState[m] = "none", jobState'[m] # "none"
  PROVE  \E c \in Campaigns : at[c] = "push" /\ UNCHANGED status /\ m \in QueueSlice(c)
<1>1. ASSUME NEW c \in Campaigns,
             CheckName(c) \/ RejectTemplate(c) \/ CreateCampaign(c) \/ CreateStep(c) \/ RequestDies(c)
      PROVE  at[c] = "push" /\ UNCHANGED status /\ m \in QueueSlice(c)
  BY <1>1, RequestsKeepJobs, MessagesOf
<1>2. ASSUME NEW w \in Workers, TakeMessage(w) \/ WorkerStep(w) \/ Crash(w)
      PROVE  jobState'[m] = "none"
  <2>1. m # cur[w]
    BY <1>2 DEF InsertedFirst
  <2>2. CASE TakeMessage(w)
    BY <2>2, MessagesOf DEF TakeMessage, Take, TypeOK, QueueType
  <2> QED BY <1>2, <2>1, <2>2, OwnJobOnly
<1>3. ASSUME NEW j \in Messages, StatusCallback(j) \/ DelayOver(j) \/ RecoverOrphan(j) \/ LockExpires(j)
      PROVE  jobState'[m] = "none"
  BY <1>3, MessagesOf DEF StatusCallback, DelayOver, BackoffOver, RecoverOrphan, LockExpires, PutBack, queueVars,
     TypeOK, QueueType
<1> QED BY <1>1, <1>2, <1>3, HooksKeepJobs DEF Next, vars, queueVars

LEMMA WamidByRun ==
  ASSUME TypeOK, LocksAreHeld, [Next]_vars, NEW m \in Messages, ~hasWamid[m], hasWamid'[m]
  PROVE  \E w \in Workers : SaveSent(w) /\ cur[w] = m
<1>1. PICK w \in Workers : SaveSent(w)
  BY RequestsKeepJobs, HooksKeepJobs DEF Next, WorkerStep, TakeMessage, Crash, ReadFails, Debit, Consume,
     Throttled, SendTemplate, CountAtEnd, FinishCheck, MarkDead, Refund, JobCompleted, JobThrew, StatusCallback,
     DelayOver, RecoverOrphan, LockExpires, mongoVars, vars
<1>2. cur[w] = m
  BY <1>1, OwnJobOnly DEF WorkerStep
<1> QED BY <1>1, <1>2

LEMMA InsertedFirstStep ==
  ASSUME TypeOK, InsertedFirst, LocksAreHeld, [Next]_vars
  PROVE  InsertedFirst'
<1>1. ASSUME NEW m \in Messages, jobState[m] # "none" \/ hasWamid[m]
      PROVE  status'[m] # "none"
  BY <1>1, StatusMoves DEF InsertedFirst, Done
<1>2. ASSUME NEW m \in Messages, jobState'[m] # "none"
      PROVE  status'[m] # "none"
  <2>1. CASE jobState[m] = "none"
    <3>1. PICK c \in Campaigns : at[c] = "push" /\ UNCHANGED status /\ m \in QueueSlice(c)
      BY <1>2, <2>1, AddedByPush
    <3>2. PICK k \in 1..Recipients : m = <<Campaign(m), k>> /\ Campaign(m) \in Campaigns
      BY MessagesOf
    <3>3. m = <<c, k>> /\ k <= index[c] + DbChunk
      BY <3>1, <3>2, SliceGrows
    <3>4. ~(k > index[c] + DbChunk)
      BY <3>3, MessagesOf DEF TypeOK, RequestType
    <3> QED BY <3>1, <3>3, <3>4 DEF InsertedFirst
  <2> QED BY <1>1, <2>1
<1>3. ASSUME NEW m \in Messages, hasWamid'[m]
      PROVE  status'[m] # "none"
  <2>1. CASE ~hasWamid[m]
    <3>1. PICK w \in Workers : cur[w] = m
      BY <1>3, <2>1, WamidByRun
    <3> QED BY <1>1, <3>1 DEF InsertedFirst
  <2> QED BY <1>1, <2>1
<1>4. ASSUME NEW v \in Workers, cur'[v] \in Messages
      PROVE  jobState'[cur'[v]] # "none"
  <2>1. CASE cur'[v] = cur[v]
    BY <1>4, <2>1, JobStays DEF InsertedFirst
  <2>2. ASSUME NEW w \in Workers, TakeMessage(w), v = w
        PROVE  jobState'[cur'[v]] # "none"
    BY <2>2, MessagesOf DEF TakeMessage, Take, TypeOK, QueueType, WorkerType
  <2>3. ASSUME NEW w \in Workers, WorkerStep(w) \/ Crash(w), v = w
        PROVE  cur'[v] = cur[v]
    BY <1>4, <2>3, CampaignAssumption DEF WorkerStep, Crash, ReadFails, Debit, Consume, Throttled, SendTemplate,
       SaveSent, CountAtEnd, FinishCheck, MarkDead, Refund, JobCompleted, JobThrew, Release, TypeOK, WorkerType
  <2>4. ASSUME NEW w \in Workers, TakeMessage(w) \/ WorkerStep(w) \/ Crash(w)
        PROVE  jobState'[cur'[v]] # "none"
    BY <2>1, <2>2, <2>3, <2>4, OwnRunOnly
  <2>5. CASE UNCHANGED workerVars
    BY <2>1, <2>5 DEF workerVars
  <2> QED BY <2>4, <2>5, RequestsKeepJobs, HooksKeepJobs DEF Next, StatusCallback, DelayOver, RecoverOrphan, LockExpires, vars
<1> QED BY <1>2, <1>3, <1>4, InsertedStep DEF InsertedFirst

(* A message that is done stays done, one that is inserted stays inserted. *)
LEMMA DoneStays ==
  ASSUME TypeOK, InsertedFirst, LocksAreHeld, [Next]_vars, NEW c \in Campaigns
  PROVE  /\ DoneAsCounted(c) /\ early \subseteq early' => DoneAsCounted(c)'
         /\ FirstChunk(c) => FirstChunk(c)'
<1>1. ASSUME NEW k \in 1..Recipients
      PROVE  /\ status[<<c, k>>] \in Done => status'[<<c, k>>] \in Done
             /\ status[<<c, k>>] # "none" => status'[<<c, k>>] # "none"
  <2> DEFINE m == <<c, k>>
  <2>1. m \in Messages
    BY MessagesOf
  <2> HIDE DEF m
  <2>2. /\ status[m] \in Done => status'[m] \in Done
        /\ status[m] # "none" => status'[m] # "none"
    BY <2>1, StatusMoves DEF Done
  <2> QED BY <2>2 DEF m
<1>2. ASSUME FirstChunk(c)
      PROVE  FirstChunk(c)'
  <2> SUFFICES ASSUME NEW k \in 1..Recipients, k <= DbChunk
               PROVE  status'[<<c, k>>] # "none"
    BY DEF FirstChunk
  <2>1. status[<<c, k>>] # "none"
    BY <1>2 DEF FirstChunk
  <2> QED BY <1>1, <2>1
<1>3. ASSUME DoneAsCounted(c), early \subseteq early'
      PROVE  DoneAsCounted(c)'
  <2> SUFFICES ASSUME NEW k \in 1..Recipients, c \in early' => k <= DbChunk
               PROVE  status'[<<c, k>>] \in Done
    BY DEF DoneAsCounted, Done
  <2>1. status[<<c, k>>] \in Done
    BY <1>3 DEF DoneAsCounted, Done
  <2> QED BY <1>1, <2>1
<1> QED BY <1>2, <1>3

LEMMA EarlyGrows ==
  ASSUME [Next]_vars
  PROVE  early \subseteq early'
BY DEF Next, CheckName, RejectTemplate, CreateCampaign, CreateStep, RequestDies, InsertMessages, InsertFails, HardBlock,
   PushChunk, PushFails, HookStep, HookCounts, HookUpdates, CountedNone, CountedSome, CountFails, TakeMessage,
   WorkerStep, Crash, ReadFails, Debit, Consume, Throttled, SendTemplate, SaveSent, CountAtEnd, FinishCheck, MarkDead,
   Refund, JobCompleted, JobThrew, StatusCallback, DelayOver, RecoverOrphan, LockExpires, histVars, vars

(* A count that finds nothing pending, when the first chunk is inserted. *)
LEMMA CountedIsDone ==
  ASSUME TypeOK, NEW c \in Campaigns, FirstChunk(c), CountedNone(c), UNCHANGED status
  PROVE  DoneAsCounted(c)'
<1> SUFFICES ASSUME NEW k \in 1..Recipients, c \in early' => k <= DbChunk
             PROVE  status[<<c, k>>] \in Done
  BY DEF DoneAsCounted, Done
<1>1. <<c, k>> \in Messages /\ Campaign(<<c, k>>) = c
  BY MessagesOf
<1>2. status[<<c, k>>] # "queued"
  BY <1>1 DEF CountedNone, Pending
<1>3. status[<<c, k>>] # "none"
  BY <1>1 DEF CountedNone, FirstChunk
<1> QED BY <1>1, <1>2, <1>3 DEF TypeOK, MongoType, Done

LEMMA CountsStep ==
  ASSUME TypeOK, InsertedFirst, LocksAreHeld, CountsHold, [Next]_vars
  PROVE  CountsHold'
<1>1. ASSUME NEW c \in Campaigns
      PROVE  /\ DoneAsCounted(c) => DoneAsCounted(c)'
             /\ FirstChunk(c) => FirstChunk(c)'
  BY DoneStays, EarlyGrows
<1>2. ASSUME NEW m \in Messages, jobState'[m] # "none"
      PROVE  FirstChunk(Campaign(m))'
  <2>1. CASE jobState[m] # "none"
    BY <1>1, <2>1, MessagesOf DEF CountsHold
  <2>2. CASE jobState[m] = "none"
    <3>1. PICK c \in Campaigns : at[c] = "push" /\ m \in QueueSlice(c)
      BY <1>2, <2>2, AddedByPush
    <3>2. Campaign(m) = c
      BY <3>1, SliceGrows, MessagesOf DEF Campaign
    <3>3. FirstChunk(c)
      <4>1. index[c] \in Nat /\ DbChunk \in Nat /\ Recipients \in Nat
        BY MessagesOf DEF TypeOK, RequestType
      <4> QED BY <3>1, <4>1 DEF InsertedFirst, FirstChunk
    <3> QED BY <1>1, <3>2, <3>3
  <2> QED BY <2>1, <2>2
<1>3. ASSUME NEW m \in Messages, hasWamid'[m]
      PROVE  jobState'[m] # "none"
  <2>1. CASE hasWamid[m]
    BY <2>1, JobStays DEF CountsHold
  <2>2. CASE ~hasWamid[m]
    <3>1. PICK w \in Workers : cur[w] = m
      BY <1>3, <2>2, WamidByRun
    <3> QED BY <3>1, JobStays DEF InsertedFirst
  <2> QED BY <2>1, <2>2
<1>4. ASSUME NEW c \in Campaigns
      PROVE  /\ hooks'[c] # {} => FirstChunk(c)'
             /\ "update" \in hooks'[c] => DoneAsCounted(c)'
  <2>1. CASE hooks'[c] = hooks[c]
    BY <1>1, <2>1 DEF CountsHold
  <2>2. CASE \E d \in Campaigns : HookStep(d)
    <3>1. PICK d \in Campaigns : HookStep(d)
      BY <2>2
    <3>2. CASE d # c
      BY <2>1, <3>1, <3>2 DEF HookStep, HookCounts, HookUpdates, TypeOK, HookType
    <3>3. CASE d = c /\ HookCounts(c) /\ CountedNone(c)
      <4>1. FirstChunk(c) /\ UNCHANGED status
        BY <3>3 DEF HookCounts, CountsHold, mongoVars
      <4> QED BY <1>1, <3>3, <4>1, CountedIsDone
    <3>4. CASE d = c /\ ~(HookCounts(c) /\ CountedNone(c))
      <4>1. hooks'[c] \subseteq hooks[c]
        BY <3>1, <3>4 DEF HookStep, HookCounts, HookUpdates, TypeOK, HookType
      <4> QED BY <1>1, <4>1 DEF CountsHold
    <3> QED BY <3>2, <3>3, <3>4
  <2>3. CASE \E m \in Messages : StatusCallback(m)
    <3>1. PICK m \in Messages : StatusCallback(m)
      BY <2>3
    <3>2. CASE Campaign(m) # c
      BY <2>1, <3>1, <3>2 DEF StatusCallback, TypeOK, HookType
    <3>3. CASE Campaign(m) = c
      <4>1. FirstChunk(c)
        BY <3>1, <3>3 DEF StatusCallback, CountsHold
      <4>2. "update" \in hooks'[c] => "update" \in hooks[c]
        BY <3>1, <3>3 DEF StatusCallback, TypeOK, HookType
      <4> QED BY <1>1, <4>1, <4>2 DEF CountsHold
    <3> QED BY <3>2, <3>3
  <2>4. CASE UNCHANGED hooks
    BY <2>1, <2>4
  <2> QED BY <2>2, <2>3, <2>4, RequestsKeepJobs DEF Next, TakeMessage, WorkerStep, Crash, ReadFails, Debit, Consume,
       Throttled, SendTemplate, SaveSent, CountAtEnd, FinishCheck, MarkDead, Refund, JobCompleted, JobThrew, DelayOver,
       RecoverOrphan, LockExpires, vars
<1>5. ASSUME NEW v \in Workers, pc'[v] = "update"
      PROVE  DoneAsCounted(Campaign(cur[v]))' /\ cur'[v] = cur[v]
  <2>1. CASE pc[v] = "update" /\ cur'[v] = cur[v]
    <3>1. Campaign(cur[v]) \in Campaigns
      BY <2>1, RunHasMessage, MessagesOf
    <3> QED BY <1>1, <2>1, <3>1 DEF CountsHold
  <2>2. CASE CountAtEnd(v)
    <3>1. cur[v] \in Messages /\ Campaign(cur[v]) \in Campaigns /\ cur'[v] = cur[v] /\ UNCHANGED status
      BY <2>2, RunHasMessage, MessagesOf DEF CountAtEnd, mongoVars
    <3>2. FirstChunk(Campaign(cur[v]))
      BY <3>1 DEF InsertedFirst, CountsHold
    <3>3. CountedNone(Campaign(cur[v]))
      BY <1>5, <2>2 DEF CountAtEnd, Goto, TypeOK, WorkerType
    <3> QED BY <3>1, <3>2, <3>3, CountedIsDone
  <2>3. ASSUME NEW w \in Workers, TakeMessage(w) \/ WorkerStep(w) \/ Crash(w), ~CountAtEnd(v)
        PROVE  pc[v] = "update" /\ cur'[v] = cur[v]
    <3>1. CASE w # v
      BY <1>5, <2>3, <3>1, OwnRunOnly
    <3>2. CASE w = v
      BY <1>5, <2>3, <3>2 DEF TakeMessage, WorkerStep, Crash, ReadFails, Debit, Consume, Throttled, SendTemplate,
         SaveSent, FinishCheck, MarkDead, Refund, JobCompleted, JobThrew, Release, Goto, TypeOK, WorkerType
    <3> QED BY <3>1, <3>2
  <2>4. CASE UNCHANGED workerVars
    BY <1>5, <2>1, <2>4 DEF workerVars
  <2> QED BY <2>1, <2>2, <2>3, <2>4, RequestsKeepJobs, HooksKeepJobs DEF Next, StatusCallback, DelayOver,
       RecoverOrphan, LockExpires, vars
<1>6. ASSUME NEW v \in Workers, pc'[v] = "update"
      PROVE  DoneAsCounted(Campaign(cur[v]))'  /\ Campaign(cur'[v]) = Campaign(cur[v])
  BY <1>5, <1>6
<1> QED BY <1>2, <1>3, <1>4, <1>6 DEF CountsHold, Campaign, DoneAsCounted

LEMMA CompletedStep ==
  ASSUME TypeOK, InsertedFirst, LocksAreHeld, CountsHold, CompletedMeansDone, [Next]_vars
  PROVE  CompletedMeansDone'
<1>1. SUFFICES ASSUME NEW c \in Campaigns, campaign'[c] = "completed"
               PROVE  DoneAsCounted(c)'
  BY DEF CompletedMeansDone
<1>2. DoneAsCounted(c) => DoneAsCounted(c)'
  BY DoneStays, EarlyGrows
<1>3. CASE campaign[c] = "completed"
  BY <1>2, <1>3 DEF CompletedMeansDone
<1>4. ASSUME NEW d \in Campaigns, SetCompleted(d), DoneAsCounted(d)
      PROVE  DoneAsCounted(c)'
  <2>1. d = c \/ campaign[c] = "completed"
    BY <1>1, <1>4 DEF SetCompleted, TypeOK, MongoType
  <2> QED BY <1>2, <1>3, <1>4, <2>1
<1>5. ASSUME NEW w \in Workers, FinishCheck(w)
      PROVE  DoneAsCounted(c)'
  <2>1. Campaign(cur[w]) \in Campaigns /\ DoneAsCounted(Campaign(cur[w]))
    BY <1>5, RunHasMessage, MessagesOf DEF FinishCheck, CountsHold
  <2>2. SetCompleted(Campaign(cur[w])) \/ UNCHANGED campaign
    BY <1>5, <2>1, CheckTypes DEF FinishCheck
  <2> QED BY <1>1, <1>3, <1>4, <2>1, <2>2
<1>6. ASSUME NEW d \in Campaigns, HookUpdates(d)
      PROVE  DoneAsCounted(c)'
  <2>1. DoneAsCounted(d)
    BY <1>6 DEF HookUpdates, CountsHold
  <2>2. SetCompleted(d) \/ UNCHANGED campaign
    BY <1>6, CheckTypes DEF HookUpdates
  <2> QED BY <1>1, <1>3, <1>4, <2>1, <2>2
<1>7. ASSUME NEW d \in Campaigns, CreateCampaign(d)
      PROVE  campaign[c] = "completed"
  BY <1>1, <1>7 DEF CreateCampaign, TypeOK, MongoType
<1>8. CASE UNCHANGED campaign
  BY <1>1, <1>3, <1>8
<1> QED BY <1>3, <1>5, <1>6, <1>7, <1>8 DEF Next, CheckName, RejectTemplate, CreateStep, RequestDies, InsertMessages,
     InsertFails, HardBlock, PushChunk, PushFails, HookStep, HookCounts, TakeMessage, WorkerStep, Crash, ReadFails,
     Debit, Consume, Throttled, SendTemplate, SaveSent, CountAtEnd, MarkDead, Refund, JobCompleted, JobThrew,
     StatusCallback, DelayOver, RecoverOrphan, LockExpires, mongoVars, vars

-----------------------------------------------------------------------------
(* A message that is closed, or that was sent, is not taken up again.      *)

(* What the steps of a run do to its job. *)
LEMMA OwnJob ==
  ASSUME TypeOK, NEW w \in Workers, WorkerStep(w) \/ Crash(w)
  PROVE  LET m == cur[w]
         IN /\ m \in Messages /\ pc[w] # "idle"
            /\ stalledCount' = stalledCount
            /\ \/ /\ cur'[w] = m /\ pc'[w] # "idle"
                  /\ UNCHANGED <<jobState, lock>>
               \/ /\ cur'[w] = NoMessage /\ pc'[w] = "idle"
                  /\ \/ /\ lock[m] = w /\ lock'[m] = NoWorker
                        /\ \/ jobState'[m] = "completed" /\ pc[w] = "complete"
                           \/ jobState'[m] \in {"delayed", "failed"} /\ pc[w] \in {"limit", "threw"}
                     \/ lock[m] # w /\ UNCHANGED <<jobState, lock>>
                     \/ Crash(w) /\ UNCHANGED jobState
<1>1. cur[w] \in Messages /\ pc[w] # "idle"
  BY RunHasMessage DEF WorkerStep, Crash, ReadFails, Debit, Consume, Throttled, SendTemplate, SaveSent, CountAtEnd,
    FinishCheck, MarkDead, Refund, JobCompleted, JobThrew
<1>2. ASSUME NEW label \in {"limit", "send", "save", "check", "update", "fatal", "refund", "threw", "complete"},
             Goto(w, label)
      PROVE  pc'[w] # "idle"
  BY <1>2 DEF Goto, TypeOK, WorkerType
<1>3. ASSUME Release(w)
      PROVE  cur'[w] = NoMessage /\ pc'[w] = "idle"
  BY <1>3 DEF Release, Goto, TypeOK, WorkerType
<1>4. CASE JobCompleted(w)
  <2>1. Settle(w, cur[w], "completed", attemptsMade[cur[w]]) /\ pc[w] = "complete" /\ Release(w)
    BY <1>4 DEF JobCompleted, Complete
  <2> QED BY <1>1, <1>3, <2>1, MessagesOf DEF Settle, queueVars, TypeOK, QueueType
<1>5. CASE JobThrew(w)
  <2>1. /\ pc[w] = "threw" /\ Release(w)
        /\ \E state \in {"delayed", "failed"} : \E made : Settle(w, cur[w], state, made)
    BY <1>5 DEF JobThrew, Threw
  <2> QED BY <1>1, <1>3, <2>1, MessagesOf DEF Settle, queueVars, TypeOK, QueueType
<1>6. CASE Throttled(w) /\ Release(w)
  <2>1. pc[w] = "limit" /\ Settle(w, cur[w], "delayed", attemptsMade[cur[w]])
    BY <1>2, <1>3, <1>6 DEF Throttled
  <2> QED BY <1>1, <1>3, <1>6, <2>1, MessagesOf DEF Settle, queueVars, TypeOK, QueueType
<1>7. CASE Crash(w)
  BY <1>1, <1>3, <1>7 DEF Crash, DropLocks
<1>8. CASE /\ WorkerStep(w) /\ ~JobCompleted(w) /\ ~JobThrew(w) /\ ~(Throttled(w) /\ Release(w))
  <2>1. UNCHANGED <<cur, queueVars>>
    BY <1>8 DEF WorkerStep, ReadFails, Debit, Consume, Throttled, SendTemplate, SaveSent, CountAtEnd, FinishCheck, MarkDead, Refund
  <2>2. pc'[w] # "idle"
    BY <1>2, <1>8 DEF WorkerStep, ReadFails, Debit, Consume, Throttled, SendTemplate, SaveSent, CountAtEnd, FinishCheck, MarkDead, Refund
  <2> QED BY <1>1, <2>1, <2>2 DEF queueVars
<1> QED BY <1>4, <1>5, <1>6, <1>7, <1>8

(* What happens to a job apart from its runs. *)
LEMMA JobWaits ==
  ASSUME TypeOK, NEW m \in Messages,
         \/ \E c \in Campaigns :
              CheckName(c) \/ RejectTemplate(c) \/ CreateCampaign(c) \/ CreateStep(c) \/ RequestDies(c)
         \/ \E c \in Campaigns : HookStep(c)
         \/ \E j \in Messages : StatusCallback(j) \/ DelayOver(j) \/ RecoverOrphan(j) \/ LockExpires(j)
         \/ UNCHANGED vars
  PROVE  /\ UNCHANGED <<workerVars, worldVars>>
         /\ \/ /\ jobState'[m] = jobState[m] /\ stalledCount'[m] = stalledCount[m] /\ lock'[m] = lock[m]
               /\ losses'[m] = losses[m]
            \/ /\ jobState[m] \in {"none", "delayed"} /\ jobState'[m] \in {"waiting", "delayed"}
               /\ stalledCount'[m] = stalledCount[m] /\ lock'[m] = lock[m]
               /\ losses'[m] = losses[m]
            \/ /\ jobState[m] = "active" /\ jobState'[m] \in {"waiting", "failed"} /\ lock'[m] = NoWorker
               /\ \/ stalledCount'[m] > 0
                  \/ stalledCount'[m] = stalledCount[m] /\ jobState'[m] = "failed"
               /\ \/ losses'[m] = losses[m] + 1
                  \/ lock[m] = NoWorker /\ losses'[m] = losses[m]
<1>1. ASSUME NEW c \in Campaigns,
             CheckName(c) \/ RejectTemplate(c) \/ CreateCampaign(c) \/ CreateStep(c) \/ RequestDies(c)
      PROVE  /\ UNCHANGED <<workerVars, worldVars, losses, lock, stalledCount>>
             /\ \/ jobState'[m] = jobState[m]
                \/ jobState[m] = "none" /\ jobState'[m] \in {"waiting", "delayed"}
  BY <1>1, RequestsKeepJobs, MessagesOf DEF histVars
<1>2. ASSUME \/ \E j \in Messages : StatusCallback(j)
             \/ \E c \in Campaigns : HookStep(c)
      PROVE  UNCHANGED <<workerVars, worldVars, queueVars, losses>>
  BY <1>2, HooksKeepJobs DEF StatusCallback, histVars
<1>3. ASSUME NEW j \in Messages, DelayOver(j)
      PROVE  /\ UNCHANGED <<workerVars, worldVars, losses, lock, stalledCount>>
             /\ \/ jobState'[m] = jobState[m]
                \/ jobState[m] = "delayed" /\ jobState'[m] = "waiting"
  BY <1>3, MessagesOf DEF DelayOver, BackoffOver, histVars, TypeOK, QueueType
<1>4. ASSUME NEW j \in Messages, RecoverOrphan(j) \/ LockExpires(j)
      PROVE  /\ UNCHANGED <<workerVars, worldVars>>
             /\ j # m => /\ jobState'[m] = jobState[m] /\ stalledCount'[m] = stalledCount[m]
                         /\ lock'[m] = lock[m] /\ losses'[m] = losses[m]
             /\ j = m =>
                  /\ jobState[m] = "active" /\ jobState'[m] \in {"waiting", "failed"} /\ lock'[m] = NoWorker
                  /\ \/ stalledCount'[m] > 0
                     \/ stalledCount'[m] = stalledCount[m] /\ jobState'[m] = "failed"
                  /\ \/ losses'[m] = losses[m] + 1
                     \/ lock[m] = NoWorker /\ losses'[m] = losses[m]
  <2>1. PutBack(j) /\ UNCHANGED <<workerVars, worldVars>>
    BY <1>4 DEF RecoverOrphan, LockExpires
  <2>2. \/ losses' = Count(losses, j, 1)
        \/ lock[j] = NoWorker /\ UNCHANGED losses
    BY <1>4 DEF RecoverOrphan, LockExpires, histVars
  <2>3. CASE j # m
    <3>1. losses'[m] = losses[m]
      BY <2>2, <2>3 DEF Count, TypeOK, HistType
    <3> QED BY <2>1, <2>3, <3>1, MessagesOf DEF PutBack, TypeOK, QueueType
  <2>4. CASE j = m
    <3>1. jobState[m] = "active" /\ jobState'[m] \in {"waiting", "failed"} /\ lock'[m] = NoWorker
      BY <2>1, <2>4, MessagesOf DEF PutBack, TypeOK, QueueType
    <3>2. \/ stalledCount'[m] = stalledCount[m] + 1
          \/ stalledCount'[m] = stalledCount[m] /\ jobState'[m] = "failed"
      BY <2>1, <2>4, MessagesOf DEF PutBack, TypeOK, QueueType
    <3>3. stalledCount[m] + 1 > 0
      BY MessagesOf DEF TypeOK, QueueType
    <3>4. \/ losses'[m] = losses[m] + 1
          \/ lock[m] = NoWorker /\ losses'[m] = losses[m]
      BY <2>2, <2>4 DEF Count, TypeOK, HistType
    <3> QED BY <2>1, <2>4, <3>1, <3>2, <3>3, <3>4
  <2> QED BY <2>1, <2>3, <2>4
<1>5. CASE UNCHANGED vars
  BY <1>5 DEF vars, queueVars, histVars
<1> QED BY <1>1, <1>2, <1>3, <1>4, <1>5 DEF queueVars

LEMMA LocksStep ==
  ASSUME TypeOK, LocksAreHeld, [Next]_vars
  PROVE  LocksAreHeld'
<1>1. SUFFICES ASSUME NEW m \in Messages, lock'[m] \in Workers
               PROVE  cur'[lock'[m]] = m /\ jobState'[m] = "active"
  BY DEF LocksAreHeld
<1>2. ASSUME NEW w \in Workers, TakeMessage(w)
      PROVE  cur'[lock'[m]] = m /\ jobState'[m] = "active"
  <2>1. PICK j \in Messages : Take(w, j) /\ cur' = [cur EXCEPT ![w] = j]
    BY <1>2, MessagesOf DEF TakeMessage
  <2>2. CASE j = m
    BY <2>1, <2>2, MessagesOf DEF Take, TypeOK, QueueType, WorkerType
  <2>3. CASE j # m
    <3>1. lock'[m] = lock[m] /\ jobState'[m] = jobState[m]
      BY <2>1, <2>3, MessagesOf DEF Take, TypeOK, QueueType
    <3>2. lock[m] # w
      BY <1>1, <1>2, <3>1, RunHasMessage DEF TakeMessage, LocksAreHeld
    <3> QED BY <1>1, <2>1, <3>1, <3>2 DEF LocksAreHeld, TypeOK, WorkerType
  <2> QED BY <2>2, <2>3
<1>3. ASSUME NEW w \in Workers, WorkerStep(w) \/ Crash(w)
      PROVE  cur'[lock'[m]] = m /\ jobState'[m] = "active"
  <2>1. CASE m # cur[w]
    <3>1. lock'[m] = lock[m] /\ jobState'[m] = jobState[m]
      BY <1>3, <2>1, OwnJobOnly
    <3>2. lock[m] # w
      BY <1>1, <2>1, <3>1 DEF LocksAreHeld
    <3> QED BY <1>1, <1>3, <3>1, <3>2, OwnRunOnly DEF LocksAreHeld
  <2>2. CASE m = cur[w]
    <3>1. Crash(w) => lock'[m] # w /\ lock'[m] \in {lock[m], NoWorker}
      BY <1>1, <2>2, MessagesOf, QueueAssumption DEF Crash, DropLocks, TypeOK, QueueType
    <3>2. lock'[m] = lock[m] /\ jobState'[m] = jobState[m] /\ (lock[m] = w => cur'[w] = m)
      BY <1>1, <1>3, <2>2, <3>1, OwnJob, QueueAssumption
    <3> QED BY <1>1, <1>3, <3>2, OwnRunOnly DEF LocksAreHeld
  <2> QED BY <2>1, <2>2
<1>4. CASE UNCHANGED workerVars /\ lock'[m] = lock[m] /\ (lock[m] \in Workers => jobState'[m] = jobState[m])
  BY <1>1, <1>4 DEF LocksAreHeld, workerVars
<1>5. CASE \/ \E c \in Campaigns :
                CheckName(c) \/ RejectTemplate(c) \/ CreateCampaign(c) \/ CreateStep(c) \/ RequestDies(c)
           \/ \E c \in Campaigns : HookStep(c)
           \/ \E j \in Messages : StatusCallback(j) \/ DelayOver(j) \/ RecoverOrphan(j) \/ LockExpires(j)
           \/ UNCHANGED vars
  BY <1>1, <1>4, <1>5, JobWaits, QueueAssumption DEF LocksAreHeld
<1> QED BY <1>2, <1>3, <1>5 DEF Next

(* What OneRun says of one message. *)
One(m) ==
  \A w \in Workers : cur[w] = m =>
    \/ jobState[m] = "active" /\ lock[m] = w
    \/ jobState[m] = "failed" /\ \A v \in Workers : cur[v] = m => v = w

LEMMA OneRunStep ==
  ASSUME TypeOK, LocksAreHeld, OneRun, [Next]_vars
  PROVE  OneRun'
<1>1. SUFFICES ASSUME NEW m \in Messages, stalledCount'[m] = 0
               PROVE  One(m)'
  BY DEF OneRun, One
<1>2. One(m) \/ stalledCount[m] # 0
  BY DEF OneRun, One
<1>3. ASSUME NEW w \in Workers, TakeMessage(w)
      PROVE  One(m)'
  <2>1. PICK j \in Messages : Take(w, j) /\ cur' = [cur EXCEPT ![w] = j]
    BY <1>3, MessagesOf DEF TakeMessage
  <2>2. CASE j = m
    <3>1. jobState[m] = "waiting" /\ jobState'[m] = "active" /\ lock'[m] = w /\ stalledCount[m] = 0
      BY <1>1, <2>1, <2>2, MessagesOf DEF Take, TypeOK, QueueType
    <3>2. \A v \in Workers : cur[v] # m
      BY <1>2, <3>1 DEF One
    <3>3. \A v \in Workers : cur'[v] = m => v = w
      BY <2>1, <3>2 DEF TypeOK, WorkerType
    <3> QED BY <3>1, <3>3 DEF One
  <2>3. CASE j # m
    <3>1. lock'[m] = lock[m] /\ jobState'[m] = jobState[m] /\ stalledCount[m] = 0
      BY <1>1, <2>1, <2>3, MessagesOf DEF Take, TypeOK, QueueType
    <3>2. \A v \in Workers : cur'[v] = m => cur[v] = m
      BY <2>1, <2>3 DEF TypeOK, WorkerType
    <3> QED BY <1>2, <3>1, <3>2 DEF One
  <2> QED BY <2>2, <2>3
<1>4. ASSUME NEW w \in Workers, WorkerStep(w) \/ Crash(w)
      PROVE  One(m)'
  <2>1. \A v \in Workers : cur'[v] = m => cur[v] = m
    BY <1>4, OwnJob, OwnRunOnly, CampaignAssumption
  <2>2. CASE m # cur[w]
    <3>1. lock'[m] = lock[m] /\ jobState'[m] = jobState[m] /\ stalledCount[m] = 0
      BY <1>1, <1>4, <2>2, OwnJobOnly
    <3> QED BY <1>2, <2>1, <3>1 DEF One
  <2>3. CASE m = cur[w]
    <3>1. stalledCount[m] = 0
      BY <1>1, <1>4, OwnJob
    <3>2. CASE cur'[w] = m /\ UNCHANGED <<jobState, lock>>
      BY <1>2, <2>1, <3>1, <3>2 DEF One
    <3>3. CASE cur'[w] # m
      <4>1. \A v \in Workers : cur'[v] # m
        BY <1>2, <1>4, <2>1, <2>3, <3>1, <3>3 DEF One
      <4> QED BY <4>1 DEF One
    <3> QED BY <1>4, <2>3, <3>2, <3>3, OwnJob, CampaignAssumption
  <2> QED BY <2>2, <2>3
<1>5. CASE \/ \E c \in Campaigns :
                CheckName(c) \/ RejectTemplate(c) \/ CreateCampaign(c) \/ CreateStep(c) \/ RequestDies(c)
           \/ \E c \in Campaigns : HookStep(c)
           \/ \E j \in Messages : StatusCallback(j) \/ DelayOver(j) \/ RecoverOrphan(j) \/ LockExpires(j)
           \/ UNCHANGED vars
  <2>1. UNCHANGED cur
    BY <1>5, JobWaits DEF workerVars
  <2>2. CASE stalledCount[m] = 0 /\ jobState'[m] = jobState[m] /\ lock'[m] = lock[m]
    BY <1>2, <2>1, <2>2 DEF One
  <2>3. CASE stalledCount[m] = 0 /\ jobState[m] \in {"none", "delayed"}
    BY <1>2, <2>1, <2>3 DEF One
  <2>4. CASE stalledCount[m] = 0 /\ jobState[m] = "active" /\ jobState'[m] = "failed"
    BY <1>2, <2>1, <2>4 DEF One
  <2> QED BY <1>1, <1>5, <2>2, <2>3, <2>4, JobWaits
<1> QED BY <1>3, <1>4, <1>5 DEF Next

(* The labels a run of a closed message may be at: they only lead on. *)
ClosedLabels == {"check", "update", "complete"}

LEMMA OverStays ==
  ASSUME TypeOK, LocksAreHeld, [Next]_vars, NEW m \in Messages, stalledCount'[m] = 0,
         Over(m, ClosedLabels)
  PROVE  Over(m, ClosedLabels)'
<1>1. ASSUME NEW w \in Workers, TakeMessage(w)
      PROVE  Over(m, ClosedLabels)'
  <2>1. PICK j \in Messages : Take(w, j) /\ cur' = [cur EXCEPT ![w] = j]
    BY <1>1, MessagesOf DEF TakeMessage
  <2>2. j # m /\ jobState'[m] = jobState[m]
    BY <2>1, MessagesOf DEF Over, Take, TypeOK, QueueType
  <2>3. \A v \in Workers : cur'[v] = m => cur[v] = m /\ v # w
    BY <2>1, <2>2 DEF TypeOK, WorkerType
  <2> QED BY <1>1, <2>2, <2>3, OwnRunOnly DEF Over
<1>2. ASSUME NEW w \in Workers, WorkerStep(w) \/ Crash(w)
      PROVE  Over(m, ClosedLabels)'
  <2>1. \A v \in Workers : cur'[v] = m => cur[v] = m
    BY <1>2, OwnJob, OwnRunOnly, CampaignAssumption
  <2>2. CASE m # cur[w]
    <3>1. jobState'[m] = jobState[m]
      BY <1>2, <2>2, OwnJobOnly
    <3> QED BY <1>2, <2>1, <2>2, <3>1, OwnRunOnly DEF Over
  <2>3. CASE m = cur[w]
    <3>1. pc[w] \in {"check", "update", "complete"}
      BY <2>3 DEF Over, ClosedLabels
    <3>2. jobState'[m] \in {"active", "completed", "failed"}
      BY <1>2, <2>3, <3>1, OwnJob DEF Over
    <3>3. CountAtEnd(w) \/ FinishCheck(w) \/ JobCompleted(w) \/ Crash(w)
      BY <1>2, <3>1 DEF WorkerStep, ReadFails, Debit, Consume, Throttled, SendTemplate, SaveSent, MarkDead,
         Refund, JobThrew
    <3>4. cur'[w] = m => pc'[w] \in ClosedLabels
      <4>1. CASE CountAtEnd(w) \/ FinishCheck(w)
        BY <4>1 DEF CountAtEnd, FinishCheck, Goto, ClosedLabels, TypeOK, WorkerType
      <4>2. CASE JobCompleted(w) \/ Crash(w)
        BY <4>2, CampaignAssumption DEF JobCompleted, Crash, Release, TypeOK, WorkerType
      <4> QED BY <3>3, <4>1, <4>2
    <3> QED BY <1>2, <2>1, <3>2, <3>4, OwnRunOnly DEF Over
  <2> QED BY <2>2, <2>3
<1>3. CASE \/ \E c \in Campaigns :
                CheckName(c) \/ RejectTemplate(c) \/ CreateCampaign(c) \/ CreateStep(c) \/ RequestDies(c)
           \/ \E c \in Campaigns : HookStep(c)
           \/ \E j \in Messages : StatusCallback(j) \/ DelayOver(j) \/ RecoverOrphan(j) \/ LockExpires(j)
           \/ UNCHANGED vars
  BY <1>3, JobWaits DEF Over, workerVars
<1> QED BY <1>1, <1>2, <1>3 DEF Next

(* A job that was not put back is over when its only run is at its end. *)
LEMMA OverStarts ==
  ASSUME TypeOK, OneRun, LocksAreHeld, NEW w \in Workers, WorkerStep(w),
         UNCHANGED <<cur, queueVars>>, stalledCount[cur[w]] = 0, pc'[w] \in ClosedLabels
  PROVE  Over(cur[w], ClosedLabels)'
<1> DEFINE m == cur[w]
<1>1. m \in Messages
  BY OwnJob
<1>2. jobState[m] \in {"active", "failed"} /\ \A v \in Workers : cur[v] = m => v = w
  BY <1>1 DEF OneRun
<1> QED BY <1>2 DEF Over, queueVars

LEMMA StallsGrow ==
  ASSUME TypeOK, LocksAreHeld, [Next]_vars, NEW m \in Messages, stalledCount'[m] = 0
  PROVE  stalledCount[m] = 0
<1>1. ASSUME NEW w \in Workers, TakeMessage(w)
      PROVE  UNCHANGED stalledCount
  BY <1>1, MessagesOf DEF TakeMessage, Take
<1>2. ASSUME NEW w \in Workers, WorkerStep(w) \/ Crash(w)
      PROVE  UNCHANGED stalledCount
  BY <1>2, OwnJob
<1>3. CASE \/ \E c \in Campaigns :
                CheckName(c) \/ RejectTemplate(c) \/ CreateCampaign(c) \/ CreateStep(c) \/ RequestDies(c)
           \/ \E c \in Campaigns : HookStep(c)
           \/ \E j \in Messages : StatusCallback(j) \/ DelayOver(j) \/ RecoverOrphan(j) \/ LockExpires(j)
           \/ UNCHANGED vars
  BY <1>3, JobWaits
<1> QED BY <1>1, <1>2, <1>3 DEF Next

LEMMA ClosedStep ==
  ASSUME TypeOK, LocksAreHeld, OneRun, ClosedIsOver, [Next]_vars
  PROVE  ClosedIsOver'
<1>1. SUFFICES ASSUME NEW m \in Messages, Closed(m)', stalledCount'[m] = 0
               PROVE  Over(m, ClosedLabels)'
  BY DEF ClosedIsOver, ClosedLabels
<1>2. stalledCount[m] = 0
  BY <1>1, StallsGrow
<1>3. CASE Closed(m)
  <2>1. Over(m, ClosedLabels)
    BY <1>2, <1>3 DEF ClosedIsOver, ClosedLabels
  <2> QED BY <1>1, <2>1, OverStays
<1>4. CASE UNCHANGED <<refunds, hasWamid, unsure>>
  BY <1>1, <1>3, <1>4 DEF Closed
<1>5. ASSUME NEW w \in Workers, Refund(w) \/ SaveSent(w)
      PROVE  Over(m, ClosedLabels)'
  <2>1. CASE m # cur[w]
    <3>1. refunds'[m] = refunds[m] /\ hasWamid'[m] = hasWamid[m]
      BY <1>5, <2>1, OwnJobOnly DEF WorkerStep
    <3>2. m \in unsure' <=> m \in unsure
      BY <1>5, <2>1 DEF Refund, SaveSent, histVars
    <3> QED BY <1>1, <1>3, <3>1, <3>2 DEF Closed
  <2>2. CASE m = cur[w] /\ pc'[w] = "check"
    <3>1. UNCHANGED <<cur, queueVars>> /\ WorkerStep(w)
      BY <1>5 DEF Refund, SaveSent, WorkerStep
    <3> QED BY <1>2, <2>2, <3>1, OverStarts DEF ClosedLabels
  <2>3. CASE m = cur[w] /\ pc'[w] # "check"
    <3>1. SaveSent(w) /\ UNCHANGED refunds
      BY <1>5, <2>3 DEF Refund, SaveSent, Goto, worldVars, TypeOK, WorkerType
    <3>2. m \in unsure' \/ UNCHANGED <<hasWamid, unsure>>
      BY <2>3, <3>1 DEF SaveSent, Goto, TypeOK, WorkerType
    <3> QED BY <1>1, <1>3, <3>1, <3>2 DEF Closed
  <2> QED BY <2>1, <2>2, <2>3
<1>6. ASSUME NEW c \in Campaigns,
             CheckName(c) \/ RejectTemplate(c) \/ CreateCampaign(c) \/ CreateStep(c) \/ RequestDies(c)
      PROVE  UNCHANGED <<refunds, hasWamid, unsure>>
  BY <1>6, RequestsKeepJobs DEF worldVars, histVars
<1>7. ASSUME NEW w \in Workers, TakeMessage(w) \/ WorkerStep(w) \/ Crash(w), ~Refund(w), ~SaveSent(w)
      PROVE  UNCHANGED <<refunds, hasWamid, unsure>>
  BY <1>7 DEF TakeMessage, WorkerStep, Crash, ReadFails, Debit, Consume, Throttled, SendTemplate, CountAtEnd,
     FinishCheck, MarkDead, JobCompleted, JobThrew, worldVars, mongoVars, histVars
<1>8. ASSUME NEW j \in Messages, StatusCallback(j) \/ DelayOver(j) \/ RecoverOrphan(j) \/ LockExpires(j)
      PROVE  UNCHANGED <<refunds, hasWamid, unsure>>
  BY <1>8 DEF StatusCallback, DelayOver, RecoverOrphan, LockExpires, worldVars, mongoVars, histVars
<1>9. CASE (\E c \in Campaigns : HookStep(c)) \/ UNCHANGED vars
  BY <1>4, <1>9, HooksKeepJobs DEF vars, worldVars, mongoVars, histVars
<1> QED BY <1>4, <1>5, <1>6, <1>7, <1>8, <1>9 DEF Next

-----------------------------------------------------------------------------
(* Every end of a message is its first, or is paid for by a loss.          *)

Wait(m) == IF Awaited(m) THEN 1 ELSE 0

(* Whether w is one of the runs of m that are counted. *)
One01(w, m) == IF w \in Busy(m) THEN 1 ELSE 0

(* The runs of m, before and after a step of one worker: the others stay. *)
LEMMA BusyCount ==
  ASSUME TypeOK, LocksAreHeld, NEW w \in Workers, TakeMessage(w) \/ WorkerStep(w) \/ Crash(w),
         NEW m \in Messages
  PROVE  LET n == Cardinality(Busy(m) \ {w})
         IN /\ n \in Nat
            /\ Cardinality(Busy(m)) = n + One01(w, m)
            /\ Cardinality(Busy(m)') = n + One01(w, m)'
<1> DEFINE S == Busy(m) \ {w}
<1>1. IsFiniteSet(S) /\ Cardinality(S) \in Nat
  <2>1. S \in SUBSET Workers
    BY DEF Busy
  <2> QED BY <2>1, FS_Subset, FS_CardinalityType, CampaignAssumption
<1>2. Busy(m) = IF w \in Busy(m) THEN S \cup {w} ELSE S
  OBVIOUS
<1>3. \A v \in Workers \ {w} : lock'[m] = v <=> lock[m] = v
  <2>1. CASE TakeMessage(w)
    <3>1. lock'[m] = lock[m] \/ (jobState[m] = "waiting" /\ lock'[m] = w)
      BY <2>1, MessagesOf DEF TakeMessage, Take, TypeOK, QueueType
    <3> QED BY <3>1 DEF LocksAreHeld
  <2>2. CASE (WorkerStep(w) \/ Crash(w)) /\ m # cur[w]
    BY <2>2, OwnJobOnly
  <2>3. CASE WorkerStep(w) /\ ~Crash(w) /\ m = cur[w]
    BY <2>3, OwnJob, QueueAssumption
  <2>4. CASE Crash(w)
    BY <2>4, MessagesOf, QueueAssumption DEF Crash, DropLocks
  <2> QED BY <2>1, <2>2, <2>3, <2>4
<1>4. \A v \in Workers \ {w} : v \in Busy(m)' <=> v \in Busy(m)
  BY <1>3, OwnRunOnly DEF Busy
<1>5. Busy(m)' = IF w \in Busy(m)' THEN S \cup {w} ELSE S
  <2>1. Busy(m) \subseteq Workers /\ Busy(m)' \subseteq Workers
    BY DEF Busy
  <2> QED BY <1>4, <2>1
<1>6. Cardinality(S \cup {w}) = Cardinality(S) + 1
  <2>1. w \notin S
    OBVIOUS
  <2> HIDE DEF S
  <2> QED BY <1>1, <2>1, FS_AddElement
<1> HIDE DEF S
<1>7. /\ Cardinality(S) \in Nat
      /\ Cardinality(Busy(m)) = Cardinality(S) + (IF w \in Busy(m) THEN 1 ELSE 0)
      /\ Cardinality(Busy(m)') = Cardinality(S) + (IF w \in Busy(m)' THEN 1 ELSE 0)
  <2>1. Cardinality(Busy(m)) = Cardinality(S) + (IF w \in Busy(m) THEN 1 ELSE 0)
    BY <1>1, <1>2, <1>6
  <2>2. CASE w \in Busy(m)'
    <3>1. Busy(m)' = S \cup {w}
      BY <1>5, <2>2
    <3> QED BY <1>1, <1>6, <2>1, <2>2, <3>1
  <2>3. CASE w \notin Busy(m)'
    <3>1. Busy(m)' = S
      BY <1>5, <2>3
    <3> QED BY <1>1, <2>1, <2>3, <3>1
  <2> QED BY <2>2, <2>3
<1> QED BY <1>7 DEF S, One01

(* A step of one worker and the ends of a message it may come to. *)
LEMMA WorkerKeepsCount ==
  ASSUME TypeOK, LocksAreHeld, NEW w \in Workers, TakeMessage(w) \/ WorkerStep(w) \/ Crash(w),
         NEW m \in Messages
  PROVE  2 * (dispatched'[m] + One01(w, m)' + Wait(m)') + refunds'[m] + 2 * losses[m]
           <= 2 * (dispatched[m] + One01(w, m) + Wait(m)) + refunds[m] + 2 * losses'[m]
<1>1. /\ {dispatched[m], refunds[m], losses[m]} \subseteq Nat
      /\ {One01(w, m), One01(w, m)', Wait(m), Wait(m)'} \subseteq {0, 1}
  BY DEF TypeOK, WorldType, HistType, One01, Wait
<1>2. CASE /\ UNCHANGED <<dispatched, refunds, losses>>
           /\ One01(w, m)' + Wait(m)' <= One01(w, m) + Wait(m)
  BY <1>1, <1>2
<1>3. CASE TakeMessage(w)
  <2>1. UNCHANGED <<dispatched, refunds, losses>>
    BY <1>3 DEF TakeMessage, worldVars, histVars
  <2>2. PICK j \in Messages : Take(w, j) /\ cur' = [cur EXCEPT ![w] = j]
    BY <1>3, MessagesOf DEF TakeMessage
  <2>3. CASE j = m
    <3>1. Awaited(m)
      BY <2>2, <2>3 DEF Awaited, Take
    <3>2. ~Awaited(m)'
      BY <2>2, <2>3, MessagesOf, QueueAssumption DEF Awaited, Take, TypeOK, QueueType
    <3>3. w \notin Busy(m)
      BY <1>3, RunHasMessage DEF TakeMessage, Busy
    <3> QED BY <1>1, <1>2, <2>1, <3>1, <3>2, <3>3 DEF One01, Wait
  <2>4. CASE j # m
    <3>1. Awaited(m)' <=> Awaited(m)
      BY <2>2, <2>4, MessagesOf DEF Awaited, Take, TypeOK, QueueType
    <3>2. w \notin Busy(m)'
      BY <2>2, <2>4 DEF Busy, TypeOK, WorkerType
    <3> QED BY <1>1, <1>2, <2>1, <3>1, <3>2 DEF One01, Wait
  <2> QED BY <2>3, <2>4
<1>4. CASE (WorkerStep(w) \/ Crash(w)) /\ m # cur[w]
  <2>1. dispatched'[m] = dispatched[m] /\ refunds'[m] = refunds[m] /\ losses'[m] = losses[m]
    BY <1>4, OwnJobOnly
  <2>2. Awaited(m)' <=> Awaited(m)
    BY <1>4, OwnJobOnly DEF Awaited
  <2>3. w \notin Busy(m)'
    BY <1>4, OwnJob, CampaignAssumption DEF Busy
  <2> QED BY <1>1, <2>1, <2>2, <2>3 DEF One01, Wait
<1>5. CASE Crash(w) /\ m = cur[w]
  <2>1. UNCHANGED <<dispatched, refunds>> /\ losses'[m] = losses[m] + 1
    BY <1>1, <1>5 DEF Crash, Count, worldVars, TypeOK, HistType
  <2>2. w \notin Busy(m)'
    BY <1>5, CampaignAssumption DEF Crash, Release, Busy, TypeOK, WorkerType
  <2> QED BY <1>1, <2>1, <2>2 DEF One01, Wait
<1>6. CASE (JobCompleted(w) \/ JobThrew(w) \/ Throttled(w)) /\ ~Crash(w) /\ m = cur[w] /\ cur'[w] # m
  <2>1. UNCHANGED <<dispatched, refunds, losses>> /\ WorkerStep(w)
    BY <1>6 DEF JobCompleted, JobThrew, Throttled, worldVars, histVars, WorkerStep
  <2>2. w \notin Busy(m)'
    BY <1>6 DEF Busy
  <2>3. CASE UNCHANGED <<jobState, lock>>
    BY <1>1, <1>2, <2>1, <2>2, <2>3 DEF Awaited, One01, Wait
  <2>4. CASE jobState'[m] = "completed"
    BY <1>1, <1>2, <2>1, <2>2, <2>4 DEF Awaited, One01, Wait
  <2>5. CASE lock[m] = w /\ pc[w] \in {"limit", "threw"}
    <3>1. w \in Busy(m)
      BY <1>6, <2>5 DEF Busy
    <3> QED BY <1>1, <1>2, <2>1, <2>2, <3>1 DEF One01, Wait
  <2> QED BY <1>6, <2>1, <2>3, <2>4, <2>5, OwnJob
<1>7. CASE WorkerStep(w) /\ m = cur[w] /\ UNCHANGED <<cur, queueVars>>
  <2>1. Wait(m)' = Wait(m)
    BY <1>7 DEF Wait, Awaited, queueVars
  <2>2. CASE ReadFails(w) \/ Debit(w) \/ Consume(w) \/ Throttled(w) \/ MarkDead(w)
    <3>1. w \in Busy(m)
      BY <1>7, <2>2 DEF ReadFails, Debit, Consume, Throttled, MarkDead, Busy
    <3>2. UNCHANGED <<dispatched, refunds, losses>>
      BY <2>2 DEF ReadFails, Debit, Consume, Throttled, MarkDead, worldVars, histVars
    <3> QED BY <1>1, <1>2, <2>1, <3>1, <3>2 DEF One01
  <2>3. CASE SendTemplate(w)
    <3>1. w \in Busy(m) /\ UNCHANGED refunds
      BY <1>7, <2>3 DEF SendTemplate, Busy
    <3>2. \/ /\ dispatched'[m] = dispatched[m] + 1 /\ losses'[m] = losses[m]
             /\ pc'[w] \in {"save", "check"}
          \/ dispatched'[m] = dispatched[m] + 1 /\ losses'[m] = losses[m] + 1
          \/ dispatched'[m] = dispatched[m] /\ losses'[m] = losses[m]
      BY <1>7, <2>3 DEF SendTemplate, Count, Goto, TypeOK, WorkerType, WorldType, HistType
    <3>3. pc'[w] \in {"save", "check"} => w \notin Busy(m)'
      BY DEF Busy
    <3> QED BY <1>1, <2>1, <3>1, <3>2, <3>3 DEF One01
  <2>4. CASE SaveSent(w)
    <3>1. UNCHANGED <<dispatched, refunds>>
      BY <2>4 DEF SaveSent, worldVars
    <3>2. \/ losses'[m] = losses[m] /\ pc'[w] = "check"
          \/ losses'[m] = losses[m] + 1
      BY <1>7, <2>4 DEF SaveSent, Count, Goto, TypeOK, WorkerType, HistType
    <3>3. pc'[w] = "check" => w \notin Busy(m)'
      BY DEF Busy
    <3> QED BY <1>1, <2>1, <3>1, <3>2, <3>3 DEF One01
  <2>5. CASE CountAtEnd(w) \/ FinishCheck(w)
    <3>1. w \notin Busy(m)'
      BY <2>5 DEF CountAtEnd, FinishCheck, Goto, Busy, TypeOK, WorkerType
    <3>2. UNCHANGED <<dispatched, refunds, losses>>
      BY <2>5 DEF CountAtEnd, FinishCheck, worldVars
    <3> QED BY <1>1, <1>2, <2>1, <3>1, <3>2 DEF One01
  <2>6. CASE Refund(w)
    <3>1. w \in Busy(m) /\ w \notin Busy(m)'
      BY <1>7, <2>6 DEF Refund, Goto, Busy, TypeOK, WorkerType
    <3>2. UNCHANGED <<dispatched, losses>>
      BY <2>6 DEF Refund, histVars
    <3>3. refunds'[m] \in Nat /\ refunds'[m] <= refunds[m] + 2
      BY <1>1, <1>7, <2>6 DEF Refund, Count, TypeOK, WorldType
    <3> QED BY <1>1, <2>1, <3>1, <3>2, <3>3 DEF One01
  <2>7. CASE JobCompleted(w) \/ JobThrew(w)
    BY <1>7, <2>7, RunHasMessage, CampaignAssumption DEF JobCompleted, JobThrew, Release, TypeOK, WorkerType
  <2> QED BY <1>7, <2>2, <2>3, <2>4, <2>5, <2>6, <2>7 DEF WorkerStep
<1>8. WorkerStep(w) /\ ~(UNCHANGED <<cur, queueVars>>) =>
        (JobCompleted(w) \/ JobThrew(w) \/ Throttled(w)) /\ cur'[w] = NoMessage
  BY DEF WorkerStep, ReadFails, Debit, Consume, Throttled, SendTemplate, SaveSent, CountAtEnd, FinishCheck, MarkDead, Refund,
     JobCompleted, JobThrew, Release, TypeOK, WorkerType
<1> QED BY <1>3, <1>4, <1>5, <1>6, <1>7, <1>8, CampaignAssumption

(* A job that is added, waits or is put back. *)
LEMMA WaitKeepsCount ==
  ASSUME TypeOK, NEW m \in Messages,
         \/ \E c \in Campaigns :
              CheckName(c) \/ RejectTemplate(c) \/ CreateCampaign(c) \/ CreateStep(c) \/ RequestDies(c)
         \/ \E c \in Campaigns : HookStep(c)
         \/ \E j \in Messages : StatusCallback(j) \/ DelayOver(j) \/ RecoverOrphan(j) \/ LockExpires(j)
         \/ UNCHANGED vars
  PROVE  /\ UNCHANGED <<dispatched, refunds>>
         /\ Cardinality(Busy(m)) \in Nat /\ Cardinality(Busy(m)') \in Nat
         /\ Cardinality(Busy(m)') <= Cardinality(Busy(m))
         /\ Wait(m)' + losses[m] <= Wait(m) + losses'[m]
<1>1. UNCHANGED <<workerVars, worldVars>>
  BY JobWaits
<1>2. Busy(m)' \subseteq Busy(m)
  <2>1. lock'[m] = lock[m] \/ lock'[m] = NoWorker
    BY JobWaits
  <2> QED BY <1>1, <2>1, QueueAssumption DEF Busy, workerVars
<1>3. IsFiniteSet(Busy(m))
  <2>1. Busy(m) \in SUBSET Workers
    BY DEF Busy
  <2> QED BY <2>1, FS_Subset, CampaignAssumption
<1>4. /\ Cardinality(Busy(m)) \in Nat /\ Cardinality(Busy(m)') \in Nat
      /\ Cardinality(Busy(m)') <= Cardinality(Busy(m))
  BY <1>2, <1>3, FS_Subset, FS_CardinalityType
<1>5. losses[m] \in Nat /\ {Wait(m), Wait(m)'} \subseteq {0, 1}
  BY DEF TypeOK, HistType, Wait
<1>6. Wait(m)' + losses[m] <= Wait(m) + losses'[m]
  <2>1. CASE jobState'[m] = jobState[m] /\ lock'[m] = lock[m] /\ losses'[m] = losses[m]
    BY <1>5, <2>1 DEF Wait, Awaited
  <2>2. CASE Awaited(m) /\ losses'[m] = losses[m]
    BY <1>5, <2>2 DEF Wait
  <2>3. CASE losses'[m] = losses[m] + 1
    BY <1>5, <2>3
  <2> QED BY <2>1, <2>2, <2>3, JobWaits DEF Awaited
<1> QED BY <1>1, <1>4, <1>6 DEF worldVars

LEMMA EndsStep ==
  ASSUME TypeOK, LocksAreHeld, EndsAreCounted, [Next]_vars
  PROVE  EndsAreCounted' /\ SentOnce'
<1>1. ASSUME NEW m \in Messages
      PROVE  /\ 2 * (dispatched'[m] + Cardinality(Busy(m)') + Wait(m)') + refunds'[m] <= 2 * (1 + losses'[m])
             /\ dispatched'[m] <= 1 + losses'[m]
  <2>1. 2 * (dispatched[m] + Cardinality(Busy(m)) + Wait(m)) + refunds[m] <= 2 * (1 + losses[m])
    BY DEF EndsAreCounted, Wait
  <2>2. /\ {dispatched[m], refunds[m], losses[m]} \subseteq Nat
        /\ {dispatched'[m], refunds'[m], losses'[m]} \subseteq Nat
        /\ {Wait(m), Wait(m)'} \subseteq {0, 1}
    BY TypeStep DEF TypeOK, WorldType, HistType, Wait
  <2>3. ASSUME NEW w \in Workers, TakeMessage(w) \/ WorkerStep(w) \/ Crash(w)
        PROVE  /\ 2 * (dispatched'[m] + Cardinality(Busy(m)') + Wait(m)') + refunds'[m] <= 2 * (1 + losses'[m])
               /\ Cardinality(Busy(m)') \in Nat
    <3> DEFINE n == Cardinality(Busy(m) \ {w})
    <3>1. /\ n \in Nat /\ Cardinality(Busy(m)) = n + One01(w, m)
          /\ Cardinality(Busy(m)') = n + One01(w, m)'
      BY <2>3, BusyCount
    <3> HIDE DEF n
    <3>2. {One01(w, m), One01(w, m)'} \subseteq {0, 1}
      BY DEF One01
    <3>3. 2 * (dispatched'[m] + One01(w, m)' + Wait(m)') + refunds'[m] + 2 * losses[m]
            <= 2 * (dispatched[m] + One01(w, m) + Wait(m)) + refunds[m] + 2 * losses'[m]
      BY <2>3, WorkerKeepsCount
    <3> QED BY <2>1, <2>2, <3>1, <3>2, <3>3
  <2>4. CASE \/ \E c \in Campaigns :
                  CheckName(c) \/ RejectTemplate(c) \/ CreateCampaign(c) \/ CreateStep(c) \/ RequestDies(c)
             \/ \E c \in Campaigns : HookStep(c)
             \/ \E j \in Messages : StatusCallback(j) \/ DelayOver(j) \/ RecoverOrphan(j) \/ LockExpires(j)
             \/ UNCHANGED vars
    BY <2>1, <2>2, <2>4, WaitKeepsCount
  <2>5. /\ 2 * (dispatched'[m] + Cardinality(Busy(m)') + Wait(m)') + refunds'[m] <= 2 * (1 + losses'[m])
        /\ Cardinality(Busy(m)') \in Nat
    BY <2>3, <2>4, WaitKeepsCount DEF Next
  <2> QED BY <2>2, <2>5
<1> QED BY <1>1 DEF EndsAreCounted, SentOnce, Wait

-----------------------------------------------------------------------------
(* Theorems.                                                               *)

LEMMA InitInv == Init => CampaignInv
<1> SUFFICES ASSUME Init PROVE CampaignInv
  OBVIOUS
<1> USE DEF Init
<1>1. TypeOK
  <2>1. QueueType
    BY DEF QueueInit, QueueType
  <2>2. MongoType /\ HookType /\ WorldType /\ HistType
    BY DEF MongoType, HookType, WorldType, HistType
  <2>3. RequestType
    BY MessagesOf DEF RequestType
  <2>4. WorkerType
    BY CampaignAssumption DEF WorkerType
  <2> QED BY <2>1, <2>2, <2>3, <2>4 DEF TypeOK
<1>2. SendsArePaid
  <2>1. \A m \in Messages : Sending(m) = {}
    BY DEF Sending
  <2>2. ASSUME NEW m \in Messages
        PROVE  dispatched[m] + Cardinality(Sending(m)) <= debits[m]
    <3>1. Cardinality(Sending(m)) = 0
      BY <2>1, FS_EmptySet
    <3> QED BY <3>1
  <2> QED BY <1>1, <2>2 DEF SendsArePaid
<1>3. CompletedMeansDone /\ SentOnce
  BY DEF CompletedMeansDone, SentOnce
<1>8. CountsHold
  BY MessagesOf DEF CountsHold, QueueInit
<1>4. InsertedFirst
  <2>1. \A m \in Messages : jobState[m] = "none"
    BY MessagesOf DEF QueueInit
  <2> QED BY <2>1, MessagesOf, CampaignAssumption DEF InsertedFirst
<1>5. LocksAreHeld /\ OneRun
  BY MessagesOf, QueueAssumption, CampaignAssumption DEF LocksAreHeld, OneRun, QueueInit
<1>6. EndsAreCounted
  <2>1. \A m \in Messages : Busy(m) = {}
    BY DEF Busy
  <2>2. \A m \in Messages : Cardinality(Busy(m)) = 0
    BY <2>1, FS_EmptySet
  <2> QED BY <2>2 DEF EndsAreCounted
<1>7. ClosedIsOver
  BY DEF ClosedIsOver, Closed
<1> QED BY <1>2, <1>3, <1>4, <1>5, <1>6, <1>7, <1>8 DEF CampaignInv

LEMMA StepInv == CampaignInv /\ [Next]_vars => CampaignInv'
<1> SUFFICES ASSUME CampaignInv, [Next]_vars PROVE CampaignInv'
  OBVIOUS
<1>1. TypeOK
  BY DEF CampaignInv, SendsArePaid
<1> USE DEF CampaignInv
<1>2. SendsArePaid' /\ InsertedFirst' /\ CountsHold' /\ CompletedMeansDone'
  BY <1>1, PaidStep, InsertedFirstStep, CountsStep, CompletedStep
<1>3. LocksAreHeld' /\ OneRun' /\ ClosedIsOver'
  BY <1>1, LocksStep, OneRunStep, ClosedStep
<1>4. EndsAreCounted' /\ SentOnce'
  BY <1>1, EndsStep
<1> QED BY <1>2, <1>3, <1>4

(* CampaignInv, in which the properties of a campaign are strong enough to *)
(* be preserved by every step of createCampaign, process, checkCompletion, *)
(* the webhook's callbacks and the queue.                                  *)
THEOREM CampaignInvariant == Spec => []CampaignInv
BY InitInv, StepInv, PTL DEF Spec

(* BulkProcessor.process debits before it sends: however many workers hold *)
(* the same job, however often it is retried, throttled or put back, there *)
(* are at least as many debits of a message as sends of it, those about to *)
(* happen included.                                                         *)
THEOREM EverySendPaid == Spec => []SendsArePaid
<1>1. CampaignInv => SendsArePaid
  BY DEF CampaignInv
<1> QED BY <1>1, CampaignInvariant, PTL

(* checkCompletion counts and only later updates, in a worker or for a     *)
(* callback: the messages it has counted are still done when it updates,   *)
(* since no status goes back to queued.  What a completed campaign may have *)
(* left is what was inserted after a count, in a later insertMany: never a  *)
(* message of the first one, which comes before every job.                  *)
THEOREM CompletedIsDone == Spec => []CompletedMeansDone
<1>1. CampaignInv => CompletedMeansDone
  BY DEF CampaignInv
<1> QED BY <1>1, CampaignInvariant, PTL

(* "Message-level idempotency": of the runs of a job, no more than one     *)
(* sends, unless an answer, an update or the run was lost.                 *)
THEOREM SendsOnce == Spec => []SentOnce
<1>1. CampaignInv => SentOnce
  BY DEF CampaignInv
<1> QED BY <1>1, CampaignInvariant, PTL

(* A message that was refunded, or whose wamid process has stored and been *)
(* told so, is not debited and not sent by any step, as long as its job    *)
(* was not put back.                                                        *)
THEOREM ClosedForGood == Spec => ClosedStaysClosed
<1> DEFINE A == \A m \in Messages : Closed(m) /\ stalledCount[m] = 0 =>
                  debits'[m] = debits[m] /\ dispatched'[m] = dispatched[m]
<1>1. CampaignInv /\ [Next]_vars => [A]_vars
  <2> SUFFICES ASSUME CampaignInv, [Next]_vars,
                      NEW m \in Messages, Closed(m), stalledCount[m] = 0
               PROVE  debits'[m] = debits[m] /\ dispatched'[m] = dispatched[m]
    OBVIOUS
  <2>1. TypeOK /\ LocksAreHeld /\ Over(m, ClosedLabels)
    BY DEF CampaignInv, SendsArePaid, ClosedIsOver, ClosedLabels
  <2>2. ASSUME NEW w \in Workers, WorkerStep(w)
        PROVE  debits'[m] = debits[m] /\ dispatched'[m] = dispatched[m]
    <3>1. CASE m = cur[w]
      <4>1. pc[w] \notin {"debit", "send"}
        BY <2>1, <3>1 DEF Over, ClosedLabels
      <4> QED BY <2>2, <4>1 DEF WorkerStep, ReadFails, Debit, Consume, Throttled, SendTemplate, SaveSent,
           CountAtEnd, FinishCheck, MarkDead, Refund, JobCompleted, JobThrew, worldVars
    <3>2. CASE m # cur[w]
      BY <2>1, <2>2, <3>2, OwnJobOnly
    <3> QED BY <3>1, <3>2
  <2>3. (\A w \in Workers : ~WorkerStep(w)) => UNCHANGED <<debits, dispatched>>
    BY <2>1, RequestsKeepJobs, HooksKeepJobs DEF Next, TakeMessage, Crash, StatusCallback, DelayOver, RecoverOrphan,
       LockExpires, worldVars, vars
  <2> QED BY <2>2, <2>3
<1> QED BY <1>1, CampaignInvariant, PTL DEF Spec, ClosedStaysClosed

(* Only a run that is not over sends, refunds or is charged: the message is *)
(* due in the ledger.                                                       *)
LEMMA BusyIsDue ==
  ASSUME CampaignInv, NEW w \in Workers, w \in Busy(cur[w])
  PROVE  Ledger!Due(cur[w])
<1> DEFINE m == cur[w]
<1>1. m \in Messages /\ TypeOK
  BY RunHasMessage DEF CampaignInv, SendsArePaid, Busy, TypeOK, WorkerType
<1>2. 2 * (dispatched[m] + Cardinality(Busy(m)) + Wait(m)) + refunds[m] <= 2 * (1 + losses[m])
  BY <1>1 DEF CampaignInv, EndsAreCounted, Wait
<1>3. Cardinality(Busy(m)) \in Nat /\ Cardinality(Busy(m)) >= 1
  <2>1. Busy(m) \in SUBSET Workers /\ {w} \subseteq Busy(m)
    BY DEF Busy
  <2>2. IsFiniteSet(Busy(m))
    BY <2>1, FS_Subset, CampaignAssumption
  <2>3. Cardinality({w}) = 1
    BY FS_Singleton
  <2> QED BY <2>1, <2>2, <2>3, FS_Subset, FS_CardinalityType
<1>4. {dispatched[m], refunds[m], losses[m]} \subseteq Nat /\ Wait(m) \in {0, 1}
  BY <1>1 DEF TypeOK, WorldType, HistType, Wait
<1> HIDE DEF m
<1>5. 2 * dispatched[m] + refunds[m] <= 2 * losses[m]
  BY <1>2, <1>3, <1>4
<1> QED BY <1>5 DEF m, Ledger!Due

(* A copy that is about to go out has a debit that no other has. *)
LEMMA SendIsPaid ==
  ASSUME CampaignInv, NEW w \in Workers, pc[w] = "send", cur[w] \in Messages
  PROVE  dispatched[cur[w]] < debits[cur[w]]
<1> DEFINE m == cur[w]
<1>1. TypeOK /\ dispatched[m] + Cardinality(Sending(m)) <= debits[m]
  BY DEF CampaignInv, SendsArePaid
<1>2. Cardinality(Sending(m)) \in Nat /\ Cardinality(Sending(m)) >= 1
  <2>1. Sending(m) \in SUBSET Workers /\ {w} \subseteq Sending(m)
    BY DEF Sending
  <2>2. IsFiniteSet(Sending(m))
    BY <2>1, FS_Subset, CampaignAssumption
  <2>3. Cardinality({w}) = 1
    BY FS_Singleton
  <2> QED BY <2>1, <2>2, <2>3, FS_Subset, FS_CardinalityType
<1>3. dispatched[m] \in Nat /\ debits[m] \in Nat
  BY <1>1 DEF TypeOK, WorldType
<1> HIDE DEF m
<1>4. dispatched[m] < debits[m]
  BY <1>1, <1>2, <1>3
<1> QED BY <1>4 DEF m

LEMMA RunKeepsLedger ==
  ASSUME CampaignInv, NEW w \in Workers, WorkerStep(w)
  PROVE  [Ledger!Next]_(Ledger!vars)
<1> DEFINE m == cur[w]
<1>1. TypeOK /\ m \in Messages /\ pc[w] # "idle"
  BY OwnJob DEF CampaignInv, SendsArePaid
<1>2. CASE Debit(w)
  <2>1. Ledger!Due(m)
    BY <1>2, BusyIsDue DEF Debit, Busy
  <2>2. UNCHANGED <<refunds, dispatched, losses>>
    BY <1>2 DEF Debit, histVars
  <2>3. UNCHANGED debits \/ \E n \in 1..2 : debits' = Count(debits, m, n)
    <3>1. UNCHANGED debits \/ \E n \in 0..2 : debits' = Count(debits, m, n)
      BY <1>2 DEF Debit
    <3>2. Count(debits, m, 0) = debits
      BY <1>1 DEF Count, TypeOK, WorldType
    <3>3. 0..2 = {0} \cup 1..2
      OBVIOUS
    <3> QED BY <3>1, <3>2, <3>3
  <2>4. UNCHANGED debits \/ Ledger!Charge(m)
    BY <2>1, <2>2, <2>3 DEF Ledger!Charge, Ledger!More, Count
  <2> QED BY <1>1, <2>2, <2>4 DEF Ledger!Next, Ledger!vars
<1>3. CASE SendTemplate(w)
  <2>1. Ledger!Due(m) /\ dispatched[m] < debits[m]
    BY <1>1, <1>3, BusyIsDue, SendIsPaid DEF SendTemplate, Busy
  <2>2. UNCHANGED <<debits, refunds>>
    BY <1>3 DEF SendTemplate
  <2>3. \/ dispatched' = Count(dispatched, m, 1) /\ losses' \in {losses, Count(losses, m, 1)}
        \/ UNCHANGED <<dispatched, losses>>
    BY <1>3 DEF SendTemplate
  <2>4. UNCHANGED <<dispatched, losses>> \/ Ledger!HandOver(m)
    BY <2>1, <2>2, <2>3 DEF Ledger!HandOver, Ledger!More, Count
  <2> QED BY <1>1, <2>2, <2>4 DEF Ledger!Next, Ledger!vars
<1>4. CASE SaveSent(w)
  <2>1. UNCHANGED <<debits, refunds, dispatched>> /\ (UNCHANGED losses \/ losses' = Count(losses, m, 1))
    BY <1>4 DEF SaveSent, worldVars
  <2> QED BY <1>1, <2>1 DEF Ledger!Lose, Ledger!More, Ledger!Next, Ledger!vars, Count
<1>5. CASE Refund(w)
  <2>1. Ledger!Due(m)
    BY <1>5, BusyIsDue DEF Refund, Busy
  <2>2. UNCHANGED <<debits, dispatched, losses>>
    BY <1>5 DEF Refund, histVars
  <2>3. UNCHANGED refunds \/ \E n \in 1..2 : refunds' = Count(refunds, m, n)
    <3>1. \E n \in 0..2 : refunds' = Count(refunds, m, n)
      BY <1>5 DEF Refund
    <3>2. Count(refunds, m, 0) = refunds
      BY <1>1 DEF Count, TypeOK, WorldType
    <3>3. 0..2 = {0} \cup 1..2
      OBVIOUS
    <3> QED BY <3>1, <3>2, <3>3
  <2>4. UNCHANGED refunds \/ Ledger!PayBack(m)
    BY <2>1, <2>2, <2>3 DEF Ledger!PayBack, Ledger!More, Count
  <2> QED BY <1>1, <2>2, <2>4 DEF Ledger!Next, Ledger!vars
<1>6. CASE UNCHANGED <<worldVars, losses>>
  BY <1>6 DEF worldVars, Ledger!vars
<1> QED BY <1>2, <1>3, <1>4, <1>5, <1>6 DEF WorkerStep, ReadFails, Consume, Throttled, CountAtEnd, FinishCheck, MarkDead,
     JobCompleted, JobThrew, histVars

(* createCampaign, BulkProcessor.process, checkCompletion, the callbacks and *)
(* the queue, with every retry, put-back job, crash and lost answer, keep    *)
(* the ledger of MessageLedger: a debit, a copy and a refund come only to a  *)
(* message that is due one, and a copy only to one that was paid for.        *)
THEOREM CampaignKeepsLedger == Spec => ImplementsLedger
<1>1. Init => Ledger!Init
  BY DEF Init, Ledger!Init
<1>2. CampaignInv /\ [Next]_vars => [Ledger!Next]_(Ledger!vars)
  <2> SUFFICES ASSUME CampaignInv, [Next]_vars
               PROVE  [Ledger!Next]_(Ledger!vars)
    OBVIOUS
  <2>1. CASE UNCHANGED <<worldVars, losses>>
    BY <2>1 DEF worldVars, Ledger!vars
  <2>2. ASSUME NEW w \in Workers, Crash(w)
        PROVE  [Ledger!Next]_(Ledger!vars)
    <3>1. cur[w] \in Messages
      BY <2>2, RunHasMessage DEF Crash, CampaignInv, SendsArePaid
    <3>2. Ledger!Lose(cur[w])
      BY <2>2 DEF Crash, Ledger!Lose, Ledger!More, Count, worldVars
    <3> QED BY <3>1, <3>2 DEF Ledger!Next
  <2>3. ASSUME NEW m \in Messages, LockExpires(m)
        PROVE  [Ledger!Next]_(Ledger!vars)
    <3>1. Ledger!Lose(m)
      BY <2>3 DEF LockExpires, Ledger!Lose, Ledger!More, Count, worldVars
    <3> QED BY <3>1 DEF Ledger!Next
  <2>4. ASSUME NEW c \in Campaigns,
               CheckName(c) \/ RejectTemplate(c) \/ CreateCampaign(c) \/ CreateStep(c) \/ RequestDies(c)
        PROVE  UNCHANGED <<worldVars, losses>>
    BY <2>4, RequestsKeepJobs DEF CampaignInv, SendsArePaid, histVars
  <2>5. ASSUME NEW w \in Workers, TakeMessage(w)
        PROVE  UNCHANGED <<worldVars, losses>>
    BY <2>5 DEF TakeMessage, histVars
  <2>6. ASSUME NEW m \in Messages, StatusCallback(m) \/ DelayOver(m) \/ RecoverOrphan(m)
        PROVE  UNCHANGED <<worldVars, losses>>
    BY <2>6 DEF StatusCallback, DelayOver, RecoverOrphan, histVars
  <2>7. CASE UNCHANGED vars
    BY <2>1, <2>7 DEF vars, histVars
  <2>8. ASSUME NEW c \in Campaigns, HookStep(c)
        PROVE  UNCHANGED <<worldVars, losses>>
    BY <2>8, HooksKeepJobs
  <2> QED BY <2>1, <2>2, <2>3, <2>4, <2>5, <2>6, <2>7, <2>8, RunKeepsLedger DEF Next
<1> QED BY <1>1, <1>2, CampaignInvariant, PTL DEF Spec, ImplementsLedger, Ledger!Spec
=============================================================================
