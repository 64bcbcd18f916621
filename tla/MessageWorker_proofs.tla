-------------------------- MODULE MessageWorker_proofs --------------------------
(* Theorems of MessageWorker, for every campaign, every number of polling    *)
(* loops, every batch size and retry limit, and every kind of failure.       *)
EXTENDS MessageWorker, TLAPS

-----------------------------------------------------------------------------
(* Frames.                                                                 *)

Statuses == {"none", "queued", "processing", "sent", "dead", "delivered"}

Labels == {"none", "send", "record", "fail", "log", "caught", "caught log", "done"}

(* A task moves on, and no other one. *)
LEMMA TaskToIs ==
  ASSUME TypeOK, NEW w \in Loops, NEW m \in Messages, NEW label \in Labels, TaskTo(w, m, label)
  PROVE  /\ task' \in [Loops -> [Messages -> Labels]]
         /\ \A v \in Loops, x \in Messages :
              task'[v][x] = IF v = w /\ x = m THEN label ELSE task[v][x]
<1>1. task \in [Loops -> [Messages -> Labels]]
  BY DEF TypeOK, LoopType, Labels
<1>2. task' = [task EXCEPT ![w] = [task[w] EXCEPT ![m] = label]]
  BY DEF TaskTo
<1> DEFINE mine == [task[w] EXCEPT ![m] = label]
<1>3. mine \in [Messages -> Labels] /\ \A x \in Messages : mine[x] = IF x = m THEN label ELSE task[w][x]
  BY <1>1
<1> HIDE DEF mine
<1>4. task' = [task EXCEPT ![w] = mine]
  BY <1>2 DEF mine
<1> QED BY <1>1, <1>3, <1>4

(* What the steps of processMessage leave alone. *)
LEMMA TaskStepFrame ==
  ASSUME TypeOK, NEW w \in Loops, NEW m \in Messages, TaskStep(w, m)
  PROVE  /\ UNCHANGED <<campaignVars, at, batch, copy>>
         /\ task[w][m] \notin {"none", "done"}
         /\ \E label \in Labels \ {"none"} : TaskTo(w, m, label)
         /\ excused' = excused \/ excused' = excused \cup {m}
         /\ faults' = faults \/ faults' = faults + 1
         /\ status' = status \/ \E new \in {"queued", "sent", "dead"} : status' = [status EXCEPT ![m] = new]
         /\ due' = due \/ due' = [due EXCEPT ![m] = FALSE]
         /\ old' = old \/ old' = [old EXCEPT ![m] = FALSE]
         /\ retryCount' = retryCount \/ retryCount' = [retryCount EXCEPT ![m] = @ + 1]
         /\ logs' = logs \/ logs' = [logs EXCEPT ![m] = @ + 1]
         /\ sends' = sends \/ sends' = [sends EXCEPT ![m] = @ + 1]
BY DEF TaskStep, SendMessage, RecordSent, RecordFails, RetryLater, MoveToDead, LogRejected, LogDead,
   FailureNotWritten, Failing, Fault, Accepted, Labels, rowVars

(* Steps of createCampaign, of time, of Meta and of CampaignWorker. *)
WorldStep ==
  \/ \E m \in Messages : BackoffElapses(m) \/ TwoMinutesPass(m) \/ DeliveryReported(m)
  \/ InsertMessages \/ CountUnfinished \/ UpdateCampaign

LEMMA Steps ==
  ASSUME [Next]_vars
  PROVE  \/ \E w \in Loops : LoopStep(w) \/ \E m \in Messages : TaskStep(w, m)
         \/ WorldStep \/ Crash \/ UNCHANGED vars
BY DEF Next, WorldStep

-----------------------------------------------------------------------------
(* Type correctness.                                                       *)

LEMMA InitType == Init => TypeOK
<1> SUFFICES ASSUME Init PROVE TypeOK
  OBVIOUS
<1>1. RowType /\ LoopType
  BY DEF Init, RowType, LoopType, Idle
<1>2. completed \in BOOLEAN /\ verdict \in BOOLEAN
  BY DEF Init
<1>3. counted \subseteq Inserted /\ sends \in [Messages -> Nat] /\ faults \in Nat /\ excused \subseteq Messages
  BY DEF Init
<1> QED BY <1>1, <1>2, <1>3 DEF TypeOK, WorldType

LEMMA Counts ==
  ASSUME NEW S, NEW f \in [S -> Nat], NEW g, NEW x, g = f \/ g = [f EXCEPT ![x] = @ + 1]
  PROVE  g \in [S -> Nat]
<1>1. CASE x \in S
  BY <1>1
<1>2. CASE x \notin S
  <2>1. [f EXCEPT ![x] = @ + 1] = f
    BY <1>2
  <2> QED BY <2>1
<1> QED BY <1>1, <1>2

(* One more failure at most. *)
LEMMA FaultsStep ==
  ASSUME TypeOK, [Next]_vars
  PROVE  faults' = faults \/ faults' = faults + 1
<1>1. ASSUME NEW w \in Loops, LoopStep(w)
      PROVE  faults' = faults
  BY <1>1 DEF LoopStep, FindMessages, LockBatch, LoadBatch, RequeueStuck
<1>2. CASE WorldStep
  BY <1>2 DEF WorldStep, BackoffElapses, TwoMinutesPass, DeliveryReported, InsertMessages, CountUnfinished, UpdateCampaign, Fault
<1>3. CASE Crash
  BY <1>3 DEF Crash, Fault
<1> QED BY <1>1, <1>2, <1>3, Steps, TaskStepFrame DEF vars

LEMMA RowStep ==
  ASSUME TypeOK, [Next]_vars
  PROVE  RowType'
<1>1. CASE UNCHANGED <<rowVars, logs>>
  BY <1>1 DEF rowVars, TypeOK, RowType
<1>2. ASSUME NEW w \in Loops, LoopStep(w)
      PROVE  RowType'
  <2>1. CASE FindMessages(w) \/ LoadBatch(w)
    BY <1>1, <2>1 DEF FindMessages, LoadBatch
  <2>2. CASE LockBatch(w)
    <3>1. UNCHANGED <<due, retryCount, logs>>
      BY <2>2 DEF LockBatch
    <3>2. status' \in [Messages -> Statuses]
      BY <2>2 DEF LockBatch, TypeOK, RowType, Statuses
    <3>3. old' \in [Messages -> BOOLEAN]
      BY <2>2 DEF LockBatch
    <3> QED BY <3>1, <3>2, <3>3 DEF TypeOK, RowType, Statuses
  <2>3. CASE RequeueStuck(w)
    <3>1. UNCHANGED <<retryCount, logs>>
      BY <2>3 DEF RequeueStuck
    <3>2. status' \in [Messages -> Statuses]
      BY <2>3 DEF RequeueStuck, TypeOK, RowType, Statuses
    <3>3. due' \in [Messages -> BOOLEAN] /\ old' \in [Messages -> BOOLEAN]
      BY <2>3 DEF RequeueStuck
    <3> QED BY <3>1, <3>2, <3>3 DEF TypeOK, RowType, Statuses
  <2> QED BY <1>2, <2>1, <2>2, <2>3 DEF LoopStep
<1>3. ASSUME NEW w \in Loops, NEW m \in Messages, TaskStep(w, m)
      PROVE  RowType'
  <2>1. status' \in [Messages -> Statuses]
    BY <1>3, TaskStepFrame DEF TypeOK, RowType, Statuses
  <2>2. due' \in [Messages -> BOOLEAN] /\ old' \in [Messages -> BOOLEAN]
    BY <1>3, TaskStepFrame DEF TypeOK, RowType, Statuses
  <2>3. retryCount' \in [Messages -> Nat]
    BY <1>3, TaskStepFrame, Counts DEF TypeOK, RowType
  <2>4. logs' \in [Messages -> Nat]
    BY <1>3, TaskStepFrame, Counts DEF TypeOK, RowType
  <2> QED BY <2>1, <2>2, <2>3, <2>4 DEF RowType, Statuses
<1>4. ASSUME NEW m \in Messages, BackoffElapses(m) \/ TwoMinutesPass(m) \/ DeliveryReported(m)
      PROVE  RowType'
  <2>1. /\ status' = status \/ status' = [status EXCEPT ![m] = "delivered"]
        /\ due' = due \/ due' = [due EXCEPT ![m] = TRUE]
        /\ old' = old \/ old' = [old EXCEPT ![m] = TRUE]
        /\ UNCHANGED <<retryCount, logs>>
    BY <1>4 DEF BackoffElapses, TwoMinutesPass, DeliveryReported
  <2>2. status' \in [Messages -> Statuses]
    BY <2>1 DEF TypeOK, RowType, Statuses
  <2>3. due' \in [Messages -> BOOLEAN] /\ old' \in [Messages -> BOOLEAN]
    BY <2>1 DEF TypeOK, RowType, Statuses
  <2> QED BY <2>1, <2>2, <2>3 DEF TypeOK, RowType, Statuses
<1>5. CASE CountUnfinished \/ UpdateCampaign \/ Crash
  BY <1>1, <1>5 DEF CountUnfinished, UpdateCampaign, Crash
<1>6. CASE InsertMessages
  <2>1. PICK chunk \in SUBSET Messages :
          status' = [m \in Messages |-> IF m \in chunk THEN "queued" ELSE status[m]]
    BY <1>6 DEF InsertMessages
  <2>2. status' \in [Messages -> Statuses]
    BY <2>1 DEF TypeOK, RowType, Statuses
  <2> QED BY <1>6, <2>2 DEF InsertMessages, TypeOK, RowType, Statuses
<1> QED BY <1>1, <1>2, <1>3, <1>4, <1>5, <1>6, Steps DEF WorldStep, vars

(* A step of one loop. *)
LEMMA OneLoopType ==
  ASSUME TypeOK, NEW w \in Loops,
         \E a \in {"find", "lock", "load", "work"} : at' = [at EXCEPT ![w] = a],
         batch' = batch \/ \E b \in SUBSET Messages : batch' = [batch EXCEPT ![w] = b],
         task' = task \/ \E t \in [Messages -> Labels] : task' = [task EXCEPT ![w] = t],
         copy' = copy \/ \E c \in [Messages -> Nat] : copy' = [copy EXCEPT ![w] = c],
         batch'[w] = {} <=> at'[w] = "find",
         \A m \in Messages : task'[w][m] # "none" <=> at'[w] = "work" /\ m \in batch'[w]
  PROVE  LoopType'
<1>0. /\ at \in [Loops -> {"find", "lock", "load", "work"}] /\ batch \in [Loops -> SUBSET Messages]
      /\ task \in [Loops -> [Messages -> Labels]] /\ copy \in [Loops -> [Messages -> Nat]]
  BY DEF TypeOK, LoopType, Labels
<1> DEFINE TM == [Messages -> Labels]
           CM == [Messages -> Nat]
           BM == SUBSET Messages
<1>1. /\ at' \in [Loops -> {"find", "lock", "load", "work"}]
      /\ \A v \in Loops \ {w} : at'[v] = at[v]
  BY <1>0
<1>2. batch' \in [Loops -> BM] /\ \A v \in Loops \ {w} : batch'[v] = batch[v]
  <2>1. batch \in [Loops -> BM] /\ (batch' = batch \/ \E b \in BM : batch' = [batch EXCEPT ![w] = b])
    BY <1>0
  <2> HIDE DEF BM
  <2> QED BY <2>1
<1>3. task' \in [Loops -> TM] /\ \A v \in Loops \ {w} : task'[v] = task[v]
  <2>1. task \in [Loops -> TM] /\ (task' = task \/ \E t \in TM : task' = [task EXCEPT ![w] = t])
    BY <1>0
  <2> HIDE DEF TM
  <2> QED BY <2>1
<1>4. copy' \in [Loops -> CM]
  <2>1. copy \in [Loops -> CM] /\ (copy' = copy \/ \E c \in CM : copy' = [copy EXCEPT ![w] = c])
    BY <1>0
  <2> HIDE DEF CM
  <2> QED BY <2>1
<1>5. ASSUME NEW v \in Loops
      PROVE  /\ batch'[v] = {} <=> at'[v] = "find"
             /\ \A m \in Messages : task'[v][m] # "none" <=> at'[v] = "work" /\ m \in batch'[v]
  <2>1. CASE v = w
    BY <2>1
  <2>2. CASE v # w
    <3>1. batch'[v] = batch[v] /\ at'[v] = at[v] /\ task'[v] = task[v]
      BY <1>1, <1>2, <1>3, <2>2
    <3>2. /\ batch[v] = {} <=> at[v] = "find"
          /\ \A m \in Messages : task[v][m] # "none" <=> at[v] = "work" /\ m \in batch[v]
      BY DEF TypeOK, LoopType
    <3> QED BY <3>1, <3>2
  <2> QED BY <2>1, <2>2
<1> QED BY <1>1, <1>2, <1>3, <1>4, <1>5 DEF LoopType, Labels

LEMMA LoopTypeStep ==
  ASSUME TypeOK, [Next]_vars
  PROVE  LoopType'
<1>1. CASE UNCHANGED loopVars
  BY <1>1 DEF loopVars, TypeOK, LoopType
<1>2. ASSUME NEW w \in Loops, LoopStep(w)
      PROVE  LoopType'
  <2>1. /\ batch[w] = {} <=> at[w] = "find"
        /\ \A m \in Messages : task[w][m] # "none" <=> at[w] = "work" /\ m \in batch[w]
    BY DEF TypeOK, LoopType
  <2>2. DOMAIN at = Loops /\ DOMAIN batch = Loops /\ DOMAIN task = Loops
    BY DEF TypeOK, LoopType
  <2>3. CASE FindMessages(w)
    <3>1. PICK found : /\ found \in SUBSET Messages /\ found # {} /\ batch' = [batch EXCEPT ![w] = found]
                       /\ at[w] = "find" /\ at' = [at EXCEPT ![w] = "lock"] /\ UNCHANGED <<task, copy>>
      BY <2>3 DEF FindMessages, Goto, Eligible
    <3>2. at'[w] = "lock" /\ batch'[w] = found /\ task'[w] = task[w]
      BY <2>2, <3>1
    <3> QED BY <2>1, <3>1, <3>2, OneLoopType
  <2>4. CASE LockBatch(w)
    <3>1. at[w] = "lock" /\ at' = [at EXCEPT ![w] = "load"] /\ UNCHANGED <<batch, task, copy>>
      BY <2>4 DEF LockBatch, Goto
    <3>2. at'[w] = "load" /\ batch'[w] = batch[w] /\ task'[w] = task[w]
      BY <2>2, <3>1
    <3> QED BY <2>1, <3>1, <3>2, OneLoopType
  <2>5. CASE LoadBatch(w)
    <3> DEFINE t == [m \in Messages |-> IF m \in batch[w] THEN "send" ELSE "none"]
               c == [m \in Messages |-> IF m \in batch[w] THEN retryCount[m] ELSE 0]
    <3>1. at[w] = "load" /\ at' = [at EXCEPT ![w] = "work"] /\ UNCHANGED batch
      BY <2>5 DEF LoadBatch, Goto
    <3>2. task' = [task EXCEPT ![w] = t] /\ copy' = [copy EXCEPT ![w] = c]
      BY <2>5 DEF LoadBatch
    <3>3. c \in [Messages -> Nat]
      BY DEF TypeOK, RowType
    <3>4. t \in [Messages -> Labels] /\ \A m \in Messages : t[m] # "none" <=> m \in batch[w]
      BY DEF Labels
    <3> HIDE DEF t, c
    <3>5. at'[w] = "work" /\ batch'[w] = batch[w] /\ task'[w] = t
      BY <2>2, <3>1, <3>2
    <3> QED BY <2>1, <3>1, <3>2, <3>3, <3>4, <3>5, OneLoopType
  <2>6. CASE RequeueStuck(w)
    <3> DEFINE t == [m \in Messages |-> "none"]
               c == [m \in Messages |-> 0]
    <3>1. /\ at' = [at EXCEPT ![w] = "find"] /\ batch' = [batch EXCEPT ![w] = {}]
          /\ task' = [task EXCEPT ![w] = t] /\ copy' = [copy EXCEPT ![w] = c]
      BY <2>6 DEF RequeueStuck, Goto, Idle
    <3>2. c \in [Messages -> Nat] /\ t \in [Messages -> Labels] /\ \A m \in Messages : t[m] = "none"
      BY DEF Labels
    <3> HIDE DEF t, c
    <3>3. at'[w] = "find" /\ batch'[w] = {} /\ task'[w] = t
      BY <2>2, <3>1
    <3> QED BY <3>1, <3>2, <3>3, OneLoopType
  <2> QED BY <1>2, <2>3, <2>4, <2>5, <2>6 DEF LoopStep
<1>3. ASSUME NEW w \in Loops, NEW m \in Messages, TaskStep(w, m)
      PROVE  LoopType'
  <2>1. PICK label \in Labels \ {"none"} : TaskTo(w, m, label)
    BY <1>3, TaskStepFrame
  <2>2. /\ task' \in [Loops -> [Messages -> Labels]]
        /\ \A v \in Loops, x \in Messages : task'[v][x] = IF v = w /\ x = m THEN label ELSE task[v][x]
    BY <2>1, TaskToIs
  <2>3. task[w][m] # "none" /\ UNCHANGED <<at, batch, copy>>
    BY <1>3, TaskStepFrame
  <2>4. \A v \in Loops, x \in Messages : task'[v][x] # "none" <=> task[v][x] # "none"
    BY <2>1, <2>2, <2>3
  <2>5. /\ at' \in [Loops -> {"find", "lock", "load", "work"}] /\ batch' \in [Loops -> SUBSET Messages]
        /\ copy' \in [Loops -> [Messages -> Nat]]
    BY <2>3 DEF TypeOK, LoopType
  <2>6. ASSUME NEW v \in Loops
        PROVE  /\ batch'[v] = {} <=> at'[v] = "find"
               /\ \A x \in Messages : task'[v][x] # "none" <=> at'[v] = "work" /\ x \in batch'[v]
    <3>1. /\ batch[v] = {} <=> at[v] = "find"
          /\ \A x \in Messages : task[v][x] # "none" <=> at[v] = "work" /\ x \in batch[v]
      BY DEF TypeOK, LoopType
    <3> QED BY <2>3, <2>4, <3>1
  <2> QED BY <2>2, <2>5, <2>6 DEF LoopType, Labels
<1>4. CASE WorldStep
  BY <1>1, <1>4 DEF WorldStep, BackoffElapses, TwoMinutesPass, DeliveryReported, InsertMessages, CountUnfinished, UpdateCampaign
<1>5. CASE Crash
  BY <1>5 DEF Crash, Idle, LoopType
<1> QED BY <1>1, <1>2, <1>3, <1>4, <1>5, Steps DEF vars

(* No message is deleted. *)
LEMMA InsertedStay ==
  ASSUME TypeOK, [Next]_vars
  PROVE  Inserted \subseteq Inserted'
<1> SUFFICES ASSUME NEW m \in Messages, status[m] # "none" PROVE status'[m] # "none"
  BY DEF Inserted
<1>1. ASSUME NEW w \in Loops, LoopStep(w)
      PROVE  status'[m] # "none"
  BY <1>1 DEF LoopStep, FindMessages, LockBatch, LoadBatch, RequeueStuck, rowVars
<1>2. ASSUME NEW w \in Loops, NEW x \in Messages, TaskStep(w, x)
      PROVE  status'[m] # "none"
  BY <1>2, TaskStepFrame DEF TypeOK, RowType
<1>3. ASSUME NEW x \in Messages, BackoffElapses(x) \/ TwoMinutesPass(x) \/ DeliveryReported(x)
      PROVE  status'[m] # "none"
  BY <1>3 DEF BackoffElapses, TwoMinutesPass, DeliveryReported, TypeOK, RowType
<1>4. CASE InsertMessages \/ CountUnfinished \/ UpdateCampaign \/ Crash
  BY <1>4 DEF InsertMessages, CountUnfinished, UpdateCampaign, Crash, rowVars
<1> QED BY <1>1, <1>2, <1>3, <1>4, Steps DEF WorldStep, vars, rowVars

(* What the two steps of processCampaign do. *)
LEMMA VerdictMoves ==
  ASSUME TypeOK, [Next]_vars
  PROVE  /\ completed' \in BOOLEAN /\ verdict' \in BOOLEAN /\ counted' \subseteq counted \cup Inserted
         /\ completed' => counted' = counted /\ (completed \/ verdict)
         /\ verdict' => \/ verdict /\ counted' = counted
                        \/ Unfinished = {} /\ UNCHANGED <<rowVars, excused>> /\ counted' = Inserted
<1> DEFINE Moved ==
      /\ completed' \in BOOLEAN /\ verdict' \in BOOLEAN /\ counted' \subseteq counted \cup Inserted
      /\ completed' => counted' = counted /\ (completed \/ verdict)
      /\ verdict' => \/ verdict /\ counted' = counted
                     \/ Unfinished = {} /\ UNCHANGED <<rowVars, excused>> /\ counted' = Inserted
<1>0. completed \in BOOLEAN /\ verdict \in BOOLEAN
  BY DEF TypeOK, WorldType
<1>1. ASSUME NEW w \in Loops, LoopStep(w)
      PROVE  UNCHANGED campaignVars
  BY <1>1 DEF LoopStep, FindMessages, LockBatch, LoadBatch, RequeueStuck
<1>2. ASSUME NEW m \in Messages, BackoffElapses(m) \/ TwoMinutesPass(m) \/ DeliveryReported(m)
      PROVE  UNCHANGED campaignVars
  BY <1>2 DEF BackoffElapses, TwoMinutesPass, DeliveryReported
<1>3. ASSUME NEW w \in Loops, NEW m \in Messages, TaskStep(w, m)
      PROVE  UNCHANGED campaignVars
  BY <1>3, TaskStepFrame
<1>4. ASSUME UNCHANGED campaignVars
      PROVE  Moved
  <2>1. completed' = completed /\ verdict' = verdict /\ counted' = counted
    BY <1>4 DEF campaignVars
  <2> QED BY <1>0, <2>1, Zenon
<1>5. ASSUME CountUnfinished
      PROVE  Moved
  <2>1. completed' = completed /\ ~completed /\ verdict' = TRUE
    BY <1>5 DEF CountUnfinished
  <2>2. Unfinished = {} /\ UNCHANGED <<rowVars, excused>> /\ counted' = Inserted
    BY <1>5 DEF CountUnfinished
  <2>3. completed' \in BOOLEAN /\ verdict' \in BOOLEAN /\ ~completed'
    BY <1>0, <2>1
  <2>4. counted' \subseteq counted \cup Inserted
    BY <2>2
  <2> QED BY <2>2, <2>3, <2>4
<1>6. ASSUME UpdateCampaign
      PROVE  Moved
  <2>1. verdict /\ completed' = TRUE /\ verdict' = FALSE /\ counted' = counted
    BY <1>6 DEF UpdateCampaign
  <2> QED BY <2>1, Zenon
<1>7. ASSUME Crash
      PROVE  Moved
  <2>1. completed' = completed /\ verdict' = FALSE /\ counted' = IF completed THEN counted ELSE {}
    BY <1>7 DEF Crash
  <2> QED BY <1>0, <2>1
<1>8. ASSUME InsertMessages
      PROVE  Moved
  BY <1>4, <1>8 DEF InsertMessages
<1> HIDE DEF Moved
<1>9. Moved
  BY <1>1, <1>2, <1>3, <1>4, <1>5, <1>6, <1>7, <1>8, Steps DEF WorldStep, vars
<1> QED BY <1>9 DEF Moved

LEMMA TypeStep ==
  ASSUME TypeOK, [Next]_vars
  PROVE  TypeOK'
<1>1. faults' \in Nat
  BY FaultsStep DEF TypeOK, WorldType
<1>2. excused' \subseteq Messages
  <2>1. excused \subseteq Messages
    BY DEF TypeOK, WorldType
  <2>2. ASSUME NEW w \in Loops, LoopStep(w)
        PROVE  excused' \subseteq Messages
    BY <2>1, <2>2 DEF LoopStep, FindMessages, LockBatch, LoadBatch, RequeueStuck, TypeOK, LoopType
  <2>3. WorldStep \/ Crash => excused' \subseteq Messages
    BY <2>1 DEF WorldStep, BackoffElapses, TwoMinutesPass, DeliveryReported, InsertMessages, CountUnfinished, UpdateCampaign, Crash
  <2> QED BY <2>1, <2>2, <2>3, Steps, TaskStepFrame DEF vars
<1>3. completed' \in BOOLEAN /\ verdict' \in BOOLEAN /\ counted' \subseteq Inserted'
  <2>1. counted \subseteq Inserted
    BY DEF TypeOK, WorldType
  <2> QED BY <2>1, VerdictMoves, InsertedStay
<1>4. sends' \in [Messages -> Nat]
  <2>1. sends' = sends \/ \E m \in Messages : sends' = [sends EXCEPT ![m] = @ + 1]
    BY Steps, TaskStepFrame DEF LoopStep, FindMessages, LockBatch, LoadBatch, RequeueStuck, WorldStep,
       BackoffElapses, TwoMinutesPass, DeliveryReported, InsertMessages, CountUnfinished, UpdateCampaign, Crash, vars
  <2> QED BY <2>1, Counts DEF TypeOK, WorldType
<1> QED BY <1>1, <1>2, <1>3, <1>4, RowStep, LoopTypeStep DEF TypeOK, WorldType

-----------------------------------------------------------------------------
(* One message.                                                            *)

(* Nothing that matters to m happens. *)
Unmoved(m) ==
  /\ status'[m] = status[m] /\ (old'[m] <=> old[m]) /\ retryCount'[m] = retryCount[m]
  /\ logs'[m] = logs[m] /\ sends'[m] = sends[m]
  /\ Held(m)' => Held(m)
  /\ \A w \in Loops :
       /\ task'[w][m] = task[w][m] /\ (Running(w, m) => copy'[w][m] = copy[w][m])
       /\ Working(w, m)' => Working(w, m)

LEMMA UnmovedKeeps ==
  ASSUME NEW m \in Messages, MessageInv(m), Unmoved(m)
  PROVE  MessageInv(m)'
<1>1. IsYoung(m)'
  BY DEF MessageInv, Unmoved, IsYoung
<1>2. HasOneLoop(m)'
  BY DEF MessageInv, Unmoved, HasOneLoop
<1>3. \A w \in Loops : (Running(w, m)' <=> Running(w, m)) /\ (Logging(w, m)' <=> Logging(w, m))
  BY DEF Unmoved, Running, Logging
<1>4. TaskFits(m)'
  BY <1>3 DEF MessageInv, Unmoved, TaskFits
<1>5. CountsFit(m)'
  BY <1>3 DEF MessageInv, Unmoved, CountsFit
<1> QED BY <1>1, <1>2, <1>4, <1>5 DEF MessageInv

(* Once excused, always excused. *)
LEMMA ExcusedStay ==
  ASSUME TypeOK, [Next]_vars
  PROVE  excused \subseteq excused'
<1>1. ASSUME NEW w \in Loops, LoopStep(w)
      PROVE  excused \subseteq excused'
  BY <1>1 DEF LoopStep, FindMessages, LockBatch, LoadBatch, RequeueStuck
<1>2. WorldStep \/ Crash => excused \subseteq excused'
  BY DEF WorldStep, BackoffElapses, TwoMinutesPass, DeliveryReported, InsertMessages, CountUnfinished, UpdateCampaign, Crash
<1> QED BY <1>1, <1>2, Steps, TaskStepFrame DEF vars

(* Tasks are of loops that work on the message; no other loop does. *)
LEMMA TaskIsWorking ==
  ASSUME TypeOK, NEW m \in Messages, NEW w \in Loops
  PROVE  /\ task[w][m] # "none" <=> Working(w, m)
         /\ task[w][m] \in Labels
         /\ Working(w, m) => Held(m)
         /\ m \in batch[w] => Held(m)
         /\ HasOneLoop(m) /\ Working(w, m) => \A v \in Loops \ {w} : task[v][m] = "none"
<1>1. \A v \in Loops : task[v][m] # "none" <=> Working(v, m)
  BY DEF TypeOK, LoopType, Working
<1>2. task[w][m] \in Labels
  <2>1. task \in [Loops -> [Messages -> Labels]]
    BY DEF TypeOK, LoopType, Labels
  <2>2. task[w] \in [Messages -> Labels]
    BY <2>1
  <2> QED BY <2>2
<1> QED BY <1>1, <1>2 DEF Working, Held, HasOneLoop

LEMMA FindKeeps ==
  ASSUME TypeOK, NEW m \in Messages, MessageInv(m), NEW w \in Loops, FindMessages(w)
  PROVE  MessageInv(m)'
<1>1. UNCHANGED <<rowVars, logs, task, copy, sends>>
  BY DEF FindMessages
<1>2. at[w] = "find" /\ at' = [at EXCEPT ![w] = "lock"]
  BY DEF FindMessages, Goto
<1>3. PICK found \in SUBSET Eligible : batch' = [batch EXCEPT ![w] = found]
  BY DEF FindMessages
<1>4. \A v \in Loops : Working(v, m)' => Working(v, m)
  BY <1>2, <1>3 DEF Working, TypeOK, LoopType
<1>5. CASE m \in found
  <2>1. ~old[m]
    BY <1>3, <1>5 DEF Eligible, MessageInv, IsYoung
  <2>2. IsYoung(m)'
    BY <1>1, <2>1 DEF IsYoung, rowVars
  <2>3. HasOneLoop(m)'
    BY <1>4 DEF MessageInv, HasOneLoop
  <2>4. TaskFits(m)' /\ CountsFit(m)'
    BY <1>1 DEF MessageInv, TaskFits, CountsFit, Running, Logging, rowVars
  <2> QED BY <2>2, <2>3, <2>4 DEF MessageInv
<1>6. CASE m \notin found
  <2>0. \A v \in Loops : m \in batch'[v] => m \in batch[v]
    <3>1. DOMAIN batch = Loops
      BY DEF TypeOK, LoopType
    <3>2. \A v \in Loops : batch'[v] = IF v = w THEN found ELSE batch[v]
      BY <1>3, <3>1
    <3> QED BY <1>6, <3>2
  <2>1. Held(m)' => Held(m)
    BY <2>0 DEF Held
  <2>2. Unmoved(m)
    BY <1>1, <1>4, <2>1 DEF Unmoved, rowVars
  <2> QED BY <2>2, UnmovedKeeps
<1> QED BY <1>5, <1>6

LEMMA LockKeeps ==
  ASSUME TypeOK, NEW m \in Messages, MessageInv(m), NEW w \in Loops, LockBatch(w)
  PROVE  MessageInv(m)'
<1>1. UNCHANGED <<retryCount, logs, batch, task, copy, sends>>
  BY DEF LockBatch
<1>2. at[w] = "lock" /\ at' = [at EXCEPT ![w] = "load"]
  BY DEF LockBatch, Goto
<1>3. (\A v \in Loops : Working(v, m)' => Working(v, m)) /\ (Held(m)' <=> Held(m))
  BY <1>1, <1>2 DEF Working, Held, TypeOK, LoopType
<1>4. CASE m \in batch[w] /\ status[m] = "queued"
  <2>1. status'[m] = "processing" /\ ~old'[m]
    BY <1>4 DEF LockBatch
  <2>2. \A v \in Loops : ~Running(v, m)
    BY <1>4 DEF MessageInv, TaskFits, Running
  <2>3. \A v \in Loops : ~Running(v, m)'
    BY <1>1, <2>2 DEF Running
  <2>4. IsYoung(m)'
    BY <2>1 DEF IsYoung
  <2>5. HasOneLoop(m)'
    BY <1>3 DEF MessageInv, HasOneLoop
  <2>6. TaskFits(m)'
    BY <2>3 DEF TaskFits, Running
  <2>7. CountsFit(m)'
    BY <1>1, <1>4, <2>1, <2>2, <2>3 DEF MessageInv, CountsFit, Running
  <2> QED BY <2>4, <2>5, <2>6, <2>7 DEF MessageInv
<1>5. CASE ~(m \in batch[w] /\ status[m] = "queued")
  <2>1. status'[m] = status[m] /\ (old'[m] <=> old[m])
    BY <1>5 DEF LockBatch
  <2>2. Unmoved(m)
    BY <1>1, <1>3, <2>1 DEF Unmoved
  <2> QED BY <2>2, UnmovedKeeps
<1> QED BY <1>4, <1>5

LEMMA LoadKeeps ==
  ASSUME TypeOK, NEW m \in Messages, MessageInv(m), NEW w \in Loops, LoadBatch(w), m \notin excused'
  PROVE  MessageInv(m)'
<1>1. UNCHANGED <<rowVars, logs, batch, sends>>
  BY DEF LoadBatch
<1>2. at[w] = "load" /\ at' = [at EXCEPT ![w] = "work"]
  BY DEF LoadBatch, Goto
<1>3. /\ \A v \in Loops \ {w} : task'[v][m] = task[v][m] /\ copy'[v][m] = copy[v][m] /\ at'[v] = at[v]
      /\ task'[w][m] = IF m \in batch[w] THEN "send" ELSE "none"
      /\ m \in batch[w] => copy'[w][m] = retryCount[m]
      /\ task[w][m] = "none" /\ at'[w] = "work"
  <2>1. DOMAIN task = Loops /\ DOMAIN copy = Loops /\ DOMAIN at = Loops /\ task[w][m] = "none"
    BY <1>2 DEF TypeOK, LoopType
  <2>2. /\ task' = [task EXCEPT ![w] = [x \in Messages |-> IF x \in batch[w] THEN "send" ELSE "none"]]
        /\ copy' = [copy EXCEPT ![w] = [x \in Messages |-> IF x \in batch[w] THEN retryCount[x] ELSE 0]]
    BY DEF LoadBatch
  <2> QED BY <1>2, <2>1, <2>2
<1>4. Held(m)' <=> Held(m)
  BY <1>1 DEF Held
<1>5. CASE m \in batch[w]
  <2>1. /\ status[m] = "processing" /\ \A v \in Loops \ {w} : ~Working(v, m)
    <3>1. ~Raced(w, m)
      BY <1>5 DEF LoadBatch
    <3> QED BY <3>1 DEF Raced, Working
  <2>2. \A v \in Loops \ {w} : task[v][m] = "none" /\ task'[v][m] = "none" /\ ~Working(v, m)'
    BY <1>1, <1>3, <2>1, TaskIsWorking DEF Working
  <2>3. IsYoung(m)'
    BY <1>1, <1>4 DEF MessageInv, IsYoung, rowVars
  <2>4. HasOneLoop(m)'
    BY <2>2 DEF HasOneLoop
  <2>5. TaskFits(m)'
    BY <1>1, <1>3, <1>5, <2>1, <2>2 DEF TaskFits, Running, rowVars
  <2>6. \A v \in Loops : /\ task[v][m] # "record" /\ ~Logging(v, m)
                         /\ task'[v][m] # "record" /\ ~Logging(v, m)'
    BY <1>3, <2>2 DEF Logging
  <2>7. CountsFit(m)'
    BY <1>1, <2>6 DEF MessageInv, CountsFit, rowVars
  <2> QED BY <2>3, <2>4, <2>5, <2>7 DEF MessageInv
<1>6. CASE m \notin batch[w]
  <2>1. \A v \in Loops : /\ task'[v][m] = task[v][m] /\ (Running(v, m) => copy'[v][m] = copy[v][m])
                         /\ Working(v, m)' => Working(v, m)
    BY <1>1, <1>3, <1>6 DEF Running, Working
  <2>2. Unmoved(m)
    BY <1>1, <1>4, <2>1 DEF Unmoved, rowVars
  <2> QED BY <2>2, UnmovedKeeps
<1> QED BY <1>5, <1>6

LEMMA RequeueKeeps ==
  ASSUME TypeOK, NEW m \in Messages, MessageInv(m), NEW w \in Loops, RequeueStuck(w)
  PROVE  MessageInv(m)'
<1>1. UNCHANGED <<retryCount, logs, sends>>
  BY DEF RequeueStuck
<1>2. /\ \A v \in Loops \ {w} : /\ task'[v][m] = task[v][m] /\ copy'[v][m] = copy[v][m]
                                /\ at'[v] = at[v] /\ batch'[v] = batch[v]
      /\ task'[w][m] = "none" /\ batch'[w] = {} /\ at'[w] = "find" /\ ~Running(w, m)
  <2>1. DOMAIN task = Loops /\ DOMAIN copy = Loops /\ DOMAIN at = Loops /\ DOMAIN batch = Loops
    BY DEF TypeOK, LoopType
  <2>2. /\ task' = [task EXCEPT ![w] = [x \in Messages |-> "none"]]
        /\ copy' = [copy EXCEPT ![w] = [x \in Messages |-> 0]]
        /\ at' = [at EXCEPT ![w] = "find"] /\ batch' = [batch EXCEPT ![w] = {}]
    BY DEF RequeueStuck, Goto, Idle
  <2>3. ~Running(w, m)
    <3>1. m \in batch[w] => ~Running(w, m)
      BY DEF RequeueStuck
    <3>2. m \notin batch[w] => task[w][m] = "none"
      BY DEF TypeOK, LoopType
    <3> QED BY <3>1, <3>2 DEF Running
  <2> QED BY <2>1, <2>2, <2>3
<1>3. (\A v \in Loops : Working(v, m)' => Working(v, m)) /\ (Held(m)' => Held(m))
  BY <1>2 DEF Working, Held
<1>4. HasOneLoop(m)'
  BY <1>3 DEF MessageInv, HasOneLoop
<1>5. CASE status[m] = "processing" /\ old[m]
  <2>1. status'[m] = "queued" /\ ~old'[m]
    BY <1>5 DEF RequeueStuck
  <2>2. ~Held(m)
    BY <1>5 DEF MessageInv, IsYoung
  <2>3. \A v \in Loops : task[v][m] = "none" /\ task'[v][m] = "none"
    BY <1>2, <2>2, TaskIsWorking
  <2>4. IsYoung(m)'
    BY <2>1 DEF IsYoung
  <2>5. TaskFits(m)'
    BY <2>3 DEF TaskFits, Running
  <2>6. CountsFit(m)'
    BY <1>1, <1>5, <2>1, <2>3 DEF MessageInv, CountsFit, Logging
  <2> QED BY <1>4, <2>4, <2>5, <2>6 DEF MessageInv
<1>6. CASE ~(status[m] = "processing" /\ old[m])
  <2>1. status'[m] = status[m] /\ (old'[m] <=> old[m])
    BY <1>6 DEF RequeueStuck
  <2>2. IsYoung(m)'
    BY <1>3, <2>1 DEF MessageInv, IsYoung
  <2>3. TaskFits(m)'
    BY <1>1, <1>2, <2>1 DEF MessageInv, TaskFits, Running
  <2>4. \A v \in Loops : /\ Logging(v, m)' <=> Logging(v, m)
                         /\ task'[v][m] = "record" <=> task[v][m] = "record"
    BY <1>2 DEF Logging, Running
  <2>5. CountsFit(m)'
    BY <1>1, <2>1, <2>4 DEF MessageInv, CountsFit
  <2> QED BY <1>4, <2>2, <2>3, <2>5 DEF MessageInv
<1> QED BY <1>5, <1>6

(* What processMessage does to its message, at the end of the step. *)
LEMMA TaskKeeps ==
  ASSUME TypeOK, NEW m \in Messages, MessageInv(m), NEW w \in Loops, TaskStep(w, m), m \notin excused'
  PROVE  MessageInv(m)'
<1>1. Working(w, m) /\ UNCHANGED <<at, batch, copy>>
  BY TaskStepFrame, TaskIsWorking
<1>2. \A v \in Loops \ {w} : task[v][m] = "none"
  BY <1>1, TaskIsWorking DEF MessageInv
<1>3. PICK label \in Labels \ {"none"} : TaskTo(w, m, label)
  BY TaskStepFrame
<1>4. task'[w][m] = label /\ \A v \in Loops \ {w} : task'[v][m] = "none"
  BY <1>2, <1>3, TaskToIs
<1>5. HasOneLoop(m)'
  BY <1>1 DEF MessageInv, HasOneLoop, Working
<1>6. IsYoung(m)'
  <2>1. ~old[m] /\ (old' = old \/ old' = [old EXCEPT ![m] = FALSE])
    BY <1>1, TaskIsWorking, TaskStepFrame DEF MessageInv, IsYoung
  <2>2. ~old'[m]
    BY <2>1 DEF TypeOK, RowType
  <2> QED BY <2>2 DEF IsYoung
<1>7. /\ sends[m] = IF status[m] \in {"sent", "delivered"} \/ task[w][m] = "record" THEN 1 ELSE 0
      /\ logs[m] = IF status[m] = "dead" /\ ~Logging(w, m) THEN 1 ELSE 0
  BY <1>2 DEF MessageInv, CountsFit, Logging
<1>7a. retryCount[m] <= MaxRetry /\ (status[m] = "dead" => retryCount[m] = MaxRetry)
  BY DEF MessageInv, CountsFit
<1>8. /\ task[w][m] \in {"send", "record", "fail"} => status[m] = "processing"
      /\ task[w][m] = "caught" => status[m] \in {"processing", "dead"}
      /\ task[w][m] \in {"log", "caught log"} => status[m] = "dead"
      /\ Running(w, m) => copy[w][m] = retryCount[m]
  BY DEF MessageInv, TaskFits
<1>9. retryCount[m] \in Nat /\ logs[m] \in Nat /\ sends[m] \in Nat /\ MaxRetry \in Nat
  BY WorkerAssumption DEF TypeOK, RowType, WorldType
<1>10. SUFFICES /\ label \in {"send", "record", "fail"} => status'[m] = "processing"
                /\ label = "caught" => status'[m] \in {"processing", "dead"}
                /\ label \in {"log", "caught log"} => status'[m] = "dead"
                /\ label # "done" => copy[w][m] = retryCount'[m]
                /\ sends'[m] = IF status'[m] \in {"sent", "delivered"} \/ label = "record" THEN 1 ELSE 0
                /\ logs'[m] = IF status'[m] = "dead" /\ label \notin {"log", "caught", "caught log"} THEN 1 ELSE 0
                /\ retryCount'[m] <= MaxRetry /\ (status'[m] = "dead" => retryCount'[m] = MaxRetry)
  <2>1. TaskFits(m)'
    <3>1. ASSUME NEW v \in Loops
          PROVE  /\ task'[v][m] \in {"send", "record", "fail"} => status'[m] = "processing"
                 /\ task'[v][m] = "caught" => status'[m] \in {"processing", "dead"}
                 /\ task'[v][m] \in {"log", "caught log"} => status'[m] = "dead"
                 /\ Running(v, m)' => copy'[v][m] = retryCount'[m]
      <4>1. CASE v = w
        BY <1>1, <1>4, <1>10, <4>1 DEF Running
      <4>2. CASE v # w
        BY <1>4, <4>2 DEF Running
      <4> QED BY <4>1, <4>2
    <3> QED BY <3>1 DEF TaskFits
  <2>2. \A v \in Loops : Logging(v, m)' <=> v = w /\ label \in {"log", "caught", "caught log"}
    BY <1>4 DEF Logging
  <2>3. CountsFit(m)'
    BY <1>4, <1>10, <2>2 DEF CountsFit
  <2> QED BY <1>5, <1>6, <2>1, <2>3 DEF MessageInv
<1>11. ASSUME NEW l \in Labels, TaskTo(w, m, l)
       PROVE  label = l
  BY <1>4, <1>11, TaskToIs
<1>12. CASE SendMessage(w, m)
  <2>1. task[w][m] = "send" /\ UNCHANGED <<rowVars, logs>>
    BY <1>12 DEF SendMessage
  <2>2. \/ sends' = [sends EXCEPT ![m] = @ + 1] /\ label = "record"
        \/ UNCHANGED sends /\ label = "fail"
    <3>1. {"record", "fail"} \subseteq Labels
      BY DEF Labels
    <3> QED BY <1>11, <1>12, <3>1 DEF SendMessage, Accepted
  <2>3. \/ sends'[m] = sends[m] + 1 /\ label = "record"
        \/ sends'[m] = sends[m] /\ label = "fail"
    BY <2>2 DEF TypeOK, WorldType
  <2>4. status[m] = "processing" /\ copy[w][m] = retryCount[m]
    BY <1>8, <2>1 DEF Running
  <2>5. sends[m] = 0 /\ logs[m] = 0
    BY <1>7, <2>1, <2>4
  <2>6. sends'[m] = IF label = "record" THEN 1 ELSE 0
    BY <2>3, <2>5
  <2>7. status'[m] = "processing" /\ logs'[m] = 0 /\ retryCount'[m] = retryCount[m]
    BY <2>1, <2>4, <2>5 DEF rowVars
  <2> QED BY <1>7a, <2>3, <2>4, <2>6, <2>7
<1>13. CASE RecordSent(w, m)
  <2>1. /\ task[w][m] = "record" /\ status'[m] = "sent" /\ label = "done"
        /\ UNCHANGED <<retryCount, logs, sends>>
    BY <1>11, <1>13 DEF RecordSent, Labels, TypeOK, RowType
  <2> QED BY <1>7, <1>7a, <1>8, <2>1
<1>14. CASE RecordFails(w, m)
  BY <1>14 DEF RecordFails
<1>15. CASE RetryLater(w, m)
  <2>1. /\ Failing(w, m) /\ copy[w][m] < MaxRetry /\ status'[m] = "queued" /\ label = "done"
        /\ retryCount'[m] = retryCount[m] + 1 /\ UNCHANGED <<logs, sends>>
    BY <1>11, <1>15 DEF RetryLater, Labels, TypeOK, RowType
  <2>2. copy[w][m] = retryCount[m]
    BY <1>8, <2>1 DEF Failing, Running
  <2>3. retryCount[m] < MaxRetry
    BY <2>1, <2>2
  <2>4. status[m] # "dead"
    BY <1>7a, <1>9, <2>3
  <2>5. status[m] = "processing" /\ task[w][m] # "record"
    BY <1>8, <2>1, <2>4 DEF Failing
  <2>6. sends[m] = 0 /\ logs[m] = 0
    BY <1>7, <2>5
  <2>7. retryCount'[m] <= MaxRetry
    BY <1>9, <2>1, <2>3
  <2> QED BY <2>1, <2>6, <2>7
<1>16. CASE MoveToDead(w, m)
  <2>1. /\ Failing(w, m) /\ copy[w][m] >= MaxRetry /\ status'[m] = "dead" /\ label \in {"log", "caught log"}
        /\ UNCHANGED <<retryCount, logs, sends>>
    BY <1>11, <1>16 DEF MoveToDead, Labels, TypeOK, RowType
  <2>2. copy[w][m] = retryCount[m] /\ task[w][m] \in {"fail", "caught"}
    BY <1>8, <2>1 DEF Failing, Running
  <2>3. retryCount[m] = MaxRetry
    <3>1. retryCount[m] >= MaxRetry
      BY <2>1, <2>2
    <3>2. retryCount[m] <= MaxRetry
      BY <1>7a
    <3> QED BY <1>9, <3>1, <3>2
  <2>4. sends[m] = 0 /\ logs[m] = 0
    BY <1>7, <1>8, <2>2 DEF Logging
  <2> QED BY <2>1, <2>2, <2>3, <2>4, <1>9
<1>17. CASE LogDead(w, m)
  <2>1. /\ task[w][m] = "caught log" /\ label = "done" /\ logs'[m] = logs[m] + 1
        /\ UNCHANGED <<status, retryCount, sends>>
    BY <1>11, <1>17 DEF LogDead, Labels, rowVars, TypeOK, RowType
  <2>2. status[m] = "dead" /\ task[w][m] # "record"
    BY <1>8, <2>1
  <2>3. sends[m] = 0 /\ logs[m] = 0
    BY <1>7, <2>1, <2>2 DEF Logging
  <2>4. logs'[m] = 1 /\ status'[m] = "dead" /\ sends'[m] = 0 /\ retryCount'[m] = retryCount[m]
    <3>1. logs'[m] = 1
      <4>1. logs'[m] = logs[m] + 1
        BY <2>1
      <4>2. logs[m] = 0
        BY <2>3
      <4> QED BY <4>1, <4>2
    <3> QED BY <2>1, <2>2, <2>3, <3>1
  <2> QED BY <1>7a, <2>1, <2>2, <2>4
<1>18. CASE LogRejected(w, m)
  <2>1. /\ task[w][m] = "log" /\ label = "caught" /\ UNCHANGED <<status, retryCount, logs, sends>>
    BY <1>11, <1>18 DEF LogRejected, Labels, rowVars
  <2> QED BY <1>7, <1>7a, <1>8, <2>1 DEF Running, Logging
<1>19. CASE FailureNotWritten(w, m)
  <2>1. /\ task[w][m] = "fail" /\ label = "caught" /\ UNCHANGED <<logs, sends>>
    BY <1>11, <1>19 DEF FailureNotWritten, Labels
  <2>2. status[m] = "processing" /\ copy[w][m] = retryCount[m] /\ sends[m] = 0 /\ logs[m] = 0
    BY <1>7, <1>8, <2>1 DEF Running
  <2>3. /\ UNCHANGED retryCount
        /\ \/ UNCHANGED status
           \/ copy[w][m] >= MaxRetry /\ status' = [status EXCEPT ![m] = "dead"]
    BY <1>19 DEF FailureNotWritten, rowVars
  <2>4. CASE UNCHANGED status
    BY <1>7a, <2>1, <2>2, <2>3, <2>4
  <2>5. CASE copy[w][m] >= MaxRetry /\ status' = [status EXCEPT ![m] = "dead"]
    <3>1. status'[m] = "dead"
      BY <2>5 DEF TypeOK, RowType
    <3>2. retryCount[m] >= MaxRetry
      BY <2>2, <2>5
    <3>3. retryCount[m] = MaxRetry
      BY <1>7a, <1>9, <3>2
    <3> QED BY <1>9, <2>1, <2>2, <2>3, <3>1, <3>3
  <2> QED BY <2>3, <2>4, <2>5
<1> QED BY <1>12, <1>13, <1>14, <1>15, <1>16, <1>17, <1>18, <1>19 DEF TaskStep

LEMMA WorldKeeps ==
  ASSUME TypeOK, NEW m \in Messages, MessageInv(m), WorldStep, m \notin excused'
  PROVE  MessageInv(m)'
<1>1. UNCHANGED <<loopVars, retryCount, logs, sends>>
  BY DEF WorldStep, BackoffElapses, TwoMinutesPass, DeliveryReported, InsertMessages, CountUnfinished, UpdateCampaign, rowVars
<1>2. /\ Held(m)' <=> Held(m)
      /\ \A w \in Loops : task'[w][m] = task[w][m] /\ copy'[w][m] = copy[w][m] /\ (Working(w, m)' <=> Working(w, m))
  BY <1>1 DEF Held, Working, loopVars
<1>3. CASE status'[m] = status[m] /\ (old'[m] <=> old[m])
  BY <1>1, <1>2, <1>3, UnmovedKeeps DEF Unmoved
<1>4. ASSUME NEW x \in Messages, BackoffElapses(x) \/ TwoMinutesPass(x) \/ DeliveryReported(x), x # m
      PROVE  status'[m] = status[m] /\ (old'[m] <=> old[m])
  <2>1. /\ status' = status \/ status' = [status EXCEPT ![x] = "delivered"]
        /\ old' = old \/ old' = [old EXCEPT ![x] = TRUE]
    BY <1>4 DEF BackoffElapses, TwoMinutesPass, DeliveryReported
  <2>2. DOMAIN status = Messages /\ DOMAIN old = Messages
    BY DEF TypeOK, RowType
  <2>3. status'[m] = status[m]
    BY <1>4, <2>1, <2>2
  <2>4. old'[m] = old[m]
    BY <1>4, <2>1, <2>2
  <2> QED BY <2>3, <2>4
<1>5. CASE BackoffElapses(m) \/ CountUnfinished \/ UpdateCampaign
  BY <1>3, <1>5 DEF BackoffElapses, CountUnfinished, UpdateCampaign, rowVars
<1>6. HasOneLoop(m)'
  BY <1>2 DEF MessageInv, HasOneLoop
<1>7. CASE TwoMinutesPass(m)
  <2>1. ~Held(m) /\ status[m] = "processing" /\ UNCHANGED status
    BY <1>7 DEF TwoMinutesPass
  <2>2. IsYoung(m)'
    BY <1>2, <2>1 DEF IsYoung
  <2>3. TaskFits(m)'
    BY <1>1, <1>2, <2>1 DEF MessageInv, TaskFits, Running
  <2>4. CountsFit(m)'
    BY <1>1, <1>2, <2>1 DEF MessageInv, CountsFit, Logging
  <2> QED BY <1>6, <2>2, <2>3, <2>4 DEF MessageInv
<1>8. CASE DeliveryReported(m)
  <2>1. status[m] = "sent" /\ status'[m] = "delivered" /\ UNCHANGED old
    BY <1>8 DEF DeliveryReported, TypeOK, RowType
  <2>2. IsYoung(m)'
    BY <1>2, <2>1 DEF MessageInv, IsYoung
  <2>3. \A w \in Loops : ~Running(w, m) /\ ~Running(w, m)'
    BY <1>2, <2>1 DEF MessageInv, TaskFits, Running
  <2>4. TaskFits(m)'
    BY <2>3 DEF TaskFits, Running
  <2>5. CountsFit(m)'
    BY <1>1, <2>1, <2>3 DEF MessageInv, CountsFit, Running
  <2> QED BY <1>6, <2>2, <2>4, <2>5 DEF MessageInv
<1>9. CASE InsertMessages
  <2>1. PICK chunk \in SUBSET (Messages \ Inserted) :
          status' = [x \in Messages |-> IF x \in chunk THEN "queued" ELSE status[x]]
    BY <1>9 DEF InsertMessages
  <2>2. UNCHANGED old
    BY <1>9 DEF InsertMessages
  <2>3. CASE m \in chunk
    <3>1. status[m] = "none" /\ status'[m] = "queued"
      BY <2>1, <2>3 DEF Inserted
    <3>2. IsYoung(m)'
      BY <2>2, <3>1 DEF MessageInv, IsYoung
    <3>3. \A w \in Loops : ~Running(w, m) /\ ~Running(w, m)'
      BY <1>2, <3>1 DEF MessageInv, TaskFits, Running
    <3>4. TaskFits(m)'
      BY <3>3 DEF TaskFits, Running
    <3>5. CountsFit(m)'
      BY <1>1, <3>1, <3>3 DEF MessageInv, CountsFit, Running
    <3> QED BY <1>6, <3>2, <3>4, <3>5 DEF MessageInv
  <2>4. CASE m \notin chunk
    <3>1. status'[m] = status[m]
      BY <2>1, <2>4
    <3> QED BY <1>3, <2>2, <3>1
  <2> QED BY <2>3, <2>4
<1> QED BY <1>4, <1>3, <1>5, <1>7, <1>8, <1>9 DEF WorldStep

LEMMA CrashKeeps ==
  ASSUME TypeOK, NEW m \in Messages, MessageInv(m), Crash, m \notin excused'
  PROVE  MessageInv(m)'
<1>1. UNCHANGED <<rowVars, logs, sends>>
  BY DEF Crash
<1>2. \A w \in Loops : at'[w] = "find" /\ batch'[w] = {} /\ task'[w][m] = "none"
  BY DEF Crash, Idle
<1>3. \A w \in Loops : task[w][m] # "record" /\ ~Logging(w, m)
  BY DEF Crash, Logging
<1>4. IsYoung(m)'
  BY <1>1, <1>2 DEF MessageInv, IsYoung, Held, rowVars
<1>5. HasOneLoop(m)'
  BY <1>2 DEF HasOneLoop, Working
<1>6. TaskFits(m)'
  BY <1>2 DEF TaskFits, Running
<1>7. CountsFit(m)'
  BY <1>1, <1>2, <1>3 DEF MessageInv, CountsFit, Logging, rowVars
<1> QED BY <1>4, <1>5, <1>6, <1>7 DEF MessageInv

(* processMessage of one message is no matter of another. *)
LEMMA OthersKeep ==
  ASSUME TypeOK, NEW m \in Messages, MessageInv(m), NEW w \in Loops, NEW x \in Messages \ {m}, TaskStep(w, x)
  PROVE  MessageInv(m)'
<1>1. UNCHANGED <<at, batch, copy>>
  BY TaskStepFrame
<1>2. \A v \in Loops : task'[v][m] = task[v][m]
  <2>1. PICK label \in Labels \ {"none"} : TaskTo(w, x, label)
    BY TaskStepFrame
  <2> QED BY <2>1, TaskToIs
<1>3. /\ status'[m] = status[m] /\ (old'[m] <=> old[m]) /\ retryCount'[m] = retryCount[m]
      /\ logs'[m] = logs[m] /\ sends'[m] = sends[m]
  BY TaskStepFrame DEF TypeOK, RowType, WorldType
<1> QED BY <1>1, <1>2, <1>3, UnmovedKeeps DEF Unmoved, Held, Working

LEMMA MessageStep ==
  ASSUME TypeOK, [Next]_vars, NEW m \in Messages, MessageInv(m), m \notin excused'
  PROVE  MessageInv(m)'
<1>1. ASSUME NEW w \in Loops, LoopStep(w)
      PROVE  MessageInv(m)'
  BY <1>1, FindKeeps, LockKeeps, LoadKeeps, RequeueKeeps DEF LoopStep
<1>2. ASSUME NEW w \in Loops, NEW x \in Messages, TaskStep(w, x)
      PROVE  MessageInv(m)'
  BY <1>2, TaskKeeps, OthersKeep
<1>3. CASE UNCHANGED vars
  BY <1>3, UnmovedKeeps DEF Unmoved, Held, Working, vars, rowVars, loopVars
<1> QED BY <1>1, <1>2, <1>3, Steps, WorldKeeps, CrashKeeps

-----------------------------------------------------------------------------
(* What is settled stays settled.                                          *)

LEMMA SettledStays ==
  ASSUME TypeOK, [Next]_vars, NEW m \in Messages, MessageInv(m), Settled(m), m \notin excused'
  PROVE  Settled(m)'
<1>1. CASE status'[m] = status[m]
  BY <1>1 DEF Settled
<1>2. ASSUME NEW w \in Loops, LoopStep(w)
      PROVE  status'[m] = status[m]
  BY <1>2 DEF LoopStep, FindMessages, LockBatch, LoadBatch, RequeueStuck, Settled, rowVars
<1>3. ASSUME NEW w \in Loops, NEW x \in Messages, TaskStep(w, x), x # m
      PROVE  status'[m] = status[m]
  BY <1>3, TaskStepFrame DEF TypeOK, RowType
<1>4. ASSUME NEW w \in Loops, TaskStep(w, m)
      PROVE  Settled(m)'
  <2>1. CASE RetryLater(w, m)
    <3>1. Failing(w, m) /\ copy[w][m] < MaxRetry
      BY <2>1 DEF RetryLater
    <3>2. copy[w][m] = retryCount[m] /\ status[m] \in {"processing", "dead"}
      BY <3>1 DEF MessageInv, TaskFits, Failing, Running
    <3>3. retryCount[m] # MaxRetry
      <4>1. retryCount[m] < MaxRetry
        BY <3>1, <3>2
      <4> QED BY <4>1, WorkerAssumption
    <3>4. status[m] # "dead"
      BY <3>3 DEF MessageInv, CountsFit
    <3> QED BY <3>2, <3>4 DEF Settled
  <2>2. CASE RecordSent(w, m) \/ MoveToDead(w, m)
    BY <2>2 DEF RecordSent, MoveToDead, Settled, TypeOK, RowType
  <2>3. CASE SendMessage(w, m) \/ LogRejected(w, m) \/ LogDead(w, m)
    BY <1>1, <2>3 DEF SendMessage, LogRejected, LogDead, rowVars
  <2>4. CASE RecordFails(w, m)
    BY <2>4 DEF RecordFails
  <2>5. CASE FailureNotWritten(w, m)
    <3>1. status' = status \/ status' = [status EXCEPT ![m] = "dead"]
      BY <2>5 DEF FailureNotWritten, rowVars
    <3> QED BY <1>1, <3>1 DEF Settled, TypeOK, RowType
  <2> QED BY <1>4, <2>1, <2>2, <2>3, <2>4, <2>5 DEF TaskStep
<1>5. CASE WorldStep
  <2>1. ASSUME NEW x \in Messages, DeliveryReported(x)
        PROVE  Settled(m)'
    BY <2>1 DEF DeliveryReported, Settled, TypeOK, RowType
  <2>2. (\A x \in Messages : ~DeliveryReported(x)) => status'[m] = status[m]
    BY <1>5 DEF Settled, Inserted, WorldStep, BackoffElapses, TwoMinutesPass, InsertMessages, CountUnfinished, UpdateCampaign, rowVars
  <2> QED BY <1>1, <2>1, <2>2
<1>6. CASE Crash \/ UNCHANGED vars
  BY <1>1, <1>6 DEF Crash, vars, rowVars
<1> QED BY <1>1, <1>2, <1>3, <1>4, <1>5, <1>6, Steps

LEMMA StepInv == WorkerInv /\ [Next]_vars => WorkerInv'
<1> SUFFICES ASSUME WorkerInv, [Next]_vars PROVE WorkerInv'
  OBVIOUS
<1>1. /\ TypeOK /\ CompletedMeansSettled /\ VerdictHolds
      /\ \A m \in Messages \ excused : MessageInv(m)
  BY DEF WorkerInv
<1>2. TypeOK' /\ excused \subseteq excused'
  BY <1>1, TypeStep, ExcusedStay
<1>3. \A m \in Messages \ excused' : MessageInv(m)'
  BY <1>1, <1>2, MessageStep
<1>4. ASSUME NEW m \in Messages \ excused', Settled(m)
      PROVE  Settled(m)'
  BY <1>1, <1>2, <1>4, SettledStays
<1>5. counted \subseteq Messages
  BY <1>1 DEF TypeOK, WorldType, Inserted
<1>6. CompletedMeansSettled'
  BY <1>1, <1>2, <1>4, <1>5, VerdictMoves DEF CompletedMeansSettled, VerdictHolds
<1>7. Unfinished = {} => \A m \in Inserted : m \in Messages /\ Settled(m)
  BY DEF Inserted, Unfinished, Settled
<1>8. VerdictHolds'
  BY <1>1, <1>2, <1>4, <1>5, <1>7, VerdictMoves DEF VerdictHolds
<1> QED BY <1>2, <1>3, <1>6, <1>8 DEF WorkerInv

LEMMA InitInv == Init => WorkerInv
<1> SUFFICES ASSUME Init PROVE WorkerInv
  OBVIOUS
<1>1. TypeOK
  BY InitType
<1>2. ASSUME NEW m \in Messages
      PROVE  MessageInv(m)
  <2>1. \A w \in Loops : task[w][m] = "none" /\ batch[w] = {} /\ at[w] = "find"
    BY DEF Init, Idle
  <2>2. IsYoung(m) /\ HasOneLoop(m) /\ TaskFits(m)
    BY <2>1 DEF Init, IsYoung, HasOneLoop, TaskFits, Working, Running
  <2>3. /\ status[m] = "none" /\ sends[m] = 0 /\ logs[m] = 0 /\ retryCount[m] = 0
        /\ 0 <= MaxRetry
    BY WorkerAssumption DEF Init
  <2>4. CountsFit(m)
    BY <2>1, <2>3 DEF CountsFit
  <2> QED BY <2>2, <2>4 DEF MessageInv
<1>3. CompletedMeansSettled /\ VerdictHolds
  BY DEF Init, CompletedMeansSettled, VerdictHolds
<1> QED BY <1>1, <1>2, <1>3 DEF WorkerInv

(* The inductive invariant, from which the others follow. *)
THEOREM WorkerInvariant == Spec => []WorkerInv
BY InitInv, StepInv, PTL DEF Spec

(* MessageWorker sends a message at most once, unless another loop read it   *)
(* back as well or the outcome of its first send was lost: a rejection, a    *)
(* retry or a requeued row is no reason.                                     *)
THEOREM NoRepeat == Spec => []RepeatHasReason
<1>1. WorkerInv => RepeatHasReason
  <2>1. \A m \in Messages : MessageInv(m) => sends[m] <= 1
    BY DEF MessageInv, CountsFit
  <2> QED BY <2>1 DEF WorkerInv, RepeatHasReason
<1> QED BY <1>1, WorkerInvariant, PTL

(* failMessage gives a message up only after all its retries and without a   *)
(* send that Meta took, and logs it once, although its updates may be made   *)
(* without an answer and it always runs twice for such a message.            *)
THEOREM DeadIsUnsent == Spec => []DeadMeansUnsent
<1>1. WorkerInv => DeadMeansUnsent
  <2>1. ASSUME NEW m \in Messages, MessageInv(m), status[m] = "dead"
        PROVE  /\ sends[m] = 0 /\ retryCount[m] = MaxRetry
               /\ logs[m] = IF \E w \in Loops : Logging(w, m) THEN 0 ELSE 1
    <3>1. \A w \in Loops : task[w][m] # "record"
      BY <2>1 DEF MessageInv, TaskFits
    <3> QED BY <2>1, <3>1 DEF MessageInv, CountsFit
  <2> QED BY <2>1 DEF WorkerInv, DeadMeansUnsent
<1> QED BY <1>1, WorkerInvariant, PTL

(* What CampaignWorker found settled at its count is settled when it         *)
(* completes the campaign and ever after.                                    *)
THEOREM CompletedIsSettled == Spec => []CompletedMeansSettled
<1>1. WorkerInv => CompletedMeansSettled
  BY DEF WorkerInv
<1> QED BY <1>1, WorkerInvariant, PTL
=============================================================================
