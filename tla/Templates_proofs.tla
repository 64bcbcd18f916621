--------------------------- MODULE Templates_proofs ---------------------------
(* Theorems of Templates, for every set of names, contents, rows, requests, *)
(* jobs, workers and readers, every kind of failure and every bound.        *)
EXTENDS Templates, TLAPS

-----------------------------------------------------------------------------
(* Rows and what is written to them.                                        *)

(* A name tells a row from what is no row. *)
LEMMA RowFacts ==
  ASSUME RowsType, NEW i \in Ids
  PROVE  /\ rows[i].name \in Names => rows[i] \in RowType
         /\ rows[i] \in RowType => rows[i].name \in Names /\ rows[i] # NoRow /\ rows[i] # Gone
         /\ rows[i].name = "gone" <=> rows[i] = Gone
         /\ rows[i].name = "none" <=> rows[i] = NoRow
         /\ NoRow # Gone
<1>1. NoRow.name = "none" /\ Gone.name = "gone" /\ "none" \notin Names /\ "gone" \notin Names
  BY TemplatesAssumption DEF NoRow, Gone
<1>2. rows[i] \in RowType => rows[i].name \in Names
  BY DEF RowType
<1> QED BY <1>1, <1>2 DEF RowsType

LEMMA NewIdIsFree ==
  ASSUME NewIds # {}
  PROVE  NewId \in Ids /\ rows[NewId] = NoRow
BY DEF NewId, NewIds

(* One row is written, and its name is nobody else's. *)
LEMMA RowWritten ==
  ASSUME RowsType, NEW i \in Ids, NEW r, rows' = [rows EXCEPT ![i] = r],
         \/ r = Gone
         \/ r \in RowType /\ \A k \in Ids : rows[k].name = r.name => k = i
  PROVE  RowsType'
<1>1. rows' \in [Ids -> RowType \cup {NoRow, Gone}]
  BY DEF RowsType
<1>2. r = Gone => r.name \notin Names
  BY TemplatesAssumption DEF Gone
<1>3. ASSUME NEW k \in Ids, NEW l \in Ids, rows'[k].name \in Names, rows'[l].name = rows'[k].name
      PROVE  l = k
  <2>1. (rows'[k] = IF k = i THEN r ELSE rows[k]) /\ (rows'[l] = IF l = i THEN r ELSE rows[l])
    BY DEF RowsType
  <2> QED BY <1>2, <1>3, <2>1 DEF RowsType
<1> QED BY <1>1, <1>3 DEF RowsType

(* A row that keeps its name. *)
LEMMA RowKept ==
  ASSUME RowsType, NEW i \in Ids, NEW r \in RowType, rows[i].name = r.name,
         rows' = [rows EXCEPT ![i] = r]
  PROVE  RowsType'
<1>1. r.name \in Names
  BY DEF RowType
<1>2. \A k \in Ids : rows[k].name = r.name => k = i
  BY <1>1 DEF RowsType
<1> QED BY <1>2, RowWritten

(* The name of a new row is free. *)
LEMMA RowInserted ==
  ASSUME RowsType, NEW r \in RowType, RowsOf(r.name) = {}, Insert(r)
  PROVE  RowsType' /\ NewId \in Ids /\ rows[NewId] = NoRow /\ rows' = [rows EXCEPT ![NewId] = r]
<1>1. NewId \in Ids /\ rows[NewId] = NoRow /\ rows' = [rows EXCEPT ![NewId] = r]
  BY NewIdIsFree DEF Insert
<1>2. \A k \in Ids : rows[k].name # r.name
  BY DEF RowsOf
<1> QED BY <1>1, <1>2, RowWritten

-----------------------------------------------------------------------------
(* Type correctness.                                                        *)

LEMMA UnchangedTypes ==
  ASSUME TypeOK
  PROVE  /\ UNCHANGED queueVars => QueueType'
         /\ UNCHANGED rows => RowsType'
         /\ UNCHANGED <<metaVars, processed>> => EventType'
         /\ UNCHANGED workerVars => RunType'
         /\ UNCHANGED <<slotVars, faults>> => SlotType'
         /\ UNCHANGED cacheVars => CacheType'
         /\ UNCHANGED histVars => HistType'
<1> USE DEF TypeOK
<1>1. UNCHANGED queueVars => QueueType'
  BY DEF QueueType, queueVars
<1>2. UNCHANGED rows => RowsType'
  BY DEF RowsType
<1>3. UNCHANGED <<metaVars, processed>> => EventType'
  BY DEF EventType, metaVars
<1>4. UNCHANGED workerVars => RunType'
  BY DEF RunType, workerVars
<1>5. UNCHANGED <<slotVars, faults>> => SlotType'
  BY DEF SlotType, slotVars
<1>6. UNCHANGED cacheVars => CacheType'
  BY DEF CacheType, cacheVars
<1>7. UNCHANGED histVars => HistType'
  BY DEF HistType, histVars
<1> QED BY <1>1, <1>2, <1>3, <1>4, <1>5, <1>6, <1>7

LEMMA FaultType ==
  ASSUME TypeOK, NEW kind, Fault(kind)
  PROVE  faults' \in Nat
BY DEF TypeOK, SlotType, Fault

(* What history keeps. *)
LEMMA HistoryTypes ==
  ASSUME HistType
  PROVE  /\ \A n \in Names : \A st, ts : Marked(n, st, ts) => astray' \subseteq Names
         /\ Reviewed => astray' \subseteq Names
         /\ \A i \in Ids : Outdated(i) => behind' \subseteq Ids
         /\ \A j \in Jobs : decisions[j].name \in Names /\ Forgotten(j) => astray' \subseteq Names
BY DEF HistType, Marked, Reviewed, Outdated, Forgotten

-----------------------------------------------------------------------------
(* What Meta does.                                                          *)

(* Meta has a template under review that it did not have, or had otherwise. *)
LEMMA MetaTypes ==
  ASSUME EventType, UNCHANGED <<clock, decisions, processed>>,
         NEW n \in Names, NEW c \in Contents \cup {"none"},
         meta' = meta \/ meta' = [meta EXCEPT ![n] = [status |-> "PENDING", content |-> c]]
  PROVE  EventType' /\ \A k \in Names : meta[k].status # "none" => meta'[k].status # "none"
<1>1. [status |-> "PENDING", content |-> c] \in MetaType
  BY DEF MetaType
<1>2. \A k \in Names : meta[k].status # "none" => meta'[k].status # "none"
  BY DEF EventType
<1> QED BY <1>1, <1>2 DEF EventType

LEMMA SubmitIs ==
  ASSUME TypeOK, NEW s \in Slots, SubmitTemplate(s)
  PROVE  /\ pc[s] = "submit" /\ mem[s] \in [id : Ids, row : RowType]
         /\ \/ meta' = meta
            \/ meta' = [meta EXCEPT ![mem[s].row.name] = [status |-> "PENDING", content |-> mem[s].row.content]]
         /\ \/ Answered(s)
            \/ /\ Goto(s, "saveId") /\ mem' = [mem EXCEPT ![s] = Known(s, MetaId(mem[s].row.name))]
               /\ meta'[mem[s].row.name].status # "none"
         /\ faults' \in {faults, faults + 1}
<1>1. pc[s] = "submit" /\ mem[s] \in [id : Ids, row : RowType]
  BY DEF SubmitTemplate, TypeOK, SlotType, MemFits
<1>2. mem[s].row.name \in Names
  BY <1>1 DEF RowType
<1>3. meta' = [meta EXCEPT ![mem[s].row.name] = [status |-> "PENDING", content |-> mem[s].row.content]]
        => meta'[mem[s].row.name].status # "none"
  BY <1>2 DEF TypeOK, EventType
<1> QED BY <1>1, <1>3 DEF SubmitTemplate, SubmitAtMeta, Fault

LEMMA TargetIsName ==
  ASSUME NEW row \in RowType
  PROVE  EditTarget(row) \in Names
<1>1. NoId.by # "id"
  BY DEF NoId
<1> QED BY <1>1 DEF RowType, EditTarget

LEMMA ChangeIs ==
  ASSUME TypeOK, NEW s \in Slots, ChangeAtMeta(s)
  PROVE  /\ pc[s] = "change" /\ mem[s] \in [id : Ids, old : Names, row : RowType]
         /\ \/ meta' = meta
            \/ \E t \in Names :
                 meta' = [meta EXCEPT ![t] = [status |-> "PENDING", content |-> mem[s].row.content]]
         /\ \/ Answered(s)
            \/ /\ Goto(s, "saveId")
               /\ \/ mem' = [mem EXCEPT ![s] = Known(s, mem[s].row.provider)]
                  \/ /\ mem' = [mem EXCEPT ![s] = Known(s, MetaId(mem[s].row.name))]
                     /\ meta'[mem[s].row.name].status # "none"
         /\ faults' \in {faults, faults + 1}
<1> DEFINE row == mem[s].row
           review(t) == meta' = [meta EXCEPT ![t] = [status |-> "PENDING", content |-> row.content]]
<1>1. pc[s] = "change" /\ mem[s] \in [id : Ids, old : Names, row : RowType]
  BY DEF ChangeAtMeta, TypeOK, SlotType, MemFits
<1>2. row.name \in Names /\ EditTarget(row) \in Names
  BY <1>1, TargetIsName DEF RowType
<1>3. review(row.name) => meta'[row.name].status # "none"
  BY <1>2 DEF TypeOK, EventType
<1>4. CASE mem[s].old # row.name
  BY <1>1, <1>2, <1>3, <1>4 DEF ChangeAtMeta, SubmitAtMeta, Fault
<1>5. CASE mem[s].old = row.name /\ meta[EditTarget(row)].status = "none"
  BY <1>1, <1>2, <1>3, <1>5 DEF ChangeAtMeta, EditAtMeta, SubmitAtMeta, Fault
<1>6. CASE mem[s].old = row.name /\ meta[EditTarget(row)].status # "none"
  BY <1>1, <1>2, <1>6 DEF ChangeAtMeta, EditAtMeta, Fault
<1> QED BY <1>4, <1>5, <1>6

LEMMA PushIs ==
  ASSUME TypeOK, NEW s \in Slots, PushPending(s)
  PROVE  /\ pc[s] = "push" /\ mem[s] \in [todo : SUBSET [id : Ids, row : RowType]]
         /\ \E t \in mem[s].todo :
              /\ t \in [id : Ids, row : RowType]
              /\ mem' = [mem EXCEPT ![s] = [todo |-> mem[s].todo \ {t}]]
              /\ \/ meta' = meta
                 \/ meta' = [meta EXCEPT ![t.row.name] = [status |-> "PENDING", content |-> t.row.content]]
              /\ \/ UNCHANGED <<rows, behind>>
                 \/ /\ rows[t.id] # Gone /\ Outdated(t.id)
                    /\ rows' = [rows EXCEPT ![t.id].provider = MetaName(t.row.name)]
                    /\ meta'[t.row.name].status # "none"
         /\ faults' \in {faults, faults + 1}
<1>1. pc[s] = "push" /\ mem[s] \in [todo : SUBSET [id : Ids, row : RowType]]
  BY DEF PushPending, TypeOK, SlotType, MemFits
<1>2. ASSUME NEW t \in mem[s].todo
      PROVE  /\ t \in [id : Ids, row : RowType] /\ t.row.name \in Names
             /\ meta' = [meta EXCEPT ![t.row.name] = [status |-> "PENDING", content |-> t.row.content]]
                  => meta'[t.row.name].status # "none"
  <2>1. t \in [id : Ids, row : RowType]
    BY <1>1
  <2>2. t.row.name \in Names
    BY <2>1 DEF RowType
  <2> QED BY <2>1, <2>2 DEF TypeOK, EventType
<1>3. PICK t \in mem[s].todo :
        /\ SubmitAtMeta(t.row.name, t.row.content,
             \/ UNCHANGED <<rows, behind>>
             \/ /\ rows[t.id] # Gone
                /\ rows' = [rows EXCEPT ![t.id].provider = MetaName(t.row.name)]
                /\ Outdated(t.id),
             UNCHANGED <<rows, behind>>)
        /\ mem' = [mem EXCEPT ![s] = [todo |-> @.todo \ {t}]]
  BY DEF PushPending
<1>4. mem' = [mem EXCEPT ![s] = [todo |-> mem[s].todo \ {t}]]
  BY <1>3
<1> QED BY <1>1, <1>2, <1>3, <1>4 DEF SubmitAtMeta, Fault

-----------------------------------------------------------------------------
(* The steps that write rows keep them rows.                                *)

LEMMA ProviderTypes ==
  ASSUME RowsType, NEW i \in Ids, rows[i] # NoRow, rows[i] # Gone,
         NEW id \in {NoId} \cup [by : {"id", "name"}, of : Names],
         rows' = [rows EXCEPT ![i].provider = id]
  PROVE  /\ RowsType' /\ [rows[i] EXCEPT !.provider = id] \in RowType
         /\ rows' = [rows EXCEPT ![i] = [rows[i] EXCEPT !.provider = id]]
<1>1. rows[i] \in RowType
  BY DEF RowsType
<1>2. [rows[i] EXCEPT !.provider = id] \in RowType /\ [rows[i] EXCEPT !.provider = id].name = rows[i].name
  BY <1>1 DEF RowType
<1>3. rows' = [rows EXCEPT ![i] = [rows[i] EXCEPT !.provider = id]]
  BY DEF RowsType
<1> HIDE DEF RowType
<1> QED BY <1>2, <1>3, RowKept

LEMMA InsertIs ==
  ASSUME TypeOK, NEW s \in Slots, InsertTemplate(s)
  PROVE  /\ pc[s] = "insert" /\ mem[s] \in [row : RowType]
         /\ \/ /\ RowsOf(mem[s].row.name) = {} /\ Insert(mem[s].row) /\ RowsType'
               /\ NewId \in Ids /\ rows[NewId] = NoRow /\ rows' = [rows EXCEPT ![NewId] = mem[s].row]
               /\ \/ Answered(s)
                  \/ Goto(s, "submit") /\ mem' = [mem EXCEPT ![s] = [id |-> NewId, row |-> mem[s].row]]
               /\ Marked(mem[s].row.name, mem[s].row.status, mem[s].row.ts)
            \/ Answered(s) /\ UNCHANGED <<rows, astray>>
         /\ faults' \in {faults, faults + 1}
<1>1. pc[s] = "insert" /\ mem[s] \in [row : RowType]
  BY DEF InsertTemplate, TypeOK, SlotType, MemFits
<1>2. RowsOf(mem[s].row.name) = {} /\ Insert(mem[s].row) =>
        /\ NewId \in Ids /\ rows[NewId] = NoRow /\ rows' = [rows EXCEPT ![NewId] = mem[s].row]
        /\ RowsType'
  BY <1>1, RowInserted DEF TypeOK
<1> QED BY <1>1, <1>2 DEF InsertTemplate, Fault

LEMMA SaveIs ==
  ASSUME TypeOK, NEW s \in Slots, SaveProviderId(s)
  PROVE  /\ pc[s] = "saveId" /\ mem[s] \in [id : Ids, row : RowType]
         /\ \/ UNCHANGED rows
            \/ /\ rows[mem[s].id] \in RowType /\ mem[s].row.provider # NoId /\ RowsType'
               /\ rows' = [rows EXCEPT ![mem[s].id] = [rows[mem[s].id] EXCEPT !.provider = mem[s].row.provider]]
               /\ [rows[mem[s].id] EXCEPT !.provider = mem[s].row.provider] \in RowType
         /\ faults' \in {faults, faults + 1}
         /\ Outdated(mem[s].id) /\ Answered(s)
<1>1. pc[s] = "saveId" /\ mem[s] \in [id : Ids, row : RowType]
  BY DEF SaveProviderId, TypeOK, SlotType, MemFits
<1>2. rows[mem[s].id] # NoRow
  BY <1>1 DEF TypeOK, RowsKnown
<1>3. mem[s].row.provider \in {NoId} \cup [by : {"id", "name"}, of : Names]
  BY <1>1 DEF RowType
<1>4. rows[mem[s].id] # Gone => rows[mem[s].id] \in RowType
  BY <1>1, <1>2 DEF TypeOK, RowsType
<1>5. rows[mem[s].id] # Gone /\ rows' = [rows EXCEPT ![mem[s].id].provider = mem[s].row.provider] =>
        /\ RowsType' /\ [rows[mem[s].id] EXCEPT !.provider = mem[s].row.provider] \in RowType
        /\ rows' = [rows EXCEPT ![mem[s].id] = [rows[mem[s].id] EXCEPT !.provider = mem[s].row.provider]]
  BY <1>1, <1>2, <1>3, ProviderTypes DEF TypeOK
<1> QED BY <1>1, <1>4, <1>5 DEF SaveProviderId, Fault

LEMMA WriteIs ==
  ASSUME TypeOK, NEW s \in Slots, WriteUpdate(s)
  PROVE  /\ pc[s] = "write" /\ mem[s] \in [id : Ids, old : Names, row : RowType]
         /\ \/ \E r \in RowType, i \in Ids :
                 /\ i = mem[s].id /\ rows[i] \in RowType /\ RowsType'
                 /\ r.name = mem[s].row.name /\ r.status = mem[s].row.status
                 /\ r.ts = rows[i].ts /\ r.provider = rows[i].provider
                 /\ \A k \in Ids : rows[k].name = r.name => k = i
                 /\ rows' = [rows EXCEPT ![i] = r]
                 /\ \/ Answered(s)
                    \/ /\ Goto(s, "change")
                       /\ mem' = [mem EXCEPT ![s] = [id |-> i, old |-> mem[s].old, row |-> r]]
                 /\ Marked(r.name, r.status, r.ts)
                 /\ renamed' = IF r.name = rows[i].name THEN renamed ELSE renamed \cup {i}
                 /\ Outdated(i)
            \/ Answered(s) /\ UNCHANGED <<rows, histVars>>
         /\ faults' \in {faults, faults + 1}
<1> DEFINE i == mem[s].id
           new == mem[s].row
           r == [rows[i] EXCEPT !.name = new.name, !.content = new.content, !.status = new.status]
<1>1. pc[s] = "write" /\ mem[s] \in [id : Ids, old : Names, row : RowType]
  BY DEF WriteUpdate, TypeOK, SlotType, MemFits
<1>2. rows[i] # NoRow /\ new \in RowType /\ i \in Ids
  BY <1>1 DEF TypeOK, RowsKnown
<1>3. CASE Answered(s) /\ UNCHANGED <<rows, histVars>> /\ faults' \in {faults, faults + 1}
  BY <1>1, <1>3
<1>4. CASE /\ rows[i] # Gone /\ RowsOf(new.name) \subseteq {i}
           /\ rows' = [rows EXCEPT ![i] = r]
           /\ IF r.status = "DRAFT" THEN Answered(s)
              ELSE Goto(s, "change") /\ mem' = [mem EXCEPT ![s] = [id |-> i, old |-> mem[s].old, row |-> r]]
           /\ Marked(new.name, new.status, rows[i].ts)
           /\ renamed' = IF new.name = rows[i].name THEN renamed ELSE renamed \cup {i}
           /\ Outdated(i)
           /\ UNCHANGED faults
  <2>1. rows[i] \in RowType
    BY <1>2, <1>4 DEF TypeOK, RowsType
  <2>2. /\ r \in RowType /\ r.name = new.name /\ r.status = new.status
        /\ r.ts = rows[i].ts /\ r.provider = rows[i].provider
    BY <1>2, <2>1 DEF RowType
  <2> HIDE DEF r
  <2>3. \A k \in Ids : rows[k].name = r.name => k = i
    BY <1>4, <2>2 DEF RowsOf
  <2>4. RowsType'
    BY <1>2, <1>4, <2>2, <2>3, RowWritten DEF TypeOK
  <2> QED BY <1>1, <1>2, <1>4, <2>1, <2>2, <2>3, <2>4
<1> QED BY <1>3, <1>4 DEF WriteUpdate, Fault

LEMMA UpsertIs ==
  ASSUME TypeOK, NEW s \in Slots, UpsertPulled(s)
  PROVE  /\ pc[s] = "upsert"
         /\ mem[s] \in [fetched : [Names -> MetaType], todo : SUBSET Names, name : Names, ts : Nat]
         /\ \/ \E r \in RowType, i \in Ids :
                 /\ r.name = mem[s].name /\ rows[i].name \in {r.name, "none"}
                 /\ \A k \in Ids : rows[k].name = r.name => k = i
                 /\ rows' = [rows EXCEPT ![i] = r] /\ RowsType'
                 /\ Marked(r.name, r.status, r.ts)
                 /\ Goto(s, IF rows' = rows THEN "pull" ELSE "clear")
                 /\ UNCHANGED mem
            \/ Answered(s) /\ UNCHANGED <<rows, astray>>
         /\ faults' \in {faults, faults + 1}
<1> DEFINE n == mem[s].name
           m == mem[s].fetched[n]
           r == [name |-> n, status |-> m.status, provider |-> MetaName(n), content |-> m.content, ts |-> mem[s].ts]
<1>1. /\ pc[s] = "upsert"
      /\ mem[s] \in [fetched : [Names -> MetaType], todo : SUBSET Names, name : Names, ts : Nat]
      /\ m.status # "none"
  BY DEF UpsertPulled, TypeOK, SlotType, MemFits, Existing
<1>2. m.status \in Statuses /\ m.content \in Contents \cup {"none"} /\ n \in Names /\ mem[s].ts \in Nat
  <2>1. m \in MetaType /\ m.status # "none"
    BY <1>1
  <2>2. m \in [status : {"PENDING", "APPROVED", "REJECTED"}, content : Contents \cup {"none"}]
    BY <2>1 DEF MetaType
  <2> QED BY <1>1, <2>2 DEF Statuses
<1>3. r \in RowType /\ r.name = n /\ r.status = m.status /\ r.ts = mem[s].ts
  BY <1>2 DEF RowType, MetaName
<1> HIDE DEF r
<1>4. CASE Answered(s) /\ UNCHANGED <<rows, astray>> /\ faults' \in {faults, faults + 1}
  BY <1>1, <1>4
<1>5. CASE /\ \/ RowsOf(n) = {} /\ Insert(r)
              \/ \E i \in RowsOf(n) : rows' = [rows EXCEPT ![i] = r]
           /\ Marked(n, m.status, r.ts)
           /\ Goto(s, IF rows' = rows THEN "pull" ELSE "clear")
           /\ UNCHANGED <<mem, faults>>
  <2>1. ASSUME RowsOf(n) = {}, Insert(r)
        PROVE  \E l \in Ids :
                 /\ rows[l].name \in {r.name, "none"} /\ \A k \in Ids : rows[k].name = r.name => k = l
                 /\ rows' = [rows EXCEPT ![l] = r] /\ RowsType'
    <3>1. RowsType' /\ NewId \in Ids /\ rows[NewId] = NoRow /\ rows' = [rows EXCEPT ![NewId] = r]
      BY <1>3, <2>1, RowInserted DEF TypeOK
    <3>2. \A k \in Ids : rows[k].name # n
      BY <2>1 DEF RowsOf
    <3>3. rows[NewId].name = "none"
      BY <3>1 DEF NoRow
    <3> QED BY <1>3, <3>1, <3>2, <3>3
  <2>2. ASSUME NEW i \in RowsOf(n), rows' = [rows EXCEPT ![i] = r]
        PROVE  \E l \in Ids :
                 /\ rows[l].name \in {r.name, "none"} /\ \A k \in Ids : rows[k].name = r.name => k = l
                 /\ rows' = [rows EXCEPT ![l] = r] /\ RowsType'
    <3>1. i \in Ids /\ rows[i].name = n
      BY DEF RowsOf
    <3>2. RowsType' /\ \A k \in Ids : rows[k].name = r.name => k = i
      BY <1>2, <1>3, <2>2, <3>1, RowKept DEF TypeOK, RowsType
    <3> QED BY <1>3, <2>2, <3>1, <3>2
  <2>3. PICK l \in Ids :
          /\ rows[l].name \in {r.name, "none"} /\ \A k \in Ids : rows[k].name = r.name => k = l
          /\ rows' = [rows EXCEPT ![l] = r] /\ RowsType'
    BY <1>5, <2>1, <2>2
  <2> QED BY <1>1, <1>3, <1>5, <2>3
<1> QED BY <1>4, <1>5 DEF UpsertPulled, Fault, r

LEMMA DeleteIs ==
  ASSUME TypeOK, NEW s \in Slots, DeleteTemplate(s)
  PROVE  \E i \in Ids : /\ rows[i] \in RowType /\ rows' = [rows EXCEPT ![i] = Gone]
                        /\ Outdated(i) /\ RowsType'
<1>1. PICK i \in Ids : /\ rows[i].name \in Names /\ rows' = [rows EXCEPT ![i] = Gone] /\ Outdated(i)
  BY DEF DeleteTemplate
<1>2. rows[i] \in RowType /\ RowsType'
  BY <1>1, RowFacts, RowWritten DEF TypeOK
<1> QED BY <1>1, <1>2

(* The run of a worker has a decision. *)
LEMMA RunHasDecision ==
  ASSUME TypeOK, NEW w \in Workers, wpc[w] # "idle"
  PROVE  cur[w] \in Jobs /\ jobState[cur[w]] # "none" /\ decisions[cur[w]] \in Decision
BY DEF TypeOK, RunType, JobsKnown, EventType

LEMMA ApplyIs ==
  ASSUME TypeOK, NEW w \in Workers, ApplyEvent(w)
  PROVE  /\ wpc[w] = "apply" /\ cur[w] \in Jobs /\ decisions[cur[w]] \in Decision
         /\ \/ \E r \in RowType, i \in Ids :
                 /\ rows[i] \in RowType /\ r.name = rows[i].name /\ rows[i].ts < r.ts
                 /\ r.name = decisions[cur[w]].name /\ r.status = decisions[cur[w]].status
                 /\ r.ts = decisions[cur[w]].ts /\ r.provider = rows[i].provider
                 /\ rows' = [rows EXCEPT ![i] = r] /\ RowsType'
                 /\ astray' = IF r.status = meta[r.name].status /\ ~ Late(r.name, r.ts)
                              THEN astray \ {r.name} ELSE astray
                 /\ Outdated(i) /\ WGoto(w, "complete") /\ UNCHANGED faults
            \/ \E r \in RowType, i \in Ids :
                 /\ rows[i] = NoRow /\ \A k \in Ids : rows[k].name # r.name
                 /\ r.name = decisions[cur[w]].name /\ r.status = decisions[cur[w]].status
                 /\ r.ts = decisions[cur[w]].ts /\ r.provider = NoId
                 /\ rows' = [rows EXCEPT ![i] = r] /\ RowsType'
                 /\ Marked(r.name, r.status, r.ts)
                 /\ WGoto(w, "complete") /\ UNCHANGED <<behind, faults>>
            \/ WGoto(w, "threw") /\ UNCHANGED <<rows, astray, behind>>
            \/ Forgotten(cur[w]) /\ WGoto(w, "complete") /\ UNCHANGED <<rows, behind>>
         /\ faults' \in {faults, faults + 1}
<1> DEFINE d == decisions[cur[w]]
           new == [name |-> d.name, status |-> d.status, provider |-> NoId, content |-> "none", ts |-> d.ts]
<1>1. wpc[w] = "apply" /\ cur[w] \in Jobs /\ d \in Decision
  BY RunHasDecision DEF ApplyEvent
<1>2. CASE \E i \in {k \in RowsOf(d.name) : rows[k].ts < d.ts} :
             /\ rows' = [rows EXCEPT ![i].status = d.status, ![i].ts = d.ts]
             /\ astray' = IF d.status = meta[d.name].status /\ ~ Late(d.name, d.ts)
                          THEN astray \ {d.name} ELSE astray
             /\ Outdated(i)
             /\ WGoto(w, "complete") /\ UNCHANGED faults
  <2>1. PICK i \in Ids :
             /\ rows[i].name = d.name /\ rows[i].ts < d.ts
             /\ rows' = [rows EXCEPT ![i].status = d.status, ![i].ts = d.ts]
             /\ astray' = IF d.status = meta[d.name].status /\ ~ Late(d.name, d.ts)
                          THEN astray \ {d.name} ELSE astray
             /\ Outdated(i)
             /\ WGoto(w, "complete") /\ UNCHANGED faults
    BY <1>2 DEF RowsOf
  <2> DEFINE r == [rows[i] EXCEPT !.status = d.status, !.ts = d.ts]
  <2>2. rows[i] \in RowType
    BY <1>1, <2>1, RowFacts DEF TypeOK, Decision
  <2>3. /\ r \in RowType /\ r.name = d.name /\ r.status = d.status /\ r.ts = d.ts
        /\ r.provider = rows[i].provider
    BY <1>1, <2>1, <2>2 DEF RowType, Decision, Statuses
  <2>4. rows' = [rows EXCEPT ![i] = r]
    BY <2>1 DEF TypeOK, RowsType
  <2> HIDE DEF r
  <2>5. RowsType'
    BY <2>1, <2>3, <2>4, RowKept DEF TypeOK
  <2> QED BY <1>1, <2>1, <2>2, <2>3, <2>4, <2>5
<1>3. CASE /\ RowsOf(d.name) = {} /\ Insert(new)
           /\ Marked(d.name, d.status, d.ts)
           /\ WGoto(w, "complete") /\ UNCHANGED <<behind, faults>>
  <2>1. /\ new \in RowType /\ new.name = d.name /\ new.status = d.status /\ new.ts = d.ts
        /\ new.provider = NoId
    BY <1>1 DEF RowType, Decision, Statuses
  <2> HIDE DEF new
  <2>2. RowsType' /\ NewId \in Ids /\ rows[NewId] = NoRow /\ rows' = [rows EXCEPT ![NewId] = new]
    BY <1>3, <2>1, RowInserted DEF TypeOK
  <2>3. \A k \in Ids : rows[k].name # d.name
    BY <1>3 DEF RowsOf
  <2> QED BY <1>1, <1>3, <2>1, <2>2, <2>3
<1>4. CASE /\ faults' \in {faults, faults + 1}
           /\ \/ WGoto(w, "threw") /\ UNCHANGED <<rows, astray, behind>>
              \/ Forgotten(cur[w]) /\ WGoto(w, "complete") /\ UNCHANGED <<rows, behind>>
  BY <1>1, <1>4
<1> QED BY <1>2, <1>3, <1>4 DEF ApplyEvent, Fault

-----------------------------------------------------------------------------
(* Which steps there are.                                                   *)

(* Steps of requests, of jobs and of senders. *)
RequestMove == \E s \in Slots :
  \/ CreateTemplate(s) \/ UpdateTemplate(s) \/ DeleteTemplate(s) \/ SyncTemplates(s)
  \/ SlotStep(s) \/ Crash(s)
JobMove ==
  \/ \E j \in Jobs : DecideAgain(j) \/ BackoffElapsed(j) \/ RecoverOrphan(j) \/ ReplayJob(j)
  \/ \E w \in Workers : TakeEvent(w) \/ RecordEvent(w) \/ EndJob(w) \/ CrashWorker(w)
SenderMove ==
  (\E p \in Readers, i \in Ids : FetchRow(p, i)) \/ (\E p \in Readers : StoreRow(p))
  \/ (\E i \in Ids : ExpireEntry(i))

LEMMA Moves ==
  Next <=> \/ RequestMove \/ JobMove \/ SenderMove
           \/ \E j \in Jobs : Decide(j)
           \/ \E w \in Workers : ApplyEvent(w)
BY DEF Next, RequestMove, JobMove, SenderMove

(* Jobs and senders leave the rows and the requests alone. *)
LEMMA JobMoveLeaves ==
  ASSUME JobMove
  PROVE  UNCHANGED <<rows, metaVars, slotVars, cacheVars, behind, renamed>>
BY DEF JobMove, DecideAgain, BackoffElapsed, RecoverOrphan, ReplayJob, TakeEvent, RecordEvent,
   EndJob, CrashWorker, histVars

LEMMA SenderMoveLeaves ==
  ASSUME SenderMove
  PROVE  UNCHANGED <<rows, metaVars, processed, workerVars, queueVars, slotVars, astray, renamed>>
BY DEF SenderMove, FetchRow, StoreRow, ExpireEntry, histVars

LEMMA RequestMoveLeaves ==
  ASSUME RequestMove
  PROVE  UNCHANGED <<clock, decisions, processed, workerVars, queueVars, reading>>
BY DEF RequestMove, CreateTemplate, UpdateTemplate, DeleteTemplate, SyncTemplates, SlotStep, Crash,
   InsertTemplate, SubmitTemplate, SaveProviderId, WriteUpdate, ChangeAtMeta, PushPending,
   FetchTemplates, PullNext, UpsertPulled, ClearCache, metaVars, cacheVars

(* The steps of a request that leave the rows alone. *)
LEMMA RequestLeavesRows ==
  ASSUME NEW s \in Slots,
         \/ CreateTemplate(s) \/ UpdateTemplate(s) \/ SyncTemplates(s) \/ SubmitTemplate(s)
         \/ ChangeAtMeta(s) \/ FetchTemplates(s) \/ PullNext(s) \/ ClearCache(s) \/ Crash(s)
  PROVE  UNCHANGED <<rows, renamed>>
BY DEF CreateTemplate, UpdateTemplate, SyncTemplates, SubmitTemplate, ChangeAtMeta, FetchTemplates,
   PullNext, ClearCache, Crash, histVars

-----------------------------------------------------------------------------
(* A row is inserted once, keeps its name unless an update renames it, and  *)
(* does not come back when it is gone.                                      *)

RowMoves(i) ==
  \/ rows'[i] = rows[i]
  \/ rows[i] = NoRow /\ rows'[i] \in RowType
  \/ rows[i] \in RowType /\ rows'[i] = Gone
  \/ rows[i] \in RowType /\ rows'[i] \in RowType /\ (rows'[i].name = rows[i].name \/ i \in renamed')

LEMMA OneRowMoves ==
  ASSUME RowsType, NEW i \in Ids, NEW r, rows' = [rows EXCEPT ![i] = r],
         \/ rows[i] = NoRow /\ r \in RowType
         \/ rows[i] \in RowType /\ r = Gone
         \/ rows[i] \in RowType /\ r \in RowType /\ (r.name = rows[i].name \/ i \in renamed')
  PROVE  \A k \in Ids : RowMoves(k)
<1>1. rows'[i] = r /\ \A k \in Ids \ {i} : rows'[k] = rows[k]
  BY DEF RowsType
<1> QED BY <1>1 DEF RowMoves

LEMMA RowsMove ==
  ASSUME TypeOK, [Next]_vars
  PROVE  RowsType' /\ renamed \subseteq renamed' /\ \A i \in Ids : RowMoves(i)
<1>1. CASE UNCHANGED <<rows, renamed>>
  BY <1>1, UnchangedTypes DEF RowMoves
<1>2. ASSUME NEW s \in Slots, InsertTemplate(s)
      PROVE  RowsType' /\ renamed \subseteq renamed' /\ \A i \in Ids : RowMoves(i)
  <2>1. renamed' = renamed /\ mem[s].row \in RowType
    BY <1>2, InsertIs DEF InsertTemplate
  <2>2. CASE UNCHANGED rows
    BY <1>1, <2>1, <2>2
  <2>3. CASE RowsType' /\ NewId \in Ids /\ rows[NewId] = NoRow /\ rows' = [rows EXCEPT ![NewId] = mem[s].row]
    BY <2>1, <2>3, OneRowMoves DEF TypeOK
  <2> QED BY <1>2, <2>2, <2>3, InsertIs
<1>3. ASSUME NEW s \in Slots, SaveProviderId(s)
      PROVE  RowsType' /\ renamed \subseteq renamed' /\ \A i \in Ids : RowMoves(i)
  <2> DEFINE r == [rows[mem[s].id] EXCEPT !.provider = mem[s].row.provider]
  <2>1. renamed' = renamed /\ mem[s].id \in Ids
    BY <1>3, SaveIs DEF SaveProviderId
  <2>2. CASE UNCHANGED rows
    BY <1>1, <2>1, <2>2
  <2>3. CASE rows[mem[s].id] \in RowType /\ RowsType' /\ rows' = [rows EXCEPT ![mem[s].id] = r] /\ r \in RowType
    <3>1. r.name = rows[mem[s].id].name
      BY <2>3 DEF RowType
    <3> HIDE DEF r
    <3> QED BY <2>1, <2>3, <3>1, OneRowMoves DEF TypeOK
  <2> QED BY <1>3, <2>2, <2>3, SaveIs
<1>4. ASSUME NEW s \in Slots, WriteUpdate(s)
      PROVE  RowsType' /\ renamed \subseteq renamed' /\ \A i \in Ids : RowMoves(i)
  <2>1. CASE UNCHANGED <<rows, histVars>>
    BY <1>1, <2>1 DEF histVars
  <2>2. CASE \E r \in RowType, i \in Ids :
               /\ rows[i] \in RowType /\ RowsType' /\ rows' = [rows EXCEPT ![i] = r]
               /\ renamed' = IF r.name = rows[i].name THEN renamed ELSE renamed \cup {i}
    BY <2>2, OneRowMoves DEF TypeOK
  <2> QED BY <1>4, <2>1, <2>2, WriteIs
<1>5. ASSUME NEW s \in Slots, PushPending(s)
      PROVE  RowsType' /\ renamed \subseteq renamed' /\ \A i \in Ids : RowMoves(i)
  <2>1. renamed' = renamed
    BY <1>5 DEF PushPending
  <2>2. PICK t \in mem[s].todo :
          /\ t \in [id : Ids, row : RowType]
          /\ \/ UNCHANGED rows
             \/ rows[t.id] # Gone /\ rows' = [rows EXCEPT ![t.id].provider = MetaName(t.row.name)]
    BY <1>5, PushIs
  <2>3. CASE UNCHANGED rows
    BY <1>1, <2>1, <2>3
  <2>4. CASE rows[t.id] # Gone /\ rows' = [rows EXCEPT ![t.id].provider = MetaName(t.row.name)]
    <3> DEFINE r == [rows[t.id] EXCEPT !.provider = MetaName(t.row.name)]
    <3>1. rows[t.id] # NoRow /\ rows[t.id] \in RowType
      BY <1>5, <2>2, <2>4, PushIs DEF TypeOK, RowsKnown, RowsType
    <3>2. MetaName(t.row.name) \in [by : {"id", "name"}, of : Names]
      BY <2>2 DEF RowType, MetaName
    <3>3. RowsType' /\ r \in RowType /\ rows' = [rows EXCEPT ![t.id] = r]
      BY <2>2, <2>4, <3>1, <3>2, ProviderTypes DEF TypeOK
    <3>4. r.name = rows[t.id].name
      BY <3>1 DEF RowType
    <3> HIDE DEF r
    <3> QED BY <2>1, <2>2, <3>1, <3>3, <3>4, OneRowMoves DEF TypeOK
  <2> QED BY <2>2, <2>3, <2>4
<1>6. ASSUME NEW s \in Slots, UpsertPulled(s)
      PROVE  RowsType' /\ renamed \subseteq renamed' /\ \A i \in Ids : RowMoves(i)
  <2>1. renamed' = renamed
    BY <1>6 DEF UpsertPulled
  <2>2. CASE UNCHANGED rows
    BY <1>1, <2>1, <2>2
  <2>3. CASE \E r \in RowType, i \in Ids :
               rows[i].name \in {r.name, "none"} /\ RowsType' /\ rows' = [rows EXCEPT ![i] = r]
    <3>1. PICK r \in RowType, i \in Ids :
               rows[i].name \in {r.name, "none"} /\ RowsType' /\ rows' = [rows EXCEPT ![i] = r]
      BY <2>3
    <3>2. r.name \in Names
      BY DEF RowType
    <3>3. rows[i] = NoRow \/ (rows[i] \in RowType /\ rows[i].name = r.name)
      BY <3>1, <3>2, RowFacts DEF TypeOK
    <3> QED BY <2>1, <3>1, <3>3, OneRowMoves DEF TypeOK
  <2> QED BY <1>6, <2>2, <2>3, UpsertIs
<1>7. ASSUME NEW s \in Slots, DeleteTemplate(s)
      PROVE  RowsType' /\ renamed \subseteq renamed' /\ \A i \in Ids : RowMoves(i)
  <2>1. renamed' = renamed
    BY <1>7 DEF DeleteTemplate
  <2> QED BY <1>7, <2>1, DeleteIs, OneRowMoves DEF TypeOK
<1>8. ASSUME NEW w \in Workers, ApplyEvent(w)
      PROVE  RowsType' /\ renamed \subseteq renamed' /\ \A i \in Ids : RowMoves(i)
  <2>1. renamed' = renamed
    BY <1>8 DEF ApplyEvent
  <2>2. CASE UNCHANGED rows
    BY <1>1, <2>1, <2>2
  <2>3. CASE \E r \in RowType, i \in Ids :
               /\ rows[i] = NoRow \/ (rows[i] \in RowType /\ r.name = rows[i].name)
               /\ rows' = [rows EXCEPT ![i] = r] /\ RowsType'
    BY <2>1, <2>3, OneRowMoves DEF TypeOK
  <2> QED BY <1>8, <2>2, <2>3, ApplyIs
<1>9. ASSUME NEW j \in Jobs, Decide(j)
      PROVE  UNCHANGED <<rows, renamed>>
  BY <1>9 DEF Decide
<1>10. UNCHANGED vars => UNCHANGED <<rows, renamed>>
  BY DEF vars, histVars
<1>11. RequestMove => RowsType' /\ renamed \subseteq renamed' /\ \A i \in Ids : RowMoves(i)
  BY <1>1, <1>2, <1>3, <1>4, <1>5, <1>6, <1>7, RequestLeavesRows DEF RequestMove, SlotStep
<1> QED BY <1>1, <1>8, <1>9, <1>10, <1>11, Moves, JobMoveLeaves, SenderMoveLeaves

LEMMA RowsStay ==
  ASSUME TypeOK, [Next]_vars, NEW i \in Ids, rows[i] # NoRow
  PROVE  rows'[i] # NoRow
<1>1. RowsType' /\ RowMoves(i)
  BY RowsMove
<1>2. NoRow \notin RowType /\ NoRow # Gone
  BY TemplatesAssumption DEF NoRow, Gone, RowType
<1> QED BY <1>1, <1>2 DEF RowMoves

-----------------------------------------------------------------------------
(* The variables of a request.                                              *)

(* Request s moves, alone, to a label that its variables fit, and knows     *)
(* rows that are there.                                                     *)
SlotFits(s) ==
  /\ pc' \in [Slots -> Labels] /\ DOMAIN mem' = Slots
  /\ \A v \in Slots \ {s} : pc'[v] = pc[v] /\ mem'[v] = mem[v]
  /\ MemFits(pc'[s], mem'[s])
  /\ pc'[s] \in {"submit", "saveId", "write", "change"} => rows'[mem'[s].id] # NoRow
  /\ pc'[s] = "push" => \A t \in mem'[s].todo : rows'[t.id] # NoRow

LEMMA SlotFitsTypes ==
  ASSUME TypeOK, [Next]_vars, NEW s \in Slots, SlotFits(s), {requests', faults'} \subseteq Nat
  PROVE  SlotType' /\ RowsKnown'
<1>1. SlotType'
  <2>1. \A v \in Slots : MemFits(pc'[v], mem'[v])
    BY DEF TypeOK, SlotType, SlotFits
  <2> QED BY <2>1 DEF SlotType, SlotFits
<1>2. ASSUME NEW v \in Slots
      PROVE  /\ pc'[v] \in {"submit", "saveId", "write", "change"} => rows'[mem'[v].id] # NoRow
             /\ pc'[v] = "push" => \A t \in mem'[v].todo : rows'[t.id] # NoRow
  <2>1. CASE v = s
    BY <2>1 DEF SlotFits
  <2>2. CASE v # s
    <3>1. pc'[v] = pc[v] /\ mem'[v] = mem[v]
      BY <2>2 DEF SlotFits
    <3>2. pc[v] \in {"submit", "saveId", "write", "change"} => mem[v].id \in Ids /\ rows[mem[v].id] # NoRow
      BY DEF TypeOK, SlotType, MemFits, RowsKnown
    <3>3. pc[v] = "push" => \A t \in mem[v].todo : t.id \in Ids /\ rows[t.id] # NoRow
      BY DEF TypeOK, SlotType, MemFits, RowsKnown
    <3> QED BY <3>1, <3>2, <3>3, RowsStay
  <2> QED BY <2>1, <2>2
<1> QED BY <1>1, <1>2 DEF RowsKnown

LEMMA SlotMoves ==
  ASSUME TypeOK, NEW s \in Slots, NEW label \in Labels, NEW m, MemFits(label, m),
         Goto(s, label), mem' = [mem EXCEPT ![s] = m],
         label \in {"submit", "saveId", "write", "change"} => rows'[m.id] # NoRow,
         label = "push" => \A t \in m.todo : rows'[t.id] # NoRow
  PROVE  SlotFits(s)
<1>1. pc'[s] = label /\ mem'[s] = m
  BY DEF TypeOK, SlotType, Goto
<1>2. pc' \in [Slots -> Labels] /\ DOMAIN mem' = Slots
      /\ \A v \in Slots \ {s} : pc'[v] = pc[v] /\ mem'[v] = mem[v]
  BY DEF TypeOK, SlotType, Goto
<1> QED BY <1>1, <1>2 DEF SlotFits

(* To a label that needs no row. *)
LEMMA SlotGoesOn ==
  ASSUME TypeOK, NEW s \in Slots, NEW label \in {"pull", "upsert", "clear"},
         MemFits(label, mem[s]), Goto(s, label), UNCHANGED mem
  PROVE  SlotFits(s)
<1>1. mem' = [mem EXCEPT ![s] = mem[s]] \/ mem' = mem
  OBVIOUS
<1>2. pc'[s] = label /\ mem'[s] = mem[s]
  BY DEF TypeOK, SlotType, Goto
<1>3. pc' \in [Slots -> Labels] /\ DOMAIN mem' = Slots
      /\ \A v \in Slots \ {s} : pc'[v] = pc[v] /\ mem'[v] = mem[v]
  BY DEF TypeOK, SlotType, Goto, Labels
<1> QED BY <1>2, <1>3 DEF SlotFits

LEMMA AnsweredFits ==
  ASSUME TypeOK, NEW s \in Slots, Answered(s)
  PROVE  SlotFits(s)
<1>1. MemFits("idle", NoMem) /\ "idle" \in Labels
  BY DEF MemFits, Labels
<1> QED BY <1>1, SlotMoves DEF Answered

LEMMA BeginFits ==
  ASSUME TypeOK, [Next]_vars, NEW s \in Slots, CreateTemplate(s) \/ UpdateTemplate(s) \/ SyncTemplates(s)
  PROVE  SlotFits(s)
<1> USE DEF Labels
<1>1. CASE CreateTemplate(s)
  <2>1. PICK n \in Names, c \in Contents, st \in {"PENDING", "DRAFT"} :
          mem' = [mem EXCEPT ![s] = [row |->
            [name |-> n, status |-> st, provider |-> NoId, content |-> c, ts |-> 0]]]
    BY <1>1 DEF CreateTemplate
  <2> DEFINE r == [name |-> n, status |-> st, provider |-> NoId, content |-> c, ts |-> 0]
  <2>2. r \in RowType
    BY DEF RowType, Statuses
  <2> HIDE DEF r
  <2>3. MemFits("insert", [row |-> r]) /\ Goto(s, "insert")
    BY <1>1, <2>2 DEF MemFits, CreateTemplate
  <2>4. mem' = [mem EXCEPT ![s] = [row |-> r]]
    BY <2>1 DEF r
  <2> QED BY <2>3, <2>4, SlotMoves
<1>2. CASE UpdateTemplate(s)
  <2>1. PICK i \in Ids, n \in Names, c \in Contents, draft \in BOOLEAN :
          /\ rows[i].name \in Names
          /\ mem' = [mem EXCEPT ![s] = [id |-> i, old |-> rows[i].name,
            row |-> [rows[i] EXCEPT !.name = n, !.content = c, !.status = IF draft THEN "DRAFT" ELSE @]]]
    BY <1>2 DEF UpdateTemplate
  <2> DEFINE r == [rows[i] EXCEPT !.name = n, !.content = c, !.status = IF draft THEN "DRAFT" ELSE @]
             m == [id |-> i, old |-> rows[i].name, row |-> r]
  <2>2. rows[i] \in RowType /\ rows[i] # NoRow /\ rows' = rows
    BY <1>2, <2>1, RowFacts DEF TypeOK, UpdateTemplate
  <2>3. r \in RowType
    BY <2>2 DEF RowType, Statuses
  <2> HIDE DEF r
  <2>4. MemFits("write", m) /\ Goto(s, "write") /\ rows'[m.id] # NoRow
    BY <1>2, <2>1, <2>2, <2>3 DEF MemFits, UpdateTemplate
  <2>5. mem' = [mem EXCEPT ![s] = m]
    BY <2>1 DEF r
  <2> HIDE DEF m
  <2> QED BY <2>4, <2>5, SlotMoves
<1>3. CASE SyncTemplates(s)
  <2> DEFINE todo == {[id |-> i, row |-> rows[i]] : i \in {k \in Ids :
                        rows[k].name \in Names /\ rows[k].status = "PENDING" /\ rows[k].provider = NoId}}
             m == [todo |-> todo]
  <2>1. \A i \in Ids : rows[i].name \in Names => rows[i] \in RowType /\ rows[i] # NoRow
    BY RowFacts DEF TypeOK
  <2>2. todo \in SUBSET [id : Ids, row : RowType] /\ \A t \in todo : rows[t.id] # NoRow
    BY <2>1
  <2>3. mem' = [mem EXCEPT ![s] = m] /\ rows' = rows /\ Goto(s, "push")
    BY <1>3 DEF SyncTemplates
  <2> HIDE DEF todo
  <2>4. MemFits("push", m) /\ \A t \in m.todo : rows'[t.id] # NoRow
    BY <2>2, <2>3 DEF MemFits
  <2> HIDE DEF m
  <2> QED BY <2>3, <2>4, SlotMoves
<1> QED BY <1>1, <1>2, <1>3

LEMMA KnownFits ==
  ASSUME TypeOK, [Next]_vars, NEW s \in Slots, pc[s] \in {"submit", "change"}, Goto(s, "saveId"),
         NEW id \in {NoId} \cup [by : {"id", "name"}, of : Names],
         mem' = [mem EXCEPT ![s] = Known(s, id)]
  PROVE  SlotFits(s)
<1>1. mem[s].id \in Ids /\ mem[s].row \in RowType /\ rows[mem[s].id] # NoRow
  BY DEF TypeOK, SlotType, MemFits, RowsKnown
<1>2. [mem[s].row EXCEPT !.provider = id] \in RowType
  BY <1>1 DEF RowType
<1>3. MemFits("saveId", Known(s, id)) /\ Known(s, id).id = mem[s].id
  BY <1>1, <1>2 DEF MemFits, Known
<1>4. rows'[Known(s, id).id] # NoRow
  BY <1>1, <1>3, RowsStay
<1>5. "saveId" \in Labels
  BY DEF Labels
<1> QED BY <1>3, <1>4, <1>5, SlotMoves

LEMMA RequestFits ==
  ASSUME TypeOK, [Next]_vars, NEW s \in Slots, SlotStep(s) \/ Crash(s)
  PROVE  SlotFits(s)
<1> USE AnsweredFits
<1>1. CASE InsertTemplate(s)
  <2>1. CASE Answered(s)
    BY <2>1
  <2>2. CASE /\ mem[s] \in [row : RowType] /\ NewId \in Ids
             /\ rows' = [rows EXCEPT ![NewId] = mem[s].row]
             /\ Goto(s, "submit") /\ mem' = [mem EXCEPT ![s] = [id |-> NewId, row |-> mem[s].row]]
    <3> DEFINE m == [id |-> NewId, row |-> mem[s].row]
    <3>1. rows'[NewId] # NoRow
      <4>1. rows'[NewId] = mem[s].row /\ mem[s].row \in RowType
        BY <2>2 DEF TypeOK, RowsType
      <4>2. NoRow \notin RowType
        BY TemplatesAssumption DEF NoRow, RowType
      <4> QED BY <4>1, <4>2
    <3>2. MemFits("submit", m) /\ "submit" \in Labels /\ m.id = NewId
      BY <2>2 DEF MemFits, Labels
    <3> HIDE DEF m
    <3>3. mem' = [mem EXCEPT ![s] = m] /\ Goto(s, "submit")
      BY <2>2 DEF m
    <3> QED BY <3>1, <3>2, <3>3, SlotMoves
  <2> QED BY <1>1, <2>1, <2>2, InsertIs
<1>2. CASE SubmitTemplate(s)
  <2>1. mem[s].row.name \in Names /\ pc[s] = "submit"
    BY <1>2, SubmitIs DEF RowType
  <2>2. MetaId(mem[s].row.name) \in {NoId} \cup [by : {"id", "name"}, of : Names]
    BY <2>1 DEF MetaId
  <2> QED BY <1>2, <2>1, <2>2, SubmitIs, KnownFits
<1>3. CASE SaveProviderId(s)
  BY <1>3 DEF SaveProviderId
<1>4. CASE WriteUpdate(s)
  <2>1. CASE Answered(s)
    BY <2>1
  <2>2. ASSUME NEW r \in RowType, NEW i \in Ids, i = mem[s].id,
               mem[s] \in [id : Ids, old : Names, row : RowType], rows[i] \in RowType,
               Goto(s, "change"), mem' = [mem EXCEPT ![s] = [id |-> i, old |-> mem[s].old, row |-> r]]
        PROVE  SlotFits(s)
    <3> DEFINE m == [id |-> i, old |-> mem[s].old, row |-> r]
    <3>1. rows[i] # NoRow
      BY <2>2, RowFacts DEF TypeOK
    <3>2. MemFits("change", m) /\ "change" \in Labels /\ m.id = i
      BY <2>2 DEF MemFits, Labels
    <3> HIDE DEF m
    <3>3. mem' = [mem EXCEPT ![s] = m]
      BY <2>2 DEF m
    <3>4. rows'[m.id] # NoRow
      BY <3>1, <3>2, RowsStay
    <3> QED BY <2>2, <3>2, <3>3, <3>4, SlotMoves
  <2> QED BY <1>4, <2>1, <2>2, WriteIs
<1>5. CASE ChangeAtMeta(s)
  <2>1. mem[s].row \in RowType /\ mem[s].row.name \in Names /\ pc[s] = "change"
    BY <1>5, ChangeIs DEF RowType
  <2>2. /\ MetaId(mem[s].row.name) \in {NoId} \cup [by : {"id", "name"}, of : Names]
        /\ mem[s].row.provider \in {NoId} \cup [by : {"id", "name"}, of : Names]
    BY <2>1 DEF MetaId, RowType
  <2> QED BY <1>5, <2>1, <2>2, ChangeIs, KnownFits
<1>6. CASE PushPending(s)
  <2>1. PICK t \in mem[s].todo : mem' = [mem EXCEPT ![s] = [todo |-> mem[s].todo \ {t}]]
    BY <1>6, PushIs
  <2> DEFINE m == [todo |-> mem[s].todo \ {t}]
  <2>2. pc[s] = "push" /\ mem[s].todo \subseteq [id : Ids, row : RowType] /\ pc' = pc
    BY <1>6, PushIs DEF PushPending
  <2>3. MemFits("push", m) /\ "push" \in Labels /\ m.todo \subseteq mem[s].todo
    BY <2>2 DEF MemFits, Labels
  <2>4. Goto(s, "push")
    BY <2>2 DEF Goto, TypeOK, SlotType
  <2>5. \A x \in mem[s].todo : x.id \in Ids /\ rows'[x.id] # NoRow
    BY <2>2, RowsStay DEF TypeOK, RowsKnown
  <2> HIDE DEF m
  <2>6. mem' = [mem EXCEPT ![s] = m]
    BY <2>1 DEF m
  <2> QED BY <2>3, <2>4, <2>5, <2>6, SlotMoves
<1>7. CASE FetchTemplates(s)
  <2> DEFINE m == [fetched |-> meta, todo |-> Existing(meta)]
  <2>1. MemFits("pull", m) /\ "pull" \in Labels
    BY DEF MemFits, Labels, TypeOK, EventType, Existing
  <2> HIDE DEF m
  <2>2. Answered(s) \/ (mem' = [mem EXCEPT ![s] = m] /\ Goto(s, "pull"))
    BY <1>7 DEF FetchTemplates, m
  <2> QED BY <2>1, <2>2, SlotMoves
<1>8. CASE PullNext(s)
  <2>1. CASE Answered(s)
    BY <2>1
  <2>2. ASSUME NEW n \in mem[s].todo, Goto(s, "upsert"), pc[s] = "pull",
               mem' = [mem EXCEPT ![s] = [fetched |-> @.fetched, todo |-> @.todo \ {n}, name |-> n, ts |-> clock]]
        PROVE  SlotFits(s)
    <3> DEFINE m == [fetched |-> mem[s].fetched, todo |-> mem[s].todo \ {n}, name |-> n, ts |-> clock]
    <3>1. mem[s].fetched \in [Names -> MetaType] /\ mem[s].todo \subseteq Existing(mem[s].fetched) /\ clock \in Nat
      BY <2>2 DEF TypeOK, SlotType, MemFits, EventType
    <3>2. MemFits("upsert", m) /\ "upsert" \in Labels
      BY <3>1 DEF MemFits, Labels, Existing
    <3>3. mem' = [mem EXCEPT ![s] = m]
      BY <2>2
    <3> HIDE DEF m
    <3> QED BY <2>2, <3>2, <3>3, SlotMoves
  <2> QED BY <1>8, <2>1, <2>2 DEF PullNext
<1>9. CASE UpsertPulled(s)
  <2>1. CASE Answered(s)
    BY <2>1
  <2>2. CASE UNCHANGED mem /\ (Goto(s, "pull") \/ Goto(s, "clear"))
    <3>1. MemFits("pull", mem[s]) /\ MemFits("clear", mem[s])
      BY <1>9 DEF UpsertPulled, TypeOK, SlotType, MemFits
    <3> QED BY <2>2, <3>1, SlotGoesOn
  <2> QED BY <1>9, <2>1, <2>2, UpsertIs
<1>10. CASE ClearCache(s)
  <2>1. MemFits("pull", mem[s])
    BY <1>10 DEF ClearCache, TypeOK, SlotType, MemFits
  <2> QED BY <1>10, <2>1, SlotGoesOn DEF ClearCache
<1>11. CASE Crash(s)
  BY <1>11 DEF Crash
<1> QED BY <1>1, <1>2, <1>3, <1>4, <1>5, <1>6, <1>7, <1>8, <1>9, <1>10, <1>11 DEF SlotStep

-----------------------------------------------------------------------------
(* Every step keeps the types.                                              *)

LEMMA JobsKnownStays ==
  ASSUME JobsKnown, UNCHANGED <<decisions, jobState, cur>>
  PROVE  JobsKnown'
BY DEF JobsKnown

LEMMA RowsKnownStays ==
  ASSUME TypeOK, [Next]_vars, UNCHANGED <<pc, mem>>
  PROVE  RowsKnown'
<1>1. ASSUME NEW s \in Slots
      PROVE  /\ pc[s] \in {"submit", "saveId", "write", "change"} => rows'[mem[s].id] # NoRow
             /\ pc[s] = "push" => \A t \in mem[s].todo : rows'[t.id] # NoRow
  <2>1. pc[s] \in {"submit", "saveId", "write", "change"} => mem[s].id \in Ids /\ rows[mem[s].id] # NoRow
    BY DEF TypeOK, SlotType, MemFits, RowsKnown
  <2>2. pc[s] = "push" => \A t \in mem[s].todo : t.id \in Ids /\ rows[t.id] # NoRow
    BY DEF TypeOK, SlotType, MemFits, RowsKnown
  <2> QED BY <2>1, <2>2, RowsStay
<1> QED BY <1>1 DEF RowsKnown

(* What requests do to Meta. *)
LEMMA RequestMeta ==
  ASSUME TypeOK, RequestMove
  PROVE  EventType' /\ \A k \in Names : meta[k].status # "none" => meta'[k].status # "none"
<1>1. UNCHANGED <<clock, decisions, processed>>
  BY RequestMoveLeaves
<1>2. CASE UNCHANGED meta
  BY <1>1, <1>2 DEF TypeOK, EventType
<1>3. ASSUME NEW s \in Slots, SubmitTemplate(s)
      PROVE  EventType' /\ \A k \in Names : meta[k].status # "none" => meta'[k].status # "none"
  <2>1. mem[s].row.name \in Names /\ mem[s].row.content \in Contents \cup {"none"}
    BY <1>3, SubmitIs DEF RowType
  <2> QED BY <1>1, <1>3, <2>1, SubmitIs, MetaTypes DEF TypeOK
<1>4. ASSUME NEW s \in Slots, ChangeAtMeta(s)
      PROVE  EventType' /\ \A k \in Names : meta[k].status # "none" => meta'[k].status # "none"
  <2>1. mem[s].row.content \in Contents \cup {"none"}
    BY <1>4, ChangeIs DEF RowType
  <2>2. \/ meta' = meta
        \/ \E t \in Names : meta' = [meta EXCEPT ![t] = [status |-> "PENDING", content |-> mem[s].row.content]]
    BY <1>4, ChangeIs
  <2> QED BY <1>1, <1>2, <2>1, <2>2, MetaTypes DEF TypeOK
<1>5. ASSUME NEW s \in Slots, PushPending(s)
      PROVE  EventType' /\ \A k \in Names : meta[k].status # "none" => meta'[k].status # "none"
  <2>1. PICK t \in mem[s].todo :
          /\ t \in [id : Ids, row : RowType]
          /\ \/ meta' = meta
             \/ meta' = [meta EXCEPT ![t.row.name] = [status |-> "PENDING", content |-> t.row.content]]
    BY <1>5, PushIs
  <2>2. t.row.name \in Names /\ t.row.content \in Contents \cup {"none"}
    BY <2>1 DEF RowType
  <2> QED BY <1>1, <2>1, <2>2, MetaTypes DEF TypeOK
<1>6. ASSUME NEW s \in Slots,
             \/ CreateTemplate(s) \/ UpdateTemplate(s) \/ DeleteTemplate(s) \/ SyncTemplates(s) \/ Crash(s)
             \/ InsertTemplate(s) \/ SaveProviderId(s) \/ WriteUpdate(s) \/ FetchTemplates(s)
             \/ PullNext(s) \/ UpsertPulled(s) \/ ClearCache(s)
      PROVE  UNCHANGED meta
  BY <1>6 DEF CreateTemplate, UpdateTemplate, DeleteTemplate, SyncTemplates, Crash, InsertTemplate,
     SaveProviderId, WriteUpdate, FetchTemplates, PullNext, UpsertPulled, ClearCache, metaVars
<1> QED BY <1>2, <1>3, <1>4, <1>5, <1>6 DEF RequestMove, SlotStep

LEMMA RequestHistory ==
  ASSUME TypeOK, NEW s \in Slots,
         \/ CreateTemplate(s) \/ UpdateTemplate(s) \/ DeleteTemplate(s) \/ SyncTemplates(s)
         \/ SlotStep(s) \/ Crash(s)
  PROVE  HistType' /\ CacheType' /\ {requests', faults'} \subseteq Nat
<1> DEFINE Goal == HistType' /\ CacheType' /\ {requests', faults'} \subseteq Nat
<1> HIDE DEF Goal
<1>1. requests \in Nat /\ faults \in Nat /\ requests + 1 \in Nat /\ faults + 1 \in Nat
  BY DEF TypeOK, SlotType
<1>2. HistType /\ CacheType
  BY DEF TypeOK
<1>3. ASSUME astray' \subseteq Names, behind' \subseteq Ids, renamed' \subseteq Ids, UNCHANGED cacheVars,
             requests' \in {requests, requests + 1}, faults' \in {faults, faults + 1}
      PROVE  Goal
  BY <1>1, <1>2, <1>3 DEF Goal, HistType, CacheType, cacheVars
<1>4. ASSUME CreateTemplate(s) \/ UpdateTemplate(s) \/ SyncTemplates(s) PROVE Goal
  BY <1>2, <1>3, <1>4 DEF HistType, histVars, CreateTemplate, UpdateTemplate, SyncTemplates, Begin
<1>5. ASSUME DeleteTemplate(s) PROVE Goal
  BY <1>2, <1>3, <1>5, HistoryTypes DEF HistType, DeleteTemplate, Begin
<1>6. ASSUME InsertTemplate(s) PROVE Goal
  <2>1. mem[s].row.name \in Names
    BY <1>6, InsertIs DEF RowType
  <2>2. astray' \subseteq Names
    BY <1>2, <1>6, <2>1, InsertIs, HistoryTypes DEF HistType
  <2> QED BY <1>2, <1>3, <1>6, <2>2, InsertIs DEF HistType, InsertTemplate
<1>7. ASSUME SubmitTemplate(s) PROVE Goal
  BY <1>2, <1>3, <1>7, SubmitIs, HistoryTypes DEF HistType, SubmitTemplate
<1>8. ASSUME SaveProviderId(s) PROVE Goal
  BY <1>2, <1>3, <1>8, SaveIs, HistoryTypes DEF HistType, SaveProviderId
<1>9. ASSUME WriteUpdate(s) PROVE Goal
  <2>1. CASE UNCHANGED histVars
    BY <1>2, <1>3, <1>9, <2>1, WriteIs DEF HistType, histVars, WriteUpdate
  <2>2. ASSUME NEW r \in RowType, NEW i \in Ids, Marked(r.name, r.status, r.ts), Outdated(i),
               renamed' = IF r.name = rows[i].name THEN renamed ELSE renamed \cup {i}
        PROVE  Goal
    <3>1. r.name \in Names
      BY DEF RowType
    <3>2. astray' \subseteq Names /\ behind' \subseteq Ids /\ renamed' \subseteq Ids
      BY <1>2, <2>2, <3>1, HistoryTypes DEF HistType
    <3> QED BY <1>3, <1>9, <3>2, WriteIs DEF WriteUpdate
  <2> QED BY <1>9, <2>1, <2>2, WriteIs
<1>10. ASSUME ChangeAtMeta(s) PROVE Goal
  BY <1>2, <1>3, <1>10, ChangeIs, HistoryTypes DEF HistType, ChangeAtMeta
<1>11. ASSUME PushPending(s) PROVE Goal
  <2>1. behind' \subseteq Ids
    BY <1>2, <1>11, PushIs, HistoryTypes DEF HistType
  <2> QED BY <1>2, <1>3, <1>11, <2>1, PushIs, HistoryTypes DEF HistType, PushPending
<1>12. ASSUME FetchTemplates(s) \/ PullNext(s) PROVE Goal
  BY <1>2, <1>3, <1>12 DEF HistType, histVars, FetchTemplates, PullNext, Fault
<1>13. ASSUME UpsertPulled(s) PROVE Goal
  <2>1. astray' \subseteq Names
    <3>1. \A r \in RowType : r.name \in Names
      BY DEF RowType
    <3> QED BY <1>2, <1>13, <3>1, UpsertIs, HistoryTypes DEF HistType
  <2> QED BY <1>2, <1>3, <1>13, <2>1, UpsertIs DEF HistType, UpsertPulled
<1>14. ASSUME ClearCache(s) PROVE Goal
  <2>1. behind' \subseteq Ids
    BY <1>2, <1>14 DEF ClearCache, RowsOf, HistType
  <2>2. cache' \in [Ids -> RowType \cup {NoRow}] /\ UNCHANGED <<reading, requests, astray, renamed>>
    BY <1>2, <1>14 DEF ClearCache, CacheType
  <2>3. faults' \in {faults, faults + 1}
    BY <1>14 DEF ClearCache, Fault
  <2> QED BY <1>1, <1>2, <2>1, <2>2, <2>3 DEF Goal, HistType, CacheType
<1>15. ASSUME Crash(s) PROVE Goal
  BY <1>2, <1>3, <1>15 DEF Crash, RowsOf, HistType, Fault
<1> QED BY <1>4, <1>5, <1>6, <1>7, <1>8, <1>9, <1>10, <1>11, <1>12, <1>13, <1>14, <1>15
    DEF Goal, SlotStep

LEMMA RequestTypes ==
  ASSUME TypeOK, [Next]_vars, RequestMove
  PROVE  TypeOK'
<1>1. PICK s \in Slots :
        \/ CreateTemplate(s) \/ UpdateTemplate(s) \/ DeleteTemplate(s) \/ SyncTemplates(s)
        \/ SlotStep(s) \/ Crash(s)
  BY DEF RequestMove
<1>2. HistType' /\ CacheType' /\ {requests', faults'} \subseteq Nat
  BY <1>1, RequestHistory
<1>3. SlotType' /\ RowsKnown'
  <2>1. CASE DeleteTemplate(s)
    <3>1. UNCHANGED <<pc, mem>>
      BY <2>1 DEF DeleteTemplate
    <3> QED BY <1>2, <3>1, RowsKnownStays DEF TypeOK, SlotType
  <2>2. CASE ~ DeleteTemplate(s)
    BY <1>1, <1>2, <2>2, BeginFits, RequestFits, SlotFitsTypes
  <2> QED BY <2>1, <2>2
<1>4. QueueType' /\ RunType' /\ JobsKnown'
  BY UnchangedTypes, RequestMoveLeaves, JobsKnownStays DEF TypeOK, queueVars, workerVars
<1> QED BY <1>2, <1>3, <1>4, RowsMove, RequestMeta DEF TypeOK

(* What BullMQ does to a job; an added job stays one. *)
LEMMA QueueSteps ==
  ASSUME QueueType, NEW j \in Jobs,
         \/ \E w \in Workers : Take(w, j) \/ Complete(w, j) \/ Threw(w, j) \/ DropLocks({w})
         \/ Add(j) \/ BackoffOver(j) \/ PutBack(j) \/ Retry(j) \/ UNCHANGED queueVars
         \/ jobState[j] = "completed" /\ jobState' = [jobState EXCEPT ![j] = "waiting"]
            /\ UNCHANGED <<attemptsMade, stalledCount, lock>>
  PROVE  /\ QueueType' /\ (\A k \in Jobs : jobState[k] # "none" => jobState'[k] # "none")
         /\ \A k \in Jobs \ {j} : jobState'[k] = jobState[k]
<1> USE DEF QueueType
<1>1. attemptsMade[j] + 1 \in Nat /\ stalledCount[j] + 1 \in Nat
  OBVIOUS
<1> DEFINE Goal == /\ QueueType' /\ (\A k \in Jobs : jobState[k] # "none" => jobState'[k] # "none")
                   /\ \A k \in Jobs \ {j} : jobState'[k] = jobState[k]
<1>2. CASE Add(j) \/ BackoffOver(j) \/ Retry(j) \/ UNCHANGED queueVars
  BY <1>2 DEF Add, BackoffOver, Retry, queueVars
<1>3. ASSUME NEW w \in Workers, Take(w, j) PROVE Goal
  BY <1>3 DEF Take
<1>4. ASSUME NEW w \in Workers, Complete(w, j) PROVE Goal
  BY <1>4 DEF Complete, Settle, queueVars
<1>5. ASSUME NEW w \in Workers, Threw(w, j) PROVE Goal
  <2> DEFINE state == IF attemptsMade[j] + 1 < MaxAttempts THEN "delayed" ELSE "failed"
  <2>1. Settle(w, j, state, attemptsMade[j] + 1) /\ state \in {"delayed", "failed"}
    BY <1>5 DEF Threw
  <2> HIDE DEF state
  <2> QED BY <1>1, <2>1 DEF Settle, queueVars
<1>6. CASE PutBack(j)
  BY <1>1, <1>6 DEF PutBack
<1>7. ASSUME NEW w \in Workers, DropLocks({w}) PROVE Goal
  BY <1>7 DEF DropLocks
<1>8. CASE jobState[j] = "completed" /\ jobState' = [jobState EXCEPT ![j] = "waiting"]
           /\ UNCHANGED <<attemptsMade, stalledCount, lock>>
  BY <1>8
<1> HIDE DEF Goal
<1>9. Goal
  BY <1>2, <1>3, <1>4, <1>5, <1>6, <1>7, <1>8 DEF Goal
<1> QED BY <1>9 DEF Goal

LEMMA JobsKnownGrows ==
  ASSUME TypeOK, \A k \in Jobs : jobState[k] # "none" => jobState'[k] # "none",
         \A k \in Jobs : decisions'[k] = NoDecision => decisions[k] = NoDecision /\ jobState'[k] = jobState[k],
         \A v \in Workers : cur'[v] \in {cur[v], 0} \/ jobState'[cur'[v]] # "none"
  PROVE  JobsKnown'
<1>1. \A v \in Workers : cur[v] # 0 => cur[v] \in Jobs /\ jobState[cur[v]] # "none"
  BY DEF TypeOK, RunType, JobsKnown
<1>2. \A k \in Jobs : decisions[k] = NoDecision => jobState[k] = "none"
  BY DEF TypeOK, JobsKnown
<1> QED BY <1>1, <1>2 DEF JobsKnown

LEMMA DecideIs ==
  ASSUME TypeOK, NEW j \in Jobs, Decide(j)
  PROVE  \E n \in Names, st \in {"APPROVED", "REJECTED"}, t \in {clock, clock + 1} :
           /\ decisions[j] = NoDecision /\ jobState[j] = "none"
           /\ meta[n].status # "none" /\ meta'[n].status = st
           /\ \A k \in Names \ {n} : meta'[k] = meta[k]
           /\ clock' = t /\ clock <= t /\ t \in Nat
           /\ decisions' = [decisions EXCEPT ![j] = [name |-> n, status |-> st, ts |-> t]]
           /\ \/ Add(j) /\ UNCHANGED <<faults, astray>>
              \/ astray' = astray \cup {n} /\ UNCHANGED queueVars /\ faults' = faults + 1
           /\ EventType'
<1>1. PICK n \in Names, st \in {"APPROVED", "REJECTED"}, t \in {clock, clock + 1} :
           /\ meta[n].status \notin {"none", st}
           /\ meta' = [meta EXCEPT ![n].status = st]
           /\ clock' = t
           /\ decisions' = [decisions EXCEPT ![j] = [name |-> n, status |-> st, ts |-> t]]
           /\ \/ Add(j) /\ UNCHANGED <<faults, astray>>
              \/ /\ Fault("redis") \/ Fault("crash")
                 /\ astray' = astray \cup {n}
                 /\ UNCHANGED queueVars
  BY DEF Decide
<1>2. decisions[j] = NoDecision /\ jobState[j] = "none" /\ UNCHANGED processed
  BY DEF Decide, TypeOK, JobsKnown
<1>3. clock <= t /\ t \in Nat
  BY <1>1 DEF TypeOK, EventType
<1>4. [name |-> n, status |-> st, ts |-> t] \in Decision
  BY <1>1, <1>3 DEF Decision
<1>5. /\ meta'[n] \in MetaType /\ meta'[n].status = st /\ meta' \in [Names -> MetaType]
      /\ \A k \in Names \ {n} : meta'[k] = meta[k]
  <2>1. meta[n] \in [status : {"PENDING", "APPROVED", "REJECTED"}, content : Contents \cup {"none"}]
    BY <1>1 DEF TypeOK, EventType, MetaType
  <2>2. [meta[n] EXCEPT !.status = st] \in MetaType /\ [meta[n] EXCEPT !.status = st].status = st
    BY <2>1 DEF MetaType
  <2>3. meta' = [meta EXCEPT ![n] = [meta[n] EXCEPT !.status = st]]
    BY <1>1 DEF TypeOK, EventType
  <2> HIDE DEF MetaType
  <2>4. meta \in [Names -> MetaType]
    BY DEF TypeOK, EventType
  <2> QED BY <2>2, <2>3, <2>4
<1>6. EventType'
  BY <1>1, <1>2, <1>3, <1>4, <1>5 DEF TypeOK, EventType
<1> QED BY <1>1, <1>2, <1>3, <1>5, <1>6 DEF Fault

LEMMA DecideTypes ==
  ASSUME TypeOK, [Next]_vars, NEW j \in Jobs, Decide(j)
  PROVE  TypeOK'
<1>1. UNCHANGED <<rows, processed, workerVars, slotVars, cacheVars, behind, renamed>>
  BY DEF Decide
<1>2. PICK n \in Names, st \in {"APPROVED", "REJECTED"}, t \in {clock, clock + 1} :
           /\ decisions[j] = NoDecision /\ jobState[j] = "none"
           /\ decisions' = [decisions EXCEPT ![j] = [name |-> n, status |-> st, ts |-> t]]
           /\ \/ Add(j) /\ UNCHANGED <<faults, astray>>
              \/ astray' = astray \cup {n} /\ UNCHANGED queueVars /\ faults' = faults + 1
           /\ EventType'
  BY DecideIs
<1>3. /\ QueueType'
      /\ \A k \in Jobs : jobState[k] # "none" => jobState'[k] # "none"
      /\ \A k \in Jobs \ {j} : jobState'[k] = jobState[k]
  <2>1. CASE UNCHANGED queueVars
    BY <2>1, UnchangedTypes DEF TypeOK, queueVars
  <2>2. CASE Add(j)
    BY <2>2 DEF Add, TypeOK, QueueType
  <2> QED BY <1>2, <2>1, <2>2
<1>4. JobsKnown'
  <2>1. [name |-> n, status |-> st, ts |-> t] # NoDecision
    <3>1. NoDecision.name = "none" /\ [name |-> n, status |-> st, ts |-> t].name = n
      BY DEF NoDecision
    <3> QED BY <3>1, TemplatesAssumption
  <2>2. \A k \in Jobs : decisions'[k] = NoDecision => decisions[k] = NoDecision /\ jobState'[k] = jobState[k]
    BY <1>2, <1>3, <2>1 DEF TypeOK, EventType
  <2> QED BY <1>1, <1>3, <2>2, JobsKnownGrows DEF workerVars
<1>5. SlotType' /\ RowsKnown'
  <2>1. faults' \in Nat
    BY <1>2 DEF TypeOK, SlotType
  <2> QED BY <1>1, <2>1, RowsKnownStays DEF TypeOK, SlotType, slotVars
<1>6. HistType'
  BY <1>1, <1>2 DEF TypeOK, HistType
<1> QED BY <1>1, <1>2, <1>3, <1>4, <1>5, <1>6, RowsMove, UnchangedTypes DEF TypeOK

(* A run moves to its next label, with its job. *)
LEMMA RunGoesOn ==
  ASSUME TypeOK, NEW w \in Workers, NEW label \in {"record", "apply", "complete", "threw"},
         WGoto(w, label), UNCHANGED cur, cur[w] # 0
  PROVE  RunType'
BY DEF TypeOK, RunType, WGoto

LEMMA JobHistory ==
  ASSUME TypeOK, NEW j \in Jobs, jobState[j] # "none", Forgotten(j) \/ UNCHANGED astray,
         UNCHANGED <<behind, renamed>>
  PROVE  HistType'
<1>1. decisions[j].name \in Names
  BY DEF TypeOK, JobsKnown, EventType, Decision
<1> QED BY <1>1, HistoryTypes DEF TypeOK, HistType

LEMMA ApplyTypes ==
  ASSUME TypeOK, [Next]_vars, NEW w \in Workers, ApplyEvent(w)
  PROVE  TypeOK'
<1>1. UNCHANGED <<metaVars, processed, cur, queueVars, slotVars, cacheVars, renamed>>
  BY DEF ApplyEvent
<1>2. wpc[w] = "apply" /\ faults' \in Nat /\ cur[w] # 0 /\ cur[w] \in Jobs /\ jobState[cur[w]] # "none"
  <2>1. faults' \in {faults, faults + 1} /\ wpc[w] = "apply"
    BY ApplyIs
  <2> QED BY <2>1, RunHasDecision DEF TypeOK, SlotType, RunType
<1>3. WGoto(w, "complete") \/ WGoto(w, "threw")
  BY ApplyIs
<1>4. RunType'
  BY <1>1, <1>2, <1>3, RunGoesOn
<1>5. SlotType' /\ RowsKnown'
  BY <1>1, <1>2, RowsKnownStays DEF TypeOK, SlotType, slotVars
<1>6. HistType'
  <2>1. CASE UNCHANGED behind /\ (Forgotten(cur[w]) \/ UNCHANGED astray)
    BY <1>1, <1>2, <2>1, JobHistory
  <2>2. ASSUME NEW r \in RowType, NEW i \in Ids,
               \/ astray' = IF r.status = meta[r.name].status /\ ~ Late(r.name, r.ts)
                            THEN astray \ {r.name} ELSE astray
               \/ Marked(r.name, r.status, r.ts),
               Outdated(i) \/ UNCHANGED behind
        PROVE  HistType'
    <3>1. r.name \in Names
      BY DEF RowType
    <3>2. astray' \subseteq Names /\ behind' \subseteq Ids
      BY <2>2, <3>1, HistoryTypes DEF TypeOK, HistType
    <3> QED BY <1>1, <3>2 DEF TypeOK, HistType
  <2> QED BY <2>1, <2>2, ApplyIs
<1> QED BY <1>1, <1>4, <1>5, <1>6, RowsMove, UnchangedTypes, JobsKnownStays
        DEF TypeOK, metaVars, queueVars

LEMMA SenderTypes ==
  ASSUME TypeOK, [Next]_vars, SenderMove
  PROVE  TypeOK'
<1>1. UNCHANGED <<rows, metaVars, processed, workerVars, queueVars, slotVars, astray, renamed>>
  BY SenderMoveLeaves
<1>2. faults' \in Nat
  BY DEF SenderMove, FetchRow, StoreRow, ExpireEntry, Fault, TypeOK, SlotType
<1>3. CacheType' /\ behind' \subseteq Ids
  <2> USE DEF TypeOK, CacheType, HistType
  <2>1. ASSUME NEW p \in Readers, NEW i \in Ids, FetchRow(p, i)
        PROVE  CacheType' /\ behind' \subseteq Ids
    <3>1. rows[i] \in RowType
      BY <2>1, RowFacts DEF FetchRow
    <3>2. [id |-> i, row |-> rows[i]] \in [id : Ids, row : RowType]
      BY <3>1
    <3>3. UNCHANGED <<cache, behind>> /\ reading' = [reading EXCEPT ![p] = [id |-> i, row |-> rows[i]]]
      BY <2>1 DEF FetchRow, histVars
    <3> QED BY <3>2, <3>3
  <2>2. ASSUME NEW p \in Readers, StoreRow(p)
        PROVE  CacheType' /\ behind' \subseteq Ids
    <3>1. reading[p] \in [id : Ids, row : RowType]
      BY <2>2 DEF StoreRow
    <3>2. cache' = [cache EXCEPT ![reading[p].id] = reading[p].row] \/ UNCHANGED cache
      BY <2>2 DEF StoreRow
    <3>3. reading' = [reading EXCEPT ![p] = NoRead] /\ behind' \subseteq behind
      BY <2>2 DEF StoreRow
    <3> QED BY <3>1, <3>2, <3>3
  <2>3. ASSUME NEW i \in Ids, ExpireEntry(i)
        PROVE  CacheType' /\ behind' \subseteq Ids
    BY <2>3 DEF ExpireEntry
  <2> QED BY <2>1, <2>2, <2>3 DEF SenderMove
<1>4. SlotType' /\ RowsKnown' /\ HistType'
  BY <1>1, <1>2, <1>3, RowsKnownStays DEF TypeOK, SlotType, slotVars, HistType
<1> QED BY <1>1, <1>3, <1>4, UnchangedTypes, JobsKnownStays DEF TypeOK, metaVars, queueVars, workerVars

(* A worker lets go of its job. *)
LEMMA RunEnds ==
  ASSUME TypeOK, NEW w \in Workers, Release(w)
  PROVE  RunType' /\ \A v \in Workers : cur'[v] \in {cur[v], 0}
BY DEF TypeOK, RunType, Release, WGoto

(* The job that a step is about, and what happens to it. *)
JobMoves(j) ==
  /\ jobState[j] # "none"
  /\ QueueType' /\ \A k \in Jobs : jobState[k] # "none" => jobState'[k] # "none"
  /\ \A k \in Jobs \ {j} : jobState'[k] = jobState[k]
  /\ RunType' /\ \A v \in Workers : cur'[v] \in {cur[v], 0, j}
  /\ processed' \in {processed, processed \cup {j}} /\ faults' \in {faults, faults + 1}
  /\ Forgotten(j) \/ UNCHANGED astray

LEMMA JobIs ==
  ASSUME TypeOK, JobMove
  PROVE  \E j \in Jobs : JobMoves(j)
<1>1. UNCHANGED workerVars => RunType' /\ UNCHANGED cur
  BY UnchangedTypes DEF workerVars
<1>2. ASSUME NEW j \in Jobs, DecideAgain(j) PROVE JobMoves(j)
  BY <1>1, <1>2, QueueSteps DEF DecideAgain, Fault, TypeOK, JobMoves, histVars
<1>3. ASSUME NEW j \in Jobs, BackoffElapsed(j) \/ ReplayJob(j) PROVE JobMoves(j)
  <2>1. /\ BackoffOver(j) \/ Retry(j)
        /\ UNCHANGED <<processed, workerVars, faults, astray>>
    BY <1>3 DEF BackoffElapsed, ReplayJob, histVars
  <2>2. jobState[j] # "none"
    BY <2>1 DEF BackoffOver, Retry
  <2> QED BY <1>1, <2>1, <2>2, QueueSteps DEF TypeOK, JobMoves
<1>4. ASSUME NEW j \in Jobs, RecoverOrphan(j) PROVE JobMoves(j)
  <2>1. /\ PutBack(j) /\ UNCHANGED <<processed, workerVars, faults>>
        /\ Forgotten(j) \/ UNCHANGED astray
    BY <1>4 DEF RecoverOrphan
  <2>2. jobState[j] # "none"
    BY <2>1 DEF PutBack
  <2> QED BY <1>1, <2>1, <2>2, QueueSteps DEF TypeOK, JobMoves
<1>5. ASSUME NEW w \in Workers, TakeEvent(w) PROVE \E j \in Jobs : JobMoves(j)
  <2>1. PICK j \in Jobs : Take(w, j) /\ cur' = [cur EXCEPT ![w] = j]
    BY <1>5 DEF TakeEvent
  <2>2. WGoto(w, "record") /\ UNCHANGED <<processed, faults, astray>>
    BY <1>5 DEF TakeEvent, histVars
  <2>3. j # 0
    BY TemplatesAssumption
  <2>4. RunType' /\ \A v \in Workers : cur'[v] \in {cur[v], j}
    BY <2>1, <2>2, <2>3 DEF TypeOK, RunType, WGoto
  <2>5. jobState[j] # "none"
    BY <2>1 DEF Take
  <2> QED BY <2>1, <2>2, <2>4, <2>5, QueueSteps DEF TypeOK, JobMoves
<1>6. ASSUME NEW w \in Workers, RecordEvent(w) PROVE \E j \in Jobs : JobMoves(j)
  <2>1. cur[w] \in Jobs /\ jobState[cur[w]] # "none" /\ cur[w] # 0
    BY <1>6, RunHasDecision, TemplatesAssumption DEF RecordEvent
  <2>2. /\ WGoto(w, "apply") \/ WGoto(w, "complete") \/ WGoto(w, "threw")
        /\ processed' \in {processed, processed \cup {cur[w]}}
        /\ faults' \in {faults, faults + 1}
        /\ Forgotten(cur[w]) \/ UNCHANGED astray
        /\ UNCHANGED <<cur, queueVars>>
    BY <1>6 DEF RecordEvent, Fault
  <2>3. RunType'
    BY <2>1, <2>2, RunGoesOn
  <2> QED BY <2>1, <2>2, <2>3, QueueSteps DEF TypeOK, JobMoves
<1>7. ASSUME NEW w \in Workers, EndJob(w) PROVE \E j \in Jobs : JobMoves(j)
  <2>1. cur[w] \in Jobs /\ jobState[cur[w]] # "none"
    BY <1>7, RunHasDecision DEF EndJob
  <2>2. /\ Complete(w, cur[w]) \/ Threw(w, cur[w])
        /\ Forgotten(cur[w]) \/ UNCHANGED astray
        /\ Release(w) /\ UNCHANGED <<processed, faults>>
    BY <1>7 DEF EndJob, EndOf
  <2> QED BY <2>1, <2>2, QueueSteps, RunEnds DEF TypeOK, JobMoves
<1>8. ASSUME NEW w \in Workers, CrashWorker(w) PROVE \E j \in Jobs : JobMoves(j)
  <2>1. cur[w] \in Jobs /\ jobState[cur[w]] # "none"
    BY <1>8, RunHasDecision DEF CrashWorker
  <2>2. /\ DropLocks({w}) /\ Release(w) /\ faults' = faults + 1
        /\ UNCHANGED <<processed, astray>>
    BY <1>8 DEF CrashWorker, Fault, histVars
  <2> QED BY <2>1, <2>2, QueueSteps, RunEnds DEF TypeOK, JobMoves
<1> QED BY <1>2, <1>3, <1>4, <1>5, <1>6, <1>7, <1>8 DEF JobMove

LEMMA JobTypes ==
  ASSUME TypeOK, [Next]_vars, JobMove
  PROVE  TypeOK'
<1>1. UNCHANGED <<rows, metaVars, slotVars, cacheVars, behind, renamed>>
  BY JobMoveLeaves
<1>2. PICK j \in Jobs : JobMoves(j)
  BY JobIs
<1>3. QueueType' /\ RunType' /\ faults' \in {faults, faults + 1}
  BY <1>2 DEF JobMoves
<1>4. JobsKnown'
  <2>1. decisions[j] # NoDecision
    BY <1>2 DEF TypeOK, JobsKnown, JobMoves
  <2>2. \A k \in Jobs : decisions'[k] = NoDecision => decisions[k] = NoDecision /\ jobState'[k] = jobState[k]
    BY <1>1, <1>2, <2>1 DEF metaVars, JobMoves
  <2>3. \A v \in Workers : cur'[v] \in {cur[v], 0} \/ jobState'[cur'[v]] # "none"
    BY <1>2 DEF JobMoves
  <2> QED BY <1>2, <2>2, <2>3, JobsKnownGrows DEF JobMoves
<1>5. HistType'
  BY <1>1, <1>2, JobHistory DEF JobMoves
<1>6. EventType'
  BY <1>1, <1>2 DEF TypeOK, EventType, metaVars, JobMoves
<1>7. SlotType' /\ RowsKnown'
  <2>1. faults' \in Nat
    BY <1>3 DEF TypeOK, SlotType
  <2> QED BY <1>1, <2>1, RowsKnownStays DEF TypeOK, SlotType, slotVars
<1> QED BY <1>1, <1>3, <1>4, <1>5, <1>6, <1>7, RowsMove, UnchangedTypes DEF TypeOK

LEMMA TypeStep ==
  TypeOK /\ [Next]_vars => TypeOK'
<1> SUFFICES ASSUME TypeOK, [Next]_vars PROVE TypeOK'
  OBVIOUS
<1>1. CASE UNCHANGED vars
  <2>1. /\ UNCHANGED <<queueVars, rows, metaVars, processed, workerVars, slotVars, faults>>
        /\ UNCHANGED <<cacheVars, histVars, cur, decisions, jobState, pc, mem>>
    BY <1>1 DEF vars, workerVars, metaVars, queueVars, slotVars
  <2> QED BY <2>1, UnchangedTypes, JobsKnownStays, RowsKnownStays DEF TypeOK
<1> QED BY <1>1, Moves, RequestTypes, JobTypes, SenderTypes, DecideTypes, ApplyTypes

LEMMA TypeInit == Init => TypeOK
<1> SUFFICES ASSUME Init PROVE TypeOK
  OBVIOUS
<1> USE DEF Init
<1>1. QueueType
  BY DEF QueueInit, QueueType
<1>2. RowsType
  BY TemplatesAssumption DEF RowsType, NoRow
<1>3. EventType /\ RunType
  BY TemplatesAssumption DEF EventType, MetaType, RunType
<1>4. JobsKnown
  BY DEF JobsKnown, QueueInit
<1>5. SlotType /\ RowsKnown
  BY DEF SlotType, MemFits, RowsKnown, Labels
<1>6. CacheType /\ HistType
  BY DEF CacheType, HistType
<1> QED BY <1>1, <1>2, <1>3, <1>4, <1>5, <1>6 DEF TypeOK

(* Every variable keeps its type, every name has at most one row, a job is  *)
(* about a decision, and a request knows rows that are there.               *)
THEOREM TemplateTypes == Spec => []TypeOK
<1>1. TypeOK /\ [Next]_vars => TypeOK'
  BY TypeStep
<1> QED BY <1>1, TypeInit, PTL DEF Spec

-----------------------------------------------------------------------------
(* The cache.                                                               *)

(* Whoever is about to clear the cache still is. *)
ClearsStay == \A s \in Slots : pc[s] = "clear" => pc'[s] = "clear" /\ mem'[s] = mem[s]

LEMMA RequestClears ==
  ASSUME TypeOK, [Next]_vars, NEW s \in Slots,
         \/ CreateTemplate(s) \/ UpdateTemplate(s) \/ DeleteTemplate(s) \/ SyncTemplates(s)
         \/ SlotStep(s) /\ ~ ClearCache(s)
  PROVE  ClearsStay
<1>1. CASE DeleteTemplate(s)
  BY <1>1 DEF DeleteTemplate, ClearsStay
<1>2. CASE ~ DeleteTemplate(s)
  <2>1. SlotFits(s)
    BY <1>2, BeginFits, RequestFits
  <2>2. pc[s] # "clear"
    BY <1>2 DEF CreateTemplate, UpdateTemplate, SyncTemplates, Begin, SlotStep, InsertTemplate,
       SubmitTemplate, SaveProviderId, WriteUpdate, ChangeAtMeta, PushPending, FetchTemplates,
       PullNext, UpsertPulled
  <2> QED BY <2>1, <2>2 DEF SlotFits, ClearsStay
<1> QED BY <1>1, <1>2

(* What a write to a row has to leave behind. *)
LEMMA CacheStays ==
  ASSUME TypeOK, [Next]_vars, CacheInv, UNCHANGED cacheVars, behind \subseteq behind', ClearsStay,
         \A i \in Ids : rows'[i] = rows[i] \/ ~ Held(i) \/ Excused(i)'
  PROVE  CacheInv'
<1> USE DEF cacheVars
<1>1. HeldExists'
  <2>1. \A i \in Ids : rows'[i] = NoRow => rows[i] = NoRow
    BY RowsStay
  <2> QED BY <2>1 DEF CacheInv, HeldExists, Held
<1>2. \A i \in Ids : rows'[i] = rows[i] /\ Excused(i) => Excused(i)'
  BY DEF Excused, ClearsStay
<1>3. ASSUME NEW p \in Readers, reading[p] # NoRead, reading[p].row # rows'[reading[p].id]
      PROVE  Excused(reading[p].id)'
  <2>1. reading[p].id \in Ids
    BY <1>3 DEF TypeOK, CacheType
  <2>2. Held(reading[p].id)
    BY DEF Held
  <2> QED BY <1>2, <1>3, <2>1, <2>2 DEF CacheInv, ReadIsCurrent
<1>4. ASSUME NEW i \in Ids, cache[i] \notin {NoRow, rows'[i]}
      PROVE  Excused(i)'
  <2>1. Held(i)
    BY <1>4 DEF Held
  <2>2. rows'[i] = rows[i] => Excused(i)
    BY <1>4 DEF CacheInv, CachedIsCurrent, Excused
  <2> QED BY <1>2, <2>1, <2>2
<1>5. ReadIsCurrent'
  BY <1>3 DEF ReadIsCurrent, Excused
<1>6. CachedIsCurrent'
  BY <1>4 DEF CachedIsCurrent, Excused
<1> QED BY <1>1, <1>5, <1>6 DEF CacheInv

LEMMA OutdatedIsSaid ==
  ASSUME TypeOK, NEW i \in Ids, Outdated(i), NEW r, rows' = [rows EXCEPT ![i] = r]
  PROVE  /\ behind \subseteq behind'
         /\ \A k \in Ids : rows'[k] = rows[k] \/ ~ Held(k) \/ Excused(k)'
BY DEF TypeOK, RowsType, Outdated, Excused

LEMMA InsertedIsNotHeld ==
  ASSUME TypeOK, CacheInv, NEW i \in Ids, rows[i] = NoRow, NEW r, rows' = [rows EXCEPT ![i] = r]
  PROVE  \A k \in Ids : rows'[k] = rows[k] \/ ~ Held(k) \/ Excused(k)'
BY DEF TypeOK, RowsType, CacheInv, HeldExists

LEMMA RequestCache ==
  ASSUME TypeOK, [Next]_vars, CacheInv, NEW s \in Slots,
         \/ CreateTemplate(s) \/ UpdateTemplate(s) \/ DeleteTemplate(s) \/ SyncTemplates(s)
         \/ SlotStep(s) /\ ~ ClearCache(s)
  PROVE  CacheInv'
<1>1. ClearsStay
  BY RequestClears
<1>2. UNCHANGED cacheVars
  BY DEF CreateTemplate, UpdateTemplate, DeleteTemplate, SyncTemplates, SlotStep, InsertTemplate,
     SubmitTemplate, SaveProviderId, WriteUpdate, ChangeAtMeta, PushPending, FetchTemplates,
     PullNext, UpsertPulled
<1>3. CASE UNCHANGED <<rows, behind>>
  BY <1>1, <1>2, <1>3, CacheStays
<1>4. CASE CreateTemplate(s) \/ UpdateTemplate(s) \/ SyncTemplates(s) \/ FetchTemplates(s) \/ PullNext(s)
           \/ SubmitTemplate(s) \/ ChangeAtMeta(s)
  BY <1>3, <1>4 DEF CreateTemplate, UpdateTemplate, SyncTemplates, FetchTemplates, PullNext,
     SubmitTemplate, ChangeAtMeta, histVars
<1>5. CASE InsertTemplate(s)
  <2>1. UNCHANGED behind
    BY <1>5 DEF InsertTemplate
  <2> QED BY <1>1, <1>2, <1>3, <1>5, <2>1, InsertIs, InsertedIsNotHeld, CacheStays
<1>6. CASE SaveProviderId(s)
  <2>1. mem[s].id \in Ids /\ Outdated(mem[s].id)
    BY <1>6, SaveIs
  <2>2. CASE UNCHANGED rows
    <3>1. behind \subseteq behind'
      BY <2>1 DEF Outdated
    <3> QED BY <1>1, <1>2, <2>2, <3>1, CacheStays
  <2>3. CASE \E r : rows' = [rows EXCEPT ![mem[s].id] = r]
    BY <1>1, <1>2, <2>1, <2>3, OutdatedIsSaid, CacheStays
  <2> QED BY <1>6, <2>2, <2>3, SaveIs
<1>7. CASE WriteUpdate(s)
  <2>1. CASE UNCHANGED <<rows, histVars>>
    BY <1>3, <2>1 DEF histVars
  <2>2. CASE \E r \in RowType, i \in Ids : rows' = [rows EXCEPT ![i] = r] /\ Outdated(i)
    BY <1>1, <1>2, <2>2, OutdatedIsSaid, CacheStays
  <2> QED BY <1>7, <2>1, <2>2, WriteIs
<1>8. CASE PushPending(s)
  <2>1. CASE UNCHANGED <<rows, behind>>
    BY <1>3, <2>1
  <2>2. CASE \E t \in mem[s].todo :
               /\ t \in [id : Ids, row : RowType] /\ Outdated(t.id)
               /\ rows' = [rows EXCEPT ![t.id].provider = MetaName(t.row.name)]
    <3>1. PICK t \in mem[s].todo :
               /\ t \in [id : Ids, row : RowType] /\ Outdated(t.id)
               /\ rows' = [rows EXCEPT ![t.id].provider = MetaName(t.row.name)]
      BY <2>2
    <3>2. rows' = [rows EXCEPT ![t.id] = [rows[t.id] EXCEPT !.provider = MetaName(t.row.name)]]
      BY <3>1 DEF TypeOK, RowsType
    <3> QED BY <1>1, <1>2, <3>1, <3>2, OutdatedIsSaid, CacheStays
  <2> QED BY <1>8, <2>1, <2>2, PushIs
<1>9. CASE UpsertPulled(s)
  <2>1. UNCHANGED behind
    BY <1>9 DEF UpsertPulled
  <2>2. CASE UNCHANGED rows
    BY <1>3, <2>1, <2>2
  <2>3. ASSUME NEW r \in RowType, NEW i \in Ids, rows' = [rows EXCEPT ![i] = r], r.name = mem[s].name,
               rows[i].name \in {r.name, "none"}, rows' # rows, Goto(s, "clear"), UNCHANGED mem
        PROVE  CacheInv'
    <3>1. rows'[i] = r /\ pc'[s] = "clear" /\ mem'[s].name = r.name
      BY <2>3 DEF TypeOK, RowsType, SlotType, Goto
    <3>2. Excused(i)'
      BY <3>1 DEF Excused
    <3>3. \A k \in Ids \ {i} : rows'[k] = rows[k]
      BY <2>3 DEF TypeOK, RowsType
    <3> QED BY <1>1, <1>2, <2>1, <3>2, <3>3, CacheStays
  <2> QED BY <1>9, <2>2, <2>3, UpsertIs
<1>10. CASE DeleteTemplate(s)
  BY <1>1, <1>2, <1>10, DeleteIs, OutdatedIsSaid, CacheStays
<1> QED BY <1>4, <1>5, <1>6, <1>7, <1>8, <1>9, <1>10 DEF SlotStep

(* One who was about to clear the cache leaves: what it found is behind. *)
LEMMA ClearEnds ==
  ASSUME TypeOK, [Next]_vars, CacheInv, NEW s \in Slots, ClearCache(s) \/ Crash(s)
  PROVE  CacheInv'
<1> DEFINE found == RowsOf(mem[s].name)
<1>1. UNCHANGED <<rows, reading>> /\ SlotFits(s)
  BY RequestFits DEF ClearCache, Crash, SlotStep, cacheVars
<1>2. \A v \in Slots \ {s} : pc'[v] = pc[v] /\ mem'[v] = mem[v]
  BY <1>1 DEF SlotFits
<1>3. CASE UNCHANGED cache /\ behind' = (IF pc[s] = "clear" THEN behind \cup found ELSE behind)
  <2>1. \A i \in Ids : Excused(i) => Excused(i)'
    BY <1>1, <1>2, <1>3 DEF Excused, RowsOf
  <2>2. HeldExists'
    BY <1>1, <1>3 DEF CacheInv, HeldExists, Held
  <2>3. \A p \in Readers : reading[p] # NoRead => reading[p].id \in Ids
    BY DEF TypeOK, CacheType
  <2>4. ReadIsCurrent'
    BY <1>1, <2>1, <2>3 DEF CacheInv, ReadIsCurrent
  <2>5. CachedIsCurrent'
    BY <1>1, <1>3, <2>1 DEF CacheInv, CachedIsCurrent, Excused
  <2> QED BY <2>2, <2>4, <2>5 DEF CacheInv
<1>4. CASE /\ cache' = [i \in Ids |-> IF i \in found THEN NoRow ELSE cache[i]]
           /\ behind' = (behind \ found) \cup {i \in found : \E p \in Readers :
                                                 reading[p].id = i /\ reading[p].row # rows[i]}
  <2>1. \A i \in Ids : Excused(i) /\ i \notin found => Excused(i)'
    BY <1>1, <1>2, <1>4 DEF Excused, RowsOf
  <2>2. HeldExists'
    BY <1>1, <1>4 DEF CacheInv, HeldExists, Held
  <2>3. \A p \in Readers : reading[p] # NoRead => reading[p].id \in Ids
    BY DEF TypeOK, CacheType
  <2>4. ASSUME NEW p \in Readers, reading[p] # NoRead, reading[p].row # rows[reading[p].id]
        PROVE  Excused(reading[p].id)'
    <3>1. CASE reading[p].id \in found
      BY <1>1, <1>4, <2>4, <3>1 DEF Excused
    <3>2. CASE reading[p].id \notin found
      BY <1>1, <2>1, <2>3, <2>4, <3>2 DEF CacheInv, ReadIsCurrent
    <3> QED BY <3>1, <3>2
  <2>5. ReadIsCurrent'
    BY <1>1, <2>4 DEF ReadIsCurrent, Excused
  <2>6. CachedIsCurrent'
    BY <1>1, <1>4, <2>1 DEF CacheInv, CachedIsCurrent, Excused
  <2> QED BY <2>2, <2>5, <2>6 DEF CacheInv
<1>5. CASE ClearCache(s)
  BY <1>3, <1>4, <1>5 DEF ClearCache
<1>6. CASE Crash(s)
  BY <1>3, <1>6 DEF Crash, cacheVars
<1> QED BY <1>5, <1>6

LEMMA SenderCache ==
  ASSUME TypeOK, CacheInv, SenderMove
  PROVE  CacheInv'
<1>1. UNCHANGED <<rows, pc, mem>>
  BY SenderMoveLeaves DEF slotVars
<1>2. ASSUME NEW p \in Readers, NEW i \in Ids, FetchRow(p, i)
      PROVE  CacheInv'
  <2>1. /\ rows[i].name \in Names /\ reading' = [reading EXCEPT ![p] = [id |-> i, row |-> rows[i]]]
        /\ UNCHANGED <<cache, behind>>
    BY <1>2 DEF FetchRow, histVars
  <2>2. /\ reading'[p] = [id |-> i, row |-> rows[i]]
        /\ \A q \in Readers \ {p} : reading'[q] = reading[q]
    BY <2>1 DEF TypeOK, CacheType
  <2>3. rows[i] # NoRow
    BY <2>1, RowFacts DEF TypeOK
  <2>4. HeldExists'
    BY <1>1, <2>1, <2>2, <2>3 DEF CacheInv, HeldExists, Held
  <2>5. \A k : Excused(k)' <=> Excused(k)
    BY <1>1, <2>1 DEF Excused
  <2>6. ReadIsCurrent'
    BY <1>1, <2>2, <2>5 DEF CacheInv, ReadIsCurrent
  <2>7. CachedIsCurrent'
    BY <1>1, <2>1 DEF CacheInv, CachedIsCurrent
  <2> QED BY <2>4, <2>6, <2>7 DEF CacheInv
<1>3. ASSUME NEW p \in Readers, StoreRow(p)
      PROVE  CacheInv'
  <2> DEFINE i == reading[p].id
             settled == cache'[i] \in {NoRow, rows[i]} /\ \A q \in Readers \ {p} : reading[q].id # i
  <2>1. /\ reading[p] # NoRead /\ reading' = [reading EXCEPT ![p] = NoRead]
        /\ cache' = [cache EXCEPT ![i] = reading[p].row] \/ UNCHANGED cache
        /\ behind' = IF settled THEN behind \ {i} ELSE behind
    BY <1>3 DEF StoreRow
  <2>2. i \in Ids /\ 0 \notin Ids
    BY <2>1, TemplatesAssumption DEF TypeOK, CacheType
  <2>3. /\ \A q \in Readers : reading'[q] = IF q = p THEN NoRead ELSE reading[q]
        /\ \A k \in Ids : cache'[k] = cache[k] \/ (k = i /\ cache'[k] = reading[p].row)
    BY <2>1 DEF TypeOK, CacheType
  <2>4. HeldExists'
    <3>1. NoRead.id = 0
      BY DEF NoRead
    <3>2. rows[i] # NoRow
      BY <2>2 DEF CacheInv, HeldExists, Held
    <3> QED BY <1>1, <2>2, <2>3, <3>1, <3>2 DEF CacheInv, HeldExists, Held
  <2>5. \A k \in Ids : Excused(k) => Excused(k)' \/ (k = i /\ settled)
    BY <1>1, <2>1 DEF Excused
  <2>6. ASSUME NEW q \in Readers, NEW k, k = reading'[q].id,
               reading'[q] # NoRead, reading'[q].row # rows[k]
        PROVE  Excused(k)'
    <3>1. q # p /\ reading'[q] = reading[q]
      BY <2>3, <2>6
    <3>2. k = reading[q].id /\ k \in Ids /\ Excused(k)
      BY <2>6, <3>1 DEF TypeOK, CacheType, CacheInv, ReadIsCurrent
    <3>3. ~ (k = i /\ settled)
      BY <3>1, <3>2
    <3> QED BY <2>5, <3>2, <3>3
  <2>7. ASSUME NEW k \in Ids, cache'[k] \notin {NoRow, rows[k]}
        PROVE  Excused(k)'
    <3>1. ~ (k = i /\ settled)
      BY <2>7
    <3>2. CASE cache'[k] = cache[k]
      BY <2>5, <2>7, <3>1, <3>2 DEF CacheInv, CachedIsCurrent, Excused
    <3>3. CASE k = i /\ cache'[k] = reading[p].row
      BY <2>1, <2>5, <2>7, <3>1, <3>3 DEF CacheInv, ReadIsCurrent
    <3> QED BY <2>3, <3>2, <3>3
  <2>8. ReadIsCurrent'
    BY <1>1, <2>6 DEF ReadIsCurrent, Excused
  <2>9. CachedIsCurrent'
    BY <1>1, <2>7 DEF CachedIsCurrent, Excused
  <2> QED BY <2>4, <2>8, <2>9 DEF CacheInv
<1>4. ASSUME NEW i \in Ids, ExpireEntry(i)
      PROVE  CacheInv'
  <2>1. /\ cache' = [cache EXCEPT ![i] = NoRow] /\ UNCHANGED reading
        /\ behind' = IF \E p \in Readers : reading[p].id = i THEN behind ELSE behind \ {i}
    BY <1>4 DEF ExpireEntry
  <2>2. \A k \in Ids : cache'[k] = IF k = i THEN NoRow ELSE cache[k]
    BY <2>1 DEF TypeOK, CacheType
  <2>3. HeldExists'
    BY <1>1, <2>1, <2>2 DEF CacheInv, HeldExists, Held
  <2>4. \A k \in Ids : Excused(k) => Excused(k)' \/ (k = i /\ \A p \in Readers : reading[p].id # i)
    BY <1>1, <2>1 DEF Excused
  <2>5. \A p \in Readers : reading[p] # NoRead => reading[p].id \in Ids
    BY DEF TypeOK, CacheType
  <2>6. ReadIsCurrent'
    BY <1>1, <2>1, <2>4, <2>5 DEF CacheInv, ReadIsCurrent
  <2>7. CachedIsCurrent'
    BY <1>1, <2>2, <2>4 DEF CacheInv, CachedIsCurrent, Excused
  <2> QED BY <2>3, <2>6, <2>7 DEF CacheInv
<1> QED BY <1>2, <1>3, <1>4 DEF SenderMove

LEMMA CacheStep ==
  TypeOK /\ CacheInv /\ [Next]_vars => CacheInv'
<1> SUFFICES ASSUME TypeOK, CacheInv, [Next]_vars PROVE CacheInv'
  OBVIOUS
<1>1. CASE UNCHANGED <<rows, behind, pc, mem, cacheVars>>
  <2>1. ClearsStay
    BY <1>1 DEF ClearsStay
  <2> QED BY <1>1, <2>1, CacheStays
<1>2. CASE UNCHANGED vars
  BY <1>1, <1>2 DEF vars, histVars, slotVars
<1>3. CASE RequestMove
  <2>1. ASSUME NEW s \in Slots,
               \/ CreateTemplate(s) \/ UpdateTemplate(s) \/ DeleteTemplate(s) \/ SyncTemplates(s)
               \/ SlotStep(s) /\ ~ ClearCache(s)
        PROVE  CacheInv'
    BY <2>1, RequestCache
  <2>2. ASSUME NEW s \in Slots, ClearCache(s) \/ Crash(s)
        PROVE  CacheInv'
    BY <2>2, ClearEnds
  <2> QED BY <1>3, <2>1, <2>2 DEF RequestMove
<1>4. CASE JobMove
  BY <1>1, <1>4, JobMoveLeaves DEF slotVars
<1>5. CASE SenderMove
  BY <1>5, SenderCache
<1>6. CASE \E j \in Jobs : Decide(j)
  BY <1>1, <1>6 DEF Decide, slotVars
<1>7. ASSUME NEW w \in Workers, ApplyEvent(w)
      PROVE  CacheInv'
  <2>1. UNCHANGED <<pc, mem, cacheVars>> /\ ClearsStay
    BY <1>7 DEF ApplyEvent, slotVars, ClearsStay
  <2>2. CASE UNCHANGED <<rows, behind>>
    BY <1>1, <2>1, <2>2
  <2>3. CASE \E r \in RowType, i \in Ids : rows' = [rows EXCEPT ![i] = r] /\ Outdated(i)
    BY <2>1, <2>3, OutdatedIsSaid, CacheStays
  <2>4. CASE \E r \in RowType, i \in Ids : rows[i] = NoRow /\ rows' = [rows EXCEPT ![i] = r] /\ UNCHANGED behind
    BY <2>1, <2>4, InsertedIsNotHeld, CacheStays
  <2> QED BY <1>7, <2>2, <2>3, <2>4, ApplyIs
<1> QED BY <1>2, <1>3, <1>4, <1>5, <1>6, <1>7, Moves

LEMMA CacheInit == Init => CacheInv
<1> SUFFICES ASSUME Init PROVE CacheInv
  OBVIOUS
<1>1. 0 \notin Ids /\ NoRead.id = 0
  BY TemplatesAssumption DEF NoRead
<1> QED BY <1>1 DEF Init, CacheInv, HeldExists, Held, ReadIsCurrent, CachedIsCurrent

(* A cached row is the row of the database unless a write that nobody       *)
(* clears came after it was read, or a sync is about to clear it: the       *)
(* invariant is that what a process has read, and is about to cache, is as  *)
(* good as what is cached.                                                  *)
THEOREM CacheFollowsRows == Spec => []CachedIsCurrent
<1>1. TypeOK /\ CacheInv /\ [Next]_vars => TypeOK' /\ CacheInv'
  BY TypeStep, CacheStep
<1>2. CacheInv => CachedIsCurrent
  BY DEF CacheInv
<1> QED BY <1>1, <1>2, TypeInit, CacheInit, PTL DEF Spec

-----------------------------------------------------------------------------
(* Ids that Meta gave.                                                      *)

(* Meta forgets no name. *)
LEMMA MetaGrows ==
  ASSUME TypeOK, [Next]_vars
  PROVE  \A n \in Names : meta[n].status # "none" => meta'[n].status # "none"
<1>1. CASE UNCHANGED meta
  BY <1>1
<1>2. ASSUME NEW j \in Jobs, Decide(j)
      PROVE  \A n \in Names : meta[n].status # "none" => meta'[n].status # "none"
  BY <1>2, DecideIs
<1>3. JobMove \/ SenderMove \/ (\E w \in Workers : ApplyEvent(w)) \/ UNCHANGED vars => UNCHANGED meta
  BY JobMoveLeaves, SenderMoveLeaves DEF metaVars, vars, ApplyEvent
<1> QED BY <1>1, <1>2, <1>3, Moves, RequestMeta

(* Row i, if it has an id, has the name of a template that Meta has. *)
IdIsMetas(i) ==
  rows[i].name \in Names /\ rows[i].provider # NoId => meta[rows[i].name].status # "none"

LEMMA IdStays ==
  ASSUME TypeOK, [Next]_vars, NEW i \in Ids, IdIsMetas(i),
         rows'[i] = rows[i] \/ (rows'[i].name = rows[i].name /\ rows'[i].provider = rows[i].provider)
  PROVE  IdIsMetas(i)'
BY MetaGrows DEF IdIsMetas

(* What a write to row i has to say. *)
LEMMA IdWritten ==
  ASSUME IdInv, [Next]_vars, NEW i \in Ids, NEW r, rows' = [rows EXCEPT ![i] = r],
         i \notin renamed' /\ r.name \in Names /\ r.provider # NoId => meta'[r.name].status # "none"
  PROVE  \A k \in Ids \ renamed' : IdIsMetas(k)'
<1>1. rows'[i] = r /\ \A k \in Ids \ {i} : rows'[k] = rows[k]
  BY DEF IdInv, IdMeansSubmitted, TypeOK, RowsType
<1>2. renamed \subseteq renamed' /\ TypeOK
  BY RowsMove DEF IdInv, IdMeansSubmitted
<1>3. \A k \in Ids \ renamed : IdIsMetas(k)
  BY DEF IdInv, IdMeansSubmitted, IdIsMetas
<1>4. i \notin renamed' => IdIsMetas(i)'
  BY <1>1 DEF IdIsMetas
<1>5. ASSUME NEW k \in Ids \ renamed', k # i
      PROVE  IdIsMetas(k)'
  BY <1>1, <1>2, <1>3, <1>5, IdStays
<1> QED BY <1>4, <1>5

LEMMA RequestIds ==
  ASSUME IdInv, [Next]_vars, NEW s \in Slots, SlotStep(s) \/ DeleteTemplate(s), rows' # rows
  PROVE  \A k \in Ids \ renamed' : IdIsMetas(k)'
<1>1. TypeOK /\ RequestKnows(s) /\ SyncKnows(s) /\ \A k \in Ids \ renamed : IdIsMetas(k)
  BY DEF IdInv, IdMeansSubmitted, IdIsMetas
<1>2. \A n \in Names : meta[n].status # "none" => meta'[n].status # "none"
  BY <1>1, MetaGrows
<1>3. \A r \in RowType : r.name \in Names
  BY DEF RowType
<1>4. renamed \subseteq renamed'
  BY <1>1, RowsMove
<1>5. CASE InsertTemplate(s)
  <2>1. mem[s].row.provider = NoId
    BY <1>1, <1>5, InsertIs DEF RequestKnows
  <2> QED BY <1>1, <1>5, <2>1, InsertIs, IdWritten
<1>6. CASE SaveProviderId(s)
  <2> DEFINE i == mem[s].id
             r == [rows[i] EXCEPT !.provider = mem[s].row.provider]
  <2>1. /\ pc[s] = "saveId" /\ i \in Ids /\ rows[i] \in RowType /\ mem[s].row.provider # NoId
        /\ rows' = [rows EXCEPT ![i] = r] /\ r \in RowType
    BY <1>1, <1>6, SaveIs
  <2>2. r.name = rows[i].name
    BY <2>1 DEF RowType
  <2> HIDE DEF r
  <2>3. i \notin renamed => rows[i].name = mem[s].row.name
    BY <1>1, <1>3, <2>1, TemplatesAssumption DEF RequestKnows, NameHolds
  <2>4. i \notin renamed => meta[mem[s].row.name].status # "none"
    BY <1>1, <2>1 DEF RequestKnows
  <2> QED BY <1>2, <1>3, <1>4, <2>1, <2>2, <2>3, <2>4, IdWritten
<1>7. CASE WriteUpdate(s)
  <2>1. PICK r \in RowType, i \in Ids :
          /\ rows[i] \in RowType /\ r.provider = rows[i].provider /\ rows' = [rows EXCEPT ![i] = r]
          /\ renamed' = IF r.name = rows[i].name THEN renamed ELSE renamed \cup {i}
    BY <1>1, <1>7, WriteIs
  <2>2. i \notin renamed' => r.name = rows[i].name /\ i \notin renamed
    BY <2>1
  <2>3. i \notin renamed' /\ r.provider # NoId => meta[r.name].status # "none"
    BY <1>1, <1>3, <2>1, <2>2 DEF IdIsMetas
  <2> QED BY <1>2, <1>3, <2>1, <2>3, IdWritten
<1>8. CASE PushPending(s)
  <2>1. PICK t \in mem[s].todo :
          /\ t \in [id : Ids, row : RowType] /\ rows[t.id] # Gone
          /\ rows' = [rows EXCEPT ![t.id].provider = MetaName(t.row.name)]
          /\ meta'[t.row.name].status # "none"
    BY <1>1, <1>8, PushIs
  <2> DEFINE r == [rows[t.id] EXCEPT !.provider = MetaName(t.row.name)]
  <2>2. pc[s] = "push" /\ rows[t.id] \in RowType
    BY <1>1, <1>8, <2>1, PushIs DEF TypeOK, RowsKnown, RowsType
  <2>3. rows' = [rows EXCEPT ![t.id] = r] /\ r.name = rows[t.id].name
    BY <1>1, <2>1, <2>2 DEF TypeOK, RowsType, RowType
  <2> HIDE DEF r
  <2>4. t.id \notin renamed => rows[t.id].name = t.row.name
    BY <1>1, <1>3, <2>1, <2>2, TemplatesAssumption DEF RequestKnows, NameHolds
  <2>5. t.id \in Ids
    BY <2>1
  <2>6. t.id \notin renamed' => r.name = t.row.name
    BY <1>4, <2>3, <2>4
  <2>7. t.id \notin renamed' => meta'[r.name].status # "none"
    BY <2>1, <2>6
  <2> QED BY <2>3, <2>5, <2>7, IdWritten
<1>9. CASE UpsertPulled(s)
  <2>1. PICK r \in RowType, i \in Ids : r.name = mem[s].name /\ rows' = [rows EXCEPT ![i] = r]
    BY <1>1, <1>9, UpsertIs
  <2>2. meta[r.name].status # "none"
    BY <1>1, <1>9, <2>1 DEF UpsertPulled, SyncKnows, Existing
  <2> QED BY <1>2, <1>3, <2>1, <2>2, IdWritten
<1>10. CASE DeleteTemplate(s)
  <2>1. PICK i \in Ids : rows' = [rows EXCEPT ![i] = Gone]
    BY <1>1, <1>10, DeleteIs
  <2>2. Gone.name \notin Names
    BY TemplatesAssumption DEF Gone
  <2> QED BY <2>1, <2>2, IdWritten
<1> QED BY <1>5, <1>6, <1>7, <1>8, <1>9, <1>10, RequestLeavesRows DEF SlotStep

LEMMA IdsKept ==
  ASSUME IdInv, [Next]_vars
  PROVE  \A k \in Ids \ renamed' : IdIsMetas(k)'
<1>1. TypeOK /\ \A k \in Ids \ renamed : IdIsMetas(k)
  BY DEF IdInv, IdMeansSubmitted, IdIsMetas
<1>2. renamed \subseteq renamed'
  BY <1>1, RowsMove
<1>3. CASE UNCHANGED rows
  BY <1>1, <1>2, <1>3, IdStays
<1>4. CASE rows' # rows /\ RequestMove
  BY <1>4, RequestIds, RequestLeavesRows DEF RequestMove
<1>5. ASSUME rows' # rows, NEW w \in Workers, ApplyEvent(w)
      PROVE  \A k \in Ids \ renamed' : IdIsMetas(k)'
  <2>1. renamed' = renamed
    BY <1>5 DEF ApplyEvent
  <2>2. ASSUME NEW r \in RowType, NEW i \in Ids, rows' = [rows EXCEPT ![i] = r],
               \/ rows[i] \in RowType /\ r.name = rows[i].name /\ r.provider = rows[i].provider
               \/ r.provider = NoId
        PROVE  \A k \in Ids \ renamed' : IdIsMetas(k)'
    <3>1. r.name \in Names
      BY DEF RowType
    <3>2. i \notin renamed /\ r.provider # NoId => meta'[r.name].status # "none"
      BY <1>1, <2>2, <3>1, MetaGrows DEF IdIsMetas
    <3> QED BY <2>1, <2>2, <3>2, IdWritten
  <2> QED BY <1>1, <1>5, <2>2, ApplyIs
<1>6. JobMove \/ SenderMove \/ (\E j \in Jobs : Decide(j)) \/ UNCHANGED vars => UNCHANGED rows
  BY JobMoveLeaves, SenderMoveLeaves DEF vars, Decide
<1> QED BY <1>3, <1>4, <1>5, <1>6, Moves

(* A request that does not move still knows what it knew. *)
LEMMA KnowsStays ==
  ASSUME TypeOK, [Next]_vars, NEW v \in Slots, RequestKnows(v), SyncKnows(v),
         pc'[v] = pc[v], mem'[v] = mem[v]
  PROVE  RequestKnows(v)' /\ SyncKnows(v)'
<1>1. /\ renamed \subseteq renamed' /\ \A i \in Ids : RowMoves(i)
      /\ \A n \in Names : meta[n].status # "none" => meta'[n].status # "none"
  BY RowsMove, MetaGrows
<1>2. ASSUME NEW i \in Ids, NEW n, rows[i] # NoRow, NameHolds(i, n)
      PROVE  NameHolds(i, n)'
  BY <1>1, <1>2 DEF NameHolds, RowMoves, Gone
<1>3. /\ pc[v] \in {"submit", "change", "saveId"} =>
           mem[v].id \in Ids /\ rows[mem[v].id] # NoRow /\ mem[v].row.name \in Names
      /\ pc[v] = "push" => \A t \in mem[v].todo : t.id \in Ids /\ rows[t.id] # NoRow
  BY DEF TypeOK, SlotType, MemFits, RowsKnown, RowType
<1>4. RequestKnows(v)'
  BY <1>1, <1>2, <1>3 DEF RequestKnows
<1>5. SyncKnows(v)'
  BY <1>1 DEF SyncKnows, Existing
<1> QED BY <1>4, <1>5

LEMMA AnsweredKnows ==
  ASSUME TypeOK, NEW s \in Slots, Answered(s)
  PROVE  RequestKnows(s)' /\ SyncKnows(s)'
<1>1. pc'[s] = "idle"
  BY DEF Answered, Goto, TypeOK, SlotType
<1> QED BY <1>1 DEF RequestKnows, SyncKnows

(* What a request that begins, or moves, knows then. *)
LEMMA KnowsMore ==
  ASSUME IdInv, [Next]_vars, NEW s \in Slots,
         \/ CreateTemplate(s) \/ UpdateTemplate(s) \/ DeleteTemplate(s) \/ SyncTemplates(s)
         \/ SlotStep(s) \/ Crash(s)
  PROVE  RequestKnows(s)' /\ SyncKnows(s)'
<1> DEFINE Goal == RequestKnows(s)' /\ SyncKnows(s)'
<1> HIDE DEF Goal
<1>1. TypeOK /\ RequestKnows(s) /\ SyncKnows(s) /\ \A k \in Ids \ renamed : IdIsMetas(k)
  BY DEF IdInv, IdMeansSubmitted, IdIsMetas
<1>2. /\ renamed \subseteq renamed' /\ \A i \in Ids : RowMoves(i)
      /\ \A n \in Names : meta[n].status # "none" => meta'[n].status # "none"
  BY <1>1, RowsMove, MetaGrows
<1>3. \A label, m : Goto(s, label) /\ mem' = [mem EXCEPT ![s] = m] => pc'[s] = label /\ mem'[s] = m
  BY <1>1 DEF Goto, TypeOK, SlotType
<1>4. ASSUME Answered(s) PROVE Goal
  BY <1>1, <1>4, AnsweredKnows DEF Goal
<1>5. ASSUME NEW i \in Ids, NEW n, rows[i] # NoRow, NameHolds(i, n)
      PROVE  NameHolds(i, n)'
  BY <1>2, <1>5 DEF NameHolds, RowMoves, Gone
<1>6. ASSUME CreateTemplate(s) PROVE Goal
  <2>1. PICK n \in Names, c \in Contents, st \in {"PENDING", "DRAFT"} :
          mem' = [mem EXCEPT ![s] = [row |->
            [name |-> n, status |-> st, provider |-> NoId, content |-> c, ts |-> 0]]]
    BY <1>6 DEF CreateTemplate
  <2>2. pc'[s] = "insert" /\ mem'[s].row.provider = NoId
    BY <1>1, <1>6, <2>1 DEF CreateTemplate, Goto, TypeOK, SlotType
  <2> QED BY <2>2 DEF RequestKnows, SyncKnows, Goal
<1>7. ASSUME UpdateTemplate(s) PROVE Goal
  <2>1. pc'[s] = "write"
    BY <1>1, <1>7 DEF UpdateTemplate, Goto, TypeOK, SlotType
  <2> QED BY <2>1 DEF RequestKnows, SyncKnows, Goal
<1>8. ASSUME DeleteTemplate(s) PROVE Goal
  BY <1>1, <1>8, KnowsStays DEF DeleteTemplate, Goal
<1>9. ASSUME SyncTemplates(s) PROVE Goal
  <2>1. /\ pc'[s] = "push" /\ rows' = rows
        /\ mem'[s].todo = {[id |-> i, row |-> rows[i]] : i \in {k \in Ids :
             rows[k].name \in Names /\ rows[k].status = "PENDING" /\ rows[k].provider = NoId}}
    <3> DEFINE todo == {[id |-> i, row |-> rows[i]] : i \in {k \in Ids :
                 rows[k].name \in Names /\ rows[k].status = "PENDING" /\ rows[k].provider = NoId}}
    <3>1. Goto(s, "push") /\ mem' = [mem EXCEPT ![s] = [todo |-> todo]] /\ rows' = rows
      BY <1>9 DEF SyncTemplates
    <3> HIDE DEF todo
    <3>2. pc'[s] = "push" /\ mem'[s] = [todo |-> todo]
      BY <1>3, <3>1
    <3> QED BY <3>1, <3>2 DEF todo
  <2>2. \A t \in mem'[s].todo : rows'[t.id].name = t.row.name
    BY <2>1
  <2> QED BY <2>1, <2>2 DEF RequestKnows, SyncKnows, NameHolds, Goal
<1>10. ASSUME InsertTemplate(s) PROVE Goal
  <2>1. CASE /\ rows' = [rows EXCEPT ![NewId] = mem[s].row] /\ NewId \in Ids
             /\ Goto(s, "submit") /\ mem' = [mem EXCEPT ![s] = [id |-> NewId, row |-> mem[s].row]]
    <3>1. pc'[s] = "submit" /\ mem'[s] = [id |-> NewId, row |-> mem[s].row]
      BY <1>3, <2>1
    <3>2. rows'[NewId] = mem[s].row
      BY <1>1, <2>1 DEF TypeOK, RowsType
    <3> QED BY <3>1, <3>2 DEF RequestKnows, SyncKnows, NameHolds, Goal
  <2> QED BY <1>1, <1>4, <1>10, <2>1, InsertIs
<1>11. ASSUME pc[s] \in {"submit", "change"}, Goto(s, "saveId"), NEW id,
              mem' = [mem EXCEPT ![s] = Known(s, id)],
              mem[s].id \notin renamed' /\ id # NoId => meta'[mem[s].row.name].status # "none"
       PROVE  Goal
  <2>1. /\ mem[s] \in [id : Ids, row : RowType] \/ mem[s] \in [id : Ids, old : Names, row : RowType]
        /\ rows[mem[s].id] # NoRow
    BY <1>1, <1>11 DEF TypeOK, SlotType, MemFits, RowsKnown
  <2>2. pc'[s] = "saveId" /\ mem'[s] = Known(s, id)
    BY <1>3, <1>11
  <2>3. mem'[s].id = mem[s].id /\ mem'[s].row.name = mem[s].row.name /\ mem'[s].row.provider = id
    BY <2>1, <2>2 DEF Known, RowType
  <2>4. ASSUME NEW i, i = mem[s].id
        PROVE  i \notin renamed' => rows'[i].name \in {mem[s].row.name, "gone"}
    <3>1. i \in Ids /\ rows[i] # NoRow /\ NameHolds(i, mem[s].row.name)
      BY <1>1, <1>11, <2>1, <2>4 DEF RequestKnows
    <3> QED BY <1>2, <3>1 DEF NameHolds, RowMoves, Gone
  <2> QED BY <1>11, <2>2, <2>3, <2>4 DEF RequestKnows, SyncKnows, NameHolds, Goal
<1>12. ASSUME SubmitTemplate(s) PROVE Goal
  <2>1. pc[s] = "submit"
    BY <1>1, <1>12, SubmitIs
  <2> QED BY <1>1, <1>4, <1>11, <1>12, <2>1, SubmitIs
<1>13. ASSUME ChangeAtMeta(s) PROVE Goal
  <2>1. pc[s] = "change" /\ mem[s].row.name \in Names
    BY <1>1, <1>13, ChangeIs DEF RowType
  <2>2. mem[s].id \notin renamed' /\ mem[s].row.provider # NoId => meta'[mem[s].row.name].status # "none"
    BY <1>1, <1>2, <2>1 DEF RequestKnows
  <2> QED BY <1>1, <1>4, <1>11, <1>13, <2>1, <2>2, ChangeIs
<1>14. ASSUME SaveProviderId(s) PROVE Goal
  BY <1>1, <1>4, <1>14, SaveIs
<1>15. ASSUME WriteUpdate(s) PROVE Goal
  <2>1. ASSUME NEW r \in RowType, NEW i \in Ids, rows[i] \in RowType, r.provider = rows[i].provider,
               rows' = [rows EXCEPT ![i] = r], Goto(s, "change"),
               mem' = [mem EXCEPT ![s] = [id |-> i, old |-> mem[s].old, row |-> r]],
               renamed' = IF r.name = rows[i].name THEN renamed ELSE renamed \cup {i}
        PROVE  Goal
    <3>1. pc'[s] = "change" /\ mem'[s].id = i /\ mem'[s].row = r
      BY <1>3, <2>1
    <3>2. rows'[i] = r
      BY <1>1, <2>1 DEF TypeOK, RowsType
    <3>3. i \notin renamed' => i \notin renamed /\ r.name = rows[i].name /\ r.name \in Names
      BY <2>1 DEF RowType
    <3>4. i \notin renamed' /\ r.provider # NoId => meta'[r.name].status # "none"
      BY <1>1, <1>2, <2>1, <3>3 DEF IdIsMetas
    <3> QED BY <3>1, <3>2, <3>4 DEF RequestKnows, SyncKnows, NameHolds, Goal
  <2> QED BY <1>1, <1>4, <1>15, <2>1, WriteIs
<1>16. ASSUME PushPending(s) PROVE Goal
  <2>1. PICK t \in mem[s].todo : mem' = [mem EXCEPT ![s] = [todo |-> mem[s].todo \ {t}]]
    BY <1>1, <1>16, PushIs
  <2>2. /\ pc[s] = "push" /\ pc'[s] = "push" /\ mem'[s].todo \subseteq mem[s].todo
        /\ \A u \in mem[s].todo : u.id \in Ids /\ rows[u.id] # NoRow
    <3>1. pc[s] = "push" /\ mem[s] \in [todo : SUBSET [id : Ids, row : RowType]] /\ pc' = pc
      BY <1>1, <1>16, PushIs DEF PushPending
    <3>2. mem'[s].todo = mem[s].todo \ {t}
      BY <1>1, <2>1 DEF TypeOK, SlotType
    <3> QED BY <1>1, <3>1, <3>2 DEF TypeOK, RowsKnown
  <2>3. \A u \in mem'[s].todo : NameHolds(u.id, u.row.name)'
    BY <1>1, <1>2, <2>2 DEF RequestKnows, NameHolds, RowMoves, Gone
  <2> QED BY <2>2, <2>3 DEF RequestKnows, SyncKnows, NameHolds, Goal
<1>17. ASSUME FetchTemplates(s) PROVE Goal
  <2>1. CASE mem' = [mem EXCEPT ![s] = [fetched |-> meta, todo |-> Existing(meta)]] /\ Goto(s, "pull")
    <3>1. pc'[s] = "pull" /\ mem'[s].todo = Existing(meta)
      BY <1>3, <2>1
    <3> QED BY <1>2, <3>1 DEF RequestKnows, SyncKnows, Existing, Goal
  <2> QED BY <1>4, <1>17, <2>1 DEF FetchTemplates
<1>18. ASSUME PullNext(s) PROVE Goal
  <2>1. ASSUME NEW n \in mem[s].todo, Goto(s, "upsert"), pc[s] = "pull",
               mem' = [mem EXCEPT ![s] = [fetched |-> @.fetched, todo |-> @.todo \ {n}, name |-> n, ts |-> clock]]
        PROVE  Goal
    <3>1. pc'[s] = "upsert" /\ mem'[s].todo = mem[s].todo \ {n} /\ mem'[s].name = n
      BY <1>1, <2>1 DEF Goto, TypeOK, SlotType
    <3> QED BY <1>1, <1>2, <2>1, <3>1 DEF RequestKnows, SyncKnows, Existing, Goal
  <2> QED BY <1>4, <1>18, <2>1 DEF PullNext
<1>19. ASSUME UNCHANGED mem, pc[s] \in {"upsert", "clear"}, Goto(s, "pull") \/ Goto(s, "clear") PROVE Goal
  <2>1. pc'[s] \in {"pull", "clear"}
    BY <1>1, <1>19 DEF Goto, TypeOK, SlotType
  <2> QED BY <1>1, <1>2, <1>19, <2>1 DEF RequestKnows, SyncKnows, Existing, Goal
<1>20. ASSUME UpsertPulled(s) PROVE Goal
  BY <1>1, <1>4, <1>19, <1>20, UpsertIs
<1>21. ASSUME ClearCache(s) PROVE Goal
  BY <1>4, <1>19, <1>21 DEF ClearCache
<1>22. ASSUME Crash(s) PROVE Goal
  BY <1>4, <1>22 DEF Crash
<1>23. Goal
  BY <1>6, <1>7, <1>8, <1>9, <1>10, <1>12, <1>13, <1>14, <1>15, <1>16, <1>17, <1>18, <1>20, <1>21, <1>22
     DEF SlotStep
<1> QED BY <1>23 DEF Goal

LEMMA IdStep ==
  IdInv /\ [Next]_vars => IdInv'
<1> SUFFICES ASSUME IdInv, [Next]_vars PROVE IdInv'
  OBVIOUS
<1>1. TypeOK /\ \A v \in Slots : RequestKnows(v) /\ SyncKnows(v)
  BY DEF IdInv, IdMeansSubmitted
<1>2. IdMeansSubmitted'
  BY <1>1, TypeStep, IdsKept DEF IdMeansSubmitted, IdIsMetas
<1>3. CASE UNCHANGED slotVars
  BY <1>1, <1>2, <1>3, KnowsStays DEF slotVars, IdInv
<1>4. ASSUME NEW s \in Slots, ~ DeleteTemplate(s),
             \/ CreateTemplate(s) \/ UpdateTemplate(s) \/ SyncTemplates(s) \/ SlotStep(s) \/ Crash(s)
      PROVE  IdInv'
  <2>1. \A v \in Slots \ {s} : pc'[v] = pc[v] /\ mem'[v] = mem[v]
    BY <1>1, <1>4, BeginFits, RequestFits DEF SlotFits
  <2>2. \A v \in Slots \ {s} : RequestKnows(v)' /\ SyncKnows(v)'
    BY <1>1, <2>1, KnowsStays
  <2>3. RequestKnows(s)' /\ SyncKnows(s)'
    BY <1>4, KnowsMore
  <2> QED BY <1>2, <2>2, <2>3 DEF IdInv
<1>5. ASSUME NEW s \in Slots, DeleteTemplate(s)
      PROVE  IdInv'
  <2>1. UNCHANGED <<pc, mem>>
    BY <1>5 DEF DeleteTemplate
  <2> QED BY <1>1, <1>2, <2>1, KnowsStays DEF IdInv
<1>6. JobMove \/ SenderMove \/ (\E j \in Jobs : Decide(j)) \/ (\E w \in Workers : ApplyEvent(w))
        \/ UNCHANGED vars => UNCHANGED slotVars
  BY JobMoveLeaves, SenderMoveLeaves DEF vars, Decide, ApplyEvent, slotVars
<1> QED BY <1>3, <1>4, <1>5, <1>6, Moves DEF RequestMove

(* A row that has an id from Meta, and has kept its name, is of a template  *)
(* that Meta has accepted: the invariant adds what every request that has   *)
(* yet to write knows of its row and of Meta.                               *)
THEOREM IdsAreSubmitted == Spec => []IdMeansSubmitted
<1>1. Init => IdInv
  <2> SUFFICES ASSUME Init PROVE IdInv
    OBVIOUS
  <2>1. \A i \in Ids : rows[i].name \notin Names
    BY TemplatesAssumption DEF Init, NoRow
  <2> QED BY <2>1, TypeInit DEF Init, IdInv, IdMeansSubmitted, RequestKnows, SyncKnows
<1>2. IdInv => IdMeansSubmitted
  BY DEF IdInv
<1> QED BY <1>1, <1>2, IdStep, PTL DEF Spec

-----------------------------------------------------------------------------
(* Statuses.                                                                *)

(* The row is gone, or says what it said of name, status and time. *)
SaysTheSame(i) ==
  \/ rows'[i] = rows[i]
  \/ rows'[i].name = rows[i].name /\ rows'[i].status = rows[i].status /\ rows'[i].ts = rows[i].ts
  \/ rows'[i].name \notin Names

(* The decisions on n are what they were, and no other may be applied. *)
DecisionsStay(n) ==
  \A k \in Jobs : decisions'[k].name = n =>
    decisions[k] = decisions'[k] /\ (MayApply(k)' => MayApply(k))

DueStays(n) ==
  \A k \in Jobs : decisions[k].name = n /\ Due(k) => Due(k)' /\ decisions'[k] = decisions[k]

LEMMA LateStays ==
  ASSUME NEW n, DecisionsStay(n)
  PROVE  \A ts : Late(n, ts)' => Late(n, ts)
BY DEF Late, DecisionsStay

LEMMA ShowsStays ==
  ASSUME NEW i \in Ids, SaysTheSame(i), DecisionsStay(rows[i].name), rows'[i].name \in Names,
         meta'[rows[i].name].status = meta[rows[i].name].status, Shows(i)
  PROVE  Shows(i)'
<1>1. /\ rows'[i].name = rows[i].name /\ rows'[i].status = rows[i].status
      /\ rows'[i].ts = rows[i].ts
  BY DEF SaysTheSame
<1>2. \A n, ts : n = rows[i].name => (Late(n, ts)' => Late(n, ts))
  BY LateStays
<1>3. ASSUME NEW n, NEW ts, n = rows[i].name, ts = rows[i].ts
      PROVE  ~ Late(n, ts)'
  BY <1>2, <1>3 DEF Shows
<1>4. ~ Late(rows[i].name, rows[i].ts)'
  BY <1>1, <1>3 DEF Late
<1> QED BY <1>1, <1>4 DEF Shows

LEMMA ComingStays ==
  ASSUME NEW n, DecisionsStay(n), DueStays(n), meta'[n].status = meta[n].status, Coming(n)
  PROVE  Coming(n)'
<1>1. PICK k \in Jobs : /\ decisions[k].name = n /\ decisions[k].status = meta[n].status
                        /\ Due(k) /\ ~ Late(n, decisions[k].ts)
  BY DEF Coming
<1>2. Due(k)' /\ decisions'[k] = decisions[k]
  BY <1>1 DEF DueStays
<1>3. \A ts : Late(n, ts)' => Late(n, ts)
  BY LateStays
<1>4. ~ Late(n, decisions[k].ts)'
  <2>1. ASSUME NEW ts, ts = decisions[k].ts
        PROVE  ~ Late(n, ts)'
    BY <1>1, <1>3, <2>1
  <2> QED BY <1>2, <2>1 DEF Late
<1> QED BY <1>1, <1>2, <1>4 DEF Coming

LEMMA FollowedStays ==
  ASSUME NEW i \in Ids, Followed(i), SaysTheSame(i),
         rows[i].name \in Names =>
           /\ DecisionsStay(rows[i].name) /\ DueStays(rows[i].name)
           /\ meta'[rows[i].name].status = meta[rows[i].name].status
           /\ rows[i].name \in astray => rows[i].name \in astray'
  PROVE  Followed(i)'
<1> SUFFICES ASSUME rows'[i].name \in Names, rows'[i].name \notin astray',
                    meta'[rows'[i].name].status # "none"
             PROVE  Shows(i)' \/ \E n : n = rows'[i].name /\ Coming(n)'
  BY DEF Followed, Coming
<1>1. rows'[i].name = rows[i].name
  BY DEF SaysTheSame
<1>2. Shows(i) \/ Coming(rows[i].name)
  BY <1>1 DEF Followed
<1> QED BY <1>1, <1>2, ShowsStays, ComingStays

(* The row that was written shows what Meta has, or its name is astray. *)
LEMMA FollowedWritten ==
  ASSUME RowsType, NEW i \in Ids, NEW r \in RowType, rows' = [rows EXCEPT ![i] = r], UNCHANGED meta,
         DecisionsStay(r.name), Marked(r.name, r.status, r.ts)
  PROVE  Followed(i)'
<1>1. rows'[i] = r
  BY DEF RowsType
<1>2. \A ts : Late(r.name, ts)' => Late(r.name, ts)
  BY LateStays
<1>3. CASE r.name \in astray'
  BY <1>1, <1>3 DEF Followed
<1>4. CASE r.name \notin astray'
  <2>1. meta[r.name].status \in {"none", r.status} /\ ~ Late(r.name, r.ts)
    BY <1>4 DEF Marked
  <2>2. ASSUME NEW n, NEW ts, n = r.name, ts = r.ts
        PROVE  ~ Late(n, ts)'
    BY <1>2, <2>1, <2>2
  <2>3. Shows(i)' \/ meta'[r.name].status = "none"
    BY <1>1, <2>1, <2>2 DEF Shows, Late
  <2> QED BY <1>1, <2>3 DEF Followed
<1> QED BY <1>3, <1>4

(* The event of job k ends where it need not show, or somewhere it goes on. *)
LEMMA FollowedForgotten ==
  ASSUME TypeOK, NEW i \in Ids, Followed(i), UNCHANGED <<rows, meta, decisions>>, NEW k \in Jobs, Forgotten(k),
         \A j \in Jobs : MayApply(j)' => MayApply(j),
         \A j \in Jobs \ {k} : Due(j) => Due(j)'
  PROVE  Followed(i)'
<1> DEFINE n == rows[i].name
<1>1. SaysTheSame(i) /\ DecisionsStay(n)
  BY DEF SaysTheSame, DecisionsStay
<1>2. n \in astray => n \in astray'
  BY DEF Forgotten
<1>3. CASE n \in Names \ astray' /\ meta[n].status # "none" /\ ~ Shows(i)
  <2>1. PICK j \in Jobs : /\ decisions[j].name = n /\ decisions[j].status = meta[n].status
                          /\ Due(j) /\ ~ Late(n, decisions[j].ts)
    BY <1>2, <1>3 DEF Followed, Coming
  <2>2. j # k
    <3> SUFFICES ASSUME j = k PROVE FALSE
      OBVIOUS
    <3>1. PICK l \in Ids : rows[l].name = n /\ rows[l].status = meta[n].status /\ decisions[k].ts <= rows[l].ts
      BY <1>3, <2>1 DEF Forgotten, RowsOf
    <3>2. l = i
      BY <1>3, <3>1 DEF TypeOK, RowsType
    <3>3. Late(n, rows[i].ts)
      BY <1>3, <3>1, <3>2 DEF Shows
    <3>4. PICK m \in Jobs : decisions[m].name = n /\ MayApply(m) /\ rows[i].ts < decisions[m].ts
      BY <3>3 DEF Late
    <3>5. decisions[m] \in Decision /\ decisions[k] \in Decision
      BY <1>3, <2>1, <3>4, TemplatesAssumption DEF TypeOK, EventType, NoDecision
    <3>6. rows[i] \in RowType
      BY <1>3, RowFacts DEF TypeOK
    <3>7. decisions[k].ts < decisions[m].ts
      BY <3>1, <3>2, <3>4, <3>5, <3>6 DEF Decision, RowType
    <3> QED BY <2>1, <3>4, <3>7 DEF Late
  <2>3. Due(j)'
    BY <2>1, <2>2
  <2>4. \A ts : Late(n, ts)' => Late(n, ts)
    BY <1>1, LateStays
  <2>5. ~ Late(n, decisions[j].ts)'
    <3>1. ASSUME NEW a, NEW ts, a = n, ts = decisions[j].ts PROVE ~ Late(a, ts)'
      BY <2>1, <2>4, <3>1
    <3> QED BY <3>1 DEF Late
  <2> QED BY <2>1, <2>3, <2>5 DEF Followed, Coming
<1>4. CASE Shows(i) /\ n \in Names
  <2>1. Shows(i)'
    BY <1>1, <1>4, ShowsStays
  <2> QED BY <2>1 DEF Followed
<1> QED BY <1>3, <1>4 DEF Followed

-----------------------------------------------------------------------------
(* What jobs do to decisions that are under way.                            *)

(* A run begins to apply only what was not recorded. *)
LEMMA MayApplyEnds ==
  ASSUME TypeOK, JobMove \/ \E w \in Workers : ApplyEvent(w)
  PROVE  \A k \in Jobs : MayApply(k)' => MayApply(k)
<1> DEFINE Runs == \A w \in Workers : wpc'[w] = "apply" =>
                     cur'[w] = cur[w] /\ (wpc[w] = "apply" \/ cur[w] \notin processed)
<1>1. ASSUME processed \subseteq processed', Runs, \A k \in Jobs : jobState'[k] # "none" => jobState[k] # "none"
      PROVE  \A k \in Jobs : MayApply(k)' => MayApply(k)
  BY <1>1 DEF MayApply
<1> HIDE DEF Runs
<1>2. UNCHANGED workerVars => Runs
  BY DEF Runs, workerVars
<1>3. ASSUME NEW w \in Workers, NEW label \in {"record", "complete", "threw", "idle"}, WGoto(w, label),
             UNCHANGED cur \/ \E x : cur' = [cur EXCEPT ![w] = x]
      PROVE  Runs
  BY <1>3 DEF Runs, WGoto, TypeOK, RunType
<1>4. CASE \E j \in Jobs : DecideAgain(j) \/ BackoffElapsed(j) \/ RecoverOrphan(j) \/ ReplayJob(j)
  <2>1. PICK j \in Jobs : JobMoves(j)
    BY <1>4, JobIs DEF JobMove
  <2>2. UNCHANGED <<workerVars, processed>>
    BY <1>4 DEF DecideAgain, BackoffElapsed, RecoverOrphan, ReplayJob
  <2> QED BY <1>1, <1>2, <2>1, <2>2 DEF JobMoves
<1>5. ASSUME NEW w \in Workers, TakeEvent(w) \/ EndJob(w) \/ CrashWorker(w)
      PROVE  \A k \in Jobs : MayApply(k)' => MayApply(k)
  <2>1. PICK j \in Jobs : JobMoves(j)
    BY <1>5, JobIs DEF JobMove
  <2>2. Runs /\ processed' = processed
    BY <1>3, <1>5 DEF TakeEvent, EndJob, CrashWorker, Release
  <2> QED BY <1>1, <2>1, <2>2 DEF JobMoves
<1>6. ASSUME NEW w \in Workers, RecordEvent(w)
      PROVE  \A k \in Jobs : MayApply(k)' => MayApply(k)
  <2>1. /\ UNCHANGED <<cur, jobState>> /\ processed \subseteq processed'
        /\ \/ WGoto(w, "apply") /\ cur[w] \notin processed
           \/ WGoto(w, "complete") \/ WGoto(w, "threw")
    BY <1>6 DEF RecordEvent, queueVars
  <2>2. Runs
    BY <2>1 DEF Runs, WGoto, TypeOK, RunType
  <2> QED BY <1>1, <2>1, <2>2
<1>7. ASSUME NEW w \in Workers, ApplyEvent(w)
      PROVE  \A k \in Jobs : MayApply(k)' => MayApply(k)
  <2>1. UNCHANGED <<cur, processed, jobState>> /\ (WGoto(w, "complete") \/ WGoto(w, "threw"))
    BY <1>7, ApplyIs DEF ApplyEvent, queueVars
  <2> QED BY <1>1, <1>3, <2>1
<1> QED BY <1>4, <1>5, <1>6, <1>7 DEF JobMove

(* A job that is due stays due, but for the one whose event is forgotten. *)
LEMMA DueEnds ==
  ASSUME TypeOK, JobMove
  PROVE  \/ UNCHANGED astray /\ \A j \in Jobs : Due(j) => Due(j)'
         \/ \E k \in Jobs : Forgotten(k) /\ \A j \in Jobs \ {k} : Due(j) => Due(j)'
<1> DEFINE Live == {"waiting", "active", "delayed"}
           Ends(j) == \E w \in Workers : wpc[w] = "complete" /\ cur[w] = j
           Goal == \/ UNCHANGED astray /\ \A j \in Jobs : Due(j) => Due(j)'
                   \/ \E k \in Jobs : Forgotten(k) /\ \A j \in Jobs \ {k} : Due(j) => Due(j)'
<1>1. \A j : Due(j) <=> jobState[j] \in Live /\ ~ Ends(j)
  BY DEF Due
<1>2. \A j : Due(j)' <=> jobState'[j] \in Live /\ ~ Ends(j)'
  BY DEF Due
<1>3. UNCHANGED workerVars => \A j : Ends(j)' => Ends(j)
  BY DEF workerVars
<1>4. ASSUME NEW w \in Workers, Release(w) \/ ((WGoto(w, "apply") \/ WGoto(w, "threw")) /\ UNCHANGED cur)
      PROVE  \A j : Ends(j)' => Ends(j)
  BY <1>4 DEF Release, WGoto, TypeOK, RunType
<1> HIDE DEF Ends, Goal
<1>5. ASSUME NEW j \in Jobs, DecideAgain(j) \/ BackoffElapsed(j) \/ ReplayJob(j)
      PROVE  Goal
  <2>1. UNCHANGED <<workerVars, astray>> /\ jobState' = [jobState EXCEPT ![j] = "waiting"]
    BY <1>5 DEF DecideAgain, BackoffElapsed, ReplayJob, BackoffOver, Retry, histVars
  <2>2. \A k \in Jobs : jobState[k] \in Live => jobState'[k] \in Live
    BY <2>1 DEF TypeOK, QueueType
  <2> QED BY <1>1, <1>2, <1>3, <2>1, <2>2 DEF Goal
<1>6. ASSUME NEW j \in Jobs, RecoverOrphan(j)
      PROVE  Goal
  <2>1. /\ PutBack(j) /\ UNCHANGED workerVars
        /\ IF jobState'[j] = "failed" THEN Forgotten(j) ELSE UNCHANGED astray
    BY <1>6 DEF RecoverOrphan
  <2>2. jobState'[j] \in {"waiting", "failed"} /\ \A k \in Jobs \ {j} : jobState'[k] = jobState[k]
    BY <2>1 DEF PutBack, TypeOK, QueueType
  <2> QED BY <1>1, <1>2, <1>3, <2>1, <2>2 DEF Goal
<1>7. ASSUME NEW w \in Workers, TakeEvent(w)
      PROVE  Goal
  <2>1. PICK j \in Jobs : Take(w, j) /\ cur' = [cur EXCEPT ![w] = j]
    BY <1>7 DEF TakeEvent
  <2>2. WGoto(w, "record") /\ UNCHANGED astray /\ wpc[w] = "idle"
    BY <1>7 DEF TakeEvent, histVars
  <2>3. \A k : Ends(k)' => Ends(k)
    BY <2>1, <2>2 DEF Ends, WGoto, TypeOK, RunType
  <2>4. \A k \in Jobs : jobState[k] \in Live => jobState'[k] \in Live
    BY <2>1 DEF Take, TypeOK, QueueType
  <2> QED BY <1>1, <1>2, <2>2, <2>3, <2>4 DEF Goal
<1>8. ASSUME NEW w \in Workers, RecordEvent(w)
      PROVE  Goal
  <2>1. cur[w] \in Jobs /\ UNCHANGED <<cur, jobState>>
    BY <1>8, RunHasDecision DEF RecordEvent, queueVars
  <2>2. \/ (WGoto(w, "apply") \/ WGoto(w, "threw")) /\ UNCHANGED astray
        \/ WGoto(w, "complete") /\ Forgotten(cur[w])
    BY <1>8 DEF RecordEvent
  <2>3. WGoto(w, "complete") => \A k \in Jobs \ {cur[w]} : Ends(k)' => Ends(k)
    BY <2>1 DEF Ends, WGoto, TypeOK, RunType
  <2> QED BY <1>1, <1>2, <1>4, <2>1, <2>2, <2>3 DEF Goal
<1>9. ASSUME NEW w \in Workers, EndJob(w)
      PROVE  Goal
  <2>1. cur[w] \in Jobs /\ wpc[w] \in {"complete", "threw"}
    BY <1>9, RunHasDecision DEF EndJob
  <2>2. EndOf(w) /\ \A k : Ends(k)' => Ends(k)
    BY <1>4, <1>9 DEF EndJob
  <2>3. CASE wpc[w] = "complete"
    <3>1. Ends(cur[w])
      BY <2>3 DEF Ends
    <3>2. Complete(w, cur[w]) /\ UNCHANGED astray
      BY <2>2, <2>3 DEF EndOf
    <3>3. \A k \in Jobs \ {cur[w]} : jobState'[k] = jobState[k]
      BY <2>1, <3>2, QueueSteps DEF TypeOK
    <3> QED BY <1>1, <1>2, <2>2, <3>1, <3>2, <3>3 DEF Goal
  <2>4. CASE wpc[w] = "threw"
    <3>1. /\ Threw(w, cur[w])
          /\ IF jobState'[cur[w]] = "failed" THEN Forgotten(cur[w]) ELSE UNCHANGED astray
      BY <2>2, <2>4 DEF EndOf
    <3>2. \A k \in Jobs \ {cur[w]} : jobState'[k] = jobState[k]
      BY <2>1, <3>1, QueueSteps DEF TypeOK
    <3>3. jobState'[cur[w]] \in {jobState[cur[w]], "delayed", "failed"}
      BY <2>1, <3>1 DEF Threw, Settle, TypeOK, QueueType, queueVars
    <3> QED BY <1>1, <1>2, <2>1, <2>2, <3>1, <3>2, <3>3 DEF Goal
  <2> QED BY <2>1, <2>3, <2>4
<1>10. ASSUME NEW w \in Workers, CrashWorker(w)
       PROVE  Goal
  <2>1. UNCHANGED <<jobState, astray>>
    BY <1>10 DEF CrashWorker, DropLocks, histVars
  <2>2. \A k : Ends(k)' => Ends(k)
    BY <1>4, <1>10 DEF CrashWorker
  <2> QED BY <1>1, <1>2, <2>1, <2>2 DEF Goal
<1>11. Goal
  BY <1>5, <1>6, <1>7, <1>8, <1>9, <1>10 DEF JobMove
<1> QED BY <1>11 DEF Goal

LEMMA JobFollows ==
  ASSUME TypeOK, JobMove, NEW i \in Ids, Followed(i)
  PROVE  Followed(i)'
<1>1. UNCHANGED <<rows, meta, decisions>>
  BY JobMoveLeaves DEF metaVars
<1>2. \A k \in Jobs : MayApply(k)' => MayApply(k)
  BY MayApplyEnds
<1>3. CASE UNCHANGED astray /\ \A j \in Jobs : Due(j) => Due(j)'
  BY <1>1, <1>2, <1>3, FollowedStays DEF SaysTheSame, DecisionsStay, DueStays
<1>4. CASE \E k \in Jobs : Forgotten(k) /\ \A j \in Jobs \ {k} : Due(j) => Due(j)'
  BY <1>1, <1>2, <1>4, FollowedForgotten
<1> QED BY <1>3, <1>4, DueEnds

(* A worker applies its event, or its run ends where the event is forgotten. *)
LEMMA ApplyFollows ==
  ASSUME TypeOK, NEW w \in Workers, ApplyEvent(w), NEW i \in Ids, Followed(i)
  PROVE  Followed(i)'
<1> DEFINE j == cur[w]
           d == decisions[j]
<1>1. UNCHANGED <<meta, decisions, processed, cur, jobState>>
  BY DEF ApplyEvent, metaVars, queueVars
<1>2. \A k \in Jobs : MayApply(k)' => MayApply(k)
  BY MayApplyEnds
<1>3. j \in Jobs /\ d \in Decision /\ wpc[w] = "apply" /\ MayApply(j)
  BY ApplyIs, RunHasDecision DEF MayApply
<1>4. \A k \in Jobs \ {j} : Due(k) => Due(k)'
  BY <1>1, ApplyIs DEF Due, WGoto, TypeOK, RunType
<1>5. \A n : DecisionsStay(n)
  BY <1>1, <1>2 DEF DecisionsStay
<1>6. ASSUME rows[i].name # d.name, \A a \in Names \ {d.name} : a \in astray => a \in astray',
             SaysTheSame(i)
      PROVE  Followed(i)'
  BY <1>1, <1>4, <1>5, <1>6, FollowedStays DEF DueStays
<1>7. CASE WGoto(w, "threw") /\ UNCHANGED <<rows, astray, behind>>
  <2>1. \A k \in Jobs : Due(k) => Due(k)'
    BY <1>1, <1>7 DEF Due, WGoto, TypeOK, RunType
  <2> QED BY <1>1, <1>5, <1>7, <2>1, FollowedStays DEF SaysTheSame, DueStays
<1>8. CASE Forgotten(j) /\ UNCHANGED rows
  BY <1>1, <1>2, <1>3, <1>4, <1>8, FollowedForgotten
<1>9. ASSUME NEW r \in RowType, NEW k \in Ids, rows[k] = NoRow, \A l \in Ids : rows[l].name # r.name,
             r.name = d.name, rows' = [rows EXCEPT ![k] = r], Marked(r.name, r.status, r.ts)
      PROVE  Followed(i)'
  <2>1. CASE i = k
    BY <1>1, <1>5, <1>9, <2>1, FollowedWritten DEF TypeOK
  <2>2. CASE i # k
    <3>1. SaysTheSame(i)
      BY <1>9, <2>2 DEF SaysTheSame, TypeOK, RowsType
    <3>2. \A a \in Names \ {d.name} : a \in astray => a \in astray'
      BY <1>9 DEF Marked
    <3> QED BY <1>6, <1>9, <3>1, <3>2
  <2> QED BY <2>1, <2>2
<1>10. ASSUME NEW r \in RowType, NEW k \in Ids, rows[k] \in RowType, r.name = rows[k].name, rows[k].ts < r.ts,
              r.name = d.name, r.status = d.status, r.ts = d.ts, rows' = [rows EXCEPT ![k] = r],
              astray' = IF r.status = meta[r.name].status /\ ~ Late(r.name, r.ts)
                        THEN astray \ {r.name} ELSE astray
       PROVE  Followed(i)'
  <2>1. CASE i = k
    <3>1. rows'[i] = r /\ rows[i].name = r.name
      BY <1>10, <2>1 DEF TypeOK, RowsType
    <3>2. CASE r.status = meta[r.name].status /\ ~ Late(r.name, r.ts)
      <4>1. \A ts : Late(r.name, ts)' => Late(r.name, ts)
        BY <1>5, LateStays
      <4>2. ASSUME NEW n, NEW ts, n = r.name, ts = r.ts
            PROVE  ~ Late(n, ts)'
        BY <3>2, <4>1, <4>2
      <4>3. Shows(i)'
        BY <1>1, <3>1, <3>2, <4>2 DEF Shows, Late
      <4> QED BY <4>3 DEF Followed
    <3>3. CASE ~ (r.status = meta[r.name].status /\ ~ Late(r.name, r.ts))
      <4>1. astray' = astray
        BY <1>10, <3>3
      <4>2. Late(rows[i].name, rows[i].ts)
        BY <1>3, <1>10, <2>1 DEF Late
      <4>3. rows[i].name \in Names \ astray /\ meta[rows[i].name].status # "none" => Coming(rows[i].name)
        BY <4>2 DEF Followed, Shows
      <4>4. Coming(rows[i].name) => \A n : n = rows[i].name => Coming(n)'
        <5>1. SUFFICES ASSUME Coming(rows[i].name), NEW n, n = rows[i].name PROVE Coming(n)'
          OBVIOUS
        <5>2. PICK k2 \in Jobs : /\ decisions[k2].name = n /\ decisions[k2].status = meta[n].status
                                 /\ Due(k2) /\ ~ Late(n, decisions[k2].ts)
          BY <5>1 DEF Coming
        <5>3. k2 # j
          BY <1>10, <3>1, <3>3, <5>1, <5>2
        <5>4. \A ts : Late(n, ts)' => Late(n, ts)
          BY <1>5, LateStays
        <5>5. ASSUME NEW ts, ts = decisions[k2].ts PROVE ~ Late(n, ts)'
          BY <5>2, <5>4, <5>5
        <5> QED BY <1>1, <1>4, <5>2, <5>3, <5>5 DEF Coming, Late
      <4> QED BY <1>1, <3>1, <4>1, <4>3, <4>4 DEF Followed, Coming
    <3> QED BY <3>2, <3>3
  <2>2. CASE i # k
    <3>1. SaysTheSame(i)
      BY <1>10, <2>2 DEF SaysTheSame, TypeOK, RowsType
    <3>2. \A a \in Names \ {d.name} : a \in astray => a \in astray'
      BY <1>10
    <3>3. rows[i].name # d.name
      BY <1>3, <1>10, <2>2 DEF TypeOK, RowsType, Decision
    <3> QED BY <1>6, <3>1, <3>2, <3>3
  <2> QED BY <2>1, <2>2
<1> HIDE DEF j, d
<1> QED BY <1>7, <1>8, <1>9, <1>10, ApplyIs DEF j, d

-----------------------------------------------------------------------------
(* What requests do to statuses.                                            *)

(* One row is written, as Marked says; nobody else has its name. *)
LEMMA MarkedFollows ==
  ASSUME TypeOK, UNCHANGED <<meta, decisions>>, \A k \in Jobs : MayApply(k)' => MayApply(k),
         \A k \in Jobs : Due(k) => Due(k)',
         NEW r \in RowType, NEW k \in Ids, rows' = [rows EXCEPT ![k] = r],
         \A l \in Ids : rows[l].name = r.name => l = k,
         Marked(r.name, r.status, r.ts), NEW i \in Ids, Followed(i)
  PROVE  Followed(i)'
<1>1. \A n : DecisionsStay(n) /\ DueStays(n)
  BY DEF DecisionsStay, DueStays
<1>2. CASE i = k
  BY <1>1, <1>2, FollowedWritten DEF TypeOK
<1>3. CASE i # k
  <2>1. SaysTheSame(i) /\ rows[i].name # r.name
    BY <1>3 DEF SaysTheSame, TypeOK, RowsType
  <2>2. rows[i].name \in astray => rows[i].name \in astray'
    BY <2>1 DEF Marked
  <2> QED BY <1>1, <2>1, <2>2, FollowedStays
<1> QED BY <1>2, <1>3

(* Meta puts a template under review; the rows say what they said. *)
LEMMA ReviewedFollows ==
  ASSUME TypeOK, Reviewed, UNCHANGED decisions, \A k \in Jobs : MayApply(k)' => MayApply(k),
         \A k \in Jobs : Due(k) => Due(k)', NEW i \in Ids, Followed(i), SaysTheSame(i)
  PROVE  Followed(i)'
<1> DEFINE n == rows[i].name
<1>1. \A a : DecisionsStay(a) /\ DueStays(a)
  BY DEF DecisionsStay, DueStays
<1>2. CASE n \in Names /\ meta'[n].status = meta[n].status
  BY <1>1, <1>2, FollowedStays DEF Reviewed
<1>3. CASE n \in Names /\ meta'[n].status # meta[n].status /\ rows'[i].name = n /\ n \notin astray'
  <2>1. rows[i].status = meta'[n].status /\ ~ Late(n, rows[i].ts)
    BY <1>3 DEF Reviewed, RowsOf
  <2>2. rows'[i].status = rows[i].status /\ rows'[i].ts = rows[i].ts
    BY <1>3 DEF SaysTheSame
  <2>3. \A a, ts : Late(a, ts)' => Late(a, ts)
    BY <1>1, LateStays
  <2>4. ASSUME NEW a, NEW ts, a = n, ts = rows[i].ts PROVE ~ Late(a, ts)'
    BY <2>1, <2>3, <2>4
  <2>5. Shows(i)'
    BY <1>3, <2>1, <2>2, <2>4 DEF Shows, Late
  <2> QED BY <2>5 DEF Followed
<1>4. rows'[i].name = n \/ rows'[i].name \notin Names
  BY DEF SaysTheSame
<1>5. CASE rows'[i].name \notin Names
  BY <1>5 DEF Followed
<1>6. CASE rows'[i].name = n /\ (n \in astray' \/ n \notin Names)
  BY <1>6 DEF Followed
<1> QED BY <1>2, <1>3, <1>4, <1>5, <1>6

LEMMA RequestFollows ==
  ASSUME TypeOK, NEW s \in Slots,
         \/ CreateTemplate(s) \/ UpdateTemplate(s) \/ DeleteTemplate(s) \/ SyncTemplates(s)
         \/ SlotStep(s) \/ Crash(s),
         NEW i \in Ids, Followed(i)
  PROVE  Followed(i)'
<1>1. UNCHANGED <<decisions, processed, wpc, cur, jobState>>
  BY RequestMoveLeaves DEF RequestMove, workerVars, queueVars
<1>2. (\A k \in Jobs : MayApply(k)' => MayApply(k)) /\ (\A k \in Jobs : Due(k) => Due(k)')
  BY <1>1 DEF MayApply, Due
<1>3. \A n : DecisionsStay(n) /\ DueStays(n)
  BY <1>1, <1>2 DEF DecisionsStay, DueStays
<1>4. ASSUME UNCHANGED <<meta, astray>>, SaysTheSame(i)
      PROVE  Followed(i)'
  BY <1>3, <1>4, FollowedStays
<1>5. CASE UNCHANGED <<rows, meta, astray>>
  BY <1>4, <1>5 DEF SaysTheSame
<1>6. CASE CreateTemplate(s) \/ UpdateTemplate(s) \/ SyncTemplates(s) \/ FetchTemplates(s) \/ PullNext(s)
           \/ ClearCache(s) \/ Crash(s)
  BY <1>5, <1>6 DEF CreateTemplate, UpdateTemplate, SyncTemplates, FetchTemplates, PullNext, ClearCache,
     Crash, metaVars, histVars
<1>7. ASSUME UNCHANGED meta, NEW r \in RowType, NEW k \in Ids, rows' = [rows EXCEPT ![k] = r],
             \A l \in Ids : rows[l].name = r.name => l = k, Marked(r.name, r.status, r.ts)
      PROVE  Followed(i)'
  BY <1>1, <1>2, <1>7, MarkedFollows
<1>8. CASE InsertTemplate(s)
  <2>1. UNCHANGED meta /\ (UNCHANGED <<rows, astray>> =>  Followed(i)')
    BY <1>5, <1>8 DEF InsertTemplate, metaVars
  <2>2. RowsOf(mem[s].row.name) = {} => \A l \in Ids : rows[l].name # mem[s].row.name
    BY DEF RowsOf
  <2> QED BY <1>7, <1>8, <2>1, <2>2, InsertIs
<1>9. CASE WriteUpdate(s)
  <2>1. UNCHANGED meta /\ (UNCHANGED <<rows, histVars>> => Followed(i)')
    BY <1>5, <1>9 DEF WriteUpdate, metaVars, histVars
  <2> QED BY <1>7, <1>9, <2>1, WriteIs
<1>10. CASE UpsertPulled(s)
  <2>1. UNCHANGED meta /\ (UNCHANGED <<rows, astray>> => Followed(i)')
    BY <1>5, <1>10 DEF UpsertPulled, metaVars
  <2> QED BY <1>7, <1>10, <2>1, UpsertIs
<1>11. CASE SaveProviderId(s)
  <2>1. UNCHANGED <<meta, astray>>
    BY <1>11 DEF SaveProviderId, metaVars
  <2>2. CASE UNCHANGED rows
    BY <1>5, <2>1, <2>2
  <2>3. CASE /\ mem[s].id \in Ids /\ rows[mem[s].id] \in RowType
             /\ rows' = [rows EXCEPT ![mem[s].id] = [rows[mem[s].id] EXCEPT !.provider = mem[s].row.provider]]
    <3>1. SaysTheSame(i)
      BY <2>3 DEF SaysTheSame, TypeOK, RowsType, RowType
    <3> QED BY <1>4, <2>1, <3>1
  <2> QED BY <1>11, <2>2, <2>3, SaveIs
<1>12. CASE DeleteTemplate(s)
  <2>1. UNCHANGED <<meta, astray>>
    BY <1>12 DEF DeleteTemplate, metaVars
  <2>2. PICK k \in Ids : rows' = [rows EXCEPT ![k] = Gone]
    BY <1>12, DeleteIs
  <2>3. Gone.name \notin Names
    BY TemplatesAssumption DEF Gone
  <2>4. SaysTheSame(i)
    BY <2>2, <2>3 DEF SaysTheSame, TypeOK, RowsType
  <2> QED BY <1>4, <2>1, <2>4
<1>13. ASSUME Reviewed, SaysTheSame(i)
       PROVE  Followed(i)'
  BY <1>1, <1>2, <1>13, ReviewedFollows
<1>14. CASE SubmitTemplate(s) \/ ChangeAtMeta(s)
  BY <1>13, <1>14 DEF SubmitTemplate, ChangeAtMeta, SaysTheSame
<1>15. CASE PushPending(s)
  <2>1. Reviewed
    BY <1>15 DEF PushPending
  <2>2. PICK t \in mem[s].todo :
          /\ t \in [id : Ids, row : RowType]
          /\ \/ UNCHANGED rows
             \/ rows[t.id] # Gone /\ rows' = [rows EXCEPT ![t.id].provider = MetaName(t.row.name)]
    BY <1>15, PushIs
  <2>3. CASE UNCHANGED rows
    BY <1>13, <2>1, <2>3 DEF SaysTheSame
  <2>4. CASE rows[t.id] # Gone /\ rows' = [rows EXCEPT ![t.id].provider = MetaName(t.row.name)]
    <3>1. rows[t.id] \in RowType
      BY <1>15, <2>2, <2>4, PushIs DEF TypeOK, RowsKnown, RowsType
    <3>2. SaysTheSame(i)
      BY <2>2, <2>4, <3>1 DEF SaysTheSame, TypeOK, RowsType, RowType
    <3> QED BY <1>13, <2>1, <3>2
  <2> QED BY <2>2, <2>3, <2>4
<1> QED BY <1>6, <1>8, <1>9, <1>10, <1>11, <1>12, <1>14, <1>15 DEF SlotStep

(* A decision is the last one there is: its event can be overruled by none. *)
LEMMA DecideFollows ==
  ASSUME TypeOK, DecisionsHold, NEW j \in Jobs, Decide(j), NEW i \in Ids, Followed(i)
  PROVE  Followed(i)'
<1>1. PICK n \in Names, st \in {"APPROVED", "REJECTED"}, t \in {clock, clock + 1} :
        /\ decisions[j] = NoDecision /\ jobState[j] = "none"
        /\ meta'[n].status = st
        /\ \A k \in Names \ {n} : meta'[k] = meta[k]
        /\ clock <= t /\ t \in Nat
        /\ decisions' = [decisions EXCEPT ![j] = [name |-> n, status |-> st, ts |-> t]]
        /\ \/ Add(j) /\ UNCHANGED <<faults, astray>>
           \/ astray' = astray \cup {n} /\ UNCHANGED queueVars
  BY DecideIs
<1>2. UNCHANGED <<rows, wpc, cur, processed>>
  BY DEF Decide, workerVars
<1>3. /\ decisions'[j] = [name |-> n, status |-> st, ts |-> t]
      /\ \A k \in Jobs \ {j} : decisions'[k] = decisions[k]
  BY <1>1 DEF TypeOK, EventType
<1>4. \A k \in Jobs \ {j} : jobState'[k] = jobState[k]
  BY <1>1 DEF Add, queueVars, TypeOK, QueueType
<1>5. decisions[j].name \notin Names
  BY <1>1, TemplatesAssumption DEF NoDecision
<1>6. \A k \in Jobs \ {j} : (MayApply(k)' => MayApply(k)) /\ (Due(k) => Due(k)')
  BY <1>2, <1>4 DEF MayApply, Due
<1>7. CASE rows[i].name \in Names \ {n}
  <2>1. DecisionsStay(rows[i].name) /\ DueStays(rows[i].name)
    BY <1>3, <1>5, <1>6, <1>7 DEF DecisionsStay, DueStays
  <2>2. astray \subseteq astray'
    BY <1>1
  <2> QED BY <1>1, <1>2, <1>7, <2>1, <2>2, FollowedStays DEF SaysTheSame
<1>8. CASE rows[i].name = n /\ Add(j)
  <2>1. jobState'[j] = "waiting"
    BY <1>1, <1>8 DEF Add, TypeOK, QueueType
  <2>2. \A w \in Workers : cur[w] # j
    BY <1>1, TemplatesAssumption DEF TypeOK, JobsKnown
  <2>3. Due(j)'
    BY <1>2, <2>1, <2>2 DEF Due
  <2>4. ASSUME NEW k \in Jobs, decisions'[k].name = n
        PROVE  ~ t < decisions'[k].ts
    <3>1. CASE k = j
      BY <1>1, <1>3, <3>1
    <3>2. CASE k # j
      <4>1. decisions'[k] = decisions[k] /\ decisions[k] # NoDecision /\ clock \in Nat
        BY <1>3, <2>4, <3>2, TemplatesAssumption DEF NoDecision, TypeOK, EventType
      <4>2. decisions[k] \in Decision /\ decisions[k].ts <= clock
        BY <4>1 DEF DecisionsHold, TypeOK, EventType
      <4>3. decisions[k].ts \in Nat
        BY <4>2 DEF Decision
      <4> QED BY <1>1, <4>1, <4>2, <4>3
    <3> QED BY <3>1, <3>2
  <2>5. Coming(n)'
    BY <1>1, <1>3, <2>3, <2>4 DEF Coming, Late
  <2> QED BY <1>2, <1>8, <2>5 DEF Followed, Coming
<1>9. CASE rows[i].name = n /\ n \in astray'
  BY <1>2, <1>9 DEF Followed
<1>10. CASE rows[i].name \notin Names
  BY <1>2, <1>10 DEF Followed
<1> QED BY <1>1, <1>7, <1>8, <1>9, <1>10

LEMMA DecisionsHoldStep ==
  ASSUME TypeOK, DecisionsHold, [Next]_vars
  PROVE  DecisionsHold'
<1>1. \A n \in Names : meta[n].status # "none" => meta'[n].status # "none"
  BY MetaGrows
<1>2. CASE UNCHANGED <<decisions, clock>>
  BY <1>1, <1>2 DEF DecisionsHold, Existing
<1>3. ASSUME NEW j \in Jobs, Decide(j)
      PROVE  DecisionsHold'
  <2>1. PICK n \in Names, st \in {"APPROVED", "REJECTED"}, t \in {clock, clock + 1} :
          /\ meta'[n].status = st /\ clock' = t /\ clock <= t /\ t \in Nat
          /\ decisions' = [decisions EXCEPT ![j] = [name |-> n, status |-> st, ts |-> t]]
    BY <1>3, DecideIs
  <2>2. /\ decisions'[j] = [name |-> n, status |-> st, ts |-> t]
        /\ \A k \in Jobs \ {j} : decisions'[k] = decisions[k]
    BY <2>1 DEF TypeOK, EventType
  <2>3. n \in Existing(meta')
    BY <2>1 DEF Existing
  <2>4. ASSUME NEW k \in Jobs \ {j}, decisions[k] # NoDecision
        PROVE  decisions[k].name \in Existing(meta') /\ decisions[k].ts <= t
    <3>1. decisions[k] \in Decision /\ decisions[k].name \in Existing(meta) /\ decisions[k].ts <= clock
      BY <2>4 DEF DecisionsHold, TypeOK, EventType
    <3>2. decisions[k].ts \in Nat /\ clock \in Nat
      BY <3>1 DEF Decision, TypeOK, EventType
    <3> QED BY <1>1, <2>1, <3>1, <3>2 DEF Existing
  <2> QED BY <2>1, <2>2, <2>3, <2>4 DEF DecisionsHold
<1>4. RequestMove \/ JobMove \/ SenderMove \/ (\E w \in Workers : ApplyEvent(w)) \/ UNCHANGED vars
        => UNCHANGED <<decisions, clock>>
  BY RequestMoveLeaves, JobMoveLeaves, SenderMoveLeaves DEF metaVars, vars, ApplyEvent
<1> QED BY <1>2, <1>3, <1>4, Moves

LEMMA FollowStep ==
  TypeOK /\ FollowInv /\ [Next]_vars => FollowInv'
<1> SUFFICES ASSUME TypeOK, FollowInv, [Next]_vars PROVE FollowInv'
  OBVIOUS
<1>1. DecisionsHold /\ DecisionsHold' /\ \A i \in Ids : Followed(i)
  BY DecisionsHoldStep DEF FollowInv
<1>2. ASSUME NEW i \in Ids
      PROVE  Followed(i)'
  <2>1. Followed(i)
    BY <1>1
  <2>2. CASE UNCHANGED <<rows, meta, decisions, processed, wpc, cur, jobState, astray>>
    <3>1. (\A k \in Jobs : MayApply(k)' => MayApply(k)) /\ (\A k \in Jobs : Due(k) => Due(k)')
      BY <2>2 DEF MayApply, Due
    <3> QED BY <2>1, <2>2, <3>1, FollowedStays DEF SaysTheSame, DecisionsStay, DueStays
  <2>3. SenderMove \/ UNCHANGED vars => Followed(i)'
    BY <2>2, SenderMoveLeaves DEF vars, metaVars, workerVars, queueVars, histVars
  <2> QED BY <1>1, <2>1, <2>3, Moves, RequestFollows, JobFollows, ApplyFollows, DecideFollows
          DEF RequestMove
<1> QED BY <1>1, <1>2 DEF FollowInv

LEMMA FollowShows ==
  TypeOK /\ FollowInv => StatusFollowsMeta
<1> SUFFICES ASSUME TypeOK, FollowInv, NEW i \in Ids, rows[i].name \in Names, Quiet(rows[i].name),
                    rows[i].name \notin astray, meta[rows[i].name].status # "none"
             PROVE  meta[rows[i].name].status = rows[i].status
  BY DEF StatusFollowsMeta
<1>1. ~ Coming(rows[i].name)
  BY DEF Coming, Quiet, Due
<1>2. Shows(i)
  BY <1>1 DEF FollowInv, Followed
<1> QED BY <1>2 DEF Shows

(* When Meta's decisions on a template have been worked off, in whatever    *)
(* order they came and however often they were run, its row has Meta's      *)
(* status, or a step that the history names led it astray: the invariant is *)
(* that the row shows it already and no event that may be applied is later, *)
(* or the event of the last decision is under way and none is later.        *)
THEOREM StatusIsFollowed == Spec => []StatusFollowsMeta
<1>1. Init => FollowInv
  <2> SUFFICES ASSUME Init PROVE FollowInv
    OBVIOUS
  <2>1. \A i \in Ids : rows[i].name \notin Names
    BY TemplatesAssumption DEF Init, NoRow
  <2>2. \A j \in Jobs : decisions[j] = NoDecision
    BY DEF Init
  <2> QED BY <2>1, <2>2 DEF FollowInv, DecisionsHold, Followed
<1>2. TypeOK /\ FollowInv /\ [Next]_vars => TypeOK' /\ FollowInv'
  BY TypeStep, FollowStep
<1> QED BY <1>1, <1>2, TypeInit, FollowShows, PTL DEF Spec
=============================================================================
