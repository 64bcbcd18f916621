-------------------------- MODULE Onboarding_proofs --------------------------
(* Theorems of Onboarding, for every set of processes and requests, every   *)
(* kind of request and of failure, and every bound.                         *)
EXTENDS Onboarding, FiniteSetTheorems, TLAPS

-----------------------------------------------------------------------------
(* Type correctness.                                                       *)

LEMMA UnchangedTypes ==
  ASSUME TypeOK
  PROVE  /\ UNCHANGED accountVars => AccountType'
         /\ UNCHANGED tokenVars => TokenType'
         /\ UNCHANGED <<pc, requestVars>> => RequestType'
         /\ UNCHANGED histVars => HistType'
<1> USE DEF TypeOK
<1>1. UNCHANGED accountVars => AccountType'
  BY DEF AccountType, accountVars
<1>2. UNCHANGED tokenVars => TokenType'
  BY DEF TokenType, tokenVars
<1>3. UNCHANGED <<pc, requestVars>> => RequestType'
  BY DEF RequestType, requestVars
<1>4. UNCHANGED histVars => HistType'
  BY DEF HistType, histVars
<1> QED BY <1>1, <1>2, <1>3, <1>4

(* Meta must have done a request before the account is in its state, and    *)
(* nothing else.                                                            *)
LEMMA TargetNeeds ==
  /\ \A k \in DOMAIN Target : Target[k] \in States /\ Needed[Target[k]] \subseteq {k}
  /\ \A st \in States : Needed[st] \subseteq DOMAIN Target
  /\ Needed["INIT"] = {} /\ Needed["ATTACHED"] = {}
  /\ Needed["FAILED_TEMP"] = {} /\ Needed["FAILED_PERMANENT"] = {}
  /\ Needed["REGISTERED_PENDING"] = Needed["LIVE"]
BY DEF Target, Needed, States

LEMMA FaultType ==
  ASSUME TypeOK, NEW f, Fault(f)
  PROVE  faults' \in Nat
BY DEF TypeOK, Fault

(* A request that is answered leaves its slot empty. *)
LEMMA AnsweredTypes ==
  ASSUME TypeOK, NEW s \in Slots, Answered(s)
  PROVE  RequestType' /\ HistType'
<1>1. NoCopy \in [status : States, version : Nat] /\ "INIT" \in States /\ 0 \in 0..MaxRetries
  BY DEF NoCopy, States, MaxRetries
<1>2. RequestType'
  BY <1>1 DEF TypeOK, RequestType, Answered, Goto, Labels
<1> QED BY <1>2 DEF TypeOK, HistType, Answered

(* A request that goes on stays the request it is. *)
LEMMA GoOnTypes ==
  ASSUME TypeOK, NEW s \in Slots, pc[s] # "idle", NEW label \in Labels \ {"idle"},
         Goto(s, label), UNCHANGED kind, copy' \in [Slots -> [status : States, version : Nat]],
         next' \in [Slots -> States], attempt' \in [Slots -> 0..MaxRetries],
         outcome' \in [Slots -> {"none", "call", "error"}]
  PROVE  RequestType'
BY DEF TypeOK, RequestType, Goto

LEMMA GoOnUnchanged ==
  ASSUME TypeOK, NEW s \in Slots, pc[s] # "idle", NEW label \in Labels \ {"idle"},
         Goto(s, label), UNCHANGED requestVars
  PROVE  RequestType'
BY GoOnTypes DEF TypeOK, RequestType, requestVars

LEMMA OutdateTypes ==
  ASSUME TypeOK, Outdate
  PROVE  HistType'
BY DEF TypeOK, HistType, Outdate

LEMMA ReceiveTypes ==
  ASSUME TypeOK, NEW s \in Slots, Receive(s)
  PROVE  TypeOK'
<1>1. RequestType'
  <2>1. PICK k \in Kinds : /\ kind' = [kind EXCEPT ![s] = k]
                           /\ Goto(s, IF k = "signup" THEN "exchange" ELSE "read")
    BY DEF Receive
  <2>2. k # "none"
    BY OnboardingAssumption
  <2> QED BY <2>1, <2>2 DEF Receive, Goto, TypeOK, RequestType, Labels
<1> QED BY <1>1, UnchangedTypes DEF Receive, TypeOK

LEMMA SignupTypes ==
  ASSUME TypeOK, NEW s \in Slots,
         ExchangeCode(s) \/ GetDetails(s) \/ UpsertAccount(s) \/ SyncSignup(s)
  PROVE  TypeOK'
<1>1. {"details", "upsert", "sync"} \subseteq Labels \ {"idle"}
  BY DEF Labels
<1>2. CASE ExchangeCode(s)
  <2>1. RequestType' /\ HistType'
    BY <1>1, <1>2, AnsweredTypes, GoOnUnchanged, UnchangedTypes DEF ExchangeCode
  <2> QED BY <1>2, <2>1, FaultType, UnchangedTypes DEF ExchangeCode, TypeOK
<1>3. CASE GetDetails(s)
  <2>1. RequestType' /\ HistType'
    BY <1>1, <1>3, AnsweredTypes, GoOnUnchanged, UnchangedTypes DEF GetDetails
  <2> QED BY <1>3, <2>1, UnchangedTypes DEF GetDetails, TypeOK
<1>4. CASE UpsertAccount(s)
  <2>1. RequestType' /\ HistType'
    BY <1>1, <1>4, GoOnUnchanged, OutdateTypes DEF UpsertAccount
  <2>2. AccountType'
    BY <1>4 DEF UpsertAccount, TypeOK, AccountType, States
  <2> QED BY <1>4, <2>1, <2>2, UnchangedTypes DEF UpsertAccount, TypeOK
<1>5. CASE SyncSignup(s)
  BY <1>5, AnsweredTypes, UnchangedTypes DEF SyncSignup, TypeOK
<1> QED BY <1>2, <1>3, <1>4, <1>5

LEMMA ReadTypes ==
  ASSUME TypeOK, NEW s \in Slots, ReadAccount(s) \/ ReadForWebhook(s) \/ FindExpiring(s)
  PROVE  TypeOK'
<1>1. {"idempotency", "token", "update", "refresh"} \subseteq Labels \ {"idle"}
  BY DEF Labels
<1>2. [status |-> status, version |-> version] \in [status : States, version : Nat]
  BY DEF TypeOK, AccountType
<1>3. Read(s) => copy' \in [Slots -> [status : States, version : Nat]] /\ HistType'
  BY <1>2 DEF Read, TypeOK, RequestType, HistType
<1>4. CASE ReadAccount(s)
  <2>1. RequestType' /\ HistType'
    <3>4. pc[s] = "read" /\ kind[s] \in DOMAIN Target
      BY <1>4 DEF ReadAccount
    <3>1. CASE Answered(s)
      BY <3>1, AnsweredTypes
    <3>2. CASE /\ Read(s) /\ next' = [next EXCEPT ![s] = Target[kind[s]]]
               /\ Goto(s, "idempotency") \/ Goto(s, "token")
               /\ UNCHANGED <<kind, attempt, outcome>>
      <4>1. Target[kind[s]] \in States
        BY <3>4, TargetNeeds
      <4>2. next' \in [Slots -> States]
        BY <3>2, <4>1 DEF TypeOK, RequestType
      <4>3. PICK label \in {"idempotency", "token"} : Goto(s, label)
        BY <3>2
      <4>4. copy' \in [Slots -> [status : States, version : Nat]] /\ HistType'
        BY <1>3, <3>2
      <4> QED BY <1>1, <3>4, <3>2, <4>2, <4>3, <4>4, GoOnTypes DEF TypeOK, RequestType
    <3> QED BY <1>4, <3>1, <3>2 DEF ReadAccount
  <2> QED BY <1>4, <2>1, UnchangedTypes DEF ReadAccount, TypeOK
<1>5. CASE ReadForWebhook(s)
  <2>1. RequestType' /\ HistType'
    <3>1. CASE Answered(s)
      BY <3>1, AnsweredTypes
    <3>2. ASSUME NEW to \in WebhookTargets, Read(s), next' = [next EXCEPT ![s] = to],
                 Goto(s, "update"), UNCHANGED <<kind, attempt, outcome>>
          PROVE  RequestType' /\ HistType'
      <4>1. next' \in [Slots -> States]
        BY <3>2 DEF WebhookTargets, States, TypeOK, RequestType
      <4> QED BY <1>1, <1>3, <1>5, <3>2, <4>1, GoOnTypes DEF ReadForWebhook, TypeOK, RequestType
    <3> QED BY <1>5, <3>1, <3>2 DEF ReadForWebhook
  <2> QED BY <1>5, <2>1, UnchangedTypes DEF ReadForWebhook, TypeOK
<1>6. CASE FindExpiring(s)
  <2>1. RequestType' /\ HistType'
    BY <1>1, <1>6, AnsweredTypes, GoOnUnchanged, UnchangedTypes DEF FindExpiring
  <2> QED BY <1>6, <2>1, UnchangedTypes DEF FindExpiring, TypeOK
<1> QED BY <1>4, <1>5, <1>6

LEMMA UpdateTypes ==
  ASSUME TypeOK, NEW s \in Slots,
         CheckIdempotency(s) \/ StoreIdempotency(s) \/ UpdateAccountState(s) \/ RefreshAccount(s)
  PROVE  TypeOK'
<1>1. {"token", "update", "sync"} \subseteq Labels \ {"idle"}
  BY DEF Labels
<1>2. CASE CheckIdempotency(s)
  <2>1. RequestType' /\ HistType'
    BY <1>1, <1>2, AnsweredTypes, GoOnUnchanged, UnchangedTypes DEF CheckIdempotency
  <2> QED BY <1>2, <2>1, FaultType, UnchangedTypes DEF CheckIdempotency, TypeOK
<1>3. CASE StoreIdempotency(s)
  <2>1. RequestType' /\ HistType'
    BY <1>1, <1>3, AnsweredTypes, GoOnUnchanged, UnchangedTypes DEF StoreIdempotency
  <2> QED BY <1>3, <2>1, FaultType, UnchangedTypes DEF StoreIdempotency, TypeOK
<1>4. CASE UpdateAccountState(s)
  <2>1. AccountType'
    <3>1. CASE UNCHANGED <<status, version, hasPhone>>
      BY <1>4, <3>1, UnchangedTypes DEF UpdateAccountState, accountVars
    <3>2. CASE /\ status' = next[s] /\ version' = version + 1
               /\ hasPhone' = (hasPhone \/ kind[s] = "addPhone")
      <4>1. status' \in States /\ version' \in Nat
        BY <3>2 DEF TypeOK, AccountType, RequestType
      <4>2. hasPhone' \in BOOLEAN
        BY <3>2
      <4> QED BY <1>4, <4>1, <4>2 DEF UpdateAccountState, TypeOK, AccountType
    <3> QED BY <1>4, <3>1, <3>2 DEF UpdateAccountState
  <2>2. faults' \in Nat
    BY <1>4, FaultType DEF UpdateAccountState, TypeOK
  <2> QED BY <1>4, <2>1, <2>2, AnsweredTypes, UnchangedTypes DEF UpdateAccountState, TypeOK
<1>5. CASE RefreshAccount(s)
  <2>1. AccountType'
    BY <1>5 DEF RefreshAccount, TypeOK, AccountType, States
  <2>2. RequestType' /\ HistType' /\ faults' \in Nat
    BY <1>1, <1>5, GoOnUnchanged, OutdateTypes, FaultType, UnchangedTypes DEF RefreshAccount, TypeOK
  <2> QED BY <1>5, <2>1, <2>2, UnchangedTypes DEF RefreshAccount, TypeOK
<1> QED BY <1>2, <1>3, <1>4, <1>5

(* The way out of the critical section. *)
LEMMA LeaveTypes ==
  ASSUME TypeOK, NEW s \in Slots, pc[s] # "idle", Leave(s)
  PROVE  RequestType' /\ HistType'
<1>1. "call" \in Labels \ {"idle"}
  BY DEF Labels
<1>2. CASE outcome[s] = "call"
  <2>1. /\ Goto(s, "call") /\ outcome' = [outcome EXCEPT ![s] = "none"]
        /\ UNCHANGED <<kind, copy, next, attempt>> /\ UNCHANGED histVars
    BY <1>2 DEF Leave
  <2>2. outcome' \in [Slots -> {"none", "call", "error"}]
    BY <2>1 DEF TypeOK, RequestType
  <2>3. /\ copy' \in [Slots -> [status : States, version : Nat]]
        /\ next' \in [Slots -> States] /\ attempt' \in [Slots -> 0..MaxRetries]
    BY <2>1 DEF TypeOK, RequestType
  <2>4. RequestType'
    BY <1>1, <2>1, <2>2, <2>3, GoOnTypes
  <2> QED BY <2>1, <2>4, UnchangedTypes DEF TypeOK
<1>3. CASE outcome[s] # "call"
  BY <1>3, AnsweredTypes DEF Leave
<1> QED BY <1>2, <1>3

LEMMA TokenTypes ==
  ASSUME TypeOK, NEW s \in Slots,
         \/ LookUpToken(s) \/ TakeLock(s) \/ Recheck(s) \/ FindByWrongId(s)
         \/ ReadLock(s) \/ DeleteLock(s) \/ RedisFails(s)
  PROVE  TypeOK'
<1>1. {"call", "lock", "recheck", "token", "release", "find", "delete"} \subseteq Labels \ {"idle"}
  BY DEF Labels
<1>2. CASE LookUpToken(s)
  <2>1. TokenType'
    BY <1>2 DEF LookUpToken, TypeOK, TokenType
  <2> QED BY <1>1, <1>2, <2>1, GoOnUnchanged, UnchangedTypes DEF LookUpToken, TypeOK
<1>3. CASE TakeLock(s)
  <2>1. TokenType'
    BY <1>3 DEF TakeLock, TypeOK, TokenType
  <2>2. RequestType'
    BY <1>1, <1>3, GoOnUnchanged DEF TakeLock
  <2> QED BY <1>3, <2>1, <2>2, UnchangedTypes DEF TakeLock, TypeOK
<1>4. CASE Recheck(s)
  <2>1. RequestType'
    BY <1>1, <1>4, GoOnTypes DEF Recheck, TypeOK, RequestType
  <2> QED BY <1>4, <2>1, UnchangedTypes DEF Recheck, TypeOK
<1>5. CASE FindByWrongId(s)
  <2>1. RequestType'
    BY <1>1, <1>5, GoOnTypes DEF FindByWrongId, TypeOK, RequestType
  <2> QED BY <1>5, <2>1, UnchangedTypes DEF FindByWrongId, TypeOK
<1>6. CASE ReadLock(s)
  <2>1. RequestType' /\ HistType'
    BY <1>1, <1>6, LeaveTypes, GoOnUnchanged, UnchangedTypes DEF ReadLock
  <2> QED BY <1>6, <2>1, UnchangedTypes DEF ReadLock, TypeOK
<1>7. CASE DeleteLock(s)
  <2>1. TokenType'
    BY <1>7 DEF DeleteLock, TypeOK, TokenType
  <2>2. RequestType' /\ HistType'
    BY <1>7, LeaveTypes DEF DeleteLock
  <2> QED BY <1>7, <2>1, <2>2, UnchangedTypes DEF DeleteLock, TypeOK
<1>8. CASE RedisFails(s)
  BY <1>8, AnsweredTypes, FaultType, UnchangedTypes DEF RedisFails, TypeOK
<1> QED BY <1>2, <1>3, <1>4, <1>5, <1>6, <1>7, <1>8

(* Only calls for a request that moves the account are made. *)
LEMMA CallTypes ==
  ASSUME TypeOK, MetaWasAsked, NEW s \in Slots, CallMeta(s) \/ CallFails(s)
  PROVE  TypeOK'
<1>1. {"store", "update", "token"} \subseteq Labels \ {"idle"}
  BY DEF Labels
<1>2. pc[s] = "call" /\ kind[s] \in DOMAIN Target
  BY DEF CallMeta, CallFails, MetaWasAsked, Asking
<1>3. CASE CallMeta(s)
  <2>1. RequestType'
    BY <1>1, <1>3, GoOnUnchanged DEF CallMeta
  <2> QED BY <1>2, <1>3, <2>1, UnchangedTypes DEF CallMeta, TypeOK
<1>4. CASE CallFails(s)
  <2>1. done' \subseteq DOMAIN Target /\ faults' \in Nat
    BY <1>2, <1>4, FaultType DEF CallFails, TypeOK
  <2>2. PICK e \in DOMAIN Passes :
          LET refused == e = "token" /\ attempt[s] < 1
          IN /\ redisToken' = (redisToken /\ ~refused)
             /\ memoryToken' = [memoryToken EXCEPT ![s[1]] = @ /\ ~refused]
             /\ IF refused \/ ShouldRetry(e, attempt[s])
                THEN /\ attempt' = [attempt EXCEPT ![s] = @ + 1]
                     /\ Goto(s, "token")
                     /\ UNCHANGED <<kind, copy, next, outcome, histVars>>
                ELSE Answered(s)
    BY <1>4 DEF CallFails
  <2>3. TokenType'
    BY <1>4, <2>2 DEF CallFails, TypeOK, TokenType
  <2>4. RequestType' /\ HistType'
    <3>1. CASE Answered(s)
      BY <3>1, AnsweredTypes
    <3>2. CASE attempt[s] < 3 /\ attempt' = [attempt EXCEPT ![s] = @ + 1] /\ Goto(s, "token")
                 /\ UNCHANGED <<kind, copy, next, outcome, histVars>>
      <4>1. attempt[s] + 1 \in 0..MaxRetries
        BY <3>2 DEF TypeOK, RequestType, MaxRetries
      <4>2. attempt' \in [Slots -> 0..MaxRetries]
        BY <3>2, <4>1 DEF TypeOK, RequestType
      <4> QED BY <1>1, <1>2, <3>2, <4>2, GoOnTypes, UnchangedTypes DEF TypeOK, RequestType
    <3>3. attempt[s] < 1 \/ ShouldRetry(e, attempt[s]) => attempt[s] < 3
      BY DEF ShouldRetry, MaxRetries, TypeOK, RequestType
    <3> QED BY <2>2, <3>1, <3>2, <3>3
  <2> QED BY <1>4, <2>1, <2>3, <2>4, UnchangedTypes DEF CallFails, TypeOK
<1> QED BY <1>3, <1>4

LEMMA CrashTypes ==
  ASSUME TypeOK, NEW p \in Procs, Crash(p)
  PROVE  TypeOK'
<1>1. NoCopy \in [status : States, version : Nat] /\ "INIT" \in States /\ 0 \in 0..MaxRetries
  BY DEF NoCopy, States, MaxRetries
<1>2. RequestType'
  BY <1>1 DEF Crash, TypeOK, RequestType, Labels
<1>3. TokenType' /\ HistType'
  BY DEF Crash, TypeOK, TokenType, HistType
<1> QED BY <1>2, <1>3, FaultType, UnchangedTypes DEF Crash, TypeOK

(* The variables of Onboarding keep their types. *)
LEMMA TypeStep ==
  ASSUME TypeOK, MetaWasAsked, [Next]_vars
  PROVE  TypeOK'
<1>1. CASE BackendCachesToken \/ TokenAges \/ LockExpires
  <2>1. TokenType'
    BY <1>1 DEF BackendCachesToken, TokenAges, LockExpires, TypeOK, TokenType
  <2>2. HistType' /\ faults' \in Nat
    BY <1>1, FaultType DEF BackendCachesToken, TokenAges, LockExpires, TypeOK, HistType, histVars
  <2> QED BY <1>1, <2>1, <2>2, UnchangedTypes DEF BackendCachesToken, TokenAges, LockExpires, TypeOK
<1>2. CASE UNCHANGED vars
  BY <1>2, UnchangedTypes DEF vars, TypeOK
<1> QED BY <1>1, <1>2, ReceiveTypes, SignupTypes, ReadTypes, UpdateTypes, TokenTypes, CallTypes,
           CrashTypes DEF Next, RequestStep

-----------------------------------------------------------------------------
(* A step of one request leaves the others alone.                          *)

(* An unversioned write outdates them, no more. *)
LEMMA OwnRequestOnly ==
  ASSUME TypeOK, NEW s \in Slots, NEW t \in Slots, t # s, Receive(s) \/ RequestStep(s)
  PROVE  /\ pc'[t] = pc[t] /\ kind'[t] = kind[t]
         /\ copy'[t] = copy[t] /\ next'[t] = next[t]
         /\ pc[t] # "idle" /\ t \in overwritten => t \in overwritten'
<1>1. CASE Answered(s)
  BY <1>1 DEF Answered, Goto, TypeOK, RequestType
<1>2. CASE Receive(s)
  BY <1>2 DEF Receive, Goto, histVars, TypeOK, RequestType
<1>3. ASSUME NEW label, Goto(s, label), UNCHANGED kind, Read(s) \/ UNCHANGED <<copy, histVars>>,
             UNCHANGED next \/ \E x : next' = [next EXCEPT ![s] = x]
      PROVE  /\ pc'[t] = pc[t] /\ kind'[t] = kind[t]
             /\ copy'[t] = copy[t] /\ next'[t] = next[t]
             /\ pc[t] # "idle" /\ t \in overwritten => t \in overwritten'
  BY <1>3 DEF Goto, Read, histVars, TypeOK, RequestType
<1>4. ASSUME NEW label, Goto(s, label), UNCHANGED requestVars, Outdate
      PROVE  /\ pc'[t] = pc[t] /\ kind'[t] = kind[t]
             /\ copy'[t] = copy[t] /\ next'[t] = next[t]
             /\ pc[t] # "idle" /\ t \in overwritten => t \in overwritten'
  BY <1>4 DEF Goto, Outdate, requestVars, TypeOK, RequestType
<1>5. CASE ReadAccount(s) \/ ReadForWebhook(s)
  BY <1>1, <1>3, <1>5 DEF ReadAccount, ReadForWebhook
<1>6. CASE ExchangeCode(s) \/ GetDetails(s) \/ SyncSignup(s) \/ FindExpiring(s)
  BY <1>1, <1>3, <1>6 DEF ExchangeCode, GetDetails, SyncSignup, FindExpiring, requestVars
<1>7. CASE UpsertAccount(s) \/ RefreshAccount(s)
  BY <1>3, <1>4, <1>7 DEF UpsertAccount, RefreshAccount, requestVars
<1>8. CASE CheckIdempotency(s) \/ StoreIdempotency(s) \/ UpdateAccountState(s) \/ RedisFails(s)
  BY <1>1, <1>3, <1>8 DEF CheckIdempotency, StoreIdempotency, UpdateAccountState, RedisFails,
     requestVars
<1>9. CASE LookUpToken(s) \/ TakeLock(s) \/ Recheck(s) \/ FindByWrongId(s)
  BY <1>3, <1>9 DEF LookUpToken, TakeLock, Recheck, FindByWrongId, requestVars
<1>10. CASE ReadLock(s) \/ DeleteLock(s)
  BY <1>1, <1>3, <1>10 DEF ReadLock, DeleteLock, Leave, requestVars
<1>11. CASE CallMeta(s) \/ CallFails(s)
  BY <1>1, <1>3, <1>11 DEF CallMeta, CallFails, requestVars
<1> QED BY <1>2, <1>5, <1>6, <1>7, <1>8, <1>9, <1>10, <1>11 DEF RequestStep

(* The rest of the world leaves all of them alone. *)
LEMMA WorldLeavesRequests ==
  ASSUME BackendCachesToken \/ TokenAges \/ LockExpires
  PROVE  UNCHANGED <<accountVars, pc, requestVars, done, overwritten>>
BY DEF BackendCachesToken, TokenAges, LockExpires, histVars

(* A crash ends the requests of its process, and leaves the others alone. *)
LEMMA CrashEndsRequests ==
  ASSUME TypeOK, NEW p \in Procs, Crash(p), NEW s \in Slots
  PROVE  /\ UNCHANGED <<accountVars, done, lock, expired>>
         /\ \/ pc'[s] = "idle" /\ copy'[s] = NoCopy
            \/ /\ pc'[s] = pc[s] /\ kind'[s] = kind[s] /\ copy'[s] = copy[s] /\ next'[s] = next[s]
               /\ s \in overwritten' <=> s \in overwritten
BY DEF Crash, TypeOK, RequestType

(* What Meta has done stays done. *)
LEMMA DoneGrows ==
  ASSUME [Next]_vars
  PROVE  done \subseteq done'
<1>1. ASSUME NEW s \in Slots, Receive(s) \/ RequestStep(s)
      PROVE  done \subseteq done'
  BY <1>1 DEF Receive, RequestStep, ExchangeCode, GetDetails, UpsertAccount, SyncSignup, ReadAccount,
     ReadForWebhook, CheckIdempotency, StoreIdempotency, UpdateAccountState, FindExpiring,
     RefreshAccount, LookUpToken, TakeLock, Recheck, FindByWrongId, ReadLock, DeleteLock,
     RedisFails, CallMeta, CallFails
<1>2. ASSUME NEW p \in Procs, Crash(p)
      PROVE  done \subseteq done'
  BY <1>2 DEF Crash
<1> QED BY <1>1, <1>2, WorldLeavesRequests DEF Next, vars

-----------------------------------------------------------------------------
(* Requests come to their updates with Meta's answer.                      *)

(* What MetaWasAsked says of one request. *)
Asked(s) ==
  /\ pc[s] \in Asking => kind[s] \in DOMAIN Target /\ next[s] = Target[kind[s]]
  /\ pc[s] = "store" => kind[s] \in done
  /\ pc[s] = "update" => Needed[next[s]] \subseteq done

LEMMA AskedByItself ==
  ASSUME TypeOK, ClaimsAreDone, MetaWasAsked, NEW s \in Slots, Receive(s) \/ RequestStep(s),
         done \subseteq done'
  PROVE  Asked(s)'
<1>1. Asked(s)
  BY DEF MetaWasAsked, Asked
<1>2. CASE Answered(s)
  BY <1>2 DEF Answered, Goto, Asked, Asking, TypeOK, RequestType
<1>3. ASSUME NEW label \in {"exchange", "read", "details", "upsert", "sync", "refresh"}, Goto(s, label)
      PROVE  Asked(s)'
  BY <1>3 DEF Goto, Asked, Asking, TypeOK, RequestType
<1>4. ASSUME pc[s] \in Asking, NEW label \in Asking \ {"store"}, Goto(s, label), UNCHANGED <<kind, next>>
      PROVE  Asked(s)'
  BY <1>1, <1>4 DEF Goto, Asked, Asking, TypeOK, RequestType
<1>5. CASE Receive(s)
  BY <1>3, <1>5 DEF Receive
<1>6. CASE ExchangeCode(s) \/ GetDetails(s) \/ UpsertAccount(s) \/ SyncSignup(s) \/ FindExpiring(s)
           \/ RefreshAccount(s)
  BY <1>2, <1>3, <1>6 DEF ExchangeCode, GetDetails, UpsertAccount, SyncSignup, FindExpiring, RefreshAccount
<1>7. CASE ReadAccount(s)
  <2>1. kind[s] \in DOMAIN Target
    BY <1>7 DEF ReadAccount
  <2>2. CASE /\ next' = [next EXCEPT ![s] = Target[kind[s]]] /\ UNCHANGED kind
             /\ Goto(s, "idempotency") \/ Goto(s, "token")
    BY <2>1, <2>2 DEF Goto, Asked, Asking, TypeOK, RequestType
  <2> QED BY <1>2, <1>7, <2>2 DEF ReadAccount
<1>8. CASE ReadForWebhook(s)
  <2>1. ASSUME NEW to \in WebhookTargets, Found(s), status # to, CanTransition(status, to),
               next' = [next EXCEPT ![s] = to], Goto(s, "update"), UNCHANGED <<kind, done>>
        PROVE  Asked(s)'
    <3>1. Needed[to] \subseteq done
      <4>1. to = "LIVE" => status = "REGISTERED_PENDING"
        BY <2>1 DEF CanTransition, AllowedTransitions, TypeOK, AccountType, States
      <4> QED BY <2>1, <4>1, TargetNeeds DEF WebhookTargets, Found, ClaimsAreDone
    <3> QED BY <2>1, <3>1 DEF Goto, Asked, Asking, TypeOK, RequestType
  <2> QED BY <1>2, <1>8, <2>1 DEF ReadForWebhook
<1>9. CASE CheckIdempotency(s) \/ RedisFails(s) \/ UpdateAccountState(s)
  BY <1>2, <1>4, <1>9 DEF CheckIdempotency, RedisFails, UpdateAccountState, Asking, requestVars
<1>10. CASE StoreIdempotency(s)
  <2>1. CASE Goto(s, "update") /\ UNCHANGED requestVars
    BY <1>1, <1>10, <2>1, TargetNeeds
       DEF StoreIdempotency, Goto, Asked, Asking, requestVars, TypeOK, RequestType
  <2> QED BY <1>2, <1>10, <2>1 DEF StoreIdempotency
<1>11. CASE LookUpToken(s) \/ TakeLock(s) \/ Recheck(s) \/ FindByWrongId(s)
  BY <1>4, <1>11 DEF LookUpToken, TakeLock, Recheck, FindByWrongId, Asking, requestVars
<1>12. CASE ReadLock(s) \/ DeleteLock(s)
  BY <1>2, <1>4, <1>12 DEF ReadLock, DeleteLock, Leave, Asking, requestVars
<1>13. CASE CallMeta(s)
  BY <1>1, <1>13, TargetNeeds DEF CallMeta, Goto, Asked, Asking, requestVars, TypeOK, RequestType
<1>14. CASE CallFails(s)
  BY <1>2, <1>4, <1>14 DEF CallFails, Asking
<1> QED BY <1>5, <1>6, <1>7, <1>8, <1>9, <1>10, <1>11, <1>12, <1>13, <1>14 DEF RequestStep

LEMMA AskedStep ==
  ASSUME TypeOK, ClaimsAreDone, MetaWasAsked, [Next]_vars
  PROVE  MetaWasAsked'
<1>1. SUFFICES ASSUME NEW t \in Slots PROVE Asked(t)'
  BY DEF MetaWasAsked, Asked
<1>2. Asked(t) /\ done \subseteq done'
  BY DoneGrows DEF MetaWasAsked, Asked
<1>3. CASE pc'[t] = pc[t] /\ kind'[t] = kind[t] /\ next'[t] = next[t]
  BY <1>2, <1>3 DEF Asked
<1>4. ASSUME NEW s \in Slots, Receive(s) \/ RequestStep(s)
      PROVE  Asked(t)'
  BY <1>2, <1>3, <1>4, AskedByItself, OwnRequestOnly
<1>5. ASSUME NEW p \in Procs, Crash(p)
      PROVE  Asked(t)'
  BY <1>3, <1>5, CrashEndsRequests DEF Asked, Asking
<1>6. CASE BackendCachesToken \/ TokenAges \/ LockExpires \/ UNCHANGED vars
  BY <1>3, <1>6, WorldLeavesRequests DEF vars, requestVars
<1> QED BY <1>4, <1>5, <1>6 DEF Next

LEMMA ClaimsStep ==
  ASSUME TypeOK, ClaimsAreDone, MetaWasAsked, [Next]_vars
  PROVE  ClaimsAreDone'
<1>1. done \subseteq done'
  BY DoneGrows
<1>2. CASE UNCHANGED <<exists, status>>
  BY <1>1, <1>2 DEF ClaimsAreDone
<1>3. ASSUME NEW s \in Slots, Receive(s) \/ RequestStep(s)
      PROVE  ClaimsAreDone'
  <2>1. CASE UpsertAccount(s)
    BY <2>1, TargetNeeds DEF UpsertAccount, ClaimsAreDone
  <2>2. CASE RefreshAccount(s)
    BY <1>2, <2>2, TargetNeeds DEF RefreshAccount, ClaimsAreDone
  <2>3. CASE UpdateAccountState(s)
    BY <1>1, <1>2, <2>3 DEF UpdateAccountState, MetaWasAsked, ClaimsAreDone
  <2>4. CASE ~(UpsertAccount(s) \/ RefreshAccount(s) \/ UpdateAccountState(s))
    BY <1>2, <1>3, <2>4 DEF Receive, RequestStep, ExchangeCode, GetDetails, SyncSignup, ReadAccount,
       ReadForWebhook, CheckIdempotency, StoreIdempotency, FindExpiring, LookUpToken, TakeLock,
       Recheck, FindByWrongId, ReadLock, DeleteLock, RedisFails, CallMeta, CallFails, accountVars
  <2> QED BY <2>1, <2>2, <2>3, <2>4
<1>4. ASSUME NEW p \in Procs, Crash(p)
      PROVE  ClaimsAreDone'
  BY <1>2, <1>4 DEF Crash, accountVars
<1>5. CASE BackendCachesToken \/ TokenAges \/ LockExpires \/ UNCHANGED vars
  BY <1>2, <1>5, WorldLeavesRequests DEF vars, accountVars
<1> QED BY <1>3, <1>4, <1>5 DEF Next

-----------------------------------------------------------------------------
(* What a request knows of the account.                                    *)

(* What CopyIsCurrent says of one request. *)
Current(s) ==
  /\ copy[s].version <= version
  /\ Moving(s) => CanTransition(copy[s].status, next[s])
  /\ Moving(s) /\ s \notin overwritten /\ copy[s].version = version => copy[s].status = status

LEMMA CopyTypes ==
  ASSUME TypeOK, NEW s \in Slots
  PROVE  copy[s].version \in Nat /\ version \in Nat
BY DEF TypeOK, RequestType, AccountType

(* A request that has just read the account. *)
LEMMA ReadIsCurrent ==
  ASSUME TypeOK, NEW s \in Slots, Read(s), UNCHANGED accountVars, NEW to \in States,
         CanTransition(status, to), next' = [next EXCEPT ![s] = to]
  PROVE  Current(s)'
<1>1. copy'[s].version = version /\ copy'[s].status = status /\ next'[s] = to
  BY DEF Read, TypeOK, RequestType
<1> QED BY <1>1 DEF Current, CanTransition, accountVars, TypeOK, AccountType

LEMMA CurrentByItself ==
  ASSUME TypeOK, MetaWasAsked, CopyIsCurrent, NEW s \in Slots, Receive(s) \/ RequestStep(s)
  PROVE  Current(s)'
<1>1. Current(s)
  BY DEF CopyIsCurrent, Current
<1>2. CASE Answered(s) /\ version' \in {version, version + 1}
  BY <1>2 DEF Answered, Goto, NoCopy, Current, Moving, Asking, TypeOK, RequestType, AccountType
<1>3. ASSUME NEW label \in {"exchange", "read", "details", "upsert", "sync", "refresh"},
             Goto(s, label), UNCHANGED <<version, copy>>
      PROVE  Current(s)'
  BY <1>1, <1>3 DEF Goto, Current, Moving, Asking, TypeOK, RequestType
<1>4. ASSUME pc[s] \in Asking, NEW label, Goto(s, label),
             UNCHANGED <<accountVars, copy, next, overwritten>>
      PROVE  Current(s)'
  BY <1>1, <1>4 DEF Current, Moving, CanTransition, accountVars
<1>5. CASE Receive(s)
  BY <1>3, <1>5 DEF Receive, accountVars
<1>6. CASE ExchangeCode(s) \/ GetDetails(s) \/ UpsertAccount(s) \/ SyncSignup(s) \/ FindExpiring(s)
           \/ RefreshAccount(s)
  BY <1>2, <1>3, <1>6 DEF ExchangeCode, GetDetails, UpsertAccount, SyncSignup, FindExpiring,
     RefreshAccount, accountVars, requestVars
<1>7. CASE ReadAccount(s)
  <2>1. kind[s] \in DOMAIN Target /\ Target[kind[s]] \in States /\ UNCHANGED accountVars
    BY <1>7, TargetNeeds DEF ReadAccount
  <2> QED BY <1>2, <1>7, <2>1, ReadIsCurrent DEF ReadAccount, accountVars
<1>8. CASE ReadForWebhook(s)
  BY <1>2, <1>8, ReadIsCurrent DEF ReadForWebhook, accountVars, WebhookTargets, States
<1>9. CASE UpdateAccountState(s)
  BY <1>2, <1>9 DEF UpdateAccountState
<1>10. CASE CheckIdempotency(s) \/ RedisFails(s) \/ StoreIdempotency(s)
  BY <1>2, <1>4, <1>10 DEF CheckIdempotency, RedisFails, StoreIdempotency, Asking, requestVars,
     accountVars, histVars
<1>11. CASE LookUpToken(s) \/ TakeLock(s) \/ Recheck(s) \/ FindByWrongId(s)
  BY <1>4, <1>11 DEF LookUpToken, TakeLock, Recheck, FindByWrongId, Asking, requestVars, histVars
<1>12. CASE ReadLock(s) \/ DeleteLock(s)
  BY <1>2, <1>4, <1>12 DEF ReadLock, DeleteLock, Leave, Asking, requestVars, accountVars, histVars
<1>13. CASE CallMeta(s) \/ CallFails(s)
  BY <1>2, <1>4, <1>13 DEF CallMeta, CallFails, Asking, requestVars, accountVars, histVars
<1> QED BY <1>5, <1>6, <1>7, <1>8, <1>9, <1>10, <1>11, <1>12, <1>13 DEF RequestStep

(* A step that moves the account makes the copies of the others old, or     *)
(* marks them.                                                              *)
LEMMA OthersOutdated ==
  ASSUME TypeOK, NEW s \in Slots, Receive(s) \/ RequestStep(s)
  PROVE  \/ UNCHANGED <<status, version>>
         \/ version' = version + 1
         \/ UNCHANGED version /\ Outdate
<1>1. CASE UpsertAccount(s) \/ RefreshAccount(s)
  BY <1>1 DEF UpsertAccount, RefreshAccount
<1>2. CASE UpdateAccountState(s)
  BY <1>2 DEF UpdateAccountState
<1>3. CASE ~(UpsertAccount(s) \/ RefreshAccount(s) \/ UpdateAccountState(s))
  BY <1>3 DEF Receive, RequestStep, ExchangeCode, GetDetails, SyncSignup, ReadAccount,
     ReadForWebhook, CheckIdempotency, StoreIdempotency, FindExpiring, LookUpToken, TakeLock,
     Recheck, FindByWrongId, ReadLock, DeleteLock, RedisFails, CallMeta, CallFails, accountVars
<1> QED BY <1>1, <1>2, <1>3

LEMMA CurrentStep ==
  ASSUME TypeOK, MetaWasAsked, CopyIsCurrent, [Next]_vars
  PROVE  CopyIsCurrent'
<1>1. SUFFICES ASSUME NEW t \in Slots PROVE Current(t)'
  BY DEF CopyIsCurrent, Current
<1>2. Current(t)
  BY DEF CopyIsCurrent, Current
<1>3. CASE /\ pc'[t] = pc[t] /\ copy'[t] = copy[t] /\ next'[t] = next[t]
           /\ UNCHANGED <<status, version>>
           /\ pc[t] # "idle" /\ t \in overwritten => t \in overwritten'
  BY <1>2, <1>3 DEF Current, Moving, Asking, CanTransition
<1>4. ASSUME NEW s \in Slots, Receive(s) \/ RequestStep(s), t # s
      PROVE  Current(t)'
  <2>1. pc'[t] = pc[t] /\ copy'[t] = copy[t] /\ next'[t] = next[t]
    BY <1>4, OwnRequestOnly
  <2>2. CASE UNCHANGED <<status, version>>
    BY <1>3, <1>4, <2>2, OwnRequestOnly
  <2>3. CASE version' = version + 1
    BY <1>2, <2>1, <2>3, CopyTypes DEF Current, Moving, CanTransition
  <2>4. CASE UNCHANGED version /\ Outdate
    BY <1>2, <2>1, <2>4 DEF Current, Moving, Asking, CanTransition, Outdate
  <2> QED BY <1>4, <2>2, <2>3, <2>4, OthersOutdated
<1>5. ASSUME NEW p \in Procs, Crash(p)
      PROVE  Current(t)'
  <2>1. CASE pc'[t] = "idle" /\ copy'[t] = NoCopy /\ UNCHANGED version
    BY <2>1, CopyTypes DEF Current, Moving, Asking, NoCopy
  <2> QED BY <1>3, <1>5, <2>1, CrashEndsRequests DEF accountVars
<1>6. CASE BackendCachesToken \/ TokenAges \/ LockExpires \/ UNCHANGED vars
  BY <1>3, <1>6, WorldLeavesRequests DEF vars, accountVars, requestVars, histVars
<1> QED BY <1>4, <1>5, <1>6, CurrentByItself DEF Next

-----------------------------------------------------------------------------
(* The lock of the token refresh.                                          *)

LEMMA LockStep ==
  ASSUME TypeOK, LockIsHeld, [Next]_vars
  PROVE  LockIsHeld'
<1>1. SUFFICES ASSUME ~expired', NEW t \in Slots, Critical(t)' PROVE lock' = t
  BY DEF LockIsHeld
<1>2. ~expired => \A s \in Slots : Critical(s) => lock = s
  BY DEF LockIsHeld
<1>3. ASSUME NEW s \in Slots, Receive(s) \/ RequestStep(s)
      PROVE  lock' = t
  <2>1. UNCHANGED expired
    BY <1>3 DEF Receive, RequestStep, ExchangeCode, GetDetails, UpsertAccount, SyncSignup,
       ReadAccount, ReadForWebhook, CheckIdempotency, StoreIdempotency, UpdateAccountState,
       FindExpiring, RefreshAccount, LookUpToken, TakeLock, Recheck, FindByWrongId, ReadLock,
       DeleteLock, Leave, RedisFails, CallMeta, CallFails, Answered, Outdate, Read, histVars
  <2>2. CASE TakeLock(s)
    BY <1>1, <1>2, <2>1, <2>2, OnboardingAssumption
       DEF TakeLock, Goto, Critical, TypeOK, RequestType
  <2>3. CASE DeleteLock(s)
    BY <1>1, <1>2, <2>1, <2>3 DEF DeleteLock, Leave, Answered, Goto, Critical, TypeOK, RequestType
  <2>4. CASE Critical(s) /\ ~DeleteLock(s)
    <3>1. UNCHANGED lock
      BY <1>3, <2>4 DEF Critical, Receive, RequestStep, ExchangeCode, GetDetails, UpsertAccount,
         SyncSignup, ReadAccount, ReadForWebhook, CheckIdempotency, StoreIdempotency,
         UpdateAccountState, FindExpiring, RefreshAccount, LookUpToken, TakeLock, Recheck,
         FindByWrongId, ReadLock, RedisFails, CallMeta, CallFails, tokenVars
    <3> QED BY <1>1, <1>2, <1>3, <2>1, <2>4, <3>1, OwnRequestOnly DEF Critical
  <2>5. CASE ~Critical(s) /\ ~TakeLock(s)
    <3>1. UNCHANGED lock /\ ~Critical(s)'
      BY <1>3, <2>5 DEF Critical, Receive, RequestStep, ExchangeCode, GetDetails, UpsertAccount,
         SyncSignup, ReadAccount, ReadForWebhook, CheckIdempotency, StoreIdempotency,
         UpdateAccountState, FindExpiring, RefreshAccount, LookUpToken, Recheck, FindByWrongId,
         ReadLock, DeleteLock, RedisFails, CallMeta, CallFails, Answered, Goto, tokenVars,
         TypeOK, RequestType
    <3> QED BY <1>1, <1>2, <1>3, <2>1, <3>1, OwnRequestOnly DEF Critical
  <2> QED BY <2>2, <2>3, <2>4, <2>5
<1>4. ASSUME NEW p \in Procs, Crash(p)
      PROVE  lock' = t
  BY <1>1, <1>2, <1>4, CrashEndsRequests DEF Critical
<1>5. CASE LockExpires
  BY <1>1, <1>2, <1>5 DEF LockExpires, Critical, TypeOK, TokenType
<1>6. CASE BackendCachesToken \/ TokenAges \/ UNCHANGED vars
  BY <1>1, <1>2, <1>6 DEF BackendCachesToken, TokenAges, vars, tokenVars, histVars, Critical
<1> QED BY <1>3, <1>4, <1>5, <1>6 DEF Next

-----------------------------------------------------------------------------
(* All of OnboardingInv. *)
THEOREM OnboardingInvariant == Spec => []OnboardingInv
<1>1. Init => OnboardingInv
  <2> SUFFICES ASSUME Init PROVE OnboardingInv
    OBVIOUS
  <2>1. status \in States /\ NoCopy \in [status : States, version : Nat] /\ "INIT" \in States
        /\ 0 \in 0..MaxRetries
    BY DEF Init, NoCopy, States, MaxRetries
  <2>2. TypeOK
    BY <2>1, TargetNeeds
       DEF Init, TypeOK, AccountType, TokenType, RequestType, HistType, Labels
  <2>3. \A s \in Slots : pc[s] = "idle" /\ copy[s].version = version
    BY DEF Init, NoCopy
  <2>4. MetaWasAsked /\ LockIsHeld
    BY <2>3 DEF MetaWasAsked, LockIsHeld, Asking, Critical
  <2>5. CopyIsCurrent
    BY <2>2, <2>3, CopyTypes DEF CopyIsCurrent, Moving, Asking
  <2> QED BY <2>2, <2>4, <2>5 DEF OnboardingInv, ClaimsAreDone, Init
<1>2. OnboardingInv /\ [Next]_vars => OnboardingInv'
  BY TypeStep, ClaimsStep, AskedStep, CurrentStep, LockStep DEF OnboardingInv
<1> QED BY <1>1, <1>2, PTL DEF Spec

(* The account never claims what Meta has not done, whatever requests race, *)
(* fail or are repeated.                                                    *)
THEOREM ClaimsDone == Spec => []ClaimsAreDone
<1>1. OnboardingInv => ClaimsAreDone
  BY DEF OnboardingInv
<1> QED BY <1>1, OnboardingInvariant, PTL

(* Who refreshes holds the lock, so there is one at most, until a lock      *)
(* expires under its holder.                                                *)
THEOREM RefresherAlone == Spec => []OneRefresher
<1>1. OnboardingInv => OneRefresher
  <2> SUFFICES ASSUME OnboardingInv, ~expired
               PROVE  Cardinality({s \in Slots : Critical(s)}) <= 1
    BY DEF OnboardingInv, OneRefresher
  <2>1. {s \in Slots : Critical(s)} \subseteq {lock}
    BY DEF OnboardingInv, LockIsHeld
  <2>2. IsFiniteSet({lock}) /\ Cardinality({lock}) = 1
    BY FS_Singleton
  <2> QED BY <2>1, <2>2, FS_Subset
<1> QED BY <1>1, OnboardingInvariant, PTL

(* The account moves along the map of transitions, but for the writes       *)
(* without a version and the requests that one of them has overtaken.       *)
THEOREM AccountMoves == Spec => AccountFollowsMap
<1> DEFINE Excused == \E s \in Slots : /\ pc'[s] # pc[s]
                                       /\ pc[s] \in {"upsert", "refresh"} \/ s \in overwritten
<1>1. OnboardingInv /\ [Next]_vars =>
        [status' # status /\ exists => CanTransition(status, status') \/ Excused]_vars
  <2> SUFFICES ASSUME OnboardingInv, [Next]_vars, status' # status, exists
               PROVE  CanTransition(status, status') \/ Excused
    BY DEF vars, accountVars
  <2>1. ASSUME NEW s \in Slots, Receive(s) \/ RequestStep(s)
        PROVE  CanTransition(status, status') \/ Excused
    <3>1. CASE UpsertAccount(s) \/ RefreshAccount(s)
      BY <3>1 DEF UpsertAccount, RefreshAccount, Goto, OnboardingInv, TypeOK, RequestType
    <3>2. CASE UpdateAccountState(s)
      <4>1. /\ pc[s] = "update" /\ pc'[s] = "idle"
            /\ version = copy[s].version /\ status' = next[s]
        BY <3>2 DEF UpdateAccountState, Answered, Goto, OnboardingInv, TypeOK, RequestType
      <4>2. s \in overwritten \/ CanTransition(status, status')
        BY <4>1 DEF OnboardingInv, CopyIsCurrent, Moving, CanTransition
      <4> QED BY <4>1, <4>2
    <3>3. CASE ~(UpsertAccount(s) \/ RefreshAccount(s) \/ UpdateAccountState(s))
      BY <2>1, <3>3 DEF Receive, RequestStep, ExchangeCode, GetDetails, SyncSignup, ReadAccount,
         ReadForWebhook, CheckIdempotency, StoreIdempotency, FindExpiring, LookUpToken, TakeLock,
         Recheck, FindByWrongId, ReadLock, DeleteLock, RedisFails, CallMeta, CallFails, accountVars
    <3> QED BY <3>1, <3>2, <3>3
  <2>2. ASSUME NEW p \in Procs, Crash(p)
        PROVE  FALSE
    BY <2>2 DEF Crash, accountVars
  <2>3. ~(BackendCachesToken \/ TokenAges \/ LockExpires \/ UNCHANGED vars)
    BY WorldLeavesRequests DEF vars, accountVars
  <2> QED BY <2>1, <2>2, <2>3 DEF Next
<1> QED BY <1>1, OnboardingInvariant, PTL DEF Spec, AccountFollowsMap
=============================================================================
