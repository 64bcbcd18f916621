------------------------------ MODULE Onboarding ------------------------------
(***************************************************************************)
(* Onboarding of a WABA account: the requests of OnboardingServiceImpl and *)
(* a webhook move the account along AllowedTransitions under an optimistic *)
(* version, while the signup and the nightly token refresh write without   *)
(* one; MetaApiExecutor gets its tokens from TokenManagerServiceImpl, a    *)
(* cache per process and one in Redis behind a Redis lock, and repeats     *)
(* calls that failed.                                                      *)
(*                                                                         *)
(* One account.  A slot serves one request at a time; pc names the call it *)
(* is about to make.                                                       *)
(***************************************************************************)
EXTENDS Naturals, FiniteSets

CONSTANTS
  Procs,        \* processes
  Slots,        \* <<p, i>>: a request that process p serves
  Kinds,        \* requests that may come
  MaxRequests,  \* bound: requests in one behaviour
  Faults,       \* kinds of failure that may happen
  MaxFaults,    \* bound: failures in one behaviour
  NoSlot

States == {"INIT", "ATTACHED", "OTP_SENT", "VERIFIED", "REGISTERED_PENDING",
           "LIVE", "FAILED_TEMP", "FAILED_PERMANENT"}

ASSUME OnboardingAssumption ==
  /\ \A s \in Slots : s[1] \in Procs
  /\ Kinds \subseteq {"signup", "addPhone", "requestOtp", "verifyOtp", "register",
                      "webhook", "cron"}
  /\ Faults \subseteq {"redis", "meta", "db", "crash", "ttl"}
  /\ {MaxRequests, MaxFaults} \subseteq Nat
  /\ NoSlot \notin Slots

VARIABLES
  \* MongoDB: the account
  exists, status, version, hasPhone,
  \* Redis and the token caches of the processes
  redisToken, memoryToken, lock,
  \* requests
  pc, kind, copy, next, attempt, outcome,
  \* Meta: what it has done for the account
  done,
  requests, faults,
  \* history
  overwritten,  \* slots whose copy was outdated by an unversioned write
  expired       \* a lock expired under its holder

accountVars == <<exists, status, version, hasPhone>>
tokenVars   == <<redisToken, memoryToken, lock>>
requestVars == <<kind, copy, next, attempt, outcome>>
histVars    == <<overwritten, expired>>
vars == <<accountVars, tokenVars, pc, requestVars, done, requests, faults, histVars>>

Fault(f) ==
  /\ f \in Faults /\ faults < MaxFaults
  /\ faults' = faults + 1

-----------------------------------------------------------------------------
AllowedTransitions ==
  [s \in States |->
    CASE s = "INIT" -> {"ATTACHED"}
      [] s = "ATTACHED" -> {"OTP_SENT"}
      [] s = "OTP_SENT" -> {"VERIFIED", "FAILED_TEMP"}
      [] s = "VERIFIED" -> {"REGISTERED_PENDING"}
      [] s = "REGISTERED_PENDING" -> {"LIVE", "FAILED_TEMP"}
      [] s = "FAILED_TEMP" -> {"OTP_SENT", "VERIFIED"}
      [] OTHER -> {}]

CanTransition(from, to) == from = to \/ to \in AllowedTransitions[from]

Target ==
  [addPhone |-> "ATTACHED", requestOtp |-> "OTP_SENT", verifyOtp |-> "VERIFIED",
   register |-> "REGISTERED_PENDING"]

(* mapWebhookStatusToState; any other status is ignored. *)
WebhookTargets == {"LIVE", "FAILED_TEMP", "FAILED_PERMANENT"}

(* What Meta must have done before an account is in a state. *)
Needed ==
  [s \in States |->
    CASE s = "OTP_SENT" -> {"requestOtp"}
      [] s = "VERIFIED" -> {"verifyOtp"}
      [] s \in {"REGISTERED_PENDING", "LIVE"} -> {"register"}
      [] OTHER -> {}]

NoCopy == [status |-> "INIT", version |-> 0]

(* No account yet, or one that earlier requests have brought somewhere. *)
Init ==
  /\ exists \in BOOLEAN
  /\ status \in IF exists THEN States ELSE {"INIT"}
  /\ version = 0
  /\ hasPhone = (exists /\ status # "INIT")
  /\ redisToken = FALSE
  /\ memoryToken = [p \in Procs |-> FALSE]
  /\ lock = NoSlot
  /\ pc = [s \in Slots |-> "idle"]
  /\ kind = [s \in Slots |-> "none"]
  /\ copy = [s \in Slots |-> NoCopy]
  /\ next = [s \in Slots |-> "INIT"]
  /\ attempt = [s \in Slots |-> 0]
  /\ outcome = [s \in Slots |-> "none"]
  /\ done = Needed[status]
  /\ requests = 0 /\ faults = 0
  /\ overwritten = {} /\ expired = FALSE

Goto(s, label) == pc' = [pc EXCEPT ![s] = label]

(* The answer, whatever it is; what the request knew is gone. *)
Answered(s) ==
  /\ Goto(s, "idle")
  /\ kind' = [kind EXCEPT ![s] = "none"]
  /\ copy' = [copy EXCEPT ![s] = NoCopy]
  /\ next' = [next EXCEPT ![s] = "INIT"]
  /\ attempt' = [attempt EXCEPT ![s] = 0]
  /\ outcome' = [outcome EXCEPT ![s] = "none"]
  /\ overwritten' = overwritten \ {s}
  /\ UNCHANGED expired

Receive(s) ==
  /\ pc[s] = "idle" /\ requests < MaxRequests
  /\ requests' = requests + 1
  /\ \E k \in Kinds :
       /\ kind' = [kind EXCEPT ![s] = k]
       /\ Goto(s, IF k = "signup" THEN "exchange" ELSE "read")
  /\ UNCHANGED <<accountVars, tokenVars, copy, next, attempt, outcome, done, faults, histVars>>

-----------------------------------------------------------------------------
(* startEmbeddedSignup. A write without a version outdates every copy.     *)

Outdate == overwritten' = {s \in Slots : pc[s] # "idle"} /\ UNCHANGED expired

(* exchangeCodeForToken: two calls; missing settings and errors end it. *)
ExchangeCode(s) ==
  /\ pc[s] = "exchange"
  /\ \/ Goto(s, "details") /\ UNCHANGED <<requestVars, faults, histVars>>
     \/ Answered(s) /\ Fault("meta")
  /\ UNCHANGED <<accountVars, tokenVars, done, requests>>

(* getWabaDetails: three calls; no WABA, or too few permissions, ends it. *)
GetDetails(s) ==
  /\ pc[s] = "details"
  /\ \/ Goto(s, "upsert") /\ UNCHANGED <<requestVars, faults, histVars>>
     \/ Answered(s) /\ UNCHANGED faults
  /\ UNCHANGED <<accountVars, tokenVars, done, requests>>

(* A primary phone attaches the account; phoneNumberId is left alone when  *)
(* there is none. The status is written whatever it was.                   *)
UpsertAccount(s) ==
  /\ pc[s] = "upsert"
  /\ \E phone \in BOOLEAN :
       /\ status' = IF phone THEN "ATTACHED" ELSE "INIT"
       /\ hasPhone' = (hasPhone \/ phone)
  /\ exists' = TRUE
  /\ Goto(s, "sync")
  /\ Outdate
  /\ UNCHANGED <<version, tokenVars, requestVars, done, requests, faults>>

(* pushToTruthBridge swallows its errors. *)
SyncSignup(s) ==
  /\ pc[s] = "sync"
  /\ Answered(s)
  /\ UNCHANGED <<accountVars, tokenVars, done, requests, faults>>

-----------------------------------------------------------------------------
(* The other requests: read, check, call Meta, write.                      *)

(* addPhoneNumber looks for the WABA, the others for the phone number. *)
Found(s) == exists /\ (kind[s] = "addPhone" \/ hasPhone)

Read(s) ==
  /\ copy' = [copy EXCEPT ![s] = [status |-> status, version |-> version]]
  /\ overwritten' = overwritten \ {s}
  /\ UNCHANGED expired

(* Not found, or a transition that is not allowed, is an error. *)
ReadAccount(s) ==
  /\ pc[s] = "read" /\ kind[s] \in DOMAIN Target
  /\ IF Found(s) /\ CanTransition(status, Target[kind[s]])
     THEN /\ Read(s)
          /\ next' = [next EXCEPT ![s] = Target[kind[s]]]
          /\ Goto(s, IF kind[s] \in {"requestOtp", "verifyOtp"} THEN "idempotency" ELSE "token")
          /\ UNCHANGED <<kind, attempt, outcome>>
     ELSE Answered(s)
  /\ UNCHANGED <<accountVars, tokenVars, done, requests, faults>>

(* handleWebhookEvent: same state and regressions are ignored. *)
ReadForWebhook(s) ==
  /\ pc[s] = "read" /\ kind[s] = "webhook"
  /\ \E to \in WebhookTargets :
       IF Found(s) /\ status # to /\ CanTransition(status, to)
       THEN /\ Read(s)
            /\ next' = [next EXCEPT ![s] = to]
            /\ Goto(s, "update")
            /\ UNCHANGED <<kind, attempt, outcome>>
       ELSE Answered(s)
  /\ UNCHANGED <<accountVars, tokenVars, done, requests, faults>>

(* getOrSetIdempotentResponse finds nothing: what it stores below is the    *)
(* answer of a function that returns none, an empty string.                 *)
CheckIdempotency(s) ==
  /\ pc[s] = "idempotency"
  /\ \/ Goto(s, "token") /\ UNCHANGED <<requestVars, faults, histVars>>
     \/ Answered(s) /\ Fault("redis")
  /\ UNCHANGED <<accountVars, tokenVars, done, requests>>

StoreIdempotency(s) ==
  /\ pc[s] = "store"
  /\ \/ Goto(s, "update") /\ UNCHANGED <<requestVars, faults, histVars>>
     \/ Answered(s) /\ Fault("redis")
  /\ UNCHANGED <<accountVars, tokenVars, done, requests>>

(* Mutant: findOneAndUpdate by _id alone. *)
UpdateWithoutVersion(s) ==
  /\ pc[s] = "update"
  /\ status' = next[s]
  /\ version' = version + 1
  /\ hasPhone' = (hasPhone \/ kind[s] = "addPhone")
  /\ Answered(s)
  /\ UNCHANGED <<exists, tokenVars, done, requests, faults>>

(* updateAccountState, with the audit row and the push to the backend, whose *)
(* errors are swallowed. Another version is a CONCURRENCY_ERROR.             *)
UpdateAccountState(s) ==
  /\ pc[s] = "update"
  /\ \/ /\ version = copy[s].version
        /\ status' = next[s]
        /\ version' = version + 1
        /\ hasPhone' = (hasPhone \/ kind[s] = "addPhone")
        /\ UNCHANGED faults
     \/ /\ \/ version # copy[s].version /\ UNCHANGED faults
           \/ Fault("db")
        /\ UNCHANGED <<status, version, hasPhone>>
  /\ Answered(s)
  /\ UNCHANGED <<exists, tokenVars, done, requests>>

-----------------------------------------------------------------------------
(* handleTokenRefresh, of one account.                                     *)

FindExpiring(s) ==
  /\ pc[s] = "read" /\ kind[s] = "cron"
  /\ IF exists /\ status # "FAILED_PERMANENT"
     THEN Goto(s, "refresh") /\ UNCHANGED <<requestVars, histVars>>
     ELSE Answered(s)
  /\ UNCHANGED <<accountVars, tokenVars, done, requests, faults>>

(* The new token goes into the account only; an OAuth error marks the       *)
(* account, in whatever state it is by then.                                *)
RefreshAccount(s) ==
  /\ pc[s] = "refresh"
  /\ Goto(s, "sync")
  /\ \/ UNCHANGED <<status, faults, histVars>>
     \/ Fault("meta") /\ UNCHANGED <<status, histVars>>
     \/ Fault("meta") /\ status' = "FAILED_TEMP" /\ Outdate
  /\ UNCHANGED <<exists, version, hasPhone, tokenVars, requestVars, done, requests>>

-----------------------------------------------------------------------------
(* TokenManagerServiceImpl.getValidToken, called by MetaApiExecutor.        *)

(* The executor asks under the WABA id. Nothing in this program puts a       *)
(* token there: refreshAndStoreToken looks for an account with that _id,     *)
(* which throws, and so does its escalation to FAILED_PERMANENT. Only the    *)
(* backend, which shares Redis, can do it.                                   *)
BackendCachesToken ==
  /\ exists /\ ~redisToken
  /\ redisToken' = TRUE
  /\ UNCHANGED <<accountVars, memoryToken, lock, pc, requestVars, done, requests, faults, histVars>>

(* refreshAt passes, for every copy of the token. *)
TokenAges ==
  /\ redisToken
  /\ redisToken' = FALSE
  /\ memoryToken' = [p \in Procs |-> FALSE]
  /\ UNCHANGED <<accountVars, lock, pc, requestVars, done, requests, faults, histVars>>

LookUpToken(s) ==
  /\ pc[s] = "token"
  /\ memoryToken' = [memoryToken EXCEPT ![s[1]] = @ \/ redisToken]
  /\ Goto(s, IF memoryToken[s[1]] \/ redisToken THEN "call" ELSE "lock")
  /\ UNCHANGED <<accountVars, redisToken, lock, requestVars, done, requests, faults, histVars>>

(* Mutant: SET without NX. *)
TakeLockAlways(s) ==
  /\ pc[s] = "lock"
  /\ lock' = s /\ Goto(s, "recheck")
  /\ UNCHANGED <<accountVars, redisToken, memoryToken, requestVars, done, requests, faults, histVars>>

(* SET NX EX; who does not get the lock waits and starts over. *)
TakeLock(s) ==
  /\ pc[s] = "lock"
  /\ IF lock = NoSlot THEN lock' = s /\ Goto(s, "recheck")
     ELSE Goto(s, "token") /\ UNCHANGED lock
  /\ UNCHANGED <<accountVars, redisToken, memoryToken, requestVars, done, requests, faults, histVars>>

Recheck(s) ==
  /\ pc[s] = "recheck"
  /\ IF redisToken THEN outcome' = [outcome EXCEPT ![s] = "call"] /\ Goto(s, "release")
     ELSE Goto(s, "find") /\ UNCHANGED outcome
  /\ UNCHANGED <<accountVars, tokenVars, kind, copy, next, attempt, done, requests, faults, histVars>>

(* refreshAndStoreToken with the WABA id. *)
FindByWrongId(s) ==
  /\ pc[s] = "find"
  /\ outcome' = [outcome EXCEPT ![s] = "error"]
  /\ Goto(s, "release")
  /\ UNCHANGED <<accountVars, tokenVars, kind, copy, next, attempt, done, requests, faults, histVars>>

Leave(s) ==
  IF outcome[s] = "call"
  THEN Goto(s, "call") /\ outcome' = [outcome EXCEPT ![s] = "none"]
       /\ UNCHANGED <<kind, copy, next, attempt, histVars>>
  ELSE Answered(s)

(* GET, compare, DEL: three steps. *)
ReadLock(s) ==
  /\ pc[s] = "release"
  /\ IF lock = s THEN Goto(s, "delete") /\ UNCHANGED <<requestVars, histVars>> ELSE Leave(s)
  /\ UNCHANGED <<accountVars, tokenVars, done, requests, faults>>

DeleteLock(s) ==
  /\ pc[s] = "delete"
  /\ lock' = NoSlot
  /\ Leave(s)
  /\ UNCHANGED <<accountVars, redisToken, memoryToken, done, requests, faults>>

(* Any of these calls to Redis may fail; a failed release leaves the lock. *)
RedisFails(s) ==
  /\ pc[s] \in {"token", "lock", "release", "delete"}
  /\ Fault("redis")
  /\ Answered(s)
  /\ UNCHANGED <<accountVars, tokenVars, done, requests>>

Critical(s) == pc[s] \in {"recheck", "find", "release", "delete"}

(* Mutant: SET NX without EX. *)
LockNeverExpires == FALSE

(* LOCK_TTL_SEC: for a holder that is gone, or one that takes too long. *)
LockExpires ==
  /\ lock # NoSlot
  /\ \/ ~Critical(lock) /\ UNCHANGED <<faults, expired>>
     \/ Critical(lock) /\ Fault("ttl") /\ expired' = TRUE
  /\ lock' = NoSlot
  /\ UNCHANGED <<accountVars, redisToken, memoryToken, pc, requestVars, done, requests, overwritten>>

-----------------------------------------------------------------------------
(* MetaApiExecutor.execute.                                                *)

CallMeta(s) ==
  /\ pc[s] = "call"
  /\ done' = done \cup {kind[s]}
  /\ Goto(s, IF kind[s] \in {"requestOtp", "verifyOtp"} THEN "store" ELSE "update")
  /\ UNCHANGED <<accountVars, tokenVars, requestVars, requests, faults, histVars>>

MaxRetries == 3

(* Mutant: an error that is not repeated is logged and forgotten. *)
CallFailsSwallowed(s) ==
  /\ pc[s] = "call"
  /\ Fault("meta")
  /\ Goto(s, IF kind[s] \in {"requestOtp", "verifyOtp"} THEN "store" ELSE "update")
  /\ UNCHANGED <<accountVars, tokenVars, requestVars, done, requests, histVars>>

(* Errors, and whether they pass: no answer, a 5xx without an error of      *)
(* Meta's, throttling; a refused token (190) and all others do not.         *)
Passes ==
  [network |-> TRUE, server |-> TRUE, throttled |-> TRUE, token |-> FALSE, other |-> FALSE]

ShouldRetry(e, n) == Passes[e] /\ n < MaxRetries

(* Executed or not, the call failed. A refused token is dropped from Redis  *)
(* and from this process, and the call repeated once.                       *)
CallFails(s) ==
  /\ pc[s] = "call"
  /\ Fault("meta")
  /\ done' = done \cup {kind[s]} \/ UNCHANGED done
  /\ \E e \in DOMAIN Passes :
       LET refused == e = "token" /\ attempt[s] < 1
       IN /\ redisToken' = (redisToken /\ ~refused)
          /\ memoryToken' = [memoryToken EXCEPT ![s[1]] = @ /\ ~refused]
          /\ IF refused \/ ShouldRetry(e, attempt[s])
             THEN /\ attempt' = [attempt EXCEPT ![s] = @ + 1]
                  /\ Goto(s, "token")
                  /\ UNCHANGED <<kind, copy, next, outcome, histVars>>
             ELSE Answered(s)
  /\ UNCHANGED <<accountVars, lock, requests>>

-----------------------------------------------------------------------------
(* A process dies with its requests and its cache; Redis keeps the lock. *)
Crash(p) ==
  LET lost == {s \in Slots : s[1] = p}
      Reset(f, v) == [s \in Slots |-> IF s \in lost THEN v ELSE f[s]]
  IN /\ Fault("crash")
     /\ pc' = Reset(pc, "idle") /\ kind' = Reset(kind, "none")
     /\ copy' = Reset(copy, NoCopy) /\ next' = Reset(next, "INIT")
     /\ attempt' = Reset(attempt, 0) /\ outcome' = Reset(outcome, "none")
     /\ memoryToken' = [memoryToken EXCEPT ![p] = FALSE]
     /\ overwritten' = overwritten \ lost
     /\ UNCHANGED <<accountVars, redisToken, lock, done, requests, expired>>

RequestStep(s) ==
  \/ ExchangeCode(s) \/ GetDetails(s) \/ UpsertAccount(s) \/ SyncSignup(s)
  \/ ReadAccount(s) \/ ReadForWebhook(s) \/ CheckIdempotency(s) \/ StoreIdempotency(s)
  \/ UpdateAccountState(s) \/ FindExpiring(s) \/ RefreshAccount(s)
  \/ LookUpToken(s) \/ TakeLock(s) \/ Recheck(s) \/ FindByWrongId(s)
  \/ ReadLock(s) \/ DeleteLock(s) \/ RedisFails(s) \/ CallMeta(s) \/ CallFails(s)

Next ==
  \/ \E s \in Slots : Receive(s) \/ RequestStep(s)
  \/ BackendCachesToken \/ TokenAges \/ LockExpires
  \/ \E p \in Procs : Crash(p)

Spec == Init /\ [][Next]_vars

(* A process that lives serves its requests; a lock outlives its holder by  *)
(* its time to live at most. Nothing forces requests, tokens or faults.     *)
Fairness ==
  /\ \A s \in Slots : WF_vars(RequestStep(s))
  /\ WF_vars(LockExpires)

FairSpec == Spec /\ Fairness

-----------------------------------------------------------------------------
Labels == {"idle", "exchange", "details", "upsert", "sync", "read", "idempotency", "store",
           "update", "refresh", "token", "lock", "recheck", "find", "release", "delete", "call"}

AccountType ==
  exists \in BOOLEAN /\ status \in States /\ version \in Nat /\ hasPhone \in BOOLEAN

TokenType ==
  /\ redisToken \in BOOLEAN /\ memoryToken \in [Procs -> BOOLEAN]
  /\ lock \in Slots \cup {NoSlot}

RequestType ==
  /\ pc \in [Slots -> Labels]
  /\ kind \in [Slots -> Kinds \cup {"none"}]
  /\ \A s \in Slots : kind[s] = "none" <=> pc[s] = "idle"
  /\ copy \in [Slots -> [status : States, version : Nat]]
  /\ next \in [Slots -> States]
  /\ attempt \in [Slots -> 0..MaxRetries]
  /\ outcome \in [Slots -> {"none", "call", "error"}]

HistType == overwritten \subseteq Slots /\ expired \in BOOLEAN

(* Every variable keeps its type; only calls that move the account are made. *)
TypeOK ==
  /\ AccountType /\ TokenType /\ RequestType /\ HistType
  /\ done \subseteq DOMAIN Target
  /\ requests \in Nat /\ faults \in Nat

(* The account moves along the map, whatever requests and webhooks race:    *)
(* one that lost the race changes nothing. The writes without a version are *)
(* the exception, and a request in whose time one of them fell: its version *)
(* still matches and it moves the account from a state it has not seen.     *)
AccountFollowsMap ==
  [][status' # status /\ exists =>
       \/ CanTransition(status, status')
       \/ \E s \in Slots :
            /\ pc'[s] # pc[s]
            /\ pc[s] \in {"upsert", "refresh"} \/ s \in overwritten]_vars

(* The account never claims what Meta has not done: OTP_SENT, VERIFIED and   *)
(* REGISTERED_PENDING are written after Meta's answer, also when calls were  *)
(* repeated, requests raced, and after a signup has set the account back.    *)
ClaimsAreDone == exists => Needed[status] \subseteq done

(* One request at a time refreshes the token, over all processes, until a   *)
(* lock expires under its holder (who may then delete the lock of another). *)
OneRefresher ==
  /\ TypeOK
  /\ ~expired => Cardinality({s \in Slots : Critical(s)}) <= 1

(* Every request is answered: those that wait for the lock get it, or see    *)
(* the token, also when its holder has died.                                 *)
RequestsEnd == \A s \in Slots : pc[s] # "idle" ~> pc[s] = "idle"

-----------------------------------------------------------------------------
(* Why they hold.                                                          *)

(* Between the read of the account and its update. *)
Asking == {"idempotency", "token", "lock", "recheck", "find", "release", "delete", "call", "store"}
Moving(s) == pc[s] \in Asking \cup {"update"}

(* A request comes to its update when Meta has done what it asks for. *)
MetaWasAsked ==
  \A s \in Slots :
    /\ pc[s] \in Asking => kind[s] \in DOMAIN Target /\ next[s] = Target[kind[s]]
    /\ pc[s] = "store" => kind[s] \in done
    /\ pc[s] = "update" => Needed[next[s]] \subseteq done

(* A copy with the version of the account has its status, too, and a request *)
(* means to move the account along the map from there.                       *)
CopyIsCurrent ==
  \A s \in Slots :
    /\ copy[s].version <= version
    /\ Moving(s) => CanTransition(copy[s].status, next[s])
    /\ Moving(s) /\ s \notin overwritten /\ copy[s].version = version => copy[s].status = status

(* Until a lock expires under its holder, who refreshes holds it. *)
LockIsHeld == ~expired => \A s \in Slots : Critical(s) => lock = s

OnboardingInv == TypeOK /\ ClaimsAreDone /\ MetaWasAsked /\ CopyIsCurrent /\ LockIsHeld
=============================================================================
