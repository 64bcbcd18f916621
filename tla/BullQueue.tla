------------------------------ MODULE BullQueue ------------------------------
(***************************************************************************)
(* A BullMQ queue as the processors of the application see it: jobs with   *)
(* an id, one lock per running job, attempts with backoff, and the stalled *)
(* check that puts a job back when its lock has expired.  The state is in  *)
(* Redis: it survives every crash of a process.  A component that owns a   *)
(* queue EXTENDS this module and uses its operators in its own actions.    *)
(***************************************************************************)
EXTENDS Naturals

CONSTANTS
  Jobs,         \* ids of the jobs that may be added
  Workers,      \* slots that may run a job
  MaxAttempts,  \* attempts of a job
  MaxStalled,   \* times a stalled job is put back (1)
  MaxMade,      \* bound: attempts with the operator's retries included
  NoWorker

ASSUME QueueAssumption ==
  /\ MaxAttempts \in Nat \ {0} /\ MaxStalled \in Nat /\ MaxMade \in Nat
  /\ NoWorker \notin Workers

VARIABLES
  jobState,      \* "none" until the job is added
  attemptsMade,
  stalledCount,
  lock           \* the slot that holds the job, or NoWorker

queueVars == <<jobState, attemptsMade, stalledCount, lock>>

QueueInit ==
  /\ jobState = [j \in Jobs |-> "none"]
  /\ attemptsMade = [j \in Jobs |-> 0]
  /\ stalledCount = [j \in Jobs |-> 0]
  /\ lock = [j \in Jobs |-> NoWorker]

QueueType ==
  /\ jobState \in [Jobs -> {"none", "waiting", "active", "delayed", "completed", "failed"}]
  /\ attemptsMade \in [Jobs -> Nat]
  /\ stalledCount \in [Jobs -> Nat]
  /\ lock \in [Jobs -> Workers \cup {NoWorker}]

(* queue.add with a jobId: nothing happens when the id exists, in any state. *)
Add(j) ==
  /\ jobState' = [jobState EXCEPT ![j] = IF @ = "none" THEN "waiting" ELSE @]
  /\ UNCHANGED <<attemptsMade, stalledCount, lock>>

Take(w, j) ==
  /\ jobState[j] = "waiting"
  /\ jobState' = [jobState EXCEPT ![j] = "active"]
  /\ lock' = [lock EXCEPT ![j] = w]
  /\ UNCHANGED <<attemptsMade, stalledCount>>

(* The end of a run; a slot that lost the lock changes nothing. *)
Settle(w, j, state, made) ==
  IF lock[j] = w
  THEN /\ jobState' = [jobState EXCEPT ![j] = state]
       /\ attemptsMade' = [attemptsMade EXCEPT ![j] = made]
       /\ lock' = [lock EXCEPT ![j] = NoWorker]
       /\ UNCHANGED stalledCount
  ELSE UNCHANGED queueVars

Complete(w, j) == Settle(w, j, "completed", attemptsMade[j])

(* process threw: another attempt after a backoff, or the failed set. *)
Threw(w, j) ==
  LET made == attemptsMade[j] + 1
  IN Settle(w, j, IF made < MaxAttempts THEN "delayed" ELSE "failed", made)

BackoffOver(j) ==
  /\ jobState[j] = "delayed"
  /\ jobState' = [jobState EXCEPT ![j] = "waiting"]
  /\ UNCHANGED <<attemptsMade, stalledCount, lock>>

(* The stalled check on an active job whose lock is gone. *)
PutBack(j) ==
  /\ jobState[j] = "active"
  /\ lock' = [lock EXCEPT ![j] = NoWorker]
  /\ IF stalledCount[j] < MaxStalled
     THEN /\ jobState' = [jobState EXCEPT ![j] = "waiting"]
          /\ stalledCount' = [stalledCount EXCEPT ![j] = @ + 1]
     ELSE /\ jobState' = [jobState EXCEPT ![j] = "failed"]
          /\ UNCHANGED stalledCount
  /\ UNCHANGED attemptsMade

(* job.retry(), called by an operator on a failed job. *)
Retry(j) ==
  /\ jobState[j] = "failed" /\ attemptsMade[j] < MaxMade
  /\ jobState' = [jobState EXCEPT ![j] = "waiting"]
  /\ UNCHANGED <<attemptsMade, stalledCount, lock>>

(* The slots of a dead process hold nothing any more. *)
DropLocks(dead) ==
  /\ lock' = [j \in Jobs |-> IF lock[j] \in dead THEN NoWorker ELSE lock[j]]
  /\ UNCHANGED <<jobState, attemptsMade, stalledCount>>
=============================================================================
