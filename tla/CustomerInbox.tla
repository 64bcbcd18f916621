---------------------------- MODULE CustomerInbox ----------------------------
(***************************************************************************)
(* What a tenant may rely on when it opens its inbox, with no webhook,     *)
(* queue, transaction or retry in sight: every message of a customer is    *)
(* received once, in one thread of that customer, counted there and        *)
(* announced; a customer has one thread or, by accident, a few; an event   *)
(* is reported as processed only when all of its messages are there.       *)
(***************************************************************************)
EXTENDS Naturals, Sequences, FiniteSets

CONSTANTS
  Messages,
  Sender,     \* message -> customer
  SentAt,     \* message -> when the customer sent it
  Contents,   \* event -> its messages
  MaxThreads  \* how many threads of one customer there may be

VARIABLES
  threads,    \* in order of their opening
  home,       \* message -> its thread, 0 before it is received
  announced,  \* message -> number of announcements
  reported    \* events reported as processed

vars == <<threads, home, announced, reported>>

NewThread(c) == [customer |-> c, version |-> 1, unread |-> 0, last |-> 0]

With(thread, m) ==
  [thread EXCEPT !.last = SentAt[m], !.unread = @ + 1, !.version = @ + 1]

Init ==
  /\ threads = <<>>
  /\ home = [m \in Messages |-> 0]
  /\ announced = [m \in Messages |-> 0]
  /\ reported = {}

Own(c) == {i \in DOMAIN threads : threads[i].customer = c}

MayOpen(c) == Cardinality(Own(c)) < MaxThreads

(* A thread may be opened for a message that turns out to be there. *)
Open(c) ==
  /\ MayOpen(c)
  /\ threads' = Append(threads, NewThread(c))
  /\ UNCHANGED <<home, announced, reported>>

Receive(m) ==
  /\ home[m] = 0
  /\ \E i \in Own(Sender[m]) \cup {Len(threads) + 1} :
       /\ home' = [home EXCEPT ![m] = i]
       /\ IF i \in DOMAIN threads
          THEN threads' = [threads EXCEPT ![i] = With(@, m)]
          ELSE MayOpen(Sender[m]) /\ threads' = Append(threads, With(NewThread(Sender[m]), m))
  /\ announced' = [announced EXCEPT ![m] = @ + 1]
  /\ UNCHANGED reported

Report(e) ==
  /\ \A m \in Contents[e] : home[m] # 0
  /\ reported' = reported \cup {e}
  /\ UNCHANGED <<threads, home, announced>>

(* A run that was overtaken by another of the same event takes it back. *)
Withdraw(e) ==
  /\ reported' = reported \ {e}
  /\ UNCHANGED <<threads, home, announced>>

Next ==
  \/ \E m \in Messages : Open(Sender[m]) \/ Receive(m)
  \/ \E e \in DOMAIN Contents : Report(e) \/ Withdraw(e)

Spec == Init /\ [][Next]_vars
=============================================================================
