---------------------------- MODULE MessageLedger ----------------------------
(***************************************************************************)
(* What a campaign promises about one message and the money for it, with   *)
(* no queue, worker, lock or retry in sight.  A message ends by a copy     *)
(* that goes out, or by a refund; until then it may be debited again and   *)
(* again.  No copy goes out unpaid.  What was lost of a message, an        *)
(* answer, an update or a run of it, may make it end once more.            *)
(***************************************************************************)
EXTENDS Naturals

CONSTANT Messages

VARIABLES
  debits, refunds,
  copies,   \* how often Meta has taken the message
  losses    \* how often something of it was lost

vars == <<debits, refunds, copies, losses>>

Init ==
  /\ debits = [m \in Messages |-> 0]
  /\ refunds = [m \in Messages |-> 0]
  /\ copies = [m \in Messages |-> 0]
  /\ losses = [m \in Messages |-> 0]

(* The message has not ended more often than it was lost.  A refund that    *)
(* the backend has made at both of its addresses is one end, not two.       *)
Due(m) == 2 * copies[m] + refunds[m] <= 2 * losses[m]

More(counter, m, n) == [counter EXCEPT ![m] = @ + n]

Charge(m) ==
  /\ Due(m)
  /\ \E n \in 1..2 : debits' = More(debits, m, n)
  /\ UNCHANGED <<refunds, copies, losses>>

(* The answer comes, or is lost. *)
HandOver(m) ==
  /\ Due(m) /\ copies[m] < debits[m]
  /\ copies' = More(copies, m, 1)
  /\ losses' \in {losses, More(losses, m, 1)}
  /\ UNCHANGED <<debits, refunds>>

PayBack(m) ==
  /\ Due(m)
  /\ \E n \in 1..2 : refunds' = More(refunds, m, n)
  /\ UNCHANGED <<debits, copies, losses>>

Lose(m) ==
  /\ losses' = More(losses, m, 1)
  /\ UNCHANGED <<debits, refunds, copies>>

Next == \E m \in Messages : Charge(m) \/ HandOver(m) \/ PayBack(m) \/ Lose(m)

Spec == Init /\ [][Next]_vars
=============================================================================
