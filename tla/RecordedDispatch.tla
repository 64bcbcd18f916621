--------------------------- MODULE RecordedDispatch ---------------------------
(***************************************************************************)
(* What the outbound path promises about a message, with no queue, outbox, *)
(* worker or retry in sight: an accepted message may be handed to Meta     *)
(* again and again until one hand-over is recorded, and never afterwards;  *)
(* only a message Meta has taken is recorded; a message may be given up,   *)
(* and a given-up message may be reopened by an operator.                  *)
(***************************************************************************)
EXTENDS Naturals

CONSTANT Messages

VARIABLES
  state,   \* "new", "accepted", "recorded" or "givenUp"
  copies   \* how often Meta has taken the message

vars == <<state, copies>>

Init ==
  /\ state = [m \in Messages |-> "new"]
  /\ copies = [m \in Messages |-> 0]

Move(m, from, to) ==
  /\ state[m] = from
  /\ state' = [state EXCEPT ![m] = to]
  /\ UNCHANGED copies

Accept(m) == Move(m, "new", "accepted")
GiveUp(m) == Move(m, "accepted", "givenUp")
Reopen(m) == Move(m, "givenUp", "accepted")
Record(m) == copies[m] > 0 /\ Move(m, "accepted", "recorded")

HandOver(m) ==
  /\ state[m] = "accepted"
  /\ copies' = [copies EXCEPT ![m] = @ + 1]
  /\ UNCHANGED state

Next == \E m \in Messages :
  Accept(m) \/ GiveUp(m) \/ Reopen(m) \/ Record(m) \/ HandOver(m)

Spec == Init /\ [][Next]_vars

(* An accepted message does not stay open for ever. *)
Settles == \A m \in Messages : state[m] = "accepted" ~> state[m] \in {"recorded", "givenUp"}
=============================================================================
