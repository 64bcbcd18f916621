----------------------------- MODULE MCOnboarding -----------------------------
(* A small instance of Onboarding for TLC. *)
EXTENDS Onboarding, TLC

CONSTANTS p1, p2

OneSlot == Procs \X {1}
=============================================================================
