---------------------------- MODULE MCMessageWorker ----------------------------
(* Small instances of MessageWorker for TLC. *)
EXTENDS MessageWorker, TLC

CONSTANTS m1, m2, w1, w2
=============================================================================
