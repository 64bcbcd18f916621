------------------------------ MODULE MCOutbound ------------------------------
(* Small instances of OutboundPipeline for TLC. *)
EXTENDS OutboundPipeline, TLC

Symmetry == Permutations(Nodes) \cup Permutations(Messages)
=============================================================================
