----------------------------- MODULE MCTemplates -----------------------------
(* Small instances of Templates for TLC. *)
EXTENDS Templates, TLC

CONSTANTS a, b, s1, s2

Symmetric == Permutations({a, b}) \cup Permutations({s1, s2})
=============================================================================
