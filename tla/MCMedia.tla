------------------------------- MODULE MCMedia -------------------------------
(* A small instance of MediaDownload for TLC. *)
EXTENDS MediaDownload, TLC

CONSTANTS j1
=============================================================================
