---------------------------- MODULE MC_SessionWindow ----------------------------
(* Instances of SessionWindow for TLC. *)
EXTENDS SessionWindow
=============================================================================
