---------------------------- MODULE MC_ToolLane ----------------------------
(* The properties of a step's tool lane, and a small instance for TLC.      *)
EXTENDS ToolLane, TLC
=============================================================================
