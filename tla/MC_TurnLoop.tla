---------------------------- MODULE MC_TurnLoop ----------------------------
(* A small instance of TurnLoop for TLC.                                    *)
EXTENDS TurnLoop, TLC
=============================================================================
