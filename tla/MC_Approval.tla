----------------------------- MODULE MC_Approval -----------------------------
(* A small instance of Approval for TLC.                                    *)
EXTENDS Approval, TLC

Exchangeable == Permutations(Subject)
=============================================================================
