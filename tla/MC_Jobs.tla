------------------------------ MODULE MC_Jobs ------------------------------
(* A small instance of Jobs for TLC; no job differs from another.           *)
EXTENDS Jobs, TLC

Exchangeable == Permutations(Job)
=============================================================================
