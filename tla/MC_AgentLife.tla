---------------------------- MODULE MC_AgentLife ----------------------------
(* Instances of AgentLife for TLC: one root and the children it delegates to. *)
EXTENDS AgentLife, TLC

CONSTANT root

ParentOf == [a \in Agent |-> IF a = root THEN App ELSE root]
Exchangeable == Permutations(Agent \ {root})
=============================================================================
