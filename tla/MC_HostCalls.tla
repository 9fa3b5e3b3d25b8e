---------------------------- MODULE MC_HostCalls ----------------------------
(* Instances of HostCalls for TLC: one root and the child it delegates to. *)
EXTENDS HostCalls

CONSTANTS root, child

ParentOf == [s \in Session |-> IF s = child THEN root ELSE Nobody]
=============================================================================
