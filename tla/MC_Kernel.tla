----------------------------- MODULE MC_Kernel -----------------------------
(* Instances of Kernel for TLC. *)
EXTENDS Kernel

CONSTANTS root, w, a1, a2, d, c, a

\* a1 and a2 provide the same key, a1 in the root's realm and a2 in scope w's,
\* where d injects it; d mounts c.
OwnerOf == [x \in EffectOwner |->
              CASE x \in {root, w, a1} -> root [] x \in {a2, d} -> w [] x = c -> d]
HomeOf == [p \in Instance |-> IF p = a1 THEN root ELSE w]
NeedsOf == [p \in Instance |-> IF p = d THEN {a} ELSE {}]
GivesOf == [p \in Instance |-> IF p \in {a1, a2} THEN a ELSE Absent]
=============================================================================
