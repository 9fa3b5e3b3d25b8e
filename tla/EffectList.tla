----------------------------- MODULE EffectList -----------------------------
(***************************************************************************)
(* The list of effects that a plugin instance, a scope or an agent owns    *)
(* and unwinds from its end (`src/kernel/context.ts`).  A list holds any   *)
(* records; its users say which.                                           *)
(***************************************************************************)
EXTENDS Naturals, Sequences, FiniteSets

\* An owner's records without some of them, the others in their order.
Without(records, gone) ==
  LET kept == {i \in DOMAIN records : records[i] \notin gone}
      nth(k) == CHOOSE i \in kept : Cardinality({n \in kept : n < i}) = k - 1
  IN  [k \in 1..Cardinality(kept) |-> records[nth(k)]]
=============================================================================
