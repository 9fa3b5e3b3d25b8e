----------------------------- MODULE Checkpoint -----------------------------
(***************************************************************************)
(* What a store promises of `session/flush`, and what the tool lane's      *)
(* crash-recovery contract rests on: a flush that resolves was preceded by *)
(* the arrival of everything recorded before its call on stable storage; a *)
(* store that failed once resolves no flush again.                         *)
(*                                                                         *)
(* Code: the contract of `Persistence.durability` (`core/session/types.ts`)*)
(* and of onFlush (`capabilities/persistence-jsonl/index.ts`).             *)
(***************************************************************************)
EXTENDS Naturals

CONSTANT Flusher   \* the callers whose flushes may overlap

VARIABLES
  recorded,  \* events the stored log holds
  stable,    \* how many of them are on stable storage
  failed,    \* the store lost a write or a sync
  closed,    \* the session was detached
  promised,  \* promised[f]: recorded when f called
  outcome    \* outcome[f]: what became of f's last flush

vars == <<recorded, stable, failed, closed, promised, outcome>>
Outcomes == {"none", "waiting", "resolved", "skipped", "refused"}

Init ==
  /\ recorded \in Nat /\ stable = 0
  /\ failed \in BOOLEAN /\ closed = FALSE
  /\ promised = [f \in Flusher |-> 0]
  /\ outcome = [f \in Flusher |-> "none"]

Record ==
  /\ ~failed /\ ~closed
  /\ recorded' \in Nat /\ recorded' > recorded
  /\ UNCHANGED <<stable, failed, closed, promised, outcome>>

Stabilise ==
  /\ stable' \in Nat /\ stable' > stable /\ stable' <= recorded
  /\ UNCHANGED <<recorded, failed, closed, promised, outcome>>

Fail ==
  /\ ~failed /\ failed' = TRUE
  /\ UNCHANGED <<recorded, stable, closed, promised, outcome>>

Detach ==
  /\ ~closed /\ closed' = TRUE
  /\ UNCHANGED <<recorded, stable, failed, promised, outcome>>

Call(f) ==
  /\ outcome[f] # "waiting"
  /\ outcome' = [outcome EXCEPT ![f] = "waiting"]
  /\ promised' = [promised EXCEPT ![f] = recorded]
  /\ UNCHANGED <<recorded, stable, failed, closed>>

(* A flush is skipped where no file is: before the first conversation fact,  *)
(* and once the session is detached.                                         *)
Settles(f, how) ==
  /\ outcome[f] = "waiting"
  /\ outcome' = [outcome EXCEPT ![f] = how]
  /\ UNCHANGED <<recorded, stable, failed, closed, promised>>

Resolve(f) == ~failed /\ promised[f] <= stable /\ Settles(f, "resolved")
Skip(f) == ~failed /\ (closed \/ promised[f] = 0) /\ Settles(f, "skipped")
Refuse(f) == (failed \/ closed) /\ Settles(f, "refused")

Next ==
  \/ Record \/ Stabilise \/ Fail \/ Detach
  \/ \E f \in Flusher : Call(f) \/ Resolve(f) \/ Skip(f) \/ Refuse(f)

Spec == Init /\ [][Next]_vars
=============================================================================
