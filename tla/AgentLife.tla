------------------------------ MODULE AgentLife ------------------------------
(***************************************************************************)
(* The life of an agent (src/core/loop/factory.ts): its creation is a      *)
(* transaction over the session store, the registry and two effect lists,  *)
(* any step of which may fail and roll it back; its disposal runs once,    *)
(* whoever asks for it; and a delegated child (the subagent tool) is       *)
(* created, run, recorded and disposed of within one tool call of its      *)
(* parent's turn, which a cancel may end at any await.                     *)
(***************************************************************************)
EXTENDS Integers, SequencesExt, EffectList

CONSTANTS
  Agent,
  Parent,        \* [Agent -> Agent \cup {App}]: whose context owns it
  App, Loop,     \* the surface that creates roots, and the loop plugin
  MaxPrompts     \* turns a person starts

ASSUME LifeAssumption ==
  /\ App # Loop /\ {App, Loop} \cap Agent = {}
  /\ Parent \in [Agent -> Agent \cup {App}]
  /\ MaxPrompts \in Nat

VARIABLES
  create,     \* [Agent -> how far its creation came]
  origin,     \* [Agent -> "new" or "resumed"]
  session,    \* [Agent -> "none", "held", "published", "closed"]: the store
  registered, \* SUBSET Agent: the registry
  heard,      \* SUBSET Agent: session/created was emitted
  life,       \* [Agent -> how far its one disposal came]
  running,    \* SUBSET Agent: a turn is open
  aborted,    \* SUBSET Agent: that turn's signal fired
  call,       \* [Agent -> the delegating call that made it, as far as it came]
  told,       \* [Agent -> <<starts, ends>>]: its records in its parent's log
  open,       \* [Agent \cup {App, Loop} -> "none", "open", "unwinding", "closed"]
  effects,    \* [Agent \cup {App, Loop} -> Seq(record)]: an agent's are its scope's
  awaiting,   \* [Agent \cup {App, Loop} -> the record an unwind waits for]
  prompts     \* turns a person has started

agents == <<create, origin, session, registered, heard>>
turns == <<running, aborted, prompts>>
calls == <<call, told>>
owners == <<open, effects, awaiting>>
vars == <<agents, life, turns, calls, owners>>

Holder == Agent \cup {App, Loop}
Children(a) == {c \in Agent : Parent[c] = a}
Delegated(a) == Parent[a] \in Agent

ScopeOf(a) == [kind |-> "scope", of |-> a]
LifeOf(a) == [kind |-> "life", of |-> a]
OwnedBy(a) == [kind |-> "owned", of |-> a]
Nothing == [kind |-> "none", of |-> App]

Init ==
  /\ create = [a \in Agent |-> "none"]
  /\ origin = [a \in Agent |-> "new"]
  /\ session = [a \in Agent |-> "none"]
  /\ registered = {} /\ heard = {}
  /\ life = [a \in Agent |-> "none"]
  /\ running = {} /\ aborted = {} /\ prompts = 0
  /\ call = [a \in Agent |-> "none"]
  /\ told = [a \in Agent |-> <<0, 0>>]
  /\ open = [o \in Holder |-> IF o \in Agent THEN "none" ELSE "open"]
  /\ effects = [o \in Holder |-> <<>>]
  /\ awaiting = [o \in Holder |-> Nothing]

-----------------------------------------------------------------------------
(* Creation *)

\* The session is held, unpublished, before the loop's context is asked for the
\* scope; a loop that unwinds refuses, and the session is detached again.
Begins(a, how) ==
  /\ create[a] = "none"
  /\ IF open[Loop] = "open"
     THEN /\ create' = [create EXCEPT ![a] = "setup"]
          /\ session' = [session EXCEPT ![a] = "held"]
          /\ open' = [open EXCEPT ![a] = "open"]
          /\ effects' = [effects EXCEPT ![Loop] = Append(@, ScopeOf(a))]
     ELSE /\ create' = [create EXCEPT ![a] = "failed"]
          /\ session' = [session EXCEPT ![a] = "closed"]
          /\ UNCHANGED <<open, effects>>
  /\ origin' = [origin EXCEPT ![a] = how]
  /\ UNCHANGED <<registered, heard, life, awaiting>>

\* agents.create or agents.resume on behalf of a surface.
Create(a, how) ==
  /\ Parent[a] = App /\ open[App] = "open"
  /\ Begins(a, how)
  /\ UNCHANGED <<turns, calls>>

\* cancel(): the running turn's signal fires, and so do those of the children
\* whose delegating call listens to it.
Hears(a) ==
  LET within[n \in Nat] ==
        IF n = 0 THEN {a} \cap running
        ELSE within[n - 1] \cup {c \in running : Parent[c] \in within[n - 1]
                                               /\ call[c] \in {"awaiting", "flushing"}}
  IN  within[Cardinality(Agent)]

\* The caller's signal, the tool call's: fired with the parent's turn.
GivenUp(a) == Delegated(a) /\ Parent[a] \in aborted

\* dispose(): the first to ask starts the one task all share.
Disposes(a) ==
  /\ life' = [life EXCEPT ![a] = IF @ = "none" THEN "cancelled" ELSE @]
  /\ aborted' = IF life[a] = "none" THEN aborted \cup Hears(a) ELSE aborted

RollsBack(a) ==
  /\ create' = [create EXCEPT ![a] = "rolling"]
  /\ Disposes(a)
  /\ UNCHANGED <<origin, session, registered, heard, running, prompts, calls, owners>>

\* The world and the setup have run; either may throw.
SetUp(a) ==
  /\ create[a] = "setup"
  /\ \/ ~GivenUp(a) /\ create' = [create EXCEPT ![a] = "settling"]
        /\ UNCHANGED <<origin, session, registered, heard, life, turns, calls, owners>>
     \/ RollsBack(a)

\* Both lifetime records are on their owners, or the creation rolls back.  A
\* disposal takes off the one that is.
Binds(a) ==
  IF open[Loop] = "open"
  THEN IF open[Parent[a]] = "open"
       THEN /\ effects' = [effects EXCEPT ![Loop] = Append(@, LifeOf(a)),
                                          ![Parent[a]] = Append(@, OwnedBy(a))]
            /\ create' = [create EXCEPT ![a] = "live"]
            /\ UNCHANGED <<life, aborted>>
       ELSE /\ effects' = [effects EXCEPT ![Loop] = Append(@, LifeOf(a))]
            /\ create' = [create EXCEPT ![a] = "rolling"]
            /\ Disposes(a)
  ELSE /\ create' = [create EXCEPT ![a] = "rolling"]
       /\ Disposes(a)
       /\ UNCHANGED effects

\* What the scope mounted is active: the agent is registered, its session
\* published, and a resumed one awaits its first flush before it is bound.
Publish(a) ==
  /\ create[a] = "settling" /\ ~GivenUp(a)
  /\ registered' = registered \cup {a}
  /\ heard' = heard \cup {a}
  /\ session' = [session EXCEPT ![a] = "published"]
  /\ IF origin[a] = "resumed"
     THEN create' = [create EXCEPT ![a] = "flushing"] /\ UNCHANGED <<life, aborted, effects>>
     ELSE Binds(a)
  /\ UNCHANGED <<origin, running, prompts, calls, open, awaiting>>

\* Something mounted did not settle, or the creator gave up.
Unsettled(a) == create[a] = "settling" /\ RollsBack(a)

Flushed(a) ==
  /\ create[a] = "flushing"
  /\ Binds(a)
  /\ UNCHANGED <<origin, session, registered, heard, running, prompts, calls, open, awaiting>>

\* The store refused the session: a held lease, a damaged or another log.
Refused(a) == create[a] = "flushing" /\ RollsBack(a)

-----------------------------------------------------------------------------
(* The one disposal *)

\* Idle: the scope unwinds.  One that unwinds already is not waited for.
ScopeGoes(a) ==
  /\ life[a] = "cancelled" /\ a \notin running
  /\ life' = [life EXCEPT ![a] = IF open[a] = "open" THEN "unwinding" ELSE "unwound"]
  /\ open' = [open EXCEPT ![a] = IF @ = "open" THEN "unwinding" ELSE @]
  /\ UNCHANGED <<agents, turns, calls, effects, awaiting>>

ScopeGone(a) ==
  /\ life[a] = "unwinding" /\ open[a] = "closed"
  /\ life' = [life EXCEPT ![a] = "unwound"]
  /\ UNCHANGED <<agents, turns, calls, owners>>

(* Mutant: the session goes before the agent does.                         *)
UnregisterLast(a) ==
  /\ life[a] = "unwound"
  /\ life' = [life EXCEPT ![a] = IF session[a] = "closed" THEN "unregistered" ELSE @]
  /\ session' = [session EXCEPT ![a] = "closed"]
  /\ registered' = IF session[a] = "closed" THEN registered \ {a} ELSE registered
  /\ UNCHANGED <<create, origin, heard, turns, calls, owners>>

Unregister(a) ==
  /\ life[a] = "unwound"
  /\ life' = [life EXCEPT ![a] = "unregistered"]
  /\ registered' = registered \ {a}
  /\ UNCHANGED <<create, origin, session, heard, turns, calls, owners>>

(* Mutant: it awaits the records that wait for it.                         *)
DetachWaits(a) ==
  /\ \A o \in Holder : ~\E i \in DOMAIN effects[o] : effects[o][i] \in {LifeOf(a), OwnedBy(a)}
  /\ life[a] = "unregistered"
  /\ life' = [life EXCEPT ![a] = "done"]
  /\ session' = [session EXCEPT ![a] = "closed"]
  /\ create' = [create EXCEPT ![a] = IF @ = "rolling" THEN "failed" ELSE @]
  /\ UNCHANGED <<origin, registered, heard, turns, calls, owners>>

\* Detached, and the lifetime records dropped without waiting for them: each
\* would wait for this very task.
Detach(a) ==
  /\ life[a] = "unregistered"
  /\ life' = [life EXCEPT ![a] = "done"]
  /\ session' = [session EXCEPT ![a] = "closed"]
  /\ create' = [create EXCEPT ![a] = IF @ = "rolling" THEN "failed" ELSE @]
  /\ effects' = [o \in Holder |-> Without(effects[o], {LifeOf(a), OwnedBy(a)})]
  /\ UNCHANGED <<origin, registered, heard, turns, calls, open, awaiting>>

\* handle.dispose() by the surface that created it.
Dispose(a) ==
  /\ create[a] = "live" /\ Parent[a] = App /\ life[a] = "none"
  /\ Disposes(a)
  /\ UNCHANGED <<agents, running, prompts, calls, owners>>

-----------------------------------------------------------------------------
(* Turns *)

\* A prompt of one that may be seen.  wakeIfPending of a resumed one is the same.
Prompt(a) ==
  /\ a \in registered /\ life[a] = "none" /\ a \notin running /\ ~Delegated(a)
  /\ prompts < MaxPrompts
  /\ prompts' = prompts + 1
  /\ running' = running \cup {a}
  /\ aborted' = aborted \ {a}
  /\ UNCHANGED <<agents, life, calls, owners>>

\* A person's cancel.
Cancel(a) ==
  /\ a \in running /\ ~Delegated(a) /\ a \notin aborted
  /\ aborted' = aborted \cup Hears(a)
  /\ UNCHANGED <<agents, life, running, prompts, calls, owners>>

\* A turn ends once its calls have.
TurnEnds(a) ==
  /\ a \in running
  /\ \A c \in Children(a) : call[c] \in {"none", "done"}
  /\ running' = running \ {a}
  /\ UNCHANGED <<agents, life, aborted, prompts, calls, owners>>

-----------------------------------------------------------------------------
(* The delegating call *)

Delegate(c) ==
  /\ Delegated(c) /\ call[c] = "none"
  /\ Parent[c] \in running \ aborted
  /\ Begins(c, "new")
  /\ call' = [call EXCEPT ![c] = "creating"]
  /\ UNCHANGED <<turns, told>>

\* The creation threw, and the call with it.
NotCreated(c) ==
  /\ call[c] = "creating" /\ create[c] = "failed"
  /\ call' = [call EXCEPT ![c] = "done"]
  /\ UNCHANGED <<agents, life, turns, told, owners>>

\* A child that something disposed of meanwhile takes no prompt.
Awaited(c) ==
  /\ call' = [call EXCEPT ![c] = "awaiting"]
  /\ running' = IF life[c] = "none" THEN running \cup {c} ELSE running
  /\ told' = [told EXCEPT ![c] = <<@[1] + 1, @[2]>>]
  /\ UNCHANGED <<life, aborted>>

(* Mutant: no second look at the signal.                                   *)
StartUnaware(c) ==
  /\ call[c] = "creating" /\ create[c] = "live"
  /\ Awaited(c)
  /\ UNCHANGED <<agents, prompts, owners>>

\* The start is recorded; a call already given up records the end and starts
\* no turn.
Start(c) ==
  /\ call[c] = "creating" /\ create[c] = "live"
  /\ IF GivenUp(c)
     THEN /\ told' = [told EXCEPT ![c] = <<@[1] + 1, @[2] + 1>>]
          /\ call' = [call EXCEPT ![c] = "leaving"]
          /\ Disposes(c)
          /\ UNCHANGED running
     ELSE Awaited(c)
  /\ UNCHANGED <<agents, prompts, owners>>

\* The child is idle: its jobs are stopped and its log flushed, or that failed.
ChildIdle(c) ==
  /\ call[c] = "awaiting" /\ c \notin running
  /\ call' = [call EXCEPT ![c] = "flushing"]
  /\ UNCHANGED <<agents, life, turns, told, owners>>

\* The end, then the child's disposal.
Record(c) ==
  /\ call[c] = "flushing"
  /\ told' = [told EXCEPT ![c] = <<@[1], @[2] + 1>>]
  /\ call' = [call EXCEPT ![c] = "leaving"]
  /\ Disposes(c)
  /\ UNCHANGED <<agents, running, prompts, owners>>

Return(c) ==
  /\ call[c] = "leaving" /\ life[c] = "done"
  /\ call' = [call EXCEPT ![c] = "done"]
  /\ UNCHANGED <<agents, life, turns, told, owners>>

-----------------------------------------------------------------------------
(* Unwinding *)

\* The surface or the loop plugin is disposed of.
Shutdown(o) ==
  /\ o \in {App, Loop} /\ open[o] = "open"
  /\ open' = [open EXCEPT ![o] = "unwinding"]
  /\ UNCHANGED <<agents, life, turns, calls, effects, awaiting>>

Over(r) == CASE r.kind = "none" -> TRUE
             [] r.kind = "scope" -> open[r.of] = "closed"
             [] OTHER -> life[r.of] = "done"

Ready(o) == open[o] = "unwinding" /\ Over(awaiting[o])

\* The last record goes: a scope unwinds, an agent is disposed of.
Pop(o) ==
  /\ Ready(o) /\ effects[o] # <<>>
  /\ LET r == Last(effects[o])
         waits == IF r.kind = "scope" /\ open[r.of] # "open" THEN Nothing ELSE r
     IN  /\ awaiting' = [awaiting EXCEPT ![o] = waits]
         /\ effects' = [effects EXCEPT ![o] = Front(@)]
         /\ IF r.kind = "scope"
            THEN /\ open' = [open EXCEPT ![r.of] = IF @ = "open" THEN "unwinding" ELSE @]
                 /\ UNCHANGED <<life, aborted>>
            ELSE Disposes(r.of) /\ UNCHANGED open
  /\ UNCHANGED <<agents, running, prompts, calls>>

Closed(o) ==
  /\ Ready(o) /\ effects[o] = <<>>
  /\ open' = [open EXCEPT ![o] = "closed"]
  /\ effects' = IF o \in Agent THEN [effects EXCEPT ![Loop] = Without(@, {ScopeOf(o)})] ELSE effects
  /\ awaiting' = [awaiting EXCEPT ![o] = Nothing]
  /\ UNCHANGED <<agents, life, turns, calls>>

-----------------------------------------------------------------------------

Outside == \/ \E a \in Agent, how \in {"new", "resumed"} : Create(a, how)
           \/ \E a \in Agent : Dispose(a) \/ Prompt(a) \/ Cancel(a) \/ Delegate(a)
           \/ \E o \in {App, Loop} : Shutdown(o)

Progress ==
  \/ \E a \in Agent :
       \/ SetUp(a) \/ Publish(a) \/ Unsettled(a) \/ Flushed(a) \/ Refused(a)
       \/ ScopeGoes(a) \/ ScopeGone(a) \/ Unregister(a) \/ Detach(a)
       \/ TurnEnds(a) \/ NotCreated(a) \/ Start(a) \/ ChildIdle(a) \/ Record(a) \/ Return(a)
  \/ \E o \in Holder : Pop(o) \/ Closed(o)

Next == Outside \/ Progress

\* A setup, a flush, a turn and a disposer settle.
Spec == Init /\ [][Next]_vars /\ WF_vars(Progress)

-----------------------------------------------------------------------------
(* Properties *)

\* A creation that failed leaves nothing behind: no agent, no session, no
\* record of it on the loop or on its creator.
RollsBackWhole ==
  \A a \in Agent :
    create[a] = "failed" =>
      /\ a \notin registered \cup running
      /\ session[a] = "closed"
      /\ \A o \in Holder : ~\E i \in DOMAIN effects[o] : effects[o][i] \in {LifeOf(a), OwnedBy(a)}

\* Who finds an agent finds its session, and the session it finds is open: the
\* registry forgets an agent before the store closes its session, and no turn
\* runs over a closed one.
SeenWhole ==
  /\ \A a \in registered : session[a] = "published"
  /\ \A a \in running : session[a] = "published"

\* What is to be found of an agent is whole, in both directions.
FoundWhole == RollsBackWhole /\ SeenWhole

\* A delegated child lives within the turn that asked for it: no parent goes
\* idle, and none is disposed of, with a child still to be found or running.
ChildWithinTurn ==
  \A c \in Agent :
    Delegated(c) /\ (c \in registered \cup running \/ (create[c] = "live" /\ life[c] # "done"))
      => Parent[c] \in running

\* Every delegation the parent's log starts it ends, once, on every way out of
\* the call, and a call that never started a child records neither.
DelegationPaired ==
  \A c \in Agent :
    /\ told[c][2] <= told[c][1] /\ told[c][1] <= 1
    /\ call[c] = "done" => told[c] = IF create[c] = "live" THEN <<1, 1>> ELSE <<0, 0>>

\* No turn of a child begins for a call its caller has given up.
GivenUpStaysIdle == [][\A c \in Agent : GivenUp(c) /\ c \notin running => c \notin running']_vars

\* An agent goes with the first of its two owners: once either has unwound,
\* whatever it created is disposed of.
GoesWithOwner ==
  \A a \in Agent : create[a] = "live" /\ (open[Loop] = "closed" \/ open[Parent[a]] = "closed") => life[a] = "done"

\* A child is never left behind: by its parent's turn, its parent's log or its
\* owners.
ChildIsKept == ChildWithinTurn /\ DelegationPaired /\ GoesWithOwner

\* A child lives and works within its call: it is kept while the call runs, and
\* starts nothing once the call is given up.
ChildFollowsItsCall == []ChildIsKept /\ GivenUpStaysIdle

\* Disposals wait for turns, turns for calls, calls for the disposal of their
\* child, unwinds for all of them; none waits for ever.
DisposalsEnd ==
  <>[](/\ \A a \in Agent : life[a] # "none" => life[a] = "done"
       /\ \A o \in Holder : open[o] # "unwinding"
       /\ \A c \in Agent : call[c] \in {"none", "done"})

\* src/core/session/store.ts:23: a rolled-back creation was never announced.
RolledBackUnheard == \A a \in Agent : create[a] = "failed" => a \notin heard
=============================================================================
