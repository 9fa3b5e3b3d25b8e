------------------------------- MODULE Kernel -------------------------------
(***************************************************************************)
(* The composition kernel (src/kernel/context.ts): plugins that declare    *)
(* the services they inject, the epoch that tells each of them which       *)
(* providers it would load under, the chain of tasks on which it loads,    *)
(* unloads, reloads and disposes, and the effect lists that plugins and    *)
(* scopes unwind in reverse.  Every await of the code is a point where     *)
(* another plugin, or the composition, may step in.                        *)
(***************************************************************************)
EXTENDS Integers, SequencesExt, EffectList

CONSTANTS
  Instance,       \* the plugin instances the composition may mount, each once
  Scope,          \* the scopes, with Root among them
  Root,
  Key,            \* service keys
  Absent,         \* no key, no service, nothing awaited
  Owner,          \* [Instance \cup Scope -> Instance \cup Scope]: where each is mounted
  Home,           \* [Instance -> Scope]: the scope whose realm its context has
  Needs,          \* [Instance -> SUBSET Key]: inject
  Gives,          \* [Instance -> Key \cup {Absent}]: what its apply provides
  Handled,        \* the instances whose handle the composition disposes
  Fragile         \* the instances whose apply may throw of its own

ASSUME KernelAssumption ==
  /\ Root \in Scope
  /\ Instance \cap Scope = {} /\ Absent \notin Instance \cup Scope \cup Key
  /\ IsFiniteSet(Instance) /\ IsFiniteSet(Scope) /\ IsFiniteSet(Key)
  /\ Owner \in [Instance \cup Scope -> Instance \cup Scope]
  /\ Home \in [Instance -> Scope]
  /\ Needs \in [Instance -> SUBSET Key]
  /\ Gives \in [Instance -> Key \cup {Absent}]
  /\ Handled \cup Fragile \subseteq Instance

VARIABLES
  plugin,    \* each instance: mounted, state, epoch, its chain of tasks, the one that runs
  realm,     \* [Scope -> [Key -> impl or NoImpl]]: the services of each realm
  scope,     \* [Scope -> "none", "open", "unwinding", "closed"]
  effectsOf,   \* [Instance \cup Scope -> Seq(record)]: what each owner unwinds
  awaitedBy   \* [Instance \cup Scope -> what its unwind waits for, or Absent]

kvars == <<plugin, realm, scope, effectsOf, awaitedBy>>

EffectOwner == Instance \cup Scope
NoImpl == [by |-> Absent, id |-> 0]
Never == {-1}        \* the epoch of an instance that was never refreshed: null
Inactive == {0}      \* the epoch of one that lacks a dependency: '__inactive__'
Unwinds == {"failing", "leaving", "unloading", "reloading", "disposing"}

Provided(k) == [kind |-> "provide", what |-> k]
Mounted(p) == [kind |-> "mount", what |-> p]
Child(s) == [kind |-> "scope", what |-> s]

-----------------------------------------------------------------------------
(* Epochs *)

\* A realm's own service, or its parent's.
Lookup(R, p, k) == IF R[Home[p]][k] # NoImpl THEN R[Home[p]][k] ELSE R[Root][k]

\* Ids are only compared, so one that nothing refers to any more is new again.
mintId(P, R) ==
  LET used == (UNION {P[p].epoch \cup P[p].under : p \in Instance})
              \cup {R[s][k].id : s \in Scope, k \in Key}
  IN  Min((1 .. Cardinality(used) + 1) \ used)

\* The ids of the impls an instance would load under; Inactive while one is
\* missing or its provider is not active.
computeEpoch(P, R, p) ==
  LET found == {Lookup(R, p, k) : k \in Needs[p]}
  IN  IF \E impl \in found : impl = NoImpl \/ P[impl.by].state # "active"
      THEN Inactive
      ELSE {impl.id : impl \in found}

(* Mutant: a swap of providers taken for no change.                        *)
refreshIgnoresSwaps(P, R, p) ==
  LET me == P[p]
      next == computeEpoch(P, R, p)
      off == me.epoch \in {Never, Inactive}
  IN  IF me.mounted # "yes" \/ next = me.epoch THEN me
      ELSE [me EXCEPT !.epoch = next, !.state = IF @ = "failed" THEN "pending" ELSE @,
                      !.queue = IF off = (next = Inactive) THEN @
                                ELSE Append(@, IF off THEN "load" ELSE "unload")]

\* refresh: a changed epoch schedules what brings the instance under it.
refresh(P, R, p) ==
  LET me == P[p]
      next == computeEpoch(P, R, p)
      off == me.epoch \in {Never, Inactive}
      tasks == CASE me.state = "failed" -> IF next = Inactive THEN <<>> ELSE <<"load">>
                 [] me.state # "failed" /\ next = Inactive -> IF off THEN <<>> ELSE <<"unload">>
                 [] OTHER -> IF off THEN <<"load">> ELSE <<"reload">>
  IN  IF me.mounted # "yes" \/ next = me.epoch THEN me
      ELSE [me EXCEPT !.epoch = next, !.queue = @ \o tasks,
                      !.state = IF @ = "failed" THEN "pending" ELSE @]

\* notify refreshes every instance; none of them reads what another's refresh
\* wrote, so their order does not matter.
notify(P, R) == [p \in Instance |-> refresh(P, R, p)]

\* Who may register: a scope while it is open, an instance unless it was
\* disposed of or unwinds.  A pending or a failed one may.
admit(P, S, o) ==
  IF o \in Scope THEN S[o] = "open"
  ELSE P[o].mounted = "yes" /\ P[o].state \notin {"unloading", "disposed"}

-----------------------------------------------------------------------------

KInit ==
  /\ plugin = [p \in Instance |-> [mounted |-> "no", state |-> "pending", epoch |-> Never,
                                   queue |-> <<>>, run |-> "idle", under |-> Never, failed |-> FALSE]]
  /\ realm = [s \in Scope |-> [k \in Key |-> NoImpl]]
  /\ scope = [s \in Scope |-> IF s = Root THEN "open" ELSE "none"]
  /\ effectsOf = [o \in EffectOwner |-> <<>>]
  /\ awaitedBy = [o \in EffectOwner |-> Absent]

-----------------------------------------------------------------------------
(* The composition's calls *)

\* It has effects to unwind: isActive of an instance.
Up(p) == plugin[p].state \in {"active", "loading"}

\* context.plugin(): a record on its owner, and a first refresh.  A plugin
\* mounts others from its apply or later.
Mount(p) ==
  /\ plugin[p].mounted = "no"
  /\ admit(plugin, scope, Owner[p])
  /\ Owner[p] \in Instance => Up(Owner[p])
  /\ LET new == [plugin EXCEPT ![p].mounted = "yes"]
     IN  plugin' = [new EXCEPT ![p] = refresh(new, realm, p)]
  /\ effectsOf' = [effectsOf EXCEPT ![Owner[p]] = Append(@, Mounted(p))]
  /\ UNCHANGED <<realm, scope, awaitedBy>>

\* The instance leaves the root's set at once and queues its own disposal.
Leaves(me) ==
  IF me.mounted = "yes"
  THEN [me EXCEPT !.mounted = "out", !.queue = Append(@, "dispose")]
  ELSE me

\* handle.dispose().
DisposeHandle(p) ==
  /\ p \in Handled
  /\ plugin[p].mounted = "yes"
  /\ plugin' = [plugin EXCEPT ![p] = Leaves(@)]
  /\ UNCHANGED <<realm, scope, effectsOf, awaitedBy>>

\* Once disposed, it takes its record off its owner.
Release(p) ==
  /\ plugin[p].state = "disposed"
  /\ Contains(effectsOf[Owner[p]], Mounted(p))
  /\ effectsOf' = [effectsOf EXCEPT ![Owner[p]] = Without(@, {Mounted(p)})]
  /\ UNCHANGED <<plugin, realm, scope, awaitedBy>>

\* context.child().
Open(s) ==
  /\ scope[s] = "none"
  /\ admit(plugin, scope, Owner[s])
  /\ scope' = [scope EXCEPT ![s] = "open"]
  /\ effectsOf' = [effectsOf EXCEPT ![Owner[s]] = Append(@, Child(s))]
  /\ UNCHANGED <<plugin, realm, awaitedBy>>

\* context.dispose() of a scope or of the root.
Close(s) ==
  /\ scope[s] = "open"
  /\ scope' = [scope EXCEPT ![s] = "unwinding"]
  /\ UNCHANGED <<plugin, realm, effectsOf, awaitedBy>>

-----------------------------------------------------------------------------
(* The chain of an instance's tasks *)

Due(p, task) ==
  /\ plugin[p].run = "idle"
  /\ plugin[p].queue # <<>>
  /\ Head(plugin[p].queue) = task

\* load(): it asks only whether the instance is still mounted.
Loading(me, now) ==
  IF me.mounted = "yes"
  THEN [me EXCEPT !.state = "loading", !.run = "apply", !.under = now]
  ELSE [me EXCEPT !.run = "idle"]

StartLoad(p) ==
  /\ Due(p, "load")
  /\ LET me == [plugin[p] EXCEPT !.queue = Tail(@)]
     IN  plugin' = [plugin EXCEPT ![p] = Loading(me, computeEpoch(plugin, realm, p))]
  /\ UNCHANGED <<realm, scope, effectsOf, awaitedBy>>

\* unload() of an instance that is not up does nothing.
StartUnload(p) ==
  /\ Due(p, "unload")
  /\ plugin' = [plugin EXCEPT
       ![p].queue = Tail(@),
       ![p].state = IF Up(p) THEN "unloading" ELSE @,
       ![p].run = IF Up(p) THEN "unloading" ELSE "idle"]
  /\ UNCHANGED <<realm, scope, effectsOf, awaitedBy>>

StartReload(p) ==
  /\ Due(p, "reload")
  /\ plugin' = [plugin EXCEPT
       ![p].queue = Tail(@),
       ![p].state = IF Up(p) THEN "unloading" ELSE @,
       ![p].run = IF Up(p) THEN "reloading" ELSE "recheck"]
  /\ UNCHANGED <<realm, scope, effectsOf, awaitedBy>>

\* After its unload, a reload loads only under the epoch it was last told of.
Recheck(p) ==
  /\ plugin[p].run = "recheck"
  /\ LET now == computeEpoch(plugin, realm, p)
     IN  plugin' = [plugin EXCEPT ![p] =
                      IF now = @.epoch /\ now # Inactive THEN Loading(@, now)
                      ELSE [@ EXCEPT !.run = "idle"]]
  /\ UNCHANGED <<realm, scope, effectsOf, awaitedBy>>

(* Mutant: a disposal that only knows how to end what is up.               *)
StartDisposeUp(p) ==
  /\ Due(p, "dispose") /\ Up(p)
  /\ plugin' = [plugin EXCEPT ![p].queue = Tail(@), ![p].state = "unloading",
                              ![p].run = "disposing"]
  /\ UNCHANGED <<realm, scope, effectsOf, awaitedBy>>

StartDispose(p) ==
  /\ Due(p, "dispose")
  /\ LET me == [plugin EXCEPT ![p].queue = Tail(@)]
     IN  plugin' = IF Up(p)
                   THEN [me EXCEPT ![p].state = "unloading", ![p].run = "disposing"]
                   ELSE notify([me EXCEPT ![p].state = "disposed"], realm)
  /\ UNCHANGED <<realm, scope, effectsOf, awaitedBy>>

-----------------------------------------------------------------------------
(* apply *)

\* provide(): refused to an owner that is gone and for a key its realm holds.
Provide(p) ==
  LET k == Gives[p]
      impl == [by |-> p, id |-> mintId(plugin, realm)]
      new == [realm EXCEPT ![Home[p]][k] = impl]
  IN  /\ plugin[p].run = "apply"
      /\ k # Absent
      /\ IF admit(plugin, scope, p) /\ realm[Home[p]][k] = NoImpl
         THEN /\ realm' = new
              /\ effectsOf' = [effectsOf EXCEPT ![p] = Append(@, Provided(k))]
              /\ plugin' = notify([plugin EXCEPT ![p].run = "provided"], new)
         ELSE /\ plugin' = [plugin EXCEPT ![p].run = "failing", ![p].failed = TRUE]
              /\ UNCHANGED <<realm, effectsOf>>
      /\ UNCHANGED <<scope, awaitedBy>>

\* apply resolved: active, unless it was disposed of in the meantime.
Applied(p) ==
  /\ plugin[p].run = IF Gives[p] = Absent THEN "apply" ELSE "provided"
  /\ plugin' = IF plugin[p].mounted = "yes"
               THEN notify([plugin EXCEPT ![p].state = "active", ![p].run = "idle"], realm)
               ELSE [plugin EXCEPT ![p].run = "leaving"]
  /\ UNCHANGED <<realm, scope, effectsOf, awaitedBy>>

(* Mutant: a failed load that keeps what it had registered.                *)
ThrowKeepsEffects(p) ==
  /\ p \in Fragile
  /\ plugin[p].run \in {"apply", "provided"}
  /\ plugin' = notify([plugin EXCEPT ![p].state = "failed", ![p].run = "idle",
                                     ![p].under = Never, ![p].failed = TRUE], realm)
  /\ UNCHANGED <<realm, scope, effectsOf, awaitedBy>>

\* apply threw, or its config did not parse.
Throw(p) ==
  /\ p \in Fragile
  /\ plugin[p].run \in {"apply", "provided"}
  /\ plugin' = [plugin EXCEPT ![p].run = "failing", ![p].failed = TRUE]
  /\ UNCHANGED <<realm, scope, effectsOf, awaitedBy>>

-----------------------------------------------------------------------------
(* Unwinding: records are popped from the end, each one awaited *)

Unwinding(o) == IF o \in Scope THEN scope[o] = "unwinding" ELSE plugin[o].run \in Unwinds

\* What an unwind awaits, if anything, is over.
AwaitOver(x) == CASE x = Absent -> TRUE
             [] x \in Scope -> scope[x] = "closed"
             [] x \in Instance -> plugin[x].state = "disposed"

UnwindReady(o) == Unwinding(o) /\ AwaitOver(awaitedBy[o])

\* instance.dispose() of one already leaving awaits its chain like the first.
PopsMount(o, p) ==
  /\ plugin' = [plugin EXCEPT ![p] = Leaves(@)]
  /\ awaitedBy' = [awaitedBy EXCEPT ![o] = p]
  /\ UNCHANGED <<realm, scope>>

\* scope.unwind() of one that unwinds already returns at once.
PopsScope(o, s) ==
  /\ scope' = [scope EXCEPT ![s] = IF @ = "open" THEN "unwinding" ELSE @]
  /\ awaitedBy' = [awaitedBy EXCEPT ![o] = IF scope[s] = "open" THEN s ELSE Absent]
  /\ UNCHANGED <<plugin, realm>>

\* The service goes and every instance hears of it.
PopsProvide(o, k) ==
  LET new == [realm EXCEPT ![Home[o]][k] = IF @.by = o THEN NoImpl ELSE @]
  IN  /\ realm' = new
      /\ plugin' = notify(plugin, new)
      /\ awaitedBy' = [awaitedBy EXCEPT ![o] = Absent]
      /\ UNCHANGED scope

PopEffect(o) ==
  /\ UnwindReady(o)
  /\ effectsOf[o] # <<>>
  /\ LET record == Last(effectsOf[o])
     IN  CASE record.kind = "mount" -> PopsMount(o, record.what)
           [] record.kind = "scope" -> PopsScope(o, record.what)
           [] record.kind = "provide" -> PopsProvide(o, record.what)
  /\ effectsOf' = [effectsOf EXCEPT ![o] = Front(@)]

\* What the task does once its effects are unwound.
Unwound(p) ==
  LET me == plugin[p]
      left == IF me.mounted = "yes" THEN "pending" ELSE "disposed"
      After(s, r) == notify([plugin EXCEPT ![p].state = s, ![p].run = r,
                                           ![p].under = Never], realm)
  IN  /\ UnwindReady(p)
      /\ effectsOf[p] = <<>>
      /\ plugin' = CASE me.run = "failing" -> After("failed", "idle")
                     [] me.run = "leaving" -> [plugin EXCEPT ![p].run = "idle"]
                     [] me.run = "unloading" -> After(left, "idle")
                     [] me.run = "reloading" -> After(left, "recheck")
                     [] me.run = "disposing" -> After("disposed", "idle")
      /\ awaitedBy' = [awaitedBy EXCEPT ![p] = Absent]
      /\ UNCHANGED <<realm, scope, effectsOf>>

\* A closed scope takes its record off its owner.
ScopeClosed(s) ==
  /\ UnwindReady(s)
  /\ effectsOf[s] = <<>>
  /\ scope' = [scope EXCEPT ![s] = "closed"]
  /\ effectsOf' = [effectsOf EXCEPT ![Owner[s]] = Without(@, {Child(s)})]
  /\ awaitedBy' = [awaitedBy EXCEPT ![s] = Absent]
  /\ UNCHANGED <<plugin, realm>>

-----------------------------------------------------------------------------

Composition == \/ \E p \in Instance : Mount(p) \/ DisposeHandle(p) \/ Throw(p)
               \/ \E s \in Scope : Open(s) \/ Close(s)

Task(p) ==
  \/ StartLoad(p) \/ StartUnload(p) \/ StartReload(p) \/ StartDispose(p)
  \/ Recheck(p) \/ Provide(p) \/ Applied(p) \/ Unwound(p) \/ Release(p)

Unwind(o) == PopEffect(o) \/ (o \in Scope /\ ScopeClosed(o))

KernelStep == (\E p \in Instance : Task(p)) \/ (\E o \in EffectOwner : Unwind(o))

KNext == Composition \/ KernelStep

\* Microtasks run, an apply settles and a disposer resolves.
Fairness == WF_kvars(KernelStep)

KSpec == KInit /\ [][KNext]_kvars /\ Fairness

-----------------------------------------------------------------------------
(* Properties *)

Idle(p) == plugin[p].run = "idle" /\ plugin[p].queue = <<>>
Quiet == \A p \in Instance : Idle(p)

\* Waiting, unload-on-loss and reload-on-swap.  An instance none of whose loads
\* failed and with nothing left to do is active exactly when it was last told
\* that its keys are provided, it loaded under the very providers it was told
\* of, and once everything is quiet those are the ones it would find now.
EpochIsHonoured ==
  \A p \in Instance :
    LET me == plugin[p]
        now == computeEpoch(plugin, realm, p)
    IN  me.mounted = "yes" /\ ~me.failed /\ Idle(p) =>
          /\ me.epoch = now => me.state = IF now = Inactive THEN "pending" ELSE "active"
          /\ me.state = "active" => me.under = me.epoch
          /\ Quiet => me.epoch = now

\* A service in a realm has a provider that is loading, active or unwinding and
\* still holds the record that takes it out: no failed load, reload or
\* disposal, in whatever order they meet, strands one.
EveryServiceIsOwned ==
  \A s \in Scope, k \in Key :
    LET p == realm[s][k].by
    IN  realm[s][k] # NoImpl =>
          /\ plugin[p].state \in {"loading", "active", "unloading"}
          /\ Contains(effectsOf[p], Provided(k))

\* Whatever an owner mounted is on its list, is what its unwind waits for, or is
\* disposed of: a plugin goes only after all that was mounted after it has
\* gone, and nothing mounted outlives its owner.
OwnedUntilGone ==
  \A p \in Instance :
    plugin[p].mounted # "no" =>
      \/ Contains(effectsOf[Owner[p]], Mounted(p))
      \/ awaitedBy[Owner[p]] = p
      \/ plugin[p].state = "disposed"

\* Nothing is stranded: no service without a provider, no mount without an owner.
NothingStranded == EveryServiceIsOwned /\ OwnedUntilGone

\* A replaced provider, a lost key and a failure each set off others; they come
\* to rest, and what was disposed of is gone by then.
Settles ==
  <>[](/\ Quiet
       /\ \A p \in Instance : plugin[p].mounted = "out" => plugin[p].state = "disposed"
       /\ \A s \in Scope : scope[s] # "unwinding")

\* docs/ARCHITECTURE.md:34: a plugin is pending until every key it injects is
\* provided.  At rest, then, none is up that lacks one.
PendingUntilProvided ==
  Quiet => \A p \in Instance :
    plugin[p].mounted = "yes" /\ plugin[p].state = "active"
      => computeEpoch(plugin, realm, p) # Inactive
=============================================================================
