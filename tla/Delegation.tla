----------------------------- MODULE Delegation -----------------------------
(***************************************************************************)
(* Sandbox authority down a chain of delegations, across switches,         *)
(* crashes, hosts and deployments.                                         *)
(*                                                                         *)
(* Code: SandboxService (`core/sandbox/index.ts`) and the folds of         *)
(* `core/sandbox/events.ts`; captureAuthority and the child's `setup` in   *)
(* `capabilities/tool-subagent/index.ts`; resolvePolicy of                 *)
(* `capabilities/tool-shell/index.ts` and `confine` of the shell; the      *)
(* fences of resume and fork (`core/agent/index.ts`); the sandbox half of  *)
(* the authority invariant (`core/sandbox/invariant.ts`).                  *)
(*                                                                         *)
(* Modes and enforcements are their ranks: a wider mode and a weaker       *)
(* enforcement are the larger number, as RANK and ACCEPT_RANK have them.   *)
(* The approval seam is a module of its own (Approval): here an ask is     *)
(* answered yes or not at all, unless the policy is `never`.               *)
(***************************************************************************)
EXTENDS Naturals, Sequences, FiniteSets

CONSTANTS
  Session,      \* sessions that may come to be
  Row,          \* delegation tools: [mode, accepts], the ceilings of the row
  Host,         \* processes: [enforces, mode, accepts], a host and a deployment
  Level,        \* enforcements a session may accept
  MaxDepth,     \* config.maxDepth of the delegation tool
  MaxSwitches,  \* bound on a person's switches
  MaxHosts      \* bound on processes that run the sessions, one after another

ReadOnly == 0
WorkspaceWrite == 1
DangerFullAccess == 2
Mode == {ReadOnly, WorkspaceWrite, DangerFullAccess}
Confinable == {ReadOnly, WorkspaceWrite}
Full == 0
None == 2
Nobody == "nobody"

ASSUME LevelsRank == Level \subseteq Full..None /\ {Full, None} \subseteq Level
ASSUME RowsCap == Row \subseteq [mode : Mode, accepts : Full..None]
ASSUME HostsRank == Host \subseteq [enforces : Full..None, mode : Mode, accepts : Level]
ASSUME NobodyIsNoSession == Nobody \notin Session

VARIABLES
  log,       \* log[s]: the authority records of s, oldest first
  up,        \* up[s]: header.delegatedBy, or Nobody
  depth,     \* depth[s]: header.delegationDepth
  phase,     \* phase[s]: "absent", "setup", "live" or "stored"
  taken,     \* taken[s]: the authority captured for s before the awaits
  asking,    \* the call a person is asked about: [by, mode], or NoCall
  host,      \* the process that runs the sessions
  held,      \* history: what the parent held when it delegated to s
  switches, hosts

vars == <<log, up, depth, phase, taken, asking, host, held, switches, hosts>>

NoCall == [by |-> Nobody, mode |-> ReadOnly]
NothingTaken == [mode |-> ReadOnly, accepts |-> Full]
Nothing == [mode |-> ReadOnly, accepts |-> [m \in Mode |-> Full]]

Stamp(m, e, reason) == [kind |-> "mode", mode |-> m, enforcement |-> e, reason |-> reason]
Acceptance(a, m, reason) == [kind |-> "accepts", accepts |-> a, mode |-> m, reason |-> reason]
Policy(p, reason) == [kind |-> "policy", policy |-> p, reason |-> reason]

Lesser(a, b) == IF a <= b THEN a ELSE b
At(l, kind) == {i \in DOMAIN l : l[i].kind = kind}
Last(S) == CHOOSE i \in S : \A j \in S : j <= i
First(S) == CHOOSE i \in S : \A j \in S : i <= j

-----------------------------------------------------------------------------
(* The folds.                                                               *)
Stamped(l) == At(l, "mode") # {}
lastSandboxStamp(l) == l[Last(At(l, "mode"))]
DelegatedBy(l, kind) == At(l, kind) # {} /\ l[First(At(l, kind))].reason = "delegation"
delegationCeiling(l) == IF DelegatedBy(l, "mode") THEN l[First(At(l, "mode"))].mode ELSE DangerFullAccess

Recorded(l, m) == {i \in At(l, "accepts") : l[i].mode = m}

(* A reader of the log alone: the last acceptance for the mode, or strict.  *)
ColdAccepts(l, m) == IF Recorded(l, m) = {} THEN Full ELSE l[Last(Recorded(l, m))].accepts

(* acceptsFor: only a session of its own falls back to the deployment.      *)
acceptsFor(s, m) ==
  IF Recorded(log[s], m) # {} THEN ColdAccepts(log[s], m)
  ELSE IF up[s] # Nobody THEN Full ELSE host.accepts

enforcementFor(h, m) == IF m = DangerFullAccess THEN None ELSE h.enforces

-----------------------------------------------------------------------------
(* The sandbox seam, as what it does to a log.                              *)

(* Mutant: the deployment's acceptance recorded for the mode in force only. *)
StampOne(l, h, child, m, reason) ==
  IF h.accepts = Full \/ child \/ m = DangerFullAccess \/ Recorded(l, m) # {} THEN l
  ELSE Append(l, Acceptance(h.accepts, m, reason))

stampAcceptance(l, h, child, m, reason) ==
  LET due(c) == IF Recorded(l, c) = {} THEN <<Acceptance(h.accepts, c, reason)>> ELSE <<>>
  IN  IF h.accepts = Full \/ child THEN l
      ELSE IF m = WorkspaceWrite THEN l \o due(WorkspaceWrite) \o due(ReadOnly)
      ELSE l \o due(ReadOnly) \o due(WorkspaceWrite)

Record(l, h, child, m) ==
  LET e == enforcementFor(h, m)
      same == Stamped(l) /\ lastSandboxStamp(l).mode = m
      reason == IF ~Stamped(l) THEN "initial" ELSE IF same THEN "resume" ELSE "change"
  IN  IF same /\ lastSandboxStamp(l).enforcement = e
      THEN stampAcceptance(l, h, child, m, "resume")
      ELSE stampAcceptance(Append(l, Stamp(m, e, reason)), h, child, m, reason)

ModeOf(l, h) == IF Stamped(l) THEN lastSandboxStamp(l).mode ELSE h.mode

(* agent/created: both seams open the session, and what is recorded stays.  *)
Created(l, h, child) ==
  LET sandboxed == Record(l, h, child, ModeOf(l, h))
  IN  IF At(sandboxed, "policy") = {} THEN Append(sandboxed, Policy("ask", "initial")) ELSE sandboxed

(* A child's setup: its mode as a ceiling, its acceptance as a pin, and     *)
(* approvals pinned `never`.                                                *)
Delegated(h, m, a) ==
  LET pin == IF a = Full /\ h.accepts = Full THEN <<>> ELSE <<Acceptance(a, m, "delegation")>>
  IN  <<Stamp(m, enforcementFor(h, m), "delegation")>> \o pin \o <<Policy("never", "delegation")>>

-----------------------------------------------------------------------------
Init ==
  /\ host \in Host
  /\ log = [s \in Session |-> <<>>]
  /\ up = [s \in Session |-> Nobody] /\ depth = [s \in Session |-> 0]
  /\ phase = [s \in Session |-> "absent"]
  /\ taken = [s \in Session |-> NothingTaken]
  /\ asking = NoCall
  /\ held = [s \in Session |-> Nothing]
  /\ switches = 0 /\ hosts = 1

Is(s, p) == phase[s] = p
Child(s) == up[s] # Nobody

Start(s) ==
  /\ \A t \in Session : Is(t, "absent")
  /\ log' = [log EXCEPT ![s] = Created(<<>>, host, FALSE)]
  /\ phase' = [phase EXCEPT ![s] = "live"]
  /\ UNCHANGED <<up, depth, taken, asking, host, held, switches, hosts>>

(* Mutant: the row's acceptance taken as the child's.                        *)
CaptureRow(p, row) ==
  [mode |-> Lesser(ModeOf(log[p], host), row.mode), accepts |-> row.accepts]

(* captureAuthority, before the first await of the call.                    *)
captureAuthority(p, row) ==
  LET m == Lesser(ModeOf(log[p], host), row.mode)
  IN  [mode |-> m, accepts |-> Lesser(acceptsFor(p, m), row.accepts)]

Delegate(p, s, row) ==
  /\ Is(p, "live") /\ Is(s, "absent")
  /\ depth[p] + 1 <= MaxDepth
  /\ taken' = [taken EXCEPT ![s] = captureAuthority(p, row)]
  /\ up' = [up EXCEPT ![s] = p] /\ depth' = [depth EXCEPT ![s] = depth[p] + 1]
  /\ phase' = [phase EXCEPT ![s] = "setup"]
  /\ held' = [held EXCEPT ![s] = [mode |-> ModeOf(log[p], host),
                                  accepts |-> [m \in Mode |-> acceptsFor(p, m)]]]
  /\ UNCHANGED <<log, asking, host, switches, hosts>>

(* After the awaits: setup, then publication.  What the parent is by now is *)
(* its own future.                                                          *)
OpenChild(s) ==
  /\ Is(s, "setup")
  /\ log' = [log EXCEPT ![s] = Created(Delegated(host, taken[s].mode, taken[s].accepts), host, TRUE)]
  /\ phase' = [phase EXCEPT ![s] = "live"]
  /\ taken' = [taken EXCEPT ![s] = NothingTaken]
  /\ UNCHANGED <<up, depth, asking, host, held, switches, hosts>>

-----------------------------------------------------------------------------
(* A person's switches.                                                     *)

Switch == switches < MaxSwitches /\ switches' = switches + 1

(* Mutant: a switch with no look at the ceiling.                            *)
SetModeFreely(s, m) ==
  /\ Switch /\ Is(s, "live")
  /\ log' = [log EXCEPT ![s] = Record(log[s], host, Child(s), m)]
  /\ UNCHANGED <<up, depth, phase, taken, asking, host, held, hosts>>

SetMode(s, m) ==
  /\ Switch /\ Is(s, "live")
  /\ m <= delegationCeiling(log[s])
  /\ log' = [log EXCEPT ![s] = Record(log[s], host, Child(s), m)]
  /\ UNCHANGED <<up, depth, phase, taken, asking, host, held, hosts>>

SetAcceptance(s, a, m) ==
  /\ Switch /\ Is(s, "live") /\ ~Child(s)
  /\ acceptsFor(s, m) # a
  /\ log' = [log EXCEPT ![s] = Append(@, Acceptance(a, m, "change"))]
  /\ UNCHANGED <<up, depth, phase, taken, asking, host, held, hosts>>

-----------------------------------------------------------------------------
(* A shell command asked wider than its session's mode.                     *)

(* confine: what the host delivers meets what is accepted for the mode.     *)
Meets(m, accepted) == m = DangerFullAccess \/ enforcementFor(host, m) <= accepted

(* The ask: strictly wider, able to run, and under a policy that asks.      *)
Escalate(s, m) ==
  /\ Is(s, "live") /\ asking = NoCall
  /\ m > ModeOf(log[s], host) /\ Meets(m, acceptsFor(s, m))
  /\ log[s][Last(At(log[s], "policy"))].policy = "ask"
  /\ asking' = [by |-> s, mode |-> m]
  /\ UNCHANGED <<log, up, depth, phase, taken, host, held, switches, hosts>>

(* Allowed: resolve with the mode, held under the ceiling, for this command *)
(* alone; nothing of it is recorded.                                        *)
Allow(s) ==
  /\ asking.by = s /\ asking.mode <= delegationCeiling(log[s])
  /\ asking' = NoCall
  /\ UNCHANGED <<log, up, depth, phase, taken, host, held, switches, hosts>>

-----------------------------------------------------------------------------
(* The process dies, anywhere, and a log may lose its last records; another *)
(* one runs the sessions, on another host and deployment perhaps.           *)
Restart(h, s, k) ==
  /\ hosts < MaxHosts /\ hosts' = hosts + 1
  /\ host' = h
  /\ log' = [log EXCEPT ![s] = SubSeq(@, 1, k)]
  /\ phase' = [t \in Session |-> CASE Is(t, "live") -> "stored"
                                   [] Is(t, "setup") -> "lost"
                                   [] OTHER -> phase[t]]
  /\ asking' = NoCall
  /\ UNCHANGED <<up, depth, taken, held, switches>>

(* What its header calls a child goes on under its own opening, or not.     *)
Fenced(l, child) == child => DelegatedBy(l, "mode") /\ DelegatedBy(l, "policy")

Resume(s) ==
  /\ Is(s, "stored") /\ Fenced(log[s], Child(s))
  /\ log' = [log EXCEPT ![s] = Created(@, host, Child(s))]
  /\ phase' = [phase EXCEPT ![s] = "live"]
  /\ UNCHANGED <<up, depth, taken, asking, host, held, switches, hosts>>

(* A fork: the header keeps the lineage, the seed is a prefix.              *)
Fork(s, t, k) ==
  /\ phase[s] \in {"live", "stored"} /\ Is(t, "absent")
  /\ k <= Len(log[s]) /\ Fenced(SubSeq(log[s], 1, k), Child(s))
  /\ log' = [log EXCEPT ![t] = Created(SubSeq(log[s], 1, k), host, Child(s))]
  /\ up' = [up EXCEPT ![t] = up[s]] /\ depth' = [depth EXCEPT ![t] = depth[s]]
  /\ held' = [held EXCEPT ![t] = held[s]]
  /\ phase' = [phase EXCEPT ![t] = "live"]
  /\ UNCHANGED <<taken, asking, host, switches, hosts>>

Next ==
  \/ \E s \in Session : \/ Start(s) \/ OpenChild(s) \/ Allow(s) \/ Resume(s)
                        \/ \E m \in Mode : SetMode(s, m) \/ Escalate(s, m)
                        \/ \E m \in Confinable, a \in Level : SetAcceptance(s, a, m)
                        \/ \E p \in Session, row \in Row : Delegate(p, s, row)
                        \/ \E t \in Session, k \in 0..Len(log[s]) : Fork(s, t, k)
  \/ \E h \in Host, s \in Session : \E k \in 0..Len(log[s]) : Restart(h, s, k)

Spec == Init /\ [][Next]_vars

-----------------------------------------------------------------------------
(* The authority invariant, as it judges the n-th record of a log.          *)
Accepted(l, n) ==
  LET e == l[n]
      before == SubSeq(l, 1, n - 1)
      modes == At(before, "mode")
      opened == DelegatedBy(before, "mode")
  IN  CASE e.kind = "mode" ->
             IF e.reason = "delegation" THEN modes = {} ELSE e.mode <= delegationCeiling(before)
        [] e.kind = "accepts" ->
             IF e.reason = "delegation"
             THEN /\ At(before, "accepts") = {} /\ opened
                  /\ modes = {n - 1} /\ e.mode = before[n - 1].mode
             ELSE ~DelegatedBy(before, "accepts") /\ ~DelegatedBy(before, "policy")
        [] OTHER -> e.reason = "delegation" => At(before, "policy") = {}

(* No switch, pickup, fork or delegation writes a record the authority      *)
(* invariant would refuse.                                                  *)
SandboxPassesInvariant == \A s \in Session : \A n \in DOMAIN log[s] : Accepted(log[s], n)

(* A child never has, nor asks to run a command with, more than its parent  *)
(* had when it delegated: whatever the parent becomes, whoever switches,    *)
(* across crashes, forks, other hosts and other deployments.                *)
NeverWiderThanHeld ==
  \A s \in Session : Child(s) /\ phase[s] = "live" =>
    /\ ModeOf(log[s], host) <= held[s].mode
    /\ \A m \in Confinable : acceptsFor(s, m) <= held[s].accepts[m]
    /\ asking.by = s => asking.mode <= held[s].mode

(* The log alone says what governs a live session: its mode, what this host *)
(* enforces for it, and what it accepts for every mode a command may be     *)
(* confined under, with no deployment to ask.                               *)
LogSaysWhatGoverns ==
  \A s \in Session : phase[s] = "live" =>
    /\ lastSandboxStamp(log[s]).enforcement = enforcementFor(host, lastSandboxStamp(log[s]).mode)
    /\ \A m \in Confinable : acceptsFor(s, m) = ColdAccepts(log[s], m)
=============================================================================
