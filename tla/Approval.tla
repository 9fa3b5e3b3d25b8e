------------------------------ MODULE Approval ------------------------------
(***************************************************************************)
(* The approval seam of one session, on its log: the policy it is under,   *)
(* the asks awaiting an answer, and the standing consents ("grants") that  *)
(* may answer a later ask about exactly the same action.                   *)
(*                                                                         *)
(* Code: ApprovalService of `core/approval/index.ts`, the folds of         *)
(* `core/approval/events.ts`, the approval half of the authority invariant *)
(* (`core/sandbox/invariant.ts`), and what a resume and a fork do to the   *)
(* log (`core/agent/index.ts`, `core/session/repair.ts`).                  *)
(*                                                                         *)
(* A record's id is its place in the log, as `approval-${seq}` is.  Asks   *)
(* run side by side (parallel tool calls), and between an ask and its      *)
(* answer anything may be appended.  Every ask is inside a turn, so the    *)
(* brackets of turns are left out: a log with an open ask has an open turn.*)
(***************************************************************************)
EXTENDS Naturals, Sequences, FiniteSets

CONSTANTS
  Subject,      \* the exact actions asked about
  Default,      \* the deployment's policy: "ask" or "never"
  MaxAsks,      \* bound on asks in a log
  MaxSwitches,  \* bound on switches of authority in a log
  MaxRevokes,   \* bound on revocations in a log
  MaxLives      \* bound on continuations of the session

ASSUME DefaultIsPolicy == Default \in {"ask", "never"}

VARIABLES
  log,       \* the session's facts, oldest first
  awaiting,  \* asks (by id) this process awaits an answer to
  aborted,   \* those whose signal has fired
  delegated, \* the header says the session is a child's
  lives      \* continuations so far

vars == <<log, awaiting, aborted, delegated, lives>>

(* A subject too long to show whole has no key, and an ask may carry none.  *)
Unkeyed == "unkeyed"
NoId == 0

Policy(p, reason) == [kind |-> "policy", policy |-> p, reason |-> reason]
Authority == [kind |-> "authority"]   \* sandbox/mode, sandbox/acceptance, preset
EndSeed == [kind |-> "endSeed"]
Asked(key) == [kind |-> "asked", key |-> key]
Decided(id, outcome, by, grant) ==
  [kind |-> "decided", id |-> id, outcome |-> outcome, by |-> by, grant |-> grant]
Granted(ask, key) == [kind |-> "granted", ask |-> ask, key |-> key]
Revoked(id) == [kind |-> "revoked", id |-> id]

(* Mutant: a continuation that keeps the consents of the life before.       *)
KindsWithinALife == {"policy", "authority"}

AuthorityKinds == {"policy", "authority", "endSeed"}

At(l, kinds) == {i \in DOMAIN l : l[i].kind \in kinds}
Largest(S) == CHOOSE i \in S : \A j \in S : j <= i
Smallest(S) == CHOOSE i \in S : \A j \in S : i <= j

-----------------------------------------------------------------------------
(* The folds.                                                               *)

Nothing == [live |-> {}, born |-> {}]

(* GrantFold.push: a grant is born unborn, its own ask's yes makes it live, *)
(* and whatever moves the authority ends them all.                          *)
Push(f, e, i) ==
  CASE e.kind \in AuthorityKinds -> Nothing
    [] e.kind = "decided" ->
         LET made == {b \in f.born : b.ask = e.id}
             keys == {b.key : b \in made}
         IN  [born |-> f.born \ made,
              live |-> IF e.outcome # "allowed-once" THEN f.live
                       ELSE {g \in f.live : g.key \notin keys}
                            \union {[id |-> b.id, key |-> b.key] : b \in made}]
    [] e.kind = "granted" ->
         [live |-> f.live,
          born |-> {b \in f.born : b.ask # e.ask}
                   \union {[ask |-> e.ask, id |-> i, key |-> e.key]}]
    [] e.kind = "revoked" ->
         [live |-> {g \in f.live : g.id # e.id}, born |-> {b \in f.born : b.id # e.id}]
    [] OTHER -> f

(* The fold after each prefix of the log.                                   *)
Consents(l) ==
  LET after[n \in 0..Len(l)] == IF n = 0 THEN Nothing ELSE Push(after[n - 1], l[n], n)
  IN  after

liveGrants(l) == Consents(l)[Len(l)].live
Covering(l, key) == {g \in liveGrants(l) : g.key = key}

effectiveApprovalPolicy(l) ==
  LET stamps == At(l, {"policy"}) IN IF stamps = {} THEN "none" ELSE l[Largest(stamps)].policy

delegationPin(l) ==
  LET stamps == At(l, {"policy"})
  IN  IF stamps # {} /\ l[Smallest(stamps)].reason = "delegation"
      THEN l[Smallest(stamps)].policy ELSE "none"

openApprovals(l) == {i \in At(l, {"asked"}) : \A d \in At(l, {"decided"}) : l[d].id # i}

(* withOffers: what an open ask may durably buy.                            *)
Offered(l, i) ==
  /\ i \in openApprovals(l)
  /\ delegationPin(l) = "none"
  /\ effectiveApprovalPolicy(l) = "ask"
  /\ l[i].key # Unkeyed
  /\ Covering(l, l[i].key) = {}

-----------------------------------------------------------------------------
(* The seam.                                                                *)

policyFor(l) == IF effectiveApprovalPolicy(l) = "none" THEN Default ELSE effectiveApprovalPolicy(l)

Open(l) == IF effectiveApprovalPolicy(l) = "none" THEN Append(l, Policy(Default, "initial")) ELSE l

Init ==
  /\ delegated \in BOOLEAN
  /\ log = IF delegated THEN <<Policy("never", "delegation")>> ELSE Open(<<>>)
  /\ awaiting = {} /\ aborted = {} /\ lives = 1

WithPolicy(l, p) ==
  LET opened == Open(l)
  IN  IF effectiveApprovalPolicy(opened) = p THEN opened ELSE Append(opened, Policy(p, "change"))

Pinned(p) == delegationPin(log) \notin {"none", p}
MaySwitch == Cardinality(At(log, {"authority"}) \union {i \in At(log, {"policy"}) : log[i].reason = "change"}) < MaxSwitches

SetPolicy(p) ==
  /\ MaySwitch /\ ~Pinned(p)
  /\ log' = WithPolicy(log, p)
  /\ UNCHANGED <<awaiting, aborted, delegated, lives>>

(* A switch of the sandbox mode or of what the session accepts.             *)
SwitchSandbox ==
  /\ MaySwitch
  /\ log' = Append(log, Authority)
  /\ UNCHANGED <<awaiting, aborted, delegated, lives>>

(* A preset: its own record, then the two setters.                          *)
ApplyPreset(p) ==
  /\ MaySwitch /\ ~Pinned(p)
  /\ log' = WithPolicy(Append(log, Authority), p)
  /\ UNCHANGED <<awaiting, aborted, delegated, lives>>

Recordable == Cardinality(At(log, {"asked"})) < MaxAsks

(* request: whatever needs no answer is decided in the tick of the ask.     *)
Request(key) ==
  LET opened == Open(log)
      id == Len(opened) + 1
      asked == Append(opened, Asked(key))
      settle(outcome, by, grant) ==
        log' = Append(asked, Decided(id, outcome, by, grant)) /\ UNCHANGED awaiting
      never == policyFor(opened) = "never"
      standing == IF key = Unkeyed THEN {} ELSE Covering(opened, key)
  IN  /\ Recordable
      /\ \/ settle("cancelled", "none", NoId)  \* the signal had already fired
         \/ never /\ settle("rejected", "policy", NoId)
         \/ ~never /\ \E g \in standing : settle("allowed-once", "grant", g.id)
         \/ /\ ~never /\ standing = {}
            /\ log' = asked /\ awaiting' = awaiting \union {id}
      /\ UNCHANGED <<aborted, delegated, lives>>

(* The turn is cancelled: the one signal of every call it has in flight.    *)
Cancel ==
  /\ awaiting # {} /\ aborted # awaiting
  /\ aborted' = awaiting
  /\ UNCHANGED <<log, awaiting, delegated, lives>>

(* mint: the consent, if this ask may still buy one.                        *)
mint(id, wanted) == IF wanted /\ Offered(log, id) THEN <<Granted(id, log[id].key)>> ELSE <<>>

(* Mutant: the decision written before the consent it names.                *)
AnswerDecidesFirst(id, answer, wanted) ==
  LET minted == mint(id, wanted)
      grant == IF minted = <<>> THEN NoId ELSE Len(log) + 2
  IN  /\ id \in awaiting /\ id \notin aborted
      /\ log' = log \o <<Decided(id, answer, "answerer", grant)>> \o minted
      /\ awaiting' = awaiting \ {id}
      /\ UNCHANGED <<aborted, delegated, lives>>

(* The awaited answer comes back: decide, then the records in one tick.     *)
Answer(id, answer, wanted) ==
  LET outcome == IF id \in aborted THEN "cancelled" ELSE answer
      minted == mint(id, wanted /\ outcome = "allowed-once")
      decider == IF outcome \in {"allowed-once", "rejected"} THEN "answerer" ELSE "none"
      grant == IF minted = <<>> THEN NoId ELSE Len(log) + 1
  IN  /\ id \in awaiting
      /\ log' = log \o minted \o <<Decided(id, outcome, decider, grant)>>
      /\ awaiting' = awaiting \ {id}
      /\ aborted' = aborted \ {id}
      /\ UNCHANGED <<delegated, lives>>

Revoke(id) ==
  /\ \E g \in liveGrants(log) : g.id = id
  /\ Cardinality(At(log, {"revoked"})) < MaxRevokes
  /\ log' = Append(log, Revoked(id))
  /\ UNCHANGED <<awaiting, aborted, delegated, lives>>

-----------------------------------------------------------------------------
(* The session continued.  A crash keeps any prefix written since the last  *)
(* continuation flushed; repair closes the asks it left open; the new log   *)
(* ends its seed and opens.                                                 *)

Prefix(k) == SubSeq(log, 1, k)

(* Mutant: a repair that leaves asks open.                                  *)
ClosersNone(l) == <<>>

Closers(l) ==
  LET open == openApprovals(l)
  IN  [n \in 1..Cardinality(open) |->
         Decided(CHOOSE i \in open : Cardinality({j \in open : j < i}) = n - 1,
                 "cancelled", "none", NoId)]

LiveStart == IF At(log, {"endSeed"}) = {} THEN 0 ELSE Largest(At(log, {"endSeed"}))

(* A session its header calls a child needs its pin to go on.               *)
Fenced(l) == delegated => delegationPin(l) # "none"

Continued(seed) ==
  /\ lives < MaxLives /\ Fenced(seed)
  /\ log' = Open(Append(seed, EndSeed))
  /\ awaiting' = {} /\ aborted' = {} /\ lives' = lives + 1
  /\ UNCHANGED delegated

Resume(k) == LiveStart <= k /\ Continued(Prefix(k) \o Closers(Prefix(k)))

(* A fork at a boundary with no open turn; the fork is watched from here.   *)
Fork(k) == openApprovals(Prefix(k)) = {} /\ Continued(Prefix(k))

Next ==
  \/ \E p \in {"ask", "never"} : SetPolicy(p) \/ ApplyPreset(p)
  \/ SwitchSandbox \/ Cancel
  \/ \E key \in Subject \union {Unkeyed} : Request(key)
  \/ \E id \in awaiting, wanted \in BOOLEAN :
        \/ Answer(id, "allowed-once", wanted)
        \/ \E other \in {"rejected", "unavailable"} : Answer(id, other, FALSE)
  \/ \E id \in {g.id : g \in liveGrants(log)} : Revoke(id)
  \/ \E k \in 0..Len(log) : Resume(k) \/ Fork(k)

(* An answer may never come: no fairness is assumed of it.                  *)
Spec == Init /\ [][Next]_vars

-----------------------------------------------------------------------------
(* The authority invariant, as it judges the n-th record of a log by those  *)
(* before it (`check`): a second reading of the same rules.                 *)
Accepted(l, n) ==
  LET e == l[n]
      before == SubSeq(l, 1, n - 1)
      asks == At(before, {"asked"})
      undecided == openApprovals(before)
      grantIds == At(before, {"granted"})
      fold == Consents(before)[n - 1]
      keyOf(g) == {x.key : x \in {y \in fold.live : y.id = g}}
      pinned == delegationPin(before) # "none"
  IN  CASE e.kind = "policy" ->
             IF e.reason = "delegation" THEN At(before, {"policy"}) = {}
             ELSE pinned => e.policy = delegationPin(before)
        [] e.kind = "decided" ->
             /\ e.id \in asks /\ e.id \in undecided
             /\ e.grant # NoId => e.grant \in grantIds
             /\ e.by = "grant" => /\ e.grant # NoId /\ e.outcome = "allowed-once"
                                  /\ keyOf(e.grant) = {before[e.id].key}
             /\ e.grant # NoId /\ e.by # "grant" =>
                  \E b \in fold.born : b.ask = e.id /\ b.id = e.grant
             /\ e.by = "policy" => e.outcome = "rejected"
        [] e.kind = "revoked" -> e.id \in grantIds
        [] e.kind = "granted" ->
             /\ ~pinned /\ e.key # Unkeyed
             /\ e.ask \in undecided /\ before[e.ask].key = e.key
        [] OTHER -> TRUE

(* The seam never writes a record the authority invariant would refuse: a   *)
(* refused append throws out of the middle of an answer.                    *)
SeamPassesItsInvariant == \A n \in DOMAIN log : Accepted(log, n)

(* A yes credited to a standing consent goes back to an answer that was a   *)
(* yes, to an ask about exactly this action, in this lifecycle, with no     *)
(* move of the session's authority and no revocation since.  Stated over    *)
(* the log alone, against GrantFold.                                        *)
ConsentIsEarned ==
  \A d \in At(log, {"decided"}) : log[d].by = "grant" =>
    \E g \in At(log, {"granted"}), yes \in At(log, {"decided"}) :
      /\ log[d].grant = g /\ g < yes /\ yes < log[d].id
      /\ log[yes].id = log[g].ask
      /\ log[yes].outcome = "allowed-once" /\ log[yes].by = "answerer"
      /\ log[g].key = log[log[d].id].key /\ log[g].key # Unkeyed
      /\ \A i \in g..d : log[i].kind \notin {"policy", "authority", "endSeed"}
      /\ \A i \in At(log, {"revoked"}) : log[i].id = g => d < i

(* What a surface shows as open is what this process awaits: no crash and   *)
(* no boundary leaves a prompt nobody is behind, and none is answered away. *)
PromptsAreAwaited == openApprovals(log) = awaiting

(* A child is consulted about nothing, and consents to nothing.             *)
ChildAsksNobody ==
  delegated => /\ awaiting = {} /\ At(log, {"granted"}) = {}
               /\ \A d \in At(log, {"decided"}) : log[d].outcome # "allowed-once"

(* An open ask has somebody behind it: this process awaits it, and a child's*)
(* session has none.                                                        *)
AsksReachAPerson == PromptsAreAwaited /\ ChildAsksNobody
=============================================================================
