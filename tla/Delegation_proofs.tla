-------------------------- MODULE Delegation_proofs --------------------------
(***************************************************************************)
(* That no child is ever wider than its parent was at the delegation, for  *)
(* any number of sessions in any chain, any rows, hosts and deployments.   *)
(*                                                                         *)
(* The property is about folds of a live session's log, so it is not       *)
(* inductive.  What is: every record of a child's log is within what was   *)
(* held, the first of them is its ceiling, and it asks nobody (Within);    *)
(* what was captured before the awaits is within it too (CaptureInv).      *)
(* That the seam never writes what the authority invariant refuses needs   *)
(* the shape of the whole log instead (ChildShape, OwnShape): where the    *)
(* records that claim a delegation may stand.                              *)
(***************************************************************************)
EXTENDS Delegation, SequenceTheorems, WellFoundedInduction, TLAPS

Reason == {"initial", "resume", "change", "delegation"}
Modes == [kind : {"mode"}, mode : Mode, enforcement : Full..None, reason : Reason]
Acceptances == [kind : {"accepts"}, accepts : Full..None, mode : Mode, reason : Reason]
Policies == [kind : {"policy"}, policy : {"ask", "never"}, reason : Reason]
AnyRecord == Modes \union Acceptances \union Policies

Authority == [mode : Mode, accepts : Full..None]
Ceiling == [mode : Mode, accepts : [Mode -> Full..None]]

TypeInv ==
  /\ host \in Host
  /\ log \in [Session -> Seq(AnyRecord)]
  /\ up \in [Session -> Session \union {Nobody}]
  /\ phase \in [Session -> {"absent", "setup", "live", "stored", "lost"}]
  /\ taken \in [Session -> Authority]
  /\ held \in [Session -> Ceiling]
  /\ asking \in [by : Session \union {Nobody}, mode : Mode]

(* A child's log: opened by the delegation, every record within what its    *)
(* parent held, and no policy that asks.                                    *)
Within(l, top) ==
  /\ l # <<>> => l[1].kind = "mode" /\ l[1].reason = "delegation"
  /\ \A i \in DOMAIN l :
       /\ l[i].kind = "mode" => l[i].mode <= top.mode
       /\ l[i].kind = "accepts" => l[i].accepts <= top.accepts[l[i].mode]
       /\ l[i].kind = "policy" => l[i].policy = "never"

CaptureInv(s) ==
  phase[s] = "setup" => /\ taken[s].mode <= held[s].mode
                        /\ taken[s].accepts <= held[s].accepts[taken[s].mode]

ChildInv(s) ==
  /\ phase[s] = "absent" => up[s] = Nobody
  /\ phase[s] = "setup" => Child(s)
  /\ Child(s) => /\ CaptureInv(s)
                 /\ phase[s] \in {"live", "stored"} => Within(log[s], held[s])
                 /\ phase[s] = "live" => log[s] # <<>> /\ At(log[s], "policy") # {}

(* Nobody is asked on behalf of a child.                                    *)
AskInv == asking = NoCall \/ (phase[asking.by] = "live" /\ ~Child(asking.by))

IInv == TypeInv /\ AskInv /\ \A s \in Session : ChildInv(s)

-----------------------------------------------------------------------------
(* A set of places in a log that is not empty has a last one: the folds     *)
(* that ask for the last record of a kind are well defined.                 *)
LEMMA HasLast ==
  ASSUME NEW n \in Nat, NEW S \in SUBSET (1..n), S # {}
  PROVE  \E i \in S : \A j \in S : j <= i
<1> DEFINE T == {k \in Nat : n - k \in S}
<1>1. \A i \in S : i \in Int /\ n - i \in Nat /\ n - (n - i) = i
  OBVIOUS
<1>2. T \subseteq Nat /\ T # {}
  <2> PICK i \in S : TRUE
    OBVIOUS
  <2> n - i \in T
    BY <1>1
  <2> QED
    OBVIOUS
<1>3. PICK x \in T : \A y \in T : <<y, x>> \notin OpToRel(<, Nat)
  BY <1>2, WFMin, NatLessThanWellFounded
<1>4. \A y \in T : ~(y < x)
  BY <1>2, <1>3 DEF OpToRel
<1>5. n - x \in S /\ x \in Nat
  BY <1>3
<1>6. \A j \in S : n - j \in T
  BY <1>1
<1>7. \A j \in S : j <= n - x
  <2> SUFFICES ASSUME NEW j \in S PROVE j <= n - x
    OBVIOUS
  <2>1. ~(n - j < x)
    BY <1>4, <1>6
  <2> QED
    BY <2>1, <1>1, <1>5
<1> QED
  BY <1>5, <1>7

-----------------------------------------------------------------------------
(* The folds.                                                               *)

LEMMA LastIsLast ==
  ASSUME NEW n \in Nat, NEW S \in SUBSET (1..n), S # {}
  PROVE  Last(S) \in S /\ \A j \in S : j <= Last(S)
BY HasLast DEF Last

LEMMA AtIsPlaces ==
  ASSUME NEW l \in Seq(AnyRecord), NEW kind
  PROVE  /\ At(l, kind) \in SUBSET (1..Len(l)) /\ Len(l) \in Nat
         /\ \A i \in At(l, kind) : l[i] \in AnyRecord /\ l[i].kind = kind
BY DEF At

LEMMA HostTypes ==
  ASSUME NEW h \in Host
  PROVE  h.enforces \in Full..None /\ h.mode \in Mode /\ h.accepts \in Full..None
BY LevelsRank, HostsRank

LEMMA RecordTypes ==
  ASSUME NEW m \in Mode, NEW e \in Full..None, NEW r \in Reason
  PROVE  /\ Stamp(m, e, r) \in Modes /\ Acceptance(e, m, r) \in Acceptances
         /\ Policy("ask", r) \in Policies /\ Policy("never", r) \in Policies
BY DEF Stamp, Acceptance, Policy, Modes, Acceptances, Policies

(* A record of one kind has the fields of that kind.                        *)
LEMMA KindOfRecord ==
  ASSUME NEW e \in AnyRecord
  PROVE  /\ e.kind = "mode" => e \in Modes
         /\ e.kind = "accepts" => e \in Acceptances
         /\ e.kind = "policy" => e \in Policies
BY DEF AnyRecord, Modes, Acceptances, Policies

LEMMA ModeOfType ==
  ASSUME NEW l \in Seq(AnyRecord), NEW h \in Host
  PROVE  /\ ModeOf(l, h) \in Mode
         /\ Stamped(l) => \E i \in DOMAIN l : l[i].kind = "mode" /\ ModeOf(l, h) = l[i].mode
<1>1. CASE Stamped(l)
  <2> DEFINE i == Last(At(l, "mode"))
  <2>1. i \in At(l, "mode")
    BY <1>1, AtIsPlaces, LastIsLast DEF Stamped
  <2>2. l[i] \in Modes
    BY <2>1, AtIsPlaces, KindOfRecord
  <2> QED
    BY <1>1, <2>1, <2>2 DEF ModeOf, lastSandboxStamp, Modes, At
<1>2. CASE ~Stamped(l)
  BY <1>2, HostTypes DEF ModeOf
<1> QED
  BY <1>1, <1>2

(* What a session accepts is a rank; a child's is its last record's, or     *)
(* strict.                                                                  *)
LEMMA AcceptsForType ==
  ASSUME NEW s \in Session, NEW m \in Mode, log[s] \in Seq(AnyRecord), host \in Host
  PROVE  /\ acceptsFor(s, m) \in Full..None
         /\ Child(s) => \/ acceptsFor(s, m) = Full
                        \/ \E i \in DOMAIN log[s] : /\ log[s][i].kind = "accepts"
                                                     /\ log[s][i].mode = m
                                                     /\ acceptsFor(s, m) = log[s][i].accepts
<1> DEFINE R == Recorded(log[s], m)
<1>1. CASE R # {}
  <2>1. R \in SUBSET (1..Len(log[s])) /\ Len(log[s]) \in Nat
    BY AtIsPlaces DEF Recorded
  <2>2. Last(R) \in R
    BY <1>1, <2>1, LastIsLast
  <2>3. log[s][Last(R)] \in Acceptances
    BY <2>2, AtIsPlaces, KindOfRecord DEF Recorded
  <2>4. acceptsFor(s, m) = log[s][Last(R)].accepts
    BY <1>1 DEF acceptsFor, ColdAccepts
  <2> QED
    BY <2>1, <2>2, <2>3, <2>4 DEF Acceptances, Recorded, At
<1>2. CASE R = {}
  BY <1>2, HostTypes DEF acceptsFor, Child, Full, None
<1> QED
  BY <1>1, <1>2

(* A log opened by a delegation has its first record for a ceiling.         *)
LEMMA CeilingIsFirst ==
  ASSUME NEW l \in Seq(AnyRecord), l # <<>>, l[1].kind = "mode", l[1].reason = "delegation"
  PROVE  DelegatedBy(l, "mode") /\ delegationCeiling(l) = l[1].mode
<1>1. 1 \in At(l, "mode") /\ \A i \in At(l, "mode") : i \in Nat /\ 1 <= i
  BY DEF At
<1>2. First(At(l, "mode")) = 1
  BY <1>1 DEF First
<1> QED
  BY <1>1, <1>2 DEF DelegatedBy, delegationCeiling

(* A child asks nobody: whatever record of its policy is the last.          *)
LEMMA ChildNeverAsks ==
  ASSUME NEW l \in Seq(AnyRecord), NEW top, Within(l, top), At(l, "policy") # {}
  PROVE  l[Last(At(l, "policy"))].policy = "never"
<1>1. Last(At(l, "policy")) \in At(l, "policy")
  BY AtIsPlaces, LastIsLast
<1> QED
  BY <1>1 DEF Within, At

-----------------------------------------------------------------------------
(* What the seam does to a log.                                             *)

LEMMA StampTypes ==
  ASSUME NEW l \in Seq(AnyRecord), NEW h \in Host, NEW child \in BOOLEAN, NEW m \in Mode,
         NEW r \in Reason
  PROVE  stampAcceptance(l, h, child, m, r) \in Seq(AnyRecord)
<1> DEFINE due(c) == IF Recorded(l, c) = {} THEN <<Acceptance(h.accepts, c, r)>> ELSE <<>>
<1>1. \A c \in Confinable : due(c) \in Seq(AnyRecord)
  <2> SUFFICES ASSUME NEW c \in Confinable PROVE due(c) \in Seq(AnyRecord)
    OBVIOUS
  <2>1. Acceptance(h.accepts, c, r) \in AnyRecord
    BY HostTypes, RecordTypes DEF Confinable, Mode, AnyRecord
  <2> QED
    BY <2>1
<1>2. ReadOnly \in Confinable /\ WorkspaceWrite \in Confinable
  BY DEF Confinable
<1> HIDE DEF due
<1>3. /\ l \o due(WorkspaceWrite) \o due(ReadOnly) \in Seq(AnyRecord)
      /\ l \o due(ReadOnly) \o due(WorkspaceWrite) \in Seq(AnyRecord)
  BY <1>1, <1>2, ConcatProperties
<1> QED
  BY <1>3 DEF stampAcceptance, due

LEMMA RecordTyped ==
  ASSUME NEW l \in Seq(AnyRecord), NEW h \in Host, NEW child \in BOOLEAN, NEW m \in Mode
  PROVE  Record(l, h, child, m) \in Seq(AnyRecord)
<1> DEFINE e == enforcementFor(h, m)
<1>1. e \in Full..None
  BY HostTypes DEF enforcementFor, Full, None
<1>2. \A r \in Reason : Append(l, Stamp(m, e, r)) \in Seq(AnyRecord)
  BY <1>1, RecordTypes DEF AnyRecord
<1>3. \A r \in Reason : stampAcceptance(Append(l, Stamp(m, e, r)), h, child, m, r) \in Seq(AnyRecord)
  BY <1>2, StampTypes
<1>4. stampAcceptance(l, h, child, m, "resume") \in Seq(AnyRecord)
  BY StampTypes DEF Reason
<1>5. {"initial", "resume", "change"} \subseteq Reason
  BY DEF Reason
<1> QED
  BY <1>3, <1>4, <1>5 DEF Record

LEMMA CreatedTyped ==
  ASSUME NEW l \in Seq(AnyRecord), NEW h \in Host, NEW child \in BOOLEAN
  PROVE  Created(l, h, child) \in Seq(AnyRecord)
<1> DEFINE sandboxed == Record(l, h, child, ModeOf(l, h))
<1>1. sandboxed \in Seq(AnyRecord)
  BY ModeOfType, RecordTyped
<1>2. Policy("ask", "initial") \in AnyRecord
  BY RecordTypes DEF AnyRecord, Reason, Mode, Full, None
<1> QED
  BY <1>1, <1>2 DEF Created

(* A child's log grows by stamps no wider than its ceiling, and keeps what  *)
(* it has: its policy is recorded and its acceptance is pinned.             *)
LEMMA ChildRecord ==
  ASSUME NEW l \in Seq(AnyRecord), NEW top \in Ceiling, l # <<>>, Within(l, top),
         NEW h \in Host, NEW m \in Mode, m <= top.mode
  PROVE  /\ Record(l, h, TRUE, m) # <<>>
         /\ Within(Record(l, h, TRUE, m), top)
         /\ At(l, "policy") # {} => At(Record(l, h, TRUE, m), "policy") # {}
<1> DEFINE e == enforcementFor(h, m)
<1>1. \E r \in Reason : \/ Record(l, h, TRUE, m) = l
                       \/ Record(l, h, TRUE, m) = Append(l, Stamp(m, e, r))
  BY DEF Record, stampAcceptance, Reason
<1>2. ASSUME NEW r \in Reason
      PROVE  LET n == Append(l, Stamp(m, e, r))
             IN  /\ n # <<>> /\ Within(n, top)
                 /\ At(l, "policy") # {} => At(n, "policy") # {}
  <2> DEFINE x == Stamp(m, e, r)
             n == Append(l, x)
  <2>1. x.kind = "mode" /\ x.mode = m
    BY DEF Stamp
  <2>2. Len(l) \in Nat /\ Len(l) >= 1 /\ DOMAIN l = 1..Len(l) /\ DOMAIN n = 1..(Len(l) + 1)
    OBVIOUS
  <2>3. (\A i \in 1..Len(l) : n[i] = l[i]) /\ n[Len(l) + 1] = x
    BY <2>2
  <2> HIDE DEF x, n
  <2>4. Within(n, top)
    <3>1. n[1].kind = "mode" /\ n[1].reason = "delegation"
      BY <2>2, <2>3 DEF Within
    <3>2. ASSUME NEW i \in DOMAIN n
          PROVE  /\ n[i].kind = "mode" => n[i].mode <= top.mode
                 /\ n[i].kind = "accepts" => n[i].accepts <= top.accepts[n[i].mode]
                 /\ n[i].kind = "policy" => n[i].policy = "never"
      <4>1. CASE i \in 1..Len(l)
        BY <4>1, <2>2, <2>3 DEF Within
      <4>2. CASE i = Len(l) + 1
        BY <4>2, <2>1, <2>3
      <4> QED
        BY <4>1, <4>2, <2>2
    <3> QED
      BY <3>1, <3>2 DEF Within
  <2>5. At(l, "policy") \subseteq At(n, "policy")
    BY <2>2, <2>3 DEF At
  <2>6. n # <<>>
    BY <2>2 DEF n
  <2> QED
    BY <2>4, <2>5, <2>6 DEF n, x
<1> QED
  BY <1>1, <1>2

(* Opening or taking up a child's session: its policy is recorded already.  *)
LEMMA ChildCreated ==
  ASSUME NEW l \in Seq(AnyRecord), NEW top \in Ceiling, l # <<>>, Within(l, top),
         NEW h \in Host, At(l, "policy") # {}
  PROVE  /\ Created(l, h, TRUE) # <<>>
         /\ Within(Created(l, h, TRUE), top)
         /\ At(Created(l, h, TRUE), "policy") # {}
<1> DEFINE m == ModeOf(l, h)
<1>1. Stamped(l)
  <2>1. 1 \in At(l, "mode")
    BY DEF Within, At
  <2> QED
    BY <2>1 DEF Stamped
<1>2. m \in Mode /\ m <= top.mode
  BY <1>1, ModeOfType DEF Within
<1>3. /\ Record(l, h, TRUE, m) # <<>>
      /\ Within(Record(l, h, TRUE, m), top)
      /\ At(Record(l, h, TRUE, m), "policy") # {}
  BY <1>2, ChildRecord
<1> QED
  BY <1>3 DEF Created

(* What the delegation's setup writes is within what was captured.          *)
LEMMA ChildOpening ==
  ASSUME NEW h \in Host, NEW m \in Mode, NEW a \in Full..None, NEW top \in Ceiling,
         m <= top.mode, a <= top.accepts[m]
  PROVE  /\ Delegated(h, m, a) \in Seq(AnyRecord) /\ Delegated(h, m, a) # <<>>
         /\ Within(Delegated(h, m, a), top)
         /\ At(Delegated(h, m, a), "policy") # {}
<1> DEFINE l == Delegated(h, m, a)
           x == Stamp(m, enforcementFor(h, m), "delegation")
           y == Acceptance(a, m, "delegation")
           z == Policy("never", "delegation")
<1>1. x \in AnyRecord /\ y \in AnyRecord /\ z \in AnyRecord
  <2>1. enforcementFor(h, m) \in Full..None
    BY HostTypes DEF enforcementFor, Full, None
  <2> QED
    BY <2>1, RecordTypes DEF AnyRecord, Reason
<1>2. /\ x.kind = "mode" /\ x.mode = m /\ x.reason = "delegation"
      /\ y.kind = "accepts" /\ y.mode = m /\ y.accepts = a
      /\ z.kind = "policy" /\ z.policy = "never"
  BY DEF Stamp, Acceptance, Policy
<1> DEFINE pin == IF a = Full /\ h.accepts = Full THEN <<>> ELSE <<y>>
           u == <<x>> \o pin
<1>3. l = u \o <<z>>
  BY DEF Delegated
<1> HIDE DEF l, x, y, z
<1>4. pin \in Seq(AnyRecord) /\ \A i \in 1..Len(pin) : pin[i] = y
  BY <1>1
<1> HIDE DEF pin
<1>5. <<x>> \in Seq(AnyRecord) /\ Len(<<x>>) = 1 /\ <<x>>[1] = x
      /\ <<z>> \in Seq(AnyRecord) /\ Len(<<z>>) = 1 /\ <<z>>[1] = z
  BY <1>1
<1>6. u \in Seq(AnyRecord) /\ Len(u) = 1 + Len(pin) /\ Len(pin) \in Nat /\ u[1] = x
      /\ \A i \in 2..Len(u) : u[i] = y
  BY <1>4, <1>5, ConcatProperties
<1> HIDE DEF u
<1>7. l \in Seq(AnyRecord) /\ Len(l) = Len(u) + 1 /\ Len(u) \in Nat /\ Len(u) >= 1
      /\ (\A i \in 1..Len(u) : l[i] = u[i]) /\ l[Len(l)] = z
  BY <1>3, <1>5, <1>6, ConcatProperties
<1>8. l[1] = x /\ Len(l) >= 2 /\ Len(l) \in Nat /\ \A i \in 1..Len(l) : l[i] \in {x, y, z}
  BY <1>6, <1>7
<1>9. Within(l, top) /\ l # <<>>
  BY <1>2, <1>7, <1>8 DEF Within
<1>10. Len(l) \in At(l, "policy")
  BY <1>2, <1>7, <1>8 DEF At
<1> QED
  BY <1>7, <1>9, <1>10 DEF l

LEMMA OpeningTyped ==
  ASSUME NEW h \in Host, NEW m \in Mode, NEW a \in Full..None
  PROVE  Delegated(h, m, a) \in Seq(AnyRecord)
<1> DEFINE wide == [mode |-> DangerFullAccess, accepts |-> [k \in Mode |-> None]]
<1>1. wide \in Ceiling /\ m <= wide.mode /\ a <= wide.accepts[m]
  BY DEF Ceiling, Mode, ReadOnly, WorkspaceWrite, DangerFullAccess, Full, None
<1> QED
  BY <1>1, ChildOpening

(* A prefix of a child's log is a child's log.                              *)
LEMMA PrefixWithin ==
  ASSUME NEW l \in Seq(AnyRecord), NEW top, Within(l, top), NEW k \in 0..Len(l)
  PROVE  SubSeq(l, 1, k) \in Seq(AnyRecord) /\ Within(SubSeq(l, 1, k), top)
<1> DEFINE n == SubSeq(l, 1, k)
<1>1. n \in Seq(AnyRecord) /\ Len(n) = k /\ \A i \in 1..k : n[i] = l[i]
  BY SubSeqProperties
<1>2. n # <<>> => 1 \in 1..k /\ l # <<>>
  BY <1>1
<1> HIDE DEF n
<1>3. n # <<>> => n[1].kind = "mode" /\ n[1].reason = "delegation"
  BY <1>1, <1>2 DEF Within
<1>4. DOMAIN n \subseteq DOMAIN l /\ \A i \in DOMAIN n : n[i] = l[i]
  BY <1>1
<1>5. Within(n, top)
  BY <1>3, <1>4 DEF Within
<1> QED
  BY <1>1, <1>5 DEF n

LEMMA PrefixTyped ==
  ASSUME NEW l \in Seq(AnyRecord), NEW k \in 0..Len(l)
  PROVE  SubSeq(l, 1, k) \in Seq(AnyRecord)
BY SubSeqProperties

-----------------------------------------------------------------------------
LEMMA InitIInv == Init => IInv
<1> SUFFICES ASSUME Init PROVE IInv
  OBVIOUS
<1>1. <<>> \in Seq(AnyRecord)
  OBVIOUS
<1>2. NothingTaken \in Authority /\ Nothing \in Ceiling /\ NoCall.by = Nobody /\ NoCall.mode \in Mode
      /\ NoCall \in [by : Session \union {Nobody}, mode : Mode]
  BY DEF NothingTaken, Authority, Nothing, Ceiling, NoCall, Mode, Full, None
<1>3. TypeInv
  BY <1>1, <1>2 DEF Init, TypeInv
<1> QED
  BY <1>3 DEF Init, IInv, AskInv, ChildInv, Child

(* One lemma for each action that touches a log or an authority.            *)
LEMMA StartKeeps == ASSUME IInv, NEW s \in Session, Start(s) PROVE IInv'
<1> USE DEF IInv, TypeInv
<1>1. Created(<<>>, host, FALSE) \in Seq(AnyRecord)
  <2>1. <<>> \in Seq(AnyRecord)
    OBVIOUS
  <2> QED
    BY <2>1, CreatedTyped
<1>2. TypeInv'
  BY <1>1 DEF Start
<1>3. AskInv'
  BY DEF Start, AskInv, Is, Child
<1>4. ASSUME NEW t \in Session PROVE ChildInv(t)'
  BY DEF Start, ChildInv, CaptureInv, Child, Is
<1> QED
  BY <1>2, <1>3, <1>4

LEMMA DelegateKeeps ==
  ASSUME IInv, NEW p \in Session, NEW s \in Session, NEW row \in Row, Delegate(p, s, row)
  PROVE  IInv'
<1> USE DEF IInv, TypeInv
<1> DEFINE m == Lesser(ModeOf(log[p], host), row.mode)
           a == Lesser(acceptsFor(p, m), row.accepts)
           h == [mode |-> ModeOf(log[p], host), accepts |-> [k \in Mode |-> acceptsFor(p, k)]]
<1>1. ModeOf(log[p], host) \in Mode /\ row.mode \in Mode /\ row.accepts \in Full..None
  BY ModeOfType, RowsCap
<1>2. m \in Mode /\ m <= ModeOf(log[p], host)
  BY <1>1 DEF Lesser, Mode, ReadOnly, WorkspaceWrite, DangerFullAccess
<1>3. \A k \in Mode : acceptsFor(p, k) \in Full..None
  BY AcceptsForType
<1>4. a \in Full..None /\ a <= acceptsFor(p, m)
  BY <1>1, <1>2, <1>3 DEF Lesser, Full, None
<1>5. h \in Ceiling
  BY <1>1, <1>3 DEF Ceiling
<1>6. captureAuthority(p, row) = [mode |-> m, accepts |-> a]
  BY DEF captureAuthority
<1>7. h.mode = ModeOf(log[p], host) /\ h.accepts[m] = acceptsFor(p, m)
  BY <1>2
<1>8. taken' = [taken EXCEPT ![s] = [mode |-> m, accepts |-> a]] /\ held' = [held EXCEPT ![s] = h]
  BY <1>6 DEF Delegate
<1> HIDE DEF m, a, h
<1>9. [mode |-> m, accepts |-> a] \in Authority
  BY <1>2, <1>4 DEF Authority
<1>10. TypeInv'
  <2>1. taken' \in [Session -> Authority] /\ held' \in [Session -> Ceiling]
    BY <1>5, <1>8, <1>9
  <2>2. up' = [up EXCEPT ![s] = p] /\ phase' = [phase EXCEPT ![s] = "setup"]
    BY DEF Delegate
  <2>3. UNCHANGED <<log, asking, host>>
    BY DEF Delegate
  <2> QED
    BY <2>1, <2>2, <2>3
<1>11. AskInv'
  BY DEF Delegate, AskInv, Is, Child
<1>12. ASSUME NEW t \in Session PROVE ChildInv(t)'
  <2>1. CASE t = s
    <3>1. up'[s] = p /\ phase'[s] = "setup" /\ taken'[s] = [mode |-> m, accepts |-> a] /\ held'[s] = h
      BY <1>8 DEF Delegate
    <3>2. Child(s)'
      BY <3>1, NobodyIsNoSession DEF Child
    <3>3. CaptureInv(s)'
      BY <3>1, <1>2, <1>4, <1>7 DEF CaptureInv
    <3> QED
      BY <2>1, <3>1, <3>2, <3>3 DEF ChildInv
  <2>2. CASE t # s
    BY <2>2, <1>8 DEF Delegate, ChildInv, CaptureInv, Child
  <2> QED
    BY <2>1, <2>2
<1> QED
  BY <1>10, <1>11, <1>12

LEMMA OpenChildKeeps == ASSUME IInv, NEW s \in Session, OpenChild(s) PROVE IInv'
<1> USE DEF IInv, TypeInv
<1> DEFINE l == Delegated(host, taken[s].mode, taken[s].accepts)
           n == Created(l, host, TRUE)
<1>1. taken[s].mode \in Mode /\ taken[s].accepts \in Full..None /\ held[s] \in Ceiling
  BY DEF Authority
<1>2. l \in Seq(AnyRecord)
  BY <1>1, OpeningTyped
<1>3. n \in Seq(AnyRecord)
  BY <1>2, CreatedTyped
<1>4. Child(s) => Within(n, held[s]) /\ n # <<>> /\ At(n, "policy") # {}
  <2> SUFFICES ASSUME Child(s) PROVE Within(n, held[s]) /\ n # <<>> /\ At(n, "policy") # {}
    OBVIOUS
  <2>1. taken[s].mode <= held[s].mode /\ taken[s].accepts <= held[s].accepts[taken[s].mode]
    BY DEF OpenChild, Is, ChildInv, CaptureInv
  <2>2. l # <<>> /\ Within(l, held[s]) /\ At(l, "policy") # {}
    BY <1>1, <2>1, ChildOpening
  <2> QED
    BY <1>1, <1>2, <2>2, ChildCreated
<1>5. log' = [log EXCEPT ![s] = n]
  BY DEF OpenChild
<1> HIDE DEF l, n
<1>6. NothingTaken \in Authority
  BY DEF NothingTaken, Authority, Mode, Full, None
<1>7. TypeInv'
  BY <1>3, <1>5, <1>6 DEF OpenChild
<1>8. AskInv'
  BY DEF OpenChild, AskInv, Is, Child
<1>9. ASSUME NEW t \in Session PROVE ChildInv(t)'
  BY <1>4, <1>5 DEF OpenChild, ChildInv, CaptureInv, Child, Is
<1> QED
  BY <1>7, <1>8, <1>9

LEMMA SetModeKeeps ==
  ASSUME IInv, NEW s \in Session, NEW m \in Mode, SetMode(s, m) PROVE IInv'
<1> USE DEF IInv, TypeInv
<1> DEFINE n == Record(log[s], host, Child(s), m)
<1>1. Child(s) \in BOOLEAN
  BY DEF Child
<1>2. n \in Seq(AnyRecord)
  BY <1>1, RecordTyped
<1>3. Child(s) => Within(n, held[s]) /\ n # <<>> /\ At(n, "policy") # {}
  <2> SUFFICES ASSUME Child(s) PROVE Within(n, held[s]) /\ n # <<>> /\ At(n, "policy") # {}
    OBVIOUS
  <2>1. Within(log[s], held[s]) /\ log[s] # <<>> /\ At(log[s], "policy") # {}
    BY DEF SetMode, Is, ChildInv
  <2>2. log[s][1].kind = "mode" /\ log[s][1].reason = "delegation" /\ log[s][1].mode <= held[s].mode
    BY <2>1 DEF Within
  <2>3. log[s][1] \in Modes
    BY <2>1, <2>2, KindOfRecord
  <2>4. m <= log[s][1].mode
    BY <2>1, <2>2, CeilingIsFirst DEF SetMode
  <2>5. m <= held[s].mode
    <3>1. log[s][1].mode \in Mode
      BY <2>3 DEF Modes
    <3>2. held[s].mode \in Mode
      BY DEF Ceiling
    <3>3. \A x, y, z \in Mode : x <= y /\ y <= z => x <= z
      BY DEF Mode, ReadOnly, WorkspaceWrite, DangerFullAccess
    <3> QED
      BY <2>2, <2>4, <3>1, <3>2, <3>3
  <2>6. Child(s) = TRUE
    BY DEF Child
  <2> QED
    BY <2>1, <2>5, <2>6, ChildRecord
<1>4. log' = [log EXCEPT ![s] = n]
  BY DEF SetMode
<1> HIDE DEF n
<1>5. TypeInv'
  BY <1>2, <1>4 DEF SetMode
<1>6. AskInv'
  BY DEF SetMode, AskInv, Child
<1>7. ASSUME NEW t \in Session PROVE ChildInv(t)'
  BY <1>3, <1>4 DEF SetMode, ChildInv, CaptureInv, Child, Is
<1> QED
  BY <1>5, <1>6, <1>7

LEMMA SetAcceptanceKeeps ==
  ASSUME IInv, NEW s \in Session, NEW a \in Level, NEW m \in Confinable, SetAcceptance(s, a, m)
  PROVE  IInv'
<1> USE DEF IInv, TypeInv
<1>1. Append(log[s], Acceptance(a, m, "change")) \in Seq(AnyRecord)
  <2>1. Acceptance(a, m, "change") \in Acceptances
    BY LevelsRank, RecordTypes DEF Confinable, Mode, Reason
  <2> QED
    BY <2>1 DEF AnyRecord
<1>2. TypeInv'
  BY <1>1 DEF SetAcceptance
<1>3. AskInv'
  BY DEF SetAcceptance, AskInv, Child
<1>4. ASSUME NEW t \in Session PROVE ChildInv(t)'
  BY DEF SetAcceptance, ChildInv, CaptureInv, Child, Is
<1> QED
  BY <1>2, <1>3, <1>4

(* The ask of a wider command: a child's policy never asks.                 *)
LEMMA EscalateKeeps ==
  ASSUME IInv, NEW s \in Session, NEW m \in Mode, Escalate(s, m) PROVE IInv'
<1> USE DEF IInv, TypeInv
<1>1. ~Child(s)
  <2> SUFFICES ASSUME Child(s) PROVE FALSE
    OBVIOUS
  <2>1. Within(log[s], held[s]) /\ At(log[s], "policy") # {}
    BY DEF Escalate, Is, ChildInv
  <2>2. log[s][Last(At(log[s], "policy"))].policy = "never"
    BY <2>1, ChildNeverAsks
  <2> QED
    BY <2>2 DEF Escalate
<1>2. TypeInv'
  BY DEF Escalate
<1>3. AskInv'
  BY <1>1 DEF Escalate, AskInv, Child, Is
<1>4. ASSUME NEW t \in Session PROVE ChildInv(t)'
  BY DEF Escalate, ChildInv, CaptureInv, Child
<1> QED
  BY <1>2, <1>3, <1>4

LEMMA NoCallType == NoCall \in [by : Session \union {Nobody}, mode : Mode]
BY DEF NoCall, Mode

LEMMA AllowKeeps == ASSUME IInv, NEW s \in Session, Allow(s) PROVE IInv'
BY NoCallType DEF IInv, TypeInv, Allow, AskInv, ChildInv, CaptureInv, Child

LEMMA RestartKeeps ==
  ASSUME IInv, NEW h \in Host, NEW s \in Session, NEW k \in 0..Len(log[s]), Restart(h, s, k)
  PROVE  IInv'
<1> USE DEF IInv, TypeInv
<1> DEFINE n == SubSeq(log[s], 1, k)
<1>1. n \in Seq(AnyRecord)
  BY PrefixTyped
<1>2. ASSUME Within(log[s], held[s]) PROVE Within(n, held[s])
  BY <1>2, PrefixWithin
<1>3. log' = [log EXCEPT ![s] = n]
  BY DEF Restart
<1> HIDE DEF n
<1>4. TypeInv'
  BY <1>1, <1>3, NoCallType DEF Restart
<1>5. AskInv'
  BY DEF Restart, AskInv
<1>6. ASSUME NEW t \in Session PROVE ChildInv(t)'
  <2>1. /\ up'[t] = up[t] /\ held'[t] = held[t] /\ taken'[t] = taken[t]
        /\ phase'[t] \notin {"setup", "live"} /\ (phase'[t] = "absent" => phase[t] = "absent")
        /\ (phase'[t] = "stored" => phase[t] \in {"live", "stored"})
    BY DEF Restart, Is
  <2>2. Child(t) /\ phase'[t] = "stored" => Within(log'[t], held[t])
    BY <1>2, <1>3, <2>1 DEF ChildInv
  <2> QED
    BY <2>1, <2>2 DEF ChildInv, CaptureInv, Child
<1> QED
  BY <1>4, <1>5, <1>6

LEMMA DelegationOpens ==
  ASSUME NEW l \in Seq(AnyRecord), Fenced(l, TRUE)
  PROVE  l # <<>> /\ At(l, "policy") # {}
BY DEF Fenced, DelegatedBy, At

LEMMA ResumeKeeps == ASSUME IInv, NEW s \in Session, Resume(s) PROVE IInv'
<1> USE DEF IInv, TypeInv
<1> DEFINE n == Created(log[s], host, Child(s))
<1>1. n \in Seq(AnyRecord)
  BY CreatedTyped DEF Child
<1>2. Child(s) => Within(n, held[s]) /\ n # <<>> /\ At(n, "policy") # {}
  <2> SUFFICES ASSUME Child(s) PROVE Within(n, held[s]) /\ n # <<>> /\ At(n, "policy") # {}
    OBVIOUS
  <2>1. Within(log[s], held[s])
    BY DEF Resume, Is, ChildInv
  <2>2. Child(s) = TRUE
    BY DEF Child
  <2>3. log[s] # <<>> /\ At(log[s], "policy") # {}
    BY <2>2, DelegationOpens DEF Resume
  <2> QED
    BY <2>1, <2>2, <2>3, ChildCreated
<1>3. log' = [log EXCEPT ![s] = n]
  BY DEF Resume
<1> HIDE DEF n
<1>4. TypeInv'
  BY <1>1, <1>3 DEF Resume
<1>5. AskInv'
  BY DEF Resume, AskInv, Child, Is
<1>6. ASSUME NEW t \in Session PROVE ChildInv(t)'
  BY <1>2, <1>3 DEF Resume, ChildInv, CaptureInv, Child, Is
<1> QED
  BY <1>4, <1>5, <1>6

(* A fork of a child is a child of the same parent, on a prefix of its log. *)
LEMMA ForkKeeps ==
  ASSUME IInv, NEW s \in Session, NEW t \in Session, NEW k \in 0..Len(log[s]), Fork(s, t, k)
  PROVE  IInv'
<1> USE DEF IInv, TypeInv
<1> DEFINE l == SubSeq(log[s], 1, k)
           n == Created(l, host, Child(s))
<1>1. l \in Seq(AnyRecord)
  BY PrefixTyped
<1>2. n \in Seq(AnyRecord)
  BY <1>1, CreatedTyped DEF Child
<1>3. Child(s) => Within(n, held[s]) /\ n # <<>> /\ At(n, "policy") # {}
  <2> SUFFICES ASSUME Child(s) PROVE Within(n, held[s]) /\ n # <<>> /\ At(n, "policy") # {}
    OBVIOUS
  <2>1. Within(log[s], held[s])
    BY DEF Fork, ChildInv
  <2>2. Within(l, held[s])
    BY <2>1, PrefixWithin
  <2>3. Child(s) = TRUE
    BY DEF Child
  <2>4. l # <<>> /\ At(l, "policy") # {}
    BY <1>1, <2>3, DelegationOpens DEF Fork
  <2> QED
    BY <1>1, <2>2, <2>3, <2>4, ChildCreated
<1>4. log' = [log EXCEPT ![t] = n]
  BY DEF Fork
<1> HIDE DEF l, n
<1>5. TypeInv'
  BY <1>2, <1>4 DEF Fork
<1>6. AskInv'
  BY DEF Fork, AskInv, Child, Is
<1>7. ASSUME NEW x \in Session PROVE ChildInv(x)'
  <2>1. CASE x = t
    BY <1>3, <1>4, <2>1 DEF Fork, ChildInv, CaptureInv, Child, Is
  <2>2. CASE x # t
    BY <1>4, <2>2 DEF Fork, ChildInv, CaptureInv, Child
  <2> QED
    BY <2>1, <2>2
<1> QED
  BY <1>5, <1>6, <1>7

-----------------------------------------------------------------------------
LEMMA NextKeeps == IInv /\ [Next]_vars => IInv'
<1> SUFFICES ASSUME IInv, [Next]_vars PROVE IInv'
  OBVIOUS
<1>1. CASE Next
  BY <1>1, StartKeeps, DelegateKeeps, OpenChildKeeps, SetModeKeeps, SetAcceptanceKeeps,
     EscalateKeeps, AllowKeeps, RestartKeeps, ResumeKeeps, ForkKeeps DEF Next
<1>2. CASE UNCHANGED vars
  BY <1>2 DEF vars, IInv, TypeInv, AskInv, ChildInv, CaptureInv, Child
<1> QED
  BY <1>1, <1>2

(* The inductive invariant: every record of a child's log, and what is      *)
(* captured for a child not yet open, is within what its parent held.       *)
THEOREM Invariance == Spec => []IInv
<1> QED
  BY InitIInv, NextKeeps, PTL DEF Spec

(* Each live child within its parent, from the folds of a log all of whose  *)
(* records are.                                                             *)
LEMMA WithinIsNarrow == IInv => NeverWiderThanHeld
<1> SUFFICES ASSUME IInv, NEW s \in Session, Child(s), phase[s] = "live"
    PROVE  /\ ModeOf(log[s], host) <= held[s].mode
           /\ \A m \in Confinable : acceptsFor(s, m) <= held[s].accepts[m]
           /\ asking.by = s => asking.mode <= held[s].mode
  BY DEF NeverWiderThanHeld
<1> USE DEF IInv, TypeInv
<1>1. Within(log[s], held[s]) /\ log[s] # <<>>
  BY DEF ChildInv
<1>2. ModeOf(log[s], host) <= held[s].mode
  <2>1. 1 \in At(log[s], "mode")
    BY <1>1 DEF Within, At
  <2>2. Stamped(log[s])
    BY <2>1 DEF Stamped
  <2> QED
    BY <1>1, <2>2, ModeOfType DEF Within
<1>3. ASSUME NEW m \in Confinable PROVE acceptsFor(s, m) <= held[s].accepts[m]
  <2>1. m \in Mode
    BY DEF Confinable, Mode
  <2>2. held[s].accepts[m] \in Full..None
    BY <2>1 DEF Ceiling
  <2>3. CASE acceptsFor(s, m) = Full
    BY <2>2, <2>3 DEF Full, None
  <2>4. CASE \E i \in DOMAIN log[s] : /\ log[s][i].kind = "accepts" /\ log[s][i].mode = m
                                      /\ acceptsFor(s, m) = log[s][i].accepts
    BY <1>1, <2>4 DEF Within
  <2> QED
    BY <2>1, <2>3, <2>4, AcceptsForType
<1>4. asking.by = s => asking.mode <= held[s].mode
  <2>1. held[s].mode \in Mode
    BY DEF Ceiling
  <2> QED
    BY <2>1 DEF AskInv, NoCall, Mode, ReadOnly, WorkspaceWrite, DangerFullAccess
<1> QED
  BY <1>2, <1>3, <1>4

(* No child has, or asks to run a command with, more than its parent had    *)
(* when it delegated (captureAuthority and the child's setup, the switches, *)
(* the fences of resume and fork).                                          *)
THEOREM NeverWider == Spec => []NeverWiderThanHeld
<1> QED
  BY Invariance, WithinIsNarrow, PTL

(* Nobody is asked on behalf of a child, in any process.                    *)
THEOREM NobodyAskedForAChild == Spec => []AskInv
<1>1. IInv => AskInv
  BY DEF IInv
<1> QED
  BY <1>1, Invariance, PTL

-----------------------------------------------------------------------------
(* The log alone says what governs.  What makes it so is written whenever a *)
(* session goes live, and no later record takes it away.                    *)

StampedFor(l, h) ==
  Stamped(l) /\ lastSandboxStamp(l).enforcement = enforcementFor(h, lastSandboxStamp(l).mode)

AcceptanceRecorded(l, h) == h.accepts = Full \/ \A m \in Confinable : Recorded(l, m) # {}

GovernedInv(s) ==
  phase[s] = "live" => /\ StampedFor(log[s], host)
                       /\ ~Child(s) => AcceptanceRecorded(log[s], host)

LEMMA AppendPlaces ==
  ASSUME NEW l \in Seq(AnyRecord), NEW x \in AnyRecord, NEW kind
  PROVE  /\ At(Append(l, x), kind) = At(l, kind) \union (IF x.kind = kind THEN {Len(l) + 1} ELSE {})
         /\ Append(l, x)[Len(l) + 1] = x
         /\ \A i \in At(l, kind) : i \in 1..Len(l) /\ Append(l, x)[i] = l[i]
<1> DEFINE n == Append(l, x)
<1>1. /\ Len(l) \in Nat /\ DOMAIN l = 1..Len(l) /\ DOMAIN n = 1..(Len(l) + 1)
      /\ n[Len(l) + 1] = x /\ \A i \in 1..Len(l) : n[i] = l[i]
  OBVIOUS
<1> HIDE DEF n
<1>2. \A i : i \in 1..(Len(l) + 1) <=> (i \in 1..Len(l) \/ i = Len(l) + 1)
  BY <1>1
<1>3. At(n, kind) = At(l, kind) \union (IF x.kind = kind THEN {Len(l) + 1} ELSE {})
  BY <1>1, <1>2 DEF At
<1> QED
  BY <1>1, <1>3 DEF n, At

(* A record that is no stamp leaves the stamps; none takes an acceptance    *)
(* away.                                                                    *)
LEMMA AppendGoverned ==
  ASSUME NEW l \in Seq(AnyRecord), NEW x \in AnyRecord, NEW h, x.kind # "mode"
  PROVE  /\ StampedFor(l, h) => StampedFor(Append(l, x), h)
         /\ \A m : Recorded(l, m) # {} => Recorded(Append(l, x), m) # {}
<1> DEFINE n == Append(l, x)
<1>1. At(n, "mode") = At(l, "mode") /\ \A i \in At(l, "mode") : n[i] = l[i]
  <2>1. (IF x.kind = "mode" THEN {Len(l) + 1} ELSE {}) = {}
    OBVIOUS
  <2>2. At(n, "mode") = At(l, "mode") \union (IF x.kind = "mode" THEN {Len(l) + 1} ELSE {})
        /\ \A i \in At(l, "mode") : n[i] = l[i]
    BY AppendPlaces
  <2> QED
    BY <2>1, <2>2
<1>2. At(l, "accepts") \subseteq At(n, "accepts") /\ \A i \in At(l, "accepts") : n[i] = l[i]
  BY AppendPlaces
<1> HIDE DEF n
<1>3. ASSUME StampedFor(l, h) PROVE StampedFor(n, h)
  <2>1. Last(At(l, "mode")) \in At(l, "mode")
    BY <1>3, AtIsPlaces, LastIsLast DEF StampedFor, Stamped
  <2>2. lastSandboxStamp(n) = lastSandboxStamp(l) /\ Stamped(n)
    BY <1>1, <1>3, <2>1 DEF lastSandboxStamp, Stamped, StampedFor
  <2> QED
    BY <1>3, <2>2 DEF StampedFor
<1>4. \A m : Recorded(l, m) \subseteq Recorded(n, m)
  BY <1>2 DEF Recorded
<1> QED
  BY <1>3, <1>4 DEF n

(* A new stamp is the last.                                                 *)
LEMMA StampGoverns ==
  ASSUME NEW l \in Seq(AnyRecord), NEW h \in Host, NEW m \in Mode, NEW r \in Reason
  PROVE  /\ Append(l, Stamp(m, enforcementFor(h, m), r)) \in Seq(AnyRecord)
         /\ StampedFor(Append(l, Stamp(m, enforcementFor(h, m), r)), h)
<1> DEFINE x == Stamp(m, enforcementFor(h, m), r)
           n == Append(l, x)
<1>1. x \in AnyRecord
  <2>1. enforcementFor(h, m) \in Full..None
    BY HostTypes DEF enforcementFor, Full, None
  <2> QED
    BY <2>1, RecordTypes DEF AnyRecord
<1>2. x.kind = "mode" /\ x.mode = m /\ x.enforcement = enforcementFor(h, m)
  BY DEF Stamp
<1> HIDE DEF x
<1>3. n \in Seq(AnyRecord) /\ Len(l) \in Nat
  BY <1>1
<1>4. At(n, "mode") = At(l, "mode") \union {Len(l) + 1} /\ n[Len(l) + 1] = x
      /\ \A i \in At(l, "mode") : i \in 1..Len(l)
  BY <1>1, <1>2, AppendPlaces
<1> HIDE DEF n
<1>5. Last(At(n, "mode")) = Len(l) + 1
  <2>1. At(n, "mode") \in SUBSET (1..Len(n)) /\ Len(n) \in Nat
    BY <1>3, AtIsPlaces
  <2>2. Last(At(n, "mode")) \in At(n, "mode") /\ Len(l) + 1 <= Last(At(n, "mode"))
    BY <1>4, <2>1, LastIsLast
  <2>3. \A i \in 1..Len(l) : ~(Len(l) + 1 <= i)
    BY <1>3
  <2> QED
    BY <1>4, <2>2, <2>3
<1> QED
  BY <1>2, <1>3, <1>4, <1>5 DEF StampedFor, lastSandboxStamp, Stamped, n, x

(* stampAcceptance leaves the stamps and records what is owed.              *)
LEMMA AcceptanceGoverns ==
  ASSUME NEW l \in Seq(AnyRecord), NEW h \in Host, NEW child \in BOOLEAN, NEW m \in Mode,
         NEW r \in Reason, StampedFor(l, h)
  PROVE  LET n == stampAcceptance(l, h, child, m, r)
         IN  /\ n \in Seq(AnyRecord) /\ StampedFor(n, h)
             /\ ~child => AcceptanceRecorded(n, h)
(* What one of the two appends does, to any log that has what l recorded.   *)
<1>1. ASSUME NEW k \in Seq(AnyRecord), NEW c \in Confinable, StampedFor(k, h),
             \A x : Recorded(l, x) # {} => Recorded(k, x) # {}
      PROVE  LET n == k \o (IF Recorded(l, c) = {} THEN <<Acceptance(h.accepts, c, r)>> ELSE <<>>)
             IN  /\ n \in Seq(AnyRecord) /\ StampedFor(n, h)
                 /\ Recorded(n, c) # {}
                 /\ \A x : Recorded(k, x) # {} => Recorded(n, x) # {}
  <2> DEFINE x == Acceptance(h.accepts, c, r)
  <2>1. x \in AnyRecord /\ x.kind = "accepts" /\ x.mode = c
    <3>1. c \in Mode
      BY DEF Confinable, Mode
    <3>2. x \in AnyRecord
      BY <3>1, HostTypes, RecordTypes DEF AnyRecord
    <3> QED
      BY <3>2 DEF Acceptance
  <2> HIDE DEF x
  <2>2. k \o <<x>> = Append(k, x) /\ k \o <<>> = k
    BY <2>1, AppendIsConcat, ConcatEmptySeq
  <2>3. Append(k, x) \in Seq(AnyRecord) /\ StampedFor(Append(k, x), h)
        /\ \A y : Recorded(k, y) # {} => Recorded(Append(k, x), y) # {}
    BY <1>1, <2>1, AppendGoverned
  <2>4. Len(k) + 1 \in Recorded(Append(k, x), c)
    BY <2>1, AppendPlaces DEF Recorded
  <2>5. CASE Recorded(l, c) = {}
    BY <2>2, <2>3, <2>4, <2>5 DEF x
  <2>6. CASE Recorded(l, c) # {}
    BY <1>1, <2>2, <2>6
  <2> QED
    BY <2>5, <2>6
<1> DEFINE owed(c) == IF Recorded(l, c) = {} THEN <<Acceptance(h.accepts, c, r)>> ELSE <<>>
<1>2. ReadOnly \in Confinable /\ WorkspaceWrite \in Confinable
      /\ \A c \in Confinable : c = ReadOnly \/ c = WorkspaceWrite
  BY DEF Confinable
<1>3. ASSUME NEW c \in Confinable, NEW d \in Confinable, c # d
      PROVE  /\ l \o owed(c) \o owed(d) \in Seq(AnyRecord)
             /\ StampedFor(l \o owed(c) \o owed(d), h)
             /\ Recorded(l \o owed(c) \o owed(d), c) # {}
             /\ Recorded(l \o owed(c) \o owed(d), d) # {}
  <2> DEFINE k == l \o owed(c)
  <2>1. /\ k \in Seq(AnyRecord) /\ StampedFor(k, h) /\ Recorded(k, c) # {}
        /\ \A x : Recorded(l, x) # {} => Recorded(k, x) # {}
    BY <1>1
  <2> HIDE DEF k
  <2>2. /\ k \o owed(d) \in Seq(AnyRecord) /\ StampedFor(k \o owed(d), h)
        /\ Recorded(k \o owed(d), d) # {} /\ Recorded(k \o owed(d), c) # {}
    BY <1>1, <2>1
  <2> QED
    BY <2>2 DEF k
<1>4. /\ stampAcceptance(l, h, child, m, r) =
           IF h.accepts = Full \/ child THEN l
           ELSE IF m = WorkspaceWrite THEN l \o owed(WorkspaceWrite) \o owed(ReadOnly)
           ELSE l \o owed(ReadOnly) \o owed(WorkspaceWrite)
  BY DEF stampAcceptance
<1>5. ReadOnly # WorkspaceWrite
  BY DEF ReadOnly, WorkspaceWrite
<1> HIDE DEF owed
<1> QED
  BY <1>2, <1>3, <1>4, <1>5 DEF AcceptanceRecorded

LEMMA RecordGoverns ==
  ASSUME NEW l \in Seq(AnyRecord), NEW h \in Host, NEW child \in BOOLEAN, NEW m \in Mode
  PROVE  /\ StampedFor(Record(l, h, child, m), h)
         /\ ~child => AcceptanceRecorded(Record(l, h, child, m), h)
<1> DEFINE e == enforcementFor(h, m)
           same == Stamped(l) /\ lastSandboxStamp(l).mode = m
           reason == IF ~Stamped(l) THEN "initial" ELSE IF same THEN "resume" ELSE "change"
           fresh == Append(l, Stamp(m, e, reason))
<1>1. reason \in Reason /\ "resume" \in Reason
  BY DEF Reason
<1>2. CASE same /\ lastSandboxStamp(l).enforcement = e
  <2>1. StampedFor(l, h)
    BY <1>2 DEF StampedFor
  <2>2. Record(l, h, child, m) = stampAcceptance(l, h, child, m, "resume")
    BY <1>2 DEF Record
  <2> QED
    BY <1>1, <2>1, <2>2, AcceptanceGoverns
<1>3. CASE ~(same /\ lastSandboxStamp(l).enforcement = e)
  <2>1. Record(l, h, child, m) = stampAcceptance(fresh, h, child, m, reason)
    BY <1>3 DEF Record
  <2> HIDE DEF reason
  <2>2. fresh \in Seq(AnyRecord) /\ StampedFor(fresh, h)
    BY <1>1, StampGoverns
  <2> QED
    BY <1>1, <2>1, <2>2, AcceptanceGoverns
<1> QED
  BY <1>2, <1>3

LEMMA CreatedGoverns ==
  ASSUME NEW l \in Seq(AnyRecord), NEW h \in Host, NEW child \in BOOLEAN
  PROVE  /\ StampedFor(Created(l, h, child), h)
         /\ ~child => AcceptanceRecorded(Created(l, h, child), h)
<1> DEFINE n == Record(l, h, child, ModeOf(l, h))
           x == Policy("ask", "initial")
<1>1. n \in Seq(AnyRecord) /\ StampedFor(n, h) /\ (~child => AcceptanceRecorded(n, h))
  BY ModeOfType, RecordTyped, RecordGoverns
<1>2. x \in AnyRecord /\ x.kind # "mode"
  <2>1. x \in Policies
    BY DEF Policy, Policies, Reason
  <2> QED
    BY <2>1 DEF AnyRecord, Policies
<1>3. Created(l, h, child) = n \/ Created(l, h, child) = Append(n, x)
  BY DEF Created
<1> HIDE DEF n, x
<1> QED
  BY <1>1, <1>2, <1>3, AppendGoverned DEF AcceptanceRecorded

Governed == \A s \in Session : GovernedInv(s)

(* A session that goes live, or switches its mode, is governed by what it   *)
(* then records.                                                            *)
LEMMA GovernedBy ==
  ASSUME IInv, Governed, NEW s \in Session, NEW n, host' = host,
         log' = [log EXCEPT ![s] = n], StampedFor(n, host), ~Child(s)' => AcceptanceRecorded(n, host),
         \A t \in Session : t # s => /\ (phase'[t] = "live" => phase[t] = "live") /\ up'[t] = up[t]
  PROVE  Governed'
<1> SUFFICES ASSUME NEW t \in Session, phase'[t] = "live"
      PROVE  StampedFor(log'[t], host') /\ (~Child(t)' => AcceptanceRecorded(log'[t], host'))
  BY DEF Governed, GovernedInv
<1>1. CASE t = s
  <2>1. log'[t] = n
    BY <1>1 DEF IInv, TypeInv
  <2> QED
    BY <1>1, <2>1
<1>2. CASE t # s
  <2>1. log'[t] = log[t] /\ phase[t] = "live" /\ up'[t] = up[t]
    BY <1>2 DEF IInv, TypeInv
  <2> QED
    BY <2>1 DEF Governed, GovernedInv, Child
<1> QED
  BY <1>1, <1>2

(* Nothing that governs a live session changes.                             *)
LEMMA GovernedStays ==
  ASSUME Governed, host' = host, log' = log,
         \A t \in Session : phase'[t] = "live" => phase[t] = "live" /\ up'[t] = up[t]
  PROVE  Governed'
BY DEF Governed, GovernedInv, Child

LEMMA GovernedKeeps == IInv /\ Governed /\ [Next]_vars => Governed'
<1> SUFFICES ASSUME IInv, Governed, [Next]_vars PROVE Governed'
  OBVIOUS
<1> USE DEF IInv, TypeInv
<1>0. \A s \in Session : Child(s) \in BOOLEAN
  BY DEF Child
<1>1. ASSUME NEW s \in Session, Start(s) PROVE Governed'
  <2>1. <<>> \in Seq(AnyRecord)
    OBVIOUS
  <2> DEFINE n == Created(<<>>, host, FALSE)
  <2>2. StampedFor(n, host) /\ AcceptanceRecorded(n, host)
    BY <2>1, CreatedGoverns
  <2>3. /\ log' = [log EXCEPT ![s] = n] /\ host' = host
        /\ \A t \in Session : t # s => (phase'[t] = "live" => phase[t] = "live") /\ up'[t] = up[t]
    BY <1>1 DEF Start
  <2> HIDE DEF n
  <2> QED
    BY <2>2, <2>3, GovernedBy
<1>2. ASSUME NEW p \in Session, NEW s \in Session, NEW row \in Row, Delegate(p, s, row) PROVE Governed'
  BY <1>2, GovernedStays DEF Delegate, Is
<1>3. ASSUME NEW s \in Session, OpenChild(s) PROVE Governed'
  <2> DEFINE l == Delegated(host, taken[s].mode, taken[s].accepts)
             n == Created(l, host, TRUE)
  <2>1. l \in Seq(AnyRecord)
    <3>1. taken[s].mode \in Mode /\ taken[s].accepts \in Full..None
      BY DEF Authority
    <3> QED
      BY <3>1, OpeningTyped
  <2>2. StampedFor(n, host)
    BY <2>1, CreatedGoverns
  <2>3. /\ log' = [log EXCEPT ![s] = n] /\ host' = host /\ up' = up /\ Child(s)
        /\ \A t \in Session : t # s => (phase'[t] = "live" => phase[t] = "live")
    BY <1>3 DEF OpenChild, ChildInv, Is
  <2> HIDE DEF n
  <2>4. ~Child(s)' => FALSE
    BY <2>3 DEF Child
  <2> QED
    BY <2>2, <2>3, <2>4, GovernedBy
<1>4. ASSUME NEW s \in Session, NEW m \in Mode, SetMode(s, m) PROVE Governed'
  <2> DEFINE n == Record(log[s], host, Child(s), m)
  <2>1. StampedFor(n, host) /\ (~Child(s) => AcceptanceRecorded(n, host))
    BY <1>0, RecordGoverns
  <2>2. log' = [log EXCEPT ![s] = n] /\ host' = host /\ up' = up /\ phase' = phase
    BY <1>4 DEF SetMode
  <2> HIDE DEF n
  <2> QED
    BY <2>1, <2>2, GovernedBy DEF Child
<1>5. ASSUME NEW s \in Session, NEW a \in Level, NEW m \in Confinable, SetAcceptance(s, a, m)
      PROVE  Governed'
  <2> DEFINE x == Acceptance(a, m, "change")
             n == Append(log[s], x)
  <2>1. x \in AnyRecord /\ x.kind # "mode"
    <3>1. x \in Acceptances
      BY LevelsRank, RecordTypes DEF Confinable, Mode, Reason
    <3> QED
      BY <3>1 DEF AnyRecord, Acceptances
  <2>2. StampedFor(log[s], host) /\ (~Child(s) => AcceptanceRecorded(log[s], host))
    BY <1>5 DEF SetAcceptance, Is, Governed, GovernedInv
  <2>3. log' = [log EXCEPT ![s] = n] /\ host' = host /\ up' = up /\ phase' = phase
    BY <1>5 DEF SetAcceptance
  <2> HIDE DEF x
  <2>4. StampedFor(n, host) /\ (~Child(s) => AcceptanceRecorded(n, host))
    BY <2>1, <2>2, AppendGoverned DEF AcceptanceRecorded
  <2> HIDE DEF n
  <2> QED
    BY <2>3, <2>4, GovernedBy DEF Child
<1>6. ASSUME NEW s \in Session, NEW m \in Mode, Escalate(s, m) PROVE Governed'
  BY <1>6, GovernedStays DEF Escalate
<1>7. ASSUME NEW s \in Session, Allow(s) PROVE Governed'
  BY <1>7, GovernedStays DEF Allow
(* No session is live when another process takes over.                      *)
<1>8. ASSUME NEW h \in Host, NEW s \in Session, NEW k \in 0..Len(log[s]), Restart(h, s, k) PROVE Governed'
  <2>1. \A t \in Session : phase'[t] # "live"
    BY <1>8 DEF Restart, Is
  <2> QED
    BY <2>1 DEF Governed, GovernedInv
<1>9. ASSUME NEW s \in Session, Resume(s) PROVE Governed'
  <2> DEFINE n == Created(log[s], host, Child(s))
  <2>1. StampedFor(n, host) /\ (~Child(s) => AcceptanceRecorded(n, host))
    BY <1>0, CreatedGoverns
  <2>2. /\ log' = [log EXCEPT ![s] = n] /\ host' = host /\ up' = up
        /\ \A t \in Session : t # s => (phase'[t] = "live" => phase[t] = "live")
    BY <1>9 DEF Resume
  <2> HIDE DEF n
  <2> QED
    BY <2>1, <2>2, GovernedBy DEF Child
<1>10. ASSUME NEW s \in Session, NEW t \in Session, NEW k \in 0..Len(log[s]), Fork(s, t, k) PROVE Governed'
  <2> DEFINE l == SubSeq(log[s], 1, k)
             n == Created(l, host, Child(s))
  <2>1. l \in Seq(AnyRecord)
    BY PrefixTyped
  <2>2. StampedFor(n, host) /\ (~Child(s) => AcceptanceRecorded(n, host))
    BY <1>0, <2>1, CreatedGoverns
  <2>3. /\ log' = [log EXCEPT ![t] = n] /\ host' = host /\ up' = [up EXCEPT ![t] = up[s]]
        /\ \A x \in Session : x # t => (phase'[x] = "live" => phase[x] = "live")
    BY <1>10 DEF Fork
  <2> HIDE DEF n
  <2>4. /\ ~Child(t)' => AcceptanceRecorded(n, host)
        /\ \A x \in Session : x # t => up'[x] = up[x]
    BY <2>2, <2>3 DEF Child
  <2> QED
    BY <2>2, <2>3, <2>4, GovernedBy
<1>11. CASE UNCHANGED vars
  BY <1>11, GovernedStays DEF vars
<1> QED
  BY <1>1, <1>2, <1>3, <1>4, <1>5, <1>6, <1>7, <1>8, <1>9, <1>10, <1>11 DEF Next

(* The log alone says what governs a live session: its mode, what its host  *)
(* enforces, what it accepts (`record`, `stampAcceptance`, `acceptsFor`).   *)
THEOREM LogGoverns == Spec => []LogSaysWhatGoverns
<1>1. Init => Governed
  BY DEF Init, Governed, GovernedInv
<1>2. IInv /\ IInv' /\ Governed /\ [Next]_vars => Governed'
  BY GovernedKeeps
<1>3. IInv /\ Governed => LogSaysWhatGoverns
  <2> SUFFICES ASSUME IInv, Governed, NEW s \in Session, phase[s] = "live"
        PROVE  /\ lastSandboxStamp(log[s]).enforcement = enforcementFor(host, lastSandboxStamp(log[s]).mode)
               /\ \A m \in Confinable : acceptsFor(s, m) = ColdAccepts(log[s], m)
    BY DEF LogSaysWhatGoverns
  <2>1. StampedFor(log[s], host) /\ (~Child(s) => AcceptanceRecorded(log[s], host))
    BY DEF Governed, GovernedInv
  <2>2. ASSUME NEW m \in Confinable PROVE acceptsFor(s, m) = ColdAccepts(log[s], m)
    BY <2>1 DEF acceptsFor, ColdAccepts, AcceptanceRecorded, Child
  <2> QED
    BY <2>1, <2>2 DEF StampedFor
<1> QED
  BY <1>1, <1>2, <1>3, Invariance, PTL DEF Spec
-----------------------------------------------------------------------------
(* The authority invariant passes every record.  A session of its own never *)
(* writes one that claims a delegation; a child's log is its opening stamp, *)
(* then perhaps the pin of its acceptance, and nothing after them claims    *)
(* one but its policy, once.                                                *)

ChildShape(l) ==
  l # <<>> =>
    /\ l[1].kind = "mode" /\ l[1].reason = "delegation"
    /\ \A i \in DOMAIN l \ {1} :
         /\ l[i].kind = "mode" => l[i].reason # "delegation" /\ l[i].mode <= l[1].mode
         /\ l[i].kind = "accepts" => i = 2 /\ l[i].reason = "delegation" /\ l[i].mode = l[1].mode
         /\ l[i].kind = "policy" /\ l[i].reason = "delegation" =>
              \A j \in 1..(i - 1) : l[j].kind # "policy"

OwnShape(l) == \A i \in DOMAIN l : l[i].reason # "delegation"

Shaped(l, child) == IF child THEN ChildShape(l) ELSE OwnShape(l)

ShapeInv(s) ==
  /\ phase[s] \notin {"live", "stored"} => log[s] = <<>>
  /\ Shaped(log[s], Child(s))

OwnReason == Reason \ {"delegation"}

LEMMA HasFirst ==
  ASSUME NEW n \in Nat, NEW S \in SUBSET (1..n), S # {}
  PROVE  First(S) \in S /\ \A j \in S : First(S) <= j
<1>1. S \subseteq Nat
  OBVIOUS
<1>2. PICK x \in S : \A y \in S : <<y, x>> \notin OpToRel(<, Nat)
  BY <1>1, WFMin, NatLessThanWellFounded
<1>3. \A y \in S : ~(y < x)
  BY <1>1, <1>2 DEF OpToRel
<1>4. \A y \in S : x <= y
  BY <1>1, <1>3
<1> QED
  BY <1>4 DEF First

(* A log with no delegation in it was opened by none, and has no ceiling.   *)
LEMMA OwnIsFree ==
  ASSUME NEW l \in Seq(AnyRecord), OwnShape(l)
  PROVE  (\A kind : ~DelegatedBy(l, kind)) /\ delegationCeiling(l) = DangerFullAccess
<1>1. ASSUME NEW kind, At(l, kind) # {} PROVE l[First(At(l, kind))].reason # "delegation"
  <2>1. First(At(l, kind)) \in At(l, kind)
    BY <1>1, AtIsPlaces, HasFirst
  <2> QED
    BY <2>1 DEF OwnShape, At
<1>2. \A kind : ~DelegatedBy(l, kind)
  BY <1>1 DEF DelegatedBy
<1> QED
  BY <1>2 DEF delegationCeiling

LEMMA PrefixOf ==
  ASSUME NEW l \in Seq(AnyRecord), NEW k \in 0..Len(l)
  PROVE  /\ SubSeq(l, 1, k) \in Seq(AnyRecord) /\ DOMAIN SubSeq(l, 1, k) = 1..k
         /\ \A i \in 1..k : SubSeq(l, 1, k)[i] = l[i]
         /\ Len(l) \in Nat /\ DOMAIN l = 1..Len(l) /\ 1..k \subseteq DOMAIN l
BY SubSeqProperties

LEMMA ShapePrefix ==
  ASSUME NEW l \in Seq(AnyRecord), NEW k \in 0..Len(l), NEW child, Shaped(l, child)
  PROVE  Shaped(SubSeq(l, 1, k), child)
<1> DEFINE n == SubSeq(l, 1, k)
<1>1. n \in Seq(AnyRecord) /\ DOMAIN n = 1..k /\ (\A i \in 1..k : n[i] = l[i])
      /\ Len(l) \in Nat /\ DOMAIN l = 1..Len(l) /\ 1..k \subseteq DOMAIN l
  BY PrefixOf
<1> HIDE DEF n
<1>2. OwnShape(l) => OwnShape(n)
  BY <1>1 DEF OwnShape
<1>3. ASSUME ChildShape(l) PROVE ChildShape(n)
  <2> SUFFICES ASSUME n # <<>> PROVE ChildShape(n)
    BY DEF ChildShape
  <2>1. 1 \in 1..k /\ l # <<>>
    BY <1>1
  <2>2. n[1] = l[1]
    BY <1>1, <2>1
  <2>3. ASSUME NEW i \in DOMAIN n \ {1}
        PROVE  i \in DOMAIN l \ {1} /\ n[i] = l[i] /\ \A j \in 1..(i - 1) : n[j] = l[j]
    BY <1>1
  <2>4. ASSUME NEW i \in DOMAIN n \ {1}
        PROVE  /\ n[i].kind = "mode" => n[i].reason # "delegation" /\ n[i].mode <= n[1].mode
               /\ n[i].kind = "accepts" => i = 2 /\ n[i].reason = "delegation" /\ n[i].mode = n[1].mode
               /\ n[i].kind = "policy" /\ n[i].reason = "delegation" =>
                    \A j \in 1..(i - 1) : n[j].kind # "policy"
    BY <1>3, <2>1, <2>2, <2>3 DEF ChildShape
  <2> QED
    BY <1>3, <2>1, <2>2, <2>4 DEF ChildShape
<1> QED
  BY <1>2, <1>3 DEF Shaped, n

-----------------------------------------------------------------------------
(* What the seam writes in a session of its own.                            *)

LEMMA OwnAppend ==
  ASSUME NEW l \in Seq(AnyRecord), OwnShape(l), NEW x \in AnyRecord, x.reason # "delegation"
  PROVE  Append(l, x) \in Seq(AnyRecord) /\ OwnShape(Append(l, x))
<1> DEFINE n == Append(l, x)
<1>1. n \in Seq(AnyRecord) /\ DOMAIN l = 1..Len(l) /\ Len(l) \in Nat /\ DOMAIN n = 1..(Len(l) + 1)
      /\ n[Len(l) + 1] = x /\ \A i \in 1..Len(l) : n[i] = l[i]
  OBVIOUS
<1> HIDE DEF n
<1>2. \A i \in 1..(Len(l) + 1) : i \in 1..Len(l) \/ i = Len(l) + 1
  BY <1>1
<1> QED
  BY <1>1, <1>2 DEF OwnShape, n

LEMMA OwnAcceptance ==
  ASSUME NEW l \in Seq(AnyRecord), OwnShape(l), NEW h \in Host, NEW m \in Mode, NEW r \in OwnReason
  PROVE  /\ stampAcceptance(l, h, FALSE, m, r) \in Seq(AnyRecord)
         /\ OwnShape(stampAcceptance(l, h, FALSE, m, r))
<1> DEFINE owed(c) == IF Recorded(l, c) = {} THEN <<Acceptance(h.accepts, c, r)>> ELSE <<>>
<1>1. ASSUME NEW k \in Seq(AnyRecord), OwnShape(k), NEW c \in Confinable
      PROVE  k \o owed(c) \in Seq(AnyRecord) /\ OwnShape(k \o owed(c))
  <2> DEFINE x == Acceptance(h.accepts, c, r)
  <2>1. x \in AnyRecord
    <3>1. c \in Mode /\ r \in Reason
      BY DEF Confinable, Mode, OwnReason
    <3> QED
      BY <3>1, HostTypes, RecordTypes DEF AnyRecord
  <2>2. x.reason # "delegation"
    BY DEF Acceptance, OwnReason
  <2>3. owed(c) = <<x>> \/ owed(c) = <<>>
    OBVIOUS
  <2> HIDE DEF x, owed
  <2>4. k \o <<x>> = Append(k, x) /\ k \o <<>> = k
    BY <2>1, AppendIsConcat, ConcatEmptySeq
  <2> QED
    BY <1>1, <2>1, <2>2, <2>3, <2>4, OwnAppend
<1>2. stampAcceptance(l, h, FALSE, m, r) =
        IF h.accepts = Full THEN l
        ELSE IF m = WorkspaceWrite THEN l \o owed(WorkspaceWrite) \o owed(ReadOnly)
        ELSE l \o owed(ReadOnly) \o owed(WorkspaceWrite)
  BY DEF stampAcceptance
<1>3. ReadOnly \in Confinable /\ WorkspaceWrite \in Confinable
  BY DEF Confinable
<1> HIDE DEF owed
<1>4. ASSUME NEW c \in Confinable, NEW d \in Confinable
      PROVE  l \o owed(c) \o owed(d) \in Seq(AnyRecord) /\ OwnShape(l \o owed(c) \o owed(d))
  <2>1. l \o owed(c) \in Seq(AnyRecord) /\ OwnShape(l \o owed(c))
    BY <1>1
  <2> QED
    BY <1>1, <2>1
<1> QED
  BY <1>2, <1>3, <1>4

LEMMA OwnRecord ==
  ASSUME NEW l \in Seq(AnyRecord), OwnShape(l), NEW h \in Host, NEW m \in Mode
  PROVE  OwnShape(Record(l, h, FALSE, m))
<1> DEFINE e == enforcementFor(h, m)
           same == Stamped(l) /\ lastSandboxStamp(l).mode = m
           reason == IF ~Stamped(l) THEN "initial" ELSE IF same THEN "resume" ELSE "change"
<1>0. reason \in OwnReason
  BY DEF OwnReason, Reason
<1>1. PICK r \in OwnReason :
        \/ Record(l, h, FALSE, m) = stampAcceptance(l, h, FALSE, m, "resume")
        \/ Record(l, h, FALSE, m) = stampAcceptance(Append(l, Stamp(m, e, r)), h, FALSE, m, r)
  <2>1. \/ Record(l, h, FALSE, m) = stampAcceptance(l, h, FALSE, m, "resume")
        \/ Record(l, h, FALSE, m) = stampAcceptance(Append(l, Stamp(m, e, reason)), h, FALSE, m, reason)
    BY DEF Record
  <2> HIDE DEF reason
  <2> QED
    BY <1>0, <2>1
<1>2. "resume" \in OwnReason
  BY DEF OwnReason, Reason
<1>3. Stamp(m, e, r) \in AnyRecord
  <2>1. e \in Full..None
    BY HostTypes DEF enforcementFor, Full, None
  <2> QED
    BY <2>1, RecordTypes DEF AnyRecord, OwnReason
<1>4. Stamp(m, e, r).reason # "delegation"
  BY DEF Stamp, OwnReason
<1> HIDE DEF e
<1>5. Append(l, Stamp(m, e, r)) \in Seq(AnyRecord) /\ OwnShape(Append(l, Stamp(m, e, r)))
  BY <1>3, <1>4, OwnAppend
<1> QED
  BY <1>1, <1>2, <1>5, OwnAcceptance

LEMMA OwnCreated ==
  ASSUME NEW l \in Seq(AnyRecord), OwnShape(l), NEW h \in Host
  PROVE  OwnShape(Created(l, h, FALSE))
<1> DEFINE n == Record(l, h, FALSE, ModeOf(l, h))
           x == Policy("ask", "initial")
<1>1. n \in Seq(AnyRecord) /\ OwnShape(n)
  BY ModeOfType, RecordTyped, OwnRecord
<1>2. x \in AnyRecord
  <2>1. x \in Policies
    BY DEF Policy, Policies, Reason
  <2> QED
    BY <2>1 DEF AnyRecord
<1>3. x.reason # "delegation"
  BY DEF Policy
<1>4. Created(l, h, FALSE) = n \/ Created(l, h, FALSE) = Append(n, x)
  BY DEF Created
<1> HIDE DEF n, x
<1> QED
  BY <1>1, <1>2, <1>3, <1>4, OwnAppend

-----------------------------------------------------------------------------
(* What it writes in a child's.                                             *)

LEMMA ChildRecordShape ==
  ASSUME NEW l \in Seq(AnyRecord), l # <<>>, ChildShape(l), NEW h \in Host, NEW m \in Mode,
         m <= l[1].mode
  PROVE  /\ ChildShape(Record(l, h, TRUE, m))
         /\ At(l, "policy") # {} => At(Record(l, h, TRUE, m), "policy") # {}
<1> DEFINE e == enforcementFor(h, m)
<1>1. PICK r \in OwnReason : \/ Record(l, h, TRUE, m) = l
                             \/ Record(l, h, TRUE, m) = Append(l, Stamp(m, e, r))
  BY DEF Record, stampAcceptance, OwnReason, Reason
<1> DEFINE x == Stamp(m, e, r)
           n == Append(l, x)
<1>2. x.kind = "mode" /\ x.mode = m /\ x.reason # "delegation"
  BY DEF Stamp, OwnReason
<1>3. /\ Len(l) \in Nat /\ Len(l) >= 1 /\ DOMAIN l = 1..Len(l) /\ DOMAIN n = 1..(Len(l) + 1)
      /\ n[Len(l) + 1] = x /\ \A i \in 1..Len(l) : n[i] = l[i]
  OBVIOUS
<1>4. Record(l, h, TRUE, m) = l \/ Record(l, h, TRUE, m) = n
  BY <1>1
<1> HIDE DEF n, x
<1>5. n[1] = l[1]
  BY <1>3
<1>6. ASSUME NEW i \in DOMAIN n \ {1}
      PROVE  /\ n[i].kind = "mode" => n[i].reason # "delegation" /\ n[i].mode <= n[1].mode
             /\ n[i].kind = "accepts" => i = 2 /\ n[i].reason = "delegation" /\ n[i].mode = n[1].mode
             /\ n[i].kind = "policy" /\ n[i].reason = "delegation" =>
                  \A j \in 1..(i - 1) : n[j].kind # "policy"
  <2>1. CASE i \in 1..Len(l)
    <3>1. n[i] = l[i] /\ i \in DOMAIN l \ {1} /\ \A j \in 1..(i - 1) : n[j] = l[j]
      BY <1>3, <2>1
    <3> QED
      BY <1>5, <3>1 DEF ChildShape
  <2>2. CASE i = Len(l) + 1
    BY <1>2, <1>3, <1>5, <2>2
  <2> QED
    BY <1>3, <2>1, <2>2
<1>7. ChildShape(n)
  BY <1>5, <1>6 DEF ChildShape
<1>8. At(l, "policy") \subseteq At(n, "policy")
  BY <1>3 DEF At
<1> QED
  BY <1>4, <1>7, <1>8

LEMMA ChildCreatedShape ==
  ASSUME NEW l \in Seq(AnyRecord), l # <<>>, ChildShape(l), NEW h \in Host, At(l, "policy") # {}
  PROVE  ChildShape(Created(l, h, TRUE))
<1> DEFINE m == ModeOf(l, h)
<1>1. l[1] \in Modes /\ 1 \in At(l, "mode")
  <2>1. 1 \in DOMAIN l /\ l[1].kind = "mode"
    BY DEF ChildShape
  <2> QED
    BY <2>1, KindOfRecord DEF At
<1>2. Stamped(l)
  BY <1>1 DEF Stamped
<1>3. PICK i \in DOMAIN l : l[i].kind = "mode" /\ m = l[i].mode
  BY <1>2, ModeOfType
<1>4. m \in Mode
  BY ModeOfType
<1> HIDE DEF m
<1>5. l[1].mode \in Mode
  BY <1>1 DEF Modes
<1>6. m <= l[1].mode
  <2>1. CASE i = 1
    BY <1>3, <1>5, <2>1 DEF Mode, ReadOnly, WorkspaceWrite, DangerFullAccess
  <2>2. CASE i # 1
    BY <1>3, <2>2 DEF ChildShape
  <2> QED
    BY <2>1, <2>2
<1>7. ChildShape(Record(l, h, TRUE, m)) /\ At(Record(l, h, TRUE, m), "policy") # {}
  BY <1>4, <1>6, ChildRecordShape
<1> QED
  BY <1>7 DEF Created, m

LEMMA ChildOpeningShape ==
  ASSUME NEW h \in Host, NEW m \in Mode, NEW a \in Full..None
  PROVE  /\ Delegated(h, m, a) \in Seq(AnyRecord) /\ Delegated(h, m, a) # <<>>
         /\ ChildShape(Delegated(h, m, a)) /\ At(Delegated(h, m, a), "policy") # {}
<1> DEFINE l == Delegated(h, m, a)
           x == Stamp(m, enforcementFor(h, m), "delegation")
           y == Acceptance(a, m, "delegation")
           z == Policy("never", "delegation")
<1>1. x \in AnyRecord /\ y \in AnyRecord /\ z \in AnyRecord
  <2>1. enforcementFor(h, m) \in Full..None
    BY HostTypes DEF enforcementFor, Full, None
  <2> QED
    BY <2>1, RecordTypes DEF AnyRecord, Reason
<1>2. /\ x.kind = "mode" /\ x.mode = m /\ x.reason = "delegation"
      /\ y.kind = "accepts" /\ y.mode = m /\ y.reason = "delegation"
      /\ z.kind = "policy" /\ z.reason = "delegation"
  BY DEF Stamp, Acceptance, Policy
<1> DEFINE pin == IF a = Full /\ h.accepts = Full THEN <<>> ELSE <<y>>
           u == <<x>> \o pin
<1>3. l = u \o <<z>>
  BY DEF Delegated
<1> HIDE DEF l, x, y, z
<1>4. pin \in Seq(AnyRecord) /\ Len(pin) <= 1 /\ \A i \in 1..Len(pin) : pin[i] = y
  BY <1>1
<1> HIDE DEF pin
<1>5. <<x>> \in Seq(AnyRecord) /\ Len(<<x>>) = 1 /\ <<x>>[1] = x
      /\ <<z>> \in Seq(AnyRecord) /\ Len(<<z>>) = 1 /\ <<z>>[1] = z
  BY <1>1
<1>6. u \in Seq(AnyRecord) /\ Len(u) = 1 + Len(pin) /\ Len(pin) \in Nat /\ u[1] = x
      /\ \A i \in 2..Len(u) : u[i] = y
  BY <1>4, <1>5, ConcatProperties
<1> HIDE DEF u
<1>7. l \in Seq(AnyRecord) /\ Len(l) = Len(u) + 1 /\ Len(u) \in Nat /\ Len(u) >= 1 /\ Len(u) <= 2
      /\ (\A i \in 1..Len(u) : l[i] = u[i]) /\ l[Len(l)] = z
  BY <1>3, <1>4, <1>5, <1>6, ConcatProperties
<1>8. l[1] = x /\ (\A i \in 2..Len(u) : i = 2 /\ l[i] = y) /\ l # <<>> /\ DOMAIN l = 1..(Len(u) + 1)
  BY <1>6, <1>7
<1>9. ASSUME NEW i \in DOMAIN l \ {1}
      PROVE  /\ l[i].kind = "mode" => l[i].reason # "delegation" /\ l[i].mode <= l[1].mode
             /\ l[i].kind = "accepts" => i = 2 /\ l[i].reason = "delegation" /\ l[i].mode = l[1].mode
             /\ l[i].kind = "policy" /\ l[i].reason = "delegation" =>
                  \A j \in 1..(i - 1) : l[j].kind # "policy"
  <2>1. i \in 2..Len(u) \/ i = Len(l)
    BY <1>7, <1>8
  <2>2. CASE i \in 2..Len(u)
    BY <1>2, <1>8, <2>2
  <2>3. CASE i = Len(l)
    <3>1. \A j \in 1..(i - 1) : j = 1 \/ j \in 2..Len(u)
      BY <1>7, <2>3
    <3>2. \A j \in 1..(i - 1) : l[j] = x \/ l[j] = y
      BY <1>8, <3>1
    <3> QED
      BY <1>2, <1>7, <2>3, <3>2
  <2> QED
    BY <2>1, <2>2, <2>3
<1>10. ChildShape(l)
  BY <1>2, <1>8, <1>9 DEF ChildShape
<1>11. Len(l) \in At(l, "policy")
  BY <1>2, <1>7, <1>8 DEF At
<1> QED
  BY <1>7, <1>8, <1>10, <1>11 DEF l

(* What a session of either sort records when it goes live.                 *)
LEMMA CreatedShape ==
  ASSUME NEW l \in Seq(AnyRecord), NEW h \in Host, NEW child \in BOOLEAN, Shaped(l, child),
         child => l # <<>> /\ At(l, "policy") # {}
  PROVE  Shaped(Created(l, h, child), child)
<1>1. CASE child
  <2>1. child = TRUE
    BY <1>1
  <2> QED
    BY <2>1, ChildCreatedShape DEF Shaped
<1>2. CASE ~child
  <2>1. child = FALSE
    BY <1>2
  <2> QED
    BY <2>1, OwnCreated DEF Shaped
<1> QED
  BY <1>1, <1>2

-----------------------------------------------------------------------------
ShapedLogs == \A s \in Session : ShapeInv(s)

(* One session's log changes, and it is or becomes live.                    *)
LEMMA ShapedBy ==
  ASSUME IInv, ShapedLogs, NEW s \in Session, NEW n, log' = [log EXCEPT ![s] = n],
         phase'[s] \in {"live", "stored"}, Shaped(n, Child(s)'),
         \A t \in Session : t # s => phase'[t] = phase[t] /\ up'[t] = up[t]
  PROVE  ShapedLogs'
<1> SUFFICES ASSUME NEW t \in Session PROVE ShapeInv(t)'
  BY DEF ShapedLogs
<1>1. CASE t = s
  <2>1. log'[t] = n
    BY <1>1 DEF IInv, TypeInv
  <2> QED
    BY <1>1, <2>1 DEF ShapeInv
<1>2. CASE t # s
  <2>1. log'[t] = log[t] /\ phase'[t] = phase[t] /\ up'[t] = up[t]
    BY <1>2 DEF IInv, TypeInv
  <2> QED
    BY <2>1 DEF ShapedLogs, ShapeInv, Child
<1> QED
  BY <1>1, <1>2

LEMMA ShapeKeeps == IInv /\ ShapedLogs /\ [Next]_vars => ShapedLogs'
<1> SUFFICES ASSUME IInv, ShapedLogs, [Next]_vars PROVE ShapedLogs'
  OBVIOUS
<1> USE DEF IInv, TypeInv
<1>0. \A s \in Session : Child(s) \in BOOLEAN
  BY DEF Child
<1>1. ASSUME NEW s \in Session, Start(s) PROVE ShapedLogs'
  <2> DEFINE n == Created(<<>>, host, FALSE)
  <2>1. ~Child(s)
    BY <1>1 DEF Start, ChildInv, Is, Child
  <2>2. Shaped(n, FALSE)
    <3>1. <<>> \in Seq(AnyRecord) /\ OwnShape(<<>>)
      BY DEF OwnShape
    <3> QED
      BY <3>1, OwnCreated DEF Shaped
  <2>3. /\ log' = [log EXCEPT ![s] = n] /\ phase'[s] = "live" /\ up' = up
        /\ \A t \in Session : t # s => phase'[t] = phase[t]
    BY <1>1 DEF Start
  <2> HIDE DEF n
  <2>4. Child(s)' = FALSE
    BY <2>1, <2>3 DEF Child
  <2> QED
    BY <2>2, <2>3, <2>4, ShapedBy
<1>2. ASSUME NEW p \in Session, NEW s \in Session, NEW row \in Row, Delegate(p, s, row) PROVE ShapedLogs'
  <2>1. log' = log /\ log[s] = <<>>
    BY <1>2 DEF Delegate, Is, ShapedLogs, ShapeInv
  <2>2. Shaped(<<>>, TRUE)
    BY DEF Shaped, ChildShape
  <2>3. phase'[s] = "setup" /\ up'[s] = p
        /\ \A t \in Session : t # s => phase'[t] = phase[t] /\ up'[t] = up[t]
    BY <1>2 DEF Delegate
  <2>4. Child(s)' = TRUE
    BY <2>3, NobodyIsNoSession DEF Child
  <2>5. ShapeInv(s)'
    BY <2>1, <2>2, <2>4 DEF ShapeInv
  <2>6. ASSUME NEW t \in Session, t # s PROVE ShapeInv(t)'
    BY <2>1, <2>3, <2>6 DEF ShapedLogs, ShapeInv, Child
  <2> QED
    BY <2>5, <2>6 DEF ShapedLogs
<1>3. ASSUME NEW s \in Session, OpenChild(s) PROVE ShapedLogs'
  <2> DEFINE l == Delegated(host, taken[s].mode, taken[s].accepts)
             n == Created(l, host, TRUE)
  <2>1. Shaped(n, TRUE)
    <3>1. taken[s].mode \in Mode /\ taken[s].accepts \in Full..None
      BY DEF Authority
    <3>2. l \in Seq(AnyRecord) /\ l # <<>> /\ ChildShape(l) /\ At(l, "policy") # {}
      BY <3>1, ChildOpeningShape
    <3> QED
      BY <3>2, ChildCreatedShape DEF Shaped
  <2>2. /\ log' = [log EXCEPT ![s] = n] /\ phase'[s] = "live" /\ up' = up /\ Child(s)
        /\ \A t \in Session : t # s => phase'[t] = phase[t]
    BY <1>3 DEF OpenChild, ChildInv, Is
  <2> HIDE DEF n
  <2>3. Child(s)' = TRUE
    BY <2>2 DEF Child
  <2> QED
    BY <2>1, <2>2, <2>3, ShapedBy
<1>4. ASSUME NEW s \in Session, NEW m \in Mode, SetMode(s, m) PROVE ShapedLogs'
  <2> DEFINE n == Record(log[s], host, Child(s), m)
  <2>1. Shaped(log[s], Child(s)) /\ phase[s] = "live"
    BY <1>4 DEF SetMode, Is, ShapedLogs, ShapeInv
  <2>2. CASE Child(s)
    <3>1. Child(s) = TRUE /\ log[s] # <<>> /\ ChildShape(log[s])
      BY <1>0, <2>1, <2>2 DEF Shaped, ChildInv
    <3>2. log[s][1].kind = "mode" /\ log[s][1].reason = "delegation"
      BY <3>1 DEF ChildShape
    <3>3. m <= log[s][1].mode
      BY <1>4, <3>1, <3>2, CeilingIsFirst DEF SetMode
    <3> QED
      BY <3>1, <3>3, ChildRecordShape, ShapedBy, <1>4 DEF SetMode, Shaped, Child, Is
  <2>3. CASE ~Child(s)
    <3>1. Child(s) = FALSE /\ OwnShape(log[s])
      BY <1>0, <2>1, <2>3 DEF Shaped
    <3> QED
      BY <3>1, OwnRecord, ShapedBy, <1>4 DEF SetMode, Shaped, Child, Is
  <2> QED
    BY <2>2, <2>3
<1>5. ASSUME NEW s \in Session, NEW a \in Level, NEW m \in Confinable, SetAcceptance(s, a, m)
      PROVE  ShapedLogs'
  <2> DEFINE x == Acceptance(a, m, "change")
             n == Append(log[s], x)
  <2>1. x \in AnyRecord
    <3>1. x \in Acceptances
      BY LevelsRank, RecordTypes DEF Confinable, Mode, Reason
    <3> QED
      BY <3>1 DEF AnyRecord
  <2>2. x.reason # "delegation"
    BY DEF Acceptance
  <2>3. OwnShape(log[s]) /\ Child(s) = FALSE
    BY <1>5 DEF SetAcceptance, ShapedLogs, ShapeInv, Shaped, Child
  <2>4. log' = [log EXCEPT ![s] = n] /\ up' = up /\ phase' = phase /\ phase[s] = "live"
    BY <1>5 DEF SetAcceptance, Is
  <2> HIDE DEF x
  <2>5. OwnShape(n)
    BY <2>1, <2>2, <2>3, OwnAppend
  <2> HIDE DEF n
  <2>6. Shaped(n, Child(s)')
    BY <2>3, <2>4, <2>5 DEF Child, Shaped
  <2> QED
    BY <2>4, <2>6, ShapedBy
<1>6. ASSUME NEW s \in Session, NEW m \in Mode, Escalate(s, m) PROVE ShapedLogs'
  BY <1>6 DEF Escalate, ShapedLogs, ShapeInv, Child
<1>7. ASSUME NEW s \in Session, Allow(s) PROVE ShapedLogs'
  BY <1>7 DEF Allow, ShapedLogs, ShapeInv, Child
<1>8. ASSUME NEW h \in Host, NEW s \in Session, NEW k \in 0..Len(log[s]), Restart(h, s, k) PROVE ShapedLogs'
  <2> DEFINE n == SubSeq(log[s], 1, k)
  <2>1. Shaped(log[s], Child(s)) => Shaped(n, Child(s))
    BY ShapePrefix
  <2>2. log[s] = <<>> => n = <<>>
    OBVIOUS
  <2>3. /\ log' = [log EXCEPT ![s] = n] /\ up' = up
        /\ \A t \in Session : phase[t] \in {"live", "stored"} => phase'[t] = "stored"
    BY <1>8 DEF Restart, Is
  <2> HIDE DEF n
  <2>4. ASSUME NEW t \in Session PROVE ShapeInv(t)'
    <3>1. CASE t = s
      BY <2>1, <2>2, <2>3, <3>1 DEF ShapedLogs, ShapeInv, Child
    <3>2. CASE t # s
      BY <2>3, <3>2 DEF ShapedLogs, ShapeInv, Child
    <3> QED
      BY <3>1, <3>2
  <2> QED
    BY <2>4 DEF ShapedLogs
<1>9. ASSUME NEW s \in Session, Resume(s) PROVE ShapedLogs'
  <2> DEFINE n == Created(log[s], host, Child(s))
  <2>1. Child(s) => log[s] # <<>> /\ At(log[s], "policy") # {}
    <3>1. Child(s) => Fenced(log[s], TRUE)
      BY <1>9 DEF Resume, Fenced
    <3> QED
      BY <3>1, DelegationOpens
  <2>2. Shaped(n, Child(s))
    BY <1>0, <2>1, CreatedShape DEF ShapedLogs, ShapeInv
  <2>3. /\ log' = [log EXCEPT ![s] = n] /\ phase'[s] = "live" /\ up' = up
        /\ \A t \in Session : t # s => phase'[t] = phase[t]
    BY <1>9 DEF Resume
  <2> HIDE DEF n
  <2> QED
    BY <2>2, <2>3, ShapedBy DEF Child
<1>10. ASSUME NEW s \in Session, NEW t \in Session, NEW k \in 0..Len(log[s]), Fork(s, t, k) PROVE ShapedLogs'
  <2> DEFINE l == SubSeq(log[s], 1, k)
             n == Created(l, host, Child(s))
  <2>1. l \in Seq(AnyRecord)
    BY PrefixTyped
  <2>2. Child(s) => l # <<>> /\ At(l, "policy") # {}
    <3>1. Child(s) => Fenced(l, TRUE)
      BY <1>10 DEF Fork, Fenced
    <3> QED
      BY <2>1, <3>1, DelegationOpens
  <2>3. Shaped(l, Child(s))
    BY ShapePrefix DEF ShapedLogs, ShapeInv
  <2>4. Shaped(n, Child(s))
    BY <1>0, <2>1, <2>2, <2>3, CreatedShape
  <2>5. /\ log' = [log EXCEPT ![t] = n] /\ phase'[t] = "live" /\ up'[t] = up[s]
        /\ \A x \in Session : x # t => phase'[x] = phase[x] /\ up'[x] = up[x]
    BY <1>10 DEF Fork
  <2> HIDE DEF n
  <2> QED
    BY <2>4, <2>5, ShapedBy DEF Child
<1>11. CASE UNCHANGED vars
  BY <1>11 DEF vars, ShapedLogs, ShapeInv, Child
<1> QED
  BY <1>1, <1>2, <1>3, <1>4, <1>5, <1>6, <1>7, <1>8, <1>9, <1>10, <1>11 DEF Next

-----------------------------------------------------------------------------
(* The authority invariant accepts every record of a log of either shape.   *)

LEMMA OwnAccepted ==
  ASSUME NEW l \in Seq(AnyRecord), OwnShape(l), NEW n \in DOMAIN l
  PROVE  Accepted(l, n)
<1> DEFINE before == SubSeq(l, 1, n - 1)
<1>1. n - 1 \in 0..Len(l) /\ l[n] \in AnyRecord /\ l[n].reason # "delegation"
  BY DEF OwnShape
<1>2. before \in Seq(AnyRecord) /\ OwnShape(before)
  BY <1>1, PrefixTyped, ShapePrefix DEF Shaped
<1> HIDE DEF before
<1>3. (\A kind : ~DelegatedBy(before, kind)) /\ delegationCeiling(before) = DangerFullAccess
  BY <1>2, OwnIsFree
<1>4. l[n].kind = "mode" => l[n].mode <= DangerFullAccess
  BY <1>1, KindOfRecord DEF Modes, Mode, ReadOnly, WorkspaceWrite, DangerFullAccess
<1> QED
  BY <1>1, <1>3, <1>4 DEF Accepted, before

LEMMA ChildAccepted ==
  ASSUME NEW l \in Seq(AnyRecord), ChildShape(l), NEW n \in DOMAIN l
  PROVE  Accepted(l, n)
<1> DEFINE before == SubSeq(l, 1, n - 1)
<1>1. n \in Nat /\ n >= 1 /\ n - 1 \in 0..Len(l) /\ l # <<>> /\ l[n] \in AnyRecord
  OBVIOUS
<1>2. before \in Seq(AnyRecord) /\ DOMAIN before = 1..(n - 1) /\ \A i \in 1..(n - 1) : before[i] = l[i]
  BY <1>1, PrefixOf
<1> HIDE DEF before
<1>3. l[1].kind = "mode" /\ l[1].reason = "delegation"
  BY <1>1 DEF ChildShape
<1>4. CASE n = 1
  <2>1. At(before, "mode") = {}
    BY <1>2, <1>4 DEF At
  <2> QED
    BY <1>3, <1>4, <2>1 DEF Accepted, before
<1>5. CASE n # 1
  <2>1. 1 \in 1..(n - 1) /\ n \in DOMAIN l \ {1}
    BY <1>1, <1>5
  <2>2. before # <<>> /\ before[1] = l[1]
    BY <1>2, <2>1
  <2>3. DelegatedBy(before, "mode") /\ delegationCeiling(before) = l[1].mode
    BY <1>2, <1>3, <2>2, CeilingIsFirst
  <2>4. CASE l[n].kind = "mode"
    <3>1. l[n].reason # "delegation" /\ l[n].mode <= l[1].mode
      BY <1>1, <2>1, <2>4 DEF ChildShape
    <3> QED
      BY <2>3, <2>4, <3>1 DEF Accepted, before
  <2>5. CASE l[n].kind = "accepts"
    <3>1. n = 2 /\ l[n].reason = "delegation" /\ l[n].mode = l[1].mode
      BY <1>1, <2>1, <2>5 DEF ChildShape
    <3>2. DOMAIN before = {1} /\ n - 1 = 1
      BY <1>2, <3>1
    <3>3. At(before, "accepts") = {} /\ At(before, "mode") = {n - 1}
      BY <1>3, <2>2, <3>2 DEF At
    <3>4. l[n].mode = before[n - 1].mode
      BY <2>2, <3>1, <3>2
    <3> QED
      BY <2>3, <2>5, <3>1, <3>3, <3>4 DEF Accepted, before
  <2>6. CASE l[n].kind \notin {"mode", "accepts"}
    <3>1. l[n].kind = "policy"
      BY <1>1, <2>6 DEF AnyRecord, Modes, Acceptances, Policies
    <3>2. l[n].reason = "delegation" => \A j \in 1..(n - 1) : l[j].kind # "policy"
      BY <1>1, <2>1, <3>1 DEF ChildShape
    <3>3. l[n].reason = "delegation" => At(before, "policy") = {}
      BY <1>2, <3>2 DEF At
    <3> QED
      BY <2>6, <3>3 DEF Accepted, before
  <2> QED
    BY <2>4, <2>5, <2>6
<1> QED
  BY <1>4, <1>5

(* No switch, pickup, fork or delegation writes a record the authority      *)
(* invariant refuses (`core/sandbox/invariant.ts`): the seam and the guard  *)
(* that watches it agree, in every session and every process.               *)
THEOREM SandboxAgrees == Spec => []SandboxPassesInvariant
<1>1. Init => ShapedLogs
  BY DEF Init, ShapedLogs, ShapeInv, Shaped, OwnShape, ChildShape
<1>2. IInv /\ ShapedLogs /\ [Next]_vars => ShapedLogs'
  BY ShapeKeeps
<1>3. IInv /\ ShapedLogs => SandboxPassesInvariant
  <2> SUFFICES ASSUME IInv, ShapedLogs, NEW s \in Session, NEW n \in DOMAIN log[s]
        PROVE  Accepted(log[s], n)
    BY DEF SandboxPassesInvariant
  <2>1. log[s] \in Seq(AnyRecord) /\ Shaped(log[s], Child(s))
    BY DEF IInv, TypeInv, ShapedLogs, ShapeInv
  <2> QED
    BY <2>1, OwnAccepted, ChildAccepted DEF Shaped
<1> QED
  BY <1>1, <1>2, <1>3, Invariance, PTL DEF Spec
=============================================================================
