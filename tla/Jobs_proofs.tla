---------------------------- MODULE Jobs_proofs ----------------------------
(***************************************************************************)
(* The background jobs, for any number of jobs, calls, switches and lives: *)
(* every end is told to the model exactly once but for two named windows   *)
(* of a kill, no process keeps an authority the session dropped, and a     *)
(* notice wakes one turn more than the budget allows, and one for each     *)
(* batch a kill had delivered again; none after stopAll.                   *)
(*                                                                         *)
(* Exactly once rests on two accounts of an end: the notice's (NoticeInv,  *)
(* OwedInv) and, under call ids that are not reused, the report's          *)
(* (ReportInv); a kill may break off either, and the next lifecycle's      *)
(* repair closes the one it broke off.                                     *)
(***************************************************************************)
EXTENDS Jobs, FiniteSetTheorems, SequenceTheorems, TLAPS

Registered ==
  /\ entry \in [Job -> {"none", "launching", "live", "doomed", "ended",
                        "abandoned", "gone", "over"}]
  /\ proc \in [Job -> {"none", "alive", "killed", "exited", "stopped"}]
  /\ cancel \in [Job -> {"no", "asked"}]
  /\ modeAt \in [Job -> 0..MaxSwitches]

Msg == [who : Job \union {Human}, waking : BOOLEAN]

(* A process that runs untold is the one of a live job and runs under the   *)
(* recorded authority; a launch nobody stopped resolved that authority; and *)
(* nothing runs untold once the owner's scope unwinds.                      *)
AuthInv ==
  /\ \A j \in Job : proc[j] = "alive" => entry[j] = "live" /\ modeAt[j] = mode
  /\ \A j \in Job : entry[j] = "launching" /\ cancel[j] = "no" => modeAt[j] = mode
  /\ ending => \A j \in Job : proc[j] # "alive"

(* Where the driver stands: what it holds, and why it runs at all.          *)
Taken == phase = "preStep" \/ (phase = "entering" /\ unlogged = batch)

PhaseInv ==
  /\ phase \notin {"preStep", "entering"} => batch = <<>>
  /\ phase \notin {"entering", "ending"} => unlogged = <<>>
  /\ phase # "stepping" => call = NoCall
  /\ phase \in {"idle", "begin", "closed"} => turn = {}
  /\ phase = "stepping" => turn # {}
  /\ phase = "begin" => WakingIn(queue)
  /\ Taken /\ turn = {} => WakingIn(batch)
  /\ phase = "entering" => Len(unlogged) <= Len(batch) /\ (turn = {} => Taken)
  /\ phase = "ending" => ~WakingIn(unlogged)
  /\ ending => disposed /\ phase \in {"idle", "closed", "dead"}

(* A stopAll nobody wrote after: the driver is at rest, and every job that  *)
(* can still end was told to stop.                                          *)
StopInv ==
  latched => /\ phase \in {"idle", "closed", "dead"}
             /\ \A j \in Running \union owing : cancel[j] # "no"

(* The budget.  A waking notice was admitted under it, and what arrives     *)
(* during a pre-step await was counted before the turn entered anything.    *)
(* A kill in the middle of a batch delivers it again: what was a turn's is  *)
(* in the inbox, and one more turn is forgiven.  While a batch enters, the  *)
(* person's message that clears the count may be still to come.             *)
JobWaking(q) == \E i \in DOMAIN q : q[i].waking /\ q[i].who # Human
Allowed == budget + cuts

WakeInv ==
  /\ FoldWakes <= Allowed + 2
  /\ FoldWakes <= Allowed + 1
     \/ (phase = "entering" /\ ~Taken /\ Human \in Senders(unlogged))
  /\ JobWaking(queue) => FoldWakes <= Allowed
  /\ JobWaking(batch) => FoldWakes <= Allowed + 1
  /\ Taken /\ JobWaking(batch) => FoldWakes <= Allowed
  /\ Taken /\ JobWaking(queue) => FoldWakes < Allowed

(* No job's notice is twice in a queue.                                     *)
OnceIn(q) == \A i, k \in DOMAIN q : q[i].who = q[k].who /\ q[i].who # Human => i = k

(* A notice recorded is of a job that ended, and is in one place: entered,  *)
(* in the inbox, in the batch a step took, among those being put back - or  *)
(* gone with a kill.  In the inbox it has entered only as often as a kill   *)
(* cut it from the record of its claim; a batch being entered adds one.     *)
NoticeInv ==
  /\ \A j \in Job : HasEnd(j) <=> entry[j] \in {"ended", "over"}
  /\ \A j \in Job : j \in noticed =>
       /\ HasEnd(j)
       /\ \/ entered[j] > 0 \/ j \in unsaid
          \/ j \in Senders(queue) \/ j \in Senders(batch) \/ j \in Senders(unlogged)
  /\ \A j \in Job : j \in Senders(queue) \/ j \in Senders(unlogged) =>
       j \in noticed /\ entered[j] = again[j]
  /\ \A j \in Job : j \in Senders(batch) =>
       /\ j \in noticed
       /\ phase # "entering" => entered[j] = again[j] \/ j \in Senders(unlogged)
       /\ phase = "entering" => entered[j] = again[j] + 1 \/ j \in Senders(unlogged)
  /\ \A j \in Job : j \in Senders(queue) =>
       j \notin Senders(batch) /\ j \notin Senders(unlogged)
  /\ \A j \in Job : again[j] <= entered[j] /\ entered[j] <= 1 + again[j]
  /\ \A j \in Job : entered[j] > 0 => j \in noticed
  /\ phase = "entering" => Senders(unlogged) \subseteq Senders(batch)
  /\ OnceIn(queue) /\ OnceIn(batch) /\ OnceIn(unlogged)

(* An end no call reports is owed a notice, unless a kill fell in between.  *)
OwedInv ==
  /\ owing = {} \/ \E j \in Job : owing = {j}
  /\ phase \in {"dead", "closed"} => owing = {}
  /\ \A j \in owing : HasEnd(j) /\ ended[j].by = Nobody /\ j \notin noticed
  /\ \A j \in Job : HasEnd(j) /\ j \notin noticed /\ ended[j].by = Nobody =>
       j \in owing \/ phase = "dead"

(* An end a call reports: the call is in flight with what it saw, or its    *)
(* result is logged and the job told, or a kill took it - and then no later *)
(* call has its id.                                                         *)
InFlight == call # NoCall
Used == {idOf[c] : c \in 1..calls}

ReportInv ==
  /\ answered \subseteq Used
  /\ InFlight => calls # 0 /\ call.id = idOf[calls] /\ call.id \notin answered
  /\ \A j \in Job : ended[j].by = Nobody \/ ended[j].by \in Used
  /\ \A j \in noticed : ended[j].by \notin answered /\ ~(InFlight /\ call.id = ended[j].by)
  /\ \A j \in Job : ended[j].by \in answered => j \in told
  /\ InFlight => \A j \in Job : ended[j].by = call.id => call.job = j /\ call.saw
  /\ \A j \in Job : HasEnd(j) /\ j \notin noticed /\ ended[j].by # Nobody =>
       \/ ended[j].by \in answered
       \/ InFlight /\ ended[j].by = call.id
       \/ phase = "dead"

IInv ==
  /\ TypeOK
  /\ AuthInv /\ PhaseInv /\ StopInv /\ WakeInv /\ NoticeInv /\ OwedInv
  /\ UniqueIds => ReportInv

-----------------------------------------------------------------------------
(* Messages in a queue: who sent them, and whether one of them wakes.       *)
LEMMA Nothing ==
  /\ <<>> \in Seq(Msg) /\ Senders(<<>>) = {}
  /\ ~WakingIn(<<>>) /\ ~JobWaking(<<>>) /\ OnceIn(<<>>)
  BY EmptySeq DEF Senders, WakingIn, JobWaking, OnceIn

LEMMA SendersAre ==
  ASSUME NEW q \in Seq(Msg) PROVE Senders(q) \subseteq Job \union {Human}
<1>1. \A i \in DOMAIN q : q[i] \in Msg
  BY ElementOfSeq, LenProperties
<1>2. \A m \in Msg : m.who \in Job \union {Human}
  BY DEF Msg
<1> QED
  BY <1>1, <1>2 DEF Senders

LEMMA AppendFacts ==
  ASSUME NEW q \in Seq(Msg), NEW m \in Msg
  PROVE  /\ Append(q, m) \in Seq(Msg)
         /\ Senders(Append(q, m)) = Senders(q) \union {m.who}
         /\ WakingIn(Append(q, m)) <=> WakingIn(q) \/ m.waking
         /\ JobWaking(Append(q, m)) <=> JobWaking(q) \/ (m.waking /\ m.who # Human)
         /\ OnceIn(q) /\ (m.who # Human => m.who \notin Senders(q)) => OnceIn(Append(q, m))
<1> DEFINE r == Append(q, m)
           n == Len(q)
<1>1. r \in Seq(Msg) /\ Len(r) = n + 1 /\ n \in Nat /\ DOMAIN q = 1..n /\ DOMAIN r = 1..(n + 1)
  BY LenProperties, AppendProperties
<1>2. (\A i \in 1..n : r[i] = q[i]) /\ r[n + 1] = m
  BY AppendProperties
<1>3. \A i : i \in 1..(n + 1) <=> i \in 1..n \/ i = n + 1
  BY <1>1
<1> HIDE DEF r, n
<1>4. Senders(r) = Senders(q) \union {m.who}
  BY <1>1, <1>2, <1>3 DEF Senders
<1>5. WakingIn(r) <=> WakingIn(q) \/ m.waking
  BY <1>1, <1>2, <1>3 DEF WakingIn
<1>6. JobWaking(r) <=> JobWaking(q) \/ (m.waking /\ m.who # Human)
  <2>1. ASSUME NEW i \in 1..(n + 1), r[i].waking, r[i].who # Human
        PROVE  JobWaking(q) \/ (m.waking /\ m.who # Human)
    <3>1. CASE i \in 1..n
      BY <1>1, <1>2, <2>1, <3>1 DEF JobWaking
    <3>2. CASE i = n + 1
      BY <1>2, <2>1, <3>2
    <3> QED
      BY <1>3, <3>1, <3>2
  <2>2. ASSUME NEW i \in 1..n, q[i].waking, q[i].who # Human PROVE JobWaking(r)
    BY <1>1, <1>2, <1>3, <2>2 DEF JobWaking
  <2>3. m.waking /\ m.who # Human => JobWaking(r)
    <3>1. n + 1 \in DOMAIN r /\ r[n + 1] = m
      BY <1>1, <1>2
    <3> QED
      BY <3>1 DEF JobWaking
  <2> QED
    BY <1>1, <2>1, <2>2, <2>3 DEF JobWaking
<1>7. ASSUME OnceIn(q), m.who # Human => m.who \notin Senders(q) PROVE OnceIn(r)
  <2> SUFFICES ASSUME NEW i \in 1..(n + 1), NEW k \in 1..(n + 1), r[i].who = r[k].who, r[i].who # Human
               PROVE  i = k
    BY <1>1 DEF OnceIn
  <2>1. \A x \in 1..n : q[x].who \in Senders(q)
    BY <1>1 DEF Senders
  <2>2. CASE i \in 1..n /\ k \in 1..n
    BY <1>1, <1>2, <1>7, <2>2 DEF OnceIn
  <2>3. CASE i = n + 1 /\ k \in 1..n
    BY <1>2, <1>7, <2>1, <2>3
  <2>4. CASE i \in 1..n /\ k = n + 1
    BY <1>2, <1>7, <2>1, <2>4
  <2> QED
    BY <1>3, <2>2, <2>3, <2>4
<1> QED
  BY <1>1, <1>4, <1>5, <1>6, <1>7 DEF r

LEMMA ConcatFacts ==
  ASSUME NEW q \in Seq(Msg), NEW r \in Seq(Msg)
  PROVE  /\ q \o r \in Seq(Msg)
         /\ Senders(q \o r) = Senders(q) \union Senders(r)
         /\ WakingIn(q \o r) <=> WakingIn(q) \/ WakingIn(r)
         /\ JobWaking(q \o r) <=> JobWaking(q) \/ JobWaking(r)
         /\ OnceIn(q) /\ OnceIn(r) /\ Senders(q) \intersect Senders(r) \subseteq {Human} =>
              OnceIn(q \o r)
<1> DEFINE s == q \o r
           n == Len(q)
           m == Len(r)
<1>1. /\ s \in Seq(Msg) /\ n \in Nat /\ m \in Nat
      /\ DOMAIN q = 1..n /\ DOMAIN r = 1..m /\ DOMAIN s = 1..(n + m)
  BY LenProperties, ConcatProperties
<1>2. \A i \in 1..(n + m) : s[i] = IF i <= n THEN q[i] ELSE r[i - n]
  BY <1>1, ConcatProperties
<1>3. (\A i \in 1..n : i \in 1..(n + m) /\ s[i] = q[i])
  BY <1>1, <1>2
<1>4. (\A i \in 1..m : n + i \in 1..(n + m) /\ s[n + i] = r[i])
  BY <1>1, <1>2
<1>5. \A k \in 1..(n + m) : (k \in 1..n /\ s[k] = q[k]) \/ \E i \in 1..m : k = n + i /\ s[k] = r[i]
  <2> SUFFICES ASSUME NEW k \in 1..(n + m), ~(k <= n)
               PROVE  \E i \in 1..m : k = n + i /\ s[k] = r[i]
    BY <1>1, <1>2
  <2>1. k - n \in 1..m /\ k = n + (k - n) /\ s[k] = r[k - n]
    BY <1>1, <1>2
  <2> QED
    BY <2>1
<1> HIDE DEF s, n, m
<1>6. Senders(s) = Senders(q) \union Senders(r)
  <2>1. ASSUME NEW k \in 1..(n + m) PROVE s[k].who \in Senders(q) \union Senders(r)
    BY <1>1, <1>5 DEF Senders
  <2>2. ASSUME NEW i \in 1..n PROVE q[i].who \in Senders(s)
    <3>1. i \in DOMAIN s /\ s[i].who = q[i].who
      BY <1>1, <1>3
    <3> QED
      BY <3>1 DEF Senders
  <2>3. ASSUME NEW i \in 1..m PROVE r[i].who \in Senders(s)
    <3>1. n + i \in DOMAIN s /\ s[n + i].who = r[i].who
      BY <1>1, <1>4
    <3> QED
      BY <3>1 DEF Senders
  <2>4. Senders(s) \subseteq Senders(q) \union Senders(r)
    BY <1>1, <2>1 DEF Senders
  <2>5. Senders(q) \subseteq Senders(s) /\ Senders(r) \subseteq Senders(s)
    BY <1>1, <2>2, <2>3 DEF Senders
  <2> QED
    BY <2>4, <2>5
<1>7. WakingIn(s) <=> WakingIn(q) \/ WakingIn(r)
  BY <1>1, <1>3, <1>4, <1>5 DEF WakingIn
<1>8. JobWaking(s) <=> JobWaking(q) \/ JobWaking(r)
  <2>1. ASSUME NEW k \in 1..(n + m), s[k].waking, s[k].who # Human
        PROVE  JobWaking(q) \/ JobWaking(r)
    <3>1. CASE k \in 1..n /\ s[k] = q[k]
      BY <1>1, <2>1, <3>1 DEF JobWaking
    <3>2. ASSUME NEW i \in 1..m, s[k] = r[i] PROVE JobWaking(r)
      BY <1>1, <2>1, <3>2 DEF JobWaking
    <3> QED
      BY <1>5, <3>1, <3>2
  <2>2. ASSUME NEW i \in 1..n, q[i].waking, q[i].who # Human PROVE JobWaking(s)
    BY <1>1, <1>3, <2>2 DEF JobWaking
  <2>3. ASSUME NEW i \in 1..m, r[i].waking, r[i].who # Human PROVE JobWaking(s)
    BY <1>1, <1>4, <2>3 DEF JobWaking
  <2> QED
    BY <1>1, <2>1, <2>2, <2>3 DEF JobWaking
<1>9. ASSUME OnceIn(q), OnceIn(r), Senders(q) \intersect Senders(r) \subseteq {Human}
      PROVE  OnceIn(s)
  <2> SUFFICES ASSUME NEW k \in 1..(n + m), NEW l \in 1..(n + m), s[k].who = s[l].who, s[k].who # Human
               PROVE  k = l
    BY <1>1 DEF OnceIn
  <2>1. (\A i \in 1..n : q[i].who \in Senders(q)) /\ (\A i \in 1..m : r[i].who \in Senders(r))
    BY <1>1 DEF Senders
  <2>2. (k \in 1..n /\ s[k] = q[k]) \/ \E i \in 1..m : k = n + i /\ s[k] = r[i]
    BY <1>5
  <2>3. (l \in 1..n /\ s[l] = q[l]) \/ \E i \in 1..m : l = n + i /\ s[l] = r[i]
    BY <1>5
  <2>4. CASE k \in 1..n /\ s[k] = q[k] /\ l \in 1..n /\ s[l] = q[l]
    BY <1>1, <1>9, <2>4 DEF OnceIn
  <2>5. ASSUME NEW i \in 1..m, NEW x \in 1..m, s[k] = r[i], s[l] = r[x] PROVE i = x
    BY <1>1, <1>9, <2>5 DEF OnceIn
  <2>6. ASSUME NEW i \in 1..m, s[k] = r[i], l \in 1..n, s[l] = q[l] PROVE FALSE
    BY <1>9, <2>1, <2>6
  <2>7. ASSUME NEW i \in 1..m, s[l] = r[i], k \in 1..n, s[k] = q[k] PROVE FALSE
    BY <1>9, <2>1, <2>7
  <2> QED
    BY <2>2, <2>3, <2>4, <2>5, <2>6, <2>7
<1> QED
  BY <1>1, <1>6, <1>7, <1>8, <1>9 DEF s

(* The first of a queue and the rest of it.                                 *)
LEMMA TailFacts ==
  ASSUME NEW q \in Seq(Msg), q # <<>>
  PROVE  /\ Head(q) \in Msg /\ Tail(q) \in Seq(Msg) /\ Len(Tail(q)) < Len(q)
         /\ Senders(q) = {Head(q).who} \union Senders(Tail(q))
         /\ WakingIn(q) <=> Head(q).waking \/ WakingIn(Tail(q))
         /\ OnceIn(q) => /\ OnceIn(Tail(q))
                         /\ Head(q).who # Human => Head(q).who \notin Senders(Tail(q))
<1> DEFINE t == Tail(q)
           n == Len(q)
<1>1. /\ n \in Nat /\ n >= 1 /\ DOMAIN q = 1..n /\ Head(q) = q[1] /\ Head(q) \in Msg
      /\ t \in Seq(Msg) /\ Len(t) = n - 1 /\ DOMAIN t = 1..(n - 1)
  BY LenProperties, HeadTailProperties, EmptySeq
<1>2. \A i \in 1..(n - 1) : t[i] = q[i + 1]
  BY HeadTailProperties
<1>3. /\ 1 \in 1..n /\ \A i \in 1..(n - 1) : i + 1 \in 1..n /\ i + 1 # 1
      /\ \A k \in 1..n : k = 1 \/ \E i \in 1..(n - 1) : k = i + 1
  <2>1. \A k \in 1..n : k = 1 \/ (k - 1 \in 1..(n - 1) /\ k = (k - 1) + 1)
    BY <1>1
  <2> QED
    BY <1>1, <2>1
<1>4. \A k \in 1..n : q[k] = Head(q) \/ \E i \in 1..(n - 1) : q[k] = t[i]
  BY <1>1, <1>2, <1>3
<1> HIDE DEF t, n
<1>5. Senders(q) = {Head(q).who} \union Senders(t)
  <2>1. \A k \in 1..n : q[k].who \in {Head(q).who} \union Senders(t)
    BY <1>1, <1>4 DEF Senders
  <2>2. Head(q).who \in Senders(q) /\ \A i \in 1..(n - 1) : t[i].who \in Senders(q)
    BY <1>1, <1>2, <1>3 DEF Senders
  <2>3. Senders(q) \subseteq {Head(q).who} \union Senders(t)
    BY <1>1, <2>1 DEF Senders
  <2>4. Senders(t) \subseteq Senders(q)
    BY <1>1, <2>2 DEF Senders
  <2> QED
    BY <2>2, <2>3, <2>4
<1>6. WakingIn(q) <=> Head(q).waking \/ WakingIn(t)
  BY <1>1, <1>2, <1>3, <1>4 DEF WakingIn
<1>7. ASSUME OnceIn(q) PROVE OnceIn(t) /\ (Head(q).who # Human => Head(q).who \notin Senders(t))
  <2>1. ASSUME NEW i \in 1..(n - 1), NEW k \in 1..(n - 1), t[i].who = t[k].who, t[i].who # Human
        PROVE  i = k
    <3>0. /\ i + 1 \in DOMAIN q /\ k + 1 \in DOMAIN q
          /\ q[i + 1].who = q[k + 1].who /\ q[i + 1].who # Human
      BY <1>1, <1>2, <1>3, <2>1
    <3>1. i + 1 = k + 1
      BY <1>7, <3>0 DEF OnceIn
    <3> QED
      BY <3>1, <1>1
  <2>2. ASSUME NEW i \in 1..(n - 1), t[i].who = Head(q).who, Head(q).who # Human PROVE FALSE
    <3>1. /\ 1 \in DOMAIN q /\ i + 1 \in DOMAIN q /\ i + 1 # 1
          /\ q[i + 1].who = q[1].who /\ q[i + 1].who # Human
      BY <1>1, <1>2, <1>3, <2>2
    <3> QED
      BY <1>7, <3>1 DEF OnceIn
  <2>3. OnceIn(t)
    BY <1>1, <2>1 DEF OnceIn
  <2> QED
    BY <1>1, <2>2, <2>3 DEF Senders
<1> QED
  BY <1>1, <1>5, <1>6, <1>7 DEF t, n

Before(S, i) == {j \in S : j < i}
Rank(S, i) == Cardinality(Before(S, i))

(* Each of a set of places in a queue has a rank of its own, and no rank is *)
(* left out: the notices of a refused batch can be written down in order.   *)
LEMMA PlacesAreFinite ==
  ASSUME NEW n \in Nat, NEW S \in SUBSET (1..n)
  PROVE  IsFiniteSet(S) /\ Cardinality(S) \in Nat
<1>1. IsFiniteSet(1..n)
  BY FS_Interval
<1>2. IsFiniteSet(S)
  BY <1>1, FS_Subset
<1> QED
  BY <1>2, FS_CardinalityType

LEMMA RankBound ==
  ASSUME NEW n \in Nat, NEW S \in SUBSET (1..n), NEW i \in S
  PROVE  Rank(S, i) \in Nat /\ Rank(S, i) < Cardinality(S)
<1>1. Before(S, i) \in SUBSET S /\ i \notin Before(S, i)
  BY DEF Before
<1>2. IsFiniteSet(S) /\ Cardinality(S) \in Nat
  BY PlacesAreFinite
<1>3. Cardinality(Before(S, i)) \in Nat /\ Cardinality(Before(S, i)) <= Cardinality(S)
  BY <1>1, <1>2, FS_Subset, FS_CardinalityType
<1>4. Cardinality(Before(S, i)) # Cardinality(S)
  BY <1>1, <1>2, FS_Subset
<1> QED
  BY <1>2, <1>3, <1>4 DEF Rank

LEMMA RanksDiffer ==
  ASSUME NEW n \in Nat, NEW S \in SUBSET (1..n), NEW i \in S, NEW k \in S, Rank(S, i) = Rank(S, k)
  PROVE  i = k
<1>1. ASSUME NEW x \in S, NEW y \in S, x < y PROVE Rank(S, x) # Rank(S, y)
  <2>1. x \in Nat /\ y \in Nat /\ ~(x < x)
    OBVIOUS
  <2>0. \A j \in S : j < x => j < y
    BY <1>1
  <2>2. Before(S, x) \in SUBSET Before(S, y) /\ x \in Before(S, y) /\ x \notin Before(S, x)
    BY <1>1, <2>1, <2>0 DEF Before
  <2>3. Before(S, y) \in SUBSET (1..n)
    BY DEF Before
  <2>4. IsFiniteSet(Before(S, y))
    BY <2>3, PlacesAreFinite
  <2> QED
    BY <2>2, <2>4, FS_Subset DEF Rank
<1>2. i \in Nat /\ k \in Nat
  OBVIOUS
<1>3. i < k \/ k < i \/ i = k
  BY <1>2
<1> QED
  BY <1>1, <1>3

LEMMA RanksCover ==
  ASSUME NEW n \in Nat, NEW S \in SUBSET (1..n), NEW m \in 1..Cardinality(S)
  PROVE  \E i \in S : Rank(S, i) = m - 1
<1> DEFINE size == Cardinality(S)
           f == [i \in S |-> Rank(S, i) + 1]
<1>1. IsFiniteSet(S) /\ size \in Nat
  BY PlacesAreFinite
<1>2. ASSUME NEW i \in S PROVE f[i] \in 1..size /\ f[i] = Rank(S, i) + 1 /\ Rank(S, i) \in Nat
  BY <1>1, RankBound
<1>3. f \in [S -> 1..size]
  BY <1>2
<1>4. ASSUME NEW i \in S, NEW k \in S, f[i] = f[k] PROVE i = k
  <2>1. Rank(S, i) = Rank(S, k)
    BY <1>2, <1>4
  <2> QED
    BY <2>1, RanksDiffer
<1>5. DOMAIN f = S
  OBVIOUS
<1>6. IsFiniteSet(1..size) /\ Cardinality(1..size) = size
  BY <1>1, FS_Interval
<1> HIDE DEF f, size
<1>7. f \in Injection(S, 1..size)
  BY <1>3, <1>4, <1>5 DEF Injection, IsInjective
<1>8. f \in Surjection(S, 1..size)
  BY <1>6, <1>7, FS_Injection DEF size
<1>9. PICK i \in S : f[i] = m
  BY <1>8 DEF Surjection, size
<1> QED
  BY <1>2, <1>9

(* What goes back of a refused batch: every notice, and nothing that wakes. *)
LEMMA QuietedFacts ==
  ASSUME NEW q \in Seq(Msg)
  PROVE  /\ Quieted(q) \in Seq(Msg)
         /\ Senders(Quieted(q)) = Senders(q) \ {Human}
         /\ ~WakingIn(Quieted(q)) /\ ~JobWaking(Quieted(q))
         /\ OnceIn(q) => OnceIn(Quieted(q))
<1> DEFINE n == Len(q)
           notices == {i \in DOMAIN q : q[i].who # Human}
           nth(k) == CHOOSE i \in notices : Cardinality({p \in notices : p < i}) = k - 1
           size == Cardinality(notices)
           r == [k \in 1..size |-> Message(q[nth(k)].who, FALSE)]
<1>1. Quieted(q) = r
  BY DEF Quieted
<1>2. n \in Nat /\ DOMAIN q = 1..n /\ notices \in SUBSET (1..n) /\ \A i \in 1..n : q[i] \in Msg
  BY LenProperties
<1>3. size \in Nat
  BY <1>2, PlacesAreFinite
<1>4. \A i : Rank(notices, i) = Cardinality({p \in notices : p < i})
  BY DEF Rank, Before
<1>5. \A k \in 1..size : nth(k) \in notices /\ Rank(notices, nth(k)) = k - 1
  <2> SUFFICES ASSUME NEW k \in 1..size PROVE nth(k) \in notices /\ Rank(notices, nth(k)) = k - 1
    OBVIOUS
  <2> HIDE DEF notices
  <2>1. \E i \in notices : Rank(notices, i) = k - 1
    BY <1>2, RanksCover DEF size
  <2> QED
    BY <2>1, <1>4
<1>6. \A i \in notices : \E k \in 1..size : nth(k) = i
  <2> SUFFICES ASSUME NEW i \in notices PROVE \E k \in 1..size : nth(k) = i
    OBVIOUS
  <2> HIDE DEF notices, nth
  <2>1. Rank(notices, i) \in Nat /\ Rank(notices, i) < size
    BY <1>2, RankBound DEF size
  <2>2. Rank(notices, i) + 1 \in 1..size /\ (Rank(notices, i) + 1) - 1 = Rank(notices, i)
    BY <2>1, <1>3
  <2>3. nth(Rank(notices, i) + 1) \in notices
        /\ Rank(notices, nth(Rank(notices, i) + 1)) = Rank(notices, i)
    BY <2>2, <1>5
  <2>4. nth(Rank(notices, i) + 1) = i
    BY <2>3, <1>2, RanksDiffer
  <2> QED
    BY <2>2, <2>4
<1>7. \A k \in 1..size : q[nth(k)] \in Msg /\ q[nth(k)].who # Human
  BY <1>2, <1>5
<1>8. \A i \in 1..n : q[i].who # Human => i \in notices
  BY <1>2
<1>15. \A k \in 1..size : nth(k) \in 1..n
  BY <1>2, <1>5
<1>16. ASSUME NEW k \in 1..size, NEW l \in 1..size, nth(k) = nth(l) PROVE k = l
  <2> HIDE DEF nth
  <2>1. k - 1 = l - 1
    BY <1>5, <1>16
  <2> QED
    BY <2>1, <1>3
<1> HIDE DEF nth, size, notices
<1>9. \A k \in 1..size : r[k] \in Msg /\ r[k].who = q[nth(k)].who /\ r[k].waking = FALSE
  BY <1>7 DEF Message, Msg
<1>10. r \in Seq(Msg) /\ DOMAIN r = 1..size
  <2>1. r \in [1..size -> Msg]
    BY <1>9
  <2> QED
    BY <2>1, <1>3, SeqDef
<1> HIDE DEF r
<1>11. \A x : x \in Senders(r) => x \in Senders(q) /\ x # Human
  BY <1>2, <1>5, <1>7, <1>9, <1>10 DEF Senders
<1>12. \A x : x \in Senders(q) /\ x # Human => x \in Senders(r)
  <2> SUFFICES ASSUME NEW i \in 1..n, q[i].who # Human PROVE q[i].who \in Senders(r)
    BY <1>2 DEF Senders
  <2>1. PICK k \in 1..size : nth(k) = i
    BY <1>6, <1>8
  <2> QED
    BY <2>1, <1>9, <1>10 DEF Senders
<1>13. ~WakingIn(r) /\ ~JobWaking(r)
  BY <1>9, <1>10 DEF WakingIn, JobWaking
<1>14. OnceIn(q) => OnceIn(r)
  <2> SUFFICES ASSUME OnceIn(q), NEW k \in 1..size, NEW l \in 1..size, r[k].who = r[l].who
               PROVE  k = l
    BY <1>10 DEF OnceIn
  <2>1. nth(k) = nth(l)
    BY <1>2, <1>7, <1>9, <1>15 DEF OnceIn
  <2> QED
    BY <2>1, <1>16
<1> QED
  BY <1>1, <1>10, <1>11, <1>12, <1>13, <1>14

(* What repair inserts: one quiet notice for each job owed one.             *)
LEMMA NoticesFor ==
  ASSUME NEW S \in SUBSET Job, NEW owed \in SetToSeqs(S)
  PROVE  LET r == [i \in DOMAIN owed |-> Message(owed[i], FALSE)]
         IN  /\ r \in Seq(Msg) /\ Senders(r) = S /\ ~WakingIn(r) /\ ~JobWaking(r)
             /\ OnceIn(r)
<1> DEFINE r == [i \in DOMAIN owed |-> Message(owed[i], FALSE)]
           n == Cardinality(S)
<1>1. IsFiniteSet(S) /\ n \in Nat
  BY JobsAreFinite, FS_Subset, FS_CardinalityType
<1>2. owed \in [1..n -> S] /\ \A i, k \in 1..n : i # k => owed[i] # owed[k]
  BY DEF SetToSeqs
<1>3. IsFiniteSet(1..n) /\ Cardinality(1..n) = n
  BY <1>1, FS_Interval
<1>4. owed \in Injection(1..n, S)
  BY <1>2 DEF Injection, IsInjective
<1>5. owed \in Surjection(1..n, S)
  BY <1>1, <1>3, <1>4, FS_Injection
<1>6. DOMAIN owed = 1..n /\ \A x \in S : \E i \in 1..n : owed[i] = x
  BY <1>2, <1>5 DEF Surjection
<1> HIDE DEF n
<1>7. \A i \in 1..n : r[i] \in Msg /\ r[i].who = owed[i] /\ r[i].waking = FALSE
  BY <1>2, <1>6 DEF Message, Msg
<1>8. r \in Seq(Msg) /\ DOMAIN r = 1..n
  <2>1. r = [i \in 1..n |-> r[i]]
    BY <1>6
  <2>2. r \in [1..n -> Msg]
    BY <2>1, <1>7
  <2>3. n \in Nat
    BY <1>1
  <2>4. DOMAIN r = 1..n
    BY <1>6
  <2> HIDE DEF r
  <2>5. r \in Seq(Msg)
    BY <2>2, <2>3, SeqDef
  <2> QED
    BY <2>4, <2>5
<1> HIDE DEF r
<1>9. Senders(r) = S
  BY <1>2, <1>6, <1>7, <1>8 DEF Senders
<1>10. ~WakingIn(r) /\ ~JobWaking(r)
  BY <1>7, <1>8 DEF WakingIn, JobWaking
<1>11. OnceIn(r)
  BY <1>2, <1>7, <1>8 DEF OnceIn
<1> QED
  BY <1>8, <1>9, <1>10, <1>11 DEF r

(* The types.                                                               *)
Bounded ==
  /\ budget \in 0..MaxWakes /\ idOf \in [Calls -> Calls] /\ mode \in 0..MaxSwitches
  /\ calls \in 0..MaxCalls /\ lives \in 1..MaxLives /\ prompts \in 0..MaxPrompts

Inboxed ==
  /\ queue \in Seq(Msg) /\ batch \in Seq(Msg) /\ unlogged \in Seq(Msg)
  /\ turn \subseteq {Human, "job"}
  /\ phase \in {"idle", "begin", "preStep", "entering", "stepping", "ending",
                "closed", "dead"}
  /\ {disposed, ending, latched} \subseteq BOOLEAN

Reports ==
  /\ call \in {NoCall} \union [id : Calls, job : Job, waits : BOOLEAN, saw : BOOLEAN]
  /\ ended \in [Job -> [how : {"no", "own", "stopped", "lost"}, by : Calls \union {Nobody}]]

Logged ==
  /\ {owing, noticed, told, unsaid} \subseteq SUBSET Job /\ answered \subseteq Calls
  /\ {entered, again} \subseteq [Job -> Nat] /\ {wakes, cuts} \subseteq Nat

LEMMA TypeParts ==
  /\ TypeOK => Bounded /\ Registered /\ Inboxed /\ Reports /\ Logged
  /\ Bounded' /\ Registered' /\ Inboxed' /\ Reports' /\ Logged' => TypeOK'
  BY DEF TypeOK, Bounded, Registered, Inboxed, Reports, Logged, Msg

LEMMA WakesCounted == ASSUME TypeOK PROVE FoldWakes \in Nat
  BY DEF TypeOK, FoldWakes

LEMMA CallsCounted == MaxCalls \in Nat /\ Nobody \notin Calls
  BY JobBounds DEF Calls, Nobody

LEMMA MakeCallTypes ==
  ASSUME TypeOK, NEW j \in Job, MakeCall(j),
         cancel' \in [Job -> {"no", "asked"}],
         proc' \in [Job -> {"none", "alive", "killed", "exited", "stopped"}]
  PROVE  TypeOK'
<1>0. calls \in 0..MaxCalls /\ calls < MaxCalls /\ calls' = calls + 1
  BY DEF TypeOK, MakeCall
<1>1. calls + 1 \in Calls /\ calls' \in 0..MaxCalls
  BY <1>0, CallsCounted DEF Calls
<1>2. CallOn(j, entry[j] = "live", HasEnd(j)) \in
        [id : Calls, job : Job, waits : BOOLEAN, saw : BOOLEAN]
  <2>1. idOf[calls + 1] \in Calls
    BY <1>1 DEF TypeOK
  <2> QED
    BY <2>1 DEF CallOn, HasEnd
<1>3. call' \in {NoCall} \union [id : Calls, job : Job, waits : BOOLEAN, saw : BOOLEAN]
  BY <1>2 DEF MakeCall
<1> QED
  BY <1>1, <1>3 DEF TypeOK, MakeCall, registry, inbox, log, bounds, segment, history, windows

LEMMA TypeKeeps == ASSUME TypeOK, [Next]_vars PROVE TypeOK'
<1>1. ASSUME NEW j \in Job, Start(j) PROVE TypeOK'
  BY <1>1 DEF TypeOK, Start, AtAwait, registry, inbox, log, bounds, segment, history, windows
<1>2. ASSUME NEW j \in Job, Launched(j) PROVE TypeOK'
  BY <1>2 DEF TypeOK, Launched, AtAwait, registry, inbox, log, bounds, segment, history, windows
<1>3. ASSUME NEW j \in Job, Forget(j) PROVE TypeOK'
  BY <1>3 DEF TypeOK, Forget, AtAwait, registry, inbox, log, bounds, segment, history, windows
<1>4. ASSUME NEW j \in Job, Exits(j) PROVE TypeOK'
  BY <1>4 DEF TypeOK, Exits, registry, inbox, log, bounds, segment, history, windows
<1>5. ASSUME NEW j \in Job, Settle(j) PROVE TypeOK'
  <2>1. /\ ended[j].by \in Calls \union {Nobody}
        /\ call # NoCall => /\ call.id \in Calls
                            /\ [call EXCEPT !.waits = FALSE, !.saw = TRUE] \in
                                 [id : Calls, job : Job, waits : BOOLEAN, saw : BOOLEAN]
    BY DEF TypeOK
  <2>2. [how |-> IF proc[j] = "exited" THEN "own" ELSE "stopped",
         by |-> IF WaitsOn(j) THEN call.id ELSE Nobody]
          \in [how : {"no", "own", "stopped", "lost"}, by : Calls \union {Nobody}]
    BY <2>1 DEF WaitsOn
  <2>3. call' \in {NoCall} \union [id : Calls, job : Job, waits : BOOLEAN, saw : BOOLEAN]
    BY <1>5, <2>1 DEF TypeOK, Settle, WaitsOn
  <2>4. /\ entry' = [entry EXCEPT ![j] = "ended"] /\ owing' \in SUBSET Job
        /\ UNCHANGED <<bounds, mode, modeAt, proc, cancel, calls, disposed, ending,
                       inbox, noticed, entered, answered, wakes, unlogged, history>>
    BY <1>5 DEF Settle, TypeOK
  <2> QED
    <3>1. Bounded /\ Registered /\ Inboxed /\ Reports /\ Logged
      BY TypeParts
    <3>2. Bounded' /\ Inboxed'
      BY <2>4, <3>1 DEF Bounded, Inboxed, bounds, inbox, history
    <3>3. Registered'
      BY <2>4, <3>1 DEF Registered
    <3>4. Reports'
      BY <1>5, <2>2, <2>3, <3>1 DEF Reports, Settle
    <3>5. Logged'
      BY <2>4, <3>1 DEF Logged, history, windows
    <3> QED
      BY <3>2, <3>3, <3>4, <3>5, TypeParts
<1>6. ASSUME NEW j \in Job, Deliver(j) PROVE TypeOK'
  <2> DEFINE waking == Wakes(j) /\ ~disposed
  <2>1. Message(j, waking) \in Msg
    BY DEF Message, Msg
  <2>2. queue' = Append(queue, Message(j, waking)) /\ queue \in Seq(Msg)
    BY <1>6 DEF Deliver, TypeOK, Msg
  <2>3. queue' \in Seq(Msg)
    BY <2>1, <2>2, AppendFacts
  <2> HIDE DEF waking
  <2>4. phase' = "begin" \/ phase' = phase
    BY <1>6 DEF Deliver
  <2> QED
    <3>1. Bounded /\ Registered /\ Inboxed /\ Reports /\ Logged
      BY TypeParts
    <3>2. Bounded' /\ Registered' /\ Reports'
      BY <1>6, <3>1 DEF Deliver, Bounded, Registered, Reports, bounds, registry
    <3>3. Inboxed'
      BY <1>6, <2>3, <2>4, <3>1 DEF Deliver, Inboxed, history
    <3>4. Logged'
      BY <1>6, <3>1 DEF Deliver, Logged, history, windows
    <3> QED
      BY <3>2, <3>3, <3>4, TypeParts
<1>7. ASSUME NEW j \in Job, Output(j) PROVE TypeOK'
  <2>1. /\ MakeCall(j)
        /\ cancel' \in [Job -> {"no", "asked"}]
        /\ proc' \in [Job -> {"none", "alive", "killed", "exited", "stopped"}]
    BY <1>7 DEF TypeOK, Output
  <2> QED
    BY <2>1, MakeCallTypes
<1>8. ASSUME NEW j \in Job, CancelByModel(j) PROVE TypeOK'
  <2>1. /\ MakeCall(j) /\ entry' = entry
        /\ cancel' \in [Job -> {"no", "asked"}]
        /\ proc' \in [Job -> {"none", "alive", "killed", "exited", "stopped"}]
    BY <1>8 DEF TypeOK, CancelByModel, AskToStop, MakeCall
  <2> QED
    BY <2>1, MakeCallTypes
<1>9. ASSUME NEW j \in Job, CancelByUser(j) PROVE TypeOK'
  BY <1>9 DEF TypeOK, CancelByUser, Stops, AskToStop, AtAwait, registry, inbox,
     log, bounds, segment, history, windows
<1>10. CASE BeginTurn
  BY <1>10 DEF TypeOK, BeginTurn, Claim, registry, inbox, log, bounds, segment, history, windows
<1>11. CASE Enters
  BY <1>11 DEF TypeOK, Enters, AtAwait, registry, inbox, log, bounds, segment, history, windows
<1>12. CASE EnterNext
  <2>1. unlogged \in Seq(Msg) /\ unlogged # <<>>
    BY <1>12 DEF EnterNext, TypeOK, Msg
  <2>2. Tail(unlogged) \in Seq(Msg)
    BY <2>1, TailFacts
  <2>3. entered' \in [Job -> Nat]
    BY <1>12 DEF EnterNext, TypeOK
  <2>4. turn' \subseteq {Human, "job"}
    BY <1>12 DEF EnterNext, TypeOK
  <2> QED
    BY <1>12, <2>2, <2>3, <2>4 DEF TypeOK, EnterNext, Msg, registry, inbox, log, bounds, segment, history, windows
<1>13. CASE CommitClaim
  BY <1>13, Nothing DEF TypeOK, CommitClaim, Msg, registry, inbox, log, bounds, segment, history, windows
<1>14. CASE Refused
  <2>1. queue \in Seq(Msg) /\ batch \in Seq(Msg)
    BY DEF TypeOK, Msg
  <2>2. unlogged' \in Seq(Msg) /\ batch' \in Seq(Msg)
    BY <1>14, <2>1, QuietedFacts, Nothing DEF Refused
  <2> QED
    BY <1>14, <2>2 DEF TypeOK, Refused, Msg, registry, inbox, log, bounds, segment, history, windows
<1>15. CASE PutBack
  <2>1. unlogged \in Seq(Msg) /\ unlogged # <<>> /\ queue \in Seq(Msg)
    BY <1>15 DEF PutBack, TypeOK, Msg
  <2>2. Tail(unlogged) \in Seq(Msg) /\ Head(unlogged) \in Msg
    BY <2>1, TailFacts
  <2>3. queue' \in Seq(Msg) /\ unlogged' \in Seq(Msg)
    BY <1>15, <2>1, <2>2, AppendFacts DEF PutBack
  <2> QED
    BY <1>15, <2>3 DEF TypeOK, PutBack, Msg, registry, inbox, log, bounds, segment, history, windows
<1>16. CASE StepReturns
  <2>1. ASSUME Claim PROVE TypeOK'
    <3>1. queue' \in Seq(Msg) /\ batch' \in Seq(Msg)
      BY <2>1, Nothing DEF TypeOK, Claim, Msg
    <3> QED
      BY <2>1, <3>1 DEF TypeOK, Claim, Msg, registry, inbox, log, bounds, segment, history, windows
  <2>2. ASSUME phase' = "ending",
               UNCHANGED <<bounds, mode, registry, calls, call, disposed, ending,
                           queue, batch, turn, segment, log, history>>
        PROVE  TypeOK'
    BY <2>2 DEF TypeOK, registry, inbox, log, bounds, segment, history, windows
  <2> QED
    BY <1>16, <2>1, <2>2 DEF StepReturns
<1>17. CASE EndTurn
  <2>1. wakes' \in Nat /\ turn' = {} /\ phase' \in {"begin", "idle"}
    BY <1>17, WakesCounted DEF EndTurn
  <2>2. Bounded /\ Registered /\ Inboxed /\ Reports /\ Logged
    BY TypeParts
  <2>3. Bounded' /\ Registered' /\ Reports'
    BY <1>17, <2>2 DEF EndTurn, Bounded, Registered, Reports, bounds, registry
  <2>4. Inboxed' /\ Logged'
    BY <1>17, <2>1, <2>2 DEF EndTurn, Inboxed, Logged, segment, history, windows
  <2> QED
    BY <2>3, <2>4, TypeParts
<1>18. CASE Answer
  <2>1. Bounded /\ Registered /\ Inboxed /\ Reports /\ Logged
    BY TypeParts
  <2>2. Bounded' /\ Registered' /\ Reports'
    BY <1>18, <2>1 DEF Answer, Bounded, Registered, Reports, bounds, registry
  <2>3. Inboxed'
    BY <1>18, <2>1 DEF Answer, Inboxed, inbox, segment
  <2>4. Logged'
    BY <1>18, <2>1 DEF Answer, Logged, Reports, NoCall, segment, windows
  <2> QED
    BY <2>2, <2>3, <2>4, TypeParts
<1>19. CASE Leave
  BY <1>19 DEF TypeOK, Leave, AtAwait, registry, inbox, log, bounds, segment, history, windows
<1>20. CASE Steer
  <2>1. queue' = Append(queue, Message(Human, TRUE)) /\ queue \in Seq(Msg)
    BY <1>20 DEF Steer, TypeOK, Msg
  <2>2. Message(Human, TRUE) \in Msg
    BY DEF Message, Msg
  <2>3. queue' \in Seq(Msg)
    BY <2>1, <2>2, AppendFacts
  <2>4. prompts' \in 0..MaxPrompts
    <3>1. prompts \in 0..MaxPrompts /\ prompts < MaxPrompts /\ prompts' = prompts + 1
      BY <1>20 DEF Steer, TypeOK
    <3> QED
      BY <3>1, JobBounds
  <2>5. phase' = "begin" \/ phase' = phase
    BY <1>20 DEF Steer
  <2>6. latched' = FALSE
    BY <1>20 DEF Steer
  <2> QED
    BY <1>20, <2>3, <2>4, <2>5, <2>6 DEF TypeOK, Steer, Msg, registry, inbox,
       log, bounds, segment, history, windows
<1>21. CASE Switch
  <2>1. /\ cancel' \in [Job -> {"no", "asked"}]
        /\ proc' \in [Job -> {"none", "alive", "killed", "exited", "stopped"}]
    BY <1>21 DEF TypeOK, Switch, Stops, AskToStop
  <2>2. mode' \in 0..MaxSwitches
    BY <1>21, JobBounds DEF TypeOK, Switch
  <2> QED
    BY <1>21, <2>1, <2>2 DEF TypeOK, Switch, Stops, registry, inbox, log, bounds, segment, history, windows
<1>22. CASE StopAll
  BY <1>22 DEF TypeOK, StopAll, Stops, AskToStop, AtAwait, registry, inbox, log,
     bounds, segment, history, windows
<1>23. CASE Dispose
  BY <1>23 DEF TypeOK, Dispose, AtAwait, registry, inbox, log, bounds, segment, history, windows
<1>24. CASE Unwind
  BY <1>24 DEF TypeOK, Unwind, Stops, AskToStop, AtAwait, registry, inbox, log,
     bounds, segment, history, windows
<1>25. CASE Close
  BY <1>25 DEF TypeOK, Close, AtAwait, registry, inbox, log, bounds, segment, history, windows
<1>26. CASE Kill
  <2>1. queue \in Seq(Msg) /\ batch \in Seq(Msg) /\ unlogged \in Seq(Msg)
    BY DEF TypeOK, Msg
  <2>2. queue' \in Seq(Msg) /\ batch' \in Seq(Msg) /\ unlogged' \in Seq(Msg)
    BY <1>26, <2>1, ConcatFacts, Nothing DEF Kill
  <2>3. again' \in [Job -> Nat] /\ cuts' \in Nat
    <3>1. again \in [Job -> Nat] /\ cuts \in Nat
      BY DEF TypeOK
    <3>2. cuts' = cuts \/ cuts' = cuts + 1
      BY <1>26 DEF Kill
    <3>3. \E J : again' = [k \in Job |-> IF k \in J THEN again[k] + 1 ELSE again[k]]
      BY <1>26 DEF Kill
    <3> QED
      BY <3>1, <3>2, <3>3
  <2>4. Senders(unlogged) \ {Human} \subseteq Job
    BY <2>1, SendersAre
  <2>5. unsaid' \subseteq Job
    BY <1>26, <2>4 DEF Kill, TypeOK
  <2>6. phase' = "dead" /\ owing' = {} /\ call' = NoCall
        /\ UNCHANGED <<bounds, mode, registry, calls, disposed, ending, turn, log,
                       told, latched>>
    BY <1>26 DEF Kill
  <2>7. /\ UNCHANGED <<budget, idOf, lives, prompts, mode, entry, modeAt, proc, cancel, calls>>
        /\ UNCHANGED <<disposed, ending, turn, ended, noticed, entered, answered, wakes>>
        /\ UNCHANGED <<told, latched>>
    BY <2>6 DEF registry, log, bounds
  <2> QED
    <3>1. Bounded /\ Registered /\ Inboxed /\ Reports /\ Logged
      BY TypeParts
    <3>2. Bounded' /\ Registered'
      BY <2>7, <3>1 DEF Bounded, Registered
    <3>3. Inboxed'
      BY <2>2, <2>6, <2>7, <3>1 DEF Inboxed
    <3>4. Reports' /\ Logged'
      BY <2>3, <2>5, <2>6, <2>7, <3>1 DEF Reports, Logged
    <3> QED
      BY <3>2, <3>3, <3>4, TypeParts
<1>27. CASE Resume
  <2>1. OwedNotices \in SUBSET Job
    BY DEF OwedNotices, Started
  <2>0. PICK owed \in SetToSeqs(OwedNotices) :
          queue' = queue \o [i \in DOMAIN owed |-> Message(owed[i], FALSE)]
    BY <1>27 DEF Resume
  <2> DEFINE r == [i \in DOMAIN owed |-> Message(owed[i], FALSE)]
  <2>2. queue \in Seq(Msg) /\ r \in Seq(Msg) /\ queue' = queue \o r
    BY <2>0, <2>1, NoticesFor DEF TypeOK, Msg
  <2>3. queue' \in Seq(Msg)
    BY <2>2, ConcatFacts
  <2>4. lives' \in 1..MaxLives /\ phase' \in {"begin", "idle"} /\ noticed' \in SUBSET Job
    <3>1. lives' \in 1..MaxLives
      BY <1>27, JobBounds DEF Resume, TypeOK
    <3>2. phase' \in {"begin", "idle"}
      BY <1>27 DEF Resume
    <3>3. noticed' \in SUBSET Job
      BY <1>27, <2>1 DEF Resume, TypeOK
    <3> QED
      BY <3>1, <3>2, <3>3
  <2>5. wakes' \in Nat
    BY <1>27, WakesCounted DEF Resume
  <2>6. /\ ended' \in [Job -> [how : {"no", "own", "stopped", "lost"}, by : Calls \union {Nobody}]]
        /\ entry' \in [Job -> {"none", "launching", "live", "doomed", "ended", "abandoned", "gone", "over"}]
    <3>1. [how |-> "lost", by |-> Nobody] \in [how : {"no", "own", "stopped", "lost"}, by : Calls \union {Nobody}]
      OBVIOUS
    <3> QED
      BY <1>27, <3>1 DEF Resume, TypeOK
  <2>7. /\ turn' = {} /\ proc' = [k \in Job |-> "none"] /\ cancel' = [k \in Job |-> "no"]
        /\ disposed' = FALSE /\ ending' = FALSE /\ latched' = FALSE
        /\ UNCHANGED <<budget, idOf, prompts, mode, modeAt, calls, call, batch, owing,
                       unlogged, entered, answered, told, again, cuts, unsaid>>
    BY <1>27 DEF Resume, segment, windows
  <2> QED
    <3>1. Bounded /\ Registered /\ Inboxed /\ Reports /\ Logged
      BY TypeParts
    <3>2. Bounded' /\ Registered'
      BY <2>4, <2>6, <2>7, <3>1 DEF Bounded, Registered
    <3>3. Inboxed'
      BY <2>3, <2>4, <2>7, <3>1 DEF Inboxed
    <3>4. Reports' /\ Logged'
      BY <2>4, <2>5, <2>6, <2>7, <3>1 DEF Reports, Logged
    <3> QED
      BY <3>2, <3>3, <3>4, TypeParts
<1>28. CASE UNCHANGED vars
  BY <1>28 DEF TypeOK, vars, registry, inbox, log, bounds, segment, history, windows
<1> QED
  BY <1>1, <1>2, <1>3, <1>4, <1>5, <1>6, <1>7, <1>8, <1>9, <1>10, <1>11, <1>12,
     <1>13, <1>14, <1>15, <1>16, <1>17, <1>18, <1>19, <1>20, <1>21, <1>22,
     <1>23, <1>24, <1>25, <1>26, <1>27, <1>28 DEF Next, Registry, Driver

LEMMA TypesFromInit == ASSUME Init PROVE TypeOK
<1>1. /\ <<>> \in Seq(Msg) /\ Unended \in [how : {"no", "own", "stopped", "lost"}, by : Calls \union {Nobody}]
  BY Nothing DEF Unended, Nobody
<1>2. queue \in Seq(Msg) /\ batch \in Seq(Msg) /\ unlogged \in Seq(Msg)
  BY <1>1 DEF Init
<1>3. /\ ended \in [Job -> [how : {"no", "own", "stopped", "lost"}, by : Calls \union {Nobody}]]
      /\ {entered, again} \subseteq [Job -> Nat] /\ answered \subseteq Calls
      /\ {owing, noticed, told, unsaid} \subseteq SUBSET Job /\ turn \subseteq {Human, "job"}
  BY <1>1 DEF Init
<1>4. /\ mode \in 0..MaxSwitches /\ modeAt \in [Job -> 0..MaxSwitches]
      /\ calls \in 0..MaxCalls /\ lives \in 1..MaxLives /\ prompts \in 0..MaxPrompts /\ {wakes, cuts} \subseteq Nat
  BY JobBounds DEF Init
<1> QED
  BY <1>2, <1>3, <1>4 DEF Init, TypeOK, Msg

(* The state is typed: the bounds on calls, switches, prompts and lives     *)
(* hold, and every record of the log and the inbox has its shape.           *)
THEOREM TypeCorrect == Spec => []TypeOK
  BY TypesFromInit, TypeKeeps, PTL DEF Spec

-----------------------------------------------------------------------------
(* The authority, the driver and stopAll: which actions disturb them, and   *)
(* why a step that asks jobs to stop leaves none running untold.            *)
LEMMA AuthorityKept ==
  ASSUME TypeOK, AuthInv, [Next]_vars PROVE AuthInv'
<1>0. Registered
  BY DEF TypeOK, Registered
<1>1. ASSUME NEW j \in Job, Start(j) PROVE AuthInv'
  BY <1>0, <1>1 DEF AuthInv, Registered, Running, Start, AtAwait, registry,
     inbox, log, bounds, segment, history, windows
<1>2. ASSUME NEW j \in Job, Launched(j) PROVE AuthInv'
  BY <1>0, <1>2 DEF AuthInv, Registered, Running, Launched, AtAwait, registry,
     inbox, log, bounds, segment, history, windows
<1>3. ASSUME NEW j \in Job, Forget(j) PROVE AuthInv'
  BY <1>0, <1>3 DEF AuthInv, Registered, Running, Forget, AtAwait, registry,
     inbox, log, bounds, segment, history, windows
<1>4. ASSUME NEW j \in Job, Exits(j) PROVE AuthInv'
  BY <1>0, <1>4 DEF AuthInv, Registered, Running, Exits, registry, inbox, log,
     bounds, segment, history, windows
<1>5. ASSUME NEW j \in Job, Settle(j) PROVE AuthInv'
  BY <1>0, <1>5 DEF AuthInv, Registered, Running, Settle, WaitsOn, Nobody,
     AtAwait, registry, inbox, log, bounds, segment, history, windows
<1>6. ASSUME NEW j \in Job, Deliver(j) PROVE AuthInv'
  BY <1>0, <1>6 DEF AuthInv, Registered, Running, Deliver, registry, inbox, log,
     bounds, segment, history, windows
<1>7. ASSUME NEW j \in Job, Output(j) PROVE AuthInv'
  BY <1>0, <1>7 DEF AuthInv, Registered, Running, Output, MakeCall, CallOn,
     HasEnd, AtAwait, Started, registry, inbox, log, bounds, segment, history, windows
<1>8. ASSUME NEW j \in Job, CancelByModel(j) PROVE AuthInv'
  BY <1>0, <1>8 DEF AuthInv, Registered, Running, CancelByModel, MakeCall,
     CallOn, HasEnd, AskToStop, AtAwait, Started, registry, inbox, log, bounds, segment, history, windows
<1>9. ASSUME NEW j \in Job, CancelByUser(j) PROVE AuthInv'
  BY <1>0, <1>9 DEF AuthInv, Registered, Running, CancelByUser, Stops,
     AskToStop, AtAwait, registry, inbox, log, bounds, segment, history, windows
<1>10. CASE BeginTurn
  BY <1>0, <1>10 DEF AuthInv, Registered, Running, BeginTurn, Claim, registry,
     inbox, log, bounds, segment, history, windows
<1>11. CASE Enters
  BY <1>0, <1>11 DEF AuthInv, Registered, Running, Enters, AtAwait, registry,
     inbox, log, bounds, segment, history, windows
<1>12. CASE EnterNext
  BY <1>0, <1>12 DEF AuthInv, Registered, Running, EnterNext, registry, inbox, log, bounds, segment, history, windows
<1>13. CASE CommitClaim
  BY <1>0, <1>13 DEF AuthInv, Registered, Running, CommitClaim, registry, inbox, log, bounds, segment, history, windows
<1>14. CASE Refused
  BY <1>0, <1>14 DEF AuthInv, Registered, Running, Refused, AtAwait, registry,
     inbox, log, bounds, segment, history, windows
<1>15. CASE PutBack
  BY <1>0, <1>15 DEF AuthInv, Registered, Running, PutBack, registry, inbox, log, bounds, segment, history, windows
<1>16. CASE StepReturns
  BY <1>0, <1>16 DEF AuthInv, Registered, Running, StepReturns, Claim, AtAwait,
     registry, inbox, log, bounds, segment, history, windows
<1>17. CASE EndTurn
  BY <1>0, <1>17 DEF AuthInv, Registered, Running, EndTurn, AtAwait, registry,
     inbox, log, bounds, segment, history, windows
<1>18. CASE Answer
  BY <1>0, <1>18 DEF AuthInv, Registered, Running, Answer, AtAwait, registry,
     inbox, log, bounds, segment, history, windows
<1>19. CASE Leave
  BY <1>0, <1>19 DEF AuthInv, Registered, Running, Leave, AtAwait, registry,
     inbox, log, bounds, segment, history, windows
<1>20. CASE Steer
  BY <1>0, <1>20 DEF AuthInv, Registered, Running, Steer, AtAwait, registry,
     inbox, log, bounds, segment, history, windows
<1>21. CASE Switch
  BY <1>0, <1>21 DEF AuthInv, Registered, Running, Switch, Stops, AskToStop,
     AtAwait, registry, inbox, log, bounds, segment, history, windows
<1>22. CASE StopAll
  BY <1>0, <1>22 DEF AuthInv, Registered, Running, StopAll, Stops, AskToStop,
     AtAwait, registry, inbox, log, bounds, segment, history, windows
<1>23. CASE Dispose
  BY <1>0, <1>23 DEF AuthInv, Registered, Running, Dispose, AtAwait, registry,
     inbox, log, bounds, segment, history, windows
<1>24. CASE Unwind
  BY <1>0, <1>24 DEF AuthInv, Registered, Running, Unwind, Stops, AskToStop,
     AtAwait, registry, inbox, log, bounds, segment, history, windows
<1>25. CASE Close
  BY <1>0, <1>25 DEF AuthInv, Registered, Running, Close, AtAwait, registry,
     inbox, log, bounds, segment, history, windows
<1>26. CASE Kill
  BY <1>0, <1>26 DEF AuthInv, Registered, Running, Kill, registry, inbox, log,
     bounds, segment, history, windows
<1>27. CASE Resume
  BY <1>0, <1>27 DEF AuthInv, Registered, Running, Resume, registry, inbox, log,
     bounds, segment, history, windows
<1>28. CASE UNCHANGED vars
  BY <1>0, <1>28 DEF AuthInv, Registered, Running, vars, registry, inbox, log,
     bounds, segment, history, windows
<1> QED
  BY <1>1, <1>2, <1>3, <1>4, <1>5, <1>6, <1>7, <1>8, <1>9, <1>10, <1>11, <1>12,
     <1>13, <1>14, <1>15, <1>16, <1>17, <1>18, <1>19, <1>20, <1>21, <1>22,
     <1>23, <1>24, <1>25, <1>26, <1>27, <1>28 DEF Next, Registry, Driver

LEMMA PhasesKept ==
  ASSUME TypeOK, PhaseInv, [Next]_vars PROVE PhaseInv'
<1>0. queue \in Seq(Msg) /\ batch \in Seq(Msg) /\ unlogged \in Seq(Msg)
  BY DEF TypeOK, Msg
<1>1. ASSUME NEW j \in Job, Start(j) PROVE PhaseInv'
  BY <1>0, <1>1 DEF PhaseInv, Taken, Start, AtAwait, registry, inbox, log, bounds, segment, history, windows
<1>2. ASSUME NEW j \in Job, Launched(j) PROVE PhaseInv'
  BY <1>0, <1>2 DEF PhaseInv, Taken, Launched, AtAwait, registry, inbox, log, bounds, segment, history, windows
<1>3. ASSUME NEW j \in Job, Forget(j) PROVE PhaseInv'
  BY <1>0, <1>3 DEF PhaseInv, Taken, Forget, AtAwait, registry, inbox, log, bounds, segment, history, windows
<1>4. ASSUME NEW j \in Job, Exits(j) PROVE PhaseInv'
  BY <1>0, <1>4 DEF PhaseInv, Taken, Exits, registry, inbox, log, bounds, segment, history, windows
<1>5. ASSUME NEW j \in Job, Settle(j) PROVE PhaseInv'
  BY <1>0, <1>5 DEF PhaseInv, Taken, Settle, WaitsOn, Nobody, AtAwait, registry, inbox,
     log, bounds, segment, history, windows
<1>6. ASSUME NEW j \in Job, Deliver(j) PROVE PhaseInv'
  <2> DEFINE waking == Wakes(j) /\ ~disposed
  <2>1. Message(j, waking) \in Msg /\ (Message(j, waking).waking <=> waking)
    BY DEF Message, Msg
  <2>2. queue' = Append(queue, Message(j, waking)) /\ phase' = IF waking /\ phase = "idle" THEN "begin" ELSE phase
    BY <1>6 DEF Deliver
  <2>3. waking => ~disposed
    OBVIOUS
  <2> HIDE DEF waking
  <2>4. WakingIn(queue') <=> WakingIn(queue) \/ waking
    BY <1>0, <2>1, <2>2, AppendFacts
  <2> QED
    BY <1>6, <2>2, <2>3, <2>4 DEF PhaseInv, Taken, Deliver, registry, inbox, log,
       bounds, segment, history, windows
<1>7. ASSUME NEW j \in Job, Output(j) PROVE PhaseInv'
  BY <1>0, <1>7 DEF PhaseInv, Taken, Output, MakeCall, CallOn, HasEnd, AtAwait,
     Started, registry, inbox, log, bounds, segment, history, windows
<1>8. ASSUME NEW j \in Job, CancelByModel(j) PROVE PhaseInv'
  BY <1>0, <1>8 DEF PhaseInv, Taken, CancelByModel, MakeCall, CallOn, HasEnd,
     AskToStop, AtAwait, Started, registry, inbox, log, bounds, segment, history, windows
<1>9. ASSUME NEW j \in Job, CancelByUser(j) PROVE PhaseInv'
  BY <1>0, <1>9 DEF PhaseInv, Taken, CancelByUser, Stops, AskToStop, AtAwait, registry,
     inbox, log, bounds, segment, history, windows
<1>10. CASE BeginTurn
  <2>1. /\ phase = "begin" /\ phase' = "preStep" /\ batch' = queue
        /\ UNCHANGED <<unlogged, turn, call, disposed, ending>>
    BY <1>10 DEF BeginTurn, Claim, segment
  <2> QED
    BY <2>1 DEF PhaseInv, Taken, WakingIn
<1>11. CASE Enters
  <2>1. /\ phase = "preStep" /\ phase' = "entering" /\ unlogged' = batch
        /\ UNCHANGED <<queue, batch, turn, call, disposed, ending>>
    BY <1>11 DEF Enters
  <2>2. Len(batch) <= Len(batch)
    BY <1>0, LenProperties
  <2> QED
    BY <2>1, <2>2 DEF PhaseInv, Taken, WakingIn
<1>12. CASE EnterNext
  <2>1. /\ phase = "entering" /\ UNCHANGED <<queue, batch, phase, call, disposed, ending>>
        /\ unlogged # <<>> /\ unlogged' = Tail(unlogged) /\ turn' # {}
    BY <1>12 DEF EnterNext
  <2>2. Len(unlogged') < Len(batch')
    BY <1>0, <2>1, TailFacts, LenProperties DEF PhaseInv
  <2>3. unlogged' # batch'
    BY <1>0, <2>1, <2>2, LenProperties
  <2> QED
    BY <1>0, <2>1, <2>2, <2>3, LenProperties DEF PhaseInv, Taken
<1>13. CASE CommitClaim
  <2>1. /\ phase = "entering" /\ unlogged = <<>> /\ batch' = <<>> /\ phase' = "stepping"
        /\ UNCHANGED <<unlogged, turn, call, ending>>
    BY <1>13 DEF CommitClaim, segment
  <2>2. turn # {}
    BY <2>1, Nothing DEF PhaseInv, Taken
  <2> QED
    BY <2>1, <2>2 DEF PhaseInv, Taken
<1>14. CASE Refused
  <2>1. /\ phase = "preStep" /\ phase' = "ending" /\ batch' = <<>> /\ unlogged' = Quieted(batch)
        /\ UNCHANGED <<queue, turn, call, disposed, ending>>
    BY <1>14 DEF Refused
  <2>2. ~WakingIn(unlogged')
    BY <1>0, <2>1, QuietedFacts
  <2> QED
    BY <2>1, <2>2 DEF PhaseInv, Taken
<1>15. CASE PutBack
  <2>1. /\ phase = "ending" /\ unlogged # <<>> /\ unlogged' = Tail(unlogged)
        /\ UNCHANGED <<batch, phase, turn, call, disposed, ending>>
    BY <1>15 DEF PutBack
  <2>2. ~WakingIn(unlogged')
    BY <1>0, <2>1, TailFacts DEF PhaseInv
  <2> QED
    BY <2>1, <2>2 DEF PhaseInv, Taken
<1>16. CASE StepReturns
  <2>1. /\ phase = "stepping" /\ call = NoCall /\ turn # {} /\ ~ending
        /\ batch = <<>> /\ unlogged = <<>>
        /\ UNCHANGED <<call, turn, ending, disposed, unlogged>>
        /\ phase' = "preStep" \/ (phase' = "ending" /\ batch' = batch)
    BY <1>16 DEF PhaseInv, StepReturns, Claim, AtAwait, inbox, segment
  <2> QED
    BY <2>1, Nothing DEF PhaseInv, Taken
<1>17. CASE EndTurn
  BY <1>0, <1>17 DEF PhaseInv, Taken, EndTurn, AtAwait, registry, inbox, log, bounds, segment, history, windows
<1>18. CASE Answer
  BY <1>0, <1>18 DEF PhaseInv, Taken, Answer, AtAwait, registry, inbox, log, bounds, segment, history, windows
<1>19. CASE Leave
  BY <1>0, <1>19 DEF PhaseInv, Taken, Leave, AtAwait, registry, inbox, log, bounds, segment, history, windows
<1>20. CASE Steer
  <2>1. Message(Human, TRUE) \in Msg /\ Message(Human, TRUE).waking
    BY DEF Message, Msg
  <2>2. queue' = Append(queue, Message(Human, TRUE)) /\ ~disposed /\ phase \notin {"closed", "dead", "begin"}
    BY <1>20 DEF Steer, AtAwait
  <2>3. WakingIn(queue')
    BY <1>0, <2>1, <2>2, AppendFacts
  <2> QED
    BY <1>20, <2>2, <2>3 DEF PhaseInv, Taken, Steer, registry, inbox, log, bounds, segment, history, windows
<1>21. CASE Switch
  BY <1>0, <1>21 DEF PhaseInv, Taken, Switch, Stops, AskToStop, AtAwait, registry,
     inbox, log, bounds, segment, history, windows
<1>22. CASE StopAll
  BY <1>0, <1>22 DEF PhaseInv, Taken, StopAll, Stops, AskToStop, AtAwait, registry,
     inbox, log, bounds, segment, history, windows
<1>23. CASE Dispose
  BY <1>0, <1>23 DEF PhaseInv, Taken, Dispose, AtAwait, registry, inbox, log, bounds, segment, history, windows
<1>24. CASE Unwind
  BY <1>0, <1>24 DEF PhaseInv, Taken, Unwind, Stops, AskToStop, AtAwait, registry,
     inbox, log, bounds, segment, history, windows
<1>25. CASE Close
  BY <1>0, <1>25 DEF PhaseInv, Taken, Close, AtAwait, registry, inbox, log, bounds, segment, history, windows
<1>26. CASE Kill
  BY <1>0, <1>26 DEF PhaseInv, Taken, Kill, registry, inbox, log, bounds, segment, history, windows
<1>27. CASE Resume
  BY <1>0, <1>27 DEF PhaseInv, Taken, Resume, registry, inbox, log, bounds, segment, history, windows
<1>28. CASE UNCHANGED vars
  BY <1>0, <1>28 DEF PhaseInv, Taken, vars, registry, inbox, log, bounds, segment, history, windows
<1> QED
  BY <1>1, <1>2, <1>3, <1>4, <1>5, <1>6, <1>7, <1>8, <1>9, <1>10, <1>11, <1>12,
     <1>13, <1>14, <1>15, <1>16, <1>17, <1>18, <1>19, <1>20, <1>21, <1>22,
     <1>23, <1>24, <1>25, <1>26, <1>27, <1>28 DEF Next, Registry, Driver

LEMMA StopsKept ==
  ASSUME TypeOK, StopInv, [Next]_vars PROVE StopInv'
<1>0. Registered
  BY DEF TypeOK, Registered
<1>1. ASSUME NEW j \in Job, Start(j) PROVE StopInv'
  BY <1>0, <1>1 DEF StopInv, Registered, Running, Start, AtAwait, registry,
     inbox, log, bounds, segment, history, windows
<1>2. ASSUME NEW j \in Job, Launched(j) PROVE StopInv'
  BY <1>0, <1>2 DEF StopInv, Registered, Running, Launched, AtAwait, registry,
     inbox, log, bounds, segment, history, windows
<1>3. ASSUME NEW j \in Job, Forget(j) PROVE StopInv'
  BY <1>0, <1>3 DEF StopInv, Registered, Running, Forget, AtAwait, registry,
     inbox, log, bounds, segment, history, windows
<1>4. ASSUME NEW j \in Job, Exits(j) PROVE StopInv'
  BY <1>0, <1>4 DEF StopInv, Registered, Running, Exits, registry, inbox, log,
     bounds, segment, history, windows
<1>5. ASSUME NEW j \in Job, Settle(j) PROVE StopInv'
  BY <1>0, <1>5 DEF StopInv, Registered, Running, Settle, WaitsOn, Nobody,
     AtAwait, registry, inbox, log, bounds, segment, history, windows
<1>6. ASSUME NEW j \in Job, Deliver(j) PROVE StopInv'
  BY <1>0, <1>6 DEF StopInv, Registered, Running, Wakes, Deliver, registry,
     inbox, log, bounds, segment, history, windows
<1>7. ASSUME NEW j \in Job, Output(j) PROVE StopInv'
  BY <1>0, <1>7 DEF StopInv, Registered, Running, Output, MakeCall, CallOn,
     HasEnd, AtAwait, Started, registry, inbox, log, bounds, segment, history, windows
<1>8. ASSUME NEW j \in Job, CancelByModel(j) PROVE StopInv'
  BY <1>0, <1>8 DEF StopInv, Registered, Running, CancelByModel, MakeCall,
     CallOn, HasEnd, AskToStop, AtAwait, Started, registry, inbox, log, bounds, segment, history, windows
<1>9. ASSUME NEW j \in Job, CancelByUser(j) PROVE StopInv'
  BY <1>0, <1>9 DEF StopInv, Registered, Running, CancelByUser, Stops,
     AskToStop, AtAwait, registry, inbox, log, bounds, segment, history, windows
<1>10. CASE BeginTurn
  BY <1>0, <1>10 DEF StopInv, Registered, Running, BeginTurn, Claim, registry,
     inbox, log, bounds, segment, history, windows
<1>11. CASE Enters
  BY <1>0, <1>11 DEF StopInv, Registered, Running, Enters, AtAwait, registry,
     inbox, log, bounds, segment, history, windows
<1>12. CASE EnterNext
  BY <1>0, <1>12 DEF StopInv, Registered, Running, EnterNext, registry, inbox, log, bounds, segment, history, windows
<1>13. CASE CommitClaim
  BY <1>0, <1>13 DEF StopInv, Registered, Running, CommitClaim, registry, inbox, log, bounds, segment, history, windows
<1>14. CASE Refused
  BY <1>0, <1>14 DEF StopInv, Registered, Running, Refused, AtAwait, registry,
     inbox, log, bounds, segment, history, windows
<1>15. CASE PutBack
  BY <1>0, <1>15 DEF StopInv, Registered, Running, PutBack, registry, inbox, log, bounds, segment, history, windows
<1>16. CASE StepReturns
  BY <1>0, <1>16 DEF StopInv, Registered, Running, StepReturns, Claim, AtAwait,
     registry, inbox, log, bounds, segment, history, windows
<1>17. CASE EndTurn
  BY <1>0, <1>17 DEF StopInv, Registered, Running, EndTurn, AtAwait, registry,
     inbox, log, bounds, segment, history, windows
<1>18. CASE Answer
  BY <1>0, <1>18 DEF StopInv, Registered, Running, Answer, AtAwait, registry,
     inbox, log, bounds, segment, history, windows
<1>19. CASE Leave
  BY <1>0, <1>19 DEF StopInv, Registered, Running, Leave, AtAwait, registry,
     inbox, log, bounds, segment, history, windows
<1>20. CASE Steer
  BY <1>0, <1>20 DEF StopInv, Registered, Running, Steer, AtAwait, registry,
     inbox, log, bounds, segment, history, windows
<1>21. CASE Switch
  BY <1>0, <1>21 DEF StopInv, Registered, Running, Switch, Stops, AskToStop,
     AtAwait, registry, inbox, log, bounds, segment, history, windows
<1>22. CASE StopAll
  BY <1>0, <1>22 DEF StopInv, Registered, Running, StopAll, Stops, AskToStop,
     AtAwait, registry, inbox, log, bounds, segment, history, windows
<1>23. CASE Dispose
  BY <1>0, <1>23 DEF StopInv, Registered, Running, Dispose, AtAwait, registry,
     inbox, log, bounds, segment, history, windows
<1>24. CASE Unwind
  BY <1>0, <1>24 DEF StopInv, Registered, Running, Unwind, Stops, AskToStop,
     AtAwait, registry, inbox, log, bounds, segment, history, windows
<1>25. CASE Close
  BY <1>0, <1>25 DEF StopInv, Registered, Running, Close, AtAwait, registry,
     inbox, log, bounds, segment, history, windows
<1>26. CASE Kill
  BY <1>0, <1>26 DEF StopInv, Registered, Running, Kill, registry, inbox, log,
     bounds, segment, history, windows
<1>27. CASE Resume
  BY <1>0, <1>27 DEF StopInv, Registered, Running, Resume, registry, inbox, log,
     bounds, segment, history, windows
<1>28. CASE UNCHANGED vars
  BY <1>0, <1>28 DEF StopInv, Registered, Running, vars, registry, inbox, log,
     bounds, segment, history, windows
<1> QED
  BY <1>1, <1>2, <1>3, <1>4, <1>5, <1>6, <1>7, <1>8, <1>9, <1>10, <1>11, <1>12,
     <1>13, <1>14, <1>15, <1>16, <1>17, <1>18, <1>19, <1>20, <1>21, <1>22,
     <1>23, <1>24, <1>25, <1>26, <1>27, <1>28 DEF Next, Registry, Driver

-----------------------------------------------------------------------------
(* The budget.  The claim that opens a pre-step await empties the inbox, so *)
(* what is queued during it was counted before the turn entered anything.   *)
LEMMA ClaimCounts ==
  ASSUME queue \in Seq(Msg), FoldWakes \in Nat, Allowed \in Nat, WakeInv, phase # "entering", Claim
  PROVE  WakeInv'
<1>1. /\ batch' = queue /\ queue' = <<>> /\ FoldWakes' = FoldWakes /\ Allowed' = Allowed
      /\ phase' = "preStep"
  BY DEF Claim, FoldWakes, Allowed, registry, inbox, log,
     bounds, segment, history, windows
<1>2. ~JobWaking(queue') /\ (JobWaking(batch') <=> JobWaking(queue))
  BY <1>1, Nothing DEF JobWaking
<1> QED
  BY <1>1, <1>2 DEF WakeInv

LEMMA WakesKept ==
  ASSUME TypeOK, PhaseInv, WakeInv, [Next]_vars PROVE WakeInv'
<1>0. /\ queue \in Seq(Msg) /\ batch \in Seq(Msg)
      /\ unlogged \in Seq(Msg)
      /\ wakes \in Nat /\ budget \in Nat /\ cuts \in Nat /\ FoldWakes \in Nat
      /\ Allowed \in Nat
  <2>1. /\ queue \in Seq(Msg) /\ batch \in Seq(Msg) /\ unlogged \in Seq(Msg)
        /\ wakes \in Nat /\ cuts \in Nat
    BY DEF TypeOK, Msg
  <2>2. budget \in Nat
    BY JobBounds DEF TypeOK
  <2> QED
    BY <2>1, <2>2, WakesCounted DEF Allowed
<1>1. ASSUME NEW j \in Job, Start(j) PROVE WakeInv'
  BY <1>0, <1>1 DEF WakeInv, Taken, Allowed, FoldWakes, JobWaking, Start, AtAwait,
     registry, inbox, log, bounds, segment, history, windows
<1>2. ASSUME NEW j \in Job, Launched(j) PROVE WakeInv'
  BY <1>0, <1>2 DEF WakeInv, Taken, Allowed, FoldWakes, JobWaking, Launched,
     AtAwait, registry, inbox, log, bounds, segment, history, windows
<1>3. ASSUME NEW j \in Job, Forget(j) PROVE WakeInv'
  BY <1>0, <1>3 DEF WakeInv, Taken, Allowed, FoldWakes, JobWaking, Forget, AtAwait,
     registry, inbox, log, bounds, segment, history, windows
<1>4. ASSUME NEW j \in Job, Exits(j) PROVE WakeInv'
  BY <1>0, <1>4 DEF WakeInv, Taken, Allowed, FoldWakes, JobWaking, Exits, registry,
     inbox, log, bounds, segment, history, windows
<1>5. ASSUME NEW j \in Job, Settle(j) PROVE WakeInv'
  BY <1>0, <1>5 DEF WakeInv, Taken, Allowed, FoldWakes, JobWaking, Settle, WaitsOn,
     Nobody, AtAwait, registry, inbox, log, bounds, segment, history, windows
<1>6. ASSUME NEW j \in Job, Deliver(j) PROVE WakeInv'
  <2> DEFINE waking == Wakes(j) /\ ~disposed
  <2>1. Message(j, waking) \in Msg /\ (Message(j, waking).waking <=> waking) /\ Message(j, waking).who = j
    BY DEF Message, Msg
  <2>2. queue' = Append(queue, Message(j, waking))
    BY <1>6 DEF Deliver
  <2>3. waking => FoldWakes < budget
    BY DEF Wakes
  <2> HIDE DEF waking
  <2>4. JobWaking(queue') => JobWaking(queue) \/ waking
    BY <1>0, <2>1, <2>2, AppendFacts
  <2>5. /\ FoldWakes' = FoldWakes /\ Allowed' = Allowed /\ batch' = batch /\ unlogged' = unlogged
        /\ (phase' = phase \/ (phase = "idle" /\ phase' = "begin"))
    BY <1>6 DEF Deliver, FoldWakes, Allowed, registry, inbox, log, bounds, segment,
       history, windows
  <2>6. (Taken' <=> Taken) /\ (phase' = "entering" <=> phase = "entering")
        /\ (JobWaking(batch') <=> JobWaking(batch))
    BY <2>5 DEF Taken, JobWaking
  <2>7. waking => FoldWakes < Allowed
    BY <1>0, <2>3 DEF Allowed
  <2> QED
    BY <1>0, <2>4, <2>5, <2>6, <2>7 DEF WakeInv
<1>7. ASSUME NEW j \in Job, Output(j) PROVE WakeInv'
  BY <1>0, <1>7 DEF WakeInv, Taken, Allowed, FoldWakes, JobWaking, Output, MakeCall,
     CallOn, HasEnd, AtAwait, Started, registry, inbox, log, bounds, segment, history, windows
<1>8. ASSUME NEW j \in Job, CancelByModel(j) PROVE WakeInv'
  BY <1>0, <1>8 DEF WakeInv, Taken, Allowed, FoldWakes, JobWaking, CancelByModel,
     MakeCall, CallOn, HasEnd, AskToStop, AtAwait, Started, registry, inbox,
     log, bounds, segment, history, windows
<1>9. ASSUME NEW j \in Job, CancelByUser(j) PROVE WakeInv'
  BY <1>0, <1>9 DEF WakeInv, Taken, Allowed, FoldWakes, JobWaking, CancelByUser,
     Stops, AskToStop, AtAwait, registry, inbox, log, bounds, segment, history, windows
<1>10. CASE BeginTurn
  <2>1. Claim /\ phase # "entering"
    BY <1>10 DEF BeginTurn
  <2> QED
    BY <1>0, <2>1, ClaimCounts
<1>11. CASE Enters
  <2>1. /\ phase = "preStep" /\ phase' = "entering" /\ unlogged' = batch
        /\ UNCHANGED <<queue, batch, turn, wakes, budget, cuts>>
    BY <1>11 DEF Enters, registry, inbox, log,
     bounds, segment, history, windows
  <2>2. FoldWakes' = FoldWakes /\ Allowed' = Allowed /\ Taken' /\ Taken
    BY <2>1 DEF FoldWakes, Allowed, Taken
  <2> QED
    BY <1>0, <2>1, <2>2 DEF WakeInv, JobWaking
<1>12. CASE EnterNext
  <2> DEFINE m == Head(unlogged)
             rest == Tail(unlogged)
  <2>1. /\ phase = "entering" /\ phase' = "entering" /\ unlogged # <<>> /\ unlogged' = rest
        /\ UNCHANGED <<queue, batch, wakes, budget, cuts>>
        /\ turn' = turn \union {IF m.who = Human THEN Human ELSE "job"}
    BY <1>12 DEF EnterNext, registry, inbox, log, bounds, segment, history, windows
  <2>2. /\ rest \in Seq(Msg) /\ Senders(unlogged) = {m.who} \union Senders(rest)
        /\ Len(rest) < Len(unlogged) /\ Len(unlogged) <= Len(batch)
    BY <1>0, <2>1, TailFacts, LenProperties DEF PhaseInv
  <2>3. rest # batch
    BY <1>0, <2>2, LenProperties
  <2>4. ~Taken' /\ Allowed' = Allowed /\ (JobWaking(queue') <=> JobWaking(queue))
        /\ (JobWaking(batch') <=> JobWaking(batch))
    BY <2>1, <2>3 DEF Taken, Allowed, JobWaking
  <2> HIDE DEF rest, m
  <2>5. CASE Human \in turn'
    <3>1. FoldWakes' = 0
      BY <2>5 DEF FoldWakes
    <3> QED
      BY <1>0, <2>1, <2>4, <3>1 DEF WakeInv
  <2>6. CASE Human \notin turn'
    <3>1. m.who # Human /\ Human \notin turn
      BY <2>1, <2>6
    <3>2. CASE turn # {}
      <4>1. FoldWakes' = FoldWakes
        BY <2>1, <2>6, <3>1, <3>2 DEF FoldWakes
      <4>2. Human \in Senders(unlogged) => Human \in Senders(unlogged')
        BY <2>1, <2>2, <3>1
      <4>3. FoldWakes' <= Allowed' + 1 \/ Human \in Senders(unlogged')
        BY <1>0, <2>4, <4>1, <4>2 DEF WakeInv
      <4> QED
        BY <1>0, <2>1, <2>4, <4>1, <4>3 DEF WakeInv
    <3>3. CASE turn = {}
      <4>1. Taken /\ WakingIn(batch) /\ unlogged = batch
        BY <2>1, <3>3 DEF PhaseInv, Taken
      <4>2. FoldWakes' = FoldWakes + 1
        BY <2>1, <2>6, <3>3 DEF FoldWakes
      <4>3. JobWaking(batch) \/ Human \in Senders(unlogged')
        <5>1. PICK i \in DOMAIN batch : batch[i].waking
          BY <4>1 DEF WakingIn
        <5>2. CASE batch[i].who # Human
          BY <5>1, <5>2 DEF JobWaking
        <5>3. CASE batch[i].who = Human
          <6>1. Human \in Senders(unlogged)
            BY <4>1, <5>1, <5>3 DEF Senders
          <6> QED
            BY <2>1, <2>2, <3>1, <6>1
        <5> QED
          BY <5>2, <5>3
      <4>4. FoldWakes' <= Allowed' + 1 \/ Human \in Senders(unlogged')
        BY <1>0, <2>4, <4>1, <4>2, <4>3 DEF WakeInv
      <4>5. FoldWakes <= Allowed + 1
        BY <1>0, <4>1 DEF WakeInv
      <4>6. JobWaking(queue) => FoldWakes < Allowed
        BY <4>1 DEF WakeInv
      <4>7. JobWaking(batch) => FoldWakes <= Allowed
        BY <4>1 DEF WakeInv
      <4> QED
        BY <1>0, <2>1, <2>4, <4>2, <4>4, <4>5, <4>6, <4>7 DEF WakeInv
    <3> QED
      BY <3>2, <3>3
  <2> QED
    BY <2>5, <2>6
<1>13. CASE CommitClaim
  <2>1. /\ phase = "entering" /\ unlogged = <<>> /\ batch' = <<>> /\ phase' = "stepping"
        /\ UNCHANGED <<queue, turn, wakes, budget, cuts>>
    BY <1>13 DEF CommitClaim, registry, inbox, log, bounds, segment, history, windows
  <2>2. FoldWakes' = FoldWakes /\ Allowed' = Allowed /\ ~Taken' /\ ~JobWaking(batch')
    BY <2>1, Nothing DEF FoldWakes, Allowed, Taken
  <2>3. FoldWakes <= Allowed + 1
    BY <1>0, <2>1, Nothing DEF WakeInv
  <2> QED
    BY <1>0, <2>1, <2>2, <2>3 DEF WakeInv, JobWaking
<1>14. CASE Refused
  <2>1. /\ phase' = "ending" /\ batch' = <<>>
        /\ UNCHANGED <<queue, turn, wakes, budget, cuts>> /\ phase = "preStep"
    BY <1>14 DEF Refused, registry, inbox, log,
     bounds, segment, history, windows
  <2>2. FoldWakes' = FoldWakes /\ Allowed' = Allowed /\ ~Taken' /\ ~JobWaking(batch')
    BY <2>1, Nothing DEF FoldWakes, Allowed, Taken
  <2> QED
    BY <1>0, <2>1, <2>2 DEF WakeInv, JobWaking
<1>15. CASE PutBack
  <2>1. /\ phase = "ending" /\ unlogged # <<>> /\ queue' = Append(queue, Head(unlogged))
        /\ UNCHANGED <<batch, phase, turn, wakes, budget, cuts>>
    BY <1>15 DEF PutBack, registry, inbox, log, bounds, segment, history, windows
  <2>2. Head(unlogged) \in Msg /\ ~Head(unlogged).waking
    BY <1>0, <2>1, TailFacts DEF PhaseInv
  <2>3. JobWaking(queue') => JobWaking(queue)
    BY <1>0, <2>1, <2>2, AppendFacts
  <2>4. FoldWakes' = FoldWakes /\ Allowed' = Allowed /\ ~Taken' /\ ~Taken
    BY <2>1 DEF FoldWakes, Allowed, Taken
  <2> QED
    BY <1>0, <2>1, <2>3, <2>4 DEF WakeInv, JobWaking
<1>16. CASE StepReturns
  <2>1. ASSUME Claim PROVE WakeInv'
    <3>1. phase # "entering"
      BY <1>16 DEF StepReturns
    <3> QED
      BY <1>0, <2>1, <3>1, ClaimCounts
  <2>2. ASSUME phase' = "ending",
               UNCHANGED <<bounds, mode, registry, calls, call, disposed, ending,
                           queue, batch, turn, segment, log, history>>
        PROVE  WakeInv'
    BY <1>16, <2>2 DEF StepReturns, WakeInv, Taken, Allowed, JobWaking, FoldWakes, registry, inbox, log, bounds, segment, history, windows
  <2> QED
    BY <1>16, <2>1, <2>2 DEF StepReturns
<1>17. CASE EndTurn
  <2>1. FoldWakes' = FoldWakes /\ ~Taken' /\ UNCHANGED <<queue, batch, budget, cuts>>
        /\ phase = "ending"
    BY <1>17 DEF EndTurn, FoldWakes, Taken, registry, inbox, log,
     bounds, segment, history, windows
  <2> QED
    BY <2>1 DEF WakeInv, Allowed, JobWaking
<1>18. CASE Answer
  BY <1>0, <1>18 DEF WakeInv, Taken, Allowed, FoldWakes, JobWaking, Answer, AtAwait,
     registry, inbox, log, bounds, segment, history, windows
<1>19. CASE Leave
  BY <1>0, <1>19 DEF WakeInv, Taken, Allowed, FoldWakes, JobWaking, Leave, AtAwait,
     registry, inbox, log, bounds, segment, history, windows
<1>20. CASE Steer
  <2>1. Message(Human, TRUE) \in Msg /\ Message(Human, TRUE).who = Human
    BY DEF Message, Msg
  <2>2. queue' = Append(queue, Message(Human, TRUE))
    BY <1>20 DEF Steer
  <2>4. JobWaking(queue') => JobWaking(queue)
    BY <1>0, <2>1, <2>2, AppendFacts
  <2>5. /\ FoldWakes' = FoldWakes /\ Allowed' = Allowed /\ batch' = batch /\ unlogged' = unlogged
        /\ (phase' = phase \/ (phase = "idle" /\ phase' = "begin"))
    BY <1>20 DEF Steer, FoldWakes, Allowed, registry, inbox, log, bounds, segment,
       history, windows
  <2>6. (Taken' <=> Taken) /\ (phase' = "entering" <=> phase = "entering")
        /\ (JobWaking(batch') <=> JobWaking(batch))
    BY <2>5 DEF Taken, JobWaking
  <2> QED
    BY <1>0, <2>4, <2>5, <2>6 DEF WakeInv
<1>21. CASE Switch
  BY <1>0, <1>21 DEF WakeInv, Taken, Allowed, FoldWakes, JobWaking, Switch, Stops,
     AskToStop, AtAwait, registry, inbox, log, bounds, segment, history, windows
<1>22. CASE StopAll
  BY <1>0, <1>22 DEF WakeInv, Taken, Allowed, FoldWakes, JobWaking, StopAll, Stops,
     AskToStop, AtAwait, registry, inbox, log, bounds, segment, history, windows
<1>23. CASE Dispose
  BY <1>0, <1>23 DEF WakeInv, Taken, Allowed, FoldWakes, JobWaking, Dispose,
     AtAwait, registry, inbox, log, bounds, segment, history, windows
<1>24. CASE Unwind
  BY <1>0, <1>24 DEF WakeInv, Taken, Allowed, FoldWakes, JobWaking, Unwind, Stops,
     AskToStop, AtAwait, registry, inbox, log, bounds, segment, history, windows
<1>25. CASE Close
  BY <1>0, <1>25 DEF WakeInv, Taken, Allowed, FoldWakes, JobWaking, Close, AtAwait,
     registry, inbox, log, bounds, segment, history, windows
<1>26. CASE Kill
  <2>1. /\ queue' = batch \o queue /\ batch' = <<>> /\ phase' = "dead"
        /\ UNCHANGED <<turn, wakes, budget>>
        /\ cuts' = IF phase = "entering" /\ unlogged # batch THEN cuts + 1 ELSE cuts
    BY <1>26 DEF Kill, registry, inbox, log,
     bounds, segment, history, windows
  <2>2. JobWaking(queue') => JobWaking(queue) \/ JobWaking(batch)
    BY <1>0, <2>1, ConcatFacts
  <2>3. FoldWakes' = FoldWakes /\ ~JobWaking(batch') /\ ~Taken'
    BY <2>1, Nothing DEF FoldWakes, Taken
  <2>4. CASE phase = "entering" /\ ~Taken
    <3>1. Allowed' = Allowed + 1
      BY <1>0, <2>1, <2>4 DEF Allowed, Taken
    <3> QED
      BY <1>0, <2>2, <2>3, <3>1 DEF WakeInv
  <2>5. CASE ~(phase = "entering" /\ ~Taken)
    <3>1. Allowed' = Allowed
      BY <2>1, <2>5 DEF Allowed, Taken
    <3>2. JobWaking(batch) => Taken
      BY <2>5, Nothing DEF PhaseInv, Taken
    <3> QED
      BY <1>0, <2>2, <2>3, <2>5, <3>1, <3>2 DEF WakeInv
  <2> QED
    BY <2>4, <2>5
<1>27. CASE Resume
  <2>1. OwedNotices \in SUBSET Job
    BY DEF OwedNotices, Started
  <2>0. PICK owed \in SetToSeqs(OwedNotices) :
          queue' = queue \o [i \in DOMAIN owed |-> Message(owed[i], FALSE)]
    BY <1>27 DEF Resume
  <2> DEFINE r == [i \in DOMAIN owed |-> Message(owed[i], FALSE)]
  <2>2. r \in Seq(Msg) /\ Senders(r) = OwedNotices /\ ~JobWaking(r) /\ queue' = queue \o r
    BY <2>0, <2>1, NoticesFor
  <2> HIDE DEF r
  <2>3. JobWaking(queue') => JobWaking(queue)
    BY <1>0, <2>2, ConcatFacts
  <2>4. /\ FoldWakes' = FoldWakes /\ ~Taken' /\ phase # "entering"
        /\ UNCHANGED <<batch, budget, cuts>>
    BY <1>27 DEF Resume, FoldWakes, Taken, registry, inbox, log, bounds, segment,
       history, windows
  <2> QED
    BY <1>0, <2>3, <2>4 DEF WakeInv, Allowed, JobWaking
<1>28. CASE UNCHANGED vars
  BY <1>0, <1>28 DEF WakeInv, Taken, Allowed, FoldWakes, JobWaking, vars, registry,
     inbox, log, bounds, segment, history, windows
<1> QED
  BY <1>1, <1>2, <1>3, <1>4, <1>5, <1>6, <1>7, <1>8, <1>9, <1>10, <1>11, <1>12,
     <1>13, <1>14, <1>15, <1>16, <1>17, <1>18, <1>19, <1>20, <1>21, <1>22,
     <1>23, <1>24, <1>25, <1>26, <1>27, <1>28 DEF Next, Registry, Driver

(* The notices: a step that touches neither log nor inbox; a claim, which   *)
(* moves them all; and the rest.                                            *)
LEMMA QuietStep ==
  ASSUME NoticeInv, phase' = "entering" <=> phase = "entering",
         UNCHANGED <<queue, batch, unlogged, noticed, entered, ended, again, unsaid>>,
         \A k \in Job : entry'[k] \in {"ended", "over"} <=> entry[k] \in {"ended", "over"}
  PROVE  NoticeInv'
<1>1. /\ Senders(queue') = Senders(queue) /\ Senders(batch') = Senders(batch)
      /\ Senders(unlogged') = Senders(unlogged)
  OBVIOUS
<1>2. \A k \in Job : HasEnd(k)' <=> HasEnd(k)
  BY DEF HasEnd
<1>3. /\ OnceIn(queue') <=> OnceIn(queue)
      /\ OnceIn(batch') <=> OnceIn(batch)
      /\ OnceIn(unlogged') <=> OnceIn(unlogged)
  OBVIOUS
<1> QED
  BY <1>1, <1>2, <1>3 DEF NoticeInv

(* A notice that is in no record is in no queue, and was never entered.     *)
LEMMA Unnoticed ==
  ASSUME NoticeInv, entered \in [Job -> Nat], again \in [Job -> Nat],
         NEW k \in Job, k \notin noticed
  PROVE  /\ entered[k] = again[k] /\ k \notin Senders(queue) /\ k \notin Senders(batch)
         /\ k \notin Senders(unlogged)
<1>1. ~(entered[k] > 0) /\ again[k] <= entered[k]
  BY DEF NoticeInv
<1>2. entered[k] \in Nat /\ again[k] \in Nat
  OBVIOUS
<1> QED
  BY <1>1, <1>2 DEF NoticeInv

LEMMA ClaimTells ==
  ASSUME batch = <<>>, unlogged = <<>>, NoticeInv, phase # "entering", Claim
  PROVE  NoticeInv'
<1>1. /\ batch' = queue /\ queue' = <<>> /\ phase' = "preStep"
      /\ UNCHANGED <<noticed, entry, ended, entered, unlogged, again, unsaid>>
  BY DEF Claim, registry, inbox, log,
     bounds, segment, history, windows
<1>2. /\ Senders(batch') = Senders(queue) /\ Senders(queue') = {} /\ Senders(batch) = {}
      /\ Senders(unlogged) = {} /\ Senders(unlogged') = {}
      /\ OnceIn(queue') /\ OnceIn(batch') /\ OnceIn(unlogged')
      /\ \A k \in Job : HasEnd(k)' <=> HasEnd(k)
  BY <1>1, Nothing DEF HasEnd, NoticeInv
<1> QED
  BY <1>1, <1>2 DEF NoticeInv

LEMMA NoticesKept ==
  ASSUME TypeOK, PhaseInv, OwedInv, NoticeInv, [Next]_vars PROVE NoticeInv'
<1>0. /\ queue \in Seq(Msg) /\ batch \in Seq(Msg)
      /\ unlogged \in Seq(Msg)
      /\ entered \in [Job -> Nat] /\ again \in [Job -> Nat] /\ Registered
      /\ ended \in [Job -> [how : {"no", "own", "stopped", "lost"}, by : Calls \union {Nobody}]]
  BY DEF TypeOK, Msg, Registered
<1>1. ASSUME NEW j \in Job, Start(j) PROVE NoticeInv'
  <2>1. /\ UNCHANGED <<queue, batch, unlogged, noticed, entered, ended, again, unsaid>>
        /\ phase' = "entering" <=> phase = "entering"
        /\ \A k \in Job : entry'[k] \in {"ended", "over"} <=> entry[k] \in {"ended", "over"}
    BY <1>0, <1>1 DEF Registered, Start, AtAwait, registry, inbox, log, bounds, segment, history, windows
  <2> QED
    BY <2>1, QuietStep
<1>2. ASSUME NEW j \in Job, Launched(j) PROVE NoticeInv'
  <2>1. /\ UNCHANGED <<queue, batch, unlogged, noticed, entered, ended, again, unsaid>>
        /\ phase' = "entering" <=> phase = "entering"
        /\ \A k \in Job : entry'[k] \in {"ended", "over"} <=> entry[k] \in {"ended", "over"}
    BY <1>0, <1>2 DEF Registered, Launched, AtAwait, registry, inbox, log,
       bounds, segment, history, windows
  <2> QED
    BY <2>1, QuietStep
<1>3. ASSUME NEW j \in Job, Forget(j) PROVE NoticeInv'
  <2>1. /\ UNCHANGED <<queue, batch, unlogged, noticed, entered, ended, again, unsaid>>
        /\ phase' = "entering" <=> phase = "entering"
        /\ \A k \in Job : entry'[k] \in {"ended", "over"} <=> entry[k] \in {"ended", "over"}
    BY <1>0, <1>3 DEF Registered, Forget, AtAwait, registry, inbox, log, bounds, segment, history, windows
  <2> QED
    BY <2>1, QuietStep
<1>4. ASSUME NEW j \in Job, Exits(j) PROVE NoticeInv'
  <2>1. /\ UNCHANGED <<queue, batch, unlogged, noticed, entered, ended, again, unsaid>>
        /\ phase' = "entering" <=> phase = "entering"
        /\ \A k \in Job : entry'[k] \in {"ended", "over"} <=> entry[k] \in {"ended", "over"}
    BY <1>0, <1>4 DEF Registered, Exits, registry, inbox, log, bounds, segment, history, windows
  <2> QED
    BY <2>1, QuietStep
<1>5. ASSUME NEW j \in Job, Settle(j) PROVE NoticeInv'
  <2>1. HasEnd(j)' /\ \A k \in Job \ {j} : HasEnd(k)' <=> HasEnd(k)
    BY <1>0, <1>5 DEF Settle, HasEnd, Unended
  <2>2. entry'[j] = "ended" /\ \A k \in Job \ {j} : entry'[k] = entry[k]
    BY <1>0, <1>5 DEF Settle, Registered
  <2>3. UNCHANGED <<queue, batch, unlogged, noticed, entered, again, unsaid, phase>>
    BY <1>5 DEF Settle, registry, inbox, log, bounds, segment, history, windows
  <2>4. /\ Senders(queue') = Senders(queue) /\ Senders(batch') = Senders(batch)
        /\ Senders(unlogged') = Senders(unlogged)
        /\ OnceIn(queue') /\ OnceIn(batch') /\ OnceIn(unlogged')
    BY <2>3 DEF NoticeInv
  <2> QED
    BY <2>1, <2>2, <2>3, <2>4 DEF NoticeInv
<1>6. ASSUME NEW j \in Job, Deliver(j) PROVE NoticeInv'
  <2> DEFINE waking == Wakes(j) /\ ~disposed
  <2>1. Message(j, waking) \in Msg /\ Message(j, waking).who = j
    BY DEF Message, Msg
  <2>2. queue' = Append(queue, Message(j, waking))
    BY <1>6 DEF Deliver
  <2> HIDE DEF waking
  <2>3. Senders(queue') = Senders(queue) \union {j}
    BY <1>0, <2>1, <2>2, AppendFacts
  <2>4. j \in Job /\ HasEnd(j) /\ j \notin noticed /\ noticed' = noticed \union {j}
    BY <1>6 DEF Deliver, OwedInv
  <2>5. /\ UNCHANGED <<entry, ended, batch, unlogged, entered, again, unsaid>>
        /\ phase' = "entering" <=> phase = "entering"
    BY <1>6 DEF Deliver, registry, inbox, log, bounds, segment, history, windows
  <2>6. /\ entered[j] = again[j] /\ j \notin Senders(queue) /\ j \notin Senders(batch)
        /\ j \notin Senders(unlogged)
    BY <1>0, <2>4, Unnoticed
  <2>7. /\ Senders(batch') = Senders(batch) /\ Senders(unlogged') = Senders(unlogged)
        /\ OnceIn(queue') /\ OnceIn(batch') /\ OnceIn(unlogged')
        /\ \A k \in Job : HasEnd(k)' <=> HasEnd(k)
    BY <1>0, <2>1, <2>2, <2>5, <2>6, AppendFacts DEF HasEnd, NoticeInv
  <2> QED
    BY <2>3, <2>4, <2>5, <2>6, <2>7 DEF NoticeInv
<1>7. ASSUME NEW j \in Job, Output(j) PROVE NoticeInv'
  <2>1. /\ UNCHANGED <<queue, batch, unlogged, noticed, entered, ended, again, unsaid>>
        /\ phase' = "entering" <=> phase = "entering"
        /\ \A k \in Job : entry'[k] \in {"ended", "over"} <=> entry[k] \in {"ended", "over"}
    BY <1>0, <1>7 DEF Registered, Output, MakeCall, CallOn, HasEnd, AtAwait,
       Started, registry, inbox, log, bounds, segment, history, windows
  <2> QED
    BY <2>1, QuietStep
<1>8. ASSUME NEW j \in Job, CancelByModel(j) PROVE NoticeInv'
  <2>1. /\ UNCHANGED <<queue, batch, unlogged, noticed, entered, ended, again, unsaid>>
        /\ phase' = "entering" <=> phase = "entering"
        /\ \A k \in Job : entry'[k] \in {"ended", "over"} <=> entry[k] \in {"ended", "over"}
    BY <1>0, <1>8 DEF Registered, CancelByModel, MakeCall, CallOn, HasEnd,
       AskToStop, AtAwait, Started, registry, inbox, log, bounds, segment, history, windows
  <2> QED
    BY <2>1, QuietStep
<1>9. ASSUME NEW j \in Job, CancelByUser(j) PROVE NoticeInv'
  <2>1. /\ UNCHANGED <<queue, batch, unlogged, noticed, entered, ended, again, unsaid>>
        /\ phase' = "entering" <=> phase = "entering"
        /\ \A k \in Job : entry'[k] \in {"ended", "over"} <=> entry[k] \in {"ended", "over"}
    BY <1>0, <1>9 DEF Registered, CancelByUser, Stops, AskToStop, AtAwait,
       registry, inbox, log, bounds, segment, history, windows
  <2> QED
    BY <2>1, QuietStep
<1>10. CASE BeginTurn
  <2>1. batch = <<>> /\ unlogged = <<>> /\ phase # "entering" /\ Claim
    BY <1>10 DEF BeginTurn, PhaseInv
  <2> QED
    BY <2>1, ClaimTells
<1>11. CASE Enters
  <2>1. /\ phase = "preStep" /\ phase' = "entering" /\ unlogged = <<>> /\ unlogged' = batch
        /\ UNCHANGED <<queue, batch, noticed, entry, ended, entered, again, unsaid>>
    BY <1>11 DEF Enters, PhaseInv, registry, inbox, log,
     bounds, segment, history, windows
  <2>2. /\ Senders(unlogged) = {} /\ Senders(unlogged') = Senders(batch)
        /\ Senders(batch') = Senders(batch) /\ Senders(queue') = Senders(queue)
        /\ OnceIn(queue') /\ OnceIn(batch') /\ OnceIn(unlogged')
        /\ \A k \in Job : HasEnd(k)' <=> HasEnd(k)
    BY <2>1, Nothing DEF HasEnd, NoticeInv
  <2>3. \A k \in Job : k \in Senders(batch) => entered[k] = again[k]
    BY <1>0, <2>1, <2>2 DEF NoticeInv
  <2> QED
    BY <2>1, <2>2, <2>3 DEF NoticeInv
<1>12. CASE EnterNext
  <2> DEFINE m == Head(unlogged)
             rest == Tail(unlogged)
  <2>1. /\ phase = "entering" /\ phase' = "entering" /\ unlogged # <<>> /\ unlogged' = rest
        /\ UNCHANGED <<queue, batch, noticed, entry, ended, again, unsaid>>
        /\ \A k \in Job : entered'[k] = IF k = m.who THEN entered[k] + 1 ELSE entered[k]
    BY <1>12 DEF EnterNext, registry, inbox, log, bounds, segment, history, windows
  <2>2. /\ rest \in Seq(Msg) /\ Senders(unlogged) = {m.who} \union Senders(rest)
        /\ OnceIn(rest) /\ (m.who # Human => m.who \notin Senders(rest))
    BY <1>0, <2>1, TailFacts DEF NoticeInv
  <2>3. /\ Senders(queue') = Senders(queue) /\ Senders(batch') = Senders(batch)
        /\ Senders(unlogged') = Senders(rest)
        /\ OnceIn(queue') /\ OnceIn(batch') /\ OnceIn(unlogged')
        /\ \A k \in Job : (HasEnd(k)' <=> HasEnd(k)) /\ k # Human
    BY <2>1, <2>2, NoJobIsHuman DEF NoticeInv, HasEnd
  <2> HIDE DEF rest, m
  <2>4. ASSUME NEW k \in Job, k = m.who
        PROVE  /\ entered[k] = again[k] /\ entered'[k] = again[k] + 1 /\ k \in noticed
               /\ k \notin Senders(rest) /\ k \notin Senders(queue) /\ k \in Senders(batch)
    BY <1>0, <2>1, <2>2, <2>3, <2>4 DEF NoticeInv
  <2>5. ASSUME NEW k \in Job, k # m.who
        PROVE  entered'[k] = entered[k] /\ (k \in Senders(rest) <=> k \in Senders(unlogged))
    BY <2>1, <2>2, <2>5
  <2>6. Senders(rest) \subseteq Senders(batch)
    BY <2>1, <2>2 DEF NoticeInv
  <2>7. ASSUME NEW k \in Job
        PROVE  /\ again[k] <= entered'[k] /\ entered'[k] <= 1 + again[k]
               /\ entered'[k] > 0 => k \in noticed
               /\ k \in noticed => \/ entered'[k] > 0 \/ k \in unsaid \/ k \in Senders(queue)
                                   \/ k \in Senders(batch) \/ k \in Senders(rest)
               /\ k \in Senders(queue) \/ k \in Senders(rest) => k \in noticed /\ entered'[k] = again[k]
               /\ k \in Senders(batch) => /\ k \in noticed
                                          /\ entered'[k] = again[k] + 1 \/ k \in Senders(rest)
    <3>1. entered[k] \in Nat /\ again[k] \in Nat
      BY <1>0
    <3>2. CASE k = m.who
      BY <2>4, <3>1, <3>2
    <3>3. CASE k # m.who
      BY <2>1, <2>5, <3>1, <3>3 DEF NoticeInv
    <3> QED
      BY <3>2, <3>3
  <2>8. \A k \in Job : (HasEnd(k) <=> entry[k] \in {"ended", "over"}) /\ (k \in noticed => HasEnd(k))
    BY DEF NoticeInv
  <2>9. \A k \in Job : k \in Senders(queue) => k \notin Senders(batch) /\ k \notin Senders(rest)
    BY <2>2 DEF NoticeInv
  <2> QED
    BY <2>1, <2>3, <2>6, <2>7, <2>8, <2>9 DEF NoticeInv
<1>13. CASE CommitClaim
  <2>1. /\ phase = "entering" /\ phase' = "stepping" /\ unlogged = <<>> /\ batch' = <<>>
        /\ UNCHANGED <<queue, unlogged, noticed, entry, ended, entered, again, unsaid>>
    BY <1>13 DEF CommitClaim, registry, inbox, log, bounds, segment, history, windows
  <2>2. /\ Senders(queue') = Senders(queue) /\ Senders(batch') = {} /\ Senders(unlogged) = {}
        /\ Senders(unlogged') = {} /\ OnceIn(queue') /\ OnceIn(batch') /\ OnceIn(unlogged')
        /\ \A k \in Job : HasEnd(k)' <=> HasEnd(k)
    BY <2>1, Nothing DEF HasEnd, NoticeInv
  <2>3. \A k \in Job : k \in Senders(batch) => entered[k] > 0
    BY <1>0, <2>1, <2>2 DEF NoticeInv
  <2> QED
    BY <2>1, <2>2, <2>3 DEF NoticeInv
<1>14. CASE Refused
  <2>1. /\ phase = "preStep" /\ phase' = "ending" /\ unlogged = <<>> /\ batch' = <<>>
        /\ unlogged' = Quieted(batch)
        /\ UNCHANGED <<queue, noticed, entry, ended, entered, again, unsaid>>
    BY <1>14 DEF Refused, PhaseInv, registry, inbox, log,
     bounds, segment, history, windows
  <2>2. /\ Senders(unlogged') = Senders(batch) \ {Human} /\ Senders(batch') = {}
        /\ Senders(unlogged) = {} /\ OnceIn(unlogged') /\ OnceIn(batch')
    BY <1>0, <2>1, QuietedFacts, Nothing DEF NoticeInv
  <2>3. /\ Senders(queue') = Senders(queue) /\ OnceIn(queue')
        /\ \A k \in Job : (HasEnd(k)' <=> HasEnd(k)) /\ k # Human
    BY <2>1, NoJobIsHuman DEF HasEnd, NoticeInv
  <2>4. \A k \in Job : k \in Senders(batch) => entered[k] = again[k]
    BY <1>0, <2>1, <2>2 DEF NoticeInv
  <2> QED
    BY <2>1, <2>2, <2>3, <2>4 DEF NoticeInv
<1>15. CASE PutBack
  <2> DEFINE m == Head(unlogged)
             rest == Tail(unlogged)
  <2>1. /\ phase = "ending" /\ phase' = "ending" /\ unlogged # <<>> /\ unlogged' = rest
        /\ queue' = Append(queue, m)
        /\ UNCHANGED <<batch, noticed, entry, ended, entered, again, unsaid>>
    BY <1>15 DEF PutBack, registry, inbox, log, bounds, segment, history, windows
  <2>2. /\ rest \in Seq(Msg) /\ m \in Msg /\ Senders(unlogged) = {m.who} \union Senders(rest)
        /\ OnceIn(rest) /\ (m.who # Human => m.who \notin Senders(rest))
    BY <1>0, <2>1, TailFacts DEF NoticeInv
  <2>3. batch = <<>> /\ Senders(batch) = {}
    BY <2>1, Nothing DEF PhaseInv
  <2>4. m.who # Human => m.who \notin Senders(queue)
    BY <2>1, <2>2 DEF NoticeInv, Msg
  <2> HIDE DEF rest, m
  <2>5. Senders(queue') = Senders(queue) \union {m.who} /\ OnceIn(queue')
    BY <1>0, <2>1, <2>2, <2>4, AppendFacts DEF NoticeInv
  <2>6. /\ Senders(batch') = Senders(batch) /\ Senders(unlogged') = Senders(rest)
        /\ OnceIn(batch') /\ OnceIn(unlogged')
        /\ \A k \in Job : (HasEnd(k)' <=> HasEnd(k)) /\ k # Human
    BY <2>1, <2>2, NoJobIsHuman DEF HasEnd, NoticeInv
  <2> QED
    BY <2>1, <2>2, <2>3, <2>5, <2>6 DEF NoticeInv
<1>16. CASE StepReturns
  <2>0. batch = <<>> /\ unlogged = <<>> /\ phase # "entering"
    BY <1>16 DEF StepReturns, PhaseInv
  <2>1. ASSUME Claim PROVE NoticeInv'
    BY <2>0, <2>1, ClaimTells
  <2>2. ASSUME phase' = "ending",
               UNCHANGED <<bounds, mode, registry, calls, call, disposed, ending,
                           queue, batch, turn, segment, log, history>>
        PROVE  NoticeInv'
    <3>1. /\ UNCHANGED <<queue, batch, unlogged, noticed, entered, ended, again, unsaid, entry>>
          /\ phase' = "entering" <=> phase = "entering"
      BY <2>0, <2>2 DEF registry, log, segment, history, windows
    <3> QED
      BY <3>1, QuietStep
  <2> QED
    BY <1>16, <2>1, <2>2 DEF StepReturns
<1>17. CASE EndTurn
  <2>1. /\ UNCHANGED <<queue, batch, unlogged, noticed, entered, ended, again, unsaid>>
        /\ phase' = "entering" <=> phase = "entering"
        /\ \A k \in Job : entry'[k] \in {"ended", "over"} <=> entry[k] \in {"ended", "over"}
    BY <1>0, <1>17 DEF Registered, EndTurn, AtAwait, registry, inbox, log, bounds, segment, history, windows
  <2> QED
    BY <2>1, QuietStep
<1>18. CASE Answer
  <2>1. /\ UNCHANGED <<queue, batch, unlogged, noticed, entered, ended, again, unsaid>>
        /\ phase' = "entering" <=> phase = "entering"
        /\ \A k \in Job : entry'[k] \in {"ended", "over"} <=> entry[k] \in {"ended", "over"}
    BY <1>0, <1>18 DEF Registered, Answer, AtAwait, registry, inbox, log, bounds, segment, history, windows
  <2> QED
    BY <2>1, QuietStep
<1>19. CASE Leave
  <2>1. /\ UNCHANGED <<queue, batch, unlogged, noticed, entered, ended, again, unsaid>>
        /\ phase' = "entering" <=> phase = "entering"
        /\ \A k \in Job : entry'[k] \in {"ended", "over"} <=> entry[k] \in {"ended", "over"}
    BY <1>0, <1>19 DEF Registered, Leave, AtAwait, registry, inbox, log, bounds, segment, history, windows
  <2> QED
    BY <2>1, QuietStep
<1>20. CASE Steer
  <2>1. Message(Human, TRUE) \in Msg /\ Message(Human, TRUE).who = Human
    BY DEF Message, Msg
  <2>2. Senders(queue') = Senders(queue) \union {Human}
    BY <1>0, <1>20, <2>1, AppendFacts DEF Steer
  <2>3. /\ UNCHANGED <<noticed, entry, ended, entered, batch, unlogged, again, unsaid>>
        /\ phase' = "entering" <=> phase = "entering"
        /\ \A k \in Job : k # Human
    BY <1>20, NoJobIsHuman DEF Steer, registry, inbox, log, bounds, segment,
       history, windows
  <2>4. /\ Senders(batch') = Senders(batch) /\ Senders(unlogged') = Senders(unlogged)
        /\ OnceIn(queue') /\ OnceIn(batch') /\ OnceIn(unlogged')
        /\ \A k \in Job : HasEnd(k)' <=> HasEnd(k)
    BY <1>0, <1>20, <2>1, <2>3, AppendFacts DEF HasEnd, NoticeInv, Steer
  <2> QED
    BY <2>2, <2>3, <2>4 DEF NoticeInv
<1>21. CASE Switch
  <2>1. /\ UNCHANGED <<queue, batch, unlogged, noticed, entered, ended, again, unsaid>>
        /\ phase' = "entering" <=> phase = "entering"
        /\ \A k \in Job : entry'[k] \in {"ended", "over"} <=> entry[k] \in {"ended", "over"}
    BY <1>0, <1>21 DEF Registered, Switch, Stops, AskToStop, AtAwait, registry, inbox, log, bounds, segment, history, windows
  <2> QED
    BY <2>1, QuietStep
<1>22. CASE StopAll
  <2>1. /\ UNCHANGED <<queue, batch, unlogged, noticed, entered, ended, again, unsaid>>
        /\ phase' = "entering" <=> phase = "entering"
        /\ \A k \in Job : entry'[k] \in {"ended", "over"} <=> entry[k] \in {"ended", "over"}
    BY <1>0, <1>22 DEF Registered, StopAll, Stops, AskToStop, AtAwait, registry, inbox, log, bounds, segment, history, windows
  <2> QED
    BY <2>1, QuietStep
<1>23. CASE Dispose
  <2>1. /\ UNCHANGED <<queue, batch, unlogged, noticed, entered, ended, again, unsaid>>
        /\ phase' = "entering" <=> phase = "entering"
        /\ \A k \in Job : entry'[k] \in {"ended", "over"} <=> entry[k] \in {"ended", "over"}
    BY <1>0, <1>23 DEF Registered, Dispose, AtAwait, registry, inbox, log, bounds, segment, history, windows
  <2> QED
    BY <2>1, QuietStep
<1>24. CASE Unwind
  <2>1. /\ UNCHANGED <<queue, batch, unlogged, noticed, entered, ended, again, unsaid>>
        /\ phase' = "entering" <=> phase = "entering"
        /\ \A k \in Job : entry'[k] \in {"ended", "over"} <=> entry[k] \in {"ended", "over"}
    BY <1>0, <1>24 DEF Registered, Unwind, Stops, AskToStop, AtAwait, registry, inbox, log, bounds, segment, history, windows
  <2> QED
    BY <2>1, QuietStep
<1>25. CASE Close
  <2>1. /\ UNCHANGED <<queue, batch, unlogged, noticed, entered, ended, again, unsaid>>
        /\ phase' = "entering" <=> phase = "entering"
        /\ \A k \in Job : entry'[k] \in {"ended", "over"} <=> entry[k] \in {"ended", "over"}
    BY <1>0, <1>25 DEF Registered, Close, AtAwait, registry, inbox, log, bounds, segment, history, windows
  <2> QED
    BY <2>1, QuietStep
<1>26. CASE Kill
  <2> DEFINE cut == phase = "entering" /\ unlogged # batch
             logged == IF cut THEN Senders(batch) \ Senders(unlogged) ELSE {}
  <2>1. /\ queue' = batch \o queue /\ batch' = <<>> /\ unlogged' = <<>> /\ phase' = "dead"
        /\ UNCHANGED <<noticed, entry, ended, entered>>
        /\ \A k \in Job : again'[k] = IF k \in logged THEN again[k] + 1 ELSE again[k]
        /\ unsaid' = IF phase = "ending" THEN unsaid \union (Senders(unlogged) \ {Human})
                     ELSE unsaid
    BY <1>26 DEF Kill, registry, inbox, log, bounds
  <2>2. /\ Senders(batch') = {} /\ Senders(unlogged') = {} /\ OnceIn(batch') /\ OnceIn(unlogged')
        /\ \A k \in Job : (HasEnd(k)' <=> HasEnd(k)) /\ k # Human
    BY <2>1, Nothing, NoJobIsHuman DEF HasEnd
  <2>3. Senders(batch) \intersect Senders(queue) \subseteq {Human}
    BY <1>0, SendersAre DEF NoticeInv
  <2>4. Senders(queue') = Senders(batch) \union Senders(queue) /\ OnceIn(queue')
    BY <1>0, <2>1, <2>3, ConcatFacts DEF NoticeInv
  <2>5. logged = IF phase = "entering" THEN Senders(batch) \ Senders(unlogged) ELSE {}
    OBVIOUS
  <2>6. phase \notin {"entering", "ending"} => Senders(unlogged) = {}
    BY Nothing DEF PhaseInv
  <2>7. phase \notin {"entering", "preStep"} => Senders(batch) = {}
    BY Nothing DEF PhaseInv
  <2> HIDE DEF logged
  <2>8. \A k \in Job : k \in Senders(batch) =>
          k \in noticed /\ again'[k] = entered[k] /\ k \notin Senders(queue)
    BY <1>0, <2>1, <2>5, <2>6, <2>7 DEF NoticeInv
  <2>9. \A k \in Job : k \notin Senders(batch) => again'[k] = again[k]
    BY <2>1, <2>5
  <2>10. \A k \in Job : k \in Senders(unlogged) => k \in unsaid' \/ k \in Senders(batch)
    BY <2>1, <2>2, <2>6 DEF NoticeInv
  <2>11. \A k \in Job : k \in unsaid => k \in unsaid'
    BY <2>1
  <2> QED
    BY <1>0, <2>1, <2>2, <2>4, <2>8, <2>9, <2>10, <2>11 DEF NoticeInv
<1>27. CASE Resume
  <2>1. OwedNotices \in SUBSET Job
    BY DEF OwedNotices, Started
  <2>0. PICK owed \in SetToSeqs(OwedNotices) :
          queue' = queue \o [i \in DOMAIN owed |-> Message(owed[i], FALSE)]
    BY <1>27 DEF Resume
  <2> DEFINE r == [i \in DOMAIN owed |-> Message(owed[i], FALSE)]
  <2>2. r \in Seq(Msg) /\ Senders(r) = OwedNotices /\ queue' = queue \o r /\ OnceIn(r)
    BY <2>0, <2>1, NoticesFor
  <2> HIDE DEF r
  <2>3. Senders(queue') = Senders(queue) \union OwedNotices
    BY <1>0, <2>2, ConcatFacts
  <2>4. /\ noticed' = noticed \union OwedNotices /\ phase' # "entering" /\ phase # "entering"
        /\ UNCHANGED <<batch, entered, unlogged, again, unsaid>>
        /\ \A k \in Job : ended'[k] = IF k \in Started /\ ~HasEnd(k)
                                      THEN [how |-> "lost", by |-> Nobody] ELSE ended[k]
        /\ \A k \in Job : entry'[k] = IF k \in Started THEN "over"
                                      ELSE IF entry[k] = "none" THEN "none" ELSE "gone"
    BY <1>27 DEF Resume, segment, windows
  <2>5. \A k \in Job : HasEnd(k) => k \in Started
    BY DEF NoticeInv, Started
  <2>6. \A k \in Job : HasEnd(k)' <=> k \in Started
    BY <2>4, <2>5 DEF HasEnd, Unended
  <2>7. \A k \in OwedNotices : k \in Started /\ k \notin noticed
    BY DEF OwedNotices, NoticeInv, Started
  <2>8. \A k \in OwedNotices :
          /\ k \notin Senders(queue) /\ k \notin Senders(batch) /\ k \notin Senders(unlogged)
          /\ entered[k] = again[k]
    BY <1>0, <2>1, <2>7, Unnoticed
  <2>9. \A k \in Job : entry'[k] \in {"ended", "over"} <=> k \in Started
    BY <2>4
  <2>10. OnceIn(queue')
    <3>1. Senders(queue) \intersect Senders(r) \subseteq {Human}
      BY <2>2, <2>8
    <3> QED
      BY <1>0, <2>2, <3>1, ConcatFacts DEF NoticeInv
  <2>11. /\ Senders(batch') = Senders(batch) /\ Senders(unlogged') = Senders(unlogged)
         /\ OnceIn(batch') /\ OnceIn(unlogged')
    BY <2>4 DEF NoticeInv
  <2>12. \A k \in Job : k \in noticed => k \in Started
    BY <2>5 DEF NoticeInv
  <2> QED
    BY <1>0, <2>1, <2>3, <2>4, <2>6, <2>7, <2>8, <2>9, <2>11, <2>12, <2>10 DEF NoticeInv
<1>28. CASE UNCHANGED vars
  <2>1. /\ UNCHANGED <<queue, batch, unlogged, noticed, entered, ended, again, unsaid>>
        /\ phase' = "entering" <=> phase = "entering"
        /\ \A k \in Job : entry'[k] \in {"ended", "over"} <=> entry[k] \in {"ended", "over"}
    BY <1>0, <1>28 DEF Registered, vars, AtAwait, registry, inbox, log, bounds, segment, history, windows
  <2> QED
    BY <2>1, QuietStep
<1> QED
  BY <1>1, <1>2, <1>3, <1>4, <1>5, <1>6, <1>7, <1>8, <1>9, <1>10, <1>11, <1>12,
     <1>13, <1>14, <1>15, <1>16, <1>17, <1>18, <1>19, <1>20, <1>21, <1>22,
     <1>23, <1>24, <1>25, <1>26, <1>27, <1>28 DEF Next, Registry, Driver

(* What is owed: Settle owes or hands over, Deliver pays, a kill forgets,   *)
(* and Resume finds what was forgotten.                                     *)
LEMMA OwedKept ==
  ASSUME TypeOK, NoticeInv, OwedInv, [Next]_vars PROVE OwedInv'
<1>0. /\ answered \subseteq Calls /\ Registered
      /\ ended \in [Job -> [how : {"no", "own", "stopped", "lost"}, by : Calls \union {Nobody}]]
  BY DEF TypeOK, Registered
<1>1. ASSUME NEW j \in Job, Start(j) PROVE OwedInv'
  BY <1>0, <1>1 DEF OwedInv, HasEnd, Start, AtAwait, registry, inbox, log,
     bounds, segment, history, windows
<1>2. ASSUME NEW j \in Job, Launched(j) PROVE OwedInv'
  BY <1>0, <1>2 DEF OwedInv, HasEnd, Launched, AtAwait, registry, inbox, log,
     bounds, segment, history, windows
<1>3. ASSUME NEW j \in Job, Forget(j) PROVE OwedInv'
  BY <1>0, <1>3 DEF OwedInv, HasEnd, Forget, AtAwait, registry, inbox, log,
     bounds, segment, history, windows
<1>4. ASSUME NEW j \in Job, Exits(j) PROVE OwedInv'
  BY <1>0, <1>4 DEF OwedInv, HasEnd, Exits, registry, inbox, log, bounds, segment, history, windows
<1>5. ASSUME NEW j \in Job, Settle(j) PROVE OwedInv'
  <2>1. /\ HasEnd(j)' /\ \A k \in Job \ {j} : ended'[k] = ended[k]
        /\ noticed' = noticed /\ owing = {} /\ phase # "dead" /\ phase' = phase
    BY <1>0, <1>5 DEF Settle, HasEnd, Unended, AtAwait, registry, inbox, log,
       bounds, segment, history, windows
  <2>2. ~HasEnd(j) /\ j \notin noticed
    BY <1>0, <1>5 DEF Settle, NoticeInv
  <2>3. CASE WaitsOn(j)
    <3>1. owing' = {} /\ ended'[j].by \in Calls
      <4>1. ended'[j].by = call.id
        BY <1>0, <1>5, <2>3 DEF Settle
      <4>2. call.id \in Calls
        BY <2>3 DEF TypeOK, WaitsOn
      <4>3. owing' = owing
        BY <1>5, <2>3 DEF Settle
      <4> QED
        BY <2>1, <4>1, <4>2, <4>3
    <3> QED
      BY <2>1, <3>1, CallsCounted DEF OwedInv, HasEnd
  <2>4. CASE ~WaitsOn(j)
    <3>1. owing' = {j} /\ ended'[j].by = Nobody
      BY <1>0, <1>5, <2>4 DEF Settle
    <3>2. owing' \in SUBSET {j}
      BY <3>1
    <3>3. \A k \in Job : HasEnd(k)' /\ k \notin noticed' /\ ended'[k].by = Nobody =>
            k \in owing' \/ phase' = "dead"
      BY <2>1, <3>1 DEF OwedInv, HasEnd
    <3>4. phase' \notin {"dead", "closed"}
      BY <1>5 DEF Settle, AtAwait, inbox
    <3> QED
      BY <2>1, <2>2, <3>1, <3>2, <3>3, <3>4 DEF OwedInv
  <2> QED
    BY <2>3, <2>4
<1>6. ASSUME NEW j \in Job, Deliver(j) PROVE OwedInv'
  <2>1. j \in owing /\ owing = {j} /\ owing' = {} /\ noticed' = noticed \union {j} /\ ended' = ended
    BY <1>6 DEF Deliver, OwedInv
  <2>2. phase' = "dead" <=> phase = "dead"
    BY <1>6 DEF Deliver
  <2> QED
    BY <2>1, <2>2 DEF OwedInv, HasEnd
<1>7. ASSUME NEW j \in Job, Output(j) PROVE OwedInv'
  BY <1>0, <1>7 DEF OwedInv, HasEnd, Output, MakeCall, CallOn, HasEnd, AtAwait,
     Started, registry, inbox, log, bounds, segment, history, windows
<1>8. ASSUME NEW j \in Job, CancelByModel(j) PROVE OwedInv'
  BY <1>0, <1>8 DEF OwedInv, HasEnd, CancelByModel, MakeCall, CallOn, HasEnd,
     AskToStop, AtAwait, Started, registry, inbox, log, bounds, segment, history, windows
<1>9. ASSUME NEW j \in Job, CancelByUser(j) PROVE OwedInv'
  BY <1>0, <1>9 DEF OwedInv, HasEnd, CancelByUser, Stops, AskToStop, AtAwait,
     registry, inbox, log, bounds, segment, history, windows
<1>10. CASE BeginTurn
  BY <1>0, <1>10 DEF OwedInv, HasEnd, BeginTurn, Claim, registry, inbox, log,
     bounds, segment, history, windows
<1>11. CASE Enters
  BY <1>0, <1>11 DEF OwedInv, HasEnd, Enters, AtAwait, registry, inbox, log,
     bounds, segment, history, windows
<1>12. CASE EnterNext
  BY <1>0, <1>12 DEF OwedInv, HasEnd, EnterNext, registry, inbox, log, bounds, segment, history, windows
<1>13. CASE CommitClaim
  BY <1>0, <1>13 DEF OwedInv, HasEnd, CommitClaim, registry, inbox, log, bounds, segment, history, windows
<1>14. CASE Refused
  BY <1>0, <1>14 DEF OwedInv, HasEnd, Refused, AtAwait, registry, inbox, log,
     bounds, segment, history, windows
<1>15. CASE PutBack
  BY <1>0, <1>15 DEF OwedInv, HasEnd, PutBack, registry, inbox, log, bounds, segment, history, windows
<1>16. CASE StepReturns
  BY <1>0, <1>16 DEF OwedInv, HasEnd, StepReturns, Claim, AtAwait, registry,
     inbox, log, bounds, segment, history, windows
<1>17. CASE EndTurn
  BY <1>0, <1>17 DEF OwedInv, HasEnd, EndTurn, AtAwait, registry, inbox, log,
     bounds, segment, history, windows
<1>18. CASE Answer
  BY <1>0, <1>18 DEF OwedInv, HasEnd, Answer, AtAwait, registry, inbox, log,
     bounds, segment, history, windows
<1>19. CASE Leave
  BY <1>0, <1>19 DEF OwedInv, HasEnd, Leave, AtAwait, registry, inbox, log,
     bounds, segment, history, windows
<1>20. CASE Steer
  BY <1>0, <1>20 DEF OwedInv, HasEnd, Steer, AtAwait, registry, inbox, log,
     bounds, segment, history, windows
<1>21. CASE Switch
  BY <1>0, <1>21 DEF OwedInv, HasEnd, Switch, Stops, AskToStop, AtAwait,
     registry, inbox, log, bounds, segment, history, windows
<1>22. CASE StopAll
  BY <1>0, <1>22 DEF OwedInv, HasEnd, StopAll, Stops, AskToStop, AtAwait,
     registry, inbox, log, bounds, segment, history, windows
<1>23. CASE Dispose
  BY <1>0, <1>23 DEF OwedInv, HasEnd, Dispose, AtAwait, registry, inbox, log,
     bounds, segment, history, windows
<1>24. CASE Unwind
  BY <1>0, <1>24 DEF OwedInv, HasEnd, Unwind, Stops, AskToStop, AtAwait,
     registry, inbox, log, bounds, segment, history, windows
<1>25. CASE Close
  BY <1>0, <1>25 DEF OwedInv, HasEnd, Close, AtAwait, registry, inbox, log,
     bounds, segment, history, windows
<1>26. CASE Kill
  BY <1>0, <1>26 DEF OwedInv, HasEnd, Kill, registry, inbox, log, bounds, segment, history, windows
<1>27. CASE Resume
  <2>4. /\ noticed' = noticed \union OwedNotices /\ owing' = owing /\ phase' # "dead"
        /\ phase \in {"dead", "closed"}
        /\ \A k \in Job : ended'[k] = IF k \in Started /\ ~HasEnd(k)
                                      THEN [how |-> "lost", by |-> Nobody] ELSE ended[k]
    BY <1>27 DEF Resume, segment
  <2>5. \A k \in Job : HasEnd(k) => k \in Started
    BY DEF NoticeInv, Started
  <2>6. \A k \in Job : k \in Started /\ (HasEnd(k) => k \notin noticed /\ ended[k].by = Nobody) => k \in noticed'
    BY <1>0, <2>4, CallsCounted DEF OwedNotices
  <2>7. \A k \in Job : ended'[k] # Unended => k \in Started
    BY <2>4, <2>5 DEF HasEnd
  <2>8. \A k \in Job : HasEnd(k)' /\ k \notin noticed' /\ ended'[k].by = Nobody => k \in noticed
    BY <2>4, <2>6, <2>7 DEF HasEnd
  <2>9. owing = {}
    BY <1>27 DEF Resume, OwedInv
  <2> QED
    BY <2>4, <2>8, <2>9 DEF OwedInv
<1>28. CASE UNCHANGED vars
  BY <1>0, <1>28 DEF OwedInv, HasEnd, vars, registry, inbox, log, bounds, segment, history, windows
<1> QED
  BY <1>1, <1>2, <1>3, <1>4, <1>5, <1>6, <1>7, <1>8, <1>9, <1>10, <1>11, <1>12,
     <1>13, <1>14, <1>15, <1>16, <1>17, <1>18, <1>19, <1>20, <1>21, <1>22,
     <1>23, <1>24, <1>25, <1>26, <1>27, <1>28 DEF Next, Registry, Driver

-----------------------------------------------------------------------------
(* The reports.  A new call has an id no earlier one had, so it cannot be   *)
(* the one an earlier end names.                                            *)
LEMMA QuietReport ==
  ASSUME ReportInv, UNCHANGED <<idOf, calls, call, answered, told, ended, noticed>>,
         phase = "dead" => phase' = "dead"
  PROVE  ReportInv'
<1>1. Used' = Used /\ (InFlight' <=> InFlight) /\ \A k \in Job : HasEnd(k)' <=> HasEnd(k)
  BY DEF Used, InFlight, HasEnd
<1> QED
  BY <1>1 DEF ReportInv

LEMMA MakeCallReports ==
  ASSUME UniqueIds, ReportInv, NEW j \in Job, MakeCall(j),
         calls \in 0..MaxCalls, idOf \in [Calls -> Calls], noticed \subseteq Job
  PROVE  ReportInv'
<1>1. /\ call = NoCall /\ calls < MaxCalls /\ calls' = calls + 1
      /\ call' = CallOn(j, entry[j] = "live", HasEnd(j))
      /\ UNCHANGED <<idOf, answered, told, ended, noticed, phase>>
  BY DEF MakeCall, bounds, inbox, log, history
<1>2. calls + 1 \in Calls /\ (\A c \in 1..calls : c \in Calls /\ c # calls + 1) /\ calls + 1 # 0
  BY <1>1, CallsCounted DEF Calls
<1> DEFINE new == idOf[calls + 1]
<1>3. InFlight' /\ call'.id = new /\ call'.job = j
  BY <1>1 DEF CallOn, InFlight, NoCall
<1>4. new \in Calls /\ new \notin Used
  BY <1>2 DEF UniqueIds, Used
<1>5. Used \subseteq Used' /\ new \in Used'
  <2>1. \A c \in 1..calls : c \in 1..(calls + 1)
    BY <1>1
  <2>2. calls + 1 \in 1..(calls + 1)
    BY <1>1
  <2>3. Used' = {idOf[c] : c \in 1..(calls + 1)}
    BY <1>1 DEF Used
  <2> QED
    BY <2>1, <2>2, <2>3 DEF Used
<1>6. new # Nobody
  BY <1>4, CallsCounted
<1>7. \A k \in Job : ended[k].by # new
  BY <1>4, <1>6 DEF ReportInv
<1>8. ~InFlight /\ \A k \in Job : HasEnd(k)' <=> HasEnd(k)
  BY <1>1 DEF InFlight, HasEnd
<1>9. call'.id = idOf'[calls']
  BY <1>1, <1>3
<1> HIDE DEF new
<1>10. new \notin answered
  BY <1>4 DEF ReportInv
<1> QED
  BY <1>1, <1>2, <1>3, <1>5, <1>7, <1>8, <1>9, <1>10 DEF ReportInv

LEMMA ReportsKept ==
  ASSUME TypeOK, UniqueIds, PhaseInv, NoticeInv, OwedInv, ReportInv, [Next]_vars PROVE ReportInv'
<1>0. /\ answered \subseteq Calls /\ Registered /\ noticed \subseteq Job
      /\ ended \in [Job -> [how : {"no", "own", "stopped", "lost"}, by : Calls \union {Nobody}]]
      /\ call \in {NoCall} \union [id : Calls, job : Job, waits : BOOLEAN, saw : BOOLEAN]
      /\ calls \in 0..MaxCalls /\ idOf \in [Calls -> Calls] /\ MaxCalls \in Nat
      /\ calls # 0 => calls \in 1..calls
  BY CallsCounted DEF TypeOK, Registered
<1>1. ASSUME NEW j \in Job, Start(j) PROVE ReportInv'
  <2>1. /\ UNCHANGED <<idOf, calls, call, answered, told, ended, noticed>>
        /\ phase = "dead" => phase' = "dead"
    BY <1>1 DEF Start, AtAwait, registry, inbox, log, bounds, segment, history, windows
  <2> QED
    BY <2>1, QuietReport
<1>2. ASSUME NEW j \in Job, Launched(j) PROVE ReportInv'
  <2>1. /\ UNCHANGED <<idOf, calls, call, answered, told, ended, noticed>>
        /\ phase = "dead" => phase' = "dead"
    BY <1>2 DEF Launched, AtAwait, registry, inbox, log, bounds, segment, history, windows
  <2> QED
    BY <2>1, QuietReport
<1>3. ASSUME NEW j \in Job, Forget(j) PROVE ReportInv'
  <2>1. /\ UNCHANGED <<idOf, calls, call, answered, told, ended, noticed>>
        /\ phase = "dead" => phase' = "dead"
    BY <1>3 DEF Forget, AtAwait, registry, inbox, log, bounds, segment, history, windows
  <2> QED
    BY <2>1, QuietReport
<1>4. ASSUME NEW j \in Job, Exits(j) PROVE ReportInv'
  <2>1. /\ UNCHANGED <<idOf, calls, call, answered, told, ended, noticed>>
        /\ phase = "dead" => phase' = "dead"
    BY <1>4 DEF Exits, registry, inbox, log, bounds, segment, history, windows
  <2> QED
    BY <2>1, QuietReport
<1>5. ASSUME NEW j \in Job, Settle(j) PROVE ReportInv'
  <2>1. /\ ended' = [ended EXCEPT ![j] =
                      [how |-> IF proc[j] = "exited" THEN "own" ELSE "stopped",
                       by  |-> IF WaitsOn(j) THEN call.id ELSE Nobody]]
        /\ UNCHANGED <<idOf, calls, answered, told, noticed>>
    BY <1>5 DEF Settle, registry, inbox, log, bounds, segment, history, windows
  <2>2. ended'[j].by = (IF WaitsOn(j) THEN call.id ELSE Nobody) /\ \A k \in Job \ {j} : ended'[k] = ended[k]
    BY <1>0, <2>1
  <2>3. j \notin noticed /\ HasEnd(j)'
    BY <1>0, <1>5, <2>1 DEF Settle, Registered, NoticeInv, HasEnd, Unended
  <2>4. CASE WaitsOn(j)
    <3>1. InFlight /\ call' = [call EXCEPT !.waits = FALSE, !.saw = TRUE] /\ call.job = j
      BY <1>5, <2>4 DEF Settle, WaitsOn, InFlight
    <3>2. InFlight' /\ call'.id = call.id /\ call'.job = j /\ call'.saw /\ call.id \in Calls
      <4>1. call \in [id : Calls, job : Job, waits : BOOLEAN, saw : BOOLEAN]
        BY <1>0, <3>1 DEF InFlight
      <4>2. call' = [id |-> call.id, job |-> call.job, waits |-> FALSE, saw |-> TRUE]
        BY <3>1, <4>1
      <4> QED
        BY <3>1, <4>1, <4>2 DEF InFlight, NoCall
    <3>3. call.id \in Used /\ call.id \notin answered
      BY <1>0, <3>1, <3>2 DEF ReportInv, Used
    <3>4. Used' = Used
      BY <2>1 DEF Used
    <3>5. \A k \in Job \ {j} : ended[k].by # call.id \/ call.job = k
      BY <3>1 DEF ReportInv
    <3>6. \A k \in Job : ended'[k].by = Nobody \/ ended'[k].by \in Used
      BY <2>2, <2>4, <3>3 DEF ReportInv
    <3>7. \A k \in noticed : k \in Job /\ k # j /\ ended'[k] = ended[k]
      BY <1>0, <2>2, <2>3
    <3>8. \A k \in Job : ended'[k].by \in answered => k \in told
      BY <2>2, <2>4, <3>3 DEF ReportInv
    <3>9. \A k \in Job : ended'[k].by = call.id => k = j
      BY <2>2, <3>1, <3>5
    <3>10. \A k \in Job : HasEnd(k)' /\ k \notin noticed /\ ended'[k].by # Nobody =>
             \/ ended'[k].by \in answered
             \/ ended'[k].by = call.id
             \/ phase' = "dead"
      <4>1. \A k \in Job \ {j} : HasEnd(k)' <=> HasEnd(k)
        BY <2>2 DEF HasEnd
      <4>2. phase' = phase
        BY <1>5 DEF Settle, inbox
      <4> QED
        BY <2>2, <2>4, <4>1, <4>2 DEF ReportInv
    <3>11. calls' # 0 /\ call'.id = idOf'[calls'] /\ call'.id \notin answered'
      BY <2>1, <3>1, <3>2, <3>3 DEF ReportInv
    <3>12. answered' \subseteq Used'
      BY <2>1, <3>4 DEF ReportInv
    <3>13. \A k \in noticed : ended'[k].by \notin answered /\ ended'[k].by # call.id
      BY <3>1, <3>7 DEF ReportInv
    <3> QED
      BY <2>1, <3>2, <3>4, <3>6, <3>8, <3>9, <3>10, <3>11, <3>12, <3>13
         DEF ReportInv
  <2>5. CASE ~WaitsOn(j)
    <3>1. call' = call /\ ended'[j].by = Nobody /\ phase' = phase /\ (InFlight' <=> InFlight) /\ Used' = Used
      BY <1>5, <2>1, <2>2, <2>5 DEF Settle, InFlight, Used, inbox
    <3>2. Nobody \notin answered /\ (InFlight => call.id # Nobody)
      BY <1>0, CallsCounted DEF InFlight
    <3>3. \A k \in Job \ {j} : HasEnd(k)' <=> HasEnd(k)
      BY <2>2 DEF HasEnd
    <3>4. \A k \in noticed : k \in Job /\ k # j /\ ended'[k] = ended[k]
      BY <1>0, <2>2, <2>3
    <3>5. \A k \in Job : ended'[k].by = Nobody \/ ended'[k].by \in Used
      BY <2>2, <3>1 DEF ReportInv
    <3>6. \A k \in Job : ended'[k].by \in answered => k \in told
      BY <2>2, <3>1, <3>2 DEF ReportInv
    <3>7. InFlight => \A k \in Job : ended'[k].by = call.id => call.job = k /\ call.saw
      BY <2>2, <3>1, <3>2 DEF ReportInv
    <3>8. \A k \in noticed : ended'[k].by \notin answered /\ ~(InFlight /\ call.id = ended'[k].by)
      BY <3>4 DEF ReportInv
    <3>9. \A k \in Job : HasEnd(k)' /\ k \notin noticed /\ ended'[k].by # Nobody =>
            \/ ended'[k].by \in answered
            \/ InFlight /\ ended'[k].by = call.id
            \/ phase = "dead"
      BY <2>2, <3>1, <3>3 DEF ReportInv
    <3> QED
      BY <2>1, <3>1, <3>5, <3>6, <3>7, <3>8, <3>9 DEF ReportInv
  <2> QED
    BY <2>4, <2>5
<1>6. ASSUME NEW j \in Job, Deliver(j) PROVE ReportInv'
  <2>1. /\ UNCHANGED <<idOf, calls, call, answered, told, ended>> /\ noticed' = noticed \union {j}
        /\ ended[j].by = Nobody /\ j \in Job /\ (phase = "dead" => phase' = "dead")
    BY <1>6 DEF Deliver, OwedInv, registry, inbox, log, bounds, segment, history, windows
  <2>2. Nobody \notin answered /\ (InFlight => call.id # Nobody)
    BY <1>0, CallsCounted DEF InFlight
  <2>3. Used' = Used /\ (InFlight' <=> InFlight) /\ \A k \in Job : HasEnd(k)' <=> HasEnd(k)
    BY <2>1 DEF Used, InFlight, HasEnd
  <2>4. \A k \in noticed' : ended[k].by \notin answered /\ ~(InFlight /\ call.id = ended[k].by)
    BY <2>1, <2>2 DEF ReportInv
  <2> QED
    BY <2>1, <2>3, <2>4 DEF ReportInv
<1>7. ASSUME NEW j \in Job, Output(j) PROVE ReportInv'
  BY <1>0, <1>7, MakeCallReports DEF Output
<1>8. ASSUME NEW j \in Job, CancelByModel(j) PROVE ReportInv'
  BY <1>0, <1>8, MakeCallReports DEF CancelByModel
<1>9. ASSUME NEW j \in Job, CancelByUser(j) PROVE ReportInv'
  <2>1. /\ UNCHANGED <<idOf, calls, call, answered, told, ended, noticed>>
        /\ phase = "dead" => phase' = "dead"
    BY <1>9 DEF CancelByUser, Stops, AskToStop, AtAwait, registry, inbox, log,
       bounds, segment, history, windows
  <2> QED
    BY <2>1, QuietReport
<1>10. CASE BeginTurn
  <2>1. /\ UNCHANGED <<idOf, calls, call, answered, told, ended, noticed>>
        /\ phase = "dead" => phase' = "dead"
    BY <1>10 DEF BeginTurn, Claim, registry, inbox, log, bounds, segment, history, windows
  <2> QED
    BY <2>1, QuietReport
<1>11. CASE Enters
  <2>1. /\ UNCHANGED <<idOf, calls, call, answered, told, ended, noticed>>
        /\ phase = "dead" => phase' = "dead"
    BY <1>11 DEF Enters, AtAwait, registry, inbox, log, bounds, segment, history, windows
  <2> QED
    BY <2>1, QuietReport
<1>12. CASE EnterNext
  <2>1. /\ UNCHANGED <<idOf, calls, call, answered, told, ended, noticed>>
        /\ phase = "dead" => phase' = "dead"
    BY <1>12 DEF EnterNext, registry, inbox, log, bounds, segment, history, windows
  <2> QED
    BY <2>1, QuietReport
<1>13. CASE CommitClaim
  <2>1. /\ UNCHANGED <<idOf, calls, call, answered, told, ended, noticed>>
        /\ phase = "dead" => phase' = "dead"
    BY <1>13 DEF CommitClaim, registry, inbox, log, bounds, segment, history, windows
  <2> QED
    BY <2>1, QuietReport
<1>14. CASE Refused
  <2>1. /\ UNCHANGED <<idOf, calls, call, answered, told, ended, noticed>>
        /\ phase = "dead" => phase' = "dead"
    BY <1>14 DEF Refused, AtAwait, registry, inbox, log, bounds, segment, history, windows
  <2> QED
    BY <2>1, QuietReport
<1>15. CASE PutBack
  <2>1. /\ UNCHANGED <<idOf, calls, call, answered, told, ended, noticed>>
        /\ phase = "dead" => phase' = "dead"
    BY <1>15 DEF PutBack, registry, inbox, log, bounds, segment, history, windows
  <2> QED
    BY <2>1, QuietReport
<1>16. CASE StepReturns
  <2>1. UNCHANGED <<idOf, calls, call, answered, told, ended, noticed>> /\ phase # "dead"
    BY <1>16 DEF StepReturns, Claim, registry, inbox, log, bounds, segment, history, windows
  <2> QED
    BY <2>1, QuietReport
<1>17. CASE EndTurn
  <2>1. /\ UNCHANGED <<idOf, calls, call, answered, told, ended, noticed>>
        /\ phase = "dead" => phase' = "dead"
    BY <1>17 DEF EndTurn, AtAwait, registry, inbox, log, bounds, segment, history, windows
  <2> QED
    BY <2>1, QuietReport
<1>18. CASE Answer
  <2>1. /\ UNCHANGED <<idOf, calls, ended, noticed, phase>> /\ InFlight
        /\ answered' = answered \union {call.id} /\ call' = NoCall
        /\ told' = told \union (IF call.saw THEN {call.job} ELSE {})
    BY <1>18 DEF Answer, InFlight, registry, inbox, log, bounds, segment, history, windows
  <2>2. Used' = Used /\ ~InFlight' /\ \A k \in Job : HasEnd(k)' <=> HasEnd(k)
    BY <2>1 DEF Used, HasEnd, InFlight
  <2>3. call.id \in Used
    BY <1>0, <2>1 DEF ReportInv, Used
  <2>4. answered' \subseteq Used
    BY <2>1, <2>3 DEF ReportInv
  <2>5. \A k \in noticed : ended[k].by \notin answered'
    BY <2>1 DEF ReportInv
  <2>6. \A k \in Job : ended[k].by \in answered' => k \in told'
    BY <2>1 DEF ReportInv
  <2> QED
    BY <2>1, <2>2, <2>4, <2>5, <2>6 DEF ReportInv
<1>19. CASE Leave
  <2>1. /\ UNCHANGED <<idOf, calls, answered, told, ended, noticed, phase>>
        /\ InFlight /\ call' = [call EXCEPT !.waits = FALSE]
    BY <1>19 DEF Leave, InFlight, registry, inbox, log, bounds, segment, history, windows
  <2>2. call \in [id : Calls, job : Job, waits : BOOLEAN, saw : BOOLEAN]
    BY <1>0, <2>1 DEF InFlight
  <2>3. call' = [id |-> call.id, job |-> call.job, waits |-> FALSE, saw |-> call.saw]
    BY <2>1, <2>2
  <2>4. InFlight' /\ call'.id = call.id /\ call'.job = call.job /\ call'.saw = call.saw
    BY <2>3 DEF InFlight, NoCall
  <2>5. Used' = Used /\ \A k \in Job : HasEnd(k)' <=> HasEnd(k)
    BY <2>1 DEF Used, HasEnd
  <2> QED
    BY <2>1, <2>4, <2>5 DEF ReportInv
<1>20. CASE Steer
  <2>1. /\ UNCHANGED <<idOf, calls, call, answered, told, ended, noticed>>
        /\ phase = "dead" => phase' = "dead"
    BY <1>20 DEF Steer, AtAwait, registry, inbox, log, bounds, segment, history, windows
  <2> QED
    BY <2>1, QuietReport
<1>21. CASE Switch
  <2>1. /\ UNCHANGED <<idOf, calls, call, answered, told, ended, noticed>>
        /\ phase = "dead" => phase' = "dead"
    BY <1>21 DEF Switch, Stops, AskToStop, AtAwait, registry, inbox, log, bounds, segment, history, windows
  <2> QED
    BY <2>1, QuietReport
<1>22. CASE StopAll
  <2>1. /\ UNCHANGED <<idOf, calls, call, answered, told, ended, noticed>>
        /\ phase = "dead" => phase' = "dead"
    BY <1>22 DEF StopAll, Stops, AskToStop, AtAwait, registry, inbox, log,
       bounds, segment, history, windows
  <2> QED
    BY <2>1, QuietReport
<1>23. CASE Dispose
  <2>1. /\ UNCHANGED <<idOf, calls, call, answered, told, ended, noticed>>
        /\ phase = "dead" => phase' = "dead"
    BY <1>23 DEF Dispose, AtAwait, registry, inbox, log, bounds, segment, history, windows
  <2> QED
    BY <2>1, QuietReport
<1>24. CASE Unwind
  <2>1. /\ UNCHANGED <<idOf, calls, call, answered, told, ended, noticed>>
        /\ phase = "dead" => phase' = "dead"
    BY <1>24 DEF Unwind, Stops, AskToStop, AtAwait, registry, inbox, log, bounds, segment, history, windows
  <2> QED
    BY <2>1, QuietReport
<1>25. CASE Close
  <2>1. /\ UNCHANGED <<idOf, calls, call, answered, told, ended, noticed>>
        /\ phase = "dead" => phase' = "dead"
    BY <1>25 DEF Close, AtAwait, registry, inbox, log, bounds, segment, history, windows
  <2> QED
    BY <2>1, QuietReport
<1>26. CASE Kill
  <2>1. UNCHANGED <<idOf, calls, answered, told, ended, noticed>> /\ phase' = "dead" /\ ~InFlight'
    BY <1>26 DEF Kill, InFlight, registry, inbox, log, bounds, segment, history, windows
  <2>2. Used' = Used /\ \A k \in Job : HasEnd(k)' <=> HasEnd(k)
    BY <2>1 DEF Used, HasEnd
  <2> QED
    BY <2>1, <2>2 DEF ReportInv
<1>27. CASE Resume
  <2>1. /\ UNCHANGED <<idOf, calls, call, answered, told>> /\ noticed' = noticed \union OwedNotices
        /\ phase \in {"dead", "closed"}
        /\ \A k \in Job : ended'[k] = IF k \in Started /\ ~HasEnd(k)
                                      THEN [how |-> "lost", by |-> Nobody] ELSE ended[k]
    BY <1>27 DEF Resume, segment
  <2>2. ~InFlight /\ ~InFlight' /\ Used' = Used
    BY <2>1 DEF PhaseInv, InFlight, Used
  <2>3. Nobody \notin answered
    BY <1>0, CallsCounted
  <2>4. \A k \in Job : HasEnd(k) => k \in Started
    BY DEF NoticeInv, Started
  <2>5. \A k \in Job : ended'[k].by = Nobody \/ (ended'[k] = ended[k] /\ (HasEnd(k)' <=> HasEnd(k)))
    BY <2>1 DEF HasEnd
  <2>6. \A k \in OwedNotices : k \in Job /\ ended'[k].by \notin answered
    BY <2>1, <2>3 DEF OwedNotices, Started
  <2>7. \A k \in noticed : ended'[k].by \notin answered
    BY <1>0, <2>3, <2>5 DEF ReportInv
  <2>8. \A k \in Job : HasEnd(k)' /\ k \notin noticed' /\ ended'[k].by # Nobody => ended'[k].by \in answered
    <3> SUFFICES ASSUME NEW k \in Job, HasEnd(k)', k \notin noticed', ended'[k].by # Nobody
                 PROVE  ended'[k].by \in answered
      OBVIOUS
    <3>1. ended'[k] = ended[k] /\ HasEnd(k)
      BY <2>5
    <3>2. k \in Started /\ k \notin noticed /\ k \notin OwedNotices
      BY <2>1, <2>4, <3>1
    <3> QED
      BY <3>1, <3>2 DEF OwedNotices
  <2>9. \A k \in Job : ended'[k].by \in answered => k \in told
    BY <2>3, <2>5 DEF ReportInv
  <2>10. \A k \in Job : ended'[k].by = Nobody \/ ended'[k].by \in Used
    BY <2>5 DEF ReportInv
  <2> QED
    BY <2>1, <2>2, <2>6, <2>7, <2>8, <2>9, <2>10 DEF ReportInv
<1>28. CASE UNCHANGED vars
  <2>1. /\ UNCHANGED <<idOf, calls, call, answered, told, ended, noticed>>
        /\ phase = "dead" => phase' = "dead"
    BY <1>28 DEF vars, registry, inbox, log, bounds, segment, history, windows
  <2> QED
    BY <2>1, QuietReport
<1> QED
  BY <1>1, <1>2, <1>3, <1>4, <1>5, <1>6, <1>7, <1>8, <1>9, <1>10, <1>11, <1>12,
     <1>13, <1>14, <1>15, <1>16, <1>17, <1>18, <1>19, <1>20, <1>21, <1>22,
     <1>23, <1>24, <1>25, <1>26, <1>27, <1>28 DEF Next, Registry, Driver

-----------------------------------------------------------------------------
LEMMA InitIInv == Init => IInv
<1> SUFFICES ASSUME Init PROVE IInv
  OBVIOUS
<1>1. TypeOK
  BY TypesFromInit
<1>2. AuthInv /\ PhaseInv /\ StopInv
  BY DEF Init, AuthInv, PhaseInv, Taken, StopInv
<1>3. /\ queue = <<>> /\ batch = <<>> /\ unlogged = <<>> /\ phase = "idle" /\ cuts = 0 /\ turn = {} /\ wakes = 0
      /\ noticed = {} /\ owing = {} /\ answered = {} /\ calls = 0 /\ call = NoCall
      /\ \A j \in Job : /\ ended[j] = Unended /\ entered[j] = 0 /\ entry[j] = "none"
                         /\ again[j] = 0
  BY DEF Init
<1>4. WakeInv
  <2>1. budget \in Nat /\ FoldWakes = 0
    BY <1>1, <1>3, JobBounds DEF TypeOK, FoldWakes
  <2> QED
    BY <1>3, <2>1, Nothing DEF WakeInv, Taken, Allowed
<1>5. NoticeInv /\ OwedInv
  BY <1>3, Nothing DEF NoticeInv, OwedInv, HasEnd
<1>6. ReportInv
  BY <1>3 DEF ReportInv, InFlight, HasEnd, Unended
<1> QED
  BY <1>1, <1>2, <1>4, <1>5, <1>6 DEF IInv

LEMMA IdsAreGiven == [Next]_vars => idOf' = idOf
<1> SUFFICES ASSUME [Next]_vars PROVE idOf' = idOf
  OBVIOUS
<1>1. ASSUME NEW j \in Job, Start(j) PROVE idOf' = idOf
  BY <1>1 DEF Start, AtAwait, bounds
<1>2. ASSUME NEW j \in Job, Launched(j) PROVE idOf' = idOf
  BY <1>2 DEF Launched, AtAwait, bounds
<1>3. ASSUME NEW j \in Job, Forget(j) PROVE idOf' = idOf
  BY <1>3 DEF Forget, AtAwait, bounds
<1>4. ASSUME NEW j \in Job, Exits(j) PROVE idOf' = idOf
  BY <1>4 DEF Exits, bounds
<1>5. ASSUME NEW j \in Job, Settle(j) PROVE idOf' = idOf
  BY <1>5 DEF Settle, WaitsOn, Nobody, AtAwait, bounds
<1>6. ASSUME NEW j \in Job, Deliver(j) PROVE idOf' = idOf
  BY <1>6 DEF Deliver, bounds
<1>7. ASSUME NEW j \in Job, Output(j) PROVE idOf' = idOf
  BY <1>7 DEF Output, MakeCall, CallOn, HasEnd, AtAwait, Started, bounds
<1>8. ASSUME NEW j \in Job, CancelByModel(j) PROVE idOf' = idOf
  BY <1>8 DEF CancelByModel, MakeCall, CallOn, HasEnd, AskToStop, AtAwait,
     Started, bounds
<1>9. ASSUME NEW j \in Job, CancelByUser(j) PROVE idOf' = idOf
  BY <1>9 DEF CancelByUser, Stops, AskToStop, AtAwait, bounds
<1>10. CASE BeginTurn
  BY <1>10 DEF BeginTurn, Claim, bounds
<1>11. CASE Enters
  BY <1>11 DEF Enters, AtAwait, bounds
<1>12. CASE EnterNext
  BY <1>12 DEF EnterNext, bounds
<1>13. CASE CommitClaim
  BY <1>13 DEF CommitClaim, bounds
<1>14. CASE Refused
  BY <1>14 DEF Refused, AtAwait, bounds
<1>15. CASE PutBack
  BY <1>15 DEF PutBack, bounds
<1>16. CASE StepReturns
  BY <1>16 DEF StepReturns, Claim, AtAwait, bounds
<1>17. CASE EndTurn
  BY <1>17 DEF EndTurn, AtAwait, bounds
<1>18. CASE Answer
  BY <1>18 DEF Answer, AtAwait, bounds
<1>19. CASE Leave
  BY <1>19 DEF Leave, AtAwait, bounds
<1>20. CASE Steer
  BY <1>20 DEF Steer, AtAwait, bounds
<1>21. CASE Switch
  BY <1>21 DEF Switch, Stops, AskToStop, AtAwait, bounds
<1>22. CASE StopAll
  BY <1>22 DEF StopAll, Stops, AskToStop, AtAwait, bounds
<1>23. CASE Dispose
  BY <1>23 DEF Dispose, AtAwait, bounds
<1>24. CASE Unwind
  BY <1>24 DEF Unwind, Stops, AskToStop, AtAwait, bounds
<1>25. CASE Close
  BY <1>25 DEF Close, AtAwait, bounds
<1>26. CASE Kill
  BY <1>26 DEF Kill, bounds
<1>27. CASE Resume
  BY <1>27 DEF Resume, bounds
<1>28. CASE UNCHANGED vars
  BY <1>28 DEF vars, bounds
<1> QED
  BY <1>1, <1>2, <1>3, <1>4, <1>5, <1>6, <1>7, <1>8, <1>9, <1>10, <1>11, <1>12,
     <1>13, <1>14, <1>15, <1>16, <1>17, <1>18, <1>19, <1>20, <1>21, <1>22,
     <1>23, <1>24, <1>25, <1>26, <1>27, <1>28 DEF Next, Registry, Driver

LEMMA NextIInv == IInv /\ [Next]_vars => IInv'
<1> SUFFICES ASSUME IInv, [Next]_vars PROVE IInv'
  OBVIOUS
<1>1. TypeOK /\ AuthInv /\ PhaseInv /\ StopInv /\ WakeInv /\ NoticeInv /\ OwedInv
  BY DEF IInv
<1>2. TypeOK' /\ AuthInv' /\ PhaseInv' /\ StopInv'
  BY <1>1, TypeKeeps, AuthorityKept, PhasesKept, StopsKept
<1>3. WakeInv' /\ NoticeInv' /\ OwedInv'
  BY <1>1, WakesKept, NoticesKept, OwedKept
<1>4. UniqueIds' => UniqueIds
  BY IdsAreGiven DEF UniqueIds
<1>5. UniqueIds => ReportInv'
  BY <1>1, ReportsKept DEF IInv
<1> QED
  BY <1>2, <1>3, <1>4, <1>5 DEF IInv

(* All of it, always.                                                       *)
THEOREM Invariance == Spec => []IInv
  BY InitIInv, NextIInv, PTL DEF Spec

(* No process keeps an authority the session no longer grants, a launch in  *)
(* flight when it was switched included: for any number of switches.        *)
THEOREM RunsUnderTheAuthority == Spec => []AuthorityHeld
<1>1. IInv => AuthorityHeld
  BY DEF IInv, AuthInv, AuthorityHeld
<1> QED
  BY <1>1, Invariance, PTL

(* stopAll is kept: after it no end of a job starts a turn, whatever was    *)
(* running, launching or owed a notice, until a person writes.              *)
THEOREM StoppedForGood == Spec => StopAllHolds
<1>1. IInv' => (latched /\ latched' => phase' # "begin")
  BY DEF IInv, StopInv
<1> QED
  BY <1>1, Invariance, PTL DEF StopAllHolds

(* The wake budget: one turn more than it says, and never two, for every    *)
(* budget; and one for each kill that had a batch delivered again.          *)
THEOREM WakesWithinBudget == Spec => []WithinBounds
<1>1. IInv => WithinBounds
  <2> SUFFICES ASSUME IInv, phase # "entering" PROVE FoldWakes <= budget + 1 + cuts
    BY DEF IInv, WithinBounds, WakeBudget
  <2>1. FoldWakes \in Nat
    BY WakesCounted DEF IInv
  <2>2. budget \in Nat /\ cuts \in Nat
    BY JobBounds DEF IInv, TypeOK
  <2> QED
    BY <2>1, <2>2 DEF IInv, WakeInv, Allowed
<1> QED
  BY <1>1, Invariance, PTL

(* Every end of a job is told to the model exactly once, whichever of the   *)
(* waiting call and the notice tells it and wherever the lives were cut -   *)
(* but for a notice cut from the record of its claim, which is told once    *)
(* more for each such kill and never more often, and one a kill took        *)
(* between that record and its put-back.                                    *)
THEOREM ToldExactlyOnce == Spec => []EndToldExactlyOnce
<1>1. ASSUME IInv, UniqueIds, AtAwait, NEW j \in Job, HasEnd(j)
      PROVE  Heard(j) \/ j \in unsaid
  <2>1. NoticeInv /\ OwedInv /\ ReportInv /\ owing = {} /\ phase # "dead" /\ unlogged = <<>>
    BY <1>1 DEF IInv, AtAwait
  <2>2. CASE j \in noticed
    <3>1. entered[j] > 0 \/ j \in Senders(queue \o batch) \/ j \in unsaid
      <4>1. queue \in Seq(Msg) /\ batch \in Seq(Msg)
        BY <1>1 DEF IInv, TypeOK, Msg
      <4> QED
        BY <2>1, <2>2, <4>1, ConcatFacts, Nothing DEF NoticeInv
    <3> QED
      BY <3>1 DEF Heard
  <2>3. CASE j \notin noticed /\ ended[j].by \in answered
    BY <2>1, <2>3 DEF ReportInv, Heard
  <2>4. CASE j \notin noticed /\ ended[j].by \notin answered
    <3>1. ended[j].by # Nobody
      BY <1>1, <2>1, <2>4 DEF OwedInv
    <3>2. InFlight /\ ended[j].by = call.id
      BY <1>1, <2>1, <2>4, <3>1 DEF ReportInv
    <3> QED
      BY <2>1, <3>2 DEF ReportInv, InFlight, Heard
  <2> QED
    BY <2>2, <2>3, <2>4
<1>2. ASSUME IInv PROVE EndNeverLost
  <2>1. \A j \in Job : entry[j] = "over" => HasEnd(j)
    BY <1>2 DEF IInv, NoticeInv
  <2> QED
    BY <1>1, <1>2, <2>1 DEF EndNeverLost
<1>3. ASSUME IInv PROVE ToldOnce
  <2>1. NoticeInv /\ (UniqueIds => ReportInv)
    BY <1>3 DEF IInv
  <2>2. \A j \in Job : entered[j] <= 1 + again[j]
    BY <2>1 DEF NoticeInv
  <2>3. UniqueIds => \A j \in Job : ~(j \in noticed /\ ended[j].by \in answered)
    BY <2>1 DEF ReportInv
  <2> QED
    BY <2>2, <2>3 DEF ToldOnce
<1> QED
  BY <1>2, <1>3, Invariance, PTL DEF EndToldExactlyOnce

=============================================================================
