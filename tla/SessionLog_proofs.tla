-------------------------- MODULE SessionLog_proofs --------------------------
(***************************************************************************)
(* What is folded from a session's log: the asks, consents and answers of  *)
(* approval, and what the model is shown while compactions replace parts   *)
(* of it; for any bounds, and any chain of crashes, resumes and forks.     *)
(*                                                                         *)
(* Approval.  Every open ask has a person behind it, a child's session is  *)
(* consulted about nothing, the seam writes no record the authority        *)
(* invariant refuses, and every yes of a standing consent was earned.      *)
(* That the open asks of the log are those awaited needs every decision to *)
(* be about an earlier ask (WellFormed), so that a prefix of the log has no*)
(* decision about an ask it lost.  That a child asks nobody needs its log  *)
(* to begin with its pin (ChildLog), which the fence keeps.                *)
(* The consents are a recursive fold of the log.  What a fold holds is     *)
(* shown by climbing its places (Climb), once for every log that is Lawful:*)
(* each consent in it is a record of the log that nothing has ended since, *)
(* and one that stands was given by a person (FoldSound).  The same facts  *)
(* make the next record lawful, so that Lawful(log) is kept by every step. *)
(*                                                                         *)
(* Compaction.  No summary lands under a request, every request carries its*)
(* calls with all their results, and what is hidden can be read back.      *)
(* The surface is a fold as well, and is climbed in the same way.  A log is*)
(* Regular when each record is one that May follow those before it and what*)
(* they show; then what it shows has a Shape, record by record.  A prefix  *)
(* of a regular log is regular, which is what a crash and a fork leave.    *)
(* The invariant (CInv) says where the turn and the attempt stand in it.   *)
(***************************************************************************)
EXTENDS Approval, Compaction, FiniteSetTheorems, SequenceTheorems, WellFoundedInduction, TLAPS

IsLog(l) == \E S : l \in Seq(S)

WellFormed(l) ==
  /\ IsLog(l)
  /\ \A d \in At(l, {"decided"}) : l[d].id \in At(l, {"asked"}) /\ l[d].id < d

(* What a child's session never has: a policy that asks, a consent, a yes.  *)
Childlike(e) ==
  /\ e.kind = "policy" => e.policy = "never"
  /\ e.kind # "granted"
  /\ e.kind = "decided" => e.outcome # "allowed-once"

ChildLog(l) ==
  /\ l # <<>> /\ l[1].kind = "policy" /\ l[1].reason = "delegation"
  /\ \A i \in DOMAIN l : Childlike(l[i])

IInv ==
  /\ WellFormed(log)
  /\ openApprovals(log) = awaiting
  /\ delegated => ChildLog(log) /\ awaiting = {}

-----------------------------------------------------------------------------
(* Places in a log.  A set of them that is not empty has a last one: the    *)
(* folds that ask for the last record of a kind are well defined.  And each *)
(* of them has a rank of its own, the number of others before it, with no   *)
(* rank left out: they can be written down in order, each once.             *)

LEMMA HasLast ==
  ASSUME NEW n \in Nat, NEW S \in SUBSET (1..n), S # {}
  PROVE  \E i \in S : \A j \in S : j <= i
<1> DEFINE T == {k \in Nat : n - k \in S}
<1>1. \A i \in S : i \in Int /\ n - i \in Nat /\ n - (n - i) = i
  OBVIOUS
<1>2. T \subseteq Nat /\ T # {}
  <2> PICK i \in S : TRUE
    OBVIOUS
  <2> n - i \in T
    BY <1>1
  <2> QED
    OBVIOUS
<1>3. PICK x \in T : \A y \in T : <<y, x>> \notin OpToRel(<, Nat)
  BY <1>2, WFMin, NatLessThanWellFounded
<1>4. \A y \in T : ~(y < x)
  BY <1>2, <1>3 DEF OpToRel
<1>5. n - x \in S /\ x \in Nat
  BY <1>3
<1>6. \A j \in S : n - j \in T
  BY <1>1
<1>7. \A j \in S : j <= n - x
  <2> SUFFICES ASSUME NEW j \in S PROVE j <= n - x
    OBVIOUS
  <2>1. ~(n - j < x)
    BY <1>4, <1>6
  <2> QED
    BY <2>1, <1>1, <1>5
<1> QED
  BY <1>5, <1>7

Before(S, i) == {j \in S : j < i}
Rank(S, i) == Cardinality(Before(S, i))

LEMMA PlacesAreFinite ==
  ASSUME NEW n \in Nat, NEW S \in SUBSET (1..n)
  PROVE  IsFiniteSet(S) /\ Cardinality(S) \in Nat
<1>1. IsFiniteSet(1..n)
  BY FS_Interval
<1>2. IsFiniteSet(S)
  BY <1>1, FS_Subset
<1> QED
  BY <1>2, FS_CardinalityType

LEMMA RankBound ==
  ASSUME NEW n \in Nat, NEW S \in SUBSET (1..n), NEW i \in S
  PROVE  Rank(S, i) \in Nat /\ Rank(S, i) < Cardinality(S)
<1>1. Before(S, i) \in SUBSET S /\ i \notin Before(S, i)
  BY DEF Before
<1>2. IsFiniteSet(S) /\ Cardinality(S) \in Nat
  BY PlacesAreFinite
<1>3. Cardinality(Before(S, i)) \in Nat /\ Cardinality(Before(S, i)) <= Cardinality(S)
  BY <1>1, <1>2, FS_Subset, FS_CardinalityType
<1>4. Cardinality(Before(S, i)) # Cardinality(S)
  BY <1>1, <1>2, FS_Subset
<1> QED
  BY <1>2, <1>3, <1>4 DEF Rank

LEMMA RanksDiffer ==
  ASSUME NEW n \in Nat, NEW S \in SUBSET (1..n), NEW i \in S, NEW k \in S, Rank(S, i) = Rank(S, k)
  PROVE  i = k
<1>1. ASSUME NEW x \in S, NEW y \in S, x < y PROVE Rank(S, x) # Rank(S, y)
  <2>1. x \in Nat /\ y \in Nat /\ ~(x < x)
    OBVIOUS
  <2>0. \A j \in S : j < x => j < y
    BY <1>1
  <2>2. Before(S, x) \in SUBSET Before(S, y) /\ x \in Before(S, y) /\ x \notin Before(S, x)
    BY <1>1, <2>1, <2>0 DEF Before
  <2>3. Before(S, y) \in SUBSET (1..n)
    BY DEF Before
  <2>4. IsFiniteSet(Before(S, y))
    BY <2>3, PlacesAreFinite
  <2> QED
    BY <2>2, <2>4, FS_Subset DEF Rank
<1>2. i \in Nat /\ k \in Nat
  OBVIOUS
<1>3. i < k \/ k < i \/ i = k
  BY <1>2
<1> QED
  BY <1>1, <1>3

LEMMA RanksCover ==
  ASSUME NEW n \in Nat, NEW S \in SUBSET (1..n), NEW m \in 1..Cardinality(S)
  PROVE  \E i \in S : Rank(S, i) = m - 1
<1> DEFINE size == Cardinality(S)
           f == [i \in S |-> Rank(S, i) + 1]
<1>1. IsFiniteSet(S) /\ size \in Nat
  BY PlacesAreFinite
<1>2. ASSUME NEW i \in S PROVE f[i] \in 1..size /\ f[i] = Rank(S, i) + 1 /\ Rank(S, i) \in Nat
  BY <1>1, RankBound
<1>3. f \in [S -> 1..size]
  BY <1>2
<1>4. ASSUME NEW i \in S, NEW k \in S, f[i] = f[k] PROVE i = k
  <2>1. Rank(S, i) = Rank(S, k)
    BY <1>2, <1>4
  <2> QED
    BY <2>1, RanksDiffer
<1>5. DOMAIN f = S
  OBVIOUS
<1>6. IsFiniteSet(1..size) /\ Cardinality(1..size) = size
  BY <1>1, FS_Interval
<1> HIDE DEF f, size
<1>7. f \in Injection(S, 1..size)
  BY <1>3, <1>4, <1>5 DEF Injection, IsInjective
<1>8. f \in Surjection(S, 1..size)
  BY <1>6, <1>7, FS_Injection DEF size
<1>9. PICK i \in S : f[i] = m
  BY <1>8 DEF Surjection, size
<1> QED
  BY <1>2, <1>9

-----------------------------------------------------------------------------
(* Logs.                                                                    *)

LEMMA LogFacts ==
  ASSUME NEW l, IsLog(l)
  PROVE  Len(l) \in Nat /\ DOMAIN l = 1..Len(l) /\ (l = <<>> <=> Len(l) = 0)
BY DEF IsLog

LEMMA EmptyIsLog == IsLog(<<>>)
<1> <<>> \in Seq({})
  OBVIOUS
<1> QED
  BY DEF IsLog

LEMMA AppendFacts ==
  ASSUME NEW l, IsLog(l), NEW x
  PROVE  LET n == Append(l, x)
         IN  /\ IsLog(n) /\ Len(n) = Len(l) + 1 /\ n # <<>>
             /\ DOMAIN n = 1..(Len(l) + 1)
             /\ n[Len(l) + 1] = x /\ \A i \in 1..Len(l) : n[i] = l[i]
<1> PICK S : l \in Seq(S)
  BY DEF IsLog
<1> DEFINE T == S \union {x}
<1>1. l \in Seq(T) /\ x \in T
  BY SeqMonotonic
<1> HIDE DEF T
<1>2. Append(l, x) \in Seq(T)
  BY <1>1, AppendProperties
<1> QED
  BY <1>1, <1>2, AppendProperties DEF IsLog

LEMMA AppendAsConcat ==
  ASSUME NEW l, IsLog(l), NEW x
  PROVE  l \o <<x>> = Append(l, x) /\ l \o <<>> \o <<x>> = Append(l, x)
<1> PICK S : l \in Seq(S)
  BY DEF IsLog
<1> DEFINE T == S \union {x}
<1>1. l \in Seq(T) /\ x \in T
  BY SeqMonotonic
<1> HIDE DEF T
<1>2. l \o <<x>> = Append(l, x)
  BY <1>1, AppendIsConcat
<1>3. l \o <<>> = l
  BY <1>1, ConcatEmptySeq
<1> QED
  BY <1>2, <1>3

LEMMA ConcatFacts ==
  ASSUME NEW l, IsLog(l), NEW c, IsLog(c)
  PROVE  LET n == l \o c
         IN  /\ IsLog(n) /\ Len(n) = Len(l) + Len(c)
             /\ \A i \in 1..Len(l) : n[i] = l[i]
             /\ \A i \in 1..Len(c) : n[Len(l) + i] = c[i]
             /\ \A i \in 1..Len(n) : i > Len(l) => i - Len(l) \in 1..Len(c) /\ n[i] = c[i - Len(l)]
<1> PICK S : l \in Seq(S)
  BY DEF IsLog
<1> PICK C : c \in Seq(C)
  BY DEF IsLog
<1> DEFINE T == S \union C
           n == l \o c
<1>1. l \in Seq(T) /\ c \in Seq(T)
  BY SeqMonotonic
<1> HIDE DEF T
<1>2. /\ n \in Seq(T) /\ Len(n) = Len(l) + Len(c)
      /\ \A i \in 1..(Len(l) + Len(c)) : n[i] = IF i <= Len(l) THEN l[i] ELSE c[i - Len(l)]
  BY <1>1, ConcatProperties
<1>3. Len(l) \in Nat /\ Len(c) \in Nat
  BY <1>1
<1> HIDE DEF n
<1>4. \A i \in 1..Len(l) : n[i] = l[i]
  BY <1>2, <1>3
<1>5. \A i \in 1..Len(c) : Len(l) + i \in 1..(Len(l) + Len(c)) /\ ~(Len(l) + i <= Len(l))
                           /\ Len(l) + i - Len(l) = i
  BY <1>3
<1>6. \A i \in 1..Len(c) : n[Len(l) + i] = c[i]
  BY <1>2, <1>5
<1>7. \A i \in 1..Len(n) : i > Len(l) => i - Len(l) \in 1..Len(c) /\ n[i] = c[i - Len(l)]
  BY <1>2, <1>3
<1> QED
  BY <1>2, <1>4, <1>6, <1>7 DEF n, IsLog

LEMMA PrefixFacts ==
  ASSUME NEW l, IsLog(l), NEW k \in 0..Len(l)
  PROVE  LET n == SubSeq(l, 1, k)
         IN  IsLog(n) /\ Len(n) = k /\ \A i \in 1..k : n[i] = l[i]
<1> PICK S : l \in Seq(S)
  BY DEF IsLog
<1>1. Len(l) \in Nat /\ \A i \in 1..k : l[i] \in S
  OBVIOUS
<1>2. SubSeq(l, 1, k) \in Seq(S) /\ Len(SubSeq(l, 1, k)) = k
      /\ \A i \in 1..k : SubSeq(l, 1, k)[i] = l[i]
  BY <1>1, SubSeqProperties
<1> QED
  BY <1>2 DEF IsLog

LEMMA LargestIsLast ==
  ASSUME NEW n \in Nat, NEW S \in SUBSET (1..n), S # {}
  PROVE  Largest(S) \in S /\ \A j \in S : j <= Largest(S)
BY HasLast DEF Largest

-----------------------------------------------------------------------------
(* The fold of the consents, after each beginning of the log.  It is a      *)
(* recursive function: that there is one, and what it holds, are shown by   *)
(* climbing from one place to the next.                                     *)

LEMMA Climb ==
  ASSUME NEW n \in Nat, NEW S, 0 \in S, \A k \in 0..n : k \in S /\ k < n => k + 1 \in S
  PROVE  0..n \subseteq S
<1> DEFINE T == (0..n) \ S
<1> SUFFICES ASSUME T # {} PROVE FALSE
  OBVIOUS
<1>1. T \subseteq Nat /\ T # {}
  OBVIOUS
<1>2. PICK x \in T : \A y \in T : <<y, x>> \notin OpToRel(<, Nat)
  BY <1>1, WFMin, NatLessThanWellFounded
<1>3. \A y \in T : ~(y < x)
  BY <1>1, <1>2 DEF OpToRel
<1>4. x \in 1..n /\ x - 1 \in 0..n /\ x - 1 < x /\ x - 1 < n /\ (x - 1) + 1 = x
  OBVIOUS
<1>5. x - 1 \notin T
  BY <1>3, <1>4
<1> QED
  BY <1>4, <1>5

(* What a fold of the first k records is.                                   *)
Folds(g, l, k) ==
  g = [n \in 0..k |-> IF n = 0 THEN Nothing ELSE Push(g[n - 1], l[n], n)]

LEMMA FoldExists ==
  ASSUME NEW l, NEW n \in Nat
  PROVE  \E g : Folds(g, l, n)
<1> DEFINE S == {k \in 0..n : \E g : Folds(g, l, k)}
<1>1. 0 \in S
  <2> DEFINE g == [k \in 0..0 |-> Nothing]
  <2>1. g = [k \in 0..0 |-> IF k = 0 THEN Nothing ELSE Push(g[k - 1], l[k], k)]
    OBVIOUS
  <2>2. Folds(g, l, 0)
    BY <2>1 DEF Folds
  <2> HIDE DEF g
  <2> QED
    BY <2>2
<1>2. ASSUME NEW k \in 0..n, k \in S, k < n PROVE k + 1 \in S
  <2>1. PICK g : Folds(g, l, k)
    BY <1>2
  <2>2. /\ DOMAIN g = 0..k /\ g[0] = Nothing
        /\ \A i \in 1..k : g[i] = Push(g[i - 1], l[i], i)
    BY <2>1 DEF Folds
  <2> DEFINE h == [i \in 0..(k + 1) |-> IF i <= k THEN g[i] ELSE Push(g[k], l[k + 1], k + 1)]
  <2>3. \A i \in 0..(k + 1) :
          h[i] = IF i = 0 THEN Nothing ELSE Push(h[i - 1], l[i], i)
    <3> SUFFICES ASSUME NEW i \in 0..(k + 1)
                 PROVE  h[i] = IF i = 0 THEN Nothing ELSE Push(h[i - 1], l[i], i)
      OBVIOUS
    <3>1. CASE i = 0
      BY <2>2, <3>1
    <3>2. CASE i \in 1..k
      <4>1. h[i] = g[i] /\ h[i - 1] = g[i - 1] /\ i # 0
        BY <3>2
      <4>2. g[i] = Push(g[i - 1], l[i], i)
        BY <2>2, <3>2
      <4> QED
        BY <4>1, <4>2
    <3>3. CASE i = k + 1
      <4>1. h[i] = Push(g[k], l[k + 1], k + 1) /\ h[i - 1] = g[k] /\ i # 0
        BY <3>3
      <4> QED
        BY <3>3, <4>1
    <3> QED
      BY <3>1, <3>2, <3>3
  <2>4. Folds(h, l, k + 1)
    <3>1. DOMAIN h = 0..(k + 1) /\ h = [i \in 0..(k + 1) |-> h[i]]
      OBVIOUS
    <3> HIDE DEF h
    <3> QED
      BY <2>3, <3>1 DEF Folds
  <2> QED
    BY <1>2, <2>4
<1> HIDE DEF S
<1>3. 0..n \subseteq S
  BY <1>1, <1>2, Climb
<1> QED
  BY <1>3 DEF S

LEMMA ConsentsFold ==
  ASSUME NEW l, IsLog(l)
  PROVE  /\ Consents(l)[0] = Nothing
         /\ \A n \in 1..Len(l) : Consents(l)[n] = Push(Consents(l)[n - 1], l[n], n)
<1>1. Len(l) \in Nat
  BY LogFacts
<1>2. PICK g : g = [n \in 0..Len(l) |-> IF n = 0 THEN Nothing ELSE Push(g[n - 1], l[n], n)]
  BY <1>1, FoldExists DEF Folds
<1>3. Consents(l) = [n \in 0..Len(l) |->
                       IF n = 0 THEN Nothing ELSE Push(Consents(l)[n - 1], l[n], n)]
  BY <1>2 DEF Consents
<1> QED
  BY <1>1, <1>3

(* Logs that begin alike fold alike there.                                  *)
LEMMA ConsentsLocal ==
  ASSUME NEW l, IsLog(l), NEW m, IsLog(m), NEW n \in Nat, n <= Len(l), n <= Len(m),
         \A i \in 1..n : l[i] = m[i]
  PROVE  \A k \in 0..n : Consents(l)[k] = Consents(m)[k]
<1> DEFINE S == {k \in 0..n : Consents(l)[k] = Consents(m)[k]}
<1>1. Len(l) \in Nat /\ Len(m) \in Nat
  BY LogFacts
<1>2. 0 \in S
  BY ConsentsFold
<1>3. ASSUME NEW k \in 0..n, k \in S, k < n PROVE k + 1 \in S
  <2>1. k + 1 \in 1..n /\ k + 1 \in 1..Len(l) /\ k + 1 \in 1..Len(m) /\ (k + 1) - 1 = k /\ k + 1 \in 0..n
    BY <1>1, <1>3
  <2>2. Consents(l)[k + 1] = Push(Consents(l)[k], l[k + 1], k + 1)
        /\ Consents(m)[k + 1] = Push(Consents(m)[k], m[k + 1], k + 1)
    BY <2>1, ConsentsFold
  <2> QED
    BY <1>3, <2>1, <2>2
<1> HIDE DEF S
<1>4. 0..n \subseteq S
  BY <1>2, <1>3, Climb
<1> QED
  BY <1>4 DEF S

-----------------------------------------------------------------------------
(* What the authority invariant asks of the next record of a log, and what  *)
(* the consents need besides: a yes is a person's or a consent's, and a     *)
(* consent answers in the tick of the ask.                                  *)

Admits(l, e) ==
  LET undecided == openApprovals(l)
      grantIds == At(l, {"granted"})
      fold == Consents(l)[Len(l)]
      keyOf(g) == {x.key : x \in {y \in fold.live : y.id = g}}
      pinned == delegationPin(l) # "none"
  IN  /\ e.kind = "policy" =>
           /\ e.reason = "delegation" => At(l, {"policy"}) = {}
           /\ e.reason # "delegation" /\ pinned => e.policy = delegationPin(l)
      /\ e.kind = "decided" =>
           /\ e.id \in undecided
           /\ e.grant # NoId => e.grant \in grantIds
           /\ e.by = "grant" => /\ e.grant # NoId /\ e.outcome = "allowed-once"
                                /\ keyOf(e.grant) = {l[e.id].key}
           /\ e.grant # NoId /\ e.by # "grant" =>
                \E b \in fold.born : b.ask = e.id /\ b.id = e.grant
           /\ e.by = "policy" => e.outcome = "rejected"
      /\ e.kind = "revoked" => e.id \in grantIds
      /\ e.kind = "granted" =>
           /\ ~pinned /\ e.key # Unkeyed
           /\ e.ask \in undecided /\ l[e.ask].key = e.key

Plain(e, n) ==
  /\ e.kind = "policy" => e.policy \in {"ask", "never"}
  /\ e.kind = "decided" => /\ e.outcome = "allowed-once" => e.by \in {"grant", "answerer"}
                           /\ e.by = "grant" => e.id = n - 1

Lawful(l) == \A n \in DOMAIN l : Accepted(l, n) /\ Plain(l[n], n)

(* Accepted looks only at the records before.                               *)
LEMMA AcceptedIsLocal ==
  ASSUME NEW l, IsLog(l), NEW n \in 1..Len(l)
  PROVE  LET before == SubSeq(l, 1, n - 1)
         IN  /\ IsLog(before) /\ Len(before) = n - 1
             /\ \A i \in 1..(n - 1) : before[i] = l[i]
             /\ Accepted(l, n) <=> Admits(before, l[n])
<1> DEFINE before == SubSeq(l, 1, n - 1)
           e == l[n]
<1>1. Len(l) \in Nat /\ n - 1 \in 0..Len(l)
  BY LogFacts
<1>2. IsLog(before) /\ Len(before) = n - 1 /\ \A i \in 1..(n - 1) : before[i] = l[i]
  BY <1>1, PrefixFacts
<1>3. openApprovals(before) \subseteq At(before, {"asked"})
  BY DEF openApprovals
<1>4. Accepted(l, n) <=> Admits(before, e)
  <2>1. CASE e.kind = "policy"
    BY <2>1, <1>2 DEF Accepted, Admits
  <2>2. CASE e.kind = "decided"
    BY <2>2, <1>2, <1>3 DEF Accepted, Admits
  <2>3. CASE e.kind = "revoked"
    BY <2>3, <1>2 DEF Accepted, Admits
  <2>4. CASE e.kind = "granted"
    BY <2>4, <1>2 DEF Accepted, Admits
  <2>5. CASE e.kind \notin {"policy", "decided", "revoked", "granted"}
    BY <2>5 DEF Accepted, Admits
  <2> QED
    BY <2>1, <2>2, <2>3, <2>4, <2>5
<1> QED
  BY <1>2, <1>4

LEMMA EqualLogs ==
  ASSUME NEW l, IsLog(l), NEW m, IsLog(m), Len(l) = Len(m), \A i \in 1..Len(l) : l[i] = m[i]
  PROVE  l = m
<1> PICK S : l \in Seq(S)
  BY DEF IsLog
<1> PICK T : m \in Seq(T)
  BY DEF IsLog
<1>1. l \in Seq(S \union T) /\ m \in Seq(S \union T)
  BY SeqMonotonic
<1> QED
  BY <1>1, SeqEqual

(* Logs that begin alike are judged alike there.                            *)
LEMMA AcceptedAlike ==
  ASSUME NEW l, IsLog(l), NEW m, IsLog(m), NEW n \in 1..Len(l), n \in 1..Len(m),
         \A i \in 1..n : m[i] = l[i], Accepted(l, n)
  PROVE  Accepted(m, n)
<1>1. /\ IsLog(SubSeq(l, 1, n - 1)) /\ Len(SubSeq(l, 1, n - 1)) = n - 1
      /\ \A i \in 1..(n - 1) : SubSeq(l, 1, n - 1)[i] = l[i]
      /\ Accepted(l, n) <=> Admits(SubSeq(l, 1, n - 1), l[n])
  BY AcceptedIsLocal
<1>2. /\ IsLog(SubSeq(m, 1, n - 1)) /\ Len(SubSeq(m, 1, n - 1)) = n - 1
      /\ \A i \in 1..(n - 1) : SubSeq(m, 1, n - 1)[i] = m[i]
      /\ Accepted(m, n) <=> Admits(SubSeq(m, 1, n - 1), m[n])
  BY AcceptedIsLocal
<1>3. n \in 1..n /\ \A i \in 1..(n - 1) : i \in 1..n
  BY LogFacts
<1>4. SubSeq(l, 1, n - 1) = SubSeq(m, 1, n - 1)
  BY <1>1, <1>2, <1>3, EqualLogs
<1> QED
  BY <1>1, <1>2, <1>3, <1>4

(* One record more: it is judged by the log before it, and no other record  *)
(* is judged anew.                                                          *)
LEMMA LawfulStep ==
  ASSUME NEW l, IsLog(l), Lawful(l), NEW x, Admits(l, x), Plain(x, Len(l) + 1)
  PROVE  IsLog(Append(l, x)) /\ Lawful(Append(l, x))
<1> DEFINE m == Append(l, x)
<1>1. /\ IsLog(m) /\ Len(m) = Len(l) + 1 /\ DOMAIN m = 1..(Len(l) + 1)
      /\ m[Len(l) + 1] = x /\ \A i \in 1..Len(l) : m[i] = l[i]
  BY AppendFacts
<1>2. Len(l) \in Nat /\ DOMAIN l = 1..Len(l)
  BY LogFacts
<1> HIDE DEF m
<1>3. ASSUME NEW n \in 1..Len(l) PROVE Accepted(m, n) /\ Plain(m[n], n)
  <2>1. n \in 1..Len(m) /\ n \in DOMAIN l /\ \A i \in 1..n : m[i] = l[i] /\ n \in 1..n
    BY <1>1, <1>2
  <2>2. Accepted(l, n) /\ Plain(l[n], n) /\ m[n] = l[n]
    BY <1>1, <2>1 DEF Lawful
  <2> QED
    BY <1>1, <2>1, <2>2, AcceptedAlike
<1>4. Accepted(m, Len(l) + 1) /\ Plain(m[Len(l) + 1], Len(l) + 1)
  <2>1. Len(l) + 1 \in 1..Len(m) /\ (Len(l) + 1) - 1 = Len(l)
    BY <1>1, <1>2
  <2>2. /\ IsLog(SubSeq(m, 1, Len(l))) /\ Len(SubSeq(m, 1, Len(l))) = Len(l)
        /\ \A i \in 1..Len(l) : SubSeq(m, 1, Len(l))[i] = m[i]
        /\ Accepted(m, Len(l) + 1) <=> Admits(SubSeq(m, 1, Len(l)), m[Len(l) + 1])
    BY <1>1, <2>1, AcceptedIsLocal
  <2>3. SubSeq(m, 1, Len(l)) = l
    BY <1>1, <2>2, EqualLogs
  <2> QED
    BY <1>1, <2>2, <2>3
<1>5. \A n \in DOMAIN m : n \in 1..Len(l) \/ n = Len(l) + 1
  BY <1>1, <1>2
<1>6. Lawful(m)
  BY <1>3, <1>4, <1>5 DEF Lawful
<1> QED
  BY <1>1, <1>6 DEF m

LEMMA LawfulPrefix ==
  ASSUME NEW l, IsLog(l), Lawful(l), NEW k \in 0..Len(l)
  PROVE  Lawful(SubSeq(l, 1, k))
<1> DEFINE m == SubSeq(l, 1, k)
<1>1. IsLog(m) /\ Len(m) = k /\ \A i \in 1..k : m[i] = l[i]
  BY PrefixFacts
<1>2. Len(l) \in Nat /\ DOMAIN l = 1..Len(l) /\ DOMAIN m = 1..k
  BY <1>1, LogFacts
<1> HIDE DEF m
<1>3. ASSUME NEW n \in 1..k PROVE Accepted(m, n) /\ Plain(m[n], n)
  <2>1. n \in 1..Len(m) /\ n \in DOMAIN l /\ n \in 1..Len(l) /\ \A i \in 1..n : m[i] = l[i]
    BY <1>1, <1>2
  <2>2. Accepted(l, n) /\ Plain(l[n], n) /\ m[n] = l[n]
    BY <1>1, <2>1 DEF Lawful
  <2> QED
    BY <1>1, <2>1, <2>2, AcceptedAlike
<1> QED
  BY <1>2, <1>3 DEF Lawful, m

-----------------------------------------------------------------------------
(* What the fold of a lawful log holds: a consent not yet given, and one    *)
(* that stands, are records of the log, nothing has ended them since, and   *)
(* the one that stands was given by a person.                               *)

Ended(e, g) == e.kind \in AuthorityKinds \/ (e.kind = "revoked" /\ e.id = g)

Recorded(l, n, g, key) ==
  /\ g \in 1..n /\ l[g].kind = "granted" /\ l[g].key = key /\ key # Unkeyed
  /\ \A i \in g..n : ~Ended(l[i], g)

Given(l, n, g) ==
  \E yes \in 1..n : /\ g < yes /\ l[yes].kind = "decided" /\ l[yes].id = l[g].ask
                    /\ l[yes].outcome = "allowed-once" /\ l[yes].by = "answerer"

FoldSound(l, n) ==
  /\ \A b \in Consents(l)[n].born : Recorded(l, n, b.id, b.key) /\ l[b.id].ask = b.ask
  /\ \A g \in Consents(l)[n].live : Recorded(l, n, g.id, g.key) /\ Given(l, n, g.id)

LEMMA RecordedStays ==
  ASSUME NEW l, NEW n \in Nat, NEW g, NEW key, Recorded(l, n, g, key), ~Ended(l[n + 1], g)
  PROVE  Recorded(l, n + 1, g, key)
<1>1. g \in Nat /\ g \in 1..(n + 1)
  BY DEF Recorded
<1>2. \A i \in g..(n + 1) : i \in g..n \/ i = n + 1
  BY <1>1
<1> QED
  BY <1>1, <1>2 DEF Recorded

LEMMA GivenStays ==
  ASSUME NEW l, NEW n \in Nat, NEW g, Given(l, n, g)
  PROVE  Given(l, n + 1, g)
<1>1. \A yes \in 1..n : yes \in 1..(n + 1)
  OBVIOUS
<1> QED
  BY <1>1 DEF Given

(* The decision that makes a consent stand is a person's: a consent decides *)
(* an ask at once, and between this ask and its decision one was granted.   *)
LEMMA YesIsAPersons ==
  ASSUME NEW l, IsLog(l), Lawful(l), NEW d \in 1..Len(l), NEW g \in 1..(d - 1),
         l[d].kind = "decided", l[d].outcome = "allowed-once",
         l[g].kind = "granted", l[g].ask = l[d].id
  PROVE  l[d].by = "answerer"
<1>1. Len(l) \in Nat /\ DOMAIN l = 1..Len(l)
  BY LogFacts
<1>2. g \in 1..Len(l) /\ g \in Nat /\ d \in Nat /\ g < d
  BY <1>1
<1>3. Accepted(l, g) /\ Plain(l[d], d)
  BY <1>1, <1>2 DEF Lawful
<1>4. /\ IsLog(SubSeq(l, 1, g - 1)) /\ Len(SubSeq(l, 1, g - 1)) = g - 1
      /\ Admits(SubSeq(l, 1, g - 1), l[g])
  BY <1>2, <1>3, AcceptedIsLocal
<1>5. l[g].ask \in openApprovals(SubSeq(l, 1, g - 1))
  BY <1>4 DEF Admits
<1>6. l[g].ask \in 1..(g - 1)
  BY <1>4, <1>5, LogFacts DEF openApprovals, At
<1>7. l[d].id # d - 1
  BY <1>2, <1>6
<1> QED
  BY <1>3, <1>7 DEF Plain

LEMMA LawfulFoldStep ==
  ASSUME NEW l, IsLog(l), Lawful(l), NEW n \in Nat, n < Len(l), FoldSound(l, n)
  PROVE  FoldSound(l, n + 1)
<1> DEFINE e == l[n + 1]
           f == Consents(l)[n]
           h == Consents(l)[n + 1]
<1>1. Len(l) \in Nat /\ DOMAIN l = 1..Len(l) /\ n + 1 \in 1..Len(l) /\ (n + 1) - 1 = n
  BY LogFacts
<1>2. h = Push(f, e, n + 1)
  BY <1>1, ConsentsFold
<1>3. Accepted(l, n + 1)
  BY <1>1 DEF Lawful
<1>4. /\ IsLog(SubSeq(l, 1, n)) /\ Len(SubSeq(l, 1, n)) = n
      /\ Admits(SubSeq(l, 1, n), e)
  BY <1>1, <1>3, AcceptedIsLocal
<1>5. \A b \in f.born : Recorded(l, n, b.id, b.key) /\ l[b.id].ask = b.ask
  BY DEF FoldSound
<1>6. \A g \in f.live : Recorded(l, n, g.id, g.key) /\ Given(l, n, g.id)
  BY DEF FoldSound
<1> HIDE DEF f, h, e
<1>7. CASE e.kind \in AuthorityKinds
  <2>1. h = Nothing
    BY <1>2, <1>7 DEF Push, AuthorityKinds
  <2> QED
    BY <2>1 DEF FoldSound, h, Nothing
<1>8. CASE e.kind = "decided"
  <2> DEFINE made == {b \in f.born : b.ask = e.id}
             keys == {b.key : b \in made}
  <2>1. ~(e.kind \in AuthorityKinds)
    BY <1>8 DEF AuthorityKinds
  <2>2. /\ h.born = f.born \ made
        /\ h.live = IF e.outcome # "allowed-once" THEN f.live
                    ELSE {g \in f.live : g.key \notin keys}
                         \union {[id |-> b.id, key |-> b.key] : b \in made}
    BY <1>2, <1>8, <2>1 DEF Push
  <2>3. \A g : ~Ended(e, g)
    BY <1>8, <2>1 DEF Ended
  <2>4. \A b \in f.born : Recorded(l, n + 1, b.id, b.key) /\ l[b.id].ask = b.ask
    BY <1>5, <2>3, RecordedStays DEF e
  <2>5. \A g \in f.live : Recorded(l, n + 1, g.id, g.key) /\ Given(l, n + 1, g.id)
    BY <1>6, <2>3, RecordedStays, GivenStays DEF e
  <2>6. ASSUME NEW b \in made, e.outcome = "allowed-once" PROVE Given(l, n + 1, b.id)
    <3>1. b.id \in 1..n /\ l[b.id].kind = "granted" /\ l[b.id].ask = e.id
      BY <1>5, <2>6 DEF Recorded
    <3>2. e.by = "answerer"
      BY <1>1, <1>8, <2>6, <3>1, YesIsAPersons DEF e
    <3>3. n + 1 \in 1..(n + 1) /\ b.id < n + 1
      BY <3>1
    <3> QED
      BY <1>8, <2>6, <3>1, <3>2, <3>3 DEF Given, e
  <2> HIDE DEF made, keys
  <2>7. \A b \in made : b \in f.born
    BY DEF made
  <2>8. ASSUME NEW g \in h.live PROVE Recorded(l, n + 1, g.id, g.key) /\ Given(l, n + 1, g.id)
    <3>1. CASE g \in f.live
      BY <2>5, <3>1
    <3>2. CASE g \notin f.live
      <4>1. e.outcome = "allowed-once" /\ \E b \in made : g = [id |-> b.id, key |-> b.key]
        BY <2>2, <2>8, <3>2
      <4>2. PICK b \in made : g = [id |-> b.id, key |-> b.key]
        BY <4>1
      <4>3. g.id = b.id /\ g.key = b.key
        BY <4>2
      <4> QED
        BY <2>4, <2>6, <2>7, <4>1, <4>3
    <3> QED
      BY <3>1, <3>2
  <2>9. \A b \in h.born : Recorded(l, n + 1, b.id, b.key) /\ l[b.id].ask = b.ask
    BY <2>2, <2>4
  <2> QED
    BY <2>8, <2>9 DEF FoldSound, h
<1>9. CASE e.kind = "granted"
  <2>1. ~(e.kind \in AuthorityKinds)
    BY <1>9 DEF AuthorityKinds
  <2>2. /\ h.live = f.live
        /\ h.born \subseteq f.born \union {[ask |-> e.ask, id |-> n + 1, key |-> e.key]}
    BY <1>2, <1>9, <2>1 DEF Push
  <2>3. \A g : ~Ended(e, g)
    BY <1>9, <2>1 DEF Ended
  <2>4. \A b \in f.born : Recorded(l, n + 1, b.id, b.key) /\ l[b.id].ask = b.ask
    BY <1>5, <2>3, RecordedStays DEF e
  <2>5. \A g \in f.live : Recorded(l, n + 1, g.id, g.key) /\ Given(l, n + 1, g.id)
    BY <1>6, <2>3, RecordedStays, GivenStays DEF e
  <2>6. e.key # Unkeyed
    BY <1>4, <1>9 DEF Admits
  <2>7. Recorded(l, n + 1, n + 1, e.key)
    <3>1. n + 1 \in 1..(n + 1) /\ \A i \in (n + 1)..(n + 1) : i = n + 1
      OBVIOUS
    <3> QED
      BY <1>9, <2>3, <2>6, <3>1 DEF Recorded, e
  <2>8. ASSUME NEW b \in h.born PROVE Recorded(l, n + 1, b.id, b.key) /\ l[b.id].ask = b.ask
    <3>1. CASE b \in f.born
      BY <2>4, <3>1
    <3>2. CASE b = [ask |-> e.ask, id |-> n + 1, key |-> e.key]
      <4>1. b.id = n + 1 /\ b.key = e.key /\ b.ask = e.ask
        BY <3>2
      <4> QED
        BY <2>7, <4>1 DEF e
    <3> QED
      BY <2>2, <3>1, <3>2
  <2> QED
    BY <2>2, <2>5, <2>8 DEF FoldSound, h
<1>10. CASE e.kind = "revoked"
  <2>1. ~(e.kind \in AuthorityKinds)
    BY <1>10 DEF AuthorityKinds
  <2>2. /\ h.live = {g \in f.live : g.id # e.id}
        /\ h.born = {b \in f.born : b.id # e.id}
    BY <1>2, <1>10, <2>1 DEF Push
  <2>3. \A g : g # e.id => ~Ended(e, g)
    BY <2>1 DEF Ended
  <2>4. \A b \in h.born : Recorded(l, n + 1, b.id, b.key) /\ l[b.id].ask = b.ask
    BY <1>5, <2>2, <2>3, RecordedStays DEF e
  <2>5. \A g \in h.live : Recorded(l, n + 1, g.id, g.key) /\ Given(l, n + 1, g.id)
    BY <1>6, <2>2, <2>3, RecordedStays, GivenStays DEF e
  <2> QED
    BY <2>4, <2>5 DEF FoldSound, h
<1>11. CASE e.kind \notin AuthorityKinds \union {"decided", "granted", "revoked"}
  <2>1. h = f
    BY <1>2, <1>11 DEF Push
  <2>2. \A g : ~Ended(e, g)
    BY <1>11 DEF Ended
  <2>3. \A b \in f.born : Recorded(l, n + 1, b.id, b.key) /\ l[b.id].ask = b.ask
    BY <1>5, <2>2, RecordedStays DEF e
  <2>4. \A g \in f.live : Recorded(l, n + 1, g.id, g.key) /\ Given(l, n + 1, g.id)
    BY <1>6, <2>2, RecordedStays, GivenStays DEF e
  <2> QED
    BY <2>1, <2>3, <2>4 DEF FoldSound, h
<1> QED
  BY <1>7, <1>8, <1>9, <1>10, <1>11

LEMMA LawfulFold ==
  ASSUME NEW l, IsLog(l), Lawful(l)
  PROVE  \A n \in 0..Len(l) : FoldSound(l, n)
<1> DEFINE S == {n \in 0..Len(l) : FoldSound(l, n)}
<1>1. Len(l) \in Nat
  BY LogFacts
<1>2. 0 \in S
  <2>1. Consents(l)[0] = Nothing
    BY ConsentsFold
  <2> QED
    BY <1>1, <2>1 DEF FoldSound, Nothing
<1>3. ASSUME NEW k \in 0..Len(l), k \in S, k < Len(l) PROVE k + 1 \in S
  <2>1. FoldSound(l, k) /\ k \in Nat /\ k + 1 \in 0..Len(l)
    BY <1>1, <1>3
  <2>2. FoldSound(l, k + 1)
    BY <1>3, <2>1, LawfulFoldStep
  <2> QED
    BY <2>1, <2>2
<1> HIDE DEF S
<1>4. 0..Len(l) \subseteq S
  BY <1>1, <1>2, <1>3, Climb
<1> QED
  BY <1>4 DEF S

-----------------------------------------------------------------------------
(* One record more.                                                         *)

LEMMA AppendPlaces ==
  ASSUME NEW l, IsLog(l), NEW x, NEW kinds
  PROVE  At(Append(l, x), kinds) =
           At(l, kinds) \union (IF x.kind \in kinds THEN {Len(l) + 1} ELSE {})
<1> DEFINE n == Append(l, x)
<1>1. Len(l) \in Nat /\ DOMAIN l = 1..Len(l)
  BY LogFacts
<1>2. /\ DOMAIN n = 1..(Len(l) + 1)
      /\ n[Len(l) + 1] = x /\ \A i \in 1..Len(l) : n[i] = l[i]
  BY AppendFacts
<1> HIDE DEF n
<1>3. At(n, kinds) = {i \in 1..(Len(l) + 1) : n[i].kind \in kinds}
  BY <1>2 DEF At
<1>4. At(l, kinds) = {i \in 1..Len(l) : l[i].kind \in kinds}
  BY <1>1 DEF At
<1>5. ASSUME NEW i PROVE i \in 1..(Len(l) + 1) <=> (i \in 1..Len(l) \/ i = Len(l) + 1)
  BY <1>1
<1> QED
  BY <1>1, <1>2, <1>3, <1>4, <1>5 DEF n

(* A decision about an ask of the log closes it; an ask is open; any other  *)
(* record leaves the open asks alone.                                       *)
LEMMA AppendKeeps ==
  ASSUME NEW l, WellFormed(l), NEW x, x.kind = "decided" => x.id \in At(l, {"asked"})
  PROVE  /\ WellFormed(Append(l, x))
         /\ openApprovals(Append(l, x)) =
              CASE x.kind = "asked" -> openApprovals(l) \union {Len(l) + 1}
                [] x.kind = "decided" -> openApprovals(l) \ {x.id}
                [] OTHER -> openApprovals(l)
<1> DEFINE n == Append(l, x)
           new == Len(l) + 1
           askedAt == At(l, {"asked"})
           decisions == At(l, {"decided"})
<1>1. Len(l) \in Nat /\ DOMAIN l = 1..Len(l) /\ askedAt \subseteq 1..Len(l) /\ decisions \subseteq 1..Len(l)
  BY LogFacts DEF WellFormed, At
<1>2. IsLog(n) /\ n[new] = x /\ \A i \in 1..Len(l) : n[i] = l[i]
  BY AppendFacts DEF WellFormed
<1>3. /\ At(n, {"asked"}) = askedAt \union (IF x.kind = "asked" THEN {new} ELSE {})
      /\ At(n, {"decided"}) = decisions \union (IF x.kind = "decided" THEN {new} ELSE {})
  BY AppendPlaces DEF WellFormed
<1>4. \A d \in decisions : n[d].id = l[d].id /\ l[d].id \in askedAt /\ l[d].id < d /\ l[d].id # new
  BY <1>1, <1>2 DEF WellFormed
<1>5. \A i \in 1..Len(l) : i # new /\ i < new
  BY <1>1
<1> HIDE DEF n, new, askedAt, decisions
<1>6. ASSUME NEW d \in At(n, {"decided"}) PROVE n[d].id \in At(n, {"asked"}) /\ n[d].id < d
  <2>1. CASE d \in decisions
    BY <2>1, <1>3, <1>4
  <2>2. CASE x.kind = "decided" /\ d = new
    BY <2>2, <1>1, <1>2, <1>3, <1>5 DEF askedAt
  <2> QED
    BY <2>1, <2>2, <1>3
<1>7. WellFormed(n)
  BY <1>2, <1>6 DEF WellFormed
<1>8. openApprovals(l) = {i \in askedAt : \A d \in decisions : l[d].id # i}
  BY DEF openApprovals, askedAt, decisions
<1>9. openApprovals(n) = {i \in At(n, {"asked"}) : \A d \in At(n, {"decided"}) : n[d].id # i}
  BY DEF openApprovals
<1>10. CASE x.kind = "asked"
  <2>1. At(n, {"asked"}) = askedAt \union {new} /\ At(n, {"decided"}) = decisions
    BY <1>10, <1>3
  <2>2. openApprovals(n) = openApprovals(l) \union {new}
    BY <2>1, <1>4, <1>8, <1>9
  <2> QED
    BY <2>2, <1>7, <1>10 DEF n, new
<1>11. CASE x.kind = "decided"
  <2>1. At(n, {"asked"}) = askedAt /\ At(n, {"decided"}) = decisions \union {new}
    BY <1>11, <1>3
  <2>2. openApprovals(n) = openApprovals(l) \ {x.id}
    BY <2>1, <1>2, <1>4, <1>8, <1>9
  <2> QED
    BY <2>2, <1>7, <1>11 DEF n
<1>12. CASE x.kind \notin {"asked", "decided"}
  <2>1. At(n, {"asked"}) = askedAt /\ At(n, {"decided"}) = decisions
    BY <1>12, <1>3
  <2>2. openApprovals(n) = openApprovals(l)
    BY <2>1, <1>4, <1>8, <1>9
  <2> QED
    BY <2>2, <1>7, <1>12 DEF n
<1> QED
  BY <1>10, <1>11, <1>12

LEMMA AppendChild ==
  ASSUME NEW l, IsLog(l), ChildLog(l), NEW x, Childlike(x)
  PROVE  ChildLog(Append(l, x))
<1> DEFINE n == Append(l, x)
<1>1. Len(l) \in Nat /\ 1 \in 1..Len(l) /\ DOMAIN l = 1..Len(l)
  BY LogFacts DEF ChildLog
<1>2. /\ n # <<>> /\ DOMAIN n = 1..(Len(l) + 1)
      /\ n[Len(l) + 1] = x /\ \A i \in 1..Len(l) : n[i] = l[i]
  BY AppendFacts
<1> HIDE DEF n
<1>3. \A i \in 1..(Len(l) + 1) : i \in 1..Len(l) \/ i = Len(l) + 1
  BY <1>1
<1>4. ChildLog(n)
  BY <1>1, <1>2, <1>3 DEF ChildLog
<1> QED
  BY <1>4 DEF n

(* What a child's log says of its policy, whatever it holds besides.        *)
LEMMA ChildPolicy ==
  ASSUME NEW l, IsLog(l), ChildLog(l)
  PROVE  /\ effectiveApprovalPolicy(l) = "never"
         /\ delegationPin(l) = "never"
<1> DEFINE stamps == At(l, {"policy"})
<1>1. Len(l) \in Nat /\ 1 \in 1..Len(l) /\ DOMAIN l = 1..Len(l)
  BY LogFacts DEF ChildLog
<1>2. 1 \in stamps /\ stamps \in SUBSET (1..Len(l))
  BY <1>1 DEF ChildLog, At
<1>3. \A i \in stamps : l[i].policy = "never"
  BY <1>1 DEF ChildLog, Childlike, At
<1>4. Largest(stamps) \in stamps
  BY <1>1, <1>2, LargestIsLast
<1>5. Smallest(stamps) = 1
  <2>1. \A j \in stamps : j \in Nat /\ 1 <= j
    BY <1>2
  <2> QED
    BY <1>2, <2>1 DEF Smallest
<1> QED
  BY <1>2, <1>3, <1>4, <1>5 DEF effectiveApprovalPolicy, delegationPin, ChildLog

(* open: at most a policy is recorded, and in a child's session none.       *)
LEMMA OpenKeeps ==
  ASSUME NEW l, WellFormed(l)
  PROVE  /\ WellFormed(Open(l)) /\ openApprovals(Open(l)) = openApprovals(l)
         /\ ChildLog(l) => Open(l) = l
<1> DEFINE x == Policy(Default, "initial")
<1>1. x.kind = "policy"
  BY DEF Policy
<1>2. Open(l) = l \/ Open(l) = Append(l, x)
  BY DEF Open
<1>3. WellFormed(Append(l, x)) /\ openApprovals(Append(l, x)) = openApprovals(l)
  BY <1>1, AppendKeeps
<1>4. ChildLog(l) => effectiveApprovalPolicy(l) # "none"
  BY ChildPolicy DEF WellFormed
<1> QED
  BY <1>2, <1>3, <1>4 DEF Open

-----------------------------------------------------------------------------
(* A log cut and repaired.                                                  *)

LEMMA PrefixKeeps ==
  ASSUME NEW l, WellFormed(l), NEW k \in 0..Len(l)
  PROVE  /\ WellFormed(SubSeq(l, 1, k))
         /\ ChildLog(l) /\ k > 0 => ChildLog(SubSeq(l, 1, k))
<1> DEFINE n == SubSeq(l, 1, k)
<1>1. Len(l) \in Nat /\ DOMAIN l = 1..Len(l)
  BY LogFacts DEF WellFormed
<1>2. IsLog(n) /\ Len(n) = k /\ \A i \in 1..k : n[i] = l[i]
  BY PrefixFacts DEF WellFormed
<1>3. DOMAIN n = 1..k /\ (n = <<>> <=> k = 0)
  BY <1>2, LogFacts
<1> HIDE DEF n
<1>4. ASSUME NEW d \in At(n, {"decided"}) PROVE n[d].id \in At(n, {"asked"}) /\ n[d].id < d
  <2>1. d \in 1..k /\ d \in At(l, {"decided"}) /\ n[d] = l[d]
    BY <1>1, <1>2, <1>3 DEF At
  <2>2. l[d].id \in At(l, {"asked"}) /\ l[d].id < d
    BY <2>1 DEF WellFormed
  <2>3. l[d].id \in 1..k
    BY <1>1, <2>1, <2>2 DEF At
  <2> QED
    BY <1>2, <1>3, <2>1, <2>2, <2>3 DEF At
<1>5. WellFormed(n)
  BY <1>2, <1>4 DEF WellFormed
<1>6. ASSUME ChildLog(l), k > 0 PROVE ChildLog(n)
  <2>1. 1 \in 1..k /\ 1..k \subseteq 1..Len(l)
    BY <1>1, <1>6
  <2> QED
    BY <1>1, <1>2, <1>3, <1>6, <2>1 DEF ChildLog
<1> QED
  BY <1>5, <1>6 DEF n

(* Repair decides every open ask, once each: the n-th closer is about the   *)
(* open ask with n - 1 others before it.                                    *)
LEMMA ClosersCover ==
  ASSUME NEW l, WellFormed(l)
  PROVE  LET c == Closers(l)
         IN  /\ IsLog(c)
             /\ \A n \in 1..Len(c) : /\ c[n].kind = "decided" /\ c[n].outcome = "cancelled"
                                      /\ c[n].by = "none" /\ c[n].grant = NoId
                                      /\ c[n].id \in openApprovals(l)
             /\ \A i \in openApprovals(l) : \E n \in 1..Len(c) : c[n].id = i
             /\ \A n, k \in 1..Len(c) : c[n].id = c[k].id => n = k
<1> DEFINE open == openApprovals(l)
           nth(n) == CHOOSE i \in open : Rank(open, i) = n - 1
           size == Cardinality(open)
           c == [n \in 1..size |-> Decided(nth(n), "cancelled", "none", NoId)]
<1>1. open \in SUBSET (1..Len(l)) /\ Len(l) \in Nat
  BY LogFacts DEF openApprovals, At, WellFormed
<1>2. Closers(l) = c
  BY DEF Closers, Rank, Before
<1> HIDE DEF open
<1>3. size \in Nat
  BY <1>1, PlacesAreFinite
<1>4. ASSUME NEW n \in 1..size PROVE nth(n) \in open
  <2>1. \E i \in open : Rank(open, i) = n - 1
    BY <1>1, RanksCover
  <2> QED
    BY <2>1
<1>5. ASSUME NEW i \in open PROVE \E n \in 1..size : nth(n) = i
  <2> DEFINE n == Rank(open, i) + 1
  <2>1. n \in 1..size /\ n - 1 = Rank(open, i)
    <3>1. Rank(open, i) \in Nat /\ Rank(open, i) < size
      BY <1>1, RankBound
    <3> QED
      BY <1>3, <3>1
  <2>2. nth(n) \in open /\ Rank(open, nth(n)) = Rank(open, i)
    BY <2>1
  <2>3. nth(n) = i
    BY <1>1, <2>2, RanksDiffer
  <2> QED
    BY <2>1, <2>3
<1>8. ASSUME NEW n \in 1..size, NEW k \in 1..size, nth(n) = nth(k) PROVE n = k
  <2>1. \A i \in 1..size : \E j \in open : Rank(open, j) = i - 1
    BY <1>1, RanksCover
  <2>2. Rank(open, nth(n)) = n - 1 /\ Rank(open, nth(k)) = k - 1
    BY <2>1
  <2> HIDE DEF nth
  <2> QED
    BY <1>3, <1>8, <2>2
<1> HIDE DEF nth
<1>6. IsLog(c) /\ Len(c) = size /\ \A n \in 1..size : c[n] = Decided(nth(n), "cancelled", "none", NoId)
  <2>1. c \in Seq({Decided(nth(n), "cancelled", "none", NoId) : n \in 1..size})
    BY <1>3, IsASeq
  <2> QED
    BY <1>3, <2>1 DEF IsLog
<1>7. \A n \in 1..size : /\ c[n].kind = "decided" /\ c[n].outcome = "cancelled" /\ c[n].id = nth(n)
                         /\ c[n].by = "none" /\ c[n].grant = NoId
  BY <1>6 DEF Decided
<1> HIDE DEF c
<1> QED
  BY <1>2, <1>4, <1>5, <1>6, <1>7, <1>8 DEF open

LEMMA RepairKeeps ==
  ASSUME NEW l, WellFormed(l)
  PROVE  /\ WellFormed(l \o Closers(l)) /\ openApprovals(l \o Closers(l)) = {}
         /\ ChildLog(l) => ChildLog(l \o Closers(l))
<1> DEFINE c == Closers(l)
           n == l \o c
           open == openApprovals(l)
<1>1. Len(l) \in Nat /\ DOMAIN l = 1..Len(l) /\ open \subseteq At(l, {"asked"})
  BY LogFacts DEF WellFormed, openApprovals
<1>2. /\ IsLog(c)
      /\ \A i \in 1..Len(c) : c[i].kind = "decided" /\ c[i].outcome = "cancelled" /\ c[i].id \in open
      /\ \A i \in open : \E k \in 1..Len(c) : c[k].id = i
  BY ClosersCover
<1>3. /\ IsLog(n) /\ Len(n) = Len(l) + Len(c)
      /\ \A i \in 1..Len(l) : n[i] = l[i]
      /\ \A i \in 1..Len(c) : n[Len(l) + i] = c[i]
      /\ \A i \in 1..Len(n) : i > Len(l) => i - Len(l) \in 1..Len(c) /\ n[i] = c[i - Len(l)]
  BY <1>2, ConcatFacts DEF WellFormed
<1>4. Len(c) \in Nat /\ DOMAIN n = 1..(Len(l) + Len(c))
  BY <1>2, <1>3, LogFacts
<1> HIDE DEF n, c, open
<1>5. ASSUME NEW i \in DOMAIN n
      PROVE  \/ i \in DOMAIN l /\ n[i] = l[i]
             \/ i > Len(l) /\ n[i].kind = "decided" /\ n[i].outcome = "cancelled" /\ n[i].id \in open
  <2>1. i \in 1..Len(n) /\ (i \in 1..Len(l) \/ i > Len(l))
    BY <1>1, <1>3, <1>4
  <2>2. CASE i \in 1..Len(l)
    BY <1>1, <1>3, <2>2
  <2>3. CASE i > Len(l)
    <3>1. i - Len(l) \in 1..Len(c) /\ n[i] = c[i - Len(l)]
      BY <1>3, <2>1, <2>3
    <3> QED
      BY <1>2, <2>3, <3>1
  <2> QED
    BY <2>1, <2>2, <2>3
<1>6. \A i \in DOMAIN l : i \in DOMAIN n /\ n[i] = l[i]
  BY <1>1, <1>3, <1>4
<1>7. At(n, {"asked"}) = At(l, {"asked"})
  BY <1>5, <1>6 DEF At
<1>8. ASSUME NEW d \in At(n, {"decided"}) PROVE n[d].id \in At(n, {"asked"}) /\ n[d].id < d
  <2>1. CASE d \in DOMAIN l /\ n[d] = l[d]
    <3>1. d \in At(l, {"decided"})
      BY <2>1 DEF At
    <3> QED
      BY <2>1, <3>1, <1>7 DEF WellFormed
  <2>2. CASE d > Len(l) /\ n[d].id \in open
    <3>1. n[d].id \in 1..Len(l) /\ d \in Nat
      BY <1>1, <1>4, <2>2 DEF At
    <3> QED
      BY <1>1, <1>7, <2>2, <3>1
  <2> QED
    BY <1>5, <2>1, <2>2 DEF At
<1>9. WellFormed(n)
  BY <1>3, <1>8 DEF WellFormed
<1>10. openApprovals(n) = {}
  <2> SUFFICES ASSUME NEW i \in openApprovals(n) PROVE FALSE
    OBVIOUS
  <2>1. i \in At(l, {"asked"}) /\ \A d \in At(n, {"decided"}) : n[d].id # i
    BY <1>7 DEF openApprovals
  <2>2. \A d \in At(l, {"decided"}) : d \in At(n, {"decided"}) /\ n[d] = l[d]
    BY <1>6 DEF At
  <2>3. i \in open
    BY <2>1, <2>2 DEF openApprovals, open
  <2>4. PICK k \in 1..Len(c) : c[k].id = i
    BY <1>2, <2>3
  <2>5. Len(l) + k \in DOMAIN n
    BY <1>1, <1>4
  <2>6. Len(l) + k \in At(n, {"decided"}) /\ n[Len(l) + k].id = i
    BY <1>2, <1>3, <2>4, <2>5 DEF At
  <2> QED
    BY <2>1, <2>6
<1>11. ASSUME ChildLog(l) PROVE ChildLog(n)
  <2>1. \A i \in DOMAIN n : Childlike(n[i])
    BY <1>5, <1>11 DEF ChildLog, Childlike
  <2>2. 1 \in DOMAIN l
    BY <1>1, <1>11, LogFacts DEF ChildLog, WellFormed
  <2>3. n # <<>> /\ n[1] = l[1]
    BY <1>6, <2>2
  <2> QED
    BY <1>11, <2>1, <2>3 DEF ChildLog
<1> QED
  BY <1>9, <1>10, <1>11 DEF n, c

(* A yes credited to a consent was earned: by the fold the decision was     *)
(* judged by, which the ask before it did not move.                         *)
LEMMA EarnedByLaw ==
  ASSUME IsLog(log), Lawful(log)
  PROVE  ConsentIsEarned
<1> SUFFICES ASSUME NEW d \in At(log, {"decided"}), log[d].by = "grant"
             PROVE  \E g \in At(log, {"granted"}), yes \in At(log, {"decided"}) :
                      /\ log[d].grant = g /\ g < yes /\ yes < log[d].id
                      /\ log[yes].id = log[g].ask
                      /\ log[yes].outcome = "allowed-once" /\ log[yes].by = "answerer"
                      /\ log[g].key = log[log[d].id].key /\ log[g].key # Unkeyed
                      /\ \A i \in g..d : log[i].kind \notin {"policy", "authority", "endSeed"}
                      /\ \A i \in At(log, {"revoked"}) : log[i].id = g => d < i
  BY DEF ConsentIsEarned
<1> DEFINE e == log[d]
           before == SubSeq(log, 1, d - 1)
           g == e.grant
<1>1. Len(log) \in Nat /\ DOMAIN log = 1..Len(log) /\ d \in 1..Len(log) /\ e.kind = "decided"
  BY LogFacts DEF At
<1>2. Accepted(log, d) /\ Plain(e, d)
  BY <1>1 DEF Lawful
<1>3. /\ IsLog(before) /\ Len(before) = d - 1
      /\ \A i \in 1..(d - 1) : before[i] = log[i]
      /\ Admits(before, e)
  BY <1>1, <1>2, AcceptedIsLocal
<1>4. e.id = d - 1 /\ d - 1 \in 1..Len(log) /\ log[d - 1].kind = "asked" /\ before[d - 1] = log[d - 1]
  <2>1. e.id = d - 1
    BY <1>1, <1>2 DEF Plain
  <2>2. e.id \in openApprovals(before)
    BY <1>1, <1>3 DEF Admits
  <2>3. e.id \in 1..(d - 1) /\ before[e.id].kind = "asked"
    BY <1>3, <2>2, LogFacts DEF openApprovals, At
  <2>4. before[e.id] = log[e.id]
    BY <1>3, <2>3
  <2> QED
    BY <1>1, <2>1, <2>3, <2>4
<1>5. Consents(before)[d - 1] = Consents(log)[d - 2]
  <2>1. d - 1 \in Nat /\ d - 1 <= Len(log) /\ d - 1 <= Len(before) /\ d - 1 \in 0..(d - 1)
    BY <1>1, <1>3, <1>4
  <2>2. Consents(before)[d - 1] = Consents(log)[d - 1]
    BY <1>3, <2>1, ConsentsLocal
  <2>3. (d - 1) - 1 = d - 2
    BY <1>1
  <2>4. Consents(log)[d - 1] = Push(Consents(log)[d - 2], log[d - 1], d - 1)
    BY <1>4, <2>3, ConsentsFold
  <2>5. Push(Consents(log)[d - 2], log[d - 1], d - 1) = Consents(log)[d - 2]
    BY <1>4 DEF Push, AuthorityKinds
  <2> QED
    BY <2>2, <2>4, <2>5
<1>6. FoldSound(log, d - 2) /\ d - 2 \in Nat
  <2>1. d - 2 \in 0..Len(log) /\ d - 2 \in Nat
    BY <1>1, <1>4
  <2> QED
    BY <2>1, LawfulFold
<1>7. PICK y \in Consents(log)[d - 2].live : y.id = g /\ y.key = log[d - 1].key
  <2> DEFINE fold == Consents(before)[Len(before)]
  <2>1. {x.key : x \in {z \in fold.live : z.id = g}} = {before[e.id].key}
    BY <1>1, <1>3 DEF Admits
  <2>2. \E y \in fold.live : y.id = g /\ y.key = before[e.id].key
    BY <2>1
  <2> QED
    BY <1>3, <1>4, <1>5, <2>2
<1>8. Recorded(log, d - 2, g, log[d - 1].key) /\ Given(log, d - 2, g)
  BY <1>6, <1>7 DEF FoldSound
<1>9. PICK yes \in 1..(d - 2) :
        /\ g < yes /\ log[yes].kind = "decided" /\ log[yes].id = log[g].ask
        /\ log[yes].outcome = "allowed-once" /\ log[yes].by = "answerer"
  BY <1>8 DEF Given
<1>10. g \in 1..(d - 2) /\ log[g].kind = "granted" /\ log[g].key = log[d - 1].key
       /\ log[d - 1].key # Unkeyed /\ \A i \in g..(d - 2) : ~Ended(log[i], g)
  BY <1>8 DEF Recorded
<1>11. g \in At(log, {"granted"}) /\ yes \in At(log, {"decided"}) /\ yes < e.id
  BY <1>1, <1>4, <1>9, <1>10 DEF At
<1>12. \A i \in g..d : i \in g..(d - 2) \/ i = d - 1 \/ i = d
  BY <1>1, <1>10
<1>13. \A i \in g..d : log[i].kind \notin {"policy", "authority", "endSeed"}
  BY <1>1, <1>4, <1>10, <1>12 DEF Ended, AuthorityKinds
<1>14. ASSUME NEW i \in At(log, {"revoked"}), log[i].id = g PROVE d < i
  <2>1. i \in 1..Len(log) /\ log[i].kind = "revoked" /\ i \in Nat
    BY <1>1 DEF At
  <2>2. Accepted(log, i)
    BY <1>1, <2>1 DEF Lawful
  <2>3. /\ IsLog(SubSeq(log, 1, i - 1)) /\ Len(SubSeq(log, 1, i - 1)) = i - 1
        /\ Admits(SubSeq(log, 1, i - 1), log[i])
    BY <2>1, <2>2, AcceptedIsLocal
  <2>4. g \in At(SubSeq(log, 1, i - 1), {"granted"})
    BY <1>14, <2>1, <2>3 DEF Admits
  <2>5. g \in 1..(i - 1)
    BY <2>3, <2>4, LogFacts DEF At
  <2>6. i \notin g..d
    BY <1>1, <1>4, <1>10, <1>12, <1>14, <2>1 DEF Ended
  <2> QED
    BY <1>1, <1>10, <2>1, <2>5, <2>6
<1> QED
  BY <1>4, <1>9, <1>10, <1>11, <1>13, <1>14

-----------------------------------------------------------------------------
(* Each record the seam writes is one its invariant admits.                 *)

LEMMA FoldOfAppend ==
  ASSUME NEW l, IsLog(l), NEW x
  PROVE  LET m == Append(l, x)
         IN  /\ Len(m) = Len(l) + 1 /\ m[Len(m)] = x
             /\ \A k \in 0..Len(l) : Consents(m)[k] = Consents(l)[k]
             /\ Consents(m)[Len(m)] = Push(Consents(l)[Len(l)], x, Len(m))
<1> DEFINE m == Append(l, x)
<1>1. Len(l) \in Nat
  BY LogFacts
<1>2. /\ IsLog(m) /\ Len(m) = Len(l) + 1
      /\ m[Len(l) + 1] = x /\ \A i \in 1..Len(l) : m[i] = l[i]
  BY AppendFacts
<1> HIDE DEF m
<1>3. Len(l) <= Len(m) /\ Len(l) <= Len(l) /\ Len(m) \in 1..Len(m) /\ Len(m) - 1 = Len(l)
      /\ Len(l) \in 0..Len(l)
  BY <1>1, <1>2
<1>4. \A k \in 0..Len(l) : Consents(m)[k] = Consents(l)[k]
  BY <1>1, <1>2, <1>3, ConsentsLocal
<1>5. Consents(m)[Len(m)] = Push(Consents(m)[Len(l)], x, Len(m))
  BY <1>2, <1>3, ConsentsFold
<1> QED
  BY <1>2, <1>3, <1>4, <1>5 DEF m

LEMMA HasFirst ==
  ASSUME NEW n \in Nat, NEW S \in SUBSET (1..n), S # {}
  PROVE  Smallest(S) \in S /\ \A j \in S : Smallest(S) <= j
<1>1. S \subseteq Nat /\ S # {}
  OBVIOUS
<1>2. PICK x \in S : \A y \in S : <<y, x>> \notin OpToRel(<, Nat)
  BY <1>1, WFMin, NatLessThanWellFounded
<1>3. \A y \in S : ~(y < x)
  BY <1>1, <1>2 DEF OpToRel
<1>4. \A y \in S : x <= y
  BY <1>1, <1>3
<1> QED
  BY <1>2, <1>4 DEF Smallest

(* The policies of a lawful log: there is one if any is stamped, and the    *)
(* pin is the first stamp's, which no later record moves.                   *)
LEMMA StampedPolicy ==
  ASSUME NEW l, IsLog(l), Lawful(l)
  PROVE  At(l, {"policy"}) # {} => effectiveApprovalPolicy(l) \in {"ask", "never"}
<1> DEFINE S == At(l, {"policy"})
<1> SUFFICES ASSUME S # {} PROVE effectiveApprovalPolicy(l) \in {"ask", "never"}
  OBVIOUS
<1>1. Len(l) \in Nat /\ DOMAIN l = 1..Len(l) /\ S \in SUBSET (1..Len(l))
  BY LogFacts DEF At
<1>2. Largest(S) \in S
  BY <1>1, LargestIsLast
<1>3. l[Largest(S)].kind = "policy" /\ Largest(S) \in DOMAIN l
  BY <1>2 DEF At
<1>4. l[Largest(S)].policy \in {"ask", "never"}
  BY <1>3 DEF Lawful, Plain
<1> QED
  BY <1>4 DEF effectiveApprovalPolicy

LEMMA PinOfAppend ==
  ASSUME NEW l, IsLog(l), NEW x
  PROVE  /\ x.kind # "policy" \/ At(l, {"policy"}) # {} =>
              delegationPin(Append(l, x)) = delegationPin(l)
         /\ x.kind = "policy" /\ x.reason # "delegation" /\ At(l, {"policy"}) = {} =>
              delegationPin(Append(l, x)) = "none"
         /\ At(l, {"policy"}) = {} => delegationPin(l) = "none"
<1> DEFINE m == Append(l, x)
           S == At(l, {"policy"})
           T == At(m, {"policy"})
<1>1. Len(l) \in Nat /\ DOMAIN l = 1..Len(l) /\ S \in SUBSET (1..Len(l))
  BY LogFacts DEF At
<1>2. m[Len(l) + 1] = x /\ \A i \in 1..Len(l) : m[i] = l[i]
  BY AppendFacts
<1>3. T = S \union (IF x.kind = "policy" THEN {Len(l) + 1} ELSE {})
  BY AppendPlaces
<1> HIDE DEF m, S, T
<1>4. ASSUME S # {} PROVE delegationPin(m) = delegationPin(l)
  <2>1. Smallest(S) \in S /\ \A j \in S : Smallest(S) <= j
    BY <1>1, <1>4, HasFirst
  <2> PICK a : a = Smallest(S)
    OBVIOUS
  <2>2. a \in S /\ a \in 1..Len(l) /\ \A j \in S : a <= j
    BY <1>1, <2>1
  <2>3. S \subseteq T /\ \A j \in T : j \in S \/ j = Len(l) + 1
    BY <1>3
  <2>4. \A j \in T : a <= j
    BY <1>1, <2>2, <2>3
  <2>5. Smallest(T) = a
    <3>1. a \in T /\ \A j \in T : j \in Nat
      BY <1>1, <2>2, <2>3
    <3>2. \A i \in T : (\A j \in T : i <= j) => i = a
      BY <2>4, <3>1
    <3> QED
      BY <2>4, <3>1, <3>2 DEF Smallest
  <2>6. T # {} /\ m[a] = l[a]
    BY <1>2, <2>2, <2>3
  <2> QED
    BY <1>4, <2>5, <2>6 DEF delegationPin, S, T
<1>5. ASSUME S = {}, x.kind # "policy" PROVE delegationPin(m) = delegationPin(l)
  BY <1>3, <1>5 DEF delegationPin, S, T
<1>6. ASSUME S = {}, x.kind = "policy", x.reason # "delegation" PROVE delegationPin(m) = "none"
  <2>1. T = {Len(l) + 1}
    BY <1>3, <1>6
  <2>2. Smallest(T) = Len(l) + 1
    BY <1>1, <2>1 DEF Smallest
  <2> QED
    BY <1>2, <1>6, <2>1, <2>2 DEF delegationPin, T
<1>7. S = {} => delegationPin(l) = "none"
  BY DEF delegationPin, S
<1> QED
  BY <1>4, <1>5, <1>6, <1>7 DEF m, S

LEMMA OpenLawful ==
  ASSUME NEW l, IsLog(l), Lawful(l)
  PROVE  /\ IsLog(Open(l)) /\ Lawful(Open(l)) /\ At(Open(l), {"policy"}) # {}
         /\ delegationPin(Open(l)) = delegationPin(l)
<1> DEFINE x == Policy(Default, "initial")
<1>1. x.kind = "policy" /\ x.policy \in {"ask", "never"} /\ x.reason = "initial"
  BY DefaultIsPolicy DEF Policy
<1> HIDE DEF x
<1>2. CASE effectiveApprovalPolicy(l) # "none"
  <2>1. Open(l) = l
    BY <1>2 DEF Open
  <2>2. At(l, {"policy"}) # {}
    BY <1>2 DEF effectiveApprovalPolicy
  <2> QED
    BY <2>1, <2>2
<1>3. CASE effectiveApprovalPolicy(l) = "none"
  <2>1. Open(l) = Append(l, x)
    BY <1>3 DEF Open, x
  <2>2. At(l, {"policy"}) = {}
    BY <1>3, StampedPolicy
  <2>3. delegationPin(l) = "none" /\ delegationPin(Append(l, x)) = "none"
    BY <1>1, <2>2, PinOfAppend
  <2>4. Admits(l, x) /\ Plain(x, Len(l) + 1)
    BY <1>1, <2>3 DEF Admits, Plain
  <2>5. IsLog(Append(l, x)) /\ Lawful(Append(l, x))
    BY <2>4, LawfulStep, AppendFacts
  <2>6. Len(l) + 1 \in At(Append(l, x), {"policy"})
    BY <1>1, AppendPlaces
  <2> QED
    BY <2>1, <2>3, <2>5, <2>6
<1> QED
  BY <1>2, <1>3

LEMMA PolicyLawful ==
  ASSUME NEW l, IsLog(l), Lawful(l), NEW p \in {"ask", "never"},
         delegationPin(l) \in {"none", p}
  PROVE  Lawful(WithPolicy(l, p))
<1> DEFINE x == Policy(p, "change")
           opened == Open(l)
<1>1. x.kind = "policy" /\ x.policy = p /\ x.reason = "change"
  BY DEF Policy
<1>2. IsLog(opened) /\ Lawful(opened) /\ delegationPin(opened) \in {"none", p}
  BY OpenLawful
<1>3. WithPolicy(l, p) = opened \/ WithPolicy(l, p) = Append(opened, x)
  BY DEF WithPolicy
<1> HIDE DEF x, opened
<1>4. Admits(opened, x) /\ Plain(x, Len(opened) + 1)
  BY <1>1, <1>2 DEF Admits, Plain
<1>5. Lawful(Append(opened, x))
  BY <1>2, <1>4, LawfulStep
<1> QED
  BY <1>2, <1>3, <1>5

(* A record the invariant says nothing about.                               *)
LEMMA FreeLawful ==
  ASSUME NEW l, IsLog(l), Lawful(l), NEW x,
         x.kind \notin {"policy", "decided", "revoked", "granted"}
  PROVE  IsLog(Append(l, x)) /\ Lawful(Append(l, x))
<1>1. Admits(l, x) /\ Plain(x, Len(l) + 1)
  BY DEF Admits, Plain
<1> QED
  BY <1>1, LawfulStep, AppendFacts

(* The closers of a repair decide each open ask once.                       *)
LEMMA RepairLawful ==
  ASSUME NEW l, WellFormed(l), Lawful(l)
  PROVE  Lawful(l \o Closers(l))
<1> DEFINE c == Closers(l)
           m == l \o c
           open == openApprovals(l)
<1>1. IsLog(l) /\ Len(l) \in Nat /\ DOMAIN l = 1..Len(l) /\ open \subseteq At(l, {"asked"})
  BY LogFacts DEF WellFormed, openApprovals
<1>2. /\ IsLog(c)
      /\ \A n \in 1..Len(c) : /\ c[n].kind = "decided" /\ c[n].outcome = "cancelled"
                               /\ c[n].by = "none" /\ c[n].grant = NoId /\ c[n].id \in open
      /\ \A n, k \in 1..Len(c) : c[n].id = c[k].id => n = k
  BY ClosersCover
<1>3. /\ IsLog(m) /\ Len(m) = Len(l) + Len(c)
      /\ \A i \in 1..Len(l) : m[i] = l[i]
      /\ \A i \in 1..Len(m) : i > Len(l) => i - Len(l) \in 1..Len(c) /\ m[i] = c[i - Len(l)]
  BY <1>1, <1>2, ConcatFacts
<1>4. Len(m) \in Nat /\ DOMAIN m = 1..Len(m) /\ Len(c) \in Nat
  BY <1>2, <1>3, LogFacts
<1> HIDE DEF m, c, open
<1>5. ASSUME NEW n \in 1..Len(l) PROVE Accepted(m, n) /\ Plain(m[n], n)
  <2>1. n \in 1..Len(m) /\ n \in DOMAIN l /\ \A i \in 1..n : m[i] = l[i]
    BY <1>1, <1>3, <1>4
  <2>2. Accepted(l, n) /\ Plain(l[n], n) /\ m[n] = l[n]
    BY <1>3, <2>1 DEF Lawful
  <2> QED
    BY <1>1, <1>3, <2>1, <2>2, AcceptedAlike
<1>6. ASSUME NEW n \in 1..Len(m), n > Len(l) PROVE Accepted(m, n) /\ Plain(m[n], n)
  <2> DEFINE e == m[n]
             before == SubSeq(m, 1, n - 1)
  <2>1. /\ IsLog(before) /\ Len(before) = n - 1
        /\ \A i \in 1..(n - 1) : before[i] = m[i]
        /\ Accepted(m, n) <=> Admits(before, e)
    BY <1>3, AcceptedIsLocal
  <2>2. DOMAIN before = 1..(n - 1)
    BY <2>1, LogFacts
  <2>3. n - Len(l) \in 1..Len(c) /\ e = c[n - Len(l)]
    BY <1>3, <1>6
  <2>4. /\ e.kind = "decided" /\ e.outcome = "cancelled" /\ e.by = "none" /\ e.grant = NoId
        /\ e.id \in open
    BY <1>2, <2>3
  <2> HIDE DEF before, e
  <2>5. e.id \in 1..Len(l) /\ l[e.id].kind = "asked" /\ \A d \in At(l, {"decided"}) : l[d].id # e.id
    BY <1>1, <2>4 DEF open, openApprovals, At
  <2>6. e.id \in 1..(n - 1) /\ before[e.id].kind = "asked"
    BY <1>1, <1>3, <1>6, <2>1, <2>5
  <2>7. ASSUME NEW d \in At(before, {"decided"}) PROVE before[d].id # e.id
    <3>1. d \in 1..(n - 1) /\ before[d].kind = "decided" /\ before[d] = m[d] /\ d \in 1..Len(m)
      BY <1>4, <2>1, <2>2 DEF At
    <3>2. CASE d \in 1..Len(l)
      <4>1. d \in At(l, {"decided"}) /\ before[d] = l[d]
        BY <1>1, <1>3, <3>1, <3>2 DEF At
      <4> QED
        BY <2>5, <4>1
    <3>3. CASE d > Len(l)
      <4>1. d - Len(l) \in 1..Len(c) /\ before[d] = c[d - Len(l)]
        BY <1>3, <3>1, <3>3
      <4>2. d - Len(l) # n - Len(l)
        BY <1>1, <3>1
      <4> QED
        BY <1>2, <2>3, <4>1, <4>2
    <3> QED
      BY <1>1, <3>1, <3>2, <3>3
  <2>8. e.id \in openApprovals(before)
    BY <2>2, <2>6, <2>7 DEF openApprovals, At
  <2>9. Admits(before, e)
    BY <2>4, <2>8 DEF Admits
  <2>10. Plain(e, n)
    BY <2>4 DEF Plain
  <2> QED
    BY <2>1, <2>9, <2>10 DEF e
<1>7. \A n \in DOMAIN m : n \in 1..Len(l) \/ (n \in 1..Len(m) /\ n > Len(l))
  BY <1>1, <1>4
<1> QED
  BY <1>5, <1>6, <1>7 DEF Lawful, m, c

(* An ask just recorded is open, and the consents stand as they stood.      *)
LEMMA AskedFacts ==
  ASSUME NEW l, WellFormed(l), Lawful(l), NEW key
  PROVE  LET m == Append(l, Asked(key))
         IN  /\ IsLog(m) /\ Lawful(m) /\ Len(m) = Len(l) + 1 /\ Len(m) \in Nat
             /\ Len(m) \in openApprovals(m) /\ m[Len(m)].key = key
             /\ At(m, {"granted"}) = At(l, {"granted"})
             /\ Consents(m)[Len(m)] = Consents(l)[Len(l)]
<1> DEFINE x == Asked(key)
           m == Append(l, x)
<1>1. x.kind = "asked" /\ x.key = key
  BY DEF Asked
<1>2. IsLog(l) /\ Len(l) \in Nat
  BY LogFacts DEF WellFormed
<1> HIDE DEF x
<1>3. IsLog(m) /\ Lawful(m)
  BY <1>1, <1>2, FreeLawful
<1>4. Len(m) = Len(l) + 1 /\ m[Len(m)] = x /\ Consents(m)[Len(m)] = Push(Consents(l)[Len(l)], x, Len(m))
  BY <1>2, FoldOfAppend
<1>5. Push(Consents(l)[Len(l)], x, Len(m)) = Consents(l)[Len(l)]
  BY <1>1 DEF Push, AuthorityKinds
<1>6. At(m, {"granted"}) = At(l, {"granted"})
  <2>1. At(m, {"granted"}) = At(l, {"granted"}) \union (IF x.kind \in {"granted"} THEN {Len(l) + 1} ELSE {})
    BY <1>2, AppendPlaces
  <2>2. x.kind \notin {"granted"}
    BY <1>1
  <2> QED
    BY <2>1, <2>2
<1>7. Len(m) \in openApprovals(m)
  BY <1>1, <1>4, AppendKeeps
<1> HIDE DEF m
<1>8. /\ IsLog(m) /\ Lawful(m) /\ Len(m) = Len(l) + 1 /\ Len(m) \in Nat
      /\ Len(m) \in openApprovals(m) /\ m[Len(m)].key = key
      /\ At(m, {"granted"}) = At(l, {"granted"})
      /\ Consents(m)[Len(m)] = Consents(l)[Len(l)]
  BY <1>1, <1>2, <1>3, <1>4, <1>5, <1>6, <1>7
<1> QED
  BY <1>8 DEF m, x

(* A standing consent is a record of the log, and the only standing one of  *)
(* its id.                                                                  *)
LEMMA StandingIsRecorded ==
  ASSUME NEW l, IsLog(l), Lawful(l), NEW g \in Consents(l)[Len(l)].live
  PROVE  /\ g.id \in At(l, {"granted"}) /\ g.id # NoId
         /\ {x.key : x \in {y \in Consents(l)[Len(l)].live : y.id = g.id}} = {g.key}
<1>1. Len(l) \in Nat /\ Len(l) \in 0..Len(l) /\ DOMAIN l = 1..Len(l)
  BY LogFacts
<1>2. FoldSound(l, Len(l))
  BY <1>1, LawfulFold
<1>3. \A y \in Consents(l)[Len(l)].live :
        y.id \in 1..Len(l) /\ l[y.id].kind = "granted" /\ l[y.id].key = y.key
  BY <1>2 DEF FoldSound, Recorded
<1>4. g.id \in At(l, {"granted"}) /\ g.id # NoId
  BY <1>1, <1>3 DEF At, NoId
<1>5. \A y \in Consents(l)[Len(l)].live : y.id = g.id => y.key = g.key
  BY <1>3
<1> QED
  BY <1>4, <1>5

(* A log of one record, and the empty one.                                  *)
LEMMA EmptyWellFormed == WellFormed(<<>>) /\ openApprovals(<<>>) = {}
BY EmptyIsLog DEF WellFormed, openApprovals, At

-----------------------------------------------------------------------------
LEMMA InitIInv == Init => IInv
<1> SUFFICES ASSUME Init PROVE IInv
  OBVIOUS
<1>1. CASE delegated
  <2> DEFINE x == Policy("never", "delegation")
  <2>1. log = Append(<<>>, x) /\ x.kind = "policy" /\ x.policy = "never" /\ x.reason = "delegation"
    BY <1>1 DEF Init, Policy
  <2>2. WellFormed(log) /\ openApprovals(log) = {}
    BY <2>1, EmptyWellFormed, AppendKeeps
  <2>3. ChildLog(log)
    BY <2>1 DEF ChildLog, Childlike
  <2> QED
    BY <2>2, <2>3 DEF Init, IInv
<1>2. CASE ~delegated
  BY <1>2, EmptyWellFormed, OpenKeeps DEF Init, IInv
<1> QED
  BY <1>1, <1>2

(* A record that is no ask, no decision and nothing a child lacks.          *)
LEMMA NeutralKeeps ==
  ASSUME IInv, NEW x, x.kind \notin {"asked", "decided"}, delegated => Childlike(x),
         log' = Append(log, x), UNCHANGED <<awaiting, delegated>>
  PROVE  IInv'
<1>1. WellFormed(log') /\ openApprovals(log') = openApprovals(log)
  BY AppendKeeps DEF IInv
<1>2. delegated => ChildLog(log')
  BY AppendChild DEF IInv, WellFormed
<1> QED
  BY <1>1, <1>2 DEF IInv

LEMMA PolicyKeeps ==
  ASSUME NEW l, WellFormed(l), NEW p
  PROVE  /\ WellFormed(WithPolicy(l, p)) /\ openApprovals(WithPolicy(l, p)) = openApprovals(l)
         /\ ChildLog(l) /\ p = "never" => WithPolicy(l, p) = l
<1> DEFINE x == Policy(p, "change")
<1>1. x.kind = "policy"
  BY DEF Policy
<1>2. WellFormed(Open(l)) /\ openApprovals(Open(l)) = openApprovals(l) /\ (ChildLog(l) => Open(l) = l)
  BY OpenKeeps
<1>3. WellFormed(Append(Open(l), x)) /\ openApprovals(Append(Open(l), x)) = openApprovals(l)
  BY <1>1, <1>2, AppendKeeps
<1>4. ChildLog(l) => effectiveApprovalPolicy(l) = "never"
  BY ChildPolicy DEF WellFormed
<1> QED
  BY <1>2, <1>3, <1>4 DEF WithPolicy

LEMMA PinHolds == ASSUME IInv, delegated, NEW p, ~Pinned(p) PROVE p = "never"
BY ChildPolicy DEF IInv, WellFormed, Pinned

LEMMA SetPolicyKeeps == ASSUME IInv, NEW p, SetPolicy(p) PROVE IInv'
<1>1. WellFormed(log') /\ openApprovals(log') = openApprovals(log)
  BY PolicyKeeps DEF SetPolicy, IInv
<1>2. delegated => ChildLog(log')
  BY PinHolds, PolicyKeeps DEF SetPolicy, IInv
<1> QED
  BY <1>1, <1>2 DEF SetPolicy, IInv

LEMMA SwitchKeeps == ASSUME IInv, SwitchSandbox PROVE IInv'
<1>1. Authority.kind = "authority"
  BY DEF Authority
<1> QED
  BY <1>1, NeutralKeeps DEF SwitchSandbox, Childlike

LEMMA PresetKeeps == ASSUME IInv, NEW p, ApplyPreset(p) PROVE IInv'
<1> DEFINE n == Append(log, Authority)
<1>1. Authority.kind = "authority"
  BY DEF Authority
<1>2. WellFormed(n) /\ openApprovals(n) = openApprovals(log)
  BY <1>1, AppendKeeps DEF IInv
<1>3. delegated => ChildLog(n)
  BY <1>1, AppendChild DEF IInv, WellFormed, Childlike
<1>4. log' = WithPolicy(n, p)
  BY DEF ApplyPreset
<1> HIDE DEF n
<1>5. WellFormed(log') /\ openApprovals(log') = openApprovals(n)
  BY <1>2, <1>4, PolicyKeeps
<1>6. delegated => ChildLog(log')
  BY <1>2, <1>3, <1>4, PinHolds, PolicyKeeps DEF ApplyPreset
<1> QED
  BY <1>2, <1>5, <1>6 DEF ApplyPreset, IInv

(* An ask decided at once, or left open and awaited; a child's is decided.  *)
LEMMA RequestKeeps == ASSUME IInv, NEW key, Request(key) PROVE IInv'
<1> DEFINE opened == Open(log)
           id == Len(opened) + 1
           asked == Append(opened, Asked(key))
           never == policyFor(opened) = "never"
<1>1. /\ WellFormed(opened) /\ openApprovals(opened) = awaiting
      /\ delegated => opened = log
  BY OpenKeeps DEF IInv
<1>2. Asked(key).kind = "asked"
  BY DEF Asked
<1>3. WellFormed(asked) /\ openApprovals(asked) = awaiting \union {id}
  BY <1>1, <1>2, AppendKeeps
<1>4. delegated => ChildLog(asked) /\ never
  <2> SUFFICES ASSUME delegated PROVE ChildLog(asked) /\ never
    OBVIOUS
  <2>1. ChildLog(opened) /\ IsLog(opened)
    BY <1>1 DEF IInv, WellFormed
  <2>2. effectiveApprovalPolicy(opened) = "never"
    BY <2>1, ChildPolicy
  <2> QED
    BY <1>2, <2>1, <2>2, AppendChild DEF Childlike, policyFor
<1>5. id \notin awaiting /\ id \in At(asked, {"asked"})
  <2>1. awaiting \subseteq 1..Len(opened) /\ Len(opened) \in Nat
    BY <1>1, LogFacts DEF openApprovals, At, WellFormed
  <2>2. At(asked, {"asked"}) = At(opened, {"asked"}) \union {id}
    BY <1>1, <1>2, AppendPlaces DEF WellFormed
  <2> QED
    BY <2>1, <2>2
<1>6. UNCHANGED delegated
  BY DEF Request
<1>7. CASE log' = asked /\ awaiting' = awaiting \union {id} /\ ~never
  BY <1>3, <1>4, <1>6, <1>7 DEF IInv
<1>8. ASSUME NEW outcome, NEW by, NEW grant, log' = Append(asked, Decided(id, outcome, by, grant)),
             awaiting' = awaiting, never => outcome # "allowed-once"
      PROVE  IInv'
  <2> DEFINE x == Decided(id, outcome, by, grant)
  <2>1. x.kind = "decided" /\ x.id = id /\ x.outcome = outcome
    BY DEF Decided
  <2> HIDE DEF x, id, asked, never
  <2>2. WellFormed(log') /\ openApprovals(log') = openApprovals(asked) \ {id}
    BY <1>3, <1>5, <1>8, <2>1, AppendKeeps DEF x
  <2>3. openApprovals(log') = awaiting'
    BY <1>3, <1>5, <1>8, <2>2
  <2>4. delegated => ChildLog(log')
    BY <1>3, <1>4, <1>8, <2>1, AppendChild DEF WellFormed, Childlike, x
  <2> QED
    BY <1>6, <1>8, <2>2, <2>3, <2>4 DEF IInv
<1>9. \/ log' = asked /\ awaiting' = awaiting \union {id} /\ ~never
      \/ \E outcome, by, grant : /\ log' = Append(asked, Decided(id, outcome, by, grant))
                                 /\ awaiting' = awaiting
                                 /\ never => outcome # "allowed-once"
  BY DEF Request
<1> QED
  BY <1>7, <1>8, <1>9

LEMMA CancelKeeps == ASSUME IInv, Cancel PROVE IInv'
BY DEF IInv, Cancel

(* An answer decides its own ask, after the consent it may have bought.     *)
LEMMA AnswerKeeps ==
  ASSUME IInv, NEW id \in awaiting, NEW answer, NEW wanted, Answer(id, answer, wanted)
  PROVE  IInv'
<1> DEFINE outcome == IF id \in aborted THEN "cancelled" ELSE answer
           minted == mint(id, wanted /\ outcome = "allowed-once")
           x == Decided(id, outcome, IF outcome \in {"allowed-once", "rejected"} THEN "answerer" ELSE "none",
                        IF minted = <<>> THEN NoId ELSE Len(log) + 1)
           g == Granted(id, log[id].key)
<1>1. ~delegated
  BY DEF IInv
<1>2. x.kind = "decided" /\ x.id = id /\ g.kind = "granted"
  BY DEF Decided, Granted
<1>3. log' = log \o minted \o <<x>> /\ awaiting' = awaiting \ {id} /\ delegated' = delegated
  BY DEF Answer
<1>4. minted = <<>> \/ minted = <<g>>
  BY DEF mint
<1> HIDE DEF minted, x, g
<1>5. PICK n : /\ log' = Append(n, x) /\ WellFormed(n) /\ openApprovals(n) = awaiting
               /\ At(log, {"asked"}) \subseteq At(n, {"asked"})
  <2>1. CASE minted = <<>>
    <3>1. log' = Append(log, x)
      BY <1>3, <2>1, AppendAsConcat DEF IInv, WellFormed
    <3> QED
      BY <3>1 DEF IInv
  <2>2. CASE minted = <<g>>
    <3>1. log' = Append(Append(log, g), x)
      BY <1>3, <2>2, AppendAsConcat, AppendFacts DEF IInv, WellFormed
    <3>2. WellFormed(Append(log, g)) /\ openApprovals(Append(log, g)) = awaiting
      BY <1>2, AppendKeeps DEF IInv
    <3>3. At(log, {"asked"}) \subseteq At(Append(log, g), {"asked"})
      BY AppendPlaces DEF IInv, WellFormed
    <3> QED
      BY <3>1, <3>2, <3>3
  <2> QED
    BY <1>4, <2>1, <2>2
<1>6. id \in At(n, {"asked"})
  BY <1>5 DEF IInv, openApprovals
<1>7. WellFormed(log') /\ openApprovals(log') = awaiting \ {id}
  BY <1>2, <1>5, <1>6, AppendKeeps
<1> QED
  BY <1>1, <1>3, <1>7 DEF IInv

LEMMA RevokeKeeps == ASSUME IInv, NEW id, Revoke(id) PROVE IInv'
<1>1. Revoked(id).kind = "revoked"
  BY DEF Revoked
<1> QED
  BY <1>1, NeutralKeeps DEF Revoke, Childlike

(* A continuation of a seed with no ask open; a child's begins with its pin.*)
LEMMA ContinuedKeeps ==
  ASSUME IInv, NEW seed, WellFormed(seed), openApprovals(seed) = {},
         delegated => ChildLog(seed), Continued(seed)
  PROVE  IInv'
<1> DEFINE n == Append(seed, EndSeed)
<1>1. EndSeed.kind = "endSeed"
  BY DEF EndSeed
<1>2. WellFormed(n) /\ openApprovals(n) = {}
  BY <1>1, AppendKeeps
<1>3. delegated => ChildLog(n)
  BY <1>1, AppendChild DEF WellFormed, Childlike
<1>4. log' = Open(n) /\ awaiting' = {} /\ delegated' = delegated
  BY DEF Continued
<1> HIDE DEF n
<1>5. WellFormed(log') /\ openApprovals(log') = {} /\ (delegated => log' = n)
  BY <1>2, <1>3, <1>4, OpenKeeps
<1> QED
  BY <1>3, <1>4, <1>5 DEF IInv

LEMMA PinNeedsARecord == ASSUME NEW l, IsLog(l), delegationPin(l) # "none" PROVE l # <<>>
<1>1. l = <<>> => At(l, {"policy"}) = {}
  BY DEF At
<1> QED
  BY <1>1 DEF delegationPin

(* The fence: what a crash left of a child's log holds its pin, or the      *)
(* session does not go on.                                                  *)
LEMMA ResumeKeeps == ASSUME IInv, NEW k \in 0..Len(log), Resume(k) PROVE IInv'
<1> DEFINE p == Prefix(k)
           seed == p \o Closers(p)
<1>1. p = SubSeq(log, 1, k)
  BY DEF Prefix
<1>2. WellFormed(p) /\ (ChildLog(log) /\ k > 0 => ChildLog(p))
  BY <1>1, PrefixKeeps DEF IInv
<1>3. WellFormed(seed) /\ openApprovals(seed) = {} /\ (ChildLog(p) => ChildLog(seed))
  BY <1>2, RepairKeeps
<1>4. Continued(seed)
  BY DEF Resume
<1>5. delegated => ChildLog(seed)
  <2> SUFFICES ASSUME delegated PROVE ChildLog(seed)
    OBVIOUS
  <2>1. CASE k > 0
    BY <1>2, <1>3, <2>1 DEF IInv
  <2>2. CASE k = 0
    <3>1. p = <<>>
      BY <1>1, <2>2, PrefixFacts, LogFacts DEF IInv, WellFormed
    <3>2. openApprovals(p) = {}
      BY <3>1, EmptyWellFormed
    <3>3. Len(Closers(p)) = 0
      <4>1. \A n \in 1..Len(Closers(p)) : Closers(p)[n].id \in {}
        BY <1>2, <3>2, ClosersCover
      <4>2. Len(Closers(p)) \in Nat
        BY <1>2, ClosersCover, LogFacts
      <4> QED
        BY <4>1, <4>2
    <3>4. IsLog(seed) /\ Len(seed) = 0
      <4>1. Len(p) = 0
        BY <3>1
      <4> QED
        BY <1>2, <3>3, <4>1, ClosersCover, ConcatFacts DEF WellFormed
    <3>5. seed = <<>>
      BY <3>4, LogFacts
    <3>6. delegationPin(seed) # "none"
      BY <1>4 DEF Continued, Fenced
    <3> QED
      BY <3>4, <3>5, <3>6, PinNeedsARecord
  <2> QED
    BY <2>1, <2>2
<1> QED
  BY <1>3, <1>4, <1>5, ContinuedKeeps

LEMMA ForkKeeps == ASSUME IInv, NEW k \in 0..Len(log), Fork(k) PROVE IInv'
<1> DEFINE p == Prefix(k)
<1>1. p = SubSeq(log, 1, k)
  BY DEF Prefix
<1>2. WellFormed(p) /\ (ChildLog(log) /\ k > 0 => ChildLog(p)) /\ Len(p) = k
  BY <1>1, PrefixKeeps, PrefixFacts DEF IInv, WellFormed
<1>3. Continued(p) /\ openApprovals(p) = {}
  BY DEF Fork
<1>4. delegated => ChildLog(p)
  <2>1. delegated => p # <<>>
    BY <1>2, <1>3, PinNeedsARecord DEF Continued, Fenced, WellFormed
  <2>2. p # <<>> => k > 0
    BY <1>2, LogFacts DEF WellFormed
  <2> QED
    BY <1>2, <2>1, <2>2 DEF IInv
<1> QED
  BY <1>2, <1>3, <1>4, ContinuedKeeps

-----------------------------------------------------------------------------
LEMMA NextKeeps == IInv /\ [Next]_vars => IInv'
<1> SUFFICES ASSUME IInv, [Next]_vars PROVE IInv'
  OBVIOUS
<1>1. CASE Next
  BY <1>1, SetPolicyKeeps, PresetKeeps, SwitchKeeps, CancelKeeps, RequestKeeps, AnswerKeeps,
     RevokeKeeps, ResumeKeeps, ForkKeeps DEF Next
<1>2. CASE UNCHANGED vars
  BY <1>2 DEF vars, IInv
<1> QED
  BY <1>1, <1>2

(* The inductive invariant: every decision is about an earlier ask, the     *)
(* open asks are those awaited, a child's log begins with its pin.          *)
THEOREM Invariance == Spec => []IInv
<1> QED
  BY InitIInv, NextKeeps, PTL DEF Spec

(* Every ask a surface shows as open is awaited by this process, and a      *)
(* child's session asks nobody and consents to nothing (`request`, `mint`,  *)
(* the approval closer of repair, the fences of resume and fork).           *)
THEOREM SomebodyIsAsked == Spec => []AsksReachAPerson
<1>1. IInv => AsksReachAPerson
  <2> SUFFICES ASSUME IInv PROVE AsksReachAPerson
    OBVIOUS
  <2>1. PromptsAreAwaited
    BY DEF IInv, PromptsAreAwaited
  <2>2. ChildAsksNobody
    <3> SUFFICES ASSUME delegated PROVE ChildAsksNobody
      BY DEF ChildAsksNobody
    <3>1. ChildLog(log) /\ awaiting = {}
      BY DEF IInv
    <3> QED
      BY <3>1 DEF ChildAsksNobody, ChildLog, Childlike, At
  <2> QED
    BY <2>1, <2>2 DEF AsksReachAPerson
<1> QED
  BY <1>1, Invariance, PTL

(* Every decision of the log is about an ask before it, so that no prefix a *)
(* crash keeps holds a decision about an ask it lost.                       *)
THEOREM DecisionsFollowAsks == Spec => []WellFormed(log)
<1>1. IInv => WellFormed(log)
  BY DEF IInv
<1> QED
  BY <1>1, Invariance, PTL
-----------------------------------------------------------------------------
(* The seam writes a lawful log: it judges before it appends, with the same *)
(* facts in its hand.                                                       *)

LInv == IInv /\ Lawful(log)

LEMMA InitLawful == Init => Lawful(log)
<1> SUFFICES ASSUME Init PROVE Lawful(log)
  OBVIOUS
<1>1. IsLog(<<>>) /\ Lawful(<<>>) /\ At(<<>>, {"policy"}) = {}
  <2>1. DOMAIN <<>> = {}
    OBVIOUS
  <2> QED
    BY <2>1, EmptyIsLog DEF Lawful, At
<1>2. CASE delegated
  <2> DEFINE x == Policy("never", "delegation")
  <2>1. log = Append(<<>>, x) /\ x.kind = "policy" /\ x.policy = "never" /\ x.reason = "delegation"
    BY <1>2 DEF Init, Policy
  <2> HIDE DEF x
  <2>2. Admits(<<>>, x) /\ Plain(x, Len(<<>>) + 1)
    BY <1>1, <2>1 DEF Admits, Plain
  <2> QED
    BY <1>1, <2>1, <2>2, LawfulStep
<1>3. CASE ~delegated
  BY <1>1, <1>3, OpenLawful DEF Init
<1> QED
  BY <1>2, <1>3

LEMMA SetPolicyLawful == ASSUME LInv, NEW p \in {"ask", "never"}, SetPolicy(p) PROVE Lawful(log')
<1>1. delegationPin(log) \in {"none", p}
  BY DEF SetPolicy, Pinned
<1> QED
  BY <1>1, PolicyLawful DEF SetPolicy, LInv, IInv, WellFormed

LEMMA SwitchLawful == ASSUME LInv, SwitchSandbox PROVE Lawful(log')
<1>1. Authority.kind = "authority"
  BY DEF Authority
<1> QED
  BY <1>1, FreeLawful DEF SwitchSandbox, LInv, IInv, WellFormed

LEMMA PresetLawful == ASSUME LInv, NEW p \in {"ask", "never"}, ApplyPreset(p) PROVE Lawful(log')
<1> DEFINE n == Append(log, Authority)
<1>1. Authority.kind = "authority" /\ IsLog(log) /\ Lawful(log)
  BY DEF Authority, LInv, IInv, WellFormed
<1>2. IsLog(n) /\ Lawful(n)
  BY <1>1, FreeLawful
<1>3. delegationPin(n) = delegationPin(log)
  BY <1>1, PinOfAppend
<1>4. log' = WithPolicy(n, p) /\ delegationPin(log) \in {"none", p}
  BY DEF ApplyPreset, Pinned
<1> HIDE DEF n
<1> QED
  BY <1>2, <1>3, <1>4, PolicyLawful

LEMMA RequestLawful == ASSUME LInv, NEW key, Request(key) PROVE Lawful(log')
<1> DEFINE opened == Open(log)
           id == Len(opened) + 1
           asked == Append(opened, Asked(key))
           standing == IF key = Unkeyed THEN {} ELSE Covering(opened, key)
<1>1. WellFormed(opened) /\ IsLog(opened) /\ Lawful(opened)
  BY OpenKeeps, OpenLawful DEF LInv, IInv, WellFormed
<1>2. /\ IsLog(asked) /\ Lawful(asked) /\ Len(asked) = id /\ id \in Nat
      /\ id \in openApprovals(asked) /\ asked[id].key = key
      /\ At(asked, {"granted"}) = At(opened, {"granted"})
      /\ Consents(asked)[Len(asked)] = Consents(opened)[Len(opened)]
  BY <1>1, AskedFacts
<1>3. \A g \in standing : g \in Consents(opened)[Len(opened)].live /\ g.key = key
  BY DEF Covering, liveGrants
<1>4. \/ log' = asked
      \/ log' = Append(asked, Decided(id, "cancelled", "none", NoId))
      \/ log' = Append(asked, Decided(id, "rejected", "policy", NoId))
      \/ \E g \in standing : log' = Append(asked, Decided(id, "allowed-once", "grant", g.id))
  BY DEF Request
<1> HIDE DEF asked, standing, opened, id
<1>5. ASSUME NEW x, x.kind = "decided", x.id = id, x.grant = NoId,
             \/ x.outcome = "cancelled" /\ x.by = "none"
             \/ x.outcome = "rejected" /\ x.by = "policy"
      PROVE  Lawful(Append(asked, x))
  <2>1. Admits(asked, x) /\ Plain(x, Len(asked) + 1)
    BY <1>2, <1>5 DEF Admits, Plain
  <2> QED
    BY <1>2, <2>1, LawfulStep
<1>6. ASSUME NEW g \in standing
      PROVE  Lawful(Append(asked, Decided(id, "allowed-once", "grant", g.id)))
  <2> DEFINE x == Decided(id, "allowed-once", "grant", g.id)
  <2>1. x.kind = "decided" /\ x.id = id /\ x.outcome = "allowed-once" /\ x.by = "grant" /\ x.grant = g.id
    BY DEF Decided
  <2> HIDE DEF x
  <2>2. g \in Consents(opened)[Len(opened)].live /\ g.key = key
    BY <1>3, <1>6
  <2>3. /\ g.id \in At(opened, {"granted"}) /\ g.id # NoId
        /\ {z.key : z \in {y \in Consents(opened)[Len(opened)].live : y.id = g.id}} = {key}
    BY <1>1, <2>2, StandingIsRecorded
  <2>4. Admits(asked, x)
    BY <1>2, <2>1, <2>3 DEF Admits
  <2>5. Plain(x, Len(asked) + 1)
    BY <1>2, <2>1 DEF Plain
  <2> QED
    BY <1>2, <2>4, <2>5, LawfulStep DEF x
<1> QED
  BY <1>2, <1>4, <1>5, <1>6 DEF Decided

(* A consent is offered only where the invariant admits one, and the        *)
(* decision names the consent just born of its ask.                         *)
LEMMA AnswerLawful ==
  ASSUME LInv, NEW id \in awaiting, NEW answer, NEW wanted, Answer(id, answer, wanted)
  PROVE  Lawful(log')
<1> DEFINE outcome == IF id \in aborted THEN "cancelled" ELSE answer
           minted == mint(id, wanted /\ outcome = "allowed-once")
           decider == IF outcome \in {"allowed-once", "rejected"} THEN "answerer" ELSE "none"
           x == Decided(id, outcome, decider, IF minted = <<>> THEN NoId ELSE Len(log) + 1)
           g == Granted(id, log[id].key)
           n == Append(log, g)
<1>1. IsLog(log) /\ WellFormed(log) /\ Lawful(log) /\ id \in openApprovals(log) /\ Len(log) \in Nat
  BY LogFacts DEF LInv, IInv, WellFormed
<1>2. /\ x.kind = "decided" /\ x.id = id /\ x.outcome = outcome /\ x.by = decider
      /\ x.grant = IF minted = <<>> THEN NoId ELSE Len(log) + 1
  BY DEF Decided
<1>3. g.kind = "granted" /\ g.ask = id /\ g.key = log[id].key
  BY DEF Granted
<1>4. log' = log \o minted \o <<x>>
  BY DEF Answer
<1>5. minted = <<>> \/ (minted = <<g>> /\ Offered(log, id))
  BY DEF mint
<1>6. Plain(x, Len(log) + 1) /\ Plain(x, Len(log) + 2) /\ x.by \notin {"grant", "policy"}
  BY <1>2 DEF Plain
<1> HIDE DEF minted, x, g
<1>7. CASE minted = <<>>
  <2>1. log' = Append(log, x)
    BY <1>1, <1>4, <1>7, AppendAsConcat
  <2>2. Admits(log, x)
    BY <1>1, <1>2, <1>6, <1>7 DEF Admits
  <2> QED
    BY <1>1, <1>6, <2>1, <2>2, LawfulStep
<1>8. CASE minted = <<g>> /\ Offered(log, id)
  <2>1. IsLog(n) /\ Len(n) = Len(log) + 1
    BY <1>1, AppendFacts
  <2>2. log' = Append(n, x)
    BY <1>1, <1>4, <1>8, <2>1, AppendAsConcat
  <2>3. Admits(log, g) /\ Plain(g, Len(log) + 1)
    BY <1>1, <1>3, <1>8 DEF Offered, Admits, Plain
  <2>4. Lawful(n)
    BY <1>1, <2>3, LawfulStep
  <2>5. id \in openApprovals(n)
    BY <1>1, <1>3, AppendKeeps
  <2>6. x.grant = Len(n) /\ x.grant \in At(n, {"granted"})
    <3>1. At(n, {"granted"}) = At(log, {"granted"}) \union (IF g.kind \in {"granted"} THEN {Len(log) + 1} ELSE {})
      BY <1>1, AppendPlaces
    <3> QED
      BY <1>2, <1>3, <1>8, <2>1, <3>1
  <2>7. \E b \in Consents(n)[Len(n)].born : b.ask = id /\ b.id = Len(n)
    <3>1. Consents(n)[Len(n)] = Push(Consents(log)[Len(log)], g, Len(n))
      BY <1>1, FoldOfAppend
    <3>2. [ask |-> g.ask, id |-> Len(n), key |-> g.key] \in Push(Consents(log)[Len(log)], g, Len(n)).born
      BY <1>3 DEF Push, AuthorityKinds
    <3> QED
      BY <1>3, <3>1, <3>2
  <2> HIDE DEF n
  <2>8. Admits(n, x)
    BY <1>2, <1>6, <2>5, <2>6, <2>7 DEF Admits
  <2>9. Plain(x, Len(n) + 1)
    <3>1. Len(n) + 1 = Len(log) + 2
      BY <1>1, <2>1
    <3> QED
      BY <1>6, <3>1
  <2> QED
    BY <2>1, <2>2, <2>4, <2>8, <2>9, LawfulStep
<1> QED
  BY <1>5, <1>7, <1>8

LEMMA RevokeLawful == ASSUME LInv, NEW id, Revoke(id) PROVE Lawful(log')
<1> DEFINE x == Revoked(id)
<1>1. x.kind = "revoked" /\ x.id = id /\ IsLog(log) /\ Lawful(log)
  BY DEF Revoked, LInv, IInv, WellFormed
<1>2. log' = Append(log, x) /\ \E g \in Consents(log)[Len(log)].live : g.id = id
  BY DEF Revoke, liveGrants
<1> HIDE DEF x
<1>3. id \in At(log, {"granted"})
  BY <1>1, <1>2, StandingIsRecorded
<1>4. Admits(log, x) /\ Plain(x, Len(log) + 1)
  BY <1>1, <1>3 DEF Admits, Plain
<1> QED
  BY <1>1, <1>2, <1>4, LawfulStep

LEMMA ContinuedLawful ==
  ASSUME NEW seed, IsLog(seed), Lawful(seed), Continued(seed)
  PROVE  Lawful(log')
<1>1. EndSeed.kind = "endSeed"
  BY DEF EndSeed
<1>2. IsLog(Append(seed, EndSeed)) /\ Lawful(Append(seed, EndSeed))
  BY <1>1, FreeLawful
<1> QED
  BY <1>2, OpenLawful DEF Continued

LEMMA ResumeLawful == ASSUME LInv, NEW k \in 0..Len(log), Resume(k) PROVE Lawful(log')
<1> DEFINE p == SubSeq(log, 1, k)
<1>1. WellFormed(p) /\ Lawful(p)
  BY PrefixKeeps, LawfulPrefix DEF LInv, IInv, WellFormed
<1>2. Continued(p \o Closers(p))
  BY DEF Resume, Prefix
<1> HIDE DEF p
<1>3. WellFormed(p \o Closers(p)) /\ Lawful(p \o Closers(p))
  BY <1>1, RepairKeeps, RepairLawful
<1> QED
  BY <1>2, <1>3, ContinuedLawful DEF WellFormed

LEMMA ForkLawful == ASSUME LInv, NEW k \in 0..Len(log), Fork(k) PROVE Lawful(log')
<1> DEFINE p == SubSeq(log, 1, k)
<1>1. WellFormed(p) /\ Lawful(p)
  BY PrefixKeeps, LawfulPrefix DEF LInv, IInv, WellFormed
<1>2. Continued(p)
  BY DEF Fork, Prefix
<1> HIDE DEF p
<1> QED
  BY <1>1, <1>2, ContinuedLawful DEF WellFormed

LEMMA NextLawful == LInv /\ [Next]_vars => LInv'
<1> SUFFICES ASSUME LInv, [Next]_vars PROVE LInv'
  OBVIOUS
<1>1. IInv'
  BY NextKeeps DEF LInv
<1>2. CASE Next
  <2>1. ASSUME SwitchSandbox PROVE Lawful(log')
    BY <2>1, SwitchLawful
  <2>2. ASSUME Cancel PROVE Lawful(log')
    BY <2>2 DEF Cancel, LInv
  <2>3. ASSUME NEW p \in {"ask", "never"}, SetPolicy(p) \/ ApplyPreset(p) PROVE Lawful(log')
    BY <2>3, SetPolicyLawful, PresetLawful
  <2>4. ASSUME NEW key, Request(key) PROVE Lawful(log')
    BY <2>4, RequestLawful
  <2>5. ASSUME NEW id \in awaiting, NEW answer, NEW wanted, Answer(id, answer, wanted) PROVE Lawful(log')
    BY <2>5, AnswerLawful
  <2>6. ASSUME NEW id, Revoke(id) PROVE Lawful(log')
    BY <2>6, RevokeLawful
  <2>7. ASSUME NEW k \in 0..Len(log), Resume(k) \/ Fork(k) PROVE Lawful(log')
    BY <2>7, ResumeLawful, ForkLawful
  <2>8. Lawful(log')
    BY <1>2, <2>1, <2>2, <2>3, <2>4, <2>5, <2>6, <2>7 DEF Next
  <2> QED
    BY <1>1, <2>8 DEF LInv
<1>3. CASE UNCHANGED vars
  BY <1>1, <1>3 DEF vars, LInv
<1> QED
  BY <1>2, <1>3

(* The inductive invariant of the consents: beyond the open asks, every     *)
(* record of the log is one the authority invariant accepts over those      *)
(* before it, a yes is a person's or a standing consent's, and a consent    *)
(* decides in the tick of its ask.                                          *)
THEOREM LawInvariance == Spec => []LInv
<1>1. Init => LInv
  BY InitIInv, InitLawful DEF LInv
<1> QED
  BY <1>1, NextLawful, PTL DEF Spec

(* No append of the seam is refused by the authority invariant, in whatever *)
(* order asks, answers, switches, revocations, crashes and forks come: no   *)
(* answer is thrown out of halfway (`request`, `mint`, `decide`, `check`).  *)
THEOREM SeamIsLawful == Spec => []SeamPassesItsInvariant
<1>1. LInv => SeamPassesItsInvariant
  BY DEF LInv, Lawful, SeamPassesItsInvariant
<1> QED
  BY <1>1, LawInvariance, PTL

(* A yes credited to a standing consent was earned by a person's yes to the *)
(* same action, in this lifecycle, with no move of the authority and no     *)
(* revocation since (GrantFold, against the log alone).                     *)
THEOREM ConsentEarned == Spec => []ConsentIsEarned
<1>1. LInv => ConsentIsEarned
  BY EarnedByLaw DEF LInv, IInv, WellFormed
<1> QED
  BY <1>1, LawInvariance, PTL
-----------------------------------------------------------------------------
(* Compaction.  What the model is shown is a fold of the log, again a       *)
(* recursive one, taken from the beginning or from what was shown before.   *)

After(s, l, from) ==
  LET after[n \in from..Len(l)] == IF n = from THEN s ELSE Apply(after[n - 1], l[n], n)
  IN  after

(* What was shown after each place.                                         *)
Shown(l) == After(<<>>, l, 0)

ShowsTo(g, s, l, from, k) ==
  g = [n \in from..k |-> IF n = from THEN s ELSE Apply(g[n - 1], l[n], n)]

LEMMA AfterExists ==
  ASSUME NEW s, NEW l, NEW from \in Nat, NEW m \in Nat
  PROVE  \E g : ShowsTo(g, s, l, from, from + m)
<1> DEFINE S == {j \in 0..m : \E g : ShowsTo(g, s, l, from, from + j)}
<1>1. 0 \in S
  <2> DEFINE g == [k \in from..(from + 0) |-> s]
  <2>1. \A k \in from..(from + 0) : k = from
    OBVIOUS
  <2>2. g = [k \in from..(from + 0) |-> IF k = from THEN s ELSE Apply(g[k - 1], l[k], k)]
    BY <2>1
  <2>3. ShowsTo(g, s, l, from, from + 0)
    BY <2>2 DEF ShowsTo
  <2> HIDE DEF g
  <2> QED
    BY <2>3
<1>2. ASSUME NEW j \in 0..m, j \in S, j < m PROVE j + 1 \in S
  <2> DEFINE k == from + j
  <2>1. k \in Nat /\ k >= from /\ from + (j + 1) = k + 1
    OBVIOUS
  <2>2. PICK g : ShowsTo(g, s, l, from, k)
    BY <1>2
  <2> HIDE DEF k
  <2>3. /\ DOMAIN g = from..k /\ g[from] = s
        /\ \A i \in from..k : g[i] = IF i = from THEN s ELSE Apply(g[i - 1], l[i], i)
    BY <2>1, <2>2 DEF ShowsTo
  <2> DEFINE h == [i \in from..(k + 1) |-> IF i <= k THEN g[i] ELSE Apply(g[k], l[k + 1], k + 1)]
  <2>4. \A i \in from..(k + 1) :
          h[i] = IF i = from THEN s ELSE Apply(h[i - 1], l[i], i)
    <3> SUFFICES ASSUME NEW i \in from..(k + 1)
                 PROVE  h[i] = IF i = from THEN s ELSE Apply(h[i - 1], l[i], i)
      OBVIOUS
    <3>1. CASE i = from
      BY <2>1, <2>3, <3>1
    <3>2. CASE i \in from..k /\ i # from
      <4>1. h[i] = g[i] /\ h[i - 1] = g[i - 1]
        BY <2>1, <3>2
      <4>2. g[i] = Apply(g[i - 1], l[i], i)
        BY <2>3, <3>2
      <4> QED
        BY <3>2, <4>1, <4>2
    <3>3. CASE i = k + 1
      <4>1. h[i] = Apply(g[k], l[k + 1], k + 1) /\ h[i - 1] = g[k] /\ i # from
        BY <2>1, <3>3
      <4> QED
        BY <3>3, <4>1
    <3> QED
      BY <2>1, <3>1, <3>2, <3>3
  <2>5. ShowsTo(h, s, l, from, k + 1)
    <3>1. DOMAIN h = from..(k + 1) /\ h = [i \in from..(k + 1) |-> h[i]]
      OBVIOUS
    <3> HIDE DEF h
    <3> QED
      BY <2>4, <3>1 DEF ShowsTo
  <2>6. j + 1 \in 0..m
    BY <1>2
  <2> HIDE DEF h
  <2> QED
    BY <2>1, <2>5, <2>6
<1> HIDE DEF S
<1>3. 0..m \subseteq S
  BY <1>1, <1>2, Climb
<1> QED
  BY <1>3 DEF S

LEMMA AfterFold ==
  ASSUME NEW l, IsLog(l), NEW s, NEW from \in 0..Len(l)
  PROVE  /\ After(s, l, from)[from] = s
         /\ \A n \in 1..Len(l) : n > from =>
              After(s, l, from)[n] = Apply(After(s, l, from)[n - 1], l[n], n)
<1>1. Len(l) \in Nat /\ from \in Nat /\ Len(l) - from \in Nat /\ from + (Len(l) - from) = Len(l)
  BY LogFacts
<1>2. \E g : ShowsTo(g, s, l, from, from + (Len(l) - from))
  BY <1>1, AfterExists
<1>3. PICK g : g = [n \in from..Len(l) |-> IF n = from THEN s ELSE Apply(g[n - 1], l[n], n)]
  BY <1>1, <1>2 DEF ShowsTo
<1>4. After(s, l, from) = [n \in from..Len(l) |->
                             IF n = from THEN s ELSE Apply(After(s, l, from)[n - 1], l[n], n)]
  BY <1>3 DEF After
<1>5. \A n \in 1..Len(l) : n > from => n \in from..Len(l) /\ n # from
  BY <1>1
<1>6. from \in from..Len(l)
  BY <1>1
<1> QED
  BY <1>4, <1>5, <1>6

LEMMA ShownFold ==
  ASSUME NEW l, IsLog(l)
  PROVE  /\ Shown(l)[0] = <<>>
         /\ \A n \in 1..Len(l) : Shown(l)[n] = Apply(Shown(l)[n - 1], l[n], n)
<1>1. Len(l) \in Nat /\ 0 \in 0..Len(l) /\ \A n \in 1..Len(l) : n > 0
  BY LogFacts
<1> QED
  BY <1>1, AfterFold DEF Shown

(* Taken from a place, it goes on as it would have from the beginning.      *)
LEMMA AfterJoins ==
  ASSUME NEW l, IsLog(l), NEW from \in 0..Len(l)
  PROVE  Surface(Shown(l)[from], l, from) = Shown(l)[Len(l)]
<1> DEFINE s == Shown(l)[from]
           S == {j \in 0..(Len(l) - from) : After(s, l, from)[from + j] = Shown(l)[from + j]}
<1>1. Len(l) \in Nat /\ from \in Nat /\ Len(l) - from \in Nat /\ from + (Len(l) - from) = Len(l)
      /\ from + 0 = from
  BY LogFacts
<1> HIDE DEF s
<1>2. 0 \in S
  BY <1>1, AfterFold DEF s
<1>3. ASSUME NEW j \in 0..(Len(l) - from), j \in S, j < Len(l) - from PROVE j + 1 \in S
  <2>1. from + (j + 1) \in 1..Len(l) /\ from + (j + 1) > from /\ (from + (j + 1)) - 1 = from + j
        /\ j + 1 \in 0..(Len(l) - from)
    BY <1>1, <1>3
  <2> DEFINE n == from + (j + 1)
  <2>2. /\ After(s, l, from)[n] = Apply(After(s, l, from)[n - 1], l[n], n)
        /\ Shown(l)[n] = Apply(Shown(l)[n - 1], l[n], n)
    BY <2>1, AfterFold, ShownFold
  <2> QED
    BY <1>3, <2>1, <2>2
<1> HIDE DEF S
<1>4. 0..(Len(l) - from) \subseteq S
  BY <1>1, <1>2, <1>3, Climb
<1>5. Len(l) - from \in S
  BY <1>1, <1>4
<1>6. After(s, l, from)[Len(l)] = Shown(l)[Len(l)]
  BY <1>1, <1>5 DEF S
<1> QED
  BY <1>6 DEF Surface, After, s

LEMMA ShownLocal ==
  ASSUME NEW l, IsLog(l), NEW m, IsLog(m), NEW n \in Nat, n <= Len(l), n <= Len(m),
         \A i \in 1..n : l[i] = m[i]
  PROVE  \A k \in 0..n : Shown(l)[k] = Shown(m)[k]
<1> DEFINE S == {k \in 0..n : Shown(l)[k] = Shown(m)[k]}
<1>1. Len(l) \in Nat /\ Len(m) \in Nat
  BY LogFacts
<1>2. 0 \in S
  BY ShownFold
<1>3. ASSUME NEW k \in 0..n, k \in S, k < n PROVE k + 1 \in S
  <2>1. k + 1 \in 1..n /\ k + 1 \in 1..Len(l) /\ k + 1 \in 1..Len(m) /\ (k + 1) - 1 = k /\ k + 1 \in 0..n
    BY <1>1, <1>3
  <2>2. /\ Shown(l)[k + 1] = Apply(Shown(l)[k], l[k + 1], k + 1)
        /\ Shown(m)[k + 1] = Apply(Shown(m)[k], m[k + 1], k + 1)
    BY <2>1, ShownFold
  <2> QED
    BY <1>3, <2>1, <2>2
<1> HIDE DEF S
<1>4. 0..n \subseteq S
  BY <1>2, <1>3, Climb
<1> QED
  BY <1>4 DEF S

-----------------------------------------------------------------------------
(* What each record may be, judged by the records before it and by what     *)
(* they show (s): a message of the turn comes when no call awaits a result, *)
(* a result is the next one of the newest call, a compaction records what   *)
(* is shown, and a summary replaces a beginning of it that is on record and *)
(* does not part a result from its call.                                    *)

History == {"user", "say", "calls", "result", "summary"}
HistoryTo(l, n) == {i \in 1..n : l[i].kind \in History}
ShadowedTo(l, n) == UNION {l[i].shadowed : i \in {j \in 1..n : l[j].kind = "applied"}}
Elements(s) == {s[i] : i \in 1..Len(s)}

OpenAt(l, n) ==
  \E t \in 1..n : l[t].kind = "turn" /\ \A e \in 1..n : l[e].kind = "turnEnd" => e < t
NewestCall(l, n, c) ==
  c \in 1..n /\ l[c].kind = "calls" /\ \A i \in 1..n : l[i].kind = "calls" => i <= c
ResultsOf(l, n, c) == {i \in 1..n : l[i].kind = "result" /\ l[i].of = c}
AnswersTo(l, n, c) == Cardinality(ResultsOf(l, n, c))

(* Every call shown has its results behind it, but the one at place q.      *)
CompleteBut(l, s, q) ==
  \A i \in 1..Len(s) : l[s[i]].kind = "calls" /\ i # q => i + 2 <= Len(s)
Complete(l, s) == CompleteBut(l, s, 0)

Pending(l, s, c, a) ==
  /\ a \in 0..1 /\ Len(s) - a \in 1..Len(s) /\ s[Len(s) - a] = c /\ l[c].kind = "calls"
  /\ CompleteBut(l, s, Len(s) - a)

(* What e may be after the first n records of l, which show s.              *)
May(l, n, e, s) ==
  /\ e.kind \in History \union {"turn", "turnEnd", "start", "applied", "end"}
  /\ e.kind \in {"user", "say", "calls", "turnEnd"} => Complete(l, s)
  /\ e.kind = "calls" => OpenAt(l, n)
  /\ e.kind = "result" =>
       \E c \in 1..n, a \in 0..1 :
         NewestCall(l, n, c) /\ AnswersTo(l, n, c) = a /\ e = Result(c, Tools[a + 1])
  /\ e.kind = "applied" => e.shadowed \subseteq Elements(s)
  /\ e.kind = "summary" =>
       \E c \in 1..Len(s) :
         /\ c < Len(s) /\ s[1] = e.first /\ s[c] = e.last /\ l[s[c + 1]].kind # "result"
         /\ \A i \in 1..c : s[i] \in ShadowedTo(l, n)
  /\ e.kind = "end" => e.start \in 1..n /\ l[e.start].kind = "start"

Regular(l) == \A n \in 1..Len(l) : May(l, n - 1, l[n], Shown(l)[n - 1])

(* What such a log shows: records of the history, each once; each call with *)
(* its results behind it, but the newest one's while its turn is open; and  *)
(* what it does not show is on record.                                      *)
Grouped(l, s) ==
  \A i \in 1..Len(s) :
    /\ l[s[i]].kind = "calls" =>
         \A k \in 1..2 : i + k <= Len(s) => l[s[i + k]] = Result(s[i], Tools[k])
    /\ l[s[i]].kind = "result" =>
         \E k \in 1..2 : /\ i - k >= 1 /\ l[s[i - k]].kind = "calls"
                         /\ l[s[i]] = Result(s[i - k], Tools[k])

Shows(l, n, s) ==
  /\ s \in Seq(Nat)
  /\ \A i \in 1..Len(s) : s[i] \in HistoryTo(l, n)
  /\ \A i, j \in 1..Len(s) : s[i] = s[j] => i = j

Hides(l, n, s) ==
  /\ \A h \in HistoryTo(l, n) : h \in ShadowedTo(l, n) \/ h \in Elements(s)
  /\ ShadowedTo(l, n) \subseteq HistoryTo(l, n)

Lane(l, n, s) ==
  \/ Complete(l, s) /\ \A c \in 1..n : NewestCall(l, n, c) => AnswersTo(l, n, c) = 2
  \/ \E c \in 1..n : /\ NewestCall(l, n, c) /\ Pending(l, s, c, AnswersTo(l, n, c))
                     /\ OpenAt(l, n)

Owned(l, n) == \A i \in 1..n : l[i].kind = "result" => l[i].of \in 1..n

Shape(l, n, s) ==
  Shows(l, n, s) /\ Grouped(l, s) /\ Hides(l, n, s) /\ Owned(l, n) /\ Lane(l, n, s)

LEMMA ToolsAreTwo == Len(Tools) = 2 /\ DOMAIN Tools = 1..2 /\ Tools[1] = "shell" /\ Tools[2] = "history"
BY DEF Tools

(* One record more, place by place.                                         *)
LEMMA OneMore ==
  ASSUME NEW l, NEW n \in Nat
  PROVE  LET e == l[n + 1]
         IN  /\ HistoryTo(l, n + 1) = HistoryTo(l, n) \union (IF e.kind \in History THEN {n + 1} ELSE {})
             /\ ShadowedTo(l, n + 1) =
                  ShadowedTo(l, n) \union (IF e.kind = "applied" THEN e.shadowed ELSE {})
             /\ \A c : NewestCall(l, n + 1, c) <=>
                         IF e.kind = "calls" THEN c = n + 1 ELSE NewestCall(l, n, c)
             /\ e.kind = "turn" => OpenAt(l, n + 1)
             /\ e.kind \notin {"turn", "turnEnd"} => (OpenAt(l, n + 1) <=> OpenAt(l, n))
<1> DEFINE e == l[n + 1]
<1>0. n + 1 \in 1..(n + 1) /\ \A i \in 1..n : i \in 1..(n + 1) /\ i < n + 1 /\ i <= n + 1 /\ i # n + 1
  OBVIOUS
<1>1. \A i : i \in 1..(n + 1) <=> (i \in 1..n \/ i = n + 1)
  OBVIOUS
<1>2. HistoryTo(l, n + 1) = HistoryTo(l, n) \union (IF e.kind \in History THEN {n + 1} ELSE {})
  BY <1>1 DEF HistoryTo
<1>3. ShadowedTo(l, n + 1) =
        ShadowedTo(l, n) \union (IF e.kind = "applied" THEN e.shadowed ELSE {})
  <2>1. CASE e.kind = "applied"
    <3>1. {j \in 1..(n + 1) : l[j].kind = "applied"} = {j \in 1..n : l[j].kind = "applied"} \union {n + 1}
      BY <1>1, <2>1
    <3> QED
      BY <2>1, <3>1 DEF ShadowedTo
  <2>2. CASE e.kind # "applied"
    <3>1. {j \in 1..(n + 1) : l[j].kind = "applied"} = {j \in 1..n : l[j].kind = "applied"}
      BY <1>1, <2>2
    <3> QED
      BY <2>2, <3>1 DEF ShadowedTo
  <2> QED
    BY <2>1, <2>2
<1>4. ASSUME NEW c
      PROVE  NewestCall(l, n + 1, c) <=> IF e.kind = "calls" THEN c = n + 1 ELSE NewestCall(l, n, c)
  <2>1. CASE e.kind = "calls"
    <3>1. n + 1 <= c /\ c \in 1..(n + 1) => c = n + 1
      OBVIOUS
    <3> QED
      BY <1>0, <1>1, <2>1, <3>1 DEF NewestCall
  <2>2. CASE e.kind # "calls"
    BY <1>1, <2>2 DEF NewestCall
  <2> QED
    BY <2>1, <2>2
<1>5. ASSUME e.kind = "turn" PROVE OpenAt(l, n + 1)
  <2>1. \A i \in 1..(n + 1) : l[i].kind = "turnEnd" => i < n + 1
    BY <1>0, <1>1, <1>5
  <2> QED
    BY <1>0, <1>5, <2>1 DEF OpenAt
<1>6. ASSUME e.kind \notin {"turn", "turnEnd"} PROVE OpenAt(l, n + 1) <=> OpenAt(l, n)
  BY <1>1, <1>6 DEF OpenAt
<1> QED
  BY <1>2, <1>3, <1>4, <1>5, <1>6

LEMMA AnswersMore ==
  ASSUME NEW l, NEW n \in Nat, NEW c
  PROVE  /\ AnswersTo(l, n, c) \in Nat
         /\ AnswersTo(l, n + 1, c) =
              AnswersTo(l, n, c)
                + (IF l[n + 1].kind = "result" /\ l[n + 1].of = c THEN 1 ELSE 0)
<1> DEFINE R == ResultsOf(l, n, c)
           T == ResultsOf(l, n + 1, c)
<1>1. \A i : i \in 1..(n + 1) <=> (i \in 1..n \/ i = n + 1)
  OBVIOUS
<1>2. R \in SUBSET (1..n) /\ n + 1 \notin R
  BY DEF ResultsOf
<1>3. IsFiniteSet(R) /\ Cardinality(R) \in Nat
  BY <1>2, PlacesAreFinite
<1>4. CASE l[n + 1].kind = "result" /\ l[n + 1].of = c
  <2>1. T = R \union {n + 1}
    BY <1>1, <1>4 DEF ResultsOf
  <2> HIDE DEF R, T
  <2>2. Cardinality(T) = Cardinality(R) + 1
    BY <1>2, <1>3, <2>1, FS_AddElement
  <2> QED
    BY <1>3, <1>4, <2>2 DEF AnswersTo, R, T
<1>5. CASE ~(l[n + 1].kind = "result" /\ l[n + 1].of = c)
  <2>1. T = R
    BY <1>1, <1>5 DEF ResultsOf
  <2> QED
    BY <1>3, <1>5, <2>1 DEF AnswersTo
<1> QED
  BY <1>4, <1>5

LEMMA OwnedMore ==
  ASSUME NEW l, NEW n \in Nat, Owned(l, n), NEW s, May(l, n, l[n + 1], s)
  PROVE  Owned(l, n + 1)
<1>1. \A i : i \in 1..(n + 1) <=> (i \in 1..n \/ i = n + 1)
  OBVIOUS
<1>2. ASSUME l[n + 1].kind = "result" PROVE l[n + 1].of \in 1..n
  <2>1. PICK c \in 1..n, a \in 0..1 : l[n + 1] = Result(c, Tools[a + 1])
    BY <1>2 DEF May
  <2>2. Result(c, Tools[a + 1]).of = c
    BY DEF Result
  <2> QED
    BY <2>1, <2>2
<1> QED
  BY <1>1, <1>2 DEF Owned

(* Where a call awaits results, what is shown is not complete.              *)
LEMMA PendingIsOpen ==
  ASSUME NEW l, NEW s \in Seq(Nat), NEW c, NEW a, Pending(l, s, c, a)
  PROVE  ~Complete(l, s)
<1>1. a \in 0..1 /\ Len(s) \in Nat /\ Len(s) - a \in 1..Len(s) /\ l[s[Len(s) - a]].kind = "calls"
  BY DEF Pending
<1>2. ~((Len(s) - a) + 2 <= Len(s)) /\ Len(s) - a # 0
  BY <1>1
<1> QED
  BY <1>1, <1>2 DEF Complete, CompleteBut

(* A record that shows nothing new.                                         *)
LEMMA NeutralShape ==
  ASSUME NEW l, NEW n \in Nat, NEW s, Shape(l, n, s), May(l, n, l[n + 1], s),
         l[n + 1].kind \notin History
  PROVE  Shape(l, n + 1, s)
<1> DEFINE e == l[n + 1]
<1>0. HistoryTo(l, n + 1) = HistoryTo(l, n) \union (IF e.kind \in History THEN {n + 1} ELSE {})
  BY OneMore
<1>1. HistoryTo(l, n + 1) = HistoryTo(l, n)
  BY <1>0
<1>2. Elements(s) \subseteq HistoryTo(l, n) /\ s \in Seq(Nat)
  BY DEF Shape, Shows, Elements
<1>3. /\ ShadowedTo(l, n) \subseteq ShadowedTo(l, n + 1)
      /\ ShadowedTo(l, n + 1) \subseteq ShadowedTo(l, n) \union Elements(s)
  <2>1. ShadowedTo(l, n + 1) =
          ShadowedTo(l, n) \union (IF e.kind = "applied" THEN e.shadowed ELSE {})
    BY OneMore
  <2>2. e.kind = "applied" => e.shadowed \subseteq Elements(s)
    BY DEF May
  <2> QED
    BY <2>1, <2>2
<1>4. Shows(l, n + 1, s) /\ Hides(l, n + 1, s)
  BY <1>1, <1>2, <1>3 DEF Shape, Shows, Hides
<1>5. \A c : (NewestCall(l, n + 1, c) <=> NewestCall(l, n, c))
  BY OneMore DEF History
<1>6. \A c : AnswersTo(l, n + 1, c) = AnswersTo(l, n, c)
  <2>1. \A c : AnswersTo(l, n, c) \in Nat /\ AnswersTo(l, n, c) + 0 = AnswersTo(l, n, c)
    BY AnswersMore
  <2>2. e.kind # "result"
    BY DEF History
  <2> QED
    BY <2>1, <2>2, AnswersMore
<1>7. Lane(l, n + 1, s)
  <2>1. ASSUME Complete(l, s), \A c \in 1..n : NewestCall(l, n, c) => AnswersTo(l, n, c) = 2
        PROVE  Lane(l, n + 1, s)
    <3>1. \A c : NewestCall(l, n, c) => c \in 1..n
      BY DEF NewestCall
    <3> QED
      BY <1>5, <1>6, <2>1, <3>1 DEF Lane
  <2>2. ASSUME NEW c \in 1..n, NewestCall(l, n, c), Pending(l, s, c, AnswersTo(l, n, c)), OpenAt(l, n)
        PROVE  Lane(l, n + 1, s)
    <3>1. ~Complete(l, s)
      BY <1>2, <2>2, PendingIsOpen
    <3>2. e.kind # "turnEnd"
      BY <3>1 DEF May
    <3>3. OpenAt(l, n + 1)
      BY <2>2, <3>2, OneMore
    <3>4. c \in 1..(n + 1) /\ NewestCall(l, n + 1, c) /\ Pending(l, s, c, AnswersTo(l, n + 1, c))
      BY <1>5, <1>6, <2>2
    <3> QED
      BY <3>3, <3>4 DEF Lane
  <2> QED
    BY <2>1, <2>2 DEF Shape, Lane
<1>8. Owned(l, n + 1)
  BY OwnedMore DEF Shape, May
<1> QED
  BY <1>4, <1>7, <1>8 DEF Shape


(* A record of the turn, shown at the end.                                  *)
LEMMA AtEnd ==
  ASSUME NEW s \in Seq(Nat), NEW x \in Nat
  PROVE  LET t == Append(s, x)
         IN  /\ t \in Seq(Nat) /\ Len(t) = Len(s) + 1 /\ Len(s) \in Nat
             /\ \A i \in 1..Len(s) : t[i] = s[i]
             /\ t[Len(s) + 1] = x
             /\ \A i \in 1..Len(t) : i \in 1..Len(s) \/ i = Len(s) + 1
BY AppendProperties

LEMMA AppendShows ==
  ASSUME NEW l, NEW n \in Nat, NEW s, Shape(l, n, s), l[n + 1].kind \in {"user", "say", "calls", "result"}
  PROVE  Shows(l, n + 1, Append(s, n + 1)) /\ Hides(l, n + 1, Append(s, n + 1))
<1> DEFINE e == l[n + 1]
           t == Append(s, n + 1)
           m == Len(s)
<1>1. s \in Seq(Nat) /\ n + 1 \in Nat
  BY DEF Shape, Shows
<1>2. /\ t \in Seq(Nat) /\ Len(t) = m + 1 /\ m \in Nat
      /\ \A i \in 1..m : t[i] = s[i]
      /\ t[m + 1] = n + 1
      /\ \A i \in 1..Len(t) : i \in 1..m \/ i = m + 1
  BY <1>1, AtEnd
<1> HIDE DEF t, m
<1>3. HistoryTo(l, n + 1) = HistoryTo(l, n) \union {n + 1}
  <2>1. HistoryTo(l, n + 1) = HistoryTo(l, n) \union (IF e.kind \in History THEN {n + 1} ELSE {})
    BY OneMore
  <2> QED
    BY <2>1 DEF History
<1>4. ShadowedTo(l, n + 1) = ShadowedTo(l, n)
  <2>1. ShadowedTo(l, n + 1) =
          ShadowedTo(l, n) \union (IF e.kind = "applied" THEN e.shadowed ELSE {})
    BY OneMore
  <2> QED
    BY <2>1
<1>5. \A i \in 1..m : s[i] \in HistoryTo(l, n) /\ s[i] # n + 1
  <2>1. \A i \in 1..m : s[i] \in HistoryTo(l, n)
    BY DEF Shape, Shows, m
  <2>2. \A h \in HistoryTo(l, n) : h \in 1..n /\ h # n + 1
    BY DEF HistoryTo
  <2> QED
    BY <2>1, <2>2
<1>6. \A i, j \in 1..m : s[i] = s[j] => i = j
  BY DEF Shape, Shows, m
<1>7. Shows(l, n + 1, t)
  <2>1. \A i \in 1..Len(t) : t[i] \in HistoryTo(l, n + 1)
    BY <1>2, <1>3, <1>5
  <2>2. \A i, j \in 1..Len(t) : t[i] = t[j] => i = j
    BY <1>2, <1>5, <1>6
  <2> QED
    BY <1>2, <2>1, <2>2 DEF Shows
<1>8. Hides(l, n + 1, t)
  <2>1. \A i \in 1..m : i \in 1..Len(t)
    BY <1>2
  <2>2. Elements(s) \subseteq Elements(t)
    BY <1>2, <2>1 DEF Elements, m
  <2>3. n + 1 \in Elements(t)
    BY <1>2 DEF Elements
  <2> QED
    BY <1>3, <1>4, <2>2, <2>3 DEF Shape, Hides
<1> QED
  BY <1>7, <1>8 DEF t

(* A message or an answer comes when every call shown has its results.      *)
LEMMA CompleteLane ==
  ASSUME NEW l, NEW n \in Nat, NEW s, Shape(l, n, s), Complete(l, s)
  PROVE  \A c \in 1..n : NewestCall(l, n, c) => AnswersTo(l, n, c) = 2
<1>1. s \in Seq(Nat)
  BY DEF Shape, Shows
<1>2. \A c, a : ~Pending(l, s, c, a)
  BY <1>1, PendingIsOpen
<1> QED
  BY <1>2 DEF Shape, Lane

LEMMA MessageShape ==
  ASSUME NEW l, NEW n \in Nat, NEW s, Shape(l, n, s), May(l, n, l[n + 1], s),
         l[n + 1].kind \in {"user", "say", "calls"}
  PROVE  Shape(l, n + 1, Append(s, n + 1))
<1> DEFINE e == l[n + 1]
           t == Append(s, n + 1)
           m == Len(s)
<1>1. s \in Seq(Nat) /\ n + 1 \in Nat /\ n + 1 \in 1..(n + 1)
  BY DEF Shape, Shows
<1>2. /\ t \in Seq(Nat) /\ Len(t) = m + 1 /\ m \in Nat
      /\ \A i \in 1..m : t[i] = s[i]
      /\ t[m + 1] = n + 1
      /\ \A i \in 1..Len(t) : i \in 1..m \/ i = m + 1
  BY <1>1, AtEnd
<1>3. Shows(l, n + 1, t) /\ Hides(l, n + 1, t) /\ Owned(l, n + 1)
  BY AppendShows, OwnedMore DEF Shape
<1> HIDE DEF t
<1>4. Complete(l, s) /\ \A i \in 1..m : l[s[i]].kind = "calls" => i + 2 <= m
  <2>1. Complete(l, s)
    BY DEF May
  <2>2. \A i \in 1..m : i # 0
    BY <1>2
  <2> QED
    BY <2>1, <2>2 DEF Complete, CompleteBut
<1>5. /\ \A i \in 1..m : l[s[i]].kind = "calls" =>
             \A k \in 1..2 : i + k <= m => l[s[i + k]] = Result(s[i], Tools[k])
      /\ \A i \in 1..m : l[s[i]].kind = "result" =>
             \E k \in 1..2 : i - k >= 1 /\ l[s[i - k]].kind = "calls" /\ l[s[i]] = Result(s[i - k], Tools[k])
  BY DEF Shape, Grouped
<1> HIDE DEF m
<1>6. Grouped(l, t)
  <2>1. ASSUME NEW i \in 1..Len(t), l[t[i]].kind = "calls", NEW k \in 1..2, i + k <= Len(t)
        PROVE  l[t[i + k]] = Result(t[i], Tools[k])
    <3>1. i \in 1..m
      BY <1>2, <2>1
    <3>2. i + 2 <= m /\ t[i] = s[i]
      BY <1>2, <1>4, <2>1, <3>1
    <3>3. i + k \in 1..m /\ i + k <= m
      BY <1>2, <2>1, <3>1, <3>2
    <3>4. t[i + k] = s[i + k]
      BY <1>2, <3>3
    <3> QED
      BY <1>5, <2>1, <3>1, <3>2, <3>3, <3>4
  <2>2. ASSUME NEW i \in 1..Len(t), l[t[i]].kind = "result"
        PROVE  \E k \in 1..2 : i - k >= 1 /\ l[t[i - k]].kind = "calls" /\ l[t[i]] = Result(t[i - k], Tools[k])
    <3>1. i \in 1..m /\ t[i] = s[i]
      BY <1>2, <2>2
    <3>2. PICK k \in 1..2 : i - k >= 1 /\ l[s[i - k]].kind = "calls" /\ l[s[i]] = Result(s[i - k], Tools[k])
      BY <1>5, <2>2, <3>1
    <3>3. i - k \in 1..m
      BY <1>2, <3>1, <3>2
    <3>4. t[i - k] = s[i - k]
      BY <1>2, <3>3
    <3> QED
      BY <3>1, <3>2, <3>4
  <2> QED
    BY <2>1, <2>2 DEF Grouped
<1>7. \A c \in 1..n : NewestCall(l, n, c) => AnswersTo(l, n, c) = 2
  BY <1>4, CompleteLane
<1>8. \A c : AnswersTo(l, n + 1, c) = AnswersTo(l, n, c)
  <2>1. \A c : AnswersTo(l, n, c) \in Nat /\ AnswersTo(l, n, c) + 0 = AnswersTo(l, n, c)
    BY AnswersMore
  <2> QED
    BY <2>1, AnswersMore
<1>9. Lane(l, n + 1, t)
  <2>1. CASE e.kind = "calls"
    <3>1. \A i \in 1..m : l[t[i]].kind = "calls" /\ i # m + 1 => i + 2 <= m + 1
      BY <1>2, <1>4
    <3>2. CompleteBut(l, t, m + 1)
      BY <1>2, <3>1 DEF CompleteBut
    <3>3. Len(t) - 0 \in 1..Len(t) /\ Len(t) - 0 = m + 1
      BY <1>2
    <3>4. Pending(l, t, n + 1, 0)
      BY <1>2, <2>1, <3>2, <3>3 DEF Pending
    <3>5. AnswersTo(l, n + 1, n + 1) = 0
      <4>1. n + 1 \notin 1..n
        OBVIOUS
      <4>2. ResultsOf(l, n, n + 1) = {}
        BY <4>1 DEF Shape, Owned, ResultsOf
      <4>3. AnswersTo(l, n, n + 1) = 0
        BY <4>2, FS_EmptySet DEF AnswersTo
      <4> QED
        BY <1>8, <4>3
    <3>6. NewestCall(l, n + 1, n + 1)
      BY <1>1, <2>1 DEF NewestCall
    <3>7. OpenAt(l, n) /\ (OpenAt(l, n + 1) <=> OpenAt(l, n))
      BY <2>1, OneMore DEF May
    <3> QED
      BY <1>1, <3>4, <3>5, <3>6, <3>7 DEF Lane
  <2>2. CASE e.kind # "calls"
    <3>1. \A i \in 1..Len(t) : l[t[i]].kind = "calls" /\ i # 0 => i + 2 <= Len(t)
      BY <1>2, <1>4, <2>2
    <3>2. Complete(l, t)
      BY <3>1 DEF Complete, CompleteBut
    <3>3. \A c : NewestCall(l, n + 1, c) => NewestCall(l, n, c) /\ c \in 1..n
      <4>1. \A c : NewestCall(l, n + 1, c) <=>
                     IF e.kind = "calls" THEN c = n + 1 ELSE NewestCall(l, n, c)
        BY OneMore
      <4> QED
        BY <2>2, <4>1 DEF NewestCall
    <3> QED
      BY <1>7, <1>8, <3>2, <3>3 DEF Lane
  <2> QED
    BY <2>1, <2>2
<1> QED
  BY <1>3, <1>6, <1>9 DEF Shape, t

(* A result is the next one of the newest call, which ends what is shown    *)
(* but for the results it has.                                              *)
LEMMA NewestIsOne ==
  ASSUME NEW l, NEW n \in Nat, NEW c, NEW d, NewestCall(l, n, c), NewestCall(l, n, d)
  PROVE  c = d
<1>1. c \in 1..n /\ d \in 1..n /\ c <= d /\ d <= c
  BY DEF NewestCall
<1> QED
  BY <1>1

LEMMA ResultShape ==
  ASSUME NEW l, NEW n \in Nat, NEW s, Shape(l, n, s), May(l, n, l[n + 1], s),
         l[n + 1].kind = "result"
  PROVE  Shape(l, n + 1, Append(s, n + 1))
<1> DEFINE e == l[n + 1]
           t == Append(s, n + 1)
           m == Len(s)
<1>1. s \in Seq(Nat) /\ n + 1 \in Nat
  BY DEF Shape, Shows
<1>2. /\ t \in Seq(Nat) /\ Len(t) = m + 1 /\ m \in Nat
      /\ \A i \in 1..m : t[i] = s[i]
      /\ t[m + 1] = n + 1
      /\ \A i \in 1..Len(t) : i \in 1..m \/ i = m + 1
  BY <1>1, AtEnd
<1>3. Shows(l, n + 1, t) /\ Hides(l, n + 1, t) /\ Owned(l, n + 1)
  BY AppendShows, OwnedMore DEF Shape
<1> HIDE DEF t
<1>4. PICK c \in 1..n, a \in 0..1 :
        NewestCall(l, n, c) /\ AnswersTo(l, n, c) = a /\ e = Result(c, Tools[a + 1])
  BY DEF May
<1>5. e.kind = "result" /\ e.of = c
  BY <1>4 DEF Result
<1>6. Pending(l, s, c, a) /\ OpenAt(l, n)
  <2>1. ~(\A d \in 1..n : NewestCall(l, n, d) => AnswersTo(l, n, d) = 2)
    BY <1>4
  <2>2. PICK d \in 1..n : NewestCall(l, n, d) /\ Pending(l, s, d, AnswersTo(l, n, d)) /\ OpenAt(l, n)
    BY <2>1 DEF Shape, Lane
  <2>3. d = c
    BY <1>4, <2>2, NewestIsOne
  <2> QED
    BY <1>4, <2>2, <2>3
<1> DEFINE p == m - a
<1>7. /\ p \in 1..m /\ s[p] = c /\ l[c].kind = "calls" /\ p + a = m
      /\ \A i \in 1..m : l[s[i]].kind = "calls" /\ i # p => i + 2 <= m
  BY <1>2, <1>6 DEF Pending, CompleteBut
<1>8. /\ \A i \in 1..m : l[s[i]].kind = "calls" =>
             \A k \in 1..2 : i + k <= m => l[s[i + k]] = Result(s[i], Tools[k])
      /\ \A i \in 1..m : l[s[i]].kind = "result" =>
             \E k \in 1..2 : i - k >= 1 /\ l[s[i - k]].kind = "calls" /\ l[s[i]] = Result(s[i - k], Tools[k])
  BY DEF Shape, Grouped
<1> HIDE DEF m, p
<1>9. Grouped(l, t)
  <2>1. ASSUME NEW i \in 1..Len(t), l[t[i]].kind = "calls", NEW k \in 1..2, i + k <= Len(t)
        PROVE  l[t[i + k]] = Result(t[i], Tools[k])
    <3>1. i \in 1..m /\ t[i] = s[i]
      <4>1. i + k <= m + 1 /\ i \in Nat
        BY <1>2, <2>1
      <4>2. i \in 1..m
        BY <1>2, <4>1
      <4> QED
        BY <1>2, <4>2
    <3>2. CASE i + k <= m
      <4>1. i + k \in 1..m
        BY <1>2, <3>1, <3>2
      <4>2. t[i + k] = s[i + k]
        BY <1>2, <4>1
      <4> QED
        BY <1>8, <2>1, <3>1, <3>2, <4>2
    <3>3. CASE i + k = m + 1
      <4>1. i = p /\ k = a + 1
        <5>1. i + 2 <= m \/ i = p
          BY <1>7, <2>1, <3>1
        <5>2. i + 2 <= m => FALSE
          BY <1>2, <3>1, <3>3
        <5>3. i = p
          BY <5>1, <5>2
        <5> QED
          BY <1>2, <1>7, <3>3, <5>3
      <4>2. t[i + k] = n + 1 /\ t[i] = c
        BY <1>2, <1>7, <3>1, <3>3, <4>1
      <4> QED
        BY <1>4, <4>1, <4>2
    <3> QED
      BY <1>2, <2>1, <3>1, <3>2, <3>3
  <2>2. ASSUME NEW i \in 1..Len(t), l[t[i]].kind = "result"
        PROVE  \E k \in 1..2 : i - k >= 1 /\ l[t[i - k]].kind = "calls" /\ l[t[i]] = Result(t[i - k], Tools[k])
    <3>1. CASE i \in 1..m
      <4>1. t[i] = s[i]
        BY <1>2, <3>1
      <4>2. PICK k \in 1..2 : i - k >= 1 /\ l[s[i - k]].kind = "calls" /\ l[s[i]] = Result(s[i - k], Tools[k])
        BY <1>8, <2>2, <3>1, <4>1
      <4>3. i - k \in 1..m
        BY <1>2, <3>1, <4>2
      <4>4. t[i - k] = s[i - k]
        BY <1>2, <4>3
      <4> QED
        BY <4>1, <4>2, <4>4
    <3>2. CASE i = m + 1
      <4>1. a + 1 \in 1..2 /\ i - (a + 1) = p /\ p >= 1
        BY <1>2, <1>7, <3>2
      <4>2. t[i - (a + 1)] = c /\ t[i] = n + 1
        BY <1>2, <1>7, <3>2, <4>1
      <4> QED
        BY <1>4, <1>7, <4>1, <4>2
    <3> QED
      BY <1>2, <3>1, <3>2
  <2> QED
    BY <2>1, <2>2 DEF Grouped
<1>10. AnswersTo(l, n + 1, c) = a + 1
  <2>1. AnswersTo(l, n, c) = a
    BY <1>4
  <2>2. AnswersTo(l, n + 1, c) =
          AnswersTo(l, n, c) + (IF l[n + 1].kind = "result" /\ l[n + 1].of = c THEN 1 ELSE 0)
    BY AnswersMore
  <2> QED
    BY <1>5, <2>1, <2>2
<1>11. NewestCall(l, n + 1, c) /\ c \in 1..(n + 1) /\ OpenAt(l, n + 1)
  <2>1. NewestCall(l, n + 1, c) <=> IF e.kind = "calls" THEN c = n + 1 ELSE NewestCall(l, n, c)
    BY OneMore
  <2>2. OpenAt(l, n + 1) <=> OpenAt(l, n)
    BY <1>5, OneMore
  <2> QED
    BY <1>4, <1>5, <1>6, <2>1, <2>2
<1>12. Lane(l, n + 1, t)
  <2>1. CASE a = 0
    <3>1. ASSUME NEW i \in 1..Len(t), l[t[i]].kind = "calls", i # p PROVE i + 2 <= Len(t)
      <4>1. i \in 1..m /\ t[i] = s[i]
        BY <1>2, <1>5, <3>1
      <4>2. i + 2 <= m
        BY <1>7, <3>1, <4>1
      <4> QED
        BY <1>2, <4>1, <4>2
    <3>2. Len(t) - 1 = p /\ p \in 1..Len(t) /\ t[p] = c
      BY <1>2, <1>7, <2>1
    <3>3. Pending(l, t, c, 1)
      BY <1>7, <3>1, <3>2 DEF Pending, CompleteBut
    <3> QED
      BY <1>10, <1>11, <2>1, <3>3 DEF Lane
  <2>2. CASE a = 1
    <3>1. \A i \in 1..Len(t) : l[t[i]].kind = "calls" /\ i # 0 => i + 2 <= Len(t)
      BY <1>2, <1>5, <1>7, <2>2
    <3>2. Complete(l, t)
      BY <3>1 DEF Complete, CompleteBut
    <3>3. \A d \in 1..(n + 1) : NewestCall(l, n + 1, d) => AnswersTo(l, n + 1, d) = 2
      BY <1>1, <1>10, <1>11, <2>2, NewestIsOne
    <3> QED
      BY <3>2, <3>3 DEF Lane
  <2> QED
    BY <2>1, <2>2
<1> QED
  BY <1>3, <1>9, <1>12 DEF Shape, t

(* A summary takes the place of a beginning of what is shown.               *)
LEMMA CutFront ==
  ASSUME NEW s \in Seq(Nat), NEW c \in 1..Len(s), NEW x \in Nat
  PROVE  LET t == SubSeq(s, 1, 0) \o <<x>> \o SubSeq(s, c + 1, Len(s))
         IN  /\ t \in Seq(Nat) /\ Len(t) = Len(s) - c + 1 /\ t[1] = x
             /\ \A i \in (c + 1)..Len(s) : t[i - c + 1] = s[i]
             /\ \A j \in 1..Len(t) : j = 1 \/ (j + c - 1 \in (c + 1)..Len(s) /\ t[j] = s[j + c - 1])
<1> DEFINE m == Len(s)
           rest == SubSeq(s, c + 1, m)
           t == SubSeq(s, 1, 0) \o <<x>> \o rest
<1>1. m \in Nat /\ c \in Nat /\ c + 1 >= 1 /\ m - c \in Nat
  OBVIOUS
<1>2. SubSeq(s, 1, 0) = <<>>
  OBVIOUS
<1>3. rest \in Seq(Nat) /\ Len(rest) = m - c /\ \A i \in 1..(m - c) : rest[i] = s[c + i]
  <2>1. \A i \in (c + 1)..m : s[i] \in Nat
    BY <1>1
  <2>2. rest \in Seq(Nat) /\ Len(rest) = (IF c + 1 <= m THEN m - (c + 1) + 1 ELSE 0)
        /\ \A i \in 1..(m - (c + 1) + 1) : rest[i] = s[c + 1 + i - 1]
    BY <1>1, <2>1, SubSeqProperties
  <2>3. Len(rest) = m - c
    BY <1>1, <2>2
  <2>4. \A i \in 1..(m - c) : i \in 1..(m - (c + 1) + 1) /\ c + 1 + i - 1 = c + i
    BY <1>1
  <2> QED
    BY <2>2, <2>3, <2>4
<1> HIDE DEF rest
<1>4. t = <<x>> \o rest
  BY <1>2, <1>3
<1>5. t \in Seq(Nat) /\ Len(t) = 1 + (m - c)
      /\ \A i \in 1..(1 + (m - c)) : t[i] = IF i <= 1 THEN x ELSE rest[i - 1]
  <2>1. <<x>> \in Seq(Nat) /\ Len(<<x>>) = 1 /\ <<x>>[1] = x
    OBVIOUS
  <2> DEFINE one == <<x>>
  <2>2. one \o rest \in Seq(Nat) /\ Len(one \o rest) = Len(one) + Len(rest)
        /\ \A i \in 1..(Len(one) + Len(rest)) :
             (one \o rest)[i] = IF i <= Len(one) THEN one[i] ELSE rest[i - Len(one)]
    BY <1>3, <2>1, ConcatProperties
  <2> QED
    BY <1>1, <1>3, <1>4, <2>1, <2>2
<1> HIDE DEF t, m
<1>6. \A i \in (c + 1)..m : t[i - c + 1] = s[i]
  <2>1. \A i \in (c + 1)..m : i - c + 1 \in 1..(1 + (m - c)) /\ ~(i - c + 1 <= 1)
                              /\ (i - c + 1) - 1 = i - c /\ i - c \in 1..(m - c) /\ c + (i - c) = i
    BY <1>1
  <2> QED
    BY <1>3, <1>5, <2>1
<1>7. \A j \in 1..Len(t) : j = 1 \/ (j + c - 1 \in (c + 1)..m /\ t[j] = s[j + c - 1])
  <2>1. \A j \in 1..Len(t) : j = 1 \/ (j + c - 1 \in (c + 1)..m /\ (j + c - 1) - c + 1 = j)
    BY <1>1, <1>5
  <2> QED
    BY <1>6, <2>1
<1>8. Len(t) = m - c + 1 /\ t[1] = x
  BY <1>1, <1>5
<1> QED
  BY <1>5, <1>6, <1>7, <1>8 DEF t, m, rest

LEMMA SummaryShape ==
  ASSUME NEW l, NEW n \in Nat, NEW s, Shape(l, n, s), May(l, n, l[n + 1], s),
         l[n + 1].kind = "summary"
  PROVE  Shape(l, n + 1, Apply(s, l[n + 1], n + 1))
<1> DEFINE e == l[n + 1]
           m == Len(s)
<1>1. s \in Seq(Nat) /\ n + 1 \in Nat /\ m \in Nat
  BY DEF Shape, Shows
<1>2. PICK c \in 1..m :
        /\ c < m /\ s[1] = e.first /\ s[c] = e.last /\ l[s[c + 1]].kind # "result"
        /\ \A i \in 1..c : s[i] \in ShadowedTo(l, n)
  BY DEF May
<1> DEFINE t == SubSeq(s, 1, 0) \o <<n + 1>> \o SubSeq(s, c + 1, Len(s))
<1>3. Apply(s, e, n + 1) = t
  <2>1. \A i, j \in 1..m : s[i] = s[j] => i = j
    BY DEF Shape, Shows
  <2>2. 1 \in 1..m /\ DOMAIN s = 1..m
    BY <1>1, <1>2
  <2>3. Place(s, e.first) = 1 /\ Place(s, e.last) = c
    BY <1>2, <2>1, <2>2 DEF Place
  <2>4. Apply(s, e, n + 1) =
          SubSeq(s, 1, Place(s, e.first) - 1) \o <<n + 1>> \o SubSeq(s, Place(s, e.last) + 1, Len(s))
    BY DEF Apply
  <2> QED
    BY <2>3, <2>4
<1>4. /\ t \in Seq(Nat) /\ Len(t) = m - c + 1 /\ t[1] = n + 1
      /\ \A i \in (c + 1)..m : t[i - c + 1] = s[i]
      /\ \A j \in 1..Len(t) : j = 1 \/ (j + c - 1 \in (c + 1)..m /\ t[j] = s[j + c - 1])
  BY <1>1, <1>2, CutFront
<1> HIDE DEF t
<1>5. /\ \A i \in 1..m : l[s[i]].kind = "calls" =>
             \A k \in 1..2 : i + k <= m => l[s[i + k]] = Result(s[i], Tools[k])
      /\ \A i \in 1..m : l[s[i]].kind = "result" =>
             \E k \in 1..2 : i - k >= 1 /\ l[s[i - k]].kind = "calls" /\ l[s[i]] = Result(s[i - k], Tools[k])
  BY DEF Shape, Grouped
<1>6. \A i \in 1..m : s[i] \in HistoryTo(l, n) /\ s[i] # n + 1
  <2>1. \A i \in 1..m : s[i] \in HistoryTo(l, n)
    BY DEF Shape, Shows
  <2>2. \A h \in HistoryTo(l, n) : h \in 1..n /\ h # n + 1
    BY DEF HistoryTo
  <2> QED
    BY <2>1, <2>2
<1>7. \A i, j \in 1..m : s[i] = s[j] => i = j
  BY DEF Shape, Shows
<1>8. HistoryTo(l, n + 1) = HistoryTo(l, n) \union {n + 1}
  <2>1. HistoryTo(l, n + 1) = HistoryTo(l, n) \union (IF e.kind \in History THEN {n + 1} ELSE {})
    BY OneMore
  <2> QED
    BY <2>1 DEF History
<1>9. ShadowedTo(l, n + 1) = ShadowedTo(l, n)
  <2>1. ShadowedTo(l, n + 1) =
          ShadowedTo(l, n) \union (IF e.kind = "applied" THEN e.shadowed ELSE {})
    BY OneMore
  <2> QED
    BY <2>1
<1>10. Elements(s) = {s[i] : i \in 1..m} /\ Elements(t) = {t[i] : i \in 1..Len(t)}
  BY DEF Elements
<1>20. Hides(l, n, s) /\ Owned(l, n + 1)
  BY OwnedMore DEF Shape
<1>21. Lane(l, n, s)
  BY DEF Shape
<1> HIDE DEF m
<1>11. Shows(l, n + 1, t)
  <2>1. \A i \in 1..Len(t) : t[i] \in HistoryTo(l, n + 1)
    <3> SUFFICES ASSUME NEW i \in 1..Len(t) PROVE t[i] \in HistoryTo(l, n + 1)
      OBVIOUS
    <3>1. i = 1 \/ (i + c - 1 \in 1..m /\ t[i] = s[i + c - 1])
      BY <1>1, <1>2, <1>4
    <3> QED
      BY <1>4, <1>6, <1>8, <3>1
  <2>2. \A i, j \in 1..Len(t) : t[i] = t[j] => i = j
    <3> SUFFICES ASSUME NEW i \in 1..Len(t), NEW j \in 1..Len(t), t[i] = t[j] PROVE i = j
      OBVIOUS
    <3>1. i = 1 \/ (i + c - 1 \in 1..m /\ t[i] = s[i + c - 1])
      BY <1>1, <1>2, <1>4
    <3>2. j = 1 \/ (j + c - 1 \in 1..m /\ t[j] = s[j + c - 1])
      BY <1>1, <1>2, <1>4
    <3>3. CASE i = 1 \/ j = 1
      BY <1>4, <1>6, <3>1, <3>2, <3>3
    <3>4. CASE i # 1 /\ j # 1
      <4>1. i + c - 1 = j + c - 1
        BY <1>7, <3>1, <3>2, <3>4
      <4> QED
        BY <1>1, <1>2, <4>1
    <3> QED
      BY <3>3, <3>4
  <2> QED
    BY <1>4, <2>1, <2>2 DEF Shows
<1>12. Hides(l, n + 1, t)
  <2>1. ASSUME NEW i \in 1..m PROVE s[i] \in ShadowedTo(l, n) \/ s[i] \in Elements(t)
    <3>1. CASE i <= c
      BY <1>1, <1>2, <3>1
    <3>2. CASE i \in (c + 1)..m
      <4>1. t[i - c + 1] = s[i] /\ i - c + 1 \in 1..Len(t)
        BY <1>1, <1>2, <1>4, <3>2
      <4> QED
        BY <1>10, <4>1
    <3> QED
      BY <1>1, <1>2, <3>1, <3>2
  <2>2. n + 1 \in Elements(t)
    <3>1. 1 \in 1..Len(t)
      BY <1>1, <1>2, <1>4
    <3> QED
      BY <1>4, <1>10, <3>1
  <2>3. \A h \in HistoryTo(l, n) : h \in ShadowedTo(l, n) \/ h \in Elements(t)
    BY <1>10, <1>20, <2>1 DEF Hides
  <2> QED
    BY <1>8, <1>9, <1>20, <2>2, <2>3 DEF Hides
(* The first record kept is no result, so that no call of theirs is lost.   *)
<1>13. ASSUME NEW i \in (c + 1)..m, l[s[i]].kind = "result", NEW k \in 1..2,
              i - k >= 1, l[s[i - k]].kind = "calls"
       PROVE  i - k \in (c + 1)..m
  <2> SUFFICES ASSUME i - k <= c PROVE FALSE
    BY <1>1, <1>2
  <2>1. i - k \in 1..m /\ (c + 1) - (i - k) \in 1..2 /\ (i - k) + ((c + 1) - (i - k)) = c + 1 /\ c + 1 <= m
    BY <1>1, <1>2, <1>13
  <2>2. l[s[c + 1]] = Result(s[i - k], Tools[(c + 1) - (i - k)])
    <3>1. (i - k) + ((c + 1) - (i - k)) <= m
      BY <2>1
    <3>2. l[s[(i - k) + ((c + 1) - (i - k))]] = Result(s[i - k], Tools[(c + 1) - (i - k)])
      BY <1>5, <1>13, <2>1, <3>1
    <3> QED
      BY <2>1, <3>2
  <2>3. l[s[c + 1]].kind = "result"
    BY <2>2 DEF Result
  <2> QED
    BY <1>2, <2>3
<1>14. Grouped(l, t)
  <2>0. \A i \in 1..Len(t) : l[t[i]].kind # "summary" =>
          i + c - 1 \in (c + 1)..m /\ t[i] = s[i + c - 1] /\ i + c - 1 \in 1..m
    <3> SUFFICES ASSUME NEW i \in 1..Len(t), l[t[i]].kind # "summary"
                 PROVE  i + c - 1 \in (c + 1)..m /\ t[i] = s[i + c - 1] /\ i + c - 1 \in 1..m
      OBVIOUS
    <3>1. l[n + 1].kind = "summary"
      OBVIOUS
    <3>2. i # 1
      BY <1>4, <3>1
    <3>3. i + c - 1 \in (c + 1)..m /\ t[i] = s[i + c - 1]
      BY <1>4, <3>2
    <3>4. i + c - 1 \in 1..m
      BY <1>1, <1>2, <3>3
    <3> QED
      BY <3>3, <3>4
  <2>1. ASSUME NEW i \in 1..Len(t), l[t[i]].kind = "calls", NEW k \in 1..2, i + k <= Len(t)
        PROVE  l[t[i + k]] = Result(t[i], Tools[k])
    <3> DEFINE j == i + c - 1
    <3>1. j \in (c + 1)..m /\ t[i] = s[j] /\ j \in 1..m
      BY <2>0, <2>1
    <3>2. j + k \in (c + 1)..m /\ (j + k) - c + 1 = i + k /\ j + k <= m
      BY <1>1, <1>2, <1>4, <2>1, <3>1
    <3> HIDE DEF j
    <3>3. t[i + k] = s[j + k]
      BY <1>4, <3>2
    <3> QED
      BY <1>5, <2>1, <3>1, <3>2, <3>3
  <2>2. ASSUME NEW i \in 1..Len(t), l[t[i]].kind = "result"
        PROVE  \E k \in 1..2 : i - k >= 1 /\ l[t[i - k]].kind = "calls" /\ l[t[i]] = Result(t[i - k], Tools[k])
    <3> DEFINE j == i + c - 1
    <3>1. j \in (c + 1)..m /\ t[i] = s[j] /\ j \in 1..m
      BY <2>0, <2>2
    <3> HIDE DEF j
    <3>2. PICK k \in 1..2 : j - k >= 1 /\ l[s[j - k]].kind = "calls" /\ l[s[j]] = Result(s[j - k], Tools[k])
      BY <1>5, <2>2, <3>1
    <3>3. j - k \in (c + 1)..m
      BY <1>13, <2>2, <3>1, <3>2
    <3>4. t[(j - k) - c + 1] = s[j - k]
      BY <1>4, <3>3
    <3>5. (j - k) - c + 1 = i - k /\ i - k >= 1
      BY <1>1, <1>2, <3>1, <3>3 DEF j
    <3> QED
      BY <3>1, <3>2, <3>4, <3>5
  <2> QED
    BY <2>1, <2>2 DEF Grouped
<1>15. ASSUME NEW q \in 0..m, CompleteBut(l, s, q), q = 0 \/ q > c
       PROVE  CompleteBut(l, t, IF q = 0 THEN 0 ELSE q - c + 1)
  <2> DEFINE r == IF q = 0 THEN 0 ELSE q - c + 1
  <2>1. ASSUME NEW i \in 1..Len(t), l[t[i]].kind = "calls", i # r PROVE i + 2 <= Len(t)
    <3>1. i + c - 1 \in 1..m /\ t[i] = s[i + c - 1]
      BY <1>1, <1>2, <1>4, <2>1
    <3>2. i + c - 1 # q
      BY <1>1, <1>2, <1>15, <2>1, <3>1
    <3>3. (i + c - 1) + 2 <= m
      BY <1>15, <2>1, <3>1, <3>2 DEF CompleteBut, m
    <3> QED
      BY <1>1, <1>2, <1>4, <3>3
  <2> HIDE DEF r
  <2>2. CompleteBut(l, t, r)
    BY <2>1 DEF CompleteBut
  <2> QED
    BY <2>2 DEF r
<1>16. \A d : (NewestCall(l, n + 1, d) <=> NewestCall(l, n, d)) /\ AnswersTo(l, n + 1, d) = AnswersTo(l, n, d)
  <2>1. \A d : AnswersTo(l, n, d) \in Nat /\ AnswersTo(l, n, d) + 0 = AnswersTo(l, n, d)
    BY AnswersMore
  <2>2. \A d : AnswersTo(l, n + 1, d) = AnswersTo(l, n, d)
    BY <2>1, AnswersMore
  <2>3. \A d : (NewestCall(l, n + 1, d) <=> NewestCall(l, n, d))
    BY OneMore
  <2> QED
    BY <2>2, <2>3
<1>17. Lane(l, n + 1, t)
  <2>1. ASSUME Complete(l, s), \A d \in 1..n : NewestCall(l, n, d) => AnswersTo(l, n, d) = 2
        PROVE  Lane(l, n + 1, t)
    <3>1. CompleteBut(l, t, 0)
      <4>1. 0 \in 0..m /\ CompleteBut(l, s, 0)
        BY <1>1, <2>1 DEF Complete
      <4>2. CompleteBut(l, t, IF 0 = 0 THEN 0 ELSE 0 - c + 1)
        BY <1>15, <4>1
      <4> QED
        BY <4>2
    <3>2. \A d : NewestCall(l, n, d) => d \in 1..n
      BY DEF NewestCall
    <3> QED
      BY <1>16, <2>1, <3>1, <3>2 DEF Lane, Complete
  <2>2. ASSUME NEW d \in 1..n, NewestCall(l, n, d), Pending(l, s, d, AnswersTo(l, n, d)), OpenAt(l, n)
        PROVE  Lane(l, n + 1, t)
    <3> DEFINE a == AnswersTo(l, n, d)
               p == m - a
    <3>1. /\ a \in 0..1 /\ p \in 1..m /\ s[p] = d /\ l[d].kind = "calls" /\ CompleteBut(l, s, p) /\ p + a = m
      BY <1>1, <2>2 DEF Pending, m
    <3> HIDE DEF a, p
    <3>2. p > c
      <4> SUFFICES ASSUME p <= c PROVE FALSE
        BY <1>1, <1>2, <3>1
      <4>1. a = 1 /\ p = c /\ c + 1 = m
        BY <1>1, <1>2, <3>1
      <4>2. c \in 1..m /\ 1 \in 1..2 /\ c + 1 <= m /\ l[s[c]].kind = "calls"
        BY <1>2, <3>1, <4>1
      <4>3. l[s[c + 1]] = Result(s[c], Tools[1])
        BY <1>5, <4>2
      <4>4. l[s[c + 1]].kind = "result"
        BY <4>3 DEF Result
      <4> QED
        BY <1>2, <4>4
    <3>3. CompleteBut(l, t, p - c + 1)
      <4>1. p \in 0..m /\ p # 0
        BY <3>1
      <4>2. CompleteBut(l, t, IF p = 0 THEN 0 ELSE p - c + 1)
        BY <1>15, <3>1, <3>2, <4>1
      <4> QED
        BY <4>1, <4>2
    <3>4. Len(t) - a = p - c + 1 /\ p - c + 1 \in 1..Len(t) /\ t[p - c + 1] = d
      <4>1. p \in (c + 1)..m
        BY <1>1, <1>2, <3>1, <3>2
      <4>2. t[p - c + 1] = s[p]
        BY <1>4, <4>1
      <4>3. a \in Int /\ p \in Int /\ Len(t) = m - c + 1
        BY <1>4, <3>1, <4>1
      <4>4. p - c + 1 \in 1..Len(t)
        <5>1. p - c + 1 \in 1..(m - c + 1)
          BY <1>1, <1>2, <4>1
        <5> QED
          BY <4>3, <5>1
      <4>5. Len(t) - a = p - c + 1
        BY <1>1, <1>2, <3>1, <4>3
      <4> QED
        BY <3>1, <4>2, <4>4, <4>5
    <3>5. Pending(l, t, d, a)
      BY <3>1, <3>3, <3>4 DEF Pending
    <3>6. OpenAt(l, n + 1)
      BY <2>2, OneMore
    <3>7. d \in 1..(n + 1)
      OBVIOUS
    <3> QED
      BY <1>16, <2>2, <3>5, <3>6, <3>7 DEF Lane, a
  <2> QED
    BY <1>21, <2>1, <2>2 DEF Lane
<1> QED
  BY <1>3, <1>11, <1>12, <1>14, <1>17, <1>20 DEF Shape

(* What is shown has its shape after each place of a regular log.           *)
LEMMA ShapeStep ==
  ASSUME NEW l, NEW n \in Nat, NEW s, Shape(l, n, s), May(l, n, l[n + 1], s)
  PROVE  Shape(l, n + 1, Apply(s, l[n + 1], n + 1))
<1> DEFINE e == l[n + 1]
<1>1. CASE e.kind \in {"user", "say", "calls", "result"}
  <2>1. Apply(s, e, n + 1) = Append(s, n + 1)
    BY <1>1 DEF Apply
  <2>2. Shape(l, n + 1, Append(s, n + 1))
    BY <1>1, MessageShape, ResultShape
  <2> QED
    BY <2>1, <2>2
<1>2. CASE e.kind = "summary"
  BY <1>2, SummaryShape
<1>3. CASE e.kind \notin History
  <2>1. Apply(s, e, n + 1) = s
    BY <1>3 DEF Apply, History
  <2> QED
    BY <1>3, <2>1, NeutralShape
<1> QED
  BY <1>1, <1>2, <1>3 DEF History

LEMMA ShapeHolds ==
  ASSUME NEW l, IsLog(l), Regular(l)
  PROVE  \A n \in 0..Len(l) : Shape(l, n, Shown(l)[n])
<1> DEFINE S == {n \in 0..Len(l) : Shape(l, n, Shown(l)[n])}
<1>1. Len(l) \in Nat
  BY LogFacts
<1>2. 0 \in S
  <2>1. Shown(l)[0] = <<>> /\ <<>> \in Seq(Nat) /\ Len(<<>>) = 0
    BY ShownFold
  <2>2. \A i : i \notin 1..0
    OBVIOUS
  <2>3. HistoryTo(l, 0) = {} /\ ShadowedTo(l, 0) = {}
    BY <2>2 DEF HistoryTo, ShadowedTo
  <2>4. Shape(l, 0, <<>>)
    BY <2>1, <2>2, <2>3 DEF Shape, Shows, Grouped, Hides, Owned, Lane, Complete, CompleteBut
  <2> QED
    BY <1>1, <2>1, <2>4
<1>3. ASSUME NEW n \in 0..Len(l), n \in S, n < Len(l) PROVE n + 1 \in S
  <2>1. n \in Nat /\ n + 1 \in 1..Len(l) /\ (n + 1) - 1 = n /\ n + 1 \in 0..Len(l)
    BY <1>1, <1>3
  <2>2. May(l, n, l[n + 1], Shown(l)[n])
    <3>1. May(l, (n + 1) - 1, l[n + 1], Shown(l)[(n + 1) - 1])
      BY <2>1 DEF Regular
    <3> QED
      BY <2>1, <3>1
  <2>3. Shown(l)[n + 1] = Apply(Shown(l)[n], l[n + 1], n + 1)
    <3>1. Shown(l)[n + 1] = Apply(Shown(l)[(n + 1) - 1], l[n + 1], n + 1)
      BY <2>1, ShownFold
    <3> QED
      BY <2>1, <3>1
  <2>4. Shape(l, n, Shown(l)[n])
    BY <1>3
  <2> QED
    BY <2>1, <2>2, <2>3, <2>4, ShapeStep
<1> HIDE DEF S
<1>4. 0..Len(l) \subseteq S
  BY <1>1, <1>2, <1>3, Climb
<1> QED
  BY <1>4 DEF S

-----------------------------------------------------------------------------
(* Logs that begin alike show the same there and are judged alike, so that  *)
(* a prefix of a regular log is one, and one record more is judged alone.   *)

LEMMA MayLocal ==
  ASSUME NEW l, NEW m, NEW n \in Nat, \A i \in 1..n : l[i] = m[i], NEW e, NEW s,
         s \in Seq(Nat), Elements(s) \subseteq 1..n, May(l, n, e, s)
  PROVE  May(m, n, e, s)
<1>1. \A i \in 1..Len(s) : s[i] \in 1..n /\ l[s[i]] = m[s[i]]
  BY DEF Elements
<1>2. Complete(l, s) <=> Complete(m, s)
  BY <1>1 DEF Complete, CompleteBut
<1>3. OpenAt(l, n) <=> OpenAt(m, n)
  BY DEF OpenAt
<1>4. \A c : (NewestCall(l, n, c) <=> NewestCall(m, n, c)) /\ AnswersTo(l, n, c) = AnswersTo(m, n, c)
  <2>1. \A c : (NewestCall(l, n, c) <=> NewestCall(m, n, c))
    BY DEF NewestCall
  <2>2. \A c : ResultsOf(l, n, c) = ResultsOf(m, n, c)
    BY DEF ResultsOf
  <2> QED
    BY <2>1, <2>2 DEF AnswersTo
<1>5. ShadowedTo(l, n) = ShadowedTo(m, n)
  <2>1. {j \in 1..n : l[j].kind = "applied"} = {j \in 1..n : m[j].kind = "applied"}
    OBVIOUS
  <2>2. \A h : h \in ShadowedTo(l, n) <=> h \in ShadowedTo(m, n)
    BY <2>1 DEF ShadowedTo
  <2> QED
    BY <2>2
<1>6. ASSUME NEW c \in 1..Len(s), c < Len(s) PROVE l[s[c + 1]] = m[s[c + 1]]
  <2>1. c + 1 \in 1..Len(s)
    BY <1>6
  <2> QED
    BY <1>1, <2>1
<1>7. e.kind \in History \union {"turn", "turnEnd", "start", "applied", "end"}
  BY DEF May
<1>8. e.kind \in {"user", "say", "calls", "turnEnd"} => Complete(m, s)
  BY <1>2 DEF May
<1>9. e.kind = "calls" => OpenAt(m, n)
  BY <1>3 DEF May
<1>10. e.kind = "result" =>
         \E c \in 1..n, a \in 0..1 :
           NewestCall(m, n, c) /\ AnswersTo(m, n, c) = a /\ e = Result(c, Tools[a + 1])
  BY <1>4 DEF May
<1>11. e.kind = "applied" => e.shadowed \subseteq Elements(s)
  BY DEF May
<1>12. e.kind = "summary" =>
         \E c \in 1..Len(s) :
           /\ c < Len(s) /\ s[1] = e.first /\ s[c] = e.last /\ m[s[c + 1]].kind # "result"
           /\ \A i \in 1..c : s[i] \in ShadowedTo(m, n)
  BY <1>5, <1>6 DEF May
<1>13. e.kind = "end" => e.start \in 1..n /\ m[e.start].kind = "start"
  BY DEF May
<1> QED
  BY <1>7, <1>8, <1>9, <1>10, <1>11, <1>12, <1>13 DEF May

Sound(l, s) == IsLog(l) /\ Regular(l) /\ s = Shown(l)[Len(l)]

LEMMA SoundShape ==
  ASSUME NEW l, NEW s, Sound(l, s)
  PROVE  /\ Len(l) \in Nat /\ Shape(l, Len(l), s)
         /\ s \in Seq(Nat) /\ Elements(s) \subseteq 1..Len(l)
         /\ \A i \in 1..Len(s) : s[i] \in 1..Len(l)
<1>1. Len(l) \in Nat /\ Len(l) \in 0..Len(l)
  BY LogFacts DEF Sound
<1>2. Shape(l, Len(l), s)
  BY <1>1, ShapeHolds DEF Sound
<1>3. s \in Seq(Nat) /\ \A i \in 1..Len(s) : s[i] \in 1..Len(l)
  BY <1>2 DEF Shape, Shows, HistoryTo
<1> QED
  BY <1>1, <1>2, <1>3 DEF Elements

LEMMA RegularAlike ==
  ASSUME NEW l, IsLog(l), Regular(l), NEW m, IsLog(m), NEW n \in Nat, n <= Len(l), n <= Len(m),
         \A i \in 1..n : l[i] = m[i]
  PROVE  \A k \in 1..n : May(m, k - 1, m[k], Shown(m)[k - 1])
<1> SUFFICES ASSUME NEW k \in 1..n PROVE May(m, k - 1, m[k], Shown(m)[k - 1])
  OBVIOUS
<1>1. Len(l) \in Nat /\ Len(m) \in Nat
  BY LogFacts
<1>2. /\ k - 1 \in Nat /\ k \in 1..Len(l) /\ k - 1 \in 0..n /\ k - 1 \in 0..Len(l)
      /\ \A i \in 1..(k - 1) : i \in 1..n
  BY <1>1
<1>3. Shown(l)[k - 1] = Shown(m)[k - 1]
  BY <1>2, ShownLocal
<1> DEFINE s == Shown(l)[k - 1]
<1>4. May(l, k - 1, l[k], s)
  BY <1>2 DEF Regular
<1>5. Shape(l, k - 1, s)
  BY <1>2, ShapeHolds
<1> HIDE DEF s
<1>6. s \in Seq(Nat) /\ Elements(s) \subseteq 1..(k - 1)
  BY <1>5 DEF Shape, Shows, HistoryTo, Elements
<1>7. \A i \in 1..(k - 1) : l[i] = m[i]
  BY <1>2
<1>8. May(m, k - 1, l[k], s)
  BY <1>2, <1>4, <1>6, <1>7, MayLocal
<1> QED
  BY <1>3, <1>8 DEF s

LEMMA SoundPrefix ==
  ASSUME NEW l, IsLog(l), Regular(l), NEW k \in 0..Len(l)
  PROVE  Sound(SubSeq(l, 1, k), Shown(l)[k]) /\ Len(SubSeq(l, 1, k)) = k
<1> DEFINE p == SubSeq(l, 1, k)
<1>1. IsLog(p) /\ Len(p) = k /\ (\A i \in 1..k : p[i] = l[i]) /\ Len(l) \in Nat /\ k \in Nat /\ k <= Len(l)
  BY PrefixFacts, LogFacts
<1> HIDE DEF p
<1>2. \A i \in 1..k : l[i] = p[i]
  BY <1>1
<1>3. Regular(p)
  <2>1. k <= Len(p)
    BY <1>1
  <2>2. \A i \in 1..k : May(p, i - 1, p[i], Shown(p)[i - 1])
    BY <1>1, <1>2, <2>1, RegularAlike
  <2> QED
    BY <1>1, <2>2 DEF Regular
<1>4. Shown(l)[k] = Shown(p)[k]
  <2>1. k \in 0..k
    BY <1>1
  <2> QED
    BY <1>1, <1>2, <2>1, ShownLocal
<1> QED
  BY <1>1, <1>3, <1>4 DEF Sound, p

LEMMA SoundAppend ==
  ASSUME NEW l, NEW s, Sound(l, s), NEW e, May(l, Len(l), e, s)
  PROVE  Sound(Append(l, e), Apply(s, e, Len(l) + 1))
<1> DEFINE m == Append(l, e)
           n == Len(l)
<1>1. /\ IsLog(m) /\ Len(m) = n + 1 /\ m[n + 1] = e /\ \A i \in 1..n : m[i] = l[i]
      /\ n \in Nat /\ IsLog(l)
  BY AppendFacts, LogFacts DEF Sound
<1>2. s \in Seq(Nat) /\ Elements(s) \subseteq 1..n
  BY SoundShape
<1>3. May(l, n, e, s) /\ s = Shown(l)[n] /\ Regular(l)
  BY DEF Sound
<1> HIDE DEF m, n
<1>4. \A i \in 1..n : l[i] = m[i]
  BY <1>1
<1>5. n <= Len(m) /\ n <= Len(l) /\ n \in 0..n
  BY <1>1 DEF n
<1>6. Shown(m)[n] = s
  BY <1>1, <1>3, <1>4, <1>5, ShownLocal
<1>7. May(m, n, e, s)
  BY <1>1, <1>2, <1>3, <1>4, MayLocal
<1>8. Regular(m)
  <2>1. \A k \in 1..n : May(m, k - 1, m[k], Shown(m)[k - 1])
    BY <1>1, <1>3, <1>4, <1>5, RegularAlike
  <2>2. (n + 1) - 1 = n /\ \A k \in 1..(n + 1) : k \in 1..n \/ k = n + 1
    BY <1>1
  <2>3. May(m, (n + 1) - 1, m[n + 1], Shown(m)[(n + 1) - 1])
    BY <1>1, <1>6, <1>7, <2>2
  <2> QED
    BY <1>1, <2>1, <2>2, <2>3 DEF Regular
<1>9. Shown(m)[n + 1] = Apply(s, e, n + 1)
  <2>1. n + 1 \in 1..Len(m) /\ (n + 1) - 1 = n
    BY <1>1
  <2>2. Shown(m)[n + 1] = Apply(Shown(m)[(n + 1) - 1], m[n + 1], n + 1)
    BY <1>1, <2>1, ShownFold
  <2> QED
    BY <1>1, <1>6, <2>1, <2>2
<1> QED
  BY <1>1, <1>8, <1>9 DEF Sound, m, n

(* What is written is shown as if it had been from the beginning.           *)
LEMMA ShownOn ==
  ASSUME NEW l, NEW s, Sound(l, s), NEW m, IsLog(m), Len(l) <= Len(m), \A i \in 1..Len(l) : m[i] = l[i]
  PROVE  Surface(s, m, Len(l)) = Shown(m)[Len(m)]
<1> DEFINE n == Len(l)
<1>1. n \in Nat /\ IsLog(l) /\ s = Shown(l)[n] /\ Len(m) \in Nat
  BY LogFacts DEF Sound
<1>2. n <= Len(l) /\ n <= Len(m) /\ n \in 0..n /\ n \in 0..Len(m) /\ \A i \in 1..n : l[i] = m[i]
  BY <1>1
<1> HIDE DEF n
<1>3. Shown(l)[n] = Shown(m)[n]
  BY <1>1, <1>2, ShownLocal
<1>4. Surface(Shown(m)[n], m, n) = Shown(m)[Len(m)]
  BY <1>2, AfterJoins
<1> QED
  BY <1>1, <1>3, <1>4 DEF n

-----------------------------------------------------------------------------
(* One more record: which brackets are open, whether a turn is.             *)

LEMMA OfAppend ==
  ASSUME NEW l, IsLog(l), NEW e, NEW kinds
  PROVE  Of(Append(l, e), kinds) = Of(l, kinds) \union (IF e.kind \in kinds THEN {Len(l) + 1} ELSE {})
<1> DEFINE m == Append(l, e)
           n == Len(l)
<1>1. /\ n \in Nat /\ DOMAIN l = 1..n /\ DOMAIN m = 1..(n + 1) /\ m[n + 1] = e
      /\ \A i \in 1..n : m[i] = l[i]
  BY AppendFacts, LogFacts
<1> HIDE DEF m, n
<1>2. \A i : i \in 1..(n + 1) <=> (i \in 1..n \/ i = n + 1)
  BY <1>1
<1>3. Of(m, kinds) = Of(l, kinds) \union (IF e.kind \in kinds THEN {n + 1} ELSE {})
  BY <1>1, <1>2 DEF Of
<1> QED
  BY <1>3 DEF m, n

(* Every end of a regular log ends a bracket before it.                     *)
LEMMA EndsAfter ==
  ASSUME NEW l, IsLog(l), Regular(l), NEW i \in Of(l, {"end"})
  PROVE  l[i].start \in 1..(i - 1) /\ i \in 1..Len(l) /\ l[l[i].start].kind = "start"
<1>1. i \in 1..Len(l) /\ l[i].kind = "end"
  BY LogFacts DEF Of
<1> QED
  BY <1>1 DEF Regular, May

LEMMA UnpairedAppend ==
  ASSUME NEW l, IsLog(l), Regular(l), NEW e
  PROVE  /\ e.kind \notin {"start", "end"} => Unpaired(Append(l, e)) = Unpaired(l)
         /\ e.kind = "start" => Unpaired(Append(l, e)) = Unpaired(l) \union {Len(l) + 1}
         /\ e.kind = "end" => Unpaired(Append(l, e)) = Unpaired(l) \ {e.start}
<1> DEFINE m == Append(l, e)
           n == Len(l)
<1>1. /\ n \in Nat /\ DOMAIN l = 1..n /\ m[n + 1] = e
      /\ \A i \in 1..n : m[i] = l[i]
  BY AppendFacts, LogFacts
<1>2. /\ Of(m, {"start"}) = Of(l, {"start"}) \union (IF e.kind \in {"start"} THEN {n + 1} ELSE {})
      /\ Of(m, {"end"}) = Of(l, {"end"}) \union (IF e.kind \in {"end"} THEN {n + 1} ELSE {})
  BY OfAppend
<1>3. \A i \in Of(l, {"end"}) : i \in 1..n /\ l[i].start # n + 1 /\ m[i] = l[i]
  <2>1. \A i \in Of(l, {"end"}) : l[i].start \in 1..(i - 1) /\ i \in 1..n
    BY EndsAfter
  <2> QED
    BY <1>1, <2>1
<1>4. n + 1 \notin Of(l, {"start"}) /\ n + 1 \notin 1..n
  BY <1>1 DEF Of
<1> HIDE DEF m, n
<1>5. ASSUME e.kind \notin {"start", "end"} PROVE Unpaired(m) = Unpaired(l)
  <2>1. Of(m, {"start"}) = Of(l, {"start"}) /\ Of(m, {"end"}) = Of(l, {"end"})
    BY <1>2, <1>5
  <2> QED
    BY <1>3, <2>1 DEF Unpaired
<1>6. ASSUME e.kind = "start" PROVE Unpaired(m) = Unpaired(l) \union {n + 1}
  <2>1. Of(m, {"start"}) = Of(l, {"start"}) \union {n + 1} /\ Of(m, {"end"}) = Of(l, {"end"})
    BY <1>2, <1>6
  <2> QED
    BY <1>3, <2>1 DEF Unpaired
<1>7. ASSUME e.kind = "end" PROVE Unpaired(m) = Unpaired(l) \ {e.start}
  <2>1. Of(m, {"start"}) = Of(l, {"start"}) /\ Of(m, {"end"}) = Of(l, {"end"}) \union {n + 1}
    BY <1>2, <1>7
  <2> QED
    BY <1>1, <1>3, <2>1 DEF Unpaired
<1> QED
  BY <1>5, <1>6, <1>7 DEF m, n

LEMMA OpenAppend ==
  ASSUME NEW l, IsLog(l), NEW e
  PROVE  /\ e.kind = "turn" => OpenAt(Append(l, e), Len(l) + 1)
         /\ e.kind = "turnEnd" => ~OpenAt(Append(l, e), Len(l) + 1)
         /\ e.kind \notin {"turn", "turnEnd"} => (OpenAt(Append(l, e), Len(l) + 1) <=> OpenAt(l, Len(l)))
<1> DEFINE m == Append(l, e)
           n == Len(l)
<1>1. n \in Nat /\ m[n + 1] = e /\ \A i \in 1..n : m[i] = l[i]
  BY AppendFacts, LogFacts
<1> HIDE DEF m, n
<1>2. OpenAt(m, n) <=> OpenAt(l, n)
  BY <1>1 DEF OpenAt
<1>3. /\ e.kind = "turn" => OpenAt(m, n + 1)
      /\ e.kind \notin {"turn", "turnEnd"} => (OpenAt(m, n + 1) <=> OpenAt(m, n))
  BY <1>1, OneMore
<1>4. ASSUME e.kind = "turnEnd" PROVE ~OpenAt(m, n + 1)
  <2>1. n + 1 \in 1..(n + 1) /\ \A t \in 1..(n + 1) : ~(n + 1 < t)
    BY <1>1
  <2> QED
    BY <1>1, <1>4, <2>1 DEF OpenAt
<1> QED
  BY <1>2, <1>3, <1>4 DEF m, n

LEMMA OpenTurnIsOpen ==
  ASSUME NEW l, IsLog(l)
  PROVE  OpenTurn(l) <=> OpenAt(l, Len(l))
<1> DEFINE n == Len(l)
           T == Of(l, {"turn"})
<1>1. n \in Nat /\ DOMAIN l = 1..n
  BY LogFacts
<1> HIDE DEF n
<1>2. T \in SUBSET (1..n) /\ (\A i \in 1..n : i \in T <=> l[i].kind = "turn")
      /\ \A i : i \in Of(l, {"turnEnd"}) <=> (i \in 1..n /\ l[i].kind = "turnEnd")
  BY <1>1 DEF Of
<1> HIDE DEF T
<1>3. T # {} => Newest(T) \in T /\ \A j \in T : j <= Newest(T)
  <2>1. T # {} => \E i \in T : \A j \in T : j <= i
    BY <1>1, <1>2, HasLast
  <2> QED
    BY <2>1 DEF Newest
<1>4. ASSUME OpenTurn(l) PROVE OpenAt(l, n)
  <2>1. T # {} /\ \A e \in Of(l, {"turnEnd"}) : e < Newest(T)
    BY <1>4 DEF OpenTurn, T
  <2>2. Newest(T) \in 1..n /\ l[Newest(T)].kind = "turn"
    BY <1>2, <1>3, <2>1
  <2> QED
    BY <1>2, <2>1, <2>2 DEF OpenAt
<1>5. ASSUME OpenAt(l, n) PROVE OpenTurn(l)
  <2>1. PICK t \in 1..n : l[t].kind = "turn" /\ \A e \in 1..n : l[e].kind = "turnEnd" => e < t
    BY <1>5 DEF OpenAt
  <2>2. t \in T /\ t <= Newest(T) /\ Newest(T) \in 1..n
    BY <1>2, <1>3, <2>1
  <2>3. \A e \in Of(l, {"turnEnd"}) : e \in 1..n /\ e < t
    BY <1>2, <2>1
  <2>4. \A e \in Of(l, {"turnEnd"}) : e < Newest(T)
    BY <1>1, <2>2, <2>3
  <2>5. T # {}
    BY <2>2
  <2> QED
    BY <2>4, <2>5 DEF OpenTurn, T
<1> QED
  BY <1>4, <1>5 DEF n

-----------------------------------------------------------------------------
(* What a resume adds: an end for each open bracket, the results the open   *)
(* step's calls still wait for, and the turn's end.                         *)

BracketEnds(l) ==
  [n \in 1..Cardinality(Unpaired(l)) |->
     CompactionEnd(CHOOSE i \in Unpaired(l) : Rank(Unpaired(l), i) = n - 1, "declined")]

LEMMA BracketEndsCover ==
  ASSUME NEW l, IsLog(l)
  PROVE  LET c == BracketEnds(l)
         IN  /\ IsLog(c)
             /\ \A n \in 1..Len(c) : c[n].kind = "end" /\ c[n].start \in Unpaired(l)
             /\ \A i \in Unpaired(l) : \E n \in 1..Len(c) : c[n].start = i
<1> DEFINE open == Unpaired(l)
           nth(n) == CHOOSE i \in open : Rank(open, i) = n - 1
           size == Cardinality(open)
           c == [n \in 1..size |-> CompactionEnd(nth(n), "declined")]
<1>1. open \in SUBSET (1..Len(l)) /\ Len(l) \in Nat
  BY LogFacts DEF Unpaired, Of
<1>2. BracketEnds(l) = c
  BY DEF BracketEnds
<1> HIDE DEF open
<1>3. size \in Nat
  BY <1>1, PlacesAreFinite
<1>4. ASSUME NEW n \in 1..size PROVE nth(n) \in open
  <2>1. \E i \in open : Rank(open, i) = n - 1
    BY <1>1, RanksCover
  <2> QED
    BY <2>1
<1>5. ASSUME NEW i \in open PROVE \E n \in 1..size : nth(n) = i
  <2> DEFINE n == Rank(open, i) + 1
  <2>1. n \in 1..size /\ n - 1 = Rank(open, i)
    <3>1. Rank(open, i) \in Nat /\ Rank(open, i) < size
      BY <1>1, RankBound
    <3> QED
      BY <1>3, <3>1
  <2>2. nth(n) \in open /\ Rank(open, nth(n)) = Rank(open, i)
    BY <2>1
  <2>3. nth(n) = i
    BY <1>1, <2>2, RanksDiffer
  <2> QED
    BY <2>1, <2>3
<1> HIDE DEF nth
<1>6. IsLog(c) /\ Len(c) = size /\ \A n \in 1..size : c[n] = CompactionEnd(nth(n), "declined")
  <2>1. c \in Seq({CompactionEnd(nth(n), "declined") : n \in 1..size})
    BY <1>3, IsASeq
  <2>2. IsLog(c)
    BY <2>1 DEF IsLog
  <2>3. Len(c) = size
    BY <1>3
  <2> QED
    BY <2>2, <2>3
<1>7. \A n \in 1..size : c[n].kind = "end" /\ c[n].start = nth(n)
  BY <1>6 DEF CompactionEnd
<1> HIDE DEF c
<1> QED
  BY <1>2, <1>4, <1>5, <1>6, <1>7 DEF open

LEMMA ClosedBracketsSound ==
  ASSUME NEW l, NEW s, Sound(l, s)
  PROVE  LET m == ClosedBrackets(l)
         IN  Sound(m, s) /\ Unpaired(m) = {} /\ (OpenAt(m, Len(m)) => OpenAt(l, Len(l)))
<1> DEFINE c == BracketEnds(l)
           m == l \o c
           n == Len(l)
<1>1. ClosedBrackets(l) = m
  BY DEF ClosedBrackets, BracketEnds, Rank, Before
<1>2. /\ IsLog(c)
      /\ \A i \in 1..Len(c) : c[i].kind = "end" /\ c[i].start \in Unpaired(l)
      /\ \A i \in Unpaired(l) : \E k \in 1..Len(c) : c[k].start = i
  BY BracketEndsCover DEF Sound
<1>3. /\ IsLog(m) /\ Len(m) = n + Len(c) /\ n \in Nat /\ Len(c) \in Nat /\ IsLog(l)
      /\ \A i \in 1..n : m[i] = l[i]
      /\ \A i \in 1..Len(c) : m[n + i] = c[i]
      /\ \A i \in 1..Len(m) : i > n => i - n \in 1..Len(c) /\ m[i] = c[i - n]
  <2>1. IsLog(l) /\ n \in Nat
    BY LogFacts DEF Sound
  <2> HIDE DEF c
  <2>2. Len(c) \in Nat
    BY <1>2, LogFacts
  <2>3. /\ IsLog(m) /\ Len(m) = n + Len(c)
        /\ \A i \in 1..n : m[i] = l[i]
        /\ \A i \in 1..Len(c) : m[n + i] = c[i]
        /\ \A i \in 1..Len(m) : i > n => i - n \in 1..Len(c) /\ m[i] = c[i - n]
    BY <1>2, <2>1, ConcatFacts
  <2> QED
    BY <2>1, <2>2, <2>3
<1>4. s = Shown(l)[n] /\ Regular(l)
  BY DEF Sound
<1>5. \A i \in Unpaired(l) : i \in 1..n /\ l[i].kind = "start"
  BY <1>3, LogFacts DEF Unpaired, Of
<1> HIDE DEF c, m, n
<1>6. n <= Len(m) /\ n <= Len(l) /\ n \in 0..n /\ \A i \in 1..n : l[i] = m[i]
  BY <1>3 DEF n
<1>7. Shown(m)[n] = s
  BY <1>3, <1>4, <1>6, ShownLocal
<1>8. \A i \in 1..Len(m) : i > n => m[i].kind = "end" /\ m[i].start \in Unpaired(l)
  BY <1>2, <1>3
<1>9. \A k \in 0..Len(c) : Shown(m)[n + k] = s
  <2> DEFINE S == {k \in 0..Len(c) : Shown(m)[n + k] = s}
  <2>1. 0 \in S
    BY <1>3, <1>7
  <2>2. ASSUME NEW k \in 0..Len(c), k \in S, k < Len(c) PROVE k + 1 \in S
    <3>1. n + (k + 1) \in 1..Len(m) /\ (n + (k + 1)) - 1 = n + k /\ n + (k + 1) > n /\ k + 1 \in 0..Len(c)
      BY <1>3, <2>2
    <3>2. Shown(m)[n + (k + 1)] = Apply(Shown(m)[(n + (k + 1)) - 1], m[n + (k + 1)], n + (k + 1))
      BY <1>3, <3>1, ShownFold
    <3>3. m[n + (k + 1)].kind = "end"
      BY <1>8, <3>1
    <3>4. Apply(s, m[n + (k + 1)], n + (k + 1)) = s
      BY <3>3 DEF Apply
    <3> QED
      BY <2>2, <3>1, <3>2, <3>4
  <2> HIDE DEF S
  <2>3. 0..Len(c) \subseteq S
    BY <1>3, <2>1, <2>2, Climb
  <2> QED
    BY <2>3 DEF S
<1>10. Regular(m)
  <2>1. \A k \in 1..n : May(m, k - 1, m[k], Shown(m)[k - 1])
    BY <1>3, <1>4, <1>6, RegularAlike
  <2>2. ASSUME NEW k \in 1..Len(m), k > n PROVE May(m, k - 1, m[k], Shown(m)[k - 1])
    <3>0. m[k].kind = "end" /\ m[k].start \in Unpaired(l)
      BY <1>8, <2>2
    <3>3. m[k].start \in 1..n /\ l[m[k].start].kind = "start"
      BY <1>5, <3>0
    <3>4. m[m[k].start] = l[m[k].start]
      BY <1>3, <3>3
    <3>1. m[k].kind = "end" /\ m[k].start \in 1..n /\ m[m[k].start].kind = "start"
      BY <3>0, <3>3, <3>4
    <3>2. m[k].start \in 1..(k - 1)
      BY <1>3, <2>2, <3>1
    <3> QED
      BY <3>1, <3>2 DEF May
  <2>3. \A k \in 1..Len(m) : k \in 1..n \/ k > n
    BY <1>3
  <2> QED
    BY <2>1, <2>2, <2>3 DEF Regular
<1>11. Shown(m)[Len(m)] = s
  <2>1. Len(c) \in 0..Len(c) /\ n + Len(c) = Len(m)
    BY <1>3
  <2> QED
    BY <1>9, <2>1
<1>12. Unpaired(m) = {}
  <2>0. DOMAIN m = 1..Len(m) /\ DOMAIN l = 1..n
    BY <1>3, LogFacts DEF n
  <2> SUFFICES ASSUME NEW i \in Of(m, {"start"}), \A e \in Of(m, {"end"}) : m[e].start # i PROVE FALSE
    BY DEF Unpaired
  <2>1. i \in 1..Len(m) /\ m[i].kind = "start"
    BY <2>0 DEF Of
  <2>2. i \in 1..n /\ l[i].kind = "start"
    <3>1. ~(i > n)
      BY <1>8, <2>1
    <3>2. i \in 1..n
      BY <1>3, <2>1, <3>1
    <3> QED
      BY <1>3, <2>1, <3>2
  <2>3. i \in Of(l, {"start"})
    BY <2>0, <2>2 DEF Of
  <2>4. CASE i \in Unpaired(l)
    <3>1. PICK k \in 1..Len(c) : c[k].start = i
      BY <1>2, <2>4
    <3>2. n + k \in 1..Len(m) /\ m[n + k] = c[k]
      BY <1>3
    <3>3. n + k \in Of(m, {"end"})
      BY <1>2, <2>0, <3>2 DEF Of
    <3> QED
      BY <3>1, <3>2, <3>3
  <2>5. CASE i \notin Unpaired(l)
    <3>1. PICK e \in Of(l, {"end"}) : l[e].start = i
      BY <2>3, <2>5 DEF Unpaired
    <3>2. e \in 1..n /\ l[e].kind = "end"
      BY <2>0 DEF Of
    <3>3. e \in 1..Len(m) /\ m[e] = l[e]
      BY <1>3, <3>2
    <3>4. e \in Of(m, {"end"})
      BY <2>0, <3>2, <3>3 DEF Of
    <3> QED
      BY <3>1, <3>3, <3>4
  <2> QED
    BY <2>4, <2>5
<1>13. ASSUME OpenAt(m, Len(m)) PROVE OpenAt(l, n)
  <2>1. PICK i \in 1..Len(m) : m[i].kind = "turn" /\ \A e \in 1..Len(m) : m[e].kind = "turnEnd" => e < i
    BY <1>13 DEF OpenAt
  <2>2. ~(i > n)
    BY <1>8, <2>1
  <2>3. i \in 1..n /\ \A e \in 1..n : e \in 1..Len(m)
    BY <1>3, <2>2
  <2> QED
    BY <1>3, <2>1, <2>3 DEF OpenAt
<1> QED
  BY <1>1, <1>3, <1>10, <1>11, <1>12, <1>13 DEF Sound, n

(* A result may be written for the newest call while it has fewer than two. *)
LEMMA AnswersAre ==
  ASSUME NEW l, IsLog(l), NEW c
  PROVE  Answers(l, c) = AnswersTo(l, Len(l), c)
<1>1. Of(l, {"result"}) = {i \in 1..Len(l) : l[i].kind = "result"}
  BY LogFacts DEF Of
<1>2. {i \in Of(l, {"result"}) : l[i].of = c} = ResultsOf(l, Len(l), c)
  BY <1>1 DEF ResultsOf
<1> QED
  BY <1>2 DEF Answers, AnswersTo

LEMMA NewestIs ==
  ASSUME NEW l, IsLog(l)
  PROVE  /\ Of(l, {"calls"}) # {} => NewestCall(l, Len(l), Newest(Of(l, {"calls"})))
         /\ \A c : NewestCall(l, Len(l), c) => Of(l, {"calls"}) # {} /\ Newest(Of(l, {"calls"})) = c
<1> DEFINE C == Of(l, {"calls"})
           n == Len(l)
<1>1. n \in Nat /\ DOMAIN l = 1..n
  BY LogFacts
<1> HIDE DEF n
<1>2. C \in SUBSET (1..n) /\ \A i \in 1..n : i \in C <=> l[i].kind = "calls"
  BY <1>1 DEF Of
<1> HIDE DEF C
<1>3. C # {} => Newest(C) \in C /\ \A j \in C : j <= Newest(C)
  <2>1. C # {} => \E i \in C : \A j \in C : j <= i
    BY <1>1, <1>2, HasLast
  <2> QED
    BY <2>1 DEF Newest
<1>4. C # {} => NewestCall(l, n, Newest(C))
  BY <1>2, <1>3 DEF NewestCall
<1>5. ASSUME NEW c, NewestCall(l, n, c) PROVE C # {} /\ Newest(C) = c
  <2>1. C # {}
    BY <1>2, <1>5 DEF NewestCall
  <2> QED
    BY <1>1, <1>4, <1>5, <2>1, NewestIsOne
<1> QED
  BY <1>4, <1>5 DEF C, n

LEMMA AnswerMay ==
  ASSUME NEW l, NEW s, Sound(l, s), NEW c, NewestCall(l, Len(l), c), NEW a \in 0..1,
         AnswersTo(l, Len(l), c) = a
  PROVE  LET m == Append(l, Result(c, Tools[a + 1]))
         IN  /\ May(l, Len(l), Result(c, Tools[a + 1]), s)
             /\ Sound(m, Append(s, Len(l) + 1)) /\ Len(m) = Len(l) + 1
             /\ NewestCall(m, Len(m), c) /\ AnswersTo(m, Len(m), c) = a + 1
             /\ Unpaired(m) = Unpaired(l)
             /\ OpenAt(m, Len(m)) <=> OpenAt(l, Len(l))
             /\ OpenAt(l, Len(l))
<1> DEFINE e == Result(c, Tools[a + 1])
           m == Append(l, e)
           n == Len(l)
<1>1. e.kind = "result" /\ e.of = c
  BY DEF Result
<1>2. c \in 1..n /\ IsLog(l) /\ Regular(l)
  BY DEF NewestCall, Sound
<1>3. May(l, n, e, s)
  BY <1>1, <1>2 DEF May, History
<1>4. Apply(s, e, n + 1) = Append(s, n + 1)
  BY <1>1 DEF Apply
<1>5. Sound(m, Append(s, n + 1))
  BY <1>3, <1>4, SoundAppend
<1>6. /\ Len(m) = n + 1 /\ n \in Nat /\ m[n + 1] = e /\ \A i \in 1..n : m[i] = l[i]
  BY <1>2, AppendFacts, LogFacts
<1>7. Unpaired(m) = Unpaired(l)
  BY <1>1, <1>2, UnpairedAppend
<1>8. OpenAt(m, n + 1) <=> OpenAt(l, n)
  BY <1>1, <1>2, OpenAppend
<1> HIDE DEF e, m, n
<1>9. NewestCall(m, n, c)
  <2>1. NewestCall(l, n, c)
    BY DEF n
  <2> QED
    BY <1>6, <2>1 DEF NewestCall
<1>10. AnswersTo(m, n, c) = a
  <2>1. ResultsOf(m, n, c) = ResultsOf(l, n, c)
    BY <1>6 DEF ResultsOf
  <2>2. AnswersTo(l, n, c) = a
    BY DEF n
  <2> QED
    BY <2>1, <2>2 DEF AnswersTo
<1>11. NewestCall(m, n + 1, c)
  <2>1. NewestCall(m, n + 1, c) <=> IF m[n + 1].kind = "calls" THEN c = n + 1 ELSE NewestCall(m, n, c)
    BY <1>6, OneMore
  <2> QED
    BY <1>1, <1>6, <1>9, <2>1
<1>12. AnswersTo(m, n + 1, c) = a + 1
  <2>1. AnswersTo(m, n + 1, c) =
          AnswersTo(m, n, c) + (IF m[n + 1].kind = "result" /\ m[n + 1].of = c THEN 1 ELSE 0)
    BY <1>6, AnswersMore
  <2> QED
    BY <1>1, <1>6, <1>10, <2>1
<1>13. OpenAt(l, n)
  <2>1. Lane(l, n, s)
    BY SoundShape DEF Shape, n
  <2>2. NewestCall(l, n, c) /\ AnswersTo(l, n, c) # 2
    BY DEF n
  <2> QED
    BY <1>2, <2>1, <2>2 DEF Lane, n
<1> QED
  BY <1>3, <1>5, <1>6, <1>7, <1>8, <1>11, <1>12, <1>13 DEF e, m, n

(* Where no turn is open, or the newest call is answered, all is complete.  *)
LEMMA AllComplete ==
  ASSUME NEW l, NEW s, Sound(l, s),
         ~OpenAt(l, Len(l)) \/ (\A c : NewestCall(l, Len(l), c) => AnswersTo(l, Len(l), c) = 2)
  PROVE  Complete(l, s)
<1> DEFINE n == Len(l)
<1>1. Lane(l, n, s)
  BY SoundShape DEF Shape
<1>2. \A c, a : Pending(l, s, c, a) => a \in 0..1
  BY DEF Pending
<1> QED
  BY <1>1, <1>2 DEF Lane

LEMMA EndMay ==
  ASSUME NEW l, NEW s, Sound(l, s), Complete(l, s)
  PROVE  LET m == Append(l, TurnEnd)
         IN  /\ May(l, Len(l), TurnEnd, s)
             /\ Sound(m, s) /\ Unpaired(m) = Unpaired(l) /\ ~OpenAt(m, Len(m))
<1> DEFINE m == Append(l, TurnEnd)
           n == Len(l)
<1>1. TurnEnd.kind = "turnEnd"
  BY DEF TurnEnd
<1>2. IsLog(l) /\ Regular(l)
  BY DEF Sound
<1>3. May(l, n, TurnEnd, s) /\ Apply(s, TurnEnd, n + 1) = s
  BY <1>1 DEF May, Apply
<1>4. Sound(m, s)
  <2>1. Sound(m, Apply(s, TurnEnd, n + 1))
    BY <1>3, SoundAppend
  <2> QED
    BY <1>3, <2>1
<1>5. Unpaired(m) = Unpaired(l)
  BY <1>1, <1>2, UnpairedAppend
<1>6. ~OpenAt(m, n + 1) /\ Len(m) = n + 1
  BY <1>1, <1>2, OpenAppend, AppendFacts
<1> QED
  BY <1>3, <1>4, <1>5, <1>6

LEMMA ClosedTurnSound ==
  ASSUME NEW l, NEW s, Sound(l, s)
  PROVE  LET m == ClosedTurn(l)
         IN  (\E t : Sound(m, t)) /\ Unpaired(m) = Unpaired(l) /\ ~OpenAt(m, Len(m))
<1> DEFINE calls == Of(l, {"calls"})
           answers == IF calls = {} THEN Len(Tools) ELSE Answers(l, Newest(calls))
           n == Len(l)
           Written(k) == [i \in 1..k |-> Result(Newest(calls), Tools[answers + i])]
           c == Newest(calls)
<1>1. IsLog(l) /\ (OpenTurn(l) <=> OpenAt(l, n)) /\ Len(Tools) = 2
  BY OpenTurnIsOpen, ToolsAreTwo DEF Sound
<1>2. CASE ~OpenTurn(l)
  <2>1. ClosedTurn(l) = l
    BY <1>2 DEF ClosedTurn
  <2> QED
    BY <1>1, <1>2, <2>1
<1>3. CASE OpenTurn(l)
  <2>1. ClosedTurn(l) = l \o Written(2 - answers) \o <<TurnEnd>>
    BY <1>1, <1>3 DEF ClosedTurn
  <2>2. calls # {} => NewestCall(l, n, c) /\ answers = AnswersTo(l, n, c)
    <3>1. calls # {} => NewestCall(l, n, c)
      BY <1>1, NewestIs
    <3>2. calls # {} => answers = AnswersTo(l, n, c)
      BY <1>1, AnswersAre
    <3> QED
      BY <3>1, <3>2
  <2>3. \A d : NewestCall(l, n, d) => calls # {} /\ c = d
    BY <1>1, NewestIs
  <2>4. answers = 2 \/ (calls # {} /\ answers \in 0..1)
    <3>1. CASE calls = {}
      BY <1>1, <3>1
    <3>2. CASE calls # {}
      <4>1. Lane(l, n, s)
        BY SoundShape DEF Shape
      <4>2. \A d, a : Pending(l, s, d, a) => a \in 0..1
        BY DEF Pending
      <4>3. c \in 1..n
        BY <2>2, <3>2 DEF NewestCall
      <4> HIDE DEF answers, c, calls, n
      <4> QED
        BY <2>2, <2>3, <3>2, <4>1, <4>2, <4>3 DEF Lane
    <3> QED
      BY <3>1, <3>2
  <2> HIDE DEF c, calls, answers, n
  <2>5. CASE answers = 2
    <3>1. Written(2 - answers) = <<>>
      BY <2>5
    <3>2. l \o <<>> \o <<TurnEnd>> = Append(l, TurnEnd)
      BY <1>1, AppendAsConcat
    <3>3. Complete(l, s)
      BY <2>2, <2>3, <2>5, AllComplete DEF n
    <3> QED
      BY <2>1, <3>1, <3>2, <3>3, EndMay
  <2>6. CASE calls # {} /\ answers = 1
    <3> DEFINE r == Result(c, Tools[1 + 1])
               m == Append(l, r)
               t == Append(s, n + 1)
    <3>1. Written(2 - answers) = <<r>>
      BY <2>6 DEF c
    <3>2. l \o <<r>> = m
      BY <1>1, AppendAsConcat
    <3>3. NewestCall(l, Len(l), c) /\ 1 \in 0..1 /\ AnswersTo(l, Len(l), c) = 1
      BY <2>2, <2>6 DEF n
    <3>4. /\ Sound(m, t) /\ NewestCall(m, Len(m), c) /\ AnswersTo(m, Len(m), c) = 1 + 1
          /\ Unpaired(m) = Unpaired(l)
      BY <3>3, AnswerMay DEF n
    <3> HIDE DEF r, m, t
    <3>5. Complete(m, t)
      <4>1. IsLog(m)
        BY <3>4 DEF Sound
      <4>2. \A d : NewestCall(m, Len(m), d) => d = c
        BY <3>4, <4>1, LogFacts, NewestIsOne
      <4> QED
        BY <3>4, <4>2, AllComplete
    <3>6. m \o <<TurnEnd>> = Append(m, TurnEnd)
      BY <3>4, AppendAsConcat DEF Sound
    <3> QED
      BY <2>1, <3>1, <3>2, <3>4, <3>5, <3>6, EndMay
  <2>7. CASE calls # {} /\ answers = 0
    <3> DEFINE r == Result(c, Tools[0 + 1])
               r2 == Result(c, Tools[1 + 1])
               m == Append(l, r)
               t == Append(s, n + 1)
               m2 == Append(m, r2)
               t2 == Append(t, Len(m) + 1)
    <3>1. Written(2 - answers) = <<r, r2>>
      BY <2>7 DEF c
    <3>3. NewestCall(l, Len(l), c) /\ 0 \in 0..1 /\ AnswersTo(l, Len(l), c) = 0
      BY <2>2, <2>7 DEF n
    <3>4. /\ Sound(m, t) /\ NewestCall(m, Len(m), c) /\ AnswersTo(m, Len(m), c) = 0 + 1
          /\ Unpaired(m) = Unpaired(l)
      BY <3>3, AnswerMay DEF n
    <3>5. 1 \in 0..1 /\ AnswersTo(m, Len(m), c) = 1
      BY <3>4
    <3> HIDE DEF m, t, r
    <3>6. /\ Sound(m2, t2) /\ NewestCall(m2, Len(m2), c) /\ AnswersTo(m2, Len(m2), c) = 1 + 1
          /\ Unpaired(m2) = Unpaired(m)
      BY <3>4, <3>5, AnswerMay
    <3>2. l \o <<r, r2>> = m2
      <4> HIDE DEF r2
      <4>1. IsLog(<<r, r2>>) /\ Len(<<r, r2>>) = 2 /\ <<r, r2>>[1] = r /\ <<r, r2>>[2] = r2
        <5>1. <<r, r2>> \in Seq({r, r2})
          OBVIOUS
        <5> QED
          BY <5>1 DEF IsLog
      <4> DEFINE w == <<r, r2>>
      <4> HIDE DEF w
      <4>2. /\ IsLog(l \o w) /\ Len(l \o w) = Len(l) + Len(w)
            /\ \A i \in 1..Len(l) : (l \o w)[i] = l[i]
            /\ \A i \in 1..Len(w) : (l \o w)[Len(l) + i] = w[i]
        BY <1>1, <4>1, ConcatFacts DEF w
      <4>3. Len(w) = 2 /\ w[1] = r /\ w[2] = r2 /\ Len(l) \in Nat
        BY <1>1, <4>1, LogFacts DEF w
      <4>4. IsLog(m) /\ Len(m) = Len(l) + 1 /\ m[Len(l) + 1] = r /\ \A i \in 1..Len(l) : m[i] = l[i]
        BY <1>1, AppendFacts DEF m
      <4>5. IsLog(m2) /\ Len(m2) = Len(m) + 1 /\ m2[Len(m) + 1] = r2 /\ \A i \in 1..Len(m) : m2[i] = m[i]
        BY <4>4, AppendFacts
      <4> HIDE DEF m2
      <4>6. \A i \in 1..Len(m2) : (l \o w)[i] = m2[i]
        <5> SUFFICES ASSUME NEW i \in 1..Len(m2) PROVE (l \o w)[i] = m2[i]
          OBVIOUS
        <5>1. i \in 1..Len(l) \/ i = Len(l) + 1 \/ i = Len(l) + 2
          BY <4>3, <4>4, <4>5
        <5>2. CASE i \in 1..Len(l)
          <6>1. i \in 1..Len(m)
            BY <4>3, <4>4, <5>2
          <6> QED
            BY <4>2, <4>4, <4>5, <5>2, <6>1
        <5>3. CASE i = Len(l) + 1
          <6>1. i \in 1..Len(m) /\ 1 \in 1..Len(w)
            BY <4>3, <4>4, <5>3
          <6> QED
            BY <4>2, <4>3, <4>4, <4>5, <5>3, <6>1
        <5>4. CASE i = Len(l) + 2
          <6>1. i = Len(m) + 1 /\ 2 \in 1..Len(w)
            BY <4>3, <4>4, <5>4
          <6> QED
            BY <4>2, <4>3, <4>5, <5>4, <6>1
        <5> QED
          BY <5>1, <5>2, <5>3, <5>4
      <4>7. Len(l \o w) = Len(m2)
        BY <4>2, <4>3, <4>4, <4>5
      <4>8. l \o w = m2
        BY <4>2, <4>5, <4>6, <4>7, EqualLogs
      <4> QED
        BY <4>8 DEF w
    <3> HIDE DEF m2, t2, r2
    <3>7. Complete(m2, t2)
      <4>1. IsLog(m2)
        BY <3>6 DEF Sound
      <4>2. \A d : NewestCall(m2, Len(m2), d) => d = c
        BY <3>6, <4>1, LogFacts, NewestIsOne
      <4> QED
        BY <3>6, <4>2, AllComplete
    <3>8. m2 \o <<TurnEnd>> = Append(m2, TurnEnd)
      BY <3>6, AppendAsConcat DEF Sound
    <3> QED
      BY <2>1, <3>1, <3>2, <3>4, <3>6, <3>7, <3>8, EndMay
  <2> QED
    BY <2>4, <2>5, <2>6, <2>7
<1> QED
  BY <1>2, <1>3

-----------------------------------------------------------------------------
(* What holds in every state of a session: its log is regular and the       *)
(* surface is what it shows; a request in flight was built from the         *)
(* surface; every call is answered but while a step's tools run; a turn is  *)
(* open while the agent runs; an attempt of a turn holds it where it waits, *)
(* a person's began idle, and its plan stays a beginning of the surface.    *)

Places ==
  {"idle", "pre", "boundary", "entering", "asking", "streaming", "recovering", "waiting",
   "tools", "stopping", "stopped", "ending"}
Holds(host) ==
  CASE host = "step" -> "boundary" [] host = "stop" -> "stopping" [] OTHER -> "recovering"
OfTurns == {"step", "stop", "request"}

TurnType ==
  [at : Places, step : Nat, retries : Nat, overflows : Nat, aborted : BOOLEAN, seen : Seq(Nat)]
AttemptType ==
  [phase : {"none", "planning", "summarising"}, host : {"none", "person"} \union OfTurns,
   status : {"idle", "running"}, plan : Seq(Nat), start : Nat]

Answered(l) == \A c : NewestCall(l, Len(l), c) => AnswersTo(l, Len(l), c) = 2

TurnSound(t, l, s) ==
  /\ t \in TurnType
  /\ t.at = "streaming" => t.seen = s
  /\ t.at # "streaming" => t.seen = <<>>
  /\ t.at # "tools" => Answered(l)
  /\ t.at = "tools" =>
       \E c : NewestCall(l, Len(l), c) /\ AnswersTo(l, Len(l), c) \in 0..1
  /\ t.at # "idle" <=> OpenAt(l, Len(l))

PlanSound(plan, l, s) ==
  \E c \in 1..Len(s) :
    c < Len(s) /\ plan = SubSeq(s, 1, c) /\ l[s[c + 1]].kind # "result"

AttemptSound(a, t, l, s) ==
  /\ a \in AttemptType
  /\ a.phase # "none" =>
       \/ a.host = "person" /\ a.status = "idle"
       \/ a.host \in OfTurns /\ a.status = "running" /\ t.at = Holds(a.host)
  /\ a.phase = "summarising" => PlanSound(a.plan, l, s)

Paired(a, l) == Unpaired(l) = IF a.phase = "summarising" THEN {a.start} ELSE {}

CInv ==
  /\ Sound(events, surface)
  /\ TurnSound(turn, events, surface)
  /\ AttemptSound(attempt, turn, events, surface)
  /\ Paired(attempt, events)

LEMMA HoldsWhere ==
  ASSUME NEW host \in OfTurns
  PROVE  /\ Holds(host) \in {"boundary", "stopping", "recovering"}
         /\ host = "step" => Holds(host) = "boundary"
         /\ host = "stop" => Holds(host) = "stopping"
         /\ host = "request" => Holds(host) = "recovering"
BY DEF Holds, OfTurns

(* Every call shown has its results exactly when the newest one has.        *)
LEMMA CompleteIsAnswered ==
  ASSUME NEW l, NEW s, Sound(l, s)
  PROVE  Complete(l, s) <=> Answered(l)
<1> DEFINE n == Len(l)
<1>1. n \in Nat /\ Shape(l, n, s)
  BY SoundShape
<1>2. Complete(l, s) => \A c \in 1..n : NewestCall(l, n, c) => AnswersTo(l, n, c) = 2
  BY <1>1, CompleteLane
<1>3. \A c : NewestCall(l, n, c) => c \in 1..n
  BY DEF NewestCall
<1>4. Answered(l) => Complete(l, s)
  BY AllComplete DEF Answered
<1> QED
  BY <1>2, <1>3, <1>4 DEF Answered

(* A record that is no call and no result leaves the calls as answered as   *)
(* they were.                                                               *)
LEMMA AnsweredAppend ==
  ASSUME NEW l, IsLog(l), NEW e, e.kind \notin {"calls", "result"}
  PROVE  LET m == Append(l, e)
         IN  /\ \A c : NewestCall(m, Len(m), c) <=> NewestCall(l, Len(l), c)
             /\ \A c : AnswersTo(m, Len(m), c) = AnswersTo(l, Len(l), c)
             /\ Answered(m) <=> Answered(l)
<1> DEFINE m == Append(l, e)
           n == Len(l)
<1>1. n \in Nat /\ Len(m) = n + 1 /\ m[n + 1] = e /\ \A i \in 1..n : m[i] = l[i]
  BY AppendFacts, LogFacts
<1> HIDE DEF m
<1>2. \A c : NewestCall(m, n + 1, c) <=> NewestCall(l, n, c)
  <2>1. \A c : NewestCall(m, n + 1, c) <=> IF m[n + 1].kind = "calls" THEN c = n + 1 ELSE NewestCall(m, n, c)
    BY <1>1, OneMore
  <2>2. \A c : NewestCall(m, n, c) <=> NewestCall(l, n, c)
    BY <1>1 DEF NewestCall
  <2> QED
    BY <1>1, <2>1, <2>2
<1>3. \A c : AnswersTo(m, n + 1, c) = AnswersTo(l, n, c)
  <2> SUFFICES ASSUME NEW c PROVE AnswersTo(m, n + 1, c) = AnswersTo(l, n, c)
    OBVIOUS
  <2>1. AnswersTo(m, n, c) \in Nat /\ AnswersTo(m, n + 1, c) =
          AnswersTo(m, n, c) + (IF m[n + 1].kind = "result" /\ m[n + 1].of = c THEN 1 ELSE 0)
    BY <1>1, AnswersMore
  <2>2. ResultsOf(m, n, c) = ResultsOf(l, n, c)
    BY <1>1 DEF ResultsOf
  <2>3. AnswersTo(m, n, c) = AnswersTo(l, n, c)
    BY <2>2 DEF AnswersTo
  <2> QED
    BY <1>1, <2>1, <2>3
<1> QED
  BY <1>1, <1>2, <1>3 DEF Answered, m

(* A plan made stays one: what is shown after it only grows.                *)
LEMMA PlanStays ==
  ASSUME NEW l, NEW s, Sound(l, s), NEW e, NEW plan, PlanSound(plan, l, s)
  PROVE  /\ PlanSound(plan, Append(l, e), s)
         /\ PlanSound(plan, Append(l, e), Append(s, Len(l) + 1))
<1> DEFINE m == Append(l, e)
           t == Append(s, Len(l) + 1)
<1>1. s \in Seq(Nat) /\ Len(l) + 1 \in Nat /\ \A i \in 1..Len(s) : s[i] \in 1..Len(l)
  BY SoundShape
<1>2. \A i \in 1..Len(l) : m[i] = l[i]
  BY AppendFacts DEF Sound
<1>3. t \in Seq(Nat) /\ Len(t) = Len(s) + 1 /\ Len(s) \in Nat /\ \A i \in 1..Len(s) : t[i] = s[i]
  BY <1>1, AtEnd
<1>4. PICK c \in 1..Len(s) : c < Len(s) /\ plan = SubSeq(s, 1, c) /\ l[s[c + 1]].kind # "result"
  BY DEF PlanSound
<1> HIDE DEF m, t
<1>5. c + 1 \in 1..Len(s) /\ c \in 1..Len(t) /\ c < Len(t)
  BY <1>3, <1>4
<1>6. m[s[c + 1]] = l[s[c + 1]] /\ t[c + 1] = s[c + 1]
  BY <1>1, <1>2, <1>3, <1>5
<1>7. SubSeq(t, 1, c) = SubSeq(s, 1, c)
  <2>1. IsLog(t) /\ IsLog(s) /\ c \in 0..Len(t) /\ c \in 0..Len(s)
    BY <1>1, <1>3, <1>5 DEF IsLog
  <2>2. IsLog(SubSeq(t, 1, c)) /\ Len(SubSeq(t, 1, c)) = c /\ \A i \in 1..c : SubSeq(t, 1, c)[i] = t[i]
    BY <2>1, PrefixFacts
  <2>3. IsLog(SubSeq(s, 1, c)) /\ Len(SubSeq(s, 1, c)) = c /\ \A i \in 1..c : SubSeq(s, 1, c)[i] = s[i]
    BY <2>1, PrefixFacts
  <2>4. \A i \in 1..c : t[i] = s[i]
    BY <1>3, <1>5
  <2> QED
    BY <2>2, <2>3, <2>4, EqualLogs
<1>8. PlanSound(plan, m, s)
  BY <1>4, <1>6 DEF PlanSound
<1>9. PlanSound(plan, m, t)
  BY <1>4, <1>5, <1>6, <1>7 DEF PlanSound
<1> QED
  BY <1>8, <1>9 DEF m, t

LEMMA AppendTwo ==
  ASSUME NEW l, IsLog(l), NEW a, NEW b
  PROVE  l \o <<a, b>> = Append(Append(l, a), b)
<1> PICK S : l \in Seq(S)
  BY DEF IsLog
<1> DEFINE T == S \union {a, b}
<1>1. l \in Seq(T) /\ <<a>> \in Seq(T) /\ <<b>> \in Seq(T) /\ <<a>> \o <<b>> = <<a, b>>
  <2>1. l \in Seq(T)
    BY SeqMonotonic
  <2>2. <<a>> \in Seq(T) /\ <<b>> \in Seq(T)
    OBVIOUS
  <2>3. <<a>> \o <<b>> = <<a, b>>
    <3> DEFINE x == <<a>>
               y == <<a, b>>
    <3>1. x \in Seq(T) /\ y \in Seq(T) /\ b \in T /\ Len(x) = 1 /\ x[1] = a
          /\ Len(y) = 2 /\ y[1] = a /\ y[2] = b
      OBVIOUS
    <3> HIDE DEF x, y, T
    <3>2. IsLog(x) /\ IsLog(y)
      BY <3>1 DEF IsLog
    <3>3. /\ IsLog(Append(x, b)) /\ Len(Append(x, b)) = Len(x) + 1
          /\ Append(x, b)[Len(x) + 1] = b /\ \A i \in 1..Len(x) : Append(x, b)[i] = x[i]
      BY <3>2, AppendFacts
    <3>4. \A i \in 1..2 : Append(x, b)[i] = y[i]
      BY <3>1, <3>3
    <3>5. Append(x, b) = y
      BY <3>1, <3>2, <3>3, <3>4, EqualLogs
    <3>6. x \o <<b>> = Append(x, b)
      BY <3>2, AppendAsConcat
    <3> QED
      BY <3>5, <3>6 DEF x, y
  <2> QED
    BY <2>1, <2>2, <2>3
<1> HIDE DEF T
<1>2. (l \o <<a>>) \o <<b>> = l \o (<<a>> \o <<b>>)
  BY <1>1, ConcatAssociative
<1>3. l \o <<a>> = Append(l, a) /\ IsLog(Append(l, a))
  BY AppendAsConcat, AppendFacts
<1>4. Append(l, a) \o <<b>> = Append(Append(l, a), b)
  BY <1>3, AppendAsConcat
<1> QED
  BY <1>1, <1>2, <1>3, <1>4

LEMMA AppendThree ==
  ASSUME NEW l, IsLog(l), NEW a, NEW b, NEW c
  PROVE  l \o <<a, b, c>> = Append(Append(Append(l, a), b), c)
<1> PICK S : l \in Seq(S)
  BY DEF IsLog
<1> DEFINE T == S \union {a, b, c}
<1>1. l \in Seq(T) /\ <<a, b>> \in Seq(T) /\ <<c>> \in Seq(T) /\ <<a, b>> \o <<c>> = <<a, b, c>>
  <2>1. l \in Seq(T)
    BY SeqMonotonic
  <2>2. <<a, b>> \in Seq(T) /\ <<c>> \in Seq(T)
    OBVIOUS
  <2>3. <<a, b>> \o <<c>> = <<a, b, c>>
    <3> DEFINE x == <<a, b>>
               y == <<a, b, c>>
    <3>1. x \in Seq(T) /\ y \in Seq(T) /\ Len(x) = 2 /\ x[1] = a /\ x[2] = b
          /\ Len(y) = 3 /\ y[1] = a /\ y[2] = b /\ y[3] = c
      OBVIOUS
    <3> HIDE DEF x, y, T
    <3>2. IsLog(x) /\ IsLog(y)
      BY <3>1 DEF IsLog
    <3>3. /\ IsLog(Append(x, c)) /\ Len(Append(x, c)) = Len(x) + 1
          /\ Append(x, c)[Len(x) + 1] = c /\ \A i \in 1..Len(x) : Append(x, c)[i] = x[i]
      BY <3>2, AppendFacts
    <3>4. \A i \in 1..3 : Append(x, c)[i] = y[i]
      BY <3>1, <3>3
    <3>5. Append(x, c) = y
      BY <3>1, <3>2, <3>3, <3>4, EqualLogs
    <3>6. x \o <<c>> = Append(x, c)
      BY <3>2, AppendAsConcat
    <3> QED
      BY <3>5, <3>6 DEF x, y
  <2> QED
    BY <2>1, <2>2, <2>3
<1> HIDE DEF T
<1>2. (l \o <<a, b>>) \o <<c>> = l \o (<<a, b>> \o <<c>>)
  BY <1>1, ConcatAssociative
<1>3. l \o <<a, b>> = Append(Append(l, a), b) /\ IsLog(Append(l, a))
  BY AppendTwo, AppendFacts
<1>4. IsLog(Append(Append(l, a), b))
  BY <1>3, AppendFacts
<1>5. Append(Append(l, a), b) \o <<c>> = Append(Append(Append(l, a), b), c)
  BY <1>4, AppendAsConcat
<1> QED
  BY <1>1, <1>2, <1>3, <1>5

\* The same for any three records.
LEMMA AppendThreeAll ==
  ASSUME NEW l, IsLog(l)
  PROVE  \A x, y, z : l \o <<x, y, z>> = Append(Append(Append(l, x), y), z)
<1> SUFFICES ASSUME NEW x, NEW y, NEW z
             PROVE  l \o <<x, y, z>> = Append(Append(Append(l, x), y), z)
  OBVIOUS
<1> QED
  BY AppendThree

(* A plan made from the surface is a beginning of it that leaves something, *)
(* and what it leaves begins with no result.                                *)
LEMMA PlanIsSound ==
  ASSUME NEW l, NEW s, Sound(l, s), NEW plan, plan \in planCompaction(l, s)
  PROVE  PlanSound(plan, l, s) /\ plan \in Seq(Nat)
<1> DEFINE m == Len(s)
<1>1. m \in Nat /\ s \in Seq(Nat)
  BY SoundShape
<1>2. PICK cut \in Tails(s) : plan = SubSeq(s, 1, Cut(l, s, cut)) /\ Cut(l, s, cut) >= MinShadowed
  BY DEF planCompaction
<1>3. cut \in 0..(m - 1)
  BY <1>2 DEF Tails
<1> DEFINE forward == {c \in cut..(m - 1) : c = 0 \/ ~IsToolResult(l, s[c + 1])}
           back == {c \in 0..cut : c = 0 \/ ~IsToolResult(l, s[c + 1])}
           d == Cut(l, s, cut)
<1>4. d = IF forward # {} THEN Oldest(forward) ELSE Newest(back)
  BY DEF Cut
<1>5. forward # {} => Oldest(forward) \in forward
  <2> SUFFICES ASSUME forward # {} PROVE Oldest(forward) \in forward
    OBVIOUS
  <2>1. forward \subseteq Nat
    BY <1>1, <1>3
  <2> HIDE DEF forward
  <2>2. PICK x \in forward : \A y \in forward : <<y, x>> \notin OpToRel(<, Nat)
    BY <2>1, WFMin, NatLessThanWellFounded
  <2>3. \A y \in forward : ~(y < x)
    BY <2>1, <2>2 DEF OpToRel
  <2>4. \A y \in forward : x <= y
    BY <2>1, <2>3
  <2> QED
    BY <2>2, <2>4 DEF Oldest
<1>6. Newest(back) \in back
  <2>1. 0 \in back
    BY <1>3
  <2> DEFINE B == back \ {0}
  <2>2. B \in SUBSET (1..cut) /\ cut \in Nat
    BY <1>3
  <2>3. \E i \in back : \A j \in back : j <= i
    <3>1. CASE B = {}
      <4>1. \A j \in back : j <= 0
        BY <3>1
      <4> QED
        BY <2>1, <4>1
    <3>2. CASE B # {}
      <4> HIDE DEF B
      <4>1. PICK i \in B : \A j \in B : j <= i
        BY <2>2, <3>2, HasLast
      <4>2. i \in 1..cut
        BY <2>2, <4>1
      <4>3. \A j \in back : j = 0 \/ j \in B
        BY DEF B
      <4>4. \A j \in back : j <= i
        BY <4>1, <4>2, <4>3
      <4>5. i \in back
        BY <4>1 DEF B
      <4> QED
        BY <4>4, <4>5
    <3> QED
      BY <3>1, <3>2
  <2> HIDE DEF back
  <2> QED
    BY <2>3 DEF Newest
<1>7. d \in 0..(m - 1) /\ (d = 0 \/ ~IsToolResult(l, s[d + 1]))
  <2>1. CASE forward # {}
    <3>1. d \in forward
      BY <1>4, <1>5, <2>1
    <3> HIDE DEF d
    <3> QED
      BY <1>1, <1>3, <3>1
  <2>2. CASE forward = {}
    <3>1. d \in back
      BY <1>4, <1>6, <2>2
    <3> HIDE DEF d
    <3> QED
      BY <1>1, <1>3, <3>1
  <2> QED
    BY <2>1, <2>2
<1>8. d >= 2 /\ plan = SubSeq(s, 1, d)
  BY <1>2 DEF MinShadowed
<1> HIDE DEF d
<1>9. d \in 1..m /\ d < m /\ l[s[d + 1]].kind # "result"
  BY <1>1, <1>7, <1>8 DEF IsToolResult
<1>10. plan \in Seq(Nat)
  BY <1>1, <1>8, <1>9
<1> QED
  BY <1>8, <1>9, <1>10 DEF PlanSound

(* What a step writes.                                                      *)
LEMMA WriteOne ==
  ASSUME Sound(events, surface), NEW e, Write(<<e>>), May(events, Len(events), e, surface)
  PROVE  /\ events' = Append(events, e)
         /\ surface' = Apply(surface, e, Len(events) + 1)
         /\ Sound(events', surface')
<1> DEFINE m == Append(events, e)
           n == Len(events)
<1>1. IsLog(events) /\ events \o <<e>> = m
  BY AppendAsConcat DEF Sound
<1>2. IsLog(m) /\ Len(m) = n + 1 /\ n \in Nat /\ \A i \in 1..n : m[i] = events[i]
  BY <1>1, AppendFacts, LogFacts
<1>3. events' = m /\ surface' = Surface(surface, m, n)
  BY <1>1 DEF Write
<1>4. Sound(m, Apply(surface, e, n + 1))
  BY SoundAppend
<1> HIDE DEF m
<1>5. n <= Len(m)
  BY <1>2
<1>6. Surface(surface, m, n) = Shown(m)[Len(m)]
  BY <1>2, <1>5, ShownOn
<1>7. surface' = Apply(surface, e, n + 1)
  BY <1>3, <1>4, <1>6 DEF Sound
<1> QED
  BY <1>3, <1>4, <1>7 DEF m

(* What a record other than a call, a result, a summary, a turn's start or  *)
(* end leaves as it was.                                                    *)
LEMMA QuietWrite ==
  ASSUME Sound(events, surface), NEW e, Write(<<e>>), May(events, Len(events), e, surface),
         e.kind \notin {"calls", "result", "summary", "turn", "turnEnd"}
  PROVE  /\ Sound(events', surface')
         /\ Answered(events') <=> Answered(events)
         /\ OpenAt(events', Len(events')) <=> OpenAt(events, Len(events))
         /\ \A c : NewestCall(events', Len(events'), c) <=> NewestCall(events, Len(events), c)
         /\ \A c : AnswersTo(events', Len(events'), c) = AnswersTo(events, Len(events), c)
         /\ \A plan : PlanSound(plan, events, surface) => PlanSound(plan, events', surface')
         /\ e.kind \notin History => surface' = surface
         /\ e.kind \notin {"start", "end"} => Unpaired(events') = Unpaired(events)
         /\ e.kind = "start" => Unpaired(events') = Unpaired(events) \union {Len(events) + 1}
         /\ e.kind = "end" => Unpaired(events') = Unpaired(events) \ {e.start}
<1> DEFINE m == Append(events, e)
           n == Len(events)
           s == Apply(surface, e, n + 1)
<1>1. events' = m /\ surface' = s /\ Sound(events', surface')
  BY WriteOne
<1>2. IsLog(events) /\ Regular(events)
  BY DEF Sound
<1>3. Len(m) = n + 1
  BY <1>2, AppendFacts
<1>4. /\ Answered(m) <=> Answered(events)
      /\ \A c : NewestCall(m, Len(m), c) <=> NewestCall(events, n, c)
      /\ \A c : AnswersTo(m, Len(m), c) = AnswersTo(events, n, c)
  BY <1>2, AnsweredAppend
<1>5. OpenAt(m, n + 1) <=> OpenAt(events, n)
  BY <1>2, OpenAppend
<1>6. /\ e.kind \notin {"start", "end"} => Unpaired(m) = Unpaired(events)
      /\ e.kind = "start" => Unpaired(m) = Unpaired(events) \union {n + 1}
      /\ e.kind = "end" => Unpaired(m) = Unpaired(events) \ {e.start}
  BY <1>2, UnpairedAppend
<1>7. /\ e.kind \notin History => s = surface
      /\ e.kind \in History => s = Append(surface, n + 1)
  BY DEF Apply, History
<1>8. \A plan : PlanSound(plan, events, surface) =>
                  PlanSound(plan, m, surface) /\ PlanSound(plan, m, Append(surface, n + 1))
  BY PlanStays
<1> HIDE DEF m, s, n
<1>9. \A plan : PlanSound(plan, events, surface) => PlanSound(plan, m, s)
  BY <1>7, <1>8
<1> QED
  BY <1>1, <1>3, <1>4, <1>5, <1>6, <1>7, <1>9 DEF n

-----------------------------------------------------------------------------
(* What a turn's next place and an attempt's next phase need of the log.    *)

LEMMA TurnMoves ==
  ASSUME NEW t, NEW l, NEW s, TurnSound(t, l, s), t.at \notin {"idle", "tools"},
         NEW m, NEW r,
         NEW u \in TurnType, u.at \notin {"idle", "tools"},
         u.at = "streaming" => u.seen = r, u.at # "streaming" => u.seen = <<>>,
         Answered(m) <=> Answered(l), OpenAt(m, Len(m)) <=> OpenAt(l, Len(l))
  PROVE  TurnSound(u, m, r)
BY DEF TurnSound

LEMMA TurnStays ==
  ASSUME NEW t, NEW l, NEW s, TurnSound(t, l, s),
         NEW u \in TurnType, u.at = t.at, u.seen = t.seen,
         NEW m, Answered(m) <=> Answered(l), OpenAt(m, Len(m)) <=> OpenAt(l, Len(l)),
         \A c : NewestCall(m, Len(m), c) <=> NewestCall(l, Len(l), c),
         \A c : AnswersTo(m, Len(m), c) = AnswersTo(l, Len(l), c)
  PROVE  TurnSound(u, m, s)
<1>1. u.at = "tools" => \E c : NewestCall(m, Len(m), c) /\ AnswersTo(m, Len(m), c) \in 0..1
  BY DEF TurnSound
<1> QED
  BY <1>1 DEF TurnSound

LEMMA GoesTo ==
  ASSUME turn \in TurnType, NEW where \in Places, Goes(where)
  PROVE  turn' \in TurnType /\ turn'.at = where /\ turn'.seen = turn.seen
BY DEF TurnType, Goes

LEMMA StreamedTo ==
  ASSUME turn \in TurnType, NEW where \in Places, Streamed(where)
  PROVE  turn' \in TurnType /\ turn'.at = where /\ turn'.seen = <<>>
<1>1. <<>> \in Seq(Nat)
  OBVIOUS
<1> QED
  BY <1>1 DEF TurnType, Streamed

LEMMA NoTurnIs ==
  /\ NoTurn \in TurnType /\ NoTurn.at = "idle" /\ NoTurn.seen = <<>>
  /\ \A k \in Nat : LET u == [NoTurn EXCEPT !.at = "pre", !.step = k]
                    IN  u \in TurnType /\ u.at = "pre" /\ u.seen = <<>>
<1>1. <<>> \in Seq(Nat)
  OBVIOUS
<1> QED
  BY <1>1 DEF NoTurn, TurnType, Places

LEMMA AttemptNone ==
  ASSUME NEW a \in AttemptType, a.phase = "none", NEW t, NEW l, NEW s
  PROVE  AttemptSound(a, t, l, s)
BY DEF AttemptSound

LEMMA AttemptFree ==
  ASSUME NEW a, NEW t, NEW l, NEW s, AttemptSound(a, t, l, s),
         t.at \notin {"boundary", "stopping", "recovering"},
         NEW u, NEW m, NEW r, PlanSound(a.plan, l, s) => PlanSound(a.plan, m, r)
  PROVE  AttemptSound(a, u, m, r)
BY HoldsWhere DEF AttemptSound

LEMMA AttemptSame ==
  ASSUME NEW a, NEW t, NEW l, NEW s, AttemptSound(a, t, l, s),
         NEW u, u.at = t.at, NEW m, NEW r, PlanSound(a.plan, l, s) => PlanSound(a.plan, m, r)
  PROVE  AttemptSound(a, u, m, r)
BY DEF AttemptSound

LEMMA NoAttemptIs == NoAttempt \in AttemptType /\ NoAttempt.phase = "none"
<1>1. <<>> \in Seq(Nat)
  OBVIOUS
<1> QED
  BY <1>1 DEF NoAttempt, AttemptType, OfTurns

LEMMA StatusIs ==
  ASSUME turn \in TurnType
  PROVE  Status \in {"idle", "running"} /\ (Status = "idle" <=> turn.at = "idle")
BY DEF Status

LEMMA RunIs ==
  ASSUME turn \in TurnType, NEW host \in {"person"} \union OfTurns, Run(host)
  PROVE  /\ attempt.phase = "none" /\ attempt' \in AttemptType /\ attempt'.phase = "planning"
         /\ attempt'.host = host /\ attempt'.status = Status
<1>1. <<>> \in Seq(Nat) /\ Status \in {"idle", "running"}
  BY StatusIs
<1> HIDE DEF Status
<1> QED
  BY <1>1 DEF Run, NoAttempt, AttemptType

(* The driver goes on from where the attempt held it.                       *)
LEMMA OverGoesOn ==
  ASSUME CInv, attempt.phase # "none", NEW compacted \in BOOLEAN, Over(compacted)
  PROVE  /\ attempt' = NoAttempt
         /\ turn' \in TurnType /\ turn'.seen = turn.seen
         /\ turn'.at = turn.at
            \/ (turn.at \in {"boundary", "stopping", "recovering"}
                 /\ turn'.at \in {"entering", "stopped", "asking", "ending"})
<1>1. /\ turn \in TurnType /\ attempt \in AttemptType
      /\ \/ attempt.host = "person"
         \/ attempt.host \in OfTurns /\ turn.at = Holds(attempt.host)
  BY DEF CInv, TurnSound, AttemptSound
<1>2. attempt' = NoAttempt
  BY DEF Over
<1>3. CASE attempt.host = "person"
  <2>1. turn' = turn
    BY <1>3 DEF Over
  <2> QED
    BY <1>1, <1>2, <2>1
<1>4. CASE attempt.host = "step"
  <2>1. turn' = [turn EXCEPT !.at = "entering"] /\ turn.at = "boundary"
    BY <1>1, <1>4, HoldsWhere DEF Over, OfTurns
  <2> QED
    BY <1>1, <1>2, <2>1 DEF TurnType, Places
<1>5. CASE attempt.host = "stop"
  <2>1. turn' = [turn EXCEPT !.at = "stopped"] /\ turn.at = "stopping"
    BY <1>1, <1>5, HoldsWhere DEF Over, OfTurns
  <2> QED
    BY <1>1, <1>2, <2>1 DEF TurnType, Places
<1>6. CASE attempt.host = "request"
  <2>1. turn.at = "recovering"
    BY <1>1, <1>6, HoldsWhere DEF OfTurns
  <2>2. CASE compacted /\ ~turn.aborted
    <3>1. turn' = [turn EXCEPT !.at = "asking", !.overflows = @ + 1]
      BY <1>6, <2>2 DEF Over
    <3>2. turn.overflows \in Nat
      BY <1>1 DEF TurnType
    <3>3. turn.overflows + 1 \in Nat
      BY <3>2
    <3>4. turn' = [[turn EXCEPT !.at = "asking"] EXCEPT !.overflows = turn.overflows + 1]
      BY <1>1, <3>1 DEF TurnType
    <3>5. [turn EXCEPT !.at = "asking"] \in TurnType
      BY <1>1 DEF TurnType, Places
    <3> QED
      BY <1>1, <1>2, <2>1, <3>1, <3>3, <3>4, <3>5 DEF TurnType, Places
  <2>3. CASE ~(compacted /\ ~turn.aborted)
    <3>1. turn' = [turn EXCEPT !.at = "ending"]
      <4>1. turn.aborted \/ ~compacted
        BY <2>3
      <4> QED
        BY <1>6, <2>3, <4>1 DEF Over
    <3> QED
      BY <1>1, <1>2, <2>1, <3>1 DEF TurnType, Places
  <2> QED
    BY <2>2, <2>3
<1> QED
  BY <1>1, <1>3, <1>4, <1>5, <1>6 DEF OfTurns

-----------------------------------------------------------------------------
(* Each action keeps it.                                                    *)

LEMMA Holding ==
  ASSUME CInv
  PROVE  /\ Sound(events, surface) /\ TurnSound(turn, events, surface)
         /\ AttemptSound(attempt, turn, events, surface) /\ Paired(attempt, events)
         /\ turn \in TurnType /\ attempt \in AttemptType
         /\ Len(events) \in Nat /\ IsLog(events)
BY LogFacts DEF CInv, TurnSound, AttemptSound, Sound

LEMMA NothingWritten ==
  ASSUME CInv, WriteNothing, TurnSound(turn', events, surface),
         AttemptSound(attempt', turn', events, surface), Paired(attempt', events)
  PROVE  CInv'
BY DEF CInv, WriteNothing

LEMMA Kept ==
  ASSUME Sound(events', surface'), TurnSound(turn', events', surface'),
         AttemptSound(attempt', turn', events', surface'), Paired(attempt', events')
  PROVE  CInv'
BY DEF CInv

(* The turn goes on, and nothing is written.                                *)
LEMMA TurnStep ==
  ASSUME CInv, WriteNothing, NoneStarts, turn' \in TurnType,
         turn.at \notin {"idle", "tools", "boundary", "stopping", "recovering"},
         turn'.at \notin {"idle", "tools"},
         turn'.at = "streaming" => turn'.seen = surface, turn'.at # "streaming" => turn'.seen = <<>>
  PROVE  CInv'
<1>1. attempt' = attempt
  BY DEF NoneStarts
<1>2. TurnSound(turn', events, surface)
  BY Holding, TurnMoves
<1>3. AttemptSound(attempt', turn', events, surface)
  BY <1>1, Holding, AttemptFree
<1>4. Paired(attempt', events)
  BY <1>1, Holding
<1> QED
  BY <1>2, <1>3, <1>4, NothingWritten

(* An attempt that begins.                                                  *)
LEMMA AttemptBegins ==
  ASSUME CInv, NEW host \in {"person"} \union OfTurns, Run(host), NEW m, NEW r, NEW u,
         host = "person" => turn.at = "idle",
         host \in OfTurns => turn.at # "idle" /\ u.at = Holds(host),
         Unpaired(m) = Unpaired(events)
  PROVE  AttemptSound(attempt', u, m, r) /\ Paired(attempt', m)
<1>1. /\ attempt.phase = "none" /\ attempt' \in AttemptType /\ attempt'.phase = "planning"
      /\ attempt'.host = host /\ attempt'.status = Status
  BY Holding, RunIs
<1>2. host = "person" => Status = "idle"
  BY Holding, StatusIs
<1>3. host \in OfTurns => Status = "running"
  BY Holding, StatusIs
<1>4. Unpaired(events) = {}
  BY <1>1, Holding DEF Paired
<1>5. AttemptSound(attempt', u, m, r)
  BY <1>1, <1>2, <1>3 DEF AttemptSound
<1>6. Paired(attempt', m)
  BY <1>1, <1>4 DEF Paired
<1> QED
  BY <1>5, <1>6

LEMMA PreStepCompactsKeeps == ASSUME CInv, PreStepCompacts PROVE CInv'
<1>1. turn.at = "pre" /\ Run("step") /\ Goes("boundary") /\ WriteNothing
  BY DEF PreStepCompacts, TurnAt
<1>2. turn' \in TurnType /\ turn'.at = "boundary" /\ turn'.seen = <<>>
  BY <1>1, Holding, GoesTo DEF Places, TurnSound
<1>3. TurnSound(turn', events, surface)
  BY <1>1, <1>2, Holding, TurnMoves
<1>4. "step" \in OfTurns /\ Holds("step") = "boundary" /\ "step" # "person"
  BY HoldsWhere DEF OfTurns
<1>5. AttemptSound(attempt', turn', events, surface) /\ Paired(attempt', events)
  BY <1>1, <1>2, <1>4, AttemptBegins
<1> QED
  BY <1>1, <1>3, <1>5, NothingWritten

(* A message or an answer without calls.                                    *)
LEMMA MessageWritten ==
  ASSUME CInv, NEW e \in {User, Say}, Write(<<e>>), turn.at \notin {"idle", "tools"},
         turn' \in TurnType, turn'.at \notin {"idle", "tools", "streaming"}, turn'.seen = <<>>
  PROVE  /\ Sound(events', surface') /\ TurnSound(turn', events', surface')
         /\ Unpaired(events') = Unpaired(events)
         /\ \A plan : PlanSound(plan, events, surface) => PlanSound(plan, events', surface')
<1>1. e.kind \in {"user", "say"}
  BY DEF User, Say
<1>2. Complete(events, surface)
  BY Holding, CompleteIsAnswered DEF TurnSound
<1>3. May(events, Len(events), e, surface)
  BY <1>1, <1>2 DEF May, History
<1>4. /\ Sound(events', surface')
      /\ Answered(events') <=> Answered(events)
      /\ OpenAt(events', Len(events')) <=> OpenAt(events, Len(events))
      /\ \A plan : PlanSound(plan, events, surface) => PlanSound(plan, events', surface')
      /\ Unpaired(events') = Unpaired(events)
  BY <1>1, <1>3, Holding, QuietWrite
<1>5. TurnSound(turn', events', surface')
  BY <1>4, Holding, TurnMoves
<1> QED
  BY <1>4, <1>5

LEMMA MessageKeeps ==
  ASSUME CInv, NEW e \in {User, Say}, Write(<<e>>), NoneStarts,
         turn.at \notin {"idle", "tools", "boundary", "stopping", "recovering"},
         turn' \in TurnType, turn'.at \notin {"idle", "tools", "streaming"}, turn'.seen = <<>>
  PROVE  CInv'
<1>1. attempt' = attempt
  BY DEF NoneStarts
<1>2. /\ Sound(events', surface') /\ TurnSound(turn', events', surface')
      /\ Unpaired(events') = Unpaired(events)
      /\ \A plan : PlanSound(plan, events, surface) => PlanSound(plan, events', surface')
  BY MessageWritten
<1>3. AttemptSound(attempt, turn, events, surface) /\ Paired(attempt, events)
  BY Holding
<1>4. AttemptSound(attempt, turn', events', surface')
  BY <1>2, <1>3, AttemptFree
<1>5. Paired(attempt, events')
  BY <1>2, <1>3 DEF Paired
<1> QED
  BY <1>1, <1>2, <1>4, <1>5, Kept

LEMMA StepEntersKeeps == ASSUME CInv, StepEnters PROVE CInv'
<1>1. turn.at \in {"entering", "pre"} /\ Enter /\ NoneStarts
  BY DEF StepEnters, TurnAt
<1>2. turn.seen = <<>> /\ turn \in TurnType
  BY <1>1, Holding DEF TurnSound
<1>3. CASE Goes("ending") /\ WriteNothing
  <2>1. turn' \in TurnType /\ turn'.at = "ending" /\ turn'.seen = <<>>
    BY <1>2, <1>3, GoesTo DEF Places
  <2> QED
    BY <1>1, <1>3, <2>1, TurnStep
<1>4. CASE Goes("asking") /\ WriteNothing
  <2>1. turn' \in TurnType /\ turn'.at = "asking" /\ turn'.seen = <<>>
    BY <1>2, <1>4, GoesTo DEF Places
  <2> QED
    BY <1>1, <1>4, <2>1, TurnStep
<1>5. CASE Goes("asking") /\ Write(<<User>>)
  <2>1. turn' \in TurnType /\ turn'.at = "asking" /\ turn'.seen = <<>>
    BY <1>2, <1>5, GoesTo DEF Places
  <2> QED
    BY <1>1, <1>5, <2>1, MessageKeeps
<1> QED
  BY <1>1, <1>3, <1>4, <1>5 DEF Enter

LEMMA AskKeeps == ASSUME CInv, Ask PROVE CInv'
<1>1. turn.at = "asking" /\ WriteNothing /\ NoneStarts
      /\ turn' = [turn EXCEPT !.at = "streaming", !.seen = surface]
  BY DEF Ask, TurnAt
<1>2. surface \in Seq(Nat) /\ turn \in TurnType
  BY Holding, SoundShape
<1>3. turn' \in TurnType /\ turn'.at = "streaming" /\ turn'.seen = surface
  BY <1>1, <1>2 DEF TurnType, Places
<1> QED
  BY <1>1, <1>3, TurnStep

LEMMA AnswersTextKeeps == ASSUME CInv, AnswersText PROVE CInv'
<1>1. turn.at = "streaming" /\ Write(<<Say>>) /\ turn \in TurnType
  BY Holding DEF AnswersText, TurnAt
<1>2. CASE Run("stop") /\ Streamed("stopping")
  <2>1. turn' \in TurnType /\ turn'.at = "stopping" /\ turn'.seen = <<>>
    BY <1>1, <1>2, StreamedTo DEF Places
  <2>2. /\ Sound(events', surface') /\ TurnSound(turn', events', surface')
        /\ Unpaired(events') = Unpaired(events)
    BY <1>1, <2>1, MessageWritten
  <2>3. "stop" \in OfTurns /\ Holds("stop") = "stopping" /\ "stop" # "person"
    BY HoldsWhere DEF OfTurns
  <2>4. AttemptSound(attempt', turn', events', surface') /\ Paired(attempt', events')
    BY <1>1, <1>2, <2>1, <2>2, <2>3, AttemptBegins
  <2> QED
    BY <2>2, <2>4, Kept
<1>3. ASSUME NEW where \in {"stopped", "ending"}, NoneStarts, Streamed(where) PROVE CInv'
  <2>1. turn' \in TurnType /\ turn'.at = where /\ turn'.seen = <<>>
    BY <1>1, <1>3, StreamedTo DEF Places
  <2> QED
    BY <1>1, <1>3, <2>1, MessageKeeps
<1> QED
  BY <1>2, <1>3 DEF AnswersText

LEMMA OverflowsKeeps == ASSUME CInv, Overflows PROVE CInv'
<1>1. turn.at = "streaming" /\ WriteNothing /\ turn \in TurnType
  BY Holding DEF Overflows, TurnAt
<1>2. CASE Run("request") /\ Streamed("recovering")
  <2>1. turn' \in TurnType /\ turn'.at = "recovering" /\ turn'.seen = <<>>
    BY <1>1, <1>2, StreamedTo DEF Places
  <2>2. TurnSound(turn', events, surface)
    BY <1>1, <2>1, Holding, TurnMoves
  <2>3. "request" \in OfTurns /\ Holds("request") = "recovering" /\ "request" # "person"
    BY HoldsWhere DEF OfTurns
  <2>4. AttemptSound(attempt', turn', events, surface) /\ Paired(attempt', events)
    BY <1>1, <1>2, <2>1, <2>3, AttemptBegins
  <2> QED
    BY <1>1, <2>2, <2>4, NothingWritten
<1>3. CASE NoneStarts /\ Streamed("ending")
  <2>1. turn' \in TurnType /\ turn'.at = "ending" /\ turn'.seen = <<>>
    BY <1>1, <1>3, StreamedTo DEF Places
  <2> QED
    BY <1>1, <1>3, <2>1, TurnStep
<1> QED
  BY <1>2, <1>3 DEF Overflows

LEMMA FailsKeeps == ASSUME CInv, Fails PROVE CInv'
<1>1. turn.at = "streaming" /\ WriteNothing /\ NoneStarts /\ turn \in TurnType
  BY Holding DEF Fails, TurnAt
<1>2. ASSUME NEW where \in {"waiting", "ending"}, Streamed(where) PROVE CInv'
  <2>1. turn' \in TurnType /\ turn'.at = where /\ turn'.seen = <<>>
    BY <1>1, <1>2, StreamedTo DEF Places
  <2> QED
    BY <1>1, <2>1, TurnStep
<1> QED
  BY <1>2 DEF Fails

LEMMA RetryKeeps == ASSUME CInv, Retry PROVE CInv'
<1>1. turn.at = "waiting" /\ WriteNothing /\ NoneStarts /\ turn \in TurnType /\ turn.seen = <<>>
  BY Holding DEF Retry, TurnAt, TurnSound
<1>2. turn' \in TurnType /\ turn'.at \in {"asking", "ending"} /\ turn'.seen = <<>>
  <2>1. CASE Goes("ending")
    BY <1>1, <2>1, GoesTo DEF Places
  <2>2. CASE turn' = [turn EXCEPT !.at = "asking", !.retries = @ + 1]
    <3>1. turn.retries + 1 \in Nat
      BY <1>1 DEF TurnType
    <3> QED
      BY <1>1, <2>2, <3>1 DEF TurnType, Places
  <2> QED
    BY <2>1, <2>2 DEF Retry
<1> QED
  BY <1>1, <1>2, TurnStep

LEMMA NextStepIs ==
  ASSUME turn \in TurnType, turn.seen = <<>>, NextStep
  PROVE  turn' \in TurnType /\ turn'.at \in {"pre", "ending"} /\ turn'.seen = <<>>
<1>1. CASE Goes("ending")
  BY <1>1, GoesTo DEF Places
<1>2. CASE turn' = [NoTurn EXCEPT !.at = "pre", !.step = turn.step + 1]
  <2>1. turn.step + 1 \in Nat
    BY DEF TurnType
  <2> QED
    BY <1>2, <2>1, NoTurnIs
<1> QED
  BY <1>1, <1>2 DEF NextStep

LEMMA StoppedKeeps == ASSUME CInv, Stopped PROVE CInv'
<1>1. turn.at = "stopped" /\ WriteNothing /\ NoneStarts /\ turn \in TurnType /\ turn.seen = <<>>
  BY Holding DEF Stopped, TurnAt, TurnSound
<1>2. turn' \in TurnType /\ turn'.at \in {"pre", "ending"} /\ turn'.seen = <<>>
  <2>1. CASE Goes("ending")
    BY <1>1, <2>1, GoesTo DEF Places
  <2>2. CASE NextStep
    BY <1>1, <2>2, NextStepIs
  <2> QED
    BY <2>1, <2>2 DEF Stopped
<1> QED
  BY <1>1, <1>2, TurnStep

(* A step that calls tools, and each result.                                *)
LEMMA AnswersCallsKeeps == ASSUME CInv, AnswersCalls PROVE CInv'
<1> DEFINE m == Append(events, Calls)
           n == Len(events)
<1>1. turn.at = "streaming" /\ Write(<<Calls>>) /\ Streamed("tools") /\ attempt' = attempt
  BY DEF AnswersCalls, TurnAt, NoneStarts
<1>2. turn' \in TurnType /\ turn'.at = "tools" /\ turn'.seen = <<>>
  BY <1>1, Holding, StreamedTo DEF Places
<1>3. Calls.kind = "calls"
  BY DEF Calls
<1>4. Complete(events, surface) /\ OpenAt(events, n)
  BY <1>1, Holding, CompleteIsAnswered DEF TurnSound
<1>5. May(events, n, Calls, surface)
  BY <1>3, <1>4 DEF May, History
<1>6. events' = m /\ Sound(events', surface') /\ surface' = Apply(surface, Calls, n + 1)
  BY <1>1, <1>5, Holding, WriteOne
<1>7. /\ n \in Nat /\ Len(m) = n + 1 /\ m[n + 1] = Calls /\ \A i \in 1..n : m[i] = events[i]
      /\ Owned(events, n)
  BY Holding, AppendFacts, SoundShape DEF Shape
<1>8. Unpaired(m) = Unpaired(events) /\ OpenAt(m, n + 1)
  <2>1. OpenAt(m, n + 1) <=> OpenAt(events, n)
    BY <1>3, Holding, OpenAppend
  <2> QED
    BY <1>3, <1>4, <2>1, Holding, UnpairedAppend DEF Sound
<1>9. \A plan : PlanSound(plan, events, surface) => PlanSound(plan, m, Append(surface, n + 1))
  BY Holding, PlanStays
<1>10. surface' = Append(surface, n + 1)
  BY <1>3, <1>6 DEF Apply
<1> HIDE DEF m, n
<1>11. NewestCall(m, n + 1, n + 1) /\ AnswersTo(m, n + 1, n + 1) = 0
  <2>1. n + 1 \in 1..(n + 1) /\ n + 1 \notin 1..n /\ \A i \in 1..(n + 1) : i <= n + 1 /\ (i \in 1..n \/ i = n + 1)
    BY <1>7
  <2>2. NewestCall(m, n + 1, n + 1)
    BY <1>3, <1>7, <2>1 DEF NewestCall
  <2>3. ResultsOf(m, n + 1, n + 1) = {}
    BY <1>3, <1>7, <2>1 DEF ResultsOf, Owned
  <2> QED
    BY <2>2, <2>3, FS_EmptySet DEF AnswersTo
<1>12. TurnSound(turn', m, surface')
  <2>1. \E c : NewestCall(m, Len(m), c) /\ AnswersTo(m, Len(m), c) \in 0..1
    BY <1>7, <1>11
  <2> QED
    BY <1>2, <1>7, <1>8, <2>1 DEF TurnSound
<1>13. AttemptSound(attempt', turn', m, surface')
  <2>1. AttemptSound(attempt, turn, events, surface)
    BY Holding
  <2>2. AttemptSound(attempt, turn', m, surface')
    BY <1>1, <1>9, <1>10, <2>1, AttemptFree
  <2> QED
    BY <1>1, <2>2
<1>14. Paired(attempt', m)
  BY <1>1, <1>8, Holding DEF Paired
<1> QED
  BY <1>6, <1>12, <1>13, <1>14, Kept DEF m

LEMMA ReturnKeeps == ASSUME CInv, Return PROVE CInv'
<1> DEFINE n == Len(events)
           c == Newest(Of(events, {"calls"}))
           a == Answers(events, c)
           e == Result(c, Tools[a + 1])
           m == Append(events, e)
<1>1. turn.at = "tools" /\ attempt' = attempt /\ Write(<<e>>)
  BY DEF Return, TurnAt, NoneStarts
<1>2. IF a + 1 = 2 THEN NextStep ELSE turn' = turn
  BY ToolsAreTwo DEF Return
<1>3. NewestCall(events, n, c) /\ a = AnswersTo(events, n, c) /\ a \in 0..1
  <2>1. PICK d : NewestCall(events, n, d) /\ AnswersTo(events, n, d) \in 0..1
    BY <1>1, Holding DEF TurnSound
  <2>2. c = d
    BY <2>1, Holding, NewestIs
  <2>3. a = AnswersTo(events, n, c)
    BY Holding, AnswersAre
  <2> QED
    BY <2>1, <2>2, <2>3
<1>4. turn \in TurnType /\ turn.seen = <<>>
  BY <1>1, Holding DEF TurnSound
<1> HIDE DEF c, a
<1>5. /\ May(events, n, e, surface)
      /\ NewestCall(m, Len(m), c) /\ AnswersTo(m, Len(m), c) = a + 1
      /\ Unpaired(m) = Unpaired(events) /\ OpenAt(m, Len(m)) /\ IsLog(m)
  <2>1. /\ May(events, n, e, surface) /\ Sound(m, Append(surface, n + 1))
        /\ NewestCall(m, Len(m), c) /\ AnswersTo(m, Len(m), c) = a + 1
        /\ Unpaired(m) = Unpaired(events)
        /\ OpenAt(m, Len(m)) <=> OpenAt(events, n)
        /\ OpenAt(events, n)
    BY <1>3, Holding, AnswerMay
  <2> QED
    BY <2>1 DEF Sound
<1>6. events' = m /\ Sound(events', surface') /\ surface' = Apply(surface, e, n + 1)
  BY <1>1, <1>5, Holding, WriteOne
<1>7. surface' = Append(surface, n + 1)
  BY <1>6 DEF Apply, Result
<1>8. \A plan : PlanSound(plan, events, surface) => PlanSound(plan, m, Append(surface, n + 1))
  BY Holding, PlanStays
<1>9. Len(m) \in Nat
  BY <1>5, LogFacts
<1> HIDE DEF m, n, e
<1>10. TurnSound(turn', m, surface')
  <2>1. CASE a = 1
    <3>1. turn' \in TurnType /\ turn'.at \in {"pre", "ending"} /\ turn'.seen = <<>>
      BY <1>2, <1>4, <2>1, NextStepIs
    <3>2. Answered(m)
      BY <1>5, <1>9, <2>1, NewestIsOne DEF Answered
    <3> QED
      BY <1>5, <3>1, <3>2 DEF TurnSound
  <2>2. CASE a = 0
    <3>1. turn' = turn
      BY <1>2, <2>2
    <3>2. AnswersTo(m, Len(m), c) \in 0..1
      BY <1>5, <2>2
    <3> QED
      BY <1>1, <1>4, <1>5, <3>1, <3>2 DEF TurnSound
  <2> QED
    BY <1>3, <2>1, <2>2
<1>11. AttemptSound(attempt', turn', m, surface')
  <2>1. AttemptSound(attempt, turn, events, surface)
    BY Holding
  <2>2. AttemptSound(attempt, turn', m, surface')
    BY <1>1, <1>7, <1>8, <2>1, AttemptFree
  <2> QED
    BY <1>1, <2>2
<1>12. Paired(attempt', m)
  BY <1>1, <1>5, Holding DEF Paired
<1> QED
  BY <1>6, <1>10, <1>11, <1>12, Kept

(* Where a turn begins and ends.                                            *)
LEMMA StartMay ==
  ASSUME NEW l, NEW s, Sound(l, s)
  PROVE  LET m == Append(l, TurnStart)
         IN  /\ May(l, Len(l), TurnStart, s) /\ Apply(s, TurnStart, Len(l) + 1) = s
             /\ Sound(m, s) /\ Unpaired(m) = Unpaired(l) /\ OpenAt(m, Len(m))
             /\ Answered(m) <=> Answered(l)
             /\ \A plan : PlanSound(plan, l, s) => PlanSound(plan, m, s)
<1> DEFINE m == Append(l, TurnStart)
           n == Len(l)
<1>1. TurnStart.kind = "turn"
  BY DEF TurnStart
<1>2. IsLog(l) /\ Regular(l)
  BY DEF Sound
<1>3. May(l, n, TurnStart, s) /\ Apply(s, TurnStart, n + 1) = s
  BY <1>1 DEF May, Apply, History
<1>4. Sound(m, s)
  <2>1. Sound(m, Apply(s, TurnStart, n + 1))
    BY <1>3, SoundAppend
  <2> QED
    BY <1>3, <2>1
<1>5. Unpaired(m) = Unpaired(l)
  BY <1>1, <1>2, UnpairedAppend
<1>6. OpenAt(m, n + 1) /\ Len(m) = n + 1
  BY <1>1, <1>2, OpenAppend, AppendFacts
<1>7. Answered(m) <=> Answered(l)
  BY <1>1, <1>2, AnsweredAppend
<1>8. \A plan : PlanSound(plan, l, s) => PlanSound(plan, m, s)
  BY PlanStays
<1> QED
  BY <1>3, <1>4, <1>5, <1>6, <1>7, <1>8

LEMMA FirstStepIs ==
  ASSUME FirstStep
  PROVE  turn' \in TurnType /\ turn'.at = "pre" /\ turn'.seen = <<>>
BY NoTurnIs DEF FirstStep

LEMMA PromptKeeps == ASSUME CInv, Prompt PROVE CInv'
<1> DEFINE m == Append(events, TurnStart)
<1>1. turn.at = "idle" /\ Write(<<TurnStart>>) /\ FirstStep /\ attempt' = attempt
  BY DEF Prompt, TurnAt, NoneStarts
<1>2. turn' \in TurnType /\ turn'.at = "pre" /\ turn'.seen = <<>>
  BY <1>1, FirstStepIs
<1>3. /\ May(events, Len(events), TurnStart, surface) /\ Apply(surface, TurnStart, Len(events) + 1) = surface
      /\ Unpaired(m) = Unpaired(events) /\ OpenAt(m, Len(m))
      /\ Answered(m) <=> Answered(events)
      /\ \A plan : PlanSound(plan, events, surface) => PlanSound(plan, m, surface)
  BY Holding, StartMay
<1>4. events' = m /\ surface' = surface /\ Sound(events', surface')
  BY <1>1, <1>3, Holding, WriteOne
<1> HIDE DEF m
<1>5. Answered(events)
  BY <1>1, Holding DEF TurnSound
<1>6. TurnSound(turn', m, surface)
  BY <1>2, <1>3, <1>5 DEF TurnSound
<1>7. AttemptSound(attempt, turn', m, surface)
  BY <1>1, <1>3, Holding, AttemptFree
<1>8. Paired(attempt, m)
  BY <1>3, Holding DEF Paired
<1> QED
  BY <1>1, <1>4, <1>6, <1>7, <1>8, Kept

(* Several records written at once.                                         *)
LEMMA WriteAll ==
  ASSUME Sound(events, surface), NEW es, Write(es), NEW m, NEW t, events \o es = m, Sound(m, t),
         Len(events) <= Len(m), \A i \in 1..Len(events) : m[i] = events[i]
  PROVE  events' = m /\ surface' = t
<1>1. events' = m /\ surface' = Surface(surface, m, Len(events))
  BY DEF Write
<1>2. Surface(surface, m, Len(events)) = Shown(m)[Len(m)]
  BY ShownOn DEF Sound
<1> QED
  BY <1>1, <1>2 DEF Sound

LEMMA EndTurnKeeps == ASSUME CInv, EndTurn PROVE CInv'
<1> DEFINE m == Append(events, TurnEnd)
           k == Append(m, TurnStart)
<1>1. turn.at = "ending" /\ attempt' = attempt
  BY DEF EndTurn, TurnAt, NoneStarts
<1>2. Answered(events) /\ Complete(events, surface)
  BY <1>1, Holding, CompleteIsAnswered DEF TurnSound
<1>3. TurnEnd.kind = "turnEnd" /\ Apply(surface, TurnEnd, Len(events) + 1) = surface
  BY DEF TurnEnd, Apply
<1>4. /\ May(events, Len(events), TurnEnd, surface)
      /\ Sound(m, surface) /\ Unpaired(m) = Unpaired(events) /\ ~OpenAt(m, Len(m))
  BY <1>2, Holding, EndMay
<1>5. Answered(m) /\ \A plan : PlanSound(plan, events, surface) => PlanSound(plan, m, surface)
  <2>1. Answered(m) <=> Answered(events)
    BY <1>3, Holding, AnsweredAppend
  <2> QED
    BY <1>2, <2>1, Holding, PlanStays
<1>6. CASE turn' = NoTurn /\ Write(<<TurnEnd>>)
  <2>1. events' = m /\ surface' = surface /\ Sound(events', surface')
    BY <1>3, <1>4, <1>6, Holding, WriteOne
  <2> HIDE DEF m
  <2>2. TurnSound(turn', m, surface)
    BY <1>4, <1>5, <1>6, NoTurnIs DEF TurnSound
  <2>3. AttemptSound(attempt, turn', m, surface)
    BY <1>1, <1>5, Holding, AttemptFree
  <2>4. Paired(attempt, m)
    BY <1>4, Holding DEF Paired
  <2> QED
    BY <1>1, <2>1, <2>2, <2>3, <2>4, Kept
<1>7. CASE FirstStep /\ Write(<<TurnEnd, TurnStart>>)
  <2>1. events \o <<TurnEnd, TurnStart>> = k
    BY Holding, AppendTwo
  <2>2. /\ Sound(k, surface) /\ Unpaired(k) = Unpaired(m) /\ OpenAt(k, Len(k))
        /\ Answered(k) <=> Answered(m)
        /\ \A plan : PlanSound(plan, m, surface) => PlanSound(plan, k, surface)
    BY <1>4, StartMay
  <2>3. Len(events) <= Len(k) /\ \A i \in 1..Len(events) : k[i] = events[i]
    <3>1. Len(m) = Len(events) + 1 /\ IsLog(m) /\ Len(events) \in Nat /\ \A i \in 1..Len(events) : m[i] = events[i]
      BY Holding, AppendFacts
    <3>2. Len(k) = Len(m) + 1 /\ \A i \in 1..Len(m) : k[i] = m[i]
      BY <3>1, AppendFacts
    <3> HIDE DEF m, k
    <3>3. \A i \in 1..Len(events) : i \in 1..Len(m)
      BY <3>1
    <3> QED
      BY <3>1, <3>2, <3>3
  <2> HIDE DEF m, k
  <2>4. events' = k /\ surface' = surface
    BY <1>7, <2>1, <2>2, <2>3, Holding, WriteAll
  <2>5. turn' \in TurnType /\ turn'.at = "pre" /\ turn'.seen = <<>>
    BY <1>7, FirstStepIs
  <2>6. TurnSound(turn', k, surface)
    BY <1>5, <2>2, <2>5 DEF TurnSound
  <2>7. AttemptSound(attempt, turn', k, surface)
    BY <1>1, <1>5, <2>2, Holding, AttemptFree
  <2>8. Paired(attempt, k)
    BY <1>4, <2>2, Holding DEF Paired
  <2> QED
    BY <1>1, <2>2, <2>4, <2>6, <2>7, <2>8, Kept
<1> QED
  BY <1>6, <1>7 DEF EndTurn

LEMMA CancelTurnKeeps == ASSUME CInv, CancelTurn PROVE CInv'
<1>1. WriteNothing /\ attempt' = attempt /\ turn' = [turn EXCEPT !.aborted = TRUE]
  BY DEF CancelTurn, NoneStarts
<1>2. turn' \in TurnType /\ turn'.at = turn.at /\ turn'.seen = turn.seen
  BY <1>1, Holding DEF TurnType
<1>3. TurnSound(turn', events, surface)
  BY <1>2, Holding, TurnStays
<1>4. AttemptSound(attempt, turn', events, surface)
  BY <1>2, Holding, AttemptSame
<1> QED
  BY <1>1, <1>3, <1>4, Holding, NothingWritten

LEMMA CompactNowKeeps == ASSUME CInv, compactNow PROVE CInv'
<1>1. WriteNothing /\ turn' = turn
  BY DEF compactNow
<1>2. CASE attempt' = attempt
  BY <1>1, <1>2, Holding, NothingWritten
<1>3. CASE Status = "idle" /\ Run("person")
  <2>1. turn.at = "idle" /\ "person" \notin OfTurns
    BY <1>3, Holding, StatusIs DEF OfTurns
  <2>2. AttemptSound(attempt', turn', events, surface) /\ Paired(attempt', events)
    BY <1>3, <2>1, AttemptBegins
  <2>3. TurnSound(turn', events, surface)
    BY <1>1, Holding
  <2> QED
    BY <1>1, <2>2, <2>3, NothingWritten
<1> QED
  BY <1>2, <1>3 DEF compactNow

(* The attempt.                                                             *)
LEMMA OverSound ==
  ASSUME CInv, turn' \in TurnType, turn'.seen = turn.seen,
         turn'.at = turn.at
           \/ (turn.at \in {"boundary", "stopping", "recovering"}
                /\ turn'.at \in {"entering", "stopped", "asking", "ending"}),
         NEW m, NEW r, turn.at = "streaming" => r = surface,
         Answered(m) <=> Answered(events), OpenAt(m, Len(m)) <=> OpenAt(events, Len(events)),
         \A c : NewestCall(m, Len(m), c) <=> NewestCall(events, Len(events), c),
         \A c : AnswersTo(m, Len(m), c) = AnswersTo(events, Len(events), c)
  PROVE  TurnSound(turn', m, r)
<1>1. TurnSound(turn, events, surface)
  BY Holding
<1>2. CASE turn'.at = turn.at
  <2>1. TurnSound(turn', m, surface)
    BY <1>1, <1>2, TurnStays
  <2>2. turn'.at = "streaming" => r = surface
    BY <1>2
  <2> QED
    BY <2>1, <2>2 DEF TurnSound
<1>3. CASE turn.at \in {"boundary", "stopping", "recovering"}
           /\ turn'.at \in {"entering", "stopped", "asking", "ending"}
  <2>1. turn.seen = <<>>
    BY <1>1, <1>3 DEF TurnSound
  <2> QED
    BY <1>1, <1>3, <2>1, TurnMoves
<1> QED
  BY <1>2, <1>3

LEMMA NothingToDoKeeps == ASSUME CInv, NothingToDo PROVE CInv'
<1>1. attempt.phase = "planning" /\ Over(FALSE) /\ WriteNothing
  BY DEF NothingToDo
<1>2. /\ attempt' = NoAttempt
      /\ turn' \in TurnType /\ turn'.seen = turn.seen
      /\ turn'.at = turn.at
         \/ (turn.at \in {"boundary", "stopping", "recovering"}
              /\ turn'.at \in {"entering", "stopped", "asking", "ending"})
  BY <1>1, OverGoesOn
<1>3. TurnSound(turn', events, surface)
  BY <1>2, OverSound
<1>4. AttemptSound(attempt', turn', events, surface)
  BY <1>2, NoAttemptIs, AttemptNone
<1>5. Paired(attempt', events)
  BY <1>1, <1>2, NoAttemptIs, Holding DEF Paired
<1> QED
  BY <1>1, <1>3, <1>4, <1>5, NothingWritten

LEMMA PlanKeeps == ASSUME CInv, Plan PROVE CInv'
<1>1. PICK plan \in planCompaction(events, surface) :
        attempt' = [attempt EXCEPT !.phase = "summarising", !.plan = plan, !.start = Len(events) + 1]
  BY DEF Plan
<1>2. attempt.phase = "planning" /\ Write(<<Started>>) /\ turn' = turn
  BY DEF Plan
<1>3. PlanSound(plan, events, surface) /\ plan \in Seq(Nat)
  BY <1>1, Holding, PlanIsSound
<1>4. Started.kind = "start" /\ May(events, Len(events), Started, surface)
  BY DEF Started, May, History
<1>5. /\ Sound(events', surface')
      /\ Answered(events') <=> Answered(events)
      /\ OpenAt(events', Len(events')) <=> OpenAt(events, Len(events))
      /\ \A c : NewestCall(events', Len(events'), c) <=> NewestCall(events, Len(events), c)
      /\ \A c : AnswersTo(events', Len(events'), c) = AnswersTo(events, Len(events), c)
      /\ PlanSound(plan, events', surface')
      /\ surface' = surface
      /\ Unpaired(events') = Unpaired(events) \union {Len(events) + 1}
  <2>1. Started.kind \notin {"calls", "result", "summary", "turn", "turnEnd"} /\ Started.kind \notin History
    BY <1>4 DEF History
  <2> QED
    BY <1>2, <1>3, <1>4, <2>1, Holding, QuietWrite
<1>6. TurnSound(turn', events', surface')
  <2>1. TurnSound(turn, events', surface)
    BY <1>5, Holding, TurnStays
  <2> QED
    BY <1>2, <1>5, <2>1
<1>7. /\ attempt' \in AttemptType /\ attempt'.phase = "summarising" /\ attempt'.plan = plan
      /\ attempt'.start = Len(events) + 1
      /\ attempt'.host = attempt.host /\ attempt'.status = attempt.status
  <2>1. attempt \in AttemptType /\ Len(events) + 1 \in Nat
    BY Holding
  <2> QED
    BY <1>1, <1>3, <2>1 DEF AttemptType
<1>8. AttemptSound(attempt', turn', events', surface')
  <2>1. \/ attempt.host = "person" /\ attempt.status = "idle"
        \/ attempt.host \in OfTurns /\ attempt.status = "running" /\ turn.at = Holds(attempt.host)
    BY <1>2, Holding DEF AttemptSound
  <2>2. \/ attempt'.host = "person" /\ attempt'.status = "idle"
        \/ attempt'.host \in OfTurns /\ attempt'.status = "running" /\ turn'.at = Holds(attempt'.host)
    BY <1>2, <1>7, <2>1
  <2>3. PlanSound(attempt'.plan, events', surface')
    BY <1>5, <1>7
  <2> QED
    BY <1>7, <2>2, <2>3 DEF AttemptSound
<1>9. Paired(attempt', events')
  <2>1. Unpaired(events) = {}
    BY <1>2, Holding DEF Paired
  <2> QED
    BY <1>5, <1>7, <2>1 DEF Paired
<1> QED
  BY <1>5, <1>6, <1>8, <1>9, Kept

(* While a summary is written its bracket is the one that is open.          *)
LEMMA BracketIsOpen ==
  ASSUME CInv, attempt.phase = "summarising"
  PROVE  /\ Unpaired(events) = {attempt.start}
         /\ attempt.start \in 1..Len(events) /\ events[attempt.start].kind = "start"
<1>1. Unpaired(events) = {attempt.start}
  BY Holding DEF Paired
<1>2. attempt.start \in Of(events, {"start"})
  BY <1>1 DEF Unpaired
<1> QED
  BY <1>1, <1>2, Holding, LogFacts DEF Of

LEMMA DeclineKeeps ==
  ASSUME CInv, attempt.phase = "summarising", NEW reason, Decline(reason)
  PROVE  CInv'
<1> DEFINE e == CompactionEnd(attempt.start, reason)
<1>1. Write(<<e>>) /\ Over(FALSE)
  BY DEF Decline
<1>2. e.kind = "end" /\ e.start = attempt.start
  BY DEF CompactionEnd
<1> HIDE DEF e
<1>3. May(events, Len(events), e, surface)
  BY <1>2, BracketIsOpen DEF May, History
<1>4. /\ attempt' = NoAttempt
      /\ turn' \in TurnType /\ turn'.seen = turn.seen
      /\ turn'.at = turn.at
         \/ (turn.at \in {"boundary", "stopping", "recovering"}
              /\ turn'.at \in {"entering", "stopped", "asking", "ending"})
  BY <1>1, OverGoesOn
<1>5. /\ Sound(events', surface')
      /\ Answered(events') <=> Answered(events)
      /\ OpenAt(events', Len(events')) <=> OpenAt(events, Len(events))
      /\ \A c : NewestCall(events', Len(events'), c) <=> NewestCall(events, Len(events), c)
      /\ \A c : AnswersTo(events', Len(events'), c) = AnswersTo(events, Len(events), c)
      /\ surface' = surface
      /\ Unpaired(events') = Unpaired(events) \ {e.start}
  <2>1. e.kind \notin {"calls", "result", "summary", "turn", "turnEnd"} /\ e.kind \notin History
    BY <1>2 DEF History
  <2> QED
    BY <1>1, <1>2, <1>3, <2>1, Holding, QuietWrite
<1>6. TurnSound(turn', events', surface')
  BY <1>4, <1>5, OverSound
<1>7. AttemptSound(attempt', turn', events', surface')
  BY <1>4, NoAttemptIs, AttemptNone
<1>8. Paired(attempt', events')
  <2>1. Unpaired(events') = {}
    BY <1>2, <1>5, BracketIsOpen
  <2> QED
    BY <1>4, <2>1, NoAttemptIs DEF Paired
<1> QED
  BY <1>5, <1>6, <1>7, <1>8, Kept

LEMMA SummaryFailsKeeps == ASSUME CInv, SummaryFails PROVE CInv'
BY DeclineKeeps DEF SummaryFails

(* The three records of a compaction.                                       *)
Records(plan, start) ==
  <<Applied({plan[i] : i \in DOMAIN plan}), Summary(plan[1], plan[Len(plan)]),
    CompactionEnd(start, "applied")>>

LEMMA SummaryWritten ==
  ASSUME NEW l, NEW s, Sound(l, s), Answered(l), NEW plan, PlanSound(plan, l, s),
         NEW start, Unpaired(l) = {start}, start \in 1..Len(l), l[start].kind = "start"
  PROVE  LET m == l \o Records(plan, start)
         IN  /\ \E t : Sound(m, t)
             /\ Answered(m) /\ Unpaired(m) = {} /\ (OpenAt(m, Len(m)) <=> OpenAt(l, Len(l)))
             /\ Len(l) <= Len(m) /\ \A i \in 1..Len(l) : m[i] = l[i]
             /\ (\A c : NewestCall(m, Len(m), c) <=> NewestCall(l, Len(l), c))
             /\ \A c : AnswersTo(m, Len(m), c) = AnswersTo(l, Len(l), c)
<1> DEFINE a == Applied({plan[i] : i \in DOMAIN plan})
           b == Summary(plan[1], plan[Len(plan)])
           e == CompactionEnd(start, "applied")
           l1 == Append(l, a)
           l2 == Append(l1, b)
           m == Append(l2, e)
           n == Len(l)
<1>1. PICK c \in 1..Len(s) : c < Len(s) /\ plan = SubSeq(s, 1, c) /\ l[s[c + 1]].kind # "result"
  BY DEF PlanSound
<1>2. s \in Seq(Nat) /\ n \in Nat /\ IsLog(l) /\ Regular(l) /\ \A i \in 1..Len(s) : s[i] \in 1..n
  BY SoundShape DEF Sound
<1>3. Len(plan) = c /\ DOMAIN plan = 1..c /\ \A i \in 1..c : plan[i] = s[i]
  <2>1. IsLog(s) /\ c \in 0..Len(s)
    BY <1>1, <1>2 DEF IsLog
  <2>2. IsLog(plan) /\ Len(plan) = c /\ \A i \in 1..c : plan[i] = s[i]
    BY <1>1, <2>1, PrefixFacts
  <2> QED
    BY <2>2, LogFacts
<1>4. /\ a.kind = "applied" /\ a.shadowed = {s[i] : i \in 1..c}
      /\ b.kind = "summary" /\ b.first = s[1] /\ b.last = s[c]
      /\ e.kind = "end" /\ e.start = start
  <2>1. {plan[i] : i \in DOMAIN plan} = {s[i] : i \in 1..c}
    BY <1>3
  <2>2. 1 \in 1..c /\ c \in 1..c
    BY <1>1
  <2> QED
    BY <1>3, <2>1, <2>2 DEF Applied, Summary, CompactionEnd
<1>5. l \o Records(plan, start) = m
  <2>1. \A x, y, z : l \o <<x, y, z>> = Append(Append(Append(l, x), y), z)
    <3>1. IsLog(l)
      BY <1>2
    <3> HIDE DEF a, b, e, l1, l2, m, n
    <3> QED
      BY <3>1, AppendThreeAll
  <2>2. Records(plan, start) = <<a, b, e>>
    BY DEF Records
  <2> HIDE DEF a, b, e
  <2>3. l \o <<a, b, e>> = m
    BY <2>1
  <2> QED
    BY <2>2, <2>3
<1> HIDE DEF a, b, e
<1>6. /\ IsLog(l1) /\ Len(l1) = n + 1 /\ l1[n + 1] = a /\ \A i \in 1..n : l1[i] = l[i]
  BY <1>2, AppendFacts
<1>7. /\ IsLog(l2) /\ Len(l2) = (n + 1) + 1 /\ \A i \in 1..(n + 1) : l2[i] = l1[i]
  <2>1. /\ IsLog(l2) /\ Len(l2) = Len(l1) + 1 /\ \A i \in 1..Len(l1) : l2[i] = l1[i]
    BY <1>6, AppendFacts
  <2> QED
    BY <1>6, <2>1
<1>8. /\ IsLog(m) /\ Len(m) = ((n + 1) + 1) + 1 /\ \A i \in 1..((n + 1) + 1) : m[i] = l2[i]
  <2>1. /\ IsLog(m) /\ Len(m) = Len(l2) + 1 /\ \A i \in 1..Len(l2) : m[i] = l2[i]
    BY <1>7, AppendFacts
  <2> QED
    BY <1>7, <2>1
<1>9. Len(l) <= Len(m) /\ \A i \in 1..Len(l) : m[i] = l[i]
  <2>1. \A i \in 1..n : i \in 1..(n + 1) /\ i \in 1..((n + 1) + 1)
    BY <1>2
  <2> QED
    BY <1>2, <1>6, <1>7, <1>8, <2>1
<1>10. Sound(l1, s)
  <2>1. \A i \in 1..c : i \in 1..Len(s)
    BY <1>1, <1>2
  <2>2. a.shadowed \subseteq Elements(s)
    BY <1>4, <2>1 DEF Elements
  <2>3. May(l, n, a, s) /\ Apply(s, a, n + 1) = s
    BY <1>4, <2>2 DEF May, History, Apply
  <2>4. Sound(l1, Apply(s, a, n + 1))
    BY <2>3, SoundAppend
  <2> QED
    BY <2>3, <2>4
<1> DEFINE t == Apply(s, b, (n + 1) + 1)
<1>11. Sound(l2, t)
  <2>1. s[c + 1] \in 1..n
    BY <1>1, <1>2
  <2>2. l1[s[c + 1]].kind # "result"
    BY <1>1, <1>6, <2>1
  <2>3. \A i \in 1..c : s[i] \in ShadowedTo(l1, n + 1)
    <3>1. n + 1 \in 1..(n + 1)
      BY <1>2
    <3> QED
      BY <1>4, <1>6, <3>1 DEF ShadowedTo
  <2>4. May(l1, Len(l1), b, s)
    BY <1>1, <1>4, <1>6, <2>2, <2>3 DEF May, History
  <2>5. Sound(l2, Apply(s, b, Len(l1) + 1))
    BY <1>10, <2>4, SoundAppend
  <2> QED
    BY <1>6, <2>5
<1> HIDE DEF t
<1>12. Sound(m, t)
  <2>1. start \in 1..Len(l2) /\ l2[start].kind = "start"
    <3>1. start \in 1..n /\ start \in 1..(n + 1) /\ start \in 1..((n + 1) + 1)
      BY <1>2
    <3> QED
      BY <1>6, <1>7, <3>1
  <2>2. May(l2, Len(l2), e, t)
    BY <1>4, <2>1 DEF May, History
  <2>3. Sound(m, Apply(t, e, Len(l2) + 1))
    BY <1>11, <2>2, SoundAppend
  <2>4. Apply(t, e, Len(l2) + 1) = t
    BY <1>4 DEF Apply
  <2> QED
    BY <2>3, <2>4
<1>13. Unpaired(m) = {}
  <2>1. Unpaired(l1) = Unpaired(l)
    BY <1>2, <1>4, UnpairedAppend
  <2>2. Unpaired(l2) = Unpaired(l1)
    BY <1>4, <1>10, UnpairedAppend DEF Sound
  <2>3. Unpaired(m) = Unpaired(l2) \ {e.start}
    BY <1>4, <1>11, UnpairedAppend DEF Sound
  <2> QED
    BY <1>4, <2>1, <2>2, <2>3
<1>14. OpenAt(m, Len(m)) <=> OpenAt(l, n)
  <2>1. OpenAt(l1, n + 1) <=> OpenAt(l, n)
    BY <1>2, <1>4, OpenAppend
  <2>2. OpenAt(l2, Len(l1) + 1) <=> OpenAt(l1, Len(l1))
    BY <1>4, <1>6, OpenAppend
  <2>3. OpenAt(m, Len(l2) + 1) <=> OpenAt(l2, Len(l2))
    BY <1>4, <1>7, OpenAppend
  <2> QED
    BY <1>6, <1>7, <1>8, <2>1, <2>2, <2>3
<1>15. /\ Answered(m)
       /\ \A d : NewestCall(m, Len(m), d) <=> NewestCall(l, Len(l), d)
       /\ \A d : AnswersTo(m, Len(m), d) = AnswersTo(l, Len(l), d)
  <2>1. /\ Answered(l1) <=> Answered(l)
        /\ \A d : NewestCall(l1, Len(l1), d) <=> NewestCall(l, Len(l), d)
        /\ \A d : AnswersTo(l1, Len(l1), d) = AnswersTo(l, Len(l), d)
    BY <1>2, <1>4, AnsweredAppend
  <2>2. /\ Answered(l2) <=> Answered(l1)
        /\ \A d : NewestCall(l2, Len(l2), d) <=> NewestCall(l1, Len(l1), d)
        /\ \A d : AnswersTo(l2, Len(l2), d) = AnswersTo(l1, Len(l1), d)
    <3>1. b.kind \notin {"calls", "result"}
      BY <1>4
    <3> HIDE DEF l1
    <3> QED
      BY <1>6, <3>1, AnsweredAppend
  <2>3. /\ Answered(m) <=> Answered(l2)
        /\ \A d : NewestCall(m, Len(m), d) <=> NewestCall(l2, Len(l2), d)
        /\ \A d : AnswersTo(m, Len(m), d) = AnswersTo(l2, Len(l2), d)
    <3>1. e.kind \notin {"calls", "result"}
      BY <1>4
    <3> HIDE DEF l1, l2
    <3> QED
      BY <1>7, <3>1, AnsweredAppend
  <2> QED
    BY <2>1, <2>2, <2>3
<1> HIDE DEF m, l1, l2
<1> QED
  BY <1>5, <1>9, <1>12, <1>13, <1>14, <1>15

LEMMA SummarisedKeeps == ASSUME CInv, Summarised PROVE CInv'
<1>1. attempt.phase = "summarising"
  BY DEF Summarised
<1>2. CASE Decline("declined")
  BY <1>1, <1>2, DeclineKeeps
<1>3. CASE ~Decline("declined")
  <2> DEFINE plan == attempt.plan
             start == attempt.start
             es == Records(plan, start)
             m == events \o es
  <2>1. Status = attempt.status /\ Write(es) /\ Over(TRUE)
    BY <1>3 DEF Summarised, TurnStarted, Records
  <2>2. turn.at \notin {"tools", "streaming"}
    <3>1. \/ attempt.status = "idle"
          \/ attempt.host \in OfTurns /\ turn.at = Holds(attempt.host)
      BY <1>1, Holding DEF AttemptSound
    <3> QED
      BY <2>1, <3>1, Holding, StatusIs, HoldsWhere
  <2>3. Answered(events) /\ PlanSound(plan, events, surface)
    BY <1>1, <2>2, Holding DEF TurnSound, AttemptSound
  <2>4. /\ \E t : Sound(m, t)
        /\ Answered(m) /\ Unpaired(m) = {} /\ (OpenAt(m, Len(m)) <=> OpenAt(events, Len(events)))
        /\ Len(events) <= Len(m) /\ \A i \in 1..Len(events) : m[i] = events[i]
        /\ (\A c : NewestCall(m, Len(m), c) <=> NewestCall(events, Len(events), c))
        /\ \A c : AnswersTo(m, Len(m), c) = AnswersTo(events, Len(events), c)
    <3>1. /\ Sound(events, surface) /\ Unpaired(events) = {start}
          /\ start \in 1..Len(events) /\ events[start].kind = "start"
      BY <1>1, Holding, BracketIsOpen
    <3> HIDE DEF plan, start
    <3> QED
      BY <2>3, <3>1, SummaryWritten
  <2>11. events \o es = m
    OBVIOUS
  <2> HIDE DEF es, m
  <2>5. PICK t : Sound(m, t)
    BY <2>4
  <2>6. events' = m /\ surface' = t
    BY <2>1, <2>4, <2>5, <2>11, Holding, WriteAll
  <2>7. /\ attempt' = NoAttempt
        /\ turn' \in TurnType /\ turn'.seen = turn.seen
        /\ turn'.at = turn.at
           \/ (turn.at \in {"boundary", "stopping", "recovering"}
                /\ turn'.at \in {"entering", "stopped", "asking", "ending"})
    BY <1>1, <2>1, OverGoesOn
  <2>8. TurnSound(turn', m, t)
    BY <2>2, <2>3, <2>4, <2>7, OverSound
  <2>9. AttemptSound(attempt', turn', m, t)
    BY <2>7, NoAttemptIs, AttemptNone
  <2>10. Paired(attempt', m)
    BY <2>4, <2>7, NoAttemptIs DEF Paired
  <2> QED
    BY <2>5, <2>6, <2>8, <2>9, <2>10, Kept
<1> QED
  BY <1>2, <1>3

(* A log that is continued shows what it does from its beginning.           *)
LEMMA ContinueKeeps ==
  ASSUME NEW m, NEW t, Sound(m, t), Unpaired(m) = {}, ~OpenAt(m, Len(m)), Continue(m)
  PROVE  CInv'
<1>1. events' = m /\ surface' = Surface(<<>>, m, 0) /\ turn' = NoTurn /\ attempt' = NoAttempt
  BY DEF Continue
<1>2. Surface(<<>>, m, 0) = Shown(m)[Len(m)]
  BY DEF Surface, Shown, After
<1>3. surface' = t
  BY <1>1, <1>2 DEF Sound
<1>4. Answered(m)
  BY AllComplete, CompleteIsAnswered
<1>5. TurnSound(NoTurn, m, t)
  BY <1>4, NoTurnIs DEF TurnSound
<1>6. AttemptSound(NoAttempt, NoTurn, m, t)
  BY NoAttemptIs, AttemptNone
<1>7. Paired(NoAttempt, m)
  BY NoAttemptIs DEF Paired
<1> QED
  BY <1>1, <1>3, <1>5, <1>6, <1>7, Kept

LEMMA ResumeSessionKeeps == ASSUME CInv, ResumeSession PROVE CInv'
<1>1. PICK k \in Cuts : Continue(ClosedTurn(ClosedBrackets(SubSeq(events, 1, k))))
  BY DEF ResumeSession
<1> DEFINE p == SubSeq(events, 1, k)
           q == ClosedBrackets(p)
           m == ClosedTurn(q)
<1>2. k \in 0..Len(events)
  BY <1>1 DEF Cuts
<1>3. Sound(p, Shown(events)[k])
  BY <1>2, Holding, SoundPrefix DEF Sound
<1> HIDE DEF p
<1>4. Sound(q, Shown(events)[k]) /\ Unpaired(q) = {}
  BY <1>3, ClosedBracketsSound
<1> HIDE DEF q
<1>5. (\E t : Sound(m, t)) /\ Unpaired(m) = {} /\ ~OpenAt(m, Len(m))
  BY <1>4, ClosedTurnSound
<1>6. Continue(m)
  BY <1>1 DEF p, q
<1> HIDE DEF m
<1> QED
  BY <1>5, <1>6, ContinueKeeps

LEMMA ForkSessionKeeps == ASSUME CInv, ForkSession PROVE CInv'
<1>1. PICK k \in Cuts : ~OpenTurn(SubSeq(events, 1, k)) /\ Continue(ForkSeed(SubSeq(events, 1, k)))
  BY DEF ForkSession
<1> DEFINE p == SubSeq(events, 1, k)
           m == ClosedBrackets(p)
<1>2. k \in 0..Len(events)
  BY <1>1 DEF Cuts
<1>3. Sound(p, Shown(events)[k])
  BY <1>2, Holding, SoundPrefix DEF Sound
<1>4. ~OpenTurn(p) /\ Continue(m)
  BY <1>1 DEF ForkSeed
<1> HIDE DEF p
<1>5. ~OpenAt(p, Len(p))
  BY <1>3, <1>4, OpenTurnIsOpen DEF Sound
<1>6. Sound(m, Shown(events)[k]) /\ Unpaired(m) = {} /\ (OpenAt(m, Len(m)) => OpenAt(p, Len(p)))
  BY <1>3, ClosedBracketsSound
<1> HIDE DEF m
<1> QED
  BY <1>4, <1>5, <1>6, ContinueKeeps

LEMMA InitCInv == CInit => CInv
<1> SUFFICES ASSUME CInit PROVE CInv
  OBVIOUS
<1>1. events = <<>> /\ surface = <<>> /\ turn = NoTurn /\ attempt = NoAttempt
  BY DEF CInit
<1>2. IsLog(<<>>) /\ Len(<<>>) = 0 /\ DOMAIN <<>> = {} /\ \A i : i \notin 1..0
  BY EmptyIsLog
<1>3. Sound(<<>>, <<>>)
  BY <1>2, ShownFold DEF Sound, Regular
<1>4. ~OpenAt(<<>>, Len(<<>>)) /\ Answered(<<>>) /\ Unpaired(<<>>) = {}
  BY <1>2 DEF OpenAt, Answered, NewestCall, Unpaired, Of
<1>5. TurnSound(NoTurn, <<>>, <<>>)
  BY <1>4, NoTurnIs DEF TurnSound
<1>6. AttemptSound(NoAttempt, NoTurn, <<>>, <<>>)
  BY NoAttemptIs, AttemptNone
<1>7. Paired(NoAttempt, <<>>)
  BY <1>4, NoAttemptIs DEF Paired
<1> QED
  BY <1>1, <1>3, <1>5, <1>6, <1>7 DEF CInv

LEMMA NextCInv == CInv /\ [CNext]_cvars => CInv'
<1> SUFFICES ASSUME CInv, [CNext]_cvars PROVE CInv'
  OBVIOUS
<1>1. CASE DriverSteps
  BY <1>1, PreStepCompactsKeeps, StepEntersKeeps, AskKeeps, AnswersCallsKeeps, AnswersTextKeeps,
     OverflowsKeeps, FailsKeeps, RetryKeeps, ReturnKeeps, StoppedKeeps, EndTurnKeeps DEF DriverSteps
<1>2. CASE AttemptSteps
  BY <1>2, NothingToDoKeeps, PlanKeeps, SummaryFailsKeeps, SummarisedKeeps DEF AttemptSteps
<1>3. CASE Prompt \/ CancelTurn \/ compactNow \/ ResumeSession \/ ForkSession
  BY <1>3, PromptKeeps, CancelTurnKeeps, CompactNowKeeps, ResumeSessionKeeps, ForkSessionKeeps
<1>4. CASE UNCHANGED cvars
  <2>1. events' = events /\ surface' = surface /\ turn' = turn /\ attempt' = attempt
    BY <1>4 DEF cvars
  <2> QED
    BY <2>1 DEF CInv, Paired
<1> QED
  BY <1>1, <1>2, <1>3, <1>4 DEF CNext

(* The inductive invariant of a session's history: the log is one whose     *)
(* every record fits those before it, and the surface, the turn and the     *)
(* attempt are what that log says (`Surface.apply`, `compactNow`,           *)
(* `repairInterruptedTail`).                                                *)
THEOREM HistoryInvariance == CSpec => []CInv
<1>1. CInit => CInv
  BY InitCInv
<1>2. CInv /\ [CNext]_cvars => CInv'
  BY NextCInv
<1> QED
  BY <1>1, <1>2, PTL DEF CSpec

(* For any number of turns, retries, compactions, crashes and forks: no     *)
(* summary lands while a request that was built from the history is         *)
(* unanswered (the status a plan began with, compared before the replace in *)
(* `compactNow`).                                                           *)
THEOREM AnswersItSaw == CSpec => []AnswersWhatItSaw
<1>1. CInv => AnswersWhatItSaw
  BY DEF CInv, TurnSound, AnswersWhatItSaw, TurnAt
<1> QED
  BY <1>1, HistoryInvariance, PTL

(* Every request carries its calls with all their results, whatever was     *)
(* summarised, cancelled or cut off before (the pairing rule of             *)
(* `planCompaction`, `repairInterruptedTail`).                              *)
THEOREM WholeRequests == CSpec => []RequestsAreWhole
<1>1. ASSUME CInv PROVE RequestsAreWhole
  <2> DEFINE seen == turn.seen
  <2>1. /\ turn.at = "streaming" => seen = surface
        /\ turn.at # "streaming" => seen = <<>>
    BY <1>1, Holding DEF TurnSound
  <2>2. CASE turn.at # "streaming"
    <3>1. DOMAIN seen = {}
      BY <2>1, <2>2
    <3> QED
      BY <3>1 DEF RequestsAreWhole
  <2>3. CASE turn.at = "streaming"
    <3>1. seen = surface /\ Grouped(events, seen) /\ seen \in Seq(Nat)
      BY <1>1, <2>1, <2>3, Holding, SoundShape DEF Shape
    <3>2. Complete(events, seen)
      BY <1>1, <2>3, <3>1, Holding, CompleteIsAnswered DEF TurnSound
    <3> HIDE DEF seen
    <3>3. DOMAIN seen = 1..Len(seen) /\ Len(seen) \in Nat
      BY <3>1
    <3>4. ASSUME NEW i \in DOMAIN seen, events[seen[i]].kind = "calls"
          PROVE  /\ i + Len(Tools) <= Len(seen)
                 /\ \A k \in DOMAIN Tools : events[seen[i + k]] = Result(seen[i], Tools[k])
      <4>1. i \in 1..Len(seen) /\ i # 0
        BY <3>3
      <4>2. i + 2 <= Len(seen)
        BY <3>2, <3>4, <4>1 DEF Complete, CompleteBut
      <4>3. \A k \in 1..2 : i + k <= Len(seen)
        BY <3>3, <4>1, <4>2
      <4>4. \A k \in 1..2 : events[seen[i + k]] = Result(seen[i], Tools[k])
        BY <3>1, <3>4, <4>1, <4>3 DEF Grouped
      <4> QED
        BY <4>2, <4>4, ToolsAreTwo
    <3>5. ASSUME NEW i \in DOMAIN seen, events[seen[i]].kind = "result"
          PROVE  \E j \in 1..(i - 1) : seen[j] = events[seen[i]].of
      <4>1. i \in 1..Len(seen)
        BY <3>3
      <4>2. PICK k \in 1..2 : i - k >= 1 /\ events[seen[i]] = Result(seen[i - k], Tools[k])
        BY <3>1, <3>5, <4>1 DEF Grouped
      <4>3. i - k \in 1..(i - 1)
        BY <3>3, <4>1, <4>2
      <4>4. events[seen[i]].of = seen[i - k]
        BY <4>2 DEF Result
      <4> QED
        BY <4>3, <4>4
    <3> QED
      BY <3>4, <3>5 DEF RequestsAreWhole, seen
  <2> QED
    BY <2>2, <2>3
<1> QED
  BY <1>1, HistoryInvariance, PTL

(* What may be read back is what the model can no longer see, less what     *)
(* reading back returned, and no bracket is open but the one of the attempt *)
(* that runs (`foldRecall`, `closeUnpairedCompactions`).                    *)
THEOREM KeepsHistory == CSpec => []HistoryIsKept
<1>1. ASSUME CInv PROVE HistoryIsKept
  <2> DEFINE n == Len(events)
  <2>1. /\ n \in Nat /\ DOMAIN events = 1..n
        /\ Shows(events, n, surface) /\ Hides(events, n, surface)
    BY <1>1, Holding, LogFacts, SoundShape DEF Shape
  <2>2. Live = Elements(surface)
    BY <2>1 DEF Live, Elements, Shows
  <2>3. Shadowed(events) = ShadowedTo(events, n)
    <3>1. Of(events, {"applied"}) = {j \in 1..n : events[j].kind = "applied"}
      BY <2>1 DEF Of
    <3> QED
      BY <3>1 DEF Shadowed, ShadowedTo
  <2>4. Of(events, {"user", "say", "calls", "result", "summary"}) = HistoryTo(events, n)
    BY <2>1 DEF Of, HistoryTo, History
  <2>5. ReadsBackWhatIsHidden
    BY <2>1, <2>2, <2>3, <2>4 DEF ReadsBackWhatIsHidden, Admissible, Hides
  <2>6. BracketsPair
    BY <1>1 DEF CInv, Paired, BracketsPair
  <2> QED
    BY <2>5, <2>6 DEF HistoryIsKept
<1> QED
  BY <1>1, HistoryInvariance, PTL
=============================================================================
