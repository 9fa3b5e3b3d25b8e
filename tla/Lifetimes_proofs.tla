-------------------------- MODULE Lifetimes_proofs --------------------------
(***************************************************************************)
(* What is mounted, bound or delegated lives exactly as long as it should. *)
(* Of agents: what is found of one is whole, and a delegated child lives   *)
(* and works within its call.  Of plugins: nothing is stranded, and each   *)
(* is active exactly under the providers it was last told of.  For any     *)
(* family of agents, any number of turns, and any plugins, scopes and keys.*)
(***************************************************************************)
EXTENDS AgentLife, Kernel, FiniteSetTheorems, SequenceTheorems,
        WellFoundedInduction, TLAPS

Rec == [kind : {"scope", "life", "owned"}, of : Agent]

On(o) == ToSet(effects[o])

Typed ==
  /\ create \in [Agent -> {"none", "setup", "settling", "flushing", "live", "rolling", "failed"}]
  /\ session \in [Agent -> {"none", "held", "published", "closed"}]
  /\ registered \subseteq Agent /\ running \subseteq Agent
  /\ life \in [Agent -> {"none", "cancelled", "unwinding", "unwound", "unregistered", "done"}]
  /\ call \in [Agent -> {"none", "creating", "awaiting", "flushing", "leaving", "done"}]
  /\ told \in [Agent -> Nat \X Nat]
  /\ open \in [Holder -> {"none", "open", "unwinding", "closed"}]
  /\ effects \in [Holder -> Seq(Rec)]
  /\ awaiting \in [Holder -> Rec \union {Nothing}]

(* How far a creation, a disposal and the stores of an agent go together.   *)
Whole(a) ==
  /\ create[a] \in {"none", "setup", "settling", "flushing"} => life[a] = "none"
  /\ create[a] \in {"none", "setup", "settling"} => a \notin registered /\ a \notin running
  /\ create[a] = "rolling" => life[a] \notin {"none", "done"}
  /\ create[a] = "failed" => session[a] = "closed" /\ a \notin registered /\ a \notin running
  /\ a \in registered => session[a] = "published" /\ life[a] \notin {"unregistered", "done"}
  /\ a \in running => session[a] = "published" /\ life[a] \in {"none", "cancelled"}
  /\ create[a] \in {"flushing", "live"} /\ life[a] = "none" => a \in registered

LifeInv == \A a \in Agent : Whole(a)

(* A lifetime record is of an agent that came to be bound and is not gone.  *)
RecordInv ==
  \A a \in Agent, o \in Holder :
    LifeOf(a) \in On(o) \/ OwnedBy(a) \in On(o) =>
      create[a] \in {"live", "rolling"} /\ life[a] # "done"

(* What the delegating call knows of its child.                             *)
Follows(c) ==
  /\ IF Delegated(c) THEN call[c] = "none" <=> create[c] = "none" ELSE call[c] = "none"
  /\ call[c] \notin {"none", "done"} => Parent[c] \in running
  /\ call[c] \in {"awaiting", "flushing", "leaving"} => create[c] = "live"
  /\ call[c] = "done" => create[c] = "failed" \/ (create[c] = "live" /\ life[c] = "done")
  /\ told[c] = CASE call[c] \in {"none", "creating"} -> <<0, 0>>
                 [] call[c] \in {"awaiting", "flushing"} -> <<1, 0>>
                 [] call[c] = "leaving" -> <<1, 1>>
                 [] call[c] = "done" -> IF create[c] = "live" THEN <<1, 1>> ELSE <<0, 0>>

CallInv == \A c \in Agent : Follows(c)

(* A bound agent that is not gone is on both its owners' lists, or is what  *)
(* the unwind of the owner waits for.                                       *)
OwnerInv ==
  /\ \A a \in Agent : create[a] = "live" /\ life[a] # "done" =>
       /\ LifeOf(a) \in On(Loop) \/ awaiting[Loop] = LifeOf(a)
       /\ OwnedBy(a) \in On(Parent[a]) \/ awaiting[Parent[a]] = OwnedBy(a)
  /\ \A o \in Holder : open[o] = "closed" => On(o) = {} /\ awaiting[o] = Nothing

IInv == Typed /\ LifeInv /\ RecordInv /\ CallInv /\ OwnerInv

-----------------------------------------------------------------------------
(* An owner's list: what a record added, taken off or popped leaves on it.  *)

LEMMA Holders ==
  /\ App \in Holder /\ Loop \in Holder /\ App # Loop /\ Loop \notin Agent /\ App \notin Agent
  /\ \A a \in Agent : a \in Holder /\ Parent[a] \in Holder /\ Parent[a] # Loop
  BY LifeAssumption DEF Holder

LEMMA RecordsDiffer ==
  /\ \A a \in Agent : {ScopeOf(a), LifeOf(a), OwnedBy(a)} \subseteq Rec
  /\ Nothing \notin Rec
  /\ \A a, b \in Agent : /\ LifeOf(a) # OwnedBy(b) /\ LifeOf(a) # ScopeOf(b) /\ OwnedBy(a) # ScopeOf(b)
                         /\ (LifeOf(a) = LifeOf(b) => a = b) /\ (OwnedBy(a) = OwnedBy(b) => a = b)
  BY DEF Rec, ScopeOf, LifeOf, OwnedBy, Nothing

LEMMA AppendOn ==
  ASSUME NEW S, NEW s \in Seq(S), NEW r \in S
  PROVE  Append(s, r) \in Seq(S) /\ ToSet(Append(s, r)) = ToSet(s) \union {r}
<1> DEFINE t == Append(s, r)
           n == Len(s)
<1>1. t \in Seq(S) /\ n \in Nat /\ DOMAIN s = 1..n /\ DOMAIN t = 1..(n + 1)
  BY LenProperties, AppendProperties
<1>2. (\A i \in 1..n : t[i] = s[i]) /\ t[n + 1] = r
  BY AppendProperties
<1>3. \A i : i \in 1..(n + 1) <=> i \in 1..n \/ i = n + 1
  BY <1>1
<1> HIDE DEF t, n
<1>4. ToSet(t) = ToSet(s) \union {r}
  BY <1>1, <1>2, <1>3 DEF ToSet
<1> QED
  BY <1>1, <1>4 DEF t

LEMMA LastOn ==
  ASSUME NEW S, NEW s \in Seq(S), s # <<>>
  PROVE  /\ Front(s) \in Seq(S) /\ Last(s) \in S
         /\ ToSet(s) = ToSet(Front(s)) \union {Last(s)}
<1> DEFINE n == Len(s)
           t == Front(s)
<1>1. n \in Nat /\ n # 0 /\ DOMAIN s = 1..n
  BY LenProperties, EmptySeq
<1>2. t = [i \in 1..(n - 1) |-> s[i]]
  BY <1>1, SubSeqProperties DEF Front
<1>3. t \in Seq(S) /\ DOMAIN t = 1..(n - 1) /\ \A i \in 1..(n - 1) : t[i] = s[i]
  <2>1. t \in [1..(n - 1) -> S]
    BY <1>1, <1>2
  <2> QED
    BY <1>1, <1>2, <2>1, SeqDef
<1>4. Last(s) = s[n] /\ s[n] \in S
  BY <1>1 DEF Last
<1>5. \A i : i \in 1..n <=> i \in 1..(n - 1) \/ i = n
  BY <1>1
<1> HIDE DEF n, t
<1>6. ToSet(s) = ToSet(t) \union {s[n]}
  BY <1>1, <1>3, <1>5 DEF ToSet
<1> QED
  BY <1>3, <1>4, <1>6 DEF t

Before(S, i) == {j \in S : j < i}
Rank(S, i) == Cardinality(Before(S, i))

(* Each of a set of places in a list has a rank of its own, and no rank is  *)
(* left out: what stays on the list can be written down in order.           *)
LEMMA PlacesAreFinite ==
  ASSUME NEW n \in Nat, NEW S \in SUBSET (1..n)
  PROVE  IsFiniteSet(S) /\ Cardinality(S) \in Nat
<1>1. IsFiniteSet(1..n)
  BY FS_Interval
<1>2. IsFiniteSet(S)
  BY <1>1, FS_Subset
<1> QED
  BY <1>2, FS_CardinalityType

LEMMA RankBound ==
  ASSUME NEW n \in Nat, NEW S \in SUBSET (1..n), NEW i \in S
  PROVE  Rank(S, i) \in Nat /\ Rank(S, i) < Cardinality(S)
<1>1. Before(S, i) \in SUBSET S /\ i \notin Before(S, i)
  BY DEF Before
<1>2. IsFiniteSet(S) /\ Cardinality(S) \in Nat
  BY PlacesAreFinite
<1>3. Cardinality(Before(S, i)) \in Nat /\ Cardinality(Before(S, i)) <= Cardinality(S)
  BY <1>1, <1>2, FS_Subset, FS_CardinalityType
<1>4. Cardinality(Before(S, i)) # Cardinality(S)
  BY <1>1, <1>2, FS_Subset
<1> QED
  BY <1>2, <1>3, <1>4 DEF Rank

LEMMA RanksDiffer ==
  ASSUME NEW n \in Nat, NEW S \in SUBSET (1..n), NEW i \in S, NEW k \in S, Rank(S, i) = Rank(S, k)
  PROVE  i = k
<1>1. ASSUME NEW x \in S, NEW y \in S, x < y PROVE Rank(S, x) # Rank(S, y)
  <2>1. x \in Nat /\ y \in Nat /\ ~(x < x)
    OBVIOUS
  <2>0. \A j \in S : j < x => j < y
    BY <1>1
  <2>2. Before(S, x) \in SUBSET Before(S, y) /\ x \in Before(S, y) /\ x \notin Before(S, x)
    BY <1>1, <2>1, <2>0 DEF Before
  <2>3. Before(S, y) \in SUBSET (1..n)
    BY DEF Before
  <2>4. IsFiniteSet(Before(S, y))
    BY <2>3, PlacesAreFinite
  <2> QED
    BY <2>2, <2>4, FS_Subset DEF Rank
<1>2. i \in Nat /\ k \in Nat
  OBVIOUS
<1>3. i < k \/ k < i \/ i = k
  BY <1>2
<1> QED
  BY <1>1, <1>3

LEMMA RanksCover ==
  ASSUME NEW n \in Nat, NEW S \in SUBSET (1..n), NEW m \in 1..Cardinality(S)
  PROVE  \E i \in S : Rank(S, i) = m - 1
<1> DEFINE size == Cardinality(S)
           f == [i \in S |-> Rank(S, i) + 1]
<1>1. IsFiniteSet(S) /\ size \in Nat
  BY PlacesAreFinite
<1>2. ASSUME NEW i \in S PROVE f[i] \in 1..size /\ f[i] = Rank(S, i) + 1 /\ Rank(S, i) \in Nat
  BY <1>1, RankBound
<1>3. f \in [S -> 1..size]
  BY <1>2
<1>4. ASSUME NEW i \in S, NEW k \in S, f[i] = f[k] PROVE i = k
  <2>1. Rank(S, i) = Rank(S, k)
    BY <1>2, <1>4
  <2> QED
    BY <2>1, RanksDiffer
<1>5. DOMAIN f = S
  OBVIOUS
<1>6. IsFiniteSet(1..size) /\ Cardinality(1..size) = size
  BY <1>1, FS_Interval
<1> HIDE DEF f, size
<1>7. f \in Injection(S, 1..size)
  BY <1>3, <1>4, <1>5 DEF Injection, IsInjective
<1>8. f \in Surjection(S, 1..size)
  BY <1>6, <1>7, FS_Injection DEF size
<1>9. PICK i \in S : f[i] = m
  BY <1>8 DEF Surjection, size
<1> QED
  BY <1>2, <1>9

LEMMA WithoutOn ==
  ASSUME NEW S, NEW s \in Seq(S), NEW gone
  PROVE  Without(s, gone) \in Seq(S) /\ ToSet(Without(s, gone)) = ToSet(s) \ gone
<1> DEFINE n == Len(s)
           kept == {i \in DOMAIN s : s[i] \notin gone}
           nth(k) == CHOOSE i \in kept : Cardinality({p \in kept : p < i}) = k - 1
           size == Cardinality(kept)
           t == [k \in 1..size |-> s[nth(k)]]
<1>1. Without(s, gone) = t
  BY DEF Without
<1>2. n \in Nat /\ DOMAIN s = 1..n /\ kept \in SUBSET (1..n) /\ \A i \in 1..n : s[i] \in S
  BY LenProperties
<1>3. size \in Nat
  BY <1>2, PlacesAreFinite
<1>4. \A i : Rank(kept, i) = Cardinality({p \in kept : p < i})
  BY DEF Rank, Before
<1>5. \A k \in 1..size : nth(k) \in kept /\ Rank(kept, nth(k)) = k - 1
  <2> SUFFICES ASSUME NEW k \in 1..size PROVE nth(k) \in kept /\ Rank(kept, nth(k)) = k - 1
    OBVIOUS
  <2> HIDE DEF kept
  <2>1. \E i \in kept : Rank(kept, i) = k - 1
    BY <1>2, RanksCover DEF size
  <2> QED
    BY <2>1, <1>4
<1>6. \A i \in kept : \E k \in 1..size : nth(k) = i
  <2> SUFFICES ASSUME NEW i \in kept PROVE \E k \in 1..size : nth(k) = i
    OBVIOUS
  <2> HIDE DEF kept, nth
  <2>1. Rank(kept, i) \in Nat /\ Rank(kept, i) < size
    BY <1>2, RankBound DEF size
  <2>2. Rank(kept, i) + 1 \in 1..size /\ (Rank(kept, i) + 1) - 1 = Rank(kept, i)
    BY <2>1, <1>3
  <2>3. nth(Rank(kept, i) + 1) \in kept /\ Rank(kept, nth(Rank(kept, i) + 1)) = Rank(kept, i)
    BY <2>2, <1>5
  <2>4. nth(Rank(kept, i) + 1) = i
    BY <2>3, <1>2, RanksDiffer
  <2> QED
    BY <2>2, <2>4
<1>7. \A k \in 1..size : s[nth(k)] \in S /\ s[nth(k)] \notin gone /\ nth(k) \in DOMAIN s
  BY <1>2, <1>5
<1>8. \A i \in DOMAIN s : s[i] \notin gone => i \in kept
  OBVIOUS
<1> HIDE DEF nth, size, kept
<1>9. t \in Seq(S) /\ DOMAIN t = 1..size /\ \A k \in 1..size : t[k] = s[nth(k)]
  <2>1. t \in [1..size -> S]
    BY <1>7
  <2> QED
    BY <2>1, <1>3, SeqDef
<1> HIDE DEF t
<1>10. ToSet(t) \subseteq ToSet(s) \ gone
  BY <1>7, <1>9 DEF ToSet
<1>11. ASSUME NEW i \in DOMAIN s, s[i] \notin gone PROVE s[i] \in ToSet(t)
  <2>1. PICK k \in 1..size : nth(k) = i
    BY <1>6, <1>8, <1>11
  <2> QED
    BY <2>1, <1>9 DEF ToSet
<1>12. ToSet(s) \ gone \subseteq ToSet(t)
  BY <1>11 DEF ToSet
<1> QED
  BY <1>1, <1>9, <1>10, <1>12

-----------------------------------------------------------------------------
(* The steps that change the owners' lists, told by what is on them.        *)

(* A creation that began: at most its scope is new, on a list that is open. *)
Begun(a) ==
  /\ effects' \in [Holder -> Seq(Rec)]
  /\ \A o \in Holder : /\ On(o) \subseteq On(o)' /\ On(o)' \subseteq On(o) \union {ScopeOf(a)}
                       /\ open'[o] = "closed" => open[o] = "closed" /\ On(o)' = On(o)
  /\ open' \in [Holder -> {"none", "open", "unwinding", "closed"}]
  /\ create[a] = "none" /\ UNCHANGED <<registered, life, awaiting>>
  /\ create' \in [Agent -> {"none", "setup", "settling", "flushing", "live", "rolling", "failed"}]
  /\ session' \in [Agent -> {"none", "held", "published", "closed"}]
  /\ create'[a] = "setup" \/ (create'[a] = "failed" /\ session'[a] = "closed")
  /\ \A b \in Agent \ {a} : create'[b] = create[b] /\ session'[b] = session[b]

(* What binding one does to its owners: both records, or it rolls back.     *)
Bound(a) ==
  /\ effects' \in [Holder -> Seq(Rec)]
  /\ \A o \in Holder : /\ On(o) \subseteq On(o)' /\ On(o)' \subseteq On(o) \union {LifeOf(a), OwnedBy(a)}
                       /\ open[o] = "closed" => On(o)' = On(o)
  /\ create' \in [Agent -> {"none", "setup", "settling", "flushing", "live", "rolling", "failed"}]
  /\ life' \in [Agent -> {"none", "cancelled", "unwinding", "unwound", "unregistered", "done"}]
  /\ \A b \in Agent \ {a} : create'[b] = create[b] /\ life'[b] = life[b]
  /\ \/ /\ create'[a] = "live" /\ life'[a] = life[a]
        /\ LifeOf(a) \in On(Loop)' /\ OwnedBy(a) \in On(Parent[a])'
     \/ create'[a] = "rolling" /\ life'[a] = IF life[a] = "none" THEN "cancelled" ELSE life[a]

(* The lifetime records of one are off every list.                          *)
Freed(a) ==
  /\ effects' \in [Holder -> Seq(Rec)]
  /\ \A o \in Holder : On(o)' = On(o) \ {LifeOf(a), OwnedBy(a)}

(* The last record is what the unwind waits for, or a scope gone already.   *)
Popped(o) ==
  /\ effects' \in [Holder -> Seq(Rec)]
  /\ Ready(o)
  /\ \A h \in Holder \ {o} : On(h)' = On(h)
  /\ \E r \in Rec :
       /\ r \in On(o) /\ On(o) = On(o)' \union {r}
       /\ r.of \in Agent /\ (r = ScopeOf(r.of) \/ r = LifeOf(r.of) \/ r = OwnedBy(r.of))
       /\ awaiting'[o] = r \/ r = ScopeOf(r.of)
       /\ \A b \in Agent : \/ life'[b] = life[b]
                           \/ b = r.of /\ r # ScopeOf(r.of) /\ life[b] = "none" /\ life'[b] = "cancelled"
  /\ \A h \in Holder : open'[h] = "closed" <=> open[h] = "closed"
  /\ \A h \in Holder \ {o} : awaiting'[h] = awaiting[h]
  /\ open' \in [Holder -> {"none", "open", "unwinding", "closed"}]
  /\ awaiting' \in [Holder -> Rec \union {Nothing}]
  /\ life' \in [Agent -> {"none", "cancelled", "unwinding", "unwound", "unregistered", "done"}]

(* A list that ran empty, and the scope it was off the loop.                *)
Emptied(o) ==
  /\ effects' \in [Holder -> Seq(Rec)]
  /\ Ready(o) /\ On(o) = {} /\ On(o)' = {}
  /\ \A h \in Holder : On(h)' \subseteq On(h) /\ On(h) \subseteq On(h)' \union {ScopeOf(o)}

LEMMA DisposesFacts ==
  ASSUME Typed, NEW a \in Agent, Disposes(a)
  PROVE  /\ life' \in [Agent -> {"none", "cancelled", "unwinding", "unwound", "unregistered", "done"}]
         /\ \A b \in Agent : life'[b] = IF b = a /\ life[a] = "none" THEN "cancelled" ELSE life[b]
  BY DEF Typed, Disposes

LEMMA BeginsFacts ==
  ASSUME Typed, NEW a \in Agent, NEW how, Begins(a, how)
  PROVE  Begun(a)
<1> USE DEF Begun
<1>1. a \in Holder /\ Loop \in Holder /\ ScopeOf(a) \in Rec /\ DOMAIN effects = Holder /\ DOMAIN open = Holder
  BY Holders, RecordsDiffer DEF Typed
<1>2. effects[Loop] \in Seq(Rec)
  BY <1>1 DEF Typed
<1>3. CASE open[Loop] = "open"
  <2> DEFINE l == Append(effects[Loop], ScopeOf(a))
  <2>1. l \in Seq(Rec) /\ ToSet(l) = ToSet(effects[Loop]) \union {ScopeOf(a)}
    BY <1>1, <1>2, AppendOn
  <2>2. effects' = [effects EXCEPT ![Loop] = l] /\ open' = [open EXCEPT ![a] = "open"]
    BY <1>3 DEF Begins
  <2>3. /\ create' = [create EXCEPT ![a] = "setup"] /\ session' = [session EXCEPT ![a] = "held"]
        /\ create[a] = "none" /\ UNCHANGED <<registered, life, awaiting>>
    BY <1>3 DEF Begins
  <2> HIDE DEF l
  <2>4. /\ effects' \in [Holder -> Seq(Rec)]
        /\ \A o \in Holder : /\ On(o) \subseteq On(o)' /\ On(o)' \subseteq On(o) \union {ScopeOf(a)}
                             /\ open'[o] = "closed" => open[o] = "closed" /\ On(o)' = On(o)
        /\ open' \in [Holder -> {"none", "open", "unwinding", "closed"}]
    BY <1>1, <1>3, <2>1, <2>2, LifeAssumption DEF Typed, On
  <2> QED
    BY <2>3, <2>4 DEF Typed
<1>4. CASE open[Loop] # "open"
  <2>1. /\ create' = [create EXCEPT ![a] = "failed"] /\ session' = [session EXCEPT ![a] = "closed"]
        /\ create[a] = "none" /\ UNCHANGED <<registered, life, awaiting, open, effects>>
    BY <1>4 DEF Begins
  <2> QED
    BY <2>1 DEF Typed, On
<1> QED
  BY <1>3, <1>4

LEMMA BindsFacts ==
  ASSUME Typed, NEW a \in Agent, Binds(a)
  PROVE  Bound(a)
<1> USE DEF Bound
<1>1. /\ Parent[a] \in Holder /\ Loop \in Holder /\ Parent[a] # Loop
      /\ LifeOf(a) \in Rec /\ OwnedBy(a) \in Rec /\ DOMAIN effects = Holder
  BY Holders, RecordsDiffer DEF Typed
<1>2. effects[Loop] \in Seq(Rec) /\ effects[Parent[a]] \in Seq(Rec)
  BY <1>1 DEF Typed
<1> DEFINE l == Append(effects[Loop], LifeOf(a))
           p == Append(effects[Parent[a]], OwnedBy(a))
<1>3. l \in Seq(Rec) /\ ToSet(l) = ToSet(effects[Loop]) \union {LifeOf(a)}
  BY <1>1, <1>2, AppendOn
<1>4. p \in Seq(Rec) /\ ToSet(p) = ToSet(effects[Parent[a]]) \union {OwnedBy(a)}
  BY <1>1, <1>2, AppendOn
<1>5. CASE open[Loop] = "open" /\ open[Parent[a]] = "open"
  <2>1. /\ effects' = [effects EXCEPT ![Loop] = l, ![Parent[a]] = p]
        /\ create' = [create EXCEPT ![a] = "live"] /\ UNCHANGED <<life, aborted>>
    BY <1>1, <1>5 DEF Binds
  <2> HIDE DEF l, p
  <2>2. effects'[Loop] = l /\ effects'[Parent[a]] = p /\ \A o \in Holder \ {Loop, Parent[a]} : effects'[o] = effects[o]
    BY <1>1, <2>1
  <2>3. effects' \in [Holder -> Seq(Rec)]
    BY <1>3, <1>4, <2>1 DEF Typed
  <2>4. /\ \A o \in Holder : /\ On(o) \subseteq On(o)' /\ On(o)' \subseteq On(o) \union {LifeOf(a), OwnedBy(a)}
                             /\ open[o] = "closed" => On(o)' = On(o)
        /\ LifeOf(a) \in On(Loop)' /\ OwnedBy(a) \in On(Parent[a])'
    BY <1>1, <1>3, <1>4, <1>5, <2>2 DEF On
  <2> QED
    BY <2>1, <2>3, <2>4 DEF Typed
<1>6. CASE open[Loop] = "open" /\ open[Parent[a]] # "open"
  <2>1. /\ effects' = [effects EXCEPT ![Loop] = l]
        /\ create' = [create EXCEPT ![a] = "rolling"] /\ Disposes(a)
    BY <1>6 DEF Binds
  <2> HIDE DEF l
  <2>2. /\ effects' \in [Holder -> Seq(Rec)]
        /\ \A o \in Holder : /\ On(o) \subseteq On(o)' /\ On(o)' \subseteq On(o) \union {LifeOf(a), OwnedBy(a)}
                             /\ open[o] = "closed" => On(o)' = On(o)
    BY <1>1, <1>3, <1>6, <2>1 DEF Typed, On
  <2> QED
    BY <2>1, <2>2, DisposesFacts DEF Typed
<1>7. CASE open[Loop] # "open"
  <2>1. create' = [create EXCEPT ![a] = "rolling"] /\ Disposes(a) /\ UNCHANGED effects
    BY <1>7 DEF Binds
  <2> QED
    BY <2>1, DisposesFacts DEF Typed, On
<1> QED
  BY <1>5, <1>6, <1>7

LEMMA DetachFacts ==
  ASSUME Typed, NEW a \in Agent, Detach(a)
  PROVE  Freed(a)
<1> USE DEF Freed
<1> DEFINE gone == {LifeOf(a), OwnedBy(a)}
<1>1. effects' = [o \in Holder |-> Without(effects[o], gone)]
  BY DEF Detach
<1> HIDE DEF gone
<1>2. ASSUME NEW o \in Holder PROVE /\ Without(effects[o], gone) \in Seq(Rec)
                                    /\ ToSet(Without(effects[o], gone)) = On(o) \ gone
  <2>1. effects[o] \in Seq(Rec)
    BY DEF Typed
  <2> QED
    BY <2>1, WithoutOn DEF On
<1>3. \A o \in Holder : On(o)' = On(o) \ gone
  BY <1>1, <1>2 DEF On
<1> QED
  BY <1>1, <1>2, <1>3 DEF gone

LEMMA PopFacts ==
  ASSUME Typed, NEW o \in Holder, Pop(o)
  PROVE  Popped(o)
<1> USE DEF Popped
<1> DEFINE r == Last(effects[o])
           f == Front(effects[o])
<1>1. effects[o] \in Seq(Rec) /\ effects[o] # <<>> /\ DOMAIN effects = Holder /\ Ready(o)
  BY DEF Typed, Pop
<1>2. f \in Seq(Rec) /\ r \in Rec /\ ToSet(effects[o]) = ToSet(f) \union {r}
  BY <1>1, LastOn
<1>3. effects' = [effects EXCEPT ![o] = f]
  BY DEF Pop
<1>4. IF r.kind = "scope"
      THEN /\ awaiting' \in {[awaiting EXCEPT ![o] = r], [awaiting EXCEPT ![o] = Nothing]}
           /\ open' = [open EXCEPT ![r.of] = IF @ = "open" THEN "unwinding" ELSE @]
           /\ UNCHANGED <<life, aborted>>
      ELSE awaiting' = [awaiting EXCEPT ![o] = r] /\ Disposes(r.of) /\ UNCHANGED open
  <2> HIDE DEF f
  <2>1. CASE r.kind = "scope"
    BY <2>1 DEF Pop
  <2>2. CASE r.kind # "scope"
    BY <2>2 DEF Pop
  <2> QED
    BY <2>1, <2>2
<1> HIDE DEF r, f
<1>5. r \in On(o) /\ On(o) = On(o)' \union {r} /\ \A h \in Holder \ {o} : On(h)' = On(h)
  BY <1>1, <1>2, <1>3 DEF On
<1>6. effects' \in [Holder -> Seq(Rec)]
  BY <1>2, <1>3 DEF Typed
<1>7. /\ r.of \in Agent /\ r.of \in Holder
      /\ r = ScopeOf(r.of) \/ r = LifeOf(r.of) \/ r = OwnedBy(r.of)
      /\ r.kind = "scope" <=> r = ScopeOf(r.of)
  BY <1>2, Holders DEF Rec, ScopeOf, LifeOf, OwnedBy
<1>8. CASE r.kind = "scope"
  <2> DEFINE x == r.of
  <2>0. open' = [open EXCEPT ![x] = IF @ = "open" THEN "unwinding" ELSE @] /\ x \in Holder
    BY <1>4, <1>7, <1>8
  <2> HIDE DEF x
  <2>1. /\ \A h \in Holder : open'[h] = "closed" <=> open[h] = "closed"
        /\ open' \in [Holder -> {"none", "open", "unwinding", "closed"}]
    BY <2>0 DEF Typed
  <2>2. /\ awaiting' \in [Holder -> Rec \union {Nothing}]
        /\ \A h \in Holder \ {o} : awaiting'[h] = awaiting[h]
    BY ZenonT(60), <1>2, <1>4, <1>8 DEF Typed
  <2>3. life' = life
    BY <1>4, <1>8
  <2> QED
    BY <1>1, <1>2, <1>5, <1>6, <1>7, <1>8, <2>1, <2>2, <2>3 DEF Typed
<1>9. CASE r.kind # "scope"
  <2>1. /\ awaiting' \in [Holder -> Rec \union {Nothing}] /\ awaiting'[o] = r
        /\ \A h \in Holder \ {o} : awaiting'[h] = awaiting[h]
    BY <1>2, <1>4, <1>9 DEF Typed
  <2>2. open' = open /\ Disposes(r.of)
    BY <1>4, <1>9
  <2>3. /\ life' \in [Agent -> {"none", "cancelled", "unwinding", "unwound", "unregistered", "done"}]
        /\ \A b \in Agent : life'[b] = IF b = r.of /\ life[r.of] = "none" THEN "cancelled" ELSE life[b]
    BY <1>7, <2>2, DisposesFacts
  <2> QED
    BY <1>1, <1>2, <1>5, <1>6, <1>7, <1>9, <2>1, <2>2, <2>3 DEF Typed
<1> QED
  BY <1>8, <1>9

LEMMA ClosedFacts ==
  ASSUME Typed, NEW o \in Holder, Closed(o)
  PROVE  Emptied(o)
<1> USE DEF Emptied
<1>1. effects[o] = <<>> /\ Ready(o) /\ DOMAIN effects = Holder /\ Loop \in Holder
  BY Holders DEF Closed, Typed
<1>2. On(o) = {}
  BY <1>1 DEF On, ToSet
<1>3. CASE o \in Agent
  <2> DEFINE l == Without(effects[Loop], {ScopeOf(o)})
  <2>1. effects[Loop] \in Seq(Rec)
    BY <1>1 DEF Typed
  <2>2. l \in Seq(Rec) /\ ToSet(l) = ToSet(effects[Loop]) \ {ScopeOf(o)}
    BY <2>1, WithoutOn
  <2>3. effects' = [effects EXCEPT ![Loop] = l]
    BY <1>3 DEF Closed
  <2> HIDE DEF l
  <2>4. effects' \in [Holder -> Seq(Rec)]
    BY <2>2, <2>3 DEF Typed
  <2>5. o # Loop
    BY <1>3, LifeAssumption
  <2> QED
    BY <1>1, <1>2, <2>2, <2>3, <2>4, <2>5 DEF On
<1>4. CASE o \notin Agent
  BY <1>1, <1>2, <1>4 DEF Closed, Typed, On
<1> QED
  BY <1>3, <1>4

-----------------------------------------------------------------------------
(* Each part of the invariant is kept by every step, one action at a time.  *)

LEMMA TypedKeeps ==
  ASSUME Typed, [Next]_vars
  PROVE  Typed'
<1>1. ASSUME NEW a \in Agent, NEW how \in {"new", "resumed"}, Create(a, how) PROVE Typed'
  <2>1. Begins(a, how) /\ UNCHANGED <<running, calls>> /\ Parent[a] = App
    BY <1>1 DEF Create, turns
  <2>2. Begun(a)
    BY <2>1, BeginsFacts
  <2> QED
    BY <2>1, <2>2, Holders, RecordsDiffer DEF Typed, calls, Begun
<1>2. ASSUME NEW a \in Agent, Dispose(a) PROVE Typed'
  BY Holders, RecordsDiffer, <1>2 DEF Typed, On, Dispose, Disposes, agents,
     turns, calls, owners
<1>3. ASSUME NEW a \in Agent, Prompt(a) PROVE Typed'
  BY Holders, RecordsDiffer, <1>3 DEF Typed, On, Prompt, agents, turns, calls,
     owners
<1>4. ASSUME NEW a \in Agent, Cancel(a) PROVE Typed'
  BY Holders, RecordsDiffer, <1>4 DEF Typed, On, Cancel, agents, turns, calls,
     owners
<1>5. ASSUME NEW a \in Agent, Delegate(a) PROVE Typed'
  <2>1. /\ Begins(a, "new") /\ UNCHANGED <<running, told>>
        /\ call' = [call EXCEPT ![a] = "creating"] /\ Delegated(a) /\ Parent[a] \in running
    BY <1>5 DEF Delegate, turns
  <2>2. Begun(a)
    BY <2>1, BeginsFacts
  <2> QED
    BY <2>1, <2>2, Holders, RecordsDiffer DEF Typed, calls, Begun
<1>6. ASSUME NEW o \in {App, Loop}, Shutdown(o) PROVE Typed'
  BY Holders, RecordsDiffer, <1>6 DEF Typed, On, Shutdown, agents, turns, calls,
     owners
<1>7. ASSUME NEW a \in Agent, SetUp(a) PROVE Typed'
  <2>1. CASE RollsBack(a)
    BY <1>7, <2>1, Holders, RecordsDiffer DEF SetUp, RollsBack, Disposes, Typed,
       On, agents, turns, calls, owners
  <2>2. CASE ~RollsBack(a)
    BY SMTT(40), <1>7, <2>2, Holders, RecordsDiffer DEF SetUp, Typed, On, agents, turns,
       calls, owners
  <2> QED
    BY <2>1, <2>2
<1>8. ASSUME NEW a \in Agent, Publish(a) PROVE Typed'
  <2>1. CASE origin[a] = "resumed"
    BY <1>8, <2>1, Holders, RecordsDiffer DEF Publish, Typed, On, agents, turns,
       calls, owners
  <2>2. CASE origin[a] # "resumed"
    <3>1. Binds(a)
      BY <1>8, <2>2 DEF Publish
    <3>2. Bound(a)
      BY <3>1, BindsFacts
    <3>3. /\ create[a] = "settling" /\ registered' = registered \union {a}
          /\ session' = [session EXCEPT ![a] = "published"]
      BY <1>8 DEF Publish
    <3>4. UNCHANGED <<running, calls, open, awaiting>>
      BY <1>8 DEF Publish
    <3> QED
      BY <3>2, <3>3, <3>4, Holders, RecordsDiffer DEF Typed, calls, Bound
  <2> QED
    BY <2>1, <2>2
<1>9. ASSUME NEW a \in Agent, Unsettled(a) PROVE Typed'
  BY Holders, RecordsDiffer, <1>9 DEF Typed, On, Unsettled, RollsBack, Disposes,
     agents, turns, calls, owners
<1>10. ASSUME NEW a \in Agent, Flushed(a) PROVE Typed'
  <2>1. /\ Binds(a) /\ create[a] = "flushing"
        /\ UNCHANGED <<session, registered, running, calls, open, awaiting>>
    BY <1>10 DEF Flushed
  <2>2. Bound(a)
    BY <2>1, BindsFacts
  <2> QED
    BY <2>1, <2>2, Holders, RecordsDiffer DEF Typed, calls, Bound
<1>11. ASSUME NEW a \in Agent, Refused(a) PROVE Typed'
  BY Holders, RecordsDiffer, <1>11 DEF Typed, On, Refused, RollsBack, Disposes,
     agents, turns, calls, owners
<1>12. ASSUME NEW a \in Agent, ScopeGoes(a) PROVE Typed'
  BY Holders, RecordsDiffer, <1>12 DEF Typed, On, ScopeGoes, agents, turns,
     calls, owners
<1>13. ASSUME NEW a \in Agent, ScopeGone(a) PROVE Typed'
  BY Holders, RecordsDiffer, <1>13 DEF Typed, On, ScopeGone, agents, turns,
     calls, owners
<1>14. ASSUME NEW a \in Agent, Unregister(a) PROVE Typed'
  BY Holders, RecordsDiffer, <1>14 DEF Typed, On, Unregister, agents, turns,
     calls, owners
<1>15. ASSUME NEW a \in Agent, Detach(a) PROVE Typed'
  <2>1. Freed(a)
    BY <1>15, DetachFacts
  <2>2. /\ life[a] = "unregistered" /\ life' = [life EXCEPT ![a] = "done"]
        /\ session' = [session EXCEPT ![a] = "closed"]
        /\ create' = [create EXCEPT ![a] = IF @ = "rolling" THEN "failed" ELSE @]
        /\ UNCHANGED <<registered, turns, calls, open, awaiting>>
    BY <1>15 DEF Detach
  <2> QED
    BY <2>1, <2>2, Holders, RecordsDiffer DEF Typed, turns, calls, Freed
<1>16. ASSUME NEW a \in Agent, TurnEnds(a) PROVE Typed'
  BY Holders, RecordsDiffer, <1>16 DEF Typed, On, TurnEnds, agents, turns,
     calls, owners
<1>17. ASSUME NEW a \in Agent, NotCreated(a) PROVE Typed'
  BY Holders, RecordsDiffer, <1>17 DEF Typed, On, NotCreated, agents, turns,
     calls, owners
<1>18. ASSUME NEW a \in Agent, Start(a) PROVE Typed'
  <2>0. told[a] \in Nat \X Nat /\ told[a][1] + 1 \in Nat /\ told[a][2] + 1 \in Nat /\ told[a][2] \in Nat
    BY DEF Typed
  <2>1. CASE GivenUp(a)
    <3>1. told' = [told EXCEPT ![a] = <<told[a][1] + 1, told[a][2] + 1>>]
      BY <1>18, <2>1 DEF Start
    <3>2. told' \in [Agent -> Nat \X Nat]
      BY <2>0, <3>1 DEF Typed
    <3>3. call' = [call EXCEPT ![a] = "leaving"] /\ Disposes(a) /\ UNCHANGED <<agents, prompts, owners, running>>
      BY <1>18, <2>1 DEF Start
    <3> QED
      BY <3>2, <3>3, DisposesFacts DEF Typed, agents, owners
  <2>2. CASE ~GivenUp(a)
    <3>1. told' = [told EXCEPT ![a] = <<told[a][1] + 1, told[a][2]>>]
      BY <1>18, <2>2 DEF Start, Awaited
    <3>2. told' \in [Agent -> Nat \X Nat]
      BY <2>0, <3>1 DEF Typed
    <3>3. /\ call' = [call EXCEPT ![a] = "awaiting"] /\ UNCHANGED <<agents, prompts, owners, life>>
          /\ running' \subseteq running \union {a}
      BY <1>18, <2>2 DEF Start, Awaited
    <3> QED
      BY <3>2, <3>3 DEF Typed, agents, owners
  <2> QED
    BY <2>1, <2>2
<1>19. ASSUME NEW a \in Agent, ChildIdle(a) PROVE Typed'
  BY Holders, RecordsDiffer, <1>19 DEF Typed, On, ChildIdle, agents, turns,
     calls, owners
<1>20. ASSUME NEW a \in Agent, Record(a) PROVE Typed'
  BY Holders, RecordsDiffer, <1>20 DEF Typed, On, Record, Disposes, agents,
     turns, calls, owners
<1>21. ASSUME NEW a \in Agent, Return(a) PROVE Typed'
  BY Holders, RecordsDiffer, <1>21 DEF Typed, On, Return, agents, turns, calls,
     owners
<1>22. ASSUME NEW o \in Holder, Pop(o) PROVE Typed'
  <2>1. Popped(o)
    BY <1>22, PopFacts
  <2>2. UNCHANGED <<agents, running, calls>>
    BY <1>22 DEF Pop
  <2> QED
    BY <2>1, <2>2, Holders, RecordsDiffer DEF Typed, agents, calls, Popped
<1>23. ASSUME NEW o \in Holder, Closed(o) PROVE Typed'
  <2>1. Emptied(o)
    BY <1>23, ClosedFacts
  <2>2. /\ open' = [open EXCEPT ![o] = "closed"] /\ awaiting' = [awaiting EXCEPT ![o] = Nothing]
        /\ UNCHANGED <<agents, life, turns, calls>>
    BY <1>23 DEF Closed
  <2> QED
    BY <2>1, <2>2, Holders, RecordsDiffer DEF Typed, agents, turns, calls,
       Emptied
<1>24. CASE UNCHANGED vars
  BY Holders, RecordsDiffer, <1>24 DEF Typed, On, vars, agents, turns, calls,
     owners
<1> QED
  BY <1>1, <1>2, <1>3, <1>4, <1>5, <1>6, <1>7, <1>8, <1>9, <1>10, <1>11, <1>12,
     <1>13, <1>14, <1>15, <1>16, <1>17, <1>18, <1>19, <1>20, <1>21, <1>22,
     <1>23, <1>24 DEF Next, Outside, Progress

LEMMA LifeKeeps ==
  ASSUME Typed, LifeInv, RecordInv, CallInv, [Next]_vars
  PROVE  LifeInv'
<1>1. ASSUME NEW a \in Agent, NEW how \in {"new", "resumed"}, Create(a, how) PROVE LifeInv'
  <2>1. Begins(a, how) /\ UNCHANGED <<running, calls>> /\ Parent[a] = App
    BY <1>1 DEF Create, turns
  <2>2. Begun(a)
    BY <2>1, BeginsFacts
  <2> SUFFICES ASSUME NEW b \in Agent PROVE Whole(b)'
    BY DEF LifeInv
  <2>7. Whole(b)
    BY DEF LifeInv
  <2>8. CASE b = a
    BY <2>1, <2>2, <2>7, <2>8, Holders DEF Whole, Typed, calls, Begun
  <2>9. CASE b # a
    BY <2>1, <2>2, <2>7, <2>9, Holders DEF Whole, Typed, calls, Begun
  <2> QED
    BY <2>8, <2>9
<1>2. ASSUME NEW a \in Agent, Dispose(a) PROVE LifeInv'
  BY Holders, RecordsDiffer, <1>2 DEF LifeInv, Whole, Typed, RecordInv, On,
     Dispose, Disposes, agents, turns, calls, owners
<1>3. ASSUME NEW a \in Agent, Prompt(a) PROVE LifeInv'
  BY Holders, RecordsDiffer, <1>3 DEF LifeInv, Whole, Typed, RecordInv, On,
     Prompt, agents, turns, calls, owners
<1>4. ASSUME NEW a \in Agent, Cancel(a) PROVE LifeInv'
  BY Holders, RecordsDiffer, <1>4 DEF LifeInv, Whole, Typed, RecordInv, On,
     Cancel, agents, turns, calls, owners
<1>5. ASSUME NEW a \in Agent, Delegate(a) PROVE LifeInv'
  <2>1. /\ Begins(a, "new") /\ UNCHANGED <<running, told>>
        /\ call' = [call EXCEPT ![a] = "creating"] /\ Delegated(a) /\ Parent[a] \in running
    BY <1>5 DEF Delegate, turns
  <2>2. Begun(a)
    BY <2>1, BeginsFacts
  <2> SUFFICES ASSUME NEW b \in Agent PROVE Whole(b)'
    BY DEF LifeInv
  <2>7. Whole(b)
    BY DEF LifeInv
  <2>8. CASE b = a
    BY <2>1, <2>2, <2>7, <2>8, Holders DEF Whole, Typed, calls, Begun
  <2>9. CASE b # a
    BY <2>1, <2>2, <2>7, <2>9, Holders DEF Whole, Typed, calls, Begun
  <2> QED
    BY <2>8, <2>9
<1>6. ASSUME NEW o \in {App, Loop}, Shutdown(o) PROVE LifeInv'
  BY Holders, RecordsDiffer, <1>6 DEF LifeInv, Whole, Typed, RecordInv, On,
     Shutdown, agents, turns, calls, owners
<1>7. ASSUME NEW a \in Agent, SetUp(a) PROVE LifeInv'
  <2>1. CASE RollsBack(a)
    BY <1>7, <2>1, Holders, RecordsDiffer DEF SetUp, RollsBack, Disposes,
       LifeInv, Whole, Typed, RecordInv, On, agents, turns, calls, owners
  <2>2. CASE ~RollsBack(a)
    BY <1>7, <2>2, Holders, RecordsDiffer DEF SetUp, LifeInv, Whole, Typed,
       RecordInv, On, agents, turns, calls, owners
  <2> QED
    BY <2>1, <2>2
<1>8. ASSUME NEW a \in Agent, Publish(a) PROVE LifeInv'
  <2>1. CASE origin[a] = "resumed"
    BY <1>8, <2>1, Holders, RecordsDiffer DEF Publish, LifeInv, Whole, Typed,
       RecordInv, On, agents, turns, calls, owners
  <2>2. CASE origin[a] # "resumed"
    <3>1. Binds(a)
      BY <1>8, <2>2 DEF Publish
    <3>2. Bound(a)
      BY <3>1, BindsFacts
    <3>3. /\ create[a] = "settling" /\ registered' = registered \union {a}
          /\ session' = [session EXCEPT ![a] = "published"]
      BY <1>8 DEF Publish
    <3>4. UNCHANGED <<running, calls, open, awaiting>>
      BY <1>8 DEF Publish
    <3> SUFFICES ASSUME NEW b \in Agent PROVE Whole(b)'
      BY DEF LifeInv
    <3>7. Whole(b)
      BY DEF LifeInv
    <3>8. CASE b = a
      BY <3>2, <3>3, <3>4, <3>7, <3>8, Holders DEF Whole, Typed, calls, Bound
    <3>9. CASE b # a
      BY <3>2, <3>3, <3>4, <3>7, <3>9, Holders DEF Whole, Typed, calls, Bound
    <3> QED
      BY <3>8, <3>9
  <2> QED
    BY <2>1, <2>2
<1>9. ASSUME NEW a \in Agent, Unsettled(a) PROVE LifeInv'
  BY Holders, RecordsDiffer, <1>9 DEF LifeInv, Whole, Typed, RecordInv, On,
     Unsettled, RollsBack, Disposes, agents, turns, calls, owners
<1>10. ASSUME NEW a \in Agent, Flushed(a) PROVE LifeInv'
  <2>1. /\ Binds(a) /\ create[a] = "flushing"
        /\ UNCHANGED <<session, registered, running, calls, open, awaiting>>
    BY <1>10 DEF Flushed
  <2>2. Bound(a)
    BY <2>1, BindsFacts
  <2> SUFFICES ASSUME NEW b \in Agent PROVE Whole(b)'
    BY DEF LifeInv
  <2>7. Whole(b)
    BY DEF LifeInv
  <2>8. CASE b = a
    BY <2>1, <2>2, <2>7, <2>8, Holders DEF Whole, Typed, calls, Bound
  <2>9. CASE b # a
    BY <2>1, <2>2, <2>7, <2>9, Holders DEF Whole, Typed, calls, Bound
  <2> QED
    BY <2>8, <2>9
<1>11. ASSUME NEW a \in Agent, Refused(a) PROVE LifeInv'
  BY Holders, RecordsDiffer, <1>11 DEF LifeInv, Whole, Typed, RecordInv, On,
     Refused, RollsBack, Disposes, agents, turns, calls, owners
<1>12. ASSUME NEW a \in Agent, ScopeGoes(a) PROVE LifeInv'
  BY Holders, RecordsDiffer, <1>12 DEF LifeInv, Whole, Typed, RecordInv, On,
     ScopeGoes, agents, turns, calls, owners
<1>13. ASSUME NEW a \in Agent, ScopeGone(a) PROVE LifeInv'
  BY Holders, RecordsDiffer, <1>13 DEF LifeInv, Whole, Typed, RecordInv, On,
     ScopeGone, agents, turns, calls, owners
<1>14. ASSUME NEW a \in Agent, Unregister(a) PROVE LifeInv'
  BY Holders, RecordsDiffer, <1>14 DEF LifeInv, Whole, Typed, RecordInv, On,
     Unregister, agents, turns, calls, owners
<1>15. ASSUME NEW a \in Agent, Detach(a) PROVE LifeInv'
  <2>1. Freed(a)
    BY <1>15, DetachFacts
  <2>2. /\ life[a] = "unregistered" /\ life' = [life EXCEPT ![a] = "done"]
        /\ session' = [session EXCEPT ![a] = "closed"]
        /\ create' = [create EXCEPT ![a] = IF @ = "rolling" THEN "failed" ELSE @]
        /\ UNCHANGED <<registered, turns, calls, open, awaiting>>
    BY <1>15 DEF Detach
  <2> QED
    BY <2>1, <2>2, Holders, RecordsDiffer DEF LifeInv, Whole, Typed, RecordInv,
       turns, calls, Freed
<1>16. ASSUME NEW a \in Agent, TurnEnds(a) PROVE LifeInv'
  BY Holders, RecordsDiffer, <1>16 DEF LifeInv, Whole, Typed, RecordInv, On,
     TurnEnds, agents, turns, calls, owners
<1>17. ASSUME NEW a \in Agent, NotCreated(a) PROVE LifeInv'
  BY Holders, RecordsDiffer, <1>17 DEF LifeInv, Whole, Typed, RecordInv, On,
     NotCreated, agents, turns, calls, owners
<1>18. ASSUME NEW a \in Agent, Start(a) PROVE LifeInv'
  <2>1. CASE GivenUp(a)
    BY <1>18, <2>1, Holders DEF Start, Disposes, LifeInv, Whole, Typed,
       RecordInv, On, agents, turns, calls, owners
  <2>2. CASE ~GivenUp(a)
    BY <1>18, <2>2, Holders DEF Start, Awaited, LifeInv, Whole, Typed,
       RecordInv, On, agents, turns, calls, owners
  <2> QED
    BY <2>1, <2>2
<1>19. ASSUME NEW a \in Agent, ChildIdle(a) PROVE LifeInv'
  BY Holders, RecordsDiffer, <1>19 DEF LifeInv, Whole, Typed, RecordInv, On,
     ChildIdle, agents, turns, calls, owners
<1>20. ASSUME NEW a \in Agent, Record(a) PROVE LifeInv'
  <2>1. create[a] = "live" /\ told[a] = <<1, 0>> /\ 0 + 1 = 1 /\ Delegated(a)
    BY <1>20 DEF Record, CallInv, Follows
  <2> QED
    BY <1>20, <2>1, Holders DEF Record, Disposes, LifeInv, Whole, Typed,
       RecordInv, On, agents, turns, calls, owners
<1>21. ASSUME NEW a \in Agent, Return(a) PROVE LifeInv'
  BY Holders, RecordsDiffer, <1>21 DEF LifeInv, Whole, Typed, RecordInv, On,
     Return, agents, turns, calls, owners
<1>22. ASSUME NEW o \in Holder, Pop(o) PROVE LifeInv'
  <2>1. Popped(o)
    BY <1>22, PopFacts
  <2>2. UNCHANGED <<agents, running, calls>>
    BY <1>22 DEF Pop
  <2> QED
    BY <2>1, <2>2, Holders, RecordsDiffer DEF LifeInv, Whole, Typed, RecordInv,
       agents, calls, Popped
<1>23. ASSUME NEW o \in Holder, Closed(o) PROVE LifeInv'
  <2>1. Emptied(o)
    BY <1>23, ClosedFacts
  <2>2. /\ open' = [open EXCEPT ![o] = "closed"] /\ awaiting' = [awaiting EXCEPT ![o] = Nothing]
        /\ UNCHANGED <<agents, life, turns, calls>>
    BY <1>23 DEF Closed
  <2> QED
    BY <2>1, <2>2, Holders, RecordsDiffer DEF LifeInv, Whole, Typed, RecordInv,
       agents, turns, calls, Emptied
<1>24. CASE UNCHANGED vars
  BY Holders, RecordsDiffer, <1>24 DEF LifeInv, Whole, Typed, RecordInv, On,
     vars, agents, turns, calls, owners
<1> QED
  BY <1>1, <1>2, <1>3, <1>4, <1>5, <1>6, <1>7, <1>8, <1>9, <1>10, <1>11, <1>12,
     <1>13, <1>14, <1>15, <1>16, <1>17, <1>18, <1>19, <1>20, <1>21, <1>22,
     <1>23, <1>24 DEF Next, Outside, Progress

LEMMA RecordKeeps ==
  ASSUME Typed, LifeInv, RecordInv, [Next]_vars
  PROVE  RecordInv'
<1>1. ASSUME NEW a \in Agent, NEW how \in {"new", "resumed"}, Create(a, how) PROVE RecordInv'
  <2>1. Begins(a, how) /\ UNCHANGED <<running, calls>> /\ Parent[a] = App
    BY <1>1 DEF Create, turns
  <2>2. Begun(a)
    BY <2>1, BeginsFacts
  <2> SUFFICES ASSUME NEW b \in Agent, NEW h \in Holder, LifeOf(b) \in On(h)' \/ OwnedBy(b) \in On(h)'
               PROVE  create'[b] \in {"live", "rolling"} /\ life'[b] # "done"
    BY DEF RecordInv
  <2>8. LifeOf(b) \in On(h) \/ OwnedBy(b) \in On(h) => create[b] \in {"live", "rolling"} /\ life[b] # "done"
    BY DEF RecordInv
  <2>9. create[b] \in {"none", "setup", "settling", "flushing"} => life[b] = "none"
    BY DEF LifeInv, Whole
  <2> QED
    BY <2>1, <2>2, <2>8, <2>9, Holders, RecordsDiffer DEF calls, Begun
<1>2. ASSUME NEW a \in Agent, Dispose(a) PROVE RecordInv'
  BY Holders, RecordsDiffer, <1>2 DEF RecordInv, Typed, LifeInv, Whole, On,
     Dispose, Disposes, agents, turns, calls, owners
<1>3. ASSUME NEW a \in Agent, Prompt(a) PROVE RecordInv'
  BY Holders, RecordsDiffer, <1>3 DEF RecordInv, Typed, LifeInv, Whole, On,
     Prompt, agents, turns, calls, owners
<1>4. ASSUME NEW a \in Agent, Cancel(a) PROVE RecordInv'
  BY Holders, RecordsDiffer, <1>4 DEF RecordInv, Typed, LifeInv, Whole, On,
     Cancel, agents, turns, calls, owners
<1>5. ASSUME NEW a \in Agent, Delegate(a) PROVE RecordInv'
  <2>1. /\ Begins(a, "new") /\ UNCHANGED <<running, told>>
        /\ call' = [call EXCEPT ![a] = "creating"] /\ Delegated(a) /\ Parent[a] \in running
    BY <1>5 DEF Delegate, turns
  <2>2. Begun(a)
    BY <2>1, BeginsFacts
  <2> SUFFICES ASSUME NEW b \in Agent, NEW h \in Holder, LifeOf(b) \in On(h)' \/ OwnedBy(b) \in On(h)'
               PROVE  create'[b] \in {"live", "rolling"} /\ life'[b] # "done"
    BY DEF RecordInv
  <2>8. LifeOf(b) \in On(h) \/ OwnedBy(b) \in On(h) => create[b] \in {"live", "rolling"} /\ life[b] # "done"
    BY DEF RecordInv
  <2>9. create[b] \in {"none", "setup", "settling", "flushing"} => life[b] = "none"
    BY DEF LifeInv, Whole
  <2> QED
    BY <2>1, <2>2, <2>8, <2>9, Holders, RecordsDiffer DEF calls, Begun
<1>6. ASSUME NEW o \in {App, Loop}, Shutdown(o) PROVE RecordInv'
  BY Holders, RecordsDiffer, <1>6 DEF RecordInv, Typed, LifeInv, Whole, On,
     Shutdown, agents, turns, calls, owners
<1>7. ASSUME NEW a \in Agent, SetUp(a) PROVE RecordInv'
  <2>1. CASE RollsBack(a)
    BY <1>7, <2>1, Holders, RecordsDiffer DEF SetUp, RollsBack, Disposes,
       RecordInv, Typed, LifeInv, Whole, On, agents, turns, calls, owners
  <2>2. CASE ~RollsBack(a)
    BY <1>7, <2>2, Holders, RecordsDiffer DEF SetUp, RecordInv, Typed, LifeInv,
       Whole, On, agents, turns, calls, owners
  <2> QED
    BY <2>1, <2>2
<1>8. ASSUME NEW a \in Agent, Publish(a) PROVE RecordInv'
  <2>1. CASE origin[a] = "resumed"
    BY <1>8, <2>1, Holders, RecordsDiffer DEF Publish, RecordInv, Typed,
       LifeInv, Whole, On, agents, turns, calls, owners
  <2>2. CASE origin[a] # "resumed"
    <3>1. Binds(a)
      BY <1>8, <2>2 DEF Publish
    <3>2. Bound(a)
      BY <3>1, BindsFacts
    <3>3. /\ create[a] = "settling" /\ registered' = registered \union {a}
          /\ session' = [session EXCEPT ![a] = "published"]
      BY <1>8 DEF Publish
    <3>4. UNCHANGED <<running, calls, open, awaiting>>
      BY <1>8 DEF Publish
    <3> SUFFICES ASSUME NEW b \in Agent, NEW h \in Holder, LifeOf(b) \in On(h)' \/ OwnedBy(b) \in On(h)'
                 PROVE  create'[b] \in {"live", "rolling"} /\ life'[b] # "done"
      BY DEF RecordInv
    <3>8. LifeOf(b) \in On(h) \/ OwnedBy(b) \in On(h) => create[b] \in {"live", "rolling"} /\ life[b] # "done"
      BY DEF RecordInv
    <3>9. create[b] \in {"none", "setup", "settling", "flushing"} => life[b] = "none"
      BY DEF LifeInv, Whole
    <3> QED
      BY <3>2, <3>3, <3>4, <3>8, <3>9, Holders, RecordsDiffer DEF calls, Bound
  <2> QED
    BY <2>1, <2>2
<1>9. ASSUME NEW a \in Agent, Unsettled(a) PROVE RecordInv'
  BY Holders, RecordsDiffer, <1>9 DEF RecordInv, Typed, LifeInv, Whole, On,
     Unsettled, RollsBack, Disposes, agents, turns, calls, owners
<1>10. ASSUME NEW a \in Agent, Flushed(a) PROVE RecordInv'
  <2>1. /\ Binds(a) /\ create[a] = "flushing"
        /\ UNCHANGED <<session, registered, running, calls, open, awaiting>>
    BY <1>10 DEF Flushed
  <2>2. Bound(a)
    BY <2>1, BindsFacts
  <2> SUFFICES ASSUME NEW b \in Agent, NEW h \in Holder, LifeOf(b) \in On(h)' \/ OwnedBy(b) \in On(h)'
               PROVE  create'[b] \in {"live", "rolling"} /\ life'[b] # "done"
    BY DEF RecordInv
  <2>8. LifeOf(b) \in On(h) \/ OwnedBy(b) \in On(h) => create[b] \in {"live", "rolling"} /\ life[b] # "done"
    BY DEF RecordInv
  <2>9. create[b] \in {"none", "setup", "settling", "flushing"} => life[b] = "none"
    BY DEF LifeInv, Whole
  <2> QED
    BY <2>1, <2>2, <2>8, <2>9, Holders, RecordsDiffer DEF calls, Bound
<1>11. ASSUME NEW a \in Agent, Refused(a) PROVE RecordInv'
  BY Holders, RecordsDiffer, <1>11 DEF RecordInv, Typed, LifeInv, Whole, On,
     Refused, RollsBack, Disposes, agents, turns, calls, owners
<1>12. ASSUME NEW a \in Agent, ScopeGoes(a) PROVE RecordInv'
  BY Holders, RecordsDiffer, <1>12 DEF RecordInv, Typed, LifeInv, Whole, On,
     ScopeGoes, agents, turns, calls, owners
<1>13. ASSUME NEW a \in Agent, ScopeGone(a) PROVE RecordInv'
  BY Holders, RecordsDiffer, <1>13 DEF RecordInv, Typed, LifeInv, Whole, On,
     ScopeGone, agents, turns, calls, owners
<1>14. ASSUME NEW a \in Agent, Unregister(a) PROVE RecordInv'
  BY Holders, RecordsDiffer, <1>14 DEF RecordInv, Typed, LifeInv, Whole, On,
     Unregister, agents, turns, calls, owners
<1>15. ASSUME NEW a \in Agent, Detach(a) PROVE RecordInv'
  <2>1. Freed(a)
    BY <1>15, DetachFacts
  <2>2. /\ life[a] = "unregistered" /\ life' = [life EXCEPT ![a] = "done"]
        /\ session' = [session EXCEPT ![a] = "closed"]
        /\ create' = [create EXCEPT ![a] = IF @ = "rolling" THEN "failed" ELSE @]
        /\ UNCHANGED <<registered, turns, calls, open, awaiting>>
    BY <1>15 DEF Detach
  <2> SUFFICES ASSUME NEW b \in Agent, NEW h \in Holder, LifeOf(b) \in On(h)' \/ OwnedBy(b) \in On(h)'
               PROVE  create'[b] \in {"live", "rolling"} /\ life'[b] # "done"
    BY DEF RecordInv
  <2>8. LifeOf(b) \in On(h) \/ OwnedBy(b) \in On(h) => create[b] \in {"live", "rolling"} /\ life[b] # "done"
    BY DEF RecordInv
  <2>9. create[b] \in {"none", "setup", "settling", "flushing"} => life[b] = "none"
    BY DEF LifeInv, Whole
  <2> QED
    BY <2>1, <2>2, <2>8, <2>9, Holders, RecordsDiffer DEF turns, calls, Freed,
       Typed
<1>16. ASSUME NEW a \in Agent, TurnEnds(a) PROVE RecordInv'
  BY Holders, RecordsDiffer, <1>16 DEF RecordInv, Typed, LifeInv, Whole, On,
     TurnEnds, agents, turns, calls, owners
<1>17. ASSUME NEW a \in Agent, NotCreated(a) PROVE RecordInv'
  BY Holders, RecordsDiffer, <1>17 DEF RecordInv, Typed, LifeInv, Whole, On,
     NotCreated, agents, turns, calls, owners
<1>18. ASSUME NEW a \in Agent, Start(a) PROVE RecordInv'
  <2>1. CASE GivenUp(a)
    BY <1>18, <2>1, Holders DEF Start, Disposes, RecordInv, Typed, LifeInv,
       Whole, On, agents, turns, calls, owners
  <2>2. CASE ~GivenUp(a)
    BY <1>18, <2>2, Holders DEF Start, Awaited, RecordInv, Typed, LifeInv,
       Whole, On, agents, turns, calls, owners
  <2> QED
    BY <2>1, <2>2
<1>19. ASSUME NEW a \in Agent, ChildIdle(a) PROVE RecordInv'
  BY Holders, RecordsDiffer, <1>19 DEF RecordInv, Typed, LifeInv, Whole, On,
     ChildIdle, agents, turns, calls, owners
<1>20. ASSUME NEW a \in Agent, Record(a) PROVE RecordInv'
  BY Holders, RecordsDiffer, <1>20 DEF RecordInv, Typed, LifeInv, Whole, On,
     Record, Disposes, agents, turns, calls, owners
<1>21. ASSUME NEW a \in Agent, Return(a) PROVE RecordInv'
  BY Holders, RecordsDiffer, <1>21 DEF RecordInv, Typed, LifeInv, Whole, On,
     Return, agents, turns, calls, owners
<1>22. ASSUME NEW o \in Holder, Pop(o) PROVE RecordInv'
  <2>1. Popped(o)
    BY <1>22, PopFacts
  <2>2. UNCHANGED <<agents, running, calls>>
    BY <1>22 DEF Pop
  <2> SUFFICES ASSUME NEW b \in Agent, NEW h \in Holder, LifeOf(b) \in On(h)' \/ OwnedBy(b) \in On(h)'
               PROVE  create'[b] \in {"live", "rolling"} /\ life'[b] # "done"
    BY DEF RecordInv
  <2>8. LifeOf(b) \in On(h) \/ OwnedBy(b) \in On(h) => create[b] \in {"live", "rolling"} /\ life[b] # "done"
    BY DEF RecordInv
  <2>9. create[b] \in {"none", "setup", "settling", "flushing"} => life[b] = "none"
    BY DEF LifeInv, Whole
  <2> QED
    BY SMTT(40), <2>1, <2>2, <2>8, <2>9, Holders, RecordsDiffer DEF agents, calls, Popped
<1>23. ASSUME NEW o \in Holder, Closed(o) PROVE RecordInv'
  <2>1. Emptied(o)
    BY <1>23, ClosedFacts
  <2>2. /\ open' = [open EXCEPT ![o] = "closed"] /\ awaiting' = [awaiting EXCEPT ![o] = Nothing]
        /\ UNCHANGED <<agents, life, turns, calls>>
    BY <1>23 DEF Closed
  <2> SUFFICES ASSUME NEW b \in Agent, NEW h \in Holder, LifeOf(b) \in On(h)' \/ OwnedBy(b) \in On(h)'
               PROVE  create'[b] \in {"live", "rolling"} /\ life'[b] # "done"
    BY DEF RecordInv
  <2>8. LifeOf(b) \in On(h) \/ OwnedBy(b) \in On(h) => create[b] \in {"live", "rolling"} /\ life[b] # "done"
    BY DEF RecordInv
  <2>9. create[b] \in {"none", "setup", "settling", "flushing"} => life[b] = "none"
    BY DEF LifeInv, Whole
  <2> QED
    BY <2>1, <2>2, <2>8, <2>9, Holders, RecordsDiffer DEF agents, turns, calls,
       Emptied
<1>24. CASE UNCHANGED vars
  BY Holders, RecordsDiffer, <1>24 DEF RecordInv, Typed, LifeInv, Whole, On,
     vars, agents, turns, calls, owners
<1> QED
  BY <1>1, <1>2, <1>3, <1>4, <1>5, <1>6, <1>7, <1>8, <1>9, <1>10, <1>11, <1>12,
     <1>13, <1>14, <1>15, <1>16, <1>17, <1>18, <1>19, <1>20, <1>21, <1>22,
     <1>23, <1>24 DEF Next, Outside, Progress

LEMMA CallKeeps ==
  ASSUME Typed, LifeInv, RecordInv, CallInv, [Next]_vars
  PROVE  CallInv'
<1>1. ASSUME NEW a \in Agent, NEW how \in {"new", "resumed"}, Create(a, how) PROVE CallInv'
  <2>1. Begins(a, how) /\ UNCHANGED <<running, calls>> /\ Parent[a] = App
    BY <1>1 DEF Create, turns
  <2>2. Begun(a)
    BY <2>1, BeginsFacts
  <2> SUFFICES ASSUME NEW b \in Agent PROVE Follows(b)'
    BY DEF CallInv
  <2>7. Whole(b) /\ Follows(b)
    BY DEF LifeInv, CallInv
  <2>8. CASE b = a
    BY <2>1, <2>2, <2>7, <2>8, Holders DEF Whole, Follows, Delegated, Typed,
       calls, Begun
  <2>9. CASE b # a
    BY <2>1, <2>2, <2>7, <2>9, Holders DEF Whole, Follows, Delegated, Typed,
       calls, Begun
  <2> QED
    BY <2>8, <2>9
<1>2. ASSUME NEW a \in Agent, Dispose(a) PROVE CallInv'
  BY Holders, RecordsDiffer, <1>2 DEF CallInv, Follows, Typed, LifeInv, Whole,
     RecordInv, Delegated, Children, On, Dispose, Disposes, agents, turns,
     calls, owners
<1>3. ASSUME NEW a \in Agent, Prompt(a) PROVE CallInv'
  BY Holders, RecordsDiffer, <1>3 DEF CallInv, Follows, Typed, LifeInv, Whole,
     RecordInv, Delegated, Children, On, Prompt, agents, turns, calls, owners
<1>4. ASSUME NEW a \in Agent, Cancel(a) PROVE CallInv'
  BY Holders, RecordsDiffer, <1>4 DEF CallInv, Follows, Typed, LifeInv, Whole,
     RecordInv, Delegated, Children, On, Cancel, agents, turns, calls, owners
<1>5. ASSUME NEW a \in Agent, Delegate(a) PROVE CallInv'
  <2>1. /\ Begins(a, "new") /\ UNCHANGED <<running, told>>
        /\ call' = [call EXCEPT ![a] = "creating"] /\ Delegated(a) /\ Parent[a] \in running
    BY <1>5 DEF Delegate, turns
  <2>2. Begun(a)
    BY <2>1, BeginsFacts
  <2> SUFFICES ASSUME NEW b \in Agent PROVE Follows(b)'
    BY DEF CallInv
  <2>7. Whole(b) /\ Follows(b)
    BY DEF LifeInv, CallInv
  <2>8. CASE b = a
    BY <2>1, <2>2, <2>7, <2>8, Holders DEF Whole, Follows, Delegated, Typed,
       calls, Begun
  <2>9. CASE b # a
    BY <2>1, <2>2, <2>7, <2>9, Holders DEF Whole, Follows, Delegated, Typed,
       calls, Begun
  <2> QED
    BY <2>8, <2>9
<1>6. ASSUME NEW o \in {App, Loop}, Shutdown(o) PROVE CallInv'
  BY Holders, RecordsDiffer, <1>6 DEF CallInv, Follows, Typed, LifeInv, Whole,
     RecordInv, Delegated, Children, On, Shutdown, agents, turns, calls, owners
<1>7. ASSUME NEW a \in Agent, SetUp(a) PROVE CallInv'
  <2>1. /\ create[a] = "setup" /\ create'[a] \in {"settling", "rolling"}
        /\ \A b \in Agent \ {a} : create'[b] = create[b] /\ life'[b] = life[b]
    BY <1>7 DEF SetUp, RollsBack, Disposes, Typed
  <2>2. UNCHANGED <<running, call, told>>
    BY <1>7 DEF SetUp, RollsBack, turns, calls
  <2> SUFFICES ASSUME NEW b \in Agent PROVE Follows(b)'
    BY DEF CallInv
  <2>7. Whole(b) /\ Follows(b)
    BY DEF LifeInv, CallInv
  <2>8. CASE b = a
    BY <2>1, <2>2, <2>7, <2>8 DEF Whole, Follows, Delegated
  <2>9. CASE b # a
    BY <2>1, <2>2, <2>7, <2>9 DEF Whole, Follows, Delegated
  <2> QED
    BY <2>8, <2>9
<1>8. ASSUME NEW a \in Agent, Publish(a) PROVE CallInv'
  <2>1. CASE origin[a] = "resumed"
    BY <1>8, <2>1, Holders, RecordsDiffer DEF Publish, CallInv, Follows, Typed,
       LifeInv, Whole, RecordInv, Delegated, Children, On, agents, turns, calls,
       owners
  <2>2. CASE origin[a] # "resumed"
    <3>1. Binds(a)
      BY <1>8, <2>2 DEF Publish
    <3>2. Bound(a)
      BY <3>1, BindsFacts
    <3>3. /\ create[a] = "settling" /\ registered' = registered \union {a}
          /\ session' = [session EXCEPT ![a] = "published"]
      BY <1>8 DEF Publish
    <3>4. UNCHANGED <<running, calls, open, awaiting>>
      BY <1>8 DEF Publish
    <3> SUFFICES ASSUME NEW b \in Agent PROVE Follows(b)'
      BY DEF CallInv
    <3>7. Whole(b) /\ Follows(b)
      BY DEF LifeInv, CallInv
    <3>8. CASE b = a
      BY <3>2, <3>3, <3>4, <3>7, <3>8, Holders DEF Whole, Follows, Delegated,
         Typed, calls, Bound
    <3>9. CASE b # a
      BY <3>2, <3>3, <3>4, <3>7, <3>9, Holders DEF Whole, Follows, Delegated,
         Typed, calls, Bound
    <3> QED
      BY <3>8, <3>9
  <2> QED
    BY <2>1, <2>2
<1>9. ASSUME NEW a \in Agent, Unsettled(a) PROVE CallInv'
  BY Holders, RecordsDiffer, <1>9 DEF CallInv, Follows, Typed, LifeInv, Whole,
     RecordInv, Delegated, Children, On, Unsettled, RollsBack, Disposes, agents,
     turns, calls, owners
<1>10. ASSUME NEW a \in Agent, Flushed(a) PROVE CallInv'
  <2>1. /\ Binds(a) /\ create[a] = "flushing"
        /\ UNCHANGED <<session, registered, running, calls, open, awaiting>>
    BY <1>10 DEF Flushed
  <2>2. Bound(a)
    BY <2>1, BindsFacts
  <2> SUFFICES ASSUME NEW b \in Agent PROVE Follows(b)'
    BY DEF CallInv
  <2>7. Whole(b) /\ Follows(b)
    BY DEF LifeInv, CallInv
  <2>8. CASE b = a
    BY <2>1, <2>2, <2>7, <2>8, Holders DEF Whole, Follows, Delegated, Typed,
       calls, Bound
  <2>9. CASE b # a
    BY <2>1, <2>2, <2>7, <2>9, Holders DEF Whole, Follows, Delegated, Typed,
       calls, Bound
  <2> QED
    BY <2>8, <2>9
<1>11. ASSUME NEW a \in Agent, Refused(a) PROVE CallInv'
  BY Holders, RecordsDiffer, <1>11 DEF CallInv, Follows, Typed, LifeInv, Whole,
     RecordInv, Delegated, Children, On, Refused, RollsBack, Disposes, agents,
     turns, calls, owners
<1>12. ASSUME NEW a \in Agent, ScopeGoes(a) PROVE CallInv'
  BY Holders, RecordsDiffer, <1>12 DEF CallInv, Follows, Typed, LifeInv, Whole,
     RecordInv, Delegated, Children, On, ScopeGoes, agents, turns, calls, owners
<1>13. ASSUME NEW a \in Agent, ScopeGone(a) PROVE CallInv'
  BY Holders, RecordsDiffer, <1>13 DEF CallInv, Follows, Typed, LifeInv, Whole,
     RecordInv, Delegated, Children, On, ScopeGone, agents, turns, calls, owners
<1>14. ASSUME NEW a \in Agent, Unregister(a) PROVE CallInv'
  BY Holders, RecordsDiffer, <1>14 DEF CallInv, Follows, Typed, LifeInv, Whole,
     RecordInv, Delegated, Children, On, Unregister, agents, turns, calls,
     owners
<1>15. ASSUME NEW a \in Agent, Detach(a) PROVE CallInv'
  <2>1. Freed(a)
    BY <1>15, DetachFacts
  <2>2. /\ life[a] = "unregistered" /\ life' = [life EXCEPT ![a] = "done"]
        /\ session' = [session EXCEPT ![a] = "closed"]
        /\ create' = [create EXCEPT ![a] = IF @ = "rolling" THEN "failed" ELSE @]
        /\ UNCHANGED <<registered, turns, calls, open, awaiting>>
    BY <1>15 DEF Detach
  <2> QED
    BY SMTT(40), <2>1, <2>2, Holders, RecordsDiffer DEF CallInv, Follows, Typed, LifeInv,
       Whole, RecordInv, Delegated, Children, turns, calls, Freed
<1>16. ASSUME NEW a \in Agent, TurnEnds(a) PROVE CallInv'
  BY Holders, RecordsDiffer, <1>16 DEF CallInv, Follows, Typed, LifeInv, Whole,
     RecordInv, Delegated, Children, On, TurnEnds, agents, turns, calls, owners
<1>17. ASSUME NEW a \in Agent, NotCreated(a) PROVE CallInv'
  BY Holders, RecordsDiffer, <1>17 DEF CallInv, Follows, Typed, LifeInv, Whole,
     RecordInv, Delegated, Children, On, NotCreated, agents, turns, calls,
     owners
<1>18. ASSUME NEW a \in Agent, Start(a) PROVE CallInv'
  <2>0. told[a] = <<0, 0>> /\ 0 + 1 = 1 /\ create[a] = "live" /\ Delegated(a)
    BY <1>18 DEF Start, CallInv, Follows
  <2>1. CASE GivenUp(a)
    BY <1>18, <2>1, <2>0, Holders DEF Start, Disposes, CallInv, Follows, Typed,
       LifeInv, Whole, RecordInv, Delegated, Children, On, agents, turns, calls,
       owners
  <2>2. CASE ~GivenUp(a)
    BY <1>18, <2>2, <2>0, Holders DEF Start, Awaited, CallInv, Follows, Typed,
       LifeInv, Whole, RecordInv, Delegated, Children, On, agents, turns, calls,
       owners
  <2> QED
    BY <2>1, <2>2
<1>19. ASSUME NEW a \in Agent, ChildIdle(a) PROVE CallInv'
  BY Holders, RecordsDiffer, <1>19 DEF CallInv, Follows, Typed, LifeInv, Whole,
     RecordInv, Delegated, Children, On, ChildIdle, agents, turns, calls, owners
<1>20. ASSUME NEW a \in Agent, Record(a) PROVE CallInv'
  <2>0. create[a] = "live" /\ told[a] = <<1, 0>> /\ Delegated(a) /\ Parent[a] \in running
    BY <1>20 DEF Record, CallInv, Follows
  <2>1. /\ create' = create /\ create[a] = "live" /\ running' = running /\ Parent[a] \in running /\ Delegated(a)
        /\ \A b \in Agent \ {a} : life'[b] = life[b]
    BY <1>20, <2>0 DEF Record, Disposes, agents, Typed
  <2>2. /\ told'[a] = <<1, 1>> /\ call'[a] = "leaving"
        /\ \A b \in Agent \ {a} : told'[b] = told[b] /\ call'[b] = call[b]
    BY <1>20, <2>0 DEF Record, Typed
  <2> SUFFICES ASSUME NEW b \in Agent PROVE Follows(b)'
    BY DEF CallInv
  <2>7. Whole(b) /\ Follows(b)
    BY DEF LifeInv, CallInv
  <2>8. CASE b = a
    BY <2>1, <2>2, <2>7, <2>8 DEF Whole, Follows, Delegated
  <2>9. CASE b # a
    BY <2>1, <2>2, <2>7, <2>9 DEF Whole, Follows, Delegated
  <2> QED
    BY <2>8, <2>9
<1>21. ASSUME NEW a \in Agent, Return(a) PROVE CallInv'
  BY Holders, RecordsDiffer, <1>21 DEF CallInv, Follows, Typed, LifeInv, Whole,
     RecordInv, Delegated, Children, On, Return, agents, turns, calls, owners
<1>22. ASSUME NEW o \in Holder, Pop(o) PROVE CallInv'
  <2>1. Popped(o)
    BY <1>22, PopFacts
  <2>2. UNCHANGED <<agents, running, calls>>
    BY <1>22 DEF Pop
  <2> QED
    BY <2>1, <2>2, Holders, RecordsDiffer DEF CallInv, Follows, Typed, LifeInv,
       Whole, RecordInv, Delegated, Children, agents, calls, Popped
<1>23. ASSUME NEW o \in Holder, Closed(o) PROVE CallInv'
  <2>1. Emptied(o)
    BY <1>23, ClosedFacts
  <2>2. /\ open' = [open EXCEPT ![o] = "closed"] /\ awaiting' = [awaiting EXCEPT ![o] = Nothing]
        /\ UNCHANGED <<agents, life, turns, calls>>
    BY <1>23 DEF Closed
  <2> QED
    BY <2>1, <2>2, Holders, RecordsDiffer DEF CallInv, Follows, Typed, LifeInv,
       Whole, RecordInv, Delegated, Children, agents, turns, calls, Emptied
<1>24. CASE UNCHANGED vars
  BY Holders, RecordsDiffer, <1>24 DEF CallInv, Follows, Typed, LifeInv, Whole,
     RecordInv, Delegated, Children, On, vars, agents, turns, calls, owners
<1> QED
  BY <1>1, <1>2, <1>3, <1>4, <1>5, <1>6, <1>7, <1>8, <1>9, <1>10, <1>11, <1>12,
     <1>13, <1>14, <1>15, <1>16, <1>17, <1>18, <1>19, <1>20, <1>21, <1>22,
     <1>23, <1>24 DEF Next, Outside, Progress

LEMMA OwnerKeeps ==
  ASSUME Typed, LifeInv, RecordInv, OwnerInv, [Next]_vars
  PROVE  OwnerInv'
<1>1. ASSUME NEW a \in Agent, NEW how \in {"new", "resumed"}, Create(a, how) PROVE OwnerInv'
  <2>1. Begins(a, how) /\ UNCHANGED <<running, calls>> /\ Parent[a] = App
    BY <1>1 DEF Create, turns
  <2>2. Begun(a)
    BY <2>1, BeginsFacts
  <2>7. ASSUME NEW b \in Agent, create'[b] = "live", life'[b] # "done"
       PROVE  /\ LifeOf(b) \in On(Loop)' \/ awaiting'[Loop] = LifeOf(b)
              /\ OwnedBy(b) \in On(Parent[b])' \/ awaiting'[Parent[b]] = OwnedBy(b)
    <3>1. create[b] = "live" /\ life[b] # "done" =>
           /\ LifeOf(b) \in On(Loop) \/ awaiting[Loop] = LifeOf(b)
           /\ OwnedBy(b) \in On(Parent[b]) \/ awaiting[Parent[b]] = OwnedBy(b)
      BY DEF OwnerInv
    <3> QED
      BY <2>1, <2>2, <2>7, <3>1, Holders, RecordsDiffer DEF calls, Begun
  <2>8. ASSUME NEW h \in Holder, open'[h] = "closed"
       PROVE  On(h)' = {} /\ awaiting'[h] = Nothing
    <3>1. open[h] = "closed" => On(h) = {} /\ awaiting[h] = Nothing
      BY DEF OwnerInv
    <3> QED
      BY <2>1, <2>2, <2>8, <3>1, Holders, RecordsDiffer DEF calls, Begun
  <2> QED
    BY <2>7, <2>8 DEF OwnerInv
<1>2. ASSUME NEW a \in Agent, Dispose(a) PROVE OwnerInv'
  BY Holders, RecordsDiffer, <1>2 DEF OwnerInv, Typed, LifeInv, Whole,
     RecordInv, On, Dispose, Disposes, agents, turns, calls, owners
<1>3. ASSUME NEW a \in Agent, Prompt(a) PROVE OwnerInv'
  BY Holders, RecordsDiffer, <1>3 DEF OwnerInv, Typed, LifeInv, Whole,
     RecordInv, On, Prompt, agents, turns, calls, owners
<1>4. ASSUME NEW a \in Agent, Cancel(a) PROVE OwnerInv'
  BY Holders, RecordsDiffer, <1>4 DEF OwnerInv, Typed, LifeInv, Whole,
     RecordInv, On, Cancel, agents, turns, calls, owners
<1>5. ASSUME NEW a \in Agent, Delegate(a) PROVE OwnerInv'
  <2>1. /\ Begins(a, "new") /\ UNCHANGED <<running, told>>
        /\ call' = [call EXCEPT ![a] = "creating"] /\ Delegated(a) /\ Parent[a] \in running
    BY <1>5 DEF Delegate, turns
  <2>2. Begun(a)
    BY <2>1, BeginsFacts
  <2>7. ASSUME NEW b \in Agent, create'[b] = "live", life'[b] # "done"
       PROVE  /\ LifeOf(b) \in On(Loop)' \/ awaiting'[Loop] = LifeOf(b)
              /\ OwnedBy(b) \in On(Parent[b])' \/ awaiting'[Parent[b]] = OwnedBy(b)
    <3>1. create[b] = "live" /\ life[b] # "done" =>
           /\ LifeOf(b) \in On(Loop) \/ awaiting[Loop] = LifeOf(b)
           /\ OwnedBy(b) \in On(Parent[b]) \/ awaiting[Parent[b]] = OwnedBy(b)
      BY DEF OwnerInv
    <3> QED
      BY <2>1, <2>2, <2>7, <3>1, Holders, RecordsDiffer DEF calls, Begun
  <2>8. ASSUME NEW h \in Holder, open'[h] = "closed"
       PROVE  On(h)' = {} /\ awaiting'[h] = Nothing
    <3>1. open[h] = "closed" => On(h) = {} /\ awaiting[h] = Nothing
      BY DEF OwnerInv
    <3> QED
      BY <2>1, <2>2, <2>8, <3>1, Holders, RecordsDiffer DEF calls, Begun
  <2> QED
    BY <2>7, <2>8 DEF OwnerInv
<1>6. ASSUME NEW o \in {App, Loop}, Shutdown(o) PROVE OwnerInv'
  BY Holders, RecordsDiffer, <1>6 DEF OwnerInv, Typed, LifeInv, Whole,
     RecordInv, On, Shutdown, agents, turns, calls, owners
<1>7. ASSUME NEW a \in Agent, SetUp(a) PROVE OwnerInv'
  <2>1. CASE RollsBack(a)
    BY <1>7, <2>1, Holders, RecordsDiffer DEF SetUp, RollsBack, Disposes,
       OwnerInv, Typed, LifeInv, Whole, RecordInv, On, agents, turns, calls,
       owners
  <2>2. CASE ~RollsBack(a)
    BY ZenonT(60), <1>7, <2>2, Holders, RecordsDiffer DEF SetUp, OwnerInv, Typed, LifeInv,
       Whole, RecordInv, On, agents, turns, calls, owners
  <2> QED
    BY <2>1, <2>2
<1>8. ASSUME NEW a \in Agent, Publish(a) PROVE OwnerInv'
  <2>1. CASE origin[a] = "resumed"
    BY <1>8, <2>1, Holders, RecordsDiffer DEF Publish, OwnerInv, Typed, LifeInv,
       Whole, RecordInv, On, agents, turns, calls, owners
  <2>2. CASE origin[a] # "resumed"
    <3>1. Binds(a)
      BY <1>8, <2>2 DEF Publish
    <3>2. Bound(a)
      BY <3>1, BindsFacts
    <3>3. /\ create[a] = "settling" /\ registered' = registered \union {a}
          /\ session' = [session EXCEPT ![a] = "published"]
      BY <1>8 DEF Publish
    <3>4. UNCHANGED <<running, calls, open, awaiting>>
      BY <1>8 DEF Publish
    <3>7. ASSUME NEW b \in Agent, create'[b] = "live", life'[b] # "done"
         PROVE  /\ LifeOf(b) \in On(Loop)' \/ awaiting'[Loop] = LifeOf(b)
                /\ OwnedBy(b) \in On(Parent[b])' \/ awaiting'[Parent[b]] = OwnedBy(b)
      <4>1. create[b] = "live" /\ life[b] # "done" =>
             /\ LifeOf(b) \in On(Loop) \/ awaiting[Loop] = LifeOf(b)
             /\ OwnedBy(b) \in On(Parent[b]) \/ awaiting[Parent[b]] = OwnedBy(b)
        BY DEF OwnerInv
      <4> QED
        BY <3>2, <3>3, <3>4, <3>7, <4>1, Holders, RecordsDiffer DEF calls, Bound
    <3>8. ASSUME NEW h \in Holder, open'[h] = "closed"
         PROVE  On(h)' = {} /\ awaiting'[h] = Nothing
      <4>1. open[h] = "closed" => On(h) = {} /\ awaiting[h] = Nothing
        BY DEF OwnerInv
      <4> QED
        BY <3>2, <3>3, <3>4, <3>8, <4>1, Holders, RecordsDiffer DEF calls, Bound
    <3> QED
      BY <3>7, <3>8 DEF OwnerInv
  <2> QED
    BY <2>1, <2>2
<1>9. ASSUME NEW a \in Agent, Unsettled(a) PROVE OwnerInv'
  BY Holders, RecordsDiffer, <1>9 DEF OwnerInv, Typed, LifeInv, Whole,
     RecordInv, On, Unsettled, RollsBack, Disposes, agents, turns, calls, owners
<1>10. ASSUME NEW a \in Agent, Flushed(a) PROVE OwnerInv'
  <2>1. /\ Binds(a) /\ create[a] = "flushing"
        /\ UNCHANGED <<session, registered, running, calls, open, awaiting>>
    BY <1>10 DEF Flushed
  <2>2. Bound(a)
    BY <2>1, BindsFacts
  <2>7. ASSUME NEW b \in Agent, create'[b] = "live", life'[b] # "done"
       PROVE  /\ LifeOf(b) \in On(Loop)' \/ awaiting'[Loop] = LifeOf(b)
              /\ OwnedBy(b) \in On(Parent[b])' \/ awaiting'[Parent[b]] = OwnedBy(b)
    <3>1. create[b] = "live" /\ life[b] # "done" =>
           /\ LifeOf(b) \in On(Loop) \/ awaiting[Loop] = LifeOf(b)
           /\ OwnedBy(b) \in On(Parent[b]) \/ awaiting[Parent[b]] = OwnedBy(b)
      BY DEF OwnerInv
    <3> QED
      BY <2>1, <2>2, <2>7, <3>1, Holders, RecordsDiffer DEF calls, Bound
  <2>8. ASSUME NEW h \in Holder, open'[h] = "closed"
       PROVE  On(h)' = {} /\ awaiting'[h] = Nothing
    <3>1. open[h] = "closed" => On(h) = {} /\ awaiting[h] = Nothing
      BY DEF OwnerInv
    <3> QED
      BY <2>1, <2>2, <2>8, <3>1, Holders, RecordsDiffer DEF calls, Bound
  <2> QED
    BY <2>7, <2>8 DEF OwnerInv
<1>11. ASSUME NEW a \in Agent, Refused(a) PROVE OwnerInv'
  BY Holders, RecordsDiffer, <1>11 DEF OwnerInv, Typed, LifeInv, Whole,
     RecordInv, On, Refused, RollsBack, Disposes, agents, turns, calls, owners
<1>12. ASSUME NEW a \in Agent, ScopeGoes(a) PROVE OwnerInv'
  BY Holders, RecordsDiffer, <1>12 DEF OwnerInv, Typed, LifeInv, Whole,
     RecordInv, On, ScopeGoes, agents, turns, calls, owners
<1>13. ASSUME NEW a \in Agent, ScopeGone(a) PROVE OwnerInv'
  BY Holders, RecordsDiffer, <1>13 DEF OwnerInv, Typed, LifeInv, Whole,
     RecordInv, On, ScopeGone, agents, turns, calls, owners
<1>14. ASSUME NEW a \in Agent, Unregister(a) PROVE OwnerInv'
  BY Holders, RecordsDiffer, <1>14 DEF OwnerInv, Typed, LifeInv, Whole,
     RecordInv, On, Unregister, agents, turns, calls, owners
<1>15. ASSUME NEW a \in Agent, Detach(a) PROVE OwnerInv'
  <2>1. Freed(a)
    BY <1>15, DetachFacts
  <2>2. /\ life[a] = "unregistered" /\ life' = [life EXCEPT ![a] = "done"]
        /\ session' = [session EXCEPT ![a] = "closed"]
        /\ create' = [create EXCEPT ![a] = IF @ = "rolling" THEN "failed" ELSE @]
        /\ UNCHANGED <<registered, turns, calls, open, awaiting>>
    BY <1>15 DEF Detach
  <2>7. ASSUME NEW b \in Agent, create'[b] = "live", life'[b] # "done"
       PROVE  /\ LifeOf(b) \in On(Loop)' \/ awaiting'[Loop] = LifeOf(b)
              /\ OwnedBy(b) \in On(Parent[b])' \/ awaiting'[Parent[b]] = OwnedBy(b)
    <3>1. create[b] = "live" /\ life[b] # "done" =>
           /\ LifeOf(b) \in On(Loop) \/ awaiting[Loop] = LifeOf(b)
           /\ OwnedBy(b) \in On(Parent[b]) \/ awaiting[Parent[b]] = OwnedBy(b)
      BY DEF OwnerInv
    <3> QED
      BY <2>1, <2>2, <2>7, <3>1, Holders, RecordsDiffer DEF turns, calls, Freed,
         Typed
  <2>8. ASSUME NEW h \in Holder, open'[h] = "closed"
       PROVE  On(h)' = {} /\ awaiting'[h] = Nothing
    <3>1. open[h] = "closed" => On(h) = {} /\ awaiting[h] = Nothing
      BY DEF OwnerInv
    <3> QED
      BY <2>1, <2>2, <2>8, <3>1, Holders, RecordsDiffer DEF turns, calls, Freed,
         Typed
  <2> QED
    BY <2>7, <2>8 DEF OwnerInv
<1>16. ASSUME NEW a \in Agent, TurnEnds(a) PROVE OwnerInv'
  BY Holders, RecordsDiffer, <1>16 DEF OwnerInv, Typed, LifeInv, Whole,
     RecordInv, On, TurnEnds, agents, turns, calls, owners
<1>17. ASSUME NEW a \in Agent, NotCreated(a) PROVE OwnerInv'
  BY Holders, RecordsDiffer, <1>17 DEF OwnerInv, Typed, LifeInv, Whole,
     RecordInv, On, NotCreated, agents, turns, calls, owners
<1>18. ASSUME NEW a \in Agent, Start(a) PROVE OwnerInv'
  <2>1. CASE GivenUp(a)
    BY <1>18, <2>1, Holders DEF Start, Disposes, OwnerInv, Typed, LifeInv,
       Whole, RecordInv, On, agents, turns, calls, owners
  <2>2. CASE ~GivenUp(a)
    BY <1>18, <2>2, Holders DEF Start, Awaited, OwnerInv, Typed, LifeInv, Whole,
       RecordInv, On, agents, turns, calls, owners
  <2> QED
    BY <2>1, <2>2
<1>19. ASSUME NEW a \in Agent, ChildIdle(a) PROVE OwnerInv'
  BY Holders, RecordsDiffer, <1>19 DEF OwnerInv, Typed, LifeInv, Whole,
     RecordInv, On, ChildIdle, agents, turns, calls, owners
<1>20. ASSUME NEW a \in Agent, Record(a) PROVE OwnerInv'
  BY Holders, RecordsDiffer, <1>20 DEF OwnerInv, Typed, LifeInv, Whole,
     RecordInv, On, Record, Disposes, agents, turns, calls, owners
<1>21. ASSUME NEW a \in Agent, Return(a) PROVE OwnerInv'
  BY Holders, RecordsDiffer, <1>21 DEF OwnerInv, Typed, LifeInv, Whole,
     RecordInv, On, Return, agents, turns, calls, owners
<1>22. ASSUME NEW o \in Holder, Pop(o) PROVE OwnerInv'
  <2>1. Popped(o)
    BY <1>22, PopFacts
  <2>2. UNCHANGED <<agents, running, calls>>
    BY <1>22 DEF Pop
  <2>6. \A b \in Agent : awaiting[o] \in {LifeOf(b), OwnedBy(b)} => life[b] = "done"
    BY <2>1, <2>2 DEF Ready, Over, LifeOf, OwnedBy, agents, calls, Popped
  <2>5. open[o] = "unwinding"
    BY <2>1, <2>2 DEF Ready, agents, calls, Popped
  <2>4. \A h \in Holder \ {o} : awaiting'[h] = awaiting[h]
    BY <2>1, <2>2 DEF Typed, agents, calls, Popped
  <2>7. ASSUME NEW b \in Agent, create'[b] = "live", life'[b] # "done"
       PROVE  /\ LifeOf(b) \in On(Loop)' \/ awaiting'[Loop] = LifeOf(b)
              /\ OwnedBy(b) \in On(Parent[b])' \/ awaiting'[Parent[b]] = OwnedBy(b)
    <3>1. create[b] = "live" /\ life[b] # "done" =>
           /\ LifeOf(b) \in On(Loop) \/ awaiting[Loop] = LifeOf(b)
           /\ OwnedBy(b) \in On(Parent[b]) \/ awaiting[Parent[b]] = OwnedBy(b)
      BY DEF OwnerInv
    <3>0. create[b] = "live" /\ life[b] # "done"
      BY <2>1, <2>2, <2>7 DEF agents, calls, Popped
    <3>2. ASSUME NEW h \in Holder, NEW x \in {LifeOf(b), OwnedBy(b)}, x \in On(h) \/ awaiting[h] = x
          PROVE  x \in On(h)' \/ awaiting'[h] = x
      <4>0. \A c : x # ScopeOf(c)
        BY DEF ScopeOf, LifeOf, OwnedBy
      <4>1. x \in On(h) => x \in On(h)' \/ awaiting'[h] = x
        BY SMTT(40), <2>1, <2>2, <4>0 DEF agents, calls, Popped
      <4>2. awaiting[h] = x => h # o
        BY <2>6, <3>0
      <4> QED
        BY <4>1, <4>2, <2>4, <3>2
    <3> QED
      BY <3>0, <3>1, <3>2, Holders
  <2>8. ASSUME NEW h \in Holder, open'[h] = "closed"
       PROVE  On(h)' = {} /\ awaiting'[h] = Nothing
    <3>1. open[h] = "closed" => On(h) = {} /\ awaiting[h] = Nothing
      BY DEF OwnerInv
    <3> QED
      BY <2>1, <2>2, <2>6, <2>5, <2>4, <2>8, <3>1, Holders, RecordsDiffer
         DEF agents, calls, Popped, Typed
  <2> QED
    BY <2>7, <2>8 DEF OwnerInv
<1>23. ASSUME NEW o \in Holder, Closed(o) PROVE OwnerInv'
  <2>1. Emptied(o)
    BY <1>23, ClosedFacts
  <2>2. /\ open' = [open EXCEPT ![o] = "closed"] /\ awaiting' = [awaiting EXCEPT ![o] = Nothing]
        /\ UNCHANGED <<agents, life, turns, calls>>
    BY <1>23 DEF Closed
  <2>6. \A b \in Agent : awaiting[o] \in {LifeOf(b), OwnedBy(b)} => life[b] = "done"
    BY <2>1, <2>2 DEF Ready, Over, LifeOf, OwnedBy, agents, turns, calls,
       Emptied
  <2>5. open[o] = "unwinding"
    BY <2>1, <2>2 DEF Ready, agents, turns, calls, Emptied
  <2>4. \A h \in Holder \ {o} : awaiting'[h] = awaiting[h]
    BY <2>1, <2>2 DEF Typed, agents, turns, calls, Emptied
  <2>7. ASSUME NEW b \in Agent, create'[b] = "live", life'[b] # "done"
       PROVE  /\ LifeOf(b) \in On(Loop)' \/ awaiting'[Loop] = LifeOf(b)
              /\ OwnedBy(b) \in On(Parent[b])' \/ awaiting'[Parent[b]] = OwnedBy(b)
    <3>1. create[b] = "live" /\ life[b] # "done" =>
           /\ LifeOf(b) \in On(Loop) \/ awaiting[Loop] = LifeOf(b)
           /\ OwnedBy(b) \in On(Parent[b]) \/ awaiting[Parent[b]] = OwnedBy(b)
      BY DEF OwnerInv
    <3>0. create[b] = "live" /\ life[b] # "done"
      BY <2>1, <2>2, <2>7 DEF agents, turns, calls, Emptied
    <3>2. ASSUME NEW h \in Holder, NEW x \in {LifeOf(b), OwnedBy(b)}, x \in On(h) \/ awaiting[h] = x
          PROVE  x \in On(h)' \/ awaiting'[h] = x
      <4>0. \A c : x # ScopeOf(c)
        BY DEF ScopeOf, LifeOf, OwnedBy
      <4>1. x \in On(h) => x \in On(h)' \/ awaiting'[h] = x
        BY <2>1, <2>2, <4>0 DEF agents, turns, calls, Emptied
      <4>2. awaiting[h] = x => h # o
        BY <2>6, <3>0
      <4> QED
        BY <4>1, <4>2, <2>4, <3>2
    <3> QED
      BY <3>0, <3>1, <3>2, Holders
  <2>8. ASSUME NEW h \in Holder, open'[h] = "closed"
       PROVE  On(h)' = {} /\ awaiting'[h] = Nothing
    <3>1. open[h] = "closed" => On(h) = {} /\ awaiting[h] = Nothing
      BY DEF OwnerInv
    <3> QED
      BY <2>1, <2>2, <2>6, <2>5, <2>4, <2>8, <3>1, Holders, RecordsDiffer
         DEF agents, turns, calls, Emptied, Typed
  <2> QED
    BY <2>7, <2>8 DEF OwnerInv
<1>24. CASE UNCHANGED vars
  BY Holders, RecordsDiffer, <1>24 DEF OwnerInv, Typed, LifeInv, Whole,
     RecordInv, On, vars, agents, turns, calls, owners
<1> QED
  BY <1>1, <1>2, <1>3, <1>4, <1>5, <1>6, <1>7, <1>8, <1>9, <1>10, <1>11, <1>12,
     <1>13, <1>14, <1>15, <1>16, <1>17, <1>18, <1>19, <1>20, <1>21, <1>22,
     <1>23, <1>24 DEF Next, Outside, Progress

-----------------------------------------------------------------------------
(* The invariant holds of every reachable state.                            *)

LEMMA InitIInv == ASSUME Init PROVE IInv
<1>1. \A o \in Holder : effects[o] = <<>>
  BY DEF Init
<1>2. \A o \in Holder : On(o) = {}
  BY <1>1 DEF On, ToSet
<1>3. <<>> \in Seq(Rec)
  BY EmptySeq
<1>4. Typed
  BY <1>3 DEF Init, Typed
<1>5. LifeInv /\ RecordInv
  BY <1>2 DEF Init, LifeInv, Whole, RecordInv
<1>6. CallInv
  BY DEF Init, CallInv, Follows
<1>7. OwnerInv
  BY <1>2 DEF Init, OwnerInv
<1> QED
  BY <1>4, <1>5, <1>6, <1>7 DEF IInv

LEMMA NextIInv == ASSUME IInv, [Next]_vars PROVE IInv'
  BY TypedKeeps, LifeKeeps, RecordKeeps, CallKeeps, OwnerKeeps DEF IInv

(* What is known of the stores, the calls and the owners' lists of every    *)
(* agent (IInv) holds in every state.                                       *)
THEOREM Invariance == Spec => []IInv
<1>1. Init => IInv
  BY InitIInv
<1>2. IInv /\ [Next]_vars => IInv'
  BY NextIInv
<1> QED
  BY <1>1, <1>2, PTL DEF Spec

LEMMA FoundFromIInv == ASSUME IInv PROVE FoundWhole
<1>1. ASSUME NEW a \in Agent, create[a] = "failed", NEW o \in Holder, NEW i \in DOMAIN effects[o]
      PROVE  effects[o][i] \notin {LifeOf(a), OwnedBy(a)}
  <2>1. effects[o][i] \in On(o)
    BY DEF On, ToSet
  <2>2. LifeOf(a) \notin On(o) /\ OwnedBy(a) \notin On(o)
    BY <1>1 DEF IInv, RecordInv
  <2> QED
    BY <2>1, <2>2
<1>2. \A a \in Agent : create[a] = "failed" => a \notin registered \union running /\ session[a] = "closed"
  BY DEF IInv, LifeInv, Whole
<1>3. RollsBackWhole
  BY <1>1, <1>2 DEF RollsBackWhole
<1>4. SeenWhole
  BY DEF IInv, Typed, LifeInv, Whole, SeenWhole
<1> QED
  BY <1>3, <1>4 DEF FoundWhole

(* A creation that failed leaves nothing behind, and whoever finds an agent *)
(* finds its session open: however creations roll back and disposals run    *)
(* (factory.ts, the transaction and the one disposal).                      *)
THEOREM FoundIsWhole == Spec => []FoundWhole
<1>1. IInv => FoundWhole
  BY FoundFromIInv
<1> QED
  BY <1>1, Invariance, PTL

LEMMA KeptFromIInv == ASSUME IInv PROVE ChildIsKept
<1>1. ASSUME NEW c \in Agent, Delegated(c),
             c \in registered \/ c \in running \/ (create[c] = "live" /\ life[c] # "done")
      PROVE  Parent[c] \in running
  <2>1. Whole(c) /\ Follows(c)
    BY DEF IInv, LifeInv, CallInv
  <2> QED
    BY <1>1, <2>1 DEF Whole, Follows
<1>2. ASSUME NEW c \in Agent
      PROVE  /\ told[c][2] <= told[c][1] /\ told[c][1] <= 1
             /\ call[c] = "done" => told[c] = IF create[c] = "live" THEN <<1, 1>> ELSE <<0, 0>>
  <2>1. Follows(c) /\ call[c] \in {"none", "creating", "awaiting", "flushing", "leaving", "done"}
    BY DEF IInv, CallInv, Typed
  <2>2. told[c] \in {<<0, 0>>, <<1, 0>>, <<1, 1>>}
    BY <2>1 DEF Follows
  <2> QED
    BY <2>1, <2>2 DEF Follows
<1>3. GoesWithOwner
  <2> SUFFICES ASSUME NEW a \in Agent, create[a] = "live", life[a] # "done",
                      open[Loop] = "closed" \/ open[Parent[a]] = "closed"
               PROVE  FALSE
    BY DEF GoesWithOwner
  <2>1. OwnerInv
    BY DEF IInv
  <2>2. CASE open[Loop] = "closed"
    BY <2>1, <2>2, Holders, RecordsDiffer DEF OwnerInv
  <2>3. CASE open[Parent[a]] = "closed"
    BY <2>1, <2>3, Holders, RecordsDiffer DEF OwnerInv
  <2> QED
    BY <2>2, <2>3
<1> QED
  BY <1>1, <1>2, <1>3 DEF ChildIsKept, ChildWithinTurn, DelegationPaired

LEMMA GivenUpKept ==
  ASSUME [Next]_vars
  PROVE  \A c \in Agent : GivenUp(c) /\ c \notin running => c \notin running'
<1> SUFFICES ASSUME NEW c \in Agent, GivenUp(c), c \notin running PROVE c \notin running'
  OBVIOUS
<1>1. ASSUME NEW a \in Agent, NEW how \in {"new", "resumed"}, Create(a, how) PROVE c \notin running'
  BY <1>1 DEF GivenUp, vars, Create, agents, turns, calls, owners
<1>2. ASSUME NEW a \in Agent, Dispose(a) PROVE c \notin running'
  BY <1>2 DEF GivenUp, vars, Dispose, Disposes, agents, turns, calls, owners
<1>3. ASSUME NEW a \in Agent, Prompt(a) PROVE c \notin running'
  BY <1>3 DEF GivenUp, vars, Prompt, agents, turns, calls, owners
<1>4. ASSUME NEW a \in Agent, Cancel(a) PROVE c \notin running'
  BY <1>4 DEF GivenUp, vars, Cancel, agents, turns, calls, owners
<1>5. ASSUME NEW a \in Agent, Delegate(a) PROVE c \notin running'
  BY <1>5 DEF GivenUp, vars, Delegate, agents, turns, calls, owners
<1>6. ASSUME NEW o \in {App, Loop}, Shutdown(o) PROVE c \notin running'
  BY <1>6 DEF GivenUp, vars, Shutdown, agents, turns, calls, owners
<1>7. ASSUME NEW a \in Agent, SetUp(a) PROVE c \notin running'
  BY <1>7 DEF GivenUp, vars, SetUp, RollsBack, Disposes, agents, turns, calls,
     owners
<1>8. ASSUME NEW a \in Agent, Publish(a) PROVE c \notin running'
  BY <1>8 DEF GivenUp, vars, Publish, agents, turns, calls, owners
<1>9. ASSUME NEW a \in Agent, Unsettled(a) PROVE c \notin running'
  BY <1>9 DEF GivenUp, vars, Unsettled, RollsBack, Disposes, agents, turns,
     calls, owners
<1>10. ASSUME NEW a \in Agent, Flushed(a) PROVE c \notin running'
  BY <1>10 DEF GivenUp, vars, Flushed, agents, turns, calls, owners
<1>11. ASSUME NEW a \in Agent, Refused(a) PROVE c \notin running'
  BY <1>11 DEF GivenUp, vars, Refused, RollsBack, Disposes, agents, turns,
     calls, owners
<1>12. ASSUME NEW a \in Agent, ScopeGoes(a) PROVE c \notin running'
  BY <1>12 DEF GivenUp, vars, ScopeGoes, agents, turns, calls, owners
<1>13. ASSUME NEW a \in Agent, ScopeGone(a) PROVE c \notin running'
  BY <1>13 DEF GivenUp, vars, ScopeGone, agents, turns, calls, owners
<1>14. ASSUME NEW a \in Agent, Unregister(a) PROVE c \notin running'
  BY <1>14 DEF GivenUp, vars, Unregister, agents, turns, calls, owners
<1>15. ASSUME NEW a \in Agent, Detach(a) PROVE c \notin running'
  BY <1>15 DEF GivenUp, vars, Detach, agents, turns, calls, owners
<1>16. ASSUME NEW a \in Agent, TurnEnds(a) PROVE c \notin running'
  BY <1>16 DEF GivenUp, vars, TurnEnds, agents, turns, calls, owners
<1>17. ASSUME NEW a \in Agent, NotCreated(a) PROVE c \notin running'
  BY <1>17 DEF GivenUp, vars, NotCreated, agents, turns, calls, owners
<1>18. ASSUME NEW a \in Agent, Start(a) PROVE c \notin running'
  BY <1>18 DEF GivenUp, vars, Start, Awaited, Disposes, agents, turns, calls,
     owners
<1>19. ASSUME NEW a \in Agent, ChildIdle(a) PROVE c \notin running'
  BY <1>19 DEF GivenUp, vars, ChildIdle, agents, turns, calls, owners
<1>20. ASSUME NEW a \in Agent, Record(a) PROVE c \notin running'
  BY <1>20 DEF GivenUp, vars, Record, Disposes, agents, turns, calls, owners
<1>21. ASSUME NEW a \in Agent, Return(a) PROVE c \notin running'
  BY <1>21 DEF GivenUp, vars, Return, agents, turns, calls, owners
<1>22. ASSUME NEW o \in Holder, Pop(o) PROVE c \notin running'
  BY <1>22 DEF GivenUp, vars, Pop, Ready, Disposes, agents, turns, calls, owners
<1>23. ASSUME NEW o \in Holder, Closed(o) PROVE c \notin running'
  BY <1>23 DEF GivenUp, vars, Closed, Ready, agents, turns, calls, owners
<1>24. CASE UNCHANGED vars
  BY <1>24 DEF GivenUp, vars, vars, agents, turns, calls, owners
<1> QED
  BY <1>1, <1>2, <1>3, <1>4, <1>5, <1>6, <1>7, <1>8, <1>9, <1>10, <1>11, <1>12,
     <1>13, <1>14, <1>15, <1>16, <1>17, <1>18, <1>19, <1>20, <1>21, <1>22,
     <1>23, <1>24 DEF Next, Outside, Progress

(* A child lives within the call that made it, its start and its end are    *)
(* recorded once each, it goes with the first of its owners, and no turn of *)
(* it begins once its call is given up (the subagent tool over factory.ts). *)
THEOREM FollowsItsCall == Spec => ChildFollowsItsCall
<1>1. IInv => ChildIsKept
  BY KeptFromIInv
<1>2. [Next]_vars => [\A c \in Agent : GivenUp(c) /\ c \notin running => c \notin running']_vars
  BY GivenUpKept
<1> QED
  BY <1>1, <1>2, Invariance, PTL DEF Spec, ChildFollowsItsCall, GivenUpStaysIdle

-----------------------------------------------------------------------------
(* The kernel.  What an instance and a realm are.                           *)

Tasks == {"load", "unload", "reload", "dispose"}
(* The ids of providers, or one of the two that are no provider's.         *)
Epochs == {e \in SUBSET Int : IsFiniteSet(e)}
PluginType ==
  [mounted : {"no", "yes", "out"},
   state : {"pending", "loading", "active", "unloading", "failed", "disposed"},
   epoch : Epochs, queue : Seq(Tasks),
   run : {"idle", "apply", "provided", "recheck"} \union Unwinds,
   under : Epochs, failed : BOOLEAN]
Impl == [by : Instance, id : Nat \ {0}]
Plugins == [Instance -> PluginType]
Realms == [Scope -> [Key -> Impl \union {NoImpl}]]
Effect ==
  [kind : {"provide"}, what : Key] \union [kind : {"mount"}, what : Instance]
    \union [kind : {"scope"}, what : Scope]

Tasked(me) == ToSet(me.queue)
Owned(o) == ToSet(effectsOf[o])

(* Where an instance's task is, and what it may still have to do: one that  *)
(* was disposed of has its disposal to come.                                *)
Staged(me) ==
  /\ me.run \in {"apply", "provided", "failing", "leaving"} => me.state = "loading"
  /\ me.run \in {"unloading", "reloading", "disposing"} => me.state = "unloading"
  /\ me.state = "unloading" => me.run \in {"unloading", "reloading", "disposing"}
  /\ me.run \in {"leaving", "disposing"} => me.mounted = "out"
  /\ me.run = "failing" => me.failed
  /\ me.run = "recheck" => me.state \in {"pending", "failed", "disposed"}
  /\ me.state = "loading" /\ me.run = "idle" => me.mounted = "out"
  /\ me.state = "disposed" => me.mounted = "out"
  /\ me.state = "failed" => me.failed
  /\ "dispose" \in Tasked(me) => me.mounted = "out"
  /\ me.mounted = "out" => "dispose" \in Tasked(me) \/ me.run = "disposing" \/ me.state = "disposed"
  /\ me.mounted = "no" => me.state = "pending" /\ me.run = "idle" /\ me.queue = <<>> /\ me.epoch = Never
  /\ me.mounted = "yes" => me.epoch # Never

(* Whose a record is.                                                       *)
Listed(o, r) ==
  /\ r.kind = "provide" => o \in Instance /\ r.what = Gives[o]
  /\ r.kind # "provide" => Owner[r.what] = o

(* A service is its provider's, which is up or unwinding and has the record.*)
Serving == {"loading", "active", "unloading"}
ServiceIn(P, R, E, s, k) ==
  R[s][k] # NoImpl =>
    LET p == R[s][k].by
    IN  s = Home[p] /\ k = Gives[p] /\ P[p].state \in Serving /\ Provided(k) \in ToSet(E[p])

DistinctIds(R) ==
  \A s, t \in Scope, k, l \in Key :
    R[s][k] # NoImpl /\ R[t][l] # NoImpl /\ R[s][k].id = R[t][l].id => s = t /\ k = l

KeptIn(P, E, A, p) ==
  P[p].mounted # "no" =>
    Mounted(p) \in ToSet(E[Owner[p]]) \/ A[Owner[p]] = p \/ P[p].state = "disposed"

(* Whose everything is: instances P, realms R, lists E, awaited A.          *)
OwnIn(P, R, E, A) ==
  /\ P \in Plugins /\ R \in Realms
  /\ E \in [EffectOwner -> Seq(Effect)] /\ A \in [EffectOwner -> EffectOwner \union {Absent}]
  /\ \A p \in Instance : Staged(P[p])
  /\ \A o \in EffectOwner : \A r \in ToSet(E[o]) : Listed(o, r)
  /\ \A s \in Scope, k \in Key : ServiceIn(P, R, E, s, k)
  /\ DistinctIds(R)
  /\ \A p \in Instance : KeptIn(P, E, A, p)

(* A provider that no longer serves before its service is taken out: the    *)
(* unwind that does so has begun or is certain.                             *)
Doomed(me) == me.state = "unloading" \/ (me.state = "loading" /\ me.run # "provided")

(* One that was told of such a provider and not yet of its going.           *)
Stale(P, R, p) ==
  \E k \in Needs[p] :
    LET impl == Lookup(R, p, k)
    IN  impl # NoImpl /\ Doomed(P[impl.by]) /\ impl.id \in P[p].epoch

ToldIn(P, R, p) ==
  P[p].mounted = "yes" => P[p].epoch = computeEpoch(P, R, p) \/ Stale(P, R, p)

(* Where the chain of one whose loads never failed ends: the last task is   *)
(* what its epoch asks for, and with none left it is where that brings it.  *)
Ends(me, stale) ==
  IF me.queue # <<>> THEN Last(me.queue) = "unload" <=> me.epoch = Inactive
  ELSE /\ me.run = "idle" =>
            IF me.epoch = Inactive THEN me.state = "pending"
            ELSE \/ me.state = "active" /\ me.under = me.epoch
                 \/ me.state = "pending" /\ stale
       /\ me.run \in {"apply", "provided"} => me.epoch # Inactive /\ (me.under = me.epoch \/ stale)
       /\ me.run \in {"reloading", "recheck"} => me.epoch # Inactive
       /\ me.run = "unloading" => me.epoch = Inactive

EndsIn(P, R, p) == P[p].mounted = "yes" /\ ~P[p].failed => Ends(P[p], Stale(P, R, p))

ChainIn(P, R) == \A p \in Instance : ToldIn(P, R, p) /\ EndsIn(P, R, p)

ScopesTyped == scope \in [Scope -> {"none", "open", "unwinding", "closed"}]

KInv ==
  ScopesTyped /\ OwnIn(plugin, realm, effectsOf, awaitedBy) /\ ChainIn(plugin, realm)

-----------------------------------------------------------------------------
(* Lists of tasks and of records.                                           *)

LEMMA TailOn ==
  ASSUME NEW S, NEW s \in Seq(S), s # <<>>
  PROVE  /\ Tail(s) \in Seq(S) /\ ToSet(s) = ToSet(Tail(s)) \union {Head(s)}
         /\ Tail(s) # <<>> => Last(Tail(s)) = Last(s)
         /\ Tail(s) = <<>> => Last(s) = Head(s)
<1> DEFINE n == Len(s)
           t == Tail(s)
<1>1. n \in Nat /\ n # 0 /\ DOMAIN s = 1..n /\ Head(s) = s[1]
  BY LenProperties, EmptySeq
<1>2. t \in Seq(S) /\ Len(t) = n - 1 /\ DOMAIN t = 1..(n - 1) /\ \A i \in 1..(n - 1) : t[i] = s[i + 1]
  BY <1>1, HeadTailProperties, LenProperties
<1>3. \A i : i \in 1..n <=> i = 1 \/ (i \in 2..n)
  BY <1>1
<1>4. \A i : i \in 2..n => i - 1 \in 1..(n - 1) /\ (i - 1) + 1 = i
  BY <1>1
<1>5. \A i : i \in 1..(n - 1) => i + 1 \in 1..n
  BY <1>1
<1> HIDE DEF n, t
<1>6. \A i \in 2..n : s[i] = t[i - 1]
  BY <1>2, <1>4
<1>7. ToSet(s) = ToSet(t) \union {Head(s)}
  <2>1. ASSUME NEW x, x \in ToSet(s) PROVE x \in ToSet(t) \union {Head(s)}
    <3>1. PICK i \in 1..n : x = s[i]
      BY <1>1, <2>1 DEF ToSet
    <3> QED
      BY <1>1, <1>2, <1>3, <1>4, <1>6, <3>1 DEF ToSet
  <2>2. Head(s) \in ToSet(s)
    BY <1>1, <1>3 DEF ToSet
  <2>3. ToSet(t) \subseteq ToSet(s)
    BY <1>1, <1>2, <1>5 DEF ToSet
  <2> QED
    BY <2>1, <2>2, <2>3
<1>8. t # <<>> => Last(t) = Last(s)
  <2> SUFFICES ASSUME t # <<>> PROVE Last(t) = Last(s)
    OBVIOUS
  <2>1. Len(t) # 0
    BY <1>2, EmptySeq
  <2>2. n - 1 \in 1..(n - 1) /\ (n - 1) + 1 = n
    BY <1>1, <1>2, <2>1
  <2> QED
    BY <1>2, <2>2 DEF Last, n
<1>9. t = <<>> => Last(s) = Head(s)
  <2> SUFFICES ASSUME t = <<>> PROVE Last(s) = Head(s)
    OBVIOUS
  <2>1. Len(t) = 0
    BY EmptySeq
  <2>2. n = 1
    BY <1>1, <1>2, <2>1
  <2> QED
    BY <1>1, <2>2 DEF Last, n
<1> QED
  BY <1>2, <1>7, <1>8, <1>9 DEF t

LEMMA AddOn ==
  ASSUME NEW S, NEW s \in Seq(S), NEW x \in S
  PROVE  /\ s \o <<x>> = Append(s, x)
         /\ Append(s, x) \in Seq(S) /\ Append(s, x) # <<>> /\ Last(Append(s, x)) = x
<1> DEFINE t == Append(s, x)
<1>1. s \o <<x>> = t
  BY ConcatProperties, AppendProperties, AppendIsConcat
<1>2. t \in Seq(S) /\ Len(t) = Len(s) + 1 /\ t[Len(s) + 1] = x
  BY AppendProperties
<1>3. Len(s) \in Nat
  BY LenProperties
<1>4. t # <<>>
  BY <1>2, <1>3, EmptySeq
<1> HIDE DEF t
<1>5. Last(t) = x
  BY <1>2 DEF Last
<1> QED
  BY <1>1, <1>2, <1>4, <1>5 DEF t

LEMMA NoneOn ==
  ASSUME NEW S, NEW s \in Seq(S)
  PROVE  s \o <<>> = s /\ (s = <<>> => ToSet(s) = {})
<1>1. s \o <<>> = s
  BY ConcatEmptySeq
<1>2. ASSUME s = <<>> PROVE ToSet(s) = {}
  <2>1. DOMAIN s = {}
    BY <1>2
  <2> QED
    BY <2>1 DEF ToSet
<1> QED
  BY <1>1, <1>2

LEMMA ContainsOn ==
  ASSUME NEW S, NEW s \in Seq(S), NEW x
  PROVE  Contains(s, x) <=> x \in ToSet(s)
<1>1. DOMAIN s = 1..Len(s)
  BY LenProperties
<1> QED
  BY <1>1 DEF Contains, ToSet

-----------------------------------------------------------------------------
(* Epochs: what an instance would find, and what telling it does.           *)

LEMMA KernelFacts ==
  /\ Root \in Scope /\ Absent \notin EffectOwner /\ Absent \notin Key /\ Absent \notin Instance
  /\ \A p \in Instance : /\ p \in EffectOwner /\ p \notin Scope /\ Home[p] \in Scope
                         /\ Owner[p] \in EffectOwner /\ Needs[p] \subseteq Key
                         /\ Gives[p] \in Key \union {Absent}
  /\ \A s \in Scope : s \in EffectOwner /\ s \notin Instance /\ Owner[s] \in EffectOwner
  /\ NoImpl \notin Impl
  BY KernelAssumption DEF EffectOwner, NoImpl, Impl

LEMMA EpochsDiffer == Never # Inactive /\ Never \in Epochs /\ Inactive \in Epochs
<1>1. 0 \in Int /\ -1 \in Int /\ -1 # 0
  OBVIOUS
<1>2. 0 \in Inactive /\ 0 \notin Never
  BY <1>1 DEF Never, Inactive
<1>3. IsFiniteSet(Never) /\ IsFiniteSet(Inactive)
  BY FS_Singleton DEF Never, Inactive
<1> QED
  BY <1>1, <1>2, <1>3 DEF Never, Inactive, Epochs

(* The values of a function on a finite set are finitely many.              *)
LEMMA ImageIsFinite ==
  ASSUME NEW S, IsFiniteSet(S), NEW f, f = [x \in S |-> f[x]]
  PROVE  IsFiniteSet({f[x] : x \in S})
<1> DEFINE T == {f[x] : x \in S}
<1>1. f \in [S -> T]
  OBVIOUS
<1>2. f \in Surjection(S, T)
  BY <1>1 DEF Surjection
<1> HIDE DEF T
<1>3. IsFiniteSet(T)
  BY <1>2, FS_Surjection
<1> QED
  BY <1>3 DEF T

LEMMA LookupFacts ==
  ASSUME NEW R \in Realms, NEW p \in Instance, NEW k \in Key
  PROVE  /\ Lookup(R, p, k) \in Impl \union {NoImpl}
         /\ \E s \in Scope : Lookup(R, p, k) = R[s][k]
  BY KernelFacts DEF Lookup, Realms

Found(R, p) == {Lookup(R, p, k) : k \in Needs[p]}

LEMMA EpochFacts ==
  ASSUME NEW P \in Plugins, NEW R \in Realms, NEW p \in Instance
  PROVE  /\ computeEpoch(P, R, p) \in Epochs /\ computeEpoch(P, R, p) # Never
         /\ computeEpoch(P, R, p) = Inactive <=>
              \E i \in Found(R, p) : i = NoImpl \/ P[i.by].state # "active"
         /\ computeEpoch(P, R, p) # Inactive => computeEpoch(P, R, p) = {i.id : i \in Found(R, p)}
<1> DEFINE bad == \E i \in Found(R, p) : i = NoImpl \/ P[i.by].state # "active"
           ids == {i.id : i \in Found(R, p)}
<1>1. computeEpoch(P, R, p) = IF bad THEN Inactive ELSE ids
  BY DEF computeEpoch, Found
<1>2. \A i \in Found(R, p) : i \in Impl \union {NoImpl}
  BY LookupFacts, KernelFacts DEF Found
<1>3. ~bad => \A i \in Found(R, p) : i.id \in Nat /\ i.id # 0
  BY <1>2 DEF Impl
<1>4. ~bad => ids \in Epochs /\ 0 \notin ids /\ -1 \notin ids
  <2> SUFFICES ASSUME ~bad PROVE ids \in Epochs /\ 0 \notin ids /\ -1 \notin ids
    OBVIOUS
  <2>1. \A n \in Nat : n # -1
    OBVIOUS
  <2>2. \A i \in Found(R, p) : i.id \in Nat /\ i.id # 0 /\ i.id # -1
    BY <1>3, <2>1
  <2>3. IsFiniteSet(Found(R, p))
    <3> DEFINE f == [k \in Needs[p] |-> Lookup(R, p, k)]
    <3>1. IsFiniteSet(Needs[p])
      BY KernelAssumption, KernelFacts, FS_Subset
    <3>2. f = [k \in Needs[p] |-> f[k]] /\ Found(R, p) = {f[k] : k \in Needs[p]}
      BY DEF Found
    <3> HIDE DEF f
    <3> QED
      BY <3>1, <3>2, ImageIsFinite
  <2>4. IsFiniteSet(ids)
    <3> DEFINE f == [i \in Found(R, p) |-> i.id]
    <3>1. f = [i \in Found(R, p) |-> f[i]] /\ ids = {f[i] : i \in Found(R, p)}
      OBVIOUS
    <3> HIDE DEF f, ids
    <3> QED
      BY <2>3, <3>1, ImageIsFinite
  <2> QED
    BY <2>2, <2>4 DEF Epochs
<1> HIDE DEF bad, ids
<1>5. ~bad => ids # Inactive /\ ids # Never
  <2>1. 0 \in Inactive /\ -1 \in Never
    BY DEF Inactive, Never
  <2> QED
    BY <1>4, <2>1
<1> QED
  BY <1>1, <1>4, <1>5, EpochsDiffer DEF bad, ids

(* Only which providers are active counts.                                  *)
LEMMA EpochAlike ==
  ASSUME NEW P \in Plugins, NEW Q \in Plugins, NEW R \in Realms, NEW p \in Instance,
         \A q \in Instance : P[q].state = "active" <=> Q[q].state = "active"
  PROVE  computeEpoch(P, R, p) = computeEpoch(Q, R, p)
<1>1. \A i \in Found(R, p) : i \in Impl \union {NoImpl}
  BY LookupFacts, KernelFacts DEF Found
<1>2. \A i \in Found(R, p) : (i = NoImpl \/ P[i.by].state # "active") <=> (i = NoImpl \/ Q[i.by].state # "active")
  BY <1>1 DEF Impl
<1> HIDE DEF Found
<1> QED
  BY <1>2 DEF computeEpoch, Found

(* A doomed provider is found but not active, and its id is no inactive     *)
(* epoch's.                                                                 *)
LEMMA StaleDiffers ==
  ASSUME NEW P \in Plugins, NEW R \in Realms, NEW p \in Instance, Stale(P, R, p)
  PROVE  computeEpoch(P, R, p) = Inactive /\ P[p].epoch # Inactive
<1>1. PICK k \in Needs[p] : LET i == Lookup(R, p, k)
                            IN  i # NoImpl /\ Doomed(P[i.by]) /\ i.id \in P[p].epoch
  BY DEF Stale
<1> DEFINE i == Lookup(R, p, k)
<1>2. i \in Impl /\ i \in Found(R, p)
  BY <1>1, LookupFacts, KernelFacts DEF Found
<1>3. P[i.by].state # "active"
  BY <1>1 DEF Doomed
<1>4. i.id # 0 /\ i.id \in P[p].epoch
  BY <1>1, <1>2 DEF Impl
<1> HIDE DEF i
<1> QED
  BY <1>2, <1>3, <1>4, EpochFacts DEF Inactive

LEMMA RefreshFacts ==
  ASSUME NEW P \in Plugins, NEW R \in Realms, NEW p \in Instance
  PROVE  LET me == P[p]
             you == refresh(P, R, p)
             next == computeEpoch(P, R, p)
         IN  /\ you \in PluginType
             /\ me.mounted # "yes" \/ next = me.epoch => you = me
             /\ you.mounted = me.mounted /\ you.run = me.run
             /\ you.under = me.under /\ you.failed = me.failed
             /\ you.state = me.state \/ (me.state = "failed" /\ you.state = "pending")
             /\ "dispose" \in Tasked(you) <=> "dispose" \in Tasked(me)
             /\ me.mounted = "yes" =>
                  /\ you.epoch = next
                  /\ next # me.epoch /\ me.state # "failed" =>
                       IF me.epoch = Never /\ next = Inactive THEN you.queue = me.queue
                       ELSE you.queue # <<>> /\ (Last(you.queue) = "unload" <=> next = Inactive)
<1> DEFINE me == P[p]
           you == refresh(P, R, p)
           next == computeEpoch(P, R, p)
           off == me.epoch \in {Never, Inactive}
           tasks == CASE me.state = "failed" -> IF next = Inactive THEN <<>> ELSE <<"load">>
                      [] me.state # "failed" /\ next = Inactive -> IF off THEN <<>> ELSE <<"unload">>
                      [] OTHER -> IF off THEN <<"load">> ELSE <<"reload">>
           new == [me EXCEPT !.epoch = next, !.queue = @ \o tasks,
                             !.state = IF @ = "failed" THEN "pending" ELSE @]
<1>1. me \in PluginType /\ next \in Epochs
  BY EpochFacts DEF Plugins
<1>2. you = IF me.mounted # "yes" \/ next = me.epoch THEN me ELSE new
  BY DEF refresh
<1>3. me.queue \in Seq(Tasks) /\ me.epoch \in Epochs
  BY <1>1 DEF PluginType
<1>4. /\ tasks \in {<<>>, <<"load">>, <<"unload">>, <<"reload">>}
      /\ tasks = <<>> => next = Inactive /\ (me.state = "failed" \/ off)
      /\ me.state # "failed" /\ tasks = <<"unload">> => next = Inactive
      /\ me.state # "failed" /\ tasks \in {<<"load">>, <<"reload">>} => next # Inactive
  <2>1. CASE me.state = "failed"
    BY <2>1
  <2>2. CASE me.state # "failed" /\ next = Inactive
    BY <2>2
  <2>3. CASE me.state # "failed" /\ next # Inactive
    BY <2>3
  <2> QED
    BY <2>1, <2>2, <2>3
<1> HIDE DEF tasks
<1>5. ASSUME NEW x \in {"load", "unload", "reload"}, tasks = <<x>>
      PROVE  /\ me.queue \o tasks \in Seq(Tasks) /\ me.queue \o tasks # <<>>
             /\ Last(me.queue \o tasks) = x
             /\ "dispose" \in ToSet(me.queue \o tasks) <=> "dispose" \in ToSet(me.queue)
  <2>1. x \in Tasks /\ x # "dispose"
    BY DEF Tasks
  <2>2. me.queue \o tasks = Append(me.queue, x)
    BY <1>3, <1>5, <2>1, AddOn
  <2>3. ToSet(Append(me.queue, x)) = ToSet(me.queue) \union {x}
    BY <1>3, <2>1, AppendOn
  <2> QED
    BY <1>3, <2>1, <2>2, <2>3, AddOn
<1>6. tasks = <<>> => me.queue \o tasks = me.queue
  BY <1>3, NoneOn
<1>7. /\ me.queue \o tasks \in Seq(Tasks)
      /\ "dispose" \in ToSet(me.queue \o tasks) <=> "dispose" \in ToSet(me.queue)
  BY <1>3, <1>4, <1>5, <1>6
<1>8. /\ new.epoch = next /\ new.queue = me.queue \o tasks
      /\ new.state = IF me.state = "failed" THEN "pending" ELSE me.state
      /\ new.mounted = me.mounted /\ new.run = me.run /\ new.under = me.under /\ new.failed = me.failed
  BY <1>1 DEF PluginType
<1>9. new \in PluginType
  BY <1>1, <1>7 DEF PluginType
<1> HIDE DEF new, next, you, me
<1>10. me.state # "failed" /\ next # me.epoch =>
         IF me.epoch = Never /\ next = Inactive THEN new.queue = me.queue
         ELSE new.queue # <<>> /\ (Last(new.queue) = "unload" <=> next = Inactive)
  <2> SUFFICES ASSUME me.state # "failed", next # me.epoch
               PROVE  IF me.epoch = Never /\ next = Inactive THEN new.queue = me.queue
                      ELSE new.queue # <<>> /\ (Last(new.queue) = "unload" <=> next = Inactive)
    OBVIOUS
  <2>1. CASE tasks = <<>>
    BY <1>4, <1>6, <1>8, <2>1
  <2>2. CASE tasks # <<>>
    <3>1. PICK x \in {"load", "unload", "reload"} : tasks = <<x>>
      BY <1>4, <2>2
    <3>2. new.queue # <<>> /\ Last(new.queue) = x
      BY <1>5, <1>8, <3>1
    <3>3. x = "unload" <=> next = Inactive
      BY <1>4, <3>1
    <3>4. ~(me.epoch = Never /\ next = Inactive)
      <4> SUFFICES ASSUME me.epoch = Never, next = Inactive PROVE FALSE
        OBVIOUS
      <4> QED
        BY <2>2 DEF tasks
    <3> QED
      BY <3>2, <3>3, <3>4
  <2> QED
    BY <2>1, <2>2
<1>11. CASE me.mounted # "yes" \/ next = me.epoch
  BY <1>1, <1>2, <1>11 DEF you, me, next
<1>12. CASE ~(me.mounted # "yes" \/ next = me.epoch)
  <2>1. you = new
    BY <1>2, <1>12
  <2>2. "dispose" \in Tasked(you) <=> "dispose" \in Tasked(me)
    BY <1>7, <1>8, <2>1 DEF Tasked
  <2> QED
    BY <1>8, <1>9, <1>10, <1>12, <2>1, <2>2 DEF you, me, next
<1> QED
  BY <1>11, <1>12

LEMMA NotifyFacts ==
  ASSUME NEW P \in Plugins, NEW R \in Realms
  PROVE  /\ notify(P, R) \in Plugins
         /\ \A p \in Instance : notify(P, R)[p] = refresh(P, R, p)
         /\ \A p \in Instance : computeEpoch(notify(P, R), R, p) = computeEpoch(P, R, p)
<1> DEFINE Q == notify(P, R)
<1>1. \A p \in Instance : Q[p] = refresh(P, R, p) /\ refresh(P, R, p) \in PluginType
  BY RefreshFacts DEF notify
<1>2. Q \in Plugins
  BY <1>1 DEF notify, Plugins
<1>3. \A p \in Instance : P[p].state = "active" <=> Q[p].state = "active"
  BY <1>1, RefreshFacts
<1> HIDE DEF Q
<1>4. \A p \in Instance : computeEpoch(Q, R, p) = computeEpoch(P, R, p)
  BY <1>2, <1>3, EpochAlike
<1> QED
  BY <1>1, <1>2, <1>4 DEF Q

-----------------------------------------------------------------------------
(* What a step needs to show.  One instance moves to me, and it may be that *)
(* everyone is then told.                                                   *)

LEMMA StagedAlike ==
  ASSUME NEW me, NEW you, Staged(me), me.mounted = "yes", you.mounted = "yes",
         you.run = me.run, you.failed <=> me.failed, you.epoch # Never,
         you.state = me.state \/ (me.state = "failed" /\ you.state = "pending"),
         "dispose" \in Tasked(you) <=> "dispose" \in Tasked(me)
  PROVE  Staged(you)
<1>1. CASE you.state = me.state
  BY <1>1 DEF Staged
<1>2. CASE me.state = "failed" /\ you.state = "pending"
  BY <1>2 DEF Staged
<1> QED
  BY <1>1, <1>2

LEMMA RefreshStage ==
  ASSUME NEW P \in Plugins, NEW R \in Realms, NEW p \in Instance, Staged(P[p])
  PROVE  Staged(refresh(P, R, p))
<1> DEFINE me == P[p]
           you == refresh(P, R, p)
<1>1. me \in PluginType /\ computeEpoch(P, R, p) # Never
  BY EpochFacts DEF Plugins
<1>2. CASE me.mounted # "yes"
  BY <1>2, RefreshFacts
<1>3. CASE me.mounted = "yes"
  <2>1. /\ you.mounted = "yes" /\ you.run = me.run /\ you.failed = me.failed
        /\ you.state = me.state \/ (me.state = "failed" /\ you.state = "pending")
        /\ "dispose" \in Tasked(you) <=> "dispose" \in Tasked(me)
        /\ you.epoch # Never
    BY <1>1, <1>3, RefreshFacts
  <2>2. you.failed <=> me.failed
    BY <2>1
  <2> QED
    BY <1>3, <2>1, <2>2, StagedAlike
<1> QED
  BY <1>1, <1>2, <1>3

LEMMA NotifyOwn ==
  ASSUME NEW P, NEW R, NEW E, NEW A, OwnIn(P, R, E, A)
  PROVE  OwnIn(notify(P, R), R, E, A)
<1> DEFINE Q == notify(P, R)
<1>1. P \in Plugins /\ R \in Realms /\ \A p \in Instance : Staged(P[p])
  BY DEF OwnIn
<1>2. Q \in Plugins /\ \A p \in Instance : Q[p] = refresh(P, R, p)
  BY <1>1, NotifyFacts
<1>3. \A p \in Instance : Staged(Q[p])
  BY <1>1, <1>2, RefreshStage
<1>4. \A p \in Instance : /\ Q[p].mounted = P[p].mounted
                          /\ P[p].state # "failed" => Q[p].state = P[p].state
  BY <1>1, <1>2, RefreshFacts
<1> HIDE DEF Q
<1>5. ASSUME NEW s \in Scope, NEW k \in Key PROVE ServiceIn(Q, R, E, s, k)
  <2>1. R[s][k] \in Impl \union {NoImpl} /\ ServiceIn(P, R, E, s, k)
    BY <1>1 DEF OwnIn, Realms
  <2> SUFFICES ASSUME R[s][k] # NoImpl PROVE Q[R[s][k].by].state \in Serving
    BY <2>1 DEF ServiceIn
  <2>2. R[s][k].by \in Instance /\ P[R[s][k].by].state \in Serving
    BY <2>1 DEF Impl, ServiceIn
  <2> QED
    BY <1>4, <2>2 DEF Serving
<1>6. \A p \in Instance : KeptIn(Q, E, A, p)
  BY <1>4 DEF OwnIn, KeptIn
<1> QED
  BY <1>2, <1>3, <1>5, <1>6 DEF OwnIn, Q

(* Who has a service on its list.                                           *)
Serves(p) == Provided(Gives[p]) \in Owned(p)

Moved(p, me) == [plugin EXCEPT ![p] = me]

LEMMA MovedFacts ==
  ASSUME plugin \in Plugins, NEW p \in Instance, NEW me \in PluginType
  PROVE  /\ Moved(p, me) \in Plugins /\ Moved(p, me)[p] = me
         /\ \A q \in Instance : q # p => Moved(p, me)[q] = plugin[q]
  BY DEF Moved, Plugins

(* A move that keeps what an instance owns.                                 *)
Sound(p, me) ==
  /\ me \in PluginType /\ Staged(me)
  /\ Serves(p) /\ plugin[p].state \in Serving => me.state \in Serving
  /\ plugin[p].state = "disposed" => me.state = "disposed"
  /\ me.mounted = "no" <=> plugin[p].mounted = "no"
  /\ me.mounted = "yes" => plugin[p].mounted = "yes" /\ me.epoch = plugin[p].epoch

LEMMA MovedOwn ==
  ASSUME KInv, NEW p \in Instance, NEW me, Sound(p, me)
  PROVE  OwnIn(Moved(p, me), realm, effectsOf, awaitedBy)
<1> DEFINE Q == Moved(p, me)
<1>1. plugin \in Plugins /\ OwnIn(plugin, realm, effectsOf, awaitedBy)
  BY DEF KInv, OwnIn
<1>2. Q \in Plugins /\ Q[p] = me /\ \A q \in Instance : q # p => Q[q] = plugin[q]
  BY <1>1, MovedFacts DEF Sound
<1> HIDE DEF Q
<1>3. \A q \in Instance : Staged(Q[q])
  BY <1>1, <1>2 DEF OwnIn, Sound
<1>4. ASSUME NEW s \in Scope, NEW k \in Key PROVE ServiceIn(Q, realm, effectsOf, s, k)
  <2> DEFINE q == realm[s][k].by
  <2>1. realm[s][k] \in Impl \union {NoImpl} /\ ServiceIn(plugin, realm, effectsOf, s, k)
    BY <1>1 DEF OwnIn, Realms
  <2> SUFFICES ASSUME realm[s][k] # NoImpl PROVE Q[q].state \in Serving
    BY <2>1 DEF ServiceIn
  <2>2. q \in Instance /\ plugin[q].state \in Serving /\ k = Gives[q] /\ Provided(k) \in Owned(q)
    BY <2>1 DEF Impl, ServiceIn, Owned
  <2> HIDE DEF q
  <2> QED
    BY <1>2, <2>2 DEF Sound, Serves
<1>5. \A q \in Instance : KeptIn(Q, effectsOf, awaitedBy, q)
  BY <1>1, <1>2 DEF OwnIn, KeptIn, Sound
<1> QED
  BY <1>1, <1>2, <1>3, <1>4, <1>5 DEF OwnIn, Q

LEMMA EndsMore ==
  ASSUME NEW me, NEW a \in BOOLEAN, NEW b \in BOOLEAN, a => b, Ends(me, a)
  PROVE  Ends(me, b)
  BY DEF Ends

(* Telling everyone: each is then told, and has the task its epoch asks for.*)
LEMMA NotifyChain ==
  ASSUME NEW P \in Plugins, NEW R \in Realms, \A p \in Instance : Staged(P[p]),
         \A p \in Instance : P[p].mounted = "yes" /\ ~P[p].failed =>
           computeEpoch(P, R, p) # P[p].epoch \/ Ends(P[p], FALSE)
  PROVE  ChainIn(notify(P, R), R)
<1> DEFINE Q == notify(P, R)
<1>1. /\ Q \in Plugins
      /\ \A p \in Instance : Q[p] = refresh(P, R, p) /\ computeEpoch(Q, R, p) = computeEpoch(P, R, p)
  BY NotifyFacts
<1> HIDE DEF Q
<1>2. ASSUME NEW p \in Instance PROVE ToldIn(Q, R, p)
  BY <1>1, RefreshFacts DEF ToldIn
<1>3. ASSUME NEW p \in Instance PROVE EndsIn(Q, R, p)
  <2> SUFFICES ASSUME Q[p].mounted = "yes", ~Q[p].failed PROVE Ends(Q[p], Stale(Q, R, p))
    BY DEF EndsIn
  <2>1. P[p].mounted = "yes" /\ ~P[p].failed /\ Q[p].epoch = computeEpoch(P, R, p)
    BY <1>1, RefreshFacts
  <2>2. P[p] \in PluginType /\ P[p].state # "failed" /\ P[p].epoch # Never
    BY <2>1 DEF Staged, Plugins
  <2>3. CASE computeEpoch(P, R, p) # P[p].epoch
    <3>1. Q[p].queue # <<>> /\ (Last(Q[p].queue) = "unload" <=> Q[p].epoch = Inactive)
      BY <1>1, <2>1, <2>2, <2>3, RefreshFacts
    <3> QED
      BY <3>1 DEF Ends
  <2>4. CASE computeEpoch(P, R, p) = P[p].epoch
    <3>1. Q[p] = P[p] /\ Ends(P[p], FALSE)
      BY <1>1, <2>1, <2>4, RefreshFacts
    <3>2. Stale(Q, R, p) \in BOOLEAN
      BY DEF Stale
    <3> QED
      BY <3>1, <3>2, EndsMore
  <2> QED
    BY <2>3, <2>4
<1> QED
  BY <1>2, <1>3 DEF ChainIn, Q

LEMMA FoundServes ==
  ASSUME KInv, NEW p \in Instance, NEW i \in Found(realm, p), i # NoImpl
  PROVE  /\ i \in Impl /\ i.by \in Instance /\ plugin[i.by].state \in Serving /\ Serves(i.by)
         /\ \E k \in Needs[p] : i = Lookup(realm, p, k)
<1>1. realm \in Realms /\ \A s \in Scope, k \in Key : ServiceIn(plugin, realm, effectsOf, s, k)
  BY DEF KInv, OwnIn
<1>2. PICK k \in Needs[p] : i = Lookup(realm, p, k)
  BY DEF Found
<1>3. k \in Key /\ i \in Impl /\ \E s \in Scope : i = realm[s][k]
  BY <1>1, <1>2, LookupFacts, KernelFacts
<1>4. PICK s \in Scope : i = realm[s][k]
  BY <1>3
<1>5. i.by \in Instance /\ k = Gives[i.by] /\ plugin[i.by].state \in Serving /\ Provided(k) \in Owned(i.by)
  BY <1>1, <1>3, <1>4 DEF ServiceIn, Impl, Owned
<1> QED
  BY <1>2, <1>3, <1>5 DEF Serves

LEMMA StaleFinds ==
  ASSUME NEW P \in Plugins, NEW R \in Realms, NEW p \in Instance
  PROVE  Stale(P, R, p) <=>
           \E i \in Found(R, p) : i # NoImpl /\ Doomed(P[i.by]) /\ i.id \in P[p].epoch
  BY DEF Stale, Found

LEMMA StaleStays ==
  ASSUME KInv, NEW Q \in Plugins, NEW p \in Instance, Q[p].epoch = plugin[p].epoch,
         \A q \in Instance : Serves(q) /\ Doomed(plugin[q]) => Doomed(Q[q]),
         Stale(plugin, realm, p)
  PROVE  Stale(Q, realm, p)
<1>1. plugin \in Plugins /\ realm \in Realms
  BY DEF KInv, OwnIn
<1>2. PICK i \in Found(realm, p) : i # NoImpl /\ Doomed(plugin[i.by]) /\ i.id \in plugin[p].epoch
  BY <1>1, StaleFinds
<1>3. Doomed(Q[i.by])
  BY <1>2, FoundServes
<1> QED
  BY <1>1, <1>2, <1>3, StaleFinds

(* A move that ends at most what it was, with nobody told.                  *)
LEMMA MoveAway ==
  ASSUME KInv, NEW p \in Instance, NEW me, Sound(p, me),
         me.state = "active" => plugin[p].state = "active",
         Serves(p) /\ (Doomed(plugin[p]) \/ (plugin[p].state = "active" /\ me.state # "active")) => Doomed(me),
         me.mounted = "yes" /\ ~me.failed => Ends(me, me.epoch # computeEpoch(plugin, realm, p))
  PROVE  OwnIn(Moved(p, me), realm, effectsOf, awaitedBy) /\ ChainIn(Moved(p, me), realm)
<1> DEFINE Q == Moved(p, me)
<1>1. plugin \in Plugins /\ realm \in Realms /\ ChainIn(plugin, realm)
  BY DEF KInv, OwnIn
<1>2. Q \in Plugins /\ Q[p] = me /\ \A q \in Instance : q # p => Q[q] = plugin[q]
  BY <1>1, MovedFacts DEF Sound
<1>3. OwnIn(Q, realm, effectsOf, awaitedBy)
  BY MovedOwn
<1> HIDE DEF Q
<1>4. /\ \A q \in Instance : Q[q].state = "active" => plugin[q].state = "active"
      /\ \A q \in Instance : Serves(q) /\ Doomed(plugin[q]) => Doomed(Q[q])
      /\ \A q \in Instance : Serves(q) /\ plugin[q].state = "active" /\ Q[q].state # "active" => Doomed(Q[q])
      /\ \A q \in Instance : Q[q].mounted = "yes" => plugin[q].mounted = "yes" /\ Q[q].epoch = plugin[q].epoch
  BY <1>2 DEF Sound
<1>5. \A q \in Instance : Q[q].mounted = "yes" /\ Stale(plugin, realm, q) => Stale(Q, realm, q)
  BY <1>2, <1>4, StaleStays
<1>6. ASSUME NEW q \in Instance PROVE ToldIn(Q, realm, q)
  <2> SUFFICES ASSUME Q[q].mounted = "yes"
               PROVE  Q[q].epoch = computeEpoch(Q, realm, q) \/ Stale(Q, realm, q)
    BY DEF ToldIn
  <2> DEFINE was == computeEpoch(plugin, realm, q)
             now == computeEpoch(Q, realm, q)
  <2>1. plugin[q].mounted = "yes" /\ Q[q].epoch = plugin[q].epoch
    BY <1>4
  <2>2. plugin[q].epoch = was \/ Stale(plugin, realm, q)
    BY <1>1, <2>1 DEF ChainIn, ToldIn
  <2>3. CASE plugin[q].epoch = was /\ was = Inactive
    <3>1. PICK i \in Found(realm, q) : i = NoImpl \/ plugin[i.by].state # "active"
      BY <1>1, <2>3, EpochFacts
    <3>2. i = NoImpl \/ Q[i.by].state # "active"
      BY <1>4, <3>1, FoundServes
    <3>3. now = Inactive
      BY <1>1, <1>2, <3>2, EpochFacts
    <3> QED
      BY <2>1, <2>3, <3>3
  <2>4. CASE plugin[q].epoch = was /\ was # Inactive
    <3>1. was = {i.id : i \in Found(realm, q)}
      BY <1>1, <2>4, EpochFacts
    <3>2. CASE now # Inactive
      <4>1. now = {i.id : i \in Found(realm, q)}
        BY <1>1, <1>2, <3>2, EpochFacts
      <4> QED
        BY <2>1, <2>4, <3>1, <4>1
    <3>3. CASE now = Inactive
      <4>1. PICK i \in Found(realm, q) : i = NoImpl \/ Q[i.by].state # "active"
        BY <1>1, <1>2, <3>3, EpochFacts
      <4>2. i # NoImpl /\ plugin[i.by].state = "active"
        BY <1>1, <2>4, EpochFacts
      <4>3. Doomed(Q[i.by])
        BY <1>4, <4>1, <4>2, FoundServes
      <4>4. i.id \in Q[q].epoch
        BY <2>1, <2>4, <3>1
      <4> QED
        BY <1>1, <1>2, <4>2, <4>3, <4>4, StaleFinds
    <3> QED
      BY <3>2, <3>3
  <2> QED
    BY <1>5, <2>2, <2>3, <2>4
<1>7. ASSUME NEW q \in Instance PROVE EndsIn(Q, realm, q)
  <2> SUFFICES ASSUME Q[q].mounted = "yes", ~Q[q].failed PROVE Ends(Q[q], Stale(Q, realm, q))
    BY DEF EndsIn
  <2>1. Stale(Q, realm, q) \in BOOLEAN /\ Stale(plugin, realm, q) \in BOOLEAN
    BY DEF Stale
  <2>2. CASE q # p
    <3>1. Q[q] = plugin[q] /\ Ends(plugin[q], Stale(plugin, realm, q))
      BY <1>1, <1>2, <2>2 DEF ChainIn, EndsIn
    <3> QED
      BY <1>5, <2>1, <3>1, EndsMore
  <2>3. CASE q = p
    <3> DEFINE late == me.epoch # computeEpoch(plugin, realm, p)
    <3>1. Ends(me, late) /\ Q[q] = me
      BY <1>2, <2>3
    <3>2. plugin[p].mounted = "yes" /\ me.epoch = plugin[p].epoch
      BY <1>2, <1>4, <2>3
    <3>3. late => Stale(plugin, realm, p)
      BY <1>1, <3>2 DEF ChainIn, ToldIn
    <3>4. late => Stale(Q, realm, q)
      BY <1>5, <2>3, <3>3
    <3>5. late \in BOOLEAN
      OBVIOUS
    <3> HIDE DEF late
    <3> QED
      BY <2>1, <3>1, <3>4, <3>5, EndsMore
  <2> QED
    BY <2>2, <2>3
<1> QED
  BY <1>3, <1>6, <1>7 DEF ChainIn, Q

(* A move of which everyone is told.                                        *)
LEMMA MoveTells ==
  ASSUME KInv, NEW p \in Instance, NEW me, Sound(p, me),
         Serves(p) /\ Doomed(plugin[p]) => me.state # "active",
         me.mounted = "yes" /\ ~me.failed => Stale(plugin, realm, p) \/ Ends(me, FALSE)
  PROVE  LET Q == notify(Moved(p, me), realm)
         IN  OwnIn(Q, realm, effectsOf, awaitedBy) /\ ChainIn(Q, realm)
<1> DEFINE P == Moved(p, me)
<1>1. plugin \in Plugins /\ realm \in Realms /\ ChainIn(plugin, realm)
  BY DEF KInv, OwnIn
<1>2. P \in Plugins /\ P[p] = me /\ \A q \in Instance : q # p => P[q] = plugin[q]
  BY <1>1, MovedFacts DEF Sound
<1>3. OwnIn(P, realm, effectsOf, awaitedBy)
  BY MovedOwn
<1> HIDE DEF P
<1>4. \A q \in Instance : P[q].mounted = "yes" => plugin[q].mounted = "yes" /\ P[q].epoch = plugin[q].epoch
  BY <1>2 DEF Sound
<1>5. ASSUME NEW q \in Instance, P[q].mounted = "yes", Stale(plugin, realm, q)
      PROVE  computeEpoch(P, realm, q) # P[q].epoch
  <2>1. PICK i \in Found(realm, q) : i # NoImpl /\ Doomed(plugin[i.by]) /\ i.id \in plugin[q].epoch
    BY <1>1, <1>5, StaleFinds
  <2>2. i.by \in Instance /\ Serves(i.by)
    BY <2>1, FoundServes
  <2>3. P[i.by].state # "active"
    BY <1>2, <2>1, <2>2 DEF Doomed
  <2>4. computeEpoch(P, realm, q) = Inactive
    BY <1>1, <1>2, <2>3, EpochFacts
  <2>5. plugin[q].epoch # Inactive
    BY <1>1, <1>5, StaleDiffers
  <2> QED
    BY <1>4, <1>5, <2>4, <2>5
<1>6. ASSUME NEW q \in Instance, P[q].mounted = "yes", ~P[q].failed
      PROVE  computeEpoch(P, realm, q) # P[q].epoch \/ Ends(P[q], FALSE)
  <2>1. Stale(plugin, realm, q) \/ Ends(P[q], FALSE)
    <3>1. CASE q = p
      BY <1>2, <1>6, <3>1
    <3>2. CASE q # p
      <4>1. Ends(plugin[q], Stale(plugin, realm, q)) /\ P[q] = plugin[q]
        BY <1>1, <1>2, <1>6, <3>2 DEF ChainIn, EndsIn
      <4>2. Stale(plugin, realm, q) \in BOOLEAN
        BY DEF Stale
      <4>3. ~Stale(plugin, realm, q) => Ends(plugin[q], FALSE)
        BY <4>1, <4>2, EndsMore
      <4> QED
        BY <4>1, <4>3
    <3> QED
      BY <3>1, <3>2
  <2> QED
    BY <1>5, <1>6, <2>1
<1>7. \A q \in Instance : Staged(P[q])
  BY <1>3 DEF OwnIn
<1>8. ChainIn(notify(P, realm), realm)
  BY <1>1, <1>2, <1>6, <1>7, NotifyChain
<1>9. OwnIn(notify(P, realm), realm, effectsOf, awaitedBy)
  BY <1>3, NotifyOwn
<1> QED
  BY <1>8, <1>9 DEF P

-----------------------------------------------------------------------------
(* The chain of an instance's tasks.                                        *)

At(me, queue, state, run, under) ==
  [me EXCEPT !.queue = queue, !.state = state, !.run = run, !.under = under]

LEMMA AtFacts ==
  ASSUME NEW me \in PluginType, NEW queue \in Seq(Tasks),
         NEW state \in {"pending", "loading", "active", "unloading", "failed", "disposed"},
         NEW run \in {"idle", "apply", "provided", "recheck"} \union Unwinds,
         NEW under \in Epochs
  PROVE  LET you == At(me, queue, state, run, under)
         IN  /\ you \in PluginType
             /\ you.queue = queue /\ you.state = state /\ you.run = run /\ you.under = under
             /\ you.mounted = me.mounted /\ you.epoch = me.epoch /\ you.failed = me.failed
             /\ Tasked(you) = ToSet(queue)
  BY DEF At, PluginType, Tasked

LEMMA TheyAre ==
  ASSUME KInv, NEW p \in Instance
  PROVE  /\ plugin \in Plugins /\ realm \in Realms /\ plugin[p] \in PluginType /\ Staged(plugin[p])
         /\ plugin[p].queue \in Seq(Tasks) /\ plugin[p].under \in Epochs
         /\ plugin[p].epoch \in Epochs /\ plugin[p].failed \in BOOLEAN
         /\ plugin[p].state \in {"pending", "loading", "active", "unloading", "failed", "disposed"}
         /\ plugin[p].run \in {"idle", "apply", "provided", "recheck"} \union Unwinds
         /\ plugin[p].mounted \in {"no", "yes", "out"}
         /\ computeEpoch(plugin, realm, p) \in Epochs
         /\ ToldIn(plugin, realm, p) /\ EndsIn(plugin, realm, p)
<1>1. plugin \in Plugins /\ realm \in Realms /\ Staged(plugin[p])
  BY DEF KInv, OwnIn
<1>2. plugin[p] \in PluginType
  BY <1>1 DEF Plugins
<1>3. ToldIn(plugin, realm, p) /\ EndsIn(plugin, realm, p)
  BY DEF KInv, ChainIn
<1>4. computeEpoch(plugin, realm, p) \in Epochs
  BY <1>1, EpochFacts
<1> QED
  BY <1>1, <1>2, <1>3, <1>4 DEF PluginType

LEMMA DueFacts ==
  ASSUME KInv, NEW p \in Instance, NEW task \in Tasks, Due(p, task)
  PROVE  LET me == plugin[p]
             rest == Tail(me.queue)
         IN  /\ me.run = "idle" /\ me.queue # <<>> /\ rest \in Seq(Tasks)
             /\ ToSet(me.queue) = ToSet(rest) \union {task}
             /\ rest # <<>> => Last(rest) = Last(me.queue)
             /\ rest = <<>> => Last(me.queue) = task
<1>1. plugin[p].queue \in Seq(Tasks) /\ plugin[p].queue # <<>> /\ Head(plugin[p].queue) = task
  BY TheyAre DEF Due
<1> QED
  BY <1>1, TailOn DEF Due

(* A task that began, or had nothing to do.                                 *)
LEMMA TaskBegins ==
  ASSUME KInv, NEW p \in Instance, NEW task \in Tasks, Due(p, task),
         NEW state \in {"pending", "loading", "active", "unloading", "failed", "disposed"},
         NEW run \in {"idle", "apply", "provided", "recheck"} \union Unwinds,
         NEW under \in Epochs,
         plugin[p].mounted = "yes" => state # "disposed" /\ run # "disposing",
         plugin[p].mounted # "no" => run # "leaving" /\ run # "failing" /\ run # "provided",
         run = "disposing" => task = "dispose",
         task = "dispose" => run = "disposing" \/ state = "disposed",
         plugin[p].state = "disposed" => state = "disposed",
         state = "disposed" => run \in {"idle", "recheck"},
         \/ state = plugin[p].state /\ run = "idle"
         \/ state = "loading" /\ run = "apply"
         \/ state = "unloading" /\ run \in {"unloading", "reloading", "disposing"}
         \/ state \in {"pending", "failed", "disposed"} /\ state = plugin[p].state /\ run = "recheck"
         \/ state = "disposed" /\ run = "idle"
  PROVE  LET me == At(plugin[p], Tail(plugin[p].queue), state, run, under)
         IN  /\ me \in PluginType /\ Staged(me) /\ plugin[p].mounted # "no"
             /\ me.queue = Tail(plugin[p].queue) /\ me.state = state /\ me.run = run
             /\ me.under = under /\ me.mounted = plugin[p].mounted /\ me.epoch = plugin[p].epoch
             /\ me.failed = plugin[p].failed
<1> DEFINE rest == Tail(plugin[p].queue)
           me == At(plugin[p], rest, state, run, under)
<1>1. /\ plugin[p].run = "idle" /\ plugin[p].queue # <<>> /\ rest \in Seq(Tasks)
      /\ ToSet(plugin[p].queue) = ToSet(rest) \union {task}
  BY DueFacts
<1>2. plugin[p] \in PluginType /\ Staged(plugin[p]) /\ plugin[p].failed \in BOOLEAN
  BY TheyAre
<1>3. /\ me \in PluginType /\ me.queue = rest /\ me.state = state /\ me.run = run /\ me.under = under
      /\ me.mounted = plugin[p].mounted /\ me.epoch = plugin[p].epoch /\ me.failed = plugin[p].failed
      /\ Tasked(me) = ToSet(rest)
  <2> DEFINE was == plugin[p]
  <2>1. was \in PluginType /\ rest \in Seq(Tasks)
    BY <1>1, <1>2
  <2> HIDE DEF rest, was
  <2>2. me = At(was, rest, state, run, under)
    BY DEF was
  <2> HIDE DEF me
  <2>3. /\ me \in PluginType /\ me.queue = rest /\ me.state = state /\ me.run = run /\ me.under = under
        /\ me.mounted = was.mounted /\ me.epoch = was.epoch /\ me.failed = was.failed
        /\ Tasked(me) = ToSet(rest)
    BY <2>1, <2>2, AtFacts
  <2> QED
    BY <2>3 DEF was
<1>4. plugin[p].mounted # "no"
  BY <1>1, <1>2 DEF Staged
<1>5. Staged(me)
  <2> HIDE DEF me, rest
  <2>1. "dispose" \in Tasked(me) => "dispose" \in Tasked(plugin[p])
    BY <1>1, <1>3 DEF Tasked
  <2>2. "dispose" \in Tasked(plugin[p]) => "dispose" \in Tasked(me) \/ task = "dispose"
    BY <1>1, <1>3 DEF Tasked
  <2>3. /\ plugin[p].state = "failed" => plugin[p].failed
        /\ "dispose" \in Tasked(plugin[p]) => plugin[p].mounted = "out"
        /\ plugin[p].mounted = "out" => "dispose" \in Tasked(plugin[p]) \/ plugin[p].state = "disposed"
        /\ plugin[p].state = "loading" => plugin[p].mounted = "out"
        /\ plugin[p].state = "disposed" => plugin[p].mounted = "out"
        /\ plugin[p].state # "unloading"
        /\ plugin[p].mounted = "yes" => plugin[p].epoch # Never
    BY <1>1, <1>2 DEF Staged
  <2>4. /\ me.run \in {"apply", "provided", "failing", "leaving"} => me.state = "loading"
        /\ me.run \in {"unloading", "reloading", "disposing"} => me.state = "unloading"
        /\ me.state = "unloading" => me.run \in {"unloading", "reloading", "disposing"}
        /\ me.run = "recheck" => me.state \in {"pending", "failed", "disposed"}
    BY <1>3, <2>3
  <2>5. me.run \in {"leaving", "disposing"} => me.mounted = "out"
    BY <1>1, <1>2, <1>3, <1>4, <2>3 DEF PluginType
  <2>6. /\ me.run # "failing"
        /\ me.state = "loading" /\ me.run = "idle" => me.mounted = "out"
    BY <1>3, <1>4, <2>3
  <2>7. me.state = "disposed" => me.mounted = "out"
    BY <1>2, <1>3, <1>4, <2>3 DEF PluginType
  <2>8. me.state = "failed" => me.failed
    BY <1>2, <1>3, <2>3
  <2>9. "dispose" \in Tasked(me) => me.mounted = "out"
    BY <1>3, <2>1, <2>3
  <2>10. me.mounted = "out" => "dispose" \in Tasked(me) \/ me.run = "disposing" \/ me.state = "disposed"
    BY <1>3, <2>2, <2>3
  <2>11. me.mounted # "no" /\ (me.mounted = "yes" => me.epoch # Never)
    BY <1>3, <1>4, <2>3
  <2> QED
    BY <2>4, <2>5, <2>6, <2>7, <2>8, <2>9, <2>10, <2>11 DEF Staged
<1> QED
  BY <1>3, <1>4, <1>5


LEMMA KInvNext ==
  ASSUME KInv, UNCHANGED <<scope, effectsOf, awaitedBy>>,
         OwnIn(plugin', realm', effectsOf, awaitedBy), ChainIn(plugin', realm')
  PROVE  KInv'
  BY DEF KInv, ScopesTyped

(* What an Ends says of the one task left, or of the task that runs.        *)
LEMMA WasTask ==
  ASSUME KInv, NEW p \in Instance, NEW task \in Tasks, Due(p, task),
         plugin[p].mounted = "yes", ~plugin[p].failed
  PROVE  /\ Tail(plugin[p].queue) # <<>> =>
              (Last(Tail(plugin[p].queue)) = "unload" <=> plugin[p].epoch = Inactive)
         /\ Tail(plugin[p].queue) = <<>> => (task = "unload" <=> plugin[p].epoch = Inactive)
<1>1. Last(plugin[p].queue) = "unload" <=> plugin[p].epoch = Inactive
  BY TheyAre, DueFacts DEF EndsIn, Ends
<1> QED
  BY <1>1, DueFacts

LEMMA LoadStarts ==
  ASSUME KInv, NEW p \in Instance, StartLoad(p)
  PROVE  KInv'
<1> DEFINE now == computeEpoch(plugin, realm, p)
           was == plugin[p]
           rest == Tail(was.queue)
<1>1. Due(p, "load") /\ "load" \in Tasks
  BY DEF StartLoad, Tasks
<1>2. was \in PluginType /\ Staged(was) /\ now \in Epochs /\ was.run = "idle" /\ rest \in Seq(Tasks)
  BY <1>1, TheyAre, DueFacts
<1>3. plugin' = [plugin EXCEPT ![p] = Loading([was EXCEPT !.queue = rest], now)]
  BY DEF StartLoad
<1> HIDE DEF now, was, rest
<1>4. CASE was.mounted = "yes"
  <2> DEFINE me == At(was, rest, "loading", "apply", now)
  <2>1. plugin' = Moved(p, me)
    <3>1. Loading([was EXCEPT !.queue = rest], now) = me
      BY <1>2, <1>4 DEF Loading, At, PluginType
    <3> QED
      BY <1>3, <3>1 DEF Moved
  <2>2. /\ me \in PluginType /\ Staged(me) /\ me.queue = rest /\ me.state = "loading" /\ me.run = "apply"
        /\ me.under = now /\ me.mounted = was.mounted /\ me.epoch = was.epoch /\ me.failed = was.failed
    <3>1. was.state # "disposed"
      BY <1>2, <1>4 DEF Staged
    <3> QED
      BY <1>1, <1>2, <1>4, <3>1, TaskBegins DEF was, rest
  <2> HIDE DEF me
  <2>3. was.state # "disposed"
    BY <1>2, <1>4 DEF Staged
  <2>4. Sound(p, me)
    BY <1>4, <2>2, <2>3 DEF Sound, Serving, was
  <2>5. me.mounted = "yes" /\ ~me.failed => Ends(me, me.epoch # now)
    <3> SUFFICES ASSUME ~me.failed PROVE Ends(me, me.epoch # now)
      OBVIOUS
    <3>1. ~was.failed
      BY <2>2
    <3>2. /\ rest # <<>> => (Last(rest) = "unload" <=> was.epoch = Inactive)
          /\ rest = <<>> => was.epoch # Inactive
      BY <1>1, <1>4, <3>1, WasTask DEF was, rest
    <3> QED
      BY <2>2, <3>2 DEF Ends
  <2>6. Doomed(me) /\ me.state # "active"
    BY <2>2 DEF Doomed
  <2>7. OwnIn(Moved(p, me), realm, effectsOf, awaitedBy) /\ ChainIn(Moved(p, me), realm)
    BY <2>4, <2>5, <2>6, MoveAway DEF now
  <2> QED
    BY <2>1, <2>7, KInvNext DEF StartLoad
<1>5. CASE was.mounted # "yes"
  <2> DEFINE me == At(was, rest, was.state, "idle", was.under)
  <2>1. plugin' = Moved(p, me)
    <3>1. Loading([was EXCEPT !.queue = rest], now) = me
      BY <1>2, <1>5 DEF Loading, At, PluginType
    <3> QED
      BY <1>3, <3>1 DEF Moved
  <2>2. /\ me \in PluginType /\ Staged(me) /\ me.queue = rest /\ me.state = was.state /\ me.run = "idle"
        /\ me.mounted = was.mounted /\ me.epoch = was.epoch /\ me.failed = was.failed
    BY <1>1, <1>2, <1>5, TheyAre, TaskBegins DEF was, rest
  <2> HIDE DEF me
  <2>4. Sound(p, me)
    BY <1>5, <2>2 DEF Sound, was
  <2>6. Doomed(was) => Doomed(me)
    BY <1>2, <2>2 DEF Doomed
  <2>7. OwnIn(Moved(p, me), realm, effectsOf, awaitedBy) /\ ChainIn(Moved(p, me), realm)
    BY <1>5, <2>2, <2>4, <2>6, MoveAway DEF was
  <2> QED
    BY <2>1, <2>7, KInvNext DEF StartLoad
<1> QED
  BY <1>4, <1>5

(* Such a task, of which nobody is told.                                    *)
LEMMA TaskMoves ==
  ASSUME KInv, NEW p \in Instance, NEW task \in Tasks \ {"dispose"}, Due(p, task),
         NEW state \in {"pending", "loading", "active", "unloading", "failed", "disposed"},
         NEW run \in {"idle", "apply", "recheck", "unloading", "reloading"},
         NEW under \in Epochs,
         plugin[p].state = "disposed" => state = "disposed",
         \/ state = plugin[p].state /\ run = "idle"
         \/ state = "loading" /\ run = "apply" /\ plugin[p].mounted = "yes"
         \/ state = "unloading" /\ run \in {"unloading", "reloading"}
         \/ state \in {"pending", "failed", "disposed"} /\ state = plugin[p].state /\ run = "recheck",
         plugin' = Moved(p, At(plugin[p], Tail(plugin[p].queue), state, run, under)),
         UNCHANGED <<realm, scope, effectsOf, awaitedBy>>,
         plugin[p].mounted = "yes" /\ ~plugin[p].failed =>
           Ends(At(plugin[p], Tail(plugin[p].queue), state, run, under),
                plugin[p].epoch # computeEpoch(plugin, realm, p))
  PROVE  KInv'
<1> DEFINE was == plugin[p]
           me == At(was, Tail(was.queue), state, run, under)
<1>1. was \in PluginType /\ Staged(was) /\ was.run = "idle"
  BY TheyAre, DueFacts
<1>2. /\ me \in PluginType /\ Staged(me) /\ was.mounted # "no"
      /\ me.state = state /\ me.run = run /\ me.mounted = was.mounted /\ me.epoch = was.epoch
      /\ me.failed = was.failed
  <2>1. was.mounted = "yes" => was.state # "disposed"
    BY <1>1 DEF Staged
  <2>2. run \in {"idle", "apply", "provided", "recheck"} \union Unwinds
    BY DEF Unwinds
  <2>3. was.mounted = "yes" => state # "disposed" /\ run # "disposing"
    BY <2>1
  <2>4. /\ was.mounted # "no" => run # "leaving" /\ run # "failing" /\ run # "provided"
        /\ run = "disposing" => task = "dispose"
        /\ task = "dispose" => run = "disposing" \/ state = "disposed"
        /\ state = "disposed" => run \in {"idle", "recheck"}
    OBVIOUS
  <2>5. \/ state = was.state /\ run = "idle"
        \/ state = "loading" /\ run = "apply"
        \/ state = "unloading" /\ run \in {"unloading", "reloading", "disposing"}
        \/ state \in {"pending", "failed", "disposed"} /\ state = was.state /\ run = "recheck"
        \/ state = "disposed" /\ run = "idle"
    OBVIOUS
  <2> QED
    BY <2>2, <2>3, <2>4, <2>5, TaskBegins
<1>3. plugin' = Moved(p, me) /\ (me.mounted = "yes" /\ ~me.failed => Ends(me, me.epoch # computeEpoch(plugin, realm, p)))
  BY <1>2
<1> HIDE DEF me
<1>4. Sound(p, me)
  BY <1>1, <1>2 DEF Sound, Serving, was
<1>5. /\ me.state = "active" => was.state = "active"
      /\ Doomed(was) \/ (was.state = "active" /\ me.state # "active") => Doomed(me)
  BY <1>1, <1>2 DEF Doomed
<1>6. OwnIn(Moved(p, me), realm, effectsOf, awaitedBy) /\ ChainIn(Moved(p, me), realm)
  BY <1>3, <1>4, <1>5, MoveAway DEF was
<1> QED
  BY <1>3, <1>6, KInvNext

LEMMA UnloadStarts ==
  ASSUME KInv, NEW p \in Instance, StartUnload(p)
  PROVE  KInv'
<1> DEFINE was == plugin[p]
           rest == Tail(was.queue)
<1>1. Due(p, "unload") /\ "unload" \in Tasks \ {"dispose"}
  BY DEF StartUnload, Tasks
<1>2. /\ plugin \in Plugins /\ was \in PluginType /\ Staged(was) /\ was.run = "idle" /\ rest \in Seq(Tasks)
      /\ was.under \in Epochs
  BY <1>1, TheyAre, DueFacts
<1>3. was.mounted = "yes" /\ ~was.failed =>
        /\ rest # <<>> => (Last(rest) = "unload" <=> was.epoch = Inactive)
        /\ rest = <<>> => was.epoch = Inactive
  BY <1>1, WasTask
<1>4. CASE Up(p)
  <2> DEFINE me == At(was, rest, "unloading", "unloading", was.under)
  <2>1. plugin' = Moved(p, me)
    BY <1>2, <1>4 DEF StartUnload, At, Moved, Plugins, PluginType
  <2>2. me.queue = rest /\ me.run = "unloading" /\ me.epoch = was.epoch
    BY <1>2 DEF At, PluginType
  <2>3. was.mounted = "yes" /\ ~was.failed => Ends(me, was.epoch # computeEpoch(plugin, realm, p))
    <3> HIDE DEF me, rest
    <3> QED
      BY <1>3, <2>2 DEF Ends
  <2>4. was.state # "disposed"
    BY <1>4 DEF Up
  <2> QED
    BY <1>1, <1>2, <2>1, <2>3, <2>4, TaskMoves DEF StartUnload
<1>5. CASE ~Up(p)
  <2> DEFINE me == At(was, rest, was.state, "idle", was.under)
  <2>1. plugin' = Moved(p, me)
    BY <1>2, <1>5 DEF StartUnload, At, Moved, Plugins, PluginType
  <2>2. me.queue = rest /\ me.run = "idle" /\ me.state = was.state /\ me.epoch = was.epoch
    BY <1>2 DEF At, PluginType
  <2>3. was.mounted = "yes" /\ ~was.failed => Ends(me, was.epoch # computeEpoch(plugin, realm, p))
    <3>1. was.mounted = "yes" /\ ~was.failed => was.state = "pending"
      BY <1>2, <1>5 DEF Staged, Up, PluginType
    <3> HIDE DEF me, rest
    <3> QED
      BY <1>3, <2>2, <3>1 DEF Ends
  <2>4. was.state \in {"pending", "loading", "active", "unloading", "failed", "disposed"}
    BY <1>2 DEF PluginType
  <2> QED
    BY <1>1, <1>2, <2>1, <2>3, <2>4, TaskMoves DEF StartUnload
<1> QED
  BY <1>4, <1>5

LEMMA ReloadStarts ==
  ASSUME KInv, NEW p \in Instance, StartReload(p)
  PROVE  KInv'
<1> DEFINE was == plugin[p]
           rest == Tail(was.queue)
<1>1. Due(p, "reload") /\ "reload" \in Tasks \ {"dispose"}
  BY DEF StartReload, Tasks
<1>2. /\ plugin \in Plugins /\ was \in PluginType /\ Staged(was) /\ was.run = "idle" /\ rest \in Seq(Tasks)
      /\ was.under \in Epochs
  BY <1>1, TheyAre, DueFacts
<1>3. was.mounted = "yes" /\ ~was.failed =>
        /\ rest # <<>> => (Last(rest) = "unload" <=> was.epoch = Inactive)
        /\ rest = <<>> => was.epoch # Inactive
  BY <1>1, WasTask
<1>4. CASE Up(p)
  <2> DEFINE me == At(was, rest, "unloading", "reloading", was.under)
  <2>1. plugin' = Moved(p, me)
    BY <1>2, <1>4 DEF StartReload, At, Moved, Plugins, PluginType
  <2>2. me.queue = rest /\ me.run = "reloading" /\ me.epoch = was.epoch
    BY <1>2 DEF At, PluginType
  <2>3. was.mounted = "yes" /\ ~was.failed => Ends(me, was.epoch # computeEpoch(plugin, realm, p))
    <3> HIDE DEF me, rest
    <3> QED
      BY <1>3, <2>2 DEF Ends
  <2>4. was.state # "disposed"
    BY <1>4 DEF Up
  <2> QED
    BY <1>1, <1>2, <2>1, <2>3, <2>4, TaskMoves DEF StartReload
<1>5. CASE ~Up(p)
  <2> DEFINE me == At(was, rest, was.state, "recheck", was.under)
  <2>1. plugin' = Moved(p, me)
    BY <1>2, <1>5 DEF StartReload, At, Moved, Plugins, PluginType
  <2>2. me.queue = rest /\ me.run = "recheck" /\ me.state = was.state /\ me.epoch = was.epoch
    BY <1>2 DEF At, PluginType
  <2>3. was.mounted = "yes" /\ ~was.failed => Ends(me, was.epoch # computeEpoch(plugin, realm, p))
    <3> HIDE DEF me, rest
    <3> QED
      BY <1>3, <2>2 DEF Ends
  <2>4. was.state \in {"pending", "failed", "disposed"}
    BY <1>2, <1>5 DEF PluginType, Staged, Up
  <2> QED
    BY <1>1, <1>2, <2>1, <2>3, <2>4, TaskMoves DEF StartReload
<1> QED
  BY <1>4, <1>5

LEMMA Rechecks ==
  ASSUME KInv, NEW p \in Instance, Recheck(p)
  PROVE  KInv'
<1> DEFINE now == computeEpoch(plugin, realm, p)
           was == plugin[p]
<1>1. /\ was \in PluginType /\ Staged(was) /\ was.run = "recheck" /\ was.queue \in Seq(Tasks)
      /\ was.under \in Epochs /\ was.failed \in BOOLEAN /\ now \in Epochs
      /\ EndsIn(plugin, realm, p)
  BY TheyAre DEF Recheck
<1>2. was.state \in {"pending", "failed", "disposed"} /\ was.mounted \in {"yes", "out"}
  BY <1>1 DEF Staged, PluginType
<1>3. plugin' = [plugin EXCEPT ![p] = IF now = was.epoch /\ now # Inactive THEN Loading(was, now)
                                     ELSE [was EXCEPT !.run = "idle"]]
  BY DEF Recheck
<1>4. was.mounted = "yes" /\ ~was.failed =>
        /\ was.state = "pending"
        /\ was.queue # <<>> => (Last(was.queue) = "unload" <=> was.epoch = Inactive)
        /\ was.queue = <<>> => was.epoch # Inactive
  BY <1>1, <1>2 DEF EndsIn, Ends, Staged
<1> HIDE DEF now, was
<1>5. CASE now = was.epoch /\ now # Inactive /\ was.mounted = "yes"
  <2> DEFINE me == At(was, was.queue, "loading", "apply", now)
  <2>1. Loading(was, now) = me
    BY <1>1, <1>5 DEF Loading, At, PluginType
  <2>2. plugin' = Moved(p, me)
    BY <1>3, <1>5, <2>1 DEF Moved
  <2>3. /\ me \in PluginType /\ me.queue = was.queue /\ me.state = "loading" /\ me.run = "apply" /\ me.under = now
        /\ me.mounted = was.mounted /\ me.epoch = was.epoch /\ (me.failed <=> was.failed)
        /\ Tasked(me) = Tasked(was)
    <3>1. me = At(was, was.queue, "loading", "apply", now)
      OBVIOUS
    <3>2. "loading" \in {"pending", "loading", "active", "unloading", "failed", "disposed"}
          /\ "apply" \in {"idle", "apply", "provided", "recheck"} \union Unwinds
      OBVIOUS
    <3> HIDE DEF me
    <3> QED
      BY <1>1, <3>1, <3>2 DEF At, PluginType, Tasked
  <2> HIDE DEF me
  <2>4. Staged(me)
    BY <1>1, <1>5, <2>3 DEF Staged
  <2>5. Sound(p, me)
    BY <1>1, <1>2, <1>5, <2>3, <2>4 DEF Sound, Serving, was, Staged
  <2>6. Doomed(me) /\ me.state # "active"
    BY <2>3 DEF Doomed
  <2>7. me.mounted = "yes" /\ ~me.failed => Ends(me, me.epoch # now)
    BY <1>4, <1>5, <2>3 DEF Ends
  <2>8. OwnIn(Moved(p, me), realm, effectsOf, awaitedBy) /\ ChainIn(Moved(p, me), realm)
    BY <2>5, <2>6, <2>7, MoveAway DEF now
  <2> QED
    BY <2>2, <2>8, KInvNext DEF Recheck
<1>6. CASE ~(now = was.epoch /\ now # Inactive /\ was.mounted = "yes")
  <2> DEFINE me == At(was, was.queue, was.state, "idle", was.under)
  <2>1. [was EXCEPT !.run = "idle"] = me
    BY <1>1 DEF At, PluginType
  <2>2. plugin' = Moved(p, me)
    BY <1>3, <1>6, <2>1 DEF Moved, Loading
  <2>3. /\ me \in PluginType /\ me.queue = was.queue /\ me.state = was.state /\ me.run = "idle"
        /\ me.mounted = was.mounted /\ me.epoch = was.epoch /\ (me.failed <=> was.failed)
        /\ Tasked(me) = Tasked(was)
    <3>1. me = At(was, was.queue, was.state, "idle", was.under)
      OBVIOUS
    <3>2. was.state \in {"pending", "loading", "active", "unloading", "failed", "disposed"}
          /\ "idle" \in {"idle", "apply", "provided", "recheck"} \union Unwinds
      BY <1>2
    <3> HIDE DEF me
    <3> QED
      BY <1>1, <3>1, <3>2 DEF At, PluginType, Tasked
  <2> HIDE DEF me
  <2>4. Staged(me)
    BY <1>1, <1>2, <2>3 DEF Staged
  <2>5. Sound(p, me)
    BY <2>3, <2>4, <1>2 DEF Sound, was
  <2>6. ~Doomed(was) /\ was.state # "active" /\ me.state # "active"
    BY <1>2, <2>3 DEF Doomed
  <2>7. me.mounted = "yes" /\ ~me.failed => Ends(me, me.epoch # now)
    BY <1>4, <1>6, <2>3 DEF Ends
  <2>8. OwnIn(Moved(p, me), realm, effectsOf, awaitedBy) /\ ChainIn(Moved(p, me), realm)
    BY <2>5, <2>6, <2>7, MoveAway DEF now, was
  <2> QED
    BY <2>2, <2>8, KInvNext DEF Recheck
<1> QED
  BY <1>5, <1>6

LEMMA DisposeStarts ==
  ASSUME KInv, NEW p \in Instance, StartDispose(p)
  PROVE  KInv'
<1> DEFINE was == plugin[p]
           rest == Tail(was.queue)
<1>1. Due(p, "dispose") /\ "dispose" \in Tasks
  BY DEF StartDispose, Tasks
<1>2. /\ plugin \in Plugins /\ was \in PluginType /\ Staged(was) /\ was.run = "idle" /\ rest \in Seq(Tasks)
      /\ was.under \in Epochs /\ "dispose" \in Tasked(was)
  BY <1>1, TheyAre, DueFacts DEF Tasked
<1>3. was.mounted = "out"
  BY <1>2 DEF Staged
<1>4. CASE Up(p)
  <2> DEFINE me == At(was, rest, "unloading", "disposing", was.under)
  <2>1. plugin' = Moved(p, me)
    BY <1>2, <1>4 DEF StartDispose, At, Moved, Plugins, PluginType
  <2>2. was.state # "disposed"
    BY <1>4 DEF Up
  <2>3. /\ me \in PluginType /\ Staged(me) /\ me.state = "unloading" /\ me.run = "disposing"
        /\ me.mounted = "out"
    BY <1>1, <1>2, <1>3, <2>2, TaskBegins DEF Unwinds
  <2> HIDE DEF me
  <2>4. Sound(p, me)
    BY <1>3, <2>2, <2>3 DEF Sound, Serving
  <2>5. Doomed(me) /\ me.state # "active"
    BY <2>3 DEF Doomed
  <2>6. OwnIn(Moved(p, me), realm, effectsOf, awaitedBy) /\ ChainIn(Moved(p, me), realm)
    BY <2>3, <2>4, <2>5, MoveAway
  <2> QED
    BY <2>1, <2>6, KInvNext DEF StartDispose
<1>5. CASE ~Up(p)
  <2> DEFINE me == At(was, rest, "disposed", "idle", was.under)
  <2>1. plugin' = notify(Moved(p, me), realm)
    <3>1. [[plugin EXCEPT ![p].queue = Tail(@)] EXCEPT ![p].state = "disposed"] = Moved(p, me)
      BY <1>2 DEF At, Moved, Plugins, PluginType
    <3> QED
      BY <1>5, <3>1 DEF StartDispose
  <2>2. me \in PluginType /\ Staged(me) /\ me.state = "disposed" /\ me.mounted = "out"
    BY <1>1, <1>2, <1>3, TaskBegins DEF Unwinds
  <2>3. was.state \notin Serving
    BY <1>2, <1>5 DEF Staged, Serving, Up
  <2> HIDE DEF me
  <2>4. Sound(p, me)
    BY <1>3, <2>2, <2>3 DEF Sound
  <2>5. OwnIn(notify(Moved(p, me), realm), realm, effectsOf, awaitedBy)
        /\ ChainIn(notify(Moved(p, me), realm), realm)
    BY <2>2, <2>4, MoveTells
  <2> QED
    BY <2>1, <2>5, KInvNext DEF StartDispose
<1> QED
  BY <1>4, <1>5

-----------------------------------------------------------------------------
(* Leaving, and how an apply ends.                                          *)

LEMMA LeaveKeeps ==
  ASSUME KInv, NEW p \in Instance
  PROVE  LET Q == Moved(p, Leaves(plugin[p]))
         IN  /\ OwnIn(Q, realm, effectsOf, awaitedBy) /\ ChainIn(Q, realm)
             /\ \A q \in Instance : Q[q].state = plugin[q].state
<1> DEFINE was == plugin[p]
           me == Leaves(was)
           queue == Append(was.queue, "dispose")
           new == [was EXCEPT !.mounted = "out", !.queue = queue]
<1>1. /\ was \in PluginType /\ Staged(was)
      /\ was.queue \in Seq(Tasks) /\ was.failed \in BOOLEAN /\ plugin \in Plugins
  BY TheyAre
<1>2. queue \in Seq(Tasks) /\ "dispose" \in ToSet(queue)
  BY <1>1, AppendOn DEF Tasks
<1>3. me = IF was.mounted = "yes" THEN new ELSE was
  <2> HIDE DEF was, queue
  <2> QED
    BY DEF Leaves, queue
<1> HIDE DEF queue, was, me
<1>4. /\ me \in PluginType /\ Staged(me) /\ me.mounted # "yes"
      /\ me.mounted = "no" <=> was.mounted = "no"
      /\ me.state = was.state /\ me.run = was.run
  <2>1. CASE was.mounted = "yes"
    <3>1. /\ me \in PluginType /\ me.mounted = "out" /\ me.state = was.state /\ me.run = was.run
          /\ (me.failed <=> was.failed) /\ me.queue = queue
      BY <1>1, <1>2, <1>3, <2>1 DEF PluginType
    <3>2. Staged(me)
      BY <1>1, <1>2, <2>1, <3>1 DEF Staged, Tasked
    <3> QED
      BY <2>1, <3>1, <3>2
  <2>2. CASE was.mounted # "yes"
    BY <1>1, <1>3, <2>2
  <2> QED
    BY <1>1, <2>1, <2>2
<1>5. Sound(p, me)
  BY <1>1, <1>4 DEF Sound, was
<1>6. Doomed(was) => Doomed(me)
  BY <1>4 DEF Doomed
<1>7. OwnIn(Moved(p, me), realm, effectsOf, awaitedBy) /\ ChainIn(Moved(p, me), realm)
  BY <1>4, <1>5, <1>6, MoveAway DEF was
<1>8. \A q \in Instance : Moved(p, me)[q].state = plugin[q].state
  BY <1>1, <1>4, MovedFacts DEF was
<1> QED
  BY <1>4, <1>7, <1>8 DEF me, was

LEMMA DisposesHandle ==
  ASSUME KInv, NEW p \in Instance, DisposeHandle(p)
  PROVE  KInv'
<1>1. plugin' = Moved(p, Leaves(plugin[p]))
  BY DEF DisposeHandle, Moved
<1> QED
  BY <1>1, LeaveKeeps, KInvNext DEF DisposeHandle

(* A load that fails takes what it registered down with it.                 *)
LEMMA FailKeeps ==
  ASSUME KInv, NEW p \in Instance, plugin[p].run \in {"apply", "provided"},
         plugin' = [plugin EXCEPT ![p].run = "failing", ![p].failed = TRUE],
         UNCHANGED <<realm, scope, effectsOf, awaitedBy>>
  PROVE  KInv'
<1> DEFINE was == plugin[p]
           me == [was EXCEPT !.run = "failing", !.failed = TRUE]
<1>1. was \in PluginType /\ Staged(was) /\ was.queue \in Seq(Tasks) /\ plugin \in Plugins
      /\ was.run \in {"apply", "provided"}
  BY TheyAre
<1>2. plugin' = Moved(p, me)
  BY <1>1 DEF Moved, Plugins
<1> HIDE DEF was
<1>3. /\ me \in PluginType /\ me.mounted = was.mounted /\ me.state = was.state /\ me.run = "failing"
      /\ me.failed /\ me.queue = was.queue /\ me.epoch = was.epoch
  BY <1>1 DEF PluginType, Unwinds
<1> HIDE DEF me
<1>4. Staged(me) /\ me.state = "loading"
  BY <1>1, <1>3 DEF Staged, Tasked
<1>5. Sound(p, me)
  BY <1>1, <1>3, <1>4 DEF Sound, Serving, was
<1>6. Doomed(me)
  BY <1>3, <1>4 DEF Doomed
<1>7. OwnIn(Moved(p, me), realm, effectsOf, awaitedBy) /\ ChainIn(Moved(p, me), realm)
  BY <1>3, <1>4, <1>5, <1>6, MoveAway
<1> QED
  BY <1>2, <1>7, KInvNext

LEMMA Throws ==
  ASSUME KInv, NEW p \in Instance, Throw(p)
  PROVE  KInv'
  BY FailKeeps DEF Throw

(* Only one that provides has a service on its list.                        *)
LEMMA ServesGives ==
  ASSUME KInv, NEW p \in Instance, Serves(p)
  PROVE  Gives[p] \in Key /\ effectsOf[p] # <<>>
<1>1. effectsOf[p] \in Seq(Effect)
  BY KernelFacts DEF KInv, OwnIn
<1>2. DOMAIN effectsOf[p] = 1..Len(effectsOf[p])
  BY <1>1, LenProperties
<1>3. Provided(Gives[p]) \in Effect
  BY <1>1, <1>2 DEF Serves, Owned, ToSet
<1>4. Gives[p] \in Key
  <2>1. Provided(Gives[p]).kind = "provide" /\ Provided(Gives[p]).what = Gives[p]
    BY DEF Provided
  <2> QED
    BY <1>3, <2>1 DEF Effect
<1>5. effectsOf[p] # <<>>
  BY <1>1, NoneOn DEF Serves, Owned
<1> QED
  BY <1>4, <1>5

LEMMA Applies ==
  ASSUME KInv, NEW p \in Instance, Applied(p)
  PROVE  KInv'
<1> DEFINE was == plugin[p]
<1>1. /\ was \in PluginType /\ Staged(was) /\ was.queue \in Seq(Tasks) /\ plugin \in Plugins
      /\ was.failed \in BOOLEAN /\ EndsIn(plugin, realm, p)
  BY TheyAre
<1>2. was.run \in {"apply", "provided"} /\ was.run = (IF Gives[p] = Absent THEN "apply" ELSE "provided")
  BY DEF Applied
<1>3. was.state = "loading" /\ was.mounted \in {"yes", "out"}
  BY <1>1, <1>2 DEF Staged, PluginType
<1>4. CASE was.mounted # "yes"
  <2> DEFINE me == [was EXCEPT !.run = "leaving"]
  <2>1. plugin' = Moved(p, me)
    BY <1>1, <1>4 DEF Applied, Moved, Plugins
  <2> HIDE DEF was
  <2>2. /\ me \in PluginType /\ me.mounted = was.mounted /\ me.state = was.state /\ me.run = "leaving"
        /\ (me.failed <=> was.failed) /\ me.queue = was.queue /\ me.epoch = was.epoch
    BY <1>1 DEF PluginType, Unwinds
  <2> HIDE DEF me
  <2>3. Staged(me)
    BY <1>1, <1>2, <1>3, <1>4, <2>2 DEF Staged, Tasked
  <2>4. Sound(p, me)
    BY <1>3, <1>4, <2>2, <2>3 DEF Sound, was
  <2>5. Doomed(me)
    BY <1>3, <2>2 DEF Doomed
  <2>6. OwnIn(Moved(p, me), realm, effectsOf, awaitedBy) /\ ChainIn(Moved(p, me), realm)
    BY <1>3, <1>4, <2>2, <2>4, <2>5, MoveAway DEF was
  <2> QED
    BY <2>1, <2>6, KInvNext DEF Applied
<1>5. CASE was.mounted = "yes"
  <2> DEFINE me == [was EXCEPT !.state = "active", !.run = "idle"]
  <2>1. plugin' = notify(Moved(p, me), realm)
    <3>1. [plugin EXCEPT ![p].state = "active", ![p].run = "idle"] = Moved(p, me)
      BY <1>1 DEF Moved, Plugins
    <3> QED
      BY <1>5, <3>1 DEF Applied
  <2>2. Serves(p) => ~Doomed(was)
    <3> SUFFICES ASSUME Serves(p) PROVE ~Doomed(was)
      OBVIOUS
    <3>1. Gives[p] # Absent
      BY ServesGives, KernelFacts
    <3> QED
      BY <1>2, <1>3, <3>1 DEF Doomed
  <2> HIDE DEF was
  <2>3. /\ me \in PluginType /\ me.mounted = was.mounted /\ me.state = "active" /\ me.run = "idle"
        /\ (me.failed <=> was.failed) /\ me.queue = was.queue /\ me.epoch = was.epoch
        /\ me.under = was.under
    BY <1>1 DEF PluginType
  <2> HIDE DEF me
  <2>4. Staged(me)
    BY <1>1, <1>5, <2>3 DEF Staged, Tasked
  <2>5. Sound(p, me)
    BY <1>3, <1>5, <2>3, <2>4 DEF Sound, Serving, was
  <2>6. me.mounted = "yes" /\ ~me.failed => Stale(plugin, realm, p) \/ Ends(me, FALSE)
    <3> SUFFICES ASSUME ~me.failed, ~Stale(plugin, realm, p) PROVE Ends(me, FALSE)
      OBVIOUS
    <3>1. Ends(was, Stale(plugin, realm, p))
      BY <1>1, <1>5, <2>3 DEF EndsIn, was
    <3>2. /\ was.queue # <<>> => (Last(was.queue) = "unload" <=> was.epoch = Inactive)
          /\ was.queue = <<>> => was.epoch # Inactive /\ was.under = was.epoch
      BY <1>2, <3>1 DEF Ends
    <3> QED
      BY <2>3, <3>2 DEF Ends
  <2>7. OwnIn(notify(Moved(p, me), realm), realm, effectsOf, awaitedBy)
        /\ ChainIn(notify(Moved(p, me), realm), realm)
    BY <2>2, <2>5, <2>6, MoveTells DEF was
  <2> QED
    BY <2>1, <2>7, KInvNext DEF Applied
<1> QED
  BY <1>4, <1>5

-----------------------------------------------------------------------------
(* Unwinding.                                                               *)

(* What an unwind awaited may be forgotten once it is over.                 *)
LEMMA AwaitsNext ==
  ASSUME NEW P, NEW R, NEW E, NEW A, OwnIn(P, R, E, A), NEW o \in EffectOwner,
         NEW x \in EffectOwner \union {Absent},
         A[o] \in Instance => P[A[o]].state = "disposed"
  PROVE  OwnIn(P, R, E, [A EXCEPT ![o] = x])
<1> DEFINE B == [A EXCEPT ![o] = x]
<1>1. B \in [EffectOwner -> EffectOwner \union {Absent}]
  BY DEF OwnIn
<1>2. ASSUME NEW p \in Instance PROVE KeptIn(P, E, B, p)
  <2>1. KeptIn(P, E, A, p) /\ Owner[p] \in EffectOwner
    BY KernelFacts DEF OwnIn
  <2>2. A \in [EffectOwner -> EffectOwner \union {Absent}]
    BY DEF OwnIn
  <2>3. CASE Owner[p] = o /\ A[o] = p
    BY <2>3 DEF KeptIn
  <2>4. CASE ~(Owner[p] = o /\ A[o] = p)
    <3>1. A[Owner[p]] = p => B[Owner[p]] = p
      BY <2>1, <2>2, <2>4
    <3> QED
      BY <2>1, <3>1 DEF KeptIn
  <2> QED
    BY <2>3, <2>4
<1> HIDE DEF B
<1> QED
  BY <1>1, <1>2 DEF OwnIn, B

LEMMA AwaitedIsOver ==
  ASSUME KInv, NEW o \in EffectOwner, UnwindReady(o), awaitedBy[o] \in Instance
  PROVE  plugin[awaitedBy[o]].state = "disposed"
<1>1. awaitedBy[o] # Absent /\ awaitedBy[o] \notin Scope
  BY KernelFacts
<1> QED
  BY <1>1 DEF UnwindReady, AwaitOver

(* A task whose effects are unwound, and of which everyone is told.         *)
LEMMA EndTells ==
  ASSUME KInv, NEW p \in Instance, UnwindReady(p), effectsOf[p] = <<>>,
         NEW state \in {"pending", "failed", "disposed"}, NEW run \in {"idle", "recheck"},
         state = "disposed" => plugin[p].mounted = "out",
         state = "failed" => plugin[p].run = "failing",
         plugin[p].run = "disposing" => state = "disposed",
         plugin[p].mounted = "yes" /\ ~plugin[p].failed =>
           (run = "idle" => plugin[p].run = "unloading") /\ (run = "recheck" => plugin[p].run = "reloading"),
         plugin' = notify([plugin EXCEPT ![p].state = state, ![p].run = run, ![p].under = Never], realm),
         awaitedBy' = [awaitedBy EXCEPT ![p] = Absent],
         UNCHANGED <<realm, scope, effectsOf>>
  PROVE  KInv'
<1> DEFINE was == plugin[p]
           me == [was EXCEPT !.state = state, !.run = run, !.under = Never]
<1>1. /\ was \in PluginType /\ Staged(was) /\ was.queue \in Seq(Tasks) /\ plugin \in Plugins
      /\ was.failed \in BOOLEAN /\ EndsIn(plugin, realm, p) /\ realm \in Realms
  BY TheyAre
<1>2. was.run \in Unwinds
  BY KernelFacts DEF UnwindReady, Unwinding
<1>3. ~Serves(p)
  BY ServesGives
<1>4. plugin' = notify(Moved(p, me), realm)
  BY <1>1 DEF Moved, Plugins
<1> HIDE DEF was
<1>5. /\ me \in PluginType /\ me.mounted = was.mounted /\ me.state = state /\ me.run = run
      /\ (me.failed <=> was.failed) /\ me.queue = was.queue /\ me.epoch = was.epoch
  BY <1>1, EpochsDiffer DEF PluginType
<1> HIDE DEF me
<1>6. Staged(me) /\ was.state # "disposed" /\ was.mounted # "no"
  BY <1>1, <1>2, <1>5 DEF Staged, Tasked, Unwinds, was
<1>7. Sound(p, me)
  BY <1>3, <1>5, <1>6 DEF Sound, was
<1>8. me.mounted = "yes" /\ ~me.failed => Ends(me, FALSE)
  <2> SUFFICES ASSUME me.mounted = "yes", ~me.failed PROVE Ends(me, FALSE)
    OBVIOUS
  <2>1. Ends(was, Stale(plugin, realm, p)) /\ was.run # "failing"
    BY <1>1, <1>5 DEF EndsIn, Staged, was
  <2>2. /\ was.queue # <<>> => (Last(was.queue) = "unload" <=> was.epoch = Inactive)
        /\ was.queue = <<>> /\ was.run = "unloading" => was.epoch = Inactive
        /\ was.queue = <<>> /\ was.run = "reloading" => was.epoch # Inactive
    BY <2>1 DEF Ends
  <2>3. /\ run = "idle" => was.run = "unloading"
        /\ run = "recheck" => was.run = "reloading"
        /\ state = "pending"
    BY <1>5, <2>1 DEF was
  <2> QED
    BY <1>5, <2>2, <2>3 DEF Ends
<1> DEFINE Q == notify(Moved(p, me), realm)
<1>9. OwnIn(Q, realm, effectsOf, awaitedBy) /\ ChainIn(Q, realm)
  BY <1>3, <1>7, <1>8, MoveTells
<1>10. \A q \in Instance : plugin[q].state = "disposed" => Q[q].state = "disposed"
  <2> SUFFICES ASSUME NEW q \in Instance, plugin[q].state = "disposed" PROVE Q[q].state = "disposed"
    OBVIOUS
  <2>1. Moved(p, me) \in Plugins /\ Moved(p, me)[q].state = "disposed"
    BY <1>1, <1>5, <1>6, MovedFacts DEF was
  <2> QED
    BY <1>1, <2>1, NotifyFacts, RefreshFacts
<1> HIDE DEF Q
<1>11. awaitedBy[p] \in Instance => Q[awaitedBy[p]].state = "disposed"
  BY <1>10, AwaitedIsOver, KernelFacts
<1>12. OwnIn(Q, realm, effectsOf, awaitedBy')
  BY <1>9, <1>11, AwaitsNext, KernelFacts
<1> QED
  BY <1>4, <1>9, <1>12 DEF KInv, ScopesTyped, Q

LEMMA EndsUnwind ==
  ASSUME KInv, NEW p \in Instance, Unwound(p)
  PROVE  KInv'
<1> DEFINE was == plugin[p]
           left == IF was.mounted = "yes" THEN "pending" ELSE "disposed"
           After(s, r) == notify([plugin EXCEPT ![p].state = s, ![p].run = r, ![p].under = Never], realm)
<1>1. /\ was \in PluginType /\ Staged(was) /\ plugin \in Plugins /\ was.failed \in BOOLEAN
      /\ was.queue \in Seq(Tasks)
  BY TheyAre
<1>2. /\ UnwindReady(p) /\ effectsOf[p] = <<>> /\ awaitedBy' = [awaitedBy EXCEPT ![p] = Absent]
      /\ UNCHANGED <<realm, scope, effectsOf>>
      /\ plugin' = CASE was.run = "failing" -> After("failed", "idle")
                     [] was.run = "leaving" -> [plugin EXCEPT ![p].run = "idle"]
                     [] was.run = "unloading" -> After(left, "idle")
                     [] was.run = "reloading" -> After(left, "recheck")
                     [] was.run = "disposing" -> After("disposed", "idle")
  BY DEF Unwound
<1>3. was.run \in Unwinds
  BY <1>2, KernelFacts DEF UnwindReady, Unwinding
<1>4. was.mounted \in {"yes", "out"} /\ (was.run \in {"leaving", "disposing"} => was.mounted = "out")
      /\ (was.run = "failing" => was.failed)
  BY <1>1, <1>3 DEF Staged, PluginType, Unwinds
<1>5. CASE was.run = "failing"
  <2>1. plugin' = After("failed", "idle")
    BY <1>2, <1>5
  <2> QED
    BY <1>2, <1>4, <1>5, <2>1, EndTells
<1>6. CASE was.run = "unloading"
  <2>1. plugin' = After(left, "idle")
    BY <1>2, <1>6
  <2>2. left \in {"pending", "failed", "disposed"} /\ left # "failed"
        /\ (left = "disposed" => was.mounted = "out")
    BY <1>4
  <2> HIDE DEF left
  <2> QED
    BY <1>2, <1>4, <1>6, <2>1, <2>2, EndTells
<1>7. CASE was.run = "reloading"
  <2>1. plugin' = After(left, "recheck")
    BY <1>2, <1>7
  <2>2. left \in {"pending", "failed", "disposed"} /\ left # "failed"
        /\ (left = "disposed" => was.mounted = "out")
    BY <1>4
  <2> HIDE DEF left
  <2> QED
    BY <1>2, <1>4, <1>7, <2>1, <2>2, EndTells
<1>8. CASE was.run = "disposing"
  <2>1. plugin' = After("disposed", "idle")
    BY <1>2, <1>8
  <2> QED
    BY <1>2, <1>4, <1>8, <2>1, EndTells
<1>9. CASE was.run = "leaving"
  <2> DEFINE me == [was EXCEPT !.run = "idle"]
  <2>1. plugin' = Moved(p, me)
    BY <1>1, <1>2, <1>9 DEF Moved, Plugins
  <2> HIDE DEF was
  <2>2. /\ me \in PluginType /\ me.mounted = was.mounted /\ me.state = was.state /\ me.run = "idle"
        /\ (me.failed <=> was.failed) /\ me.queue = was.queue /\ me.epoch = was.epoch
    BY <1>1 DEF PluginType
  <2> HIDE DEF me
  <2>3. Staged(me) /\ was.state = "loading"
    BY <1>1, <1>4, <1>9, <2>2 DEF Staged, Tasked
  <2>4. Sound(p, me)
    BY <1>4, <1>9, <2>2, <2>3 DEF Sound, was
  <2>5. Doomed(me) /\ me.state # "active"
    BY <2>2, <2>3 DEF Doomed
  <2>6. OwnIn(Moved(p, me), realm, effectsOf, awaitedBy) /\ ChainIn(Moved(p, me), realm)
    BY <1>4, <1>9, <2>2, <2>4, <2>5, MoveAway DEF was
  <2>7. awaitedBy[p] \in Instance => Moved(p, me)[awaitedBy[p]].state = "disposed"
    BY <1>1, <1>2, <2>2, <2>3, AwaitedIsOver, KernelFacts, MovedFacts DEF was
  <2>8. OwnIn(Moved(p, me), realm, effectsOf, awaitedBy')
    BY <1>2, <2>6, <2>7, AwaitsNext, KernelFacts
  <2> QED
    BY <1>2, <2>1, <2>6, <2>8 DEF KInv, ScopesTyped
<1> QED
  BY <1>3, <1>5, <1>6, <1>7, <1>8, <1>9 DEF Unwinds

-----------------------------------------------------------------------------
(* Lists.                                                                   *)

LEMMA ListsNext ==
  ASSUME NEW P, NEW R, NEW E, NEW A, OwnIn(P, R, E, A), NEW o \in EffectOwner, NEW list \in Seq(Effect),
         \A r \in ToSet(list) : Listed(o, r),
         \A s \in Scope, k \in Key :
           R[s][k] # NoImpl /\ R[s][k].by = o /\ Provided(k) \in ToSet(E[o]) => Provided(k) \in ToSet(list),
         \A p \in Instance :
           Mounted(p) \in ToSet(E[o]) =>
             Mounted(p) \in ToSet(list) \/ A[Owner[p]] = p \/ P[p].state = "disposed"
  PROVE  OwnIn(P, R, [E EXCEPT ![o] = list], A)
<1> DEFINE F == [E EXCEPT ![o] = list]
<1>1. E \in [EffectOwner -> Seq(Effect)]
  BY DEF OwnIn
<1>2. F \in [EffectOwner -> Seq(Effect)] /\ F[o] = list /\ \A b \in EffectOwner : b # o => F[b] = E[b]
  BY <1>1
<1> HIDE DEF F
<1>3. \A b \in EffectOwner : \A r \in ToSet(F[b]) : Listed(b, r)
  BY <1>2 DEF OwnIn
<1>4. ASSUME NEW s \in Scope, NEW k \in Key PROVE ServiceIn(P, R, F, s, k)
  <2>1. R[s][k] \in Impl \union {NoImpl} /\ ServiceIn(P, R, E, s, k)
    BY DEF OwnIn, Realms
  <2> SUFFICES ASSUME R[s][k] # NoImpl PROVE Provided(k) \in ToSet(F[R[s][k].by])
    BY <2>1 DEF ServiceIn
  <2>2. R[s][k].by \in EffectOwner /\ Provided(k) \in ToSet(E[R[s][k].by])
    BY <2>1, KernelFacts DEF Impl, ServiceIn
  <2> QED
    BY <1>2, <2>2
<1>5. ASSUME NEW p \in Instance PROVE KeptIn(P, F, A, p)
  <2>1. KeptIn(P, E, A, p) /\ Owner[p] \in EffectOwner
    BY KernelFacts DEF OwnIn
  <2> QED
    BY <1>2, <2>1 DEF KeptIn
<1> QED
  BY <1>2, <1>3, <1>4, <1>5 DEF OwnIn, F

(* Growing a list, and taking its last.                                     *)
LEMMA ListGrows ==
  ASSUME NEW P, NEW R, NEW E, NEW A, OwnIn(P, R, E, A), NEW o \in EffectOwner, NEW r \in Effect, Listed(o, r)
  PROVE  OwnIn(P, R, [E EXCEPT ![o] = Append(@, r)], A)
<1>1. E[o] \in Seq(Effect) /\ E \in [EffectOwner -> Seq(Effect)] /\ \A b \in ToSet(E[o]) : Listed(o, b)
  BY DEF OwnIn
<1>2. Append(E[o], r) \in Seq(Effect) /\ ToSet(Append(E[o], r)) = ToSet(E[o]) \union {r}
  BY <1>1, AppendOn
<1> QED
  BY <1>1, <1>2, ListsNext

LEMMA RecordsAre ==
  /\ \A p \in Instance : Mounted(p) \in Effect
  /\ \A s \in Scope : Child(s) \in Effect
  /\ \A k \in Key : Provided(k) \in Effect
  /\ \A p, s, k : Mounted(p) # Child(s) /\ Mounted(p) # Provided(k) /\ Provided(k) # Child(s)
  /\ \A p, q : Mounted(p) = Mounted(q) => p = q
  /\ \A k, l : Provided(k) = Provided(l) => k = l
<1>1. /\ \A p : Mounted(p).kind = "mount" /\ Mounted(p).what = p
      /\ \A s : Child(s).kind = "scope" /\ Child(s).what = s
      /\ \A k : Provided(k).kind = "provide" /\ Provided(k).what = k
  BY DEF Mounted, Child, Provided
<1>2. /\ \A p \in Instance : Mounted(p) \in Effect
      /\ \A s \in Scope : Child(s) \in Effect
      /\ \A k \in Key : Provided(k) \in Effect
  BY DEF Effect, Mounted, Child, Provided
<1>3. \A p, s, k : Mounted(p) # Child(s) /\ Mounted(p) # Provided(k) /\ Provided(k) # Child(s)
  BY <1>1
<1> QED
  BY <1>1, <1>2, <1>3

LEMMA Releases ==
  ASSUME KInv, NEW p \in Instance, Release(p)
  PROVE  KInv'
<1> DEFINE o == Owner[p]
           list == Without(effectsOf[o], {Mounted(p)})
<1>1. o \in EffectOwner /\ effectsOf[o] \in Seq(Effect) /\ OwnIn(plugin, realm, effectsOf, awaitedBy)
  BY KernelFacts DEF KInv, OwnIn
<1>2. list \in Seq(Effect) /\ ToSet(list) = ToSet(effectsOf[o]) \ {Mounted(p)}
  BY <1>1, WithoutOn
<1>3. plugin[p].state = "disposed" /\ effectsOf' = [effectsOf EXCEPT ![o] = list]
      /\ UNCHANGED <<plugin, realm, scope, awaitedBy>>
  BY DEF Release
<1> HIDE DEF list
<1>4. /\ \A r \in ToSet(list) : Listed(o, r)
      /\ \A k \in Key : Provided(k) \in ToSet(effectsOf[o]) => Provided(k) \in ToSet(list)
      /\ \A q \in Instance : Mounted(q) \in ToSet(effectsOf[o]) =>
           Mounted(q) \in ToSet(list) \/ plugin[q].state = "disposed"
  BY <1>1, <1>2, <1>3, RecordsAre DEF OwnIn
<1> HIDE DEF o
<1>5. OwnIn(plugin, realm, effectsOf', awaitedBy)
  BY <1>1, <1>2, <1>3, <1>4, ListsNext
<1> QED
  BY <1>3, <1>5 DEF KInv, ScopesTyped

LEMMA Opens ==
  ASSUME KInv, NEW s \in Scope, Open(s)
  PROVE  KInv'
<1>1. Child(s) \in Effect /\ Listed(Owner[s], Child(s)) /\ OwnIn(plugin, realm, effectsOf, awaitedBy)
  BY RecordsAre DEF Listed, Child, KInv
<1>2. OwnIn(plugin, realm, effectsOf', awaitedBy)
  BY <1>1, ListGrows, KernelFacts DEF Open
<1>3. ScopesTyped'
  BY DEF Open, ScopesTyped, KInv
<1> QED
  BY <1>2, <1>3 DEF KInv, Open

LEMMA Closes ==
  ASSUME KInv, NEW s \in Scope, Close(s)
  PROVE  KInv'
<1>1. ScopesTyped'
  BY DEF Close, ScopesTyped, KInv
<1> QED
  BY <1>1 DEF KInv, Close

LEMMA ScopeCloses ==
  ASSUME KInv, NEW s \in Scope, ScopeClosed(s)
  PROVE  KInv'
<1> DEFINE o == Owner[s]
           list == Without(effectsOf[o], {Child(s)})
<1>1. /\ o \in EffectOwner /\ s \in EffectOwner /\ effectsOf[o] \in Seq(Effect)
      /\ OwnIn(plugin, realm, effectsOf, awaitedBy)
  BY KernelFacts DEF KInv, OwnIn
<1>2. list \in Seq(Effect) /\ ToSet(list) = ToSet(effectsOf[o]) \ {Child(s)}
  BY <1>1, WithoutOn
<1>3. /\ UnwindReady(s) /\ effectsOf' = [effectsOf EXCEPT ![o] = list]
      /\ awaitedBy' = [awaitedBy EXCEPT ![s] = Absent]
      /\ scope' = [scope EXCEPT ![s] = "closed"] /\ UNCHANGED <<plugin, realm>>
  BY DEF ScopeClosed
<1> HIDE DEF list
<1>4. /\ \A r \in ToSet(list) : Listed(o, r)
      /\ \A k \in Key : Provided(k) \in ToSet(effectsOf[o]) => Provided(k) \in ToSet(list)
      /\ \A q \in Instance : Mounted(q) \in ToSet(effectsOf[o]) => Mounted(q) \in ToSet(list)
  BY <1>1, <1>2, RecordsAre DEF OwnIn
<1> HIDE DEF o
<1>5. OwnIn(plugin, realm, effectsOf, awaitedBy')
  BY <1>1, <1>3, AwaitsNext, AwaitedIsOver
<1>6. OwnIn(plugin, realm, effectsOf', awaitedBy')
  BY <1>1, <1>2, <1>3, <1>4, <1>5, ListsNext
<1>7. ScopesTyped'
  BY <1>3 DEF ScopesTyped, KInv
<1> QED
  BY <1>3, <1>6, <1>7 DEF KInv

LEMMA PopIs ==
  ASSUME KInv, NEW o \in EffectOwner, PopEffect(o)
  PROVE  LET r == Last(effectsOf[o])
             list == Front(effectsOf[o])
         IN  /\ r \in Effect /\ list \in Seq(Effect) /\ Listed(o, r)
             /\ ToSet(effectsOf[o]) = ToSet(list) \union {r}
             /\ effectsOf' = [effectsOf EXCEPT ![o] = list]
             /\ UnwindReady(o)
             /\ r.kind = "mount" => r.what \in Instance /\ r = Mounted(r.what) /\ PopsMount(o, r.what)
             /\ r.kind = "scope" => r.what \in Scope /\ r = Child(r.what) /\ PopsScope(o, r.what)
             /\ r.kind = "provide" => r.what \in Key /\ r = Provided(r.what) /\ PopsProvide(o, r.what)
             /\ r.kind \in {"mount", "scope", "provide"}
<1> DEFINE r == Last(effectsOf[o])
           list == Front(effectsOf[o])
<1>1. effectsOf[o] \in Seq(Effect) /\ effectsOf[o] # <<>> /\ \A b \in ToSet(effectsOf[o]) : Listed(o, b)
  BY DEF KInv, OwnIn, PopEffect
<1>2. r \in Effect /\ list \in Seq(Effect) /\ ToSet(effectsOf[o]) = ToSet(list) \union {r}
  BY <1>1, LastOn
<1>3. /\ UnwindReady(o)
      /\ CASE r.kind = "mount" -> PopsMount(o, r.what)
           [] r.kind = "scope" -> PopsScope(o, r.what)
           [] r.kind = "provide" -> PopsProvide(o, r.what)
      /\ effectsOf' = [effectsOf EXCEPT ![o] = list]
  BY DEF PopEffect
<1> HIDE DEF r, list
<1>4. /\ r.kind = "mount" => r.what \in Instance /\ r = Mounted(r.what)
      /\ r.kind = "scope" => r.what \in Scope /\ r = Child(r.what)
      /\ r.kind = "provide" => r.what \in Key /\ r = Provided(r.what)
      /\ r.kind \in {"mount", "scope", "provide"}
  BY <1>2 DEF Effect, Mounted, Child, Provided
<1> QED
  BY <1>1, <1>2, <1>3, <1>4 DEF r, list

LEMMA ScopePops ==
  ASSUME KInv, NEW o \in EffectOwner, PopEffect(o), Last(effectsOf[o]).kind = "scope"
  PROVE  KInv'
<1> DEFINE r == Last(effectsOf[o])
           s == r.what
           list == Front(effectsOf[o])
           x == IF scope[s] = "open" THEN s ELSE Absent
<1>1. /\ r \in Effect /\ list \in Seq(Effect) /\ ToSet(effectsOf[o]) = ToSet(list) \union {r}
      /\ effectsOf' = [effectsOf EXCEPT ![o] = list] /\ UnwindReady(o)
      /\ s \in Scope /\ r = Child(s) /\ PopsScope(o, s)
  BY PopIs
<1> HIDE DEF list, r
<1>2. /\ scope' = [scope EXCEPT ![s] = IF @ = "open" THEN "unwinding" ELSE @]
      /\ awaitedBy' = [awaitedBy EXCEPT ![o] = x]
      /\ UNCHANGED <<plugin, realm>>
  BY <1>1 DEF PopsScope
<1>3. OwnIn(plugin, realm, effectsOf, awaitedBy)
  BY DEF KInv
<1>4. x \in EffectOwner \union {Absent}
  BY <1>1, KernelFacts
<1> HIDE DEF x
<1>5. OwnIn(plugin, realm, effectsOf, awaitedBy')
  BY <1>1, <1>2, <1>3, <1>4, AwaitsNext, AwaitedIsOver
<1>6. /\ \A b \in ToSet(list) : Listed(o, b)
      /\ \A k \in Key : Provided(k) \in ToSet(effectsOf[o]) => Provided(k) \in ToSet(list)
      /\ \A q \in Instance : Mounted(q) \in ToSet(effectsOf[o]) => Mounted(q) \in ToSet(list)
  BY <1>1, <1>3, RecordsAre DEF OwnIn
<1>7. OwnIn(plugin, realm, effectsOf', awaitedBy')
  BY <1>1, <1>5, <1>6, ListsNext
<1>8. ScopesTyped'
  BY <1>1, <1>2 DEF ScopesTyped, KInv
<1> QED
  BY <1>2, <1>7, <1>8 DEF KInv

LEMMA MountPops ==
  ASSUME KInv, NEW o \in EffectOwner, PopEffect(o), Last(effectsOf[o]).kind = "mount"
  PROVE  KInv'
<1> DEFINE r == Last(effectsOf[o])
           p == r.what
           list == Front(effectsOf[o])
           Q == Moved(p, Leaves(plugin[p]))
<1>1. /\ r \in Effect /\ list \in Seq(Effect) /\ ToSet(effectsOf[o]) = ToSet(list) \union {r}
      /\ effectsOf' = [effectsOf EXCEPT ![o] = list] /\ UnwindReady(o) /\ Listed(o, r)
      /\ p \in Instance /\ r = Mounted(p) /\ PopsMount(o, p) /\ r.kind = "mount"
  BY PopIs
<1> HIDE DEF list, r
<1>2. plugin' = Q /\ awaitedBy' = [awaitedBy EXCEPT ![o] = p] /\ UNCHANGED <<realm, scope>>
  BY <1>1 DEF PopsMount, Moved
<1>3. /\ OwnIn(Q, realm, effectsOf, awaitedBy) /\ ChainIn(Q, realm)
      /\ \A q \in Instance : Q[q].state = plugin[q].state
  BY <1>1, LeaveKeeps
<1> HIDE DEF Q
<1>4. Owner[p] = o /\ p \in EffectOwner
  BY <1>1, KernelFacts DEF Listed
<1> HIDE DEF p
<1>5. OwnIn(Q, realm, effectsOf, awaitedBy')
  BY <1>1, <1>2, <1>3, <1>4, AwaitsNext, AwaitedIsOver
<1>6. /\ \A b \in ToSet(list) : Listed(o, b)
      /\ \A k \in Key : Provided(k) \in ToSet(effectsOf[o]) => Provided(k) \in ToSet(list)
      /\ \A q \in Instance : Mounted(q) \in ToSet(effectsOf[o]) => Mounted(q) \in ToSet(list) \/ q = p
  BY <1>1, <1>3, RecordsAre DEF OwnIn
<1>7. awaitedBy'[Owner[p]] = p
  <2>1. awaitedBy \in [EffectOwner -> EffectOwner \union {Absent}]
    BY <1>3 DEF OwnIn
  <2> QED
    BY <1>2, <1>4, <2>1
<1>8. OwnIn(Q, realm, effectsOf', awaitedBy')
  BY <1>1, <1>5, <1>6, <1>7, ListsNext
<1> QED
  BY <1>2, <1>3, <1>8 DEF KInv, ScopesTyped

(* A service that is taken out of its realm.                                *)
LEMMA ServiceGoes ==
  ASSUME KInv, NEW o \in Instance
  PROVE  LET h == Home[o]
             k == Gives[o]
             new == [realm EXCEPT ![h][k] = IF @.by = o THEN NoImpl ELSE @]
         IN  k \in Key =>
               /\ new \in Realms
               /\ \A s \in Scope, l \in Key :
                    new[s][l] = IF realm[s][l] # NoImpl /\ realm[s][l].by = o THEN NoImpl ELSE realm[s][l]
<1> DEFINE h == Home[o]
           k == Gives[o]
           new == [realm EXCEPT ![h][k] = IF @.by = o THEN NoImpl ELSE @]
<1> SUFFICES ASSUME k \in Key
             PROVE  /\ new \in Realms
                    /\ \A s \in Scope, l \in Key :
                         new[s][l] = IF realm[s][l] # NoImpl /\ realm[s][l].by = o THEN NoImpl ELSE realm[s][l]
  OBVIOUS
<1>1. realm \in Realms /\ h \in Scope /\ \A s \in Scope, l \in Key : ServiceIn(plugin, realm, effectsOf, s, l)
  BY KernelFacts DEF KInv, OwnIn
<1>2. NoImpl.by # o
  BY KernelFacts DEF NoImpl
<1> DEFINE x == IF realm[h][k].by = o THEN NoImpl ELSE realm[h][k]
<1>3. new = [realm EXCEPT ![h] = [realm[h] EXCEPT ![k] = x]]
  OBVIOUS
<1>4. realm[h] \in [Key -> Impl \union {NoImpl}] /\ x \in Impl \union {NoImpl}
  BY <1>1 DEF Realms
<1> HIDE DEF x
<1>5. [realm[h] EXCEPT ![k] = x] \in [Key -> Impl \union {NoImpl}]
  BY <1>4
<1>6. new \in Realms
  BY <1>1, <1>3, <1>5 DEF Realms
<1>7. /\ new[h][k] = x
      /\ \A s \in Scope, l \in Key : ~(s = h /\ l = k) => new[s][l] = realm[s][l]
  BY <1>1, <1>3, <1>4 DEF Realms
<1> HIDE DEF new
<1>8. ASSUME NEW s \in Scope, NEW l \in Key
      PROVE  new[s][l] = IF realm[s][l] # NoImpl /\ realm[s][l].by = o THEN NoImpl ELSE realm[s][l]
  <2>1. CASE s = h /\ l = k
    BY <1>2, <1>7, <2>1 DEF x
  <2>2. CASE ~(s = h /\ l = k)
    <3>1. new[s][l] = realm[s][l]
      BY <1>7, <2>2
    <3>2. realm[s][l] # NoImpl => realm[s][l].by # o
      BY <1>1, <2>2 DEF ServiceIn
    <3> QED
      BY <3>1, <3>2
  <2> QED
    BY <2>1, <2>2
<1> QED
  BY <1>6, <1>8

LEMMA ProvidePops ==
  ASSUME KInv, NEW o \in EffectOwner, PopEffect(o), Last(effectsOf[o]).kind = "provide"
  PROVE  KInv'
<1> DEFINE r == Last(effectsOf[o])
           k == r.what
           list == Front(effectsOf[o])
           new == [realm EXCEPT ![Home[o]][k] = IF @.by = o THEN NoImpl ELSE @]
<1>1. /\ r \in Effect /\ list \in Seq(Effect) /\ ToSet(effectsOf[o]) = ToSet(list) \union {r}
      /\ effectsOf' = [effectsOf EXCEPT ![o] = list] /\ UnwindReady(o) /\ Listed(o, r)
      /\ k \in Key /\ r = Provided(k) /\ PopsProvide(o, k) /\ r.kind = "provide"
  BY PopIs
<1> HIDE DEF list, r
<1>2. /\ realm' = new /\ plugin' = notify(plugin, new) /\ awaitedBy' = [awaitedBy EXCEPT ![o] = Absent]
      /\ UNCHANGED scope
  BY <1>1 DEF PopsProvide
<1>3. o \in Instance /\ k = Gives[o]
  BY <1>1 DEF Listed
<1>4. /\ new \in Realms
      /\ \A s \in Scope, l \in Key :
           new[s][l] = IF realm[s][l] # NoImpl /\ realm[s][l].by = o THEN NoImpl ELSE realm[s][l]
  BY <1>1, <1>3, ServiceGoes
<1> HIDE DEF new, k
<1>5. /\ plugin \in Plugins /\ realm \in Realms /\ OwnIn(plugin, realm, effectsOf, awaitedBy)
      /\ ChainIn(plugin, realm) /\ DistinctIds(realm)
  BY DEF KInv, OwnIn
<1>6. OwnIn(plugin, new, effectsOf, awaitedBy)
  <2>1. \A s \in Scope, l \in Key : ServiceIn(plugin, new, effectsOf, s, l)
    BY <1>4, <1>5 DEF OwnIn, ServiceIn
  <2>2. DistinctIds(new)
    BY <1>4, <1>5 DEF DistinctIds
  <2> QED
    BY <1>4, <1>5, <2>1, <2>2 DEF OwnIn
<1>7. OwnIn(plugin, new, effectsOf, awaitedBy')
  BY <1>1, <1>2, <1>6, AwaitsNext, AwaitedIsOver
<1>8. OwnIn(plugin, new, effectsOf', awaitedBy')
  <2>1. /\ \A b \in ToSet(list) : Listed(o, b)
        /\ \A q \in Instance : Mounted(q) \in ToSet(effectsOf[o]) => Mounted(q) \in ToSet(list)
        /\ \A s \in Scope, l \in Key : new[s][l] # NoImpl => new[s][l].by # o
    BY <1>1, <1>4, <1>5, RecordsAre DEF OwnIn
  <2> QED
    BY <1>1, <1>7, <2>1, ListsNext
<1>9. ASSUME NEW q \in Instance, plugin[q].mounted = "yes", ~plugin[q].failed
      PROVE  computeEpoch(plugin, new, q) # plugin[q].epoch \/ Ends(plugin[q], FALSE)
  <2>1. Ends(plugin[q], Stale(plugin, realm, q)) /\ Stale(plugin, realm, q) \in BOOLEAN
    BY <1>5, <1>9 DEF ChainIn, EndsIn, Stale
  <2>2. CASE ~Stale(plugin, realm, q)
    BY <2>1, <2>2, EndsMore
  <2>3. CASE Stale(plugin, realm, q)
    <3>1. PICK l \in Needs[q] : LET i == Lookup(realm, q, l)
                                IN  i # NoImpl /\ Doomed(plugin[i.by]) /\ i.id \in plugin[q].epoch
      BY <2>3 DEF Stale
    <3> DEFINE i == Lookup(realm, q, l)
    <3>2. l \in Key /\ i \in Impl
      BY <1>5, <3>1, KernelFacts, LookupFacts
    <3>3. plugin[i.by].state # "active" /\ plugin[q].epoch # Inactive
      BY <1>5, <2>3, <3>1, StaleDiffers DEF Doomed
    <3>4. CASE i.by # o
      <4>1. Lookup(new, q, l) = i
        BY <1>4, <3>1, <3>2, <3>4, KernelFacts DEF Lookup
      <4>2. i \in Found(new, q)
        BY <4>1 DEF Found
      <4>3. computeEpoch(plugin, new, q) = Inactive
        BY <1>4, <1>5, <3>3, <4>2, EpochFacts
      <4> QED
        BY <3>3, <4>3
    <3>5. CASE i.by = o
      <4>1. \A j \in Found(new, q) : j # NoImpl => j.id # i.id
        <5> SUFFICES ASSUME NEW j \in Found(new, q), j # NoImpl PROVE j.id # i.id
          OBVIOUS
        <5>1. PICK m \in Needs[q] : j = Lookup(new, q, m)
          BY DEF Found
        <5>2. m \in Key
          BY <5>1, KernelFacts
        <5>3. PICK s \in Scope : j = new[s][m]
          BY <1>4, <5>1, <5>2, LookupFacts
        <5>4. j = realm[s][m] /\ j.by # o
          BY <1>4, <5>2, <5>3
        <5>5. PICK t \in Scope : i = realm[t][l]
          BY <1>5, <3>2, LookupFacts
        <5>6. i # NoImpl
          BY <3>1
        <5> HIDE DEF i
        <5> QED
          BY <1>5, <3>2, <3>5, <5>2, <5>4, <5>5, <5>6 DEF DistinctIds
      <4>2. CASE computeEpoch(plugin, new, q) # Inactive
        <5>1. /\ computeEpoch(plugin, new, q) = {j.id : j \in Found(new, q)}
              /\ \A j \in Found(new, q) : j # NoImpl
          BY <1>4, <1>5, <4>2, EpochFacts
        <5>2. i.id \notin computeEpoch(plugin, new, q) /\ i.id \in plugin[q].epoch
          BY <3>1, <4>1, <5>1
        <5> QED
          BY <5>2
      <4> QED
        BY <3>3, <4>2
    <3> QED
      BY <3>4, <3>5
  <2> QED
    BY <2>2, <2>3
<1>10. \A q \in Instance : Staged(plugin[q])
  BY <1>5 DEF OwnIn
<1>11. ChainIn(notify(plugin, new), new)
  BY <1>4, <1>5, <1>9, <1>10, NotifyChain
<1>12. OwnIn(notify(plugin, new), new, effectsOf', awaitedBy')
  BY <1>8, NotifyOwn
<1> QED
  BY <1>2, <1>11, <1>12 DEF KInv, ScopesTyped

-----------------------------------------------------------------------------
(* Providing.                                                               *)

LEMMA MinOn ==
  ASSUME NEW S, S \subseteq Nat, S # {}
  PROVE  Min(S) \in S
<1>1. PICK x \in S : \A y \in S : <<y, x>> \notin OpToRel(<, Nat)
  BY WFMin, NatLessThanWellFounded
<1>2. \A y \in S : ~(y < x)
  BY <1>1 DEF OpToRel
<1>3. \A y \in S : x <= y
  BY <1>2
<1> QED
  BY <1>3 DEF Min

(* An id of nothing that is left.                                           *)
LEMMA FreshId ==
  ASSUME NEW P \in Plugins, NEW R \in Realms
  PROVE  /\ mintId(P, R) \in Nat \ {0}
         /\ \A s \in Scope, k \in Key : R[s][k].id # mintId(P, R)
<1> DEFINE eachOf == {P[p].epoch \union P[p].under : p \in Instance}
           ids == {R[s][k].id : s \in Scope, k \in Key}
           seen == UNION eachOf
           used == seen \union ids
           n == Cardinality(used)
           free == (1 .. n + 1) \ used
<1>1. mintId(P, R) = Min(free)
  BY DEF mintId
<1>2. IsFiniteSet(seen)
  <2> DEFINE f == [p \in Instance |-> P[p].epoch \union P[p].under]
  <2>1. f = [p \in Instance |-> f[p]] /\ eachOf = {f[p] : p \in Instance}
    OBVIOUS
  <2>2. \A p \in Instance : IsFiniteSet(P[p].epoch) /\ IsFiniteSet(P[p].under)
    BY DEF Plugins, PluginType, Epochs
  <2>3. \A T \in eachOf : IsFiniteSet(T)
    BY <2>2, FS_Union
  <2> HIDE DEF f, eachOf
  <2>4. IsFiniteSet(eachOf)
    BY <2>1, KernelAssumption, ImageIsFinite
  <2> QED
    BY <2>3, <2>4, FS_UNION
<1>3. IsFiniteSet(ids)
  <2> DEFINE f == [s \in Scope |-> {R[s][k].id : k \in Key}]
             all == {f[s] : s \in Scope}
  <2>1. \A s \in Scope : IsFiniteSet(f[s])
    <3> SUFFICES ASSUME NEW s \in Scope PROVE IsFiniteSet({R[s][k].id : k \in Key})
      OBVIOUS
    <3> DEFINE g == [k \in Key |-> R[s][k].id]
               image == {g[k] : k \in Key}
    <3>1. g = [k \in Key |-> g[k]] /\ {R[s][k].id : k \in Key} = image
      OBVIOUS
    <3> HIDE DEF g
    <3>2. IsFiniteSet(image)
      BY <3>1, KernelAssumption, ImageIsFinite
    <3> HIDE DEF image
    <3> QED
      BY <3>1, <3>2
  <2>2. f = [s \in Scope |-> f[s]]
    OBVIOUS
  <2>3. ids = UNION all
    OBVIOUS
  <2>4. \A T \in all : IsFiniteSet(T)
    BY <2>1
  <2> HIDE DEF f, ids
  <2>5. IsFiniteSet(all)
    BY <2>2, KernelAssumption, ImageIsFinite
  <2> QED
    BY <2>3, <2>4, <2>5, FS_UNION
<1>4. \A s \in Scope, k \in Key : R[s][k].id \in ids
  OBVIOUS
<1> HIDE DEF seen, ids
<1>5. IsFiniteSet(used) /\ \A s \in Scope, k \in Key : R[s][k].id \in used
  BY <1>2, <1>3, <1>4, FS_Union
<1> HIDE DEF used
<1>9. n \in Nat
  BY <1>5, FS_CardinalityType
<1>6. free # {}
  <2> SUFFICES ASSUME 1 .. n + 1 \subseteq used PROVE FALSE
    OBVIOUS
  <2>1. Cardinality(1 .. n + 1) = n + 1
    BY <1>9, FS_Interval
  <2>2. Cardinality(1 .. n + 1) <= n
    BY <1>5, FS_Subset
  <2> QED
    BY <1>9, <2>1, <2>2
<1>7. free \subseteq Nat \ {0}
  BY <1>9
<1> HIDE DEF n
<1>8. Min(free) \in free
  BY <1>6, <1>7, MinOn
<1> QED
  BY <1>1, <1>5, <1>7, <1>8

LEMMA Provides ==
  ASSUME KInv, NEW p \in Instance, Provide(p)
  PROVE  KInv'
<1> DEFINE was == plugin[p]
           k == Gives[p]
           h == Home[p]
           impl == [by |-> p, id |-> mintId(plugin, realm)]
           new == [realm EXCEPT ![h][k] = impl]
           me == [was EXCEPT !.run = "provided"]
           P == Moved(p, me)
           lists == [effectsOf EXCEPT ![p] = Append(@, Provided(k))]
<1>1. /\ was.run = "apply" /\ k \in Key /\ h \in Scope /\ p \in EffectOwner /\ p \notin Scope
  BY KernelFacts DEF Provide
<1>2. /\ was \in PluginType /\ Staged(was) /\ was.queue \in Seq(Tasks) /\ plugin \in Plugins
      /\ was.failed \in BOOLEAN /\ realm \in Realms /\ OwnIn(plugin, realm, effectsOf, awaitedBy)
      /\ ChainIn(plugin, realm)
  BY TheyAre DEF KInv
<1>3. CASE ~(admit(plugin, scope, p) /\ realm[h][k] = NoImpl)
  BY <1>1, <1>3, FailKeeps DEF Provide
<1>4. CASE admit(plugin, scope, p) /\ realm[h][k] = NoImpl
  <2>1. realm' = new /\ effectsOf' = lists /\ UNCHANGED <<scope, awaitedBy>>
    BY <1>4 DEF Provide
  <2>2. plugin' = notify(P, new)
    <3>1. [plugin EXCEPT ![p].run = "provided"] = P
      BY <1>2 DEF Moved, Plugins
    <3> HIDE DEF P
    <3> QED
      BY <1>4, <3>1 DEF Provide
  <2>3. OwnIn(plugin, realm, lists, awaitedBy)
    <3>1. Provided(k) \in Effect /\ Listed(p, Provided(k))
      BY <1>1, RecordsAre DEF Listed, Provided
    <3> QED
      BY <1>1, <1>2, <3>1, ListGrows
  <2>4. impl \in Impl /\ impl.by = p /\ \A s \in Scope, l \in Key : realm[s][l].id # impl.id
    BY <1>2, FreshId DEF Impl
  <2>5. Provided(k) \in ToSet(lists[p])
    <3>1. effectsOf \in [EffectOwner -> Seq(Effect)] /\ Provided(k) \in Effect
      BY <1>1, <1>2, RecordsAre DEF OwnIn
    <3>2. lists[p] = Append(effectsOf[p], Provided(k))
      BY <1>1, <3>1
    <3> QED
      BY <1>1, <3>1, <3>2, AppendOn
  <2> HIDE DEF impl, lists
  <2>6. new \in Realms
        /\ \A s \in Scope, l \in Key : new[s][l] = IF s = h /\ l = k THEN impl ELSE realm[s][l]
    BY <1>1, <1>2, <2>4 DEF Realms
  <2> HIDE DEF was
  <2>7. /\ me \in PluginType /\ me.mounted = was.mounted /\ me.state = was.state /\ me.run = "provided"
        /\ (me.failed <=> was.failed) /\ me.queue = was.queue /\ me.epoch = was.epoch
        /\ me.under = was.under
    BY <1>2 DEF PluginType
  <2> HIDE DEF me
  <2>8. Staged(me) /\ me.state = "loading"
    BY <1>1, <1>2, <2>7 DEF Staged, Tasked
  <2>9. /\ P \in Plugins /\ P[p] = me /\ \A q \in Instance : q # p => P[q] = plugin[q]
    BY <1>2, <2>7, MovedFacts
  <2> HIDE DEF P, new
  <2>10. /\ \A q \in Instance : P[q].state = plugin[q].state /\ P[q].mounted = plugin[q].mounted
         /\ \A q \in Instance : P[q].epoch = plugin[q].epoch
         /\ \A q \in Instance : Staged(P[q])
    BY <1>2, <2>7, <2>8, <2>9 DEF OwnIn, was
  <2>11. OwnIn(P, new, lists, awaitedBy)
    <3>1. ASSUME NEW s \in Scope, NEW l \in Key PROVE ServiceIn(P, new, lists, s, l)
      <4>1. CASE s = h /\ l = k
        BY <2>4, <2>5, <2>6, <2>8, <2>9, <4>1 DEF ServiceIn, Serving
      <4>2. CASE ~(s = h /\ l = k)
        <5>1. new[s][l] = realm[s][l] /\ ServiceIn(plugin, realm, lists, s, l)
              /\ realm[s][l] \in Impl \union {NoImpl}
          BY <1>2, <2>3, <2>6, <4>2 DEF OwnIn, Realms
        <5> QED
          BY <2>10, <5>1 DEF ServiceIn, Impl
      <4> QED
        BY <4>1, <4>2
    <3>2. DistinctIds(new)
      <4>1. DistinctIds(realm)
        BY <1>2 DEF OwnIn
      <4> QED
        BY <2>4, <2>6, <4>1 DEF DistinctIds
    <3>3. \A q \in Instance : KeptIn(P, lists, awaitedBy, q)
      BY <2>3, <2>10 DEF OwnIn, KeptIn
    <3> QED
      BY <2>3, <2>6, <2>9, <2>10, <3>1, <3>2, <3>3 DEF OwnIn
  <2>12. ASSUME NEW q \in Instance, P[q].mounted = "yes", ~P[q].failed
         PROVE  computeEpoch(P, new, q) # P[q].epoch \/ Ends(P[q], FALSE)
    <3>1. CASE Stale(plugin, realm, q)
      <4>1. PICK l \in Needs[q] : LET i == Lookup(realm, q, l)
                                  IN  i # NoImpl /\ Doomed(plugin[i.by]) /\ i.id \in plugin[q].epoch
        BY <3>1 DEF Stale
      <4> DEFINE i == Lookup(realm, q, l)
                 j == Lookup(new, q, l)
      <4>2. l \in Key /\ i \in Impl /\ Home[q] \in Scope /\ Root \in Scope
        BY <1>2, <4>1, KernelFacts, LookupFacts
      <4>3. j = i \/ j = impl
        <5>1. /\ new[Home[q]][l] = realm[Home[q]][l] \/ (realm[Home[q]][l] = NoImpl /\ new[Home[q]][l] = impl)
              /\ new[Root][l] = realm[Root][l] \/ (realm[Root][l] = NoImpl /\ new[Root][l] = impl)
          BY <1>4, <2>6, <4>2
        <5>2. impl # NoImpl
          BY <2>4, KernelFacts
        <5> QED
          BY <4>1, <5>1, <5>2 DEF Lookup
      <4>4. P[j.by].state # "active"
        <5>1. P[i.by].state # "active"
          BY <2>10, <4>1, <4>2 DEF Doomed, Impl
        <5>2. P[impl.by].state # "active"
          BY <2>4, <2>8, <2>9
        <5> HIDE DEF i, j
        <5> QED
          BY <4>3, <5>1, <5>2
      <4>5. computeEpoch(P, new, q) = Inactive
        <5>1. j \in Found(new, q)
          BY DEF Found
        <5> HIDE DEF j
        <5> QED
          BY <2>6, <2>9, <4>4, <5>1, EpochFacts
      <4>6. plugin[q].epoch # Inactive
        BY <1>2, <3>1, StaleDiffers
      <4> QED
        BY <2>10, <4>5, <4>6
    <3>2. CASE ~Stale(plugin, realm, q)
      <4>1. plugin[q].mounted = "yes" /\ ~plugin[q].failed
        BY <1>2, <2>7, <2>9, <2>10, <2>12 DEF was
      <4>2. Ends(plugin[q], FALSE)
        <5>1. Ends(plugin[q], Stale(plugin, realm, q)) /\ Stale(plugin, realm, q) \in BOOLEAN
          BY <1>2, <4>1 DEF ChainIn, EndsIn, Stale
        <5> QED
          BY <3>2, <5>1, EndsMore
      <4>3. CASE q # p
        BY <2>9, <4>2, <4>3
      <4>4. CASE q = p
        <5>1. Ends(was, FALSE)
          BY <4>2, <4>4 DEF was
        <5>2. Ends(me, FALSE)
          BY <1>1, <2>7, <5>1 DEF Ends, was
        <5> QED
          BY <2>9, <4>4, <5>2
      <4> QED
        BY <4>3, <4>4
    <3> QED
      BY <3>1, <3>2
  <2>13. ChainIn(notify(P, new), new)
    BY <2>6, <2>9, <2>10, <2>12, NotifyChain
  <2>14. OwnIn(notify(P, new), new, lists, awaitedBy)
    BY <2>11, NotifyOwn
  <2> QED
    BY <2>1, <2>2, <2>13, <2>14 DEF KInv, ScopesTyped
<1> QED
  BY <1>3, <1>4

-----------------------------------------------------------------------------
(* Mounting.                                                                *)

LEMMA Mounts ==
  ASSUME KInv, NEW p \in Instance, Mount(p)
  PROVE  KInv'
<1> DEFINE was == plugin[p]
           on == [was EXCEPT !.mounted = "yes"]
           P == Moved(p, on)
           me == refresh(P, realm, p)
           Q == Moved(p, me)
           next == computeEpoch(P, realm, p)
           lists == [effectsOf EXCEPT ![Owner[p]] = Append(@, Mounted(p))]
<1>1. /\ was \in PluginType /\ Staged(was) /\ plugin \in Plugins /\ realm \in Realms
      /\ was.mounted = "no" /\ OwnIn(plugin, realm, effectsOf, awaitedBy) /\ ChainIn(plugin, realm)
  BY TheyAre DEF KInv, Mount
<1>2. was.state = "pending" /\ was.run = "idle" /\ was.queue = <<>> /\ was.epoch = Never
  BY <1>1 DEF Staged
<1>3. effectsOf' = lists /\ UNCHANGED <<realm, scope, awaitedBy>>
  BY DEF Mount
<1>4. plugin' = Q
  <2>1. [plugin EXCEPT ![p].mounted = "yes"] = P
    BY <1>1 DEF Moved, Plugins
  <2>2. plugin' = [P EXCEPT ![p] = me]
    <3> HIDE DEF P
    <3> QED
      BY <2>1 DEF Mount
  <2> QED
    BY <1>1, <2>2 DEF Moved, Plugins
<1> HIDE DEF was
<1>5. /\ on \in PluginType /\ on.mounted = "yes" /\ on.state = "pending" /\ on.run = "idle"
      /\ on.queue = <<>> /\ on.epoch = Never /\ (on.failed <=> was.failed)
  BY <1>1, <1>2 DEF PluginType
<1> HIDE DEF on
<1>6. P \in Plugins /\ P[p] = on /\ \A q \in Instance : q # p => P[q] = plugin[q]
  BY <1>1, <1>5, MovedFacts
<1> HIDE DEF P
<1>7. next # Never
  BY <1>1, <1>6, EpochFacts
<1>8. /\ me \in PluginType /\ me.mounted = "yes" /\ me.run = "idle" /\ me.state = "pending"
      /\ me.epoch = next
      /\ "dispose" \in Tasked(me) <=> "dispose" \in Tasked(on)
      /\ IF next = Inactive THEN me.queue = <<>>
         ELSE me.queue # <<>> /\ (Last(me.queue) = "unload" <=> next = Inactive)
  BY <1>1, <1>5, <1>6, <1>7, RefreshFacts
<1> HIDE DEF me, next
<1>9. "dispose" \notin Tasked(me)
  <2>1. ToSet(on.queue) = {}
    <3>1. on.queue \in Seq(Tasks)
      BY <1>5 DEF PluginType
    <3> QED
      BY <1>5, <3>1, NoneOn
  <2> QED
    BY <1>8, <2>1 DEF Tasked
<1>10. Staged(me)
  BY <1>7, <1>8, <1>9 DEF Staged
<1>11. \A stale \in BOOLEAN : Ends(me, stale)
  BY <1>8 DEF Ends
<1>12. Q \in Plugins /\ Q[p] = me /\ \A q \in Instance : q # p => Q[q] = plugin[q]
  BY <1>1, <1>8, MovedFacts
<1> HIDE DEF Q
<1>13. /\ \A q \in Instance : Q[q].state = plugin[q].state /\ (Doomed(Q[q]) <=> Doomed(plugin[q]))
       /\ \A q \in Instance : Q[q].state = P[q].state
  <2>1. Q[p].state = plugin[p].state /\ P[p].state = Q[p].state /\ ~Doomed(Q[p]) /\ ~Doomed(plugin[p])
    BY <1>2, <1>5, <1>6, <1>8, <1>12 DEF Doomed, was
  <2> QED
    BY <1>6, <1>12, <2>1
<1>14. \A q \in Instance : computeEpoch(Q, realm, q) = computeEpoch(plugin, realm, q)
  BY <1>1, <1>12, <1>13, EpochAlike
<1>15. computeEpoch(Q, realm, p) = next
  BY <1>1, <1>6, <1>12, <1>13, EpochAlike DEF next
<1>16. \A q \in Instance : q # p => (Stale(Q, realm, q) <=> Stale(plugin, realm, q))
  <2> SUFFICES ASSUME NEW q \in Instance, q # p PROVE Stale(Q, realm, q) <=> Stale(plugin, realm, q)
    OBVIOUS
  <2>1. \A i \in Found(realm, q) : i # NoImpl => i.by \in Instance
    BY FoundServes
  <2> QED
    BY <1>1, <1>12, <1>13, <2>1, StaleFinds
<1>17. ChainIn(Q, realm)
  <2>1. ASSUME NEW q \in Instance PROVE ToldIn(Q, realm, q) /\ EndsIn(Q, realm, q)
    <3>1. CASE q = p
      <4>1. Stale(Q, realm, q) \in BOOLEAN
        BY DEF Stale
      <4> QED
        BY <1>8, <1>11, <1>12, <1>15, <3>1, <4>1 DEF ToldIn, EndsIn
    <3>2. CASE q # p
      <4>1. ToldIn(plugin, realm, q) /\ EndsIn(plugin, realm, q) /\ Q[q] = plugin[q]
        BY <1>1, <1>12, <3>2 DEF ChainIn
      <4>2. /\ Stale(Q, realm, q) \in BOOLEAN /\ Stale(plugin, realm, q) \in BOOLEAN
            /\ Stale(Q, realm, q) <=> Stale(plugin, realm, q)
        BY <1>16, <3>2 DEF Stale
      <4>3. EndsIn(Q, realm, q)
        BY <4>1, <4>2, EndsMore DEF EndsIn
      <4> QED
        BY <1>14, <4>1, <4>2, <4>3 DEF ToldIn
    <3> QED
      BY <3>1, <3>2
  <2> QED
    BY <2>1 DEF ChainIn
<1>18. OwnIn(plugin, realm, lists, awaitedBy) /\ Mounted(p) \in ToSet(lists[Owner[p]])
  <2>1. Mounted(p) \in Effect /\ Listed(Owner[p], Mounted(p)) /\ Owner[p] \in EffectOwner
    BY RecordsAre, KernelFacts DEF Listed, Mounted
  <2>2. effectsOf \in [EffectOwner -> Seq(Effect)]
    BY <1>1 DEF OwnIn
  <2>3. lists[Owner[p]] = Append(effectsOf[Owner[p]], Mounted(p))
    BY <2>1, <2>2
  <2>4. Mounted(p) \in ToSet(lists[Owner[p]])
    BY <2>1, <2>2, <2>3, AppendOn
  <2> QED
    BY <1>1, <2>1, <2>4, ListGrows
<1> HIDE DEF lists
<1>19. OwnIn(Q, realm, lists, awaitedBy)
  <2>1. \A q \in Instance : Staged(Q[q])
    BY <1>10, <1>12, <1>18 DEF OwnIn
  <2>2. ASSUME NEW s \in Scope, NEW k \in Key PROVE ServiceIn(Q, realm, lists, s, k)
    <3>1. ServiceIn(plugin, realm, lists, s, k) /\ realm[s][k] \in Impl \union {NoImpl}
      BY <1>1, <1>18 DEF OwnIn, Realms
    <3> QED
      BY <1>13, <3>1 DEF ServiceIn, Impl
  <2>3. ASSUME NEW q \in Instance PROVE KeptIn(Q, lists, awaitedBy, q)
    BY <1>12, <1>18 DEF OwnIn, KeptIn
  <2> QED
    BY <1>12, <1>18, <2>1, <2>2, <2>3 DEF OwnIn
<1> QED
  BY <1>3, <1>4, <1>17, <1>19 DEF KInv, ScopesTyped

-----------------------------------------------------------------------------
(* The invariant of the kernel.                                             *)

LEMMA KernelInit == ASSUME KInit PROVE KInv
<1> DEFINE fresh == [mounted |-> "no", state |-> "pending", epoch |-> Never,
                     queue |-> <<>>, run |-> "idle", under |-> Never, failed |-> FALSE]
<1>1. /\ plugin = [p \in Instance |-> fresh]
      /\ realm = [s \in Scope |-> [k \in Key |-> NoImpl]]
      /\ scope = [s \in Scope |-> IF s = Root THEN "open" ELSE "none"]
      /\ effectsOf = [o \in EffectOwner |-> <<>>]
      /\ awaitedBy = [o \in EffectOwner |-> Absent]
  BY DEF KInit
<1>2. <<>> \in Seq(Tasks) /\ <<>> \in Seq(Effect)
  BY EmptySeq
<1>3. fresh \in PluginType /\ fresh.mounted = "no" /\ Staged(fresh)
  <2>1. ToSet(fresh.queue) = {}
    BY <1>2, NoneOn
  <2>2. fresh \in PluginType
    BY <1>2, EpochsDiffer DEF PluginType
  <2> QED
    BY <2>1, <2>2 DEF Staged, Tasked
<1> HIDE DEF fresh
<1>4. plugin \in Plugins /\ \A p \in Instance : plugin[p] = fresh
  BY <1>1, <1>3 DEF Plugins
<1>5. realm \in Realms /\ \A s \in Scope, k \in Key : realm[s][k] = NoImpl
  BY <1>1 DEF Realms
<1>6. ScopesTyped
  BY <1>1 DEF ScopesTyped
<1>7. OwnIn(plugin, realm, effectsOf, awaitedBy)
  <2>1. effectsOf \in [EffectOwner -> Seq(Effect)] /\ awaitedBy \in [EffectOwner -> EffectOwner \union {Absent}]
    BY <1>1, <1>2
  <2>2. \A o \in EffectOwner : ToSet(effectsOf[o]) = {}
    BY <1>1, <1>2, NoneOn
  <2>3. DistinctIds(realm)
    BY <1>5 DEF DistinctIds
  <2> QED
    BY <1>3, <1>4, <1>5, <2>1, <2>2, <2>3 DEF OwnIn, ServiceIn, KeptIn
<1>8. ChainIn(plugin, realm)
  BY <1>3, <1>4 DEF ChainIn, ToldIn, EndsIn
<1> QED
  BY <1>6, <1>7, <1>8 DEF KInv

LEMMA PopKeeps ==
  ASSUME KInv, NEW o \in EffectOwner, PopEffect(o)
  PROVE  KInv'
  BY PopIs, MountPops, ScopePops, ProvidePops

LEMMA KernelSteps == ASSUME KInv, [KNext]_kvars PROVE KInv'
<1>1. CASE UNCHANGED kvars
  BY <1>1 DEF kvars, KInv, ScopesTyped
<1>2. CASE Composition
  BY <1>2, Mounts, DisposesHandle, Throws, Opens, Closes DEF Composition
<1>3. ASSUME NEW p \in Instance, Task(p) PROVE KInv'
  BY <1>3, LoadStarts, UnloadStarts, ReloadStarts, DisposeStarts, Rechecks, Provides, Applies,
     EndsUnwind, Releases DEF Task
<1>4. ASSUME NEW o \in EffectOwner, Unwind(o) PROVE KInv'
  BY <1>4, PopKeeps, ScopeCloses DEF Unwind
<1> QED
  BY <1>1, <1>2, <1>3, <1>4 DEF KNext, KernelStep

(* What the kernel keeps, whatever the plugins mount, provide and need.     *)
THEOREM KernelInvariance == KSpec => []KInv
<1>1. KInit => KInv
  BY KernelInit
<1>2. KInv /\ [KNext]_kvars => KInv'
  BY KernelSteps
<1> QED
  BY <1>1, <1>2, PTL DEF KSpec

LEMMA NothingFromKInv == ASSUME KInv PROVE NothingStranded
<1>1. OwnIn(plugin, realm, effectsOf, awaitedBy)
  BY DEF KInv
<1>2. \A o \in EffectOwner : \A r : Contains(effectsOf[o], r) <=> r \in ToSet(effectsOf[o])
  BY <1>1, ContainsOn DEF OwnIn
<1>3. ASSUME NEW s \in Scope, NEW k \in Key, realm[s][k] # NoImpl
      PROVE  /\ plugin[realm[s][k].by].state \in {"loading", "active", "unloading"}
             /\ Contains(effectsOf[realm[s][k].by], Provided(k))
  <2>1. ServiceIn(plugin, realm, effectsOf, s, k) /\ realm[s][k] \in Impl
    BY <1>1, <1>3 DEF OwnIn, Realms
  <2>2. realm[s][k].by \in EffectOwner
    BY <2>1, KernelFacts DEF Impl
  <2> QED
    BY <1>2, <1>3, <2>1, <2>2 DEF ServiceIn, Serving
<1>4. EveryServiceIsOwned
  BY <1>3 DEF EveryServiceIsOwned
<1>5. OwnedUntilGone
  BY <1>1, <1>2, KernelFacts DEF OwnIn, KeptIn, OwnedUntilGone
<1> QED
  BY <1>4, <1>5 DEF NothingStranded

(* No service without a provider that takes it out, no mount without an     *)
(* owner that unwinds it.                                                   *)
THEOREM NothingIsStranded == KSpec => []NothingStranded
<1>1. KInv => NothingStranded
  BY NothingFromKInv
<1> QED
  BY <1>1, KernelInvariance, PTL

LEMMA HonouredFromKInv == ASSUME KInv PROVE EpochIsHonoured
<1> SUFFICES ASSUME NEW p \in Instance,
                    plugin[p].mounted = "yes", ~plugin[p].failed, Idle(p)
             PROVE  LET me == plugin[p]
                        now == computeEpoch(plugin, realm, p)
                    IN  /\ me.epoch = now => me.state = IF now = Inactive THEN "pending" ELSE "active"
                        /\ me.state = "active" => me.under = me.epoch
                        /\ Quiet => me.epoch = now
  BY DEF EpochIsHonoured
<1> DEFINE me == plugin[p]
           now == computeEpoch(plugin, realm, p)
           stale == Stale(plugin, realm, p)
<1>1. plugin \in Plugins /\ realm \in Realms /\ ToldIn(plugin, realm, p) /\ EndsIn(plugin, realm, p)
  BY TheyAre
<1>2. me.queue = <<>> /\ me.run = "idle"
  BY DEF Idle
<1>3. IF me.epoch = Inactive THEN me.state = "pending"
      ELSE \/ me.state = "active" /\ me.under = me.epoch
           \/ me.state = "pending" /\ stale
  BY <1>1, <1>2 DEF EndsIn, Ends
<1>4. stale => now = Inactive /\ me.epoch # Inactive
  BY <1>1, StaleDiffers
<1>5. me.epoch = now \/ stale
  BY <1>1 DEF ToldIn
<1>6. Quiet => ~stale
  <2> SUFFICES ASSUME Quiet, stale PROVE FALSE
    OBVIOUS
  <2>1. PICK i \in Found(realm, p) : i # NoImpl /\ Doomed(plugin[i.by])
    BY <1>1, StaleFinds
  <2>2. i.by \in Instance /\ Serves(i.by)
    BY <2>1, FoundServes
  <2>3. plugin[i.by].run = "idle" /\ plugin[i.by].queue = <<>> /\ Staged(plugin[i.by])
        /\ plugin[i.by].queue \in Seq(Tasks)
    BY <2>2, TheyAre DEF Quiet, Idle
  <2>4. Tasked(plugin[i.by]) = {}
    BY <2>3, NoneOn DEF Tasked
  <2> QED
    BY <2>1, <2>3, <2>4 DEF Staged, Doomed
<1> HIDE DEF me, now, stale
<1>7. me.epoch = now => ~stale
  BY <1>4
<1>8. /\ me.epoch = now => me.state = IF now = Inactive THEN "pending" ELSE "active"
      /\ me.state = "active" => me.under = me.epoch
      /\ Quiet => me.epoch = now
  BY <1>3, <1>5, <1>6, <1>7
<1> QED
  BY <1>8 DEF me, now

(* Waiting, unload-on-loss and reload-on-swap are honoured.                 *)
THEOREM EpochsHonoured == KSpec => []EpochIsHonoured
<1>1. KInv => EpochIsHonoured
  BY HonouredFromKInv
<1> QED
  BY <1>1, KernelInvariance, PTL
=============================================================================
