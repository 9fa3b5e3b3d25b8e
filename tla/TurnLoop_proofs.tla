-------------------------- MODULE TurnLoop_proofs --------------------------
(***************************************************************************)
(* That the durable inbox of an agent loses nothing and stays sound, for   *)
(* any messages, any bound on steps, lives and cancels: an accepted        *)
(* message nobody withdrew is in the history or in what a resume restores, *)
(* and what a resume restores is what the live queues hold.                *)
(*                                                                         *)
(* Neither is inductive.  Both speak of moments when no segment is half    *)
(* written; a step of the invariant must speak of the others too.  What a  *)
(* running segment still has to append is the script of a plan: a claim,   *)
(* a clear, messages put back, messages entered, a claim (Plans, Writes).  *)
(* Each record appended leaves a shorter plan with the same end            *)
(* (PlanAdvances), so the invariant is told of that end: the fold d and    *)
(* the history en once the plan is written (Ahead).  Of them it says that  *)
(* a message is in one place (FoldInv), what the batch of the pre-step     *)
(* await is of the fold (ClaimInv), that the live queues are what the claim*)
(* leaves (LiveInv), and that nothing is lost (Kept); Ctl is where the     *)
(* driver may stand.  It holds until a known gap is met (Sound), as the    *)
(* properties do.  Sequences come first: what a queue holds, that it holds *)
(* it once, and what is picked out of it in order (Only).                  *)
(***************************************************************************)
EXTENDS TurnLoop, FiniteSetTheorems, SequenceTheorems, TLAPS

(* No message twice.                                                        *)
Once(s) == \A i, j \in DOMAIN s : s[i] = s[j] => i = j

-----------------------------------------------------------------------------
(* Sequences: what they hold, and that they hold it once.                   *)

LEMMA Nothing == \A S : <<>> \in Seq(S) /\ Len(<<>>) = 0 /\ ToSet(<<>>) = {} /\ Once(<<>>)
  BY DEF ToSet, Once

LEMMA Places ==
  ASSUME NEW S, NEW s \in Seq(S)
  PROVE  /\ Len(s) \in Nat /\ DOMAIN s = 1..Len(s) /\ ToSet(s) \subseteq S
         /\ \A x : x \in ToSet(s) <=> \E i \in 1..Len(s) : s[i] = x
         /\ s = <<>> <=> ToSet(s) = {}
<1>1. Len(s) \in Nat /\ DOMAIN s = 1..Len(s) /\ \A i \in 1..Len(s) : s[i] \in S
  BY LenProperties, ElementOfSeq
<1>2. \A x : x \in ToSet(s) <=> \E i \in 1..Len(s) : s[i] = x
  BY <1>1 DEF ToSet
<1>3. s # <<>> => 1 \in 1..Len(s)
  BY <1>1, EmptySeq
<1>4. s = <<>> => ToSet(s) = {}
  BY Nothing
<1> QED
  BY <1>1, <1>2, <1>3, <1>4

LEMMA AppendFacts ==
  ASSUME NEW S, NEW s \in Seq(S), NEW x \in S
  PROVE  /\ Append(s, x) \in Seq(S) /\ Len(Append(s, x)) = Len(s) + 1
         /\ ToSet(Append(s, x)) = ToSet(s) \union {x}
         /\ Once(s) /\ x \notin ToSet(s) => Once(Append(s, x))
<1> DEFINE r == Append(s, x)
           n == Len(s)
<1>1. r \in Seq(S) /\ Len(r) = n + 1 /\ n \in Nat /\ DOMAIN s = 1..n /\ DOMAIN r = 1..(n + 1)
  BY LenProperties, AppendProperties
<1>2. (\A i \in 1..n : r[i] = s[i]) /\ r[n + 1] = x
  BY AppendProperties
<1>3. \A i : i \in 1..(n + 1) <=> i \in 1..n \/ i = n + 1
  BY <1>1
<1> HIDE DEF r, n
<1>4. ToSet(r) = ToSet(s) \union {x}
  BY <1>1, <1>2, <1>3 DEF ToSet
<1>5. Once(s) /\ x \notin ToSet(s) => Once(r)
  BY <1>1, <1>2, <1>3 DEF ToSet, Once
<1> QED
  BY <1>1, <1>4, <1>5 DEF r, n

LEMMA ConcatFacts ==
  ASSUME NEW S, NEW s \in Seq(S), NEW t \in Seq(S)
  PROVE  /\ s \o t \in Seq(S) /\ Len(s \o t) = Len(s) + Len(t)
         /\ ToSet(s \o t) = ToSet(s) \union ToSet(t)
         /\ Once(s) /\ Once(t) /\ ToSet(s) \intersect ToSet(t) = {} => Once(s \o t)
         /\ Once(s \o t) => Once(s) /\ Once(t) /\ ToSet(s) \intersect ToSet(t) = {}
<1> DEFINE r == s \o t
           n == Len(s)
           m == Len(t)
<1>1. /\ r \in Seq(S) /\ n \in Nat /\ m \in Nat /\ Len(r) = n + m
      /\ DOMAIN s = 1..n /\ DOMAIN t = 1..m /\ DOMAIN r = 1..(n + m)
  BY LenProperties, ConcatProperties
<1>2. \A i \in 1..(n + m) : r[i] = IF i <= n THEN s[i] ELSE t[i - n]
  BY <1>1, ConcatProperties
<1>3. \A i \in 1..n : i \in 1..(n + m) /\ r[i] = s[i]
  BY <1>1, <1>2
<1>4. \A i \in 1..m : n + i \in 1..(n + m) /\ r[n + i] = t[i]
  BY <1>1, <1>2
<1>5. \A k \in 1..(n + m) : (k \in 1..n /\ r[k] = s[k])
                            \/ \E i \in 1..m : k = n + i /\ r[k] = t[i]
  <2> SUFFICES ASSUME NEW k \in 1..(n + m), ~(k <= n)
               PROVE  \E i \in 1..m : k = n + i /\ r[k] = t[i]
    BY <1>1, <1>2
  <2>1. k - n \in 1..m /\ k = n + (k - n) /\ r[k] = t[k - n]
    BY <1>1, <1>2
  <2> QED
    BY <2>1
<1>6. \A i \in 1..n, j \in 1..m : i # n + j
  BY <1>1
<1>7. \A i, j \in 1..m : n + i = n + j => i = j
  BY <1>1
<1> HIDE DEF r, n, m
<1>8. ToSet(r) = ToSet(s) \union ToSet(t)
  <2>1. \A k \in 1..(n + m) : r[k] \in ToSet(s) \union ToSet(t)
    BY <1>1, <1>5 DEF ToSet
  <2>2. \A i \in 1..n : s[i] \in ToSet(r)
    BY <1>1, <1>3 DEF ToSet
  <2>3. ASSUME NEW i \in 1..m PROVE t[i] \in ToSet(r)
    <3>1. n + i \in DOMAIN r /\ r[n + i] = t[i]
      BY <1>1, <1>4
    <3> QED
      BY <3>1 DEF ToSet
  <2>4. ToSet(r) \subseteq ToSet(s) \union ToSet(t)
    BY <1>1, <2>1 DEF ToSet
  <2>5. ToSet(s) \subseteq ToSet(r) /\ ToSet(t) \subseteq ToSet(r)
    BY <1>1, <2>2, <2>3 DEF ToSet
  <2> QED
    BY <2>4, <2>5
<1>9. ASSUME Once(s), Once(t), ToSet(s) \intersect ToSet(t) = {} PROVE Once(r)
  <2>1. \A i \in 1..n, j \in 1..m : s[i] # t[j]
    BY <1>1, <1>9 DEF ToSet
  <2>2. SUFFICES ASSUME NEW i \in 1..(n + m), NEW j \in 1..(n + m), r[i] = r[j] PROVE i = j
    BY <1>1 DEF Once
  <2>3. CASE i \in 1..n /\ r[i] = s[i] /\ j \in 1..n /\ r[j] = s[j]
    BY <1>1, <1>9, <2>2, <2>3 DEF Once
  <2>4. CASE (\E k \in 1..m : i = n + k /\ r[i] = t[k]) /\ (\E k \in 1..m : j = n + k /\ r[j] = t[k])
    <3>1. PICK a \in 1..m : i = n + a /\ r[i] = t[a]
      BY <2>4
    <3>2. PICK b \in 1..m : j = n + b /\ r[j] = t[b]
      BY <2>4
    <3>3. a = b
      BY <1>1, <1>9, <2>2, <3>1, <3>2 DEF Once
    <3> QED
      BY <3>1, <3>2, <3>3
  <2> QED
    BY <1>5, <2>1, <2>2, <2>3, <2>4
<1>10. ASSUME Once(r) PROVE Once(s) /\ Once(t) /\ ToSet(s) \intersect ToSet(t) = {}
  <2>1. Once(s)
    BY <1>1, <1>3, <1>10 DEF Once
  <2>2. Once(t)
    BY <1>1, <1>4, <1>7, <1>10 DEF Once
  <2>3. \A i \in 1..n, j \in 1..m : s[i] # t[j]
    BY <1>1, <1>3, <1>4, <1>6, <1>10 DEF Once
  <2>4. ToSet(s) \intersect ToSet(t) = {}
    BY <1>1, <2>3 DEF ToSet
  <2> QED
    BY <2>1, <2>2, <2>4
<1> QED
  BY <1>1, <1>8, <1>9, <1>10 DEF r, n, m

(* The first n of a sequence and the rest.                                  *)
LEMMA FromFacts ==
  ASSUME NEW S, NEW s \in Seq(S), NEW n \in 0..Len(s)
  PROVE  /\ SubSeq(s, 1, n) \in Seq(S) /\ From(s, n) \in Seq(S)
         /\ Len(SubSeq(s, 1, n)) = n /\ Len(From(s, n)) = Len(s) - n
         /\ s = SubSeq(s, 1, n) \o From(s, n)
         /\ n = 0 => From(s, n) = s /\ SubSeq(s, 1, n) = <<>>
         /\ n = Len(s) => From(s, n) = <<>> /\ SubSeq(s, 1, n) = s
<1>1. Len(s) \in Nat /\ n \in Nat /\ n <= Len(s) /\ \A i \in 1..Len(s) : s[i] \in S
  BY LenProperties, ElementOfSeq
<1>2. /\ SubSeq(s, 1, n) \in Seq(S) /\ Len(SubSeq(s, 1, n)) = n
      /\ \A i \in 1..n : SubSeq(s, 1, n)[i] = s[i]
  BY <1>1, SubSeqProperties
<1>3. /\ From(s, n) \in Seq(S) /\ Len(From(s, n)) = Len(s) - n
      /\ \A i \in 1..(Len(s) - n) : From(s, n)[i] = s[n + i]
  <2>1. \A i \in (n + 1)..Len(s) : s[i] \in S
    BY <1>1
  <2>2. /\ From(s, n) \in Seq(S)
        /\ Len(From(s, n)) = IF n + 1 <= Len(s) THEN Len(s) - (n + 1) + 1 ELSE 0
        /\ \A i \in 1..(Len(s) - (n + 1) + 1) : From(s, n)[i] = s[(n + 1) + i - 1]
    BY <1>1, <2>1, SubSeqProperties DEF From
  <2>3. Len(From(s, n)) = Len(s) - n
    BY <1>1, <2>2
  <2>4. ASSUME NEW i \in 1..(Len(s) - n) PROVE From(s, n)[i] = s[n + i]
    <3>1. i \in 1..(Len(s) - (n + 1) + 1) /\ (n + 1) + i - 1 = n + i
      BY <1>1
    <3>2. From(s, n)[i] = s[(n + 1) + i - 1]
      BY <2>2, <3>1
    <3> QED
      BY <3>1, <3>2
  <2> QED
    BY <2>2, <2>3, <2>4
<1>4. s = SubSeq(s, 1, n) \o From(s, n)
  <2> DEFINE u == SubSeq(s, 1, n)
             v == From(s, n)
             w == u \o v
  <2>1. u \in Seq(S) /\ v \in Seq(S) /\ Len(u) = n /\ Len(v) = Len(s) - n
    BY <1>2, <1>3
  <2>2. /\ w \in Seq(S) /\ Len(w) = Len(s)
        /\ \A i \in 1..Len(s) : w[i] = IF i <= n THEN u[i] ELSE v[i - n]
    <3>1. Len(u) + Len(v) = Len(s)
      BY <1>1, <2>1
    <3> QED
      BY <2>1, <3>1, ConcatProperties
  <2>3. ASSUME NEW i \in 1..Len(s) PROVE w[i] = s[i]
    <3>1. CASE i <= n
      BY <1>1, <1>2, <2>2, <3>1
    <3>2. CASE ~(i <= n)
      <4>1. i - n \in 1..(Len(s) - n) /\ n + (i - n) = i
        BY <1>1, <3>2
      <4> QED
        BY <1>3, <2>2, <3>2, <4>1
    <3> QED
      BY <3>1, <3>2
  <2> HIDE DEF w
  <2>4. s = w
    BY <2>2, <2>3, SeqEqual
  <2> QED
    BY <2>4 DEF w
<1>5. n = 0 => From(s, n) = s /\ SubSeq(s, 1, n) = <<>>
  <2>1. SubSeq(s, 1, Len(s)) = s
    BY SubSeqFull
  <2> QED
    BY <1>1, <1>2, <2>1, EmptySeq DEF From
<1>6. n = Len(s) => From(s, n) = <<>> /\ SubSeq(s, 1, n) = s
  <2>1. n = Len(s) => Len(From(s, n)) = 0
    BY <1>1, <1>3
  <2>2. SubSeq(s, 1, Len(s)) = s
    BY SubSeqFull
  <2> QED
    BY <1>3, <2>1, <2>2, EmptySeq
<1> QED
  BY <1>2, <1>3, <1>4, <1>5, <1>6

LEMMA FromSplits ==
  ASSUME NEW S, NEW s \in Seq(S), NEW n \in 0..Len(s)
  PROVE  /\ ToSet(s) = ToSet(SubSeq(s, 1, n)) \union ToSet(From(s, n))
         /\ Once(s) => /\ Once(SubSeq(s, 1, n)) /\ Once(From(s, n))
                       /\ ToSet(SubSeq(s, 1, n)) \intersect ToSet(From(s, n)) = {}
<1> DEFINE u == SubSeq(s, 1, n)
           v == From(s, n)
<1>1. u \in Seq(S) /\ v \in Seq(S) /\ s = u \o v
  BY FromFacts
<1> HIDE DEF u, v
<1>2. /\ ToSet(u \o v) = ToSet(u) \union ToSet(v)
      /\ Once(u \o v) => Once(u) /\ Once(v) /\ ToSet(u) \intersect ToSet(v) = {}
  BY <1>1, ConcatFacts
<1>3. /\ ToSet(s) = ToSet(u) \union ToSet(v)
      /\ Once(s) => Once(u) /\ Once(v) /\ ToSet(u) \intersect ToSet(v) = {}
  BY <1>1, <1>2
<1> QED
  BY <1>3 DEF u, v

(* The front of a longer sequence is the front of its front.                *)
LEMMA FromConcat ==
  ASSUME NEW S, NEW s \in Seq(S), NEW t \in Seq(S), NEW n \in 0..Len(s)
  PROVE  From(s \o t, n) = From(s, n) \o t /\ SubSeq(s \o t, 1, n) = SubSeq(s, 1, n)
<1> DEFINE u == SubSeq(s, 1, n)
           v == From(s, n)
           r == s \o t
           w == v \o t
           a == SubSeq(r, 1, n)
           b == From(r, n)
<1>1. /\ Len(s) \in Nat /\ n \in Nat /\ n <= Len(s) /\ Len(t) \in Nat
      /\ u \in Seq(S) /\ v \in Seq(S) /\ Len(u) = n /\ s = u \o v /\ (n = 0 => u = <<>>)
  BY LenProperties, FromFacts
<1>2. r \in Seq(S) /\ Len(r) = Len(s) + Len(t) /\ n \in 0..Len(r)
  BY <1>1, ConcatFacts
<1>3. r = a \o b /\ a \in Seq(S) /\ b \in Seq(S) /\ Len(a) = n /\ (n = 0 => a = <<>>)
  <2>1. \A q \in Seq(S) : \A k \in 0..Len(q) :
          /\ q = SubSeq(q, 1, k) \o From(q, k)
          /\ SubSeq(q, 1, k) \in Seq(S) /\ From(q, k) \in Seq(S)
          /\ Len(SubSeq(q, 1, k)) = k /\ (k = 0 => SubSeq(q, 1, k) = <<>>)
    BY FromFacts
  <2> HIDE DEF r
  <2> QED
    BY <1>2, <2>1
<1>4. a = u
  <2>1. CASE n = 0
    BY <1>1, <1>3, <2>1
  <2>2. CASE n # 0
    <3>1. 1 \in 1..Len(s) /\ n \in 1..Len(s)
      BY <1>1, <2>2
    <3> QED
      BY <3>1, SubSeqOfConcat1
  <2> QED
    BY <2>1, <2>2
<1>5. w \in Seq(S)
  BY <1>1, ConcatProperties
<1>6. (u \o v) \o t = u \o w
  <2> HIDE DEF u, v
  <2> QED
    BY <1>1, ConcatAssociative
<1>7. b = w
  <2>1. u \o b = u \o w
    <3>1. r = (u \o v) \o t
      BY <1>1
    <3> HIDE DEF u, v, r, w, a, b
    <3> QED
      BY <3>1, <1>3, <1>4, <1>6
  <2> HIDE DEF u, v, r, w, a, b
  <2> QED
    BY <2>1, <1>1, <1>3, <1>5, ConcatSimplifications
<1> QED
  BY <1>4, <1>7

-----------------------------------------------------------------------------
(* Queues of entries: who sent them is a sequence of messages.              *)
LEMMA MessagesFacts ==
  ASSUME NEW q \in Seq(Entry)
  PROVE  /\ Messages(q) \in Seq(Msg) /\ Len(Messages(q)) = Len(q)
         /\ \A i \in 1..Len(q) : Messages(q)[i] = q[i].msg
         /\ \A m : m \in ToSet(Messages(q)) <=> \E e \in ToSet(q) : e.msg = m
         /\ ToSet(Messages(q)) \subseteq Msg
<1>1. Len(q) \in Nat /\ DOMAIN q = 1..Len(q) /\ \A i \in 1..Len(q) : q[i] \in Entry
  BY LenProperties, ElementOfSeq
<1>2. \A i \in 1..Len(q) : q[i].msg \in Msg
  BY <1>1 DEF Entry
<1>3. Messages(q) \in [1..Len(q) -> Msg]
  BY <1>1, <1>2 DEF Messages
<1>4. Messages(q) \in Seq(Msg) /\ Len(Messages(q)) = Len(q)
  BY <1>1, <1>3, SeqDef, LenProperties
<1>5. \A i \in 1..Len(q) : Messages(q)[i] = q[i].msg
  BY <1>1 DEF Messages
<1>6. DOMAIN Messages(q) = 1..Len(q)
  BY <1>3
<1>7. \A m : m \in ToSet(Messages(q)) <=> \E e \in ToSet(q) : e.msg = m
  BY <1>1, <1>5, <1>6 DEF ToSet
<1>8. ToSet(Messages(q)) \subseteq Msg
  BY <1>4, Places
<1> QED
  BY <1>4, <1>5, <1>7, <1>8

LEMMA MessagesConcat ==
  ASSUME NEW q \in Seq(Entry), NEW r \in Seq(Entry)
  PROVE  Messages(q \o r) = Messages(q) \o Messages(r)
<1> DEFINE s == q \o r
           a == Messages(q)
           b == Messages(r)
           c == Messages(s)
           w == a \o b
<1>1. /\ Len(q) \in Nat /\ Len(r) \in Nat /\ s \in Seq(Entry) /\ Len(s) = Len(q) + Len(r)
      /\ \A i \in 1..Len(q) + Len(r) : s[i] = IF i <= Len(q) THEN q[i] ELSE r[i - Len(q)]
  BY LenProperties, ConcatProperties
<1>2. /\ a \in Seq(Msg) /\ Len(a) = Len(q) /\ \A i \in 1..Len(q) : a[i] = q[i].msg
      /\ b \in Seq(Msg) /\ Len(b) = Len(r) /\ \A i \in 1..Len(r) : b[i] = r[i].msg
  BY MessagesFacts
<1>3. c \in Seq(Msg) /\ Len(c) = Len(q) + Len(r) /\ \A i \in 1..Len(q) + Len(r) : c[i] = s[i].msg
  <2> HIDE DEF s
  <2> QED
    BY <1>1, MessagesFacts
<1> HIDE DEF s, a, b, c
<1>4. /\ w \in Seq(Msg) /\ Len(w) = Len(q) + Len(r)
      /\ \A i \in 1..Len(q) + Len(r) : w[i] = IF i <= Len(q) THEN a[i] ELSE b[i - Len(q)]
  <2>0. a \in Seq(Msg) /\ b \in Seq(Msg)
    BY <1>2
  <2>1. /\ w \in Seq(Msg) /\ Len(w) = Len(a) + Len(b)
        /\ \A i \in 1..Len(a) + Len(b) : w[i] = IF i <= Len(a) THEN a[i] ELSE b[i - Len(a)]
    BY <2>0, ConcatProperties
  <2> QED
    BY <2>1, <1>2
<1> HIDE DEF w
<1>5. ASSUME NEW i \in 1..Len(q) + Len(r) PROVE w[i] = c[i]
  <2>1. CASE i <= Len(q)
    <3>1. i \in 1..Len(q)
      BY <1>1, <2>1
    <3> QED
      BY <3>1, <2>1, <1>1, <1>2, <1>3, <1>4
  <2>2. CASE ~(i <= Len(q))
    <3>1. i - Len(q) \in 1..Len(r)
      BY <1>1, <2>2
    <3> QED
      BY <3>1, <2>2, <1>1, <1>2, <1>3, <1>4
  <2> QED
    BY <2>1, <2>2
<1>6. w = c
  BY <1>1, <1>3, <1>4, <1>5, SeqEqual
<1> QED
  BY <1>6 DEF w, a, b, c, s

LEMMA MessagesAppend ==
  ASSUME NEW q \in Seq(Entry), NEW e \in Entry
  PROVE  Messages(Append(q, e)) = Append(Messages(q), e.msg)
<1>1. e.msg \in Msg
  BY DEF Entry
<1>2. <<e>> \in Seq(Entry) /\ Append(q, e) = q \o <<e>>
  BY AppendIsConcat
<1>3. Messages(<<e>>) = <<e.msg>>
  <2> DEFINE x == <<e>>
  <2>1. x \in Seq(Entry) /\ Len(x) = 1 /\ x[1] = e
    BY <1>2
  <2> HIDE DEF x
  <2>0. Messages(x) \in Seq(Msg) /\ Len(Messages(x)) = 1 /\ Messages(x)[1] = e.msg
    BY <2>1, MessagesFacts
  <2>2. Messages(<<e>>) \in Seq(Msg) /\ Len(Messages(<<e>>)) = 1 /\ Messages(<<e>>)[1] = e.msg
    BY <2>0 DEF x
  <2>3. <<e.msg>> \in Seq(Msg) /\ Len(<<e.msg>>) = 1 /\ <<e.msg>>[1] = e.msg
    BY <1>1
  <2>4. \A i \in 1..1 : Messages(<<e>>)[i] = <<e.msg>>[i]
    BY <2>2, <2>3
  <2> QED
    BY <2>2, <2>3, <2>4, SeqEqual
<1>4. Messages(q) \in Seq(Msg)
  BY MessagesFacts
<1>5. Append(Messages(q), e.msg) = Messages(q) \o <<e.msg>>
  BY <1>1, <1>4, AppendIsConcat
<1> QED
  BY <1>2, <1>3, <1>5, MessagesConcat

(* Claiming entries claims their messages.                                  *)
LEMMA MessagesFrom ==
  ASSUME NEW q \in Seq(Entry), NEW n \in 0..Len(q)
  PROVE  /\ Messages(From(q, n)) = From(Messages(q), n)
         /\ Messages(SubSeq(q, 1, n)) = SubSeq(Messages(q), 1, n)
<1> DEFINE u == SubSeq(q, 1, n)
           v == From(q, n)
           a == Messages(u)
           b == Messages(v)
           r == Messages(q)
           c == SubSeq(r, 1, n)
           d == From(r, n)
<1>1. u \in Seq(Entry) /\ v \in Seq(Entry) /\ Len(u) = n /\ q = u \o v
  BY FromFacts
<1>2. r \in Seq(Msg) /\ Len(r) = Len(q) /\ \A i \in 1..Len(q) : r[i] = q[i].msg
  BY MessagesFacts
<1>3. a \in Seq(Msg) /\ b \in Seq(Msg) /\ Len(a) = n
  <2> HIDE DEF u, v
  <2> QED
    BY <1>1, MessagesFacts
<1>4. r = a \o b
  <2>1. r = Messages(u \o v)
    BY <1>1
  <2> HIDE DEF u, v
  <2> QED
    BY <1>1, <2>1, MessagesConcat
<1>5. c \in Seq(Msg) /\ d \in Seq(Msg) /\ Len(c) = n /\ r = c \o d
  <2>1. n \in 0..Len(r)
    BY <1>2
  <2> HIDE DEF r
  <2> QED
    BY <1>2, <2>1, FromFacts
<1>6. n \in Nat /\ n <= Len(q) /\ Len(q) \in Nat
  BY LenProperties
<1> HIDE DEF u, v, a, b, r, c, d
<1>7. a = c
  <2>1. \A i \in 1..n : (a \o b)[i] = a[i]
    BY <1>3, <1>6, ConcatProperties, LenProperties
  <2>2. \A i \in 1..n : (c \o d)[i] = c[i]
    BY <1>5, <1>6, ConcatProperties, LenProperties
  <2>3. \A i \in 1..n : a[i] = c[i]
    BY <1>4, <1>5, <2>1, <2>2
  <2> QED
    BY <1>3, <1>5, <2>3, SeqEqual
<1>8. b = d
  <2>1. a \o b = a \o d
    BY <1>4, <1>5, <1>7
  <2> QED
    BY <2>1, <1>3, <1>5, ConcatSimplifications
<1> QED
  BY <1>7, <1>8 DEF a, b, c, d, u, v, r

LEMMA QuietFacts ==
  ASSUME NEW s \in Seq(Msg)
  PROVE  /\ Quiet(s) \in Seq(Entry) /\ Len(Quiet(s)) = Len(s) /\ Messages(Quiet(s)) = s
         /\ \A i \in 1..Len(s) : Quiet(s)[i] = [msg |-> s[i], waking |-> FALSE]
         /\ \A e : e \in ToSet(Quiet(s)) <=> \E m \in ToSet(s) : e = [msg |-> m, waking |-> FALSE]
<1>1. Len(s) \in Nat /\ DOMAIN s = 1..Len(s) /\ \A i \in 1..Len(s) : s[i] \in Msg
  BY LenProperties, ElementOfSeq
<1>2. \A i \in 1..Len(s) : Quiet(s)[i] = [msg |-> s[i], waking |-> FALSE]
  BY <1>1 DEF Quiet
<1>3. Quiet(s) \in [1..Len(s) -> Entry]
  BY <1>1 DEF Quiet, Entry
<1>4. Quiet(s) \in Seq(Entry) /\ Len(Quiet(s)) = Len(s) /\ DOMAIN Quiet(s) = 1..Len(s)
  BY <1>1, <1>3, SeqDef, LenProperties
<1>5. Messages(Quiet(s)) = s
  <2>1. Messages(Quiet(s)) \in Seq(Msg) /\ Len(Messages(Quiet(s))) = Len(s)
    BY <1>4, MessagesFacts
  <2>2. \A i \in 1..Len(s) : Messages(Quiet(s))[i] = Quiet(s)[i].msg
    BY <1>4, MessagesFacts
  <2>3. ASSUME NEW i \in 1..Len(s) PROVE Messages(Quiet(s))[i] = s[i]
    <3>1. Quiet(s)[i] = [msg |-> s[i], waking |-> FALSE]
      BY <1>2
    <3> QED
      BY <3>1, <2>2
  <2> QED
    BY <2>1, <2>3, SeqEqual
<1>6. \A e : e \in ToSet(Quiet(s)) <=> \E i \in 1..Len(s) : Quiet(s)[i] = e
  BY <1>4 DEF ToSet
<1>7. \A m : m \in ToSet(s) <=> \E i \in 1..Len(s) : s[i] = m
  BY <1>1 DEF ToSet
<1>8. \A e : e \in ToSet(Quiet(s)) <=> \E m \in ToSet(s) : e = [msg |-> m, waking |-> FALSE]
  <2>1. ASSUME NEW i \in 1..Len(s)
        PROVE  \E m \in ToSet(s) : Quiet(s)[i] = [msg |-> m, waking |-> FALSE]
    BY <1>2, <1>7
  <2>2. ASSUME NEW i \in 1..Len(s) PROVE [msg |-> s[i], waking |-> FALSE] \in ToSet(Quiet(s))
    <3>1. Quiet(s)[i] = [msg |-> s[i], waking |-> FALSE]
      BY <1>2
    <3>2. Quiet(s)[i] \in ToSet(Quiet(s))
      BY <1>6
    <3> QED
      BY <3>1, <3>2
  <2>3. ASSUME NEW e \in ToSet(Quiet(s)) PROVE \E m \in ToSet(s) : e = [msg |-> m, waking |-> FALSE]
    <3>1. PICK i \in 1..Len(s) : Quiet(s)[i] = e
      BY <1>6
    <3> QED
      BY <2>1, <3>1
  <2>4. ASSUME NEW m \in ToSet(s) PROVE [msg |-> m, waking |-> FALSE] \in ToSet(Quiet(s))
    <3>1. PICK i \in 1..Len(s) : s[i] = m
      BY <1>7
    <3> QED
      BY <2>2, <3>1
  <2> QED
    BY <2>3, <2>4
<1> QED
  BY <1>2, <1>4, <1>5, <1>8

-----------------------------------------------------------------------------
(* What is picked out of a sequence, in order: each place of it has a rank   *)
(* of its own, and no rank is left out.                                     *)
Before(S, i) == {j \in S : j < i}
Rank(S, i) == Cardinality(Before(S, i))

LEMMA PlacesAreFinite ==
  ASSUME NEW n \in Nat, NEW S \in SUBSET (1..n)
  PROVE  IsFiniteSet(S) /\ Cardinality(S) \in Nat
<1>1. IsFiniteSet(1..n)
  BY FS_Interval
<1>2. IsFiniteSet(S)
  BY <1>1, FS_Subset
<1> QED
  BY <1>2, FS_CardinalityType

LEMMA RankBound ==
  ASSUME NEW n \in Nat, NEW S \in SUBSET (1..n), NEW i \in S
  PROVE  Rank(S, i) \in Nat /\ Rank(S, i) < Cardinality(S)
<1>1. Before(S, i) \in SUBSET S /\ i \notin Before(S, i)
  BY DEF Before
<1>2. IsFiniteSet(S) /\ Cardinality(S) \in Nat
  BY PlacesAreFinite
<1>3. Cardinality(Before(S, i)) \in Nat /\ Cardinality(Before(S, i)) <= Cardinality(S)
  BY <1>1, <1>2, FS_Subset, FS_CardinalityType
<1>4. Cardinality(Before(S, i)) # Cardinality(S)
  BY <1>1, <1>2, FS_Subset
<1> QED
  BY <1>2, <1>3, <1>4 DEF Rank

LEMMA RanksDiffer ==
  ASSUME NEW n \in Nat, NEW S \in SUBSET (1..n), NEW i \in S, NEW k \in S, Rank(S, i) = Rank(S, k)
  PROVE  i = k
<1>1. ASSUME NEW x \in S, NEW y \in S, x < y PROVE Rank(S, x) # Rank(S, y)
  <2>1. x \in Nat /\ y \in Nat /\ ~(x < x)
    OBVIOUS
  <2>0. \A j \in S : j < x => j < y
    BY <1>1
  <2>2. Before(S, x) \in SUBSET Before(S, y) /\ x \in Before(S, y) /\ x \notin Before(S, x)
    BY <1>1, <2>1, <2>0 DEF Before
  <2>3. Before(S, y) \in SUBSET (1..n)
    BY DEF Before
  <2>4. IsFiniteSet(Before(S, y))
    BY <2>3, PlacesAreFinite
  <2> QED
    BY <2>2, <2>4, FS_Subset DEF Rank
<1>2. i \in Nat /\ k \in Nat
  OBVIOUS
<1>3. i < k \/ k < i \/ i = k
  BY <1>2
<1> QED
  BY <1>1, <1>3

LEMMA RanksCover ==
  ASSUME NEW n \in Nat, NEW S \in SUBSET (1..n), NEW m \in 1..Cardinality(S)
  PROVE  \E i \in S : Rank(S, i) = m - 1
<1> DEFINE size == Cardinality(S)
           f == [i \in S |-> Rank(S, i) + 1]
<1>1. IsFiniteSet(S) /\ size \in Nat
  BY PlacesAreFinite
<1>2. ASSUME NEW i \in S PROVE f[i] \in 1..size /\ f[i] = Rank(S, i) + 1 /\ Rank(S, i) \in Nat
  BY <1>1, RankBound
<1>3. f \in [S -> 1..size]
  BY <1>2
<1>4. ASSUME NEW i \in S, NEW k \in S, f[i] = f[k] PROVE i = k
  <2>1. Rank(S, i) = Rank(S, k)
    BY <1>2, <1>4
  <2> QED
    BY <2>1, RanksDiffer
<1>5. DOMAIN f = S
  OBVIOUS
<1>6. IsFiniteSet(1..size) /\ Cardinality(1..size) = size
  BY <1>1, FS_Interval
<1> HIDE DEF f, size
<1>7. f \in Injection(S, 1..size)
  BY <1>3, <1>4, <1>5 DEF Injection, IsInjective
<1>8. f \in Surjection(S, 1..size)
  BY <1>6, <1>7, FS_Injection DEF size
<1>9. PICK i \in S : f[i] = m
  BY <1>8 DEF Surjection, size
<1> QED
  BY <1>2, <1>9

LEMMA OnlyFacts ==
  ASSUME NEW S, NEW s \in Seq(S), NEW W
  PROVE  /\ Only(s, W) \in Seq(S)
         /\ ToSet(Only(s, W)) = ToSet(s) \intersect W
         /\ Once(s) => Once(Only(s, W))
<1> DEFINE n == Len(s)
           kept == {i \in DOMAIN s : s[i] \in W}
           nth(k) == CHOOSE i \in kept : Cardinality({j \in kept : j < i}) = k - 1
           size == Cardinality(kept)
           r == [k \in 1..size |-> s[nth(k)]]
<1>1. Only(s, W) = r
  BY DEF Only
<1>2. n \in Nat /\ DOMAIN s = 1..n /\ kept \in SUBSET (1..n) /\ \A i \in 1..n : s[i] \in S
  BY LenProperties, ElementOfSeq
<1>3. size \in Nat
  BY <1>2, PlacesAreFinite
<1>4. \A i : Rank(kept, i) = Cardinality({j \in kept : j < i})
  BY DEF Rank, Before
<1>5. \A k \in 1..size : nth(k) \in kept /\ Rank(kept, nth(k)) = k - 1
  <2> SUFFICES ASSUME NEW k \in 1..size PROVE nth(k) \in kept /\ Rank(kept, nth(k)) = k - 1
    OBVIOUS
  <2> HIDE DEF kept
  <2>1. \E i \in kept : Rank(kept, i) = k - 1
    BY <1>2, RanksCover DEF size
  <2> QED
    BY <2>1, <1>4
<1>6. \A i \in kept : \E k \in 1..size : nth(k) = i
  <2> SUFFICES ASSUME NEW i \in kept PROVE \E k \in 1..size : nth(k) = i
    OBVIOUS
  <2> HIDE DEF kept, nth
  <2>1. Rank(kept, i) \in Nat /\ Rank(kept, i) < size
    BY <1>2, RankBound DEF size
  <2>2. Rank(kept, i) + 1 \in 1..size /\ (Rank(kept, i) + 1) - 1 = Rank(kept, i)
    BY <2>1, <1>3
  <2>3. nth(Rank(kept, i) + 1) \in kept
        /\ Rank(kept, nth(Rank(kept, i) + 1)) = Rank(kept, i)
    BY <2>2, <1>5
  <2>4. nth(Rank(kept, i) + 1) = i
    BY <2>3, <1>2, RanksDiffer
  <2> QED
    BY <2>2, <2>4
<1>7. \A k \in 1..size : nth(k) \in 1..n /\ s[nth(k)] \in S /\ s[nth(k)] \in W
  BY <1>2, <1>5
<1>8. \A i \in 1..n : s[i] \in W => i \in kept
  BY <1>2
<1> HIDE DEF nth, size, kept
<1>9. r \in Seq(S) /\ DOMAIN r = 1..size /\ \A k \in 1..size : r[k] = s[nth(k)]
  <2>1. r \in [1..size -> S]
    BY <1>7
  <2> QED
    BY <2>1, <1>3, SeqDef
<1> HIDE DEF r, n
<1>10. ToSet(r) = ToSet(s) \intersect W
  <2>1. ASSUME NEW k \in 1..size PROVE r[k] \in ToSet(s) \intersect W
    BY <1>2, <1>7, <1>9 DEF ToSet
  <2>2. ASSUME NEW i \in 1..n, s[i] \in W PROVE s[i] \in ToSet(r)
    <3>1. PICK k \in 1..size : nth(k) = i
      BY <1>6, <1>8, <2>2
    <3>2. r[k] = s[i]
      BY <3>1, <1>9
    <3> QED
      BY <3>2, <1>9 DEF ToSet
  <2>3. ToSet(r) \subseteq ToSet(s) \intersect W
    BY <2>1, <1>9 DEF ToSet
  <2>4. ToSet(s) \intersect W \subseteq ToSet(r)
    BY <2>2, <1>2 DEF ToSet
  <2> QED
    BY <2>3, <2>4
<1>11. ASSUME Once(s) PROVE Once(r)
  <2> SUFFICES ASSUME NEW i \in 1..size, NEW k \in 1..size, r[i] = r[k] PROVE i = k
    BY <1>9 DEF Once
  <2>1. nth(i) = nth(k)
    BY <1>2, <1>7, <1>9, <1>11 DEF Once
  <2>2. Rank(kept, nth(i)) = i - 1 /\ Rank(kept, nth(k)) = k - 1
    BY <1>5
  <2> QED
    BY <1>3, <2>1, <2>2
<1> QED
  BY <1>1, <1>9, <1>10, <1>11

-----------------------------------------------------------------------------
(* The records a segment still has to append are those of a plan: it        *)
(* records a claim and clears the queue, puts messages back, enters         *)
(* messages, and records a claim behind them.                               *)
Folds == [turnQueue : Seq(Msg), stepQueue : Seq(Entry)]
Claims == [steps : Nat, turns : {0, 1}]
Plans == [first : Claims, clear : BOOLEAN, back : Seq(Msg), enter : Seq(Msg), last : Claims]

Claimed(c) == IF c = NoClaim THEN <<>> ELSE <<Claim(c)>>
Cleared(b) == IF b THEN <<Clear>> ELSE <<>>
Writes(p) == Claimed(p.first)
             \o (Cleared(p.clear) \o (Inserts(p.back) \o (Enters(p.enter) \o Claimed(p.last))))

(* What the log folds to, and how often it has entered each message, once   *)
(* the plan is written.                                                     *)
Emptied == [turnQueue |-> <<>>, stepQueue |-> <<>>]
Drain(d, c) == [turnQueue |-> From(d.turnQueue, c.turns), stepQueue |-> From(d.stepQueue, c.steps)]
PutBack(d, back) == [turnQueue |-> d.turnQueue, stepQueue |-> d.stepQueue \o Quiet(back)]
FoldAfter(p, d) ==
  Drain(PutBack(IF p.clear THEN Emptied ELSE Drain(d, p.first), p.back), p.last)
EnteredAfter(p, en) == [m \in Msg |-> IF m \in ToSet(p.enter) THEN en[m] + 1 ELSE en[m]]

LEMMA FoldsAre ==
  /\ Emptied \in Folds /\ NoClaim \in Claims
  /\ \A d \in Folds, c \in Claims : Drain(d, c) \in Folds
  /\ \A d \in Folds, s \in Seq(Msg) : PutBack(d, s) \in Folds
  /\ \A d \in Folds : Drain(d, NoClaim) = d
  /\ \A d \in Folds : PutBack(d, <<>>) = d
<1>1. \A S : \A s \in Seq(S), n \in Nat : From(s, n) \in Seq(S)
  <2> SUFFICES ASSUME NEW S, NEW s \in Seq(S), NEW n \in Nat PROVE From(s, n) \in Seq(S)
    OBVIOUS
  <2>1. Len(s) \in Nat /\ \A i \in (n + 1)..Len(s) : s[i] \in S
    BY LenProperties, ElementOfSeq
  <2> QED
    BY <2>1, SubSeqProperties DEF From
<1>2. \A S : \A s \in Seq(S) : From(s, 0) = s
  <2> SUFFICES ASSUME NEW S, NEW s \in Seq(S) PROVE From(s, 0) = s
    OBVIOUS
  <2>1. 0 \in 0..Len(s)
    BY LenProperties
  <2> QED
    BY <2>1, FromFacts
<1>3. Emptied \in Folds /\ NoClaim \in Claims
  BY DEF Emptied, Folds, NoClaim, Claims
<1>4. ASSUME NEW d \in Folds, NEW c \in Claims PROVE Drain(d, c) \in Folds
  BY <1>1 DEF Drain, Folds, Claims
<1>5. ASSUME NEW d \in Folds, NEW s \in Seq(Msg) PROVE PutBack(d, s) \in Folds
  <2>1. Quiet(s) \in Seq(Entry)
    BY QuietFacts
  <2>2. d.stepQueue \o Quiet(s) \in Seq(Entry)
    BY <2>1, ConcatProperties DEF Folds
  <2> QED
    BY <2>2 DEF PutBack, Folds
<1>6. ASSUME NEW d \in Folds PROVE Drain(d, NoClaim) = d
  <2>1. From(d.turnQueue, 0) = d.turnQueue /\ From(d.stepQueue, 0) = d.stepQueue
    BY <1>2 DEF Folds
  <2> QED
    BY <2>1 DEF Drain, NoClaim, Folds
<1>7. ASSUME NEW d \in Folds PROVE PutBack(d, <<>>) = d
  <2>1. Quiet(<<>>) = <<>>
    <3>1. Quiet(<<>>) \in Seq(Entry) /\ Len(Quiet(<<>>)) = 0
      BY Nothing, QuietFacts
    <3> QED
      BY <3>1, EmptySeq
  <2>2. d.stepQueue \o <<>> = d.stepQueue
    BY ConcatEmptySeq DEF Folds
  <2> QED
    BY <2>1, <2>2 DEF PutBack, Folds
<1> QED
  BY <1>3, <1>4, <1>5, <1>6, <1>7

LEMMA FoldAfterIs ==
  ASSUME NEW p \in Plans, NEW d \in Folds
  PROVE  FoldAfter(p, d) \in Folds
<1>1. p.first \in Claims /\ p.last \in Claims /\ p.back \in Seq(Msg)
  BY DEF Plans
<1> DEFINE x == IF p.clear THEN Emptied ELSE Drain(d, p.first)
<1>2. x \in Folds
  BY <1>1, FoldsAre
<1> HIDE DEF x
<1>3. PutBack(x, p.back) \in Folds
  BY <1>1, <1>2, FoldsAre
<1>4. Drain(PutBack(x, p.back), p.last) \in Folds
  BY <1>1, <1>3, FoldsAre
<1> QED
  BY <1>4 DEF FoldAfter, x

LEMMA ConsFacts ==
  ASSUME NEW S, NEW x \in S, NEW t \in Seq(S)
  PROVE  /\ <<x>> \in Seq(S) /\ <<x>> \o t \in Seq(S) /\ <<x>> \o t # <<>>
         /\ Head(<<x>> \o t) = x /\ Tail(<<x>> \o t) = t
<1> DEFINE one == <<x>>
           r == one \o t
<1>1. one \in Seq(S) /\ Len(one) = 1 /\ one[1] = x /\ Len(t) \in Nat
  BY LenProperties
<1> HIDE DEF one
<1>2. /\ r \in Seq(S) /\ Len(r) = 1 + Len(t)
      /\ \A i \in 1..1 + Len(t) : r[i] = IF i <= 1 THEN one[i] ELSE t[i - 1]
  <2>1. one \in Seq(S)
    BY <1>1
  <2>2. /\ r \in Seq(S) /\ Len(r) = Len(one) + Len(t)
        /\ \A i \in 1..Len(one) + Len(t) : r[i] = IF i <= Len(one) THEN one[i] ELSE t[i - Len(one)]
    BY <2>1, ConcatProperties
  <2> QED
    BY <1>1, <2>2
<1> HIDE DEF r
<1>3. r # <<>> /\ r[1] = x
  <2>1. 1 \in 1..1 + Len(t)
    BY <1>1
  <2>2. Len(r) # 0
    BY <1>1, <1>2
  <2> QED
    BY <1>1, <1>2, <2>1, <2>2, EmptySeq
<1>4. /\ Tail(r) \in Seq(S) /\ Len(Tail(r)) = Len(t)
      /\ \A i \in 1..Len(t) : Tail(r)[i] = r[i + 1]
  <2>1. Tail(r) \in Seq(S) /\ Len(Tail(r)) = Len(r) - 1 /\ \A i \in 1..Len(Tail(r)) : Tail(r)[i] = r[i + 1]
    BY <1>2, <1>3, HeadTailProperties
  <2>2. Len(Tail(r)) = Len(t)
    BY <1>1, <1>2, <2>1
  <2> QED
    BY <2>1, <2>2
<1>5. ASSUME NEW i \in 1..Len(t) PROVE Tail(r)[i] = t[i]
  <2>1. i + 1 \in 1..1 + Len(t) /\ ~(i + 1 <= 1) /\ (i + 1) - 1 = i
    BY <1>1
  <2> QED
    BY <2>1, <1>2, <1>4
<1>6. Tail(r) = t
  BY <1>4, <1>5, SeqEqual
<1>7. Head(r) = x
  BY <1>3
<1> QED
  BY <1>1, <1>2, <1>3, <1>6, <1>7 DEF r, one

LEMMA HeadFirst ==
  ASSUME NEW S, NEW s \in Seq(S), s # <<>>
  PROVE  /\ Head(s) \in S /\ Tail(s) \in Seq(S)
         /\ s = <<Head(s)>> \o Tail(s)
         /\ ToSet(s) = {Head(s)} \union ToSet(Tail(s))
         /\ Once(s) => Once(Tail(s)) /\ Head(s) \notin ToSet(Tail(s))
<1> DEFINE x == Head(s)
           t == Tail(s)
           one == <<x>>
<1>1. x \in S /\ t \in Seq(S) /\ Len(t) = Len(s) - 1 /\ (\A i \in 1..Len(t) : t[i] = s[i + 1])
  BY HeadTailProperties
<1>2. Len(s) \in Nat /\ Len(s) # 0 /\ s[1] = x
  BY EmptySeq
<1> HIDE DEF x, t
<1>3. one \in Seq(S) /\ Len(one) = 1 /\ one[1] = x
  BY <1>1
<1>4. ToSet(one) = {x} /\ DOMAIN one = 1..1
  BY DEF ToSet
<1> HIDE DEF one
<1>5. one \o t \in Seq(S) /\ Len(one \o t) = 1 + Len(t)
      /\ \A i \in 1..1 + Len(t) : (one \o t)[i] = IF i <= 1 THEN one[i] ELSE t[i - 1]
  <2>1. one \in Seq(S) /\ t \in Seq(S)
    BY <1>1, <1>3
  <2>2. /\ one \o t \in Seq(S) /\ Len(one \o t) = Len(one) + Len(t)
        /\ \A i \in 1..Len(one) + Len(t) : (one \o t)[i] = IF i <= Len(one) THEN one[i] ELSE t[i - Len(one)]
    BY <2>1, ConcatProperties
  <2> QED
    BY <1>3, <2>2
<1>6. ASSUME NEW i \in 1..Len(s) PROVE s[i] = (one \o t)[i]
  <2>1. CASE i = 1
    BY <2>1, <1>1, <1>2, <1>3, <1>5
  <2>2. CASE i # 1
    <3>1. i - 1 \in 1..Len(t) /\ (i - 1) + 1 = i /\ ~(i <= 1) /\ i \in 1..1 + Len(t)
      BY <2>2, <1>1, <1>2
    <3> QED
      BY <3>1, <1>1, <1>5
  <2> QED
    BY <2>1, <2>2
<1>7. s = one \o t
  <2>1. Len(one \o t) = Len(s)
    BY <1>1, <1>2, <1>5
  <2> QED
    BY <2>1, <1>5, <1>6, SeqEqual
<1>8. /\ ToSet(one \o t) = ToSet(one) \union ToSet(t)
      /\ Once(one \o t) => Once(t) /\ ToSet(one) \intersect ToSet(t) = {}
  BY <1>1, <1>3, ConcatFacts
<1> QED
  BY <1>1, <1>4, <1>7, <1>8 DEF x, t, one

LEMMA RecordsAre ==
  /\ \A c \in Claims : Claim(c) \in Records /\ Claim(c).op = "claim"
  /\ Clear \in Records /\ Clear.op = "clear"
  /\ \A e \in Entry : Insert(e) \in Records /\ Insert(e).op = "insert"
  /\ \A m \in Msg : Enter(m) \in Records /\ Enter(m).op = "enter"
  /\ \A m \in Msg : [msg |-> m, waking |-> FALSE] \in Entry
  BY DEF Claim, Clear, Insert, Enter, Records, Claims, Entry

LEMMA InsertsFacts ==
  ASSUME NEW s \in Seq(Msg)
  PROVE  /\ Inserts(s) \in Seq(Records)
         /\ s = <<>> => Inserts(s) = <<>>
         /\ s # <<>> => Inserts(s) = <<Insert([msg |-> Head(s), waking |-> FALSE])>> \o Inserts(Tail(s))
<1>1. \A r \in Seq(Msg) :
        /\ Inserts(r) \in Seq(Records) /\ Len(Inserts(r)) = Len(r)
        /\ \A i \in 1..Len(r) : Inserts(r)[i] = Insert([msg |-> r[i], waking |-> FALSE])
  <2> SUFFICES ASSUME NEW r \in Seq(Msg)
               PROVE  /\ Inserts(r) \in Seq(Records) /\ Len(Inserts(r)) = Len(r)
                      /\ \A i \in 1..Len(r) : Inserts(r)[i] = Insert([msg |-> r[i], waking |-> FALSE])
    OBVIOUS
  <2>1. Len(r) \in Nat /\ DOMAIN r = 1..Len(r) /\ \A i \in 1..Len(r) : r[i] \in Msg
    BY LenProperties, ElementOfSeq
  <2>2. \A i \in 1..Len(r) : Quiet(r)[i] = [msg |-> r[i], waking |-> FALSE]
    BY QuietFacts
  <2>3. \A i \in 1..Len(r) : Inserts(r)[i] = Insert([msg |-> r[i], waking |-> FALSE])
    BY <2>1, <2>2 DEF Inserts
  <2>4. \A i \in 1..Len(r) : Insert(Quiet(r)[i]) \in Records
    BY <2>1, <2>2, RecordsAre
  <2>5. Inserts(r) \in [1..Len(r) -> Records]
    BY <2>1, <2>4 DEF Inserts
  <2> QED
    BY <2>1, <2>3, <2>5, SeqDef, LenProperties
<1>2. s = <<>> => Inserts(s) = <<>>
  BY <1>1, EmptySeq
<1>3. ASSUME s # <<>>
      PROVE  Inserts(s) = <<Insert([msg |-> Head(s), waking |-> FALSE])>> \o Inserts(Tail(s))
  <2> DEFINE t == Tail(s)
             x == Insert([msg |-> Head(s), waking |-> FALSE])
             one == <<x>>
             a == Inserts(s)
             b == Inserts(t)
  <2>1. Head(s) \in Msg /\ t \in Seq(Msg) /\ Len(t) = Len(s) - 1 /\ \A i \in 1..Len(t) : t[i] = s[i + 1]
    BY <1>3, HeadTailProperties
  <2>2. Len(s) \in Nat /\ Len(s) # 0 /\ s[1] = Head(s)
    BY <1>3, EmptySeq
  <2>3. x \in Records
    BY <2>1, RecordsAre
  <2> HIDE DEF t
  <2>4. b \in Seq(Records) /\ Len(b) = Len(t) /\ \A i \in 1..Len(t) : b[i] = Insert([msg |-> t[i], waking |-> FALSE])
    BY <1>1, <2>1
  <2>5. a \in Seq(Records) /\ Len(a) = Len(s) /\ \A i \in 1..Len(s) : a[i] = Insert([msg |-> s[i], waking |-> FALSE])
    BY <1>1
  <2>6. x = Insert([msg |-> s[1], waking |-> FALSE])
    BY <2>2
  <2> HIDE DEF x, a, b
  <2>7. one \in Seq(Records) /\ Len(one) = 1 /\ one[1] = x
    BY <2>3
  <2> HIDE DEF one
  <2>8. one \o b \in Seq(Records) /\ Len(one \o b) = 1 + Len(b)
        /\ \A i \in 1..1 + Len(b) : (one \o b)[i] = IF i <= 1 THEN one[i] ELSE b[i - 1]
    <3>1. one \in Seq(Records) /\ b \in Seq(Records)
      BY <2>4, <2>7
    <3>2. /\ one \o b \in Seq(Records) /\ Len(one \o b) = Len(one) + Len(b)
          /\ \A i \in 1..Len(one) + Len(b) : (one \o b)[i] = IF i <= Len(one) THEN one[i] ELSE b[i - Len(one)]
      BY <3>1, ConcatProperties
    <3> QED
      BY <2>7, <3>2
  <2>9. ASSUME NEW i \in 1..Len(s) PROVE a[i] = (one \o b)[i]
    <3>1. CASE i = 1
      BY <3>1, <2>1, <2>2, <2>4, <2>5, <2>6, <2>7, <2>8
    <3>2. CASE i # 1
      <4>1. i - 1 \in 1..Len(t) /\ (i - 1) + 1 = i /\ ~(i <= 1) /\ i \in 1..1 + Len(b)
        BY <3>2, <2>1, <2>2, <2>4
      <4>2. (one \o b)[i] = b[i - 1] /\ t[i - 1] = s[i]
        BY <4>1, <2>1, <2>8
      <4> QED
        BY <4>1, <4>2, <2>4, <2>5
    <3> QED
      BY <3>1, <3>2
  <2>10. Len(one \o b) = Len(a)
    BY <2>1, <2>2, <2>4, <2>5, <2>8
  <2>11. a = one \o b
    BY <2>5, <2>8, <2>9, <2>10, SeqEqual
  <2> QED
    BY <2>11 DEF a, b, one, x, t
<1> QED
  BY <1>1, <1>2, <1>3

LEMMA EntersFacts ==
  ASSUME NEW s \in Seq(Msg)
  PROVE  /\ Enters(s) \in Seq(Records)
         /\ s = <<>> => Enters(s) = <<>>
         /\ s # <<>> => Enters(s) = <<Enter(Head(s))>> \o Enters(Tail(s))
<1>1. \A r \in Seq(Msg) :
        /\ Enters(r) \in Seq(Records) /\ Len(Enters(r)) = Len(r)
        /\ \A i \in 1..Len(r) : Enters(r)[i] = Enter(r[i])
  <2> SUFFICES ASSUME NEW r \in Seq(Msg)
               PROVE  /\ Enters(r) \in Seq(Records) /\ Len(Enters(r)) = Len(r)
                      /\ \A i \in 1..Len(r) : Enters(r)[i] = Enter(r[i])
    OBVIOUS
  <2>1. Len(r) \in Nat /\ DOMAIN r = 1..Len(r) /\ \A i \in 1..Len(r) : r[i] \in Msg
    BY LenProperties, ElementOfSeq
  <2>3. \A i \in 1..Len(r) : Enters(r)[i] = Enter(r[i])
    BY <2>1 DEF Enters
  <2>4. \A i \in 1..Len(r) : Enter(r[i]) \in Records
    BY <2>1, RecordsAre
  <2>5. Enters(r) \in [1..Len(r) -> Records]
    BY <2>1, <2>4 DEF Enters
  <2> QED
    BY <2>1, <2>3, <2>5, SeqDef, LenProperties
<1>2. s = <<>> => Enters(s) = <<>>
  BY <1>1, EmptySeq
<1>3. ASSUME s # <<>> PROVE Enters(s) = <<Enter(Head(s))>> \o Enters(Tail(s))
  <2> DEFINE t == Tail(s)
             x == Enter(Head(s))
             one == <<x>>
             a == Enters(s)
             b == Enters(t)
  <2>1. Head(s) \in Msg /\ t \in Seq(Msg) /\ Len(t) = Len(s) - 1 /\ \A i \in 1..Len(t) : t[i] = s[i + 1]
    BY <1>3, HeadTailProperties
  <2>2. Len(s) \in Nat /\ Len(s) # 0 /\ s[1] = Head(s)
    BY <1>3, EmptySeq
  <2>3. x \in Records
    BY <2>1, RecordsAre
  <2> HIDE DEF t
  <2>4. b \in Seq(Records) /\ Len(b) = Len(t) /\ \A i \in 1..Len(t) : b[i] = Enter(t[i])
    BY <1>1, <2>1
  <2>5. a \in Seq(Records) /\ Len(a) = Len(s) /\ \A i \in 1..Len(s) : a[i] = Enter(s[i])
    BY <1>1
  <2>6. x = Enter(s[1])
    BY <2>2
  <2> HIDE DEF x, a, b
  <2>7. one \in Seq(Records) /\ Len(one) = 1 /\ one[1] = x
    BY <2>3
  <2> HIDE DEF one
  <2>8. one \o b \in Seq(Records) /\ Len(one \o b) = 1 + Len(b)
        /\ \A i \in 1..1 + Len(b) : (one \o b)[i] = IF i <= 1 THEN one[i] ELSE b[i - 1]
    <3>1. one \in Seq(Records) /\ b \in Seq(Records)
      BY <2>4, <2>7
    <3>2. /\ one \o b \in Seq(Records) /\ Len(one \o b) = Len(one) + Len(b)
          /\ \A i \in 1..Len(one) + Len(b) : (one \o b)[i] = IF i <= Len(one) THEN one[i] ELSE b[i - Len(one)]
      BY <3>1, ConcatProperties
    <3> QED
      BY <2>7, <3>2
  <2>9. ASSUME NEW i \in 1..Len(s) PROVE a[i] = (one \o b)[i]
    <3>1. CASE i = 1
      BY <3>1, <2>1, <2>2, <2>4, <2>5, <2>6, <2>7, <2>8
    <3>2. CASE i # 1
      <4>1. i - 1 \in 1..Len(t) /\ (i - 1) + 1 = i /\ ~(i <= 1) /\ i \in 1..1 + Len(b)
        BY <3>2, <2>1, <2>2, <2>4
      <4>2. (one \o b)[i] = b[i - 1] /\ t[i - 1] = s[i]
        BY <4>1, <2>1, <2>8
      <4> QED
        BY <4>1, <4>2, <2>4, <2>5
    <3> QED
      BY <3>1, <3>2
  <2>10. Len(one \o b) = Len(a)
    BY <2>1, <2>2, <2>4, <2>5, <2>8
  <2>11. a = one \o b
    BY <2>5, <2>8, <2>9, <2>10, SeqEqual
  <2> QED
    BY <2>11 DEF a, b, one, x, t
<1> QED
  BY <1>1, <1>2, <1>3

LEMMA WritesFacts ==
  ASSUME NEW p \in Plans
  PROVE  /\ Claimed(p.first) \in Seq(Records) /\ Claimed(p.last) \in Seq(Records)
         /\ Cleared(p.clear) \in Seq(Records)
         /\ Inserts(p.back) \in Seq(Records) /\ Enters(p.enter) \in Seq(Records)
         /\ Enters(p.enter) \o Claimed(p.last) \in Seq(Records)
         /\ Inserts(p.back) \o (Enters(p.enter) \o Claimed(p.last)) \in Seq(Records)
         /\ Cleared(p.clear) \o (Inserts(p.back) \o (Enters(p.enter) \o Claimed(p.last))) \in Seq(Records)
         /\ Writes(p) \in Seq(Records)
<1> DEFINE a == Claimed(p.first)
           b == Cleared(p.clear)
           c == Inserts(p.back)
           d == Enters(p.enter)
           e == Claimed(p.last)
<1>1. /\ p.first \in Claims /\ p.last \in Claims /\ p.clear \in BOOLEAN
      /\ p.back \in Seq(Msg) /\ p.enter \in Seq(Msg)
  BY DEF Plans
<1>2. a \in Seq(Records) /\ e \in Seq(Records) /\ b \in Seq(Records)
  BY <1>1, RecordsAre DEF Claimed, Cleared
<1>3. c \in Seq(Records) /\ d \in Seq(Records)
  BY <1>1, InsertsFacts, EntersFacts
<1> HIDE DEF a, b, c, d, e
<1>4. d \o e \in Seq(Records)
  BY <1>2, <1>3, ConcatProperties
<1>5. c \o (d \o e) \in Seq(Records)
  BY <1>3, <1>4, ConcatProperties
<1>6. b \o (c \o (d \o e)) \in Seq(Records)
  BY <1>2, <1>5, ConcatProperties
<1>7. a \o (b \o (c \o (d \o e))) \in Seq(Records)
  BY <1>2, <1>6, ConcatProperties
<1> QED
  BY <1>2, <1>3, <1>4, <1>5, <1>6, <1>7 DEF a, b, c, d, e, Writes

(* A plan that writes nothing changes nothing.                              *)
LEMMA PlanIsDone ==
  ASSUME NEW p \in Plans, Writes(p) = <<>>, NEW d \in Folds, NEW en \in [Msg -> Nat]
  PROVE  FoldAfter(p, d) = d /\ EnteredAfter(p, en) = en
<1>1. /\ p.first \in Claims /\ p.last \in Claims /\ p.clear \in BOOLEAN
      /\ p.back \in Seq(Msg) /\ p.enter \in Seq(Msg)
  BY DEF Plans
<1> DEFINE w5 == Claimed(p.last)
           w4 == Enters(p.enter) \o w5
           w3 == Inserts(p.back) \o w4
           w2 == Cleared(p.clear) \o w3
<1>2. \A S : \A s, t \in Seq(S) : s \o t = <<>> => s = <<>> /\ t = <<>>
  BY ConcatSimplifications
<1>3. /\ w5 \in Seq(Records) /\ w4 \in Seq(Records) /\ w3 \in Seq(Records) /\ w2 \in Seq(Records)
      /\ Claimed(p.first) \in Seq(Records) /\ Cleared(p.clear) \in Seq(Records)
      /\ Inserts(p.back) \in Seq(Records) /\ Enters(p.enter) \in Seq(Records)
  BY WritesFacts
<1>4. Claimed(p.first) = <<>> /\ w2 = <<>>
  <2> HIDE DEF w2
  <2>1. Claimed(p.first) \o w2 = <<>>
    BY DEF Writes, w2
  <2> QED
    BY <2>1, <1>2, <1>3
<1>5. Cleared(p.clear) = <<>> /\ w3 = <<>>
  <2> HIDE DEF w3
  <2> QED
    BY <1>2, <1>3, <1>4
<1>6. Inserts(p.back) = <<>> /\ w4 = <<>>
  <2> HIDE DEF w4
  <2> QED
    BY <1>2, <1>3, <1>5
<1>7. Enters(p.enter) = <<>> /\ w5 = <<>>
  <2> HIDE DEF w5
  <2> QED
    BY <1>2, <1>3, <1>6
<1>8. p.first = NoClaim /\ p.last = NoClaim /\ p.clear = FALSE
  BY <1>1, <1>4, <1>5, <1>7 DEF Claimed, Cleared
<1>9. p.back = <<>>
  <2>1. SUFFICES ASSUME p.back # <<>> PROVE FALSE
    OBVIOUS
  <2>2. Head(p.back) \in Msg /\ Tail(p.back) \in Seq(Msg)
    BY <1>1, <2>1, HeadTailProperties
  <2>3. Insert([msg |-> Head(p.back), waking |-> FALSE]) \in Records /\ Inserts(Tail(p.back)) \in Seq(Records)
    BY <2>2, RecordsAre, InsertsFacts
  <2>4. Inserts(p.back) = <<Insert([msg |-> Head(p.back), waking |-> FALSE])>> \o Inserts(Tail(p.back))
    BY <1>1, <2>1, InsertsFacts
  <2>5. \A x \in Records, t \in Seq(Records) : <<x>> \o t # <<>>
    BY ConsFacts
  <2> QED
    BY <1>6, <2>3, <2>4, <2>5
<1>10. p.enter = <<>>
  <2>1. SUFFICES ASSUME p.enter # <<>> PROVE FALSE
    OBVIOUS
  <2>2. Head(p.enter) \in Msg /\ Tail(p.enter) \in Seq(Msg)
    BY <1>1, <2>1, HeadTailProperties
  <2>3. Enter(Head(p.enter)) \in Records /\ Enters(Tail(p.enter)) \in Seq(Records)
    BY <2>2, RecordsAre, EntersFacts
  <2>4. Enters(p.enter) = <<Enter(Head(p.enter))>> \o Enters(Tail(p.enter))
    BY <1>1, <2>1, EntersFacts
  <2>5. \A x \in Records, t \in Seq(Records) : <<x>> \o t # <<>>
    BY ConsFacts
  <2> QED
    BY <1>7, <2>3, <2>4, <2>5
<1>11. FoldAfter(p, d) = d
  BY <1>8, <1>9, FoldsAre DEF FoldAfter
<1>12. EnteredAfter(p, en) = en
  BY <1>10, Nothing DEF EnteredAfter
<1> QED
  BY <1>11, <1>12

(* Putting back one message is appending it, quiet.                         *)
LEMMA PutBackOne ==
  ASSUME NEW d \in Folds, NEW s \in Seq(Msg), s # <<>>
  PROVE  LET e == [msg |-> Head(s), waking |-> FALSE]
             f == [turnQueue |-> d.turnQueue, stepQueue |-> Append(d.stepQueue, e)]
         IN  f \in Folds /\ PutBack(d, s) = PutBack(f, Tail(s))
<1> DEFINE e == [msg |-> Head(s), waking |-> FALSE]
           f == [turnQueue |-> d.turnQueue, stepQueue |-> Append(d.stepQueue, e)]
           t == Tail(s)
           one == <<e>>
<1>1. /\ Head(s) \in Msg /\ t \in Seq(Msg) /\ Len(t) = Len(s) - 1 /\ \A i \in 1..Len(t) : t[i] = s[i + 1]
      /\ Len(s) \in Nat /\ Len(s) # 0 /\ s[1] = Head(s)
  BY HeadTailProperties, EmptySeq
<1>2. e \in Entry
  BY <1>1, RecordsAre
<1>3. /\ Quiet(s) \in Seq(Entry) /\ Len(Quiet(s)) = Len(s)
      /\ \A i \in 1..Len(s) : Quiet(s)[i] = [msg |-> s[i], waking |-> FALSE]
  BY QuietFacts
<1>4. /\ Quiet(t) \in Seq(Entry) /\ Len(Quiet(t)) = Len(t)
      /\ \A i \in 1..Len(t) : Quiet(t)[i] = [msg |-> t[i], waking |-> FALSE]
  BY <1>1, QuietFacts
<1>5. f \in Folds
  BY <1>2, AppendProperties DEF Folds
<1>6. one \in Seq(Entry) /\ Len(one) = 1 /\ one[1] = e
  BY <1>2
<1>7. e = [msg |-> s[1], waking |-> FALSE]
  BY <1>1
<1> HIDE DEF t, e, one
<1>8. one \o Quiet(t) \in Seq(Entry) /\ Len(one \o Quiet(t)) = Len(s)
      /\ \A i \in 1..Len(s) : (one \o Quiet(t))[i] = IF i <= 1 THEN one[i] ELSE Quiet(t)[i - 1]
  <2>1. /\ one \o Quiet(t) \in Seq(Entry) /\ Len(one \o Quiet(t)) = Len(one) + Len(Quiet(t))
        /\ \A i \in 1..Len(one) + Len(Quiet(t)) :
             (one \o Quiet(t))[i] = IF i <= Len(one) THEN one[i] ELSE Quiet(t)[i - Len(one)]
    <3>1. one \in Seq(Entry) /\ Quiet(t) \in Seq(Entry)
      BY <1>4, <1>6
    <3> QED
      BY <3>1, ConcatProperties
  <2>2. Len(one) = 1 /\ Len(one) + Len(Quiet(t)) = Len(s)
    BY <1>1, <1>4, <1>6
  <2> QED
    BY <2>1, <2>2
<1>9. ASSUME NEW i \in 1..Len(s) PROVE Quiet(s)[i] = (one \o Quiet(t))[i]
  <2>1. CASE i = 1
    BY <2>1, <1>1, <1>3, <1>6, <1>7, <1>8
  <2>2. CASE i # 1
    <3>1. i - 1 \in 1..Len(t) /\ (i - 1) + 1 = i /\ ~(i <= 1)
      BY <2>2, <1>1
    <3>2. (one \o Quiet(t))[i] = Quiet(t)[i - 1] /\ t[i - 1] = s[i]
      BY <3>1, <1>1, <1>8
    <3>3. Quiet(t)[i - 1] = [msg |-> t[i - 1], waking |-> FALSE]
      BY <3>1, <1>4
    <3> QED
      BY <3>2, <3>3, <1>3
  <2> QED
    BY <2>1, <2>2
<1>10. Quiet(s) = one \o Quiet(t)
  BY <1>3, <1>8, <1>9, SeqEqual
<1>11. d.stepQueue \in Seq(Entry)
  BY DEF Folds
<1>12. d.stepQueue \o (one \o Quiet(t)) = (d.stepQueue \o one) \o Quiet(t)
  <2>1. one \in Seq(Entry) /\ Quiet(t) \in Seq(Entry)
    BY <1>4, <1>6
  <2>2. \A a, b, c \in Seq(Entry) : a \o (b \o c) = (a \o b) \o c
    BY ConcatAssociative
  <2> QED
    BY <2>1, <2>2, <1>11
<1>13. Append(d.stepQueue, e) = d.stepQueue \o one
  BY <1>2, <1>11, AppendIsConcat DEF one
<1>14. PutBack(d, s) = PutBack(f, t)
  BY <1>10, <1>12, <1>13 DEF PutBack
<1> QED
  BY <1>5, <1>14 DEF e, t

(* A record of a plan is appended: what is left is a plan, and it ends in   *)
(* the same fold and the same history.                                      *)
Counted(en, r) == IF r.op = "enter" THEN [en EXCEPT ![r.msg] = @ + 1] ELSE en

LEMMA PlanAdvances ==
  ASSUME NEW p \in Plans, Once(p.enter), Writes(p) # <<>>,
         NEW d \in Folds, NEW en \in [Msg -> Nat]
  PROVE  LET r == Head(Writes(p))
         IN  \E q \in Plans :
               /\ Tail(Writes(p)) = Writes(q) /\ Once(q.enter)
               /\ FoldSplice(d, r) \in Folds /\ Counted(en, r) \in [Msg -> Nat]
               /\ FoldAfter(q, FoldSplice(d, r)) = FoldAfter(p, d)
               /\ EnteredAfter(q, Counted(en, r)) = EnteredAfter(p, en)
<1> DEFINE r == Head(Writes(p))
           w5 == Claimed(p.last)
           w4 == Enters(p.enter) \o w5
           w3 == Inserts(p.back) \o w4
           w2 == Cleared(p.clear) \o w3
           Goal(q) == /\ Tail(Writes(p)) = Writes(q) /\ Once(q.enter)
                      /\ FoldSplice(d, r) \in Folds /\ Counted(en, r) \in [Msg -> Nat]
                      /\ FoldAfter(q, FoldSplice(d, r)) = FoldAfter(p, d)
                      /\ EnteredAfter(q, Counted(en, r)) = EnteredAfter(p, en)
<1>1. /\ p.first \in Claims /\ p.last \in Claims /\ p.clear \in BOOLEAN
      /\ p.back \in Seq(Msg) /\ p.enter \in Seq(Msg)
      /\ p = [first |-> p.first, clear |-> p.clear, back |-> p.back, enter |-> p.enter, last |-> p.last]
  BY DEF Plans
<1>2. /\ w5 \in Seq(Records) /\ w4 \in Seq(Records) /\ w3 \in Seq(Records) /\ w2 \in Seq(Records)
  BY WritesFacts
<1>3. \A t \in Seq(Records) : <<>> \o t = t
  BY ConcatEmptySeq
<1>4. Writes(p) = Claimed(p.first) \o w2
  BY DEF Writes
<1>5. Claimed(NoClaim) = <<>> /\ Cleared(FALSE) = <<>>
  BY DEF Claimed, Cleared
<1>6. \A x \in Records, t \in Seq(Records) : Head(<<x>> \o t) = x /\ Tail(<<x>> \o t) = t
  BY ConsFacts
<1> SUFFICES \E q \in Plans : Goal(q)
  OBVIOUS
<1>7. CASE p.first # NoClaim
  <2> DEFINE q == [p EXCEPT !.first = NoClaim]
  <2>1. q \in Plans /\ q.first = NoClaim /\ q.clear = p.clear /\ q.back = p.back /\ q.enter = p.enter /\ q.last = p.last
    BY <1>1, FoldsAre DEF Plans
  <2> HIDE DEF q
  <2>2. Writes(q) = w2
    <3>1. Writes(q) = Claimed(q.first) \o w2
      BY <2>1 DEF Writes
    <3> HIDE DEF w2
    <3> QED
      BY <3>1, <2>1, <1>2, <1>3, <1>5
  <2>3. r = Claim(p.first) /\ Tail(Writes(p)) = w2
    <3>1. Claim(p.first) \in Records
      BY <1>1, RecordsAre
    <3>2. Writes(p) = <<Claim(p.first)>> \o w2
      BY <1>4, <1>7 DEF Claimed
    <3> HIDE DEF w2
    <3> QED
      BY <3>1, <3>2, <1>2, <1>6
  <2>4. FoldSplice(d, r) = Drain(d, p.first) /\ Counted(en, r) = en
    BY <2>3 DEF FoldSplice, Counted, Claim, Drain
  <2>5. Drain(d, p.first) \in Folds /\ Drain(Drain(d, p.first), NoClaim) = Drain(d, p.first)
    BY <1>1, FoldsAre
  <2>6. FoldAfter(q, Drain(d, p.first)) = FoldAfter(p, d)
    BY <2>1, <2>5 DEF FoldAfter
  <2>7. EnteredAfter(q, en) = EnteredAfter(p, en)
    BY <2>1 DEF EnteredAfter
  <2>8. Goal(q)
    BY <2>1, <2>2, <2>3, <2>4, <2>5, <2>6, <2>7
  <2> QED
    BY <2>1, <2>8
<1>8. CASE p.first = NoClaim /\ p.clear
  <2> DEFINE q == [p EXCEPT !.clear = FALSE]
  <2>1. q \in Plans /\ q.first = NoClaim /\ q.clear = FALSE /\ q.back = p.back /\ q.enter = p.enter /\ q.last = p.last
    BY <1>1, <1>8 DEF Plans
  <2> HIDE DEF q
  <2>2. Writes(q) = w3
    <3>1. Writes(q) = Claimed(q.first) \o (Cleared(q.clear) \o w3)
      BY <2>1 DEF Writes
    <3> HIDE DEF w3
    <3> QED
      BY <3>1, <2>1, <1>2, <1>3, <1>5
  <2>3. r = Clear /\ Tail(Writes(p)) = w3
    <3>1. Clear \in Records
      BY RecordsAre
    <3>2. Writes(p) = <<Clear>> \o w3
      <4>1. Writes(p) = <<>> \o w2
        BY <1>4, <1>8, <1>5
      <4>2. w2 = <<Clear>> \o w3
        BY <1>8 DEF Cleared
      <4> HIDE DEF w2
      <4> QED
        BY <4>1, <4>2, <1>2, <1>3
    <3> HIDE DEF w3
    <3> QED
      BY <3>1, <3>2, <1>2, <1>6
  <2>4. FoldSplice(d, r) = Emptied /\ Counted(en, r) = en
    BY <2>3 DEF FoldSplice, Counted, Clear, Emptied
  <2>5. Emptied \in Folds /\ Drain(Emptied, NoClaim) = Emptied
    BY FoldsAre
  <2>6. FoldAfter(q, Emptied) = FoldAfter(p, d)
    BY <2>1, <2>5, <1>8 DEF FoldAfter
  <2>7. EnteredAfter(q, en) = EnteredAfter(p, en)
    BY <2>1 DEF EnteredAfter
  <2>8. Goal(q)
    BY <2>1, <2>2, <2>3, <2>4, <2>5, <2>6, <2>7
  <2> QED
    BY <2>1, <2>8
<1>9. CASE p.first = NoClaim /\ ~p.clear
  <2>0. Writes(p) = w3
    <3>1. Writes(p) = <<>> \o (<<>> \o w3)
      BY <1>4, <1>9, <1>5 DEF Cleared
    <3> HIDE DEF w3
    <3> QED
      BY <3>1, <1>2, <1>3
  <2>1. FoldAfter(p, d) = Drain(PutBack(d, p.back), p.last)
    BY <1>9, FoldsAre DEF FoldAfter
  <2>2. CASE p.back # <<>>
    <3> DEFINE q == [p EXCEPT !.back = Tail(p.back)]
               e == [msg |-> Head(p.back), waking |-> FALSE]
               f == [turnQueue |-> d.turnQueue, stepQueue |-> Append(d.stepQueue, e)]
               v3 == Inserts(Tail(p.back)) \o w4
    <3>1. Head(p.back) \in Msg /\ Tail(p.back) \in Seq(Msg)
      BY <1>1, <2>2, HeadTailProperties
    <3>2. q \in Plans /\ q.first = NoClaim /\ ~q.clear /\ q.back = Tail(p.back) /\ q.enter = p.enter /\ q.last = p.last
      BY <1>1, <1>9, <3>1 DEF Plans
    <3> HIDE DEF q
    <3>3. e \in Entry /\ Insert(e) \in Records /\ Inserts(Tail(p.back)) \in Seq(Records)
      BY <3>1, RecordsAre, InsertsFacts
    <3>4. v3 \in Seq(Records)
      <4> HIDE DEF w4
      <4> QED
        BY <1>2, <3>3, ConcatProperties
    <3>5. Writes(q) = v3
      <4>1. Writes(q) = <<>> \o (<<>> \o v3)
        BY <3>2, <1>5 DEF Writes, Cleared
      <4> HIDE DEF v3
      <4> QED
        BY <4>1, <3>4, <1>3
    <3>6. Writes(p) = <<Insert(e)>> \o v3
      <4>1. Inserts(p.back) = <<Insert(e)>> \o Inserts(Tail(p.back))
        BY <1>1, <2>2, InsertsFacts
      <4>2. <<Insert(e)>> \in Seq(Records)
        BY <3>3
      <4> HIDE DEF w4, e
      <4>3. (<<Insert(e)>> \o Inserts(Tail(p.back))) \o w4 = <<Insert(e)>> \o v3
        BY <1>2, <3>3, <4>2, ConcatAssociative
      <4> QED
        BY <4>1, <4>3, <2>0
    <3>7. r = Insert(e) /\ Tail(Writes(p)) = v3
      <4> HIDE DEF v3, e
      <4> QED
        BY <3>3, <3>4, <3>6, <1>6
    <3>8. FoldSplice(d, r) = f /\ Counted(en, r) = en
      <4>1. r.op = "insert" /\ r.entry = e
        BY <3>7 DEF Insert
      <4>2. \A x : [d EXCEPT !.stepQueue = x] = [turnQueue |-> d.turnQueue, stepQueue |-> x]
        BY DEF Folds
      <4> HIDE DEF r, e
      <4>3. [d EXCEPT !.stepQueue = Append(@, r.entry)] = f
        BY <4>1, <4>2
      <4> QED
        BY <4>1, <4>3 DEF FoldSplice, Counted
    <3>9. f \in Folds /\ PutBack(d, p.back) = PutBack(f, Tail(p.back))
      BY <1>1, <2>2, PutBackOne
    <3>10. FoldAfter(q, f) = FoldAfter(p, d)
      <4>1. Drain(f, NoClaim) = f
        BY <3>9, FoldsAre
      <4> HIDE DEF f
      <4> QED
        BY <2>1, <3>2, <3>9, <4>1 DEF FoldAfter
    <3>11. EnteredAfter(q, en) = EnteredAfter(p, en)
      BY <3>2 DEF EnteredAfter
    <3>12. Goal(q)
      <4> HIDE DEF f, v3
      <4> QED
        BY <3>2, <3>5, <3>7, <3>8, <3>9, <3>10, <3>11
    <3> QED
      BY <3>2, <3>12
  <2>3. CASE p.back = <<>> /\ p.enter # <<>>
    <3> DEFINE q == [p EXCEPT !.enter = Tail(p.enter)]
               m == Head(p.enter)
               v4 == Enters(Tail(p.enter)) \o w5
    <3>1. /\ m \in Msg /\ Tail(p.enter) \in Seq(Msg)
          /\ ToSet(p.enter) = {m} \union ToSet(Tail(p.enter))
          /\ Once(Tail(p.enter)) /\ m \notin ToSet(Tail(p.enter))
      BY <1>1, <2>3, HeadFirst
    <3>2. q \in Plans /\ q.first = NoClaim /\ ~q.clear /\ q.back = <<>> /\ q.enter = Tail(p.enter) /\ q.last = p.last
      BY <1>1, <1>9, <2>3, <3>1 DEF Plans
    <3> HIDE DEF q, m
    <3>3. Enter(m) \in Records /\ Enters(Tail(p.enter)) \in Seq(Records) /\ Inserts(<<>>) = <<>>
      BY <3>1, RecordsAre, EntersFacts, InsertsFacts, Nothing
    <3>4. v4 \in Seq(Records)
      <4> HIDE DEF w5
      <4> QED
        BY <1>2, <3>3, ConcatProperties
    <3>5. Writes(q) = v4
      <4>1. Writes(q) = <<>> \o (<<>> \o (<<>> \o v4))
        BY <3>2, <3>3, <1>5 DEF Writes, Cleared
      <4> HIDE DEF v4
      <4> QED
        BY <4>1, <3>4, <1>3
    <3>6. Writes(p) = <<Enter(m)>> \o v4
      <4>1. Enters(p.enter) = <<Enter(m)>> \o Enters(Tail(p.enter))
        BY <1>1, <2>3, EntersFacts DEF m
      <4>2. <<Enter(m)>> \in Seq(Records)
        BY <3>3
      <4> HIDE DEF w5
      <4>3. (<<Enter(m)>> \o Enters(Tail(p.enter))) \o w5 = <<Enter(m)>> \o v4
        BY <1>2, <3>3, <4>2, ConcatAssociative
      <4>4. w3 = <<>> \o w4
        BY <2>3, <3>3
      <4>5. w3 = w4
        <5> HIDE DEF w4, w3
        <5> QED
          BY <4>4, <1>2, <1>3
      <4> QED
        BY <4>1, <4>3, <4>5, <2>0
    <3>7. r = Enter(m) /\ Tail(Writes(p)) = v4
      <4> HIDE DEF v4
      <4> QED
        BY <3>3, <3>4, <3>6, <1>6
    <3>8. FoldSplice(d, r) = d /\ Counted(en, r) = [en EXCEPT ![m] = @ + 1]
      <4>1. r.op = "enter" /\ r.msg = m
        BY <3>7 DEF Enter
      <4> HIDE DEF r
      <4> QED
        BY <4>1 DEF FoldSplice, Counted
    <3>9. FoldAfter(q, d) = FoldAfter(p, d)
      BY <2>1, <2>3, <3>2, FoldsAre DEF FoldAfter
    <3>10. [en EXCEPT ![m] = @ + 1] \in [Msg -> Nat]
      BY <3>1
    <3>11. EnteredAfter(q, [en EXCEPT ![m] = @ + 1]) = EnteredAfter(p, en)
      BY <3>1, <3>2 DEF EnteredAfter
    <3>12. Goal(q)
      BY <3>1, <3>2, <3>5, <3>7, <3>8, <3>9, <3>10, <3>11
    <3> QED
      BY <3>2, <3>12
  <2>4. CASE p.back = <<>> /\ p.enter = <<>>
    <3> DEFINE q == [p EXCEPT !.last = NoClaim]
    <3>1. q \in Plans /\ q.first = NoClaim /\ ~q.clear /\ q.back = <<>> /\ q.enter = <<>> /\ q.last = NoClaim
      BY <1>1, <1>9, <2>4, FoldsAre DEF Plans
    <3> HIDE DEF q
    <3>2. Inserts(<<>>) = <<>> /\ Enters(<<>>) = <<>>
      BY InsertsFacts, EntersFacts, Nothing
    <3>3. Writes(p) = w5
      <4>1. w3 = <<>> \o (<<>> \o w5)
        BY <2>4, <3>2
      <4> HIDE DEF w5
      <4> QED
        BY <4>1, <2>0, <1>2, <1>3
    <3>4. p.last # NoClaim /\ w5 = <<Claim(p.last)>> /\ Claim(p.last) \in Records
      BY <1>1, <3>3, RecordsAre DEF Claimed
    <3>5. r = Claim(p.last) /\ Tail(Writes(p)) = <<>>
      <4>1. <<>> \in Seq(Records) /\ w5 = <<Claim(p.last)>> \o <<>>
        BY <3>4
      <4> HIDE DEF w5
      <4> QED
        BY <4>1, <3>3, <3>4, <1>6
    <3>6. Writes(q) = <<>>
      BY <3>1, <3>2, <1>5 DEF Writes, Cleared
    <3>7. FoldSplice(d, r) = Drain(d, p.last) /\ Counted(en, r) = en
      BY <3>5 DEF FoldSplice, Counted, Claim, Drain
    <3>8. Drain(d, p.last) \in Folds /\ Drain(Drain(d, p.last), NoClaim) = Drain(d, p.last)
          /\ PutBack(Drain(d, p.last), <<>>) = Drain(d, p.last) /\ PutBack(d, <<>>) = d
      BY <1>1, FoldsAre
    <3>9. FoldAfter(q, Drain(d, p.last)) = FoldAfter(p, d)
      BY <2>1, <2>4, <3>1, <3>8 DEF FoldAfter
    <3>10. EnteredAfter(q, en) = EnteredAfter(p, en)
      BY <3>1, <2>4 DEF EnteredAfter
    <3>11. Once(q.enter)
      BY <3>1, Nothing
    <3>12. Goal(q)
      BY <3>5, <3>6, <3>7, <3>8, <3>9, <3>10, <3>11
    <3> QED
      BY <3>1, <3>12
  <2> QED
    BY <2>2, <2>3, <2>4
<1> QED
  BY <1>1, <1>7, <1>8, <1>9

-----------------------------------------------------------------------------
(* The inductive invariant tells the story of the fold as it will be once   *)
(* the segment's records are written (d), and of the history then (en).     *)
Folded(d) == ToSet(d.turnQueue) \union ToSet(Messages(d.stepQueue))
Unrepeated(d) ==
  /\ Once(d.turnQueue) /\ Once(Messages(d.stepQueue))
  /\ ToSet(d.turnQueue) \intersect ToSet(Messages(d.stepQueue)) = {}

(* What the claim in flight has taken of the fold, and what it leaves.      *)
Taken(d, c) == ToSet(SubSeq(d.turnQueue, 1, c.turns))
               \union ToSet(Messages(SubSeq(d.stepQueue, 1, c.steps)))
Rest(d) == Drain(d, pendingClaim)

(* A message is in one place at most: unsent, withdrawn, folded or entered. *)
FoldInv(d, en) ==
  /\ Unrepeated(d) /\ unsent \intersect dropped = {}
  /\ \A m \in Folded(d) : en[m] = 0 /\ m \notin unsent /\ m \notin dropped
  /\ \A m \in Msg : en[m] <= 1 /\ (en[m] > 0 => m \notin unsent /\ m \notin dropped)

(* The batch of the pre-step await is the front of the fold; a cancel may   *)
(* have recorded its claim, and its notices are then in limbo.              *)
ClaimInv(d, en) ==
  /\ claimed # <<>> => phase = "preStep"
  /\ Once(claimed)
  /\ pendingClaim.turns <= Len(d.turnQueue) /\ pendingClaim.steps <= Len(d.stepQueue)
  /\ pendingClaim # NoClaim => phase = "preStep" /\ Taken(d, pendingClaim) = ToSet(claimed)
  /\ pendingClaim = NoClaim /\ claimed # <<>> =>
       /\ aborted
       /\ \A m \in ToSet(claimed) :
            m \notin Folded(d) /\ en[m] = 0 /\ m \notin unsent /\ (m \in Notice <=> m \notin dropped)

(* The live queues are what the claim leaves of the fold.                   *)
LiveInv(d) ==
  /\ ToSet(Queued) \subseteq Folded(Rest(d))
  /\ Live /\ ~disposed =>
       /\ Rest(d).turnQueue = turnQueue
       /\ Len(Rest(d).stepQueue) = Len(stepQueue) + Len(heldQueue)
       /\ ToSet(Rest(d).stepQueue) = ToSet(stepQueue) \union ToSet(Quiet(heldQueue))
       /\ Once(Messages(stepQueue)) /\ Once(heldQueue)
       /\ ToSet(Messages(stepQueue)) \intersect ToSet(heldQueue) = {}

Kept(d, en) ==
  \A m \in Msg \ (unsent \union dropped) : en[m] > 0 \/ m \in Folded(d) \/ InLimbo(m)

Story(d, en) == FoldInv(d, en) /\ ClaimInv(d, en) /\ LiveInv(d) /\ Kept(d, en)

(* Where the driver stands: a step is within its bound, disposal aborts a   *)
(* turn and starts none, an idle agent has nothing that wakes it.           *)
Ctl ==
  /\ phase = "claim" => step < MaxSteps
  /\ phase \in {"dead", "closed"} => script = <<>>
  /\ disposed /\ phase \notin {"idle", "closed", "dead"} => aborted
  /\ phase = "begin" => ~disposed
  /\ phase = "idle" /\ ~disposed /\ ~lost => ~HasWakingPending

Ahead(d, en) ==
  \E p \in Plans : /\ script = Writes(p) /\ Once(p.enter)
                   /\ d = FoldAfter(p, durable) /\ en = EnteredAfter(p, entered)

Told == Sound => \E d \in Folds, en \in [Msg -> Nat] : Ahead(d, en) /\ Story(d, en)

IInv == TypeOK /\ Ctl /\ Told

-----------------------------------------------------------------------------
LEMMA FoldedIsMsg == ASSUME NEW d \in Folds PROVE Folded(d) \subseteq Msg
<1>1. d.turnQueue \in Seq(Msg) /\ d.stepQueue \in Seq(Entry)
  BY DEF Folds
<1>2. ToSet(d.turnQueue) \subseteq Msg
  BY <1>1, Places
<1>3. ToSet(Messages(d.stepQueue)) \subseteq Msg
  BY <1>1, MessagesFacts
<1> QED
  BY <1>2, <1>3 DEF Folded

(* A claim splits the fold into its front and the rest.                     *)
LEMMA ClaimSplits ==
  ASSUME NEW d \in Folds, NEW c \in Claims,
         c.turns <= Len(d.turnQueue), c.steps <= Len(d.stepQueue), Unrepeated(d)
  PROVE  /\ Drain(d, c) \in Folds /\ Unrepeated(Drain(d, c))
         /\ Folded(d) = Taken(d, c) \union Folded(Drain(d, c))
         /\ Taken(d, c) \intersect Folded(Drain(d, c)) = {}
<1> DEFINE t == d.turnQueue
           q == d.stepQueue
           s == Messages(q)
           t1 == SubSeq(t, 1, c.turns)
           t2 == From(t, c.turns)
           s1 == SubSeq(s, 1, c.steps)
           s2 == From(s, c.steps)
<1>1. t \in Seq(Msg) /\ q \in Seq(Entry) /\ s \in Seq(Msg) /\ Len(s) = Len(q)
  <2>1. t \in Seq(Msg) /\ q \in Seq(Entry)
    BY DEF Folds
  <2> QED
    BY <2>1, MessagesFacts
<1>2. c.turns \in 0..Len(t) /\ c.steps \in 0..Len(s) /\ c.steps \in 0..Len(q)
  <2>1. c.turns \in Nat /\ c.steps \in Nat
    BY DEF Claims
  <2>2. Len(t) \in Nat /\ Len(s) \in Nat
    BY <1>1, LenProperties
  <2> QED
    BY <1>1, <2>1, <2>2
<1>3. Drain(d, c) \in Folds
  BY FoldsAre
<1>4. Messages(SubSeq(q, 1, c.steps)) = s1 /\ Messages(From(q, c.steps)) = s2
  BY <1>1, <1>2, MessagesFrom
<1>5. /\ Taken(d, c) = ToSet(t1) \union ToSet(s1)
      /\ Folded(Drain(d, c)) = ToSet(t2) \union ToSet(s2)
      /\ Folded(d) = ToSet(t) \union ToSet(s)
  BY <1>4 DEF Taken, Folded, Drain
<1>6. Once(t) /\ Once(s) /\ ToSet(t) \intersect ToSet(s) = {}
  BY DEF Unrepeated
<1>7. Unrepeated(Drain(d, c)) <=> Once(t2) /\ Once(s2) /\ ToSet(t2) \intersect ToSet(s2) = {}
  BY <1>4 DEF Unrepeated, Drain
<1>8. ToSet(t) = ToSet(t1) \union ToSet(t2) /\ Once(t2) /\ ToSet(t1) \intersect ToSet(t2) = {}
  <2> HIDE DEF t
  <2> QED
    BY <1>1, <1>2, <1>6, FromSplits
<1>9. ToSet(s) = ToSet(s1) \union ToSet(s2) /\ Once(s2) /\ ToSet(s1) \intersect ToSet(s2) = {}
  <2> HIDE DEF s
  <2> QED
    BY <1>1, <1>2, <1>6, FromSplits
<1> HIDE DEF t, s, t1, t2, s1, s2
<1> QED
  BY <1>3, <1>5, <1>6, <1>7, <1>8, <1>9

LEMMA PutBackFacts ==
  ASSUME NEW d \in Folds, NEW s \in Seq(Msg)
  PROVE  LET f == PutBack(d, s)
         IN  /\ f \in Folds /\ f.turnQueue = d.turnQueue
             /\ Folded(f) = Folded(d) \union ToSet(s)
             /\ Len(f.stepQueue) = Len(d.stepQueue) + Len(s)
             /\ ToSet(f.stepQueue) = ToSet(d.stepQueue) \union ToSet(Quiet(s))
             /\ Unrepeated(d) /\ Once(s) /\ ToSet(s) \intersect Folded(d) = {} => Unrepeated(f)
<1> DEFINE f == PutBack(d, s)
           q == d.stepQueue
           a == Messages(q)
           b == Quiet(s)
<1>1. d.turnQueue \in Seq(Msg) /\ q \in Seq(Entry) /\ a \in Seq(Msg)
  <2>1. q \in Seq(Entry) /\ d.turnQueue \in Seq(Msg)
    BY DEF Folds
  <2> QED
    BY <2>1, MessagesFacts
<1>2. b \in Seq(Entry) /\ Len(b) = Len(s) /\ Messages(b) = s
  BY QuietFacts
<1>3. f \in Folds
  BY FoldsAre
<1>4. f.turnQueue = d.turnQueue /\ f.stepQueue = q \o b
  BY DEF PutBack
<1> HIDE DEF q, a, b
<1>5. Len(q \o b) = Len(q) + Len(b) /\ ToSet(q \o b) = ToSet(q) \union ToSet(b)
  <2>1. q \in Seq(Entry) /\ b \in Seq(Entry)
    BY <1>1, <1>2
  <2> QED
    BY <2>1, ConcatFacts
<1>6. Messages(q \o b) = a \o s
  BY <1>1, <1>2, MessagesConcat DEF a
<1>7. /\ ToSet(a \o s) = ToSet(a) \union ToSet(s)
      /\ Once(a) /\ Once(s) /\ ToSet(a) \intersect ToSet(s) = {} => Once(a \o s)
  BY <1>1, ConcatFacts
<1>8. Folded(d) = ToSet(d.turnQueue) \union ToSet(a)
  BY DEF Folded, a, q
<1>9. Unrepeated(d) <=> Once(d.turnQueue) /\ Once(a) /\ ToSet(d.turnQueue) \intersect ToSet(a) = {}
  BY DEF Unrepeated, a, q
<1> HIDE DEF f
<1>10. Folded(f) = ToSet(d.turnQueue) \union ToSet(a \o s)
  BY <1>4, <1>6 DEF Folded
<1>11. Unrepeated(f) <=> Once(d.turnQueue) /\ Once(a \o s) /\ ToSet(d.turnQueue) \intersect ToSet(a \o s) = {}
  BY <1>4, <1>6 DEF Unrepeated
<1>12. Folded(f) = Folded(d) \union ToSet(s)
  BY <1>7, <1>8, <1>10
<1>13. Unrepeated(d) /\ Once(s) /\ ToSet(s) \intersect Folded(d) = {} => Unrepeated(f)
  BY <1>7, <1>8, <1>9, <1>11
<1>14. Len(f.stepQueue) = Len(d.stepQueue) + Len(s)
       /\ ToSet(f.stepQueue) = ToSet(d.stepQueue) \union ToSet(Quiet(s))
  BY <1>2, <1>4, <1>5 DEF q, b
<1> QED
  BY <1>3, <1>4, <1>12, <1>13, <1>14 DEF f

InOrder(q, h, t) == Messages(q) \o h \o t

LEMMA QueuesHold ==
  \A q \in Seq(Entry), h \in Seq(Msg), t \in Seq(Msg) :
    /\ InOrder(q, h, t) \in Seq(Msg) /\ ToSet(InOrder(q, h, t)) \subseteq Msg
    /\ ToSet(InOrder(q, h, t)) = ToSet(Messages(q)) \union ToSet(h) \union ToSet(t)
<1> SUFFICES ASSUME NEW q \in Seq(Entry), NEW h \in Seq(Msg), NEW t \in Seq(Msg)
             PROVE  /\ InOrder(q, h, t) \in Seq(Msg) /\ ToSet(InOrder(q, h, t)) \subseteq Msg
                    /\ ToSet(InOrder(q, h, t)) = ToSet(Messages(q)) \union ToSet(h) \union ToSet(t)
  OBVIOUS
<1> DEFINE a == Messages(q)
<1>1. a \in Seq(Msg)
  BY MessagesFacts
<1> HIDE DEF a
<1>2. a \o h \in Seq(Msg) /\ ToSet(a \o h) = ToSet(a) \union ToSet(h)
  BY <1>1, ConcatFacts
<1>3. a \o h \o t \in Seq(Msg) /\ ToSet(a \o h \o t) = ToSet(a \o h) \union ToSet(t)
  BY <1>2, ConcatFacts
<1>4. ToSet(a \o h \o t) \subseteq Msg
  BY <1>3, Places
<1>5. ToSet(a \o h \o t) = ToSet(a) \union ToSet(h) \union ToSet(t)
  BY <1>2, <1>3
<1> QED
  BY <1>3, <1>4, <1>5 DEF a, InOrder

LEMMA QueuedOnce ==
  ASSUME NEW q \in Seq(Entry), NEW h \in Seq(Msg), NEW t \in Seq(Msg),
         Once(Messages(q)), Once(h), Once(t), ToSet(Messages(q)) \intersect ToSet(h) = {},
         ToSet(t) \intersect (ToSet(Messages(q)) \union ToSet(h)) = {}
  PROVE  Once(InOrder(q, h, t))
<1> DEFINE a == Messages(q)
<1>1. a \in Seq(Msg)
  BY MessagesFacts
<1> HIDE DEF a
<1>2. /\ a \o h \in Seq(Msg) /\ ToSet(a \o h) = ToSet(a) \union ToSet(h) /\ Once(a \o h)
  BY <1>1, ConcatFacts DEF a
<1> DEFINE b == a \o h
<1>3. b \in Seq(Msg) /\ Once(b) /\ ToSet(b) \intersect ToSet(t) = {}
  BY <1>2 DEF a
<1> HIDE DEF b
<1>4. Once(b \o t)
  BY <1>3, ConcatFacts
<1> QED
  BY <1>4 DEF a, b, InOrder

LEMMA QueuedHolds ==
  ASSUME TypeOK
  PROVE  /\ Queued = InOrder(stepQueue, heldQueue, turnQueue)
         /\ Queued \in Seq(Msg) /\ ToSet(Queued) \subseteq Msg
         /\ ToSet(Queued) = ToSet(Messages(stepQueue)) \union ToSet(heldQueue) \union ToSet(turnQueue)
<1>1. Queued = InOrder(stepQueue, heldQueue, turnQueue)
  BY DEF Queued, InOrder
<1>2. stepQueue \in Seq(Entry) /\ heldQueue \in Seq(Msg) /\ turnQueue \in Seq(Msg)
  BY DEF TypeOK
<1> QED
  BY <1>1, <1>2, QueuesHold

(* Step input with the held notices: the same senders, whichever queue.     *)
LEMMA SameMessages ==
  ASSUME NEW q \in Seq(Entry), NEW a \in Seq(Entry), NEW h \in Seq(Msg),
         ToSet(q) = ToSet(a) \union ToSet(Quiet(h))
  PROVE  ToSet(Messages(q)) = ToSet(Messages(a)) \union ToSet(h)
<1>1. \A r \in Seq(Entry) : \A m : m \in ToSet(Messages(r)) <=> \E e \in ToSet(r) : e.msg = m
  BY MessagesFacts
<1>2. Quiet(h) \in Seq(Entry) /\ Messages(Quiet(h)) = h
  BY QuietFacts
<1>3. \A m : m \in ToSet(h) <=> \E e \in ToSet(Quiet(h)) : e.msg = m
  BY <1>1, <1>2
<1> QED
  BY <1>1, <1>3

(* The claim in flight is apart from what it leaves.                        *)
LEMMA ClaimIsApart ==
  ASSUME TypeOK, NEW d \in Folds, NEW en \in [Msg -> Nat], FoldInv(d, en), ClaimInv(d, en)
  PROVE  /\ Rest(d) \in Folds /\ Unrepeated(Rest(d))
         /\ Folded(Rest(d)) \subseteq Folded(d)
         /\ Folded(d) \subseteq Folded(Rest(d)) \union ToSet(claimed)
         /\ ToSet(claimed) \intersect Folded(Rest(d)) = {}
         /\ ToSet(claimed) \subseteq Msg
         /\ \A m \in ToSet(claimed) :
              /\ en[m] = 0 /\ m \notin unsent /\ (m \in Notice => m \notin dropped)
              /\ pendingClaim # NoClaim => m \notin dropped
         /\ pendingClaim = NoClaim => Rest(d) = d
         /\ pendingClaim = NoClaim /\ claimed # <<>> =>
              \A m \in ToSet(claimed) : m \in Notice <=> m \notin dropped
<1>1. pendingClaim \in Claims /\ claimed \in Seq(Msg)
  BY DEF TypeOK, Claims
<1>2. /\ Rest(d) \in Folds /\ Unrepeated(Rest(d))
      /\ Folded(d) = Taken(d, pendingClaim) \union Folded(Rest(d))
      /\ Taken(d, pendingClaim) \intersect Folded(Rest(d)) = {}
  BY <1>1, ClaimSplits DEF Rest, FoldInv, ClaimInv
<1>3. pendingClaim = NoClaim => Rest(d) = d
  BY FoldsAre DEF Rest
<1>4. ToSet(claimed) \subseteq Msg /\ (claimed = <<>> => ToSet(claimed) = {})
  BY <1>1, Places
<1>5. CASE pendingClaim # NoClaim
  <2>1. Taken(d, pendingClaim) = ToSet(claimed)
    BY <1>5 DEF ClaimInv
  <2>2. \A m \in ToSet(claimed) : en[m] = 0 /\ m \notin unsent /\ m \notin dropped
    BY <1>2, <2>1 DEF FoldInv
  <2> QED
    BY <1>2, <1>4, <1>5, <2>1, <2>2
<1>6. CASE pendingClaim = NoClaim /\ claimed # <<>>
  <2>1. \A m \in ToSet(claimed) :
          m \notin Folded(d) /\ en[m] = 0 /\ m \notin unsent /\ (m \in Notice <=> m \notin dropped)
    BY <1>6 DEF ClaimInv
  <2> QED
    BY <1>2, <1>3, <1>4, <1>6, <2>1
<1>7. CASE pendingClaim = NoClaim /\ claimed = <<>>
  BY <1>2, <1>3, <1>4, <1>7
<1> QED
  BY <1>5, <1>6, <1>7

-----------------------------------------------------------------------------
(* Types.                                                                   *)
LEMMA FoldTypes ==
  ASSUME NEW d \in Folds, NEW r \in Records
  PROVE  FoldSplice(d, r) \in Folds
<1>0. d.turnQueue \in Seq(Msg) /\ d.stepQueue \in Seq(Entry)
      /\ (\A x : [d EXCEPT !.stepQueue = x] = [turnQueue |-> d.turnQueue, stepQueue |-> x])
      /\ \A x : [d EXCEPT !.turnQueue = x] = [turnQueue |-> x, stepQueue |-> d.stepQueue]
  BY DEF Folds
<1>1. \A S : \A s \in Seq(S), n \in Nat : From(s, n) \in Seq(S)
  <2> SUFFICES ASSUME NEW S, NEW s \in Seq(S), NEW n \in Nat PROVE From(s, n) \in Seq(S)
    OBVIOUS
  <2>1. Len(s) \in Nat /\ \A i \in (n + 1)..Len(s) : s[i] \in S
    BY LenProperties, ElementOfSeq
  <2> QED
    BY <2>1, SubSeqProperties DEF From
<1>2. CASE r \in [op : {"insert"}, entry : Entry]
  <2>1. r.op = "insert" /\ r.entry \in Entry
    BY <1>2
  <2>2. Append(d.stepQueue, r.entry) \in Seq(Entry)
    BY <1>0, <2>1, AppendProperties
  <2> QED
    BY <1>0, <2>1, <2>2 DEF FoldSplice, Folds
<1>3. CASE r \in [op : {"insertTurn", "enter"}, msg : Msg]
  <2>1. r.op \in {"insertTurn", "enter"} /\ r.msg \in Msg
    BY <1>3
  <2>2. Append(d.turnQueue, r.msg) \in Seq(Msg)
    BY <1>0, <2>1, AppendProperties
  <2> QED
    BY <1>0, <2>1, <2>2 DEF FoldSplice, Folds
<1>4. CASE r \in [op : {"claim"}, steps : Nat, turns : Nat]
  <2>1. r.op = "claim" /\ r.steps \in Nat /\ r.turns \in Nat
    BY <1>4
  <2>2. From(d.turnQueue, r.turns) \in Seq(Msg) /\ From(d.stepQueue, r.steps) \in Seq(Entry)
    BY <1>0, <1>1, <2>1
  <2> QED
    BY <2>1, <2>2 DEF FoldSplice, Folds
<1>5. CASE r = Clear
  <2>1. r.op = "clear"
    BY <1>5 DEF Clear
  <2> QED
    BY <2>1 DEF FoldSplice, Folds
<1> QED
  BY <1>2, <1>3, <1>4, <1>5 DEF Records

LEMMA RecordTypes ==
  ASSUME TypeOK, NEW r \in Records, Record(r)
  PROVE  durable' \in Folds /\ entered' \in [Msg -> Nat]
<1>1. durable \in Folds /\ entered \in [Msg -> Nat]
  BY DEF TypeOK, Folds
<1>2. durable' \in Folds
  BY <1>1, FoldTypes DEF Record
<1>3. r.op = "enter" => r.msg \in Msg
  BY DEF Records, Clear
<1>4. entered' \in [Msg -> Nat]
  BY <1>1, <1>3 DEF Record
<1> QED
  BY <1>2, <1>4

LEMMA CommitIs ==
  ASSUME TypeOK
  PROVE  pendingClaim \in Claims /\ Commit = Claimed(pendingClaim) /\ Commit \in Seq(Records)
  BY RecordsAre DEF TypeOK, Claims, Commit, Claimed

LEMMA NoticesAre ==
  ASSUME NEW s \in Seq(Msg)
  PROVE  /\ Notices(s) \in Seq(Msg) /\ ToSet(Notices(s)) = ToSet(s) \intersect Notice
         /\ Once(s) => Once(Notices(s))
         /\ Others(s) = ToSet(s) \ Notice /\ Others(s) \subseteq Msg
         /\ Quiet(Notices(s)) \in Seq(Entry) /\ Inserts(Notices(s)) \in Seq(Records)
<1>1. /\ Notices(s) \in Seq(Msg) /\ ToSet(Notices(s)) = ToSet(s) \intersect Notice
      /\ Once(s) => Once(Notices(s))
  BY OnlyFacts DEF Notices
<1>2. Others(s) = ToSet(s) \ Notice /\ Others(s) \subseteq Msg
  BY Places DEF Others
<1>3. Quiet(Notices(s)) \in Seq(Entry) /\ Inserts(Notices(s)) \in Seq(Records)
  BY <1>1, QuietFacts, InsertsFacts
<1> QED
  BY <1>1, <1>2, <1>3

Rests ==
  /\ turnQueue \in Seq(Msg) /\ stepQueue \in Seq(Entry)
  /\ heldQueue \in Seq(Msg) /\ claimed \in Seq(Msg)
  /\ pendingClaim \in Claims

LEMMA ConsumeTypes ==
  ASSUME TypeOK, NEW refused \in Seq(Msg), ConsumeClaim(refused)
  PROVE  /\ Rests' /\ script' \in Seq(Records) /\ dropped' \subseteq Msg /\ phase' = "ending"
<1>1. stepQueue \o Quiet(Notices(refused)) \in Seq(Entry)
  <2>1. stepQueue \in Seq(Entry) /\ Quiet(Notices(refused)) \in Seq(Entry)
    BY NoticesAre DEF TypeOK
  <2> QED
    BY <2>1, ConcatProperties
<1>2. Commit \o Inserts(Notices(refused)) \in Seq(Records)
  <2>1. Commit \in Seq(Records) /\ Inserts(Notices(refused)) \in Seq(Records)
    BY CommitIs, NoticesAre
  <2> QED
    BY <2>1, ConcatProperties
<1>3. Others(refused) \subseteq Msg
  BY NoticesAre
<1>4. <<>> \in Seq(Msg) /\ NoClaim \in Claims
  BY Nothing, FoldsAre
<1> QED
  BY <1>1, <1>2, <1>3, <1>4 DEF ConsumeClaim, TypeOK, Rests

LEMMA EnterTypes ==
  ASSUME TypeOK, NEW out, PreStepEnters(out)
  PROVE  /\ Rests' /\ script' \in Seq(Records) /\ dropped' \subseteq Msg
         /\ phase' \in {"ending", "stepping"}
<1> DEFINE enters == Only(claimed, Msg \ out)
           refused == Only(claimed, out)
<1>1. enters \in Seq(Msg) /\ refused \in Seq(Msg)
  BY OnlyFacts DEF TypeOK
<1>2. CASE ConsumeClaim(refused)
  <2> HIDE DEF refused
  <2> QED
    BY <1>1, <1>2, ConsumeTypes
<1>3. CASE ~ConsumeClaim(refused)
  <2>1. /\ heldQueue' = heldQueue \o Notices(refused)
        /\ script' = Inserts(Notices(refused)) \o Enters(enters) \o Commit
        /\ pendingClaim' = NoClaim /\ dropped' = dropped \union Others(refused)
        /\ claimed' = <<>> /\ phase' = "stepping"
        /\ UNCHANGED <<turnQueue, stepQueue>>
    BY <1>3 DEF PreStepEnters
  <2> HIDE DEF enters, refused
  <2>2. /\ Notices(refused) \in Seq(Msg) /\ Others(refused) \subseteq Msg
        /\ Inserts(Notices(refused)) \in Seq(Records)
    BY <1>1, NoticesAre
  <2>3. heldQueue \in Seq(Msg)
    BY DEF TypeOK
  <2>4. heldQueue \o Notices(refused) \in Seq(Msg)
    BY <2>2, <2>3, ConcatProperties
  <2>5. Enters(enters) \in Seq(Records) /\ Commit \in Seq(Records)
    BY <1>1, EntersFacts, CommitIs
  <2>6. Inserts(Notices(refused)) \o Enters(enters) \in Seq(Records)
    BY <2>2, <2>5, ConcatProperties
  <2>7. Inserts(Notices(refused)) \o Enters(enters) \o Commit \in Seq(Records)
    BY <2>5, <2>6, ConcatProperties
  <2>8. <<>> \in Seq(Msg) /\ NoClaim \in Claims
    BY Nothing, FoldsAre
  <2> QED
    BY <2>1, <2>2, <2>4, <2>7, <2>8 DEF TypeOK, Rests
<1> QED
  BY <1>2, <1>3

LEMMA ClearTypes ==
  ASSUME TypeOK, ClearDurably
  PROVE  /\ turnQueue' \in Seq(Msg) /\ stepQueue' \in Seq(Entry) /\ heldQueue' \in Seq(Msg)
         /\ pendingClaim' \in Claims /\ script' \in Seq(Records) /\ dropped' \subseteq Msg
<1> DEFINE kept == Notices(Queued)
           mid == IF Queued = <<>> THEN <<>> ELSE <<Clear>>
<1>1. Queued \in Seq(Msg) /\ claimed \in Seq(Msg)
  BY QueuedHolds DEF TypeOK
<1>2. /\ Quiet(kept) \in Seq(Entry) /\ Inserts(kept) \in Seq(Records)
      /\ Others(Queued) \subseteq Msg /\ Others(claimed) \subseteq Msg
  BY <1>1, NoticesAre
<1>3. mid \in Seq(Records) /\ Commit \in Seq(Records)
  BY CommitIs, RecordsAre
<1>4. script' = Commit \o mid \o Inserts(kept)
  BY DEF ClearDurably
<1> HIDE DEF kept, mid
<1>5. Commit \o mid \in Seq(Records)
  BY <1>3, ConcatProperties
<1>6. script' \in Seq(Records)
  BY <1>2, <1>4, <1>5, ConcatProperties
<1>7. <<>> \in Seq(Msg) /\ NoClaim \in Claims
  BY Nothing, FoldsAre
<1> QED
  BY <1>2, <1>6, <1>7 DEF ClearDurably, TypeOK, kept

LEMMA TakeTypes ==
  ASSUME TypeOK, NEW first \in BOOLEAN, TakeClaim(first)
  PROVE  /\ turnQueue' \in Seq(Msg) /\ stepQueue' \in Seq(Entry) /\ claimed' \in Seq(Msg)
         /\ pendingClaim' \in Claims /\ gaps' \subseteq Gaps
<1> DEFINE turns == IF first /\ turnQueue # <<>> THEN 1 ELSE 0
<1>1. turnQueue \in Seq(Msg) /\ stepQueue \in Seq(Entry) /\ Len(turnQueue) \in Nat /\ Len(stepQueue) \in Nat
  BY LenProperties DEF TypeOK
<1>2. turns \in {0, 1} /\ turns \in 0..Len(turnQueue)
  BY <1>1, EmptySeq
<1>3. /\ turnQueue' = From(turnQueue, turns) /\ stepQueue' = <<>>
      /\ claimed' = SubSeq(turnQueue, 1, turns) \o Messages(stepQueue)
      /\ pendingClaim' = [steps |-> Len(stepQueue), turns |-> turns]
  BY DEF TakeClaim
<1> HIDE DEF turns
<1>4. From(turnQueue, turns) \in Seq(Msg) /\ SubSeq(turnQueue, 1, turns) \in Seq(Msg)
  BY <1>1, <1>2, FromFacts
<1>5. Messages(stepQueue) \in Seq(Msg)
  BY <1>1, MessagesFacts
<1>6. claimed' \in Seq(Msg)
  BY <1>3, <1>4, <1>5, ConcatProperties
<1>7. gaps' \subseteq Gaps
  BY DEF TakeClaim, TypeOK, Gaps
<1> QED
  BY <1>1, <1>2, <1>3, <1>4, <1>6, <1>7 DEF Claims

LEMMA SendTypes ==
  ASSUME TypeOK, NEW m \in Msg, Send(m)
  PROVE  TypeOK'
<1>1. SendTurn(m) \/ \E waking \in Wakes(m) : SendStep(m, waking)
  BY DEF Send
<1>2. Wakes(m) \subseteq BOOLEAN
  BY DEF Wakes
<1>3. ASSUME SendTurn(m)
      PROVE  /\ turnQueue' \in Seq(Msg) /\ stepQueue' \in Seq(Entry)
             /\ durable' \in Folds /\ entered' \in [Msg -> Nat] /\ dropped' \subseteq Msg
             /\ phase' \in {phase, "begin"}
  <2>1. InsertTurn(m) \in Records
    BY DEF InsertTurn, Records
  <2>2. Append(turnQueue, m) \in Seq(Msg)
    BY AppendProperties DEF TypeOK
  <2>3. Record(InsertTurn(m)) => durable' \in Folds /\ entered' \in [Msg -> Nat]
    BY <2>1, RecordTypes
  <2> QED
    BY <1>3, <2>2, <2>3 DEF SendTurn, TypeOK, Folds
<1>4. ASSUME NEW waking \in BOOLEAN, SendStep(m, waking)
      PROVE  /\ turnQueue' \in Seq(Msg) /\ stepQueue' \in Seq(Entry)
             /\ durable' \in Folds /\ entered' \in [Msg -> Nat] /\ dropped' \subseteq Msg
             /\ phase' \in {phase, "begin"}
  <2> DEFINE entry == [msg |-> m, waking |-> waking /\ ~disposed]
  <2>1. entry \in Entry
    BY DEF Entry
  <2>2. stepQueue' = Append(stepQueue, entry) /\ Record(Insert(entry)) /\ phase' \in {phase, "begin"}
        /\ UNCHANGED <<turnQueue, dropped>>
    BY <1>4 DEF SendStep
  <2> HIDE DEF entry
  <2>3. Insert(entry) \in Records
    BY <2>1, RecordsAre
  <2>4. Append(stepQueue, entry) \in Seq(Entry)
    BY <2>1, AppendProperties DEF TypeOK
  <2>5. durable' \in Folds /\ entered' \in [Msg -> Nat]
    BY <2>2, <2>3, RecordTypes
  <2> QED
    BY <2>2, <2>4, <2>5 DEF TypeOK
<1>5. /\ turnQueue' \in Seq(Msg) /\ stepQueue' \in Seq(Entry)
      /\ durable' \in Folds /\ entered' \in [Msg -> Nat] /\ dropped' \subseteq Msg
      /\ phase' \in {phase, "begin"}
  BY <1>1, <1>2, <1>3, <1>4
<1> QED
  BY <1>5 DEF Send, TypeOK, Folds

LEMMA TypeKeeps == ASSUME TypeOK, Ctl, [Next]_vars PROVE TypeOK'
<1>0. MaxSteps \in Nat /\ MaxSteps >= 1 /\ MaxLives \in Nat /\ MaxCancels \in Nat
  BY BoundsArePositive
<1>1. ASSUME WriteRecord PROVE TypeOK'
  <2>1. Head(script) \in Records /\ Tail(script) \in Seq(Records)
    BY <1>1, HeadTailProperties DEF WriteRecord, TypeOK
  <2>2. durable' \in Folds /\ entered' \in [Msg -> Nat]
    BY <1>1, <2>1, RecordTypes DEF WriteRecord
  <2> QED
    BY <1>1, <2>1, <2>2 DEF WriteRecord, TypeOK, Folds, inbox, ghosts
<1>2. ASSUME BeginTurn PROVE TypeOK'
  <2>1. /\ turnQueue' \in Seq(Msg) /\ stepQueue' \in Seq(Entry) /\ claimed' \in Seq(Msg)
        /\ pendingClaim' \in Claims /\ gaps' \subseteq Gaps
    BY <1>2, TakeTypes DEF BeginTurn
  <2>2. /\ phase' = "preStep" /\ step' \in 0..MaxSteps /\ aborted' = FALSE
        /\ UNCHANGED <<heldQueue, disposed, lost, script, durable, entered, unsent,
                       dropped, lives, cancels>>
    BY <1>0, <1>2 DEF BeginTurn
  <2> QED
    BY <2>1, <2>2 DEF TypeOK, Claims, Awaits
<1>3. ASSUME NextStep PROVE TypeOK'
  <2>1. CASE aborted
    BY <1>3, <2>1 DEF NextStep, TypeOK, inbox, Awaits
  <2>2. CASE ~aborted
    <3>1. /\ turnQueue' \in Seq(Msg) /\ stepQueue' \in Seq(Entry) /\ claimed' \in Seq(Msg)
          /\ pendingClaim' \in Claims /\ gaps' \subseteq Gaps
      BY <1>3, <2>2, TakeTypes DEF NextStep
    <3>2. step' \in 0..MaxSteps
      BY <1>0, <1>3, <2>2 DEF NextStep, Ctl, TypeOK
    <3>3. /\ phase' = "preStep"
          /\ UNCHANGED <<heldQueue, aborted, disposed, lost, script, durable, entered, unsent,
                         dropped, lives, cancels>>
      BY <1>3, <2>2 DEF NextStep
    <3> QED
      BY <3>1, <3>2, <3>3 DEF TypeOK, Claims, Awaits
  <2> QED
    BY <2>1, <2>2
<1>4. ASSUME PreStepFails PROVE TypeOK'
  <2>1. claimed \in Seq(Msg)
    BY DEF TypeOK
  <2>2. Rests' /\ script' \in Seq(Records) /\ dropped' \subseteq Msg /\ phase' = "ending"
    BY <1>4, <2>1, ConsumeTypes DEF PreStepFails
  <2>3. UNCHANGED <<step, aborted, disposed, lost, durable, entered, unsent, gaps, lives, cancels>>
    BY <1>4 DEF PreStepFails
  <2> QED
    BY <2>2, <2>3 DEF TypeOK, Rests, Claims
<1>5. ASSUME NEW out \in SUBSET ToSet(claimed), PreStepEnters(out) PROVE TypeOK'
  <2>1. Rests' /\ script' \in Seq(Records) /\ dropped' \subseteq Msg /\ phase' \in {"ending", "stepping"}
    BY <1>5, EnterTypes
  <2>2. UNCHANGED <<step, aborted, disposed, lost, durable, entered, unsent, gaps, lives, cancels>>
    BY <1>5 DEF PreStepEnters
  <2> QED
    BY <2>1, <2>2 DEF TypeOK, Rests, Claims, Awaits
<1>6. ASSUME StepReturns \/ TurnStops \/ Flushed \/ Close PROVE TypeOK'
  <2>1. phase' \in Awaits \union {"begin", "claim", "ending", "closed", "dead"}
    BY <1>6 DEF StepReturns, TurnStops, Flushed, Close, Loop, Awaits
  <2>2. UNCHANGED <<inbox, claimed, step, aborted, disposed, lost, script, durable, entered, ghosts>>
    BY <1>6 DEF StepReturns, TurnStops, Flushed, Close
  <2> QED
    BY <2>1, <2>2 DEF TypeOK, inbox, ghosts
<1>7. ASSUME EndTurn PROVE TypeOK'
  <2>1. stepQueue \in Seq(Entry) /\ Quiet(heldQueue) \in Seq(Entry)
    BY QuietFacts DEF TypeOK
  <2>2. stepQueue \o Quiet(heldQueue) \in Seq(Entry)
    BY <2>1, ConcatProperties
  <2> QED
    BY <1>7, <2>2, Nothing DEF EndTurn, TypeOK, ghosts, Awaits
<1>8. ASSUME NEW m \in Msg, Send(m) PROVE TypeOK'
  BY <1>8, SendTypes
<1>9. ASSUME NEW keepInbox \in BOOLEAN, Cancel(keepInbox) PROVE TypeOK'
  <2>1. /\ turnQueue' \in Seq(Msg) /\ stepQueue' \in Seq(Entry) /\ heldQueue' \in Seq(Msg)
        /\ pendingClaim' \in Claims /\ script' \in Seq(Records) /\ dropped' \subseteq Msg
    <3>1. CASE keepInbox
      BY <1>9, <3>1 DEF Cancel, TypeOK, inbox, Claims
    <3>2. CASE ~keepInbox
      BY <1>9, <3>2, ClearTypes DEF Cancel
    <3> QED
      BY <3>1, <3>2
  <2>2. cancels' \in 0..MaxCancels /\ gaps' \subseteq Gaps /\ aborted' \in BOOLEAN
    BY <1>0, <1>9 DEF Cancel, TypeOK, Gaps
  <2>3. UNCHANGED <<phase, claimed, step, disposed, lost, durable, entered, unsent, lives>>
    BY <1>9 DEF Cancel
  <2> QED
    BY <2>1, <2>2, <2>3 DEF TypeOK, Claims
<1>10. ASSUME Dispose PROVE TypeOK'
  BY <1>10, Nothing DEF Dispose, TypeOK, ghosts
<1>11. ASSUME StoreFails PROVE TypeOK'
  BY <1>11 DEF StoreFails, TypeOK, inbox, ghosts
<1>12. ASSUME Kill PROVE TypeOK'
  <2>1. gaps' \subseteq Gaps
    BY <1>12 DEF Kill, TypeOK, Windows, Gaps
  <2>2. <<>> \in Seq(Msg) /\ <<>> \in Seq(Entry) /\ <<>> \in Seq(Records) /\ NoClaim \in Claims
    BY Nothing, FoldsAre
  <2>3. 0 \in 0..MaxSteps
    BY <1>0
  <2> QED
    BY <1>12, <2>1, <2>2, <2>3 DEF Kill, TypeOK, Claims
<1>13. ASSUME Resume PROVE TypeOK'
  <2>1. <<>> \in Seq(Msg) /\ <<>> \in Seq(Entry) /\ NoClaim \in Claims
    BY Nothing, FoldsAre
  <2>2. 0 \in 0..MaxSteps /\ lives' \in 1..MaxLives
    BY <1>0, <1>13 DEF Resume, TypeOK
  <2> QED
    BY <1>13, <2>1, <2>2 DEF Resume, TypeOK, Claims, Awaits
<1>14. ASSUME UNCHANGED vars PROVE TypeOK'
  BY <1>14 DEF vars, inbox, ghosts, TypeOK
<1> QED
  BY <1>1, <1>2, <1>3, <1>4, <1>5, <1>6, <1>7, <1>8, <1>9, <1>10, <1>11, <1>12, <1>13, <1>14
     DEF Next, Driver, Environment

-----------------------------------------------------------------------------
(* The driver's phases.                                                     *)
LEMMA QuietAppended ==
  ASSUME NEW t \in Seq(Msg), NEW q \in Seq(Entry), NEW e \in Entry, ~e.waking, HasWaking(t, Append(q, e))
  PROVE  HasWaking(t, q)
<1> DEFINE r == Append(q, e)
           n == Len(q)
<1>1. r \in Seq(Entry) /\ Len(r) = n + 1 /\ n \in Nat /\ DOMAIN q = 1..n /\ DOMAIN r = 1..(n + 1)
  BY LenProperties, AppendProperties
<1>2. (\A i \in 1..n : r[i] = q[i]) /\ r[n + 1] = e
  BY AppendProperties
<1>3. \A i : i \in 1..(n + 1) <=> i \in 1..n \/ i = n + 1
  BY <1>1
<1> HIDE DEF r, n
<1>4. HasWaking(t, r)
  BY DEF r
<1> QED
  BY <1>1, <1>2, <1>3, <1>4 DEF HasWaking

LEMMA QuietIsQuiet == ASSUME NEW s \in Seq(Msg) PROVE ~HasWaking(<<>>, Quiet(s))
<1>1. Quiet(s) \in Seq(Entry) /\ Len(Quiet(s)) = Len(s)
      /\ \A i \in 1..Len(s) : Quiet(s)[i] = [msg |-> s[i], waking |-> FALSE]
  BY QuietFacts
<1>2. DOMAIN Quiet(s) = 1..Len(s)
  BY <1>1, LenProperties
<1>3. ASSUME NEW i \in 1..Len(s) PROVE ~Quiet(s)[i].waking
  <2>1. Quiet(s)[i] = [msg |-> s[i], waking |-> FALSE]
    BY <1>1
  <2> QED
    BY <2>1
<1> QED
  BY <1>2, <1>3 DEF HasWaking

LEMMA CtlKept == ASSUME TypeOK, Ctl, [Next]_vars PROVE Ctl'
<1> USE DEF Awaits
<1>1. ASSUME WriteRecord PROVE Ctl'
  BY <1>1 DEF WriteRecord, Ctl, inbox, HasWakingPending
<1>2. ASSUME BeginTurn PROVE Ctl'
  BY <1>2 DEF BeginTurn, Ctl
<1>3. ASSUME NextStep PROVE Ctl'
  BY <1>3 DEF NextStep, Ctl, inbox
<1>4. ASSUME PreStepFails PROVE Ctl'
  BY <1>4 DEF PreStepFails, ConsumeClaim, Ctl
<1>5. ASSUME NEW out \in SUBSET ToSet(claimed), PreStepEnters(out) PROVE Ctl'
  <2>1. phase = "preStep" /\ phase' \in {"ending", "stepping"} /\ UNCHANGED <<aborted, disposed>>
    BY <1>5, EnterTypes DEF PreStepEnters
  <2> QED
    BY <2>1 DEF Ctl
<1>6. ASSUME StepReturns \/ TurnStops PROVE Ctl'
  <2>1. step \in Nat /\ MaxSteps \in Nat
    BY BoundsArePositive DEF TypeOK
  <2>2. step >= MaxSteps \/ step < MaxSteps
    BY <2>1
  <2>3. phase \in {"stepping", "stopping"} /\ phase' \in {"ending", "claim", "stopping"}
        /\ (phase' = "claim" => step < MaxSteps) /\ UNCHANGED <<step, aborted, disposed>>
    BY <1>6, <2>1, <2>2 DEF StepReturns, TurnStops, Loop
  <2> QED
    BY <2>3 DEF Ctl
<1>7. ASSUME EndTurn PROVE Ctl'
  BY <1>7 DEF EndTurn, Ctl
<1>8. ASSUME Flushed PROVE Ctl'
  BY <1>8 DEF Flushed, Ctl, inbox, HasWakingPending
<1>9. ASSUME Close PROVE Ctl'
  BY <1>9 DEF Close, Ctl, inbox
<1>10. ASSUME NEW m \in Msg, Send(m) PROVE Ctl'
  <2>1. AtAwait /\ UNCHANGED <<step, aborted, disposed, lost, script>>
    BY <1>10 DEF Send
  <2>2. CASE SendTurn(m)
    <3>1. /\ disposed => UNCHANGED <<turnQueue, stepQueue, phase>>
          /\ ~disposed => phase' = IF phase = "idle" THEN "begin" ELSE phase
      BY <2>2 DEF SendTurn
    <3> QED
      BY <2>1, <3>1 DEF Ctl, AtAwait, HasWakingPending
  <2>3. CASE \E waking \in Wakes(m) : SendStep(m, waking)
    <3>1. PICK waking \in Wakes(m) : SendStep(m, waking)
      BY <2>3
    <3>2. waking \in BOOLEAN
      BY DEF Wakes
    <3> DEFINE entry == [msg |-> m, waking |-> waking /\ ~disposed]
    <3>3. /\ stepQueue' = Append(stepQueue, entry) /\ turnQueue' = turnQueue
          /\ phase' = IF entry.waking /\ phase = "idle" THEN "begin" ELSE phase
      BY <3>1 DEF SendStep
    <3>4. entry \in Entry /\ (entry.waking => ~disposed)
      BY <3>2 DEF Entry
    <3> HIDE DEF entry
    <3>5. ~entry.waking /\ HasWaking(turnQueue, Append(stepQueue, entry)) => HasWaking(turnQueue, stepQueue)
      BY <3>4, QuietAppended DEF TypeOK
    <3> QED
      BY <2>1, <3>3, <3>4, <3>5 DEF Ctl, AtAwait, HasWakingPending
  <2> QED
    BY <1>10, <2>2, <2>3 DEF Send
<1>11. ASSUME NEW keepInbox \in BOOLEAN, Cancel(keepInbox) PROVE Ctl'
  <2>1. /\ AtAwait /\ UNCHANGED <<phase, step, disposed, lost>>
        /\ aborted' = (aborted \/ phase # "idle")
    BY <1>11 DEF Cancel
  <2>2. CASE keepInbox
    <3>1. UNCHANGED <<turnQueue, stepQueue, script>>
      BY <1>11, <2>2 DEF Cancel, inbox
    <3>2. HasWakingPending' = HasWakingPending
      BY <3>1 DEF HasWakingPending
    <3> QED
      BY <2>1, <3>1, <3>2 DEF Ctl, AtAwait
  <2>3. CASE ~keepInbox
    <3>1. turnQueue' = <<>> /\ stepQueue' = Quiet(Notices(Queued))
      BY <1>11, <2>3 DEF Cancel, ClearDurably
    <3>2. Notices(Queued) \in Seq(Msg)
      BY QueuedHolds, NoticesAre
    <3>3. ~HasWaking(<<>>, Quiet(Notices(Queued)))
      BY <3>2, QuietIsQuiet
    <3>4. ~HasWakingPending'
      BY <3>1, <3>3 DEF HasWakingPending
    <3> QED
      BY <2>1, <3>4 DEF Ctl, AtAwait
  <2> QED
    BY <2>2, <2>3
<1>12. ASSUME Dispose PROVE Ctl'
  BY <1>12 DEF Dispose, Ctl, AtAwait
<1>13. ASSUME StoreFails PROVE Ctl'
  BY <1>13 DEF StoreFails, Ctl, inbox
<1>14. ASSUME Kill PROVE Ctl'
  BY <1>14 DEF Kill, Ctl
<1>15. ASSUME Resume PROVE Ctl'
  BY <1>15 DEF Resume, Ctl, HasWakingPending
<1>16. ASSUME UNCHANGED vars PROVE Ctl'
  BY <1>16 DEF vars, inbox, Ctl, HasWakingPending
<1> QED
  BY <1>1, <1>2, <1>3, <1>4, <1>5, <1>6, <1>7, <1>8, <1>9, <1>10, <1>11, <1>12, <1>13, <1>14, <1>15, <1>16
     DEF Next, Driver, Environment

-----------------------------------------------------------------------------
(* The story, step by step.                                                 *)
LEMMA Settled ==
  ASSUME TypeOK, Told, Sound, script = <<>>
  PROVE  \E d \in Folds, en \in [Msg -> Nat] : d = durable /\ en = entered /\ Story(d, en)
<1>1. PICK d \in Folds, en \in [Msg -> Nat] : Ahead(d, en) /\ Story(d, en)
  BY DEF Told
<1>2. PICK p \in Plans : script = Writes(p) /\ d = FoldAfter(p, durable) /\ en = EnteredAfter(p, entered)
  BY <1>1 DEF Ahead
<1>3. durable \in Folds /\ entered \in [Msg -> Nat]
  BY DEF TypeOK, Folds
<1>4. FoldAfter(p, durable) = durable /\ EnteredAfter(p, entered) = entered
  BY <1>2, <1>3, PlanIsDone
<1> QED
  BY <1>1, <1>2, <1>4

LEMMA Planned ==
  ASSUME NEW p \in Plans, script' = Writes(p), Once(p.enter),
         NEW d \in Folds, NEW en \in [Msg -> Nat],
         d = FoldAfter(p, durable'), en = EnteredAfter(p, entered'), Story(d, en)'
  PROVE  Told'
  BY DEF Told, Ahead

LEMMA Retold ==
  ASSUME script' = <<>>, NEW d \in Folds, NEW en \in [Msg -> Nat],
         d = durable', en = entered', Story(d, en)'
  PROVE  Told'
<1> DEFINE p == [first |-> NoClaim, clear |-> FALSE, back |-> <<>>, enter |-> <<>>, last |-> NoClaim]
<1>1. p \in Plans
  BY FoldsAre, Nothing DEF Plans
<1>2. Writes(p) = <<>>
  <2>1. <<>> \in Seq(Msg) /\ <<>> \in Seq(Records)
    BY Nothing
  <2>2. Inserts(<<>>) = <<>> /\ Enters(<<>>) = <<>>
    BY <2>1, InsertsFacts, EntersFacts
  <2>3. <<>> \o <<>> = <<>>
    BY <2>1, ConcatEmptySeq
  <2>4. Writes(p) = <<>> \o (<<>> \o (<<>> \o (<<>> \o <<>>)))
    BY <2>2 DEF Writes, Claimed, Cleared
  <2> QED
    BY <2>3, <2>4
<1>3. FoldAfter(p, d) = d /\ EnteredAfter(p, en) = en
  BY <1>1, <1>2, PlanIsDone
<1>4. Once(p.enter)
  BY Nothing
<1> HIDE DEF p
<1> QED
  BY <1>1, <1>2, <1>3, <1>4, Planned

(* Nothing the story is about changes.                                      *)
LEMMA StoryStays ==
  ASSUME NEW d, NEW en, Story(d, en),
         UNCHANGED <<inbox, claimed, disposed, unsent, dropped>>,
         aborted => aborted', phase' = "preStep" <=> phase = "preStep", Live' => Live
  PROVE  Story(d, en)'
<1>1. FoldInv(d, en)'
  BY DEF Story, FoldInv
<1>2. ClaimInv(d, en)'
  BY DEF Story, ClaimInv, inbox
<1>3. LiveInv(d)'
  <2>1. UNCHANGED <<turnQueue, stepQueue, heldQueue, pendingClaim, disposed>>
    BY DEF inbox
  <2>2. Queued' = Queued /\ Rest(d)' = Rest(d)
    BY <2>1 DEF Queued, Rest
  <2> QED
    BY <2>1, <2>2 DEF Story, LiveInv
<1>4. Kept(d, en)'
  BY DEF Story, Kept, InLimbo, inbox
<1> QED
  BY <1>1, <1>2, <1>3, <1>4 DEF Story

LEMMA FromAppend ==
  ASSUME NEW S, NEW s \in Seq(S), NEW x \in S, NEW n \in 0..Len(s)
  PROVE  From(Append(s, x), n) = Append(From(s, n), x) /\ SubSeq(Append(s, x), 1, n) = SubSeq(s, 1, n)
<1> DEFINE one == <<x>>
           v == From(s, n)
<1>1. one \in Seq(S) /\ v \in Seq(S)
  BY FromFacts
<1>2. Append(s, x) = s \o one /\ Append(v, x) = v \o one
  <2> HIDE DEF v
  <2> QED
    BY <1>1, AppendIsConcat
<1> HIDE DEF one
<1>3. From(s \o one, n) = v \o one /\ SubSeq(s \o one, 1, n) = SubSeq(s, 1, n)
  BY <1>1, FromConcat
<1> QED
  BY <1>2, <1>3

(* Input behind the claim in flight: the claim takes what it took.          *)
TurnAdded(d, m) == [turnQueue |-> Append(d.turnQueue, m), stepQueue |-> d.stepQueue]
StepAdded(d, e) == [turnQueue |-> d.turnQueue, stepQueue |-> Append(d.stepQueue, e)]

LEMMA TurnAddedFacts ==
  ASSUME NEW d \in Folds, NEW m \in Msg, NEW c \in Claims,
         c.turns <= Len(d.turnQueue), c.steps <= Len(d.stepQueue)
  PROVE  LET f == TurnAdded(d, m)
         IN  /\ f \in Folds /\ Folded(f) = Folded(d) \union {m} /\ Taken(f, c) = Taken(d, c)
             /\ Len(f.turnQueue) = Len(d.turnQueue) + 1 /\ f.stepQueue = d.stepQueue
             /\ Drain(f, c) = TurnAdded(Drain(d, c), m)
             /\ Folded(Drain(f, c)) = Folded(Drain(d, c)) \union {m}
             /\ Unrepeated(d) /\ m \notin Folded(d) => Unrepeated(f)
<1> DEFINE f == TurnAdded(d, m)
           t == d.turnQueue
<1>1. t \in Seq(Msg) /\ d.stepQueue \in Seq(Entry) /\ Len(t) \in Nat /\ c.turns \in 0..Len(t)
  <2>1. t \in Seq(Msg) /\ d.stepQueue \in Seq(Entry) /\ c.turns \in Nat
    BY DEF Folds, Claims
  <2>2. Len(t) \in Nat
    BY <2>1, LenProperties
  <2> QED
    BY <2>1, <2>2
<1> HIDE DEF t
<1>2. /\ Append(t, m) \in Seq(Msg) /\ Len(Append(t, m)) = Len(t) + 1
      /\ ToSet(Append(t, m)) = ToSet(t) \union {m}
      /\ Once(t) /\ m \notin ToSet(t) => Once(Append(t, m))
  BY <1>1, AppendFacts
<1>3. From(Append(t, m), c.turns) = Append(From(t, c.turns), m)
      /\ SubSeq(Append(t, m), 1, c.turns) = SubSeq(t, 1, c.turns)
  BY <1>1, FromAppend
<1>4. From(t, c.turns) \in Seq(Msg)
  BY <1>1, FromFacts
<1>5. ToSet(Append(From(t, c.turns), m)) = ToSet(From(t, c.turns)) \union {m}
  BY <1>4, AppendFacts
<1>6. f \in Folds /\ f.turnQueue = Append(t, m) /\ f.stepQueue = d.stepQueue
  BY <1>1, <1>2 DEF TurnAdded, Folds, t
<1>7. Drain(f, c) = TurnAdded(Drain(d, c), m)
  BY <1>3, <1>6 DEF Drain, TurnAdded, t
<1>8. Folded(Drain(f, c)) = Folded(Drain(d, c)) \union {m}
  BY <1>5, <1>7 DEF Folded, Drain, TurnAdded, t
<1> HIDE DEF f
<1>9. Folded(f) = Folded(d) \union {m}
  BY <1>2, <1>6 DEF Folded, t
<1>10. Taken(f, c) = Taken(d, c)
  BY <1>3, <1>6 DEF Taken, t
<1>11. Unrepeated(d) /\ m \notin Folded(d) => Unrepeated(f)
  BY <1>2, <1>6 DEF Unrepeated, Folded, t
<1> QED
  BY <1>2, <1>6, <1>7, <1>8, <1>9, <1>10, <1>11 DEF f, t

LEMMA StepAddedFacts ==
  ASSUME NEW d \in Folds, NEW e \in Entry, NEW c \in Claims,
         c.turns <= Len(d.turnQueue), c.steps <= Len(d.stepQueue)
  PROVE  LET f == StepAdded(d, e)
         IN  /\ f \in Folds /\ Folded(f) = Folded(d) \union {e.msg} /\ Taken(f, c) = Taken(d, c)
             /\ f.turnQueue = d.turnQueue /\ Len(f.stepQueue) = Len(d.stepQueue) + 1
             /\ Drain(f, c) = StepAdded(Drain(d, c), e)
             /\ Folded(Drain(f, c)) = Folded(Drain(d, c)) \union {e.msg}
             /\ Unrepeated(d) /\ e.msg \notin Folded(d) => Unrepeated(f)
<1> DEFINE f == StepAdded(d, e)
           q == d.stepQueue
           s == Messages(q)
           v == From(q, c.steps)
<1>1. q \in Seq(Entry) /\ d.turnQueue \in Seq(Msg) /\ Len(q) \in Nat /\ c.steps \in 0..Len(q)
  <2>1. q \in Seq(Entry) /\ d.turnQueue \in Seq(Msg) /\ c.steps \in Nat
    BY DEF Folds, Claims
  <2>2. Len(q) \in Nat
    BY <2>1, LenProperties
  <2> QED
    BY <2>1, <2>2
<1>2. e.msg \in Msg
  BY DEF Entry
<1> HIDE DEF q
<1>3. s \in Seq(Msg) /\ v \in Seq(Entry) /\ Messages(v) \in Seq(Msg)
  <2>1. s \in Seq(Msg) /\ v \in Seq(Entry)
    BY <1>1, MessagesFacts, FromFacts
  <2> HIDE DEF v
  <2> QED
    BY <2>1, MessagesFacts
<1>4. Append(q, e) \in Seq(Entry) /\ Len(Append(q, e)) = Len(q) + 1
  BY <1>1, AppendFacts
<1>5. From(Append(q, e), c.steps) = Append(v, e)
      /\ SubSeq(Append(q, e), 1, c.steps) = SubSeq(q, 1, c.steps)
  BY <1>1, FromAppend
<1> HIDE DEF v, s
<1>6. Messages(Append(q, e)) = Append(s, e.msg) /\ Messages(Append(v, e)) = Append(Messages(v), e.msg)
  BY <1>1, <1>3, MessagesAppend DEF s
<1>7. /\ ToSet(Append(s, e.msg)) = ToSet(s) \union {e.msg}
      /\ Once(s) /\ e.msg \notin ToSet(s) => Once(Append(s, e.msg))
  BY <1>2, <1>3, AppendFacts
<1>8. ToSet(Append(Messages(v), e.msg)) = ToSet(Messages(v)) \union {e.msg}
  BY <1>2, <1>3, AppendFacts
<1>9. f \in Folds /\ f.stepQueue = Append(q, e) /\ f.turnQueue = d.turnQueue
  BY <1>1, <1>4 DEF StepAdded, Folds, q
<1>10. Drain(f, c) = StepAdded(Drain(d, c), e)
  BY <1>5, <1>9 DEF Drain, StepAdded, q, v
<1>11. Drain(d, c).stepQueue = v /\ Drain(d, c).turnQueue = Drain(f, c).turnQueue
       /\ Drain(f, c).stepQueue = Append(v, e)
  BY <1>5, <1>9 DEF Drain, v, q
<1>12. Folded(Drain(f, c)) = Folded(Drain(d, c)) \union {e.msg}
  BY <1>6, <1>8, <1>11 DEF Folded
<1> HIDE DEF f
<1>13. Folded(f) = Folded(d) \union {e.msg}
  BY <1>6, <1>7, <1>9 DEF Folded, q, s
<1>14. Taken(f, c) = Taken(d, c)
  BY <1>5, <1>9 DEF Taken, q
<1>15. Unrepeated(d) /\ e.msg \notin Folded(d) => Unrepeated(f)
  BY <1>6, <1>7, <1>9 DEF Unrepeated, Folded, q, s
<1> QED
  BY <1>4, <1>9, <1>10, <1>12, <1>13, <1>14, <1>15 DEF f, q

(* A message nobody has sent is nowhere.                                    *)
LEMMA UnsentIsNowhere ==
  ASSUME TypeOK, NEW d \in Folds, NEW en \in [Msg -> Nat], Story(d, en), NEW m \in unsent
  PROVE  /\ m \notin Folded(d) /\ en[m] = 0 /\ m \notin dropped /\ m \notin ToSet(claimed)
         /\ m \notin ToSet(Queued)
<1>1. m \in Msg /\ en[m] \in Nat
  BY DEF TypeOK
<1>2. m \notin Folded(d) /\ en[m] = 0 /\ m \notin dropped
  BY <1>1 DEF Story, FoldInv
<1>3. /\ \A x \in ToSet(claimed) : x \notin unsent
      /\ Folded(Rest(d)) \subseteq Folded(d)
  BY ClaimIsApart DEF Story
<1>4. ToSet(Queued) \subseteq Folded(Rest(d))
  BY DEF Story, LiveInv
<1> QED
  BY <1>2, <1>3, <1>4

LEMMA RefusedPromptTold ==
  ASSUME TypeOK, NEW d \in Folds, NEW en \in [Msg -> Nat], Story(d, en), NEW m \in unsent,
         unsent' = unsent \ {m}, dropped' = dropped \union {m},
         UNCHANGED <<inbox, phase, claimed, aborted, disposed>>
  PROVE  Story(d, en)'
<1>1. /\ m \notin Folded(d) /\ en[m] = 0 /\ m \notin dropped /\ m \notin ToSet(claimed)
  BY UnsentIsNowhere
<1>2. FoldInv(d, en)'
  BY <1>1 DEF Story, FoldInv
<1>3. ClaimInv(d, en)'
  BY <1>1 DEF Story, ClaimInv, inbox
<1>4. LiveInv(d)'
  <2>1. UNCHANGED <<turnQueue, stepQueue, heldQueue, pendingClaim, disposed, phase>>
    BY DEF inbox
  <2>2. Queued' = Queued /\ Rest(d)' = Rest(d) /\ Live' = Live
    BY <2>1 DEF Queued, Rest, Live
  <2> QED
    BY <2>1, <2>2 DEF Story, LiveInv
<1>5. Kept(d, en)'
  BY DEF Story, Kept, InLimbo, inbox
<1> QED
  BY <1>2, <1>3, <1>4, <1>5 DEF Story

PromptQueued(m) ==
  /\ AtAwait /\ unsent' = unsent \ {m} /\ turnQueue' = Append(turnQueue, m)
  /\ phase' = (IF phase = "idle" THEN "begin" ELSE phase)
  /\ UNCHANGED <<stepQueue, heldQueue, pendingClaim, claimed, aborted, disposed, dropped>>

LEMMA PromptTold ==
  ASSUME TypeOK, NEW d \in Folds, NEW en \in [Msg -> Nat], Story(d, en), NEW m \in unsent, PromptQueued(m)
  PROVE  Story(TurnAdded(d, m), en)'
<1> DEFINE f == TurnAdded(d, m)
<1>1. /\ m \notin Folded(d) /\ en[m] = 0 /\ m \notin dropped /\ m \notin ToSet(claimed)
  BY UnsentIsNowhere
<1>2. m \in Msg /\ pendingClaim \in Claims
  BY DEF TypeOK, Claims
<1>3. pendingClaim.turns <= Len(d.turnQueue) /\ pendingClaim.steps <= Len(d.stepQueue) /\ Unrepeated(d)
  BY DEF Story, ClaimInv, FoldInv
<1>4. /\ f \in Folds /\ Folded(f) = Folded(d) \union {m} /\ Taken(f, pendingClaim) = Taken(d, pendingClaim)
      /\ Len(f.turnQueue) = Len(d.turnQueue) + 1 /\ f.stepQueue = d.stepQueue
      /\ Drain(f, pendingClaim) = TurnAdded(Drain(d, pendingClaim), m)
      /\ Folded(Drain(f, pendingClaim)) = Folded(Drain(d, pendingClaim)) \union {m}
      /\ Unrepeated(f)
  BY <1>1, <1>2, <1>3, TurnAddedFacts
<1>5. /\ phase' = "preStep" <=> phase = "preStep"
      /\ unsent' = unsent \ {m} /\ UNCHANGED <<stepQueue, heldQueue, pendingClaim, claimed, aborted, disposed, dropped>>
  BY DEF PromptQueued
<1>6. d.turnQueue \in Seq(Msg) /\ Len(d.turnQueue) \in Nat /\ pendingClaim.turns \in Nat
  <2>1. d.turnQueue \in Seq(Msg) /\ pendingClaim.turns \in Nat
    BY <1>2 DEF Folds, Claims
  <2> QED
    BY <2>1, LenProperties
<1> HIDE DEF f
<1>7. FoldInv(f, en)'
  BY <1>1, <1>4, <1>5 DEF Story, FoldInv
<1>8. ClaimInv(f, en)'
  <2>1. pendingClaim.turns <= Len(f.turnQueue)
    BY <1>3, <1>4, <1>6
  <2> QED
    BY <1>1, <1>4, <1>5, <2>1 DEF Story, ClaimInv
<1>9. LiveInv(f)'
  <2>1. Rest(f)' = TurnAdded(Rest(d), m) /\ Folded(Rest(f)') = Folded(Rest(d)) \union {m}
    BY <1>4, <1>5 DEF Rest
  <2>2. turnQueue \in Seq(Msg) /\ stepQueue \in Seq(Entry) /\ heldQueue \in Seq(Msg)
    BY DEF TypeOK
  <2>3. turnQueue' \in Seq(Msg) /\ ToSet(turnQueue') = ToSet(turnQueue) \union {m}
    <3>1. ToSet(Append(turnQueue, m)) = ToSet(turnQueue) \union {m} /\ Append(turnQueue, m) \in Seq(Msg)
      BY <1>2, <2>2, AppendFacts
    <3>2. turnQueue' = Append(turnQueue, m)
      BY DEF PromptQueued
    <3> QED
      BY <3>1, <3>2
  <2>4. Queued' = InOrder(stepQueue, heldQueue, turnQueue')
    BY <1>5 DEF Queued, InOrder
  <2>5. ToSet(Queued') = ToSet(Messages(stepQueue)) \union ToSet(heldQueue) \union ToSet(turnQueue')
    <3>1. stepQueue \in Seq(Entry) /\ heldQueue \in Seq(Msg) /\ turnQueue' \in Seq(Msg)
      BY <2>2, <2>3
    <3>2. ToSet(InOrder(stepQueue, heldQueue, turnQueue'))
            = ToSet(Messages(stepQueue)) \union ToSet(heldQueue) \union ToSet(turnQueue')
      BY <3>1, QueuesHold
    <3> QED
      BY <3>2, <2>4
  <2>6. ToSet(Queued') = ToSet(Queued) \union {m}
    BY <2>3, <2>5, QueuedHolds
  <2>7. Live' => Live
    BY DEF Live, AtAwait, Awaits, PromptQueued
  <2>8. Live' /\ ~disposed =>
          Rest(d).turnQueue = turnQueue /\ Len(Rest(d).stepQueue) = Len(stepQueue) + Len(heldQueue)
          /\ ToSet(Rest(d).stepQueue) = ToSet(stepQueue) \union ToSet(Quiet(heldQueue))
          /\ Once(Messages(stepQueue)) /\ Once(heldQueue)
          /\ ToSet(Messages(stepQueue)) \intersect ToSet(heldQueue) = {}
    BY <2>7 DEF Story, LiveInv
  <2>9. TurnAdded(Rest(d), m).turnQueue = Append(Rest(d).turnQueue, m)
        /\ TurnAdded(Rest(d), m).stepQueue = Rest(d).stepQueue
    BY DEF TurnAdded
  <2>10. ToSet(Queued) \subseteq Folded(Rest(d))
    BY DEF Story, LiveInv
  <2> QED
    BY <1>5, <2>1, <2>6, <2>8, <2>9, <2>10 DEF LiveInv, PromptQueued
<1>10. Kept(f, en)'
  BY <1>4, <1>5 DEF Story, Kept, InLimbo
<1> QED
  BY <1>7, <1>8, <1>9, <1>10 DEF Story, f

StepInputQueued(e) ==
  /\ AtAwait /\ unsent' = unsent \ {e.msg} /\ stepQueue' = Append(stepQueue, e)
  /\ phase' = (IF e.waking /\ phase = "idle" THEN "begin" ELSE phase)
  /\ UNCHANGED <<turnQueue, heldQueue, pendingClaim, claimed, aborted, disposed, dropped>>

LEMMA StepInputTold ==
  ASSUME TypeOK, NEW d \in Folds, NEW en \in [Msg -> Nat], Story(d, en),
         NEW e \in Entry, e.msg \in unsent, StepInputQueued(e)
  PROVE  Story(StepAdded(d, e), en)'
<1> DEFINE f == StepAdded(d, e)
           m == e.msg
<1>1. /\ m \notin Folded(d) /\ en[m] = 0 /\ m \notin dropped /\ m \notin ToSet(claimed)
      /\ m \notin ToSet(Queued)
  BY UnsentIsNowhere
<1>2. m \in Msg /\ pendingClaim \in Claims
  BY DEF TypeOK, Claims
<1>3. pendingClaim.turns <= Len(d.turnQueue) /\ pendingClaim.steps <= Len(d.stepQueue) /\ Unrepeated(d)
  BY DEF Story, ClaimInv, FoldInv
<1>4. /\ f \in Folds /\ Folded(f) = Folded(d) \union {m} /\ Taken(f, pendingClaim) = Taken(d, pendingClaim)
      /\ f.turnQueue = d.turnQueue /\ Len(f.stepQueue) = Len(d.stepQueue) + 1
      /\ Drain(f, pendingClaim) = StepAdded(Drain(d, pendingClaim), e)
      /\ Folded(Drain(f, pendingClaim)) = Folded(Drain(d, pendingClaim)) \union {m}
      /\ Unrepeated(f)
  BY <1>1, <1>2, <1>3, StepAddedFacts
<1>5. /\ phase' = "preStep" <=> phase = "preStep"
      /\ unsent' = unsent \ {e.msg} /\ UNCHANGED <<turnQueue, heldQueue, pendingClaim, claimed, aborted, disposed, dropped>>
  BY DEF StepInputQueued
<1>6. d.stepQueue \in Seq(Entry) /\ Len(d.stepQueue) \in Nat /\ pendingClaim.steps \in Nat
  <2>1. d.stepQueue \in Seq(Entry) /\ pendingClaim.steps \in Nat
    BY <1>2 DEF Folds, Claims
  <2> QED
    BY <2>1, LenProperties
<1> HIDE DEF f
<1>7. FoldInv(f, en)'
  BY <1>1, <1>4, <1>5 DEF Story, FoldInv
<1>8. ClaimInv(f, en)'
  <2>1. pendingClaim.steps <= Len(f.stepQueue)
    BY <1>3, <1>4, <1>6
  <2> QED
    BY <1>1, <1>4, <1>5, <2>1 DEF Story, ClaimInv
<1>9. LiveInv(f)'
  <2>1. Rest(f)' = StepAdded(Rest(d), e) /\ Folded(Rest(f)') = Folded(Rest(d)) \union {m}
    BY <1>4, <1>5 DEF Rest
  <2>2. turnQueue \in Seq(Msg) /\ stepQueue \in Seq(Entry) /\ heldQueue \in Seq(Msg)
        /\ Messages(stepQueue) \in Seq(Msg) /\ Len(heldQueue) \in Nat /\ Len(stepQueue) \in Nat
    <3>1. turnQueue \in Seq(Msg) /\ stepQueue \in Seq(Entry) /\ heldQueue \in Seq(Msg)
      BY DEF TypeOK
    <3> QED
      BY <3>1, MessagesFacts, LenProperties
  <2>3. /\ stepQueue' \in Seq(Entry) /\ Len(stepQueue') = Len(stepQueue) + 1
        /\ ToSet(stepQueue') = ToSet(stepQueue) \union {e}
    <3>1. stepQueue' = Append(stepQueue, e)
      BY DEF StepInputQueued
    <3> QED
      BY <2>2, <3>1, AppendFacts
  <2>4. /\ Messages(stepQueue') = Append(Messages(stepQueue), m)
        /\ ToSet(Messages(stepQueue')) = ToSet(Messages(stepQueue)) \union {m}
        /\ Once(Messages(stepQueue)) /\ m \notin ToSet(Messages(stepQueue)) => Once(Messages(stepQueue'))
    <3>0. stepQueue' = Append(stepQueue, e)
      BY DEF StepInputQueued
    <3>1. Messages(stepQueue') = Append(Messages(stepQueue), m)
      BY <2>2, <3>0, MessagesAppend
    <3> HIDE DEF m
    <3> QED
      BY <1>2, <2>2, <3>1, AppendFacts
  <2>5. Queued' = InOrder(stepQueue', heldQueue, turnQueue)
    BY <1>5 DEF Queued, InOrder
  <2>6. ToSet(Queued') = ToSet(Messages(stepQueue')) \union ToSet(heldQueue) \union ToSet(turnQueue)
    <3>1. stepQueue' \in Seq(Entry) /\ heldQueue \in Seq(Msg) /\ turnQueue \in Seq(Msg)
      BY <2>2, <2>3
    <3>2. ToSet(InOrder(stepQueue', heldQueue, turnQueue))
            = ToSet(Messages(stepQueue')) \union ToSet(heldQueue) \union ToSet(turnQueue)
      BY <3>1, QueuesHold
    <3> QED
      BY <3>2, <2>5
  <2>7. ToSet(Queued) = ToSet(Messages(stepQueue)) \union ToSet(heldQueue) \union ToSet(turnQueue)
    BY QueuedHolds
  <2>8. ToSet(Queued') = ToSet(Queued) \union {m}
    BY <2>4, <2>6, <2>7
  <2>9. Live' => Live
    BY DEF Live, AtAwait, Awaits, StepInputQueued
  <2>10. Live' /\ ~disposed =>
          Rest(d).turnQueue = turnQueue /\ Len(Rest(d).stepQueue) = Len(stepQueue) + Len(heldQueue)
          /\ ToSet(Rest(d).stepQueue) = ToSet(stepQueue) \union ToSet(Quiet(heldQueue))
          /\ Once(Messages(stepQueue)) /\ Once(heldQueue)
          /\ ToSet(Messages(stepQueue)) \intersect ToSet(heldQueue) = {}
    BY <2>9 DEF Story, LiveInv
  <2>11. Rest(d).stepQueue \in Seq(Entry)
    <3>1. Rest(d) \in Folds
      BY <1>2, FoldsAre DEF Rest
    <3> QED
      BY <3>1 DEF Folds
  <2>12. /\ Rest(f)'.turnQueue = Rest(d).turnQueue
         /\ Rest(f)'.stepQueue = Append(Rest(d).stepQueue, e)
    BY <2>1 DEF StepAdded
  <2>13. /\ Len(Rest(f)'.stepQueue) = Len(Rest(d).stepQueue) + 1
         /\ ToSet(Rest(f)'.stepQueue) = ToSet(Rest(d).stepQueue) \union {e}
    BY <2>11, <2>12, AppendFacts
  <2>14. ToSet(Queued) \subseteq Folded(Rest(d))
    BY DEF Story, LiveInv
  <2>15. ToSet(Queued') \subseteq Folded(Rest(f)')
    BY <2>1, <2>8, <2>14
  <2>16. ASSUME Live', ~disposed
         PROVE  /\ Rest(f)'.turnQueue = turnQueue
                /\ Len(Rest(f)'.stepQueue) = Len(stepQueue') + Len(heldQueue)
                /\ ToSet(Rest(f)'.stepQueue) = ToSet(stepQueue') \union ToSet(Quiet(heldQueue))
                /\ Once(Messages(stepQueue')) /\ Once(heldQueue)
                /\ ToSet(Messages(stepQueue')) \intersect ToSet(heldQueue) = {}
    <3>1. Len(Rest(f)'.stepQueue) = Len(stepQueue') + Len(heldQueue)
      <4>1. Len(Rest(d).stepQueue) = Len(stepQueue) + Len(heldQueue)
        BY <2>10, <2>16
      <4>2. Len(Rest(f)'.stepQueue) = (Len(stepQueue) + Len(heldQueue)) + 1
        BY <2>13, <4>1
      <4>3. Len(stepQueue') = Len(stepQueue) + 1
        BY <2>3
      <4> QED
        BY <2>2, <4>2, <4>3
    <3>2. m \notin ToSet(Messages(stepQueue)) /\ m \notin ToSet(heldQueue)
      BY <1>1, <2>7
    <3> QED
      BY <3>1, <3>2, <2>3, <2>4, <2>10, <2>12, <2>13, <2>16
  <2> QED
    BY <1>5, <2>15, <2>16 DEF LiveInv
<1>10. Kept(f, en)'
  BY <1>4, <1>5 DEF Story, Kept, InLimbo
<1> QED
  BY <1>7, <1>8, <1>9, <1>10 DEF Story, f

LEMMA SendTold ==
  ASSUME TypeOK, ~lost, NEW m \in Msg, Send(m),
         NEW d \in Folds, NEW en \in [Msg -> Nat], d = durable, en = entered, Story(d, en)
  PROVE  Told'
<1>1. /\ AtAwait /\ m \in unsent /\ unsent' = unsent \ {m} /\ script' = <<>>
      /\ UNCHANGED <<heldQueue, pendingClaim, claimed, aborted, disposed>>
  BY DEF Send, AtAwait
<1>2. CASE SendTurn(m) /\ disposed
  <2>1. dropped' = dropped \union {m} /\ UNCHANGED <<turnQueue, stepQueue, phase, durable, entered>>
    BY <1>2 DEF SendTurn
  <2>2. Story(d, en)'
    BY <1>1, <2>1, RefusedPromptTold DEF inbox
  <2> QED
    BY <1>1, <2>1, <2>2, Retold
<1>3. CASE SendTurn(m) /\ ~disposed
  <2>1. /\ turnQueue' = Append(turnQueue, m) /\ Record(InsertTurn(m))
        /\ phase' = (IF phase = "idle" THEN "begin" ELSE phase) /\ UNCHANGED <<stepQueue, dropped>>
    BY <1>3 DEF SendTurn
  <2>2. Story(TurnAdded(d, m), en)'
    BY <1>1, <2>1, PromptTold DEF PromptQueued
  <2>3. durable' = TurnAdded(d, m) /\ entered' = en
    <3>1. InsertTurn(m).op = "insertTurn" /\ InsertTurn(m).msg = m
      BY DEF InsertTurn
    <3>2. \A x : [d EXCEPT !.turnQueue = x] = [turnQueue |-> x, stepQueue |-> d.stepQueue]
      BY DEF Folds
    <3> QED
      BY <2>1, <3>1, <3>2 DEF Record, FoldSplice, TurnAdded
  <2>4. TurnAdded(d, m) \in Folds
    <3>1. Append(d.turnQueue, m) \in Seq(Msg)
      BY AppendProperties DEF Folds
    <3> QED
      BY <3>1 DEF TurnAdded, Folds
  <2> QED
    BY <1>1, <2>2, <2>3, <2>4, Retold
<1>4. CASE \E waking \in Wakes(m) : SendStep(m, waking)
  <2>1. PICK waking \in Wakes(m) : SendStep(m, waking)
    BY <1>4
  <2>2. waking \in BOOLEAN
    BY DEF Wakes
  <2> DEFINE entry == [msg |-> m, waking |-> waking /\ ~disposed]
  <2>3. PICK e \in Entry : e = entry
    <3>1. (waking /\ ~disposed) \in BOOLEAN
      OBVIOUS
    <3>2. entry \in Entry
      BY <3>1 DEF Entry
    <3> QED
      BY <3>2
  <2>4. /\ stepQueue' = Append(stepQueue, e) /\ Record(Insert(e)) /\ e.msg = m
        /\ phase' = (IF e.waking /\ phase = "idle" THEN "begin" ELSE phase)
        /\ UNCHANGED <<turnQueue, dropped>>
    BY <2>1, <2>3 DEF SendStep
  <2>5. Story(StepAdded(d, e), en)'
    BY <1>1, <2>4, StepInputTold DEF StepInputQueued
  <2>6. durable' = StepAdded(d, e) /\ entered' = en
    <3>1. Insert(e).op = "insert" /\ Insert(e).entry = e
      BY DEF Insert
    <3>2. \A x : [d EXCEPT !.stepQueue = x] = [turnQueue |-> d.turnQueue, stepQueue |-> x]
      BY DEF Folds
    <3> QED
      BY <2>4, <3>1, <3>2 DEF Record, FoldSplice, StepAdded
  <2>7. StepAdded(d, e) \in Folds
    <3>1. Append(d.stepQueue, e) \in Seq(Entry)
      BY AppendProperties DEF Folds
    <3> QED
      BY <3>1 DEF StepAdded, Folds
  <2> QED
    BY <1>1, <2>5, <2>6, <2>7, Retold
<1> QED
  BY <1>2, <1>3, <1>4 DEF Send

(* The queues with nothing held, and with nothing at all.                   *)
LEMMA NothingHeld ==
  /\ Quiet(<<>>) = <<>> /\ Messages(<<>>) = <<>> /\ Len(<<>>) = 0 /\ ToSet(<<>>) = {} /\ Once(<<>>)
  /\ \A q \in Seq(Entry), t \in Seq(Msg) :
       ToSet(InOrder(q, <<>>, t)) = ToSet(Messages(q)) \union ToSet(t)
  /\ ToSet(InOrder(<<>>, <<>>, <<>>)) = {}
<1>1. \E none \in Seq(Entry), nil \in Seq(Msg) :
        none = <<>> /\ nil = <<>> /\ ToSet(none) = {} /\ ToSet(nil) = {} /\ Len(nil) = 0 /\ Len(none) = 0
  BY Nothing
<1>2. PICK none \in Seq(Entry), nil \in Seq(Msg) :
        none = <<>> /\ nil = <<>> /\ ToSet(none) = {} /\ ToSet(nil) = {} /\ Len(nil) = 0 /\ Len(none) = 0
  BY <1>1
<1>3. Quiet(nil) = <<>>
  <2>1. Quiet(nil) \in Seq(Entry) /\ Len(Quiet(nil)) = 0
    BY <1>2, QuietFacts
  <2> QED
    BY <2>1, EmptySeq
<1>7. Messages(none) = <<>>
  <2>1. Messages(none) \in Seq(Msg) /\ Len(Messages(none)) = 0
    BY <1>2, MessagesFacts
  <2> QED
    BY <2>1, EmptySeq
<1>4. ASSUME NEW q \in Seq(Entry), NEW t \in Seq(Msg)
      PROVE  ToSet(InOrder(q, nil, t)) = ToSet(Messages(q)) \union ToSet(t)
  <2>1. ToSet(InOrder(q, nil, t)) = ToSet(Messages(q)) \union ToSet(nil) \union ToSet(t)
    BY QueuesHold
  <2> QED
    BY <1>2, <2>1
<1>5. ToSet(InOrder(none, nil, nil)) = {}
  <2>1. ToSet(InOrder(none, nil, nil)) = ToSet(Messages(none)) \union ToSet(nil)
    BY <1>4
  <2>2. \A m : m \in ToSet(Messages(none)) <=> \E e \in ToSet(none) : e.msg = m
    BY MessagesFacts
  <2> QED
    BY <1>2, <2>1, <2>2
<1>6. \A q \in Seq(Entry), t \in Seq(Msg) :
        ToSet(InOrder(q, <<>>, t)) = ToSet(Messages(q)) \union ToSet(t)
  BY <1>2, <1>4
<1> QED
  BY <1>2, <1>3, <1>5, <1>6, <1>7, Nothing

(* A record of the segment reaches the log: the plan is shorter by it.      *)
LEMMA WriteTold ==
  ASSUME TypeOK, ~lost, WriteRecord,
         NEW d \in Folds, NEW en \in [Msg -> Nat], Ahead(d, en), Story(d, en)
  PROVE  Told'
<1>1. PICK p \in Plans : /\ script = Writes(p) /\ Once(p.enter)
                         /\ d = FoldAfter(p, durable) /\ en = EnteredAfter(p, entered)
  BY DEF Ahead
<1>2. durable \in Folds /\ entered \in [Msg -> Nat] /\ Writes(p) # <<>>
  BY <1>1 DEF TypeOK, Folds, WriteRecord
<1>3. PICK q \in Plans :
        /\ Tail(script) = Writes(q) /\ Once(q.enter)
        /\ FoldSplice(durable, Head(script)) \in Folds /\ Counted(entered, Head(script)) \in [Msg -> Nat]
        /\ FoldAfter(q, FoldSplice(durable, Head(script))) = d
        /\ EnteredAfter(q, Counted(entered, Head(script))) = en
  BY <1>1, <1>2, PlanAdvances
<1>4. /\ script' = Tail(script)
      /\ durable' = FoldSplice(durable, Head(script)) /\ entered' = Counted(entered, Head(script))
  BY DEF WriteRecord, Record, Counted
<1>5. Story(d, en)'
  <2>1. UNCHANGED <<inbox, phase, claimed, disposed, aborted, unsent, dropped>>
    BY DEF WriteRecord, ghosts
  <2> QED
    BY <2>1, StoryStays DEF Live
<1> QED
  BY <1>3, <1>4, <1>5, Planned

(* Steps that move nothing: the driver goes on, a flush, a cancel that      *)
(* keeps the inbox, the session closes.                                     *)
LEMMA StillTold ==
  ASSUME TypeOK, NEW d \in Folds, NEW en \in [Msg -> Nat], d = durable, en = entered, Story(d, en),
         script = <<>>,
         \/ StepReturns \/ TurnStops \/ Flushed \/ Close \/ Cancel(TRUE)
  PROVE  Told'
<1>1. /\ UNCHANGED <<script, durable, entered, inbox, claimed, disposed, unsent, dropped>>
      /\ aborted => aborted'
      /\ phase' = "preStep" <=> phase = "preStep"
      /\ Live' => Live
  <2>1. CASE StepReturns
    BY <2>1 DEF StepReturns, Loop, ghosts, Live
  <2>2. CASE TurnStops
    BY <2>2 DEF TurnStops, Loop, ghosts, Live
  <2>3. CASE Flushed
    BY <2>3 DEF Flushed, ghosts, Live
  <2>4. CASE Close
    BY <2>4 DEF Close, ghosts, Live
  <2>5. CASE Cancel(TRUE)
    BY <2>5 DEF Cancel, Live, AtAwait, Awaits
  <2> QED
    BY <2>1, <2>2, <2>3, <2>4, <2>5
<1>2. Story(d, en)'
  BY <1>1, StoryStays
<1> QED
  BY <1>1, <1>2, Retold

(* Nothing at all changes.                                                  *)
LEMMA IdleTold ==
  ASSUME UNCHANGED vars, Told PROVE Told'
<1>1. UNCHANGED <<inbox, phase, claimed, disposed, aborted, unsent, dropped, script, durable, entered, gaps, lost>>
  BY DEF vars, ghosts
<1>2. ASSUME Sound, NEW d \in Folds, NEW en \in [Msg -> Nat], Ahead(d, en), Story(d, en)
      PROVE  Told'
  <2>1. Story(d, en)'
    BY <1>1, <1>2, StoryStays DEF Live
  <2>2. PICK p \in Plans : /\ script = Writes(p) /\ Once(p.enter)
                           /\ d = FoldAfter(p, durable) /\ en = EnteredAfter(p, entered)
    BY <1>2 DEF Ahead
  <2>3. script' = Writes(p) /\ d = FoldAfter(p, durable') /\ en = EnteredAfter(p, entered')
    BY <1>1, <2>2
  <2> QED
    BY <2>1, <2>2, <2>3, Planned
<1>3. Sound' => Sound
  BY <1>1 DEF Sound
<1>4. CASE Sound
  BY <1>2, <1>4 DEF Told
<1>5. CASE ~Sound
  BY <1>3, <1>5 DEF Told
<1> QED
  BY <1>4, <1>5

(* Disposal empties the live queues; the fold keeps what they held.         *)
LEMMA DisposeTold ==
  ASSUME TypeOK, NEW d \in Folds, NEW en \in [Msg -> Nat], d = durable, en = entered, Story(d, en),
         script = <<>>, Dispose
  PROVE  Told'
<1>1. /\ disposed' = TRUE /\ turnQueue' = <<>> /\ stepQueue' = <<>> /\ heldQueue' = <<>>
      /\ aborted => aborted'
      /\ UNCHANGED <<pendingClaim, phase, claimed, script, durable, entered, unsent, dropped>>
  BY DEF Dispose, ghosts
<1>2. FoldInv(d, en)'
  BY <1>1 DEF Story, FoldInv
<1>3. ClaimInv(d, en)'
  BY <1>1 DEF Story, ClaimInv
<1>4. LiveInv(d)'
  <2>1. Queued' = InOrder(<<>>, <<>>, <<>>)
    BY <1>1 DEF Queued, InOrder
  <2>2. ToSet(Queued') = {}
    BY <2>1, NothingHeld
  <2> QED
    BY <1>1, <2>2 DEF LiveInv
<1>5. Kept(d, en)'
  BY <1>1 DEF Story, Kept, InLimbo
<1>6. Story(d, en)'
  BY <1>2, <1>3, <1>4, <1>5 DEF Story
<1> QED
  BY <1>1, <1>6, Retold

(* The end of a turn: what was held is step input again.                    *)
LEMMA EndTold ==
  ASSUME TypeOK, NEW d \in Folds, NEW en \in [Msg -> Nat], d = durable, en = entered, Story(d, en),
         script = <<>>, EndTurn
  PROVE  Told'
<1>1. /\ phase = "ending" /\ stepQueue' = stepQueue \o Quiet(heldQueue) /\ heldQueue' = <<>> /\ phase' = "flushing"
      /\ UNCHANGED <<turnQueue, pendingClaim, claimed, aborted, disposed, script, durable, entered, unsent, dropped>>
  BY DEF EndTurn, ghosts
<1>2. FoldInv(d, en)'
  BY <1>1 DEF Story, FoldInv
<1>3. ClaimInv(d, en)'
  BY <1>1 DEF Story, ClaimInv
<1>4. LiveInv(d)'
  <2> DEFINE b == Quiet(heldQueue)
             q == stepQueue \o b
  <2>1. stepQueue \in Seq(Entry) /\ heldQueue \in Seq(Msg) /\ turnQueue \in Seq(Msg)
    BY DEF TypeOK
  <2>2. b \in Seq(Entry) /\ Len(b) = Len(heldQueue) /\ Messages(b) = heldQueue
    BY <2>1, QuietFacts
  <2>3. Messages(stepQueue) \in Seq(Msg)
    BY <2>1, MessagesFacts
  <2> HIDE DEF b
  <2>4. q \in Seq(Entry) /\ Len(q) = Len(stepQueue) + Len(b) /\ ToSet(q) = ToSet(stepQueue) \union ToSet(b)
    <3>1. stepQueue \in Seq(Entry) /\ b \in Seq(Entry)
      BY <2>1, <2>2
    <3> HIDE DEF q
    <3>2. /\ stepQueue \o b \in Seq(Entry) /\ Len(stepQueue \o b) = Len(stepQueue) + Len(b)
          /\ ToSet(stepQueue \o b) = ToSet(stepQueue) \union ToSet(b)
      BY <3>1, ConcatFacts
    <3> QED
      BY <3>2 DEF q
  <2>5. Messages(q) = Messages(stepQueue) \o heldQueue
    BY <2>1, <2>2, MessagesConcat
  <2> DEFINE a == Messages(stepQueue)
  <2> HIDE DEF a
  <2>6. /\ ToSet(a \o heldQueue) = ToSet(a) \union ToSet(heldQueue)
        /\ Once(a) /\ Once(heldQueue) /\ ToSet(a) \intersect ToSet(heldQueue) = {} => Once(a \o heldQueue)
    <3>1. a \in Seq(Msg)
      BY <2>3 DEF a
    <3> QED
      BY <2>1, <3>1, ConcatFacts
  <2>7. Messages(q) = a \o heldQueue /\ stepQueue' = q
    BY <1>1, <2>5 DEF a, b
  <2> HIDE DEF q
  <2>9. ToSet(InOrder(q, <<>>, turnQueue)) = ToSet(Messages(q)) \union ToSet(turnQueue)
    BY <2>1, <2>4, NothingHeld
  <2>10. Queued' = InOrder(q, <<>>, turnQueue)
    BY <1>1, <2>7 DEF Queued, InOrder
  <2>11. ToSet(Queued) = ToSet(a) \union ToSet(heldQueue) \union ToSet(turnQueue)
    BY QueuedHolds DEF a
  <2>12. ToSet(Queued') = ToSet(Queued)
    BY <2>6, <2>7, <2>9, <2>10, <2>11
  <2>13. Rest(d)' = Rest(d)
    BY <1>1 DEF Rest
  <2>16. Live
    BY <1>1 DEF Live
  <2>17. ToSet(Queued) \subseteq Folded(Rest(d))
         /\ (~disposed =>
               /\ Rest(d).turnQueue = turnQueue
               /\ Len(Rest(d).stepQueue) = Len(stepQueue) + Len(heldQueue)
               /\ ToSet(Rest(d).stepQueue) = ToSet(stepQueue) \union ToSet(b)
               /\ Once(a) /\ Once(heldQueue) /\ ToSet(a) \intersect ToSet(heldQueue) = {})
    BY <2>16 DEF Story, LiveInv, a, b
  <2>18. ToSet(Queued') \subseteq Folded(Rest(d)')
    BY <2>12, <2>13, <2>17
  <2>19. ASSUME ~disposed
         PROVE  /\ Rest(d)'.turnQueue = turnQueue
                /\ Len(Rest(d)'.stepQueue) = Len(q) + Len(<<>>)
                /\ ToSet(Rest(d)'.stepQueue) = ToSet(q) \union ToSet(Quiet(<<>>))
                /\ Once(Messages(q)) /\ Once(<<>>)
                /\ ToSet(Messages(q)) \intersect ToSet(<<>>) = {}
    <3>1. Len(q) \in Nat
      BY <2>4, LenProperties
    <3>2. Len(Rest(d)'.stepQueue) = Len(q) + Len(<<>>)
      BY <2>2, <2>4, <2>13, <2>17, <2>19, <3>1, NothingHeld
    <3> QED
      BY <2>4, <2>6, <2>7, <2>13, <2>17, <2>19, <3>2, NothingHeld
  <2> QED
    BY <1>1, <2>7, <2>18, <2>19 DEF LiveInv
<1>5. Kept(d, en)'
  BY <1>1 DEF Story, Kept, InLimbo
<1>6. Story(d, en)'
  BY <1>2, <1>3, <1>4, <1>5 DEF Story
<1> QED
  BY <1>1, <1>6, Retold

(* A kill between segments: the fold is all there is.                       *)
LEMMA KillTold ==
  ASSUME TypeOK, NEW d \in Folds, NEW en \in [Msg -> Nat], d = durable, en = entered, Story(d, en),
         ~\E n \in Notice : InLimbo(n), Kill
  PROVE  Told'
<1>1. /\ phase' = "dead" /\ script' = <<>> /\ turnQueue' = <<>> /\ stepQueue' = <<>> /\ heldQueue' = <<>>
      /\ pendingClaim' = NoClaim /\ claimed' = <<>>
      /\ UNCHANGED <<durable, entered, unsent, dropped>>
  BY DEF Kill
<1>2. FoldInv(d, en)'
  BY <1>1 DEF Story, FoldInv
<1>3. ClaimInv(d, en)'
  <2>1. Len(d.turnQueue) \in Nat /\ Len(d.stepQueue) \in Nat
    BY LenProperties DEF Folds
  <2>2. NoClaim.turns = 0 /\ NoClaim.steps = 0
    BY DEF NoClaim
  <2>3. NoClaim.turns <= Len(d.turnQueue) /\ NoClaim.steps <= Len(d.stepQueue)
    BY <2>1, <2>2
  <2> QED
    BY <1>1, <2>3, NothingHeld DEF ClaimInv
<1>4. LiveInv(d)'
  <2>1. Queued' = InOrder(<<>>, <<>>, <<>>)
    BY <1>1 DEF Queued, InOrder
  <2>2. ToSet(Queued') = {}
    BY <2>1, NothingHeld
  <2> QED
    BY <1>1, <2>2 DEF LiveInv, Live
<1>5. Kept(d, en)'
  <2>1. ASSUME NEW m \in Msg, m \notin unsent \union dropped PROVE en[m] > 0 \/ m \in Folded(d)
    <3>1. CASE InLimbo(m)
      <4>1. pendingClaim = NoClaim /\ claimed # <<>> /\ m \in ToSet(claimed)
        BY <3>1, Nothing DEF InLimbo
      <4>2. m \in Notice
        BY <2>1, <4>1, ClaimIsApart DEF Story
      <4> QED
        BY <3>1, <4>2
    <3>2. CASE ~InLimbo(m)
      BY <2>1, <3>2 DEF Story, Kept
    <3> QED
      BY <3>1, <3>2
  <2> QED
    BY <1>1, <2>1 DEF Kept
<1>6. Story(d, en)'
  BY <1>2, <1>3, <1>4, <1>5 DEF Story
<1> QED
  BY <1>1, <1>6, Retold

(* A resume: the live queues are the fold.                                  *)
LEMMA ResumeTold ==
  ASSUME TypeOK, Ctl, NEW d \in Folds, NEW en \in [Msg -> Nat], d = durable, en = entered, Story(d, en),
         Resume
  PROVE  Told'
<1>1. /\ phase \in {"dead", "closed"} /\ script' = script
      /\ turnQueue' = d.turnQueue /\ stepQueue' = d.stepQueue /\ heldQueue' = <<>>
      /\ pendingClaim' = NoClaim /\ claimed' = <<>> /\ phase' \in {"begin", "idle"}
      /\ UNCHANGED <<durable, entered, unsent, dropped>>
  BY DEF Resume
<1>2. FoldInv(d, en)'
  BY <1>1 DEF Story, FoldInv
<1>3. ClaimInv(d, en)'
  <2>1. Len(d.turnQueue) \in Nat /\ Len(d.stepQueue) \in Nat
    BY LenProperties DEF Folds
  <2>2. NoClaim.turns = 0 /\ NoClaim.steps = 0
    BY DEF NoClaim
  <2>3. NoClaim.turns <= Len(d.turnQueue) /\ NoClaim.steps <= Len(d.stepQueue)
    BY <2>1, <2>2
  <2> QED
    BY <1>1, <2>3, NothingHeld DEF ClaimInv
<1>4. LiveInv(d)'
  <2>1. Rest(d)' = d
    BY <1>1, FoldsAre DEF Rest
  <2>2. d.turnQueue \in Seq(Msg) /\ d.stepQueue \in Seq(Entry) /\ Len(d.stepQueue) \in Nat
    BY LenProperties DEF Folds
  <2>3. ToSet(InOrder(d.stepQueue, <<>>, d.turnQueue)) = Folded(d)
    BY <2>2, NothingHeld DEF Folded
  <2>4. Queued' = InOrder(d.stepQueue, <<>>, d.turnQueue)
    BY <1>1 DEF Queued, InOrder
  <2>5. Once(Messages(d.stepQueue))
    BY DEF Story, FoldInv, Unrepeated
  <2> QED
    BY <1>1, <2>1, <2>2, <2>3, <2>4, <2>5, NothingHeld DEF LiveInv
<1>5. Kept(d, en)'
  BY <1>1 DEF Story, Kept, InLimbo
<1>6. Story(d, en)'
  BY <1>2, <1>3, <1>4, <1>5 DEF Story
<1>7. script' = <<>>
  BY <1>1 DEF Ctl
<1> QED
  BY <1>1, <1>6, <1>7, Retold

(* A claim counts from the front of the fold.  It counts what it takes when *)
(* no notice is held, or when there is no step input to take.               *)
LEMMA CountsFromTheFront ==
  ASSUME NEW q \in Seq(Entry), NEW a \in Seq(Entry), NEW h \in Seq(Msg),
         Len(q) = Len(a) + Len(h), ToSet(q) = ToSet(a) \union ToSet(Quiet(h)),
         h = <<>> \/ a = <<>>
  PROVE  /\ Len(a) \in 0..Len(q) /\ Len(From(q, Len(a))) = Len(h)
         /\ ToSet(Messages(SubSeq(q, 1, Len(a)))) = ToSet(Messages(a))
         /\ ToSet(From(q, Len(a))) = ToSet(Quiet(h))
         /\ ToSet(Messages(From(q, Len(a)))) = ToSet(h)
<1>1. Len(q) \in Nat /\ Len(a) \in Nat /\ Len(h) \in Nat
  BY LenProperties
<1>2. Len(a) \in 0..Len(q)
  BY <1>1
<1>3. From(q, Len(a)) \in Seq(Entry) /\ Len(From(q, Len(a))) = Len(h)
  <2>1. From(q, Len(a)) \in Seq(Entry) /\ Len(From(q, Len(a))) = Len(q) - Len(a)
    BY <1>2, FromFacts
  <2> QED
    BY <1>1, <2>1
<1>4. /\ ToSet(Messages(SubSeq(q, 1, Len(a)))) = ToSet(Messages(a))
      /\ ToSet(From(q, Len(a))) = ToSet(Quiet(h))
  <2>1. CASE a = <<>>
    <3>1. Len(a) = 0 /\ 0 \in 0..Len(q) /\ ToSet(a) = {}
      BY <1>1, <2>1, NothingHeld
    <3>2. From(q, Len(a)) = q /\ SubSeq(q, 1, Len(a)) = <<>>
      BY <1>2, <3>1, FromFacts
    <3> QED
      BY <2>1, <3>1, <3>2
  <2>2. CASE h = <<>>
    <3>1. Len(a) = Len(q) /\ ToSet(Quiet(h)) = {}
      BY <1>1, <2>2, NothingHeld
    <3>2. From(q, Len(a)) = <<>> /\ SubSeq(q, 1, Len(a)) = q
      BY <1>2, <3>1, FromFacts
    <3>3. ToSet(Messages(q)) = ToSet(Messages(a)) \union ToSet(h)
      BY SameMessages
    <3> QED
      BY <2>2, <3>1, <3>2, <3>3, NothingHeld
  <2> QED
    BY <2>1, <2>2
<1>5. ToSet(Messages(From(q, Len(a)))) = ToSet(h)
  <2>1. PICK none \in Seq(Entry) : ToSet(none) = {} /\ ToSet(Messages(none)) = {}
    BY Nothing, NothingHeld
  <2>2. PICK v \in Seq(Entry) : v = From(q, Len(a))
    BY <1>3
  <2>3. ToSet(v) = ToSet(none) \union ToSet(Quiet(h))
    BY <1>4, <2>1, <2>2
  <2>4. ToSet(Messages(v)) = ToSet(Messages(none)) \union ToSet(h)
    <3>1. \A x, y \in Seq(Entry), z \in Seq(Msg) :
            ToSet(x) = ToSet(y) \union ToSet(Quiet(z)) => ToSet(Messages(x)) = ToSet(Messages(y)) \union ToSet(z)
      BY SameMessages
    <3> QED
      BY <2>1, <2>2, <2>3, <3>1
  <2> QED
    BY <2>1, <2>2, <2>4
<1> QED
  BY <1>2, <1>3, <1>4, <1>5

(* A claim: the step input and, at the start of a turn, one prompt.         *)
Taking(first) ==
  /\ TakeClaim(first) /\ gaps' = {} /\ Live /\ ~disposed /\ phase # "preStep" /\ phase' = "preStep"
  /\ UNCHANGED <<script, heldQueue, disposed, durable, entered, unsent, dropped>>

LEMMA TakeTold ==
  ASSUME TypeOK, NEW d \in Folds, NEW en \in [Msg -> Nat], d = durable, en = entered, Story(d, en),
         script = <<>>, NEW first \in BOOLEAN, Taking(first)
  PROVE  Told'
<1>1. PICK c \in Claims : /\ c = [steps |-> Len(stepQueue), turns |-> IF first /\ turnQueue # <<>> THEN 1 ELSE 0]
                          /\ c.steps = Len(stepQueue) /\ c.turns = IF first /\ turnQueue # <<>> THEN 1 ELSE 0
  <2> DEFINE turns == IF first /\ turnQueue # <<>> THEN 1 ELSE 0
             c == [steps |-> Len(stepQueue), turns |-> turns]
  <2>1. Len(stepQueue) \in Nat /\ turns \in {0, 1}
    BY LenProperties DEF TypeOK
  <2> HIDE DEF turns
  <2>2. c \in Claims /\ c.steps = Len(stepQueue) /\ c.turns = turns
    BY <2>1 DEF Claims
  <2> QED
    BY <2>2 DEF turns
<1>2. /\ claimed' = SubSeq(turnQueue, 1, c.turns) \o Messages(stepQueue)
      /\ turnQueue' = From(turnQueue, c.turns) /\ stepQueue' = <<>> /\ pendingClaim' = c
      /\ heldQueue = <<>> \/ Len(stepQueue) = 0
  <2>1. Len(stepQueue) \in Nat
    BY LenProperties DEF TypeOK
  <2>2. /\ claimed' = SubSeq(turnQueue, 1, c.turns) \o Messages(stepQueue)
        /\ turnQueue' = From(turnQueue, c.turns) /\ stepQueue' = <<>> /\ pendingClaim' = c
    BY <1>1 DEF Taking, TakeClaim
  <2>3. ~(heldQueue # <<>> /\ Len(stepQueue) > 0)
    BY DEF Taking, TakeClaim
  <2> QED
    BY <2>1, <2>2, <2>3
<1>3. /\ UNCHANGED <<script, heldQueue, disposed, durable, entered, unsent, dropped>>
      /\ phase # "preStep" /\ phase' = "preStep" /\ Live /\ ~disposed
  BY DEF Taking
<1>4. pendingClaim = NoClaim /\ claimed = <<>> /\ Rest(d) = d
  <2>1. pendingClaim = NoClaim /\ claimed = <<>>
    BY <1>3 DEF Story, ClaimInv
  <2> QED
    BY <2>1, FoldsAre DEF Rest
<1>5. /\ d.turnQueue = turnQueue
      /\ Len(d.stepQueue) = Len(stepQueue) + Len(heldQueue)
      /\ ToSet(d.stepQueue) = ToSet(stepQueue) \union ToSet(Quiet(heldQueue))
      /\ Once(Messages(stepQueue)) /\ Once(heldQueue)
      /\ ToSet(Messages(stepQueue)) \intersect ToSet(heldQueue) = {}
  BY <1>3, <1>4 DEF Story, LiveInv
<1>6. /\ stepQueue \in Seq(Entry) /\ heldQueue \in Seq(Msg) /\ turnQueue \in Seq(Msg)
      /\ d.stepQueue \in Seq(Entry)
  BY DEF TypeOK, Folds
<1>7. heldQueue = <<>> \/ stepQueue = <<>>
  BY <1>2, <1>6, EmptySeq
<1> DEFINE n == Len(stepQueue)
           q == d.stepQueue
           v == From(q, n)
           a == SubSeq(turnQueue, 1, c.turns)
           b == Messages(stepQueue)
<1>8. /\ n \in 0..Len(q) /\ Len(v) = Len(heldQueue)
      /\ ToSet(Messages(SubSeq(q, 1, n))) = ToSet(b)
      /\ ToSet(v) = ToSet(Quiet(heldQueue)) /\ ToSet(Messages(v)) = ToSet(heldQueue)
  <2>1. \A x, y \in Seq(Entry), z \in Seq(Msg) :
          Len(x) = Len(y) + Len(z) /\ ToSet(x) = ToSet(y) \union ToSet(Quiet(z)) /\ (z = <<>> \/ y = <<>>)
          => /\ Len(y) \in 0..Len(x) /\ Len(From(x, Len(y))) = Len(z)
             /\ ToSet(Messages(SubSeq(x, 1, Len(y)))) = ToSet(Messages(y))
             /\ ToSet(From(x, Len(y))) = ToSet(Quiet(z))
             /\ ToSet(Messages(From(x, Len(y)))) = ToSet(z)
    BY CountsFromTheFront
  <2> HIDE DEF q
  <2>2. q \in Seq(Entry) /\ Len(q) = Len(stepQueue) + Len(heldQueue)
        /\ ToSet(q) = ToSet(stepQueue) \union ToSet(Quiet(heldQueue))
    BY <1>5, <1>6 DEF q
  <2> QED
    BY <1>6, <1>7, <2>1, <2>2
<1>9. c.turns \in 0..Len(turnQueue)
  <2>1. Len(turnQueue) \in Nat /\ (turnQueue # <<>> => Len(turnQueue) # 0)
    BY <1>6, LenProperties, EmptySeq
  <2> QED
    BY <1>1, <2>1
<1>10. Unrepeated(d)
  BY DEF Story, FoldInv
<1>11. /\ a \in Seq(Msg) /\ Len(a) = c.turns /\ Once(a)
       /\ ToSet(turnQueue) = ToSet(a) \union ToSet(From(turnQueue, c.turns))
       /\ From(turnQueue, c.turns) \in Seq(Msg)
  <2>1. Once(turnQueue)
    BY <1>5, <1>10 DEF Unrepeated
  <2> QED
    BY <1>6, <1>9, <2>1, FromFacts, FromSplits
<1>12. b \in Seq(Msg) /\ Len(b) = n /\ ToSet(b) \subseteq ToSet(Messages(q))
  <2>1. b \in Seq(Msg) /\ Len(b) = n
    BY <1>6, MessagesFacts
  <2>2. ToSet(Messages(q)) = ToSet(b) \union ToSet(heldQueue)
    BY <1>5, <1>6, SameMessages
  <2> QED
    BY <2>1, <2>2
<1>13. ToSet(a) \intersect ToSet(b) = {}
  BY <1>5, <1>10, <1>11, <1>12 DEF Unrepeated
<1>14. n \in Nat /\ c.turns \in Nat
  BY <1>6, LenProperties DEF Claims
<1> HIDE DEF a, b, n, v
<1>15. /\ a \o b \in Seq(Msg) /\ Once(a \o b) /\ ToSet(a \o b) = ToSet(a) \union ToSet(b)
       /\ Len(a \o b) = c.turns + n
  <2>1. Once(b)
    BY <1>5 DEF b
  <2>2. /\ a \o b \in Seq(Msg) /\ Len(a \o b) = Len(a) + Len(b)
        /\ ToSet(a \o b) = ToSet(a) \union ToSet(b)
        /\ Once(a) /\ Once(b) /\ ToSet(a) \intersect ToSet(b) = {} => Once(a \o b)
    <3>1. a \in Seq(Msg) /\ b \in Seq(Msg)
      BY <1>11, <1>12
    <3> QED
      BY <3>1, ConcatFacts
  <2> QED
    BY <1>11, <1>12, <1>13, <2>1, <2>2
<1>16. claimed' = a \o b
  BY <1>2 DEF a, b
<1>17. Taken(d, c) = ToSet(claimed')
  BY <1>1, <1>5, <1>8, <1>15, <1>16 DEF Taken, n, a
<1>18. c = NoClaim => claimed' = <<>>
  <2>1. ASSUME c = NoClaim PROVE claimed' = <<>>
    <3>1. c.turns = 0 /\ n = 0
      BY <1>1, <2>1 DEF NoClaim, n
    <3>2. Len(a \o b) = 0
      BY <1>15, <3>1
    <3> QED
      BY <1>15, <1>16, <3>2, EmptySeq
  <2> QED
    BY <2>1
<1>19. FoldInv(d, en)'
  BY <1>3 DEF Story, FoldInv
<1>20. ClaimInv(d, en)'
  <2>1. c.turns <= Len(d.turnQueue) /\ c.steps <= Len(d.stepQueue)
    BY <1>1, <1>5, <1>8, <1>9 DEF n
  <2> QED
    BY <1>2, <1>3, <1>15, <1>16, <1>17, <1>18, <2>1 DEF ClaimInv
<1>21. Rest(d)' = Drain(d, c) /\ Drain(d, c).turnQueue = turnQueue' /\ Drain(d, c).stepQueue = v
  BY <1>1, <1>2, <1>5 DEF Rest, Drain, v, n
<1>22. LiveInv(d)'
  <2>1. Queued' = InOrder(<<>>, heldQueue, turnQueue')
    BY <1>2, <1>3 DEF Queued, InOrder
  <2>2. ToSet(Queued') = ToSet(heldQueue) \union ToSet(turnQueue')
    <3>1. PICK none \in Seq(Entry) : none = <<>> /\ ToSet(Messages(none)) = {}
      BY Nothing, NothingHeld
    <3>2. turnQueue' \in Seq(Msg)
      BY <1>2, <1>11
    <3>3. ToSet(InOrder(none, heldQueue, turnQueue'))
            = ToSet(Messages(none)) \union ToSet(heldQueue) \union ToSet(turnQueue')
      BY <1>6, <3>2, QueuesHold
    <3> QED
      BY <2>1, <3>1, <3>3
  <2>3. Folded(Rest(d)') = ToSet(turnQueue') \union ToSet(heldQueue)
    BY <1>8, <1>21 DEF Folded
  <2>4. Len(v) = Len(<<>>) + Len(heldQueue) /\ ToSet(v) = ToSet(<<>>) \union ToSet(Quiet(heldQueue))
    <3>1. Len(heldQueue) \in Nat
      BY <1>6, LenProperties
    <3> QED
      BY <1>8, <3>1, NothingHeld
  <2>5. Once(Messages(<<>>)) /\ ToSet(Messages(<<>>)) \intersect ToSet(heldQueue) = {}
    BY NothingHeld
  <2> QED
    BY <1>2, <1>3, <1>5, <1>21, <2>2, <2>3, <2>4, <2>5 DEF LiveInv
<1>23. Kept(d, en)'
  BY <1>3 DEF Story, Kept, InLimbo
<1>24. Story(d, en)'
  BY <1>19, <1>20, <1>22, <1>23 DEF Story
<1> QED
  BY <1>3, <1>24, Retold

LEMMA BeginTold ==
  ASSUME TypeOK, Ctl, NEW d \in Folds, NEW en \in [Msg -> Nat], d = durable, en = entered, Story(d, en),
         gaps' = {}, BeginTurn
  PROVE  Told'
<1>1. script = <<>> /\ Taking(TRUE)
  BY DEF BeginTurn, Taking, Live, Ctl
<1> QED
  BY <1>1, TakeTold

LEMMA StepTold ==
  ASSUME TypeOK, Ctl, NEW d \in Folds, NEW en \in [Msg -> Nat], d = durable, en = entered, Story(d, en),
         gaps' = {}, NextStep
  PROVE  Told'
<1>1. CASE aborted
  <2>1. /\ phase = "claim" /\ phase' = "ending" /\ script' = <<>>
        /\ UNCHANGED <<inbox, claimed, disposed, aborted, unsent, dropped, durable, entered>>
    BY <1>1 DEF NextStep
  <2>2. Story(d, en)'
    BY <2>1, StoryStays DEF Live
  <2> QED
    BY <2>1, <2>2, Retold
<1>2. CASE ~aborted
  <2>1. script = <<>> /\ Taking(FALSE)
    BY <1>2 DEF NextStep, Taking, Live, Ctl
  <2> QED
    BY <2>1, TakeTold
<1> QED
  BY <1>1, <1>2

-----------------------------------------------------------------------------
(* The plans a segment makes.                                               *)
Withdrawal(c, b, s) == [first |-> c, clear |-> b, back |-> s, enter |-> <<>>, last |-> NoClaim]
Entrance(s, e, c) == [first |-> NoClaim, clear |-> FALSE, back |-> s, enter |-> e, last |-> c]

LEMMA WithdrawalFacts ==
  ASSUME NEW c \in Claims, NEW b \in BOOLEAN, NEW s \in Seq(Msg)
  PROVE  LET p == Withdrawal(c, b, s)
         IN  /\ p \in Plans /\ Once(p.enter)
             /\ Writes(p) = Claimed(c) \o (Cleared(b) \o Inserts(s))
             /\ \A d \in Folds : FoldAfter(p, d) = PutBack(IF b THEN Emptied ELSE Drain(d, c), s)
             /\ \A en \in [Msg -> Nat] : EnteredAfter(p, en) = en
<1> DEFINE p == Withdrawal(c, b, s)
<1>1. /\ p \in Plans /\ p.first = c /\ p.clear = b /\ p.back = s /\ p.enter = <<>> /\ p.last = NoClaim
  <2>1. <<>> \in Seq(Msg) /\ NoClaim \in Claims
    BY Nothing, FoldsAre
  <2> QED
    BY <2>1 DEF Withdrawal, Plans
<1> HIDE DEF p
<1>2. Writes(p) = Claimed(c) \o (Cleared(b) \o Inserts(s))
  <2>1. Enters(<<>>) = <<>> /\ Claimed(NoClaim) = <<>>
    <3>1. PICK nil \in Seq(Msg) : nil = <<>>
      BY Nothing
    <3>2. Enters(nil) = <<>>
      BY <3>1, EntersFacts
    <3> QED
      BY <3>1, <3>2 DEF Claimed
  <2>2. <<>> \o <<>> = <<>>
    BY Nothing, ConcatEmptySeq
  <2>3. Inserts(s) \o <<>> = Inserts(s)
    <3>1. Inserts(s) \in Seq(Records)
      BY InsertsFacts
    <3> QED
      BY <3>1, ConcatEmptySeq
  <2>4. Writes(p) = Claimed(c) \o (Cleared(b) \o (Inserts(s) \o (Enters(<<>>) \o Claimed(NoClaim))))
    BY <1>1 DEF Writes
  <2> QED
    BY <2>1, <2>2, <2>3, <2>4
<1>3. ASSUME NEW d \in Folds
      PROVE  FoldAfter(p, d) = PutBack(IF b THEN Emptied ELSE Drain(d, c), s)
  <2> DEFINE f == IF b THEN Emptied ELSE Drain(d, c)
  <2>1. f \in Folds
    BY FoldsAre
  <2>2. FoldAfter(p, d) = Drain(PutBack(f, s), NoClaim)
    BY <1>1 DEF FoldAfter
  <2> HIDE DEF f
  <2>3. PutBack(f, s) \in Folds
    BY <2>1, FoldsAre
  <2>4. Drain(PutBack(f, s), NoClaim) = PutBack(f, s)
    BY <2>3, FoldsAre
  <2> QED
    BY <2>2, <2>4 DEF f
<1>4. ASSUME NEW en \in [Msg -> Nat] PROVE EnteredAfter(p, en) = en
  BY <1>1, Nothing DEF EnteredAfter
<1> QED
  BY <1>1, <1>2, <1>3, <1>4, Nothing DEF p

LEMMA EntryFacts ==
  ASSUME NEW s \in Seq(Msg), NEW e \in Seq(Msg), NEW c \in Claims, Once(e)
  PROVE  LET p == Entrance(s, e, c)
         IN  /\ p \in Plans /\ Once(p.enter)
             /\ Writes(p) = Inserts(s) \o (Enters(e) \o Claimed(c))
             /\ \A d \in Folds : c.turns <= Len(d.turnQueue) /\ c.steps <= Len(d.stepQueue)
                                 => FoldAfter(p, d) = PutBack(Drain(d, c), s)
             /\ \A en : EnteredAfter(p, en) = [m \in Msg |-> IF m \in ToSet(e) THEN en[m] + 1 ELSE en[m]]
<1> DEFINE p == Entrance(s, e, c)
<1>1. /\ p \in Plans /\ p.first = NoClaim /\ p.clear = FALSE /\ p.back = s /\ p.enter = e /\ p.last = c
  <2>1. NoClaim \in Claims
    BY FoldsAre
  <2> QED
    BY <2>1 DEF Entrance, Plans
<1> HIDE DEF p
<1>2. Writes(p) = Inserts(s) \o (Enters(e) \o Claimed(c))
  <2> DEFINE w == Enters(e) \o Claimed(c)
             r == Inserts(s) \o w
  <2>1. r \in Seq(Records)
    BY <1>1, WritesFacts
  <2>2. Writes(p) = <<>> \o (<<>> \o r)
    BY <1>1 DEF Writes, Claimed, Cleared
  <2> HIDE DEF r
  <2>3. <<>> \o r = r
    BY <2>1, ConcatEmptySeq
  <2> QED
    BY <2>2, <2>3 DEF r
<1>3. ASSUME NEW d \in Folds, c.turns <= Len(d.turnQueue), c.steps <= Len(d.stepQueue)
      PROVE  FoldAfter(p, d) = PutBack(Drain(d, c), s)
  <2>1. Drain(d, NoClaim) = d
    BY FoldsAre
  <2>2. FoldAfter(p, d) = Drain(PutBack(d, s), c)
    BY <1>1, <2>1 DEF FoldAfter
  <2>3. d.stepQueue \in Seq(Entry) /\ Quiet(s) \in Seq(Entry) /\ c.steps \in 0..Len(d.stepQueue)
    <3>1. d.stepQueue \in Seq(Entry) /\ c.steps \in Nat
      BY DEF Folds, Claims
    <3>2. Len(d.stepQueue) \in Nat
      BY <3>1, LenProperties
    <3> QED
      BY <1>3, <3>1, <3>2, QuietFacts
  <2>4. From(d.stepQueue \o Quiet(s), c.steps) = From(d.stepQueue, c.steps) \o Quiet(s)
    BY <2>3, FromConcat
  <2> QED
    BY <2>2, <2>4 DEF Drain, PutBack
<1>4. ASSUME NEW en
      PROVE  EnteredAfter(p, en) = [m \in Msg |-> IF m \in ToSet(e) THEN en[m] + 1 ELSE en[m]]
  BY <1>1 DEF EnteredAfter
<1> QED
  BY <1>1, <1>2, <1>3, <1>4 DEF p

(* Records are appended one after the other, however they are grouped.      *)
LEMMA Grouped ==
  \A a, b, c \in Seq(Records) : (a \o b) \o c = a \o (b \o c)
  BY ConcatAssociative

(* The batch of the pre-step await is settled: E enters, the notices among  *)
(* the others go back (to the step queue, or held), the rest is withdrawn.  *)
Settling(E, kept) ==
  /\ phase = "preStep" /\ phase' # "preStep" /\ Live'
  /\ pendingClaim' = NoClaim /\ claimed' = <<>>
  /\ dropped' = dropped \union ((ToSet(claimed) \ E) \ Notice)
  /\ \/ stepQueue' = stepQueue \o Quiet(kept) /\ heldQueue' = heldQueue
     \/ heldQueue' = heldQueue \o kept /\ stepQueue' = stepQueue
  /\ UNCHANGED <<turnQueue, disposed, unsent>>

Raised(en, E) == [m \in Msg |-> IF m \in E THEN en[m] + 1 ELSE en[m]]

(* Where the notices went: the queues hold them behind what they held.      *)
LEMMA PutBackLive ==
  ASSUME TypeOK, NEW E, NEW kept \in Seq(Msg), Settling(E, kept), Once(kept),
         ToSet(kept) \intersect ToSet(Queued) = {}
  PROVE  /\ ToSet(Queued') = ToSet(Queued) \union ToSet(kept)
         /\ Len(stepQueue') + Len(heldQueue') = Len(stepQueue) + Len(heldQueue) + Len(kept)
         /\ ToSet(stepQueue') \union ToSet(Quiet(heldQueue'))
              = ToSet(stepQueue) \union ToSet(Quiet(heldQueue)) \union ToSet(Quiet(kept))
         /\ /\ Once(Messages(stepQueue)) /\ Once(heldQueue)
            /\ ToSet(Messages(stepQueue)) \intersect ToSet(heldQueue) = {}
            => /\ Once(Messages(stepQueue')) /\ Once(heldQueue')
               /\ ToSet(Messages(stepQueue')) \intersect ToSet(heldQueue') = {}
<1>1. stepQueue \in Seq(Entry) /\ heldQueue \in Seq(Msg) /\ turnQueue \in Seq(Msg)
  BY DEF TypeOK
<1>2. Quiet(kept) \in Seq(Entry) /\ Len(Quiet(kept)) = Len(kept) /\ Messages(Quiet(kept)) = kept
  BY QuietFacts
<1>3. Messages(stepQueue) \in Seq(Msg)
  BY <1>1, MessagesFacts
<1>4. Len(stepQueue) \in Nat /\ Len(heldQueue) \in Nat /\ Len(kept) \in Nat
  BY <1>1, LenProperties
<1>5. ToSet(Queued) = ToSet(Messages(stepQueue)) \union ToSet(heldQueue) \union ToSet(turnQueue)
  BY QueuedHolds
<1>6. turnQueue' = turnQueue
  BY DEF Settling
<1>7. CASE stepQueue' = stepQueue \o Quiet(kept) /\ heldQueue' = heldQueue
  <2> DEFINE b == Quiet(kept)
             a == Messages(stepQueue)
  <2> HIDE DEF b, a
  <2>1. PICK q \in Seq(Entry) :
          /\ q = stepQueue \o b /\ Len(q) = Len(stepQueue) + Len(kept)
          /\ ToSet(q) = ToSet(stepQueue) \union ToSet(b)
    <3>1. stepQueue \in Seq(Entry) /\ b \in Seq(Entry) /\ Len(b) = Len(kept)
      BY <1>1, <1>2 DEF b
    <3> QED
      BY <3>1, ConcatFacts
  <2>2. Messages(q) = a \o kept
    <3>1. b \in Seq(Entry) /\ Messages(b) = kept
      BY <1>2 DEF b
    <3> QED
      BY <1>1, <2>1, <3>1, MessagesConcat DEF a
  <2>3. /\ ToSet(a \o kept) = ToSet(a) \union ToSet(kept)
        /\ Once(a) /\ Once(kept) /\ ToSet(a) \intersect ToSet(kept) = {} => Once(a \o kept)
    <3>1. a \in Seq(Msg)
      BY <1>3 DEF a
    <3> QED
      BY <3>1, ConcatFacts
  <2>4. stepQueue' = q /\ heldQueue' = heldQueue
    BY <1>7, <2>1 DEF b
  <2>5. ToSet(InOrder(q, heldQueue, turnQueue)) = ToSet(Messages(q)) \union ToSet(heldQueue) \union ToSet(turnQueue)
    <3>1. q \in Seq(Entry)
      BY <2>1
    <3> QED
      BY <1>1, <3>1, QueuesHold
  <2>6. Queued' = InOrder(q, heldQueue, turnQueue)
    BY <1>6, <2>4 DEF Queued, InOrder
  <2>7. ToSet(Queued') = ToSet(Queued) \union ToSet(kept)
    BY <1>5, <2>2, <2>3, <2>5, <2>6 DEF a
  <2>8. Len(q) + Len(heldQueue) = Len(stepQueue) + Len(heldQueue) + Len(kept)
    BY <1>4, <2>1
  <2> QED
    BY <1>5, <2>1, <2>2, <2>3, <2>4, <2>7, <2>8 DEF a, b
<1>8. CASE heldQueue' = heldQueue \o kept /\ stepQueue' = stepQueue
  <2> DEFINE a == Messages(stepQueue)
             b == Quiet(heldQueue)
  <2> HIDE DEF a, b
  <2>1. PICK h \in Seq(Msg) :
          /\ h = heldQueue \o kept /\ Len(h) = Len(heldQueue) + Len(kept)
          /\ ToSet(h) = ToSet(heldQueue) \union ToSet(kept)
          /\ Once(heldQueue) /\ Once(kept) /\ ToSet(heldQueue) \intersect ToSet(kept) = {} => Once(h)
    BY <1>1, ConcatFacts
  <2>2. ToSet(Quiet(h)) = ToSet(b) \union ToSet(Quiet(kept))
    <3>0. h \in Seq(Msg) /\ ToSet(h) = ToSet(heldQueue) \union ToSet(kept)
      BY <2>1
    <3>1. /\ \A e : e \in ToSet(Quiet(h)) <=> \E m \in ToSet(h) : e = [msg |-> m, waking |-> FALSE]
          /\ \A e : e \in ToSet(b) <=> \E m \in ToSet(heldQueue) : e = [msg |-> m, waking |-> FALSE]
          /\ \A e : e \in ToSet(Quiet(kept)) <=> \E m \in ToSet(kept) : e = [msg |-> m, waking |-> FALSE]
      BY <1>1, <3>0, QuietFacts DEF b
    <3> DEFINE quiet(m) == [msg |-> m, waking |-> FALSE]
    <3> HIDE DEF quiet
    <3>2. /\ \A e : e \in ToSet(Quiet(h)) <=> \E m \in ToSet(h) : e = quiet(m)
          /\ \A e : e \in ToSet(b) <=> \E m \in ToSet(heldQueue) : e = quiet(m)
          /\ \A e : e \in ToSet(Quiet(kept)) <=> \E m \in ToSet(kept) : e = quiet(m)
      BY <3>1 DEF quiet
    <3> QED
      BY <3>0, <3>2
  <2>3. stepQueue' = stepQueue /\ heldQueue' = h
    BY <1>8, <2>1
  <2>4. ToSet(InOrder(stepQueue, h, turnQueue)) = ToSet(a) \union ToSet(h) \union ToSet(turnQueue)
    <3>1. h \in Seq(Msg)
      BY <2>1
    <3>2. ToSet(InOrder(stepQueue, h, turnQueue))
            = ToSet(Messages(stepQueue)) \union ToSet(h) \union ToSet(turnQueue)
      BY <1>1, <3>1, QueuesHold
    <3> QED
      BY <3>2 DEF a
  <2>5. Queued' = InOrder(stepQueue, h, turnQueue)
    BY <1>6, <2>3 DEF Queued, InOrder
  <2>6. ToSet(Queued') = ToSet(Queued) \union ToSet(kept)
    BY <1>5, <2>1, <2>4, <2>5 DEF a
  <2>7. Len(stepQueue) + Len(h) = Len(stepQueue) + Len(heldQueue) + Len(kept)
    BY <1>4, <2>1
  <2> QED
    BY <1>5, <2>1, <2>2, <2>3, <2>6, <2>7 DEF a, b
<1> QED
  BY <1>7, <1>8 DEF Settling

LEMMA SettlingTold ==
  ASSUME TypeOK, NEW d \in Folds, NEW en \in [Msg -> Nat], Story(d, en),
         NEW E, NEW kept \in Seq(Msg), Settling(E, kept), Once(kept),
         E \subseteq ToSet(claimed), ToSet(kept) = (ToSet(claimed) \ E) \intersect Notice,
         E = {} \/ pendingClaim # NoClaim,
         NEW f \in Folds, f = PutBack(Rest(d), kept), NEW n \in [Msg -> Nat], n = Raised(en, E)
  PROVE  Story(f, n)'
<1> DEFINE r == Rest(d)
<1>1. /\ r \in Folds /\ Unrepeated(r) /\ Folded(r) \subseteq Folded(d)
      /\ Folded(d) \subseteq Folded(r) \union ToSet(claimed)
      /\ ToSet(claimed) \intersect Folded(r) = {} /\ ToSet(claimed) \subseteq Msg
      /\ \A m \in ToSet(claimed) :
           /\ en[m] = 0 /\ m \notin unsent /\ (m \in Notice => m \notin dropped)
           /\ pendingClaim # NoClaim => m \notin dropped
  BY ClaimIsApart DEF Story
<1>2. /\ phase = "preStep" /\ phase' # "preStep" /\ Live'
      /\ pendingClaim' = NoClaim /\ claimed' = <<>>
      /\ dropped' = dropped \union ((ToSet(claimed) \ E) \ Notice)
      /\ UNCHANGED <<turnQueue, disposed, unsent>>
  BY DEF Settling
<1>3. \A m \in Msg : n[m] = IF m \in E THEN en[m] + 1 ELSE en[m]
  BY DEF Raised
<1> HIDE DEF r
<1>4. /\ f \in Folds /\ f.turnQueue = r.turnQueue
      /\ Folded(f) = Folded(r) \union ToSet(kept)
      /\ Len(f.stepQueue) = Len(r.stepQueue) + Len(kept)
      /\ ToSet(f.stepQueue) = ToSet(r.stepQueue) \union ToSet(Quiet(kept))
      /\ Unrepeated(r) /\ Once(kept) /\ ToSet(kept) \intersect Folded(r) = {} => Unrepeated(f)
  <2>1. f = PutBack(r, kept)
    BY DEF r
  <2>2. \A x \in Folds, s \in Seq(Msg) :
          /\ PutBack(x, s) \in Folds /\ PutBack(x, s).turnQueue = x.turnQueue
          /\ Folded(PutBack(x, s)) = Folded(x) \union ToSet(s)
          /\ Len(PutBack(x, s).stepQueue) = Len(x.stepQueue) + Len(s)
          /\ ToSet(PutBack(x, s).stepQueue) = ToSet(x.stepQueue) \union ToSet(Quiet(s))
          /\ Unrepeated(x) /\ Once(s) /\ ToSet(s) \intersect Folded(x) = {} => Unrepeated(PutBack(x, s))
    BY PutBackFacts
  <2>3. r \in Folds /\ kept \in Seq(Msg)
    BY <1>1
  <2> DEFINE g == PutBack(r, kept)
  <2>4. /\ g \in Folds /\ g.turnQueue = r.turnQueue
        /\ Folded(g) = Folded(r) \union ToSet(kept)
        /\ Len(g.stepQueue) = Len(r.stepQueue) + Len(kept)
        /\ ToSet(g.stepQueue) = ToSet(r.stepQueue) \union ToSet(Quiet(kept))
        /\ Unrepeated(r) /\ Once(kept) /\ ToSet(kept) \intersect Folded(r) = {} => Unrepeated(g)
    BY <2>2, <2>3
  <2>5. f = g
    BY <2>1
  <2> HIDE DEF g
  <2> QED
    BY <2>4, <2>5
<1>5. FoldInv(f, n)'
  <2>1. Unrepeated(f)
    BY <1>1, <1>4
  <2>2. /\ unsent \intersect dropped = {}
        /\ \A m \in Folded(d) : en[m] = 0 /\ m \notin unsent /\ m \notin dropped
        /\ \A m \in Msg : en[m] <= 1 /\ (en[m] > 0 => m \notin unsent /\ m \notin dropped)
    BY DEF Story, FoldInv
  <2>3. unsent' \intersect dropped' = {}
    BY <1>1, <1>2, <2>2
  <2>4. ASSUME NEW m \in Folded(f) PROVE n[m] = 0 /\ m \notin unsent' /\ m \notin dropped'
    <3>1. m \in Msg /\ m \notin E
      BY <1>1, <1>4, FoldedIsMsg
    <3>2. n[m] = en[m]
      BY <1>3, <3>1
    <3>3. CASE m \in Folded(r)
      BY <1>1, <1>2, <2>2, <3>2, <3>3
    <3>4. CASE m \in ToSet(kept)
      BY <1>1, <1>2, <3>2, <3>4
    <3> QED
      BY <1>4, <3>3, <3>4
  <2>5. ASSUME NEW m \in Msg PROVE n[m] <= 1 /\ (n[m] > 0 => m \notin unsent' /\ m \notin dropped')
    <3>1. CASE m \in E
      <4>1. en[m] = 0 /\ m \notin unsent /\ m \notin dropped
        BY <1>1, <3>1
      <4>2. n[m] = 1
        BY <1>3, <3>1, <4>1
      <4> QED
        BY <1>2, <3>1, <4>1, <4>2
    <3>2. CASE m \notin E
      <4>1. n[m] = en[m]
        BY <1>3, <3>2
      <4>2. m \in ToSet(claimed) => ~(en[m] > 0)
        BY <1>1
      <4> QED
        BY <1>2, <2>2, <4>1, <4>2
    <3> QED
      BY <3>1, <3>2
  <2> QED
    BY <2>1, <2>3, <2>4, <2>5 DEF FoldInv
<1>6. ClaimInv(f, n)'
  <2>1. Len(f.turnQueue) \in Nat /\ Len(f.stepQueue) \in Nat
    BY <1>4, LenProperties DEF Folds
  <2>2. NoClaim.turns = 0 /\ NoClaim.steps = 0
    BY DEF NoClaim
  <2>3. NoClaim.turns <= Len(f.turnQueue) /\ NoClaim.steps <= Len(f.stepQueue)
    BY <2>1, <2>2
  <2> QED
    BY <1>2, <2>3, NothingHeld DEF ClaimInv
<1>7. LiveInv(f)'
  <2>1. Rest(f)' = f
    BY <1>2, <1>4, FoldsAre DEF Rest
  <2>2. ToSet(Queued) \subseteq Folded(r)
    BY DEF Story, LiveInv, r
  <2>3. ToSet(kept) \intersect ToSet(Queued) = {}
    BY <1>1, <2>2
  <2>4. ToSet(Queued') \subseteq Folded(Rest(f)')
    BY <1>4, <2>1, <2>2, <2>3, PutBackLive
  <2>5. ASSUME ~disposed
        PROVE  /\ f.turnQueue = turnQueue'
               /\ Len(f.stepQueue) = Len(stepQueue') + Len(heldQueue')
               /\ ToSet(f.stepQueue) = ToSet(stepQueue') \union ToSet(Quiet(heldQueue'))
               /\ Once(Messages(stepQueue')) /\ Once(heldQueue')
               /\ ToSet(Messages(stepQueue')) \intersect ToSet(heldQueue') = {}
    <3>1. Live
      BY <1>2 DEF Live
    <3>2. /\ r.turnQueue = turnQueue
          /\ Len(r.stepQueue) = Len(stepQueue) + Len(heldQueue)
          /\ ToSet(r.stepQueue) = ToSet(stepQueue) \union ToSet(Quiet(heldQueue))
          /\ Once(Messages(stepQueue)) /\ Once(heldQueue)
          /\ ToSet(Messages(stepQueue)) \intersect ToSet(heldQueue) = {}
      BY <2>5, <3>1 DEF Story, LiveInv, r
    <3>3. /\ Len(stepQueue') + Len(heldQueue') = Len(stepQueue) + Len(heldQueue) + Len(kept)
          /\ ToSet(stepQueue') \union ToSet(Quiet(heldQueue'))
               = ToSet(stepQueue) \union ToSet(Quiet(heldQueue)) \union ToSet(Quiet(kept))
          /\ Once(Messages(stepQueue')) /\ Once(heldQueue')
          /\ ToSet(Messages(stepQueue')) \intersect ToSet(heldQueue') = {}
      BY <2>3, <3>2, PutBackLive
    <3> QED
      BY <1>2, <1>4, <3>2, <3>3
  <2> QED
    BY <1>2, <2>1, <2>4, <2>5 DEF LiveInv
<1>8. Kept(f, n)'
  <2>1. ASSUME NEW m \in Msg, m \notin unsent' \union dropped' PROVE n[m] > 0 \/ m \in Folded(f)
    <3>1. m \notin unsent /\ m \notin dropped
      BY <1>2, <2>1
    <3>2. en[m] > 0 \/ m \in Folded(d) \/ m \in ToSet(claimed)
      BY <3>1 DEF Story, Kept, InLimbo
    <3>3. CASE m \in E
      <4>1. n[m] = 1
        BY <1>1, <1>3, <3>3
      <4> QED
        BY <4>1
    <3>4. CASE m \in ToSet(claimed) /\ m \notin E
      BY <1>2, <1>4, <2>1, <3>4
    <3>5. CASE m \notin ToSet(claimed)
      BY <1>1, <1>3, <1>4, <3>2, <3>5
    <3> QED
      BY <3>3, <3>4, <3>5
  <2> QED
    BY <2>1 DEF Kept
<1> QED
  BY <1>5, <1>6, <1>7, <1>8 DEF Story

(* The pre-step await failed: the claim is recorded, its notices go back.   *)
Consuming(refused) ==
  /\ phase = "preStep" /\ ConsumeClaim(refused)
  /\ UNCHANGED <<disposed, durable, entered, unsent>>

LEMMA ConsumeTold ==
  ASSUME TypeOK, NEW d \in Folds, NEW en \in [Msg -> Nat], d = durable, en = entered, Story(d, en),
         NEW refused \in Seq(Msg), Once(refused), ToSet(refused) = ToSet(claimed), Consuming(refused)
  PROVE  Told'
<1>1. PICK kept \in Seq(Msg) : kept = Notices(refused)
  BY NoticesAre
<1>2. PICK c \in Claims : c = pendingClaim /\ Commit = Claimed(c)
  BY CommitIs
<1>3. ToSet(kept) = ToSet(claimed) \intersect Notice /\ Once(kept)
  BY <1>1, NoticesAre
<1>4. PICK p \in Plans :
        /\ Once(p.enter) /\ Writes(p) = Claimed(c) \o (Cleared(FALSE) \o Inserts(kept))
        /\ \A x \in Folds : FoldAfter(p, x) = PutBack(Drain(x, c), kept)
        /\ \A x \in [Msg -> Nat] : EnteredAfter(p, x) = x
  <2>2. FALSE \in BOOLEAN
    OBVIOUS
  <2> DEFINE w == Withdrawal(c, FALSE, kept)
  <2>3. /\ w \in Plans /\ Once(w.enter) /\ Writes(w) = Claimed(c) \o (Cleared(FALSE) \o Inserts(kept))
        /\ \A x \in Folds : FoldAfter(w, x) = PutBack(IF FALSE THEN Emptied ELSE Drain(x, c), kept)
        /\ \A x \in [Msg -> Nat] : EnteredAfter(w, x) = x
    BY <2>2, WithdrawalFacts
  <2> HIDE DEF w
  <2> QED
    BY <2>3
<1>5. script' = Writes(p)
  <2>1. script' = Claimed(c) \o Inserts(kept)
    BY <1>1, <1>2 DEF Consuming, ConsumeClaim
  <2>2. Inserts(kept) \in Seq(Records)
    BY InsertsFacts
  <2>3. <<>> \o Inserts(kept) = Inserts(kept)
    BY <2>2, ConcatEmptySeq
  <2> QED
    BY <1>4, <2>1, <2>3 DEF Cleared
<1>6. PICK f \in Folds : f = PutBack(Drain(d, c), kept)
  BY FoldsAre
<1>7. en = Raised(en, {})
  BY DEF Raised
<1>8. Settling({}, kept)
  <2>1. /\ phase' = "ending" /\ pendingClaim' = NoClaim /\ claimed' = <<>>
        /\ stepQueue' = stepQueue \o Quiet(kept) /\ heldQueue' = heldQueue
        /\ UNCHANGED <<turnQueue, disposed, unsent>>
        /\ dropped' = dropped \union Others(refused)
    BY <1>1 DEF Consuming, ConsumeClaim
  <2>2. Others(refused) = ToSet(claimed) \ Notice
    BY NoticesAre
  <2> QED
    BY <2>1, <2>2 DEF Settling, Live, Consuming
<1>9. Story(f, en)'
  <2>1. f = PutBack(Rest(d), kept)
    BY <1>2, <1>6 DEF Rest
  <2>2. {} \subseteq ToSet(claimed) /\ ToSet(kept) = (ToSet(claimed) \ {}) \intersect Notice
    BY <1>3
  <2> QED
    BY <1>3, <1>7, <1>8, <2>1, <2>2, SettlingTold
<1>10. f = FoldAfter(p, durable') /\ en = EnteredAfter(p, entered')
  BY <1>4, <1>6 DEF Consuming
<1> QED
  BY <1>4, <1>5, <1>9, <1>10, Planned

LEMMA FailTold ==
  ASSUME TypeOK, NEW d \in Folds, NEW en \in [Msg -> Nat], d = durable, en = entered, Story(d, en),
         PreStepFails
  PROVE  Told'
<1>1. PICK refused \in Seq(Msg) : refused = claimed /\ Once(refused)
  BY DEF TypeOK, Story, ClaimInv
<1>2. ToSet(refused) = ToSet(claimed)
  BY <1>1
<1>3. Consuming(refused)
  BY <1>1 DEF Consuming, PreStepFails
<1> QED
  BY <1>1, <1>2, <1>3, ConsumeTold

(* The batch enters, less what a listener narrowed out: the messages come   *)
(* before the claim, so that a crash between them re-delivers.              *)
LEMMA EnterTold ==
  ASSUME TypeOK, NEW d \in Folds, NEW en \in [Msg -> Nat], d = durable, en = entered, Story(d, en),
         NEW out, PreStepEnters(out)
  PROVE  Told'
<1>1. claimed \in Seq(Msg) /\ Once(claimed)
  BY DEF TypeOK, Story, ClaimInv
<1>2. PICK enters \in Seq(Msg) : /\ enters = Only(claimed, Msg \ out)
                                 /\ ToSet(enters) = ToSet(claimed) \intersect (Msg \ out) /\ Once(enters)
  BY <1>1, OnlyFacts
<1>3. PICK refused \in Seq(Msg) : /\ refused = Only(claimed, out)
                                  /\ ToSet(refused) = ToSet(claimed) \intersect out /\ Once(refused)
  BY <1>1, OnlyFacts
<1>4. ToSet(claimed) \subseteq Msg /\ (enters = <<>> => ToSet(enters) = {})
  BY <1>1, Places
<1>5. CASE step = 1 /\ enters = <<>>
  <2>1. ToSet(refused) = ToSet(claimed)
    BY <1>2, <1>3, <1>4, <1>5
  <2>2. Consuming(refused)
    BY <1>2, <1>3, <1>5 DEF Consuming, PreStepEnters
  <2> QED
    BY <1>3, <2>1, <2>2, ConsumeTold
<1>6. CASE ~(step = 1 /\ enters = <<>>)
  <2>1. PICK kept \in Seq(Msg) : kept = Notices(refused)
    BY NoticesAre
  <2>2. PICK c \in Claims : c = pendingClaim /\ Commit = Claimed(c) /\ Commit \in Seq(Records)
    BY CommitIs
  <2>3. ToSet(kept) = ToSet(refused) \intersect Notice /\ Once(kept) /\ Others(refused) = ToSet(refused) \ Notice
    BY <1>3, <2>1, NoticesAre
  <2>4. /\ phase = "preStep" /\ ~aborted /\ phase' = "stepping"
        /\ heldQueue' = heldQueue \o kept /\ pendingClaim' = NoClaim /\ claimed' = <<>>
        /\ script' = Inserts(kept) \o Enters(enters) \o Claimed(c)
        /\ dropped' = dropped \union Others(refused)
        /\ UNCHANGED <<turnQueue, stepQueue, disposed, durable, entered, unsent>>
    BY <1>2, <1>3, <1>6, <2>1, <2>2 DEF PreStepEnters
  <2>5. PICK p \in Plans :
          /\ Once(p.enter) /\ Writes(p) = Inserts(kept) \o (Enters(enters) \o Claimed(c))
          /\ \A x \in Folds : c.turns <= Len(x.turnQueue) /\ c.steps <= Len(x.stepQueue)
                              => FoldAfter(p, x) = PutBack(Drain(x, c), kept)
          /\ \A x : EnteredAfter(p, x) = Raised(x, ToSet(enters))
    <3> DEFINE w == Entrance(kept, enters, c)
    <3>1. /\ w \in Plans /\ Once(w.enter) /\ Writes(w) = Inserts(kept) \o (Enters(enters) \o Claimed(c))
          /\ \A x \in Folds : c.turns <= Len(x.turnQueue) /\ c.steps <= Len(x.stepQueue)
                              => FoldAfter(w, x) = PutBack(Drain(x, c), kept)
          /\ \A x : EnteredAfter(w, x) = [m \in Msg |-> IF m \in ToSet(enters) THEN x[m] + 1 ELSE x[m]]
      <4>1. Once(enters)
        BY <1>2
      <4> QED
        BY <4>1, EntryFacts
    <3> HIDE DEF w
    <3>2. \A x : EnteredAfter(w, x) = Raised(x, ToSet(enters))
      BY <3>1 DEF Raised
    <3> QED
      BY <3>1, <3>2
  <2>6. script' = Writes(p)
    <3>1. Inserts(kept) \in Seq(Records) /\ Enters(enters) \in Seq(Records) /\ Claimed(c) \in Seq(Records)
      BY <2>2, InsertsFacts, EntersFacts
    <3>2. (Inserts(kept) \o Enters(enters)) \o Claimed(c) = Inserts(kept) \o (Enters(enters) \o Claimed(c))
      BY <3>1, Grouped
    <3> QED
      BY <2>4, <2>5, <3>2
  <2>7. PICK f \in Folds : f = PutBack(Drain(d, c), kept)
    BY FoldsAre
  <2>8. PICK E : E = ToSet(enters)
    OBVIOUS
  <2>9. PICK n \in [Msg -> Nat] : n = Raised(en, E)
    <3>1. Raised(en, E) \in [Msg -> Nat]
      BY DEF Raised
    <3> QED
      BY <3>1
  <2>10. /\ E \subseteq ToSet(claimed) /\ ToSet(claimed) \ E = ToSet(refused)
         /\ ToSet(kept) = (ToSet(claimed) \ E) \intersect Notice
    BY <1>2, <1>3, <1>4, <2>3, <2>8
  <2>11. Settling(E, kept)
    BY <2>3, <2>4, <2>10 DEF Settling, Live
  <2>12. E = {} \/ pendingClaim # NoClaim
    <3>1. claimed = <<>> \/ pendingClaim # NoClaim
      BY <2>4 DEF Story, ClaimInv
    <3> QED
      BY <2>10, <3>1, NothingHeld
  <2>13. Story(f, n)'
    <3>1. f = PutBack(Rest(d), kept)
      BY <2>2, <2>7 DEF Rest
    <3> QED
      BY <2>3, <2>9, <2>10, <2>11, <2>12, <3>1, SettlingTold
  <2>14. f = FoldAfter(p, durable') /\ n = EnteredAfter(p, entered')
    <3>1. c.turns <= Len(d.turnQueue) /\ c.steps <= Len(d.stepQueue)
      BY <2>2 DEF Story, ClaimInv
    <3> QED
      BY <2>4, <2>5, <2>7, <2>8, <2>9, <3>1
  <2> QED
    BY <2>5, <2>6, <2>13, <2>14, Planned
<1> QED
  BY <1>5, <1>6

(* A person's cancel: the claim in flight is recorded, the queue cleared,   *)
(* and the notices of the queue put back.                                   *)
Clearing(kept) ==
  /\ AtAwait /\ (disposed => ToSet(Queued) = {})
  /\ stepQueue' = Quiet(kept) /\ turnQueue' = <<>> /\ heldQueue' = <<>> /\ pendingClaim' = NoClaim
  /\ dropped' = dropped \union (ToSet(Queued) \ Notice)
                        \union (IF phase = "preStep" THEN ToSet(claimed) \ Notice ELSE {})
  /\ aborted' = (aborted \/ phase # "idle")
  /\ UNCHANGED <<phase, claimed, disposed, unsent>>

(* What the live queues say of what is left of the fold.                    *)
LEMMA LiveQueues ==
  ASSUME TypeOK, NEW d \in Folds, NEW en \in [Msg -> Nat], Story(d, en), Live, ~disposed
  PROVE  /\ Folded(Rest(d)) = ToSet(Queued) /\ Once(Queued)
         /\ Queued = <<>> => Rest(d) = Emptied
<1>1. PICK r \in Folds : r = Rest(d) /\ Unrepeated(r)
  BY ClaimIsApart DEF Story
<1>2. /\ r.turnQueue = turnQueue
      /\ Len(r.stepQueue) = Len(stepQueue) + Len(heldQueue)
      /\ ToSet(r.stepQueue) = ToSet(stepQueue) \union ToSet(Quiet(heldQueue))
      /\ Once(Messages(stepQueue)) /\ Once(heldQueue)
      /\ ToSet(Messages(stepQueue)) \intersect ToSet(heldQueue) = {}
  BY <1>1 DEF Story, LiveInv
<1>3. /\ stepQueue \in Seq(Entry) /\ heldQueue \in Seq(Msg) /\ turnQueue \in Seq(Msg)
      /\ r.stepQueue \in Seq(Entry) /\ r.turnQueue \in Seq(Msg)
      /\ r = [turnQueue |-> r.turnQueue, stepQueue |-> r.stepQueue]
  BY DEF TypeOK, Folds
<1>4. ToSet(Messages(r.stepQueue)) = ToSet(Messages(stepQueue)) \union ToSet(heldQueue)
  BY <1>2, <1>3, SameMessages
<1>5. Queued = InOrder(stepQueue, heldQueue, turnQueue)
      /\ ToSet(Queued) = ToSet(Messages(stepQueue)) \union ToSet(heldQueue) \union ToSet(turnQueue)
      /\ Queued \in Seq(Msg)
  BY QueuedHolds
<1>6. Folded(r) = ToSet(Queued)
  BY <1>2, <1>4, <1>5 DEF Folded
<1>7. Once(Queued)
  <2>1. Once(turnQueue) /\ ToSet(turnQueue) \intersect (ToSet(Messages(stepQueue)) \union ToSet(heldQueue)) = {}
    BY <1>1, <1>2, <1>4 DEF Unrepeated
  <2>2. Once(InOrder(stepQueue, heldQueue, turnQueue))
    BY <1>2, <1>3, <2>1, QueuedOnce
  <2> QED
    BY <1>5, <2>2
<1>8. ASSUME Queued = <<>> PROVE r = Emptied
  <2>1. ToSet(Queued) = {}
    BY <1>8, NothingHeld
  <2>2. ToSet(r.turnQueue) = {} /\ ToSet(Messages(r.stepQueue)) = {}
    BY <1>6, <2>1 DEF Folded
  <2>3. r.turnQueue = <<>>
    BY <1>3, <2>2, Places
  <2>4. Messages(r.stepQueue) \in Seq(Msg) /\ Len(Messages(r.stepQueue)) = Len(r.stepQueue)
    BY <1>3, MessagesFacts
  <2>5. Messages(r.stepQueue) = <<>>
    BY <2>2, <2>4, Places
  <2>6. r.stepQueue = <<>>
    BY <1>3, <2>4, <2>5, EmptySeq
  <2> QED
    BY <1>3, <2>3, <2>6 DEF Emptied
<1> QED
  BY <1>1, <1>6, <1>7, <1>8

LEMMA ClearingTold ==
  ASSUME TypeOK, NEW d \in Folds, NEW en \in [Msg -> Nat], Story(d, en),
         NEW kept \in Seq(Msg), Once(kept), ToSet(kept) = ToSet(Queued) \intersect Notice, Clearing(kept),
         NEW f \in Folds, f = PutBack(IF Queued = <<>> THEN Rest(d) ELSE Emptied, kept)
  PROVE  Story(f, en)'
<1>1. PICK r \in Folds :
        /\ r = Rest(d) /\ Unrepeated(r) /\ Folded(r) \subseteq Folded(d)
        /\ Folded(d) \subseteq Folded(r) \union ToSet(claimed)
        /\ ToSet(claimed) \intersect Folded(r) = {} /\ ToSet(claimed) \subseteq Msg
        /\ \A m \in ToSet(claimed) : en[m] = 0 /\ m \notin unsent /\ (m \in Notice => m \notin dropped)
  BY ClaimIsApart DEF Story
<1>2. /\ stepQueue' = Quiet(kept) /\ turnQueue' = <<>> /\ heldQueue' = <<>> /\ pendingClaim' = NoClaim
      /\ dropped' = dropped \union (ToSet(Queued) \ Notice)
                            \union (IF phase = "preStep" THEN ToSet(claimed) \ Notice ELSE {})
      /\ UNCHANGED <<phase, claimed, disposed, unsent>>
  BY DEF Clearing
<1>3. ToSet(claimed) # {} => phase = "preStep" /\ aborted'
  <2>1. claimed # <<>> => phase = "preStep"
    BY DEF Story, ClaimInv
  <2> QED
    BY <2>1, NothingHeld DEF Clearing
<1>4. dropped' = dropped \union (ToSet(Queued) \ Notice) \union (ToSet(claimed) \ Notice)
  BY <1>2, <1>3
<1>5. ToSet(Queued) \subseteq Folded(r) /\ Queued \in Seq(Msg) /\ (Queued = <<>> <=> ToSet(Queued) = {})
  <2>1. Queued \in Seq(Msg)
    BY QueuedHolds
  <2>2. Queued = <<>> <=> ToSet(Queued) = {}
    BY <2>1, Places
  <2> QED
    BY <1>1, <2>1, <2>2 DEF Story, LiveInv
<1>6. Live
  BY DEF Clearing, AtAwait, Awaits, Live
<1>7. Queued # <<>> => ~disposed /\ Folded(r) = ToSet(Queued)
  <2>1. Queued # <<>> => ~disposed
    BY <1>5 DEF Clearing
  <2> QED
    BY <1>1, <1>6, <2>1, LiveQueues
<1>8. Queued = <<>> => kept = <<>>
  BY <1>5, Places
<1>9. Emptied \in Folds /\ Folded(Emptied) = {} /\ Unrepeated(Emptied)
  BY FoldsAre, NothingHeld DEF Emptied, Folded, Unrepeated
<1>10. /\ Folded(f) = (IF Queued = <<>> THEN Folded(r) ELSE ToSet(kept))
       /\ Unrepeated(f)
  <2>1. CASE Queued = <<>>
    <3>1. f = r
      <4>1. f = PutBack(r, <<>>)
        BY <1>1, <1>8, <2>1
      <4>2. PutBack(r, <<>>) = r
        BY FoldsAre
      <4> QED
        BY <4>1, <4>2
    <3> QED
      BY <1>1, <2>1, <3>1
  <2>2. CASE Queued # <<>>
    <3> DEFINE e == Emptied
               g == PutBack(e, kept)
    <3>1. e \in Folds /\ Folded(e) = {} /\ Unrepeated(e)
      BY <1>9
    <3> HIDE DEF e
    <3>2. /\ Folded(g) = Folded(e) \union ToSet(kept)
          /\ Unrepeated(e) /\ Once(kept) /\ ToSet(kept) \intersect Folded(e) = {} => Unrepeated(g)
      BY <3>1, PutBackFacts
    <3>3. Folded(g) = ToSet(kept) /\ Unrepeated(g)
      BY <3>1, <3>2
    <3>4. f = g
      BY <2>2 DEF e
    <3> HIDE DEF g
    <3> QED
      BY <2>2, <3>3, <3>4
  <2> QED
    BY <2>1, <2>2
<1>11. Folded(f) \subseteq Folded(r) /\ \A m \in Folded(f) : m \in ToSet(Queued) => m \in Notice
  BY <1>5, <1>10
<1>12. \A m \in Folded(r) : en[m] = 0 /\ m \notin unsent /\ m \notin dropped
  BY <1>1 DEF Story, FoldInv
<1>13. FoldInv(f, en)'
  <2>1. unsent \intersect dropped' = {}
    BY <1>1, <1>4, <1>5, <1>12 DEF Story, FoldInv
  <2>2. \A m \in Folded(f) : en[m] = 0 /\ m \notin unsent /\ m \notin dropped'
    BY <1>1, <1>4, <1>11, <1>12
  <2>3. \A m \in Msg : en[m] <= 1 /\ (en[m] > 0 => m \notin unsent /\ m \notin dropped')
    <3>1. ASSUME NEW m \in Msg, en[m] > 0 PROVE m \notin unsent /\ m \notin dropped'
      <4>1. m \notin unsent /\ m \notin dropped
        BY <3>1 DEF Story, FoldInv
      <4>2. ~(en[m] = 0)
        BY <3>1
      <4> QED
        BY <1>1, <1>4, <1>5, <1>12, <4>1, <4>2
    <3> QED
      BY <3>1 DEF Story, FoldInv
  <2> QED
    BY <1>2, <1>10, <2>1, <2>2, <2>3 DEF FoldInv
<1>14. ClaimInv(f, en)'
  <2>1. Len(f.turnQueue) \in Nat /\ Len(f.stepQueue) \in Nat
    BY LenProperties DEF Folds
  <2>2. NoClaim.turns = 0 /\ NoClaim.steps = 0
    BY DEF NoClaim
  <2>3. NoClaim.turns <= Len(f.turnQueue) /\ NoClaim.steps <= Len(f.stepQueue)
    BY <2>1, <2>2
  <2>4. \A m \in ToSet(claimed) :
          m \notin Folded(f) /\ en[m] = 0 /\ m \notin unsent /\ (m \in Notice <=> m \notin dropped')
    BY <1>1, <1>4, <1>5, <1>11
  <2>5. (claimed # <<>> => phase = "preStep") /\ Once(claimed)
    BY DEF Story, ClaimInv
  <2>6. claimed # <<>> => aborted'
    BY <2>5 DEF Clearing
  <2> QED
    BY <1>2, <2>3, <2>4, <2>5, <2>6 DEF ClaimInv
<1>15. LiveInv(f)'
  <2>1. Rest(f)' = f
    BY <1>2, FoldsAre DEF Rest
  <2>2. PICK q \in Seq(Entry) :
          q = Quiet(kept) /\ Messages(q) = kept
    BY QuietFacts
  <2>3. Queued' = InOrder(q, <<>>, <<>>)
    BY <1>2, <2>2 DEF Queued, InOrder
  <2>4. ToSet(Queued') = ToSet(kept)
    <3>1. PICK nil \in Seq(Msg) : nil = <<>> /\ ToSet(nil) = {}
      BY Nothing
    <3>2. q \in Seq(Entry) /\ Messages(q) = kept
      BY <2>2
    <3>3. ToSet(InOrder(q, nil, nil)) = ToSet(Messages(q)) \union ToSet(nil) \union ToSet(nil)
      BY <3>2, QueuesHold
    <3> QED
      BY <2>3, <3>1, <3>2, <3>3
  <2>5. ToSet(Queued') \subseteq Folded(f)
    BY <1>5, <1>8, <1>10, <2>4, NothingHeld
  <2>6. ASSUME ~disposed
        PROVE  /\ f.turnQueue = <<>>
               /\ Len(f.stepQueue) = Len(q) + Len(<<>>)
               /\ ToSet(f.stepQueue) = ToSet(q) \union ToSet(Quiet(<<>>))
               /\ Once(Messages(q)) /\ Once(<<>>) /\ ToSet(Messages(q)) \intersect ToSet(<<>>) = {}
    <3>1. f = PutBack(Emptied, kept)
      <4>1. Queued = <<>> => Rest(d) = Emptied
        BY <1>6, <2>6, LiveQueues
      <4> QED
        BY <4>1
    <3>2. f.turnQueue = <<>> /\ f.stepQueue = q
      <4>1. <<>> \o Quiet(kept) = Quiet(kept)
        BY QuietFacts, ConcatEmptySeq
      <4> QED
        BY <2>2, <3>1, <4>1 DEF PutBack, Emptied
    <3>3. Len(q) \in Nat
      BY <2>2, LenProperties
    <3> QED
      BY <2>2, <3>2, <3>3, NothingHeld
  <2> QED
    BY <1>2, <2>1, <2>2, <2>5, <2>6 DEF LiveInv
<1>16. Kept(f, en)'
  <2>1. ASSUME NEW m \in Msg, m \notin unsent' \union dropped'
        PROVE  en[m] > 0 \/ m \in Folded(f) \/ InLimbo(m)'
    <3>1. m \notin unsent /\ m \notin dropped
      BY <1>2, <1>4, <2>1
    <3>2. en[m] > 0 \/ m \in Folded(d) \/ m \in ToSet(claimed)
      BY <3>1 DEF Story, Kept, InLimbo
    <3>3. CASE m \in ToSet(claimed)
      BY <1>2, <1>3, <3>3 DEF InLimbo
    <3>4. CASE m \in Folded(r)
      <4>1. CASE Queued = <<>>
        BY <1>10, <3>4, <4>1
      <4>2. CASE Queued # <<>>
        <5>1. m \in ToSet(Queued)
          BY <1>7, <3>4, <4>2
        <5> QED
          BY <1>4, <1>10, <2>1, <4>2, <5>1
      <4> QED
        BY <4>1, <4>2
    <3> QED
      BY <1>1, <3>2, <3>3, <3>4
  <2> QED
    BY <2>1 DEF Kept
<1> QED
  BY <1>13, <1>14, <1>15, <1>16 DEF Story

LEMMA ClearTold ==
  ASSUME TypeOK, NEW d \in Folds, NEW en \in [Msg -> Nat], d = durable, en = entered, Story(d, en),
         gaps' = {}, Cancel(FALSE)
  PROVE  Told'
<1>1. Queued \in Seq(Msg) /\ claimed \in Seq(Msg)
  BY QueuedHolds DEF TypeOK
<1>2. PICK kept \in Seq(Msg) : /\ kept = Notices(Queued) /\ ToSet(kept) = ToSet(Queued) \intersect Notice
                               /\ Once(Queued) => Once(kept)
  BY <1>1, NoticesAre
<1>3. PICK c \in Claims : c = pendingClaim /\ Commit = Claimed(c) /\ Commit \in Seq(Records)
  BY CommitIs
<1>4. PICK b \in BOOLEAN : b <=> Queued # <<>>
  OBVIOUS
<1>5. /\ AtAwait /\ ClearDurably /\ ~(disposed /\ Queued # <<>>)
      /\ aborted' = (aborted \/ phase # "idle")
      /\ UNCHANGED <<phase, claimed, disposed, durable, entered, unsent>>
  BY DEF Cancel
<1>6. script' = Claimed(c) \o (Cleared(b) \o Inserts(kept))
  <2>1. script' = Claimed(c) \o Cleared(b) \o Inserts(kept)
    BY <1>2, <1>3, <1>4, <1>5 DEF ClearDurably, Cleared
  <2>2. Claimed(c) \in Seq(Records) /\ Cleared(b) \in Seq(Records) /\ Inserts(kept) \in Seq(Records)
    <3>1. Cleared(b) \in Seq(Records)
      BY RecordsAre, Nothing DEF Cleared
    <3> QED
      BY <1>3, <3>1, InsertsFacts
  <2> QED
    BY <2>1, <2>2, Grouped
<1>7. Clearing(kept)
  <2>1. Others(Queued) = ToSet(Queued) \ Notice /\ Others(claimed) = ToSet(claimed) \ Notice
    BY DEF Others
  <2>2. disposed => ToSet(Queued) = {}
    BY <1>5, NothingHeld
  <2> QED
    BY <1>2, <1>5, <2>1, <2>2 DEF Clearing, ClearDurably
<1>8. Once(kept)
  <2>1. CASE Queued = <<>>
    <3>1. kept = <<>>
      BY <1>2, <2>1, NothingHeld, Places
    <3> QED
      BY <3>1, NothingHeld
  <2>2. CASE Queued # <<>>
    <3>1. ~disposed /\ Live
      BY <1>5, <2>2 DEF AtAwait, Awaits, Live
    <3> QED
      BY <1>2, <3>1, LiveQueues
  <2> QED
    BY <2>1, <2>2
<1>9. PICK p \in Plans :
        /\ Once(p.enter) /\ Writes(p) = Claimed(c) \o (Cleared(b) \o Inserts(kept))
        /\ \A x \in Folds : FoldAfter(p, x) = PutBack(IF b THEN Emptied ELSE Drain(x, c), kept)
        /\ \A x \in [Msg -> Nat] : EnteredAfter(p, x) = x
  <2> DEFINE w == Withdrawal(c, b, kept)
  <2>1. /\ w \in Plans /\ Once(w.enter) /\ Writes(w) = Claimed(c) \o (Cleared(b) \o Inserts(kept))
        /\ \A x \in Folds : FoldAfter(w, x) = PutBack(IF b THEN Emptied ELSE Drain(x, c), kept)
        /\ \A x \in [Msg -> Nat] : EnteredAfter(w, x) = x
    BY WithdrawalFacts
  <2> HIDE DEF w
  <2> QED
    BY <2>1
<1>10. PICK f \in Folds : f = PutBack(IF b THEN Emptied ELSE Drain(d, c), kept)
  <2>1. (IF b THEN Emptied ELSE Drain(d, c)) \in Folds
    BY FoldsAre
  <2> DEFINE x == IF b THEN Emptied ELSE Drain(d, c)
  <2> HIDE DEF x
  <2>2. PutBack(x, kept) \in Folds
    BY <2>1, FoldsAre DEF x
  <2> QED
    BY <2>2 DEF x
<1>11. Story(f, en)'
  <2>1. f = PutBack(IF Queued = <<>> THEN Rest(d) ELSE Emptied, kept)
    BY <1>3, <1>4, <1>10 DEF Rest
  <2> QED
    BY <1>2, <1>7, <1>8, <2>1, ClearingTold
<1>12. f = FoldAfter(p, durable') /\ en = EnteredAfter(p, entered')
  BY <1>5, <1>9, <1>10
<1> QED
  BY <1>6, <1>9, <1>11, <1>12, Planned

-----------------------------------------------------------------------------
(* The invariant is inductive.                                              *)
LEMMA GapsGrow == ASSUME [Next]_vars PROVE gaps \subseteq gaps' /\ (lost => lost')
<1>1. CASE WriteRecord
  BY <1>1 DEF WriteRecord, ghosts
<1>2. CASE BeginTurn \/ NextStep
  BY <1>2 DEF BeginTurn, NextStep, TakeClaim
<1>3. CASE PreStepFails \/ \E out \in SUBSET ToSet(claimed) : PreStepEnters(out)
  <2>1. PreStepFails => UNCHANGED <<gaps, lost>>
    BY DEF PreStepFails
  <2>2. ASSUME NEW out, PreStepEnters(out) PROVE UNCHANGED <<gaps, lost>>
    BY <2>2 DEF PreStepEnters
  <2> QED
    BY <1>3, <2>1, <2>2
<1>4. CASE StepReturns \/ TurnStops \/ EndTurn \/ Flushed \/ Close
  BY <1>4 DEF StepReturns, TurnStops, EndTurn, Flushed, Close, ghosts
<1>5. CASE \E m \in Msg : Send(m)
  BY <1>5 DEF Send
<1>6. CASE \E keepInbox \in BOOLEAN : Cancel(keepInbox)
  BY <1>6 DEF Cancel
<1>7. CASE Dispose \/ StoreFails
  BY <1>7 DEF Dispose, StoreFails, ghosts
<1>8. CASE Kill \/ Resume
  BY <1>8 DEF Kill, Resume
<1>9. CASE UNCHANGED vars
  BY <1>9 DEF vars, ghosts
<1> QED
  BY <1>1, <1>2, <1>3, <1>4, <1>5, <1>6, <1>7, <1>8, <1>9 DEF Next, Driver, Environment

LEMMA ToldKept == ASSUME TypeOK, Ctl, Told, [Next]_vars PROVE Told'
<1> SUFFICES ASSUME Sound' PROVE Told'
  BY DEF Told
<1>1. gaps' = {} /\ ~lost' /\ gaps = {} /\ ~lost /\ Sound
  BY GapsGrow DEF Sound
<1>2. ASSUME script = <<>>
      PROVE  \E d \in Folds, en \in [Msg -> Nat] : d = durable /\ en = entered /\ Story(d, en)
  BY <1>1, <1>2, Settled
<1>3. CASE WriteRecord
  <2>1. PICK d \in Folds, en \in [Msg -> Nat] : Ahead(d, en) /\ Story(d, en)
    BY <1>1 DEF Told
  <2> QED
    BY <1>1, <1>3, <2>1, WriteTold
<1>4. CASE BeginTurn
  <2>1. PICK d \in Folds, en \in [Msg -> Nat] : d = durable /\ en = entered /\ Story(d, en)
    BY <1>2, <1>4 DEF BeginTurn
  <2> QED
    BY <1>1, <1>4, <2>1, BeginTold
<1>5. CASE NextStep
  <2>1. PICK d \in Folds, en \in [Msg -> Nat] : d = durable /\ en = entered /\ Story(d, en)
    BY <1>2, <1>5 DEF NextStep
  <2> QED
    BY <1>1, <1>5, <2>1, StepTold
<1>6. CASE PreStepFails
  <2>1. PICK d \in Folds, en \in [Msg -> Nat] : d = durable /\ en = entered /\ Story(d, en)
    BY <1>2, <1>6 DEF PreStepFails
  <2> QED
    BY <1>6, <2>1, FailTold
<1>7. CASE \E out \in SUBSET ToSet(claimed) : PreStepEnters(out)
  <2>1. PICK out \in SUBSET ToSet(claimed) : PreStepEnters(out)
    BY <1>7
  <2>2. PICK d \in Folds, en \in [Msg -> Nat] : d = durable /\ en = entered /\ Story(d, en)
    BY <1>2, <2>1 DEF PreStepEnters
  <2> QED
    BY <2>1, <2>2, EnterTold
<1>8. CASE StepReturns \/ TurnStops \/ Flushed \/ Close \/ Cancel(TRUE)
  <2>1. script = <<>>
    BY <1>8 DEF StepReturns, TurnStops, Flushed, Close, Cancel, AtAwait
  <2>2. PICK d \in Folds, en \in [Msg -> Nat] : d = durable /\ en = entered /\ Story(d, en)
    BY <1>2, <2>1
  <2> QED
    BY <1>8, <2>1, <2>2, StillTold
<1>9. CASE EndTurn
  <2>1. script = <<>>
    BY <1>9 DEF EndTurn
  <2>2. PICK d \in Folds, en \in [Msg -> Nat] : d = durable /\ en = entered /\ Story(d, en)
    BY <1>2, <2>1
  <2> QED
    BY <1>9, <2>1, <2>2, EndTold
<1>10. CASE \E m \in Msg : Send(m)
  <2>1. PICK m \in Msg : Send(m)
    BY <1>10
  <2>2. PICK d \in Folds, en \in [Msg -> Nat] : d = durable /\ en = entered /\ Story(d, en)
    BY <1>2, <2>1 DEF Send, AtAwait
  <2> QED
    BY <1>1, <2>1, <2>2, SendTold
<1>11. CASE Cancel(FALSE)
  <2>1. PICK d \in Folds, en \in [Msg -> Nat] : d = durable /\ en = entered /\ Story(d, en)
    BY <1>2, <1>11 DEF Cancel, AtAwait
  <2> QED
    BY <1>1, <1>11, <2>1, ClearTold
<1>12. CASE Dispose
  <2>1. script = <<>>
    BY <1>12 DEF Dispose, AtAwait
  <2>2. PICK d \in Folds, en \in [Msg -> Nat] : d = durable /\ en = entered /\ Story(d, en)
    BY <1>2, <2>1
  <2> QED
    BY <1>12, <2>1, <2>2, DisposeTold
<1>13. CASE StoreFails
  BY <1>1, <1>13 DEF StoreFails
<1>14. CASE Kill
  <2>1. script = <<>> /\ ~\E n \in Notice : InLimbo(n)
    BY <1>1, <1>14 DEF Kill, Windows
  <2>2. PICK d \in Folds, en \in [Msg -> Nat] : d = durable /\ en = entered /\ Story(d, en)
    BY <1>2, <2>1
  <2> QED
    BY <1>14, <2>1, <2>2, KillTold
<1>15. CASE Resume
  <2>1. script = <<>>
    BY <1>15 DEF Resume, Ctl
  <2>2. PICK d \in Folds, en \in [Msg -> Nat] : d = durable /\ en = entered /\ Story(d, en)
    BY <1>2, <2>1
  <2> QED
    BY <1>15, <2>2, ResumeTold
<1>16. CASE UNCHANGED vars
  BY <1>16, IdleTold
<1>17. ASSUME NEW keepInbox \in BOOLEAN, Cancel(keepInbox) PROVE Cancel(TRUE) \/ Cancel(FALSE)
  <2>1. keepInbox = TRUE \/ keepInbox = FALSE
    OBVIOUS
  <2> QED
    BY <1>17, <2>1
<1> QED
  BY <1>3, <1>4, <1>5, <1>6, <1>7, <1>8, <1>9, <1>10, <1>11, <1>12, <1>13, <1>14, <1>15, <1>16, <1>17
     DEF Next, Driver, Environment

LEMMA InitIInv == Init => IInv
<1> SUFFICES ASSUME Init PROVE IInv
  OBVIOUS
<1>1. /\ turnQueue = <<>> /\ stepQueue = <<>> /\ heldQueue = <<>> /\ claimed = <<>> /\ script = <<>>
      /\ pendingClaim = NoClaim /\ phase = "idle" /\ durable = Emptied /\ entered = [m \in Msg |-> 0]
      /\ unsent = Msg /\ dropped = {} /\ ~disposed
  BY DEF Init, Emptied
<1>2. TypeOK
  <2>1. <<>> \in Seq(Msg) /\ <<>> \in Seq(Entry) /\ <<>> \in Seq(Records)
    BY Nothing
  <2>2. MaxSteps \in Nat /\ MaxLives \in Nat \ {0} /\ MaxCancels \in Nat
    BY BoundsArePositive
  <2>3. durable \in Folds /\ pendingClaim \in Claims
    BY <1>1, FoldsAre
  <2>4. /\ turnQueue \in Seq(Msg) /\ stepQueue \in Seq(Entry) /\ heldQueue \in Seq(Msg)
        /\ claimed \in Seq(Msg) /\ script \in Seq(Records)
    BY <1>1, <2>1
  <2>5. /\ step \in 0..MaxSteps /\ {aborted, disposed, lost} \subseteq BOOLEAN /\ gaps \subseteq Gaps
        /\ lives \in 1..MaxLives /\ cancels \in 0..MaxCancels
    <3>1. step = 0 /\ aborted = FALSE /\ disposed = FALSE /\ lost = FALSE /\ gaps = {} /\ lives = 1 /\ cancels = 0
      BY DEF Init
    <3>2. step \in 0..MaxSteps /\ lives \in 1..MaxLives /\ cancels \in 0..MaxCancels
      BY <2>2, <3>1
    <3>3. {aborted, disposed, lost} \subseteq BOOLEAN
      BY <3>1
    <3> QED
      BY <3>1, <3>2, <3>3
  <2>6. phase \in Awaits /\ entered \in [Msg -> Nat] /\ unsent \subseteq Msg /\ dropped \subseteq Msg
    BY <1>1 DEF Awaits
  <2> QED
    BY <2>3, <2>4, <2>5, <2>6 DEF TypeOK, Folds, Claims
<1>3. Ctl
  BY <1>1, Nothing DEF Ctl, HasWakingPending, HasWaking
<1>4. PICK d \in Folds, en \in [Msg -> Nat] : d = Emptied /\ en = [m \in Msg |-> 0]
  BY FoldsAre
<1>5. Folded(d) = {} /\ Unrepeated(d) /\ d.turnQueue = <<>> /\ d.stepQueue = <<>>
  BY <1>4, NothingHeld DEF Emptied, Folded, Unrepeated
<1>6. Story(d, en)
  <2>1. FoldInv(d, en)
    BY <1>1, <1>4, <1>5 DEF FoldInv
  <2>2. ClaimInv(d, en)
    BY <1>1, <1>5, NothingHeld DEF ClaimInv, NoClaim
  <2>3. LiveInv(d)
    <3>1. Rest(d) = d
      BY <1>1, FoldsAre DEF Rest
    <3>2. Queued = InOrder(<<>>, <<>>, <<>>)
      BY <1>1 DEF Queued, InOrder
    <3> QED
      BY <1>1, <1>5, <3>1, <3>2, NothingHeld DEF LiveInv
  <2>4. Kept(d, en)
    BY <1>1 DEF Kept
  <2> QED
    BY <2>1, <2>2, <2>3, <2>4 DEF Story
<1>7. Ahead(d, en)
  <2> DEFINE p == Withdrawal(NoClaim, FALSE, <<>>)
  <2>1. NoClaim \in Claims /\ <<>> \in Seq(Msg) /\ FALSE \in BOOLEAN
    BY FoldsAre, Nothing
  <2>2. p \in Plans /\ Once(p.enter) /\ Writes(p) = Claimed(NoClaim) \o (Cleared(FALSE) \o Inserts(<<>>))
    BY <2>1, WithdrawalFacts
  <2> HIDE DEF p
  <2>3. Inserts(<<>>) = <<>>
    <3>1. PICK nil \in Seq(Msg) : nil = <<>>
      BY Nothing
    <3> QED
      BY <3>1, InsertsFacts
  <2>4. <<>> \o <<>> = <<>>
    BY Nothing, ConcatEmptySeq
  <2>5. Writes(p) = <<>>
    BY <2>2, <2>3, <2>4 DEF Claimed, Cleared
  <2>6. FoldAfter(p, d) = d /\ EnteredAfter(p, en) = en
    BY <2>2, <2>5, PlanIsDone
  <2> QED
    BY <1>1, <1>4, <2>2, <2>5, <2>6 DEF Ahead
<1> QED
  BY <1>2, <1>3, <1>6, <1>7 DEF IInv, Told

LEMMA NextIInv == IInv /\ [Next]_vars => IInv'
  BY TypeKeeps, CtlKept, ToldKept DEF IInv

(* Between segments, what a resume restores is everything that was accepted *)
(* and is not entered, withdrawn or about to be put back.                   *)
LEMMA NothingLostNow == IInv => NothingLost
<1> SUFFICES ASSUME IInv, Sound, script = <<>>, NEW m \in Msg \ (unsent \union dropped)
             PROVE  Recoverable(m) \/ InLimbo(m)
  BY DEF NothingLost
<1>1. PICK d \in Folds, en \in [Msg -> Nat] : d = durable /\ en = entered /\ Story(d, en)
  BY Settled DEF IInv
<1>2. en[m] > 0 \/ m \in Folded(d) \/ InLimbo(m)
  BY <1>1 DEF Story, Kept
<1> QED
  BY <1>1, <1>2 DEF Recoverable, InFold, Folded

LEMMA FoldMatchesNow == IInv => FoldMatchesLive
<1> SUFFICES ASSUME IInv, Sound, script = <<>>, Live, ~disposed
             PROVE  FoldMatchesLive
  BY DEF FoldMatchesLive
<1>1. PICK d \in Folds, en \in [Msg -> Nat] : d = durable /\ en = entered /\ Story(d, en)
  BY Settled DEF IInv
<1>2. PICK c \in Claims : c = pendingClaim
  BY DEF IInv, TypeOK, Claims
<1>3. /\ stepQueue \in Seq(Entry) /\ heldQueue \in Seq(Msg)
      /\ d.turnQueue \in Seq(Msg) /\ d.stepQueue \in Seq(Entry)
  BY DEF IInv, TypeOK, Folds
<1>4. c.turns \in 0..Len(d.turnQueue) /\ c.steps \in 0..Len(d.stepQueue)
  <2>1. c.turns <= Len(d.turnQueue) /\ c.steps <= Len(d.stepQueue)
    BY <1>1, <1>2 DEF Story, ClaimInv
  <2>2. c.turns \in Nat /\ c.steps \in Nat /\ Len(d.turnQueue) \in Nat /\ Len(d.stepQueue) \in Nat
    BY <1>3, LenProperties DEF Claims
  <2> QED
    BY <2>1, <2>2
<1> DEFINE rest == From(d.stepQueue, c.steps)
           t1 == SubSeq(d.turnQueue, 1, c.turns)
           s1 == Messages(SubSeq(d.stepQueue, 1, c.steps))
<1>5. /\ From(d.turnQueue, c.turns) = turnQueue
      /\ Len(rest) = Len(stepQueue) + Len(heldQueue)
      /\ ToSet(rest) = ToSet(stepQueue) \union ToSet(Quiet(heldQueue))
  BY <1>1, <1>2 DEF Story, LiveInv, Rest, Drain
<1>6. ToSet(stepQueue \o Quiet(heldQueue)) = ToSet(stepQueue) \union ToSet(Quiet(heldQueue))
  <2>1. Quiet(heldQueue) \in Seq(Entry)
    BY <1>3, QuietFacts
  <2> QED
    BY <1>3, <2>1, ConcatFacts
<1>7. ToSet(t1 \o s1) = ToSet(t1) \union ToSet(s1)
  <2>1. t1 \in Seq(Msg) /\ SubSeq(d.stepQueue, 1, c.steps) \in Seq(Entry)
    BY <1>3, <1>4, FromFacts
  <2>2. s1 \in Seq(Msg)
    BY <2>1, MessagesFacts
  <2> HIDE DEF t1, s1
  <2> QED
    BY <2>1, <2>2, ConcatFacts
<1>8. c # NoClaim => ToSet(t1 \o s1) = ToSet(claimed)
  BY <1>1, <1>2, <1>7 DEF Story, ClaimInv, Taken
<1> QED
  BY <1>1, <1>2, <1>5, <1>6, <1>8 DEF FoldMatchesLive

LEMMA EnteredOnceNow == IInv => EnteredOnce
<1> SUFFICES ASSUME IInv, Sound, NEW m \in Msg PROVE entered[m] <= 1
  BY DEF EnteredOnce
<1>1. PICK d \in Folds, en \in [Msg -> Nat] : Ahead(d, en) /\ Story(d, en)
  BY DEF IInv, Told
<1>2. PICK p \in Plans : en = EnteredAfter(p, entered)
  BY <1>1 DEF Ahead
<1>3. entered[m] \in Nat /\ en[m] <= 1
  BY <1>1 DEF IInv, TypeOK, Story, FoldInv
<1>4. en[m] = entered[m] \/ en[m] = entered[m] + 1
  BY <1>2 DEF EnteredAfter
<1> QED
  BY <1>3, <1>4

LEMMA WithdrawnNow == IInv => WithdrawnStaysOut
<1> SUFFICES ASSUME IInv, Sound, script = <<>>, NEW m \in dropped
             PROVE  ~InFold(m) /\ m \notin ToSet(Queued) /\ entered[m] = 0
  BY DEF WithdrawnStaysOut
<1>1. PICK d \in Folds, en \in [Msg -> Nat] : d = durable /\ en = entered /\ Story(d, en)
  BY Settled DEF IInv
<1>2. m \in Msg /\ en[m] \in Nat
  BY DEF IInv, TypeOK
<1>3. m \notin Folded(d) /\ ~(en[m] > 0)
  BY <1>1, <1>2 DEF Story, FoldInv
<1>4. ToSet(Queued) \subseteq Folded(d)
  <2>1. Folded(Rest(d)) \subseteq Folded(d)
    BY <1>1, ClaimIsApart DEF IInv, Story
  <2> QED
    BY <1>1, <2>1 DEF Story, LiveInv
<1> QED
  BY <1>1, <1>2, <1>3, <1>4 DEF InFold, Folded

LEMMA SoundNow == IInv => InboxIsSound
<1>1. IInv => NoStrandedWork
  BY DEF IInv, Ctl, NoStrandedWork
<1> QED
  BY <1>1, FoldMatchesNow, EnteredOnceNow, WithdrawnNow DEF InboxIsSound, IInv

-----------------------------------------------------------------------------
(* Every reachable state has a story: a plan for the records the segment    *)
(* still owes the log, and a fold behind it that the live queues, the claim *)
(* in flight and the history agree with.                                    *)
THEOREM Invariance == Spec => []IInv
  BY InitIInv, NextIInv, PTL DEF Spec

(* The driver, its inbox and the fold of its log keep their types.          *)
THEOREM TypeCorrect == Spec => []TypeOK
<1>1. IInv => TypeOK
  BY DEF IInv
<1> QED
  BY <1>1, Invariance, PTL

(* A crash re-delivers and never loses (driver.ts, the claim committed      *)
(* behind the messages it entered): whenever no segment is half written, an *)
(* accepted message nobody withdrew is in the history or in what a resume   *)
(* restores, whatever the messages, the turns, the kills and the resumes.   *)
THEOREM NothingIsLost == Spec => []NothingLost
  BY Invariance, NothingLostNow, PTL

(* The durable inbox is the live inbox on every exit path of the driver, no *)
(* message enters the history twice, none that was withdrawn comes back,    *)
(* and an idle agent has nothing left that should wake it.                  *)
THEOREM InboxStaysSound == Spec => []InboxIsSound
  BY Invariance, SoundNow, PTL
=============================================================================
