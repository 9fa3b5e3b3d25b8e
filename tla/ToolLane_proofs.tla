--------------------------- MODULE ToolLane_proofs ---------------------------
(***************************************************************************)
(* Proofs about the tool lane, for every number of calls, every width and  *)
(* both kinds of store: the type invariant, that crash repair never says of*)
(* a call whose body was started that it did not run, and that the lane    *)
(* keeps the order of its calls, the width and the barriers.               *)
(***************************************************************************)
EXTENDS ToolLane, FiniteSetTheorems, WellFoundedInduction, TLAPS

(* A record that no crash repair speaks about can have taken away.           *)
Safe(r) == \E i \in 1..disk : log[i] = r /\ (syncs => i <= synced)

Recorded(r, i) == i \in 1..Len(log) /\ log[i] = r

(* The inductive invariant: how far a call has come bounds what is safe.     *)
CallInv(c) ==
  /\ stage[c] = "logged" => Recorded(Call(c), ckpt[c])
  /\ stage[c] \in {"gate", "dispatching", "body"} => Safe(Call(c))
  /\ stage[c] = "dispatching" => Recorded(Dispatch(c), ckpt[c])
  /\ c \in ran => Safe(Call(c)) /\ Safe(Dispatch(c))

LaneInv == lane = "checkpoint" => opened \in Calls /\ stage[opened] = "logged"

StoreInv == ~broken => disk = Len(log)

IInv == TypeOK /\ StoreInv /\ LaneInv /\ \A c \in Calls : CallInv(c)

(* What every step does to the store: the log, its file and its synced part  *)
(* only ever grow.                                                           *)
Grows ==
  /\ log' \in Seq(Records) /\ Len(log) <= Len(log')
  /\ \A i \in 1..Len(log) : log'[i] = log[i]
  /\ disk' \in Nat /\ synced' \in Nat
  /\ disk <= disk' /\ synced <= synced'
  /\ synced' <= disk' /\ disk' <= Len(log')
  /\ broken' \in BOOLEAN
  /\ ~broken' => disk' = Len(log')
  /\ syncs' = syncs

-----------------------------------------------------------------------------
(* How many results become due at once is a number.                          *)
LEMMA DueIsNat ==
  ASSUME TypeOK, NEW res
  PROVE  Cardinality(Ready(res) \ Ready(result)) \in Nat
<1>1. opened \in Nat
  BY NIsNat DEF TypeOK
<1>2. IsFiniteSet(1..opened)
  BY <1>1, FS_Interval
<1>3. Ready(res) \ Ready(result) \subseteq 1..opened
  BY DEF Ready
<1>4. IsFiniteSet(Ready(res) \ Ready(result))
  BY <1>2, <1>3, FS_Subset
<1> QED
  BY <1>4, FS_CardinalityType

(* Writing records makes the store grow.                                     *)
LEMMA WriteGrows ==
  ASSUME TypeOK, StoreInv, NEW recs \in Seq(Records), Write(recs), syncs' = syncs
  PROVE  Grows
<1> DEFINE new == log \o recs
<1>1. log \in Seq(Records) /\ disk \in Nat /\ synced \in Nat
      /\ synced <= disk /\ disk <= Len(log) /\ broken \in BOOLEAN
  BY DEF TypeOK
<1>2. new \in Seq(Records) /\ Len(new) = Len(log) + Len(recs)
      /\ \A i \in 1..Len(log) : new[i] = log[i]
  BY <1>1
<1>3. log' = new /\ synced' = synced /\ broken' = broken
      /\ disk' = IF broken THEN disk ELSE Len(log) + Len(recs)
  BY DEF Write
<1>4. Len(recs) \in Nat /\ Len(log) \in Nat
  BY <1>1
<1> HIDE DEF new
<1> QED
  BY <1>1, <1>2, <1>3, <1>4 DEF Grows, StoreInv

LEMMA UntouchedGrows ==
  ASSUME TypeOK, StoreInv, UNCHANGED storage, syncs' = syncs
  PROVE  Grows
BY DEF TypeOK, StoreInv, Grows, storage

LEMMA SettleGrows ==
  ASSUME TypeOK, StoreInv, NEW c \in Calls, NEW r \in Results, Settle(c, r),
         syncs' = syncs
  PROVE  Grows /\ result' \in [Calls -> Results]
<1>1. CASE Unsettled(c)
  <2> DEFINE res == [result EXCEPT ![c] = r]
             due == Cardinality(Ready(res) \ Ready(result))
             recs == [i \in 1..due |-> Result(c + i - 1)]
  <2>1. due \in Nat
    BY DueIsNat
  <2>2. result' = res /\ Write(recs)
    BY <1>1 DEF Settle
  <2>3. \A i \in 1..due : Result(c + i - 1) \in Records
    <3> HIDE DEF due
    <3> QED
      BY <2>1, NIsNat DEF Calls, Result, Records
  <2>4. recs \in Seq(Records)
    <3> HIDE DEF due
    <3> QED
      BY <2>1, <2>3
  <2>5. Grows
    <3> HIDE DEF recs
    <3> QED
      BY <2>2, <2>4, WriteGrows
  <2> QED
    BY <2>2, <2>5 DEF TypeOK
<1>2. CASE ~Unsettled(c)
  BY <1>2, UntouchedGrows DEF Settle, TypeOK
<1> QED
  BY <1>1, <1>2

(* What is safe, or recorded at a place, stays so.                           *)
LEMMA SafeGrows ==
  ASSUME TypeOK, Grows, NEW r, Safe(r)
  PROVE  Safe(r)'
<1>1. PICK i \in 1..disk : log[i] = r /\ (syncs => i <= synced)
  BY DEF Safe
<1>2. i \in 1..disk' /\ log'[i] = r /\ (syncs' => i <= synced')
  BY <1>1 DEF Grows, TypeOK
<1> QED
  BY <1>2 DEF Safe

LEMMA RecordedGrows ==
  ASSUME TypeOK, Grows, NEW r, NEW i, Recorded(r, i)
  PROVE  i \in 1..Len(log') /\ log'[i] = r
BY DEF Grows, TypeOK, Recorded

(* A checkpoint that passes makes safe what it had to cover.                 *)
LEMMA CheckpointIsSafe ==
  ASSUME TypeOK, StoreInv, NEW c \in Calls, NEW r, Recorded(r, ckpt[c]), Covered(c)
  PROVE  Safe(r)
BY DEF TypeOK, StoreInv, Recorded, Covered, Safe

(* A call a step leaves alone, or closes, keeps its invariant.               *)
LEMMA KeepsCall ==
  ASSUME TypeOK, Grows, NEW c \in Calls, CallInv(c),
         stage'[c] = stage[c] \/ stage'[c] \in {"over", "unlogged"},
         ckpt'[c] = ckpt[c],
         c \in ran' => c \in ran
  PROVE  CallInv(c)'
<1>1. stage'[c] = "logged" => Recorded(Call(c), ckpt[c])'
  BY RecordedGrows DEF CallInv, Recorded
<1>2. stage'[c] \in {"gate", "dispatching", "body"} => Safe(Call(c))'
  BY SafeGrows DEF CallInv
<1>3. stage'[c] = "dispatching" => Recorded(Dispatch(c), ckpt[c])'
  BY RecordedGrows DEF CallInv, Recorded
<1>4. c \in ran' => Safe(Call(c))' /\ Safe(Dispatch(c))'
  BY SafeGrows DEF CallInv
<1> QED
  BY <1>1, <1>2, <1>3, <1>4 DEF CallInv, Call, Dispatch, Recorded

-----------------------------------------------------------------------------
(* The initial states.                                                       *)
LEMMA InitIInv == Init => IInv
<1> SUFFICES ASSUME Init PROVE IInv
  OBVIOUS
<1>1. <<Message>> \in Seq(Records) /\ Len(<<Message>>) = 1
  <2>1. Message \in Records
    BY DEF Message, Records
  <2> QED
    BY <2>1
<1>2. TypeOK
  <2>1. log \in Seq(Records) /\ disk <= Len(log) /\ synced <= disk
    BY <1>1 DEF Init
  <2>2. stage \in [Calls -> Stages] /\ result \in [Calls -> Results]
        /\ ckpt \in [Calls -> Nat] /\ opened \in 0..N
    BY NIsNat DEF Init, Stages, Results
  <2> QED
    BY <2>1, <2>2 DEF Init, TypeOK
<1>3. StoreInv /\ LaneInv
  BY DEF Init, StoreInv, LaneInv
<1>4. ASSUME NEW c \in Calls PROVE CallInv(c)
  BY DEF Init, CallInv
<1> QED
  BY <1>2, <1>3, <1>4 DEF IInv

(* The store's part of every step, and the typing of the results.            *)
LEMMA NextGrows ==
  ASSUME IInv, [Next]_vars
  PROVE  Grows /\ result' \in [Calls -> Results]
<1> USE DEF IInv
<1>0. TypeOK /\ StoreInv /\ result \in [Calls -> Results]
  BY DEF TypeOK
<1>1. CASE OpenCall
  <2>1. \A c \in Calls : <<Call(c)>> \in Seq(Records)
    BY NIsNat DEF Calls, Call, Records
  <2>2. opened + 1 \in Calls /\ Write(<<Call(opened + 1)>>) /\ syncs' = syncs /\ result' = result
    BY <1>1 DEF OpenCall, profile
  <2> QED
    BY <1>0, <2>1, <2>2, WriteGrows
<1>2. CASE StopLane \/ LaneAdvances \/ Cancel \/ UNCHANGED vars
  BY <1>0, <1>2, UntouchedGrows DEF StopLane, LaneAdvances, Cancel, vars, profile, storage
<1>3. CASE CheckpointPasses
  <2>1. opened \in Calls /\ syncs' = syncs
    BY <1>3 DEF CheckpointPasses, LaneInv, profile
  <2>2. CASE cancelled \/ lost
    <3>1. PICK r \in Results : Settle(opened, r)
      BY <1>3, <2>2 DEF CheckpointPasses, Results
    <3> QED
      BY <1>0, <2>1, <3>1, SettleGrows
  <2>3. CASE ~(cancelled \/ lost)
    BY <1>0, <1>3, <2>1, <2>3, UntouchedGrows DEF CheckpointPasses
  <2> QED
    BY <2>2, <2>3
<1>4. CASE CheckpointFails
  <2>1. opened \in Calls /\ syncs' = syncs /\ Settle(opened, "lost") /\ "lost" \in Results
    BY <1>4 DEF CheckpointFails, LaneInv, profile, Results
  <2> QED
    BY <1>0, <2>1, SettleGrows
<1>5. CASE Drained
  <2> DEFINE recs == [i \in 1..2 * (N - opened) |->
                        IF i % 2 = 1 THEN Call(opened + (i + 1) \div 2)
                                     ELSE Result(opened + i \div 2)]
             m == 2 * (N - opened)
  <2>1. m \in Nat /\ opened \in Nat
    BY <1>0, NIsNat DEF TypeOK
  <2>2. \A i \in 1..m : opened + (i + 1) \div 2 \in Nat /\ opened + i \div 2 \in Nat
    <3> HIDE DEF m
    <3> QED
      BY <2>1
  <2>3. recs \in Seq(Records)
    <3>1. \A i \in 1..m : recs[i] \in Records
      BY <2>2 DEF Call, Result, Records
    <3>2. recs = [i \in 1..m |-> recs[i]]
      OBVIOUS
    <3> HIDE DEF m, recs
    <3> QED
      BY <2>1, <3>1, <3>2
  <2>4. Write(recs) /\ syncs' = syncs
    BY <1>5 DEF Drained, profile
  <2>5. result' \in [Calls -> Results]
    BY <1>0, <1>5 DEF Drained, Results
  <2> HIDE DEF recs
  <2> QED
    BY <1>0, <2>3, <2>4, <2>5, WriteGrows
<1>6. ASSUME NEW c \in Calls, GateAnswers(c) PROVE Grows /\ result' \in [Calls -> Results]
  BY <1>0, <1>6, SettleGrows DEF GateAnswers, profile, Results
<1>7. ASSUME NEW c \in Calls, GatePasses(c) PROVE Grows /\ result' \in [Calls -> Results]
  <2>1. <<Dispatch(c)>> \in Seq(Records)
    BY NIsNat DEF Calls, Dispatch, Records
  <2>2. Write(<<Dispatch(c)>>) /\ syncs' = syncs /\ result' = result
    BY <1>7 DEF GatePasses, profile
  <2> QED
    BY <1>0, <2>1, <2>2, WriteGrows
<1>8. ASSUME NEW c \in Calls, DispatchPasses(c) PROVE Grows /\ result' \in [Calls -> Results]
  <2>1. syncs' = syncs /\ "noBody" \in Results
    BY <1>8 DEF DispatchPasses, profile, Results
  <2>2. CASE Told(c)
    BY <1>0, <1>8, <2>1, <2>2, SettleGrows DEF DispatchPasses
  <2>3. CASE ~Told(c)
    BY <1>0, <1>8, <2>1, <2>3, UntouchedGrows DEF DispatchPasses
  <2> QED
    BY <2>2, <2>3
<1>9. ASSUME NEW c \in Calls, DispatchFails(c) PROVE Grows /\ result' \in [Calls -> Results]
  BY <1>0, <1>9, SettleGrows DEF DispatchFails, profile, Results
<1>10. ASSUME NEW c \in Calls, BodyReturns(c) PROVE Grows /\ result' \in [Calls -> Results]
  BY <1>0, <1>10, SettleGrows DEF BodyReturns, profile, Results
<1>11. ASSUME NEW c \in Calls, TimesOut(c) PROVE Grows /\ result' \in [Calls -> Results]
  BY <1>0, <1>11, SettleGrows DEF TimesOut, profile, Results
<1>12. CASE Sync
  <2>1. synced' \in (synced + 1)..disk /\ log' = log /\ disk' = disk /\ broken' = broken
        /\ syncs' = syncs /\ result' = result
    BY <1>12 DEF Sync, profile
  <2> QED
    BY <1>0, <2>1 DEF TypeOK, StoreInv, Grows
<1>13. CASE StoreFails
  BY <1>0, <1>13 DEF StoreFails, profile, TypeOK, StoreInv, Grows
<1> QED
  BY <1>1, <1>2, <1>3, <1>4, <1>5, <1>6, <1>7, <1>8, <1>9, <1>10, <1>11, <1>12, <1>13
     DEF Next, Lane, Pipeline

-----------------------------------------------------------------------------
(* Every step keeps the inductive invariant.                                 *)
LEMMA NextIInv ==
  ASSUME IInv, [Next]_vars
  PROVE  IInv'
<1> USE DEF IInv
<1>0. Grows /\ result' \in [Calls -> Results]
  BY NextGrows
<1>t. TypeOK
  OBVIOUS
<1>s. StoreInv'
  BY <1>0 DEF Grows, StoreInv
<1>k. ASSUME NEW c \in Calls, UNCHANGED <<ckpt, ran>>,
             stage'[c] = stage[c] \/ stage'[c] \in {"over", "unlogged"}
      PROVE  CallInv(c)'
  BY <1>0, <1>t, <1>k, KeepsCall
<1>1. CASE OpenCall
  <2>0. PICK c \in Calls : c = opened + 1
    BY <1>1 DEF OpenCall
  <2>1. Write(<<Call(c)>>) /\ opened' = c /\ lane' = "checkpoint"
        /\ stage' = [stage EXCEPT ![c] = "logged"]
        /\ ckpt' = [ckpt EXCEPT ![c] = Len(log) + 1] /\ ran' = ran
        /\ UNCHANGED <<profile, result, cancelled, lost>>
    BY <1>1, <2>0 DEF OpenCall
  <2>2. TypeOK'
    <3>1. opened' \in 0..N
      BY <2>0, <2>1, NIsNat DEF Calls
    <3>2. Len(log) + 1 \in Nat
      BY <1>t DEF TypeOK
    <3>3. ckpt' \in [Calls -> Nat] /\ stage' \in [Calls -> Stages]
      BY <1>t, <2>1, <3>2 DEF TypeOK, Stages
    <3> QED
      BY <1>0, <1>t, <2>1, <3>1, <3>3 DEF TypeOK, Grows, profile
  <2>3. LaneInv'
    BY <1>t, <2>1 DEF LaneInv, TypeOK
  <2>4. Recorded(Call(c), ckpt[c])'
    BY <1>t, <2>1 DEF TypeOK, Recorded, Write, Call
  <2>5. CallInv(c)'
    <3>1. stage'[c] = "logged"
      BY <1>t, <2>1 DEF TypeOK
    <3>2. c \in ran' => Safe(Call(c))' /\ Safe(Dispatch(c))'
      BY <1>0, <1>t, <2>1, SafeGrows DEF CallInv
    <3> QED
      BY <2>4, <3>1, <3>2 DEF CallInv
  <2>6. ASSUME NEW d \in Calls, d # c PROVE CallInv(d)'
    <3>1. stage'[d] = stage[d] /\ ckpt'[d] = ckpt[d]
      BY <1>t, <2>1, <2>6 DEF TypeOK
    <3> QED
      BY <1>0, <1>t, <2>1, <3>1, KeepsCall
  <2> QED
    BY <1>s, <2>2, <2>3, <2>5, <2>6
<1>2. CASE StopLane \/ LaneAdvances \/ Cancel \/ Sync \/ StoreFails \/ UNCHANGED vars
  <2>1. UNCHANGED <<stage, ckpt, ran, opened, profile, result>>
        /\ lane' \in {lane, "draining", "next"}
        /\ cancelled' \in BOOLEAN /\ lost' \in BOOLEAN
    BY <1>2, <1>t DEF StopLane, LaneAdvances, Cancel, Sync, StoreFails, vars, profile, TypeOK
  <2>2. TypeOK'
    BY <1>0, <1>t, <2>1 DEF TypeOK, Grows, profile
  <2>3. LaneInv'
    BY <2>1 DEF LaneInv
  <2> QED
    BY <1>s, <1>k, <2>1, <2>2, <2>3
<1>3. CASE CheckpointPasses
  <2>0. PICK c \in Calls : c = opened /\ stage[c] = "logged"
    BY <1>3 DEF CheckpointPasses, LaneInv
  <2>1. stage[c] = "logged" /\ Covered(c)
        /\ UNCHANGED <<profile, opened, ckpt, ran, cancelled, lost>>
        /\ lane' \in {"draining", "waiting"}
        /\ \E st \in {"over", "gate"} : stage' = [stage EXCEPT ![c] = st]
    BY <1>3, <2>0 DEF CheckpointPasses
  <2>2. TypeOK'
    BY <1>0, <1>t, <2>1 DEF TypeOK, Grows, Stages, profile
  <2>3. LaneInv'
    BY <2>1 DEF LaneInv
  <2>4. Safe(Call(c))
    BY <1>t, <2>1, CheckpointIsSafe DEF CallInv
  <2>5. CallInv(c)'
    <3>1. stage'[c] \in {"over", "gate"}
      BY <1>t, <2>1 DEF TypeOK
    <3>2. Safe(Call(c))'
      BY <1>0, <1>t, <2>4, SafeGrows
    <3>3. c \in ran' => Safe(Dispatch(c))'
      BY <1>0, <1>t, <2>1, SafeGrows DEF CallInv
    <3> QED
      BY <3>1, <3>2, <3>3 DEF CallInv
  <2>6. ASSUME NEW d \in Calls, d # c PROVE CallInv(d)'
    <3>1. stage'[d] = stage[d]
      BY <1>t, <2>1, <2>6 DEF TypeOK
    <3> QED
      BY <1>k, <2>1, <3>1
  <2> QED
    BY <1>s, <2>2, <2>3, <2>5, <2>6
<1>4. CASE CheckpointFails
  <2>1. opened \in Calls /\ UNCHANGED <<profile, opened, ckpt, ran, cancelled>>
        /\ lost' = TRUE /\ lane' = "draining"
        /\ stage' = [stage EXCEPT ![opened] = "over"]
    BY <1>4 DEF CheckpointFails, LaneInv
  <2>2. TypeOK'
    BY <1>0, <1>t, <2>1 DEF TypeOK, Grows, Stages, profile
  <2>3. LaneInv'
    BY <2>1 DEF LaneInv
  <2>4. ASSUME NEW d \in Calls PROVE CallInv(d)'
    <3>1. stage'[d] = stage[d] \/ stage'[d] = "over"
      BY <1>t, <2>1 DEF TypeOK
    <3> QED
      BY <1>k, <2>1, <3>1
  <2> QED
    BY <1>s, <2>2, <2>3, <2>4
<1>5. CASE Drained
  <2>1. UNCHANGED <<profile, ckpt, ran, cancelled, lost>> /\ lane' = "done" /\ opened' = N
        /\ stage' = [c \in Calls |-> IF c <= opened THEN stage[c] ELSE "over"]
    BY <1>5 DEF Drained
  <2>2. TypeOK'
    BY <1>0, <1>t, <2>1, NIsNat DEF TypeOK, Grows, Stages, profile
  <2>3. LaneInv'
    BY <2>1 DEF LaneInv
  <2>4. ASSUME NEW d \in Calls PROVE CallInv(d)'
    BY <1>k, <2>1
  <2> QED
    BY <1>s, <2>2, <2>3, <2>4
<1>6. ASSUME NEW c \in Calls, GateAnswers(c) \/ DispatchFails(c) \/ BodyReturns(c) PROVE IInv'
  <2>1. UNCHANGED <<profile, lane, opened, ckpt, ran, cancelled>> /\ lost' \in BOOLEAN
        /\ stage' = [stage EXCEPT ![c] = "over"] /\ stage[c] # "logged"
    BY <1>6, <1>t DEF GateAnswers, DispatchFails, BodyReturns, TypeOK
  <2>2. TypeOK'
    BY <1>0, <1>t, <2>1 DEF TypeOK, Grows, Stages, profile
  <2>3. LaneInv'
    BY <1>t, <2>1 DEF LaneInv, TypeOK
  <2>4. ASSUME NEW d \in Calls PROVE CallInv(d)'
    <3>1. stage'[d] = stage[d] \/ stage'[d] = "over"
      BY <1>t, <2>1 DEF TypeOK
    <3> QED
      BY <1>k, <2>1, <3>1
  <2> QED
    BY <1>s, <2>2, <2>3, <2>4
<1>7. ASSUME NEW c \in Calls, GatePasses(c) PROVE IInv'
  <2>1. UNCHANGED <<profile, lane, opened, ran, cancelled, lost>>
        /\ stage[c] = "gate" /\ stage' = [stage EXCEPT ![c] = "dispatching"]
        /\ ckpt' = [ckpt EXCEPT ![c] = Len(log) + 1] /\ Write(<<Dispatch(c)>>)
    BY <1>7 DEF GatePasses
  <2>2. TypeOK'
    BY <1>0, <1>t, <2>1 DEF TypeOK, Grows, Stages, profile
  <2>3. LaneInv'
    BY <1>t, <2>1 DEF LaneInv, TypeOK
  <2>4. Recorded(Dispatch(c), ckpt[c])'
    BY <1>t, <2>1 DEF TypeOK, Recorded, Write, Dispatch
  <2>5. CallInv(c)'
    <3>1. stage'[c] = "dispatching"
      BY <1>t, <2>1 DEF TypeOK
    <3>2. Safe(Call(c))'
      BY <1>0, <1>t, <2>1, SafeGrows DEF CallInv
    <3>3. c \in ran' => Safe(Dispatch(c))'
      BY <1>0, <1>t, <2>1, SafeGrows DEF CallInv
    <3> QED
      BY <2>4, <3>1, <3>2, <3>3 DEF CallInv
  <2>6. ASSUME NEW d \in Calls, d # c PROVE CallInv(d)'
    <3>1. stage'[d] = stage[d] /\ ckpt'[d] = ckpt[d]
      BY <1>t, <2>1, <2>6 DEF TypeOK
    <3> QED
      BY <1>0, <1>t, <2>1, <3>1, KeepsCall
  <2> QED
    BY <1>s, <2>2, <2>3, <2>5, <2>6
<1>8. ASSUME NEW c \in Calls, DispatchPasses(c) PROVE IInv'
  <2>1. UNCHANGED <<profile, lane, opened, ckpt, cancelled, lost>>
        /\ stage[c] = "dispatching" /\ Covered(c)
        /\ \E st \in {"over", "body"} : stage' = [stage EXCEPT ![c] = st]
        /\ ran' \in {ran, ran \union {c}}
    BY <1>8 DEF DispatchPasses
  <2>2. TypeOK'
    BY <1>0, <1>t, <2>1 DEF TypeOK, Grows, Stages, profile
  <2>3. LaneInv'
    BY <1>t, <2>1 DEF LaneInv, TypeOK
  <2>4. Safe(Call(c)) /\ Safe(Dispatch(c))
    BY <1>t, <2>1, CheckpointIsSafe DEF CallInv
  <2>5. CallInv(c)'
    <3>1. stage'[c] \in {"over", "body"}
      BY <1>t, <2>1 DEF TypeOK
    <3>2. Safe(Call(c))' /\ Safe(Dispatch(c))'
      BY <1>0, <1>t, <2>4, SafeGrows
    <3> QED
      BY <3>1, <3>2 DEF CallInv
  <2>6. ASSUME NEW d \in Calls, d # c PROVE CallInv(d)'
    <3>1. stage'[d] = stage[d] /\ ckpt'[d] = ckpt[d] /\ (d \in ran' => d \in ran)
      BY <1>t, <2>1, <2>6 DEF TypeOK
    <3> QED
      BY <1>0, <1>t, <2>1, <3>1, KeepsCall
  <2> QED
    BY <1>s, <2>2, <2>3, <2>5, <2>6
<1>9. ASSUME NEW c \in Calls, TimesOut(c) PROVE IInv'
  <2>1. UNCHANGED <<profile, lane, opened, stage, ckpt, ran, cancelled, lost>>
    BY <1>9 DEF TimesOut
  <2>2. TypeOK'
    BY <1>0, <1>t, <2>1 DEF TypeOK, Grows, profile
  <2>3. LaneInv'
    BY <2>1 DEF LaneInv
  <2> QED
    BY <1>s, <1>k, <2>1, <2>2, <2>3
<1> QED
  BY <1>1, <1>2, <1>3, <1>4, <1>5, <1>6, <1>7, <1>8, <1>9 DEF Next, Lane, Pipeline

-----------------------------------------------------------------------------
THEOREM Invariance == Spec => []IInv
<1>1. Init => IInv
  BY InitIInv
<1>2. IInv /\ [Next]_vars => IInv'
  BY NextIInv
<1> QED
  BY <1>1, <1>2, PTL DEF Spec

(* Every reachable state of a step of any number of calls is well typed.     *)
THEOREM TypeCorrect == Spec => []TypeOK
<1>1. IInv => TypeOK
  BY DEF IInv
<1> QED
  BY <1>1, Invariance, PTL

(* Whatever a crash or, under a syncing store, a power cut leaves of the     *)
(* log, repair calls the outcome of an unanswered call whose body was        *)
(* started unknown: it never denies an effect.                               *)
THEOREM NeverDenies == Spec => []RepairNeverDenies
<1>1. ASSUME IInv PROVE RepairNeverDenies
  <2>1. SUFFICES ASSUME NEW k \in Cuts, NEW c \in ran PROVE Classify(c, k) = "UNKNOWN"
    BY DEF RepairNeverDenies
  <2>2. c \in Calls /\ Safe(Call(c)) /\ Safe(Dispatch(c))
    BY <1>1 DEF IInv, TypeOK, CallInv
  <2>3. \A r : Safe(r) => Logged(r, k)
    BY <1>1 DEF IInv, TypeOK, Safe, Logged, Cuts
  <2>4. c \in Bearing(c)
    BY <2>2 DEF Bearing
  <2> QED
    BY <2>2, <2>3, <2>4 DEF Classify
<1> QED
  BY <1>1, Invariance, PTL
-----------------------------------------------------------------------------
(* The converse.  No dispatch of a call is logged before its gate passed.    *)
Early == {"unlogged", "logged", "gate"}
Dispatched(d) == \E i \in 1..Len(log) : log[i] = Dispatch(d)
QuietCall(d) ==
  /\ d > opened => stage[d] = "unlogged"
  /\ stage[d] \in Early => ~Dispatched(d)
QuietInv == \A d \in Calls : QuietCall(d)

(* What a step may add to the log without dispatching d.                     *)
Silent(d) == \A i \in 1..Len(log') : log'[i] = Dispatch(d) => Dispatched(d)

LEMMA WriteIsSilent ==
  ASSUME TypeOK, NEW recs \in Seq(Records), Write(recs), NEW d \in Calls,
         \A i \in 1..Len(recs) : recs[i] # Dispatch(d)
  PROVE  Silent(d)
<1>1. log \in Seq(Records) /\ log' = log \o recs
  BY DEF TypeOK, Write
<1>2. ASSUME NEW i \in 1..Len(log') PROVE log'[i] = Dispatch(d) => Dispatched(d)
  <2>1. CASE i <= Len(log)
    BY <1>1, <1>2, <2>1 DEF Dispatched
  <2>2. CASE i > Len(log)
    <3>1. i - Len(log) \in 1..Len(recs) /\ log'[i] = recs[i - Len(log)]
      BY <1>1, <1>2, <2>2
    <3> QED
      BY <3>1
  <2> QED
    BY <1>1, <1>2, <2>1, <2>2
<1> QED
  BY <1>2 DEF Silent

LEMMA SettleIsSilent ==
  ASSUME TypeOK, NEW c \in Calls, NEW r \in Results, Settle(c, r), NEW d \in Calls
  PROVE  Silent(d)
<1>1. CASE Unsettled(c)
  <2> DEFINE res == [result EXCEPT ![c] = r]
             due == Cardinality(Ready(res) \ Ready(result))
             recs == [i \in 1..due |-> Result(c + i - 1)]
  <2>1. due \in Nat
    BY DueIsNat
  <2>2. Write(recs)
    BY <1>1 DEF Settle
  <2> HIDE DEF due
  <2>3. \A i \in 1..due : Result(c + i - 1) \in Records /\ Result(c + i - 1) # Dispatch(d)
    BY <2>1, NIsNat DEF Calls, Result, Dispatch, Records
  <2>4. recs \in Seq(Records) /\ Len(recs) = due /\ \A i \in 1..due : recs[i] # Dispatch(d)
    BY <2>1, <2>3
  <2> HIDE DEF recs
  <2> QED
    BY <2>2, <2>4, WriteIsSilent
<1>2. CASE ~Unsettled(c)
  BY <1>2 DEF Settle, storage, Silent, Dispatched
<1> QED
  BY <1>1, <1>2

(* Only the gate's passing dispatches a call.                                *)
LEMMA OnlyGateDispatches ==
  ASSUME IInv, [Next]_vars, NEW d \in Calls, ~GatePasses(d)
  PROVE  Silent(d)
<1> USE DEF IInv
<1>0. TypeOK
  OBVIOUS
<1>1. CASE OpenCall
  <2>1. opened + 1 \in Calls /\ Write(<<Call(opened + 1)>>)
    BY <1>1 DEF OpenCall
  <2>2. <<Call(opened + 1)>> \in Seq(Records)
    BY <2>1, NIsNat DEF Calls, Call, Records
  <2>3. \A i \in 1..Len(<<Call(opened + 1)>>) : <<Call(opened + 1)>>[i] # Dispatch(d)
    BY DEF Call, Dispatch
  <2> QED
    BY <1>0, <2>1, <2>2, <2>3, WriteIsSilent
<1>2. CASE StopLane \/ LaneAdvances \/ Cancel \/ Sync \/ StoreFails \/ UNCHANGED vars
  BY <1>2 DEF StopLane, LaneAdvances, Cancel, Sync, StoreFails, vars, storage, Silent, Dispatched
<1>3. CASE CheckpointPasses
  <2>1. opened \in Calls
    BY <1>3 DEF CheckpointPasses, LaneInv
  <2>2. CASE cancelled \/ lost
    <3>1. PICK r \in Results : Settle(opened, r)
      BY <1>3, <2>2 DEF CheckpointPasses, Results
    <3> QED
      BY <1>0, <2>1, <3>1, SettleIsSilent
  <2>3. CASE ~(cancelled \/ lost)
    BY <1>3, <2>3 DEF CheckpointPasses, storage, Silent, Dispatched
  <2> QED
    BY <2>2, <2>3
<1>4. CASE CheckpointFails
  <2>1. opened \in Calls /\ Settle(opened, "lost") /\ "lost" \in Results
    BY <1>4 DEF CheckpointFails, LaneInv, Results
  <2> QED
    BY <1>0, <2>1, SettleIsSilent
<1>5. CASE Drained
  <2> DEFINE recs == [i \in 1..2 * (N - opened) |->
                        IF i % 2 = 1 THEN Call(opened + (i + 1) \div 2)
                                     ELSE Result(opened + i \div 2)]
             m == 2 * (N - opened)
  <2>1. m \in Nat /\ opened \in Nat
    BY <1>0, NIsNat DEF TypeOK
  <2>2. \A i \in 1..m : opened + (i + 1) \div 2 \in Nat /\ opened + i \div 2 \in Nat
    <3> HIDE DEF m
    <3> QED
      BY <2>1
  <2>3. \A i \in 1..m : recs[i] \in Records /\ recs[i] # Dispatch(d)
    BY <2>2 DEF Call, Result, Records, Dispatch
  <2>4. recs = [i \in 1..m |-> recs[i]]
    OBVIOUS
  <2>5. Write(recs)
    BY <1>5 DEF Drained
  <2> HIDE DEF m, recs
  <2>6. recs \in Seq(Records) /\ Len(recs) = m
    BY <2>1, <2>3, <2>4
  <2> QED
    BY <1>0, <2>3, <2>5, <2>6, WriteIsSilent
<1>6. ASSUME NEW c \in Calls, GatePasses(c) PROVE Silent(d)
  <2>1. c # d /\ Write(<<Dispatch(c)>>)
    BY <1>6 DEF GatePasses
  <2>2. <<Dispatch(c)>> \in Seq(Records)
    BY NIsNat DEF Calls, Dispatch, Records
  <2>3. \A i \in 1..Len(<<Dispatch(c)>>) : <<Dispatch(c)>>[i] # Dispatch(d)
    BY <2>1 DEF Dispatch
  <2> QED
    BY <1>0, <2>1, <2>2, <2>3, WriteIsSilent
<1>7. ASSUME NEW c \in Calls, DispatchPasses(c) PROVE Silent(d)
  <2>1. CASE Told(c)
    BY <1>0, <1>7, <2>1, SettleIsSilent DEF DispatchPasses, Results
  <2>2. CASE ~Told(c)
    BY <1>7, <2>2 DEF DispatchPasses, storage, Silent, Dispatched
  <2> QED
    BY <2>1, <2>2
<1>8. ASSUME NEW c \in Calls, GateAnswers(c) \/ DispatchFails(c) PROVE Silent(d)
  BY <1>0, <1>8, SettleIsSilent DEF GateAnswers, DispatchFails, Results
<1>9. ASSUME NEW c \in Calls, BodyReturns(c) \/ TimesOut(c) PROVE Silent(d)
  BY <1>0, <1>9, SettleIsSilent DEF BodyReturns, TimesOut, Results
<1> QED
  BY <1>1, <1>2, <1>3, <1>4, <1>5, <1>6, <1>7, <1>8, <1>9 DEF Next, Lane, Pipeline

(* A call past its gate does not go back before it, and one the lane has not *)
(* reached stays untouched.                                                  *)
LEMMA StageMoves ==
  ASSUME IInv, [Next]_vars, NEW d \in Calls, d > opened => stage[d] = "unlogged"
  PROVE  /\ d > opened' => stage'[d] = "unlogged"
         /\ stage'[d] \in Early => stage[d] \in Early /\ ~GatePasses(d)
<1> USE DEF IInv
<1>0. stage \in [Calls -> Stages] /\ opened \in 0..N /\ d \in 1..N
  BY DEF TypeOK, Calls
<1>1. CASE OpenCall
  <2>1. stage' = [stage EXCEPT ![opened + 1] = "logged"] /\ opened' = opened + 1 /\ lane = "next"
        /\ log' = log \o <<Call(opened + 1)>>
    BY <1>1 DEF OpenCall, Write
  <2>2. ~GatePasses(d)
    <3>1. CASE d = opened + 1
      BY <1>0, <3>1, NIsNat DEF GatePasses
    <3>2. CASE d # opened + 1
      BY <1>0, <2>1, NIsNat DEF GatePasses
    <3> QED
      BY <3>1, <3>2
  <2>3. d > opened' => stage'[d] = "unlogged"
    BY <1>0, <2>1, NIsNat
  <2>4. stage'[d] \in Early => stage[d] \in Early
    BY <1>0, <2>1, NIsNat DEF Early
  <2> QED
    BY <2>2, <2>3, <2>4
<1>2. CASE UNCHANGED <<stage, opened>>
  BY <1>0, <1>2 DEF GatePasses
<1>3. ASSUME NEW c \in Calls, stage[c] # "unlogged", opened' = opened,
             stage'[c] \notin Early \/ (stage[c] = "logged" /\ stage'[c] = "gate"),
             \A e \in Calls \ {c} : stage'[e] = stage[e]
      PROVE  /\ d > opened' => stage'[d] = "unlogged"
             /\ stage'[d] \in Early => stage[d] \in Early /\ ~GatePasses(d)
  BY <1>0, <1>3 DEF GatePasses, Early
<1>4. CASE Drained
  BY <1>0, <1>4, NIsNat DEF Drained, Early, GatePasses
<1>5. CASE CheckpointPasses \/ CheckpointFails
  <2>1. opened \in Calls /\ stage[opened] = "logged" /\ opened' = opened
    BY <1>5 DEF CheckpointPasses, CheckpointFails, LaneInv
  <2>2. PICK st \in {"over", "gate"} : stage' = [stage EXCEPT ![opened] = st]
    BY <1>5 DEF CheckpointPasses, CheckpointFails
  <2> QED
    BY <1>0, <1>3, <2>1, <2>2 DEF Early
<1>6. ASSUME NEW c \in Calls, Pipeline(c)
      PROVE  /\ d > opened' => stage'[d] = "unlogged"
             /\ stage'[d] \in Early => stage[d] \in Early /\ ~GatePasses(d)
  <2>1. opened' = opened /\ stage[c] # "unlogged"
    BY <1>6 DEF Pipeline, GateAnswers, GatePasses, DispatchPasses, DispatchFails, BodyReturns
  <2>2. PICK st \in {"over", "dispatching", "body"} : stage' = [stage EXCEPT ![c] = st]
    BY <1>6 DEF Pipeline, GateAnswers, GatePasses, DispatchPasses, DispatchFails, BodyReturns
  <2> QED
    BY <1>0, <1>3, <2>1, <2>2 DEF Early
<1> QED
  BY <1>1, <1>2, <1>4, <1>5, <1>6
     DEF Next, Lane, StopLane, LaneAdvances, Cancel, Sync, StoreFails, TimesOut, vars

LEMMA QuietInvariance == Spec => []QuietInv
<1>1. ASSUME Init PROVE QuietInv
  <2>1. log = <<Message>> /\ \A d \in Calls : Message # Dispatch(d)
    BY <1>1 DEF Init, Message, Dispatch
  <2>2. \A d \in Calls : ~Dispatched(d)
    BY <2>1 DEF Dispatched
  <2> QED
    BY <1>1, <2>2 DEF Init, QuietInv, QuietCall
<1>2. ASSUME IInv, [Next]_vars, QuietInv PROVE QuietInv'
  <2>1. SUFFICES ASSUME NEW d \in Calls PROVE QuietCall(d)'
    BY DEF QuietInv
  <2>2. QuietCall(d)
    BY <1>2 DEF QuietInv
  <2>3. /\ d > opened' => stage'[d] = "unlogged"
        /\ stage'[d] \in Early => stage[d] \in Early /\ ~GatePasses(d)
    BY <1>2, <2>2, StageMoves DEF QuietCall
  <2>4. ASSUME stage'[d] \in Early PROVE ~Dispatched(d)'
    <3>1. Silent(d) /\ ~Dispatched(d)
      BY <1>2, <2>2, <2>3, <2>4, OnlyGateDispatches DEF QuietCall
    <3> QED
      BY <3>1 DEF Silent, Dispatched, Dispatch
  <2> QED
    BY <2>3, <2>4 DEF QuietCall
<1> QED
  BY <1>1, <1>2, Invariance, PTL DEF Spec

(* The converse, which makes the contract worth its syncs: under a syncing   *)
(* store repair says "not started" of a call whose dispatch nobody reached.  *)
THEOREM Exonerates == Spec => []RepairExonerates
<1>1. ASSUME IInv, QuietInv PROVE RepairExonerates
  <2>1. SUFFICES ASSUME NEW k \in Cuts, NEW c \in Calls, syncs,
                        \A d \in Bearing(c) : stage[d] \in Early
                 PROVE  Classify(c, k) = "NOT_STARTED"
    BY DEF RepairExonerates, Early
  <2>2. \A d \in Bearing(c) : ~Dispatched(d)
    BY <1>1, <2>1 DEF QuietInv, QuietCall, Bearing
  <2>3. k \in Nat /\ k <= Len(log)
    BY <1>1 DEF IInv, TypeOK, Cuts
  <2>4. \A d \in Bearing(c) : ~Logged(Dispatch(d), k)
    BY <1>1, <2>2, <2>3 DEF Logged, Dispatched, IInv, TypeOK
  <2> QED
    BY <2>1, <2>4 DEF Classify
<1> QED
  BY <1>1, Invariance, QuietInvariance, PTL

(* Both at once: what repair says of a call is the truth.                    *)
THEOREM TellsTruth == Spec => []RepairTellsTruth
<1>1. RepairNeverDenies /\ RepairExonerates => RepairTellsTruth
  BY DEF RepairTellsTruth
<1> QED
  BY <1>1, NeverDenies, Exonerates, PTL
-----------------------------------------------------------------------------
(* The order the lane keeps.  Standing: what a call's stage says of its slot *)
(* and of the lane - the one call that waits for a checkpoint is the last    *)
(* opened, a barrier without an answer is alone.                             *)
Standing(c) ==
  /\ c > opened <=> stage[c] = "unlogged"
  /\ stage[c] = "logged" => lane = "checkpoint" /\ c = opened
  /\ stage[c] \in Early => Unsettled(c)
  /\ stage[c] = "over" => ~Unsettled(c)
  /\ Unsettled(c) \/ stage[c] = "over" \/ result[c] = "timeout"

Alone(c) ==
  c <= opened /\ ~Pooled(c) /\ Unsettled(c) =>
    /\ c = opened /\ lane \in {"checkpoint", "waiting"}
    /\ \A d \in 1..(c - 1) : ~Unsettled(d)

Ended == lane = "done" => opened = N /\ \A c \in Calls : ~Unsettled(c)

StandInv == (\A c \in Calls : Standing(c) /\ Alone(c)) /\ Ended

(* Places: a call is admitted only while fewer than Width hold one.          *)
WidthInv ==
  /\ Cardinality(Running) <= Width
  /\ lane = "checkpoint" /\ Pooled(opened) => Cardinality(Running) < Width

(* The log: nothing twice, the calls that were opened, the results that have *)
(* all their elders, these in order, and nothing of a call after its result. *)
Places == 1..Len(log)
Once == \A i, j \in Places : log[i] = log[j] => i = j
Known == \A i \in Places :
  log[i] = Message \/ \E c \in Calls : log[i] \in {Call(c), Dispatch(c), Result(c)}
CallsOpened == \A c \in Calls : c <= opened <=> \E i \in Places : log[i] = Call(c)
ResultsDue == \A c \in Calls : c \in Ready(result) <=> \E i \in Places : log[i] = Result(c)
Ordered ==
  \A c \in Calls : \A i, j \in Places : i < j /\ log[i] = Result(c) =>
    /\ log[j] \notin {Call(c), Dispatch(c)}
    /\ \A d \in Calls : log[j] = Result(d) => c < d

OrderInv == Once /\ Known /\ CallsOpened /\ ResultsDue /\ Ordered
(* What settling does to the slots, and what no step changes.                *)
LEMMA SettleSets ==
  ASSUME TypeOK, NEW c \in Calls, NEW r \in Results, Settle(c, r)
  PROVE  /\ \A d \in Calls \ {c} : result'[d] = result[d]
         /\ result'[c] = IF Unsettled(c) THEN r ELSE result[c]
<1>1. CASE Unsettled(c)
  BY <1>1 DEF Settle, TypeOK
<1>2. CASE ~Unsettled(c)
  BY <1>2 DEF Settle
<1> QED
  BY <1>1, <1>2

LEMMA PooledStays ==
  ASSUME [Next]_vars PROVE \A c : Pooled(c)' = Pooled(c)
<1>1. UNCHANGED <<safe, first>>
  BY DEF Next, Lane, Pipeline, OpenCall, StopLane, CheckpointPasses, CheckpointFails,
         LaneAdvances, Drained, GateAnswers, GatePasses, DispatchPasses, DispatchFails,
         BodyReturns, TimesOut, Cancel, Sync, StoreFails, vars, profile
<1> QED
  BY <1>1 DEF Pooled

(* With no call running and none at its checkpoint, every opened call has    *)
(* its answer: what a barrier waits for, and the end of the step.            *)
LEMMA NoneRunning ==
  ASSUME TypeOK, StandInv, lane \in {"next", "draining"}, Running = {}
  PROVE  \A c \in 1..opened : ~Unsettled(c)
<1> SUFFICES ASSUME NEW c \in 1..opened, Unsettled(c) PROVE FALSE
  OBVIOUS
<1>1. c \in Calls /\ c <= opened
  BY NIsNat DEF TypeOK, Calls
<1>2. Standing(c) /\ Alone(c)
  BY <1>1 DEF StandInv
<1>3. stage[c] \notin {"unlogged", "logged"}
  BY <1>1, <1>2, NIsNat DEF Standing, TypeOK, Calls
<1>4. Pooled(c)
  BY <1>1, <1>2 DEF Alone
<1> QED
  BY <1>1, <1>3, <1>4 DEF Running

(* One call whose stage and slot move as a pipeline moves them.              *)
Moves(c) ==
  /\ stage[c] # "unlogged" /\ opened' = opened
  /\ \A d \in Calls \ {c} : stage'[d] = stage[d] /\ result'[d] = result[d]
  /\ result'[c] # result[c] => result[c] = "none"
  /\ stage'[c] \in {"gate", "dispatching", "body", "over"}
  /\ stage'[c] = "gate" => result'[c] = "none"
  /\ stage'[c] = "over" => result'[c] # "none"
  /\ result'[c] = "none" \/ stage'[c] = "over" \/ result'[c] = "timeout"
  /\ \/ lane' = lane /\ stage[c] # "logged"
     \/ lane = "checkpoint" /\ c = opened /\ lane' = "waiting"
     \/ lane = "checkpoint" /\ c = opened /\ lane' = "draining" /\ result'[c] # "none"

LEMMA OneCallMoves ==
  ASSUME TypeOK, TypeOK', StandInv, \A d : Pooled(d)' = Pooled(d), NEW c \in Calls, Moves(c)
  PROVE  StandInv'
<1>0. opened \in 0..N /\ stage \in [Calls -> Stages] /\ result \in [Calls -> Results]
  BY DEF TypeOK
<1> USE DEF Moves
<1>1. c <= opened
  BY NIsNat, <1>0 DEF StandInv, Standing, Calls
<1>2. \A d \in Calls : Unsettled(d)' => Unsettled(d)
  BY DEF Unsettled
<1>3. ASSUME NEW d \in Calls PROVE Standing(d)'
  <2>1. Standing(d)
    BY DEF StandInv
  <2>2. CASE d = c
    BY <1>0, <1>1, <2>1, <2>2 DEF Standing, Unsettled, Early, Calls
  <2>3. CASE d # c
    <3>1. stage'[d] = stage[d] /\ result'[d] = result[d]
      BY <2>3
    <3>2. lane = "checkpoint" /\ d = opened => lane' = lane
      BY <2>3
    <3> QED
      BY <2>1, <3>1, <3>2 DEF Standing, Unsettled, Early
  <2> QED
    BY <2>2, <2>3
<1>4. ASSUME NEW d \in Calls PROVE Alone(d)'
  <2>1. SUFFICES ASSUME d <= opened, ~Pooled(d), Unsettled(d)'
                 PROVE  /\ d = opened /\ lane' \in {"checkpoint", "waiting"}
                        /\ \A e \in 1..(d - 1) : ~Unsettled(e)'
    BY DEF Alone
  <2>2. d = opened /\ lane \in {"checkpoint", "waiting"} /\ \A e \in 1..(d - 1) : ~Unsettled(e)
    BY <1>2, <2>1 DEF StandInv, Alone
  <2>3. lane' \in {"checkpoint", "waiting"}
    BY <2>1, <2>2 DEF Unsettled
  <2>4. \A e \in 1..(d - 1) : ~Unsettled(e)'
    BY <1>2, <2>2, NIsNat DEF Calls
  <2> QED
    BY <2>2, <2>3, <2>4
<1>5. Ended'
  BY <1>2 DEF StandInv, Ended
<1> QED
  BY <1>3, <1>4, <1>5 DEF StandInv
LEMMA NextStand ==
  ASSUME IInv, IInv', StandInv, [Next]_vars
  PROVE  StandInv'
<1>t. TypeOK /\ TypeOK'
  BY DEF IInv
<1>0. /\ opened \in 0..N /\ stage \in [Calls -> Stages] /\ result \in [Calls -> Results]
      /\ stage' \in [Calls -> Stages] /\ result' \in [Calls -> Results]
  BY <1>t DEF TypeOK
<1>p. \A c : Pooled(c)' = Pooled(c)
  BY PooledStays
<1>s. \A c \in Calls : Standing(c) /\ Alone(c)
  BY DEF StandInv
<1>1. CASE OpenCall
  <2>0. PICK c \in Calls : c = opened + 1
    BY <1>1 DEF OpenCall
  <2>1. lane = "next" /\ CanOpen(c) /\ opened' = c /\ lane' = "checkpoint" /\ result' = result
        /\ stage' = [stage EXCEPT ![c] = "logged"]
    BY <1>1, <2>0 DEF OpenCall
  <2>2. stage[c] = "unlogged" /\ result[c] = "none"
    BY <1>0, <1>s, <2>0, NIsNat DEF Standing, Calls, Early, Unsettled
  <2>3. ASSUME NEW d \in Calls PROVE Standing(d)'
    <3>1. CASE d = c
      BY <1>0, <2>0, <2>1, <2>2, <3>1 DEF Standing, Unsettled, Early, Calls
    <3>2. CASE d # c
      <4>1. Standing(d) /\ stage'[d] = stage[d] /\ stage[d] # "logged"
        BY <1>0, <1>s, <2>1, <3>2 DEF Standing
      <4>2. d > opened' <=> d > opened
        BY <1>0, <2>0, <2>1, <3>2, NIsNat DEF Calls
      <4> QED
        BY <2>1, <4>1, <4>2 DEF Standing, Unsettled
    <3> QED
      BY <3>1, <3>2
  <2>4. ASSUME NEW d \in Calls PROVE Alone(d)'
    <3>1. SUFFICES ASSUME d <= c, ~Pooled(d), Unsettled(d)
                   PROVE  d = c /\ \A e \in 1..(d - 1) : ~Unsettled(e)
      BY <1>p, <2>1 DEF Alone, Unsettled
    <3>2. d = c
      BY <1>0, <1>s, <2>0, <2>1, <3>1, NIsNat DEF Alone, Calls
    <3>3. \A e \in 1..opened : ~Unsettled(e)
      BY <1>t, <2>1, <3>1, <3>2, NoneRunning DEF CanOpen
    <3> QED
      BY <1>0, <2>0, <3>2, <3>3
  <2> QED
    BY <2>1, <2>3, <2>4 DEF StandInv, Ended
<1>2. CASE Cancel \/ Sync \/ StoreFails \/ UNCHANGED vars
  <2>1. UNCHANGED <<lane, opened, stage, result>>
    BY <1>2 DEF Cancel, Sync, StoreFails, vars
  <2> QED
    BY <1>p, <2>1 DEF StandInv, Standing, Alone, Ended, Unsettled
<1>3. CASE StopLane \/ LaneAdvances
  <2>1. UNCHANGED <<opened, stage, result>> /\ lane' \in {"next", "draining"}
    BY <1>3 DEF StopLane, LaneAdvances
  <2>2. lane = "next" \/ (lane = "waiting" /\ Passed(opened))
    BY <1>3 DEF StopLane, LaneAdvances
  <2>3. ASSUME NEW c \in Calls PROVE Standing(c)'
    BY <1>s, <2>1, <2>2 DEF Standing, Unsettled
  <2>4. ASSUME NEW c \in Calls, c <= opened, ~Pooled(c), Unsettled(c) PROVE FALSE
    BY <1>s, <2>2, <2>4 DEF Alone, Passed
  <2>5. ASSUME NEW c \in Calls PROVE Alone(c)'
    BY <1>p, <2>1, <2>4 DEF Alone, Unsettled
  <2> QED
    BY <2>1, <2>3, <2>5 DEF StandInv, Ended
<1>4. CASE CheckpointPasses \/ CheckpointFails
  <2>0. opened \in Calls /\ stage[opened] = "logged" /\ lane = "checkpoint"
    BY <1>4 DEF CheckpointPasses, CheckpointFails, IInv, LaneInv
  <2>1. Unsettled(opened)
    BY <1>s, <2>0 DEF Standing, Early
  <2>2. \/ /\ \E r \in {"lost", "aborted"} : Settle(opened, r)
           /\ stage' = [stage EXCEPT ![opened] = "over"] /\ lane' = "draining"
        \/ /\ result' = result /\ stage' = [stage EXCEPT ![opened] = "gate"] /\ lane' = "waiting"
    BY <1>4 DEF CheckpointPasses, CheckpointFails
  <2>3. opened' = opened
    BY <1>4 DEF CheckpointPasses, CheckpointFails
  <2>4. CASE result' = result /\ stage' = [stage EXCEPT ![opened] = "gate"] /\ lane' = "waiting"
    <3>1. \A d \in Calls \ {opened} : stage'[d] = stage[d] /\ result'[d] = result[d]
      BY <1>0, <2>4
    <3>2. stage'[opened] = "gate" /\ result'[opened] = "none"
      BY <1>0, <2>0, <2>1, <2>4 DEF Unsettled
    <3>3. Moves(opened)
      BY <2>0, <2>1, <2>3, <2>4, <3>1, <3>2 DEF Moves, Unsettled
    <3> QED
      BY <1>t, <1>p, <2>0, <3>3, OneCallMoves
  <2>5. ASSUME NEW r \in {"lost", "aborted"}, Settle(opened, r),
               stage' = [stage EXCEPT ![opened] = "over"], lane' = "draining"
        PROVE  StandInv'
    <3>1. \A d \in Calls \ {opened} : result'[d] = result[d]
      BY <1>t, <2>0, <2>5, SettleSets DEF Results
    <3>2. result'[opened] = r
      BY <1>t, <2>0, <2>1, <2>5, SettleSets DEF Results
    <3>3. \A d \in Calls \ {opened} : stage'[d] = stage[d]
      BY <1>0, <2>5
    <3>4. stage'[opened] = "over"
      BY <1>0, <2>0, <2>5
    <3>5. Moves(opened)
      BY <2>0, <2>1, <2>3, <2>5, <3>1, <3>2, <3>3, <3>4 DEF Moves, Unsettled
    <3> QED
      BY <1>t, <1>p, <2>0, <3>5, OneCallMoves
  <2> QED
    BY <2>2, <2>4, <2>5
<1>5. CASE Drained
  <2>1. /\ lane = "draining" /\ Running = {} /\ opened' = N /\ lane' = "done"
        /\ result' = [c \in Calls |-> IF c <= opened THEN result[c]
                                      ELSE IF lost THEN "lost" ELSE "aborted"]
        /\ stage' = [c \in Calls |-> IF c <= opened THEN stage[c] ELSE "over"]
    BY <1>5 DEF Drained
  <2>2. \A c \in 1..opened : ~Unsettled(c)
    BY <1>t, <2>1, NoneRunning
  <2>3. ASSUME NEW c \in Calls PROVE ~Unsettled(c)'
    BY <1>0, <2>1, <2>2, NIsNat DEF Unsettled, Calls
  <2>4. ASSUME NEW c \in Calls PROVE Standing(c)'
    <3>1. CASE c <= opened
      <4>1. stage'[c] = stage[c] /\ result'[c] = result[c] /\ Standing(c) /\ ~(c > N) /\ ~(c > opened)
        BY <1>0, <1>s, <2>1, <3>1, NIsNat DEF Calls
      <4> QED
        BY <2>1, <2>3, <4>1 DEF Standing, Unsettled
    <3>2. CASE ~(c <= opened)
      <4>1. stage'[c] = "over" /\ ~(c > N)
        BY <1>0, <2>1, <3>2, NIsNat DEF Calls
      <4> QED
        BY <2>1, <2>3, <4>1 DEF Standing, Early
    <3> QED
      BY <3>1, <3>2
  <2> QED
    BY <2>1, <2>3, <2>4 DEF StandInv, Alone, Ended
<1>6. ASSUME NEW c \in Calls, GatePasses(c) PROVE StandInv'
  <2>1. /\ opened' = opened /\ lane' = lane /\ result' = result
        /\ stage[c] = "gate" /\ stage' = [stage EXCEPT ![c] = "dispatching"]
    BY <1>6 DEF GatePasses
  <2>2. \A d \in Calls \ {c} : stage'[d] = stage[d] /\ result'[d] = result[d]
    BY <1>0, <2>1
  <2>3. stage'[c] = "dispatching" /\ result'[c] = "none" /\ stage[c] # "unlogged"
    BY <1>0, <1>s, <2>1 DEF Standing, Early, Unsettled
  <2>4. Moves(c)
    BY <2>1, <2>2, <2>3 DEF Moves
  <2> QED
    BY <1>t, <1>p, <2>4, OneCallMoves
<1>7. ASSUME NEW c \in Calls, DispatchPasses(c), ~Told(c) PROVE StandInv'
  <2>1. /\ opened' = opened /\ lane' = lane /\ result' = result
        /\ stage[c] = "dispatching" /\ stage' = [stage EXCEPT ![c] = "body"]
    BY <1>7 DEF DispatchPasses
  <2>2. \A d \in Calls \ {c} : stage'[d] = stage[d] /\ result'[d] = result[d]
    BY <1>0, <2>1
  <2>3. stage'[c] = "body" /\ result'[c] \in {"none", "timeout"} /\ stage[c] # "unlogged"
    BY <1>0, <1>s, <2>1 DEF Standing, Unsettled
  <2>4. Moves(c)
    BY <2>1, <2>2, <2>3 DEF Moves
  <2> QED
    BY <1>t, <1>p, <2>4, OneCallMoves
<1>8. ASSUME NEW c \in Calls, NEW r \in {"noBody", "value", "timeout"}, Settle(c, r),
             UNCHANGED <<lane, opened>>, stage[c] \in {"gate", "dispatching", "body"},
             \/ stage' = [stage EXCEPT ![c] = "over"]
             \/ stage' = stage /\ r = "timeout" /\ Unsettled(c) /\ stage[c] # "gate"
      PROVE  StandInv'
  <2>1. /\ \A d \in Calls \ {c} : result'[d] = result[d]
        /\ result'[c] = IF Unsettled(c) THEN r ELSE result[c]
    BY <1>t, <1>8, SettleSets DEF Results
  <2>2. result'[c] # "none" /\ (result'[c] # result[c] => result[c] = "none")
    BY <1>8, <2>1 DEF Unsettled
  <2>3. stage[c] # "unlogged" /\ stage[c] # "logged"
    BY <1>8
  <2>4. \A d \in Calls \ {c} : stage'[d] = stage[d] /\ result'[d] = result[d]
    BY <1>0, <1>8, <2>1
  <2>5. stage'[c] = "over" \/ (stage'[c] \in {"dispatching", "body"} /\ result'[c] = "timeout")
    BY <1>0, <1>8, <2>1
  <2>6. opened' = opened /\ lane' = lane
    BY <1>8
  <2>7. Moves(c)
    BY <2>2, <2>3, <2>4, <2>5, <2>6 DEF Moves
  <2> QED
    BY <1>t, <1>p, <2>7, OneCallMoves
<1>9. ASSUME NEW c \in Calls, GateAnswers(c) \/ DispatchFails(c) PROVE StandInv'
  BY <1>8, <1>9 DEF GateAnswers, DispatchFails
<1>10. ASSUME NEW c \in Calls, DispatchPasses(c), Told(c) PROVE StandInv'
  BY <1>8, <1>10 DEF DispatchPasses
<1>11. ASSUME NEW c \in Calls, BodyReturns(c) PROVE StandInv'
  BY <1>8, <1>11 DEF BodyReturns
<1>12. ASSUME NEW c \in Calls, TimesOut(c) PROVE StandInv'
  BY <1>8, <1>12 DEF TimesOut
<1> QED
  BY <1>1, <1>2, <1>3, <1>4, <1>5, <1>6, <1>7, <1>9, <1>10, <1>11, <1>12
     DEF Next, Lane, Pipeline

(* Places are taken one at a time, by the call at its checkpoint.            *)
LEMMA RunningIsFinite ==
  TypeOK => /\ IsFiniteSet(Running) /\ Cardinality(Running) \in Nat
            /\ \A S \in SUBSET Calls : IsFiniteSet(S) /\ Cardinality(S) \in Nat
<1>1. IsFiniteSet(Calls)
  BY NIsNat, FS_Interval DEF Calls
<1> QED
  BY <1>1, FS_Subset, FS_CardinalityType DEF Running
LEMMA WhoRuns ==
  ASSUME IInv, [Next]_vars, NEW d \in Calls, Unsettled(d)',
         stage'[d] \notin {"unlogged", "logged"}
  PROVE  /\ Unsettled(d)
         /\ \/ stage[d] \notin {"unlogged", "logged"}
            \/ d = opened /\ lane = "checkpoint" /\ lane' = "waiting"
<1>t. TypeOK
  BY DEF IInv
<1>0. stage \in [Calls -> Stages] /\ result \in [Calls -> Results] /\ opened \in 0..N
  BY <1>t DEF TypeOK
<1>1. CASE OpenCall
  BY <1>0, <1>1 DEF OpenCall, Unsettled
<1>2. CASE UNCHANGED <<stage, result>>
  BY <1>2 DEF Unsettled
<1>3. CASE CheckpointPasses \/ CheckpointFails
  <2>0. opened \in Calls /\ lane = "checkpoint"
    BY <1>3 DEF CheckpointPasses, CheckpointFails, IInv, LaneInv
  <2>1. \/ /\ \E r \in {"lost", "aborted"} : Settle(opened, r)
           /\ stage' = [stage EXCEPT ![opened] = "over"]
        \/ /\ result' = result /\ stage' = [stage EXCEPT ![opened] = "gate"] /\ lane' = "waiting"
    BY <1>3 DEF CheckpointPasses, CheckpointFails
  <2>2. CASE result' = result /\ stage' = [stage EXCEPT ![opened] = "gate"] /\ lane' = "waiting"
    BY <1>0, <2>0, <2>2 DEF Unsettled
  <2>3. ASSUME NEW r \in {"lost", "aborted"}, Settle(opened, r),
               stage' = [stage EXCEPT ![opened] = "over"]
        PROVE  Unsettled(d) /\ stage[d] \notin {"unlogged", "logged"}
    BY <1>t, <1>0, <2>0, <2>3, SettleSets DEF Results, Unsettled
  <2> QED
    BY <2>1, <2>2, <2>3
<1>4. CASE Drained
  BY <1>0, <1>4, NIsNat DEF Drained, Unsettled
<1>5. ASSUME NEW c \in Calls, stage[c] \notin {"unlogged", "logged"},
             \A e \in Calls \ {c} : stage'[e] = stage[e],
             result' = result \/ \E r \in {"noBody", "value", "timeout"} : Settle(c, r)
      PROVE  Unsettled(d) /\ stage[d] \notin {"unlogged", "logged"}
  <2>1. stage[d] \notin {"unlogged", "logged"}
    BY <1>5
  <2>2. ASSUME NEW r \in {"noBody", "value", "timeout"}, Settle(c, r) PROVE Unsettled(d)
    BY <1>t, <2>2, SettleSets DEF Results, Unsettled
  <2> QED
    BY <1>5, <2>1, <2>2 DEF Unsettled
<1>6. ASSUME NEW c \in Calls, GatePasses(c) \/ DispatchPasses(c)
      PROVE  Unsettled(d) /\ stage[d] \notin {"unlogged", "logged"}
  <2>1. stage[c] \notin {"unlogged", "logged"}
        /\ (result' = result \/ \E r \in {"noBody", "value", "timeout"} : Settle(c, r))
    BY <1>6 DEF GatePasses, DispatchPasses
  <2>2. \A e \in Calls \ {c} : stage'[e] = stage[e]
    BY <1>0, <1>6 DEF GatePasses, DispatchPasses
  <2> QED
    BY <1>5, <2>1, <2>2
<1>7. ASSUME NEW c \in Calls, GateAnswers(c) \/ DispatchFails(c) \/ BodyReturns(c) \/ TimesOut(c)
      PROVE  Unsettled(d) /\ stage[d] \notin {"unlogged", "logged"}
  <2>1. stage[c] \notin {"unlogged", "logged"}
        /\ \E r \in {"noBody", "value", "timeout"} : Settle(c, r)
    BY <1>7 DEF GateAnswers, DispatchFails, BodyReturns, TimesOut
  <2>2. \A e \in Calls \ {c} : stage'[e] = stage[e]
    BY <1>0, <1>7 DEF GateAnswers, DispatchFails, BodyReturns, TimesOut
  <2> QED
    BY <1>5, <2>1, <2>2
<1> QED
  BY <1>1, <1>2, <1>3, <1>4, <1>6, <1>7
     DEF Next, Lane, Pipeline, StopLane, LaneAdvances, Cancel, Sync, StoreFails, vars

LEMMA NextWidth ==
  ASSUME IInv, IInv', StandInv, WidthInv, [Next]_vars
  PROVE  WidthInv'
<1>t. TypeOK /\ TypeOK'
  BY DEF IInv
<1>p. \A c : Pooled(c)' = Pooled(c)
  BY PooledStays
<1>c. /\ IsFiniteSet(Running) /\ Cardinality(Running) \in Nat
      /\ IsFiniteSet(Running') /\ Cardinality(Running') \in Nat
  <2>1. Running' \in SUBSET Calls
    BY DEF Running
  <2> QED
    BY <1>t, <2>1, RunningIsFinite
<1>1. ASSUME Running' \in SUBSET Running PROVE Cardinality(Running') <= Cardinality(Running)
  BY <1>c, <1>1, FS_Subset
<1>2. ASSUME NEW d \in Running', d \notin Running
      PROVE  d = opened /\ lane = "checkpoint" /\ lane' = "waiting" /\ Pooled(d)
  BY <1>2, <1>p, WhoRuns DEF Running
<1>3. CASE Running' \in SUBSET Running
  <2>1. lane' = "checkpoint" => OpenCall \/ (lane = "checkpoint" /\ opened' = opened)
    BY DEF Next, Lane, Pipeline, OpenCall, StopLane, CheckpointPasses, CheckpointFails,
           LaneAdvances, Drained, GateAnswers, GatePasses, DispatchPasses, DispatchFails,
           BodyReturns, TimesOut, Cancel, Sync, StoreFails, vars
  <2>2. ASSUME OpenCall, Pooled(opened)' PROVE Cardinality(Running) < Width
    BY <1>p, <2>2 DEF OpenCall, CanOpen
  <2> QED
    BY <1>1, <1>3, <1>c, <1>p, <2>1, <2>2, WidthIsPositive DEF WidthInv
<1>4. CASE ~(Running' \in SUBSET Running)
  <2>1. lane = "checkpoint" /\ lane' = "waiting" /\ Pooled(opened)
    BY <1>2, <1>4
  <2>2. Running' \in SUBSET (Running \union {opened})
    BY <1>2
  <2>3. IsFiniteSet(Running \union {opened})
        /\ Cardinality(Running \union {opened}) \in Nat
        /\ Cardinality(Running \union {opened}) <= Cardinality(Running) + 1
    BY <1>c, FS_AddElement
  <2>4. Cardinality(Running') <= Cardinality(Running) + 1
    BY <1>c, <2>2, <2>3, FS_Subset
  <2> QED
    BY <1>c, <2>1, <2>4, WidthIsPositive DEF WidthInv
<1> QED
  BY <1>3, <1>4
-----------------------------------------------------------------------------
(* What a write adds.                                                        *)
Holds(r) == \E i \in Places : log[i] = r

LEMMA WriteHolds ==
  ASSUME TypeOK, NEW recs \in Seq(Records), Write(recs)
  PROVE  /\ Len(log) \in Nat /\ Len(recs) \in Nat /\ Len(log') = Len(log) + Len(recs)
         /\ \A i \in Places : log'[i] = log[i] /\ i \in Places'
         /\ \A k \in 1..Len(recs) : log'[Len(log) + k] = recs[k] /\ Len(log) + k \in Places'
         /\ \A i \in Places' : i \in Places \/ \E k \in 1..Len(recs) : i = Len(log) + k
         /\ \A r : Holds(r)' <=> Holds(r) \/ \E k \in 1..Len(recs) : recs[k] = r
<1>1. log \in Seq(Records) /\ log' = log \o recs
  BY DEF TypeOK, Write
<1>2. /\ Len(log) \in Nat /\ Len(recs) \in Nat /\ Len(log') = Len(log) + Len(recs)
      /\ \A i \in Places : log'[i] = log[i] /\ i \in Places'
      /\ \A k \in 1..Len(recs) : log'[Len(log) + k] = recs[k] /\ Len(log) + k \in Places'
  BY <1>1 DEF Places
<1>3. ASSUME NEW i \in Places' PROVE i \in Places \/ \E k \in 1..Len(recs) : i = Len(log) + k
  <2>1. CASE i <= Len(log)
    BY <1>2, <2>1 DEF Places
  <2>2. CASE i > Len(log)
    <3>1. i - Len(log) \in 1..Len(recs) /\ i = Len(log) + (i - Len(log))
      BY <1>2, <2>2 DEF Places
    <3> QED
      BY <3>1
  <2> QED
    BY <1>2, <2>1, <2>2 DEF Places
<1>4. ASSUME NEW r PROVE Holds(r)' <=> Holds(r) \/ \E k \in 1..Len(recs) : recs[k] = r
  <2>1. ASSUME Holds(r) \/ \E k \in 1..Len(recs) : recs[k] = r PROVE Holds(r)'
    BY <1>2, <2>1 DEF Holds
  <2>2. ASSUME Holds(r)' PROVE Holds(r) \/ \E k \in 1..Len(recs) : recs[k] = r
    <3>1. PICK i \in Places' : log'[i] = r
      BY <2>2 DEF Holds
    <3> QED
      BY <1>2, <1>3, <3>1 DEF Holds
  <2> QED
    BY <2>1, <2>2
<1> QED
  BY <1>2, <1>3, <1>4

(* Records written after a log that is in order: none of them is there yet,  *)
(* none belongs to a call that has its result, each result is the next.      *)
Follows(old, new) ==
  \A c \in Calls : old = Result(c) =>
    /\ new \notin {Call(c), Dispatch(c)}
    /\ \A d \in Calls : new = Result(d) => c < d

Appendable(new, size) ==
  \A k \in 1..size :
    /\ ~Holds(new[k])
    /\ \E c \in Calls : new[k] \in {Call(c), Dispatch(c), Result(c)}
    /\ \A r : Holds(r) => Follows(r, new[k])
    /\ \A l \in 1..size : /\ k < l => Follows(new[k], new[l])
                          /\ new[k] = new[l] => k = l

LEMMA WriteKeepsOrder ==
  ASSUME TypeOK, Once, Known, Ordered, NEW recs \in Seq(Records), Write(recs),
         NEW n, Len(recs) = n, Appendable(recs, n)
  PROVE  Once' /\ Known' /\ Ordered'
<1> DEFINE L == Len(log)
<1>1. /\ L \in Nat /\ n \in Nat
      /\ \A i \in Places : log'[i] = log[i]
      /\ \A k \in 1..n : log'[L + k] = recs[k]
      /\ \A i \in Places' : i \in Places \/ \E k \in 1..n : i = L + k
  BY WriteHolds
<1>2. \A i \in Places : i \in 1..L
  BY DEF Places
<1> HIDE DEF L
<1> USE DEF Appendable
<1>3. ASSUME NEW i \in Places', NEW j \in Places', log'[i] = log'[j] PROVE i = j
  <2>1. CASE i \in Places /\ j \in Places
    BY <1>1, <1>3, <2>1 DEF Once
  <2>2. ASSUME NEW k \in 1..n, i = L + k, j \in Places PROVE FALSE
    BY <1>1, <1>3, <2>2 DEF Holds
  <2>3. ASSUME NEW k \in 1..n, j = L + k, i \in Places PROVE FALSE
    BY <1>1, <1>3, <2>3 DEF Holds
  <2>4. ASSUME NEW k \in 1..n, NEW m \in 1..n, i = L + k, j = L + m PROVE i = j
    <3>1. recs[k] = recs[m]
      BY <1>1, <1>3, <2>4
    <3>2. k = m
      BY <3>1
    <3> QED
      BY <2>4, <3>2
  <2> QED
    BY <1>1, <2>1, <2>2, <2>3, <2>4
<1>4. ASSUME NEW i \in Places'
      PROVE  log'[i] = Message \/ \E c \in Calls : log'[i] \in {Call(c), Dispatch(c), Result(c)}
  <2>1. CASE i \in Places
    BY <1>1, <2>1 DEF Known
  <2>2. ASSUME NEW k \in 1..n, i = L + k
        PROVE  \E c \in Calls : log'[i] \in {Call(c), Dispatch(c), Result(c)}
    BY <1>1, <2>2
  <2> QED
    BY <1>1, <2>1, <2>2
<1>5. ASSUME NEW i \in Places', NEW j \in Places', i < j PROVE Follows(log'[i], log'[j])
  <2>1. CASE j \in Places
    <3>1. i \in Places
      BY <1>1, <1>2, <1>5, <2>1
    <3> QED
      BY <1>1, <1>5, <2>1, <3>1 DEF Ordered, Follows
  <2>2. ASSUME NEW m \in 1..n, j = L + m, i \in Places PROVE Follows(log'[i], log'[j])
    BY <1>1, <2>2 DEF Holds
  <2>3. ASSUME NEW k \in 1..n, NEW m \in 1..n, i = L + k, j = L + m
        PROVE  Follows(log'[i], log'[j])
    <3>1. k < m
      BY <1>1, <1>5, <2>3
    <3> QED
      BY <1>1, <2>3, <3>1
  <2> QED
    BY <1>1, <2>1, <2>2, <2>3
<1>6. Once'
  BY <1>3 DEF Once
<1>7. Known'
  BY <1>4 DEF Known, Message, Call, Dispatch, Result
<1>8. Ordered'
  BY <1>5 DEF Ordered, Follows, Call, Dispatch, Result
<1> QED
  BY <1>6, <1>7, <1>8

(* The results that are due are those of the first calls of the step.        *)
LEMMA ReadyIsPrefix ==
  ASSUME opened \in Nat, NEW res
  PROVE  \E q \in 0..opened : Ready(res) = 1..q
<1> DEFINE Gaps == {k \in Nat : k \in 1..opened /\ res[k] = "none"}
<1>1. CASE Gaps = {}
  <2>1. \A k \in 1..opened : res[k] # "none" /\ \A e \in 1..k : e \in 1..opened
    BY <1>1
  <2>2. Ready(res) = 1..opened
    BY <2>1 DEF Ready
  <2> QED
    BY <2>2
<1>2. CASE Gaps # {}
  <2>1. PICK g \in Gaps : \A y \in Gaps : <<y, g>> \notin OpToRel(<, Nat)
    BY <1>2, WFMin, NatLessThanWellFounded
  <2>2. g \in 1..opened /\ res[g] = "none" /\ \A y \in Gaps : ~(y < g)
    BY <2>1 DEF OpToRel
  <2>3. \A e \in 1..(g - 1) : res[e] # "none" /\ e \in 1..opened
    BY <2>2
  <2>4. Ready(res) = 1..(g - 1)
    <3>1. ASSUME NEW d \in Ready(res) PROVE d \in 1..(g - 1)
      BY <2>2, <3>1 DEF Ready
    <3>2. ASSUME NEW d \in 1..(g - 1) PROVE d \in Ready(res)
      BY <2>2, <2>3, <3>2 DEF Ready
    <3> QED
      BY <3>1, <3>2
  <2> QED
    BY <2>2, <2>4
<1> QED
  BY <1>1, <1>2
LEMMA SettleDue ==
  ASSUME TypeOK, NEW c \in Calls, c <= opened, Unsettled(c), NEW r \in Results, r # "none",
         NEW res, res = [result EXCEPT ![c] = r]
  PROVE  \E q, t \in 0..opened :
           /\ Ready(result) = 1..q /\ Ready(res) = 1..t /\ q <= t
           /\ Cardinality(Ready(res) \ Ready(result)) = t - q
           /\ q < t => c = q + 1
<1>0. opened \in 0..N /\ result \in [Calls -> Results] /\ c \in 1..opened
      /\ opened \in Nat /\ \A d \in 1..opened : d \in Calls
  BY NIsNat DEF TypeOK, Calls
<1>1. PICK q \in 0..opened : Ready(result) = 1..q
  BY <1>0, ReadyIsPrefix
<1>2. PICK t \in 0..opened : Ready(res) = 1..t
  BY <1>0, ReadyIsPrefix
<1>3. \A d \in 1..opened : result[d] # "none" => res[d] # "none"
  BY <1>0
<1>4. Ready(result) \subseteq Ready(res)
  BY <1>3 DEF Ready
<1>5. q <= t
  <2>1. q \in Nat /\ t \in Nat /\ (q > 0 => q \in 1..q)
    BY <1>0
  <2>2. q > 0 => q \in 1..t
    BY <1>1, <1>2, <1>4, <2>1
  <2> QED
    BY <2>1, <2>2
<1>6. q < t => c = q + 1
  <2> SUFFICES ASSUME q < t, c # q + 1 PROVE FALSE
    OBVIOUS
  <2>0. q \in Nat /\ t \in Nat /\ t <= opened
    BY <1>0
  <2>1. q + 1 \in Ready(res) /\ q + 1 \notin Ready(result) /\ q + 1 \in 1..opened
    <3>1. q + 1 \in 1..t /\ q + 1 \notin 1..q /\ q + 1 \in 1..opened
      BY <1>0, <2>0
    <3> QED
      BY <1>1, <1>2, <3>1
  <2>2. res[q + 1] = result[q + 1]
    BY <1>0, <2>1
  <2>3. res[q + 1] # "none"
    BY <2>1 DEF Ready
  <2>4. \A e \in 1..q : result[e] # "none"
    <3> SUFFICES ASSUME NEW e \in 1..q PROVE result[e] # "none"
      OBVIOUS
    <3>1. e \in Ready(result) /\ e \in 1..e
      BY <1>1
    <3> QED
      BY <3>1 DEF Ready
  <2>5. \A e \in 1..(q + 1) : e \in 1..q \/ e = q + 1
    OBVIOUS
  <2> QED
    BY <2>1, <2>2, <2>3, <2>4, <2>5 DEF Ready
<1>7. Cardinality(Ready(res) \ Ready(result)) = t - q
  <2>1. Ready(res) \ Ready(result) = (q + 1)..t
    BY <1>1, <1>2
  <2>2. Cardinality((q + 1)..t) = t - q
    <3>1. Cardinality((q + 1)..t) = IF q + 1 > t THEN 0 ELSE t - (q + 1) + 1
      BY FS_Interval
    <3> QED
      BY <1>5, <3>1
  <2> QED
    BY <2>1, <2>2
<1> QED
  BY <1>1, <1>2, <1>5, <1>6, <1>7

(* A slot is filled: the results that became due are written, in order.      *)
LEMMA SettleKeepsOrder ==
  ASSUME TypeOK, OrderInv, NEW c \in Calls, c <= opened, NEW r \in Results, r # "none",
         Settle(c, r), opened' = opened
  PROVE  OrderInv'
<1>0. opened \in 0..N /\ opened \in Nat
  BY NIsNat DEF TypeOK
<1>1. CASE ~Unsettled(c)
  <2>1. UNCHANGED <<result, log>>
    BY <1>1 DEF Settle, storage
  <2>2. Ready(result)' = Ready(result)
    BY <2>1 DEF Ready
  <2>3. Once' /\ Known' /\ Ordered'
    BY <2>1 DEF OrderInv, Once, Known, Ordered, Places, Message, Call, Dispatch, Result
  <2>4. CallsOpened' /\ ResultsDue'
    BY <2>1, <2>2 DEF OrderInv, CallsOpened, ResultsDue, Places, Call, Result
  <2> QED
    BY <2>3, <2>4 DEF OrderInv
<1>2. CASE Unsettled(c)
  <2> DEFINE res == [result EXCEPT ![c] = r]
             due == Cardinality(Ready(res) \ Ready(result))
             recs == [k \in 1..due |-> Result(c + k - 1)]
  <2>1. result' = res /\ Write(recs)
    BY <1>2 DEF Settle
  <2>2. PICK q \in 0..opened, t \in 0..opened :
           /\ Ready(result) = 1..q /\ Ready(res) = 1..t /\ q <= t
           /\ due = t - q /\ (q < t => c = q + 1)
    <3>1. res = [result EXCEPT ![c] = r]
      OBVIOUS
    <3> HIDE DEF res
    <3> QED
      BY ZenonT(60), <1>2, <3>1, SettleDue
  <2> HIDE DEF res, due
  <2>3. due \in Nat /\ \A k \in 1..due : recs[k] = Result(q + k) /\ q + k \in (q + 1)..t /\ q + k \in Calls
    BY <1>0, <2>2, NIsNat DEF Calls
  <2>4. recs \in Seq(Records) /\ Len(recs) = due
    <3>1. \A k \in 1..due : recs[k] \in Records
      BY <2>3, NIsNat DEF Result, Records, Calls
    <3>2. recs = [k \in 1..due |-> recs[k]]
      OBVIOUS
    <3> HIDE DEF recs
    <3> QED
      BY <2>3, <3>1, <3>2
  <2> HIDE DEF recs
  <2>5. \A d \in Calls : Holds(Result(d)) <=> d \in 1..q
    BY <2>2 DEF OrderInv, ResultsDue, Holds
  <2>6. ASSUME NEW k \in 1..due
        PROVE  /\ ~Holds(recs[k])
               /\ \E d \in Calls : recs[k] \in {Call(d), Dispatch(d), Result(d)}
               /\ \A x : Holds(x) => Follows(x, recs[k])
               /\ \A m \in 1..due : /\ k < m => Follows(recs[k], recs[m])
                                    /\ recs[k] = recs[m] => k = m
    <3>1. recs[k] = Result(q + k) /\ q + k \in Calls /\ q + k > q
      BY <2>2, <2>3
    <3>2. ~Holds(recs[k])
      BY <2>2, <2>5, <3>1
    <3>3. ASSUME NEW x, Holds(x) PROVE Follows(x, recs[k])
      <4> SUFFICES ASSUME NEW d \in Calls, x = Result(d)
                   PROVE  /\ recs[k] \notin {Call(d), Dispatch(d)}
                          /\ \A e \in Calls : recs[k] = Result(e) => d < e
        BY DEF Follows
      <4>1. d \in 1..q
        BY <2>5, <3>3
      <4> QED
        BY <2>2, <3>1, <4>1 DEF Call, Dispatch, Result
    <3>4. ASSUME NEW m \in 1..due
          PROVE  (k < m => Follows(recs[k], recs[m])) /\ (recs[k] = recs[m] => k = m)
      <4>1. recs[m] = Result(q + m)
        BY <2>3
      <4> QED
        BY <2>2, <2>3, <3>1, <4>1 DEF Follows, Call, Dispatch, Result
    <3> QED
      BY <3>1, <3>2, <3>3, <3>4
  <2>7. Once' /\ Known' /\ Ordered'
    <3>1. Appendable(recs, due)
      BY <2>6 DEF Appendable
    <3> QED
      BY <2>1, <2>4, <3>1, WriteKeepsOrder DEF OrderInv
  <2>8. \A x : Holds(x)' <=> Holds(x) \/ \E k \in 1..due : recs[k] = x
    BY <2>1, <2>4, WriteHolds
  <2>9. ASSUME NEW d \in Calls PROVE Holds(Call(d))' <=> Holds(Call(d))
    <3>1. \A k \in 1..due : recs[k] # Call(d)
      BY <2>3 DEF Call, Result
    <3> QED
      BY <2>8, <3>1 DEF Call
  <2>10. ASSUME NEW d \in Calls PROVE d \in Ready(result)' <=> Holds(Result(d))'
    <3>1. Ready(result)' = 1..t
      BY <2>1, <2>2 DEF Ready
    <3>2. (\E k \in 1..due : recs[k] = Result(d)) <=> d \in (q + 1)..t
      <4>1. ASSUME NEW k \in 1..due, recs[k] = Result(d) PROVE d \in (q + 1)..t
        BY <2>3, <4>1 DEF Result
      <4>2. ASSUME d \in (q + 1)..t PROVE d - q \in 1..due /\ recs[d - q] = Result(d)
        <5>1. d - q \in 1..due /\ q + (d - q) = d
          BY <2>2, <4>2
        <5> QED
          BY <2>3, <5>1
      <4> QED
        BY <4>1, <4>2
    <3>3. d \in 1..t <=> d \in 1..q \/ d \in (q + 1)..t
      BY <2>2, NIsNat DEF Calls
    <3> QED
      BY <2>5, <2>8, <3>1, <3>2, <3>3 DEF Result
  <2>11. CallsOpened'
    BY <2>9 DEF OrderInv, CallsOpened, Holds, Call
  <2>12. ResultsDue'
    BY <2>10 DEF ResultsDue, Holds, Result
  <2> QED
    BY <2>7, <2>11, <2>12 DEF OrderInv
<1> QED
  BY <1>1, <1>2
(* A call is logged: the lane opens it, or its gate passes.                  *)
LEMMA OneRecordKeepsOrder ==
  ASSUME TypeOK, OrderInv, NEW c \in Calls, NEW rec \in {Call(c), Dispatch(c)},
         Write(<<rec>>), ~Holds(rec), ~Holds(Result(c)),
         rec = Call(c) => \A d \in Calls : Holds(Result(d)) => d < c,
         Ready(result)' = Ready(result),
         \A d \in Calls : d <= opened' <=> d <= opened \/ (rec = Call(c) /\ d = c)
  PROVE  OrderInv'
<1> DEFINE recs == <<rec>>
<1>1. recs \in Seq(Records) /\ Len(recs) = 1 /\ recs[1] = rec
  <2>1. rec \in Records
    BY NIsNat DEF Call, Dispatch, Records, Calls
  <2> QED
    BY <2>1
<1>2. Write(recs)
  OBVIOUS
<1> HIDE DEF recs
<1>3. \A k \in 1..Len(recs) : k = 1 /\ recs[k] = rec
  BY <1>1
<1>4. ASSUME NEW x, Holds(x) PROVE Follows(x, rec)
  <2> SUFFICES ASSUME NEW d \in Calls, x = Result(d)
               PROVE  /\ rec \notin {Call(d), Dispatch(d)}
                      /\ \A e \in Calls : rec = Result(e) => d < e
    BY DEF Follows
  <2>1. d # c
    BY <1>4
  <2> QED
    BY <2>1 DEF Call, Dispatch, Result
<1>5. \E d \in Calls : rec \in {Call(d), Dispatch(d), Result(d)}
  OBVIOUS
<1>6. Once' /\ Known' /\ Ordered'
  <2>1. Appendable(recs, 1)
    BY <1>1, <1>3, <1>4, <1>5 DEF Appendable
  <2> QED
    BY <1>1, <1>2, <2>1, WriteKeepsOrder DEF OrderInv
<1>7. \A x : Holds(x)' <=> Holds(x) \/ x = rec
  BY <1>1, <1>2, <1>3, WriteHolds
<1>8. ASSUME NEW d \in Calls PROVE d <= opened' <=> Holds(Call(d))'
  <2>1. d <= opened <=> Holds(Call(d))
    BY DEF OrderInv, CallsOpened, Holds
  <2>2. Holds(Call(d))' <=> Holds(Call(d)) \/ Call(d) = rec
    BY <1>7 DEF Call
  <2>3. Call(d) = rec <=> rec = Call(c) /\ d = c
    BY DEF Call, Dispatch
  <2> QED
    BY <2>1, <2>2, <2>3
<1>9. ASSUME NEW d \in Calls PROVE d \in Ready(result)' <=> Holds(Result(d))'
  <2>1. d \in Ready(result) <=> Holds(Result(d))
    BY DEF OrderInv, ResultsDue, Holds
  <2>2. Holds(Result(d))' <=> Holds(Result(d)) \/ Result(d) = rec
    BY <1>7 DEF Result
  <2>3. Result(d) # rec
    BY DEF Call, Dispatch, Result
  <2> QED
    BY <2>1, <2>2, <2>3
<1>10. CallsOpened'
  BY <1>8 DEF CallsOpened, Holds, Call
<1>11. ResultsDue'
  BY <1>9 DEF ResultsDue, Holds, Result
<1> QED
  BY <1>6, <1>10, <1>11 DEF OrderInv

(* A call without an answer has no result in the log.                        *)
LEMMA UnsettledNotHeld ==
  ASSUME TypeOK, OrderInv, NEW c \in Calls, Unsettled(c) PROVE ~Holds(Result(c))
<1>1. c \in 1..c
  BY NIsNat DEF Calls
<1>2. c \notin Ready(result)
  BY <1>1 DEF Ready, Unsettled
<1> QED
  BY <1>2 DEF OrderInv, ResultsDue, Holds

(* The step's end: what the lane never reached is logged and answered, pair  *)
(* by pair.                                                                  *)
LEMMA DrainedKeepsOrder ==
  ASSUME TypeOK, StandInv, StandInv', OrderInv, Drained
  PROVE  OrderInv'
<1> DEFINE n == opened
           count == 2 * (N - opened)
           recs == [k \in 1..count |-> IF k % 2 = 1 THEN Call(opened + (k + 1) \div 2)
                                                ELSE Result(opened + k \div 2)]
<1>1. Write(recs) /\ opened' = N /\ lane' = "done" /\ lane = "draining" /\ Running = {}
  BY DEF Drained
<1>2. opened \in 0..N /\ N \in Nat /\ count \in Nat /\ n \in 0..N /\ count = 2 * (N - n)
  BY NIsNat DEF TypeOK
<1>3. Ready(result) = 1..n
  <2>1. \A c \in 1..opened : result[c] # "none"
    BY <1>1, NoneRunning DEF Unsettled
  <2>2. \A c \in 1..opened : \A e \in 1..c : e \in 1..opened
    BY <1>2
  <2> QED
    BY <2>1, <2>2 DEF Ready
<1>4. Ready(result)' = 1..N
  <2>1. \A c \in Calls : result'[c] # "none"
    BY <1>1 DEF StandInv, Ended, Unsettled
  <2>2. \A c \in 1..N : \A e \in 1..c : e \in 1..N
    BY <1>2
  <2> QED
    BY <1>1, <2>1, <2>2 DEF Ready, Calls
<1> HIDE DEF count
<1>5. ASSUME NEW k \in 1..count
      PROVE  \/ \E d \in (n + 1)..N : k = 2 * (d - n) - 1 /\ recs[k] = Call(d)
             \/ \E d \in (n + 1)..N : k = 2 * (d - n) /\ recs[k] = Result(d)
  <2>1. CASE k % 2 = 1
    <3>1. PICK d \in (n + 1)..N : d = opened + (k + 1) \div 2 /\ k = 2 * (d - n) - 1
      <4> DEFINE half == (k + 1) \div 2
      <4>1. half \in Nat /\ k = 2 * half - 1 /\ half \in 1..(N - n)
        BY <1>2, <2>1
      <4> HIDE DEF half
      <4>2. opened + half \in (n + 1)..N /\ k = 2 * ((opened + half) - n) - 1
        BY <1>2, <4>1
      <4> USE <4>2
      <4> WITNESS opened + half \in (n + 1)..N
      <4> QED
        BY <4>2 DEF half
    <3>2. recs[k] = Call(d)
      BY <3>1, <2>1
    <3> HIDE DEF recs
    <3> QED
      BY <3>1, <3>2
  <2>2. CASE k % 2 # 1
    <3>1. PICK d \in (n + 1)..N : d = opened + k \div 2 /\ k = 2 * (d - n)
      <4> DEFINE half == k \div 2
      <4>1. half \in Nat /\ k = 2 * half /\ half \in 1..(N - n)
        BY <1>2, <2>2
      <4> HIDE DEF half
      <4>2. opened + half \in (n + 1)..N /\ k = 2 * ((opened + half) - n)
        BY <1>2, <4>1
      <4> USE <4>2
      <4> WITNESS opened + half \in (n + 1)..N
      <4> QED
        BY <4>2 DEF half
    <3>2. recs[k] = Result(d)
      BY <3>1, <2>2
    <3> HIDE DEF recs
    <3> QED
      BY <3>1, <3>2
  <2> QED
    BY <2>1, <2>2
<1>6. ASSUME NEW d \in (n + 1)..N
      PROVE  /\ 2 * (d - n) \in 1..count /\ recs[2 * (d - n)] = Result(d)
             /\ 2 * (d - n) - 1 \in 1..count /\ recs[2 * (d - n) - 1] = Call(d)
  <2>1. /\ 2 * (d - n) \in 1..count /\ (2 * (d - n)) % 2 # 1 /\ opened + (2 * (d - n)) \div 2 = d
        /\ 2 * (d - n) - 1 \in 1..count /\ (2 * (d - n) - 1) % 2 = 1
        /\ opened + ((2 * (d - n) - 1) + 1) \div 2 = d
    BY <1>2
  <2> QED
    BY <2>1
<1>7. recs \in Seq(Records) /\ Len(recs) = count
  <2>1. \A k \in 1..count : recs[k] \in Records
    <3> SUFFICES ASSUME NEW k \in 1..count PROVE recs[k] \in Records
      OBVIOUS
    <3>1. \A d \in (n + 1)..N : d \in Nat /\ Call(d) \in Records /\ Result(d) \in Records
      BY <1>2 DEF Call, Result, Records
    <3> HIDE DEF recs
    <3> QED
      BY <1>5, <3>1
  <2>2. recs = [k \in 1..count |-> recs[k]]
    OBVIOUS
  <2>3. count \in Nat
    BY <1>2
  <2> HIDE DEF recs
  <2> QED
    BY <2>1, <2>2, <2>3
<1> HIDE DEF recs
<1>8. \A d \in Calls : (Holds(Result(d)) <=> d \in 1..n) /\ (Holds(Call(d)) <=> d <= n)
  BY <1>3 DEF OrderInv, ResultsDue, CallsOpened, Holds
<1>9. \A d \in (n + 1)..N : d \in Calls /\ ~Holds(Call(d)) /\ ~Holds(Result(d))
  BY <1>2, <1>8 DEF Calls
<1>10. ASSUME NEW k \in 1..count
       PROVE  /\ ~Holds(recs[k])
              /\ \E d \in Calls : recs[k] \in {Call(d), Dispatch(d), Result(d)}
              /\ \A x : Holds(x) => Follows(x, recs[k])
              /\ \A l \in 1..count :
                   (k < l => Follows(recs[k], recs[l])) /\ (recs[k] = recs[l] => k = l)
  <2>1. PICK d \in (n + 1)..N : \/ k = 2 * (d - n) - 1 /\ recs[k] = Call(d)
                                \/ k = 2 * (d - n) /\ recs[k] = Result(d)
    BY <1>5
  <2>2. ASSUME NEW x, Holds(x) PROVE Follows(x, recs[k])
    <3> SUFFICES ASSUME NEW c \in Calls, x = Result(c)
                 PROVE  /\ recs[k] \notin {Call(c), Dispatch(c)}
                        /\ \A e \in Calls : recs[k] = Result(e) => c < e
      BY DEF Follows
    <3>1. c \in 1..n
      BY <1>8, <2>2
    <3> QED
      BY <1>2, <2>1, <3>1 DEF Call, Dispatch, Result
  <2>3. ASSUME NEW l \in 1..count
        PROVE  (k < l => Follows(recs[k], recs[l])) /\ (recs[k] = recs[l] => k = l)
    <3>1. PICK e \in (n + 1)..N : \/ l = 2 * (e - n) - 1 /\ recs[l] = Call(e)
                                  \/ l = 2 * (e - n) /\ recs[l] = Result(e)
      BY <1>5
    <3>2. recs[k] = recs[l] => k = l
      BY <2>1, <3>1 DEF Call, Result
    <3>3. ASSUME k < l, NEW c \in Calls, recs[k] = Result(c)
          PROVE  /\ recs[l] \notin {Call(c), Dispatch(c)}
                 /\ \A a \in Calls : recs[l] = Result(a) => c < a
      <4>1. c = d /\ k = 2 * (d - n)
        BY <2>1, <3>3 DEF Call, Result
      <4>2. d < e
        BY <1>2, <3>1, <3>3, <4>1
      <4> QED
        BY <3>1, <4>1, <4>2 DEF Call, Result, Dispatch
    <3> QED
      BY <3>2, <3>3 DEF Follows
  <2> QED
    BY <1>9, <2>1, <2>2, <2>3
<1>11. Once' /\ Known' /\ Ordered'
  <2>1. Once /\ Known /\ Ordered /\ Write(recs)
    BY <1>1 DEF OrderInv
  <2>2. recs \in Seq(Records) /\ Len(recs) = count
    BY <1>7
  <2>3. Appendable(recs, count)
    BY <1>10 DEF Appendable
  <2> QED
    BY <2>1, <2>2, <2>3, WriteKeepsOrder
<1>12. \A x : Holds(x)' <=> Holds(x) \/ \E k \in 1..count : recs[k] = x
  BY <1>1, <1>7, WriteHolds
<1>13. ASSUME NEW d \in Calls PROVE Holds(Call(d))' /\ Holds(Result(d))'
  <2>1. CASE d <= n
    <3>1. Holds(Call(d)) /\ Holds(Result(d))
      BY <1>2, <1>8, <2>1 DEF Calls
    <3> QED
      BY <1>12, <3>1 DEF Call, Result
  <2>2. CASE d > n
    <3>1. d \in (n + 1)..N
      BY <1>2, <2>2 DEF Calls
    <3>2. (\E k \in 1..count : recs[k] = Call(d)) /\ (\E k \in 1..count : recs[k] = Result(d))
      BY <1>6, <3>1
    <3> QED
      BY <1>12, <3>2 DEF Call, Result
  <2> QED
    BY <1>2, <2>1, <2>2 DEF Calls
<1>14. CallsOpened'
  BY <1>1, <1>2, <1>13 DEF CallsOpened, Holds, Call, Calls
<1>15. ResultsDue'
  BY <1>4, <1>13 DEF ResultsDue, Holds, Result, Calls
<1> QED
  BY <1>11, <1>14, <1>15 DEF OrderInv
LEMMA NextOrder ==
  ASSUME IInv, QuietInv, StandInv, StandInv', OrderInv, [Next]_vars
  PROVE  OrderInv'
<1>t. TypeOK
  BY DEF IInv
<1>0. opened \in 0..N /\ \A c \in Calls : Standing(c) /\ QuietCall(c)
  BY <1>t DEF TypeOK, StandInv, QuietInv
<1>1. CASE OpenCall
  <2>0. PICK c \in Calls : c = opened + 1
    BY <1>1 DEF OpenCall
  <2>1. opened' = c /\ result' = result /\ Write(<<Call(c)>>)
    BY <1>1, <2>0 DEF OpenCall
  <2>2. c > opened /\ Unsettled(c)
    BY <1>0, <2>0, NIsNat DEF Standing, Early, Calls
  <2>3. ~Holds(Call(c)) /\ ~Holds(Result(c))
    <3>1. ~Holds(Call(c))
      BY <1>0, <2>2, NIsNat DEF OrderInv, CallsOpened, Holds, Calls
    <3> QED
      BY <1>t, <2>2, <3>1, UnsettledNotHeld
  <2>4. \A d \in Calls : Holds(Result(d)) => d < c
    BY <1>0, <2>0, NIsNat DEF OrderInv, ResultsDue, Holds, Ready, Calls
  <2>5. Ready(result)' = Ready(result)
    <3>1. ASSUME NEW d \in Ready(result)' PROVE d \in Ready(result)
      <4>1. d \in 1..c /\ \A e \in 1..d : result[e] # "none"
        BY <2>1, <3>1 DEF Ready
      <4>2. d # c
        BY <2>2, <4>1 DEF Unsettled, Calls
      <4> QED
        BY <1>0, <2>0, <4>1, <4>2, NIsNat DEF Ready
    <3>2. ASSUME NEW d \in Ready(result) PROVE d \in Ready(result)'
      BY <1>0, <2>0, <2>1, <3>2, NIsNat DEF Ready
    <3> QED
      BY <3>1, <3>2
  <2>6. \A d \in Calls : d <= opened' <=> d <= opened \/ d = c
    BY <1>0, <2>0, <2>1, NIsNat DEF Calls
  <2> QED
    BY <1>t, <2>1, <2>3, <2>4, <2>5, <2>6, OneRecordKeepsOrder
<1>2. CASE UNCHANGED <<log, result, opened>>
  <2>1. Ready(result)' = Ready(result)
    BY <1>2 DEF Ready
  <2>2. Once' /\ Known' /\ Ordered'
    BY <1>2 DEF OrderInv, Once, Known, Ordered, Places, Message, Call, Dispatch, Result
  <2>3. CallsOpened' /\ ResultsDue'
    BY <1>2, <2>1 DEF OrderInv, CallsOpened, ResultsDue, Places, Call, Result
  <2> QED
    BY <2>2, <2>3 DEF OrderInv
<1>3. ASSUME NEW c \in Calls, GatePasses(c) PROVE OrderInv'
  <2>1. stage[c] = "gate" /\ result' = result /\ opened' = opened /\ Write(<<Dispatch(c)>>)
    BY <1>3 DEF GatePasses
  <2>2. Unsettled(c) /\ ~Holds(Dispatch(c))
    BY <1>0, <2>1 DEF Standing, QuietCall, Early, Dispatched, Holds, Places
  <2>3. ~Holds(Result(c)) /\ Dispatch(c) # Call(c)
    BY <1>t, <2>2, UnsettledNotHeld DEF Dispatch, Call
  <2>4. Ready(result)' = Ready(result)
    BY <2>1 DEF Ready
  <2> QED
    BY <1>t, <2>1, <2>2, <2>3, <2>4, OneRecordKeepsOrder
<1>4. ASSUME NEW c \in Calls, stage[c] # "unlogged", opened' = opened,
             \E r \in Results \ {"none"} : Settle(c, r)
      PROVE  OrderInv'
  <2>1. c <= opened
    BY <1>0, <1>4, NIsNat DEF Standing, Calls
  <2> QED
    BY <1>t, <1>4, <2>1, SettleKeepsOrder
<1>5. CASE CheckpointPasses \/ CheckpointFails
  <2>1. opened \in Calls /\ stage[opened] = "logged" /\ opened' = opened
    BY <1>5 DEF CheckpointPasses, CheckpointFails, IInv, LaneInv
  <2>2. \/ UNCHANGED <<result, storage>>
        \/ \E r \in Results \ {"none"} : Settle(opened, r)
    BY <1>5 DEF CheckpointPasses, CheckpointFails, Results
  <2> QED
    BY <1>2, <1>4, <2>1, <2>2 DEF storage
<1>6. ASSUME NEW c \in Calls, DispatchPasses(c) PROVE OrderInv'
  <2>1. stage[c] = "dispatching" /\ opened' = opened
    BY <1>6 DEF DispatchPasses
  <2>2. \/ UNCHANGED <<result, storage>>
        \/ \E r \in Results \ {"none"} : Settle(c, r)
    BY <1>6 DEF DispatchPasses, Results
  <2> QED
    BY <1>2, <1>4, <2>1, <2>2 DEF storage
<1>7. ASSUME NEW c \in Calls,
             GateAnswers(c) \/ DispatchFails(c) \/ BodyReturns(c) \/ TimesOut(c)
      PROVE  OrderInv'
  <2>1. stage[c] # "unlogged" /\ opened' = opened
    BY <1>7 DEF GateAnswers, DispatchFails, BodyReturns, TimesOut
  <2>2. \E r \in Results \ {"none"} : Settle(c, r)
    BY <1>7 DEF GateAnswers, DispatchFails, BodyReturns, TimesOut, Results
  <2> QED
    BY <1>4, <2>1, <2>2
<1>8. CASE Drained
  BY <1>t, <1>8, DrainedKeepsOrder
<1>9. CASE StopLane \/ LaneAdvances \/ Cancel \/ Sync \/ StoreFails \/ UNCHANGED vars
  BY <1>2, <1>9 DEF StopLane, LaneAdvances, Cancel, Sync, StoreFails, vars, storage
<1> QED
  BY <1>1, <1>3, <1>5, <1>6, <1>7, <1>8, <1>9 DEF Next, Lane, Pipeline

LEMMA InitOrder == Init => StandInv /\ WidthInv /\ OrderInv
<1> SUFFICES ASSUME Init PROVE StandInv /\ WidthInv /\ OrderInv
  OBVIOUS
<1>1. /\ lane = "next" /\ opened = 0 /\ log = <<Message>>
      /\ \A c \in Calls : stage[c] = "unlogged" /\ result[c] = "none" /\ c > 0
  BY NIsNat DEF Init, Calls
<1>2. StandInv
  BY <1>1, NIsNat DEF StandInv, Standing, Alone, Ended, Early, Unsettled, Calls
<1>3. WidthInv
  <2>1. Running = {}
    BY <1>1 DEF Running
  <2>2. Cardinality(Running) = 0
    BY <2>1, FS_EmptySet
  <2> QED
    BY <1>1, <2>2, WidthIsPositive DEF WidthInv
<1>4. Ready(result) = {}
  BY <1>1 DEF Ready
<1>5. Places = {1} /\ log[1] = Message
  BY <1>1 DEF Places
<1>6. \A c \in Calls : Message \notin {Call(c), Dispatch(c), Result(c)}
  BY DEF Message, Call, Dispatch, Result
<1>7. CallsOpened
  BY <1>1, <1>5, <1>6, NIsNat DEF CallsOpened, Calls
<1>8. ResultsDue
  BY <1>4, <1>5, <1>6 DEF ResultsDue
<1> QED
  BY <1>2, <1>3, <1>5, <1>6, <1>7, <1>8 DEF OrderInv, Once, Known, Ordered

(* The invariant of the lane's order holds of every behaviour: where each    *)
(* call stands, the places taken, and the order of the log (executeTools of  *)
(* the driver, dispatch of the registry).                                    *)
THEOREM OrderInvariance == Spec => [](StandInv /\ WidthInv /\ OrderInv)
<1>1. ASSUME IInv, IInv', QuietInv, StandInv /\ WidthInv /\ OrderInv, [Next]_vars
      PROVE  (StandInv /\ WidthInv /\ OrderInv)'
  BY <1>1, NextStand, NextWidth, NextOrder
<1> QED
  BY <1>1, InitOrder, Invariance, QuietInvariance, PTL DEF Spec
-----------------------------------------------------------------------------
(* What the order gives.                                                     *)
LEMMA ResultsOrdered ==
  ASSUME TypeOK, OrderInv PROVE ResultsInModelOrder
<1>0. DOMAIN log = Places /\ Len(log) \in Nat
  BY DEF TypeOK, Places
<1> SUFFICES ASSUME NEW i \in Places, NEW j \in Places, NEW c \in Calls, log[i] = Result(c)
             PROVE  /\ i < j /\ log[j][1] = "result" => c < log[j][2]
                    /\ i < j => log[j][2] # c
                    /\ \E m \in 1..(i - 1) : log[m] = Call(c)
  BY <1>0 DEF ResultsInModelOrder
<1>1. \/ log[j] = Message
      \/ \E d \in Calls : log[j] \in {Call(d), Dispatch(d), Result(d)}
  BY DEF OrderInv, Known
<1>2. i < j => /\ log[j] \notin {Call(c), Dispatch(c)}
               /\ \A d \in Calls : log[j] = Result(d) => c < d
  BY DEF OrderInv, Ordered
<1>3. c \in Nat /\ c > 0
  BY NIsNat DEF Calls
<1>4. ASSUME log[j] = Message
      PROVE  /\ i < j /\ log[j][1] = "result" => c < log[j][2]
             /\ i < j => log[j][2] # c
  BY <1>3, <1>4 DEF Message
<1>5. ASSUME NEW d \in Calls, log[j] \in {Call(d), Dispatch(d), Result(d)}
      PROVE  /\ i < j /\ log[j][1] = "result" => c < log[j][2]
             /\ i < j => log[j][2] # c
  <2>1. CASE log[j] = Result(d)
    BY <1>2, <1>3, <2>1, NIsNat DEF Result, Calls
  <2>2. CASE log[j] \in {Call(d), Dispatch(d)}
    BY <1>2, <2>2 DEF Call, Dispatch
  <2> QED
    BY <1>5, <2>1, <2>2
<1>6. \E m \in 1..(i - 1) : log[m] = Call(c)
  <2>1. c \in Ready(result)
    BY DEF OrderInv, ResultsDue
  <2>2. c <= opened
    BY <2>1 DEF Ready, TypeOK
  <2>3. PICK m \in Places : log[m] = Call(c)
    BY <2>2 DEF OrderInv, CallsOpened
  <2>4. ~(i < m)
    BY <2>3 DEF OrderInv, Ordered
  <2>5. m # i
    BY <2>3 DEF Call, Result
  <2> QED
    BY <1>0, <2>3, <2>4, <2>5 DEF Places
<1> QED
  BY <1>1, <1>4, <1>5, <1>6

LEMMA BarriersAlone ==
  ASSUME TypeOK, StandInv, OrderInv PROVE BarrierRunsAlone
<1> SUFFICES ASSUME NEW c \in Calls, ~Pooled(c), Unsettled(c),
                    stage[c] \in {"gate", "dispatching", "body"}
             PROVE  /\ \A d \in 1..(c - 1) : Result(d) \in {log[i] : i \in DOMAIN log}
                    /\ \A d \in Calls \ {c} : ~(Unsettled(d) /\ stage[d] # "unlogged")
  BY DEF BarrierRunsAlone
<1>0. opened \in 0..N /\ DOMAIN log = Places /\ c \in 1..N
  BY DEF TypeOK, Places, Calls
<1>1. c <= opened
  BY <1>0, NIsNat DEF StandInv, Standing
<1>2. c = opened /\ \A d \in 1..(c - 1) : ~Unsettled(d)
  BY <1>1 DEF StandInv, Alone
<1>3. ASSUME NEW d \in 1..(c - 1) PROVE Result(d) \in {log[i] : i \in DOMAIN log}
  <2>1. d \in Calls /\ d \in 1..opened /\ \A e \in 1..d : e \in 1..(c - 1)
    BY <1>0, <1>2, NIsNat DEF Calls
  <2>2. d \in Ready(result)
    BY <1>2, <2>1 DEF Ready, Unsettled
  <2> QED
    BY <1>0, <2>1, <2>2 DEF OrderInv, ResultsDue
<1>4. ASSUME NEW d \in Calls \ {c}, stage[d] # "unlogged" PROVE ~Unsettled(d)
  <2>1. d <= opened
    BY <1>0, <1>4, NIsNat DEF StandInv, Standing, Calls
  <2> QED
    BY <1>0, <1>2, <1>4, <2>1, NIsNat DEF Calls
<1> QED
  BY <1>3, <1>4

LEMMA BodiesBounded ==
  ASSUME TypeOK, StandInv, OrderInv, WidthInv PROVE BodiesWithinWidth
<1> DEFINE Bodies == {c \in Calls : InFlight(c)}
<1>0. /\ IsFiniteSet(Running) /\ Cardinality(Running) \in Nat
      /\ IsFiniteSet(Bodies) /\ Cardinality(Bodies) \in Nat
  <2>1. Bodies \in SUBSET Calls
    OBVIOUS
  <2> QED
    BY <2>1, RunningIsFinite
<1>1. CASE \A c \in Bodies : Pooled(c)
  <2>1. Bodies \in SUBSET Running
    BY <1>1 DEF Running, InFlight
  <2>2. Cardinality(Bodies) <= Cardinality(Running)
    BY <1>0, <2>1, FS_Subset
  <2> QED
    BY <1>0, <2>2, WidthIsPositive DEF WidthInv, BodiesWithinWidth
<1>2. CASE \E c \in Bodies : ~Pooled(c)
  <2>1. PICK c \in Bodies : ~Pooled(c)
    BY <1>2
  <2>2. \A d \in Calls \ {c} : ~(Unsettled(d) /\ stage[d] # "unlogged")
    BY <2>1, BarriersAlone DEF BarrierRunsAlone, InFlight
  <2>3. Bodies = {c}
    BY <2>1, <2>2 DEF InFlight
  <2>4. Cardinality({c}) = 1
    BY FS_Singleton
  <2> QED
    BY <2>3, <2>4, WidthIsPositive DEF BodiesWithinWidth
<1> QED
  BY <1>1, <1>2

LEMMA EndsWhole ==
  ASSUME TypeOK, StandInv, OrderInv PROVE StepEndsWhole
<1> SUFFICES ASSUME lane = "done", NEW c \in Calls
             PROVE  /\ Times(Call(c)) = 1 /\ Times(Result(c)) = 1
                    /\ stage[c] = "over" \/ result[c] = "timeout"
  BY DEF StepEndsWhole
<1>1. opened = N /\ \A d \in Calls : ~Unsettled(d)
  BY DEF StandInv, Ended
<1>2. c <= opened /\ c \in Ready(result)
  BY <1>1, NIsNat DEF Ready, Unsettled, Calls
<1>3. ASSUME NEW r, \E i \in Places : log[i] = r PROVE Times(r) = 1
  <2>1. PICK i \in Places : log[i] = r
    BY <1>3
  <2>2. DOMAIN log = Places
    BY DEF TypeOK, Places
  <2>3. {j \in DOMAIN log : log[j] = r} = {i}
    BY <2>1, <2>2 DEF OrderInv, Once
  <2>4. Cardinality({i}) = 1
    BY FS_Singleton
  <2> QED
    BY <2>3, <2>4 DEF Times
<1>4. Times(Call(c)) = 1 /\ Times(Result(c)) = 1
  BY <1>2, <1>3 DEF OrderInv, CallsOpened, ResultsDue
<1>5. stage[c] = "over" \/ result[c] = "timeout"
  BY <1>1 DEF StandInv, Standing
<1> QED
  BY <1>4, <1>5

(* However the bodies of a step overlap, fail, time out or are cancelled,    *)
(* its results are logged in model order, a barrier runs alone, no more      *)
(* bodies run than the width allows, and the step ends with every call       *)
(* logged and answered exactly once: executeTools and commitReady.           *)
THEOREM KeepsOrder == Spec => []LaneKeepsOrder
<1>1. ASSUME IInv, StandInv /\ WidthInv /\ OrderInv PROVE LaneKeepsOrder
  <2>1. TypeOK
    BY <1>1 DEF IInv
  <2> QED
    BY <1>1, <2>1, ResultsOrdered, BarriersAlone, BodiesBounded, EndsWhole DEF LaneKeepsOrder
<1> QED
  BY <1>1, Invariance, OrderInvariance, PTL

(* Once the turn is cancelled, or a lost write is known, no body starts: the *)
(* gate of a dispatch reads its signal again after the wait for storage.     *)
THEOREM StartsNothingLate == Spec => NothingStartsLate
<1>1. ASSUME [Next]_vars, cancelled \/ lost PROVE ran' = ran
  BY <1>1 DEF Next, Lane, Pipeline, OpenCall, StopLane, CheckpointPasses, CheckpointFails,
              LaneAdvances, Drained, GateAnswers, GatePasses, DispatchPasses, DispatchFails,
              BodyReturns, TimesOut, Cancel, Sync, StoreFails, vars, Told
<1> QED
  BY <1>1, PTL DEF Spec, NothingStartsLate
=============================================================================
