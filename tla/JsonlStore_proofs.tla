------------------------- MODULE JsonlStore_proofs -------------------------
(***************************************************************************)
(* That outside its two windows the write lease admits one writer, for any *)
(* number of processes on any hosts, and that under it the stored log reads*)
(* as one story, for any processes that resume it, die over it and fail to *)
(* write it.                                                               *)
(*                                                                         *)
(* The lease first.  Neither of its properties is inductive: a writer's    *)
(* lock could be unlinked by a process inside its steal.  What protects it *)
(* is that only the holder of the mutex gets that far (MutexInv), and that,*)
(* no window met, what it is about to unlink is a dead process's lock      *)
(* (LockInv).                                                              *)
(*                                                                         *)
(* Its invariant carries over to the sessions: a step of the log is a step *)
(* of the lease or none.  What OneStory lacks to be inductive is what      *)
(* attach has found when it comes to write (Story), and that whoever writes*)
(* holds the lease (Placed).                                               *)
(***************************************************************************)
EXTENDS StoredLog, SyncedFlush, FiniteSetTheorems, SequenceTheorems, TLAPS

(* The steps a process makes between taking the steal mutex and dropping it.*)
Stealing == {"reread", "reprobe", "unlink", "recreate", "rewriting", "giveUp",
             "giveOver"}

MutexInv == \A p \in alive : pc[p] \in Stealing => steal = Written(p)

(* What a live process knows of the lock while no window was met: one that  *)
(* created it and has not written it, one that holds it, one that is about  *)
(* to unlink it.                                                            *)
LockInv(p) ==
  /\ pc[p] \in {"writing", "rewriting"} => lock = Empty(p)
  /\ pc[p] \in {"holding", "releasing", "giveOver"} => lock = Written(p)
  /\ pc[p] = "unlink" => lock.written /\ lock.owner \notin alive

IInv == TypeOK /\ MutexInv /\ (windows = {} => \A p \in alive : LockInv(p))

-----------------------------------------------------------------------------
LEMMA FilesDiffer ==
  ASSUME NEW p \in Proc, NEW q \in Proc
  PROVE  /\ Empty(p) # Written(q) /\ Written(p) # NoFile /\ Empty(p) # NoFile
         /\ Empty(p) = Empty(q) => p = q
         /\ Written(p) = Written(q) => p = q
         /\ Written(p).written /\ Written(p).owner = p
         /\ ~Empty(p).written /\ Empty(p).owner = p /\ ~NoFile.written
BY NobodyIsNoProc DEF Empty, Written, NoFile

(* Every file the processes make is one of the files, and a written one     *)
(* names its process.                                                       *)
LEMMA FileTypes ==
  /\ NoFile \in Files(BOOLEAN) /\ NoFile \in Files({TRUE})
  /\ \A p \in Proc : Empty(p) \in Files(BOOLEAN) /\ Written(p) \in Files(BOOLEAN)
                     /\ Written(p) \in Files({TRUE})
  /\ \A f \in Files(BOOLEAN) : f.written => f.owner \in Proc
BY DEF Files, NoFile, Empty, Written

LEMMA InitIInv == Init => IInv
<1> SUFFICES ASSUME Init PROVE IInv
  OBVIOUS
<1>1. TypeOK
  BY FileTypes DEF Init, TypeOK, Steps, Idle
<1>2. \A p \in alive : pc[p] = "idle"
  BY DEF Init, Idle
<1> QED
  BY <1>1, <1>2 DEF IInv, MutexInv, LockInv, Stealing

(* Every step keeps the types.                                              *)
LEMMA NextTypes == TypeOK /\ [Next]_vars => TypeOK'
<1> SUFFICES ASSUME TypeOK, [Next]_vars PROVE TypeOK'
  OBVIOUS
<1> USE FileTypes DEF TypeOK, Steps, Idle, Go, Forget
<1>1. ASSUME NEW p \in alive, Die(p) PROVE TypeOK'
  BY <1>1 DEF Die
<1>2. ASSUME NEW p \in alive, Release(p) PROVE TypeOK'
  BY <1>2 DEF Release
<1>3. ASSUME NEW p \in alive, Acquire(p) PROVE TypeOK'
  BY <1>3 DEF Acquire, Create
<1>4. ASSUME NEW p \in alive, Hold(p) PROVE TypeOK'
  BY <1>4 DEF Hold, WritePayload
<1>5. ASSUME NEW p \in alive, ReadHolder(p) PROVE TypeOK'
  BY <1>5 DEF ReadHolder, Readable
<1>6. ASSUME NEW p \in alive, Probe(p) PROVE TypeOK'
  BY <1>6 DEF Probe
<1>7. ASSUME NEW p \in alive, TakeMutex(p) PROVE TypeOK'
  BY <1>7 DEF TakeMutex
<1>8. ASSUME NEW p \in alive, Reread(p) PROVE TypeOK'
  <2>1. lock.written => lock.owner \in Proc
    OBVIOUS
  <2>2. windows' \subseteq Windows
    BY <1>8 DEF Reread, Windows
  <2> QED
    BY <1>8, <2>1, <2>2 DEF Reread, Readable
<1>9. ASSUME NEW p \in alive, Reprobe(p) PROVE TypeOK'
  BY <1>9 DEF Reprobe, Windows
<1>10. ASSUME NEW p \in alive, Unlink(p) PROVE TypeOK'
  BY <1>10 DEF Unlink
<1>11. ASSUME NEW p \in alive, Recreate(p) PROVE TypeOK'
  BY <1>11 DEF Recreate, Create
<1>12. ASSUME NEW p \in alive, Rewrite(p) PROVE TypeOK'
  BY <1>12 DEF Rewrite, WritePayload
<1>13. ASSUME NEW p \in alive, DropMutex(p) PROVE TypeOK'
  BY <1>13 DEF DropMutex
<1>14. ASSUME NEW p \in alive, Unlock(p) PROVE TypeOK'
  BY <1>14 DEF Unlock
<1>15. CASE UNCHANGED vars
  BY <1>15 DEF vars
<1> QED
  BY <1>1, <1>2, <1>3, <1>4, <1>5, <1>6, <1>7, <1>8, <1>9, <1>10, <1>11, <1>12,
     <1>13, <1>14, <1>15 DEF Next, Call, Reclaim

(* What a step of p leaves alone: the others, and the history of windows.   *)
LEMMA StepOfOne ==
  ASSUME TypeOK, NEW p \in alive, Call(p) \/ Release(p) \/ Die(p)
  PROVE  /\ \A q \in Proc \ {p} : pc'[q] = pc[q]
         /\ alive' \subseteq alive /\ windows \subseteq windows'
BY DEF TypeOK, Call, Reclaim, Release, Die, Acquire, Hold, ReadHolder, Probe,
       TakeMutex, Reread, Reprobe, Unlink, Recreate, Rewrite, DropMutex, Unlock,
       Create, WritePayload, Go

(* Only the mutex's holder drops it, and it is taken only when free.        *)
LEMMA NextMutex == IInv /\ [Next]_vars => MutexInv'
<1> SUFFICES ASSUME IInv, [Next]_vars, NEW q \in alive', pc'[q] \in Stealing
             PROVE  steal' = Written(q)
  BY DEF MutexInv
<1> USE DEF IInv, Stealing
<1>1. CASE UNCHANGED vars
  BY <1>1 DEF vars, MutexInv
<1>2. ASSUME NEW p \in alive, Call(p) \/ Release(p) \/ Die(p) PROVE steal' = Written(q)
  <2>1. q \in alive /\ q \in Proc /\ p \in Proc
    BY <1>2, StepOfOne DEF TypeOK
  <2>2. CASE q # p
    <3>1. pc[q] \in Stealing /\ steal = Written(q)
      BY <1>2, <2>1, <2>2, StepOfOne DEF MutexInv
    <3>2. ~TakeMutex(p) \/ steal' = steal
      BY <2>1, <3>1, FilesDiffer DEF TakeMutex
    <3>3. ~DropMutex(p)
      BY <2>1, <2>2, <3>1, FilesDiffer DEF DropMutex, MutexInv
    <3>4. steal' = steal
      BY <1>2, <3>2, <3>3 DEF Call, Reclaim, Release, Die, Acquire, Hold,
         ReadHolder, Probe, Reread, Reprobe, Unlink, Recreate, Rewrite, Unlock,
         Create, WritePayload
    <3> QED
      BY <3>1, <3>4
  <2>3. CASE q = p
    <3> USE DEF TypeOK, Go, MutexInv
    <3>1. CASE TakeMutex(p)
      BY <2>1, <2>3, <3>1 DEF TakeMutex, Idle
    <3>2. CASE Reread(p) \/ Reprobe(p) \/ Unlink(p) \/ Recreate(p) \/ Rewrite(p)
      BY <2>1, <2>3, <3>2 DEF Reread, Reprobe, Unlink, Recreate, Rewrite,
         Create, WritePayload
    <3>3. CASE Acquire(p) \/ Hold(p) \/ ReadHolder(p) \/ Probe(p) \/ DropMutex(p)
               \/ Unlock(p) \/ Release(p) \/ Die(p)
      BY <2>1, <2>3, <3>3 DEF Acquire, Hold, ReadHolder, Probe, DropMutex,
         Unlock, Release, Die, Create, WritePayload, Idle
    <3> QED
      BY <1>2, <3>1, <3>2, <3>3 DEF Call, Reclaim
  <2> QED
    BY <2>2, <2>3
<1> QED
  BY <1>1, <1>2 DEF Next

-----------------------------------------------------------------------------
(* A process's knowledge of the lock survives a step of another that leaves *)
(* the lock alone.                                                          *)
LEMMA KeepsLock ==
  ASSUME NEW q, LockInv(q), lock' = lock, pc'[q] = pc[q], alive' \subseteq alive
  PROVE  LockInv(q)'
BY DEF LockInv, Empty, Written

(* No process knows anything of a lock that is not there.                   *)
LEMMA NobodyKnows ==
  ASSUME TypeOK, NEW q \in alive, LockInv(q), lock = NoFile
  PROVE  pc[q] \notin {"writing", "rewriting", "holding", "releasing",
                       "giveOver", "unlink"}
BY FilesDiffer DEF TypeOK, LockInv, NoFile

(* A live process's lock is known to nobody else.                           *)
LEMMA OwnedOnce ==
  ASSUME TypeOK, NEW p \in alive, NEW q \in alive, LockInv(q), q # p,
         lock = Empty(p) \/ lock = Written(p)
  PROVE  pc[q] \notin {"writing", "rewriting", "holding", "releasing",
                       "giveOver", "unlink"}
BY FilesDiffer DEF TypeOK, LockInv

LEMMA NextLock ==
  ASSUME IInv, [Next]_vars, windows' = {}, NEW q \in alive'
  PROVE  LockInv(q)'
<1> USE DEF IInv
<1>1. CASE UNCHANGED vars
  BY <1>1, KeepsLock DEF vars
<1>2. ASSUME NEW p \in alive, Call(p) \/ Release(p) \/ Die(p) PROVE LockInv(q)'
  <2>1. /\ q \in alive /\ q \in Proc /\ p \in Proc /\ windows = {}
        /\ alive' \subseteq alive /\ (q # p => pc'[q] = pc[q])
    BY <1>2, StepOfOne DEF TypeOK
  <2>2. LockInv(q) /\ LockInv(p)
    BY <2>1
  <2>3. CASE lock' = lock /\ q # p
    BY <2>1, <2>2, <2>3, KeepsLock
  <2>4. CASE Acquire(p) \/ Recreate(p)
    <3>1. CASE lock = NoFile
      <4>1. lock' = Empty(p) /\ pc'[p] \in {"writing", "rewriting"}
        BY <2>1, <2>4, <3>1 DEF Acquire, Recreate, Create, Go, TypeOK
      <4>2. q # p => pc[q] \notin {"writing", "rewriting", "holding", "releasing",
                                   "giveOver", "unlink"}
        BY <2>1, <2>2, <3>1, NobodyKnows
      <4> QED
        BY <2>1, <4>1, <4>2 DEF LockInv, Empty, Written
    <3>2. CASE lock # NoFile
      BY <2>1, <2>3, <2>4, <3>2 DEF Acquire, Recreate, Create, Go, TypeOK, LockInv
    <3> QED
      BY <3>1, <3>2
  <2>5. CASE Hold(p) \/ Rewrite(p)
    <3>1. /\ lock = Empty(p) /\ lock' = Written(p)
          /\ pc'[p] \in {"holding", "giveOver"}
      BY <2>1, <2>2, <2>5 DEF Hold, Rewrite, WritePayload, Go, TypeOK, LockInv
    <3>2. q # p => pc[q] \notin {"writing", "rewriting", "holding", "releasing",
                                 "giveOver", "unlink"}
      BY <2>1, <2>2, <3>1, OwnedOnce
    <3> QED
      BY <2>1, <3>1, <3>2 DEF LockInv, Empty, Written
  <2>6. CASE Unlink(p) \/ Unlock(p)
    <3>1. pc'[p] \in {"recreate", "idle"} /\ lock' = NoFile
      BY <2>1, <2>6 DEF Unlink, Unlock, Go, Idle, TypeOK
    <3>2. \/ lock = Written(p)
          \/ lock.written /\ lock.owner \notin alive /\ steal = Written(p)
      BY <2>1, <2>2, <2>6 DEF Unlink, Unlock, LockInv, MutexInv, Stealing
    <3>3. q # p => pc[q] \notin {"writing", "rewriting", "holding", "releasing",
                                 "giveOver", "unlink"}
      <4>1. CASE lock = Written(p)
        BY <2>1, <2>2, <4>1, OwnedOnce
      <4>2. CASE lock.written /\ lock.owner \notin alive /\ steal = Written(p)
        BY <2>1, <2>2, <4>2, FilesDiffer DEF LockInv, MutexInv, Stealing
      <4> QED
        BY <3>2, <4>1, <4>2
    <3> QED
      BY <2>1, <3>1, <3>3 DEF LockInv
  <2>7. CASE Reprobe(p) /\ q = p
    <3>1. CASE pc'[p] = "unlink"
      <4>1. Dead(p, seen[p]) /\ lock = Written(seen[p]) /\ lock' = lock /\ alive' = alive
        BY <2>1, <2>7, <3>1 DEF Reprobe, Go, TypeOK
      <4>2. lock.written /\ lock.owner \notin alive
        BY <2>1, <4>1, FilesDiffer DEF Dead, TypeOK
      <4> QED
        BY <2>7, <3>1, <4>1, <4>2 DEF LockInv
    <3>2. CASE pc'[p] = "giveUp"
      BY <2>7, <3>2 DEF LockInv
    <3> QED
      BY <2>1, <2>7, <3>1, <3>2 DEF Reprobe, Go, TypeOK
  <2>8. CASE Reread(p) /\ q = p
    BY <2>1, <2>8 DEF Reread, Go, TypeOK, LockInv
  <2>9. CASE (DropMutex(p) \/ Release(p)) /\ q = p
    BY <2>1, <2>2, <2>9 DEF DropMutex, Release, Go, Idle, TypeOK, LockInv, Written
  <2>10. CASE (ReadHolder(p) \/ Probe(p) \/ TakeMutex(p)) /\ q = p
    BY <2>1, <2>10 DEF ReadHolder, Probe, TakeMutex, Go, Idle, TypeOK, LockInv
  <2>11. CASE Die(p) /\ q = p
    BY <2>11 DEF Die
  <2>12. \/ lock' = lock
         \/ Acquire(p) \/ Recreate(p) \/ Hold(p) \/ Rewrite(p) \/ Unlink(p) \/ Unlock(p)
    BY <1>2 DEF Call, Reclaim, Release, Die, ReadHolder, Probe, TakeMutex, Reread,
       Reprobe, DropMutex
  <2> QED
    BY <1>2, <2>3, <2>4, <2>5, <2>6, <2>7, <2>8, <2>9, <2>10, <2>11, <2>12
       DEF Call, Reclaim
<1> QED
  BY <1>1, <1>2 DEF Next

LEMMA NextIInv == IInv /\ [Next]_vars => IInv'
<1> SUFFICES ASSUME IInv, [Next]_vars PROVE IInv'
  OBVIOUS
<1>1. TypeOK'
  BY NextTypes DEF IInv
<1>2. MutexInv'
  BY NextMutex
<1>3. windows' = {} => \A q \in alive' : LockInv(q)'
  BY NextLock
<1> QED
  BY <1>1, <1>2, <1>3 DEF IInv

(* What it says of the lease: typed state, one writer, its lock on disk.    *)
LEMMA LeaseOf == IInv => LeaseIsHeld
<1>1. IInv => TypeOK /\ WriterIsLocked
  BY DEF IInv, LockInv, WriterIsLocked, Writers
<1>2. IInv => OneWriter
  <2> SUFFICES ASSUME IInv, windows = {} PROVE Cardinality(Writers) <= 1
    BY DEF OneWriter
  <2>1. \A p, q \in Writers : p = q
    BY FilesDiffer DEF IInv, TypeOK, LockInv, Writers
  <2>2. CASE Writers = {}
    BY <2>2, FS_EmptySet
  <2>3. CASE Writers # {}
    <3>1. PICK p \in Writers : TRUE
      BY <2>3
    <3>2. Writers = {p}
      BY <2>1, <3>1
    <3>3. Cardinality({p}) = 1
      BY FS_Singleton
    <3> QED
      BY <3>2, <3>3
  <2> QED
    BY <2>2, <2>3
<1> QED
  BY <1>1, <1>2 DEF LeaseIsHeld

(* The inductive invariant holds of every behaviour.                        *)
THEOREM Invariance == Spec => []IInv
<1>1. Init => IInv
  BY InitIInv
<1>2. IInv /\ [Next]_vars => IInv'
  BY NextIInv
<1> QED
  BY <1>1, <1>2, PTL DEF Spec

(* The lock, the mutex and the processes keep their types: acquireLease and *)
(* releaseLock.                                                             *)
THEOREM TypeCorrect == Spec => []TypeOK
<1>1. IInv => TypeOK
  BY DEF IInv
<1> QED
  BY <1>1, Invariance, PTL

(* A writer's lock is on disk for as long as it writes: nothing acquireLease*)
(* does to reclaim a dead holder's lock removes it, outside the windows.    *)
THEOREM WriterLocked == Spec => []WriterIsLocked
<1>1. IInv => WriterIsLocked
  BY DEF IInv, LockInv, WriterIsLocked, Writers
<1> QED
  BY <1>1, Invariance, PTL

(* However many processes race to reclaim one dead holder's lock, at most   *)
(* one holds the lease, outside the windows.                                *)
THEOREM AtMostOneWriter == Spec => []OneWriter
<1>1. IInv => OneWriter
  BY LeaseOf DEF LeaseIsHeld
<1> QED
  BY <1>1, Invariance, PTL

(* The lease as a whole: typed state, one writer, its lock on disk.         *)
THEOREM LeaseHeld == Spec => []LeaseIsHeld
<1> QED
  BY LeaseOf, Invariance, PTL

-----------------------------------------------------------------------------
(* The stored log.                                                          *)

(* The lines are the first of the log's events, in their places.            *)
Tells(lines, log) ==
  /\ Len(lines) <= Len(log)
  /\ \A i \in 1..Len(lines) : lines[i] = [seq |-> i, ev |-> log[i]]

Placed == \A p \in alive : ses[p].st \in {"attaching", "mended", "open"} => pc[p] = "holding"

Story(p) ==
  /\ ses[p].st \in {"attaching", "mended"} =>
       ses[p].at = Len(file.lines) /\ Tells(file.lines, ses[p].log)
  /\ ses[p].st = "open" =>
       Len(file.lines) = Len(ses[p].log) /\ Tells(file.lines, ses[p].log)
  /\ ses[p].st \in {"mended", "open"} => ~file.torn

Whole == ~Damaged(file) /\ \A p \in alive : Story(p)

(* A log with no whole header has no lines, and nobody continues it.        *)
Headed ==
  file.head # "whole" =>
    /\ file.lines = <<>>
    /\ \A p \in Proc : ses[p].st \notin {"ready", "leasing", "attaching", "mended", "open"}

SInv == IInv /\ STypeOK /\ Headed /\ Placed /\ (windows = {} => Whole)

-----------------------------------------------------------------------------
LEMMA LinesOfFacts ==
  ASSUME NEW log \in Seq(Event), NEW n \in 0..Len(log)
  PROVE  /\ LinesOf(log, n) \in Seq(Line)
         /\ Len(LinesOf(log, n)) = Len(log) - n
         /\ \A i \in 1..(Len(log) - n) : LinesOf(log, n)[i] = [seq |-> n + i, ev |-> log[n + i]]
<1>1. \A i \in 1..(Len(log) - n) : [seq |-> n + i, ev |-> log[n + i]] \in Line
  BY DEF Line
<1>2. Len(log) - n \in Nat
  OBVIOUS
<1>3. LinesOf(log, n) \in [1..(Len(log) - n) -> Line]
  BY <1>1 DEF LinesOf
<1>4. LinesOf(log, n) \in Seq(Line) /\ Len(LinesOf(log, n)) = Len(log) - n
  BY <1>2, <1>3, SeqDef, LenProperties
<1> QED
  BY <1>4 DEF LinesOf

(* Past the end of the log there are no lines.                              *)
LEMMA LinesOfType ==
  ASSUME NEW log \in Seq(Event), NEW n \in Nat PROVE LinesOf(log, n) \in Seq(Line)
<1>1. CASE n <= Len(log)
  BY <1>1, LinesOfFacts
<1>2. CASE n > Len(log)
  <2>1. 1..(Len(log) - n) = 1..0
    BY <1>2
  <2>2. LinesOf(log, n) \in [1..0 -> Line]
    BY <2>1 DEF LinesOf
  <2> QED
    BY <2>2, SeqDef
<1> QED
  BY <1>1, <1>2

LEMMA PutFacts ==
  ASSUME NEW f \in LogFile, NEW ls \in Seq(Line)
  PROVE  /\ Put(f, ls) \in LogFile /\ Put(f, ls).head = f.head
         /\ ~f.torn => Put(f, ls).lines = f.lines \o ls /\ ~Put(f, ls).torn
<1>1. Garbled \in Line
  BY DEF Garbled, Line, Event
<1>2. CASE ls = <<>>
  BY <1>2 DEF Put, LogFile
<1>3. CASE ls # <<>>
  <2>1. <<Garbled>> \o Tail(ls) \in Seq(Line)
    BY <1>1, <1>3
  <2> QED
    BY <1>3, <2>1 DEF Put, LogFile
<1> QED
  BY <1>2, <1>3

LEMMA CutFacts ==
  ASSUME NEW f \in LogFile, NEW ls \in Seq(Line), NEW g \in Cut(f, ls)
  PROVE  /\ g \in LogFile /\ g.head = f.head
         /\ ~f.torn => \E k \in 0..Len(ls) : g.lines = f.lines \o SubSeq(ls, 1, k)
<1>1. PICK k \in 0..Len(ls) : LET h == Put(f, SubSeq(ls, 1, k)) IN g \in {h, Short(h)}
  BY DEF Cut
<1> DEFINE h == Put(f, SubSeq(ls, 1, k))
<1>2. SubSeq(ls, 1, k) \in Seq(Line)
  BY SubSeqProperties
<1>3. h \in LogFile /\ h.head = f.head /\ (~f.torn => h.lines = f.lines \o SubSeq(ls, 1, k))
  BY <1>2, PutFacts
<1> HIDE DEF h
<1>4. g \in LogFile /\ g.lines = h.lines /\ g.head = h.head
  BY <1>1, <1>3 DEF LogFile, Short, h
<1> QED
  BY <1>3, <1>4

LEMMA TellsOn ==
  ASSUME NEW lines \in Seq(Line), NEW log \in Seq(Event), Tells(lines, log),
         NEW k \in 0..(Len(log) - Len(lines))
  PROVE  LET more == lines \o SubSeq(LinesOf(log, Len(lines)), 1, k)
         IN Tells(more, log) /\ Len(more) = Len(lines) + k
<1> DEFINE n == Len(lines)
           ls == LinesOf(log, n)
           cut == SubSeq(ls, 1, k)
<1>1. n \in 0..Len(log)
  BY DEF Tells
<1>2. ls \in Seq(Line) /\ Len(ls) = Len(log) - n
      /\ \A i \in 1..(Len(log) - n) : ls[i] = [seq |-> n + i, ev |-> log[n + i]]
  BY <1>1, LinesOfFacts
<1>3. cut \in Seq(Line) /\ Len(cut) = k /\ \A i \in 1..k : cut[i] = ls[i]
  <2> HIDE DEF ls
  <2>1. k \in 0..Len(ls)
    BY <1>2
  <2> QED
    BY <1>2, <2>1, SubSeqProperties
<1> HIDE DEF cut, ls
<1>4. Len(lines \o cut) = n + k
  BY <1>3
<1>5. ASSUME NEW i \in 1..(n + k)
      PROVE  (lines \o cut)[i] = [seq |-> i, ev |-> log[i]]
  <2>1. CASE i <= n
    <3>1. (lines \o cut)[i] = lines[i] /\ i \in 1..Len(lines)
      BY <1>1, <1>3, <2>1
    <3> QED
      BY <3>1 DEF Tells
  <2>2. CASE i > n
    <3>1. (lines \o cut)[i] = cut[i - n] /\ i - n \in 1..k
      BY <1>3, <2>2
    <3>2. \A j \in 1..k : cut[j] = [seq |-> n + j, ev |-> log[n + j]]
      <4>1. k <= Len(log) - n /\ k \in Nat
        BY <1>1
      <4>2. \A j \in 1..k : j \in 1..(Len(log) - n)
        BY <1>1, <4>1
      <4> QED
        BY <1>2, <1>3, <4>2
    <3>3. n + (i - n) = i
      BY <1>1
    <3> QED
      BY <3>1, <3>2, <3>3
  <2>3. i <= n \/ i > n
    BY <1>1
  <2> QED
    BY <2>1, <2>2, <2>3
<1>6. n + k <= Len(log)
  BY <1>1
<1> QED
  BY <1>4, <1>5, <1>6 DEF Tells, cut, ls

-----------------------------------------------------------------------------
(* A log that tells a session's events so far is undamaged.                 *)
LEMMA ToldIsSound ==
  ASSUME NEW f \in LogFile, NEW log \in Seq(Event), Tells(f.lines, log) PROVE ~Damaged(f)
<1> SUFFICES ASSUME NEW i \in DOMAIN f.lines PROVE f.lines[i].seq = i
  BY DEF Damaged
<1>1. i \in 1..Len(f.lines)
  BY LenProperties DEF LogFile
<1>2. f.lines[i] = [seq |-> i, ev |-> log[i]]
  BY <1>1 DEF Tells
<1> QED
  BY <1>2

(* What attach compares is what it relies on.                               *)
LEMMA ContinuesTells ==
  ASSUME STypeOK, NEW p \in Proc, Continues(p) PROVE Tells(file.lines, ses[p].log)
<1> DEFINE lines == file.lines
           log == ses[p].log
<1>1. lines \in Seq(Line) /\ log \in Seq(Event)
  BY DEF STypeOK, LogFile, Sessions
<1>2. lines \in [1..Len(lines) -> Line] /\ Len(lines) \in Nat /\ DOMAIN lines = 1..Len(lines)
  BY <1>1, LenProperties
<1>3. \A i \in 1..Len(lines) : lines[i].seq = i
  BY <1>2 DEF Continues, Damaged
<1>4. Stored(file) \in [1..Len(lines) -> Event]
  BY <1>2 DEF Stored, Line
<1>5. Stored(file) \in Seq(Event) /\ Len(Stored(file)) = Len(lines)
  BY <1>2, <1>4, SeqDef, LenProperties
<1>6. Len(lines) <= Len(log) /\ SubSeq(Stored(file), 1, Len(lines)) = SubSeq(log, 1, Len(lines))
  BY <1>5 DEF Continues, IsPrefix
<1>7. \A i \in 1..Len(lines) : Stored(file)[i] = log[i]
  <2>1. SubSeq(Stored(file), 1, Len(lines)) = Stored(file)
    BY <1>5, SubSeqFull
  <2>2. \A i \in 1..Len(lines) : SubSeq(log, 1, Len(lines))[i] = log[i]
    <3>1. \A i \in 1..Len(lines) : i \in 1..Len(log) /\ log[i] \in Event
      BY <1>1, <1>2, <1>6, LenProperties
    <3> QED
      BY <1>2, <3>1, SubSeqProperties
  <2> QED
    BY <1>6, <2>1, <2>2
<1>8. \A i \in 1..Len(lines) : lines[i] = [seq |-> i, ev |-> log[i]]
  <2> SUFFICES ASSUME NEW i \in 1..Len(lines) PROVE lines[i] = [seq |-> i, ev |-> log[i]]
    OBVIOUS
  <2>1. lines[i] \in [seq : Nat, ev : Event] /\ lines[i].ev = log[i] /\ lines[i].seq = i
    BY <1>2, <1>3, <1>7 DEF Stored, Line
  <2> QED
    BY <2>1
<1> QED
  BY <1>6, <1>8 DEF Tells

(* A whole write is one of the ways a write may end.                        *)
LEMMA PutIsCut ==
  ASSUME NEW f, NEW ls \in Seq(Line) PROVE Put(f, ls) \in Cut(f, ls)
<1>1. SubSeq(ls, 1, Len(ls)) = ls /\ Len(ls) \in 0..Len(ls)
  BY SubSeqFull
<1> QED
  BY <1>1 DEF Cut

-----------------------------------------------------------------------------
(* What becomes of p's session, and of no other.                            *)
LEMMA SetFacts ==
  ASSUME STypeOK, NEW p \in Proc, NEW new \in Sessions, ses' = [ses EXCEPT ![p] = new]
  PROVE  ses' \in [Proc -> Sessions] /\ (\A q \in Proc \ {p} : ses'[q] = ses[q])
         /\ ses'[p] = new
BY DEF STypeOK

LEMMA BecomesFacts ==
  ASSUME STypeOK, NEW p \in Proc, NEW st \in States, Becomes(p, st)
  PROVE  /\ ses' \in [Proc -> Sessions] /\ \A q \in Proc \ {p} : ses'[q] = ses[q]
         /\ ses'[p].st = st /\ ses'[p].log = ses[p].log /\ ses'[p].at = ses[p].at
<1> DEFINE new == [st |-> st, log |-> ses[p].log, start |-> ses[p].start, at |-> ses[p].at]
<1>1. new \in Sessions
  BY DEF STypeOK, Sessions
<1>2. ses' = [ses EXCEPT ![p] = new]
  BY DEF Becomes, Sets
<1>3. new.st = st /\ new.log = ses[p].log /\ new.at = ses[p].at
  OBVIOUS
<1> HIDE DEF new
<1> QED
  BY <1>1, <1>2, <1>3, SetFacts

LEMMA ForgetsFacts ==
  ASSUME STypeOK, NEW p \in Proc, NEW st \in States, Forgets(p, st)
  PROVE  ses' \in [Proc -> Sessions] /\ (\A q \in Proc \ {p} : ses'[q] = ses[q])
         /\ ses'[p].st = st
<1> DEFINE new == [st |-> st, log |-> <<>>, start |-> 0, at |-> 0]
<1>1. new \in Sessions
  BY DEF Sessions
<1>2. ses' = [ses EXCEPT ![p] = new]
  BY DEF Forgets, Sets
<1>3. new.st = st
  OBVIOUS
<1> HIDE DEF new
<1> QED
  BY <1>1, <1>2, <1>3, SetFacts

LEMMA OpensFacts ==
  ASSUME STypeOK, NEW p \in Proc, NEW log \in Seq(Event), Opens(p, log)
  PROVE  /\ ses' \in [Proc -> Sessions] /\ \A q \in Proc \ {p} : ses'[q] = ses[q]
         /\ ses'[p].st = "open" /\ ses'[p].log = log
BY DEF STypeOK, Opens, Sets, Sessions, States

(* A step is of one process's session.                                      *)
LEMMA StepKeepsOthers ==
  ASSUME STypeOK, NEW p \in Proc, Resumes(p) \/ Lives(p) \/ Fails(p)
  PROVE  \A q \in Proc \ {p} : ses'[q] = ses[q]
BY DEF Resumes, Lives, Fails, Begin, Load, Publish, LeaseStep, Inspect, Mend, Extend, Dispose,
       Record, Materialize, RecordUnstored, Give, SidecarFails, ExtendFails, RecordFails,
       SyncFails, MaterializeFails, Dies, Sets, Becomes, Forgets, Opens, STypeOK

(* What a step of the log is for the lease, and for the others' sessions.   *)
LEMMA StepsOfOne ==
  ASSUME IInv, STypeOK, NEW p \in Proc, Resumes(p) \/ Lives(p) \/ Fails(p)
  PROVE  /\ p \in alive /\ [Next]_vars
         /\ alive' \subseteq alive /\ windows \subseteq windows'
         /\ \A q \in Proc \ {p} : pc'[q] = pc[q] /\ ses'[q] = ses[q]
<1>1. p \in alive
  BY DEF Resumes, Lives, Fails, Begin, Load, Publish, LeaseStep, Inspect, Mend, Extend, Dispose,
     Record, Materialize, RecordUnstored, Give, SidecarFails, ExtendFails, RecordFails, SyncFails,
     MaterializeFails, Dies, At
<1>2. UNCHANGED vars \/ Call(p) \/ Release(p) \/ Die(p)
  BY DEF Resumes, Lives, Fails, Begin, Load, Publish, LeaseStep, Inspect, Mend, Extend, Dispose,
     Record, Materialize, RecordUnstored, Give, SidecarFails, ExtendFails, RecordFails, SyncFails,
     MaterializeFails, Dies, Call
<1>3. \A q \in Proc \ {p} : ses'[q] = ses[q]
  BY StepKeepsOthers
<1>4. CASE UNCHANGED vars
  BY <1>1, <1>3, <1>4 DEF vars
<1>5. CASE Call(p) \/ Release(p) \/ Die(p)
  BY <1>1, <1>3, <1>5, StepOfOne DEF Next, IInv
<1> QED
  BY <1>2, <1>4, <1>5

-----------------------------------------------------------------------------
(* A log grows at its end.                                                  *)
LEMMA PrefixOfGrown ==
  ASSUME NEW s \in Seq(Line), NEW t \in Seq(Line)
  PROVE  IsPrefix(s, s \o t) /\ IsPrefix(s, s) /\ IsPrefix(<<>>, s)
<1>1. Len(s) \in Nat /\ Len(s \o t) = Len(s) + Len(t) /\ Len(t) \in Nat
  OBVIOUS
<1>2. SubSeq(s, 1, Len(s)) = s
  BY SubSeqFull
<1>3. SubSeq(s \o t, 1, Len(s)) = s
  <2>1. \A i \in 1..Len(s) : (s \o t)[i] = s[i] /\ s[i] \in Line
    BY <1>1, ConcatProperties, LenProperties
  <2>2. /\ SubSeq(s \o t, 1, Len(s)) \in Seq(Line)
        /\ Len(SubSeq(s \o t, 1, Len(s))) = Len(s)
        /\ \A i \in 1..Len(s) : SubSeq(s \o t, 1, Len(s))[i] = s[i]
    BY <1>1, <2>1, SubSeqProperties
  <2> QED
    BY <2>2, SeqEqual
<1>4. SubSeq(<<>>, 1, 0) = SubSeq(s, 1, 0)
  <2>1. \A u : SubSeq(u, 1, 0) \in Seq(Line) /\ Len(SubSeq(u, 1, 0)) = 0
    BY SubSeqProperties
  <2> QED
    BY <2>1, SeqEqual
<1> QED
  BY <1>1, <1>2, <1>3, <1>4 DEF IsPrefix

(* A log that ends in no fragment and tells the log so far goes on to tell  *)
(* it however a write of the rest ends, and tells all of it when it is whole.*)
LEMMA WriteTells ==
  ASSUME NEW f \in LogFile, ~f.torn, NEW log \in Seq(Event), Tells(f.lines, log)
  PROVE  LET ls == LinesOf(log, Len(f.lines)) IN
         /\ \A g \in Cut(f, ls) : Tells(g.lines, log) /\ IsPrefix(f.lines, g.lines)
         /\ Tells(Put(f, ls).lines, log) /\ Len(Put(f, ls).lines) = Len(log) /\ ~Put(f, ls).torn
<1> DEFINE lines == f.lines
           n == Len(lines)
           ls == LinesOf(log, n)
<1>1. lines \in Seq(Line) /\ n \in 0..Len(log)
  BY DEF Tells, LogFile
<1>2. ls \in Seq(Line) /\ Len(ls) = Len(log) - n
  BY <1>1, LinesOfFacts
<1>3. ASSUME NEW k \in 0..Len(ls)
      PROVE  LET more == lines \o SubSeq(ls, 1, k) IN
             Tells(more, log) /\ Len(more) = n + k /\ IsPrefix(lines, more)
  <2>1. k \in 0..(Len(log) - n)
    BY <1>2, <1>3
  <2>2. Tells(lines \o SubSeq(ls, 1, k), log) /\ Len(lines \o SubSeq(ls, 1, k)) = n + k
    BY <1>1, <2>1, TellsOn
  <2>3. SubSeq(ls, 1, k) \in Seq(Line)
    <3> HIDE DEF ls
    <3> QED
      BY <1>2, <1>3, SubSeqProperties
  <2> QED
    BY <1>1, <2>2, <2>3, PrefixOfGrown
<1> HIDE DEF ls
<1>4. ASSUME NEW g \in Cut(f, ls) PROVE Tells(g.lines, log) /\ IsPrefix(f.lines, g.lines)
  BY <1>2, <1>3, <1>4, CutFacts
<1>5. Put(f, ls).lines = lines \o ls /\ ~Put(f, ls).torn
  BY <1>2, PutFacts
<1>6. SubSeq(ls, 1, Len(ls)) = ls /\ Len(ls) \in 0..Len(ls) /\ n + Len(ls) = Len(log)
  BY <1>1, <1>2, SubSeqFull
<1> QED
  BY <1>3, <1>4, <1>5, <1>6 DEF ls

-----------------------------------------------------------------------------
LEMMA FileTypesOf ==
  ASSUME STypeOK, NEW p \in Proc
  PROVE  /\ Grown(p) \in Seq(Event) /\ Delta(p) \in Seq(Line) /\ Own(p) \in Seq(Line)
         /\ All(p) \in Seq(Line)
         /\ Headless \in LogFile /\ Bare \in LogFile /\ Truncated(file, ses[p].at) \in LogFile
<1>1. ses[p].log \in Seq(Event) /\ ses[p].at \in Nat /\ file.lines \in Seq(Line)
  BY DEF STypeOK, LogFile, Sessions
<1>2. Grown(p) \in Seq(Event)
  BY <1>1 DEF Grown, Event
<1>3. Delta(p) \in Seq(Line) /\ Own(p) \in Seq(Line) /\ All(p) \in Seq(Line)
  <2>1. Len(ses[p].log) \in Nat /\ 0 \in Nat
    BY <1>1, LenProperties
  <2> QED
    BY <1>1, <1>2, <2>1, LinesOfType DEF Delta, Own, All
<1>4. Headless \in LogFile /\ Bare \in LogFile
  BY DEF Headless, Bare, LogFile
<1>5. Truncated(file, ses[p].at) \in LogFile
  <2> DEFINE n == ses[p].at
  <2>1. CASE n > Len(file.lines)
    BY <1>1, <2>1 DEF STypeOK, Truncated, Short, LogFile
  <2>2. CASE ~(n > Len(file.lines))
    <3>1. \A i \in 1..n : file.lines[i] \in Line
      BY <1>1, <2>2, LenProperties
    <3>2. SubSeq(file.lines, 1, n) \in Seq(Line)
      BY <1>1, <3>1, SubSeqProperties
    <3> QED
      BY <2>2, <3>2 DEF STypeOK, Truncated, LogFile
  <2> QED
    BY <2>1, <2>2
<1> QED
  BY <1>2, <1>3, <1>4, <1>5

(* What a step of p does to the log.                                        *)
LEMMA FileStep ==
  ASSUME STypeOK, NEW p \in Proc, Resumes(p) \/ Lives(p) \/ Fails(p)
  PROVE  \/ file' = file
         \/ At(p, "attaching") /\ file' = Truncated(file, ses[p].at)
         \/ At(p, "mended") /\ file' \in Cut(file, Delta(p))
         \/ At(p, "open") /\ file' \in Cut(file, Own(p))
         \/ At(p, "pending") /\ file.head = "none" /\ file' \in Snapshots(p)
<1>1. CASE Mend(p)
  BY <1>1 DEF Mend
<1>2. CASE Extend(p) \/ Record(p) \/ Materialize(p)
  BY <1>2, PutIsCut, FileTypesOf DEF Extend, Record, Materialize, Snapshots
<1>3. CASE ExtendFails(p) \/ RecordFails(p) \/ MaterializeFails(p)
  BY <1>3 DEF ExtendFails, RecordFails, MaterializeFails
<1>4. CASE Dies(p)
  BY <1>4 DEF Dies, LeftBy
<1>5. CASE Begin(p) \/ Load(p) \/ Publish(p) \/ LeaseStep(p) \/ Inspect(p) \/ Dispose(p)
           \/ RecordUnstored(p) \/ Give(p) \/ SidecarFails(p) \/ SyncFails(p)
  BY <1>5 DEF Begin, Load, Publish, LeaseStep, Inspect, Dispose, RecordUnstored, Give,
     SidecarFails, SyncFails
<1> QED
  BY <1>1, <1>2, <1>3, <1>4, <1>5 DEF Resumes, Lives, Fails

LEMMA FileStepType ==
  ASSUME STypeOK, NEW p \in Proc, Resumes(p) \/ Lives(p) \/ Fails(p) PROVE file' \in LogFile
<1>1. file \in LogFile
  BY DEF STypeOK
<1>2. \A g \in Snapshots(p) : g \in LogFile
  BY FileTypesOf, CutFacts DEF Snapshots
<1> QED
  BY <1>1, <1>2, FileStep, FileTypesOf, CutFacts

LEMMA SessionStepType ==
  ASSUME STypeOK, NEW p \in Proc, Resumes(p) \/ Lives(p) \/ Fails(p)
  PROVE  ses' \in [Proc -> Sessions]
<1>1. file.lines \in Seq(Line) /\ Len(file.lines) \in Nat /\ ses \in [Proc -> Sessions]
      /\ ses[p].log \in Seq(Event) /\ ses[p].start \in Nat
  BY DEF STypeOK, LogFile, Sessions
<1>2. \A st \in States : Becomes(p, st) \/ Forgets(p, st) => ses' \in [Proc -> Sessions]
  BY BecomesFacts, ForgetsFacts
<1>3. CASE Begin(p) \/ Publish(p) \/ Dispose(p) \/ Give(p) \/ SidecarFails(p) \/ SyncFails(p)
           \/ Mend(p) \/ ExtendFails(p) \/ RecordFails(p) \/ MaterializeFails(p) \/ Dies(p)
  BY <1>2, <1>3 DEF Begin, Publish, Dispose, Give, SidecarFails, SyncFails, Mend, ExtendFails,
     RecordFails, MaterializeFails, Dies, States
<1>4. CASE Extend(p) \/ Record(p) \/ Materialize(p)
  BY <1>1, <1>4, FileTypesOf, OpensFacts DEF Extend, Record, Materialize
<1>5. CASE LeaseStep(p)
  BY <1>1, <1>5 DEF LeaseStep
<1>6. CASE RecordUnstored(p)
  BY <1>1, <1>6, FileTypesOf DEF RecordUnstored, Sets, Sessions, States
<1>7. CASE Inspect(p)
  <2>1. CASE Continues(p)
    <3> DEFINE new == [st |-> IF file.torn THEN "attaching" ELSE "mended", log |-> ses[p].log,
                       start |-> ses[p].start, at |-> Len(file.lines)]
    <3>1. new \in Sessions /\ ses' = [ses EXCEPT ![p] = new]
      BY <1>1, <1>7, <2>1 DEF Inspect, Sets, Sessions, States
    <3> QED
      BY <1>1, <3>1
  <2>2. CASE ~Continues(p)
    BY <1>2, <1>7, <2>2 DEF Inspect, States
  <2> QED
    BY <2>1, <2>2
<1>8. CASE Load(p)
  <2>1. PICK closers \in {<<>>, <<Closer>>, <<p>>}, setup \in {<<>>, <<p>>} :
          LET seed == Stored(file) \o closers IN
          /\ Len(seed \o setup) <= MaxEvents
          /\ Sets(p, "ready", seed \o setup, Len(seed), 0)
    BY <1>8 DEF Load
  <2> DEFINE seed == Stored(file) \o closers
  <2>2. closers \in Seq(Event) /\ setup \in Seq(Event)
    <3>1. p \in Event /\ Closer \in Event
      BY DEF Event
    <3>2. <<>> \in Seq(Event) /\ <<Closer>> \in Seq(Event) /\ <<p>> \in Seq(Event)
      BY <3>1
    <3> QED
      BY <3>2
  <2>3. Stored(file) \in Seq(Event)
    <3>1. DOMAIN file.lines = 1..Len(file.lines) /\ file.lines \in [1..Len(file.lines) -> Line]
      BY <1>1, LenProperties
    <3>2. Stored(file) \in [1..Len(file.lines) -> Event]
      BY <3>1 DEF Stored, Line
    <3> QED
      BY <1>1, <3>2, SeqDef
  <2>4. seed \in Seq(Event) /\ Len(seed) \in Nat
    BY <2>2, <2>3
  <2> HIDE DEF seed
  <2> DEFINE new == [st |-> "ready", log |-> seed \o setup, start |-> Len(seed), at |-> 0]
  <2>5. new \in Sessions
    BY <2>2, <2>4 DEF Sessions, States
  <2>6. ses' = [ses EXCEPT ![p] = new]
    BY <2>1 DEF Sets, seed
  <2> QED
    BY <1>1, <2>5, <2>6
<1> QED
  BY <1>3, <1>4, <1>5, <1>6, <1>7, <1>8 DEF Resumes, Lives, Fails

LEMMA StepTypes ==
  ASSUME STypeOK, NEW p \in Proc, Resumes(p) \/ Lives(p) \/ Fails(p) PROVE STypeOK'
BY FileStepType, SessionStepType DEF STypeOK

-----------------------------------------------------------------------------
LEMMA StepHeaded ==
  ASSUME STypeOK, Headed, NEW p \in Proc, Resumes(p) \/ Lives(p) \/ Fails(p) PROVE Headed'
<1> DEFINE Continued == {"ready", "leasing", "attaching", "mended", "open"}
<1> SUFFICES ASSUME file'.head # "whole"
             PROVE  file'.lines = <<>> /\ \A q \in Proc : ses'[q].st \notin Continued
  BY DEF Headed
<1>1. file \in LogFile /\ \A q \in Proc : ses[q] \in Sessions
  BY DEF STypeOK
<1>2. \A g \in Cut(file, Delta(p)) \union Cut(file, Own(p)) : g.head = file.head
  BY <1>1, FileTypesOf, CutFacts
<1>3. \A g \in Cut(Bare, All(p)) : g.head = "whole"
  BY FileTypesOf, CutFacts DEF Bare
<1>4. Truncated(file, ses[p].at).head = file.head
  BY <1>1 DEF Truncated, Short, LogFile
<1>5. file.head # "whole"
  BY <1>2, <1>4, FileStep DEF Headless
<1>6. file.lines = <<>> /\ \A q \in Proc : ses[q].st \notin Continued
  BY <1>5 DEF Headed
<1>7. file'.lines = <<>>
  <2>1. file' = file \/ file' = Headless
    BY <1>3, <1>6, FileStep DEF At, Snapshots
  <2> QED
    BY <1>6, <2>1 DEF Headless
<1>8. ses'[p].st \notin Continued
  <2>1. ~Load(p) /\ ~Publish(p) /\ ~Inspect(p) /\ ~Mend(p) /\ ~Extend(p) /\ ~Record(p)
    BY <1>5, <1>6 DEF Load, Publish, Inspect, Mend, Extend, Record, At
  <2>2. ~Materialize(p)
    BY <1>3, FileTypesOf, PutIsCut DEF Materialize
  <2>3. CASE LeaseStep(p)
    BY <1>6, <2>3 DEF LeaseStep
  <2>4. CASE RecordUnstored(p)
    BY <2>4 DEF RecordUnstored, Sets, STypeOK
  <2>5. CASE Begin(p)
    BY <2>5, BecomesFacts DEF Begin, States
  <2>6. CASE Dispose(p) \/ Give(p) \/ Fails(p)
    BY <2>6, ForgetsFacts DEF Dispose, Give, Fails, SidecarFails, ExtendFails, RecordFails,
       SyncFails, MaterializeFails, Dies, States
  <2> QED
    BY <2>1, <2>2, <2>3, <2>4, <2>5, <2>6 DEF Resumes, Lives
<1>9. \A q \in Proc \ {p} : ses'[q] = ses[q]
  BY StepKeepsOthers
<1> QED
  BY <1>6, <1>7, <1>8, <1>9

(* Whoever holds the lease is alone with the log.                           *)
LEMMA OnlyHolder ==
  ASSUME SInv, windows = {}, NEW p \in alive, pc[p] = "holding", NEW q \in alive, q # p
  PROVE  ses[q].st \notin {"attaching", "mended", "open"}
BY FilesDiffer DEF SInv, Placed, IInv, TypeOK, LockInv

LEMMA NothingTold == ASSUME NEW log \in Seq(Event) PROVE Tells(<<>>, log)
<1>1. Len(log) \in Nat
  OBVIOUS
<1> QED
  BY <1>1 DEF Tells

LEMMA TellsGrown ==
  ASSUME NEW p \in Proc, ses[p].log \in Seq(Event), NEW lines \in Seq(Line),
         Tells(lines, ses[p].log)
  PROVE  Tells(lines, Grown(p))
<1> DEFINE log == ses[p].log
<1>1. p \in Event
  BY DEF Event
<1>2. Len(Grown(p)) = Len(log) + 1 /\ \A i \in 1..Len(log) : Grown(p)[i] = log[i]
  BY <1>1 DEF Grown
<1>3. \A i \in 1..Len(lines) : i \in 1..Len(log)
  BY DEF Tells
<1> QED
  BY <1>2, <1>3 DEF Tells

LEMMA CutHere ==
  ASSUME NEW f \in LogFile, NEW n, n = Len(f.lines)
  PROVE  Truncated(f, n).lines = f.lines /\ ~Truncated(f, n).torn
<1>1. f.lines \in Seq(Line) /\ n \in Nat /\ ~(n > Len(f.lines))
  BY DEF LogFile
<1>2. SubSeq(f.lines, 1, n) = f.lines
  BY <1>1, SubSeqFull
<1> QED
  BY <1>1, <1>2 DEF Truncated

(* Outside the windows a step leaves the log alone or is of the holder, and *)
(* either way the log stays sound and takes no line back.                   *)
LEMMA StepGrows ==
  ASSUME SInv, windows = {}, NEW p \in Proc, Resumes(p) \/ Lives(p) \/ Fails(p)
  PROVE  /\ file' = file \/ (p \in alive /\ pc[p] = "holding")
         /\ ~Damaged(file') /\ IsPrefix(file.lines, file'.lines)
<1>1. /\ STypeOK /\ Headed /\ ~Damaged(file) /\ file \in LogFile /\ file.lines \in Seq(Line)
      /\ ses[p].log \in Seq(Event) /\ p \in Event /\ Grown(p) \in Seq(Event)
  BY FileTypesOf DEF SInv, STypeOK, LogFile, Sessions, Whole, Event
<1>2. p \in alive => Story(p)
  BY DEF SInv, Whole
<1>3. CASE file' = file
  <2>1. IsPrefix(file.lines, file.lines)
    BY <1>1, PrefixOfGrown
  <2> QED
    BY <1>1, <1>3, <2>1
<1>4. CASE At(p, "attaching") /\ file' = Truncated(file, ses[p].at)
  <2>1. ses[p].at = Len(file.lines) /\ Tells(file.lines, ses[p].log)
    BY <1>2, <1>4 DEF At, Story
  <2>2. file'.lines = file.lines
    BY <1>1, <1>4, <2>1, CutHere
  <2>3. file' \in LogFile
    BY <1>1, <1>4, FileTypesOf
  <2>4. ~Damaged(file')
    BY <1>1, <2>1, <2>2, <2>3, ToldIsSound
  <2> QED
    BY <1>1, <1>4, <2>2, <2>4, PrefixOfGrown DEF At
<1>5. CASE At(p, "mended") /\ file' \in Cut(file, Delta(p))
  <2>1. ses[p].at = Len(file.lines) /\ Tells(file.lines, ses[p].log) /\ ~file.torn
    BY <1>2, <1>5 DEF At, Story
  <2>2. Tells(file'.lines, ses[p].log) /\ IsPrefix(file.lines, file'.lines)
    BY <1>1, <1>5, <2>1, WriteTells DEF Delta
  <2>3. file' \in LogFile
    BY <1>1, <1>5, FileTypesOf, CutFacts
  <2> QED
    BY <1>1, <1>5, <2>2, <2>3, ToldIsSound DEF At
<1>6. CASE At(p, "open") /\ file' \in Cut(file, Own(p))
  <2>1. Len(file.lines) = Len(ses[p].log) /\ Tells(file.lines, Grown(p)) /\ ~file.torn
    BY <1>1, <1>2, <1>6, TellsGrown DEF At, Story
  <2>2. Tells(file'.lines, Grown(p)) /\ IsPrefix(file.lines, file'.lines)
    BY <1>1, <1>6, <2>1, WriteTells DEF Own
  <2>3. file' \in LogFile
    BY <1>1, <1>6, FileTypesOf, CutFacts
  <2> QED
    BY <1>1, <1>6, <2>2, <2>3, ToldIsSound DEF At
<1>7. CASE At(p, "pending") /\ file.head = "none" /\ file' \in Snapshots(p)
  <2>1. file.lines = <<>>
    BY <1>1, <1>7 DEF Headed
  <2>2. file' \in LogFile /\ Tells(file'.lines, Grown(p))
    <3>1. CASE file' = Headless
      BY <1>1, <3>1, FileTypesOf, NothingTold DEF Headless
    <3>2. CASE file' \in Cut(Bare, All(p))
      <4>1. Bare \in LogFile /\ ~Bare.torn /\ Bare.lines = <<>> /\ Len(Bare.lines) = 0
        BY <1>1, FileTypesOf DEF Bare
      <4>2. Tells(Bare.lines, Grown(p))
        BY <1>1, <4>1, NothingTold
      <4> QED
        BY <1>1, <3>2, <4>1, <4>2, FileTypesOf, CutFacts, WriteTells DEF All
    <3> QED
      BY <1>7, <3>1, <3>2 DEF Snapshots
  <2>3. file'.lines \in Seq(Line)
    BY <2>2 DEF LogFile
  <2> QED
    BY <1>1, <1>7, <2>1, <2>2, <2>3, ToldIsSound, PrefixOfGrown DEF At
<1> QED
  BY <1>1, <1>3, <1>4, <1>5, <1>6, <1>7, FileStep

(* Every session that attaches, has mended or is open holds the lease.      *)
LEMMA StepPlaced ==
  ASSUME SInv, NEW p \in Proc, Resumes(p) \/ Lives(p) \/ Fails(p) PROVE Placed'
<1> DEFINE Writing == {"attaching", "mended", "open"}
<1>1. /\ STypeOK /\ alive' \subseteq alive
      /\ \A q \in Proc \ {p} : pc'[q] = pc[q] /\ ses'[q] = ses[q]
  BY StepsOfOne DEF SInv
<1>2. p \in alive' /\ ses'[p].st \in Writing => pc'[p] = "holding"
  <2>1. CASE LeaseStep(p)
    <3>1. p \in alive /\ pc[p] # "holding" /\ ses' = ses
      BY <2>1 DEF LeaseStep, Hold, WritePayload, ReadHolder, Probe, Reclaim, TakeMutex, Reread,
         Reprobe, Unlink, Recreate, Create, Rewrite, DropMutex, Unlock
    <3> QED
      BY <3>1 DEF SInv, Placed
  <2>2. CASE Begin(p) \/ Publish(p) \/ Load(p) \/ RecordUnstored(p)
    BY <1>1, <2>2 DEF Begin, Publish, Load, RecordUnstored, Becomes, Sets, STypeOK
  <2>3. CASE Dispose(p) \/ Give(p) \/ SidecarFails(p) \/ ExtendFails(p) \/ RecordFails(p)
             \/ SyncFails(p) \/ MaterializeFails(p) \/ Dies(p)
    BY <1>1, <2>3, ForgetsFacts DEF Dispose, Give, SidecarFails, ExtendFails, RecordFails,
       SyncFails, MaterializeFails, Dies, States
  <2>4. CASE Inspect(p) \/ Mend(p) \/ Extend(p) \/ Record(p) \/ Materialize(p)
    BY <2>4 DEF Inspect, Mend, Extend, Record, Materialize, At, vars
  <2> QED
    BY <2>1, <2>2, <2>3, <2>4 DEF Resumes, Lives, Fails
<1> QED
  BY <1>1, <1>2 DEF Placed, SInv, IInv, TypeOK

LEMMA StepWhole ==
  ASSUME SInv, NEW p \in Proc, Resumes(p) \/ Lives(p) \/ Fails(p), windows' = {} PROVE Whole'
<1>1. /\ IInv /\ STypeOK /\ windows = {} /\ p \in alive /\ alive' \subseteq alive
      /\ alive \subseteq Proc /\ \A q \in Proc \ {p} : pc'[q] = pc[q] /\ ses'[q] = ses[q]
  BY StepsOfOne DEF SInv, IInv, TypeOK
<1>2. Whole /\ file \in LogFile /\ file.lines \in Seq(Line)
      /\ ses[p].log \in Seq(Event) /\ Grown(p) \in Seq(Event)
  BY <1>1, FileTypesOf DEF SInv, STypeOK, LogFile, Sessions
<1>3. ~Damaged(file')
  BY <1>1, StepGrows
<1>4. ASSUME NEW q \in alive', q # p PROVE Story(q)'
  <2>1. Story(q) /\ q \in alive /\ ses'[q] = ses[q]
    BY <1>1, <1>2, <1>4 DEF Whole
  <2>2. CASE file' = file
    BY <2>1, <2>2 DEF Story
  <2>3. CASE pc[p] = "holding"
    BY <1>1, <1>4, <2>1, <2>3, OnlyHolder DEF Story
  <2> QED
    BY <1>1, <2>2, <2>3, StepGrows
<1>5. p \in alive' => Story(p)'
  <2>1. Story(p)
    BY <1>1, <1>2 DEF Whole
  <2>2. CASE LeaseStep(p)
    BY <2>1, <2>2 DEF LeaseStep, Story
  <2>3. CASE Begin(p) \/ Publish(p) \/ Load(p) \/ RecordUnstored(p)
    <3>1. ses'[p].st \notin {"attaching", "mended", "open"}
      BY <1>1, <2>3 DEF Begin, Publish, Load, RecordUnstored, Becomes, Sets, STypeOK
    <3> QED
      BY <3>1 DEF Story
  <2>4. CASE Dispose(p) \/ Give(p) \/ SidecarFails(p) \/ ExtendFails(p) \/ RecordFails(p)
             \/ SyncFails(p) \/ MaterializeFails(p) \/ Dies(p)
    <3>1. ses'[p].st \notin {"attaching", "mended", "open"}
      BY <1>1, <2>4, ForgetsFacts DEF Dispose, Give, SidecarFails, ExtendFails, RecordFails,
         SyncFails, MaterializeFails, Dies, States
    <3> QED
      BY <3>1 DEF Story
  <2>5. CASE Inspect(p)
    <3>1. CASE Continues(p)
      <4>1. /\ ses'[p].st = (IF file.torn THEN "attaching" ELSE "mended")
            /\ ses'[p].log = ses[p].log /\ ses'[p].at = Len(file.lines) /\ file' = file
        BY <1>1, <2>5, <3>1 DEF Inspect, Sets, STypeOK
      <4>2. Tells(file.lines, ses[p].log)
        BY <1>1, <3>1, ContinuesTells
      <4> QED
        BY <1>2, <4>1, <4>2 DEF Story, LogFile
    <3>2. CASE ~Continues(p)
      <4>1. ses'[p].st = "lost"
        BY <1>1, <2>5, <3>2, ForgetsFacts DEF Inspect, States
      <4> QED
        BY <4>1 DEF Story
    <3> QED
      BY <3>1, <3>2
  <2>6. CASE Mend(p)
    <3>1. /\ ses'[p].st = "mended" /\ ses'[p].log = ses[p].log /\ ses'[p].at = ses[p].at
          /\ file' = Truncated(file, ses[p].at)
      BY <1>1, <2>6, BecomesFacts DEF Mend, States
    <3>2. ses[p].at = Len(file.lines) /\ Tells(file.lines, ses[p].log)
      BY <2>1, <2>6 DEF Mend, At, Story
    <3>3. file'.lines = file.lines /\ ~file'.torn
      BY <1>2, <3>1, <3>2, CutHere
    <3> QED
      BY <3>1, <3>2, <3>3 DEF Story
  <2>7. CASE Extend(p)
    <3>1. ses'[p].st = "open" /\ ses'[p].log = ses[p].log /\ file' = Put(file, Delta(p))
      BY <1>1, <1>2, <2>7, OpensFacts DEF Extend
    <3>2. ses[p].at = Len(file.lines) /\ Tells(file.lines, ses[p].log) /\ ~file.torn
      BY <2>1, <2>7 DEF Extend, At, Story
    <3>3. Len(file'.lines) = Len(ses[p].log) /\ Tells(file'.lines, ses[p].log) /\ ~file'.torn
      BY <1>2, <3>1, <3>2, WriteTells DEF Delta
    <3> QED
      BY <3>1, <3>3 DEF Story
  <2>8. CASE Record(p)
    <3>1. ses'[p].st = "open" /\ ses'[p].log = Grown(p) /\ file' = Put(file, Own(p))
      BY <1>1, <1>2, <2>8, OpensFacts DEF Record
    <3>2. Len(file.lines) = Len(ses[p].log) /\ Tells(file.lines, Grown(p)) /\ ~file.torn
      BY <1>1, <1>2, <2>1, <2>8, TellsGrown DEF Record, At, Story
    <3>3. Len(file'.lines) = Len(Grown(p)) /\ Tells(file'.lines, Grown(p)) /\ ~file'.torn
      BY <1>2, <3>1, <3>2, WriteTells DEF Own
    <3> QED
      BY <3>1, <3>3 DEF Story
  <2>9. CASE Materialize(p)
    <3>1. ses'[p].st = "open" /\ ses'[p].log = Grown(p) /\ file' = Put(Bare, All(p))
      BY <1>1, <1>2, <2>9, OpensFacts DEF Materialize
    <3>2. Bare \in LogFile /\ ~Bare.torn /\ Len(Bare.lines) = 0 /\ Tells(Bare.lines, Grown(p))
      BY <1>1, <1>2, FileTypesOf, NothingTold DEF Bare
    <3>3. Len(file'.lines) = Len(Grown(p)) /\ Tells(file'.lines, Grown(p)) /\ ~file'.torn
      BY <1>2, <3>1, <3>2, WriteTells DEF All
    <3> QED
      BY <3>1, <3>3 DEF Story
  <2> QED
    BY <2>2, <2>3, <2>4, <2>5, <2>6, <2>7, <2>8, <2>9 DEF Resumes, Lives, Fails
<1> QED
  BY <1>3, <1>4, <1>5 DEF Whole

-----------------------------------------------------------------------------
LEMMA InitSInv == SInit => SInv
<1> SUFFICES ASSUME SInit PROVE SInv
  OBVIOUS
<1>1. IInv /\ alive \subseteq Proc
  BY InitIInv DEF SInit, IInv, TypeOK
<1>2. ses \in [Proc -> Sessions] /\ \A p \in Proc : ses[p].st = "none"
  <2>1. Nothing \in Sessions /\ Nothing.st = "none"
    BY DEF Nothing, Sessions, States
  <2> QED
    BY <2>1 DEF SInit
<1>3. file \in LogFile /\ ~Damaged(file) /\ (file.head # "whole" => file.lines = <<>>)
  <2>1. CASE file = Absent
    BY <2>1 DEF Absent, LogFile, Damaged
  <2>2. CASE \E p \in Proc \ alive, n \in 0..MaxEvents, torn \in BOOLEAN :
               file = [head |-> "whole", lines |-> LinesOf([i \in 1..n |-> p], 0), torn |-> torn]
    <3>1. PICK p \in Proc \ alive, n \in 0..MaxEvents, torn \in BOOLEAN :
            file = [head |-> "whole", lines |-> LinesOf([i \in 1..n |-> p], 0), torn |-> torn]
      BY <2>2
    <3> DEFINE log == [i \in 1..n |-> p]
    <3>2. n \in Nat /\ p \in Event
      BY MaxEventsIsNat DEF Event
    <3>3. log \in Seq(Event) /\ Len(log) = n
      BY <3>2, SeqDef, LenProperties
    <3> HIDE DEF log
    <3>4. /\ LinesOf(log, 0) \in Seq(Line) /\ Len(LinesOf(log, 0)) = n
          /\ \A i \in 1..n : LinesOf(log, 0)[i].seq = i
      <4>1. 0 \in 0..Len(log) /\ n - 0 = n
        BY <3>2, <3>3
      <4>2. /\ LinesOf(log, 0) \in Seq(Line) /\ Len(LinesOf(log, 0)) = n
            /\ \A i \in 1..n : LinesOf(log, 0)[i] = [seq |-> 0 + i, ev |-> log[0 + i]]
        BY <3>3, <4>1, LinesOfFacts
      <4>3. ASSUME NEW i \in 1..n PROVE LinesOf(log, 0)[i].seq = i
        <5>1. LinesOf(log, 0)[i] = [seq |-> 0 + i, ev |-> log[0 + i]] /\ 0 + i = i
          BY <3>2, <4>2
        <5> QED
          BY <5>1
      <4> QED
        BY <4>2, <4>3
    <3>5. file = [head |-> "whole", lines |-> LinesOf(log, 0), torn |-> torn]
      BY <3>1 DEF log
    <3>6. file \in LogFile
      BY <3>4, <3>5 DEF LogFile
    <3>7. DOMAIN file.lines = 1..n
      BY <3>4, <3>5, LenProperties
    <3> QED
      BY <3>4, <3>5, <3>6, <3>7 DEF Damaged
  <2> QED
    BY <2>1, <2>2 DEF SInit
<1> QED
  BY <1>1, <1>2, <1>3 DEF SInv, STypeOK, Headed, Placed, Whole, Story

LEMMA NextSInv == SInv /\ [SNext]_svars => SInv'
<1> SUFFICES ASSUME SInv, [SNext]_svars PROVE SInv'
  OBVIOUS
<1>1. CASE UNCHANGED svars
  <2>1. UNCHANGED vars /\ file' = file /\ ses' = ses
    BY <1>1 DEF svars
  <2>2. IInv'
    BY <2>1, NextIInv DEF SInv
  <2> QED
    BY <2>1, <2>2 DEF vars, SInv, STypeOK, Headed, Placed, Whole, Story
<1>2. ASSUME NEW p \in Proc, Resumes(p) \/ Lives(p) \/ Fails(p) PROVE SInv'
  <2>1. IInv'
    BY <1>2, StepsOfOne, NextIInv DEF SInv
  <2>2. STypeOK' /\ Headed' /\ Placed' /\ (windows' = {} => Whole')
    BY <1>2, StepTypes, StepHeaded, StepPlaced, StepWhole DEF SInv
  <2> QED
    BY <2>1, <2>2 DEF SInv
<1> QED
  BY <1>1, <1>2 DEF SNext

(* What a session writes to is the whole of its own log.                    *)
LEMMA OneStoryOf == SInv => OneStory
<1> SUFFICES ASSUME SInv, windows = {}, NEW p \in alive, ses[p].st = "open"
             PROVE  ~file.torn /\ Stored(file) = ses[p].log
  BY DEF OneStory, SInv, Whole
<1> DEFINE lines == file.lines
           log == ses[p].log
<1>1. ~file.torn /\ Len(lines) = Len(log) /\ Tells(lines, log)
  BY DEF SInv, Whole, Story
<1>2. lines \in Seq(Line) /\ log \in Seq(Event)
  BY DEF SInv, IInv, TypeOK, STypeOK, LogFile, Sessions
<1>3. DOMAIN lines = 1..Len(lines) /\ DOMAIN log = 1..Len(lines) /\ log \in [1..Len(log) -> Event]
  BY <1>1, <1>2, LenProperties
<1>4. \A i \in 1..Len(lines) : lines[i].ev = log[i]
  <2>1. \A i \in 1..Len(lines) : lines[i] = [seq |-> i, ev |-> log[i]]
    BY <1>1 DEF Tells
  <2> SUFFICES ASSUME NEW i \in 1..Len(lines) PROVE lines[i].ev = log[i]
    OBVIOUS
  <2>2. lines[i] = [seq |-> i, ev |-> log[i]]
    BY <2>1
  <2> QED
    BY <2>2
<1>5. Stored(file) = [i \in 1..Len(lines) |-> log[i]]
  BY <1>3, <1>4 DEF Stored
<1>6. log = [i \in 1..Len(lines) |-> log[i]]
  BY <1>1, <1>3
<1> QED
  BY <1>1, <1>5, <1>6

LEMMA StoredStaysOf ==
  ASSUME SInv, [SNext]_svars PROVE [StoredStays]_svars
<1>1. ASSUME NEW p \in Proc, Resumes(p) \/ Lives(p) \/ Fails(p), windows' = {}
      PROVE  IsPrefix(file.lines, file'.lines)
  <2>1. windows = {}
    BY <1>1, StepsOfOne DEF SInv
  <2> QED
    BY <1>1, <2>1, StepGrows
<1> QED
  BY <1>1 DEF SNext, StoredStays

(* The inductive invariant holds of every behaviour.                        *)
THEOREM StoryInvariance == SSpec => []SInv
<1> QED
  BY InitSInv, NextSInv, PTL DEF SSpec

(* Outside the lease's windows the log is undamaged, and a session that     *)
(* writes has stored all of its own: onPublished, attach, snapshot, onEvent. *)
THEOREM TellsOneStory == SSpec => []OneStory
<1>1. SInv => OneStory
  BY OneStoryOf
<1> QED
  BY <1>1, StoryInvariance, PTL

(* And no step takes a stored line back: attach truncates a fragment only.  *)
THEOREM KeepsOneStory == SSpec => LogIsOneStory
<1>1. SInv' => STypeOK' /\ OneStory'
  <2>1. SInv => STypeOK /\ OneStory
    BY OneStoryOf DEF SInv
  <2> QED
    BY <2>1, PTL
<1>2. SInv /\ SInv' /\ [SNext]_svars => [STypeOK' /\ OneStory' /\ StoredStays]_svars
  BY <1>1, StoredStaysOf
<1> QED
  BY <1>2, StoryInvariance, PTL DEF SSpec, LogIsOneStory

(* The sessions take nothing from the lease they stand on.                  *)
THEOREM LeaseUnderTheLog == SSpec => []LeaseIsHeld
<1>1. SInv => LeaseIsHeld
  BY LeaseOf DEF SInv
<1> QED
  BY <1>1, StoryInvariance, PTL

-----------------------------------------------------------------------------
(* How the descriptor, the file and the failure flag go together.            *)
FileInv ==
  /\ fd = "none" => /\ stored = <<>> /\ gen = 0 /\ syncing = "no"
                    /\ open # "open"
  /\ fd # "none" => gen >= 1 /\ base >= 1 /\ Len(stored) = base + gen - 1
  /\ open = "open" => fd = "open" /\ ~failed
  /\ open = "pending" => fd = "none" /\ ~failed
  /\ open = "none" => failed \/ closed
  /\ fd # "none" /\ ~dirPending => name

(* What a recorded generation, and a sync in flight, say of the disk.        *)
SyncInv ==
  /\ synced > 0 => base + synced - 1 <= stable /\ name
  /\ syncing # "no" => fd \in {"open", "closing"}
  /\ syncing \in {"data", "dir"} =>
       covers \in 1..gen /\ issued = base + covers - 1 /\ ~poisoned
  /\ syncing = "dir" => issued <= stable
  /\ poisoned => open = "none"

(* What a flush waits for covers what it was promised.                       *)
FlushInv(f) ==
  /\ outcome[f] = "called" => promised[f] <= Len(stored)
  /\ outcome[f] \in {"waiting", "woken"} =>
       fd # "none" /\ target[f] \in 1..gen /\ promised[f] <= base + target[f] - 1
  /\ outcome[f] = "resolved" => promised[f] <= stable /\ name

FIInv == FTypeOK /\ FileIsPrefix /\ FileInv /\ SyncInv /\ \A f \in Flusher : FlushInv(f)

-----------------------------------------------------------------------------
LEMMA LinesCount ==
  ASSUME NEW n \in Nat
  PROVE  /\ Lines(n) \in Seq(Nat) /\ Len(Lines(n)) = n
         /\ Append(Lines(n), n + 1) = Lines(n + 1)
BY DEF Lines

LEMMA NoLines == Lines(0) = <<>>
<1>1. Lines(0) \in Seq(Nat) /\ Len(Lines(0)) = 0
  BY LinesCount
<1> QED
  BY <1>1

LEMMA FInitIInv == FInit => FIInv
<1> SUFFICES ASSUME FInit PROVE FIInv
  OBVIOUS
<1>1. base \in Nat /\ events \in Nat /\ base <= events /\ stored = Lines(base)
      /\ (open = "open" => base = events)
  BY MaxAppendsIsNat DEF FInit
<1>2. stored \in Seq(Nat) /\ Len(stored) = base
  BY <1>1, LinesCount
<1>3. FTypeOK
  <2>1. gen \in Nat /\ synced = 0 /\ covers = 0 /\ issued = 0 /\ stable = 0
        /\ open \in {"pending", "open", "none"} /\ fd \in {"none", "open"}
    BY SMT DEF FInit
  <2>b. dirPending \in BOOLEAN /\ failed \in BOOLEAN /\ name \in BOOLEAN
        /\ closed \in BOOLEAN /\ poisoned \in BOOLEAN
    BY Zenon DEF FInit
  <2>2. synced \in 0..gen /\ stable \in 0..Len(stored)
    BY <1>1, <1>2, <2>1
  <2>3. /\ outcome \in [Flusher -> {"none", "called", "waiting", "woken",
                                    "resolved", "skipped", "refused"}]
        /\ target \in [Flusher -> Nat] /\ promised \in [Flusher -> Nat]
    BY DEF FInit
  <2> QED
    BY <1>1, <1>2, <2>1, <2>b, <2>2, <2>3 DEF FInit, FTypeOK
<1>4. FileIsPrefix
  BY <1>1, <1>2 DEF FileIsPrefix
<1>5. FileInv
  BY <1>1, <1>2, NoLines DEF FInit, FileInv
<1>6. SyncInv
  BY <1>1 DEF FInit, SyncInv
<1>7. \A f \in Flusher : FlushInv(f)
  BY DEF FInit, FlushInv
<1> QED
  BY <1>3, <1>4, <1>5, <1>6, <1>7 DEF FIInv

-----------------------------------------------------------------------------
(* A flush that a step leaves alone keeps its invariant while the file and   *)
(* its stable part only grow.                                                *)
OnlyGrows ==
  /\ Len(stored) <= Len(stored') /\ gen <= gen'
  /\ stable <= stable' /\ (name => name')
  /\ fd # "none" => fd' # "none" /\ base' = base

LEMMA KeepsFlush ==
  ASSUME FTypeOK, FTypeOK', OnlyGrows, NEW f \in Flusher, FlushInv(f),
         promised'[f] = promised[f], target'[f] = target[f],
         outcome'[f] = outcome[f] \/ (outcome[f] = "waiting" /\ outcome'[f] = "woken")
  PROVE  FlushInv(f)'
BY SMTT(40) DEF FTypeOK, OnlyGrows, FlushInv

(* The head of onFlush's loop, reached with a target that covers the promise.*)
LEMMA LoopKeeps ==
  ASSUME FIInv, NEW f \in Flusher, NEW t \in 1..gen, Loop(f, t), ~failed,
         fd # "none", promised[f] <= base + t - 1,
         target' \in [Flusher -> Nat], target'[f] = t,
         \A g \in Flusher \ {f} : target'[g] = target[g],
         UNCHANGED <<events, stored, opened, failed, closed, disk, base, promised>>
  PROVE  FIInv'
<1> USE DEF FIInv, opened, disk
<1>1. outcome' \in [Flusher -> {"none", "called", "waiting", "woken",
                                "resolved", "skipped", "refused"}]
  BY DEF Loop, FTypeOK
<1>2. \/ UNCHANGED sync
      \/ /\ open = "open" /\ syncing = "no" /\ syncing' = "data"
         /\ covers' = gen /\ issued' = Len(stored)
  BY DEF Loop
<1>3. FTypeOK'
  <2>1. syncing' \in {syncing, "data"} /\ covers' \in Nat /\ issued' \in Nat
    BY <1>2 DEF FTypeOK, sync
  <2> QED
    BY <1>1, <2>1 DEF FTypeOK
<1>4. FileIsPrefix'
  BY DEF FileIsPrefix
<1>5. FileInv'
  BY <1>2 DEF FileInv, sync
<1>6. SyncInv'
  <2>1. CASE UNCHANGED sync
    BY <2>1 DEF SyncInv, sync
  <2>2. CASE /\ open = "open" /\ syncing = "no" /\ syncing' = "data"
             /\ covers' = gen /\ issued' = Len(stored)
    <3>1. fd = "open" /\ gen \in 1..gen /\ Len(stored) = base + gen - 1 /\ ~poisoned
      BY <2>2 DEF FileInv, SyncInv, FTypeOK
    <3> QED
      BY <2>2, <3>1 DEF SyncInv
  <2> QED
    BY <1>2, <2>1, <2>2
<1>7. FlushInv(f)'
  <2>1. outcome'[f] \in {"waiting", "resolved", "refused"}
        /\ (outcome'[f] = "resolved" => synced >= t)
    BY DEF Loop, FTypeOK
  <2> QED
    BY <2>1 DEF FlushInv, SyncInv, FileInv, FTypeOK
<1>8. ASSUME NEW g \in Flusher, g # f PROVE FlushInv(g)'
  <2>1. outcome'[g] = outcome[g]
    BY <1>8 DEF Loop, FTypeOK
  <2>2. OnlyGrows
    BY DEF OnlyGrows, FTypeOK
  <2> QED
    BY <1>3, <1>8, <2>1, <2>2, KeepsFlush
<1> QED
  BY <1>3, <1>4, <1>5, <1>6, <1>7, <1>8

-----------------------------------------------------------------------------
(* The appends, and the close they may end in.                               *)
LEMMA Closed ==
  ASSUME FTypeOK, CloseFile
  PROVE  /\ open' = "none" /\ gen' = gen /\ dirPending' = dirPending
         /\ fd' \in {"none", "open", "closing", "shut"}
         /\ fd' = "none" <=> fd = "none"
         /\ syncing # "no" /\ fd \in {"open", "closing"} => fd' \in {"open", "closing"}
BY DEF FTypeOK, CloseFile

LEMMA AppendLineKeeps == FIInv /\ AppendLine => FIInv'
<1> SUFFICES ASSUME FIInv, AppendLine PROVE FIInv'
  OBVIOUS
<1> USE DEF FIInv, AppendLine, Appending, sync, disk, flushes
<1>1. events \in Nat /\ stored = Lines(events) /\ Len(stored) = events /\ fd = "open"
      /\ gen \in Nat /\ base \in Nat
  BY DEF FTypeOK, FileIsPrefix, FileInv
<1>2. stored' = Lines(events + 1) /\ stored' \in Seq(Nat) /\ Len(stored') = events + 1
  <2>1. stored' = Append(Lines(events), events + 1)
    BY <1>1
  <2>2. events \in Nat /\ events + 1 \in Nat
    BY <1>1
  <2> HIDE DEF FIInv, AppendLine, Appending
  <2>3. Append(Lines(events), events + 1) = Lines(events + 1)
    BY <2>2, LinesCount, Zenon
  <2> QED
    BY <2>1, <2>2, <2>3, LinesCount, Zenon
<1>3. FTypeOK'
  BY <1>1, <1>2 DEF FTypeOK
<1>4. FileIsPrefix'
  BY <1>1, <1>2 DEF FileIsPrefix
<1>5. FileInv'
  BY <1>1, <1>2 DEF FileInv, FTypeOK
<1>6. SyncInv'
  BY <1>1, <1>2 DEF SyncInv, FTypeOK
<1>7. ASSUME NEW f \in Flusher PROVE FlushInv(f)'
  BY <1>1, <1>2, <1>3, <1>7, KeepsFlush DEF OnlyGrows, FTypeOK
<1> QED
  BY <1>3, <1>4, <1>5, <1>6, <1>7

(* The file and what is stable of it stay, the descriptor may close.         *)
LEMMA ClosingKeeps ==
  ASSUME FIInv, CloseFile, events' \in {events, events + 1},
         failed' \in BOOLEAN, closed' \in BOOLEAN, poisoned' \in BOOLEAN,
         failed' \/ closed', failed => failed', closed => closed',
         UNCHANGED <<stored, synced, covers, issued, stable, name, base, flushes>>,
         \/ syncing' = syncing /\ poisoned' = poisoned
         \/ syncing # "no" /\ syncing' = "settled"
  PROVE  FIInv'
<1> USE DEF FIInv, flushes
<1>1. /\ open' = "none" /\ gen' = gen /\ dirPending' = dirPending
      /\ fd' \in {"none", "open", "closing", "shut"}
      /\ fd' = "none" <=> fd = "none"
      /\ syncing # "no" /\ fd \in {"open", "closing"} => fd' \in {"open", "closing"}
  BY Closed
<1>2. FTypeOK'
  BY <1>1 DEF FTypeOK
<1>3. FileIsPrefix'
  BY <1>1 DEF FileIsPrefix, FTypeOK
<1>4. FileInv'
  BY <1>1 DEF FileInv
<1>5. SyncInv'
  BY <1>1 DEF SyncInv
<1>6. ASSUME NEW f \in Flusher PROVE FlushInv(f)'
  BY <1>1, <1>2, <1>6, KeepsFlush DEF OnlyGrows, FTypeOK
<1> QED
  BY <1>2, <1>3, <1>4, <1>5, <1>6

LEMMA UnstoredKeeps ==
  ASSUME FIInv, AppendUnstored \/ SnapshotFails
  PROVE  FIInv'
<1> USE DEF FIInv, AppendUnstored, SnapshotFails, Appending, opened, sync, disk, flushes
<1>1. FTypeOK'
  <2>1. CASE AppendUnstored
    BY <2>1 DEF FTypeOK
  <2>2. CASE SnapshotFails
    BY <2>2 DEF FTypeOK
  <2> QED
    BY <2>1, <2>2
<1>2. FileIsPrefix'
  BY DEF FileIsPrefix, FTypeOK
<1>3. FileInv'
  BY DEF FileInv
<1>4. SyncInv'
  BY DEF SyncInv
<1>5. ASSUME NEW f \in Flusher PROVE FlushInv(f)'
  BY SMTT(40), <1>1, <1>5, KeepsFlush DEF OnlyGrows, FTypeOK
<1> QED
  BY <1>1, <1>2, <1>3, <1>4, <1>5

LEMMA SnapshotKeeps == FIInv /\ Snapshot => FIInv'
<1> SUFFICES ASSUME FIInv, Snapshot PROVE FIInv'
  OBVIOUS
<1> USE DEF FIInv, Snapshot, Appending, sync, disk, flushes
<1>1. events + 1 \in Nat /\ fd = "none" /\ stored = <<>> /\ gen = 0 /\ syncing = "no"
      /\ synced = 0 /\ stable = 0 /\ ~failed
  BY DEF FTypeOK, FileInv
<1>2. stored' = Lines(events + 1) /\ stored' \in Seq(Nat) /\ Len(stored') = events + 1
  BY <1>1, LinesCount
<1>3. FTypeOK'
  BY <1>1, <1>2 DEF FTypeOK
<1>4. FileIsPrefix'
  BY <1>1, <1>2 DEF FileIsPrefix
<1>5. FileInv'
  BY <1>1, <1>2 DEF FileInv, FTypeOK
<1>6. SyncInv'
  BY <1>1, <1>2 DEF SyncInv, FileInv
<1>7. ASSUME NEW f \in Flusher PROVE FlushInv(f)'
  BY <1>1, <1>2, <1>3, <1>7, KeepsFlush DEF OnlyGrows, FTypeOK
<1> QED
  BY <1>3, <1>4, <1>5, <1>6, <1>7

-----------------------------------------------------------------------------
(* The callers.                                                              *)
LEMMA FlushKeeps ==
  ASSUME FIInv, NEW f \in Flusher, Flush(f)
  PROVE  FIInv'
<1> USE DEF FIInv, Flush, opened, sync, disk
<1>1. FTypeOK'
  BY DEF FTypeOK
<1>2. FileIsPrefix' /\ FileInv'
  BY DEF FileIsPrefix, FileInv
<1>3. SyncInv'
  BY DEF SyncInv
<1>4. FlushInv(f)'
  BY DEF FlushInv, FTypeOK
<1>5. ASSUME NEW g \in Flusher, g # f PROVE FlushInv(g)'
  BY <1>1, <1>5, KeepsFlush DEF OnlyGrows, FTypeOK
<1> QED
  BY <1>1, <1>2, <1>3, <1>4, <1>5

(* A flush that settles without the loop, its target moved or not.           *)
LEMMA RefusedKeeps ==
  ASSUME FIInv, NEW f \in Flusher, NEW how \in {"refused", "skipped"},
         outcome' = [outcome EXCEPT ![f] = how],
         target' \in [Flusher -> Nat],
         \A g \in Flusher \ {f} : target'[g] = target[g],
         UNCHANGED <<events, stored, opened, sync, failed, closed, disk, base, promised>>
  PROVE  FIInv'
<1> USE DEF FIInv, opened, sync, disk
<1>1. FTypeOK'
  BY ZenonT(60) DEF FTypeOK
<1>2. FileIsPrefix' /\ FileInv'
  BY DEF FileIsPrefix, FileInv
<1>3. SyncInv'
  BY DEF SyncInv
<1>4. FlushInv(f)'
  BY DEF FlushInv, FTypeOK
<1>5. ASSUME NEW g \in Flusher, g # f PROVE FlushInv(g)'
  BY <1>1, <1>5, KeepsFlush DEF OnlyGrows, FTypeOK
<1> QED
  BY <1>1, <1>2, <1>3, <1>4, <1>5

LEMMA EnterKeeps ==
  ASSUME FIInv, NEW f \in Flusher, Enter(f)
  PROVE  FIInv'
<1>1. target' = [target EXCEPT ![f] = gen] /\ target' \in [Flusher -> Nat]
      /\ target'[f] = gen /\ \A g \in Flusher \ {f} : target'[g] = target[g]
  BY DEF FIInv, FTypeOK, Enter
<1>2. CASE failed \/ open # "open"
  <2>1. PICK how \in {"refused", "skipped"} : outcome' = [outcome EXCEPT ![f] = how]
    BY <1>2 DEF Enter
  <2> QED
    BY <1>1, <1>2, <2>1, RefusedKeeps DEF Enter
<1>3. CASE ~(failed \/ open # "open")
  <2>1. fd # "none" /\ gen \in 1..gen /\ promised[f] <= base + gen - 1 /\ ~failed
    BY <1>3 DEF FIInv, FileInv, FlushInv, FTypeOK, Enter
  <2>2. Loop(f, gen)
    BY <1>3 DEF Enter
  <2> QED
    BY <1>1, <2>1, <2>2, LoopKeeps DEF Enter
<1> QED
  BY <1>2, <1>3

LEMMA WakeKeeps ==
  ASSUME FIInv, NEW f \in Flusher, Wake(f)
  PROVE  FIInv'
<1>1. target' = target /\ target \in [Flusher -> Nat]
  BY DEF FIInv, FTypeOK, Wake
<1>2. CASE failed
  BY <1>1, <1>2, RefusedKeeps DEF Wake
<1>3. CASE ~failed
  <2>1. fd # "none" /\ target[f] \in 1..gen /\ promised[f] <= base + target[f] - 1
    BY DEF FIInv, FlushInv, Wake
  <2> QED
    BY <1>1, <1>3, <2>1, LoopKeeps DEF Wake
<1> QED
  BY <1>2, <1>3

-----------------------------------------------------------------------------
(* The sync.                                                                 *)
LEMMA CoveredRecords ==
  ASSUME FIInv, Covered, syncing \in {"data", "dir"}
  PROVE  synced' \in 0..gen /\ (synced' = synced \/ synced' = covers)
BY DEF FIInv, Covered, Greatest, FTypeOK, SyncInv

LEMMA DataSyncedKeeps == FIInv /\ DataSynced => FIInv'
<1> SUFFICES ASSUME FIInv, DataSynced PROVE FIInv'
  OBVIOUS
<1> USE DEF FIInv, DataSynced, flushes
<1>1. ~poisoned /\ covers \in 1..gen /\ issued = base + covers - 1
      /\ fd \in {"open", "closing"} /\ Len(stored) = base + gen - 1
  BY DEF SyncInv, FileInv
<1>2. stable' \in 0..Len(stored) /\ stable <= stable' /\ issued <= stable'
  BY <1>1 DEF Greatest, FTypeOK
<1>3. /\ synced' \in 0..gen /\ (synced' = synced \/ (synced' = covers /\ ~dirPending))
      /\ syncing' \in {"dir", "settled"}
  BY CoveredRecords DEF FTypeOK
<1>4. FTypeOK'
  BY <1>2, <1>3 DEF FTypeOK
<1>5. FileIsPrefix' /\ FileInv'
  BY DEF FileIsPrefix, FileInv
<1>6. SyncInv'
  <2>1. synced' > 0 => base + synced' - 1 <= stable' /\ name
    <3>1. CASE synced' = synced
      BY <1>2, <3>1 DEF SyncInv, FTypeOK
    <3>2. CASE synced' = covers /\ ~dirPending
      BY <1>1, <1>2, <3>2 DEF FileInv, FTypeOK
    <3> QED
      BY <1>3, <3>1, <3>2
  <2>2. ~poisoned'
    BY <1>1
  <2> QED
    BY <1>1, <1>2, <1>3, <2>1, <2>2 DEF SyncInv
<1>7. ASSUME NEW f \in Flusher PROVE FlushInv(f)'
  BY <1>2, <1>4, <1>7, KeepsFlush DEF OnlyGrows, FTypeOK
<1> QED
  BY <1>4, <1>5, <1>6, <1>7

LEMMA DirectorySyncedKeeps == FIInv /\ DirectorySynced => FIInv'
<1> SUFFICES ASSUME FIInv, DirectorySynced PROVE FIInv'
  OBVIOUS
<1> USE DEF FIInv, DirectorySynced, flushes
<1>1. synced' \in 0..gen /\ (synced' = synced \/ synced' = covers)
  BY CoveredRecords
<1>2. FTypeOK'
  BY <1>1 DEF FTypeOK
<1>3. FileIsPrefix' /\ FileInv'
  BY DEF FileIsPrefix, FileInv
<1>4. SyncInv'
  BY <1>1 DEF SyncInv, FTypeOK
<1>5. ASSUME NEW f \in Flusher PROVE FlushInv(f)'
  BY <1>2, <1>5, KeepsFlush DEF OnlyGrows, FTypeOK
<1> QED
  BY <1>2, <1>3, <1>4, <1>5

LEMMA SyncEndsKeeps == FIInv /\ SyncEnds => FIInv'
<1> SUFFICES ASSUME FIInv, SyncEnds PROVE FIInv'
  OBVIOUS
<1> USE DEF FIInv, SyncEnds, disk
<1>1. fd' \in {"none", "open", "shut"} /\ (fd' = "none" <=> fd = "none")
      /\ (open = "open" => fd' = "open")
  BY DEF FTypeOK, FileInv
<1>2. FTypeOK'
  BY <1>1 DEF FTypeOK
<1>3. FileIsPrefix'
  BY DEF FileIsPrefix
<1>4. FileInv'
  BY <1>1 DEF FileInv
<1>5. SyncInv'
  BY DEF SyncInv
<1>6. ASSUME NEW f \in Flusher PROVE FlushInv(f)'
  <2>1. outcome'[f] = outcome[f] \/ (outcome[f] = "waiting" /\ outcome'[f] = "woken")
    OBVIOUS
  <2> QED
    BY <1>1, <1>2, <1>6, <2>1, KeepsFlush DEF OnlyGrows, FTypeOK
<1> QED
  BY <1>2, <1>3, <1>4, <1>5, <1>6

-----------------------------------------------------------------------------
LEMMA FNextIInv == FIInv /\ [FNext]_fvars => FIInv'
<1> SUFFICES ASSUME FIInv, [FNext]_fvars PROVE FIInv'
  OBVIOUS
<1>1. CASE AppendLine
  BY <1>1, AppendLineKeeps
<1>2. CASE AppendFails
  <2>1. failed \in BOOLEAN /\ closed \in BOOLEAN /\ poisoned \in BOOLEAN
    BY DEF FIInv, FTypeOK
  <2> QED
    BY <1>2, <2>1, ClosingKeeps DEF AppendFails, Appending, Quarantine, sync, disk
<1>3. CASE AppendUnstored \/ SnapshotFails
  BY <1>3, UnstoredKeeps
<1>4. CASE Snapshot
  BY <1>4, SnapshotKeeps
<1>5. CASE Detach
  <2>1. failed \in BOOLEAN /\ closed \in BOOLEAN /\ poisoned \in BOOLEAN
    BY DEF FIInv, FTypeOK
  <2> QED
    BY <1>5, <2>1, ClosingKeeps DEF Detach, sync, disk
<1>6. CASE SyncThrows
  <2>1. failed \in BOOLEAN /\ closed \in BOOLEAN /\ poisoned \in BOOLEAN
    BY DEF FIInv, FTypeOK
  <2> QED
    BY <1>6, <2>1, ClosingKeeps DEF SyncThrows, Quarantine
<1>7. CASE DataSynced
  BY <1>7, DataSyncedKeeps
<1>8. CASE DirectorySynced
  BY <1>8, DirectorySyncedKeeps
<1>9. CASE SyncEnds
  BY <1>9, SyncEndsKeeps
<1>10. ASSUME NEW f \in Flusher, Flush(f) \/ Enter(f) \/ Wake(f) PROVE FIInv'
  BY <1>10, FlushKeeps, EnterKeeps, WakeKeeps
<1>11. CASE UNCHANGED fvars
  <2> USE <1>11 DEF fvars, opened, sync, disk, flushes
  <2>1. FTypeOK' /\ FileIsPrefix' /\ FileInv' /\ SyncInv'
    BY DEF FIInv, FTypeOK, FileIsPrefix, FileInv, SyncInv
  <2>2. ASSUME NEW f \in Flusher PROVE FlushInv(f)'
    BY DEF FIInv, FlushInv
  <2> QED
    BY <2>1, <2>2 DEF FIInv
<1> QED
  BY <1>1, <1>2, <1>3, <1>4, <1>5, <1>6, <1>7, <1>8, <1>9, <1>10, <1>11
     DEF FNext, Syncing

(* The inductive invariant holds of every behaviour.                         *)
THEOREM FlushInvariance == FSpec => []FIInv
<1>1. FInit => FIInv
  BY FInitIInv
<1>2. FIInv /\ [FNext]_fvars => FIInv'
  BY FNextIInv
<1> QED
  BY <1>1, <1>2, PTL DEF FSpec

(* The record of the file, its sync and the flushes keep their types.        *)
THEOREM FlushTypeCorrect == FSpec => []FTypeOK
<1>1. FIInv => FTypeOK
  BY DEF FIInv
<1> QED
  BY <1>1, FlushInvariance, PTL

(* A flush that resolved over a file found everything written before it, and *)
(* the file's name, on stable storage.                                       *)
THEOREM ResolvedIsStable == FSpec => []FlushMeansStable
<1>1. FIInv => FlushMeansStable
  BY DEF FIInv, FlushInv, FlushMeansStable
<1> QED
  BY <1>1, FlushInvariance, PTL

(* The stored file is a gapless prefix of the session's log.                 *)
THEOREM PrefixHolds == FSpec => []FileIsPrefix
<1>1. FIInv => FileIsPrefix
  BY DEF FIInv
<1> QED
  BY <1>1, FlushInvariance, PTL

(* No data sync runs on a descriptor that was shut.                          *)
THEOREM DescriptorHeld == FSpec => []SyncOwnsDescriptor
<1>1. FIInv => SyncOwnsDescriptor
  BY DEF FIInv, SyncInv, SyncOwnsDescriptor
<1> QED
  BY <1>1, FlushInvariance, PTL

-----------------------------------------------------------------------------
(* The store implements Checkpoint: what a flush looks like from outside.    *)
Seen == [f \in Flusher |-> IF outcome[f] \in {"called", "woken"}
                           THEN "waiting" ELSE outcome[f]]

LEMMA InitRefines == FInit => Promise!Init
<1> SUFFICES ASSUME FInit PROVE Promise!Init
  OBVIOUS
<1>1. Len(stored) \in Nat
  BY FInitIInv DEF FIInv, FTypeOK
<1>2. failed \in BOOLEAN
  BY Zenon DEF FInit
<1> QED
  BY <1>1, <1>2 DEF FInit, Kept, Promise!Init

(* The writes: a line recorded, a failure, or nothing the contract sees.     *)
LEMMA WritesRefine ==
  ASSUME FIInv, FIInv', AppendLine \/ Snapshot \/ AppendFails \/ AppendUnstored
                      \/ SnapshotFails \/ Detach
  PROVE  [Promise!Next]_(Promise!vars)
<1>1. CASE AppendLine \/ Snapshot
  <2>1. Len(stored) \in Nat /\ Len(stored') \in Nat /\ Len(stored) < Len(stored')
    <3>1. Len(stored) \in Nat /\ Len(stored') \in Nat
      BY SMTT(40) DEF FIInv, FTypeOK
    <3>2. CASE AppendLine
      BY <3>1, <3>2 DEF FIInv, FTypeOK, AppendLine
    <3>3. CASE Snapshot
      BY <3>1, <3>3 DEF FIInv, FTypeOK, FileInv, Snapshot
    <3> QED
      BY <1>1, <3>1, <3>2, <3>3
  <2>2. ~failed /\ ~closed
    BY <1>1 DEF FIInv, FileInv, AppendLine, Snapshot, Appending
  <2>3. UNCHANGED <<Kept, failed, closed, promised, outcome>>
    BY <1>1 DEF AppendLine, Snapshot, disk, flushes, Kept
  <2>4. Promise!Record
    BY <2>1, <2>2, <2>3 DEF Promise!Record
  <2> QED
    BY <2>4 DEF Promise!Next
<1>2. CASE AppendFails \/ SnapshotFails
  <2>1. ~failed
    BY <1>2 DEF FIInv, FileInv, AppendFails, SnapshotFails
  <2>2. failed' = TRUE /\ UNCHANGED <<stored, Kept, closed, promised, outcome>>
    BY <1>2 DEF AppendFails, SnapshotFails, Quarantine, disk, flushes, Kept
  <2>3. Promise!Fail
    BY <2>1, <2>2 DEF Promise!Fail
  <2> QED
    BY <2>3 DEF Promise!Next
<1>3. CASE AppendUnstored
  BY <1>3 DEF AppendUnstored, disk, flushes, Kept, Promise!vars
<1>4. CASE Detach
  <2>1. Promise!Detach
    BY <1>4 DEF Detach, disk, flushes, Kept, Promise!Detach
  <2> QED
    BY <2>1 DEF Promise!Next
<1> QED
  BY <1>1, <1>2, <1>3, <1>4

(* The sync: a growth of the stable part, a failure, or nothing.             *)
LEMMA SyncsRefine ==
  ASSUME FIInv, FIInv', Syncing
  PROVE  [Promise!Next]_(Promise!vars)
<1>1. CASE DataSynced
  <2>1. stable' \in Nat /\ stable <= stable' /\ stable' <= Len(stored)
        /\ Len(stored) \in Nat /\ stable \in Nat
    BY <1>1 DEF DataSynced, Greatest, FIInv, FTypeOK
  <2>2. UNCHANGED <<stored, failed, closed, promised, outcome, name>>
    BY <1>1 DEF DataSynced, flushes
  <2>3. CASE stable' = stable \/ ~name
    BY <2>2, <2>3 DEF Promise!vars, Kept
  <2>4. CASE stable' # stable /\ name
    <3>1. Promise!Stabilise
      BY <2>1, <2>2, <2>4 DEF Promise!Stabilise, Kept
    <3> QED
      BY <3>1 DEF Promise!Next
  <2> QED
    BY <2>3, <2>4
<1>2. CASE DirectorySynced
  <2>1. name' = TRUE /\ UNCHANGED <<stored, stable, failed, closed, promised, outcome>>
    BY <1>2 DEF DirectorySynced, flushes
  <2>2. stable \in Nat /\ stable <= Len(stored)
    BY DEF FIInv, FTypeOK
  <2>3. CASE name \/ stable = 0
    BY <2>1, <2>3 DEF Promise!vars, Kept
  <2>4. CASE ~name /\ stable # 0
    <3>1. Promise!Stabilise
      BY <2>1, <2>2, <2>4 DEF Promise!Stabilise, Kept
    <3> QED
      BY <3>1 DEF Promise!Next
  <2> QED
    BY <2>3, <2>4
<1>3. CASE SyncThrows
  <2>1. failed' = TRUE /\ UNCHANGED <<stored, Kept, closed, promised, outcome>>
    BY <1>3 DEF SyncThrows, Quarantine, flushes, Kept
  <2>2. CASE failed = TRUE
    BY <2>1, <2>2 DEF Promise!vars
  <2>3. CASE ~failed
    <3>1. Promise!Fail
      BY <2>1, <2>3 DEF Promise!Fail
    <3> QED
      BY <3>1 DEF Promise!Next
  <2>4. failed \in BOOLEAN
    BY DEF FIInv, FTypeOK
  <2> QED
    BY <2>2, <2>3, <2>4
<1>4. CASE SyncEnds
  <2>1. Seen' = Seen
    BY <1>4 DEF Seen, SyncEnds
  <2> QED
    BY <1>4, <2>1 DEF SyncEnds, disk, Seen, Kept, Promise!vars
<1> QED
  BY <1>1, <1>2, <1>3, <1>4 DEF Syncing

(* A flush that settles, seen from outside.                                  *)
LEMMA SettlesRefines ==
  ASSUME FIInv, NEW f \in Flusher, NEW how \in {"resolved", "skipped", "refused"},
         outcome[f] \in {"called", "woken"},
         outcome' = [outcome EXCEPT ![f] = how],
         UNCHANGED <<stored, Kept, failed, closed, promised>>
  PROVE  Promise!Settles(f, how)
<1>1. Seen[f] = "waiting" /\ Seen' = [Seen EXCEPT ![f] = how]
  BY DEF Seen, FIInv, FTypeOK
<1> QED
  BY <1>1 DEF Seen, Promise!Settles

(* The head of the loop: still waiting, resolved or refused.                 *)
LEMMA LoopRefines ==
  ASSUME FIInv, NEW f \in Flusher, NEW t \in 1..gen, Loop(f, t), ~failed,
         fd # "none", promised[f] <= base + t - 1, outcome[f] \in {"called", "woken"},
         UNCHANGED <<stored, Kept, failed, closed, promised>>
  PROVE  [Promise!Next]_(Promise!vars)
<1>1. CASE outcome' = [outcome EXCEPT ![f] = "waiting"]
  <2>1. Seen' = Seen
    BY <1>1 DEF Seen, FIInv, FTypeOK
  <2> QED
    BY <2>1 DEF Seen, Promise!vars
<1>2. CASE synced >= t /\ outcome' = [outcome EXCEPT ![f] = "resolved"]
  <2>1. promised[f] <= Kept
    BY <1>2 DEF FIInv, SyncInv, FTypeOK, Kept
  <2>2. Promise!Settles(f, "resolved")
    BY <1>2, SettlesRefines
  <2>3. Promise!Resolve(f)
    BY <2>1, <2>2 DEF Promise!Resolve
  <2> QED
    BY <2>3 DEF Promise!Next
<1>3. CASE open # "open" /\ outcome' = [outcome EXCEPT ![f] = "refused"]
  <2>1. closed
    BY <1>3 DEF FIInv, FileInv, FTypeOK
  <2>2. Promise!Settles(f, "refused")
    BY <1>3, SettlesRefines
  <2>3. Promise!Refuse(f)
    BY <2>1, <2>2 DEF Promise!Refuse
  <2> QED
    BY <2>3 DEF Promise!Next
<1> QED
  BY <1>1, <1>2, <1>3 DEF Loop, FIInv, FTypeOK

LEMMA FlushesRefine ==
  ASSUME FIInv, FIInv', NEW f \in Flusher, Flush(f) \/ Enter(f) \/ Wake(f)
  PROVE  [Promise!Next]_(Promise!vars)
<1>1. CASE Flush(f)
  <2>1. Seen[f] # "waiting" /\ Seen' = [Seen EXCEPT ![f] = "waiting"]
    BY <1>1 DEF Flush, Settled, Seen, FIInv, FTypeOK
  <2>2. Promise!Call(f)
    BY <1>1, <2>1 DEF Flush, Seen, disk, Kept, Promise!Call
  <2> QED
    BY <2>2 DEF Promise!Next
<1>2. CASE Enter(f) /\ failed
  <2>1. Promise!Settles(f, "refused")
    BY <1>2, SettlesRefines DEF Enter, disk, Kept
  <2>2. Promise!Refuse(f)
    BY <1>2, <2>1 DEF Promise!Refuse
  <2> QED
    BY <2>2 DEF Promise!Next
<1>3. CASE Enter(f) /\ ~failed /\ open # "open"
  <2>1. Promise!Settles(f, "skipped")
    BY <1>3, SettlesRefines DEF Enter, disk, Kept
  <2>2. closed \/ promised[f] = 0
    <3>1. CASE open = "none"
      BY <1>3, <3>1 DEF FIInv, FileInv
    <3>2. CASE open = "pending"
      BY <1>3, <3>2 DEF FIInv, FileInv, FlushInv, FTypeOK, Enter
    <3> QED
      BY <1>3, <3>1, <3>2 DEF FIInv, FTypeOK
  <2>3. Promise!Skip(f)
    BY <1>3, <2>1, <2>2 DEF Promise!Skip
  <2> QED
    BY <2>3 DEF Promise!Next
<1>4. CASE Enter(f) /\ ~failed /\ open = "open"
  <2>1. fd # "none" /\ gen \in 1..gen /\ promised[f] <= base + gen - 1
    BY SMTT(40), <1>4 DEF FIInv, FileInv, FlushInv, FTypeOK, Enter
  <2>2. Loop(f, gen) /\ outcome[f] = "called"
        /\ UNCHANGED <<stored, Kept, failed, closed, promised>>
    BY <1>4 DEF Enter, disk, Kept
  <2> QED
    BY <1>4, <2>1, <2>2, LoopRefines
<1>5. CASE Wake(f) /\ failed
  <2>1. Promise!Settles(f, "refused")
    BY <1>5, SettlesRefines DEF Wake, disk, Kept
  <2>2. Promise!Refuse(f)
    BY <1>5, <2>1 DEF Promise!Refuse
  <2> QED
    BY <2>2 DEF Promise!Next
<1>6. CASE Wake(f) /\ ~failed
  <2>1. fd # "none" /\ target[f] \in 1..gen /\ promised[f] <= base + target[f] - 1
    BY <1>6 DEF FIInv, FlushInv, Wake
  <2>2. Loop(f, target[f]) /\ outcome[f] = "woken"
        /\ UNCHANGED <<stored, Kept, failed, closed, promised>>
    BY <1>6 DEF Wake, disk, Kept
  <2> QED
    BY <1>6, <2>1, <2>2, LoopRefines
<1> QED
  BY <1>1, <1>2, <1>3, <1>4, <1>5, <1>6

(* The store keeps the promise: SyncedFlush implements Checkpoint.           *)
THEOREM Refinement == FSpec => KeepsPromise
<1>1. FInit => Promise!Init
  BY InitRefines
<1>2. FIInv /\ FIInv' /\ [FNext]_fvars => [Promise!Next]_(Promise!vars)
  <2> SUFFICES ASSUME FIInv, FIInv', [FNext]_fvars PROVE [Promise!Next]_(Promise!vars)
    OBVIOUS
  <2>1. CASE UNCHANGED fvars
    BY <2>1 DEF fvars, disk, flushes, Kept, Promise!vars
  <2> QED
    BY <2>1, WritesRefine, SyncsRefine, FlushesRefine DEF FNext
<1> QED
  BY <1>1, <1>2, FlushInvariance, PTL DEF FSpec, KeepsPromise, Promise!Spec

(* Once a write or a sync was lost no flush resolves any more.               *)
LEMMA StickyStep ==
  ASSUME FIInv, [FNext]_fvars, failed
  PROVE  failed' /\ \A f \in Flusher : outcome'[f] = "resolved" => outcome[f] = "resolved"
<1>1. CASE AppendLine \/ AppendFails \/ AppendUnstored \/ Snapshot \/ SnapshotFails
           \/ Detach
  BY <1>1 DEF AppendLine, AppendFails, AppendUnstored, Snapshot, SnapshotFails,
              Detach, Quarantine, flushes
<1>2. CASE DataSynced \/ DirectorySynced \/ SyncThrows
  BY <1>2 DEF DataSynced, DirectorySynced, SyncThrows, Quarantine, flushes
<1>3. CASE SyncEnds
  BY <1>3 DEF SyncEnds
<1>4. ASSUME NEW g \in Flusher, Flush(g) \/ Enter(g) \/ Wake(g)
      PROVE  failed' /\ \A f \in Flusher : outcome'[f] = "resolved" => outcome[f] = "resolved"
  <2>1. failed'
    BY <1>4 DEF Flush, Enter, Wake
  <2>2. PICK how \in {"called", "refused"} : outcome' = [outcome EXCEPT ![g] = how]
    BY <1>4 DEF Flush, Enter, Wake
  <2> QED
    BY <2>1, <2>2 DEF FIInv, FTypeOK
<1>5. CASE UNCHANGED fvars
  BY <1>5 DEF fvars, flushes
<1> QED
  BY <1>1, <1>2, <1>3, <1>4, <1>5 DEF FNext, Syncing

(* A failed store stays failed, and resolves no flush after.                 *)
THEOREM FailureStays == FSpec => FailureSticks
<1>1. FIInv /\ [FNext]_fvars =>
        [failed => failed' /\ \A f \in Flusher :
           outcome'[f] = "resolved" => outcome[f] = "resolved"]_fvars
  BY StickyStep
<1> QED
  BY <1>1, FlushInvariance, PTL DEF FSpec, FailureSticks

(* The file the store keeps is sound as a whole.                             *)
THEOREM FileSound == FSpec => []FileIsSound
<1>1. FTypeOK /\ FileIsPrefix /\ SyncOwnsDescriptor => FileIsSound
  BY DEF FileIsSound
<1> QED
  BY <1>1, FlushTypeCorrect, PrefixHolds, DescriptorHeld, PTL
=============================================================================
