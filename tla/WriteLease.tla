----------------------------- MODULE WriteLease -----------------------------
(***************************************************************************)
(* The write lease on one stored log, among the processes that share the   *)
(* store's directory.                                                      *)
(*                                                                         *)
(* Code: acquireLease, releaseLease, releaseLock, readLeaseHolder and      *)
(* holderIsDead of `capabilities/persistence-jsonl/index.ts`.              *)
(*                                                                         *)
(* The processes interleave between system calls, so each call is a step:  *)
(* the exclusive create and the write of the payload are two, and so are   *)
(* reading the holder and probing it.  A process is a pid: it dies once.   *)
(***************************************************************************)
EXTENDS Naturals, FiniteSets

CONSTANTS
  Proc,     \* the processes
  Foreign   \* those on another host, which no one here can probe

ASSUME ForeignAreProcs == Foreign \subseteq Proc
ASSUME NobodyIsNoProc == "nobody" \notin Proc

VARIABLES
  lock,   \* the lock file: NoFile, or who created it and whether it is written
  steal,  \* the steal mutex: NoFile, or who created it
  pc,     \* pc[p]: the next system call of p
  seen,   \* seen[p]: the holder p last read
  alive,  \* processes alive
  windows \* history: the known windows a re-probe has met (see Windows)

vars == <<lock, steal, pc, seen, alive, windows>>

NoFile == [owner |-> "nobody", written |-> FALSE]
Empty(p) == [owner |-> p, written |-> FALSE]
Written(p) == [owner |-> p, written |-> TRUE]

Idle == "idle"
Steps == {Idle, "writing", "read", "probe", "mutex", "reread", "reprobe",
          "unlink", "recreate", "rewriting", "giveUp", "giveOver",
          "holding", "releasing"}

(* The processes that are up, and what those that are gone left behind.     *)
Init ==
  /\ alive \in SUBSET Proc
  /\ lock \in {NoFile} \union {Empty(p) : p \in Proc \ alive}
                         \union {Written(p) : p \in Proc \ alive}
  /\ steal \in {NoFile} \union {Written(p) : p \in Proc \ alive}
  /\ pc = [p \in Proc |-> Idle]
  /\ seen = [p \in Proc |-> p]
  /\ windows = {}

-----------------------------------------------------------------------------
Go(p, step) == pc' = [pc EXCEPT ![p] = step]
Forget(p) == seen' = [seen EXCEPT ![p] = p]

(* readLeaseHolder: a missing, empty or cut-short lock names nobody.        *)
Readable == lock.written

(* holderIsDead: same host, and the probe says the process is no more.      *)
Dead(p, q) == (p \in Foreign) = (q \in Foreign) /\ q \notin alive

(* The exclusive create, on the first try and again under the mutex.        *)
Create(p, from, onSuccess, onExists) ==
  /\ pc[p] = from
  /\ IF lock = NoFile THEN lock' = Empty(p) /\ Go(p, onSuccess)
                      ELSE Go(p, onExists) /\ UNCHANGED lock
  /\ UNCHANGED <<steal, seen, alive, windows>>

(* The payload goes to the file created, even when its name is gone.        *)
WritePayload(p, from, next) ==
  /\ pc[p] = from
  /\ lock' = IF lock = Empty(p) THEN Written(p) ELSE lock
  /\ Go(p, next)
  /\ UNCHANGED <<steal, seen, alive, windows>>

Acquire(p) == Create(p, Idle, "writing", "read")
Hold(p) == WritePayload(p, "writing", "holding")

ReadHolder(p) ==
  /\ pc[p] = "read"
  /\ IF Readable THEN seen' = [seen EXCEPT ![p] = lock.owner] /\ Go(p, "probe")
                 ELSE Go(p, Idle) /\ UNCHANGED seen
  /\ UNCHANGED <<lock, steal, alive, windows>>

(* Mutant: a probe that takes every holder for a live one.                  *)
ProbeTrusts(p) == pc[p] = "probe" /\ Go(p, Idle) /\ Forget(p)
                  /\ UNCHANGED <<lock, steal, alive, windows>>

Probe(p) ==
  /\ pc[p] = "probe"
  /\ Go(p, IF Dead(p, seen[p]) THEN "mutex" ELSE Idle)
  /\ Forget(p)
  /\ UNCHANGED <<lock, steal, alive, windows>>

(* Mutant: a steal with no re-probe.                                        *)
StealUnproved(p) ==
  /\ pc[p] = "mutex" /\ steal = NoFile /\ steal' = Written(p) /\ Go(p, "unlink")
  /\ UNCHANGED <<lock, seen, alive, windows>>

(* The steal mutex, or a refusal that names it.                             *)
TakeMutex(p) ==
  /\ pc[p] = "mutex"
  /\ IF steal = NoFile THEN steal' = Written(p) /\ Go(p, "reread")
                       ELSE Go(p, Idle) /\ UNCHANGED steal
  /\ UNCHANGED <<lock, seen, alive, windows>>

(* Re-probe under the mutex: `!current || holderIsDead(current)`.           *)
Reread(p) ==
  /\ pc[p] = "reread"
  /\ IF Readable
     THEN seen' = [seen EXCEPT ![p] = lock.owner] /\ Go(p, "reprobe") /\ UNCHANGED windows
     ELSE windows' = windows \union {"unreadable"} /\ Go(p, "unlink") /\ UNCHANGED seen
  /\ UNCHANGED <<lock, steal, alive>>

Reprobe(p) ==
  /\ pc[p] = "reprobe"
  /\ Go(p, IF Dead(p, seen[p]) THEN "unlink" ELSE "giveUp")
  /\ windows' = IF Dead(p, seen[p]) /\ lock # Written(seen[p])
                THEN windows \union {"diedInProbe"} ELSE windows
  /\ Forget(p)
  /\ UNCHANGED <<lock, steal, alive>>

Unlink(p) ==
  /\ pc[p] = "unlink"
  /\ lock' = NoFile
  /\ Go(p, "recreate")
  /\ UNCHANGED <<steal, seen, alive, windows>>

Recreate(p) == Create(p, "recreate", "rewriting", "giveUp")
Rewrite(p) == WritePayload(p, "rewriting", "giveOver")

(* finally: the mutex goes, whether the steal succeeded or not.             *)
DropMutex(p) ==
  /\ pc[p] \in {"giveUp", "giveOver"}
  /\ steal' = NoFile
  /\ Go(p, IF pc[p] = "giveOver" THEN "holding" ELSE Idle)
  /\ UNCHANGED <<lock, seen, alive, windows>>

(* releaseLock: the payload must be ours, then the name is unlinked.        *)
Release(p) ==
  /\ pc[p] = "holding"
  /\ Go(p, IF lock = Written(p) THEN "releasing" ELSE Idle)
  /\ UNCHANGED <<lock, steal, seen, alive, windows>>

Unlock(p) ==
  /\ pc[p] = "releasing"
  /\ lock' = NoFile
  /\ Go(p, Idle)
  /\ UNCHANGED <<steal, seen, alive, windows>>

(* What a dead process was about to call no longer matters.                 *)
Die(p) ==
  /\ alive' = alive \ {p}
  /\ Go(p, Idle) /\ Forget(p)
  /\ UNCHANGED <<lock, steal, windows>>

Reclaim(p) == TakeMutex(p) \/ Reread(p) \/ Reprobe(p) \/ Unlink(p)
              \/ Recreate(p) \/ Rewrite(p) \/ DropMutex(p)

Call(p) == Acquire(p) \/ Hold(p) \/ ReadHolder(p) \/ Probe(p) \/ Reclaim(p)
           \/ Unlock(p)

Next == \E p \in alive : Call(p) \/ Release(p) \/ Die(p)

(* A live process goes on making its calls, and whoever was refused tries    *)
(* again; how long a holder keeps the lease, and who dies, nothing says.     *)
Spec == Init /\ [][Next]_vars /\ \A p \in Proc : WF_vars(p \in alive /\ Call(p))

-----------------------------------------------------------------------------
(* The windows in which a reclaim can remove a live process's lock:         *)
(*   unreadable   the re-probe found no lock, or one whose creator had not   *)
(*                written its payload yet, and takes both for a dead one     *)
(*   diedInProbe  the holder it read released the lock and died before the   *)
(*                probe, and someone else may hold the lock by now           *)
Windows == {"unreadable", "diedInProbe"}

Files(written) == {NoFile} \union [owner : Proc, written : written]

(* The type invariant of the lock, the mutex and the processes.             *)
TypeOK ==
  /\ lock \in Files(BOOLEAN) /\ steal \in Files({TRUE})
  /\ pc \in [Proc -> Steps] /\ seen \in [Proc -> Proc]
  /\ alive \subseteq Proc /\ windows \subseteq Windows

(* Live processes that believe they hold the lease.                         *)
Writers == {p \in alive : pc[p] \in {"holding", "releasing", "giveOver"}}

(* "Never to two writers": outside the two windows at most one process       *)
(* holds the lease, however many race to reclaim a dead holder's lock.       *)
OneWriter == windows = {} => Cardinality(Writers) <= 1

(* The lock on disk is the writer's own for as long as it writes, so nobody  *)
(* else even reaches the probe with a dead verdict.                          *)
WriterIsLocked == windows = {} => \A p \in Writers : lock = Written(p)

(* The lease as a whole: typed state, one writer, and its lock on disk.      *)
LeaseIsHeld == TypeOK /\ OneWriter /\ WriterIsLocked

(* A dead holder's lock does not block the log for good while anyone tries:  *)
(* it is reclaimed, unless a reclaimer died inside its steal, or (met only   *)
(* in the windows) a writer whose lock is gone stops trying.                 *)
DeadLock == lock.written /\ lock.owner \notin alive \union Foreign

StaleLockIsReclaimed ==
  DeadLock ~> \/ ~DeadLock \/ alive \subseteq Foreign
              \/ steal.owner \in Proc \ alive \/ Writers # {}

(* What acquireLease says of itself: everything that is not provably stale   *)
(* degrades "to a manual rm of the lock file, never to two writers".         *)
NeverTwoWriters == Cardinality(Writers) <= 1
=============================================================================
