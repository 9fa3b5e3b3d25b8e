---------------------------- MODULE SyncedFlush ----------------------------
(***************************************************************************)
(* The JSONL store's write path for one published session: appends, the    *)
(* materialization of the file, overlapping flushes, serialized syncs, the *)
(* quarantine after a failure and the close that waits for a sync.         *)
(*                                                                         *)
(* Code: JsonlArchive of `capabilities/persistence-jsonl/index.ts`         *)
(* (onEvent, onFlush, sync, close, snapshot, track, onDisposed), called    *)
(* through the bus, which runs a flush listener one microtask after the    *)
(* flush was asked for (`kernel/context.ts`, parallel).                    *)
(*                                                                         *)
(* The kernel below it is the environment: fdatasync makes stable at least *)
(* what was written before it was issued; once one failed, the dirty pages *)
(* may be gone, and a later one would report a success that means nothing. *)
(* A created file's directory entry needs a sync of its own (POSIX).       *)
(***************************************************************************)
EXTENDS Naturals, Sequences

CONSTANTS
  Flusher,    \* the callers whose flushes may overlap
  MaxAppends  \* bound: events a session appends

ASSUME MaxAppendsIsNat == MaxAppends \in Nat

VARIABLES
  events,     \* events the session appended (in memory)
  stored,     \* the whole lines of the stored file, by event number
  open,       \* "pending", "open" (this.open holds the file) or "none"
  gen, synced, dirPending,  \* the OpenFile record
  syncing,    \* the sync in flight: awaiting data, the directory, or settled
  covers,     \* the generation it will have covered
  fd,         \* the descriptor's number
  failed,     \* failures holds the session
  closed,     \* the session was detached
  outcome,    \* outcome[f]: where f's flush stands
  target,     \* target[f]: the generation it waits for
  issued,     \* environment: lines written when the sync was issued
  stable,     \* environment: lines on stable storage
  name,       \* environment: the file's directory entry is
  poisoned,   \* environment: a sync failed
  base,       \* history: lines in the file when it was opened
  promised    \* history: promised[f]: lines written when f called

opened == <<open, gen, synced, dirPending, fd>>
sync == <<syncing, covers, issued>>
disk == <<stable, name, poisoned>>
flushes == <<outcome, target, promised>>
fvars == <<events, stored, opened, sync, failed, closed, disk, base, flushes>>

Greatest(a, b) == IF a >= b THEN a ELSE b
Lines(n) == [i \in 1..n |-> i]

-----------------------------------------------------------------------------
(* A publication: a fresh session waits, leased, for its first conversation  *)
(* fact; a resumed one is attached; a lease or an attach that failed is      *)
(* remembered.                                                               *)
FInit ==
  /\ \/ /\ open = "pending" /\ fd = "none" /\ gen = 0 /\ failed = FALSE
        /\ events \in 0..MaxAppends /\ base = 0
        /\ dirPending = FALSE /\ name = FALSE
     \/ /\ open = "open" /\ fd = "open" /\ gen = 1 /\ failed = FALSE
        /\ events \in 1..MaxAppends /\ base = events
        /\ dirPending \in BOOLEAN /\ name \in BOOLEAN /\ name # dirPending
     \/ /\ open = "none" /\ fd = "none" /\ gen = 0 /\ failed = TRUE
        /\ events \in 0..MaxAppends /\ base = 0
        /\ dirPending = FALSE /\ name = FALSE
  /\ stored = Lines(base)
  /\ synced = 0 /\ syncing = "no" /\ covers = 0 /\ issued = 0
  /\ closed = FALSE
  /\ stable = 0 /\ poisoned = FALSE
  /\ outcome = [f \in Flusher |-> "none"]
  /\ target = [f \in Flusher |-> 0] /\ promised = [f \in Flusher |-> 0]

(* Mutant: the number is freed under a sync in flight.                       *)
CloseAtOnce ==
  /\ open' = "none" /\ fd' = IF fd = "open" THEN "shut" ELSE fd
  /\ UNCHANGED <<gen, dirPending>>

(* close: the entry is forgotten, the number freed only when no sync runs.   *)
CloseFile ==
  /\ open' = "none"
  /\ fd' = IF fd # "open" THEN fd ELSE IF syncing = "no" THEN "shut" ELSE "closing"
  /\ UNCHANGED <<gen, dirPending>>

Quarantine == failed' = TRUE /\ CloseFile

(* onEvent, after the append in memory.                                      *)
Appending == ~closed /\ events < MaxAppends /\ events' = events + 1

AppendLine ==
  /\ Appending /\ open = "open"
  /\ stored' = Append(stored, events + 1)
  /\ gen' = gen + 1
  /\ UNCHANGED <<open, synced, dirPending, fd, sync, failed, closed, disk, base, flushes>>

(* A short write or a throw: the file is quarantined where it stands.        *)
AppendFails ==
  /\ Appending /\ open = "open"
  /\ Quarantine
  /\ UNCHANGED <<stored, synced, sync, closed, disk, base, flushes>>

(* No conversation fact yet, or nothing more is stored: memory only.         *)
AppendUnstored ==
  /\ Appending /\ open # "open"
  /\ UNCHANGED <<stored, opened, sync, failed, closed, disk, base, flushes>>

(* The first conversation fact: the snapshot carries every event so far.     *)
Snapshot ==
  /\ Appending /\ open = "pending"
  /\ stored' = Lines(events + 1) /\ base' = events + 1
  /\ open' = "open" /\ fd' = "open" /\ gen' = 1 /\ dirPending' = TRUE
  /\ UNCHANGED <<synced, sync, failed, closed, disk, flushes>>

SnapshotFails ==
  /\ Appending /\ open = "pending"
  /\ open' = "none" /\ failed' = TRUE
  /\ UNCHANGED <<stored, gen, synced, dirPending, fd, sync, closed, disk, base, flushes>>

(* onDisposed: the session takes no more appends, the file is closed.        *)
Detach ==
  /\ ~closed /\ closed' = TRUE
  /\ CloseFile
  /\ UNCHANGED <<events, stored, synced, sync, failed, disk, base, flushes>>

-----------------------------------------------------------------------------
Settled(f) == outcome[f] \notin {"called", "waiting", "woken"}

(* session.flush: the listener runs a microtask later.                       *)
Flush(f) ==
  /\ Settled(f)
  /\ outcome' = [outcome EXCEPT ![f] = "called"]
  /\ promised' = [promised EXCEPT ![f] = Len(stored)]
  /\ target' = [target EXCEPT ![f] = 0]
  /\ UNCHANGED <<events, stored, opened, sync, failed, closed, disk, base>>

(* The head of onFlush's loop: covered, detached, or wait for a sync, a new  *)
(* one unless one is in flight.                                              *)
Loop(f, t) ==
  IF synced < t /\ open = "open"
  THEN /\ outcome' = [outcome EXCEPT ![f] = "waiting"]
       /\ IF syncing = "no"
          THEN syncing' = "data" /\ covers' = gen /\ issued' = Len(stored)
          ELSE UNCHANGED sync
  ELSE /\ outcome' = [outcome EXCEPT ![f] = IF synced >= t THEN "resolved" ELSE "refused"]
       /\ UNCHANGED sync

Enter(f) ==
  /\ outcome[f] = "called"
  /\ target' = [target EXCEPT ![f] = gen]
  /\ IF failed \/ open # "open"
     THEN /\ outcome' = [outcome EXCEPT ![f] = IF failed THEN "refused" ELSE "skipped"]
          /\ UNCHANGED sync
     ELSE Loop(f, gen)
  /\ UNCHANGED <<events, stored, opened, failed, closed, disk, base, promised>>

Wake(f) ==
  /\ outcome[f] = "woken"
  /\ IF failed
     THEN outcome' = [outcome EXCEPT ![f] = "refused"] /\ UNCHANGED sync
     ELSE Loop(f, target[f])
  /\ UNCHANGED <<events, stored, opened, failed, closed, disk, base, target, promised>>

-----------------------------------------------------------------------------
(* sync: data, then once the directory, then the record of what it covered.  *)
(* Mutant: what was written by the time the sync returned.                   *)
CoversLater == synced' = gen

Covered == synced' = Greatest(synced, covers)

DataSynced ==
  /\ syncing = "data"
  /\ IF poisoned THEN stable' = stable
     ELSE stable' \in Greatest(stable, issued)..Len(stored)
  /\ IF dirPending THEN syncing' = "dir" /\ UNCHANGED synced
     ELSE syncing' = "settled" /\ Covered
  /\ UNCHANGED <<events, stored, open, gen, dirPending, fd, covers, issued, failed,
                 closed, name, poisoned, base, flushes>>

DirectorySynced ==
  /\ syncing = "dir" /\ syncing' = "settled"
  /\ dirPending' = FALSE /\ name' = TRUE /\ Covered
  /\ UNCHANGED <<events, stored, open, gen, fd, covers, issued, failed, closed,
                 stable, poisoned, base, flushes>>

SyncThrows ==
  /\ syncing \in {"data", "dir"} /\ syncing' = "settled"
  /\ Quarantine
  /\ poisoned' = TRUE
  /\ UNCHANGED <<events, stored, synced, covers, issued, closed, stable, name,
                 base, flushes>>

(* Mutant: nobody hears of the end of a sync.                                *)
SyncEndsUnheard ==
  /\ syncing = "settled" /\ syncing' = "no"
  /\ UNCHANGED <<events, stored, opened, covers, issued, failed, closed, disk,
                 base, flushes>>

(* The promise settled: a close that waited for it runs, and so do the       *)
(* flushes that awaited it.                                                  *)
SyncEnds ==
  /\ syncing = "settled" /\ syncing' = "no"
  /\ fd' = IF fd = "closing" THEN "shut" ELSE fd
  /\ outcome' = [f \in Flusher |-> IF outcome[f] = "waiting" THEN "woken" ELSE outcome[f]]
  /\ UNCHANGED <<events, stored, open, gen, synced, dirPending, covers, issued,
                 failed, closed, disk, base, target, promised>>

Syncing == DataSynced \/ DirectorySynced \/ SyncThrows \/ SyncEnds

FNext ==
  \/ AppendLine \/ AppendFails \/ AppendUnstored
  \/ Snapshot \/ SnapshotFails \/ Detach
  \/ Syncing
  \/ \E f \in Flusher : Flush(f) \/ Enter(f) \/ Wake(f)

(* A microtask runs, and a sync the kernel was asked for returns or fails.   *)
FSpec ==
  /\ FInit /\ [][FNext]_fvars
  /\ WF_fvars(Syncing) /\ \A f \in Flusher : WF_fvars(Enter(f) \/ Wake(f))

-----------------------------------------------------------------------------
(* The type invariant of the file record, its sync and the flushes.          *)
FTypeOK ==
  /\ events \in Nat /\ stored \in Seq(Nat)
  /\ open \in {"pending", "open", "none"}
  /\ gen \in Nat /\ synced \in 0..gen /\ dirPending \in BOOLEAN
  /\ syncing \in {"no", "data", "dir", "settled"} /\ covers \in Nat
  /\ fd \in {"none", "open", "closing", "shut"}
  /\ failed \in BOOLEAN /\ closed \in BOOLEAN
  /\ outcome \in [Flusher -> {"none", "called", "waiting", "woken",
                              "resolved", "skipped", "refused"}]
  /\ target \in [Flusher -> Nat] /\ promised \in [Flusher -> Nat]
  /\ issued \in Nat /\ stable \in 0..Len(stored) /\ base \in Nat
  /\ name \in BOOLEAN /\ poisoned \in BOOLEAN

(* "It resolves only once everything appended before it is on STABLE         *)
(* storage": a flush that resolved over a file found all of it stable, and   *)
(* the file's name too, however flushes, appends, syncs and a close overlap. *)
FlushMeansStable ==
  \A f \in Flusher : outcome[f] = "resolved" => promised[f] <= stable /\ name

(* The stored file is a gapless prefix of the session's log, and until a     *)
(* failure or the detach all of it.                                          *)
FileIsPrefix ==
  /\ Len(stored) <= events /\ stored = Lines(Len(stored))
  /\ open = "open" => Len(stored) = events

(* "A sync still queued must never run on a number the OS has since handed   *)
(* to another session's file": no descriptor is shut under its data sync.    *)
SyncOwnsDescriptor == syncing = "data" => fd \in {"open", "closing"}

(* The file the store keeps: typed state, a prefix of the log, and its own   *)
(* descriptor under every sync.                                              *)
FileIsSound == FTypeOK /\ FileIsPrefix /\ SyncOwnsDescriptor

(* A failed store stays failed: after a lost write or sync no flush resolves. *)
FailureSticks ==
  [][failed => failed' /\ \A f \in Flusher :
       outcome'[f] = "resolved" => outcome[f] = "resolved"]_fvars

(* Every flush settles, however many writes land meanwhile.                  *)
FlushSettles == \A f \in Flusher : ~Settled(f) ~> Settled(f)

(* What a power cut would leave: nothing of a file whose name is not there.  *)
Kept == IF name THEN stable ELSE 0

(* The store keeps the promise the tool lane builds on.                      *)
Promise == INSTANCE Checkpoint WITH
  recorded <- Len(stored),
  stable <- Kept,
  outcome <- [f \in Flusher |-> IF outcome[f] \in {"called", "woken"}
                                THEN "waiting" ELSE outcome[f]]
KeepsPromise == Promise!Spec

(* What onFlush says of any flush that resolves, a skipped one included:     *)
(* "resolving here would say a write is on stable storage that no sync ever  *)
(* covered - the one claim this method exists to make".                      *)
NoUnsyncedResolve ==
  \A f \in Flusher : outcome[f] \in {"resolved", "skipped"} => promised[f] <= stable
=============================================================================
