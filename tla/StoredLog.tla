------------------------------ MODULE StoredLog ------------------------------
(***************************************************************************)
(* One stored log and the processes that continue it: what a resume reads  *)
(* before it holds the lease, what attach finds once it does, the torn     *)
(* tails of writes cut short, and the appends of the session in between.   *)
(*                                                                         *)
(* Code: JsonlArchive of `capabilities/persistence-jsonl/index.ts`         *)
(* (onPublished, attach, snapshot, onEvent, onDisposed, load) and resume   *)
(* of `core/agent/index.ts`.  WriteLease is the lease they take.           *)
(*                                                                         *)
(* A process has at most one session on this log at a time (the store      *)
(* refuses a second live id).  An event is named for the process that made *)
(* it; Closer is a repair that every process writes alike.                 *)
(***************************************************************************)
EXTENDS WriteLease, Sequences, SequencesExt

CONSTANT MaxEvents   \* bound: events of a session in memory

ASSUME MaxEventsIsNat == MaxEvents \in Nat

VARIABLES
  file,   \* the stored log: its header line, its whole lines, and whether an
          \*   unterminated one follows them
  ses     \* ses[p]: p's session on this log

svars == <<vars, file, ses>>

Closer == "closer"
Event == Proc \union {Closer}
Line == [seq : Nat, ev : Event]

Absent == [head |-> "none", lines |-> <<>>, torn |-> FALSE]
Headless == [head |-> "cut", lines |-> <<>>, torn |-> FALSE]
Bare == [head |-> "whole", lines |-> <<>>, torn |-> FALSE]

Nothing == [st |-> "none", log |-> <<>>, start |-> 0, at |-> 0]

-----------------------------------------------------------------------------
(* Whole lines go to the end; the first completes the fragment it meets, and *)
(* no reader takes the two for the next event.                               *)
Garbled == [seq |-> 0, ev |-> Closer]
Put(f, ls) ==
  IF ls = <<>> THEN f
  ELSE [head |-> f.head, torn |-> FALSE,
        lines |-> f.lines \o (IF f.torn THEN <<Garbled>> \o Tail(ls) ELSE ls)]

(* What a write of these lines leaves when it fails or its process dies:     *)
(* some of them, the next one cut short perhaps; or all, and then it failed.  *)
Short(f) == [f EXCEPT !.torn = TRUE]
Cut(f, ls) == {Put(f, SubSeq(ls, 1, k)) : k \in 0..Len(ls)}
              \union {Short(Put(f, SubSeq(ls, 1, k))) : k \in 0..(Len(ls) - 1)}

(* scanSessionFile: a line that is not the next event is damage.             *)
Damaged(f) == \E i \in DOMAIN f.lines : f.lines[i].seq # i
Stored(f) == [i \in DOMAIN f.lines |-> f.lines[i].ev]

(* The lines of a session's events after the first n.                        *)
LinesOf(log, n) == [i \in 1..(Len(log) - n) |-> [seq |-> n + i, ev |-> log[n + i]]]

(* No log yet, or one that a process now gone wrote.                         *)
SInit ==
  /\ Init /\ ses = [p \in Proc |-> Nothing]
  /\ \/ file = Absent
     \/ \E p \in Proc \ alive, n \in 0..MaxEvents, torn \in BOOLEAN :
          file = [head |-> "whole", lines |-> LinesOf([i \in 1..n |-> p], 0), torn |-> torn]

-----------------------------------------------------------------------------
Sets(p, st, log, start, at) ==
  ses' = [ses EXCEPT ![p] = [st |-> st, log |-> log, start |-> start, at |-> at]]
Becomes(p, st) == Sets(p, st, ses[p].log, ses[p].start, ses[p].at)
Forgets(p, st) == Sets(p, st, <<>>, 0, 0)
Opens(p, log) == Sets(p, "open", log, 0, 0)
At(p, st) == p \in alive /\ pc[p] = "holding" /\ ses[p].st = st

(* onPublished: one try at the lease.  A session that is no resume waits,    *)
(* leased, for its first conversation fact.                                  *)
Begin(p) ==
  /\ p \in alive /\ ses[p].st = "none"
  /\ Acquire(p) /\ Becomes(p, "pending")
  /\ UNCHANGED file

(* resume: the log is read without the lease and its tail repaired; setup    *)
(* may append before the session is published.  Damage is refused.           *)
Load(p) ==
  /\ p \in alive /\ pc[p] = Idle /\ ses[p].st = "none"
  /\ file.head = "whole" /\ ~Damaged(file)
  /\ \E closers \in {<<>>, <<Closer>>, <<p>>}, setup \in {<<>>, <<p>>} :
       LET seed == Stored(file) \o closers IN
       /\ Len(seed \o setup) <= MaxEvents
       /\ Sets(p, "ready", seed \o setup, Len(seed), 0)
  /\ UNCHANGED <<vars, file>>

Publish(p) ==
  /\ p \in alive /\ ses[p].st = "ready"
  /\ Acquire(p) /\ Becomes(p, "leasing")
  /\ UNCHANGED file

LeaseStep(p) ==
  /\ p \in alive
  /\ Hold(p) \/ ReadHolder(p) \/ Probe(p) \/ Reclaim(p) \/ Unlock(p)
  /\ UNCHANGED <<file, ses>>

(* Mutant: only the length is compared.                                      *)
GrewNot(p) == ~Damaged(file) /\ Len(file.lines) <= ses[p].start

(* attach, its verdict: the log is no longer than what was resumed from, and *)
(* every stored event is this session's, by full value.                      *)
Continues(p) ==
  /\ ~Damaged(file)
  /\ Len(file.lines) <= ses[p].start
  /\ IsPrefix(Stored(file), ses[p].log)

Inspect(p) ==
  /\ At(p, "leasing")
  /\ IF Continues(p)
     THEN Sets(p, IF file.torn THEN "attaching" ELSE "mended",
               ses[p].log, ses[p].start, Len(file.lines))
     ELSE Forgets(p, "lost")
  /\ UNCHANGED <<vars, file>>

(* The torn tail goes to a sidecar, synced, and only then off the log; a log *)
(* that is shorter by then is filled with zeros.                             *)
Truncated(f, n) ==
  [head |-> f.head, torn |-> n > Len(f.lines),
   lines |-> IF n > Len(f.lines) THEN f.lines ELSE SubSeq(f.lines, 1, n)]

Mend(p) ==
  /\ At(p, "attaching")
  /\ file' = Truncated(file, ses[p].at)
  /\ Becomes(p, "mended")
  /\ UNCHANGED vars

SidecarFails(p) == At(p, "attaching") /\ Forgets(p, "lost") /\ UNCHANGED <<vars, file>>

-----------------------------------------------------------------------------
Room(p) == Len(ses[p].log) < MaxEvents
Grown(p) == Append(ses[p].log, p)

(* What is written next: attach's delta, the event's own line, or with the   *)
(* snapshot's header every event so far.                                     *)
Delta(p) == LinesOf(ses[p].log, ses[p].at)
Own(p) == LinesOf(Grown(p), Len(ses[p].log))
All(p) == LinesOf(Grown(p), 0)

Extend(p) ==
  /\ At(p, "mended")
  /\ file' = Put(file, Delta(p)) /\ Opens(p, ses[p].log)
  /\ UNCHANGED vars

ExtendFails(p) ==
  /\ At(p, "mended")
  /\ file' \in Cut(file, Delta(p)) /\ Forgets(p, "lost")
  /\ UNCHANGED vars

Record(p) ==
  /\ At(p, "open") /\ Room(p)
  /\ file' = Put(file, Own(p)) /\ Opens(p, Grown(p))
  /\ UNCHANGED vars

(* A short write, or a throw: nothing more is ever written after it.         *)
RecordFails(p) ==
  /\ At(p, "open") /\ Room(p)
  /\ file' \in Cut(file, Own(p)) /\ Forgets(p, "lost")
  /\ UNCHANGED vars

(* A sync failed: what is there may be all there will be.                    *)
SyncFails(p) == At(p, "open") /\ Forgets(p, "lost") /\ UNCHANGED <<vars, file>>

(* snapshot, an exclusive create: a stored log of this id is not overwritten. *)
Materialize(p) ==
  /\ At(p, "pending") /\ Room(p) /\ file.head = "none"
  /\ file' = Put(Bare, All(p)) /\ Opens(p, Grown(p))
  /\ UNCHANGED vars

Snapshots(p) == {Headless} \union Cut(Bare, All(p))

MaterializeFails(p) ==
  /\ At(p, "pending") /\ Room(p)
  /\ IF file.head = "none" THEN file' \in Snapshots(p) ELSE UNCHANGED file
  /\ Forgets(p, "lost")
  /\ UNCHANGED vars

(* No conversation fact yet.                                                 *)
RecordUnstored(p) ==
  /\ At(p, "pending") /\ Room(p)
  /\ Sets(p, "pending", Grown(p), 0, 0)
  /\ UNCHANGED <<vars, file>>

(* onDisposed, unload, and attach's own refusal: the lease is given back.    *)
Give(p) ==
  /\ p \in alive /\ ses[p].st \in {"pending", "open", "lost"}
  /\ Release(p) /\ Forgets(p, "over")
  /\ UNCHANGED file

(* The session is gone: it gave the lease back, or never had it.             *)
Dispose(p) ==
  /\ p \in alive /\ pc[p] = Idle /\ ses[p].st \in {"pending", "leasing", "over"}
  /\ Forgets(p, "none")
  /\ UNCHANGED <<vars, file>>

(* What the write a dying process was in may leave.                          *)
LeftBy(p) == CASE At(p, "mended") -> Cut(file, Delta(p))
               [] At(p, "open") /\ Room(p) -> Cut(file, Own(p))
               [] At(p, "pending") /\ Room(p) /\ file.head = "none" -> Snapshots(p)
               [] OTHER -> {}

Dies(p) ==
  /\ p \in alive /\ Die(p)
  /\ Forgets(p, "none")
  /\ file' \in {file} \union LeftBy(p)

Resumes(p) == Begin(p) \/ Load(p) \/ Publish(p) \/ LeaseStep(p)
              \/ Inspect(p) \/ Mend(p) \/ Extend(p) \/ Dispose(p)

Lives(p) == Record(p) \/ Materialize(p) \/ RecordUnstored(p) \/ Give(p)

Fails(p) == SidecarFails(p) \/ ExtendFails(p) \/ RecordFails(p) \/ SyncFails(p)
            \/ MaterializeFails(p) \/ Dies(p)

SNext == \E p \in Proc : Resumes(p) \/ Lives(p) \/ Fails(p)

(* A live process goes on with what it began, and whoever was refused tries  *)
(* again; what a session says, and for how long, nothing says.               *)
Fairness == \A p \in Proc : WF_svars(Resumes(p))

SSpec == SInit /\ [][SNext]_svars /\ Fairness

-----------------------------------------------------------------------------
States == {"none", "ready", "leasing", "pending", "attaching", "mended", "open",
           "lost", "over"}

LogFile == [head : {"none", "cut", "whole"}, lines : Seq(Line), torn : BOOLEAN]
Sessions == [st : States, log : Seq(Event), start : Nat, at : Nat]

(* The type invariant of the log and the sessions.                           *)
STypeOK == file \in LogFile /\ ses \in [Proc -> Sessions]

(* However resumes, deaths, failed writes and reclaims interleave, outside   *)
(* the lease's two windows the log reads as one story: every line is the     *)
(* next event, and what a session writes to is the whole of its own log.     *)
OneStory ==
  windows = {} =>
    /\ ~Damaged(file)
    /\ \A p \in alive :
         ses[p].st = "open" => ~file.torn /\ Stored(file) = ses[p].log

(* No line of it is ever taken back: attach truncates a fragment only.       *)
StoredStays == windows' = {} => IsPrefix(file.lines, file'.lines)

(* Both, of every step: it leaves one story, and all that was stored of it.  *)
LogIsOneStory == [][STypeOK' /\ OneStory' /\ StoredStays]_svars
=============================================================================
