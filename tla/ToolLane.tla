------------------------------ MODULE ToolLane ------------------------------
(***************************************************************************)
(* One step's tool calls: the ordered lane, the bodies that may overlap,   *)
(* the two durability checkpoints of each call, and what crash repair says *)
(* about a call the log leaves unanswered.                                 *)
(*                                                                         *)
(* Code: executeTools of `core/loop/driver.ts`, execute/dispatch/gate of   *)
(* `core/tools/registry.ts`, repairInterruptedTail and classify of         *)
(* `core/session/repair.ts`.                                               *)
(*                                                                         *)
(* Calls are numbered in model order.  The log is the sequence of the      *)
(* step's records; `disk` of them reached the file and `synced` of them    *)
(* stable storage.  A crash is not an action: repair is a pure function of *)
(* the prefix a crash leaves, so the properties about it speak of every    *)
(* prefix a crash could leave at this moment (Cuts).                       *)
(***************************************************************************)
EXTENDS Naturals, Sequences, FiniteSets

CONSTANTS
  N,      \* calls in the step's assistant message
  Width   \* the agent's maxParallelToolCalls

ASSUME NIsNat == N \in Nat
ASSUME WidthIsPositive == Width \in Nat \ {0}

Calls == 1..N

VARIABLES
  safe,      \* safe[c]: the tool of call c declares concurrencySafe
  first,     \* first[c]: the first call of the step bearing the id of c
  syncs,     \* the store's claim: a checkpoint is a sync to stable storage
  lane,      \* what the lane does next
  opened,    \* calls logged so far; the last one is the lane's current call
  stage,     \* stage[c]: how far the pipeline of c has come
  result,    \* result[c]: what its slot holds
  ckpt,      \* ckpt[c]: log length the last checkpoint of c must cover
  ran,       \* calls whose body was started
  log, disk, synced,
  cancelled, \* the turn's signal aborted
  lost,      \* a checkpoint failed: the step's own signal aborted
  broken     \* the store failed a write or a sync, and remembers

profile == <<safe, first, syncs>>
storage == <<log, disk, synced, broken>>
vars == <<profile, lane, opened, stage, result, ckpt, ran, storage, cancelled, lost>>

Stages == {"unlogged", "logged", "gate", "dispatching", "body", "over"}
Results == {"none", "value", "noBody", "timeout", "aborted", "lost"}

Message == <<"message", 0>>
Call(c) == <<"call", c>>
Dispatch(c) == <<"dispatch", c>>
Result(c) == <<"result", c>>

-----------------------------------------------------------------------------
(* A repeated id, an undeclared tool or a width of 1 makes a call a barrier. *)
Pooled(c) == Width > 1 /\ safe[c] /\ first[c] = c

Unsettled(c) == result[c] = "none"
Running == {c \in Calls : /\ Pooled(c) /\ Unsettled(c)
                          /\ stage[c] \notin {"unlogged", "logged"}}
(* Mutant: a barrier that waits for a place only.                            *)
CanOpenBeside(c) == Cardinality(Running) < Width

CanOpen(c) == IF Pooled(c) THEN Cardinality(Running) < Width ELSE Running = {}

(* The signal a call's pipeline reads.  A deadline aborts its own call's.    *)
Told(c) == cancelled \/ lost \/ result[c] = "timeout"

(* session.append: in memory always, to the file while the store is whole.   *)
Write(records) ==
  /\ log' = log \o records
  /\ disk' = IF broken THEN disk ELSE Len(log) + Len(records)
  /\ UNCHANGED <<synced, broken>>

(* session.flush: refused once the store failed; under a syncing store it    *)
(* returns when a sync has covered all that was written before the call.     *)
Covered(c) == ~broken /\ (syncs => ckpt[c] <= synced)

(* settle, first wins, then commitReady: the results at the head of the      *)
(* step's order that now have all their elders are logged, in order.         *)
Ready(res) == {d \in 1..opened : \A e \in 1..d : res[e] # "none"}

Settle(c, r) ==
  IF Unsettled(c)
  THEN LET res == [result EXCEPT ![c] = r]
           due == Cardinality(Ready(res) \ Ready(result))
       IN  /\ result' = res
           /\ Write([i \in 1..due |-> Result(c + i - 1)])
  ELSE UNCHANGED <<result, storage>>

Init ==
  /\ safe \in [Calls -> BOOLEAN]
  /\ first \in [Calls -> Calls]
  /\ \A c \in Calls : first[c] <= c /\ first[first[c]] = first[c]
  /\ syncs \in BOOLEAN
  /\ lane = "next" /\ opened = 0
  /\ stage = [c \in Calls |-> "unlogged"]
  /\ result = [c \in Calls |-> "none"]
  /\ ckpt = [c \in Calls |-> 0]
  /\ ran = {}
  /\ log = <<Message>> /\ disk = 1 /\ synced = 0
  /\ cancelled = FALSE /\ lost = FALSE /\ broken = FALSE

-----------------------------------------------------------------------------
(* The lane waits for a place, logs the next call and asks for a checkpoint. *)
OpenCall ==
  LET c == opened + 1
  IN  /\ lane = "next" /\ c \in Calls /\ CanOpen(c)
      /\ ~cancelled /\ ~lost
      /\ Write(<<Call(c)>>)
      /\ opened' = c
      /\ stage' = [stage EXCEPT ![c] = "logged"]
      /\ ckpt' = [ckpt EXCEPT ![c] = Len(log) + 1]
      /\ lane' = "checkpoint"
      /\ UNCHANGED <<profile, result, ran, cancelled, lost>>

(* The lane ends: no call is left, or nothing more may start.                *)
StopLane ==
  /\ lane = "next"
  /\ \/ opened = N
     \/ opened < N /\ (cancelled \/ lost) /\ CanOpen(opened + 1)
  /\ lane' = "draining"
  /\ UNCHANGED <<profile, opened, stage, result, ckpt, ran, storage, cancelled, lost>>

CheckpointPasses ==
  LET c == opened
  IN  /\ lane = "checkpoint" /\ Covered(c)
      /\ IF cancelled \/ lost
         THEN /\ Settle(c, IF lost THEN "lost" ELSE "aborted")
              /\ stage' = [stage EXCEPT ![c] = "over"]
              /\ lane' = "draining"
         ELSE /\ stage' = [stage EXCEPT ![c] = "gate"]
              /\ lane' = "waiting"
              /\ UNCHANGED <<result, storage>>
      /\ UNCHANGED <<profile, opened, ckpt, ran, cancelled, lost>>

CheckpointFails ==
  LET c == opened
  IN  /\ lane = "checkpoint" /\ broken
      /\ lost' = TRUE
      /\ Settle(c, "lost")
      /\ stage' = [stage EXCEPT ![c] = "over"]
      /\ lane' = "draining"
      /\ UNCHANGED <<profile, opened, ckpt, ran, cancelled>>

(* A call answered with no body and no dispatch: an unknown tool, arguments  *)
(* that do not parse, a policy, a guard or a person that refused, an aborted *)
(* signal, a middleware that answered without next().                        *)
GateAnswers(c) ==
  /\ stage[c] = "gate"
  /\ stage' = [stage EXCEPT ![c] = "over"]
  /\ Settle(c, "noBody")
  /\ UNCHANGED <<profile, lane, opened, ckpt, ran, cancelled, lost>>

(* onDispatch: the gate passed, the dispatch is logged before the body.      *)
GatePasses(c) ==
  /\ stage[c] = "gate" /\ ~Told(c)
  /\ Write(<<Dispatch(c)>>)
  /\ stage' = [stage EXCEPT ![c] = "dispatching"]
  /\ ckpt' = [ckpt EXCEPT ![c] = Len(log) + 1]
  /\ UNCHANGED <<profile, lane, opened, result, ran, cancelled, lost>>

(* Mutants: a body that does not wait for its dispatch to be durable, and    *)
(* one that does not look at its signal after the wait.                      *)
Starts(c) ==
  /\ stage' = [stage EXCEPT ![c] = "body"] /\ ran' = ran \union {c}
  /\ UNCHANGED <<profile, lane, opened, result, ckpt, storage, cancelled, lost>>
DispatchUnsynced(c) == stage[c] = "dispatching" /\ ~broken /\ ~Told(c) /\ Starts(c)
DispatchDeaf(c) == stage[c] = "dispatching" /\ Covered(c) /\ Starts(c)

(* The dispatch is durable: the body starts, unless its signal aborted.      *)
DispatchPasses(c) ==
  /\ stage[c] = "dispatching" /\ Covered(c)
  /\ IF Told(c)
     THEN /\ stage' = [stage EXCEPT ![c] = "over"]
          /\ Settle(c, "noBody")
          /\ UNCHANGED ran
     ELSE /\ stage' = [stage EXCEPT ![c] = "body"]
          /\ ran' = ran \union {c}
          /\ UNCHANGED <<result, storage>>
  /\ UNCHANGED <<profile, lane, opened, ckpt, cancelled, lost>>

DispatchFails(c) ==
  /\ stage[c] = "dispatching" /\ broken
  /\ lost' = TRUE
  /\ stage' = [stage EXCEPT ![c] = "over"]
  /\ Settle(c, "noBody")
  /\ UNCHANGED <<profile, lane, opened, ckpt, ran, cancelled>>

(* The body returns or throws; after a deadline its result is discarded.     *)
BodyReturns(c) ==
  /\ stage[c] = "body"
  /\ stage' = [stage EXCEPT ![c] = "over"]
  /\ Settle(c, "value")
  /\ UNCHANGED <<profile, lane, opened, ckpt, ran, cancelled, lost>>

(* A deadline, which only a tool that is not concurrencySafe may have.       *)
TimesOut(c) ==
  /\ ~safe[c] /\ Unsettled(c) /\ stage[c] \in {"dispatching", "body"}
  /\ Settle(c, "timeout")
  /\ UNCHANGED <<profile, lane, opened, stage, ckpt, ran, cancelled, lost>>

(* The lane moves on from a pooled call once it is released (its dispatch    *)
(* checkpoint settled) or answered, from a barrier once it is answered.      *)
(* Mutant: only the release moves the lane on from a pooled call.            *)
PassedReleased(c) == IF Pooled(c) THEN stage[c] = "body" ELSE ~Unsettled(c)

Passed(c) == ~Unsettled(c) \/ (Pooled(c) /\ stage[c] \in {"body", "over"})

LaneAdvances ==
  /\ lane = "waiting" /\ Passed(opened)
  /\ lane' = IF lost THEN "draining" ELSE "next"
  /\ UNCHANGED <<profile, opened, stage, result, ckpt, ran, storage, cancelled, lost>>

(* Drained: every call the lane never reached is logged and answered in the  *)
(* same segment, and the step ends.                                          *)
Drained ==
  /\ lane = "draining" /\ Running = {}
  /\ Write([i \in 1..2 * (N - opened) |->
              IF i % 2 = 1 THEN Call(opened + (i + 1) \div 2)
                           ELSE Result(opened + i \div 2)])
  /\ result' = [c \in Calls |->
                  IF c <= opened THEN result[c]
                  ELSE IF lost THEN "lost" ELSE "aborted"]
  /\ stage' = [c \in Calls |-> IF c <= opened THEN stage[c] ELSE "over"]
  /\ opened' = N
  /\ lane' = "done"
  /\ UNCHANGED <<profile, ckpt, ran, cancelled, lost>>

-----------------------------------------------------------------------------
Cancel ==
  /\ ~cancelled /\ cancelled' = TRUE
  /\ UNCHANGED <<profile, lane, opened, stage, result, ckpt, ran, storage, lost>>

(* A sync covers a prefix of what the file holds.                            *)
Sync ==
  /\ syncs /\ ~broken
  /\ synced' \in (synced + 1)..disk
  /\ UNCHANGED <<profile, lane, opened, stage, result, ckpt, ran, log, disk,
                 broken, cancelled, lost>>

StoreFails ==
  /\ ~broken /\ broken' = TRUE
  /\ UNCHANGED <<profile, lane, opened, stage, result, ckpt, ran, log, disk,
                 synced, cancelled, lost>>

Lane == OpenCall \/ StopLane \/ CheckpointPasses \/ CheckpointFails
        \/ LaneAdvances \/ Drained

Pipeline(c) == GateAnswers(c) \/ GatePasses(c) \/ DispatchPasses(c)
               \/ DispatchFails(c) \/ BodyReturns(c)

Next ==
  \/ Lane
  \/ \E c \in Calls : Pipeline(c) \/ TimesOut(c)
  \/ Cancel \/ Sync \/ StoreFails

(* The lane and every pipeline run on: a gate is answered, a body returns    *)
(* (a concurrencySafe tool owns its clock), a flush syncs or fails.          *)
Spec ==
  /\ Init /\ [][Next]_vars
  /\ WF_vars(Lane) /\ WF_vars(Sync)
  /\ \A c \in Calls : WF_vars(Pipeline(c))

-----------------------------------------------------------------------------
(* Crash repair, as a function of the prefix of length k a crash left.  It   *)
(* knows a call by its id: what the log holds of any call bearing it.        *)
Bearing(c) == {d \in Calls : first[d] = first[c]}
Logged(r, k) == \E i \in 1..k : log[i] = r
Answered(c, k) == \E d \in Bearing(c) : Logged(Result(d), k)

(* The blocks of the assistant message that repair answers.                  *)
Owed(c, k) == Logged(Message, k) /\ ~Answered(c, k)

Classify(c, k) ==
  IF ~(\E d \in Bearing(c) : Logged(Call(d), k)) THEN "NOT_STARTED"
  ELSE IF \E d \in Bearing(c) : Logged(Dispatch(d), k) THEN "UNKNOWN"
  ELSE IF syncs THEN "NOT_STARTED"
  ELSE "UNKNOWN"

(* A killed process leaves the file as written.  A power cut may take what   *)
(* was never synced; repair's claims cover it for a syncing store only.      *)
Cuts == IF syncs THEN synced..disk ELSE {disk}

-----------------------------------------------------------------------------
Records == {"message", "call", "dispatch", "result"} \X Nat

(* The type invariant of the lane, its calls and their storage.              *)
TypeOK ==
  /\ safe \in [Calls -> BOOLEAN] /\ first \in [Calls -> Calls] /\ syncs \in BOOLEAN
  /\ lane \in {"next", "checkpoint", "waiting", "draining", "done"}
  /\ opened \in 0..N
  /\ stage \in [Calls -> Stages] /\ result \in [Calls -> Results]
  /\ ckpt \in [Calls -> Nat]
  /\ ran \subseteq Calls
  /\ log \in Seq(Records)
  /\ disk \in Nat /\ synced \in Nat
  /\ synced <= disk /\ disk <= Len(log)
  /\ cancelled \in BOOLEAN /\ lost \in BOOLEAN /\ broken \in BOOLEAN

(* "Claiming did-not-run about a body that ran is the one error this         *)
(* contract exists to prevent": whatever prefix a crash leaves (under a      *)
(* syncing store a power cut too), an unanswered call whose body was started *)
(* is classified as of unknown outcome.                                      *)
RepairNeverDenies ==
  \A k \in Cuts : \A c \in ran : Owed(c, k) => Classify(c, k) = "UNKNOWN"

(* The converse, which makes the recovery contract worth its syncs: under a  *)
(* syncing store a call still before its dispatch is never reported as       *)
(* possibly run, unless another call bearing its id was dispatched.          *)
RepairExonerates ==
  \A k \in Cuts : \A c \in Calls :
    /\ syncs /\ Owed(c, k)
    /\ \A d \in Bearing(c) : stage[d] \in {"unlogged", "logged", "gate"}
    => Classify(c, k) = "NOT_STARTED"

(* What repair says of an unanswered call is true, and as much as the log    *)
(* can tell.                                                                 *)
RepairTellsTruth == RepairNeverDenies /\ RepairExonerates

(* Results are logged in model order whatever order the bodies finished in,  *)
(* each once, after its call, and nothing of a call follows its result.      *)
ResultsInModelOrder ==
  \A i, j \in DOMAIN log : \A c \in Calls : log[i] = Result(c) =>
    /\ i < j /\ log[j][1] = "result" => c < log[j][2]
    /\ i < j => log[j][2] # c
    /\ \E m \in 1..(i - 1) : log[m] = Call(c)

(* A call that runs its body and whose slot still waits for the outcome.     *)
InFlight(c) == stage[c] = "body" /\ Unsettled(c)

(* A barrier is alone: from its gate to its answer every earlier result is   *)
(* logged, and no other call waits for an outcome.                           *)
BarrierRunsAlone ==
  \A c \in Calls :
    ~Pooled(c) /\ Unsettled(c) /\ stage[c] \in {"gate", "dispatching", "body"} =>
      /\ \A d \in 1..(c - 1) : Result(d) \in {log[i] : i \in DOMAIN log}
      /\ \A d \in Calls \ {c} : ~(Unsettled(d) /\ stage[d] # "unlogged")

(* No more bodies at once than the agent's width.                            *)
BodiesWithinWidth == Cardinality({c \in Calls : InFlight(c)}) <= Width

(* After a cancellation, or once a lost write is known, no body starts:      *)
(* not even one whose dispatch is already on the record.                     *)
NothingStartsLate == [][cancelled \/ lost => ran' = ran]_vars

(* A step ends whole: every call logged and answered exactly once, and no    *)
(* body running that the step still waits for.  A body its deadline          *)
(* abandoned may outlive the step.                                           *)
Times(r) == Cardinality({i \in DOMAIN log : log[i] = r})

StepEndsWhole ==
  lane = "done" =>
    \A c \in Calls : /\ Times(Call(c)) = 1 /\ Times(Result(c)) = 1
                     /\ stage[c] = "over" \/ result[c] = "timeout"

(* The lane as a whole: the state has its type, results come in order,       *)
(* barriers run alone, bodies keep to the width, and the step ends whole.    *)
LaneKeepsOrder ==
  TypeOK /\ ResultsInModelOrder /\ BarrierRunsAlone /\ BodiesWithinWidth /\ StepEndsWhole

(* Every step ends, whatever is cancelled, refused, lost or timed out.       *)
StepEnds == <>(lane = "done")

(* What repair says of itself: a synthetic result "for every tool-call BLOCK *)
(* of the open step's assistant message that has no live result".            *)
RepairAnswersEveryBlock ==
  \A k \in Cuts : Logged(Message, k) =>
    \A c \in Calls : Logged(Result(c), k) \/ Owed(c, k)
=============================================================================
