-------------------------------- MODULE Jobs --------------------------------
(***************************************************************************)
(* The background jobs of one agent: admission, the authority they run     *)
(* under, their single end, and how the model is told of it - by the tool  *)
(* call that waits on the end, or by a notice in the durable inbox.        *)
(*                                                                         *)
(* Code: JobsService of `core/jobs/index.ts`, the folds and the closer of  *)
(* `core/jobs/events.ts`.                                                  *)
(*                                                                         *)
(* The log is kept as what its readers fold from it: which jobs started    *)
(* and ended, which notices were recorded and entered, which call ids were *)
(* answered, how many turns in a row a notice woke.  The turn loop is here *)
(* only as far as delivery depends on it (module TurnLoop has the rest):   *)
(* `queue` is the inbox as the log folds it, less the batch a step took.   *)
(* Records that one segment writes are steps of their own where a kill     *)
(* between them shows: a job's end and its notice, the messages a batch    *)
(* enters and the record of its claim, that record and what is put back.   *)
(***************************************************************************)
EXTENDS Naturals, Sequences, SequencesExt, FiniteSetsExt

CONSTANTS
  Job,          \* job ids: every start draws one of its own
  MaxPerOwner,  \* running jobs one owner may hold
  MaxWakes,     \* bound: the wake budget
  MaxCalls,     \* bound: job_output and job_cancel calls the model makes
  MaxSwitches,  \* bound: durable switches of the session's authority
  MaxPrompts,   \* bound: messages of a person
  MaxLives      \* bound: lifecycles of the session

ASSUME JobBounds ==
  /\ {MaxPerOwner, MaxWakes, MaxCalls, MaxSwitches, MaxPrompts} \subseteq Nat
  /\ MaxLives \in Nat \ {0}

ASSUME JobsAreFinite == IsFiniteSet(Job)

VARIABLES
  budget,    \* the wake budget the row's configuration sets
  idOf,      \* idOf[c]: the call id the model gave its c-th call
  mode,      \* the session's recorded authority, as the number of switches
  entry,     \* entry[j]: what the registry knows of j
  modeAt,    \* modeAt[j]: the authority the launch of j resolved
  proc,      \* proc[j]: its process
  cancel,    \* cancel[j]: whether it was asked to stop
  calls,     \* calls made so far
  call,      \* the job_output or job_cancel in flight, or NoCall
  disposed, ending, \* disposal has begun; the owner's scope is unwinding
  queue,     \* the inbox: notices and prompts, each waking or quiet
  batch,     \* what a step took and has not recorded as claimed
  turn,      \* kinds of message the open turn has entered
  phase,     \* where the driver stands
  owing,     \* jobs whose end the running segment logged: a notice follows
  unlogged,  \* messages the running segment has still to log: of the batch
             \* it enters, or notices of the one it puts back
  ended,     \* log: job/end of j, and the call id it names
  noticed,   \* log: jobs whose notice was inserted
  entered,   \* log: how often the notice of j was entered
  answered,  \* log: call ids with a real result
  wakes,     \* log: turns in a row, closed ones, that a notice woke
  told,      \* history: jobs whose reporter's result showed their end
  again,     \* history: again[j]: kills between j's notice and its claim
  cuts,      \* history: kills inside a batch that was being entered
  unsaid,    \* history: notices a kill took between claim and put-back
  latched,   \* history: stopAll was called, and no person wrote since
  lives, prompts

registry == <<entry, modeAt, proc, cancel>>
inbox == <<queue, batch, turn, phase>>
log == <<ended, noticed, entered, answered, wakes>>
bounds == <<budget, idOf, lives, prompts>>
segment == <<owing, unlogged>>
windows == <<again, cuts, unsaid>>
history == <<told, windows, latched>>
vars == <<bounds, mode, registry, calls, call, disposed, ending, inbox, segment,
          log, history>>

Calls == 1..MaxCalls
Human == "human"
ASSUME NoJobIsHuman == Human \notin Job

(* A call on a job's end: it waits, or holds the read its result will show. *)
NoCall == [waits |-> FALSE]
CallOn(j, waits, saw) ==
  [id |-> idOf[calls + 1], job |-> j, waits |-> waits, saw |-> saw]
WaitsOn(j) == call # NoCall /\ call.waits /\ call.job = j

Message(who, waking) == [who |-> who, waking |-> waking]
WakingIn(q) == \E i \in DOMAIN q : q[i].waking
Senders(q) == {q[i].who : i \in DOMAIN q}
Quieted(q) ==
  LET notices == {i \in DOMAIN q : q[i].who # Human}
      nth(k) == CHOOSE i \in notices :
                  Cardinality({n \in notices : n < i}) = k - 1
  IN  [k \in 1..Cardinality(notices) |-> Message(q[nth(k)].who, FALSE)]

(* job/end: the job's own end, a stop asked for, or repair's "lost"; and the *)
(* call that reports it.                                                     *)
Nobody == 0
Unended == [how |-> "no", by |-> Nobody]
HasEnd(j) == ended[j] # Unended

Started == {j \in Job : entry[j] \in {"live", "ended", "abandoned", "over"}}
Running == {j \in Job : entry[j] \in {"launching", "live", "doomed"}}

(* foldJobWakes: the open turn counts as it stands.                         *)
FoldWakes == IF Human \in turn THEN 0 ELSE IF turn = {} THEN wakes ELSE wakes + 1

AtAwait == /\ phase \notin {"dead", "closed", "begin", "entering"}
           /\ owing = {} /\ unlogged = <<>>

Init ==
  /\ budget \in 0..MaxWakes
  /\ idOf \in [Calls -> Calls]
  /\ \A c \in Calls : idOf[c] <= c /\ idOf[idOf[c]] = idOf[c]
  /\ mode = 0
  /\ entry = [j \in Job |-> "none"] /\ modeAt = [j \in Job |-> 0]
  /\ proc = [j \in Job |-> "none"] /\ cancel = [j \in Job |-> "no"]
  /\ calls = 0 /\ call = NoCall
  /\ disposed = FALSE /\ ending = FALSE
  /\ queue = <<>> /\ batch = <<>> /\ turn = {} /\ phase = "idle"
  /\ owing = {} /\ ended = [j \in Job |-> Unended]
  /\ noticed = {} /\ entered = [j \in Job |-> 0] /\ answered = {} /\ wakes = 0
  /\ told = {} /\ latched = FALSE /\ unlogged = <<>>
  /\ again = [j \in Job |-> 0] /\ cuts = 0 /\ unsaid = {}
  /\ lives = 1 /\ prompts = 0

-----------------------------------------------------------------------------
(* start: admitted and registered before the launch, which resolves the     *)
(* authority.  Its call may time out meanwhile; the launch goes on.         *)
Start(j) ==
  /\ AtAwait /\ phase = "stepping" /\ ~ending
  /\ entry[j] = "none" /\ Cardinality(Running) < MaxPerOwner
  /\ entry' = [entry EXCEPT ![j] = "launching"]
  /\ modeAt' = [modeAt EXCEPT ![j] = mode]
  /\ UNCHANGED <<bounds, mode, proc, cancel, calls, call, disposed, ending,
                 inbox, segment, log, history>>

(* The launch returned a process.  A stop that landed meanwhile dooms it:   *)
(* killed, and nothing is recorded.                                         *)
(* Mutant: a job that starts whatever happened during its launch.           *)
LaunchedBlind(j) ==
  /\ AtAwait /\ entry[j] = "launching"
  /\ entry' = [entry EXCEPT ![j] = "live"] /\ proc' = [proc EXCEPT ![j] = "alive"]
  /\ UNCHANGED <<bounds, mode, modeAt, cancel, calls, call, disposed, ending,
                 inbox, segment, log, history>>

Launched(j) ==
  /\ AtAwait /\ entry[j] = "launching"
  /\ IF cancel[j] # "no" \/ ending
     THEN /\ entry' = [entry EXCEPT ![j] = "doomed"]
          /\ proc' = [proc EXCEPT ![j] = "killed"]
     ELSE /\ entry' = [entry EXCEPT ![j] = "live"]
          /\ proc' = [proc EXCEPT ![j] = "alive"]
  /\ UNCHANGED <<bounds, mode, modeAt, cancel, calls, call, disposed, ending,
                 inbox, segment, log, history>>

(* forget: the launch threw, or the doomed process is gone or out of time.  *)
Forget(j) ==
  /\ AtAwait /\ entry[j] \in {"launching", "doomed"}
  /\ entry' = [entry EXCEPT ![j] = "gone"]
  /\ UNCHANGED <<bounds, mode, modeAt, proc, cancel, calls, call, disposed,
                 ending, inbox, segment, log, history>>

(* A process ends by itself, or after it was told to; it may also never.    *)
Exits(j) ==
  /\ proc[j] \in {"alive", "killed"} /\ entry[j] = "live" /\ phase # "dead"
  /\ proc' = [proc EXCEPT ![j] = IF @ = "alive" THEN "exited" ELSE "stopped"]
  /\ UNCHANGED <<bounds, mode, entry, modeAt, cancel, calls, call, disposed,
                 ending, inbox, segment, log, history>>

(* settle: the one end.  A call that waits on it reports it and is handed   *)
(* its read in the same segment; otherwise the segment goes on to Deliver.  *)
Settle(j) ==
  /\ AtAwait /\ entry[j] = "live" /\ proc[j] \in {"exited", "stopped"}
  /\ entry' = [entry EXCEPT ![j] = "ended"]
  /\ ended' = [ended EXCEPT ![j] =
                 [how |-> IF proc[j] = "exited" THEN "own" ELSE "stopped",
                  by  |-> IF WaitsOn(j) THEN call.id ELSE Nobody]]
  /\ IF WaitsOn(j)
     THEN call' = [call EXCEPT !.waits = FALSE, !.saw = TRUE] /\ UNCHANGED owing
     ELSE owing' = {j} /\ UNCHANGED call
  /\ UNCHANGED <<bounds, mode, modeAt, proc, cancel, calls, disposed, ending,
                 inbox, noticed, entered, answered, wakes, unlogged, history>>

(* Mutants: a stop asked for does not silence the end; no wake budget.      *)
WakesStopped(j) == ended[j].how = "own" /\ ~ending /\ FoldWakes < budget
WakesAlways(j) == ended[j].how = "own" /\ cancel[j] = "no" /\ ~ending

Wakes(j) == /\ ended[j].how = "own" /\ cancel[j] = "no" /\ ~ending
            /\ FoldWakes < budget

(* deliver: the notice goes to the inbox, and may start the idle driver.    *)
Deliver(j) ==
  /\ j \in owing
  /\ owing' = {}
  /\ LET waking == Wakes(j) /\ ~disposed
     IN  /\ queue' = Append(queue, Message(j, waking))
         /\ phase' = IF waking /\ phase = "idle" THEN "begin" ELSE phase
  /\ noticed' = noticed \union {j}
  /\ UNCHANGED <<bounds, mode, registry, calls, call, disposed, ending, batch,
                 turn, ended, entered, answered, wakes, unlogged, history>>

-----------------------------------------------------------------------------
(* A stop asked for stays asked for; a process known is told.  Who asked    *)
(* first is data of the end's record.                                       *)
AskToStop(jobs) ==
  /\ cancel' = [j \in Job |-> IF j \in jobs THEN "asked" ELSE cancel[j]]
  /\ proc' = [j \in Job |-> IF j \in jobs /\ proc[j] = "alive" THEN "killed"
                            ELSE proc[j]]

(* job_output with a wait, job_cancel: a call on a job of this lifecycle    *)
(* waits for its end, unless it is there already.  A job of an earlier one  *)
(* is answered from the log.                                                *)
MakeCall(j) ==
  /\ AtAwait /\ phase = "stepping" /\ call = NoCall /\ calls < MaxCalls
  /\ j \in Started
  /\ call' = CallOn(j, entry[j] = "live", HasEnd(j))
  /\ calls' = calls + 1
  /\ UNCHANGED <<bounds, mode, entry, modeAt, disposed, ending, inbox, segment,
                 log, history>>

Output(j) == MakeCall(j) /\ UNCHANGED <<proc, cancel>>
CancelByModel(j) ==
  /\ MakeCall(j) /\ entry[j] \in {"live", "ended"}
  /\ AskToStop({j} \intersect Running)

(* The call's own bound or its abort: it leaves, unregistered at once.      *)
Leave ==
  /\ AtAwait /\ call # NoCall /\ call.waits
  /\ call' = [call EXCEPT !.waits = FALSE]
  /\ UNCHANGED <<bounds, mode, registry, calls, disposed, ending, inbox,
                 segment, log, history>>

(* The step logs the call's result.                                         *)
Answer ==
  /\ AtAwait /\ call # NoCall /\ ~call.waits
  /\ answered' = answered \union {call.id}
  /\ told' = told \union (IF call.saw THEN {call.job} ELSE {})
  /\ call' = NoCall
  /\ UNCHANGED <<bounds, mode, registry, calls, disposed, ending, inbox,
                 segment, ended, noticed, entered, wakes, latched, windows>>

Stops(jobs) ==
  /\ AskToStop(jobs)
  /\ UNCHANGED <<bounds, entry, modeAt, calls, call, inbox, segment, log, told,
                 windows>>

CancelByUser(j) ==
  /\ AtAwait /\ entry[j] = "live" /\ cancel[j] = "no"
  /\ Stops({j})
  /\ UNCHANGED <<mode, disposed, ending, latched>>

(* A durable switch of the session's authority ends every job it ran under. *)
Switch ==
  /\ AtAwait /\ mode < MaxSwitches
  /\ mode' = mode + 1
  /\ Stops(Running)
  /\ UNCHANGED <<disposed, ending, latched>>

(* stopAll, in the continuation of whenIdle.                                *)
StopAll ==
  /\ AtAwait /\ phase = "idle" /\ ~latched
  /\ Stops(Running)
  /\ latched' = TRUE
  /\ UNCHANGED <<mode, disposed, ending>>

Dispose ==
  /\ AtAwait /\ ~disposed
  /\ disposed' = TRUE
  /\ UNCHANGED <<bounds, mode, registry, calls, call, ending, inbox, segment,
                 log, history>>

(* disposeOwner: stop every job, wait, abandon what will not end, and let   *)
(* the session detach.                                                      *)
Unwind ==
  /\ AtAwait /\ disposed /\ phase = "idle" /\ ~ending
  /\ ending' = TRUE
  /\ Stops(Running)
  /\ UNCHANGED <<mode, disposed, latched>>

Close ==
  /\ AtAwait /\ ending
  /\ entry' = [j \in Job |-> IF entry[j] = "live" THEN "abandoned" ELSE entry[j]]
  /\ phase' = "closed"
  /\ UNCHANGED <<bounds, mode, modeAt, proc, cancel, calls, call, disposed,
                 ending, queue, batch, turn, segment, log, history>>

-----------------------------------------------------------------------------
(* A person writes: steering, which wakes.                                  *)
Steer ==
  /\ AtAwait /\ ~disposed /\ prompts < MaxPrompts
  /\ prompts' = prompts + 1
  /\ queue' = Append(queue, Message(Human, TRUE))
  /\ phase' = IF phase = "idle" THEN "begin" ELSE phase
  /\ latched' = FALSE
  /\ UNCHANGED <<budget, idOf, lives, mode, registry, calls, call, disposed,
                 ending, batch, turn, segment, log, told, windows>>

Claim ==
  /\ batch' = queue /\ queue' = <<>> /\ phase' = "preStep"
  /\ UNCHANGED <<bounds, mode, registry, calls, call, disposed, ending, turn,
                 segment, log, history>>

BeginTurn == phase = "begin" /\ Claim

(* The step enters the batch: a user/message each, and only then the record *)
(* of the claim, so that a kill in between delivers again.                  *)
Enters ==
  /\ AtAwait /\ phase = "preStep" /\ ~disposed
  /\ unlogged' = batch /\ phase' = "entering"
  /\ UNCHANGED <<bounds, mode, registry, calls, call, disposed, ending, queue,
                 batch, turn, owing, log, history>>

EnterNext ==
  /\ phase = "entering" /\ unlogged # <<>>
  /\ LET who == Head(unlogged).who
     IN  /\ entered' = [j \in Job |-> IF j = who THEN entered[j] + 1 ELSE entered[j]]
         /\ turn' = turn \union {IF who = Human THEN Human ELSE "job"}
  /\ unlogged' = Tail(unlogged)
  /\ UNCHANGED <<bounds, mode, registry, calls, call, disposed, ending, queue,
                 batch, phase, owing, ended, noticed, answered, wakes,
                 history>>

CommitClaim ==
  /\ phase = "entering" /\ unlogged = <<>>
  /\ batch' = <<>> /\ phase' = "stepping"
  /\ UNCHANGED <<bounds, mode, registry, calls, call, disposed, ending, queue,
                 turn, segment, log, history>>

(* The step is refused, aborted or fails before it entered: the claim is    *)
(* recorded, and after it every notice goes back, quiet, by its own record. *)
Refused ==
  /\ AtAwait /\ phase = "preStep"
  /\ unlogged' = Quieted(batch)
  /\ batch' = <<>> /\ phase' = "ending"
  /\ UNCHANGED <<bounds, mode, registry, calls, call, disposed, ending, queue,
                 turn, owing, log, history>>

PutBack ==
  /\ phase = "ending" /\ unlogged # <<>>
  /\ queue' = Append(queue, Head(unlogged)) /\ unlogged' = Tail(unlogged)
  /\ UNCHANGED <<bounds, mode, registry, calls, call, disposed, ending, batch,
                 turn, phase, owing, log, history>>

(* The step ends: another step takes what arrived, or the turn ends.        *)
StepReturns ==
  /\ AtAwait /\ phase = "stepping" /\ call = NoCall
  /\ \/ queue # <<>> /\ ~disposed /\ Claim
     \/ /\ phase' = "ending"
        /\ UNCHANGED <<bounds, mode, registry, calls, call, disposed, ending,
                       queue, batch, turn, segment, log, history>>

EndTurn ==
  /\ AtAwait /\ phase = "ending"
  /\ wakes' = FoldWakes /\ turn' = {}
  /\ phase' = IF WakingIn(queue) /\ ~disposed THEN "begin" ELSE "idle"
  /\ UNCHANGED <<bounds, mode, registry, calls, call, disposed, ending, queue,
                 batch, segment, ended, noticed, entered, answered, history>>

-----------------------------------------------------------------------------
(* A kill: a claim in flight was not recorded, so the batch is still queued *)
(* though some of it may have entered; what a recorded claim had still to   *)
(* put back is in no record.                                                *)
Kill ==
  /\ phase \notin {"dead", "closed"}
  /\ queue' = batch \o queue /\ batch' = <<>> /\ unlogged' = <<>>
  /\ LET cut == phase = "entering" /\ unlogged # batch
         logged == IF cut THEN Senders(batch) \ Senders(unlogged) ELSE {}
     IN  /\ again' = [j \in Job |-> IF j \in logged THEN again[j] + 1 ELSE again[j]]
         /\ cuts' = IF cut THEN cuts + 1 ELSE cuts
  /\ unsaid' = unsaid \union
                 (IF phase = "ending" THEN Senders(unlogged) \ {Human} ELSE {})
  /\ phase' = "dead" /\ owing' = {} /\ call' = NoCall
  /\ UNCHANGED <<bounds, mode, registry, calls, disposed, ending, turn, log,
                 told, latched>>

(* closeUnpairedJobs: a start without an end is lost; an end neither        *)
(* noticed nor answered for by a real result is noticed now, quiet: in the  *)
(* order the jobs started, which the state does not keep.                   *)
(* Mutant: a reporter is taken at its word.                                 *)
OwedTrusting == {j \in Started : ~HasEnd(j)}
  \union {j \in Started : j \notin noticed /\ ended[j].by = Nobody}

OwedNotices == {j \in Started : ~HasEnd(j)}
  \union {j \in Started : j \notin noticed /\ ended[j].by \notin answered}

Resume ==
  /\ phase \in {"dead", "closed"} /\ lives < MaxLives
  /\ lives' = lives + 1
  /\ \E owed \in SetToSeqs(OwedNotices) :
       queue' = queue \o [i \in DOMAIN owed |-> Message(owed[i], FALSE)]
  /\ phase' = IF WakingIn(queue') THEN "begin" ELSE "idle"
  /\ noticed' = noticed \union OwedNotices
  /\ ended' = [j \in Job |-> IF j \in Started /\ ~HasEnd(j)
                             THEN [how |-> "lost", by |-> Nobody] ELSE ended[j]]
  /\ wakes' = FoldWakes /\ turn' = {}
  /\ entry' = [j \in Job |-> IF j \in Started THEN "over"
                             ELSE IF entry[j] = "none" THEN "none" ELSE "gone"]
  /\ proc' = [j \in Job |-> "none"] /\ cancel' = [j \in Job |-> "no"]
  /\ disposed' = FALSE /\ ending' = FALSE /\ latched' = FALSE
  /\ UNCHANGED <<budget, idOf, prompts, mode, modeAt, calls, call, batch,
                 segment, entered, answered, told, windows>>

-----------------------------------------------------------------------------
Registry ==
  \E j \in Job : \/ Start(j) \/ Launched(j) \/ Forget(j) \/ Exits(j)
                 \/ Settle(j) \/ Deliver(j)
                 \/ Output(j) \/ CancelByModel(j) \/ CancelByUser(j)

Driver ==
  \/ BeginTurn \/ Enters \/ EnterNext \/ CommitClaim \/ Refused \/ PutBack
  \/ StepReturns \/ EndTurn \/ Answer

Next ==
  \/ Registry \/ Driver \/ Leave \/ Steer \/ Switch \/ StopAll
  \/ Dispose \/ Unwind \/ Close \/ Kill \/ Resume

Spec == Init /\ [][Next]_vars

-----------------------------------------------------------------------------
(* The type invariant.                                                      *)
TypeOK ==
  /\ budget \in 0..MaxWakes
  /\ idOf \in [Calls -> Calls] /\ mode \in 0..MaxSwitches
  /\ entry \in [Job -> {"none", "launching", "live", "doomed", "ended",
                        "abandoned", "gone", "over"}]
  /\ modeAt \in [Job -> 0..MaxSwitches]
  /\ proc \in [Job -> {"none", "alive", "killed", "exited", "stopped"}]
  /\ cancel \in [Job -> {"no", "asked"}]
  /\ calls \in 0..MaxCalls
  /\ call \in {NoCall} \union
       [id : Calls, job : Job, waits : BOOLEAN, saw : BOOLEAN]
  /\ {disposed, ending, latched} \subseteq BOOLEAN
  /\ queue \in Seq([who : Job \union {Human}, waking : BOOLEAN])
  /\ batch \in Seq([who : Job \union {Human}, waking : BOOLEAN])
  /\ turn \subseteq {Human, "job"}
  /\ unlogged \in Seq([who : Job \union {Human}, waking : BOOLEAN])
  /\ phase \in {"idle", "begin", "preStep", "entering", "stepping", "ending",
                "closed", "dead"}
  /\ ended \in [Job -> [how : {"no", "own", "stopped", "lost"},
                        by : Calls \union {Nobody}]]
  /\ {owing, noticed, told, unsaid} \subseteq SUBSET Job /\ answered \subseteq Calls
  /\ {entered, again} \subseteq [Job -> Nat] /\ {wakes, cuts} \subseteq Nat
  /\ lives \in 1..MaxLives /\ prompts \in 0..MaxPrompts

UniqueIds == \A c, d \in Calls : idOf[c] = idOf[d] => c = d

(* What the model has been told of a job's end, or is about to be.          *)
Heard(j) ==
  \/ entered[j] > 0 \/ j \in Senders(queue \o batch) \/ j \in told
  \/ call # NoCall /\ call.job = j /\ call.saw

(* Every job the log shows ended is told to the model - a notice entered or *)
(* still in the inbox, or the result of the call that reported it - and a   *)
(* job of an earlier lifecycle always has its end.  Under call ids that are *)
(* not reused; and up to the notices a kill took between the record of a    *)
(* refused step's claim and the one that puts the notice back, which repair *)
(* does not replace, their insert being in the log.                         *)
EndNeverLost ==
  UniqueIds /\ AtAwait =>
    \A j \in Job : /\ HasEnd(j) => Heard(j) \/ j \in unsaid
                   /\ entry[j] = "over" => HasEnd(j)

(* The contract of a notice: it enters the history once, and once more only *)
(* for each kill that fell between its user/message and the record of its   *)
(* claim - never for a resume, a refusal or a fold of another kind; and it  *)
(* never enters for an end that a logged result reported.                   *)
ToldOnce ==
  \A j \in Job :
    /\ entered[j] <= 1 + again[j]
    /\ UniqueIds => ~(j \in noticed /\ ended[j].by \in answered)

(* Exactly once - never lost, never told twice - whichever of the call and  *)
(* the notice tells, and wherever a kill falls but in those two windows.    *)
(* What a person's interrupt does to a batch in hand is TurnLoop's, and so  *)
(* is the window it opens.                                                  *)
EndToldExactlyOnce == EndNeverLost /\ ToldOnce

(* "No process keeps an authority the session no longer grants": a job that *)
(* runs untold runs under the recorded authority, even one whose launch     *)
(* resolved it before a switch.                                             *)
AuthorityHeld ==
  \A j \in Job : proc[j] = "alive" /\ phase # "dead" => modeAt[j] = mode

(* Once stopAll was called on the idle agent, no end of a job starts a turn *)
(* before a person writes.                                                  *)
StopAllHolds == [][latched /\ latched' => phase' # "begin"]_vars

(* The wake budget: turns in a row that no person took part in, woken by    *)
(* the ends of jobs.  An end that lands before the first of them is counted *)
(* - in its pre-step await - still wakes, so there is one more than the     *)
(* budget says, and never two; but for one more for each kill in the middle *)
(* of a batch, which is delivered, and wakes, again.                        *)
WakeBudget == phase # "entering" => FoldWakes <= budget + 1 + cuts

(* The state is typed, and jobs wake no more turns than the budget says.    *)
WithinBounds == TypeOK /\ WakeBudget

(* What `closeUnpairedJobs` says it repairs: "an end a tool call was to     *)
(* report whose real result never landed".                                  *)
ReportSurvivesCrash ==
  AtAwait => \A j \in Job : HasEnd(j) => Heard(j) \/ j \in unsaid

(* "A job's end notice has an exactly-once delivery contract": whatever the *)
(* kill.                                                                    *)
OnceWhateverKills ==
  UniqueIds /\ AtAwait => \A j \in Job : HasEnd(j) => Heard(j) /\ entered[j] <= 1
=============================================================================
