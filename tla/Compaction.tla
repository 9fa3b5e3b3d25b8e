----------------------------- MODULE Compaction -----------------------------
(***************************************************************************)
(* Compaction of one session beside the turns that use its history: what   *)
(* the model is shown is a projection of the log (the surface), and a      *)
(* summary that replaces part of it is written while the agent may start,  *)
(* run or end a turn.                                                      *)
(*                                                                         *)
(* Code: `capabilities/compaction-basic`, planCompaction and the folds of  *)
(* `core/compaction`, `core/session/surface.ts`, the attempts of a step    *)
(* (`core/loop/driver.ts`) with `capabilities/llm-retry`, the admissible   *)
(* set of `capabilities/tool-history`, and what a crash or a fork leaves   *)
(* of the log (`core/agent/repair.ts`, `core/agent/index.ts`).             *)
(*                                                                         *)
(* A record's seq is its place in the log.  Sizes are not modelled: where  *)
(* the retained tail begins, whether the session is under pressure and     *)
(* whether a summary is smaller are left open.                             *)
(***************************************************************************)
EXTENDS Naturals, Sequences, FiniteSets

CONSTANTS
  MaxSteps,      \* options.maxSteps
  MaxRetries,    \* llm-retry's config.maxRetries
  MaxOverflows,  \* config.maxOverflowRetries
  MaxFailures,   \* config.maxSummaryFailures
  MaxTurns,      \* bound on turns in a log
  MaxTail,       \* bound on the records a plan's sizes retain
  MaxMessages,   \* bound on a person's messages in a log
  MaxCompacts,   \* bound on a person's /compact
  MaxReopens     \* bound on resumes and forks

ASSUME LimitsAreNaturals ==
  {MaxSteps, MaxRetries, MaxOverflows, MaxFailures} \subseteq Nat /\ MaxSteps > 0

MinShadowed == 2   \* planCompaction's minShadowedNodes

VARIABLES
  events,     \* the session's records
  surface,    \* Session.surface: the seqs the model is shown, in order
  liveStart,  \* the records before this lifecycle's own
  turn,       \* where the turn is, its step, what the step's requests have
              \* cost, its signal, and what the request in flight was built from
  requested,  \* a compaction is owed at the next boundary
  attempt,    \* the compaction that runs
  asks, reopens

cvars == <<events, surface, liveStart, turn, requested, attempt, asks, reopens>>

-----------------------------------------------------------------------------
(* The log, and what is folded from it.                                     *)

TurnStart == [kind |-> "turn"]
TurnEnd == [kind |-> "turnEnd"]
User == [kind |-> "user"]
Say == [kind |-> "say"]
Calls == [kind |-> "calls"]
Result(of, tool) == [kind |-> "result", of |-> of, tool |-> tool]
Started == [kind |-> "start"]
Applied(shadowed) == [kind |-> "applied", shadowed |-> shadowed]
Summary(first, last) == [kind |-> "summary", first |-> first, last |-> last]
(* An end is "applied", counts against the summariser, or is one of the     *)
(* races and shutdowns that say nothing of it: "declined".                  *)
CompactionEnd(start, outcome) == [kind |-> "end", start |-> start, outcome |-> outcome]

Of(l, kinds) == {i \in DOMAIN l : l[i].kind \in kinds}
Newest(S) == CHOOSE i \in S : \A j \in S : j <= i
Oldest(S) == CHOOSE i \in S : \A j \in S : i <= j

(* What a step that calls tools calls, in order; "history" reads back what  *)
(* a summary hid.                                                           *)
Tools == <<"shell", "history">>

Place(s, seq) == CHOOSE i \in DOMAIN s : s[i] = seq

(* Surface.apply: a record of the model's history lands at the end, or in   *)
(* the place of the run it replaces.                                        *)
Apply(s, e, seq) ==
  CASE e.kind \in {"user", "say", "calls", "result"} -> Append(s, seq)
    [] e.kind = "summary" ->
         SubSeq(s, 1, Place(s, e.first) - 1) \o <<seq>> \o SubSeq(s, Place(s, e.last) + 1, Len(s))
    [] OTHER -> s

(* The surface after the records of l that follow the first `from`.         *)
Surface(s, l, from) ==
  LET after[n \in from..Len(l)] == IF n = from THEN s ELSE Apply(after[n - 1], l[n], n)
  IN  after[Len(l)]

(* foldCompactionFailures: what counts against the summariser since the     *)
(* last compaction that worked, in this lifecycle.                          *)
foldCompactionFailures(l, from) ==
  LET worked == {i \in Of(l, {"end"}) : l[i].outcome = "applied"}
  IN  Cardinality({i \in Of(l, {"end"}) :
                     i > from /\ l[i].outcome = "summary-failed" /\ \A w \in worked : w < i})

Unpaired(l) == {i \in Of(l, {"start"}) : \A e \in Of(l, {"end"}) : l[e].start # i}

(* foldRecall: what may be read back, and the version that trusts the       *)
(* record of a compaction over the surface.                                 *)
Shadowed(l) == UNION {l[i].shadowed : i \in Of(l, {"applied"})}
OwnResults(l) == {i \in Of(l, {"result"}) : l[i].tool = "history"}
AdmissibleAsRecorded(l) == Shadowed(l) \ OwnResults(l)

Live == {surface[i] : i \in DOMAIN surface}
Admissible(l) == Shadowed(l) \ (Live \union OwnResults(l))

-----------------------------------------------------------------------------
(* The plan.                                                                *)

IsToolResult(l, seq) == l[seq].kind = "result"

(* Mutant: the tail begins wherever its size says.                          *)
CutAnywhere(l, s, cut) == cut

(* The pairing rule: a tail that would begin with a tool's result gives it  *)
(* up, or, where the surface ends in results, takes back the call.          *)
Cut(l, s, cut) ==
  LET Begins(c) == c = 0 \/ ~IsToolResult(l, s[c + 1])
      forward == {c \in cut..(Len(s) - 1) : Begins(c)}
  IN  IF forward # {} THEN Oldest(forward) ELSE Newest({c \in 0..cut : Begins(c)})

Tails(s) == {cut \in 0..(Len(s) - 1) : cut + MaxTail >= Len(s)}

(* The runs planCompaction may choose, the oldest first record of each.     *)
planCompaction(l, s) ==
  {SubSeq(s, 1, c) : c \in {d \in {Cut(l, s, cut) : cut \in Tails(s)} :
                              Len(s) > MinShadowed /\ d >= MinShadowed}}

planIsLive(plan, s) ==
  \E i \in DOMAIN s : s[i] = plan[1] /\ i + Len(plan) - 1 <= Len(s)
                      /\ \A k \in DOMAIN plan : s[i + k - 1] = plan[k]

-----------------------------------------------------------------------------
NoAttempt == [phase |-> "none", host |-> "none", status |-> "idle", plan |-> <<>>, start |-> 0]
NoTurn == [at |-> "idle", step |-> 0, retries |-> 0, overflows |-> 0, aborted |-> FALSE, seen |-> <<>>]

Status == IF turn.at = "idle" THEN "idle" ELSE "running"
autoUsable == foldCompactionFailures(events, liveStart) < MaxFailures

CInit ==
  /\ events = <<>> /\ surface = <<>> /\ liveStart = 0 /\ turn = NoTurn
  /\ requested = FALSE /\ attempt = NoAttempt /\ asks = 0 /\ reopens = 0

Write(entries) ==
  /\ events' = events \o entries
  /\ surface' = Surface(surface, events \o entries, Len(events))
WriteNothing == UNCHANGED <<events, surface>>

NoneStarts == UNCHANGED <<requested, attempt>>
Bounds == <<liveStart, asks, reopens>>

-----------------------------------------------------------------------------
(* The turn.  Where a turn ends, "ending", its end is still to be written   *)
(* and flushed, and the agent still runs.                                   *)

TurnAt(where) == turn.at = where
Goes(where) == turn' = [turn EXCEPT !.at = where]

MayWrite == Cardinality(Of(events, {"user"})) < MaxMessages
FirstStep == turn' = [NoTurn EXCEPT !.at = "pre", !.step = 1]
MayBegin == Cardinality(Of(events, {"turn"})) < MaxTurns /\ MayWrite

Prompt ==
  /\ TurnAt("idle") /\ MayBegin /\ FirstStep /\ Write(<<TurnStart>>)
  /\ NoneStarts /\ UNCHANGED Bounds

(* What is already under way leaves a new attempt nothing to do.            *)
Run(host) ==
  /\ attempt.phase = "none"
  /\ attempt' = [NoAttempt EXCEPT !.phase = "planning", !.host = host, !.status = Status]
  /\ requested' = FALSE

(* compaction-basic at agent/pre-step: asked for, or under pressure.        *)
PreStepCompacts ==
  /\ TurnAt("pre") /\ (requested \/ autoUsable)
  /\ Run("step") /\ Goes("boundary") /\ WriteNothing /\ UNCHANGED Bounds

(* The first step enters the message its turn is for, a later one any that  *)
(* was steered in.                                                          *)
Enter ==
  \/ turn.aborted /\ Goes("ending") /\ WriteNothing
  \/ ~turn.aborted /\ Goes("asking") /\ MayWrite /\ Write(<<User>>)
  \/ ~turn.aborted /\ Goes("asking") /\ turn.step > 1 /\ WriteNothing

StepEnters ==
  /\ TurnAt("entering") \/ (TurnAt("pre") /\ (requested => attempt.phase # "none"))
  /\ Enter /\ NoneStarts /\ UNCHANGED Bounds

(* An attempt of the step: the checkpoint, then the request, built from the *)
(* log as it then is.                                                       *)
Ask ==
  /\ TurnAt("asking") /\ turn' = [turn EXCEPT !.at = "streaming", !.seen = surface]
  /\ WriteNothing /\ NoneStarts /\ UNCHANGED Bounds

Streamed(where) == turn' = [turn EXCEPT !.at = where, !.seen = <<>>]

AnswersCalls ==
  /\ TurnAt("streaming") /\ ~turn.aborted
  /\ Write(<<Calls>>) /\ Streamed("tools") /\ NoneStarts /\ UNCHANGED Bounds

(* An answer without calls, or the visible part of one that was cut off; at *)
(* the output cap or when aborted the turn ends here.  Otherwise, at        *)
(* agent/turn-stopping, a request that met no boundary is honoured.         *)
AnswersText ==
  /\ TurnAt("streaming") /\ Write(<<Say>>) /\ UNCHANGED Bounds
  /\ \/ IF requested /\ attempt.phase = "none"
          THEN Run("stop") /\ Streamed("stopping")
          ELSE NoneStarts /\ Streamed("stopped")
     \/ NoneStarts /\ Streamed("ending")

(* agent/request-error: an overflow is answered by a smaller history, a     *)
(* passing failure by waiting, any other ends the turn.                     *)
Overflows ==
  /\ TurnAt("streaming") /\ WriteNothing /\ UNCHANGED Bounds
  /\ IF autoUsable /\ turn.overflows < MaxOverflows /\ attempt.phase = "none"
       THEN Run("request") /\ Streamed("recovering")
       ELSE NoneStarts /\ Streamed("ending")

Fails ==
  /\ TurnAt("streaming") /\ (Streamed("waiting") \/ Streamed("ending"))
  /\ WriteNothing /\ NoneStarts /\ UNCHANGED Bounds

(* Mutant: a retry that is not counted against its step.                    *)
RetryUncounted ==
  /\ TurnAt("waiting")
  /\ Goes(IF turn.retries < MaxRetries /\ ~turn.aborted THEN "asking" ELSE "ending")
  /\ WriteNothing /\ NoneStarts /\ UNCHANGED Bounds

Retry ==
  /\ TurnAt("waiting")
  /\ IF turn.retries < MaxRetries /\ ~turn.aborted
       THEN turn' = [turn EXCEPT !.at = "asking", !.retries = @ + 1]
       ELSE Goes("ending")
  /\ WriteNothing /\ NoneStarts /\ UNCHANGED Bounds

(* A result, in the order of its calls; the last one ends the step.         *)
Answers(l, c) == Cardinality({i \in Of(l, {"result"}) : l[i].of = c})

NextStep ==
  IF turn.aborted \/ turn.step >= MaxSteps
    THEN Goes("ending")
    ELSE turn' = [NoTurn EXCEPT !.at = "pre", !.step = turn.step + 1]

Return ==
  /\ TurnAt("tools")
  /\ LET c == Newest(Of(events, {"calls"}))
         answers == Answers(events, c)
     IN  /\ Write(<<Result(c, Tools[answers + 1])>>)
         /\ IF answers + 1 = Len(Tools) THEN NextStep ELSE UNCHANGED turn
  /\ NoneStarts /\ UNCHANGED Bounds

(* A message steered in while the turn was stopping takes one more step.    *)
Stopped ==
  /\ TurnAt("stopped") /\ (Goes("ending") \/ (MayWrite /\ NextStep))
  /\ WriteNothing /\ NoneStarts /\ UNCHANGED Bounds

(* turn/end and its flush; a message that waits begins the next turn with   *)
(* the agent never idle.                                                    *)
EndTurn ==
  /\ TurnAt("ending") /\ NoneStarts /\ UNCHANGED Bounds
  /\ \/ turn' = NoTurn /\ Write(<<TurnEnd>>)
     \/ MayBegin /\ FirstStep /\ Write(<<TurnEnd, TurnStart>>)

CancelTurn ==
  /\ turn.at \notin {"idle", "ending"} /\ ~turn.aborted
  /\ turn' = [turn EXCEPT !.aborted = TRUE]
  /\ WriteNothing /\ NoneStarts /\ UNCHANGED Bounds

-----------------------------------------------------------------------------
(* The attempt.                                                             *)

(* compactNow, a person's.                                                  *)
compactNow ==
  /\ asks < MaxCompacts /\ asks' = asks + 1
  /\ \/ Status = "running" /\ requested' = TRUE /\ UNCHANGED attempt
     \/ Status = "idle" /\ Run("person")
  /\ WriteNothing /\ UNCHANGED <<liveStart, turn, reopens>>

(* The attempt is over, and the driver that awaited it goes on.             *)
Over(compacted) ==
  /\ attempt' = NoAttempt
  /\ turn' = CASE attempt.host = "step" -> [turn EXCEPT !.at = "entering"]
               [] attempt.host = "stop" -> [turn EXCEPT !.at = "stopped"]
               [] attempt.host = "request" /\ compacted /\ ~turn.aborted ->
                    [turn EXCEPT !.at = "asking", !.overflows = @ + 1]
               [] attempt.host = "request" /\ (turn.aborted \/ ~compacted) ->
                    [turn EXCEPT !.at = "ending"]
               [] OTHER -> turn

(* No budget, a prefix no summary can relieve, or no plan.                  *)
NothingToDo ==
  /\ attempt.phase = "planning" /\ Over(FALSE)
  /\ WriteNothing /\ UNCHANGED requested /\ UNCHANGED Bounds

(* Mutant: the status to compare with is read when the bracket opens.       *)
PlanReadsStatus ==
  /\ attempt.phase = "planning"
  /\ \E plan \in planCompaction(events, surface) :
       attempt' = [attempt EXCEPT !.phase = "summarising", !.plan = plan,
                                  !.start = Len(events) + 1, !.status = Status]
  /\ Write(<<Started>>) /\ UNCHANGED <<turn, requested>> /\ UNCHANGED Bounds

Plan ==
  /\ attempt.phase = "planning"
  /\ \E plan \in planCompaction(events, surface) :
       attempt' = [attempt EXCEPT !.phase = "summarising", !.plan = plan,
                                  !.start = Len(events) + 1]
  /\ Write(<<Started>>) /\ UNCHANGED <<turn, requested>> /\ UNCHANGED Bounds

Decline(reason) == Write(<<CompactionEnd(attempt.start, reason)>>) /\ Over(FALSE)

(* The summary call failed, was cut off, or answered nothing or nothing     *)
(* smaller; or its signal fired.                                            *)
SummaryFails ==
  /\ attempt.phase = "summarising"
  /\ \/ Decline("summary-failed")
     \/ (turn.aborted \/ attempt.host = "person") /\ Decline("declined")
  /\ UNCHANGED requested /\ UNCHANGED Bounds

(* A summary to write: from here to the end there is no await.              *)
TurnStarted == attempt.status # Status
MayApply ==
  /\ ~(turn.aborted /\ attempt.host # "person")
  /\ planIsLive(attempt.plan, surface)

Summarised ==
  /\ attempt.phase = "summarising"
  /\ requested' = (requested \/ TurnStarted)
  /\ IF TurnStarted \/ ~MayApply
       THEN Decline("declined")
       ELSE LET plan == attempt.plan
            IN  /\ Write(<<Applied({plan[i] : i \in DOMAIN plan}),
                           Summary(plan[1], plan[Len(plan)]), CompactionEnd(attempt.start, "applied")>>)
                /\ Over(TRUE)
  /\ UNCHANGED Bounds

-----------------------------------------------------------------------------
(* A resume of what a crash or a disposal left, and a fork.                 *)

OpenTurn(l) ==
  Of(l, {"turn"}) # {} /\ \A e \in Of(l, {"turnEnd"}) : e < Newest(Of(l, {"turn"}))

(* closeUnpairedCompactions                                                 *)
ClosedBrackets(l) ==
  LET open == Unpaired(l)
  IN  l \o [n \in 1..Cardinality(open) |->
              CompactionEnd(CHOOSE i \in open : Cardinality({j \in open : j < i}) = n - 1,
                            "declined")]

(* repairInterruptedTail: the open step's calls are answered, its turn ended. *)
ClosedTurn(l) ==
  LET calls == Of(l, {"calls"})
      answers == IF calls = {} THEN Len(Tools) ELSE Answers(l, Newest(calls))
  IN  IF OpenTurn(l)
        THEN l \o [i \in 1..(Len(Tools) - answers) |-> Result(Newest(calls), Tools[answers + i])]
               \o <<TurnEnd>>
        ELSE l

Continue(seed) ==
  /\ events' = seed /\ surface' = Surface(<<>>, seed, 0) /\ liveStart' = Len(seed)
  /\ turn' = NoTurn /\ requested' = FALSE /\ attempt' = NoAttempt
  /\ reopens < MaxReopens /\ reopens' = reopens + 1 /\ UNCHANGED asks

ForkSeed(l) == ClosedBrackets(l)

(* What a crash leaves, or a fork keeps, is a prefix.  Every prefix was the *)
(* log of an earlier state but those that cut the three records of one      *)
(* compaction, so the last three places stand for them all.                 *)
Cuts == {k \in 0..Len(events) : k + 2 >= Len(events)}

ResumeSession == \E k \in Cuts : Continue(ClosedTurn(ClosedBrackets(SubSeq(events, 1, k))))

ForkSession == \E k \in Cuts :
  ~OpenTurn(SubSeq(events, 1, k)) /\ Continue(ForkSeed(SubSeq(events, 1, k)))

-----------------------------------------------------------------------------
DriverSteps ==
  \/ PreStepCompacts \/ StepEnters \/ Ask \/ AnswersCalls \/ AnswersText \/ Overflows
  \/ Fails \/ Retry \/ Return \/ Stopped \/ EndTurn
AttemptSteps == NothingToDo \/ Plan \/ SummaryFails \/ Summarised

CNext ==
  \/ DriverSteps \/ AttemptSteps
  \/ Prompt \/ CancelTurn \/ compactNow \/ ResumeSession \/ ForkSession

(* What is awaited settles: a stream ends, a body returns, a flush resolves,*)
(* a summary call answers or fails.                                         *)
Fairness == WF_cvars(DriverSteps \/ AttemptSteps)

CSpec == CInit /\ [][CNext]_cvars /\ Fairness

-----------------------------------------------------------------------------
(* Properties.                                                              *)

(* While a request is in flight the history it was built from stays the     *)
(* history: no summary lands under the answer to it, whoever asked for the  *)
(* summary and whenever the turn began.                                     *)
AnswersWhatItSaw == TurnAt("streaming") => turn.seen = surface

(* Every request carries each call with all its results, in that order, and *)
(* no result without its call, whatever was summarised, cancelled, crashed  *)
(* or forked before: any other shape is refused by every provider.          *)
RequestsAreWhole ==
  LET seen == turn.seen IN
    \A i \in DOMAIN seen :
      /\ events[seen[i]].kind = "calls" =>
           /\ i + Len(Tools) <= Len(seen)
           /\ \A k \in DOMAIN Tools : events[seen[i + k]] = Result(seen[i], Tools[k])
      /\ events[seen[i]].kind = "result" => \E j \in 1..(i - 1) : seen[j] = events[seen[i]].of

(* What may be read back is exactly what the model can no longer see, less  *)
(* what reading back returned: a fork or a crash between the record of a    *)
(* compaction and its replace neither repeats a message nor loses one.      *)
ReadsBackWhatIsHidden ==
  Admissible(events) =
    Of(events, {"user", "say", "calls", "result", "summary"}) \ (Live \union OwnResults(events))

(* A bracket without an end is the attempt that runs, on every log that was *)
(* resumed or forked, however the attempt before it ended.                  *)
BracketsPair ==
  Unpaired(events) = IF attempt.phase = "summarising" THEN {attempt.start} ELSE {}

(* What a log compacted, forked, crashed and resumed tells its readers.     *)
HistoryIsKept == ReadsBackWhatIsHidden /\ BracketsPair

(* Every turn ends: neither retries, nor overflows a summary answers, nor   *)
(* summaries at every boundary can hold one for ever.                       *)
TurnsEnd == TurnAt("pre") ~> TurnAt("idle")
=============================================================================
