------------------------------ MODULE TurnLoop ------------------------------
(***************************************************************************)
(* The turn/step state machine of an agent over its durable inbox.         *)
(*                                                                         *)
(* Code: `core/loop/driver.ts` (send, cancel, run, turn), the class Inbox  *)
(* of `core/agent/index.ts` and foldInbox of `core/agent/events.ts`.       *)
(*                                                                         *)
(* JavaScript runs a handler to its next await without interruption, so an *)
(* action is one such segment: it changes the live queues at once and      *)
(* leaves in `script` the records the segment appends to the log, in       *)
(* order.  They reach the log one by one (WriteRecord); nothing but a kill *)
(* of the process can come between two of them.  The log is kept as what a *)
(* resume reads from it: the fold of its inbox records (`durable`) and how *)
(* often each message was logged as a user/message (`entered`).            *)
(***************************************************************************)
EXTENDS Naturals, Sequences, FiniteSets, SequencesExt

CONSTANTS
  Prompt,    \* messages for the next turn (followup)
  Steer,     \* waking step input (steer)
  Context,   \* quiet step input (inject, a tool's additional context)
  Notice,    \* end notices of background jobs (isJobNotice)
  MaxSteps,  \* the agent's maxSteps
  MaxLives,  \* bound: lifecycles of the session (first open, then resumes)
  MaxCancels \* bound: how often a person cancels

Msg == Prompt \union Steer \union Context \union Notice

ASSUME KindsAreDisjoint ==
  /\ Prompt \intersect (Steer \union Context \union Notice) = {}
  /\ Steer \intersect (Context \union Notice) = {}
  /\ Context \intersect Notice = {}
ASSUME BoundsArePositive == {MaxSteps, MaxLives, MaxCancels} \subseteq Nat \ {0}

VARIABLES
  turnQueue, stepQueue, heldQueue,  \* the Inbox: live queues
  pendingClaim,                     \* the claim taken and not yet recorded
  phase,     \* where the driver stands (an await, or a segment's next part)
  claimed,   \* the batch the pre-step await holds
  step,      \* steps begun in this turn
  aborted,   \* the turn's abort signal
  disposed,  \* disposal has begun
  lost,      \* the store lost a write: every later flush is refused
  script,    \* records the running segment still has to append
  durable,   \* foldInbox of the log
  entered,   \* how often each message was logged as a user/message
  unsent,    \* history: messages nobody has sent yet
  dropped,   \* history: messages consumed without entering, as meant
  gaps,      \* history: which of the known gaps the run has met (see Gaps)
  lives,     \* lifecycles so far
  cancels    \* cancels so far

inbox == <<turnQueue, stepQueue, heldQueue, pendingClaim>>
ghosts == <<unsent, dropped, gaps, lives, cancels>>
vars == <<inbox, phase, claimed, step, aborted, disposed, lost, script,
          durable, entered, ghosts>>

Entry == [msg : Msg, waking : BOOLEAN]
NoClaim == [steps |-> 0, turns |-> 0]

Quiet(msgs) == [i \in DOMAIN msgs |-> [msg |-> msgs[i], waking |-> FALSE]]
Messages(entries) == [i \in DOMAIN entries |-> entries[i].msg]
(* What of s is in S, in order.                                             *)
Only(s, S) ==
  LET kept == {i \in DOMAIN s : s[i] \in S}
      nth(k) == CHOOSE i \in kept : Cardinality({j \in kept : j < i}) = k - 1
  IN  [k \in 1..Cardinality(kept) |-> s[nth(k)]]
Notices(msgs) == Only(msgs, Notice)
Others(msgs) == ToSet(msgs) \ Notice
From(s, n) == SubSeq(s, n + 1, Len(s))

(* The records a segment appends: inbox/spliced in its three forms, and the *)
(* user/message that enters a message into the model's history.             *)
Insert(e) == [op |-> "insert", entry |-> e]
InsertTurn(m) == [op |-> "insertTurn", msg |-> m]
Claim(c) == [op |-> "claim", steps |-> c.steps, turns |-> c.turns]
Clear == [op |-> "clear"]
Enter(m) == [op |-> "enter", msg |-> m]

Inserts(msgs) == [i \in DOMAIN msgs |-> Insert(Quiet(msgs)[i])]
Enters(msgs) == [i \in DOMAIN msgs |-> Enter(msgs[i])]
Commit == IF pendingClaim = NoClaim THEN <<>> ELSE <<Claim(pendingClaim)>>

(* foldInbox, one record: inserts go to the back, claims drain the front.   *)
FoldSplice(d, r) ==
  CASE r.op = "insert"     -> [d EXCEPT !.stepQueue = Append(@, r.entry)]
    [] r.op = "insertTurn" -> [d EXCEPT !.turnQueue = Append(@, r.msg)]
    [] r.op = "claim"      -> [turnQueue |-> From(d.turnQueue, r.turns),
                               stepQueue |-> From(d.stepQueue, r.steps)]
    [] r.op = "clear"      -> [turnQueue |-> <<>>, stepQueue |-> <<>>]
    [] OTHER               -> d

(* A record of the log; a store that lost a write records nothing more.     *)
Record(r) ==
  /\ durable' = IF lost THEN durable ELSE FoldSplice(durable, r)
  /\ entered' = IF r.op = "enter" /\ ~lost
                THEN [entered EXCEPT ![r.msg] = @ + 1] ELSE entered

HasWaking(turns, steps) ==
  turns # <<>> \/ \E i \in DOMAIN steps : steps[i].waking
HasWakingPending == HasWaking(turnQueue, stepQueue)

Awaits == {"idle", "preStep", "stepping", "stopping", "flushing"}
Live == phase \notin {"dead", "closed"}
AtAwait == script = <<>> /\ phase \in Awaits

Init ==
  /\ turnQueue = <<>> /\ stepQueue = <<>> /\ heldQueue = <<>>
  /\ pendingClaim = NoClaim /\ claimed = <<>> /\ step = 0
  /\ phase = "idle"
  /\ aborted = FALSE /\ disposed = FALSE /\ lost = FALSE
  /\ script = <<>>
  /\ durable = [turnQueue |-> <<>>, stepQueue |-> <<>>]
  /\ entered = [m \in Msg |-> 0]
  /\ unsent = Msg /\ dropped = {}
  /\ gaps = {} /\ lives = 1 /\ cancels = 0

-----------------------------------------------------------------------------
(* The segment in progress appends its next record.                         *)
WriteRecord ==
  /\ script # <<>>
  /\ Record(Head(script))
  /\ script' = Tail(script)
  /\ UNCHANGED <<inbox, phase, claimed, step, aborted, disposed, lost, ghosts>>

(* send: append, record, and start the driver when it is idle.  Once        *)
(* disposal began a prompt is refused and step input is recorded quiet.     *)
Wakes(m) == IF m \in Prompt \union Steer THEN {TRUE}
            ELSE IF m \in Notice THEN BOOLEAN ELSE {FALSE}

SendTurn(m) ==
  /\ m \in Prompt
  /\ IF disposed
     THEN /\ dropped' = dropped \union {m}
          /\ UNCHANGED <<turnQueue, phase, durable, entered>>
     ELSE /\ turnQueue' = Append(turnQueue, m)
          /\ Record(InsertTurn(m))
          /\ phase' = IF phase = "idle" THEN "begin" ELSE phase
          /\ UNCHANGED dropped
  /\ UNCHANGED stepQueue

SendStep(m, waking) ==
  /\ m \notin Prompt
  /\ LET entry == [msg |-> m, waking |-> waking /\ ~disposed]
     IN  /\ stepQueue' = Append(stepQueue, entry)
         /\ Record(Insert(entry))
         /\ phase' = IF entry.waking /\ phase = "idle" THEN "begin" ELSE phase
  /\ UNCHANGED <<turnQueue, dropped>>

Send(m) ==
  /\ AtAwait /\ m \in unsent
  /\ SendTurn(m) \/ \E waking \in Wakes(m) : SendStep(m, waking)
  /\ unsent' = unsent \ {m}
  /\ UNCHANGED <<heldQueue, pendingClaim, claimed, step, aborted, disposed,
                 lost, script, gaps, lives, cancels>>

(* cancel by a person: a durable clear, unless the queue is kept.  The      *)
(* claim in flight is recorded first; job notices are put back, quiet.      *)
Queued == Messages(stepQueue) \o heldQueue \o turnQueue

(* Mutant: the live queues are cleared, the log is not told.                *)
ClearLiveOnly ==
  /\ script' = Commit
  /\ turnQueue' = <<>> /\ stepQueue' = <<>> /\ heldQueue' = <<>>
  /\ pendingClaim' = NoClaim
  /\ dropped' = dropped \union Others(Queued)
                        \union (IF phase = "preStep" THEN Others(claimed) ELSE {})

ClearDurably ==
  LET kept == Notices(Queued)
  IN  /\ script' = Commit \o (IF Queued = <<>> THEN <<>> ELSE <<Clear>>)
                          \o Inserts(kept)
      /\ stepQueue' = Quiet(kept)
      /\ turnQueue' = <<>> /\ heldQueue' = <<>>
      /\ pendingClaim' = NoClaim
      /\ dropped' = dropped \union Others(Queued)
                            \union (IF phase = "preStep" THEN Others(claimed)
                                    ELSE {})

Cancel(keepInbox) ==
  /\ AtAwait /\ cancels < MaxCancels
  /\ cancels' = cancels + 1
  /\ IF keepInbox THEN UNCHANGED <<inbox, script, dropped>> ELSE ClearDurably
  /\ gaps' = IF disposed /\ ~keepInbox /\ Queued # <<>>
             THEN gaps \union {"clearedDisposed"} ELSE gaps
  /\ aborted' = (aborted \/ phase # "idle")
  /\ UNCHANGED <<phase, claimed, step, disposed, lost, durable, entered,
                 unsent, lives>>

(* cancel by disposal: the live queues go, the log keeps what they held.    *)
Dispose ==
  /\ AtAwait /\ ~disposed
  /\ disposed' = TRUE
  /\ turnQueue' = <<>> /\ stepQueue' = <<>> /\ heldQueue' = <<>>
  /\ aborted' = (aborted \/ phase # "idle")
  /\ UNCHANGED <<pendingClaim, phase, claimed, step, lost, script, durable,
                 entered, ghosts>>

-----------------------------------------------------------------------------
(* Inbox.claim: all step input, and on the first step one prompt before it. *)
TakeClaim(first) ==
  LET turns == IF first /\ turnQueue # <<>> THEN 1 ELSE 0
      steps == Len(stepQueue)
  IN  /\ claimed' = SubSeq(turnQueue, 1, turns) \o Messages(stepQueue)
      /\ turnQueue' = From(turnQueue, turns)
      /\ stepQueue' = <<>>
      /\ pendingClaim' = [steps |-> steps, turns |-> turns]
      /\ gaps' = IF heldQueue # <<>> /\ steps > 0
                 THEN gaps \union {"overtaken"} ELSE gaps

(* turn: a fresh abort controller, the first step, its claim.               *)
BeginTurn ==
  /\ phase = "begin" /\ script = <<>>
  /\ phase' = "preStep" /\ step' = 1 /\ aborted' = FALSE
  /\ TakeClaim(TRUE)
  /\ UNCHANGED <<heldQueue, disposed, lost, script, durable, entered, unsent,
                 dropped, lives, cancels>>

(* The head of the step loop: an abort ends the turn before a claim.        *)
NextStep ==
  /\ phase = "claim" /\ script = <<>>
  /\ IF aborted
     THEN phase' = "ending" /\ UNCHANGED <<inbox, claimed, step, gaps>>
     ELSE /\ phase' = "preStep" /\ step' = step + 1
          /\ TakeClaim(FALSE) /\ UNCHANGED heldQueue
  /\ UNCHANGED <<aborted, disposed, lost, script, durable, entered, unsent,
                 dropped, lives, cancels>>

(* commitClaim, then requeueNotices: what the step does not enter is        *)
(* consumed, except a job's notice, which goes back behind the claim.       *)
(* Mutant: a notice is consumed like any other message.                     *)
ConsumeAll(refused) ==
  /\ script' = Commit
  /\ pendingClaim' = NoClaim
  /\ dropped' = dropped \union Others(refused)
  /\ claimed' = <<>> /\ phase' = "ending"
  /\ UNCHANGED <<turnQueue, stepQueue, heldQueue>>

ConsumeClaim(refused) ==
  /\ script' = Commit \o Inserts(Notices(refused))
  /\ stepQueue' = stepQueue \o Quiet(Notices(refused))
  /\ pendingClaim' = NoClaim
  /\ dropped' = dropped \union Others(refused)
  /\ claimed' = <<>>
  /\ phase' = "ending"
  /\ UNCHANGED <<turnQueue, heldQueue>>

(* The pre-step await throws, finds the turn aborted, or is rejected.       *)
PreStepFails ==
  /\ phase = "preStep" /\ script = <<>>
  /\ ConsumeClaim(claimed)
  /\ UNCHANGED <<step, aborted, disposed, lost, durable, entered, unsent,
                 gaps, lives, cancels>>

(* The pre-step await enters the batch, less what a listener narrowed out.  *)
PreStepEnters(out) ==
  LET enters  == Only(claimed, Msg \ out)
      refused == Only(claimed, out)
  IN  /\ phase = "preStep" /\ script = <<>> /\ ~aborted
      /\ out \subseteq ToSet(claimed)
      /\ IF step = 1 /\ enters = <<>>
         THEN ConsumeClaim(refused)
         ELSE /\ heldQueue' = heldQueue \o Notices(refused)
              /\ script' = Inserts(Notices(refused)) \o Enters(enters) \o Commit
              /\ pendingClaim' = NoClaim
              /\ dropped' = dropped \union Others(refused)
              /\ claimed' = <<>>
              /\ phase' = "stepping"
              /\ UNCHANGED <<turnQueue, stepQueue>>
      /\ UNCHANGED <<step, aborted, disposed, lost, durable, entered, unsent,
                     gaps, lives, cancels>>

(* step returns or throws: it ends the turn (an error, the token limit, a   *)
(* conclusion, a lost write), owes a request, or stops.                     *)
Loop == IF step >= MaxSteps THEN "ending" ELSE "claim"

StepReturns ==
  /\ phase = "stepping" /\ script = <<>>
  /\ phase' \in {"ending", Loop, IF stepQueue # <<>> THEN Loop ELSE "stopping"}
  /\ UNCHANGED <<inbox, claimed, step, aborted, disposed, lost, script,
                 durable, entered, ghosts>>

(* agent/turn-stopping was heard: input that arrived meanwhile continues.   *)
TurnStops ==
  /\ phase = "stopping" /\ script = <<>>
  /\ phase' \in {"ending", IF stepQueue # <<>> THEN Loop ELSE "ending"}
  /\ (phase' = "ending" \/ stepQueue # <<>>)
  /\ UNCHANGED <<inbox, claimed, step, aborted, disposed, lost, script,
                 durable, entered, ghosts>>

(* The turn's finally: held notices are step input again, turn/end, flush.  *)
EndTurn ==
  /\ phase = "ending" /\ script = <<>>
  /\ stepQueue' = stepQueue \o Quiet(heldQueue)
  /\ heldQueue' = <<>>
  /\ phase' = "flushing"
  /\ UNCHANGED <<turnQueue, pendingClaim, claimed, step, aborted, disposed,
                 lost, script, durable, entered, ghosts>>

(* Mutant: one turn per wake.                                               *)
FlushedOnce ==
  /\ phase = "flushing" /\ script = <<>> /\ phase' = "idle"
  /\ UNCHANGED <<inbox, claimed, step, aborted, disposed, lost, script,
                 durable, entered, ghosts>>

(* run: another turn while waking work is pending.  A flush that throws     *)
(* ends the run, unless the turn already ended on the lost write.           *)
Flushed ==
  /\ phase = "flushing" /\ script = <<>>
  /\ \/ phase' = IF HasWakingPending /\ ~disposed THEN "begin" ELSE "idle"
     \/ lost /\ phase' = "idle"
  /\ UNCHANGED <<inbox, claimed, step, aborted, disposed, lost, script,
                 durable, entered, ghosts>>

-----------------------------------------------------------------------------
(* Mutant: disposal waits for the queues to be empty as well.               *)
CloseWhenEmpty ==
  /\ disposed /\ phase = "idle" /\ script = <<>>
  /\ turnQueue = <<>> /\ stepQueue = <<>>
  /\ phase' = "closed"
  /\ UNCHANGED <<inbox, claimed, step, aborted, disposed, lost, script,
                 durable, entered, ghosts>>

(* A disposed agent that is idle detaches, and its session closes.          *)
Close ==
  /\ disposed /\ phase = "idle" /\ script = <<>>
  /\ phase' = "closed"
  /\ UNCHANGED <<inbox, claimed, step, aborted, disposed, lost, script,
                 durable, entered, ghosts>>

StoreFails ==
  /\ Live /\ ~lost
  /\ lost' = TRUE
  /\ UNCHANGED <<inbox, phase, claimed, step, aborted, disposed, script,
                 durable, entered, ghosts>>

(* A kill of the process.  Two windows are named, for the properties: in    *)
(* the middle of a segment's records, and while the pre-step await holds a  *)
(* notice whose claim a cancel has already recorded.                        *)
InLimbo(m) == phase = "preStep" /\ pendingClaim = NoClaim /\ m \in ToSet(claimed)

Windows == (IF script # <<>> THEN {"segment"} ELSE {})
  \union (IF \E n \in Notice : InLimbo(n) THEN {"recordedClaim"} ELSE {})

Kill ==
  /\ Live
  /\ phase' = "dead"
  /\ script' = <<>>
  /\ gaps' = gaps \union Windows
  /\ turnQueue' = <<>> /\ stepQueue' = <<>> /\ heldQueue' = <<>>
  /\ pendingClaim' = NoClaim /\ claimed' = <<>> /\ step' = 0
  /\ aborted' = FALSE /\ disposed' = FALSE
  /\ UNCHANGED <<lost, durable, entered, unsent, dropped, lives, cancels>>

(* resume: the live queues are the fold of the log; waking work restored    *)
(* starts the driver once the agent is published (wakeIfPending).           *)
Resume ==
  /\ phase \in {"dead", "closed"} /\ ~lost /\ lives < MaxLives
  /\ turnQueue' = durable.turnQueue /\ stepQueue' = durable.stepQueue
  /\ heldQueue' = <<>> /\ pendingClaim' = NoClaim
  /\ claimed' = <<>> /\ step' = 0
  /\ aborted' = FALSE /\ disposed' = FALSE
  /\ phase' = IF HasWaking(durable.turnQueue, durable.stepQueue)
              THEN "begin" ELSE "idle"
  /\ lives' = lives + 1
  /\ UNCHANGED <<lost, script, durable, entered, unsent, dropped, gaps, cancels>>

Driver ==
  \/ WriteRecord \/ BeginTurn \/ NextStep
  \/ PreStepFails \/ (\E out \in SUBSET ToSet(claimed) : PreStepEnters(out))
  \/ StepReturns \/ TurnStops \/ EndTurn \/ Flushed \/ Close

Environment ==
  \/ \E m \in Msg : Send(m)
  \/ \E keepInbox \in BOOLEAN : Cancel(keepInbox)
  \/ Dispose \/ StoreFails \/ Kill \/ Resume

Next == Driver \/ Environment

(* Every await of the driver settles: a listener, a stream or a tool body   *)
(* returns, if only because its abort signal or deadline told it to.        *)
Spec == Init /\ [][Next]_vars /\ WF_vars(Driver)

-----------------------------------------------------------------------------
(* Where the log and the live inbox can part, each met by a legal run:      *)
(*   overtaken        a later claim of a turn counts past a held notice     *)
(*   recordedClaim    a kill while a cancelled pre-step await holds a notice*)
(*   segment          a kill between two records of one segment             *)
(*   clearedDisposed  a person's cancel after disposal emptied the live     *)
(*                    queues clears the log's queue with late input         *)
(* The properties say what holds up to the first of them; two of them are   *)
(* shown by runs of their own.                                              *)
Gaps == {"overtaken", "recordedClaim", "segment", "clearedDisposed"}

Records == [op : {"insert"}, entry : Entry]
  \union [op : {"insertTurn", "enter"}, msg : Msg]
  \union [op : {"claim"}, steps : Nat, turns : Nat] \union {Clear}

(* The type invariant of the driver, its inbox and what the log folds to.   *)
TypeOK ==
  /\ turnQueue \in Seq(Msg) /\ stepQueue \in Seq(Entry)
  /\ heldQueue \in Seq(Msg) /\ claimed \in Seq(Msg)
  /\ pendingClaim \in [steps : Nat, turns : {0, 1}]
  /\ phase \in Awaits \union {"begin", "claim", "ending", "closed", "dead"}
  /\ step \in 0..MaxSteps
  /\ {aborted, disposed, lost} \subseteq BOOLEAN
  /\ gaps \subseteq Gaps
  /\ script \in Seq(Records)
  /\ durable \in [turnQueue : Seq(Msg), stepQueue : Seq(Entry)]
  /\ entered \in [Msg -> Nat]
  /\ unsent \subseteq Msg /\ dropped \subseteq Msg
  /\ lives \in 1..MaxLives /\ cancels \in 0..MaxCancels

InFold(m) == m \in ToSet(durable.turnQueue) \union ToSet(Messages(durable.stepQueue))
Recoverable(m) == entered[m] > 0 \/ InFold(m)

(* A store still recording, and none of the known gaps met so far.          *)
Sound == ~lost /\ gaps = {}

(* "A crash re-delivers, never loses": whenever no segment is half written, *)
(* a message that was accepted and that nobody withdrew, rejected or        *)
(* narrowed out has entered the history, is in what a resume restores, or   *)
(* (a notice whose claim a cancel recorded) is about to be put back.        *)
NothingLost ==
  Sound /\ script = <<>> =>
    \A m \in Msg \ (unsent \union dropped) : Recoverable(m) \/ InLimbo(m)

(* The fold of the log is the live inbox on every exit path: less the claim *)
(* in flight, which the front of the fold still holds, it has the same      *)
(* prompts in the same order and the same step input, held notices included.*)
FoldMatchesLive ==
  Sound /\ script = <<>> /\ Live /\ ~disposed =>
    LET rest == From(durable.stepQueue, pendingClaim.steps)
        front == SubSeq(durable.turnQueue, 1, pendingClaim.turns)
                 \o Messages(SubSeq(durable.stepQueue, 1, pendingClaim.steps))
    IN  /\ From(durable.turnQueue, pendingClaim.turns) = turnQueue
        /\ Len(rest) = Len(stepQueue) + Len(heldQueue)
        /\ ToSet(rest) = ToSet(stepQueue \o Quiet(heldQueue))
        /\ pendingClaim # NoClaim => ToSet(front) = ToSet(claimed)

(* No message enters the model's history twice, over any number of          *)
(* lifecycles.                                                              *)
EnteredOnce == Sound => \A m \in Msg : entered[m] <= 1

(* What a person's cancel withdrew, or a listener refused, never comes      *)
(* back: not in the live inbox, not from the log of a later lifecycle.      *)
WithdrawnStaysOut ==
  Sound /\ script = <<>> =>
    \A m \in dropped :
      ~InFold(m) /\ m \notin ToSet(Queued) /\ entered[m] = 0

(* An idle agent never sits on waking work: no send, requeue or restore     *)
(* falls between the last look at the queue and the driver's stop.          *)
NoStrandedWork ==
  phase = "idle" /\ script = <<>> /\ ~disposed /\ ~lost => ~HasWakingPending

(* The inbox as a whole: typed state, the fold is the live inbox, nothing    *)
(* enters twice, nothing that was withdrawn enters at all, and no waking     *)
(* work is left lying.                                                       *)
InboxIsSound == TypeOK /\ FoldMatchesLive /\ EnteredOnce /\ WithdrawnStaysOut /\ NoStrandedWork

(* Every queued prompt is taken by a turn, unless the session ends first or *)
(* its store lost a write (the refused flush then ends the run).            *)
PromptsRun ==
  \A m \in Prompt :
    m \in ToSet(turnQueue) ~> (m \notin ToSet(turnQueue) \/ ~Live \/ lost)

(* Disposal always completes: the driver winds down and the session closes. *)
DisposalCompletes == disposed ~> ~Live

(* What `Inbox.hold` says of a notice it holds: "a crash still re-delivers   *)
(* them".  Claims drain counts from the front of the fold, and a held notice *)
(* sits there before step input that arrived after it.                       *)
HeldNoticeSurvives ==
  ~lost /\ gaps \subseteq {"overtaken"} /\ script = <<>> =>
    \A m \in Notice \ unsent : Recoverable(m) \/ InLimbo(m)

(* "A claim commits after the messages it entered, so a crash re-delivers,  *)
(* never loses": a cancel records the claim of a pre-step await in flight,  *)
(* and the notices of that claim are put back only when the await returns.  *)
CancelledClaimSurvives ==
  ~lost /\ gaps \subseteq {"recordedClaim"} /\ script = <<>> =>
    \A m \in Notice \ unsent : Recoverable(m) \/ InLimbo(m)
=============================================================================
