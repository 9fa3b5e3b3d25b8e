--------------------------- MODULE Protocol_proofs ---------------------------
(***************************************************************************)
(* The protocol host's calls, and one session's window at a browser tab.   *)
(*                                                                         *)
(* HostCalls: that a question always finds a person, that what a           *)
(* subscriber was told is the truth, that an acknowledged prompt was taken *)
(* by an agent that lives and is accepted, and that an answered shutdown   *)
(* leaves up only what another still sweeps, for any sessions, clients,    *)
(* prompts and shutdowns. The last three need to know who is behind an     *)
(* agent: a child the turn of its parent, a resume its entry in the table, *)
(* any other agent a handle this host holds or some shutdown sweeps        *)
(* (Behind), none of them two (Hands), and an acquire that still waits     *)
(* (Waited); and that a caller that has its agent has a live one unless a  *)
(* shutdown began (Got).                                                   *)
(*                                                                         *)
(* SessionWindow: that an attached window is whole and a quiet one is      *)
(* current, for any limits, log, connections and resumes. They need to     *)
(* know that of each kind of request one at most is on its way, with its   *)
(* answer (LineInv); that nothing is heard from the open to the attach     *)
(* (BootInv); what every answer on its way holds, against the window it    *)
(* will be put into (WholeInv, CutInv); and that every fact a window has   *)
(* not is queued or on the wire, before any trace past it (PendingInv).    *)
(***************************************************************************)
EXTENDS HostCalls, SessionWindow, FiniteSetTheorems, SequenceTheorems, TLAPS

Underway == {"waiting", "got", "disposing"}

\* A call under way knows its session.
Aimed == \A p \in Prompt : call[p].st \in Underway => call[p].on \in Session

\* A child inside its parent's call: its parent's turn is open, and it is no
\* resume and no handle of this host's.
Inside(k) ==
  /\ Parent[k] \in running
  /\ k \notin resuming /\ k \notin owned /\ k \notin LeftToSweep
  /\ phase[k] \in {"building", "up", "closing", "leaving"}

\* A resume is nobody's yet.
Resumed(s) ==
  /\ phase[s] \in {"building", "joined", "closing", "leaving"}
  /\ s \notin owned /\ s \notin LeftToSweep

\* Somebody is behind every agent; what is held is up.
Behind ==
  /\ \A k \in delegated : Inside(k)
  /\ \A s \in resuming : Resumed(s)
  /\ \A s \in owned \cup LeftToSweep : phase[s] = "up"
  /\ \A s \in Session : phase[s] = "joined" => s \in resuming
  /\ \A s \in Session \ (delegated \cup resuming) :
       /\ phase[s] = "up" => s \in owned \cup LeftToSweep
       /\ ~ShuttingDown => phase[s] \notin {"closing", "leaving"}
  /\ owned \cap LeftToSweep = {}

\* What a shutdown has taken and not disposed of, it sweeps, and no other does.
Hands ==
  /\ \A k \in Halt : stop[k].left # {} => stop[k].st = "sweeping"
  /\ \A i, j \in Halt : i # j => stop[i].left \cap stop[j].left = {}

\* Nobody builds what no caller waits for.
Waited ==
  \A s \in Session \ delegated :
    phase[s] \in {"building", "joined"} => \E p \in Prompt : call[p].st = "waiting" /\ call[p].on = s

\* Who has an agent has one that is up, and no parent's.
Got ==
  \A p \in Prompt : call[p].st = "got" /\ ~call[p].early /\ ~ShuttingDown =>
    phase[call[p].on] = "up" /\ call[p].on \notin delegated

\* What the agents' half of the host keeps.
Races ==
  Aimed /\ Behind /\ Hands /\ Waited /\ Got /\ AcknowledgedIsKept /\ ShutdownLeavesNothing

(* The control plane.  What a subscriber was told can be behind only where a *)
(* summary is owed; an acquire that reaches a child hides what it does until *)
(* it is answered (Reaching).                                                *)

Quiet == ~ShuttingDown /\ ~closed
Listens(c) == Open(c) /\ conn[c].control
Shown(s) == Registered(s) /\ ~UnderParent(s)
Unseen(c, s) == told[c][s] \in {Unheard, Closed}

\* A child whose resume is under way, or has just handed it to its callers.
Reaching(s) ==
  /\ Parent[s] # Nobody
  /\ \/ s \in resuming /\ Registered(s)
     \/ s \in owned /\ \E p \in Prompt : call[p].st = "got" /\ call[p].on = s

\* What a subscriber was told, or will be by the end of the tick.
Heard(c, s) ==
  \/ s \in withheld \/ owed[s] = "closed" \/ Reaching(s)
  \/ Shown(s) /\ (owed[s] = "live" \/ told[c][s] = SummaryOf(s))
  \/ ~Shown(s) /\ Unseen(c, s)

Plane == Quiet => \A c \in Client, s \in Session : Listens(c) => Heard(c, s)

\* A session no resume brought here: a child in its parent's call, one not yet made.
Untold(s) == s \in delegated \/ (phase[s] \in {"unborn", "building"} /\ s \notin resuming)

Seen ==
  /\ told = [c \in Client |-> told[c]]
  /\ ~closed => \A c \in Client : ~Listens(c) => \A s \in Session : told[c][s] = Unheard
  /\ \A c \in Client, s \in Session : Untold(s) => Unseen(c, s)

\* What an owing, a resume and a parked question stand for.
Owings ==
  /\ \A s \in Session : owed[s] = "closed" =>
       /\ ~Registered(s)
       /\ phase[s] \in {"unborn", "building"} => s \in resuming
  /\ \A s \in resuming : \E p \in Prompt : call[p].st = "waiting" /\ call[p].on = s
  /\ \A s \in parked : asked[s] # "no"

PlaneInv == Plane /\ Seen /\ Owings

IInv == TypeOK /\ QuestionsFindAPerson /\ Races /\ PlaneInv

\* The kinds of what the host holds and sweeps, and of the agents.
AgentTypes ==
  /\ phase \in [Session -> {"unborn", "stored", "building", "joined", "up", "closing", "leaving"}]
  /\ delegated \subseteq Session /\ resuming \subseteq Session
  /\ owned \subseteq Session /\ LeftToSweep \subseteq Session

\* A step of a shutdown.
Moves(k) == Sweep(k) \/ SweepNext(k) \/ \E c \in Client : Shutdown(c, k)

-----------------------------------------------------------------------------
\* A step of a shutdown waits for the acquires in flight, takes what the host
\* holds, goes on with what it had taken, or is the last.
LEMMA StopOutcomes ==
  ASSUME NEW k \in Halt, Moves(k)
  PROVE  /\ Elsewhere /\ stop[k].st # "answered"
         /\ \/ /\ stop[k].st = "sweeping" => stop[k].left = {}
               /\ Drains(k) \/ TakesOwned(k) \/ (InFlight = {} /\ owned = {} /\ Answers(k))
            \/ /\ stop[k].st = "sweeping"
               /\ DisposesOf(k, stop[k].left) /\ UNCHANGED owned
BY DEF Moves, Sweep, SweepNext, Shutdown, Again

\* Whatever it takes, it disposes of one handle and keeps the others.
LEMMA DisposeOutcome ==
  ASSUME TypeOK, NEW k \in Halt, NEW handles \in SUBSET Session, DisposesOf(k, handles)
  PROVE  \E s \in Session, new \in Stages :
           /\ s \in handles /\ Disposes(s) /\ UNCHANGED <<conn, parked, asks, owed, closed>>
           /\ new.st = "sweeping" /\ new.left = handles \ {s} /\ stop' = [stop EXCEPT ![k] = new]
<1>1. PICK s \in handles :
        /\ Disposes(s) /\ UNCHANGED <<conn, parked, asks, owed, closed>>
        /\ stop' = [stop EXCEPT ![k] = [st |-> "sweeping", awaits |-> {},
                                         left |-> handles \ {s}, now |-> s]]
  BY DEF DisposesOf
<1> DEFINE new == [st |-> "sweeping", awaits |-> {}, left |-> handles \ {s}, now |-> s]
<1>2. new \in Stages /\ new.st = "sweeping" /\ new.left = handles \ {s}
  BY DEF Stages
<1>3. stop' = [stop EXCEPT ![k] = new]
  BY <1>1
<1> HIDE DEF new
<1> QED
  BY <1>1, <1>2, <1>3

\* To wait, or to be answered, a shutdown has nothing in hand.
LEMMA EmptyHanded ==
  ASSUME TypeOK, NEW k \in Halt
  PROVE  /\ Drains(k) => \E new \in Stages :
              new.st = "draining" /\ new.left = {} /\ stop' = [stop EXCEPT ![k] = new]
         /\ Answers(k) => \E new \in Stages :
              new.st = "answered" /\ new.left = {} /\ stop' = [stop EXCEPT ![k] = new]
<1> DEFINE drain == [NoStop EXCEPT !.st = "draining", !.awaits = InFlight]
           answer == [NoStop EXCEPT !.st = "answered"]
<1>1. /\ drain \in Stages /\ drain.st = "draining" /\ drain.left = {}
      /\ answer \in Stages /\ answer.st = "answered" /\ answer.left = {}
  BY DEF NoStop, Stages, InFlight
<1>2. /\ Drains(k) => stop' = [stop EXCEPT ![k] = drain]
      /\ Answers(k) => stop' = [stop EXCEPT ![k] = answer]
  BY DEF Drains, Answers
<1> HIDE DEF drain, answer
<1> QED
  BY <1>1, <1>2

\* Once one has begun, the host is shutting down for good.
LEMMA MovesShut == ASSUME TypeOK, NEW k \in Halt, Moves(k) PROVE ShuttingDown'
<1>0. owned \in SUBSET Session /\ stop[k].left \in SUBSET Session
  BY DEF TypeOK, Stages
<1>1. \E new : new.st # "no" /\ stop' = [stop EXCEPT ![k] = new]
  BY <1>0, StopOutcomes, DisposeOutcome, EmptyHanded DEF TakesOwned
<1>2. PICK new : new.st # "no" /\ stop' = [stop EXCEPT ![k] = new]
  BY <1>1
<1>3. stop'[k].st # "no"
  BY <1>2 DEF TypeOK
<1> QED
  BY <1>3 DEF ShuttingDown

\* Who else shuts down sweeps on while one of them moves.
LEMMA StopMoves ==
  ASSUME TypeOK, Hands, NEW k \in Halt, NEW new,
         stop[k].st # "answered", new.st # "no", new.left # {} => new.st = "sweeping",
         \A i \in Halt \ {k} : new.left \cap stop[i].left = {},
         stop' = [stop EXCEPT ![k] = new]
  PROVE  /\ ShuttingDown' /\ Hands' /\ (Answered' <=> Answered \/ new.st = "answered")
         /\ LeftToSweep' = (LeftToSweep \ stop[k].left) \cup new.left
<1>1. /\ stop'[k] = new
      /\ \A i \in Halt \ {k} : stop'[i] = stop[i]
  BY DEF TypeOK
<1>2. ShuttingDown' /\ (Answered' <=> Answered \/ new.st = "answered")
  BY <1>1 DEF ShuttingDown, Answered
<1>3. Hands'
  BY <1>1 DEF Hands
<1>4. ASSUME NEW x PROVE x \in LeftToSweep' <=> x \in (LeftToSweep \ stop[k].left) \cup new.left
  <2>1. x \in LeftToSweep <=> \E i \in Halt : x \in stop[i].left
    BY DEF LeftToSweep, Hands
  <2>2. x \in LeftToSweep' <=> \E i \in Halt : x \in stop'[i].left
    BY <1>3 DEF LeftToSweep, Hands
  <2>3. \A i \in Halt \ {k} : x \in stop[i].left => x \notin stop[k].left
    BY DEF Hands
  <2> QED
    BY <1>1, <2>1, <2>2, <2>3
<1> QED
  BY <1>2, <1>3, <1>4

\* While none has begun, none sweeps and none was answered.
LEMMA AgentsTyped ==
  ASSUME TypeOK
  PROVE  AgentTypes /\ (~ShuttingDown => ~Answered /\ LeftToSweep = {})
<1>1. AgentTypes
  BY DEF AgentTypes, TypeOK, LeftToSweep, Stages
<1>2. ~ShuttingDown => ~Answered /\ LeftToSweep = {}
  BY DEF ShuttingDown, Answered, LeftToSweep
<1> QED
  BY <1>1, <1>2

\* What moves no shutdown leaves what is said of them.
LEMMA StopsFrame ==
  ASSUME Hands, UNCHANGED stop
  PROVE  /\ Hands' /\ (ShuttingDown' <=> ShuttingDown) /\ (Answered' <=> Answered)
         /\ LeftToSweep' = LeftToSweep
BY DEF Hands, ShuttingDown, Answered, LeftToSweep

\* What becomes of the callers of an acquire, and of nobody else.
LEMMA BecomeFacts ==
  ASSUME TypeOK, NEW ps \in SUBSET Prompt,
         NEW st \in {"got", "disposing", "refused"}, Become(ps, st)
  PROVE  /\ call' \in [Prompt -> Calls]
         /\ \A p \in Prompt : call'[p].early = call[p].early /\ call'[p].kept = call[p].kept
         /\ \A p \in ps : call'[p].st = st /\ (st # "refused" => call'[p].on = call[p].on)
         /\ \A p \in Prompt \ ps : call'[p] = call[p]
<1>1. \A p \in Prompt : call[p] \in Calls
  BY DEF TypeOK
<1>2. call' \in [Prompt -> Calls]
  <2> SUFFICES ASSUME NEW p \in Prompt
               PROVE  [call[p] EXCEPT !.st = st, !.on = IF st = "refused" THEN Nobody ELSE @] \in Calls
    BY <1>1 DEF Become
  <2> QED
    BY <1>1 DEF Calls
<1>3. \A p \in Prompt : call'[p] = IF p \notin ps THEN call[p]
         ELSE [call[p] EXCEPT !.st = st, !.on = IF st = "refused" THEN Nobody ELSE @]
  BY DEF Become
<1>4. ASSUME NEW p \in Prompt
      PROVE  /\ call'[p].early = call[p].early /\ call'[p].kept = call[p].kept
             /\ p \in ps => call'[p].st = st /\ (st # "refused" => call'[p].on = call[p].on)
             /\ p \notin ps => call'[p] = call[p]
  <2>1. call[p] \in Calls
    BY <1>1
  <2> QED
    BY <2>1, <1>3 DEF Calls
<1> QED
  BY <1>2, <1>4

\* What becomes of one prompt that is refused or waits.
LEMMA AcquiresFacts ==
  ASSUME TypeOK, NEW p \in Prompt, NEW s \in Session \cup {Nobody},
         NEW st \in {"waiting", "refused"}, Acquires(p, s, st)
  PROVE  /\ call' \in [Prompt -> Calls]
         /\ call'[p].st = st /\ (st # "refused" => call'[p].on = s)
         /\ \A q \in Prompt \ {p} : call'[q] = call[q]
<1>1. \A q \in Prompt : call[q] \in Calls
  BY DEF TypeOK
<1>2. [call[p] EXCEPT !.st = st, !.on = IF st = "refused" THEN Nobody ELSE s] \in Calls
  BY <1>1 DEF Calls
<1>3. call' = [call EXCEPT ![p] = [call[p] EXCEPT !.st = st, !.on = IF st = "refused" THEN Nobody ELSE s]]
  BY <1>1 DEF Acquires, TypeOK, Calls
<1> QED
  BY <1>1, <1>2, <1>3 DEF Calls, TypeOK

\* What attach, detach and subscribe make of a connection is one.
LEMMA ConnectionTypes ==
  ASSUME NEW k \in Connections
  PROVE  /\ [k EXCEPT !.control = TRUE] \in Connections
         /\ [k EXCEPT !.all = FALSE, !.watch = {}] \in Connections
         /\ \A s \in Session : [k EXCEPT !.all = FALSE, !.watch = @ \cup {s}] \in Connections
         /\ \A s \in Session : [k EXCEPT !.all = FALSE, !.watch = @ \ {s}] \in Connections
         /\ Fresh \in Connections /\ Gone \in Connections
BY DEF Connections, Fresh, Gone

\* A prompt's place stays well formed, whatever moves it.
LEMMA CallTypes == ASSUME TypeOK, Aimed, Next PROVE call' \in [Prompt -> Calls]
<1>1. call \in [Prompt -> Calls]
  BY DEF TypeOK
<1>2. ASSUME NEW p \in Prompt, NEW s \in Session, PromptNew(p, s) PROVE call' \in [Prompt -> Calls]
  BY <1>2, AcquiresFacts DEF PromptNew
<1>3. ASSUME NEW p \in Prompt, NEW s \in Session, PromptAt(p, s) PROVE call' \in [Prompt -> Calls]
  <2>1. ASSUME NEW b \in BOOLEAN PROVE [call[p] EXCEPT !.st = "got", !.on = s, !.early = b] \in Calls
    BY <1>1 DEF Calls
  <2>2. CASE \E st \in {"waiting", "refused"} : Acquires(p, s, st)
    BY <2>2, AcquiresFacts
  <2>3. ASSUME NEW b \in BOOLEAN, call' = [call EXCEPT ![p] = [call[p] EXCEPT !.st = "got", !.on = s, !.early = b]]
        PROVE  call' \in [Prompt -> Calls]
    BY <1>1, <2>1, <2>3
  <2>4. \/ Acquires(p, s, "waiting") \/ Acquires(p, s, "refused")
        \/ call' = [call EXCEPT ![p] = [call[p] EXCEPT !.st = "got", !.on = s, !.early = s \in resuming]]
    BY <1>1, <1>3 DEF PromptAt
  <2>5. (s \in resuming) \in BOOLEAN
    OBVIOUS
  <2>6. CASE call' = [call EXCEPT ![p] = [call[p] EXCEPT !.st = "got", !.on = s, !.early = s \in resuming]]
    BY <2>3, <2>5, <2>6
  <2> QED
    BY <2>2, <2>4, <2>6
<1>4. ASSUME NEW p \in Prompt, Deliver(p) PROVE call' \in [Prompt -> Calls]
  <2>1. CASE Delivers(p, call[p].on)
    <3>1. [call[p] EXCEPT !.st = "accepted", !.on = Nobody, !.kept = phase[call[p].on] = "up"] \in Calls
      BY <1>1 DEF Calls
    <3>2. call' = [call EXCEPT ![p] = [call[p] EXCEPT !.st = "accepted", !.on = Nobody,
                                                      !.kept = phase[call[p].on] = "up"]]
      BY <1>1, <2>1 DEF Delivers, Calls
    <3> QED
      BY <1>1, <3>1, <3>2
  <2>2. CASE Straggles(p, call[p].on)
    BY <2>2, BecomeFacts DEF Straggles
  <2> QED
    BY <1>4, <2>1, <2>2 DEF Deliver
<1>5. ASSUME NEW s \in Session, Become(Waiting(s), "got") \/ Become(Waiting(s), "refused")
      PROVE  call' \in [Prompt -> Calls]
  BY <1>5, BecomeFacts DEF Waiting
<1>6. CASE UNCHANGED call
  BY <1>1, <1>6
<1>7. CASE Prompts
  <2>1. ASSUME NEW p \in Prompt, StragglerGone(p) PROVE call' \in [Prompt -> Calls]
    BY <2>1, BecomeFacts DEF StragglerGone
  <2> QED
    BY <1>2, <1>3, <1>4, <1>7, <2>1 DEF Prompts
<1>8. CASE Agents
  BY <1>5, <1>6, <1>8 DEF Agents, Ask, Decide, TurnEnds, Delegate, ChildUp, ChildEnds, Join,
     BuildFails, ResumeConcludes, ResumeRefused, Leave, Detached
<1>9. CASE Flush \/ Stops \/ \E c \in Client : Frames(c)
  BY <1>6, <1>9 DEF Flush, Stops, Sweep, SweepNext, Elsewhere, Frames, Connect, Disconnect,
     DetachAll, ControlSubscribe, Shutdown, Attach, Detach, Narrows, ApprovalAnswer, Cancel
<1> QED
  BY <1>7, <1>8, <1>9 DEF Next

\* A connection stays well formed, whatever its client does.
LEMMA ConnTypes == ASSUME TypeOK, Next PROVE conn' \in [Client -> Connections]
<1>1. conn \in [Client -> Connections] /\ Fresh \in Connections /\ Gone \in Connections
      /\ [Fresh EXCEPT !.st = "open"] \in Connections
  BY DEF TypeOK, Fresh, Gone, Connections
<1>2. CASE UNCHANGED conn
  BY <1>1, <1>2
<1>3. ASSUME NEW c \in Client, NEW k \in Connections, conn' = [conn EXCEPT ![c] = k]
      PROVE  conn' \in [Client -> Connections]
  BY <1>1, <1>3
<1>4. ASSUME NEW ks, Close(ks) PROVE conn' \in [Client -> Connections]
  BY <1>1, <1>4 DEF Close
<1>5. ASSUME NEW c \in Client, Connect(c) \/ Disconnect(c) PROVE conn' \in [Client -> Connections]
  BY <1>1, <1>3, <1>4, <1>5 DEF Connect, Disconnect
<1>6. ASSUME NEW c \in Client, NEW s \in Session, Attach(c, s) \/ Detach(c, s)
      PROVE  conn' \in [Client -> Connections]
  BY <1>1, <1>3, <1>6, ConnectionTypes DEF Attach, Detach, Narrows
<1>7. ASSUME NEW c \in Client, DetachAll(c) \/ ControlSubscribe(c) PROVE conn' \in [Client -> Connections]
  BY <1>1, <1>3, <1>7, ConnectionTypes DEF DetachAll, ControlSubscribe, Narrows
<1>8. CASE Flush \/ Prompts \/ Agents
  BY <1>2, <1>8 DEF clients, Flush, Prompts, PromptNew, PromptAt, Deliver, StragglerGone, Agents,
     Ask, Decide,
     TurnEnds, Delegate, ChildUp, ChildEnds, Join, BuildFails, ResumeConcludes, ResumeRefused, Leave, Detached
<1>m. ASSUME NEW k \in Halt, Moves(k) PROVE conn' \in [Client -> Connections]
  BY <1>2, <1>4, <1>m, StopOutcomes DEF Drains, TakesOwned, DisposesOf, Answers
<1>9. CASE Stops
  BY <1>9, <1>m DEF Stops, Moves
<1>10. CASE \E c \in Client : Frames(c)
  BY <1>2, <1>5, <1>6, <1>7, <1>10, <1>m DEF clients, Frames, Moves, ApprovalAnswer, Cancel
<1> QED
  BY <1>8, <1>9, <1>10 DEF Next

\* Type correctness, for any step.
LEMMA TypeStep == ASSUME HostAssumption, TypeOK, Aimed, Next PROVE TypeOK'
<1>a. call' \in [Prompt -> Calls]
  BY CallTypes
<1>b. conn' \in [Client -> Connections]
  BY ConnTypes
<1>c. ASSUME NEW ks, Close(ks) \/ SettleUnwatched(ks)
      PROVE  parked' \subseteq Session /\ asked' \in [Session -> {"no", "open", "settled"}]
  BY <1>c DEF Close, SettleUnwatched, TypeOK
<1>d. ASSUME NEW ks, Close(ks)
      PROVE  closed' \in BOOLEAN /\ owed' \in [Session -> {"no", "live", "closed"}]
  BY <1>d DEF Close
<1>1. CASE Flush
  BY <1>1, <1>a, <1>b DEF Flush, clients, agents, holds, questions, TypeOK, Registered
<1>2. ASSUME NEW c \in Client, Connect(c) PROVE TypeOK'
  BY <1>2, <1>a, <1>b DEF Connect, Fresh, Gone, clients, agents, holds, questions, TypeOK,
     Registered
<1>3. ASSUME NEW c \in Client, Disconnect(c) PROVE TypeOK'
  <2>1. parked' \subseteq Session /\ asked' \in [Session -> {"no", "open", "settled"}]
        /\ closed' \in BOOLEAN /\ owed' \in [Session -> {"no", "live", "closed"}]
    BY <1>3, <1>c, <1>d DEF Disconnect, TypeOK
  <2> QED
    BY <1>3, <1>a, <1>b, <2>1 DEF Disconnect, agents, holds, TypeOK, Registered
<1>4. ASSUME NEW c \in Client, DetachAll(c) PROVE TypeOK'
  BY <1>4, <1>a, <1>b DEF DetachAll, Narrows, SettleUnwatched, clients, agents, holds, questions,
     TypeOK, Registered
<1>5. ASSUME NEW c \in Client, NEW s \in Session, Attach(c, s) PROVE TypeOK'
  BY <1>5, <1>a, <1>b DEF Attach, Narrows, SettleUnwatched, clients, agents, holds, questions,
     TypeOK, Registered
<1>6. ASSUME NEW c \in Client, NEW s \in Session, Detach(c, s) PROVE TypeOK'
  BY <1>6, <1>a, <1>b DEF Detach, Narrows, SettleUnwatched, clients, agents, holds, questions,
     TypeOK, Registered
<1>7. ASSUME NEW c \in Client, ControlSubscribe(c) PROVE TypeOK'
  BY <1>7, <1>a, <1>b DEF ControlSubscribe, Open, clients, agents, holds, questions, TypeOK,
     Registered
<1>8. ASSUME NEW c \in Client, NEW s \in Session, ApprovalAnswer(c, s) PROVE TypeOK'
  BY <1>8, <1>a, <1>b DEF ApprovalAnswer, clients, agents, holds, questions, TypeOK, Registered
<1>9. ASSUME NEW c \in Client, NEW s \in Session, Cancel(c, s) PROVE TypeOK'
  BY <1>9, <1>a, <1>b DEF Cancel, Aborts, clients, agents, holds, questions, TypeOK, Registered
<1>10. ASSUME NEW s \in Session, Ask(s) PROVE TypeOK'
  BY <1>10, <1>a, <1>b DEF Ask, Owes, Owing, clients, agents, holds, questions, TypeOK, Registered
<1>11. ASSUME NEW s \in Session, Decide(s) PROVE TypeOK'
  BY <1>11, <1>a, <1>b DEF Decide, Owes, Owing, clients, agents, holds, questions, TypeOK,
     Registered
<1>12. ASSUME NEW s \in Session, TurnEnds(s) PROVE TypeOK'
  BY <1>12, <1>a, <1>b DEF TurnEnds, Owes, Owing, clients, agents, holds, questions, TypeOK,
     Registered
<1>13. ASSUME NEW s \in Session, Delegate(s) PROVE TypeOK'
  BY <1>13, <1>a, <1>b DEF Delegate, clients, agents, holds, questions, TypeOK, Registered
<1>14. ASSUME NEW s \in Session, ChildUp(s) PROVE TypeOK'
  BY <1>14, <1>a, <1>b DEF ChildUp, Owes, Owing, clients, agents, holds, questions, TypeOK,
     Registered
<1>15. ASSUME NEW s \in Session, ChildEnds(s) PROVE TypeOK'
  BY <1>15, <1>a, <1>b DEF ChildEnds, Disposes, Aborts, clients, agents, holds, questions, TypeOK,
     Registered
<1>16. ASSUME NEW s \in Session, Join(s) PROVE TypeOK'
  BY <1>16, <1>a, <1>b DEF Join, Owes, Owing, clients, agents, holds, questions, TypeOK, Registered
<1>17. ASSUME NEW s \in Session, BuildFails(s) PROVE TypeOK'
  BY <1>17, <1>a, <1>b DEF BuildFails, clients, agents, holds, questions, TypeOK, Registered
<1>18. ASSUME NEW s \in Session, ResumeConcludes(s) PROVE TypeOK'
  BY <1>18, <1>a, <1>b DEF ResumeConcludes, Owes, Owing, clients, agents, holds, questions,
     TypeOK, Registered
<1>19. ASSUME NEW s \in Session, ResumeRefused(s) PROVE TypeOK'
  BY <1>19, <1>a, <1>b DEF ResumeRefused, Disposes, Aborts, clients, agents, holds, questions,
     TypeOK, Registered
<1>20. ASSUME NEW s \in Session, Leave(s) PROVE TypeOK'
  BY <1>20, <1>a, <1>b DEF Leave, Owes, Owing, clients, agents, holds, questions, TypeOK, Registered
<1>21. ASSUME NEW s \in Session, Detached(s) PROVE TypeOK'
  BY <1>21, <1>a, <1>b DEF Detached, clients, agents, holds, questions, TypeOK, Registered
<1>22. ASSUME NEW p \in Prompt, NEW s \in Session, PromptNew(p, s) PROVE TypeOK'
  BY <1>22, <1>a, <1>b DEF PromptNew, clients, agents, holds, questions, TypeOK, Registered
<1>23. ASSUME NEW p \in Prompt, NEW s \in Session, PromptAt(p, s) PROVE TypeOK'
  BY <1>23, <1>a, <1>b DEF PromptAt, clients, agents, holds, questions, TypeOK, Registered
<1>24. ASSUME NEW p \in Prompt, Deliver(p) PROVE TypeOK'
  <2>1. call[p].on \in Session
    BY <1>24 DEF Deliver, Aimed, Underway
  <2>2. CASE Delivers(p, call[p].on)
    BY <1>a, <1>b, <2>1, <2>2, <1>24 DEF Deliver, Delivers, Owes, Owing, clients, TypeOK, Registered
  <2>3. CASE Straggles(p, call[p].on)
    BY <1>a, <1>b, <2>1, <2>3, <1>24 DEF Deliver, Straggles, Disposes, Aborts, clients, TypeOK,
       Registered
  <2> QED
    BY <1>24, <2>2, <2>3 DEF Deliver
<1>25. ASSUME NEW p \in Prompt, StragglerGone(p) PROVE TypeOK'
  BY <1>25, <1>a, <1>b DEF StragglerGone, clients, agents, holds, questions, TypeOK, Registered
<1>26. ASSUME NEW k \in Halt, Moves(k) PROVE TypeOK'
  <2>1. Elsewhere
    BY <1>26, StopOutcomes
  <2>2. ASSUME NEW new \in Stages, stop' = [stop EXCEPT ![k] = new] PROVE stop' \in [Halt -> Stages]
    BY <2>2 DEF TypeOK
  <2>3. CASE Drains(k)
    <3>1. stop' \in [Halt -> Stages]
      BY <2>2, <2>3, EmptyHanded
    <3> QED
      BY <1>a, <1>b, <2>1, <2>3, <3>1 DEF Drains, Elsewhere, questions, TypeOK, Registered
  <2>4. CASE Answers(k)
    <3>1. stop' \in [Halt -> Stages]
      BY <2>2, <2>4, EmptyHanded
    <3>2. parked' \subseteq Session /\ asked' \in [Session -> {"no", "open", "settled"}]
          /\ closed' \in BOOLEAN /\ owed' \in [Session -> {"no", "live", "closed"}]
      BY <1>c, <1>d, <2>4 DEF Answers, TypeOK
    <3> QED
      BY <1>a, <1>b, <2>1, <2>4, <3>1, <3>2 DEF Answers, Elsewhere, TypeOK, Registered
  <2>5. ASSUME NEW handles \in SUBSET Session, DisposesOf(k, handles), owned' \subseteq Session
        PROVE  TypeOK'
    <3>1. PICK s \in Session : Disposes(s) /\ UNCHANGED <<parked, owed, closed>>
      BY <2>5, DisposeOutcome
    <3>2. stop' \in [Halt -> Stages]
      BY <2>2, <2>5, DisposeOutcome
    <3> QED
      BY <1>a, <1>b, <2>1, <2>5, <3>1, <3>2 DEF Disposes, Aborts, Elsewhere, TypeOK, Registered
  <2>6. owned \in SUBSET Session /\ stop[k].left \in SUBSET Session
    BY DEF TypeOK, Stages
  <2>7. CASE TakesOwned(k)
    BY <2>5, <2>6, <2>7 DEF TakesOwned
  <2>8. CASE DisposesOf(k, stop[k].left) /\ UNCHANGED owned
    BY <2>5, <2>6, <2>8
  <2> QED
    BY <1>26, <2>3, <2>4, <2>7, <2>8, StopOutcomes
<1> QED
  BY <1>1, <1>2, <1>3, <1>4, <1>5, <1>6, <1>7, <1>8, <1>9, <1>10, <1>11, <1>12, <1>13, <1>14,
     <1>15, <1>16, <1>17, <1>18, <1>19, <1>20, <1>21, <1>22, <1>23, <1>24, <1>25, <1>26
     DEF Next, Prompts, Agents, Stops, Frames, Moves

\* Who could answer only changes where the questions are looked at again.
LEMMA QuestionStep ==
  ASSUME TypeOK, QuestionsFindAPerson, Next PROVE QuestionsFindAPerson'
<1>a. ASSUME UNCHANGED <<conn, parked, asked, closed>> PROVE QuestionsFindAPerson'
  BY <1>a DEF QuestionsFindAPerson, AnyCouldAnswer, CouldAnswer, MayAnswer, Watches
<1>b. ASSUME UNCHANGED closed, SettleUnwatched(conn') PROVE QuestionsFindAPerson'
  BY <1>b DEF SettleUnwatched, QuestionsFindAPerson
<1>c. ASSUME NEW ks, Close(ks) PROVE QuestionsFindAPerson'
  BY <1>c DEF Close, QuestionsFindAPerson
<1>d. ASSUME NEW s \in Session, UNCHANGED <<conn, closed>>, asked'[s] # "open", parked \ {s} \subseteq parked',
             \A t \in Session \ {s} : asked'[t] = asked[t]
      PROVE  QuestionsFindAPerson'
  BY <1>d DEF QuestionsFindAPerson, AnyCouldAnswer, CouldAnswer, MayAnswer, Watches
<1>e. ASSUME NEW s \in Session, UNCHANGED <<conn, closed, parked>>, Aborts(s) PROVE QuestionsFindAPerson'
  BY <1>d, <1>e DEF Aborts, TypeOK
<1>1. CASE Flush
  BY <1>1, <1>a DEF Flush, questions
<1>2. ASSUME NEW s \in Session,
             TurnEnds(s) \/ Delegate(s) \/ ChildUp(s) \/ Join(s) \/ BuildFails(s) \/ ResumeConcludes(s) \/ Leave(s) \/ Detached(s)
      PROVE  QuestionsFindAPerson'
  BY <1>2, <1>a DEF TurnEnds, Delegate, ChildUp, Join, BuildFails, ResumeConcludes, Leave,
     Detached, clients, questions
<1>3. ASSUME NEW p \in Prompt, StragglerGone(p) \/ \E s \in Session : PromptNew(p, s) \/ PromptAt(p, s)
      PROVE  QuestionsFindAPerson'
  BY <1>3, <1>a DEF PromptNew, PromptAt, StragglerGone, clients, questions
<1>4. ASSUME NEW c \in Client, DetachAll(c) \/ \E s \in Session : Attach(c, s) \/ Detach(c, s)
      PROVE  QuestionsFindAPerson'
  BY <1>4, <1>b DEF DetachAll, Attach, Detach, Narrows
<1>5. ASSUME NEW s \in Session, ChildEnds(s) \/ ResumeRefused(s)
      PROVE  QuestionsFindAPerson'
  BY <1>5, <1>e DEF ChildEnds, ResumeRefused, Disposes, clients
<1>6. ASSUME NEW c \in Client, Connect(c) PROVE QuestionsFindAPerson'
  BY <1>6 DEF Connect, Fresh, Gone, TypeOK, questions, QuestionsFindAPerson, AnyCouldAnswer,
     CouldAnswer, MayAnswer, Watches
<1>7. ASSUME NEW c \in Client, Disconnect(c) PROVE QuestionsFindAPerson'
  BY <1>7, <1>b, <1>c DEF Disconnect
<1>8. ASSUME NEW c \in Client, ControlSubscribe(c) PROVE QuestionsFindAPerson'
  BY <1>8 DEF ControlSubscribe, TypeOK, questions, QuestionsFindAPerson, AnyCouldAnswer,
     CouldAnswer, MayAnswer, Watches
<1>9. ASSUME NEW c \in Client, NEW s \in Session, ApprovalAnswer(c, s) PROVE QuestionsFindAPerson'
  BY <1>9, <1>d DEF ApprovalAnswer, clients, TypeOK
<1>10. ASSUME NEW c \in Client, NEW s \in Session, Cancel(c, s) PROVE QuestionsFindAPerson'
  BY <1>10, <1>e DEF Cancel, clients
<1>11. ASSUME NEW s \in Session, Ask(s) PROVE QuestionsFindAPerson'
  BY <1>11 DEF Ask, clients, TypeOK, QuestionsFindAPerson
<1>12. ASSUME NEW s \in Session, Decide(s) PROVE QuestionsFindAPerson'
  BY <1>12, <1>d DEF Decide, clients, TypeOK
<1>13. ASSUME NEW p \in Prompt, Deliver(p) PROVE QuestionsFindAPerson'
  <2>1. CASE Delivers(p, call[p].on)
    BY <1>13, <1>a, <2>1 DEF Deliver, Delivers, clients
  <2>2. CASE Straggles(p, call[p].on)
    BY <1>13, <1>a, <1>e, <2>2 DEF Deliver, Straggles, Disposes, clients, TypeOK
  <2> QED
    BY <1>13, <2>1, <2>2 DEF Deliver
<1>14. ASSUME NEW k \in Halt, Moves(k) PROVE QuestionsFindAPerson'
  <2>1. ASSUME NEW handles \in SUBSET Session, DisposesOf(k, handles) PROVE QuestionsFindAPerson'
    <3>1. PICK s \in Session : Disposes(s) /\ UNCHANGED <<conn, parked, closed>>
      BY <2>1, DisposeOutcome
    <3> QED
      BY <1>e, <3>1 DEF Disposes
  <2>2. owned \in SUBSET Session /\ stop[k].left \in SUBSET Session
    BY DEF TypeOK, Stages
  <2>3. CASE Drains(k) \/ Answers(k)
    BY <1>a, <1>c, <2>3 DEF Drains, Answers, questions
  <2> QED
    BY <1>14, <2>1, <2>2, <2>3, StopOutcomes DEF TakesOwned
<1>15. CASE Prompts
  BY <1>15, <1>3, <1>13 DEF Prompts
<1>16. CASE Agents
  BY <1>16, <1>2, <1>5, <1>11, <1>12 DEF Agents
<1>17. CASE Stops
  BY <1>17, <1>14 DEF Stops, Moves
<1>18. CASE \E c \in Client : Frames(c)
  BY <1>18, <1>4, <1>6, <1>7, <1>8, <1>9, <1>10, <1>14 DEF Frames, Moves
<1> QED
  BY <1>1, <1>15, <1>16, <1>17, <1>18 DEF Next

\* What no agent, handle, prompt or shutdown moves in leaves the races alone.
LEMMA RacesFrame ==
  ASSUME Races, UNCHANGED <<phase, running, delegated, resuming, owned, call, stop>>
  PROVE  Races'
<1>1. /\ Hands' /\ (ShuttingDown' <=> ShuttingDown) /\ (Answered' <=> Answered)
      /\ LeftToSweep' = LeftToSweep
  BY StopsFrame DEF Races
<1> QED
  BY <1>1 DEF Races, Aimed, Behind, Inside, Resumed, Waited, Got, AcknowledgedIsKept,
     ShutdownLeavesNothing, Ending, InFlight

\* Nor does what no prompt moves in change whom one is aimed at, or who took it.
LEMMA CallsFrame ==
  ASSUME Aimed, AcknowledgedIsKept, UNCHANGED call PROVE Aimed' /\ AcknowledgedIsKept'
BY DEF Aimed, AcknowledgedIsKept

LEMMA TurnEndsKeeps ==
  ASSUME HostAssumption, TypeOK, Races, NEW s \in Session, TurnEnds(s) PROVE Races'
<1> Aimed /\ Behind /\ Hands /\ Waited /\ Got /\ AcknowledgedIsKept /\ ShutdownLeavesNothing
  BY DEF Races
<1>a. /\ UNCHANGED <<phase, delegated, resuming, owned, call, stop>>
      /\ running' = running \ {s}
      /\ \A k \in delegated : Parent[k] # s
  BY DEF TurnEnds, Children, holds
<1>b. /\ Hands' /\ (ShuttingDown' <=> ShuttingDown) /\ (Answered' <=> Answered)
      /\ LeftToSweep' = LeftToSweep
  BY <1>a, StopsFrame
<1>1. Aimed' /\ AcknowledgedIsKept'
  BY <1>a, CallsFrame
<1>2. Behind'
  BY <1>a, <1>b DEF TypeOK, Registered, Behind, Inside, Resumed
<1>3. Waited'
  BY <1>a DEF TypeOK, Waited
<1>4. Got'
  BY <1>a, <1>b DEF TypeOK, Got, Aimed, Underway
<1>5. ShutdownLeavesNothing'
  BY <1>a, <1>b DEF TypeOK, ShutdownLeavesNothing, Ending, InFlight
<1> QED
  BY <1>b, <1>1, <1>2, <1>3, <1>4, <1>5 DEF Races

\* A child is its parent's from the first.
LEMMA DelegateKeeps ==
  ASSUME HostAssumption, TypeOK, Races, NEW s \in Session, Delegate(s) PROVE Races'
<1> Aimed /\ Behind /\ Hands /\ Waited /\ Got /\ AcknowledgedIsKept /\ ShutdownLeavesNothing
  BY DEF Races
<1>a. /\ UNCHANGED <<running, resuming, owned, call, stop>>
      /\ phase[s] = "unborn" /\ Parent[s] \in running
      /\ phase' = [phase EXCEPT ![s] = "building"] /\ delegated' = delegated \cup {s}
  BY DEF Delegate, holds
<1>b. /\ Hands' /\ (ShuttingDown' <=> ShuttingDown) /\ (Answered' <=> Answered)
      /\ LeftToSweep' = LeftToSweep
  BY <1>a, StopsFrame
<1>1. Aimed' /\ AcknowledgedIsKept'
  BY <1>a, CallsFrame
<1>2. Behind'
  BY <1>a, <1>b DEF TypeOK, Registered, Behind, Inside, Resumed
<1>3. Waited'
  BY <1>a DEF TypeOK, Waited
<1>4. Got'
  BY <1>a, <1>b DEF TypeOK, Got, Aimed, Underway
<1>5. ShutdownLeavesNothing'
  BY <1>a, <1>b DEF TypeOK, ShutdownLeavesNothing, Ending, InFlight
<1> QED
  BY <1>b, <1>1, <1>2, <1>3, <1>4, <1>5 DEF Races

LEMMA ChildUpKeeps ==
  ASSUME HostAssumption, TypeOK, Races, NEW s \in Session, ChildUp(s) PROVE Races'
<1> Aimed /\ Behind /\ Hands /\ Waited /\ Got /\ AcknowledgedIsKept /\ ShutdownLeavesNothing
  BY DEF Races
<1>a. /\ UNCHANGED <<delegated, resuming, owned, call, stop>>
      /\ s \in delegated /\ phase[s] = "building"
      /\ phase' = [phase EXCEPT ![s] = "up"] /\ running' = running \cup {s}
  BY DEF ChildUp, holds
<1>b. /\ Hands' /\ (ShuttingDown' <=> ShuttingDown) /\ (Answered' <=> Answered)
      /\ LeftToSweep' = LeftToSweep
  BY <1>a, StopsFrame
<1>1. Aimed' /\ AcknowledgedIsKept'
  BY <1>a, CallsFrame
<1>2. Behind'
  BY <1>a, <1>b DEF TypeOK, Registered, Behind, Inside, Resumed
<1>3. Waited'
  BY <1>a DEF TypeOK, Waited
<1>4. Got'
  BY <1>a, <1>b DEF TypeOK, Got, Aimed, Underway
<1>5. ShutdownLeavesNothing'
  BY <1>a, <1>b DEF TypeOK, ShutdownLeavesNothing, Ending, InFlight
<1> QED
  BY <1>b, <1>1, <1>2, <1>3, <1>4, <1>5 DEF Races

LEMMA ChildEndsKeeps ==
  ASSUME HostAssumption, TypeOK, Races, NEW s \in Session, ChildEnds(s) PROVE Races'
<1> Aimed /\ Behind /\ Hands /\ Waited /\ Got /\ AcknowledgedIsKept /\ ShutdownLeavesNothing
  BY DEF Races
<1>a. /\ UNCHANGED <<running, delegated, resuming, owned, call, stop>>
      /\ s \in delegated /\ phase[s] = "up" /\ phase' = [phase EXCEPT ![s] = "closing"]
  BY DEF ChildEnds, Disposes, holds, TypeOK
<1>b. /\ Hands' /\ (ShuttingDown' <=> ShuttingDown) /\ (Answered' <=> Answered)
      /\ LeftToSweep' = LeftToSweep
  BY <1>a, StopsFrame
<1>1. Aimed' /\ AcknowledgedIsKept'
  BY <1>a, CallsFrame
<1>2. Behind'
  BY <1>a, <1>b DEF TypeOK, Registered, Behind, Inside, Resumed
<1>3. Waited'
  BY <1>a DEF TypeOK, Waited
<1>4. Got'
  BY <1>a, <1>b DEF TypeOK, Got, Aimed, Underway
<1>5. ShutdownLeavesNothing'
  BY <1>a, <1>b DEF TypeOK, ShutdownLeavesNothing, Ending, InFlight
<1> QED
  BY <1>b, <1>1, <1>2, <1>3, <1>4, <1>5 DEF Races

LEMMA LeaveKeeps ==
  ASSUME HostAssumption, TypeOK, Races, NEW s \in Session, Leave(s) PROVE Races'
<1> Aimed /\ Behind /\ Hands /\ Waited /\ Got /\ AcknowledgedIsKept /\ ShutdownLeavesNothing
  BY DEF Races
<1>a. /\ UNCHANGED <<running, delegated, resuming, owned, call, stop>>
      /\ phase[s] = "closing" /\ phase' = [phase EXCEPT ![s] = "leaving"]
  BY DEF Leave, holds
<1>b. /\ Hands' /\ (ShuttingDown' <=> ShuttingDown) /\ (Answered' <=> Answered)
      /\ LeftToSweep' = LeftToSweep
  BY <1>a, StopsFrame
<1>1. Aimed' /\ AcknowledgedIsKept'
  BY <1>a, CallsFrame
<1>2. Behind'
  BY <1>a, <1>b DEF TypeOK, Registered, Behind, Inside, Resumed
<1>3. Waited'
  BY <1>a DEF TypeOK, Waited
<1>4. Got'
  BY <1>a, <1>b DEF TypeOK, Got, Aimed, Underway
<1>5. ShutdownLeavesNothing'
  BY <1>a, <1>b DEF TypeOK, ShutdownLeavesNothing, Ending, InFlight
<1> QED
  BY <1>b, <1>1, <1>2, <1>3, <1>4, <1>5 DEF Races

\* A refused resume is not the host's yet: whoever found its agent came too early.
LEMMA ResumeRefusedKeeps ==
  ASSUME HostAssumption, TypeOK, Races, NEW s \in Session, ResumeRefused(s) PROVE Races'
<1> Aimed /\ Behind /\ Hands /\ Waited /\ Got /\ AcknowledgedIsKept /\ ShutdownLeavesNothing
  BY DEF Races
<1>a. /\ UNCHANGED <<running, delegated, resuming, owned, call, stop>>
      /\ phase[s] = "joined" /\ phase' = [phase EXCEPT ![s] = "closing"]
  BY DEF ResumeRefused, Disposes, holds, TypeOK
<1>b. /\ Hands' /\ (ShuttingDown' <=> ShuttingDown) /\ (Answered' <=> Answered)
      /\ LeftToSweep' = LeftToSweep
  BY <1>a, StopsFrame
<1>1. Aimed' /\ AcknowledgedIsKept'
  BY <1>a, CallsFrame
<1>2. Behind'
  BY <1>a, <1>b DEF TypeOK, Registered, Behind, Inside, Resumed
<1>3. Waited'
  BY <1>a DEF TypeOK, Waited
<1>4. Got'
  BY <1>a, <1>b DEF TypeOK, Got, Aimed, Underway
<1>5. ShutdownLeavesNothing'
  BY <1>a, <1>b DEF TypeOK, ShutdownLeavesNothing, Ending, InFlight
<1> QED
  BY <1>b, <1>1, <1>2, <1>3, <1>4, <1>5 DEF Races

LEMMA PromptNewKeeps ==
  ASSUME HostAssumption, TypeOK, Races, NEW p \in Prompt, NEW s \in Session, PromptNew(p, s) PROVE Races'
<1> Aimed /\ Behind /\ Hands /\ Waited /\ Got /\ AcknowledgedIsKept /\ ShutdownLeavesNothing
  BY DEF Races
<1>a. /\ UNCHANGED <<running, delegated, resuming, owned, stop>>
      /\ call' \in [Prompt -> Calls] /\ call[p].st = "new"
      /\ \A q \in Prompt \ {p} : call'[q] = call[q]
      /\ phase[s] = "unborn"
      /\ \/ /\ ShuttingDown /\ call'[p].st = "refused" /\ UNCHANGED phase
         \/ /\ ~ShuttingDown /\ call'[p].st = "waiting" /\ call'[p].on = s
            /\ phase' = [phase EXCEPT ![s] = "building"]
  BY AcquiresFacts DEF PromptNew, holds
<1>t. AgentTypes /\ (~ShuttingDown => ~Answered)
  BY AgentsTyped
<1>b. /\ Hands' /\ (ShuttingDown' <=> ShuttingDown) /\ (Answered' <=> Answered)
      /\ LeftToSweep' = LeftToSweep
  BY <1>a, StopsFrame
<1>1. Aimed'
  BY <1>a DEF Aimed, Underway
<1>2. Behind'
  BY <1>a, <1>b, <1>t DEF AgentTypes, Behind, Inside, Resumed
<1>3. Waited'
  BY <1>a DEF TypeOK, Waited
<1>4. Got'
  BY <1>a, <1>b DEF TypeOK, Got, Aimed, Underway
<1>5. AcknowledgedIsKept'
  BY <1>a DEF AcknowledgedIsKept
<1>6. ShutdownLeavesNothing'
  BY <1>a, <1>b, <1>t DEF AgentTypes, ShutdownLeavesNothing, Ending, InFlight
<1> QED
  BY <1>b, <1>1, <1>2, <1>3, <1>4, <1>5, <1>6 DEF Races

\* A prompt that finds an agent registered is early, or finds one that is up.
LEMMA PromptAtKeeps ==
  ASSUME HostAssumption, TypeOK, Races, NEW p \in Prompt, NEW s \in Session, PromptAt(p, s) PROVE Races'
<1> Aimed /\ Behind /\ Hands /\ Waited /\ Got /\ AcknowledgedIsKept /\ ShutdownLeavesNothing
  BY DEF Races
<1>a. /\ UNCHANGED <<running, delegated, owned, stop>>
      /\ call[p].st = "new" /\ \A q \in Prompt \ {p} : call'[q] = call[q]
      /\ \/ call'[p].st = "refused" /\ UNCHANGED <<phase, resuming>>
         \/ /\ ~ShuttingDown /\ Registered(s) /\ ~UnderParent(s) /\ UNCHANGED <<phase, resuming>>
            /\ call'[p].st = "got" /\ call'[p].on = s /\ (s \in resuming => call'[p].early)
         \/ /\ ~ShuttingDown /\ ~Registered(s) /\ s \in resuming /\ UNCHANGED <<phase, resuming>>
            /\ call'[p].st = "waiting" /\ call'[p].on = s
         \/ /\ ~ShuttingDown /\ phase[s] = "stored" /\ s \notin resuming
            /\ phase' = [phase EXCEPT ![s] = "building"] /\ resuming' = resuming \cup {s}
            /\ call'[p].st = "waiting" /\ call'[p].on = s
  <2>1. call \in [Prompt -> Calls]
    BY DEF TypeOK
  <2>2. CASE ShuttingDown \/ ~Registered(s)
    BY <2>2, AcquiresFacts DEF PromptAt, Registered
  <2>3. CASE ~ShuttingDown /\ Registered(s) /\ UnderParent(s)
    BY <2>3, AcquiresFacts DEF PromptAt
  <2>4. CASE ~ShuttingDown /\ Registered(s) /\ ~UnderParent(s)
    <3> DEFINE found == [call[p] EXCEPT !.st = "got", !.on = s, !.early = s \in resuming]
    <3>1. call' = [call EXCEPT ![p] = found] /\ UNCHANGED <<phase, resuming>>
      BY <2>1, <2>4 DEF PromptAt
    <3>2. found.st = "got" /\ found.on = s /\ (s \in resuming => found.early)
      BY <2>1 DEF Calls
    <3> HIDE DEF found
    <3>3. call'[p] = found /\ \A q \in Prompt \ {p} : call'[q] = call[q]
      BY <2>1, <3>1
    <3> QED
      BY <2>4, <3>1, <3>2, <3>3 DEF PromptAt, holds
  <2> QED
    BY <2>2, <2>3, <2>4
<1>t. AgentTypes /\ (~ShuttingDown => ~Answered)
  BY AgentsTyped
<1>b. /\ Hands' /\ (ShuttingDown' <=> ShuttingDown) /\ (Answered' <=> Answered)
      /\ LeftToSweep' = LeftToSweep
  BY <1>a, StopsFrame
<1>1. Aimed'
  BY <1>a DEF Aimed, Underway
<1>2. Behind'
  BY <1>a, <1>b, <1>t DEF AgentTypes, Behind, Inside, Resumed
<1>3. Waited'
  BY <1>a DEF TypeOK, Waited
<1>4. Got'
  <2>1. ASSUME ~ShuttingDown, Registered(s), ~UnderParent(s), s \notin resuming
        PROVE  phase[s] = "up" /\ s \notin delegated
    <3>1. s \notin delegated
      BY <2>1, HostAssumption DEF Behind, Inside, UnderParent, TypeOK
    <3> QED
      BY <2>1, <3>1 DEF Behind, Registered
  <2> QED
    BY <1>a, <1>b, <2>1 DEF TypeOK, Got, Aimed, Underway
<1>5. AcknowledgedIsKept'
  BY <1>a DEF AcknowledgedIsKept
<1>6. ShutdownLeavesNothing'
  BY <1>a, <1>b, <1>t DEF AgentTypes, ShutdownLeavesNothing, Ending, InFlight
<1> QED
  BY <1>b, <1>1, <1>2, <1>3, <1>4, <1>5, <1>6 DEF Races

LEMMA JoinKeeps ==
  ASSUME HostAssumption, TypeOK, Races, NEW s \in Session, Join(s) PROVE Races'
<1> Aimed /\ Behind /\ Hands /\ Waited /\ Got /\ AcknowledgedIsKept /\ ShutdownLeavesNothing
  BY DEF Races
<1>a. /\ UNCHANGED <<running, delegated, resuming, stop>>
      /\ phase[s] = "building" /\ s \notin delegated
      /\ \A q \in Prompt : call'[q].early = call[q].early /\ call'[q].kept = call[q].kept
      /\ \A q \in Prompt : ~(call[q].st = "waiting" /\ call[q].on = s) => call'[q] = call[q]
      /\ \/ s \in resuming /\ UNCHANGED <<owned, call>> /\ phase' = [phase EXCEPT ![s] = "joined"]
         \/ /\ s \notin resuming /\ phase' = [phase EXCEPT ![s] = "up"] /\ owned' = owned \cup {s}
            /\ \A q \in Prompt : call[q].st = "waiting" /\ call[q].on = s => call'[q].st = "got" /\ call'[q].on = s
  <2>1. CASE s \in resuming
    BY <2>1 DEF Join
  <2>2. CASE s \notin resuming
    BY <2>2, BecomeFacts DEF Join, Waiting
  <2> QED
    BY <2>1, <2>2
<1>t. AgentTypes /\ (~ShuttingDown => ~Answered)
  BY AgentsTyped
<1>b. /\ Hands' /\ (ShuttingDown' <=> ShuttingDown) /\ (Answered' <=> Answered)
      /\ LeftToSweep' = LeftToSweep
  BY <1>a, StopsFrame
<1>1. Aimed'
  BY <1>a DEF Aimed, Underway
<1>2. Behind'
  BY <1>a, <1>b, <1>t DEF AgentTypes, Behind, Inside, Resumed
<1>3. Waited'
  BY <1>a DEF TypeOK, Waited
<1>4. Got'
  BY <1>a, <1>b DEF TypeOK, Got, Aimed, Underway
<1>5. AcknowledgedIsKept'
  BY <1>a DEF AcknowledgedIsKept
<1>6. ShutdownLeavesNothing'
  <2>1. InFlight # {}
    BY <1>a DEF Waited, InFlight
  <2> QED
    BY <1>b, <2>1 DEF ShutdownLeavesNothing
<1> QED
  BY <1>b, <1>1, <1>2, <1>3, <1>4, <1>5, <1>6 DEF Races

LEMMA BuildFailsKeeps ==
  ASSUME HostAssumption, TypeOK, Races, NEW s \in Session, BuildFails(s) PROVE Races'
<1> Aimed /\ Behind /\ Hands /\ Waited /\ Got /\ AcknowledgedIsKept /\ ShutdownLeavesNothing
  BY DEF Races
<1>a. /\ UNCHANGED <<running, owned, stop>>
      /\ phase[s] = "building" /\ delegated' = delegated \ {s} /\ resuming' = resuming \ {s}
      /\ phase'[s] \in {"stored", "unborn"} /\ \A t \in Session \ {s} : phase'[t] = phase[t]
      /\ \A q \in Prompt : call'[q].early = call[q].early /\ call'[q].kept = call[q].kept
      /\ \A q \in Prompt : ~(call[q].st = "waiting" /\ call[q].on = s) => call'[q] = call[q]
      /\ \A q \in Prompt : call[q].st = "waiting" /\ call[q].on = s => call'[q].st = "refused"
  <2>1. phase'[s] \in {"stored", "unborn"} /\ \A t \in Session \ {s} : phase'[t] = phase[t]
    BY DEF BuildFails, TypeOK
  <2> QED
    BY <2>1, BecomeFacts DEF BuildFails, Waiting
<1>t. AgentTypes /\ (~ShuttingDown => ~Answered)
  BY AgentsTyped
<1>b. /\ Hands' /\ (ShuttingDown' <=> ShuttingDown) /\ (Answered' <=> Answered)
      /\ LeftToSweep' = LeftToSweep
  BY <1>a, StopsFrame
<1>1. Aimed'
  BY <1>a DEF Aimed, Underway
<1>2. Behind'
  BY <1>a, <1>b, <1>t DEF AgentTypes, Behind, Inside, Resumed
<1>3. Waited'
  BY <1>a DEF TypeOK, Waited
<1>4. Got'
  BY <1>a, <1>b DEF TypeOK, Got, Aimed, Underway
<1>5. AcknowledgedIsKept'
  BY <1>a DEF AcknowledgedIsKept
<1>6. ShutdownLeavesNothing'
  BY <1>a, <1>b DEF TypeOK, ShutdownLeavesNothing, Ending, InFlight
<1> QED
  BY <1>b, <1>1, <1>2, <1>3, <1>4, <1>5, <1>6 DEF Races

LEMMA ResumeConcludesKeeps ==
  ASSUME HostAssumption, TypeOK, Races, NEW s \in Session, ResumeConcludes(s) PROVE Races'
<1> Aimed /\ Behind /\ Hands /\ Waited /\ Got /\ AcknowledgedIsKept /\ ShutdownLeavesNothing
  BY DEF Races
<1>a. /\ UNCHANGED <<delegated, stop>>
      /\ phase[s] = "joined" /\ phase' = [phase EXCEPT ![s] = "up"]
      /\ resuming' = resuming \ {s} /\ owned' = owned \cup {s} /\ running \subseteq running'
      /\ \A q \in Prompt : call'[q].early = call[q].early /\ call'[q].kept = call[q].kept
      /\ \A q \in Prompt : ~(call[q].st = "waiting" /\ call[q].on = s) => call'[q] = call[q]
      /\ \A q \in Prompt : call[q].st = "waiting" /\ call[q].on = s => call'[q].st = "got" /\ call'[q].on = s
  BY BecomeFacts DEF ResumeConcludes, Waiting
<1>t. AgentTypes /\ (~ShuttingDown => ~Answered)
  BY AgentsTyped
<1>b. /\ Hands' /\ (ShuttingDown' <=> ShuttingDown) /\ (Answered' <=> Answered)
      /\ LeftToSweep' = LeftToSweep
  BY <1>a, StopsFrame
<1>1. Aimed'
  BY <1>a DEF Aimed, Underway
<1>2. Behind'
  BY <1>a, <1>b DEF TypeOK, Registered, Behind, Inside, Resumed
<1>3. Waited'
  BY <1>a DEF TypeOK, Waited
<1>4. Got'
  BY <1>a, <1>b DEF TypeOK, Got, Aimed, Underway, Behind, Inside
<1>5. AcknowledgedIsKept'
  BY <1>a DEF AcknowledgedIsKept
<1>6. ShutdownLeavesNothing'
  <2>1. InFlight # {}
    BY <1>a DEF Waited, InFlight, Behind, Inside
  <2> QED
    BY <1>b, <2>1 DEF ShutdownLeavesNothing
<1> QED
  BY <1>b, <1>1, <1>2, <1>3, <1>4, <1>5, <1>6 DEF Races

LEMMA DetachedKeeps ==
  ASSUME HostAssumption, TypeOK, Races, NEW s \in Session, Detached(s) PROVE Races'
<1> Aimed /\ Behind /\ Hands /\ Waited /\ Got /\ AcknowledgedIsKept /\ ShutdownLeavesNothing
  BY DEF Races
<1>a. /\ UNCHANGED <<running, owned, stop>>
      /\ phase[s] = "leaving" /\ delegated' = delegated \ {s} /\ resuming' = resuming \ {s}
      /\ phase' = [phase EXCEPT ![s] = "stored"]
      /\ \A q \in Prompt : call'[q].early = call[q].early /\ call'[q].kept = call[q].kept
      /\ \A q \in Prompt : ~(call[q].st = "waiting" /\ call[q].on = s) => call'[q] = call[q]
      /\ \A q \in Prompt : call[q].st = "waiting" /\ call[q].on = s => call'[q].st = "refused"
  BY BecomeFacts DEF Detached, Waiting
<1>b. /\ Hands' /\ (ShuttingDown' <=> ShuttingDown) /\ (Answered' <=> Answered)
      /\ LeftToSweep' = LeftToSweep
  BY <1>a, StopsFrame
<1>1. Aimed'
  BY <1>a DEF Aimed, Underway
<1>2. Behind'
  BY <1>a, <1>b DEF TypeOK, Registered, Behind, Inside, Resumed
<1>3. Waited'
  BY <1>a DEF TypeOK, Waited
<1>4. Got'
  BY <1>a, <1>b DEF TypeOK, Got, Aimed, Underway
<1>5. AcknowledgedIsKept'
  BY <1>a DEF AcknowledgedIsKept
<1>6. ShutdownLeavesNothing'
  BY <1>a, <1>b DEF TypeOK, ShutdownLeavesNothing, Ending, InFlight
<1> QED
  BY <1>b, <1>1, <1>2, <1>3, <1>4, <1>5, <1>6 DEF Races

LEMMA StragglerGoneKeeps ==
  ASSUME HostAssumption, TypeOK, Races, NEW p \in Prompt, StragglerGone(p) PROVE Races'
<1> Aimed /\ Behind /\ Hands /\ Waited /\ Got /\ AcknowledgedIsKept /\ ShutdownLeavesNothing
  BY DEF Races
<1>a. /\ UNCHANGED <<phase, running, delegated, resuming, owned, stop>>
      /\ call[p].st = "disposing" /\ call'[p].st = "refused"
      /\ \A q \in Prompt \ {p} : call'[q] = call[q]
  BY BecomeFacts DEF StragglerGone, agents, holds
<1>b. /\ Hands' /\ (ShuttingDown' <=> ShuttingDown) /\ (Answered' <=> Answered)
      /\ LeftToSweep' = LeftToSweep
  BY <1>a, StopsFrame
<1>1. Aimed'
  BY <1>a DEF Aimed, Underway
<1>2. Behind'
  BY <1>a, <1>b DEF TypeOK, Registered, Behind, Inside, Resumed
<1>3. Waited'
  BY <1>a DEF TypeOK, Waited
<1>4. Got'
  BY <1>a, <1>b DEF TypeOK, Got, Aimed, Underway
<1>5. AcknowledgedIsKept'
  BY <1>a DEF AcknowledgedIsKept
<1>6. ShutdownLeavesNothing'
  BY <1>a, <1>b DEF TypeOK, ShutdownLeavesNothing, Ending, InFlight
<1> QED
  BY <1>b, <1>1, <1>2, <1>3, <1>4, <1>5, <1>6 DEF Races

\* A shutdown that waits leaves everything as it was.
LEMMA DrainKeeps ==
  ASSUME HostAssumption, TypeOK, Races, NEW k \in Halt, Elsewhere, stop[k].st # "answered",
         stop[k].left = {}, Drains(k)
  PROVE  Races'
<1> Aimed /\ Behind /\ Hands /\ Waited /\ Got /\ AcknowledgedIsKept /\ ShutdownLeavesNothing
  BY DEF Races
<1>a. UNCHANGED <<phase, running, delegated, resuming, owned, call>>
  BY DEF Drains, Elsewhere
<1>b. ShuttingDown' /\ Hands' /\ (Answered' <=> Answered) /\ LeftToSweep' = LeftToSweep
  <2>1. PICK new \in Stages : new.st = "draining" /\ new.left = {} /\ stop' = [stop EXCEPT ![k] = new]
    BY EmptyHanded
  <2>2. \A i \in Halt \ {k} : new.left \cap stop[i].left = {}
    BY <2>1
  <2>3. /\ ShuttingDown' /\ Hands' /\ (Answered' <=> Answered \/ new.st = "answered")
        /\ LeftToSweep' = (LeftToSweep \ stop[k].left) \cup new.left
    BY <2>1, <2>2, StopMoves
  <2> QED
    BY <2>1, <2>3
<1>1. Aimed' /\ AcknowledgedIsKept'
  BY <1>a, CallsFrame
<1>2. Behind'
  BY <1>a, <1>b DEF TypeOK, Registered, Behind, Inside, Resumed
<1>3. Waited'
  BY <1>a DEF TypeOK, Waited
<1>4. Got'
  BY <1>b DEF Got
<1>5. ShutdownLeavesNothing'
  BY <1>a, <1>b DEF TypeOK, ShutdownLeavesNothing, Ending, InFlight
<1> QED
  BY <1>b, <1>1, <1>2, <1>3, <1>4, <1>5 DEF Races

\* One handle fewer is held or left to sweep, and its agent is on its way.
LEMMA DisposalKeeps ==
  ASSUME HostAssumption, TypeOK, Races, NEW s \in Session, Elsewhere, Disposes(s),
         s \in owned \cup LeftToSweep, owned' \subseteq owned, owned' \cap LeftToSweep' = {},
         owned' \cup LeftToSweep' = (owned \cup LeftToSweep) \ {s},
         ShuttingDown', Hands', Answered' <=> Answered
  PROVE  Races'
<1> Aimed /\ Behind /\ Hands /\ Waited /\ Got /\ AcknowledgedIsKept /\ ShutdownLeavesNothing
  BY DEF Races
<1>a. UNCHANGED <<running, delegated, resuming, call>>
  BY DEF Elsewhere
<1>b. phase[s] = "up" /\ phase' = [phase EXCEPT ![s] = "closing"]
  BY DEF Disposes, Behind, TypeOK
<1>1. Aimed' /\ AcknowledgedIsKept'
  BY <1>a, CallsFrame
<1>2. Behind'
  BY <1>a, <1>b DEF TypeOK, Registered, Behind, Inside, Resumed
<1>3. Waited'
  BY <1>a, <1>b DEF TypeOK, Waited
<1>4. Got'
  BY DEF Got
<1>5. ShutdownLeavesNothing'
  BY <1>a, <1>b DEF TypeOK, ShutdownLeavesNothing, Ending, InFlight
<1> QED
  BY <1>1, <1>2, <1>3, <1>4, <1>5 DEF Races

\* What it takes from the host, it takes from no other shutdown.
LEMMA TakesKeeps ==
  ASSUME HostAssumption, TypeOK, Races, NEW k \in Halt, Elsewhere, stop[k].st # "answered",
         stop[k].left = {}, TakesOwned(k)
  PROVE  Races'
<1> Behind /\ Hands
  BY DEF Races
<1>1. owned \in SUBSET Session /\ owned' = {} /\ DisposesOf(k, owned)
  BY DEF TypeOK, TakesOwned
<1>2. PICK s \in Session, new \in Stages :
        /\ s \in owned /\ Disposes(s)
        /\ new.st = "sweeping" /\ new.left = owned \ {s} /\ stop' = [stop EXCEPT ![k] = new]
  BY <1>1, DisposeOutcome
<1>3. owned \cap LeftToSweep = {} /\ \A i \in Halt : stop[i].left \subseteq LeftToSweep
  BY DEF Behind, Hands, LeftToSweep
<1>4. \A i \in Halt \ {k} : (owned \ {s}) \cap stop[i].left = {}
  BY <1>3
<1>5. /\ ShuttingDown' /\ Hands' /\ (Answered' <=> Answered)
      /\ LeftToSweep' = (LeftToSweep \ stop[k].left) \cup (owned \ {s})
  BY <1>2, <1>4, StopMoves
<1>6. /\ owned' \subseteq owned /\ owned' \cap LeftToSweep' = {} /\ s \in owned \cup LeftToSweep
      /\ owned' \cup LeftToSweep' = (owned \cup LeftToSweep) \ {s}
  BY <1>1, <1>2, <1>3, <1>5
<1> QED
  BY <1>2, <1>5, <1>6, DisposalKeeps

LEMMA GoesOnKeeps ==
  ASSUME HostAssumption, TypeOK, Races, NEW k \in Halt, Elsewhere, stop[k].st = "sweeping",
         DisposesOf(k, stop[k].left), UNCHANGED owned
  PROVE  Races'
<1> Behind /\ Hands
  BY DEF Races
<1>1. stop[k].left \in SUBSET Session
  BY DEF TypeOK, Stages
<1>2. PICK s \in Session, new \in Stages :
        /\ s \in stop[k].left /\ Disposes(s)
        /\ new.st = "sweeping" /\ new.left = stop[k].left \ {s} /\ stop' = [stop EXCEPT ![k] = new]
  BY <1>1, DisposeOutcome
<1>3. owned \cap LeftToSweep = {} /\ stop[k].left \subseteq LeftToSweep
  BY DEF Behind, Hands, LeftToSweep
<1>4. \A i \in Halt \ {k} : (stop[k].left \ {s}) \cap stop[i].left = {}
  BY DEF Hands
<1>5. /\ ShuttingDown' /\ Hands' /\ (Answered' <=> Answered)
      /\ LeftToSweep' = (LeftToSweep \ stop[k].left) \cup (stop[k].left \ {s})
  <2>1. \A i \in Halt \ {k} : new.left \cap stop[i].left = {}
    BY <1>2, <1>4
  <2>2. /\ ShuttingDown' /\ Hands' /\ (Answered' <=> Answered \/ new.st = "answered")
        /\ LeftToSweep' = (LeftToSweep \ stop[k].left) \cup new.left
    BY <1>2, <2>1, StopMoves
  <2> QED
    BY <1>2, <2>2
<1>6. /\ owned' \subseteq owned /\ owned' \cap LeftToSweep' = {} /\ s \in owned \cup LeftToSweep
      /\ owned' \cup LeftToSweep' = (owned \cup LeftToSweep) \ {s}
  BY <1>2, <1>3, <1>5
<1> QED
  BY <1>2, <1>5, <1>6, DisposalKeeps

\* The second look at what is in flight and held is what lets it answer; what is
\* still up is what another has taken.
LEMMA EndKeeps ==
  ASSUME HostAssumption, TypeOK, Races, NEW k \in Halt, Elsewhere, stop[k].st # "answered",
         stop[k].left = {}, InFlight = {}, owned = {}, Answers(k)
  PROVE  Races'
<1> Aimed /\ Behind /\ Hands /\ Waited /\ Got /\ AcknowledgedIsKept /\ ShutdownLeavesNothing
  BY DEF Races
<1>a. UNCHANGED <<phase, running, delegated, resuming, owned, call>>
  BY DEF Answers, Elsewhere
<1>b. ShuttingDown' /\ Hands' /\ LeftToSweep' = LeftToSweep
  <2>1. PICK new \in Stages : new.st # "no" /\ new.left = {} /\ stop' = [stop EXCEPT ![k] = new]
    BY EmptyHanded
  <2>2. \A i \in Halt \ {k} : new.left \cap stop[i].left = {}
    BY <2>1
  <2>3. ShuttingDown' /\ Hands' /\ LeftToSweep' = (LeftToSweep \ stop[k].left) \cup new.left
    BY <2>1, <2>2, StopMoves
  <2> QED
    BY <2>1, <2>3
<1>1. Aimed' /\ AcknowledgedIsKept'
  BY <1>a, CallsFrame
<1>2. Behind'
  BY <1>a, <1>b DEF TypeOK, Registered, Behind, Inside, Resumed
<1>3. Waited'
  BY <1>a DEF TypeOK, Waited
<1>4. Got'
  BY <1>b DEF Got
<1>5. ShutdownLeavesNothing'
  <2>1. ASSUME NEW s \in Session \ delegated PROVE Ending(s) \/ s \in LeftToSweep
    <3>1. phase[s] \notin {"building", "joined"}
      BY DEF Waited, InFlight
    <3>2. phase[s] = "up" => s \in LeftToSweep
      BY DEF Behind, Resumed
    <3> QED
      BY <3>1, <3>2 DEF TypeOK, Ending
  <2> QED
    BY <1>a, <1>b, <2>1 DEF ShutdownLeavesNothing, Ending, InFlight
<1> QED
  BY <1>b, <1>1, <1>2, <1>3, <1>4, <1>5 DEF Races

LEMMA MovesKeep ==
  ASSUME HostAssumption, TypeOK, Races, NEW k \in Halt, Moves(k) PROVE Races'
<1>1. stop[k].st # "sweeping" => stop[k].left = {}
  BY DEF Races, Hands
<1> QED
  BY <1>1, StopOutcomes, DrainKeeps, TakesKeeps, GoesOnKeeps, EndKeeps

\* A caller that was not early has an agent that is up, so its prompt is taken.
LEMMA DeliversKeeps ==
  ASSUME HostAssumption, TypeOK, Races, NEW p \in Prompt, Deliver(p), ~ShuttingDown PROVE Races'
<1> Aimed /\ Behind /\ Hands /\ Waited /\ Got /\ AcknowledgedIsKept /\ ShutdownLeavesNothing
  BY DEF Races
<1>a. /\ UNCHANGED <<phase, delegated, resuming, owned, stop>> /\ running \subseteq running'
      /\ call[p].st = "got" /\ ~ShuttingDown
      /\ \A q \in Prompt \ {p} : call'[q] = call[q]
      /\ call'[p].st = "accepted" /\ call'[p].early = call[p].early
      /\ phase[call[p].on] = "up" => call'[p].kept
  <2>1. call \in [Prompt -> Calls] /\ Delivers(p, call[p].on)
    BY DEF TypeOK, Deliver
  <2> DEFINE new == [call[p] EXCEPT !.st = "accepted", !.on = Nobody, !.kept = phase[call[p].on] = "up"]
  <2>2. call' = [call EXCEPT ![p] = new]
    BY <2>1 DEF Delivers, Calls
  <2>3. new.st = "accepted" /\ new.early = call[p].early /\ (phase[call[p].on] = "up" => new.kept)
    BY <2>1 DEF Calls
  <2> HIDE DEF new
  <2>4. call'[p] = new /\ \A q \in Prompt \ {p} : call'[q] = call[q]
    BY <2>1, <2>2
  <2>5. running \subseteq running' /\ UNCHANGED <<phase, delegated, resuming, owned, stop>>
    BY <2>1 DEF Deliver, Delivers
  <2> QED
    BY <2>3, <2>4, <2>5 DEF Deliver
<1>b. /\ Hands' /\ (ShuttingDown' <=> ShuttingDown) /\ (Answered' <=> Answered)
      /\ LeftToSweep' = LeftToSweep
  BY <1>a, StopsFrame
<1>1. Aimed'
  BY <1>a DEF Aimed, Underway
<1>2. Behind'
  BY <1>a, <1>b DEF TypeOK, Registered, Behind, Inside, Resumed
<1>3. Waited'
  BY <1>a DEF TypeOK, Waited
<1>4. Got'
  BY <1>a, <1>b DEF TypeOK, Got, Aimed, Underway
<1>5. AcknowledgedIsKept'
  BY <1>a DEF AcknowledgedIsKept, Got
<1>6. ShutdownLeavesNothing'
  BY <1>a, <1>b DEF TypeOK, ShutdownLeavesNothing, Ending, InFlight
<1> QED
  BY <1>b, <1>1, <1>2, <1>3, <1>4, <1>5, <1>6 DEF Races

\* Under a shutdown nothing is delivered; what the straggler acquired is disposed of.
LEMMA StragglesKeeps ==
  ASSUME HostAssumption, TypeOK, Races, NEW p \in Prompt, Deliver(p), ShuttingDown PROVE Races'
<1> Aimed /\ Behind /\ Hands /\ Waited /\ Got /\ AcknowledgedIsKept /\ ShutdownLeavesNothing
  BY DEF Races
<1>a. /\ UNCHANGED <<running, delegated, resuming, stop>> /\ ShuttingDown
      /\ call[p].st = "got" /\ \A q \in Prompt \ {p} : call'[q] = call[q]
      /\ \/ /\ call[p].on \in owned /\ owned' = owned \ {call[p].on}
            /\ call'[p].st = "disposing" /\ call'[p].on = call[p].on
            /\ phase[call[p].on] = "up" /\ phase' = [phase EXCEPT ![call[p].on] = "closing"]
         \/ /\ UNCHANGED <<owned, phase>> /\ call'[p].st = "refused"
  <2>1. call \in [Prompt -> Calls] /\ Straggles(p, call[p].on)
    BY DEF TypeOK, Deliver
  <2>2. UNCHANGED <<running, delegated, resuming, stop>> /\ call[p].st = "got"
    BY <2>1 DEF Deliver, Straggles
  <2>3. CASE call[p].on \in owned
    <3>1. Become({p}, "disposing") /\ owned' = owned \ {call[p].on} /\ Disposes(call[p].on)
      BY <2>1, <2>3 DEF Straggles
    <3>2. phase[call[p].on] = "up" /\ call[p].on \in Session
      BY <2>3 DEF Behind, TypeOK
    <3>3. phase' = [phase EXCEPT ![call[p].on] = "closing"]
      BY <3>1, <3>2 DEF Disposes, TypeOK
    <3>4. call'[p].st = "disposing" /\ call'[p].on = call[p].on /\ \A q \in Prompt \ {p} : call'[q] = call[q]
      BY <3>1, BecomeFacts
    <3> QED
      BY <2>2, <2>3, <3>1, <3>2, <3>3, <3>4
  <2>4. CASE call[p].on \notin owned
    <3>1. Become({p}, "refused") /\ UNCHANGED <<owned, phase>>
      BY <2>1, <2>4 DEF Straggles
    <3> QED
      BY <2>2, <3>1, BecomeFacts
  <2> QED
    BY <2>3, <2>4
<1>t. AgentTypes /\ (~ShuttingDown => ~Answered)
  BY AgentsTyped
<1>b. /\ Hands' /\ (ShuttingDown' <=> ShuttingDown) /\ (Answered' <=> Answered)
      /\ LeftToSweep' = LeftToSweep
  BY <1>a, StopsFrame
<1>1. Aimed'
  BY <1>a DEF Aimed, Underway
<1>2. Behind'
  BY <1>a, <1>b, <1>t DEF AgentTypes, Behind, Inside, Resumed
<1>3. Waited'
  BY <1>a DEF TypeOK, Waited
<1>4. Got'
  BY <1>a, <1>b DEF TypeOK, Got, Aimed, Underway
<1>5. AcknowledgedIsKept'
  BY <1>a DEF AcknowledgedIsKept
<1>6. ShutdownLeavesNothing'
  BY <1>a, <1>b DEF TypeOK, ShutdownLeavesNothing, Ending, InFlight
<1> QED
  BY <1>b, <1>1, <1>2, <1>3, <1>4, <1>5, <1>6 DEF Races

\* The races are run by agents, prompts and the shutdown; the rest leaves them alone.
LEMMA RacesStep == ASSUME HostAssumption, TypeOK, Races, Next PROVE Races'
<1>1. ASSUME UNCHANGED <<agents, holds, call, stop>> PROVE Races'
  BY <1>1, RacesFrame DEF agents, holds
<1>2. CASE Flush
  BY <1>1, <1>2 DEF Flush
<1>3. CASE \E c \in Client : Frames(c)
  BY <1>1, <1>3, MovesKeep DEF Frames, Moves, Connect, Disconnect, DetachAll, ControlSubscribe,
     Attach, Detach, Narrows, ApprovalAnswer, Cancel
<1>4. CASE Prompts
  <2>1. ASSUME NEW p \in Prompt, Deliver(p) PROVE Races'
    BY <2>1, DeliversKeeps, StragglesKeeps DEF Deliver
  <2> QED
    BY <1>4, <2>1, PromptNewKeeps, PromptAtKeeps, StragglerGoneKeeps DEF Prompts
<1>5. CASE Agents
  <2>1. ASSUME NEW s \in Session, Ask(s) \/ Decide(s) PROVE Races'
    BY <1>1, <2>1 DEF Ask, Decide
  <2> QED
    BY <1>5, <2>1, TurnEndsKeeps, DelegateKeeps, ChildUpKeeps, ChildEndsKeeps, JoinKeeps,
       BuildFailsKeeps,
       ResumeConcludesKeeps, ResumeRefusedKeeps, LeaveKeeps, DetachedKeeps DEF Agents
<1>6. CASE Stops
  BY <1>6, MovesKeep DEF Stops, Moves
<1> QED
  BY <1>2, <1>3, <1>4, <1>5, <1>6 DEF Next


-----------------------------------------------------------------------------
\* A child in its parent's call is its parent's as the host sees it.
LEMMA InsideUnder ==
  ASSUME HostAssumption, TypeOK, Behind, NEW k \in delegated
  PROVE  UnderParent(k) /\ Parent[k] \in running
BY DEF HostAssumption, TypeOK, Behind, Inside, UnderParent

\* Before a shutdown, a registered child is its parent's, a resume or the host's.
LEMMA WhoseChild ==
  ASSUME TypeOK, Behind, Quiet, NEW s \in Session, Registered(s), s \notin delegated
  PROVE  s \in owned \/ s \in resuming
<1>1. ~ShuttingDown => LeftToSweep = {}
  BY AgentsTyped
<1> QED
  BY <1>1 DEF TypeOK, Behind, Quiet, Registered

\* A session that a step does not touch is heard as it was, unless its parent
\* comes or goes; and then either it is not registered, or it is the host's, or a
\* prompt is reaching it.
LEMMA HeardFrame ==
  ASSUME HostAssumption, TypeOK, Behind, Quiet, NEW c \in Client, NEW s \in Session, Heard(c, s),
         told'[c][s] = told[c][s], s \in withheld => s \in withheld', owed'[s] = owed[s],
         Registered(s)' <=> Registered(s),
         s \in running <=> s \in running', asked[s] = "no" <=> asked'[s] = "no",
         s \in owned <=> s \in owned', s \in resuming /\ Registered(s) => s \in resuming',
         s \in owned => \A p \in Prompt : call[p].st = "got" /\ call[p].on = s =>
                           call'[p].st = "got" /\ call'[p].on = s,
         Parent[s] \in Session =>
           (Registered(Parent[s])' <=> Registered(Parent[s])) \/ Parent[s] \notin running
  PROVE  Heard(c, s)'
<1>2. SummaryOf(s)' = SummaryOf(s)
  BY DEF SummaryOf
<1>3. Reaching(s) => Reaching(s)'
  BY DEF Reaching
<1>4. CASE UnderParent(s)' <=> UnderParent(s)
  BY <1>2, <1>3, <1>4 DEF Heard, Shown, Unseen
<1>5. CASE ~(UnderParent(s)' <=> UnderParent(s))
  <2>1. Parent[s] # Nobody /\ s \notin owned /\ Parent[s] \in Session
    BY <1>5 DEF UnderParent, HostAssumption
  <2>2. Parent[s] \notin running
    BY <1>5, <2>1 DEF UnderParent
  <2>3. s \notin delegated
    BY <2>2, InsideUnder
  <2>4. Registered(s) => Reaching(s)
    BY <2>1, <2>3, WhoseChild DEF Reaching
  <2> QED
    BY <1>3, <2>4 DEF Heard, Shown, Unseen
<1> QED
  BY <1>4, <1>5

\* A step that touches one session, and tells no one anything: that one is all
\* that has to be looked at.
LEMMA PlaneFrame ==
  ASSUME HostAssumption, TypeOK, Behind, Plane, Quiet' => Quiet, NEW x \in Session,
         UNCHANGED withheld,
         \A c \in Client : Listens(c)' => Listens(c) /\ told'[c] = told[c],
         \A s \in Session \ {x} :
           /\ owed'[s] = owed[s] /\ (Registered(s)' <=> Registered(s))
           /\ s \in running <=> s \in running'
           /\ asked[s] = "no" <=> asked'[s] = "no"
           /\ s \in owned <=> s \in owned'
           /\ s \in resuming /\ Registered(s) => s \in resuming'
           /\ s \in owned => \A p \in Prompt : call[p].st = "got" /\ call[p].on = s =>
                                call'[p].st = "got" /\ call'[p].on = s,
         \A s \in Session : (Registered(s)' <=> Registered(s)) \/ s \notin running,
         \A c \in Client : Quiet /\ Listens(c) /\ Heard(c, x) /\ told'[c] = told[c] => Heard(c, x)'
  PROVE  Plane'
<1> SUFFICES ASSUME Quiet', NEW c \in Client, NEW s \in Session, Listens(c)'
             PROVE  Heard(c, s)'
  BY DEF Plane
<1>1. Quiet /\ Listens(c) /\ told'[c] = told[c] /\ Heard(c, s)
  BY DEF Plane
<1>2. CASE s = x
  BY <1>1, <1>2
<1>3. CASE s # x
  BY <1>1, <1>3, HeardFrame
<1> QED
  BY <1>2, <1>3

\* A step that touches none.
LEMMA PlaneSame ==
  ASSUME HostAssumption, TypeOK, Behind, Plane, Quiet' => Quiet, UNCHANGED <<withheld, owed>>,
         \A c \in Client : Listens(c)' => Listens(c) /\ told'[c] = told[c],
         \A s \in Session :
           /\ Registered(s)' <=> Registered(s)
           /\ s \in running <=> s \in running'
           /\ asked[s] = "no" <=> asked'[s] = "no"
           /\ s \in owned <=> s \in owned'
           /\ s \in resuming /\ Registered(s) => s \in resuming'
           /\ s \in owned => \A p \in Prompt : call[p].st = "got" /\ call[p].on = s =>
                                call'[p].st = "got" /\ call'[p].on = s
  PROVE  Plane'
<1> SUFFICES ASSUME Quiet', NEW c \in Client, NEW s \in Session, Listens(c)'
             PROVE  Heard(c, s)'
  BY DEF Plane
<1>1. Quiet /\ Listens(c) /\ told'[c] = told[c] /\ Heard(c, s)
  BY DEF Plane
<1> QED
  BY <1>1, HeardFrame

\* What Owes makes of the owings.
LEMMA OwesFacts ==
  ASSUME TypeOK, NEW x \in Session, NEW how \in {"live", "closed"}, Owes(x, how)
  PROVE  /\ \A s \in Session \ {x} : owed'[s] = owed[s]
         /\ owed'[x] = "closed" => owed[x] = "closed" \/ how = "closed"
         /\ ~closed /\ AnySubscriber =>
              owed'[x] = IF how = "closed" \/ owed[x] = "closed" THEN "closed" ELSE "live"
BY DEF TypeOK, Owes, Owing

\* Callers that have their agent, or are refused, leave the other sessions'.
LEMMA OthersWait ==
  ASSUME TypeOK, NEW x \in Session, NEW st \in {"got", "refused"}, Become(Waiting(x), st)
  PROVE  /\ \A s \in Session \ {x} :
              (\E p \in Prompt : call[p].st = "waiting" /\ call[p].on = s) =>
              (\E p \in Prompt : call'[p].st = "waiting" /\ call'[p].on = s)
         /\ \A s \in Session, p \in Prompt : call[p].st = "got" /\ call[p].on = s =>
              call'[p].st = "got" /\ call'[p].on = s
         /\ st = "got" => \A p \in Prompt : call[p].st = "waiting" /\ call[p].on = x =>
              call'[p].st = "got" /\ call'[p].on = x
<1>1. Waiting(x) \subseteq Prompt
  BY DEF Waiting
<1> QED
  BY <1>1, BecomeFacts DEF Waiting

\* The owings that a step leaves alone, with what they stand for.
LEMMA OwingsFrame ==
  ASSUME Owings, UNCHANGED <<owed, phase, resuming, call>>,
         \A s \in parked' : s \in parked, \A s \in parked' : asked'[s] # "no"
  PROVE  Owings'
BY DEF Owings, Registered

\* What a disposal does to a session, and to its question.
LEMMA DisposesFacts ==
  ASSUME TypeOK, NEW x \in Session, Disposes(x)
  PROVE  /\ \A s \in Session : phase'[s] # phase[s] => s = x /\ phase[s] \in {"joined", "up"} /\ phase'[s] = "closing"
         /\ \A s \in Session : asked[s] = "no" <=> asked'[s] = "no"
BY DEF TypeOK, Disposes, Aborts

LEMMA OwingsStep ==
  ASSUME HostAssumption, TypeOK, Behind, Aimed, Owings, Next PROVE Owings'
<1>1. CASE Flush
  BY <1>1 DEF Flush, Owings, agents, holds, questions, Registered
<1>2. ASSUME NEW c \in Client, Connect(c) \/ ControlSubscribe(c) PROVE Owings'
  BY <1>2, OwingsFrame DEF Connect, ControlSubscribe, agents, holds, questions, Owings
<1>3. ASSUME NEW ks, SettleUnwatched(ks), UNCHANGED <<owed, phase, resuming, call>> PROVE Owings'
  BY <1>3, OwingsFrame DEF SettleUnwatched, Owings, TypeOK
<1>4. ASSUME NEW ks, Close(ks), UNCHANGED <<phase, resuming, call>> PROVE Owings'
  BY <1>4 DEF Close, Owings, Registered
<1>18. ASSUME NEW s \in Session, Disposes(s), UNCHANGED <<owed, resuming, call, parked>> PROVE Owings'
  BY <1>18, DisposesFacts DEF Owings, Registered, TypeOK
<1>m. ASSUME NEW k \in Halt, Moves(k) PROVE Owings'
  <2>1. UNCHANGED <<resuming, call>>
    BY <1>m, StopOutcomes DEF Elsewhere
  <2>2. ASSUME NEW handles \in SUBSET Session, DisposesOf(k, handles) PROVE Owings'
    <3>1. PICK s \in Session : Disposes(s) /\ UNCHANGED <<parked, owed>>
      BY <2>2, DisposeOutcome
    <3> QED
      BY <1>18, <2>1, <3>1
  <2>3. owned \in SUBSET Session /\ stop[k].left \in SUBSET Session
    BY DEF TypeOK, Stages
  <2>4. CASE Drains(k)
    BY <2>1, <2>4, OwingsFrame DEF Drains, questions, Owings
  <2>5. CASE Answers(k)
    BY <1>4, <2>1, <2>5, OwingsFrame DEF Answers, Owings
  <2> QED
    BY <1>m, <2>2, <2>3, <2>4, <2>5, StopOutcomes DEF TakesOwned
<1>5. ASSUME NEW c \in Client, Disconnect(c) PROVE Owings'
  BY <1>3, <1>4, <1>5 DEF Disconnect, agents, holds
<1>6. ASSUME NEW c \in Client, NEW k, Narrows(c, k) PROVE Owings'
  BY <1>3, <1>6 DEF Narrows, agents, holds
<1>7. ASSUME NEW c \in Client, NEW s \in Session, ApprovalAnswer(c, s) \/ Cancel(c, s) PROVE Owings'
  BY <1>7, OwingsFrame DEF ApprovalAnswer, Cancel, Aborts, agents, holds, TypeOK, Owings
<1>8. CASE \E c \in Client : Frames(c)
  BY <1>2, <1>5, <1>6, <1>7, <1>8, <1>m DEF Frames, Moves, Attach, Detach, DetachAll
<1>9. ASSUME NEW p \in Prompt, NEW s \in Session, PromptNew(p, s) PROVE Owings'
  <2>1. /\ call[p].st = "new" /\ UNCHANGED <<owed, resuming, parked, asked>>
        /\ \A q \in Prompt \ {p} : call'[q] = call[q]
    BY <1>9, AcquiresFacts DEF PromptNew, holds, questions
  <2>2. phase' = phase \/ (phase[s] = "unborn" /\ phase' = [phase EXCEPT ![s] = "building"])
    BY <1>9 DEF PromptNew
  <2> QED
    BY <2>1, <2>2 DEF Owings, Registered, TypeOK
<1>10. ASSUME NEW p \in Prompt, NEW s \in Session, PromptAt(p, s) PROVE Owings'
  <2>1. call[p].st = "new" /\ UNCHANGED <<owed, parked, asked>>
    BY <1>10 DEF PromptAt, questions
  <2>2. CASE phase' = phase /\ resuming' = resuming
    <3>1. \A q \in Prompt \ {p} : call'[q] = call[q]
      BY <1>10, AcquiresFacts DEF PromptAt, TypeOK
    <3> QED
      BY <2>1, <2>2, <3>1 DEF Owings, Registered, TypeOK
  <2>3. CASE /\ Acquires(p, s, "waiting") /\ phase[s] = "stored"
             /\ phase' = [phase EXCEPT ![s] = "building"] /\ resuming' = resuming \cup {s}
    <3>1. (\A q \in Prompt \ {p} : call'[q] = call[q]) /\ call'[p].st = "waiting" /\ call'[p].on = s
      BY <2>3, AcquiresFacts
    <3> QED
      BY <2>1, <2>3, <3>1 DEF Owings, Registered, TypeOK
  <2> QED
    BY <1>10, <2>2, <2>3 DEF PromptAt
<1>11. ASSUME NEW p \in Prompt, Deliver(p) PROVE Owings'
  <2>1. call[p].st = "got" /\ call[p].on \in Session /\ UNCHANGED <<resuming, parked>>
    BY <1>11 DEF Deliver, Aimed, Underway
  <2>2. CASE Delivers(p, call[p].on)
    <3>1. \A q \in Prompt \ {p} : call'[q] = call[q]
      BY <2>2 DEF Delivers, TypeOK
    <3>2. UNCHANGED <<phase, asked>> /\ \A s \in Session : owed'[s] = "closed" => owed[s] = "closed"
      BY <2>1, <2>2, OwesFacts DEF Delivers
    <3> QED
      BY <2>1, <3>1, <3>2 DEF Owings, Registered, TypeOK
  <2>3. CASE Straggles(p, call[p].on)
    <3>1. \A q \in Prompt \ {p} : call'[q] = call[q]
      BY <2>3, BecomeFacts DEF Straggles
    <3>2. /\ owed' = owed
          /\ \A s \in Session : /\ phase'[s] # phase[s] => phase[s] \in {"joined", "up"} /\ phase'[s] = "closing"
                                /\ asked[s] = "no" <=> asked'[s] = "no"
      BY <2>1, <2>3, DisposesFacts DEF Straggles
    <3> QED
      BY <2>1, <3>1, <3>2 DEF Owings, Registered, TypeOK
  <2> QED
    BY <1>11, <2>2, <2>3 DEF Deliver
<1>12. ASSUME NEW p \in Prompt, StragglerGone(p) PROVE Owings'
  <2>1. call[p].st = "disposing" /\ \A q \in Prompt \ {p} : call'[q] = call[q]
    BY <1>12, BecomeFacts DEF StragglerGone
  <2> QED
    BY <1>12, <2>1 DEF StragglerGone, Owings, Registered, agents, holds, questions, TypeOK
<1>13. CASE Prompts
  BY <1>9, <1>10, <1>11, <1>12, <1>13 DEF Prompts
<1>14. ASSUME NEW s \in Session, Ask(s) \/ Decide(s) PROVE Owings'
  <2>1. \A t \in Session : owed'[t] = "closed" => owed[t] = "closed"
    BY <1>14, OwesFacts DEF Ask, Decide
  <2> QED
    BY <1>14, <2>1 DEF Ask, Decide, Owings, Registered, agents, holds, TypeOK
<1>15. ASSUME NEW s \in Session, TurnEnds(s) PROVE Owings'
  <2>1. \A t \in Session : owed'[t] = "closed" => owed[t] = "closed"
    BY <1>15, OwesFacts DEF TurnEnds
  <2> QED
    BY <1>15, <2>1 DEF TurnEnds, Owings, Registered, holds, questions, TypeOK
<1>16. ASSUME NEW k \in Session, Delegate(k) PROVE Owings'
  BY <1>16 DEF Delegate, Owings, Registered, holds, questions, TypeOK
<1>17. ASSUME NEW k \in Session, ChildUp(k) PROVE Owings'
  <2>1. k \notin resuming /\ phase[k] = "building"
    BY <1>17 DEF ChildUp, Behind, Inside
  <2>2. (\A t \in Session : owed'[t] = "closed" => owed[t] = "closed") /\ owed'[k] # "closed"
    BY <1>17, <2>1, OwesFacts DEF ChildUp, Owings
  <2> QED
    BY <1>17, <2>1, <2>2 DEF ChildUp, Owings, Registered, holds, questions, TypeOK
<1>19. ASSUME NEW s \in Session, ChildEnds(s) \/ ResumeRefused(s) PROVE Owings'
  BY <1>18, <1>19 DEF ChildEnds, ResumeRefused, holds
<1>20. ASSUME NEW s \in Session, Join(s) PROVE Owings'
  <2>1. /\ phase[s] = "building" /\ owed'[s] # "closed" /\ UNCHANGED <<resuming, parked, asked>>
        /\ \A t \in Session \ {s} : owed'[t] = owed[t] /\ phase'[t] = phase[t]
        /\ phase'[s] \in {"joined", "up"}
    BY <1>20, OwesFacts DEF Join, questions, TypeOK
  <2>2. \A t \in resuming : \E p \in Prompt : call'[p].st = "waiting" /\ call'[p].on = t
    BY <1>20, OthersWait DEF Join, Owings, TypeOK
  <2> QED
    BY <2>1, <2>2 DEF Owings, Registered, TypeOK
<1>21. ASSUME NEW s \in Session, BuildFails(s) PROVE Owings'
  <2>1. \A t \in resuming \ {s} : \E p \in Prompt : call'[p].st = "waiting" /\ call'[p].on = t
    BY <1>21, OthersWait DEF BuildFails, Owings, TypeOK
  <2> QED
    BY <1>21, <2>1 DEF BuildFails, Owings, Registered, questions, TypeOK
<1>22. ASSUME NEW s \in Session, ResumeConcludes(s) PROVE Owings'
  <2>1. \A t \in resuming \ {s} : \E p \in Prompt : call'[p].st = "waiting" /\ call'[p].on = t
    BY <1>22, OthersWait DEF ResumeConcludes, Owings, TypeOK
  <2>2. (\A t \in Session : owed'[t] = "closed" => owed[t] = "closed") /\ owed'[s] # "closed"
    BY <1>22, OwesFacts DEF ResumeConcludes
  <2> QED
    BY <1>22, <2>1, <2>2 DEF ResumeConcludes, Owings, Registered, questions, TypeOK
<1>23. ASSUME NEW s \in Session, Leave(s) PROVE Owings'
  <2>1. \A t \in Session \ {s} : owed'[t] = owed[t]
    BY <1>23, OwesFacts DEF Leave
  <2> QED
    BY <1>23, <2>1 DEF Leave, Owings, Registered, holds, questions, TypeOK
<1>24. ASSUME NEW s \in Session, Detached(s) PROVE Owings'
  <2>1. \A t \in resuming \ {s} : \E p \in Prompt : call'[p].st = "waiting" /\ call'[p].on = t
    BY <1>24, OthersWait DEF Detached, Owings, TypeOK
  <2> QED
    BY <1>24, <2>1 DEF Detached, Owings, Registered, questions, TypeOK
<1>25. CASE Agents
  BY <1>14, <1>15, <1>16, <1>17, <1>19, <1>20, <1>21, <1>22, <1>23, <1>24, <1>25 DEF Agents
<1>26. CASE Stops
  BY <1>26, <1>m DEF Stops, Moves
<1> QED
  BY <1>1, <1>8, <1>13, <1>25, <1>26 DEF Next

\* A session a resume, a call or a maker brought here is never again untold.
LEMMA UntoldShrinks ==
  ASSUME HostAssumption, TypeOK, Behind, Next PROVE \A s \in Session : Untold(s)' => Untold(s)
<1>1. CASE UNCHANGED <<phase, delegated, resuming>>
  BY <1>1 DEF Untold
<1>2. ASSUME NEW x \in Session, Disposes(x), UNCHANGED <<delegated, resuming>>
      PROVE  \A s \in Session : Untold(s)' => Untold(s)
  BY <1>2, DisposesFacts DEF Untold
<1>m. ASSUME NEW k \in Halt, Moves(k) PROVE \A s \in Session : Untold(s)' => Untold(s)
  <2>1. UNCHANGED <<delegated, resuming>>
    BY <1>m, StopOutcomes DEF Elsewhere
  <2>2. owned \in SUBSET Session /\ stop[k].left \in SUBSET Session
    BY DEF TypeOK, Stages
  <2>3. UNCHANGED phase \/ \E s \in Session : Disposes(s)
    BY <1>m, <2>2, StopOutcomes, DisposeOutcome DEF Drains, Answers, TakesOwned
  <2> QED
    BY <1>1, <1>2, <2>1, <2>3
<1>3. CASE Flush \/ \E c \in Client : Frames(c)
  <2>1. ASSUME NEW c \in Client, Frames(c)
        PROVE  UNCHANGED <<agents, holds>> \/ \E k \in Halt : Moves(k)
    <3>1. CASE Connect(c) \/ Disconnect(c) \/ DetachAll(c) \/ ControlSubscribe(c)
      BY <3>1 DEF Connect, Disconnect, DetachAll, ControlSubscribe, Narrows
    <3>2. CASE \E s \in Session : Attach(c, s) \/ Detach(c, s) \/ ApprovalAnswer(c, s) \/ Cancel(c, s)
      BY <3>2 DEF Attach, Detach, ApprovalAnswer, Cancel, Narrows
    <3>3. CASE \E k \in Halt : Shutdown(c, k)
      BY <3>3 DEF Moves
    <3> QED
      BY <2>1, <3>1, <3>2, <3>3 DEF Frames
  <2>2. CASE Flush
    BY <1>1, <2>2 DEF Flush, agents, holds
  <2> QED
    BY <1>1, <1>3, <1>m, <2>1, <2>2 DEF agents, holds
<1>4. CASE Prompts
  <2>1. ASSUME NEW p \in Prompt, NEW s \in Session, PromptNew(p, s) \/ PromptAt(p, s)
        PROVE  \A t \in Session : Untold(t)' => Untold(t)
    BY <2>1 DEF PromptNew, PromptAt, holds, Untold, TypeOK
  <2>2. ASSUME NEW p \in Prompt, Deliver(p) PROVE \A t \in Session : Untold(t)' => Untold(t)
    <3>1. CASE UNCHANGED phase
      BY <1>1, <2>2, <3>1 DEF Deliver
    <3>2. CASE phase' # phase
      <4>1. call[p].on \in Session /\ Disposes(call[p].on)
        BY <2>2, <3>2 DEF Deliver, Delivers, Straggles, TypeOK, Behind
      <4> QED
        BY <1>2, <2>2, <4>1 DEF Deliver
    <3> QED
      BY <3>1, <3>2
  <2>3. ASSUME NEW p \in Prompt, StragglerGone(p) PROVE \A t \in Session : Untold(t)' => Untold(t)
    BY <1>1, <2>3 DEF StragglerGone, agents, holds
  <2> QED
    BY <1>4, <2>1, <2>2, <2>3 DEF Prompts
<1>5. CASE Agents
  <2>1. ASSUME NEW s \in Session, Ask(s) \/ Decide(s) \/ TurnEnds(s)
        PROVE  \A t \in Session : Untold(t)' => Untold(t)
    BY <1>1, <2>1 DEF Ask, Decide, TurnEnds, agents, holds
  <2>2. ASSUME NEW s \in Session, ChildEnds(s) \/ ResumeRefused(s)
        PROVE  \A t \in Session : Untold(t)' => Untold(t)
    BY <1>2, <2>2 DEF ChildEnds, ResumeRefused, holds
  <2>3. ASSUME NEW s \in Session, Delegate(s) \/ ChildUp(s) \/ Leave(s)
        PROVE  \A t \in Session : Untold(t)' => Untold(t)
    BY <2>3 DEF Delegate, ChildUp, Leave, holds, Untold, TypeOK, Behind, Resumed
  <2>4. ASSUME NEW s \in Session, Join(s) \/ BuildFails(s) \/ ResumeConcludes(s) \/ Detached(s)
        PROVE  \A t \in Session : Untold(t)' => Untold(t)
    BY <2>4 DEF Join, BuildFails, ResumeConcludes, Detached, holds, Untold, TypeOK
  <2> QED
    BY <1>5, <2>1, <2>2, <2>3, <2>4 DEF Agents
<1>6. CASE Stops
  BY <1>6, <1>m DEF Stops, Moves
<1> QED
  BY <1>3, <1>4, <1>5, <1>6 DEF Next

\* What every subscriber was told is of sessions that were here.
LEMMA SeenStep ==
  ASSUME HostAssumption, TypeOK, Behind, Seen, Next PROVE Seen'
<1>1. \A s \in Session : Untold(s)' => Untold(s)
  BY UntoldShrinks
<1>2. \A s \in Session : Untold(s) => UnderParent(s) \/ ~Registered(s)
  BY InsideUnder DEF Untold, Registered
<1>3. ASSUME UNCHANGED told, ~closed' => ~closed /\ \A c \in Client : Listens(c) => Listens(c)'
      PROVE  Seen'
  BY <1>1, <1>3 DEF Seen, Unseen
<1>4. ASSUME UNCHANGED <<told, conn, closed>> PROVE Seen'
  BY <1>3, <1>4 DEF Listens, Open
<1>5. CASE Flush
  <2>1. told' = [c \in Client |-> told'[c]]
    BY <1>5 DEF Flush
  <2>2. UNCHANGED <<conn, closed>>
    BY <1>5 DEF Flush
  <2>3. ASSUME NEW c \in Client, NEW s \in Session
        PROVE  /\ ~Listens(c) => told'[c][s] = told[c][s]
               /\ Untold(s) => told'[c][s] \in {told[c][s], Closed}
    BY <1>2, <1>5 DEF Flush, Listens
  <2> QED
    BY <1>1, <2>1, <2>2, <2>3 DEF Seen, Unseen, Listens, Open
<1>6. ASSUME NEW c \in Client, ControlSubscribe(c) PROVE Seen'
  <2>1. told' = [d \in Client |-> told'[d]]
    BY <1>6 DEF ControlSubscribe, Seen
  <2>2. closed' = closed /\ Listens(c)' /\ \A d \in Client \ {c} : conn'[d] = conn[d] /\ told'[d] = told[d]
    BY <1>6 DEF ControlSubscribe, TypeOK, Connections, Listens, Open, Seen
  <2>3. ASSUME NEW s \in Session, Untold(s) PROVE told'[c][s] = told[c][s]
    BY <1>2, <1>6, <2>3 DEF ControlSubscribe, Seen
  <2> QED
    BY <1>1, <2>1, <2>2, <2>3 DEF Seen, Unseen, Listens, Open
<1>7. ASSUME NEW c \in Client, Connect(c) PROVE Seen'
  <2>1. told' = told /\ closed' = closed /\ ~Listens(c) /\ \A d \in Client \ {c} : conn'[d] = conn[d]
    BY <1>7 DEF Connect, clients, Fresh, Listens, Open, TypeOK
  <2> QED
    BY <1>3, <2>1 DEF Listens, Open
<1>8. ASSUME NEW c \in Client, Disconnect(c) PROVE Seen'
  <2>1. /\ told' = [d \in Client |-> told'[d]] /\ \A s \in Session : told'[c][s] = Unheard
        /\ \A d \in Client \ {c} : told'[d] = told[d]
    BY <1>8 DEF Disconnect, Seen
  <2>2. ~closed' => ~closed /\ \A d \in Client \ {c} : conn'[d] = conn[d]
    BY <1>8 DEF Disconnect, Close, TypeOK
  <2> QED
    BY <1>1, <2>1, <2>2 DEF Seen, Unseen, Listens, Open
<1>9. ASSUME NEW c \in Client, NEW k \in Connections, Narrows(c, k), k.st = conn[c].st, k.control = conn[c].control
      PROVE  Seen'
  <2>1. told' = told /\ closed' = closed /\ conn' = [conn EXCEPT ![c] = k]
    BY <1>9 DEF Narrows
  <2> QED
    BY <1>3, <1>9, <2>1 DEF Listens, Open, TypeOK
<1>10. ASSUME NEW c \in Client, DetachAll(c) \/ \E s \in Session : Attach(c, s) \/ Detach(c, s) PROVE Seen'
  <2>1. conn[c] \in Connections
    BY DEF TypeOK
  <2>2. \A w : /\ [conn[c] EXCEPT !.all = FALSE, !.watch = w].st = conn[c].st
               /\ [conn[c] EXCEPT !.all = FALSE, !.watch = w].control = conn[c].control
    BY <2>1 DEF Connections
  <2> QED
    BY <1>9, <1>10, <2>1, <2>2, ConnectionTypes DEF DetachAll, Attach, Detach
<1>11. ASSUME NEW k \in Halt, Moves(k) PROVE Seen'
  <2>1. told' = told /\ (UNCHANGED <<conn, closed>> \/ closed')
    BY <1>11, StopOutcomes DEF Elsewhere, Drains, TakesOwned, DisposesOf, Answers, Close
  <2> QED
    BY <1>3, <1>4, <2>1
<1>12. CASE Prompts \/ Agents
  <2>1. CASE Prompts
    BY <1>4, <2>1 DEF clients, Prompts, PromptNew, PromptAt, Deliver, StragglerGone
  <2>2. CASE Agents
    BY <1>4, <2>2 DEF clients, Agents, Ask, Decide, TurnEnds, Delegate, ChildUp, ChildEnds, Join,
       BuildFails, ResumeConcludes, ResumeRefused, Leave, Detached
  <2> QED
    BY <1>12, <2>1, <2>2
<1>13. CASE \E c \in Client : Frames(c)
  <2>1. ASSUME NEW c \in Client, NEW s \in Session, ApprovalAnswer(c, s) \/ Cancel(c, s) PROVE Seen'
    BY <1>4, <2>1 DEF ApprovalAnswer, Cancel, clients
  <2> QED
    BY <1>6, <1>7, <1>8, <1>10, <1>11, <1>13, <2>1 DEF Frames, Moves
<1> QED
  BY <1>5, <1>11, <1>12, <1>13 DEF Next, Stops, Moves

\* A summary that is owed makes up for what changed.
LEMMA OwesHeard ==
  ASSUME TypeOK, Owings, NEW c \in Client, NEW x \in Session, Listens(c), ~closed, Heard(c, x),
         Owes(x, "live"), UNCHANGED <<told, withheld>>,
         Shown(x)' <=> Shown(x),
         ~Shown(x) /\ Reaching(x) => Reaching(x)'
  PROVE  Heard(c, x)'
<1>1. AnySubscriber
  BY DEF AnySubscriber, Listens
<1>2. owed'[x] = IF owed[x] = "closed" THEN "closed" ELSE "live"
  BY <1>1, OwesFacts
<1>3. CASE owed[x] = "closed"
  BY <1>2, <1>3 DEF Heard
<1>4. CASE owed[x] # "closed" /\ Shown(x)
  BY <1>2, <1>4 DEF Heard
<1>5. CASE owed[x] # "closed" /\ ~Shown(x)
  BY <1>2, <1>5 DEF Heard, Unseen
<1> QED
  BY <1>3, <1>4, <1>5

LEMMA QuietBefore == ASSUME TypeOK, Next, Quiet' PROVE Quiet
<1>a. ASSUME UNCHANGED stop, closed => closed' PROVE Quiet
  BY <1>a DEF Quiet, ShuttingDown
<1>1. CASE Flush \/ Prompts
  <2>1. UNCHANGED <<stop, closed>>
    BY <1>1 DEF Flush, Prompts, PromptNew, PromptAt, Deliver, StragglerGone
  <2> QED
    BY <1>a, <2>1
<1>2. ASSUME NEW k \in Halt, Moves(k) PROVE Quiet
  BY <1>2, MovesShut DEF Quiet
<1>3. CASE Agents
  BY <1>3, <1>a DEF Agents, Ask, Decide, TurnEnds, Delegate, ChildUp, ChildEnds, Join, BuildFails,
     ResumeConcludes, ResumeRefused, Leave, Detached
<1>4. ASSUME NEW c \in Client, Disconnect(c) PROVE Quiet
  BY <1>4, <1>a DEF Disconnect, Close
<1>5. ASSUME NEW c \in Client, Connect(c) \/ ControlSubscribe(c) \/ \E k : Narrows(c, k) PROVE Quiet
  <2>1. UNCHANGED <<stop, closed>>
    BY <1>5 DEF Connect, ControlSubscribe, Narrows
  <2> QED
    BY <1>a, <2>1
<1>6. ASSUME NEW c \in Client, NEW s \in Session, ApprovalAnswer(c, s) \/ Cancel(c, s) PROVE Quiet
  BY <1>6, <1>a DEF ApprovalAnswer, Cancel
<1>7. CASE \E c \in Client : Frames(c)
  BY <1>2, <1>4, <1>5, <1>6, <1>7 DEF Frames, Moves, Attach, Detach, DetachAll
<1>8. CASE Stops
  BY <1>2, <1>8 DEF Stops, Moves
<1> QED
  BY <1>1, <1>3, <1>7, <1>8 DEF Next

\* The microtask: what is owed is told, withheld or was never shown.
LEMMA FlushHeard ==
  ASSUME HostAssumption, TypeOK, Owings, NEW c \in Client, NEW s \in Session, Listens(c), Heard(c, s), Flush
  PROVE  Heard(c, s)'
<1> DEFINE sent == /\ owed[s] # "no" /\ ~UnderParent(s)
                   /\ owed[s] = "closed" \/ Registered(s)
<1>1. /\ told'[c][s] = IF sent THEN (IF owed[s] = "closed" THEN Closed ELSE SummaryOf(s)) ELSE told[c][s]
      /\ s \in withheld /\ ~sent => s \in withheld'
      /\ owed[s] = "closed" /\ UnderParent(s) /\ ~Unseen(c, s) => s \in withheld'
  BY DEF Flush, Listens, Unseen
<1>2. UNCHANGED <<agents, holds, questions, call>> /\ owed'[s] = "no"
  BY DEF Flush
<1>3. /\ Registered(s)' <=> Registered(s)
      /\ UnderParent(s)' <=> UnderParent(s)
      /\ SummaryOf(s)' = SummaryOf(s) /\ (Reaching(s) => Reaching(s)')
  BY <1>2 DEF Registered, UnderParent, SummaryOf, Reaching, agents, holds, questions
<1>4. owed[s] = "closed" => ~Registered(s)
  BY DEF Owings
<1> HIDE DEF sent
<1>5. CASE sent
  <2>1. ~UnderParent(s) /\ (owed[s] = "closed" \/ Registered(s))
    BY <1>5 DEF sent
  <2> QED
    BY <1>1, <1>2, <1>3, <1>4, <1>5, <2>1 DEF Heard, Shown, Unseen
<1>6. CASE ~sent
  <2>1. owed[s] = "no" \/ UnderParent(s) \/ (owed[s] # "closed" /\ ~Registered(s))
    BY <1>6 DEF sent
  <2> QED
    BY <1>1, <1>2, <1>3, <1>4, <1>6, <2>1 DEF Heard, Shown, Unseen
<1> QED
  BY <1>5, <1>6

\* The baseline is the truth.
LEMMA SubscribeHeard ==
  ASSUME HostAssumption, TypeOK, Plane, Seen, Quiet, NEW c \in Client, NEW s \in Session,
         NEW d \in Client, ControlSubscribe(d), Listens(c)'
  PROVE  Heard(c, s)'
<1>1. UNCHANGED <<withheld, agents, holds, questions, owed, call>>
  BY DEF ControlSubscribe
<1>2. /\ Registered(s)' <=> Registered(s)
      /\ UnderParent(s)' <=> UnderParent(s)
      /\ SummaryOf(s)' = SummaryOf(s) /\ (Reaching(s)' <=> Reaching(s))
  BY <1>1 DEF Registered, UnderParent, SummaryOf, Reaching, agents, holds, questions
<1>3. Listens(c) => Heard(c, s)
  BY DEF Plane
<1>4. CASE c # d
  <2>1. Listens(c) /\ told'[c] = told[c]
    BY <1>4 DEF ControlSubscribe, Listens, Open, TypeOK, Seen
  <2> QED
    BY <1>1, <1>2, <1>3, <2>1 DEF Heard, Shown, Unseen
<1>5. CASE c = d
  <2>1. told'[c][s] = IF Shown(s) THEN SummaryOf(s) ELSE told[c][s]
    BY <1>5 DEF ControlSubscribe, Shown, Seen
  <2>2. ~Listens(c) => told[c][s] = Unheard
    BY DEF Seen, Quiet
  <2> QED
    BY <1>1, <1>2, <1>3, <2>1, <2>2 DEF Heard, Shown, Unseen
<1> QED
  BY <1>4, <1>5

LEMMA PlaneStep ==
  ASSUME HostAssumption, TypeOK, Behind, Aimed, Plane, Seen, Owings, Next PROVE Plane'
<1>q. Quiet' => Quiet
  BY QuietBefore
<1>o. \A s \in Session : owed[s] = "closed" => ~Registered(s)
  BY DEF Owings
\* Nothing moved but who is connected, or a question towards its settlement.
<1>1. ASSUME UNCHANGED <<withheld, owed, agents, holds, call>>,
             \A c \in Client : Listens(c)' => Listens(c) /\ told'[c] = told[c],
             \A s \in Session : asked[s] = "no" <=> asked'[s] = "no"
      PROVE  Plane'
  <2>1. \A s \in Session : Registered(s)' <=> Registered(s)
    BY <1>1 DEF agents, Registered
  <2> QED
    BY <1>1, <1>q, <2>1, PlaneSame DEF agents, holds
<1>2. ASSUME UNCHANGED <<conn, told, withheld, owed, agents, holds, call, asked>> PROVE Plane'
  BY <1>1, <1>2 DEF Listens, Open
<1>3. CASE Flush
  <2>1. UNCHANGED conn
    BY <1>3 DEF Flush
  <2> QED
    BY <1>3, <1>q, <2>1, FlushHeard DEF Plane, Listens, Open
<1>4. ASSUME NEW d \in Client, ControlSubscribe(d) PROVE Plane'
  BY <1>4, <1>q, SubscribeHeard DEF Plane
<1>5. ASSUME NEW d \in Client, Connect(d) PROVE Plane'
  <2>1. UNCHANGED <<told, withheld, owed, agents, holds, call, asked>>
    BY <1>5 DEF Connect, questions
  <2>2. \A c \in Client : Listens(c)' => Listens(c)
    BY <1>5 DEF Connect, Fresh, Gone, Listens, Open, TypeOK
  <2> QED
    BY <1>1, <2>1, <2>2
<1>6. ASSUME NEW ks, SettleUnwatched(ks) PROVE \A s \in Session : asked[s] = "no" <=> asked'[s] = "no"
  BY <1>6 DEF SettleUnwatched, Owings
<1>7. ASSUME NEW d \in Client, Disconnect(d) PROVE Plane'
  <2>1. CASE closed'
    BY <2>1 DEF Plane, Quiet
  <2>2. CASE ~closed'
    <3>1. /\ conn' = [conn EXCEPT ![d] = Gone] /\ UNCHANGED <<owed, withheld, agents, holds, call>>
          /\ \A s \in Session : asked[s] = "no" <=> asked'[s] = "no"
      BY <1>6, <1>7, <2>2 DEF Disconnect, Close
    <3>2. \A c \in Client : Listens(c)' => Listens(c) /\ told'[c] = told[c]
      BY <1>7, <3>1 DEF Disconnect, Gone, Listens, Open, TypeOK, Seen
    <3> QED
      BY <1>1, <3>1, <3>2
  <2> QED
    BY <2>1, <2>2
<1>8. ASSUME NEW d \in Client, NEW k \in Connections, Narrows(d, k), k.st = conn[d].st, k.control = conn[d].control
      PROVE  Plane'
  <2>1. conn' = [conn EXCEPT ![d] = k] /\ UNCHANGED <<told, withheld, owed, agents, holds, call>>
    BY <1>8 DEF Narrows
  <2>2. \A s \in Session : asked[s] = "no" <=> asked'[s] = "no"
    BY <1>6, <1>8 DEF Narrows
  <2>3. \A c \in Client : Listens(c)' => Listens(c)
    BY <1>8, <2>1 DEF Listens, Open, TypeOK
  <2> QED
    BY <1>1, <2>1, <2>2, <2>3
<1>9. ASSUME NEW d \in Client, DetachAll(d) \/ \E s \in Session : Attach(d, s) \/ Detach(d, s) PROVE Plane'
  <2>1. conn[d] \in Connections
    BY DEF TypeOK
  <2>2. \A w : /\ [conn[d] EXCEPT !.all = FALSE, !.watch = w].st = conn[d].st
               /\ [conn[d] EXCEPT !.all = FALSE, !.watch = w].control = conn[d].control
    BY <2>1 DEF Connections
  <2> QED
    BY <1>8, <1>9, <2>1, <2>2, ConnectionTypes DEF DetachAll, Attach, Detach
<1>10. ASSUME NEW d \in Client, NEW s \in Session, ApprovalAnswer(d, s) \/ Cancel(d, s) PROVE Plane'
  <2>1. UNCHANGED <<conn, told, withheld, owed, agents, holds, call>>
    BY <1>10 DEF ApprovalAnswer, Cancel, clients
  <2>2. \A t \in Session : asked[t] = "no" <=> asked'[t] = "no"
    BY <1>10 DEF ApprovalAnswer, Cancel, Aborts, Owings, TypeOK
  <2> QED
    BY <1>1, <2>1, <2>2 DEF Listens, Open
<1>m. ASSUME NEW k \in Halt, Moves(k) PROVE Plane'
  BY <1>m, MovesShut DEF Plane, Quiet
<1>11. CASE \E c \in Client : Frames(c)
  BY <1>4, <1>5, <1>7, <1>9, <1>10, <1>11, <1>m DEF Frames, Moves
<1>12. ASSUME NEW p \in Prompt, NEW s \in Session, PromptNew(p, s) \/ PromptAt(p, s) PROVE Plane'
  <2>1. /\ call[p].st = "new" /\ UNCHANGED <<conn, told, withheld, owed, running, owned, asked>>
        /\ \A t \in resuming : t \in resuming'
    BY <1>12 DEF PromptNew, PromptAt, clients, holds, questions
  <2>2. \A q \in Prompt \ {p} : call'[q] = call[q]
    <3>1. CASE \E st \in {"waiting", "refused"}, t \in Session \cup {Nobody} : Acquires(p, t, st)
      BY <3>1, AcquiresFacts
    <3>2. CASE call' = [call EXCEPT ![p] = [@ EXCEPT !.st = "got", !.on = s, !.early = s \in resuming]]
      BY <3>2 DEF TypeOK
    <3> QED
      BY <1>12, <3>1, <3>2 DEF PromptNew, PromptAt
  <2>3. \A t \in Session : Registered(t)' <=> Registered(t)
    BY <1>12 DEF PromptNew, PromptAt, Registered, TypeOK
  <2> QED
    BY <1>q, <2>1, <2>2, <2>3, PlaneSame DEF Listens, Open
<1>13. ASSUME NEW p \in Prompt, Deliver(p) PROVE Plane'
  <2>0. PICK x \in Session : x = call[p].on /\ call[p].st = "got"
    BY <1>13 DEF Deliver, Aimed, Underway
  <2>1. CASE ShuttingDown
    <3>1. ShuttingDown'
      BY <1>13, <2>1 DEF Deliver, ShuttingDown
    <3> QED
      BY <3>1 DEF Plane, Quiet
  <2>2. CASE ~ShuttingDown
    <3>1. Delivers(p, x) /\ UNCHANGED <<conn, told, withheld, resuming, owned, phase, asked>>
      BY <1>13, <2>0, <2>2 DEF Deliver, Delivers, clients
    <3>2. \A q \in Prompt \ {p} : call'[q] = call[q]
      BY <2>0, <3>1 DEF Delivers, TypeOK
    <3>3. \A t \in Session : Registered(t)' <=> Registered(t)
      BY <3>1 DEF Registered
    <3>4. CASE phase[x] \notin {"joined", "up"}
      <4>1. UNCHANGED <<running, owed>>
        BY <3>1, <3>4 DEF Delivers
      <4>2. x \notin owned
        BY <3>4 DEF Behind
      <4>3. \A t \in owned, q \in Prompt : call[q].on = t => q # p
        BY <2>0, <4>2
      <4> QED
        BY <1>q, <3>1, <3>2, <3>3, <4>1, <4>3, PlaneSame DEF Listens, Open
    <3>5. CASE phase[x] \in {"joined", "up"}
      <4>1. running' = running \cup {x} /\ Owes(x, "live") /\ Registered(x)
        BY <3>1, <3>5 DEF Delivers, Registered
      <4>2. \A t \in Session \ {x} : owed'[t] = owed[t]
        BY <2>0, <4>1, OwesFacts
      <4>3. \A t \in Session : UnderParent(t)' <=> UnderParent(t)
        BY <3>1 DEF UnderParent, Registered
      <4>4. ASSUME NEW c \in Client, Quiet, Listens(c), Heard(c, x) PROVE Heard(c, x)'
        <5>1. Shown(x)' <=> Shown(x)
          BY <2>0, <3>3, <4>3 DEF Shown
        <5>2. ~Shown(x) => x \notin owned
          BY <4>1 DEF Shown, UnderParent
        <5>3. ~Shown(x) /\ Reaching(x) => Reaching(x)'
          BY <2>0, <3>1, <3>3, <5>2 DEF Reaching
        <5> QED
          BY <2>0, <3>1, <4>1, <4>4, <5>1, <5>3, OwesHeard DEF Quiet
      <4>5. \A t \in Session \ {x}, q \in Prompt : call[q].on = t => q # p
        BY <2>0
      <4> QED
        BY <1>q, <2>0, <3>1, <3>2, <3>3, <4>1, <4>2, <4>4, <4>5, PlaneFrame DEF Listens, Open
    <3> QED
      BY <3>4, <3>5
  <2> QED
    BY <2>1, <2>2
<1>14. ASSUME NEW p \in Prompt, StragglerGone(p) PROVE Plane'
  <2>1. call[p].st = "disposing" /\ \A q \in Prompt \ {p} : call'[q] = call[q]
    BY <1>14, BecomeFacts DEF StragglerGone
  <2>2. UNCHANGED <<conn, told, withheld, owed, agents, holds, asked>>
    BY <1>14 DEF StragglerGone, clients, questions
  <2>3. \A t \in Session : Registered(t)' <=> Registered(t)
    BY <2>2 DEF Registered, agents
  <2> QED
    BY <1>q, <2>1, <2>2, <2>3, PlaneSame DEF agents, holds, Listens, Open
<1>15. CASE Prompts
  BY <1>12, <1>13, <1>14, <1>15 DEF Prompts
\* The summary of one session is owed.
<1>16. ASSUME NEW x \in Session, Owes(x, "live"), UNCHANGED <<conn, told, withheld, phase, holds, call>>,
              \A t \in Session \ {x} : (t \in running <=> t \in running') /\ (asked[t] = "no" <=> asked'[t] = "no")
       PROVE  Plane'
  <2>1. \A t \in Session : Registered(t)' <=> Registered(t)
    BY <1>16 DEF Registered
  <2>2. \A t \in Session \ {x} : owed'[t] = owed[t]
    BY <1>16, OwesFacts
  <2>3. Shown(x)' <=> Shown(x)
    BY <1>16 DEF Shown, UnderParent, Registered, holds
  <2>4. Reaching(x) => Reaching(x)'
    BY <1>16, <2>1 DEF Reaching, holds
  <2>5. ASSUME NEW c \in Client, Quiet, Listens(c), Heard(c, x) PROVE Heard(c, x)'
    BY <1>16, <2>3, <2>4, <2>5, OwesHeard DEF Quiet
  <2> QED
    BY <1>16, <1>q, <2>1, <2>2, <2>5, PlaneFrame DEF Listens, Open, holds
<1>17. ASSUME NEW s \in Session, Ask(s) \/ Decide(s) \/ TurnEnds(s) PROVE Plane'
  <2>1. Owes(s, "live") /\ UNCHANGED <<conn, told, withheld, phase, holds, call>>
    BY <1>17 DEF Ask, Decide, TurnEnds, clients, agents
  <2>2. \A t \in Session \ {s} : (t \in running <=> t \in running') /\ (asked[t] = "no" <=> asked'[t] = "no")
    BY <1>17 DEF Ask, Decide, TurnEnds, agents, questions, TypeOK
  <2> QED
    BY <1>16, <2>1, <2>2
<1>18. ASSUME NEW s \in Session, Disposes(s), UNCHANGED <<conn, told, withheld, owed, running, holds, call>>
       PROVE  Plane'
  <2>1. \A t \in Session : /\ Registered(t)' <=> Registered(t)
                           /\ asked[t] = "no" <=> asked'[t] = "no"
    BY <1>18, DisposesFacts DEF Registered
  <2> QED
    BY <1>18, <1>q, <2>1, PlaneSame DEF holds, Listens, Open
<1>19. ASSUME NEW s \in Session, ChildEnds(s) \/ ResumeRefused(s) PROVE Plane'
  BY <1>18, <1>19 DEF ChildEnds, ResumeRefused, clients
<1>20. ASSUME NEW k \in Session, Delegate(k) PROVE Plane'
  <2>1. \A t \in Session : Registered(t)' <=> Registered(t)
    BY <1>20 DEF Delegate, Registered, TypeOK
  <2>2. UNCHANGED <<conn, told, withheld, owed, running, asked, holds, call>>
    BY <1>20 DEF Delegate, clients, questions
  <2> QED
    BY <1>q, <2>1, <2>2, PlaneSame DEF holds, Listens, Open
<1>21. ASSUME NEW k \in Session, ChildUp(k) PROVE Plane'
  <2>1. /\ UNCHANGED <<conn, told, withheld, delegated, holds, call, asked>>
        /\ running' = running \cup {k} /\ k \in delegated /\ phase[k] = "building"
        /\ phase' = [phase EXCEPT ![k] = "up"] /\ Owes(k, "live")
    BY <1>21 DEF ChildUp, clients, questions
  <2>2. ~Registered(k) /\ k \notin running
    BY <2>1 DEF Registered, TypeOK
  <2>3. \A t \in Session \ {k} : (Registered(t)' <=> Registered(t)) /\ owed'[t] = owed[t]
    BY <2>1, OwesFacts DEF Registered, TypeOK
  <2>4. UnderParent(k)'
    <3>1. UnderParent(k) /\ Parent[k] \in running
      BY <2>1, InsideUnder
    <3>2. Parent[k] \in Session \ {k}
      BY <2>2, <3>1 DEF UnderParent, HostAssumption
    <3> QED
      BY <2>1, <2>3, <3>1, <3>2 DEF UnderParent, holds
  <2>5. ASSUME NEW c \in Client, Heard(c, k) PROVE Heard(c, k)'
    <3>1. Unseen(c, k)
      BY <2>1 DEF Seen, Untold
    <3> QED
      BY <2>1, <2>4, <3>1 DEF Heard, Shown, Unseen
  <2> QED
    BY <1>q, <2>1, <2>2, <2>3, <2>5, PlaneFrame DEF holds, Listens, Open
<1>22. ASSUME NEW x \in Session, Leave(x) PROVE Plane'
  <2>1. /\ UNCHANGED <<conn, told, withheld, running, holds, asked, call, closed>>
        /\ x \notin running /\ phase' = [phase EXCEPT ![x] = "leaving"] /\ Owes(x, "closed")
    BY <1>22 DEF Leave, clients, questions
  <2>2. \A t \in Session \ {x} : (Registered(t)' <=> Registered(t)) /\ owed'[t] = owed[t]
    BY <2>1, OwesFacts DEF Registered, TypeOK
  <2>3. ASSUME NEW c \in Client, Quiet, Listens(c) PROVE Heard(c, x)'
    <3>1. AnySubscriber
      BY <2>3 DEF AnySubscriber, Listens
    <3> QED
      BY <2>1, <2>3, <3>1, OwesFacts DEF Heard, Quiet
  <2> QED
    BY <1>q, <2>1, <2>2, <2>3, PlaneFrame DEF holds, Listens, Open
<1>23. ASSUME NEW x \in Session, Join(x) PROVE Plane'
  <2>1. /\ UNCHANGED <<conn, told, withheld, running, resuming, asked, closed>>
        /\ phase[x] = "building" /\ x \notin delegated /\ owed[x] = "no" /\ Owes(x, "live")
        /\ phase'[x] \in {"joined", "up"} /\ \A t \in Session \ {x} : phase'[t] = phase[t]
    BY <1>23 DEF Join, clients, questions, TypeOK
  <2>2. \A t \in Session \ {x} : (Registered(t)' <=> Registered(t)) /\ owed'[t] = owed[t]
    BY <2>1, OwesFacts DEF Registered
  <2>3. Registered(x)' /\ x \notin running
    BY <2>1 DEF Registered, TypeOK
  <2>4. \A t \in Session, p \in Prompt : call[p].st = "got" /\ call[p].on = t =>
           call'[p].st = "got" /\ call'[p].on = t
    BY <1>23, OthersWait DEF Join
  <2>5. \A t \in Session \ {x} : t \in owned <=> t \in owned'
    BY <1>23 DEF Join
  <2>6. ASSUME NEW c \in Client, Quiet, Listens(c) PROVE Heard(c, x)'
    <3>1. AnySubscriber
      BY <2>6 DEF AnySubscriber, Listens
    <3>2. owed'[x] = "live"
      BY <2>1, <2>6, <3>1, OwesFacts DEF Quiet
    <3>3. CASE x \in resuming /\ Parent[x] # Nobody
      BY <2>1, <2>3, <3>3 DEF Heard, Reaching
    <3>4. CASE ~(x \in resuming /\ Parent[x] # Nobody)
      <4>1. ~UnderParent(x)'
        BY <1>23, <3>4 DEF UnderParent, Join
      <4> QED
        BY <2>3, <3>2, <4>1 DEF Heard, Shown
    <3> QED
      BY <3>3, <3>4
  <2> QED
    BY <1>q, <2>1, <2>2, <2>3, <2>4, <2>5, <2>6, PlaneFrame DEF Listens, Open
<1>24. ASSUME NEW x \in Session, BuildFails(x) \/ Detached(x) PROVE Plane'
  <2>1. /\ UNCHANGED <<conn, told, withheld, owed, running, owned, asked>>
        /\ ~Registered(x) /\ resuming' = resuming \ {x}
        /\ Become(Waiting(x), "refused")
    BY <1>24 DEF BuildFails, Detached, clients, questions, Registered
  <2>2. \A t \in Session : Registered(t)' <=> Registered(t)
    BY <1>24 DEF BuildFails, Detached, Registered, TypeOK
  <2>3. \A t \in Session, p \in Prompt : call[p].st = "got" /\ call[p].on = t =>
           call'[p].st = "got" /\ call'[p].on = t
    BY <2>1, OthersWait
  <2> QED
    BY <1>q, <2>1, <2>2, <2>3, PlaneSame DEF Listens, Open
<1>25. ASSUME NEW x \in Session, ResumeConcludes(x) PROVE Plane'
  <2>1. /\ UNCHANGED <<conn, told, withheld, asked, closed>>
        /\ phase[x] = "joined" /\ phase' = [phase EXCEPT ![x] = "up"]
        /\ owned' = owned \cup {x} /\ resuming' = resuming \ {x} /\ x \in resuming
        /\ Become(Waiting(x), "got") /\ running \subseteq running' /\ running' \subseteq running \cup {x}
    BY <1>25 DEF ResumeConcludes, clients, questions, Behind
  <2>2. \A t \in Session : Registered(t)' <=> Registered(t)
    BY <2>1 DEF Registered, TypeOK
  <2>3. \A t \in Session \ {x} : owed'[t] = owed[t]
    BY <1>25, OwesFacts DEF ResumeConcludes
  <2>4. \A t \in Session, p \in Prompt : call[p].st = "got" /\ call[p].on = t =>
           call'[p].st = "got" /\ call'[p].on = t
    BY <2>1, OthersWait
  <2>5. ASSUME NEW c \in Client, Quiet, Listens(c), Heard(c, x) PROVE Heard(c, x)'
    <3>1. CASE Parent[x] # Nobody
      <4>1. \E p \in Prompt : call'[p].st = "got" /\ call'[p].on = x
        BY <2>1, OthersWait DEF Owings
      <4> QED
        BY <2>1, <3>1, <4>1 DEF Heard, Reaching
    <3>2. CASE Parent[x] = Nobody
      <4>1. Shown(x) /\ Shown(x)' /\ ~Reaching(x)
        BY <2>1, <2>2, <3>2 DEF Shown, UnderParent, Reaching, Registered
      <4>2. CASE Owes(x, "live")
        BY <2>1, <2>5, <4>1, <4>2, OwesHeard DEF Quiet
      <4>3. CASE UNCHANGED <<running, owed>>
        <5>1. SummaryOf(x)' = SummaryOf(x)
          BY <2>1, <2>2, <4>3 DEF SummaryOf
        <5> QED
          BY <2>1, <2>5, <4>1, <4>3, <5>1 DEF Heard
      <4> QED
        BY <1>25, <3>2, <4>2, <4>3 DEF ResumeConcludes, UnderParent
    <3> QED
      BY <3>1, <3>2
  <2> QED
    BY <1>q, <2>1, <2>2, <2>3, <2>4, <2>5, PlaneFrame DEF Listens, Open
<1>26. CASE Agents
  BY <1>17, <1>19, <1>20, <1>21, <1>22, <1>23, <1>24, <1>25, <1>26 DEF Agents
<1>27. CASE Stops
  BY <1>27, <1>m DEF Stops, Moves
<1> QED
  BY <1>3, <1>11, <1>15, <1>26, <1>27 DEF Next

\* Between ticks, what a subscriber was told is the truth.
LEMMA PlaneTells ==
  ASSUME TypeOK, Behind, PlaneInv PROVE SummariesAreCurrent
<1> SUFFICES ASSUME NEW c \in Client, NEW s \in Session, Between(s), Open(c), conn[c].control,
                    ~Reached(s), s \notin withheld
             PROVE  IF Registered(s) /\ ~UnderParent(s) THEN told[c][s] = SummaryOf(s)
                    ELSE told[c][s] \in {Unheard, Closed}
  BY DEF SummariesAreCurrent
<1>1. Heard(c, s) /\ owed[s] = "no"
  BY DEF PlaneInv, Plane, Quiet, Between, Listens
<1>2. ~Reaching(s)
  BY DEF PlaneInv, Owings, Reaching, Reached, InFlight
<1> QED
  BY <1>1, <1>2 DEF Heard, Shown, Unseen

\* It holds at first.
LEMMA InitHolds == HostAssumption /\ Init => IInv
<1> SUFFICES ASSUME HostAssumption, Init PROVE IInv
  OBVIOUS
<1>1. \E known \in SUBSET Session : phase = [s \in Session |-> IF s \in known THEN "stored" ELSE "unborn"]
  BY DEF Init
<1>2. \A s \in Session : phase[s] \in {"stored", "unborn"}
  BY <1>1
<1>3. \A p \in Prompt : call[p].st = "new"
  BY DEF Init, NoCall
<1>4. TypeOK
  BY <1>1 DEF Init, TypeOK, Fresh, Connections, Calls, NoCall, NoStop, Stages
<1>5. QuestionsFindAPerson
  BY DEF Init, QuestionsFindAPerson
<1>6. Races
  <2>1. \A k \in Halt : stop[k].st = "no" /\ stop[k].left = {}
    BY DEF Init, NoStop
  <2>2. Hands /\ ~ShuttingDown /\ ~Answered /\ LeftToSweep = {}
    BY <2>1 DEF Hands, ShuttingDown, Answered, LeftToSweep
  <2> QED
    BY <1>2, <1>3, <2>2 DEF Init, Races, Aimed, Underway, Behind, Waited, Got,
       AcknowledgedIsKept, ShutdownLeavesNothing
<1>7. PlaneInv
  <2>1. \A c \in Client : ~Listens(c)
    BY DEF Init, Fresh, Listens, Open
  <2>2. Plane
    BY <2>1 DEF Plane
  <2>3. told = [c \in Client |-> told[c]] /\ \A c \in Client, s \in Session : told[c][s] = Unheard
    BY DEF Init
  <2>4. Seen
    BY <2>3 DEF Seen, Unseen
  <2>5. Owings
    BY DEF Init, Owings
  <2> QED
    BY <2>2, <2>4, <2>5 DEF PlaneInv
<1> QED
  BY <1>4, <1>5, <1>6, <1>7 DEF IInv

\* Every step keeps it.
LEMMA StepKeeps == HostAssumption /\ IInv /\ [Next]_vars => IInv'
<1> SUFFICES ASSUME HostAssumption, IInv, [Next]_vars PROVE IInv'
  OBVIOUS
<1>1. CASE Next
  <2>1. TypeOK'
    BY <1>1, TypeStep DEF IInv, Races
  <2>2. QuestionsFindAPerson'
    BY <1>1, QuestionStep DEF IInv
  <2>3. Races'
    BY <1>1, RacesStep DEF IInv
  <2>4. PlaneInv'
    BY <1>1, PlaneStep, SeenStep, OwingsStep DEF IInv, Races, PlaneInv
  <2> QED
    BY <2>1, <2>2, <2>3, <2>4 DEF IInv
<1>2. CASE UNCHANGED vars
  <2>1. TypeOK'
    BY <1>2 DEF IInv, TypeOK, Registered, vars, clients, agents, holds, questions
  <2>2. QuestionsFindAPerson'
    BY <1>2 DEF IInv, QuestionsFindAPerson, AnyCouldAnswer, CouldAnswer, MayAnswer, Watches,
       vars, clients, questions
  <2>3. Races'
    BY <1>2, RacesFrame DEF IInv, vars, agents, holds
  <2>4. Plane'
    BY <1>2 DEF IInv, PlaneInv, Plane, Quiet, ShuttingDown, Listens, Open, Heard, Reaching, Shown, UnderParent,
       Registered, SummaryOf, Unseen, vars, clients, agents, holds, questions
  <2>5. Seen'
    BY <1>2 DEF IInv, PlaneInv, Seen, Listens, Open, Untold, Unseen, vars, clients, agents, holds
  <2>6. Owings'
    BY <1>2, OwingsFrame DEF IInv, PlaneInv, Owings, vars, agents, holds, questions
  <2> QED
    BY <2>1, <2>2, <2>3, <2>4, <2>5, <2>6 DEF IInv, PlaneInv
<1> QED
  BY <1>1, <1>2

\* The inductive invariant holds in every reachable state, for any sessions,
\* clients, prompts and shutdowns.
THEOREM Invariance == Spec => []IInv
<1>1. Init => IInv
  BY InitHolds, HostAssumption
<1>2. IInv /\ [Next]_vars => IInv'
  BY StepKeeps, HostAssumption
<1> QED
  BY <1>1, <1>2, PTL DEF Spec

\* Whatever clients attach, narrow, subscribe and leave, a question waits on the
\* host only where a person can still come to it.
THEOREM QuestionsHold == Spec => []QuestionsAreSound
<1>1. IInv => QuestionsAreSound
  BY DEF IInv, QuestionsAreSound
<1> QED
  BY <1>1, Invariance, PTL

\* Whatever acquires, refusals and any number of shutdowns race, an acknowledged
\* prompt that was not early is kept, and an answered shutdown leaves in flight
\* and held nothing, and up only what another has taken and still sweeps: the
\* last to be answered leaves nothing behind.
THEOREM RacesHold == Spec => []RacesLoseNothing
<1>1. IInv => RacesLoseNothing
  BY DEF IInv, Races, RacesLoseNothing
<1> QED
  BY <1>1, Invariance, PTL

\* Between ticks every subscriber's picture is the truth, but for a child a
\* prompt is reaching and one whose closing was withheld as its parent's.
THEOREM SummariesHold == Spec => []SummariesAreCurrent
<1>1. IInv => SummariesAreCurrent
  BY PlaneTells DEF IInv, Races
<1> QED
  BY <1>1, Invariance, PTL

-----------------------------------------------------------------------------
(* Sets of positions, and the sequence of one in order.                      *)

UpTo(S, s) == {t \in S : t <= s}
Place(S, s) == Cardinality(UpTo(S, s))

LEMMA PartsAreFinite ==
  ASSUME NEW S, IsFiniteSet(S), NEW P \in SUBSET S
  PROVE  /\ IsFiniteSet(P) /\ Cardinality(P) \in Nat /\ Cardinality(S) \in Nat
         /\ Cardinality(P) <= Cardinality(S) /\ (Cardinality(P) = Cardinality(S) => P = S)
  BY FS_Subset, FS_CardinalityType

LEMMA PlaceIn ==
  ASSUME NEW S \in SUBSET Nat, IsFiniteSet(S), NEW s \in S
  PROVE  /\ Place(S, s) \in 1..Cardinality(S)
         /\ IsFiniteSet(UpTo(S, s)) /\ UpTo(S, s) \in SUBSET S /\ s \in UpTo(S, s)
<1>1. UpTo(S, s) \in SUBSET S /\ s \in UpTo(S, s)
  BY DEF UpTo
<1>2. /\ IsFiniteSet(UpTo(S, s)) /\ Cardinality(UpTo(S, s)) \in Nat /\ Cardinality(S) \in Nat
      /\ Cardinality(UpTo(S, s)) <= Cardinality(S)
  BY <1>1, PartsAreFinite
<1>3. Cardinality(UpTo(S, s)) # 0
  BY <1>1, <1>2, FS_EmptySet
<1> QED
  BY <1>1, <1>2, <1>3 DEF Place

LEMMA PlacesRise ==
  ASSUME NEW S \in SUBSET Nat, IsFiniteSet(S), NEW s \in S, NEW t \in S, s < t
  PROVE  Place(S, s) < Place(S, t)
<1>1. /\ IsFiniteSet(UpTo(S, t)) /\ t \in UpTo(S, t)
  BY PlaceIn
<1>2. UpTo(S, s) \in SUBSET UpTo(S, t) /\ t \notin UpTo(S, s)
  <2>1. \A x \in S : x <= s => x <= t
    OBVIOUS
  <2>2. ~(t <= s)
    OBVIOUS
  <2> QED
    BY <2>1, <2>2 DEF UpTo
<1>3. /\ Cardinality(UpTo(S, s)) \in Nat /\ Cardinality(UpTo(S, t)) \in Nat
      /\ Cardinality(UpTo(S, s)) <= Cardinality(UpTo(S, t))
      /\ Cardinality(UpTo(S, s)) # Cardinality(UpTo(S, t))
  BY <1>1, <1>2, PartsAreFinite
<1> QED
  BY <1>3 DEF Place

LEMMA PlacesDiffer ==
  ASSUME NEW S \in SUBSET Nat, IsFiniteSet(S), NEW s \in S, NEW t \in S, Place(S, s) = Place(S, t)
  PROVE  s = t
<1>1. s < t \/ t < s \/ s = t
  OBVIOUS
<1>2. Place(S, s) \in Nat /\ Place(S, t) \in Nat
  BY PlaceIn
<1> QED
  BY <1>1, <1>2, PlacesRise

LEMMA PlacesCover ==
  ASSUME NEW S \in SUBSET Nat, IsFiniteSet(S), NEW m \in 1..Cardinality(S)
  PROVE  \E s \in S : Place(S, s) = m
<1> DEFINE size == Cardinality(S)
           f == [s \in S |-> Place(S, s)]
<1>1. size \in Nat
  BY FS_CardinalityType
<1>2. \A s \in S : f[s] \in 1..size /\ f[s] = Place(S, s)
  BY PlaceIn
<1>3. f \in [S -> 1..size]
  BY <1>2
<1>4. ASSUME NEW s \in S, NEW t \in S, f[s] = f[t] PROVE s = t
  <2>1. Place(S, s) = Place(S, t)
    BY <1>2, <1>4
  <2> QED
    BY <2>1, PlacesDiffer
<1>5. DOMAIN f = S
  OBVIOUS
<1>6. IsFiniteSet(1..size) /\ Cardinality(1..size) = size
  BY <1>1, FS_Interval
<1> HIDE DEF f, size
<1>7. f \in Injection(S, 1..size)
  BY <1>3, <1>4, <1>5 DEF Injection, IsInjective
<1>8. f \in Surjection(S, 1..size)
  BY <1>6, <1>7, FS_Injection DEF size
<1>9. PICK s \in S : f[s] = m
  BY <1>8 DEF Surjection, size
<1> QED
  BY <1>2, <1>9

(* The k-th of a set in order is the one whose place is k.                   *)
LEMMA OrderIs ==
  ASSUME NEW S \in SUBSET Nat, IsFiniteSet(S)
  PROVE  /\ InOrder(S) \in Seq(S) /\ InOrder(S) \in Seq(Nat)
         /\ Len(InOrder(S)) = Cardinality(S) /\ Cardinality(S) \in Nat
         /\ \A i \in 1..Cardinality(S) : InOrder(S)[i] \in S /\ Place(S, InOrder(S)[i]) = i
<1> DEFINE size == Cardinality(S)
           at(i) == CHOOSE s \in S : Cardinality({t \in S : t <= s}) = i
           q == [i \in 1..size |-> at(i)]
<1>1. size \in Nat
  BY FS_CardinalityType
<1>2. \A s : Place(S, s) = Cardinality({t \in S : t <= s})
  BY DEF Place, UpTo
<1>3. ASSUME NEW i \in 1..size PROVE at(i) \in S /\ Place(S, at(i)) = i
  <2>1. \E s \in S : Cardinality({t \in S : t <= s}) = i
    BY <1>2, PlacesCover
  <2> QED
    BY <2>1, <1>2
<1>4. InOrder(S) = q
  BY DEF InOrder
<1> HIDE DEF at, size
<1>5. q \in [1..size -> S] /\ \A i \in 1..size : q[i] = at(i)
  BY <1>3
<1>6. q \in Seq(S) /\ Len(q) = size
  BY <1>1, <1>5, SeqDef
<1>7. q \in Seq(Nat)
  <2>1. q \in [1..size -> Nat]
    BY <1>5
  <2> HIDE DEF q
  <2> QED
    BY <1>1, <2>1, SeqDef
<1> QED
  BY <1>1, <1>3, <1>4, <1>5, <1>6, <1>7 DEF size

LEMMA OrderIsUnique ==
  ASSUME NEW S \in SUBSET Nat, IsFiniteSet(S), NEW q \in Seq(S), Len(q) = Cardinality(S),
         \A i \in 1..Cardinality(S) : Place(S, q[i]) = i
  PROVE  q = InOrder(S)
<1> DEFINE size == Cardinality(S)
           p == InOrder(S)
<1>1. p \in Seq(S) /\ Len(p) = size /\ size \in Nat /\ \A i \in 1..size : p[i] \in S /\ Place(S, p[i]) = i
  BY OrderIs
<1>2. \A i \in 1..size : q[i] \in S
  BY <1>1
<1>3. \A i \in 1..size : q[i] = p[i]
  <2> SUFFICES ASSUME NEW i \in 1..size PROVE q[i] = p[i]
    OBVIOUS
  <2>1. Place(S, q[i]) = i /\ Place(S, p[i]) = i /\ q[i] \in S /\ p[i] \in S
    BY <1>1, <1>2
  <2> DEFINE x == q[i]
             y == p[i]
  <2>2. x \in S /\ y \in S /\ Place(S, x) = Place(S, y)
    BY <2>1
  <2> HIDE DEF x, y
  <2>3. x = y
    BY <2>2, PlacesDiffer
  <2> QED
    BY <2>3 DEF x, y
<1> HIDE DEF p, size
<1>4. q = p
  BY <1>1, <1>3, SeqEqual DEF size
<1> QED
  BY <1>4 DEF p

Elements(s) == {s[i] : i \in DOMAIN s}

LEMMA OrderHolds ==
  ASSUME NEW S \in SUBSET Nat, IsFiniteSet(S)
  PROVE  Elements(InOrder(S)) = S
<1> DEFINE p == InOrder(S)
           size == Cardinality(S)
<1>1. p \in Seq(S) /\ Len(p) = size /\ size \in Nat /\ \A i \in 1..size : p[i] \in S /\ Place(S, p[i]) = i
  BY OrderIs
<1>2. DOMAIN p = 1..size
  BY <1>1
<1>3. \A s \in S : Place(S, s) \in 1..size
  BY PlaceIn
<1>4. ASSUME NEW s \in S PROVE \E i \in 1..size : p[i] = s
  <2> HIDE DEF p, size
  <2>1. p[Place(S, s)] \in S /\ Place(S, p[Place(S, s)]) = Place(S, s)
    BY <1>1, <1>3
  <2> DEFINE t == p[Place(S, s)]
  <2>2. t \in S /\ Place(S, t) = Place(S, s)
    BY <2>1
  <2> HIDE DEF t
  <2>3. t = s
    BY <2>2, PlacesDiffer
  <2> QED
    BY <2>3, <1>3 DEF t
<1> HIDE DEF p, size
<1>5. Elements(p) = S
  BY <1>1, <1>2, <1>4 DEF Elements
<1> QED
  BY <1>5 DEF p

(* The last of a set in order is above all of it.                            *)
LEMMA OrderEnds ==
  ASSUME NEW S \in SUBSET Nat, IsFiniteSet(S)
  PROVE  /\ InOrder(S) = <<>> <=> S = {}
         /\ S # {} => LET m == InOrder(S)[Len(InOrder(S))] IN m \in S /\ \A s \in S : s <= m
<1> DEFINE p == InOrder(S)
           size == Cardinality(S)
<1>1. p \in Seq(S) /\ Len(p) = size /\ size \in Nat /\ \A i \in 1..size : p[i] \in S /\ Place(S, p[i]) = i
  BY OrderIs
<1>2. size = 0 <=> S = {}
  BY FS_EmptySet
<1>3. p = <<>> <=> size = 0
  BY <1>1
<1>4. ASSUME S # {} PROVE p[size] \in S /\ \A s \in S : s <= p[size]
  <2>0. size # 0
    BY <1>2, <1>4
  <2>1. size \in 1..size
    BY <1>1, <2>0
  <2>2. p[size] \in S /\ Place(S, p[size]) = size
    BY <1>1, <2>1
  <2> HIDE DEF p
  <2>3. UpTo(S, p[size]) = S
    BY <2>2, PlaceIn, PartsAreFinite DEF Place
  <2> QED
    BY <2>2, <2>3 DEF UpTo
<1> QED
  BY <1>1, <1>2, <1>3, <1>4

(* A set below another: in order, the one and then the other.                *)
LEMMA OrderJoins ==
  ASSUME NEW A \in SUBSET Nat, IsFiniteSet(A), NEW B \in SUBSET Nat, IsFiniteSet(B),
         \A a \in A, b \in B : a < b
  PROVE  IsFiniteSet(A \cup B) /\ InOrder(A \cup B) = InOrder(A) \o InOrder(B)
<1> DEFINE S == A \cup B
           m == Cardinality(A)
           n == Cardinality(B)
           p == InOrder(A)
           r == InOrder(B)
           q == p \o r
<1>1. m \in Nat /\ n \in Nat
  BY FS_CardinalityType
<1>2. A \cap B = {}
  OBVIOUS
<1>3. IsFiniteSet(S) /\ Cardinality(S) = m + n
  <2>1. IsFiniteSet(S) /\ Cardinality(S) = m + n - Cardinality(A \cap B)
    BY FS_Union
  <2>2. Cardinality(A \cap B) = 0
    BY <1>2, FS_EmptySet
  <2> HIDE DEF m, n, S
  <2> QED
    BY <1>1, <2>1, <2>2
<1>4. ASSUME NEW a \in A PROVE Place(S, a) = Place(A, a)
  <2>1. UpTo(S, a) = UpTo(A, a)
    <3>1. \A b \in B : ~(b <= a)
      OBVIOUS
    <3> QED
      BY <3>1 DEF UpTo
  <2> QED
    BY <2>1 DEF Place
<1>5. ASSUME NEW b \in B PROVE Place(S, b) = m + Place(B, b)
  <2>1. UpTo(S, b) = A \cup UpTo(B, b)
    <3>1. \A a \in A : a <= b
      OBVIOUS
    <3> QED
      BY <3>1 DEF UpTo
  <2>2. IsFiniteSet(UpTo(B, b)) /\ UpTo(B, b) \in SUBSET B
    BY PlaceIn
  <2>3. A \cap UpTo(B, b) = {}
    BY <1>2, <2>2
  <2>4. Cardinality(A \cup UpTo(B, b)) = m + Cardinality(UpTo(B, b)) - Cardinality({})
    BY <2>2, <2>3, FS_Union
  <2>5. Cardinality(UpTo(B, b)) \in Nat /\ Place(S, b) = Cardinality(A \cup UpTo(B, b)) /\ Place(B, b) = Cardinality(UpTo(B, b))
    BY <2>1, <2>2, FS_CardinalityType DEF Place
  <2>6. Cardinality({}) = 0
    BY FS_EmptySet
  <2> HIDE DEF m
  <2> QED
    BY <1>1, <2>4, <2>5, <2>6
<1>6. p \in Seq(A) /\ Len(p) = m /\ \A i \in 1..m : p[i] \in A /\ Place(A, p[i]) = i
  BY OrderIs
<1>7. r \in Seq(B) /\ Len(r) = n /\ \A i \in 1..n : r[i] \in B /\ Place(B, r[i]) = i
  BY OrderIs
<1>8. p \in Seq(S) /\ r \in Seq(S)
  BY <1>6, <1>7
<1> HIDE DEF p, r, m, n, S
<1>9. q \in Seq(S) /\ Len(q) = m + n /\ \A i \in 1..(m + n) : q[i] = IF i <= m THEN p[i] ELSE r[i - m]
  BY <1>1, <1>6, <1>7, <1>8, ConcatProperties
<1>10. \A i \in 1..(m + n) : Place(S, q[i]) = i
  <2> SUFFICES ASSUME NEW i \in 1..(m + n) PROVE Place(S, q[i]) = i
    OBVIOUS
  <2>1. CASE i <= m
    <3>1. i \in 1..m /\ q[i] = p[i]
      BY <2>1, <1>1, <1>9
    <3> QED
      BY <3>1, <1>4, <1>6
  <2>2. CASE ~(i <= m)
    <3>1. i - m \in 1..n /\ q[i] = r[i - m] /\ m + (i - m) = i
      BY <2>2, <1>1, <1>9
    <3> QED
      BY <3>1, <1>5, <1>7
  <2> QED
    BY <2>1, <2>2
<1>11. S \in SUBSET Nat
  BY DEF S
<1> HIDE DEF q
<1>12. q = InOrder(S)
  BY <1>3, <1>9, <1>10, <1>11, OrderIsUnique
<1> QED
  BY <1>3, <1>12 DEF S, q, p, r

LEMMA OrderOfOne ==
  ASSUME NEW s \in Nat
  PROVE  IsFiniteSet({s}) /\ InOrder({s}) = <<s>>
<1>1. IsFiniteSet({s}) /\ Cardinality({s}) = 1
  BY FS_Singleton
<1>2. UpTo({s}, s) = {s}
  BY DEF UpTo
<1>3. <<s>> \in Seq({s}) /\ Len(<<s>>) = 1 /\ <<s>>[1] = s
  OBVIOUS
<1>4. \A i \in 1..1 : Place({s}, <<s>>[i]) = i
  BY <1>1, <1>2, <1>3 DEF Place
<1>5. {s} \in SUBSET Nat
  OBVIOUS
<1> QED
  BY <1>1, <1>3, <1>4, <1>5, OrderIsUnique

LEMMA OrderGrows ==
  ASSUME NEW S \in SUBSET Nat, IsFiniteSet(S), NEW s \in Nat, \A t \in S : t < s
  PROVE  InOrder(S \cup {s}) = Append(InOrder(S), s)
<1>1. InOrder(S \cup {s}) = InOrder(S) \o <<s>>
  BY OrderJoins, OrderOfOne
<1>2. InOrder(S) \in Seq(Nat)
  BY OrderIs
<1> QED
  BY <1>1, <1>2, AppendIsConcat

(* The newest of a set, from the first of them on.                           *)
LEMMA LeastOf ==
  ASSUME NEW S \in SUBSET Nat, IsFiniteSet(S), S # {}, NEW d
  PROVE  /\ Least(S, d) \in S /\ \A t \in S : Least(S, d) <= t
         /\ Last2(S, d) \in S /\ \A t \in S : Last2(S, d) >= t
<1>1. Cardinality(S) \in Nat /\ Cardinality(S) # 0
  BY FS_CardinalityType, FS_EmptySet
<1>2. 1 \in 1..Cardinality(S)
  BY <1>1
<1>3. PICK s \in S : Place(S, s) = 1
  BY <1>2, PlacesCover
<1>4. \A t \in S : s <= t
  <2> SUFFICES ASSUME NEW t \in S, t < s PROVE FALSE
    OBVIOUS
  <2>1. Place(S, t) < 1 /\ Place(S, t) \in 1..Cardinality(S)
    BY <1>3, PlacesRise, PlaceIn
  <2> QED
    BY <2>1, <1>1
<1>5. \E m \in S : \A t \in S : m >= t
  <2>1. LET m == InOrder(S)[Len(InOrder(S))] IN m \in S /\ \A t \in S : t <= m
    BY OrderEnds
  <2> QED
    BY <2>1
<1> QED
  BY <1>3, <1>4, <1>5 DEF Least, Last2

-----------------------------------------------------------------------------
(* The facts of a stretch of a log, and what the host takes from them.       *)

Tier == {"fact", "trace"}
Facts(l) == {s \in 1..Len(l) : l[s] = "fact"}
Stretch(l, low, high) == {s \in Facts(l) : low <= s /\ s <= high}
Agree(l, m, d) == d <= Len(l) /\ d <= Len(m) /\ \A s \in 1..d : l[s] = m[s]

LEMMA StretchFacts ==
  ASSUME NEW l \in Seq(Tier), NEW low \in Nat, NEW high \in Nat
  PROVE  /\ Stretch(l, low, high) \in SUBSET Nat /\ IsFiniteSet(Stretch(l, low, high))
         /\ \A s \in Stretch(l, low, high) : s \in 1..Len(l) /\ l[s] = "fact" /\ low <= s /\ s <= high
         /\ \A s \in 1..Len(l) : l[s] = "fact" /\ low <= s /\ s <= high => s \in Stretch(l, low, high)
<1>1. Len(l) \in Nat
  OBVIOUS
<1>2. Stretch(l, low, high) \in SUBSET (1..Len(l))
  BY DEF Stretch, Facts
<1>3. IsFiniteSet(1..Len(l))
  BY <1>1, FS_Interval
<1>4. IsFiniteSet(Stretch(l, low, high))
  BY <1>2, <1>3, FS_Subset
<1> QED
  BY <1>1, <1>2, <1>4 DEF Stretch, Facts

LEMMA StretchAgrees ==
  ASSUME NEW l \in Seq(Tier), NEW m \in Seq(Tier), NEW d \in Nat, Agree(l, m, d),
         NEW low \in Nat, NEW high \in Nat, high <= d
  PROVE  Stretch(m, low, high) = Stretch(l, low, high)
<1>1. \A s : s \in 1..Len(l) /\ s <= high => s \in 1..d /\ s \in 1..Len(m)
  BY DEF Agree
<1>2. \A s : s \in 1..Len(m) /\ s <= high => s \in 1..d /\ s \in 1..Len(l)
  BY DEF Agree
<1> QED
  BY <1>1, <1>2 DEF Stretch, Facts, Agree

LEMMA StretchJoins ==
  ASSUME NEW l \in Seq(Tier), NEW low \in Nat, NEW mid \in Nat, NEW high \in Nat,
         low <= mid + 1, mid <= high
  PROVE  InOrder(Stretch(l, low, high)) = InOrder(Stretch(l, low, mid)) \o InOrder(Stretch(l, mid + 1, high))
<1> DEFINE A == Stretch(l, low, mid)
           B == Stretch(l, mid + 1, high)
<1>1. A \in SUBSET Nat /\ IsFiniteSet(A) /\ B \in SUBSET Nat /\ IsFiniteSet(B)
  BY StretchFacts
<1>2. Stretch(l, low, high) = A \cup B
  <2>1. \A s \in 1..Len(l) : low <= s /\ s <= high <=> (low <= s /\ s <= mid) \/ (mid + 1 <= s /\ s <= high)
    OBVIOUS
  <2> QED
    BY <2>1 DEF Stretch, Facts
<1>3. \A a \in A, b \in B : a < b
  <2> SUFFICES ASSUME NEW a \in A, NEW b \in B PROVE a < b
    OBVIOUS
  <2>1. a \in Nat /\ b \in Nat /\ a <= mid /\ mid + 1 <= b
    BY <1>1 DEF Stretch
  <2> QED
    BY <2>1
<1> HIDE DEF A, B
<1>4. InOrder(A \cup B) = InOrder(A) \o InOrder(B)
  BY <1>1, <1>3, OrderJoins
<1> QED
  BY <1>2, <1>4 DEF A, B

(* One more fact, with none between.                                         *)
LEMMA StretchGrows ==
  ASSUME NEW l \in Seq(Tier), NEW low \in Nat, NEW mid \in Nat, NEW s \in 1..Len(l),
         low <= mid + 1, mid < s, l[s] = "fact", Stretch(l, mid + 1, s - 1) = {}
  PROVE  InOrder(Stretch(l, low, s)) = Append(InOrder(Stretch(l, low, mid)), s)
<1> DEFINE A == Stretch(l, low, mid)
<1>1. A \in SUBSET Nat /\ IsFiniteSet(A)
  BY StretchFacts
<1>2. s \in Nat /\ s - 1 \in Nat
  OBVIOUS
<1>3. \A t \in 1..Len(l) : l[t] = "fact" => ~(mid + 1 <= t /\ t <= s - 1)
  BY <1>2, StretchFacts
<1>4. Stretch(l, low, s) = A \cup {s}
  <2>1. \A t \in 1..Len(l) : l[t] = "fact" => (low <= t /\ t <= s <=> (low <= t /\ t <= mid) \/ t = s)
    BY <1>2, <1>3
  <2> QED
    BY <2>1 DEF Stretch, Facts
<1>5. \A t \in A : t < s
  BY <1>1, <1>2 DEF Stretch
<1> HIDE DEF A
<1>6. InOrder(A \cup {s}) = Append(InOrder(A), s)
  BY <1>1, <1>2, <1>5, OrderGrows
<1> QED
  BY <1>4, <1>6 DEF A

(* No fact more.                                                             *)
LEMMA StretchStays ==
  ASSUME NEW l \in Seq(Tier), NEW low \in Nat, NEW mid \in Nat, NEW high \in Nat,
         low <= mid + 1, mid <= high, \A s \in Facts(l) : s <= high => s <= mid
  PROVE  Stretch(l, low, high) = Stretch(l, low, mid)
<1>1. \A s \in 1..Len(l) : l[s] = "fact" => (s <= high <=> s <= mid)
  BY DEF Facts
<1> QED
  BY <1>1 DEF Stretch, Facts

(* A page of a stretch: its newest facts, from the first of them on.         *)
LEMMA NewestFrom ==
  ASSUME NEW S \in SUBSET (Nat \ {0}), IsFiniteSet(S), NEW k \in Nat \ {0}
  PROVE  LET taken == Newest(S, k)
             from == IF Cardinality(S) < k THEN 1 ELSE Least(taken, 1)
         IN /\ from \in Nat \ {0} /\ taken = {s \in S : from <= s}
            /\ from = 1 \/ from \in S
<1> DEFINE taken == Newest(S, k)
           from == IF Cardinality(S) < k THEN 1 ELSE Least(taken, 1)
           above(s) == {t \in S : t >= s}
<1>0. S \in SUBSET Nat
  OBVIOUS
<1>1. \A s \in S : /\ above(s) \in SUBSET S /\ IsFiniteSet(above(s)) /\ Cardinality(above(s)) \in Nat
                   /\ Cardinality(above(s)) <= Cardinality(S) /\ Cardinality(S) \in Nat
  <2> SUFFICES ASSUME NEW s \in S
               PROVE  /\ above(s) \in SUBSET S /\ IsFiniteSet(above(s)) /\ Cardinality(above(s)) \in Nat
                      /\ Cardinality(above(s)) <= Cardinality(S) /\ Cardinality(S) \in Nat
    OBVIOUS
  <2>1. above(s) \in SUBSET S
    OBVIOUS
  <2> QED
    BY <2>1, PartsAreFinite
<1>2. taken = {s \in S : Cardinality(above(s)) <= k}
  BY DEF Newest
<1>3. Cardinality(S) \in Nat
  BY FS_CardinalityType
<1>4. CASE Cardinality(S) < k
  <2> HIDE DEF above
  <2>0. \A s \in S : Cardinality(above(s)) <= k
    BY <1>1, <1>4
  <2> HIDE DEF taken
  <2>1. taken = S
    BY <1>2, <2>0
  <2>2. from = 1
    BY <1>4
  <2> HIDE DEF from
  <2>3. \A s \in S : from <= s
    BY <1>0, <2>2
  <2>5. taken = {s \in S : from <= s}
    BY <2>1, <2>3
  <2>6. from \in Nat \ {0}
    BY <2>2
  <2>4. from \in Nat \ {0} /\ taken = {s \in S : from <= s} /\ (from = 1 \/ from \in S)
    BY <2>2, <2>5, <2>6
  <2> QED
    BY <2>4 DEF taken, from
<1>5. CASE ~(Cardinality(S) < k)
  <2>1. Cardinality(S) # 0
    BY <1>3, <1>5
  <2>2. S # {}
    BY <2>1, FS_EmptySet
  <2>3. Last2(S, 0) \in S /\ \A t \in S : Last2(S, 0) >= t
    BY <1>0, <2>2, LeastOf
  <2>4. above(Last2(S, 0)) = {Last2(S, 0)}
    <3> DEFINE e == Last2(S, 0)
    <3>0. e \in Nat /\ \A t \in S : t \in Nat /\ e >= t
      BY <1>0, <2>3
    <3> HIDE DEF e
    <3>1. \A t \in S : t >= e => t = e
      BY <3>0
    <3>2. \A t \in S : t >= Last2(S, 0) => t = Last2(S, 0)
      BY <3>1 DEF e
    <3> QED
      BY <1>0, <2>3, <3>2
  <2>5. Cardinality(above(Last2(S, 0))) = 1
    BY <2>4, FS_Singleton
  <2> HIDE DEF above
  <2>6. Last2(S, 0) \in taken
    BY <1>2, <2>3, <2>5
  <2>7. taken \in SUBSET Nat /\ taken # {} /\ IsFiniteSet(taken) /\ taken \in SUBSET S
    BY <1>0, <1>2, <2>6, FS_Subset
  <2> HIDE DEF taken
  <2>8. Least(taken, 1) \in taken /\ \A t \in taken : Least(taken, 1) <= t
    BY <2>7, LeastOf
  <2>9. from = Least(taken, 1)
    BY <1>5
  <2> HIDE DEF from
  <2>10. ASSUME NEW s \in S, from <= s PROVE s \in taken
    <3>1. from \in S /\ Cardinality(above(from)) <= k
      BY <1>2, <2>7, <2>8, <2>9
    <3>2. above(s) \in SUBSET above(from)
      <4>1. \A t \in S : t >= s => t >= from
        BY <2>10, <3>1
      <4> QED
        BY <4>1 DEF above
    <3>3. Cardinality(above(s)) <= Cardinality(above(from))
      BY <1>1, <3>1, <3>2, PartsAreFinite
    <3>4. Cardinality(above(s)) \in Nat /\ Cardinality(above(from)) \in Nat
      BY <1>1, <3>1
    <3> QED
      BY <1>2, <3>1, <3>3, <3>4
  <2>11. taken = {s \in S : from <= s}
    BY <2>7, <2>8, <2>9, <2>10
  <2>12. from \in S /\ from \in Nat \ {0}
    BY <2>7, <2>8, <2>9
  <2>13. from \in Nat \ {0} /\ taken = {s \in S : from <= s} /\ (from = 1 \/ from \in S)
    BY <2>11, <2>12
  <2> QED
    BY <2>13 DEF taken, from
<1> QED
  BY <1>4, <1>5

(* An answer of a repair: the first facts of a stretch, up to the last one.  *)
Answering(l, low, high, k) == InOrder(Oldest(Stretch(l, low, high), k))
LastOf(q) == q[Len(q)]

LEMMA OldestTo ==
  ASSUME NEW l \in Seq(Tier), NEW low \in Nat, NEW high \in Nat, NEW k \in Nat \ {0}
  PROVE  /\ Answering(l, low, high, k) \in Seq(Nat)
         /\ \A s \in Elements(Answering(l, low, high, k)) :
              s \in Nat /\ low <= s /\ s <= high /\ s \in 1..Len(l) /\ l[s] = "fact"
         /\ Answering(l, low, high, k) = <<>> => Stretch(l, low, high) = {}
         /\ Answering(l, low, high, k) # <<>> =>
              /\ LastOf(Answering(l, low, high, k)) \in Elements(Answering(l, low, high, k))
              /\ Answering(l, low, high, k) = InOrder(Stretch(l, low, LastOf(Answering(l, low, high, k))))
              /\ Elements(Answering(l, low, high, k)) = Stretch(l, low, LastOf(Answering(l, low, high, k)))
<1> DEFINE A == Stretch(l, low, high)
           K == Oldest(A, k)
           rows == InOrder(K)
           m == rows[Len(rows)]
<1>1. A \in SUBSET Nat /\ IsFiniteSet(A)
  BY StretchFacts
<1>2. \A s : s \in A <=> s \in 1..Len(l) /\ l[s] = "fact" /\ low <= s /\ s <= high
  BY DEF Stretch, Facts
<1> HIDE DEF A
<1>3. K = {s \in A : Place(A, s) <= k}
  BY DEF Oldest, Place, UpTo
<1>4. K \in SUBSET A /\ IsFiniteSet(K) /\ K \in SUBSET Nat
  BY <1>1, <1>3, FS_Subset
<1>5. ASSUME K = {} PROVE A = {}
  <2> SUFFICES ASSUME A # {} PROVE FALSE
    OBVIOUS
  <2>1. Cardinality(A) \in Nat /\ Cardinality(A) # 0
    BY <1>1, FS_CardinalityType, FS_EmptySet
  <2>2. 1 \in 1..Cardinality(A)
    BY <2>1
  <2>3. PICK s \in A : Place(A, s) = 1
    BY <1>1, <2>2, PlacesCover
  <2> QED
    BY <1>3, <1>5, <2>3
<1>6. ASSUME NEW s \in A, NEW t \in K, s <= t PROVE s \in K
  <2>1. t \in A /\ Place(A, t) <= k
    BY <1>3
  <2>2. s < t \/ s = t
    BY <1>1, <1>6, <2>1
  <2>3. Place(A, s) \in 1..Cardinality(A) /\ Place(A, t) \in 1..Cardinality(A) /\ Cardinality(A) \in Nat
    BY <1>1, <2>1, PlaceIn, FS_CardinalityType
  <2>4. s < t => Place(A, s) < Place(A, t)
    BY <1>1, <2>1, PlacesRise
  <2>5. Place(A, s) <= k
    BY <2>1, <2>2, <2>3, <2>4
  <2> QED
    BY <1>3, <2>5
<1> HIDE DEF K
<1>7. rows \in Seq(Nat) /\ Elements(rows) = K /\ (rows = <<>> <=> K = {})
  BY <1>4, OrderIs, OrderHolds, OrderEnds
<1>8. K # {} => m \in K /\ \A s \in K : s <= m
  BY <1>4, OrderEnds
<1> HIDE DEF m, rows
<1>9. ASSUME K # {} PROVE K = Stretch(l, low, m)
  <2>1. m \in K /\ m \in A /\ m \in Nat /\ m <= high /\ \A s \in K : s <= m
    BY <1>2, <1>4, <1>8, <1>9
  <2>2. \A s : s \in Stretch(l, low, m) <=> s \in 1..Len(l) /\ l[s] = "fact" /\ low <= s /\ s <= m
    BY DEF Stretch, Facts
  <2>3. \A s \in K : s \in Stretch(l, low, m)
    BY <1>2, <1>4, <2>1, <2>2
  <2>4. \A s \in Stretch(l, low, m) : s \in A
    BY <1>2, <2>1, <2>2
  <2>5. \A s \in Stretch(l, low, m) : s \in K
    BY <1>6, <2>1, <2>2, <2>4
  <2> QED
    BY <2>3, <2>5
<1>10. \A s \in K : low <= s /\ s <= high /\ s \in 1..Len(l) /\ l[s] = "fact"
  BY <1>2, <1>4
<1>11. rows = <<>> => A = {}
  BY <1>5, <1>7
<1>12. rows # <<>> => m \in K /\ K = Stretch(l, low, m)
  BY <1>7, <1>8, <1>9
<1>13. rows = Answering(l, low, high, k) /\ m = LastOf(rows)
  BY DEF rows, m, K, A, Answering, LastOf
<1>14. rows # <<>> => rows = InOrder(Stretch(l, low, m))
  BY <1>12 DEF rows
<1>15. /\ rows \in Seq(Nat)
       /\ \A s \in Elements(rows) : s \in Nat /\ low <= s /\ s <= high /\ s \in 1..Len(l) /\ l[s] = "fact"
       /\ rows = <<>> => Stretch(l, low, high) = {}
       /\ rows # <<>> => m \in Elements(rows) /\ rows = InOrder(Stretch(l, low, m))
            /\ Elements(rows) = Stretch(l, low, m)
  BY <1>4, <1>7, <1>10, <1>11, <1>12, <1>14 DEF A
<1> HIDE DEF m
<1> QED
  BY <1>13, <1>15, Zenon

-----------------------------------------------------------------------------
(* What is on its way: a request among the calls, its answer due, or its     *)
(* answer on the wire.                                                       *)

Has(s, T) == \E i \in DOMAIN s : s[i].tag \in T
Lone(s, T) == \A i, j \in DOMAIN s : s[i].tag \in T /\ s[j].tag \in T => i = j

OnItsWay(T, c, d, w) == Has(c, T) \/ Has(d, T) \/ Has(w, T)
AtMostOne(T, c, d, w) ==
  /\ Lone(c, T) /\ Lone(d, T) /\ Lone(w, T)
  /\ ~(Has(c, T) /\ Has(d, T)) /\ ~(Has(c, T) /\ Has(w, T)) /\ ~(Has(d, T) /\ Has(w, T))

LEMMA AppendPlaces ==
  ASSUME NEW S, NEW s \in Seq(S), NEW x \in S
  PROVE  /\ Append(s, x) \in Seq(S) /\ Len(s) \in Nat /\ Len(Append(s, x)) = Len(s) + 1
         /\ DOMAIN s = 1..Len(s) /\ DOMAIN Append(s, x) = 1..(Len(s) + 1)
         /\ \A i \in 1..Len(s) : Append(s, x)[i] = s[i]
         /\ Append(s, x)[Len(s) + 1] = x
         /\ \A i : i \in 1..(Len(s) + 1) <=> i \in 1..Len(s) \/ i = Len(s) + 1
<1>1. Len(s) \in Nat
  OBVIOUS
<1>2. \A i : i \in 1..(Len(s) + 1) <=> i \in 1..Len(s) \/ i = Len(s) + 1
  BY <1>1
<1> QED
  BY <1>1, <1>2, AppendProperties

LEMMA TailPlaces ==
  ASSUME NEW S, NEW s \in Seq(S), s # <<>>
  PROVE  /\ Tail(s) \in Seq(S) /\ Head(s) \in S /\ Head(s) = s[1]
         /\ Len(s) \in Nat \ {0} /\ Len(Tail(s)) = Len(s) - 1
         /\ DOMAIN s = 1..Len(s) /\ DOMAIN Tail(s) = 1..(Len(s) - 1)
         /\ \A i \in 1..(Len(s) - 1) : Tail(s)[i] = s[i + 1] /\ i + 1 \in 1..Len(s)
         /\ \A i : i \in 1..Len(s) <=> i = 1 \/ (i \in 2..Len(s))
         /\ \A i \in 2..Len(s) : i - 1 \in 1..(Len(s) - 1) /\ Tail(s)[i - 1] = s[i]
<1>1. Len(s) \in Nat \ {0}
  BY EmptySeq
<1>2. /\ Tail(s) \in Seq(S) /\ Head(s) \in S /\ Head(s) = s[1] /\ Len(Tail(s)) = Len(s) - 1
      /\ \A i \in 1..(Len(s) - 1) : Tail(s)[i] = s[i + 1]
  BY <1>1, HeadTailProperties
<1>3. \A i \in 2..Len(s) : i - 1 \in 1..(Len(s) - 1) /\ (i - 1) + 1 = i
  BY <1>1
<1>4. DOMAIN s = 1..Len(s) /\ DOMAIN Tail(s) = 1..(Len(s) - 1)
  BY <1>1, <1>2
<1>5. \A i : i \in 1..Len(s) <=> i = 1 \/ (i \in 2..Len(s))
  BY <1>1
<1>6. \A i \in 1..(Len(s) - 1) : i + 1 \in 1..Len(s)
  BY <1>1
<1>7. \A i \in 2..Len(s) : i - 1 \in 1..(Len(s) - 1) /\ Tail(s)[i - 1] = s[i]
  BY <1>2, <1>3
<1> QED
  BY <1>1, <1>2, <1>4, <1>5, <1>6, <1>7

LEMMA AppendElements ==
  ASSUME NEW S, NEW s \in Seq(S), NEW x \in S
  PROVE  Elements(Append(s, x)) = Elements(s) \cup {x}
<1> DEFINE t == Append(s, x)
           n == Len(s)
<1>1. /\ DOMAIN s = 1..n /\ DOMAIN t = 1..(n + 1) /\ (\A i \in 1..n : t[i] = s[i]) /\ t[n + 1] = x
      /\ \A i : i \in 1..(n + 1) <=> i \in 1..n \/ i = n + 1
  BY AppendPlaces
<1> HIDE DEF t, n
<1>2. Elements(t) = Elements(s) \cup {x}
  BY <1>1 DEF Elements
<1> QED
  BY <1>2 DEF t

LEMMA TailElements ==
  ASSUME NEW S, NEW s \in Seq(S), s # <<>>
  PROVE  Elements(s) = Elements(Tail(s)) \cup {Head(s)}
<1> DEFINE t == Tail(s)
           n == Len(s)
<1>1. /\ DOMAIN s = 1..n /\ DOMAIN t = 1..(n - 1) /\ Head(s) = s[1]
      /\ \A i \in 1..(n - 1) : t[i] = s[i + 1] /\ i + 1 \in 1..n
      /\ \A i : i \in 1..n <=> i = 1 \/ (i \in 2..n)
      /\ \A i \in 2..n : i - 1 \in 1..(n - 1) /\ t[i - 1] = s[i]
  BY TailPlaces
<1> HIDE DEF t, n
<1>2. Elements(t) \cup {s[1]} = Elements(s)
  BY <1>1 DEF Elements
<1> QED
  BY <1>1, <1>2 DEF t

LEMMA EmptyHas ==
  ASSUME NEW T
  PROVE  ~Has(<<>>, T) /\ Lone(<<>>, T) /\ Elements(<<>>) = {} /\ Len(<<>>) = 0
  BY DEF Has, Lone, Elements

LEMMA HasElements ==
  ASSUME NEW s, NEW T
  PROVE  Has(s, T) <=> \E x \in Elements(s) : x.tag \in T
  BY DEF Has, Elements

LEMMA AppendHas ==
  ASSUME NEW S, NEW s \in Seq(S), NEW x \in S, NEW T
  PROVE  /\ Has(Append(s, x), T) <=> Has(s, T) \/ x.tag \in T
         /\ Lone(s, T) /\ (x.tag \in T => ~Has(s, T)) => Lone(Append(s, x), T)
<1> DEFINE t == Append(s, x)
           n == Len(s)
<1>1. /\ DOMAIN s = 1..n /\ DOMAIN t = 1..(n + 1) /\ (\A i \in 1..n : t[i] = s[i]) /\ t[n + 1] = x
      /\ \A i : i \in 1..(n + 1) <=> i \in 1..n \/ i = n + 1
  BY AppendPlaces
<1> HIDE DEF t, n
<1>2. Has(t, T) <=> Has(s, T) \/ x.tag \in T
  BY <1>1 DEF Has
<1>3. Lone(s, T) /\ (x.tag \in T => ~Has(s, T)) => Lone(t, T)
  BY <1>1 DEF Has, Lone
<1> QED
  BY <1>2, <1>3 DEF t

LEMMA TailHas ==
  ASSUME NEW S, NEW s \in Seq(S), s # <<>>, NEW T
  PROVE  /\ Has(s, T) <=> Has(Tail(s), T) \/ Head(s).tag \in T
         /\ Lone(s, T) => Lone(Tail(s), T) /\ (Head(s).tag \in T => ~Has(Tail(s), T))
<1> DEFINE t == Tail(s)
           n == Len(s)
<1>1. /\ DOMAIN s = 1..n /\ DOMAIN t = 1..(n - 1) /\ Head(s) = s[1] /\ n \in Nat
      /\ \A i \in 1..(n - 1) : t[i] = s[i + 1] /\ i + 1 \in 1..n
      /\ \A i : i \in 1..n <=> i = 1 \/ (i \in 2..n)
      /\ \A i \in 2..n : i - 1 \in 1..(n - 1) /\ t[i - 1] = s[i]
  BY TailPlaces
<1> HIDE DEF t, n
<1>2. Has(s, T) <=> Has(t, T) \/ s[1].tag \in T
  BY <1>1 DEF Has
<1>3. \A i, j \in 1..(n - 1) : i + 1 = j + 1 => i = j
  BY <1>1
<1>4. \A i \in 1..(n - 1) : i + 1 # 1
  BY <1>1
<1>5. Lone(s, T) => Lone(t, T)
  <2> SUFFICES ASSUME Lone(s, T), NEW i \in 1..(n - 1), NEW j \in 1..(n - 1), t[i].tag \in T, t[j].tag \in T
               PROVE  i = j
    BY <1>1 DEF Lone
  <2>1. i + 1 = j + 1
    BY <1>1 DEF Lone
  <2> QED
    BY <2>1, <1>3
<1>6. Lone(s, T) /\ s[1].tag \in T => ~Has(t, T)
  <2> SUFFICES ASSUME Lone(s, T), s[1].tag \in T, NEW i \in 1..(n - 1), t[i].tag \in T
               PROVE  FALSE
    BY <1>1 DEF Has
  <2>1. i + 1 = 1
    BY <1>1 DEF Lone
  <2> QED
    BY <2>1, <1>4
<1> QED
  BY <1>1, <1>2, <1>5, <1>6 DEF t

-----------------------------------------------------------------------------
(* How what is on its way moves.                                             *)

LEMMA Served ==
  ASSUME NEW C, NEW c \in Seq(C), c # <<>>, NEW D, NEW d \in Seq(D), NEW w, NEW a \in D,
         NEW T, Head(c).tag \in T <=> a.tag \in T
  PROVE  /\ AtMostOne(T, c, d, w) => AtMostOne(T, Tail(c), Append(d, a), w)
         /\ OnItsWay(T, Tail(c), Append(d, a), w) <=> OnItsWay(T, c, d, w)
<1>1. /\ Has(c, T) <=> Has(Tail(c), T) \/ Head(c).tag \in T
      /\ Lone(c, T) => Lone(Tail(c), T) /\ (Head(c).tag \in T => ~Has(Tail(c), T))
  BY TailHas
<1>2. /\ Has(Append(d, a), T) <=> Has(d, T) \/ a.tag \in T
      /\ Lone(d, T) /\ (a.tag \in T => ~Has(d, T)) => Lone(Append(d, a), T)
  BY AppendHas
<1> QED
  BY <1>1, <1>2 DEF AtMostOne, OnItsWay

LEMMA Replied ==
  ASSUME NEW c, NEW D, NEW d \in Seq(D), d # <<>>, NEW W, NEW w \in Seq(W), Head(d) \in W, NEW T
  PROVE  /\ AtMostOne(T, c, d, w) => AtMostOne(T, c, Tail(d), Append(w, Head(d)))
         /\ OnItsWay(T, c, Tail(d), Append(w, Head(d))) <=> OnItsWay(T, c, d, w)
<1>1. /\ Has(d, T) <=> Has(Tail(d), T) \/ Head(d).tag \in T
      /\ Lone(d, T) => Lone(Tail(d), T) /\ (Head(d).tag \in T => ~Has(Tail(d), T))
  BY TailHas
<1>2. /\ Has(Append(w, Head(d)), T) <=> Has(w, T) \/ Head(d).tag \in T
      /\ Lone(w, T) /\ (Head(d).tag \in T => ~Has(w, T)) => Lone(Append(w, Head(d)), T)
  BY AppendHas
<1> QED
  BY <1>1, <1>2 DEF AtMostOne, OnItsWay

LEMMA Spoken ==
  ASSUME NEW c, NEW d, NEW W, NEW w \in Seq(W), NEW x \in W, NEW T, x.tag \notin T
  PROVE  /\ AtMostOne(T, c, d, w) => AtMostOne(T, c, d, Append(w, x))
         /\ OnItsWay(T, c, d, Append(w, x)) <=> OnItsWay(T, c, d, w)
<1>1. /\ Has(Append(w, x), T) <=> Has(w, T)
      /\ Lone(w, T) => Lone(Append(w, x), T)
  BY AppendHas
<1> QED
  BY <1>1 DEF AtMostOne, OnItsWay

LEMMA Cleared ==
  ASSUME NEW c, NEW d, NEW w, NEW T
  PROVE  /\ AtMostOne(T, c, d, w) => AtMostOne(T, <<>>, <<>>, w)
         /\ OnItsWay(T, <<>>, <<>>, w) => OnItsWay(T, c, d, w)
         /\ AtMostOne(T, <<>>, <<>>, <<>>) /\ ~OnItsWay(T, <<>>, <<>>, <<>>)
<1>1. ~Has(<<>>, T) /\ Lone(<<>>, T)
  BY EmptyHas
<1> QED
  BY <1>1 DEF AtMostOne, OnItsWay

LEMMA Received ==
  ASSUME NEW c, NEW d, NEW W, NEW w \in Seq(W), w # <<>>, NEW T, AtMostOne(T, c, d, w)
  PROVE  /\ AtMostOne(T, c, d, Tail(w))
         /\ Head(w).tag \in T => OnItsWay(T, c, d, w) /\ ~OnItsWay(T, c, d, Tail(w))
         /\ Head(w).tag \notin T => (OnItsWay(T, c, d, Tail(w)) <=> OnItsWay(T, c, d, w))
<1>1. /\ Has(w, T) <=> Has(Tail(w), T) \/ Head(w).tag \in T
      /\ Lone(w, T) => Lone(Tail(w), T) /\ (Head(w).tag \in T => ~Has(Tail(w), T))
  BY TailHas
<1> QED
  BY <1>1 DEF AtMostOne, OnItsWay

LEMMA Asked ==
  ASSUME NEW C, NEW c \in Seq(C), NEW r \in C, NEW d, NEW w, NEW T, AtMostOne(T, c, d, w)
  PROVE  /\ OnItsWay(T, Append(c, r), d, w) <=> OnItsWay(T, c, d, w) \/ r.tag \in T
         /\ (r.tag \in T => ~OnItsWay(T, c, d, w)) => AtMostOne(T, Append(c, r), d, w)
<1>1. /\ Has(Append(c, r), T) <=> Has(c, T) \/ r.tag \in T
      /\ Lone(c, T) /\ (r.tag \in T => ~Has(c, T)) => Lone(Append(c, r), T)
  BY AppendHas
<1> QED
  BY <1>1 DEF AtMostOne, OnItsWay

-----------------------------------------------------------------------------
(* What is still to come to a window that holds every fact up to a base.     *)

Applies(q, f) == \E j \in DOMAIN q : q[j].tag = "apply" /\ q[j].seq = f
Carries(w, f) == \E j \in DOMAIN w : w[j].tag = "event" /\ w[j].seq = f

(* What it is told of is so, and a trace comes behind every fact before it.  *)
Based(b, l, q, w) ==
  /\ \A i \in DOMAIN q : q[i].tag = "apply" => q[i].seq \in Facts(l)
  /\ \A i \in DOMAIN w : w[i].tag = "event" => w[i].seq \in 1..Len(l) /\ w[i].tier = l[w[i].seq]
  /\ \A i \in DOMAIN q : q[i].tag = "noted" => \A f \in Facts(l) : f <= q[i].seq =>
       f <= b \/ \E j \in DOMAIN q : j < i /\ q[j].tag = "apply" /\ q[j].seq = f
  /\ \A i \in DOMAIN w : w[i].tag = "event" /\ w[i].tier = "trace" => \A f \in Facts(l) : f <= w[i].seq =>
       f <= b \/ Applies(q, f) \/ \E j \in DOMAIN w : j < i /\ w[j].tag = "event" /\ w[j].seq = f

(* Every fact is held or comes.                                              *)
Complete(b, l, q, w) == \A f \in Facts(l) : f <= b \/ Applies(q, f) \/ Carries(w, f)

LEMMA BasedAtOnce ==
  ASSUME NEW b, NEW l, NEW q, NEW w, ~Has(q, {"apply", "noted"}), ~Has(w, {"event"})
  PROVE  Based(b, l, q, w)
<1>1. \A i \in DOMAIN q : q[i].tag # "apply" /\ q[i].tag # "noted"
  BY DEF Has
<1>2. \A i \in DOMAIN w : w[i].tag # "event"
  BY DEF Has
<1> QED
  BY <1>1, <1>2 DEF Based

LEMMA BasedAgrees ==
  ASSUME NEW b, NEW l \in Seq(Tier), NEW m \in Seq(Tier), NEW d \in Nat, Agree(l, m, d), NEW q, NEW w,
         \A i \in DOMAIN q : q[i].tag \in {"apply", "noted"} => q[i].seq \in 1..d,
         \A i \in DOMAIN w : w[i].tag = "event" => w[i].seq \in 1..d,
         Based(b, l, q, w)
  PROVE  Based(b, m, q, w)
<1>1. \A f : f \in 1..d => (f \in Facts(l) <=> f \in Facts(m)) /\ f \in 1..Len(m) /\ l[f] = m[f]
  BY DEF Facts, Agree
<1>2. \A f \in Facts(m), s \in 1..d : f <= s => f \in 1..d
  BY DEF Facts
<1> QED
  BY <1>1, <1>2 DEF Based

LEMMA BasedDone ==
  ASSUME NEW b \in Nat, NEW c \in Nat, b <= c, NEW l, NEW Q, NEW q \in Seq(Q), q # <<>>, NEW w,
         Head(q).tag = "apply" => Head(q).seq <= c, Based(b, l, q, w)
  PROVE  Based(c, l, Tail(q), w) /\ (Complete(b, l, q, w) => Complete(c, l, Tail(q), w))
<1> DEFINE t == Tail(q)
           n == Len(q)
<1>1. /\ DOMAIN q = 1..n /\ DOMAIN t = 1..(n - 1) /\ Head(q) = q[1] /\ n \in Nat
      /\ \A i \in 1..(n - 1) : t[i] = q[i + 1] /\ i + 1 \in 1..n
      /\ \A i : i \in 1..n <=> i = 1 \/ (i \in 2..n)
      /\ \A i \in 2..n : i - 1 \in 1..(n - 1) /\ t[i - 1] = q[i]
  BY TailPlaces
<1> HIDE DEF t, n
<1>2. \A f \in Facts(l) : f <= b => f <= c
  BY DEF Facts
<1>3. ASSUME NEW f \in Facts(l), Applies(q, f) PROVE f <= c \/ Applies(t, f)
  BY <1>1, <1>3 DEF Applies
<1>4. \A i \in DOMAIN t : t[i].tag = "apply" => t[i].seq \in Facts(l)
  <2> SUFFICES ASSUME NEW i \in DOMAIN t PROVE t[i].tag = "apply" => t[i].seq \in Facts(l)
    OBVIOUS
  <2>1. PICK k \in DOMAIN q : k = i + 1 /\ t[i] = q[k]
    BY <1>1
  <2> QED
    BY <2>1 DEF Based
<1>5. ASSUME NEW i \in DOMAIN t, t[i].tag = "noted", NEW f \in Facts(l), f <= t[i].seq
      PROVE  f <= c \/ \E j \in DOMAIN t : j < i /\ t[j].tag = "apply" /\ t[j].seq = f
  <2>1. f <= b \/ \E j \in DOMAIN q : j < i + 1 /\ q[j].tag = "apply" /\ q[j].seq = f
    <3>1. PICK k \in DOMAIN q : k = i + 1 /\ t[i] = q[k]
      BY <1>1
    <3> QED
      BY <1>5, <3>1 DEF Based
  <2>2. ASSUME NEW j \in DOMAIN q, j < i + 1, q[j].tag = "apply", q[j].seq = f
        PROVE  f <= c \/ \E k \in DOMAIN t : k < i /\ t[k].tag = "apply" /\ t[k].seq = f
    <3>1. CASE j = 1
      BY <1>1, <2>2, <3>1
    <3>2. CASE j \in 2..n
      <4>1. j - 1 \in DOMAIN t /\ t[j - 1] = q[j]
        BY <1>1, <3>2
      <4>2. j - 1 < i
        BY <1>1, <2>2, <3>2
      <4> QED
        BY <2>2, <4>1, <4>2
    <3> QED
      BY <1>1, <3>1, <3>2
  <2> QED
    BY <1>2, <2>1, <2>2
<1>6. Based(c, l, t, w)
  BY <1>2, <1>3, <1>4, <1>5 DEF Based
<1>7. Complete(b, l, q, w) => Complete(c, l, t, w)
  BY <1>2, <1>3 DEF Complete
<1> QED
  BY <1>6, <1>7 DEF t

LEMMA BasedRaised ==
  ASSUME NEW b \in Nat, NEW c \in Nat, b <= c, NEW l, NEW q, NEW w, Based(b, l, q, w)
  PROVE  Based(c, l, q, w) /\ (Complete(b, l, q, w) => Complete(c, l, q, w))
<1>1. \A f \in Facts(l) : f <= b => f <= c
  BY DEF Facts
<1> QED
  BY <1>1 DEF Based, Complete

LEMMA BasedHeard ==
  ASSUME NEW b, NEW l, NEW Q, NEW q \in Seq(Q), NEW o \in Q, NEW W, NEW w \in Seq(W), w # <<>>,
         Head(w).tag = "event", o.tag = (IF Head(w).tier = "trace" THEN "noted" ELSE "apply"),
         Head(w).tier \in Tier, o.seq = Head(w).seq, Based(b, l, q, w)
  PROVE  /\ Based(b, l, Append(q, o), Tail(w))
         /\ Complete(b, l, q, w) => Complete(b, l, Append(q, o), Tail(w))
<1> DEFINE p == Append(q, o)
           m == Len(q)
           t == Tail(w)
           n == Len(w)
<1>1. /\ DOMAIN q = 1..m /\ DOMAIN p = 1..(m + 1) /\ (\A i \in 1..m : p[i] = q[i]) /\ p[m + 1] = o
      /\ (\A i : i \in 1..(m + 1) <=> i \in 1..m \/ i = m + 1) /\ m \in Nat
  BY AppendPlaces
<1>2. /\ DOMAIN w = 1..n /\ DOMAIN t = 1..(n - 1) /\ Head(w) = w[1] /\ n \in Nat
      /\ \A i \in 1..(n - 1) : t[i] = w[i + 1] /\ i + 1 \in 1..n
      /\ \A i : i \in 1..n <=> i = 1 \/ (i \in 2..n)
      /\ \A i \in 2..n : i - 1 \in 1..(n - 1) /\ t[i - 1] = w[i]
  BY TailPlaces
<1> HIDE DEF p, m, t, n
<1>0. 1 \in DOMAIN w
  BY <1>2
<1>3. \A f : Applies(q, f) => Applies(p, f)
  BY <1>1 DEF Applies
<1>4. ASSUME NEW f \in Facts(l), w[1].seq = f PROVE Applies(p, f)
  <2>1. w[1].tier = l[f] /\ l[f] = "fact"
    BY <1>0, <1>2, <1>4 DEF Based, Facts
  <2>2. o.tag = "apply" /\ o.seq = f
    BY <1>2, <1>4, <2>1
  <2> QED
    BY <1>1, <2>2 DEF Applies
<1>5. ASSUME NEW i \in DOMAIN p, p[i].tag = "apply" PROVE p[i].seq \in Facts(l)
  <2>1. CASE i \in 1..m
    BY <1>1, <1>5, <2>1 DEF Based
  <2>2. CASE i = m + 1
    <3>1. w[1].tier = "fact" /\ o.seq = w[1].seq
      BY <1>1, <1>2, <1>5, <2>2 DEF Tier
    <3> QED
      BY <1>0, <1>1, <1>2, <2>2, <3>1 DEF Based, Facts
  <2> QED
    BY <1>1, <2>1, <2>2
<1>6. ASSUME NEW i \in DOMAIN p, p[i].tag = "noted", NEW f \in Facts(l), f <= p[i].seq
      PROVE  f <= b \/ \E j \in DOMAIN p : j < i /\ p[j].tag = "apply" /\ p[j].seq = f
  <2>1. CASE i \in 1..m
    BY <1>1, <1>6, <2>1 DEF Based
  <2>2. CASE i = m + 1
    <3>1. w[1].tier = "trace" /\ w[1].tag = "event" /\ f <= w[1].seq
      BY <1>1, <1>2, <1>6, <2>2
    <3>2. ~(\E j \in DOMAIN w : j < 1)
      BY <1>2
    <3>3. f <= b \/ Applies(q, f)
      BY <1>0, <3>1, <3>2 DEF Based
    <3>4. \A j \in 1..m : j < i
      BY <1>1, <2>2
    <3> QED
      BY <1>1, <3>3, <3>4 DEF Applies
  <2> QED
    BY <1>1, <2>1, <2>2
<1>7. \A i \in DOMAIN t : t[i].tag = "event" => t[i].seq \in 1..Len(l) /\ t[i].tier = l[t[i].seq]
  <2> SUFFICES ASSUME NEW i \in DOMAIN t
               PROVE  t[i].tag = "event" => t[i].seq \in 1..Len(l) /\ t[i].tier = l[t[i].seq]
    OBVIOUS
  <2>1. PICK k \in DOMAIN w : k = i + 1 /\ t[i] = w[k]
    BY <1>2
  <2> QED
    BY <2>1 DEF Based
<1>8. ASSUME NEW i \in DOMAIN t, t[i].tag = "event", t[i].tier = "trace", NEW f \in Facts(l), f <= t[i].seq
      PROVE  f <= b \/ Applies(p, f) \/ \E j \in DOMAIN t : j < i /\ t[j].tag = "event" /\ t[j].seq = f
  <2>0. PICK k \in DOMAIN w : k = i + 1 /\ t[i] = w[k]
    BY <1>2
  <2>1. f <= b \/ Applies(q, f) \/ \E j \in DOMAIN w : j < i + 1 /\ w[j].tag = "event" /\ w[j].seq = f
    BY <1>8, <2>0 DEF Based
  <2>2. ASSUME NEW j \in DOMAIN w, j < i + 1, w[j].tag = "event", w[j].seq = f
        PROVE  Applies(p, f) \/ \E h \in DOMAIN t : h < i /\ t[h].tag = "event" /\ t[h].seq = f
    <3>1. CASE j = 1
      BY <1>4, <2>2, <3>1
    <3>2. CASE j \in 2..n
      <4>1. j - 1 \in DOMAIN t /\ t[j - 1] = w[j]
        BY <1>2, <3>2
      <4>2. j - 1 < i
        BY <1>2, <2>2, <3>2
      <4> QED
        BY <2>2, <4>1, <4>2
    <3> QED
      BY <1>2, <3>1, <3>2
  <2> QED
    BY <1>3, <2>1, <2>2
<1>9. Based(b, l, p, t)
  BY <1>5, <1>6, <1>7, <1>8 DEF Based
<1>10. ASSUME NEW f \in Facts(l), Carries(w, f) PROVE Applies(p, f) \/ Carries(t, f)
  BY <1>2, <1>4, <1>10 DEF Carries
<1>11. Complete(b, l, q, w) => Complete(b, l, p, t)
  BY <1>3, <1>10 DEF Complete
<1> QED
  BY <1>9, <1>11 DEF p, t

LEMMA BasedSkips ==
  ASSUME NEW b, NEW l, NEW q, NEW W, NEW w \in Seq(W), w # <<>>, Head(w).tag # "event", Based(b, l, q, w)
  PROVE  Based(b, l, q, Tail(w)) /\ (Complete(b, l, q, w) => Complete(b, l, q, Tail(w)))
<1> DEFINE t == Tail(w)
           n == Len(w)
<1>2. /\ DOMAIN w = 1..n /\ DOMAIN t = 1..(n - 1) /\ Head(w) = w[1] /\ n \in Nat
      /\ \A i \in 1..(n - 1) : t[i] = w[i + 1] /\ i + 1 \in 1..n
      /\ \A i : i \in 1..n <=> i = 1 \/ (i \in 2..n)
      /\ \A i \in 2..n : i - 1 \in 1..(n - 1) /\ t[i - 1] = w[i]
  BY TailPlaces
<1> HIDE DEF t, n
<1>7. \A i \in DOMAIN t : t[i].tag = "event" => t[i].seq \in 1..Len(l) /\ t[i].tier = l[t[i].seq]
  <2> SUFFICES ASSUME NEW i \in DOMAIN t
               PROVE  t[i].tag = "event" => t[i].seq \in 1..Len(l) /\ t[i].tier = l[t[i].seq]
    OBVIOUS
  <2>1. PICK k \in DOMAIN w : k = i + 1 /\ t[i] = w[k]
    BY <1>2
  <2> QED
    BY <2>1 DEF Based
<1>8. ASSUME NEW i \in DOMAIN t, t[i].tag = "event", t[i].tier = "trace", NEW f \in Facts(l), f <= t[i].seq
      PROVE  f <= b \/ Applies(q, f) \/ \E j \in DOMAIN t : j < i /\ t[j].tag = "event" /\ t[j].seq = f
  <2>0. PICK k \in DOMAIN w : k = i + 1 /\ t[i] = w[k]
    BY <1>2
  <2>1. f <= b \/ Applies(q, f) \/ \E j \in DOMAIN w : j < i + 1 /\ w[j].tag = "event" /\ w[j].seq = f
    BY <1>8, <2>0 DEF Based
  <2>2. ASSUME NEW j \in DOMAIN w, j < i + 1, w[j].tag = "event", w[j].seq = f
        PROVE  \E h \in DOMAIN t : h < i /\ t[h].tag = "event" /\ t[h].seq = f
    <3>2. j \in 2..n
      BY <1>2, <2>2
    <3>3. j - 1 \in DOMAIN t /\ t[j - 1] = w[j]
      BY <1>2, <3>2
    <3>4. j - 1 < i
      BY <1>2, <2>2, <3>2
    <3> QED
      BY <2>2, <3>3, <3>4
  <2> QED
    BY <2>1, <2>2
<1>9. Based(b, l, q, t)
  BY <1>7, <1>8 DEF Based
<1>10. ASSUME NEW f \in Facts(l), Carries(w, f) PROVE Carries(t, f)
  BY <1>2, <1>10 DEF Carries
<1>11. Complete(b, l, q, w) => Complete(b, l, q, t)
  BY <1>10 DEF Complete
<1> QED
  BY <1>9, <1>11 DEF t

LEMMA BasedSends ==
  ASSUME NEW b, NEW l, NEW q, NEW W, NEW w \in Seq(W), NEW x \in W, Based(b, l, q, w),
         x.tag = "event" => /\ x.seq \in 1..Len(l) /\ x.tier = l[x.seq]
                            /\ x.tier = "trace" => Complete(b, l, q, w)
  PROVE  /\ Based(b, l, q, Append(w, x))
         /\ (\A f \in Facts(l) : f <= b \/ Applies(q, f) \/ Carries(w, f) \/ (x.tag = "event" /\ x.seq = f))
              => Complete(b, l, q, Append(w, x))
<1> DEFINE t == Append(w, x)
           n == Len(w)
<1>1. /\ DOMAIN w = 1..n /\ DOMAIN t = 1..(n + 1) /\ (\A i \in 1..n : t[i] = w[i]) /\ t[n + 1] = x
      /\ (\A i : i \in 1..(n + 1) <=> i \in 1..n \/ i = n + 1) /\ n \in Nat
  BY AppendPlaces
<1> HIDE DEF t, n
<1>2. \A i \in DOMAIN t : t[i].tag = "event" => t[i].seq \in 1..Len(l) /\ t[i].tier = l[t[i].seq]
  BY <1>1 DEF Based
<1>3. ASSUME NEW i \in DOMAIN t, t[i].tag = "event", t[i].tier = "trace", NEW f \in Facts(l), f <= t[i].seq
      PROVE  f <= b \/ Applies(q, f) \/ \E j \in DOMAIN t : j < i /\ t[j].tag = "event" /\ t[j].seq = f
  <2>1. CASE i \in 1..n
    BY <1>1, <1>3, <2>1 DEF Based
  <2>2. CASE i = n + 1
    <3>1. f <= b \/ Applies(q, f) \/ Carries(w, f)
      BY <1>1, <1>3, <2>2 DEF Complete
    <3>2. \A j \in 1..n : j < i
      BY <1>1, <2>2
    <3> QED
      BY <1>1, <3>1, <3>2 DEF Carries
  <2> QED
    BY <1>1, <2>1, <2>2
<1>4. Based(b, l, q, t)
  BY <1>2, <1>3 DEF Based
<1>5. \A f : Carries(w, f) \/ (x.tag = "event" /\ x.seq = f) => Carries(t, f)
  BY <1>1 DEF Carries
<1>6. (\A f \in Facts(l) : f <= b \/ Applies(q, f) \/ Carries(w, f) \/ (x.tag = "event" /\ x.seq = f))
              => Complete(b, l, q, t)
  BY <1>5 DEF Complete
<1> QED
  BY <1>4, <1>6 DEF t

LEMMA LogGrows ==
  ASSUME NEW l \in Seq(Tier), NEW t \in Tier
  PROVE  /\ Append(l, t) \in Seq(Tier) /\ Len(l) \in Nat /\ Len(Append(l, t)) = Len(l) + 1
         /\ Append(l, t)[Len(l) + 1] = t
         /\ Agree(l, Append(l, t), Len(l))
         /\ \A f \in Facts(Append(l, t)) : f \in Facts(l) \/ (f = Len(l) + 1 /\ t = "fact")
<1> DEFINE m == Append(l, t)
           n == Len(l)
<1>1. /\ DOMAIN l = 1..n /\ Len(m) = n + 1 /\ (\A i \in 1..n : m[i] = l[i]) /\ m[n + 1] = t
      /\ (\A i : i \in 1..(n + 1) <=> i \in 1..n \/ i = n + 1) /\ n \in Nat /\ m \in Seq(Tier)
  BY AppendPlaces
<1> HIDE DEF m
<1>2. Agree(l, m, n)
  BY <1>1 DEF Agree
<1>3. \A f \in Facts(m) : f \in Facts(l) \/ (f = n + 1 /\ t = "fact")
  BY <1>1 DEF Facts
<1> QED
  BY <1>1, <1>2, <1>3 DEF m

-----------------------------------------------------------------------------
(* The invariant.                                                            *)

Win == [held : BOOLEAN, cursor : Nat, oldest : Nat \ {0}, more : BOOLEAN, rows : Seq(Nat)]
Op == [tag : {"attach"}] \cup [tag : {"apply", "noted"}, seq : Nat \ {0}]
PageOf == [rows : Seq(Nat), from : Nat \ {0}, more : BOOLEAN]
Request == [tag : {"attach", "detach"}] \cup [tag : {"events"}, from : Nat, to : Nat]
             \cup [tag : {"page"}, through : Nat, before : Nat \ {0}]
Answer == [tag : {"cut"}, cursor : Nat, page : PageOf] \cup [tag : {"detached", "refused"}]
            \cup [tag : {"range"}, rows : Seq(Nat)] \cup [tag : {"page"}, page : PageOf]
Frame == Answer \cup [tag : {"bye"}] \cup [tag : {"event"}, seq : Nat \ {0}, tier : Tier]

WindowTyped ==
  /\ log \in Seq(Tier) /\ disk \in Nat /\ stage \in {"cold", "setup", "live"}
  /\ copy \in Nat /\ early \in BOOLEAN
  /\ up \in BOOLEAN /\ watch \in {"all", "named", "none"}
  /\ calls \in Seq(Request) /\ due \in Seq(Answer) /\ wire \in Seq(Frame)
  /\ linked \in BOOLEAN /\ win \in Win /\ queue \in Seq(Op) /\ awaits \in {"none", "cut", "range"}
  /\ paging \in BOOLEAN /\ synced \in BOOLEAN

(* The log is what the file holds, but for a resume under way; the parsed    *)
(* copy is the file's but for one parsed during a resume.                    *)
SourceInv ==
  /\ 2 <= disk /\ disk <= Len(log) /\ Len(log) <= MaxLog /\ log[1] = "fact"
  /\ stage # "setup" => disk = Len(log)
  /\ copy # None => copy \in 2..disk /\ (~early => copy = disk /\ stage # "setup")

(* A request and its answer.                                                 *)
Boot == {"detach", "detached"}
Cut == {"attach", "cut"}
Span == {"events", "range"}
Leaf == {"page", "refused"}
Kinds == {Boot, Cut, Span, Leaf}

Way(T) == OnItsWay(T, calls, due, wire)
Cutting == Has(due, {"cut"}) \/ Has(wire, {"cut"})

(* Of each kind one is on its way, and whoever asked waits for it.           *)
LineInv ==
  /\ \A T \in Kinds : AtMostOne(T, calls, due, wire)
  /\ ~up => calls = <<>> /\ due = <<>> /\ watch = "none"
  /\ \A i \in DOMAIN wire : wire[i].tag = "bye" => i = Len(wire) /\ ~up
  /\ ~linked => ~up /\ wire = <<>> /\ awaits = "none" /\ ~synced /\ ~paging
  /\ (Way(Span) => awaits = "range") /\ (Way(Cut) => awaits = "cut") /\ (Way(Leaf) => paging)
  /\ up /\ paging => Way(Leaf)
  /\ awaits = "cut" => queue # <<>> /\ Head(queue).tag = "attach"
  /\ awaits = "range" => queue # <<>> /\ Head(queue).tag = "apply"

(* From the open to the attach the session is not heard.                     *)
BootInv ==
  /\ Lone(queue, {"attach"})
  /\ Has(queue, {"attach"}) => ~Way(Boot) /\ ~synced
  /\ Way(Boot) => ~synced
  /\ Has(due, Boot) \/ Has(wire, Boot) => watch = "none"
  /\ \A i, j \in DOMAIN wire : wire[i].tag \in Boot /\ wire[j].tag = "event" => j < i
  /\ up /\ Has(queue, {"attach"}) /\ ~Cutting =>
       watch = "none" /\ ~Has(wire, {"event"}) /\ queue[Len(queue)].tag = "attach"
  /\ up /\ (synced \/ Cutting) => watch = "named"

Ops == {"apply", "noted"}
Coming == Elements(due) \cup Elements(wire)

(* With no gap, nothing is seen beyond the file.                             *)
ReachInv ==
  gaps = {} =>
    /\ win.cursor <= disk
    /\ \A i \in DOMAIN wire : wire[i].tag = "event" => wire[i].seq \in 1..disk
    /\ \A i \in DOMAIN queue : queue[i].tag \in Ops => queue[i].seq \in 1..disk
    /\ \A f \in Coming : f.tag = "range" => \A s \in Elements(f.rows) : s <= disk

(* An attached connection is of a session that is not being resumed, and     *)
(* hears of no event before the stale copy goes.                             *)
SettledInv ==
  gaps = {} /\ up /\ (synced \/ Cutting) =>
    stage # "setup" /\ (early => ~Has(wire, {"event"}) /\ ~Has(queue, Ops))

Piece(rows, low, high) == rows = InOrder(Stretch(log, low, high))
CutOk(f) == f.tag = "cut" => /\ f.cursor \in 2..disk /\ win.cursor <= f.cursor
                             /\ f.page.from <= f.cursor /\ Piece(f.page.rows, f.page.from, f.cursor)
PageOk(f) == f.tag = "page" => f.page.from <= win.oldest /\ Piece(f.page.rows, f.page.from, win.oldest - 1)
PageAsked(r) == r.tag = "page" => r.before = win.oldest /\ win.oldest <= r.through
SpanAsked(r) == r.tag = "events" => r.from = win.cursor + 1 /\ r.to = Head(queue).seq - 1
SpanOk(f) ==
  f.tag = "range" => f.rows = InOrder(Oldest(Stretch(log, win.cursor + 1, Head(queue).seq - 1), RepairLimit))

(* A window is whole, and what comes for it fits.                            *)
WholeInv ==
  gaps = {} /\ synced =>
    /\ win.held /\ win.oldest <= win.cursor /\ Piece(win.rows, win.oldest, win.cursor)
    /\ \A f \in Coming : PageOk(f) /\ SpanOk(f)
    /\ \A r \in Elements(calls) : PageAsked(r) /\ SpanAsked(r)
    /\ awaits = "range" => win.cursor + 1 < Head(queue).seq

CutInv == gaps = {} => \A f \in Coming : CutOk(f)

(* The base of what is to come: what a window holds, or will.                *)
Base(b) == (synced /\ b = win.cursor) \/ \E f \in Coming : f.tag = "cut" /\ f.cursor = b
PendingInv ==
  gaps = {} => \A b \in Nat : Base(b) =>
    Based(b, log, queue, wire) /\ (up => Complete(b, log, queue, wire))

TokenInv == linked /\ up /\ ~synced /\ gaps = {} => Way(Boot) \/ Has(queue, {"attach"})

DataInv == ReachInv /\ SettledInv /\ WholeInv /\ CutInv /\ PendingInv /\ TokenInv
WindowInv == WindowTyped /\ SourceInv /\ LineInv /\ BootInv /\ DataInv

-----------------------------------------------------------------------------
(* The steps of the host's side, by what they do to the carrier.             *)

Silent == UNCHANGED <<up, watch, calls, due, wire>>
Speaks(f) == up /\ UNCHANGED <<up, watch, calls, due>> /\ wire' = Append(wire, f)
Replies ==
  up /\ due # <<>> /\ UNCHANGED <<up, watch, calls>> /\ due' = Tail(due) /\ wire' = Append(wire, Head(due))
Shuts ==
  /\ up /\ up' = FALSE /\ watch' = "none" /\ calls' = <<>> /\ due' = <<>>
  /\ wire' = Append(wire, Bye) \/ wire' = <<Bye>>

LEMMA FrameFacts ==
  /\ Bye \in Frame /\ Bye.tag = "bye" /\ Answer \subseteq Frame
  /\ \A s \in Nat \ {0}, t \in Tier : [tag |-> "event", seq |-> s, tier |-> t] \in Frame
  /\ \A T \in Kinds : "event" \notin T /\ "bye" \notin T
  /\ Kinds = {Boot, Cut, Span, Leaf}
  BY DEF Bye, Frame, Answer, Kinds, Boot, Cut, Span, Leaf

LEMMA SendCases ==
  ASSUME NEW f, NEW droppable \in BOOLEAN, Send(f, droppable)
  PROVE  \/ droppable /\ UNCHANGED <<up, watch, calls, wire>>
         \/ up' = FALSE /\ watch' = "none" /\ calls' = <<>> /\ wire' = Append(wire, Bye)
         \/ UNCHANGED <<up, watch, calls>> /\ wire' = Append(wire, f)
  BY DEF Send, Shut

(* What a carrier step leaves on its way.                                    *)
LEMMA SilentWay ==
  ASSUME Silent
  PROVE  /\ \A T : (Way(T)' <=> Way(T)) /\ (AtMostOne(T, calls, due, wire) => AtMostOne(T, calls, due, wire)')
         /\ Cutting' <=> Cutting
  BY DEF Silent, Way, Cutting

LEMMA SpeaksWay ==
  ASSUME WindowTyped, NEW f \in Frame, Speaks(f), NEW T, f.tag \notin T
  PROVE  /\ Way(T)' <=> Way(T)
         /\ AtMostOne(T, calls, due, wire) => AtMostOne(T, calls, due, wire)'
  BY Spoken DEF WindowTyped, Speaks, Way

LEMMA RepliesWay ==
  ASSUME WindowTyped, Replies, NEW T
  PROVE  /\ Way(T)' <=> Way(T)
         /\ AtMostOne(T, calls, due, wire) => AtMostOne(T, calls, due, wire)'
<1>1. due \in Seq(Answer) /\ due # <<>> /\ wire \in Seq(Frame)
  BY DEF WindowTyped, Replies
<1>2. Head(due) \in Frame
  BY <1>1, TailPlaces, FrameFacts
<1> QED
  BY <1>1, <1>2, Replied DEF Replies, Way

LEMMA ShutsWay ==
  ASSUME WindowTyped, Shuts, NEW T, "bye" \notin T
  PROVE  /\ Way(T)' => Way(T)
         /\ AtMostOne(T, calls, due, wire) => AtMostOne(T, calls, due, wire)'
<1>1. wire \in Seq(Frame) /\ <<>> \in Seq(Frame) /\ Bye \in Frame /\ Bye.tag = "bye"
  BY FrameFacts DEF WindowTyped
<1>2. calls' = <<>> /\ due' = <<>>
  BY DEF Shuts
<1>3. CASE wire' = Append(wire, Bye)
  <2>1. /\ AtMostOne(T, <<>>, <<>>, wire) => AtMostOne(T, <<>>, <<>>, Append(wire, Bye))
        /\ OnItsWay(T, <<>>, <<>>, Append(wire, Bye)) <=> OnItsWay(T, <<>>, <<>>, wire)
    BY <1>1, Spoken
  <2> QED
    BY <1>2, <1>3, <2>1, Cleared DEF Way
<1>4. CASE wire' = <<Bye>>
  <2>0. <<Bye>> = Append(<<>>, Bye)
    OBVIOUS
  <2>1. /\ AtMostOne(T, <<>>, <<>>, <<>>) => AtMostOne(T, <<>>, <<>>, Append(<<>>, Bye))
        /\ OnItsWay(T, <<>>, <<>>, Append(<<>>, Bye)) <=> OnItsWay(T, <<>>, <<>>, <<>>)
    BY <1>1, Spoken
  <2>2. AtMostOne(T, <<>>, <<>>, <<>>) /\ ~OnItsWay(T, <<>>, <<>>, <<>>)
    BY Cleared
  <2> QED
    BY <1>2, <1>4, <2>0, <2>1, <2>2 DEF Way
<1> QED
  BY <1>3, <1>4 DEF Shuts

Carried == up' \in BOOLEAN /\ watch' \in {"all", "named", "none"} /\ calls' \in Seq(Request)
             /\ due' \in Seq(Answer) /\ wire' \in Seq(Frame)

LEMMA SilentKeeps ==
  ASSUME WindowTyped, LineInv, BootInv, Silent, UNCHANGED client
  PROVE  Carried /\ LineInv' /\ BootInv'
<1>1. UNCHANGED <<up, watch, calls, due, wire, linked, win, queue, awaits, paging, synced>>
  BY DEF Silent, client
<1>2. Carried
  BY <1>1 DEF WindowTyped, Carried
<1>3. LineInv'
  BY <1>1 DEF LineInv, Way
<1>4. BootInv'
  BY <1>1 DEF BootInv, Way, Cutting
<1> QED
  BY <1>2, <1>3, <1>4

LEMMA SpeaksKeeps ==
  ASSUME WindowTyped, LineInv, BootInv, UNCHANGED client,
         NEW f \in Frame, f.tag = "event", watch # "none", Speaks(f)
  PROVE  Carried /\ LineInv' /\ BootInv'
<1>1. up /\ UNCHANGED <<up, watch, calls, due, linked, win, queue, awaits, paging, synced>>
  BY DEF Speaks, client
<1>2. wire \in Seq(Frame) /\ wire' = Append(wire, f)
  BY DEF WindowTyped, Speaks
<1> DEFINE n == Len(wire)
           t == wire'
<1>3. /\ DOMAIN wire = 1..n /\ DOMAIN t = 1..(n + 1) /\ (\A i \in 1..n : t[i] = wire[i]) /\ t[n + 1] = f
      /\ (\A i : i \in 1..(n + 1) <=> i \in 1..n \/ i = n + 1) /\ n \in Nat
      /\ Len(t) = n + 1 /\ t \in Seq(Frame)
  BY <1>2, AppendPlaces
<1>4. Carried
  BY <1>1, <1>3 DEF WindowTyped, Carried
<1>5. \A T \in Kinds : (Way(T)' <=> Way(T)) /\ (AtMostOne(T, calls, due, wire) => AtMostOne(T, calls, due, wire)')
  <2> SUFFICES ASSUME NEW T \in Kinds
               PROVE  (Way(T)' <=> Way(T)) /\ (AtMostOne(T, calls, due, wire) => AtMostOne(T, calls, due, wire)')
    OBVIOUS
  <2>1. f.tag \notin T
    BY FrameFacts
  <2> QED
    BY <2>1, SpeaksWay
<1>6. \A T : Has(wire', T) <=> Has(wire, T) \/ "event" \in T
  BY <1>2, AppendHas
<1>7. Cutting' <=> Cutting
  BY <1>1, <1>6 DEF Cutting
<1>8. Boot \in Kinds /\ Cut \in Kinds /\ Span \in Kinds /\ Leaf \in Kinds
  BY DEF Kinds
<1> HIDE DEF n, t
<1>9. \A i \in DOMAIN wire' : wire'[i].tag = "bye" => i = Len(wire') /\ ~up'
  <2>1. \A i \in DOMAIN wire : wire[i].tag # "bye"
    BY <1>1 DEF LineInv
  <2> QED
    BY <1>3, <2>1 DEF t
<1>10. linked
  BY <1>1 DEF LineInv
<1>11. LineInv'
  BY <1>1, <1>5, <1>8, <1>9, <1>10 DEF LineInv
<1>12. ~Has(wire, Boot) /\ ~Has(due, Boot) /\ ~(Has(queue, {"attach"}) /\ ~Cutting)
  BY <1>1 DEF BootInv
<1>13. ~Has(wire', Boot)
  BY <1>6, <1>12, <1>8, FrameFacts
<1>14. \A i, j \in DOMAIN wire' : wire'[i].tag \in Boot /\ wire'[j].tag = "event" => j < i
  BY <1>13 DEF Has
<1>15. BootInv'
  BY <1>1, <1>5, <1>7, <1>8, <1>12, <1>13, <1>14 DEF BootInv
<1> QED
  BY <1>4, <1>11, <1>15

LEMMA RepliesKeeps ==
  ASSUME WindowTyped, LineInv, BootInv, UNCHANGED client, Replies
  PROVE  Carried /\ LineInv' /\ BootInv'
<1>1. up /\ UNCHANGED <<up, watch, calls, linked, win, queue, awaits, paging, synced>>
  BY DEF Replies, client
<1> DEFINE f == Head(due)
           n == Len(wire)
           t == wire'
<1>2. wire \in Seq(Frame) /\ due \in Seq(Answer) /\ due # <<>> /\ t = Append(wire, f) /\ due' = Tail(due)
  BY DEF WindowTyped, Replies
<1>0. f \in Answer /\ f \in Frame /\ due' \in Seq(Answer) /\ f.tag \notin {"event", "bye"}
  BY <1>2, TailPlaces, FrameFacts DEF Answer
<1>3. /\ DOMAIN wire = 1..n /\ DOMAIN t = 1..(n + 1) /\ (\A i \in 1..n : t[i] = wire[i]) /\ t[n + 1] = f
      /\ (\A i : i \in 1..(n + 1) <=> i \in 1..n \/ i = n + 1) /\ n \in Nat
      /\ Len(t) = n + 1 /\ t \in Seq(Frame)
  BY <1>0, <1>2, AppendPlaces
<1>4. Carried
  BY <1>0, <1>1, <1>3 DEF WindowTyped, Carried
<1>5. \A T \in Kinds : (Way(T)' <=> Way(T)) /\ (AtMostOne(T, calls, due, wire) => AtMostOne(T, calls, due, wire)')
  BY RepliesWay
<1>6. \A T : (Has(wire', T) <=> Has(wire, T) \/ f.tag \in T) /\ (Has(due, T) <=> Has(due', T) \/ f.tag \in T)
  BY <1>0, <1>2, AppendHas, TailHas
<1>7. Cutting' <=> Cutting
  BY <1>6 DEF Cutting
<1>8. Boot \in Kinds /\ Cut \in Kinds /\ Span \in Kinds /\ Leaf \in Kinds
  BY DEF Kinds
<1> HIDE DEF n, t, f
<1>9. \A i \in DOMAIN wire' : wire'[i].tag = "bye" => i = Len(wire') /\ ~up'
  <2>1. \A i \in DOMAIN wire : wire[i].tag # "bye"
    BY <1>1 DEF LineInv
  <2> QED
    BY <1>0, <1>3, <2>1 DEF t
<1>10. linked
  BY <1>1 DEF LineInv
<1>11. LineInv'
  BY <1>1, <1>5, <1>8, <1>9, <1>10 DEF LineInv
<1>12. Has(wire', Boot) \/ Has(due', Boot) => watch' = "none"
  BY <1>1, <1>6 DEF BootInv
<1>13. ~Has(wire, {"event"}) => ~Has(wire', {"event"})
  BY <1>0, <1>6
<1>14. \A i, j \in DOMAIN wire' : wire'[i].tag \in Boot /\ wire'[j].tag = "event" => j < i
  <2> SUFFICES ASSUME NEW i \in DOMAIN wire', NEW j \in DOMAIN wire', wire'[i].tag \in Boot, wire'[j].tag = "event"
               PROVE  j < i
    OBVIOUS
  <2>1. j \in 1..n /\ wire[j].tag = "event"
    BY <1>0, <1>3 DEF t
  <2>2. CASE i \in 1..n
    BY <1>3, <2>1, <2>2 DEF BootInv, t
  <2>3. CASE i = n + 1
    BY <1>3, <2>1, <2>3
  <2> QED
    BY <1>3, <2>2, <2>3 DEF t
<1>15. BootInv'
  BY <1>1, <1>5, <1>7, <1>8, <1>12, <1>13, <1>14 DEF BootInv
<1> QED
  BY <1>4, <1>11, <1>15

LEMMA ShutsKeeps ==
  ASSUME WindowTyped, LineInv, BootInv, UNCHANGED client, Shuts
  PROVE  Carried /\ LineInv' /\ BootInv'
<1>1. /\ up /\ ~up' /\ up' \in BOOLEAN /\ watch' = "none" /\ calls' = <<>> /\ due' = <<>>
      /\ UNCHANGED <<linked, win, queue, awaits, paging, synced>>
  BY DEF Shuts, client
<1> DEFINE t == wire'
<1>2. \E w \in Seq(Frame) : w \in {wire, <<>>} /\ t = Append(w, Bye)
  <2>1. <<Bye>> = Append(<<>>, Bye) /\ <<>> \in Seq(Frame)
    OBVIOUS
  <2> QED
    BY <2>1 DEF WindowTyped, Shuts
<1>3. PICK w \in Seq(Frame) : w \in {wire, <<>>} /\ t = Append(w, Bye)
  BY <1>2
<1> DEFINE n == Len(w)
<1>4. /\ DOMAIN w = 1..n /\ DOMAIN t = 1..(n + 1) /\ (\A i \in 1..n : t[i] = w[i]) /\ t[n + 1] = Bye
      /\ (\A i : i \in 1..(n + 1) <=> i \in 1..n \/ i = n + 1) /\ n \in Nat
      /\ Len(t) = n + 1 /\ t \in Seq(Frame)
  BY <1>3, AppendPlaces, FrameFacts
<1>5. Carried
  BY <1>1, <1>4 DEF Carried
<1>6. \A T \in Kinds : (Way(T)' => Way(T)) /\ (AtMostOne(T, calls, due, wire) => AtMostOne(T, calls, due, wire)')
  BY ShutsWay, FrameFacts
<1>8. Boot \in Kinds /\ Cut \in Kinds /\ Span \in Kinds /\ Leaf \in Kinds
  BY DEF Kinds
<1> HIDE DEF n, t
<1>w. \A i \in DOMAIN w : i \in DOMAIN wire /\ w[i] = wire[i]
  <2>1. CASE w = wire
    BY <2>1
  <2>2. CASE w = <<>>
    BY <2>2
  <2> QED
    BY <1>3, <2>1, <2>2
<1>9. \A i \in DOMAIN wire' : wire'[i].tag = "bye" => i = Len(wire') /\ ~up'
  <2>1. \A i \in DOMAIN w : w[i].tag # "bye"
    BY <1>1, <1>w DEF LineInv
  <2> QED
    BY <1>1, <1>4, <2>1 DEF t
<1>10. linked
  BY <1>1 DEF LineInv
<1>11. LineInv'
  BY <1>1, <1>6, <1>8, <1>9, <1>10 DEF LineInv
<1>14. \A i, j \in DOMAIN wire' : wire'[i].tag \in Boot /\ wire'[j].tag = "event" => j < i
  <2> SUFFICES ASSUME NEW i \in DOMAIN wire', NEW j \in DOMAIN wire', wire'[i].tag \in Boot, wire'[j].tag = "event"
               PROVE  j < i
    OBVIOUS
  <2>0. Bye.tag = "bye" /\ "bye" \notin Boot
    BY <1>8, FrameFacts
  <2>1. i \in 1..n /\ j \in 1..n /\ w[i].tag \in Boot /\ w[j].tag = "event"
    BY <1>4, <2>0 DEF t
  <2> QED
    BY <1>4, <1>w, <2>1 DEF BootInv
<1>15. BootInv'
  BY <1>1, <1>6, <1>8, <1>14 DEF BootInv
<1> QED
  BY <1>5, <1>11, <1>15

-----------------------------------------------------------------------------
(* What the host's steps leave of what is seen.                              *)

SourceTyped ==
  log' \in Seq(Tier) /\ disk' \in Nat /\ stage' \in {"cold", "setup", "live"} /\ copy' \in Nat /\ early' \in BOOLEAN

(* The log changes beyond what is in the file.                               *)
SourceStep == SourceTyped /\ SourceInv' /\ Agree(log, log', disk) /\ disk <= disk'

LEMMA TypedParts ==
  ASSUME WindowTyped
  PROVE  /\ log \in Seq(Tier) /\ Len(log) \in Nat /\ disk \in Nat
         /\ calls \in Seq(Request) /\ due \in Seq(Answer) /\ wire \in Seq(Frame) /\ queue \in Seq(Op)
         /\ win.held \in BOOLEAN /\ win.cursor \in Nat /\ win.oldest \in Nat \ {0} /\ win.more \in BOOLEAN
         /\ win.rows \in Seq(Nat)
         /\ \A f \in Coming : f \in Frame
         /\ \A r \in Elements(calls) : r \in Request
         /\ \A o \in Elements(queue) : o \in Op
<1>1. /\ log \in Seq(Tier) /\ disk \in Nat /\ win \in Win
      /\ calls \in Seq(Request) /\ due \in Seq(Answer) /\ wire \in Seq(Frame) /\ queue \in Seq(Op)
  BY DEF WindowTyped
<1>2. Len(log) \in Nat
  BY <1>1
<1>3. /\ \A i \in DOMAIN due : due[i] \in Answer
      /\ \A i \in DOMAIN wire : wire[i] \in Frame
      /\ \A i \in DOMAIN calls : calls[i] \in Request
      /\ \A i \in DOMAIN queue : queue[i] \in Op
  <2>1. \A S, s : s \in Seq(S) => \A i \in DOMAIN s : s[i] \in S
    OBVIOUS
  <2> QED
    BY <1>1, <2>1
<1>4. \A f \in Coming : f \in Frame
  BY <1>3, FrameFacts DEF Coming, Elements
<1> QED
  BY <1>1, <1>2, <1>3, <1>4 DEF Win, Elements

(* What a frame of each kind is made of.                                     *)
LEMMA FrameParts ==
  ASSUME NEW f \in Frame
  PROVE  /\ f.tag = "cut" => f.cursor \in Nat /\ f.page \in PageOf
         /\ f.tag = "page" => f.page \in PageOf
         /\ f.tag = "range" => f.rows \in Seq(Nat)
         /\ f.tag = "event" => f.seq \in Nat \ {0} /\ f.tier \in Tier
         /\ \A p \in PageOf : p.rows \in Seq(Nat) /\ p.from \in Nat \ {0} /\ p.more \in BOOLEAN
  BY DEF Frame, Answer, PageOf

LEMMA OpParts ==
  ASSUME NEW o \in Op
  PROVE  o.tag \in {"attach", "apply", "noted"} /\ (o.tag # "attach" => o.seq \in Nat \ {0})
  BY DEF Op

LEMMA RequestParts ==
  ASSUME NEW r \in Request
  PROVE  /\ r.tag \in {"attach", "detach", "events", "page"}
         /\ r.tag = "events" => r.from \in Nat /\ r.to \in Nat
         /\ r.tag = "page" => r.through \in Nat /\ r.before \in Nat \ {0}
  BY DEF Request

(* A frame that comes is on its way.                                         *)
LEMMA ComingIsOnItsWay ==
  ASSUME NEW f \in Coming, NEW T, f.tag \in T
  PROVE  Way(T)
  BY HasElements DEF Coming, Way, OnItsWay

LEMMA CuttingIs ==
  Cutting <=> \E f \in Coming : f.tag = "cut"
  BY HasElements DEF Coming, Cutting

(* The operation a repair runs for.                                          *)
LEMMA HeadOfRepair ==
  ASSUME WindowTyped, LineInv, awaits = "range"
  PROVE  /\ queue # <<>> /\ Head(queue) = queue[1] /\ 1 \in DOMAIN queue
         /\ Head(queue).tag = "apply" /\ Head(queue).seq \in Nat \ {0} /\ Head(queue).seq - 1 \in Nat
         /\ Has(queue, {"apply"}) /\ Has(queue, Ops)
<1>1. queue # <<>> /\ Head(queue).tag = "apply" /\ queue \in Seq(Op)
  BY DEF LineInv, WindowTyped
<1>2. Head(queue) = queue[1] /\ 1 \in DOMAIN queue /\ Head(queue) \in Op
  BY <1>1, TailPlaces
<1>3. Head(queue).seq \in Nat \ {0}
  BY <1>1, <1>2, OpParts
<1>4. Head(queue).seq - 1 \in Nat
  BY <1>3
<1>5. Has(queue, {"apply"}) /\ Has(queue, Ops)
  BY <1>1, <1>2 DEF Has, Ops
<1> QED
  BY <1>1, <1>2, <1>3, <1>4, <1>5

LEMMA HostKeepsData ==
  ASSUME WindowTyped, SourceInv, LineInv, DataInv, UNCHANGED client, SourceStep, Carried,
         gaps' = {} => gaps = {},
         \A f \in Coming' : f \in Coming \/ f.tag \in {"event", "bye"},
         Elements(calls') \subseteq Elements(calls),
         gaps' = {} => \A i \in DOMAIN wire' : wire'[i].tag = "event" => wire'[i].seq \in 1..disk'
  PROVE  /\ WindowTyped' /\ ReachInv' /\ WholeInv' /\ CutInv'
         /\ \A b : Base(b)' => Base(b)
         /\ gaps' = {} => \A b \in Nat : Base(b)' => Based(b, log', queue, wire)
<1>1. UNCHANGED <<linked, win, queue, awaits, paging, synced>>
  BY DEF client
<1>2. log \in Seq(Tier) /\ log' \in Seq(Tier) /\ disk \in Nat /\ disk' \in Nat /\ Agree(log, log', disk) /\ disk <= disk'
  BY DEF WindowTyped, SourceStep, SourceTyped
<1>3. WindowTyped'
  BY <1>1 DEF WindowTyped, SourceStep, SourceTyped, Carried
<1>4. \A low, high \in Nat : high <= disk => Stretch(log', low, high) = Stretch(log, low, high)
  BY <1>2, StretchAgrees
<1>5. /\ win.cursor \in Nat /\ win.oldest \in Nat \ {0} /\ win.oldest - 1 \in Nat /\ win.cursor + 1 \in Nat
      /\ \A f \in Coming : f \in Frame
  BY TypedParts
<1>6. ReachInv'
  <2> SUFFICES ASSUME gaps' = {}
               PROVE  /\ win'.cursor <= disk'
                      /\ \A i \in DOMAIN wire' : wire'[i].tag = "event" => wire'[i].seq \in 1..disk'
                      /\ \A i \in DOMAIN queue' : queue'[i].tag \in Ops => queue'[i].seq \in 1..disk'
                      /\ \A f \in Coming' : f.tag = "range" => \A s \in Elements(f.rows) : s <= disk'
    BY DEF ReachInv
  <2>1. /\ win.cursor <= disk
        /\ \A i \in DOMAIN queue : queue[i].tag \in Ops => queue[i].seq \in 1..disk
        /\ \A f \in Coming : f.tag = "range" => \A s \in Elements(f.rows) : s <= disk
    BY DEF DataInv, ReachInv
  <2>2. win'.cursor <= disk' /\ \A i \in DOMAIN queue' : queue'[i].tag \in Ops => queue'[i].seq \in 1..disk'
    BY <1>1, <1>2, <1>5, <2>1
  <2>3. ASSUME NEW f \in Coming', f.tag = "range", NEW s \in Elements(f.rows) PROVE s <= disk'
    <3>1. f \in Coming /\ s <= disk
      BY <2>1, <2>3
    <3>2. f.rows \in Seq(Nat)
      BY <1>5, <2>3, <3>1, FrameParts
    <3>3. s \in Nat
      BY <3>2 DEF Elements
    <3> QED
      BY <1>2, <3>1, <3>3
  <2> QED
    BY <2>2, <2>3
<1>7. CutInv'
  <2> SUFFICES ASSUME gaps' = {}, NEW f \in Coming', f.tag = "cut"
               PROVE  /\ f.cursor \in 2..disk' /\ win.cursor <= f.cursor
                      /\ f.page.from <= f.cursor /\ f.page.rows = InOrder(Stretch(log', f.page.from, f.cursor))
    BY <1>1 DEF CutInv, CutOk, Piece
  <2>1. f \in Coming /\ CutOk(f)
    BY DEF DataInv, CutInv
  <2>2. f.page.from \in Nat /\ f.cursor \in Nat
    BY <1>5, <2>1, FrameParts
  <2> QED
    BY <1>2, <1>4, <2>1, <2>2 DEF CutOk, Piece
<1>8. WholeInv'
  <2> SUFFICES ASSUME gaps' = {}, synced
               PROVE  /\ win.held /\ win.oldest <= win.cursor
                      /\ win.rows = InOrder(Stretch(log', win.oldest, win.cursor))
                      /\ \A f \in Coming' : PageOk(f)' /\ SpanOk(f)'
                      /\ \A r \in Elements(calls') : PageAsked(r)' /\ SpanAsked(r)'
                      /\ awaits = "range" => win.cursor + 1 < Head(queue).seq
    BY <1>1 DEF WholeInv, Piece
  <2>1. /\ win.held /\ win.oldest <= win.cursor /\ win.rows = InOrder(Stretch(log, win.oldest, win.cursor))
        /\ \A f \in Coming : PageOk(f) /\ SpanOk(f)
        /\ \A r \in Elements(calls) : PageAsked(r) /\ SpanAsked(r)
        /\ awaits = "range" => win.cursor + 1 < Head(queue).seq
    BY DEF DataInv, WholeInv, Piece
  <2>2. win.cursor <= disk
    BY DEF DataInv, ReachInv
  <2>3. win.rows = InOrder(Stretch(log', win.oldest, win.cursor))
    BY <1>4, <1>5, <2>1, <2>2
  <2>4. ASSUME NEW f \in Coming' PROVE PageOk(f)' /\ SpanOk(f)'
    <3>1. CASE f.tag = "page"
      <4>1. f \in Coming /\ PageOk(f)
        BY <2>1, <2>4, <3>1
      <4>2. f.page.from \in Nat
        BY <1>5, <3>1, <4>1, FrameParts
      <4>3. win.oldest - 1 <= disk
        BY <1>2, <1>5, <2>1, <2>2
      <4>4. Stretch(log', f.page.from, win.oldest - 1) = Stretch(log, f.page.from, win.oldest - 1)
        BY <1>4, <1>5, <4>2, <4>3
      <4> QED
        BY <1>1, <3>1, <4>1, <4>4 DEF PageOk, SpanOk, Piece
    <3>2. CASE f.tag = "range"
      <4>1. f \in Coming /\ SpanOk(f)
        BY <2>1, <2>4, <3>2
      <4>2. awaits = "range"
        <5>1. Way(Span)
          BY <3>2, <4>1, ComingIsOnItsWay DEF Span
        <5> QED
          BY <5>1 DEF LineInv
      <4>3. 1 \in DOMAIN queue /\ Head(queue) = queue[1] /\ Head(queue).tag = "apply" /\ Head(queue).seq - 1 \in Nat
        BY <4>2, HeadOfRepair
      <4>4. Head(queue).seq \in 1..disk
        BY <4>3 DEF DataInv, ReachInv, Ops
      <4>5. Head(queue).seq - 1 <= disk
        BY <1>2, <4>4
      <4>6. Stretch(log', win.cursor + 1, Head(queue).seq - 1) = Stretch(log, win.cursor + 1, Head(queue).seq - 1)
        BY <1>4, <1>5, <4>3, <4>5
      <4> QED
        BY <1>1, <3>2, <4>1, <4>6 DEF PageOk, SpanOk
    <3>3. CASE f.tag \notin {"page", "range"}
      BY <3>3 DEF PageOk, SpanOk
    <3> QED
      BY <3>1, <3>2, <3>3
  <2>5. \A r \in Elements(calls') : PageAsked(r)' /\ SpanAsked(r)'
    BY <1>1, <2>1 DEF PageAsked, SpanAsked
  <2> QED
    BY <2>1, <2>3, <2>4, <2>5
<1>9. \A b : Base(b)' => Base(b)
  BY <1>1 DEF Base
<1>10. ASSUME gaps' = {}, NEW b \in Nat, Base(b)' PROVE Based(b, log', queue, wire)
  <2>1. Based(b, log, queue, wire)
    BY <1>9, <1>10 DEF DataInv, PendingInv
  <2>2. /\ \A i \in DOMAIN queue : queue[i].tag \in {"apply", "noted"} => queue[i].seq \in 1..disk
        /\ \A i \in DOMAIN wire : wire[i].tag = "event" => wire[i].seq \in 1..disk
    BY <1>10 DEF DataInv, ReachInv, Ops
  <2> QED
    BY <1>2, <2>1, <2>2, BasedAgrees
<1> QED
  BY <1>3, <1>6, <1>7, <1>8, <1>9, <1>10

LEMMA BaseIs ==
  ASSUME NEW b, Base(b)
  PROVE  synced \/ Cutting
  BY CuttingIs DEF Base

LEMMA SilentStep ==
  ASSUME WindowInv, SourceStep, UNCHANGED client, Silent, gaps' = {} => gaps = {}, SettledInv',
         gaps' = {} /\ up /\ (synced \/ Cutting) => \A f \in Facts(log') : f \in Facts(log)
  PROVE  WindowInv'
<1>1. UNCHANGED <<linked, win, queue, awaits, paging, synced, up, watch, calls, due, wire>>
  BY DEF client, Silent
<1>2. Carried /\ LineInv' /\ BootInv'
  BY SilentKeeps DEF WindowInv
<1>3. Coming' = Coming /\ Elements(calls') = Elements(calls)
  BY <1>1 DEF Coming
<1>4. gaps' = {} => \A i \in DOMAIN wire' : wire'[i].tag = "event" => wire'[i].seq \in 1..disk'
  BY <1>1 DEF WindowInv, WindowTyped, DataInv, ReachInv, SourceStep, SourceTyped
<1>5. /\ WindowTyped' /\ ReachInv' /\ WholeInv' /\ CutInv'
      /\ \A b : Base(b)' => Base(b)
      /\ gaps' = {} => \A b \in Nat : Base(b)' => Based(b, log', queue, wire)
  BY <1>2, <1>3, <1>4, HostKeepsData DEF WindowInv
<1>6. PendingInv'
  <2> SUFFICES ASSUME gaps' = {}, NEW b \in Nat, Base(b)'
               PROVE  Based(b, log', queue, wire) /\ (up => Complete(b, log', queue, wire))
    BY <1>1 DEF PendingInv
  <2>1. Base(b) /\ Based(b, log', queue, wire) /\ (synced \/ Cutting)
    BY <1>5, BaseIs
  <2>2. up => Complete(b, log, queue, wire)
    BY <2>1 DEF WindowInv, DataInv, PendingInv
  <2> QED
    BY <2>1, <2>2 DEF Complete
<1>7. TokenInv'
  BY <1>1 DEF WindowInv, DataInv, TokenInv, Way
<1> QED
  BY <1>2, <1>5, <1>6, <1>7 DEF WindowInv, DataInv, SourceStep

LEMMA ShutsStep ==
  ASSUME WindowInv, SourceStep, UNCHANGED client, Shuts, gaps' = {} => gaps = {}
  PROVE  WindowInv'
<1>1. UNCHANGED <<linked, win, queue, awaits, paging, synced>> /\ ~up'
  BY DEF client, Shuts
<1>2. Carried /\ LineInv' /\ BootInv'
  BY ShutsKeeps DEF WindowInv
<1>3. calls' = <<>> /\ due' = <<>> /\ (wire' = Append(wire, Bye) \/ wire' = Append(<<>>, Bye))
  BY DEF Shuts
<1>0. wire \in Seq(Frame) /\ <<>> \in Seq(Frame) /\ Bye \in Frame /\ Bye.tag = "bye"
  BY FrameFacts DEF WindowInv, WindowTyped
<1>4. Elements(wire') \subseteq Elements(wire) \cup {Bye}
  <2>1. Elements(Append(wire, Bye)) = Elements(wire) \cup {Bye}
    BY <1>0, AppendElements
  <2>2. Elements(Append(<<>>, Bye)) = Elements(<<>>) \cup {Bye}
    BY <1>0, AppendElements
  <2>3. Elements(<<>>) = {}
    BY EmptyHas
  <2> QED
    BY <1>3, <2>1, <2>2, <2>3
<1>5. Elements(calls') = {} /\ Elements(due') = {}
  BY <1>3, EmptyHas
<1>6. \A f \in Coming' : f \in Coming \/ f = Bye
  BY <1>4, <1>5 DEF Coming
<1>7. gaps' = {} => \A i \in DOMAIN wire' : wire'[i].tag = "event" => wire'[i].seq \in 1..disk'
  <2> SUFFICES ASSUME gaps' = {}, NEW i \in DOMAIN wire', wire'[i].tag = "event" PROVE wire'[i].seq \in 1..disk'
    OBVIOUS
  <2>1. wire'[i] \in Elements(wire) \/ wire'[i] = Bye
    BY <1>4 DEF Elements
  <2>2. wire'[i] \in Elements(wire)
    BY <1>0, <2>1
  <2>3. wire'[i].seq \in 1..disk
    BY <2>2 DEF Elements, WindowInv, DataInv, ReachInv
  <2> QED
    BY <2>3 DEF WindowInv, WindowTyped, SourceStep, SourceTyped
<1>8. /\ WindowTyped' /\ ReachInv' /\ WholeInv' /\ CutInv'
      /\ \A b : Base(b)' => Base(b)
      /\ gaps' = {} => \A b \in Nat : Base(b)' => Based(b, log', queue, wire)
  BY <1>0, <1>2, <1>5, <1>6, <1>7, HostKeepsData DEF WindowInv
<1>9. PendingInv'
  <2> SUFFICES ASSUME gaps' = {}, NEW b \in Nat, Base(b)' PROVE Based(b, log', queue, wire')
    BY <1>1 DEF PendingInv
  <2>1. Based(b, log', queue, wire)
    BY <1>8
  <2>2. CASE wire' = Append(wire, Bye)
    BY <1>0, <2>1, <2>2, BasedSends
  <2>3. CASE wire' = Append(<<>>, Bye)
    <3>1. Based(b, log', queue, <<>>)
      BY <2>1 DEF Based
    <3> QED
      BY <1>0, <2>3, <3>1, BasedSends
  <2> QED
    BY <1>3, <2>2, <2>3
<1>10. TokenInv' /\ SettledInv'
  BY <1>1 DEF TokenInv, SettledInv
<1> QED
  BY <1>2, <1>8, <1>9, <1>10 DEF WindowInv, DataInv, SourceStep

LEMMA SpeaksStep ==
  ASSUME WindowInv, SourceStep, UNCHANGED client, NEW f \in Frame, f.tag = "event", watch # "none", Speaks(f),
         gaps' = {} => /\ gaps = {} /\ stage' # "setup" /\ ~early'
                       /\ log' = Append(log, f.tier) /\ f.seq = Len(log) + 1 /\ f.seq <= disk'
  PROVE  WindowInv'
<1>1. UNCHANGED <<linked, win, queue, awaits, paging, synced, up, watch, calls, due>> /\ up /\ wire' = Append(wire, f)
  BY DEF client, Speaks
<1>2. Carried /\ LineInv' /\ BootInv'
  BY SpeaksKeeps DEF WindowInv
<1>0. wire \in Seq(Frame) /\ log \in Seq(Tier) /\ disk \in Nat /\ disk' \in Nat /\ f.seq \in Nat \ {0} /\ f.tier \in Tier
  BY FrameParts DEF WindowInv, WindowTyped, SourceStep, SourceTyped
<1>4. Elements(wire') = Elements(wire) \cup {f}
  BY <1>0, <1>1, AppendElements
<1>6. \A g \in Coming' : g \in Coming \/ g = f
  BY <1>1, <1>4 DEF Coming
<1>7. gaps' = {} => \A i \in DOMAIN wire' : wire'[i].tag = "event" => wire'[i].seq \in 1..disk'
  <2> SUFFICES ASSUME gaps' = {}, NEW i \in DOMAIN wire', wire'[i].tag = "event" PROVE wire'[i].seq \in 1..disk'
    OBVIOUS
  <2>1. wire'[i] \in Elements(wire) \/ wire'[i] = f
    BY <1>4 DEF Elements
  <2>2. CASE wire'[i] \in Elements(wire)
    <3>3. wire'[i].seq \in 1..disk
      BY <2>2 DEF Elements, WindowInv, DataInv, ReachInv
    <3> QED
      BY <3>3, <1>0 DEF SourceStep
  <2>3. CASE wire'[i] = f
    BY <1>0, <2>3
  <2> QED
    BY <2>1, <2>2, <2>3
<1>8. /\ WindowTyped' /\ ReachInv' /\ WholeInv' /\ CutInv'
      /\ \A b : Base(b)' => Base(b)
      /\ gaps' = {} => \A b \in Nat : Base(b)' => Based(b, log', queue, wire)
  BY <1>1, <1>2, <1>6, <1>7, HostKeepsData DEF WindowInv
<1>9. PendingInv'
  <2> SUFFICES ASSUME gaps' = {}, NEW b \in Nat, Base(b)'
               PROVE  Based(b, log', queue, wire') /\ Complete(b, log', queue, wire')
    BY <1>1 DEF PendingInv
  <2>1. Base(b) /\ Based(b, log', queue, wire)
    BY <1>8
  <2>2. Complete(b, log, queue, wire)
    BY <1>1, <2>1 DEF WindowInv, DataInv, PendingInv
  <2>3. /\ log' = Append(log, f.tier) /\ f.seq = Len(log) + 1
        /\ Len(log') = Len(log) + 1 /\ log'[Len(log) + 1] = f.tier /\ Len(log) \in Nat
        /\ \A s \in Facts(log') : s \in Facts(log) \/ (s = Len(log) + 1 /\ f.tier = "fact")
    BY <1>0, LogGrows
  <2>4. f.seq \in 1..Len(log') /\ f.tier = log'[f.seq]
    BY <2>3
  <2>5. f.tier = "trace" => Complete(b, log', queue, wire)
    BY <2>2, <2>3 DEF Complete
  <2>6. \A s \in Facts(log') : s <= b \/ Applies(queue, s) \/ Carries(wire, s) \/ (f.tag = "event" /\ f.seq = s)
    BY <2>2, <2>3 DEF Complete
  <2> QED
    BY <1>0, <1>1, <2>1, <2>4, <2>5, <2>6, BasedSends
<1>10. SettledInv'
  BY DEF SettledInv
<1>11. TokenInv'
  <2>1. Way(Boot)' <=> Way(Boot)
    BY SpeaksWay, FrameFacts DEF WindowInv
  <2> QED
    BY <1>1, <2>1 DEF WindowInv, DataInv, TokenInv
<1> QED
  BY <1>2, <1>8, <1>9, <1>10, <1>11 DEF WindowInv, DataInv, SourceStep

LEMMA RepliesStep ==
  ASSUME WindowInv, UNCHANGED <<source, gaps, client>>, Replies
  PROVE  WindowInv'
<1>1. /\ UNCHANGED <<linked, win, queue, awaits, paging, synced, up, watch, calls, log, disk, stage, copy, early, gaps>>
      /\ up /\ wire' = Append(wire, Head(due)) /\ due' = Tail(due) /\ due # <<>>
  BY DEF client, source, Replies
<1>2. Carried /\ LineInv' /\ BootInv'
  BY RepliesKeeps DEF WindowInv, client
<1>0. wire \in Seq(Frame) /\ due \in Seq(Answer) /\ log \in Seq(Tier) /\ disk \in Nat
  BY DEF WindowInv, WindowTyped
<1> DEFINE f == Head(due)
<1>3. f \in Answer /\ f \in Frame /\ f.tag \notin {"event", "bye"}
  BY <1>0, <1>1, TailPlaces, FrameFacts DEF Answer
<1>s. SourceStep
  <2>1. Agree(log, log', disk)
    BY <1>0, <1>1 DEF Agree, WindowInv, SourceInv
  <2>2. SourceInv'
    BY <1>1 DEF WindowInv, SourceInv
  <2> QED
    BY <1>0, <1>1, <2>1, <2>2 DEF SourceStep, SourceTyped, WindowInv, WindowTyped
<1> HIDE DEF f
<1>4. Elements(wire') = Elements(wire) \cup {f} /\ Elements(due) = Elements(due') \cup {f}
  BY <1>0, <1>1, <1>3, AppendElements, TailElements DEF f
<1>6. Coming' = Coming
  BY <1>4 DEF Coming
<1>7. gaps' = {} => \A i \in DOMAIN wire' : wire'[i].tag = "event" => wire'[i].seq \in 1..disk'
  <2> SUFFICES ASSUME gaps' = {}, NEW i \in DOMAIN wire', wire'[i].tag = "event" PROVE wire'[i].seq \in 1..disk'
    OBVIOUS
  <2>1. wire'[i] \in Elements(wire)
    BY <1>3, <1>4 DEF Elements
  <2>3. wire'[i].seq \in 1..disk
    BY <1>1, <2>1 DEF Elements, WindowInv, DataInv, ReachInv
  <2> QED
    BY <1>1, <2>3
<1>8. /\ WindowTyped' /\ ReachInv' /\ WholeInv' /\ CutInv'
      /\ \A b : Base(b)' => Base(b)
      /\ gaps' = {} => \A b \in Nat : Base(b)' => Based(b, log', queue, wire)
  BY <1>1, <1>2, <1>6, <1>7, <1>s, HostKeepsData DEF WindowInv, client
<1>9. PendingInv'
  <2> SUFFICES ASSUME gaps = {}, NEW b \in Nat, Base(b)'
               PROVE  Based(b, log, queue, wire') /\ Complete(b, log, queue, wire')
    BY <1>1 DEF PendingInv
  <2>1. Based(b, log, queue, wire) /\ Base(b)
    BY <1>1, <1>8
  <2>2. Complete(b, log, queue, wire)
    BY <1>1, <2>1 DEF WindowInv, DataInv, PendingInv
  <2>3. wire' = Append(wire, f)
    BY <1>1 DEF f
  <2>4. \A s \in Facts(log) : s <= b \/ Applies(queue, s) \/ Carries(wire, s) \/ (f.tag = "event" /\ f.seq = s)
    BY <2>2 DEF Complete
  <2> QED
    BY <1>0, <1>3, <2>1, <2>3, <2>4, BasedSends
<1>w. \A T : Has(wire', T) <=> Has(wire, T) \/ f.tag \in T
  BY <1>0, <1>1, <1>3, AppendHas DEF f
<1>10. SettledInv'
  <2>1. Cutting' <=> Cutting
    <3>1. Cutting' <=> \E g \in Coming' : g.tag \in {"cut"}
      BY HasElements DEF Cutting, Coming
    <3>2. Cutting <=> \E g \in Coming : g.tag \in {"cut"}
      BY HasElements DEF Cutting, Coming
    <3> QED
      BY <1>6, <3>1, <3>2
  <2>2. ~Has(wire, {"event"}) => ~Has(wire', {"event"})
    BY <1>3, <1>w
  <2> QED
    BY <1>1, <2>1, <2>2 DEF WindowInv, DataInv, SettledInv
<1>11. TokenInv'
  <2>1. Way(Boot)' <=> Way(Boot)
    BY RepliesWay DEF WindowInv
  <2> QED
    BY <1>1, <2>1 DEF WindowInv, DataInv, TokenInv
<1> QED
  BY <1>2, <1>8, <1>9, <1>10, <1>11, <1>s DEF WindowInv, DataInv, SourceStep

-----------------------------------------------------------------------------
(* The session's own steps.                                                  *)

LEMMA LimitFacts ==
  /\ MaxLog \in Nat /\ None \in Nat /\ None = MaxLog + 1 /\ MaxLog >= 2
  /\ PageSize \in Nat \ {0} /\ RepairLimit \in Nat \ {0}
  BY LimitsAreNat DEF None

LEMMA SourceFacts ==
  ASSUME WindowInv
  PROVE  /\ log \in Seq(Tier) /\ Len(log) \in Nat /\ disk \in Nat /\ copy \in Nat /\ early \in BOOLEAN
         /\ stage \in {"cold", "setup", "live"}
         /\ 2 <= disk /\ disk <= Len(log) /\ Len(log) <= MaxLog /\ log[1] = "fact"
         /\ stage # "setup" => disk = Len(log)
         /\ copy # None => copy \in 2..disk /\ (~early => copy = disk /\ stage # "setup")
<1>1. log \in Seq(Tier) /\ disk \in Nat /\ copy \in Nat /\ early \in BOOLEAN /\ stage \in {"cold", "setup", "live"}
  BY DEF WindowInv, WindowTyped
<1>2. Len(log) \in Nat
  BY <1>1
<1> QED
  BY <1>1, <1>2 DEF WindowInv, SourceInv

(* What a broadcast does to the carrier.                                     *)
LEMMA BroadcastCases ==
  ASSUME WindowInv, NEW seq \in Nat \ {0}, NEW tier \in Tier, Broadcast(seq, tier), UNCHANGED client
  PROVE  LET f == [tag |-> "event", seq |-> seq, tier |-> tier]
         IN /\ copy' = None /\ early' = FALSE /\ f \in Frame /\ f.tag = "event"
            /\ \/ ~(up /\ watch # "none") /\ Silent
               \/ up /\ watch # "none" /\ tier = "trace" /\ Silent
               \/ up /\ watch # "none" /\ Shuts
               \/ watch # "none" /\ Speaks(f)
<1> DEFINE f == [tag |-> "event", seq |-> seq, tier |-> tier]
<1>1. copy' = None /\ early' = FALSE /\ f \in Frame /\ f.tag = "event" /\ due' = (IF up' THEN due ELSE <<>>)
  BY FrameFacts DEF Broadcast
<1>2. CASE ~(up /\ watch # "none")
  <2>1. UNCHANGED <<up, watch, calls, wire>>
    BY <1>2 DEF Broadcast
  <2>2. ~up => due = <<>>
    BY DEF WindowInv, LineInv
  <2> QED
    BY <1>1, <1>2, <2>1, <2>2 DEF Silent
<1>3. CASE up /\ watch # "none"
  <2>1. Send(f, tier = "trace") /\ (tier = "trace") \in BOOLEAN
    BY <1>3 DEF Broadcast
  <2>2. CASE tier = "trace" /\ UNCHANGED <<up, watch, calls, wire>>
    BY <1>1, <1>3, <2>2 DEF Silent
  <2>3. CASE up' = FALSE /\ watch' = "none" /\ calls' = <<>> /\ wire' = Append(wire, Bye)
    BY <1>1, <1>3, <2>3 DEF Shuts
  <2>4. CASE UNCHANGED <<up, watch, calls>> /\ wire' = Append(wire, f)
    BY <1>1, <1>3, <2>4 DEF Speaks
  <2> HIDE DEF f
  <2> QED
    BY <2>1, <2>2, <2>3, <2>4, SendCases
<1> QED
  BY <1>1, <1>2, <1>3

LEMMA EmitKeeps ==
  ASSUME WindowInv, NEW tier \in Tier, Emit(tier)
  PROVE  WindowInv'
<1>1. /\ stage = "live" /\ Len(log) < MaxLog /\ log' = Append(log, tier) /\ disk' = disk + 1
      /\ Broadcast(disk + 1, tier) /\ stage' = "live" /\ UNCHANGED client /\ gaps' = gaps
  BY DEF Emit
<1>2. /\ log \in Seq(Tier) /\ Len(log) \in Nat /\ disk \in Nat /\ disk = Len(log) /\ 2 <= disk /\ log[1] = "fact"
  BY <1>1, SourceFacts
<1>3. /\ log' \in Seq(Tier) /\ Len(log') = Len(log) + 1 /\ Agree(log, log', Len(log))
      /\ \A f \in Facts(log') : f \in Facts(log) \/ (f = Len(log) + 1 /\ tier = "fact")
  BY <1>1, <1>2, LogGrows
<1> DEFINE f == [tag |-> "event", seq |-> disk + 1, tier |-> tier]
<1>4. disk + 1 \in Nat \ {0}
  BY <1>2
<1>5. /\ copy' = None /\ early' = FALSE /\ f \in Frame /\ f.tag = "event"
      /\ \/ ~(up /\ watch # "none") /\ Silent
         \/ up /\ watch # "none" /\ tier = "trace" /\ Silent
         \/ up /\ watch # "none" /\ Shuts
         \/ watch # "none" /\ Speaks(f)
  BY <1>1, <1>4, BroadcastCases
<1>6. SourceStep
  <2>0. copy' = None /\ early' = FALSE /\ disk' \in Nat
    BY <1>1, <1>2, <1>5
  <2>1. SourceTyped
    BY <1>1, <1>3, <2>0, LimitFacts DEF SourceTyped
  <2>2. log'[1] = "fact"
    BY <1>2, <1>3 DEF Agree
  <2>3. SourceInv'
    BY <1>1, <1>2, <1>3, <1>5, <2>2, LimitFacts DEF SourceInv
  <2> QED
    BY <1>1, <1>2, <1>3, <2>1, <2>3 DEF SourceStep
<1>7. SettledInv'
  BY <1>1, <1>5 DEF SettledInv
<1>8. up /\ (synced \/ Cutting) => watch = "named"
  BY DEF WindowInv, BootInv
<1>9. CASE ~(up /\ watch # "none") /\ Silent
  BY <1>1, <1>6, <1>7, <1>8, <1>9, SilentStep
<1>10. CASE tier = "trace" /\ Silent
  BY <1>1, <1>3, <1>6, <1>7, <1>10, SilentStep
<1>11. CASE Shuts
  BY <1>1, <1>6, <1>11, ShutsStep
<1>12. CASE watch # "none" /\ Speaks(f)
  <2>1. f.tier = tier /\ f.seq = Len(log) + 1 /\ f.seq <= disk'
    BY <1>1, <1>2
  <2> HIDE DEF f
  <2> QED
    BY <1>1, <1>5, <1>6, <1>12, <2>1, SpeaksStep
<1> QED
  BY <1>5, <1>9, <1>10, <1>11, <1>12

LEMMA ResumeKeeps ==
  ASSUME WindowInv, NEW closers \in 0..1, Resume(closers)
  PROVE  WindowInv'
<1> DEFINE more == [i \in 1..closers + 1 |-> "fact"]
<1>1. /\ stage = "cold" /\ disk + closers < MaxLog /\ log' = log \o more /\ stage' = "setup"
      /\ Broadcast(Len(log'), "fact") /\ disk' = disk /\ UNCHANGED client
      /\ gaps' = IF up /\ watch # "none" THEN gaps \cup {"unpublished"} ELSE gaps
  BY DEF Resume
<1>2. /\ log \in Seq(Tier) /\ Len(log) \in Nat /\ disk \in Nat /\ disk = Len(log) /\ 2 <= disk /\ log[1] = "fact"
  BY <1>1, SourceFacts
<1>3. more \in Seq(Tier) /\ Len(more) = closers + 1
  <2>1. more \in [1..(closers + 1) -> Tier]
    BY DEF Tier
  <2>2. closers + 1 \in Nat
    OBVIOUS
  <2> HIDE DEF more
  <2> QED
    BY <2>1, <2>2, SeqDef
<1> HIDE DEF more
<1>4. log' \in Seq(Tier) /\ Len(log') = disk + (closers + 1) /\ \A i \in 1..disk : log'[i] = log[i]
  <2>1. /\ log \o more \in Seq(Tier) /\ Len(log \o more) = Len(log) + Len(more)
        /\ \A i \in 1..(Len(log) + Len(more)) : (log \o more)[i] = IF i <= Len(log) THEN log[i] ELSE more[i - Len(log)]
    BY <1>2, <1>3, ConcatProperties
  <2> QED
    BY <1>1, <1>2, <1>3, <2>1
<1> DEFINE f == [tag |-> "event", seq |-> Len(log'), tier |-> "fact"]
<1>5. Len(log') \in Nat \ {0} /\ "fact" \in Tier
  BY <1>2, <1>4 DEF Tier
<1>6. /\ copy' = None /\ early' = FALSE /\ f \in Frame /\ f.tag = "event"
      /\ \/ ~(up /\ watch # "none") /\ Silent
         \/ up /\ watch # "none" /\ "fact" = "trace" /\ Silent
         \/ up /\ watch # "none" /\ Shuts
         \/ watch # "none" /\ Speaks(f)
  BY <1>1, <1>5, BroadcastCases
<1>7. SourceStep
  <2>1. SourceTyped
    BY <1>1, <1>2, <1>4, <1>6, LimitFacts DEF SourceTyped
  <2>2. log'[1] = "fact"
    BY <1>2, <1>4
  <2>3. Len(log') <= MaxLog /\ disk <= Len(log')
    BY <1>1, <1>2, <1>4, LimitFacts
  <2>4. SourceInv'
    BY <1>1, <1>2, <1>6, <2>2, <2>3 DEF SourceInv
  <2>5. Agree(log, log', disk)
    BY <1>2, <1>4, <2>3 DEF Agree
  <2> QED
    BY <1>1, <1>2, <2>1, <2>4, <2>5 DEF SourceStep
<1>8. up /\ (synced \/ Cutting) => watch = "named"
  BY DEF WindowInv, BootInv
<1>9. CASE ~(up /\ watch # "none") /\ Silent
  <2>1. ~(up' /\ (synced' \/ Cutting'))
    <3>1. up' = up /\ synced' = synced /\ due' = due /\ wire' = wire
      BY <1>1, <1>9 DEF Silent, client
    <3> QED
      BY <1>8, <1>9, <3>1 DEF Cutting
  <2>2. SettledInv'
    BY <2>1 DEF SettledInv
  <2> QED
    BY <1>1, <1>7, <1>8, <1>9, <2>2, SilentStep
<1>11. CASE Shuts
  <2>1. gaps' = {} => gaps = {}
    BY <1>1
  <2> QED
    BY <1>1, <1>7, <1>11, <2>1, ShutsStep
<1>12. CASE watch # "none" /\ Speaks(f)
  <2>1. gaps' # {}
    BY <1>1, <1>12 DEF Speaks
  <2> HIDE DEF f
  <2> QED
    BY <1>1, <1>6, <1>7, <1>12, <2>1, SpeaksStep
<1> QED
  BY <1>6, <1>9, <1>11, <1>12

LEMMA PublishKeeps ==
  ASSUME WindowInv, Publish
  PROVE  WindowInv'
<1>1. stage = "setup" /\ stage' = "live" /\ disk' = Len(log) /\ UNCHANGED <<log, copy, early, carrier, client, gaps>>
  BY DEF Publish
<1>2. UNCHANGED client /\ Silent /\ UNCHANGED <<log, copy, early, gaps, synced>>
  BY <1>1 DEF carrier, client, Silent
<1>3. SourceStep
  <2>1. SourceInv' /\ SourceTyped
    BY <1>1, <1>2, SourceFacts DEF SourceInv, SourceTyped
  <2>2. Agree(log, log', disk) /\ disk <= disk'
    BY <1>1, <1>2, SourceFacts DEF Agree
  <2> QED
    BY <2>1, <2>2 DEF SourceStep
<1>4. SettledInv'
  <2>1. Cutting' <=> Cutting
    BY <1>2, SilentWay
  <2> QED
    BY <1>1, <1>2, <2>1 DEF SettledInv, WindowInv, DataInv, Silent
<1> QED
  BY <1>2, <1>3, <1>4, SilentStep

LEMMA RefuseKeeps ==
  ASSUME WindowInv, Refuse
  PROVE  WindowInv'
<1>1. /\ stage = "setup" /\ stage' = "cold" /\ log' = SubSeq(log, 1, disk)
      /\ UNCHANGED <<disk, copy, early, carrier, client, gaps>>
  BY DEF Refuse
<1>2. UNCHANGED client /\ Silent /\ UNCHANGED <<disk, copy, early, gaps, synced>>
  BY <1>1 DEF carrier, client, Silent
<1>3. log' \in Seq(Tier) /\ Len(log') = disk /\ \A i \in 1..disk : log'[i] = log[i]
  <2>1. log \in Seq(Tier) /\ disk \in Nat /\ disk <= Len(log) /\ Len(log) \in Nat /\ 2 <= disk
    BY SourceFacts
  <2>2. 1 \in 1..(Len(log) + 1) /\ disk \in (1 - 1)..Len(log) /\ \A i \in 1..disk : log[i] \in Tier
    BY <2>1
  <2>3. log' = [i \in 1..disk |-> log[i]]
    BY <1>1, <2>1, SubSeqProperties
  <2>4. log' \in [1..disk -> Tier]
    BY <2>2, <2>3
  <2> QED
    BY <2>1, <2>3, <2>4, SeqDef
<1>4. SourceStep
  <2>0. /\ disk' = disk /\ copy' = copy /\ early' = early /\ stage' = "cold"
        /\ 1 \in 1..disk /\ disk \in Nat /\ disk <= MaxLog /\ copy \in Nat /\ early \in BOOLEAN
    BY <1>1, <1>2, SourceFacts, LimitFacts
  <2>1. SourceTyped
    BY <1>3, <2>0 DEF SourceTyped
  <2>3. log'[1] = "fact" /\ (copy # None => copy \in 2..disk /\ early)
    BY <1>1, <1>3, <2>0, SourceFacts
  <2>4. SourceInv'
    BY <1>3, <2>0, <2>3, SourceFacts DEF SourceInv
  <2>2. Agree(log, log', disk) /\ disk <= disk'
    BY <1>1, <1>2, <1>3, SourceFacts DEF Agree
  <2> QED
    BY <2>1, <2>2, <2>4 DEF SourceStep
<1>5. SettledInv'
  <2>1. Cutting' <=> Cutting
    BY <1>2, SilentWay
  <2> QED
    BY <1>1, <1>2, <2>1 DEF SettledInv, WindowInv, DataInv, Silent
<1>6. \A f \in Facts(log') : f \in Facts(log)
  BY <1>3, SourceFacts DEF Facts
<1> QED
  BY <1>2, <1>4, <1>5, <1>6, SilentStep

LEMMA DisposeKeeps ==
  ASSUME WindowInv, Dispose
  PROVE  WindowInv'
<1>1. stage = "live" /\ stage' = "cold" /\ UNCHANGED <<log, disk, copy, early, carrier, client, gaps>>
  BY DEF Dispose
<1>2. UNCHANGED client /\ Silent /\ UNCHANGED <<log, disk, copy, early, gaps, synced, queue, wire, due, up>>
  BY <1>1 DEF carrier, client, Silent
<1>3. SourceStep
  <2>1. SourceInv' /\ SourceTyped
    BY <1>1, <1>2, SourceFacts DEF SourceInv, SourceTyped
  <2>2. Agree(log, log', disk) /\ disk <= disk'
    BY <1>1, <1>2, SourceFacts DEF Agree
  <2> QED
    BY <2>1, <2>2 DEF SourceStep
<1>4. SettledInv'
  <2>1. Cutting' <=> Cutting
    BY <1>2, SilentWay
  <2> QED
    BY <1>1, <1>2, <2>1 DEF SettledInv, WindowInv, DataInv
<1> QED
  BY <1>2, <1>3, <1>4, SilentStep

LEMMA ReplyKeeps ==
  ASSUME WindowInv, Reply
  PROVE  WindowInv'
<1>1. up /\ due # <<>> /\ Send(Head(due), FALSE) /\ due' = (IF up' THEN Tail(due) ELSE <<>>)
      /\ UNCHANGED <<source, client, gaps>>
  BY DEF Reply
<1>2. CASE UNCHANGED <<up, watch, calls>> /\ wire' = Append(wire, Head(due))
  <2>1. Replies
    BY <1>1, <1>2 DEF Replies
  <2> QED
    BY <1>1, <2>1, RepliesStep
<1>3. CASE up' = FALSE /\ watch' = "none" /\ calls' = <<>> /\ wire' = Append(wire, Bye)
  <2>1. Shuts
    BY <1>1, <1>3 DEF Shuts
  <2>2. SourceStep
    <3>1. UNCHANGED <<log, disk, stage, copy, early>>
      BY <1>1 DEF source
    <3>2. Agree(log, log', disk) /\ disk <= disk'
      BY <3>1, SourceFacts DEF Agree
    <3>3. SourceInv' /\ SourceTyped
      BY <3>1, SourceFacts DEF SourceInv, SourceTyped
    <3> QED
      BY <3>2, <3>3 DEF SourceStep
  <2> QED
    BY <1>1, <2>1, <2>2, ShutsStep
<1> QED
  BY <1>1, <1>2, <1>3, SendCases

LEMMA DropKeeps ==
  ASSUME WindowInv, Drop
  PROVE  WindowInv'
<1>1. Shuts /\ UNCHANGED <<source, client, gaps>>
  BY DEF Drop, Shut, Shuts
<1>2. SourceStep
  <2>1. UNCHANGED <<log, disk, stage, copy, early>>
    BY <1>1 DEF source
  <2>2. Agree(log, log', disk) /\ disk <= disk'
    BY <2>1, SourceFacts DEF Agree
  <2>3. SourceInv' /\ SourceTyped
    BY <2>1, SourceFacts DEF SourceInv, SourceTyped
  <2> QED
    BY <2>2, <2>3 DEF SourceStep
<1> QED
  BY <1>1, <1>2, ShutsStep

-----------------------------------------------------------------------------
(* The host's answers.                                                       *)

LEMMA CursorIs ==
  ASSUME WindowInv
  PROVE  /\ Cursor \in Nat /\ 2 <= Cursor /\ Cursor <= disk /\ Cursor <= Len(log)
         /\ stage # "setup" /\ ~(stage = "cold" /\ early) => Cursor = disk /\ Cursor = Len(log)
  BY SourceFacts DEF Cursor

LEMMA KnownIs ==
  ASSUME WindowInv, NEW low \in Nat, NEW high \in Nat
  PROVE  /\ high <= Cursor => Within(FactsTo(Cursor), low, high) = Stretch(log, low, high)
         /\ ~(high <= Cursor) => Within(FactsTo(Cursor), low, high) = Stretch(log, low, Cursor)
<1>1. Cursor \in Nat /\ Cursor <= Len(log) /\ Len(log) \in Nat
  BY CursorIs, SourceFacts
<1> DEFINE c == Cursor
<1> HIDE DEF c
<1>2. \A s : s \in Within(FactsTo(c), low, high) <=> s \in 1..c /\ log[s] = "fact" /\ low <= s /\ s <= high
  BY DEF Within, FactsTo
<1>3. \A h, s : s \in Stretch(log, low, h) <=> s \in 1..Len(log) /\ log[s] = "fact" /\ low <= s /\ s <= h
  BY DEF Stretch, Facts
<1>4. c \in Nat /\ c <= Len(log)
  BY <1>1 DEF c
<1>5. ASSUME high <= c PROVE Within(FactsTo(c), low, high) = Stretch(log, low, high)
  <2>1. \A s : s \in Within(FactsTo(c), low, high) <=> s \in Stretch(log, low, high)
    <3>1. \A s \in Nat : s <= high => s <= c /\ s <= Len(log)
      BY <1>1, <1>4, <1>5
    <3> QED
      BY <1>1, <1>2, <1>3, <1>4, <3>1
  <2>2. \A s \in Within(FactsTo(c), low, high) : s \in Stretch(log, low, high)
    BY <2>1
  <2>3. \A s \in Stretch(log, low, high) : s \in Within(FactsTo(c), low, high)
    BY <2>1
  <2> QED
    BY <2>2, <2>3
<1>6. ASSUME ~(high <= c) PROVE Within(FactsTo(c), low, high) = Stretch(log, low, c)
  <2>1. \A s : s \in Within(FactsTo(c), low, high) <=> s \in Stretch(log, low, c)
    <3>1. \A s \in Nat : s <= c => s <= high /\ s <= Len(log)
      BY <1>1, <1>4, <1>6
    <3> QED
      BY <1>1, <1>2, <1>3, <1>4, <3>1
  <2>2. \A s \in Within(FactsTo(c), low, high) : s \in Stretch(log, low, c)
    BY <2>1
  <2>3. \A s \in Stretch(log, low, c) : s \in Within(FactsTo(c), low, high)
    BY <2>1
  <2> QED
    BY <2>2, <2>3
<1> QED
  BY <1>5, <1>6 DEF c

(* A page is a stretch of the log, and reaches down to where it says.        *)
LEMMA PageIs ==
  ASSUME WindowInv, NEW through \in Nat, NEW before \in Nat \ {0}, through <= Cursor
  PROVE  LET p == Page(through, before)
             high == IF through < before THEN through ELSE before - 1
         IN  /\ p \in PageOf /\ p.rows = InOrder(Stretch(log, p.from, high))
             /\ p.from = 1 \/ p.from <= high
<1> DEFINE p == Page(through, before)
           high == IF through < before THEN through ELSE before - 1
           S == Stretch(log, 1, high)
           below == Within(FactsTo(Cursor), 1, high)
           taken == Newest(S, PageSize)
           from == IF Cardinality(S) < PageSize THEN 1 ELSE Least(taken, 1)
<1>1. high \in Nat /\ high <= Cursor
  BY CursorIs
<1>2. below = S
  BY <1>1, KnownIs
<1>3. p = [rows |-> InOrder(Newest(below, PageSize)),
           from |-> IF Cardinality(below) < PageSize THEN 1 ELSE Least(Newest(below, PageSize), 1),
           more |-> (IF Cardinality(below) < PageSize THEN 1 ELSE Least(Newest(below, PageSize), 1)) > 1]
  BY DEF Page
<1> HIDE DEF below
<1>4. p = [rows |-> InOrder(taken), from |-> from, more |-> from > 1]
  BY <1>2, <1>3
<1>5. S \in SUBSET (Nat \ {0}) /\ IsFiniteSet(S) /\ log \in Seq(Tier)
      /\ \A s \in S : 1 <= s /\ s <= high
  <2>1. log \in Seq(Tier)
    BY SourceFacts
  <2>2. /\ S \in SUBSET Nat /\ IsFiniteSet(S)
        /\ \A s \in S : s \in 1..Len(log) /\ log[s] = "fact" /\ 1 <= s /\ s <= high
    BY <1>1, <2>1, StretchFacts
  <2>3. \A s \in S : s # 0
    BY <2>2
  <2> QED
    BY <2>1, <2>2, <2>3
<1>6. from \in Nat \ {0} /\ taken = {s \in S : from <= s} /\ (from = 1 \/ from \in S)
  BY <1>5, LimitFacts, NewestFrom
<1> HIDE DEF from, taken, p
<1>7. taken = Stretch(log, from, high)
  <2>1. \A s \in S : from <= s <=> from <= s /\ s <= high
    BY <1>5
  <2>2. \A s : s \in Stretch(log, from, high) => s \in S /\ from <= s
    BY <1>1, <1>6 DEF Stretch, Facts
  <2>3. \A s \in S : from <= s => s \in Stretch(log, from, high)
    BY DEF Stretch
  <2> QED
    BY <1>6, <2>2, <2>3
<1>8. taken \in SUBSET Nat /\ IsFiniteSet(taken)
  BY <1>5, <1>6, FS_Subset
<1>9. InOrder(taken) \in Seq(Nat)
  BY <1>8, OrderIs
<1>10. p \in PageOf /\ p.rows = InOrder(taken) /\ p.from = from
  BY <1>4, <1>6, <1>9 DEF PageOf
<1>11. from = 1 \/ from <= high
  BY <1>5, <1>6
<1>12. p \in PageOf /\ p.rows = InOrder(Stretch(log, p.from, high)) /\ (p.from = 1 \/ p.from <= high)
  BY <1>7, <1>10, <1>11
<1> QED
  BY <1>12 DEF p

-----------------------------------------------------------------------------

(* What serving does to what is on its way: a request became its answer.     *)
Serves(a) ==
  /\ up /\ calls # <<>> /\ a \in Answer /\ (\A T \in Kinds : Head(calls).tag \in T <=> a.tag \in T)
  /\ calls' = Tail(calls) /\ due' = Append(due, a)
  /\ UNCHANGED <<log, disk, stage, up, wire, linked, win, queue, awaits, paging, synced>>
  /\ watch' \in {"all", "named", "none"}
  /\ \/ UNCHANGED <<copy, early>>
     \/ Parsed

LEMMA Bounds ==
  /\ \A d \in Nat : 2 <= d => d \in 2..d
  /\ \A n \in Nat : n = 1 => \A i \in 1..n : i = 1
  OBVIOUS

(* The rows of an answer are numbers of the stretch asked for.               *)
LEMMA RangeIs ==
  ASSUME NEW l \in Seq(Tier), NEW low \in Nat, NEW high \in Nat, NEW k \in Nat \ {0}
  PROVE  /\ InOrder(Oldest(Stretch(l, low, high), k)) \in Seq(Nat)
         /\ \A s \in Elements(InOrder(Oldest(Stretch(l, low, high), k))) : s \in Nat /\ s <= high
  BY OldestTo DEF Answering

LEMMA EitherIs ==
  ASSUME NEW e \in BOOLEAN, NEW x \in BOOLEAN, NEW f, f = (e \/ x)
  PROVE  f \in BOOLEAN /\ (~x => f = e) /\ (~f => ~x /\ ~e)
  OBVIOUS

LEMMA ServesKeeps ==
  ASSUME WindowInv, NEW a, Serves(a)
  PROVE  /\ WindowTyped' /\ SourceInv' /\ LineInv' /\ (stage # "setup" => early' = early)
         /\ Coming' = Coming \cup {a} /\ Elements(calls') \subseteq Elements(calls)
         /\ \A T \in Kinds : Way(T)' <=> Way(T)
         /\ \A T : Has(due', T) <=> Has(due, T) \/ a.tag \in T
<1>1. /\ up /\ calls # <<>> /\ a \in Answer /\ (\A T \in Kinds : Head(calls).tag \in T <=> a.tag \in T)
      /\ calls' = Tail(calls) /\ due' = Append(due, a)
      /\ UNCHANGED <<log, disk, stage, up, wire, linked, win, queue, awaits, paging, synced>>
      /\ watch' \in {"all", "named", "none"}
  BY DEF Serves
<1>2. calls \in Seq(Request) /\ due \in Seq(Answer)
  BY DEF WindowInv, WindowTyped
<1>3. calls' \in Seq(Request) /\ due' \in Seq(Answer) /\ Elements(calls) = Elements(calls') \cup {Head(calls)}
      /\ Elements(due') = Elements(due) \cup {a}
  BY <1>1, <1>2, TailPlaces, TailElements, AppendPlaces, AppendElements
<1>4. /\ copy' \in Nat /\ early' \in BOOLEAN /\ (stage # "setup" => early' = early)
      /\ copy' # None => copy' \in 2..disk /\ (~early' => copy' = disk /\ stage # "setup")
  <2>1. CASE UNCHANGED <<copy, early>>
    BY <2>1, SourceFacts
  <2>2. CASE Parsed
    <3>1. copy' = (IF stage = "live" THEN copy ELSE Cursor) /\ early' = (early \/ (stage = "setup" /\ copy = None))
      BY <2>2 DEF Parsed
    <3>2. CASE stage = "live"
      BY <3>1, <3>2, SourceFacts
    <3>3. CASE stage # "live"
      <4>1. copy' = IF copy # None THEN copy ELSE disk
        BY <3>1, <3>3 DEF Cursor
      <4>2. early \in BOOLEAN /\ (stage = "setup" /\ copy = None) \in BOOLEAN
        BY SourceFacts
      <4>3. /\ early' \in BOOLEAN /\ (~(stage = "setup" /\ copy = None) => early' = early)
            /\ ~early' => ~(stage = "setup" /\ copy = None) /\ ~early
        BY <3>1, <4>2, EitherIs
      <4>4. /\ disk \in Nat /\ copy \in Nat /\ 2 <= disk
            /\ copy # None => copy \in 2..disk /\ (~early => copy = disk /\ stage # "setup")
        BY SourceFacts
      <4>5. disk \in 2..disk
        BY <4>4, Bounds
      <4>6. CASE copy # None
        <5>1. copy' = copy /\ early' = early
          BY <4>1, <4>3, <4>6
        <5> QED
          BY <4>3, <4>4, <4>6, <5>1
      <4>7. CASE copy = None
        <5>1. copy' = disk
          BY <4>1, <4>7
        <5> QED
          BY <4>3, <4>4, <4>5, <4>7, <5>1
      <4> QED
        BY <4>6, <4>7
    <3> QED
      BY <3>2, <3>3
  <2> QED
    BY <2>1, <2>2 DEF Serves
<1>5. WindowTyped'
  BY <1>1, <1>3, <1>4 DEF WindowInv, WindowTyped
<1>6. SourceInv'
  BY <1>1, <1>4 DEF WindowInv, SourceInv, None
<1>7. \A T \in Kinds : /\ Way(T)' <=> Way(T)
                       /\ AtMostOne(T, calls, due, wire) => AtMostOne(T, calls, due, wire)'
  BY <1>1, <1>2, Served DEF Way
<1>8. Boot \in Kinds /\ Cut \in Kinds /\ Span \in Kinds /\ Leaf \in Kinds
  BY DEF Kinds
<1>9. LineInv'
  BY <1>1, <1>7, <1>8 DEF WindowInv, LineInv
<1>10. Coming' = Coming \cup {a}
  BY <1>1, <1>3 DEF Coming
<1>11. \A T : Has(due', T) <=> Has(due, T) \/ a.tag \in T
  BY <1>1, <1>2, AppendHas
<1> QED
  BY <1>3, <1>4, <1>5, <1>6, <1>7, <1>9, <1>10, <1>11

(* An answer that is no cut leaves what is seen as it was.                   *)
LEMMA ServesData ==
  ASSUME WindowInv, NEW a, Serves(a), a.tag # "cut", UNCHANGED gaps,
         gaps = {} => /\ a.tag = "range" => \A s \in Elements(a.rows) : s <= disk
                      /\ synced => PageOk(a) /\ SpanOk(a)
  PROVE  DataInv'
<1>1. UNCHANGED <<log, disk, stage, up, wire, linked, win, queue, awaits, paging, synced, gaps>>
  BY DEF Serves
<1>2. /\ (stage # "setup" => early' = early)
      /\ Coming' = Coming \cup {a} /\ Elements(calls') \subseteq Elements(calls)
      /\ \A T \in Kinds : Way(T)' <=> Way(T)
      /\ \A T : Has(due', T) <=> Has(due, T) \/ a.tag \in T
  BY ServesKeeps
<1>3. Cutting' <=> Cutting
  BY <1>1, <1>2 DEF Cutting
<1>4. ReachInv'
  BY <1>1, <1>2 DEF WindowInv, DataInv, ReachInv
<1>5. SettledInv'
  BY <1>1, <1>2, <1>3 DEF WindowInv, DataInv, SettledInv
<1>6. CutInv'
  BY <1>1, <1>2 DEF WindowInv, DataInv, CutInv, CutOk, Piece
<1>7. WholeInv'
  <2> SUFFICES ASSUME gaps = {}, synced PROVE WholeInv'
    BY <1>1 DEF WholeInv
  <2>1. \A f \in Coming' : PageOk(f) /\ SpanOk(f)
    BY <1>2 DEF WindowInv, DataInv, WholeInv
  <2>2. \A r \in Elements(calls') : PageAsked(r) /\ SpanAsked(r)
    BY <1>2 DEF WindowInv, DataInv, WholeInv
  <2>3. \A f : (PageOk(f) <=> PageOk(f)') /\ (SpanOk(f) <=> SpanOk(f)') /\ (PageAsked(f) <=> PageAsked(f)')
               /\ (SpanAsked(f) <=> SpanAsked(f)')
    BY <1>1 DEF PageOk, SpanOk, PageAsked, SpanAsked, Piece
  <2>4. Piece(win.rows, win.oldest, win.cursor)'
    BY <1>1 DEF WindowInv, DataInv, WholeInv, Piece
  <2> QED
    BY <1>1, <2>1, <2>2, <2>3, <2>4 DEF WindowInv, DataInv, WholeInv
<1>8. PendingInv'
  <2>1. \A b : Base(b)' => Base(b)
    BY <1>1, <1>2 DEF Base
  <2> QED
    BY <1>1, <2>1 DEF WindowInv, DataInv, PendingInv
<1>9. TokenInv'
  <2>1. Boot \in Kinds
    BY DEF Kinds
  <2> QED
    BY <1>1, <1>2, <2>1 DEF WindowInv, DataInv, TokenInv
<1> QED
  BY <1>4, <1>5, <1>6, <1>7, <1>8, <1>9 DEF DataInv

LEMMA KindsApart ==
  /\ Boot = {"detach", "detached"} /\ Cut = {"attach", "cut"} /\ Span = {"events", "range"} /\ Leaf = {"page", "refused"}
  /\ Kinds = {Boot, Cut, Span, Leaf}
  BY DEF Boot, Cut, Span, Leaf, Kinds

LEMMA HeadOfCalls ==
  ASSUME WindowInv, calls # <<>>
  PROVE  /\ Head(calls) \in Request /\ Head(calls) \in Elements(calls) /\ \A T : Head(calls).tag \in T => Has(calls, T) /\ Way(T)
<1>1. calls \in Seq(Request)
  BY DEF WindowInv, WindowTyped
<1>2. Head(calls) \in Request /\ Elements(calls) = Elements(Tail(calls)) \cup {Head(calls)}
  BY <1>1, TailPlaces, TailElements
<1> QED
  BY <1>2, HasElements DEF Way, OnItsWay

LEMMA ServesAsBefore ==
  ASSUME WindowInv, NEW a, Serves(a), a.tag \notin {"cut", "detached"}, UNCHANGED watch
  PROVE  BootInv'
<1>1. UNCHANGED <<up, wire, queue, synced, watch>>
  BY DEF Serves
<1>2. /\ \A T \in Kinds : Way(T)' <=> Way(T)
      /\ \A T : Has(due', T) <=> Has(due, T) \/ a.tag \in T
  BY ServesKeeps
<1>3. a.tag \notin Boot
  <2>1. a.tag # "detach"
    BY DEF Serves, Answer
  <2> QED
    BY <2>1 DEF Boot
<1>4. (Cutting' <=> Cutting) /\ (Has(due', Boot) <=> Has(due, Boot)) /\ (Way(Boot)' <=> Way(Boot))
  BY <1>1, <1>2, <1>3 DEF Cutting, Kinds
<1> QED
  BY <1>1, <1>4 DEF WindowInv, BootInv

LEMMA OlderKeeps ==
  ASSUME WindowInv, Serve, Older
  PROVE  WindowInv'
<1> DEFINE r == Head(calls)
           a == IF r.through > Cursor THEN [tag |-> "refused"]
                ELSE [tag |-> "page", page |-> Page(r.through, r.before)]
<1>1. /\ up /\ calls # <<>> /\ r.tag = "page" /\ calls' = Tail(calls) /\ due' = Append(due, a) /\ Parsed
      /\ UNCHANGED <<log, disk, stage, up, wire, linked, win, queue, awaits, paging, synced, watch, gaps>>
  BY DEF Serve, Older, client
<1>2. r \in Request /\ r.through \in Nat /\ r.before \in Nat \ {0}
  BY <1>1, HeadOfCalls, RequestParts
<1>3. Cursor \in Nat
  BY CursorIs
<1>4. CASE r.through > Cursor
  <2>1. a = [tag |-> "refused"]
    BY <1>4
  <2>2. a \in Answer /\ a.tag = "refused"
    BY <2>1 DEF Answer
  <2> HIDE DEF a
  <2>3. Serves(a)
    BY <1>1, <2>2, KindsApart DEF Serves, WindowInv, WindowTyped
  <2>4. DataInv'
    BY <1>1, <2>2, <2>3, ServesData DEF PageOk, SpanOk
  <2>5. BootInv'
    BY <1>1, <2>2, <2>3, ServesAsBefore
  <2> QED
    BY <2>3, <2>4, <2>5, ServesKeeps DEF WindowInv
<1>5. CASE ~(r.through > Cursor)
  <2> DEFINE p == Page(r.through, r.before)
             high == IF r.through < r.before THEN r.through ELSE r.before - 1
  <2>1. r.through <= Cursor
    BY <1>2, <1>3, <1>5
  <2>2. p \in PageOf /\ p.rows = InOrder(Stretch(log, p.from, high)) /\ (p.from = 1 \/ p.from <= high)
    BY <1>2, <2>1, PageIs
  <2>3. a = [tag |-> "page", page |-> p]
    BY <1>5
  <2> HIDE DEF p, a
  <2>4. a \in Answer /\ a.tag = "page" /\ a.page = p
    BY <2>2, <2>3 DEF Answer
  <2>5. Serves(a)
    BY <1>1, <2>4, KindsApart DEF Serves, WindowInv, WindowTyped
  <2>6. ASSUME gaps = {}, synced PROVE PageOk(a) /\ SpanOk(a)
    <3>1. PageAsked(r)
      BY <1>1, <2>6, HeadOfCalls DEF WindowInv, DataInv, WholeInv
    <3>2. r.before = win.oldest /\ win.oldest <= r.through
      BY <1>1, <3>1 DEF PageAsked
    <3>3. high = win.oldest - 1
      BY <1>2, <3>2
    <3>4. p.from <= win.oldest
      <4>1. p.from \in Nat
        BY <2>2, RequestParts DEF PageOf
      <4> QED
        BY <1>2, <2>2, <3>2, <3>3, <4>1
    <3> QED
      BY <2>2, <2>4, <3>3, <3>4 DEF PageOk, SpanOk, Piece
  <2>7. DataInv'
    BY <1>1, <2>4, <2>5, <2>6, ServesData
  <2>8. BootInv'
    BY <1>1, <2>4, <2>5, ServesAsBefore
  <2> QED
    BY <2>5, <2>7, <2>8, ServesKeeps DEF WindowInv
<1> QED
  BY <1>4, <1>5

LEMMA EventsKeeps ==
  ASSUME WindowInv, Serve, Events
  PROVE  WindowInv'
<1> DEFINE r == Head(calls)
           sought == Within(FactsTo(Cursor), r.from, r.to)
           rows == InOrder(Oldest(sought, RepairLimit))
           a == [tag |-> "range", rows |-> rows]
           high == IF r.to <= Cursor THEN r.to ELSE Cursor
<1>1. /\ up /\ calls # <<>> /\ r.tag = "events" /\ calls' = Tail(calls) /\ due' = Append(due, a) /\ Parsed
      /\ UNCHANGED <<log, disk, stage, up, wire, linked, win, queue, awaits, paging, synced, watch, gaps>>
  BY DEF Serve, Events, client
<1>2. r \in Request /\ r \in Elements(calls) /\ r.from \in Nat /\ r.to \in Nat
  BY <1>1, HeadOfCalls, RequestParts
<1>3. Cursor \in Nat /\ Cursor <= disk /\ disk \in Nat /\ high \in Nat /\ high <= disk
  BY <1>2, CursorIs, SourceFacts
<1>4. sought = Stretch(log, r.from, high)
  BY <1>2, <1>3, KnownIs
<1> HIDE DEF sought, high
<1>5. rows \in Seq(Nat) /\ \A s \in Elements(rows) : s \in Nat /\ s <= high
  <2>1. log \in Seq(Tier) /\ RepairLimit \in Nat \ {0}
    BY SourceFacts, LimitFacts
  <2> QED
    BY <1>2, <1>3, <1>4, <2>1, RangeIs
<1> HIDE DEF rows
<1>6. a \in Answer /\ a.tag = "range" /\ a.rows = rows
  BY <1>5 DEF Answer
<1> HIDE DEF a
<1>7. Serves(a)
  BY <1>1, <1>6, KindsApart DEF Serves, WindowInv, WindowTyped
<1>8. \A s \in Elements(a.rows) : s <= disk
  BY <1>3, <1>5, <1>6
<1>9. ASSUME gaps = {}, synced PROVE PageOk(a) /\ SpanOk(a)
  <2>1. SpanAsked(r)
    BY <1>2, <1>9 DEF WindowInv, DataInv, WholeInv
  <2>2. r.from = win.cursor + 1 /\ r.to = Head(queue).seq - 1
    BY <1>1, <2>1 DEF SpanAsked
  <2>3. awaits = "range"
    <3>1. Way(Span)
      BY <1>1, HeadOfCalls DEF Span
    <3> QED
      BY <3>1 DEF WindowInv, LineInv
  <2>4. /\ Has(queue, Ops) /\ 1 \in DOMAIN queue /\ Head(queue) = queue[1] /\ Head(queue).tag = "apply"
        /\ Head(queue).seq \in Nat \ {0}
    BY <2>3, HeadOfRepair DEF WindowInv
  <2>5. stage # "setup" /\ ~early
    BY <1>1, <1>9, <2>4 DEF WindowInv, DataInv, SettledInv
  <2>6. Cursor = disk
    BY <2>5, CursorIs
  <2>7. Head(queue).seq \in 1..disk
    BY <1>9, <2>4 DEF WindowInv, DataInv, ReachInv, Ops
  <2>8. high = Head(queue).seq - 1
    BY <1>3, <2>2, <2>4, <2>6, <2>7 DEF high
  <2> QED
    BY <1>4, <1>6, <2>2, <2>8 DEF PageOk, SpanOk, rows
<1>10. DataInv'
  BY <1>1, <1>6, <1>7, <1>8, <1>9, ServesData
<1>11. BootInv'
  BY <1>1, <1>6, <1>7, ServesAsBefore
<1> QED
  BY <1>7, <1>10, <1>11, ServesKeeps DEF WindowInv

LEMMA DetachKeeps ==
  ASSUME WindowInv, Serve, ServeDetach
  PROVE  WindowInv'
<1> DEFINE r == Head(calls)
           a == [tag |-> "detached"]
<1>1. /\ up /\ calls # <<>> /\ r.tag = "detach" /\ calls' = Tail(calls) /\ due' = Append(due, a) /\ watch' = "none"
      /\ UNCHANGED <<log, disk, stage, up, wire, linked, win, queue, awaits, paging, synced, copy, early, gaps>>
  BY DEF Serve, ServeDetach, client
<1>2. a \in Answer /\ a.tag = "detached"
  BY DEF Answer
<1> HIDE DEF a
<1>3. Serves(a)
  BY <1>1, <1>2, KindsApart DEF Serves
<1>4. DataInv'
  BY <1>1, <1>2, <1>3, ServesData DEF PageOk, SpanOk
<1>5. /\ \A T \in Kinds : Way(T)' <=> Way(T)
      /\ \A T : Has(due', T) <=> Has(due, T) \/ a.tag \in T
  BY <1>3, ServesKeeps
<1>6. Way(Boot) /\ Has(calls, Boot)
  BY <1>1, HeadOfCalls DEF Boot
<1>7. ~synced /\ ~Has(queue, {"attach"}) /\ ~Has(wire, Boot)
  BY <1>6, KindsApart DEF WindowInv, BootInv, LineInv, AtMostOne
<1>8. ~Cutting
  <2>1. ASSUME Cutting PROVE FALSE
    <3>1. Way(Cut)
      BY <2>1, CuttingIs, ComingIsOnItsWay DEF Cut
    <3>2. queue # <<>> /\ Head(queue).tag = "attach" /\ queue \in Seq(Op)
      BY <3>1 DEF WindowInv, LineInv, WindowTyped
    <3>3. Has(queue, {"attach"})
      BY <3>2, TailHas
    <3> QED
      BY <1>7, <3>3
  <2> QED
    BY <2>1
<1>9. ~Cutting'
  BY <1>1, <1>2, <1>5, <1>8 DEF Cutting
<1>10. BootInv'
  BY <1>1, <1>5, <1>7, <1>9, KindsApart DEF WindowInv, BootInv
<1> QED
  BY <1>3, <1>4, <1>10, ServesKeeps DEF WindowInv

LEMMA AttachKeeps ==
  ASSUME WindowInv, Serve, ServeAttach
  PROVE  WindowInv'
<1> DEFINE r == Head(calls)
           p == Page(Cursor, Cursor + 1)
           a == [tag |-> "cut", cursor |-> Cursor, page |-> p]
<1>1. /\ up /\ calls # <<>> /\ r.tag = "attach" /\ calls' = Tail(calls) /\ due' = Append(due, a) /\ watch' = "named"
      /\ Parsed /\ gaps' = GapsOfCut
      /\ UNCHANGED <<log, disk, stage, up, wire, linked, win, queue, awaits, paging, synced>>
  BY DEF Serve, ServeAttach, client
<1>2. Cursor \in Nat /\ 2 <= Cursor /\ Cursor <= disk /\ Cursor + 1 \in Nat \ {0} /\ Cursor < Cursor + 1
  BY CursorIs
<1>3. p \in PageOf /\ p.rows = InOrder(Stretch(log, p.from, Cursor)) /\ (p.from = 1 \/ p.from <= Cursor)
  <2> DEFINE high == IF Cursor < Cursor + 1 THEN Cursor ELSE Cursor + 1 - 1
  <2>1. p \in PageOf /\ p.rows = InOrder(Stretch(log, p.from, high)) /\ (p.from = 1 \/ p.from <= high)
    BY <1>2, PageIs
  <2>2. high = Cursor
    BY <1>2
  <2> QED
    BY <2>1, <2>2
<1> HIDE DEF p
<1>4. a \in Answer /\ a.tag = "cut" /\ a.cursor = Cursor /\ a.page = p
  BY <1>2, <1>3 DEF Answer
<1> HIDE DEF a
<1>5. Serves(a)
  BY <1>1, <1>4, KindsApart DEF Serves
<1>6. /\ \A T \in Kinds : Way(T)' <=> Way(T)
      /\ \A T : Has(due', T) <=> Has(due, T) \/ a.tag \in T
      /\ Coming' = Coming \cup {a} /\ Elements(calls') \subseteq Elements(calls)
  BY <1>5, ServesKeeps
<1>7. Way(Cut) /\ Has(calls, Cut)
  BY <1>1, HeadOfCalls DEF Cut
<1>8. awaits = "cut" /\ queue # <<>> /\ Head(queue).tag = "attach" /\ queue \in Seq(Op)
  BY <1>7 DEF WindowInv, LineInv, WindowTyped
<1>9. Has(queue, {"attach"}) /\ ~synced /\ ~Way(Boot)
  BY <1>8, TailHas DEF WindowInv, BootInv
<1>10. ~Cutting
  <2>1. ~Has(due, Cut) /\ ~Has(wire, Cut)
    BY <1>7, KindsApart DEF WindowInv, LineInv, AtMostOne
  <2> QED
    BY <2>1, HasElements DEF Cutting, Cut
<1>11. ~Has(wire, {"event"}) /\ queue[Len(queue)].tag = "attach"
  BY <1>1, <1>9, <1>10 DEF WindowInv, BootInv
<1>12. ~Has(queue, Ops)
  <2>1. /\ Head(queue) = queue[1] /\ Len(queue) \in Nat \ {0} /\ DOMAIN queue = 1..Len(queue)
    BY <1>8, TailPlaces
  <2>2. 1 = Len(queue)
    <3>1. 1 \in DOMAIN queue /\ Len(queue) \in DOMAIN queue
      BY <2>1
    <3> QED
      BY <1>8, <1>11, <2>1, <3>1 DEF WindowInv, BootInv, Lone
  <2>3. \A i \in DOMAIN queue : queue[i].tag = "attach"
    <3>1. \A i \in 1..Len(queue) : i = 1
      BY <2>1, <2>2, Bounds
    <3> QED
      BY <1>8, <2>1, <3>1
  <2> QED
    BY <2>3 DEF Has, Ops
<1>13. Cutting'
  BY <1>4, <1>6 DEF Cutting
<1>14. BootInv'
  <2>1. ~Has(due, Boot) /\ ~Has(wire, Boot) /\ ~Has(due', Boot) /\ ~Way(Boot)'
    BY <1>4, <1>6, <1>9, KindsApart DEF Way, OnItsWay
  <2> QED
    BY <1>1, <1>9, <1>13, <2>1 DEF WindowInv, BootInv
<1>15. \A f \in Coming : f.tag \notin {"cut", "range"}
  <2>1. \A f \in Coming : f.tag # "cut"
    BY <1>10, CuttingIs
  <2>2. ~Way(Span)
    BY <1>8 DEF WindowInv, LineInv
  <2>3. \A f \in Coming : f.tag # "range"
    BY <2>2, ComingIsOnItsWay DEF Span
  <2> QED
    BY <2>1, <2>3
<1>16. ASSUME gaps' = {}
       PROVE  stage # "setup" /\ Cursor = disk /\ Cursor = Len(log) /\ win.cursor <= disk
  <2>1. stage # "setup" /\ ~(stage = "cold" /\ early) /\ (win.cursor <= Cursor \/ gaps = {})
    BY <1>1, <1>16 DEF GapsOfCut
  <2>2. Cursor = disk /\ Cursor = Len(log)
    BY <2>1, CursorIs
  <2>3. win.cursor <= disk
    BY <2>1, <2>2 DEF WindowInv, DataInv, ReachInv
  <2> QED
    BY <2>1, <2>2, <2>3
<1>17. ReachInv'
  <2>1. /\ \A i \in DOMAIN wire : wire[i].tag # "event"
        /\ \A i \in DOMAIN queue : queue[i].tag \notin Ops
        /\ \A f \in Coming' : f.tag # "range"
    BY <1>4, <1>6, <1>11, <1>12, <1>15 DEF Has
  <2> QED
    BY <1>1, <1>16, <2>1 DEF ReachInv
<1>18. SettledInv'
  BY <1>1, <1>11, <1>12, <1>16 DEF SettledInv
<1>19. WholeInv'
  BY <1>1, <1>9 DEF WholeInv
<1>20. CutInv'
  <2> SUFFICES ASSUME gaps' = {}, NEW f \in Coming', f.tag = "cut" PROVE CutOk(f)'
    BY DEF CutInv, CutOk
  <2>1. f = a
    BY <1>6, <1>15
  <2>2. a.cursor \in 2..disk /\ win.cursor <= a.cursor /\ a.page.from <= a.cursor
        /\ a.page.rows = InOrder(Stretch(log, a.page.from, a.cursor))
    BY <1>2, <1>3, <1>4, <1>16, SourceFacts
  <2> QED
    BY <1>1, <2>1, <2>2 DEF CutOk, Piece
<1>21. PendingInv'
  <2> SUFFICES ASSUME gaps' = {}, NEW b \in Nat, Base(b)'
               PROVE  Based(b, log, queue, wire) /\ Complete(b, log, queue, wire)
    BY <1>1 DEF PendingInv
  <2>1. b = Len(log)
    BY <1>1, <1>4, <1>6, <1>9, <1>15, <1>16 DEF Base
  <2>2. \A f \in Facts(log) : f <= b
    BY <2>1, SourceFacts DEF Facts
  <2>3. Based(b, log, queue, wire)
    BY <1>11, <1>12, BasedAtOnce DEF Ops
  <2> QED
    BY <2>2, <2>3 DEF Complete
<1>22. TokenInv'
  BY <1>1, <1>9 DEF TokenInv
<1> QED
  BY <1>5, <1>14, <1>17, <1>18, <1>19, <1>20, <1>21, <1>22, ServesKeeps DEF WindowInv, DataInv

LEMMA ServeKeeps ==
  ASSUME WindowInv, Serve
  PROVE  WindowInv'
<1>1. ServeAttach \/ ServeDetach \/ Events \/ Older
  BY DEF Serve
<1> QED
  BY <1>1, AttachKeeps, DetachKeeps, EventsKeeps, OlderKeeps

-----------------------------------------------------------------------------
(* The client's own steps.                                                   *)

LEMMA Asking ==
  ASSUME NEW c \in Seq(Request), NEW r \in Request, NEW n, n = c \/ n = Append(c, r), NEW d, NEW w
  PROVE  /\ n \in Seq(Request) /\ Elements(n) \subseteq Elements(c) \cup {r}
         /\ \A T : AtMostOne(T, c, d, w) =>
              /\ OnItsWay(T, n, d, w) => OnItsWay(T, c, d, w) \/ r.tag \in T
              /\ OnItsWay(T, c, d, w) => OnItsWay(T, n, d, w)
              /\ n = Append(c, r) /\ r.tag \in T => OnItsWay(T, n, d, w)
              /\ (r.tag \in T => ~OnItsWay(T, c, d, w)) => AtMostOne(T, n, d, w)
<1>1. CASE n = Append(c, r)
  <2>1. n \in Seq(Request) /\ Elements(n) = Elements(c) \cup {r}
    BY <1>1, AppendElements, AppendPlaces
  <2>2. ASSUME NEW T, AtMostOne(T, c, d, w)
        PROVE  /\ OnItsWay(T, n, d, w) <=> OnItsWay(T, c, d, w) \/ r.tag \in T
               /\ (r.tag \in T => ~OnItsWay(T, c, d, w)) => AtMostOne(T, n, d, w)
    BY <1>1, <2>2, Asked
  <2> QED
    BY <2>1, <2>2
<1>2. CASE n = c /\ n # Append(c, r)
  BY <1>2
<1> QED
  BY <1>1, <1>2

LEMMA TailLast ==
  ASSUME NEW S, NEW s \in Seq(S), s # <<>>, NEW T, Has(Tail(s), T)
  PROVE  Tail(s)[Len(Tail(s))] = s[Len(s)]
<1>1. /\ Len(s) \in Nat \ {0} /\ Len(Tail(s)) = Len(s) - 1 /\ DOMAIN Tail(s) = 1..(Len(s) - 1)
      /\ \A i \in 1..(Len(s) - 1) : Tail(s)[i] = s[i + 1]
  BY TailPlaces
<1>2. Len(s) - 1 \in 1..(Len(s) - 1)
  BY <1>1 DEF Has
<1>3. Len(s) - 1 + 1 = Len(s)
  BY <1>1
<1> QED
  BY <1>1, <1>2, <1>3

LEMMA TailHolds ==
  ASSUME NEW S, NEW s \in Seq(S), s # <<>>
  PROVE  \A i \in DOMAIN Tail(s) : i + 1 \in DOMAIN s /\ Tail(s)[i] = s[i + 1]
BY TailPlaces

(* What a request nobody asked for yet leaves as it was.                     *)
Idle == awaits = "none" => ~Way(Span) /\ ~Way(Cut)

LEMMA IdleIs ==
  ASSUME WindowInv
  PROVE  /\ Idle
         /\ awaits = "none" => /\ \A f \in Coming : f.tag \notin {"cut", "range"}
                               /\ \A r \in Elements(calls) : r.tag # "events" /\ r.tag # "attach"
                               /\ ~Cutting
<1>1. Idle
  BY DEF WindowInv, LineInv, Idle
<1> SUFFICES ASSUME awaits = "none"
             PROVE  /\ \A f \in Coming : f.tag \notin {"cut", "range"}
                    /\ \A r \in Elements(calls) : r.tag # "events" /\ r.tag # "attach"
                    /\ ~Cutting
  BY <1>1
<1>2. ~Way(Span) /\ ~Way(Cut)
  BY <1>1 DEF Idle
<1>3. \A f \in Coming : f.tag \notin {"cut", "range"}
  BY <1>2, ComingIsOnItsWay DEF Span, Cut
<1>4. \A r \in Elements(calls) : r.tag # "events" /\ r.tag # "attach"
  BY <1>2, HasElements DEF Way, OnItsWay, Span, Cut
<1> QED
  BY <1>3, <1>4, CuttingIs

(* An operation that is done, on a window that is whole up to its number.    *)
LEMMA DoneKeeps ==
  ASSUME WindowInv, awaits = "none", queue # <<>>, Head(queue).tag # "attach",
         queue' = Tail(queue), win' \in Win,
         UNCHANGED <<source, up, watch, calls, due, wire, linked, awaits, paging, synced, gaps>>,
         gaps = {} => win'.cursor <= disk,
         gaps = {} /\ synced =>
           /\ win'.held /\ win'.oldest = win.oldest /\ win.cursor <= win'.cursor
           /\ Piece(win'.rows, win'.oldest, win'.cursor)
           /\ Head(queue).tag = "apply" => Head(queue).seq <= win'.cursor
  PROVE  WindowInv'
<1>1. UNCHANGED <<log, disk, stage, copy, early, up, watch, calls, due, wire, linked, awaits, paging, synced, gaps>>
  BY DEF source
<1>2. queue \in Seq(Op) /\ queue' \in Seq(Op) /\ \A i \in DOMAIN queue' : i + 1 \in DOMAIN queue /\ queue'[i] = queue[i + 1]
  BY TailPlaces, TailHolds DEF WindowInv, WindowTyped
<1>3. WindowTyped'
  BY <1>1, <1>2 DEF WindowInv, WindowTyped
<1>4. SourceInv'
  BY <1>1 DEF WindowInv, SourceInv, None
<1>5. /\ \A T : Way(T)' <=> Way(T)
      /\ \A T : AtMostOne(T, calls, due, wire)' <=> AtMostOne(T, calls, due, wire)
      /\ Cutting' <=> Cutting
      /\ Coming' = Coming /\ Elements(calls') = Elements(calls)
  BY <1>1 DEF Way, Cutting, Coming
<1>6. LineInv'
  BY <1>1, <1>5 DEF WindowInv, LineInv
<1>7. \A T : Has(queue, T) <=> Has(queue', T) \/ Head(queue).tag \in T
  BY <1>2, TailHas
<1>8. BootInv'
  <2>1. Lone(queue', {"attach"})
    BY <1>2, TailHas DEF WindowInv, BootInv
  <2>2. Has(queue', {"attach"}) => queue'[Len(queue')] = queue[Len(queue)]
    BY <1>2, TailLast
  <2> QED
    BY <1>1, <1>5, <1>7, <2>1, <2>2 DEF WindowInv, BootInv
<1>9. ReachInv'
  BY <1>1, <1>2, <1>5 DEF WindowInv, DataInv, ReachInv
<1>10. SettledInv'
  BY <1>1, <1>5, <1>7 DEF WindowInv, DataInv, SettledInv
<1>11. /\ \A f \in Coming : f.tag \notin {"cut", "range"}
       /\ \A r \in Elements(calls) : r.tag # "events" /\ r.tag # "attach"
       /\ ~Cutting
  BY IdleIs
<1>12. WholeInv'
  <2> SUFFICES ASSUME gaps = {}, synced PROVE WholeInv'
    BY <1>1 DEF WholeInv
  <2>1. win'.held /\ win'.oldest = win.oldest /\ Piece(win.rows, win.oldest, win.cursor)' /\ win'.oldest <= win'.cursor
    <3>1. win.oldest <= win.cursor /\ win.oldest \in Nat /\ win.cursor \in Nat /\ win'.cursor \in Nat
      BY DEF WindowInv, DataInv, WholeInv, WindowTyped, Win
    <3> QED
      BY <1>1, <3>1 DEF Piece
  <2>2. \A f \in Coming' : PageOk(f)' /\ SpanOk(f)'
    BY <1>1, <1>5, <1>11, <2>1 DEF WindowInv, DataInv, WholeInv, PageOk, SpanOk, Piece
  <2>3. \A r \in Elements(calls') : PageAsked(r)' /\ SpanAsked(r)'
    BY <1>1, <1>5, <1>11, <2>1 DEF WindowInv, DataInv, WholeInv, PageAsked, SpanAsked
  <2> QED
    BY <1>1, <2>1, <2>2, <2>3 DEF WholeInv
<1>13. CutInv'
  BY <1>1, <1>5, <1>11 DEF CutInv, CutOk
<1>14. PendingInv'
  <2> SUFFICES ASSUME gaps = {}, NEW b \in Nat, Base(b)'
               PROVE  Based(b, log, queue', wire) /\ (up => Complete(b, log, queue', wire))
    BY <1>1 DEF PendingInv
  <2>1. synced /\ b = win'.cursor
    BY <1>1, <1>5, <1>11 DEF Base
  <2>2. win.cursor \in Nat /\ win.cursor <= b /\ (Head(queue).tag = "apply" => Head(queue).seq <= b)
    BY <2>1 DEF WindowInv, WindowTyped, Win
  <2>3. Based(win.cursor, log, queue, wire) /\ (up => Complete(win.cursor, log, queue, wire))
    BY <2>1, <2>2 DEF WindowInv, DataInv, PendingInv, Base
  <2> QED
    BY <1>2, <2>2, <2>3, BasedDone
<1>15. TokenInv'
  BY <1>1, <1>5, <1>7 DEF WindowInv, DataInv, TokenInv
<1> QED
  BY <1>3, <1>4, <1>6, <1>8, <1>9, <1>10, <1>12, <1>13, <1>14, <1>15 DEF WindowInv, DataInv

(* An operation that is dropped where nothing is open.                       *)
LEMMA LostKeeps ==
  ASSUME WindowInv, ~linked, queue # <<>>, queue' = Tail(queue),
         UNCHANGED <<source, up, watch, calls, due, wire, linked, win, awaits, paging, synced, gaps>>
  PROVE  WindowInv'
<1>1. UNCHANGED <<log, disk, stage, copy, early, up, watch, calls, due, wire, linked, win, awaits, paging, synced, gaps>>
  BY DEF source
<1>2. queue \in Seq(Op) /\ queue' \in Seq(Op) /\ \A i \in DOMAIN queue' : i + 1 \in DOMAIN queue /\ queue'[i] = queue[i + 1]
  BY TailPlaces, TailHolds DEF WindowInv, WindowTyped
<1>3. WindowTyped' /\ SourceInv'
  BY <1>1, <1>2 DEF WindowInv, WindowTyped, SourceInv, None
<1>4. ~up /\ calls = <<>> /\ due = <<>> /\ wire = <<>> /\ awaits = "none" /\ ~synced /\ ~paging
  BY DEF WindowInv, LineInv
<1>5. Coming = {} /\ ~Cutting /\ \A T : ~Way(T)
  BY <1>4, EmptyHas DEF Coming, Cutting, Way, OnItsWay
<1>6. (\A T : ~Way(T)') /\ ~Cutting' /\ Coming' = {}
  BY <1>1, <1>5 DEF Way, Cutting, Coming
<1>7. LineInv'
  <2>1. \A T \in Kinds : AtMostOne(T, calls, due, wire)'
    BY <1>1 DEF WindowInv, LineInv
  <2> QED
    BY <1>1, <1>4, <1>6, <2>1 DEF WindowInv, LineInv
<1>8. BootInv'
  <2>1. Lone(queue', {"attach"})
    BY <1>2, TailHas DEF WindowInv, BootInv
  <2> QED
    BY <1>1, <1>4, <1>6, <2>1, EmptyHas DEF WindowInv, BootInv
<1>9. ReachInv'
  BY <1>1, <1>2, <1>6 DEF WindowInv, DataInv, ReachInv
<1>10. SettledInv' /\ WholeInv' /\ CutInv' /\ PendingInv' /\ TokenInv'
  BY <1>1, <1>4, <1>6 DEF SettledInv, WholeInv, CutInv, PendingInv, Base, TokenInv
<1> QED
  BY <1>3, <1>7, <1>8, <1>9, <1>10 DEF WindowInv, DataInv

(* A request that is sent where the host's side is open.                     *)
LEMMA AsksWay ==
  ASSUME WindowInv, NEW r \in Request, Asks(r), UNCHANGED <<due, wire>>
  PROVE  /\ calls' \in Seq(Request) /\ Elements(calls') \subseteq Elements(calls) \cup {r}
         /\ ~up => calls' = calls
         /\ \A T : AtMostOne(T, calls, due, wire) =>
              /\ Way(T)' => Way(T) \/ r.tag \in T
              /\ Way(T) => Way(T)'
              /\ up /\ r.tag \in T => Way(T)'
              /\ (r.tag \in T => ~Way(T)) => AtMostOne(T, calls, due, wire)'
<1>1. calls \in Seq(Request)
  BY DEF WindowInv, WindowTyped
<1>2. calls' = calls \/ calls' = Append(calls, r)
  BY DEF Asks
<1>3. (up => calls' = Append(calls, r)) /\ (~up => calls' = calls)
  BY DEF Asks
<1>4. /\ calls' \in Seq(Request) /\ Elements(calls') \subseteq Elements(calls) \cup {r}
      /\ \A T : AtMostOne(T, calls, due, wire) =>
              /\ OnItsWay(T, calls', due, wire) => OnItsWay(T, calls, due, wire) \/ r.tag \in T
              /\ OnItsWay(T, calls, due, wire) => OnItsWay(T, calls', due, wire)
              /\ calls' = Append(calls, r) /\ r.tag \in T => OnItsWay(T, calls', due, wire)
              /\ (r.tag \in T => ~OnItsWay(T, calls, due, wire)) => AtMostOne(T, calls', due, wire)
  BY <1>1, <1>2, Asking
<1>5. due' = due /\ wire' = wire
  OBVIOUS
<1> QED
  BY <1>3, <1>4, <1>5 DEF Way

-----------------------------------------------------------------------------
LEMMA StartAttachKeeps ==
  ASSUME WindowInv, Run, StartAttach
  PROVE  WindowInv'
<1>1. /\ queue # <<>> /\ awaits = "none" /\ Head(queue).tag = "attach"
      /\ UNCHANGED <<source, up, watch, due, wire, linked, win, paging, synced, gaps>>
  BY DEF Run, Busy, StartAttach
<1>2. CASE ~linked
  <2>1. queue' = Tail(queue) /\ UNCHANGED <<awaits, calls>>
    BY <1>2 DEF StartAttach, Done
  <2> QED
    BY <1>1, <1>2, <2>1, LostKeeps
<1>3. CASE linked
  <2> DEFINE r == [tag |-> "attach"]
  <2>1. awaits' = "cut" /\ calls' = (IF up THEN Append(calls, r) ELSE calls) /\ queue' = queue
    BY <1>3 DEF StartAttach, Asks
  <2>2. UNCHANGED <<log, disk, stage, copy, early, up, watch, due, wire, linked, win, queue, paging, synced, gaps>>
    BY <1>1, <2>1 DEF source
  <2>3. r \in Request /\ r.tag = "attach"
    BY DEF Request
  <2> HIDE DEF r
  <2>4. up \in BOOLEAN /\ calls \in Seq(Request) /\ queue \in Seq(Op)
    BY DEF WindowInv, WindowTyped
  <2>5. /\ calls' \in Seq(Request) /\ Elements(calls') \subseteq Elements(calls) \cup {r} /\ (~up => calls' = calls)
        /\ \A T : AtMostOne(T, calls, due, wire) =>
              /\ Way(T)' => Way(T) \/ r.tag \in T
              /\ Way(T) => Way(T)'
              /\ (r.tag \in T => ~Way(T)) => AtMostOne(T, calls, due, wire)'
    <3>1. Asks(r)
      BY <2>1 DEF Asks
    <3> QED
      BY <2>2, <2>3, <3>1, AsksWay
  <2>6. (\A T \in Kinds : AtMostOne(T, calls, due, wire)) /\ ~Way(Span) /\ ~Way(Cut)
    BY <1>1, IdleIs DEF WindowInv, LineInv, Idle
  <2>7. Has(queue, {"attach"})
    BY <1>1, <2>4, TailHas
  <2>8. ~synced
    BY <2>7 DEF WindowInv, BootInv
  <2>9. WindowTyped' /\ SourceInv'
    BY <2>1, <2>2, <2>5 DEF WindowInv, WindowTyped, SourceInv, None
  <2>10. /\ Way(Boot)' <=> Way(Boot)
         /\ Way(Leaf)' <=> Way(Leaf)
         /\ ~Way(Span)'
         /\ \A T \in Kinds : AtMostOne(T, calls, due, wire)'
    BY <2>3, <2>5, <2>6, KindsApart
  <2>11. (Cutting' <=> Cutting) /\ Coming' = Coming
    BY <2>2 DEF Cutting, Coming
  <2>12. LineInv'
    BY <1>1, <1>3, <2>1, <2>2, <2>5, <2>10 DEF WindowInv, LineInv
  <2>13. BootInv'
    BY <2>2, <2>10, <2>11 DEF WindowInv, BootInv
  <2>14. ReachInv' /\ SettledInv' /\ CutInv'
    BY <2>2, <2>11 DEF WindowInv, DataInv, ReachInv, SettledInv, CutInv, CutOk, Piece
  <2>15. WholeInv' /\ TokenInv'
    BY <2>2, <2>8, <2>10 DEF WindowInv, DataInv, WholeInv, TokenInv
  <2>16. PendingInv'
    <3>1. \A b : Base(b)' => Base(b)
      BY <2>2, <2>11 DEF Base
    <3> QED
      BY <2>2, <3>1 DEF WindowInv, DataInv, PendingInv
  <2> QED
    BY <2>9, <2>12, <2>13, <2>14, <2>15, <2>16 DEF WindowInv, DataInv
<1> QED
  BY <1>2, <1>3

(* The first operation, on a window that is whole.                           *)
LEMMA HeadIs ==
  ASSUME WindowInv, queue # <<>>, gaps = {}, Head(queue).tag \in Ops
  PROVE  /\ Head(queue).seq \in 1..disk /\ Head(queue) = queue[1] /\ 1 \in DOMAIN queue
         /\ synced => /\ Head(queue).tag = "apply" => Head(queue).seq \in Facts(log)
                      /\ Head(queue).tag = "noted" =>
                           \A f \in Facts(log) : f <= Head(queue).seq => f <= win.cursor
<1>1. queue \in Seq(Op) /\ win.cursor \in Nat
  BY DEF WindowInv, WindowTyped, Win
<1>2. Head(queue) = queue[1] /\ 1 \in DOMAIN queue /\ DOMAIN queue = 1..Len(queue) /\ Len(queue) \in Nat
  BY <1>1, TailPlaces
<1>3. Head(queue).seq \in 1..disk
  BY <1>2 DEF WindowInv, DataInv, ReachInv
<1>4. ASSUME synced PROVE Based(win.cursor, log, queue, wire)
  BY <1>1, <1>4 DEF WindowInv, DataInv, PendingInv, Base
<1>5. ASSUME synced, Head(queue).tag = "noted", NEW f \in Facts(log), f <= Head(queue).seq PROVE f <= win.cursor
  <2>1. f <= win.cursor \/ \E j \in DOMAIN queue : j < 1 /\ queue[j].tag = "apply" /\ queue[j].seq = f
    BY <1>2, <1>4, <1>5 DEF Based
  <2>2. \A j \in DOMAIN queue : ~(j < 1)
    BY <1>2
  <2> QED
    BY <2>1, <2>2
<1> QED
  BY <1>2, <1>3, <1>4, <1>5 DEF Based

LEMMA MaxIs ==
  ASSUME NEW a \in Nat, NEW b \in Nat
  PROVE  Max2(a, b) \in Nat /\ a <= Max2(a, b) /\ b <= Max2(a, b) /\ Max2(a, b) \in {a, b}
  BY DEF Max2

LEMMA NoteKeeps ==
  ASSUME WindowInv, Run, Note
  PROVE  WindowInv'
<1> DEFINE s == Head(queue).seq
<1>1. /\ queue # <<>> /\ awaits = "none" /\ Head(queue).tag = "noted" /\ queue' = Tail(queue)
      /\ UNCHANGED <<source, up, watch, calls, due, wire, linked, awaits, paging, synced, gaps>>
      /\ win' = IF win.held THEN [win EXCEPT !.cursor = Max2(@, s)] ELSE win
  BY DEF Run, Busy, Note, Done
<1>2. queue \in Seq(Op) /\ Head(queue) \in Op /\ win \in Win /\ win.cursor \in Nat /\ win.oldest \in Nat \ {0}
  BY <1>1, TailPlaces DEF WindowInv, WindowTyped, Win
<1>3. s \in Nat \ {0}
  BY <1>1, <1>2, OpParts
<1>4. Max2(win.cursor, s) \in Nat /\ win.cursor <= Max2(win.cursor, s) /\ Max2(win.cursor, s) \in {win.cursor, s}
  BY <1>2, <1>3, MaxIs
<1> DEFINE c == Max2(win.cursor, s)
<1> HIDE DEF c
<1>5. c \in Nat /\ win.cursor <= c /\ (c = win.cursor \/ c = s)
  BY <1>4 DEF c
<1>6. win' = IF win.held THEN [win EXCEPT !.cursor = c] ELSE win
  BY <1>1 DEF c
<1>7. win' \in Win
  BY <1>2, <1>5, <1>6 DEF Win
<1>8. ASSUME gaps = {} PROVE win'.cursor <= disk
  <2>1. s <= disk /\ win.cursor <= disk
    BY <1>1, <1>2, <1>3, <1>8, HeadIs, SourceFacts DEF Ops, WindowInv, DataInv, ReachInv
  <2> QED
    BY <1>2, <1>5, <1>6, <2>1 DEF Win
<1>9. ASSUME gaps = {}, synced
      PROVE  /\ win'.held /\ win'.oldest = win.oldest /\ win.cursor <= win'.cursor
             /\ Piece(win'.rows, win'.oldest, win'.cursor)
  <2>1. win.held /\ win.oldest <= win.cursor /\ Piece(win.rows, win.oldest, win.cursor)
    BY <1>9 DEF WindowInv, DataInv, WholeInv
  <2>2. win'.held /\ win'.oldest = win.oldest /\ win'.rows = win.rows /\ win'.cursor = c
    BY <1>2, <1>6, <2>1 DEF Win
  <2>3. \A f \in Facts(log) : f <= s => f <= win.cursor
    BY <1>1, <1>9, HeadIs DEF Ops
  <2>4. \A f \in Facts(log) : f <= c => f <= win.cursor
    BY <1>5, <2>3
  <2>5. win.oldest <= win.cursor + 1
    BY <1>2, <2>1
  <2>6. Stretch(log, win.oldest, c) = Stretch(log, win.oldest, win.cursor)
    BY <1>2, <1>5, <2>4, <2>5, SourceFacts, StretchStays
  <2> QED
    BY <1>5, <2>1, <2>2, <2>6 DEF Piece
<1> QED
  BY <1>1, <1>7, <1>8, <1>9, DoneKeeps

LEMMA HeldIs ==
  ASSUME NEW s \in Nat \ {0}, win \in Win, ~Held(s)
  PROVE  win.held /\ win.cursor < s
  BY DEF Held, Win

LEMMA PushedIs ==
  ASSUME NEW s \in Nat \ {0}, NEW w \in Win
  PROVE  /\ Pushed(w, s) \in Win /\ Pushed(w, s).cursor = s /\ Pushed(w, s).held = w.held
         /\ Pushed(w, s).oldest = w.oldest /\ Pushed(w, s).more = w.more /\ Pushed(w, s).rows = Append(w.rows, s)
<1>1. Append(w.rows, s) \in Seq(Nat)
  BY AppendPlaces DEF Win
<1> QED
  BY <1>1 DEF Pushed, Win

(* The event next to the window is the fact next to its last one.            *)
LEMMA PushedWhole ==
  ASSUME NEW l \in Seq(Tier), NEW low \in Nat, NEW mid \in Nat, NEW rows,
         rows = InOrder(Stretch(l, low, mid)), low <= mid,
         NEW s \in Facts(l), mid < s, Stretch(l, mid + 1, s - 1) = {}
  PROVE  Append(rows, s) = InOrder(Stretch(l, low, s))
<1>1. s \in 1..Len(l) /\ l[s] = "fact" /\ low <= mid + 1
  BY DEF Facts
<1> QED
  BY <1>1, StretchGrows

LEMMA NothingBetween ==
  ASSUME NEW l, NEW low \in Nat, NEW high, high < low, high \in Int
  PROVE  Stretch(l, low, high) = {}
<1>1. \A s \in Nat : ~(low <= s /\ s <= high)
  OBVIOUS
<1> QED
  BY <1>1 DEF Stretch, Facts

-----------------------------------------------------------------------------
LEMMA HoleKeeps ==
  ASSUME WindowInv, queue # <<>>, awaits = "none", linked, Head(queue).tag = "apply",
         NEW s \in Nat \ {0}, s = Head(queue).seq, win.cursor + 1 < s, awaits' = "range",
         Asks([tag |-> "events", from |-> win.cursor + 1, to |-> s - 1]),
         UNCHANGED <<source, up, watch, due, wire, linked, win, queue, paging, synced, gaps>>
  PROVE  WindowInv'
<1>0. PICK r : r = [tag |-> "events", from |-> win.cursor + 1, to |-> s - 1]
  OBVIOUS
<1>1. UNCHANGED <<log, disk, stage, copy, early, up, watch, due, wire, linked, win, queue, paging, synced, gaps>>
  BY DEF source
<1>2. win.cursor \in Nat /\ win.cursor + 1 \in Nat /\ s - 1 \in Nat
  BY DEF WindowInv, WindowTyped, Win
<1>3. r \in Request /\ r.tag = "events" /\ r.from = win.cursor + 1 /\ r.to = s - 1
  BY <1>0, <1>2 DEF Request
<1>4. Asks(r)
  BY <1>0
<1>5. /\ calls' \in Seq(Request) /\ Elements(calls') \subseteq Elements(calls) \cup {r} /\ (~up => calls' = calls)
      /\ \A T : AtMostOne(T, calls, due, wire) =>
            /\ Way(T)' => Way(T) \/ r.tag \in T
            /\ Way(T) => Way(T)'
            /\ (r.tag \in T => ~Way(T)) => AtMostOne(T, calls, due, wire)'
  BY <1>1, <1>3, <1>4, AsksWay
<1>6. (\A T \in Kinds : AtMostOne(T, calls, due, wire)) /\ ~Way(Span) /\ ~Way(Cut)
  BY IdleIs DEF WindowInv, LineInv, Idle
<1>7. /\ \A f \in Coming : f.tag \notin {"cut", "range"}
      /\ \A q \in Elements(calls) : q.tag # "events" /\ q.tag # "attach"
  BY IdleIs
<1>8. WindowTyped' /\ SourceInv'
  BY <1>1, <1>5 DEF WindowInv, WindowTyped, SourceInv, None
<1>9. /\ Way(Boot)' <=> Way(Boot)
      /\ Way(Leaf)' <=> Way(Leaf)
      /\ ~Way(Cut)'
      /\ \A T \in Kinds : AtMostOne(T, calls, due, wire)'
  BY <1>3, <1>5, <1>6, KindsApart
<1>10. (Cutting' <=> Cutting) /\ Coming' = Coming
  BY <1>1 DEF Cutting, Coming
<1>11. LineInv'
  BY <1>1, <1>5, <1>9 DEF WindowInv, LineInv
<1>12. BootInv'
  BY <1>1, <1>9, <1>10 DEF WindowInv, BootInv
<1>13. ReachInv' /\ SettledInv' /\ CutInv'
  BY <1>1, <1>10 DEF WindowInv, DataInv, ReachInv, SettledInv, CutInv, CutOk, Piece
<1>14. WholeInv'
  <2> SUFFICES ASSUME gaps = {}, synced PROVE WholeInv'
    BY <1>1 DEF WholeInv
  <2>1. \A f \in Coming' : PageOk(f)' /\ SpanOk(f)'
    BY <1>1, <1>7, <1>10 DEF WindowInv, DataInv, WholeInv, PageOk, SpanOk, Piece
  <2>2. \A q \in Elements(calls') : PageAsked(q)' /\ SpanAsked(q)'
    <3>1. ASSUME NEW q \in Elements(calls) PROVE PageAsked(q)' /\ SpanAsked(q)'
      BY <1>1, <1>7 DEF WindowInv, DataInv, WholeInv, PageAsked, SpanAsked
    <3>2. PageAsked(r)' /\ SpanAsked(r)'
      BY <1>1, <1>3 DEF PageAsked, SpanAsked
    <3> QED
      BY <1>5, <3>1, <3>2
  <2> QED
    BY <1>1, <2>1, <2>2 DEF WindowInv, DataInv, WholeInv, Piece
<1>15. PendingInv'
  <2>1. \A b : Base(b)' => Base(b)
    BY <1>1, <1>10 DEF Base
  <2> QED
    BY <1>1, <2>1 DEF WindowInv, DataInv, PendingInv
<1>16. TokenInv'
  BY <1>1, <1>9 DEF WindowInv, DataInv, TokenInv
<1> QED
  BY <1>8, <1>11, <1>12, <1>13, <1>14, <1>15, <1>16 DEF WindowInv, DataInv

LEMMA ApplyKeeps ==
  ASSUME WindowInv, Run, Apply
  PROVE  WindowInv'
<1>0. PICK s : s = Head(queue).seq
  OBVIOUS
<1> DEFINE hole == ~Held(s) /\ s > win.cursor + 1
<1>1. /\ queue # <<>> /\ awaits = "none" /\ Head(queue).tag = "apply"
      /\ UNCHANGED <<source, up, watch, due, wire, linked, paging, synced, gaps>>
  BY DEF Run, Busy, Apply
<1>2. \/ Held(s) /\ queue' = Tail(queue) /\ UNCHANGED <<win, awaits, calls>>
      \/ ~Held(s) /\ ~hole /\ win' = Pushed(win, s) /\ queue' = Tail(queue) /\ UNCHANGED <<awaits, calls>>
      \/ hole /\ linked /\ awaits' = "range" /\ UNCHANGED <<win, queue>>
           /\ Asks([tag |-> "events", from |-> win.cursor + 1, to |-> s - 1])
      \/ hole /\ ~linked /\ queue' = Tail(queue) /\ UNCHANGED <<win, awaits, calls>>
  BY <1>0 DEF Apply, Done
<1>3. queue \in Seq(Op) /\ Head(queue) \in Op /\ win \in Win /\ win.cursor \in Nat /\ win.oldest \in Nat \ {0}
      /\ win.held \in BOOLEAN
  BY <1>1, TailPlaces DEF WindowInv, WindowTyped, Win
<1>4. s \in Nat \ {0}
  BY <1>0, <1>1, <1>3, OpParts
<1>5. ASSUME gaps = {} PROVE win.cursor <= disk /\ s <= disk /\ disk \in Nat
  BY <1>0, <1>1, <1>3, <1>4, <1>5, HeadIs, SourceFacts DEF Ops, WindowInv, DataInv, ReachInv
<1>6. ASSUME gaps = {}, synced
      PROVE  /\ win.held /\ win.oldest <= win.cursor /\ Piece(win.rows, win.oldest, win.cursor)
             /\ s \in Facts(log)
  BY <1>0, <1>1, <1>6, HeadIs DEF Ops, WindowInv, DataInv, WholeInv
<1>7. CASE Held(s) /\ queue' = Tail(queue) /\ UNCHANGED <<win, awaits, calls>>
  <2>1. ASSUME gaps = {}, synced
        PROVE  /\ win'.held /\ win'.oldest = win.oldest /\ win.cursor <= win'.cursor
               /\ Piece(win'.rows, win'.oldest, win'.cursor) /\ s <= win'.cursor
    BY <1>3, <1>6, <1>7, <2>1 DEF Held
  <2>2. win' \in Win /\ (gaps = {} => win'.cursor <= disk)
    BY <1>3, <1>5, <1>7
  <2> QED
    BY <1>0, <1>1, <1>7, <2>1, <2>2, DoneKeeps
<1>8. CASE ~Held(s) /\ ~hole /\ win' = Pushed(win, s) /\ queue' = Tail(queue) /\ UNCHANGED <<awaits, calls>>
  <2>1. win.cursor < s /\ s = win.cursor + 1 /\ win.held
    BY <1>3, <1>4, <1>8, HeldIs
  <2>2. /\ win' \in Win /\ win'.cursor = s /\ win'.held = win.held
        /\ win'.oldest = win.oldest /\ win'.rows = Append(win.rows, s)
    BY <1>3, <1>4, <1>8, PushedIs
  <2>3. ASSUME gaps = {}, synced PROVE Piece(win'.rows, win'.oldest, s)
    <3>1. Stretch(log, win.cursor + 1, s - 1) = {}
      <4>1. s - 1 < win.cursor + 1 /\ s - 1 \in Int /\ win.cursor + 1 \in Nat
        BY <1>3, <1>4, <2>1
      <4> QED
        BY <4>1, NothingBetween
    <3>2. win.rows = InOrder(Stretch(log, win.oldest, win.cursor)) /\ win.oldest <= win.cursor /\ s \in Facts(log)
      BY <1>6, <2>3 DEF Piece
    <3>3. Append(win.rows, s) = InOrder(Stretch(log, win.oldest, s))
      <4>1. PICK low, mid, rows : low = win.oldest /\ mid = win.cursor /\ rows = win.rows
        OBVIOUS
      <4>2. /\ log \in Seq(Tier) /\ low \in Nat /\ mid \in Nat /\ rows = InOrder(Stretch(log, low, mid)) /\ low <= mid
            /\ s \in Facts(log) /\ mid < s /\ Stretch(log, mid + 1, s - 1) = {}
        BY <1>3, <2>1, <3>1, <3>2, <4>1, SourceFacts
      <4>3. Append(rows, s) = InOrder(Stretch(log, low, s))
        BY <4>2, PushedWhole
      <4> QED
        BY <4>1, <4>3
    <3> QED
      BY <2>2, <3>3 DEF Piece
  <2>4. win.cursor <= s /\ s <= s
    BY <1>3, <1>4, <2>1
  <2>5. gaps = {} => win'.cursor <= disk
    BY <1>5, <2>2
  <2>6. gaps = {} /\ synced =>
          /\ win'.held /\ win'.oldest = win.oldest /\ win.cursor <= win'.cursor
          /\ Piece(win'.rows, win'.oldest, win'.cursor)
          /\ Head(queue).tag = "apply" => Head(queue).seq <= win'.cursor
    BY <1>0, <2>1, <2>2, <2>3, <2>4
  <2> QED
    BY <1>1, <1>8, <2>2, <2>5, <2>6, DoneKeeps
<1>9. CASE hole /\ linked /\ awaits' = "range" /\ UNCHANGED <<win, queue>>
           /\ Asks([tag |-> "events", from |-> win.cursor + 1, to |-> s - 1])
  <2>1. win.cursor + 1 < s
    BY <1>3, <1>4, <1>9
  <2> QED
    BY <1>0, <1>1, <1>4, <1>9, <2>1, HoleKeeps
<1>10. CASE hole /\ ~linked /\ queue' = Tail(queue) /\ UNCHANGED <<win, awaits, calls>>
  BY <1>1, <1>10, LostKeeps
<1> QED
  BY <1>2, <1>7, <1>8, <1>9, <1>10

LEMMA RunKeeps ==
  ASSUME WindowInv, Run
  PROVE  WindowInv'
<1>1. StartAttach \/ Note \/ Apply
  BY DEF Run
<1> QED
  BY <1>1, StartAttachKeeps, NoteKeeps, ApplyKeeps

LEMMA AskOlderKeeps ==
  ASSUME WindowInv, AskOlder
  PROVE  WindowInv'
<1>0. PICK r : r = [tag |-> "page", through |-> win.cursor, before |-> win.oldest]
  OBVIOUS
<1>1. /\ linked /\ ~paging /\ paging' = TRUE /\ Asks(r)
      /\ UNCHANGED <<log, disk, stage, copy, early, up, watch, due, wire, linked, win, queue, awaits, synced, gaps>>
  BY <1>0 DEF AskOlder, source
<1>2. win.cursor \in Nat /\ win.oldest \in Nat \ {0}
  BY DEF WindowInv, WindowTyped, Win
<1>3. r \in Request /\ r.tag = "page" /\ r.through = win.cursor /\ r.before = win.oldest
  BY <1>0, <1>2 DEF Request
<1>5. /\ calls' \in Seq(Request) /\ Elements(calls') \subseteq Elements(calls) \cup {r} /\ (~up => calls' = calls)
      /\ \A T : AtMostOne(T, calls, due, wire) =>
            /\ Way(T)' => Way(T) \/ r.tag \in T
            /\ Way(T) => Way(T)'
            /\ up /\ r.tag \in T => Way(T)'
            /\ (r.tag \in T => ~Way(T)) => AtMostOne(T, calls, due, wire)'
  BY <1>1, <1>3, AsksWay
<1>6. (\A T \in Kinds : AtMostOne(T, calls, due, wire)) /\ ~Way(Leaf)
  BY <1>1 DEF WindowInv, LineInv
<1>8. WindowTyped' /\ SourceInv'
  BY <1>1, <1>5 DEF WindowInv, WindowTyped, SourceInv, None
<1>9. /\ Way(Boot)' <=> Way(Boot)
      /\ Way(Cut)' <=> Way(Cut)
      /\ Way(Span)' <=> Way(Span)
      /\ up => Way(Leaf)'
      /\ \A T \in Kinds : AtMostOne(T, calls, due, wire)'
  BY <1>3, <1>5, <1>6, KindsApart
<1>10. (Cutting' <=> Cutting) /\ Coming' = Coming
  BY <1>1 DEF Cutting, Coming
<1>11. LineInv'
  BY <1>1, <1>5, <1>9 DEF WindowInv, LineInv
<1>12. BootInv'
  BY <1>1, <1>9, <1>10 DEF WindowInv, BootInv
<1>13. ReachInv' /\ SettledInv' /\ CutInv'
  BY <1>1, <1>10 DEF WindowInv, DataInv, ReachInv, SettledInv, CutInv, CutOk, Piece
<1>14. WholeInv'
  <2> SUFFICES ASSUME gaps = {}, synced PROVE WholeInv'
    BY <1>1 DEF WholeInv
  <2>1. \A f \in Coming' : PageOk(f)' /\ SpanOk(f)'
    BY <1>1, <1>10 DEF WindowInv, DataInv, WholeInv, PageOk, SpanOk, Piece
  <2>2. \A q \in Elements(calls') : PageAsked(q)' /\ SpanAsked(q)'
    <3>1. ASSUME NEW q \in Elements(calls) PROVE PageAsked(q)' /\ SpanAsked(q)'
      BY <1>1 DEF WindowInv, DataInv, WholeInv, PageAsked, SpanAsked
    <3>2. PageAsked(r)' /\ SpanAsked(r)'
      BY <1>1, <1>3 DEF PageAsked, SpanAsked, WindowInv, DataInv, WholeInv
    <3> QED
      BY <1>5, <3>1, <3>2
  <2> QED
    BY <1>1, <2>1, <2>2 DEF WindowInv, DataInv, WholeInv, Piece
<1>15. PendingInv'
  <2>1. \A b : Base(b)' => Base(b)
    BY <1>1, <1>10 DEF Base
  <2> QED
    BY <1>1, <2>1 DEF WindowInv, DataInv, PendingInv
<1>16. TokenInv'
  BY <1>1, <1>9 DEF WindowInv, DataInv, TokenInv
<1> QED
  BY <1>8, <1>11, <1>12, <1>13, <1>14, <1>15, <1>16 DEF WindowInv, DataInv

LEMMA LinkUpKeeps ==
  ASSUME WindowInv, LinkUp
  PROVE  WindowInv'
<1>0. PICK r : r = [tag |-> "detach"]
  OBVIOUS
<1>1. /\ ~linked /\ ~up /\ wire = <<>> /\ ~Busy
      /\ up' = TRUE /\ linked' = TRUE /\ watch' = "all" /\ calls' = <<r>>
      /\ UNCHANGED <<log, disk, stage, copy, early, due, wire, win, queue, awaits, paging, synced, gaps>>
  BY <1>0 DEF LinkUp, source
<1>2. calls = <<>> /\ due = <<>> /\ awaits = "none" /\ ~synced /\ ~paging /\ queue = <<>>
  BY <1>1 DEF WindowInv, LineInv, Busy
<1>3. r \in Request /\ r.tag = "detach"
  BY <1>0 DEF Request
<1>4. calls' \in Seq(Request) /\ calls' = Append(<<>>, r) /\ <<>> \in Seq(Request)
  BY <1>1, <1>3
<1>5. \A T : (Has(calls', T) <=> r.tag \in T) /\ Lone(calls', T) /\ ~Has(due', T) /\ ~Has(wire', T)
             /\ Lone(due', T) /\ Lone(wire', T)
  <2>1. due' = <<>> /\ wire' = <<>>
    BY <1>1, <1>2
  <2>2. \A T : ~Has(<<>>, T) /\ Lone(<<>>, T)
    BY EmptyHas
  <2>3. \A T : (Has(calls', T) <=> r.tag \in T) /\ Lone(calls', T)
    BY <1>3, <1>4, <2>2, AppendHas
  <2> QED
    BY <2>1, <2>2, <2>3
<1>6. /\ \A T : AtMostOne(T, calls, due, wire)'
      /\ Way(Boot)' /\ ~Way(Cut)' /\ ~Way(Span)' /\ ~Way(Leaf)' /\ ~Cutting'
  BY <1>3, <1>5, KindsApart DEF AtMostOne, Way, OnItsWay, Cutting
<1>7. Coming' = {} /\ \A T : ~Has(queue', T) /\ Lone(queue', T)
  BY <1>1, <1>2, EmptyHas DEF Coming
<1>8. WindowTyped' /\ SourceInv'
  BY <1>1, <1>4 DEF WindowInv, WindowTyped, SourceInv, None
<1>9. LineInv'
  BY <1>1, <1>2, <1>6 DEF WindowInv, LineInv
<1>10. BootInv'
  BY <1>1, <1>2, <1>5, <1>6, <1>7 DEF BootInv
<1>11. ReachInv'
  BY <1>1, <1>7 DEF WindowInv, DataInv, ReachInv
<1>12. SettledInv' /\ WholeInv' /\ CutInv' /\ PendingInv' /\ TokenInv'
  BY <1>1, <1>2, <1>6, <1>7 DEF SettledInv, WholeInv, CutInv, PendingInv, Base, TokenInv
<1> QED
  BY <1>8, <1>9, <1>10, <1>11, <1>12 DEF WindowInv, DataInv

-----------------------------------------------------------------------------
(* A frame is received.                                                      *)

Receives == wire # <<>> /\ wire' = Tail(wire) /\ ~Busy /\ UNCHANGED <<source, up, watch, due>>

LEMMA Takes ==
  ASSUME WindowInv, wire # <<>>
  PROVE  /\ Tail(wire) \in Seq(Frame) /\ Head(wire) \in Frame /\ wire \in Seq(Frame) /\ linked
         /\ Head(wire) \in Elements(wire) /\ Elements(Tail(wire)) \subseteq Elements(wire)
         /\ \A T : Has(wire, T) <=> Has(Tail(wire), T) \/ Head(wire).tag \in T
         /\ \A i \in DOMAIN Tail(wire) : i + 1 \in DOMAIN wire /\ Tail(wire)[i] = wire[i + 1]
         /\ \A i \in DOMAIN Tail(wire) : Tail(wire)[i].tag = "bye" => i = Len(Tail(wire)) /\ ~up
         /\ \A i, j \in DOMAIN Tail(wire) : Tail(wire)[i].tag \in Boot /\ Tail(wire)[j].tag = "event" => j < i
         /\ Head(wire).tag \in Boot => ~Has(Tail(wire), {"event"})
         /\ Head(wire).tag = "bye" => Tail(wire) = <<>> /\ ~up
<1>1. wire \in Seq(Frame)
  BY DEF WindowInv, WindowTyped
<1>2. /\ Tail(wire) \in Seq(Frame) /\ Head(wire) \in Frame /\ Head(wire) = wire[1]
      /\ Len(wire) \in Nat \ {0} /\ Len(Tail(wire)) = Len(wire) - 1
      /\ DOMAIN wire = 1..Len(wire) /\ DOMAIN Tail(wire) = 1..(Len(wire) - 1)
      /\ \A i \in 1..(Len(wire) - 1) : Tail(wire)[i] = wire[i + 1] /\ i + 1 \in 1..Len(wire)
      /\ Elements(wire) = Elements(Tail(wire)) \cup {Head(wire)}
      /\ \A T : Has(wire, T) <=> Has(Tail(wire), T) \/ Head(wire).tag \in T
  BY <1>1, TailPlaces, TailElements, TailHas
<1>m. PICK m, n : m = Len(Tail(wire)) /\ n = Len(wire)
  OBVIOUS
<1>n. n \in Nat /\ m = n - 1
  BY <1>2, <1>m
<1>3. linked
  BY DEF WindowInv, LineInv
<1>4. /\ \A i \in DOMAIN wire : wire[i].tag = "bye" => i = Len(wire) /\ ~up
      /\ \A i, j \in DOMAIN wire : wire[i].tag \in Boot /\ wire[j].tag = "event" => j < i
  BY DEF WindowInv, LineInv, BootInv
<1>5. ASSUME NEW i \in DOMAIN Tail(wire), Tail(wire)[i].tag = "bye" PROVE i = Len(Tail(wire)) /\ ~up
  <2>1. i \in Nat /\ i + 1 \in DOMAIN wire /\ wire[i + 1].tag = "bye"
    BY <1>2, <1>5
  <2>2. i + 1 = n /\ ~up
    BY <1>4, <1>m, <2>1
  <2>3. i = m
    BY <1>n, <2>1, <2>2
  <2> QED
    BY <1>m, <2>2, <2>3
<1>6. ASSUME NEW i \in DOMAIN Tail(wire), NEW j \in DOMAIN Tail(wire),
             Tail(wire)[i].tag \in Boot, Tail(wire)[j].tag = "event"
      PROVE  j < i
  <2>1. /\ i \in Nat /\ j \in Nat /\ i + 1 \in DOMAIN wire /\ j + 1 \in DOMAIN wire
        /\ wire[i + 1].tag \in Boot /\ wire[j + 1].tag = "event"
    BY <1>2, <1>6
  <2>2. j + 1 < i + 1
    BY <1>4, <2>1
  <2> QED
    BY <2>1, <2>2
<1>7. ASSUME Head(wire).tag \in Boot, NEW i \in DOMAIN Tail(wire), Tail(wire)[i].tag = "event" PROVE FALSE
  <2>1. /\ i \in Nat /\ i + 1 \in DOMAIN wire /\ 1 \in DOMAIN wire
        /\ wire[1].tag \in Boot /\ wire[i + 1].tag = "event"
    BY <1>2, <1>7
  <2>2. i + 1 < 1
    BY <1>4, <2>1
  <2> QED
    BY <2>1, <2>2
<1>8. ASSUME Head(wire).tag = "bye" PROVE Tail(wire) = <<>> /\ ~up
  <2>1. 1 \in DOMAIN wire /\ wire[1].tag = "bye"
    BY <1>2, <1>8
  <2>2. 1 = n /\ ~up
    BY <1>4, <1>m, <2>1
  <2>3. m = 0
    BY <1>n, <2>2
  <2> QED
    BY <1>2, <1>m, <2>2, <2>3, EmptySeq
<1>9. Head(wire).tag \in Boot => ~Has(Tail(wire), {"event"})
  BY <1>7 DEF Has
<1> QED
  BY <1>1, <1>2, <1>3, <1>5, <1>6, <1>8, <1>9

(* What it leaves on its way, where nothing is asked for in turn.            *)
LEMMA Took ==
  ASSUME WindowInv, Receives, UNCHANGED calls
  PROVE  /\ \A T \in Kinds : AtMostOne(T, calls, due, wire)'
         /\ \A T \in Kinds : Head(wire).tag \in T => Way(T) /\ ~Way(T)' /\ \A f \in Coming' : f.tag \notin T
         /\ \A T \in Kinds : Head(wire).tag \notin T => (Way(T)' <=> Way(T))
         /\ Elements(calls') = Elements(calls) /\ Coming' \subseteq Coming /\ Head(wire) \in Coming
         /\ Head(wire).tag # "cut" => (Cutting' <=> Cutting)
<1>1. /\ Tail(wire) \in Seq(Frame) /\ Head(wire) \in Frame /\ wire \in Seq(Frame) /\ wire # <<>>
      /\ Head(wire) \in Elements(wire) /\ Elements(Tail(wire)) \subseteq Elements(wire)
      /\ \A T : Has(wire, T) <=> Has(Tail(wire), T) \/ Head(wire).tag \in T
  BY Takes DEF Receives
<1>2. calls' = calls /\ due' = due /\ wire' = Tail(wire)
  BY DEF Receives
<1>3. ASSUME NEW T \in Kinds
      PROVE  /\ AtMostOne(T, calls, due, Tail(wire))
             /\ Head(wire).tag \in T => Way(T) /\ ~OnItsWay(T, calls, due, Tail(wire))
             /\ Head(wire).tag \notin T => (OnItsWay(T, calls, due, Tail(wire)) <=> Way(T))
  <2>1. AtMostOne(T, calls, due, wire)
    BY DEF WindowInv, LineInv
  <2> QED
    BY <1>1, <2>1, Received DEF Way
<1>4. ASSUME NEW T \in Kinds
      PROVE  /\ AtMostOne(T, calls, due, wire)'
             /\ Head(wire).tag \in T => Way(T) /\ ~Way(T)'
             /\ Head(wire).tag \notin T => (Way(T)' <=> Way(T))
  BY <1>2, <1>3 DEF Way
<1>5. Coming' = Elements(due) \cup Elements(Tail(wire))
  BY <1>2 DEF Coming
<1>6. ASSUME NEW T \in Kinds, Head(wire).tag \in T, NEW f \in Coming', f.tag \in T PROVE FALSE
  <2>1. Has(due, T) \/ Has(Tail(wire), T)
    BY <1>5, <1>6, HasElements
  <2> QED
    BY <1>3, <1>6, <2>1 DEF OnItsWay
<1>7. Coming' \subseteq Coming /\ Head(wire) \in Coming
  BY <1>1, <1>5 DEF Coming
<1>8. ASSUME Head(wire).tag # "cut" PROVE Cutting' <=> Cutting
  BY <1>1, <1>2, <1>8 DEF Cutting
<1> QED
  BY <1>2, <1>4, <1>6, <1>7, <1>8

LEMMA HearsKeeps ==
  ASSUME WindowInv, Receives, Hears(Head(wire))
  PROVE  WindowInv'
<1>0. PICK h, o : h = Head(wire) /\ o = [tag |-> IF h.tier = "trace" THEN "noted" ELSE "apply", seq |-> h.seq]
  OBVIOUS
<1>1. /\ wire # <<>> /\ wire' = Tail(wire) /\ h.tag = "event" /\ queue' = Append(queue, o)
      /\ UNCHANGED <<log, disk, stage, copy, early, up, watch, due, calls, linked, win, awaits, paging, synced, gaps>>
  BY <1>0 DEF Receives, Hears, source
<1>2. /\ Tail(wire) \in Seq(Frame) /\ h \in Frame /\ wire \in Seq(Frame) /\ linked
      /\ \A T : Has(wire, T) <=> Has(Tail(wire), T) \/ h.tag \in T
      /\ \A i \in DOMAIN Tail(wire) : i + 1 \in DOMAIN wire /\ Tail(wire)[i] = wire[i + 1]
      /\ \A i \in DOMAIN Tail(wire) : Tail(wire)[i].tag = "bye" => i = Len(Tail(wire)) /\ ~up
      /\ \A i, j \in DOMAIN Tail(wire) : Tail(wire)[i].tag \in Boot /\ Tail(wire)[j].tag = "event" => j < i
  BY <1>0, <1>1, Takes
<1>3. Has(wire, {"event"})
  BY <1>1, <1>2
<1>4. h.seq \in Nat \ {0} /\ h.tier \in Tier
  BY <1>1, <1>2, FrameParts
<1>5. /\ o \in Op /\ o.tag \in Ops /\ o.seq = h.seq /\ o.tag = (IF h.tier = "trace" THEN "noted" ELSE "apply")
      /\ o.tag # "attach"
  BY <1>0, <1>4 DEF Op, Ops
<1>6. /\ \A T \in Kinds : AtMostOne(T, calls, due, wire)'
      /\ \A T \in Kinds : Way(T)' <=> Way(T)
      /\ Elements(calls') = Elements(calls) /\ Coming' \subseteq Coming
      /\ Cutting' <=> Cutting
  <2>1. \A T \in Kinds : h.tag \notin T
    BY <1>1, FrameFacts
  <2> QED
    BY <1>0, <1>1, <2>1, Took
<1>7. queue \in Seq(Op)
  BY DEF WindowInv, WindowTyped
<1>8. /\ queue' \in Seq(Op) /\ DOMAIN queue = 1..Len(queue) /\ Len(queue) \in Nat
      /\ DOMAIN queue' = 1..(Len(queue) + 1)
      /\ \A i \in 1..Len(queue) : queue'[i] = queue[i]
      /\ queue'[Len(queue) + 1] = o
      /\ \A i : i \in 1..(Len(queue) + 1) <=> i \in 1..Len(queue) \/ i = Len(queue) + 1
      /\ \A T : Has(queue', T) <=> Has(queue, T) \/ o.tag \in T
      /\ Lone(queue, {"attach"}) => Lone(queue', {"attach"})
  BY <1>1, <1>5, <1>7, AppendPlaces, AppendHas
<1>9. queue # <<>> => queue' # <<>> /\ Head(queue') = Head(queue)
  <2> SUFFICES ASSUME queue # <<>> PROVE queue' # <<>> /\ Head(queue') = Head(queue)
    OBVIOUS
  <2>1. Head(queue) = queue[1] /\ 1 \in 1..Len(queue)
    BY <1>7, TailPlaces
  <2>2. queue' # <<>>
    BY <1>8, EmptySeq
  <2>3. Head(queue') = queue'[1]
    BY <1>8, <2>2, TailPlaces
  <2> QED
    BY <1>8, <2>1, <2>2, <2>3
<1>10. WindowTyped' /\ SourceInv'
  BY <1>1, <1>2, <1>8 DEF WindowInv, WindowTyped, SourceInv, None
<1>11. LineInv'
  BY <1>1, <1>2, <1>6, <1>9, KindsApart DEF WindowInv, LineInv
<1>12. BootInv'
  BY <1>1, <1>2, <1>3, <1>5, <1>6, <1>8, KindsApart DEF WindowInv, BootInv
<1>13. ReachInv'
  <2> SUFFICES ASSUME gaps = {} PROVE ReachInv'
    BY <1>1 DEF ReachInv
  <2>1. h.seq \in 1..disk
    <3>1. PICK i \in DOMAIN wire : wire[i] = h
      BY <1>0, <1>1, <1>2, TailPlaces
    <3> QED
      BY <1>1, <3>1 DEF WindowInv, DataInv, ReachInv
  <2>2. \A i \in DOMAIN queue' : queue'[i].tag \in Ops => queue'[i].seq \in 1..disk
    BY <1>5, <1>8, <2>1 DEF WindowInv, DataInv, ReachInv
  <2>3. \A i \in DOMAIN wire' : wire'[i].tag = "event" => wire'[i].seq \in 1..disk
    BY <1>1, <1>2 DEF WindowInv, DataInv, ReachInv
  <2> QED
    BY <1>1, <1>6, <2>2, <2>3 DEF WindowInv, DataInv, ReachInv
<1>14. SettledInv'
  BY <1>1, <1>3, <1>6 DEF WindowInv, DataInv, SettledInv
<1>15. WholeInv'
  <2> SUFFICES ASSUME gaps = {}, synced PROVE WholeInv'
    BY <1>1 DEF WholeInv
  <2>1. (\E f \in Coming : f.tag = "range") \/ (\E r \in Elements(calls) : r.tag = "events") \/ awaits = "range"
          => Head(queue') = Head(queue)
    BY <1>9, IdleIs DEF WindowInv, LineInv, WindowTyped
  <2>2. \A f \in Coming' : PageOk(f)' /\ SpanOk(f)'
    BY <1>1, <1>6, <2>1 DEF WindowInv, DataInv, WholeInv, PageOk, SpanOk, Piece
  <2>3. \A r \in Elements(calls') : PageAsked(r)' /\ SpanAsked(r)'
    BY <1>1, <1>6, <2>1 DEF WindowInv, DataInv, WholeInv, PageAsked, SpanAsked
  <2> QED
    BY <1>1, <2>1, <2>2, <2>3 DEF WindowInv, DataInv, WholeInv, Piece
<1>16. CutInv'
  BY <1>1, <1>6 DEF WindowInv, DataInv, CutInv, CutOk, Piece
<1>17. PendingInv'
  <2> SUFFICES ASSUME gaps = {}, NEW b \in Nat, Base(b)'
               PROVE  Based(b, log, queue', Tail(wire)) /\ (up => Complete(b, log, queue', Tail(wire)))
    BY <1>1 DEF PendingInv
  <2>1. Base(b)
    BY <1>1, <1>6 DEF Base
  <2>2. Based(b, log, queue, wire) /\ (up => Complete(b, log, queue, wire))
    BY <2>1 DEF WindowInv, DataInv, PendingInv
  <2>3. /\ Based(b, log, Append(queue, o), Tail(wire))
        /\ Complete(b, log, queue, wire) => Complete(b, log, Append(queue, o), Tail(wire))
    BY <1>0, <1>1, <1>2, <1>4, <1>5, <1>7, <2>2, BasedHeard
  <2> QED
    BY <1>1, <2>2, <2>3
<1>18. TokenInv'
  BY <1>1, <1>6, <1>8, KindsApart DEF WindowInv, DataInv, TokenInv
<1> QED
  BY <1>10, <1>11, <1>12, <1>13, <1>14, <1>15, <1>16, <1>17, <1>18 DEF WindowInv, DataInv

-----------------------------------------------------------------------------
(* What a frame that is no event leaves as it was.                           *)
LEMMA ReceivedAny ==
  ASSUME WindowInv, Receives, Head(wire).tag # "event"
  PROVE  /\ UNCHANGED <<log, disk, stage, copy, early, up, watch, due>>
         /\ calls \in Seq(Request) /\ due \in Seq(Answer) /\ wire' \in Seq(Frame)
         /\ wire # <<>> /\ linked /\ Head(wire) \in Frame
         /\ \A T : Has(wire', T) => Has(wire, T)
         /\ \A i \in DOMAIN wire' : i + 1 \in DOMAIN wire /\ wire'[i] = wire[i + 1]
         /\ \A i \in DOMAIN wire' : wire'[i].tag = "bye" => i = Len(wire') /\ ~up
         /\ \A i, j \in DOMAIN wire' : wire'[i].tag \in Boot /\ wire'[j].tag = "event" => j < i
         /\ \A b \in Nat : Based(b, log, queue, wire) =>
              /\ Based(b, log, queue, wire')
              /\ Complete(b, log, queue, wire) => Complete(b, log, queue, wire')
         /\ gaps = {} => \A i \in DOMAIN wire' : wire'[i].tag = "event" => wire'[i].seq \in 1..disk
<1>1. wire' = Tail(wire) /\ wire # <<>> /\ UNCHANGED <<log, disk, stage, copy, early, up, watch, due>>
  BY DEF Receives, source
<1>2. calls \in Seq(Request) /\ due \in Seq(Answer)
  BY DEF WindowInv, WindowTyped
<1>3. /\ wire' \in Seq(Frame) /\ linked /\ Head(wire) \in Frame /\ wire \in Seq(Frame)
      /\ \A T : Has(wire', T) => Has(wire, T)
      /\ \A i \in DOMAIN wire' : i + 1 \in DOMAIN wire /\ wire'[i] = wire[i + 1]
      /\ \A i \in DOMAIN wire' : wire'[i].tag = "bye" => i = Len(wire') /\ ~up
      /\ \A i, j \in DOMAIN wire' : wire'[i].tag \in Boot /\ wire'[j].tag = "event" => j < i
  BY <1>1, Takes
<1>4. ASSUME NEW b \in Nat, Based(b, log, queue, wire)
      PROVE  /\ Based(b, log, queue, wire')
             /\ Complete(b, log, queue, wire) => Complete(b, log, queue, wire')
  BY <1>1, <1>3, <1>4, BasedSkips
<1>5. gaps = {} => \A i \in DOMAIN wire' : wire'[i].tag = "event" => wire'[i].seq \in 1..disk
  BY <1>3 DEF WindowInv, DataInv, ReachInv
<1> QED
  BY <1>1, <1>2, <1>3, <1>4, <1>5

(* And what one that asks for nothing leaves.                                *)
LEMMA Received1 ==
  ASSUME WindowInv, Receives, UNCHANGED calls, Head(wire).tag # "event"
  PROVE  /\ UNCHANGED <<log, disk, stage, copy, early, up, watch, due, calls>>
         /\ calls \in Seq(Request) /\ due \in Seq(Answer) /\ wire' \in Seq(Frame)
         /\ wire # <<>> /\ linked /\ Head(wire) \in Frame
         /\ \A T : Has(wire', T) => Has(wire, T)
         /\ \A i \in DOMAIN wire' : i + 1 \in DOMAIN wire /\ wire'[i] = wire[i + 1]
         /\ \A i \in DOMAIN wire' : wire'[i].tag = "bye" => i = Len(wire') /\ ~up
         /\ \A i, j \in DOMAIN wire' : wire'[i].tag \in Boot /\ wire'[j].tag = "event" => j < i
         /\ \A b \in Nat : Based(b, log, queue, wire) =>
              /\ Based(b, log, queue, wire')
              /\ Complete(b, log, queue, wire) => Complete(b, log, queue, wire')
         /\ gaps = {} => \A i \in DOMAIN wire' : wire'[i].tag = "event" => wire'[i].seq \in 1..disk
  BY ReceivedAny

LEMMA BootsKeeps ==
  ASSUME WindowInv, Receives, Boots(Head(wire))
  PROVE  WindowInv'
<1>0. PICK o : o = [tag |-> "attach"]
  OBVIOUS
<1>1. /\ Head(wire).tag = "detached" /\ queue' = Append(queue, o)
      /\ UNCHANGED <<linked, win, awaits, paging, synced, gaps, calls>>
  BY <1>0 DEF Boots
<1>2. /\ UNCHANGED <<log, disk, stage, copy, early, up, watch, due, calls>>
      /\ calls \in Seq(Request) /\ due \in Seq(Answer) /\ wire' \in Seq(Frame)
      /\ wire # <<>> /\ linked
      /\ \A i \in DOMAIN wire' : wire'[i].tag = "bye" => i = Len(wire') /\ ~up
      /\ \A i, j \in DOMAIN wire' : wire'[i].tag \in Boot /\ wire'[j].tag = "event" => j < i
      /\ gaps = {} => \A i \in DOMAIN wire' : wire'[i].tag = "event" => wire'[i].seq \in 1..disk
  BY <1>1, Received1
<1>3. /\ \A T \in Kinds : AtMostOne(T, calls, due, wire)'
      /\ Way(Boot) /\ ~Way(Boot)'
      /\ (Way(Cut)' <=> Way(Cut)) /\ (Way(Span)' <=> Way(Span)) /\ (Way(Leaf)' <=> Way(Leaf))
      /\ Coming' \subseteq Coming /\ (Cutting' <=> Cutting)
  BY <1>1, KindsApart, Took
<1>4. queue \in Seq(Op) /\ o \in Op /\ o.tag = "attach"
  BY <1>0 DEF WindowInv, WindowTyped, Op
<1>5. ~Has(queue, {"attach"}) /\ ~synced
  BY <1>3 DEF WindowInv, BootInv
<1>6. /\ queue' \in Seq(Op) /\ DOMAIN queue = 1..Len(queue) /\ Len(queue) \in Nat
      /\ DOMAIN queue' = 1..(Len(queue) + 1) /\ Len(queue') = Len(queue) + 1
      /\ \A i \in 1..Len(queue) : queue'[i] = queue[i]
      /\ queue'[Len(queue) + 1] = o
      /\ \A i : i \in 1..(Len(queue) + 1) <=> i \in 1..Len(queue) \/ i = Len(queue) + 1
      /\ \A T : Has(queue', T) <=> Has(queue, T) \/ o.tag \in T
      /\ Lone(queue, {"attach"}) /\ ~Has(queue, {"attach"}) => Lone(queue', {"attach"})
  BY <1>1, <1>4, AppendPlaces, AppendHas
<1>7. ~Way(Cut) /\ ~Cutting
  <2>1. ASSUME Way(Cut) PROVE FALSE
    <3>1. queue # <<>> /\ Head(queue).tag = "attach"
      BY <2>1 DEF WindowInv, LineInv
    <3> QED
      BY <1>4, <1>5, <3>1, TailHas
  <2>2. Cutting => Way(Cut)
    BY CuttingIs, ComingIsOnItsWay DEF Cut
  <2> QED
    BY <2>1, <2>2
<1>8. queue # <<>> => queue' # <<>> /\ Head(queue') = Head(queue)
  <2> SUFFICES ASSUME queue # <<>> PROVE queue' # <<>> /\ Head(queue') = Head(queue)
    OBVIOUS
  <2>1. Head(queue) = queue[1] /\ 1 \in 1..Len(queue)
    BY <1>4, TailPlaces
  <2>2. queue' # <<>>
    BY <1>6, EmptySeq
  <2>3. Head(queue') = queue'[1]
    BY <1>6, <2>2, TailPlaces
  <2> QED
    BY <1>6, <2>1, <2>2, <2>3
<1>9. watch = "none" /\ ~Has(wire', {"event"})
  <2>1. wire \in Seq(Frame) /\ Has(wire, Boot) /\ ~Has(Tail(wire), {"event"}) /\ wire' = Tail(wire)
    BY <1>1, <1>2, KindsApart, Takes DEF Receives
  <2> QED
    BY <2>1 DEF WindowInv, BootInv
<1>10. WindowTyped' /\ SourceInv'
  BY <1>1, <1>2, <1>6 DEF WindowInv, WindowTyped, SourceInv, None
<1>11. LineInv'
  BY <1>1, <1>2, <1>3, <1>8 DEF WindowInv, LineInv
<1>12. BootInv'
  <2>1. Lone(queue', {"attach"}) /\ ~Way(Boot)' /\ ~synced' /\ ~Cutting' /\ watch' = "none" /\ ~Has(wire', {"event"})
    BY <1>1, <1>2, <1>3, <1>5, <1>6, <1>7, <1>9 DEF WindowInv, BootInv
  <2>2. queue'[Len(queue')].tag = "attach"
    BY <1>4, <1>6
  <2> QED
    BY <1>2, <2>1, <2>2 DEF BootInv
<1>13. ReachInv'
  <2>1. \A i \in DOMAIN queue' : queue'[i].tag \in Ops => i \in DOMAIN queue /\ queue'[i] = queue[i]
    BY <1>4, <1>6 DEF Ops
  <2> QED
    BY <1>1, <1>2, <1>3, <2>1 DEF WindowInv, DataInv, ReachInv
<1>14. SettledInv' /\ WholeInv' /\ TokenInv'
  BY <1>1, <1>3, <1>4, <1>5, <1>6, <1>7 DEF SettledInv, WholeInv, TokenInv
<1>15. CutInv'
  BY <1>1, <1>2, <1>3 DEF WindowInv, DataInv, CutInv, CutOk, Piece
<1>16. PendingInv'
  <2>1. \A b : ~Base(b)'
    BY <1>1, <1>3, <1>5, <1>7, CuttingIs DEF Base
  <2> QED
    BY <2>1 DEF PendingInv
<1> QED
  BY <1>10, <1>11, <1>12, <1>13, <1>14, <1>15, <1>16 DEF WindowInv, DataInv

LEMMA RefusedKeeps ==
  ASSUME WindowInv, Receives, Refused(Head(wire))
  PROVE  WindowInv'
<1>1. /\ Head(wire).tag = "refused" /\ paging' = FALSE
      /\ UNCHANGED <<linked, win, queue, awaits, synced, gaps, calls>>
  BY DEF Refused
<1>2. /\ UNCHANGED <<log, disk, stage, copy, early, up, watch, due, calls>>
      /\ wire' \in Seq(Frame) /\ wire # <<>> /\ linked
      /\ \A T : Has(wire', T) => Has(wire, T)
      /\ \A i \in DOMAIN wire' : wire'[i].tag = "bye" => i = Len(wire') /\ ~up
      /\ \A i, j \in DOMAIN wire' : wire'[i].tag \in Boot /\ wire'[j].tag = "event" => j < i
      /\ \A b \in Nat : Based(b, log, queue, wire) =>
           /\ Based(b, log, queue, wire')
           /\ Complete(b, log, queue, wire) => Complete(b, log, queue, wire')
      /\ gaps = {} => \A i \in DOMAIN wire' : wire'[i].tag = "event" => wire'[i].seq \in 1..disk
  BY <1>1, Received1
<1>3. /\ \A T \in Kinds : AtMostOne(T, calls, due, wire)'
      /\ Way(Leaf) /\ ~Way(Leaf)'
      /\ (Way(Cut)' <=> Way(Cut)) /\ (Way(Span)' <=> Way(Span)) /\ (Way(Boot)' <=> Way(Boot))
      /\ Coming' \subseteq Coming /\ (Cutting' <=> Cutting)
  BY <1>1, KindsApart, Took
<1>4. WindowTyped' /\ SourceInv'
  BY <1>1, <1>2 DEF WindowInv, WindowTyped, SourceInv, None
<1>5. LineInv'
  BY <1>1, <1>2, <1>3 DEF WindowInv, LineInv
<1>6. BootInv'
  BY <1>1, <1>2, <1>3 DEF WindowInv, BootInv
<1>7. ReachInv' /\ SettledInv' /\ CutInv' /\ TokenInv'
  BY <1>1, <1>2, <1>3 DEF WindowInv, DataInv, ReachInv, SettledInv, CutInv, CutOk, Piece, TokenInv
<1>8. WholeInv'
  <2>1. \A f : (PageOk(f)' <=> PageOk(f)) /\ (SpanOk(f)' <=> SpanOk(f)) /\ (PageAsked(f)' <=> PageAsked(f))
               /\ (SpanAsked(f)' <=> SpanAsked(f))
    BY <1>1, <1>2 DEF PageOk, SpanOk, Piece, PageAsked, SpanAsked
  <2>2. Elements(calls') = Elements(calls)
    BY <1>1
  <2> QED
    BY <1>1, <1>2, <1>3, <2>1, <2>2 DEF WindowInv, DataInv, WholeInv, Piece
<1>9. PendingInv'
  <2> SUFFICES ASSUME gaps = {}, NEW b \in Nat, Base(b)'
               PROVE  Based(b, log, queue, wire') /\ (up => Complete(b, log, queue, wire'))
    BY <1>1, <1>2 DEF PendingInv
  <2>1. Base(b)
    BY <1>1, <1>3 DEF Base
  <2> QED
    BY <1>2, <2>1 DEF WindowInv, DataInv, PendingInv
<1> QED
  BY <1>4, <1>5, <1>6, <1>7, <1>8, <1>9 DEF WindowInv, DataInv

LEMMA EndsKeeps ==
  ASSUME WindowInv, Receives, Ends(Head(wire))
  PROVE  WindowInv'
<1>1. /\ Head(wire).tag = "bye" /\ linked' = FALSE /\ synced' = FALSE /\ paging' = FALSE /\ awaits' = "none"
      /\ queue' = (IF awaits = "none" THEN queue ELSE Tail(queue))
      /\ UNCHANGED <<win, gaps, calls, log, disk, stage, copy, early, up, watch, due>>
  BY DEF Ends, Receives, source
<1>2. wire' = <<>> /\ ~up /\ calls = <<>> /\ due = <<>>
  <2>1. wire' = <<>> /\ ~up
    BY <1>1, Takes DEF Receives
  <2> QED
    BY <2>1 DEF WindowInv, LineInv
<1>3. queue \in Seq(Op) /\ (awaits # "none" => queue # <<>>)
  BY DEF WindowInv, WindowTyped, LineInv
<1>4. /\ queue' \in Seq(Op) /\ Lone(queue', {"attach"})
      /\ \A i \in DOMAIN queue' : \E j \in DOMAIN queue : queue'[i] = queue[j]
  <2>1. Lone(queue, {"attach"})
    BY DEF WindowInv, BootInv
  <2>2. CASE awaits = "none"
    BY <1>1, <1>3, <2>1, <2>2
  <2>3. CASE awaits # "none"
    <3>1. queue' = Tail(queue) /\ queue # <<>>
      BY <1>1, <1>3, <2>3
    <3> QED
      BY <1>3, <2>1, <3>1, TailPlaces, TailHolds, TailHas
  <2> QED
    BY <2>2, <2>3
<1>5. \A T : ~Has(<<>>, T) /\ Lone(<<>>, T)
  BY EmptyHas
<1>6. /\ \A T : AtMostOne(T, calls, due, wire)' /\ ~Way(T)'
      /\ ~Cutting' /\ Coming' = {}
  <2>1. calls' = <<>> /\ due' = <<>> /\ wire' = <<>>
    BY <1>1, <1>2
  <2> QED
    BY <1>5, <2>1, EmptyHas DEF AtMostOne, Way, OnItsWay, Cutting, Coming
<1>7. WindowTyped' /\ SourceInv'
  <2>1. wire' \in Seq(Frame) /\ queue' \in Seq(Op) /\ linked' \in BOOLEAN /\ synced' \in BOOLEAN
        /\ paging' \in BOOLEAN /\ awaits' \in {"none", "cut", "range"}
    <3>1. <<>> \in Seq(Frame)
      OBVIOUS
    <3> QED
      BY <1>1, <1>2, <1>4, <3>1
  <2> QED
    BY <1>1, <2>1 DEF WindowInv, WindowTyped, SourceInv, None
<1>8. LineInv'
  BY <1>1, <1>2, <1>6 DEF WindowInv, LineInv
<1>9. BootInv'
  BY <1>1, <1>2, <1>4, <1>5, <1>6 DEF WindowInv, BootInv
<1>10. ReachInv'
  BY <1>1, <1>2, <1>4, <1>6 DEF WindowInv, DataInv, ReachInv
<1>11. SettledInv' /\ WholeInv' /\ CutInv' /\ PendingInv' /\ TokenInv'
  BY <1>1, <1>2, <1>6 DEF SettledInv, WholeInv, CutInv, PendingInv, Base, TokenInv
<1> QED
  BY <1>7, <1>8, <1>9, <1>10, <1>11 DEF WindowInv, DataInv

-----------------------------------------------------------------------------
LEMMA PrependsKeeps ==
  ASSUME WindowInv, Receives, Prepends(Head(wire))
  PROVE  WindowInv'
<1>0. PICK h : h = Head(wire)
  OBVIOUS
<1>1. /\ h.tag = "page" /\ paging' = FALSE
      /\ win' = [win EXCEPT !.rows = h.page.rows \o @, !.oldest = h.page.from, !.more = h.page.more]
      /\ UNCHANGED <<linked, queue, awaits, synced, gaps, calls>>
  BY <1>0 DEF Prepends
<1>2. /\ UNCHANGED <<log, disk, stage, copy, early, up, watch, due, calls>>
      /\ wire' \in Seq(Frame) /\ wire # <<>> /\ linked /\ h \in Frame
      /\ \A T : Has(wire', T) => Has(wire, T)
      /\ \A i \in DOMAIN wire' : wire'[i].tag = "bye" => i = Len(wire') /\ ~up
      /\ \A i, j \in DOMAIN wire' : wire'[i].tag \in Boot /\ wire'[j].tag = "event" => j < i
      /\ \A b \in Nat : Based(b, log, queue, wire) =>
           /\ Based(b, log, queue, wire')
           /\ Complete(b, log, queue, wire) => Complete(b, log, queue, wire')
      /\ gaps = {} => \A i \in DOMAIN wire' : wire'[i].tag = "event" => wire'[i].seq \in 1..disk
  BY <1>0, <1>1, Received1
<1>3. /\ \A T \in Kinds : AtMostOne(T, calls, due, wire)'
      /\ Way(Leaf) /\ ~Way(Leaf)' /\ \A f \in Coming' : f.tag # "page"
      /\ (Way(Cut)' <=> Way(Cut)) /\ (Way(Span)' <=> Way(Span)) /\ (Way(Boot)' <=> Way(Boot))
      /\ Coming' \subseteq Coming /\ (Cutting' <=> Cutting) /\ h \in Coming
  BY <1>0, <1>1, KindsApart, Took
<1>4. /\ win \in Win /\ win.cursor \in Nat /\ win.oldest \in Nat \ {0} /\ win.rows \in Seq(Nat)
      /\ h.page.rows \in Seq(Nat) /\ h.page.from \in Nat \ {0} /\ h.page.more \in BOOLEAN
  BY <1>1, <1>2, FrameParts DEF WindowInv, WindowTyped, Win
<1>5. /\ win' \in Win /\ win'.cursor = win.cursor /\ win'.held = win.held
      /\ win'.oldest = h.page.from /\ win'.rows = h.page.rows \o win.rows
  <2>1. h.page.rows \o win.rows \in Seq(Nat)
    BY <1>4, ConcatProperties
  <2> QED
    BY <1>1, <1>4, <2>1 DEF Win
<1>6. WindowTyped' /\ SourceInv'
  BY <1>1, <1>2, <1>5 DEF WindowInv, WindowTyped, SourceInv, None
<1>7. LineInv'
  BY <1>1, <1>2, <1>3 DEF WindowInv, LineInv
<1>8. BootInv'
  BY <1>1, <1>2, <1>3 DEF WindowInv, BootInv
<1>9. ReachInv' /\ SettledInv' /\ CutInv' /\ TokenInv'
  BY <1>1, <1>2, <1>3, <1>5 DEF WindowInv, DataInv, ReachInv, SettledInv, CutInv, CutOk, Piece, TokenInv
<1>10. WholeInv'
  <2> SUFFICES ASSUME gaps = {}, synced PROVE WholeInv'
    BY <1>1 DEF WholeInv
  <2>1. /\ win.held /\ win.oldest <= win.cursor /\ win.rows = InOrder(Stretch(log, win.oldest, win.cursor))
        /\ h.page.from <= win.oldest /\ h.page.rows = InOrder(Stretch(log, h.page.from, win.oldest - 1))
    BY <1>1, <1>3 DEF WindowInv, DataInv, WholeInv, PageOk, Piece
  <2>2. PICK mid, low, cursor : mid = win.oldest - 1 /\ low = h.page.from /\ cursor = win.cursor
    OBVIOUS
  <2>3. /\ mid \in Nat /\ low \in Nat /\ cursor \in Nat /\ low <= mid + 1 /\ mid <= cursor /\ mid + 1 = win.oldest
        /\ low <= cursor
    BY <1>4, <2>1, <2>2
  <2>4. InOrder(Stretch(log, low, cursor))
          = InOrder(Stretch(log, low, mid)) \o InOrder(Stretch(log, mid + 1, cursor))
    <3>1. log \in Seq(Tier)
      BY SourceFacts
    <3> QED
      BY <2>3, <3>1, StretchJoins
  <2>5. Piece(h.page.rows \o win.rows, low, cursor)
    BY <2>1, <2>2, <2>3, <2>4 DEF Piece
  <2>6. Piece(win.rows, win.oldest, win.cursor)' /\ win'.oldest <= win'.cursor
    BY <1>2, <1>5, <2>2, <2>3, <2>5 DEF Piece
  <2>7. \A f \in Coming' : PageOk(f)' /\ SpanOk(f)'
    BY <1>1, <1>2, <1>3, <1>5 DEF WindowInv, DataInv, WholeInv, PageOk, SpanOk, Piece
  <2>8. \A r \in Elements(calls') : PageAsked(r)' /\ SpanAsked(r)'
    <3>1. \A r \in Elements(calls) : r.tag # "page"
      BY <1>1, <1>2, <1>3, HasElements DEF Way, OnItsWay, Leaf
    <3> QED
      BY <1>1, <1>2, <1>5, <3>1 DEF WindowInv, DataInv, WholeInv, PageAsked, SpanAsked
  <2> QED
    BY <1>1, <1>5, <2>1, <2>6, <2>7, <2>8 DEF WindowInv, DataInv, WholeInv
<1>11. PendingInv'
  <2> SUFFICES ASSUME gaps = {}, NEW b \in Nat, Base(b)'
               PROVE  Based(b, log, queue, wire') /\ (up => Complete(b, log, queue, wire'))
    BY <1>1, <1>2 DEF PendingInv
  <2>1. Base(b)
    BY <1>1, <1>3, <1>5 DEF Base
  <2> QED
    BY <1>2, <2>1 DEF WindowInv, DataInv, PendingInv
<1> QED
  BY <1>6, <1>7, <1>8, <1>9, <1>10, <1>11 DEF WindowInv, DataInv

LEMMA ReplacesKeeps ==
  ASSUME WindowInv, Receives, Replaces(Head(wire))
  PROVE  WindowInv'
<1>0. PICK h : h = Head(wire)
  OBVIOUS
<1>1. /\ h.tag = "cut" /\ queue' = Tail(queue) /\ awaits' = "none" /\ UNCHANGED <<linked, paging, calls>>
      /\ \/ h.cursor < win.cursor /\ UNCHANGED <<win, synced, gaps>>
         \/ /\ win' = [held |-> TRUE, cursor |-> h.cursor, oldest |-> h.page.from,
                       more |-> h.page.more, rows |-> h.page.rows]
            /\ synced' = TRUE
            /\ gaps' = IF paging THEN gaps \cup {"late page"} ELSE gaps
  BY <1>0 DEF Replaces, Done
<1>2. /\ UNCHANGED <<log, disk, stage, copy, early, up, watch, due, calls>>
      /\ wire' \in Seq(Frame) /\ wire # <<>> /\ linked /\ h \in Frame
      /\ \A T : Has(wire', T) => Has(wire, T)
      /\ \A i \in DOMAIN wire' : wire'[i].tag = "bye" => i = Len(wire') /\ ~up
      /\ \A i, j \in DOMAIN wire' : wire'[i].tag \in Boot /\ wire'[j].tag = "event" => j < i
      /\ \A b \in Nat : Based(b, log, queue, wire) =>
           /\ Based(b, log, queue, wire')
           /\ Complete(b, log, queue, wire) => Complete(b, log, queue, wire')
      /\ gaps = {} => \A i \in DOMAIN wire' : wire'[i].tag = "event" => wire'[i].seq \in 1..disk
  BY <1>0, <1>1, Received1
<1>3. /\ \A T \in Kinds : AtMostOne(T, calls, due, wire)'
      /\ Way(Cut) /\ ~Way(Cut)' /\ \A f \in Coming' : f.tag # "cut"
      /\ (Way(Leaf)' <=> Way(Leaf)) /\ (Way(Span)' <=> Way(Span)) /\ (Way(Boot)' <=> Way(Boot))
      /\ Coming' \subseteq Coming /\ h \in Coming /\ Elements(calls') = Elements(calls)
  BY <1>0, <1>1, KindsApart, Took
<1>4. ~Cutting'
  <2>1. ~Has(due', Cut) /\ ~Has(wire', Cut)
    BY <1>3 DEF Way, OnItsWay
  <2> QED
    BY <2>1, HasElements DEF Cutting, Cut
<1>5. /\ awaits = "cut" /\ queue # <<>> /\ Head(queue).tag = "attach" /\ queue \in Seq(Op) /\ ~Way(Span)
      /\ Cutting
  BY <1>3, <1>1, CuttingIs DEF WindowInv, LineInv, WindowTyped
<1>6. /\ queue' \in Seq(Op) /\ Has(queue, {"attach"})
      /\ Lone(queue', {"attach"}) /\ ~Has(queue', {"attach"})
      /\ \A T : Has(queue', T) => Has(queue, T)
      /\ \A i \in DOMAIN queue' : i + 1 \in DOMAIN queue /\ queue'[i] = queue[i + 1]
  <2>1. /\ Tail(queue) \in Seq(Op)
        /\ \A i \in DOMAIN Tail(queue) : i + 1 \in DOMAIN queue /\ Tail(queue)[i] = queue[i + 1]
    BY <1>5, TailPlaces, TailHolds
  <2>2. /\ \A T : Has(queue, T) <=> Has(Tail(queue), T) \/ Head(queue).tag \in T
        /\ \A T : Lone(queue, T) => Lone(Tail(queue), T) /\ (Head(queue).tag \in T => ~Has(Tail(queue), T))
    BY <1>5, TailHas
  <2>3. Lone(queue, {"attach"})
    BY DEF WindowInv, BootInv
  <2> QED
    BY <1>1, <1>5, <2>1, <2>2, <2>3
<1>7. ~Way(Boot) /\ ~synced /\ (up => watch = "named")
  BY <1>5, <1>6 DEF WindowInv, BootInv
<1>8. win' \in Win /\ synced' \in BOOLEAN
  <2>1. h.cursor \in Nat /\ h.page \in PageOf
    BY <1>1, <1>2, FrameParts
  <2>2. h.page.rows \in Seq(Nat) /\ h.page.from \in Nat \ {0} /\ h.page.more \in BOOLEAN
    BY <2>1 DEF PageOf
  <2>3. win \in Win /\ synced \in BOOLEAN
    BY DEF WindowInv, WindowTyped
  <2>4. [held |-> TRUE, cursor |-> h.cursor, oldest |-> h.page.from,
         more |-> h.page.more, rows |-> h.page.rows] \in Win
    BY <2>1, <2>2 DEF Win
  <2> QED
    BY <1>1, <2>3, <2>4
<1>9. WindowTyped' /\ SourceInv'
  BY <1>1, <1>2, <1>6, <1>8 DEF WindowInv, WindowTyped, SourceInv, None
<1>10. LineInv'
  BY <1>1, <1>2, <1>3, <1>5 DEF WindowInv, LineInv
<1>11. BootInv'
  BY <1>1, <1>2, <1>3, <1>4, <1>6, <1>7 DEF WindowInv, BootInv
<1>12. ASSUME gaps' = {}
       PROVE  /\ gaps = {} /\ ~paging /\ synced' = TRUE
              /\ win'.held /\ win'.cursor = h.cursor /\ win'.oldest = h.page.from /\ win'.rows = h.page.rows
              /\ h.cursor \in 2..disk /\ h.page.from <= h.cursor
              /\ h.page.rows = InOrder(Stretch(log, h.page.from, h.cursor))
  <2>1. gaps = {}
    BY <1>1, <1>12
  <2>2. /\ h.cursor \in 2..disk /\ win.cursor <= h.cursor
        /\ h.page.from <= h.cursor /\ Piece(h.page.rows, h.page.from, h.cursor)
    BY <1>1, <1>3, <2>1 DEF WindowInv, DataInv, CutInv, CutOk
  <2>3. ~(h.cursor < win.cursor)
    BY <2>2, SourceFacts DEF WindowInv, WindowTyped, Win
  <2>4. /\ win' = [held |-> TRUE, cursor |-> h.cursor, oldest |-> h.page.from,
                    more |-> h.page.more, rows |-> h.page.rows]
        /\ synced' = TRUE
        /\ gaps' = IF paging THEN gaps \cup {"late page"} ELSE gaps
    BY <1>1, <2>3
  <2>5. ~paging
    BY <1>12, <2>4
  <2> QED
    BY <2>1, <2>2, <2>4, <2>5 DEF Piece
<1>13. ASSUME gaps' = {} PROVE \A f \in Coming' : f.tag \notin {"cut", "range", "page"}
  <2>1. ~Way(Leaf) /\ ~Way(Span)
    BY <1>5, <1>12, <1>13 DEF WindowInv, LineInv
  <2>2. \A f \in Coming : f.tag # "page" /\ f.tag # "range"
    BY <2>1, ComingIsOnItsWay DEF Leaf, Span
  <2> QED
    BY <1>3, <2>2
<1>14. ASSUME gaps' = {} PROVE \A r \in Elements(calls') : r.tag # "page" /\ r.tag # "events"
  <2>1. ~Way(Leaf) /\ ~Way(Span)
    BY <1>5, <1>12, <1>14 DEF WindowInv, LineInv
  <2> QED
    BY <1>3, <2>1, HasElements DEF Way, OnItsWay, Leaf, Span
<1>15. ReachInv'
  <2> SUFFICES ASSUME gaps' = {} PROVE ReachInv'
    BY DEF ReachInv
  <2>1. win'.cursor <= disk
    BY <1>12, SourceFacts
  <2> QED
    BY <1>2, <1>6, <1>12, <1>13, <2>1 DEF WindowInv, DataInv, ReachInv
<1>16. SettledInv'
  BY <1>2, <1>5, <1>6, <1>12 DEF WindowInv, DataInv, SettledInv
<1>17. WholeInv'
  BY <1>1, <1>2, <1>12, <1>13, <1>14 DEF WholeInv, PageOk, SpanOk, PageAsked, SpanAsked, Piece
<1>18. CutInv'
  BY <1>13 DEF CutInv, CutOk
<1>19. PendingInv'
  <2> SUFFICES ASSUME gaps' = {}, NEW b \in Nat, Base(b)'
               PROVE  Based(b, log, queue', wire') /\ (up => Complete(b, log, queue', wire'))
    BY <1>2 DEF PendingInv
  <2>1. b = h.cursor
    BY <1>12, <1>13 DEF Base
  <2>2. Base(b) /\ gaps = {}
    BY <1>1, <1>3, <1>12, <2>1 DEF Base
  <2>3. Based(b, log, queue, wire') /\ (up => Complete(b, log, queue, wire'))
    BY <1>2, <2>2 DEF WindowInv, DataInv, PendingInv
  <2>4. /\ Based(b, log, Tail(queue), wire')
        /\ Complete(b, log, queue, wire') => Complete(b, log, Tail(queue), wire')
    BY <1>5, <2>3, BasedDone
  <2> QED
    BY <1>1, <2>3, <2>4
<1>20. TokenInv'
  BY <1>12 DEF TokenInv
<1> QED
  BY <1>9, <1>10, <1>11, <1>15, <1>16, <1>17, <1>18, <1>19, <1>20 DEF WindowInv, DataInv

-----------------------------------------------------------------------------
(* What a repair's answer grows a window to.                                 *)

NewOf(rows, c) == InOrder({s \in {rows[i] : i \in DOMAIN rows} : s > c})
Grown(w, new) == [w EXCEPT !.rows = @ \o new, !.cursor = IF new = <<>> THEN @ ELSE new[Len(new)]]

LEMMA NewIs ==
  ASSUME NEW rows \in Seq(Nat), NEW c \in Nat
  PROVE  /\ NewOf(rows, c) \in Seq(Nat)
         /\ NewOf(rows, c) # <<>> => LastOf(NewOf(rows, c)) \in Elements(rows) /\ LastOf(NewOf(rows, c)) > c
         /\ (\A s \in Elements(rows) : s > c) => NewOf(rows, c) = InOrder(Elements(rows))
<1> DEFINE E == Elements(rows)
           S == {s \in E : s > c}
<1>1. NewOf(rows, c) = InOrder(S)
  BY DEF NewOf, Elements
<1>2. E \in SUBSET Nat /\ IsFiniteSet(E)
  <2>1. IsFiniteSet(1..Len(rows)) /\ DOMAIN rows = 1..Len(rows)
    BY FS_Interval
  <2>2. rows \in Surjection(1..Len(rows), E)
    BY <2>1 DEF Surjection, Elements
  <2>3. IsFiniteSet(E)
    BY <2>1, <2>2, FS_Surjection
  <2> QED
    BY <2>3 DEF Elements
<1> HIDE DEF E
<1>3. S \in SUBSET Nat /\ S \in SUBSET E /\ IsFiniteSet(S) /\ \A s \in S : s > c
  BY <1>2, FS_Subset
<1>4. InOrder(S) \in Seq(Nat) /\ (InOrder(S) = <<>> <=> S = {})
  BY <1>3, OrderIs, OrderEnds
<1>5. S # {} => LastOf(InOrder(S)) \in S
  BY <1>3, OrderEnds DEF LastOf
<1>6. (\A s \in E : s > c) => S = E
  OBVIOUS
<1>7. /\ InOrder(S) # <<>> => LastOf(InOrder(S)) \in E /\ LastOf(InOrder(S)) > c
      /\ (\A s \in E : s > c) => InOrder(S) = InOrder(E)
  BY <1>3, <1>4, <1>5, <1>6
<1> HIDE DEF S
<1> QED
  BY <1>1, <1>4, <1>7 DEF E

LEMMA GrownIs ==
  ASSUME NEW w \in Win, NEW rows \in Seq(Nat), NEW new, new = NewOf(rows, w.cursor), NEW g, g = Grown(w, new)
  PROVE  /\ g \in Win /\ g.held = w.held /\ g.oldest = w.oldest /\ g.rows = w.rows \o new
         /\ g.cursor \in Nat /\ w.cursor <= g.cursor
         /\ g.cursor = w.cursor \/ g.cursor \in Elements(rows)
         /\ g.cursor = IF new = <<>> THEN w.cursor ELSE LastOf(new)
<1>1. /\ w.cursor \in Nat /\ w.rows \in Seq(Nat) /\ new \in Seq(Nat)
      /\ new # <<>> => LastOf(new) \in Elements(rows) /\ LastOf(new) > w.cursor
  BY NewIs DEF Win
<1>2. PICK c : c = IF new = <<>> THEN w.cursor ELSE LastOf(new)
  OBVIOUS
<1>3. c \in Nat /\ w.cursor <= c /\ (c = w.cursor \/ c \in Elements(rows))
  <2>1. \A x \in Elements(rows) : x \in Nat
    BY DEF Elements
  <2>2. CASE new = <<>>
    BY <1>1, <1>2, <2>2
  <2>3. CASE new # <<>>
    BY <1>1, <1>2, <2>1, <2>3
  <2> QED
    BY <2>2, <2>3
<1>4. w.rows \o new \in Seq(Nat)
  BY <1>1, ConcatProperties
<1>5. g = [w EXCEPT !.rows = w.rows \o new, !.cursor = c]
  BY <1>2 DEF Grown, LastOf, Win
<1>6. g \in Win /\ g.held = w.held /\ g.oldest = w.oldest /\ g.rows = w.rows \o new /\ g.cursor = c
  BY <1>3, <1>4, <1>5 DEF Win
<1> QED
  BY <1>2, <1>3, <1>6

LEMMA StretchesJoin ==
  ASSUME NEW l \in Seq(Tier), NEW old \in Nat, NEW mid \in Nat, old <= mid + 1
  PROVE  \A m \in Nat : mid <= m =>
           InOrder(Stretch(l, old, m)) = InOrder(Stretch(l, old, mid)) \o InOrder(Stretch(l, mid + 1, m))
<1> SUFFICES ASSUME NEW m \in Nat, mid <= m
             PROVE  InOrder(Stretch(l, old, m)) = InOrder(Stretch(l, old, mid)) \o InOrder(Stretch(l, mid + 1, m))
  OBVIOUS
<1> QED
  BY StretchJoins, Zenon

(* What an answer adds to the stretch before it.                             *)
Extends(l, old, mid, high, a) ==
  /\ a \in Seq(Nat)
  /\ \A x \in Elements(a) : x \in Nat /\ mid < x /\ x <= high
  /\ NewOf(a, mid) = a
  /\ a = <<>> => Stretch(l, mid + 1, high) = {}
  /\ a # <<>> =>
       /\ LastOf(a) \in Elements(a)
       /\ InOrder(Stretch(l, old, LastOf(a))) = InOrder(Stretch(l, old, mid)) \o a

LEMMA SpanJoins ==
  ASSUME NEW l \in Seq(Tier), NEW old \in Nat, NEW mid \in Nat, old <= mid + 1, NEW low \in Nat, low = mid + 1,
         NEW high \in Nat, NEW k \in Nat \ {0}
  PROVE  \A a : a = Answering(l, low, high, k) => Extends(l, old, mid, high, a)
<1>1. Answering(l, low, high, k) \in Seq(Nat)
  BY OldestTo, Zenon
<1>2. \A x \in Elements(Answering(l, low, high, k)) : x \in Nat /\ low <= x /\ x <= high
  BY OldestTo, Zenon
<1>3. Answering(l, low, high, k) = <<>> => Stretch(l, low, high) = {}
  BY OldestTo, Zenon
<1>4. Answering(l, low, high, k) # <<>> =>
        LastOf(Answering(l, low, high, k)) \in Elements(Answering(l, low, high, k))
  BY OldestTo, Zenon
<1>5. Answering(l, low, high, k) # <<>> =>
        Answering(l, low, high, k) = InOrder(Stretch(l, low, LastOf(Answering(l, low, high, k))))
  BY OldestTo, SMT
<1>6. Answering(l, low, high, k) # <<>> =>
        Elements(Answering(l, low, high, k)) = Stretch(l, low, LastOf(Answering(l, low, high, k)))
  BY OldestTo, SMT
<1>0. \A m \in Nat : mid <= m =>
        InOrder(Stretch(l, old, m)) = InOrder(Stretch(l, old, mid)) \o InOrder(Stretch(l, mid + 1, m))
  BY StretchesJoin, Zenon
<1> TAKE a
<1> HAVE a = Answering(l, low, high, k)
<1>7. /\ a \in Seq(Nat)
      /\ \A x \in Elements(a) : x \in Nat /\ low <= x /\ x <= high
      /\ a = <<>> => Stretch(l, low, high) = {}
      /\ a # <<>> => LastOf(a) \in Elements(a)
      /\ a # <<>> => a = InOrder(Stretch(l, low, LastOf(a)))
      /\ a # <<>> => Elements(a) = Stretch(l, low, LastOf(a))
  BY <1>1, <1>2, <1>3, <1>4, <1>5, <1>6, Zenon
<1>8. \A x \in Elements(a) : x \in Nat /\ mid < x /\ x <= high
  BY <1>7
<1>9. NewOf(a, mid) = InOrder(Elements(a))
  <2>1. \A x \in Elements(a) : x > mid
    BY <1>8
  <2> QED
    BY <1>7, <2>1, NewIs
<1>10. InOrder(Elements(a)) = a
  <2>1. CASE a = <<>>
    <3>1. Elements(a) = {}
      BY <2>1 DEF Elements
    <3>2. InOrder({}) = <<>>
      BY FS_EmptySet, OrderEnds
    <3> QED
      BY <2>1, <3>1, <3>2
  <2>2. CASE a # <<>>
    BY <1>7, <2>2, Zenon
  <2> QED
    BY <2>1, <2>2
<1>11. ASSUME a # <<>>
       PROVE  /\ LastOf(a) \in Elements(a)
              /\ InOrder(Stretch(l, old, LastOf(a))) = InOrder(Stretch(l, old, mid)) \o a
  <2>1. PICK m : m = LastOf(a)
    OBVIOUS
  <2>2. m \in Nat /\ mid <= m /\ m \in Elements(a)
    BY <1>7, <1>8, <1>11, <2>1
  <2>3. InOrder(Stretch(l, old, m)) = InOrder(Stretch(l, old, mid)) \o InOrder(Stretch(l, mid + 1, m))
    BY <1>0, <2>2, Zenon
  <2>4. a = InOrder(Stretch(l, mid + 1, m))
    BY <1>7, <1>11, <2>1, Zenon
  <2> QED
    BY <2>1, <2>2, <2>3, <2>4, Zenon
<1> QED
  BY <1>7, <1>8, <1>9, <1>10, <1>11, Zenon DEF Extends

(* A whole window grown by the answer it asked for is whole.                 *)
Grows(l, w, old, mid, high, k, rows, g) ==
  /\ old = w.oldest /\ mid = w.cursor /\ old <= mid /\ w.rows = InOrder(Stretch(l, old, mid))
  /\ high \in Nat /\ mid < high + 1 /\ k \in Nat \ {0}
  /\ rows = Answering(l, mid + 1, high, k) /\ g = Grown(w, NewOf(rows, mid))
WholeTo(l, old, high, rows, g) ==
  /\ g.rows = InOrder(Stretch(l, old, g.cursor)) /\ g.cursor \in Nat /\ g.cursor < high + 1
  /\ rows = <<>> => Stretch(l, g.cursor + 1, high) = {}

LEMMA GrownWhole ==
  ASSUME NEW l \in Seq(Tier), NEW w \in Win, NEW old, NEW mid, NEW high, NEW k, NEW rows, NEW g,
         Grows(l, w, old, mid, high, k, rows, g)
  PROVE  WholeTo(l, old, high, rows, g)
<1> USE DEF Grows, WholeTo
<1>1. old \in Nat \ {0} /\ mid \in Nat /\ w.rows \in Seq(Nat)
  BY DEF Win
<1>2. /\ rows \in Seq(Nat)
      /\ \A x \in Elements(rows) : x \in Nat /\ mid < x /\ x <= high
      /\ NewOf(rows, mid) = rows
      /\ rows = <<>> => Stretch(l, mid + 1, high) = {}
      /\ rows # <<>> =>
           /\ LastOf(rows) \in Elements(rows)
           /\ InOrder(Stretch(l, old, LastOf(rows))) = InOrder(Stretch(l, old, mid)) \o rows
  <2>1. l \in Seq(Tier) /\ old \in Nat /\ mid \in Nat /\ old <= mid + 1 /\ high \in Nat /\ k \in Nat \ {0}
    BY <1>1
  <2>2. PICK low \in Nat : low = mid + 1
    BY <1>1
  <2>3. rows = Answering(l, low, high, k)
    BY <2>2, Zenon
  <2>4. Extends(l, old, mid, high, rows)
    BY <2>1, <2>2, <2>3, SpanJoins, Zenon
  <2> QED
    BY <2>4, Zenon DEF Extends
<1>3. g = [w EXCEPT !.rows = @ \o rows, !.cursor = IF rows = <<>> THEN @ ELSE rows[Len(rows)]]
  BY <1>2 DEF Grown
<1>4. g.rows = w.rows \o rows /\ g.cursor = IF rows = <<>> THEN mid ELSE LastOf(rows)
  BY <1>3 DEF Win, LastOf
<1>5. CASE rows = <<>>
  <2>1. w.rows \o <<>> = w.rows
    BY <1>1
  <2>2. g.rows = w.rows /\ g.cursor = mid
    BY <1>4, <1>5, <2>1
  <2>3. g.cursor < high + 1
    BY <1>1, <2>2
  <2> QED
    BY <1>1, <1>2, <1>5, <2>2, <2>3, Zenon
<1>6. CASE rows # <<>>
  <2>1. g.rows = InOrder(Stretch(l, old, mid)) \o rows /\ g.cursor = LastOf(rows)
    BY <1>4, <1>6
  <2>2. g.cursor \in Nat /\ g.cursor < high + 1
    BY <1>2, <1>6, <2>1
  <2> QED
    BY <1>2, <1>6, <2>1, <2>2, Zenon
<1> QED
  BY <1>5, <1>6

-----------------------------------------------------------------------------
(* The last answer of a repair: the event that showed the hole is done.      *)
LEMMA RepairEnds ==
  ASSUME WindowInv, Receives, Head(wire).tag = "range", queue' = Tail(queue), awaits' = "none",
         UNCHANGED <<linked, paging, synced, gaps, calls>>, win' \in Win,
         gaps = {} => win'.cursor <= disk,
         gaps = {} /\ synced =>
           /\ win'.held /\ win'.oldest = win.oldest /\ win.cursor <= win'.cursor
           /\ Piece(win'.rows, win'.oldest, win'.cursor)
           /\ Head(queue).seq <= win'.cursor
  PROVE  WindowInv'
<1>0. PICK h : h = Head(wire)
  OBVIOUS
<1>1. h.tag = "range"
  BY <1>0
<1>2. /\ UNCHANGED <<log, disk, stage, copy, early, up, watch, due, calls>>
      /\ wire' \in Seq(Frame) /\ wire # <<>> /\ linked /\ h \in Frame
      /\ \A T : Has(wire', T) => Has(wire, T)
      /\ \A i \in DOMAIN wire' : wire'[i].tag = "bye" => i = Len(wire') /\ ~up
      /\ \A i, j \in DOMAIN wire' : wire'[i].tag \in Boot /\ wire'[j].tag = "event" => j < i
      /\ \A b \in Nat : Based(b, log, queue, wire) =>
           /\ Based(b, log, queue, wire')
           /\ Complete(b, log, queue, wire) => Complete(b, log, queue, wire')
      /\ gaps = {} => \A i \in DOMAIN wire' : wire'[i].tag = "event" => wire'[i].seq \in 1..disk
  BY <1>0, <1>1, Received1
<1>3. /\ \A T \in Kinds : AtMostOne(T, calls, due, wire)'
      /\ Way(Span) /\ ~Way(Span)' /\ \A f \in Coming' : f.tag # "range"
      /\ (Way(Cut)' <=> Way(Cut)) /\ (Way(Leaf)' <=> Way(Leaf)) /\ (Way(Boot)' <=> Way(Boot))
      /\ Coming' \subseteq Coming /\ (Cutting' <=> Cutting) /\ h \in Coming /\ Elements(calls') = Elements(calls)
  BY <1>0, <1>1, KindsApart, Took
<1>4. awaits = "range" /\ ~Way(Cut) /\ queue \in Seq(Op)
  BY <1>3 DEF WindowInv, LineInv, WindowTyped
<1>5. queue # <<>> /\ Head(queue).tag = "apply"
  BY <1>4, HeadOfRepair DEF WindowInv
<1>6. /\ queue' \in Seq(Op)
      /\ \A i \in DOMAIN queue' : i + 1 \in DOMAIN queue /\ queue'[i] = queue[i + 1]
      /\ \A T : Has(queue, T) <=> Has(queue', T) \/ Head(queue).tag \in T
      /\ Lone(queue', {"attach"})
      /\ Has(queue', {"attach"}) => queue'[Len(queue')] = queue[Len(queue)]
  <2>1. Lone(queue, {"attach"})
    BY DEF WindowInv, BootInv
  <2>2. /\ Tail(queue) \in Seq(Op)
        /\ \A i \in DOMAIN Tail(queue) : i + 1 \in DOMAIN queue /\ Tail(queue)[i] = queue[i + 1]
    BY <1>4, <1>5, TailPlaces, TailHolds
  <2>3. /\ \A T : Has(queue, T) <=> Has(Tail(queue), T) \/ Head(queue).tag \in T
        /\ \A T : Lone(queue, T) => Lone(Tail(queue), T)
    BY <1>4, <1>5, TailHas
  <2>4. Has(Tail(queue), {"attach"}) => Tail(queue)[Len(Tail(queue))] = queue[Len(queue)]
    BY <1>4, <1>5, TailLast
  <2> QED
    BY <2>1, <2>2, <2>3, <2>4
<1>7. /\ \A f \in Coming' : f.tag # "cut"
      /\ \A r \in Elements(calls') : r.tag # "events"
  <2>1. \A f \in Coming : f.tag # "cut"
    BY <1>4, ComingIsOnItsWay DEF Cut
  <2>2. ~Has(calls', Span)
    BY <1>3 DEF Way, OnItsWay
  <2> QED
    BY <1>3, <2>1, <2>2, HasElements DEF Span
<1>8. WindowTyped' /\ SourceInv'
  BY <1>2, <1>6 DEF WindowInv, WindowTyped, SourceInv, None
<1>9. LineInv'
  BY <1>2, <1>3, <1>4 DEF WindowInv, LineInv
<1>10. BootInv'
  BY <1>2, <1>3, <1>6 DEF WindowInv, BootInv
<1>11. ReachInv' /\ SettledInv' /\ CutInv' /\ TokenInv'
  <2>1. ReachInv'
    BY <1>2, <1>3, <1>6 DEF WindowInv, DataInv, ReachInv
  <2>2. SettledInv'
    BY <1>2, <1>3, <1>6 DEF WindowInv, DataInv, SettledInv
  <2>3. CutInv'
    BY <1>7 DEF CutInv, CutOk
  <2>4. TokenInv'
    BY <1>2, <1>3, <1>5, <1>6 DEF WindowInv, DataInv, TokenInv
  <2> QED
    BY <2>1, <2>2, <2>3, <2>4
<1>12. WholeInv'
  <2> SUFFICES ASSUME gaps = {}, synced PROVE WholeInv'
    BY DEF WholeInv
  <2>1. win'.held /\ win'.oldest = win.oldest /\ Piece(win.rows, win.oldest, win.cursor)' /\ win'.oldest <= win'.cursor
    <3>1. win.oldest <= win.cursor /\ win.oldest \in Nat /\ win.cursor \in Nat /\ win'.cursor \in Nat
      BY DEF WindowInv, DataInv, WholeInv, WindowTyped, Win
    <3> QED
      BY <1>2, <3>1 DEF Piece
  <2>2. \A f \in Coming' : PageOk(f)' /\ SpanOk(f)'
    BY <1>2, <1>3, <2>1 DEF WindowInv, DataInv, WholeInv, PageOk, SpanOk, Piece
  <2>3. \A r \in Elements(calls') : PageAsked(r)' /\ SpanAsked(r)'
    BY <1>2, <1>3, <1>7, <2>1 DEF WindowInv, DataInv, WholeInv, PageAsked, SpanAsked
  <2> QED
    BY <1>2, <2>1, <2>2, <2>3 DEF WholeInv
<1>13. PendingInv'
  <2> SUFFICES ASSUME gaps = {}, NEW b \in Nat, Base(b)'
               PROVE  Based(b, log, queue', wire') /\ (up => Complete(b, log, queue', wire'))
    BY <1>2 DEF PendingInv
  <2>1. synced /\ b = win'.cursor
    BY <1>7 DEF Base
  <2>2. win.cursor \in Nat /\ win.cursor <= b /\ (Head(queue).tag = "apply" => Head(queue).seq <= b)
    BY <2>1 DEF WindowInv, WindowTyped, Win
  <2>3. Based(win.cursor, log, queue, wire) /\ (up => Complete(win.cursor, log, queue, wire))
    BY <2>1, <2>2 DEF WindowInv, DataInv, PendingInv, Base
  <2>4. Based(win.cursor, log, queue, wire') /\ (up => Complete(win.cursor, log, queue, wire'))
    BY <1>2, <2>2, <2>3
  <2>5. /\ Based(b, log, Tail(queue), wire')
        /\ Complete(win.cursor, log, queue, wire') => Complete(b, log, Tail(queue), wire')
    BY <1>4, <1>5, <2>2, <2>4, BasedDone
  <2> QED
    BY <2>4, <2>5
<1> QED
  BY <1>8, <1>9, <1>10, <1>11, <1>12, <1>13 DEF WindowInv, DataInv

(* An answer that leaves a hole: the rest is asked for.                      *)
LEMMA RepairGoesOn ==
  ASSUME WindowInv, Receives, Head(wire).tag = "range", NEW g \in Win, win' = g,
         UNCHANGED <<linked, queue, awaits, paging, synced, gaps>>,
         NEW s \in Nat, s = Head(queue).seq, g.cursor < s - 1,
         Asks([tag |-> "events", from |-> g.cursor + 1, to |-> s - 1]),
         gaps = {} => g.cursor <= disk,
         gaps = {} /\ synced =>
           /\ g.held /\ g.oldest = win.oldest /\ win.cursor <= g.cursor
           /\ Piece(g.rows, g.oldest, g.cursor)
  PROVE  WindowInv'
<1>0. PICK h, r : h = Head(wire) /\ r = [tag |-> "events", from |-> g.cursor + 1, to |-> s - 1]
  OBVIOUS
<1>1. h.tag = "range" /\ Asks(r)
  BY <1>0
<1>g. g.cursor \in Nat /\ g.oldest \in Nat \ {0} /\ g.cursor + 1 < s /\ s - 1 \in Nat
  BY DEF Win
<1>2. /\ UNCHANGED <<log, disk, stage, copy, early, up, watch, due>>
      /\ wire' \in Seq(Frame) /\ wire # <<>> /\ linked /\ h \in Frame /\ wire' = Tail(wire)
      /\ \A T : Has(wire', T) => Has(wire, T)
      /\ \A i \in DOMAIN wire' : wire'[i].tag = "bye" => i = Len(wire') /\ ~up
      /\ \A i, j \in DOMAIN wire' : wire'[i].tag \in Boot /\ wire'[j].tag = "event" => j < i
      /\ \A b \in Nat : Based(b, log, queue, wire) =>
           /\ Based(b, log, queue, wire')
           /\ Complete(b, log, queue, wire) => Complete(b, log, queue, wire')
      /\ gaps = {} => \A i \in DOMAIN wire' : wire'[i].tag = "event" => wire'[i].seq \in 1..disk
  BY <1>0, <1>1, ReceivedAny DEF Receives
<1>3. r \in Request /\ r.tag = "events" /\ r.from = g.cursor + 1 /\ r.to = s - 1
  BY <1>0, <1>g DEF Request
<1>4. calls \in Seq(Request) /\ (up => calls' = Append(calls, r)) /\ (~up => calls' = calls) /\ wire \in Seq(Frame)
  BY <1>1 DEF Asks, WindowInv, WindowTyped
<1>5. \A T \in Kinds : AtMostOne(T, calls, due, wire)
  BY DEF WindowInv, LineInv
<1>6. /\ \A T \in Kinds : AtMostOne(T, calls, due, Tail(wire))
      /\ \A T \in Kinds : h.tag \in T => Way(T) /\ ~OnItsWay(T, calls, due, Tail(wire))
      /\ \A T \in Kinds : h.tag \notin T => (OnItsWay(T, calls, due, Tail(wire)) <=> Way(T))
  BY <1>0, <1>2, <1>4, <1>5, Received DEF Way
<1>7. /\ calls' \in Seq(Request) /\ Elements(calls') \subseteq Elements(calls) \cup {r}
      /\ \A T : AtMostOne(T, calls, due, Tail(wire)) =>
           /\ OnItsWay(T, calls', due, Tail(wire)) => OnItsWay(T, calls, due, Tail(wire)) \/ r.tag \in T
           /\ OnItsWay(T, calls, due, Tail(wire)) => OnItsWay(T, calls', due, Tail(wire))
           /\ (r.tag \in T => ~OnItsWay(T, calls, due, Tail(wire))) => AtMostOne(T, calls', due, Tail(wire))
  <2>1. calls' = calls \/ calls' = Append(calls, r)
    BY <1>4
  <2>2. PICK n, d, w : n = calls' /\ d = due /\ w = Tail(wire)
    OBVIOUS
  <2>3. /\ n \in Seq(Request) /\ Elements(n) \subseteq Elements(calls) \cup {r}
        /\ \A T : AtMostOne(T, calls, d, w) =>
             /\ OnItsWay(T, n, d, w) => OnItsWay(T, calls, d, w) \/ r.tag \in T
             /\ OnItsWay(T, calls, d, w) => OnItsWay(T, n, d, w)
             /\ (r.tag \in T => ~OnItsWay(T, calls, d, w)) => AtMostOne(T, n, d, w)
    <3>1. n = calls \/ n = Append(calls, r)
      BY <2>1, <2>2
    <3> QED
      BY <1>3, <1>4, <3>1, Asking
  <2> QED
    BY <2>2, <2>3
<1>8. /\ \A T \in Kinds : AtMostOne(T, calls', due, Tail(wire))
      /\ \A T \in Kinds : r.tag \notin T => (OnItsWay(T, calls', due, Tail(wire)) <=> Way(T))
  BY <1>1, <1>3, <1>6, <1>7, KindsApart
<1>9. /\ \A T \in Kinds : AtMostOne(T, calls, due, wire)'
      /\ (Way(Cut)' <=> Way(Cut)) /\ (Way(Leaf)' <=> Way(Leaf)) /\ (Way(Boot)' <=> Way(Boot)) /\ Way(Span)
  BY <1>1, <1>2, <1>3, <1>6, <1>8, KindsApart DEF Way
<1>10. /\ Coming' \subseteq Coming /\ h \in Coming
       /\ \A f \in Coming' : f.tag # "range"
       /\ \A q \in Elements(calls) : q.tag # "events"
       /\ Cutting' <=> Cutting
  <2>1. Elements(Tail(wire)) \subseteq Elements(wire) /\ h \in Elements(wire)
    BY <1>0, <1>2, Takes
  <2>2. ~Has(calls, Span) /\ ~Has(due, Span) /\ ~Has(Tail(wire), Span)
    BY <1>1, <1>6, KindsApart DEF OnItsWay
  <2>3. Coming' = Elements(due) \cup Elements(Tail(wire))
    BY <1>2 DEF Coming
  <2>4. \A T : Has(wire, T) <=> Has(Tail(wire), T) \/ h.tag \in T
    BY <1>0, <1>2, Takes
  <2>5. Cutting' <=> Cutting
    BY <1>1, <1>2, <2>4 DEF Cutting
  <2> QED
    BY <2>1, <2>2, <2>3, <2>5, HasElements DEF Coming, Span
<1>11. awaits = "range" /\ ~Way(Cut)
  BY <1>9 DEF WindowInv, LineInv
<1>12. \A f \in Coming' : f.tag # "cut"
  BY <1>10, <1>11, ComingIsOnItsWay DEF Cut
<1>13. WindowTyped' /\ SourceInv'
  BY <1>2, <1>7 DEF WindowInv, WindowTyped, SourceInv, None
<1>14. LineInv'
  BY <1>2, <1>4, <1>9, <1>11 DEF WindowInv, LineInv
<1>15. BootInv'
  BY <1>2, <1>9, <1>10 DEF WindowInv, BootInv
<1>16. ReachInv' /\ SettledInv' /\ CutInv' /\ TokenInv'
  <2>1. ReachInv'
    BY <1>2, <1>10 DEF WindowInv, DataInv, ReachInv
  <2>2. SettledInv'
    BY <1>2, <1>10 DEF WindowInv, DataInv, SettledInv
  <2>3. CutInv'
    BY <1>12 DEF CutInv, CutOk
  <2>4. TokenInv'
    BY <1>2, <1>9 DEF WindowInv, DataInv, TokenInv
  <2> QED
    BY <2>1, <2>2, <2>3, <2>4
<1>17. WholeInv'
  <2> SUFFICES ASSUME gaps = {}, synced PROVE WholeInv'
    BY DEF WholeInv
  <2>1. win'.held /\ win'.oldest = win.oldest /\ Piece(win.rows, win.oldest, win.cursor)' /\ win'.oldest <= win'.cursor
    <3>1. win.oldest <= win.cursor /\ win.oldest \in Nat /\ win.cursor \in Nat
      BY DEF WindowInv, DataInv, WholeInv, WindowTyped, Win
    <3> QED
      BY <1>2, <1>g, <3>1 DEF Piece
  <2>2. \A f \in Coming' : PageOk(f)' /\ SpanOk(f)'
    BY <1>2, <1>10, <2>1 DEF WindowInv, DataInv, WholeInv, PageOk, SpanOk, Piece
  <2>3. \A q \in Elements(calls') : PageAsked(q)' /\ SpanAsked(q)'
    <3>1. ASSUME NEW q \in Elements(calls) PROVE PageAsked(q)' /\ SpanAsked(q)'
      BY <1>2, <1>10, <2>1 DEF WindowInv, DataInv, WholeInv, PageAsked, SpanAsked
    <3>2. PageAsked(r)' /\ SpanAsked(r)'
      BY <1>2, <1>3 DEF PageAsked, SpanAsked
    <3> QED
      BY <1>7, <3>1, <3>2
  <2>4. win'.cursor + 1 < Head(queue').seq
    BY <1>g
  <2> QED
    BY <1>2, <2>1, <2>2, <2>3, <2>4 DEF WholeInv
<1>18. PendingInv'
  <2> SUFFICES ASSUME gaps = {}, NEW b \in Nat, Base(b)'
               PROVE  Based(b, log, queue, wire') /\ (up => Complete(b, log, queue, wire'))
    BY <1>2 DEF PendingInv
  <2>1. synced /\ b = g.cursor
    BY <1>12 DEF Base
  <2>2. win.cursor \in Nat /\ win.cursor <= b
    BY <2>1 DEF WindowInv, WindowTyped, Win
  <2>3. Based(win.cursor, log, queue, wire) /\ (up => Complete(win.cursor, log, queue, wire))
    BY <2>1, <2>2 DEF WindowInv, DataInv, PendingInv, Base
  <2>4. Based(win.cursor, log, queue, wire') /\ (up => Complete(win.cursor, log, queue, wire'))
    BY <1>2, <2>2, <2>3
  <2> QED
    BY <2>2, <2>4, BasedRaised
<1> QED
  BY <1>13, <1>14, <1>15, <1>16, <1>17, <1>18 DEF WindowInv, DataInv

-----------------------------------------------------------------------------
LEMMA RepairsKeeps ==
  ASSUME WindowInv, Receives, Repairs(Head(wire))
  PROVE  WindowInv'
<1>0. PICK h, s, n, g : /\ h = Head(wire) /\ s = Head(queue).seq
                        /\ n = NewOf(h.rows, win.cursor) /\ g = Grown(win, n)
  OBVIOUS
<1>1. /\ h.tag = "range" /\ UNCHANGED <<linked, paging, synced, gaps>>
      /\ \/ /\ h.rows # <<>> /\ g.cursor < s - 1 /\ win' = g /\ UNCHANGED <<queue, awaits>>
            /\ Asks([tag |-> "events", from |-> g.cursor + 1, to |-> s - 1])
         \/ /\ ~(h.rows # <<>> /\ g.cursor < s - 1)
            /\ win' = IF s > g.cursor THEN Pushed(g, s) ELSE g
            /\ queue' = Tail(queue) /\ awaits' = "none" /\ UNCHANGED calls
  <2> DEFINE first == Head(wire)
             until == Head(queue).seq
             more == Grown(win, NewOf(first.rows, win.cursor))
  <2>1. /\ first.tag = "range" /\ UNCHANGED <<linked, paging, synced, gaps>>
        /\ \/ /\ first.rows # <<>> /\ more.cursor < until - 1 /\ win' = more /\ UNCHANGED <<queue, awaits>>
              /\ Asks([tag |-> "events", from |-> more.cursor + 1, to |-> until - 1])
           \/ /\ ~(first.rows # <<>> /\ more.cursor < until - 1)
              /\ win' = IF until > more.cursor THEN Pushed(more, until) ELSE more
              /\ queue' = Tail(queue) /\ awaits' = "none" /\ UNCHANGED calls
    BY ZenonT(60) DEF Repairs, NewOf, Grown, Done
  <2>2. h = first /\ s = until /\ g = more
    BY <1>0
  <2> HIDE DEF first, until, more
  <2> QED
    BY <2>1, <2>2, SMTT(60)
<1>2. wire # <<>> /\ h \in Frame /\ h \in Coming /\ h.rows \in Seq(Nat)
  <2>1. wire # <<>> /\ h \in Frame /\ h \in Elements(wire)
    BY <1>0, Takes DEF Receives
  <2> QED
    BY <1>1, <2>1, FrameParts DEF Coming
<1>3. awaits = "range"
  BY <1>1, <1>2, ComingIsOnItsWay DEF Span, WindowInv, LineInv
<1>4. queue # <<>> /\ Head(queue).tag = "apply" /\ s \in Nat \ {0} /\ s - 1 \in Nat
  BY <1>0, <1>3, HeadOfRepair DEF WindowInv
<1>5. log \in Seq(Tier) /\ disk \in Nat /\ win \in Win /\ win.cursor \in Nat /\ win.oldest \in Nat \ {0}
  BY SourceFacts DEF WindowInv, WindowTyped, Win
<1>6. /\ g \in Win /\ g.held = win.held /\ g.oldest = win.oldest
      /\ g.cursor \in Nat /\ win.cursor <= g.cursor
      /\ g.cursor = win.cursor \/ g.cursor \in Elements(h.rows)
  BY <1>0, <1>2, <1>5, GrownIs
<1>7. ASSUME gaps = {}
      PROVE  g.cursor <= disk /\ s <= disk /\ (synced => s \in Facts(log))
  <2>1. win.cursor <= disk /\ \A x \in Elements(h.rows) : x <= disk
    BY <1>1, <1>2, <1>7 DEF WindowInv, DataInv, ReachInv
  <2>2. s \in 1..disk /\ (synced => s \in Facts(log))
    BY <1>0, <1>4, <1>7, HeadIs DEF Ops
  <2> QED
    BY <1>4, <1>5, <1>6, <2>1, <2>2
<1>8. ASSUME gaps = {}, synced
      PROVE  /\ g.held /\ g.oldest <= g.cursor /\ Piece(g.rows, g.oldest, g.cursor) /\ g.cursor < s
             /\ h.rows = <<>> => Stretch(log, g.cursor + 1, s - 1) = {}
  <2>1. /\ win.held /\ win.oldest <= win.cursor /\ Piece(win.rows, win.oldest, win.cursor)
        /\ SpanOk(h) /\ win.cursor + 1 < s
    BY <1>0, <1>2, <1>3, <1>8 DEF WindowInv, DataInv, WholeInv
  <2>2. PICK old, mid, high, k, rows :
          old = win.oldest /\ mid = win.cursor /\ high = s - 1 /\ k = RepairLimit /\ rows = h.rows
    OBVIOUS
  <2>3. /\ old <= mid /\ win.rows = InOrder(Stretch(log, old, mid)) /\ high \in Nat /\ mid < high + 1
        /\ k \in Nat \ {0} /\ high + 1 = s
    BY <1>4, <1>5, <2>1, <2>2, LimitFacts DEF Piece
  <2>4. rows = Answering(log, mid + 1, high, k) /\ g = Grown(win, NewOf(rows, mid))
    BY <1>0, <1>1, <2>1, <2>2 DEF SpanOk, Answering
  <2>5. /\ g.rows = InOrder(Stretch(log, old, g.cursor)) /\ g.cursor < high + 1
        /\ rows = <<>> => Stretch(log, g.cursor + 1, high) = {}
    <3>1. log \in Seq(Tier) /\ win \in Win
      BY <1>5
    <3>2. Grows(log, win, old, mid, high, k, rows, g)
      BY <2>2, <2>3, <2>4, Zenon DEF Grows
    <3>3. WholeTo(log, old, high, rows, g)
      BY <3>1, <3>2, GrownWhole, Zenon
    <3> QED
      BY <3>3 DEF WholeTo
  <2>6. g.cursor < s /\ g.oldest <= g.cursor
    BY <1>5, <1>6, <2>1, <2>3, <2>5
  <2> QED
    BY <1>6, <2>1, <2>2, <2>5, <2>6 DEF Piece
<1>9. CASE /\ h.rows # <<>> /\ g.cursor < s - 1 /\ win' = g /\ UNCHANGED <<queue, awaits>>
           /\ Asks([tag |-> "events", from |-> g.cursor + 1, to |-> s - 1])
  BY <1>0, <1>1, <1>4, <1>6, <1>7, <1>8, <1>9, RepairGoesOn
<1>10. CASE /\ ~(h.rows # <<>> /\ g.cursor < s - 1)
            /\ win' = IF s > g.cursor THEN Pushed(g, s) ELSE g
            /\ queue' = Tail(queue) /\ awaits' = "none" /\ UNCHANGED calls
  <2>1. /\ Pushed(g, s) \in Win /\ Pushed(g, s).cursor = s /\ Pushed(g, s).held = g.held
        /\ Pushed(g, s).oldest = g.oldest /\ Pushed(g, s).rows = Append(g.rows, s)
    BY <1>4, <1>6, PushedIs
  <2>2. win' \in Win /\ (gaps = {} => win'.cursor <= disk)
    BY <1>6, <1>7, <1>10, <2>1
  <2>3. ASSUME gaps = {}, synced
        PROVE  /\ win'.held /\ win'.oldest = win.oldest /\ win.cursor <= win'.cursor
               /\ Piece(win'.rows, win'.oldest, win'.cursor) /\ s <= win'.cursor
    <3>1. g.cursor < s /\ win' = Pushed(g, s)
      BY <1>4, <1>6, <1>8, <1>10, <2>3
    <3>2. Stretch(log, g.cursor + 1, s - 1) = {}
      <4>1. CASE h.rows = <<>>
        BY <1>8, <2>3, <4>1
      <4>2. CASE h.rows # <<>>
        <5>1. s - 1 < g.cursor + 1 /\ s - 1 \in Int /\ g.cursor + 1 \in Nat
          BY <1>4, <1>6, <1>10, <4>2
        <5> QED
          BY <5>1, NothingBetween
      <4> QED
        BY <4>1, <4>2
    <3>3. PICK low, mid, rows : low = g.oldest /\ mid = g.cursor /\ rows = g.rows
      OBVIOUS
    <3>4. /\ low \in Nat /\ mid \in Nat /\ rows = InOrder(Stretch(log, low, mid)) /\ low <= mid
          /\ s \in Facts(log) /\ mid < s /\ Stretch(log, mid + 1, s - 1) = {}
      BY <1>5, <1>6, <1>7, <1>8, <2>3, <3>1, <3>2, <3>3 DEF Piece
    <3>5. Append(rows, s) = InOrder(Stretch(log, low, s))
      BY <1>5, <3>4, PushedWhole
    <3>6. win.cursor <= s /\ s <= s
      BY <1>4, <1>5, <1>6, <3>1
    <3> QED
      BY <1>6, <1>8, <2>1, <2>3, <3>1, <3>3, <3>5, <3>6 DEF Piece
  <2> QED
    BY <1>0, <1>1, <1>10, <2>2, <2>3, RepairEnds
<1> QED
  BY <1>1, <1>9, <1>10

-----------------------------------------------------------------------------
LEMMA ReceiveKeeps ==
  ASSUME WindowInv, Receive
  PROVE  WindowInv'
<1>1. Receives
  BY DEF Receive, Receives
<1>2. \/ Hears(Head(wire)) \/ Boots(Head(wire)) \/ Replaces(Head(wire)) \/ Repairs(Head(wire))
      \/ Prepends(Head(wire)) \/ Refused(Head(wire)) \/ Ends(Head(wire))
  BY DEF Receive
<1>3. CASE Hears(Head(wire))
  BY <1>1, <1>3, HearsKeeps
<1>4. CASE Boots(Head(wire))
  BY <1>1, <1>4, BootsKeeps
<1>5. CASE Replaces(Head(wire))
  BY <1>1, <1>5, ReplacesKeeps
<1>6. CASE Repairs(Head(wire))
  BY <1>1, <1>6, RepairsKeeps
<1>7. CASE Prepends(Head(wire))
  BY <1>1, <1>7, PrependsKeeps
<1>8. CASE Refused(Head(wire))
  BY <1>1, <1>8, RefusedKeeps
<1>9. CASE Ends(Head(wire))
  BY <1>1, <1>9, EndsKeeps
<1> QED
  BY <1>2, <1>3, <1>4, <1>5, <1>6, <1>7, <1>8, <1>9

LEMMA WindowStarts ==
  ASSUME WInit
  PROVE  WindowInv
<1>1. /\ log = <<"fact", "fact">> /\ disk = 2 /\ stage \in {"cold", "live"} /\ copy = None /\ early = FALSE
      /\ up = FALSE /\ watch = "none" /\ calls = <<>> /\ due = <<>> /\ wire = <<>>
      /\ linked = FALSE /\ win = Unheld /\ queue = <<>> /\ awaits = "none"
      /\ paging = FALSE /\ synced = FALSE /\ gaps = {}
  BY DEF WInit
<1>2. \A T : ~Has(<<>>, T) /\ Lone(<<>>, T)
  BY EmptyHas
<1>3. /\ (\A T : AtMostOne(T, calls, due, wire) /\ ~Way(T)) /\ ~Cutting /\ Coming = {}
      /\ \A T : ~Has(queue, T) /\ Lone(queue, T) /\ ~Has(wire, T) /\ ~Has(due, T)
  BY <1>1, <1>2, EmptyHas DEF AtMostOne, Way, OnItsWay, Cutting, Coming
<1>4. WindowTyped
  <2>1. log \in Seq(Tier)
    BY <1>1 DEF Tier
  <2>2. win \in Win
    BY <1>1 DEF Unheld, Win
  <2>3. calls \in Seq(Request) /\ due \in Seq(Answer) /\ wire \in Seq(Frame) /\ queue \in Seq(Op)
    BY <1>1
  <2> QED
    BY <1>1, <2>1, <2>2, <2>3, LimitFacts DEF WindowTyped
<1>5. SourceInv
  <2>1. Len(log) = 2 /\ log[1] = "fact"
    BY <1>1
  <2> QED
    BY <1>1, <2>1, LimitFacts DEF SourceInv
<1>6. LineInv
  BY <1>1, <1>3 DEF LineInv
<1>7. BootInv
  BY <1>1, <1>3 DEF BootInv
<1>8. ReachInv
  BY <1>1, <1>3 DEF ReachInv, Unheld
<1>9. SettledInv /\ WholeInv /\ CutInv /\ PendingInv /\ TokenInv
  BY <1>1, <1>3 DEF SettledInv, WholeInv, CutInv, PendingInv, Base, TokenInv
<1> QED
  BY <1>4, <1>5, <1>6, <1>7, <1>8, <1>9 DEF WindowInv, DataInv

LEMMA WindowStays ==
  ASSUME WindowInv, UNCHANGED wvars
  PROVE  WindowInv'
<1>1. UNCHANGED <<log, disk, stage, copy, early, up, watch, calls, due, wire, linked, win, queue, awaits,
                  paging, synced, gaps>>
  BY DEF wvars, source, carrier, client
<1>2. Coming' = Coming /\ (Cutting' <=> Cutting) /\ \A T : (Way(T)' <=> Way(T))
  BY <1>1 DEF Coming, Cutting, Way
<1>3. WindowTyped' /\ SourceInv'
  BY <1>1 DEF WindowInv, WindowTyped, SourceInv, None
<1>4. LineInv' /\ BootInv'
  BY <1>1, <1>2 DEF WindowInv, LineInv, BootInv
<1>5. ReachInv' /\ SettledInv' /\ TokenInv'
  BY <1>1, <1>2 DEF WindowInv, DataInv, ReachInv, SettledInv, TokenInv
<1>6. WholeInv' /\ CutInv'
  BY <1>1, <1>2 DEF WindowInv, DataInv, WholeInv, CutInv, CutOk, PageOk, SpanOk, PageAsked, SpanAsked, Piece
<1>7. PendingInv'
  BY <1>1, <1>2 DEF WindowInv, DataInv, PendingInv, Base
<1> QED
  BY <1>3, <1>4, <1>5, <1>6, <1>7 DEF WindowInv, DataInv

(* What holds of a window, its connection and its session in every state.    *)
THEOREM WindowInvariance == WSpec => []WindowInv
<1>1. WInit => WindowInv
  BY WindowStarts
<1>2. WindowInv /\ [WNext]_wvars => WindowInv'
  <2> SUFFICES ASSUME WindowInv, [WNext]_wvars PROVE WindowInv'
    OBVIOUS
  <2>1. CASE UNCHANGED wvars
    BY <2>1, WindowStays
  <2>2. CASE \E tier \in {"fact", "trace"} : Emit(tier)
    BY <2>2, EmitKeeps DEF Tier
  <2>3. CASE \E closers \in 0..1 : Resume(closers)
    BY <2>3, ResumeKeeps
  <2>4. CASE Publish
    BY <2>4, PublishKeeps
  <2>5. CASE Refuse
    BY <2>5, RefuseKeeps
  <2>6. CASE Dispose
    BY <2>6, DisposeKeeps
  <2>7. CASE Serve
    BY <2>7, ServeKeeps
  <2>8. CASE Reply
    BY <2>8, ReplyKeeps
  <2>9. CASE Run
    BY <2>9, RunKeeps
  <2>10. CASE Receive
    BY <2>10, ReceiveKeeps
  <2>11. CASE AskOlder
    BY <2>11, AskOlderKeeps
  <2>12. CASE Drop
    BY <2>12, DropKeeps
  <2>13. CASE LinkUp
    BY <2>13, LinkUpKeeps
  <2> QED
    BY <2>1, <2>2, <2>3, <2>4, <2>5, <2>6, <2>7, <2>8, <2>9, <2>10, <2>11, <2>12, <2>13 DEF WNext
<1> QED
  BY <1>1, <1>2, PTL DEF WSpec

(* An attached window's transcript is the session's facts from its oldest    *)
(* row to its cursor, each once and in order (`app/web/wire.js` applyOne,    *)
(* repair, attachOnce; `app.js` older).                                      *)
THEOREM WindowStaysWhole == WSpec => []WindowIsWhole
<1>1. WindowInv => WindowIsWhole
  <2> SUFFICES ASSUME WindowInv, synced, gaps = {} PROVE Whole
    BY DEF WindowIsWhole
  <2>1. win.rows = InOrder(Stretch(log, win.oldest, win.cursor))
    BY DEF WindowInv, DataInv, WholeInv, Piece
  <2>2. Within(FactsTo(Len(log)), win.oldest, win.cursor) = Stretch(log, win.oldest, win.cursor)
    BY DEF Within, FactsTo, Stretch, Facts
  <2> QED
    BY <2>1, <2>2 DEF Whole
<1> QED
  BY <1>1, WindowInvariance, PTL

(* Where nothing is on its way, an open tab is attached, runs nothing and    *)
(* shows the session's last fact (`connection.ts`, `app/web/wire.js`).       *)
THEOREM QuietIsCurrent == WSpec => []CurrentWhenQuiet
<1>1. WindowInv => CurrentWhenQuiet
  <2> SUFFICES ASSUME WindowInv, linked, up, calls = <<>>, due = <<>>, wire = <<>>, queue = <<>>, gaps = {}
               PROVE  synced /\ awaits = "none" /\ ~paging /\ win.cursor >= Last2(FactsTo(Len(log)), 0)
    BY DEF CurrentWhenQuiet
  <2>1. \A T : ~Has(<<>>, T)
    BY EmptyHas
  <2>2. \A T : ~Way(T) /\ ~Has(queue, T)
    BY <2>1 DEF Way, OnItsWay
  <2>3. synced
    BY <2>2 DEF WindowInv, DataInv, TokenInv
  <2>4. awaits = "none" /\ ~paging
    BY <2>2 DEF WindowInv, LineInv, WindowTyped
  <2>5. log \in Seq(Tier) /\ win.cursor \in Nat
    BY DEF WindowInv, WindowTyped, Win
  <2>6. Complete(win.cursor, log, queue, wire)
    BY <2>3, <2>5 DEF WindowInv, DataInv, PendingInv, Base
  <2>7. \A f \in Facts(log) : f <= win.cursor
    BY <2>6 DEF Complete, Applies, Carries
  <2>8. FactsTo(Len(log)) = Facts(log)
    BY DEF FactsTo, Facts
  <2>9. win.cursor >= Last2(Facts(log), 0)
    <3>1. CASE Facts(log) = {}
      BY <2>5, <3>1 DEF Last2
    <3>2. CASE Facts(log) # {}
      <4>1. Facts(log) \in SUBSET Nat
        BY <2>5 DEF Facts
      <4>2. IsFiniteSet(Facts(log))
        <5>1. Facts(log) \subseteq 1..Len(log) /\ Len(log) \in Nat
          BY <2>5 DEF Facts
        <5>2. IsFiniteSet(1..Len(log))
          BY <5>1, FS_Interval
        <5> QED
          BY <5>1, <5>2, FS_Subset
      <4>3. Last2(Facts(log), 0) \in Facts(log)
        BY <3>2, <4>1, <4>2, LeastOf
      <4> QED
        BY <2>5, <2>7, <4>1, <4>3
    <3> QED
      BY <3>1, <3>2
  <2> QED
    BY <2>3, <2>4, <2>8, <2>9
<1> QED
  BY <1>1, WindowInvariance, PTL
=============================================================================
