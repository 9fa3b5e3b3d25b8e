------------------------------ MODULE HostCalls ------------------------------
(***************************************************************************)
(* The protocol host (src/capabilities/protocol/host.ts): clients come,    *)
(* narrow what they watch, subscribe to summaries and leave; a prompt      *)
(* acquires an agent - made, resumed, joined or found - and delivers to    *)
(* it; questions are parked while some client could come to answer them;   *)
(* a shutdown drains the acquires that race it and disposes of what the    *)
(* host holds - and another may be sent while it does.                     *)
(***************************************************************************)
EXTENDS Integers, FiniteSets

CONSTANTS
  Client, Session,
  Named,         \* SUBSET Session: those clients attach to and detach by name
  MaxPrompts,    \* prompts, numbered as they are sent
  Nobody,
  Parent,        \* [Session -> Session \cup {Nobody}]: header.delegatedBy
  MayShutdown,   \* SUBSET Client: their carrier's allowShutdown
  Subscribers,   \* SUBSET Client: those that use the control plane
  Narrowers,     \* SUBSET Client: those that change what they watch
  CloseWithLast, \* BOOLEAN: config.closeWithLastClient
  MaxAsks,       \* questions asked in a run
  MaxShutdowns   \* shutdowns sent in a run

ASSUME HostAssumption ==
  /\ Nobody \notin Session
  /\ Named \subseteq Session
  /\ Parent \in [Session -> Session \cup {Nobody}]
  /\ MayShutdown \cup Subscribers \cup Narrowers \subseteq Client
  /\ CloseWithLast \in BOOLEAN
  /\ {MaxPrompts, MaxAsks, MaxShutdowns} \subseteq Nat

VARIABLES
  conn,      \* [Client -> [st, all, watch, control]]: its ClientConnection
  told,      \* [Client -> [Session -> the last summary it was sent]]
  withheld,  \* SUBSET Session; history: closed, and some subscriber that was
             \*   told it lives was not sent the closed summary
  phase,     \* [Session -> "unborn", "stored", "building", "joined" (registered,
             \*   its resume not concluded), "up", "closing", "leaving"]
  running,   \* SUBSET Session: agents whose status is running
  delegated, \* SUBSET Session: children inside their parent's call
  resuming,  \* SUBSET Session: the table of resumes in flight
  owned,     \* SUBSET Session: the handles this host holds
  asked,     \* [Session -> "no", "open", "settled"]: its question, until decided
  parked,    \* SUBSET Session: questions the host holds
  owed,      \* [Session -> "no", "live", "closed"]: summaries of this tick
  call,      \* [Prompt -> [st, on, early, kept]]: where it stands, the session
             \*   it acquires; history: it found an agent whose resume had not
             \*   concluded; it was taken by one that lives
  stop,      \* [Halt -> [st, awaits, left, now]]: each shutdown's loop
  closed,    \* BOOLEAN
  asks       \* questions asked so far

Prompt == 1..MaxPrompts
Halt == 1..MaxShutdowns

clients == <<conn, told, withheld>>
agents == <<phase, running, delegated>>
holds == <<resuming, owned>>
questions == <<asked, parked, asks>>
vars == <<clients, agents, holds, questions, owed, call, stop, closed>>

Unheard == <<"unheard", 0>>
Closed == <<"closed", 0>>
NoCall == [st |-> "new", on |-> Nobody, early |-> FALSE, kept |-> FALSE]
Fresh == [st |-> "new", all |-> TRUE, watch |-> {}, control |-> FALSE]
Gone == [st |-> "gone", all |-> FALSE, watch |-> {}, control |-> FALSE]
NoStop == [st |-> "no", awaits |-> {}, left |-> {}, now |-> Nobody]

Init ==
  /\ conn = [c \in Client |-> Fresh]
  /\ told = [c \in Client |-> [s \in Session |-> Unheard]] /\ withheld = {}
  /\ \E known \in SUBSET Session :
       /\ \A s \in known : Parent[s] \in known \cup {Nobody}
       /\ phase = [s \in Session |-> IF s \in known THEN "stored" ELSE "unborn"]
  /\ running = {} /\ delegated = {} /\ resuming = {} /\ owned = {}
  /\ asked = [s \in Session |-> "no"] /\ parked = {} /\ asks = 0
  /\ owed = [s \in Session |-> "no"]
  /\ call = [p \in Prompt |-> NoCall]
  /\ stop = [k \in Halt |-> NoStop] /\ closed = FALSE

-----------------------------------------------------------------------------
(* Who is there, who sees what *)

Open(c) == conn[c].st = "open"
ShuttingDown == \E k \in Halt : stop[k].st # "no"
Registered(s) == phase[s] \in {"joined", "up", "closing"}

\* A live parent runs this child, as far as the host can tell: whatever the host
\* does not own is the parent's while the parent is registered.
UnderParent(s) ==
  Parent[s] # Nobody /\ s \notin owned /\ Registered(Parent[s])

Watches(k, s) == k.all \/ s \in k.watch
MayAnswer(k, s) == k.st = "open" /\ Watches(k, s)
CouldAnswer(k, s) == k.st = "open" /\ (Watches(k, s) \/ k.control)
AnyCouldAnswer(ks, s) == \E c \in Client : CouldAnswer(ks[c], s)

AnySubscriber == \E c \in Client : Open(c) /\ conn[c].control

\* A summary is owed at the end of the tick; a disposal makes it the closed one.
Owing(o, s, how) ==
  IF closed \/ ~AnySubscriber THEN o
  ELSE [o EXCEPT ![s] = IF how = "closed" \/ @ = "closed" THEN "closed" ELSE "live"]
Owes(s, how) == owed' = Owing(owed, s, how)

SummaryOf(s) ==
  IF Registered(s)
  THEN <<IF s \in running THEN "running" ELSE "idle", IF asked[s] = "no" THEN 0 ELSE 1>>
  ELSE Closed

\* Mutant: children inside a call are not left out.
FlushShowsChildren ==
  /\ \E s \in Session : owed[s] # "no"
  /\ owed' = [s \in Session |-> "no"]
  /\ told' = [c \in Client |-> [s \in Session |->
                IF Open(c) /\ conn[c].control /\ owed[s] # "no" THEN SummaryOf(s) ELSE told[c][s]]]
  /\ UNCHANGED <<conn, withheld, agents, holds, questions, call, stop, closed>>

\* The microtask: every owed summary, to every subscriber, as things stand now.
Flush ==
  /\ \E s \in Session : owed[s] # "no"
  /\ owed' = [s \in Session |-> "no"]
  /\ LET sent(s) == /\ owed[s] # "no" /\ ~UnderParent(s)
                    /\ owed[s] = "closed" \/ Registered(s)
         what(s) == IF owed[s] = "closed" THEN Closed ELSE SummaryOf(s)
     IN /\ told' = [c \in Client |-> [s \in Session |->
                     IF Open(c) /\ conn[c].control /\ sent(s) THEN what(s) ELSE told[c][s]]]
        /\ withheld' = {s \in withheld : ~sent(s)} \cup
                         {s \in Session : /\ owed[s] = "closed" /\ UnderParent(s)
                                         /\ \E c \in Client : told[c][s] \notin {Unheard, Closed}}
  /\ UNCHANGED <<conn, agents, holds, questions, call, stop, closed>>

-----------------------------------------------------------------------------
(* Clients *)

\* Every parked question no one left could come to answer is settled unavailable.
SettleUnwatched(ks) ==
  LET stays == {s \in parked : AnyCouldAnswer(ks, s)}
  IN  /\ parked' = stays
      /\ asked' = [s \in Session |-> IF s \in parked \ stays THEN "settled" ELSE asked[s]]

\* close(): questions fail closed, every connection is dropped.
Close(ks) ==
  /\ closed' = TRUE
  /\ parked' = {}
  /\ asked' = [s \in Session |-> IF s \in parked THEN "settled" ELSE asked[s]]
  /\ owed' = [s \in Session |-> "no"]
  /\ conn' = [c \in Client |-> IF ks[c] = Fresh THEN Fresh ELSE Gone]

\* A closed host drops a connection as it comes.
Connect(c) ==
  /\ conn[c] = Fresh
  /\ conn' = [conn EXCEPT ![c] = IF closed THEN Gone ELSE [Fresh EXCEPT !.st = "open"]]
  /\ UNCHANGED <<told, withheld, agents, holds, questions, owed, call, stop, closed>>

Disconnect(c) ==
  /\ Open(c)
  /\ told' = [told EXCEPT ![c] = [s \in Session |-> Unheard]]
  /\ LET ks == [conn EXCEPT ![c] = Gone]
     IN  IF CloseWithLast /\ \A d \in Client : ks[d].st # "open"
         THEN Close(ks)
         ELSE conn' = ks /\ SettleUnwatched(ks) /\ UNCHANGED <<owed, closed>>
  /\ UNCHANGED <<withheld, agents, holds, asks, call, stop>>

\* Mutant: the questions are not looked at.
NarrowsUnseen(c, k) ==
  /\ Open(c) /\ c \in Narrowers
  /\ conn' = [conn EXCEPT ![c] = k]
  /\ UNCHANGED <<told, withheld, agents, holds, questions, owed, call, stop, closed>>

\* Any change of a watch set is a change of who could answer.
Narrows(c, k) ==
  LET ks == [conn EXCEPT ![c] = k]
  IN  /\ Open(c) /\ c \in Narrowers
      /\ conn' = ks
      /\ SettleUnwatched(ks)
      /\ UNCHANGED <<told, withheld, agents, holds, asks, owed, call, stop, closed>>

Attach(c, s) ==
  /\ s \in Named /\ phase[s] # "unborn"
  /\ Narrows(c, [conn[c] EXCEPT !.all = FALSE, !.watch = @ \cup {s}])

Detach(c, s) == s \in Named /\ Narrows(c, [conn[c] EXCEPT !.all = FALSE, !.watch = @ \ {s}])
DetachAll(c) == Narrows(c, [conn[c] EXCEPT !.all = FALSE, !.watch = {}])

\* The baseline: one summary for each live session the host would show.
ControlSubscribe(c) ==
  /\ c \in Subscribers /\ Open(c)
  /\ conn' = [conn EXCEPT ![c].control = TRUE]
  /\ told' = [told EXCEPT ![c] = [s \in Session |->
                IF Registered(s) /\ ~UnderParent(s) THEN SummaryOf(s) ELSE @[s]]]
  /\ UNCHANGED <<withheld, agents, holds, questions, owed, call, stop, closed>>

\* First answer wins; only a connection that receives the session may give it.
ApprovalAnswer(c, s) ==
  /\ s \in parked /\ MayAnswer(conn[c], s)
  /\ parked' = parked \ {s}
  /\ asked' = [asked EXCEPT ![s] = "settled"]
  /\ UNCHANGED <<clients, agents, holds, asks, owed, call, stop, closed>>

-----------------------------------------------------------------------------
(* Agents, as the host meets them *)

\* cancel(): the turn's signal settles its question, and a child is given up.
Aborts(s) == asked' = [asked EXCEPT ![s] = IF @ = "open" THEN "settled" ELSE @]

\* handle.dispose(): one disposal, shared by whoever asks.
Disposes(s) ==
  /\ phase' = [phase EXCEPT ![s] = IF @ \in {"joined", "up"} THEN "closing" ELSE @]
  /\ Aborts(s)

\* A question parks while somebody could come to answer it, and is settled
\* unavailable at once when nobody could.  A delegated child is pinned to never
\* asking.
Ask(s) ==
  /\ phase[s] \in {"joined", "up"} /\ s \in running
  /\ Parent[s] = Nobody /\ asked[s] = "no" /\ asks < MaxAsks
  /\ asks' = asks + 1
  /\ IF ~closed /\ AnyCouldAnswer(conn, s)
     THEN parked' = parked \cup {s} /\ asked' = [asked EXCEPT ![s] = "open"]
     ELSE asked' = [asked EXCEPT ![s] = "settled"] /\ UNCHANGED parked
  /\ Owes(s, "live")
  /\ UNCHANGED <<clients, agents, holds, call, stop, closed>>

\* approval/decided is written: the durable decision ends the parked frame.
Decide(s) ==
  /\ asked[s] = "settled"
  /\ asked' = [asked EXCEPT ![s] = "no"]
  /\ parked' = parked \ {s}
  /\ Owes(s, "live")
  /\ UNCHANGED <<clients, agents, holds, asks, call, stop, closed>>

\* session/cancel
Cancel(c, s) ==
  /\ Open(c) /\ Registered(s) /\ ~UnderParent(s) /\ s \in running
  /\ asked[s] = "open"
  /\ Aborts(s)
  /\ UNCHANGED <<clients, agents, holds, parked, asks, owed, call, stop, closed>>

Children(s) == {k \in delegated : Parent[k] = s}

TurnEnds(s) ==
  /\ s \in running /\ asked[s] = "no" /\ Children(s) = {}
  /\ running' = running \ {s}
  /\ Owes(s, "live")
  /\ UNCHANGED <<clients, phase, delegated, holds, questions, call, stop, closed>>

\* A call of the parent's turn makes a child under a fresh id ...
Delegate(k) ==
  /\ phase[k] = "unborn" /\ Parent[k] \in running
  /\ phase[Parent[k]] \in {"joined", "up"} /\ asked[Parent[k]] = "no"
  /\ phase' = [phase EXCEPT ![k] = "building"]
  /\ delegated' = delegated \cup {k}
  /\ UNCHANGED <<clients, running, holds, questions, owed, call, stop, closed>>

\* ... prompts it as soon as it is up ...
ChildUp(k) ==
  /\ k \in delegated /\ phase[k] = "building"
  /\ phase' = [phase EXCEPT ![k] = "up"]
  /\ running' = running \cup {k}
  /\ Owes(k, "live")
  /\ UNCHANGED <<clients, delegated, holds, questions, call, stop, closed>>

\* ... and disposes of it when it is done, or when the turn was aborted.
ChildEnds(k) ==
  /\ k \in delegated /\ phase[k] = "up"
  /\ k \notin running \/ phase[Parent[k]] = "closing"
  /\ Disposes(k)
  /\ UNCHANGED <<clients, running, delegated, holds, parked, asks, owed, call, stop, closed>>

\* Idle, an agent that closes leaves the registry, and then the store lets go.
Leave(s) ==
  /\ phase[s] = "closing" /\ s \notin running
  /\ phase' = [phase EXCEPT ![s] = "leaving"]
  /\ Owes(s, "closed")
  /\ UNCHANGED <<clients, running, delegated, holds, questions, call, stop, closed>>

-----------------------------------------------------------------------------
(* Prompts *)

\* Mutant: only the first of the callers that share an acquire hears.
FirstWaiting(s) ==
  {p \in Prompt : call[p].st = "waiting" /\ call[p].on = s
                  /\ \A q \in Prompt : q < p => call[q].on # s}
Waiting(s) == {p \in Prompt : call[p].st = "waiting" /\ call[p].on = s}
Become(ps, st) ==
  call' = [p \in Prompt |-> IF p \notin ps THEN call[p]
                             ELSE [call[p] EXCEPT !.st = st, !.on = IF st = "refused" THEN Nobody ELSE @]]
InFlight == {p \in Prompt : call[p].st \in {"waiting", "got"}}

Sent(p) == \A q \in Prompt : q < p => call[q].st # "new"
Acquires(p, s, st) == call' = [call EXCEPT ![p].st = st, ![p].on = IF st = "refused" THEN Nobody ELSE s]

\* session/prompt with no id: a session is made.
PromptNew(p, s) ==
  /\ call[p].st = "new" /\ Sent(p) /\ \E c \in Client : Open(c)
  /\ phase[s] = "unborn" /\ Parent[s] = Nobody
  /\ IF ShuttingDown
     THEN Acquires(p, Nobody, "refused") /\ UNCHANGED phase
     ELSE Acquires(p, s, "waiting") /\ phase' = [phase EXCEPT ![s] = "building"]
  /\ UNCHANGED <<clients, running, delegated, holds, questions, owed, stop, closed>>

\* With an id: delivered to the agent registered under it, unless its parent
\* runs it; else the resume in flight is joined, or one begins.  The store
\* refuses a session it still holds.
PromptAt(p, s) ==
  /\ call[p].st = "new" /\ Sent(p) /\ \E c \in Client : Open(c)
  /\ phase[s] # "unborn"
  /\ IF ShuttingDown THEN Acquires(p, s, "refused") /\ UNCHANGED <<phase, resuming>>
     ELSE IF Registered(s)
     THEN /\ IF UnderParent(s) THEN Acquires(p, s, "refused")
             ELSE call' = [call EXCEPT ![p] = [@ EXCEPT !.st = "got", !.on = s, !.early = s \in resuming]]
          /\ UNCHANGED <<phase, resuming>>
     ELSE IF s \in resuming THEN Acquires(p, s, "waiting") /\ UNCHANGED <<phase, resuming>>
     ELSE IF phase[s] = "stored"
     THEN /\ Acquires(p, s, "waiting")
          /\ phase' = [phase EXCEPT ![s] = "building"]
          /\ resuming' = resuming \cup {s}
     ELSE Acquires(p, s, "refused") /\ UNCHANGED <<phase, resuming>>
  /\ UNCHANGED <<clients, running, delegated, owned, questions, owed, stop, closed>>

\* Mutant: the callers of a resume have its agent before the store answers.
JoinAnswersEarly(s) ==
  /\ phase[s] = "building" /\ s \notin delegated /\ owed[s] = "no"
  /\ phase' = [phase EXCEPT ![s] = IF s \in resuming THEN "joined" ELSE "up"]
  /\ owned' = IF s \in resuming THEN owned ELSE owned \cup {s}
  /\ Become(Waiting(s), "got")
  /\ Owes(s, "live")
  /\ UNCHANGED <<clients, running, delegated, resuming, questions, stop, closed>>

\* The agent is built and registered.  A new one is the host's at once; a
\* resumed one awaits its store.
Join(s) ==
  /\ phase[s] = "building" /\ s \notin delegated /\ owed[s] = "no"
  /\ IF s \in resuming
     THEN phase' = [phase EXCEPT ![s] = "joined"] /\ UNCHANGED <<owned, call>>
     ELSE /\ phase' = [phase EXCEPT ![s] = "up"]
          /\ owned' = owned \cup {s}
          /\ Become(Waiting(s), "got")
  /\ Owes(s, "live")
  /\ UNCHANGED <<clients, running, delegated, resuming, questions, stop, closed>>

\* Something refuses before that, and the session is what it was.
BuildFails(s) ==
  /\ phase[s] = "building"
  /\ phase' = [phase EXCEPT ![s] = IF s \in resuming THEN "stored" ELSE "unborn"]
  /\ delegated' = delegated \ {s}
  /\ resuming' = resuming \ {s}
  /\ Become(Waiting(s), "refused")
  /\ UNCHANGED <<clients, running, owned, questions, owed, stop, closed>>

\* The store accepted the session and the host's flags apply.  An agent that
\* owes work starts before its handle is held, so the summary of a child's
\* start finds it still its parent's.
ResumeConcludes(s) ==
  /\ phase[s] = "joined" /\ owed[s] = "no"
  /\ phase' = [phase EXCEPT ![s] = "up"]
  /\ owned' = owned \cup {s}
  /\ resuming' = resuming \ {s}
  /\ Become(Waiting(s), "got")
  /\ \/ UNCHANGED <<running, owed>>
     \/ /\ s \notin running
        /\ running' = running \cup {s}
        /\ IF UnderParent(s) THEN UNCHANGED owed ELSE Owes(s, "live")
  /\ UNCHANGED <<clients, delegated, questions, stop, closed>>

\* The lease is held elsewhere, the stored log is damaged, or the flags cannot
\* apply: the agent is disposed of, and then the callers hear.
ResumeRefused(s) ==
  /\ phase[s] = "joined"
  /\ Disposes(s)
  /\ UNCHANGED <<clients, running, delegated, holds, parked, asks, owed, call, stop, closed>>

\* The store lets go of a session whose agent left; a refused resume ends here.
Detached(s) ==
  /\ phase[s] = "leaving"
  /\ phase' = [phase EXCEPT ![s] = "stored"]
  /\ delegated' = delegated \ {s}
  /\ resuming' = resuming \ {s}
  /\ Become(Waiting(s), "refused")
  /\ UNCHANGED <<clients, running, owned, questions, owed, stop, closed>>

\* followup(): a disposed agent drops it without a word.
Delivers(p, s) ==
  LET takes == phase[s] \in {"joined", "up"}
  IN  /\ call' = [call EXCEPT ![p].st = "accepted", ![p].on = Nobody, ![p].kept = phase[s] = "up"]
      /\ IF takes THEN running' = running \cup {s} /\ Owes(s, "live") ELSE UNCHANGED <<running, owed>>
      /\ UNCHANGED <<phase, owned, asked>>

\* A shutdown began while the agent was acquired: the straggler is disposed of,
\* and nothing is delivered.
Straggles(p, s) ==
  /\ IF s \in owned
     THEN /\ owned' = owned \ {s}
          /\ Disposes(s)
          /\ Become({p}, "disposing")
     ELSE Become({p}, "refused") /\ UNCHANGED <<owned, phase, asked>>
  /\ UNCHANGED <<running, owed>>

Deliver(p) ==
  /\ call[p].st = "got"
  /\ IF ShuttingDown THEN Straggles(p, call[p].on) ELSE Delivers(p, call[p].on)
  /\ UNCHANGED <<clients, delegated, resuming, parked, asks, stop, closed>>

StragglerGone(p) ==
  /\ call[p].st = "disposing" /\ phase[call[p].on] = "stored"
  /\ Become({p}, "refused")
  /\ UNCHANGED <<clients, agents, holds, questions, owed, stop, closed>>

-----------------------------------------------------------------------------
(* Shutdown *)

\* Of the handles a shutdown has taken, one is disposed of at a time.
DisposesOf(k, handles) ==
  \E s \in handles :
    /\ stop' = [stop EXCEPT ![k] = [st |-> "sweeping", awaits |-> {},
                                    left |-> handles \ {s}, now |-> s]]
    /\ Disposes(s)
    /\ UNCHANGED <<conn, parked, asks, owed, closed>>

TakesOwned(k) == DisposesOf(k, owned) /\ owned' = {}

\* The acquires in flight are awaited.
Drains(k) ==
  /\ stop' = [stop EXCEPT ![k] = [NoStop EXCEPT !.st = "draining", !.awaits = InFlight]]
  /\ UNCHANGED <<conn, phase, owned, questions, owed, closed>>

\* It is answered, and the host closes in the same tick, unless it had.
Answers(k) ==
  /\ stop' = [stop EXCEPT ![k] = [NoStop EXCEPT !.st = "answered"]]
  /\ IF closed THEN UNCHANGED <<conn, asked, parked, owed, closed>> ELSE Close(conn)
  /\ UNCHANGED <<phase, owned, asks>>

\* The loop's head: again while anything is in flight or held.
Again(k) ==
  \/ InFlight # {} /\ Drains(k)
  \/ InFlight = {} /\ owned # {} /\ TakesOwned(k)
  \/ InFlight = {} /\ owned = {} /\ Answers(k)

\* What a shutdown leaves to the rest of the host.
Elsewhere == UNCHANGED <<told, withheld, running, delegated, resuming, call>>

\* Nothing keeps a second one out while the first sweeps.
Shutdown(c, k) ==
  /\ Open(c) /\ c \in MayShutdown
  /\ stop[k].st = "no" /\ \A i \in Halt : i < k => stop[i].st # "no"
  /\ Again(k)
  /\ Elsewhere

\* The acquires it found are settled: what the host holds by now is taken.
Sweep(k) ==
  /\ stop[k].st = "draining" /\ stop[k].awaits \cap InFlight = {}
  /\ IF owned # {} THEN TakesOwned(k) ELSE Again(k)
  /\ Elsewhere

\* A disposal is over: the next, or the loop's head.
SweepNext(k) ==
  /\ stop[k].st = "sweeping" /\ phase[stop[k].now] = "stored"
  /\ IF stop[k].left # {} THEN DisposesOf(k, stop[k].left) /\ UNCHANGED owned
     ELSE Again(k)
  /\ Elsewhere

-----------------------------------------------------------------------------
Frames(c) ==
  \/ Connect(c) \/ Disconnect(c)
  \/ DetachAll(c) \/ ControlSubscribe(c) \/ \E k \in Halt : Shutdown(c, k)
  \/ \E s \in Session : Attach(c, s) \/ Detach(c, s) \/ ApprovalAnswer(c, s) \/ Cancel(c, s)

Prompts == \E p \in Prompt :
  \/ \E s \in Session : PromptNew(p, s) \/ PromptAt(p, s)
  \/ Deliver(p) \/ StragglerGone(p)

Agents == \E s \in Session :
  \/ Ask(s) \/ Decide(s) \/ TurnEnds(s)
  \/ Delegate(s) \/ ChildUp(s) \/ ChildEnds(s)
  \/ Join(s) \/ BuildFails(s) \/ ResumeConcludes(s) \/ ResumeRefused(s)
  \/ Leave(s) \/ Detached(s)

Stops == \E k \in Halt : Sweep(k) \/ SweepNext(k)

Next == Flush \/ Prompts \/ Agents \/ Stops \/ \E c \in Client : Frames(c)

\* What the host and its agents do without being asked again: a microtask, a
\* promise, a disposal, a build under way.  A turn is owed its end only once its
\* agent closes: until then it may wait for a person.
Proceeds ==
  \/ Flush \/ Stops
  \/ \E p \in Prompt : Deliver(p) \/ StragglerGone(p)
  \/ \E s \in Session :
       \/ Decide(s) \/ (phase[s] = "closing" /\ TurnEnds(s)) \/ Leave(s) \/ Detached(s)
       \/ ChildUp(s) \/ ChildEnds(s) \/ Join(s) \/ ResumeConcludes(s)

Spec == Init /\ [][Next]_vars /\ WF_vars(Proceeds)

-----------------------------------------------------------------------------
(* Properties *)

Connections == [st : {"new", "open", "gone"}, all : BOOLEAN,
                watch : SUBSET Session, control : BOOLEAN]
Calls == [st : {"new", "waiting", "got", "disposing", "accepted", "refused"},
          on : Session \cup {Nobody}, early : BOOLEAN, kept : BOOLEAN]
Stages == [st : {"no", "draining", "sweeping", "answered"}, awaits : SUBSET Prompt,
           left : SUBSET Session, now : Session \cup {Nobody}]
TypeOK ==
  /\ conn \in [Client -> Connections]
  /\ phase \in [Session -> {"unborn", "stored", "building", "joined", "up", "closing", "leaving"}]
  /\ running \subseteq {s \in Session : Registered(s)}
  /\ delegated \subseteq {s \in Session : Parent[s] \in Session}
  /\ resuming \subseteq Session /\ owned \subseteq Session /\ parked \subseteq Session
  /\ asked \in [Session -> {"no", "open", "settled"}]
  /\ owed \in [Session -> {"no", "live", "closed"}]
  /\ call \in [Prompt -> Calls]
  /\ stop \in [Halt -> Stages]
  /\ closed \in BOOLEAN

\* A question waits on the host only where a person can still come to it: the
\* host is open, holds it, and some open connection watches its session or is
\* told of it by its summaries - whatever clients attached, narrowed, subscribed
\* or left since it was asked (host.ts settleUnwatchedApprovals).
QuestionsFindAPerson ==
  \A s \in Session : asked[s] = "open" =>
    ~closed /\ s \in parked /\ AnyCouldAnswer(conn, s)

QuestionsAreSound == TypeOK /\ QuestionsFindAPerson

\* Between ticks a control subscriber's picture is the truth: each session the
\* host shows is as it was last told, and one that is gone, or inside its
\* parent's call, was last told closed or never (host.ts flushSummaries).  Not
\* yet so for a child a prompt is reaching, nor once the host shuts down; and not
\* where the closed summary itself was passed over (withheld).
Between(s) == ~ShuttingDown /\ ~closed /\ \A t \in Session : owed[t] = "no"
Reached(s) == Parent[s] # Nobody /\ \E p \in InFlight : call[p].on = s
SummariesAreCurrent ==
  \A c \in Client, s \in Session :
    Between(s) /\ Open(c) /\ conn[c].control /\ ~Reached(s) /\ s \notin withheld =>
      IF Registered(s) /\ ~UnderParent(s) THEN told[c][s] = SummaryOf(s)
      ELSE told[c][s] \in {Unheard, Closed}

\* What flushSummaries says of its skip, that it is of "a child mid-delegation"
\* only: nothing else is withheld.
OnlyDelegatedWithheld == withheld = {}

\* A prompt answered with a message id was taken by an agent that lives and that
\* its store has accepted, whatever shutdown, refused resume or other caller
\* raced the acquire - unless it found the agent registered before its resume
\* had concluded (host.ts prompt and acquire; factory.ts: the store's refusal is
\* to reach the caller before any paid work).
AcknowledgedIsKept ==
  \A p \in Prompt : call[p].st = "accepted" => call[p].kept \/ call[p].early

\* What factory.ts and driver.ts say of every prompt: none is acknowledged by an
\* agent its store may still refuse, or that is being disposed of.
AcknowledgedAlways == \A p \in Prompt : call[p].st = "accepted" => call[p].kept

\* A shutdown is answered with nothing in flight or held, and with every agent
\* gone or on its way, a child with its parent's call (host.ts shutdown drains,
\* sweeps and looks again) - but for what another shutdown has taken and still
\* sweeps; so the last one to be answered leaves nothing behind.
Answered == \E k \in Halt : stop[k].st = "answered"
LeftToSweep == UNION {stop[k].left : k \in {i \in Halt : stop[i].st = "sweeping"}}
Ending(s) == phase[s] \in {"unborn", "stored", "closing", "leaving"}
ShutdownLeavesNothing ==
  Answered =>
    /\ InFlight = {} /\ owned = {}
    /\ \A s \in Session \ delegated : Ending(s) \/ s \in LeftToSweep

\* What the comment on shutdown() says of every one of them, "dispose-to-idle":
\* what is answered, and closes the host, has disposed of what it held.
AnswerLeavesNothing ==
  Answered => \A s \in Session \ delegated : Ending(s)

\* Both, whatever acquires, refusals and shutdowns race each other.
RacesLoseNothing == AcknowledgedIsKept /\ ShutdownLeavesNothing

\* Every prompt is answered, and so is every shutdown, whatever turns, children,
\* questions and resumes they met: time and again no caller is left waiting.
Settled ==
  /\ \A p \in Prompt : call[p].st \in {"new", "accepted", "refused"}
  /\ \A k \in Halt : stop[k].st \in {"no", "answered"}
CallsSettle == []<>Settled
=============================================================================
