--------------------------- MODULE SessionWindow ---------------------------
(***************************************************************************)
(* One session as one browser tab shows it: the host's attach, repair and  *)
(* page answers, its broadcast through a socket with a soft and a hard     *)
(* limit, and the client's window, which drops what it holds, repairs a    *)
(* hole and replaces everything when it attaches again.                    *)
(*                                                                         *)
(* Code: `capabilities/protocol/host.ts` (onSessionEvent, attach, page,    *)
(* events, sourceFor), `connection.ts`, `transport-ws.ts` (send, close),   *)
(* `core/session/page.ts`, and the client, `app/web/wire.js` and the       *)
(* handlers `app/web/app.js` gives it.                                     *)
(*                                                                         *)
(* An event is its seq and its tier: a fact, which no carrier may drop, or *)
(* a trace, which is streamed and never kept. One frame is one unit of the *)
(* socket's queue. The session is live on this host or stored; a resume    *)
(* builds it unpublished, publishes it, and may fail on the way.           *)
(***************************************************************************)
EXTENDS Naturals, Sequences, FiniteSets

CONSTANTS
  SoftLimit,   \* frames a socket queues before traces are dropped
  HardLimit,   \* frames it queues before the client is closed as slow
  PageSize,    \* messages of a page
  RepairLimit, \* events of one repair answer
  MaxLog,      \* bound: events in the log
  MaxTraces,   \* bound: traces among them
  MaxOpens,    \* bound: connections the tab opens
  MaxPages,    \* bound: older pages it asks for
  MaxResumes   \* bound: resumes of the session

ASSUME LimitsAreNat ==
  /\ {SoftLimit, HardLimit, MaxLog, MaxTraces, MaxOpens, MaxPages, MaxResumes} \subseteq Nat
  /\ {PageSize, RepairLimit} \subseteq Nat \ {0} /\ MaxLog >= 2

VARIABLES
  log,     \* the session's events, each "fact" or "trace"; seq = index - 1
  disk,    \* how many of them are in the stored file
  stage,   \* "cold", "setup" (resumed, not published) or "live"
  copy,    \* the host's parsed copy of the stored log: its length, or None
  early,   \* history: it was parsed during a resume
  up,      \* the host's side of the connection is open
  watch,   \* what it watches: "all", "named" (this session) or "none"
  calls,   \* requests on their way to the host
  due,     \* answers computed and not yet sent
  wire,    \* frames on their way to the client
  linked,  \* the client's side is open
  win,     \* the client's window: held, cursor, oldest, more, rows
  queue,   \* its queued operations
  awaits,  \* the answer its first operation waits for, or "none"
  paging,  \* an older page was asked for
  synced,  \* an attach was applied on this connection
  gaps,    \* history: the known ways this window may have come to be wrong
  left     \* bound: what may still happen, by kind

source == <<log, disk, stage, copy, early>>
carrier == <<up, watch, calls, due, wire>>
client == <<linked, win, queue, awaits, paging, synced>>
wvars == <<source, carrier, client, gaps, left>>

None == MaxLog + 1

Max2(a, b) == IF a >= b THEN a ELSE b
Least(S, d) == IF S = {} THEN d ELSE CHOOSE s \in S : \A t \in S : s <= t
Last2(S, d) == IF S = {} THEN d ELSE CHOOSE s \in S : \A t \in S : s >= t

\* A cursor is one more than the seq it names, so that the empty log's is 0;
\* an event's number is its seq plus one.
FactsTo(n) == {s \in 1..n : log[s] = "fact"}
Within(S, low, high) == {s \in S : low <= s /\ s <= high}
InOrder(S) == [i \in 1..Cardinality(S) |-> CHOOSE s \in S : Cardinality({t \in S : t <= s}) = i]
Newest(S, k) == {s \in S : Cardinality({t \in S : t >= s}) <= k}
Oldest(S, k) == {s \in S : Cardinality({t \in S : t <= s}) <= k}

Unheld == [held |-> FALSE, cursor |-> 0, oldest |-> 1, more |-> FALSE, rows |-> <<>>]

-----------------------------------------------------------------------------
(* The carrier.                                                              *)

Bye == [tag |-> "bye"]
Shut == up' = FALSE /\ watch' = "none" /\ calls' = <<>>

\* Mutant: over the soft limit whatever comes is dropped.
SendDropsAll(frame, droppable) ==
  IF Len(wire) > SoftLimit THEN UNCHANGED <<up, watch, calls, wire>>
  ELSE wire' = Append(wire, frame) /\ UNCHANGED <<up, watch, calls>>

\* send: over the soft limit a trace is dropped; over the hard one the client
\* is closed, what is queued still flushed before the end.
Send(frame, droppable) ==
  IF droppable /\ Len(wire) > SoftLimit THEN UNCHANGED <<up, watch, calls, wire>>
  ELSE IF Len(wire) > HardLimit
       THEN Shut /\ wire' = Append(wire, Bye)
       ELSE wire' = Append(wire, frame) /\ UNCHANGED <<up, watch, calls>>

\* onSessionEvent: the stored copy is behind from now on; whoever watches the
\* session is sent the event.
Broadcast(seq, tier) ==
  /\ copy' = None /\ early' = FALSE
  /\ IF up /\ watch # "none"
       THEN Send([tag |-> "event", seq |-> seq, tier |-> tier], tier = "trace")
       ELSE UNCHANGED <<up, watch, calls, wire>>
  /\ due' = IF up' THEN due ELSE <<>>

-----------------------------------------------------------------------------
(* The session.                                                              *)

\* A published session's event is written through and broadcast.
Emit(tier) ==
  /\ stage = "live" /\ Len(log) < MaxLog
  /\ tier = "trace" => left.traces > 0
  /\ log' = Append(log, tier) /\ disk' = disk + 1
  /\ left' = IF tier = "trace" THEN [left EXCEPT !.traces = @ - 1] ELSE left
  /\ Broadcast(disk + 1, tier)
  /\ UNCHANGED <<stage, client, gaps>>

\* resume, to the first await: the stored log, the closers a crash left owed
\* (never broadcast: they are the seed) and the lifecycle record, an event of
\* a session not published yet.
Resume(closers) ==
  /\ stage = "cold" /\ left.resumes > 0 /\ disk + closers < MaxLog
  /\ log' = log \o [i \in 1..closers + 1 |-> "fact"]
  /\ stage' = "setup" /\ left' = [left EXCEPT !.resumes = @ - 1]
  /\ Broadcast(Len(log'), "fact")
  /\ gaps' = IF up /\ watch # "none" THEN gaps \cup {"unpublished"} ELSE gaps
  /\ UNCHANGED <<disk, client>>

\* Publication attaches the file: the closers and the lifecycle are written.
Publish ==
  /\ stage = "setup" /\ stage' = "live" /\ disk' = Len(log)
  /\ UNCHANGED <<log, copy, early, carrier, client, gaps, left>>

\* The creation fails before anything is written.
Refuse ==
  /\ stage = "setup" /\ stage' = "cold" /\ log' = SubSeq(log, 1, disk)
  /\ UNCHANGED <<disk, copy, early, carrier, client, gaps, left>>

\* The agent is disposed; whatever its turn had to say was said before.
Dispose ==
  /\ stage = "live" /\ stage' = "cold"
  /\ UNCHANGED <<log, disk, copy, early, carrier, client, gaps, left>>

-----------------------------------------------------------------------------
(* The host's answers.                                                       *)

\* sourceFor: the published session, the parsed copy, or the file.
Cursor == IF stage = "live" THEN Len(log) ELSE IF copy # None THEN copy ELSE disk
Parsed ==
  /\ copy' = IF stage = "live" THEN copy ELSE Cursor
  /\ early' = (early \/ (stage = "setup" /\ copy = None))

\* A window replaced by this cut is rid of its gaps, unless the cut itself is
\* of a session being resumed or of a copy the file has outgrown.
GapsOfCut ==
  (IF win.cursor <= Cursor THEN {} ELSE gaps)
    \cup (IF stage = "setup" \/ (stage = "cold" /\ early) THEN {"parsed"} ELSE {})

\* pageEvents, every fact a message of its own.
Page(through, before) ==
  LET known == FactsTo(Cursor)
      below == Within(known, 1, IF through < before THEN through ELSE before - 1)
      taken == Newest(below, PageSize)
      from == IF Cardinality(below) < PageSize THEN 1 ELSE Least(taken, 1)
  IN [rows |-> InOrder(taken), from |-> from, more |-> from > 1]

\* attach: subscribed, then cut, in one synchronous window.
ServeAttach ==
  /\ Head(calls).tag = "attach"
  /\ watch' = "named"
  /\ due' = Append(due, [tag |-> "cut", cursor |-> Cursor, page |-> Page(Cursor, Cursor + 1)])
  /\ Parsed /\ gaps' = GapsOfCut

\* detach with no session: this connection watches nothing.
ServeDetach ==
  /\ Head(calls).tag = "detach"
  /\ watch' = "none"
  /\ due' = Append(due, [tag |-> "detached"]) /\ UNCHANGED <<copy, early, gaps>>

\* session/events, a repair's way: both bounds, no traces, a limit.
Events ==
  /\ Head(calls).tag = "events"
  /\ LET asked == Within(FactsTo(Cursor), Head(calls).from, Head(calls).to)
     IN due' = Append(due, [tag |-> "range", rows |-> InOrder(Oldest(asked, RepairLimit))])
  /\ Parsed /\ UNCHANGED <<watch, gaps>>

\* session/page: a cut past this source's cursor is refused.
Older ==
  /\ Head(calls).tag = "page"
  /\ due' = Append(due,
       IF Head(calls).through > Cursor THEN [tag |-> "refused"]
       ELSE [tag |-> "page", page |-> Page(Head(calls).through, Head(calls).before)])
  /\ Parsed /\ UNCHANGED <<watch, gaps>>

Serve ==
  /\ up /\ calls # <<>>
  /\ ServeAttach \/ ServeDetach \/ Events \/ Older
  /\ calls' = Tail(calls)
  /\ UNCHANGED <<log, disk, stage, up, wire, client, left>>

\* onFrame: the answer leaves after an await, behind whatever was appended.
Reply ==
  /\ up /\ due # <<>>
  /\ Send(Head(due), FALSE)
  /\ due' = IF up' THEN Tail(due) ELSE <<>>
  /\ UNCHANGED <<source, client, gaps, left>>

-----------------------------------------------------------------------------
(* The client.                                                               *)

\* request: it rejects where no socket is open.
Asks(request) == calls' = IF up THEN Append(calls, request) ELSE calls

Done == queue' = Tail(queue)

\* attachOnce: asked, or rejected at once.
StartAttach ==
  /\ Head(queue).tag = "attach"
  /\ IF linked
       THEN awaits' = "cut" /\ Asks([tag |-> "attach"]) /\ UNCHANGED queue
       ELSE Done /\ UNCHANGED <<awaits, calls>>
  /\ UNCHANGED win

\* noted: a trace is counted and not kept.
Note ==
  /\ Head(queue).tag = "noted"
  /\ win' = IF win.held THEN [win EXCEPT !.cursor = Max2(@, Head(queue).seq)] ELSE win
  /\ Done /\ UNCHANGED <<awaits, calls>>

Held(seq) == ~win.held \/ seq <= win.cursor
Pushed(w, seq) == [w EXCEPT !.rows = Append(@, seq), !.cursor = seq]

\* applyOne and repair's first request: a duplicate is dropped, a hole is
\* asked for before the event that showed it.
Apply ==
  /\ Head(queue).tag = "apply"
  /\ LET seq == Head(queue).seq
         hole == ~Held(seq) /\ seq > win.cursor + 1
     IN \/ Held(seq) /\ Done /\ UNCHANGED <<win, awaits, calls>>
        \/ ~Held(seq) /\ ~hole /\ win' = Pushed(win, seq) /\ Done /\ UNCHANGED <<awaits, calls>>
        \/ hole /\ linked /\ awaits' = "range" /\ UNCHANGED <<win, queue>>
           /\ Asks([tag |-> "events", from |-> win.cursor + 1, to |-> seq - 1])
        \/ hole /\ ~linked /\ Done /\ UNCHANGED <<win, awaits, calls>>

Busy == queue # <<>> /\ awaits = "none"

Run ==
  /\ Busy
  /\ StartAttach \/ Note \/ Apply
  /\ UNCHANGED <<source, up, watch, due, wire, linked, paging, synced, gaps, left>>

\* Mutant: a trace moves the cursor as it arrives, past a parked repair.
HearsAtOnce(frame) ==
  /\ frame.tag = "event"
  /\ IF frame.tier = "trace"
       THEN UNCHANGED queue /\ win' = IF win.held THEN [win EXCEPT !.cursor = Max2(@, frame.seq)] ELSE win
       ELSE UNCHANGED win /\ queue' = Append(queue, [tag |-> "apply", seq |-> frame.seq])
  /\ UNCHANGED <<linked, awaits, paging, synced, gaps, calls>>

\* A live event joins the queue.
Hears(frame) ==
  /\ frame.tag = "event"
  /\ queue' = Append(queue, [tag |-> IF frame.tier = "trace" THEN "noted" ELSE "apply", seq |-> frame.seq])
  /\ UNCHANGED <<linked, win, awaits, paging, synced, gaps, calls>>

\* onOpen narrows the connection, then attaches its window.
Boots(frame) ==
  /\ frame.tag = "detached"
  /\ queue' = Append(queue, [tag |-> "attach"])
  /\ UNCHANGED <<linked, win, awaits, paging, synced, gaps, calls>>

\* attachOnce's answer: the window is replaced, unless its cursor is behind.
Replaces(frame) ==
  /\ frame.tag = "cut"
  /\ IF frame.cursor < win.cursor THEN UNCHANGED <<win, synced, gaps>>
     ELSE /\ win' = [held |-> TRUE, cursor |-> frame.cursor, oldest |-> frame.page.from,
                     more |-> frame.page.more, rows |-> frame.page.rows]
          /\ synced' = TRUE
          /\ gaps' = IF paging THEN gaps \cup {"late page"} ELSE gaps
  /\ Done /\ awaits' = "none" /\ UNCHANGED <<linked, paging, calls>>

\* repair: what is new is appended, an answer's rows being in order; it asks
\* on until the hole is covered or nothing comes, and then the event that
\* showed it goes in.
Repairs(frame) ==
  /\ frame.tag = "range"
  /\ LET seq == Head(queue).seq
         new == InOrder({s \in {frame.rows[i] : i \in DOMAIN frame.rows} : s > win.cursor})
         grown == [win EXCEPT !.rows = @ \o new, !.cursor = IF new = <<>> THEN @ ELSE new[Len(new)]]
     IN IF frame.rows # <<>> /\ grown.cursor < seq - 1
          THEN /\ win' = grown
               /\ Asks([tag |-> "events", from |-> grown.cursor + 1, to |-> seq - 1])
               /\ UNCHANGED <<queue, awaits>>
          ELSE /\ win' = IF seq > grown.cursor THEN Pushed(grown, seq) ELSE grown
               /\ Done /\ awaits' = "none" /\ UNCHANGED calls
  /\ UNCHANGED <<linked, paging, synced, gaps>>

\* older's answer goes in front of whatever the window holds by then.
Prepends(frame) ==
  /\ frame.tag = "page"
  /\ win' = [win EXCEPT !.rows = frame.page.rows \o @, !.oldest = frame.page.from, !.more = frame.page.more]
  /\ paging' = FALSE
  /\ UNCHANGED <<linked, queue, awaits, synced, gaps, calls>>

Refused(frame) ==
  /\ frame.tag = "refused"
  /\ paging' = FALSE /\ UNCHANGED <<linked, win, queue, awaits, synced, gaps, calls>>

\* The close event rejects everything asked for.
Ends(frame) ==
  /\ frame.tag = "bye"
  /\ linked' = FALSE /\ synced' = FALSE /\ paging' = FALSE
  /\ awaits' = "none" /\ queue' = IF awaits = "none" THEN queue ELSE Tail(queue)
  /\ UNCHANGED <<win, gaps, calls>>

\* One message; what the last one queued has run as far as it can.
Receive ==
  /\ wire # <<>> /\ ~Busy
  /\ LET frame == Head(wire)
     IN Hears(frame) \/ Boots(frame) \/ Replaces(frame) \/ Repairs(frame) \/ Prepends(frame)
          \/ Refused(frame) \/ Ends(frame)
  /\ wire' = Tail(wire)
  /\ UNCHANGED <<source, up, watch, due, left>>

\* older: one at a time, beneath the rows held.
AskOlder ==
  /\ linked /\ ~Busy /\ win.more /\ ~paging /\ left.pages > 0
  /\ paging' = TRUE /\ left' = [left EXCEPT !.pages = @ - 1]
  /\ Asks([tag |-> "page", through |-> win.cursor, before |-> win.oldest])
  /\ UNCHANGED <<source, up, watch, due, wire, linked, win, queue, awaits, synced, gaps>>

\* The network drops what is on its way.
Drop ==
  /\ up /\ Shut /\ due' = <<>> /\ wire' = <<Bye>>
  /\ UNCHANGED <<source, client, gaps, left>>

\* A new connection watches everything until it says otherwise.
LinkUp ==
  /\ ~linked /\ ~up /\ wire = <<>> /\ ~Busy /\ left.opens > 0
  /\ up' = TRUE /\ linked' = TRUE /\ watch' = "all" /\ calls' = <<[tag |-> "detach"]>>
  /\ left' = [left EXCEPT !.opens = @ - 1]
  /\ UNCHANGED <<source, due, wire, win, queue, awaits, paging, synced, gaps>>

-----------------------------------------------------------------------------
WInit ==
  /\ log = <<"fact", "fact">> /\ disk = 2 /\ stage \in {"cold", "live"} /\ copy = None /\ early = FALSE
  /\ up = FALSE /\ watch = "none" /\ calls = <<>> /\ due = <<>> /\ wire = <<>>
  /\ linked = FALSE /\ win = Unheld /\ queue = <<>> /\ awaits = "none"
  /\ paging = FALSE /\ synced = FALSE /\ gaps = {}
  /\ left = [traces |-> MaxTraces, opens |-> MaxOpens, pages |-> MaxPages, resumes |-> MaxResumes]

WNext ==
  \/ \E tier \in {"fact", "trace"} : Emit(tier)
  \/ \E closers \in 0..1 : Resume(closers)
  \/ Publish \/ Refuse \/ Dispose
  \/ Serve \/ Reply
  \/ Run \/ Receive \/ AskOlder \/ Drop \/ LinkUp

WSpec == WInit /\ [][WNext]_wvars

-----------------------------------------------------------------------------
Whole == win.rows = InOrder(Within(FactsTo(Len(log)), win.oldest, win.cursor))

(* A transcript on an attached window is the session's facts from its oldest *)
(* row to its cursor, each once and in order, whatever was dropped, repaired *)
(* or appended meanwhile; but for a resume heard before its publication and  *)
(* a page that crossed an attach.                                            *)
WindowIsWhole == synced /\ gaps = {} => Whole

(* With nothing on its way, an open tab is attached, runs nothing and shows  *)
(* the last fact, but for those two gaps and a copy parsed during a resume.  *)
CurrentWhenQuiet ==
  linked /\ up /\ calls = <<>> /\ due = <<>> /\ wire = <<>> /\ queue = <<>> /\ gaps = {}
    => /\ synced /\ awaits = "none" /\ ~paging
       /\ win.cursor >= Last2(FactsTo(Len(log)), 0)

(* What the client's own account of itself claims of every window.           *)
HolesAreRepaired == synced => Whole
=============================================================================
