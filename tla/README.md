# MiniDSH: specification and verification

TLA+ models of the parts of MiniDSH whose correctness rests on order: what is
recorded before what, what is looked at again after an `await`, who may write,
who hears of an end. TLC checks them on small instances; TLAPS proves the
central results for every value of the constants.

Paths below are relative to `src/src/` (`src/docs/ARCHITECTURE.md` excepted).

## 1. The system

MiniDSH is an event-sourced agent harness on one JavaScript event loop. A
session is an append-only log; an agent is a driver that turns queued messages
into turns of steps; a step is one model request and the tool calls it made; a
store writes the log to a file and syncs it at checkpoints. Everything a resume
knows it folds from the log, after a repair that closes what a crash left open.

| Component | State it keeps | Operations | Interacts with |
|---|---|---|---|
| turn driver, `core/loop/driver.ts` | running, disposed, turn and step, abort signal | send, cancel, run, turn, step, executeTools | inbox (calls), log (append, flush), tool registry, listeners (waterfalls, awaited) |
| durable inbox, `core/agent/index.ts`, `events.ts` | live queues, held notices, pending claim; in the log: `inbox/spliced` | append, claim, commitClaim, clear, hold, releaseHeld, restore; foldInbox | driver, job notices, resume |
| agent factory and registry, `core/loop/factory.ts`, `core/agent/index.ts` | live agents, the single disposal task | create, resume, fork, dispose | kernel scopes, session store, persistence |
| tool registry, `core/tools/registry.ts` | tools, guards | execute: gate, dispatch, body, post | driver's onDispatch checkpoint, approval |
| crash repair, `core/session/repair.ts`, `core/agent/repair.ts` | none: folds of a log | repairTail and its four closers | resume, fork of a cold source, `verify` |
| session log and store, `core/session/*` | events, surface, live sessions | append, flush, publish, detach, fork | persistence (listeners), every fold |
| persistence, `capabilities/persistence-jsonl` | per session: descriptor, write generation, sync in flight, failure; lock files | onPublished, onEvent, onFlush, onDisposed, attach, load, lease | the file system, other processes |
| background jobs, `core/jobs/*`, `capabilities/tool-jobs` | entries per owner, waiters, the cancel cause; in the log: `job/*` | start, read, cancel, stopAll, settle, disposeOwner, closer | inbox (notices), sandbox switches, shell |
| kernel, `kernel/context.ts`, `bus.ts` | scopes, services, effects, listeners | use, settle, dispose, emit, parallel, serial, waterfall | everything |
| approval, `core/approval/*` | policy, grants and open asks, folds of the log | request, decide, setPolicy, mint, revoke | tool gate, protocol host, delegation |
| compaction, `core/compaction`, `capabilities/compaction-basic` | one attempt per agent, re-armed requests | compact, compactNow | session surface, model, driver status |
| delegation, `capabilities/tool-subagent` | children of a parent | start, abort, end | factory, approval and sandbox ceilings, jobs |
| sandbox authority, `core/sandbox/*` | mode, acceptance, ceiling (folds) | set, stamp, resolve | shell, fs, jobs, delegation |
| settings, `core/settings`, `capabilities/settings-local` | a revisioned file, its lock | read, write | other processes |
| protocol host and transports, `capabilities/protocol/*` | connections and their watch sets, owned handles, resumes and acquires in flight, parked questions, owed summaries, send queues | connect, attach, detach, subscribe, prompt, cancel, answer, shutdown, close, fan-out | agents, clients |
| shell executor, `capabilities/shell-stdio/*` | persistent shells, job processes | run, start job, kill | OS processes |
| spill, attachments, credentials | files under a home | store, sweep, read | other processes |
| model adapters, retry, context runtime, metering, history, tools, prompt, presets, app | configuration and folds | | driver |

What makes each hard, and what would make it correct:

* **driver and inbox** - live queues and log part at every `await`; messages
  must be neither lost nor entered twice nor come back once withdrawn, and the
  driver must never stop on work it should do.
* **tool lane** - bodies overlap, deadlines abandon them, writes are lost
  midway; repair must never deny a body that ran, and results are logged whole
  and in model order.
* **persistence** - flushes overlap syncs, appends and closes; a resolved flush
  must be stable. Two processes race to one log; one may write.
* **jobs** - an end races the call that waits for it, an authority switch races
  a launch, a kill falls between end and notice; each end is told once, and no
  job keeps an authority the session withdrew.
* **approval, delegation, sandbox** - policies and grants change while an ask or
  a child waits; nothing may run beyond what holds when it runs.
* **compaction** - the log moves while the summary is written; the replace must
  not land inside a step.
* **factory and kernel** - creation fails halfway, disposal re-enters itself;
  nothing stays half published.
* **host** - who watches changes while a question waits, shutdowns race the
  acquires they must sweep, and each other; no question is left with nobody, no acknowledged
  prompt is lost, cursors miss nothing, a slow client is bounded.
* **settings, spill** - another process between any two system calls.

`PROJECT.json` lists every component and its status, and under `hazards` the
lines at which these behaviours bite, with the properties that watch them.

## 2. Modules

| Module | Models | Checked by | Proved in |
|---|---|---|---|
| `TurnLoop` | driver, inbox, its fold, kill and resume | `turnloop` | `TurnLoop_proofs` |
| `ToolLane` | one step's calls, the registry pipeline, checkpoints, repair's verdicts | `toollane` | `ToolLane_proofs` |
| `Checkpoint` | abstract: what a store promises of a flush | through `SyncedFlush` | `JsonlStore_proofs` (refinement) |
| `SyncedFlush` | the JSONL store's write path | `flush` | `JsonlStore_proofs` |
| `WriteLease` | the lock-file protocol between processes | `lease` | `JsonlStore_proofs` |
| `StoredLog` | one stored log under that lease: resume, attach, append, failed writes, deaths | `lease` | `JsonlStore_proofs` |
| `Jobs` | the jobs registry, notices, the closer | `jobs` | `Jobs_proofs` |
| `Approval` | policy, asks, standing consents, repair, resume, fork | `approval` | `SessionLog_proofs` |
| `Delegation` | sandbox authority down a chain of delegations | `delegation` | `Delegation_proofs` |
| `Compaction` | a step's request with its retries, compaction, recall | `compaction` | `SessionLog_proofs` |
| `Kernel` | plugins, services, epochs, task chains, unwinding | `kernel` | `Lifetimes_proofs` |
| `AgentLife` | creation, disposal, the delegating call | `life` | `Lifetimes_proofs` |
| `EffectList` | taking records off an owner's list, for the two above | `kernel`, `life` | `Lifetimes_proofs` |
| `HostCalls` | clients, prompts, resumes, parked questions, summaries, shutdown | `hostcalls` | `Protocol_proofs` |
| `SessionWindow` | host, socket and browser window of one session | `window` | `Protocol_proofs` |

`MC_*` modules are what TLC is given; the `.cfg` files hold the instances.

The modules meet where the code's parts do. `ToolLane` relies on what
`Checkpoint` promises, which `SyncedFlush` implements; the write lease decides
who may be that store, and `StoredLog` composes it with what each process finds
in the file and writes to it. `TurnLoop` runs the turns in which `Compaction`,
`Approval` and a delegating call (`AgentLife`) do their work, and takes back
what `Jobs` sends it. `Delegation` and `Approval` are the two halves of one
authority: each has the other's part as a single record or a single answer.
`AgentLife` uses the two effect lists `Kernel` describes in full. `HostCalls` has
the agents of `AgentLife` and the questions of `Approval` as a surface meets
them: a phase, and whether its question is open.

### How state and actions correspond to the code

**TurnLoop.** JavaScript runs a handler to its next `await` undisturbed, so an
action is one such segment. It changes the live queues (`turnQueue`,
`stepQueue`, `heldQueue`, `pendingClaim`: the fields of `Inbox`) at once and
leaves its log records in `script`; `WriteRecord` appends them one at a time,
and only a kill can fall between two. The log is what a resume reads of it:
`durable` is foldInbox of the records, `entered` counts user messages. `phase`
names the await the driver stands at. A listener of the pre-step waterfall may
enter, reject, narrow or throw (`PreStepEnters(out)`, `PreStepFails`); a step
ends with any of its results; `Flushed` is the flush of a turn's end, refused
once the store lost a write. `Cancel(keepInbox)` is a person's, `Dispose` the
factory's. The history variable `gaps` records which of four known gaps a run
has met; the safety properties hold up to the first of them:

* `overtaken` - a claim recorded while a notice is held (section 6, 1);
* `recordedClaim` - a kill while a cancelled pre-step await holds a notice
  (section 6, 2);
* `segment` - a kill between two records of one segment, such as a `clear` and
  the insert that keeps a notice (`core/agent/index.ts:242-246`);
* `clearedDisposed` - a person's cancel after disposal has emptied the live
  queues without recording it: `cancel` does not look at `disposed`
  (`core/loop/driver.ts:219`, called from `capabilities/protocol/host.ts:1328`),
  so with late input queued it records a `clear` that also drains what disposal
  preserved.

**ToolLane.** Calls are numbered in model order; `first` says which share an
id. `lane` is where `executeTools` stands, `stage[c]` where `registry.execute`
stands for c, `result[c]` its slot. `Settle` is first-wins and commits the
ready head of the order, as `settle` and `commitReady` do. `ckpt[c]` is the log
length c's checkpoint must cover; a syncing store covers it when `synced`
reaches it, any other when the line is written. A crash is not an action: the
properties quantify over `Cuts`, every prefix a crash could leave now, and
apply `Owed` and `Classify`, repair's own functions, to it.

**Checkpoint / SyncedFlush.** `opened` and `sync` are the fields of the code's
`OpenFile` record. A flush is `Call` (the bus runs listeners a microtask later,
`kernel/context.ts:667`), `Enter` (to the first await of `onFlush`), `Wake`
(each return of `await opened.syncing`). The kernel is the environment: a sync
makes stable at least what was written when it was issued, and after a failed
one a later success means nothing (`poisoned`). `Checkpoint` has only what the
tool lane relies on: recorded, stable, failed, and the outcome of each flush.

**WriteLease.** Every system call of `acquireLease` and `releaseLock` is a
step, the exclusive create and the write of the payload being two; a process
dies between any two. `windows` is a history variable naming the two windows
under which one writer is not guaranteed (section 6, 5). The processes start
with what dead ones left: a lock, written or not, and a steal mutex.

**StoredLog.** Extends `WriteLease`: each step of a session is a step of the
lease or leaves it alone. `file` is the log as the scanner reads it: a header
(`none`, `cut`, `whole`), whole lines, and whether an unterminated one follows.
`ses[p].st` is where p's session stands: `ready` after `Load`, which reads the
file with no lease and repairs its tail; `leasing` from `Publish`; what `Inspect`
then decides (attach's refusals, or how much is stored, `at`); `attaching` until
`Mend` has moved a torn tail to its sidecar; `mended` until `Extend` appended
what the file lacks; `open`. A new session waits `pending` for its first
conversation fact, which `Materialize` stores with all before it. Each write may
fail or its process may die in it (`Cut`): some lines, and perhaps part of the
next. A session that failed is `lost`, keeps its lease and writes no more.

**Jobs.** `entry`, `proc`, `cancel` and `call` are the registry's entry, its
process, whether it was asked to stop (who asked first is data of the record of
its end), and the one call that waits on it (a barrier tool: calls of a step run
alone). Three segments are synchronous in the code and several steps here, because
a kill may fall between the lines they write, and nothing else runs meanwhile: a
job's end and its notice (`Settle`, `Deliver`, with `owing`); the messages of a
batch that enters and the record of its claim (`EnterNext`, `CommitClaim`); the
claim of a step that is refused and what goes back after it (`Refused`,
`PutBack`, both with `unlogged`). A kill before the claim's record returns the
batch, though some of it may have entered: `again[j]` counts those kills for the
notice of `j`, `cuts` for batches. A kill after it takes what was still to be put
back: `unsaid`. These two windows are the code's, and the properties name them.
The driver is here only as far as delivery needs it - `TurnLoop` has the rest -
and the inbox is folded into `queue`. `idOf` lets a later call reuse an earlier
id.

**Approval.** The log is the state, as it is in the code: policy, open asks and
live consents are folds of it, `Push` being one record of `GrantFold.push`. A
record's id is its place, as `approval-${seq}` is. `Request` is the ask with
whatever settles in the same tick - a signal already fired, the policy `never`,
a standing consent; otherwise the ask is left in `awaiting` until `Answer`, and
anything may be appended between. `mint` asks again, at the answer, whether this
ask may still buy a consent. A crash keeps any prefix since the last
continuation; `Closers` is repair, and a continuation ends its seed, which ends
every consent. `Accepted` is `core/sandbox/invariant.ts` read on its own: the
session refuses a record it does not accept, so the seam must never write one.

**Delegation.** `log[s]` holds the mode, acceptance and policy records of one
session. Modes and enforcements are their ranks. `Delegate` is the part of the
tool call before its first await: `taken[s]` is what `captureAuthority`
returned, and `OpenChild` is the `setup` after the awaits, in which the parent
may have been switched. `host` is a process with its deployment: what it can
enforce, its default mode and what it accepts; `Restart` (outside the program)
puts the sessions under another one, and may take the end of a log with it.
`held` is a history variable: the parent's authority at the delegation.

**Compaction.** `surface` is what the model is shown, by seq. `turn` carries the
place of the driver, the step, what its requests have cost (retries, overflows)
and `seen`, the surface the request in flight was built from. An attempt plans
and then awaits its summary; `host` says what waits for it: a boundary in a
step (`"step"`), a turn about to stop (`"stop"`), an overflowed request
(`"request"`) or a person's `/compact` (`"person"`). What it checked before the
await it checks again after (`planIsLive`, the status, the signal). Sizes are
left open: a plan may keep any tail up to a bound, pressure is a choice. A
reopen keeps any prefix of the log, repaired.

**Kernel.** `plugin[p]` is one `PluginInstance`: its state, the `epoch` it was
last told of (the set of ids of the implementations it would load under),
`under`, which it did load under, the tasks on its chain, and `run`, the await at
which its running task stands. `notify` refreshes every instance in one segment,
as `notifyServiceChange` does. An unwind pops one effect at a time and awaits
it. `Mount`, `DisposeHandle`, `Open`, `Close` and `Throw` are the composition's; the
rest is the kernel's. `effectsOf` and `awaitedBy` are each owner's list and what
its unwind awaits. Listeners, `settle` and waterfalls are not in the module.

**AgentLife.** `create[a]` is how far `createHandle` came, each arm with the
failures that roll it back; `life[a]` is how far the one shared disposal came,
and whoever asks for it again waits for the same. `effects` holds the two
lifetime records of an agent, on the loop's context and on its creator's, and
the scope the loop made for it. `call[c]` is the delegating tool call, which
creates, awaits, records and disposes of its child; `told[c]` counts its start
and end in the parent's log. A cancel reaches the child through the signal the
call listens to (`Hears`).

**HostCalls.** `conn[c]` is a `ClientConnection`: un-narrowed (`all`) or with
what it watches, and whether it subscribed to summaries. `phase[s]` is an agent
as the host meets it; `resuming` and `owned` are the two tables of the host,
`parked` its pending questions, `owed` the summaries of the tick. `asked[s]` is
the question of the turn, from its asking to the record of its decision:
settling a parked promise and the `approval/decided` that follows are two steps,
because both the answer and the decision drop it. `call[p]` is a prompt:
`"waiting"` for an acquire, `"got"` an agent and not yet delivered (one
microtask in the code, which a shutdown can still get ahead of), `"disposing"`
of a straggler. `Join`, `ResumeConcludes`, `ResumeRefused` and `BuildFails` are
the four ways in which an acquire goes on, each with the handlers that run in
the same segment; summaries owed are flushed before the next such segment, as
the microtask is. `stop[k]` is the loop of the k-th shutdown: it awaits the
acquires it finds in flight (`Drains`), takes every handle the host holds
(`TakesOwned`) and disposes of them one after the other (`DisposesOf`), looks again
(`Again`), and is answered when it finds nothing, upon which the host closes
(`Answers`). The code keeps no second shutdown out while a first runs
(`capabilities/protocol/host.ts:667-671`, `:1471-1482`), and so neither does
`Shutdown`. Prompts go unseen when they are steers; a person cancels only
a turn that waits on a question, since any other cancel is a turn's end.
`Init` allows any stored sessions that a log can leave, so a child may be resumed
before its parent. `told[c][s]` is what a client was last sent of a session,
`withheld` the sessions whose closed summary was passed over; both are history.

**SessionWindow.** An event is its seq and whether a carrier may drop it. The
host's part is what it watches for the connection and the answers it owes; the
carrier is a queue of frames with its soft and hard limit; the client is a
window (`held`, `cursor`, `oldest`, `rows`), a queue of operations and the answer
the first of them waits for. A cursor is one more than the seq it names, so that
an empty log has the cursor 0. `copy` is the host's parsed copy of a log that is
not live here. The history variable `gaps` names the three ways in which a window
may come to be wrong, and the safety properties hold up to the first of them:

* `unpublished` - a resume appends its records before it publishes, and they are
  broadcast to a window that is not of that session's sequence yet (section 6);
* `late page` - a page asked for before an attach answers after it;
* `parsed` - a cold copy parsed while a resume was under way.

## 3. Runs, bounds, and what they show

| Run | Instance | States | Shows |
|---|---|---|---|
| `turnloop` | one prompt, one steer, one notice; 2 steps, 2 lives, 1 cancel | 0.8 M | `NothingLost`, `InboxIsSound`: no input lost, duplicated or returned outside the gaps, the log's fold is the live queues, no work stranded; `PromptsRun`, `DisposalCompletes` |
| `toollane` | 3 calls, width 2, any ids, any tools, syncing or not | 0.46 M | `RepairTellsTruth`: repair never denies a body that ran and, where it may, exonerates; `LaneKeepsOrder`: order, barriers, width, whole steps; `NothingStartsLate`, `StepEnds` |
| `flush` | 2 callers, 4 events | 0.19 M | `FileIsSound`, `FlushSettles`; `KeepsPromise`: refinement of `Checkpoint`, a resolved flush is on stable storage under a stable name |
| `lease` | 2 live processes, of one host or of two, over what 2 others left; 2 events | 0.64 M | `LeaseIsHeld`: one writer outside the windows; `LogIsOneStory`: the log reads as one story and keeps its lines; `StaleLockIsReclaimed` |
| `jobs` | 2 jobs at once, up to their exchange, 2 calls, a switch, a prompt, 2 lives, a wake budget of 0 or 1 | 1.87 M | `EndToldExactlyOnce`: once, but for two windows of a kill; `AuthorityHeld`, `WithinBounds`: the wake budget; `StopAllHolds` |
| `approval` | 2 subjects, 2 asks, 2 switches, 1 revocation, 2 lives | 0.17 M | `SeamPassesItsInvariant`, `ConsentIsEarned`, `AsksReachAPerson` |
| `delegation` | 3 sessions, 3 hosts, 3 rows, depth 2, 1 switch, 2 hosts in turn | 0.61 M | `SandboxPassesInvariant`, `NeverWiderThanHeld`, `LogSaysWhatGoverns` |
| `compaction` | 2 steps, 1 retry, 1 overflow, 1 failure, 2 turns, a tail of 2, 2 messages, 1 ask, 1 reopen | 0.46 M | `AnswersWhatItSaw`, `RequestsAreWhole`, `HistoryIsKept`: what is hidden is read back, brackets pair; `TurnsEnd` |
| `kernel` | two providers of one key in two realms, a plugin that depends on them and mounts a child, one handle, two that may throw | 0.46 M | `EpochIsHonoured`, `NothingStranded`; `Settles` |
| `life` | a root and two children, one prompt | 0.46 M | `FoundWhole`, `ChildFollowsItsCall`, `DisposalsEnd` |
| `hostcalls` | 2 clients, a root and its child, either of them stored at first, 2 prompts, 1 question; one client subscribes and narrows, the other may shut down, and again | 0.66 M | `QuestionsAreSound`, `SummariesAreCurrent`, `RacesLoseNothing`; `CallsSettle` |
| `window` | soft limit 0, hard 2, page 1, repair 1; 6 events, 2 traces, 2 connections, 1 page, 1 resume | 0.97 M | `WindowIsWhole`, `CurrentWhenQuiet` |

Why these bounds are enough to be interesting. In `turnloop` the notice has to
meet a second kind of step input and a queued prompt, a cancel has to fall into
an await, and a kill into any segment, with a life left to see the result; a
second step is where a turn claims again. Three calls are the least in which a
pooled pair precedes or follows a barrier, and in which two may share an id
while a third may not; width 2 blocks the third. Two flushers and four events
allow a flush to join a sync that began before its write, with an append after
that. Two live processes of one host and a dead holder's lock are two
reclaimers, one of which may die in its turn and leave the next lock; a process
of the other host can neither probe nor be probed. Two events let a session's
repair differ from another's where its length does not, and a write of two lines
be cut between them; a third live process at one event passes too, and the
proof covers any number of either. Two jobs allow one to end while another launches;
under a budget of none or one their two ends are what exceeds it. The limit on
jobs at once is not put to the test by two. No rule and no
property tells one job from another, so states are taken up to their exchange
(`Exchangeable`). A batch may hold a notice of each and a person's message,
so a kill can fall after the first of several that enter, or go back.

Two asks are the least that overlap, and that let one buy what the other uses;
the two switches are one before and one after a consent, and the second life is
the one no consent may reach. A chain of three sessions is a child of a child;
the hosts differ in what they enforce and what they accept, so that a pickup can
be better and worse off than the one before. Two steps of two turns let a
summary span a turn's end; a tail of two lets the cut fall inside a pair of
calls and results. Two providers of one key in two realms are what a swap of
providers needs, and a child of the dependent what a nested unwind needs. A soft
limit of none and a hard limit of two drop a trace and close a client within a
handful of frames, and a repair answer of one event has to be asked for twice.

Two clients are one that narrows away and one that stays, or one that shuts the
host down under the other; two shutdowns are one that comes while the other
drains or sweeps; a root and its child are a session the host drives
and one it may drive only when the parent is gone; two prompts share a resume,
or the second finds the agent of the first before its store answered. Only the
root is attached to by name, one client subscribes and the other may shut down:
with both doing both the run is ten times as long and says no more, since
neither rule tells clients apart. `CloseWithLast` is FALSE here, a surface with
a last client that may come back; the instance with TRUE also passes.

Every bound on a counter is a named constant marked "bound" where it is
declared. `CHECK_DEADLOCK FALSE` is in each cfg because every model may
rightly stop: a closed session, an ended step, the last life or event used up.

### Fairness

* `TurnLoop`: weak fairness of `Driver`. Every await of the driver settles - a
  listener, a stream or a tool is bounded by its signal or a deadline - and the
  event loop runs it. Nothing is assumed of senders, cancels, kills, resumes.
* `ToolLane`: of the lane, of each call's pipeline (a deadline bounds a body, a
  person's answer the gate) and of a sync in flight. Not of cancels or failures.
* `SyncedFlush`: of a sync in flight (it returns or fails) and of each flush's
  microtasks.
* `WriteLease`, `StoredLog`: of each live process's next call: it goes on, and
  tries again when refused. Not of releases, failures, deaths, or of what a
  session says.
* `Compaction`: one weak fairness of the driver's steps and the attempt's
  together: every await of either settles. Not of messages, asks, cancels,
  reopens.
* `Kernel`: of the kernel's own steps: microtasks run, an `apply` settles, a
  disposer resolves. Not of what the composition mounts, throws or disposes.
* `AgentLife`: of what a creation, a turn, a call and an unwind await. Not of
  creations, prompts, cancels or shutdowns.
* `HostCalls`: one weak fairness of everything that proceeds by itself: a
  microtask, an acquire's promise, a decision's record, a disposal. A turn is
  owed its end only once its agent closes; nothing is assumed of clients.
* `Jobs`, `Approval`, `Delegation`, `SessionWindow`: none. A person may never
  answer and a network may never deliver; only safety is stated.

## 4. What is proved

The eight proof modules check with no obligation left, for every value of the
constants the named assumptions allow: `NIsNat`, `WidthIsPositive`;
`MaxEventsIsNat`, `MaxAppendsIsNat`; `KindsAreDisjoint`, `BoundsArePositive`;
`NobodyIsNoProc` and `NobodyIsNoSession`, which keep the mark
of nobody apart from the processes and the sessions; `JobBounds`, `JobsAreFinite`
and `NoJobIsHuman`; `LifeAssumption`;
`KernelAssumption` (finitely many instances, scopes and keys); `DefaultIsPolicy`; `LevelsRank`, `RowsCap`,
`HostsRank`, which say that levels, rows and hosts have the modes and enforcements
the code has; `HostAssumption`; `LimitsAreNat` (the bound on the log admits the rows it starts with).

**`TurnLoop_proofs`**: `NothingIsLost`, `InboxStaysSound`, for any messages and any
bounds on steps, lives and cancels. Both speak of moments when no segment is half
written; a step must speak of the others too. What a running segment still has to
append is the script of a *plan* - a claim, a clear, messages put back, messages
entered, a claim - and each record it appends leaves a shorter plan with the same
end (`PlanAdvances`). The invariant is told of that end, the fold `d` and the
history `en` once the plan is written: a message is in one place (`FoldInv`); the
batch held by the pre-step await is the front of the fold, or a cancel has recorded
its claim (`ClaimInv`); the live queues are what the claim in flight leaves of the
fold (`LiveInv`); nothing is lost (`Kept`). A claim is recorded behind the messages
it entered, so a kill at an await, which finds the plan empty, finds every message
of the batch in the fold. What the known gaps break is outside the properties and
the invariant alike (`Sound`).

**`ToolLane_proofs`**: `TypeCorrect`, `NeverDenies`, `Exonerates`, `TellsTruth`.
The claim "whatever prefix a crash leaves, a body that ran is of unknown
outcome" is not inductive: it follows from where each call stands in the log.
The invariant adds `StoreInv` (a store that has not failed holds the whole log),
`LaneInv` (which calls are logged, and where the lane may stand) and
`CallInv(c)`: a call that dispatches has its `tool/dispatch` in the log at or
below `ckpt[c]`; one whose body was started has that prefix on disk, and synced
if the store syncs. Every `Cut` then contains the record, which is all
`Classify` looks at. Exoneration is the converse: a call with no dispatch in the
cut, in a log whose store vouches for it, never had one made.

`KeepsOrder` and `StartsNothingLate` are about the lane itself, for every number
of calls and every width. `KeepsOrder` needs three invariants beside the first.
`StandInv` ties a call's stage to its slot and to the lane: the one call that
waits for a checkpoint is the last opened, and a barrier without an answer is
alone. `WidthInv` counts places rather than bodies, since a place is taken before
the body starts, and a deadline gives it back while the body may still run.
`OrderInv` describes the log: nothing twice, and each result that has all its
elders, in order. The results that are ready form a beginning of the calls, which
is why appending the ready ones at once keeps the order however bodies finish.

**`JsonlStore_proofs`**, of the write path: `FlushTypeCorrect`, `PrefixHolds`, `DescriptorHeld`,
`FileSound`, `ResolvedIsStable`, `FailureStays`, and `Refinement`: the write path
implements `Checkpoint`. The invariant adds `FileInv` (generation, descriptor and
length of the file agree), `SyncInv` (a sync covers no generation beyond the
lines written when it was issued; nothing synced is beyond what is stable) and
`FlushInv(f)` (a waiting flush's target is at or above its promise). It is
needed because `FlushMeansStable`, which the refinement implies, speaks of a flush at its end only, while what
makes it true is set when it entered and when the sync it rode on was issued.

**`JsonlStore_proofs`**, of the lease: `TypeCorrect`, `WriterLocked`,
`AtMostOneWriter`, `LeaseHeld`, for any number of processes on any hosts. One
writer is not inductive: a process inside its steal could unlink a writer's lock.
The invariant adds `MutexInv` (only the holder of the steal mutex gets that far)
and `LockInv(p)`, which holds while no window was met: the lock a process created
is still its own, and the one a process is about to unlink is a dead process's.
The step that matters is `Reprobe`: its verdict is about the lock still on disk,
or `diedInProbe` is set.

Of the log under it: `StoryInvariance`, `TellsOneStory`, `KeepsOneStory`,
`LeaseUnderTheLog`, for logs of any length. The lease's invariant carries over
step by step. What `OneStory` lacks is what attach knows between its verdict
and its writes: `Story(p)` says that the lines on disk are the first of p's own
events, all `at` of them, and, once it is open, all of them; `Placed`, that who
relies on it holds the lease. A write of p then cannot hurt another's story,
since by `LockInv` there is no other (`OnlyHolder`), and however it ends it leaves
a beginning of p's log (`WriteTells`), which is undamaged. A log without a whole
header has no lines and nobody continues it (`Headed`), so what a failed
snapshot left is never appended to. `KeepsOneStory` is the action property: no
step takes a line back, whoever makes it.

**`Jobs_proofs`**: `TypeCorrect`, `ToldExactlyOnce`, `RunsUnderTheAuthority`,
`WakesWithinBudget`, `StoppedForGood`, for any finite set of jobs and any bounds
on calls, switches and lives, and for kills between any two records. Exactly once
rests on two accounts of an end. The notice's (`NoticeInv`, `OwedInv`): an end no
call reports is owed a notice, which repair makes good if a kill took it; and a
notice recorded is in one place - in the inbox, in the batch a step took, among
those being put back - or has entered, or is `unsaid`. Wherever it still is, it has
entered just as often as a kill cut it from the record of its claim (`again`), and
once more if the batch it is in has got to it: hence never more than that and one.
The report's
(`ReportInv`): a call that reports an end is in flight with what it saw, or its
result is logged, or a kill took it and no later call has its id; this is where
the property's hypothesis that ids are not reused is spent. `WakeInv` is the
budget's argument: a waking notice was admitted under the budget, and only what
arrives before the turn has entered anything (`Taken`) was counted without it, which
is the one turn more; a kill in the middle of a batch leaves in the inbox what a
turn is already counted for, which is the one more for each of `cuts`. `AuthInv` follows a launch across the switch that may land in
it; `StopInv` says that after `stopAll` every job that can still end was told to
stop and the driver is at rest.

**`Lifetimes_proofs`**, of agents: `FoundIsWhole`, `FollowsItsCall`, for any set of agents
and any tree of parents. The invariant follows each agent (`Whole`: how far its
creation, its disposal, the registry and the session store go together), each
delegating call (`Follows`: what its log records and its parent's open turn say of
the child) and each owner's list. `RecordInv`, that a lifetime record is of an
agent that was bound and is not gone, is needed for the first property in both
directions: an unwind that pops a record disposes of the agent it names, which must
not be one still being created, and a rollback leaves no record. `OwnerInv` is
needed for the second: an agent that is up is on both its owners' lists or is what
an unwind waits for, so an owner that has unwound has outlived it. An unwind takes
a record off the list before the disposal it waits for has ended, and the disposal
takes off the other owner's record itself; `Popped`, `Freed` and the others say
what each step leaves on the lists.

**`Lifetimes_proofs`**, of plugins: `NothingIsStranded`, `EpochsHonoured`, for any
plugins, scopes and keys, whatever each mounts, needs and provides. `KInv` has two
halves. `OwnIn` is who owns what: where an instance's task stands (`Staged`: one that
leaves has its disposal to come until it is disposed of), that each record is on its
own owner's list, that a service's provider is up or unwinding and has the record, and
that no two services have one id. `ChainIn` is what each instance was told. It is not
true that an instance knows the epoch it would compute: a provider that starts to
unwind stops being active at once, and its dependents hear of it when its service is
taken out. The invariant says that an instance knows its epoch or is `Stale`: a
provider it was told of is `Doomed`, certain to take its service out. `Ends` is about
the end of the chain alone: the last task queued is what the epoch asks for, whatever
stands before it, and with no task left the instance is where that task brings it, or
one that is stale is pending. Two lemmas then serve most actions. `MoveAway` is a step
nobody is told of: it may end what was active only by dooming it. `MoveTells` is one
that notifies: a stale instance then computes the inactive epoch, which differs from its
own, so it gets the task it lacks (`NotifyChain`). Taking a service out is the third
case: who was stale of it may find another at once, and its new epoch differs because
ids are not shared (`DistinctIds`), which is why a new service needs an id that nothing
refers to (`FreshId`). At rest nobody is doomed, so nobody is stale. A failed load is
outside `EpochIsHonoured` and `Ends` alike, and in `OwnIn` like any other.

**`SessionLog_proofs`**, of approval: `SomebodyIsAsked`, `DecisionsFollowAsks`, `SeamIsLawful`,
`ConsentEarned`, for any subjects and bounds. That an open ask
is awaited is not inductive over crashes, because a crash keeps a prefix: it needs
`WellFormed`, that every decision of the log is about an ask before it, so that
cutting the end of a log can open asks but never close one, and then that the
closers repair appends cover every ask the prefix left open - each by its rank
among them. That a child asks nobody needs its log to begin with its pin
(`ChildLog`), which no prefix a resume or a fork accepts may lose.

The other two are about the consents, a recursive fold of the log. The fold is a
function defined by recursion inside `Consents`; that there is one, and what it
holds after each place, is shown by climbing from place to place (`Climb`, from the
well-foundedness of `<`), so no induction theorem with an operator for a parameter
is needed. `Lawful` is the invariant: each record is one the authority invariant
accepts over the records before it, and two facts the authority invariant does not
ask for - a yes is a person's or a consent's, and a consent decides in the tick of
its ask. Being judged by what stands before, it is closed under prefixes
(`LawfulPrefix`), which is what a crash and a fork need. `FoldSound` says of any
lawful log that a consent in its fold is a record nothing has ended since, and
that one which stands was given by a person: the second fact of `Lawful` is why, as a
decision that makes a consent stand has the consent's record between its ask and
itself (`YesIsAPersons`). `FoldSound` gives the property (`EarnedByLaw`) and gives
what the next records need to be lawful: a standing consent that answers or is
revoked is a record with one subject (`StandingIsRecorded`). `RepairLawful` is the
closers: each decides an ask still open, as no two are about the same one.

**`SessionLog_proofs`**, of compaction: `AnswersItSaw`, `WholeRequests`,
`KeepsHistory`, for any bounds. What the model is shown is a recursive fold too, in
which one record (a summary with its own) may take out any number of others; the
properties speak of what is left after all of them. `May` says of one record what
it may be after those before it and what they show: a message comes when no call
awaits a result, a result is the next one of the newest call, `applied` names
records that are shown, and a summary replaces a beginning of the surface that an
`applied` has named and that does not end between a call and its results. A log is
`Regular` when all its records are so, and `Shape` is what such a log shows: records
of the history, each once (`Shows`), every call followed by its results and every
result preceded by its call, but for the call whose results are still coming
(`Grouped`, `Lane`), and every record not shown is on record as hidden (`Hides`).
Each kind of record keeps the shape (the lemmas up to `ShapeStep`), and a
fold over a regular log is climbed with them. Being judged by what stands before,
`Regular` too is closed under prefixes, so a crash or a fork leaves a regular log, to
which repair's closers may be added: the results of the call left unanswered, the
end of the turn, and an end for every open bracket, by its rank among them. `CInv`
adds what the steps need and the log does not hold: the request in flight was built
from the surface as it is; every call is answered but while the tools run; a turn is
open exactly while the agent runs; an attempt made in a turn holds the turn where it
waits, so that nothing of the turn moves the surface under its plan, and a person's
began idle, so that it is dropped if a turn has begun since (`planIsLive` and the
status); and the only open bracket is the attempt's.

**`Delegation_proofs`**: `NeverWider`, `NobodyAskedForAChild`, `LogGoverns`,
`SandboxAgrees`. What
governs is a fold of a log that crashes cut and other hosts append to. The
invariant says it of every record instead: `Within` - each record of a child's
log is within `held`, the first of them is its ceiling, its policy never asks - is
closed under prefixes and under each append; `CaptureInv` carries it across the
awaits of a creation, where the parent may have changed. `AskInv` is why no
command of a child is ever widened by an answer. `Governed` says which records a
live session's log ends with after each pickup, for every mode and host.

`SandboxAgrees` sets the seam against the guard that watches it, and needs the
shape of the whole log: `OwnShape` - a session of its own never writes a record
that claims a delegation, so no ceiling binds it - and `ChildShape` - a child's
log is its opening stamp, then perhaps the pin of its acceptance, and nothing
after them claims a delegation but its policy, once, before any other policy. Both are closed
under the prefixes a crash or a fork keeps (`ShapePrefix`), and every append is of
one of them; the guard's own folds, over what stood before a record, then give
what each shape says (`OwnAccepted`, `ChildAccepted`).

**`Protocol_proofs`**, of calls: `QuestionsHold`, `RacesHold`, `SummariesHold`, for any
clients, sessions, prompts and shutdowns. The questions are inductive alone: who could answer changes only where
the host looks at them again. The races are not: that an acknowledged prompt is
kept says nothing of the callers still on their way to an agent. The invariant
adds `Aimed` (a call under way knows its session), `Behind` (a child runs inside
its parent's open turn, a resume is in the host's table, what the host holds is
up, and whatever else is up is held or in some shutdown's hands), `Waited` (nothing is built
that no caller waits for, so an answered shutdown, which found no caller in flight,
leaves no build behind), `Hands` (what a shutdown has taken and not yet disposed of
no other has, and the host holds no more: so what an answered one leaves up is
another's) and `Got` (a caller that was not early has an
agent that is up, until a shutdown begins). A build that fails and a caller that
joins it are why `Waited` speaks of some caller rather than of the one that began
the build.

The summaries are a claim about quiet moments only, and what makes it true is
about every step: `Plane` says that each subscriber has heard of each session what
is true of it, or that a summary is owed which will say so when the tick ends, or
that an acquire is still reaching the child it is about (`Reaching`). `Seen` is
needed for what a narrowed or late client has not heard: a session no summary was
ever sent of is one nobody was shown; `Owings`, that a closed summary is owed only
of a session that is registered no more, and that a resume has a caller waiting for
it, which is why a child hidden by `Reaching` is shown by the time it is answered.
The attempt corrected the model: with children among the stored sessions the
property failed, and the runs now begin there (finding 11).

**`Protocol_proofs`**, of a window: `WindowStaysWhole`, `QuietIsCurrent`, for any
limits of the socket, pages and repairs, and any bounds. The window is the end of a
chain of queues - requests, answers due, frames, operations - and the invariant says
of each what the next may rely on. `LineInv`: of each kind one thing is on its way, a
request, its answer due, or its answer on the wire; whoever asked waits for it, and a
bye is the last frame. `BootInv`: a connection hears everything until it narrows
itself, so between its opening and its attach nothing of the session is on the wire
behind the detach's answer, and no window is attached until then. `WholeInv`: a range
on its way is what its own bounds select of the log at the cursor the window still
has, a page ends where the window begins; `CutInv`: a cut is whole and not behind the
window. `PendingInv` is the argument for completeness: with `b` the cursor, or the
cursor of the cut on its way, every fact of the log is up to `b`, or queued to be
applied, or on the wire (`Complete`), and before each trace stands every fact up to
it that is not up to `b` (`Based`) - so a trace, which moves the cursor and leaves no
row, never moves it past a fact that is to come. A trace dropped at the soft limit
takes nothing from either, and a fact is never dropped while the connection is open;
at the hard limit the connection closes and a new attach is owed (`TokenInv`).
`ReachInv` and `SettledInv` keep what is seen within the file until a gap is on
record. `WindowIsWhole` is then arithmetic on stretches of the log: a cut, a page, a
repair's answer and a pushed event each join a stretch to the next (`StretchJoins`,
`NewestFrom`, `OldestTo`, `GrownWhole`, `PushedWhole`), over lemmas of what a finite
set of numbers in order is (`OrderIsUnique`, `OrderJoins`), since the model has the
host's answers as sets in order. The log begins with two facts, so `LimitsAreNat`
takes `MaxLog` to be at least 2.

**Model-checked only**: all liveness (`PromptsRun`, `DisposalCompletes`,
`StepEnds`, `FlushSettles`, `StaleLockIsReclaimed`, `TurnsEnd`, `Settles`,
`DisposalsEnd`, `CallsSettle`), which TLAPS does not do here.

## 5. What is left out

* `TurnLoop`: a refused append of a user message; the option switch; the
  content of a step (a result is one choice; `Compaction` has the request). A
  store failure ends the model's last life, since a resume of it would attach
  to the file as it is.
* `ToolLane`: a result the log refuses and its replacement
  (`core/loop/driver.ts:694-702`), a tool's additional contexts (`:703`), the
  lane's `failure` path, effects evidence, the salvaged and held contexts of
  repair. A deadline answers a call whose body may go on; the step does not
  wait for it, which `LaneKeepsOrder` says and the comment at
  `core/loop/driver.ts:504` ("The step never ends with a body running") does not.
* `SyncedFlush`: publication is an initial state, attached, pending or failed
  (`StoredLog` has what leads there).
* `WriteLease`: how the two windows end.
* `StoredLog`: a log an operator removes or edits, so attach's branch for a
  missing file; headers that do not match and other versions; what a power cut
  takes of unsynced lines (`SyncedFlush`); the fragments in the sidecar. A
  process has one session on the log at a time, as the store's refusal of a
  second live id has it; what a lost session goes on to say is stored nowhere.
* `Jobs`: output files and cursors; calls of several agents; a person's
  interrupt of a turn and what it does to a batch in hand, a listener that narrows
  a batch (both in `TurnLoop`, with the gaps they open). A `job_start` whose call timed out still
  starts its job, in code and model alike.
* `Approval`: which surface answers (`HostCalls` parks the ask), the wording of
  subjects.
* `Delegation`: preset resolution, the job-stopping half of a switch (in `Jobs`).
* `Compaction`: sizes; the agent disposed of while a summary is awaited.
* `Kernel`: `settle()`, the waterfall and the bus, services provided by a scope.
  Two things noted while reading: `unwind()` of a scope that already unwinds
  returns at once (`kernel/context.ts:395`), so its second caller does not wait;
  and a registration on a pending or a failed plugin is admitted (`:225-229`),
  and stays on its list.
* `AgentLife`: what a setup does; the resume's own reading of the file.
* `SessionWindow`: several sessions and several clients, rendering, prompts.
* `HostCalls`: the options a prompt carries (those of one that joins a resume in
  flight are dropped), steers, the jobs and held notices a summary counts, a
  person's revocation. The calls on settings, models, authority, jobs and
  compaction read or pass on; the ndjson transport is one client of them all.
* Model adapters, metering, spill, attachments, credentials, file tools, the
  office and PDF skills, presets and the rest of the application: data and I/O
  with little control of their own; each has its reason in `PROJECT.json`.

## 6. Where code and documentation disagree

Each is an operator beside the model it is about, left out of the runs; named as
the invariant of the instance given, TLC finds it violated.

1. `HeldNoticeSurvives` (`TurnLoop`, the instance of `turnloop`) - "a crash still
   re-delivers them" (`core/agent/index.ts:159`): a held notice is in front of the
   fold, and a later claim of the same turn counts it away.
2. `CancelledClaimSurvives` (`TurnLoop`, the same) - "a claim commits after the
   messages it entered, so a crash re-delivers, never loses"
   (`src/docs/ARCHITECTURE.md:76`): a cancel inside the pre-step await records the
   claim; the notice returns only after.
3. `RepairAnswersEveryBlock` (`ToolLane`, N = 2, Width = 2) - a synthetic result
   "for every tool-call BLOCK" (`core/session/repair.ts:61`): not for a second
   block of an answered id.
4. `NoUnsyncedResolve` (`SyncedFlush`, one flusher, 3 events) - "resolves only once
   everything appended before it is on STABLE storage"
   (`capabilities/persistence-jsonl/index.ts:760`): a flush called after the
   detach returns at once.
5. `NeverTwoWriters` (`WriteLease`, 3 processes, none foreign) - "never to two
   writers" (`capabilities/persistence-jsonl/index.ts:532`): the re-probe takes a
   lock not yet written for a dead one.
6. `ReportSurvivesCrash` (`Jobs`, the instance of `jobs`) - "an end a tool call was
   to report whose real result never landed" (`core/jobs/events.ts:290`): an
   answered id from an earlier step counts as that result.
7. `PendingUntilProvided` (`Kernel`, two providers a1 and a2 of one key, a fragile
   dependent d, handles of both providers) - "`pending` until every injected key
   is provided" (`src/docs/ARCHITECTURE.md:34`): a failed plugin told of a new
   epoch queues a `load` (`kernel/context.ts:274`); a loss before that load runs
   does not withdraw it, and `load` looks again only at `mounted` (`:304`).
8. `RolledBackUnheard` (`AgentLife`, the instance of `life`) - a rolled-back
   creation was never announced (`core/session/store.ts:23`; so too
   `core/loop/factory.ts:26-27`): `session/created` is emitted (`factory.ts:120-127`)
   before the last step that can still roll it back (`:136`).
9. `HolesAreRepaired` (`SessionWindow`, 5 events) - "A duplicate is dropped, a HOLE
   is repaired" (`app/web/wire.js:12`): events of a session that is held and not
   yet published are broadcast (`core/session/store.ts:64-66`,
   `capabilities/protocol/host.ts:474-480`, `:1232`), and what a window takes from
   a resume that is then refused is replaced by nothing.
10. `AcknowledgedAlways` (`HostCalls`, the instance of `hostcalls`) - "that
   refusal must reach the caller BEFORE any paid work" (`core/loop/factory.ts:126`)
   and "nobody saw that prompt accepted" (`core/loop/driver.ts:194`): a second
   prompt finds the agent that a resume has registered and starts its turn before
   the store answers (`capabilities/protocol/host.ts:1089`); the refusal then
   disposes of an agent whose prompt was acknowledged.
11. `OnlyDelegatedWithheld` (`HostCalls`, the instance of `hostcalls`) - "a child
   mid-delegation is skipped as the baseline skips it"
   (`capabilities/protocol/host.ts:569`): the skip asks only whether the parent is
   live (`:577`, `:444-448`). A stored child that a prompt resumes is shown once it
   is registered; if its parent is then resumed and registers, and the child's own
   resume is refused, the closed summary the disposal owes is passed over, and a
   subscriber goes on showing a session that is gone. `withheld` records these,
   and `SummariesAreCurrent` is about all others.
12. `OnceWhateverKills` (`Jobs`, the instance of `jobs`) - "A job's end notice has an
   exactly-once delivery contract" (`core/loop/driver.ts:315`), which the same
   function qualifies with "a rare double-delivery, never a loss" (`:339`). A kill
   between a notice's `user/message` and the record of its claim delivers it twice
   (`:336-340`), as that comment accepts; a kill between the claim of a step that is
   refused and the put-back after it loses it (`:303-319`, `:707-715`), since the
   closer passes over a job whose notice was recorded (`core/jobs/events.ts:320`).
   `again` and `unsaid` record these, and `EndToldExactlyOnce` is about all others.
13. `AnswerLeavesNothing` (`HostCalls`, the instance of `hostcalls`) -
   "Dispose-to-idle: owned turns close as `cancelled` and flush"
   (`capabilities/protocol/host.ts:1470`): a second shutdown that comes while a first
   sweeps finds nothing in flight and a table already cleared (`:1475-1478`), is
   answered at once and closes the host (`:618`) with the first one's later handles
   still up. `RacesLoseNothing` says what holds: they are in the hands of a shutdown
   that goes on, and the last to be answered leaves nothing.

Milder, and only noted: shutdown's answer can outrun the disposal of a straggler
(`capabilities/protocol/host.ts:1038-1045` beside `:1471-1482`); a second prompt
to a child that is being resumed is refused as if its parent ran it, once the
child is registered and not yet owned (`:444-448`, beside "concurrent prompts
share the resume", `:1056`); a resumed child that starts its own queued work is in
no summary until then; the wake budget is "consecutive job-woken turns"
(`core/jobs/index.ts`, `maxWakes`), and an end that lands before the first such
turn is counted wakes one more, as does a batch that a kill had delivered again
(`WithinBounds` states the bound that holds); a
`/compact` asked for once the turn is stopping waits for the next turn, where
`core/compaction/index.ts:31` promises the next boundary.

## 7. Plan

Done: the modules above. Next, in order of weight:

1. `SettingsLock`: revision check and lock. The steal there looks once, before
   its mutex (`capabilities/settings-local/index.ts:197-212`).
2. Kernel events: single-shot `next`, waterfalls that unmount their listeners.
3. The persistent shell's sentinels, the spill sweep, attachments.

Every safety property the runs check is a theorem. Liveness stays with TLC.
