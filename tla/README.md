# TLA+ models of Wide-Thought-Host

These modules describe the parts of Wide-Thought-Host in which several
processes, threads or tasks act on shared state, check them with TLC on small
instances and prove invariants of them with TLAPS for every instance. Paths
below are relative to the repository; `shell/` stands for
`crates/codegen/xai-grok-shell/src/` and `pager/` for
`crates/codegen/wth-pager/src/`.

## 1. The system

A terminal client (the *pager*, or an editor that speaks ACP over stdio) talks
over a Unix socket to one *leader* process per machine. The leader runs the
agent, whose sessions each run on a thread of their own, persist their updates
to disk and sample a model over HTTP. All clients that are attached to a session
see one stream of events.

| Component | State it keeps | Operations | Status |
|---|---|---|---|
| Leader election (`shell/leader/lock.rs`, `leader/mod.rs`, `agent/app.rs`, `leader/transport.rs`) | lock file, its flock, the pid in it, the socket path, the phase of each process | `connect_or_spawn`, `LeaderLock::{try_acquire, try_acquire_timeout, release, drop}`, phases 1-8 of `run_leader`, server start and stop, eviction of an old leader | modelled: `LeaderElection` |
| Circuit breaker (`crates/common/xai-circuit-breaker/src`) | five atomics and a window behind a mutex | `check`, `record`, `trip`, `close`, the half-open probe and its lease, `error_rate` | modelled: `SlidingWindow`, `CircuitBreaker` |
| Session event stream and `session/load` (`shell/session/acp_session_impl/updates.rs`, `session/persistence.rs`, `agent/mvp_agent/`, `leader/server.rs`) | ids, `event_tx`, the gate, `updates.jsonl`, the leader's hold-back buffers and replay cutoffs | emit, flush, persist, load, replay, fan out, unicast, answer, disconnect | partly: `SessionLoad` |
| Session routing in the leader (`shell/leader/server.rs`) | subscribers, driver, the index of children, interaction cache, hold-back buffer, `pending_requests` | connect, request, attach and backfill, replay, spawn and finish of subagents, ask and resolve, answer, disconnect | partly: `SessionRoutes` |
| Prompt queue and turns (`shell/session/acp_session_impl/prompt_queue.rs`, `turn_end.rs`, `acp_session.rs`, `notifications.rs`) | `pending_inputs`, the running task, its pin, pending notifications and interjections, the completion channel | prompt, wake, plan resume, goal summary, edit, reorder, remove, clear, send now, interject, cancel, rewind, teardown, complete, start, shut down | partly: `PromptQueue`, abstractly `PromptLedger` |
| Upload queue (`crates/codegen/xai-file-utils/src/queue.rs`) | channel, permits, counters, files and sidecars | enqueue, upload, park, cool down, drain, recover | planned |
| Dream lock (`crates/codegen/xai-grok-memory/src/dream_lock.rs`) | a lock file with pid and mtime | acquire, roll back, record | planned |
| Chat state, sampler, hub SDK, relay, auth, MCP, tools, workspace, hunk tracker, terminal UI, configuration, updates, telemetry | | | not modelled, see section 8 |

How they meet: a client calls `connect_or_spawn` and gets a connection to a
leader (election). On that connection it sends requests to the leader's server
task, which forwards them to the agent through a channel and gets responses and
notifications back through another one (routing, session load). The agent's
handlers run on one `LocalSet`; session threads get commands through mailboxes
and share with them one atomic, the gate. Uploads and sampling go through a
circuit breaker per endpoint, whose calls come from many tasks at once.

What is hard in this code: files that outlive the lock on them; a path that
names somebody else's socket; several atomics that are read and written one by
one; a file that is read while another actor appends to it; two event streams
that are numbered together and delivered separately; timeouts after which the
late answer still comes; a queue that clients edit while the turn at its front
ends; crashes, and clients that leave half-way. The list by
line is `hazards` in PROJECT.json.

## 2. Modules

| Module | Content |
|---|---|
| `LeaderElection` | clients in `connect_or_spawn`, leaders in `run_leader`, the server task, the file system they share |
| `LeaderElectionProofs` | its type invariant and three safety invariants, proved |
| `MCLeaderElection` | instances |
| `SlidingWindow` | the window of samples as pure operators on a record |
| `CircuitBreaker` | threads in `check` and `record`, one step per atomic operation; extends `SlidingWindow` |
| `CircuitBreakerProofs` | lemmas on the window's operators, for windows of any length, and the four invariants, proved |
| `MCCircuitBreaker` | instances |
| `Selections` | what `Vec::retain` and `Iterator::filter` keep of a sequence; `SessionLoad` and `PromptQueue` extend it |
| `SelectionLemmas` | lemmas on it, and on sequences that grow at the end or lose their head |
| `SessionLoad` | session thread, persistence actor, load handlers and leader of one session |
| `SessionLoadProofs` | its seven invariants, proved |
| `MCSessionLoad` | instances |
| `PromptLedger` | what the queue promises about each prompt, and nothing else |
| `PromptQueue` | the session actor, its turn tasks and the clients that edit the queue; refines `PromptLedger` |
| `PromptQueueLemmas` | lemmas on the operators of the queue: sweep, insertion, removal, reorder, flush; and on the order they leave |
| `PromptQueueProofs` | its nine invariants and two action properties, proved |
| `PromptQueueRefinement` | that it implements `PromptLedger`, proved |
| `MCPromptQueue` | instances |
| `SessionRoutes` | the routing tables of the leader, the agent's subagents and interactions, and the clients |
| `SessionRoutesProofs` | its six invariants and `BusyCount`, proved |
| `MCSessionRoutes` | instances |

Operators marked `(mutant)` stand in front of the definition they are an
altered copy of. No specification uses them; each one shows that a property
notices a plausible mistake in the code.

### 2.1 LeaderElection

The lock is an flock on an open file, so the model has inodes: `lockPath` is the
inode the path names, `fd[p]` the inode a process has open, `holder[i]` the
owner of the flock. `LeaderLock::drop` unlinks the path and the socket and then
closes the file (`ClientDropLock`, `ClientDropSock`, `ClientDropClose` and the
same three for leaders), and opening, locking, truncating and writing the pid
are steps of their own, because another process can act between any two of
them. `sockPath` names the leader that bound the socket; it may be dead, since
`listener_is_ready` is `path.exists()` on Unix.

The control states of `cpc` and `lpc` follow the code from top to bottom: the
fast path of `connect_or_spawn`, its branch under the lock (recheck, adopt or
evict, clean up, spawn, wait, release, connect), its branch without the lock
(wait for the socket, evict, try again); in the leader the first attempt at the
lock, the bail-out, the removal of the socket, the start of the server, the wait
for a socket, the hand-off poll and the shutdown. A leader's lock is dropped when
`run_leader` returns and the process lives on until `run_and_shutdown` has taken
the runtime down: `exiting` is that time, in which its flock is free, its pid is
alive and its server task may still remove the socket (`LeaderExit` ends it).
Crashes (`ClientCrash`, `LeaderDie`) close files without running `Drop`.

Time. A timeout is a step. Those that only a stalled machine meets
(`DeadlinePasses`, while a leader is on its way to bind) take from the budget
`MaxStalls`. `LEADER_LOCK_TIMEOUT` (30 s) outlasts the 10 s for which a spawner
holds the lock, so a hand-off gives up only behind another leader's lock.

Runs.

* `election_safety`: an old and a new client and two leader processes, starting
  without files, with a dead leader's files or with a running leader, one crash,
  one stall, one shutdown. `LivePidNamesHolder`: a live pid in a lock file is
  that of the owner of that file's flock, or of a leader on its way out whose
  file is no longer at the path; a duplicate that has it open may own its flock
  by then.
  `EvictionMeansOrphanedLock`: the branch that adopts or evicts a leader under
  the lock is reached only with the flock of an unlinked file, which excludes
  nobody. `SingleLinkedLeader`: no two serving leaders own the file at the path.
* `election_liveness`: two clients and three leader processes from the same three
  starts, without further faults. `StartupEnds`: a spawned
  leader serves or exits. `HangsOnlyBehindUnreachableLeader`: a call that does
  not return has, from some moment on for good, a leader that serves and owns a
  flock while the socket path does not name it.
* `election_hang` and `election_single_leader` show two disagreements with the
  documentation, section 6.

Two clients and two or three leaders are enough for a spawner, a rival and a
leader of each; four or five inodes are never exhausted at a point that matters,
because an unlinked inode is free again once everybody has closed it.

Fairness. Every task is run, so a process takes its next step (WF). A poll that
finds what it waits for again and again finds it in the end (SF), for
`wait_for_socket_connectable` and for the hand-off only. An accepted relaunch
and a SIGTERM take effect (WF). Nothing makes a process crash, stall or shut
down.

### 2.2 CircuitBreaker

Each atomic load, store and read-modify-write of `check()` and `record()` is an
action, named for what it does: `CheckLoadOpened`, `CheckCas`, `ProbeAdd`,
`TripState`, `CloseMirror`, ... The push into the window and the decision to trip
happen under the mutex, in one action. A timestamp is represented by its age,
which stops growing where no comparison of the code can tell (`Old`,
`OldSample`, `NoProbe`); `half_open_probes` is a number modulo `Wrap`, as a
usize is modulo 2^64. `Abandon` is a request whose future is dropped, or whose
response is neither a success nor a failure, and which never calls `record()`.

A behaviour is in one of two regimes: calls do not overlap (`serial`), or they
interleave at will. What the doc promises of the atomics together holds in the
first: `SerialAgreement` (mirror, state and probe count agree) and
`SerialProbeSlots` (no more requests run under a half-open admission younger
than the cool-down than there are slots, although slots of abandoned probes are
handed out again). `WindowCountsFailures` holds in both: the incremental count
of failures is exact through cap, eviction and `close()`. `RecoversEventually`
is checked for interleaved calls: the breaker closes again once requests
succeed, whatever the atomics did to each other, wrapped counts included.

The run `breaker` checks all of them, in both regimes. Bounds: two threads
(every race in this code is between two calls), a window of one sample, so that
the cap, the threshold and the eviction are all met (`breaker_probes` has two;
for a window of any length the serial properties and the count are proved),
`OpenFor = 2`, `MaxStall = 1`, two faults. `MaxStall < OpenFor` is an assumption: no
call is held up for a whole cool-down. `record()` reads the clock and the state
in one step.

Fairness: the clock advances although some thread is always in a call (SF), and
every thread goes on (SF, because in the serial regime a call waits for the
calls of others).

### 2.3 SessionLoad

One session in memory. An event is its id: the counter that
`generate_event_id` hands out to ACP and xAI events alike. The session thread
stamps ACP events when they enter `event_tx` (`StampAcp`) and emits them later
(`EmitAcp`, then `Forward`); xAI events are stamped and emitted at once
(`EmitXai`, then `Forward`) and do not look at the gate. The persistence actor
keeps the last ACP event back (`unwritten`) and writes xAI events directly
(`Persist`). A load closes the gate and flushes (`LoadClose`, `LoadFlushed`),
replays the file (`LoadRead`), flushes again, replays what was appended
(`LoadDelta`), opens the gate and answers. The channel from the agent to the
leader is FIFO (`out`). The leader holds back live events for clients whose load
is not answered (`ServerFanOut`), raises a cutoff with each replayed event
(`ServerUnicast`) and, after the response, sends what is held and above the
cutoff (`ServerRespond`). The client applies every replayed event and the live
ones above the largest id of that stream (`Applied`).

The two sends of an emission are two steps because the session runs on its own
thread; a load handler that has read the delta opens the gate before any other
handler runs (`MayRun`), because there is no await between them.

Runs.

* `session_load`: two clients load a session while its creator watches.
  `ReplayIsPrefix`: the two replays join without gap or overlap.
  `ReplayBeforeLive`: nothing live precedes the replay. `LiveInOrder`: the
  premise of the client's dedup, so that it drops no fresh event. `LoadTables`:
  the tables name exactly the connected clients whose load is not answered.
  `MissesExplained`: when everything has been delivered a client lacks an event
  only because it was emitted with the gate closed (`shut`) or because an xAI
  event with a higher id got to the file first (`overtaken`) and was taken for a
  cutoff. `TwiceExplained`: an event is shown twice only if it was persisted and
  not yet forwarded when a delta was read (`racing`). A loader whose buffer
  overflowed is exempt from four of them (`spilled`).
* `session_liveness`: one loader, with timeouts, errors and disconnects. The
  load is answered (`LoadEnds`) and the gate opens again unless a load failed
  (`GateReopens`). It does stay closed after a failed load: the error returns of
  `load_session` after `acp_agent.rs:1275` do not open it.
* `session_creator` shows a disagreement with a comment, section 6.

Bounds: two events, so that one can be overtaken by the other or fall on either
side of a read; two loaders, so that one opens the gate the other has closed; a
hold-back buffer of one, so that it is used and overflows; one disconnect.
Timeouts of the flushes and errors of a load are in `session_liveness` only; the
invariants also held with one loader, three events and one timeout, error and
disconnect each (0.86 million states).

Abstractions: a merged line stands for its chunks; `noReplay` and cursor loads,
rewind filtering and the load of a session that is not in memory are left out;
each client loads once; the creator stays attached, so the session is not
evicted.

Fairness: every actor with something to do goes on. `Flush` and the load
handlers get SF because the thread, or the LocalSet, may be doing something else
in between. Nobody has to produce events, attach or leave.

### 2.4 PromptLedger and PromptQueue

`queue` is `pending_inputs` with the running prompt at its front, `running` the
prompt of `running_task`, `turn[p]` the life of the task of a prompt (`fresh`
before its first update), `completions` the channel on which tasks report their
end, `buffer` the pending interjections, `notes` the pending notifications,
`pin` the prompt id that a cancel without one refers to, `wire` the last queue
that was broadcast. The actor handles one command or completion at a time, but
its handlers await: `pc` says where it is, `arm` what it read before. A step is a
stretch of code without an await that another task could use, that is, a lock
section with what surrounds it. So a cancel is `Cancel` (reads the snapshot),
`CancelRewinds` or `CancelTakes` (the lock section) and `CancelTail` (abort,
pin and answers), and a completion is `TakeCompletion`, `Complete`,
`FlushStranded`, `ActorStart` and `DrainNotifications`. `McpStart` and
`PlanResumed` run beside the actor and start prompts too, between any two of
them.

The five kinds of prompt differ in who waits for them and in what may displace
them: clients' prompts (`UserPrompts`, the only ones whose answers are
tracked), wakes, plan resumes, goal summaries, notification turns; interjections
become prompts when no turn took them.

Choices of the model: a prompt id may come again when no trace of it is left
(`Unused`); `McpStart` may happen any number of times, which over-approximates
the two calls; `maybe_start_running_task` and the flush of stranded
interjections are one step each; a turn that returns early leaves its pin behind;
the teardown of a subagent's session may be followed by `Shutdown` only, as in
`coordinator_lifecycle.rs:494-509`, and broadcasts nothing, which is why
`MirrorAtRest` exempts it. Left out: the monitor's event buffer, cancelling a
subagent by its pin, usage accounting, the contents of prompts.

`PromptLedger` keeps one status per prompt (new, waiting, running, settling,
answered, dropped) and allows arrivals, preemption of synthetic prompts, one
start at a time, withdrawal by a client, an interrupt, and the end. `PromptQueue`
implements it (`KeepsLedger`, with `Status` as the refinement mapping, checked and
proved): every client's prompt that is taken in gets exactly one answer, an interactive cancel
costs no waiting prompt of a user, and nothing runs twice.

The run `prompt_queue` checks with it: the front is the running prompt
(`RunningIsFront`) and has a live task or a completion on its way
(`RunningIsLive`); two tasks overlap only between a cancel's lock section and
its abort (`OneTurn`); an idle actor with a backlog runs something
(`NoIdleBacklog`); the debug_assert of `cancel_running_task` (`PinAgrees`); an
interjection always has a turn or a flush to go to
(`InterjectionNotStranded`); clients' copies agree between commands
(`MirrorAtRest`); a turn taken back as pristine has shown nothing
(`RewindPristine`); who may pass whom (`NoOvertaking`, `WakesYield`). Under
fairness every prompt of a user is answered or the session stops
(`UserPromptAnswered`), and no interjection stays behind
(`InterjectionLeaves`). The former has an exemption, a prompt that others pass
again and again (`Passed`): each turn's end puts the interjections that missed it
in front of every waiting prompt (`interjection.rs:85-92`), and a client may
reorder or send now between any two turns. Without it TLC finds the prompt
starved, with two interjections by their taking turns and in this instance by
clients that reorder; what the property says is that nothing else starves it.

Bounds: two prompts of two owners, one wake, one interjection and one edit; the
plan resume, the goal summary and the notification share one id, so the instance
has each of them but no two at once. A prompt is taken in while fewer than two
wait besides the running one (`Room`), so two users' rows wait together behind a
turn: what reordering, overtaking and preemption need; a third would repeat them.

Fairness: the actor goes on with what it has begun and takes the next
completion; a running turn ends and reports. Clients, updates, McpStart and the
loops of a turn owe nothing.

### 2.5 SessionRoutes

The leader's `select!` loop handles one event after the other, so each handler
is one step. The channel from the agent is FIFO and has one receiver; sending
and handling are one step. The agent's side is what the leader depends on: which
subagents live, the spawns and finishes in the root's `updates.jsonl`
(`history`), each request with its phase and its position in the replay
(`request`), and each interaction with the session id it was asked under and the
one it belongs to (`question`).

`Request` and `Message` are a client's requests and other messages; both attach
it (`Attach`: subscriber, driver if there is none, and the same for the subagents
found by `backfill_child_routes`). `Answer`, `Created` and `Fail` are the three
outcomes; `Spawn` and `Finish` the live routes, `Prune` their removal; `Ask` and
`Resolve` the interaction cache. A session asks on a thread of its own, so these
two may come between any two steps of the agent's.

The file lags. A spawn or finish is forwarded to the leader at once and reaches
the file by way of the session's mailbox (`emit_subagent_notification`), so
`history` is the order of the mailbox and `written` how much of it a reader is
known to have found in the file. A load sends a flush into the mailbox (`Flush`,
which notes in `flushed` what is in front of it); when it is acknowledged
(`BeginReplay`, `BeginDelta`) the file has all of that, and of what came behind it
any part (`Read`): other tasks of the agent run during the await. So the first replay or the delta
may send a spawn whose finish the leader has already seen and the file does not
have yet. `Replay` sends one event, and the agent does nothing else until the
replay is out (`Drained`). After it come `Reconcile` and `FinishAgain`
(`reconcile_orphaned_subagents`): the subagents that the first replay spawned and
did not finish (`unfinished`) and that run no more are finished once more, which
heals their routes. What only the delta spawned is not among them. A load fails
before its replay or not at all.

Three history variables carry the exemptions that the code needs: `bare` (the
route, or its parent's, was made by a replay), `announced` (the parent was viewed
at the spawn), `haunted` (a route that outlives its subagent is possible here).
They say exactly when the tables are off; section 6 lists how that happens.

`DrivenByViewer` is about who drives, `LoadedSeesSubagents` says that who has
loaded gets the live updates of every running subagent, `DeadRoutesExplained`
that a finished one keeps no route, but for three named cases,
`OpenInteractionsShown` that who has loaded has been shown every open interaction
of the root, `CachedIsOpen` that a client that attaches is shown no stale one, but
for permission requests of subagents.

Bounds: two runs, two clients and two requests in both, so that two loads of one
client or of two overlap. `session_routes` checks the first three, with two
subagents, so that one can be the other's parent or sibling, and no interaction;
every flush before a delta is in time there, the late ones are left to the proofs.
`session_attach` checks the last two, with one subagent, one interaction and one
late flush.
Clients are symmetric, and subagents where there are two. Choices
of the model: clients name the root only, as the terminal client does; a client
that reconnects has a new `ClientId`; the leader is ready and persistent; the
first flush completes. Left out: loads with `noReplay` or a cursor, a session that
is not in memory, errors after the first replay, machine-wide broadcasts, the
`last_active` fallback, capabilities, a full outbound channel, the cap and the
cutoff of the hold-back buffer (in `SessionLoad`), control commands and the
relaunch drain. A nested spawn is logged in its parent's own file, so a load of
the root does not replay it; that a load's response names no session is why only
`Created` attaches. Events of the stream itself are `SessionLoad`'s.

No fairness: the tables promise nothing in the end that they do not promise
always.

## 3. Runs

| Run | Expected | States | Time |
|---|---|---|---|
| election_safety | pass | 4.8 million | two and a half minutes |
| election_liveness | pass | 68 thousand | two minutes |
| election_hang | violation | | seconds |
| election_single_leader | violation | | seconds |
| breaker | pass | 0.55 million | a minute and a half |
| breaker_probes | violation | | seconds |
| session_load | pass | 1.3 million | a minute |
| session_liveness | pass | 51 thousand | seconds |
| session_creator | violation | | seconds |
| prompt_queue | pass | 0.48 million | four minutes |
| session_routes | pass | 2.2 million | three and a half minutes |
| session_attach | pass | 0.8 million | a minute |

`CHECK_DEADLOCK FALSE` is set where the system may rest: all clients are
connected or have failed, the bound on events, faults or requests is used up.

## 4. Proofs

`LeaderElectionProofs` proves, for any number of clients, leaders and inodes and
any bounds, from `SetsAssumption` and `BoundsAssumption` alone:

* `Typing`: `Spec => []TypeOK`;
* `PidNamesHolder`: `Spec => []LivePidNamesHolder`;
* `EvictionIsOrphaned`: `Spec => []EvictionMeansOrphanedLock`;
* `OneLinkedLeader`: `Spec => []SingleLinkedLeader`.

None of the last three is inductive. The inductive invariant `IInv` adds

* `ConnOK`: a client that is about to ask a leader to vacate has a connection;
* `LockInv`: whoever owns a flock has that file open, and the control state of a
  process says which: a leader between `mark_acquired` and the end of `Drop`
  owns the flock of its file, a client between `try_acquire` and `release` does;
  the file that a `Drop` has unlinked, or a leader on its way out has closed, is
  not at the path;
* `IdleUnwritten`: a pid that was never started is in no file.

The argument: a pid is written with the flock held, and the flock goes with the
process or after `Drop` has taken the file off the path, to which no file comes
back; so a live pid in a file is its holder's or the file can no longer be opened
(`StepPid` uses `LockInv`). A client that holds the flock of the file at the
path therefore reads no live pid in it, and the step into the adopt-or-evict
branch, which asks for one, can only be taken with another file open
(`StepEviction` uses `LivePidNamesHolder`). Two leaders that own the file at the
path own one flock. `StepType`, `StepFiles`, `StepPid` and `StepEviction` have
one step per action.

`CircuitBreakerProofs` proves all four safety properties of the breaker, for any
number of threads, slots and samples, from `WindowAssumption` and
`BreakerAssumption`:

* `AtomicsInRange` (`TypeOK`) and `CountIsExact` (`WindowCountsFailures`), with
  calls that interleave at will. They are inductive together (`WindowOK`): that
  the count does not underflow needs that it is exact. The lemmas about the
  operators come first in the module: the failures of a sequence are those of
  a prefix and of the rest (`FailuresInSplit`, by a bijection between positions),
  `evict` pops a prefix whatever the order of the timestamps (`ExpiredPrefix`, by
  the least position that is not expired), and push, evict and ageing keep the
  count (`CountedPush`, `CountedEvict`, `FailuresInAged`).
* `MirrorAgrees` (`SerialAgreement`). It speaks of the moments between calls; the
  invariant `SerialInv` says what the atomics are at each step of the one call
  under way (`Stage`), and that `CheckReread` is never reached.
* `LeaseKeepsSlots` (`SerialProbeSlots`). `SlotInv` adds that no admission is
  younger than the last claim, nor, while Open, than the trip (`Slots`), and what
  the readings of the call under way are worth (`Readings`). Where the state goes
  to HalfOpen, or an abandoned slot is handed out again, the cool-down has passed
  since the last admission, so that none is young. Here `MaxStall < OpenFor` is
  needed.

`SessionRoutesProofs` proves all six invariants of the run, for any number of
clients, subagents, requests and interactions, from `RoutesAssumption`:
`SubscribersConnected` (`TypeOK`, whose substance is that whoever is subscribed
is connected), `CacheIsOpen` (`CachedIsOpen`), `LoadedSeesInteractions`
(`OpenInteractionsShown`), `ViewedIsDriven` (`DrivenByViewer`),
`LoadedViewsSubagents` (`LoadedSeesSubagents`) and `DeadRoutesAreGhosts`
(`DeadRoutesExplained`); and `RequestsCounted` (`BusyCount`: `pending_requests`
is the number of requests the agent has not answered, so its saturating
subtraction never saturates; no run checks it). `OpenInteractionsShown` rests on:
a client that has asked for a load stays subscribed to the root until it leaves
(`LoadersViewRoot`), and the cache misses no open interaction (`OpenIsCached`);
what is cached was asked under that session (`CachedUnderIts`). The routes of
subagents need the invariant `RoutesInv`, whose parts are

* `File`: the mailbox of the root has the spawn of each of its subagents once, and
  its finishes, of which a load may have added some, behind it; what a load holds
  in `unfinished` its first replay did spawn (`UnfinishedTrue`);
* `Shape`: the index has a subagent once, under its parent or under the root, and
  whatever has children in the index is under the root, so that a backfill from
  the root reaches everything in two steps;
* `Routed`: a live subagent of the root that anybody views is indexed, and so is
  one whose parent was viewed at its spawn; who views the root views what is
  indexed; whoever is viewed has a driver among its viewers;
* `Loads`: a client that loads views each live subagent of the root already, or
  the load has its spawn still to send, because it came into the mailbox before
  the first flush (`LoaderSees`; the completed first flush is needed for it);
* `DeadHeld`: if a finished subagent is viewed and not in `haunted`, its viewers are
  those whose load has sent its spawn and not yet its finish (`Sending`), or some
  load is going to finish it once more (`Heals`).

The argument: a loader's route is made by the live spawn, by the backfill, or by
the replay, and `Loads` says that one of them is past or still to come. A dead
route is removed by the live finish, by the replay that made it, or by the
repeated finish of the load whose first replay lacks it, wherever the reads fall
in the mailbox; a spawn that a load has sent without its finish and will not
finish again is what `Reconcile` adds to `haunted`, and nothing but a finish takes
it out again (`GhostsStay`). Once no load is under way neither `Sending` nor `Heals`
holds of anybody.

`SessionLoadProofs` proves all seven invariants of `session_load`, for any number
of clients and events, any cap of the buffer and all budgets, from
`LoadAssumption`: `TypeCorrect` (`TypeOK`), `HeldWhileLoading` (`LoadTables`),
`ReplayComesFirst` (`ReplayBeforeLive`), `NothingDropped` (`LiveInOrder`),
`ReplaysJoin` (`ReplayIsPrefix`), `TwiceIsRaced` (`TwiceExplained`) and
`MissesAreKnown` (`MissesExplained`). The inductive invariant `StreamInv` follows
an event from its stamp to the clients:

* `Wire`, `Tables`: every replayed event in the channel is ahead of its load's
  answer (`ReplaysAnswered`), a load is answered once, as its last step
  (`AnsweredOnce`); the tables name those whose answer is owed;
* `Log`: an event waits in `stream`, is in the persistence actor's mailbox, is
  kept back, or is in the file, in one of them, once (`Everywhere`, `OnlyOnce`);
  a lower id is ahead of a higher one, but for an ACP event that an xAI event
  passed between mailbox and file (`QueueInOrder`, `HeldInOrder`, `FileInOrder`);
* `Order`: the live events of either stream ascend all the way from the session
  thread through the channel and the buffer to the client;
* `ReplayLine`: what a load has sent and what is on its way form a prefix of the
  file, which ends at `offset` between the two reads;
* `Cutoff`: `load_replay_max_seq` is the largest id the client was replayed;
* `Raced`, `RacedGot`: of the events a load replays, one that is still being
  emitted when the load has read its last, or that is live behind its answer, is
  in `racing`;
* `Unmarked`, `Accounted`: for each attached client an event waits for the file,
  is due to be replayed, is on its way to the client or with it, or is in `shut`
  or `overtaken`. What is ahead of the second flush's marker in the mailbox is in
  the file when `LoadDelta` reads it.

The argument for `MissesExplained`: an event leaves the mailbox for the file
before the marker, and is replayed; or after it, and then it was emitted live, or
found the gate closed. The flush of the buffer drops what is at or below the
cutoff; that was replayed, or has a lower id than something in the file that it
is behind of, and is `overtaken` (`FileInOrder`). `TwiceExplained` is the
converse: the tail that is sent is above the cutoff, so not replayed, and what
follows the answer was forwarded after the last read.

`PromptQueueProofs` proves the nine invariants of the prompt queue and its two
action properties, for any finite
set of users' prompts, any sets of other prompts, clients and interjections and
any limit of the notifications, from `QueueAssumption` (a user's prompt is
neither synthetic nor an interjection, and no wake is an interjection: the code
reads the origin off the prompt's id): `QueueTypes` (`TypeOK`: no prompt is
queued twice), `FrontIsRunning`, `BusyIsLive`, `TurnsExclude`, `QueueIsServed`,
`CancelSeesItsTurn`, `InterjectionsHaveATurn`, `TakenBackUnseen` and
`ClientsSeeTheQueue` (`RunningIsFront`, `RunningIsLive`, `OneTurn`,
`NoIdleBacklog`, `PinAgrees`, `InterjectionNotStranded`, `RewindPristine`,
`MirrorAtRest`).
Their inductive invariant `Inv` adds

* `Separate`: what waits in the queue, the interjection buffer and the pending
  notifications is in one of them, once;
* `Untouched`: what waits has no turn task, no completion in the channel and no
  cancel under way, and the victim of a cancel waits nowhere;
* `TurnsOwned`, `CompletedOnce`, `PinOwned`: a turn task is the running prompt's
  or the victim's; a completion is sent when its task is gone, and its pin is
  gone when it is handled; the pin is the running prompt's, but in the tail of a
  cancel;
* `Backlog`, `Buffered`, `Pristine`: the properties of the same sense at the
  steps between two commands.

The argument: a completion whose prompt is the front belongs to the running
prompt, because one that waits has none (`OwnedIsRunning`); so `Complete` frees
the slot exactly for the turn that ended. A cancel that takes index 0 takes the
running prompt, and since its victim is nowhere in the queue, no other task can
promote it before the abort, which therefore hits nobody else (`CancelTailStep`).
The commands in between leave turns and slot alone (`WaitingStep`,
`KeepingStep`), and the lemmas of `PromptQueueLemmas` say what they do to the
queue. `MirrorAtRest` needs `Mirrored`, the same at every step: a handler that
changes a row clients can see broadcasts in the same lock section, and the others
move only rows that are not on the wire.

`NobodyOvertakes` (`NoOvertaking`) and `WakesStandBack` (`WakesYield`) compare the
queue before and after a step. `Ahead` says who waits in front of whom without
naming a position, so that the lemmas can follow it through concatenations
(`AheadConcat`): a sweep, a removal or a pop leaves a `Part` of the queue, and
prompts that join inside it move nobody (`AheadInside`). A step is `Orderly` when
whoever is in both queues keeps the order and no wake gets ahead of a user's
prompt; every handler is, but for send-now on a queued row and the reorder
(`RequestsOrder`, `ActorOrder`, `TaskOrder`). A user's prompt does not join
behind a waiting wake because the sweep comes first: the only wake left then is
the running one (`PromptOrder`). For send-now, `SlotBehindNow` says that what stands in front of
the slot runs or was sent now, and what stands in it neither (`SendNowOrder`).
The strengthening is `Unhurried` (`WakesUnhurried`): no wake is ever marked as
sent now, or a user's prompt could be put in the slot behind it.

`PromptQueueRefinement` proves `QueueKeepsLedger` (`KeepsLedger`): `PromptQueue`
implements `PromptLedger`. The mapping `Status` reads a prompt's status off the
queue, the running slot, the answers and what a cancel has in hand. `Clean`
(`PlacesStayApart`) says that these never disagree: an answered prompt is not
queued, one that a cancel will answer is neither, and only the tail of a cancel
has any in hand. Each action is then one step of the ledger or a stutter: a lemma
per kind of ledger step says what has to become of queue and answers for it, and
one step per action shows that it does. A start needs that the promoted front was
waiting, an end that the completion is the running prompt's (`OwnedIsRunning`),
a cancel that takes index 0 without looking at `running` needs `Backlog`.

`Kept` (`Vec::retain`, and the filters of the replays and of the flushed tail) is
a recursive function; `SelectionLemmas` proves from a least counterexample
(`Induction`, by the well-founded order of the naturals) that it keeps the chosen
elements in their order, what it keeps of a concatenation and of what it kept.

Only model-checked: all liveness (fairness and ENABLED are out of the prover's
reach). Every invariant and action property that a passing run checks is the
statement of a theorem.

## 5. Assumptions

* The flock is per open file and is released by the kernel at the last close.
* Unlinked inodes are reused only when nobody has them open.
* Deadlines are met unless the machine stalls, section 2.1.
* No call of the breaker is held up for a whole cool-down.
* A turn of the prompt queue ends (it is cancelled, fails or completes).
* Channels are FIFO and do not lose messages. The leader's per-client queue does
  drop when it is full (`server.rs:1738`); that is left out.

## 6. Disagreements found

1. `election_hang`. The spawner releases the lock up to 200 ms before its leader
   polls again. A second client that gets in finds no pid, removes the live
   socket and spawns a duplicate; the duplicate's exit removes the socket again.
   From then on the lock is held, no socket exists, and `connect_or_spawn`
   (`leader/mod.rs:1184-1190`: "Connect to existing leader or spawn a new one.")
   does not return.
2. `election_single_leader`. `Drop` unlinks a file that others have open: two
   leaders serve (`leader/mod.rs:3`: "a single-leader-per-machine architecture").
3. `breaker_probes`. `trip()` publishes `Open` first; a `check()` in between goes
   to HalfOpen on the old `opened_at` with probes still counted, where
   `breaker.rs:211` says "It is already 0".
4. `session_creator`. The gate another client's load closes is the whole
   session's: the creator never gets what is emitted meanwhile, where
   `leader/server.rs:305-306` says that creators "receive everything live
   correctly".

Not runs, but seen on the way: the pid that `ClientReadPid` reads may be that of
a newer leader than the one on the connection, when that one died in between,
and is then sent SIGTERM; the sentence "so no prompt-task progress before gate
flip" (`agent/mvp_agent/mod.rs:1534`) does not hold for a session on its own
thread; past the cap of the hold-back buffer the client's dedup drops the held
events (`LiveInOrder` needs its exemption), where `leader/server.rs:45` says
that only "the ordering nicety is lost".

In the prompt queue:

* A reorder moves synthetic and meta-less rows that wait ahead of the users' rows,
  where the comments speak of "items we never reorder"
  (`prompt_queue.rs:583-596`) and of users' prompts having "priority over queued
  synthetic auto-wake prompts" (line 124). It can also put a synthetic row in
  front of a send-now row, so that a later send-now overtakes that one.
  `NoOvertaking` and `WakesYield` exempt reorders.
* A send-now row that is sent now again moves behind later ones.
* `SchedulerFired` prompts are synthetic and yet sent by clients
  (`pager/app/dispatch/queue.rs:431`, `acp_handler/mod.rs:376`); when one is
  preempted its request fails, where `acp_session.rs:305-310` says that nobody
  waits for synthetic prompts.
* The last steps of a cancel clear the pin of a turn that was promoted meanwhile,
  and `running_prompt_id` on the wire may stay stale after a cancel that empties
  the queue.

In the routing tables:

* A subagent's permission request goes out under the root's id
  (`spawn.rs:212-225`) and is resolved under the subagent's
  (`tool_calls.rs:1071-1077`), so its cache entry is never evicted and a client
  that attaches later is shown a modal nobody waits for, where
  `server.rs:5567-5569` says that it is removed.
* The finish of a nested subagent under a parent that has finished is not handled
  while the route has viewers: it leaks, where `server.rs:553-555` says that
  finished children are pruned.
* A route made by a replay has no driver until a client next names the root; it
  then gets the root's, who may not view it.
* A nested subagent spawned while nobody views its parent is not indexed, and one
  spawned below a replay-made route gets the viewers of the replays only.
* A backfill between another client's replayed spawn and finish makes a route that
  nothing removes.
* A finish that the leader has seen may still be in the mailbox when a delta reads
  the spawn from the file (`subagent/mod.rs:2229-2240`): the route that the delta
  makes is removed by nobody, since only what the first replay left unfinished is
  finished once more (`subagent/mod.rs:2744`).
* A subagent's own questions are cached under its own id and not shown to a client
  that loads the root.

## 7. Plan

What would come next, in this order:

1. `UploadQueue`: permits, parking, cool-down, drain, crash and recovery. Every
   artifact is uploaded, dropped with a reason, or on disk; counters return to
   zero; parked uploads do not block the drain.
2. `DreamLock`: two or three processes; at most one consolidation unless two
   verifications overlap.
3. `SessionLoad` with cursors: what a client that reconnects can miss; drops by a
   full outbound channel.
4. `SessionRoutes` with the relaunch drain, composed with `LeaderElection`'s
   hand-off.
5. The hub's connection and demultiplexer.

## 8. Not modelled, and why

* Chat state and hunk tracker: one task that takes commands from a mailbox; what
  could go wrong is in text and diffs.
* Sampler: one task per request; the retry policy is a table; its shared state is
  the breaker.
* Hub SDK and relay: clients of services that are not in the repository; the
  hub's connection and demultiplexer are the next candidates after the plan.
* Authentication, MCP servers, hooks, tools, workspace, worktrees, sandbox:
  operating system, external programs and external services.
* Terminal and desktop clients: rendering and input. Their part in the protocol
  (dedup, reconnect) is modelled where the protocol is.
* Configuration, updates, telemetry: input and output.
