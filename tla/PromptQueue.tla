---------------------------- MODULE PromptQueue ----------------------------
(***************************************************************************)
(* The prompt queue of a session and the turns it starts.                  *)
(*                                                                         *)
(*   the actor       run_session's select! loop, one arm at a time; an arm *)
(*                   is cut where it awaits with the state lock free       *)
(*   turn tasks      one per promoted prompt, on the actor's LocalSet      *)
(*   other starters  the MCP initialisation and a resumed plan approval,   *)
(*                   tasks of their own that call maybe_start_running_task *)
(*                                                                         *)
(* The select! is biased: a completion is taken before any command.        *)
(* The running prompt stays at the front of pending_inputs until its       *)
(* completion or a cancel takes it out.  A prompt is its id; the origin    *)
(* the code parses out of the id is the set the id belongs to.             *)
(***************************************************************************)
EXTENDS Naturals, Sequences, SequencesExt, FiniteSets, Selections

CONSTANTS
  UserPrompts,     \* prompts clients send: PromptOrigin::User, with queue_meta
  Wakes,           \* TaskCompleted and SubagentCompleted prompts
  PlanResumes,     \* PlanResume prompts, queued by the plan approval task
  Summaries,       \* GoalSummary prompts
  Notes,           \* notifications; the batch is named after its first one
  Interjections,   \* interjections; one that misses its turn becomes a prompt
  Clients,
  OwnerOf,         \* the client_identifier of each user prompt
  None,
  MaxNotes,        \* MAX_PENDING_NOTIFICATIONS
  Rewritten,       \* bound: the prompts that clients edit, ...
  MaxVersion,      \* ... one at a time in the queue, and this often
  MaxQueue         \* bound: nothing joins this many waiting prompts, but to preempt a wake

Synthetic == Wakes \union PlanResumes \union Summaries \union Notes
Prompts == UserPrompts \union Synthetic \union Interjections

ASSUME QueueAssumption ==
  /\ OwnerOf \in [UserPrompts -> Clients]
  /\ None \notin Prompts \union Clients
  /\ UserPrompts \intersect (Synthetic \union Interjections) = {}
  /\ Wakes \intersect Interjections = {}
  /\ IsFiniteSet(UserPrompts)
  /\ MaxNotes \in Nat \ {0} /\ MaxVersion \in Nat /\ MaxQueue \in Nat \ {0}

VARIABLES
  \* State, behind its lock
  queue,         \* pending_inputs
  running,       \* the prompt of running_task
  notes,         \* pending_notifications
  suppressed,    \* notifications_suppressed
  rewindable,
  \* shared outside the lock
  pin,           \* current_prompt_id
  buffer,        \* pending_interjections
  completions,   \* the completion channel
  turn,          \* turn tasks: none, fresh (nothing emitted), open, ended
  wire,          \* the queue as last broadcast
  \* the actor
  pc,
  arm,           \* the locals of the arm it is in
  answered       \* history: prompts of users whose respond_to was sent

lockVars == <<queue, running, notes, suppressed, rewindable>>
turnVars == <<pin, buffer, completions, turn>>
vars == <<queue, running, notes, suppressed, rewindable, pin, buffer, completions,
          turn, wire, pc, arm, answered>>

Item(p) == [id |-> p, version |-> 0, now |-> FALSE]
ItemsOf(S) == [id : S, version : 0..MaxVersion, now : BOOLEAN]
Items == ItemsOf(Prompts)
Ids(q) == {q[i].id : i \in DOMAIN q}
Position(q, p) == CHOOSE i \in DOMAIN q : q[i].id = p

\* Nobody waits for the answer of a prompt the session made itself.
Answer(S) == answered' = answered \union (S \intersect UserPrompts)

Resting == [prompt |-> None, mode |-> "none", snap |-> None, victim |-> None, settle |-> {}]
Modes == {"none", "keep", "rewind", "teardown", "send_now"}
Phases == {"idle", "complete", "flush", "begin", "lock", "tail", "start", "finish", "drain",
           "stopped"}

Idle == pc = "idle"
\* A teardown has Shutdown right behind it in the channel.
TornDown == arm.mode = "teardown"
Rested == IF TornDown THEN [Resting EXCEPT !.mode = "teardown"] ELSE Resting
\* Commands wait while a completion is there: the select! is biased.
Receiving == Idle /\ completions = <<>> /\ ~TornDown

\* build_queue_wire
Listed(r) == UserPrompts \ {r}
QueueWire(q, r) ==
  LET listed == Kept(q, ItemsOf(Listed(r)))
  IN  [i \in DOMAIN listed |-> <<listed[i].id, listed[i].version>>]
Broadcast(q, r) == wire' = QueueWire(q, r)

\* sweep_pending_inputs: never the running turn's own slot.
Swept(q, dropped) == Kept(q, ItemsOf({p \in Prompts : p = running \/ p \notin dropped}))

\* Behind the running front, or at the head.
AfterRunning(q) == IF q # <<>> /\ q[1].id = running THEN 2 ELSE 1

\* (mutant) a prompt is sent now past the ones sent now before it
SlotBehindRunning(q) == AfterRunning(q)

\* (mutant) a prompt is sent now in front of the running one
SlotAtHead(q) == 1

\* ... and behind the send-now prompts that stand there already.
SendNowSlot(q) ==
  LET first == AfterRunning(q)
  IN  CHOOSE i \in first..(Len(q) + 1) :
        /\ \A j \in first..(i - 1) : q[j].now
        /\ i <= Len(q) => ~q[i].now

InsertNow(q, item) == InsertAt(q, SendNowSlot(q), [item EXCEPT !.now = TRUE])

-----------------------------------------------------------------------------

Init ==
  /\ queue = <<>> /\ running = None /\ notes = <<>>
  /\ suppressed = FALSE /\ rewindable = FALSE
  /\ pin = None /\ buffer = <<>> /\ completions = <<>>
  /\ turn = [p \in Prompts |-> "none"]
  /\ wire = <<>>
  /\ pc = "idle" /\ arm = Resting
  /\ answered = {}

\* maybe_start_running_task: one lock section; the front stays in the queue.
MaybeStart(q) ==
  \/ /\ running # None \/ q = <<>>
     /\ UNCHANGED <<running, rewindable, pin, turn>>
     /\ IF q = queue THEN UNCHANGED wire ELSE Broadcast(q, running)
  \/ /\ running = None /\ q # <<>>
     /\ running' = q[1].id
     /\ pin' = q[1].id
     /\ rewindable' = TRUE
     /\ turn' = [turn EXCEPT ![q[1].id] = "fresh"]
     /\ Broadcast(q, q[1].id)

ActorStart ==
  /\ pc \in {"start", "finish"}
  /\ MaybeStart(queue)
  /\ pc' = IF pc = "finish" THEN "drain" ELSE "idle"
  /\ UNCHANGED <<queue, notes, suppressed, buffer, completions, arm, answered>>

\* ensure_mcp_tools_initialized is done, whenever that is: once in the code,
\* which is not remembered here.
McpStart ==
  /\ pc # "stopped" /\ running = None /\ queue # <<>>
  /\ MaybeStart(queue)
  /\ UNCHANGED <<queue, notes, suppressed, buffer, completions, pc, arm, answered>>

\* maybe_drain_notifications; dropped: the goal suppresses the notifications.
DrainNotifications(dropped) ==
  /\ pc = "drain"
  /\ LET idle == running = None /\ queue = <<>> /\ ~suppressed IN
     \/ /\ ~idle \/ notes = <<>>
        /\ pc' = "idle" /\ UNCHANGED <<queue, notes>>
     \/ /\ idle /\ notes # <<>> /\ dropped
        /\ notes' = <<>> /\ pc' = "idle" /\ UNCHANGED queue
     \/ /\ idle /\ notes # <<>> /\ ~dropped
        /\ notes' = <<>> /\ pc' = "start"
        /\ queue' = Append(queue, Item(notes[1]))
  /\ UNCHANGED <<running, suppressed, rewindable, turnVars, wire, arm, answered>>

-----------------------------------------------------------------------------
\* The command arms.

\* A fresh id.  Ids are unique; here one that left no trace may come again,
\* for the next wake, plan approval, notification or interjection.
Unused(p) ==
  /\ p \notin Ids(queue) \union ToSet(notes) \union ToSet(buffer) \union ToSet(completions)
  /\ p \notin {pin, arm.prompt, arm.snap, arm.victim}
  /\ p \notin arm.settle \union answered
  /\ turn[p] = "none"
Room == Cardinality(Ids(queue) \ {running}) < MaxQueue

\* The running turn blocks in an interruptible wait, so it has begun.
CanBlock(blocked) == blocked => running # None /\ turn[running] = "open"

\* (mutant) no preemption
NotPreempted(p) == FALSE

\* A user prompt preempts every synthetic one once a wake is queued.
Preempted(p) ==
  p \in UserPrompts /\ \E w \in Wakes \intersect Ids(queue) : w # running

Held == \E u \in UserPrompts \union Interjections : u \in Ids(queue) /\ u # running

\* The Prompt arm up to the end of queue_input.
Prompt(p, now, blocked, goal) ==
  /\ Receiving /\ p \in UserPrompts \union Wakes /\ Unused(p)
  /\ Room \/ (p \in UserPrompts /\ \E w \in Wakes \intersect Ids(queue) : w # running)
  /\ CanBlock(blocked)
  /\ LET base == IF Preempted(p)
                 THEN Swept(queue, Synthetic) ELSE queue
         sendNow == /\ p \in UserPrompts
                    /\ now \/ (running # None /\ blocked /\ ~Held)
     IN  /\ queue' = IF sendNow THEN InsertNow(base, Item(p)) ELSE Append(base, Item(p))
         /\ IF sendNow /\ running # None /\ ~goal
            THEN pc' = "begin" /\ arm' = [arm EXCEPT !.mode = "send_now"]
            ELSE pc' = "start" /\ UNCHANGED arm
  /\ suppressed' = (suppressed /\ p \notin UserPrompts)
  /\ Broadcast(queue', running)
  /\ UNCHANGED <<running, notes, rewindable, turnVars, answered>>

\* start_resume_turn, on the plan approval's own task: queue_input and the
\* start, between which nothing makes it wait.
PlanResumed(p) ==
  /\ pc # "stopped" /\ p \in PlanResumes /\ Unused(p) /\ Room
  /\ queue' = Append(queue, Item(p))
  /\ MaybeStart(queue')
  /\ UNCHANGED <<notes, suppressed, buffer, completions, pc, arm, answered>>

\* (mutant) the arm does not start the turn it queued
GoalSummaryTurnLeft(p) ==
  /\ Receiving /\ p \in Summaries /\ Unused(p) /\ Room
  /\ queue' = Append(queue, Item(p))
  /\ UNCHANGED <<running, notes, suppressed, rewindable, turnVars, wire, pc, arm, answered>>

GoalSummaryTurn(p) ==
  /\ Receiving /\ p \in Summaries /\ Unused(p) /\ Room
  /\ queue' = Append(queue, Item(p))
  /\ pc' = "start"
  /\ UNCHANGED <<running, notes, suppressed, rewindable, turnVars, wire, arm,
                 answered>>

\* Kept in the mid-turn buffer of monitor events instead: not modelled.
InjectNotification(n) ==
  /\ Receiving /\ n \in Notes /\ Unused(n)
  /\ LET all == Append(notes, n) IN
     notes' = IF Len(all) > MaxNotes THEN Tail(all) ELSE all
  /\ pc' = "drain"
  /\ UNCHANGED <<queue, running, suppressed, rewindable, turnVars, wire, arm,
                 answered>>

\* A row a client may edit: listed, its version, its owner.
Row(u, version, owner) ==
  /\ u # running
  /\ \E i \in DOMAIN queue : queue[i].id = u /\ queue[i].version = version
  /\ owner \in {None, OwnerOf[u]}

RemoveQueuedPrompt(u, version, owner) ==
  /\ Receiving
  /\ \/ /\ Row(u, version, owner)
        /\ queue' = RemoveAt(queue, Position(queue, u))
        /\ Answer({u})
     \/ /\ ~Row(u, version, owner)
        /\ UNCHANGED <<queue, answered>>
  /\ Broadcast(queue', running)
  /\ UNCHANGED <<running, notes, suppressed, rewindable, turnVars, pc, arm>>

Editable(u) == u \in Rewritten /\
  \A i \in DOMAIN queue :
    IF queue[i].id = u THEN queue[i].version < MaxVersion ELSE queue[i].version = 0
Edited(item) == [item EXCEPT !.version = @ + 1]

EditQueuedPrompt(u) ==
  /\ Receiving /\ u # running /\ u \in Ids(queue)
  /\ LET i == Position(queue, u) IN
     /\ Editable(u)
     /\ queue' = [queue EXCEPT ![i] = Edited(@)]
  /\ Broadcast(queue', running)
  /\ UNCHANGED <<running, notes, suppressed, rewindable, turnVars, pc, arm, answered>>

\* handle_interject_queued_prompt: "send now" on a queued row.
SendQueuedNow(u, version, owner, edit, goal) ==
  /\ Receiving
  /\ \/ /\ Row(u, version, owner)
        /\ edit => Editable(u)
        /\ LET i == Position(queue, u)
               item == IF edit THEN Edited(queue[i]) ELSE queue[i]
           IN  queue' = InsertNow(RemoveAt(queue, i), item)
        /\ IF running # None /\ ~goal
           THEN pc' = "begin" /\ arm' = [arm EXCEPT !.mode = "send_now"]
           ELSE pc' = "start" /\ UNCHANGED arm
     \/ /\ ~Row(u, version, owner)
        /\ pc' = "start"
        /\ UNCHANGED <<queue, arm>>
  /\ Broadcast(queue', running)
  /\ UNCHANGED <<running, notes, suppressed, rewindable, turnVars, answered>>

SendNowStep(u) ==
  \E v \in 0..MaxVersion, o \in Clients \union {None}, edit, goal \in BOOLEAN :
    SendQueuedNow(u, v, o, edit, goal)

\* (mutant) the other rows include the named ones
ReorderedTwice(q, order) ==
  LET named == Kept(order, Listed(running) \intersect Ids(q))
  IN  Kept(q, ItemsOf(Prompts \ Listed(running)))
      \o [i \in DOMAIN named |-> q[Position(q, named[i])]]
      \o Kept(q, ItemsOf(Listed(running)))

\* The named rows first, then the other rows; what is no row goes in front.
Reordered(q, order) ==
  LET named == Kept(order, Listed(running) \intersect Ids(q))
  IN  Kept(q, ItemsOf(Prompts \ Listed(running)))
      \o [i \in DOMAIN named |-> q[Position(q, named[i])]]
      \o Kept(q, ItemsOf(Listed(running) \ ToSet(order)))

ReorderQueue(order) ==
  /\ Receiving
  /\ queue' = Reordered(queue, order)
  /\ Broadcast(queue', running)
  /\ UNCHANGED <<running, notes, suppressed, rewindable, turnVars, pc, arm, answered>>

ReorderStep == \E S \in SUBSET UserPrompts : \E order \in SetToSeqs(S) : ReorderQueue(order)

\* (mutant) the clients are not told
ClearQueueSilently(owner) ==
  /\ Receiving
  /\ LET cleared == {u \in UserPrompts : owner \in {None, OwnerOf[u]}}
     IN  /\ queue' = Swept(queue, cleared)
         /\ Answer((Ids(queue) \intersect cleared) \ {running})
  /\ UNCHANGED <<running, notes, suppressed, rewindable, turnVars, wire, pc, arm>>

\* owner None: everybody's rows.
ClearQueue(owner) ==
  /\ Receiving
  /\ LET cleared == {u \in UserPrompts : owner \in {None, OwnerOf[u]}}
     IN  /\ queue' = Swept(queue, cleared)
         /\ Answer((Ids(queue) \intersect cleared) \ {running})
  /\ Broadcast(queue', running)
  /\ UNCHANGED <<running, notes, suppressed, rewindable, turnVars, pc, arm>>

\* queue_interjection_fallback_prompt with front: right behind the running one.
AsPrompt(q, i) == InsertAt(q, AfterRunning(q), [Item(i) EXCEPT !.now = TRUE])

\* (mutant) every interjection goes to the buffer
InterjectBuffered(i) ==
  /\ Receiving /\ i \in Interjections /\ Unused(i)
  /\ buffer' = Append(buffer, i)
  /\ UNCHANGED <<lockVars, pin, completions, turn, wire, pc, arm, answered>>

\* Interject goes by the pin, not by the running task.
Interject(i) ==
  /\ Receiving /\ i \in Interjections /\ Unused(i)
  /\ \/ /\ pin # None
        /\ buffer' = Append(buffer, i)
        /\ UNCHANGED <<queue, pc>>
     \/ /\ pin = None
        /\ queue' = AsPrompt(queue, i)
        /\ pc' = "start"
        /\ UNCHANGED buffer
  /\ UNCHANGED <<running, notes, suppressed, rewindable, pin, completions, turn,
                 wire, arm, answered>>

DropMonitorNotifications(n) ==
  /\ Receiving /\ Contains(notes, n)
  /\ notes' = Kept(notes, Notes \ {n})
  /\ UNCHANGED <<queue, running, suppressed, rewindable, turnVars, wire, pc, arm,
                 answered>>

\* The actor returns and its LocalSet goes with it: no sender is left.
Shutdown ==
  /\ Idle /\ completions = <<>>
  /\ queue' = <<>> /\ running' = None /\ notes' = <<>> /\ buffer' = <<>>
  /\ suppressed' = FALSE /\ rewindable' = FALSE
  /\ turn' = [p \in Prompts |-> "none"]
  /\ pin' = None /\ wire' = <<>>
  /\ pc' = "stopped" /\ arm' = Resting
  /\ UNCHANGED <<completions, answered>>

-----------------------------------------------------------------------------
\* Cancels: the pin is read, the lock section follows, then the tail.

\* (mutant) whatever runs by now is aborted
AbortRunning(p) == turn' = IF running = None THEN turn ELSE [turn EXCEPT ![running] = "none"]

Abort(p) == turn' = IF p = None THEN turn ELSE [turn EXCEPT ![p] = "none"]

\* (mutant) the interjections stay
CancelKeepsInterjections(mode) ==
  /\ Receiving /\ mode \in {"keep", "rewind", "teardown"}
  /\ arm' = [arm EXCEPT !.mode = mode, !.snap = pin]
  /\ pc' = "lock"
  /\ UNCHANGED <<lockVars, pin, buffer, completions, turn, wire, answered>>

\* The Cancel command clears the interjections before anything else.
Cancel(mode) ==
  /\ Receiving /\ mode \in {"keep", "rewind", "teardown"}
  /\ buffer' = <<>>
  /\ arm' = [arm EXCEPT !.mode = mode, !.snap = pin]
  /\ pc' = "lock"
  /\ UNCHANGED <<lockVars, pin, completions, turn, wire, answered>>

\* cancel_turn_for_send_now does so after it flushed the replay buffer.
CancelForSendNow ==
  /\ pc = "begin"
  /\ buffer' = <<>>
  /\ arm' = [arm EXCEPT !.snap = pin]
  /\ pc' = "lock"
  /\ UNCHANGED <<lockVars, pin, completions, turn, wire, answered>>

\* (mutant) the answer of the prompt that was taken back is forgotten
CancelRewindsSilently ==
  /\ pc = "lock" /\ arm.mode = "rewind" /\ rewindable /\ queue # <<>>
  /\ queue' = Tail(queue) /\ running' = None
  /\ Abort(running)
  /\ suppressed' = FALSE /\ rewindable' = FALSE
  /\ arm' = [Resting EXCEPT !.mode = "rewind"] /\ pc' = "tail"
  /\ UNCHANGED <<notes, pin, buffer, completions, wire, answered>>

\* A pristine turn is taken back: aborted and popped, drains stay enabled.
CancelRewinds ==
  /\ pc = "lock" /\ arm.mode = "rewind" /\ rewindable /\ queue # <<>>
  /\ queue' = Tail(queue)
  /\ running' = None
  /\ Abort(running)
  /\ suppressed' = FALSE /\ rewindable' = FALSE
  /\ arm' = [Resting EXCEPT !.mode = "rewind", !.settle = {queue[1].id}]
  /\ pc' = "tail"
  /\ UNCHANGED <<notes, pin, buffer, completions, wire, answered>>

\* Index 0 is taken for the running turn, whether or not one runs.
CancelTakes ==
  /\ pc = "lock" /\ ~(arm.mode = "rewind" /\ rewindable /\ queue # <<>>)
  /\ running' = None
  /\ rewindable' = (rewindable /\ arm.mode # "rewind")
  /\ suppressed' = TRUE
  /\ queue' = IF arm.mode = "teardown" \/ queue = <<>> THEN <<>> ELSE Tail(queue)
  /\ notes' = IF arm.mode = "teardown" THEN <<>> ELSE notes
  /\ arm' = [arm EXCEPT !.victim = running, !.settle = Ids(queue) \ Ids(queue'),
                        !.prompt = IF running # None THEN running ELSE arm.snap,
                        !.snap = None]
  /\ pc' = "tail"
  /\ UNCHANGED <<turnVars, wire, answered>>

\* (mutant) the pin stays
CancelTailKeepsPin ==
  /\ pc = "tail"
  /\ Abort(arm.victim)
  /\ rewindable' = (rewindable /\ arm.prompt = None)
  /\ Answer(arm.settle)
  /\ suppressed' = (suppressed /\ arm.mode # "send_now")
  /\ arm' = Rested /\ pc' = "start"
  /\ UNCHANGED <<queue, running, notes, pin, buffer, completions, wire>>

\* (mutant) nothing starts after a cancel
CancelTailEnds ==
  /\ pc = "tail"
  /\ Abort(arm.victim)
  /\ pin' = None
  /\ rewindable' = (rewindable /\ arm.prompt = None)
  /\ Answer(arm.settle)
  /\ suppressed' = (suppressed /\ arm.mode # "send_now")
  /\ arm' = Rested /\ pc' = "idle"
  /\ UNCHANGED <<queue, running, notes, buffer, completions, wire>>

\* The abort, the pin, TurnCompleted (which closes the rewind window) and
\* the answers.
CancelTail ==
  /\ pc = "tail"
  /\ Abort(arm.victim)
  /\ pin' = None
  /\ rewindable' = (rewindable /\ arm.prompt = None)
  /\ Answer(arm.settle)
  /\ suppressed' = (suppressed /\ arm.mode # "send_now")
  /\ arm' = Rested
  /\ pc' = "start"
  /\ UNCHANGED <<queue, running, notes, buffer, completions, wire>>

-----------------------------------------------------------------------------
\* The turn tasks.

Alive(p) == turn[p] \in {"fresh", "open"}

\* (mutant) the window stays open
FirstUpdateOnly(p) ==
  /\ turn[p] = "fresh"
  /\ turn' = [turn EXCEPT ![p] = "open"]
  /\ UNCHANGED <<lockVars, pin, buffer, completions, wire, pc, arm, answered>>

\* The turn's first update to the clients closes the rewind window.
FirstUpdate(p) ==
  /\ turn[p] = "fresh"
  /\ turn' = [turn EXCEPT ![p] = "open"]
  /\ rewindable' = FALSE
  /\ UNCHANGED <<queue, running, notes, suppressed, pin, buffer, completions, wire,
                 pc, arm, answered>>

\* drain_pending_interjections
DrainInterjections(p) ==
  /\ turn[p] = "open" /\ buffer # <<>>
  /\ buffer' = <<>>
  /\ UNCHANGED <<lockVars, pin, completions, turn, wire, pc, arm, answered>>

\* A tool result tells the model what a queued wake or a notification would.
ConsumeCompletion(p, c) ==
  /\ turn[p] = "open"
  /\ c \in (Wakes \intersect Ids(queue)) \union ToSet(notes)
  /\ queue' = Swept(queue, Wakes \intersect {c})
  /\ notes' = Kept(notes, Notes \ {c})
  /\ UNCHANGED <<running, suppressed, rewindable, turnVars, wire, pc, arm, answered>>

\* The turn returns: past its scope guard, which clears the pin if it is
\* still the turn's, or early, before there was one.
EndTurn(p) ==
  /\ Alive(p)
  /\ turn' = [turn EXCEPT ![p] = "ended"]
  /\ \/ pin' = IF pin = p THEN None ELSE pin
     \/ turn[p] = "fresh" /\ UNCHANGED pin
  /\ UNCHANGED <<lockVars, buffer, completions, wire, pc, arm, answered>>

SendCompletion(p) ==
  /\ turn[p] = "ended"
  /\ turn' = [turn EXCEPT ![p] = "none"]
  /\ completions' = Append(completions, p)
  /\ UNCHANGED <<lockVars, pin, buffer, wire, pc, arm, answered>>

-----------------------------------------------------------------------------
\* The completion arm.

\* handle_completion up to its lock: only the turn's own pin is cleared.
TakeCompletion ==
  /\ Idle /\ completions # <<>>
  /\ completions' = Tail(completions)
  /\ pin' = IF pin = completions[1] THEN None ELSE pin
  /\ arm' = [arm EXCEPT !.prompt = completions[1]]
  /\ pc' = "complete"
  /\ UNCHANGED <<lockVars, buffer, turn, wire, answered>>

\* (mutant) a stale completion frees the slot too
FreedAlways(p, owned) == None

\* The slot is freed for the prompt that holds it, or with the front.
Freed(p, owned) == IF running = p \/ owned THEN None ELSE running

\* Its lock section; a completion that is not the front's is stale.
Complete ==
  /\ pc = "complete"
  /\ LET p == arm.prompt
         owned == queue # <<>> /\ queue[1].id = p
     IN  /\ queue' = IF owned THEN Tail(queue) ELSE queue
         /\ Answer(IF owned THEN {p} ELSE {})
         /\ running' = Freed(p, owned)
         /\ arm' = IF owned THEN arm ELSE Rested
         /\ IF owned /\ p \in UserPrompts THEN Broadcast(queue', running')
                                         ELSE UNCHANGED wire
  /\ pc' = "flush"
  /\ UNCHANGED <<notes, suppressed, rewindable, turnVars>>

\* TurnCompleted goes out, an active goal queues its next turn unless one is
\* queued, and the interjections that missed the turn become prompts.
FlushStranded(goal) ==
  /\ pc = "flush"
  /\ goal # None => Unused(goal) /\ Room /\ Summaries \intersect Ids(queue) = {}
  /\ LET base == IF goal = None THEN queue ELSE Append(queue, Item(goal))
         k == AfterRunning(base) - 1
         stranded == [i \in DOMAIN buffer |-> [Item(buffer[i]) EXCEPT !.now = TRUE]]
     IN  queue' = SubSeq(base, 1, k) \o stranded \o SubSeq(base, k + 1, Len(base))
  /\ buffer' = <<>>
  /\ rewindable' = (rewindable /\ arm.prompt = None)
  /\ arm' = Rested
  /\ pc' = "finish"
  /\ UNCHANGED <<running, notes, suppressed, pin, completions, turn, wire,
                 answered>>

-----------------------------------------------------------------------------

Requests ==
  \/ \E p \in UserPrompts \union Wakes, now, blocked, goal \in BOOLEAN :
       Prompt(p, now, blocked, goal)
  \/ \E p \in Summaries : GoalSummaryTurn(p)
  \/ \E n \in Notes : InjectNotification(n) \/ DropMonitorNotifications(n)
  \/ \E u \in UserPrompts, v \in 0..MaxVersion, o \in Clients \union {None} :
       RemoveQueuedPrompt(u, v, o)
  \/ \E u \in UserPrompts : EditQueuedPrompt(u) \/ SendNowStep(u)
  \/ ReorderStep
  \/ \E o \in Clients \union {None} : ClearQueue(o)
  \/ \E i \in Interjections : Interject(i)
  \/ \E mode \in {"keep", "rewind", "teardown"} : Cancel(mode)
  \/ Shutdown

ActorStep ==
  \/ CancelForSendNow \/ CancelRewinds \/ CancelTakes \/ CancelTail
  \/ TakeCompletion \/ Complete
  \/ \E goal \in Summaries \union {None} : FlushStranded(goal)
  \/ ActorStart
  \/ \E dropped \in BOOLEAN : DrainNotifications(dropped)

TurnStep(p) ==
  \/ FirstUpdate(p) \/ DrainInterjections(p) \/ EndTurn(p) \/ SendCompletion(p)
  \/ \E c \in Wakes \union Notes : ConsumeCompletion(p, c)

OtherTasks ==
  \/ \E p \in PlanResumes : PlanResumed(p)
  \/ McpStart

Next == Requests \/ ActorStep \/ (\E p \in Prompts : TurnStep(p)) \/ OtherTasks

\* The actor and the tasks are scheduled; a turn comes to an end; clients
\* and the user owe nothing.
Fairness ==
  /\ WF_vars(ActorStep)
  /\ WF_vars(\E p \in Prompts : EndTurn(p) \/ SendCompletion(p))

Spec == Init /\ [][Next]_vars /\ Fairness

-----------------------------------------------------------------------------

TypeOK ==
  /\ queue \in Seq(Items) /\ IsInjective([i \in DOMAIN queue |-> queue[i].id])
  /\ running \in Prompts \union {None}
  /\ notes \in Seq(Notes) /\ Len(notes) <= MaxNotes
  /\ {suppressed, rewindable} \subseteq BOOLEAN
  /\ pin \in Prompts \union {None}
  /\ buffer \in Seq(Interjections)
  /\ completions \in Seq(Prompts)
  /\ turn \in [Prompts -> {"none", "fresh", "open", "ended"}]
  /\ wire \in Seq(UserPrompts \X (0..MaxVersion))
  /\ pc \in Phases
  /\ arm \in [prompt : Prompts \union {None}, mode : Modes, snap : Prompts \union {None},
             victim : Prompts \union {None}, settle : SUBSET Prompts]
  /\ answered \subseteq UserPrompts

\* Whatever was inserted, removed or moved meanwhile, the running prompt is
\* the front: handle_completion and cancel_running_task take index 0 for it.
RunningIsFront == running # None => queue # <<>> /\ queue[1].id = running

\* A session that is busy gets free again: the running prompt has a task, or
\* its completion is in the channel or in the actor's hands.
RunningIsLive ==
  running # None =>
    \/ turn[running] # "none"
    \/ Contains(completions, running)
    \/ pc = "complete" /\ arm.prompt = running

\* Two turns run at once only between the lock section of a cancel and its
\* abort, where another task may promote the next prompt.
OneTurn ==
  \A p \in Prompts : Alive(p) => p = running \/ (pc = "tail" /\ p = arm.victim)

\* When the actor waits for work a queued prompt is not forgotten: one runs.
NoIdleBacklog == Idle /\ queue # <<>> => running # None

\* The debug_assert of cancel_running_task: the pin read before its awaits
\* does not disagree with the task found under the lock.
PinAgrees == pc = "lock" => arm.snap = None \/ running \in {None, arm.snap}

\* An interjection that was taken for a running turn still has one to go to,
\* or the completion that turns it into a prompt.
InterjectionNotStranded ==
  buffer # <<>> => running # None \/ pc \in {"complete", "flush", "begin"}

\* Between two arms every client's copy of the queue is the queue, unless the
\* session is being torn down.
MirrorAtRest == Idle /\ ~TornDown => wire = QueueWire(queue, running)

\* A turn taken back as pristine has shown nothing to the clients.
RewindPristine ==
  pc = "lock" /\ arm.mode = "rewind" /\ rewindable /\ running # None =>
    turn[running] # "open"

Before(q, x, y) ==
  x \in Ids(q) /\ y \in Ids(q) /\ Position(q, x) < Position(q, y)
IsNow(q, x) == \E i \in DOMAIN q : q[i].id = x /\ q[i].now
LeadingNow(q, x) == \A i \in 1..Position(q, x) : q[i].now \/ q[i].id = running

\* A step in which the order of the prompts holds, but for what is sent now.
InTurn ==
  \/ \A x, y \in Ids(queue) \intersect Ids(queue') :
       Before(queue, x, y) => \/ Before(queue', x, y)
                              \/ IsNow(queue', y) /\ ~LeadingNow(queue, x)
                              \/ x \in UserPrompts /\ SendNowStep(x)
  \/ ReorderStep

\* A step in which no waiting wake gets in front of a user's prompt.
Yielding ==
  \/ \A w \in Wakes, u \in UserPrompts :
       Before(queue', w, u) /\ w # running => Before(queue, w, u)
  \/ ReorderStep

\* A prompt passes another only when its client sends it now, and never one
\* that was sent now before, unless that one is sent now again and queues up
\* behind the others, or a reorder put a synthetic prompt in front of it.
NoOvertaking == [][InTurn]_queue

\* Only a reorder puts a wake in front of a user's prompt: what a user sends
\* does not queue up behind a wake, unless that wake already runs.
WakesYield == [][Yielding]_queue

\* What becomes of a prompt, read off the queue and the answers.
Status ==
  LET queued == Ids(queue)
  IN  [p \in Prompts |->
        IF p \in answered THEN "answered"
        ELSE CASE pc = "stopped" -> "dropped"
               [] p \in queued -> IF p = running THEN "running" ELSE "waiting"
               [] p \in arm.settle -> "settling"
               [] OTHER -> "new"]

Ledger == INSTANCE PromptLedger WITH Awaited <- UserPrompts, status <- Status

\* The queue keeps the ledger's promises: whoever sent a prompt gets exactly
\* one answer, an interactive cancel costs no prompt but the running one.
KeepsLedger == Ledger!LedgerSpec

\* Some prompt that was not before u is before it now.
Passed(u) == u \in Ids(queue) /\ \E p \in Ids(queue') : Before(queue', p, u) /\ ~Before(queue, p, u)

\* A user's prompt is answered in the end, if the session does not stop, unless
\* others get in front of it again and again: the interjections that missed their
\* turn do at the end of each, and so do send-now and reorders of the clients.
UserPromptAnswered ==
  \A u \in UserPrompts :
    \/ u \in Ids(queue) ~> (u \in answered \/ pc = "stopped")
    \/ []<><<Passed(u)>>_queue

\* An interjection does not stay in the buffer.
InterjectionLeaves ==
  \A i \in Interjections : Contains(buffer, i) ~> ~Contains(buffer, i)

=============================================================================
