------------------------- MODULE PromptQueueProofs -------------------------
(***************************************************************************)
(* Safety of PromptQueue for any number of prompts, clients and            *)
(* interjections, and at any limit of the notifications.                   *)
(*                                                                         *)
(* None of the properties is inductive alone.  That the running prompt is  *)
(* the front, that its turn is live and that no other turn is, need one    *)
(* another, and all of them need that a prompt is in one place at a time:  *)
(* a prompt that waits has no turn task, no completion in the channel and  *)
(* no cancel under way, so that whoever takes the front takes what it      *)
(* believes it takes.                                                      *)
(***************************************************************************)
EXTENDS PromptQueueLemmas

\* Everything that waits for a turn, in the queue or to get there.
Queued == Ids(queue) \union ToSet(buffer) \union ToSet(notes)

\* What waits is in one place, once.
Separate ==
  /\ Distinct(buffer)
  /\ ToSet(buffer) \intersect Ids(queue) = {} /\ ToSet(notes) \intersect Ids(queue) = {}
  /\ ToSet(buffer) \intersect ToSet(notes) = {}

\* A turn task belongs to the running prompt or to the victim of a cancel.
TurnsOwned ==
  \A p \in Prompts : turn[p] # "none" => p = running \/ (pc = "tail" /\ p = arm.victim)

\* A turn is over when its completion is on its way, and its pin is gone when
\* the completion is in hand.
CompletedOnce ==
  /\ \A p \in ToSet(completions) : turn[p] = "none"
  /\ pc = "complete" => arm.prompt \in Prompts /\ turn[arm.prompt] = "none" /\ pin # arm.prompt

\* What waits has no turn, no completion and no cancel under way.
Untouched ==
  /\ \A p \in Queued \ {running} :
       /\ turn[p] = "none" /\ p \notin ToSet(completions)
       /\ pc = "complete" => p # arm.prompt
  /\ pc = "tail" => arm.victim \notin Queued

\* The pin is the running prompt's; so is the one a cancel has read.
PinOwned ==
  /\ pin # None => pin = running \/ (pc = "tail" /\ running = None)
  /\ pc = "lock" /\ arm.snap # None => running = arm.snap

\* Nobody waits behind a free slot while the actor waits, or cancels.
Backlog ==
  pc \in {"idle", "drain", "begin", "lock"} /\ queue # <<>> => running # None

Buffered ==
  /\ buffer # <<>> => running # None \/ pc \in {"complete", "flush", "begin"}
  /\ pc \in {"lock", "tail"} => buffer = <<>>

Pristine == rewindable /\ running # None => turn[running] # "open"

Owned == RunningIsLive /\ TurnsOwned /\ CompletedOnce /\ Untouched /\ PinOwned /\ Pristine
Placed == RunningIsFront /\ Separate /\ Backlog /\ Buffered
Inv == TypeOK /\ Placed /\ Owned

-----------------------------------------------------------------------------

\* The types as the steps below use them.
LEMMA TypeFacts ==
  ASSUME TypeOK
  PROVE  /\ QueueOK(queue) /\ Ids(queue) \subseteq Prompts
         /\ ToSet(buffer) \subseteq Interjections /\ ToSet(notes) \subseteq Notes
         /\ ToSet(completions) \subseteq Prompts /\ Queued \subseteq Prompts
         /\ None \notin Prompts
  <1>1. QueueOK(queue)
    <2>1. DOMAIN queue = 1..Len(queue)
      BY DEF TypeOK
    <2>. QED
      BY <2>1 DEF TypeOK, QueueOK, IsInjective
  <1>2. /\ ToSet(buffer) \subseteq Interjections /\ ToSet(notes) \subseteq Notes
        /\ ToSet(completions) \subseteq Prompts
    BY DEF TypeOK, ToSet
  <1>3. Ids(queue) \subseteq Prompts
    BY <1>1, QueueFacts
  <1>. QED
    BY <1>1, <1>2, <1>3, QueueAssumption DEF Queued, Prompts, Synthetic

\* A queue without doubles has the type TypeOK asks for.
LEMMA QueueTyped ==
  ASSUME NEW q, QueueOK(q)
  PROVE  q \in Seq(Items) /\ IsInjective([i \in DOMAIN q |-> q[i].id])
  <1>1. DOMAIN q = 1..Len(q)
    BY DEF QueueOK
  <1>. QED
    BY <1>1 DEF QueueOK, IsInjective

\* What build_queue_wire makes of a queue has the type of the broadcast.
LEMMA WireTyped ==
  ASSUME NEW q, QueueOK(q), NEW r
  PROVE  QueueWire(q, r) \in Seq(UserPrompts \X (0..MaxVersion))
  <1> DEFINE S == Listed(r)
             k == Kept(q, ItemsOf(S))
  <1>1. k \in Seq(Items) /\ ToSet(k) = ToSet(q) \intersect ItemsOf(S)
    BY KeptElements DEF QueueOK
  <1> HIDE DEF k
  <1>2. \A i \in DOMAIN k : k[i] \in ItemsOf(S)
    BY <1>1 DEF ToSet
  <1>3. \A item \in ItemsOf(S) : item.id \in UserPrompts /\ item.version \in 0..MaxVersion
    BY DEF ItemsOf, Listed
  <1>4. DOMAIN k = 1..Len(k) /\ Len(k) \in Nat
    BY <1>1
  <1>5. [i \in DOMAIN k |-> <<k[i].id, k[i].version>>] \in Seq(UserPrompts \X (0..MaxVersion))
    BY <1>2, <1>3, <1>4
  <1>. QED
    BY <1>5 DEF QueueWire, k

\* A fresh id waits nowhere.
LEMMA UnusedFacts ==
  ASSUME NEW p, Unused(p)
  PROVE  p \notin Queued
  BY DEF Unused, Queued

\* What the queue looks like to the next step.
LEMMA QueueHolds ==
  ASSUME Inv
  PROVE  QueueOK(queue) /\ Fronted(queue)
  BY TypeFacts DEF Inv, Placed, RunningIsFront, Fronted

\* Nothing starts and nothing ends: prompts come, move and go while they wait.
LEMMA WaitingStep ==
  ASSUME Inv, NEW X, \A p \in X : Unused(p),
         Queued' \subseteq Queued \union X,
         UNCHANGED <<running, turn, completions, pin>>,
         rewindable' \in BOOLEAN, rewindable' => rewindable,
         pc \in {"complete", "tail"} => pc' = pc,
         pc' \in {"complete", "tail", "lock"} => pc' = pc /\ arm' = arm
  PROVE  Owned'
  <1>1. \A p \in X : /\ p \notin Queued /\ p \notin ToSet(completions) /\ turn[p] = "none"
                     /\ p # arm.prompt /\ p # arm.victim
    BY DEF Inv, Unused, Queued
  <1>2. RunningIsLive'
    BY DEF Inv, Owned, RunningIsLive
  <1>3. TurnsOwned'
    BY DEF Inv, Owned, TurnsOwned
  <1>4. CompletedOnce'
    BY DEF Inv, Owned, CompletedOnce
  <1>5. Untouched'
    <2> SUFFICES /\ \A p \in Queued' \ {running} :
                      /\ turn[p] = "none" /\ p \notin ToSet(completions)
                      /\ pc' = "complete" => p # arm'.prompt
                 /\ pc' = "tail" => arm'.victim \notin Queued'
      BY DEF Untouched
    <2>1. \A p \in Queued' : p \in Queued \/ p \in X
      OBVIOUS
    <2>. QED
      BY <1>1, <2>1 DEF Inv, Owned, Untouched
  <1>6. PinOwned'
    BY DEF Inv, Owned, PinOwned
  <1>7. Pristine'
    BY DEF Inv, Owned, Pristine
  <1>. QED
    BY <1>2, <1>3, <1>4, <1>5, <1>6, <1>7 DEF Owned

\* What such a step has to keep in order itself.
Keeping ==
  /\ QueueOK(queue') /\ Fronted(queue')
  /\ Separate' /\ Backlog' /\ Buffered'
  /\ notes' \in Seq(Notes) /\ Len(notes') <= MaxNotes
  /\ buffer' \in Seq(Interjections)
  /\ suppressed' \in BOOLEAN /\ rewindable' \in BOOLEAN
  /\ wire' = wire \/ wire' = QueueWire(queue', running)
  /\ arm' \in [prompt : Prompts \union {None}, mode : Modes, snap : Prompts \union {None},
               victim : Prompts \union {None}, settle : SUBSET Prompts]
  /\ pc' \in Phases
  /\ answered' \subseteq UserPrompts

\* A step that keeps in order what is queued, and starts and ends nothing,
\* keeps the invariant.
LEMMA KeepingStep ==
  ASSUME Inv, Keeping, NEW X, \A p \in X : Unused(p),
         Queued' \subseteq Queued \union X,
         UNCHANGED <<running, turn, completions, pin>>, rewindable' => rewindable,
         \/ pc' = pc /\ arm' = arm
         \/ pc \notin {"complete", "tail"} /\ pc' \notin {"complete", "tail", "lock"}
  PROVE  Inv'
  <1>1. TypeOK'
    BY QueueTyped, WireTyped DEF Inv, TypeOK, Keeping
  <1>2. RunningIsFront'
    BY DEF RunningIsFront, Fronted, Keeping
  <1>3. Owned'
    <2>1. /\ rewindable' \in BOOLEAN
          /\ pc \in {"complete", "tail"} => pc' = pc
          /\ pc' \in {"complete", "tail", "lock"} => pc' = pc /\ arm' = arm
      BY DEF Keeping
    <2>. QED
      BY <2>1, WaitingStep
  <1>. QED
    BY <1>1, <1>2, <1>3 DEF Inv, Placed, Keeping

\* The locals of an arm, and what the steps make of them, have their type.
LEMMA ArmTyped ==
  ASSUME Inv
  PROVE  /\ arm \in [prompt : Prompts \union {None}, mode : Modes, snap : Prompts \union {None},
                    victim : Prompts \union {None}, settle : SUBSET Prompts]
         /\ \A mode \in Modes :
              [arm EXCEPT !.mode = mode] \in
                [prompt : Prompts \union {None}, mode : Modes, snap : Prompts \union {None},
                 victim : Prompts \union {None}, settle : SUBSET Prompts]
         /\ Rested \in [prompt : Prompts \union {None}, mode : Modes, snap : Prompts \union {None},
                        victim : Prompts \union {None}, settle : SUBSET Prompts]
  BY DEF Inv, TypeOK, Rested, Resting, TornDown, Modes

-----------------------------------------------------------------------------
(* The commands.  Most leave the slot, the turns and the completions alone. *)

\* The Prompt arm: a preempting sweep, a push or a send-now insertion.
LEMMA PromptStep ==
  ASSUME Inv, NEW p \in UserPrompts \union Wakes, NEW now, NEW blocked, NEW goal,
         Prompt(p, now, blocked, goal)
  PROVE  Inv'
  <1> DEFINE base == IF Preempted(p) THEN Swept(queue, Synthetic) ELSE queue
  <1>1. p \in Prompts /\ p \notin Queued /\ Unused(p)
    BY UnusedFacts DEF Prompt, Prompts, Synthetic
  <1>2. QueueOK(base) /\ Fronted(base) /\ Ids(base) \subseteq Ids(queue)
    BY QueueHolds, SweptQueue
  <1>3. p \notin Ids(base)
    BY <1>1, <1>2 DEF Queued
  <1>4. queue' = InsertNow(base, Item(p)) \/ queue' = Append(base, Item(p))
    BY DEF Prompt
  <1>5. UNCHANGED <<running, notes, rewindable, pin, buffer, completions, turn, answered>>
    BY DEF Prompt, turnVars
  <1> HIDE DEF base
  <1>6. QueueOK(queue') /\ Fronted(queue') /\ Ids(queue') = Ids(base) \union {p}
    <2>1. CASE queue' = InsertNow(base, Item(p))
      <3>1. Item(p) \in Items /\ Item(p).id = p
        BY <1>1, NewItem
      <3>. QED
        BY <1>2, <1>3, <2>1, <3>1, InsertNowQueue
    <2>2. CASE queue' = Append(base, Item(p))
      BY <1>1, <1>2, <1>3, <2>2, AppendNew
    <2>. QED
      BY <1>4, <2>1, <2>2
  <1>7. /\ pc = "idle" /\ pc' \in {"start", "begin"}
        /\ pc' = "begin" => running # None
        /\ arm' = arm \/ arm' = [arm EXCEPT !.mode = "send_now"]
        /\ wire' = QueueWire(queue', running) /\ suppressed' \in BOOLEAN
    BY DEF Prompt, Receiving, Idle, Broadcast
  <1>8. Keeping
    <2>1. Separate'
      BY <1>1, <1>2, <1>5, <1>6 DEF Inv, Placed, Separate, Queued
    <2>2. Backlog' /\ Buffered'
      BY <1>5, <1>7 DEF Inv, Placed, Backlog, Buffered
    <2>. QED
      BY <1>5, <1>6, <1>7, <2>1, <2>2, ArmTyped DEF Keeping, Inv, TypeOK, Modes, Phases
  <1>9. Queued' \subseteq Queued \union {p} /\ \A q \in {p} : Unused(q)
    BY <1>1, <1>2, <1>5, <1>6 DEF Queued
  <1>10. pc \notin {"complete", "tail"} /\ pc' \notin {"complete", "tail", "lock"}
    BY <1>7
  <1>. QED
    BY <1>5, <1>8, <1>9, <1>10, KeepingStep

\* The arm that queues the summary turn of a goal.
LEMMA GoalSummaryTurnStep ==
  ASSUME Inv, NEW p \in Summaries, GoalSummaryTurn(p)
  PROVE  Inv'
  <1>1. p \in Prompts /\ p \notin Queued /\ Unused(p)
    BY UnusedFacts DEF GoalSummaryTurn, Prompts, Synthetic
  <1>2. /\ pc = "idle" /\ pc' = "start" /\ queue' = Append(queue, Item(p))
        /\ UNCHANGED <<running, notes, suppressed, rewindable, pin, buffer, completions, turn,
                       wire, arm, answered>>
    BY DEF GoalSummaryTurn, turnVars, Receiving, Idle
  <1>3. QueueOK(queue') /\ Fronted(queue') /\ Ids(queue') = Ids(queue) \union {p}
    BY <1>1, <1>2, QueueHolds, AppendNew DEF Queued
  <1>4. Keeping
    <2>1. Separate'
      BY <1>1, <1>2, <1>3 DEF Inv, Placed, Separate, Queued
    <2>2. Backlog' /\ Buffered'
      BY <1>2 DEF Inv, Placed, Backlog, Buffered
    <2>. QED
      BY <1>2, <1>3, <2>1, <2>2, ArmTyped DEF Keeping, Inv, TypeOK, Phases
  <1>5. Queued' \subseteq Queued \union {p} /\ \A q \in {p} : Unused(q)
    BY <1>1, <1>2, <1>3 DEF Queued
  <1>6. pc \notin {"complete", "tail"} /\ pc' \notin {"complete", "tail", "lock"}
    BY <1>2
  <1>. QED
    BY <1>2, <1>4, <1>5, <1>6, KeepingStep

\* A notification joins the pending ones, which stay within their limit.
LEMMA InjectedNotes ==
  ASSUME Inv, NEW n \in Notes, InjectNotification(n)
  PROVE  /\ notes' \in Seq(Notes) /\ Len(notes') <= MaxNotes
         /\ ToSet(notes') \subseteq ToSet(notes) \union {n}
  <1> DEFINE all == Append(notes, n)
  <1>1. /\ notes \in Seq(Notes) /\ Len(notes) \in Nat /\ Len(notes) <= MaxNotes
        /\ MaxNotes \in Nat
    BY QueueAssumption DEF Inv, TypeOK
  <1>2. /\ all \in Seq(Notes) /\ Len(all) = Len(notes) + 1
        /\ \A i \in 1..(Len(notes) + 1) : all[i] = IF i <= Len(notes) THEN notes[i] ELSE n
    BY <1>1
  <1>3. \A i \in 1..(Len(notes) + 1) : all[i] \in ToSet(notes) \union {n}
    BY <1>1, <1>2 DEF ToSet
  <1> HIDE DEF all
  <1>4. /\ Tail(all) \in Seq(Notes) /\ Len(Tail(all)) = Len(notes)
        /\ \A i \in 1..Len(notes) : Tail(all)[i] = all[i + 1] /\ i + 1 \in 1..(Len(notes) + 1)
    BY <1>1, <1>2
  <1>5. CASE notes' = Tail(all)
    BY <1>1, <1>3, <1>4, <1>5 DEF ToSet
  <1>6. CASE notes' = all /\ ~(Len(all) > MaxNotes)
    BY <1>1, <1>2, <1>3, <1>6 DEF ToSet
  <1>. QED
    BY <1>5, <1>6 DEF InjectNotification, all

\* A notification joins the pending ones and drops the oldest at the limit.
LEMMA InjectNotificationStep ==
  ASSUME Inv, NEW n \in Notes, InjectNotification(n)
  PROVE  Inv'
  <1>1. n \in Prompts /\ n \notin Queued /\ Unused(n)
    BY UnusedFacts DEF InjectNotification, Prompts, Synthetic
  <1>2. /\ pc = "idle" /\ pc' = "drain"
        /\ UNCHANGED <<queue, running, suppressed, rewindable, pin, buffer, completions, turn,
                       wire, arm, answered>>
    BY DEF InjectNotification, turnVars, Receiving, Idle
  <1>3. /\ notes' \in Seq(Notes) /\ Len(notes') <= MaxNotes
        /\ ToSet(notes') \subseteq ToSet(notes) \union {n}
    BY InjectedNotes
  <1>4. Keeping
    <2>1. Separate'
      BY <1>1, <1>2, <1>3 DEF Inv, Placed, Separate, Queued
    <2>2. Backlog' /\ Buffered'
      BY <1>2 DEF Inv, Placed, Backlog, Buffered
    <2>3. QueueOK(queue') /\ Fronted(queue')
      BY <1>2, QueueHolds
    <2>. QED
      BY <1>2, <1>3, <2>1, <2>2, <2>3, ArmTyped DEF Keeping, Inv, TypeOK, Phases
  <1>5. Queued' \subseteq Queued \union {n} /\ \A q \in {n} : Unused(q)
    BY <1>1, <1>2, <1>3 DEF Queued
  <1>6. pc \notin {"complete", "tail"} /\ pc' \notin {"complete", "tail", "lock"}
    BY <1>2
  <1>. QED
    BY <1>2, <1>4, <1>5, <1>6, KeepingStep

\* The queue may be rearranged, as long as nobody joins it.
LEMMA RearrangeStep ==
  ASSUME Inv, QueueOK(queue'), Fronted(queue'), Ids(queue') \subseteq Ids(queue),
         UNCHANGED <<running, turn, completions, pin, rewindable, buffer>>,
         ToSet(notes') \subseteq ToSet(notes),
         notes' \in Seq(Notes), Len(notes') <= MaxNotes,
         suppressed' \in BOOLEAN,
         wire' = wire \/ wire' = QueueWire(queue', running),
         arm' = arm \/ arm' = [arm EXCEPT !.mode = "send_now"],
         \/ pc' = pc /\ arm' = arm
         \/ pc = "idle" /\ pc' \in {"start", "begin"} /\ (pc' = "begin" => running # None),
         answered' \subseteq UserPrompts
  PROVE  Inv'
  <1>1. Keeping
    <2>1. Separate'
      BY DEF Inv, Placed, Separate
    <2>2. queue' # <<>> => queue # <<>>
      <3>1. QueueOK(queue)
        BY QueueHolds
      <3>. QED
        BY <3>1, QueueFacts
    <2>3. Backlog' /\ Buffered'
      BY <2>2 DEF Inv, Placed, Backlog, Buffered
    <2>. QED
      BY <2>1, <2>3, ArmTyped DEF Keeping, Inv, TypeOK, Modes, Phases
  <1> DEFINE X == {}
  <1>2. Queued' \subseteq Queued \union X /\ \A p \in X : Unused(p)
    BY DEF Queued
  <1> HIDE DEF X
  <1>3. \/ pc' = pc /\ arm' = arm
        \/ pc \notin {"complete", "tail"} /\ pc' \notin {"complete", "tail", "lock"}
    OBVIOUS
  <1>. QED
    BY <1>1, <1>2, <1>3, KeepingStep

\* The types of the variables a step leaves alone.
LEMMA InvTyped ==
  ASSUME Inv
  PROVE  /\ notes \in Seq(Notes) /\ Len(notes) <= MaxNotes /\ MaxNotes \in Nat
         /\ buffer \in Seq(Interjections)
         /\ suppressed \in BOOLEAN /\ rewindable \in BOOLEAN /\ answered \subseteq UserPrompts
         /\ pc \in Phases
  BY QueueAssumption DEF Inv, TypeOK

\* Removing a queued row, or being refused: never the running prompt's row.
LEMMA RemoveStep ==
  ASSUME Inv, NEW u, NEW v, NEW o, RemoveQueuedPrompt(u, v, o)
  PROVE  Inv'
  <1>1. /\ pc' = pc /\ wire' = QueueWire(queue', running)
        /\ UNCHANGED <<running, notes, suppressed, rewindable, pin, buffer, completions, turn, arm>>
    BY DEF RemoveQueuedPrompt, turnVars, Broadcast
  <1>2. /\ QueueOK(queue') /\ Fronted(queue') /\ Ids(queue') \subseteq Ids(queue)
        /\ answered' \subseteq UserPrompts
    <2>1. CASE queue' = queue /\ answered' = answered
      BY <2>1, QueueHolds DEF Inv, TypeOK
    <2>2. CASE Row(u, v, o) /\ queue' = RemoveAt(queue, Position(queue, u)) /\ Answer({u})
      <3>1. u \in Ids(queue) /\ u # running
        BY <2>2 DEF Row, Ids
      <3>2. Position(queue, u) \in 1..Len(queue) /\ queue[Position(queue, u)].id = u
        BY <3>1, QueueHolds, PositionOf
      <3>3. /\ QueueOK(queue') /\ Ids(queue') \subseteq Ids(queue)
            /\ Position(queue, u) # 1 => SameFront(queue, queue')
        BY <2>2, <3>2, QueueHolds, RemoveQueue
      <3>4. Fronted(queue')
        BY <3>1, <3>2, <3>3, QueueHolds, FrontKept DEF Fronted
      <3>5. answered' \subseteq UserPrompts
        BY <2>2 DEF Answer, Inv, TypeOK
      <3>. QED
        BY <3>3, <3>4, <3>5
    <2>. QED
      BY <2>1, <2>2 DEF RemoveQueuedPrompt
  <1>. QED
    BY <1>1, <1>2, RearrangeStep, InvTyped

\* An edited item keeps its place.
LEMMA EditedItem ==
  ASSUME Inv, NEW u, u \in Ids(queue), Editable(u)
  PROVE  LET i == Position(queue, u) IN
         /\ i \in 1..Len(queue) /\ queue[i].id = u
         /\ Edited(queue[i]) \in Items /\ Edited(queue[i]).id = u
  <1> DEFINE i == Position(queue, u)
  <1>1. /\ i \in 1..Len(queue) /\ queue[i].id = u /\ queue[i] \in Items
        /\ DOMAIN queue = 1..Len(queue)
    BY QueueHolds, PositionOf, QueueFacts
  <1> HIDE DEF i
  <1>2. queue[i].version < MaxVersion
    BY <1>1 DEF Editable
  <1>3. queue[i].version + 1 \in 0..MaxVersion
    BY <1>1, <1>2, QueueAssumption DEF Items, ItemsOf
  <1>4. Edited(queue[i]) \in Items /\ Edited(queue[i]).id = u
    BY <1>1, <1>3 DEF Edited, Items, ItemsOf
  <1>. QED
    BY <1>1, <1>4 DEF i

\* Editing a queued row moves nobody.
LEMMA EditedQueue ==
  ASSUME Inv, NEW u, EditQueuedPrompt(u)
  PROVE  QueueOK(queue') /\ Fronted(queue') /\ Ids(queue') = Ids(queue)
  <1> DEFINE i == Position(queue, u)
  <1>1. u \in Ids(queue) /\ Editable(u) /\ queue' = [queue EXCEPT ![i] = Edited(queue[i])]
    BY DEF EditQueuedPrompt
  <1>2. /\ i \in 1..Len(queue) /\ queue[i].id = u
        /\ Edited(queue[i]) \in Items /\ Edited(queue[i]).id = u
    BY <1>1, EditedItem
  <1> HIDE DEF i
  <1>3. QueueOK(queue') /\ Ids(queue') = Ids(queue) /\ SameFront(queue, queue')
    BY <1>1, <1>2, QueueHolds, EditQueue
  <1>. QED
    BY <1>3, QueueHolds, FrontKept

\* Editing a queued row.
LEMMA EditStep ==
  ASSUME Inv, NEW u, EditQueuedPrompt(u)
  PROVE  Inv'
  <1>1. /\ pc' = pc /\ wire' = QueueWire(queue', running)
        /\ UNCHANGED <<running, notes, suppressed, rewindable, pin, buffer, completions, turn, arm,
                       answered>>
    BY DEF EditQueuedPrompt, turnVars, Broadcast
  <1>. QED
    BY <1>1, EditedQueue, RearrangeStep, InvTyped

\* Sending a queued row now takes it out of its place and puts it behind the
\* running prompt; nobody joins and nobody leaves.
LEMMA SentNowQueue ==
  ASSUME Inv, NEW u, NEW v, NEW o, NEW edit, NEW goal, SendQueuedNow(u, v, o, edit, goal)
  PROVE  QueueOK(queue') /\ Fronted(queue') /\ Ids(queue') = Ids(queue)
  <1> DEFINE i == Position(queue, u)
             item == IF edit THEN Edited(queue[i]) ELSE queue[i]
  <1>1. CASE queue' = queue
    BY <1>1, QueueHolds
  <1>2. CASE /\ Row(u, v, o)
             /\ edit => Editable(u)
             /\ queue' = InsertNow(RemoveAt(queue, i), item)
    <2>1. u \in Ids(queue) /\ u # running
      <3>1. u # running /\ \E j \in DOMAIN queue : queue[j].id = u
        BY <1>2 DEF Row
      <3>. QED
        BY <3>1 DEF Ids
    <2>2. i \in 1..Len(queue) /\ queue[i].id = u /\ queue[i] \in Items
      BY <2>1, QueueHolds, PositionOf
    <2>3. item \in Items /\ item.id = u
      <3>1. CASE edit
        <4>1. Edited(queue[i]) \in Items /\ Edited(queue[i]).id = u
          BY <1>2, <2>1, <3>1, EditedItem
        <4>. QED
          BY <3>1, <4>1
      <3>2. CASE ~edit
        BY <2>2, <3>2
      <3>. QED
        BY <3>1, <3>2
    <2> HIDE DEF i, item
    <2> DEFINE rest == RemoveAt(queue, i)
    <2>4. /\ QueueOK(rest) /\ Ids(rest) = Ids(queue) \ {u}
          /\ i # 1 => SameFront(queue, rest)
      BY <2>2, QueueHolds, RemoveQueue
    <2> HIDE DEF rest
    <2>5. Fronted(rest)
      BY <2>1, <2>2, <2>4, QueueHolds, FrontKept DEF Fronted
    <2>6. QueueOK(queue') /\ Fronted(queue') /\ Ids(queue') = Ids(rest) \union {u}
      BY <1>2, <2>3, <2>4, <2>5, InsertNowQueue DEF rest
    <2>. QED
      BY <2>1, <2>4, <2>6
  <1>. QED
    BY <1>1, <1>2 DEF SendQueuedNow

\* Sending a queued row now.
LEMMA SendNowStepOK ==
  ASSUME Inv, NEW u, NEW v, NEW o, NEW edit, NEW goal, SendQueuedNow(u, v, o, edit, goal)
  PROVE  Inv'
  <1>1. /\ pc = "idle" /\ pc' \in {"start", "begin"} /\ wire' = QueueWire(queue', running)
        /\ pc' = "begin" => running # None
        /\ arm' = arm \/ arm' = [arm EXCEPT !.mode = "send_now"]
        /\ UNCHANGED <<running, notes, suppressed, rewindable, pin, buffer, completions, turn,
                       answered>>
    BY DEF SendQueuedNow, turnVars, Broadcast, Receiving, Idle
  <1>. QED
    BY <1>1, SentNowQueue, RearrangeStep, InvTyped

\* The prompts a client names for a reorder.
LEMMA OrderNames ==
  ASSUME NEW S \in SUBSET UserPrompts, NEW order \in SetToSeqs(S)
  PROVE  order \in Seq(UserPrompts) /\ Distinct(order)
  <1>1. IsFiniteSet(S)
    BY QueueAssumption, FS_Subset
  <1>2. Cardinality(S) \in Nat
    BY <1>1, FS_CardinalityType
  <1>3. /\ order \in [1..Cardinality(S) -> S]
        /\ \A i, j \in 1..Cardinality(S) : i # j => order[i] # order[j]
    BY DEF SetToSeqs
  <1>4. order \in Seq(UserPrompts) /\ Len(order) = Cardinality(S)
    BY <1>2, <1>3
  <1>. QED
    BY <1>3, <1>4 DEF Distinct

\* Reordering the rows moves them, whatever ids a client names.
LEMMA OrderedQueue ==
  ASSUME Inv, ReorderStep
  PROVE  QueueOK(queue') /\ Fronted(queue') /\ Ids(queue') = Ids(queue)
  <1>1. PICK S \in SUBSET UserPrompts : \E order \in SetToSeqs(S) : ReorderQueue(order)
    BY DEF ReorderStep
  <1>2. PICK order \in SetToSeqs(S) : ReorderQueue(order)
    BY <1>1
  <1>3. order \in Seq(UserPrompts) /\ Distinct(order)
    BY OrderNames
  <1>4. queue' = Reordered(queue, order)
    BY <1>2 DEF ReorderQueue
  <1>. QED
    BY <1>3, <1>4, QueueHolds, ReorderedQueue

\* Reordering the rows.
LEMMA ReorderStepOK ==
  ASSUME Inv, ReorderStep
  PROVE  Inv'
  <1>1. /\ pc' = pc /\ wire' = QueueWire(queue', running)
        /\ UNCHANGED <<running, notes, suppressed, rewindable, pin, buffer, completions, turn, arm,
                       answered>>
    BY DEF ReorderStep, ReorderQueue, turnVars, Broadcast
  <1>. QED
    BY <1>1, OrderedQueue, RearrangeStep, InvTyped

\* Clearing the rows of one client or of all.
LEMMA ClearStep ==
  ASSUME Inv, NEW o, ClearQueue(o)
  PROVE  Inv'
  <1> DEFINE cleared == {u \in UserPrompts : o \in {None, OwnerOf[u]}}
  <1>1. /\ pc' = pc /\ wire' = QueueWire(queue', running)
        /\ UNCHANGED <<running, notes, suppressed, rewindable, pin, buffer, completions, turn, arm>>
        /\ queue' = Swept(queue, cleared)
        /\ Answer((Ids(queue) \intersect cleared) \ {running})
    BY DEF ClearQueue, turnVars, Broadcast
  <1> HIDE DEF cleared
  <1>2. QueueOK(queue') /\ Ids(queue') \subseteq Ids(queue) /\ Fronted(queue')
    BY <1>1, QueueHolds, SweptQueue
  <1>3. answered' \subseteq UserPrompts
    BY <1>1 DEF Answer, Inv, TypeOK
  <1>. QED
    BY <1>1, <1>2, <1>3, RearrangeStep, InvTyped

\* Pending notifications that are filtered stay within their limit.
LEMMA KeptNotes ==
  ASSUME Inv, NEW S
  PROVE  /\ Kept(notes, S) \in Seq(Notes) /\ Len(Kept(notes, S)) <= MaxNotes
         /\ ToSet(Kept(notes, S)) \subseteq ToSet(notes)
  <1> DEFINE k == Kept(notes, S)
  <1>1. notes \in Seq(Notes) /\ Len(notes) <= MaxNotes /\ MaxNotes \in Nat
    BY QueueAssumption DEF Inv, TypeOK
  <1>2. k \in Seq(Notes) /\ ToSet(k) = ToSet(notes) \intersect S /\ Len(k) <= Len(notes)
    BY <1>1, KeptElements
  <1> HIDE DEF k
  <1>3. Len(k) \in Nat /\ Len(notes) \in Nat
    BY <1>1, <1>2
  <1>. QED
    BY <1>1, <1>2, <1>3 DEF k

\* Dropping the notifications of a monitor.
LEMMA DropStep ==
  ASSUME Inv, NEW n, DropMonitorNotifications(n)
  PROVE  Inv'
  <1>1. /\ pc' = pc /\ notes' = Kept(notes, Notes \ {n})
        /\ UNCHANGED <<queue, running, suppressed, rewindable, pin, buffer, completions, turn, wire,
                       arm, answered>>
    BY DEF DropMonitorNotifications, turnVars
  <1>2. QueueOK(queue') /\ Fronted(queue') /\ Ids(queue') \subseteq Ids(queue)
    BY <1>1, QueueHolds
  <1>. QED
    BY <1>1, <1>2, KeptNotes, RearrangeStep, InvTyped

\* A tool result that consumes a queued wake or a pending notification.
LEMMA ConsumeStep ==
  ASSUME Inv, NEW p, NEW c, ConsumeCompletion(p, c)
  PROVE  Inv'
  <1>1. /\ pc' = pc /\ notes' = Kept(notes, Notes \ {c})
        /\ queue' = Swept(queue, Wakes \intersect {c})
        /\ UNCHANGED <<running, suppressed, rewindable, pin, buffer, completions, turn, wire,
                       arm, answered>>
    BY DEF ConsumeCompletion, turnVars
  <1>2. QueueOK(queue') /\ Fronted(queue') /\ Ids(queue') \subseteq Ids(queue)
    BY <1>1, QueueHolds, SweptQueue
  <1>. QED
    BY <1>1, <1>2, KeptNotes, RearrangeStep, InvTyped

\* An interjection goes to the buffer of a turn that has a pin, or becomes a
\* prompt at once.
LEMMA InterjectStep ==
  ASSUME Inv, NEW i \in Interjections, Interject(i)
  PROVE  Inv'
  <1>1. i \in Prompts /\ i \notin Queued /\ Unused(i)
    BY UnusedFacts DEF Interject, Prompts
  <1>2. /\ pc = "idle"
        /\ UNCHANGED <<running, notes, suppressed, rewindable, pin, completions, turn, wire, arm,
                       answered>>
        /\ \/ pin # None /\ buffer' = Append(buffer, i) /\ queue' = queue /\ pc' = pc
           \/ queue' = AsPrompt(queue, i) /\ pc' = "start" /\ buffer' = buffer
    BY DEF Interject, Receiving, Idle
  <1>3. /\ Keeping /\ Queued' \subseteq Queued \union {i}
        /\ \/ pc' = pc /\ arm' = arm
           \/ pc' = "start"
    <2>1. CASE pin # None /\ buffer' = Append(buffer, i) /\ queue' = queue /\ pc' = pc
      <3>1. /\ buffer \in Seq(Interjections) /\ Len(buffer) \in Nat /\ DOMAIN buffer = 1..Len(buffer)
            /\ \A j, k \in 1..Len(buffer) : buffer[j] = buffer[k] => j = k
        BY InvTyped DEF Inv, Placed, Separate, Distinct
      <3>2. /\ buffer' \in Seq(Interjections) /\ Len(buffer') = Len(buffer) + 1
            /\ DOMAIN buffer' = 1..(Len(buffer) + 1)
            /\ \A j \in 1..(Len(buffer) + 1) :
                 \/ j \in 1..Len(buffer) /\ buffer'[j] = buffer[j]
                 \/ j = Len(buffer) + 1 /\ buffer'[j] = i
        BY <2>1, <3>1
      <3>3. ToSet(buffer') \subseteq ToSet(buffer) \union {i}
        BY <3>1, <3>2 DEF ToSet
      <3>4. Distinct(buffer')
        <4>1. \A j \in 1..Len(buffer) : buffer[j] # i
          BY <1>1, <3>1 DEF Queued, ToSet
        <4>. QED
          BY <3>1, <3>2, <4>1 DEF Distinct
      <3>5. Separate'
        BY <1>1, <1>2, <2>1, <3>3, <3>4 DEF Inv, Placed, Separate, Queued
      <3>6. QueueOK(queue') /\ Fronted(queue')
        BY <2>1, QueueHolds
      <3>7. Backlog' /\ Buffered'
        BY <1>2, <2>1 DEF Inv, Placed, Owned, PinOwned, Backlog, Buffered
      <3>8. Keeping
        BY <1>2, <2>1, <3>2, <3>5, <3>6, <3>7, ArmTyped, InvTyped DEF Keeping
      <3>9. Queued' \subseteq Queued \union {i}
        BY <1>2, <2>1, <3>3 DEF Queued
      <3>. QED
        BY <1>2, <2>1, <3>8, <3>9
    <2>2. CASE queue' = AsPrompt(queue, i) /\ pc' = "start" /\ buffer' = buffer
      <3>1. QueueOK(queue') /\ Fronted(queue') /\ Ids(queue') = Ids(queue) \union {i}
        BY <1>1, <2>2, QueueHolds, AsPromptQueue DEF Queued
      <3>2. Separate'
        BY <1>1, <1>2, <2>2, <3>1 DEF Inv, Placed, Separate, Queued
      <3>3. Backlog' /\ Buffered'
        BY <1>2, <2>2 DEF Inv, Placed, Backlog, Buffered
      <3>4. Keeping
        BY <1>2, <2>2, <3>1, <3>2, <3>3, ArmTyped, InvTyped DEF Keeping, Phases
      <3>5. Queued' \subseteq Queued \union {i}
        BY <1>2, <2>2, <3>1 DEF Queued
      <3>. QED
        BY <2>2, <3>4, <3>5
    <2>. QED
      BY <1>2, <2>1, <2>2
  <1>4. \A q \in {i} : Unused(q)
    BY <1>1
  <1>5. \/ pc' = pc /\ arm' = arm
        \/ pc \notin {"complete", "tail"} /\ pc' \notin {"complete", "tail", "lock"}
    BY <1>2, <1>3
  <1>. QED
    BY <1>2, <1>3, <1>4, <1>5, KeepingStep

\* An emptied interjection buffer.
LEMMA EmptyBuffer ==
  ASSUME buffer' = <<>>
  PROVE  buffer' \in Seq(Interjections) /\ ToSet(buffer') = {} /\ Distinct(buffer')
  BY DEF ToSet, Distinct

\* The running turn takes the interjections.
LEMMA DrainInterjectionsStep ==
  ASSUME Inv, NEW p, DrainInterjections(p)
  PROVE  Inv'
  <1>1. /\ buffer' = <<>> /\ pc' = pc
        /\ UNCHANGED <<queue, running, notes, suppressed, rewindable, pin, completions, turn, wire,
                       arm, answered>>
    BY DEF DrainInterjections, lockVars
  <1>2. Keeping
    <2>1. Separate'
      BY <1>1, EmptyBuffer DEF Inv, Placed, Separate
    <2>2. Backlog' /\ Buffered'
      BY <1>1 DEF Inv, Placed, Backlog, Buffered
    <2>3. QueueOK(queue') /\ Fronted(queue')
      BY <1>1, QueueHolds
    <2>. QED
      BY <1>1, <2>1, <2>2, <2>3, EmptyBuffer, ArmTyped, InvTyped DEF Keeping
  <1> DEFINE X == {}
  <1>3. Queued' \subseteq Queued \union X /\ \A q \in X : Unused(q)
    BY <1>1, EmptyBuffer DEF Queued
  <1> HIDE DEF X
  <1>. QED
    BY <1>1, <1>2, <1>3, KeepingStep

\* The end of a completion: stranded interjections become prompts, and an
\* active goal queues its next turn.
LEMMA FlushStrandedStep ==
  ASSUME Inv, NEW goal \in Summaries \union {None}, FlushStranded(goal)
  PROVE  Inv'
  <1>1. /\ pc = "flush" /\ pc' = "finish" /\ buffer' = <<>> /\ arm' = Rested
        /\ queue' = Flushed(goal)
        /\ rewindable' = (rewindable /\ arm.prompt = None)
        /\ UNCHANGED <<running, notes, suppressed, pin, completions, turn, wire, answered>>
        /\ goal # None => Unused(goal)
    BY DEF FlushStranded, Flushed
  <1> DEFINE X == {goal} \ {None}
  <1>2. \A q \in X : Unused(q) /\ q \notin Queued
    BY <1>1 DEF Unused, Queued
  <1>3. /\ QueueOK(queue') /\ Fronted(queue')
        /\ Ids(queue') = Ids(queue) \union ToSet(buffer) \union X
    <2>1. /\ buffer \in Seq(Interjections) /\ Distinct(buffer)
          /\ ToSet(buffer) \intersect Ids(queue) = {}
      BY InvTyped DEF Inv, Placed, Separate
    <2>2. goal # None => goal \notin Ids(queue) \union ToSet(buffer)
      BY <1>2 DEF Queued
    <2>. QED
      BY <1>1, <2>1, <2>2, QueueHolds, FlushedQueue
  <1> HIDE DEF X
  <1>4. Keeping
    <2>1. Separate'
      BY <1>1, <1>2, <1>3, EmptyBuffer DEF Inv, Placed, Separate, Queued
    <2>2. Backlog' /\ Buffered'
      BY <1>1 DEF Backlog, Buffered
    <2>. QED
      BY <1>1, <1>3, <2>1, <2>2, EmptyBuffer, ArmTyped, InvTyped DEF Keeping, Phases
  <1>5. Queued' \subseteq Queued \union X
    BY <1>1, <1>3, EmptyBuffer DEF Queued
  <1>6. /\ pc \notin {"complete", "tail"} /\ pc' \notin {"complete", "tail", "lock"}
        /\ rewindable' => rewindable
    BY <1>1, InvTyped
  <1>. QED
    BY <1>1, <1>2, <1>4, <1>5, <1>6, KeepingStep

\* Pending notifications become one prompt when the session is idle.
LEMMA DrainNotificationsStep ==
  ASSUME Inv, NEW dropped, DrainNotifications(dropped)
  PROVE  Inv'
  <1>1. /\ pc = "drain" /\ pc' \in {"idle", "start"}
        /\ UNCHANGED <<running, suppressed, rewindable, pin, buffer, completions, turn, wire, arm,
                       answered>>
        /\ \/ notes' = notes /\ queue' = queue /\ pc' = "idle"
           \/ notes' = <<>> /\ queue' = queue /\ pc' = "idle"
           \/ notes # <<>> /\ notes' = <<>> /\ queue' = Append(queue, Item(notes[1])) /\ pc' = "start"
    BY DEF DrainNotifications, turnVars
  <1>2. /\ notes' \in Seq(Notes) /\ Len(notes') <= MaxNotes
        /\ ToSet(notes') \subseteq ToSet(notes)
        /\ notes' = <<>> => ToSet(notes') = {}
    <2>1. <<>> \in Seq(Notes) /\ Len(<<>>) = 0 /\ ToSet(<<>>) = {}
      BY DEF ToSet
    <2>2. CASE notes' = notes /\ notes # <<>>
      BY <2>2, InvTyped
    <2>3. CASE notes' = <<>>
      BY <2>1, <2>3, InvTyped
    <2>. QED
      BY <1>1, <2>2, <2>3
  <1>3. /\ QueueOK(queue') /\ Fronted(queue')
        /\ \/ queue' = queue
           \/ /\ pc' = "start" /\ notes' = <<>> /\ notes[1] \in ToSet(notes)
              /\ Ids(queue') = Ids(queue) \union {notes[1]}
    <2>1. CASE queue' = queue
      BY <2>1, QueueHolds
    <2>2. CASE /\ notes # <<>> /\ notes' = <<>> /\ pc' = "start"
               /\ queue' = Append(queue, Item(notes[1]))
      <3>1. notes[1] \in ToSet(notes) /\ notes[1] \in Prompts
        BY <2>2, InvTyped DEF ToSet, Prompts, Synthetic
      <3>2. notes[1] \notin Ids(queue)
        BY <3>1 DEF Inv, Placed, Separate
      <3>. QED
        BY <2>2, <3>1, <3>2, QueueHolds, AppendNew
    <2>. QED
      BY <1>1, <2>1, <2>2
  <1>4. Keeping
    <2>1. Separate'
      BY <1>1, <1>2, <1>3 DEF Inv, Placed, Separate
    <2>2. Backlog' /\ Buffered'
      BY <1>1, <1>3 DEF Inv, Placed, Backlog, Buffered
    <2>. QED
      BY <1>1, <1>2, <1>3, <2>1, <2>2, ArmTyped, InvTyped DEF Keeping, Phases
  <1> DEFINE X == {}
  <1>5. Queued' \subseteq Queued \union X /\ \A q \in X : Unused(q)
    BY <1>1, <1>2, <1>3 DEF Queued
  <1>6. pc \notin {"complete", "tail"} /\ pc' \notin {"complete", "tail", "lock"}
    BY <1>1
  <1> HIDE DEF X
  <1>. QED
    BY <1>1, <1>4, <1>5, <1>6, KeepingStep

-----------------------------------------------------------------------------
(* What starts a turn.                                                     *)

\* A prompt starts, if none runs: the queue may have grown by X before.
LEMMA StartStep ==
  ASSUME Inv, QueueOK(queue'), Fronted(queue'), MaybeStart(queue'),
         NEW X, X \subseteq Prompts, \A p \in X : Unused(p),
         Ids(queue') = Ids(queue) \union X,
         UNCHANGED <<notes, suppressed, buffer, completions, arm, answered>>,
         \/ pc' = pc /\ pc # "idle"
         \/ pc' \in {"idle", "drain"} /\ pc \notin {"lock", "tail", "begin", "complete", "flush"}
  PROVE  Inv'
  <1>1. \A p \in X : p \notin Queued /\ p \notin ToSet(completions) /\ turn[p] = "none"
                     /\ p # arm.prompt /\ p # arm.victim
    BY DEF Unused, Queued
  <1>2. Separate'
    BY <1>1 DEF Inv, Placed, Separate, Queued
  <1>3. None \notin Prompts /\ running \in Prompts \union {None}
        /\ pin \in Prompts \union {None}
        /\ turn \in [Prompts -> {"none", "fresh", "open", "ended"}]
    BY TypeFacts DEF Inv, TypeOK
  <1>4. CASE UNCHANGED <<running, rewindable, pin, turn>> /\ (running # None \/ queue' = <<>>)
    <2>1. Keeping
      <3>1. Backlog' /\ Buffered'
        BY <1>4 DEF Inv, Placed, Backlog, Buffered
      <3>2. wire' = wire \/ wire' = QueueWire(queue', running)
        BY <1>4 DEF MaybeStart, Broadcast
      <3>. QED
        BY <1>2, <1>4, <3>1, <3>2, ArmTyped, InvTyped DEF Keeping, Phases
    <2>2. Queued' \subseteq Queued \union X
      BY DEF Queued
    <2>. QED
      BY <1>4, <2>1, <2>2, KeepingStep
  <1>5. CASE /\ running = None /\ queue' # <<>>
             /\ running' = queue'[1].id /\ pin' = running' /\ rewindable' = TRUE
             /\ turn' = [turn EXCEPT ![running'] = "fresh"]
             /\ wire' = QueueWire(queue', running')
    <2> DEFINE r == queue'[1].id
    <2>1. r \in Ids(queue') /\ r \in Prompts /\ running' = r
      <3>1. 1 \in 1..Len(queue')
        BY <1>5, QueueFacts
      <3>. QED
        BY <1>5, <3>1, QueueFacts
    <2> HIDE DEF r
    <2>2. /\ r \notin ToSet(completions) /\ turn[r] = "none"
          /\ pc = "complete" => r # arm.prompt
          /\ pc = "tail" => r # arm.victim
      <3>1. CASE r \in X
        BY <1>1, <3>1
      <3>2. CASE r \in Ids(queue)
        BY <1>3, <1>5, <2>1, <3>2 DEF Inv, Owned, Untouched, Queued
      <3>. QED
        BY <2>1, <3>1, <3>2
    <2>3. turn' = [turn EXCEPT ![r] = "fresh"] /\ running' = r /\ pin' = r /\ r # None
      BY <1>3, <1>5, <2>1
    <2>4. turn'[r] = "fresh" /\ \A p \in Prompts : p # r => turn'[p] = turn[p]
      BY <1>3, <2>1, <2>3
    <2>5. TypeOK'
      <3>1. turn' \in [Prompts -> {"none", "fresh", "open", "ended"}]
        BY <1>3, <2>3
      <3>. QED
        BY <1>3, <1>5, <2>1, <2>3, <3>1, QueueTyped, WireTyped DEF Inv, TypeOK, Phases
    <2>6. Placed'
      <3>1. RunningIsFront'
        BY <1>5 DEF RunningIsFront
      <3>2. Backlog' /\ Buffered'
        BY <2>3 DEF Inv, Placed, Backlog, Buffered
      <3>. QED
        BY <1>2, <3>1, <3>2 DEF Placed
    <2>7. Owned'
      <3>1. RunningIsLive'
        BY <2>3, <2>4 DEF RunningIsLive
      <3>2. TurnsOwned'
        BY <1>5, <2>3, <2>4, <1>3 DEF Inv, Owned, TurnsOwned
      <3>3. CompletedOnce'
        <4>1. ToSet(completions) \subseteq Prompts
          BY TypeFacts DEF Inv
        <4>. QED
          BY <2>2, <2>3, <2>4, <4>1 DEF Inv, Owned, CompletedOnce
      <3>4. Untouched'
        <4>1. Queued' \subseteq Queued \union X
          BY DEF Queued
        <4>2. Queued \subseteq Prompts
          BY TypeFacts DEF Inv
        <4>3. \A p \in Queued' : p # r =>
                /\ turn'[p] = "none" /\ p \notin ToSet(completions)
                /\ pc = "complete" => p # arm.prompt
          BY <1>1, <1>3, <1>5, <2>4, <4>1, <4>2 DEF Inv, Owned, Untouched
        <4>4. pc = "tail" => arm.victim \notin Queued'
          BY <1>1, <4>1 DEF Inv, Owned, Untouched
        <4>. QED
          BY <2>3, <4>3, <4>4 DEF Untouched
      <3>5. PinOwned'
        <4>1. pc = "lock" => arm.snap = None
          BY <1>3, <1>5 DEF Inv, Owned, PinOwned
        <4>. QED
          BY <2>3, <4>1 DEF PinOwned
      <3>6. Pristine'
        BY <2>3, <2>4 DEF Pristine
      <3>. QED
        BY <3>1, <3>2, <3>3, <3>4, <3>5, <3>6 DEF Owned
    <2>. QED
      BY <2>5, <2>6, <2>7 DEF Inv
  <1>6. <1>4!1 \/ <1>5!1
    BY DEF MaybeStart, Broadcast
  <1>. QED
    BY <1>4, <1>5, <1>6

\* The start at the end of an arm: what waited for it starts.
LEMMA ActorStartStep ==
  ASSUME Inv, ActorStart
  PROVE  Inv'
  <1>1. /\ pc \in {"start", "finish"} /\ MaybeStart(queue) /\ queue' = queue
        /\ pc' \in {"idle", "drain"}
        /\ UNCHANGED <<notes, suppressed, buffer, completions, arm, answered>>
    BY DEF ActorStart
  <1> DEFINE X == {}
  <1>2. X \subseteq Prompts /\ (\A p \in X : Unused(p)) /\ Ids(queue') = Ids(queue) \union X
    BY <1>1
  <1> HIDE DEF X
  <1>. QED
    BY <1>1, <1>2, QueueHolds, StartStep

\* The start after the MCP initialisation, at any moment of the actor.
LEMMA McpStartStep ==
  ASSUME Inv, McpStart
  PROVE  Inv'
  <1>1. /\ MaybeStart(queue) /\ queue' = queue /\ pc' = pc /\ running = None /\ queue # <<>>
        /\ UNCHANGED <<notes, suppressed, buffer, completions, arm, answered>>
    BY DEF McpStart
  <1>2. pc # "idle"
    BY <1>1 DEF Inv, Placed, Backlog
  <1> DEFINE X == {}
  <1>3. X \subseteq Prompts /\ (\A p \in X : Unused(p)) /\ Ids(queue') = Ids(queue) \union X
    BY <1>1
  <1> HIDE DEF X
  <1>. QED
    BY <1>1, <1>2, <1>3, QueueHolds, StartStep

\* A resumed plan approval queues its prompt and starts it from its own task.
LEMMA PlanResumedStep ==
  ASSUME Inv, NEW p \in PlanResumes, PlanResumed(p)
  PROVE  Inv'
  <1>1. p \in Prompts /\ p \notin Ids(queue) /\ Unused(p)
    BY DEF PlanResumed, Prompts, Synthetic, Unused
  <1>2. /\ MaybeStart(queue') /\ queue' = Append(queue, Item(p)) /\ pc' = pc
        /\ UNCHANGED <<notes, suppressed, buffer, completions, arm, answered>>
    BY DEF PlanResumed
  <1>3. QueueOK(queue') /\ Fronted(queue') /\ Ids(queue') = Ids(queue) \union {p}
    BY <1>1, <1>2, QueueHolds, AppendNew
  <1>4. {p} \subseteq Prompts /\ \A q \in {p} : Unused(q)
    BY <1>1
  <1>5. \/ pc' = pc /\ pc # "idle"
        \/ pc' \in {"idle", "drain"} /\ pc \notin {"lock", "tail", "begin", "complete", "flush"}
    BY <1>2
  <1>. QED
    BY <1>2, <1>3, <1>4, <1>5, StartStep

-----------------------------------------------------------------------------
(* The cancels.                                                            *)

\* A cancel, and the cancel of a send-now, empty the buffer and read the pin.
LEMMA CancelBegins ==
  ASSUME Inv, CancelForSendNow \/ \E mode \in {"keep", "rewind", "teardown"} : Cancel(mode)
  PROVE  Inv'
  <1>1. /\ pc \in {"idle", "begin"} /\ pc' = "lock" /\ buffer' = <<>>
        /\ UNCHANGED <<queue, running, notes, suppressed, rewindable, pin, completions, turn, wire,
                       answered>>
    BY DEF CancelForSendNow, Cancel, lockVars, Receiving, Idle
  <1>a. \E mode \in Modes : arm' = [arm EXCEPT !.mode = mode, !.snap = pin]
    <2>1. CASE CancelForSendNow
      <3>1. arm' = [arm EXCEPT !.mode = arm.mode, !.snap = pin] /\ arm.mode \in Modes
        BY <2>1, ArmTyped DEF CancelForSendNow
      <3>. QED
        BY <3>1
    <2>2. CASE \E mode \in {"keep", "rewind", "teardown"} : Cancel(mode)
      BY <2>2 DEF Cancel, Modes
    <2>. QED
      BY <2>1, <2>2
  <1>2. arm'.snap = pin /\ arm' \in [prompt : Prompts \union {None}, mode : Modes,
                                    snap : Prompts \union {None}, victim : Prompts \union {None},
                                    settle : SUBSET Prompts]
    BY <1>1, <1>a, ArmTyped DEF Inv, TypeOK
  <1>3. TypeOK'
    BY <1>1, <1>2, EmptyBuffer DEF Inv, TypeOK, Phases
  <1>4. Placed'
    <2>1. Separate'
      BY <1>1, EmptyBuffer DEF Inv, Placed, Separate
    <2>. QED
      BY <1>1, <2>1 DEF Inv, Placed, RunningIsFront, Backlog, Buffered
  <1>5. Owned'
    <2>1. RunningIsLive' /\ TurnsOwned' /\ CompletedOnce' /\ Pristine'
      BY <1>1 DEF Inv, Owned, RunningIsLive, TurnsOwned, CompletedOnce, Pristine
    <2>2. Queued' \subseteq Queued
      BY <1>1, EmptyBuffer DEF Queued
    <2>3. Untouched'
      BY <1>1, <2>2 DEF Inv, Owned, Untouched
    <2>4. PinOwned'
      BY <1>1, <1>2 DEF Inv, Owned, PinOwned
    <2>. QED
      BY <2>1, <2>3, <2>4 DEF Owned
  <1>. QED
    BY <1>3, <1>4, <1>5 DEF Inv

\* A cancel or a completion takes the front out of the queue: the running
\* prompt, if one runs. The rest waits on.
LEMMA FrontTaken ==
  ASSUME Inv, queue' = Tail(queue), queue # <<>>
  PROVE  /\ QueueOK(queue') /\ Ids(queue') \subseteq Ids(queue) \ {running}
         /\ Ids(queue) \ Ids(queue') = {queue[1].id}
         /\ queue[1].id \in Prompts
         /\ running # None => queue[1].id = running
  <1>1. QueueOK(queue) /\ 1 \in 1..Len(queue)
    BY QueueHolds, QueueFacts
  <1>2. QueueOK(queue') /\ Ids(queue') = Ids(queue) \ {queue[1].id}
    BY <1>1, TailQueue
  <1>3. queue[1].id \in Prompts /\ queue[1].id \in Ids(queue)
    BY <1>1, QueueFacts
  <1>4. running # None => queue[1].id = running
    BY DEF Inv, Placed, RunningIsFront
  <1>5. None \notin Ids(queue)
    BY TypeFacts DEF Inv
  <1>. QED
    BY <1>2, <1>3, <1>4, <1>5

\* A pristine turn is taken back in one lock section: aborted and popped.
LEMMA CancelRewindsStep ==
  ASSUME Inv, CancelRewinds
  PROVE  Inv'
  <1>1. /\ pc = "lock" /\ pc' = "tail" /\ queue # <<>> /\ queue' = Tail(queue) /\ running' = None
        /\ turn' = IF running = None THEN turn ELSE [turn EXCEPT ![running] = "none"]
        /\ suppressed' = FALSE /\ rewindable' = FALSE
        /\ arm' = [Resting EXCEPT !.mode = "rewind", !.settle = {queue[1].id}]
        /\ UNCHANGED <<notes, pin, buffer, completions, wire, answered>>
    BY DEF CancelRewinds, Abort
  <1>2. /\ QueueOK(queue') /\ Ids(queue') \subseteq Ids(queue) \ {running}
        /\ queue[1].id \in Prompts
    BY <1>1, FrontTaken
  <1>3. /\ None \notin Prompts /\ Queued \subseteq Prompts /\ ToSet(completions) \subseteq Prompts
        /\ turn \in [Prompts -> {"none", "fresh", "open", "ended"}]
        /\ running \in Prompts \union {None}
    BY TypeFacts DEF Inv, TypeOK
  <1>4. \A p \in Prompts : turn'[p] = IF p = running THEN "none" ELSE turn[p]
    BY <1>1, <1>3
  <1>5. TypeOK'
    <2>1. arm' \in [prompt : Prompts \union {None}, mode : Modes, snap : Prompts \union {None},
                    victim : Prompts \union {None}, settle : SUBSET Prompts]
      BY <1>1, <1>2 DEF Resting, Modes
    <2>2. turn' \in [Prompts -> {"none", "fresh", "open", "ended"}]
      BY <1>1, <1>3
    <2>3. queue' \in Seq(Items) /\ IsInjective([i \in DOMAIN queue' |-> queue'[i].id])
      BY <1>2, QueueTyped
    <2>4. /\ pc' \in Phases /\ running' \in Prompts \union {None}
          /\ {suppressed', rewindable'} \subseteq BOOLEAN
          /\ UNCHANGED <<notes, pin, buffer, completions, wire, answered>>
      BY <1>1 DEF Phases
    <2>. QED
      BY <2>1, <2>2, <2>3, <2>4 DEF Inv, TypeOK
  <1>6. Placed'
    <2>1. Separate'
      BY <1>1, <1>2 DEF Inv, Placed, Separate
    <2>. QED
      BY <1>1, <2>1 DEF Inv, Placed, RunningIsFront, Backlog, Buffered
  <1>7. \A p \in Prompts : turn'[p] = "none"
    BY <1>1, <1>4 DEF Inv, Owned, TurnsOwned
  <1>8. Queued' \subseteq Queued \ {running}
    <2>1. buffer = <<>> /\ ToSet(notes) \intersect Ids(queue) = {}
      BY <1>1 DEF Inv, Placed, Buffered, Separate
    <2>2. running # None => running \in Ids(queue)
      BY QueueHolds, QueueFacts, <1>1 DEF Fronted
    <2>3. ToSet(buffer) = {} /\ None \notin ToSet(notes)
      BY <1>3, <2>1 DEF ToSet, Queued
    <2>. QED
      BY <1>1, <1>2, <1>3, <2>1, <2>2, <2>3 DEF Queued
  <1>9. Owned'
    <2>1. arm'.victim = None /\ None \notin Queued'
      BY <1>1, <1>3, <1>8 DEF Resting
    <2>2. RunningIsLive' /\ TurnsOwned' /\ Pristine'
      BY <1>1, <1>7 DEF RunningIsLive, TurnsOwned, Pristine
    <2>3. CompletedOnce'
      BY <1>1, <1>3, <1>7 DEF CompletedOnce
    <2>4. Untouched'
      BY <1>1, <1>3, <1>7, <1>8, <2>1 DEF Inv, Owned, Untouched
    <2>5. PinOwned'
      BY <1>1 DEF PinOwned
    <2>. QED
      BY <2>2, <2>3, <2>4, <2>5 DEF Owned
  <1>. QED
    BY <1>5, <1>6, <1>9 DEF Inv

\* An emptied queue.
LEMMA NobodyWaits ==
  ASSUME queue' = <<>>
  PROVE  QueueOK(queue') /\ Ids(queue') = {}
  BY DEF QueueOK, Ids

\* The lock section of a cancel: index 0 goes, and its task becomes the victim
\* that no prompt of the queue belongs to.
LEMMA CancelTakesStep ==
  ASSUME Inv, CancelTakes
  PROVE  Inv'
  <1>1. /\ pc = "lock" /\ pc' = "tail" /\ running' = None
        /\ rewindable' = (rewindable /\ arm.mode # "rewind") /\ suppressed' = TRUE
        /\ queue' = <<>> \/ (queue # <<>> /\ queue' = Tail(queue))
        /\ notes' = <<>> \/ notes' = notes
        /\ UNCHANGED <<turn, pin, buffer, completions, wire, answered>>
    BY DEF CancelTakes, turnVars
  <1>2. arm' = [arm EXCEPT !.victim = running, !.settle = Ids(queue) \ Ids(queue'),
                          !.prompt = IF running # None THEN running ELSE arm.snap,
                          !.snap = None]
    BY DEF CancelTakes
  <1>3. QueueOK(queue') /\ Ids(queue') \subseteq Ids(queue) \ {running}
    BY <1>1, FrontTaken, NobodyWaits
  <1>4. /\ None \notin Prompts /\ Queued \subseteq Prompts /\ Ids(queue) \subseteq Prompts
        /\ running \in Prompts \union {None}
    BY TypeFacts DEF Inv, TypeOK
  <1>5. notes' \in Seq(Notes) /\ Len(notes') <= MaxNotes /\ ToSet(notes') \subseteq ToSet(notes)
    <2>1. <<>> \in Seq(Notes) /\ Len(<<>>) = 0 /\ ToSet(<<>>) = {}
      BY DEF ToSet
    <2>2. CASE notes' = notes
      BY <2>2, InvTyped
    <2>3. CASE notes' = <<>>
      BY <2>1, <2>3, InvTyped
    <2>. QED
      BY <1>1, <2>2, <2>3
  <1>6. TypeOK'
    <2>1. arm' \in [prompt : Prompts \union {None}, mode : Modes, snap : Prompts \union {None},
                    victim : Prompts \union {None}, settle : SUBSET Prompts]
      BY <1>2, <1>4, ArmTyped
    <2>2. queue' \in Seq(Items) /\ IsInjective([i \in DOMAIN queue' |-> queue'[i].id])
      BY <1>3, QueueTyped
    <2>3. /\ pc' \in Phases /\ running' \in Prompts \union {None}
          /\ {suppressed', rewindable'} \subseteq BOOLEAN
      BY <1>1, InvTyped DEF Phases
    <2>. QED
      BY <1>1, <1>5, <2>1, <2>2, <2>3 DEF Inv, TypeOK
  <1>7. buffer = <<>> /\ ToSet(buffer) = {} /\ ToSet(notes) \intersect Ids(queue) = {}
    BY <1>1 DEF Inv, Placed, Buffered, Separate, ToSet
  <1>8. Placed'
    <2>1. Separate'
      BY <1>1, <1>3, <1>5 DEF Inv, Placed, Separate
    <2>. QED
      BY <1>1, <1>7, <2>1 DEF Placed, RunningIsFront, Backlog, Buffered
  <1>9. Queued' \subseteq Queued \ {running}
    <2>1. running # None => running \in Ids(queue)
      BY QueueHolds, QueueFacts DEF Fronted
    <2>. QED
      BY <1>1, <1>3, <1>4, <1>5, <1>7, <2>1 DEF Queued
  <1>10. arm'.victim = running
    BY <1>2, ArmTyped
  <1>11. Owned'
    <2>1. RunningIsLive' /\ Pristine'
      BY <1>1 DEF RunningIsLive, Pristine
    <2>2. TurnsOwned'
      BY <1>1, <1>10 DEF Inv, Owned, TurnsOwned
    <2>3. CompletedOnce'
      BY <1>1 DEF Inv, Owned, CompletedOnce
    <2>4. Untouched'
      BY <1>1, <1>9, <1>10 DEF Inv, Owned, Untouched
    <2>5. PinOwned'
      BY <1>1 DEF PinOwned
    <2>. QED
      BY <2>1, <2>2, <2>3, <2>4, <2>5 DEF Owned
  <1>. QED
    BY <1>6, <1>8, <1>11 DEF Inv

\* The tail of a cancel aborts the victim, not a prompt that another task has
\* started meanwhile.
LEMMA CancelTailStep ==
  ASSUME Inv, CancelTail
  PROVE  Inv'
  <1> DEFINE victim == arm.victim
  <1>1. /\ pc = "tail" /\ pc' = "start" /\ pin' = None /\ arm' = Rested
        /\ turn' = IF victim = None THEN turn ELSE [turn EXCEPT ![victim] = "none"]
        /\ rewindable' = (rewindable /\ arm.prompt = None)
        /\ suppressed' = (suppressed /\ arm.mode # "send_now")
        /\ UNCHANGED <<queue, running, notes, buffer, completions, wire>>
        /\ answered' \subseteq UserPrompts
    BY InvTyped DEF CancelTail, Abort, Answer
  <1>2. /\ None \notin Prompts /\ Queued \subseteq Prompts /\ ToSet(completions) \subseteq Prompts
        /\ turn \in [Prompts -> {"none", "fresh", "open", "ended"}]
        /\ running \in Prompts \union {None} /\ victim \in Prompts \union {None}
    BY TypeFacts, ArmTyped DEF Inv, TypeOK
  <1>3. victim \notin Queued
    BY <1>1 DEF Inv, Owned, Untouched
  <1> HIDE DEF victim
  <1>4. \A p \in Prompts : turn'[p] = IF p = victim THEN "none" ELSE turn[p]
    BY <1>1, <1>2
  <1>5. Queued' = Queued
    BY <1>1 DEF Queued
  <1>6. running # None => running \in Queued
    <2>1. running # None => running \in Ids(queue)
      BY QueueHolds, QueueFacts DEF Fronted
    <2>. QED
      BY <2>1 DEF Queued
  <1>7. TypeOK'
    <2>1. turn' \in [Prompts -> {"none", "fresh", "open", "ended"}]
      BY <1>1, <1>2
    <2>2. /\ pc' \in Phases /\ {suppressed', rewindable'} \subseteq BOOLEAN
      BY <1>1, InvTyped DEF Phases
    <2>. QED
      BY <1>1, <2>1, <2>2, ArmTyped DEF Inv, TypeOK
  <1>8. Placed'
    BY <1>1 DEF Inv, Placed, RunningIsFront, Separate, Backlog, Buffered
  <1>9. Owned'
    <2>1. RunningIsLive'
      BY <1>1, <1>2, <1>3, <1>4, <1>6 DEF Inv, Owned, RunningIsLive
    <2>2. TurnsOwned'
      BY <1>1, <1>4 DEF Inv, Owned, TurnsOwned, victim
    <2>3. CompletedOnce'
      BY <1>1, <1>2, <1>4 DEF Inv, Owned, CompletedOnce
    <2>4. Untouched'
      BY <1>1, <1>2, <1>4, <1>5 DEF Inv, Owned, Untouched
    <2>5. PinOwned'
      BY <1>1 DEF PinOwned
    <2>6. Pristine'
      BY <1>1, <1>2, <1>3, <1>4, <1>6, InvTyped DEF Inv, Owned, Pristine
    <2>. QED
      BY <2>1, <2>2, <2>3, <2>4, <2>5, <2>6 DEF Owned
  <1>. QED
    BY <1>7, <1>8, <1>9 DEF Inv

-----------------------------------------------------------------------------
(* The turn tasks.                                                         *)

\* The first update of a turn closes the rewind window.
LEMMA FirstUpdateStep ==
  ASSUME Inv, NEW p \in Prompts, FirstUpdate(p)
  PROVE  Inv'
  <1>1. /\ turn[p] = "fresh" /\ turn' = [turn EXCEPT ![p] = "open"] /\ rewindable' = FALSE
        /\ UNCHANGED <<queue, running, notes, suppressed, pin, buffer, completions, wire, pc, arm,
                       answered>>
    BY DEF FirstUpdate
  <1>2. /\ None \notin Prompts /\ Queued \subseteq Prompts /\ ToSet(completions) \subseteq Prompts
        /\ turn \in [Prompts -> {"none", "fresh", "open", "ended"}]
        /\ running \in Prompts \union {None}
    BY TypeFacts DEF Inv, TypeOK
  <1>3. \A q \in Prompts : turn'[q] = IF q = p THEN "open" ELSE turn[q]
    BY <1>1, <1>2
  <1>4. TypeOK'
    <2>1. turn' \in [Prompts -> {"none", "fresh", "open", "ended"}]
      BY <1>1, <1>2
    <2>2. {suppressed', rewindable'} \subseteq BOOLEAN
      BY <1>1, InvTyped
    <2>. QED
      BY <1>1, <2>1, <2>2 DEF Inv, TypeOK
  <1>5. Placed'
    BY <1>1 DEF Inv, Placed, RunningIsFront, Separate, Backlog, Buffered
  <1>6. Owned'
    <2>1. RunningIsLive' /\ Pristine'
      BY <1>1, <1>2, <1>3 DEF Inv, Owned, RunningIsLive, Pristine
    <2>2. TurnsOwned'
      BY <1>1, <1>3 DEF Inv, Owned, TurnsOwned
    <2>3. CompletedOnce'
      BY <1>1, <1>2, <1>3 DEF Inv, Owned, CompletedOnce
    <2>4. Untouched'
      <3>1. Queued' = Queued
        BY <1>1 DEF Queued
      <3>. QED
        BY <1>1, <1>2, <1>3, <3>1 DEF Inv, Owned, Untouched
    <2>5. PinOwned'
      BY <1>1 DEF Inv, Owned, PinOwned
    <2>. QED
      BY <2>1, <2>2, <2>3, <2>4, <2>5 DEF Owned
  <1>. QED
    BY <1>4, <1>5, <1>6 DEF Inv

\* A turn ends, past its scope guard or before it has one.
LEMMA EndTurnStep ==
  ASSUME Inv, NEW p \in Prompts, EndTurn(p)
  PROVE  Inv'
  <1>1. /\ turn[p] \in {"fresh", "open"} /\ turn' = [turn EXCEPT ![p] = "ended"]
        /\ pin' \in {None, pin}
        /\ UNCHANGED <<queue, running, notes, suppressed, rewindable, buffer, completions, wire, pc,
                       arm, answered>>
    BY DEF EndTurn, Alive, lockVars
  <1>2. /\ None \notin Prompts /\ Queued \subseteq Prompts /\ ToSet(completions) \subseteq Prompts
        /\ turn \in [Prompts -> {"none", "fresh", "open", "ended"}]
        /\ running \in Prompts \union {None} /\ pin \in Prompts \union {None}
    BY TypeFacts DEF Inv, TypeOK
  <1>3. \A q \in Prompts : turn'[q] = IF q = p THEN "ended" ELSE turn[q]
    BY <1>1, <1>2
  <1>4. TypeOK'
    <2>1. turn' \in [Prompts -> {"none", "fresh", "open", "ended"}]
      BY <1>1, <1>2
    <2>2. pin' \in Prompts \union {None}
      BY <1>1, <1>2
    <2>. QED
      BY <1>1, <2>1, <2>2 DEF Inv, TypeOK
  <1>5. Placed'
    BY <1>1 DEF Inv, Placed, RunningIsFront, Separate, Backlog, Buffered
  <1>6. Owned'
    <2>1. RunningIsLive' /\ Pristine'
      BY <1>1, <1>2, <1>3 DEF Inv, Owned, RunningIsLive, Pristine
    <2>2. TurnsOwned'
      BY <1>1, <1>3 DEF Inv, Owned, TurnsOwned
    <2>3. CompletedOnce'
      BY <1>1, <1>2, <1>3 DEF Inv, Owned, CompletedOnce
    <2>4. Untouched'
      <3>1. Queued' = Queued
        BY <1>1 DEF Queued
      <3>. QED
        BY <1>1, <1>2, <1>3, <3>1 DEF Inv, Owned, Untouched
    <2>5. PinOwned'
      BY <1>1 DEF Inv, Owned, PinOwned
    <2>. QED
      BY <2>1, <2>2, <2>3, <2>4, <2>5 DEF Owned
  <1>. QED
    BY <1>4, <1>5, <1>6 DEF Inv

\* The completion of a turn enters the channel.
LEMMA SendCompletionStep ==
  ASSUME Inv, NEW p \in Prompts, SendCompletion(p)
  PROVE  Inv'
  <1>1. /\ turn[p] = "ended" /\ turn' = [turn EXCEPT ![p] = "none"]
        /\ completions' = Append(completions, p)
        /\ UNCHANGED <<queue, running, notes, suppressed, rewindable, pin, buffer, wire, pc, arm,
                       answered>>
    BY DEF SendCompletion, lockVars
  <1>2. /\ None \notin Prompts /\ Queued \subseteq Prompts /\ ToSet(completions) \subseteq Prompts
        /\ turn \in [Prompts -> {"none", "fresh", "open", "ended"}]
        /\ running \in Prompts \union {None} /\ completions \in Seq(Prompts)
    BY TypeFacts DEF Inv, TypeOK
  <1>3. \A q \in Prompts : turn'[q] = IF q = p THEN "none" ELSE turn[q]
    BY <1>1, <1>2
  <1>4. /\ completions' \in Seq(Prompts) /\ ToSet(completions') = ToSet(completions) \union {p}
        /\ \A q : Contains(completions, q) => Contains(completions', q)
        /\ Contains(completions', p)
    <2>1. /\ Len(completions) \in Nat /\ DOMAIN completions = 1..Len(completions)
          /\ completions' \in Seq(Prompts) /\ Len(completions') = Len(completions) + 1
          /\ DOMAIN completions' = 1..(Len(completions) + 1)
          /\ \A i \in 1..Len(completions) : completions'[i] = completions[i]
          /\ completions'[Len(completions) + 1] = p
      BY <1>1, <1>2
    <2>2. 1..(Len(completions) + 1) = 1..Len(completions) \union {Len(completions) + 1}
      BY <2>1
    <2>3. ToSet(completions') = ToSet(completions) \union {p}
      BY <2>1, <2>2 DEF ToSet
    <2>. QED
      BY <2>1, <2>2, <2>3 DEF Contains
  <1>5. TypeOK'
    <2>1. turn' \in [Prompts -> {"none", "fresh", "open", "ended"}]
      BY <1>1, <1>2
    <2>. QED
      BY <1>1, <1>4, <2>1 DEF Inv, TypeOK
  <1>6. Placed'
    BY <1>1 DEF Inv, Placed, RunningIsFront, Separate, Backlog, Buffered
  <1>7. Owned'
    <2>1. RunningIsLive' /\ Pristine'
      BY <1>1, <1>2, <1>3, <1>4 DEF Inv, Owned, RunningIsLive, Pristine
    <2>2. TurnsOwned'
      BY <1>1, <1>3 DEF Inv, Owned, TurnsOwned
    <2>3. CompletedOnce'
      BY <1>1, <1>2, <1>3, <1>4 DEF Inv, Owned, CompletedOnce
    <2>4. Untouched'
      <3>1. Queued' = Queued
        BY <1>1 DEF Queued
      <3>. QED
        BY <1>1, <1>2, <1>3, <1>4, <3>1 DEF Inv, Owned, Untouched
    <2>5. PinOwned'
      BY <1>1 DEF Inv, Owned, PinOwned
    <2>. QED
      BY <2>1, <2>2, <2>3, <2>4, <2>5 DEF Owned
  <1>. QED
    BY <1>5, <1>6, <1>7 DEF Inv

-----------------------------------------------------------------------------
(* The completion arm, the end, and the whole.                             *)

\* The actor takes a completion and clears the pin that is the prompt's own.
LEMMA TakeCompletionStep ==
  ASSUME Inv, TakeCompletion
  PROVE  Inv'
  <1> DEFINE p == completions[1]
  <1>1. /\ pc = "idle" /\ pc' = "complete" /\ completions # <<>> /\ completions' = Tail(completions)
        /\ pin' = IF pin = p THEN None ELSE pin
        /\ arm' = [arm EXCEPT !.prompt = p]
        /\ UNCHANGED <<queue, running, notes, suppressed, rewindable, buffer, turn, wire, answered>>
    BY DEF TakeCompletion, Idle, lockVars
  <1>2. /\ None \notin Prompts /\ Queued \subseteq Prompts /\ completions \in Seq(Prompts)
        /\ running \in Prompts \union {None} /\ pin \in Prompts \union {None}
    BY TypeFacts DEF Inv, TypeOK
  <1>3. /\ p \in Prompts /\ p \in ToSet(completions) /\ completions' \in Seq(Prompts)
        /\ ToSet(completions') \subseteq ToSet(completions)
        /\ \A q : Contains(completions, q) => q = p \/ Contains(completions', q)
    <2>1. /\ Len(completions) \in Nat /\ Len(completions) # 0
          /\ DOMAIN completions = 1..Len(completions)
          /\ completions' \in Seq(Prompts) /\ Len(completions') = Len(completions) - 1
          /\ DOMAIN completions' = 1..(Len(completions) - 1)
          /\ \A i \in 1..(Len(completions) - 1) :
               completions'[i] = completions[i + 1] /\ i + 1 \in 1..Len(completions)
      BY <1>1, <1>2
    <2>2. p \in Prompts /\ p \in ToSet(completions)
      BY <1>2, <2>1 DEF ToSet
    <2>3. ToSet(completions') \subseteq ToSet(completions)
      BY <2>1 DEF ToSet
    <2>4. ASSUME NEW i \in 1..Len(completions), i # 1
          PROVE  i - 1 \in 1..Len(completions') /\ completions'[i - 1] = completions[i]
      <3>1. i - 1 \in 1..(Len(completions) - 1) /\ (i - 1) + 1 = i
        BY <2>1, <2>4
      <3>. QED
        BY <2>1, <3>1
    <2>5. ASSUME NEW q, Contains(completions, q), q # p
          PROVE  Contains(completions', q)
      BY <2>4, <2>5 DEF Contains
    <2>. QED
      BY <2>1, <2>2, <2>3, <2>5
  <1> HIDE DEF p
  <1>4. arm'.prompt = p
    BY <1>1, ArmTyped
  <1>5. pin' # p /\ pin' \in {None, pin}
    BY <1>1, <1>2, <1>3
  <1>6. TypeOK'
    <2>1. arm' \in [prompt : Prompts \union {None}, mode : Modes, snap : Prompts \union {None},
                    victim : Prompts \union {None}, settle : SUBSET Prompts]
      BY <1>1, <1>3, ArmTyped
    <2>2. pc' \in Phases /\ pin' \in Prompts \union {None}
      BY <1>1, <1>2, <1>5 DEF Phases
    <2>. QED
      BY <1>1, <1>3, <2>1, <2>2 DEF Inv, TypeOK
  <1>7. Placed'
    BY <1>1 DEF Inv, Placed, RunningIsFront, Separate, Backlog, Buffered
  <1>8. Owned'
    <2>1. RunningIsLive'
      BY <1>1, <1>3, <1>4 DEF Inv, Owned, RunningIsLive
    <2>2. TurnsOwned' /\ Pristine'
      BY <1>1 DEF Inv, Owned, TurnsOwned, Pristine
    <2>3. CompletedOnce'
      BY <1>1, <1>3, <1>4, <1>5 DEF Inv, Owned, CompletedOnce
    <2>4. Untouched'
      <3>1. Queued' = Queued
        BY <1>1 DEF Queued
      <3>. QED
        BY <1>1, <1>3, <1>4, <3>1 DEF Inv, Owned, Untouched
    <2>5. PinOwned'
      BY <1>1, <1>5 DEF Inv, Owned, PinOwned
    <2>. QED
      BY <2>1, <2>2, <2>3, <2>4, <2>5 DEF Owned
  <1>. QED
    BY <1>6, <1>7, <1>8 DEF Inv

\* The front is the completed prompt's exactly when that prompt is running.
LEMMA OwnedIsRunning ==
  ASSUME Inv, pc = "complete"
  PROVE  /\ arm.prompt \in Prompts /\ turn[arm.prompt] = "none"
         /\ queue # <<>> /\ queue[1].id = arm.prompt => running = arm.prompt
         /\ running = arm.prompt =>
              queue # <<>> /\ queue[1].id = arm.prompt /\ pin = None
  <1>1. /\ arm.prompt \in Prompts /\ turn[arm.prompt] = "none" /\ pin # arm.prompt
    BY DEF Inv, Owned, CompletedOnce
  <1>2. queue # <<>> => queue[1].id \in Queued
    BY QueueHolds, QueueFacts DEF Queued
  <1>3. queue # <<>> /\ queue[1].id = arm.prompt => running = arm.prompt
    BY <1>1, <1>2 DEF Inv, Owned, Untouched
  <1>4. running = arm.prompt => queue # <<>> /\ queue[1].id = arm.prompt /\ pin = None
    BY <1>1, TypeFacts DEF Inv, Placed, Owned, RunningIsFront, PinOwned
  <1>. QED
    BY <1>1, <1>3, <1>4

\* The lock section of handle_completion: it frees the slot for the running
\* prompt, and leaves a stale completion without effect.
LEMMA CompleteStep ==
  ASSUME Inv, Complete
  PROVE  Inv'
  <1> DEFINE p == arm.prompt
             owned == queue # <<>> /\ queue[1].id = p
  <1>1. /\ pc = "complete" /\ pc' = "flush"
        /\ queue' = IF owned THEN Tail(queue) ELSE queue
        /\ running' = IF running = p \/ owned THEN None ELSE running
        /\ arm' = IF owned THEN arm ELSE Rested
        /\ wire' = wire \/ wire' = QueueWire(queue', running')
        /\ UNCHANGED <<notes, suppressed, rewindable, pin, buffer, completions, turn>>
    BY DEF Complete, Freed, Broadcast, turnVars
  <1>2. answered' \subseteq UserPrompts
    BY InvTyped DEF Complete, Answer
  <1>3. /\ p \in Prompts /\ turn[p] = "none"
        /\ owned <=> running = p
        /\ running = p => pin = None
    BY <1>1, OwnedIsRunning
  <1>4. /\ None \notin Prompts /\ Queued \subseteq Prompts
        /\ running \in Prompts \union {None}
    BY TypeFacts DEF Inv, TypeOK
  <1>5. /\ QueueOK(queue') /\ Ids(queue') \subseteq Ids(queue) \ (IF owned THEN {running} ELSE {})
    <2>1. CASE owned
      BY <1>1, <2>1, FrontTaken
    <2>2. CASE ~owned
      BY <1>1, <2>2, QueueHolds
    <2>. QED
      BY <2>1, <2>2
  <1> HIDE DEF p, owned
  <1>6. \/ owned /\ running = p /\ running' = None /\ arm' = arm
        \/ ~owned /\ running # p /\ running' = running /\ queue' = queue /\ arm' = Rested
    <2>1. CASE owned
      BY <1>1, <1>3, <2>1
    <2>2. CASE ~owned
      BY <1>1, <1>3, <2>2
    <2>. QED
      BY <2>1, <2>2
  <1>7. TypeOK'
    <2>1. arm' \in [prompt : Prompts \union {None}, mode : Modes, snap : Prompts \union {None},
                    victim : Prompts \union {None}, settle : SUBSET Prompts]
      BY <1>6, ArmTyped
    <2>2. queue' \in Seq(Items) /\ IsInjective([i \in DOMAIN queue' |-> queue'[i].id])
      BY <1>5, QueueTyped
    <2>3. pc' \in Phases /\ running' \in Prompts \union {None}
      BY <1>1, <1>4, <1>6 DEF Phases
    <2>4. wire' \in Seq(UserPrompts \X (0..MaxVersion))
      BY <1>1, <1>5, WireTyped DEF Inv, TypeOK
    <2>. QED
      BY <1>1, <1>2, <2>1, <2>2, <2>3, <2>4 DEF Inv, TypeOK
  <1>8. Placed'
    <2>1. Separate'
      BY <1>1, <1>5 DEF Inv, Placed, Separate
    <2>2. RunningIsFront'
      BY <1>6 DEF Inv, Placed, RunningIsFront
    <2>. QED
      BY <1>1, <2>1, <2>2 DEF Placed, Backlog, Buffered
  <1>9. Owned'
    <2>1. RunningIsLive'
      BY <1>1, <1>6 DEF Inv, Owned, RunningIsLive, p
    <2>2. TurnsOwned'
      BY <1>1, <1>3, <1>6 DEF Inv, Owned, TurnsOwned
    <2>3. CompletedOnce'
      BY <1>1 DEF Inv, Owned, CompletedOnce
    <2>4. Untouched'
      <3>1. Separate /\ (running # None => running \in Ids(queue))
        BY QueueHolds, QueueFacts DEF Fronted, Inv, Placed
      <3>2. owned => Queued' \subseteq Queued \ {running}
        BY <1>1, <1>3, <1>4, <1>5, <3>1 DEF Queued, Separate
      <3>3. ~owned => Queued' = Queued
        BY <1>1, <1>6 DEF Queued
      <3>. QED
        BY <1>1, <1>6, <3>2, <3>3 DEF Inv, Owned, Untouched
    <2>5. PinOwned'
      BY <1>1, <1>3, <1>6 DEF Inv, Owned, PinOwned
    <2>6. Pristine'
      BY <1>1, <1>6 DEF Inv, Owned, Pristine
    <2>. QED
      BY <2>1, <2>2, <2>3, <2>4, <2>5, <2>6 DEF Owned
  <1>. QED
    BY <1>7, <1>8, <1>9 DEF Inv

\* A session that was just started.
LEMMA InitHolds ==
  ASSUME Init
  PROVE  Inv
  <1>1. /\ ToSet(buffer) = {} /\ ToSet(notes) = {} /\ ToSet(completions) = {} /\ Ids(queue) = {}
        /\ Distinct(buffer)
    BY DEF Init, ToSet, Ids, Distinct
  <1>2. TypeOK
    <2>1. arm \in [prompt : Prompts \union {None}, mode : Modes, snap : Prompts \union {None},
                   victim : Prompts \union {None}, settle : SUBSET Prompts]
      BY DEF Init, Resting, Modes
    <2>2. queue \in Seq(Items) /\ IsInjective([i \in DOMAIN queue |-> queue[i].id])
      BY DEF Init, IsInjective
    <2>3. /\ notes \in Seq(Notes) /\ Len(notes) <= MaxNotes /\ buffer \in Seq(Interjections)
          /\ completions \in Seq(Prompts) /\ wire \in Seq(UserPrompts \X (0..MaxVersion))
      BY QueueAssumption DEF Init
    <2>. QED
      BY <2>1, <2>2, <2>3 DEF Init, TypeOK, Phases
  <1>3. Placed
    BY <1>1 DEF Init, Placed, RunningIsFront, Separate, Backlog, Buffered
  <1>4. Queued = {}
    BY <1>1 DEF Queued
  <1>5. Owned
    BY <1>1, <1>4 DEF Init, Owned, RunningIsLive, TurnsOwned, CompletedOnce, Untouched, PinOwned, Pristine
  <1>. QED
    BY <1>2, <1>3, <1>5 DEF Inv

\* The end of the actor takes everything with it.
LEMMA ShutdownStep ==
  ASSUME Inv, Shutdown
  PROVE  Inv'
  <1>1. /\ queue' = <<>> /\ running' = None /\ notes' = <<>> /\ buffer' = <<>>
        /\ suppressed' = FALSE /\ rewindable' = FALSE
        /\ turn' = [p \in Prompts |-> "none"] /\ pin' = None /\ wire' = <<>>
        /\ pc' = "stopped" /\ arm' = Resting /\ completions' = <<>>
        /\ answered' \subseteq UserPrompts
    BY InvTyped DEF Shutdown
  <1>1a. /\ ToSet(buffer') = {} /\ ToSet(notes') = {} /\ ToSet(completions') = {}
         /\ Ids(queue') = {} /\ Distinct(buffer')
    BY <1>1 DEF ToSet, Ids, Distinct
  <1>2. TypeOK'
    <2>1. arm' \in [prompt : Prompts \union {None}, mode : Modes, snap : Prompts \union {None},
                    victim : Prompts \union {None}, settle : SUBSET Prompts]
      BY <1>1 DEF Resting, Modes
    <2>2. queue' \in Seq(Items) /\ IsInjective([i \in DOMAIN queue' |-> queue'[i].id])
      BY <1>1 DEF IsInjective
    <2>3. /\ notes' \in Seq(Notes) /\ Len(notes') <= MaxNotes /\ buffer' \in Seq(Interjections)
          /\ completions' \in Seq(Prompts) /\ wire' \in Seq(UserPrompts \X (0..MaxVersion))
      BY <1>1, QueueAssumption
    <2>4. turn' \in [Prompts -> {"none", "fresh", "open", "ended"}]
      BY <1>1
    <2>. QED
      BY <1>1, <2>1, <2>2, <2>3, <2>4 DEF TypeOK, Phases
  <1>3. Placed'
    BY <1>1, <1>1a DEF Placed, RunningIsFront, Separate, Backlog, Buffered
  <1>4. Queued' = {}
    BY <1>1a DEF Queued
  <1>5. Owned'
    BY <1>1, <1>1a, <1>4 DEF Owned, RunningIsLive, TurnsOwned, CompletedOnce, Untouched, PinOwned,
                           Pristine
  <1>. QED
    BY <1>2, <1>3, <1>5 DEF Inv

\* A step that changes nothing.
LEMMA StutterStep ==
  ASSUME Inv, UNCHANGED vars
  PROVE  Inv'
  <1>1. /\ UNCHANGED <<queue, running, notes, suppressed, rewindable, pin, buffer, completions>>
        /\ UNCHANGED <<turn, wire, pc, arm, answered>>
    BY DEF vars
  <1>2. TypeOK'
    BY <1>1 DEF Inv, TypeOK
  <1>3. Placed'
    BY <1>1 DEF Inv, Placed, RunningIsFront, Separate, Backlog, Buffered
  <1>4. Owned'
    <2>1. Queued' = Queued
      BY <1>1 DEF Queued
    <2>. QED
      BY <1>1, <2>1 DEF Inv, Owned, RunningIsLive, TurnsOwned, CompletedOnce, Untouched, PinOwned,
                      Pristine
  <1>. QED
    BY <1>2, <1>3, <1>4 DEF Inv

\* Every command of a client, the user or the session keeps the invariant.
LEMMA RequestsStep ==
  ASSUME Inv, Requests
  PROVE  Inv'
  <1>1. CASE \E p \in UserPrompts \union Wakes, now, blocked, goal \in BOOLEAN :
               Prompt(p, now, blocked, goal)
    BY <1>1, PromptStep
  <1>2. CASE \E p \in Summaries : GoalSummaryTurn(p)
    BY <1>2, GoalSummaryTurnStep
  <1>3. CASE \E n \in Notes : InjectNotification(n) \/ DropMonitorNotifications(n)
    BY <1>3, InjectNotificationStep, DropStep
  <1>4. CASE \E u \in UserPrompts, v \in 0..MaxVersion, o \in Clients \union {None} :
               RemoveQueuedPrompt(u, v, o)
    BY <1>4, RemoveStep
  <1>5. CASE \E u \in UserPrompts : EditQueuedPrompt(u) \/ SendNowStep(u)
    BY <1>5, EditStep, SendNowStepOK DEF SendNowStep
  <1>6. CASE ReorderStep
    BY <1>6, ReorderStepOK
  <1>7. CASE \E o \in Clients \union {None} : ClearQueue(o)
    BY <1>7, ClearStep
  <1>8. CASE \E i \in Interjections : Interject(i)
    BY <1>8, InterjectStep
  <1>9. CASE \E mode \in {"keep", "rewind", "teardown"} : Cancel(mode)
    BY <1>9, CancelBegins
  <1>10. CASE Shutdown
    BY <1>10, ShutdownStep
  <1>. QED
    BY <1>1, <1>2, <1>3, <1>4, <1>5, <1>6, <1>7, <1>8, <1>9, <1>10 DEF Requests

\* Every other arm, cut where it awaits with the lock free, keeps it.
LEMMA ActorStepKeeps ==
  ASSUME Inv, ActorStep
  PROVE  Inv'
  <1>1. CASE CancelForSendNow
    BY <1>1, CancelBegins
  <1>2. CASE \E goal \in Summaries \union {None} : FlushStranded(goal)
    BY <1>2, FlushStrandedStep
  <1>3. CASE \E dropped \in BOOLEAN : DrainNotifications(dropped)
    BY <1>3, DrainNotificationsStep
  <1>. QED
    BY <1>1, <1>2, <1>3, CancelRewindsStep, CancelTakesStep, CancelTailStep, TakeCompletionStep,
       CompleteStep, ActorStartStep DEF ActorStep

\* Every step of a turn task keeps it.
LEMMA TurnStepKeeps ==
  ASSUME Inv, NEW p \in Prompts, TurnStep(p)
  PROVE  Inv'
  <1>1. CASE \E c \in Wakes \union Notes : ConsumeCompletion(p, c)
    BY <1>1, ConsumeStep
  <1>. QED
    BY <1>1, FirstUpdateStep, DrainInterjectionsStep, EndTurnStep, SendCompletionStep DEF TurnStep

\* The invariant is inductive.
LEMMA InvInductive ==
  ASSUME Inv, [Next]_vars
  PROVE  Inv'
  <1>1. CASE OtherTasks
    BY <1>1, PlanResumedStep, McpStartStep DEF OtherTasks
  <1>2. CASE \E p \in Prompts : TurnStep(p)
    BY <1>2, TurnStepKeeps
  <1>. QED
    BY <1>1, <1>2, RequestsStep, ActorStepKeeps, StutterStep DEF Next

-----------------------------------------------------------------------------

\* Whatever commands, turns and other tasks interleave at the awaits of the
\* actor, the invariant holds.
THEOREM QueueInvariant == Spec => []Inv
  <1>. QED
    BY InitHolds, InvInductive, PTL DEF Spec

\* Every variable has its type; no prompt is queued twice.
THEOREM QueueTypes == Spec => []TypeOK
  <1>1. Inv => TypeOK
    BY DEF Inv
  <1>. QED
    BY <1>1, QueueInvariant, PTL

\* handle_completion and cancel_running_task take index 0 of pending_inputs for
\* the running prompt, after awaits in which commands of other clients moved the
\* rest: it is always that prompt.
THEOREM FrontIsRunning == Spec => []RunningIsFront
  <1>1. Inv => RunningIsFront
    BY DEF Inv, Placed
  <1>. QED
    BY <1>1, QueueInvariant, PTL

\* A session that is busy will get free: running_task has a turn task, or its
\* completion is in the channel or in the actor's hands.
THEOREM BusyIsLive == Spec => []RunningIsLive
  <1>1. Inv => RunningIsLive
    BY DEF Inv, Owned
  <1>. QED
    BY <1>1, QueueInvariant, PTL

\* maybe_start_running_task never starts a second turn next to a live one, but
\* for the victim of a cancel that is about to be aborted.
THEOREM TurnsExclude == Spec => []OneTurn
  <1>1. Inv => OneTurn
    BY DEF Inv, Owned, TurnsOwned, OneTurn, Alive
  <1>. QED
    BY <1>1, QueueInvariant, PTL

\* When the select! loop waits for the next event, no prompt waits in
\* pending_inputs for a start that nobody will make.
THEOREM QueueIsServed == Spec => []NoIdleBacklog
  <1>1. Inv => NoIdleBacklog
    BY DEF Inv, Placed, Backlog, NoIdleBacklog, Idle
  <1>. QED
    BY <1>1, QueueInvariant, PTL

\* The debug_assert of cancel_running_task holds: the pin it read before the
\* awaits agrees with the task it finds under the lock.
THEOREM CancelSeesItsTurn == Spec => []PinAgrees
  <1>1. Inv => PinAgrees
    BY DEF Inv, Owned, PinOwned, PinAgrees
  <1>. QED
    BY <1>1, QueueInvariant, PTL

\* An interjection that was buffered for a turn is never left without a turn,
\* or the completion that makes it a prompt.
THEOREM InterjectionsHaveATurn == Spec => []InterjectionNotStranded
  <1>1. Inv => InterjectionNotStranded
    BY DEF Inv, Placed, Buffered, InterjectionNotStranded
  <1>. QED
    BY <1>1, QueueInvariant, PTL

\* A turn that a cancel takes back as pristine has shown nothing to a client.
THEOREM TakenBackUnseen == Spec => []RewindPristine
  <1>1. Inv => RewindPristine
    BY DEF Inv, Owned, Pristine, RewindPristine
  <1>. QED
    BY <1>1, QueueInvariant, PTL

-----------------------------------------------------------------------------
(* What the clients see.                                                   *)

\* The clients have the queue, but in a session that is being torn down.
Mirrored == TornDown \/ wire = QueueWire(queue, running)

\* The clients were told last of all.
LEMMA ToldLast ==
  ASSUME wire' = QueueWire(queue', running')
  PROVE  Mirrored'
  BY DEF Mirrored

\* A step that moves no row and tells nobody.
LEMMA NothingToTell ==
  ASSUME Mirrored, wire' = wire, TornDown => TornDown',
         QueueWire(queue', running') = QueueWire(queue, running)
  PROVE  Mirrored'
  BY DEF Mirrored

\* A start tells the clients of the queue it starts from.
LEMMA StartTells ==
  ASSUME Mirrored, MaybeStart(queue'), UNCHANGED arm
  PROVE  Mirrored'
  <1>1. CASE running = None /\ queue' # <<>>
    BY <1>1, ToldLast DEF MaybeStart, Broadcast
  <1>2. CASE ~(running = None /\ queue' # <<>>)
    <2>1. running' = running /\ IF queue' = queue THEN UNCHANGED wire ELSE Broadcast(queue', running)
      BY <1>2 DEF MaybeStart
    <2>2. CASE queue' = queue
      BY <2>1, <2>2, NothingToTell DEF TornDown
    <2>3. CASE queue' # queue
      BY <2>1, <2>3, ToldLast DEF Broadcast
    <2>. QED
      BY <2>2, <2>3
  <1>. QED
    BY <1>1, <1>2

\* A prompt of the session's own joins the queue unseen.
LEMMA OwnPromptUnseen ==
  ASSUME Inv, Mirrored, NEW p \in Synthetic, queue' = Append(queue, Item(p)),
         UNCHANGED <<running, wire, arm>>
  PROVE  Mirrored'
  <1>1. p \notin Listed(running) /\ p \in Prompts
    BY QueueAssumption DEF Listed, Prompts
  <1>2. queue \in Seq(Items) /\ Item(p) \in Items /\ Item(p).id = p
    BY <1>1, QueueHolds, NewItem DEF QueueOK
  <1>3. QueueWire(queue', running') = QueueWire(queue, running)
    BY <1>1, <1>2, UnseenAppend
  <1>. QED
    BY <1>3, NothingToTell DEF TornDown

\* What the commands do to the queue they tell the clients, but for prompts of
\* the session's own and interjections.
LEMMA RequestsMirror ==
  ASSUME Inv, Mirrored, Requests
  PROVE  Mirrored'
  <1>1. CASE \E p \in UserPrompts \union Wakes, now, blocked, goal \in BOOLEAN :
               Prompt(p, now, blocked, goal)
    BY <1>1, ToldLast DEF Prompt, Broadcast
  <1>2. CASE \E p \in Summaries : GoalSummaryTurn(p)
    <2>1. PICK p \in Summaries : GoalSummaryTurn(p)
      BY <1>2
    <2>. QED
      BY <2>1, OwnPromptUnseen DEF GoalSummaryTurn, Synthetic
  <1>3. CASE \E n \in Notes : InjectNotification(n) \/ DropMonitorNotifications(n)
    <2>1. UNCHANGED <<queue, running, wire, arm>>
      BY <1>3 DEF InjectNotification, DropMonitorNotifications
    <2>. QED
      BY <2>1, NothingToTell DEF TornDown
  <1>4. CASE \E u \in UserPrompts, v \in 0..MaxVersion, o \in Clients \union {None} :
               RemoveQueuedPrompt(u, v, o)
    BY <1>4, ToldLast DEF RemoveQueuedPrompt, Broadcast
  <1>5. CASE \E u \in UserPrompts : EditQueuedPrompt(u) \/ SendNowStep(u)
    <2>1. PICK u \in UserPrompts : EditQueuedPrompt(u) \/ SendNowStep(u)
      BY <1>5
    <2>2. CASE EditQueuedPrompt(u)
      BY <2>2, ToldLast DEF EditQueuedPrompt, Broadcast
    <2>3. CASE SendNowStep(u)
      <3>1. PICK v, o, edit, goal : SendQueuedNow(u, v, o, edit, goal)
        BY <2>3 DEF SendNowStep
      <3>. QED
        BY <3>1, ToldLast DEF SendQueuedNow, Broadcast
    <2>. QED
      BY <2>1, <2>2, <2>3
  <1>6. CASE ReorderStep
    BY <1>6, ToldLast DEF ReorderStep, ReorderQueue, Broadcast
  <1>7. CASE \E o \in Clients \union {None} : ClearQueue(o)
    BY <1>7, ToldLast DEF ClearQueue, Broadcast
  <1>8. CASE \E i \in Interjections : Interject(i)
    <2>1. PICK i \in Interjections : Interject(i)
      BY <1>8
    <2>2. UNCHANGED <<running, wire, arm>> /\ (queue' = queue \/ queue' = AsPrompt(queue, i))
      BY <2>1 DEF Interject
    <2>3. CASE queue' = queue
      BY <2>2, <2>3, NothingToTell DEF TornDown
    <2>4. CASE queue' = AsPrompt(queue, i)
      <3>1. i \in Prompts /\ i \notin Listed(running)
        BY QueueAssumption DEF Prompts, Listed
      <3> DEFINE item == [Item(i) EXCEPT !.now = TRUE]
                 one == <<item>>
                 k == AfterRunning(queue) - 1
      <3>2. item \in Items /\ item.id = i
        BY <3>1, NowItem
      <3>3. /\ queue \in Seq(Items) /\ Len(queue) \in Nat
            /\ k \in 0..Len(queue) /\ k + 1 = AfterRunning(queue)
        <4>1. QueueOK(queue) /\ Fronted(queue) /\ Len(queue) \in Nat /\ queue \in Seq(Items)
          BY QueueHolds, QueueFacts DEF QueueOK
        <4>2. k \in 0..Len(queue)
          BY <4>1, AfterRunningIn
        <4>3. k + 1 = AfterRunning(queue)
          BY DEF AfterRunning
        <4>. QED
          BY <4>1, <4>2, <4>3
      <3> HIDE DEF item, k
      <3>4. one \in Seq(Items) /\ \A j \in 1..Len(one) : one[j].id \notin Listed(running)
        BY <3>1, <3>2
      <3> HIDE DEF one
      <3>5. QueueWire(SubSeq(queue, 1, k) \o one \o SubSeq(queue, k + 1, Len(queue)), running)
              = QueueWire(queue, running)
        BY <3>3, <3>4, UnseenInside
      <3>6. AsPrompt(queue, i) = SubSeq(queue, 1, k) \o one \o SubSeq(queue, k + 1, Len(queue))
        <4>1. AfterRunning(queue) - 1 = k
          BY DEF k
        <4>. QED
          BY <3>3, <4>1 DEF AsPrompt, InsertAt, one, item
      <3>7. QueueWire(queue', running') = QueueWire(queue, running)
        BY <2>2, <2>4, <3>5, <3>6
      <3>. QED
        BY <2>2, <3>7, NothingToTell DEF TornDown
    <2>. QED
      BY <2>2, <2>3, <2>4
  <1>9. CASE \E mode \in {"keep", "rewind", "teardown"} : Cancel(mode)
    <2>1. UNCHANGED <<queue, running, wire>> /\ ~TornDown
      BY <1>9 DEF Cancel, lockVars, Receiving
    <2>. QED
      BY <2>1, NothingToTell
  <1>10. CASE Shutdown
    <2>1. queue' = <<>> /\ wire' = <<>>
      BY <1>10 DEF Shutdown
    <2>. QED
      BY <2>1, NothingSeen, ToldLast
  <1>. QED
    BY <1>1, <1>2, <1>3, <1>4, <1>5, <1>6, <1>7, <1>8, <1>9, <1>10 DEF Requests

\* The front is taken out with the slot it holds; it was no row.
LEMMA FrontUnseen ==
  ASSUME Inv, Mirrored, queue # <<>>, running = queue[1].id, running' = None,
         queue' = Tail(queue), wire' = wire, TornDown => TornDown'
  PROVE  Mirrored'
  <1>1. QueueWire(queue', running') = QueueWire(queue, running)
    BY QueueHolds, UnseenFront
  <1>. QED
    BY <1>1, NothingToTell

\* A cancel takes the running prompt out, which was no row; a teardown is the
\* last the clients hear of.
LEMMA CancelsMirror ==
  ASSUME Inv, Mirrored, CancelForSendNow \/ CancelRewinds \/ CancelTakes \/ CancelTail
  PROVE  Mirrored'
  <1>1. wire' = wire
    BY DEF CancelForSendNow, CancelRewinds, CancelTakes, CancelTail, lockVars
  <1>2. CASE CancelForSendNow \/ CancelTail
    <2>1. queue' = queue /\ running' = running
      BY <1>2 DEF CancelForSendNow, CancelTail, lockVars
    <2>2. arm' = Rested \/ arm' = [arm EXCEPT !.snap = pin]
      BY <1>2 DEF CancelForSendNow, CancelTail
    <2>3. TornDown => TornDown'
      BY <2>2, ArmTyped DEF TornDown, Rested, Resting
    <2>. QED
      BY <1>1, <2>1, <2>3, NothingToTell
  <1>3. pc = "lock" /\ queue # <<>> => running = queue[1].id
    BY DEF Inv, Placed, Backlog, RunningIsFront
  <1>4. CASE CancelRewinds
    <2>1. /\ pc = "lock" /\ queue # <<>> /\ queue' = Tail(queue) /\ running' = None
          /\ arm.mode = "rewind"
      BY <1>4 DEF CancelRewinds
    <2>. QED
      BY <1>1, <1>3, <2>1, FrontUnseen DEF TornDown
  <1>5. CASE CancelTakes
    <2>1. /\ pc = "lock" /\ running' = None
          /\ queue' = IF arm.mode = "teardown" \/ queue = <<>> THEN <<>> ELSE Tail(queue)
      BY <1>5 DEF CancelTakes
    <2>2. TornDown => TornDown'
      BY <1>5, ArmTyped DEF CancelTakes, TornDown
    <2>3. CASE TornDown
      BY <2>2, <2>3 DEF Mirrored
    <2>4. CASE ~TornDown /\ queue = <<>>
      <3>1. queue' = <<>>
        BY <2>1, <2>4
      <3>2. QueueWire(queue', running') = QueueWire(queue, running)
        BY <2>4, <3>1, NothingSeen
      <3>. QED
        BY <1>1, <2>2, <3>2, NothingToTell
    <2>5. CASE ~TornDown /\ queue # <<>>
      BY <1>1, <1>3, <2>1, <2>2, <2>5, FrontUnseen DEF TornDown
    <2>. QED
      BY <2>3, <2>4, <2>5
  <1>. QED
    BY <1>2, <1>4, <1>5

\* A completion takes its prompt out, which was no row; it tells the clients of
\* those of users, and a stale one has nothing to tell.
LEMMA CompleteMirror ==
  ASSUME Inv, Mirrored, Complete
  PROVE  Mirrored'
  <1> DEFINE p == arm.prompt
             owned == queue # <<>> /\ queue[1].id = p
  <1>1. /\ pc = "complete"
        /\ queue' = IF owned THEN Tail(queue) ELSE queue
        /\ running' = IF running = p \/ owned THEN None ELSE running
        /\ arm' = IF owned THEN arm ELSE Rested
        /\ owned => wire' = wire \/ wire' = QueueWire(queue', running')
        /\ ~owned => wire' = wire
    BY DEF Complete, Freed, Broadcast
  <1>2. owned <=> running = p
    BY <1>1, OwnedIsRunning
  <1>3. TornDown => TornDown'
    BY <1>1 DEF TornDown, Rested, Resting
  <1>4. CASE owned
    <2>1. queue # <<>> /\ running = queue[1].id /\ queue' = Tail(queue) /\ running' = None
      BY <1>1, <1>2, <1>4
    <2>2. CASE wire' = wire
      BY <1>3, <2>1, <2>2, FrontUnseen
    <2>. QED
      BY <1>1, <1>4, <2>2, ToldLast
  <1>5. CASE ~owned
    <2>1. queue' = queue /\ running' = running /\ wire' = wire
      BY <1>1, <1>2, <1>5
    <2>. QED
      BY <1>3, <2>1, NothingToTell
  <1>. QED
    BY <1>4, <1>5

\* Stranded interjections and the turn of a goal join the queue unseen.
LEMMA FlushMirror ==
  ASSUME Inv, Mirrored, NEW goal \in Summaries \union {None}, FlushStranded(goal)
  PROVE  Mirrored'
  <1> DEFINE base == IF goal = None THEN queue ELSE Append(queue, Item(goal))
             k == AfterRunning(base) - 1
             stranded == [i \in DOMAIN buffer |-> [Item(buffer[i]) EXCEPT !.now = TRUE]]
  <1>1. /\ queue' = SubSeq(base, 1, k) \o stranded \o SubSeq(base, k + 1, Len(base))
        /\ running' = running /\ wire' = wire /\ arm' = Rested
        /\ goal # None => Unused(goal)
    BY DEF FlushStranded
  <1>2. QueueOK(queue) /\ Fronted(queue) /\ queue \in Seq(Items) /\ buffer \in Seq(Interjections)
    BY QueueHolds, InvTyped DEF QueueOK
  <1>3. /\ QueueOK(base) /\ Fronted(base)
        /\ QueueWire(base, running) = QueueWire(queue, running)
    <2>1. CASE goal = None
      BY <1>2, <2>1
    <2>2. CASE goal # None
      <3>1. /\ goal \in Prompts /\ goal \notin Ids(queue) /\ goal \notin Listed(running)
        BY <1>1, <2>2, QueueAssumption DEF Prompts, Synthetic, Unused, Listed
      <3>2. LET r == Append(queue, Item(goal)) IN QueueOK(r) /\ Fronted(r)
        BY <1>2, <3>1, AppendNew
      <3>3. Item(goal) \in Items /\ Item(goal).id = goal
        BY <3>1, NewItem
      <3>4. QueueWire(Append(queue, Item(goal)), running) = QueueWire(queue, running)
        BY <1>2, <3>1, <3>3, UnseenAppend
      <3>. QED
        BY <2>2, <3>2, <3>4
    <2>. QED
      BY <2>1, <2>2
  <1>4. /\ stranded \in Seq(Items)
        /\ \A i \in 1..Len(stranded) : stranded[i].id \notin Listed(running)
    <2>1. /\ DOMAIN buffer = 1..Len(buffer) /\ Len(buffer) \in Nat
          /\ \A i \in 1..Len(buffer) : buffer[i] \in Prompts /\ buffer[i] \notin Listed(running)
      BY <1>2, QueueAssumption DEF Prompts, Listed
    <2>2. \A i \in 1..Len(buffer) : stranded[i] \in Items /\ stranded[i].id = buffer[i]
      BY <2>1, NowItem
    <2>3. stranded \in Seq(Items) /\ Len(stranded) = Len(buffer)
      BY <2>1, <2>2
    <2>. QED
      BY <2>1, <2>2, <2>3
  <1> HIDE DEF base, stranded
  <1>5. k \in 0..Len(base) /\ base \in Seq(Items)
    <2>1. Len(base) \in Nat /\ base \in Seq(Items)
      BY <1>3, QueueFacts DEF QueueOK
    <2>. QED
      BY <1>3, <2>1, AfterRunningIn
  <1> HIDE DEF k
  <1>6. QueueWire(queue', running') = QueueWire(base, running)
    BY <1>1, <1>4, <1>5, UnseenInside
  <1>7. TornDown => TornDown'
    BY <1>1 DEF TornDown, Rested, Resting
  <1>. QED
    BY <1>1, <1>3, <1>6, <1>7, NothingToTell

\* The other arms start a turn, or leave rows and clients alone.
LEMMA ActorMirror ==
  ASSUME Inv, Mirrored, ActorStep
  PROVE  Mirrored'
  <1>1. CASE TakeCompletion
    <2>1. UNCHANGED <<queue, running, wire>> /\ (TornDown => TornDown')
      BY <1>1, ArmTyped DEF TakeCompletion, lockVars, TornDown
    <2>. QED
      BY <2>1, NothingToTell
  <1>2. CASE ActorStart
    <2>1. queue' = queue /\ MaybeStart(queue) /\ arm' = arm
      BY <1>2 DEF ActorStart
    <2>2. MaybeStart(queue')
      BY <2>1
    <2>. QED
      BY <2>1, <2>2, StartTells
  <1>3. CASE \E dropped \in BOOLEAN : DrainNotifications(dropped)
    <2>1. /\ UNCHANGED <<running, wire, arm>>
          /\ \/ queue' = queue
             \/ notes # <<>> /\ queue' = Append(queue, Item(notes[1]))
      BY <1>3 DEF DrainNotifications
    <2>2. CASE queue' = queue
      BY <2>1, <2>2, NothingToTell DEF TornDown
    <2>3. CASE notes # <<>> /\ queue' = Append(queue, Item(notes[1]))
      <3>1. notes[1] \in Synthetic
        BY <2>3, InvTyped DEF Synthetic
      <3>. QED
        BY <2>1, <2>3, <3>1, OwnPromptUnseen
    <2>. QED
      BY <2>1, <2>2, <2>3
  <1>4. CASE \E goal \in Summaries \union {None} : FlushStranded(goal)
    BY <1>4, FlushMirror
  <1>. QED
    BY <1>1, <1>2, <1>3, <1>4, CancelsMirror, CompleteMirror DEF ActorStep

\* A turn takes wakes from the queue, which are no rows.
LEMMA TurnMirror ==
  ASSUME Inv, Mirrored, NEW p \in Prompts, TurnStep(p)
  PROVE  Mirrored'
  <1>1. UNCHANGED <<running, wire, arm>>
    BY DEF TurnStep, FirstUpdate, DrainInterjections, EndTurn, SendCompletion, ConsumeCompletion,
           lockVars, turnVars
  <1>2. CASE \E c \in Wakes \union Notes : ConsumeCompletion(p, c)
    <2>1. PICK c : queue' = Swept(queue, Wakes \intersect {c})
      BY <1>2 DEF ConsumeCompletion
    <2>2. (Wakes \intersect {c}) \intersect UserPrompts = {}
      BY QueueAssumption DEF Synthetic
    <2>3. QueueWire(queue', running) = QueueWire(queue, running)
      BY <2>1, <2>2, QueueHolds, UnseenSweep
    <2>. QED
      BY <1>1, <2>3, NothingToTell DEF TornDown
  <1>3. CASE FirstUpdate(p) \/ DrainInterjections(p) \/ EndTurn(p) \/ SendCompletion(p)
    <2>1. queue' = queue
      BY <1>3 DEF FirstUpdate, DrainInterjections, EndTurn, SendCompletion, lockVars
    <2>. QED
      BY <1>1, <2>1, NothingToTell DEF TornDown
  <1>. QED
    BY <1>2, <1>3 DEF TurnStep

\* Every step leaves the clients with the queue.
LEMMA MirrorStep ==
  ASSUME Inv, Mirrored, [Next]_vars
  PROVE  Mirrored'
  <1>1. CASE OtherTasks
    <2>1. CASE McpStart
      <3>1. queue' = queue /\ MaybeStart(queue) /\ arm' = arm
        BY <2>1 DEF McpStart
      <3>2. MaybeStart(queue')
        BY <3>1
      <3>. QED
        BY <3>1, <3>2, StartTells
    <2>2. CASE \E p \in PlanResumes : PlanResumed(p)
      BY <2>2, StartTells DEF PlanResumed
    <2>. QED
      BY <1>1, <2>1, <2>2 DEF OtherTasks
  <1>2. CASE UNCHANGED vars
    <2>1. UNCHANGED <<queue, running, wire, arm>>
      BY <1>2 DEF vars
    <2>. QED
      BY <2>1, NothingToTell DEF TornDown
  <1>. QED
    BY <1>1, <1>2, RequestsMirror, ActorMirror, TurnMirror DEF Next

\* The queue the clients were last told of is the queue there is, whenever the
\* actor waits for work: the arms that broadcast nothing move no row.
THEOREM ClientsSeeTheQueue == Spec => []MirrorAtRest
  <1>1. Init => Mirrored
    <2>1. Init => queue = <<>> /\ wire = <<>>
      BY DEF Init
    <2>. QED
      BY <2>1, NothingSeen DEF Mirrored
  <1>2. Inv /\ Mirrored /\ [Next]_vars => Mirrored'
    BY MirrorStep
  <1>3. Mirrored => MirrorAtRest
    BY DEF Mirrored, MirrorAtRest
  <1>. QED
    BY <1>1, <1>2, <1>3, QueueInvariant, PTL DEF Spec

-----------------------------------------------------------------------------
(* Who passes whom.                                                        *)

\* The queue after a step.
LEMMA QueueNext ==
  ASSUME Inv'
  PROVE  QueueOK(queue')
  <1>1. DOMAIN queue' = 1..Len(queue')
    BY DEF Inv, TypeOK
  <1>. QED
    BY <1>1 DEF Inv, TypeOK, QueueOK, IsInjective

\* A sweep takes prompts out.
LEMMA SweptOrder ==
  ASSUME NEW q, QueueOK(q), Fronted(q), Unhurried(q), NEW dropped
  PROVE  Orderly(q, Swept(q, dropped))
  <1>1. QueueOK(Swept(q, dropped))
    BY SweptQueue
  <1>2. Part(Swept(q, dropped), q)
    BY KeptPart DEF Swept, QueueOK
  <1>. QED
    BY <1>1, <1>2, OrderlyPart

\* So do a cancel, a completion and the end of the session.
LEMMA FrontOrder ==
  ASSUME Inv, Unhurried(queue), QueueOK(queue'),
         queue' = queue \/ queue' = <<>> \/ (queue # <<>> /\ queue' = Tail(queue))
  PROVE  Orderly(queue, queue')
  <1>1. QueueOK(queue) /\ queue \in Seq(Items)
    BY QueueHolds DEF QueueOK
  <1>2. CASE queue' = queue
    BY <1>2, OrderlyStill
  <1>3. CASE queue' = <<>>
    <2>1. Part(queue', queue)
      BY <1>3 DEF Part, Within, Ahead
    <2>. QED
      BY <1>1, <2>1, OrderlyPart
  <1>4. CASE queue # <<>> /\ queue' = Tail(queue)
    <2>1. Part(queue', queue)
      BY <1>1, <1>4, TailPart
    <2>. QED
      BY <1>1, <2>1, OrderlyPart
  <1>. QED
    BY <1>2, <1>3, <1>4

\* A prompt of the session's own joins at the end.
LEMMA OwnPromptOrder ==
  ASSUME NEW q, QueueOK(q), Unhurried(q), NEW p \in Synthetic
  PROVE  Orderly(q, Append(q, Item(p)))
  <1>1. p \in Prompts /\ p \notin UserPrompts
    BY QueueAssumption DEF Prompts
  <1> DEFINE item == Item(p)
  <1>2. item \in Items /\ item.id = p /\ ~item.now
    BY <1>1, NewItem DEF Item
  <1> HIDE DEF item
  <1>3. Orderly(q, Append(q, item))
    BY <1>1, <1>2, OrderlyAppend
  <1>. QED
    BY <1>3 DEF item

\* A user's prompt arrives with the wakes swept away, so that it is behind none.
LEMMA PromptOrder ==
  ASSUME Inv, Unhurried(queue), NEW p, NEW now, NEW blocked, NEW goal,
         Prompt(p, now, blocked, goal)
  PROVE  Orderly(queue, queue')
  <1> DEFINE base == IF Preempted(p) THEN Swept(queue, Synthetic) ELSE queue
             sendNow == /\ p \in UserPrompts
                        /\ now \/ (running # None /\ blocked /\ ~Held)
             item == Item(p)
  <1>1. /\ p \in UserPrompts \union Wakes /\ p \notin Ids(queue)
        /\ queue' = IF sendNow THEN InsertNow(base, item) ELSE Append(base, item)
    BY DEF Prompt, Unused
  <1>2. QueueOK(queue) /\ Fronted(queue)
    BY QueueHolds
  <1>3. /\ QueueOK(base) /\ Fronted(base) /\ Orderly(queue, base) /\ Ids(base) \subseteq Ids(queue)
        /\ p \in UserPrompts => Ids(base) \intersect Wakes \subseteq {running}
    <2>1. CASE Preempted(p)
      <3>1. /\ QueueOK(base) /\ Fronted(base) /\ Ids(base) = Ids(queue) \ (Synthetic \ {running})
        BY <1>2, <2>1, SweptQueue
      <3>2. Orderly(queue, base)
        BY <1>2, <2>1, SweptOrder
      <3>. QED
        BY <3>1, <3>2 DEF Synthetic
    <2>2. CASE ~Preempted(p)
      BY <1>2, <2>2, OrderlyStill DEF Preempted
    <2>. QED
      BY <2>1, <2>2
  <1>4. p \in Prompts /\ item \in Items /\ item.id = p /\ ~item.now
    BY <1>1, NewItem DEF Prompts, Synthetic, Item
  <1> HIDE DEF base, item, sendNow
  <1>5. Unhurried(base)
    BY <1>3 DEF Orderly
  <1>6. Orderly(base, queue') /\ Ids(queue') = Ids(base) \union {p}
    <2>1. CASE ~sendNow
      <3>1. queue' = Append(base, item)
        BY <1>1, <2>1
      <3>2. Orderly(base, Append(base, item))
        BY <1>3, <1>4, <1>5, OrderlyAppend
      <3>3. Ids(Append(base, item)) = Ids(base) \union {item.id}
        BY <1>1, <1>3, <1>4, AppendQueue
      <3>. QED
        BY <1>4, <3>1, <3>2, <3>3
    <2>2. CASE sendNow
      <3>1. queue' = InsertNow(base, item) /\ p \in UserPrompts
        BY <1>1, <2>2 DEF sendNow
      <3>2. Orderly(base, InsertNow(base, item))
        BY <1>3, <1>4, <1>5, <3>1, InsertNowOrder
      <3>3. Ids(InsertNow(base, item)) = Ids(base) \union {item.id}
        BY <1>1, <1>3, <1>4, InsertNowQueue
      <3>. QED
        BY <1>4, <3>1, <3>2, <3>3
    <2>. QED
      BY <2>1, <2>2
  <1>7. Ids(queue) \intersect Ids(queue') \subseteq Ids(base)
    BY <1>1, <1>3, <1>6
  <1>. QED
    BY <1>3, <1>6, <1>7, OrderlyTwice

\* A row is removed, or none.
LEMMA RemoveOrder ==
  ASSUME Inv, Unhurried(queue), QueueOK(queue'), NEW u, NEW v, NEW o,
         RemoveQueuedPrompt(u, v, o)
  PROVE  Orderly(queue, queue')
  <1>1. QueueOK(queue) /\ queue \in Seq(Items)
    BY QueueHolds DEF QueueOK
  <1>2. CASE queue' = queue
    BY <1>2, OrderlyStill
  <1>3. CASE Row(u, v, o) /\ queue' = RemoveAt(queue, Position(queue, u))
    <2>1. u \in Ids(queue)
      BY <1>3 DEF Row, Ids
    <2>2. Part(queue', queue)
      BY <1>1, <1>3, <2>1, PositionOf, RemovePart
    <2>. QED
      BY <1>1, <2>2, OrderlyPart
  <1>. QED
    BY <1>2, <1>3 DEF RemoveQueuedPrompt

\* An edit leaves the row where it is.
LEMMA EditOrder ==
  ASSUME Inv, Unhurried(queue), NEW u, EditQueuedPrompt(u)
  PROVE  Orderly(queue, queue')
  <1> DEFINE i == Position(queue, u)
             item == Edited(queue[i])
  <1>1. /\ u \in Ids(queue) /\ Editable(u)
        /\ queue' = [queue EXCEPT ![i] = Edited(@)]
    BY DEF EditQueuedPrompt
  <1>2. QueueOK(queue) /\ queue \in Seq(Items)
    BY QueueHolds DEF QueueOK
  <1>3. i \in 1..Len(queue) /\ queue[i] \in Items
    BY <1>1, <1>2, PositionOf
  <1>4. queue' = [queue EXCEPT ![i] = item]
    BY <1>1
  <1>5. item \in Items /\ item.id = u /\ queue[i].id = u
    BY <1>1, EditedItem
  <1>6. item.now = queue[i].now
    BY <1>3 DEF Edited, Items, ItemsOf
  <1> HIDE DEF i, item
  <1>. QED
    BY <1>2, <1>3, <1>4, <1>5, <1>6, OrderlyEdit

\* Sending a row now: it may pass others, but none that was sent now before.
LEMMA SendNowOrder ==
  ASSUME Inv, Unhurried(queue), QueueOK(queue'), NEW u \in UserPrompts, SendNowStep(u)
  PROVE  /\ Unhurried(queue')
         /\ \A w \in Wakes, t \in UserPrompts :
              Ahead(queue', w, t) /\ w # running => Ahead(queue, w, t)
         /\ \A x, y \in Ids(queue) \intersect Ids(queue') :
              Ahead(queue, x, y) => \/ Ahead(queue', x, y)
                                    \/ IsNow(queue', y) /\ ~LeadingNow(queue, x)
                                    \/ x = u
  <1>1. PICK v, o, edit, goal : SendQueuedNow(u, v, o, edit, goal)
    BY DEF SendNowStep
  <1>2. QueueOK(queue) /\ Fronted(queue) /\ queue \in Seq(Items)
    BY QueueHolds DEF QueueOK
  <1>3. CASE queue' = queue
    BY <1>3
  <1> DEFINE i == Position(queue, u)
             item == IF edit THEN Edited(queue[i]) ELSE queue[i]
             rest == RemoveAt(queue, i)
  <1>4. CASE Row(u, v, o) /\ (edit => Editable(u)) /\ queue' = InsertNow(rest, item)
    <2>1. u \in Ids(queue) /\ u # running
      <3>1. u # running /\ \E j \in DOMAIN queue : queue[j].id = u
        BY <1>4 DEF Row
      <3>. QED
        BY <3>1 DEF Ids
    <2>2. i \in 1..Len(queue) /\ queue[i].id = u /\ queue[i] \in Items
      BY <1>2, <2>1, PositionOf
    <2>3. item \in Items /\ item.id = u
      <3>1. CASE edit
        <4>1. Edited(queue[i]) \in Items /\ Edited(queue[i]).id = u
          BY <1>4, <2>1, <3>1, EditedItem
        <4>. QED
          BY <3>1, <4>1
      <3>2. CASE ~edit
        BY <2>2, <3>2
      <3>. QED
        BY <3>1, <3>2
    <2> HIDE DEF item, i
    <2>4. /\ QueueOK(rest) /\ Ids(rest) = Ids(queue) \ {u}
          /\ i # 1 => SameFront(queue, rest)
      BY <1>2, <2>2, RemoveQueue
    <2>5. Part(rest, queue)
      BY <1>2, <2>2, RemovePart
    <2> HIDE DEF rest
    <2>6. Fronted(rest)
      BY <1>2, <2>1, <2>2, <2>4, FrontKept DEF Fronted
    <2>7. Orderly(queue, rest)
      BY <1>2, <2>4, <2>5, OrderlyPart
    <2>8. /\ Orderly(rest, queue') /\ IsNow(queue', u)
          /\ \A x \in Ids(rest) : Ahead(queue', x, u) \/
               \E z \in Ids(rest) : /\ z = x \/ Ahead(rest, z, x)
                                    /\ z # running /\ ~IsNow(rest, z)
      <3>1. Unhurried(rest)
        BY <2>7 DEF Orderly
      <3> DEFINE r == InsertNow(rest, item)
      <3>2. /\ Orderly(rest, r) /\ IsNow(r, item.id)
            /\ \A x \in Ids(rest) : Ahead(r, x, item.id) \/
                 \E z \in Ids(rest) : /\ z = x \/ Ahead(rest, z, x)
                                      /\ z # running /\ ~IsNow(rest, z)
        BY <2>3, <2>4, <2>6, <3>1, InsertNowOrder
      <3>3. queue' = r
        BY <1>4
      <3> HIDE DEF r
      <3>. QED
        BY <2>3, <3>2, <3>3
    <2>9. ASSUME NEW x \in Ids(rest), NEW z \in Ids(rest), z = x \/ Ahead(rest, z, x),
                 z # running, ~IsNow(rest, z)
          PROVE  ~LeadingNow(queue, x)
      <3>1. z \in Ids(queue) /\ x \in Ids(queue) /\ (z = x \/ Ahead(queue, z, x))
        BY <2>4, <2>5, <2>9 DEF Part, Within
      <3> DEFINE m == Position(queue, z)
                 n == Position(queue, x)
      <3>2. /\ m \in 1..Len(queue) /\ queue[m].id = z
            /\ n \in 1..Len(queue) /\ m <= n
        <4>1. m \in 1..Len(queue) /\ queue[m].id = z /\ n \in 1..Len(queue)
          BY <1>2, <3>1, PositionOf
        <4>2. Ahead(queue, z, x) => m < n
          BY <1>2, BeforeIsAhead DEF Before
        <4>3. z = x => m = n
          OBVIOUS
        <4> HIDE DEF m, n
        <4>. QED
          BY <3>1, <4>1, <4>2, <4>3
      <3> HIDE DEF m
      <3>3. ~queue[m].now
        <4>1. PICK k \in 1..Len(rest) : rest[k].id = z
          BY <2>4, QueueFacts
        <4>2. PICK j \in 1..Len(queue) : rest[k] = queue[j]
          BY <2>5 DEF Part
        <4>3. j = m
          BY <1>2, <3>2, <4>1, <4>2 DEF QueueOK
        <4>4. k \in DOMAIN rest
          BY <2>4 DEF QueueOK
        <4>. QED
          BY <2>9, <4>1, <4>2, <4>3, <4>4 DEF IsNow
      <3>4. m \in 1..n
        BY <3>2
      <3>. QED
        BY <2>9, <3>2, <3>3, <3>4 DEF LeadingNow
    <2>10. Unhurried(queue')
      BY <2>8 DEF Orderly
    <2>11. ASSUME NEW w \in Wakes, NEW t \in UserPrompts, Ahead(queue', w, t), w # running
           PROVE  Ahead(queue, w, t)
      BY <2>7, <2>8, <2>11 DEF Orderly
    <2>12. ASSUME NEW x \in Ids(queue) \intersect Ids(queue'),
                  NEW y \in Ids(queue) \intersect Ids(queue'),
                  Ahead(queue, x, y), x # u
           PROVE  Ahead(queue', x, y) \/ (IsNow(queue', y) /\ ~LeadingNow(queue, x))
      <3>1. x \in Ids(rest) /\ x # y
        BY <1>2, <2>4, <2>12, AheadTotal
      <3>2. CASE y = u
        BY <2>8, <2>9, <3>1, <3>2
      <3>3. CASE y # u
        <4>1. y \in Ids(rest)
          BY <2>4, <3>3
        <4>2. Ahead(rest, x, y)
          BY <2>7, <2>12, <3>1, <4>1 DEF Orderly
        <4>. QED
          BY <2>8, <2>12, <3>1, <4>1, <4>2 DEF Orderly
      <3>. QED
        BY <3>2, <3>3
    <2>. QED
      BY <2>10, <2>11, <2>12
  <1>. QED
    BY <1>1, <1>3, <1>4 DEF SendQueuedNow

\* A reorder sends no wake now.
LEMMA ReorderUnhurried ==
  ASSUME Inv, Unhurried(queue), ReorderStep
  PROVE  Unhurried(queue')
  <1>1. PICK S \in SUBSET UserPrompts : \E order \in SetToSeqs(S) : ReorderQueue(order)
    BY DEF ReorderStep
  <1>2. PICK order \in SetToSeqs(S) : ReorderQueue(order)
    BY <1>1
  <1> DEFINE L == Listed(running)
             named == Kept(order, L \intersect Ids(queue))
             top == Kept(queue, ItemsOf(Prompts \ L))
             middle == [j \in DOMAIN named |-> queue[Position(queue, named[j])]]
             last == Kept(queue, ItemsOf(L \ ToSet(order)))
  <1>3. queue' = top \o middle \o last
    BY <1>2 DEF ReorderQueue, Reordered
  <1>4. QueueOK(queue) /\ queue \in Seq(Items)
    BY QueueHolds DEF QueueOK
  <1>5. top \in Seq(Items) /\ last \in Seq(Items)
    BY <1>4, KeptSelects
  <1>6. Unhurried(top) /\ Unhurried(last)
    <2>1. Part(top, queue) /\ Part(last, queue)
      BY <1>4, KeptPart
    <2> HIDE DEF top, last
    <2>. QED
      BY <2>1 DEF Part, Unhurried
  <1>7. order \in Seq(UserPrompts)
    BY <1>2, OrderNames
  <1>8. named \in Seq(UserPrompts) /\ ToSet(named) = ToSet(order) \intersect (L \intersect Ids(queue))
    BY <1>7, KeptElements
  <1> HIDE DEF named, top, last
  <1>9. middle \in Seq(Items) /\ Unhurried(middle)
    <2>1. DOMAIN named = 1..Len(named) /\ Len(named) \in Nat
      BY <1>8
    <2>2. \A j \in 1..Len(named) : named[j] \in Ids(queue)
      BY <1>8, <2>1 DEF ToSet
    <2>3. \A j \in 1..Len(named) :
            /\ Position(queue, named[j]) \in 1..Len(queue)
            /\ queue[Position(queue, named[j])] \in Items
      BY <1>4, <2>2, PositionOf
    <2>4. middle \in Seq(Items) /\ Len(middle) = Len(named)
      BY <2>1, <2>3
    <2>5. \A j \in 1..Len(middle) : \E k \in 1..Len(queue) : middle[j] = queue[k]
      BY <2>1, <2>3, <2>4
    <2> HIDE DEF middle
    <2>. QED
      BY <2>4, <2>5 DEF Unhurried
  <1> HIDE DEF middle
  <1> DEFINE left == top \o middle
  <1>10. left \in Seq(Items) /\ Unhurried(left)
    BY <1>5, <1>6, <1>9, ConcatProperties, UnhurriedConcat
  <1> HIDE DEF left
  <1>11. Unhurried(left \o last)
    BY <1>5, <1>6, <1>10, UnhurriedConcat
  <1>. QED
    BY <1>3, <1>11 DEF left

\* An interjection for an idle session runs next; no wake is one.
LEMMA InterjectOrder ==
  ASSUME Inv, Unhurried(queue), NEW i \in Interjections, Interject(i)
  PROVE  Orderly(queue, queue')
  <1> DEFINE item == [Item(i) EXCEPT !.now = TRUE]
             n == AfterRunning(queue)
  <1>1. QueueOK(queue)
    BY QueueHolds
  <1>2. CASE queue' = queue
    BY <1>2, OrderlyStill
  <1>3. CASE queue' = AsPrompt(queue, i)
    <2>1. item \in Items /\ item.id = i
      <3>1. i \in Prompts
        BY DEF Prompts
      <3>. QED
        BY <3>1, NowItem
    <2>2. i \notin Wakes /\ i \notin UserPrompts
      BY QueueAssumption
    <2>3. n \in 1..(Len(queue) + 1)
      BY <1>1, AfterRunningIn
    <2>4. queue' = InsertAt(queue, n, item)
      BY <1>3 DEF AsPrompt
    <2> HIDE DEF item, n
    <2>. QED
      BY <1>1, <2>1, <2>2, <2>3, <2>4, OrderlyInsert
  <1>. QED
    BY <1>2, <1>3 DEF Interject

\* So do the interjections that missed their turn.
LEMMA FlushOrder ==
  ASSUME Inv, Unhurried(queue), NEW goal \in Summaries \union {None}, FlushStranded(goal)
  PROVE  Orderly(queue, queue')
  <1> DEFINE base == IF goal = None THEN queue ELSE Append(queue, Item(goal))
             k == AfterRunning(base) - 1
             stranded == [i \in DOMAIN buffer |-> [Item(buffer[i]) EXCEPT !.now = TRUE]]
             lo == SubSeq(base, 1, k)
             hi == SubSeq(base, k + 1, Len(base))
  <1>1. /\ queue' = lo \o stranded \o hi
        /\ goal # None => Unused(goal)
    BY DEF FlushStranded
  <1>2. QueueOK(queue) /\ Fronted(queue) /\ buffer \in Seq(Interjections)
    BY QueueHolds, InvTyped
  <1>3. QueueOK(base) /\ Orderly(queue, base) /\ Ids(queue) \subseteq Ids(base)
    <2>1. CASE goal = None
      BY <1>2, <2>1, OrderlyStill
    <2>2. CASE goal # None
      <3>1. goal \in Synthetic /\ goal \in Prompts /\ goal \notin Ids(queue)
        BY <1>1, <2>2 DEF Prompts, Synthetic, Unused
      <3>2. LET r == Append(queue, Item(goal)) IN QueueOK(r) /\ Ids(r) = Ids(queue) \union {goal}
        BY <1>2, <3>1, AppendNew
      <3>3. Orderly(queue, Append(queue, Item(goal)))
        BY <1>2, <3>1, OwnPromptOrder
      <3>. QED
        BY <2>2, <3>2, <3>3
    <2>. QED
      BY <2>1, <2>2
  <1>4. /\ stranded \in Seq(Items)
        /\ \A i \in 1..Len(stranded) : stranded[i].id \in Interjections
    <2>1. /\ DOMAIN buffer = 1..Len(buffer) /\ Len(buffer) \in Nat
          /\ \A i \in 1..Len(buffer) : buffer[i] \in Prompts /\ buffer[i] \in Interjections
      BY <1>2 DEF Prompts
    <2>2. \A i \in 1..Len(buffer) : stranded[i] \in Items /\ stranded[i].id = buffer[i]
      BY <2>1, NowItem
    <2>3. stranded \in Seq(Items) /\ Len(stranded) = Len(buffer)
      BY <2>1, <2>2
    <2>. QED
      BY <2>1, <2>2, <2>3
  <1> HIDE DEF stranded
  <1>5. /\ Unhurried(stranded)
        /\ Ids(stranded) \intersect Wakes = {} /\ Ids(stranded) \intersect UserPrompts = {}
    <2>1. Interjections \intersect Wakes = {} /\ Interjections \intersect UserPrompts = {}
      BY QueueAssumption
    <2>2. DOMAIN stranded = 1..Len(stranded)
      BY <1>4
    <2>3. Ids(stranded) \subseteq Interjections
      BY <1>4, <2>2 DEF Ids
    <2>. QED
      BY <1>4, <2>1, <2>3 DEF Unhurried
  <1> HIDE DEF base
  <1>6. k \in 0..Len(base) /\ base \in Seq(Items)
    <2>1. Len(base) \in Nat /\ base \in Seq(Items)
      BY <1>3, QueueFacts DEF QueueOK
    <2>. QED
      BY <1>3, <2>1, AfterRunningIn
  <1> HIDE DEF k
  <1>7. lo \in Seq(Items) /\ hi \in Seq(Items) /\ lo \o hi = base
    BY <1>6, SplitWhole
  <1> HIDE DEF lo, hi
  <1>8. Orderly(base, queue')
    <2>1. Unhurried(lo \o hi)
      BY <1>3, <1>7 DEF Orderly
    <2>2. Orderly(lo \o hi, lo \o stranded \o hi)
      BY <1>4, <1>5, <1>7, <2>1, OrderlyInside
    <2>. QED
      BY <1>1, <1>7, <2>2
  <1>9. Ids(queue) \intersect Ids(queue') \subseteq Ids(base)
    BY <1>3
  <1>. QED
    BY <1>3, <1>8, <1>9, OrderlyTwice

\* Of what clients, the user and the session ask for, only sending a row now
\* and a reorder let a prompt pass another.
LEMMA RequestsOrder ==
  ASSUME Inv, Unhurried(queue), QueueOK(queue'), Requests
  PROVE  \/ Orderly(queue, queue')
         \/ \E u \in UserPrompts : SendNowStep(u)
         \/ ReorderStep
  <1>1. QueueOK(queue) /\ Fronted(queue)
    BY QueueHolds
  <1>2. CASE \E p \in UserPrompts \union Wakes, now, blocked, goal \in BOOLEAN :
               Prompt(p, now, blocked, goal)
    BY <1>2, PromptOrder
  <1>3. CASE \E p \in Summaries : GoalSummaryTurn(p)
    <2>1. PICK p \in Summaries : queue' = Append(queue, Item(p))
      BY <1>3 DEF GoalSummaryTurn
    <2>2. p \in Synthetic
      BY DEF Synthetic
    <2>. QED
      BY <1>1, <2>1, <2>2, OwnPromptOrder
  <1>4. CASE \E n \in Notes : InjectNotification(n) \/ DropMonitorNotifications(n)
    <2>1. queue' = queue
      BY <1>4 DEF InjectNotification, DropMonitorNotifications
    <2>. QED
      BY <2>1, OrderlyStill
  <1>5. CASE \E u \in UserPrompts, v \in 0..MaxVersion, o \in Clients \union {None} :
               RemoveQueuedPrompt(u, v, o)
    BY <1>5, RemoveOrder
  <1>6. CASE \E u \in UserPrompts : EditQueuedPrompt(u) \/ SendNowStep(u)
    BY <1>6, EditOrder
  <1>7. CASE \E o \in Clients \union {None} : ClearQueue(o)
    <2>1. PICK dropped : queue' = Swept(queue, dropped)
      BY <1>7 DEF ClearQueue
    <2>. QED
      BY <1>1, <2>1, SweptOrder
  <1>8. CASE \E i \in Interjections : Interject(i)
    BY <1>8, InterjectOrder
  <1>9. CASE \E mode \in {"keep", "rewind", "teardown"} : Cancel(mode)
    <2>1. queue' = queue
      BY <1>9 DEF Cancel, lockVars
    <2>. QED
      BY <2>1, OrderlyStill
  <1>10. CASE Shutdown
    BY <1>10, FrontOrder DEF Shutdown
  <1>. QED
    BY <1>2, <1>3, <1>4, <1>5, <1>6, <1>7, <1>8, <1>9, <1>10 DEF Requests

\* The other arms of the actor let none pass.
LEMMA ActorOrder ==
  ASSUME Inv, Unhurried(queue), QueueOK(queue'), ActorStep
  PROVE  Orderly(queue, queue')
  <1>1. QueueOK(queue)
    BY QueueHolds
  <1>2. CASE CancelRewinds \/ CancelTakes \/ Complete
    <2>1. queue' = queue \/ queue' = <<>> \/ (queue # <<>> /\ queue' = Tail(queue))
      BY <1>2 DEF CancelRewinds, CancelTakes, Complete
    <2>. QED
      BY <2>1, FrontOrder
  <1>3. CASE CancelForSendNow \/ CancelTail \/ TakeCompletion \/ ActorStart
    <2>1. queue' = queue
      BY <1>3 DEF CancelForSendNow, CancelTail, TakeCompletion, ActorStart, lockVars
    <2>. QED
      BY <2>1, OrderlyStill
  <1>4. CASE \E goal \in Summaries \union {None} : FlushStranded(goal)
    BY <1>4, FlushOrder
  <1>5. CASE \E dropped \in BOOLEAN : DrainNotifications(dropped)
    <2>1. \/ queue' = queue
          \/ notes # <<>> /\ queue' = Append(queue, Item(notes[1]))
      BY <1>5 DEF DrainNotifications
    <2>2. CASE queue' = queue
      BY <2>2, OrderlyStill
    <2>3. CASE notes # <<>> /\ queue' = Append(queue, Item(notes[1]))
      <3>1. notes \in Seq(Notes)
        BY DEF Inv, TypeOK
      <3>2. notes[1] \in Notes
        BY <2>3, <3>1
      <3>3. notes[1] \in Synthetic
        BY <3>2 DEF Synthetic
      <3>. QED
        BY <1>1, <2>3, <3>3, OwnPromptOrder
    <2>. QED
      BY <2>1, <2>2, <2>3
  <1>. QED
    BY <1>2, <1>3, <1>4, <1>5 DEF ActorStep

\* Nor do the turns and the other tasks.
LEMMA TaskOrder ==
  ASSUME Inv, Unhurried(queue),
         (\E p \in Prompts : TurnStep(p)) \/ OtherTasks
  PROVE  Orderly(queue, queue')
  <1>1. QueueOK(queue) /\ Fronted(queue)
    BY QueueHolds
  <1>2. CASE \E p \in Prompts, c \in Wakes \union Notes : ConsumeCompletion(p, c)
    <2>1. PICK dropped : queue' = Swept(queue, dropped)
      BY <1>2 DEF ConsumeCompletion
    <2>. QED
      BY <1>1, <2>1, SweptOrder
  <1>3. CASE \E p \in PlanResumes : PlanResumed(p)
    <2>1. PICK p \in PlanResumes : queue' = Append(queue, Item(p))
      BY <1>3 DEF PlanResumed
    <2>2. p \in Synthetic
      BY DEF Synthetic
    <2>. QED
      BY <1>1, <2>1, <2>2, OwnPromptOrder
  <1>4. CASE queue' = queue
    BY <1>4, OrderlyStill
  <1>. QED
    BY <1>2, <1>3, <1>4 DEF TurnStep, OtherTasks, McpStart, FirstUpdate, DrainInterjections,
       EndTurn, SendCompletion, lockVars

\* Who passes whom in one step.
LEMMA OrderStep ==
  ASSUME Inv, Inv', Unhurried(queue), [Next]_vars
  PROVE  Unhurried(queue') /\ InTurn /\ Yielding
  <1>1. QueueOK(queue) /\ QueueOK(queue')
    BY QueueHolds, QueueNext
  <1>2. \/ Orderly(queue, queue')
        \/ \E u \in UserPrompts : SendNowStep(u)
        \/ ReorderStep
    <2>1. CASE UNCHANGED vars
      <3>1. queue' = queue
        BY <2>1 DEF vars
      <3>. QED
        BY <3>1, OrderlyStill
    <2>. QED
      BY <1>1, <2>1, RequestsOrder, ActorOrder, TaskOrder DEF Next
  <1>3. \A x, y : Before(queue, x, y) <=> Ahead(queue, x, y)
    BY <1>1, BeforeIsAhead
  <1>4. \A x, y : Before(queue', x, y) <=> Ahead(queue', x, y)
    BY <1>1, BeforeIsAhead
  <1>5. CASE Orderly(queue, queue')
    BY <1>3, <1>4, <1>5 DEF Orderly, InTurn, Yielding
  <1>6. CASE \E u \in UserPrompts : SendNowStep(u)
    <2>1. PICK u \in UserPrompts : SendNowStep(u)
      BY <1>6
    <2>2. /\ Unhurried(queue')
          /\ \A w \in Wakes, t \in UserPrompts :
               Ahead(queue', w, t) /\ w # running => Ahead(queue, w, t)
          /\ \A x, y \in Ids(queue) \intersect Ids(queue') :
               Ahead(queue, x, y) => \/ Ahead(queue', x, y)
                                     \/ IsNow(queue', y) /\ ~LeadingNow(queue, x)
                                     \/ x = u
      BY <1>1, <2>1, SendNowOrder
    <2>3. Yielding
      BY <1>3, <1>4, <2>2 DEF Yielding
    <2>4. InTurn
      BY <1>3, <1>4, <2>1, <2>2 DEF InTurn
    <2>. QED
      BY <2>2, <2>3, <2>4
  <1>7. CASE ReorderStep
    BY <1>7, ReorderUnhurried DEF InTurn, Yielding
  <1>. QED
    BY <1>2, <1>5, <1>6, <1>7

\* No wake is ever marked as sent now.
LEMMA WakesUnhurried == Spec => []Unhurried(queue)
  <1>1. Init => Unhurried(queue)
    BY DEF Init, Unhurried
  <1>2. Inv /\ Inv' /\ Unhurried(queue) /\ [Next]_vars => Unhurried(queue)'
    BY OrderStep
  <1>. QED
    BY <1>1, <1>2, QueueInvariant, PTL DEF Spec

\* Whatever the clients, the session and the turns do to pending_inputs between
\* the awaits of the actor, a prompt passes another only when its client sends
\* it now, and never one that was sent now before it.
THEOREM NobodyOvertakes == Spec => NoOvertaking
  <1>1. Inv /\ Inv' /\ Unhurried(queue) /\ [Next]_vars => [InTurn]_queue
    BY OrderStep
  <1>. QED
    BY <1>1, QueueInvariant, WakesUnhurried, PTL DEF Spec, NoOvertaking

\* A wake that waits does not get in front of a user's prompt: what the user
\* sends sweeps the waiting wakes away, and none is ever sent now.
THEOREM WakesStandBack == Spec => WakesYield
  <1>1. Inv /\ Inv' /\ Unhurried(queue) /\ [Next]_vars => [Yielding]_queue
    BY OrderStep
  <1>. QED
    BY <1>1, QueueInvariant, WakesUnhurried, PTL DEF Spec, WakesYield

=============================================================================
