----------------------- MODULE PromptQueueRefinement -----------------------
(***************************************************************************)
(* PromptQueue implements PromptLedger: every step of the actor, of a turn *)
(* task or of another starter is a step of the ledger, or leaves it as it  *)
(* is.                                                                     *)
(*                                                                         *)
(* The ledger reads one status per prompt off the queue, the running slot, *)
(* the answers and the prompts a cancel has in hand.  Clean says that      *)
(* these never disagree; with the invariant it is what the mapping needs.  *)
(***************************************************************************)
EXTENDS PromptQueueProofs

\* A prompt that was answered is not queued, one that a cancel will answer is
\* neither, and only the tail of a cancel has any in hand.
Clean ==
  /\ answered \intersect Queued = {}
  /\ arm.settle \intersect (Queued \union answered) = {}
  /\ arm.settle # {} => pc = "tail"
  /\ pc = "stopped" => \A p \in Prompts : turn[p] = "none"

Ledgered == Clean' /\ [Ledger!LedgerNext]_Status

-----------------------------------------------------------------------------
(* The status of a prompt, before and after a step.                        *)

\* What the status says, while the session goes on.
LEMMA StatusNow ==
  ASSUME Inv, Clean, pc # "stopped", NEW p \in Prompts
  PROVE  /\ Status[p] = "answered" <=> (p \in answered)
         /\ Status[p] = "running" <=> (p = running)
         /\ Status[p] = "waiting" <=> (p \in Ids(queue) /\ p # running)
         /\ Status[p] = "settling" <=> (p \in arm.settle)
         /\ Status[p] = "new" <=> (p \notin answered \union Ids(queue) \union arm.settle)
         /\ Status[p] # "dropped"
  <1>1. running # None => running \in Ids(queue)
    BY QueueHolds, QueueFacts DEF Fronted
  <1>2. None \notin Prompts
    BY TypeFacts DEF Inv
  <1>. QED
    BY <1>1, <1>2 DEF Status, Clean, Queued

\* What it says after a step.
LEMMA StatusNext ==
  ASSUME Inv', Clean', pc' # "stopped", NEW p \in Prompts
  PROVE  /\ Status'[p] = "answered" <=> (p \in answered')
         /\ Status'[p] = "running" <=> (p = running')
         /\ Status'[p] = "waiting" <=> (p \in Ids(queue') /\ p # running')
         /\ Status'[p] = "settling" <=> (p \in arm'.settle)
         /\ Status'[p] = "new" <=> (p \notin answered' \union Ids(queue') \union arm'.settle)
         /\ Status'[p] # "dropped"
  <1>1. running' # None => running' \in Ids(queue')
    <2>1. QueueOK(queue')
      <3>1. DOMAIN queue' = 1..Len(queue')
        BY DEF Inv, TypeOK
      <3>. QED
        BY <3>1 DEF Inv, TypeOK, QueueOK, IsInjective
    <2>2. running' # None => queue' # <<>> /\ queue'[1].id = running'
      BY DEF Inv, Placed, RunningIsFront
    <2>. QED
      BY <2>1, <2>2, QueueFacts
  <1>2. None \notin Prompts
    BY QueueAssumption
  <1>. QED
    BY <1>1, <1>2 DEF Status, Clean, Queued

-----------------------------------------------------------------------------
(* Steps of the ledger, from what becomes of the queue and the answers.    *)

\* A step that moves no prompt leaves the ledger as it is.
LEMMA NothingMoves ==
  ASSUME Ledger!Moved = {}
  PROVE  Status' = Status
  <1>1. \A p \in Prompts : Status'[p] = Status[p]
    BY DEF Ledger!Moved
  <1>2. Status = [p \in Prompts |-> Status[p]] /\ Status' = [p \in Prompts |-> Status'[p]]
    BY DEF Status
  <1>. QED
    BY <1>1, <1>2

\* Any entry of the ledger will do.
LEMMA Booked ==
  ASSUME \/ Ledger!Submit \/ Ledger!Preempt \/ Ledger!Start \/ Ledger!Finish
         \/ Ledger!Withdraw \/ Ledger!Interrupt \/ Ledger!Teardown \/ Ledger!Settle
         \/ Ledger!Stop \/ Ledger!Moved = {}
  PROVE  [Ledger!LedgerNext]_Status
  BY NothingMoves DEF Ledger!LedgerNext

\* A step that neither takes a prompt in hand nor settles one, and stops
\* nothing.
Calm ==
  /\ arm'.settle = arm.settle
  /\ pc = "tail" => pc' = "tail"
  /\ pc' # "stopped"

\* Such a step keeps the places of the prompts apart: X joins, D leaves, and
\* only of D is anything answered.
LEMMA CleanStep ==
  ASSUME Inv, Clean, Calm, NEW X, \A p \in X : Unused(p), NEW D, D \subseteq Queued,
         Queued' \subseteq (Queued \ D) \union X, answered' \subseteq answered \union D
  PROVE  Clean'
  <1>1. \A p \in X : p \notin Queued \union answered \union arm.settle
    BY DEF Unused, Queued
  <1>2. answered' \intersect Queued' = {}
    BY <1>1 DEF Clean
  <1>3. arm'.settle \intersect (Queued' \union answered') = {}
    BY <1>1 DEF Clean, Calm
  <1>. QED
    BY <1>2, <1>3 DEF Clean, Calm

\* Nothing that the ledger can see happens.
LEMMA Quiet ==
  ASSUME Inv, Inv', Clean, Calm, pc # "stopped",
         NEW X, \A p \in X : Unused(p), Queued' \subseteq Queued \union X,
         Ids(queue') = Ids(queue), running' = running, answered' = answered
  PROVE  Ledgered
  <1> DEFINE D == {}
  <1>1. D \subseteq Queued /\ Queued' \subseteq (Queued \ D) \union X
        /\ answered' \subseteq answered \union D
    OBVIOUS
  <1> HIDE DEF D
  <1>2. Clean'
    BY <1>1, CleanStep
  <1>3. Ledger!Moved = {}
    <2>1. \A p \in Prompts : Status'[p] = Status[p]
      BY <1>2, StatusNow, StatusNext DEF Calm
    <2>. QED
      BY <2>1 DEF Ledger!Moved
  <1>. QED
    BY <1>2, <1>3, Booked DEF Ledgered

\* Prompts join the queue, X; synthetic ones that wait leave it, D; with
\* nothing running one of the queue may start.
LEMMA Submits ==
  ASSUME Inv, Inv', Clean, Calm, pc # "stopped",
         NEW X, X \subseteq Prompts, X # {},
         \A p \in X : Unused(p) \/ p \in Queued \ Ids(queue),
         NEW D, D \subseteq Synthetic, running \notin D,
         Ids(queue') = (Ids(queue) \ D) \union X, Queued' \subseteq Queued \union X,
         running' = running \/ (running = None /\ running' \in Ids(queue')),
         answered' = answered
  PROVE  Ledgered
  <1> DEFINE none == {}
             new == {p \in X : Unused(p)}
  <1>1. /\ none \subseteq Queued /\ Queued' \subseteq (Queued \ none) \union new
        /\ answered' \subseteq answered \union none /\ \A p \in new : Unused(p)
    BY DEF Queued
  <1> HIDE DEF none, new
  <1>2. Clean'
    BY <1>1, CleanStep
  <1>3. \A p \in X : p \notin answered \union Ids(queue) \union arm.settle
    BY DEF Unused, Clean
  <1>4. None \notin Prompts /\ Ids(queue) \subseteq Prompts
    BY TypeFacts DEF Inv
  <1> DEFINE dropped == (D \intersect Ids(queue)) \ X
             started == IF running' = running THEN {} ELSE {running'}
  <1>5. /\ \A p \in Prompts : Status[p] = "new" /\ Status'[p] \in {"waiting", "running"} <=> p \in X
        /\ \A p \in Prompts : Status[p] = "waiting" /\ Status'[p] = "new" <=> p \in dropped
        /\ \A p \in Prompts :
             Status[p] \in {"new", "waiting"} /\ Status'[p] = "running" <=> p \in started
        /\ \A p \in Prompts : Status'[p] # Status[p] => p \in X \union dropped \union started
        /\ started # {} => \A p \in Prompts : Status[p] # "running"
    BY <1>2, <1>3, <1>4, StatusNow, StatusNext DEF Calm
  <1>6. started \subseteq Prompts /\ \A p, q \in started : p = q
    <2>1. running' = running \/ running' \in Prompts
      BY <1>4
    <2>. QED
      BY <2>1
  <1>7. dropped \subseteq Prompts /\ dropped \subseteq Synthetic
    BY <1>4
  <1> HIDE DEF dropped, started
  <1>8. {p \in Ledger!In("new") : Status'[p] \in {"waiting", "running"}} = X
    BY <1>5 DEF Ledger!In
  <1>9. Ledger!Moves({"waiting"}, "new") = dropped
    BY <1>5, <1>7 DEF Ledger!Moves, Ledger!In
  <1>10. Ledger!Moves({"new", "waiting"}, "running") = started
    BY <1>5, <1>6 DEF Ledger!Moves, Ledger!In
  <1>11. Ledger!Moved = X \union dropped \union started
    <2>1. \A p \in X \union dropped \union started : p \in Prompts /\ Status'[p] # Status[p]
      BY <1>5, <1>6, <1>7
    <2>. QED
      BY <1>5, <2>1 DEF Ledger!Moved
  <1>12. started # {} => Ledger!In("running") = {}
    BY <1>5 DEF Ledger!In
  <1>13. Ledger!Submit
    BY <1>6, <1>7, <1>8, <1>9, <1>10, <1>11, <1>12 DEF Ledger!Submit
  <1>. QED
    BY <1>2, <1>13, Booked DEF Ledgered

\* With nothing running, one of the queue may start.
LEMMA Starts ==
  ASSUME Inv, Inv', Clean, Calm, pc # "stopped", Queued' \subseteq Queued,
         Ids(queue') = Ids(queue), answered' = answered,
         running' = running \/ (running = None /\ running' \in Ids(queue'))
  PROVE  Ledgered
  <1> DEFINE none == {}
  <1>1. /\ none \subseteq Queued /\ Queued' \subseteq (Queued \ none) \union none
        /\ answered' \subseteq answered \union none /\ \A p \in none : Unused(p)
    OBVIOUS
  <1> HIDE DEF none
  <1>2. Clean'
    BY <1>1, CleanStep
  <1>3. None \notin Prompts
    BY QueueAssumption
  <1>4. CASE running' = running
    BY <1>4, <1>1, Quiet
  <1>5. CASE running = None /\ running' \in Ids(queue')
    <2>1. \A p \in Prompts :
            /\ Status[p] # "running"
            /\ Status'[p] # Status[p] => Status[p] = "waiting" /\ Status'[p] = "running"
            /\ Status'[p] = "running" => p = running'
      BY <1>2, <1>3, <1>5, StatusNow, StatusNext DEF Calm
    <2>2. Ledger!Start
      BY <2>1 DEF Ledger!Start, Ledger!In, Ledger!Moves, Ledger!Moved
    <2>. QED
      BY <1>2, <2>2, Booked DEF Ledgered
  <1>. QED
    BY <1>4, <1>5

\* A synthetic prompt that waits leaves the queue.
LEMMA Leaves ==
  ASSUME Inv, Inv', Clean, Calm, pc # "stopped", Queued' \subseteq Queued,
         NEW D, D \subseteq Synthetic, running \notin D, Ids(queue') = Ids(queue) \ D,
         running' = running, answered' = answered
  PROVE  Ledgered
  <1> DEFINE none == {}
  <1>1. /\ none \subseteq Queued /\ Queued' \subseteq (Queued \ none) \union none
        /\ answered' \subseteq answered \union none /\ \A p \in none : Unused(p)
    OBVIOUS
  <1> HIDE DEF none
  <1>2. Clean'
    BY <1>1, CleanStep
  <1>3. \A p \in Prompts :
          Status'[p] # Status[p] => Status[p] = "waiting" /\ Status'[p] = "new" /\ p \in Synthetic
    BY <1>2, StatusNow, StatusNext DEF Calm
  <1>4. Ledger!Preempt
    BY <1>3 DEF Ledger!Preempt, Ledger!In, Ledger!Moves, Ledger!Moved
  <1>. QED
    BY <1>2, <1>4, Booked DEF Ledgered

\* Clients take rows back that wait, and get their answer.
LEMMA Withdraws ==
  ASSUME Inv, Inv', Clean, Calm, pc # "stopped",
         NEW D, D \subseteq UserPrompts \intersect Ids(queue), running \notin D,
         Queued' \subseteq Queued \ D, Ids(queue') = Ids(queue) \ D,
         running' = running, answered' = answered \union D
  PROVE  Ledgered
  <1> DEFINE none == {}
  <1>1. /\ D \subseteq Queued /\ Queued' \subseteq (Queued \ D) \union none
        /\ answered' \subseteq answered \union D /\ \A p \in none : Unused(p)
    BY DEF Queued
  <1> HIDE DEF none
  <1>2. Clean'
    BY <1>1, CleanStep
  <1>3. \A p \in Prompts :
          Status'[p] # Status[p] =>
            Status[p] = "waiting" /\ Status'[p] = "answered" /\ p \in UserPrompts
    BY <1>2, StatusNow, StatusNext DEF Calm
  <1>4. Ledger!Withdraw
    BY <1>3 DEF Ledger!Withdraw, Ledger!In, Ledger!Moved, Ledger!Settled
  <1>. QED
    BY <1>2, <1>4, Booked DEF Ledgered

\* The running prompt is done, and answered if somebody waits for it.
LEMMA Finishes ==
  ASSUME Inv, Inv', Clean, Calm, pc # "stopped", running \in Prompts,
         Queued' \subseteq Queued \ {running}, Ids(queue') = Ids(queue) \ {running},
         running' = None, answered' = answered \union ({running} \intersect UserPrompts)
  PROVE  Ledgered
  <1> DEFINE none == {}
  <1>1. /\ {running} \subseteq Queued /\ Queued' \subseteq (Queued \ {running}) \union none
        /\ answered' \subseteq answered \union {running} /\ \A p \in none : Unused(p)
    <2>1. running \in Ids(queue)
      BY QueueHolds, QueueFacts, QueueAssumption DEF Fronted
    <2>. QED
      BY <2>1 DEF Queued
  <1> HIDE DEF none
  <1>2. Clean'
    BY <1>1, CleanStep
  <1>3. None \notin Prompts
    BY QueueAssumption
  <1>4. \A p \in Prompts :
          Status'[p] # Status[p] =>
            /\ Status[p] = "running"
            /\ p \in UserPrompts => Status'[p] = "answered"
            /\ p \notin UserPrompts => Status'[p] = "new"
    <2>1. running \notin answered \union arm.settle
      BY <1>1 DEF Clean
    <2>. QED
      BY <1>2, <1>3, <2>1, StatusNow, StatusNext DEF Calm
  <1>5. Ledger!Finish
    BY <1>4 DEF Ledger!Finish, Ledger!In, Ledger!Moved, Ledger!Settled
  <1>. QED
    BY <1>2, <1>5, Booked DEF Ledgered

\* A cancel takes the running prompt in hand, if there is one.
LEMMA Interrupts ==
  ASSUME Inv, Inv', Clean, pc = "lock", pc' = "tail",
         NEW T, T \subseteq Ids(queue),
         T = {running} \/ (T = {} /\ running = None),
         Queued' \subseteq Queued \ T, Ids(queue') = Ids(queue) \ T,
         running' = None, answered' = answered, arm'.settle = T
  PROVE  Ledgered
  <1>1. Clean'
    BY DEF Clean, Queued
  <1>2. None \notin Prompts /\ arm.settle = {} /\ Ids(queue) \subseteq Prompts
    BY TypeFacts DEF Clean, Inv
  <1>3. \A p \in Prompts :
          Status'[p] # Status[p] => Status[p] = "running" /\ Status'[p] = "settling"
    BY <1>1, <1>2, StatusNow, StatusNext
  <1>4. Ledger!Interrupt
    BY <1>3 DEF Ledger!Interrupt, Ledger!In, Ledger!Moves, Ledger!Moved
  <1>. QED
    BY <1>1, <1>4, Booked DEF Ledgered

\* The cancel of a teardown takes all of them.
LEMMA TearsDown ==
  ASSUME Inv, Inv', Clean, pc = "lock", pc' = "tail",
         Queued' \subseteq Queued \ Ids(queue), Ids(queue') = {},
         running' = None, answered' = answered, arm'.settle = Ids(queue)
  PROVE  Ledgered
  <1>1. Clean'
    BY DEF Clean, Queued
  <1>2. None \notin Prompts /\ arm.settle = {} /\ Ids(queue) \subseteq Prompts
    BY TypeFacts DEF Clean, Inv
  <1>3. running # None => running \in Ids(queue)
    BY QueueHolds, QueueFacts DEF Fronted
  <1>4. \A p \in Prompts :
          /\ Status'[p] # Status[p] => Status[p] \in {"running", "waiting"} /\ Status'[p] = "settling"
          /\ Status[p] \in {"running", "waiting"} => Status'[p] = "settling"
    BY <1>1, <1>2, <1>3, StatusNow, StatusNext
  <1>5. Ledger!Teardown
    BY <1>4 DEF Ledger!Teardown, Ledger!In, Ledger!Moves, Ledger!Moved
  <1>. QED
    BY <1>1, <1>5, Booked DEF Ledgered

\* The tail of a cancel answers what it has in hand.
LEMMA Settles ==
  ASSUME Inv, Inv', Clean, pc = "tail", pc' = "start",
         queue' = queue, running' = running, Queued' = Queued, arm'.settle = {},
         answered' = answered \union (arm.settle \intersect UserPrompts)
  PROVE  Ledgered
  <1>1. Clean'
    BY DEF Clean, Queued
  <1>2. running # None => running \in Ids(queue)
    BY QueueHolds, QueueFacts DEF Fronted
  <1>3. /\ arm.settle \intersect (answered \union Ids(queue)) = {}
        /\ running \in Prompts => running \notin arm.settle
    BY <1>2, QueueAssumption DEF Clean, Queued
  <1>4. \A p \in Prompts :
          /\ Status'[p] # Status[p] => Status[p] = "settling"
          /\ Status[p] = "settling" =>
               /\ p \in UserPrompts => Status'[p] = "answered"
               /\ p \notin UserPrompts => Status'[p] = "new"
    BY <1>1, <1>3, StatusNow, StatusNext
  <1>5. Ledger!Settle
    BY <1>4 DEF Ledger!Settle, Ledger!In, Ledger!Moved, Ledger!Settled
  <1>. QED
    BY <1>1, <1>5, Booked DEF Ledgered

-----------------------------------------------------------------------------
(* The commands.                                                           *)

\* What an arm does to its locals does not take a prompt in hand.
LEMMA ArmCalm ==
  ASSUME Inv, Clean, pc # "tail"
  PROVE  /\ arm.settle = {} /\ Rested.settle = {} /\ Resting.settle = {}
         /\ \A m : [arm EXCEPT !.mode = m].settle = {}
         /\ \A m, s : [arm EXCEPT !.mode = m, !.snap = s].settle = {}
         /\ \A s : [arm EXCEPT !.snap = s].settle = {}
         /\ \A p : [arm EXCEPT !.prompt = p].settle = {}
  BY ArmTyped DEF Clean, Rested, Resting

\* The Prompt arm submits a prompt; a sweep may drop the synthetic ones.
LEMMA PromptBooked ==
  ASSUME Inv, Inv', Clean, NEW p \in UserPrompts \union Wakes, NEW now, NEW blocked, NEW goal,
         Prompt(p, now, blocked, goal)
  PROVE  Ledgered
  <1> DEFINE base == IF Preempted(p) THEN Swept(queue, Synthetic) ELSE queue
             D == IF Preempted(p) THEN Synthetic \ {running} ELSE {}
             X == {p}
  <1>1. p \in Prompts /\ p \notin Queued /\ Unused(p)
    BY UnusedFacts DEF Prompt, Prompts, Synthetic
  <1>2. QueueOK(base) /\ Fronted(base) /\ Ids(base) = Ids(queue) \ D
    <2>1. CASE Preempted(p)
      BY <2>1, QueueHolds, SweptQueue
    <2>2. CASE ~Preempted(p)
      BY <2>2, QueueHolds
    <2>. QED
      BY <2>1, <2>2
  <1>3. queue' = InsertNow(base, Item(p)) \/ queue' = Append(base, Item(p))
    BY DEF Prompt
  <1>4. /\ UNCHANGED <<running, notes, buffer, answered>>
        /\ pc = "idle" /\ pc' \in {"start", "begin"}
        /\ pc' = "begin" => running # None
        /\ arm' = arm \/ arm' = [arm EXCEPT !.mode = "send_now"]
    BY DEF Prompt, turnVars, Receiving, Idle
  <1>5. D \subseteq Synthetic /\ running \notin D
    BY TypeFacts DEF Inv, TypeOK
  <1> HIDE DEF base, D
  <1>6. Ids(queue') = (Ids(queue) \ D) \union X
    <2>1. p \notin Ids(base)
      BY <1>1, <1>2 DEF Queued
    <2>2. CASE queue' = InsertNow(base, Item(p))
      <3>1. Item(p) \in Items /\ Item(p).id = p
        BY <1>1, NewItem
      <3>. QED
        BY <1>2, <2>1, <2>2, <3>1, InsertNowQueue
    <2>3. CASE queue' = Append(base, Item(p))
      BY <1>1, <1>2, <2>1, <2>3, AppendNew
    <2>. QED
      BY <1>3, <2>2, <2>3
  <1>7. Calm
    BY <1>4, ArmCalm DEF Calm
  <1>8. Queued' \subseteq Queued \union X
    BY <1>4, <1>6 DEF Queued
  <1>9. X \subseteq Prompts /\ X # {} /\ \A q \in X : Unused(q) \/ q \in Queued \ Ids(queue)
    BY <1>1
  <1> HIDE DEF X
  <1>. QED
    BY <1>4, <1>5, <1>6, <1>7, <1>8, <1>9, Submits

\* The arm of a goal's summary turn submits one too.
LEMMA GoalSummaryTurnBooked ==
  ASSUME Inv, Inv', Clean, NEW p \in Summaries, GoalSummaryTurn(p)
  PROVE  Ledgered
  <1> DEFINE X == {p}
             D == {}
  <1>1. p \in Prompts /\ p \notin Queued /\ Unused(p)
    BY UnusedFacts DEF GoalSummaryTurn, Prompts, Synthetic
  <1>2. /\ pc = "idle" /\ pc' = "start" /\ queue' = Append(queue, Item(p))
        /\ UNCHANGED <<running, notes, buffer, arm, answered>>
    BY DEF GoalSummaryTurn, turnVars, Receiving, Idle
  <1>3. Ids(queue') = (Ids(queue) \ D) \union X
    BY <1>1, <1>2, QueueHolds, AppendNew DEF Queued
  <1>4. Calm
    BY <1>2 DEF Calm
  <1>5. /\ X \subseteq Prompts /\ X # {} /\ Queued' \subseteq Queued \union X
        /\ \A q \in X : Unused(q) \/ q \in Queued \ Ids(queue)
        /\ D \subseteq Synthetic /\ running \notin D
    BY <1>1, <1>2, <1>3 DEF Queued
  <1> HIDE DEF X, D
  <1>. QED
    BY <1>2, <1>3, <1>4, <1>5, Submits

\* Notifications are not prompts yet: they come and go unseen.
LEMMA NotificationsUnseen ==
  ASSUME Inv, Inv', Clean, NEW n \in Notes, InjectNotification(n) \/ DropMonitorNotifications(n)
  PROVE  Ledgered
  <1> DEFINE X == IF Unused(n) THEN {n} ELSE {}
  <1>1. /\ pc = "idle" /\ pc' \in {"idle", "drain"}
        /\ UNCHANGED <<queue, running, buffer, arm, answered>>
    BY DEF InjectNotification, DropMonitorNotifications, turnVars, Receiving, Idle
  <1>2. ToSet(notes') \subseteq ToSet(notes) \union X
    <2>1. CASE InjectNotification(n)
      BY <2>1, InjectedNotes DEF InjectNotification
    <2>2. CASE DropMonitorNotifications(n)
      BY <2>2, KeptNotes DEF DropMonitorNotifications
    <2>. QED
      BY <2>1, <2>2
  <1>3. Calm
    BY <1>1 DEF Calm
  <1>4. Queued' \subseteq Queued \union X /\ \A p \in X : Unused(p)
    BY <1>1, <1>2 DEF Queued
  <1> HIDE DEF X
  <1>. QED
    BY <1>1, <1>3, <1>4, Quiet

\* A client takes a row back, or is refused.
LEMMA RemoveBooked ==
  ASSUME Inv, Inv', Clean, NEW u \in UserPrompts, NEW v, NEW o, RemoveQueuedPrompt(u, v, o)
  PROVE  Ledgered
  <1>1. /\ pc = "idle" /\ pc' = pc /\ UNCHANGED <<running, notes, buffer, arm>>
    BY DEF RemoveQueuedPrompt, turnVars, Receiving, Idle
  <1>2. Calm
    BY <1>1 DEF Calm
  <1>3. CASE queue' = queue /\ answered' = answered
    <2> DEFINE X == {}
    <2>1. Queued' \subseteq Queued \union X /\ \A p \in X : Unused(p)
      BY <1>1, <1>3 DEF Queued
    <2> HIDE DEF X
    <2>. QED
      BY <1>1, <1>2, <1>3, <2>1, Quiet
  <1>4. CASE Row(u, v, o) /\ queue' = RemoveAt(queue, Position(queue, u)) /\ Answer({u})
    <2> DEFINE D == {u}
    <2>1. u \in Ids(queue) /\ u # running
      BY <1>4 DEF Row, Ids
    <2>2. Position(queue, u) \in 1..Len(queue) /\ queue[Position(queue, u)].id = u
      BY <2>1, QueueHolds, PositionOf
    <2>3. Ids(queue') = Ids(queue) \ D
      BY <1>4, <2>2, QueueHolds, RemoveQueue
    <2>4. answered' = answered \union D
      BY <1>4 DEF Answer
    <2>5. Separate
      BY DEF Inv, Placed
    <2>6. /\ D \subseteq UserPrompts \intersect Ids(queue) /\ running \notin D
          /\ Queued' \subseteq Queued \ D
      BY <1>1, <2>1, <2>3, <2>5 DEF Queued, Separate
    <2> HIDE DEF D
    <2>. QED
      BY <1>1, <1>2, <2>3, <2>4, <2>6, Withdraws
  <1>. QED
    BY <1>3, <1>4 DEF RemoveQueuedPrompt

\* Clearing takes all rows of a client back.
LEMMA ClearBooked ==
  ASSUME Inv, Inv', Clean, NEW o, ClearQueue(o)
  PROVE  Ledgered
  <1> DEFINE cleared == {u \in UserPrompts : o \in {None, OwnerOf[u]}}
             D == (Ids(queue) \intersect cleared) \ {running}
  <1>1. /\ pc = "idle" /\ pc' = pc /\ UNCHANGED <<running, notes, buffer, arm>>
        /\ queue' = Swept(queue, cleared) /\ Answer(D)
    BY DEF ClearQueue, turnVars, Receiving, Idle
  <1>2. Calm
    BY <1>1 DEF Calm
  <1>3. Ids(queue') = Ids(queue) \ D
    <2> HIDE DEF cleared
    <2>1. Ids(queue') = Ids(queue) \ (cleared \ {running})
      BY <1>1, QueueHolds, SweptQueue
    <2>. QED
      BY <2>1
  <1>4. Separate /\ D \subseteq UserPrompts \intersect Ids(queue) /\ running \notin D
    BY DEF Inv, Placed
  <1> HIDE DEF D
  <1>5. answered' = answered \union D /\ Queued' \subseteq Queued \ D
    BY <1>1, <1>3, <1>4 DEF Answer, Queued, Separate
  <1>. QED
    BY <1>1, <1>2, <1>3, <1>4, <1>5, Withdraws

\* Rows are edited, sent now and reordered: all of them keep waiting.
LEMMA RowsMoveUnseen ==
  ASSUME Inv, Inv', Clean,
         \/ \E u \in UserPrompts : EditQueuedPrompt(u) \/ SendNowStep(u)
         \/ ReorderStep
  PROVE  Ledgered
  <1> DEFINE X == {}
  <1>1. /\ pc = "idle" /\ UNCHANGED <<running, notes, buffer, answered>>
        /\ \/ pc' = pc /\ arm' = arm
           \/ pc' = "start" /\ arm' = arm
           \/ pc' = "begin" /\ running # None /\ arm' = [arm EXCEPT !.mode = "send_now"]
    BY DEF EditQueuedPrompt, SendNowStep, SendQueuedNow, ReorderStep, ReorderQueue, turnVars,
           Receiving, Idle
  <1>2. Ids(queue') = Ids(queue)
    BY EditedQueue, SentNowQueue, OrderedQueue DEF SendNowStep
  <1>3. Calm
    BY <1>1, ArmCalm DEF Calm
  <1>4. Queued' \subseteq Queued \union X /\ \A p \in X : Unused(p)
    BY <1>1, <1>2 DEF Queued
  <1> HIDE DEF X
  <1>. QED
    BY <1>1, <1>2, <1>3, <1>4, Quiet

\* An interjection is buffered for the turn, or is a prompt like another.
LEMMA InterjectBooked ==
  ASSUME Inv, Inv', Clean, NEW i \in Interjections, Interject(i)
  PROVE  Ledgered
  <1> DEFINE X == {i}
             D == {}
  <1>1. i \in Prompts /\ i \notin Queued /\ Unused(i)
    BY UnusedFacts DEF Interject, Prompts
  <1>2. /\ pc = "idle" /\ pc' \in {"idle", "start"}
        /\ UNCHANGED <<running, notes, arm, answered>>
        /\ \/ buffer' = Append(buffer, i) /\ queue' = queue
           \/ queue' = AsPrompt(queue, i) /\ buffer' = buffer
    BY DEF Interject, Receiving, Idle
  <1>3. Calm
    BY <1>2 DEF Calm
  <1>4. /\ X \subseteq Prompts /\ X # {} /\ \A p \in X : Unused(p)
        /\ D \subseteq Synthetic /\ running \notin D
    BY <1>1
  <1>5. CASE buffer' = Append(buffer, i) /\ queue' = queue
    <2>1. /\ buffer \in Seq(Interjections) /\ Len(buffer) \in Nat /\ DOMAIN buffer = 1..Len(buffer)
          /\ DOMAIN buffer' = 1..(Len(buffer) + 1)
          /\ \A j \in 1..(Len(buffer) + 1) :
               \/ j \in 1..Len(buffer) /\ buffer'[j] = buffer[j]
               \/ buffer'[j] = i
      BY <1>5, InvTyped
    <2>2. ToSet(buffer') \subseteq ToSet(buffer) \union X
      BY <2>1 DEF ToSet
    <2>3. Queued' \subseteq Queued \union X
      BY <1>2, <1>5, <2>2 DEF Queued
    <2> HIDE DEF X
    <2>. QED
      BY <1>2, <1>3, <1>4, <1>5, <2>3, Quiet
  <1>6. CASE queue' = AsPrompt(queue, i) /\ buffer' = buffer
    <2>1. Ids(queue') = (Ids(queue) \ D) \union X
      BY <1>1, <1>6, QueueHolds, AsPromptQueue DEF Queued
    <2>2. Queued' \subseteq Queued \union X
      BY <1>2, <1>6, <2>1 DEF Queued
    <2> HIDE DEF X, D
    <2>. QED
      BY <1>2, <1>3, <1>4, <2>1, <2>2, Submits
  <1>. QED
    BY <1>2, <1>5, <1>6

\* A cancel begins: nothing is taken yet.
LEMMA CancelBeginUnseen ==
  ASSUME Inv, Inv', Clean,
         CancelForSendNow \/ \E mode \in {"keep", "rewind", "teardown"} : Cancel(mode)
  PROVE  Ledgered
  <1> DEFINE X == {}
  <1>1. /\ pc \in {"idle", "begin"} /\ pc' = "lock" /\ buffer' = <<>>
        /\ UNCHANGED <<queue, running, notes, answered>>
    BY DEF CancelForSendNow, Cancel, lockVars, Receiving, Idle
  <1>2. arm'.settle = arm.settle
    <2>1. CASE CancelForSendNow
      BY <1>1, <2>1, ArmCalm DEF CancelForSendNow
    <2>2. CASE \E mode \in {"keep", "rewind", "teardown"} : Cancel(mode)
      BY <1>1, <2>2, ArmCalm DEF Cancel
    <2>. QED
      BY <2>1, <2>2
  <1>3. Calm
    BY <1>1, <1>2 DEF Calm
  <1>4. Queued' \subseteq Queued \union X /\ \A p \in X : Unused(p)
    BY <1>1, EmptyBuffer DEF Queued
  <1> HIDE DEF X
  <1>. QED
    BY <1>1, <1>3, <1>4, Quiet

\* The end of the actor drops what was not answered.
LEMMA ShutdownBooked ==
  ASSUME Inv, Inv', Clean, Shutdown
  PROVE  Ledgered
  <1>1. /\ pc = "idle" /\ pc' = "stopped" /\ answered' = answered
        /\ queue' = <<>> /\ notes' = <<>> /\ buffer' = <<>> /\ arm' = Resting
        /\ turn' = [p \in Prompts |-> "none"]
    BY DEF Shutdown, Idle
  <1>2. Queued' = {} /\ Ids(queue') = {} /\ arm'.settle = {}
    BY <1>1 DEF Queued, Ids, ToSet, Resting
  <1>3. Clean'
    BY <1>1, <1>2 DEF Clean
  <1>4. \A p \in Prompts :
          /\ Status[p] # "dropped" /\ (Status[p] = "answered" <=> p \in answered)
          /\ Status'[p] = IF p \in answered THEN "answered" ELSE "dropped"
    <2>1. \A p \in Prompts : Status'[p] = IF p \in answered THEN "answered" ELSE "dropped"
      BY <1>1, <1>2 DEF Status
    <2>. QED
      BY <1>1, <2>1, StatusNow
  <1>5. Ledger!Stop
    BY <1>4 DEF Ledger!Stop, Ledger!In, Ledger!Moved
  <1>. QED
    BY <1>3, <1>5, Booked DEF Ledgered

-----------------------------------------------------------------------------
(* The other arms of the actor.                                            *)

\* A pristine turn that is taken back: the running prompt is in hand.
LEMMA CancelRewindsBooked ==
  ASSUME Inv, Inv', Clean, CancelRewinds
  PROVE  Ledgered
  <1> DEFINE T == {running}
  <1>1. /\ pc = "lock" /\ pc' = "tail" /\ queue # <<>> /\ queue' = Tail(queue) /\ running' = None
        /\ arm' = [Resting EXCEPT !.mode = "rewind", !.settle = {queue[1].id}]
        /\ UNCHANGED <<notes, buffer, answered>>
    BY DEF CancelRewinds
  <1>2. running # None
    BY <1>1 DEF Inv, Placed, Backlog
  <1>3. arm'.settle = {queue[1].id}
    BY <1>1 DEF Resting
  <1>4. QueueOK(queue') /\ Ids(queue') \subseteq Ids(queue) \ {running}
        /\ Ids(queue) \ Ids(queue') = {running}
        /\ arm'.settle = {running}
    BY <1>1, <1>2, <1>3, FrontTaken
  <1>5. Separate
    BY DEF Inv, Placed
  <1>6. T \subseteq Ids(queue) /\ Ids(queue') = Ids(queue) \ T /\ Queued' \subseteq Queued \ T
    BY <1>1, <1>4, <1>5 DEF Queued, Separate
  <1>. QED
    BY <1>1, <1>4, <1>6, Interrupts

\* The lock section of a cancel takes the running prompt, or in a teardown all.
LEMMA CancelTakesBooked ==
  ASSUME Inv, Inv', Clean, CancelTakes
  PROVE  Ledgered
  <1> DEFINE T == Ids(queue) \ Ids(queue')
  <1>1. /\ pc = "lock" /\ pc' = "tail" /\ running' = None
        /\ queue' = (IF arm.mode = "teardown" \/ queue = <<>> THEN <<>> ELSE Tail(queue))
        /\ notes' = (IF arm.mode = "teardown" THEN <<>> ELSE notes)
        /\ UNCHANGED <<buffer, answered>>
    BY DEF CancelTakes, turnVars
  <1>2. arm'.settle = T
    BY ArmTyped DEF CancelTakes
  <1>3. Separate
    BY DEF Inv, Placed
  <1>4. queue = <<>> => Ids(queue) = {} /\ running = None
    BY QueueHolds, QueueFacts DEF Fronted
  <1>5. ToSet(notes') \subseteq ToSet(notes)
    BY <1>1 DEF ToSet
  <1>6. CASE arm.mode = "teardown" \/ queue = <<>>
    <2>1. Ids(queue') = {}
      BY <1>1, <1>6, NobodyWaits
    <2>2. arm'.settle = Ids(queue)
      BY <1>2, <2>1
    <2>3. Queued' \subseteq Queued \ Ids(queue)
      BY <1>1, <1>3, <1>5, <2>1 DEF Queued, Separate
    <2>. QED
      BY <1>1, <2>1, <2>2, <2>3, TearsDown
  <1>7. CASE ~(arm.mode = "teardown" \/ queue = <<>>)
    <2>1. queue # <<>> /\ queue' = Tail(queue) /\ running # None
      BY <1>1, <1>7 DEF Inv, Placed, Backlog
    <2>2. Ids(queue') \subseteq Ids(queue) /\ T = {running}
      <3>1. /\ Ids(queue') \subseteq Ids(queue) \ {running}
            /\ Ids(queue) \ Ids(queue') = {queue[1].id}
            /\ queue[1].id = running
        BY <2>1, FrontTaken
      <3>. QED
        BY <3>1
    <2>3. T \subseteq Ids(queue) /\ Ids(queue') = Ids(queue) \ T
      BY <2>2
    <2>4. Queued' \subseteq Queued \ T
      BY <1>1, <1>3, <1>5, <2>3 DEF Queued, Separate
    <2> HIDE DEF T
    <2>. QED
      BY <1>1, <1>2, <2>2, <2>3, <2>4, Interrupts
  <1>. QED
    BY <1>6, <1>7

\* Its tail answers what it took.
LEMMA CancelTailBooked ==
  ASSUME Inv, Inv', Clean, CancelTail
  PROVE  Ledgered
  <1>1. /\ pc = "tail" /\ pc' = "start" /\ UNCHANGED <<queue, running, notes, buffer>>
        /\ arm' = Rested /\ answered' = answered \union (arm.settle \intersect UserPrompts)
    BY DEF CancelTail, Answer
  <1>2. arm'.settle = {} /\ Queued' = Queued
    BY <1>1 DEF Rested, Resting, Queued
  <1>. QED
    BY <1>1, <1>2, Settles

\* Taking a completion out of the channel moves nobody.
LEMMA TakeCompletionUnseen ==
  ASSUME Inv, Inv', Clean, TakeCompletion
  PROVE  Ledgered
  <1> DEFINE X == {}
  <1>1. /\ pc = "idle" /\ pc' = "complete" /\ UNCHANGED <<queue, running, notes, buffer, answered>>
        /\ arm' = [arm EXCEPT !.prompt = completions[1]]
    BY DEF TakeCompletion, Idle, lockVars
  <1>2. Calm
    BY <1>1, ArmCalm DEF Calm
  <1>3. Queued' \subseteq Queued \union X /\ \A p \in X : Unused(p)
    BY <1>1 DEF Queued
  <1> HIDE DEF X
  <1>. QED
    BY <1>1, <1>2, <1>3, Quiet

\* The lock section of a completion finishes the running prompt; a stale one
\* finishes nobody.
LEMMA CompleteBooked ==
  ASSUME Inv, Inv', Clean, Complete
  PROVE  Ledgered
  <1> DEFINE p == arm.prompt
             owned == queue # <<>> /\ queue[1].id = p
  <1>1. /\ pc = "complete" /\ pc' = "flush"
        /\ queue' = IF owned THEN Tail(queue) ELSE queue
        /\ running' = IF running = p \/ owned THEN None ELSE running
        /\ arm' = IF owned THEN arm ELSE Rested
        /\ answered' = answered \union ((IF owned THEN {p} ELSE {}) \intersect UserPrompts)
        /\ UNCHANGED <<notes, buffer>>
    BY DEF Complete, Freed, turnVars, Answer
  <1>2. p \in Prompts /\ (owned <=> running = p)
    BY <1>1, OwnedIsRunning
  <1>3. Calm
    BY <1>1, ArmCalm DEF Calm
  <1>4. CASE owned
    <2>1. queue # <<>> /\ queue' = Tail(queue) /\ running = p /\ running \in Prompts /\ running' = None
      BY <1>1, <1>2, <1>4
    <2>2. Ids(queue') = Ids(queue) \ {running}
      BY <2>1, FrontTaken, QueueAssumption
    <2>3. Separate /\ running \in Ids(queue)
      BY <2>1, QueueHolds, QueueFacts, QueueAssumption DEF Inv, Placed, Fronted
    <2>4. Queued' \subseteq Queued \ {running}
      BY <1>1, <2>2, <2>3 DEF Queued, Separate
    <2>5. answered' = answered \union ({running} \intersect UserPrompts)
      BY <1>1, <1>4, <2>1
    <2>. QED
      BY <1>1, <1>3, <2>1, <2>2, <2>4, <2>5, Finishes
  <1>5. CASE ~owned
    <2> DEFINE X == {}
    <2>1. queue' = queue /\ running' = running /\ answered' = answered
      BY <1>1, <1>2, <1>5
    <2>2. Queued' \subseteq Queued \union X /\ \A q \in X : Unused(q)
      BY <1>1, <2>1 DEF Queued
    <2> HIDE DEF X
    <2>. QED
      BY <1>1, <1>3, <2>1, <2>2, Quiet
  <1>. QED
    BY <1>4, <1>5

\* The interjections that missed the turn are submitted, and a goal's next turn.
LEMMA FlushStrandedBooked ==
  ASSUME Inv, Inv', Clean, NEW goal \in Summaries \union {None}, FlushStranded(goal)
  PROVE  Ledgered
  <1> DEFINE fresh == {goal} \ {None}
             X == ToSet(buffer) \union fresh
             D == {}
  <1>1. /\ pc = "flush" /\ pc' = "finish" /\ buffer' = <<>> /\ arm' = Rested
        /\ queue' = Flushed(goal)
        /\ UNCHANGED <<running, notes, answered>>
        /\ goal # None => Unused(goal)
    BY DEF FlushStranded, Flushed
  <1>2. /\ Separate /\ buffer \in Seq(Interjections) /\ Distinct(buffer)
        /\ ToSet(buffer) \intersect Ids(queue) = {}
    BY InvTyped DEF Inv, Placed, Separate
  <1>3. goal # None => goal \notin Queued
    BY <1>1, UnusedFacts
  <1>4. Ids(queue') = (Ids(queue) \ D) \union X
    <2>1. goal # None => goal \notin Ids(queue) \union ToSet(buffer)
      BY <1>3 DEF Queued
    <2>2. Ids(queue') = Ids(queue) \union ToSet(buffer) \union fresh
      BY <1>1, <1>2, <2>1, QueueHolds, FlushedQueue
    <2>. QED
      BY <2>2
  <1>5. Calm
    BY <1>1, ArmCalm DEF Calm
  <1>6. X \subseteq Prompts
    BY TypeFacts DEF Inv, Prompts, Synthetic
  <1>7. \A p \in X : Unused(p) \/ p \in Queued \ Ids(queue)
    BY <1>1, <1>2 DEF Queued
  <1>8. Queued' \subseteq Queued \union fresh /\ Queued' \subseteq Queued \union X
    BY <1>1, <1>4, EmptyBuffer DEF Queued
  <1>9. (\A p \in fresh : Unused(p)) /\ D \subseteq Synthetic /\ running \notin D
    BY <1>1
  <1>10. CASE X = {}
    <2>1. Ids(queue') = Ids(queue)
      BY <1>4, <1>10
    <2> HIDE DEF fresh, X
    <2>. QED
      BY <1>1, <1>5, <1>8, <1>9, <2>1, Quiet
  <1>11. CASE X # {}
    <2> HIDE DEF fresh, X, D
    <2>. QED
      BY <1>1, <1>4, <1>5, <1>6, <1>7, <1>8, <1>9, <1>11, Submits
  <1>. QED
    BY <1>10, <1>11

\* What stands in the queue at the end of an arm starts, and no other.
LEMMA ActorStartBooked ==
  ASSUME Inv, Inv', Clean, ActorStart \/ McpStart
  PROVE  Ledgered
  <1>1. /\ UNCHANGED <<queue, notes, buffer, arm, answered>>
        /\ pc' = pc \/ (pc \in {"start", "finish"} /\ pc' \in {"idle", "drain"})
        /\ pc # "stopped"
        /\ \/ running' = running
           \/ running = None /\ queue # <<>> /\ running' = queue[1].id
    BY DEF ActorStart, McpStart, MaybeStart
  <1>2. /\ Ids(queue') = Ids(queue) /\ Queued' \subseteq Queued
        /\ queue # <<>> => queue[1].id \in Ids(queue')
    BY <1>1, QueueHolds, QueueFacts DEF Queued
  <1>3. Calm
    BY <1>1 DEF Calm
  <1>. QED
    BY <1>1, <1>2, <1>3, Starts

\* A resumed plan is submitted, and starts at once if nothing runs.
LEMMA PlanResumedBooked ==
  ASSUME Inv, Inv', Clean, NEW p \in PlanResumes, PlanResumed(p)
  PROVE  Ledgered
  <1> DEFINE X == {p}
             D == {}
  <1>1. p \in Prompts /\ p \notin Queued /\ Unused(p)
    BY UnusedFacts DEF PlanResumed, Prompts, Synthetic
  <1>2. /\ pc # "stopped" /\ pc' = pc /\ queue' = Append(queue, Item(p))
        /\ UNCHANGED <<notes, buffer, arm, answered>>
        /\ \/ running' = running /\ (running # None \/ queue' = <<>>)
           \/ running = None /\ queue' # <<>> /\ running' = queue'[1].id
    BY DEF PlanResumed, MaybeStart
  <1>3. QueueOK(queue') /\ Ids(queue') = (Ids(queue) \ D) \union X
    BY <1>1, <1>2, QueueHolds, AppendNew DEF Queued
  <1>4. queue' # <<>> => queue'[1].id \in Ids(queue')
    BY <1>3, QueueFacts
  <1>5. Calm
    BY <1>2 DEF Calm
  <1>6. /\ X \subseteq Prompts /\ X # {} /\ Queued' \subseteq Queued \union X
        /\ \A q \in X : Unused(q) \/ q \in Queued \ Ids(queue)
        /\ D \subseteq Synthetic /\ running \notin D
    BY <1>1, <1>2, <1>3 DEF Queued
  <1> HIDE DEF X, D
  <1>. QED
    BY <1>2, <1>3, <1>4, <1>5, <1>6, Submits

\* Pending notifications become one prompt, named after the first of them.
LEMMA DrainNotificationsBooked ==
  ASSUME Inv, Inv', Clean, NEW dropped, DrainNotifications(dropped)
  PROVE  Ledgered
  <1>1. /\ pc = "drain" /\ pc' \in {"idle", "start"}
        /\ UNCHANGED <<running, buffer, arm, answered>>
        /\ \/ notes' = notes /\ queue' = queue
           \/ notes' = <<>> /\ queue' = queue
           \/ notes # <<>> /\ notes' = <<>> /\ queue' = Append(queue, Item(notes[1]))
    BY DEF DrainNotifications, turnVars
  <1>2. Calm
    BY <1>1 DEF Calm
  <1>3. notes' = <<>> => ToSet(notes') = {}
    BY DEF ToSet
  <1>4. CASE queue' = queue
    <2> DEFINE X == {}
    <2>1. Queued' \subseteq Queued \union X /\ \A p \in X : Unused(p)
      BY <1>1, <1>3, <1>4 DEF Queued
    <2> HIDE DEF X
    <2>. QED
      BY <1>1, <1>2, <1>4, <2>1, Quiet
  <1>5. CASE notes # <<>> /\ notes' = <<>> /\ queue' = Append(queue, Item(notes[1]))
    <2> DEFINE X == {notes[1]}
               D == {}
    <2>1. notes[1] \in ToSet(notes) /\ notes[1] \in Prompts
      BY <1>5, InvTyped DEF ToSet, Prompts, Synthetic
    <2>2. notes[1] \notin Ids(queue)
      BY <2>1 DEF Inv, Placed, Separate
    <2>3. Ids(queue') = (Ids(queue) \ D) \union X
      BY <1>5, <2>1, <2>2, QueueHolds, AppendNew
    <2>4. /\ X \subseteq Prompts /\ X # {} /\ Queued' \subseteq Queued \union X
          /\ \A p \in X : Unused(p) \/ p \in Queued \ Ids(queue)
          /\ D \subseteq Synthetic /\ running \notin D
      BY <1>1, <1>3, <1>5, <2>1, <2>2, <2>3 DEF Queued
    <2> HIDE DEF X, D
    <2>. QED
      BY <1>1, <1>2, <2>3, <2>4, Submits
  <1>. QED
    BY <1>1, <1>4, <1>5

-----------------------------------------------------------------------------
(* The turn tasks, and the whole.                                          *)

\* A tool result consumes a wake that waits; else a turn task moves nobody.
LEMMA TurnStepBooked ==
  ASSUME Inv, Inv', Clean, NEW p \in Prompts, TurnStep(p)
  PROVE  Ledgered
  <1>1. turn[p] # "none" /\ pc # "stopped" /\ pc' = pc /\ UNCHANGED <<running, arm, answered>>
    BY DEF TurnStep, FirstUpdate, DrainInterjections, EndTurn, SendCompletion, ConsumeCompletion,
           Alive, lockVars, turnVars, Clean
  <1>2. CASE \E c \in Wakes \union Notes : ConsumeCompletion(p, c)
    <2>1. PICK c \in Wakes \union Notes : ConsumeCompletion(p, c)
      BY <1>2
    <2> DEFINE D == (Wakes \intersect {c}) \ {running}
    <2>2. /\ queue' = Swept(queue, Wakes \intersect {c}) /\ notes' = Kept(notes, Notes \ {c})
          /\ buffer' = buffer
      BY <2>1 DEF ConsumeCompletion, turnVars
    <2>3. QueueOK(queue') /\ Fronted(queue') /\ Ids(queue') = Ids(queue) \ D
      BY <2>2, QueueHolds, SweptQueue
    <2>4. D \subseteq Synthetic /\ running \notin D
      BY DEF Synthetic
    <2> HIDE DEF D
    <2>5. Queued' \subseteq Queued
      BY <2>2, <2>3, KeptNotes DEF Queued
    <2>6. Calm
      BY <1>1 DEF Calm, Clean
    <2>. QED
      BY <1>1, <2>3, <2>4, <2>5, <2>6, Leaves
  <1>3. CASE FirstUpdate(p) \/ DrainInterjections(p) \/ EndTurn(p) \/ SendCompletion(p)
    <2> DEFINE X == {}
    <2>1. /\ UNCHANGED <<queue, notes>>
          /\ buffer' = buffer \/ buffer' = <<>>
      BY <1>3 DEF FirstUpdate, DrainInterjections, EndTurn, SendCompletion, lockVars
    <2>2. Queued' \subseteq Queued \union X /\ \A q \in X : Unused(q)
      BY <2>1, EmptyBuffer DEF Queued
    <2>3. Calm
      BY <1>1, <2>1 DEF Calm, Clean
    <2> HIDE DEF X
    <2>. QED
      BY <1>1, <2>1, <2>2, <2>3, Quiet
  <1>. QED
    BY <1>2, <1>3 DEF TurnStep

\* A step that changes nothing.
LEMMA StutterUnseen ==
  ASSUME Inv, Clean, UNCHANGED vars
  PROVE  Ledgered
  <1>1. UNCHANGED <<queue, running, notes, buffer, turn, pc, arm, answered>>
    BY DEF vars
  <1>2. Status' = Status
    BY <1>1 DEF Status
  <1>3. Clean'
    BY <1>1 DEF Clean, Queued
  <1>. QED
    BY <1>2, <1>3 DEF Ledgered

\* Every command is an entry of the ledger, or leaves it alone.
LEMMA RequestsBooked ==
  ASSUME Inv, Inv', Clean, Requests
  PROVE  Ledgered
  <1>1. CASE \E p \in UserPrompts \union Wakes, now, blocked, goal \in BOOLEAN :
               Prompt(p, now, blocked, goal)
    BY <1>1, PromptBooked
  <1>2. CASE \E p \in Summaries : GoalSummaryTurn(p)
    BY <1>2, GoalSummaryTurnBooked
  <1>3. CASE \E n \in Notes : InjectNotification(n) \/ DropMonitorNotifications(n)
    BY <1>3, NotificationsUnseen
  <1>4. CASE \E u \in UserPrompts, v \in 0..MaxVersion, o \in Clients \union {None} :
               RemoveQueuedPrompt(u, v, o)
    BY <1>4, RemoveBooked
  <1>5. CASE \/ \E u \in UserPrompts : EditQueuedPrompt(u) \/ SendNowStep(u)
             \/ ReorderStep
    BY <1>5, RowsMoveUnseen
  <1>6. CASE \E o \in Clients \union {None} : ClearQueue(o)
    BY <1>6, ClearBooked
  <1>7. CASE \E i \in Interjections : Interject(i)
    BY <1>7, InterjectBooked
  <1>8. CASE \E mode \in {"keep", "rewind", "teardown"} : Cancel(mode)
    BY <1>8, CancelBeginUnseen
  <1>9. CASE Shutdown
    BY <1>9, ShutdownBooked
  <1>. QED
    BY <1>1, <1>2, <1>3, <1>4, <1>5, <1>6, <1>7, <1>8, <1>9 DEF Requests

\* So is every other arm.
LEMMA ActorStepBooked ==
  ASSUME Inv, Inv', Clean, ActorStep
  PROVE  Ledgered
  <1>1. CASE \E goal \in Summaries \union {None} : FlushStranded(goal)
    BY <1>1, FlushStrandedBooked
  <1>2. CASE \E dropped \in BOOLEAN : DrainNotifications(dropped)
    BY <1>2, DrainNotificationsBooked
  <1>. QED
    BY <1>1, <1>2, CancelBeginUnseen, CancelRewindsBooked, CancelTakesBooked, CancelTailBooked,
       TakeCompletionUnseen, CompleteBooked, ActorStartBooked DEF ActorStep

\* Every step is one of the ledger, or leaves it alone.
LEMMA StepBooked ==
  ASSUME Inv, Inv', Clean, [Next]_vars
  PROVE  Ledgered
  <1>1. CASE OtherTasks
    BY <1>1, PlanResumedBooked, ActorStartBooked DEF OtherTasks
  <1>2. CASE \E p \in Prompts : TurnStep(p)
    BY <1>2, TurnStepBooked
  <1>. QED
    BY <1>1, <1>2, RequestsBooked, ActorStepBooked, StutterUnseen DEF Next

\* The session starts with an empty ledger.
LEMMA LedgerStarts ==
  ASSUME Init
  PROVE  Clean /\ Ledger!LedgerInit
  <1>1. Queued = {} /\ Ids(queue) = {} /\ arm.settle = {} /\ answered = {} /\ pc = "idle"
    BY DEF Init, Queued, Ids, ToSet, Resting
  <1>2. Clean
    BY <1>1 DEF Clean
  <1>3. Status = [p \in Prompts |-> "new"]
    BY <1>1 DEF Status
  <1>. QED
    BY <1>2, <1>3 DEF Ledger!LedgerInit

-----------------------------------------------------------------------------

\* An answered prompt is not queued and never again; what a cancel has in hand
\* is neither queued nor answered yet.
THEOREM PlacesStayApart == Spec => []Clean
  <1>1. Inv /\ Inv' /\ Clean /\ [Next]_vars => Clean'
    BY StepBooked DEF Ledgered
  <1>2. Init => Clean
    BY LedgerStarts
  <1>. QED
    BY <1>1, <1>2, QueueInvariant, PTL DEF Spec

\* Whoever submits a prompt to the session gets one answer, and only after it
\* left the queue for good; one prompt runs at a time; an interactive cancel
\* costs none but the running one: run_session's arms, the turn tasks and the
\* other starters, in any order, do nothing that PromptLedger does not allow.
THEOREM QueueKeepsLedger == Spec => KeepsLedger
  <1>1. Init => Ledger!LedgerInit
    BY LedgerStarts
  <1>2. Inv /\ Inv' /\ Clean /\ [Next]_vars => [Ledger!LedgerNext]_Status
    BY StepBooked DEF Ledgered
  <1>3. Ledger!LedgerSpec <=> Ledger!LedgerInit /\ [][Ledger!LedgerNext]_Status
    BY DEF Ledger!LedgerSpec
  <1>. QED
    BY <1>1, <1>2, <1>3, QueueInvariant, PlacesStayApart, PTL DEF Spec, KeepsLedger
=============================================================================
