---------------------------- MODULE PromptLedger ----------------------------
(***************************************************************************)
(* What the session's prompt queue promises to those who submit prompts:   *)
(* a client's prompt is answered once it left the queue and never runs     *)
(* again, at most one prompt runs, and before the session stops nothing    *)
(* but a synthetic prompt is dropped without its turn.                     *)
(***************************************************************************)
CONSTANTS
  Prompts,     \* everything that may enter the queue, the next two are parts of it
  Awaited,     \* ... with somebody who waits for the answer
  Synthetic    \* ... that no user typed: is_synthetic()

VARIABLE status

Statuses == {"new", "waiting", "running", "settling", "answered", "dropped"}

In(s) == {p \in Prompts : status[p] = s}

\* The prompts that go from one of the statuses to another one in this step.
Moves(from, to) == {p \in Prompts : status[p] \in from /\ status'[p] = to} \ In(to)
Moved == {p \in Prompts : status'[p] # status[p]}

\* A prompt somebody waits for is answered; the others are forgotten, and
\* their names may come again.
Settled(p) == status'[p] = IF p \in Awaited THEN "answered" ELSE "new"

LedgerInit == status = [p \in Prompts |-> "new"]

\* Prompts arrive; synthetic ones that wait may be preempted by them, and
\* with nothing running one that is in line may start at once.
Submit ==
  LET arrived == {p \in In("new") : status'[p] \in {"waiting", "running"}}
      preempted == Moves({"waiting"}, "new")
      started == Moves({"new", "waiting"}, "running")
  IN  /\ arrived # {} /\ Moved = arrived \union preempted \union started
      /\ preempted \subseteq Synthetic
      /\ started # {} => In("running") = {}
      /\ \A p, q \in started : p = q

\* A waiting synthetic prompt whose news the model has read elsewhere.
Preempt == Moved \subseteq In("waiting") \intersect Synthetic /\ Moved = Moves({"waiting"}, "new")

Start ==
  /\ In("running") = {} /\ Moved = Moves({"waiting"}, "running")
  /\ \A p, q \in Moved : p = q

Finish == Moved \subseteq In("running") /\ \A p \in Moved : Settled(p)

\* Clients take prompts back that wait.
Withdraw == Moved \subseteq In("waiting") \intersect Awaited /\ \A p \in Moved : Settled(p)

\* A cancel takes the running prompt, and no other.
Interrupt == Moved \subseteq In("running") /\ Moved = Moves({"running"}, "settling")

\* The teardown of a subagent's session takes everything.
Teardown ==
  Moved = In("running") \union In("waiting") /\ Moved = Moves({"running", "waiting"}, "settling")

Settle == Moved = In("settling") /\ \A p \in Moved : Settled(p)

Stop ==
  Moved = Prompts \ (In("answered") \union In("dropped")) /\ \A p \in Moved : status'[p] = "dropped"

LedgerNext ==
  /\ Moved # {}
  /\ \/ Submit \/ Preempt \/ Start \/ Finish \/ Withdraw
     \/ Interrupt \/ Teardown \/ Settle \/ Stop

LedgerSpec == LedgerInit /\ [][LedgerNext]_status
=============================================================================
