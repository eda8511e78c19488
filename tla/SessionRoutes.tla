--------------------------- MODULE SessionRoutes ---------------------------
(***************************************************************************)
(* Who sees what: the leader server's routing tables for one session and   *)
(* the subagents below it, while clients come and go.                      *)
(*                                                                         *)
(*   clients  connect, load the session, send messages about it, leave     *)
(*   leader   one select! loop; each event is handled without another in   *)
(*            between, so a handler is one step                            *)
(*   agent    spawns and finishes subagents, replays the session's history *)
(*            to a client that loads it: one thread, one task at a time    *)
(*   sessions ask the user, on threads of their own; keep the history,     *)
(*            which lags behind what the leader has seen live              *)
(*                                                                         *)
(* What the agent sends reaches the leader in order, and the leader is the *)
(* only one to see it: sending and handling are one step.  Clients speak   *)
(* of the root session only, as the terminal client does.  A client that   *)
(* reconnects is a new ClientId.                                           *)
(***************************************************************************)
EXTENDS Naturals, Sequences, FiniteSets

CONSTANTS
  Clients,
  Root,            \* the session clients load
  Subagents,       \* the sessions of its subagents, and of theirs
  Interactions,    \* the tool calls that block on the user
  Requests,        \* bound: requests of clients
  None,
  MaxTimeouts,     \* bound: flushes before the delta that take longer than 5 s
  MaxStarted       \* bound: subagents spawned and interactions asked

Sessions == {Root} \union Subagents

ASSUME RoutesAssumption ==
  /\ Root \notin Subagents
  /\ None \notin Clients \union Sessions
  /\ \A held \in SUBSET Interactions : None # held
  /\ IsFiniteSet(Subagents) /\ IsFiniteSet(Interactions) /\ IsFiniteSet(Requests)
  /\ MaxTimeouts \in Nat /\ MaxStarted \in Nat

VARIABLES
  \* the leader
  clients,               \* connected
  session_subscribers,   \* of each session; empty: no entry
  session_driver,        \* None: no entry
  child_sessions,        \* the index of live children; empty: no entry
  pending_requests,
  interaction_requests,  \* cached for clients that attach, by session
  load_live_buffer,      \* of each client; None: no entry
  \* the agent
  life,                  \* none, live, done: of each session
  parent,                \* the session that spawned it
  history,               \* spawns and finishes sent to the root's mailbox, to be
                         \* appended to its updates.jsonl in this order
  written,               \* how many of them a reader of the file has found there
  request,
  question,              \* of each interaction: its state, the session id on
                         \* the request, and the session that asked
  \* clients, bounds and history
  gone,                  \* ClientIds that were used
  shown,                 \* interactions sent to each client
  timeouts,
  bare,                  \* subagents whose route, or parent's, a replay made
  announced,             \* subagents of subagents whose parent was viewed then
  haunted                \* finished subagents that may keep a route

tables == <<session_subscribers, session_driver, child_sessions>>
agent == <<life, parent, history, written, question, announced>>
vars == <<clients, tables, pending_requests, interaction_requests, load_live_buffer,
          agent, request, gone, shown, timeouts, bare, haunted>>

\* flushed: what was in the mailbox when the flush under way was sent; at, upto:
\* how far the replay is, and goes; unfinished: of the first replay
Free == [by |-> None, kind |-> "load", phase |-> "free", flushed |-> 0, at |-> 0, upto |-> 0,
         unfinished |-> {}]

Init ==
  /\ clients = {} /\ gone = {}
  /\ session_subscribers = [s \in Sessions |-> {}]
  /\ session_driver = [s \in Sessions |-> None]
  /\ child_sessions = [s \in Sessions |-> {}]
  /\ pending_requests = 0
  /\ interaction_requests = [s \in Sessions |-> {}]
  /\ load_live_buffer = [c \in Clients |-> None]
  /\ life \in {[s \in Sessions |-> IF s = Root THEN r ELSE "none"] : r \in {"none", "live"}}
  /\ parent = [k \in Subagents |-> None]
  /\ history = << >> /\ written = 0
  /\ request = [q \in Requests |-> Free]
  /\ question = [i \in Interactions |-> [state |-> "idle", under |-> Root, asker |-> Root]]
  /\ shown = [c \in Clients |-> {}]
  /\ timeouts = 0 /\ bare = {} /\ announced = {} /\ haunted = {}

-----------------------------------------------------------------------------
(* The tables.                                                             *)

\* What backfill_child_routes reaches from s, following the index forward: the
\* least set that holds the children of s and of its members.
Descendants(s) ==
  {k \in Subagents : \A S \in SUBSET Subagents :
     child_sessions[s] \union UNION {child_sessions[j] : j \in S} \subseteq S => k \in S}

\* Subagents that the first n lines spawn and do not finish.
Unfinished(n) ==
  {k \in Subagents : /\ \E m \in 1 .. n : history[m] = <<"spawned", k>>
                     /\ \A m \in 1 .. n : history[m] # <<"finished", k>>}

\* Finished subagents whose spawn q has replayed, and not their finish.
HalfReplayed(q) == {k \in Unfinished(request[q].at) : life[k] = "done"}

\* Those whose finish q will not repeat before it is answered.
Orphaned(q) == HalfReplayed(q) \ request[q].unfinished

\* A message or an answer that names session s makes c its subscriber, its
\* driver if it has none, and a subscriber of every subagent below it.
Attach(c, s) ==
  LET below == Descendants(s)
      driver == IF session_driver[s] = None THEN c ELSE session_driver[s]
  IN /\ session_subscribers' =
          [x \in Sessions |-> IF x = s \/ x \in below
                              THEN session_subscribers[x] \union {c}
                              ELSE session_subscribers[x]]
     /\ session_driver' =
          [x \in Sessions |-> IF (x = s \/ x \in below) /\ session_driver[x] = None
                              THEN driver ELSE session_driver[x]]
     /\ haunted' = haunted \union (below \intersect UNION {Orphaned(q) : q \in Requests})
     /\ UNCHANGED <<child_sessions, bare>>

ParentsInIndex(k) == {s \in Sessions : k \in child_sessions[s]}

\* (mutant) the children of k are not handed on
Pruned_drop(k) ==
  [s \in Sessions |-> IF s = k THEN {} ELSE child_sessions[s] \ {k}]

\* prune_child_route: the children of k become its parent's.
Pruned(k) ==
  LET parents == ParentsInIndex(k)
      up == IF parents = {} THEN None ELSE CHOOSE s \in parents : TRUE
  IN [s \in Sessions |-> IF s = k THEN {}
                         ELSE IF s = up
                         THEN (child_sessions[s] \ {k}) \union child_sessions[k]
                         ELSE child_sessions[s]]

Prune(k) ==
  /\ session_subscribers' = [session_subscribers EXCEPT ![k] = {}]
  /\ session_driver' = [session_driver EXCEPT ![k] = None]
  /\ child_sessions' = Pruned(k)

-----------------------------------------------------------------------------
(* Clients.                                                                *)

Connect(c) ==
  /\ c \notin clients \union gone
  /\ clients' = clients \union {c}
  /\ UNCHANGED <<tables, pending_requests, interaction_requests, load_live_buffer,
                 agent, request, gone, shown, timeouts, bare, haunted>>

\* (mutant) c leaves the sessions it drives, and nothing else
Disconnect_driven(c) ==
  /\ c \in clients
  /\ clients' = clients \ {c} /\ gone' = gone \union {c}
  /\ session_subscribers' = [s \in Sessions |-> IF session_driver[s] = c
                                                THEN session_subscribers[s] \ {c}
                                                ELSE session_subscribers[s]]
  /\ session_driver' = [s \in Sessions |-> IF session_driver[s] = c THEN None
                                           ELSE session_driver[s]]
  /\ load_live_buffer' = [load_live_buffer EXCEPT ![c] = None]
  /\ shown' = [shown EXCEPT ![c] = {}]
  /\ UNCHANGED <<child_sessions, pending_requests, interaction_requests, agent,
                 request, timeouts, bare, haunted>>

\* (mutant) nobody takes over from a driver that leaves
Disconnect_undriven(c) ==
  /\ c \in clients
  /\ clients' = clients \ {c} /\ gone' = gone \union {c}
  /\ session_subscribers' = [s \in Sessions |-> session_subscribers[s] \ {c}]
  /\ session_driver' = [s \in Sessions |-> IF session_driver[s] = c THEN None
                                           ELSE session_driver[s]]
  /\ load_live_buffer' = [load_live_buffer EXCEPT ![c] = None]
  /\ shown' = [shown EXCEPT ![c] = {}]
  /\ UNCHANGED <<child_sessions, pending_requests, interaction_requests, agent,
                 request, timeouts, bare, haunted>>

\* What c views, drives and does not view alone.
Inherited(c) ==
  {s \in Sessions : session_driver[s] = c /\ c \in session_subscribers[s] /\ session_subscribers[s] # {c}}

\* The sessions nobody views any more lose their entries; where c was the
\* driver some other viewer takes over.  The index stays.
Disconnect(c) ==
  /\ c \in clients
  /\ clients' = clients \ {c} /\ gone' = gone \union {c}
  /\ session_subscribers' = [s \in Sessions |-> session_subscribers[s] \ {c}]
  /\ \E heir \in [Inherited(c) -> clients \ {c}] :
       /\ \A s \in Inherited(c) : heir[s] \in session_subscribers[s]
       /\ session_driver' = [s \in Sessions |-> IF s \in Inherited(c) THEN heir[s]
                                               ELSE IF session_subscribers[s] = {c} THEN None
                                               ELSE session_driver[s]]
  /\ load_live_buffer' = [load_live_buffer EXCEPT ![c] = None]
  /\ shown' = [shown EXCEPT ![c] = {}]
  /\ UNCHANGED <<child_sessions, pending_requests, interaction_requests, agent,
                 request, timeouts, bare, haunted>>

\* A request goes through to the agent; a load opens a hold-back buffer.
Request(c, q, kind) ==
  /\ c \in clients /\ request[q].phase = "free"
  /\ IF kind = "new" THEN /\ life[Root] = "none"
                          /\ \A r \in Requests : request[r].kind # "new"
                     ELSE life[Root] = "live"
  /\ request' = [request EXCEPT ![q] = [Free EXCEPT !.by = c, !.kind = kind, !.phase = "asked"]]
  /\ pending_requests' = pending_requests + 1
  /\ IF kind = "new" THEN UNCHANGED <<tables, bare, haunted>> ELSE Attach(c, Root)
  /\ load_live_buffer' =
       IF kind = "load" /\ load_live_buffer[c] = None
       THEN [load_live_buffer EXCEPT ![c] = {}] ELSE load_live_buffer
  /\ UNCHANGED <<clients, interaction_requests, agent, gone, shown, timeouts>>

\* Any other message with the session's id.
Message(c) ==
  /\ c \in clients /\ life[Root] = "live"
  /\ Attach(c, Root)
  /\ UNCHANGED <<clients, pending_requests, interaction_requests, load_live_buffer,
                 agent, request, gone, shown, timeouts>>

-----------------------------------------------------------------------------
(* The agent's load handler.  It reads the file twice, each time after a   *)
(* flush; what it has read it sends before the agent does anything else,   *)
(* and so with the finishes that it repeats.                               *)

Drained == \A q \in Requests :
  /\ request[q].phase \in {"first", "delta"} => request[q].at = request[q].upto
  /\ request[q].phase = "reconciled" => request[q].unfinished = {}

FlushAfter == [asked |-> "flush", first |-> "reflush"]

\* flush_session: the command goes into the mailbox behind what is there.
Flush(q) ==
  /\ Drained
  /\ request[q].kind = "load" /\ request[q].phase \in DOMAIN FlushAfter
  /\ request' = [request EXCEPT ![q].phase = FlushAfter[@], ![q].flushed = Len(history)]
  /\ UNCHANGED <<clients, tables, pending_requests, interaction_requests,
                 load_live_buffer, agent, gone, shown, timeouts, bare, haunted>>

\* (mutant) the file is read without the flush
Read_unflushed(q, n) ==
  /\ Drained
  /\ n \in written .. Len(history)
  /\ written' = n
  /\ UNCHANGED <<clients, tables, pending_requests, interaction_requests, load_live_buffer,
                 life, parent, history, question, announced, gone, shown, timeouts, bare,
                 haunted>>

\* The flush is acknowledged when all before it is in the file, and what came
\* behind it meanwhile may be there or not.
Read(q, n) ==
  /\ Drained
  /\ n \in request[q].flushed .. Len(history) /\ n >= written
  /\ written' = n
  /\ UNCHANGED <<clients, tables, pending_requests, interaction_requests, load_live_buffer,
                 life, parent, history, question, announced, gone, shown, timeouts, bare,
                 haunted>>

BeginReplay(q) ==
  /\ request[q].phase = "flush"
  /\ \E n \in 0 .. Len(history) :
       /\ Read(q, n)
       /\ request' = [request EXCEPT ![q].phase = "first", ![q].flushed = 0, ![q].upto = n,
                                     ![q].unfinished = Unfinished(n)]

BeginDelta(q) ==
  /\ request[q].phase = "reflush"
  /\ \E n \in 0 .. Len(history) :
       /\ Read(q, n)
       /\ request' = [request EXCEPT ![q].phase = "delta", ![q].flushed = 0, ![q].upto = n]

\* The flush before the delta fails: there is none.
SkipDelta(q) ==
  /\ timeouts < MaxTimeouts
  /\ request[q].phase = "reflush"
  /\ timeouts' = timeouts + 1
  /\ request' = [request EXCEPT ![q].phase = "delta", ![q].flushed = 0]
  /\ UNCHANGED <<clients, tables, pending_requests, interaction_requests,
                 load_live_buffer, agent, gone, shown, bare, haunted>>

\* (mutant) nothing is removed for a client that has left
Replayed_orphan(c, what, k) ==
  CASE c \in clients /\ what = "spawned" ->
         /\ session_subscribers' = [session_subscribers EXCEPT ![k] = @ \union {c}]
         /\ child_sessions' = [child_sessions EXCEPT ![Root] = @ \union {k}]
         /\ bare' = IF session_driver[k] = None THEN bare \union {k} ELSE bare
         /\ UNCHANGED session_driver
    [] c \in clients /\ what = "finished" ->
         /\ IF session_subscribers[k] = {c} THEN Prune(k)
            ELSE /\ session_subscribers' = [session_subscribers EXCEPT ![k] = @ \ {c}]
                 /\ UNCHANGED <<session_driver, child_sessions>>
         /\ UNCHANGED bare
    [] OTHER -> UNCHANGED <<tables, bare>>

\* The leader unicasts a replayed event.  The spawn of k gives it a viewer and
\* no driver; its finish takes the viewer away, and the route with the last
\* one.  For a client that has left only a route nobody holds is removed.
Replayed(c, what, k) ==
  CASE c \in clients /\ what = "spawned" ->
         /\ session_subscribers' = [session_subscribers EXCEPT ![k] = @ \union {c}]
         /\ child_sessions' = [child_sessions EXCEPT ![Root] = @ \union {k}]
         /\ bare' = IF session_driver[k] = None THEN bare \union {k} ELSE bare
         /\ UNCHANGED session_driver
    [] c \in clients /\ what = "finished" ->
         /\ IF session_subscribers[k] = {c} THEN Prune(k)
            ELSE /\ session_subscribers' = [session_subscribers EXCEPT ![k] = @ \ {c}]
                 /\ UNCHANGED <<session_driver, child_sessions>>
         /\ UNCHANGED bare
    [] c \notin clients /\ what = "finished" /\ session_subscribers[k] = {} ->
         Prune(k) /\ UNCHANGED bare
    [] OTHER -> UNCHANGED <<tables, bare>>

Replay(q) ==
  LET next == history[request[q].at + 1]
  IN /\ request[q].phase \in {"first", "delta"} /\ request[q].at < request[q].upto
     /\ request' = [request EXCEPT ![q].at = @ + 1]
     /\ Replayed(request[q].by, next[1], next[2])
     /\ UNCHANGED <<clients, pending_requests, interaction_requests, load_live_buffer,
                    agent, gone, shown, timeouts, haunted>>

\* The live finish of k under p: the route is removed, unless nobody views p
\* and somebody views k.
FinishSeen(p, k) ==
  IF session_subscribers[p] # {} \/ session_subscribers[k] = {}
  THEN Prune(k) /\ haunted' = haunted \ {k}
  ELSE UNCHANGED tables /\ haunted' = haunted \union {k}

Logged(p, what, k) == history' = IF p = Root THEN Append(history, <<what, k>>) ELSE history

\* (mutant) nothing is finished once more
Reconcile_never(q) ==
  /\ Drained
  /\ request[q].phase = "delta"
  /\ request' = [request EXCEPT ![q].phase = "reconciled", ![q].unfinished = {}]
  /\ haunted' = haunted \union Orphaned(q)
  /\ UNCHANGED <<clients, tables, pending_requests, interaction_requests,
                 load_live_buffer, agent, gone, shown, timeouts, bare>>

\* reconcile_orphaned_subagents: of those that the first replay left unfinished
\* the ones that run no more are finished once more.  A spawn that only the
\* delta replayed is not looked at.
Reconcile(q) ==
  /\ Drained
  /\ request[q].phase = "delta"
  /\ request' = [request EXCEPT ![q].phase = "reconciled",
                                ![q].unfinished = {k \in @ : life[k] = "done"}]
  /\ haunted' = haunted \union Orphaned(q)
  /\ UNCHANGED <<clients, tables, pending_requests, interaction_requests,
                 load_live_buffer, agent, gone, shown, timeouts, bare>>

FinishAgain(q, k) ==
  /\ request[q].phase = "reconciled" /\ k \in request[q].unfinished
  /\ request' = [request EXCEPT ![q].unfinished = @ \ {k}]
  /\ Logged(Root, "finished", k)
  /\ FinishSeen(Root, k)
  /\ UNCHANGED <<clients, pending_requests, interaction_requests, load_live_buffer, life,
                 parent, written, question, announced, gone, shown, timeouts, bare>>

\* The leader routes the answer of q back.  That of a load flushes what was
\* held back for the client and shows it the session's open interactions.
Answered(q, phase) ==
  LET c == request[q].by
      kind == request[q].kind
  IN /\ Drained
     /\ request' = [request EXCEPT ![q] = [Free EXCEPT !.by = c, !.kind = kind, !.phase = phase]]
     /\ pending_requests' = IF pending_requests = 0 THEN 0 ELSE pending_requests - 1
     /\ IF c \in clients /\ kind = "load"
        THEN LET held == IF load_live_buffer[c] = None THEN {} ELSE load_live_buffer[c]
             IN /\ shown' = [shown EXCEPT ![c] = @ \union held \union interaction_requests[Root]]
                /\ load_live_buffer' = [load_live_buffer EXCEPT ![c] = None]
        ELSE UNCHANGED <<shown, load_live_buffer>>
     /\ UNCHANGED <<clients, interaction_requests, parent, history, written, question,
                    announced, gone, timeouts>>

Answer(q) ==
  /\ request[q].phase = "reconciled"
  /\ Answered(q, "done")
  /\ UNCHANGED <<tables, life, bare, haunted>>

\* session/new: the answer names the session.
Created(q) ==
  /\ request[q].kind = "new" /\ request[q].phase = "asked"
  /\ life' = [life EXCEPT ![Root] = "live"]
  /\ Answered(q, "done")
  /\ IF request[q].by \in clients THEN Attach(request[q].by, Root)
                                  ELSE UNCHANGED <<tables, bare, haunted>>

\* load_session returns an error, which it does only before the replay.
Fail(q) ==
  /\ request[q].kind = "load" /\ request[q].phase \in {"asked", "flush"}
  /\ Answered(q, "failed")
  /\ UNCHANGED <<tables, life, bare, haunted>>

-----------------------------------------------------------------------------
(* Subagents.  Their parent's session id is on both notifications.         *)

Started == Cardinality({k \in Subagents : life[k] # "none"})
             + Cardinality({i \in Interactions : question[i].state # "idle"})

\* The route is a copy of the parent's; without a viewer of the parent the
\* notification is dropped.  A subagent's own subagent spawns none.
Spawn(p, k) ==
  /\ Drained /\ Started < MaxStarted
  /\ life[p] = "live" /\ life[k] = "none"
  /\ p # Root => parent[p] = Root
  /\ life' = [life EXCEPT ![k] = "live"] /\ parent' = [parent EXCEPT ![k] = p]
  /\ Logged(p, "spawned", k)
  /\ IF session_subscribers[p] = {} THEN UNCHANGED tables
     ELSE /\ session_subscribers' = [session_subscribers EXCEPT ![k] = session_subscribers[p]]
          /\ session_driver' = [session_driver EXCEPT
                                  ![k] = IF session_driver[p] = None THEN @ ELSE session_driver[p]]
          /\ child_sessions' = [child_sessions EXCEPT ![p] = @ \union {k}]
  /\ bare' = IF p \in bare THEN bare \union {k} ELSE bare
  /\ announced' = IF p = Root \/ session_subscribers[p] = {} THEN announced
                  ELSE announced \union {k}
  /\ UNCHANGED <<clients, pending_requests, interaction_requests, load_live_buffer,
                 request, written, question, gone, shown, timeouts, haunted>>

Finish(k) ==
  /\ Drained
  /\ life[k] = "live"
  /\ life' = [life EXCEPT ![k] = "done"]
  /\ Logged(parent[k], "finished", k)
  /\ bare' = bare \ {k} /\ announced' = announced \ {k}
  /\ FinishSeen(parent[k], k)
  /\ UNCHANGED <<clients, pending_requests, interaction_requests, load_live_buffer,
                 parent, request, written, question, gone, shown, timeouts>>

-----------------------------------------------------------------------------
(* Interactions.                                                           *)

\* (mutant) cached only if somebody views the session
Ask_viewed(i, s, under) ==
  /\ Started < MaxStarted
  /\ life[s] = "live" /\ question[i].state = "idle" /\ under \in {s, Root}
  /\ question' = [question EXCEPT ![i] = [state |-> "open", under |-> under, asker |-> s]]
  /\ interaction_requests' = IF session_subscribers[under] = {} THEN interaction_requests
                             ELSE [interaction_requests EXCEPT ![under] = @ \union {i}]
  /\ shown' = [c \in Clients |-> IF c \in session_subscribers[under]
                                 THEN shown[c] \union {i} ELSE shown[c]]
  /\ UNCHANGED <<clients, tables, pending_requests, load_live_buffer, life, parent, history,
                 written, announced, request, gone, timeouts, bare, haunted>>

\* Session s asks under its own id; a permission is asked by the root's manager,
\* which subagents inherit, under the root's.  The request is cached whether or
\* not anybody views that session, and sent to all who do, or held back for
\* those that are loading it.
Ask(i, s, under) ==
  LET loading == {c \in session_subscribers[under] : under = Root /\ load_live_buffer[c] # None}
  IN /\ Started < MaxStarted
     /\ life[s] = "live" /\ question[i].state = "idle" /\ under \in {s, Root}
     /\ question' = [question EXCEPT ![i] = [state |-> "open", under |-> under, asker |-> s]]
     /\ interaction_requests' = [interaction_requests EXCEPT ![under] = @ \union {i}]
     /\ load_live_buffer' = [c \in Clients |-> IF c \in loading THEN load_live_buffer[c] \union {i}
                                               ELSE load_live_buffer[c]]
     /\ shown' = [c \in Clients |-> IF c \in session_subscribers[under] \ loading
                                    THEN shown[c] \union {i} ELSE shown[c]]
     /\ UNCHANGED <<clients, tables, pending_requests, life, parent, history, written,
                    announced, request, gone, timeouts, bare, haunted>>

\* (mutant) evicted only if somebody views the session
Resolve_viewed(i) ==
  /\ question[i].state = "open"
  /\ question' = [question EXCEPT ![i].state = "closed"]
  /\ interaction_requests' =
       IF session_subscribers[question[i].asker] = {} THEN interaction_requests
       ELSE [interaction_requests EXCEPT ![question[i].asker] = @ \ {i}]
  /\ UNCHANGED <<clients, tables, pending_requests, load_live_buffer, life, parent,
                 history, written, announced, request, gone, shown, timeouts, bare, haunted>>

\* interaction_resolved always carries the id of the session that asked.
Resolve(i) ==
  /\ question[i].state = "open"
  /\ question' = [question EXCEPT ![i].state = "closed"]
  /\ interaction_requests' = [interaction_requests EXCEPT ![question[i].asker] = @ \ {i}]
  /\ UNCHANGED <<clients, tables, pending_requests, load_live_buffer, life, parent,
                 history, written, announced, request, gone, shown, timeouts, bare, haunted>>

-----------------------------------------------------------------------------
Next ==
  \/ \E c \in Clients : Connect(c) \/ Disconnect(c) \/ Message(c)
  \/ \E c \in Clients, q \in Requests, kind \in {"new", "load"} : Request(c, q, kind)
  \/ \E q \in Requests : \/ Flush(q) \/ BeginReplay(q) \/ BeginDelta(q) \/ SkipDelta(q)
                         \/ Replay(q) \/ Reconcile(q) \/ Answer(q) \/ Created(q) \/ Fail(q)
  \/ \E q \in Requests, k \in Subagents : FinishAgain(q, k)
  \/ \E p \in Sessions, k \in Subagents : Spawn(p, k)
  \/ \E k \in Subagents : Finish(k)
  \/ \E i \in Interactions, s, under \in Sessions : Ask(i, s, under)
  \/ \E i \in Interactions : Resolve(i)

Spec == Init /\ [][Next]_vars

-----------------------------------------------------------------------------
(* Properties.                                                             *)

Loading == {"first", "reflush", "delta", "reconciled"}
Unanswered == {"asked", "flush"} \union Loading

\* Every table maps to what the code stores in it, and whoever is subscribed to
\* a session is connected: what a client viewed is dropped when it leaves.
TypeOK ==
  /\ clients \subseteq Clients /\ gone \subseteq Clients \ clients
  /\ session_subscribers \in [Sessions -> SUBSET clients]
  /\ session_driver \in [Sessions -> Clients \union {None}]
  /\ child_sessions \in [Sessions -> SUBSET Subagents]
  /\ interaction_requests \in [Sessions -> SUBSET Interactions]
  /\ load_live_buffer \in [Clients -> {None} \union SUBSET Interactions]
  /\ life \in [Sessions -> {"none", "live", "done"}]
  /\ parent \in [Subagents -> Sessions \union {None}]
  /\ history \in Seq({"spawned", "finished"} \X Subagents) /\ written \in Nat
  /\ request \in [Requests -> [by : Clients \union {None}, kind : {"new", "load"},
                               phase : Unanswered \union {"free", "done", "failed"},
                               flushed : Nat, at : Nat, upto : Nat,
                               unfinished : SUBSET Subagents]]
  /\ question \in [Interactions -> [state : {"idle", "open", "closed"},
                                    under : Sessions, asker : Sessions]]
  /\ shown \in [Clients -> SUBSET Interactions]
  /\ pending_requests \in Nat /\ timeouts \in Nat
  /\ announced \subseteq Subagents /\ bare \subseteq Subagents /\ haunted \subseteq Subagents

\* The busy flag never lies: the counter is the number of requests the agent
\* still owes an answer, those of clients that left included, so that
\* saturating_sub never saturates and an update waits for every one of them.
BusyCount ==
  pending_requests =
    Cardinality({q \in Requests : request[q].phase \in Unanswered})

\* A session that still runs and is viewed has a driver, one of its viewers, so
\* that the agent's file and terminal requests reach somebody; nobody drives
\* what nobody views.  Not so for a route that a replay made: it has no driver
\* until a client next names the root, and then gets the root's, whether that
\* client views the subagent or not.
DrivenByViewer ==
  \A s \in Sessions \ bare : life[s] = "live" =>
    IF session_subscribers[s] = {} THEN session_driver[s] = None
    ELSE session_driver[s] \in session_subscribers[s]

\* A client whose load was answered receives the live updates of every
\* subagent of the root that still runs, whoever watched when it was spawned
\* and however many intermediate ones have finished.  A subagent's own
\* subagent is included if the leader saw its spawn, and not below a route
\* that a replay made: that one has the viewers of the replays so far.
Loaded(c) == c \in clients /\ \E q \in Requests :
  request[q].by = c /\ request[q].kind = "load" /\ request[q].phase = "done"

LoadedSeesSubagents ==
  \A c \in Clients, k \in Subagents :
    Loaded(c) /\ life[k] = "live"
      /\ (parent[k] # Root => k \in announced \ bare)
      => c \in session_subscribers[k]

\* A finished subagent keeps no route once the loads have been answered, unless
\* (1) a client's message met it between a replayed spawn and finish, (2) a
\* delta replayed its spawn while its finish, which the leader had seen by then,
\* was still in the mailbox, or (3) its finish came under the id of a parent that
\* nobody viewed, having finished before it.  Where the first replay has the spawn
\* and not the finish the repeated one removes the route.
Settled == \A q \in Requests : request[q].phase \notin Loading

DeadRoutesExplained ==
  Settled => \A k \in Subagents :
    life[k] = "done" /\ session_subscribers[k] # {} => k \in haunted

\* A client that has loaded the session has been shown every interaction of
\* it that is open, or has it held back behind a further load of its own.
OpenInteractionsShown ==
  \A c \in Clients, i \in Interactions :
    Loaded(c) /\ question[i].state = "open" /\ question[i].under = Root =>
      \/ i \in shown[c]
      \/ load_live_buffer[c] # None /\ i \in load_live_buffer[c]

\* What a client that attaches is shown is still open, but for the permission
\* requests of subagents: they are cached under the root and resolved under
\* the subagent.
CachedIsOpen ==
  \A s \in Sessions : \A i \in interaction_requests[s] :
    \/ question[i].state = "open"
    \/ question[i].asker # question[i].under
=============================================================================
