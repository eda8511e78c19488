---------------------------- MODULE SessionLoad ----------------------------
(***************************************************************************)
(* One session's event stream, from the session thread to the clients      *)
(* attached to it, while session/load requests are in flight.              *)
(*                                                                         *)
(*   session thread  stamps an event with the next id, hands it to the     *)
(*                   persistence actor and forwards it to the leader       *)
(*   persistence     appends to updates.jsonl, one message behind for ACP  *)
(*   load handlers   one per request, on the agent's single-threaded       *)
(*                   LocalSet: close the session's gate, flush, replay the *)
(*                   file to the loading client, flush, replay the rest,   *)
(*                   open the gate, answer                                 *)
(*   leader          fans live events out, unicasts replays, and buffers   *)
(*                   what is live for a client until its load is answered  *)
(*                                                                         *)
(* An event is its id, the counter of its eventId.  The session is in      *)
(* memory; its creator stays attached, so that it is not evicted.          *)
(***************************************************************************)
EXTENDS Naturals, Sequences, SequencesExt, Functions, Selections

CONSTANTS
  Creator,       \* the client whose session/new made the session
  Loaders,       \* clients that attach with session/load
  MaxBuffered,   \* MAX_BUFFERED_LIVE_PER_LOAD
  MaxEvents,     \* bound: events of the session
  MaxTimeouts,   \* bound: flushes that take longer than 5 s
  MaxErrors,     \* bound: loads that fail
  MaxLeaves      \* bound: clients that disconnect

ASSUME LoadAssumption ==
  /\ Creator \notin Loaders
  /\ {MaxBuffered, MaxEvents, MaxTimeouts, MaxErrors, MaxLeaves} \subseteq Nat

VARIABLES
  \* the session thread
  minted,     \* ids handed out so far
  xai,        \* which of them are xAI events, sent directly and not gated
  stream,     \* ACP events stamped and waiting in event_tx or the ReplayBuffer
  emitting,   \* event persisted but not yet forwarded, 0: none
  gate,       \* gateway_enabled
  cmds,       \* FlushComplete commands in the session's mailbox
  \* the persistence actor
  queue,      \* its mailbox: events and flush markers
  unwritten,  \* pending_notification: the last ACP event, 0: none
  file,       \* updates.jsonl
  acked,      \* flushes that were acknowledged
  \* the load handlers
  load,       \* next step of each client's request
  offset,     \* end of the first replay in the file
  out,        \* agent to leader
  \* the leader
  clients,    \* connected, and subscribed to the session
  buffer,     \* load_live_buffer, with pending_load_by_req as its domain
  maxSeq,     \* load_replay_max_seq
  got,        \* what was sent to each client
  \* bounds and history
  timeouts, errors, leaves,
  shut,       \* events that found the gate closed
  overtaken,  \* ACP events that a later xAI event preceded in the file
  racing,     \* events persisted but not yet forwarded when a delta was read
  spilled     \* loaders that were sent a live event past a full buffer

threadVars == <<minted, xai, stream, emitting, cmds, shut>>
diskVars == <<queue, unwritten, file, acked, overtaken>>
leaderVars == <<clients, buffer, maxSeq, got, leaves, spilled>>
loadVars == <<load, offset, timeouts, errors, racing>>
vars == <<minted, xai, stream, emitting, gate, cmds, queue, unwritten, file, acked,
          load, offset, out, clients, buffer, maxSeq, got, timeouts, errors,
          leaves, shut, overtaken, racing, spilled>>

Clients == Loaders \union {Creator}
Events == 1..MaxEvents
Item(e) == [kind |-> "event", seq |-> e]
FlushBy(c, round) == [kind |-> "flush", by |-> c, round |-> round]
Flushes == [kind : {"flush"}, by : Loaders, round : {1, 2}]
Live(e) == [kind |-> "live", seq |-> e]
Replay(c, e) == [kind |-> "replay", to |-> c, seq |-> e]
Response(c) == [kind |-> "response", to |-> c]
Messages == [kind : {"live"}, seq : Events]
            \union [kind : {"replay"}, to : Loaders, seq : Events]
            \union [kind : {"response"}, to : Loaders]
LoadPcs == {"idle", "close", "flush", "read", "reflush", "delta", "open", "answer", "done"}

Without(f, x) == Restrict(f, DOMAIN f \ {x})
With(f, x, v) == [y \in DOMAIN f \union {x} |-> IF y = x THEN v ELSE f[y]]

-----------------------------------------------------------------------------
(* The session thread: nothing else of it runs while an event is emitted.  *)

\* send_update: the id is stamped when the event enters the pipeline.
StampAcp ==
  /\ emitting = 0 /\ minted < MaxEvents
  /\ minted' = minted + 1
  /\ stream' = Append(stream, minted')
  /\ UNCHANGED <<xai, emitting, gate, cmds, shut, diskVars, loadVars, out,
                 leaderVars>>

\* emit_notification_direct, first half: the event goes to the persistence actor.
EmitAcp ==
  /\ emitting = 0 /\ stream # <<>>
  /\ emitting' = Head(stream) /\ stream' = Tail(stream)
  /\ queue' = Append(queue, Item(Head(stream)))
  /\ UNCHANGED <<minted, xai, gate, cmds, shut, unwritten, file, acked, overtaken,
                 loadVars, out, leaderVars>>

\* send_xai_notification, first half: stamped and persisted past the pipeline.
EmitXai ==
  /\ emitting = 0 /\ minted < MaxEvents
  /\ minted' = minted + 1
  /\ xai' = xai \union {minted'}
  /\ emitting' = minted'
  /\ queue' = Append(queue, Item(minted'))
  /\ UNCHANGED <<stream, gate, cmds, shut, unwritten, file, acked, overtaken,
                 loadVars, out, leaderVars>>

\* Second half: only ACP events look at the gate.
Forward ==
  /\ emitting # 0
  /\ IF gate \/ emitting \in xai
     THEN out' = Append(out, Live(emitting)) /\ UNCHANGED shut
     ELSE shut' = shut \union {emitting} /\ UNCHANGED out
  /\ emitting' = 0
  /\ UNCHANGED <<minted, xai, stream, gate, cmds, diskVars, loadVars,
                 leaderVars>>

\* FlushComplete: what is still in event_tx stays behind (EmitAcp is the flush of
\* the ReplayBuffer).
Flush ==
  /\ emitting = 0 /\ cmds # <<>>
  /\ queue' = Append(queue, Head(cmds)) /\ cmds' = Tail(cmds)
  /\ UNCHANGED <<minted, xai, stream, emitting, gate, shut, unwritten, file,
                 acked, overtaken, loadVars, out, leaderVars>>

-----------------------------------------------------------------------------
(* The persistence actor.  An ACP event waits for the next one or a flush  *)
(* (to be merged with it: the merged line has the later id); an xAI event  *)
(* is written at once.                                                     *)
\* (mutant) An empty slot is written too.
PendingAlways == <<unwritten>>

Pending == IF unwritten = 0 THEN <<>> ELSE <<unwritten>>

Persist ==
  /\ queue # <<>> /\ queue' = Tail(queue)
  /\ LET m == Head(queue) IN
       \/ /\ m.kind = "flush"
          /\ file' = file \o Pending /\ unwritten' = 0
          /\ acked' = acked \union {m}
          /\ UNCHANGED overtaken
       \/ /\ m.kind = "event" /\ m.seq \in xai
          /\ file' = Append(file, m.seq)
          /\ overtaken' = overtaken
               \union {e \in 1..m.seq : e \notin xai \union ToSet(file)}
          /\ UNCHANGED <<unwritten, acked>>
       \/ /\ m.kind = "event" /\ m.seq \notin xai
          /\ file' = file \o Pending /\ unwritten' = m.seq
          /\ UNCHANGED <<acked, overtaken>>
  /\ UNCHANGED <<threadVars, gate, loadVars, out, leaderVars>>

-----------------------------------------------------------------------------
(* load_session.  A handler that has read the delta opens the gate without *)
(* yielding to the others.                                                 *)
MayRun(c) == \A d \in Loaders \ {c} : load[d] # "open"
At(c, here) == load[c] = here /\ MayRun(c)
GotoLoad(c, next) == load' = [load EXCEPT ![c] = next]
Replays(c, lines) == [i \in DOMAIN lines |-> Replay(c, lines[i])]

LoadClose(c) ==
  /\ At(c, "close") /\ GotoLoad(c, "flush")
  /\ gate' = FALSE
  /\ cmds' = Append(cmds, FlushBy(c, 1))
  /\ UNCHANGED <<minted, xai, stream, emitting, shut, diskVars, offset,
                 timeouts, errors, racing, out, leaderVars>>

\* flush_session returns with the ack or after 5 s; a failed flush is only logged.
LoadFlushed(c) ==
  /\ At(c, "flush")
  /\ \/ FlushBy(c, 1) \in acked /\ UNCHANGED timeouts
     \/ /\ FlushBy(c, 1) \notin acked
        /\ timeouts < MaxTimeouts /\ timeouts' = timeouts + 1
  /\ GotoLoad(c, "read")
  /\ UNCHANGED <<threadVars, gate, diskVars, offset, errors, racing, out, leaderVars>>

\* (mutant) The error path forgets the response.
LoadErrorSilent(c) ==
  /\ At(c, "read") /\ errors < MaxErrors
  /\ errors' = errors + 1
  /\ GotoLoad(c, "done")
  /\ UNCHANGED <<threadVars, gate, diskVars, offset, timeouts, racing, out, leaderVars>>

\* An error on the way to the replay returns at once.
LoadError(c) ==
  /\ At(c, "read") /\ errors < MaxErrors
  /\ errors' = errors + 1
  /\ out' = Append(out, Response(c))
  /\ GotoLoad(c, "done")
  /\ UNCHANGED <<threadVars, gate, diskVars, offset, timeouts, racing, leaderVars>>

LoadRead(c) ==
  /\ At(c, "read") /\ GotoLoad(c, "reflush")
  /\ out' = out \o Replays(c, file)
  /\ offset' = [offset EXCEPT ![c] = Len(file)]
  /\ cmds' = Append(cmds, FlushBy(c, 2))
  /\ UNCHANGED <<minted, xai, stream, emitting, gate, shut, diskVars,
                 timeouts, errors, racing, leaderVars>>

LoadReflushed(c) ==
  /\ At(c, "reflush") /\ FlushBy(c, 2) \in acked
  /\ GotoLoad(c, "delta")
  /\ UNCHANGED <<threadVars, gate, diskVars, offset, timeouts, errors, racing, out, leaderVars>>

\* (mutant) A failed flush skips the gate, too.
LoadReflushGivesUp(c) ==
  /\ At(c, "reflush") /\ FlushBy(c, 2) \notin acked
  /\ timeouts < MaxTimeouts /\ timeouts' = timeouts + 1
  /\ GotoLoad(c, "answer")
  /\ UNCHANGED <<threadVars, gate, diskVars, offset, errors, racing, out, leaderVars>>

\* Without the flush there is no delta replay.
LoadReflushTimeout(c) ==
  /\ At(c, "reflush") /\ FlushBy(c, 2) \notin acked
  /\ timeouts < MaxTimeouts /\ timeouts' = timeouts + 1
  /\ GotoLoad(c, "open")
  /\ UNCHANGED <<threadVars, gate, diskVars, offset, errors, racing, out, leaderVars>>

\* (mutant) The delta starts over.
LoadDeltaFromStart(c) ==
  /\ At(c, "delta") /\ GotoLoad(c, "open")
  /\ out' = out \o Replays(c, file)
  /\ racing' = racing \union ({emitting} \ {0})
  /\ UNCHANGED <<threadVars, gate, diskVars, offset, timeouts, errors, leaderVars>>

LoadDelta(c) ==
  /\ At(c, "delta") /\ GotoLoad(c, "open")
  /\ out' = out \o Replays(c, SubSeq(file, offset[c] + 1, Len(file)))
  /\ racing' = racing \union ({emitting} \ {0})
  /\ UNCHANGED <<threadVars, gate, diskVars, offset, timeouts, errors, leaderVars>>

LoadOpen(c) ==
  /\ At(c, "open") /\ GotoLoad(c, "answer")
  /\ gate' = TRUE
  /\ UNCHANGED <<threadVars, diskVars, offset, timeouts, errors, racing, out, leaderVars>>

LoadAnswer(c) ==
  /\ At(c, "answer") /\ GotoLoad(c, "done")
  /\ out' = Append(out, Response(c))
  /\ UNCHANGED <<threadVars, gate, diskVars, offset, timeouts, errors, racing, leaderVars>>

-----------------------------------------------------------------------------
(* The leader.                                                             *)
agentVars == <<threadVars, gate, diskVars, offset, timeouts, errors, racing>>

\* (mutant) Subscribed without holding back the live events.
ServerLoadUnbuffered(c) ==
  /\ c \notin clients /\ load[c] = "idle"
  /\ clients' = clients \union {c}
  /\ GotoLoad(c, "close")
  /\ UNCHANGED <<agentVars, out, buffer, maxSeq, got, leaves, spilled>>

\* A client's session/load: subscribed, its live events buffered, and forwarded.
ServerLoad(c) ==
  /\ c \notin clients /\ load[c] = "idle"
  /\ clients' = clients \union {c}
  /\ buffer' = With(buffer, c, <<>>)
  /\ GotoLoad(c, "close")
  /\ UNCHANGED <<agentVars, out, maxSeq, got, leaves, spilled>>

\* (mutant) The replay cutoff survives the client.
ServerDisconnectedPartly(c) ==
  /\ c \in clients \ {Creator}
  /\ leaves < MaxLeaves /\ leaves' = leaves + 1
  /\ clients' = clients \ {c}
  /\ buffer' = Without(buffer, c)
  /\ UNCHANGED <<agentVars, load, out, maxSeq, got, spilled>>

ServerDisconnected(c) ==
  /\ c \in clients \ {Creator}
  /\ leaves < MaxLeaves /\ leaves' = leaves + 1
  /\ clients' = clients \ {c}
  /\ buffer' = Without(buffer, c)
  /\ maxSeq' = Without(maxSeq, c)
  /\ UNCHANGED <<agentVars, load, out, got, spilled>>

Holds(c) == c \in DOMAIN buffer /\ Len(buffer[c]) < MaxBuffered
Sent(s, e, replay) == Append(s, [seq |-> e, replay |-> replay])

\* (mutant) A held event is sent as well.
ServerFanOutTwice ==
  /\ out # <<>> /\ Head(out).kind = "live" /\ out' = Tail(out)
  /\ LET e == Head(out).seq IN
       /\ buffer' = [c \in DOMAIN buffer |->
                       IF Holds(c) THEN Append(buffer[c], e) ELSE buffer[c]]
       /\ got' = [c \in Clients |-> IF c \in clients THEN Sent(got[c], e, FALSE)
                                    ELSE got[c]]
       /\ spilled' = spilled \union {c \in DOMAIN buffer : ~Holds(c)}
  /\ UNCHANGED <<agentVars, load, clients, maxSeq, leaves>>

\* A live event: held for the clients that are loading, unless they hold too many.
ServerFanOut ==
  /\ out # <<>> /\ Head(out).kind = "live" /\ out' = Tail(out)
  /\ LET e == Head(out).seq IN
       /\ buffer' = [c \in DOMAIN buffer |->
                       IF Holds(c) THEN Append(buffer[c], e) ELSE buffer[c]]
       /\ got' = [c \in Clients |-> IF c \in clients /\ ~Holds(c)
                                    THEN Sent(got[c], e, FALSE) ELSE got[c]]
       /\ spilled' = spilled \union {c \in DOMAIN buffer : ~Holds(c)}
  /\ UNCHANGED <<agentVars, load, clients, maxSeq, leaves>>

\* A replayed event goes to its loader only, and raises the cutoff of the flush.
ServerUnicast ==
  /\ out # <<>> /\ Head(out).kind = "replay" /\ out' = Tail(out)
  /\ LET c == Head(out).to
         e == Head(out).seq
     IN  IF c \in clients
         THEN /\ got' = [got EXCEPT ![c] = Sent(@, e, TRUE)]
              /\ maxSeq' = With(maxSeq, c,
                                IF c \in DOMAIN maxSeq /\ maxSeq[c] > e
                                THEN maxSeq[c] ELSE e)
         ELSE UNCHANGED <<got, maxSeq>>
  /\ UNCHANGED <<agentVars, load, clients, buffer, leaves, spilled>>

\* (mutant) No replayed event counts as a cutoff at the top.
NewerThanSome(c) ==
  Kept(buffer[c], {e \in Events : c \in DOMAIN maxSeq /\ e > maxSeq[c]})

\* (mutant) Off by one.
NewerOrLast(c) ==
  Kept(buffer[c], {e \in Events : c \in DOMAIN maxSeq => e >= maxSeq[c]})

\* What the replay has not already delivered, as far as the ids tell.
Newer(c) ==
  Kept(buffer[c], {e \in Events : c \in DOMAIN maxSeq => e > maxSeq[c]})

BufferedTail(c) == [i \in DOMAIN Newer(c) |-> [seq |-> Newer(c)[i], replay |-> FALSE]]

\* The response ends the buffering: the buffered tail follows it.
ServerRespond ==
  /\ out # <<>> /\ Head(out).kind = "response" /\ out' = Tail(out)
  /\ LET c == Head(out).to IN
       IF c \in DOMAIN buffer
       THEN /\ got' = [got EXCEPT ![c] = @ \o BufferedTail(c)]
            /\ buffer' = Without(buffer, c)
            /\ maxSeq' = Without(maxSeq, c)
       ELSE UNCHANGED <<got, buffer, maxSeq>>
  /\ UNCHANGED <<agentVars, load, clients, leaves, spilled>>

-----------------------------------------------------------------------------
Init ==
  /\ minted = 0 /\ xai = {} /\ stream = <<>> /\ emitting = 0 /\ gate = TRUE
  /\ cmds = <<>> /\ queue = <<>> /\ unwritten = 0 /\ file = <<>> /\ acked = {}
  /\ load = [c \in Loaders |-> "idle"] /\ offset = [c \in Loaders |-> 0]
  /\ out = <<>>
  /\ clients = {Creator} /\ buffer = <<>> /\ maxSeq = <<>>
  /\ got = [c \in Clients |-> <<>>]
  /\ timeouts = 0 /\ errors = 0 /\ leaves = 0
  /\ shut = {} /\ overtaken = {} /\ racing = {} /\ spilled = {}

SessionStep == EmitAcp \/ Forward \/ Flush
LoadStep(c) ==
  \/ LoadClose(c) \/ LoadFlushed(c) \/ LoadError(c) \/ LoadRead(c) \/ LoadReflushed(c)
  \/ LoadReflushTimeout(c) \/ LoadDelta(c) \/ LoadOpen(c) \/ LoadAnswer(c)
ServerReceive == ServerFanOut \/ ServerUnicast \/ ServerRespond

Next ==
  \/ StampAcp \/ EmitXai \/ SessionStep \/ Persist \/ ServerReceive
  \/ \E c \in Loaders : LoadStep(c) \/ ServerLoad(c) \/ ServerDisconnected(c)

Spec == Init /\ [][Next]_vars

\* Every actor that has work to do goes on; nobody has to produce events, attach
\* or leave.
Fairness ==
  /\ WF_vars(EmitAcp) /\ WF_vars(Forward) /\ SF_vars(Flush) /\ WF_vars(Persist)
  /\ WF_vars(ServerReceive)
  /\ \A c \in Loaders : SF_vars(LoadStep(c))

FairSpec == Spec /\ Fairness
-----------------------------------------------------------------------------
(* Correctness.                                                            *)

TypeOK ==
  /\ minted \in 0..MaxEvents /\ xai \subseteq 1..minted
  /\ stream \in Seq(Events) /\ emitting \in 0..minted /\ gate \in BOOLEAN
  /\ cmds \in Seq(Flushes) /\ queue \in Seq([kind : {"event"}, seq : Events] \union Flushes)
  /\ unwritten \in 0..minted /\ file \in Seq(Events) /\ acked \subseteq Flushes
  /\ load \in [Loaders -> LoadPcs] /\ offset \in [Loaders -> Nat]
  /\ out \in Seq(Messages)
  /\ clients \subseteq Clients
  /\ DOMAIN buffer \subseteq Loaders /\ \A c \in DOMAIN buffer : buffer[c] \in Seq(Events)
  /\ DOMAIN maxSeq \subseteq Loaders /\ \A c \in DOMAIN maxSeq : maxSeq[c] \in Events
  /\ got \in [Clients -> Seq([seq : Events, replay : BOOLEAN])]
  /\ timeouts \in 0..MaxTimeouts /\ errors \in 0..MaxErrors /\ leaves \in 0..MaxLeaves
  /\ {shut, overtaken, racing} \subseteq SUBSET (1..minted) /\ spilled \subseteq Loaders

\* What a client was replayed.
Seqs(s) == [i \in DOMAIN s |-> s[i].seq]
Replayed(c) == Seqs(Kept(got[c], [seq : Events, replay : {TRUE}]))

\* Live events of one stream, of which the client keeps the largest id it applied.
SameStream(m, n) == ~m.replay /\ ~n.replay /\ (m.seq \in xai <=> n.seq \in xai)

\* The client applies every replayed event, and the live ones above that id.
Applied(c) ==
  {i \in DOMAIN got[c] :
     \A j \in 1..(i - 1) : SameStream(got[c][j], got[c][i]) => got[c][j].seq < got[c][i].seq}
Shown(c) == {got[c][i].seq : i \in Applied(c)}
ShownTwice(c) ==
  {got[c][i].seq : i \in {n \in Applied(c) :
                            \E m \in Applied(c) : m < n /\ got[c][m].seq = got[c][n].seq}}

\* Everything that was emitted has been delivered.
Settled ==
  /\ stream = <<>> /\ emitting = 0 /\ out = <<>>
  /\ \A c \in Loaders : load[c] \in {"idle", "done"}

\* The two replays of a load join without a gap or an overlap: what a loader is
\* replayed is a prefix of the file, however much was appended between them.
ReplayIsPrefix == \A c \in Loaders : IsPrefix(Replayed(c), file)

\* The live-before-replay race: unless its buffer overflows, a loader is sent no
\* live event before the last replayed one.
ReplayBeforeLive ==
  \A c \in Loaders \ spilled :
    \A i, j \in DOMAIN got[c] : i < j /\ got[c][j].replay => got[c][i].replay

\* The premise of the client's dedup: the live events of a stream arrive in the
\* order of their ids, the flushed tail of a load included, so that it drops
\* nothing that was not sent before (acp_handler/mod.rs:166).
LiveInOrder ==
  \A c \in Clients \ spilled : Applied(c) = DOMAIN got[c]

\* The tables about loads name connected clients whose load is not answered.
LoadTables ==
  /\ DOMAIN maxSeq \subseteq DOMAIN buffer
  /\ \A c \in Loaders :
       c \in DOMAIN buffer <=>
         /\ c \in clients
         /\ load[c] = "done" => Response(c) \in ToSet(out)

\* When everything has been delivered, and no flush timed out, no load failed and
\* no buffer overflowed, an attached client misses an event only because it found
\* the gate closed or was overtaken by an xAI event.
MissesExplained ==
  (Settled /\ timeouts = 0 /\ errors = 0) =>
    \A c \in clients \ spilled : (1..minted) \ Shown(c) \subseteq shut \union overtaken

\* A client shows an event twice only if it was between its two sends when a
\* delta was read, a flush timed out or a buffer overflowed.
TwiceExplained ==
  timeouts = 0 => \A c \in Clients \ spilled : ShownTwice(c) \subseteq racing

\* server.rs:304-306: "Only `session/load` triggers this -- `session/new` creators
\* receive everything live correctly."
CreatorReceivesAll == Settled => Shown(Creator) = 1..minted

\* A gate that a load closed is opened again, unless a load failed.
GateReopens == []<>(gate \/ errors > 0)

\* No client is left waiting for its load, and for the live events held meanwhile.
LoadEnds == \A c \in Loaders : c \in DOMAIN buffer ~> c \notin DOMAIN buffer
=============================================================================
