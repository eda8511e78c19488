------------------------- MODULE SessionLoadProofs -------------------------
(***************************************************************************)
(* Proofs about one session's event stream, for any number of clients and  *)
(* events, any buffer and any number of failures.                          *)
(*                                                                         *)
(* The leader's tables (Tables) rest on the order of the channel: every    *)
(* replayed event is ahead of its load's one answer (Wire).  Which events  *)
(* a client is sent, and in which order, follows from where each event is  *)
(* and what comes before it:                                               *)
(*   Log         an event waits, is in the mailbox, pending or written,    *)
(*               once, behind the lower ids that no xAI event passed       *)
(*   Order       the live events of a stream are in the order of their ids *)
(*               from the session thread to the clients                    *)
(*   ReplayLine  what a load has sent and is sending is a prefix of the    *)
(*               file, of the length the first read left in offset         *)
(*   Cutoff      the leader's cutoff is the largest id it replayed         *)
(*   Raced       an id a load has replayed is behind its answer, or being  *)
(*               emitted, only if the delta was read meanwhile             *)
(*   Accounted   an event that a client was not sent waits, is on its way, *)
(*               is due to be replayed, or was passed over                 *)
(***************************************************************************)
EXTENDS SessionLoad, SelectionLemmas

\* What the forwarding of replayed events needs to know of the session: its log
\* is a sequence of events.
Queued == [kind : {"event"}, seq : Nat] \union Flushes
ToLeader == [kind : {"live"}, seq : Nat]
               \union [kind : {"replay"}, to : Loaders, seq : Nat]
               \union [kind : {"response"}, to : Loaders]

SessionOK ==
  /\ minted \in Nat /\ stream \in Seq(Nat) /\ emitting \in Nat
  /\ cmds \in Seq(Flushes) /\ queue \in Seq(Queued)
  /\ unwritten \in Nat /\ file \in Seq(Nat)
  /\ offset \in [Loaders -> Nat]

WireOK ==
  /\ load \in [Loaders -> LoadPcs]
  /\ out \in Seq(ToLeader)

IsReplay(m, c) == m.kind = "replay" /\ m.to = c

\* Every replayed event is ahead of its load's answer.
ReplaysAnswered ==
  \A c \in Loaders, i \in DOMAIN out :
    IsReplay(out[i], c) =>
      \/ load[c] \in {"reflush", "delta", "open", "answer"}
      \/ \E j \in DOMAIN out : j > i /\ out[j] = Response(c)

\* A load is answered once, as its last step.
AnsweredOnce ==
  \A c \in Loaders, i \in DOMAIN out :
    out[i] = Response(c) =>
      /\ load[c] = "done"
      /\ \A j \in DOMAIN out : out[j] = Response(c) => j = i

-----------------------------------------------------------------------------
(* The session thread, the persistence actor and the log.                  *)

\* Every step keeps the session, its mailboxes and its log sequences of events.
LEMMA SessionStepOK ==
  ASSUME SessionOK, WireOK, [Next]_vars
  PROVE  SessionOK'
  <1> USE DEF SessionOK, threadVars, diskVars
  <1>1. CASE UNCHANGED vars
    BY <1>1 DEF vars
  <1>2. CASE StampAcp
    BY <1>2 DEF StampAcp, loadVars
  <1>3. CASE EmitXai
    <2>1. Item(minted') \in Queued /\ minted' \in Nat
      BY <1>3 DEF EmitXai, Item, Queued
    <2>. QED
      BY <1>3, <2>1 DEF EmitXai, loadVars
  <1>4. CASE EmitAcp
    <2>1. Head(stream) \in Nat /\ Tail(stream) \in Seq(Nat)
      BY <1>4 DEF EmitAcp
    <2>2. Item(Head(stream)) \in Queued
      BY <2>1 DEF Item, Queued
    <2>. QED
      BY <1>4, <2>1, <2>2 DEF EmitAcp, loadVars
  <1>5. CASE Forward
    BY <1>5 DEF Forward, loadVars
  <1>6. CASE Flush
    <2>1. Head(cmds) \in Flushes /\ Tail(cmds) \in Seq(Flushes) /\ Flushes \subseteq Queued
      BY <1>6 DEF Flush, Queued
    <2>. QED
      BY <1>6, <2>1 DEF Flush, loadVars
  <1>7. CASE Persist
    <2>1. Head(queue) \in Queued /\ Tail(queue) \in Seq(Queued)
      BY <1>7 DEF Persist
    <2>2. Pending \in Seq(Nat) /\ file \o Pending \in Seq(Nat)
      BY DEF Pending
    <2>3. /\ queue' = Tail(queue)
          /\ \/ file' = file \o Pending /\ unwritten' = 0
             \/ /\ Head(queue).kind = "event" /\ file' = Append(file, Head(queue).seq)
                /\ unwritten' = unwritten
             \/ /\ Head(queue).kind = "event" /\ file' = file \o Pending
                /\ unwritten' = Head(queue).seq
      BY <1>7 DEF Persist
    <2>4. Head(queue).kind = "event" => Head(queue).seq \in Nat
      BY <2>1 DEF Queued, Flushes
    <2>5. file' \in Seq(Nat) /\ unwritten' \in Nat
      <3>1. CASE file' = file \o Pending
        BY <2>2, <2>3, <2>4, <3>1
      <3>2. CASE Head(queue).kind = "event" /\ file' = Append(file, Head(queue).seq)
        <4>1. Head(queue).seq \in Nat
          BY <2>4, <3>2
        <4>2. file' \in Seq(Nat)
          BY <3>2, <4>1
        <4>. QED
          BY <2>3, <2>4, <4>2
      <3>. QED
        BY <2>3, <3>1, <3>2
    <2>. QED
      BY <1>7, <2>1, <2>5 DEF Persist, loadVars
  <1>8. CASE ServerReceive
    BY <1>8 DEF ServerReceive, ServerFanOut, ServerUnicast, ServerRespond, agentVars
  <1>9. ASSUME NEW c \in Loaders, ServerLoad(c) \/ ServerDisconnected(c)
        PROVE  SessionOK'
    BY <1>9 DEF ServerLoad, ServerDisconnected, agentVars
  <1>10. ASSUME NEW c \in Loaders, LoadStep(c)
         PROVE  SessionOK'
    <2>1. FlushBy(c, 1) \in Flushes /\ FlushBy(c, 2) \in Flushes
      BY DEF FlushBy, Flushes
    <2>2. CASE LoadClose(c)
      BY <2>1, <2>2 DEF LoadClose
    <2>3. CASE LoadRead(c)
      BY <2>1, <2>3 DEF LoadRead
    <2>4. CASE LoadFlushed(c) \/ LoadError(c) \/ LoadReflushed(c) \/ LoadReflushTimeout(c)
               \/ LoadDelta(c) \/ LoadOpen(c) \/ LoadAnswer(c)
      BY <2>4 DEF LoadFlushed, LoadError, LoadReflushed, LoadReflushTimeout, LoadDelta,
         LoadOpen, LoadAnswer
    <2>. QED
      BY <1>10, <2>2, <2>3, <2>4 DEF LoadStep
  <1>. QED
    BY <1>1, <1>2, <1>3, <1>4, <1>5, <1>6, <1>7, <1>8, <1>9, <1>10 DEF Next, SessionStep

-----------------------------------------------------------------------------
(* What is on its way to the leader.                                       *)

Replaying == {"reflush", "delta", "open", "answer"}

Wire == WireOK /\ ReplaysAnswered /\ AnsweredOnce

Answered(c) == \E i \in DOMAIN out : out[i] = Response(c)

\* Membership in the channel, by position.
LEMMA AnsweredIsIn ==
  ASSUME WireOK, NEW c
  PROVE  Response(c) \in ToSet(out) <=> Answered(c)
  BY DEF WireOK, ToSet, Answered

\* The channel with messages appended, by position.
LEMMA Grown ==
  ASSUME WireOK, NEW s \in Seq(ToLeader), out' = out \o s
  PROVE  /\ out' \in Seq(ToLeader) /\ Len(out) \in Nat /\ Len(s) \in Nat
         /\ DOMAIN out = 1..Len(out) /\ DOMAIN s = 1..Len(s)
         /\ DOMAIN out' = 1..(Len(out) + Len(s))
         /\ \A i \in 1..Len(out) : out'[i] = out[i]
         /\ \A i \in 1..Len(s) : out'[Len(out) + i] = s[i]
         /\ \A i \in DOMAIN out' : i \in DOMAIN out \/
              (i - Len(out) \in 1..Len(s) /\ out'[i] = s[i - Len(out)])
  BY DEF WireOK

\* A message that no load waits for is sent.
LEMMA WireLive ==
  ASSUME Wire, UNCHANGED load, NEW e \in Nat, out' = Append(out, Live(e))
  PROVE  Wire' /\ \A c \in Loaders : Answered(c)' <=> Answered(c)
  <1>1. /\ out' \in Seq(ToLeader) /\ Len(out) \in Nat /\ DOMAIN out = 1..Len(out)
        /\ DOMAIN out' = 1..(Len(out) + 1)
        /\ \A i \in 1..Len(out) : out'[i] = out[i]
        /\ out'[Len(out) + 1] = Live(e)
    <2>1. Live(e) \in ToLeader
      BY DEF Live, ToLeader
    <2>. QED
      BY <2>1 DEF Wire, WireOK
  <1>2. \A c \in Loaders : Live(e) # Response(c) /\ ~IsReplay(Live(e), c)
    BY DEF Live, Response, IsReplay
  <1>3. \A i \in DOMAIN out' : i \in DOMAIN out \/ i = Len(out) + 1
    BY <1>1
  <1>4. \A c \in Loaders : Answered(c)' <=> Answered(c)
    BY <1>1, <1>2, <1>3 DEF Answered, Response
  <1>5. ReplaysAnswered'
    BY <1>1, <1>2, <1>3 DEF Wire, ReplaysAnswered, Response, IsReplay
  <1>6. AnsweredOnce'
    BY <1>1, <1>2, <1>3 DEF Wire, AnsweredOnce, Response
  <1>. QED
    BY <1>1, <1>4, <1>5, <1>6 DEF Wire, WireOK

\* A load goes on without sending anything.
LEMMA WireMoves ==
  ASSUME Wire, UNCHANGED out, NEW c \in Loaders, NEW next \in LoadPcs \ {"done"},
         GotoLoad(c, next), load[c] # "done", load[c] \in Replaying => next \in Replaying
  PROVE  Wire' /\ \A d \in Loaders : Answered(d)' <=> Answered(d)
  <1>1. /\ load' \in [Loaders -> LoadPcs] /\ load'[c] = next
        /\ \A d \in Loaders : d # c => load'[d] = load[d]
    BY DEF Wire, WireOK, GotoLoad
  <1>2. ReplaysAnswered'
    BY <1>1 DEF Wire, ReplaysAnswered, IsReplay, Response, Replaying
  <1>3. AnsweredOnce'
    BY <1>1 DEF Wire, AnsweredOnce, Response
  <1>. QED
    BY <1>1, <1>2, <1>3 DEF Wire, WireOK, Answered, Response

\* A load replays lines of the file.
LEMMA WireReplays ==
  ASSUME Wire, NEW c \in Loaders, NEW next \in Replaying, GotoLoad(c, next),
         load[c] # "done", NEW lines \in Seq(Nat), out' = out \o Replays(c, lines)
  PROVE  Wire' /\ \A d \in Loaders : Answered(d)' <=> Answered(d)
  <1> DEFINE s == Replays(c, lines)
  <1>1. /\ load' \in [Loaders -> LoadPcs] /\ load'[c] = next
        /\ \A d \in Loaders : d # c => load'[d] = load[d]
    BY DEF Wire, WireOK, GotoLoad, Replaying, LoadPcs
  <1>2. /\ s \in Seq(ToLeader)
        /\ \A i \in 1..Len(s) : IsReplay(s[i], c) /\ s[i].kind = "replay"
    <2>1. Len(lines) \in Nat /\ DOMAIN lines = 1..Len(lines)
          /\ \A i \in 1..Len(lines) : lines[i] \in Nat
      OBVIOUS
    <2>2. \A i \in 1..Len(lines) : s[i] = Replay(c, lines[i])
      BY <2>1 DEF Replays
    <2>3. \A i \in 1..Len(lines) : s[i] \in ToLeader /\ IsReplay(s[i], c)
                                  /\ s[i].kind = "replay"
      <3>1. \A e \in Nat : /\ Replay(c, e) \in ToLeader /\ IsReplay(Replay(c, e), c)
                           /\ Replay(c, e).kind = "replay"
        BY DEF Replay, ToLeader, IsReplay
      <3> HIDE DEF s
      <3>. QED
        BY <2>1, <2>2, <3>1
    <2>4. s \in [1..Len(lines) -> ToLeader]
      BY <2>1, <2>3 DEF Replays
    <2>5. s \in Seq(ToLeader)
      <3>1. Len(lines) \in Nat
        BY <2>1
      <3> HIDE DEF s
      <3>. QED
        BY <2>4, <3>1, SeqDef
    <2>6. DOMAIN s = 1..Len(lines) /\ DOMAIN s = 1..Len(s)
      BY <2>4, <2>5, LenProperties, Zenon
    <2>. QED
      BY <2>3, <2>5, <2>6
  <1> HIDE DEF s
  <1>3. /\ out' \in Seq(ToLeader) /\ Len(out) \in Nat /\ Len(s) \in Nat
        /\ DOMAIN out = 1..Len(out)
        /\ DOMAIN out' = 1..(Len(out) + Len(s))
        /\ \A i \in 1..Len(out) : out'[i] = out[i]
        /\ \A i \in DOMAIN out' : i \in DOMAIN out \/
             (i - Len(out) \in 1..Len(s) /\ out'[i] = s[i - Len(out)])
    BY <1>2, Grown DEF Wire, s
  <1>4. \A i \in DOMAIN out' : i \in DOMAIN out \/
          (IsReplay(out'[i], c) /\ out'[i].kind = "replay")
    BY <1>2, <1>3
  <1>5. \A i \in DOMAIN out' : i \in DOMAIN out \/
          (\A d \in Loaders : out'[i] # Response(d) /\ (IsReplay(out'[i], d) => d = c))
    BY <1>4 DEF Response, IsReplay
  <1>6. \A i \in DOMAIN out : i \in DOMAIN out' /\ out'[i] = out[i]
    BY <1>3
  <1>7. \A d \in Loaders : Answered(d)' <=> Answered(d)
    BY <1>5, <1>6 DEF Answered, Response
  <1>8. ReplaysAnswered'
    BY <1>1, <1>5, <1>6 DEF Wire, ReplaysAnswered, Response, IsReplay, Replaying
  <1>9. AnsweredOnce'
    BY <1>1, <1>5, <1>6 DEF Wire, AnsweredOnce, Response
  <1>. QED
    BY <1>1, <1>3, <1>7, <1>8, <1>9 DEF Wire, WireOK

\* A load is answered.
LEMMA WireAnswers ==
  ASSUME Wire, NEW c \in Loaders, GotoLoad(c, "done"), load[c] # "done",
         out' = Append(out, Response(c))
  PROVE  /\ Wire' /\ Answered(c)'
         /\ \A d \in Loaders \ {c} : Answered(d)' <=> Answered(d)
  <1>1. /\ load' \in [Loaders -> LoadPcs] /\ load'[c] = "done"
        /\ \A d \in Loaders : d # c => load'[d] = load[d]
    BY DEF Wire, WireOK, GotoLoad, LoadPcs
  <1>2. /\ out' \in Seq(ToLeader) /\ Len(out) \in Nat /\ DOMAIN out = 1..Len(out)
        /\ DOMAIN out' = 1..(Len(out) + 1)
        /\ \A i \in 1..Len(out) : out'[i] = out[i]
        /\ out'[Len(out) + 1] = Response(c)
    <2>1. Response(c) \in ToLeader
      BY DEF Response, ToLeader
    <2>. QED
      BY <2>1 DEF Wire, WireOK
  <1>3. /\ \A i \in DOMAIN out' : i \in DOMAIN out \/ i = Len(out) + 1
        /\ \A i \in DOMAIN out : i \in DOMAIN out' /\ out'[i] = out[i] /\ Len(out) + 1 > i
        /\ Len(out) + 1 \in DOMAIN out'
    BY <1>2
  <1>4. /\ \A d \in Loaders : d # c => Response(d) # Response(c)
        /\ \A d \in Loaders : ~IsReplay(Response(c), d)
    BY DEF Response, IsReplay
  <1>5. \A i \in DOMAIN out : out[i] # Response(c)
    BY DEF Wire, AnsweredOnce
  <1>6. Answered(c)' /\ \A d \in Loaders \ {c} : Answered(d)' <=> Answered(d)
    BY <1>2, <1>3, <1>4 DEF Answered, Response
  <1>7. ReplaysAnswered'
    BY <1>1, <1>2, <1>3, <1>4 DEF Wire, ReplaysAnswered, Response, IsReplay
  <1>8. AnsweredOnce'
    BY <1>1, <1>2, <1>3, <1>4, <1>5 DEF Wire, AnsweredOnce, Response
  <1>. QED
    BY <1>1, <1>2, <1>6, <1>7, <1>8 DEF Wire, WireOK

\* The leader takes the next message.
LEMMA WireTaken ==
  ASSUME Wire, UNCHANGED load, out # <<>>, out' = Tail(out)
  PROVE  /\ Wire'
         /\ \A c \in Loaders : Answered(c)' <=> (Answered(c) /\ Head(out) # Response(c))
  <1>1. /\ out' \in Seq(ToLeader) /\ Len(out) \in Nat /\ Len(out) > 0
        /\ DOMAIN out = 1..Len(out) /\ DOMAIN out' = 1..(Len(out) - 1)
        /\ \A i \in 1..(Len(out) - 1) : out'[i] = out[i + 1]
        /\ Head(out) = out[1]
    BY DEF Wire, WireOK
  <1>2. \A i \in DOMAIN out' : i \in Nat /\ i + 1 \in DOMAIN out /\ out'[i] = out[i + 1]
    BY <1>1
  <1>3. \A j \in DOMAIN out : j = 1 \/ (j - 1 \in DOMAIN out' /\ out'[j - 1] = out[j])
    <2> SUFFICES ASSUME NEW j \in DOMAIN out, j # 1
                 PROVE  j - 1 \in DOMAIN out' /\ out'[j - 1] = out[j]
      OBVIOUS
    <2>1. j - 1 \in 1..(Len(out) - 1) /\ (j - 1) + 1 = j
      BY <1>1
    <2>. QED
      BY <1>1, <2>1
  <1>4. ReplaysAnswered'
    <2> SUFFICES ASSUME NEW c \in Loaders, NEW i \in DOMAIN out', IsReplay(out'[i], c),
                        load[c] \notin Replaying
                 PROVE  \E j \in DOMAIN out' : j > i /\ out'[j] = Response(c)
      BY DEF ReplaysAnswered, IsReplay, Response, Replaying
    <2>1. PICK j \in DOMAIN out : j > i + 1 /\ out[j] = Response(c)
      BY <1>2 DEF Wire, ReplaysAnswered, Replaying
    <2>2. j - 1 \in DOMAIN out' /\ out'[j - 1] = Response(c) /\ j - 1 > i
      BY <1>1, <1>2, <1>3, <2>1
    <2>. QED
      BY <2>2
  <1>5. AnsweredOnce'
    <2> SUFFICES ASSUME NEW c \in Loaders, NEW i \in DOMAIN out', out'[i] = Response(c)
                 PROVE  /\ load[c] = "done"
                        /\ \A j \in DOMAIN out' : out'[j] = Response(c) => j = i
      BY DEF AnsweredOnce, Response
    <2>1. load[c] = "done" /\ \A j \in DOMAIN out : out[j] = Response(c) => j = i + 1
      BY <1>2 DEF Wire, AnsweredOnce
    <2>. QED
      BY <1>2, <2>1
  <1>6. ASSUME NEW c \in Loaders
        PROVE  Answered(c)' <=> (Answered(c) /\ Head(out) # Response(c))
    <2>1. ASSUME Answered(c)' PROVE Answered(c) /\ Head(out) # Response(c)
      <3>1. PICK i \in DOMAIN out' : out'[i] = Response(c)
        BY <2>1 DEF Answered, Response
      <3>2. i + 1 \in DOMAIN out /\ out[i + 1] = Response(c) /\ i + 1 # 1 /\ 1 \in DOMAIN out
        BY <1>1, <1>2, <3>1
      <3>. QED
        BY <1>1, <3>2 DEF Wire, AnsweredOnce, Answered
    <2>2. ASSUME Answered(c), Head(out) # Response(c) PROVE Answered(c)'
      <3>1. PICK j \in DOMAIN out : out[j] = Response(c)
        BY <2>2 DEF Answered
      <3>2. j - 1 \in DOMAIN out' /\ out'[j - 1] = Response(c)
        BY <1>1, <1>3, <2>2, <3>1
      <3>. QED
        BY <3>2 DEF Answered, Response
    <2>. QED
      BY <2>1, <2>2
  <1>. QED
    BY <1>1, <1>4, <1>5, <1>6 DEF Wire, WireOK

-----------------------------------------------------------------------------
(* The leader's tables.                                                    *)

\* The answer has not reached the leader.
Owed(c) == load[c] = "done" => Answered(c)

\* DOMAIN maxSeq may name loaders only: LoadTables says nothing of others.
Tables ==
  /\ DOMAIN maxSeq \subseteq Loaders /\ DOMAIN maxSeq \subseteq DOMAIN buffer
  /\ \A c \in Loaders : c \in DOMAIN buffer <=> c \in clients /\ Owed(c)

IInv == SessionOK /\ Wire /\ Tables

\* The session and the log send nothing but live events, and no load moves.
LEMMA WireSession ==
  ASSUME SessionOK, Wire,
         StampAcp \/ EmitXai \/ SessionStep \/ Persist
  PROVE  Wire' /\ \A c \in Loaders : Answered(c)' <=> Answered(c)
  <1>1. CASE UNCHANGED <<load, out>>
    BY <1>1 DEF Wire, WireOK, ReplaysAnswered, AnsweredOnce, Answered, IsReplay, Response
  <1>2. UNCHANGED load
    BY DEF StampAcp, EmitXai, SessionStep, EmitAcp, Forward, Flush, Persist, loadVars
  <1>3. UNCHANGED out \/ out' = Append(out, Live(emitting))
    BY DEF StampAcp, EmitXai, SessionStep, EmitAcp, Forward, Flush, Persist
  <1>4. emitting \in Nat
    BY DEF SessionOK
  <1>. QED
    BY <1>1, <1>2, <1>3, <1>4, WireLive

\* A step that neither attaches, answers nor disconnects anyone keeps the tables.
LEMMA TablesKept ==
  ASSUME Tables, UNCHANGED <<clients, buffer, maxSeq>>,
         \A c \in Loaders : Owed(c)' <=> Owed(c)
  PROVE  Tables'
  BY DEF Tables

\* The steps of a load, ...
LEMMA LoadStepOK ==
  ASSUME SessionOK, Wire, Tables, NEW c \in Loaders, LoadStep(c)
  PROVE  Wire' /\ Tables'
  <1> USE DEF At, Replaying, LoadPcs
  <1>0. UNCHANGED <<clients, buffer, maxSeq>>
    BY DEF LoadStep, LoadClose, LoadFlushed, LoadError, LoadRead, LoadReflushed,
       LoadReflushTimeout, LoadDelta, LoadOpen, LoadAnswer, leaderVars
  <1>1. \A d \in Loaders : \A next \in LoadPcs :
          GotoLoad(c, next) => load'[d] = IF d = c THEN next ELSE load[d]
    BY DEF GotoLoad, Wire, WireOK
  <1>2. ASSUME NEW next \in LoadPcs \ {"done"}, GotoLoad(c, next), load[c] # "done",
               Wire', \A d \in Loaders : Answered(d)' <=> Answered(d)
        PROVE  Wire' /\ Tables'
    <2>1. \A d \in Loaders : Owed(d)' <=> Owed(d)
      BY <1>1, <1>2 DEF Owed
    <2>. QED
      BY <1>0, <1>2, <2>1, TablesKept
  <1>3. ASSUME GotoLoad(c, "done"), load[c] # "done", out' = Append(out, Response(c))
        PROVE  Wire' /\ Tables'
    <2>1. /\ Wire' /\ Answered(c)'
          /\ \A d \in Loaders \ {c} : Answered(d)' <=> Answered(d)
      BY <1>3, WireAnswers
    <2>2. \A d \in Loaders : Owed(d)' <=> Owed(d)
      BY <1>1, <1>3, <2>1 DEF Owed
    <2>. QED
      BY <1>0, <2>1, <2>2, TablesKept
  <1>4. CASE LoadError(c)
    BY <1>3, <1>4 DEF LoadError
  <1>5. CASE LoadAnswer(c)
    BY <1>3, <1>5 DEF LoadAnswer
  <1>6. CASE LoadRead(c)
    <2>1. file \in Seq(Nat)
      BY DEF SessionOK
    <2>2. GotoLoad(c, "reflush") /\ load[c] = "read" /\ out' = out \o Replays(c, file)
      BY <1>6 DEF LoadRead
    <2>. QED
      BY <1>2, <2>1, <2>2, WireReplays
  <1>7. CASE LoadDelta(c)
    <2>1. SubSeq(file, offset[c] + 1, Len(file)) \in Seq(Nat)
      <3>1. file \in Seq(Nat) /\ offset[c] + 1 \in Nat /\ Len(file) \in Nat
            /\ offset[c] + 1 >= 1
        BY DEF SessionOK
      <3>. QED
        BY <3>1
    <2>2. /\ GotoLoad(c, "open") /\ load[c] = "delta"
          /\ out' = out \o Replays(c, SubSeq(file, offset[c] + 1, Len(file)))
      BY <1>7 DEF LoadDelta
    <2>. QED
      BY <1>2, <2>1, <2>2, WireReplays
  <1>8. CASE LoadClose(c) \/ LoadFlushed(c) \/ LoadReflushed(c) \/ LoadReflushTimeout(c)
             \/ LoadOpen(c)
    <2>1. UNCHANGED out
      BY <1>8 DEF LoadClose, LoadFlushed, LoadReflushed, LoadReflushTimeout, LoadOpen
    <2>2. \E next \in LoadPcs \ {"done"} :
            /\ GotoLoad(c, next) /\ load[c] # "done"
            /\ load[c] \in Replaying => next \in Replaying
      BY <1>8 DEF LoadClose, LoadFlushed, LoadReflushed, LoadReflushTimeout, LoadOpen
    <2>. QED
      BY <1>2, <2>1, <2>2, WireMoves
  <1>. QED
    BY <1>4, <1>5, <1>6, <1>7, <1>8 DEF LoadStep

\* ... of a client's connection, ...
LEMMA ClientStepOK ==
  ASSUME Wire, Tables, NEW c \in Loaders, ServerLoad(c) \/ ServerDisconnected(c)
  PROVE  Wire' /\ Tables'
  <1>1. CASE ServerLoad(c)
    <2>1. /\ UNCHANGED <<out, maxSeq>> /\ GotoLoad(c, "close") /\ load[c] = "idle"
          /\ DOMAIN buffer' = DOMAIN buffer \union {c} /\ clients' = clients \union {c}
      BY <1>1 DEF ServerLoad, With
    <2>2. Wire' /\ \A d \in Loaders : Answered(d)' <=> Answered(d)
      BY <2>1, WireMoves DEF LoadPcs, Replaying
    <2>3. \A d \in Loaders : load'[d] = IF d = c THEN "close" ELSE load[d]
      BY <2>1 DEF GotoLoad, Wire, WireOK
    <2>4. Owed(c)' /\ \A d \in Loaders : d # c => (Owed(d)' <=> Owed(d))
      BY <2>2, <2>3 DEF Owed
    <2>. QED
      BY <2>1, <2>2, <2>4 DEF Tables
  <1>2. CASE ServerDisconnected(c)
    <2>1. /\ UNCHANGED <<out, load>> /\ clients' = clients \ {c}
          /\ DOMAIN buffer' = DOMAIN buffer \ {c} /\ DOMAIN maxSeq' = DOMAIN maxSeq \ {c}
      BY <1>2 DEF ServerDisconnected, Without, Restrict
    <2>2. Wire' /\ \A d \in Loaders : Owed(d)' <=> Owed(d)
      BY <2>1 DEF Wire, WireOK, ReplaysAnswered, AnsweredOnce, Answered, IsReplay, Response,
         Owed
    <2>. QED
      BY <2>1, <2>2 DEF Tables
  <1>. QED
    BY <1>1, <1>2

\* ... and of the leader keep what the tables rest on.
LEMMA ReceiveOK ==
  ASSUME Wire, Tables, ServerReceive
  PROVE  Wire' /\ Tables'
  <1>1. out # <<>> /\ out' = Tail(out) /\ UNCHANGED <<load, clients>>
    BY DEF ServerReceive, ServerFanOut, ServerUnicast, ServerRespond
  <1>2. Wire' /\ \A c \in Loaders : Answered(c)' <=> (Answered(c) /\ Head(out) # Response(c))
    BY <1>1, WireTaken
  <1>3. /\ 1 \in DOMAIN out /\ Head(out) = out[1] /\ Head(out) \in ToLeader
    BY <1>1 DEF Wire, WireOK
  <1>4. CASE ServerFanOut
    <2>1. /\ DOMAIN buffer' = DOMAIN buffer /\ UNCHANGED maxSeq
          /\ \A c \in Loaders : Head(out) # Response(c)
      BY <1>4 DEF ServerFanOut, Response
    <2>. QED
      BY <1>1, <1>2, <2>1 DEF Tables, Owed
  <1>5. CASE ServerUnicast
    <2>1. /\ UNCHANGED buffer
          /\ \A c \in Loaders : Head(out) # Response(c)
          /\ Head(out).kind = "replay"
      BY <1>5 DEF ServerUnicast, Response
    <2>2. Head(out).to \in Loaders
      BY <1>3, <2>1 DEF ToLeader
    <2>3. \/ UNCHANGED maxSeq
          \/ /\ Head(out).to \in clients
             /\ DOMAIN maxSeq' = DOMAIN maxSeq \union {Head(out).to}
      BY <1>5 DEF ServerUnicast, With
    <2>4. Head(out).to \in clients => Head(out).to \in DOMAIN buffer
      <3> DEFINE c == Head(out).to
      <3>1. IsReplay(out[1], c)
        BY <1>3, <2>1 DEF IsReplay
      <3>2. load[c] \in Replaying \/ Answered(c)
        BY <1>3, <2>2, <3>1 DEF Wire, ReplaysAnswered, Replaying, Answered
      <3>3. Owed(c)
        BY <3>2 DEF Owed, Replaying
      <3>. QED
        BY <2>2, <3>3 DEF Tables
    <2>5. \A c \in Loaders : Owed(c)' <=> Owed(c)
      BY <1>1, <1>2, <2>1 DEF Owed
    <2>. QED
      BY <1>1, <1>2, <2>1, <2>2, <2>3, <2>4, <2>5 DEF Tables
  <1>6. CASE ServerRespond
    <2>1. Head(out).kind = "response"
      BY <1>6 DEF ServerRespond
    <2>2. PICK c \in Loaders : Head(out) = Response(c) /\ Head(out).to = c
      BY <1>3, <2>1 DEF ToLeader, Response
    <2>3. /\ DOMAIN buffer' = DOMAIN buffer \ {c}
          /\ DOMAIN maxSeq' = DOMAIN maxSeq \ {c}
      <3>1. CASE c \in DOMAIN buffer
        BY <1>6, <2>2, <3>1 DEF ServerRespond, Without, Restrict
      <3>2. CASE c \notin DOMAIN buffer
        <4>1. UNCHANGED <<buffer, maxSeq>>
          BY <1>6, <2>2, <3>2 DEF ServerRespond
        <4>. QED
          BY <3>2, <4>1 DEF Tables
      <3>. QED
        BY <3>1, <3>2
    <2>4. load[c] = "done"
      BY <1>3, <2>2 DEF Wire, AnsweredOnce
    <2>5. ~Owed(c)'
      BY <1>1, <1>2, <2>2, <2>4 DEF Owed
    <2>6. \A d \in Loaders : d # c => (Owed(d)' <=> Owed(d))
      <3>1. \A d \in Loaders : d # c => Head(out) # Response(d)
        BY <2>2 DEF Response
      <3>. QED
        BY <1>1, <1>2, <3>1 DEF Owed
    <2>. QED
      BY <1>1, <1>2, <2>2, <2>3, <2>5, <2>6 DEF Tables
  <1>. QED
    BY <1>4, <1>5, <1>6 DEF ServerReceive

\* So does every step, ...
LEMMA StepOK ==
  ASSUME IInv, [Next]_vars
  PROVE  IInv'
  <1> USE DEF IInv
  <1>1. SessionOK'
    BY SessionStepOK DEF Wire
  <1>2. CASE UNCHANGED vars
    <2>1. Wire' /\ \A c \in Loaders : Owed(c)' <=> Owed(c)
      BY <1>2 DEF vars, Wire, WireOK, ReplaysAnswered, AnsweredOnce, Answered, IsReplay,
         Response, Owed
    <2>. QED
      BY <1>1, <1>2, <2>1, TablesKept DEF vars
  <1>3. CASE StampAcp \/ EmitXai \/ SessionStep \/ Persist
    <2>1. Wire' /\ \A c \in Loaders : Answered(c)' <=> Answered(c)
      BY <1>3, WireSession
    <2>2. UNCHANGED <<load, clients, buffer, maxSeq>>
      BY <1>3 DEF StampAcp, EmitXai, SessionStep, EmitAcp, Forward, Flush, Persist, loadVars,
         leaderVars
    <2>3. \A c \in Loaders : Owed(c)' <=> Owed(c)
      BY <2>1, <2>2 DEF Owed
    <2>. QED
      BY <1>1, <2>1, <2>2, <2>3, TablesKept
  <1>4. CASE ServerReceive
    BY <1>1, <1>4, ReceiveOK
  <1>5. ASSUME NEW c \in Loaders, LoadStep(c) \/ ServerLoad(c) \/ ServerDisconnected(c)
        PROVE  IInv'
    BY <1>1, <1>5, LoadStepOK, ClientStepOK
  <1>. QED
    BY <1>2, <1>3, <1>4, <1>5 DEF Next

\* ... and it holds at the start.
LEMMA InitOK == Init => IInv
  <1> SUFFICES ASSUME Init PROVE IInv
    OBVIOUS
  <1>1. SessionOK
    BY DEF Init, SessionOK
  <1>2. Wire
    BY DEF Init, Wire, WireOK, ReplaysAnswered, AnsweredOnce, LoadPcs
  <1>3. Tables
    BY LoadAssumption DEF Init, Tables
  <1>. QED
    BY <1>1, <1>2, <1>3 DEF IInv

Ids == 1..minted
EventItems == [kind : {"event"}, seq : Ids]
Sends == [kind : {"live"}, seq : Ids]
           \union [kind : {"replay"}, to : Loaders, seq : Ids]
           \union [kind : {"response"}, to : Loaders]
Entries == [seq : Ids, replay : BOOLEAN]

ThreadTyped ==
  /\ minted \in 0..MaxEvents /\ xai \subseteq Ids
  /\ stream \in Seq(Ids) /\ emitting \in 0..minted /\ gate \in BOOLEAN
  /\ cmds \in Seq(Flushes) /\ shut \subseteq Ids
DiskTyped ==
  /\ queue \in Seq(EventItems \union Flushes)
  /\ unwritten \in 0..minted /\ file \in Seq(Ids) /\ acked \subseteq Flushes
  /\ overtaken \subseteq Ids
LoadTyped ==
  /\ load \in [Loaders -> LoadPcs] /\ offset \in [Loaders -> Nat]
  /\ timeouts \in 0..MaxTimeouts /\ errors \in 0..MaxErrors
  /\ racing \subseteq Ids
OutTyped == out \in Seq(Sends)
BufferTyped ==
  /\ DOMAIN buffer \subseteq Loaders /\ \A c \in DOMAIN buffer : buffer[c] \in Seq(Ids)
  /\ DOMAIN maxSeq \subseteq Loaders /\ \A c \in DOMAIN maxSeq : maxSeq[c] \in Ids
GotTyped == got \in [Clients -> Seq(Entries)]
LeaderTyped ==
  /\ clients \subseteq Clients
  /\ BufferTyped /\ GotTyped
  /\ leaves \in 0..MaxLeaves /\ spilled \subseteq Loaders
Typed == ThreadTyped /\ DiskTyped /\ LoadTyped /\ OutTyped /\ LeaderTyped

\* Ids that were minted stay minted.
LEMMA Wider ==
  ASSUME Typed, minted' = minted + 1
  PROVE  /\ minted \in Nat /\ Ids \subseteq Ids' /\ minted' \in Ids'
         /\ stream \in Seq(Ids') /\ file \in Seq(Ids')
         /\ queue \in Seq(EventItems' \union Flushes) /\ out \in Seq(Sends')
         /\ \A c \in DOMAIN buffer : buffer[c] \in Seq(Ids')
         /\ got \in [Clients -> Seq(Entries')]
  <1>1. minted \in Nat /\ Ids \subseteq Ids' /\ minted' \in Ids'
    BY DEF Typed, ThreadTyped, Ids
  <1>2. /\ EventItems \union Flushes \subseteq EventItems' \union Flushes
        /\ Sends \subseteq Sends' /\ Entries \subseteq Entries'
    BY <1>1 DEF EventItems, Sends, Entries
  <1>3. /\ Seq(Ids) \subseteq Seq(Ids') /\ Seq(Sends) \subseteq Seq(Sends')
        /\ Seq(EventItems \union Flushes) \subseteq Seq(EventItems' \union Flushes)
        /\ Seq(Entries) \subseteq Seq(Entries')
    BY <1>1, <1>2, SeqMonotonic
  <1>. QED
    BY <1>1, <1>3 DEF Typed, ThreadTyped, DiskTyped, OutTyped, LeaderTyped, BufferTyped,
       GotTyped

\* What is flushed behind an answer: live events, as many as are newer.
LEMMA BufferedTailTyped ==
  ASSUME LeaderTyped, minted \in Nat, NEW c \in DOMAIN buffer
  PROVE  /\ Newer(c) \in Seq(Ids) /\ BufferedTail(c) \in Seq(Entries)
         /\ Len(BufferedTail(c)) = Len(Newer(c)) /\ Len(Newer(c)) \in Nat
         /\ \A i \in 1..Len(Newer(c)) :
              BufferedTail(c)[i] = [seq |-> Newer(c)[i], replay |-> FALSE]
  <1>1. buffer[c] \in Seq(Ids)
    BY DEF LeaderTyped, BufferTyped
  <1>2. Newer(c) \in Seq(Ids)
    BY <1>1, KeptSelects DEF Newer
  <1> DEFINE s == Newer(c)
  <1> HIDE DEF s
  <1>3. s \in Seq(Ids) /\ Len(s) \in Nat /\ DOMAIN s = 1..Len(s)
    BY <1>2 DEF s
  <1> DEFINE t == [i \in DOMAIN s |-> [seq |-> s[i], replay |-> FALSE]]
  <1>4. t \in [1..Len(s) -> Entries] /\ \A i \in 1..Len(s) : t[i] = [seq |-> s[i], replay |-> FALSE]
    BY <1>3 DEF Entries
  <1>5. t = BufferedTail(c)
    BY DEF BufferedTail, s
  <1> HIDE DEF t
  <1>6. t \in Seq(Entries) /\ Len(t) = Len(s)
    BY <1>3, <1>4
  <1>. QED
    BY <1>3, <1>4, <1>5, <1>6 DEF s

\* A new id, ...
LEMMA MintingTyped ==
  ASSUME Typed, StampAcp \/ EmitXai
  PROVE  Typed'
  <1>0. minted' = minted + 1 /\ minted < MaxEvents
    BY DEF StampAcp, EmitXai
  <1>1. /\ minted \in Nat /\ Ids \subseteq Ids' /\ minted' \in Ids'
        /\ stream \in Seq(Ids') /\ file \in Seq(Ids')
        /\ queue \in Seq(EventItems' \union Flushes) /\ out \in Seq(Sends')
        /\ \A c \in DOMAIN buffer : buffer[c] \in Seq(Ids')
        /\ got \in [Clients -> Seq(Entries')]
    BY <1>0, Wider
  <1>2. /\ minted' \in 0..MaxEvents /\ minted' \in 0..minted'
        /\ \A i \in 0..minted : i \in 0..minted'
    BY <1>0, <1>1, LoadAssumption
  <1>a. Ids \subseteq Ids'
    BY <1>1
  <1>b. Item(minted') \in EventItems'
    BY <1>1 DEF Item, EventItems
  <1>3. ThreadTyped'
    <2>1. /\ xai \subseteq Ids' /\ shut \subseteq Ids' /\ emitting \in 0..minted'
          /\ minted' \in 0..minted'
      <3>1. xai \subseteq Ids /\ shut \subseteq Ids /\ emitting \in 0..minted
        BY DEF Typed, ThreadTyped
      <3>2. xai \subseteq Ids' /\ shut \subseteq Ids'
        BY <1>a, <3>1
      <3>. QED
        BY <1>2, <3>1, <3>2
    <2>2. CASE StampAcp
      BY <1>1, <1>2, <2>1, <2>2 DEF Typed, ThreadTyped, StampAcp
    <2>3. CASE EmitXai
      BY <1>1, <1>2, <2>1, <2>3 DEF Typed, ThreadTyped, EmitXai
    <2>. QED
      BY <2>2, <2>3
  <1>4. DiskTyped'
    <2>1. queue \in Seq(EventItems' \union Flushes)
      BY <1>1
    <2>2. queue' \in Seq(EventItems' \union Flushes)
      <3>1. queue' = queue \/ queue' = Append(queue, Item(minted'))
        BY DEF StampAcp, EmitXai, diskVars
      <3>2. Item(minted') \in EventItems' \union Flushes
        BY <1>b
      <3>. QED
        BY <2>1, <3>1, <3>2, AppendProperties
    <2>. QED
      BY <1>1, <1>2, <2>2 DEF Typed, DiskTyped, StampAcp, EmitXai, diskVars
  <1>5. LoadTyped' /\ OutTyped'
    BY <1>1 DEF Typed, LoadTyped, OutTyped, StampAcp, EmitXai, loadVars
  <1>6. LeaderTyped'
    BY <1>1 DEF Typed, LeaderTyped, BufferTyped, GotTyped, StampAcp, EmitXai, leaderVars
  <1>. QED
    BY <1>3, <1>4, <1>5, <1>6 DEF Typed

\* What keeps the ids keeps the types of what it does not touch.
LEMMA StillTyped ==
  ASSUME Typed, UNCHANGED minted
  PROVE  /\ Ids' = Ids /\ EventItems' = EventItems /\ Sends' = Sends /\ Entries' = Entries
         /\ UNCHANGED <<xai, stream, emitting, gate, cmds, shut>> => ThreadTyped'
         /\ UNCHANGED diskVars => DiskTyped'
         /\ UNCHANGED loadVars => LoadTyped'
         /\ UNCHANGED out => OutTyped'
         /\ UNCHANGED <<buffer, maxSeq>> => BufferTyped'
         /\ UNCHANGED got => GotTyped'
         /\ UNCHANGED leaderVars => LeaderTyped'
  <1>1. Ids' = Ids
    BY DEF Ids
  <1>2. EventItems' = EventItems /\ Sends' = Sends /\ Entries' = Entries
    BY <1>1 DEF EventItems, Sends, Entries
  <1>3. UNCHANGED <<xai, stream, emitting, gate, cmds, shut>> => ThreadTyped'
    BY <1>1 DEF Typed, ThreadTyped
  <1>4. UNCHANGED diskVars => DiskTyped'
    BY <1>1, <1>2 DEF Typed, DiskTyped, diskVars
  <1>5. UNCHANGED loadVars => LoadTyped'
    BY <1>1 DEF Typed, LoadTyped, loadVars
  <1>6. UNCHANGED out => OutTyped'
    BY <1>2 DEF Typed, OutTyped
  <1>7. /\ UNCHANGED <<buffer, maxSeq>> => BufferTyped'
        /\ UNCHANGED got => GotTyped'
    BY <1>1, <1>2 DEF Typed, LeaderTyped, BufferTyped, GotTyped
  <1>8. UNCHANGED leaderVars => LeaderTyped'
    BY <1>7 DEF Typed, LeaderTyped, leaderVars
  <1>. QED
    BY <1>1, <1>2, <1>3, <1>4, <1>5, <1>6, <1>7, <1>8

\* ... the rest of the session thread and the persistence actor, ...
LEMMA SessionTyped ==
  ASSUME Typed, EmitAcp \/ Forward \/ Flush \/ Persist
  PROVE  Typed'
  <1>0. UNCHANGED <<minted, leaderVars>>
    BY DEF EmitAcp, Forward, Flush, Persist, threadVars
  <1>1. /\ Ids' = Ids /\ EventItems' = EventItems /\ Sends' = Sends
        /\ LeaderTyped'
    BY <1>0, StillTyped
  <1>2. LoadTyped'
    BY <1>0, StillTyped DEF EmitAcp, Forward, Flush, Persist
  <1>3. CASE EmitAcp
    <2>1. Head(stream) \in Ids /\ Tail(stream) \in Seq(Ids)
      BY <1>3 DEF EmitAcp, Typed, ThreadTyped
    <2>2. Item(Head(stream)) \in EventItems
      BY <2>1 DEF Item, EventItems
    <2>3. ThreadTyped'
      <3>1. Head(stream) \in 0..minted
        BY <2>1 DEF Ids
      <3>. QED
        BY <1>0, <1>1, <1>3, <2>1, <3>1 DEF EmitAcp, Typed, ThreadTyped
    <2>4. DiskTyped'
      BY <1>0, <1>1, <1>3, <2>2 DEF EmitAcp, Typed, DiskTyped
    <2>5. OutTyped'
      BY <1>1, <1>3 DEF EmitAcp, Typed, OutTyped
    <2>. QED
      BY <1>1, <1>2, <2>3, <2>4, <2>5 DEF Typed
  <1>4. CASE Forward
    <2>1. emitting \in Ids /\ 0 \in 0..minted
      BY <1>4 DEF Forward, Typed, ThreadTyped, Ids
    <2>2. Live(emitting) \in Sends
      BY <2>1 DEF Live, Sends
    <2>3. ThreadTyped'
      BY <1>0, <1>1, <1>4, <2>1 DEF Forward, Typed, ThreadTyped
    <2>4. OutTyped'
      BY <1>1, <1>4, <2>2 DEF Forward, Typed, OutTyped
    <2>5. DiskTyped'
      BY <1>0, <1>4, StillTyped DEF Forward
    <2>. QED
      BY <1>1, <1>2, <2>3, <2>4, <2>5 DEF Typed
  <1>5. CASE Flush
    <2>1. Head(cmds) \in Flushes /\ Tail(cmds) \in Seq(Flushes)
      BY <1>5 DEF Flush, Typed, ThreadTyped
    <2>2. ThreadTyped'
      BY <1>0, <1>1, <1>5, <2>1 DEF Flush, Typed, ThreadTyped
    <2>3. DiskTyped'
      BY <1>0, <1>1, <1>5, <2>1 DEF Flush, Typed, DiskTyped
    <2>4. OutTyped'
      BY <1>1, <1>5 DEF Flush, Typed, OutTyped
    <2>. QED
      BY <1>1, <1>2, <2>2, <2>3, <2>4 DEF Typed
  <1>6. CASE Persist
    <2>1. Head(queue) \in EventItems \union Flushes /\ Tail(queue) \in Seq(EventItems \union Flushes)
      BY <1>6 DEF Persist, Typed, DiskTyped
    <2>2. Head(queue).kind = "event" => Head(queue).seq \in Ids
      BY <2>1 DEF EventItems, Flushes
    <2>3. Head(queue).kind = "flush" => Head(queue) \in Flushes
      BY <2>1 DEF EventItems, Flushes
    <2>4. /\ Pending \in Seq(Ids) /\ file \o Pending \in Seq(Ids) /\ file \in Seq(Ids)
          /\ Ids \subseteq 0..minted /\ 0 \in 0..minted
      <3>1. /\ file \in Seq(Ids) /\ unwritten \in 0..minted /\ minted \in Nat
            /\ Ids \subseteq 0..minted /\ 0 \in 0..minted
            /\ unwritten # 0 => unwritten \in Ids
        BY DEF Typed, ThreadTyped, DiskTyped, Ids
      <3>2. Pending \in Seq(Ids)
        BY <3>1 DEF Pending
      <3>. QED
        BY <3>1, <3>2
    <2>5. file' \in Seq(Ids) /\ unwritten' \in 0..minted
      <3>1. CASE Head(queue).kind = "flush"
        BY <1>6, <2>4, <3>1 DEF Persist
      <3>2. CASE Head(queue).kind = "event" /\ Head(queue).seq \in xai
        <4>1. file' = Append(file, Head(queue).seq) /\ UNCHANGED unwritten
          BY <1>6, <3>2 DEF Persist
        <4>2. Head(queue).seq \in Ids
          BY <2>2, <3>2
        <4>. QED
          BY <4>1, <4>2, <2>4 DEF Typed, DiskTyped
      <3>3. CASE Head(queue).kind = "event" /\ Head(queue).seq \notin xai
        BY <1>6, <2>2, <2>4, <3>3 DEF Persist
      <3>. QED
        BY <1>6, <3>1, <3>2, <3>3 DEF Persist
    <2>6. acked' \subseteq Flushes /\ overtaken' \subseteq Ids
      <3>1. CASE Head(queue).kind = "flush"
        BY <1>6, <2>3, <3>1 DEF Persist, Typed, DiskTyped
      <3>2. CASE Head(queue).kind = "event" /\ Head(queue).seq \in xai
        <4>1. 1..Head(queue).seq \subseteq Ids
          BY <2>2, <3>2 DEF Typed, ThreadTyped, Ids
        <4>. QED
          BY <1>6, <3>2, <4>1 DEF Persist, Typed, DiskTyped
      <3>3. CASE Head(queue).kind = "event" /\ Head(queue).seq \notin xai
        BY <1>6, <3>3 DEF Persist, Typed, DiskTyped
      <3>. QED
        BY <1>6, <3>1, <3>2, <3>3 DEF Persist
    <2>7. DiskTyped'
      BY <1>0, <1>1, <1>6, <2>1, <2>5, <2>6 DEF Persist, DiskTyped
    <2>8. ThreadTyped' /\ OutTyped'
      BY <1>0, <1>6, StillTyped DEF Persist, threadVars
    <2>. QED
      BY <1>1, <1>2, <2>7, <2>8 DEF Typed
  <1>. QED
    BY <1>3, <1>4, <1>5, <1>6

\* The replays of some lines are messages about them, one each.
LEMMA ReplaysTyped ==
  ASSUME NEW c \in Loaders, NEW lines \in Seq(Ids)
  PROVE  /\ Replays(c, lines) \in Seq(Sends)
         /\ Len(Replays(c, lines)) = Len(lines) /\ Len(lines) \in Nat
         /\ \A i \in 1..Len(lines) : Replays(c, lines)[i] = Replay(c, lines[i])
  <1> DEFINE s == [i \in DOMAIN lines |-> Replay(c, lines[i])]
  <1>1. Len(lines) \in Nat /\ DOMAIN lines = 1..Len(lines)
        /\ \A i \in 1..Len(lines) : lines[i] \in Ids
    OBVIOUS
  <1>2. \A e \in Ids : Replay(c, e) \in Sends
    BY DEF Replay, Sends
  <1>3. s \in [1..Len(lines) -> Sends]
    BY <1>1, <1>2
  <1>4. \A i \in 1..Len(lines) : s[i] = Replay(c, lines[i])
    BY <1>1
  <1>5. s = Replays(c, lines)
    BY DEF Replays
  <1> HIDE DEF s
  <1>6. s \in Seq(Sends) /\ Len(s) = Len(lines)
    BY <1>1, <1>3
  <1>. QED
    BY <1>1, <1>4, <1>5, <1>6

\* The lines that the second read of a load finds.
LEMMA DeltaTyped ==
  ASSUME Typed, NEW c \in Loaders
  PROVE  SubSeq(file, offset[c] + 1, Len(file)) \in Seq(Ids)
  <1>1. file \in Seq(Ids) /\ offset[c] + 1 \in Nat /\ Len(file) \in Nat
        /\ offset[c] + 1 >= 1
    BY DEF Typed, DiskTyped, LoadTyped
  <1>. QED
    BY <1>1

\* ... the steps of a load, ...
LEMMA LoadStepTyped ==
  ASSUME Typed, NEW c \in Loaders, LoadStep(c)
  PROVE  Typed'
  <1> USE DEF At, LoadPcs
  <1>0. UNCHANGED <<minted, leaderVars>> /\ UNCHANGED <<xai, stream, emitting, shut>>
        /\ UNCHANGED diskVars
    BY DEF LoadStep, LoadClose, LoadFlushed, LoadError, LoadRead, LoadReflushed,
       LoadReflushTimeout, LoadDelta, LoadOpen, LoadAnswer, threadVars
  <1>1. /\ Ids' = Ids /\ Sends' = Sends /\ LeaderTyped' /\ DiskTyped'
        /\ UNCHANGED <<gate, cmds>> => ThreadTyped'
        /\ UNCHANGED out => OutTyped'
    BY <1>0, StillTyped
  <1>2. Response(c) \in Sends /\ FlushBy(c, 1) \in Flushes /\ FlushBy(c, 2) \in Flushes
    BY DEF Response, Sends, FlushBy, Flushes
  <1>3. ThreadTyped'
    <2>1. gate' \in BOOLEAN
      BY DEF Typed, ThreadTyped, LoadStep, LoadClose, LoadFlushed, LoadError, LoadRead,
         LoadReflushed, LoadReflushTimeout, LoadDelta, LoadOpen, LoadAnswer
    <2>2. \/ UNCHANGED cmds
          \/ cmds' = Append(cmds, FlushBy(c, 1))
          \/ cmds' = Append(cmds, FlushBy(c, 2))
      BY DEF LoadStep, LoadClose, LoadFlushed, LoadError, LoadRead,
         LoadReflushed, LoadReflushTimeout, LoadDelta, LoadOpen, LoadAnswer, threadVars
    <2>3. cmds' \in Seq(Flushes)
      <3>1. cmds \in Seq(Flushes)
        BY DEF Typed, ThreadTyped
      <3>. QED
        BY <1>2, <2>2, <3>1, AppendProperties
    <2>. QED
      BY <1>0, <1>1, <2>1, <2>3 DEF Typed, ThreadTyped
  <1>4. LoadTyped'
    <2>1. \A next \in LoadPcs : GotoLoad(c, next) => load' \in [Loaders -> LoadPcs]
      BY DEF GotoLoad, Typed, LoadTyped
    <2>2. load' \in [Loaders -> LoadPcs]
      BY <2>1 DEF LoadStep, LoadClose, LoadFlushed, LoadError, LoadRead,
         LoadReflushed, LoadReflushTimeout, LoadDelta, LoadOpen, LoadAnswer
    <2>3. offset' \in [Loaders -> Nat]
      <3>1. Len(file) \in Nat /\ offset \in [Loaders -> Nat]
        BY DEF Typed, DiskTyped, LoadTyped
      <3>. QED
        BY <3>1 DEF LoadStep, LoadClose, LoadFlushed, LoadError, LoadRead,
         LoadReflushed, LoadReflushTimeout, LoadDelta, LoadOpen, LoadAnswer
    <2>4. timeouts' \in 0..MaxTimeouts /\ errors' \in 0..MaxErrors
      <3>1. /\ UNCHANGED timeouts \/ (timeouts < MaxTimeouts /\ timeouts' = timeouts + 1)
            /\ UNCHANGED errors \/ (errors < MaxErrors /\ errors' = errors + 1)
        BY DEF LoadStep, LoadClose, LoadFlushed, LoadError, LoadRead,
         LoadReflushed, LoadReflushTimeout, LoadDelta, LoadOpen, LoadAnswer
      <3>2. /\ timeouts \in 0..MaxTimeouts /\ errors \in 0..MaxErrors
            /\ MaxTimeouts \in Nat /\ MaxErrors \in Nat
        BY LoadAssumption DEF Typed, LoadTyped
      <3>. QED
        BY <3>1, <3>2
    <2>5. racing' \subseteq Ids
      <3>1. UNCHANGED racing \/ racing' = racing \union ({emitting} \ {0})
        BY DEF LoadStep, LoadClose, LoadFlushed, LoadError, LoadRead,
         LoadReflushed, LoadReflushTimeout, LoadDelta, LoadOpen, LoadAnswer
      <3>2. racing \subseteq Ids /\ {emitting} \ {0} \subseteq Ids
        BY DEF Typed, LoadTyped, ThreadTyped, Ids
      <3>. QED
        BY <3>1, <3>2
    <2>. QED
      BY <1>1, <2>2, <2>3, <2>4, <2>5 DEF LoadTyped
  <1>5. OutTyped'
    <2>1. \/ UNCHANGED out
          \/ out' = Append(out, Response(c))
          \/ out' = out \o Replays(c, file)
          \/ out' = out \o Replays(c, SubSeq(file, offset[c] + 1, Len(file)))
      BY DEF LoadStep, LoadClose, LoadFlushed, LoadError, LoadRead,
         LoadReflushed, LoadReflushTimeout, LoadDelta, LoadOpen, LoadAnswer
    <2>2. /\ out \in Seq(Sends) /\ file \in Seq(Ids)
          /\ SubSeq(file, offset[c] + 1, Len(file)) \in Seq(Ids)
      BY DeltaTyped DEF Typed, OutTyped, DiskTyped
    <2> DEFINE s == Replays(c, file)
               t == Replays(c, SubSeq(file, offset[c] + 1, Len(file)))
    <2>3. s \in Seq(Sends) /\ t \in Seq(Sends)
      BY <2>2, ReplaysTyped
    <2>4. out' = out \/ out' = Append(out, Response(c)) \/ out' = out \o s \/ out' = out \o t
      BY <2>1
    <2> HIDE DEF s, t
    <2>5. out' \in Seq(Sends)
      <3>1. out \in Seq(Sends) /\ out \o s \in Seq(Sends) /\ out \o t \in Seq(Sends)
        BY <2>2, <2>3, ConcatProperties
      <3>2. Append(out, Response(c)) \in Seq(Sends)
        BY <1>2, <2>2, AppendProperties
      <3>. QED
        BY <2>4, <3>1, <3>2
    <2>. QED
      BY <1>1, <2>5 DEF OutTyped
  <1>. QED
    BY <1>1, <1>3, <1>4, <1>5 DEF Typed

\* ... a client's connection ...
LEMMA ClientTyped ==
  ASSUME Typed, NEW c \in Loaders, ServerLoad(c) \/ ServerDisconnected(c)
  PROVE  Typed'
  <1>0. /\ UNCHANGED <<minted, threadVars, gate, diskVars, out, got>>
        /\ UNCHANGED <<offset, timeouts, errors, racing, spilled>>
    BY DEF ServerLoad, ServerDisconnected, agentVars, threadVars
  <1>1. /\ Ids' = Ids /\ ThreadTyped' /\ DiskTyped' /\ OutTyped' /\ GotTyped'
    BY <1>0, StillTyped DEF threadVars
  <1>2. LoadTyped'
    <2>1. load' \in [Loaders -> LoadPcs]
      BY DEF ServerLoad, ServerDisconnected, GotoLoad, LoadPcs, Typed, LoadTyped
    <2>. QED
      BY <1>0, <1>1, <2>1 DEF Typed, LoadTyped
  <1>3. clients' \subseteq Clients
    BY DEF ServerLoad, ServerDisconnected, Typed, LeaderTyped, Clients
  <1>4. leaves' \in 0..MaxLeaves
    <2>1. leaves \in 0..MaxLeaves /\ MaxLeaves \in Nat
      BY LoadAssumption DEF Typed, LeaderTyped
    <2>2. UNCHANGED leaves \/ (leaves < MaxLeaves /\ leaves' = leaves + 1)
      BY DEF ServerLoad, ServerDisconnected
    <2>. QED
      BY <2>1, <2>2
  <1>5. BufferTyped'
    <2>1. BufferTyped
      BY DEF Typed, LeaderTyped
    <2>2. CASE ServerLoad(c)
      <3>1. /\ DOMAIN buffer' = DOMAIN buffer \union {c} /\ UNCHANGED maxSeq
            /\ \A d \in DOMAIN buffer' : buffer'[d] = IF d = c THEN <<>> ELSE buffer[d]
        BY <2>2 DEF ServerLoad, With
      <3>. QED
        <4>1. <<>> \in Seq(Ids)
          OBVIOUS
        <4>2. \A d \in DOMAIN buffer' : buffer'[d] \in Seq(Ids)
          BY <2>1, <3>1, <4>1 DEF BufferTyped
        <4>3. DOMAIN buffer' \subseteq Loaders
          BY <2>1, <3>1 DEF BufferTyped
        <4>. QED
          BY <1>1, <2>1, <3>1, <4>2, <4>3 DEF BufferTyped
    <2>3. CASE ServerDisconnected(c)
      <3>1. /\ DOMAIN buffer' = DOMAIN buffer \ {c} /\ DOMAIN maxSeq' = DOMAIN maxSeq \ {c}
            /\ \A d \in DOMAIN buffer' : buffer'[d] = buffer[d]
            /\ \A d \in DOMAIN maxSeq' : maxSeq'[d] = maxSeq[d]
        BY <2>3 DEF ServerDisconnected, Without, Restrict
      <3>. QED
        BY <1>1, <2>1, <3>1 DEF BufferTyped
    <2>. QED
      BY <2>2, <2>3
  <1>6. LeaderTyped'
    BY <1>0, <1>1, <1>3, <1>4, <1>5 DEF Typed, LeaderTyped
  <1>. QED
    BY <1>1, <1>2, <1>6 DEF Typed

\* ... and the leader keep the types.
LEMMA ReceiveTyped ==
  ASSUME Typed, ServerReceive
  PROVE  Typed'
  <1>0. /\ UNCHANGED <<minted, threadVars, gate, diskVars, load, clients, leaves>>
        /\ UNCHANGED <<offset, timeouts, errors, racing>>
        /\ out # <<>> /\ out' = Tail(out)
    BY DEF ServerReceive, ServerFanOut, ServerUnicast, ServerRespond, agentVars, threadVars
  <1>1. /\ Ids' = Ids /\ Entries' = Entries /\ Sends' = Sends
        /\ ThreadTyped' /\ DiskTyped' /\ LoadTyped'
        /\ UNCHANGED <<buffer, maxSeq>> => BufferTyped'
        /\ UNCHANGED got => GotTyped'
    BY <1>0, StillTyped DEF threadVars, loadVars
  <1>2. Head(out) \in Sends /\ OutTyped'
    <2>1. out \in Seq(Sends)
      BY DEF Typed, OutTyped
    <2>2. Head(out) \in Sends /\ Tail(out) \in Seq(Sends)
      BY <1>0, <2>1
    <2>. QED
      BY <1>0, <1>1, <2>2 DEF OutTyped
  <1>3. BufferTyped /\ GotTyped /\ minted \in Nat /\ clients \subseteq Clients
        /\ spilled \subseteq Loaders /\ LeaderTyped
    BY DEF Typed, LeaderTyped, ThreadTyped
  <1>4. \A r \in BOOLEAN, e \in Ids, c \in Clients : Sent(got[c], e, r) \in Seq(Entries)
    <2>1. \A r \in BOOLEAN, e \in Ids : [seq |-> e, replay |-> r] \in Entries
      BY DEF Entries
    <2>. QED
      BY <1>3, <2>1 DEF Sent, GotTyped
  <1>5. BufferTyped' /\ GotTyped' /\ spilled' \subseteq Loaders
    <2>1. CASE ServerFanOut
      <3>1. Head(out).seq \in Ids
        BY <1>2, <2>1 DEF ServerFanOut, Sends
      <3>2. /\ DOMAIN buffer' = DOMAIN buffer /\ UNCHANGED maxSeq
            /\ \A c \in DOMAIN buffer : \/ buffer'[c] = buffer[c]
                                        \/ buffer'[c] = Append(buffer[c], Head(out).seq)
        BY <2>1 DEF ServerFanOut
      <3>3. BufferTyped'
        BY <1>1, <1>3, <3>1, <3>2 DEF BufferTyped
      <3>4. GotTyped'
        <4>1. got' = [c \in Clients |-> IF c \in clients /\ ~Holds(c)
                                    THEN Sent(got[c], Head(out).seq, FALSE) ELSE got[c]]
          BY <2>1 DEF ServerFanOut
        <4>2. \A c \in Clients : Sent(got[c], Head(out).seq, FALSE) \in Seq(Entries)
          BY <1>4, <3>1
        <4>. QED
          BY <1>1, <1>3, <4>1, <4>2 DEF GotTyped
      <3>5. spilled' \subseteq Loaders
        BY <1>3, <2>1 DEF ServerFanOut, BufferTyped
      <3>. QED
        BY <3>3, <3>4, <3>5
    <2>2. CASE ServerUnicast
      <3>1. Head(out).seq \in Ids /\ Head(out).to \in Loaders /\ Head(out).to \in Clients
        BY <1>2, <2>2 DEF ServerUnicast, Sends, Clients
      <3>2. UNCHANGED buffer /\ UNCHANGED spilled
        BY <2>2 DEF ServerUnicast
      <3> DEFINE c == Head(out).to
                 e == Head(out).seq
      <3>3. CASE c \in clients
        <4>1. got' = [got EXCEPT ![c] = Sent(got[c], e, TRUE)]
          BY <2>2, <3>3 DEF ServerUnicast
        <4>2. GotTyped'
          BY <1>1, <1>3, <1>4, <3>1, <4>1 DEF GotTyped
        <4>3. /\ DOMAIN maxSeq' = DOMAIN maxSeq \union {c}
              /\ \A d \in DOMAIN maxSeq' :
                   \/ maxSeq'[d] = e
                   \/ (d \in DOMAIN maxSeq /\ maxSeq'[d] = maxSeq[d])
          BY <2>2, <3>3 DEF ServerUnicast, With
        <4>4. BufferTyped'
          BY <1>1, <1>3, <3>1, <3>2, <4>3 DEF BufferTyped
        <4>. QED
          BY <1>3, <3>2, <4>2, <4>4
      <3>4. CASE c \notin clients
        BY <1>1, <1>3, <2>2, <3>2, <3>4 DEF ServerUnicast
      <3>. QED
        BY <3>3, <3>4
    <2>3. CASE ServerRespond
      <3>1. Head(out).to \in Loaders /\ Head(out).to \in Clients /\ UNCHANGED spilled
        BY <1>2, <2>3 DEF ServerRespond, Sends, Clients
      <3> DEFINE c == Head(out).to
      <3>2. CASE c \in DOMAIN buffer
        <4>1. got' = [got EXCEPT ![c] = got[c] \o BufferedTail(c)]
          BY <2>3, <3>2 DEF ServerRespond
        <4>2. BufferedTail(c) \in Seq(Entries)
          BY <1>3, <3>2, BufferedTailTyped
        <4>3. got[c] \o BufferedTail(c) \in Seq(Entries)
          BY <1>3, <3>1, <4>2 DEF GotTyped
        <4>4. GotTyped'
          BY <1>1, <1>3, <3>1, <4>1, <4>3 DEF GotTyped
        <4>5. /\ DOMAIN buffer' = DOMAIN buffer \ {c} /\ DOMAIN maxSeq' = DOMAIN maxSeq \ {c}
              /\ \A d \in DOMAIN buffer' : buffer'[d] = buffer[d]
              /\ \A d \in DOMAIN maxSeq' : maxSeq'[d] = maxSeq[d]
          BY <2>3, <3>2 DEF ServerRespond, Without, Restrict
        <4>6. BufferTyped'
          BY <1>1, <1>3, <4>5 DEF BufferTyped
        <4>. QED
          BY <1>3, <3>1, <4>4, <4>6
      <3>3. CASE c \notin DOMAIN buffer
        BY <1>1, <1>3, <2>3, <3>1, <3>3 DEF ServerRespond
      <3>. QED
        BY <3>2, <3>3
    <2>. QED
      BY <2>1, <2>2, <2>3 DEF ServerReceive
  <1>6. LeaderTyped'
    BY <1>0, <1>3, <1>5 DEF LeaderTyped
  <1>. QED
    BY <1>1, <1>2, <1>6 DEF Typed

\* So does every step, ...
LEMMA TypedStep ==
  ASSUME Typed, [Next]_vars
  PROVE  Typed'
  <1>1. CASE UNCHANGED vars
    <2>1. /\ UNCHANGED <<minted, leaderVars, diskVars, loadVars, out>>
          /\ UNCHANGED <<xai, stream, emitting, gate, cmds, shut>>
      BY <1>1 DEF vars, leaderVars, diskVars, loadVars
    <2>. QED
      BY <2>1, StillTyped DEF Typed
  <1>. QED
    BY <1>1, MintingTyped, SessionTyped, LoadStepTyped, ClientTyped, ReceiveTyped
       DEF Next, SessionStep

\* ... and they hold at the start.
LEMMA TypedInit == Init => Typed
  <1> SUFFICES ASSUME Init PROVE Typed
    OBVIOUS
  <1> USE LoadAssumption DEF Init
  <1>1. ThreadTyped /\ DiskTyped /\ OutTyped
    BY DEF ThreadTyped, DiskTyped, OutTyped, Ids
  <1>2. LoadTyped
    BY DEF LoadTyped, LoadPcs
  <1>3. LeaderTyped
    BY DEF LeaderTyped, BufferTyped, GotTyped, Clients
  <1>. QED
    BY <1>1, <1>2, <1>3 DEF Typed

\* The types give those the tables need, ...
LEMMA TypedIsSessionOK ==
  ASSUME Typed
  PROVE  SessionOK /\ WireOK
  <1>1. /\ minted \in Nat /\ Ids \subseteq Nat /\ emitting \in Nat /\ unwritten \in Nat
    BY DEF Typed, ThreadTyped, DiskTyped, Ids
  <1>2. EventItems \union Flushes \subseteq Queued /\ Sends \subseteq ToLeader
    BY <1>1 DEF EventItems, Queued, Sends, ToLeader
  <1>3. /\ Seq(Ids) \subseteq Seq(Nat) /\ Seq(EventItems \union Flushes) \subseteq Seq(Queued)
        /\ Seq(Sends) \subseteq Seq(ToLeader)
    BY <1>1, <1>2, SeqMonotonic
  <1>. QED
    BY <1>1, <1>3 DEF Typed, ThreadTyped, DiskTyped, LoadTyped, OutTyped, SessionOK, WireOK

\* ... and the type invariant.
LEMMA TypedIsTypeOK ==
  ASSUME Typed
  PROVE  TypeOK
  <1>1. /\ minted \in Nat /\ MaxEvents \in Nat /\ Ids \subseteq Events
    BY LoadAssumption DEF Typed, ThreadTyped, Ids, Events
  <1>2. /\ EventItems \union Flushes \subseteq [kind : {"event"}, seq : Events] \union Flushes
        /\ Sends \subseteq Messages /\ Entries \subseteq [seq : Events, replay : BOOLEAN]
    BY <1>1 DEF EventItems, Sends, Messages, Entries
  <1>3. /\ Seq(Ids) \subseteq Seq(Events)
        /\ Seq(EventItems \union Flushes) \subseteq Seq([kind : {"event"}, seq : Events] \union Flushes)
        /\ Seq(Sends) \subseteq Seq(Messages)
        /\ Seq(Entries) \subseteq Seq([seq : Events, replay : BOOLEAN])
    BY <1>1, <1>2, SeqMonotonic
  <1>4. /\ stream \in Seq(Events) /\ queue \in Seq([kind : {"event"}, seq : Events] \union Flushes)
        /\ file \in Seq(Events) /\ out \in Seq(Messages)
    BY <1>3 DEF Typed, ThreadTyped, DiskTyped, OutTyped
  <1>5. got \in [Clients -> Seq([seq : Events, replay : BOOLEAN])]
    BY <1>3 DEF Typed, LeaderTyped, GotTyped
  <1>6. /\ DOMAIN buffer \subseteq Loaders /\ \A c \in DOMAIN buffer : buffer[c] \in Seq(Events)
        /\ DOMAIN maxSeq \subseteq Loaders /\ \A c \in DOMAIN maxSeq : maxSeq[c] \in Events
    BY <1>1, <1>3 DEF Typed, LeaderTyped, BufferTyped
  <1>7. /\ minted \in 0..MaxEvents /\ xai \subseteq 1..minted /\ emitting \in 0..minted
        /\ gate \in BOOLEAN /\ cmds \in Seq(Flushes)
        /\ unwritten \in 0..minted /\ acked \subseteq Flushes
        /\ load \in [Loaders -> LoadPcs] /\ offset \in [Loaders -> Nat]
        /\ clients \subseteq Clients
        /\ timeouts \in 0..MaxTimeouts /\ errors \in 0..MaxErrors /\ leaves \in 0..MaxLeaves
        /\ {shut, overtaken, racing} \subseteq SUBSET (1..minted) /\ spilled \subseteq Loaders
    BY DEF Typed, ThreadTyped, DiskTyped, LoadTyped, LeaderTyped, Ids
  <1>. QED
    BY <1>4, <1>5, <1>6, <1>7 DEF TypeOK

-----------------------------------------------------------------------------
(* The log: where each event is, and in which order events get into the     *)
(* file.                                                                    *)

IsEvent(m, e) == m.kind = "event" /\ m.seq = e
Waits(e) == \E i \in DOMAIN stream : stream[i] = e
Written(e) == \E i \in DOMAIN file : file[i] = e
InQueue(e) == \E i \in DOMAIN queue : IsEvent(queue[i], e)

\* e is persisted by the time the message at i of the mailbox is handled.
Before(e, i) ==
  \/ Written(e) \/ e = unwritten
  \/ \E k \in DOMAIN queue : k < i /\ IsEvent(queue[k], e)

StreamInOrder ==
  /\ \A i \in DOMAIN stream : stream[i] \notin xai
  /\ \A i, j \in DOMAIN stream : i < j => stream[i] < stream[j]
  /\ (emitting # 0 /\ emitting \notin xai) => \A i \in DOMAIN stream : emitting < stream[i]

\* No event is lost on its way to the file, ...
Everywhere == \A e \in Ids : Waits(e) \/ Written(e) \/ e = unwritten \/ InQueue(e)

\* ... or doubled, ...
StreamOnce ==
  \A i \in DOMAIN stream :
    ~Written(stream[i]) /\ stream[i] # unwritten /\ ~InQueue(stream[i])
FileOnce == \A i, j \in DOMAIN file : file[i] = file[j] => i = j
HeldOnce == ~Written(unwritten) /\ ~InQueue(unwritten)
QueueOnce ==
  /\ \A i, j \in DOMAIN queue :
       (queue[i].kind = "event" /\ IsEvent(queue[j], queue[i].seq)) => i = j
  /\ \A i \in DOMAIN queue : queue[i].kind = "event" => ~Written(queue[i].seq)
OnlyOnce == StreamOnce /\ FileOnce /\ HeldOnce /\ QueueOnce

\* ... or passes one with a lower id, unless it is an xAI event that passes ACP
\* events.
QueueInOrder ==
  \A i \in DOMAIN queue : queue[i].kind = "event" =>
    \A e \in Ids : e < queue[i].seq =>
      Before(e, i) \/ (queue[i].seq \in xai /\ e \notin xai)
HeldInOrder ==
  /\ unwritten \notin xai
  /\ \A e \in Ids : e < unwritten => Written(e)
FileInOrder ==
  \A j \in DOMAIN file, e \in Ids : e < file[j] =>
    e \in overtaken \/ \E k \in DOMAIN file : k < j /\ file[k] = e

Log == /\ StreamInOrder /\ Everywhere /\ OnlyOnce /\ QueueInOrder /\ HeldInOrder
       /\ FileInOrder

logVars == <<minted, xai, stream, emitting, queue, unwritten, file, overtaken>>

\* A step that touches neither the stream, the mailbox nor the file.
LEMMA LogKept ==
  ASSUME Log, UNCHANGED logVars
  PROVE  Log'
  BY DEF Log, logVars, StreamInOrder, Everywhere, OnlyOnce, StreamOnce, FileOnce, HeldOnce,
     QueueOnce, QueueInOrder, HeldInOrder, FileInOrder, Waits, Written, InQueue, Before, IsEvent, Ids

\* What the types say of the sequences, by position.
LEMMA LogTypes ==
  ASSUME Typed
  PROVE  /\ minted \in Nat /\ stream \in Seq(Ids) /\ file \in Seq(Ids)
         /\ queue \in Seq(EventItems \union Flushes)
         /\ emitting \in 0..minted /\ unwritten \in 0..minted
         /\ xai \subseteq Ids /\ overtaken \subseteq Ids
         /\ \A e \in Ids : e \in Nat /\ e >= 1 /\ e <= minted
         /\ \A e : Waits(e) => e \in Ids
         /\ \A e : Written(e) => e \in Ids
         /\ \A e : InQueue(e) => e \in Ids
         /\ \A i \in DOMAIN stream : stream[i] \in Ids
         /\ \A i \in DOMAIN file : file[i] \in Ids
         /\ \A i \in DOMAIN queue : queue[i].kind = "event" => queue[i].seq \in Ids
         /\ \A i \in DOMAIN queue : queue[i].kind \in {"event", "flush"}
  <1>1. /\ minted \in Nat /\ stream \in Seq(Ids) /\ file \in Seq(Ids)
        /\ queue \in Seq(EventItems \union Flushes)
        /\ emitting \in 0..minted /\ unwritten \in 0..minted
        /\ xai \subseteq Ids /\ overtaken \subseteq Ids
    BY DEF Typed, ThreadTyped, DiskTyped
  <1>2. \A e \in Ids : e \in Nat /\ e >= 1 /\ e <= minted
    BY <1>1 DEF Ids
  <1>3. \A i \in DOMAIN stream : stream[i] \in Ids
    BY <1>1
  <1>4. \A i \in DOMAIN file : file[i] \in Ids
    BY <1>1
  <1>5. \A i \in DOMAIN queue : queue[i] \in EventItems \union Flushes
    BY <1>1
  <1>6. \A i \in DOMAIN queue :
          /\ queue[i].kind = "event" => queue[i].seq \in Ids
          /\ queue[i].kind \in {"event", "flush"}
    BY <1>5 DEF EventItems, Flushes
  <1>. QED
    BY <1>1, <1>2, <1>3, <1>4, <1>6 DEF Waits, Written, InQueue, IsEvent

\* The next id is nowhere yet.
LEMMA Unused ==
  ASSUME Typed
  PROVE  /\ minted + 1 \notin Ids /\ minted + 1 # unwritten /\ minted + 1 # 0
         /\ minted + 1 \notin xai
         /\ ~Waits(minted + 1) /\ ~Written(minted + 1) /\ ~InQueue(minted + 1)
         /\ \A e \in Ids : e < minted + 1 /\ e # minted + 1
         /\ minted' = minted + 1 => Ids' = Ids \union {minted + 1}
  <1>1. minted + 1 \notin Ids /\ minted + 1 # unwritten /\ minted + 1 # 0
    BY LogTypes DEF Ids
  <1>2. minted' = minted + 1 => Ids' = Ids \union {minted + 1}
    BY LogTypes DEF Ids
  <1>3. \A e \in Ids : e < minted + 1 /\ e # minted + 1
    BY LogTypes
  <1>. QED
    BY <1>1, <1>2, <1>3, LogTypes

\* send_update stamps an event: it waits behind the others of the stream.
LEMMA StampLog ==
  ASSUME Typed, Log, StampAcp
  PROVE  Log'
  <1> DEFINE m == minted + 1
  <1>1. /\ minted' = m /\ emitting = 0 /\ stream' = Append(stream, m)
        /\ UNCHANGED <<xai, emitting, queue, unwritten, file, overtaken>>
    BY DEF StampAcp, diskVars
  <1>2. /\ m \notin Ids /\ m # unwritten /\ m \notin xai
        /\ ~Waits(m) /\ ~Written(m) /\ ~InQueue(m)
        /\ \A e \in Ids : e < m /\ e # m
        /\ Ids' = Ids \union {m}
    BY <1>1, Unused
  <1>3. Adds(stream', stream, m)
    <2>1. stream \in Seq(Nat) /\ m \in Nat
      BY TypedIsSessionOK, LogTypes DEF SessionOK
    <2>. QED
      BY <1>1, <2>1, Added
  <1> HIDE DEF m
  <1>4. \A e : Waits(e)' <=> Waits(e) \/ e = m
    BY <1>3 DEF Adds, Waits
  <1>5. \A e, i : /\ Written(e)' <=> Written(e)
                  /\ InQueue(e)' <=> InQueue(e)
                  /\ Before(e, i)' <=> Before(e, i)
    BY <1>1 DEF Written, InQueue, Before
  <1>6. StreamInOrder'
    <2>1. \A i \in DOMAIN stream' : stream'[i] \notin xai'
      BY <1>1, <1>2, <1>3 DEF Adds, Log, StreamInOrder
    <2>2. \A i, j \in DOMAIN stream' : i < j => stream'[i] < stream'[j]
      <3>1. \A i \in DOMAIN stream : stream[i] \in Ids
        BY LogTypes
      <3>2. \A i \in DOMAIN stream : stream[i] < m
        BY <1>2, <3>1
      <3>3. SUFFICES ASSUME NEW i \in DOMAIN stream', NEW j \in DOMAIN stream', i < j
                     PROVE  stream'[i] < stream'[j]
        OBVIOUS
      <3>4. i \in DOMAIN stream
        BY <1>3, <3>3 DEF Adds
      <3>. QED
        BY <1>3, <3>2, <3>3, <3>4 DEF Adds, Log, StreamInOrder
    <2>. QED
      BY <1>1, <2>1, <2>2 DEF StreamInOrder
  <1>7. Everywhere'
    BY <1>1, <1>2, <1>4, <1>5 DEF Log, Everywhere
  <1>8. OnlyOnce'
    <2>1. StreamOnce'
      <3>1. \A i \in DOMAIN stream' :
              ~Written(stream'[i]) /\ stream'[i] # unwritten /\ ~InQueue(stream'[i])
        BY <1>2, <1>3 DEF Adds, Log, OnlyOnce, StreamOnce
      <3>. QED
        BY <1>1, <1>5, <3>1 DEF StreamOnce
    <2>2. FileOnce' /\ HeldOnce' /\ QueueOnce'
      BY <1>1, <1>5 DEF Log, OnlyOnce, FileOnce, HeldOnce, QueueOnce
    <2>. QED
      BY <2>1, <2>2 DEF OnlyOnce
  <1>9. QueueInOrder' /\ HeldInOrder' /\ FileInOrder'
    <2>1. /\ \A i \in DOMAIN queue : queue[i].kind = "event" => queue[i].seq \in Ids
          /\ \A i \in DOMAIN file : file[i] \in Ids
          /\ unwritten \in 0..minted /\ minted \in Nat
          /\ \A e \in Ids : e \in Nat
      BY LogTypes
    <2>2. /\ \A i \in DOMAIN queue : queue[i].kind = "event" => ~(m < queue[i].seq)
          /\ \A i \in DOMAIN file : ~(m < file[i])
          /\ ~(m < unwritten)
      BY <1>2, <2>1 DEF m
    <2>3. QueueInOrder'
      BY <1>1, <1>2, <1>5, <2>2 DEF Log, QueueInOrder
    <2>4. HeldInOrder'
      BY <1>1, <1>2, <1>5, <2>2 DEF Log, HeldInOrder
    <2>5. FileInOrder'
      BY <1>1, <1>2, <2>2 DEF Log, FileInOrder
    <2>. QED
      BY <2>3, <2>4, <2>5
  <1>. QED
    BY <1>6, <1>7, <1>8, <1>9 DEF Log

\* An event gets into the mailbox of the persistence actor, behind all that are
\* persisted.
LEMMA MailedInOrder ==
  ASSUME Typed, Log, NEW m \in Nat, queue' = Append(queue, Item(m)),
         UNCHANGED <<unwritten, file, overtaken>>, Ids \subseteq Ids',
         Ids' \subseteq Ids \union {m},
         xai \subseteq xai', xai' \subseteq xai \union {m}, m \notin Ids \/ m \notin xai',
         m # 0, \A e \in Ids : m \notin Ids => e < m,
         ~Written(m), m # unwritten, ~InQueue(m),
         \A e \in Ids : e < m => Written(e) \/ e = unwritten \/ InQueue(e)
                                 \/ (m \in xai' /\ e \notin xai')
  PROVE  /\ Adds(queue', queue, Item(m))
         /\ \A e : InQueue(e)' <=> InQueue(e) \/ e = m
         /\ \A e : Written(e)' <=> Written(e)
         /\ QueueOnce' /\ QueueInOrder' /\ HeldInOrder' /\ FileInOrder'
  <1>1. Adds(queue', queue, Item(m))
    <2>1. queue \in Seq(Queued) /\ Item(m) \in Queued
      BY TypedIsSessionOK DEF SessionOK, Item, Queued
    <2>. QED
      BY <2>1, Added
  <1>2. Item(m).kind = "event" /\ Item(m).seq = m /\ \A e : IsEvent(Item(m), e) <=> e = m
    BY DEF Item, IsEvent
  <1>3. \A e : InQueue(e)' <=> InQueue(e) \/ e = m
    BY <1>1, <1>2 DEF Adds, InQueue, IsEvent
  <1>4. \A e : Written(e)' <=> Written(e)
    BY DEF Written
  <1>5. \A e : \A i \in DOMAIN queue : Before(e, i) => Before(e, i)'
    BY <1>1, <1>4 DEF Adds, Before, IsEvent
  <1>6. /\ \A i \in DOMAIN queue : queue[i].kind = "event" => queue[i].seq \in Ids
        /\ \A i \in DOMAIN file : file[i] \in Ids
        /\ unwritten \in 0..minted /\ minted \in Nat
        /\ \A e \in Ids : e \in Nat /\ e >= 1 /\ e <= minted
        /\ unwritten # 0 => unwritten \in Ids
    BY LogTypes DEF Ids
  <1>7. \A i \in DOMAIN queue' : \/ i \in DOMAIN queue /\ queue'[i] = queue[i]
                             \/ queue'[i] = Item(m)
    BY <1>1 DEF Adds
  <1>8. QueueInOrder'
    <2> SUFFICES ASSUME NEW i \in DOMAIN queue', queue'[i].kind = "event",
                        NEW e \in Ids', e < queue'[i].seq
                 PROVE  Before(e, i)' \/ (queue'[i].seq \in xai' /\ e \notin xai')
      BY DEF QueueInOrder
    <2>1. CASE i \in DOMAIN queue
      <3>1. queue'[i] = queue[i] /\ queue[i].seq \in Ids
        BY <1>1, <1>6, <2>1 DEF Adds
      <3>2. e \in Ids /\ (e \notin xai => e \notin xai')
        <4> DEFINE q == queue[i].seq
        <4>a. q \in Ids /\ q \in Nat /\ e < q
          BY <1>6, <3>1
        <4> HIDE DEF q
        <4>b. m \notin Ids => q < m
          BY <4>a
        <4>1. e = m => m \in Ids
          BY <4>a, <4>b
        <4>. QED
          BY <4>1
      <3>3. Before(e, i) \/ (queue[i].seq \in xai /\ e \notin xai)
        BY <2>1, <3>1, <3>2 DEF Log, QueueInOrder
      <3>. QED
        BY <1>5, <2>1, <3>1, <3>2, <3>3
    <2>2. CASE i \notin DOMAIN queue
      <3>1. queue'[i] = Item(m) /\ i = Len(queue) + 1
        BY <1>1, <2>2 DEF Adds
      <3>2. e \in Ids /\ e < m
        BY <1>2, <1>6, <3>1
      <3>3. InQueue(e) => Before(e, i)'
        BY <1>1, <3>1 DEF Adds, InQueue, Before, IsEvent
      <3>4. (Written(e) \/ e = unwritten) => Before(e, i)'
        BY <1>4 DEF Before
      <3>. QED
        BY <1>2, <3>1, <3>2, <3>3, <3>4
    <2>. QED
      BY <2>1, <2>2
  <1>9. HeldInOrder'
    <2>1. unwritten \notin xai'
      BY DEF Log, HeldInOrder
    <2>2. \A e \in Ids' : e < unwritten => e \in Ids
      BY <1>6
    <2>. QED
      BY <1>4, <2>1, <2>2 DEF Log, HeldInOrder
  <1>10. FileInOrder'
    <2>1. \A j \in DOMAIN file, e \in Ids' : e < file[j] => e \in Ids
      BY <1>6
    <2>. QED
      BY <2>1 DEF Log, FileInOrder
  <1>11. \A i, j \in DOMAIN queue' :
           (queue'[i].kind = "event" /\ IsEvent(queue'[j], queue'[i].seq)) => i = j
    <2> SUFFICES ASSUME NEW i \in DOMAIN queue', NEW j \in DOMAIN queue',
                        queue'[i].kind = "event", IsEvent(queue'[j], queue'[i].seq)
                 PROVE  i = j
      OBVIOUS
    <2>1. i \notin DOMAIN queue => i = Len(queue) + 1 /\ queue'[i].seq = m
      BY <1>1, <1>2 DEF Adds
    <2>2. j \notin DOMAIN queue => j = Len(queue) + 1 /\ queue'[j].seq = m
      BY <1>1, <1>2 DEF Adds
    <2>3. i \in DOMAIN queue => queue'[i] = queue[i] /\ queue[i].seq # m
      BY <1>1 DEF Adds, InQueue, IsEvent
    <2>4. j \in DOMAIN queue => queue'[j] = queue[j] /\ (queue[j].kind = "event" => queue[j].seq # m)
      BY <1>1 DEF Adds, InQueue, IsEvent
    <2>5. CASE i \in DOMAIN queue /\ j \in DOMAIN queue
      BY <2>3, <2>4, <2>5 DEF Log, OnlyOnce, QueueOnce
    <2>6. CASE ~(i \in DOMAIN queue /\ j \in DOMAIN queue)
      BY <2>1, <2>2, <2>3, <2>4, <2>6 DEF IsEvent
    <2>. QED
      BY <2>5, <2>6
  <1>12. \A i \in DOMAIN queue' : queue'[i].kind = "event" => ~Written(queue'[i].seq)
    BY <1>2, <1>7 DEF Log, OnlyOnce, QueueOnce
  <1>13. QueueOnce'
    BY <1>4, <1>11, <1>12 DEF QueueOnce, IsEvent
  <1>. QED
    BY <1>1, <1>3, <1>4, <1>8, <1>9, <1>10, <1>13

\* An xAI event is persisted as soon as it is stamped.
LEMMA XaiLog ==
  ASSUME Typed, Log, EmitXai
  PROVE  Log'
  <1> DEFINE m == minted + 1
  <1>1. /\ minted' = m /\ emitting = 0 /\ emitting' = m /\ xai' = xai \union {m}
        /\ queue' = Append(queue, Item(m))
        /\ UNCHANGED <<stream, unwritten, file, overtaken>>
    BY DEF EmitXai
  <1>2. /\ m \notin Ids /\ m # unwritten /\ m # 0 /\ m \notin xai
        /\ ~Waits(m) /\ ~Written(m) /\ ~InQueue(m)
        /\ \A e \in Ids : e < m /\ e # m
        /\ Ids' = Ids \union {m} /\ m \in Nat
    BY <1>1, Unused, LogTypes
  <1> HIDE DEF m
  <1>3. \A e \in Ids : Written(e) \/ e = unwritten \/ InQueue(e) \/ e \notin xai'
    <2>1. \A e : Waits(e) => e \notin xai
      BY DEF Waits, Log, StreamInOrder
    <2>. QED
      BY <1>1, <1>2, <2>1 DEF Log, Everywhere
  <1>4. /\ Adds(queue', queue, Item(m))
        /\ \A e : InQueue(e)' <=> InQueue(e) \/ e = m
        /\ \A e : Written(e)' <=> Written(e)
        /\ QueueOnce' /\ QueueInOrder' /\ HeldInOrder' /\ FileInOrder'
    BY <1>1, <1>2, <1>3, MailedInOrder
  <1>5. StreamInOrder'
    <2>1. \A i \in DOMAIN stream : stream[i] # m
      BY <1>2 DEF Waits
    <2>. QED
      BY <1>1, <2>1 DEF Log, StreamInOrder
  <1>6. \A e : Waits(e)' <=> Waits(e)
    BY <1>1 DEF Waits
  <1>7. Everywhere'
    BY <1>1, <1>2, <1>4, <1>6 DEF Log, Everywhere
  <1>8. OnlyOnce'
    <2>1. \A i \in DOMAIN stream : stream[i] # m
      BY <1>2 DEF Waits
    <2>2. StreamOnce'
      BY <1>1, <1>4, <2>1 DEF Log, OnlyOnce, StreamOnce
    <2>3. HeldOnce'
      BY <1>1, <1>2, <1>4 DEF Log, OnlyOnce, HeldOnce
    <2>4. FileOnce'
      BY <1>1 DEF Log, OnlyOnce, FileOnce
    <2>. QED
      BY <1>4, <2>2, <2>3, <2>4 DEF OnlyOnce
  <1>. QED
    BY <1>4, <1>5, <1>7, <1>8 DEF Log

\* An ACP event leaves the stream for the mailbox.
LEMMA EmitLog ==
  ASSUME Typed, Log, EmitAcp
  PROVE  Log'
  <1> DEFINE m == Head(stream)
  <1>1. /\ emitting = 0 /\ stream # <<>> /\ emitting' = m /\ stream' = Tail(stream)
        /\ queue' = Append(queue, Item(m))
        /\ UNCHANGED <<minted, xai, unwritten, file, overtaken>>
    BY DEF EmitAcp
  <1>2. Takes(stream', stream) /\ m \in Ids
    BY <1>1, Taken, LogTypes
  <1>3. m = stream[1] /\ 1 \in DOMAIN stream
    BY <1>2 DEF Takes
  <1> HIDE DEF m
  <1>4. Ids' = Ids /\ m \in Nat /\ m # 0
    BY <1>1, <1>2, LogTypes DEF Ids
  <1>5. m \notin xai /\ ~Written(m) /\ m # unwritten /\ ~InQueue(m)
    BY <1>3 DEF Log, StreamInOrder, OnlyOnce, StreamOnce
  <1>6. /\ \A i \in DOMAIN stream : stream[i] \in Ids /\ i \in Nat /\ (i = 1 \/ m < stream[i])
        /\ \A e \in Ids : e \in Nat
    <2>1. /\ \A i \in DOMAIN stream : stream[i] \in Ids /\ i \in Nat /\ i >= 1
          /\ \A e \in Ids : e \in Nat
      BY <1>2, LogTypes DEF Takes
    <2>. QED
      BY <1>3, <2>1 DEF Log, StreamInOrder
  <1>7. \A e \in Ids : e < m => Written(e) \/ e = unwritten \/ InQueue(e)
    <2> SUFFICES ASSUME NEW e \in Ids, e < m, Waits(e)
                 PROVE  FALSE
      BY DEF Log, Everywhere
    <2>1. PICK i \in DOMAIN stream : stream[i] = e
      BY DEF Waits
    <2>. QED
      BY <1>3, <1>4, <1>6, <2>1
  <1>8. /\ Adds(queue', queue, Item(m))
        /\ \A e : InQueue(e)' <=> InQueue(e) \/ e = m
        /\ \A e : Written(e)' <=> Written(e)
        /\ QueueOnce' /\ QueueInOrder' /\ HeldInOrder' /\ FileInOrder'
    BY <1>1, <1>2, <1>4, <1>5, <1>7, MailedInOrder
  <1>9. StreamInOrder'
    <2>1. \A i \in DOMAIN stream' : stream'[i] \notin xai'
      BY <1>1, <1>2 DEF Takes, Log, StreamInOrder
    <2>2. \A i \in DOMAIN stream' : m < stream'[i]
      BY <1>2, <1>6 DEF Takes
    <2>3. \A i, j \in DOMAIN stream' : i < j => stream'[i] < stream'[j]
      <3> SUFFICES ASSUME NEW i \in DOMAIN stream', NEW j \in DOMAIN stream', i < j
                   PROVE  stream'[i] < stream'[j]
        OBVIOUS
      <3>1. i \in Nat /\ j \in Nat /\ i + 1 \in DOMAIN stream /\ j + 1 \in DOMAIN stream
            /\ stream'[i] = stream[i + 1] /\ stream'[j] = stream[j + 1] /\ i + 1 < j + 1
        BY <1>2 DEF Takes
      <3>. QED
        BY <3>1 DEF Log, StreamInOrder
    <2>. QED
      BY <1>1, <2>1, <2>2, <2>3 DEF StreamInOrder
  <1>10. \A e : Waits(e) => Waits(e)' \/ e = m
    <2> SUFFICES ASSUME NEW e, Waits(e), e # m PROVE Waits(e)'
      OBVIOUS
    <2>1. PICK i \in DOMAIN stream : stream[i] = e
      BY DEF Waits
    <2>. QED
      BY <1>2, <1>3, <2>1 DEF Takes, Waits
  <1>11. Everywhere'
    BY <1>1, <1>4, <1>8, <1>10 DEF Log, Everywhere
  <1>12. OnlyOnce'
    <2>1. \A i \in DOMAIN stream' : m < stream'[i] /\ stream'[i] \in Ids
      BY <1>2, <1>6 DEF Takes
    <2>2. \A i \in DOMAIN stream' : stream'[i] # m
      BY <1>4, <1>6, <2>1
    <2>3. StreamOnce'
      <3>1. \A i \in DOMAIN stream' :
              ~Written(stream'[i]) /\ stream'[i] # unwritten /\ ~InQueue(stream'[i])
        BY <1>2 DEF Takes, Log, OnlyOnce, StreamOnce
      <3>. QED
        BY <1>1, <1>8, <2>2, <3>1 DEF StreamOnce
    <2>4. HeldOnce'
      BY <1>1, <1>5, <1>8 DEF Log, OnlyOnce, HeldOnce
    <2>5. FileOnce'
      BY <1>1 DEF Log, OnlyOnce, FileOnce
    <2>. QED
      BY <1>8, <2>3, <2>4, <2>5 DEF OnlyOnce
  <1>. QED
    BY <1>8, <1>9, <1>11, <1>12 DEF Log

\* A line is appended to the file.
LEMMA FileGrows ==
  ASSUME Typed, Log, NEW x \in Ids, ~Written(x), file' = Append(file, x),
         UNCHANGED minted, overtaken \subseteq overtaken',
         \A e \in Ids : e < x => Written(e) \/ e \in overtaken'
  PROVE  /\ FileOnce' /\ FileInOrder'
         /\ \A e : Written(e)' <=> Written(e) \/ e = x
  <1>1. Adds(file', file, x)
    BY Added, LogTypes
  <1>2. \A e : Written(e)' <=> Written(e) \/ e = x
    BY <1>1 DEF Adds, Written
  <1>3. FileOnce'
    <2>1. \A i \in DOMAIN file : file[i] # x
      BY DEF Written
    <2>. QED
      BY <1>1, <2>1 DEF Adds, Log, OnlyOnce, FileOnce
  <1>4. FileInOrder'
    <2>0. Ids' = Ids
      BY DEF Ids
    <2> SUFFICES ASSUME NEW j \in DOMAIN file', NEW e \in Ids, e < file'[j]
                 PROVE  e \in overtaken' \/ \E k \in DOMAIN file' : k < j /\ file'[k] = e
      BY <2>0 DEF FileInOrder
    <2>1. CASE j \in DOMAIN file
      <3>1. e \in overtaken \/ \E k \in DOMAIN file : k < j /\ file[k] = e
        BY <1>1, <2>1 DEF Adds, Log, FileInOrder
      <3>. QED
        BY <1>1, <3>1 DEF Adds
    <2>2. CASE j = Len(file) + 1
      BY <1>1, <2>2 DEF Adds, Written
    <2>. QED
      BY <1>1, <2>1, <2>2 DEF Adds
  <1>. QED
    BY <1>2, <1>3, <1>4

\* The persistence actor handles its next message, and what that or the held
\* event was gets into the file or is held.
LEMMA Advances ==
  ASSUME Typed, Log, queue # <<>>, queue' = Tail(queue), UNCHANGED <<minted, xai, stream>>,
         \A e \in Ids : (Written(e) \/ e = unwritten \/ IsEvent(queue[1], e))
                          => Written(e)' \/ e = unwritten',
         \A e \in Ids : (Written(e)' \/ e = unwritten')
                          => Written(e) \/ e = unwritten \/ IsEvent(queue[1], e)
  PROVE  Everywhere' /\ StreamOnce' /\ QueueOnce' /\ QueueInOrder'
  <1>1. Takes(queue', queue)
    BY Taken, LogTypes
  <1>2. /\ Ids' = Ids
        /\ \A i \in DOMAIN stream : stream[i] \in Ids
        /\ \A i \in DOMAIN queue : queue[i].kind = "event" => queue[i].seq \in Ids
        /\ \A e : InQueue(e) => e \in Ids
    BY LogTypes DEF Ids
  <1>3. \A e : InQueue(e) => InQueue(e)' \/ IsEvent(queue[1], e)
    <2> SUFFICES ASSUME NEW e, NEW k \in DOMAIN queue, IsEvent(queue[k], e), k # 1
                 PROVE  InQueue(e)'
      BY DEF InQueue
    <2>1. k - 1 \in DOMAIN queue' /\ queue'[k - 1] = queue[k]
      BY <1>1 DEF Takes
    <2>. QED
      BY <2>1 DEF InQueue, IsEvent
  <1>4. \A e : InQueue(e)' => InQueue(e)
    BY <1>1 DEF Takes, InQueue, IsEvent
  <1>5. \A e : Waits(e)' <=> Waits(e)
    BY DEF Waits
  <1>6. Everywhere'
    BY <1>2, <1>3, <1>5 DEF Log, Everywhere
  <1>7. 1 \in DOMAIN queue /\ \A e : IsEvent(queue[1], e) => InQueue(e)
    BY <1>1 DEF Takes, InQueue
  <1>8. StreamOnce'
    <2>1. \A i \in DOMAIN stream :
            /\ stream[i] \in Ids /\ ~Written(stream[i]) /\ stream[i] # unwritten
            /\ ~InQueue(stream[i]) /\ ~IsEvent(queue[1], stream[i])
      BY <1>2, <1>7 DEF Log, OnlyOnce, StreamOnce
    <2>. QED
      BY <1>4, <2>1 DEF StreamOnce
  <1>9. QueueOnce'
    <2>1. \A i, j \in DOMAIN queue' :
            (queue'[i].kind = "event" /\ IsEvent(queue'[j], queue'[i].seq)) => i = j
      <3> SUFFICES ASSUME NEW i \in DOMAIN queue', NEW j \in DOMAIN queue',
                          queue'[i].kind = "event", IsEvent(queue'[j], queue'[i].seq)
                   PROVE  i = j
        OBVIOUS
      <3>1. /\ i \in Nat /\ j \in Nat /\ i + 1 \in DOMAIN queue /\ j + 1 \in DOMAIN queue
            /\ queue'[i] = queue[i + 1] /\ queue'[j] = queue[j + 1]
        BY <1>1 DEF Takes
      <3>2. i + 1 = j + 1
        BY <3>1 DEF Log, OnlyOnce, QueueOnce
      <3>. QED
        BY <3>1, <3>2
    <2>2. \A i \in DOMAIN queue' : queue'[i].kind = "event" =>
            /\ queue'[i].seq \in Ids /\ ~Written(queue'[i].seq)
            /\ queue'[i].seq # unwritten /\ ~IsEvent(queue[1], queue'[i].seq)
      <3> SUFFICES ASSUME NEW i \in DOMAIN queue', queue'[i].kind = "event"
                   PROVE  /\ queue'[i].seq \in Ids /\ ~Written(queue'[i].seq)
                          /\ queue'[i].seq # unwritten /\ ~IsEvent(queue[1], queue'[i].seq)
        OBVIOUS
      <3>1. i + 1 \in DOMAIN queue /\ queue'[i] = queue[i + 1] /\ i + 1 # 1
        BY <1>1 DEF Takes
      <3>2. InQueue(queue[i + 1].seq)
        BY <3>1 DEF InQueue, IsEvent
      <3>. QED
        BY <1>2, <1>7, <3>1, <3>2 DEF Log, OnlyOnce, QueueOnce, HeldOnce
    <2>. QED
      BY <2>1, <2>2 DEF QueueOnce, IsEvent
  <1>10. QueueInOrder'
    <2> SUFFICES ASSUME NEW i \in DOMAIN queue', queue'[i].kind = "event",
                        NEW e \in Ids, e < queue'[i].seq
                 PROVE  Before(e, i)' \/ (queue'[i].seq \in xai' /\ e \notin xai')
      BY <1>2 DEF QueueInOrder
    <2>1. i \in Nat /\ i + 1 \in DOMAIN queue /\ queue'[i] = queue[i + 1]
      BY <1>1 DEF Takes
    <2>2. Before(e, i + 1) \/ (queue[i + 1].seq \in xai /\ e \notin xai)
      BY <2>1 DEF Log, QueueInOrder
    <2>3. Before(e, i + 1) => Before(e, i)'
      <3>1. (Written(e) \/ e = unwritten) => Before(e, i)'
        BY DEF Before
      <3>2. ASSUME NEW k \in DOMAIN queue, k < i + 1, IsEvent(queue[k], e)
            PROVE  Before(e, i)'
        <4>1. CASE k = 1
          BY <3>2, <4>1 DEF Before
        <4>2. CASE k # 1
          <5>1. k \in Nat /\ k - 1 \in DOMAIN queue' /\ queue'[k - 1] = queue[k] /\ k - 1 < i
            BY <1>1, <2>1, <3>2, <4>2 DEF Takes
          <5>. QED
            BY <3>2, <5>1 DEF Before, IsEvent
        <4>. QED
          BY <4>1, <4>2
      <3>. QED
        BY <3>1, <3>2 DEF Before
    <2>. QED
      BY <2>1, <2>2, <2>3
  <1>. QED
    BY <1>6, <1>8, <1>9, <1>10

\* The held event, if there is one, is written.
LEMMA PendingWritten ==
  ASSUME Typed, Log, file' = file \o Pending, UNCHANGED <<minted, overtaken>>
  PROVE  /\ FileOnce' /\ FileInOrder'
         /\ \A e \in Ids : Written(e)' <=> Written(e) \/ e = unwritten
         /\ \A e : Written(e)' => Written(e) \/ e = unwritten
  <1>1. CASE unwritten = 0
    <2>1. file' = file
      BY <1>1, LogTypes DEF Pending
    <2>2. \A e : Written(e)' <=> Written(e)
      BY <2>1 DEF Written
    <2>3. 0 \notin Ids /\ Ids' = Ids
      BY DEF Ids
    <2>4. FileOnce' /\ FileInOrder'
      BY <2>1, <2>3 DEF Log, OnlyOnce, FileOnce, FileInOrder
    <2>. QED
      BY <1>1, <2>2, <2>3, <2>4
  <1>2. CASE unwritten # 0
    <2>1. unwritten \in Ids /\ file \in Seq(Ids)
      BY <1>2, LogTypes DEF Ids
    <2>2. file' = Append(file, unwritten)
      <3>1. file' = file \o <<unwritten>>
        BY <1>2 DEF Pending
      <3>. QED
        BY <2>1, <3>1, AppendIsConcat
    <2>3. ~Written(unwritten) /\ \A e \in Ids : e < unwritten => Written(e)
      BY DEF Log, OnlyOnce, HeldOnce, HeldInOrder
    <2>. QED
      BY <2>1, <2>2, <2>3, FileGrows
  <1>. QED
    BY <1>1, <1>2

\* The persistence actor: an ACP event waits, an xAI event overtakes it.
LEMMA PersistLog ==
  ASSUME Typed, Log, Persist
  PROVE  Log'
  <1>1. /\ queue # <<>> /\ queue' = Tail(queue)
        /\ UNCHANGED <<minted, xai, stream, emitting>>
    BY DEF Persist, threadVars
  <1>2. Takes(queue', queue) /\ Head(queue) = queue[1] /\ 1 \in DOMAIN queue
    <2>1. Takes(queue', queue)
      BY <1>1, Taken, LogTypes
    <2>. QED
      BY <2>1 DEF Takes
  <1>3. StreamInOrder'
    BY <1>1 DEF Log, StreamInOrder
  <1>4. Ids' = Ids
    BY <1>1 DEF Ids
  <1>5. Typed' /\ 0 \notin Ids /\ 0 \notin xai
    <2>1. Typed'
      BY SessionTyped
    <2>. QED
      BY <2>1, LogTypes DEF Ids
  <1>6. \A e : InQueue(e)' => InQueue(e)
    BY <1>2 DEF Takes, InQueue, IsEvent
  <1>7. CASE queue[1].kind = "flush"
    <2>1. file' = file \o Pending /\ unwritten' = 0 /\ UNCHANGED overtaken
      BY <1>2, <1>7 DEF Persist
    <2>2. /\ FileOnce' /\ FileInOrder'
          /\ \A e \in Ids : Written(e)' <=> Written(e) \/ e = unwritten
      BY <1>1, <2>1, PendingWritten
    <2>3. \A e : ~IsEvent(queue[1], e)
      BY <1>7 DEF IsEvent
    <2>4. Everywhere' /\ StreamOnce' /\ QueueOnce' /\ QueueInOrder'
      BY <1>1, <1>5, <2>1, <2>2, <2>3, Advances
    <2>5. HeldOnce'
      <3>1. ~InQueue(unwritten)'
        BY <1>5, <1>6, <2>1, LogTypes
      <3>2. ~Written(unwritten)'
        <4>1. file' \in Seq(Ids)
          BY <1>4, <1>5 DEF Typed, DiskTyped
        <4>. QED
          BY <1>5, <2>1, <4>1 DEF Written
      <3>. QED
        BY <3>1, <3>2 DEF HeldOnce
    <2>6. HeldInOrder'
      <3>1. \A e \in Ids : ~(e < 0)
        BY LogTypes
      <3>. QED
        BY <1>1, <1>4, <1>5, <2>1, <3>1 DEF HeldInOrder
    <2>. QED
      BY <1>3, <2>2, <2>4, <2>5, <2>6 DEF Log, OnlyOnce
  <1>8. CASE queue[1].kind = "event"
    <2> DEFINE q == queue[1].seq
    <2>1. /\ \A e : IsEvent(queue[1], e) <=> e = q
          /\ q \in Ids /\ ~Written(q) /\ q # unwritten /\ InQueue(q)
          /\ \A i \in DOMAIN queue' : ~IsEvent(queue'[i], q)
      <3>1. \A e : IsEvent(queue[1], e) <=> e = q
        BY <1>8 DEF IsEvent
      <3>2. q \in Ids /\ ~Written(q) /\ InQueue(q)
        BY <1>2, <1>8, LogTypes DEF Log, OnlyOnce, QueueOnce, InQueue, IsEvent
      <3>3. q # unwritten
        BY <3>2 DEF Log, OnlyOnce, HeldOnce
      <3>4. ASSUME NEW i \in DOMAIN queue', IsEvent(queue'[i], q)
            PROVE  FALSE
        <4>1. i + 1 \in DOMAIN queue /\ IsEvent(queue[i + 1], q) /\ i + 1 # 1
          BY <1>2, <3>4 DEF Takes
        <4>. QED
          BY <1>2, <1>8, <4>1 DEF Log, OnlyOnce, QueueOnce
      <3>. QED
        BY <3>1, <3>2, <3>3, <3>4
    <2>2. \A e \in Ids : e < q =>
            Written(e) \/ e = unwritten \/ (q \in xai /\ e \notin xai)
      <3> SUFFICES ASSUME NEW e \in Ids, e < q
                   PROVE  Written(e) \/ e = unwritten \/ (q \in xai /\ e \notin xai)
        OBVIOUS
      <3>1. Before(e, 1) \/ (q \in xai /\ e \notin xai)
        BY <1>2, <1>8 DEF Log, QueueInOrder
      <3>2. \A k \in DOMAIN queue : ~(k < 1)
        BY <1>2 DEF Takes
      <3>. QED
        BY <3>1, <3>2 DEF Before
    <2>3. \A e : e = q => ~InQueue(e)'
      BY <2>1 DEF InQueue
    <2>4. CASE q \in xai
      <3>1. /\ file' = Append(file, q) /\ UNCHANGED unwritten
            /\ overtaken' = overtaken \union {e \in 1..q : e \notin xai \union ToSet(file)}
        BY <1>2, <1>8, <2>4 DEF Persist
      <3>2. \A e \in Ids : e < q => Written(e) \/ e \in overtaken'
        <4> SUFFICES ASSUME NEW e \in Ids, e < q, ~Written(e)
                     PROVE  e \in overtaken'
          OBVIOUS
        <4>1. e \notin xai
          BY <2>2 DEF Log, HeldInOrder
        <4>2. e \in 1..q
          BY <2>1, LogTypes
        <4>3. e \notin ToSet(file)
          BY DEF Written, ToSet
        <4>. QED
          BY <3>1, <4>1, <4>2, <4>3
      <3>3. /\ FileOnce' /\ FileInOrder'
            /\ \A e : Written(e)' <=> Written(e) \/ e = q
        <4>1. overtaken \subseteq overtaken'
          BY <3>1
        <4>. QED
          BY <1>1, <2>1, <3>1, <3>2, <4>1, FileGrows
      <3>4. Everywhere' /\ StreamOnce' /\ QueueOnce' /\ QueueInOrder'
        BY <1>1, <2>1, <3>1, <3>3, Advances
      <3>5. HeldOnce'
        BY <1>6, <2>1, <3>1, <3>3 DEF Log, OnlyOnce, HeldOnce
      <3>6. HeldInOrder'
        BY <1>1, <1>4, <3>1, <3>3 DEF Log, HeldInOrder
      <3>. QED
        BY <1>3, <3>3, <3>4, <3>5, <3>6 DEF Log, OnlyOnce
    <2>5. CASE q \notin xai
      <3>1. file' = file \o Pending /\ unwritten' = q /\ UNCHANGED overtaken
        BY <1>2, <1>8, <2>5 DEF Persist
      <3>2. /\ FileOnce' /\ FileInOrder'
            /\ \A e \in Ids : Written(e)' <=> Written(e) \/ e = unwritten
        BY <1>1, <3>1, PendingWritten
      <3>3. Everywhere' /\ StreamOnce' /\ QueueOnce' /\ QueueInOrder'
        BY <1>1, <2>1, <3>1, <3>2, Advances
      <3>4. HeldOnce'
        BY <2>1, <2>3, <3>1, <3>2 DEF HeldOnce
      <3>5. HeldInOrder'
        BY <1>1, <1>4, <2>2, <2>5, <3>1, <3>2 DEF HeldInOrder
      <3>. QED
        BY <1>3, <3>2, <3>3, <3>4, <3>5 DEF Log, OnlyOnce
    <2>. QED
      BY <2>4, <2>5
  <1>. QED
    BY <1>2, <1>7, <1>8, LogTypes

\* Forward and Flush change nothing the order in the log depends on.
LEMMA ForwardLog ==
  ASSUME Log, Forward
  PROVE  Log'
  <1>1. emitting' = 0 /\ UNCHANGED <<minted, xai, stream, queue, unwritten, file, overtaken>>
    BY DEF Forward, diskVars
  <1>2. StreamInOrder'
    BY <1>1 DEF Log, StreamInOrder
  <1>. QED
    BY <1>1, <1>2 DEF Log, Everywhere, OnlyOnce, StreamOnce, FileOnce, HeldOnce,
       QueueOnce, QueueInOrder, HeldInOrder, FileInOrder, Waits, Written, InQueue, Before,
       IsEvent, Ids

\* A flush marker is no event.
LEMMA FlushLog ==
  ASSUME Typed, Log, Flush
  PROVE  Log'
  <1> DEFINE f == Head(cmds)
  <1>1. /\ cmds # <<>> /\ queue' = Append(queue, f)
        /\ UNCHANGED <<minted, xai, stream, emitting, unwritten, file, overtaken>>
    BY DEF Flush
  <1>2. f \in Flushes
    <2>1. cmds \in Seq(Flushes)
      BY DEF Typed, ThreadTyped
    <2>. QED
      BY <1>1, <2>1
  <1>3. f.kind # "event" /\ Adds(queue', queue, f)
    <2>1. f \in EventItems \union Flushes /\ queue \in Seq(EventItems \union Flushes)
      BY <1>2, LogTypes
    <2> HIDE DEF f
    <2>2. Adds(queue', queue, f)
      BY <1>1, <2>1, Added
    <2>. QED
      BY <1>2, <2>2 DEF Flushes
  <1> HIDE DEF f
  <1>4. /\ \A i \in DOMAIN queue' : queue'[i].kind = "event" =>
             i \in DOMAIN queue /\ queue'[i] = queue[i]
        /\ \A i \in DOMAIN queue : i \in DOMAIN queue' /\ queue'[i] = queue[i]
    BY <1>3 DEF Adds
  <1>5. Ids' = Ids
    BY <1>1 DEF Ids
  <1>6. /\ \A e : Waits(e)' <=> Waits(e)
        /\ \A e : Written(e)' <=> Written(e)
        /\ \A e : InQueue(e)' <=> InQueue(e)
    BY <1>1, <1>4 DEF Waits, Written, InQueue, IsEvent
  <1>7. \A e, i : Before(e, i) => Before(e, i)'
    BY <1>1, <1>4, <1>6 DEF Before, IsEvent
  <1>8. StreamInOrder' /\ Everywhere' /\ HeldInOrder' /\ FileInOrder'
    BY <1>1, <1>5, <1>6 DEF Log, StreamInOrder, Everywhere, HeldInOrder, FileInOrder
  <1>9. StreamOnce' /\ FileOnce' /\ HeldOnce'
    BY <1>1, <1>6 DEF Log, OnlyOnce, StreamOnce, FileOnce, HeldOnce
  <1>10. QueueOnce'
    BY <1>4, <1>6 DEF Log, OnlyOnce, QueueOnce, IsEvent
  <1>11. QueueInOrder'
    BY <1>1, <1>4, <1>5, <1>7 DEF Log, QueueInOrder
  <1>. QED
    BY <1>8, <1>9, <1>10, <1>11 DEF Log, OnlyOnce

\* Every step keeps the order of the log, ...
LEMMA LogStep ==
  ASSUME Typed, Log, [Next]_vars
  PROVE  Log'
  <1>1. CASE UNCHANGED vars
    BY <1>1, LogKept DEF vars, logVars
  <1>2. CASE ServerReceive
    BY <1>2, LogKept DEF ServerReceive, ServerFanOut, ServerUnicast, ServerRespond, agentVars,
       threadVars, diskVars, logVars
  <1>3. ASSUME NEW c \in Loaders, LoadStep(c) \/ ServerLoad(c) \/ ServerDisconnected(c)
        PROVE  Log'
    BY <1>3, LogKept DEF LoadStep, LoadClose, LoadFlushed, LoadError, LoadRead, LoadReflushed,
       LoadReflushTimeout, LoadDelta, LoadOpen, LoadAnswer, ServerLoad, ServerDisconnected,
       agentVars, threadVars, diskVars, logVars
  <1>. QED
    BY <1>1, <1>2, <1>3, StampLog, XaiLog, EmitLog, PersistLog, ForwardLog, FlushLog
       DEF Next, SessionStep

\* ... which is empty at the start.
LEMMA LogInit == Init => Log
  <1> SUFFICES ASSUME Init PROVE Log
    OBVIOUS
  <1>1. /\ minted = 0 /\ xai = {} /\ stream = <<>> /\ emitting = 0 /\ queue = <<>>
        /\ unwritten = 0 /\ file = <<>>
    BY DEF Init
  <1>2. Ids = {} /\ \A e : ~Written(e) /\ ~InQueue(e)
    BY <1>1 DEF Ids, Written, InQueue
  <1>. QED
    BY <1>1, <1>2 DEF Log, StreamInOrder, Everywhere, OnlyOnce, StreamOnce, FileOnce, HeldOnce,
       QueueOnce, QueueInOrder, HeldInOrder, FileInOrder

-----------------------------------------------------------------------------
(* Live events: in the order of their ids, within each of the two streams,   *)
(* from the session thread to the clients.                                  *)

SameKind(e, f) == e \in xai <=> f \in xai

\* What is still to be forwarded comes after e.
Passed(e) ==
  /\ (emitting # 0 /\ SameKind(e, emitting)) => e < emitting
  /\ e \notin xai => \A i \in DOMAIN stream : e < stream[i]

\* So does what the leader has still to fan out.
FannedOut(e) ==
  /\ Passed(e)
  /\ \A i \in DOMAIN out :
       (out[i].kind = "live" /\ SameKind(e, out[i].seq)) => e < out[i].seq

OutInOrder ==
  \A i \in DOMAIN out : out[i].kind = "live" =>
    /\ Passed(out[i].seq)
    /\ \A j \in DOMAIN out :
         (j > i /\ out[j].kind = "live" /\ SameKind(out[i].seq, out[j].seq))
           => out[i].seq < out[j].seq

BufferInOrder ==
  \A c \in DOMAIN buffer : \A i \in DOMAIN buffer[c] :
    /\ FannedOut(buffer[c][i])
    /\ \A j \in DOMAIN buffer[c] :
         (j > i /\ SameKind(buffer[c][i], buffer[c][j])) => buffer[c][i] < buffer[c][j]

GotInOrder ==
  \A c \in Clients \ spilled : \A i \in DOMAIN got[c] : ~got[c][i].replay =>
    /\ FannedOut(got[c][i].seq)
    /\ \A j \in DOMAIN got[c] :
         (j > i /\ ~got[c][j].replay /\ SameKind(got[c][i].seq, got[c][j].seq))
           => got[c][i].seq < got[c][j].seq

\* While its live events are held back a loader is sent nothing but its replay.
OnlyReplays ==
  \A c \in DOMAIN buffer \ spilled : \A i \in DOMAIN got[c] : got[c][i].replay

\* A client that has not asked for its load is not there.
NotThere == \A c \in Loaders : load[c] = "idle" => c \notin clients /\ DOMAIN got[c] = {}

Order ==
  /\ OutInOrder /\ BufferInOrder /\ GotInOrder /\ OnlyReplays /\ NotThere /\ ReplayBeforeLive

\* The types of what is under way, by position.
LEMMA WireTypes ==
  ASSUME Typed
  PROVE  /\ out \in Seq(Sends) /\ Len(out) \in Nat /\ DOMAIN out = 1..Len(out)
         /\ \A i \in DOMAIN out :
              /\ out[i].kind \in {"live", "replay", "response"}
              /\ out[i].kind \in {"live", "replay"} => out[i].seq \in Ids
              /\ out[i].kind \in {"replay", "response"} => out[i].to \in Loaders
              /\ \A c : out[i] = Response(c) <=> out[i].kind = "response" /\ out[i].to = c
         /\ \A c \in Clients :
              /\ got[c] \in Seq(Entries) /\ DOMAIN got[c] = 1..Len(got[c])
              /\ Len(got[c]) \in Nat
              /\ \A i \in DOMAIN got[c] : got[c][i].seq \in Ids /\ got[c][i].replay \in BOOLEAN
         /\ DOMAIN buffer \subseteq Loaders /\ Loaders \subseteq Clients
         /\ \A c \in DOMAIN buffer :
              /\ buffer[c] \in Seq(Ids) /\ DOMAIN buffer[c] = 1..Len(buffer[c])
              /\ Len(buffer[c]) \in Nat
              /\ \A i \in DOMAIN buffer[c] : buffer[c][i] \in Ids
         /\ DOMAIN got = Clients /\ got \in [Clients -> Seq(Entries)]
         /\ clients \subseteq Clients /\ spilled \subseteq Loaders
         /\ DOMAIN maxSeq \subseteq Loaders /\ \A c \in DOMAIN maxSeq : maxSeq[c] \in Ids
  <1>1. /\ out \in Seq(Sends) /\ Len(out) \in Nat /\ DOMAIN out = 1..Len(out)
        /\ \A i \in DOMAIN out : out[i] \in Sends
    BY DEF Typed, OutTyped
  <1>2. \A m \in Sends :
          /\ m.kind \in {"live", "replay", "response"}
          /\ m.kind \in {"live", "replay"} => m.seq \in Ids
          /\ m.kind \in {"replay", "response"} => m.to \in Loaders
          /\ \A c : m = Response(c) <=> m.kind = "response" /\ m.to = c
    BY DEF Sends, Response
  <1>3. got \in [Clients -> Seq(Entries)] /\ \A m \in Entries : m.seq \in Ids /\ m.replay \in BOOLEAN
    BY DEF Typed, LeaderTyped, GotTyped, Entries
  <1>4. \A c \in Clients :
          /\ got[c] \in Seq(Entries) /\ DOMAIN got[c] = 1..Len(got[c]) /\ Len(got[c]) \in Nat
          /\ \A i \in DOMAIN got[c] : got[c][i] \in Entries
    BY <1>3
  <1>5. /\ DOMAIN buffer \subseteq Loaders /\ Loaders \subseteq Clients
        /\ \A c \in DOMAIN buffer : buffer[c] \in Seq(Ids)
        /\ DOMAIN maxSeq \subseteq Loaders /\ \A c \in DOMAIN maxSeq : maxSeq[c] \in Ids
        /\ clients \subseteq Clients /\ spilled \subseteq Loaders
    BY DEF Typed, LeaderTyped, BufferTyped, Clients
  <1>6. \A c \in DOMAIN buffer :
          /\ DOMAIN buffer[c] = 1..Len(buffer[c]) /\ Len(buffer[c]) \in Nat
          /\ \A i \in DOMAIN buffer[c] : buffer[c][i] \in Ids
    BY <1>5
  <1>. QED
    BY <1>1, <1>2, <1>3, <1>4, <1>5, <1>6

\* out grows by messages that are not live.
Quietly ==
  /\ \A i \in DOMAIN out : i \in DOMAIN out' /\ out'[i] = out[i]
  /\ \A i \in DOMAIN out' : (i \in DOMAIN out /\ out'[i] = out[i]) \/ out'[i].kind # "live"

\* The steps of a load send no live event.
LEMMA LoadsQuietly ==
  ASSUME Typed, NEW c \in Loaders, LoadStep(c)
  PROVE  Quietly
  <1>1. \/ UNCHANGED out
        \/ out' = Append(out, Response(c))
        \/ \E lines \in Seq(Ids) : out' = out \o Replays(c, lines)
    <2>1. file \in Seq(Ids) /\ SubSeq(file, offset[c] + 1, Len(file)) \in Seq(Ids)
      BY DeltaTyped, LogTypes
    <2>. QED
      BY <2>1 DEF LoadStep, LoadClose, LoadFlushed, LoadError, LoadRead, LoadReflushed,
         LoadReflushTimeout, LoadDelta, LoadOpen, LoadAnswer
  <1>2. CASE UNCHANGED out
    BY <1>2 DEF Quietly
  <1>3. CASE out' = Append(out, Response(c))
    <2>1. Adds(out', out, Response(c)) /\ Response(c).kind # "live"
      <3>1. Response(c) \in Sends /\ Response(c).kind # "live"
        BY DEF Response, Sends
      <3>. QED
        BY <1>3, <3>1, Added, WireTypes
    <2>. QED
      BY <2>1 DEF Adds, Quietly
  <1>4. ASSUME NEW lines \in Seq(Ids), out' = out \o Replays(c, lines)
        PROVE  Quietly
    <2> DEFINE s == Replays(c, lines)
    <2>1. /\ s \in Seq(ToLeader) /\ Len(s) = Len(lines)
          /\ \A i \in 1..Len(s) : s[i].kind # "live"
      <3>1. /\ s \in Seq(Sends) /\ Len(s) = Len(lines)
            /\ \A i \in 1..Len(lines) : s[i] = Replay(c, lines[i])
        BY ReplaysTyped
      <3>2. \A e : Replay(c, e).kind # "live"
        BY DEF Replay
      <3>3. Sends \subseteq ToLeader
        BY LogTypes DEF Sends, ToLeader
      <3>4. Seq(Sends) \subseteq Seq(ToLeader)
        BY <3>3, SeqMonotonic
      <3>. QED
        BY <3>1, <3>2, <3>4
    <2>2. out' = out \o s
      BY <1>4
    <2> HIDE DEF s
    <2>3. /\ DOMAIN out = 1..Len(out)
          /\ DOMAIN out' = 1..(Len(out) + Len(s)) /\ Len(out) \in Nat /\ Len(s) \in Nat
          /\ \A i \in 1..Len(out) : out'[i] = out[i]
          /\ \A i \in DOMAIN out' : i \in DOMAIN out \/
               (i - Len(out) \in 1..Len(s) /\ out'[i] = s[i - Len(out)])
      BY <2>1, <2>2, Grown, TypedIsSessionOK
    <2>. QED
      BY <2>1, <2>3 DEF Quietly
  <1>. QED
    BY <1>1, <1>2, <1>3, <1>4

-----------------------------------------------------------------------------
(* The order at the session thread.                                         *)

\* What was passed stays passed, and an id stays of its kind.
LEMMA PassedKept ==
  ASSUME Typed, Log, [Next]_vars
  PROVE  /\ Ids \subseteq Ids'
         /\ \A e \in Ids : e \in xai' <=> e \in xai
         /\ \A e \in Ids : Passed(e) => Passed(e)'
  <1>1. CASE UNCHANGED <<minted, xai, stream, emitting>>
    BY <1>1 DEF Ids, SameKind, Passed
  <1>2. CASE StampAcp
    <2> DEFINE m == minted + 1
    <2>1. /\ minted' = m /\ UNCHANGED <<xai, emitting>> /\ stream' = Append(stream, m)
      BY <1>2 DEF StampAcp
    <2>2. Ids' = Ids \union {m} /\ \A e \in Ids : e < m
      BY <2>1, Unused
    <2>3. Adds(stream', stream, m)
      <3>1. stream \in Seq(Nat) /\ m \in Nat
        BY TypedIsSessionOK, LogTypes DEF SessionOK
      <3>. QED
        BY <2>1, <3>1, Added
    <2> HIDE DEF m
    <2>4. \A e \in Ids : Passed(e) => Passed(e)'
      BY <2>1, <2>2, <2>3 DEF Adds, Passed, SameKind
    <2>. QED
      BY <2>1, <2>2, <2>4 DEF SameKind
  <1>3. CASE EmitXai
    <2> DEFINE m == minted + 1
    <2>1. /\ minted' = m /\ UNCHANGED stream /\ xai' = xai \union {m} /\ emitting' = m
      BY <1>3 DEF EmitXai
    <2>2. Ids' = Ids \union {m} /\ \A e \in Ids : e < m /\ e # m
      BY <2>1, Unused
    <2> HIDE DEF m
    <2>3. \A e \in Ids : Passed(e) => Passed(e)'
      BY <2>1, <2>2 DEF Passed
    <2>. QED
      BY <2>1, <2>2, <2>3 DEF SameKind
  <1>4. CASE EmitAcp
    <2> DEFINE m == Head(stream)
    <2>1. /\ stream # <<>> /\ emitting' = m /\ stream' = Tail(stream)
          /\ UNCHANGED <<minted, xai>>
      BY <1>4 DEF EmitAcp
    <2>2. Takes(stream', stream)
      BY <2>1, Taken, LogTypes
    <2>3. m = stream[1] /\ 1 \in DOMAIN stream /\ m \notin xai
      BY <2>2 DEF Takes, Log, StreamInOrder
    <2> HIDE DEF m
    <2>4. \A e \in Ids : Passed(e) => Passed(e)'
      BY <2>1, <2>2, <2>3 DEF Takes, Passed, SameKind
    <2>. QED
      BY <2>1, <2>4 DEF SameKind, Ids
  <1>5. CASE Forward
    <2>1. emitting' = 0 /\ UNCHANGED <<minted, xai, stream>>
      BY <1>5 DEF Forward
    <2>. QED
      BY <2>1 DEF SameKind, Ids, Passed
  <1>6. ASSUME NEW c \in Loaders, LoadStep(c) \/ ServerLoad(c) \/ ServerDisconnected(c)
        PROVE  UNCHANGED <<minted, xai, stream, emitting>>
    BY <1>6 DEF LoadStep, LoadClose, LoadFlushed, LoadError, LoadRead, LoadReflushed,
       LoadReflushTimeout, LoadDelta, LoadOpen, LoadAnswer, ServerLoad, ServerDisconnected,
       agentVars, threadVars
  <1>7. CASE Flush \/ Persist \/ ServerReceive \/ UNCHANGED vars
    BY <1>1, <1>7 DEF Flush, Persist, ServerReceive, ServerFanOut, ServerUnicast,
       ServerRespond, agentVars, threadVars, vars
  <1>. QED
    BY <1>1, <1>2, <1>3, <1>4, <1>5, <1>6, <1>7 DEF Next, SessionStep

\* The event that is being emitted has passed the others once it is forwarded.
LEMMA ForwardPasses ==
  ASSUME Typed, Log, Forward
  PROVE  emitting \in Ids /\ \A e : e = emitting => Passed(e)'
  <1>1. emitting' = 0 /\ emitting # 0 /\ UNCHANGED <<xai, stream>>
    BY DEF Forward
  <1>2. emitting \in Ids
    BY <1>1, LogTypes DEF Ids
  <1>3. emitting \notin xai => \A i \in DOMAIN stream : emitting < stream[i]
    BY <1>1 DEF Log, StreamInOrder
  <1>4. \A e : e = emitting => Passed(e)'
    BY <1>1, <1>3 DEF Passed
  <1>. QED
    BY <1>2, <1>4

\* What a step does to the leader's mailbox.
OutStep ==
  \/ Quietly
  \/ Takes(out', out)
  \/ Forward /\ Adds(out', out, Live(emitting))

\* The three ways in which the channel to the leader changes.
LEMMA OutSteps ==
  ASSUME Typed, [Next]_vars
  PROVE  OutStep
  <1>1. CASE UNCHANGED out
    BY <1>1 DEF Quietly, OutStep
  <1>2. ASSUME NEW c \in Loaders, LoadStep(c)
        PROVE  OutStep
    BY <1>2, LoadsQuietly DEF OutStep
  <1>3. CASE ServerReceive
    <2>1. out # <<>> /\ out' = Tail(out)
      BY <1>3 DEF ServerReceive, ServerFanOut, ServerUnicast, ServerRespond
    <2>2. Takes(out', out)
      BY <2>1, Taken, WireTypes
    <2>. QED
      BY <2>2 DEF OutStep
  <1>4. CASE Forward
    <2>1. UNCHANGED out \/ out' = Append(out, Live(emitting))
      BY <1>4 DEF Forward
    <2>2. CASE out' = Append(out, Live(emitting))
      <3>1. emitting \in Ids
        BY <1>4, LogTypes DEF Forward, Ids
      <3>2. Live(emitting) \in Sends
        BY <3>1 DEF Live, Sends
      <3>3. Adds(out', out, Live(emitting))
        BY <2>2, <3>2, Added, WireTypes
      <3>. QED
        BY <1>4, <3>3 DEF OutStep
    <2>. QED
      BY <1>1, <2>1, <2>2
  <1>5. CASE StampAcp \/ EmitXai \/ EmitAcp \/ Flush \/ Persist \/ UNCHANGED vars
    BY <1>1, <1>5 DEF StampAcp, EmitXai, EmitAcp, Flush, Persist, vars
  <1>6. ASSUME NEW c \in Loaders, ServerLoad(c) \/ ServerDisconnected(c)
        PROVE  OutStep
    BY <1>1, <1>6 DEF ServerLoad, ServerDisconnected
  <1>. QED
    BY <1>2, <1>3, <1>4, <1>5, <1>6 DEF Next, SessionStep

\* What was fanned out is not followed by what comes before it.
LEMMA FannedOutKept ==
  ASSUME Typed, Log, [Next]_vars
  PROVE  \A e \in Ids : FannedOut(e) => FannedOut(e)'
  <1>1. /\ Ids \subseteq Ids'
        /\ \A e \in Ids : e \in xai' <=> e \in xai
        /\ \A e \in Ids : Passed(e) => Passed(e)'
    BY PassedKept
  <1>2. OutStep
    BY OutSteps
  <1>3. SUFFICES ASSUME NEW e \in Ids, FannedOut(e), NEW i \in DOMAIN out',
                        out'[i].kind = "live", e \in xai' <=> out'[i].seq \in xai'
                 PROVE  e < out'[i].seq
    BY <1>1 DEF FannedOut, SameKind
  <1>4. ASSUME NEW k \in DOMAIN out, out'[i] = out[k]
        PROVE  e < out'[i].seq
    <2>1. out[k].kind = "live" /\ out[k].seq \in Ids
      BY <1>3, <1>4, WireTypes
    <2>2. SameKind(e, out[k].seq)
      BY <1>1, <1>3, <1>4, <2>1 DEF SameKind
    <2>. QED
      BY <1>3, <1>4, <2>1, <2>2 DEF FannedOut
  <1>5. CASE Quietly
    BY <1>3, <1>4, <1>5 DEF Quietly
  <1>6. CASE Takes(out', out)
    BY <1>3, <1>4, <1>6 DEF Takes
  <1>7. CASE Forward /\ Adds(out', out, Live(emitting))
    <2>1. CASE i \in DOMAIN out
      BY <1>4, <1>7, <2>1 DEF Adds
    <2>2. CASE out'[i] = Live(emitting)
      <3>1. out'[i].seq = emitting /\ emitting # 0 /\ emitting \in Ids
        BY <1>7, <2>2, ForwardPasses DEF Live, Forward
      <3>2. SameKind(e, emitting)
        BY <1>1, <1>3, <3>1 DEF SameKind
      <3>. QED
        BY <1>3, <3>1, <3>2 DEF FannedOut, Passed
    <2>. QED
      BY <1>3, <1>7, <2>1, <2>2 DEF Adds
  <1>. QED
    BY <1>2, <1>5, <1>6, <1>7 DEF OutStep

\* Live events leave the agent in order.
LEMMA OutOrdered ==
  ASSUME Typed, Log, OutInOrder, [Next]_vars
  PROVE  OutInOrder'
  <1>1. /\ Ids \subseteq Ids'
        /\ \A e \in Ids : e \in xai' <=> e \in xai
        /\ \A e \in Ids : Passed(e) => Passed(e)'
    BY PassedKept
  <1>2. OutStep
    BY OutSteps
  <1>3. \A i \in DOMAIN out : out[i].kind = "live" =>
          /\ out[i].seq \in Ids /\ Passed(out[i].seq)
          /\ \A j \in DOMAIN out :
               (j > i /\ out[j].kind = "live" /\ SameKind(out[i].seq, out[j].seq))
                 => out[i].seq < out[j].seq
    BY WireTypes DEF OutInOrder
  <1>4. SUFFICES
          /\ \A i \in DOMAIN out' : out'[i].kind = "live" => \A e : e = out'[i].seq => Passed(e)'
          /\ \A i, j \in DOMAIN out' : \A e, f :
               (i < j /\ out'[i].kind = "live" /\ out'[j].kind = "live" /\ e = out'[i].seq
                 /\ f = out'[j].seq /\ (e \in xai' <=> f \in xai')) => e < f
    BY DEF OutInOrder, SameKind, Passed
  <1>5. ASSUME NEW i \in DOMAIN out, out[i].kind = "live"
        PROVE  \A e : e = out[i].seq => Passed(e)'
    BY <1>1, <1>3, <1>5
  <1>6. ASSUME NEW i \in DOMAIN out, NEW j \in DOMAIN out, i < j,
               out[i].kind = "live", out[j].kind = "live", NEW e, NEW f, e = out[i].seq,
               f = out[j].seq, e \in xai' <=> f \in xai'
        PROVE  e < f
    <2>1. e \in Ids /\ f \in Ids /\ i \in Nat /\ j \in Nat
      BY <1>3, <1>6, WireTypes
    <2>2. SameKind(e, f)
      BY <1>1, <1>6, <2>1 DEF SameKind
    <2>. QED
      BY <1>3, <1>6, <2>1, <2>2
  <1>7. CASE Quietly
    BY <1>5, <1>6, <1>7 DEF Quietly
  <1>8. CASE Takes(out', out)
    <2>1. \A i, j \in DOMAIN out' : i < j => i + 1 < j + 1
      BY <1>8 DEF Takes
    <2>2. \A i \in DOMAIN out' : i + 1 \in DOMAIN out /\ out'[i] = out[i + 1]
      BY <1>8 DEF Takes
    <2>. QED
      BY <1>5, <1>6, <2>1, <2>2
  <1>9. CASE Forward /\ Adds(out', out, Live(emitting))
    <2> DEFINE n == Len(out) + 1
    <2>1. /\ n \in DOMAIN out' /\ out'[n] = Live(emitting)
          /\ \A i \in DOMAIN out : i < n /\ i \in Nat /\ out'[i] = out[i]
          /\ \A i \in DOMAIN out' : i \in DOMAIN out \/ i = n
          /\ n \in Nat
      BY <1>9 DEF Adds
    <2>2. out'[n].kind = "live" /\ out'[n].seq = emitting /\ emitting # 0 /\ emitting \in Ids
          /\ \A e : e = emitting => Passed(e)'
      BY <1>9, <2>1, ForwardPasses DEF Live, Forward
    <2> HIDE DEF n
    <2>3. \A i \in DOMAIN out' : out'[i].kind = "live" => \A e : e = out'[i].seq => Passed(e)'
      BY <1>5, <2>1, <2>2
    <2>4. ASSUME NEW i \in DOMAIN out, out[i].kind = "live", NEW e, e = out[i].seq,
                 e \in xai' <=> emitting \in xai'
          PROVE  e < emitting
      <3>1. e \in Ids /\ Passed(e)
        BY <1>3, <2>4
      <3>2. SameKind(e, emitting)
        BY <1>1, <2>2, <2>4, <3>1 DEF SameKind
      <3>. QED
        BY <2>2, <3>1, <3>2 DEF Passed
    <2>5. ASSUME NEW i \in DOMAIN out', NEW j \in DOMAIN out', NEW e, NEW f,
                 i < j, out'[i].kind = "live", out'[j].kind = "live", e = out'[i].seq,
                 f = out'[j].seq, e \in xai' <=> f \in xai'
          PROVE  e < f
      <3>1. CASE j \in DOMAIN out
        <4>1. i \in DOMAIN out
          BY <2>1, <2>5, <3>1
        <4>. QED
          BY <1>6, <2>1, <2>5, <3>1, <4>1
      <3>2. CASE j = n
        <4>1. i \in DOMAIN out /\ f = emitting
          BY <2>1, <2>2, <2>5, <3>2
        <4>. QED
          BY <2>1, <2>4, <2>5, <4>1
      <3>. QED
        BY <2>1, <3>1, <3>2
    <2>. QED
      BY <2>3, <2>5
  <1>. QED
    BY <1>2, <1>7, <1>8, <1>9 DEF OutStep

\* What BufferInOrder says of the next state, entry by entry.
LEMMA BufferOrdered ==
  ASSUME \A c \in DOMAIN buffer' : \A i \in DOMAIN buffer'[c] :
           \A e : e = buffer'[c][i] => FannedOut(e)',
         \A c \in DOMAIN buffer' : \A i, j \in DOMAIN buffer'[c] :
           j > i /\ (buffer'[c][i] \in xai' <=> buffer'[c][j] \in xai')
             => buffer'[c][i] < buffer'[c][j]
  PROVE  BufferInOrder'
  BY DEF BufferInOrder, FannedOut, Passed, SameKind

\* The same for what was sent.
LEMMA GotOrdered ==
  ASSUME \A c \in Clients \ spilled' : \A i \in DOMAIN got'[c] : ~got'[c][i].replay =>
           \A e : e = got'[c][i].seq => FannedOut(e)',
         \A c \in Clients \ spilled' : \A i, j \in DOMAIN got'[c] :
           j > i /\ ~got'[c][i].replay /\ ~got'[c][j].replay
             /\ (got'[c][i].seq \in xai' <=> got'[c][j].seq \in xai')
             => got'[c][i].seq < got'[c][j].seq
  PROVE  GotInOrder'
  BY DEF GotInOrder, FannedOut, Passed, SameKind, Clients

\* What was sent or is held stays in order when nothing is sent or held.
LEMMA HeldOrdered ==
  ASSUME Typed, Log, Order, [Next]_vars, NEW c \in DOMAIN buffer, NEW d \in DOMAIN buffer',
         buffer'[d] = buffer[c]
  PROVE  /\ \A i \in DOMAIN buffer'[d] : \A e : e = buffer'[d][i] => FannedOut(e)'
         /\ \A i, j \in DOMAIN buffer'[d] :
              j > i /\ (buffer'[d][i] \in xai' <=> buffer'[d][j] \in xai')
                => buffer'[d][i] < buffer'[d][j]
  <1>1. \A e \in Ids : (FannedOut(e) => FannedOut(e)') /\ (e \in xai' <=> e \in xai)
    BY FannedOutKept, PassedKept
  <1>2. \A i \in DOMAIN buffer[c] : buffer[c][i] \in Ids
    BY WireTypes
  <1>. QED
    BY <1>1, <1>2 DEF Order, BufferInOrder, SameKind

\* The same for a client that is sent nothing.
LEMMA SentOrdered ==
  ASSUME Typed, Log, Order, [Next]_vars, NEW c \in Clients \ spilled, UNCHANGED got[c]
  PROVE  /\ \A i \in DOMAIN got'[c] : ~got'[c][i].replay =>
              \A e : e = got'[c][i].seq => FannedOut(e)'
         /\ \A i, j \in DOMAIN got'[c] :
              j > i /\ ~got'[c][i].replay /\ ~got'[c][j].replay
                /\ (got'[c][i].seq \in xai' <=> got'[c][j].seq \in xai')
                => got'[c][i].seq < got'[c][j].seq
  <1>1. \A e \in Ids : (FannedOut(e) => FannedOut(e)') /\ (e \in xai' <=> e \in xai)
    BY FannedOutKept, PassedKept
  <1>2. \A i \in DOMAIN got[c] : got[c][i].seq \in Ids
    BY WireTypes
  <1>. QED
    BY <1>1, <1>2 DEF Order, GotInOrder, SameKind

\* A step that sends no client anything.
LEMMA OrderQuiet ==
  ASSUME Typed, Log, Order, [Next]_vars, UNCHANGED <<got, spilled>>,
         \A c \in DOMAIN buffer' : \/ c \in DOMAIN buffer /\ buffer'[c] = buffer[c]
                                   \/ DOMAIN buffer'[c] = {} /\ DOMAIN got[c] = {}
         , NotThere'
  PROVE  Order'
  <1>1. OutInOrder'
    BY OutOrdered DEF Order
  <1>2. BufferInOrder'
    <2>1. \A c \in DOMAIN buffer' :
            /\ \A i \in DOMAIN buffer'[c] : \A e : e = buffer'[c][i] => FannedOut(e)'
            /\ \A i, j \in DOMAIN buffer'[c] :
                 j > i /\ (buffer'[c][i] \in xai' <=> buffer'[c][j] \in xai')
                   => buffer'[c][i] < buffer'[c][j]
      BY HeldOrdered
    <2>. QED
      BY <2>1, BufferOrdered
  <1>3. GotInOrder'
    BY SentOrdered, GotOrdered
  <1>4. OnlyReplays' /\ ReplayBeforeLive'
    BY DEF Order, OnlyReplays, ReplayBeforeLive
  <1>. QED
    BY <1>1, <1>2, <1>3, <1>4 DEF Order

\* A replayed event of a connected client finds its buffer.
LEMMA StillHeld ==
  ASSUME Wire, Tables, out # <<>>, Head(out).kind = "replay", Head(out).to \in clients
  PROVE  Head(out).to \in DOMAIN buffer
  <1> DEFINE c == Head(out).to
  <1>0. /\ 1 \in DOMAIN out /\ Head(out) = out[1] /\ Head(out) \in ToLeader
    BY DEF Wire, WireOK
  <1>1. IsReplay(out[1], c) /\ c \in Loaders
    BY <1>0 DEF IsReplay, ToLeader
  <1>2. load[c] \in Replaying \/ Answered(c)
    BY <1>0, <1>1 DEF Wire, ReplaysAnswered, Replaying, Answered
  <1>3. Owed(c)
    BY <1>2 DEF Owed, Replaying
  <1>. QED
    BY <1>1, <1>3 DEF Tables

\* A replayed event finds the live ones held back.
LEMMA UnicastOrder ==
  ASSUME Typed, Log, Order, Wire, Tables, ServerUnicast
  PROVE  Order'
  <1>0. [Next]_vars /\ out # <<>> /\ UNCHANGED <<buffer, spilled, load, clients>>
        /\ Head(out).kind = "replay"
    BY DEF Next, ServerReceive, ServerUnicast
  <1>1. CASE UNCHANGED got
    BY <1>0, <1>1, OrderQuiet DEF Order, NotThere
  <1> DEFINE c == Head(out).to
             m == [seq |-> Head(out).seq, replay |-> TRUE]
  <1>2. CASE c \in clients
    <2>1. /\ c \in DOMAIN buffer /\ c \in Loaders /\ c \in Clients /\ Head(out).seq \in Ids
      <3>1. Head(out) = out[1] /\ 1 \in DOMAIN out
        BY <1>0, WireTypes
      <3>. QED
        BY <1>0, <1>2, <3>1, StillHeld, WireTypes
    <2>2. got' = [got EXCEPT ![c] = Append(got[c], m)] /\ m.replay
      BY <1>2 DEF ServerUnicast, Sent
    <2>3. m \in Entries
      BY <2>1 DEF Entries
    <2>4. Adds(got'[c], got[c], m) /\ \A d \in Clients : d # c => got'[d] = got[d]
      <3>1. got[c] \in Seq(Entries) /\ got \in [Clients -> Seq(Entries)]
        BY <2>1, WireTypes
      <3>2. got'[c] = Append(got[c], m)
        BY <2>1, <2>2, <3>1
      <3>3. \A d \in Clients : d # c => got'[d] = got[d]
        BY <2>1, <2>2, <3>1
      <3> HIDE DEF m, c
      <3>. QED
        BY <2>3, <3>1, <3>2, <3>3, Added
    <2> HIDE DEF m, c
    <2>5. c \notin spilled => \A i \in DOMAIN got'[c] : got'[c][i].replay
      BY <2>1, <2>2, <2>4 DEF Adds, Order, OnlyReplays
    <2>6. OutInOrder'
      BY <1>0, OutOrdered DEF Order
    <2>7. BufferInOrder'
      BY <1>0, HeldOrdered, BufferOrdered
    <2>8. GotInOrder'
      BY <1>0, <2>4, <2>5, SentOrdered, GotOrdered
    <2>9. OnlyReplays' /\ ReplayBeforeLive'
      <3>1. /\ OnlyReplays /\ ReplayBeforeLive
            /\ DOMAIN buffer \subseteq Clients /\ Loaders \subseteq Clients
        BY WireTypes DEF Order
      <3>2. OnlyReplays'
        BY <1>0, <2>4, <2>5, <3>1 DEF OnlyReplays
      <3>3. ReplayBeforeLive'
        BY <1>0, <2>4, <2>5, <3>1 DEF ReplayBeforeLive
      <3>. QED
        BY <3>2, <3>3
    <2>10. NotThere'
      BY <1>0, <1>2, <2>4, WireTypes DEF Order, NotThere
    <2>. QED
      BY <2>6, <2>7, <2>8, <2>9, <2>10 DEF Order
  <1>3. CASE c \notin clients
    BY <1>1, <1>3 DEF ServerUnicast
  <1>. QED
    BY <1>2, <1>3

\* A live event is held back, or sent to those that are not loading.
LEMMA FanOutOrder ==
  ASSUME Typed, Log, Order, ServerFanOut
  PROVE  Order'
  <1> DEFINE e == Head(out).seq
             m == [seq |-> e, replay |-> FALSE]
  <1>0. /\ [Next]_vars /\ out # <<>> /\ out' = Tail(out) /\ UNCHANGED <<load, clients, xai>>
        /\ Head(out).kind = "live" /\ DOMAIN buffer' = DOMAIN buffer
        /\ \A c \in DOMAIN buffer : buffer'[c] = IF Holds(c) THEN Append(buffer[c], e) ELSE buffer[c]
        /\ \A c \in Clients : got'[c] = IF c \in clients /\ ~Holds(c) THEN Append(got[c], m) ELSE got[c]
        /\ spilled' = spilled \union {c \in DOMAIN buffer : ~Holds(c)}
    BY DEF Next, ServerReceive, ServerFanOut, Sent, agentVars, threadVars
  <1>1. e \in Ids /\ Head(out) = out[1] /\ 1 \in DOMAIN out /\ out[1].kind = "live"
    <2>1. /\ out \in Seq(Sends) /\ out # <<>> /\ Head(out).kind = "live"
          /\ \A i \in DOMAIN out : out[i].kind \in {"live", "replay"} => out[i].seq \in Ids
      BY <1>0, WireTypes
    <2>2. Head(out) = out[1] /\ 1 \in DOMAIN out
      BY <2>1
    <2>. QED
      BY <2>1, <2>2
  <1>2. Takes(out', out)
    BY <1>0, Taken, WireTypes
  <1>3. \A f : f = e => FannedOut(f)'
    <2>1. FannedOut(e)' <=> FannedOut(e)'
      OBVIOUS
    <2>2. Passed(e) /\ \A j \in DOMAIN out :
            (j > 1 /\ out[j].kind = "live" /\ SameKind(e, out[j].seq)) => e < out[j].seq
      BY <1>1 DEF Order, OutInOrder
    <2>3. \A f : f = e => Passed(f)'
      BY <1>0, <1>1, <2>2, PassedKept
    <2>4. \A i \in DOMAIN out' : i + 1 \in DOMAIN out /\ i + 1 > 1 /\ out'[i] = out[i + 1]
      BY <1>2 DEF Takes
    <2> HIDE DEF e
    <2>5. ASSUME NEW f, f = e
          PROVE  \A i \in DOMAIN out' : out'[i].kind = "live" /\ (f \in xai <=> out'[i].seq \in xai)
                   => f < out'[i].seq
      BY <2>2, <2>4, <2>5 DEF SameKind
    <2>. QED
      BY <1>0, <2>3, <2>5 DEF FannedOut, SameKind
  <1>4. OutInOrder'
    BY <1>0, OutOrdered DEF Order
  <1>5. NotThere' /\ spilled \subseteq spilled'
    <2>1. \A c \in Loaders : c \in Clients /\ (load[c] = "idle" => c \notin clients /\ DOMAIN got[c] = {})
      BY WireTypes DEF Order, NotThere
    <2> HIDE DEF e, m
    <2>2. \A c \in Clients : c \notin clients => got'[c] = got[c]
      BY <1>0
    <2>3. UNCHANGED <<load, clients>> /\ spilled \subseteq spilled'
      BY <1>0
    <2>. QED
      BY <2>1, <2>2, <2>3 DEF NotThere
  <1>6. \A c \in DOMAIN buffer' : Holds(c) =>
          /\ \A i \in DOMAIN buffer'[c] : \A f : f = buffer'[c][i] => FannedOut(f)'
          /\ \A i, j \in DOMAIN buffer'[c] :
               j > i /\ (buffer'[c][i] \in xai' <=> buffer'[c][j] \in xai')
                 => buffer'[c][i] < buffer'[c][j]
    <2> SUFFICES ASSUME NEW c \in DOMAIN buffer, Holds(c)
                 PROVE  /\ \A i \in DOMAIN buffer'[c] : \A f : f = buffer'[c][i] => FannedOut(f)'
                        /\ \A i, j \in DOMAIN buffer'[c] :
                             j > i /\ (buffer'[c][i] \in xai' <=> buffer'[c][j] \in xai')
                               => buffer'[c][i] < buffer'[c][j]
      BY <1>0
    <2>1. Adds(buffer'[c], buffer[c], e)
      <3>1. buffer[c] \in Seq(Ids) /\ buffer'[c] = Append(buffer[c], e) /\ e \in Ids
        BY <1>0, <1>1, WireTypes
      <3> HIDE DEF e, m
      <3>. QED
        BY <3>1, Added
    <2>2. \A f \in Ids : FannedOut(f) => FannedOut(f)'
      BY <1>0, FannedOutKept
    <2>3. \A i \in DOMAIN buffer[c] :
            /\ FannedOut(buffer[c][i]) /\ buffer[c][i] \in Ids
            /\ \A j \in DOMAIN buffer[c] :
                 (j > i /\ SameKind(buffer[c][i], buffer[c][j])) => buffer[c][i] < buffer[c][j]
      BY WireTypes DEF Order, BufferInOrder
    <2>4. \A i \in DOMAIN buffer[c] : SameKind(buffer[c][i], e) => buffer[c][i] < e
      BY <1>1, <2>3 DEF FannedOut
    <2> HIDE DEF e, m
    <2>5. \A i \in DOMAIN buffer'[c] : \A f : f = buffer'[c][i] => FannedOut(f)'
      BY <1>3, <2>1, <2>2, <2>3 DEF Adds
    <2>6. ASSUME NEW i \in DOMAIN buffer'[c], NEW j \in DOMAIN buffer'[c], j > i,
                 buffer'[c][i] \in xai' <=> buffer'[c][j] \in xai'
          PROVE  buffer'[c][i] < buffer'[c][j]
      <3>1. i \in DOMAIN buffer[c] /\ buffer'[c][i] = buffer[c][i]
        BY <2>1, <2>6 DEF Adds
      <3>2. SameKind(buffer'[c][i], buffer'[c][j])
        BY <1>0, <2>6 DEF SameKind
      <3>. QED
        BY <2>1, <2>3, <2>4, <2>6, <3>1, <3>2 DEF Adds
    <2>. QED
      BY <2>5, <2>6
  <1>7. BufferInOrder'
    <2>1. \A c \in DOMAIN buffer' : ~Holds(c) => buffer'[c] = buffer[c]
      BY <1>0
    <2>2. \A c \in DOMAIN buffer' :
          /\ \A i \in DOMAIN buffer'[c] : \A f : f = buffer'[c][i] => FannedOut(f)'
          /\ \A i, j \in DOMAIN buffer'[c] :
               j > i /\ (buffer'[c][i] \in xai' <=> buffer'[c][j] \in xai')
                 => buffer'[c][i] < buffer'[c][j]
      BY <1>0, <1>6, <2>1, HeldOrdered
    <2>. QED
      BY <2>2, BufferOrdered
  <1>8. \A c \in Clients \ spilled' : c \in clients /\ ~Holds(c) =>
          /\ Adds(got'[c], got[c], m) /\ m.seq = e /\ ~m.replay
          /\ \A i \in DOMAIN got'[c] : ~got'[c][i].replay =>
               \A f : f = got'[c][i].seq => FannedOut(f)'
          /\ \A i, j \in DOMAIN got'[c] :
               j > i /\ ~got'[c][i].replay /\ ~got'[c][j].replay
                 /\ (got'[c][i].seq \in xai' <=> got'[c][j].seq \in xai')
                 => got'[c][i].seq < got'[c][j].seq
    <2> SUFFICES ASSUME NEW c \in Clients \ spilled', c \in clients, ~Holds(c)
                 PROVE  /\ Adds(got'[c], got[c], m) /\ m.seq = e /\ ~m.replay
                        /\ \A i \in DOMAIN got'[c] : ~got'[c][i].replay =>
                              \A f : f = got'[c][i].seq => FannedOut(f)'
                        /\ \A i, j \in DOMAIN got'[c] :
                             j > i /\ ~got'[c][i].replay /\ ~got'[c][j].replay
                               /\ (got'[c][i].seq \in xai' <=> got'[c][j].seq \in xai')
                               => got'[c][i].seq < got'[c][j].seq
      OBVIOUS
    <2>0. m \in Entries /\ m.seq = e /\ ~m.replay
      BY <1>1 DEF Entries
    <2>1. Adds(got'[c], got[c], m)
      <3>1. got[c] \in Seq(Entries) /\ got'[c] = Append(got[c], m)
        BY <1>0, WireTypes
      <3> HIDE DEF e, m
      <3>. QED
        BY <2>0, <3>1, Added
    <2>2. \A f \in Ids : FannedOut(f) => FannedOut(f)'
      BY <1>0, FannedOutKept
    <2>3. \A i \in DOMAIN got[c] : ~got[c][i].replay =>
            /\ FannedOut(got[c][i].seq) /\ got[c][i].seq \in Ids
            /\ \A j \in DOMAIN got[c] :
                 (j > i /\ ~got[c][j].replay /\ SameKind(got[c][i].seq, got[c][j].seq))
                   => got[c][i].seq < got[c][j].seq
      BY <1>5, WireTypes DEF Order, GotInOrder
    <2>4. \A i \in DOMAIN got[c] : ~got[c][i].replay /\ SameKind(got[c][i].seq, e)
            => got[c][i].seq < e
      BY <1>1, <2>3 DEF FannedOut
    <2> HIDE DEF e, m
    <2>5. \A i \in DOMAIN got'[c] : ~got'[c][i].replay =>
            \A f : f = got'[c][i].seq => FannedOut(f)'
      BY <1>3, <2>0, <2>1, <2>2, <2>3 DEF Adds
    <2>6. ASSUME NEW i \in DOMAIN got'[c], NEW j \in DOMAIN got'[c], j > i,
                 ~got'[c][i].replay, ~got'[c][j].replay,
                 got'[c][i].seq \in xai' <=> got'[c][j].seq \in xai'
          PROVE  got'[c][i].seq < got'[c][j].seq
      <3>1. i \in DOMAIN got[c] /\ got'[c][i] = got[c][i]
        BY <2>1, <2>6 DEF Adds
      <3>2. SameKind(got'[c][i].seq, got'[c][j].seq)
        BY <1>0, <2>6 DEF SameKind
      <3>. QED
        BY <2>0, <2>1, <2>3, <2>4, <2>6, <3>1, <3>2 DEF Adds
    <2>. QED
      BY <2>0, <2>1, <2>5, <2>6
  <1>9. GotInOrder'
    <2>1. \A c \in Clients : ~(c \in clients /\ ~Holds(c)) => got'[c] = got[c]
      BY <1>0
    <2>2. \A c \in Clients \ spilled' : ~(c \in clients /\ ~Holds(c)) =>
           /\ \A i \in DOMAIN got'[c] : ~got'[c][i].replay =>
                \A f : f = got'[c][i].seq => FannedOut(f)'
           /\ \A i, j \in DOMAIN got'[c] :
               j > i /\ ~got'[c][i].replay /\ ~got'[c][j].replay
                 /\ (got'[c][i].seq \in xai' <=> got'[c][j].seq \in xai')
                 => got'[c][i].seq < got'[c][j].seq
      BY <1>0, <1>5, <2>1, SentOrdered
    <2> HIDE DEF e, m
    <2>. QED
      BY <1>8, <2>2, GotOrdered
  <1>10. OnlyReplays'
    <2>1. \A c \in DOMAIN buffer' \ spilled' : got'[c] = got[c] /\ c \in DOMAIN buffer \ spilled
      BY <1>0, WireTypes
    <2>. QED
      BY <2>1 DEF Order, OnlyReplays
  <1>11. ReplayBeforeLive'
    <2>1. \A c \in Loaders \ spilled' : \/ got'[c] = got[c]
                                        \/ Adds(got'[c], got[c], m) /\ ~m.replay
      BY <1>0, <1>8, WireTypes
    <2> HIDE DEF m
    <2>2. ASSUME NEW c \in Loaders \ spilled', NEW i \in DOMAIN got'[c], NEW j \in DOMAIN got'[c],
                 i < j, got'[c][j].replay
          PROVE  got'[c][i].replay
      <3>1. \A k, n \in DOMAIN got[c] : k < n /\ got[c][n].replay => got[c][k].replay
        BY <1>5 DEF Order, ReplayBeforeLive
      <3>2. CASE Adds(got'[c], got[c], m) /\ ~m.replay
        BY <2>2, <3>1, <3>2 DEF Adds
      <3>. QED
        BY <2>1, <2>2, <3>1, <3>2
    <2>. QED
      BY <2>2 DEF ReplayBeforeLive
  <1>. QED
    BY <1>4, <1>5, <1>7, <1>9, <1>10, <1>11 DEF Order

\* The answer is followed by what was held back, in its order.
LEMMA RespondOrder ==
  ASSUME Typed, Log, Order, Tables, ServerRespond
  PROVE  Order'
  <1> DEFINE c == Head(out).to
  <1>0. /\ [Next]_vars /\ out # <<>> /\ UNCHANGED <<load, clients, spilled, xai>>
        /\ Head(out).kind = "response"
    BY DEF Next, ServerReceive, ServerRespond, agentVars, threadVars
  <1>1. c \in Loaders /\ c \in Clients
    <2>1. /\ out \in Seq(Sends) /\ out # <<>> /\ Head(out).kind = "response"
          /\ \A i \in DOMAIN out : out[i].kind \in {"replay", "response"} => out[i].to \in Loaders
      BY <1>0, WireTypes
    <2>2. Head(out) = out[1] /\ 1 \in DOMAIN out
      BY <2>1
    <2>. QED
      BY <2>1, <2>2 DEF Clients
  <1>2. CASE c \notin DOMAIN buffer
    <2>1. UNCHANGED <<got, buffer>>
      BY <1>2 DEF ServerRespond
    <2>2. NotThere'
      BY <1>0, <2>1 DEF Order, NotThere
    <2>. QED
      BY <1>0, <2>1, <2>2, OrderQuiet
  <1>3. CASE c \in DOMAIN buffer
    <2> DEFINE new == Newer(c)
               tail == BufferedTail(c)
               old == got[c]
    <2>1. /\ new \in Seq(Ids) /\ tail \in Seq(Entries) /\ Len(tail) = Len(new) /\ Len(new) \in Nat
          /\ \A i \in 1..Len(new) : tail[i] = [seq |-> new[i], replay |-> FALSE]
      BY <1>3, BufferedTailTyped DEF Typed, ThreadTyped
    <2>2. PICK at : Selects(at, new, buffer[c], Len(buffer[c]),
                            {e \in Events : c \in DOMAIN maxSeq => e > maxSeq[c]})
      BY <1>3, WireTypes, KeptSelects DEF Newer
    <2>3. /\ got'[c] = old \o tail
          /\ \A d \in Clients : d # c => got'[d] = got[d]
          /\ DOMAIN buffer' = DOMAIN buffer \ {c} /\ \A d \in DOMAIN buffer' : buffer'[d] = buffer[d]
      <3>1. got' = [got EXCEPT ![c] = got[c] \o BufferedTail(c)] /\ got \in [Clients -> Seq(Entries)]
        BY <1>3, WireTypes DEF ServerRespond
      <3>2. DOMAIN buffer' = DOMAIN buffer \ {c} /\ \A d \in DOMAIN buffer' : buffer'[d] = buffer[d]
        BY <1>3 DEF ServerRespond, Without, Restrict
      <3>. QED
        BY <1>1, <3>1, <3>2
    <2>4. old \in Seq(Entries)
      BY <1>1, WireTypes
    <2> DEFINE n == Len(old)
    <2>5. c \notin spilled => \A i \in DOMAIN old : old[i].replay
      BY <1>3 DEF Order, OnlyReplays
    <2>6. \A i \in 1..Len(new) :
            /\ new[i] \in Ids /\ FannedOut(new[i])
            /\ \A j \in 1..Len(new) :
                 j > i /\ SameKind(new[i], new[j]) => new[i] < new[j]
      <3>1. \A i \in DOMAIN buffer[c] :
            /\ FannedOut(buffer[c][i])
            /\ \A j \in DOMAIN buffer[c] :
                 (j > i /\ SameKind(buffer[c][i], buffer[c][j])) => buffer[c][i] < buffer[c][j]
        BY <1>3 DEF Order, BufferInOrder
      <3>2. DOMAIN buffer[c] = 1..Len(buffer[c]) /\ Len(buffer[c]) \in Nat
        BY <1>3, WireTypes
      <3> HIDE DEF new
      <3>3. \A i \in 1..Len(new) : at[i] \in DOMAIN buffer[c] /\ new[i] = buffer[c][at[i]]
        BY <2>2, <3>2 DEF Selects
      <3>4. \A i, j \in 1..Len(new) : i < j => at[i] < at[j] /\ at[i] \in Nat /\ at[j] \in Nat
        BY <2>2, <3>2, <3>3 DEF Selects
      <3>5. \A i \in 1..Len(new) : new[i] \in Ids
        BY <2>1
      <3>6. \A i, j \in 1..Len(new) : j > i /\ SameKind(new[i], new[j]) => new[i] < new[j]
        <4>1. \A i, j \in 1..Len(new) : j > i => at[j] > at[i]
          BY <2>1, <3>4
        <4>. QED
          BY <3>1, <3>3, <4>1
      <3>. QED
        BY <3>1, <3>3, <3>5, <3>6
    <2>7. /\ n \in Nat /\ DOMAIN old = 1..n /\ DOMAIN (old \o tail) = 1..(n + Len(new))
          /\ \A i \in 1..n : (old \o tail)[i] = old[i]
          /\ \A i \in 1..Len(new) : (old \o tail)[n + i] = tail[i]
      <3> HIDE DEF new, tail, old
      <3>. QED
        BY <2>1, <2>4
    <2> HIDE DEF new, tail, c
    <2>8. \A i \in DOMAIN got'[c] :
            \/ i \in DOMAIN old /\ got'[c][i] = old[i]
            \/ /\ i \in Nat /\ i > n /\ i - n \in 1..Len(new)
               /\ got'[c][i].seq = new[i - n] /\ ~got'[c][i].replay
      <3> DEFINE g == old \o tail
      <3>1. /\ n \in Nat /\ DOMAIN old = 1..n /\ DOMAIN g = 1..(n + Len(new)) /\ Len(new) \in Nat
            /\ \A i \in 1..n : g[i] = old[i]
            /\ \A i \in 1..Len(new) : g[n + i] = tail[i]
        BY <2>1, <2>7
      <3> HIDE DEF g, n, old
      <3>2. ASSUME NEW i \in DOMAIN g, i \notin DOMAIN old
            PROVE  /\ i \in Nat /\ i > n /\ i - n \in 1..Len(new)
                   /\ g[i].seq = new[i - n] /\ ~g[i].replay
        <4>1. i \in Nat /\ i > n /\ i - n \in 1..Len(new) /\ n + (i - n) = i
          BY <3>1, <3>2
        <4>2. g[n + (i - n)] = tail[i - n] /\ tail[i - n] = [seq |-> new[i - n], replay |-> FALSE]
          BY <2>1, <3>1, <4>1
        <4>. QED
          BY <4>1, <4>2
      <3>3. got'[c] = g
        BY <2>3 DEF g
      <3>. QED
        BY <3>1, <3>2, <3>3
    <2>9. DOMAIN old = 1..n /\ n \in Nat
      BY <2>7
    <2> HIDE DEF n, old
    <2>10. OutInOrder' /\ BufferInOrder' /\ NotThere'
      <3>1. OutInOrder'
        BY <1>0, OutOrdered DEF Order
      <3>2. BufferInOrder'
        <4>1. \A d \in DOMAIN buffer' : d \in DOMAIN buffer /\ buffer'[d] = buffer[d]
          BY <2>3
        <4>. QED
          BY <1>0, <4>1, HeldOrdered, BufferOrdered
      <3>3. NotThere'
        <4>1. load[c] # "idle"
          BY <1>1, <1>3 DEF Order, NotThere, Tables, Owed
        <4>2. \A d \in Loaders : d \in Clients
          BY WireTypes
        <4>. QED
          BY <1>0, <2>3, <4>1, <4>2 DEF Order, NotThere
      <3>. QED
        BY <3>1, <3>2, <3>3
    <2>11. \A e \in Ids : (FannedOut(e) => FannedOut(e)') /\ (e \in xai' <=> e \in xai)
      BY <1>0, FannedOutKept, PassedKept
    <2>12. GotInOrder'
      <3>1. \A d \in Clients \ spilled' : d # c =>
             /\ \A i \in DOMAIN got'[d] : ~got'[d][i].replay =>
                  \A f : f = got'[d][i].seq => FannedOut(f)'
             /\ \A i, j \in DOMAIN got'[d] :
                 j > i /\ ~got'[d][i].replay /\ ~got'[d][j].replay
                   /\ (got'[d][i].seq \in xai' <=> got'[d][j].seq \in xai')
                   => got'[d][i].seq < got'[d][j].seq
        BY <1>0, <2>3, SentOrdered
      <3>2. c \notin spilled' => \A i \in DOMAIN got'[c] : ~got'[c][i].replay =>
              /\ i \in Nat /\ i - n \in 1..Len(new) /\ got'[c][i].seq = new[i - n]
        BY <1>0, <2>5, <2>8
      <3>3. c \notin spilled' => \A i \in DOMAIN got'[c] : ~got'[c][i].replay =>
              \A f : f = got'[c][i].seq => FannedOut(f)'
        BY <2>6, <2>11, <3>2
      <3>4. ASSUME c \notin spilled', NEW i \in DOMAIN got'[c], NEW j \in DOMAIN got'[c], j > i,
                   ~got'[c][i].replay, ~got'[c][j].replay,
                   got'[c][i].seq \in xai' <=> got'[c][j].seq \in xai'
            PROVE  got'[c][i].seq < got'[c][j].seq
        <4>1. /\ i \in Nat /\ i - n \in 1..Len(new) /\ got'[c][i].seq = new[i - n]
              /\ j \in Nat /\ j - n \in 1..Len(new) /\ got'[c][j].seq = new[j - n]
          BY <3>2, <3>4
        <4>2. j - n > i - n
          BY <2>9, <3>4, <4>1
        <4>3. SameKind(new[i - n], new[j - n])
          BY <2>6, <2>11, <3>4, <4>1 DEF SameKind
        <4>. QED
          BY <2>6, <4>1, <4>2, <4>3
      <3>. QED
        BY <3>1, <3>3, <3>4, GotOrdered
    <2>13. OnlyReplays'
      BY <1>0, <2>3, WireTypes DEF Order, OnlyReplays
    <2>14. ReplayBeforeLive'
      <3>1. ASSUME c \notin spilled, NEW i \in DOMAIN got'[c], NEW j \in DOMAIN got'[c], i < j,
                   got'[c][j].replay
            PROVE  got'[c][i].replay
        <4>1. j \in DOMAIN old
          BY <2>8, <3>1
        <4>2. i \in DOMAIN old /\ got'[c][i] = old[i]
          BY <2>8, <2>9, <3>1, <4>1
        <4>. QED
          BY <2>5, <3>1, <4>2
      <3>2. \A d \in Loaders : d # c => got'[d] = got[d]
        BY <2>3, WireTypes
      <3>. QED
        BY <1>0, <3>1, <3>2 DEF Order, ReplayBeforeLive
    <2>. QED
      BY <2>10, <2>12, <2>13, <2>14 DEF Order
  <1>. QED
    BY <1>2, <1>3

\* Only the load handlers and the leader move a load's request.
LEMMA OrderStep ==
  ASSUME Typed, Log, Order, Wire, Tables, [Next]_vars
  PROVE  Order'
  <1>1. CASE StampAcp \/ EmitXai \/ SessionStep \/ Persist \/ UNCHANGED vars
    <2>1. UNCHANGED <<load, clients, buffer, got, spilled>>
      BY <1>1 DEF StampAcp, EmitXai, SessionStep, EmitAcp, Forward, Flush, Persist, vars,
         loadVars, leaderVars
    <2>2. NotThere'
      BY <2>1 DEF Order, NotThere
    <2>. QED
      BY <2>1, <2>2, OrderQuiet
  <1>2. ASSUME NEW c \in Loaders, LoadStep(c)
        PROVE  Order'
    <2>1. UNCHANGED <<clients, buffer, got, spilled>>
      BY <1>2 DEF LoadStep, LoadClose, LoadFlushed, LoadError, LoadRead, LoadReflushed,
         LoadReflushTimeout, LoadDelta, LoadOpen, LoadAnswer, leaderVars
    <2>2. \E next \in LoadPcs \ {"idle"} : GotoLoad(c, next)
      BY <1>2 DEF LoadStep, LoadClose, LoadFlushed, LoadError, LoadRead, LoadReflushed,
         LoadReflushTimeout, LoadDelta, LoadOpen, LoadAnswer, LoadPcs
    <2>3. \A d \in Loaders : load'[d] = "idle" => load[d] = "idle"
      BY <2>2 DEF GotoLoad, Typed, LoadTyped
    <2>4. NotThere'
      BY <2>1, <2>3 DEF Order, NotThere
    <2>. QED
      BY <2>1, <2>4, OrderQuiet
  <1>3. ASSUME NEW c \in Loaders, ServerLoad(c)
        PROVE  Order'
    <2>1. /\ UNCHANGED <<got, spilled>> /\ load[c] = "idle"
          /\ clients' = clients \union {c} /\ GotoLoad(c, "close")
          /\ \A d \in DOMAIN buffer' : (d \in DOMAIN buffer /\ buffer'[d] = buffer[d])
                                         \/ (d = c /\ buffer'[d] = <<>>)
      BY <1>3 DEF ServerLoad, With
    <2>2. NotThere'
      BY <2>1 DEF Order, NotThere, GotoLoad, Typed, LoadTyped
    <2>3. DOMAIN got[c] = {} /\ DOMAIN <<>> = {}
      BY <2>1 DEF Order, NotThere
    <2>. QED
      BY <2>1, <2>2, <2>3, OrderQuiet
  <1>4. ASSUME NEW c \in Loaders, ServerDisconnected(c)
        PROVE  Order'
    <2>1. /\ UNCHANGED <<got, spilled, load>> /\ clients' = clients \ {c}
          /\ \A d \in DOMAIN buffer' : d \in DOMAIN buffer /\ buffer'[d] = buffer[d]
      BY <1>4 DEF ServerDisconnected, Without, Restrict
    <2>2. NotThere'
      BY <2>1 DEF Order, NotThere
    <2>. QED
      BY <2>1, <2>2, OrderQuiet
  <1>. QED
    BY <1>1, <1>2, <1>3, <1>4, UnicastOrder, FanOutOrder, RespondOrder DEF Next, ServerReceive

\* Nothing is under way at the start.
LEMMA OrderInit == Init => Order
  <1> SUFFICES ASSUME Init PROVE Order
    OBVIOUS
  <1>1. /\ DOMAIN out = {} /\ DOMAIN buffer = {} /\ \A c \in Clients : DOMAIN got[c] = {}
        /\ clients = {Creator} /\ Loaders \subseteq Clients /\ Creator \notin Loaders
    BY LoadAssumption DEF Init, Clients
  <1>. QED
    BY <1>1 DEF Order, OutInOrder, BufferInOrder, GotInOrder, OnlyReplays, NotThere,
       ReplayBeforeLive

\* A client drops none of the live events it is sent.
LEMMA OrderApplied ==
  ASSUME Typed, Order
  PROVE  LiveInOrder
  <1> SUFFICES ASSUME NEW c \in Clients \ spilled, NEW i \in DOMAIN got[c], NEW j \in 1..(i - 1),
                      SameStream(got[c][j], got[c][i])
               PROVE  got[c][j].seq < got[c][i].seq
    BY DEF LiveInOrder, Applied
  <1>1. j \in DOMAIN got[c] /\ i > j
    <2>1. DOMAIN got[c] = 1..Len(got[c]) /\ Len(got[c]) \in Nat
      BY WireTypes
    <2>. QED
      BY <2>1
  <1>. QED
    BY <1>1 DEF SameStream, Order, GotInOrder, SameKind

-----------------------------------------------------------------------------
(* The ids of what was sent.                                                *)

SeqsOf(s) ==
  /\ Seqs(s) \in Seq(Nat) /\ Len(Seqs(s)) = Len(s) /\ Len(s) \in Nat
  /\ \A i \in 1..Len(s) : Seqs(s)[i] = s[i].seq

\* The ids of a sequence of messages, by position, ...
LEMMA SeqsTyped ==
  ASSUME NEW T, NEW s \in Seq(T), \A i \in 1..Len(s) : s[i].seq \in Nat
  PROVE  SeqsOf(s)
  <1> DEFINE q == [i \in 1..Len(s) |-> s[i].seq]
  <1>1. DOMAIN s = 1..Len(s) /\ Len(s) \in Nat
    OBVIOUS
  <1>2. q = Seqs(s)
    BY <1>1 DEF Seqs
  <1>3. q \in [1..Len(s) -> Nat] /\ \A i \in 1..Len(s) : q[i] = s[i].seq
    OBVIOUS
  <1> HIDE DEF q
  <1>4. q \in Seq(Nat) /\ Len(q) = Len(s)
    BY <1>1, <1>3
  <1>. QED
    BY <1>1, <1>2, <1>3, <1>4 DEF SeqsOf

\* ... and of one behind the other.
LEMMA SeqsConcat ==
  ASSUME NEW T, NEW s \in Seq(T), NEW t \in Seq(T), \A m \in T : m.seq \in Nat
  PROVE  Seqs(s \o t) = Seqs(s) \o Seqs(t)
  <1> DEFINE r == s \o t
  <1>1. /\ r \in Seq(T) /\ Len(r) = Len(s) + Len(t) /\ Len(s) \in Nat /\ Len(t) \in Nat
        /\ \A i \in 1..(Len(s) + Len(t)) : r[i] = IF i <= Len(s) THEN s[i] ELSE t[i - Len(s)]
    BY ConcatProperties
  <1>2. \A q \in Seq(T) : \A i \in 1..Len(q) : q[i].seq \in Nat
    OBVIOUS
  <1> HIDE DEF r
  <1>3. SeqsOf(r) /\ SeqsOf(s) /\ SeqsOf(t)
    BY <1>1, <1>2, SeqsTyped
  <1> DEFINE x == Seqs(r)
             y == Seqs(s)
             z == Seqs(t)
  <1>4. /\ x \in Seq(Nat) /\ y \in Seq(Nat) /\ z \in Seq(Nat)
        /\ Len(x) = Len(s) + Len(t) /\ Len(y) = Len(s) /\ Len(z) = Len(t)
        /\ \A i \in 1..Len(s) : y[i] = s[i].seq
        /\ \A i \in 1..Len(t) : z[i] = t[i].seq
        /\ \A i \in 1..(Len(s) + Len(t)) : x[i] = r[i].seq
    BY <1>1, <1>3 DEF SeqsOf
  <1> HIDE DEF x, y, z
  <1>5. /\ y \o z \in Seq(Nat) /\ Len(y \o z) = Len(s) + Len(t)
        /\ \A i \in 1..(Len(s) + Len(t)) : (y \o z)[i] = IF i <= Len(s) THEN y[i] ELSE z[i - Len(s)]
    <2>1. Len(y) \in Nat /\ Len(z) \in Nat
      BY <1>1, <1>4
    <2>2. /\ y \o z \in Seq(Nat) /\ Len(y \o z) = Len(y) + Len(z)
          /\ \A i \in 1..(Len(y) + Len(z)) : (y \o z)[i] = IF i <= Len(y) THEN y[i] ELSE z[i - Len(y)]
      <3>1. y \in Seq(Nat) /\ z \in Seq(Nat)
        BY <1>4
      <3>. QED
        BY ONLY <3>1, ConcatProperties
    <2>. QED
      BY <1>4, <2>2
  <1>6. \A i \in 1..(Len(s) + Len(t)) : x[i] = (y \o z)[i]
    <2> TAKE i \in 1..(Len(s) + Len(t))
    <2>1. CASE i <= Len(s)
      <3>1. i \in 1..Len(s)
        BY <1>1, <2>1
      <3>. QED
        BY <1>1, <1>4, <1>5, <2>1, <3>1
    <2>2. CASE ~(i <= Len(s))
      <3>1. i - Len(s) \in 1..Len(t)
        BY <1>1, <2>2
      <3>. QED
        BY <1>1, <1>4, <1>5, <2>2, <3>1
    <2>. QED
      BY <2>1, <2>2
  <1>7. x = y \o z
    BY <1>4, <1>5, <1>6, SeqEqual
  <1>. QED
    BY <1>7 DEF r, x, y, z

-----------------------------------------------------------------------------
(* Prefixes, by position.                                                   *)

Starts(s, t) == Len(s) <= Len(t) /\ \A i \in 1..Len(s) : s[i] = t[i]

\* That is IsPrefix of the community modules.
LEMMA StartsIsPrefix ==
  ASSUME NEW T, NEW s \in Seq(T), NEW t \in Seq(T), Starts(s, t)
  PROVE  IsPrefix(s, t)
  <1>1. Len(s) \in Nat /\ Len(t) \in Nat /\ Len(s) <= Len(t)
    BY DEF Starts
  <1>2. SubSeq(s, 1, Len(s)) = s
    BY SubSeqFull
  <1> DEFINE u == SubSeq(t, 1, Len(s))
  <1>3. u \in Seq(T) /\ Len(u) = Len(s) /\ \A i \in 1..Len(s) : u[i] = t[i]
    BY <1>1
  <1> HIDE DEF u
  <1>4. u = s
    BY <1>3, SeqEqual DEF Starts
  <1>. QED
    BY <1>1, <1>2, <1>4 DEF IsPrefix, u

\* The first of two parts starts what the two start, and so does a sequence what
\* extends it.
LEMMA StartsFirst ==
  ASSUME NEW T, NEW s \in Seq(T), NEW r \in Seq(T), NEW t \in Seq(T), Starts(s \o r, t)
  PROVE  Starts(s, t)
  <1>1. /\ Len(s \o r) = Len(s) + Len(r) /\ Len(s) \in Nat /\ Len(r) \in Nat /\ Len(t) \in Nat
        /\ \A i \in 1..Len(s) : (s \o r)[i] = s[i]
    OBVIOUS
  <1>. QED
    BY <1>1 DEF Starts

\* A prefix remains one when the sequence grows.
LEMMA StartsLonger ==
  ASSUME NEW T, NEW s \in Seq(T), NEW t \in Seq(T), NEW r \in Seq(T), Starts(s, t)
  PROVE  Starts(s, t \o r)
  <1>1. /\ Len(t \o r) = Len(t) + Len(r) /\ Len(s) \in Nat /\ Len(r) \in Nat /\ Len(t) \in Nat
        /\ \A i \in 1..Len(t) : (t \o r)[i] = t[i]
    OBVIOUS
  <1>. QED
    BY <1>1 DEF Starts

\* A prefix and what follows it in the sequence make the sequence.
LEMMA StartsAndRest ==
  ASSUME NEW T, NEW s \in Seq(T), NEW t \in Seq(T), Starts(s, t)
  PROVE  Starts(s \o SubSeq(t, Len(s) + 1, Len(t)), t)
  <1> DEFINE n == Len(s)
             r == SubSeq(t, n + 1, Len(t))
  <1>1. n \in Nat /\ Len(t) \in Nat /\ n <= Len(t) /\ \A i \in 1..n : s[i] = t[i]
    BY DEF Starts
  <1>2. /\ r \in Seq(T) /\ Len(r) = Len(t) - n /\ \A i \in 1..(Len(t) - n) : r[i] = t[n + i]
    BY <1>1
  <1> DEFINE q == s \o r
  <1> HIDE DEF r
  <1>3. /\ Len(q) = Len(t) /\ \A i \in 1..n : q[i] = s[i]
        /\ \A i \in 1..Len(t) : i > n => q[i] = r[i - n]
    BY <1>1, <1>2
  <1> HIDE DEF q
  <1>4. ASSUME NEW i \in 1..Len(t)
        PROVE  q[i] = t[i]
    <2>1. CASE i <= n
      <3>1. i \in 1..n
        BY <1>1, <2>1
      <3>. QED
        BY <1>1, <1>3, <3>1
    <2>2. CASE i > n
      <3>1. i - n \in 1..(Len(t) - n) /\ n + (i - n) = i
        BY <1>1, <2>2
      <3>. QED
        BY <1>2, <1>3, <2>2, <3>1
    <2>. QED
      BY <1>1, <2>1, <2>2
  <1>5. Starts(q, t)
    BY <1>1, <1>3, <1>4 DEF Starts
  <1>. QED
    BY <1>5 DEF q, r

-----------------------------------------------------------------------------
(* The lines of the file that a load replays: those the client was sent, and *)
(* those on their way to the leader.                                        *)

Received == [seq : Events, replay : {TRUE}]
ReplaysTo(c) == [kind : {"replay"}, to : {c}, seq : Events]
Sending(c) == Seqs(Kept(out, ReplaysTo(c)))
Lines(c) == Replayed(c) \o Sending(c)

Early == {"idle", "close", "flush", "read"}

\* They are a prefix of the file: up to offset after the first replay, and nothing
\* before it.
Line(c) ==
  /\ Starts(Replayed(c), file)
  /\ c \in clients => Starts(Lines(c), file)
  /\ (c \in clients /\ load[c] \in {"reflush", "delta"}) => Len(Lines(c)) = offset[c]
  /\ load[c] \in Early => Replayed(c) = <<>> /\ Sending(c) = <<>>

\* The lines of a load are sequences of ids.
LEMMA LinesTyped ==
  ASSUME Typed, NEW c \in Loaders
  PROVE  /\ Kept(got[c], Received) \in Seq(Entries) /\ Kept(out, ReplaysTo(c)) \in Seq(Sends)
         /\ Replayed(c) \in Seq(Nat) /\ Sending(c) \in Seq(Nat) /\ Lines(c) \in Seq(Nat)
         /\ file \in Seq(Nat) /\ Len(file) \in Nat
  <1>1. \A e \in Ids : e \in Nat
    BY LogTypes
  <1>2. Kept(got[c], Received) \in Seq(Entries)
    BY WireTypes, KeptSelects
  <1>3. Kept(out, ReplaysTo(c)) \in Seq(Sends)
    BY WireTypes, KeptSelects
  <1>4. \A i \in 1..Len(Kept(got[c], Received)) : Kept(got[c], Received)[i].seq \in Nat
    <2> DEFINE k == Kept(got[c], Received)
    <2>1. \A m \in Entries : m.seq \in Nat
      BY <1>1 DEF Entries
    <2>2. k \in Seq(Entries)
      BY <1>2
    <2> HIDE DEF k
    <2>3. \A i \in 1..Len(k) : k[i].seq \in Nat
      BY <2>1, <2>2
    <2>. QED
      BY <2>3 DEF k
  <1>5. Replayed(c) \in Seq(Nat)
    BY <1>2, <1>4, SeqsTyped DEF SeqsOf, Replayed, Received
  <1>6. \A i \in 1..Len(Kept(out, ReplaysTo(c))) : Kept(out, ReplaysTo(c))[i].seq \in Nat
    <2>1. PICK at : Selects(at, Kept(out, ReplaysTo(c)), out, Len(out), ReplaysTo(c))
      BY WireTypes, KeptSelects
    <2>2. \A m \in ReplaysTo(c) : m.seq \in Nat
      BY DEF ReplaysTo, Events
    <2>. QED
      BY <2>1, <2>2 DEF Selects
  <1>7. Sending(c) \in Seq(Nat)
    BY <1>3, <1>6, SeqsTyped DEF SeqsOf, Sending
  <1>8. file \in Seq(Nat) /\ Len(file) \in Nat
    BY TypedIsSessionOK DEF SessionOK
  <1>. QED
    BY <1>2, <1>3, <1>5, <1>7, <1>8, ConcatProperties DEF Lines

\* Which of the messages are replays to c, and what of them is sent.
LEMMA IsSending ==
  ASSUME Typed, NEW c \in Loaders
  PROVE  /\ \A m \in Sends : m \in ReplaysTo(c) <=> m.kind = "replay" /\ m.to = c
         /\ \A m \in Entries : m \in Received <=> m.replay
         /\ \A e \in Ids : Replay(c, e) \in ReplaysTo(c) /\ Replay(c, e).seq = e
         /\ \A e \in Ids, d \in Loaders : d # c => Replay(d, e) \notin ReplaysTo(c)
  <1>1. Ids \subseteq Events
    BY LoadAssumption DEF Typed, ThreadTyped, Ids, Events
  <1>2. \A m \in Sends : m \in ReplaysTo(c) <=> m.kind = "replay" /\ m.to = c
    BY <1>1 DEF Sends, ReplaysTo
  <1>3. \A m \in Entries : m \in Received <=> m.replay
    BY <1>1 DEF Entries, Received
  <1>4. \A e \in Ids : Replay(c, e) \in ReplaysTo(c) /\ Replay(c, e).seq = e
    BY <1>1 DEF Replay, ReplaysTo
  <1>5. \A e \in Ids, d \in Loaders : d # c => Replay(d, e) \notin ReplaysTo(c)
    BY DEF Replay, ReplaysTo
  <1>. QED
    BY <1>2, <1>3, <1>4, <1>5

\* A message that is no replay to c.
LEMMA SendingOther ==
  ASSUME Typed, NEW c \in Loaders, NEW m \in Sends, out' = Append(out, m),
         m.kind # "replay" \/ m.to # c
  PROVE  Sending(c)' = Sending(c)
  <1>1. m \notin ReplaysTo(c)
    BY IsSending
  <1>2. Kept(Append(out, m), ReplaysTo(c)) = Kept(out, ReplaysTo(c))
    BY <1>1, WireTypes, KeptAppend
  <1>. QED
    BY <1>2 DEF Sending, ReplaysTo, Events

\* A load adds the lines it read to its own lines only.
LEMMA SendingReplays ==
  ASSUME Typed, NEW c \in Loaders, NEW d \in Loaders, NEW lines \in Seq(Ids),
         out' = out \o Replays(d, lines)
  PROVE  /\ d # c => Sending(c)' = Sending(c)
         /\ d = c => Sending(c)' = Sending(c) \o lines
  <1> DEFINE s == Replays(d, lines)
             k == Kept(out, ReplaysTo(c))
  <1>1. /\ s \in Seq(Sends) /\ Len(s) = Len(lines) /\ Len(lines) \in Nat
        /\ \A i \in 1..Len(lines) : s[i] = Replay(d, lines[i]) /\ lines[i] \in Ids
    BY ReplaysTyped
  <1>2. k \in Seq(Sends)
    BY LinesTyped
  <1> HIDE DEF s, k
  <1>4. d # c => Kept(out \o s, ReplaysTo(c)) = k
    <2>1. d # c => \A i \in 1..Len(s) : s[i] \notin ReplaysTo(c)
      BY <1>1, IsSending
    <2>. QED
      BY <1>1, <2>1, WireTypes, KeptGrown DEF k
  <1>5. d = c => Kept(out \o s, ReplaysTo(c)) = k \o s
    <2>1. d = c => \A i \in 1..Len(s) : s[i] \in ReplaysTo(c)
      BY <1>1, IsSending
    <2>. QED
      BY <1>1, <2>1, WireTypes, KeptGrown DEF k
  <1>6. d = c => Seqs(k \o s) = Seqs(k) \o Seqs(s)
    <2> SUFFICES ASSUME d = c PROVE Seqs(k \o s) = Seqs(k) \o Seqs(s)
      OBVIOUS
    <2> DEFINE R == [kind : {"replay"}, to : Loaders, seq : Nat]
    <2>1. \A m \in R : m.seq \in Nat
      BY Zenon
    <2>2. ReplaysTo(c) \subseteq R
      BY DEF ReplaysTo, Events
    <2>4. \A i \in 1..Len(k) : k[i] \in R
      <3>1. PICK at : Selects(at, k, out, Len(out), ReplaysTo(c))
        BY WireTypes, KeptSelects DEF k
      <3>. QED
        BY <2>2, <3>1 DEF Selects
    <2>5. \A i \in 1..Len(s) : s[i] \in R
      BY <1>1, <2>2, IsSending
    <2> HIDE DEF R
    <2>6. k \in Seq(R) /\ s \in Seq(R)
      <3>1. k \in Seq(R)
        BY <1>2, <2>4
      <3>2. s \in Seq(R)
        BY <1>1, <2>5
      <3>. QED
        BY <3>1, <3>2
    <2>. QED
      BY <2>1, <2>6, SeqsConcat
  <1>7. Seqs(s) = lines
    <2>1. \A i \in 1..Len(s) : s[i].seq \in Nat /\ s[i].seq = lines[i]
      <3>1. \A e : Replay(d, e).seq = e
        BY DEF Replay
      <3>2. \A e \in Ids : e \in Nat
        BY LogTypes
      <3>. QED
        BY <1>1, <3>1, <3>2
    <2>2. SeqsOf(s)
      BY <1>1, <2>1, SeqsTyped
    <2>3. lines \in Seq(Nat) /\ Len(Seqs(s)) = Len(lines)
      BY <1>1, <2>2, LogTypes, SeqMonotonic DEF SeqsOf
    <2>. QED
      BY <1>1, <2>1, <2>2, <2>3, SeqEqual DEF SeqsOf
  <1>8. Sending(c)' = Seqs(Kept(out', ReplaysTo(c)))
    BY DEF Sending, ReplaysTo, Events
  <1>. QED
    BY <1>4, <1>5, <1>6, <1>7, <1>8 DEF Sending, k, s

\* The leader takes them from the front.
LEMMA SendingTaken ==
  ASSUME Typed, NEW c \in Loaders, out # <<>>, out' = Tail(out)
  PROVE  /\ Sending(c)' \in Seq(Nat)
         /\ Head(out).kind # "replay" \/ Head(out).to # c => Sending(c)' = Sending(c)
         /\ Head(out).kind = "replay" /\ Head(out).to = c =>
              Sending(c) = <<Head(out).seq>> \o Sending(c)'
  <1> DEFINE h == Head(out)
             t == Tail(out)
             k == Kept(t, ReplaysTo(c))
  <1>1. out \in Seq(Sends) /\ h \in Sends /\ t \in Seq(Sends)
    BY WireTypes
  <1>2. /\ h \in ReplaysTo(c) => Kept(out, ReplaysTo(c)) = <<h>> \o k
        /\ h \notin ReplaysTo(c) => Kept(out, ReplaysTo(c)) = k
    BY <1>1, KeptTail
  <1>3. h \in ReplaysTo(c) <=> h.kind = "replay" /\ h.to = c
    BY <1>1, IsSending
  <1>4. k \in Seq(Sends) /\ \E at : Selects(at, k, t, Len(t), ReplaysTo(c))
    BY <1>1, KeptSelects
  <1>5. Sending(c)' = Seqs(k)
    BY DEF Sending, ReplaysTo, Events
  <1> HIDE DEF h, t, k
  <1>6. h \in ReplaysTo(c) => Seqs(<<h>> \o k) = <<h.seq>> \o Seqs(k)
    <2> SUFFICES ASSUME h \in ReplaysTo(c) PROVE Seqs(<<h>> \o k) = <<h.seq>> \o Seqs(k)
      OBVIOUS
    <2> DEFINE one == <<h>>
               R == [kind : {"replay"}, to : Loaders, seq : Nat]
    <2>1. \A m \in R : m.seq \in Nat
      OBVIOUS
    <2>2. ReplaysTo(c) \subseteq R
      BY DEF ReplaysTo, Events
    <2>3. k \in Seq(R)
      <3>1. \A i \in 1..Len(k) : k[i] \in R
        BY <1>4, <2>2 DEF Selects
      <3> HIDE DEF R
      <3>. QED
        BY <1>4, <3>1
    <2>4. one \in Seq(R) /\ Len(one) = 1 /\ one[1] = h
      BY <2>2
    <2>5. Seqs(one) = <<h.seq>>
      <3>1. SeqsOf(one)
        <4>1. \A i \in 1..Len(one) : one[i].seq \in Nat
          BY <2>1, <2>2, <2>4
        <4> HIDE DEF one, R
        <4>. QED
          BY <2>4, <4>1, SeqsTyped
      <3> DEFINE x == Seqs(one)
      <3>2. x \in Seq(Nat) /\ Len(x) = 1 /\ x[1] = h.seq
        BY <2>4, <3>1 DEF SeqsOf
      <3> HIDE DEF x
      <3>3. x = <<h.seq>>
        BY <3>2
      <3>. QED
        BY <3>3 DEF x
    <2> HIDE DEF one, R
    <2>6. Seqs(one \o k) = Seqs(one) \o Seqs(k)
      BY <2>1, <2>3, <2>4, SeqsConcat
    <2>. QED
      BY <2>5, <2>6 DEF one
  <1>7. Seqs(k) \in Seq(Nat)
    <2>1. \A m \in ReplaysTo(c) : m.seq \in Nat
      BY DEF ReplaysTo, Events
    <2>2. \A i \in 1..Len(k) : k[i].seq \in Nat
      BY <1>4, <2>1 DEF Selects
    <2>. QED
      BY <1>4, <2>2, SeqsTyped DEF SeqsOf
  <1>. QED
    BY <1>2, <1>3, <1>5, <1>6, <1>7 DEF Sending, h

-----------------------------------------------------------------------------
(* What was replayed, as the client is sent more.                           *)

\* What a client is sent counts if it is a replay.
LEMMA ReplayedGrows ==
  ASSUME Typed, NEW c \in Loaders, NEW t \in Seq(Entries), got'[c] = got[c] \o t
  PROVE  /\ (\A i \in 1..Len(t) : ~t[i].replay) => Replayed(c)' = Replayed(c)
         /\ \A e \in Ids : t = <<[seq |-> e, replay |-> TRUE]>> =>
              Replayed(c)' = Replayed(c) \o <<e>>
  <1> DEFINE g == got[c]
             k == Kept(g, Received)
  <1>1. g \in Seq(Entries) /\ k \in Seq(Entries)
    BY WireTypes, LinesTyped
  <1>2. \A i \in 1..Len(t) : t[i] \in Entries
    OBVIOUS
  <1>3. Replayed(c)' = Seqs(Kept(g \o t, Received))
    BY DEF Replayed, Received, Events
  <1>4. Replayed(c) = Seqs(k)
    BY DEF Replayed, Received
  <1> HIDE DEF g, k
  <1>5. /\ (\A i \in 1..Len(t) : t[i] \notin Received) => Kept(g \o t, Received) = k
        /\ (\A i \in 1..Len(t) : t[i] \in Received) => Kept(g \o t, Received) = k \o t
    BY <1>1, KeptGrown DEF k
  <1>6. (\A i \in 1..Len(t) : ~t[i].replay) => \A i \in 1..Len(t) : t[i] \notin Received
    BY <1>2, IsSending
  <1>7. ASSUME NEW e \in Ids, t = <<[seq |-> e, replay |-> TRUE]>>
        PROVE  Replayed(c)' = Replayed(c) \o <<e>>
    <2>1. Len(t) = 1 /\ t[1] = [seq |-> e, replay |-> TRUE]
      BY <1>7
    <2>2. \A i \in 1..Len(t) : t[i] \in Received
      <3>1. [seq |-> e, replay |-> TRUE] \in Entries
        BY DEF Entries
      <3>2. [seq |-> e, replay |-> TRUE] \in Received
        BY <3>1, IsSending
      <3>3. \A i \in 1..Len(t) : i = 1
        BY <2>1
      <3>. QED
        BY <2>1, <3>2, <3>3
    <2>3. \A m \in Entries : m.seq \in Nat
      <3>1. \A f \in Ids : f \in Nat
        BY LogTypes
      <3>. QED
        BY <3>1 DEF Entries
    <2>4. Seqs(k \o t) = Seqs(k) \o Seqs(t)
      BY <1>1, <2>3, SeqsConcat
    <2>5. Seqs(t) = <<e>>
      <3>1. t[1].seq = e /\ e \in Nat
        BY <2>1, LogTypes
      <3>2. \A i \in 1..Len(t) : t[i].seq \in Nat
        BY <2>1, <3>1
      <3>3. SeqsOf(t)
        BY <3>2, SeqsTyped
      <3> DEFINE x == Seqs(t)
      <3>4. x \in Seq(Nat) /\ Len(x) = 1 /\ x[1] = e
        BY <2>1, <3>1, <3>3 DEF SeqsOf
      <3> HIDE DEF x
      <3>5. x = <<e>>
        BY <3>4
      <3>. QED
        BY <3>5 DEF x
    <2>. QED
      BY <1>3, <1>4, <1>5, <2>2, <2>4, <2>5
  <1>. QED
    BY <1>3, <1>4, <1>5, <1>6, <1>7

-----------------------------------------------------------------------------

\* The file only grows.
LEMMA FileExtends ==
  ASSUME Typed, [Next]_vars
  PROVE  \E r \in Seq(Nat) : file' = file \o r
  <1>1. file \in Seq(Nat)
    BY TypedIsSessionOK DEF SessionOK
  <1>2. UNCHANGED file => \E r \in Seq(Nat) : file' = file \o r
    <2>1. file \o <<>> = file /\ <<>> \in Seq(Nat)
      BY <1>1, ConcatEmptySeq
    <2>. QED
      BY <2>1
  <1>3. CASE Persist
    <2>1. Pending \in Seq(Nat)
      BY TypedIsSessionOK DEF Pending, SessionOK
    <2>2. CASE file' = file \o Pending
      BY <2>1, <2>2
    <2>3. ASSUME Head(queue).kind = "event", Head(queue).seq \in xai,
                 file' = Append(file, Head(queue).seq)
          PROVE  \E r \in Seq(Nat) : file' = file \o r
      <3> DEFINE m == Head(queue).seq
      <3>1. m \in Nat
        BY <2>3, LogTypes DEF Typed, ThreadTyped
      <3> HIDE DEF m
      <3>2. Append(file, m) = file \o <<m>>
        BY <1>1, <3>1, AppendIsConcat
      <3>3. <<m>> \in Seq(Nat)
        BY <3>1
      <3>. QED
        BY <2>3, <3>2, <3>3 DEF m
    <2>. QED
      BY <1>3, <2>2, <2>3 DEF Persist
  <1>4. ASSUME NEW c \in Loaders, LoadStep(c) \/ ServerLoad(c) \/ ServerDisconnected(c)
        PROVE  UNCHANGED file
    BY <1>4 DEF LoadStep, LoadClose, LoadFlushed, LoadError, LoadRead, LoadReflushed,
       LoadReflushTimeout, LoadDelta, LoadOpen, LoadAnswer, ServerLoad, ServerDisconnected,
       agentVars, diskVars
  <1>5. CASE StampAcp \/ EmitXai \/ SessionStep \/ ServerReceive \/ UNCHANGED vars
    BY <1>2, <1>5 DEF StampAcp, EmitXai, SessionStep, EmitAcp, Forward, Flush, ServerReceive,
       ServerFanOut, ServerUnicast, ServerRespond, agentVars, diskVars, vars
  <1>. QED
    BY <1>2, <1>3, <1>4, <1>5 DEF Next

\* A step that moves no replayed event of c.
LEMMA LineQuiet ==
  ASSUME Typed, [Next]_vars, NEW c \in Loaders, Line(c),
         Replayed(c)' = Replayed(c), Sending(c)' = Sending(c),
         c \in clients' => c \in clients \/ load[c] = "idle",
         load'[c] \in Early => load[c] \in Early,
         load'[c] \in {"reflush", "delta"} =>
           load[c] \in {"reflush", "delta"} /\ offset'[c] = offset[c]
  PROVE  Line(c)'
  <1>1. /\ Replayed(c) \in Seq(Nat) /\ Sending(c) \in Seq(Nat) /\ Lines(c) \in Seq(Nat)
        /\ file \in Seq(Nat)
    BY LinesTyped
  <1>2. PICK r \in Seq(Nat) : file' = file \o r
    BY FileExtends
  <1>3. Lines(c)' = Lines(c)
    BY DEF Lines
  <1>4. load[c] = "idle" => Lines(c) = <<>>
    BY DEF Line, Lines, Early
  <1> DEFINE R == Replayed(c)
             L == Lines(c)
             f == file
  <1> HIDE DEF R, L, f
  <1>5. Starts(R, f \o r)
    BY <1>1, StartsLonger DEF Line, R, f
  <1>6. c \in clients' => Starts(L, f \o r)
    <2>1. Starts(L, f) => Starts(L, f \o r)
      BY <1>1, StartsLonger DEF L, f
    <2>2. L = <<>> => Starts(L, f)
      BY <1>1 DEF Starts, f
    <2>. QED
      BY <1>4, <2>1, <2>2 DEF Line, L, f
  <1>7. Starts(Replayed(c), file)'
    BY <1>2, <1>5 DEF Starts, R, f
  <1>8. c \in clients' => Starts(Lines(c), file)'
    BY <1>2, <1>3, <1>6 DEF Starts, L, f
  <1>9. c \in clients' /\ load'[c] \in {"reflush", "delta"} => Len(Lines(c))' = offset'[c]
    BY <1>3 DEF Line, Early
  <1>10. load'[c] \in Early => Replayed(c)' = <<>> /\ Sending(c)' = <<>>
    BY DEF Line
  <1>. QED
    BY <1>7, <1>8, <1>9, <1>10 DEF Line, Early

\* The steps of c's own load.
LEMMA LoadLine ==
  ASSUME Typed, NEW c \in Loaders, Line(c), LoadStep(c)
  PROVE  Line(c)'
  <1> USE DEF At, Early
  <1>0. /\ [Next]_vars /\ UNCHANGED <<got, clients, file>>
        /\ \A next \in LoadPcs : GotoLoad(c, next) => load'[c] = next
    <2>1. \A next \in LoadPcs : GotoLoad(c, next) => load'[c] = next
      BY DEF GotoLoad, Typed, LoadTyped
    <2>. QED
      BY <2>1 DEF Next, LoadStep, LoadClose, LoadFlushed, LoadError, LoadRead, LoadReflushed,
         LoadReflushTimeout, LoadDelta, LoadOpen, LoadAnswer, diskVars, leaderVars
  <1>1. /\ Replayed(c)' = Replayed(c)
        /\ Replayed(c) \in Seq(Nat) /\ Sending(c) \in Seq(Nat) /\ Lines(c) \in Seq(Nat)
        /\ file \in Seq(Nat) /\ Len(file) \in Nat
    BY <1>0, LinesTyped DEF Replayed, Events
  <1>2. ASSUME Sending(c)' = Sending(c), load'[c] \in Early => load[c] \in Early,
               load'[c] \in {"reflush", "delta"} =>
                 load[c] \in {"reflush", "delta"} /\ offset'[c] = offset[c]
        PROVE  Line(c)'
    BY <1>0, <1>1, <1>2, LineQuiet
  <1>3. CASE LoadClose(c) \/ LoadFlushed(c) \/ LoadReflushed(c) \/ LoadReflushTimeout(c) \/ LoadOpen(c)
    <2>1. Sending(c)' = Sending(c)
      BY <1>3 DEF Sending, ReplaysTo, Events, LoadClose, LoadFlushed, LoadReflushed,
         LoadReflushTimeout, LoadOpen
    <2>2. UNCHANGED offset
      BY <1>3 DEF LoadClose, LoadFlushed, LoadReflushed, LoadReflushTimeout, LoadOpen
    <2>3. \/ load[c] \in Early /\ load'[c] \in {"flush", "read"}
          \/ load[c] = "reflush" /\ load'[c] = "delta"
          \/ load'[c] \in {"open", "answer"}
      BY <1>0, <1>3 DEF LoadClose, LoadFlushed, LoadReflushed, LoadReflushTimeout, LoadOpen, LoadPcs
    <2>. QED
      BY <1>2, <2>1, <2>2, <2>3
  <1>4. CASE LoadError(c) \/ LoadAnswer(c)
    <2>1. out' = Append(out, Response(c)) /\ load'[c] = "done"
      BY <1>0, <1>4 DEF LoadError, LoadAnswer, LoadPcs
    <2>2. Response(c) \in Sends /\ Response(c).kind # "replay"
      BY DEF Response, Sends
    <2>3. Sending(c)' = Sending(c)
      BY <2>1, <2>2, SendingOther
    <2>. QED
      BY <1>2, <2>1, <2>3
  <1>5. CASE LoadRead(c)
    <2>1. /\ load[c] \in Early /\ load'[c] = "reflush" /\ file \in Seq(Ids)
          /\ out' = out \o Replays(c, file) /\ offset'[c] = Len(file)
      BY <1>0, <1>5, LogTypes DEF LoadRead, LoadPcs, Typed, LoadTyped
    <2>2. Sending(c)' = Sending(c) \o file
      BY <2>1, SendingReplays
    <2>3. Replayed(c) = <<>> /\ Sending(c) = <<>>
      BY <2>1 DEF Line
    <2>4. <<>> \o file = file
      BY <1>1, ConcatEmptySeq
    <2>5. Replayed(c)' = <<>> /\ Lines(c)' = file
      BY <1>1, <2>2, <2>3, <2>4 DEF Lines
    <2>6. Starts(<<>>, file) /\ Starts(file, file)
      BY <1>1 DEF Starts
    <2>7. Starts(Replayed(c), file)' /\ Starts(Lines(c), file)'
      BY <1>0, <2>5, <2>6 DEF Starts
    <2>. QED
      BY <1>0, <2>1, <2>5, <2>7 DEF Line
  <1>6. CASE LoadDelta(c)
    <2> DEFINE r == SubSeq(file, offset[c] + 1, Len(file))
    <2>1. load[c] = "delta" /\ load'[c] = "open" /\ out' = out \o Replays(c, r) /\ r \in Seq(Ids)
      BY <1>0, <1>6, DeltaTyped DEF LoadDelta, LoadPcs
    <2>2. Sending(c)' = Sending(c) \o r
      BY <2>1, SendingReplays
    <2>3. r \in Seq(Nat)
      BY <2>1, LogTypes, SeqMonotonic
    <2> HIDE DEF r
    <2>4. Lines(c)' = Lines(c) \o r
      <3>1. (Replayed(c) \o Sending(c)) \o r = Replayed(c) \o (Sending(c) \o r)
        <4>1. Replayed(c) \in Seq(Nat) /\ Sending(c) \in Seq(Nat)
          BY <1>1
        <4>. QED
          BY ONLY <4>1, <2>3, ConcatAssociative
      <3>. QED
        BY <1>1, <2>2, <3>1 DEF Lines
    <2>5. c \in clients => Starts(Lines(c) \o r, file)
      <3>1. c \in clients => Starts(Lines(c), file) /\ Len(Lines(c)) = offset[c]
        BY <2>1 DEF Line
      <3> DEFINE L == Lines(c)
      <3> HIDE DEF L
      <3>2. Starts(L, file) => Starts(L \o SubSeq(file, Len(L) + 1, Len(file)), file)
        BY <1>1, StartsAndRest DEF L
      <3>. QED
        BY <3>1, <3>2 DEF r, L
    <2>6. Starts(Replayed(c), file)' /\ (c \in clients' => Starts(Lines(c), file)')
      BY <1>0, <1>1, <2>4, <2>5 DEF Starts, Line
    <2>. QED
      BY <2>1, <2>6 DEF Line
  <1>. QED
    BY <1>3, <1>4, <1>5, <1>6 DEF LoadStep

\* Another load's steps.
LEMMA OtherLine ==
  ASSUME Typed, NEW c \in Loaders, NEW d \in Loaders, d # c, Line(c), LoadStep(d)
  PROVE  Line(c)'
  <1>1. [Next]_vars /\ UNCHANGED <<got, clients>>
    BY DEF Next, LoadStep, LoadClose, LoadFlushed, LoadError, LoadRead, LoadReflushed,
         LoadReflushTimeout, LoadDelta, LoadOpen, LoadAnswer, leaderVars
  <1>2. load'[c] = load[c] /\ offset'[c] = offset[c]
    BY DEF LoadStep, LoadClose, LoadFlushed, LoadError, LoadRead, LoadReflushed,
         LoadReflushTimeout, LoadDelta, LoadOpen, LoadAnswer, GotoLoad, Typed, LoadTyped
  <1>3. Replayed(c)' = Replayed(c)
    BY <1>1 DEF Replayed, Events
  <1>4. Sending(c)' = Sending(c)
    <2>1. \/ UNCHANGED out
          \/ out' = Append(out, Response(d))
          \/ \E lines \in Seq(Ids) : out' = out \o Replays(d, lines)
      <3>1. file \in Seq(Ids) /\ SubSeq(file, offset[d] + 1, Len(file)) \in Seq(Ids)
        BY DeltaTyped, LogTypes
      <3>. QED
        BY <3>1 DEF LoadStep, LoadClose, LoadFlushed, LoadError, LoadRead, LoadReflushed,
           LoadReflushTimeout, LoadDelta, LoadOpen, LoadAnswer
    <2>2. Response(d) \in Sends /\ Response(d).kind # "replay"
      BY DEF Response, Sends
    <2>3. CASE UNCHANGED out
      BY <2>3 DEF Sending, ReplaysTo, Events
    <2>. QED
      BY <2>1, <2>2, <2>3, SendingOther, SendingReplays
  <1>. QED
    BY <1>1, <1>2, <1>3, <1>4, LineQuiet

\* What the leader takes in.
LEMMA ReceiveLine ==
  ASSUME Typed, NEW c \in Loaders, Line(c), ServerReceive
  PROVE  Line(c)'
  <1>0. /\ [Next]_vars /\ UNCHANGED <<load, offset, clients, file>>
        /\ out # <<>> /\ out' = Tail(out)
    BY DEF Next, ServerReceive, ServerFanOut, ServerUnicast, ServerRespond, agentVars, diskVars
  <1>1. /\ Head(out) \in Sends
        /\ Sending(c)' \in Seq(Nat)
        /\ Head(out).kind # "replay" \/ Head(out).to # c => Sending(c)' = Sending(c)
        /\ Head(out).kind = "replay" /\ Head(out).to = c => Sending(c) = <<Head(out).seq>> \o Sending(c)'
    BY <1>0, SendingTaken, WireTypes
  <1>2. /\ Replayed(c) \in Seq(Nat) /\ Sending(c) \in Seq(Nat) /\ Lines(c) \in Seq(Nat)
        /\ file \in Seq(Nat) /\ Len(file) \in Nat /\ c \in Clients
        /\ got[c] \in Seq(Entries) /\ got \in [Clients -> Seq(Entries)]
    BY LinesTyped, WireTypes
  <1>3. ASSUME Replayed(c)' = Replayed(c), Sending(c)' = Sending(c)
        PROVE  Line(c)'
    BY <1>0, <1>3, LineQuiet
  <1>4. UNCHANGED got => Replayed(c)' = Replayed(c)
    BY DEF Replayed, Events
  <1>5. got'[c] = got[c] => Replayed(c)' = Replayed(c)
    BY DEF Replayed, Events
  <1>6. CASE ServerFanOut
    <2>1. Head(out).kind = "live"
      BY <1>6 DEF ServerFanOut
    <2> DEFINE m == [seq |-> Head(out).seq, replay |-> FALSE]
    <2>2. got'[c] = got[c] \/ got'[c] = Append(got[c], m)
      BY <1>2, <1>6 DEF ServerFanOut, Sent
    <2>3. m \in Entries /\ ~m.replay
      BY <1>1, <2>1 DEF Sends, Entries
    <2> HIDE DEF m
    <2>4. CASE got'[c] = Append(got[c], m)
      <3> DEFINE one == <<m>>
      <3>1. one \in Seq(Entries) /\ \A i \in 1..Len(one) : ~one[i].replay
        BY <2>3
      <3>2. got'[c] = got[c] \o one
        BY <1>2, <2>3, <2>4, AppendIsConcat
      <3> HIDE DEF one
      <3>3. Replayed(c)' = Replayed(c)
        BY <3>1, <3>2, ReplayedGrows
      <3>. QED
        BY <1>1, <1>3, <2>1, <3>3
    <2>. QED
      BY <1>1, <1>3, <1>5, <2>1, <2>2, <2>4
  <1>7. CASE ServerRespond
    <2>1. Head(out).kind = "response" /\ Head(out).to \in Loaders
      BY <1>1, <1>7 DEF ServerRespond, Sends
    <2>2. got'[c] = got[c] \/ (c \in DOMAIN buffer /\ got'[c] = got[c] \o BufferedTail(c))
      BY <1>2, <1>7 DEF ServerRespond
    <2>3. CASE c \in DOMAIN buffer /\ got'[c] = got[c] \o BufferedTail(c)
      <3> DEFINE t == BufferedTail(c)
      <3>1. /\ t \in Seq(Entries) /\ Len(t) = Len(Newer(c))
            /\ \A i \in 1..Len(Newer(c)) : t[i] = [seq |-> Newer(c)[i], replay |-> FALSE]
        BY <2>3, BufferedTailTyped DEF Typed, ThreadTyped
      <3> HIDE DEF t
      <3>2. \A i \in 1..Len(t) : ~t[i].replay
        <4>1. \A e : ~[seq |-> e, replay |-> FALSE].replay
          OBVIOUS
        <4>2. \A i \in 1..Len(t) : t[i] = [seq |-> Newer(c)[i], replay |-> FALSE]
          BY <3>1
        <4>. QED
          BY ONLY <4>1, <4>2
      <3>3. got'[c] = got[c] \o t
        BY <2>3 DEF t
      <3>4. Replayed(c)' = Replayed(c)
        BY <3>1, <3>2, <3>3, ReplayedGrows
      <3>. QED
        BY <1>1, <1>3, <2>1, <3>4
    <2>. QED
      BY <1>1, <1>3, <1>5, <2>1, <2>2, <2>3
  <1>8. CASE ServerUnicast /\ Head(out).to # c
    <2>1. got'[c] = got[c]
      BY <1>2, <1>8 DEF ServerUnicast
    <2>. QED
      BY <1>1, <1>3, <1>5, <1>8, <2>1
  <1>9. CASE ServerUnicast /\ Head(out).to = c
    <2> DEFINE e == Head(out).seq
               S == Sending(c)'
    <2>1. Head(out).kind = "replay" /\ e \in Ids
      BY <1>1, <1>9 DEF ServerUnicast, Sends
    <2>2. Sending(c) = <<e>> \o S
      BY <1>1, <1>9, <2>1
    <2>3. <<e>> \in Seq(Nat) /\ S \in Seq(Nat)
      <3>2. S \in Seq(Nat)
        BY <1>1
      <3>3. e \in Nat
        BY <2>1, LogTypes
      <3> HIDE DEF e
      <3>. QED
        BY <3>2, <3>3
    <2>4. load[c] \notin Early
      <3> HIDE DEF e, S
      <3>1. <<e>> \o S # <<>>
        <4>1. <<e>> \o S = <<>> => <<e>> = <<>>
          BY <2>3, ConcatEqualIffEmpty
        <4>. QED
          BY <4>1
      <3>. QED
        BY <2>2, <3>1 DEF Line
    <2>5. CASE c \notin clients
      <3>1. UNCHANGED got
        BY <1>9, <2>5 DEF ServerUnicast
      <3>2. Replayed(c)' = Replayed(c)
        BY <1>4, <3>1
      <3>. QED
        BY <1>0, <2>4, <2>5, <3>2 DEF Line, Starts
    <2>6. CASE c \in clients
      <3> DEFINE m == [seq |-> e, replay |-> TRUE]
                 one == <<m>>
                 w == <<e>>
                 R == Replayed(c)
      <3>1. got'[c] = Append(got[c], m)
        BY <1>2, <1>9, <2>6 DEF ServerUnicast, Sent
      <3>2. one \in Seq(Entries) /\ m \in Entries
        BY <2>1 DEF Entries
      <3>3. got'[c] = got[c] \o one
        <4> HIDE DEF m
        <4>. QED
          BY <1>2, <3>1, <3>2, AppendIsConcat
      <3>4. Replayed(c)' = R \o w
        BY <2>1, <3>2, <3>3, ReplayedGrows
      <3> HIDE DEF e, S, m, one, w, R
      <3>5. R \in Seq(Nat) /\ w \in Seq(Nat) /\ S \in Seq(Nat)
        BY <1>2, <2>3 DEF R, w
      <3>6. Lines(c)' = Lines(c)
        <4>1. (R \o w) \o S = R \o (w \o S)
          BY ONLY <3>5, ConcatAssociative
        <4>2. Lines(c)' = (R \o w) \o S
          BY <3>4 DEF Lines, S
        <4>3. Lines(c) = R \o (w \o S)
          BY <2>2 DEF Lines, R, w
        <4>. QED
          BY <4>1, <4>2, <4>3
      <3>7. Starts(R \o w, file)
        <4> DEFINE p == R \o w
        <4>1. p \in Seq(Nat) /\ Lines(c) = p \o S
          <5>1. p \in Seq(Nat)
            BY <3>5, ConcatProperties
          <5>2. Lines(c)' = p \o S
            BY <3>4 DEF Lines, S
          <5>. QED
            BY <3>6, <5>1, <5>2
        <4> HIDE DEF p
        <4>2. Starts(p \o S, file)
          BY <2>6, <4>1 DEF Line
        <4>3. Starts(p, file)
          BY <1>2, <3>5, <4>1, <4>2, StartsFirst
        <4>. QED
          BY <4>3 DEF p
      <3>8. Starts(Replayed(c), file)' /\ Starts(Lines(c), file)'
        BY <1>0, <2>6, <3>4, <3>6, <3>7 DEF Starts, Line
      <3>. QED
        BY <1>0, <2>4, <2>6, <3>6, <3>8 DEF Line
    <2>. QED
      BY <2>5, <2>6
  <1>. QED
    BY <1>6, <1>7, <1>8, <1>9 DEF ServerReceive

ReplayLine == \A c \in Loaders : Line(c)

\* Every step keeps the lines of every load a prefix of the file, ...
LEMMA ReplayLineStep ==
  ASSUME Typed, ReplayLine, [Next]_vars
  PROVE  ReplayLine'
  <1> SUFFICES ASSUME NEW c \in Loaders PROVE Line(c)'
    BY DEF ReplayLine
  <1>1. Line(c)
    BY DEF ReplayLine
  <1>2. ASSUME UNCHANGED <<got, out, offset>>, c \in clients' => c \in clients \/ load[c] = "idle",
               load'[c] = load[c] \/ (load[c] = "idle" /\ load'[c] = "close")
        PROVE  Line(c)'
    <2>1. Replayed(c)' = Replayed(c) /\ Sending(c)' = Sending(c)
      BY <1>2 DEF Replayed, Sending, ReplaysTo, Events
    <2>. QED
      BY <1>1, <1>2, <2>1, LineQuiet DEF Early
  <1>3. CASE StampAcp \/ EmitXai \/ EmitAcp \/ Flush \/ Persist \/ UNCHANGED vars
    <2>1. UNCHANGED <<got, out, offset, clients, load>>
      BY <1>3 DEF StampAcp, EmitXai, EmitAcp, Flush, Persist, loadVars, leaderVars, vars
    <2>. QED
      BY <1>2, <2>1
  <1>4. CASE Forward
    <2>1. UNCHANGED <<got, offset, clients, load>>
      BY <1>4 DEF Forward, loadVars, leaderVars
    <2>2. UNCHANGED out \/ out' = Append(out, Live(emitting))
      BY <1>4 DEF Forward
    <2>3. CASE out' = Append(out, Live(emitting))
      <3>1. Live(emitting) \in Sends /\ Live(emitting).kind # "replay"
        <4>1. emitting \in Ids
          BY <1>4, LogTypes DEF Forward, Ids
        <4>. QED
          BY <4>1 DEF Live, Sends
      <3>2. Sending(c)' = Sending(c)
        BY <2>3, <3>1, SendingOther
      <3>3. Replayed(c)' = Replayed(c)
        BY <2>1 DEF Replayed, Events
      <3>. QED
        BY <1>1, <2>1, <3>2, <3>3, LineQuiet
    <2>. QED
      BY <1>2, <2>1, <2>2, <2>3
  <1>5. ASSUME NEW d \in Loaders, LoadStep(d)
        PROVE  Line(c)'
    BY <1>1, <1>5, LoadLine, OtherLine
  <1>6. ASSUME NEW d \in Loaders, ServerLoad(d)
        PROVE  Line(c)'
    <2>1. /\ UNCHANGED <<got, out, offset>> /\ clients' = clients \union {d}
          /\ load[d] = "idle" /\ GotoLoad(d, "close")
      BY <1>6 DEF ServerLoad, agentVars
    <2>2. load'[c] = load[c] \/ (load[c] = "idle" /\ load'[c] = "close")
      BY <2>1 DEF GotoLoad, Typed, LoadTyped
    <2>. QED
      BY <1>2, <2>1, <2>2
  <1>7. ASSUME NEW d \in Loaders, ServerDisconnected(d)
        PROVE  Line(c)'
    BY <1>2, <1>7 DEF ServerDisconnected, agentVars
  <1>. QED
    BY <1>1, <1>3, <1>4, <1>5, <1>6, <1>7, ReceiveLine DEF Next, SessionStep

\* ... as they are at the start, ...
LEMMA ReplayLineInit ==
  ASSUME Init
  PROVE  ReplayLine
  <1>1. /\ out = <<>> /\ file = <<>> /\ clients = {Creator} /\ Loaders \subseteq Clients
        /\ \A c \in Clients : got[c] = <<>>
    BY DEF Init, Clients
  <1>2. \A S : Kept(<<>>, S) = <<>>
    <2>1. <<>> \in Seq(Nat) /\ \A S : \A i \in 1..Len(<<>>) : <<>>[i] \notin S
      OBVIOUS
    <2>. QED
      BY <2>1, KeptNothing
  <1>3. Seqs(<<>>) = <<>>
    BY DEF Seqs
  <1>4. \A c \in Loaders : Replayed(c) = <<>> /\ Sending(c) = <<>>
    BY <1>1, <1>2, <1>3 DEF Replayed, Sending
  <1>5. Starts(<<>>, <<>>)
    BY DEF Starts
  <1>. QED
    BY <1>1, <1>4, <1>5, LoadAssumption DEF ReplayLine, Line

\* ... and that is what the run checks.
LEMMA ReplayLinePrefix ==
  ASSUME Typed, ReplayLine
  PROVE  ReplayIsPrefix
  BY LinesTyped, StartsIsPrefix DEF ReplayIsPrefix, ReplayLine, Line

-----------------------------------------------------------------------------
(* Which events a load has replayed, by position.                           *)

HasReplay(c, e) == \E i \in DOMAIN got[c] : got[c][i].replay /\ got[c][i].seq = e
InFlight(c, e) == \E i \in DOMAIN out : IsReplay(out[i], c) /\ out[i].seq = e
InLine(c, e) == HasReplay(c, e) \/ InFlight(c, e)

\* Those are the ids in Replayed and Lines.
LEMMA ReplayedIds ==
  ASSUME Typed, NEW c \in Loaders
  PROVE  \A e : HasReplay(c, e) <=> \E i \in 1..Len(Replayed(c)) : Replayed(c)[i] = e
  <1> DEFINE g == got[c]
             k == Kept(g, Received)
  <1>1. g \in Seq(Entries) /\ DOMAIN g = 1..Len(g) /\ k \in Seq(Entries)
        /\ \A i \in 1..Len(g) : g[i] \in Entries
    BY WireTypes, LinesTyped
  <1>2. PICK at : Selects(at, k, g, Len(g), Received)
    BY <1>1, KeptSelects
  <1>3. Replayed(c) = Seqs(k)
    BY DEF Replayed, Received
  <1>4. \A i \in 1..Len(k) : k[i].seq \in Nat
    <2>1. \A m \in Entries : m.seq \in Nat
      BY LogTypes DEF Entries
    <2> HIDE DEF k
    <2>. QED
      BY <1>1, <2>1
  <1>5. SeqsOf(k)
    BY <1>1, <1>4, SeqsTyped
  <1>6. \A i \in 1..Len(g) : g[i].replay <=> g[i] \in Received
    BY <1>1, IsSending
  <1>7. \A e : HasReplay(c, e) <=> \E i \in 1..Len(g) : g[i].replay /\ g[i].seq = e
    BY <1>1 DEF HasReplay
  <1> HIDE DEF k, g
  <1>8. ASSUME NEW i \in 1..Len(g), g[i].replay
        PROVE  \E j \in 1..Len(k) : k[j] = g[i]
    BY <1>2, <1>6, <1>8 DEF Selects
  <1>9. \A j \in 1..Len(k) : \E i \in 1..Len(g) : g[i].replay /\ g[i] = k[j]
    BY <1>2, <1>6 DEF Selects
  <1>10. \A e : HasReplay(c, e) <=> \E j \in 1..Len(k) : k[j].seq = e
    <2> TAKE e
    <2>1. ASSUME HasReplay(c, e) PROVE \E j \in 1..Len(k) : k[j].seq = e
      <3>1. PICK i \in 1..Len(g) : g[i].replay /\ g[i].seq = e
        BY <1>7, <2>1
      <3>2. PICK j \in 1..Len(k) : k[j] = g[i]
        BY <1>8, <3>1
      <3>. QED
        BY <3>1, <3>2
    <2>2. ASSUME NEW j \in 1..Len(k), k[j].seq = e PROVE HasReplay(c, e)
      <3>1. PICK i \in 1..Len(g) : g[i].replay /\ g[i] = k[j]
        BY <1>9
      <3>. QED
        BY <1>7, <2>2, <3>1
    <2>. QED
      BY <2>1, <2>2
  <1>. QED
    BY <1>3, <1>5, <1>10 DEF SeqsOf

\* The ids on their way, ...
LEMMA SendingIds ==
  ASSUME Typed, NEW c \in Loaders
  PROVE  \A e : InFlight(c, e) <=> \E i \in 1..Len(Sending(c)) : Sending(c)[i] = e
  <1> DEFINE k == Kept(out, ReplaysTo(c))
  <1>1. /\ out \in Seq(Sends) /\ DOMAIN out = 1..Len(out) /\ k \in Seq(Sends)
        /\ \A i \in 1..Len(out) : out[i] \in Sends
    BY WireTypes, LinesTyped
  <1>2. PICK at : Selects(at, k, out, Len(out), ReplaysTo(c))
    BY <1>1, KeptSelects
  <1>3. Sending(c) = Seqs(k)
    BY DEF Sending
  <1> HIDE DEF k
  <1>4. \A i \in 1..Len(k) : k[i].seq \in Nat
    <2>1. \A m \in ReplaysTo(c) : m.seq \in Nat
      BY DEF ReplaysTo, Events
    <2>. QED
      BY <1>2, <2>1 DEF Selects
  <1>5. SeqsOf(k)
    BY <1>1, <1>4, SeqsTyped
  <1>6. \A i \in 1..Len(out) : IsReplay(out[i], c) <=> out[i] \in ReplaysTo(c)
    BY <1>1, IsSending DEF IsReplay
  <1>8. ASSUME NEW i \in 1..Len(out), IsReplay(out[i], c)
        PROVE  \E j \in 1..Len(k) : k[j] = out[i]
    BY <1>2, <1>6, <1>8 DEF Selects
  <1>9. \A j \in 1..Len(k) : \E i \in 1..Len(out) : IsReplay(out[i], c) /\ out[i] = k[j]
    BY <1>2, <1>6 DEF Selects
  <1>10. \A e : InFlight(c, e) <=> \E j \in 1..Len(k) : k[j].seq = e
    BY <1>1, <1>8, <1>9 DEF InFlight
  <1>. QED
    BY <1>3, <1>5, <1>10 DEF SeqsOf

\* ... and those of both.
LEMMA LineIds ==
  ASSUME Typed, NEW c \in Loaders
  PROVE  \A e : InLine(c, e) <=> \E i \in 1..Len(Lines(c)) : Lines(c)[i] = e
  <1> DEFINE r == Replayed(c)
             s == Sending(c)
             l == r \o s
  <1>1. r \in Seq(Nat) /\ s \in Seq(Nat)
    BY LinesTyped
  <1>2. \A e : InLine(c, e) <=> \/ \E i \in 1..Len(r) : r[i] = e
                                \/ \E i \in 1..Len(s) : s[i] = e
    BY ReplayedIds, SendingIds DEF InLine
  <1> HIDE DEF r, s
  <1>3. /\ Len(l) = Len(r) + Len(s) /\ Len(r) \in Nat /\ Len(s) \in Nat
        /\ \A i \in 1..Len(r) : l[i] = r[i]
        /\ \A i \in 1..Len(s) : l[Len(r) + i] = s[i]
    BY <1>1
  <1> HIDE DEF l
  <1>4. \A i \in 1..Len(r) : i \in 1..Len(l)
    BY <1>3
  <1>5. \A i \in 1..Len(s) : Len(r) + i \in 1..Len(l)
    BY <1>3
  <1>6. \A i \in 1..Len(l) : i \in 1..Len(r) \/ (i - Len(r) \in 1..Len(s) /\ Len(r) + (i - Len(r)) = i)
    BY <1>3
  <1>7. \A e : (\E i \in 1..Len(l) : l[i] = e) <=> \/ \E i \in 1..Len(r) : r[i] = e
                                                   \/ \E i \in 1..Len(s) : s[i] = e
    <2>1. \A i \in 1..Len(r) : l[i] = r[i]
      BY <1>3
    <2>2. \A i \in 1..Len(s) : l[Len(r) + i] = s[i]
      BY <1>3
    <2>3. \A i \in 1..Len(l) : \/ i \in 1..Len(r) /\ l[i] = r[i]
                               \/ i - Len(r) \in 1..Len(s) /\ l[i] = s[i - Len(r)]
      BY <1>6, <2>1, <2>2
    <2>. QED
      BY ONLY <1>4, <1>5, <2>1, <2>2, <2>3
  <1>. QED
    BY <1>2, <1>7 DEF l, r, s, Lines

\* What a connected client is replayed is in the file.
LEMMA LineWritten ==
  ASSUME Typed, NEW c \in Loaders, Line(c), NEW e
  PROVE  /\ HasReplay(c, e) => Written(e)
         /\ c \in clients /\ InLine(c, e) => Written(e)
  <1>1. DOMAIN file = 1..Len(file) /\ Len(file) \in Nat
    BY LinesTyped
  <1>2. Replayed(c) \in Seq(Nat) /\ Lines(c) \in Seq(Nat)
    BY LinesTyped
  <1> DEFINE r == Replayed(c)
             l == Lines(c)
  <1>3. /\ \A x : HasReplay(c, x) <=> \E i \in 1..Len(r) : r[i] = x
        /\ \A x : InLine(c, x) <=> \E i \in 1..Len(l) : l[i] = x
        /\ Starts(r, file) /\ (c \in clients => Starts(l, file))
    BY ReplayedIds, LineIds DEF Line
  <1>4. Len(r) \in Nat /\ Len(l) \in Nat
    BY <1>2
  <1> HIDE DEF r, l
  <1>. QED
    BY <1>1, <1>3, <1>4 DEF Starts, Written

\* What is replayed is not replayed again, and nothing is added to it but by the
\* load itself.
LEMMA InLineStays ==
  ASSUME Typed, NEW c \in Loaders, NEW e, [Next]_vars, ~LoadRead(c), ~LoadDelta(c),
         InLine(c, e)'
  PROVE  InLine(c, e)
  <1>1. CASE UNCHANGED <<got, out>>
    BY <1>1 DEF InLine, HasReplay, InFlight, IsReplay
  <1>2. CASE StampAcp \/ EmitXai \/ EmitAcp \/ Flush \/ Persist \/ UNCHANGED vars
    BY <1>1, <1>2 DEF StampAcp, EmitXai, EmitAcp, Flush, Persist, leaderVars, vars
  <1>3. ASSUME NEW d \in Loaders, ServerLoad(d) \/ ServerDisconnected(d)
        PROVE  InLine(c, e)
    BY <1>1, <1>3 DEF ServerLoad, ServerDisconnected
  <1>4. ASSUME NEW m \in Sends, ~IsReplay(m, c), out' = Append(out, m), UNCHANGED got
        PROVE  InLine(c, e)
    <2>1. Adds(out', out, m)
      BY <1>4, Added, WireTypes
    <2>. QED
      BY <1>4, <2>1 DEF Adds, InLine, HasReplay, InFlight, IsReplay
  <1>5. CASE Forward
    <2>1. Live(emitting) \in Sends /\ ~IsReplay(Live(emitting), c)
      <3>1. emitting \in Ids
        BY <1>5, LogTypes DEF Forward, Ids
      <3>. QED
        BY <3>1 DEF Live, Sends, IsReplay
    <2>2. UNCHANGED got /\ (UNCHANGED out \/ out' = Append(out, Live(emitting)))
      BY <1>5 DEF Forward, leaderVars
    <2>. QED
      BY <1>1, <1>4, <2>1, <2>2
  <1>6. ASSUME NEW d \in Loaders, LoadStep(d)
        PROVE  InLine(c, e)
    <2>1. UNCHANGED got
      BY <1>6 DEF LoadStep, LoadClose, LoadFlushed, LoadError, LoadRead, LoadReflushed,
       LoadReflushTimeout, LoadDelta, LoadOpen, LoadAnswer, leaderVars
    <2>2. \/ UNCHANGED out
          \/ out' = Append(out, Response(d))
          \/ d # c /\ \E lines \in Seq(Ids) : out' = out \o Replays(d, lines)
      <3>1. file \in Seq(Ids) /\ SubSeq(file, offset[d] + 1, Len(file)) \in Seq(Ids)
        BY DeltaTyped, LogTypes
      <3>2. CASE LoadRead(d)
        BY <3>1, <3>2 DEF LoadRead
      <3>3. CASE LoadDelta(d)
        BY <3>1, <3>3 DEF LoadDelta
      <3>. QED
        BY <1>6, <3>2, <3>3 DEF LoadStep, LoadClose, LoadFlushed, LoadError, LoadReflushed,
           LoadReflushTimeout, LoadOpen, LoadAnswer
    <2>3. Response(d) \in Sends /\ ~IsReplay(Response(d), c)
      BY DEF Response, Sends, IsReplay
    <2>4. ASSUME d # c, NEW lines \in Seq(Ids), out' = out \o Replays(d, lines)
          PROVE  InLine(c, e)
      <3> DEFINE s == Replays(d, lines)
      <3>1. /\ s \in Seq(Sends) /\ Len(s) = Len(lines)
            /\ \A i \in 1..Len(s) : ~IsReplay(s[i], c)
        <4>1. \A f : ~IsReplay(Replay(d, f), c)
          BY <2>4 DEF Replay, IsReplay
        <4>. QED
          BY <4>1, ReplaysTyped
      <3>2. out' = out \o s /\ out \in Seq(Sends)
        BY <2>4, WireTypes
      <3> HIDE DEF s
      <3>3. /\ DOMAIN out = 1..Len(out) /\ Len(out) \in Nat /\ Len(s) \in Nat
            /\ DOMAIN out' = 1..(Len(out) + Len(s))
            /\ \A i \in 1..Len(out) : out'[i] = out[i]
            /\ \A i \in 1..(Len(out) + Len(s)) : i > Len(out) => out'[i] = s[i - Len(out)]
        BY <3>1, <3>2
      <3>4. \A i \in DOMAIN out' : i \in DOMAIN out \/ (i > Len(out) /\ i - Len(out) \in 1..Len(s))
        BY <3>3
      <3>5. \A i \in DOMAIN out' : IsReplay(out'[i], c) => i \in DOMAIN out /\ out'[i] = out[i]
        BY <3>1, <3>3, <3>4
      <3>. QED
        BY <2>1, <3>5 DEF InLine, HasReplay, InFlight, IsReplay
    <2>. QED
      BY <1>1, <1>4, <2>1, <2>2, <2>3, <2>4
  <1>7. CASE ServerReceive
    <2>1. out # <<>> /\ out' = Tail(out)
      BY <1>7 DEF ServerReceive, ServerFanOut, ServerUnicast, ServerRespond
    <2>2. Takes(out', out) /\ Head(out) \in Sends /\ Head(out) = out[1] /\ 1 \in DOMAIN out
      <3>1. Takes(out', out) /\ Head(out) \in Sends
        BY <2>1, Taken, WireTypes
      <3>. QED
        BY <3>1 DEF Takes
    <2>3. InFlight(c, e)' => InFlight(c, e)
      BY <2>2 DEF Takes, InFlight, IsReplay
    <2>4. /\ got \in [Clients -> Seq(Entries)] /\ c \in Clients /\ got[c] \in Seq(Entries)
      BY WireTypes
    <2>5. ASSUME NEW m \in Entries, got'[c] = Append(got[c], m)
          PROVE  HasReplay(c, e)' => HasReplay(c, e) \/ (m.replay /\ m.seq = e)
      <3>1. Adds(got'[c], got[c], m)
        BY <2>4, <2>5, Added
      <3>. QED
        BY <3>1 DEF Adds, HasReplay
    <2>6. got'[c] = got[c] => (HasReplay(c, e)' => HasReplay(c, e))
      BY DEF HasReplay
    <2>7. CASE ServerFanOut
      <3> DEFINE m == [seq |-> Head(out).seq, replay |-> FALSE]
      <3>1. got'[c] = got[c] \/ got'[c] = Append(got[c], m)
        BY <2>4, <2>7 DEF ServerFanOut, Sent
      <3>2. m \in Entries /\ ~m.replay
        BY <2>2, <2>7 DEF ServerFanOut, Sends, Entries
      <3> HIDE DEF m
      <3>. QED
        BY <2>3, <2>5, <2>6, <3>1, <3>2 DEF InLine
    <2>8. CASE ServerUnicast
      <3> DEFINE m == [seq |-> Head(out).seq, replay |-> TRUE]
      <3>1. got'[c] = got[c] \/ (Head(out).to = c /\ got'[c] = Append(got[c], m))
        BY <2>4, <2>8 DEF ServerUnicast, Sent
      <3>2. m \in Entries /\ m.seq = Head(out).seq
        BY <2>2, <2>8 DEF ServerUnicast, Sends, Entries
      <3>3. Head(out).to = c => InFlight(c, Head(out).seq)
        BY <2>2, <2>8 DEF ServerUnicast, InFlight, IsReplay
      <3> HIDE DEF m
      <3>. QED
        BY <2>3, <2>5, <2>6, <3>1, <3>2, <3>3 DEF InLine
    <2>9. CASE ServerRespond
      <3>1. got'[c] = got[c] \/ (c \in DOMAIN buffer /\ got'[c] = got[c] \o BufferedTail(c))
        BY <2>4, <2>9 DEF ServerRespond
      <3>2. CASE c \in DOMAIN buffer /\ got'[c] = got[c] \o BufferedTail(c)
        <4> DEFINE t == BufferedTail(c)
        <4>1. /\ t \in Seq(Entries) /\ Len(t) = Len(Newer(c))
              /\ \A i \in 1..Len(Newer(c)) : t[i] = [seq |-> Newer(c)[i], replay |-> FALSE]
          BY <3>2, BufferedTailTyped DEF Typed, ThreadTyped
        <4> HIDE DEF t
        <4>2. \A i \in 1..Len(t) : ~t[i].replay
          <5>1. \A f : ~[seq |-> f, replay |-> FALSE].replay
            OBVIOUS
          <5>2. \A i \in 1..Len(t) : t[i] = [seq |-> Newer(c)[i], replay |-> FALSE]
            BY <4>1
          <5>. QED
            BY ONLY <5>1, <5>2
        <4> DEFINE g == got[c]
                   q == got'[c]
        <4>3. q = g \o t /\ g \in Seq(Entries)
          BY <2>4, <3>2 DEF t
        <4> HIDE DEF g, q
        <4>4. /\ DOMAIN g = 1..Len(g) /\ Len(g) \in Nat /\ Len(t) \in Nat
              /\ DOMAIN q = 1..(Len(g) + Len(t))
              /\ \A i \in 1..Len(g) : q[i] = g[i]
              /\ \A i \in 1..(Len(g) + Len(t)) : i > Len(g) => q[i] = t[i - Len(g)]
          <5>1. t \in Seq(Entries) /\ q = g \o t /\ g \in Seq(Entries)
            BY <4>1, <4>3
          <5>. QED
            BY ONLY <5>1
        <4>5. \A i \in DOMAIN q : i \in DOMAIN g \/ (i > Len(g) /\ i - Len(g) \in 1..Len(t))
          BY <4>4
        <4>6. \A i \in DOMAIN q : q[i].replay => i \in DOMAIN g /\ q[i] = g[i]
          BY <4>2, <4>4, <4>5
        <4>. QED
          BY <2>3, <4>6 DEF InLine, HasReplay, g, q
      <3>. QED
        BY <2>3, <2>6, <3>1, <3>2 DEF InLine
    <2>. QED
      BY <1>7, <2>7, <2>8, <2>9 DEF ServerReceive
  <1>. QED
    BY <1>2, <1>3, <1>5, <1>6, <1>7 DEF Next, SessionStep

-----------------------------------------------------------------------------
(* What a client can be sent in a step.                                     *)

NewEntry(c, m) ==
  \/ /\ ServerFanOut /\ c \in clients /\ ~Holds(c)
     /\ ~m.replay /\ m.seq = Head(out).seq
  \/ /\ ServerUnicast /\ Head(out).to = c /\ c \in clients
     /\ m.replay /\ m.seq = Head(out).seq
  \/ /\ ServerRespond /\ Head(out).to = c /\ c \in DOMAIN buffer
     /\ ~m.replay /\ \E k \in 1..Len(Newer(c)) : m.seq = Newer(c)[k]

GotStep(c) ==
  /\ \A i \in DOMAIN got[c] : i \in DOMAIN got'[c] /\ got'[c][i] = got[c][i]
  /\ \A i \in DOMAIN got'[c] : \/ i \in DOMAIN got[c]
                               \/ NewEntry(c, got'[c][i]) /\ \A j \in DOMAIN got[c] : j < i

\* A client is only ever sent more.
LEMMA GotSteps ==
  ASSUME Typed, [Next]_vars, NEW c \in Clients
  PROVE  GotStep(c)
  <1>0. got \in [Clients -> Seq(Entries)] /\ got[c] \in Seq(Entries)
    BY WireTypes
  <1>1. CASE got'[c] = got[c]
    BY <1>1 DEF GotStep
  <1>2. ASSUME ~ServerReceive
        PROVE  UNCHANGED got
    BY <1>2 DEF Next, SessionStep, StampAcp, EmitXai, EmitAcp, Forward, Flush, Persist,
       leaderVars, vars, ServerLoad, ServerDisconnected, LoadStep, LoadClose, LoadFlushed,
       LoadError, LoadRead, LoadReflushed, LoadReflushTimeout, LoadDelta, LoadOpen, LoadAnswer
  <1>3. ASSUME NEW m \in Entries, got'[c] = Append(got[c], m), NewEntry(c, m)
        PROVE  GotStep(c)
    <2>1. Adds(got'[c], got[c], m)
      BY <1>0, <1>3, Added
    <2>. QED
      BY <1>3, <2>1 DEF Adds, GotStep
  <1>4. ASSUME ServerReceive PROVE Head(out) \in Sends
    <2>1. out # <<>>
      BY <1>4 DEF ServerReceive, ServerFanOut, ServerUnicast, ServerRespond
    <2>. QED
      BY <2>1, WireTypes
  <1>5. CASE ServerFanOut
    <2> DEFINE m == [seq |-> Head(out).seq, replay |-> FALSE]
    <2>1. got'[c] = got[c] \/ (c \in clients /\ ~Holds(c) /\ got'[c] = Append(got[c], m))
      BY <1>0, <1>5 DEF ServerFanOut, Sent
    <2>2. m \in Entries /\ ~m.replay /\ m.seq = Head(out).seq
      BY <1>4, <1>5 DEF ServerReceive, ServerFanOut, Sends, Entries
    <2> HIDE DEF m
    <2>. QED
      BY <1>1, <1>3, <1>5, <2>1, <2>2 DEF NewEntry
  <1>6. CASE ServerUnicast
    <2> DEFINE m == [seq |-> Head(out).seq, replay |-> TRUE]
    <2>1. \/ got'[c] = got[c]
          \/ Head(out).to = c /\ c \in clients /\ got'[c] = Append(got[c], m)
      BY <1>0, <1>6 DEF ServerUnicast, Sent
    <2>2. m \in Entries /\ m.replay /\ m.seq = Head(out).seq
      BY <1>4, <1>6 DEF ServerReceive, ServerUnicast, Sends, Entries
    <2> HIDE DEF m
    <2>. QED
      BY <1>1, <1>3, <1>6, <2>1, <2>2 DEF NewEntry
  <1>7. CASE ServerRespond
    <2>1. \/ got'[c] = got[c]
          \/ Head(out).to = c /\ c \in DOMAIN buffer /\ got'[c] = got[c] \o BufferedTail(c)
      BY <1>0, <1>7 DEF ServerRespond
    <2>2. CASE Head(out).to = c /\ c \in DOMAIN buffer /\ got'[c] = got[c] \o BufferedTail(c)
      <3> DEFINE t == BufferedTail(c)
                 g == got[c]
                 q == got'[c]
      <3>1. /\ t \in Seq(Entries) /\ Len(t) = Len(Newer(c))
            /\ \A i \in 1..Len(Newer(c)) : t[i] = [seq |-> Newer(c)[i], replay |-> FALSE]
        BY <2>2, BufferedTailTyped DEF Typed, ThreadTyped
      <3> HIDE DEF t
      <3>2. \A i \in 1..Len(t) : ~t[i].replay /\ t[i].seq = Newer(c)[i] /\ i \in 1..Len(Newer(c))
        <4>1. \A f : ~[seq |-> f, replay |-> FALSE].replay /\ [seq |-> f, replay |-> FALSE].seq = f
          OBVIOUS
        <4>2. \A i \in 1..Len(t) : /\ t[i] = [seq |-> Newer(c)[i], replay |-> FALSE]
                                   /\ i \in 1..Len(Newer(c))
          BY <3>1
        <4>. QED
          BY ONLY <4>1, <4>2
      <3>3. q = g \o t /\ g \in Seq(Entries)
        BY <1>0, <2>2 DEF t
      <3>4. \A m : (~m.replay /\ \E k \in 1..Len(Newer(c)) : m.seq = Newer(c)[k]) => NewEntry(c, m)
        BY <1>7, <2>2 DEF NewEntry
      <3> HIDE DEF g, q
      <3>5. /\ DOMAIN g = 1..Len(g) /\ Len(g) \in Nat /\ Len(t) \in Nat
            /\ DOMAIN q = 1..(Len(g) + Len(t))
            /\ \A i \in 1..Len(g) : q[i] = g[i]
            /\ \A i \in 1..(Len(g) + Len(t)) : i > Len(g) => q[i] = t[i - Len(g)]
        <4>1. t \in Seq(Entries) /\ q = g \o t /\ g \in Seq(Entries)
          BY <3>1, <3>3
        <4>. QED
          BY ONLY <4>1
      <3>6. \A i \in DOMAIN q :
              \/ i \in DOMAIN g
              \/ i > Len(g) /\ i - Len(g) \in 1..Len(t) /\ q[i] = t[i - Len(g)]
        BY <3>5
      <3>7. \A i \in DOMAIN q : \/ i \in DOMAIN g
                                \/ NewEntry(c, q[i]) /\ \A j \in DOMAIN g : j < i
        <4> SUFFICES ASSUME NEW i \in DOMAIN q, i \notin DOMAIN g
                     PROVE  NewEntry(c, q[i]) /\ \A j \in DOMAIN g : j < i
          OBVIOUS
        <4>1. i > Len(g) /\ i - Len(g) \in 1..Len(t) /\ q[i] = t[i - Len(g)] /\ i \in Nat
          BY <3>5, <3>6
        <4>2. \A j \in DOMAIN g : j < i
          BY <3>5, <4>1
        <4>3. ~q[i].replay /\ \E k \in 1..Len(Newer(c)) : q[i].seq = Newer(c)[k]
          BY <3>2, <4>1
        <4>. QED
          BY <3>4, <4>2, <4>3
      <3>8. \A i \in DOMAIN g : i \in DOMAIN q /\ q[i] = g[i]
        BY <3>5
      <3>. QED
        BY <3>7, <3>8 DEF GotStep, g, q
    <2>. QED
      BY <1>1, <2>1, <2>2
  <1>. QED
    BY <1>1, <1>2, <1>5, <1>6, <1>7 DEF ServerReceive

-----------------------------------------------------------------------------
(* The cutoff.                                                              *)

\* While a load is under way its cutoff is the largest id the client was replayed.
Cut(c) ==
  c \in DOMAIN buffer =>
    /\ \A i \in DOMAIN got[c] :
         got[c][i].replay => c \in DOMAIN maxSeq /\ got[c][i].seq <= maxSeq[c]
    /\ c \in DOMAIN maxSeq => HasReplay(c, maxSeq[c])
Cutoff == \A c \in Loaders : Cut(c)

\* The creator is replayed nothing.
CreatorLive == \A i \in DOMAIN got[Creator] : ~got[Creator][i].replay

\* Nobody loads for the creator.
LEMMA CreatorLiveStep ==
  ASSUME Typed, CreatorLive, [Next]_vars
  PROVE  CreatorLive'
  <1>1. GotStep(Creator)
    BY GotSteps DEF Clients
  <1>2. \A m : NewEntry(Creator, m) => ~m.replay
    <2>1. ServerUnicast => Head(out).to # Creator
      <3>1. ServerUnicast => Head(out) \in Sends /\ Head(out).kind = "replay"
        BY WireTypes DEF ServerUnicast
      <3>. QED
        BY <3>1, LoadAssumption DEF Sends
    <2>. QED
      BY <2>1 DEF NewEntry
  <1>. QED
    BY <1>1, <1>2 DEF GotStep, CreatorLive

\* The cutoff is raised by every replayed event, and taken away with the load.
LEMMA CutoffStep ==
  ASSUME Typed, Wire, Tables, NotThere, Cutoff, [Next]_vars
  PROVE  Cutoff'
  <1> SUFFICES ASSUME NEW c \in Loaders, c \in DOMAIN buffer'
               PROVE  /\ \A i \in DOMAIN got'[c] : got'[c][i].replay =>
                           c \in DOMAIN maxSeq' /\ got'[c][i].seq <= maxSeq'[c]
                      /\ c \in DOMAIN maxSeq' => \E i \in DOMAIN got'[c] :
                           got'[c][i].replay /\ got'[c][i].seq = maxSeq'[c]
    BY DEF Cutoff, Cut, HasReplay
  <1>0. c \in Clients /\ GotStep(c)
    BY GotSteps, WireTypes
  <1>1. c \in DOMAIN buffer =>
         /\ \A i \in DOMAIN got[c] :
              got[c][i].replay => c \in DOMAIN maxSeq /\ got[c][i].seq <= maxSeq[c]
         /\ c \in DOMAIN maxSeq => \E i \in DOMAIN got[c] :
              got[c][i].replay /\ got[c][i].seq = maxSeq[c]
    BY DEF Cutoff, Cut, HasReplay
  <1>2. ASSUME c \in DOMAIN buffer, c \in DOMAIN maxSeq' <=> c \in DOMAIN maxSeq,
               c \in DOMAIN maxSeq => maxSeq'[c] = maxSeq[c], \A m : NewEntry(c, m) => ~m.replay
        PROVE  /\ \A i \in DOMAIN got'[c] : got'[c][i].replay =>
                    c \in DOMAIN maxSeq' /\ got'[c][i].seq <= maxSeq'[c]
               /\ c \in DOMAIN maxSeq' => \E i \in DOMAIN got'[c] :
                    got'[c][i].replay /\ got'[c][i].seq = maxSeq'[c]
    BY <1>0, <1>1, <1>2 DEF GotStep
  <1>3. CASE ServerUnicast
    <2>0. out # <<>> /\ Head(out) \in Sends /\ Head(out).kind = "replay" /\ UNCHANGED buffer
      BY <1>3, WireTypes DEF ServerUnicast
    <2>1. \A m : ~(ServerFanOut /\ m = m) /\ ~ServerRespond
      BY <2>0 DEF ServerFanOut, ServerRespond
    <2> DEFINE d == Head(out).to
               e == Head(out).seq
    <2>2. CASE d # c \/ d \notin clients
      <3>1. \A m : NewEntry(c, m) => ~m.replay
        BY <2>1, <2>2 DEF NewEntry
      <3>2. /\ c \in DOMAIN maxSeq' <=> c \in DOMAIN maxSeq
            /\ c \in DOMAIN maxSeq => maxSeq'[c] = maxSeq[c]
        <4>1. CASE d \notin clients
          <5>1. maxSeq' = maxSeq
            BY <1>3, <4>1 DEF ServerUnicast
          <5>. QED
            BY <5>1
        <4>2. CASE d \in clients /\ d # c
          <5>1. maxSeq' = With(maxSeq, d, IF d \in DOMAIN maxSeq /\ maxSeq[d] > e
                                          THEN maxSeq[d] ELSE e)
            BY <1>3, <4>2 DEF ServerUnicast
          <5> HIDE DEF d, e
          <5>. QED
            BY <4>2, <5>1 DEF With
        <4>. QED
          BY <2>2, <4>1, <4>2
      <3>. QED
        BY <1>2, <2>0, <3>1, <3>2
    <2>3. CASE d = c /\ d \in clients
      <3>1. /\ c \in DOMAIN maxSeq'
            /\ maxSeq'[c] = IF c \in DOMAIN maxSeq /\ maxSeq[c] > e THEN maxSeq[c] ELSE e
        BY <1>3, <2>3 DEF ServerUnicast, With
      <3>2. e \in Nat /\ (c \in DOMAIN maxSeq => maxSeq[c] \in Nat)
            /\ \A i \in DOMAIN got[c] : got[c][i].seq \in Nat
        <4>1. e \in Ids
          BY <2>0 DEF Sends
        <4>2. \A f \in Ids : f \in Nat
          BY LogTypes
        <4>3. (c \in DOMAIN maxSeq => maxSeq[c] \in Ids) /\ \A i \in DOMAIN got[c] : got[c][i].seq \in Ids
          BY WireTypes
        <4>. QED
          BY <4>1, <4>2, <4>3
      <3>3. c \in DOMAIN buffer
        BY <2>0
      <3>4. \A m : NewEntry(c, m) => m.replay /\ m.seq = e
        BY <2>1 DEF NewEntry
      <3>5. \E i \in DOMAIN got'[c] : got'[c][i].replay /\ got'[c][i].seq = e
        <4> DEFINE m == [seq |-> e, replay |-> TRUE]
        <4>1. got'[c] = Append(got[c], m)
          BY <1>0, <1>3, <2>3, WireTypes DEF ServerUnicast, Sent
        <4>2. m \in Entries /\ m.replay /\ m.seq = e
          BY <2>0 DEF Sends, Entries
        <4> HIDE DEF m, e
        <4>3. Adds(got'[c], got[c], m)
          BY <1>0, <4>1, <4>2, Added, WireTypes
        <4>. QED
          BY <4>2, <4>3 DEF Adds
      <3> HIDE DEF e, d
      <3>6. \A i \in DOMAIN got'[c] : got'[c][i].replay =>
               \/ i \in DOMAIN got[c] /\ got'[c][i] = got[c][i]
               \/ got'[c][i].seq = e
        BY <1>0, <3>4 DEF GotStep
      <3>7. \A i \in DOMAIN got'[c] : got'[c][i].replay => got'[c][i].seq <= maxSeq'[c]
        BY <1>1, <3>1, <3>2, <3>3, <3>6
      <3>8. \E i \in DOMAIN got'[c] : got'[c][i].replay /\ got'[c][i].seq = maxSeq'[c]
        BY <1>0, <1>1, <3>1, <3>3, <3>5 DEF GotStep
      <3>. QED
        BY <3>1, <3>7, <3>8
    <2>. QED
      BY <2>2, <2>3
  <1>4. CASE ServerFanOut
    <2>1. c \in DOMAIN buffer /\ UNCHANGED maxSeq /\ Head(out).kind = "live"
      BY <1>4 DEF ServerFanOut
    <2>2. \A m : NewEntry(c, m) => ~m.replay
      BY <2>1 DEF NewEntry, ServerUnicast
    <2>. QED
      BY <1>2, <2>1, <2>2
  <1>5. CASE ServerRespond
    <2> DEFINE d == Head(out).to
    <2>1. Head(out).kind = "response"
      BY <1>5 DEF ServerRespond
    <2>2. \A m : NewEntry(c, m) => ~m.replay
      BY <2>1 DEF NewEntry, ServerUnicast
    <2>3. c \in DOMAIN buffer /\ (c \in DOMAIN maxSeq' <=> c \in DOMAIN maxSeq)
          /\ (c \in DOMAIN maxSeq => maxSeq'[c] = maxSeq[c])
      <3>1. CASE d \in DOMAIN buffer
        <4>1. DOMAIN buffer' = DOMAIN buffer \ {d} /\ maxSeq' = Without(maxSeq, d)
          BY <1>5, <3>1 DEF ServerRespond, Without, Restrict
        <4>2. d # c
          BY <4>1
        <4>. QED
          BY <4>1, <4>2 DEF Without, Restrict
      <3>2. CASE d \notin DOMAIN buffer
        BY <1>5, <3>2 DEF ServerRespond
      <3>. QED
        BY <3>1, <3>2
    <2>. QED
      BY <1>2, <2>2, <2>3
  <1>6. CASE ~ServerReceive
    <2>1. \A m : ~NewEntry(c, m)
      BY <1>6 DEF NewEntry, ServerReceive
    <2>2. ASSUME NEW d \in Loaders, ServerLoad(d)
          PROVE  UNCHANGED maxSeq /\ (c \in DOMAIN buffer \/ (d = c /\ load[c] = "idle"))
      BY <2>2 DEF ServerLoad, With
    <2>3. ASSUME NEW d \in Loaders, ServerDisconnected(d)
          PROVE  c \in DOMAIN buffer /\ (c \in DOMAIN maxSeq' <=> c \in DOMAIN maxSeq)
                   /\ (c \in DOMAIN maxSeq => maxSeq'[c] = maxSeq[c])
      BY <2>3 DEF ServerDisconnected, Without, Restrict
    <2>4. ASSUME ~\E d \in Loaders : ServerLoad(d) \/ ServerDisconnected(d)
          PROVE  UNCHANGED <<buffer, maxSeq>>
      BY <1>6, <2>4 DEF Next, SessionStep, StampAcp, EmitXai, EmitAcp, Forward, Flush, Persist,
       leaderVars, vars, LoadStep, LoadClose, LoadFlushed,
       LoadError, LoadRead, LoadReflushed, LoadReflushTimeout, LoadDelta, LoadOpen, LoadAnswer
    <2>5. CASE c \in DOMAIN buffer
      BY <1>2, <2>1, <2>2, <2>3, <2>4, <2>5
    <2>6. CASE c \notin DOMAIN buffer
      <3>1. UNCHANGED maxSeq /\ load[c] = "idle"
        BY <2>2, <2>3, <2>4, <2>6
      <3>2. DOMAIN got[c] = {} /\ c \notin DOMAIN maxSeq
        BY <2>6, <3>1 DEF NotThere, Tables
      <3>. QED
        BY <1>0, <2>1, <3>1, <3>2 DEF GotStep
    <2>. QED
      BY <2>5, <2>6
  <1>. QED
    BY <1>3, <1>4, <1>5, <1>6 DEF ServerReceive

-----------------------------------------------------------------------------
(* A live event that follows its own replay was on its way when the delta   *)
(* was read.                                                                *)

Ended == {"open", "answer", "done"}

\* c's answer is not behind the message at i of the stream to the leader.
Behind(c, i) == load[c] = "done" /\ \A j \in DOMAIN out : j > i => out[j] # Response(c)

RacedBy(c) ==
  (c \in clients /\ load[c] \in Ended) =>
    \A e \in Ids : InLine(c, e) =>
      /\ e = emitting => e \in racing
      /\ \A i \in DOMAIN out : (out[i] = Live(e) /\ Behind(c, i)) => e \in racing
Raced == timeouts = 0 => \A c \in Loaders : RacedBy(c)

RacedIn(c) ==
  c \notin spilled =>
    \A i, j \in DOMAIN got[c] :
      (i < j /\ got[c][i].replay /\ ~got[c][j].replay /\ got[c][i].seq = got[c][j].seq)
        => got[c][i].seq \in racing
RacedGot == timeouts = 0 => \A c \in Loaders : RacedIn(c)

\* The last steps of a load.
LEMMA LoadMoves ==
  ASSUME Typed, [Next]_vars, NEW c \in Loaders, load'[c] \in Ended
  PROVE  \/ LoadError(c) \/ LoadDelta(c) \/ LoadReflushTimeout(c)
         \/ LoadAnswer(c) /\ load[c] = "answer" /\ out' = Append(out, Response(c))
         \/ load[c] \in Ended /\ (load'[c] = "done" => load[c] = "done")
  <1>0. load \in [Loaders -> LoadPcs]
    BY DEF Typed, LoadTyped
  <1>1. CASE UNCHANGED load
    BY <1>1
  <1>2. CASE \E d \in Loaders : LoadStep(d)
    <2>1. PICK d \in Loaders : LoadStep(d)
      BY <1>2
    <2>2. CASE d # c
      <3>1. load'[c] = load[c]
        BY <1>0, <2>1, <2>2 DEF LoadStep, LoadClose, LoadFlushed, LoadError, LoadRead, LoadReflushed,
           LoadReflushTimeout, LoadDelta, LoadOpen, LoadAnswer, GotoLoad
      <3>. QED
        BY <3>1
    <2>3. CASE d = c
      <3>1. CASE LoadClose(c) \/ LoadFlushed(c) \/ LoadRead(c) \/ LoadReflushed(c)
        BY <1>0, <3>1 DEF LoadClose, LoadFlushed, LoadRead, LoadReflushed, GotoLoad, Ended
      <3>2. CASE LoadOpen(c)
        BY <1>0, <3>2 DEF LoadOpen, GotoLoad, Ended, At
      <3>3. CASE LoadAnswer(c)
        BY <3>3 DEF LoadAnswer, At
      <3>. QED
        BY <2>1, <2>3, <3>1, <3>2, <3>3 DEF LoadStep
    <2>. QED
      BY <2>2, <2>3
  <1>3. CASE \E d \in Loaders : ServerLoad(d)
    BY <1>0, <1>3 DEF ServerLoad, GotoLoad, Ended
  <1>4. CASE \E d \in Loaders : ServerDisconnected(d)
    BY <1>1, <1>4 DEF ServerDisconnected
  <1>. QED
    BY <1>1, <1>2, <1>3, <1>4 DEF Next, SessionStep, StampAcp, EmitXai, EmitAcp, Forward,
       Flush, Persist, ServerReceive, ServerFanOut, ServerUnicast, ServerRespond, loadVars, vars

\* The bounds and the histories grow.
LEMMA TimeoutsGrow ==
  ASSUME Typed, [Next]_vars
  PROVE  /\ timeouts' = 0 => timeouts = 0 /\ \A c \in Loaders : ~LoadReflushTimeout(c)
         /\ racing \subseteq racing' /\ spilled \subseteq spilled'
  <1>0. timeouts \in Nat
    BY LoadAssumption DEF Typed, LoadTyped
  <1>1. CASE \E c \in Loaders : LoadStep(c)
    <2>1. PICK c \in Loaders : LoadStep(c)
      BY <1>1
    <2>2. CASE LoadReflushTimeout(c)
      BY <1>0, <2>2 DEF LoadReflushTimeout, leaderVars
    <2>3. CASE LoadFlushed(c) \/ LoadClose(c) \/ LoadError(c) \/ LoadRead(c) \/ LoadReflushed(c)
               \/ LoadDelta(c) \/ LoadOpen(c) \/ LoadAnswer(c)
      <3>1. (timeouts' = 0 => timeouts = 0) /\ racing \subseteq racing' /\ UNCHANGED spilled
        BY <1>0, <2>3 DEF LoadClose, LoadFlushed, LoadError, LoadRead, LoadReflushed,
           LoadDelta, LoadOpen, LoadAnswer, leaderVars
      <3>2. timeouts = 0 /\ timeouts' = 0 => \A d \in Loaders : ~LoadReflushTimeout(d)
        BY <1>0 DEF LoadReflushTimeout
      <3>. QED
        BY <3>1, <3>2
    <2>. QED
      BY <2>1, <2>2, <2>3 DEF LoadStep
  <1>2. CASE ~\E c \in Loaders : LoadStep(c)
    <2>1. UNCHANGED <<timeouts, racing>> /\ spilled \subseteq spilled'
      BY <1>2 DEF Next, SessionStep, StampAcp, EmitXai, EmitAcp, Forward, Flush, Persist,
       leaderVars, loadVars, vars, ServerLoad, ServerDisconnected, ServerReceive,
       ServerFanOut, ServerUnicast, ServerRespond, agentVars
    <2>2. \A d \in Loaders : ~LoadReflushTimeout(d)
      BY <1>2 DEF LoadStep
    <2>. QED
      BY <2>1, <2>2
  <1>. QED
    BY <1>1, <1>2

\* What was sent is not sent again.
LEMMA NotAgain ==
  ASSUME Typed, Log, [Next]_vars, NEW e, Written(e), e = emitting'
  PROVE  e = emitting
  <1>1. CASE UNCHANGED emitting
    BY <1>1
  <1>2. CASE EmitAcp
    <2>1. 1 \in DOMAIN stream /\ e = stream[1]
      BY <1>2, LogTypes DEF EmitAcp
    <2>. QED
      BY <2>1 DEF Log, OnlyOnce, StreamOnce
  <1>3. CASE EmitXai
    BY <1>3, Unused DEF EmitXai
  <1>4. CASE Forward
    <2>1. e \in Ids /\ emitting' = 0
      BY <1>4, LogTypes DEF Forward
    <2>. QED
      BY <2>1, LogTypes
  <1>. QED
    BY <1>1, <1>2, <1>3, <1>4 DEF Next, SessionStep, StampAcp, Flush, Persist,
       leaderVars, loadVars, vars, ServerLoad, ServerDisconnected, ServerReceive,
       ServerFanOut, ServerUnicast, ServerRespond, agentVars, threadVars, LoadStep, LoadClose, LoadFlushed,
       LoadError, LoadRead, LoadReflushed, LoadReflushTimeout, LoadDelta, LoadOpen, LoadAnswer

\* A message that was behind an answer stays so.
LEMMA StaysBehind ==
  ASSUME Typed, [Next]_vars, NEW c \in Loaders, NEW e \in Ids, NEW i \in DOMAIN out',
         out'[i] = Live(e), load'[c] = "done" => load[c] = "done",
         load'[c] = "done", \A j \in DOMAIN out' : j > i => out'[j] # Response(c)
  PROVE  \/ Forward /\ e = emitting
         \/ \E k \in DOMAIN out : out[k] = Live(e) /\ Behind(c, k)
  <1>0. /\ \A k \in DOMAIN out : k \in Nat /\ out[k].kind \in {"live", "replay", "response"}
        /\ Live(e).kind = "live"
    BY WireTypes DEF Live
  <1>1. CASE Quietly
    <2>1. i \in DOMAIN out /\ out[i] = Live(e)
      BY <1>0, <1>1 DEF Quietly
    <2>2. \A j \in DOMAIN out : j > i => out[j] # Response(c)
      BY <1>1 DEF Quietly
    <2>. QED
      BY <2>1, <2>2 DEF Behind
  <1>2. CASE Takes(out', out)
    <2>1. i \in Nat /\ i + 1 \in DOMAIN out /\ out[i + 1] = Live(e)
      BY <1>2 DEF Takes
    <2>2. ASSUME NEW j \in DOMAIN out, j > i + 1
          PROVE  out[j] # Response(c)
      <3>1. j # 1 /\ j \in Nat
        BY <1>0, <2>1, <2>2
      <3>2. j - 1 \in DOMAIN out' /\ out'[j - 1] = out[j]
        BY <1>2, <3>1 DEF Takes
      <3>3. j - 1 > i
        BY <2>1, <2>2, <3>1
      <3>. QED
        BY <3>2, <3>3
    <2>. QED
      BY <2>1, <2>2 DEF Behind
  <1>3. CASE Forward /\ Adds(out', out, Live(emitting))
    <2>1. CASE i \in DOMAIN out
      <3>1. out[i] = Live(e)
        BY <1>3, <2>1 DEF Adds
      <3>2. \A j \in DOMAIN out : j > i => out[j] # Response(c)
        BY <1>3 DEF Adds
      <3>. QED
        BY <2>1, <3>1, <3>2 DEF Behind
    <2>2. CASE i \notin DOMAIN out
      <3>1. Live(e) = Live(emitting)
        BY <1>3, <2>2 DEF Adds
      <3>. QED
        BY <1>3, <3>1 DEF Live
    <2>. QED
      BY <2>1, <2>2
  <1>. QED
    BY <1>1, <1>2, <1>3, OutSteps DEF OutStep

\* A load replays nothing before its first read.
LEMMA NothingEarly ==
  ASSUME Typed, NEW c \in Loaders, Line(c), load[c] \in Early, NEW e
  PROVE  ~InLine(c, e)
  <1>1. Replayed(c) = <<>> /\ Sending(c) = <<>>
    BY DEF Line
  <1>2. Lines(c) = <<>>
    BY <1>1 DEF Lines
  <1>. QED
    BY <1>2, LineIds

\* An id that a load replays is on its way past it only if it is in racing.
LEMMA RacedStep ==
  ASSUME Typed, Log, ReplayLine, Raced, [Next]_vars
  PROVE  Raced'
  <1> SUFFICES ASSUME timeouts' = 0, NEW c \in Loaders, c \in clients', load'[c] \in Ended,
                      NEW e \in Ids', InLine(c, e)'
               PROVE  /\ e = emitting' => e \in racing'
                      /\ \A i \in DOMAIN out' :
                           (/\ out'[i] = Live(e) /\ load'[c] = "done"
                            /\ \A j \in DOMAIN out' : j > i => out'[j] # Response(c))
                             => e \in racing'
    BY DEF Raced, RacedBy, Behind, Live, Response
  <1>0. timeouts = 0 /\ ~LoadReflushTimeout(c) /\ racing \subseteq racing' /\ RacedBy(c) /\ Line(c)
    BY TimeoutsGrow DEF Raced, ReplayLine
  <1>1. CASE LoadDelta(c)
    <2>1. load'[c] = "open" /\ emitting' = emitting /\ racing' = racing \union ({emitting} \ {0})
      BY <1>1 DEF LoadDelta, GotoLoad, threadVars, Typed, LoadTyped
    <2>2. 0 \notin Ids'
      BY DEF Ids
    <2>. QED
      BY <2>1, <2>2
  <1>2. CASE ~LoadDelta(c)
    <2>1. ~LoadRead(c)
      BY DEF LoadRead, GotoLoad, Typed, LoadTyped, Ended
    <2>2. InLine(c, e)
      BY <1>2, <2>1, InLineStays
    <2>3. ~LoadError(c)
      <3>1. LoadError(c) => load[c] \in Early
        BY DEF LoadError, At, Early
      <3>. QED
        BY <1>0, <2>2, <3>1, NothingEarly
    <2>4. /\ load[c] \in Ended
          /\ \/ load'[c] = "done" => load[c] = "done"
             \/ out' = Append(out, Response(c))
      BY <1>0, <1>2, <2>3, LoadMoves DEF Ended
    <2>5. c \in clients
      <3>1. \A d \in Loaders : ServerLoad(d) => load[d] = "idle"
        BY DEF ServerLoad
      <3>2. load[c] # "idle"
        BY <2>4 DEF Ended
      <3>3. ~ServerLoad(c)
        BY <3>1, <3>2
      <3>. QED
        BY <3>3 DEF Next, SessionStep, StampAcp, EmitXai, EmitAcp, Forward, Flush, Persist,
         leaderVars, loadVars, vars, ServerLoad, ServerDisconnected, ServerReceive,
         ServerFanOut, ServerUnicast, ServerRespond, LoadStep, LoadClose, LoadFlushed,
         LoadError, LoadRead, LoadReflushed, LoadReflushTimeout, LoadDelta, LoadOpen, LoadAnswer
    <2>6. Written(e) /\ e \in Ids
      BY <1>0, <2>2, <2>5, LineWritten, LogTypes
    <2>7. /\ e = emitting => e \in racing
          /\ \A i \in DOMAIN out : (out[i] = Live(e) /\ Behind(c, i)) => e \in racing
      BY <1>0, <2>2, <2>4, <2>5, <2>6 DEF RacedBy
    <2>8. e = emitting' => e \in racing'
      BY <1>0, <2>6, <2>7, NotAgain
    <2>9. ASSUME NEW i \in DOMAIN out', out'[i] = Live(e), load'[c] = "done",
                 \A j \in DOMAIN out' : j > i => out'[j] # Response(c)
          PROVE  e \in racing'
      <3>1. CASE load'[c] = "done" => load[c] = "done"
        BY <1>0, <2>6, <2>7, <2>9, <3>1, StaysBehind
      <3>2. CASE out' = Append(out, Response(c))
        <4>1. Adds(out', out, Response(c))
          <5>1. Response(c) \in Sends
            BY DEF Response, Sends
          <5>. QED
            BY <3>2, <5>1, Added, WireTypes
        <4>2. i \in DOMAIN out
          <5>1. out'[i].kind # "response"
            BY <2>9 DEF Live
          <5>. QED
            BY <4>1, <5>1 DEF Adds, Response
        <4>. QED
          BY <2>9, <4>1, <4>2 DEF Adds
      <3>. QED
        BY <2>4, <3>1, <3>2
    <2>. QED
      BY <2>8, <2>9
  <1>. QED
    BY <1>1, <1>2

\* A replay is followed by the live event of its id only if the id is in racing: a
\* flushed tail is above the cutoff, so that the event came behind the answer.
LEMMA RacedGotStep ==
  ASSUME Typed, Wire, Tables, Cutoff, Raced, RacedGot, [Next]_vars
  PROVE  RacedGot'
  <1> SUFFICES ASSUME timeouts' = 0, NEW c \in Loaders, c \notin spilled',
                      NEW i \in DOMAIN got'[c], NEW j \in DOMAIN got'[c], i < j,
                      got'[c][i].replay, ~got'[c][j].replay,
                      got'[c][i].seq = got'[c][j].seq
               PROVE  got'[c][i].seq \in racing'
    BY DEF RacedGot, RacedIn
  <1>0. /\ timeouts = 0 /\ racing \subseteq racing' /\ c \notin spilled
        /\ RacedBy(c) /\ RacedIn(c) /\ Cut(c)
    BY TimeoutsGrow DEF Raced, RacedGot, Cutoff
  <1>1. GotStep(c) /\ c \in Clients
    BY GotSteps, WireTypes
  <1>2. \A n \in DOMAIN got'[c] : n \in Nat
    <2>1. Typed'
      BY TypedStep
    <2>2. got' \in [Clients -> Seq(Entries')]
      BY <2>1 DEF Typed, LeaderTyped, GotTyped
    <2>3. got'[c] \in Seq(Entries')
      BY <1>1, <2>2
    <2>. QED
      BY <2>3
  <1>3. \A n \in DOMAIN got[c] : n \in Nat
    BY <1>1, WireTypes
  <1>4. i \in DOMAIN got[c] \/ j \notin DOMAIN got[c]
    BY <1>1, <1>2 DEF GotStep
  <1>5. CASE i \in DOMAIN got[c] /\ j \in DOMAIN got[c]
    <2>1. got'[c][i] = got[c][i] /\ got'[c][j] = got[c][j]
      BY <1>1, <1>5 DEF GotStep
    <2>. QED
      BY <1>0, <1>5, <2>1 DEF RacedIn
  <1>6. CASE j \notin DOMAIN got[c]
    <2> DEFINE e == got'[c][j].seq
               m == got'[c][j]
    <2>1. NewEntry(c, m) /\ ~m.replay /\ m.seq = e
      BY <1>1, <1>6 DEF GotStep
    <2>2. ASSUME i \notin DOMAIN got[c] PROVE FALSE
      <3>1. NewEntry(c, got'[c][i])
        BY <1>1, <2>2 DEF GotStep
      <3>2. ServerUnicast /\ Head(out).kind = "replay"
        BY <3>1 DEF NewEntry, ServerUnicast
      <3> HIDE DEF m, e
      <3>3. ServerFanOut \/ ServerRespond
        BY <2>1 DEF NewEntry
      <3>. QED
        BY <3>2, <3>3 DEF ServerFanOut, ServerRespond
    <2>3. got'[c][i] = got[c][i] /\ i \in DOMAIN got[c]
      BY <1>1, <2>2 DEF GotStep
    <2>4. HasReplay(c, e)
      BY <2>3 DEF HasReplay
    <2>5. e \in Ids
      BY <1>1, <2>3, WireTypes
    <2> HIDE DEF m, e
    <2>6. CASE ServerFanOut /\ c \in clients /\ ~Holds(c) /\ e = Head(out).seq
      <3>1. c \notin DOMAIN buffer
        BY <2>6 DEF ServerFanOut
      <3>2. load[c] = "done" /\ ~Answered(c)
        BY <2>6, <3>1 DEF Tables, Owed
      <3>3. Head(out) = Live(e) /\ 1 \in DOMAIN out /\ Head(out) = out[1]
        <4>1. out # <<>> /\ Head(out).kind = "live"
          BY <2>6 DEF ServerFanOut
        <4>2. out \in Seq(Sends) /\ Head(out) \in Sends /\ 1 \in DOMAIN out /\ Head(out) = out[1]
          BY <4>1, WireTypes
        <4>. QED
          BY <2>6, <4>1, <4>2 DEF Sends, Live
      <3>4. Behind(c, 1)
        BY <3>2 DEF Behind, Answered
      <3>5. e \in racing
        BY <1>0, <2>4, <2>5, <2>6, <3>2, <3>3, <3>4 DEF RacedBy, InLine, Ended
      <3>. QED
        BY <1>0, <3>5 DEF e
    <2>7. CASE c \in DOMAIN buffer /\ \E k \in 1..Len(Newer(c)) : e = Newer(c)[k]
      <3>1. PICK k \in 1..Len(Newer(c)) : e = Newer(c)[k]
        BY <2>7
      <3>2. buffer[c] \in Seq(Ids)
        BY <2>7, WireTypes
      <3> DEFINE S == {f \in Events : c \in DOMAIN maxSeq => f > maxSeq[c]}
                 b == buffer[c]
                 n == Newer(c)
      <3>3. PICK at : Selects(at, n, b, Len(b), S)
        BY <3>2, KeptSelects DEF Newer
      <3>4. e \in S
        BY <3>1, <3>3 DEF Selects
      <3>5. c \in DOMAIN maxSeq /\ e <= maxSeq[c]
        BY <1>0, <2>4, <2>7 DEF Cut, HasReplay
      <3>6. e \in Nat /\ maxSeq[c] \in Nat
        BY <2>5, <3>5, WireTypes, LogTypes
      <3>. QED
        BY <3>4, <3>5, <3>6
    <2>. QED
      BY <2>1, <2>6, <2>7 DEF NewEntry
  <1>. QED
    BY <1>4, <1>5, <1>6

\* A client is replayed nothing twice.
LEMMA ReplayedOnce ==
  ASSUME Typed, Log, NEW c \in Loaders, Line(c),
         NEW i \in DOMAIN got[c], NEW j \in DOMAIN got[c], got[c][i].replay, got[c][j].replay,
         got[c][i].seq = got[c][j].seq
  PROVE  i = j
  <1> DEFINE g == got[c]
             k == Kept(g, Received)
  <1>1. g \in Seq(Entries) /\ DOMAIN g = 1..Len(g) /\ k \in Seq(Entries)
        /\ \A n \in 1..Len(g) : g[n] \in Entries
    BY WireTypes, LinesTyped
  <1>2. PICK at : Selects(at, k, g, Len(g), Received)
    BY <1>1, KeptSelects
  <1>3. Replayed(c) = Seqs(k)
    BY DEF Replayed, Received
  <1>4. \A n \in 1..Len(k) : k[n].seq \in Nat
    <2>1. \A m \in Entries : m.seq \in Nat
      BY LogTypes DEF Entries
    <2> HIDE DEF k
    <2>. QED
      BY <1>1, <2>1
  <1>5. SeqsOf(k)
    BY <1>1, <1>4, SeqsTyped
  <1>6. \A n \in 1..Len(g) : g[n].replay <=> g[n] \in Received
    BY <1>1, IsSending
  <1>7. Starts(Replayed(c), file) /\ DOMAIN file = 1..Len(file) /\ Len(file) \in Nat
    BY LinesTyped DEF Line
  <1>8. i \in 1..Len(g) /\ j \in 1..Len(g) /\ g[i] \in Received /\ g[j] \in Received
        /\ g[i].seq = g[j].seq
    BY <1>1, <1>6
  <1> HIDE DEF k, g
  <1>9. PICK p \in 1..Len(k) : at[p] = i
    BY <1>2, <1>8 DEF Selects
  <1>10. PICK q \in 1..Len(k) : at[q] = j
    BY <1>2, <1>8 DEF Selects
  <1>11. k[p] = g[i] /\ k[q] = g[j]
    BY <1>2, <1>9, <1>10 DEF Selects
  <1> DEFINE r == Replayed(c)
  <1>12. r[p] = r[q] /\ p \in 1..Len(r) /\ q \in 1..Len(r) /\ Len(r) \in Nat
    BY <1>3, <1>5, <1>8, <1>11 DEF SeqsOf
  <1> HIDE DEF r
  <1>13. Starts(r, file)
    BY <1>7 DEF r
  <1>14. file[p] = file[q] /\ p \in DOMAIN file /\ q \in DOMAIN file
    BY <1>7, <1>12, <1>13 DEF Starts
  <1>15. p = q
    BY <1>14 DEF Log, OnlyOnce, FileOnce
  <1>. QED
    BY <1>9, <1>10, <1>15

\* Of two sends of an event that are both applied the first is the replay.
LEMMA TwiceRaced ==
  ASSUME Typed, Log, Order, ReplayLine, CreatorLive, RacedGot
  PROVE  TwiceExplained
  <1> SUFFICES ASSUME timeouts = 0, NEW c \in Clients, c \notin spilled,
                      NEW i \in DOMAIN got[c], NEW j \in DOMAIN got[c], j < i,
                      got[c][j].seq = got[c][i].seq
               PROVE  got[c][i].seq \in racing
    BY DEF TwiceExplained, ShownTwice, Applied
  <1>1. got[c][i].replay \in BOOLEAN /\ got[c][j].replay \in BOOLEAN
        /\ got[c][i].seq \in Nat /\ i \in Nat /\ j \in Nat
    BY WireTypes, LogTypes
  <1>2. c \in Loaders \/ (c = Creator /\ ~got[c][i].replay /\ ~got[c][j].replay)
    BY DEF Clients, CreatorLive
  <1>3. CASE ~got[c][i].replay /\ ~got[c][j].replay
    <2>1. got[c][j].seq < got[c][i].seq
      BY <1>3 DEF Order, GotInOrder, SameKind
    <2>. QED
      BY <1>1, <2>1
  <1>4. CASE got[c][i].replay /\ got[c][j].replay
    BY <1>1, <1>2, <1>4, ReplayedOnce DEF ReplayLine
  <1>5. CASE got[c][i].replay /\ ~got[c][j].replay
    BY <1>2, <1>5 DEF Order, ReplayBeforeLive
  <1>6. CASE ~got[c][i].replay /\ got[c][j].replay
    BY <1>2, <1>6 DEF RacedGot, RacedIn
  <1>. QED
    BY <1>1, <1>3, <1>4, <1>5, <1>6

-----------------------------------------------------------------------------
(* Where an event is that a client has yet to be sent.                      *)

\* The flush between the two reads of a load; it marks a place in the mailbox.
Marker(c) == FlushBy(c, 2)
Unmarked ==
  \A c \in Loaders : load[c] \in Early =>
    /\ Marker(c) \notin acked
    /\ \A i \in DOMAIN queue : queue[i] # Marker(c)
    /\ \A i \in DOMAIN cmds : cmds[i] # Marker(c)

\* On its way past the file, or known to be missed.
Known(c, e) ==
  \/ e = emitting \/ e \in shut \/ e \in overtaken
  \/ \E i \in DOMAIN out : out[i] = Live(e)
  \/ c \in DOMAIN buffer /\ \E i \in DOMAIN buffer[c] : buffer[c][i] = e
  \/ \E i \in DOMAIN got[c] : got[c][i].seq = e

\* c's load will replay it, or is replaying it.
Due(c, e) ==
  /\ load[c] \in Ended => InFlight(c, e)
  /\ load[c] = "delta" => Written(e)
  /\ load[c] = "reflush" =>
       /\ Marker(c) \in acked => Written(e)
       /\ \A i \in DOMAIN queue : queue[i] = Marker(c) => Before(e, i)

AccountedFor(c, e) == Waits(e) \/ Known(c, e) \/ (c \in Loaders /\ Due(c, e))
Accounted ==
  (timeouts = 0 /\ errors = 0) => \A c \in clients, e \in Ids : AccountedFor(c, e)

\* A load does not start over.
LEMMA StillEarly ==
  ASSUME Typed, [Next]_vars, NEW c \in Loaders, load'[c] \in Early
  PROVE  load[c] \in Early /\ ~LoadRead(c)
  <1>0. load \in [Loaders -> LoadPcs]
    BY DEF Typed, LoadTyped
  <1>1. CASE UNCHANGED load
    <2>1. ~LoadRead(c)
      BY <1>0, <1>1 DEF LoadRead, GotoLoad, At
    <2>. QED
      BY <1>1, <2>1
  <1>2. ASSUME NEW d \in Loaders, LoadStep(d)
        PROVE  load[c] \in Early /\ ~LoadRead(c)
    <2>0. ~LoadRead(c)
      BY <1>0 DEF LoadRead, GotoLoad, Early
    <2>2. CASE d # c
      <3>1. load'[c] = load[c]
        BY <1>0, <1>2, <2>2 DEF LoadStep, LoadClose, LoadFlushed, LoadError, LoadRead, LoadReflushed,
           LoadReflushTimeout, LoadDelta, LoadOpen, LoadAnswer, GotoLoad
      <3>. QED
        BY <2>0, <3>1
    <2>3. CASE d = c
      <3>1. CASE LoadClose(c) \/ LoadFlushed(c)
        BY <1>0, <2>0, <3>1 DEF LoadClose, LoadFlushed, At, Early
      <3>2. CASE LoadError(c) \/ LoadReflushed(c) \/ LoadReflushTimeout(c)
                 \/ LoadDelta(c) \/ LoadOpen(c) \/ LoadAnswer(c)
        BY <1>0, <3>2 DEF LoadError, LoadReflushed, LoadReflushTimeout, LoadDelta, LoadOpen,
           LoadAnswer, GotoLoad, Early
      <3>. QED
        BY <1>2, <2>0, <2>3, <3>1, <3>2 DEF LoadStep
    <2>. QED
      BY <2>2, <2>3
  <1>3. ASSUME NEW d \in Loaders, ServerLoad(d)
        PROVE  load[c] \in Early /\ ~LoadRead(c)
    <2>1. load'[c] = load[c] \/ load[c] = "idle"
      BY <1>0, <1>3 DEF ServerLoad, GotoLoad
    <2>2. ~LoadRead(c)
      BY <1>0 DEF LoadRead, GotoLoad, Early
    <2>. QED
      BY <2>1, <2>2 DEF Early
  <1>4. ASSUME NEW d \in Loaders, ServerDisconnected(d)
        PROVE  UNCHANGED load
    BY <1>4 DEF ServerDisconnected
  <1>. QED
    BY <1>1, <1>2, <1>3, <1>4 DEF Next, SessionStep, StampAcp, EmitXai, EmitAcp, Forward,
       Flush, Persist, ServerReceive, ServerFanOut, ServerUnicast, ServerRespond, loadVars, vars

\* The second flush of a load is asked for by its first read.
LEMMA UnmarkedStep ==
  ASSUME Typed, Unmarked, [Next]_vars
  PROVE  Unmarked'
  <1> SUFFICES ASSUME NEW c \in Loaders, load'[c] \in Early
               PROVE  /\ Marker(c) \notin acked'
                      /\ \A i \in DOMAIN queue' : queue'[i] # Marker(c)
                      /\ \A i \in DOMAIN cmds' : cmds'[i] # Marker(c)
    BY DEF Unmarked, Marker, FlushBy
  <1>0. ~LoadRead(c)
    BY StillEarly
  <1>1. /\ Marker(c) \notin acked
        /\ \A i \in DOMAIN queue : queue[i] # Marker(c)
        /\ \A i \in DOMAIN cmds : cmds[i] # Marker(c)
    BY StillEarly DEF Unmarked
  <1>2. /\ queue \in Seq(EventItems \union Flushes) /\ cmds \in Seq(Flushes)
    BY DEF Typed, ThreadTyped, DiskTyped
  <1>3. \A e : Item(e) # Marker(c)
    BY DEF Item, Marker, FlushBy
  <1>4. CASE UNCHANGED <<acked, queue, cmds>>
    BY <1>1, <1>4
  <1>5. ASSUME UNCHANGED <<acked, cmds>>, NEW x \in EventItems' \union Flushes, x # Marker(c),
               queue' = Append(queue, x), queue \in Seq(EventItems' \union Flushes)
        PROVE  \A i \in DOMAIN queue' : queue'[i] # Marker(c)
    <2>1. Adds(queue', queue, x)
      BY <1>5, Added
    <2>. QED
      BY <1>1, <1>5, <2>1 DEF Adds
  <1>6. CASE EmitAcp \/ EmitXai
    <2>1. UNCHANGED <<acked, cmds>>
      BY <1>6 DEF EmitAcp, EmitXai
    <2>2. Typed'
      BY TypedStep
    <2>3. PICK e : queue' = Append(queue, Item(e)) /\ e \in Ids'
      <3>1. CASE EmitAcp
        <4>1. Head(stream) \in Ids /\ minted' = minted
          BY <3>1, LogTypes DEF EmitAcp
        <4>. QED
          BY <3>1, <4>1 DEF EmitAcp, Ids
      <3>2. CASE EmitXai
        BY <3>2, Wider DEF EmitXai
      <3>. QED
        BY <1>6, <3>1, <3>2
    <2>4. Item(e) \in EventItems' \union Flushes
      BY <2>3 DEF Item, EventItems
    <2>5. queue \in Seq(EventItems' \union Flushes)
      <3>1. CASE EmitAcp
        BY <1>2, <3>1 DEF EmitAcp, EventItems, Ids
      <3>2. CASE EmitXai
        BY <3>2, Wider DEF EmitXai
      <3>. QED
        BY <1>6, <3>1, <3>2
    <2>. QED
      BY <1>1, <1>3, <1>5, <2>1, <2>3, <2>4, <2>5
  <1>7. CASE Flush
    <2>1. UNCHANGED <<acked, minted>> /\ cmds # <<>> /\ queue' = Append(queue, Head(cmds)) /\ cmds' = Tail(cmds)
      BY <1>7 DEF Flush
    <2>2. Takes(cmds', cmds) /\ Head(cmds) \in Flushes
      BY <1>2, <2>1, Taken
    <2>3. Head(cmds) # Marker(c)
      BY <1>1, <2>2 DEF Takes
    <2>4. Adds(queue', queue, Head(cmds))
      BY <1>2, <2>1, <2>2, Added
    <2>5. \A i \in DOMAIN queue' : queue'[i] # Marker(c)
      BY <1>1, <2>3, <2>4 DEF Adds
    <2>6. \A i \in DOMAIN cmds' : cmds'[i] # Marker(c)
      BY <1>1, <2>2 DEF Takes
    <2>. QED
      BY <1>1, <2>1, <2>5, <2>6
  <1>8. CASE Persist
    <2>1. UNCHANGED cmds /\ queue # <<>> /\ queue' = Tail(queue)
          /\ acked' \subseteq acked \union {Head(queue)}
      BY <1>8 DEF Persist, threadVars
    <2>2. Takes(queue', queue)
      BY <1>2, <2>1, Taken
    <2>3. Head(queue) # Marker(c)
      BY <1>1, <2>2 DEF Takes
    <2>4. \A i \in DOMAIN queue' : queue'[i] # Marker(c)
      BY <1>1, <2>2 DEF Takes
    <2>. QED
      BY <1>1, <2>1, <2>3, <2>4
  <1>9. ASSUME NEW d \in Loaders, LoadStep(d)
        PROVE  /\ Marker(c) \notin acked'
               /\ \A i \in DOMAIN queue' : queue'[i] # Marker(c)
               /\ \A i \in DOMAIN cmds' : cmds'[i] # Marker(c)
    <2>1. CASE LoadClose(d) \/ LoadRead(d)
      <3>1. UNCHANGED <<queue, acked>>
        BY <2>1 DEF LoadClose, LoadRead, diskVars
      <3>2. PICK x \in Flushes : x # Marker(c) /\ cmds' = Append(cmds, x)
        <4>1. FlushBy(d, 1) \in Flushes /\ FlushBy(d, 2) \in Flushes
          BY DEF FlushBy, Flushes
        <4>2. FlushBy(d, 1) # Marker(c) /\ (d # c => FlushBy(d, 2) # Marker(c))
          BY DEF FlushBy, Marker
        <4>. QED
          BY <1>0, <2>1, <4>1, <4>2 DEF LoadClose, LoadRead
      <3>3. Adds(cmds', cmds, x)
        BY <1>2, <3>2, Added
      <3>. QED
        BY <1>1, <3>1, <3>2, <3>3 DEF Adds
    <2>2. CASE ~(LoadClose(d) \/ LoadRead(d))
      BY <1>4, <1>9, <2>2 DEF LoadStep, LoadFlushed, LoadError, LoadReflushed,
       LoadReflushTimeout, LoadDelta, LoadOpen, LoadAnswer, diskVars, threadVars
    <2>. QED
      BY <2>1, <2>2
  <1>10. CASE StampAcp \/ Forward \/ ServerReceive \/ UNCHANGED vars
              \/ \E d \in Loaders : ServerLoad(d) \/ ServerDisconnected(d)
    BY <1>4, <1>10 DEF StampAcp, Forward, ServerReceive, ServerLoad, ServerDisconnected,
       ServerFanOut, ServerUnicast, ServerRespond, agentVars, diskVars, threadVars, vars
  <1>. QED
    BY <1>6, <1>7, <1>8, <1>9, <1>10 DEF Next, SessionStep

\* No load has failed while errors is 0.
LEMMA ErrorsGrow ==
  ASSUME Typed, [Next]_vars, errors' = 0
  PROVE  errors = 0 /\ \A c \in Loaders : ~LoadError(c)
  <1>0. errors \in Nat
    BY LoadAssumption DEF Typed, LoadTyped
  <1>1. \A c \in Loaders : ~LoadError(c)
    BY <1>0 DEF LoadError
  <1>2. UNCHANGED errors
    BY <1>1 DEF Next, SessionStep, StampAcp, EmitXai, EmitAcp, Forward, Flush, Persist,
       leaderVars, loadVars, vars, ServerLoad, ServerDisconnected, ServerReceive,
       ServerFanOut, ServerUnicast, ServerRespond, agentVars, LoadStep, LoadClose, LoadFlushed,
       LoadRead, LoadReflushed, LoadReflushTimeout, LoadDelta, LoadOpen, LoadAnswer
  <1>. QED
    BY <1>1, <1>2

\* A load's place in the mailbox is not affected by what is put behind it.
LEMMA DueInQueue ==
  ASSUME NEW c, NEW e, Due(c, e), UNCHANGED <<load, acked, file, unwritten>>, NEW x,
         Adds(queue', queue, x), InFlight(c, e) => InFlight(c, e)',
         (x = Marker(c) /\ load[c] = "reflush") =>
           Written(e) \/ e = unwritten \/ \E k \in DOMAIN queue : IsEvent(queue[k], e)
  PROVE  Due(c, e)'
  <1>1. Written(e)' <=> Written(e)
    BY DEF Written
  <1>2. (load'[c] \in Ended => InFlight(c, e)') /\ (load'[c] = "delta" => Written(e)')
    BY <1>1 DEF Due
  <1>3. ASSUME load'[c] = "reflush"
        PROVE  /\ Marker(c) \in acked' => Written(e)'
               /\ \A i \in DOMAIN queue' : queue'[i] = Marker(c) =>
                    \/ Written(e)' \/ e = unwritten'
                    \/ \E k \in DOMAIN queue' : k < i /\ IsEvent(queue'[k], e)
    <2>1. Marker(c) \in acked' => Written(e)'
      BY <1>1, <1>3 DEF Due
    <2>2. ASSUME NEW i \in DOMAIN queue', queue'[i] = Marker(c), ~Written(e), e # unwritten
          PROVE  \E k \in DOMAIN queue' : k < i /\ IsEvent(queue'[k], e)
      <3>1. CASE i \in DOMAIN queue
        <4>1. queue[i] = Marker(c)
          BY <2>2, <3>1 DEF Adds
        <4>2. PICK k \in DOMAIN queue : k < i /\ IsEvent(queue[k], e)
          BY <1>3, <2>2, <3>1, <4>1 DEF Due, Before
        <4>. QED
          BY <4>2 DEF Adds
      <3>2. CASE i = Len(queue) + 1
        <4>1. x = Marker(c)
          BY <2>2, <3>2 DEF Adds
        <4>2. PICK k \in DOMAIN queue : IsEvent(queue[k], e)
          BY <1>3, <2>2, <4>1
        <4>3. k < i /\ k \in DOMAIN queue' /\ queue'[k] = queue[k]
          BY <3>2 DEF Adds
        <4>. QED
          BY <4>2, <4>3
      <3>. QED
        BY <2>2, <3>1, <3>2 DEF Adds
    <2>. QED
      BY <1>1, <2>1, <2>2
  <1>. QED
    BY <1>2, <1>3 DEF Due, Before, Marker, FlushBy, IsEvent, Ended

\* What the session puts into the mailbox when it emits.
LEMMA ItemTyped ==
  ASSUME Typed, EmitAcp \/ EmitXai
  PROVE  \E e \in Ids' : /\ Adds(queue', queue, Item(e)) /\ Item(e).kind = "event"
                         /\ e = emitting' /\ \A c : Item(e) # Marker(c)
  <1>1. PICK e \in Ids' : queue' = Append(queue, Item(e)) /\ e = emitting'
    <2>1. CASE EmitAcp
      <3>1. Head(stream) \in Ids /\ minted' = minted
        BY <2>1, LogTypes DEF EmitAcp
      <3>. QED
        BY <2>1, <3>1 DEF EmitAcp, Ids
    <2>2. CASE EmitXai
      BY <2>2, Wider DEF EmitXai
    <2>. QED
      BY <2>1, <2>2
  <1>2. Item(e) \in EventItems' \union Flushes /\ Item(e).kind = "event"
        /\ \A c : Item(e) # Marker(c)
    BY <1>1 DEF Item, EventItems, Marker, FlushBy
  <1>3. queue \in Seq(EventItems' \union Flushes)
    <2>1. CASE EmitAcp
      <3>1. minted' = minted
        BY <2>1 DEF EmitAcp
      <3>. QED
        BY <3>1 DEF EventItems, Ids, Typed, DiskTyped
    <2>2. CASE EmitXai
      BY <2>2, Wider DEF EmitXai
    <2>. QED
      BY <2>1, <2>2
  <1>4. Adds(queue', queue, Item(e))
    BY <1>1, <1>2, <1>3, Added
  <1>. QED
    BY <1>1, <1>2, <1>4

\* An event is accounted for from its stamp to its forwarding: it waits, is being
\* emitted, and is then on its way, or found the gate closed.
LEMMA SessionAccounted ==
  ASSUME Typed, Log, NEW c \in Clients, StampAcp \/ EmitXai \/ SessionStep,
         NEW e \in Ids', e \in Ids => AccountedFor(c, e)
  PROVE  AccountedFor(c, e)'
  <1>0. UNCHANGED <<load, clients, buffer, got, acked, file, unwritten, overtaken>>
    BY DEF StampAcp, EmitXai, SessionStep, EmitAcp, Forward, Flush, leaderVars, loadVars, diskVars
  <1>1. CASE StampAcp
    <2>1. UNCHANGED <<emitting, shut, out, queue>> /\ stream' = Append(stream, minted + 1)
          /\ minted' = minted + 1
      BY <1>1 DEF StampAcp, diskVars
    <2>2. Adds(stream', stream, minted + 1)
      <3>1. stream \in Seq(Ids') /\ minted + 1 \in Ids'
        BY <2>1, Wider
      <3>. QED
        BY <2>1, <3>1, Added
    <2>3. CASE e = minted + 1
      BY <2>2, <2>3 DEF Adds, AccountedFor, Waits
    <2>4. CASE e \in Ids
      <3>1. Waits(e) => Waits(e)'
        BY <2>2 DEF Adds, Waits
      <3>2. Known(c, e) => Known(c, e)'
        BY <1>0, <2>1 DEF Known, Live
      <3>3. Due(c, e) => Due(c, e)'
        BY <1>0, <2>1 DEF Due, Written, InFlight, IsReplay, Before, IsEvent, Marker, FlushBy, Ended
      <3>. QED
        BY <2>4, <3>1, <3>2, <3>3 DEF AccountedFor
    <2>. QED
      BY <2>1, <2>3, <2>4, Unused
  <1>2. CASE EmitXai \/ EmitAcp
    <2>1. UNCHANGED <<shut, out>> /\ emitting = 0
      BY <1>2 DEF EmitXai, EmitAcp
    <2>2. \/ UNCHANGED stream /\ emitting' = minted + 1 /\ minted' = minted + 1
          \/ Takes(stream', stream) /\ emitting' = stream[1] /\ UNCHANGED minted
      <3>1. CASE EmitXai
        BY <3>1 DEF EmitXai
      <3>2. CASE EmitAcp
        <4>1. stream # <<>> /\ stream' = Tail(stream) /\ emitting' = Head(stream) /\ UNCHANGED minted
          BY <3>2 DEF EmitAcp
        <4>2. Takes(stream', stream)
          BY <4>1, Taken, LogTypes
        <4>. QED
          BY <4>1, <4>2 DEF Takes
      <3>. QED
        BY <1>2, <3>1, <3>2
    <2>3. CASE e = emitting'
      BY <2>3 DEF AccountedFor, Known
    <2>4. CASE e # emitting'
      <3>1. e \in Ids
        BY <2>2, <2>4, Unused DEF Ids
      <3>2. Waits(e) => Waits(e)'
        BY <2>2, <2>4 DEF Takes, Waits
      <3>3. Known(c, e) => Known(c, e)'
        <4>1. e # 0
          BY <3>1 DEF Ids
        <4>. QED
          BY <1>0, <2>1, <4>1 DEF Known, Live
      <3>4. Due(c, e) => Due(c, e)'
        <4>1. InFlight(c, e) => InFlight(c, e)'
          BY <2>1 DEF InFlight, IsReplay
        <4>2. PICK f \in Ids' : Adds(queue', queue, Item(f)) /\ Item(f) # Marker(c)
          BY <1>2, ItemTyped
        <4>. QED
          BY <1>0, <4>1, <4>2, DueInQueue
      <3>. QED
        BY <3>1, <3>2, <3>3, <3>4 DEF AccountedFor
    <2>. QED
      BY <2>3, <2>4
  <1>3. CASE Forward
    <2>1. UNCHANGED <<stream, queue, minted>> /\ emitting \in Ids
          /\ \/ out' = Append(out, Live(emitting)) /\ UNCHANGED shut
             \/ shut' = shut \union {emitting} /\ UNCHANGED out
      BY <1>3, LogTypes DEF Forward, diskVars, Ids
    <2>2. \/ Adds(out', out, Live(emitting)) /\ UNCHANGED shut
          \/ shut' = shut \union {emitting} /\ UNCHANGED out
      <3>1. Live(emitting) \in Sends
        BY <2>1 DEF Live, Sends
      <3>2. out \in Seq(Sends)
        BY WireTypes
      <3>3. Adds(Append(out, Live(emitting)), out, Live(emitting))
        BY <3>1, <3>2, Added
      <3>. QED
        BY <2>1, <3>3
    <2>3. Waits(e)' <=> Waits(e)
      BY <2>1 DEF Waits
    <2>4. Known(c, e) => Known(c, e)'
      <3>1. e = emitting => e \in shut' \/ \E i \in DOMAIN out' : out'[i] = Live(e)
        BY <2>2 DEF Adds
      <3>2. (\E i \in DOMAIN out : out[i] = Live(e)) => \E i \in DOMAIN out' : out'[i] = Live(e)
        BY <2>2 DEF Adds
      <3>3. shut \subseteq shut'
        BY <2>2
      <3>. QED
        BY <1>0, <3>1, <3>2, <3>3 DEF Known, Live
    <2>5. Due(c, e) => Due(c, e)'
      <3>1. InFlight(c, e) => InFlight(c, e)'
        BY <2>2 DEF Adds, InFlight, IsReplay
      <3>. QED
        BY <1>0, <2>1, <3>1 DEF Due, Written, Before, IsEvent, Marker, FlushBy, Ended
    <2>6. e \in Ids
      BY <2>1 DEF Ids
    <2>. QED
      BY <2>3, <2>4, <2>5, <2>6 DEF AccountedFor
  <1>4. CASE Flush
    <2>1. UNCHANGED <<stream, out, minted, emitting, shut>> /\ cmds # <<>>
          /\ queue' = Append(queue, Head(cmds))
      BY <1>4 DEF Flush
    <2>2. Adds(queue', queue, Head(cmds))
      <3>1. Head(cmds) \in Flushes /\ queue \in Seq(EventItems \union Flushes)
        BY <2>1 DEF Typed, ThreadTyped, DiskTyped
      <3>. QED
        BY <2>1, <3>1, Added
    <2>3. Waits(e)' <=> Waits(e)
      BY <2>1 DEF Waits
    <2>4. Known(c, e) => Known(c, e)'
      BY <1>0, <2>1 DEF Known, Live
    <2>5. e \in Ids
      BY <2>1 DEF Ids
    <2>6. Due(c, e) /\ ~Waits(e) => Due(c, e)'
      <3>1. InFlight(c, e) => InFlight(c, e)'
        BY <2>1 DEF InFlight, IsReplay
      <3>2. Waits(e) \/ Written(e) \/ e = unwritten \/ \E k \in DOMAIN queue : IsEvent(queue[k], e)
        BY <2>5 DEF Log, Everywhere, InQueue
      <3>. QED
        BY <1>0, <2>2, <3>1, <3>2, DueInQueue
    <2>. QED
      BY <2>3, <2>4, <2>5, <2>6 DEF AccountedFor
  <1>. QED
    BY <1>1, <1>2, <1>3, <1>4 DEF SessionStep

\* What is handled is written or pending, and a flush leaves nothing pending.
LEMMA PersistKeeps ==
  ASSUME Typed, Log, Persist
  PROVE  \A e \in Ids :
           /\ Written(e) => Written(e)'
           /\ Written(e) \/ e = unwritten \/ IsEvent(queue[1], e) => Written(e)' \/ e = unwritten'
           /\ queue[1].kind = "flush" /\ (Written(e) \/ e = unwritten) => Written(e)'
  <1>1. queue # <<>> /\ UNCHANGED minted
    BY DEF Persist, threadVars
  <1>2. Takes(Tail(queue), queue)
    BY <1>1, Taken, LogTypes
  <1>3. Head(queue) = queue[1] /\ queue[1].kind \in {"event", "flush"}
        /\ (queue[1].kind = "event" => queue[1].seq \in Ids)
    BY <1>2, LogTypes DEF Takes
  <1>4. ASSUME file' = file \o Pending
        PROVE  \A e \in Ids : Written(e)' <=> Written(e) \/ e = unwritten
    <2>1. Pending \in Seq(Nat) /\ Pending = IF unwritten = 0 THEN <<>> ELSE <<unwritten>>
      BY LogTypes DEF Pending
    <2>2. file \in Seq(Nat)
      BY LinesTyped, TypedIsSessionOK DEF SessionOK
    <2>3. CASE unwritten = 0
      <3>1. file' = file
        BY <1>4, <2>1, <2>2, <2>3
      <3>2. \A e \in Ids : e # 0
        BY DEF Ids
      <3>. QED
        BY <2>3, <3>1, <3>2 DEF Written
    <2>4. CASE unwritten # 0
      <3>1. file' = Append(file, unwritten) /\ unwritten \in Nat
        BY <1>4, <2>1, <2>2, <2>4
      <3>2. Adds(file', file, unwritten)
        BY <2>2, <3>1, Added
      <3>. QED
        BY <3>2 DEF Adds, Written
    <2>. QED
      BY <2>3, <2>4
  <1>5. CASE queue[1].kind = "flush"
    <2>1. file' = file \o Pending /\ \A e : ~IsEvent(queue[1], e)
      BY <1>3, <1>5 DEF Persist, IsEvent
    <2>. QED
      BY <1>4, <2>1
  <1>6. CASE queue[1].kind = "event" /\ queue[1].seq \notin xai
    <2>1. file' = file \o Pending /\ unwritten' = queue[1].seq /\ queue[1].kind # "flush"
      BY <1>3, <1>6 DEF Persist
    <2>. QED
      BY <1>4, <2>1 DEF IsEvent
  <1>7. CASE queue[1].kind = "event" /\ queue[1].seq \in xai
    <2>1. file' = Append(file, queue[1].seq) /\ UNCHANGED unwritten /\ queue[1].kind # "flush"
      BY <1>3, <1>7 DEF Persist
    <2>2. Adds(file', file, queue[1].seq)
      BY <1>3, <1>7, <2>1, Added, LogTypes
    <2>. QED
      BY <2>1, <2>2 DEF Adds, Written, IsEvent
  <1>. QED
    BY <1>3, <1>5, <1>6, <1>7

\* A flush that is acknowledged has written what was ahead of it.
LEMMA PersistAccounted ==
  ASSUME Typed, Log, NEW c \in Clients, Persist, NEW e \in Ids, AccountedFor(c, e)
  PROVE  AccountedFor(c, e)'
  <1>1. /\ UNCHANGED <<stream, emitting, shut, out, buffer, got, load>>
        /\ queue # <<>> /\ queue' = Tail(queue) /\ overtaken \subseteq overtaken'
    BY DEF Persist, threadVars, loadVars, leaderVars
  <1>2. Waits(e)' <=> Waits(e)
    BY <1>1 DEF Waits
  <1>3. Known(c, e) => Known(c, e)'
    BY <1>1 DEF Known, Live
  <1>4. ASSUME Due(c, e) PROVE Due(c, e)'
    <2>1. Takes(queue', queue) /\ 1 \in DOMAIN queue /\ Head(queue) = queue[1]
      <3>1. Takes(queue', queue)
        BY <1>1, Taken, LogTypes
      <3>. QED
        BY <3>1 DEF Takes
    <2>2. /\ Written(e) => Written(e)'
          /\ Written(e) \/ e = unwritten \/ IsEvent(queue[1], e) => Written(e)' \/ e = unwritten'
          /\ queue[1].kind = "flush" /\ (Written(e) \/ e = unwritten) => Written(e)'
      BY PersistKeeps
    <2>3. InFlight(c, e)' <=> InFlight(c, e)
      BY <1>1 DEF InFlight, IsReplay
    <2>4. ASSUME load[c] = "reflush", Marker(c) \in acked'
          PROVE  Written(e)'
      <3>1. Marker(c) \in acked \/ queue[1] = Marker(c)
        BY <2>1, <2>4 DEF Persist
      <3>2. CASE queue[1] = Marker(c)
        <4>1. Before(e, 1)
          BY <1>4, <2>1, <2>4, <3>2 DEF Due
        <4>2. \A k \in DOMAIN queue : ~(k < 1)
          BY <2>1 DEF Takes
        <4>3. queue[1].kind = "flush"
          BY <3>2 DEF Marker, FlushBy
        <4>. QED
          BY <2>2, <4>1, <4>2, <4>3 DEF Before
      <3>. QED
        BY <1>4, <2>2, <2>4, <3>1, <3>2 DEF Due
    <2>5. ASSUME load[c] = "reflush", NEW i \in DOMAIN queue', queue'[i] = Marker(c)
          PROVE  \/ Written(e)' \/ e = unwritten'
                 \/ \E k \in DOMAIN queue' : k < i /\ IsEvent(queue'[k], e)
      <3>1. i \in Nat /\ i + 1 \in DOMAIN queue /\ queue[i + 1] = Marker(c)
        BY <2>1, <2>5 DEF Takes
      <3>2. Before(e, i + 1)
        BY <1>4, <2>5, <3>1 DEF Due
      <3>3. CASE \E k \in DOMAIN queue : k < i + 1 /\ IsEvent(queue[k], e)
        <4>1. PICK k \in DOMAIN queue : k < i + 1 /\ IsEvent(queue[k], e)
          BY <3>3
        <4>2. CASE k = 1
          BY <2>2, <4>1, <4>2
        <4>3. CASE k # 1
          <5>1. k \in Nat /\ k - 1 \in DOMAIN queue' /\ queue'[k - 1] = queue[k]
            BY <2>1, <4>3 DEF Takes
          <5>2. k - 1 < i
            BY <3>1, <4>1, <5>1
          <5>. QED
            BY <4>1, <5>1, <5>2
        <4>. QED
          BY <4>2, <4>3
      <3>. QED
        BY <2>2, <3>2, <3>3 DEF Before
    <2>6. /\ load'[c] \in Ended => InFlight(c, e)'
          /\ load'[c] = "delta" => Written(e)'
      BY <1>1, <1>4, <2>2, <2>3 DEF Due
    <2>. QED
      BY <1>1, <2>4, <2>5, <2>6 DEF Due, Before, Marker, FlushBy, IsEvent, Ended
  <1>. QED
    BY <1>2, <1>3, <1>4 DEF AccountedFor

\* A step that only adds to what the leader is sent.
LEMMA KnownStays ==
  ASSUME NEW c, NEW e, Known(c, e), GotStep(c),
         UNCHANGED <<emitting, shut, overtaken>>,
         \A i \in DOMAIN out : out[i] = Live(e) => \E j \in DOMAIN out' : out'[j] = Live(e),
         c \in DOMAIN buffer => c \in DOMAIN buffer' /\ buffer'[c] = buffer[c]
  PROVE  Known(c, e)'
  <1>1. (\E i \in DOMAIN got[c] : got[c][i].seq = e) => \E i \in DOMAIN got'[c] : got'[c][i].seq = e
    BY DEF GotStep
  <1>. QED
    BY <1>1 DEF Known, Live

\* The second read finds what the acknowledged flush has written.
LEMMA LoadAccounted ==
  ASSUME Typed, Log, ReplayLine, Unmarked, NEW d \in Loaders, LoadStep(d),
         ~LoadReflushTimeout(d), ~LoadError(d),
         NEW c \in clients, c \in Clients, NEW e \in Ids, AccountedFor(c, e)
  PROVE  AccountedFor(c, e)'
  <1>0. load \in [Loaders -> LoadPcs] /\ [Next]_vars
    BY DEF Typed, LoadTyped, Next
  <1>1. UNCHANGED <<stream, emitting, shut, overtaken, queue, unwritten, file, acked,
                    clients, buffer, got>>
    BY DEF LoadStep, LoadClose, LoadFlushed, LoadError, LoadRead, LoadReflushed,
       LoadReflushTimeout, LoadDelta, LoadOpen, LoadAnswer, leaderVars, diskVars, threadVars
  <1>2. Waits(e)' <=> Waits(e)
    BY <1>1 DEF Waits
  <1>3. Quietly
    BY LoadsQuietly
  <1>4. Known(c, e) => Known(c, e)'
    <2>1. GotStep(c)
      BY <1>0, GotSteps
    <2>2. \A i \in DOMAIN out : out[i] = Live(e) => \E j \in DOMAIN out' : out'[j] = Live(e)
      BY <1>3 DEF Quietly
    <2>. QED
      BY <1>1, <2>1, <2>2, KnownStays
  <1>5. InFlight(c, e) => InFlight(c, e)'
    BY <1>3 DEF Quietly, InFlight, IsReplay
  <1>6. ASSUME c \in Loaders, Due(c, e)
        PROVE  Due(c, e)' \/ Known(c, e)'
    <2>1. CASE load'[c] = load[c]
      BY <1>1, <1>5, <1>6, <2>1 DEF Due, Written, Before, IsEvent, Marker, FlushBy, Ended
    <2>2. CASE d = c
      <3>1. CASE LoadClose(c) \/ LoadFlushed(c)
        <4>1. load'[c] \in {"flush", "read"}
          BY <1>0, <1>6, <3>1 DEF LoadClose, LoadFlushed, GotoLoad
        <4>. QED
          BY <4>1 DEF Due, Ended
      <3>2. CASE LoadRead(c)
        <4>1. load'[c] = "reflush" /\ load[c] \in Early
          BY <1>0, <1>6, <3>2 DEF LoadRead, GotoLoad, At, Early
        <4>2. Marker(c) \notin acked' /\ \A i \in DOMAIN queue' : queue'[i] # Marker(c)
          BY <1>1, <1>6, <4>1 DEF Unmarked
        <4>3. load'[c] \notin Ended /\ load'[c] # "delta"
          BY <4>1 DEF Ended
        <4>. QED
          BY <4>2, <4>3 DEF Due, Marker, FlushBy, Ended
      <3>3. CASE LoadReflushed(c)
        <4>1. load'[c] = "delta" /\ load[c] = "reflush" /\ Marker(c) \in acked
          BY <1>0, <1>6, <3>3 DEF LoadReflushed, GotoLoad, At, Marker
        <4>2. Written(e)'
          BY <1>1, <1>6, <4>1 DEF Due, Written
        <4>. QED
          BY <4>1, <4>2 DEF Due, Ended
      <3>4. CASE LoadDelta(c)
        <4>1. load[c] = "delta" /\ Written(e) /\ Line(c)
          BY <1>6, <3>4 DEF LoadDelta, At, Due, ReplayLine
        <4> DEFINE o == offset[c]
                   lines == SubSeq(file, o + 1, Len(file))
                   l == Lines(c)
        <4>2. /\ lines \in Seq(Ids) /\ out' = out \o Replays(c, lines)
              /\ Len(l) = o /\ Starts(l, file) /\ l \in Seq(Nat)
          BY <1>6, <3>4, <4>1, DeltaTyped, LinesTyped DEF LoadDelta, Line
        <4>3. /\ Replays(c, lines) \in Seq(Sends)
              /\ Len(Replays(c, lines)) = Len(lines) /\ Len(lines) \in Nat
              /\ \A i \in 1..Len(lines) : Replays(c, lines)[i] = Replay(c, lines[i])
          BY <1>6, <4>2, ReplaysTyped
        <4>4. PICK n \in DOMAIN file : file[n] = e
          BY <4>1 DEF Written
        <4>5. file \in Seq(Ids) /\ DOMAIN file = 1..Len(file) /\ Len(file) \in Nat /\ o \in Nat
          BY <1>6, LogTypes DEF Typed, LoadTyped
        <4>6. \A i \in 1..(Len(file) - o) : lines[i] = file[o + i] /\ i \in 1..Len(lines)
          BY <4>5
        <4> HIDE DEF lines, l, o
        <4>7. CASE n <= Len(l)
          <5>1. n \in 1..Len(l) /\ l[n] = e
            BY <4>2, <4>4, <4>5, <4>7 DEF Starts
          <5>2. InLine(c, e)
            BY <1>6, <5>1, LineIds DEF l
          <5>3. CASE InFlight(c, e)
            <6>1. InFlight(c, e)'
              BY <1>5, <5>3
            <6>2. load'[c] = "open"
              BY <1>0, <1>6, <3>4 DEF LoadDelta, GotoLoad
            <6>. QED
              BY <6>1, <6>2 DEF Due
          <5>4. CASE HasReplay(c, e)
            BY <1>4, <5>4 DEF HasReplay, Known
          <5>. QED
            BY <5>2, <5>3, <5>4 DEF InLine
        <4>8. CASE n > Len(l)
          <5>1. n - o \in 1..(Len(file) - o) /\ o + (n - o) = n
            BY <4>2, <4>4, <4>5, <4>8
          <5>2. n - o \in 1..Len(lines) /\ lines[n - o] = e
            BY <4>4, <4>6, <5>1
          <5> DEFINE s == Replays(c, lines)
                     p == n - o
          <5>3. s[p] = Replay(c, e) /\ p \in 1..Len(s) /\ s \in Seq(Sends) /\ out \in Seq(Sends)
            BY <4>3, <5>2, WireTypes
          <5>4. out' = out \o s
            BY <4>2
          <5> HIDE DEF s, p
          <5>5. Len(out) + p \in DOMAIN out' /\ out'[Len(out) + p] = s[p]
            BY ONLY <5>3, <5>4
          <5>6. InFlight(c, e)'
            <6>1. IsReplay(Replay(c, e), c) /\ Replay(c, e).seq = e
              BY DEF IsReplay, Replay
            <6>2. \E i \in DOMAIN out' : out'[i] = Replay(c, e)
              BY <5>3, <5>5
            <6>. QED
              BY <6>1, <6>2 DEF InFlight, IsReplay
          <5>7. load'[c] = "open"
            BY <1>0, <1>6, <3>4 DEF LoadDelta, GotoLoad
          <5>. QED
            BY <5>6, <5>7 DEF Due
        <4>. QED
          BY <4>2, <4>4, <4>5, <4>7, <4>8
      <3>5. CASE LoadOpen(c) \/ LoadAnswer(c)
        <4>1. load[c] \in Ended /\ load'[c] \in {"answer", "done"}
          BY <1>0, <1>6, <3>5 DEF LoadOpen, LoadAnswer, GotoLoad, At, Ended
        <4>. QED
          BY <1>5, <1>6, <4>1 DEF Due, Ended
      <3>. QED
        BY <2>2, <3>1, <3>2, <3>3, <3>4, <3>5 DEF LoadStep
    <2>3. CASE d # c
      <3>1. load'[c] = load[c]
        BY <1>0, <1>6, <2>3 DEF LoadStep, LoadClose, LoadFlushed, LoadError, LoadRead, LoadReflushed,
           LoadReflushTimeout, LoadDelta, LoadOpen, LoadAnswer, GotoLoad
      <3>. QED
        BY <2>1, <3>1
    <2>. QED
      BY <2>2, <2>3
  <1>. QED
    BY <1>2, <1>4, <1>6 DEF AccountedFor

\* For a client that attaches everything is still due.
LEMMA ClientAccounted ==
  ASSUME Typed, NEW d \in Loaders, ServerLoad(d) \/ ServerDisconnected(d),
         NEW c \in clients', c \in Clients, NEW e \in Ids,
         c \in clients => AccountedFor(c, e)
  PROVE  AccountedFor(c, e)'
  <1>0. load \in [Loaders -> LoadPcs] /\ [Next]_vars
    BY DEF Typed, LoadTyped, Next
  <1>1. UNCHANGED <<stream, emitting, shut, overtaken, queue, unwritten, file, acked, out, got>>
    BY DEF ServerLoad, ServerDisconnected, agentVars, diskVars, threadVars
  <1>2. CASE ServerLoad(d) /\ d = c
    <2>1. load'[c] = "close"
      BY <1>0, <1>2 DEF ServerLoad, GotoLoad
    <2>. QED
      BY <1>2, <2>1 DEF AccountedFor, Due, Ended
  <1>3. CASE ~(ServerLoad(d) /\ d = c)
    <2>1. c \in clients /\ (c \in Loaders => load'[c] = load[c])
          /\ (c \in DOMAIN buffer => c \in DOMAIN buffer' /\ buffer'[c] = buffer[c])
      BY <1>0, <1>3 DEF ServerLoad, ServerDisconnected, GotoLoad, With, Without, Restrict
    <2>2. Waits(e)' <=> Waits(e)
      BY <1>1 DEF Waits
    <2>3. Known(c, e) => Known(c, e)'
      <3>1. GotStep(c)
        BY <1>0, GotSteps
      <3>. QED
        BY <1>1, <2>1, <3>1, KnownStays
    <2>4. c \in Loaders /\ Due(c, e) => Due(c, e)'
      BY <1>1, <2>1 DEF Due, Written, InFlight, IsReplay, Before, IsEvent, Marker, FlushBy, Ended
    <2>. QED
      BY <2>1, <2>2, <2>3, <2>4 DEF AccountedFor
  <1>. QED
    BY <1>2, <1>3

\* The answer's flushed tail leaves out only what was replayed, or overtaken.
LEMMA TailAccounted ==
  ASSUME Typed, Log, ReplayLine, Cutoff, NEW c \in Loaders, ServerRespond,
         Head(out).to = c, c \in DOMAIN buffer,
         NEW e \in Ids, NEW i \in DOMAIN buffer[c], buffer[c][i] = e
  PROVE  Known(c, e)'
  <1>0. /\ buffer[c] \in Seq(Ids) /\ DOMAIN buffer[c] = 1..Len(buffer[c])
        /\ c \in Clients /\ got[c] \in Seq(Entries) /\ [Next]_vars
    BY WireTypes DEF Next, ServerReceive
  <1>1. got'[c] = got[c] \o BufferedTail(c) /\ UNCHANGED overtaken
    BY <1>0, WireTypes DEF ServerRespond, agentVars, diskVars
  <1>2. GotStep(c)
    BY <1>0, GotSteps
  <1>3. Line(c) /\ Cut(c)
    BY DEF ReplayLine, Cutoff
  <1>4. CASE c \in DOMAIN maxSeq /\ e <= maxSeq[c]
    <2> DEFINE m == maxSeq[c]
               r == Replayed(c)
    <2>1. HasReplay(c, m) /\ m \in Ids
      BY <1>3, <1>4, WireTypes DEF Cut
    <2>2. r \in Seq(Nat) /\ Starts(r, file) /\ file \in Seq(Nat)
          /\ DOMAIN file = 1..Len(file) /\ Len(file) \in Nat
      BY <1>3, LinesTyped DEF Line
    <2>3. \A f : HasReplay(c, f) <=> \E n \in 1..Len(r) : r[n] = f
      BY ReplayedIds
    <2> HIDE DEF m, r
    <2>4. PICK p \in 1..Len(r) : r[p] = m
      BY <2>1, <2>3
    <2>5. p \in DOMAIN file /\ file[p] = m /\ Len(r) \in Nat
      BY <2>2, <2>4 DEF Starts
    <2>6. HasReplay(c, e) \/ e \in overtaken
      <3>1. CASE e = m
        BY <2>1, <3>1
      <3>2. CASE e # m
        <4>1. e < m
          BY <1>4, <2>1, <3>2, LogTypes DEF m
        <4>2. e \in overtaken \/ \E k \in DOMAIN file : k < p /\ file[k] = e
          BY <2>5, <4>1 DEF Log, FileInOrder
        <4>3. ASSUME NEW k \in DOMAIN file, k < p, file[k] = e
              PROVE  HasReplay(c, e)
          <5>1. k \in 1..Len(r)
            BY <2>2, <2>4, <2>5, <4>3
          <5>2. r[k] = e
            BY <2>2, <4>3, <5>1 DEF Starts
          <5>. QED
            BY <2>3, <5>1, <5>2
        <4>. QED
          BY <4>2, <4>3
      <3>. QED
        BY <3>1, <3>2
    <2>. QED
      BY <1>1, <1>2, <2>6 DEF HasReplay, GotStep, Known
  <1>5. CASE c \in DOMAIN maxSeq => e > maxSeq[c]
    <2> DEFINE S == {f \in Events : c \in DOMAIN maxSeq => f > maxSeq[c]}
               n == Newer(c)
               b == buffer[c]
    <2>1. PICK at : Selects(at, n, b, Len(b), S)
      BY <1>0, KeptSelects DEF Newer
    <2>2. Ids \subseteq Events
      <3>1. minted \in Nat /\ minted <= MaxEvents /\ MaxEvents \in Nat
        BY LoadAssumption DEF Typed, ThreadTyped
      <3>. QED
        BY <3>1 DEF Ids, Events
    <2>3. e \in S
      BY <1>5, <2>2
    <2> HIDE DEF n, S
    <2>4. PICK k \in 1..Len(n) : at[k] = i
      <3>1. i \in 1..Len(b) /\ b[i] = e
        BY <1>0
      <3> HIDE DEF b
      <3>. QED
        BY <2>1, <2>3, <3>1 DEF Selects
    <2>5. n[k] = e
      BY <2>1, <2>4 DEF Selects
    <2> DEFINE t == BufferedTail(c)
               g == got[c]
               q == got'[c]
    <2>6. /\ t \in Seq(Entries) /\ Len(t) = Len(n) /\ Len(n) \in Nat
          /\ t[k] = [seq |-> n[k], replay |-> FALSE]
      <3>1. /\ t \in Seq(Entries) /\ Len(t) = Len(Newer(c)) /\ Len(Newer(c)) \in Nat
            /\ \A x \in 1..Len(Newer(c)) : t[x] = [seq |-> Newer(c)[x], replay |-> FALSE]
        BY BufferedTailTyped DEF Typed, ThreadTyped
      <3> HIDE DEF t
      <3>2. n = Newer(c)
        BY DEF n
      <3>. QED
        BY ONLY <2>4, <3>1, <3>2
    <2>7. t[k].seq = e /\ k \in 1..Len(t)
      <3> HIDE DEF t
      <3>. QED
        BY ONLY <2>4, <2>5, <2>6
    <2>8. q = g \o t /\ g \in Seq(Entries) /\ t \in Seq(Entries)
      BY <1>0, <1>1, <2>6
    <2> HIDE DEF t, g, q
    <2>9. Len(g) + k \in DOMAIN q /\ q[Len(g) + k] = t[k]
      BY ONLY <2>7, <2>8
    <2>. QED
      BY <2>7, <2>9 DEF q, Known
  <1>. QED
    <2>1. c \in DOMAIN maxSeq => maxSeq[c] \in Nat
      BY WireTypes, LogTypes
    <2>2. e \in Nat
      BY LogTypes
    <2>. QED
      BY <1>4, <1>5, <2>1, <2>2

\* What the leader takes is held back or sent.
LEMMA ReceiveAccounted ==
  ASSUME Typed, Log, ReplayLine, Cutoff, ServerReceive,
         NEW c \in clients, c \in Clients, NEW e \in Ids, AccountedFor(c, e)
  PROVE  AccountedFor(c, e)'
  <1>0. /\ UNCHANGED <<stream, emitting, shut, overtaken, queue, unwritten, file, acked, load>>
        /\ out # <<>> /\ out' = Tail(out) /\ [Next]_vars
    BY DEF ServerReceive, ServerFanOut, ServerUnicast, ServerRespond, agentVars, threadVars,
       diskVars, Next
  <1>1. Takes(out', out) /\ Head(out) \in Sends /\ Head(out) = out[1]
    <2>1. Takes(out', out) /\ Head(out) \in Sends
      BY <1>0, Taken, WireTypes
    <2>. QED
      BY <2>1 DEF Takes
  <1>2. GotStep(c)
    BY <1>0, GotSteps
  <1>3. got \in [Clients -> Seq(Entries)] /\ got[c] \in Seq(Entries)
    BY WireTypes
  <1>4. ASSUME NEW m \in Entries, got'[c] = Append(got[c], m), m.seq = e
        PROVE  Known(c, e)'
    <2>1. Adds(got'[c], got[c], m)
      BY <1>3, <1>4, Added
    <2>. QED
      BY <1>4, <2>1 DEF Adds, Known
  <1>5. Waits(e)' <=> Waits(e)
    BY <1>0 DEF Waits
  <1>6. ASSUME c \in Loaders, InFlight(c, e)
        PROVE  InFlight(c, e)' \/ Known(c, e)'
    <2>1. PICK i \in DOMAIN out : IsReplay(out[i], c) /\ out[i].seq = e
      BY <1>6 DEF InFlight
    <2>2. CASE i = 1
      <3>1. Head(out).kind = "replay" /\ Head(out).to = c /\ Head(out).seq = e
        BY <1>1, <2>1, <2>2 DEF IsReplay
      <3> DEFINE m == [seq |-> Head(out).seq, replay |-> TRUE]
      <3>2. m \in Entries /\ m.seq = e
        BY <3>1 DEF Entries
      <3>3. got'[c] = Append(got[c], m)
        BY <1>3, <3>1 DEF ServerReceive, ServerFanOut, ServerUnicast, ServerRespond, Sent
      <3> HIDE DEF m
      <3>. QED
        BY <1>4, <3>2, <3>3
    <2>3. CASE i # 1
      BY <1>1, <2>1, <2>3 DEF Takes, InFlight, IsReplay
    <2>. QED
      BY <2>2, <2>3
  <1>7. ASSUME c \in Loaders, Due(c, e)
        PROVE  Due(c, e)' \/ Known(c, e)'
    <2>1. load'[c] \in Ended => InFlight(c, e)' \/ Known(c, e)'
      BY <1>0, <1>6, <1>7 DEF Due
    <2>. QED
      BY <1>0, <1>7, <2>1 DEF Due, Written, Before, IsEvent, Marker, FlushBy, Ended
  <1>8. ASSUME NEW i \in DOMAIN out, out[i] = Live(e)
        PROVE  Known(c, e)'
    <2>1. CASE i = 1
      <3>1. Head(out).kind = "live" /\ Head(out).seq = e
        BY <1>1, <1>8, <2>1 DEF Live
      <3>2. ServerFanOut
        BY <3>1 DEF ServerReceive, ServerUnicast, ServerRespond
      <3> DEFINE m == [seq |-> Head(out).seq, replay |-> FALSE]
      <3>3. m \in Entries /\ m.seq = e
        BY <3>1 DEF Entries
      <3>4. CASE Holds(c)
        <4>1. /\ c \in DOMAIN buffer /\ c \in DOMAIN buffer' /\ buffer'[c] = Append(buffer[c], e)
              /\ buffer[c] \in Seq(Ids)
          BY <3>1, <3>2, <3>4, WireTypes DEF ServerFanOut, Holds
        <4>2. Adds(buffer'[c], buffer[c], e)
          BY <4>1, Added
        <4>. QED
          BY <4>1, <4>2 DEF Adds, Known
      <3>5. CASE ~Holds(c)
        <4>1. got'[c] = Append(got[c], m)
          BY <1>3, <3>2, <3>5 DEF ServerFanOut, Sent
        <4> HIDE DEF m
        <4>. QED
          BY <1>4, <3>3, <4>1
      <3>. QED
        BY <3>4, <3>5
    <2>2. CASE i # 1
      <3>1. \E j \in DOMAIN out' : out'[j] = Live(e)
        BY <1>1, <1>8, <2>2 DEF Takes
      <3>. QED
        BY <3>1 DEF Known, Live
    <2>. QED
      BY <2>1, <2>2
  <1>9. ASSUME c \in DOMAIN buffer, NEW i \in DOMAIN buffer[c], buffer[c][i] = e
        PROVE  Known(c, e)'
    <2>0. c \in Loaders /\ buffer[c] \in Seq(Ids)
      BY <1>9, WireTypes
    <2>1. CASE ServerFanOut
      <3>1. c \in DOMAIN buffer' /\ (buffer'[c] = buffer[c] \/ buffer'[c] = Append(buffer[c], Head(out).seq))
        BY <1>9, <2>1 DEF ServerFanOut
      <3>2. Head(out).seq \in Ids
        BY <1>1, <2>1 DEF ServerFanOut, Sends
      <3>3. CASE buffer'[c] = buffer[c]
        BY <1>9, <3>1, <3>3 DEF Known
      <3>4. CASE buffer'[c] = Append(buffer[c], Head(out).seq)
        <4>1. Adds(buffer'[c], buffer[c], Head(out).seq)
          BY <2>0, <3>2, <3>4, Added
        <4>. QED
          BY <1>9, <3>1, <4>1 DEF Adds, Known
      <3>. QED
        BY <3>1, <3>3, <3>4
    <2>2. CASE ServerUnicast
      BY <1>9, <2>2 DEF ServerUnicast, Known
    <2>3. CASE ServerRespond /\ Head(out).to = c
      BY <1>9, <2>0, <2>3, TailAccounted
    <2>4. CASE ServerRespond /\ Head(out).to # c
      <3>1. c \in DOMAIN buffer' /\ buffer'[c] = buffer[c]
        BY <1>9, <2>4 DEF ServerRespond, Without, Restrict
      <3>. QED
        BY <1>9, <3>1 DEF Known
    <2>. QED
      BY <2>1, <2>2, <2>3, <2>4 DEF ServerReceive
  <1>10. (\E i \in DOMAIN got[c] : got[c][i].seq = e) => Known(c, e)'
    BY <1>2 DEF GotStep, Known
  <1>11. Known(c, e) => Known(c, e)'
    <2>1. (e = emitting \/ e \in shut \/ e \in overtaken) => Known(c, e)'
      BY <1>0 DEF Known
    <2>. QED
      BY <1>8, <1>9, <1>10, <2>1 DEF Known
  <1>. QED
    BY <1>5, <1>7, <1>11 DEF AccountedFor

\* While nothing timed out or failed every event stays accounted for.
LEMMA AccountedStep ==
  ASSUME Typed, Log, ReplayLine, Cutoff, Unmarked, Accounted, [Next]_vars
  PROVE  Accounted'
  <1> SUFFICES ASSUME timeouts' = 0, errors' = 0, NEW c \in clients', NEW e \in Ids'
               PROVE  AccountedFor(c, e)'
    BY DEF Accounted
  <1>0. /\ timeouts = 0 /\ errors = 0
        /\ \A d \in Loaders : ~LoadReflushTimeout(d) /\ ~LoadError(d)
    BY TimeoutsGrow, ErrorsGrow
  <1>1. c \in clients /\ e \in Ids => AccountedFor(c, e)
    BY <1>0 DEF Accounted
  <1>2. c \in Clients
    <2>1. Typed'
      BY TypedStep
    <2>2. clients' \subseteq Clients
      BY <2>1 DEF Typed, LeaderTyped, Clients
    <2>. QED
      BY <2>2
  <1>3. CASE StampAcp \/ EmitXai \/ SessionStep
    <2>1. c \in clients
      BY <1>3 DEF StampAcp, EmitXai, SessionStep, EmitAcp, Forward, Flush, leaderVars
    <2>. QED
      BY <1>1, <1>2, <1>3, <2>1, SessionAccounted
  <1>4. CASE Persist \/ ServerReceive \/ UNCHANGED vars
    <2>1. c \in clients /\ e \in Ids
      BY <1>4 DEF Persist, ServerReceive, ServerFanOut, ServerUnicast, ServerRespond, vars,
         leaderVars, agentVars, threadVars, Ids
    <2>2. CASE UNCHANGED vars
      <3>1. UNCHANGED <<stream, emitting, shut, overtaken, out, buffer, got, load, file, acked,
                        queue, unwritten>>
        BY <2>2 DEF vars
      <3>. QED
        BY <1>1, <2>1, <3>1 DEF AccountedFor, Waits, Known, Due, Written, InFlight, IsReplay,
           Before, IsEvent, Marker, FlushBy, Ended, Live
    <2>. QED
      BY <1>1, <1>2, <1>4, <2>1, <2>2, PersistAccounted, ReceiveAccounted
  <1>5. ASSUME NEW d \in Loaders, LoadStep(d)
        PROVE  AccountedFor(c, e)'
    <2>1. c \in clients /\ e \in Ids
      BY <1>5 DEF LoadStep, LoadClose, LoadFlushed, LoadError, LoadRead, LoadReflushed,
       LoadReflushTimeout, LoadDelta, LoadOpen, LoadAnswer, leaderVars, threadVars, Ids
    <2>. QED
      BY <1>0, <1>1, <1>2, <1>5, <2>1, LoadAccounted
  <1>6. ASSUME NEW d \in Loaders, ServerLoad(d) \/ ServerDisconnected(d)
        PROVE  AccountedFor(c, e)'
    <2>1. e \in Ids
      BY <1>6 DEF ServerLoad, ServerDisconnected, agentVars, threadVars, Ids
    <2>. QED
      BY <1>1, <1>2, <1>6, <2>1, ClientAccounted
  <1>. QED
    BY <1>3, <1>4, <1>5, <1>6 DEF Next

\* Once everything has been delivered, what is accounted for has been sent.
LEMMA MissesAccounted ==
  ASSUME Typed, Order, Tables, Accounted
  PROVE  MissesExplained
  <1> SUFFICES ASSUME Settled, timeouts = 0, errors = 0, NEW c \in clients, c \notin spilled,
                      NEW e \in Ids, e \notin shut, e \notin overtaken
               PROVE  e \in Shown(c)
    BY DEF MissesExplained, Ids
  <1>1. AccountedFor(c, e)
    BY DEF Accounted
  <1>2. stream = <<>> /\ emitting = 0 /\ out = <<>> /\ c \in Clients /\ DOMAIN out = {} /\ e # 0
    BY WireTypes DEF Settled, Ids
  <1>3. ~Waits(e)
    BY <1>2 DEF Waits
  <1>4. c \in Loaders => load[c] = "done"
    BY DEF Settled, Order, NotThere
  <1>5. c \notin DOMAIN buffer
    BY <1>2, <1>4, WireTypes DEF Tables, Owed, Answered
  <1>6. c \in Loaders => ~Due(c, e)
    BY <1>2, <1>4 DEF Due, InFlight, Ended
  <1>7. PICK i \in DOMAIN got[c] : got[c][i].seq = e
    BY <1>1, <1>2, <1>3, <1>5, <1>6 DEF AccountedFor, Known
  <1>8. Applied(c) = DOMAIN got[c]
    BY <1>2, OrderApplied DEF LiveInOrder
  <1>. QED
    BY <1>7, <1>8 DEF Shown

-----------------------------------------------------------------------------
StreamInv ==
  /\ IInv /\ Typed /\ Log /\ Order /\ ReplayLine /\ Cutoff /\ CreatorLive
  /\ Raced /\ RacedGot /\ Unmarked /\ Accounted

\* Every step keeps the invariant, ...
LEMMA StreamInvStep == StreamInv /\ [Next]_vars => StreamInv'
  <1> SUFFICES ASSUME StreamInv, [Next]_vars PROVE StreamInv'
    OBVIOUS
  <1>1. /\ IInv /\ Typed /\ Log /\ Order /\ ReplayLine /\ Cutoff /\ CreatorLive
        /\ Raced /\ RacedGot /\ Unmarked /\ Accounted
    BY DEF StreamInv
  <1>2. Wire /\ Tables
    BY <1>1 DEF IInv
  <1>3. NotThere
    BY <1>1 DEF Order
  <1>4. IInv' /\ Typed' /\ Log' /\ Order' /\ ReplayLine'
    BY <1>1, <1>2, StepOK, TypedStep, LogStep, OrderStep, ReplayLineStep
  <1>5. Cutoff' /\ CreatorLive'
    BY <1>1, <1>2, <1>3, CutoffStep, CreatorLiveStep
  <1>6. Raced' /\ RacedGot'
    BY <1>1, <1>2, RacedStep, RacedGotStep
  <1>7. Unmarked' /\ Accounted'
    BY <1>1, UnmarkedStep, AccountedStep
  <1>. QED
    BY <1>4, <1>5, <1>6, <1>7 DEF StreamInv

\* ... which holds at the start, ...
LEMMA StreamInvInit == Init => StreamInv
  <1> SUFFICES ASSUME Init PROVE StreamInv
    OBVIOUS
  <1>1. IInv /\ Typed /\ Log /\ Order /\ ReplayLine
    BY InitOK, TypedInit, LogInit, OrderInit, ReplayLineInit
  <1>2. /\ buffer = <<>> /\ out = <<>> /\ queue = <<>> /\ cmds = <<>> /\ acked = {}
        /\ \A c \in Clients : got[c] = <<>>
        /\ Ids = {}
    BY DEF Init, Ids
  <1>3. Loaders \subseteq Clients /\ Creator \in Clients
    BY DEF Clients
  <1>4. Cutoff /\ CreatorLive
    BY <1>2, <1>3 DEF Cutoff, Cut, CreatorLive
  <1>5. Raced /\ RacedGot
    BY <1>2, <1>3 DEF Raced, RacedBy, RacedGot, RacedIn
  <1>6. Unmarked /\ Accounted
    BY <1>2 DEF Unmarked, Accounted
  <1>. QED
    BY <1>1, <1>4, <1>5, <1>6 DEF StreamInv

\* ... and therefore always.
LEMMA StreamInvHolds == Spec => []StreamInv
  BY StreamInvInit, StreamInvStep, PTL DEF Spec

\* Every variable of the event stream has its type: the session's counters, the
\* mailboxes, the file, the leader's tables and what the clients were sent.
THEOREM TypeCorrect == Spec => []TypeOK
  <1>1. StreamInv => TypeOK
    BY TypedIsTypeOK DEF StreamInv
  <1>. QED
    BY <1>1, StreamInvHolds, PTL

\* The leader holds live events back until session/load is answered: unless the
\* buffer overflows, a loader is sent no live event before the last replayed one.
THEOREM ReplayComesFirst == Spec => []ReplayBeforeLive
  <1>1. StreamInv => ReplayBeforeLive
    BY DEF StreamInv, Order
  <1>. QED
    BY <1>1, StreamInvHolds, PTL

\* A client's dedup drops no live event that it was not sent before: the live events
\* of each stream reach it in the order of their ids, the flushed tail included.
THEOREM NothingDropped == Spec => []LiveInOrder
  <1>1. StreamInv => LiveInOrder
    BY OrderApplied DEF StreamInv
  <1>. QED
    BY <1>1, StreamInvHolds, PTL

\* The two reads of session/load replay a prefix of updates.jsonl, without a gap or
\* an overlap, however much the persistence actor appends between them.
THEOREM ReplaysJoin == Spec => []ReplayIsPrefix
  <1>1. StreamInv => ReplayIsPrefix
    BY ReplayLinePrefix DEF StreamInv
  <1>. QED
    BY <1>1, StreamInvHolds, PTL

\* A client is shown an event twice only if it was persisted and not yet forwarded
\* when a delta was read, a flush timed out or a buffer overflowed.
THEOREM TwiceIsRaced == Spec => []TwiceExplained
  <1>1. StreamInv => TwiceExplained
    BY TwiceRaced DEF StreamInv
  <1>. QED
    BY <1>1, StreamInvHolds, PTL

\* When everything has been delivered, and no flush timed out, no load failed and no
\* buffer overflowed, an attached client misses only events that found the gate
\* closed or were overtaken in the file by an xAI event.
THEOREM MissesAreKnown == Spec => []MissesExplained
  <1>1. StreamInv => MissesExplained
    <2> SUFFICES ASSUME StreamInv PROVE MissesExplained
      OBVIOUS
    <2>1. Typed /\ Order /\ Accounted /\ IInv
      BY DEF StreamInv
    <2>. QED
      BY <2>1, MissesAccounted DEF IInv
  <1>. QED
    BY <1>1, StreamInvHolds, PTL

\* However loads, answers and disconnections interleave, load_live_buffer and
\* pending_load_by_req name exactly the connected clients whose session/load is not
\* answered, and a replay cutoff is never kept for any other.
THEOREM HeldWhileLoading == Spec => []LoadTables
  <1>1. IInv => LoadTables
    BY AnsweredIsIn DEF IInv, Wire, Tables, LoadTables, Owed
  <1>. QED
    BY <1>1, InitOK, StepOK, PTL DEF Spec
=============================================================================
