------------------------ MODULE SessionRoutesProofs ------------------------
(***************************************************************************)
(* Safety of SessionRoutes for any number of clients, subagents, requests  *)
(* and interactions.                                                       *)
(*                                                                         *)
(* OpenInteractionsShown is not inductive: a client that has loaded sees a *)
(* new interaction because it is still subscribed to the root, and an old  *)
(* one because the leader's cache misses none that is open.                *)
(*                                                                         *)
(* Nor are the properties of the routes.  Who views a subagent follows     *)
(* from what the index of children holds, that from the order in which the *)
(* file has spawns and finishes, and that from how much of the file each   *)
(* load has still to send: RoutesInv, below, says it of all of them.       *)
(***************************************************************************)
EXTENDS SessionRoutes, FiniteSetTheorems, TLAPS

\* The next event of a replay is one of the file's, and no read, nor a flush, is
\* ahead of what was sent to the mailbox.
ReplayInFile ==
  /\ written <= Len(history)
  /\ \A q \in Requests : /\ request[q].at <= request[q].upto
                         /\ request[q].upto <= written
                         /\ request[q].flushed <= Len(history)

\* Who made a request is connected or has left for good: ids are not reused.
AskersKnown == \A q \in Requests :
  /\ request[q].phase # "free" => request[q].by \in clients \union gone
  /\ request[q].phase = "free" => request[q].by = None

\* A client that asked for a load stays subscribed to the root until it leaves.
LoadersViewRoot == \A q \in Requests :
  request[q].kind = "load" /\ request[q].by \in clients
    => request[q].by \in session_subscribers[Root]

\* The cache misses no interaction that is open.
OpenIsCached == \A i \in Interactions :
  question[i].state = "open" => i \in interaction_requests[question[i].under]

\* What is cached was asked, and under the session that it is cached for.
CachedUnderIts == \A s \in Sessions : \A i \in interaction_requests[s] :
  question[i].state # "idle" /\ question[i].under = s

\* The requests that the agent has not answered.
Owed == {q \in Requests : request[q].phase \in Unanswered}

IInv == /\ TypeOK /\ ReplayInFile /\ AskersKnown /\ LoadersViewRoot
        /\ OpenIsCached /\ CachedUnderIts /\ CachedIsOpen /\ OpenInteractionsShown

RequestType == [by : Clients \union {None}, kind : {"new", "load"},
                phase : {"free", "asked", "flush", "first", "reflush", "delta", "reconciled",
                         "done", "failed"},
                flushed : Nat, at : Nat, upto : Nat, unfinished : SUBSET Subagents]
-----------------------------------------------------------------------------
(* The tables.                                                             *)

\* The type of a request, with its phases spelled out.
LEMMA RequestTypeIs ==
  RequestType = [by : Clients \union {None}, kind : {"new", "load"},
                 phase : Unanswered \union {"free", "done", "failed"},
                 flushed : Nat, at : Nat, upto : Nat, unfinished : SUBSET Subagents]
  <1>1. Unanswered \union {"free", "done", "failed"}
          = {"free", "asked", "flush", "first", "reflush", "delta", "reconciled", "done", "failed"}
    BY DEF Unanswered, Loading
  <1>. QED
    BY <1>1 DEF RequestType

\* Requests are records of their type, and the file has a length.
LEMMA RequestsType ==
  ASSUME TypeOK
  PROVE  request \in [Requests -> RequestType] /\ Len(history) \in Nat /\ written \in Nat
  BY DEF TypeOK, RequestType, Unanswered, Loading

\* Only subagents are half replayed.
LEMMA HalfReplayedType ==
  ASSUME NEW q PROVE HalfReplayed(q) \subseteq Subagents /\ Orphaned(q) \subseteq Subagents
  BY DEF HalfReplayed, Orphaned, Unfinished

\* Attach subscribes c to s and only adds subscribers, all of them connected.
LEMMA AttachTables ==
  ASSUME TypeOK, NEW c \in clients, NEW s \in Sessions, Attach(c, s)
  PROVE  /\ session_subscribers' \in [Sessions -> SUBSET clients]
         /\ session_driver' \in [Sessions -> Clients \union {None}]
         /\ child_sessions' \in [Sessions -> SUBSET Subagents]
         /\ bare' \subseteq Subagents /\ haunted' \subseteq Subagents
         /\ c \in session_subscribers'[s]
         /\ \A x \in Sessions : session_subscribers[x] \subseteq session_subscribers'[x]
  <1> DEFINE below == Descendants(s)
             driver == IF session_driver[s] = None THEN c ELSE session_driver[s]
  <1>1. session_subscribers' = [x \in Sessions |-> IF x = s \/ x \in below
                                 THEN session_subscribers[x] \union {c}
                                 ELSE session_subscribers[x]]
    BY DEF Attach
  <1>2. session_driver' = [x \in Sessions |-> IF (x = s \/ x \in below) /\ session_driver[x] = None
                                              THEN driver ELSE session_driver[x]]
    BY DEF Attach
  <1>3. driver \in Clients \union {None}
    BY DEF TypeOK
  <1>4. haunted' \subseteq haunted \union UNION {Orphaned(q) : q \in Requests}
    BY DEF Attach
  <1>5. haunted' \subseteq Subagents
    BY <1>4, HalfReplayedType DEF TypeOK
  <1> HIDE DEF below, driver
  <1>. QED
    BY <1>1, <1>2, <1>3, <1>5 DEF TypeOK, Attach

\* Prune keeps the tables in their types and leaves the root's viewers alone.
LEMMA PruneTables ==
  ASSUME TypeOK, NEW k \in Subagents, Prune(k)
  PROVE  /\ session_subscribers' \in [Sessions -> SUBSET clients]
         /\ session_driver' \in [Sessions -> Clients \union {None}]
         /\ child_sessions' \in [Sessions -> SUBSET Subagents]
         /\ session_subscribers'[Root] = session_subscribers[Root]
  <1>1. k \in Sessions /\ k # Root
    BY RoutesAssumption DEF Sessions
  <1>2. Pruned(k) \in [Sessions -> SUBSET Subagents]
    <2> DEFINE parents == ParentsInIndex(k)
               up == IF parents = {} THEN None ELSE CHOOSE s \in parents : TRUE
    <2>1. Pruned(k) = [s \in Sessions |-> IF s = k THEN {}
                         ELSE IF s = up
                         THEN (child_sessions[s] \ {k}) \union child_sessions[k]
                         ELSE child_sessions[s]]
      BY DEF Pruned
    <2> HIDE DEF up
    <2>. QED
      BY <2>1, <1>1 DEF TypeOK
  <1>. QED
    BY <1>1, <1>2 DEF Prune, TypeOK, Sessions

\* A live finish prunes the route or changes no table.
LEMMA SeenTables ==
  ASSUME TypeOK, NEW p, NEW k \in Subagents, FinishSeen(p, k)
  PROVE  /\ session_subscribers' \in [Sessions -> SUBSET clients]
         /\ session_driver' \in [Sessions -> Clients \union {None}]
         /\ child_sessions' \in [Sessions -> SUBSET Subagents]
         /\ session_subscribers'[Root] = session_subscribers[Root]
         /\ haunted' \subseteq Subagents
  <1>1. CASE Prune(k) /\ haunted' = haunted \ {k}
    BY <1>1, PruneTables DEF TypeOK
  <1>2. CASE UNCHANGED tables /\ haunted' = haunted \union {k}
    BY <1>2 DEF TypeOK, tables
  <1>. QED
    BY <1>1, <1>2 DEF FinishSeen

\* The steps of a load before its answer, as records.
LEMMA LoadRecords ==
  ASSUME TypeOK, NEW q \in Requests
  PROVE  /\ Flush(q) =>
              /\ \/ request[q].phase = "asked" /\ request'[q].phase = "flush"
                 \/ request[q].phase = "first" /\ request'[q].phase = "reflush"
              /\ request' = [request EXCEPT ![q] = [request[q] EXCEPT
                              !.phase = request'[q].phase, !.flushed = Len(history)]]
         /\ BeginReplay(q) => \E n \in 0 .. Len(history) :
              /\ request[q].phase = "flush" /\ Read(q, n)
              /\ request' = [request EXCEPT ![q] = [request[q] EXCEPT !.phase = "first",
                              !.flushed = 0, !.upto = n, !.unfinished = Unfinished(n)]]
         /\ BeginDelta(q) => \E n \in 0 .. Len(history) :
              /\ request[q].phase = "reflush" /\ Read(q, n)
              /\ request' = [request EXCEPT ![q] = [request[q] EXCEPT !.phase = "delta",
                              !.flushed = 0, !.upto = n]]
         /\ SkipDelta(q) =>
              /\ request[q].phase = "reflush"
              /\ request' = [request EXCEPT ![q] = [request[q] EXCEPT !.phase = "delta",
                              !.flushed = 0]]
         /\ Replay(q) =>
              request' = [request EXCEPT ![q] = [request[q] EXCEPT !.at = request[q].at + 1]]
         /\ Reconcile(q) =>
              /\ request[q].phase = "delta"
              /\ request' = [request EXCEPT ![q] = [request[q] EXCEPT !.phase = "reconciled",
                              !.unfinished = {k \in request[q].unfinished : life[k] = "done"}]]
         /\ \A k \in Subagents : FinishAgain(q, k) =>
              /\ request[q].phase = "reconciled" /\ k \in request[q].unfinished
              /\ request' = [request EXCEPT ![q] = [request[q] EXCEPT
                              !.unfinished = request[q].unfinished \ {k}]]
  <1> USE RequestsType
  <1>1. ASSUME Flush(q)
        PROVE  /\ \/ request[q].phase = "asked" /\ request'[q].phase = "flush"
                  \/ request[q].phase = "first" /\ request'[q].phase = "reflush"
               /\ request' = [request EXCEPT ![q] = [request[q] EXCEPT
                               !.phase = request'[q].phase, !.flushed = Len(history)]]
    <2>1. /\ request[q].phase \in {"asked", "first"}
          /\ request' = [request EXCEPT ![q].phase = FlushAfter[@], ![q].flushed = Len(history)]
      BY <1>1 DEF Flush, FlushAfter
    <2>2. request'[q].phase = FlushAfter[request[q].phase]
      BY <2>1 DEF RequestType
    <2>3. FlushAfter["asked"] = "flush" /\ FlushAfter["first"] = "reflush"
      BY DEF FlushAfter
    <2>. QED
      BY <2>1, <2>2, <2>3 DEF RequestType
  <1>2. ASSUME BeginReplay(q)
        PROVE  \E n \in 0 .. Len(history) :
                 /\ request[q].phase = "flush" /\ Read(q, n)
                 /\ request' = [request EXCEPT ![q] = [request[q] EXCEPT !.phase = "first",
                                 !.flushed = 0, !.upto = n, !.unfinished = Unfinished(n)]]
    BY <1>2 DEF BeginReplay, RequestType
  <1>3. ASSUME BeginDelta(q)
        PROVE  \E n \in 0 .. Len(history) :
                 /\ request[q].phase = "reflush" /\ Read(q, n)
                 /\ request' = [request EXCEPT ![q] = [request[q] EXCEPT !.phase = "delta",
                                 !.flushed = 0, !.upto = n]]
    BY <1>3 DEF BeginDelta, RequestType
  <1>4. ASSUME SkipDelta(q)
        PROVE  /\ request[q].phase = "reflush"
               /\ request' = [request EXCEPT ![q] = [request[q] EXCEPT !.phase = "delta",
                               !.flushed = 0]]
    BY <1>4 DEF SkipDelta, RequestType
  <1>5. ASSUME Replay(q)
        PROVE  request' = [request EXCEPT ![q] = [request[q] EXCEPT !.at = request[q].at + 1]]
    BY <1>5 DEF Replay, RequestType
  <1>6. ASSUME Reconcile(q)
        PROVE  /\ request[q].phase = "delta"
               /\ request' = [request EXCEPT ![q] = [request[q] EXCEPT !.phase = "reconciled",
                               !.unfinished = {k \in request[q].unfinished : life[k] = "done"}]]
    BY <1>6 DEF Reconcile, RequestType
  <1>7. ASSUME NEW k \in Subagents, FinishAgain(q, k)
        PROVE  /\ request[q].phase = "reconciled" /\ k \in request[q].unfinished
               /\ request' = [request EXCEPT ![q] = [request[q] EXCEPT
                               !.unfinished = request[q].unfinished \ {k}]]
    BY <1>7 DEF FinishAgain, RequestType
  <1>. QED
    BY <1>1, <1>2, <1>3, <1>4, <1>5, <1>6, <1>7

\* A step changes the request of one load, and not who made it.
OneLoad(q) ==
  /\ request' \in [Requests -> RequestType]
  /\ \A r \in Requests \ {q} : request'[r] = request[r]
  /\ request'[q].by = request[q].by /\ request'[q].kind = request[q].kind

\* It does where the new record is of the same load.
LEMMA OneChanged ==
  ASSUME request \in [Requests -> RequestType], NEW q \in Requests, NEW r \in RequestType,
         r.by = request[q].by, r.kind = request[q].kind, request' = [request EXCEPT ![q] = r]
  PROVE  OneLoad(q) /\ request'[q] = r
  BY DEF OneLoad

\* The steps of a load before its answer, field by field.
LEMMA LoadFields ==
  ASSUME TypeOK, NEW q \in Requests
  PROVE  /\ Flush(q) =>
              /\ OneLoad(q)
              /\ \/ request[q].phase = "asked" /\ request'[q].phase = "flush"
                 \/ request[q].phase = "first" /\ request'[q].phase = "reflush"
              /\ request'[q].flushed = Len(history)
              /\ request'[q].at = request[q].at /\ request'[q].upto = request[q].upto
              /\ request'[q].unfinished = request[q].unfinished
         /\ BeginReplay(q) => \E n \in 0 .. Len(history) :
              /\ OneLoad(q) /\ Read(q, n)
              /\ request[q].phase = "flush" /\ request'[q].phase = "first"
              /\ request'[q].flushed = 0
              /\ request'[q].at = request[q].at /\ request'[q].upto = n
              /\ request'[q].unfinished = Unfinished(n)
         /\ BeginDelta(q) => \E n \in 0 .. Len(history) :
              /\ OneLoad(q) /\ Read(q, n)
              /\ request[q].phase = "reflush" /\ request'[q].phase = "delta"
              /\ request'[q].flushed = 0
              /\ request'[q].at = request[q].at /\ request'[q].upto = n
              /\ request'[q].unfinished = request[q].unfinished
         /\ SkipDelta(q) =>
              /\ OneLoad(q)
              /\ request[q].phase = "reflush" /\ request'[q].phase = "delta"
              /\ request'[q].flushed = 0
              /\ request'[q].at = request[q].at /\ request'[q].upto = request[q].upto
              /\ request'[q].unfinished = request[q].unfinished
         /\ Replay(q) =>
              /\ OneLoad(q)
              /\ request[q].phase \in {"first", "delta"} /\ request'[q].phase = request[q].phase
              /\ request'[q].flushed = request[q].flushed
              /\ request'[q].at = request[q].at + 1 /\ request'[q].upto = request[q].upto
              /\ request'[q].unfinished = request[q].unfinished
         /\ Reconcile(q) =>
              /\ OneLoad(q)
              /\ request[q].phase = "delta" /\ request'[q].phase = "reconciled"
              /\ request'[q].flushed = request[q].flushed
              /\ request'[q].at = request[q].at /\ request'[q].upto = request[q].upto
              /\ request'[q].unfinished = {k \in request[q].unfinished : life[k] = "done"}
         /\ \A k \in Subagents : FinishAgain(q, k) =>
              /\ OneLoad(q) /\ k \in request[q].unfinished
              /\ request[q].phase = "reconciled" /\ request'[q].phase = "reconciled"
              /\ request'[q].flushed = request[q].flushed
              /\ request'[q].at = request[q].at /\ request'[q].upto = request[q].upto
              /\ request'[q].unfinished = request[q].unfinished \ {k}
  <1>0. request \in [Requests -> RequestType] /\ Len(history) \in Nat
    BY RequestsType
  <1>1. ASSUME Flush(q)
        PROVE  /\ OneLoad(q)
               /\ \/ request[q].phase = "asked" /\ request'[q].phase = "flush"
                  \/ request[q].phase = "first" /\ request'[q].phase = "reflush"
               /\ request'[q].flushed = Len(history)
               /\ request'[q].at = request[q].at /\ request'[q].upto = request[q].upto
               /\ request'[q].unfinished = request[q].unfinished
    <2> DEFINE r == [request[q] EXCEPT !.phase = request'[q].phase, !.flushed = Len(history)]
    <2>1. /\ \/ request[q].phase = "asked" /\ request'[q].phase = "flush"
             \/ request[q].phase = "first" /\ request'[q].phase = "reflush"
          /\ request' = [request EXCEPT ![q] = r]
      BY <1>1, LoadRecords
    <2>2. /\ r \in RequestType /\ r.by = request[q].by /\ r.kind = request[q].kind
          /\ r.flushed = Len(history) /\ r.at = request[q].at /\ r.upto = request[q].upto
          /\ r.unfinished = request[q].unfinished
      BY <1>0, <2>1 DEF RequestType
    <2> HIDE DEF r
    <2>. QED
      BY <1>0, <2>1, <2>2, OneChanged
  <1>2. ASSUME BeginReplay(q)
        PROVE  \E n \in 0 .. Len(history) :
                 /\ OneLoad(q) /\ Read(q, n)
                 /\ request[q].phase = "flush" /\ request'[q].phase = "first"
                 /\ request'[q].flushed = 0
                 /\ request'[q].at = request[q].at /\ request'[q].upto = n
                 /\ request'[q].unfinished = Unfinished(n)
    <2>1. PICK n \in 0 .. Len(history) :
              /\ request[q].phase = "flush" /\ Read(q, n)
              /\ request' = [request EXCEPT ![q] = [request[q] EXCEPT !.phase = "first",
                              !.flushed = 0, !.upto = n, !.unfinished = Unfinished(n)]]
      BY <1>2, LoadRecords
    <2> DEFINE r == [request[q] EXCEPT !.phase = "first", !.flushed = 0, !.upto = n,
                                       !.unfinished = Unfinished(n)]
    <2>2. Unfinished(n) \subseteq Subagents
      BY DEF Unfinished
    <2>3. /\ r \in RequestType /\ r.by = request[q].by /\ r.kind = request[q].kind
          /\ r.phase = "first" /\ r.flushed = 0 /\ r.at = request[q].at /\ r.upto = n
          /\ r.unfinished = Unfinished(n)
      <3>1. n \in Nat
        BY <1>0
      <3>. QED
        BY <1>0, <2>2, <3>1 DEF RequestType
    <2>4. request' = [request EXCEPT ![q] = r]
      BY <2>1
    <2> HIDE DEF r
    <2>. QED
      BY <1>0, <2>1, <2>3, <2>4, OneChanged
  <1>3. ASSUME BeginDelta(q)
        PROVE  \E n \in 0 .. Len(history) :
                 /\ OneLoad(q) /\ Read(q, n)
                 /\ request[q].phase = "reflush" /\ request'[q].phase = "delta"
                 /\ request'[q].flushed = 0
                 /\ request'[q].at = request[q].at /\ request'[q].upto = n
                 /\ request'[q].unfinished = request[q].unfinished
    <2>1. PICK n \in 0 .. Len(history) :
              /\ request[q].phase = "reflush" /\ Read(q, n)
              /\ request' = [request EXCEPT ![q] = [request[q] EXCEPT !.phase = "delta",
                              !.flushed = 0, !.upto = n]]
      BY <1>3, LoadRecords
    <2> DEFINE r == [request[q] EXCEPT !.phase = "delta", !.flushed = 0, !.upto = n]
    <2>3. /\ r \in RequestType /\ r.by = request[q].by /\ r.kind = request[q].kind
          /\ r.phase = "delta" /\ r.flushed = 0 /\ r.at = request[q].at /\ r.upto = n
          /\ r.unfinished = request[q].unfinished
      <3>1. n \in Nat
        BY <1>0
      <3>. QED
        BY <1>0, <3>1 DEF RequestType
    <2>4. request' = [request EXCEPT ![q] = r]
      BY <2>1
    <2> HIDE DEF r
    <2>. QED
      BY <1>0, <2>1, <2>3, <2>4, OneChanged
  <1>4. ASSUME SkipDelta(q)
        PROVE  /\ OneLoad(q)
               /\ request[q].phase = "reflush" /\ request'[q].phase = "delta"
               /\ request'[q].flushed = 0
               /\ request'[q].at = request[q].at /\ request'[q].upto = request[q].upto
               /\ request'[q].unfinished = request[q].unfinished
    <2>1. /\ request[q].phase = "reflush"
          /\ request' = [request EXCEPT ![q] = [request[q] EXCEPT !.phase = "delta",
                          !.flushed = 0]]
      BY <1>4, LoadRecords
    <2>. QED
      BY <1>0, <2>1 DEF OneLoad, RequestType
  <1>5. ASSUME Replay(q)
        PROVE  /\ OneLoad(q)
               /\ request[q].phase \in {"first", "delta"} /\ request'[q].phase = request[q].phase
               /\ request'[q].flushed = request[q].flushed
               /\ request'[q].at = request[q].at + 1 /\ request'[q].upto = request[q].upto
               /\ request'[q].unfinished = request[q].unfinished
    <2> DEFINE r == [request[q] EXCEPT !.at = request[q].at + 1]
    <2>1. request' = [request EXCEPT ![q] = r]
      BY <1>5, LoadRecords
    <2>2. request[q].phase \in {"first", "delta"}
      BY <1>5 DEF Replay
    <2>3. /\ r \in RequestType /\ r.by = request[q].by /\ r.kind = request[q].kind
          /\ r.phase = request[q].phase /\ r.flushed = request[q].flushed
          /\ r.at = request[q].at + 1 /\ r.upto = request[q].upto
          /\ r.unfinished = request[q].unfinished
      BY <1>0 DEF RequestType
    <2> HIDE DEF r
    <2>. QED
      BY <1>0, <2>1, <2>2, <2>3, OneChanged
  <1>6. ASSUME Reconcile(q)
        PROVE  /\ OneLoad(q)
               /\ request[q].phase = "delta" /\ request'[q].phase = "reconciled"
               /\ request'[q].flushed = request[q].flushed
               /\ request'[q].at = request[q].at /\ request'[q].upto = request[q].upto
               /\ request'[q].unfinished = {k \in request[q].unfinished : life[k] = "done"}
    <2> DEFINE left == {k \in request[q].unfinished : life[k] = "done"}
    <2>1. /\ request[q].phase = "delta"
          /\ request' = [request EXCEPT ![q] = [request[q] EXCEPT !.phase = "reconciled",
                          !.unfinished = left]]
      BY <1>6, LoadRecords
    <2>2. left \subseteq Subagents
      BY <1>0 DEF RequestType
    <2> HIDE DEF left
    <2>3. /\ OneLoad(q) /\ request[q].phase = "delta" /\ request'[q].phase = "reconciled"
          /\ request'[q].flushed = request[q].flushed
          /\ request'[q].at = request[q].at /\ request'[q].upto = request[q].upto
          /\ request'[q].unfinished = left
      BY <1>0, <2>1, <2>2 DEF OneLoad, RequestType
    <2>. QED
      BY <2>3 DEF left
  <1>7. ASSUME NEW k \in Subagents, FinishAgain(q, k)
        PROVE  /\ OneLoad(q) /\ k \in request[q].unfinished
               /\ request[q].phase = "reconciled" /\ request'[q].phase = "reconciled"
               /\ request'[q].flushed = request[q].flushed
               /\ request'[q].at = request[q].at /\ request'[q].upto = request[q].upto
               /\ request'[q].unfinished = request[q].unfinished \ {k}
    <2>1. /\ request[q].phase = "reconciled" /\ k \in request[q].unfinished
          /\ request' = [request EXCEPT ![q] = [request[q] EXCEPT
                          !.unfinished = request[q].unfinished \ {k}]]
      BY <1>7, LoadRecords
    <2>. QED
      BY <1>0, <2>1 DEF OneLoad, RequestType
  <1>. QED
    BY <1>1, <1>2, <1>3, <1>4, <1>5, <1>6, <1>7

\* A replayed event changes the tables within their types, and of the root's
\* viewers none is lost.
LEMMA ReplayedTables ==
  ASSUME TypeOK, NEW c \in Clients \union {None}, NEW what, NEW k \in Subagents,
         Replayed(c, what, k)
  PROVE  /\ session_subscribers' \in [Sessions -> SUBSET clients]
         /\ session_driver' \in [Sessions -> Clients \union {None}]
         /\ child_sessions' \in [Sessions -> SUBSET Subagents]
         /\ bare' \subseteq Subagents
         /\ session_subscribers'[Root] = session_subscribers[Root]
  <1>1. k \in Sessions /\ k # Root /\ Root \in Sessions
    BY RoutesAssumption DEF Sessions
  <1>2. CASE c \in clients /\ what = "spawned"
    <2>1. /\ session_subscribers' = [session_subscribers EXCEPT ![k] = @ \union {c}]
          /\ child_sessions' = [child_sessions EXCEPT ![Root] = @ \union {k}]
          /\ bare' = IF session_driver[k] = None THEN bare \union {k} ELSE bare
          /\ UNCHANGED session_driver
      BY <1>2 DEF Replayed
    <2>2. session_subscribers' \in [Sessions -> SUBSET clients]
          /\ session_subscribers'[Root] = session_subscribers[Root]
      BY <1>1, <1>2, <2>1 DEF TypeOK
    <2>3. child_sessions' \in [Sessions -> SUBSET Subagents]
      BY <1>1, <2>1 DEF TypeOK
    <2>. QED
      BY <2>1, <2>2, <2>3 DEF TypeOK
  <1>3. CASE c \in clients /\ what = "finished"
    <2>1. CASE session_subscribers[k] = {c}
      BY <1>3, <2>1, PruneTables DEF Replayed, TypeOK
    <2>2. CASE session_subscribers[k] # {c}
      <3>1. /\ session_subscribers' = [session_subscribers EXCEPT ![k] = @ \ {c}]
            /\ UNCHANGED <<session_driver, child_sessions, bare>>
        BY <1>3, <2>2 DEF Replayed
      <3>. QED
        BY <1>1, <3>1 DEF TypeOK
    <2>. QED
      BY <2>1, <2>2
  <1>4. CASE c \notin clients /\ what = "finished" /\ session_subscribers[k] = {}
    BY <1>4, PruneTables DEF Replayed, TypeOK
  <1>5. CASE ~(c \in clients /\ what = "spawned") /\ ~(c \in clients /\ what = "finished")
             /\ ~(c \notin clients /\ what = "finished" /\ session_subscribers[k] = {})
    BY <1>5 DEF Replayed, TypeOK, tables
  <1>. QED
    BY <1>2, <1>3, <1>4, <1>5
-----------------------------------------------------------------------------
(* Typing.                                                                 *)

\* Nothing is connected, asked or cached at first.
LEMMA InitInv == Init => IInv
  <1> SUFFICES ASSUME Init PROVE IInv
    OBVIOUS
  <1>1. TypeOK
    <2>1. Free \in RequestType
      BY DEF Free, RequestType
    <2>2. request \in [Requests -> RequestType]
      BY <2>1 DEF Init
    <2>. QED
      BY <2>2, RequestTypeIs, RoutesAssumption DEF Init, TypeOK, Sessions
  <1>2. ReplayInFile /\ AskersKnown /\ LoadersViewRoot
    BY RoutesAssumption DEF Init, ReplayInFile, AskersKnown, LoadersViewRoot, Free
  <1>3. OpenIsCached /\ CachedUnderIts /\ CachedIsOpen /\ OpenInteractionsShown
    BY DEF Init, OpenIsCached, CachedUnderIts, CachedIsOpen, OpenInteractionsShown
  <1>. QED
    BY <1>1, <1>2, <1>3 DEF IInv

\* Who drives what when a client has left (ServerEvent::Disconnected).
LEMMA DisconnectDrivers ==
  ASSUME TypeOK, NEW c \in Clients, Disconnect(c)
  PROVE  /\ session_driver' \in [Sessions -> Clients \union {None}]
         /\ \A s \in Sessions :
              LET left == session_subscribers[s] \ {c}
              IN IF c \notin session_subscribers[s] THEN session_driver'[s] = session_driver[s]
                 ELSE IF left = {} THEN session_driver'[s] = None
                 ELSE IF session_driver[s] = c THEN session_driver'[s] \in left
                 ELSE session_driver'[s] = session_driver[s]
  <1>1. PICK heir \in [Inherited(c) -> clients \ {c}] :
          /\ \A s \in Inherited(c) : heir[s] \in session_subscribers[s]
          /\ session_driver' = [s \in Sessions |-> IF s \in Inherited(c) THEN heir[s]
                                                  ELSE IF session_subscribers[s] = {c} THEN None
                                                  ELSE session_driver[s]]
    BY DEF Disconnect
  <1>2. /\ session_driver \in [Sessions -> Clients \union {None}] /\ clients \subseteq Clients
        /\ Inherited(c) \subseteq Sessions
    BY DEF TypeOK, Inherited
  <1>3. session_driver' \in [Sessions -> Clients \union {None}]
    BY <1>1, <1>2
  <1>4. ASSUME NEW s \in Sessions
        PROVE  LET left == session_subscribers[s] \ {c}
               IN IF c \notin session_subscribers[s] THEN session_driver'[s] = session_driver[s]
                  ELSE IF left = {} THEN session_driver'[s] = None
                  ELSE IF session_driver[s] = c THEN session_driver'[s] \in left
                  ELSE session_driver'[s] = session_driver[s]
    <2>1. s \in Inherited(c) => session_driver'[s] \in session_subscribers[s] \ {c}
      BY <1>1, <1>2
    <2>2. s \notin Inherited(c) => session_driver'[s] = IF session_subscribers[s] = {c} THEN None
                                                       ELSE session_driver[s]
      BY <1>1
    <2>3. s \in Inherited(c) <=> /\ session_driver[s] = c /\ c \in session_subscribers[s]
                                 /\ session_subscribers[s] # {c}
      BY DEF Inherited
    <2>4. c \in session_subscribers[s] /\ session_subscribers[s] \ {c} = {}
            <=> session_subscribers[s] = {c}
      OBVIOUS
    <2>. QED
      BY <2>1, <2>2, <2>3, <2>4
  <1>. QED
    BY <1>3, <1>4

\* Every step keeps the types, as a replay sends no more than the file has.
LEMMA StepType == TypeOK /\ ReplayInFile /\ [Next]_vars => TypeOK'
  <1> SUFFICES ASSUME TypeOK, ReplayInFile, [Next]_vars PROVE TypeOK'
    OBVIOUS
  <1>0. Root \in Sessions /\ Subagents \subseteq Sessions
    BY DEF Sessions
  <1>1. ASSUME NEW c \in Clients, Connect(c) PROVE TypeOK'
    BY <1>1 DEF Connect, TypeOK, tables, agent
  <1>2. ASSUME NEW c \in Clients, Disconnect(c) PROVE TypeOK'
    <2>1. session_driver' \in [Sessions -> Clients \union {None}]
      BY <1>2, DisconnectDrivers
    <2>. QED
      BY <1>2, <2>1 DEF Disconnect, TypeOK, agent
  <1>3. ASSUME NEW c \in Clients, Message(c) PROVE TypeOK'
    BY <1>0, <1>3, AttachTables DEF Message, TypeOK, agent
  <1>4. ASSUME NEW c \in Clients, NEW q \in Requests, NEW kind \in {"new", "load"},
               Request(c, q, kind)
        PROVE  TypeOK'
    <2>1. /\ session_subscribers' \in [Sessions -> SUBSET clients]
          /\ session_driver' \in [Sessions -> Clients \union {None}]
          /\ child_sessions' \in [Sessions -> SUBSET Subagents]
          /\ bare' \subseteq Subagents /\ haunted' \subseteq Subagents
      <3>1. CASE kind = "new"
        BY <1>4, <3>1 DEF Request, TypeOK, tables
      <3>2. CASE kind # "new"
        BY <1>0, <1>4, <3>2, AttachTables DEF Request
      <3>. QED
        BY <3>1, <3>2
    <2>2. load_live_buffer' \in [Clients -> {None} \union SUBSET Interactions]
      BY <1>4 DEF Request, TypeOK
    <2>3. /\ request' \in [Requests -> RequestType]
          /\ pending_requests' \in Nat
      <3> DEFINE r == [Free EXCEPT !.by = c, !.kind = kind, !.phase = "asked"]
      <3>1. request' = [request EXCEPT ![q] = r] /\ pending_requests' = pending_requests + 1
        BY <1>4 DEF Request
      <3>2. r \in RequestType
        BY DEF Free, RequestType
      <3> HIDE DEF r
      <3>. QED
        BY <3>1, <3>2, RequestsType DEF TypeOK
    <2>. QED
      BY <1>4, <2>1, <2>2, <2>3, RequestTypeIs DEF Request, TypeOK, agent
  <1>5. ASSUME NEW q \in Requests, Flush(q) \/ SkipDelta(q) \/ Reconcile(q) PROVE TypeOK'
    <2>1. request' \in [Requests -> RequestType]
      BY <1>5, LoadFields DEF OneLoad
    <2>2. haunted' \subseteq Subagents /\ timeouts' \in Nat
      <3>1. Flush(q) => UNCHANGED <<haunted, timeouts>>
        BY DEF Flush
      <3>2. SkipDelta(q) => UNCHANGED haunted /\ timeouts' = timeouts + 1
        BY DEF SkipDelta
      <3>3. Reconcile(q) => haunted' = haunted \union Orphaned(q) /\ UNCHANGED timeouts
        BY DEF Reconcile
      <3>. QED
        BY <1>5, <3>1, <3>2, <3>3, HalfReplayedType DEF TypeOK
    <2>3. UNCHANGED <<clients, gone, tables, interaction_requests, load_live_buffer, agent,
                      shown, pending_requests, bare>>
      BY <1>5 DEF Flush, SkipDelta, Reconcile
    <2>. QED
      BY <2>1, <2>2, <2>3, RequestTypeIs DEF TypeOK, tables, agent
  <1>6. ASSUME NEW q \in Requests, BeginReplay(q) \/ BeginDelta(q) PROVE TypeOK'
    <2>1. PICK n \in 0 .. Len(history) : Read(q, n)
      BY <1>6, LoadFields
    <2>2. request' \in [Requests -> RequestType]
      BY <1>6, LoadFields DEF OneLoad
    <2>3. written' \in Nat
      BY <2>1, RequestsType DEF Read
    <2>4. UNCHANGED <<clients, gone, tables, interaction_requests, load_live_buffer, life,
                      parent, history, question, announced, shown, pending_requests, timeouts,
                      bare, haunted>>
      BY <2>1 DEF Read
    <2>. QED
      BY <2>2, <2>3, <2>4, RequestTypeIs DEF TypeOK, tables
  <1>7. ASSUME NEW q \in Requests, NEW k \in Subagents, FinishAgain(q, k) PROVE TypeOK'
    <2>1. request' \in [Requests -> RequestType]
      BY <1>7, LoadFields DEF OneLoad
    <2>2. FinishSeen(Root, k)
      BY <1>7 DEF FinishAgain
    <2>3. history' = Append(history, <<"finished", k>>)
      BY <1>7 DEF FinishAgain, Logged
    <2>4. history' \in Seq({"spawned", "finished"} \X Subagents)
      BY <2>3 DEF TypeOK
    <2>5. UNCHANGED <<clients, gone, interaction_requests, load_live_buffer, life, parent,
                      written, question, announced, shown, pending_requests, timeouts, bare>>
      BY <1>7 DEF FinishAgain
    <2>. QED
      BY <2>1, <2>2, <2>4, <2>5, SeenTables, RequestTypeIs DEF TypeOK
  <1>8. ASSUME NEW q \in Requests, Replay(q) PROVE TypeOK'
    <2> DEFINE next == history[request[q].at + 1]
    <2>1. next \in {"spawned", "finished"} \X Subagents
      <3>1. request[q].at + 1 \in 1 .. Len(history)
        BY <1>8, RequestsType DEF Replay, ReplayInFile, RequestType
      <3>. QED
        BY <3>1 DEF TypeOK
    <2>2. Replayed(request[q].by, next[1], next[2])
      BY <1>8 DEF Replay
    <2>3. /\ session_subscribers' \in [Sessions -> SUBSET clients]
          /\ session_driver' \in [Sessions -> Clients \union {None}]
          /\ child_sessions' \in [Sessions -> SUBSET Subagents]
          /\ bare' \subseteq Subagents
      <3>1. request[q].by \in Clients \union {None} /\ next[2] \in Subagents
        BY <2>1 DEF TypeOK
      <3>. QED
        BY <2>2, <3>1, ReplayedTables
    <2>5. request' \in [Requests -> RequestType]
      BY <1>8, LoadFields DEF OneLoad
    <2>. QED
      BY <1>8, <2>3, <2>5, RequestTypeIs DEF Replay, TypeOK, agent
  <1>9. ASSUME NEW q \in Requests, NEW phase \in {"done", "failed"}, Answered(q, phase)
        PROVE  /\ request' \in [Requests -> RequestType]
               /\ pending_requests' \in Nat
               /\ shown' \in [Clients -> SUBSET Interactions]
               /\ load_live_buffer' \in [Clients -> {None} \union SUBSET Interactions]
    <2>1. request' \in [Requests -> RequestType]
      <3> DEFINE r == [Free EXCEPT !.by = request[q].by, !.kind = request[q].kind, !.phase = phase]
      <3>1. request' = [request EXCEPT ![q] = r]
        BY <1>9 DEF Answered
      <3>2. r \in RequestType
        BY RequestsType DEF Free, RequestType
      <3> HIDE DEF r
      <3>. QED
        BY <3>1, <3>2, RequestsType
    <2>0. pending_requests' \in Nat
      BY <1>9 DEF Answered, TypeOK
    <2> DEFINE c == request[q].by
               held == IF load_live_buffer[c] = None THEN {} ELSE load_live_buffer[c]
    <2>2. CASE c \in clients /\ request[q].kind = "load"
      <3>1. /\ shown' = [shown EXCEPT ![c] = @ \union held \union interaction_requests[Root]]
            /\ load_live_buffer' = [load_live_buffer EXCEPT ![c] = None]
        BY <1>9, <2>2 DEF Answered
      <3>2. held \subseteq Interactions /\ interaction_requests[Root] \subseteq Interactions
        BY <1>0, <2>2 DEF TypeOK
      <3> HIDE DEF held, c
      <3>. QED
        BY <2>0, <2>1, <3>1, <3>2 DEF TypeOK
    <2>3. CASE ~(c \in clients /\ request[q].kind = "load")
      <3>1. UNCHANGED <<shown, load_live_buffer>>
        BY <1>9, <2>3 DEF Answered
      <3>. QED
        BY <2>0, <2>1, <3>1 DEF TypeOK
    <2>. QED
      BY <2>2, <2>3
  <1>10. ASSUME NEW q \in Requests, Answer(q) PROVE TypeOK'
    BY <1>9, <1>10, RequestTypeIs DEF Answer, Answered, TypeOK, tables
  <1>11. ASSUME NEW q \in Requests, Created(q) PROVE TypeOK'
    <2>1. /\ session_subscribers' \in [Sessions -> SUBSET clients]
          /\ session_driver' \in [Sessions -> Clients \union {None}]
          /\ child_sessions' \in [Sessions -> SUBSET Subagents]
          /\ bare' \subseteq Subagents /\ haunted' \subseteq Subagents
      <3>1. CASE request[q].by \in clients
        BY <1>0, <1>11, <3>1, AttachTables DEF Created
      <3>2. CASE request[q].by \notin clients
        BY <1>11, <3>2 DEF Created, TypeOK, tables
      <3>. QED
        BY <3>1, <3>2
    <2>. QED
      BY <1>9, <1>11, <2>1, RequestTypeIs DEF Created, Answered, TypeOK
  <1>12. ASSUME NEW q \in Requests, Fail(q) PROVE TypeOK'
    BY <1>9, <1>12, RequestTypeIs DEF Fail, Answered, TypeOK, tables
  <1>13. ASSUME NEW p \in Sessions, NEW k \in Subagents, Spawn(p, k) PROVE TypeOK'
    <2>1. /\ session_subscribers' \in [Sessions -> SUBSET clients]
          /\ session_driver' \in [Sessions -> Clients \union {None}]
          /\ child_sessions' \in [Sessions -> SUBSET Subagents]
      <3>1. CASE session_subscribers[p] = {}
        BY <1>13, <3>1 DEF Spawn, TypeOK, tables
      <3>2. CASE session_subscribers[p] # {}
        <4>1. /\ session_subscribers' = [session_subscribers EXCEPT ![k] = session_subscribers[p]]
              /\ session_driver' = [session_driver EXCEPT
                                     ![k] = IF session_driver[p] = None THEN @ ELSE session_driver[p]]
              /\ child_sessions' = [child_sessions EXCEPT ![p] = @ \union {k}]
          BY <1>13, <3>2 DEF Spawn
        <4>. QED
          BY <1>0, <4>1, <1>13 DEF Spawn, TypeOK
      <3>. QED
        BY <3>1, <3>2
    <2>2. history' \in Seq({"spawned", "finished"} \X Subagents)
      BY <1>13 DEF Spawn, Logged, TypeOK
    <2>. QED
      BY <1>0, <1>13, <2>1, <2>2 DEF Spawn, TypeOK
  <1>14. ASSUME NEW k \in Subagents, Finish(k) PROVE TypeOK'
    <2>1. /\ session_subscribers' \in [Sessions -> SUBSET clients]
          /\ session_driver' \in [Sessions -> Clients \union {None}]
          /\ child_sessions' \in [Sessions -> SUBSET Subagents]
          /\ haunted' \subseteq Subagents
      BY <1>14, SeenTables DEF Finish
    <2>2. history' \in Seq({"spawned", "finished"} \X Subagents)
      BY <1>14 DEF Finish, Logged, TypeOK
    <2>. QED
      BY <1>0, <1>14, <2>1, <2>2 DEF Finish, TypeOK
  <1>15. ASSUME NEW i \in Interactions, NEW s \in Sessions, NEW under \in Sessions,
                Ask(i, s, under)
         PROVE  TypeOK'
    <2> DEFINE loading == {c \in session_subscribers[under] :
                             under = Root /\ load_live_buffer[c] # None}
    <2>1. load_live_buffer' \in [Clients -> {None} \union SUBSET Interactions]
      <3>1. \A c \in loading : c \in Clients /\ load_live_buffer[c] \in SUBSET Interactions
        BY DEF TypeOK
      <3>2. load_live_buffer' = [c \in Clients |-> IF c \in loading
                THEN load_live_buffer[c] \union {i} ELSE load_live_buffer[c]]
        BY <1>15 DEF Ask
      <3> HIDE DEF loading
      <3>. QED
        BY <3>1, <3>2 DEF TypeOK
    <2>2. shown' \in [Clients -> SUBSET Interactions]
      <3>1. shown' = [c \in Clients |-> IF c \in session_subscribers[under] \ loading
                                    THEN shown[c] \union {i} ELSE shown[c]]
        BY <1>15 DEF Ask
      <3> HIDE DEF loading
      <3>. QED
        BY <3>1 DEF TypeOK
    <2>. QED
      BY <1>15, <2>1, <2>2 DEF Ask, TypeOK, tables
  <1>16. ASSUME NEW i \in Interactions, Resolve(i) PROVE TypeOK'
    BY <1>16 DEF Resolve, TypeOK, tables
  <1>17. CASE UNCHANGED vars
    BY <1>17 DEF vars, tables, agent, TypeOK
  <1>. QED
    BY <1>1, <1>2, <1>3, <1>4, <1>5, <1>6, <1>7, <1>8, <1>10, <1>11, <1>12, <1>13,
       <1>14, <1>15, <1>16, <1>17 DEF Next
-----------------------------------------------------------------------------
(* The invariant: who asked for what, and what the leader's cache holds.   *)

\* Both reads of a load are bounded by the file, which only grows.
LEMMA StepReplay == TypeOK /\ ReplayInFile /\ [Next]_vars => ReplayInFile'
  <1> SUFFICES ASSUME TypeOK, ReplayInFile, [Next]_vars PROVE ReplayInFile'
    OBVIOUS
  <1> USE RequestsType DEF ReplayInFile
  <1>1. ASSUME NEW c \in Clients, Connect(c) \/ Disconnect(c) \/ Message(c)
        PROVE  ReplayInFile'
    BY <1>1 DEF Connect, Disconnect, Message, agent
  <1>2. ASSUME NEW c \in Clients, NEW q \in Requests, NEW kind \in {"new", "load"},
               Request(c, q, kind)
        PROVE  ReplayInFile'
    BY <1>2 DEF Request, agent, Free
  <1>3. ASSUME NEW q \in Requests,
               Flush(q) \/ SkipDelta(q) \/ Replay(q) \/ Reconcile(q)
        PROVE  ReplayInFile'
    <2>1. UNCHANGED <<history, written>>
      BY <1>3 DEF Flush, SkipDelta, Replay, Reconcile, agent
    <2>2. Replay(q) => request[q].at < request[q].upto
      BY DEF Replay
    <2>3. /\ request[q].at \in Nat /\ request[q].upto \in Nat /\ Len(history) \in Nat
          /\ request[q].flushed \in Nat
      BY DEF RequestType
    <2>4. /\ request'[q].at = request[q].at \/ (Replay(q) /\ request'[q].at = request[q].at + 1)
          /\ request'[q].upto = request[q].upto
          /\ request'[q].flushed \in {request[q].flushed, 0, Len(history)}
          /\ \A r \in Requests \ {q} : request'[r] = request[r]
      BY <1>3, LoadFields DEF OneLoad
    <2>5. request'[q].at <= request'[q].upto /\ request'[q].flushed <= Len(history)
      BY <2>2, <2>3, <2>4
    <2>. QED
      BY <2>1, <2>4, <2>5
  <1>4. ASSUME NEW q \in Requests, BeginReplay(q) \/ BeginDelta(q) PROVE ReplayInFile'
    <2>1. PICK n \in 0 .. Len(history) :
            /\ Read(q, n)
            /\ request'[q].at = request[q].at /\ request'[q].upto = n
            /\ request'[q].flushed = 0
            /\ \A r \in Requests \ {q} : request'[r] = request[r]
      BY <1>4, LoadFields DEF OneLoad
    <2>2. n >= written /\ written' = n /\ UNCHANGED history
      BY <2>1 DEF Read
    <2>. QED
      BY <2>1, <2>2 DEF RequestType
  <1>5. ASSUME NEW p, NEW what, NEW k \in Subagents, Logged(p, what, k),
               what \in {"spawned", "finished"}
        PROVE  Len(history') \in Nat /\ Len(history') >= Len(history)
    BY <1>5 DEF Logged, TypeOK
  <1>6. ASSUME NEW q \in Requests, NEW k \in Subagents, FinishAgain(q, k) PROVE ReplayInFile'
    <2>1. Logged(Root, "finished", k) /\ UNCHANGED written
      BY <1>6 DEF FinishAgain
    <2>2. /\ request'[q].at = request[q].at /\ request'[q].upto = request[q].upto
          /\ request'[q].flushed = request[q].flushed
          /\ \A r \in Requests \ {q} : request'[r] = request[r]
      BY <1>6, LoadFields DEF OneLoad
    <2>3. \A r \in Requests : request[r].flushed \in Nat
      BY DEF RequestType
    <2>4. Len(history') \in Nat /\ Len(history') >= Len(history) /\ Len(history) \in Nat
      BY <1>5, <2>1
    <2>. QED
      BY <2>1, <2>2, <2>3, <2>4
  <1>7. ASSUME NEW q \in Requests, NEW phase, Answered(q, phase) PROVE ReplayInFile'
    BY <1>7 DEF Answered, Free, RequestType
  <1>8. ASSUME NEW p, NEW what, NEW k \in Subagents, Logged(p, what, k), what \in {"spawned", "finished"},
               UNCHANGED <<request, written>>
        PROVE  ReplayInFile'
    BY <1>5, <1>8 DEF RequestType
  <1>9. ASSUME UNCHANGED <<request, history, written>> PROVE ReplayInFile'
    BY <1>9
  <1>. QED
    BY <1>1, <1>2, <1>3, <1>4, <1>5, <1>6, <1>7, <1>8, <1>9
       DEF Next, Answer, Created, Fail, Spawn, Finish, Ask, Resolve, vars, agent

\* A client is known from its connect on, and what it asked keeps its name.
LEMMA StepAskers == TypeOK /\ AskersKnown /\ [Next]_vars => AskersKnown'
  <1> SUFFICES ASSUME TypeOK, AskersKnown, [Next]_vars PROVE AskersKnown'
    OBVIOUS
  <1> USE RequestsType DEF AskersKnown
  <1>1. ASSUME NEW c \in Clients, Connect(c) \/ Disconnect(c) \/ Message(c)
        PROVE  AskersKnown'
    BY <1>1 DEF Connect, Disconnect, Message
  <1>2. ASSUME NEW c \in Clients, NEW q \in Requests, NEW kind \in {"new", "load"},
               Request(c, q, kind)
        PROVE  AskersKnown'
    BY <1>2 DEF Request, Free
  <1>3. ASSUME NEW q \in Requests,
               \/ Flush(q) \/ BeginReplay(q) \/ BeginDelta(q) \/ SkipDelta(q)
               \/ Replay(q) \/ Reconcile(q)
               \/ \E k \in Subagents : FinishAgain(q, k)
        PROVE  AskersKnown'
    <2>1. request[q].phase # "free" /\ UNCHANGED <<clients, gone>>
      BY <1>3 DEF Flush, BeginReplay, BeginDelta, SkipDelta, Read, Replay, Reconcile,
                  FinishAgain, FlushAfter
    <2>2. /\ request'[q].by = request[q].by
          /\ request'[q].phase = request[q].phase \/ request'[q].phase # "free"
          /\ \A r \in Requests \ {q} : request'[r] = request[r]
      BY <1>3, LoadFields DEF OneLoad
    <2>. QED
      BY <2>1, <2>2
  <1>4. ASSUME NEW q \in Requests, request[q].phase # "free",
               \/ Answered(q, "done")
               \/ Answered(q, "failed")
        PROVE  AskersKnown'
    BY <1>4 DEF Answered, Free, RequestType
  <1>5. ASSUME UNCHANGED <<request, clients, gone>> PROVE AskersKnown'
    BY <1>5
  <1>. QED
    BY <1>1, <1>2, <1>3, <1>4, <1>5
       DEF Next, Answer, Created, Fail, Spawn, Finish, Ask, Resolve, vars

\* Replays, spawns and finishes change the routes of subagents; only Disconnect
\* takes a viewer from the root, and it takes the client away with it.
LEMMA RootKeepsViewers ==
  ASSUME TypeOK, ReplayInFile, [Next]_vars,
         NEW c \in clients, c \in session_subscribers[Root], c \in clients'
  PROVE  c \in session_subscribers'[Root]
  <1>0. Root \in Sessions /\ Subagents \subseteq Sessions /\ Root \notin Subagents
    BY RoutesAssumption DEF Sessions
  <1>1. ASSUME NEW d \in Clients, Connect(d) PROVE c \in session_subscribers'[Root]
    BY <1>1 DEF Connect, tables
  <1>2. ASSUME NEW d \in Clients, Disconnect(d) PROVE c \in session_subscribers'[Root]
    BY <1>0, <1>2 DEF Disconnect, TypeOK
  <1>3. ASSUME NEW d \in clients, Attach(d, Root) PROVE c \in session_subscribers'[Root]
    BY <1>0, <1>3, AttachTables
  <1>4. ASSUME NEW q \in Requests, Replay(q) PROVE c \in session_subscribers'[Root]
    <2> DEFINE next == history[request[q].at + 1]
    <2>1. next \in {"spawned", "finished"} \X Subagents
      <3>1. request[q].at + 1 \in 1 .. Len(history)
        BY <1>4, RequestsType DEF Replay, ReplayInFile, RequestType
      <3>. QED
        BY <3>1 DEF TypeOK
    <2>2. Replayed(request[q].by, next[1], next[2])
      BY <1>4 DEF Replay
    <2>3. request[q].by \in Clients \union {None} /\ next[2] \in Subagents
      BY <2>1 DEF TypeOK
    <2>. QED
      BY <2>2, <2>3, ReplayedTables
  <1>5. ASSUME NEW p \in Sessions, NEW k \in Subagents, Spawn(p, k)
        PROVE  c \in session_subscribers'[Root]
    BY <1>0, <1>5 DEF Spawn, TypeOK, tables
  <1>6. ASSUME NEW k \in Subagents, Finish(k) PROVE c \in session_subscribers'[Root]
    BY <1>6, SeenTables DEF Finish
  <1>10. ASSUME NEW q \in Requests, NEW k \in Subagents, FinishAgain(q, k)
         PROVE  c \in session_subscribers'[Root]
    BY <1>10, SeenTables DEF FinishAgain
  <1>7. ASSUME UNCHANGED session_subscribers PROVE c \in session_subscribers'[Root]
    BY <1>7
  <1>8. ASSUME NEW d \in Clients, NEW q \in Requests, NEW kind \in {"new", "load"},
               Request(d, q, kind)
        PROVE  c \in session_subscribers'[Root]
    BY <1>3, <1>7, <1>8 DEF Request, tables
  <1>9. ASSUME NEW q \in Requests, Created(q) PROVE c \in session_subscribers'[Root]
    BY <1>3, <1>7, <1>9 DEF Created, tables
  <1>. QED
    BY <1>1, <1>2, <1>3, <1>4, <1>5, <1>6, <1>7, <1>8, <1>9, <1>10
       DEF Next, Message, Flush, BeginReplay, BeginDelta, SkipDelta, Read, Reconcile, Answer,
           Fail, Ask, Resolve, vars, tables

\* Only Request names a maker and a kind; the rest of the steps keep both.
LEMMA StepRequest ==
  ASSUME TypeOK, [Next]_vars, NEW r \in Requests
  PROVE  \/ request'[r].by = request[r].by /\ request'[r].kind = request[r].kind
              /\ request[r].phase # "free"
         \/ request[r].phase = "free" /\ request'[r] = request[r]
         \/ \E c \in clients : Request(c, r, "load") \/ Request(c, r, "new")
  <1> USE RequestsType
  <1>1. ASSUME NEW c \in Clients, NEW q \in Requests, NEW kind \in {"new", "load"},
               Request(c, q, kind), q # r
        PROVE  request'[r] = request[r]
    BY <1>1 DEF Request
  <1>2. ASSUME NEW q \in Requests,
               \/ Flush(q) \/ BeginReplay(q) \/ BeginDelta(q) \/ SkipDelta(q)
               \/ Replay(q) \/ Reconcile(q)
               \/ \E k \in Subagents : FinishAgain(q, k)
        PROVE  \/ request'[r] = request[r]
               \/ /\ request'[r].by = request[r].by /\ request'[r].kind = request[r].kind
                  /\ request[r].phase # "free"
    <2>1. request[q].phase # "free"
      BY <1>2 DEF Flush, BeginReplay, BeginDelta, SkipDelta, Replay, Reconcile, FinishAgain,
                  FlushAfter
    <2>2. /\ request'[q].by = request[q].by /\ request'[q].kind = request[q].kind
          /\ q # r => request'[r] = request[r]
      BY <1>2, LoadFields DEF OneLoad
    <2>. QED
      BY <2>1, <2>2
  <1>4. ASSUME NEW q \in Requests, request[q].phase # "free",
               Answered(q, "done") \/ Answered(q, "failed")
        PROVE  \/ request'[r] = request[r]
               \/ /\ request'[r].by = request[r].by /\ request'[r].kind = request[r].kind
                  /\ request[r].phase # "free"
    <2>1. CASE q # r
      BY <1>4, <2>1 DEF Answered
    <2>2. CASE q = r
      <3>1. PICK phase \in {"done", "failed"} :
              request' = [request EXCEPT ![q] = [Free EXCEPT
                !.by = request[q].by, !.kind = request[q].kind, !.phase = phase]]
        BY <1>4 DEF Answered
      <3>. QED
        BY <1>4, <2>2, <3>1 DEF Free, RequestType
    <2>. QED
      BY <2>1, <2>2
  <1>5. ASSUME NEW c \in Clients, NEW kind \in {"new", "load"}, Request(c, r, kind)
        PROVE  c \in clients
    BY <1>5 DEF Request
  <1>. QED
    BY <1>1, <1>2, <1>4, <1>5
       DEF Next, Connect, Disconnect, Message, Answer, Created, Fail, Spawn, Finish, Ask,
           Resolve, vars

\* A client that was seen before is there still or never comes back.
LEMMA NoReturn ==
  ASSUME TypeOK, ReplayInFile, [Next]_vars, NEW c \in clients \union gone, c \in clients'
  PROVE  c \in clients
  <1>1. gone \subseteq gone'
    BY DEF Next, Connect, Disconnect, Message, Request, Flush, BeginReplay, BeginDelta,
           SkipDelta, Read, Replay, Reconcile, FinishAgain, Answer, Created, Fail, Answered,
           Spawn, Finish, Ask, Resolve, vars
  <1>2. clients' \intersect gone' = {}
    BY StepType DEF TypeOK
  <1>. QED
    BY <1>1, <1>2

\* Requests change their maker in Request alone, and that attaches a loader.
LEMMA StepLoaders ==
  TypeOK /\ ReplayInFile /\ AskersKnown /\ LoadersViewRoot /\ [Next]_vars => LoadersViewRoot'
  <1> SUFFICES ASSUME TypeOK, ReplayInFile, AskersKnown, LoadersViewRoot, [Next]_vars
               PROVE  LoadersViewRoot'
    OBVIOUS
  <1> USE RequestsType
  <1>0. Root \in Sessions
    BY DEF Sessions
  <1>1. ASSUME NEW r \in Requests, request'[r].kind = "load", request'[r].by \in clients',
               request'[r].by = request[r].by, request'[r].kind = request[r].kind,
               request[r].phase # "free"
        PROVE  request'[r].by \in session_subscribers'[Root]
    <2>1. request[r].by \in clients \union gone
      BY <1>1 DEF AskersKnown
    <2>2. request[r].by \in clients
      BY <1>1, <2>1, NoReturn
    <2>. QED
      BY <1>1, <2>2, RootKeepsViewers DEF LoadersViewRoot
  <1>2. ASSUME NEW r \in Requests, request[r].phase = "free", request[r] = request'[r],
               request'[r].by \in clients'
        PROVE  FALSE
    <2>1. clients' \subseteq Clients
      BY StepType DEF TypeOK
    <2>. QED
      BY <1>2, <2>1, RoutesAssumption DEF AskersKnown
  <1>3. ASSUME NEW r \in Requests
        PROVE  \/ request'[r].by = request[r].by /\ request'[r].kind = request[r].kind
                    /\ request[r].phase # "free"
               \/ request[r].phase = "free" /\ request'[r] = request[r]
               \/ \E c \in clients : Request(c, r, "load") \/ Request(c, r, "new")
    BY StepRequest
  <1>4. ASSUME NEW r \in Requests, NEW c \in clients, Request(c, r, "load")
        PROVE  request'[r].by \in session_subscribers'[Root]
    <2>1. request'[r].by = c
      BY <1>4 DEF Request, Free, RequestType
    <2>2. Attach(c, Root)
      BY <1>4 DEF Request
    <2>. QED
      BY <1>0, <2>1, <2>2, AttachTables
  <1>5. ASSUME NEW r \in Requests, NEW c \in clients, Request(c, r, "new")
        PROVE  request'[r].kind = "new"
    BY <1>5 DEF Request, Free, RequestType
  <1>. QED
    BY <1>1, <1>2, <1>3, <1>4, <1>5 DEF LoadersViewRoot
-----------------------------------------------------------------------------
(* Interactions.                                                           *)

\* Ask opens an interaction and caches it in the same step, Resolve closes it and
\* evicts it unless it was cached under another session.
LEMMA StepCache ==
  TypeOK /\ OpenIsCached /\ CachedUnderIts /\ CachedIsOpen /\ [Next]_vars
    => OpenIsCached' /\ CachedUnderIts' /\ CachedIsOpen'
  <1> SUFFICES ASSUME TypeOK, OpenIsCached, CachedUnderIts, CachedIsOpen, [Next]_vars
               PROVE  OpenIsCached' /\ CachedUnderIts' /\ CachedIsOpen'
    OBVIOUS
  <1>0. /\ question \in [Interactions -> [state : {"idle", "open", "closed"},
                                          under : Sessions, asker : Sessions]]
        /\ interaction_requests \in [Sessions -> SUBSET Interactions]
    BY DEF TypeOK
  <1>1. ASSUME NEW i \in Interactions, NEW s \in Sessions, NEW under \in Sessions,
               Ask(i, s, under)
        PROVE  OpenIsCached' /\ CachedUnderIts' /\ CachedIsOpen'
    <2>1. /\ question' = [question EXCEPT ![i] = [state |-> "open", under |-> under, asker |-> s]]
          /\ interaction_requests' = [interaction_requests EXCEPT ![under] = @ \union {i}]
      BY <1>1 DEF Ask
    <2>2. OpenIsCached'
      BY <1>0, <2>1 DEF OpenIsCached
    <2>3. CachedIsOpen'
      BY <1>0, <2>1 DEF CachedIsOpen
    <2>4. CachedUnderIts'
      <3>1. question[i].state = "idle"
        BY <1>1 DEF Ask
      <3>. QED
        BY <1>0, <2>1, <3>1 DEF CachedUnderIts
    <2>. QED
      BY <2>2, <2>3, <2>4
  <1>2. ASSUME NEW i \in Interactions, Resolve(i)
        PROVE  OpenIsCached' /\ CachedUnderIts' /\ CachedIsOpen'
    <2>1. /\ question' = [question EXCEPT ![i].state = "closed"]
          /\ interaction_requests' = [interaction_requests EXCEPT ![question[i].asker] = @ \ {i}]
          /\ question[i].state = "open"
      BY <1>2 DEF Resolve
    <2>2. OpenIsCached'
      BY <1>0, <2>1 DEF OpenIsCached
    <2>3. CachedIsOpen'
      <3> SUFFICES ASSUME NEW s \in Sessions, NEW j \in interaction_requests'[s]
                   PROVE  question'[j].state = "open" \/ question'[j].asker # question'[j].under
        BY DEF CachedIsOpen
      <3>1. j \in interaction_requests[s] /\ j \in Interactions
        BY <1>0, <2>1
      <3>2. CASE j # i
        BY <1>0, <2>1, <3>1, <3>2 DEF CachedIsOpen
      <3>3. CASE j = i /\ question[i].asker # question[i].under
        BY <1>0, <2>1, <3>3
      <3>4. CASE j = i /\ question[i].asker = question[i].under
        \* Only under the session it was asked under is an interaction cached.
        BY <1>0, <2>1, <3>1, <3>4 DEF CachedUnderIts
      <3>. QED
        BY <3>2, <3>3, <3>4
    <2>4. CachedUnderIts'
      BY <1>0, <2>1 DEF CachedUnderIts
    <2>. QED
      BY <2>2, <2>3, <2>4
  <1>3. ASSUME UNCHANGED <<question, interaction_requests>>
        PROVE  OpenIsCached' /\ CachedUnderIts' /\ CachedIsOpen'
    BY <1>3 DEF OpenIsCached, CachedUnderIts, CachedIsOpen
  <1>. QED
    BY <1>1, <1>2, <1>3
       DEF Next, Connect, Disconnect, Message, Request, Flush, BeginReplay, BeginDelta,
           SkipDelta, Read, Replay, Reconcile, FinishAgain, Answer, Created, Fail, Answered,
           Spawn, Finish, vars, agent

\* Who has loaded after a step had loaded before, or is answered by it.
LEMMA LoadedBefore ==
  ASSUME TypeOK, ReplayInFile, AskersKnown, [Next]_vars, NEW c \in Clients, Loaded(c)'
  PROVE  \/ Loaded(c)
         \/ \E q \in Requests : Answer(q) /\ request[q].by = c /\ request[q].kind = "load"
                                /\ c \in clients
  <1> USE RequestsType
  <1>1. PICK q \in Requests : /\ request'[q].by = c /\ request'[q].kind = "load"
                              /\ request'[q].phase = "done" /\ c \in clients'
    BY DEF Loaded
  <1>2. /\ request[q].by = c /\ request[q].kind = "load" /\ request[q].phase # "free"
    <2>1. CASE request[q].phase = "free" /\ request'[q] = request[q]
      BY <1>1, <2>1
    <2>2. CASE \E d \in clients : Request(d, q, "load") \/ Request(d, q, "new")
      <3>1. PICK d \in clients, kind \in {"new", "load"} : Request(d, q, kind)
        BY <2>2
      <3>2. request' = [request EXCEPT ![q] =
                          [Free EXCEPT !.by = d, !.kind = kind, !.phase = "asked"]]
        BY <3>1 DEF Request
      <3>3. request'[q] = [Free EXCEPT !.by = d, !.kind = kind, !.phase = "asked"]
        BY <3>2
      <3>4. request'[q].phase = "asked"
        BY <3>3 DEF Free
      <3>. QED
        BY <1>1, <3>4
    <2>. QED
      BY <1>1, <2>1, <2>2, StepRequest
  <1>3. c \in clients
    BY <1>1, <1>2, NoReturn DEF AskersKnown
  <1>4. CASE request[q].phase = "done"
    BY <1>2, <1>3, <1>4 DEF Loaded
  <1>5. CASE request[q].phase # "done"
    <2>1. ASSUME NEW d \in Clients, NEW r \in Requests, NEW kind \in {"new", "load"},
                 Request(d, r, kind)
          PROVE  FALSE
      <3>1. r # q
        BY <1>2, <2>1 DEF Request
      <3>. QED
        BY <1>1, <1>5, <2>1, <3>1 DEF Request
    <2>2. ASSUME NEW r \in Requests,
                 \/ Flush(r) \/ BeginReplay(r) \/ BeginDelta(r) \/ SkipDelta(r)
                 \/ Replay(r) \/ Reconcile(r)
                 \/ \E k \in Subagents : FinishAgain(r, k)
          PROVE  FALSE
      <3>1. request'[r].phase # "done" \/ request'[r].phase = request[r].phase
        BY <2>2, LoadFields DEF OneLoad
      <3>2. r # q => request'[q] = request[q]
        BY <2>2, LoadFields DEF OneLoad
      <3>. QED
        BY <1>1, <1>5, <3>1, <3>2
    <2>4. ASSUME NEW r \in Requests, Created(r) \/ Fail(r) \/ Answer(r)
          PROVE  r = q /\ Answer(q)
      <3>1. r = q
        BY <1>1, <1>5, <2>4 DEF Created, Fail, Answer, Answered
      <3>2. ~Created(r)
        BY <1>2, <3>1 DEF Created
      <3>3. ~Fail(r)
        BY <1>1, <3>1 DEF Fail, Answered, Free, RequestType
      <3>. QED
        BY <2>4, <3>1, <3>2, <3>3
    <2>. QED
      BY <1>1, <1>2, <1>3, <1>5, <2>1, <2>2, <2>4
         DEF Next, Connect, Disconnect, Message, Spawn, Finish, Ask, Resolve, vars
  <1>. QED
    BY <1>4, <1>5

\* An interaction is shown when it is asked, as the client views the root, or
\* from the cache when its load is answered; what is held back is shown by then.
LEMMA StepShown == IInv /\ [Next]_vars => OpenInteractionsShown'
  <1> DEFINE Shown(c, i) == \/ i \in shown[c]
                            \/ load_live_buffer[c] # None /\ i \in load_live_buffer[c]
  <1> SUFFICES ASSUME IInv, [Next]_vars, NEW c \in Clients, NEW i \in Interactions, Loaded(c)',
                      question'[i].state = "open", question'[i].under = Root
               PROVE  Shown(c, i)'
    BY DEF OpenInteractionsShown
  <1>0. /\ TypeOK /\ ReplayInFile /\ AskersKnown /\ LoadersViewRoot
        /\ OpenIsCached /\ OpenInteractionsShown
    BY DEF IInv
  <1>1. ASSUME NEW q \in Requests, Answer(q), request[q].by = c, request[q].kind = "load",
               c \in clients
        PROVE  Shown(c, i)'
    <2>1. question' = question
      BY <1>1 DEF Answer, Answered
    <2>2. i \in interaction_requests[Root]
      BY <1>0, <2>1 DEF OpenIsCached
    <2>3. interaction_requests[Root] \subseteq shown'[c]
      BY <1>0, <1>1 DEF Answer, Answered, TypeOK
    <2>. QED
      BY <2>2, <2>3
  <1>2. CASE Loaded(c)
    <2>1. c \in clients /\ c \in session_subscribers[Root]
      BY <1>0, <1>2 DEF Loaded, LoadersViewRoot
    <2>2. /\ shown \in [Clients -> SUBSET Interactions]
          /\ load_live_buffer \in [Clients -> {None} \union SUBSET Interactions]
          /\ question \in [Interactions -> [state : {"idle", "open", "closed"},
                                            under : Sessions, asker : Sessions]]
      BY <1>0 DEF TypeOK
    <2>3. ASSUME question'[i] = question[i] PROVE Shown(c, i)
      BY <1>0, <1>2, <2>3 DEF OpenInteractionsShown
    <2>4. ASSUME NEW j \in Interactions, NEW s \in Sessions, NEW under \in Sessions,
                 Ask(j, s, under)
          PROVE  Shown(c, i)'
      <3> DEFINE loading == {d \in session_subscribers[under] :
                               under = Root /\ load_live_buffer[d] # None}
      <3>1. /\ load_live_buffer' = [d \in Clients |-> IF d \in loading
                                      THEN load_live_buffer[d] \union {j} ELSE load_live_buffer[d]]
            /\ shown' = [d \in Clients |-> IF d \in session_subscribers[under] \ loading
                                      THEN shown[d] \union {j} ELSE shown[d]]
            /\ question' = [question EXCEPT ![j] = [state |-> "open", under |-> under, asker |-> s]]
        BY <2>4 DEF Ask
      <3>2. ASSUME NEW I \in SUBSET Interactions PROVE I \union {j} # None
        BY RoutesAssumption
      <3>3. load_live_buffer[c] # None => load_live_buffer'[c] # None
                 /\ load_live_buffer[c] \subseteq load_live_buffer'[c]
        BY <2>2, <3>1, <3>2
      <3>4. shown[c] \subseteq shown'[c]
        BY <3>1
      <3>5. CASE j # i
        BY <2>2, <2>3, <3>1, <3>3, <3>4, <3>5
      <3>6. CASE j = i
        <4>1. under = Root
          BY <2>2, <3>1, <3>6
        <4>2. CASE load_live_buffer[c] = None
          BY <2>1, <3>1, <3>6, <4>1, <4>2
        <4>3. CASE load_live_buffer[c] # None
          BY <2>1, <3>1, <3>3, <3>6, <4>1, <4>3
        <4>. QED
          BY <4>2, <4>3
      <3>. QED
        BY <3>5, <3>6
    <2>5. ASSUME NEW j \in Interactions, Resolve(j) PROVE Shown(c, i)'
      <3>1. j # i
        BY <2>2, <2>5 DEF Resolve
      <3>. QED
        BY <2>2, <2>3, <2>5, <3>1 DEF Resolve
    <2>6. ASSUME NEW d \in Clients, Disconnect(d) PROVE Shown(c, i)'
      <3>1. c # d
        BY <2>6 DEF Disconnect, Loaded
      <3>. QED
        BY <2>2, <2>3, <2>6, <3>1 DEF Disconnect, agent
    <2>7. ASSUME NEW d \in Clients, NEW q \in Requests, NEW kind \in {"new", "load"},
                 Request(d, q, kind)
          PROVE  Shown(c, i)'
      <3>1. load_live_buffer[c] # None => load_live_buffer'[c] = load_live_buffer[c]
        BY <2>2, <2>7 DEF Request
      <3>2. UNCHANGED <<shown, question>>
        BY <2>7 DEF Request, agent
      <3>. QED
        BY <2>3, <3>1, <3>2
    <2>8. ASSUME NEW q \in Requests, NEW phase, Answered(q, phase) PROVE Shown(c, i)'
      <3>1. question' = question
        BY <2>8 DEF Answered
      <3>2. CASE UNCHANGED <<shown, load_live_buffer>>
        BY <2>3, <3>1, <3>2
      <3>3. CASE request[q].by \in clients /\ request[q].kind = "load"
        <4> DEFINE d == request[q].by
                   held == IF load_live_buffer[d] = None THEN {} ELSE load_live_buffer[d]
        <4>1. /\ shown' = [shown EXCEPT ![d] = @ \union held \union interaction_requests[Root]]
              /\ load_live_buffer' = [load_live_buffer EXCEPT ![d] = None]
          BY <2>8, <3>3 DEF Answered
        <4>. QED
          BY <2>2, <2>3, <3>1, <4>1
      <3>. QED
        BY <2>8, <3>2, <3>3 DEF Answered
    <2>9. ASSUME UNCHANGED <<shown, load_live_buffer, question>> PROVE Shown(c, i)'
      BY <2>3, <2>9
    <2>. QED
      BY <2>4, <2>5, <2>6, <2>7, <2>8, <2>9
         DEF Next, Connect, Message, Flush, BeginReplay, BeginDelta, SkipDelta, Read, Replay,
             Reconcile, FinishAgain, Answer, Created, Fail, Spawn, Finish, vars, agent
  <1>. QED
    BY <1>0, <1>1, <1>2, LoadedBefore
-----------------------------------------------------------------------------
(* The busy count.                                                         *)

\* A request is counted when it is forwarded and again when it is answered, and
\* whether its client is still there makes no difference.
LEMMA StepBusy == TypeOK /\ BusyCount /\ [Next]_vars => BusyCount'
  <1> SUFFICES ASSUME TypeOK, BusyCount, [Next]_vars PROVE BusyCount'
    OBVIOUS
  <1> USE RequestsType
  <1>0. IsFiniteSet(Owed) /\ pending_requests = Cardinality(Owed)
    <2>1. IsFiniteSet(Owed)
      BY RoutesAssumption, FS_Subset DEF Owed
    <2>. QED
      BY <2>1 DEF BusyCount, Owed
  <1>1. ASSUME NEW c \in Clients, NEW q \in Requests, NEW kind \in {"new", "load"},
               Request(c, q, kind)
        PROVE  BusyCount'
    <2>1. Owed' = Owed \union {q} /\ q \notin Owed
      <3>1. request[q].phase = "free" /\ request'[q].phase = "asked"
            /\ \A r \in Requests \ {q} : request'[r] = request[r]
        BY <1>1 DEF Request, Free
      <3>. QED
        BY <3>1 DEF Owed, Unanswered, Loading
    <2>2. Cardinality(Owed') = Cardinality(Owed) + 1
      BY <1>0, <2>1, FS_AddElement
    <2>. QED
      BY <1>0, <1>1, <2>2 DEF Request, BusyCount, Owed
  <1>2. ASSUME NEW q \in Owed, NEW phase \in {"done", "failed"}, Answered(q, phase)
        PROVE  BusyCount'
    <2>1. request'[q].phase = phase /\ \A r \in Requests \ {q} : request'[r] = request[r]
      BY <1>2 DEF Answered, Owed, Free
    <2>2. Owed' = Owed \ {q}
      <3>1. phase \notin Unanswered
        BY <1>2 DEF Unanswered, Loading
      <3>. QED
        BY <2>1, <3>1 DEF Owed
    <2>3. Cardinality(Owed') = Cardinality(Owed) - 1
      BY <1>0, <2>2, FS_RemoveElement
    <2>4. Cardinality(Owed) # 0
      BY <1>0, FS_EmptySet
    <2>. QED
      BY <1>0, <1>2, <2>3, <2>4 DEF Answered, BusyCount, Owed
  <1>3. ASSUME Owed' = Owed, UNCHANGED pending_requests PROVE BusyCount'
    BY <1>0, <1>3 DEF BusyCount, Owed
  <1>4. ASSUME NEW q \in Requests,
               \/ Flush(q) \/ BeginReplay(q) \/ BeginDelta(q) \/ SkipDelta(q)
               \/ Replay(q) \/ Reconcile(q)
               \/ \E k \in Subagents : FinishAgain(q, k)
        PROVE  BusyCount'
    <2>1. request[q].phase \in Unanswered
      BY <1>4 DEF Flush, BeginReplay, BeginDelta, SkipDelta, Replay, Reconcile, FinishAgain,
                  FlushAfter, Unanswered, Loading
    <2>2. request'[q].phase \in Unanswered
      <3>1. \/ request'[q].phase = request[q].phase
            \/ request'[q].phase \in {"flush", "first", "reflush", "delta", "reconciled"}
        BY <1>4, LoadFields DEF OneLoad
      <3>. QED
        BY <2>1, <3>1 DEF Unanswered, Loading
    <2>3. \A r \in Requests \ {q} : request'[r] = request[r]
      BY <1>4, LoadFields DEF OneLoad
    <2>4. UNCHANGED pending_requests
      BY <1>4 DEF Flush, BeginReplay, BeginDelta, SkipDelta, Read, Replay, Reconcile, FinishAgain
    <2>. QED
      BY <1>3, <2>1, <2>2, <2>3, <2>4 DEF Owed
  <1>6. ASSUME NEW q \in Requests, Answer(q) \/ Created(q) \/ Fail(q) PROVE BusyCount'
    <2>1. q \in Owed
      BY <1>6 DEF Answer, Created, Fail, Owed, Unanswered, Loading
    <2>. QED
      BY <1>2, <1>6, <2>1 DEF Answer, Created, Fail
  <1>7. ASSUME UNCHANGED <<request, pending_requests>> PROVE BusyCount'
    BY <1>7 DEF BusyCount
  <1>. QED
    BY <1>1, <1>4, <1>6, <1>7
       DEF Next, Connect, Disconnect, Message, Spawn, Finish, Ask, Resolve, vars

\* At first nothing is owed.
LEMMA InitBusy == Init => BusyCount
  <1> SUFFICES ASSUME Init PROVE BusyCount
    OBVIOUS
  <1>1. {q \in Requests : request[q].phase \in Unanswered} = {}
    BY DEF Init, Free, Unanswered, Loading
  <1>. QED
    BY <1>1, FS_EmptySet DEF Init, BusyCount
-----------------------------------------------------------------------------
(* The theorems.                                                           *)

\* The invariant of the requests and of the interactions is inductive.
LEMMA StepInv == IInv /\ [Next]_vars => IInv'
  <1> SUFFICES ASSUME IInv, [Next]_vars PROVE IInv'
    OBVIOUS
  <1>1. /\ TypeOK /\ ReplayInFile /\ AskersKnown /\ LoadersViewRoot
        /\ OpenIsCached /\ CachedUnderIts /\ CachedIsOpen
    BY DEF IInv
  <1>2. TypeOK' /\ ReplayInFile' /\ AskersKnown'
    BY <1>1, StepType, StepReplay, StepAskers
  <1>3. LoadersViewRoot'
    BY <1>1, StepLoaders
  <1>4. OpenIsCached' /\ CachedUnderIts' /\ CachedIsOpen'
    BY <1>1, StepCache
  <1>5. OpenInteractionsShown'
    BY StepShown
  <1>. QED
    BY <1>2, <1>3, <1>4, <1>5 DEF IInv

\* So it holds throughout.
LEMMA Invariance == Spec => []IInv
  BY InitInv, StepInv, PTL DEF Spec

\* The tables keep their types and every subscriber is connected: a client that
\* leaves (ServerEvent::Disconnected) is taken out of every session's subscribers.
THEOREM SubscribersConnected == Spec => []TypeOK
  BY Invariance, PTL DEF IInv

\* The leader is busy exactly as long as the agent owes somebody an answer:
\* pending_requests is their number and its saturating_sub never saturates.
THEOREM RequestsCounted == Spec => []BusyCount
  <1>1. TypeOK /\ BusyCount /\ [Next]_vars => BusyCount'
    BY StepBusy
  <1>. QED
    BY <1>1, InitBusy, SubscribersConnected, PTL DEF Spec

\* interaction_requests holds no interaction that is over, so that a client that
\* attaches gets no stale modal, but for those asked under another session's id.
THEOREM CacheIsOpen == Spec => []CachedIsOpen
  BY Invariance, PTL DEF IInv

\* A client whose load was answered has every open interaction of the root, from
\* the cache or live, or held back for it during a further load of its own.
THEOREM LoadedSeesInteractions == Spec => []OpenInteractionsShown
  BY Invariance, PTL DEF IInv
-----------------------------------------------------------------------------
(* The routes of subagents: what the index holds, what the file says.      *)

Indexed == UNION {child_sessions[s] : s \in Sessions}

\* A session that was not spawned has no entry; the root never ends.
RootRuns == life[Root] # "done"
Unspawned == \A s \in Sessions : life[s] = "none" =>
  session_subscribers[s] = {} /\ session_driver[s] = None /\ child_sessions[s] = {}
IndexedSpawned == \A k \in Indexed : life[k] # "none"

\* Subagents are spawned by the root, or by a subagent that the root spawned.
Spawners == \A k \in Subagents :
  /\ life[k] # "none" => parent[k] # None
  /\ parent[k] # None => life[parent[k]] # "none"
  /\ parent[k] \in Subagents => parent[parent[k]] = Root

\* The index has a subagent once, under its parent or under the root; what has
\* children in it is itself under the root.
IndexTrue == \A s \in Sessions : \A k \in child_sessions[s] : s = Root \/ s = parent[k]
IndexOnce == \A s, t \in Sessions : child_sessions[s] \intersect child_sessions[t] # {} => s = t
IndexRooted == \A k \in Subagents : child_sessions[k] # {} => k \in child_sessions[Root]

Shape == RootRuns /\ Unspawned /\ IndexedSpawned /\ Spawners /\ IndexTrue /\ IndexOnce /\ IndexRooted

\* A live subagent of the root with a viewer is in the index, as is every
\* subagent of a subagent whose parent was viewed.
ViewedIndexed == \A k \in Subagents :
  life[k] = "live" /\ parent[k] = Root /\ session_subscribers[k] # {} => k \in child_sessions[Root]
AnnouncedIndexed == \A k \in announced : life[k] = "live" /\ k \in Indexed

\* Who views the root views what the index holds, but for a replay's routes.
IndexedViewed == \A k \in Indexed \ bare : life[k] = "live" =>
  session_subscribers[Root] \subseteq session_subscribers[k]

Routed == ViewedIndexed /\ AnnouncedIndexed /\ IndexedViewed /\ DrivenByViewer

\* The file has the spawn of each subagent of the root and then its finish, which
\* may be repeated.
InLog(what, k, m, n) == \E i \in m..n : history[i] = <<what, k>>
LogTrue == \A i \in 1..Len(history) :
  /\ life[history[i][2]] # "none" /\ parent[history[i][2]] = Root
  /\ history[i][1] = "finished" => life[history[i][2]] = "done"
LogComplete == \A k \in Subagents : parent[k] = Root =>
  /\ life[k] # "none" => InLog("spawned", k, 1, Len(history))
  /\ life[k] = "done" => InLog("finished", k, 1, Len(history))
LogOrdered == \A i, j \in 1..Len(history) :
  history[i][2] = history[j][2] /\ history[i][1] = "spawned" /\ history[j][1] = "finished"
    => i < j
Log == LogTrue /\ LogComplete /\ LogOrdered

\* What a load found unfinished was spawned, and what it finishes again is done.
UnfinishedTrue == \A q \in Requests : \A k \in request[q].unfinished :
  /\ parent[k] = Root /\ life[k] # "none"
  /\ request[q].phase = "reconciled" => life[k] = "done"

File == Log /\ UnfinishedTrue

\* A step that spawns and finishes nothing; session/new makes the root live.
NoneSpawned ==
  /\ UNCHANGED <<parent, history, announced>>
  /\ life' = life \/ life' = [life EXCEPT ![Root] = "live"]

\* The steps that change the routes.
LEMMA RouteSteps ==
  ASSUME TypeOK, [Next]_vars
  PROVE  \/ \E c \in clients : Attach(c, Root) /\ NoneSpawned /\ life'[Root] = "live"
         \/ \E d \in Clients : Disconnect(d)
         \/ \E q \in Requests : Replay(q)
         \/ \E p \in Sessions, k \in Subagents : Spawn(p, k)
         \/ \E k \in Subagents : Finish(k)
         \/ \E q \in Requests, k \in Subagents : FinishAgain(q, k)
         \/ UNCHANGED <<tables, bare>> /\ NoneSpawned
  <1>0. life \in [Sessions -> {"none", "live", "done"}] /\ Root \in Sessions
    BY DEF TypeOK, Sessions
  <1>1. ASSUME NEW c \in Clients, Message(c)
        PROVE  c \in clients /\ Attach(c, Root) /\ NoneSpawned /\ life'[Root] = "live"
    BY <1>1 DEF Message, agent, NoneSpawned
  <1>2. ASSUME NEW c \in Clients, NEW q \in Requests, NEW kind \in {"new", "load"},
               Request(c, q, kind)
        PROVE  /\ NoneSpawned
               /\ \/ UNCHANGED <<tables, bare>>
                  \/ c \in clients /\ Attach(c, Root) /\ life'[Root] = "live"
    BY <1>2 DEF Request, agent, NoneSpawned
  <1>3. ASSUME NEW q \in Requests, Created(q)
        PROVE  /\ NoneSpawned
               /\ \/ UNCHANGED <<tables, bare>>
                  \/ \E c \in clients : Attach(c, Root) /\ life'[Root] = "live"
    <2>1. life' = [life EXCEPT ![Root] = "live"] /\ UNCHANGED <<parent, history, announced>>
      BY <1>3 DEF Created, Answered
    <2>. QED
      BY <1>0, <1>3, <2>1 DEF Created, NoneSpawned
  <1>4. ASSUME NEW q \in Requests,
               \/ Flush(q) \/ BeginReplay(q) \/ BeginDelta(q) \/ SkipDelta(q)
               \/ Reconcile(q) \/ Answer(q) \/ Fail(q)
        PROVE  UNCHANGED <<tables, bare>> /\ NoneSpawned
    BY <1>4 DEF Flush, BeginReplay, BeginDelta, SkipDelta, Read, Reconcile, Answer, Fail,
                Answered, agent, NoneSpawned
  <1>5. ASSUME NEW c \in Clients, Connect(c) PROVE UNCHANGED <<tables, bare>> /\ NoneSpawned
    BY <1>5 DEF Connect, agent, NoneSpawned
  <1>6. ASSUME NEW i \in Interactions, NEW s \in Sessions, NEW under \in Sessions, Ask(i, s, under)
        PROVE  UNCHANGED <<tables, bare>> /\ NoneSpawned
    BY <1>6 DEF Ask, NoneSpawned
  <1>8. ASSUME NEW i \in Interactions, Resolve(i)
        PROVE  UNCHANGED <<tables, bare>> /\ NoneSpawned
    BY <1>8 DEF Resolve, NoneSpawned
  <1>7. CASE UNCHANGED vars
    BY <1>7 DEF vars, agent, NoneSpawned
  <1>. QED
    BY <1>1, <1>2, <1>3, <1>4, <1>5, <1>6, <1>8, <1>7 DEF Next

\* A subagent of a session other than the root leaves the file alone.
LEMMA LogGrows ==
  ASSUME TypeOK, NEW p, NEW what \in {"spawned", "finished"}, NEW k \in Subagents,
         Logged(p, what, k)
  PROVE  /\ Len(history) \in Nat /\ Len(history') \in Nat
         /\ \A i \in 1..Len(history) : /\ i \in 1..Len(history') /\ history'[i] = history[i]
                                      /\ history[i][1] \in {"spawned", "finished"}
                                      /\ history[i][2] \in Subagents
                                      /\ history[i] = <<history[i][1], history[i][2]>>
         /\ p # Root => Len(history') = Len(history)
         /\ p = Root => Len(history') = Len(history) + 1
                        /\ history'[Len(history) + 1] = <<what, k>>
  <1>1. history \in Seq({"spawned", "finished"} \X Subagents)
    BY DEF TypeOK
  <1>2. CASE p # Root
    BY <1>1, <1>2 DEF Logged
  <1>3. CASE p = Root
    BY <1>1, <1>3 DEF Logged
  <1>. QED
    BY <1>2, <1>3

\* The steps of one request.
LEMMA LoadSteps ==
  ASSUME TypeOK, [Next]_vars, NEW r \in Requests
  PROVE  \/ request'[r] = request[r]
         \/ Flush(r) \/ BeginReplay(r) \/ BeginDelta(r) \/ SkipDelta(r) \/ Replay(r)
         \/ Reconcile(r) \/ \E k \in Subagents : FinishAgain(r, k)
         \/ Answer(r) \/ Created(r) \/ Fail(r)
         \/ /\ request[r].phase = "free" /\ request'[r].phase = "asked"
            /\ request'[r].at = 0 /\ request'[r].upto = 0 /\ request'[r].unfinished = {}
  <1> USE RequestsType
  <1>1. ASSUME NEW c \in Clients, NEW q \in Requests, NEW kind \in {"new", "load"},
               Request(c, q, kind)
        PROVE  \/ request'[r] = request[r]
               \/ /\ request[r].phase = "free" /\ request'[r].phase = "asked"
                  /\ request'[r].at = 0 /\ request'[r].upto = 0 /\ request'[r].unfinished = {}
    BY <1>1 DEF Request, Free, RequestType
  <1>2. ASSUME NEW q \in Requests, q # r,
               \/ Flush(q) \/ BeginReplay(q) \/ BeginDelta(q) \/ SkipDelta(q) \/ Replay(q)
               \/ Reconcile(q) \/ \E k \in Subagents : FinishAgain(q, k)
        PROVE  request'[r] = request[r]
    BY <1>2, LoadFields DEF OneLoad
  <1>3. ASSUME NEW q \in Requests, q # r, Answer(q) \/ Created(q) \/ Fail(q)
        PROVE  request'[r] = request[r]
    BY <1>3 DEF Answer, Created, Fail, Answered
  <1>4. ASSUME UNCHANGED request PROVE request'[r] = request[r]
    BY <1>4
  <1>. QED
    BY <1>1, <1>2, <1>3, <1>4
       DEF Next, Connect, Disconnect, Message, Spawn, Finish, Ask, Resolve, vars

\* What a repeated finish is about.
LEMMA AgainFacts ==
  ASSUME TypeOK, UnfinishedTrue, NEW q \in Requests, NEW k \in Subagents, FinishAgain(q, k)
  PROVE  /\ parent[k] = Root /\ life[k] = "done"
         /\ UNCHANGED <<clients, life, parent, written, announced, bare>>
         /\ Logged(Root, "finished", k) /\ FinishSeen(Root, k)
         /\ Prune(k) \/ UNCHANGED tables
  BY DEF FinishAgain, FinishSeen, UnfinishedTrue

\* The file is written at the spawn and the finish of a subagent of the root.
LEMMA LogStep ==
  ASSUME TypeOK, Spawners, File, [Next]_vars
  PROVE  Log'
  <1>0. /\ life \in [Sessions -> {"none", "live", "done"}] /\ Subagents \subseteq Sessions
        /\ parent \in [Subagents -> Sessions \union {None}] /\ Root \notin Subagents
        /\ \A i \in 1..Len(history) : history[i][2] \in Subagents
        /\ Len(history) \in Nat
    BY RoutesAssumption DEF TypeOK, Sessions
  <1>1. ASSUME UNCHANGED <<parent, history>>, \A k \in Subagents : life'[k] = life[k]
        PROVE  Log'
    <2>1. LogTrue'
      BY <1>0, <1>1 DEF File, Log, LogTrue
    <2>2. LogComplete'
      BY <1>1 DEF File, Log, LogComplete, InLog
    <2>3. LogOrdered'
      BY <1>1 DEF File, Log, LogOrdered
    <2>. QED
      BY <2>1, <2>2, <2>3 DEF Log
  <1>2. ASSUME NEW p, NEW what \in {"spawned", "finished"}, NEW k \in Subagents, Logged(p, what, k),
               \A x \in Subagents \ {k} : life'[x] = life[x] /\ parent'[x] = parent[x],
               parent'[k] = p,
               \/ what = "spawned" /\ life[k] = "none" /\ life'[k] = "live"
               \/ what = "finished" /\ life[k] # "none" /\ life'[k] = "done" /\ parent[k] = p
        PROVE  Log'
    <2>1. /\ Len(history') \in Nat
          /\ \A i \in 1..Len(history) : i \in 1..Len(history') /\ history'[i] = history[i]
          /\ p # Root => Len(history') = Len(history)
          /\ p = Root => Len(history') = Len(history) + 1
                         /\ history'[Len(history) + 1] = <<what, k>>
      BY <1>2, LogGrows
    <2>2. \A i \in 1..Len(history') : i \in 1..Len(history) \/ (p = Root /\ i = Len(history) + 1)
      BY <1>0, <2>1
    <2>3. \A i \in 1..Len(history) :
            /\ life'[history[i][2]] # "none" /\ parent'[history[i][2]] = Root
            /\ history[i][1] = "finished" => life'[history[i][2]] = "done"
            /\ history[i][2] = k => what = "finished"
      BY <1>0, <1>2 DEF File, Log, LogTrue
    <2>4. LogTrue'
      BY <1>2, <2>1, <2>2, <2>3 DEF LogTrue
    <2>5. LogOrdered'
      <3> SUFFICES ASSUME NEW i \in 1..Len(history'), NEW j \in 1..Len(history'),
                          history'[i][2] = history'[j][2]
                   PROVE  history'[i][1] = "spawned" /\ history'[j][1] = "finished" => i < j
        BY DEF LogOrdered
      <3>1. CASE i \in 1..Len(history) /\ j \in 1..Len(history)
        BY <2>1, <3>1 DEF File, Log, LogOrdered
      <3>2. CASE i \in 1..Len(history) /\ p = Root /\ j = Len(history) + 1
        BY <1>0, <2>1, <2>3, <3>2
      <3>3. CASE p = Root /\ i = Len(history) + 1 /\ j \in 1..Len(history)
        BY <1>0, <2>1, <2>3, <3>3
      <3>4. CASE i = Len(history) + 1 /\ j = Len(history) + 1 /\ p = Root
        BY <2>1, <3>4
      <3>. QED
        BY <2>2, <3>1, <3>2, <3>3, <3>4
    <2>6. LogComplete'
      <3> SUFFICES ASSUME NEW x \in Subagents, parent'[x] = Root
                   PROVE  /\ life'[x] # "none" => InLog("spawned", x, 1, Len(history))'
                          /\ life'[x] = "done" => InLog("finished", x, 1, Len(history))'
        BY DEF LogComplete
      <3>1. ASSUME NEW w, InLog(w, x, 1, Len(history))
            PROVE  InLog(w, x, 1, Len(history))'
        BY <2>1, <3>1 DEF InLog
      <3>2. CASE x # k
        BY <1>2, <3>1, <3>2 DEF File, Log, LogComplete
      <3>3. CASE x = k
        <4>1. p = Root /\ InLog(what, k, 1, Len(history))'
          BY <1>0, <1>2, <2>1, <3>3 DEF InLog
        <4>2. what = "finished" => InLog("spawned", k, 1, Len(history))'
          BY <1>2, <3>1, <3>3, <4>1 DEF File, Log, LogComplete
        <4>. QED
          BY <1>2, <3>3, <4>1, <4>2
      <3>. QED
        BY <3>2, <3>3
    <2>. QED
      BY <2>4, <2>5, <2>6 DEF Log
  <1>3. ASSUME NEW p \in Sessions, NEW k \in Subagents, Spawn(p, k) PROVE Log'
    <2>1. /\ life' = [life EXCEPT ![k] = "live"] /\ parent' = [parent EXCEPT ![k] = p]
          /\ Logged(p, "spawned", k) /\ life[k] = "none"
      BY <1>3 DEF Spawn
    <2>. QED
      BY <1>0, <1>2, <2>1
  <1>4. ASSUME NEW k \in Subagents, Finish(k) PROVE Log'
    <2>1. /\ life' = [life EXCEPT ![k] = "done"] /\ parent' = parent
          /\ Logged(parent[k], "finished", k) /\ life[k] = "live"
      BY <1>4 DEF Finish
    <2>. QED
      BY <1>0, <1>2, <2>1
  <1>5. ASSUME NoneSpawned PROVE Log'
    BY <1>0, <1>1, <1>5 DEF NoneSpawned
  <1>6. ASSUME NEW d \in Clients, Disconnect(d) PROVE Log'
    BY <1>1, <1>6 DEF Disconnect, agent
  <1>7. ASSUME NEW q \in Requests, Replay(q) PROVE Log'
    BY <1>1, <1>7 DEF Replay, agent
  <1>8. ASSUME NEW q \in Requests, NEW k \in Subagents, FinishAgain(q, k) PROVE Log'
    <2>1. UnfinishedTrue
      BY DEF File
    <2>2. /\ parent[k] = Root /\ life[k] = "done" /\ UNCHANGED <<life, parent>>
          /\ Logged(Root, "finished", k)
      BY <1>8, <2>1, AgainFacts
    <2>. QED
      BY <1>2, <2>2
  <1>. QED
    BY <1>3, <1>4, <1>5, <1>6, <1>7, <1>8, RouteSteps

\* A load takes what it found unfinished from the file, and repeats a finish
\* only of what is done.
LEMMA UnfinishedStep ==
  ASSUME TypeOK, File, [Next]_vars
  PROVE  UnfinishedTrue'
  <1> SUFFICES ASSUME NEW r \in Requests, NEW k \in request'[r].unfinished
               PROVE  /\ parent'[k] = Root /\ life'[k] # "none"
                      /\ request'[r].phase = "reconciled" => life'[k] = "done"
    BY DEF UnfinishedTrue
  <1> USE RequestsType
  <1>0. /\ life \in [Sessions -> {"none", "live", "done"}] /\ Subagents \subseteq Sessions
        /\ parent \in [Subagents -> Sessions \union {None}] /\ Root \notin Subagents
        /\ UnfinishedTrue /\ request[r].unfinished \subseteq Subagents
    BY RoutesAssumption DEF TypeOK, Sessions, File, RequestType
  <1>1. ASSUME NEW x \in Subagents, parent[x] = Root, life[x] # "none"
        PROVE  /\ parent'[x] = Root /\ life'[x] # "none"
               /\ life[x] = "done" => life'[x] = "done"
    <2>1. ASSUME NEW p \in Sessions, NEW y \in Subagents, Spawn(p, y)
          PROVE  x # y /\ life'[x] = life[x] /\ parent'[x] = parent[x]
      BY <1>0, <1>1, <2>1 DEF Spawn
    <2>2. ASSUME NEW y \in Subagents, Finish(y)
          PROVE  life'[x] \in {life[x], "done"} /\ parent'[x] = parent[x]
      BY <1>0, <1>1, <2>2 DEF Finish
    <2>3. ASSUME NoneSpawned PROVE life'[x] = life[x] /\ parent'[x] = parent[x]
      BY <1>0, <1>1, <2>3 DEF NoneSpawned
    <2>4. ASSUME NEW d \in Clients, Disconnect(d) PROVE life'[x] = life[x] /\ parent'[x] = parent[x]
      BY <2>4 DEF Disconnect, agent
    <2>5. ASSUME NEW q \in Requests, Replay(q) PROVE life'[x] = life[x] /\ parent'[x] = parent[x]
      BY <2>5 DEF Replay, agent
    <2>6. ASSUME NEW q \in Requests, NEW y \in Subagents, FinishAgain(q, y)
          PROVE  life'[x] = life[x] /\ parent'[x] = parent[x]
      BY <2>6 DEF FinishAgain
    <2>. QED
      BY <1>1, <2>1, <2>2, <2>3, <2>4, <2>5, <2>6, RouteSteps
  <1>2. CASE k \in request[r].unfinished /\ (request'[r].phase = "reconciled" =>
                                              request[r].phase = "reconciled")
    BY <1>0, <1>1, <1>2 DEF UnfinishedTrue
  <1>3. CASE BeginReplay(r)
    <2>1. PICK n \in 0 .. Len(history) :
            request'[r].unfinished = Unfinished(n) /\ request'[r].phase = "first"
      BY <1>3, LoadFields
    <2>2. k \in Unfinished(n) /\ request'[r].phase = "first"
      BY <2>1
    <2>3. PICK m \in 1 .. n : history[m] = <<"spawned", k>>
      BY <2>2 DEF Unfinished
    <2>4. k \in Subagents /\ m \in 1 .. Len(history)
      BY <2>2, <2>3 DEF Unfinished
    <2>5. parent[k] = Root /\ life[k] # "none"
      BY <2>3, <2>4 DEF File, Log, LogTrue
    <2>. QED
      BY <1>1, <2>2, <2>4, <2>5
  <1>4. CASE Reconcile(r)
    <2>1. k \in request[r].unfinished /\ life[k] = "done"
      BY <1>4, LoadFields DEF OneLoad
    <2>. QED
      BY <1>0, <1>1, <2>1 DEF UnfinishedTrue
  <1>5. CASE \/ Flush(r) \/ BeginDelta(r) \/ SkipDelta(r) \/ Replay(r)
             \/ \E x \in Subagents : FinishAgain(r, x)
    <2>1. /\ request'[r].unfinished \subseteq request[r].unfinished
          /\ \/ request'[r].phase = request[r].phase
             \/ request'[r].phase \in {"flush", "first", "reflush", "delta"}
      BY <1>5, LoadFields DEF OneLoad
    <2>. QED
      BY <1>2, <2>1
  <1>6. CASE Answer(r) \/ Created(r) \/ Fail(r)
    <2>1. request'[r].unfinished = {}
      BY <1>6 DEF Answer, Created, Fail, Answered, Free
    <2>. QED
      BY <2>1
  <1>. QED
    BY <1>2, <1>3, <1>4, <1>5, <1>6, LoadSteps

\* So the file stays as it should be.
LEMMA FileStep ==
  ASSUME TypeOK, Spawners, File, [Next]_vars
  PROVE  File'
  BY LogStep, UnfinishedStep DEF File

\* A subagent is not its own parent.
LEMMA NoLoop ==
  ASSUME TypeOK, Spawners, IndexTrue, NEW k \in Subagents
  PROVE  k \notin child_sessions[k] /\ parent[k] # k
  <1>1. k # Root /\ k \in Sessions
    BY RoutesAssumption DEF Sessions
  <1>. QED
    BY <1>1 DEF Spawners, IndexTrue

\* prune_child_route takes k out of the index, and its children go to the root.
LEMMA PrunedIndex ==
  ASSUME TypeOK, Shape, NEW k \in Subagents, Prune(k)
  PROVE  /\ Indexed' = Indexed \ {k}
         /\ child_sessions'[k] = {}
         /\ \A s \in Sessions \ {Root} : child_sessions'[s] \subseteq child_sessions[s]
         /\ child_sessions[Root] \ {k} \subseteq child_sessions'[Root]
         /\ child_sessions'[Root] \subseteq child_sessions[Root] \union child_sessions[k]
         /\ IndexOnce'
         /\ session_subscribers' = [session_subscribers EXCEPT ![k] = {}]
         /\ session_driver' = [session_driver EXCEPT ![k] = None]
  <1> DEFINE parents == ParentsInIndex(k)
             up == IF parents = {} THEN None ELSE CHOOSE s \in parents : TRUE
  <1>0. /\ child_sessions \in [Sessions -> SUBSET Subagents]
        /\ k \in Sessions /\ k # Root /\ Root \in Sessions /\ None \notin Sessions
        /\ Subagents \subseteq Sessions
    BY RoutesAssumption DEF TypeOK, Sessions
  <1>1. child_sessions' = [s \in Sessions |-> IF s = k THEN {}
                             ELSE IF s = up
                             THEN (child_sessions[s] \ {k}) \union child_sessions[k]
                             ELSE child_sessions[s]]
    BY DEF Prune, Pruned
  <1>2. k \notin child_sessions[k]
    BY NoLoop DEF Shape
  <1>3. /\ up = None => \A s \in Sessions : k \notin child_sessions[s]
        /\ up # None => up \in Sessions /\ k \in child_sessions[up]
    <2>1. CASE parents = {}
      BY <2>1 DEF ParentsInIndex
    <2>2. CASE parents # {}
      <3>1. up \in parents
        BY <2>2
      <3>. QED
        BY <1>0, <3>1 DEF ParentsInIndex
    <2>. QED
      BY <2>1, <2>2
  <1> HIDE DEF up, parents
  <1>4. \A s \in Sessions : k \in child_sessions[s] => s = up
    BY <1>0, <1>3 DEF Shape, IndexOnce
  <1>5. child_sessions[k] # {} => up = Root
    BY <1>0, <1>3, <1>4 DEF Shape, IndexRooted
  <1>6. up # k
    BY <1>0, <1>2, <1>3
  <1>7. /\ \A s \in Sessions \ {k} : child_sessions'[s] =
             IF s = up THEN (child_sessions[s] \ {k}) \union child_sessions[k]
             ELSE child_sessions[s]
        /\ child_sessions'[k] = {}
    BY <1>0, <1>1
  <1>8. \A x : x \in Indexed' <=> x \in Indexed /\ x # k
    <2> TAKE x
    <2>1. ASSUME NEW s \in Sessions, x \in child_sessions'[s] PROVE x \in Indexed /\ x # k
      <3>1. s # k
        BY <1>7, <2>1
      <3>2. x \in child_sessions[s] \/ x \in child_sessions[k]
        BY <1>7, <2>1, <3>1
      <3>3. x # k
        BY <1>2, <1>4, <1>7, <2>1, <3>1
      <3>. QED
        BY <1>0, <3>2, <3>3 DEF Indexed
    <2>2. ASSUME NEW s \in Sessions, x \in child_sessions[s], x # k
          PROVE  \E t \in Sessions : x \in child_sessions'[t]
      <3>1. CASE s # k
        BY <1>7, <2>2, <3>1
      <3>2. CASE s = k
        <4>1. up = Root
          BY <1>5, <2>2, <3>2
        <4>. QED
          BY <1>0, <1>7, <2>2, <3>2, <4>1
      <3>. QED
        BY <3>1, <3>2
    <2>. QED
      BY <2>1, <2>2 DEF Indexed
  <1>9. \A s \in Sessions \ {Root} : child_sessions'[s] \subseteq child_sessions[s]
    <2> TAKE s \in Sessions \ {Root}
    <2>1. s = k => child_sessions'[s] = {}
      BY <1>7
    <2>2. s # k /\ s = up => child_sessions[k] = {}
      BY <1>5
    <2>. QED
      BY <1>7, <2>1, <2>2
  <1>10. /\ child_sessions[Root] \ {k} \subseteq child_sessions'[Root]
         /\ child_sessions'[Root] \subseteq child_sessions[Root] \union child_sessions[k]
    BY <1>0, <1>7
  <1>11. IndexOnce'
    <2> SUFFICES ASSUME NEW s \in Sessions, NEW t \in Sessions, NEW x,
                        x \in child_sessions'[s], x \in child_sessions'[t]
                 PROVE  s = t
      BY DEF IndexOnce
    <2>1. s # k /\ t # k
      BY <1>7
    <2>2. ASSUME NEW y \in Sessions \ {k}, x \in child_sessions'[y]
          PROVE  x \in child_sessions[y] \/ (x \in child_sessions[k] /\ y = up)
      BY <1>7, <2>2
    <2>3. (x \in child_sessions[s] \/ (x \in child_sessions[k] /\ s = up))
          /\ (x \in child_sessions[t] \/ (x \in child_sessions[k] /\ t = up))
      BY <2>1, <2>2
    <2>4. \A y, z \in Sessions : x \in child_sessions[y] /\ x \in child_sessions[z] => y = z
      BY DEF Shape, IndexOnce
    <2>. QED
      BY <1>0, <2>1, <2>3, <2>4
  <1>12. Indexed' = Indexed \ {k}
    BY <1>8
  <1>. QED
    BY <1>7, <1>9, <1>10, <1>11, <1>12 DEF Prune

\* What the root's viewers are given by backfill_child_routes is all the index has.
LEMMA AllBelowRoot ==
  ASSUME TypeOK, Shape
  PROVE  Descendants(Root) = Indexed
  <1>0. /\ child_sessions \in [Sessions -> SUBSET Subagents]
        /\ Root \in Sessions /\ Subagents \subseteq Sessions
    BY DEF TypeOK, Sessions
  <1>1. Indexed \subseteq Subagents
    BY <1>0 DEF Indexed
  <1>2. child_sessions[Root] \union UNION {child_sessions[j] : j \in Indexed} \subseteq Indexed
    BY <1>0, <1>1 DEF Indexed
  <1>3. Descendants(Root) \subseteq Indexed
    <2>1. Indexed \in SUBSET Subagents
      BY <1>1
    <2>. QED
      BY <1>2, <2>1 DEF Descendants
  <1>4. ASSUME NEW k \in Indexed, NEW S \in SUBSET Subagents,
               child_sessions[Root] \union UNION {child_sessions[j] : j \in S} \subseteq S
        PROVE  k \in S
    <2>1. PICK s \in Sessions : k \in child_sessions[s]
      BY DEF Indexed
    <2>2. CASE s = Root
      BY <1>4, <2>1, <2>2
    <2>3. CASE s # Root
      <3>1. s \in Subagents /\ child_sessions[s] # {}
        BY <2>1, <2>3 DEF Sessions
      <3>2. s \in child_sessions[Root]
        BY <3>1 DEF Shape, IndexRooted
      <3>3. s \in S
        BY <1>4, <3>2
      <3>. QED
        BY <1>4, <2>1, <3>3
    <2>. QED
      BY <2>2, <2>3
  <1>5. Indexed \subseteq Descendants(Root)
    BY <1>1, <1>4 DEF Descendants
  <1>. QED
    BY <1>3, <1>5

\* So a message of c makes it a viewer of the root and of all the index has.
LEMMA AttachedAll ==
  ASSUME TypeOK, Shape, NEW c \in clients, Attach(c, Root)
  PROVE  /\ child_sessions' = child_sessions /\ bare' = bare
         /\ \A s \in Sessions :
              /\ session_subscribers'[s] = IF s = Root \/ s \in Indexed
                                           THEN session_subscribers[s] \union {c}
                                           ELSE session_subscribers[s]
              /\ session_driver[s] # None => session_driver'[s] = session_driver[s]
              /\ s \notin Indexed \union {Root} => session_driver'[s] = session_driver[s]
              /\ s \in Indexed \union {Root} /\ session_driver[s] = None =>
                   session_driver'[s] = IF session_driver[Root] = None THEN c
                                        ELSE session_driver[Root]
  <1> DEFINE below == Descendants(Root)
             driver == IF session_driver[Root] = None THEN c ELSE session_driver[Root]
  <1>1. /\ session_subscribers' = [x \in Sessions |-> IF x = Root \/ x \in below
                                 THEN session_subscribers[x] \union {c}
                                 ELSE session_subscribers[x]]
        /\ session_driver' = [x \in Sessions |->
                                IF (x = Root \/ x \in below) /\ session_driver[x] = None
                                THEN driver ELSE session_driver[x]]
    BY DEF Attach
  <1>2. below = Indexed
    BY AllBelowRoot
  <1> HIDE DEF below, driver
  <1>3. \A s \in Sessions :
          /\ session_subscribers'[s] = IF s = Root \/ s \in below
                                       THEN session_subscribers[s] \union {c}
                                       ELSE session_subscribers[s]
          /\ session_driver'[s] = IF (s = Root \/ s \in below) /\ session_driver[s] = None
                                  THEN driver ELSE session_driver[s]
    BY <1>1
  <1>. QED
    BY <1>2, <1>3 DEF Attach, driver

\* A replayed spawn: c views k, which the root has in the index.
SpawnReplayed(c, k) ==
  /\ c \in clients
  /\ session_subscribers' = [session_subscribers EXCEPT ![k] = @ \union {c}]
  /\ child_sessions' = [child_sessions EXCEPT ![Root] = @ \union {k}]
  /\ bare' = IF session_driver[k] = None THEN bare \union {k} ELSE bare
  /\ UNCHANGED session_driver

\* A replayed finish: the last viewer takes the route with it.
FinishReplayed(c, k) ==
  /\ life[k] = "done" /\ bare' = bare
  /\ \/ c \in clients /\ session_subscribers[k] = {c} /\ Prune(k)
     \/ c \notin clients /\ session_subscribers[k] = {} /\ Prune(k)
     \/ /\ c \in clients /\ session_subscribers[k] # {c}
        /\ session_subscribers' = [session_subscribers EXCEPT ![k] = @ \ {c}]
        /\ UNCHANGED <<session_driver, child_sessions>>
     \/ c \notin clients /\ session_subscribers[k] # {} /\ UNCHANGED tables

\* A replay sends an event of the file, which is true of its subagent.
LEMMA ReplaySteps ==
  ASSUME TypeOK, ReplayInFile, File, NEW q \in Requests, Replay(q)
  PROVE  /\ UNCHANGED agent /\ UNCHANGED <<clients, haunted, gone>>
         /\ request' = [request EXCEPT ![q].at = request[q].at + 1]
         /\ request[q].phase \in {"first", "delta"} /\ request[q].at + 1 \in 1..request[q].upto
         /\ request[q].upto <= Len(history)
         /\ \E k \in Subagents :
              /\ parent[k] = Root /\ life[k] # "none"
              /\ \/ /\ history[request[q].at + 1] = <<"spawned", k>>
                    /\ SpawnReplayed(request[q].by, k)
                 \/ /\ history[request[q].at + 1] = <<"spawned", k>>
                    /\ request[q].by \notin clients /\ UNCHANGED <<tables, bare>>
                 \/ /\ history[request[q].at + 1] = <<"finished", k>>
                    /\ FinishReplayed(request[q].by, k)
  <1> DEFINE n == request[q].at + 1
             k == history[n][2]
             c == request[q].by
  <1>1. /\ request[q].at \in Nat /\ request[q].upto \in Nat /\ request[q].at < request[q].upto
        /\ request[q].upto <= Len(history) /\ Len(history) \in Nat
    BY RequestsType DEF Replay, ReplayInFile, RequestType
  <1>2. n \in 1..request[q].upto /\ n \in 1..Len(history)
    BY <1>1
  <1>3. history[n] \in {"spawned", "finished"} \X Subagents
    BY <1>2 DEF TypeOK
  <1>4. Replayed(c, history[n][1], k)
    BY DEF Replay
  <1> HIDE DEF n, k, c
  <1>5. /\ k \in Subagents /\ parent[k] = Root /\ life[k] # "none"
        /\ history[n][1] = "finished" => life[k] = "done"
    BY <1>2, <1>3 DEF File, Log, LogTrue, k
  <1>6. CASE history[n][1] = "spawned"
    <2>1. history[n] = <<"spawned", k>>
      BY <1>3, <1>6 DEF k
    <2>2. SpawnReplayed(c, k) \/ (c \notin clients /\ UNCHANGED <<tables, bare>>)
      BY <1>4, <1>6 DEF Replayed, SpawnReplayed
    <2>. QED
      BY <1>1, <1>2, <1>5, <2>1, <2>2 DEF Replay, n, c
  <1>7. CASE history[n][1] = "finished"
    <2>1. history[n] = <<"finished", k>>
      BY <1>3, <1>7 DEF k
    <2>2. CASE c \in clients
      <3>1. /\ bare' = bare
            /\ IF session_subscribers[k] = {c} THEN Prune(k)
               ELSE /\ session_subscribers' = [session_subscribers EXCEPT ![k] = @ \ {c}]
                    /\ UNCHANGED <<session_driver, child_sessions>>
        BY <1>4, <1>7, <2>2 DEF Replayed
      <3>. QED
        BY <1>1, <1>2, <1>5, <1>7, <2>1, <2>2, <3>1 DEF Replay, n, c, FinishReplayed
    <2>3. CASE c \notin clients
      <3>1. /\ bare' = bare
            /\ \/ session_subscribers[k] = {} /\ Prune(k)
               \/ session_subscribers[k] # {} /\ UNCHANGED tables
        BY <1>4, <1>7, <2>3 DEF Replayed
      <3>. QED
        BY <1>1, <1>2, <1>5, <1>7, <2>1, <2>3, <3>1 DEF Replay, n, c, FinishReplayed
    <2>. QED
      BY <2>2, <2>3
  <1>. QED
    BY <1>3, <1>6, <1>7

\* The shape of the index survives the removal of a subagent that was spawned.
LEMMA PrunedShape ==
  ASSUME TypeOK, Shape, NEW k \in Subagents, Prune(k), life[k] # "none", life'[k] # "none",
         parent' = parent, \A s \in Sessions \ {k} : life'[s] = life[s]
  PROVE  Shape'
  <1>0. /\ k \in Sessions /\ k # Root /\ Root \in Sessions /\ Subagents \subseteq Sessions
        /\ session_subscribers \in [Sessions -> SUBSET clients]
        /\ session_driver \in [Sessions -> Clients \union {None}]
        /\ child_sessions \in [Sessions -> SUBSET Subagents]
    BY RoutesAssumption DEF TypeOK, Sessions
  <1>1. /\ Indexed' = Indexed \ {k}
        /\ child_sessions'[k] = {}
        /\ \A s \in Sessions \ {Root} : child_sessions'[s] \subseteq child_sessions[s]
        /\ child_sessions[Root] \ {k} \subseteq child_sessions'[Root]
        /\ child_sessions'[Root] \subseteq child_sessions[Root] \union child_sessions[k]
        /\ IndexOnce'
        /\ session_subscribers' = [session_subscribers EXCEPT ![k] = {}]
        /\ session_driver' = [session_driver EXCEPT ![k] = None]
    BY PrunedIndex
  <1>2. /\ RootRuns /\ Unspawned /\ IndexedSpawned /\ Spawners /\ IndexTrue /\ IndexRooted
    BY DEF Shape
  <1>3. RootRuns'
    BY <1>0, <1>2 DEF RootRuns
  <1>4. Unspawned'
    <2> SUFFICES ASSUME NEW s \in Sessions, life'[s] = "none"
                 PROVE  session_subscribers'[s] = {} /\ session_driver'[s] = None
                        /\ child_sessions'[s] = {}
      BY DEF Unspawned
    <2>1. s # k /\ life[s] = "none"
      OBVIOUS
    <2>2. session_subscribers'[s] = {} /\ session_driver'[s] = None /\ child_sessions[s] = {}
      BY <1>0, <1>1, <1>2, <2>1 DEF Unspawned
    <2>3. s = Root => child_sessions[k] = {}
      BY <1>2, <2>2 DEF IndexRooted
    <2>. QED
      BY <1>1, <2>2, <2>3
  <1>5. IndexedSpawned'
    BY <1>0, <1>1, <1>2 DEF IndexedSpawned, Indexed
  <1>6. Spawners'
    <2>1. \A s \in Sessions : life[s] # "none" <=> life'[s] # "none"
      OBVIOUS
    <2>2. parent \in [Subagents -> Sessions \union {None}]
      BY DEF TypeOK
    <2>. QED
      BY <1>0, <1>2, <2>1, <2>2 DEF Spawners
  <1>7. IndexTrue'
    BY <1>1, <1>2 DEF IndexTrue
  <1>8. IndexRooted'
    <2> SUFFICES ASSUME NEW x \in Subagents, child_sessions'[x] # {}
                 PROVE  x \in child_sessions'[Root]
      BY DEF IndexRooted
    <2>1. x # k /\ child_sessions[x] # {}
      BY <1>0, <1>1, RoutesAssumption
    <2>. QED
      BY <1>1, <1>2, <2>1 DEF IndexRooted
  <1>. QED
    BY <1>1, <1>3, <1>4, <1>5, <1>6, <1>7, <1>8 DEF Shape

\* A parent that is viewed is in the index, so that its child is below the root.
LEMMA ShapeStep ==
  ASSUME TypeOK, ReplayInFile, File, Shape, ViewedIndexed, [Next]_vars
  PROVE  Shape'
  <1>0. /\ Root \in Sessions /\ Subagents \subseteq Sessions /\ Root \notin Subagents
        /\ None \notin Sessions
        /\ life \in [Sessions -> {"none", "live", "done"}]
        /\ parent \in [Subagents -> Sessions \union {None}]
        /\ session_subscribers \in [Sessions -> SUBSET clients]
        /\ session_driver \in [Sessions -> Clients \union {None}]
        /\ child_sessions \in [Sessions -> SUBSET Subagents]
    BY RoutesAssumption DEF TypeOK, Sessions
  <1>1. /\ RootRuns /\ Unspawned /\ IndexedSpawned /\ Spawners /\ IndexTrue /\ IndexOnce /\ IndexRooted
    BY DEF Shape
  <1>2. ASSUME child_sessions' = child_sessions, NoneSpawned, Unspawned' PROVE Shape'
    <2>1. \A s \in Sessions : life'[s] = life[s] \/ (s = Root /\ life'[s] = "live")
      BY <1>0, <1>2 DEF NoneSpawned
    <2>2. parent' = parent /\ Indexed' = Indexed /\ Indexed \subseteq Sessions
      BY <1>0, <1>2 DEF NoneSpawned, Indexed
    <2>3. RootRuns' /\ IndexedSpawned'
      BY <1>0, <1>1, <2>1, <2>2 DEF RootRuns, IndexedSpawned
    <2>4. Spawners'
      BY <1>0, <1>1, <2>1, <2>2 DEF Spawners
    <2>5. IndexTrue' /\ IndexOnce' /\ IndexRooted'
      BY <1>1, <1>2, <2>2 DEF IndexTrue, IndexOnce, IndexRooted
    <2>. QED
      BY <1>2, <2>3, <2>4, <2>5 DEF Shape
  <1>3. ASSUME NEW c \in clients, Attach(c, Root), NoneSpawned, life'[Root] = "live" PROVE Shape'
    <2>1. child_sessions' = child_sessions
      BY <1>3, AttachedAll
    <2>2. \A s \in Sessions : s # Root /\ s \notin Indexed =>
            session_subscribers'[s] = session_subscribers[s] /\ session_driver'[s] = session_driver[s]
      BY <1>3, AttachedAll
    <2>3. \A s \in Sessions \ {Root} : life'[s] = life[s]
      BY <1>0, <1>3 DEF NoneSpawned
    <2>4. Unspawned'
      BY <1>1, <1>3, <2>1, <2>2, <2>3 DEF Unspawned, IndexedSpawned
    <2>. QED
      BY <1>2, <1>3, <2>1, <2>4
  <1>4. ASSUME NEW d \in Clients, Disconnect(d) PROVE Shape'
    <2>1. child_sessions' = child_sessions /\ NoneSpawned /\ life' = life
      BY <1>4 DEF Disconnect, NoneSpawned, agent
    <2>2. \A s \in Sessions : session_subscribers[s] = {} =>
            session_subscribers'[s] = {} /\ session_driver'[s] = session_driver[s]
      BY <1>4 DEF Disconnect
    <2>3. Unspawned'
      BY <1>1, <2>1, <2>2 DEF Unspawned
    <2>. QED
      BY <1>2, <2>1, <2>3
  <1>5. ASSUME NEW q \in Requests, Replay(q) PROVE Shape'
    <2>1. UNCHANGED <<life, parent, history, announced>>
      BY <1>5 DEF Replay, agent
    <2>2. PICK k \in Subagents :
            /\ parent[k] = Root /\ life[k] # "none"
            /\ \/ SpawnReplayed(request[q].by, k)
               \/ UNCHANGED <<tables, bare>>
               \/ FinishReplayed(request[q].by, k)
      BY <1>5, ReplaySteps
    <2>3. life[Root] # "none"
      BY <1>0, <1>1, <2>2 DEF Spawners
    <2>4. CASE SpawnReplayed(request[q].by, k)
      <3>1. /\ \A s \in Sessions \ {Root} : child_sessions'[s] = child_sessions[s]
            /\ child_sessions'[Root] = child_sessions[Root] \union {k}
            /\ \A s \in Sessions \ {k} : session_subscribers'[s] = session_subscribers[s]
            /\ session_driver' = session_driver
        BY <1>0, <2>4 DEF SpawnReplayed
      <3>2. RootRuns' /\ Spawners'
        BY <1>1, <2>1 DEF RootRuns, Spawners
      <3>3. Unspawned'
        BY <1>1, <2>1, <2>2, <2>3, <3>1 DEF Unspawned
      <3>4. IndexedSpawned'
        <4>1. \A x \in Indexed' : x \in Indexed \/ x = k
          BY <1>0, <3>1 DEF Indexed
        <4>. QED
          BY <1>1, <2>1, <2>2, <4>1 DEF IndexedSpawned
      <3>5. IndexTrue' /\ IndexRooted'
        BY <1>0, <1>1, <2>1, <3>1 DEF IndexTrue, IndexRooted
      <3>6. IndexOnce'
        <4>1. \A s \in Sessions : k \in child_sessions[s] => s = Root
          BY <1>1, <2>2 DEF IndexTrue
        <4>. QED
          BY <1>0, <1>1, <3>1, <4>1 DEF IndexOnce
      <3>. QED
        BY <3>2, <3>3, <3>4, <3>5, <3>6 DEF Shape
    <2>5. CASE UNCHANGED <<tables, bare>>
      <3>1. Unspawned' /\ NoneSpawned /\ child_sessions' = child_sessions
        BY <1>1, <2>1, <2>5 DEF Unspawned, NoneSpawned, tables
      <3>. QED
        BY <1>2, <3>1
    <2>6. CASE FinishReplayed(request[q].by, k)
      <3>1. CASE Prune(k)
        <4>1. life[k] # "none" /\ life'[k] # "none" /\ parent' = parent
              /\ \A s \in Sessions \ {k} : life'[s] = life[s]
          BY <2>1, <2>2
        <4>. QED
          BY <3>1, <4>1, PrunedShape
      <3>2. CASE /\ session_subscribers' = [session_subscribers EXCEPT ![k] = @ \ {request[q].by}]
                 /\ UNCHANGED <<session_driver, child_sessions>>
        <4>1. Unspawned' /\ NoneSpawned
          BY <1>0, <1>1, <2>1, <3>2 DEF Unspawned, NoneSpawned
        <4>. QED
          BY <1>2, <3>2, <4>1
      <3>3. CASE UNCHANGED tables
        <4>1. Unspawned' /\ NoneSpawned /\ child_sessions' = child_sessions
          BY <1>1, <2>1, <3>3 DEF Unspawned, NoneSpawned, tables
        <4>. QED
          BY <1>2, <4>1
      <3>. QED
        BY <2>6, <3>1, <3>2, <3>3 DEF FinishReplayed
    <2>. QED
      BY <2>2, <2>4, <2>5, <2>6
  <1>6. ASSUME NEW p \in Sessions, NEW k \in Subagents, Spawn(p, k) PROVE Shape'
    <2>1. /\ life' = [life EXCEPT ![k] = "live"] /\ parent' = [parent EXCEPT ![k] = p]
          /\ life[p] = "live" /\ life[k] = "none"
          /\ p # Root => parent[p] = Root
          /\ \/ UNCHANGED tables
             \/ /\ session_subscribers[p] # {}
                /\ session_subscribers' = [session_subscribers EXCEPT ![k] = session_subscribers[p]]
                /\ session_driver' = [session_driver EXCEPT
                                  ![k] = IF session_driver[p] = None THEN @ ELSE session_driver[p]]
                /\ child_sessions' = [child_sessions EXCEPT ![p] = @ \union {k}]
      BY <1>6 DEF Spawn
    <2>2. k \in Sessions /\ k # p /\ k # Root
      BY <1>0, <2>1
    <2>3. \A x \in Subagents : parent[x] # k
      BY <1>0, <1>1, <2>1, <2>2 DEF Spawners
    <2>4. \A s \in Sessions : k \notin child_sessions[s]
      BY <1>1, <2>1 DEF IndexedSpawned, Indexed
    <2>5. child_sessions[k] = {}
      BY <1>1, <2>1, <2>2 DEF Unspawned
    <2>6. /\ \A s \in Sessions \ {k} : life'[s] = life[s]
          /\ life'[k] = "live" /\ parent'[k] = p
          /\ \A x \in Subagents \ {k} : parent'[x] = parent[x]
      BY <1>0, <2>1, <2>2
    <2>7. RootRuns'
      BY <1>0, <1>1, <2>2, <2>6 DEF RootRuns
    <2>8. Spawners'
      <3> SUFFICES ASSUME NEW x \in Subagents
                   PROVE  /\ life'[x] # "none" => parent'[x] # None
                          /\ parent'[x] # None => life'[parent'[x]] # "none"
                          /\ parent'[x] \in Subagents => parent'[parent'[x]] = Root
        BY DEF Spawners
      <3>1. CASE x = k
        BY <1>0, <2>1, <2>2, <2>6, <3>1
      <3>2. CASE x # k
        <4>1. parent'[x] = parent[x] /\ life'[x] = life[x] /\ parent[x] # k
          BY <1>0, <2>3, <2>6, <3>2
        <4>. QED
          BY <1>0, <1>1, <2>6, <4>1 DEF Spawners
      <3>. QED
        BY <3>1, <3>2
    <2>9. /\ \A s \in Sessions \ {p} : child_sessions'[s] = child_sessions[s]
          /\ child_sessions'[p] \subseteq child_sessions[p] \union {k}
          /\ child_sessions[p] \subseteq child_sessions'[p]
      BY <1>0, <2>1 DEF tables
    <2>10. Unspawned'
      <3>1. \A s \in Sessions \ {k} : session_subscribers'[s] = session_subscribers[s]
                                      /\ session_driver'[s] = session_driver[s]
        BY <1>0, <2>1 DEF tables
      <3>. QED
        BY <1>1, <2>1, <2>6, <2>9, <3>1 DEF Unspawned
    <2>11. IndexedSpawned'
      <3>1. \A x \in Indexed' : x \in Indexed \/ x = k
        BY <2>9 DEF Indexed
      <3>2. Indexed \subseteq Sessions
        BY <1>0 DEF Indexed
      <3>. QED
        BY <1>1, <2>6, <3>1, <3>2 DEF IndexedSpawned
    <2>12. IndexTrue'
      BY <1>0, <1>1, <2>4, <2>6, <2>9 DEF IndexTrue
    <2>13. IndexOnce'
      BY <1>1, <2>4, <2>9 DEF IndexOnce
    <2>14. IndexRooted'
      <3> SUFFICES ASSUME NEW x \in Subagents, child_sessions'[x] # {}
                   PROVE  x \in child_sessions'[Root]
        BY DEF IndexRooted
      <3>1. child_sessions[Root] \subseteq child_sessions'[Root]
        BY <1>0, <2>9
      <3>2. CASE child_sessions[x] # {}
        BY <1>1, <3>1, <3>2 DEF IndexRooted
      <3>3. CASE child_sessions[x] = {}
        <4>1. x = p /\ session_subscribers[p] # {}
          BY <1>0, <2>1, <2>9, <3>3 DEF tables
        <4>2. p \in child_sessions[Root]
          BY <1>0, <2>1, <4>1 DEF ViewedIndexed
        <4>. QED
          BY <3>1, <4>1, <4>2
      <3>. QED
        BY <3>2, <3>3
    <2>. QED
      BY <2>7, <2>8, <2>10, <2>11, <2>12, <2>13, <2>14 DEF Shape
  <1>7. ASSUME NEW k \in Subagents, Finish(k) \/ \E q \in Requests : FinishAgain(q, k)
        PROVE  Shape'
    <2>1. /\ life' = [life EXCEPT ![k] = "done"] \/ (life' = life /\ life[k] = "done")
          /\ parent' = parent /\ life[k] # "none"
          /\ Prune(k) \/ UNCHANGED tables
      <3>1. CASE Finish(k)
        BY <3>1 DEF Finish, FinishSeen
      <3>2. CASE \E q \in Requests : FinishAgain(q, k)
        <4>1. UnfinishedTrue
          BY DEF File
        <4>. QED
          BY <3>2, <4>1, AgainFacts
      <3>. QED
        BY <1>7, <3>1, <3>2
    <2>2. /\ life[k] # "none" /\ life'[k] # "none" /\ \A s \in Sessions \ {k} : life'[s] = life[s]
      BY <1>0, <2>1
    <2>3. CASE Prune(k)
      BY <2>1, <2>2, <2>3, PrunedShape
    <2>4. CASE UNCHANGED tables
      <3>1. Indexed' = Indexed /\ Indexed \subseteq Sessions
        BY <1>0, <2>4 DEF Indexed, tables
      <3>2. \A s \in Sessions : life'[s] = "none" <=> life[s] = "none"
        BY <2>2
      <3>3. RootRuns' /\ Unspawned' /\ IndexedSpawned'
        BY <1>0, <1>1, <2>2, <2>4, <3>1, <3>2 DEF RootRuns, Unspawned, IndexedSpawned, tables
      <3>4. Spawners'
        BY <1>0, <1>1, <2>1, <3>2 DEF Spawners
      <3>5. IndexTrue' /\ IndexOnce' /\ IndexRooted'
        BY <1>1, <2>1, <2>4 DEF IndexTrue, IndexOnce, IndexRooted, tables
      <3>. QED
        BY <3>3, <3>4, <3>5 DEF Shape
    <2>. QED
      BY <2>1, <2>3, <2>4
  <1>8. ASSUME UNCHANGED <<tables, bare>>, NoneSpawned PROVE Shape'
    <2>1. Unspawned'
      <3>1. \A s \in Sessions : life'[s] = "none" => life[s] = "none"
        BY <1>0, <1>8 DEF NoneSpawned
      <3>. QED
        BY <1>1, <1>8, <3>1 DEF Unspawned, tables
    <2>2. child_sessions' = child_sessions
      BY <1>8 DEF tables
    <2>. QED
      BY <1>2, <1>8, <2>1, <2>2
  <1>. QED
    BY <1>3, <1>4, <1>5, <1>6, <1>7, <1>8, RouteSteps

\* A message adds its client to all the index has, and drives what nobody drove.
LEMMA RoutedAttach ==
  ASSUME TypeOK, Shape, Routed, NEW c \in clients, Attach(c, Root), NoneSpawned,
         life'[Root] = "live"
  PROVE  Routed'
  <1>0. /\ Root \in Sessions /\ Subagents \subseteq Sessions /\ Root \notin Subagents
        /\ None \notin clients /\ bare \subseteq Subagents
        /\ life \in [Sessions -> {"none", "live", "done"}]
        /\ session_subscribers \in [Sessions -> SUBSET clients]
        /\ child_sessions \in [Sessions -> SUBSET Subagents]
    BY RoutesAssumption DEF TypeOK, Sessions
  <1>1. /\ child_sessions' = child_sessions /\ bare' = bare
        /\ \A s \in Sessions :
             /\ session_subscribers'[s] = IF s = Root \/ s \in Indexed
                                          THEN session_subscribers[s] \union {c}
                                          ELSE session_subscribers[s]
             /\ session_driver[s] # None => session_driver'[s] = session_driver[s]
             /\ s \notin Indexed \union {Root} => session_driver'[s] = session_driver[s]
             /\ s \in Indexed \union {Root} /\ session_driver[s] = None =>
                  session_driver'[s] = IF session_driver[Root] = None THEN c
                                       ELSE session_driver[Root]
    BY AttachedAll
  <1>2. /\ UNCHANGED <<parent, announced>> /\ Indexed' = Indexed /\ Indexed \subseteq Subagents
        /\ \A s \in Sessions \ {Root} : life'[s] = life[s]
    BY <1>0, <1>1 DEF NoneSpawned, Indexed
  <1>3. ViewedIndexed /\ AnnouncedIndexed /\ IndexedViewed /\ DrivenByViewer
    BY DEF Routed
  <1>4. ViewedIndexed'
    <2>1. \A k \in Indexed : parent[k] = Root => k \in child_sessions[Root]
      BY DEF Shape, IndexTrue, Indexed
    <2>. QED
      BY <1>0, <1>1, <1>2, <1>3, <2>1 DEF ViewedIndexed
  <1>5. AnnouncedIndexed'
    BY <1>0, <1>2, <1>3 DEF AnnouncedIndexed
  <1>6. IndexedViewed'
    BY <1>0, <1>1, <1>2, <1>3 DEF IndexedViewed
  <1>7. DrivenByViewer'
    <2> SUFFICES ASSUME NEW s \in Sessions \ bare, life'[s] = "live"
                 PROVE  IF session_subscribers'[s] = {} THEN session_driver'[s] = None
                        ELSE session_driver'[s] \in session_subscribers'[s]
      BY <1>1 DEF DrivenByViewer
    <2>1. session_driver[Root] # None => session_driver[Root] \in session_subscribers[Root]
      <3>1. CASE life[Root] = "live"
        BY <1>0, <1>3, <3>1 DEF DrivenByViewer
      <3>2. CASE life[Root] # "live"
        BY <1>0, <3>2 DEF Shape, RootRuns, Unspawned
      <3>. QED
        BY <3>1, <3>2
    <2>2. CASE s = Root
      BY <1>0, <1>1, <2>1, <2>2
    <2>3. CASE s \in Indexed
      <3>1. life[s] = "live"
        BY <1>0, <1>2, <2>3
      <3>2. CASE session_driver[s] # None
        <4>1. session_driver[s] \in session_subscribers[s]
          BY <1>3, <3>1, <3>2 DEF DrivenByViewer
        <4>. QED
          BY <1>1, <2>3, <3>2, <4>1
      <3>3. CASE session_driver[s] = None
        <4>1. session_subscribers[s] = {}
          BY <1>0, <1>3, <3>1, <3>3 DEF DrivenByViewer
        <4>2. session_subscribers[Root] = {}
          BY <1>3, <2>3, <3>1, <4>1 DEF IndexedViewed
        <4>. QED
          BY <1>1, <2>1, <2>3, <3>3, <4>2
      <3>. QED
        BY <3>2, <3>3
    <2>4. CASE s # Root /\ s \notin Indexed
      BY <1>0, <1>1, <1>2, <1>3, <2>4 DEF DrivenByViewer
    <2>. QED
      BY <2>2, <2>3, <2>4
  <1>. QED
    BY <1>4, <1>5, <1>6, <1>7 DEF Routed

\* Where the client that leaves drove, another viewer drives if there is one.
LEMMA RoutedDisconnect ==
  ASSUME TypeOK, Routed, NEW d \in Clients, Disconnect(d)
  PROVE  Routed'
  <1>1. /\ UNCHANGED <<child_sessions, bare, life, parent, announced>>
        /\ \A s \in Sessions :
             /\ session_subscribers'[s] = session_subscribers[s] \ {d}
             /\ LET left == session_subscribers[s] \ {d}
                IN IF d \notin session_subscribers[s] THEN session_driver'[s] = session_driver[s]
                   ELSE IF left = {} THEN session_driver'[s] = None
                   ELSE IF session_driver[s] = d THEN session_driver'[s] \in left
                   ELSE session_driver'[s] = session_driver[s]
    BY DisconnectDrivers DEF Disconnect, agent
  <1>2. Subagents \subseteq Sessions /\ Root \in Sessions /\ Indexed' = Indexed
        /\ Indexed \subseteq Subagents
    BY <1>1 DEF Sessions, TypeOK, Indexed
  <1>3. ViewedIndexed' /\ AnnouncedIndexed' /\ IndexedViewed'
    BY <1>1, <1>2 DEF Routed, ViewedIndexed, AnnouncedIndexed, IndexedViewed
  <1>4. DrivenByViewer'
    <2> SUFFICES ASSUME NEW s \in Sessions \ bare, life[s] = "live"
                 PROVE  IF session_subscribers'[s] = {} THEN session_driver'[s] = None
                        ELSE session_driver'[s] \in session_subscribers'[s]
      BY <1>1 DEF DrivenByViewer
    <2>1. IF session_subscribers[s] = {} THEN session_driver[s] = None
          ELSE session_driver[s] \in session_subscribers[s]
      BY DEF Routed, DrivenByViewer
    <2>. QED
      BY <1>1, <2>1
  <1>. QED
    BY <1>3, <1>4 DEF Routed

\* The routes of the others are as they were when k has gone.
LEMMA RoutedWithout ==
  ASSUME TypeOK, Routed, NEW k \in Subagents, life'[k] = "done", parent' = parent,
         \A s \in Sessions \ {k} : /\ life'[s] = life[s]
                                   /\ session_subscribers'[s] = session_subscribers[s]
                                   /\ session_driver'[s] = session_driver[s],
         announced' \subseteq announced, k \notin announced', bare \ {k} \subseteq bare',
         Indexed \ {k} \subseteq Indexed', Indexed' \subseteq Indexed,
         child_sessions[Root] \ {k} \subseteq child_sessions'[Root]
  PROVE  Routed'
  <1>0. /\ Root \in Sessions /\ Subagents \subseteq Sessions /\ Root # k
        /\ announced \subseteq Subagents /\ Indexed \subseteq Subagents
    BY RoutesAssumption DEF TypeOK, Sessions, Indexed
  <1>1. ViewedIndexed /\ AnnouncedIndexed /\ IndexedViewed /\ DrivenByViewer
    BY DEF Routed
  <1>2. ViewedIndexed'
    BY <1>0, <1>1 DEF ViewedIndexed
  <1>3. AnnouncedIndexed'
    BY <1>0, <1>1 DEF AnnouncedIndexed
  <1>4. IndexedViewed'
    BY <1>0, <1>1 DEF IndexedViewed
  <1>5. DrivenByViewer'
    BY <1>0, <1>1 DEF DrivenByViewer
  <1>. QED
    BY <1>2, <1>3, <1>4, <1>5 DEF Routed

\* A replayed spawn takes k out of the promise, unless somebody drove k: then
\* it was in the index before.
LEMMA RoutedReplay ==
  ASSUME TypeOK, ReplayInFile, File, Shape, Routed, NEW q \in Requests, Replay(q)
  PROVE  Routed'
  <1>0. /\ Root \in Sessions /\ Subagents \subseteq Sessions /\ Root \notin Subagents
        /\ None \notin clients
        /\ session_subscribers \in [Sessions -> SUBSET clients]
        /\ session_driver \in [Sessions -> Clients \union {None}]
        /\ child_sessions \in [Sessions -> SUBSET Subagents]
    BY RoutesAssumption DEF TypeOK, Sessions
  <1>1. ViewedIndexed /\ AnnouncedIndexed /\ IndexedViewed /\ DrivenByViewer
    BY DEF Routed
  <1>2. UNCHANGED <<life, parent, announced>>
    BY DEF Replay, agent
  <1>3. PICK k \in Subagents :
          /\ parent[k] = Root /\ life[k] # "none"
          /\ \/ SpawnReplayed(request[q].by, k)
             \/ UNCHANGED <<tables, bare>>
             \/ FinishReplayed(request[q].by, k)
    BY ReplaySteps
  <1>4. CASE SpawnReplayed(request[q].by, k)
    <2>1. /\ child_sessions'[Root] = child_sessions[Root] \union {k}
          /\ \A s \in Sessions \ {Root} : child_sessions'[s] = child_sessions[s]
          /\ \A s \in Sessions \ {k} : session_subscribers'[s] = session_subscribers[s]
          /\ session_subscribers[k] \subseteq session_subscribers'[k]
          /\ session_subscribers'[k] # {}
          /\ session_driver' = session_driver
          /\ bare \subseteq bare' /\ (session_driver[k] = None => k \in bare')
      BY <1>0, <1>4 DEF SpawnReplayed
    <2>2. Indexed' = Indexed \union {k}
      BY <1>0, <2>1 DEF Indexed
    <2>3. k # Root /\ k \in Sessions
      BY <1>0
    <2>4. life[k] = "live" /\ k \notin bare' =>
            /\ session_driver[k] \in session_subscribers[k]
            /\ k \in Indexed
      <3>1. life[k] = "live" /\ k \notin bare' => session_driver[k] \in session_subscribers[k]
        BY <1>1, <2>1, <2>3 DEF DrivenByViewer
      <3>2. life[k] = "live" /\ k \notin bare' => k \in child_sessions[Root]
        BY <1>1, <1>3, <3>1 DEF ViewedIndexed
      <3>. QED
        BY <1>0, <3>1, <3>2 DEF Indexed
    <2>5. ViewedIndexed'
      BY <1>0, <1>1, <1>2, <2>1 DEF ViewedIndexed
    <2>6. AnnouncedIndexed'
      BY <1>1, <1>2, <2>2 DEF AnnouncedIndexed
    <2>7. IndexedViewed'
      <3>1. Indexed \subseteq Subagents
        BY <1>0 DEF Indexed
      <3>. QED
        BY <1>0, <1>1, <1>2, <2>1, <2>2, <2>3, <2>4, <3>1 DEF IndexedViewed
    <2>8. DrivenByViewer'
      BY <1>0, <1>1, <1>2, <2>1, <2>3, <2>4 DEF DrivenByViewer
    <2>. QED
      BY <2>5, <2>6, <2>7, <2>8 DEF Routed
  <1>5. CASE UNCHANGED <<tables, bare>>
    <2>1. ViewedIndexed' /\ IndexedViewed'
      BY <1>1, <1>2, <1>5 DEF tables, ViewedIndexed, IndexedViewed, Indexed
    <2>2. AnnouncedIndexed' /\ DrivenByViewer'
      BY <1>1, <1>2, <1>5 DEF tables, AnnouncedIndexed, DrivenByViewer, Indexed
    <2>. QED
      BY <2>1, <2>2 DEF Routed
  <1>6. CASE FinishReplayed(request[q].by, k)
    <2>1. life[k] = "done" /\ bare' = bare
      BY <1>6 DEF FinishReplayed
    <2>2. k \notin announced
      BY <1>1, <2>1 DEF AnnouncedIndexed
    <2>3. \A s \in Sessions \ {k} : /\ session_subscribers'[s] = session_subscribers[s]
                                   /\ session_driver'[s] = session_driver[s]
      BY <1>0, <1>6 DEF FinishReplayed, Prune, tables
    <2>4. /\ Indexed \ {k} \subseteq Indexed' /\ Indexed' \subseteq Indexed
          /\ child_sessions[Root] \ {k} \subseteq child_sessions'[Root]
      <3>1. CASE Prune(k)
        BY <3>1, PrunedIndex
      <3>2. CASE child_sessions' = child_sessions
        BY <3>2 DEF Indexed
      <3>. QED
        BY <1>6, <3>1, <3>2 DEF FinishReplayed, tables
    <2>. QED
      BY <1>2, <2>1, <2>2, <2>3, <2>4, RoutedWithout
  <1>. QED
    BY <1>3, <1>4, <1>5, <1>6

\* A subagent gets its parent's viewers and driver, and a parent that is viewed
\* is in the index.
LEMMA RoutedSpawn ==
  ASSUME TypeOK, Shape, Routed, NEW p \in Sessions, NEW k \in Subagents, Spawn(p, k)
  PROVE  Routed'
  <1>0. /\ Root \in Sessions /\ Subagents \subseteq Sessions /\ Root \notin Subagents
        /\ None \notin clients /\ k \in Sessions /\ k # Root
        /\ life \in [Sessions -> {"none", "live", "done"}]
        /\ parent \in [Subagents -> Sessions \union {None}]
        /\ session_subscribers \in [Sessions -> SUBSET clients]
        /\ session_driver \in [Sessions -> Clients \union {None}]
        /\ child_sessions \in [Sessions -> SUBSET Subagents]
    BY RoutesAssumption DEF TypeOK, Sessions
  <1>1. ViewedIndexed /\ AnnouncedIndexed /\ IndexedViewed /\ DrivenByViewer
    BY DEF Routed
  <1>2. /\ life' = [life EXCEPT ![k] = "live"] /\ parent' = [parent EXCEPT ![k] = p]
        /\ life[p] = "live" /\ life[k] = "none"
        /\ (p # Root => parent[p] = Root)
        /\ bare \subseteq bare' /\ (p \in bare => k \in bare')
        /\ announced' = IF p = Root \/ session_subscribers[p] = {} THEN announced
                        ELSE announced \union {k}
        /\ \/ session_subscribers[p] = {} /\ UNCHANGED tables
           \/ /\ session_subscribers[p] # {}
              /\ session_subscribers' = [session_subscribers EXCEPT ![k] = session_subscribers[p]]
              /\ session_driver' = [session_driver EXCEPT
                                ![k] = IF session_driver[p] = None THEN @ ELSE session_driver[p]]
              /\ child_sessions' = [child_sessions EXCEPT ![p] = @ \union {k}]
    BY DEF Spawn
  <1>3. /\ k # p /\ k \notin Indexed /\ k \notin announced
        /\ session_subscribers[k] = {} /\ session_driver[k] = None
    BY <1>0, <1>1, <1>2 DEF Shape, Unspawned, IndexedSpawned, AnnouncedIndexed
  <1>4. /\ \A s \in Sessions \ {k} : /\ life'[s] = life[s]
                                    /\ session_subscribers'[s] = session_subscribers[s]
                                    /\ session_driver'[s] = session_driver[s]
        /\ \A x \in Subagents \ {k} : parent'[x] = parent[x]
        /\ parent'[k] = p /\ life'[k] = "live"
        /\ session_subscribers'[k] = session_subscribers[p]
    BY <1>0, <1>2, <1>3 DEF tables
  <1>5. /\ \A s \in Sessions : child_sessions[s] \subseteq child_sessions'[s]
        /\ \A s \in Sessions : child_sessions'[s] \subseteq child_sessions[s] \union {k}
        /\ session_subscribers[p] # {} => k \in child_sessions'[p]
        /\ session_subscribers[p] = {} => child_sessions' = child_sessions
    BY <1>0, <1>2 DEF tables
  <1>6. /\ Indexed \subseteq Indexed' /\ Indexed' \subseteq Indexed \union {k}
        /\ Indexed \subseteq Subagents
        /\ k \in Indexed' <=> session_subscribers[p] # {}
    <2>1. Indexed \subseteq Indexed' /\ Indexed' \subseteq Indexed \union {k}
          /\ Indexed \subseteq Subagents
      BY <1>0, <1>5 DEF Indexed
    <2>2. ASSUME session_subscribers[p] # {} PROVE k \in Indexed'
      BY <1>5, <2>2 DEF Indexed
    <2>3. ASSUME session_subscribers[p] = {} PROVE k \notin Indexed'
      BY <1>3, <1>5, <2>3 DEF Indexed
    <2>. QED
      BY <2>1, <2>2, <2>3
  <1>7. p # Root /\ session_subscribers[p] # {} => p \in Indexed
    <2>1. p # Root /\ session_subscribers[p] # {} => p \in child_sessions[Root]
      BY <1>1, <1>2 DEF ViewedIndexed, Sessions
    <2>. QED
      BY <1>0, <2>1 DEF Indexed
  <1>8. ViewedIndexed'
    BY <1>0, <1>1, <1>4, <1>5 DEF ViewedIndexed
  <1>9. AnnouncedIndexed'
    <2>1. announced \subseteq Subagents
      BY DEF TypeOK
    <2>. QED
      BY <1>0, <1>1, <1>2, <1>3, <1>4, <1>6, <2>1 DEF AnnouncedIndexed
  <1>10. IndexedViewed'
    BY <1>0, <1>1, <1>2, <1>4, <1>6, <1>7 DEF IndexedViewed
  <1>11. DrivenByViewer'
    <2> SUFFICES ASSUME NEW s \in Sessions \ bare', life'[s] = "live"
                 PROVE  IF session_subscribers'[s] = {} THEN session_driver'[s] = None
                        ELSE session_driver'[s] \in session_subscribers'[s]
      BY DEF DrivenByViewer
    <2>1. CASE s # k
      BY <1>1, <1>2, <1>4, <2>1 DEF DrivenByViewer
    <2>2. CASE s = k
      <3>1. p \notin bare
        BY <1>2, <2>2
      <3>2. IF session_subscribers[p] = {} THEN session_driver[p] = None
            ELSE session_driver[p] \in session_subscribers[p]
        BY <1>1, <1>2, <3>1 DEF DrivenByViewer
      <3>3. CASE session_subscribers[p] = {}
        BY <1>2, <1>3, <2>2, <3>3 DEF tables
      <3>4. CASE session_subscribers[p] # {}
        <4>1. session_driver[p] # None
          BY <1>0, <3>2, <3>4
        <4>2. session_driver'[k] = session_driver[p]
          BY <1>0, <1>2, <3>4, <4>1
        <4>. QED
          BY <1>4, <2>2, <3>2, <3>4, <4>2
      <3>. QED
        BY <3>3, <3>4
    <2>. QED
      BY <2>1, <2>2
  <1>. QED
    BY <1>8, <1>9, <1>10, <1>11 DEF Routed

\* Every step keeps the viewers and drivers of the routes.
LEMMA RoutedStep ==
  ASSUME TypeOK, ReplayInFile, File, Shape, Routed, [Next]_vars
  PROVE  Routed'
  <1>1. ASSUME NEW k \in Subagents, Finish(k) \/ \E q \in Requests : FinishAgain(q, k)
        PROVE  Routed'
    <2>0. /\ k \in Sessions /\ k # Root
          /\ life \in [Sessions -> {"none", "live", "done"}]
          /\ session_subscribers \in [Sessions -> SUBSET clients]
          /\ session_driver \in [Sessions -> Clients \union {None}]
      BY RoutesAssumption DEF TypeOK, Sessions
    <2>1. /\ life' = [life EXCEPT ![k] = "done"] \/ (life' = life /\ life[k] = "done")
          /\ parent' = parent
          /\ bare \ {k} \subseteq bare' /\ announced' = announced \ {k}
          /\ Prune(k) \/ UNCHANGED tables
      <3>1. CASE Finish(k)
        BY <3>1 DEF Finish, FinishSeen
      <3>2. CASE \E q \in Requests : FinishAgain(q, k)
        <4>1. UnfinishedTrue /\ AnnouncedIndexed
          BY DEF File, Routed
        <4>2. /\ life[k] = "done" /\ UNCHANGED <<life, parent, bare, announced>>
              /\ Prune(k) \/ UNCHANGED tables
          BY <3>2, <4>1, AgainFacts
        <4>3. k \notin announced
          BY <4>1, <4>2 DEF AnnouncedIndexed
        <4>. QED
          BY <4>2, <4>3
      <3>. QED
        BY <1>1, <3>1, <3>2
    <2>2. \A s \in Sessions \ {k} : /\ life'[s] = life[s]
                                   /\ session_subscribers'[s] = session_subscribers[s]
                                   /\ session_driver'[s] = session_driver[s]
      BY <2>0, <2>1 DEF Prune, tables
    <2>3. /\ Indexed \ {k} \subseteq Indexed' /\ Indexed' \subseteq Indexed
          /\ child_sessions[Root] \ {k} \subseteq child_sessions'[Root]
      <3>1. CASE Prune(k)
        BY <3>1, PrunedIndex
      <3>2. CASE UNCHANGED tables
        BY <3>2 DEF Indexed, tables
      <3>. QED
        BY <2>1, <3>1, <3>2
    <2>4. life'[k] = "done"
      BY <2>0, <2>1
    <2>. QED
      BY <2>1, <2>2, <2>3, <2>4, RoutedWithout
  <1>2. ASSUME UNCHANGED <<tables, bare>>, NoneSpawned PROVE Routed'
    <2>1. /\ UNCHANGED <<parent, announced>> /\ Indexed' = Indexed /\ Indexed \subseteq Subagents
          /\ \A s \in Sessions : life'[s] = life[s] \/ (s = Root /\ life'[s] = "live")
      BY <1>2 DEF NoneSpawned, tables, Indexed, TypeOK
    <2>2. /\ Subagents \subseteq Sessions /\ Root \notin Subagents /\ announced \subseteq Subagents
          /\ life \in [Sessions -> {"none", "live", "done"}]
      BY RoutesAssumption DEF TypeOK, Sessions
    <2>3. ViewedIndexed' /\ IndexedViewed'
      BY <1>2, <2>1, <2>2 DEF Routed, tables, ViewedIndexed, IndexedViewed
    <2>4. AnnouncedIndexed'
      BY <1>2, <2>1, <2>2 DEF Routed, tables, AnnouncedIndexed
    <2>5. DrivenByViewer'
      <3>1. life[Root] # "live" => session_subscribers[Root] = {} /\ session_driver[Root] = None
        BY <2>2 DEF Shape, RootRuns, Unspawned, Sessions
      <3>. QED
        BY <1>2, <2>1, <2>2, <3>1 DEF Routed, tables, DrivenByViewer
    <2>. QED
      BY <2>3, <2>4, <2>5 DEF Routed
  <1>. QED
    BY <1>1, <1>2, RoutedAttach, RoutedDisconnect, RoutedReplay, RoutedSpawn, RouteSteps
-----------------------------------------------------------------------------
(* The loads: what a replay still has to send.                             *)

\* Nothing is left of a load that was answered; between its two replays and after
\* both all that was read is sent.
AtRest == \A q \in Requests :
  /\ request[q].phase \notin Loading =>
       request[q].at = 0 /\ request[q].upto = 0 /\ request[q].unfinished = {}
  /\ request[q].phase \in {"reflush", "reconciled"} => request[q].at = request[q].upto

\* A live subagent of the root is viewed by who loads, or its spawn is to come: it
\* was sent to the mailbox before the flush that the read waits for.
LoaderSees == \A q \in Requests, k \in Subagents :
  /\ request[q].kind = "load" /\ request[q].by \in clients
  /\ request[q].phase \in {"flush", "first", "reflush", "delta", "reconciled", "done"}
  /\ life[k] = "live" /\ parent[k] = Root
  => \/ request[q].by \in session_subscribers[k]
     \/ InLog("spawned", k, request[q].at + 1,
              IF request[q].phase = "flush" THEN request[q].flushed ELSE request[q].upto)

Loads == AtRest /\ LoaderSees

\* The file changes with a spawn or a finish alone, and nothing is lost from it.
LEMMA LogSteps ==
  ASSUME TypeOK, [Next]_vars
  PROVE  \/ history' = history
         \/ \E p \in Sessions \union {None}, what \in {"spawned", "finished"}, k \in Subagents :
              Logged(p, what, k)
  <1>1. ASSUME NEW p \in Sessions, NEW k \in Subagents, Spawn(p, k)
        PROVE  Logged(p, "spawned", k)
    BY <1>1 DEF Spawn
  <1>2. ASSUME NEW k \in Subagents, Finish(k)
        PROVE  Logged(parent[k], "finished", k) /\ parent[k] \in Sessions \union {None}
    BY <1>2 DEF Finish, TypeOK
  <1>3. ASSUME NEW q \in Requests, NEW k \in Subagents, FinishAgain(q, k)
        PROVE  Logged(Root, "finished", k) /\ Root \in Sessions
    BY <1>3 DEF FinishAgain, Sessions
  <1>. QED
    BY <1>1, <1>2, <1>3
       DEF Next, Connect, Disconnect, Message, Request, Flush, BeginReplay, BeginDelta,
           SkipDelta, Read, Replay, Reconcile, Answer, Created, Fail, Answered, Ask, Resolve,
           vars, agent

\* What is in the file stays where it is.
LEMMA LogSame ==
  ASSUME TypeOK, [Next]_vars
  PROVE  /\ Len(history) \in Nat /\ Len(history') \in Nat /\ Len(history) <= Len(history')
         /\ \A i \in 1..Len(history) : history'[i] = history[i]
  <1>1. CASE history' = history
    BY <1>1, RequestsType
  <1>2. CASE \E p \in Sessions \union {None}, what \in {"spawned", "finished"}, k \in Subagents :
               Logged(p, what, k)
    <2>1. PICK p \in Sessions \union {None}, what \in {"spawned", "finished"}, k \in Subagents :
            Logged(p, what, k)
      BY <1>2
    <2>2. /\ Len(history) \in Nat /\ Len(history') \in Nat
          /\ \A i \in 1..Len(history) : history'[i] = history[i]
          /\ p # Root => Len(history') = Len(history)
          /\ p = Root => Len(history') = Len(history) + 1
      BY <2>1, LogGrows
    <2>. QED
      BY <2>2
  <1>. QED
    BY <1>1, <1>2, LogSteps

\* Whoever views a live subagent views it until one of the two goes.
LEMMA LiveKeepsViewers ==
  ASSUME TypeOK, ReplayInFile, File, Shape, [Next]_vars,
         NEW k \in Subagents, life[k] = "live", life'[k] = "live",
         NEW c \in clients', c \in session_subscribers[k]
  PROVE  c \in session_subscribers'[k]
  <1>0. /\ k \in Sessions /\ k # Root
        /\ session_subscribers \in [Sessions -> SUBSET clients]
        /\ life \in [Sessions -> {"none", "live", "done"}]
    BY RoutesAssumption DEF TypeOK, Sessions
  <1>1. ASSUME NEW d \in clients, Attach(d, Root) PROVE c \in session_subscribers'[k]
    BY <1>0, <1>1, AttachedAll
  <1>2. ASSUME NEW d \in Clients, Disconnect(d) PROVE c \in session_subscribers'[k]
    BY <1>0, <1>2 DEF Disconnect
  <1>3. ASSUME NEW q \in Requests, Replay(q) PROVE c \in session_subscribers'[k]
    <2>1. PICK x \in Subagents :
            \/ SpawnReplayed(request[q].by, x)
            \/ UNCHANGED <<tables, bare>>
            \/ FinishReplayed(request[q].by, x)
      BY <1>3, ReplaySteps
    <2>2. CASE SpawnReplayed(request[q].by, x)
      BY <1>0, <2>2 DEF SpawnReplayed
    <2>3. CASE UNCHANGED <<tables, bare>>
      BY <2>3 DEF tables
    <2>4. CASE FinishReplayed(request[q].by, x)
      <3>1. x # k
        BY <2>4 DEF FinishReplayed
      <3>. QED
        BY <1>0, <2>4, <3>1 DEF FinishReplayed, Prune, tables
    <2>. QED
      BY <2>1, <2>2, <2>3, <2>4
  <1>4. ASSUME NEW p \in Sessions, NEW x \in Subagents, Spawn(p, x)
        PROVE  c \in session_subscribers'[k]
    <2>1. x # k
      BY <1>4 DEF Spawn
    <2>. QED
      BY <1>0, <1>4, <2>1 DEF Spawn, tables
  <1>5. ASSUME NEW x \in Subagents, Finish(x) PROVE c \in session_subscribers'[k]
    <2>1. x # k
      BY <1>0, <1>5 DEF Finish
    <2>. QED
      BY <1>0, <1>5, <2>1 DEF Finish, FinishSeen, Prune, tables
  <1>6. ASSUME UNCHANGED <<tables, bare>> PROVE c \in session_subscribers'[k]
    BY <1>6 DEF tables
  <1>7. ASSUME NEW q \in Requests, NEW x \in Subagents, FinishAgain(q, x)
        PROVE  c \in session_subscribers'[k]
    <2>1. UnfinishedTrue
      BY DEF File
    <2>2. x # k /\ (Prune(x) \/ UNCHANGED tables)
      BY <1>7, <2>1, AgainFacts
    <2>. QED
      BY <1>0, <2>2 DEF Prune, tables
  <1>. QED
    BY <1>1, <1>2, <1>3, <1>4, <1>5, <1>6, <1>7, RouteSteps

\* A subagent that is live was so before, or is spawned now and by its parent.
LEMMA NewlySpawned ==
  ASSUME TypeOK, [Next]_vars, NEW k \in Subagents, life'[k] = "live"
  PROVE  \/ life[k] = "live" /\ parent'[k] = parent[k]
         \/ Spawn(parent'[k], k) /\ parent'[k] \in Sessions
  <1>0. /\ k \in Sessions /\ k # Root
        /\ life \in [Sessions -> {"none", "live", "done"}]
        /\ parent \in [Subagents -> Sessions \union {None}]
    BY RoutesAssumption DEF TypeOK, Sessions
  <1>1. ASSUME NEW d \in Clients, Disconnect(d) PROVE life[k] = "live" /\ parent'[k] = parent[k]
    BY <1>1 DEF Disconnect, agent
  <1>2. ASSUME NEW q \in Requests, Replay(q) PROVE life[k] = "live" /\ parent'[k] = parent[k]
    BY <1>2 DEF Replay, agent
  <1>3. ASSUME NEW p \in Sessions, NEW x \in Subagents, Spawn(p, x)
        PROVE  \/ life[k] = "live" /\ parent'[k] = parent[k]
               \/ Spawn(parent'[k], k) /\ parent'[k] \in Sessions
    <2>1. life' = [life EXCEPT ![x] = "live"] /\ parent' = [parent EXCEPT ![x] = p]
      BY <1>3 DEF Spawn
    <2>2. CASE x = k
      <3>1. parent'[k] = p
        BY <1>0, <2>1, <2>2
      <3>. QED
        BY <1>3, <2>2, <3>1
    <2>3. CASE x # k
      BY <1>0, <2>1, <2>3
    <2>. QED
      BY <2>2, <2>3
  <1>4. ASSUME NEW x \in Subagents, Finish(x) PROVE life[k] = "live" /\ parent'[k] = parent[k]
    BY <1>0, <1>4 DEF Finish
  <1>5. ASSUME NoneSpawned PROVE life[k] = "live" /\ parent'[k] = parent[k]
    BY <1>0, <1>5 DEF NoneSpawned
  <1>6. ASSUME NEW q \in Requests, NEW x \in Subagents, FinishAgain(q, x)
        PROVE  life[k] = "live" /\ parent'[k] = parent[k]
    BY <1>6 DEF FinishAgain
  <1>. QED
    BY <1>1, <1>2, <1>3, <1>4, <1>5, <1>6, RouteSteps

\* The reads of a request that the agent has, or has not, begun.
LEMMA ReadsStep ==
  ASSUME TypeOK, ReplayInFile, AtRest, [Next]_vars
  PROVE  AtRest'
  <1> USE RequestsType
  <1> SUFFICES ASSUME NEW r \in Requests
               PROVE  /\ request'[r].phase \notin Loading =>
                           /\ request'[r].at = 0 /\ request'[r].upto = 0
                           /\ request'[r].unfinished = {}
                      /\ request'[r].phase \in {"reflush", "reconciled"} =>
                           request'[r].at = request'[r].upto
    BY DEF AtRest
  <1>1. CASE request'[r] = request[r]
    BY <1>1 DEF AtRest
  <1>2. CASE Flush(r)
    <2>1. /\ \/ request[r].phase = "asked" /\ request'[r].phase = "flush"
             \/ request[r].phase = "first" /\ request'[r].phase = "reflush"
          /\ request'[r].at = request[r].at /\ request'[r].upto = request[r].upto
          /\ request'[r].unfinished = request[r].unfinished
      BY <1>2, LoadFields DEF OneLoad
    <2>2. request[r].phase = "first" => request[r].at = request[r].upto
      BY <1>2 DEF Flush, Drained
    <2>3. request[r].phase = "asked" => request[r].at = 0 /\ request[r].upto = 0
                                        /\ request[r].unfinished = {}
      BY DEF AtRest, Loading
    <2>. QED
      BY <2>1, <2>2, <2>3 DEF Loading
  <1>3. CASE BeginReplay(r) \/ BeginDelta(r) \/ SkipDelta(r)
    <2>1. request'[r].phase \in {"first", "delta"}
      BY <1>3, LoadFields DEF OneLoad
    <2>. QED
      BY <2>1 DEF Loading
  <1>4. CASE Replay(r)
    <2>1. request'[r].phase \in {"first", "delta"}
      <3>1. request[r].phase \in {"first", "delta"}
        BY <1>4 DEF Replay
      <3>. QED
        BY <1>4, <3>1, LoadFields DEF OneLoad
    <2>. QED
      BY <2>1 DEF Loading
  <1>5. CASE Reconcile(r)
    <2>1. /\ request[r].phase = "delta" /\ request'[r].phase = "reconciled"
          /\ request'[r].at = request[r].at /\ request'[r].upto = request[r].upto
      BY <1>5, LoadFields DEF OneLoad
    <2>2. request[r].at = request[r].upto
      BY <1>5, <2>1 DEF Reconcile, Drained
    <2>. QED
      BY <2>1, <2>2 DEF Loading
  <1>6. CASE \E k \in Subagents : FinishAgain(r, k)
    <2>1. /\ request[r].phase = "reconciled" /\ request'[r].phase = "reconciled"
          /\ request'[r].at = request[r].at /\ request'[r].upto = request[r].upto
      BY <1>6, LoadFields DEF OneLoad
    <2>. QED
      BY <2>1 DEF AtRest, Loading
  <1>7. CASE Answer(r) \/ Created(r) \/ Fail(r)
    <2>1. PICK phase \in {"done", "failed"} : Answered(r, phase)
      BY <1>7 DEF Answer, Created, Fail
    <2>2. /\ request'[r].phase = phase /\ request'[r].at = 0 /\ request'[r].upto = 0
          /\ request'[r].unfinished = {}
      BY <2>1 DEF Answered, Free, RequestType
    <2>. QED
      BY <2>2
  <1>8. CASE /\ request[r].phase = "free" /\ request'[r].phase = "asked"
             /\ request'[r].at = 0 /\ request'[r].upto = 0 /\ request'[r].unfinished = {}
    BY <1>8
  <1>. QED
    BY <1>1, <1>2, <1>3, <1>4, <1>5, <1>6, <1>7, <1>8, LoadSteps

\* At its spawn a subagent of the root gets the root's viewers; a load that
\* flushes later finds the spawn in the file, and is not answered before it is sent.
LEMMA LoaderSeesStep ==
  ASSUME TypeOK, ReplayInFile, AskersKnown, LoadersViewRoot, File, Shape, Loads, [Next]_vars
  PROVE  LoaderSees'
  <1> SUFFICES ASSUME NEW q \in Requests, NEW k \in Subagents,
                      request'[q].kind = "load", request'[q].by \in clients',
                      request'[q].phase \in
                        {"flush", "first", "reflush", "delta", "reconciled", "done"},
                      life'[k] = "live", parent'[k] = Root
               PROVE  \/ request'[q].by \in session_subscribers'[k]
                      \/ InLog("spawned", k, request[q].at + 1,
                               IF request[q].phase = "flush" THEN request[q].flushed
                               ELSE request[q].upto)'
    BY DEF LoaderSees
  <1> USE RequestsType
  <1>0. /\ AtRest /\ LoaderSees
        /\ k \in Sessions /\ k # Root /\ Root \in Sessions
        /\ session_subscribers \in [Sessions -> SUBSET clients]
        /\ None \notin clients'
    <2>1. clients' \subseteq Clients
      BY StepType DEF TypeOK
    <2>. QED
      BY <2>1, RoutesAssumption DEF TypeOK, Sessions, Loads
  <1>1. /\ request'[q].by = request[q].by /\ request'[q].kind = request[q].kind
        /\ request[q].phase # "free"
    <2>1. CASE request[q].phase = "free" /\ request'[q] = request[q]
      BY <1>0, <2>1 DEF AskersKnown
    <2>2. CASE \E c \in clients : Request(c, q, "load") \/ Request(c, q, "new")
      <3>1. request'[q].phase = "asked"
        BY <2>2 DEF Request, Free, RequestType
      <3>. QED
        BY <3>1
    <2>. QED
      BY <2>1, <2>2, StepRequest
  <1>2. request[q].by \in clients
    BY <1>1, NoReturn DEF AskersKnown
  <1>3. /\ request[q].at \in Nat /\ request[q].upto \in Nat /\ request[q].at <= request[q].upto
        /\ request[q].upto <= Len(history) /\ Len(history) \in Nat
        /\ request[q].flushed \in Nat /\ request[q].flushed <= Len(history)
        /\ \A i \in 1..Len(history) : history'[i] = history[i]
    BY LogSame DEF RequestType, ReplayInFile
  <1>4. CASE life[k] = "live" /\ parent'[k] = parent[k]
    <2>1. ASSUME request[q].by \in session_subscribers[k]
          PROVE  request'[q].by \in session_subscribers'[k]
      BY <1>1, <1>4, <2>1, LiveKeepsViewers
    <2> DEFINE last == IF request[q].phase = "flush" THEN request[q].flushed
                       ELSE request[q].upto
    <2>2. ASSUME request[q].phase \in {"flush", "first", "reflush", "delta", "reconciled", "done"}
          PROVE  \/ request[q].by \in session_subscribers[k]
                 \/ InLog("spawned", k, request[q].at + 1, last)
      BY <1>0, <1>1, <1>2, <1>4, <2>2 DEF LoaderSees
    <2>9. ASSUME request[q].phase \in {"first", "reflush", "delta", "reconciled", "done"},
                 request[q].at = request[q].upto
          PROVE  request'[q].by \in session_subscribers'[k]
      <3>1. ~InLog("spawned", k, request[q].at + 1, last)
        BY <1>3, <2>9 DEF InLog
      <3>. QED
        BY <2>1, <2>2, <2>9, <3>1
    <2>3. CASE request'[q] = request[q]
      <3>1. CASE request[q].by \in session_subscribers[k]
        BY <2>1, <3>1
      <3>2. CASE InLog("spawned", k, request[q].at + 1, last)
        <4>1. PICK i \in request[q].at + 1 .. last : history[i] = <<"spawned", k>>
          BY <3>2 DEF InLog
        <4>2. history'[i] = history[i]
          BY <1>3, <4>1
        <4>. QED
          BY <2>3, <4>1, <4>2 DEF InLog
      <3>. QED
        BY <2>2, <2>3, <3>1, <3>2
    <2>4. CASE Flush(q)
      <3>1. /\ \/ request[q].phase = "asked" /\ request'[q].phase = "flush"
               \/ request[q].phase = "first" /\ request'[q].phase = "reflush"
            /\ request'[q].at = request[q].at /\ request'[q].flushed = Len(history)
        BY <2>4, LoadFields DEF OneLoad
      <3>2. CASE request[q].phase = "asked"
        <4>1. request'[q].at = 0 /\ request'[q].phase = "flush"
          BY <1>0, <3>1, <3>2 DEF AtRest, Loading
        <4>2. InLog("spawned", k, 1, Len(history))
          BY <1>4 DEF File, Log, LogComplete
        <4>. QED
          BY <1>3, <3>1, <4>1, <4>2 DEF InLog
      <3>3. CASE request[q].phase = "first"
        <4>1. request[q].at = request[q].upto
          BY <2>4, <3>3 DEF Flush, Drained
        <4>. QED
          BY <2>9, <3>3, <4>1
      <3>. QED
        BY <3>1, <3>2, <3>3
    <2>10. CASE BeginReplay(q)
      <3>1. PICK n \in 0 .. Len(history) :
              /\ request[q].phase = "flush" /\ Read(q, n)
              /\ request'[q].at = request[q].at /\ request'[q].upto = n
              /\ request'[q].phase = "first"
        BY <2>10, LoadFields DEF OneLoad
      <3>2. request[q].flushed <= n /\ history' = history
        BY <1>3, <3>1 DEF Read
      <3>3. CASE request[q].by \in session_subscribers[k]
        BY <2>1, <3>3
      <3>4. CASE InLog("spawned", k, request[q].at + 1, request[q].flushed)
        <4>1. PICK i \in request[q].at + 1 .. request[q].flushed : history[i] = <<"spawned", k>>
          BY <3>4 DEF InLog
        <4>2. i \in request[q].at + 1 .. n
          BY <1>3, <3>2, <4>1
        <4>. QED
          BY <3>1, <3>2, <4>1, <4>2 DEF InLog
      <3>. QED
        BY <2>2, <3>1, <3>3, <3>4
    <2>5. CASE \/ BeginDelta(q) \/ SkipDelta(q) \/ Reconcile(q) \/ Answer(q)
               \/ \E x \in Subagents : FinishAgain(q, x)
      <3>1. request[q].phase \in {"reflush", "delta", "reconciled"}
        BY <2>5, LoadFields DEF Answer
      <3>2. request[q].at = request[q].upto
        <4>1. CASE request[q].phase \in {"reflush", "reconciled"}
          BY <1>0, <4>1 DEF AtRest
        <4>2. CASE request[q].phase = "delta"
          <5>1. Reconcile(q)
            BY <2>5, <4>2, LoadFields DEF Answer
          <5>. QED
            BY <4>2, <5>1 DEF Reconcile, Drained
        <4>. QED
          BY <3>1, <4>1, <4>2
      <3>. QED
        BY <2>9, <3>1, <3>2
    <2>6. CASE Replay(q)
      <3>1. request[q].phase \in {"first", "delta"} /\ history' = history
        BY <2>6 DEF Replay, agent
      <3>2. request'[q].at = request[q].at + 1 /\ request'[q].upto = request[q].upto
            /\ request'[q].phase = request[q].phase
        BY <2>6, LoadFields
      <3>3. CASE request[q].by \in session_subscribers[k]
        BY <2>1, <3>3
      <3>4. CASE InLog("spawned", k, request[q].at + 1, request[q].upto)
        <4>1. PICK i \in request[q].at + 1 .. request[q].upto : history[i] = <<"spawned", k>>
          BY <3>4 DEF InLog
        <4>2. CASE i = request[q].at + 1
          <5>1. history[request[q].at + 1] = <<"spawned", k>>
            BY <4>1, <4>2
          <5>2. PICK x \in Subagents :
                  \/ /\ history[request[q].at + 1] = <<"spawned", x>>
                     /\ SpawnReplayed(request[q].by, x)
                  \/ /\ history[request[q].at + 1] = <<"spawned", x>>
                     /\ request[q].by \notin clients
                  \/ history[request[q].at + 1] = <<"finished", x>>
            BY <2>6, ReplaySteps
          <5>3. SpawnReplayed(request[q].by, k)
            BY <1>2, <5>1, <5>2
          <5>. QED
            BY <1>0, <1>1, <5>3 DEF SpawnReplayed
        <4>3. CASE i # request[q].at + 1
          <5>1. i \in request'[q].at + 1 .. request'[q].upto
            BY <1>3, <3>2, <4>1, <4>3
          <5>. QED
            BY <3>1, <3>2, <4>1, <5>1 DEF InLog
        <4>. QED
          BY <4>2, <4>3
      <3>. QED
        BY <2>2, <3>1, <3>3, <3>4
    <2>7. CASE Created(q)
      BY <1>1, <2>7 DEF Created
    <2>8. CASE Fail(q)
      <3>1. request'[q].phase = "failed"
        BY <2>8 DEF Fail, Answered, Free, RequestType
      <3>. QED
        BY <3>1
    <2>11. request'[q].phase # "asked"
      OBVIOUS
    <2>. QED
      BY <2>3, <2>4, <2>5, <2>6, <2>7, <2>8, <2>10, <2>11, LoadSteps
  <1>5. CASE Spawn(parent'[k], k)
    <2>1. Spawn(Root, k)
      BY <1>5
    <2>2. request[q].by \in session_subscribers[Root]
      BY <1>1, <1>2 DEF LoadersViewRoot
    <2>3. session_subscribers' = [session_subscribers EXCEPT ![k] = session_subscribers[Root]]
      BY <2>1, <2>2 DEF Spawn
    <2>. QED
      BY <1>0, <1>1, <2>2, <2>3
  <1>. QED
    BY <1>4, <1>5, NewlySpawned

\* What the loads know of live subagents covers who has loaded.
LEMMA LoadedSees ==
  ASSUME TypeOK, LoadersViewRoot, AtRest, LoaderSees, Routed
  PROVE  LoadedSeesSubagents
  <1> SUFFICES ASSUME NEW c \in Clients, NEW k \in Subagents, Loaded(c), life[k] = "live",
                      parent[k] # Root => k \in announced \ bare
               PROVE  c \in session_subscribers[k]
    BY DEF LoadedSeesSubagents
  <1>1. PICK q \in Requests : /\ request[q].by = c /\ request[q].kind = "load"
                              /\ request[q].phase = "done" /\ c \in clients
    BY DEF Loaded
  <1>2. CASE parent[k] = Root
    <2>1. request[q].at = 0 /\ request[q].upto = 0
      BY <1>1 DEF AtRest, Loading
    <2>2. ~InLog("spawned", k, request[q].at + 1, request[q].upto)
      BY <2>1 DEF InLog
    <2>. QED
      BY <1>1, <1>2, <2>2 DEF LoaderSees
  <1>3. CASE parent[k] # Root
    <2>1. k \in Indexed \ bare
      BY <1>3 DEF Routed, AnnouncedIndexed
    <2>2. c \in session_subscribers[Root]
      BY <1>1 DEF LoadersViewRoot
    <2>. QED
      BY <2>1, <2>2 DEF Routed, IndexedViewed
  <1>. QED
    BY <1>2, <1>3
-----------------------------------------------------------------------------
(* The routes of subagents that have finished.                             *)

\* A load has sent the spawn of k and has not sent its finish.
Sending(q, k) ==
  /\ life[k] = "done" /\ request[q].phase \in {"first", "reflush", "delta"}
  /\ InLog("spawned", k, 1, request[q].at) /\ ~InLog("finished", k, 1, request[q].at)

\* A load is going to finish k once more before it is answered.
Heals(q, k) == life[k] = "done" /\ k \in request[q].unfinished

\* A load will remove the route.  Or else each viewer is that of a load that
\* sends k, and what only the index holds waits for the load of one that views
\* it, or that has left.
Held(k) ==
  \/ \E q \in Requests : Heals(q, k)
  \/ /\ \A c \in session_subscribers[k] :
          \E q \in Requests : Sending(q, k) /\ request[q].by = c
     /\ k \in Indexed => \E q \in Requests :
          Sending(q, k) /\ request[q].by \in (Clients \ clients) \union session_subscribers[k]

DeadHeld == \A k \in Subagents \ haunted : life[k] = "done" => Held(k)

\* Where a spawn is sent the finish is not: a route found then is a ghost, unless
\* the load finishes k once more.
LEMMA SendingHalf ==
  ASSUME NEW q \in Requests, NEW k \in Subagents, Sending(q, k)
  PROVE  k \in HalfReplayed(q) /\ (k \in Orphaned(q) \/ Heals(q, k))
  BY DEF Sending, Heals, InLog, HalfReplayed, Unfinished, Orphaned

\* Only Finish makes a subagent finished.
LEMMA DoneBefore ==
  ASSUME TypeOK, [Next]_vars, NEW k \in Subagents, life'[k] = "done"
  PROVE  life[k] = "done" \/ Finish(k)
  <1>0. /\ k \in Sessions /\ k # Root /\ life \in [Sessions -> {"none", "live", "done"}]
    BY RoutesAssumption DEF TypeOK, Sessions
  <1>1. ASSUME NEW d \in Clients, Disconnect(d) PROVE life[k] = "done"
    BY <1>1 DEF Disconnect, agent
  <1>2. ASSUME NEW q \in Requests, Replay(q) PROVE life[k] = "done"
    BY <1>2 DEF Replay, agent
  <1>3. ASSUME NEW p \in Sessions, NEW x \in Subagents, Spawn(p, x) PROVE life[k] = "done"
    BY <1>0, <1>3 DEF Spawn
  <1>4. ASSUME NEW x \in Subagents, Finish(x) PROVE life[k] = "done" \/ Finish(k)
    BY <1>0, <1>4 DEF Finish
  <1>5. ASSUME NoneSpawned PROVE life[k] = "done"
    BY <1>0, <1>5 DEF NoneSpawned
  <1>6. ASSUME NEW q \in Requests, NEW x \in Subagents, FinishAgain(q, x) PROVE life[k] = "done"
    BY <1>6 DEF FinishAgain
  <1>. QED
    BY <1>1, <1>2, <1>3, <1>4, <1>5, <1>6, RouteSteps

\* A subagent that has finished is not spawned again.
LEMMA DoneStays ==
  ASSUME TypeOK, [Next]_vars, NEW k \in Subagents, life[k] = "done"
  PROVE  life'[k] = "done" /\ parent'[k] = parent[k]
  <1>0. /\ k \in Sessions /\ k # Root /\ life \in [Sessions -> {"none", "live", "done"}]
        /\ parent \in [Subagents -> Sessions \union {None}]
    BY RoutesAssumption DEF TypeOK, Sessions
  <1>1. ASSUME NEW d \in Clients, Disconnect(d) PROVE life'[k] = life[k] /\ parent' = parent
    BY <1>1 DEF Disconnect, agent
  <1>2. ASSUME NEW q \in Requests, Replay(q) PROVE life'[k] = life[k] /\ parent' = parent
    BY <1>2 DEF Replay, agent
  <1>3. ASSUME NEW p \in Sessions, NEW x \in Subagents, Spawn(p, x)
        PROVE  life'[k] = life[k] /\ parent'[k] = parent[k]
    BY <1>0, <1>3 DEF Spawn
  <1>4. ASSUME NEW x \in Subagents, Finish(x) PROVE life'[k] = "done" /\ parent' = parent
    BY <1>0, <1>4 DEF Finish
  <1>5. ASSUME NoneSpawned PROVE life'[k] = life[k] /\ parent' = parent
    BY <1>0, <1>5 DEF NoneSpawned
  <1>6. ASSUME NEW q \in Requests, NEW x \in Subagents, FinishAgain(q, x)
        PROVE  life'[k] = life[k] /\ parent' = parent
    BY <1>6 DEF FinishAgain
  <1>. QED
    BY <1>1, <1>2, <1>3, <1>4, <1>5, <1>6, RouteSteps

\* What may keep a route may until its finish is seen again.
LEMMA GhostsStay ==
  ASSUME [Next]_vars, NEW k \in haunted, k \notin haunted'
  PROVE  Finish(k) \/ \E q \in Requests : FinishAgain(q, k)
  <1>0. ASSUME NEW c \in Clients, Disconnect(c) PROVE FALSE
    BY <1>0 DEF Disconnect
  <1>1. ASSUME NEW x \in Subagents, Finish(x) PROVE x = k
    BY <1>1 DEF Finish, FinishSeen
  <1>2. ASSUME NEW q \in Requests, NEW x \in Subagents, FinishAgain(q, x) PROVE x = k
    BY <1>2 DEF FinishAgain, FinishSeen
  <1>. QED
    BY <1>0, <1>1, <1>2
       DEF Next, Connect, Message, Attach, Request, Flush, BeginReplay, BeginDelta,
           SkipDelta, Read, Replay, Reconcile, Answer, Created, Fail, Answered, Spawn, Ask,
           Resolve, vars

\* What a load finishes again it does before it is answered.
LEMMA HealsKept ==
  ASSUME TypeOK, AtRest, [Next]_vars, NEW q \in Requests, NEW k \in Subagents, Heals(q, k),
         ~FinishAgain(q, k)
  PROVE  Heals(q, k)'
  <1> USE RequestsType
  <1>1. life[k] = "done" /\ life'[k] = "done" /\ k \in request[q].unfinished
    BY DoneStays DEF Heals
  <1>2. request[q].phase \in Loading
    BY <1>1 DEF AtRest
  <1>3. CASE request'[q] = request[q]
    BY <1>1, <1>3 DEF Heals
  <1>4. CASE Flush(q) \/ BeginDelta(q) \/ SkipDelta(q) \/ Replay(q) \/ Reconcile(q)
    <2>1. k \in request'[q].unfinished
      BY <1>1, <1>4, LoadFields DEF OneLoad
    <2>. QED
      BY <1>1, <2>1 DEF Heals
  <1>5. CASE \E x \in Subagents : FinishAgain(q, x)
    <2>1. PICK x \in Subagents : FinishAgain(q, x)
      BY <1>5
    <2>2. x # k
      BY <2>1
    <2>3. k \in request'[q].unfinished
      BY <1>1, <2>1, <2>2, LoadFields DEF OneLoad
    <2>. QED
      BY <1>1, <2>3 DEF Heals
  <1>6. CASE Answer(q)
    BY <1>1, <1>6 DEF Answer, Answered, Drained
  <1>7. ~BeginReplay(q) /\ ~Created(q) /\ ~Fail(q) /\ request[q].phase # "free"
    BY <1>2 DEF BeginReplay, Created, Fail, Loading
  <1>. QED
    BY <1>3, <1>4, <1>5, <1>6, <1>7, LoadSteps

\* A load sends k until it sends the finish, or until it is about to repeat it;
\* if it does neither the subagent keeps a ghost.
LEMMA SendingKept ==
  ASSUME TypeOK, ReplayInFile, [Next]_vars, NEW q \in Requests, NEW k \in Subagents,
         Sending(q, k), k \notin haunted'
  PROVE  \/ Sending(q, k)' /\ request'[q].by = request[q].by
         \/ Heals(q, k)'
         \/ Replay(q) /\ history[request[q].at + 1] = <<"finished", k>>
  <1> USE RequestsType
  <1>0. /\ request[q].at \in Nat /\ request[q].upto \in Nat /\ request[q].at <= request[q].upto
        /\ request[q].upto <= Len(history) /\ Len(history) \in Nat
    BY DEF RequestType, ReplayInFile
  <1>1. /\ life[k] = "done" /\ request[q].phase \in {"first", "reflush", "delta"}
        /\ InLog("spawned", k, 1, request[q].at) /\ ~InLog("finished", k, 1, request[q].at)
    BY DEF Sending
  <1>2. life'[k] = "done"
    BY <1>1, DoneStays
  <1>3. k \in Orphaned(q) \/ Heals(q, k)
    BY SendingHalf
  <1>4. \A i \in 1..Len(history) : history'[i] = history[i]
    BY LogSame
  <1>5. ASSUME request'[q].at = request[q].at, request'[q].by = request[q].by,
               request'[q].phase \in {"first", "reflush", "delta"}
        PROVE  Sending(q, k)' /\ request'[q].by = request[q].by
    <2>1. InLog("spawned", k, 1, request[q].at)'
      BY <1>0, <1>1, <1>4, <1>5 DEF InLog
    <2>2. ~InLog("finished", k, 1, request[q].at)'
      BY <1>0, <1>1, <1>4, <1>5 DEF InLog
    <2>. QED
      BY <1>2, <1>5, <2>1, <2>2 DEF Sending
  <1>6. CASE request'[q] = request[q]
    BY <1>1, <1>5, <1>6
  <1>7. CASE Flush(q) \/ BeginDelta(q) \/ SkipDelta(q)
    <2>1. /\ request'[q].at = request[q].at /\ request'[q].by = request[q].by
          /\ request'[q].phase \in {"first", "reflush", "delta"}
      BY <1>1, <1>7, LoadFields DEF OneLoad
    <2>. QED
      BY <1>5, <2>1
  <1>8. CASE Reconcile(q)
    <2>1. Heals(q, k)
      BY <1>3, <1>8 DEF Reconcile
    <2>2. k \in request'[q].unfinished
      BY <1>8, <2>1, LoadFields DEF Heals, RequestType
    <2>. QED
      BY <1>2, <2>2 DEF Heals
  <1>9. CASE Replay(q) /\ history[request[q].at + 1] # <<"finished", k>>
    <2>1. history' = history
      BY <1>9 DEF Replay, agent
    <2>2. /\ request'[q].phase = request[q].phase /\ request'[q].at = request[q].at + 1
          /\ request'[q].by = request[q].by
      BY <1>9, LoadFields DEF OneLoad
    <2>3. InLog("spawned", k, 1, request[q].at + 1)
      <3>1. PICK i \in 1..request[q].at : history[i] = <<"spawned", k>>
        BY <1>1 DEF InLog
      <3>2. i \in 1..request[q].at + 1
        BY <1>0, <3>1
      <3>. QED
        BY <3>1, <3>2 DEF InLog
    <2>4. ~InLog("finished", k, 1, request[q].at + 1)
      BY <1>0, <1>1, <1>9 DEF InLog
    <2>. QED
      BY <1>1, <1>2, <2>1, <2>2, <2>3, <2>4 DEF Sending, InLog
  <1>10. CASE Replay(q) /\ history[request[q].at + 1] = <<"finished", k>>
    BY <1>10
  <1>11. ~BeginReplay(q) /\ ~Created(q) /\ ~Fail(q) /\ ~Answer(q) /\ request[q].phase # "free"
    BY <1>1 DEF BeginReplay, Created, Fail, Answer
  <1>12. \A x \in Subagents : ~FinishAgain(q, x)
    BY <1>1 DEF FinishAgain
  <1>. QED
    BY <1>6, <1>7, <1>8, <1>9, <1>10, <1>11, <1>12, LoadSteps

\* A route that no step adds to stays held if no load sends its finish.
LEMMA HeldKept ==
  ASSUME TypeOK, ReplayInFile, AskersKnown, AtRest, [Next]_vars,
         NEW k \in Subagents \ haunted', life[k] = "done", Held(k),
         session_subscribers'[k] \subseteq session_subscribers[k],
         session_subscribers[k] \subseteq session_subscribers'[k] \union (Clients \ clients'),
         k \in Indexed' => k \in Indexed,
         \A q \in Requests : ~(Replay(q) /\ history[request[q].at + 1] = <<"finished", k>>),
         \A q \in Requests : ~FinishAgain(q, k)
  PROVE  Held(k)'
  <1>1. CASE \E q \in Requests : Heals(q, k) \/ Heals(q, k)'
    BY <1>1, HealsKept DEF Held
  <1>2. CASE \A q \in Requests : ~Heals(q, k) /\ ~Heals(q, k)'
    <2>1. \A q \in Requests : Sending(q, k) => Sending(q, k)' /\ request'[q].by = request[q].by
      BY <1>2, SendingKept
    <2>2. ASSUME NEW c \in session_subscribers'[k]
          PROVE  \E q \in Requests : Sending(q, k)' /\ request'[q].by = c
      BY <1>2, <2>1 DEF Held
    <2>3. ASSUME k \in Indexed'
          PROVE  \E q \in Requests : /\ Sending(q, k)'
                                     /\ request'[q].by \in (Clients \ clients') \union session_subscribers'[k]
      <3>1. PICK q \in Requests : /\ Sending(q, k)
                                  /\ request[q].by \in (Clients \ clients) \union session_subscribers[k]
        BY <1>2, <2>3 DEF Held
      <3>2. request[q].by \in clients \union gone
        BY <3>1 DEF Sending, AskersKnown
      <3>3. request[q].by \notin clients => request[q].by \notin clients'
        BY <3>2, NoReturn
      <3>. QED
        BY <2>1, <3>1, <3>3
    <2>. QED
      BY <2>2, <2>3 DEF Held
  <1>. QED
    BY <1>1, <1>2

\* A replayed spawn gives a finished subagent a viewer whose load is to send the
\* finish: the file has the two in that order.
LEMMA SpawnSending ==
  ASSUME TypeOK, ReplayInFile, File, NEW q \in Requests, NEW k \in Subagents,
         Replay(q), history[request[q].at + 1] = <<"spawned", k>>, life[k] = "done"
  PROVE  Sending(q, k)' /\ request'[q].by = request[q].by
  <1> USE RequestsType
  <1>0. /\ request[q].at \in Nat /\ request[q].upto \in Nat /\ request[q].at < request[q].upto
        /\ request[q].upto <= Len(history) /\ Len(history) \in Nat
        /\ request[q].phase \in {"first", "delta"}
    BY DEF RequestType, ReplayInFile, Replay
  <1>1. history' = history /\ life' = life
    BY DEF Replay, agent
  <1>2. /\ request'[q].phase = request[q].phase /\ request'[q].at = request[q].at + 1
        /\ request'[q].by = request[q].by
    BY LoadFields DEF OneLoad
  <1> DEFINE n == request[q].at + 1
  <1>3. n \in 1..Len(history) /\ history[n] = <<"spawned", k>> /\ n \in 1..n
    BY <1>0
  <1>4. \A j \in 1..Len(history) : history[j] = <<"finished", k>> => n < j
    BY <1>3 DEF File, Log, LogOrdered
  <1>5. InLog("spawned", k, 1, n)
    BY <1>3 DEF InLog
  <1>6. ~InLog("finished", k, 1, n)
    BY <1>0, <1>3, <1>4 DEF InLog
  <1>. QED
    BY <1>0, <1>1, <1>2, <1>5, <1>6 DEF Sending, InLog

\* The finish that a load sends takes its own viewer away, and the route if no
\* other load has made itself a viewer.
LEMMA FinishHeld ==
  ASSUME TypeOK, ReplayInFile, AskersKnown, AtRest, Shape, [Next]_vars,
         NEW q \in Requests, Replay(q), NEW k \in Subagents \ haunted', life[k] = "done", Held(k),
         history[request[q].at + 1] = <<"finished", k>>, FinishReplayed(request[q].by, k)
  PROVE  Held(k)'
  <1> DEFINE c == request[q].by
  <1>0. /\ k \in Sessions /\ clients' = clients
        /\ session_subscribers \in [Sessions -> SUBSET clients]
    BY DEF TypeOK, Sessions, Replay
  <1>6. \A r \in Requests : ~FinishAgain(r, k)
    <2>1. ASSUME NEW r \in Requests, FinishAgain(r, k) PROVE FALSE
      <3>1. request'[q].at = request[q].at + 1 /\ request[q].at \in Nat
        BY LoadFields, RequestsType DEF OneLoad, RequestType
      <3>2. request'[q].at = request[q].at
        BY <2>1, LoadFields DEF OneLoad
      <3>. QED
        BY <3>1, <3>2
    <2>. QED
      BY <2>1
  <1>7. CASE \E r \in Requests : Heals(r, k) \/ Heals(r, k)'
    BY <1>6, <1>7, HealsKept DEF Held
  <1> SUFFICES ASSUME \A r \in Requests : ~Heals(r, k) /\ ~Heals(r, k)'
               PROVE  Held(k)'
    BY <1>7
  <1>1. ASSUME NEW r \in Requests, Sending(r, k), request[r].by # c
        PROVE  Sending(r, k)' /\ request'[r].by = request[r].by
    <2>1. r # q
      BY <1>1
    <2>3. ~(Replay(r) /\ history[request[r].at + 1] = <<"finished", k>>)
      <3>1. request'[q].at # request[q].at
        BY RequestsType DEF Replay, RequestType
      <3>2. Replay(r) => request'[q] = request[q]
        BY <2>1 DEF Replay
      <3>. QED
        BY <3>1, <3>2
    <2>. QED
      BY <1>1, <2>3, SendingKept
  <1>2. CASE Prune(k)
    <2>1. session_subscribers'[k] = {} /\ k \notin Indexed'
      BY <1>0, <1>2, PrunedIndex
    <2>. QED
      BY <2>1 DEF Held
  <1>3. CASE /\ c \in clients /\ session_subscribers[k] # {c}
             /\ session_subscribers' = [session_subscribers EXCEPT ![k] = @ \ {c}]
             /\ UNCHANGED <<session_driver, child_sessions>>
    <2>1. session_subscribers'[k] = session_subscribers[k] \ {c} /\ Indexed' = Indexed
      BY <1>0, <1>3 DEF Indexed
    <2>2. \A e \in session_subscribers'[k] : \E r \in Requests : Sending(r, k)' /\ request'[r].by = e
      BY <1>1, <2>1 DEF Held
    <2>3. ASSUME k \in Indexed', session_subscribers'[k] = {}
          PROVE  \E r \in Requests : /\ Sending(r, k)'
                                     /\ request'[r].by \in (Clients \ clients') \union session_subscribers'[k]
      <3>1. session_subscribers[k] = {}
        BY <1>3, <2>1, <2>3
      <3>2. PICK r \in Requests : Sending(r, k) /\ request[r].by \in Clients \ clients
        BY <2>1, <2>3, <3>1 DEF Held
      <3>3. request[r].by # c
        BY <1>3, <3>2
      <3>. QED
        BY <1>0, <1>1, <3>2, <3>3
    <2>. QED
      BY <2>2, <2>3 DEF Held
  <1>4. CASE c \notin clients /\ session_subscribers[k] # {} /\ UNCHANGED tables
    <2>1. session_subscribers' = session_subscribers
      BY <1>4 DEF tables
    <2>2. \A e \in session_subscribers'[k] : \E r \in Requests : Sending(r, k)' /\ request'[r].by = e
      BY <1>0, <1>1, <1>4, <2>1 DEF Held
    <2>. QED
      BY <1>4, <2>1, <2>2 DEF Held
  <1>5. CASE c \notin clients /\ session_subscribers[k] = {} /\ Prune(k)
    BY <1>2, <1>5
  <1>. QED
    BY <1>2, <1>3, <1>4, <1>5 DEF FinishReplayed

\* Nobody is made a viewer of a finished subagent but by a load that is to send, or
\* to repeat, its finish.
LEMMA DeadStep ==
  ASSUME TypeOK, ReplayInFile, AskersKnown, File, Shape, AtRest, DeadHeld, [Next]_vars
  PROVE  DeadHeld'
  <1> SUFFICES ASSUME NEW k \in Subagents \ haunted', life'[k] = "done" PROVE Held(k)'
    BY DEF DeadHeld
  <1>0. /\ Root \in Sessions /\ Subagents \subseteq Sessions /\ k \in Sessions /\ k # Root
        /\ life \in [Sessions -> {"none", "live", "done"}]
        /\ session_subscribers \in [Sessions -> SUBSET clients]
        /\ child_sessions \in [Sessions -> SUBSET Subagents]
        /\ clients' \subseteq Clients
    <2>1. clients' \subseteq Clients
      BY StepType DEF TypeOK
    <2>. QED
      BY <2>1, RoutesAssumption DEF TypeOK, Sessions
  <1>3. CASE Finish(k) \/ \E q \in Requests : FinishAgain(q, k)
    <2>1. PICK p : FinishSeen(p, k)
      BY <1>3 DEF Finish, FinishAgain
    <2>2. Prune(k)
      BY <2>1 DEF FinishSeen
    <2>3. session_subscribers'[k] = {} /\ k \notin Indexed'
      BY <1>0, <2>2, PrunedIndex
    <2>. QED
      BY <2>3 DEF Held
  <1>4. ASSUME ~Finish(k), \A q \in Requests : ~FinishAgain(q, k)
        PROVE  life[k] = "done" /\ k \notin haunted
    BY <1>4, DoneBefore, GhostsStay
  <1>2. CASE ~Finish(k) /\ \A q \in Requests : ~FinishAgain(q, k)
    <2>0. Held(k) /\ life[k] = "done"
      BY <1>2, <1>4 DEF DeadHeld
    <2>1. ASSUME \A q \in Requests : ~Replay(q) \/ history[request[q].at + 1] # <<"finished", k>>,
                 session_subscribers'[k] \subseteq session_subscribers[k],
                 session_subscribers[k] \subseteq session_subscribers'[k] \union (Clients \ clients'),
                 k \in Indexed' => k \in Indexed
          PROVE  Held(k)'
      BY <1>2, <2>0, <2>1, HeldKept
    <2>11. CASE \E q \in Requests : Heals(q, k) \/ Heals(q, k)'
      BY <1>2, <2>11, HealsKept DEF Held
    <2> SUFFICES ASSUME \A q \in Requests : ~Heals(q, k) /\ ~Heals(q, k)'
                 PROVE  Held(k)'
      BY <2>11
    <2>3. ASSUME NEW c \in clients, Attach(c, Root), \A q \in Requests : ~Replay(q)
          PROVE  Held(k)'
      <3>1. k \notin Indexed
        <4>1. ASSUME k \in Indexed PROVE FALSE
          <5>1. PICK q \in Requests : Sending(q, k)
            BY <2>0, <4>1 DEF Held
          <5>2. k \in Orphaned(q)
            BY <5>1, SendingHalf
          <5>3. k \in Descendants(Root)
            BY <4>1, AllBelowRoot
          <5>. QED
            BY <2>3, <5>2, <5>3 DEF Attach
        <4>. QED
          BY <4>1
      <3>2. session_subscribers'[k] = session_subscribers[k] /\ Indexed' = Indexed
        <4>1. /\ child_sessions' = child_sessions
              /\ session_subscribers'[k] = IF k = Root \/ k \in Indexed
                                           THEN session_subscribers[k] \union {c}
                                           ELSE session_subscribers[k]
          BY <1>0, <2>3, AttachedAll
        <4>. QED
          BY <1>0, <3>1, <4>1 DEF Indexed
      <3>. QED
        BY <2>1, <2>3, <3>2
    <2>4. ASSUME NEW d \in Clients, Disconnect(d), \A q \in Requests : ~Replay(q)
          PROVE  Held(k)'
      <3>1. /\ session_subscribers'[k] = session_subscribers[k] \ {d} /\ d \notin clients'
            /\ Indexed' = Indexed
        BY <1>0, <2>4 DEF Disconnect, Indexed
      <3>. QED
        BY <2>1, <2>4, <3>1
    <2>5. ASSUME NEW q \in Requests, Replay(q) PROVE Held(k)'
      <3>1. PICK x \in Subagents :
              \/ /\ history[request[q].at + 1] = <<"spawned", x>>
                 /\ SpawnReplayed(request[q].by, x)
              \/ /\ history[request[q].at + 1] = <<"spawned", x>>
                 /\ request[q].by \notin clients /\ UNCHANGED <<tables, bare>>
              \/ /\ history[request[q].at + 1] = <<"finished", x>>
                 /\ FinishReplayed(request[q].by, x)
        BY <2>5, ReplaySteps
      <3>2. \A r \in Requests : Replay(r) => r = q
        <4>1. \A r \in Requests : r # q /\ Replay(r) => request'[q] = request[q]
          BY DEF Replay
        <4>2. request'[q].at # request[q].at
          BY <2>5, RequestsType DEF Replay, RequestType
        <4>. QED
          BY <4>1, <4>2
      <3>3. CASE x # k
        <4>1. session_subscribers'[k] = session_subscribers[k]
          BY <1>0, <3>1, <3>3 DEF SpawnReplayed, FinishReplayed, Prune, tables
        <4>2. k \in Indexed' => k \in Indexed
          <5>1. CASE SpawnReplayed(request[q].by, x)
            BY <1>0, <3>3, <5>1 DEF SpawnReplayed, Indexed
          <5>2. CASE UNCHANGED <<tables, bare>>
            BY <5>2 DEF Indexed, tables
          <5>3. CASE FinishReplayed(request[q].by, x)
            <6>1. CASE Prune(x)
              BY <6>1, PrunedIndex
            <6>2. CASE child_sessions' = child_sessions
              BY <6>2 DEF Indexed
            <6>. QED
              BY <5>3, <6>1, <6>2 DEF FinishReplayed, tables
          <5>. QED
            BY <3>1, <5>1, <5>2, <5>3
        <4>3. history[request[q].at + 1] # <<"finished", k>>
          BY <3>1, <3>3
        <4>. QED
          BY <2>1, <3>2, <4>1, <4>2, <4>3
      <3>4. CASE x = k /\ SpawnReplayed(request[q].by, k)
                       /\ history[request[q].at + 1] = <<"spawned", k>>
        <4> DEFINE c == request[q].by
        <4>1. Sending(q, k)' /\ request'[q].by = c
          BY <2>0, <2>5, <3>4, SpawnSending
        <4>2. session_subscribers'[k] = session_subscribers[k] \union {c}
          BY <1>0, <3>4 DEF SpawnReplayed
        <4>3. ASSUME NEW e \in session_subscribers[k]
              PROVE  \E r \in Requests : Sending(r, k)' /\ request'[r].by = e
          <5>1. PICK r \in Requests : Sending(r, k) /\ request[r].by = e
            BY <2>0 DEF Held
          <5>2. ~(Replay(r) /\ history[request[r].at + 1] = <<"finished", k>>)
            BY <3>2, <3>4
          <5>. QED
            BY <5>1, <5>2, SendingKept
        <4>4. \A e \in session_subscribers'[k] :
                \E r \in Requests : Sending(r, k)' /\ request'[r].by = e
          BY <4>1, <4>2, <4>3
        <4>5. c \in session_subscribers'[k]
          BY <4>2
        <4>. QED
          BY <4>1, <4>4, <4>5 DEF Held
      <3>5. CASE x = k /\ UNCHANGED <<tables, bare>>
                       /\ history[request[q].at + 1] = <<"spawned", k>>
        <4>1. session_subscribers'[k] = session_subscribers[k] /\ Indexed' = Indexed
          BY <3>5 DEF tables, Indexed
        <4>. QED
          BY <2>1, <3>2, <3>5, <4>1
      <3>6. CASE x = k /\ FinishReplayed(request[q].by, k)
                       /\ history[request[q].at + 1] = <<"finished", k>>
        BY <2>0, <2>5, <3>6, FinishHeld
      <3>. QED
        BY <3>1, <3>3, <3>4, <3>5, <3>6
    <2>6. ASSUME NEW p \in Sessions, NEW x \in Subagents, Spawn(p, x),
                 \A q \in Requests : ~Replay(q)
          PROVE  Held(k)'
      <3>1. x # k
        BY <2>0, <2>6 DEF Spawn
      <3>2. session_subscribers'[k] = session_subscribers[k]
        BY <1>0, <2>6, <3>1 DEF Spawn, tables
      <3>3. k \in Indexed' => k \in Indexed
        BY <1>0, <2>6, <3>1 DEF Spawn, tables, Indexed
      <3>. QED
        BY <2>1, <2>6, <3>2, <3>3
    <2>7. ASSUME NEW x \in Subagents, Finish(x) \/ \E q \in Requests : FinishAgain(q, x),
                 \A q \in Requests : ~Replay(q)
          PROVE  Held(k)'
      <3>1. x # k
        BY <1>2, <2>7
      <3>2. Prune(x) \/ UNCHANGED tables
        BY <2>7 DEF Finish, FinishAgain, FinishSeen
      <3>3. session_subscribers'[k] = session_subscribers[k]
        BY <1>0, <3>1, <3>2 DEF Prune, tables
      <3>4. k \in Indexed' => k \in Indexed
        <4>1. CASE Prune(x)
          BY <4>1, PrunedIndex
        <4>2. CASE UNCHANGED tables
          BY <4>2 DEF Indexed, tables
        <4>. QED
          BY <3>2, <4>1, <4>2
      <3>. QED
        BY <2>1, <2>7, <3>3, <3>4
    <2>8. ASSUME UNCHANGED <<tables, bare>>, \A q \in Requests : ~Replay(q) PROVE Held(k)'
      <3>1. session_subscribers'[k] = session_subscribers[k] /\ Indexed' = Indexed
        BY <2>8 DEF tables, Indexed
      <3>. QED
        BY <2>1, <2>8, <3>1
    <2>9. CASE \E q \in Requests : Replay(q)
      BY <2>5, <2>9
    <2>10. CASE \A q \in Requests : ~Replay(q)
      BY <2>3, <2>4, <2>6, <2>7, <2>8, <2>10, RouteSteps
    <2>. QED
      BY <2>9, <2>10
  <1>. QED
    BY <1>2, <1>3

\* With no load under way nothing holds the route of a finished subagent.
LEMMA DeadExplained ==
  ASSUME DeadHeld, AtRest PROVE DeadRoutesExplained
  <1> SUFFICES ASSUME Settled, NEW k \in Subagents \ haunted, life[k] = "done",
                      NEW c \in session_subscribers[k]
               PROVE  FALSE
    BY DEF DeadRoutesExplained
  <1>1. PICK q \in Requests : Sending(q, k) \/ Heals(q, k)
    BY DEF DeadHeld, Held
  <1>. QED
    BY <1>1 DEF Sending, Heals, AtRest, Settled, Loading
-----------------------------------------------------------------------------
(* The routes, inductively.                                                *)

\* None of the three properties of the routes is inductive: each rests on the
\* shape of the index, on the file, and on what the loads still have to send.
RoutesInv == IInv /\ File /\ Shape /\ Routed /\ Loads /\ DeadHeld

\* At first there are no routes.
LEMMA InitRoutes == Init => RoutesInv
  <1> SUFFICES ASSUME Init PROVE RoutesInv
    OBVIOUS
  <1>0. /\ child_sessions = [s \in Sessions |-> {}] /\ Subagents \subseteq Sessions
        /\ Root \in Sessions /\ Root \notin Subagents /\ history = << >>
        /\ \A s \in Sessions : session_subscribers[s] = {} /\ session_driver[s] = None
        /\ \A k \in Subagents : parent[k] = None /\ life[k] = "none"
        /\ life[Root] # "done" /\ announced = {} /\ None \notin Sessions
    BY RoutesAssumption DEF Init, Sessions
  <1>1. Indexed = {}
    BY <1>0 DEF Indexed
  <1>2. File
    <2>1. \A q \in Requests : request[q].unfinished = {}
      BY DEF Init, Free
    <2>. QED
      BY <1>0, <2>1 DEF File, Log, LogTrue, LogComplete, LogOrdered, UnfinishedTrue
  <1>3. Shape
    BY <1>0, <1>1 DEF Shape, RootRuns, Unspawned, IndexedSpawned, Spawners, IndexTrue,
                      IndexOnce, IndexRooted
  <1>4. Routed
    BY <1>0, <1>1 DEF Routed, ViewedIndexed, AnnouncedIndexed, IndexedViewed, DrivenByViewer
  <1>5. Loads
    BY <1>0 DEF Init, Free, Loads, AtRest, LoaderSees
  <1>6. DeadHeld
    BY <1>0 DEF DeadHeld
  <1>. QED
    BY <1>2, <1>3, <1>4, <1>5, <1>6, InitInv DEF RoutesInv

\* The parts are inductive together: each step lemma rests on the others.
LEMMA StepRoutes == RoutesInv /\ [Next]_vars => RoutesInv'
  <1> SUFFICES ASSUME RoutesInv, [Next]_vars PROVE RoutesInv'
    OBVIOUS
  <1>1. IInv /\ File /\ Shape /\ Routed /\ Loads /\ DeadHeld
    BY DEF RoutesInv
  <1>2. TypeOK /\ ReplayInFile /\ AskersKnown /\ LoadersViewRoot
    BY <1>1 DEF IInv
  <1>3. Spawners /\ ViewedIndexed /\ AtRest
    BY <1>1 DEF Shape, Routed, Loads
  <1>4. IInv'
    BY <1>1, StepInv
  <1>5. File'
    BY <1>1, <1>2, <1>3, FileStep
  <1>6. Shape'
    BY <1>1, <1>2, <1>3, ShapeStep
  <1>7. Routed'
    BY <1>1, <1>2, RoutedStep
  <1>8. AtRest'
    BY <1>2, <1>3, ReadsStep
  <1>9. LoaderSees'
    BY <1>1, <1>2, LoaderSeesStep
  <1>10. DeadHeld'
    BY <1>1, <1>2, <1>3, DeadStep
  <1>. QED
    BY <1>4, <1>5, <1>6, <1>7, <1>8, <1>9, <1>10 DEF RoutesInv, Loads

\* So they hold throughout.
LEMMA RoutesHold == Spec => []RoutesInv
  BY InitRoutes, StepRoutes, PTL DEF Spec

\* A session that runs and is viewed is driven by one of its viewers, and who
\* drives is handed over when the driver leaves (subscribe_client, Disconnected),
\* but for the routes that a replay made.
THEOREM ViewedIsDriven == Spec => []DrivenByViewer
  <1>1. RoutesInv => DrivenByViewer
    BY DEF RoutesInv, Routed
  <1>. QED
    BY <1>1, RoutesHold, PTL

\* A client whose session/load was answered views every subagent of the root that
\* runs, and theirs where their spawn was seen: from the route copied at the
\* spawn, from backfill_child_routes, or from the replay.
THEOREM LoadedViewsSubagents == Spec => []LoadedSeesSubagents
  <1>1. RoutesInv => LoadedSeesSubagents
    <2> SUFFICES ASSUME RoutesInv PROVE LoadedSeesSubagents
      OBVIOUS
    <2>1. TypeOK /\ LoadersViewRoot /\ Routed /\ AtRest /\ LoaderSees
      BY DEF RoutesInv, IInv, Loads
    <2>. QED
      BY <2>1, LoadedSees
  <1>. QED
    BY <1>1, RoutesHold, PTL

\* A route that a finished subagent keeps after the loads (prune_child_route was not
\* called for it) is a ghost: some load replayed its spawn and neither its finish
\* nor the repeated one (reconcile_orphaned_subagents), or a client came in between,
\* or nobody viewed its parent when it finished.
THEOREM DeadRoutesAreGhosts == Spec => []DeadRoutesExplained
  <1>1. RoutesInv => DeadRoutesExplained
    <2> SUFFICES ASSUME RoutesInv PROVE DeadRoutesExplained
      OBVIOUS
    <2>1. DeadHeld /\ AtRest
      BY DEF RoutesInv, Loads
    <2>. QED
      BY <2>1, DeadExplained
  <1>. QED
    BY <1>1, RoutesHold, PTL
=============================================================================
