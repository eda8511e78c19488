--------------------------- MODULE CircuitBreaker ---------------------------
(***************************************************************************)
(* CircuitBreaker::check and ::record (xai-circuit-breaker/src/breaker.rs) *)
(* called by several threads.  state, opened_at_millis, half_open_probes,  *)
(* probe_claimed_at_millis and is_open_fast are separate atomics: each     *)
(* load, store and read-modify-write is a step.                            *)
(*                                                                         *)
(* A timestamp is represented by its age.  Ages stop at a bound beyond     *)
(* which no comparison tells them apart, as long as no call is held up for *)
(* a whole cool-down: MaxStall < OpenFor.                                  *)
(***************************************************************************)
EXTENDS SlidingWindow

CONSTANTS
  Threads,       \* callers; each has at most one request
  OpenFor,       \* open_duration
  MaxProbes,     \* half_open_max_probes
  Wrap,          \* 2^w of the usize half_open_probes
  MaxStall,      \* bound: ticks that may pass inside one call
  MaxFaults,     \* bound: requests that fail or are dropped without record()
  Regimes        \* TRUE: no two calls overlap; FALSE: they interleave

ASSUME BreakerAssumption ==
  /\ OpenFor \in Nat \ {0} /\ MaxProbes \in Nat \ {0}
  /\ MaxStall \in Nat /\ MaxStall < OpenFor
  /\ IsFiniteSet(Threads)
  /\ Wrap \in Nat /\ Wrap > MaxProbes + Cardinality(Threads)
  /\ MaxFaults \in Nat
  /\ Regimes \subseteq BOOLEAN

VARIABLES
  state,      \* the authoritative BreakerState
  opened,     \* age of opened_at_millis
  probes,     \* half_open_probes
  claimed,    \* age of probe_claimed_at_millis
  fast,       \* is_open_fast
  window,     \* the SlidingWindow behind the mutex
  pc,         \* next step of each thread's call
  seen,       \* age of the timestamp a call has loaded
  now,        \* age of the clock reading a call works with
  failing,    \* outcome a record() call carries
  probeAge,   \* age of the half-open admission a request runs under, OpenFor: none or older
  stall,      \* ticks since each call's first step
  faults,     \* requests that failed or were dropped so far
  serial      \* regime of this behaviour

shared == <<state, opened, probes, claimed, fast, window>>
budgets == <<faults, serial>>
vars == <<state, opened, probes, claimed, fast, window, pc, seen, now, failing,
          probeAge, stall, faults, serial>>

\* The bounds of the ages of opened and claimed, and of a sample.
Old == OpenFor + MaxStall
OldSample == Window + MaxStall + 1
NoProbe == OpenFor
Older(age, bound) == IF age >= bound THEN age ELSE age + 1
Pcs == {"idle", "flight", "opened", "elapsed", "cas", "reread", "clear", "now",
        "add", "claim", "sub", "lease", "reclaim", "push", "pushopen", "trip", "openedat",
        "noprobes", "mirror", "close", "drain", "unprobe", "unmirror"}
InCall(t) == pc[t] \notin {"idle", "flight"}
Quiet == \A t \in Threads : ~InCall(t)

-----------------------------------------------------------------------------
Goto(t, next) == pc' = [pc EXCEPT ![t] = next]

\* A call returns or goes on; the first step of a call may be taken only when
\* the regime lets it.
MayCall == serial => Quiet
Return(t, next) ==
  /\ Goto(t, next)
  /\ stall' = [stall EXCEPT ![t] = 0]
  /\ seen' = [seen EXCEPT ![t] = 0] /\ now' = [now EXCEPT ![t] = 0]
  /\ failing' = [failing EXCEPT ![t] = FALSE]

locals == <<seen, now, failing, stall>>

\* check(): the request goes ahead when Closed, else check_open or a probe.
Check(t) ==
  /\ pc[t] = "idle" /\ MayCall
  /\ Goto(t, CASE state = "Closed" -> "flight"
               [] state = "Open" -> "opened"
               [] state = "HalfOpen" -> "now")
  /\ UNCHANGED <<shared, locals, probeAge, budgets>>

CheckLoadOpened(t) ==
  /\ pc[t] = "opened"
  /\ seen' = [seen EXCEPT ![t] = opened]
  /\ Goto(t, "elapsed")
  /\ UNCHANGED <<shared, now, failing, stall, probeAge, budgets>>

CheckElapsed(t) ==
  /\ pc[t] = "elapsed"
  /\ IF seen[t] >= OpenFor
     THEN Goto(t, "cas") /\ UNCHANGED locals
     ELSE Return(t, "idle")
  /\ UNCHANGED <<shared, probeAge, budgets>>

CheckCas(t) ==
  /\ pc[t] = "cas"
  /\ IF state = "Open"
     THEN state' = "HalfOpen" /\ Goto(t, "clear")
     ELSE Goto(t, "reread") /\ UNCHANGED state
  /\ UNCHANGED <<opened, probes, claimed, fast, window, locals, probeAge, budgets>>

\* The loser of the race looks again.
CheckReread(t) ==
  /\ pc[t] = "reread"
  /\ CASE state = "Closed" -> Return(t, "flight")
       [] state = "Open" -> Return(t, "idle")
       [] state = "HalfOpen" -> Goto(t, "now") /\ UNCHANGED locals
  /\ UNCHANGED <<shared, probeAge, budgets>>

\* (mutant) The winner forgets the mirror.
ClearForgets(t) ==
  /\ pc[t] = "clear"
  /\ Goto(t, "now")
  /\ UNCHANGED <<shared, locals, probeAge, budgets>>

CheckClearFast(t) ==
  /\ pc[t] = "clear"
  /\ fast' = FALSE
  /\ Goto(t, "now")
  /\ UNCHANGED <<state, opened, probes, claimed, window, locals, probeAge, budgets>>

-----------------------------------------------------------------------------
(* try_half_open_probe.                                                    *)

ProbeNow(t) ==
  /\ pc[t] = "now"
  /\ now' = [now EXCEPT ![t] = 0]
  /\ Goto(t, "add")
  /\ UNCHANGED <<shared, seen, failing, stall, probeAge, budgets>>

ProbeAdd(t) ==
  /\ pc[t] = "add"
  /\ probes' = (probes + 1) % Wrap
  /\ Goto(t, IF probes < MaxProbes THEN "claim" ELSE "sub")
  /\ UNCHANGED <<state, opened, claimed, fast, window, locals, probeAge, budgets>>

Admit(t) ==
  /\ claimed' = now[t]
  /\ probeAge' = [probeAge EXCEPT ![t] = now[t]]
  /\ Return(t, "flight")

ProbeClaim(t) ==
  /\ pc[t] = "claim"
  /\ Admit(t)
  /\ UNCHANGED <<state, opened, probes, fast, window, budgets>>

ProbeSub(t) ==
  /\ pc[t] = "sub"
  /\ probes' = (probes + Wrap - 1) % Wrap
  /\ Goto(t, "lease")
  /\ UNCHANGED <<state, opened, claimed, fast, window, locals, probeAge, budgets>>

\* (mutant) A claim is never taken for abandoned.
NoLease(t) ==
  /\ pc[t] = "lease"
  /\ Return(t, "idle")
  /\ UNCHANGED <<shared, probeAge, budgets>>

\* A claim as old as the cool-down counts as abandoned.
ProbeLease(t) ==
  /\ pc[t] = "lease"
  /\ IF claimed >= now[t] + OpenFor
     THEN /\ seen' = [seen EXCEPT ![t] = claimed]
          /\ Goto(t, "reclaim")
          /\ UNCHANGED <<now, failing, stall>>
     ELSE Return(t, "idle")
  /\ UNCHANGED <<shared, probeAge, budgets>>

\* (mutant) The abandoned claim is taken over without renewing it.
ReclaimNoRenew(t) ==
  /\ pc[t] = "reclaim"
  /\ IF claimed = seen[t]
     THEN Return(t, "flight") /\ probeAge' = [probeAge EXCEPT ![t] = now[t]]
     ELSE Return(t, "idle") /\ UNCHANGED probeAge
  /\ UNCHANGED <<shared, budgets>>

ProbeReclaim(t) ==
  /\ pc[t] = "reclaim"
  /\ IF claimed = seen[t]
     THEN Admit(t)
     ELSE Return(t, "idle") /\ UNCHANGED <<claimed, probeAge>>
  /\ UNCHANGED <<state, opened, probes, fast, window, budgets>>

-----------------------------------------------------------------------------
(* record().                                                               *)

\* The clock and then the state are read; HalfOpen takes any outcome for that of
\* a probe.
Record(t) ==
  /\ pc[t] = "flight" /\ MayCall
  /\ \E failed \in BOOLEAN :
       /\ IF failed
          THEN faults < MaxFaults /\ faults' = faults + 1
          ELSE UNCHANGED faults
       /\ failing' = [failing EXCEPT ![t] = failed]
       /\ Goto(t, CASE state = "Closed" -> "push"
                    [] state = "Open" -> "pushopen"
                    [] state = "HalfOpen" -> IF failed THEN "trip" ELSE "close")
  /\ probeAge' = [probeAge EXCEPT ![t] = NoProbe]
  /\ UNCHANGED <<shared, seen, now, stall, serial>>

\* The request's future is dropped, or its response is neither a success nor a
\* failure: record() is never called.
Abandon(t) ==
  /\ pc[t] = "flight"
  /\ faults < MaxFaults /\ faults' = faults + 1
  /\ Goto(t, "idle")
  /\ probeAge' = [probeAge EXCEPT ![t] = NoProbe]
  /\ UNCHANGED <<shared, locals, serial>>

\* Under the mutex. Only a thread that saw Closed decides to trip.
RecordPush(t) ==
  /\ pc[t] \in {"push", "pushopen"}
  /\ window' = Evict(Push(window, failing[t], now[t]), now[t])
  /\ IF pc[t] = "push" /\ ShouldTrip(window')
     THEN Goto(t, "trip") /\ UNCHANGED locals
     ELSE Return(t, "idle")
  /\ UNCHANGED <<state, opened, probes, claimed, fast, probeAge, budgets>>

\* error_rate(), which evicts and is called by Debug only.
ErrorRate(t) ==
  /\ pc[t] = "idle" /\ MayCall
  /\ window' = Evict(window, 0)
  /\ UNCHANGED <<state, opened, probes, claimed, fast, pc, locals, probeAge, budgets>>

\* trip(): four stores, unconditional; the clock is read between the first two.
TripState(t) ==
  /\ pc[t] = "trip" /\ state' = "Open" /\ Goto(t, "openedat")
  /\ now' = [now EXCEPT ![t] = 0]
  /\ UNCHANGED <<opened, probes, claimed, fast, window, seen, failing, stall, probeAge,
                 budgets>>

TripOpenedAt(t) ==
  /\ pc[t] = "openedat" /\ opened' \in 0..now[t] /\ Goto(t, "noprobes")
  /\ now' = [now EXCEPT ![t] = 0]
  /\ UNCHANGED <<state, probes, claimed, fast, window, seen, failing, stall, probeAge,
                 budgets>>

TripProbes(t) ==
  /\ pc[t] = "noprobes" /\ probes' = 0 /\ Goto(t, "mirror")
  /\ UNCHANGED <<state, opened, claimed, fast, window, locals, probeAge, budgets>>

TripMirror(t) ==
  /\ pc[t] = "mirror" /\ fast' = TRUE /\ Return(t, "idle")
  /\ UNCHANGED <<state, opened, probes, claimed, window, probeAge, budgets>>

\* close(): four more.
CloseState(t) ==
  /\ pc[t] = "close" /\ state' = "Closed" /\ Goto(t, "drain")
  /\ UNCHANGED <<opened, probes, claimed, fast, window, locals, probeAge, budgets>>

CloseWindow(t) ==
  /\ pc[t] = "drain" /\ window' = EmptyWindow /\ Goto(t, "unprobe")
  /\ UNCHANGED <<state, opened, probes, claimed, fast, locals, probeAge, budgets>>

CloseProbes(t) ==
  /\ pc[t] = "unprobe" /\ probes' = 0 /\ Goto(t, "unmirror")
  /\ UNCHANGED <<state, opened, claimed, fast, window, locals, probeAge, budgets>>

CloseMirror(t) ==
  /\ pc[t] = "unmirror" /\ fast' = FALSE /\ Return(t, "idle")
  /\ UNCHANGED <<state, opened, probes, claimed, window, probeAge, budgets>>

-----------------------------------------------------------------------------
AgedWindow ==
  LET Aged(sample) == [age |-> Older(sample.age, OldSample), failure |-> sample.failure]
  IN  [entries  |-> [i \in DOMAIN window.entries |-> Aged(window.entries[i])],
       failures |-> window.failures]

\* The clock: every timestamp ages, in memory and in the calls under way.
Tick ==
  /\ \A t \in Threads : InCall(t) => stall[t] < MaxStall
  /\ opened' = Older(opened, Old) /\ claimed' = Older(claimed, Old)
  /\ window' = AgedWindow
  /\ seen' = [t \in Threads |-> IF pc[t] \in {"elapsed", "reclaim"}
                                THEN Older(seen[t], Old) ELSE seen[t]]
  /\ now' = [t \in Threads |-> IF pc[t] \in {"add", "claim", "sub", "lease",
                                             "reclaim", "push", "pushopen", "openedat"}
                               THEN Older(now[t], MaxStall) ELSE now[t]]
  /\ stall' = [t \in Threads |-> IF InCall(t) THEN stall[t] + 1 ELSE 0]
  /\ probeAge' = [t \in Threads |-> Older(probeAge[t], NoProbe)]
  /\ UNCHANGED <<state, probes, fast, pc, failing, budgets>>

Init ==
  /\ state = "Closed" /\ probes = 0 /\ fast = FALSE
  /\ opened = 0 /\ claimed = 0
  /\ window = EmptyWindow
  /\ pc = [t \in Threads |-> "idle"]
  /\ seen = [t \in Threads |-> 0] /\ now = [t \in Threads |-> 0]
  /\ failing = [t \in Threads |-> FALSE]
  /\ probeAge = [t \in Threads |-> NoProbe]
  /\ stall = [t \in Threads |-> 0]
  /\ faults = 0
  /\ serial \in Regimes

CallStep(t) ==
  \/ CheckLoadOpened(t) \/ CheckElapsed(t) \/ CheckCas(t) \/ CheckReread(t)
  \/ CheckClearFast(t) \/ ProbeNow(t) \/ ProbeAdd(t) \/ ProbeClaim(t)
  \/ ProbeSub(t) \/ ProbeLease(t) \/ ProbeReclaim(t) \/ RecordPush(t)
  \/ TripState(t) \/ TripOpenedAt(t) \/ TripProbes(t) \/ TripMirror(t)
  \/ CloseState(t) \/ CloseWindow(t) \/ CloseProbes(t) \/ CloseMirror(t)

Next ==
  \/ Tick
  \/ \E t \in Threads : Check(t) \/ Record(t) \/ Abandon(t) \/ ErrorRate(t) \/ CallStep(t)

Spec == Init /\ [][Next]_vars

(* The clock advances although some thread is always inside a call, and every *)
(* thread goes on with its call, its request or the next one.  In the serial  *)
(* regime a call waits for those of the other threads: strong fairness.       *)
Fairness ==
  /\ SF_vars(Tick)
  /\ \A t \in Threads : SF_vars(CallStep(t) \/ Check(t) \/ Record(t))

FairSpec == Spec /\ Fairness
-----------------------------------------------------------------------------
(* Correctness.                                                            *)

\* Every atomic keeps its range: probes wraps instead of leaving the usize, and
\* the window's count never underflows.
TypeOK ==
  /\ state \in {"Closed", "Open", "HalfOpen"}
  /\ opened \in 0..Old /\ claimed \in 0..Old
  /\ probes \in 0..(Wrap - 1)
  /\ fast \in BOOLEAN
  /\ window \in [entries : Seq([age : 0..OldSample, failure : BOOLEAN]),
                 failures : 0..MaxEntries]
  /\ Len(window.entries) <= MaxEntries
  /\ pc \in [Threads -> Pcs]
  /\ seen \in [Threads -> 0..Old] /\ now \in [Threads -> 0..MaxStall]
  /\ failing \in [Threads -> BOOLEAN]
  /\ probeAge \in [Threads -> 0..NoProbe]
  /\ stall \in [Threads -> 0..MaxStall]
  /\ faults \in 0..MaxFaults
  /\ serial \in BOOLEAN

\* The incremental count of window.rs is the number of failures in the window,
\* through the cap, out-of-order timestamps and close()'s clear.
WindowCountsFailures == window.failures = FailuresIn(window.entries)

\* Between calls that do not overlap, what the five atomics say agrees: the
\* mirror is state == Open, and slots are claimed in HalfOpen only, at least one
\* and no more than there are.
SerialAgreement ==
  (serial /\ Quiet) =>
    /\ fast <=> (state = "Open")
    /\ state = "HalfOpen" <=> probes > 0
    /\ probes <= MaxProbes

\* The lease: among calls that do not overlap, no more requests run under a
\* half-open admission younger than the cool-down than there are slots, although
\* slots of abandoned probes are handed out again.
SerialProbeSlots ==
  serial => Cardinality({t \in Threads : probeAge[t] < OpenFor}) <= MaxProbes

\* However calls interleave and whichever probes are dropped, the breaker closes
\* again once the service has recovered and requests keep coming.
RecoversEventually == []<>(state = "Closed")

\* breaker.rs:211: half_open_probes is already 0 on the step to HalfOpen, because
\* trip() zeroed it on entry to Open and nothing increments it while Open.
HalfOpenStartsWithoutProbes ==
  [][(state = "Open" /\ state' = "HalfOpen") => probes = 0]_vars
=============================================================================
