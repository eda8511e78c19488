---------------------------- MODULE SlidingWindow ----------------------------
(***************************************************************************)
(* The bounded window of (timestamp, is_failure) samples of a breaker      *)
(* (xai-circuit-breaker/src/window.rs).  A sample carries its age, which   *)
(* the clock advances; at is the age of the "now" the caller read before   *)
(* it took the mutex.                                                      *)
(***************************************************************************)
EXTENDS Naturals, Integers, Sequences, FiniteSets

CONSTANTS
  MaxEntries,   \* MAX_WINDOW_ENTRIES
  Window,       \* window_duration
  MinSamples    \* min_samples; error_rate_threshold is 1/2, as in both presets

ASSUME WindowAssumption ==
  MaxEntries \in Nat \ {0} /\ Window \in Nat \ {0} /\ MinSamples \in Nat \ {0}

EmptyWindow == [entries |-> <<>>, failures |-> 0]

FailuresIn(s) == Cardinality({i \in DOMAIN s : s[i].failure})

\* (mutant) The sample the cap pushes out is not taken off the count.
PushKeepsCount(w, failure, at) ==
  LET full == Len(w.entries) >= MaxEntries
  IN  [entries  |-> Append(IF full THEN Tail(w.entries) ELSE w.entries,
                           [age |-> at, failure |-> failure]),
       failures |-> w.failures + (IF failure THEN 1 ELSE 0)]

Push(w, failure, at) ==
  LET full == Len(w.entries) >= MaxEntries
      lost == full /\ Head(w.entries).failure
  IN  [entries  |-> Append(IF full THEN Tail(w.entries) ELSE w.entries,
                           [age |-> at, failure |-> failure]),
       failures |-> w.failures - (IF lost THEN 1 ELSE 0) + (IF failure THEN 1 ELSE 0)]

\* How many samples evict pops: the loop stops at the first one in the window,
\* also when an older one was pushed behind it.
Expired(w, now) ==
  LET old(i) == w.entries[i].age - now > Window
  IN  CHOOSE n \in 0..Len(w.entries) :
        /\ \A i \in 1..n : old(i)
        /\ n < Len(w.entries) => ~old(n + 1)

\* (mutant) Every evicted sample is taken off the count.
EvictCountsAll(w, now) ==
  LET n == Expired(w, now)
  IN  [entries  |-> SubSeq(w.entries, n + 1, Len(w.entries)),
       failures |-> w.failures - n]

Evict(w, now) ==
  LET n == Expired(w, now)
  IN  [entries  |-> SubSeq(w.entries, n + 1, Len(w.entries)),
       failures |-> w.failures - FailuresIn(SubSeq(w.entries, 1, n))]

\* sample_count() >= min_samples && error_rate() >= error_rate_threshold
ShouldTrip(w) == Len(w.entries) >= MinSamples /\ 2 * w.failures >= Len(w.entries)
=============================================================================
