------------------------ MODULE CircuitBreakerProofs ------------------------
(***************************************************************************)
(* Proofs about the circuit breaker, for any number of threads, slots and  *)
(* samples and any cool-down.                                              *)
(*                                                                         *)
(* First what the operators of SlidingWindow return, for windows of any    *)
(* length: pushing, evicting and ageing keep the incremental count of      *)
(* failures equal to the number of failures in the window.                 *)
(***************************************************************************)
EXTENDS CircuitBreaker, FiniteSetTheorems, SequenceTheorems, WellFoundedInduction, TLAPS

-----------------------------------------------------------------------------
(* The sliding window.                                                     *)

Sample == [age : Nat, failure : BOOLEAN]

\* The positions of the failures, of which FailuresIn is the number.
Failing(s) == {i \in DOMAIN s : s[i].failure}

LEMMA FailingFinite ==
  ASSUME NEW s \in Seq(Sample)
  PROVE  /\ IsFiniteSet(Failing(s)) /\ FailuresIn(s) = Cardinality(Failing(s))
         /\ FailuresIn(s) \in Nat /\ FailuresIn(s) <= Len(s)
  <1>0. Len(s) \in Nat /\ DOMAIN s = 1..Len(s)
    OBVIOUS
  <1>1. IsFiniteSet(1..Len(s)) /\ Cardinality(1..Len(s)) = Len(s)
    <2>1. 1 \in Int /\ Len(s) \in Int
      BY <1>0
    <2>2. /\ IsFiniteSet(1..Len(s))
          /\ Cardinality(1..Len(s)) = IF 1 > Len(s) THEN 0 ELSE Len(s) - 1 + 1
      BY <2>1, FS_Interval, Zenon
    <2>. QED
      BY <1>0, <2>2
  <1>2. Failing(s) \subseteq 1..Len(s)
    BY <1>0 DEF Failing
  <1>3. IsFiniteSet(Failing(s)) /\ Cardinality(Failing(s)) <= Len(s)
    BY <1>1, <1>2, FS_Subset
  <1>4. FailuresIn(s) = Cardinality(Failing(s))
    BY DEF FailuresIn, Failing
  <1>. QED
    BY <1>3, <1>4, FS_CardinalityType

\* A sample at the end counts if it is a failure.
LEMMA FailuresInAppend ==
  ASSUME NEW s \in Seq(Sample), NEW e \in Sample
  PROVE  FailuresIn(Append(s, e)) = FailuresIn(s) + (IF e.failure THEN 1 ELSE 0)
  <1> DEFINE t == Append(s, e)
  <1>1. /\ t \in Seq(Sample) /\ Len(t) = Len(s) + 1 /\ DOMAIN t = 1..(Len(s) + 1)
        /\ \A i \in 1..Len(s) : t[i] = s[i]
        /\ t[Len(s) + 1] = e
    OBVIOUS
  <1>2. Len(s) \in Nat /\ DOMAIN s = 1..Len(s)
    OBVIOUS
  <1>3. CASE e.failure
    <2>1. Failing(t) = Failing(s) \union {Len(s) + 1} /\ Len(s) + 1 \notin Failing(s)
      BY <1>1, <1>2, <1>3 DEF Failing
    <2>2. Cardinality(Failing(s) \union {Len(s) + 1}) = Cardinality(Failing(s)) + 1
      BY <2>1, FailingFinite, FS_AddElement
    <2>3. FailuresIn(t) = Cardinality(Failing(t)) /\ FailuresIn(s) = Cardinality(Failing(s))
      BY <1>1, FailingFinite
    <2>. QED
      BY <1>3, <2>1, <2>2, <2>3
  <1>4. CASE ~e.failure
    <2>1. Failing(t) = Failing(s)
      BY <1>1, <1>2, <1>4 DEF Failing
    <2>2. /\ FailuresIn(t) = Cardinality(Failing(t)) /\ FailuresIn(s) = Cardinality(Failing(s))
          /\ FailuresIn(s) \in Nat
      BY <1>1, FailingFinite
    <2>. QED
      BY <1>4, <2>1, <2>2
  <1>. QED
    BY <1>3, <1>4

\* The failures of a window are those of its first n samples and of the rest.
LEMMA FailuresInSplit ==
  ASSUME NEW s \in Seq(Sample), NEW n \in 0..Len(s)
  PROVE  /\ SubSeq(s, 1, n) \in Seq(Sample) /\ SubSeq(s, n + 1, Len(s)) \in Seq(Sample)
         /\ Len(SubSeq(s, n + 1, Len(s))) = Len(s) - n
         /\ FailuresIn(s) = FailuresIn(SubSeq(s, 1, n)) + FailuresIn(SubSeq(s, n + 1, Len(s)))
  <1> DEFINE lo == SubSeq(s, 1, n)
             hi == SubSeq(s, n + 1, Len(s))
             above == {i \in Failing(s) : i > n}
  <1>1. /\ lo \in Seq(Sample) /\ DOMAIN lo = 1..n /\ \A i \in 1..n : lo[i] = s[i]
        /\ hi \in Seq(Sample) /\ Len(hi) = Len(s) - n /\ DOMAIN hi = 1..(Len(s) - n)
        /\ \A i \in 1..(Len(s) - n) : hi[i] = s[i + n]
        /\ Len(s) \in Nat /\ n \in Nat /\ n <= Len(s) /\ DOMAIN s = 1..Len(s)
    OBVIOUS
  <1>2. Failing(s) = Failing(lo) \union above /\ Failing(lo) \intersect above = {}
    <2>1. Failing(lo) = {i \in 1..n : s[i].failure}
      BY <1>1 DEF Failing
    <2>2. Failing(s) = {i \in 1..Len(s) : s[i].failure}
      BY <1>1 DEF Failing
    <2> HIDE DEF lo, hi
    <2>. QED
      BY <1>1, <2>1, <2>2
  <1>3. IsFiniteSet(Failing(lo)) /\ IsFiniteSet(Failing(hi)) /\ IsFiniteSet(Failing(s))
    BY <1>1, FailingFinite
  <1>4. IsFiniteSet(above)
    BY <1>3, FS_Subset
  <1>5. Cardinality(above) = Cardinality(Failing(hi))
    <2> DEFINE f == [i \in Failing(hi) |-> i + n]
    <2>0. /\ Failing(hi) = {i \in 1..(Len(s) - n) : s[i + n].failure}
          /\ above = {i \in 1..Len(s) : s[i].failure /\ i > n}
      BY <1>1 DEF Failing
    <2> HIDE DEF hi, lo, above
    <2>1. \A i \in Failing(hi) : i \in Nat /\ i + n \in above
      BY <1>1, <2>0
    <2>2. \A j \in above : j - n \in Failing(hi) /\ (j - n) + n = j
      BY <1>1, <2>0
    <2>3. f \in Bijection(Failing(hi), above)
      <3>1. f \in [Failing(hi) -> above]
        BY <2>1
      <3>2. \A a, b \in Failing(hi) : f[a] = f[b] => a = b
        BY <1>1, <2>1
      <3>3. \A j \in above : \E i \in Failing(hi) : f[i] = j
        BY <2>2
      <3>. QED
        <4>1. f \in Injection(Failing(hi), above)
          BY <3>1, <3>2 DEF Injection, IsInjective
        <4>2. f \in Surjection(Failing(hi), above)
          BY <3>1, <3>3 DEF Surjection
        <4>. QED
          BY <4>1, <4>2 DEF Bijection
    <2>. QED
      BY <1>3, <2>3, FS_Bijection DEF ExistsBijection
  <1>6. Cardinality(Failing(s)) = Cardinality(Failing(lo)) + Cardinality(above)
    <2>1. Cardinality(Failing(lo) \intersect above) = 0
      BY <1>2, FS_EmptySet
    <2>2. Cardinality(Failing(lo)) \in Nat /\ Cardinality(above) \in Nat
      BY <1>3, <1>4, FS_CardinalityType
    <2>3. Cardinality(Failing(lo) \union above) =
            Cardinality(Failing(lo)) + Cardinality(above) - Cardinality(Failing(lo) \intersect above)
      BY <1>3, <1>4, FS_Union, Zenon
    <2> HIDE DEF lo, hi, above
    <2>. QED
      BY <1>2, <2>1, <2>2, <2>3
  <1>. QED
    BY <1>1, <1>5, <1>6, FailingFinite

\* What push does at the cap: the oldest sample is taken off.
LEMMA FailuresInTail ==
  ASSUME NEW s \in Seq(Sample), s # <<>>
  PROVE  /\ Tail(s) \in Seq(Sample) /\ Len(Tail(s)) = Len(s) - 1
         /\ FailuresIn(s) = FailuresIn(Tail(s)) + (IF Head(s).failure THEN 1 ELSE 0)
  <1>1. /\ Len(s) \in Nat /\ 1 \in 0..Len(s) /\ Head(s) = s[1]
        /\ Tail(s) = SubSeq(s, 2, Len(s)) /\ 1 + 1 = 2
    OBVIOUS
  <1>2. /\ SubSeq(s, 2, Len(s)) \in Seq(Sample) /\ Len(SubSeq(s, 2, Len(s))) = Len(s) - 1
        /\ SubSeq(s, 1, 1) \in Seq(Sample)
        /\ FailuresIn(s) = FailuresIn(SubSeq(s, 1, 1)) + FailuresIn(SubSeq(s, 2, Len(s)))
    <2>1. /\ SubSeq(s, 1 + 1, Len(s)) \in Seq(Sample)
          /\ Len(SubSeq(s, 1 + 1, Len(s))) = Len(s) - 1
          /\ SubSeq(s, 1, 1) \in Seq(Sample)
          /\ FailuresIn(s) = FailuresIn(SubSeq(s, 1, 1)) + FailuresIn(SubSeq(s, 1 + 1, Len(s)))
      BY <1>1, FailuresInSplit, Zenon
    <2>. QED
      BY <1>1, <2>1
  <1>3. Failing(SubSeq(s, 1, 1)) = IF s[1].failure THEN {1} ELSE {}
    <2>1. DOMAIN SubSeq(s, 1, 1) = {1} /\ SubSeq(s, 1, 1)[1] = s[1]
      BY <1>1
    <2>. QED
      BY <2>1 DEF Failing
  <1>4. FailuresIn(SubSeq(s, 1, 1)) = IF s[1].failure THEN 1 ELSE 0
    BY <1>2, <1>3, FailingFinite, FS_Singleton, FS_EmptySet
  <1>5. FailuresIn(SubSeq(s, 2, Len(s))) \in Nat
    BY <1>2, FailingFinite
  <1>6. Tail(s) \in Seq(Sample) /\ Len(Tail(s)) = Len(s) - 1
    BY <1>1, <1>2
  <1>7. FailuresIn(Tail(s)) = FailuresIn(SubSeq(s, 2, Len(s)))
    BY <1>1, Zenon
  <1>8. FailuresIn(s) = FailuresIn(Tail(s)) + FailuresIn(SubSeq(s, 1, 1))
    <2>1. FailuresIn(SubSeq(s, 1, 1)) \in Nat
      BY <1>2, FailingFinite
    <2> HIDE DEF FailuresIn
    <2>. QED
      BY <1>2, <1>5, <1>7, <2>1
  <1>. QED
    BY <1>1, <1>4, <1>6, <1>8, Zenon

\* What evict pops: a prefix, defined for every window and every clock reading.
LEMMA ExpiredPrefix ==
  ASSUME NEW w, w.entries \in Seq(Sample), NEW at \in Nat
  PROVE  Expired(w, at) \in 0..Len(w.entries)
  <1> DEFINE old(i) == w.entries[i].age - at > Window
             stops == {n \in 0..Len(w.entries) : n < Len(w.entries) => ~old(n + 1)}
             Good(n) == /\ \A i \in 1..n : old(i)
                        /\ n < Len(w.entries) => ~old(n + 1)
             less == {ss \in Nat \X Nat : ss[1] < ss[2]}
  <1>1. stops # {} /\ stops \subseteq Nat
    <2>1. Len(w.entries) \in Nat
      OBVIOUS
    <2>2. Len(w.entries) \in stops
      BY <2>1
    <2>. QED
      BY <2>1, <2>2
  <1>2. PICK n \in stops : \A m \in stops : ~(<<m, n>> \in less)
    <2>1. IsWellFoundedOn(less, Nat)
      BY NatLessThanWellFounded DEF OpToRel
    <2> HIDE DEF stops, less
    <2>. QED
      BY <1>1, <2>1, WFMin
  <1>3. n \in 0..Len(w.entries) /\ Len(w.entries) \in Nat
    OBVIOUS
  <1>4. \A i \in 1..n : old(i)
    <2> SUFFICES ASSUME NEW i \in 1..n, ~old(i) PROVE FALSE
      OBVIOUS
    <2>1. i - 1 \in Nat /\ i - 1 < n /\ (i - 1) + 1 = i /\ n \in Nat
      BY <1>3
    <2>2. i - 1 \in stops
      BY <1>3, <2>1
    <2>3. <<i - 1, n>> \in less
      BY <2>1
    <2>. QED
      BY <1>2, <2>2, <2>3
  <1>5. \E k \in 0..Len(w.entries) : Good(k)
    BY <1>3, <1>4
  <1>6. Expired(w, at) = CHOOSE k \in 0..Len(w.entries) : Good(k)
    BY Zenon DEF Expired
  <1> HIDE DEF Good
  <1>. QED
    BY <1>5, <1>6

\* A window within its cap, its samples' ages in A, and its count right.
Counted(w, A) ==
  /\ w.entries \in Seq([age : A, failure : BOOLEAN])
  /\ Len(w.entries) <= MaxEntries
  /\ w.failures = FailuresIn(w.entries)

LEMMA CountedSample ==
  ASSUME NEW A, A \subseteq Nat, NEW s \in Seq([age : A, failure : BOOLEAN])
  PROVE  s \in Seq(Sample)
  <1>1. [age : A, failure : BOOLEAN] \subseteq Sample
    BY DEF Sample
  <1>2. Len(s) \in Nat /\ s \in [1..Len(s) -> [age : A, failure : BOOLEAN]]
    BY LenProperties, Zenon
  <1>3. s \in [1..Len(s) -> Sample]
    BY <1>1, <1>2
  <1>. QED
    BY <1>2, <1>3, SeqDef

\* The empty window of new() and of close().
LEMMA CountedEmpty ==
  ASSUME NEW A
  PROVE  Counted(EmptyWindow, A)
  <1>1. {i \in DOMAIN <<>> : <<>>[i].failure} = {}
    OBVIOUS
  <1>2. FailuresIn(<<>>) = 0
    BY <1>1, FS_EmptySet DEF FailuresIn
  <1>3. EmptyWindow.entries = <<>> /\ EmptyWindow.failures = 0
    BY DEF EmptyWindow
  <1>. QED
    BY <1>2, <1>3, WindowAssumption DEF Counted

\* push: the cap's sample is taken off the count before the new one is added.
LEMMA CountedPush ==
  ASSUME NEW A, A \subseteq Nat, NEW w, Counted(w, A),
         NEW failure \in BOOLEAN, NEW at \in A
  PROVE  Counted(Push(w, failure, at), A)
  <1> DEFINE R == [age : A, failure : BOOLEAN]
             e == [age |-> at, failure |-> failure]
             full == Len(w.entries) >= MaxEntries
             kept == IF full THEN Tail(w.entries) ELSE w.entries
             v == Push(w, failure, at)
  <1>1. /\ w.entries \in Seq(R) /\ Len(w.entries) <= MaxEntries /\ Len(w.entries) \in Nat
        /\ w.failures = FailuresIn(w.entries) /\ w.entries \in Seq(Sample)
        /\ MaxEntries \in Nat /\ MaxEntries > 0
    <2>1. w.entries \in Seq([age : A, failure : BOOLEAN])
      BY DEF Counted
    <2>2. Len(w.entries) \in Nat
      BY <2>1, LenProperties, Zenon
    <2>3. w.entries \in Seq(Sample)
      BY <2>1, CountedSample
    <2>. QED
      BY <2>1, <2>2, <2>3, WindowAssumption DEF Counted
  <1>2. e \in R /\ e \in Sample /\ e.failure = failure
    BY DEF Sample
  <1>3. /\ kept \in Seq(R) /\ kept \in Seq(Sample) /\ Len(kept) <= MaxEntries - 1
        /\ FailuresIn(kept) = w.failures - (IF full /\ Head(w.entries).failure THEN 1 ELSE 0)
    <2>1. CASE full
      <3>1. w.entries # <<>>
        BY <1>1, <2>1
      <3>2. /\ Tail(w.entries) \in Seq(R) /\ Tail(w.entries) \in Seq(Sample)
            /\ Len(Tail(w.entries)) = Len(w.entries) - 1
        BY <1>1, <3>1
      <3>3. FailuresIn(w.entries) =
              FailuresIn(Tail(w.entries)) + (IF Head(w.entries).failure THEN 1 ELSE 0)
        BY <1>1, <3>1, FailuresInTail
      <3>4. FailuresIn(Tail(w.entries)) \in Nat
        BY <3>2, FailingFinite
      <3>. QED
        BY <1>1, <2>1, <3>2, <3>3, <3>4
    <2>2. CASE ~full
      <3>1. FailuresIn(w.entries) \in Nat
        BY <1>1, FailingFinite
      <3>. QED
        BY <1>1, <2>2, <3>1
    <2>. QED
      BY <2>1, <2>2
  <1>4. v.entries = Append(kept, e)
    BY DEF Push
  <1>5. v.failures = w.failures - (IF full /\ Head(w.entries).failure THEN 1 ELSE 0)
                     + (IF failure THEN 1 ELSE 0)
    BY DEF Push
  <1>6. FailuresIn(Append(kept, e)) = FailuresIn(kept) + (IF failure THEN 1 ELSE 0)
    <2> HIDE DEF kept, e
    <2>. QED
      BY <1>2, <1>3, FailuresInAppend
  <1>7. Append(kept, e) \in Seq(R) /\ Len(Append(kept, e)) <= MaxEntries
    <2> HIDE DEF kept, e
    <2>. QED
      BY <1>1, <1>2, <1>3
  <1>8. v.failures = FailuresIn(v.entries)
    <2> HIDE DEF kept, e, v
    <2>. QED
      BY <1>3, <1>4, <1>5, <1>6
  <1> HIDE DEF kept, e, v
  <1>. QED
    BY <1>4, <1>7, <1>8 DEF Counted, v

\* evict: every sample it pops is taken off the count if it was a failure.
LEMMA CountedEvict ==
  ASSUME NEW A, A \subseteq Nat, NEW w, Counted(w, A), NEW at \in Nat
  PROVE  Counted(Evict(w, at), A)
  <1> DEFINE n == Expired(w, at)
             v == Evict(w, at)
             rest == SubSeq(w.entries, n + 1, Len(w.entries))
  <1>1. /\ w.entries \in Seq([age : A, failure : BOOLEAN]) /\ w.entries \in Seq(Sample)
        /\ Len(w.entries) \in Nat /\ Len(w.entries) <= MaxEntries
        /\ w.failures = FailuresIn(w.entries) /\ MaxEntries \in Nat
    <2>1. w.entries \in Seq([age : A, failure : BOOLEAN])
      BY DEF Counted
    <2>2. Len(w.entries) \in Nat
      BY <2>1, LenProperties, Zenon
    <2>3. w.entries \in Seq(Sample)
      BY <2>1, CountedSample
    <2>. QED
      BY <2>1, <2>2, <2>3, WindowAssumption DEF Counted
  <1>2. n \in 0..Len(w.entries)
    BY <1>1, ExpiredPrefix
  <1>3. v.entries = rest /\ v.failures = w.failures - FailuresIn(SubSeq(w.entries, 1, n))
    BY DEF Evict
  <1> HIDE DEF n, v
  <1>4. /\ SubSeq(w.entries, 1, n) \in Seq(Sample) /\ rest \in Seq(Sample)
        /\ Len(rest) = Len(w.entries) - n
        /\ FailuresIn(w.entries) = FailuresIn(SubSeq(w.entries, 1, n)) + FailuresIn(rest)
    BY <1>1, <1>2, FailuresInSplit
  <1>5. FailuresIn(SubSeq(w.entries, 1, n)) \in Nat /\ FailuresIn(rest) \in Nat
    BY <1>4, FailingFinite
  <1>6. rest \in Seq([age : A, failure : BOOLEAN])
    <2> DEFINE R == [age : A, failure : BOOLEAN]
    <2>1. w.entries \in Seq(R) /\ n \in 0..Len(w.entries) /\ Len(w.entries) \in Nat
      BY <1>1, <1>2
    <2> HIDE DEF R
    <2>2. rest \in Seq(R)
      BY <2>1
    <2>. QED
      BY <2>2 DEF R
  <1> HIDE DEF rest
  <1>7. v.failures = FailuresIn(v.entries)
    BY <1>1, <1>3, <1>4, <1>5
  <1>8. Len(v.entries) <= MaxEntries
    BY <1>1, <1>2, <1>3, <1>4
  <1>. QED
    BY <1>3, <1>6, <1>7, <1>8 DEF Counted, v

\* The clock: as many failures in a window whose samples have aged.
LEMMA FailuresInAged ==
  ASSUME NEW s, NEW t, DOMAIN s = DOMAIN t,
         \A i \in DOMAIN s : s[i].failure = t[i].failure
  PROVE  FailuresIn(s) = FailuresIn(t)
  <1>1. {i \in DOMAIN s : s[i].failure} = {i \in DOMAIN t : t[i].failure}
    OBVIOUS
  <1>. QED
    BY <1>1 DEF FailuresIn

-----------------------------------------------------------------------------
(* The breaker.                                                            *)

Ages == 0..OldSample

LEMMA Bounds ==
  /\ OpenFor \in Nat /\ OpenFor > 0 /\ MaxProbes \in Nat /\ MaxProbes > 0
  /\ MaxStall \in Nat /\ MaxStall < OpenFor /\ Wrap \in Nat /\ Wrap > MaxProbes
  /\ MaxFaults \in Nat /\ MaxEntries \in Nat /\ Old \in Nat /\ MaxStall <= Old /\ OpenFor <= Old
  /\ NoProbe = OpenFor /\ OldSample \in Nat /\ MaxStall \in Ages /\ Ages \subseteq Nat
  /\ IsFiniteSet(Threads)
  /\ Old = OpenFor + MaxStall
  <1>1. Cardinality(Threads) \in Nat
    BY BreakerAssumption, FS_CardinalityType
  <1>. QED
    BY <1>1, BreakerAssumption, WindowAssumption DEF Old, NoProbe, OldSample, Ages

\* The sliding window's part of the invariant.
WindowOK ==
  /\ window \in [entries : Seq([age : Ages, failure : BOOLEAN]), failures : 0..MaxEntries]
  /\ Counted(window, Ages)

LEMMA WindowOKFromCounted ==
  ASSUME NEW w, Counted(w, Ages), w = [entries |-> w.entries, failures |-> w.failures]
  PROVE  w \in [entries : Seq([age : Ages, failure : BOOLEAN]), failures : 0..MaxEntries]
  <1>1. w.entries \in Seq([age : Ages, failure : BOOLEAN])
    BY DEF Counted
  <1>2. w.entries \in Seq(Sample) /\ Len(w.entries) \in Nat
    BY <1>1, CountedSample, Bounds, LenProperties
  <1>3. w.failures \in 0..MaxEntries
    <2>1. /\ FailuresIn(w.entries) \in Nat /\ FailuresIn(w.entries) <= Len(w.entries)
      BY <1>2, FailingFinite
    <2>. QED
      BY <1>2, <2>1, Bounds DEF Counted
  <1> DEFINE R == Seq([age : Ages, failure : BOOLEAN])
             x == w.entries
             y == w.failures
  <1>4. w = [entries |-> x, failures |-> y] /\ x \in R /\ y \in 0..MaxEntries
    BY <1>1, <1>3
  <1> HIDE DEF R, x, y
  <1>5. w \in [entries : R, failures : 0..MaxEntries]
    BY <1>4
  <1>. QED
    BY <1>5 DEF R

\* One tick ages every sample of the window.
LEMMA WindowAged ==
  ASSUME WindowOK, Tick
  PROVE  WindowOK'
  <1> DEFINE s == window.entries
             t == [i \in DOMAIN s |-> [age |-> Older(s[i].age, OldSample), failure |-> s[i].failure]]
             R == [age : Ages, failure : BOOLEAN]
  <1>1. s \in Seq(R) /\ Len(s) \in Nat /\ DOMAIN s = 1..Len(s) /\ \A i \in 1..Len(s) : s[i] \in R
    <2>1. s \in Seq(R)
      BY DEF WindowOK, Counted
    <2> HIDE DEF s, R
    <2>. QED
      BY <2>1
  <1>2. window' = [entries |-> t, failures |-> window.failures]
    BY DEF Tick, AgedWindow
  <1>3. window'.entries = t /\ window'.failures = window.failures
    BY <1>2
  <1>4. \A i \in 1..Len(s) : t[i] \in R /\ t[i].failure = s[i].failure
    <2> SUFFICES ASSUME NEW i \in 1..Len(s)
                 PROVE  t[i] \in R /\ t[i].failure = s[i].failure
      OBVIOUS
    <2>1. s[i] \in R /\ i \in DOMAIN s
      BY <1>1
    <2>2. t[i] = [age |-> Older(s[i].age, OldSample), failure |-> s[i].failure]
      BY <2>1
    <2>3. Older(s[i].age, OldSample) \in Ages
      BY <2>1, Bounds DEF Older, Ages
    <2>. QED
      BY <2>1, <2>2, <2>3
  <1>5. t \in Seq(R) /\ Len(t) = Len(s) /\ DOMAIN t = DOMAIN s
    <2>1. t \in [1..Len(s) -> R]
      BY <1>1, <1>4
    <2>2. t \in Seq(R)
      BY <1>1, <2>1, SeqDef
    <2> HIDE DEF R, s, t
    <2>3. Len(t) \in Nat /\ DOMAIN t = 1..Len(t) /\ DOMAIN t = 1..Len(s)
      BY <2>1, <2>2
    <2>4. Len(t) \in 1..Len(s) \/ Len(t) = 0
      BY <2>3
    <2>5. Len(s) \in 1..Len(t) \/ Len(s) = 0
      BY <1>1, <2>3
    <2>6. Len(t) = Len(s)
      <3>1. Len(s) \in Nat /\ Len(t) \in Nat
        BY <1>1, <2>3
      <3>. QED
        BY <2>4, <2>5, <3>1
    <2>. QED
      BY <1>1, <2>2, <2>3, <2>6
  <1>6. FailuresIn(t) = FailuresIn(s)
    <2> HIDE DEF s, t
    <2>. QED
      BY <1>1, <1>4, <1>5, FailuresInAged
  <1>7. Counted(window', Ages)
    BY <1>3, <1>5, <1>6 DEF WindowOK, Counted
  <1>8. window' = [entries |-> window'.entries, failures |-> window'.failures]
    BY <1>2, <1>3
  <1>. QED
    BY <1>7, <1>8, WindowOKFromCounted DEF WindowOK

\* Only the mutex's holders and the clock touch the window.
LEMMA WindowStep ==
  ASSUME TypeOK, WindowOK, [Next]_vars
  PROVE  WindowOK'
  <1>1. CASE UNCHANGED window
    BY <1>1 DEF WindowOK, Counted, FailuresIn
  <1>2. CASE Tick
    BY <1>2, WindowAged
  <1>3. ASSUME NEW t \in Threads, RecordPush(t)
        PROVE  WindowOK'
    <2> DEFINE v == Push(window, failing[t], now[t])
    <2>1. failing[t] \in BOOLEAN /\ now[t] \in Ages /\ now[t] \in Nat
      BY Bounds DEF TypeOK, Ages
    <2>2. Counted(v, Ages)
      BY <2>1, Bounds, CountedPush DEF WindowOK
    <2> HIDE DEF v
    <2>3. Counted(Evict(v, now[t]), Ages)
      BY <2>1, <2>2, Bounds, CountedEvict
    <2>4. window' = Evict(v, now[t])
      BY <1>3 DEF RecordPush, v
    <2>5. Evict(v, now[t]) = [entries |-> Evict(v, now[t]).entries,
                              failures |-> Evict(v, now[t]).failures]
      BY DEF Evict
    <2>. QED
      BY <2>3, <2>4, <2>5, WindowOKFromCounted DEF WindowOK
  <1>4. ASSUME NEW t \in Threads, ErrorRate(t)
        PROVE  WindowOK'
    <2>1. Counted(Evict(window, 0), Ages)
      BY Bounds, CountedEvict DEF WindowOK
    <2>2. window' = Evict(window, 0)
      BY <1>4 DEF ErrorRate
    <2>3. Evict(window, 0) = [entries |-> Evict(window, 0).entries,
                              failures |-> Evict(window, 0).failures]
      BY DEF Evict
    <2>. QED
      BY <2>1, <2>2, <2>3, WindowOKFromCounted DEF WindowOK
  <1>5. ASSUME NEW t \in Threads, CloseWindow(t)
        PROVE  WindowOK'
    <2>1. Counted(EmptyWindow, Ages) /\ window' = EmptyWindow
      BY <1>5, CountedEmpty DEF CloseWindow
    <2>2. EmptyWindow = [entries |-> EmptyWindow.entries, failures |-> EmptyWindow.failures]
      BY DEF EmptyWindow
    <2>. QED
      BY <2>1, <2>2, WindowOKFromCounted DEF WindowOK
  <1>6. \/ UNCHANGED window \/ Tick
        \/ \E t \in Threads : RecordPush(t) \/ ErrorRate(t) \/ CloseWindow(t)
    BY DEF Next, CallStep, vars, shared, Check, CheckLoadOpened, CheckElapsed, CheckCas,
       CheckReread, CheckClearFast, ProbeNow, ProbeAdd, ProbeClaim, ProbeSub, ProbeLease,
       ProbeReclaim, Record, Abandon, TripState, TripOpenedAt, TripProbes, TripMirror,
       CloseState, CloseProbes, CloseMirror
  <1>. QED
    BY <1>1, <1>2, <1>3, <1>4, <1>5, <1>6

\* The rest of TypeOK: the atomics and each call's locals.
AtomicsOK ==
  /\ state \in {"Closed", "Open", "HalfOpen"}
  /\ opened \in 0..Old /\ claimed \in 0..Old
  /\ probes \in 0..(Wrap - 1)
  /\ fast \in BOOLEAN

LocalsOK ==
  /\ pc \in [Threads -> Pcs]
  /\ seen \in [Threads -> 0..Old] /\ now \in [Threads -> 0..MaxStall]
  /\ failing \in [Threads -> BOOLEAN]
  /\ probeAge \in [Threads -> 0..NoProbe]
  /\ stall \in [Threads -> 0..MaxStall]
  /\ faults \in 0..MaxFaults
  /\ serial \in BOOLEAN

LEMMA TypeParts == TypeOK <=>
  /\ AtomicsOK /\ LocalsOK /\ Len(window.entries) <= MaxEntries
  /\ window \in [entries : Seq([age : Ages, failure : BOOLEAN]), failures : 0..MaxEntries]
  BY DEF TypeOK, AtomicsOK, LocalsOK, Ages

LEMMA PcNames ==
  {"idle", "flight", "elapsed", "cas", "reread", "clear", "now", "reclaim", "trip"} \subseteq Pcs
  BY DEF Pcs

CallOK ==
  /\ pc \in [Threads -> Pcs]
  /\ seen \in [Threads -> 0..Old] /\ now \in [Threads -> 0..MaxStall]
  /\ failing \in [Threads -> BOOLEAN] /\ stall \in [Threads -> 0..MaxStall]

\* A call that goes on, and one that returns.
LEMMA GotoOK ==
  ASSUME CallOK, NEW t \in Threads, NEW next \in Pcs, Goto(t, next), UNCHANGED locals
  PROVE  CallOK'
  BY DEF CallOK, Goto, locals

LEMMA ReturnOK ==
  ASSUME CallOK, NEW t \in Threads, NEW next \in Pcs, Return(t, next)
  PROVE  CallOK'
  BY Bounds DEF CallOK, Goto, Return

LEMMA AtomicsStep ==
  ASSUME AtomicsOK, LocalsOK, [Next]_vars
  PROVE  AtomicsOK'
  <1> USE Bounds DEF AtomicsOK, shared
  <1>1. CASE UNCHANGED vars
    BY <1>1 DEF vars
  <1>2. CASE Tick
    BY <1>2 DEF Tick, Older
  <1>3. ASSUME NEW t \in Threads,
               Check(t) \/ Record(t) \/ Abandon(t) \/ ErrorRate(t)
        PROVE  AtomicsOK'
    BY <1>3 DEF Check, Record, Abandon, ErrorRate
  <1>4. ASSUME NEW t \in Threads, CallStep(t)
        PROVE  AtomicsOK'
    <2>1. now[t] \in 0..MaxStall
      BY DEF LocalsOK
    <2>2. CASE CheckLoadOpened(t) \/ CheckElapsed(t) \/ CheckReread(t) \/ ProbeNow(t)
               \/ ProbeLease(t) \/ RecordPush(t)
      <3>1. CASE CheckLoadOpened(t)
        BY <3>1 DEF CheckLoadOpened
      <3>2. CASE CheckElapsed(t)
        BY <3>2 DEF CheckElapsed
      <3>3. CASE CheckReread(t)
        BY <3>3 DEF CheckReread
      <3>4. CASE ProbeNow(t)
        BY <3>4 DEF ProbeNow
      <3>5. CASE ProbeLease(t)
        BY <3>5 DEF ProbeLease
      <3>6. CASE RecordPush(t)
        BY <3>6 DEF RecordPush
      <3>. QED
        BY <2>2, <3>1, <3>2, <3>3, <3>4, <3>5, <3>6
    <2>3. CASE CheckCas(t) \/ CheckClearFast(t)
      <3>1. CASE CheckCas(t)
        BY <3>1 DEF CheckCas
      <3>2. CASE CheckClearFast(t)
        BY <3>2 DEF CheckClearFast
      <3>. QED
        BY <2>3, <3>1, <3>2
    <2>4. CASE ProbeAdd(t)
      BY <2>4 DEF ProbeAdd
    <2>5. CASE ProbeSub(t)
      BY <2>5 DEF ProbeSub
    <2>6. CASE ProbeClaim(t) \/ ProbeReclaim(t)
      <3>1. CASE ProbeClaim(t)
        BY <2>1, <3>1 DEF ProbeClaim, Admit
      <3>2. CASE ProbeReclaim(t)
        BY <2>1, <3>2 DEF ProbeReclaim, Admit
      <3>. QED
        BY <2>6, <3>1, <3>2
    <2>7. CASE TripState(t) \/ TripOpenedAt(t) \/ TripProbes(t) \/ TripMirror(t)
      <3>1. CASE TripState(t)
        BY <2>1, <3>1 DEF TripState
      <3>2. CASE TripOpenedAt(t)
        BY <2>1, <3>2 DEF TripOpenedAt
      <3>3. CASE TripProbes(t)
        BY <2>1, <3>3 DEF TripProbes
      <3>4. CASE TripMirror(t)
        BY <2>1, <3>4 DEF TripMirror
      <3>. QED
        BY <2>7, <3>1, <3>2, <3>3, <3>4
    <2>8. CASE CloseState(t) \/ CloseWindow(t) \/ CloseProbes(t) \/ CloseMirror(t)
      <3>1. CASE CloseState(t)
        BY <3>1 DEF CloseState
      <3>2. CASE CloseWindow(t)
        BY <3>2 DEF CloseWindow
      <3>3. CASE CloseProbes(t)
        BY <3>3 DEF CloseProbes
      <3>4. CASE CloseMirror(t)
        BY <3>4 DEF CloseMirror
      <3>. QED
        BY <2>8, <3>1, <3>2, <3>3, <3>4
    <2>. QED
      BY <1>4, <2>2, <2>3, <2>4, <2>5, <2>6, <2>7, <2>8 DEF CallStep
  <1>. QED
    BY <1>1, <1>2, <1>3, <1>4 DEF Next

LEMMA LocalsStep ==
  ASSUME AtomicsOK, LocalsOK, [Next]_vars
  PROVE  LocalsOK'
  <1>0. CallOK
    BY DEF LocalsOK, CallOK
  <1> USE Bounds DEF AtomicsOK, LocalsOK, locals, budgets, Goto, Return, Pcs
  <1>1. CASE UNCHANGED vars
    BY <1>1 DEF vars
  <1>2. CASE Tick
    BY <1>2 DEF Tick, Older
  <1>3. ASSUME NEW t \in Threads,
               Check(t) \/ Record(t) \/ Abandon(t) \/ ErrorRate(t)
        PROVE  LocalsOK'
    <2>1. CASE Check(t) \/ ErrorRate(t)
      <3>1. CASE Check(t)
        BY <3>1 DEF Check
      <3>2. CASE ErrorRate(t)
        BY <3>2 DEF ErrorRate
      <3>. QED
        BY <2>1, <3>1, <3>2
    <2>2. CASE Record(t)
      BY <2>2 DEF Record
    <2>3. CASE Abandon(t)
      BY <2>3 DEF Abandon
    <2>. QED
      BY <1>3, <2>1, <2>2, <2>3
  <1>4. ASSUME NEW t \in Threads, CallStep(t)
        PROVE  LocalsOK'
    <2>1. CASE CheckLoadOpened(t) \/ CheckElapsed(t) \/ CheckCas(t)
      <3>1. CASE CheckLoadOpened(t)
        BY <3>1 DEF CheckLoadOpened
      <3>2. CASE CheckElapsed(t)
        <4>1. CallOK'
          BY <1>0, <3>2, GotoOK, ReturnOK, PcNames DEF CheckElapsed
        <4>. QED
          BY <3>2, <4>1 DEF CheckElapsed, CallOK
      <3>3. CASE CheckCas(t)
        BY <3>3 DEF CheckCas
      <3>. QED
        BY <2>1, <3>1, <3>2, <3>3
    <2>2. CASE CheckReread(t) \/ CheckClearFast(t)
      <3>1. CASE CheckReread(t)
        <4>1. CallOK'
          BY <1>0, <3>1, GotoOK, ReturnOK, PcNames DEF CheckReread, AtomicsOK
        <4>. QED
          BY <3>1, <4>1 DEF CheckReread, CallOK
      <3>2. CASE CheckClearFast(t)
        BY <3>2 DEF CheckClearFast
      <3>. QED
        BY <2>2, <3>1, <3>2
    <2>3. CASE ProbeNow(t) \/ ProbeAdd(t) \/ ProbeSub(t)
      <3>1. CASE ProbeNow(t)
        BY <3>1 DEF ProbeNow
      <3>2. CASE ProbeAdd(t)
        BY <3>2 DEF ProbeAdd
      <3>3. CASE ProbeSub(t)
        BY <3>3 DEF ProbeSub
      <3>. QED
        BY <2>3, <3>1, <3>2, <3>3
    <2>4. CASE ProbeClaim(t)
      BY <2>4 DEF ProbeClaim, Admit
    <2>5. CASE ProbeLease(t)
      <3>1. CallOK'
        <4>1. CASE claimed >= now[t] + OpenFor
          BY <2>5, <4>1, PcNames DEF ProbeLease, CallOK
        <4>2. CASE ~(claimed >= now[t] + OpenFor)
          BY <1>0, <2>5, <4>2, ReturnOK, PcNames DEF ProbeLease
        <4>. QED
          BY <4>1, <4>2
      <3>. QED
        BY <2>5, <3>1 DEF ProbeLease, CallOK
    <2>6. CASE ProbeReclaim(t)
      <3>1. Return(t, "flight") \/ Return(t, "idle")
        BY <2>6 DEF ProbeReclaim, Admit
      <3>2. CallOK'
        BY <1>0, <3>1, ReturnOK, PcNames
      <3>3. now[t] \in 0..NoProbe
        OBVIOUS
      <3>. QED
        BY <2>6, <3>2, <3>3 DEF ProbeReclaim, Admit, CallOK
    <2>7. CASE RecordPush(t)
      <3>1. Return(t, "idle") \/ (Goto(t, "trip") /\ UNCHANGED locals)
        BY <2>7 DEF RecordPush
      <3>2. CallOK'
        BY <1>0, <3>1, GotoOK, ReturnOK, PcNames
      <3>. QED
        BY <2>7, <3>2 DEF RecordPush, CallOK
    <2>8. CASE TripState(t) \/ TripOpenedAt(t) \/ TripProbes(t) \/ TripMirror(t)
      <3>1. CASE TripState(t)
        BY <3>1 DEF TripState
      <3>2. CASE TripOpenedAt(t)
        BY <3>2 DEF TripOpenedAt
      <3>3. CASE TripProbes(t)
        BY <3>3 DEF TripProbes
      <3>4. CASE TripMirror(t)
        BY <3>4 DEF TripMirror
      <3>. QED
        BY <2>8, <3>1, <3>2, <3>3, <3>4
    <2>9. CASE CloseState(t) \/ CloseWindow(t) \/ CloseProbes(t) \/ CloseMirror(t)
      <3>1. CASE CloseState(t)
        BY <3>1 DEF CloseState
      <3>2. CASE CloseWindow(t)
        BY <3>2 DEF CloseWindow
      <3>3. CASE CloseProbes(t)
        BY <3>3 DEF CloseProbes
      <3>4. CASE CloseMirror(t)
        BY <3>4 DEF CloseMirror
      <3>. QED
        BY <2>9, <3>1, <3>2, <3>3, <3>4
    <2>. QED
      BY <1>4, <2>1, <2>2, <2>3, <2>4, <2>5, <2>6, <2>7, <2>8, <2>9 DEF CallStep
  <1>. QED
    BY <1>1, <1>2, <1>3, <1>4 DEF Next

LEMMA InitTyped == Init => TypeOK /\ WindowOK
  <1> SUFFICES ASSUME Init PROVE TypeOK /\ WindowOK
    OBVIOUS
  <1>1. WindowOK
    <2>1. Counted(EmptyWindow, Ages) /\ window = EmptyWindow
      BY CountedEmpty DEF Init
    <2>2. EmptyWindow = [entries |-> EmptyWindow.entries, failures |-> EmptyWindow.failures]
      BY DEF EmptyWindow
    <2>. QED
      BY <2>1, <2>2, WindowOKFromCounted DEF WindowOK
  <1>2. AtomicsOK /\ LocalsOK
    <2>1. AtomicsOK
      <3>1. 0 \in 0..Old /\ 0 \in 0..(Wrap - 1)
        BY Bounds
      <3>2. state = "Closed" /\ probes = 0 /\ fast = FALSE /\ opened = 0 /\ claimed = 0
        BY DEF Init
      <3>. QED
        BY <3>1, <3>2 DEF AtomicsOK
    <2>2. "idle" \in Pcs
      BY DEF Pcs
    <2>3. serial \in BOOLEAN
      BY BreakerAssumption DEF Init
    <2>4. LocalsOK
      BY Bounds, <2>2, <2>3 DEF Init, LocalsOK
    <2>. QED
      BY <2>1, <2>4
  <1>. QED
    BY <1>1, <1>2, TypeParts DEF WindowOK, Counted

\* The atomics keep their ranges and the window its count, whatever interleaves.
LEMMA TypedInvariant == Spec => [](TypeOK /\ WindowOK)
  <1>1. (TypeOK /\ WindowOK) /\ [Next]_vars => (TypeOK /\ WindowOK)'
    <2> SUFFICES ASSUME TypeOK, WindowOK, [Next]_vars
                 PROVE  TypeOK' /\ WindowOK'
      OBVIOUS
    <2>1. WindowOK'
      BY WindowStep
    <2>2. AtomicsOK /\ LocalsOK
      BY TypeParts
    <2>3. AtomicsOK' /\ LocalsOK'
      BY <2>2, AtomicsStep, LocalsStep
    <2>4. TypeOK'
      BY <2>1, <2>3 DEF WindowOK, Counted, TypeOK, AtomicsOK, LocalsOK, Ages
    <2>. QED
      BY <2>1, <2>4
  <1>. QED
    BY InitTyped, <1>1, PTL DEF Spec

\* Every atomic keeps its range, for any number of threads: half_open_probes wraps
\* and never leaves the usize, and the window's count never underflows.
THEOREM AtomicsInRange == Spec => []TypeOK
  BY TypedInvariant, PTL

\* The count window.rs keeps through push, the cap, evict and clear is the number
\* of failures in the window, whatever the order of the timestamps.
THEOREM CountIsExact == Spec => []WindowCountsFailures
  <1>1. WindowOK => WindowCountsFailures
    BY DEF WindowOK, Counted, WindowCountsFailures
  <1>. QED
    BY <1>1, TypedInvariant, PTL

-----------------------------------------------------------------------------
(***************************************************************************)
(* Calls that do not overlap.  SerialAgreement only speaks of the moments  *)
(* between calls; it is inductive with what holds at each step of the one  *)
(* call under way.                                                         *)
(***************************************************************************)

Alone == \A t, u \in Threads : InCall(t) /\ InCall(u) => t = u

Agree ==
  /\ fast <=> (state = "Open")
  /\ state = "HalfOpen" <=> probes > 0
  /\ probes <= MaxProbes

\* What the atomics say when the call under way is about to take step p; "idle"
\* and "flight" stand for the moments between calls.
Stage(p) ==
  /\ p \in {"idle", "flight"} => Agree
  /\ p \in {"opened", "elapsed", "cas"} => state = "Open" /\ fast /\ probes = 0
  /\ p # "reread"
  /\ p = "clear" => state = "HalfOpen" /\ fast /\ probes = 0
  /\ p \in {"now", "add"} => state = "HalfOpen" /\ ~fast /\ probes <= MaxProbes
  /\ p = "claim" => state = "HalfOpen" /\ ~fast /\ probes \in 1..MaxProbes
  /\ p = "sub" => state = "HalfOpen" /\ ~fast /\ probes = MaxProbes + 1
  /\ p \in {"lease", "reclaim"} => state = "HalfOpen" /\ ~fast /\ probes = MaxProbes
  /\ p = "push" => state = "Closed" /\ ~fast /\ probes = 0
  /\ p = "pushopen" => state = "Open" /\ fast /\ probes = 0
  /\ p = "trip" => state # "Open" /\ ~fast
  /\ p \in {"openedat", "noprobes"} => state = "Open" /\ ~fast
  /\ p = "mirror" => state = "Open" /\ ~fast /\ probes = 0
  /\ p = "close" => state = "HalfOpen" /\ ~fast
  /\ p \in {"drain", "unprobe"} => state = "Closed" /\ ~fast
  /\ p = "unmirror" => state = "Closed" /\ ~fast /\ probes = 0

SerialInv ==
  serial => /\ Alone
            /\ \A t \in Threads : InCall(t) => Stage(pc[t])
            /\ Quiet => Agree

\* The requests that count as running probes.
Young == {t \in Threads : probeAge[t] < OpenFor}

\* The slots taken, at step p: admissions are never younger than the last claim,
\* nor, while Open, than the trip.
Slots(p) ==
  /\ Cardinality(Young) <= MaxProbes
  /\ p \in {"claim", "sub"} => Cardinality(Young) < probes
  /\ state = "HalfOpen" /\ p \notin {"trip", "close", "claim", "sub"}
       => Cardinality(Young) <= probes
  /\ \A u \in Young : claimed <= probeAge[u]
  /\ state = "Open" /\ p # "openedat" => \A u \in Young : opened <= probeAge[u]

\* The clock readings and timestamps the call under way works with at step p.
Readings(t, p) ==
  /\ p \in {"add", "claim", "sub", "lease", "reclaim"}
       => now[t] <= claimed /\ \A u \in Young : now[t] <= probeAge[u]
  /\ p = "openedat" => \A u \in Young : now[t] <= probeAge[u]
  /\ p = "elapsed" => seen[t] <= opened
  /\ p = "cas" => opened >= OpenFor
  /\ p = "reclaim" => claimed >= OpenFor

SlotInv ==
  serial => /\ \A t \in Threads : InCall(t) => Slots(pc[t]) /\ Readings(t, pc[t])
            /\ Quiet => Slots("idle")

-----------------------------------------------------------------------------
(* SerialAgreement.                                                        *)

LEMMA Modulo ==
  ASSUME NEW n \in Nat, NEW w \in Nat, w > 0
  PROVE  /\ n < w => n % w = n
         /\ n > 0 /\ n <= w => (n + w - 1) % w = n - 1
  OBVIOUS

\* The usize has room for the slots and one thread's claim on top.
LEMMA Room ==
  ASSUME NEW t \in Threads
  PROVE  Wrap > MaxProbes + 1
  <1>1. IsFiniteSet(Threads) /\ Cardinality(Threads) \in Nat
    BY Bounds, FS_CardinalityType
  <1>2. Cardinality(Threads) # 0
    BY <1>1, FS_EmptySet
  <1>. QED
    BY <1>1, <1>2, BreakerAssumption

LEMMA OthersOut ==
  ASSUME SerialInv, serial, NEW t \in Threads, InCall(t) \/ Quiet
  PROVE  \A u \in Threads \ {t} : ~InCall(u)
  BY DEF SerialInv, Alone, Quiet

\* The call of t takes a step to next, and nobody else is in a call.
LEMMA SerialMove ==
  ASSUME LocalsOK, serial, NEW t \in Threads, NEW next \in Pcs, Goto(t, next),
         \A u \in Threads \ {t} : ~InCall(u), Stage(next)'
  PROVE  SerialInv'
  <1>1. pc'[t] = next /\ \A u \in Threads \ {t} : pc'[u] = pc[u]
    BY DEF LocalsOK, Goto
  <1>2. \A u \in Threads \ {t} : ~InCall(u)'
    BY <1>1 DEF InCall
  <1>3. Quiet' => next \in {"idle", "flight"}
    BY <1>1 DEF Quiet, InCall
  <1>. QED
    BY <1>1, <1>2, <1>3 DEF SerialInv, Alone, Stage

\* A call's first step.
LEMMA StageOpens ==
  ASSUME AtomicsOK, LocalsOK, serial, NEW t \in Threads, Quiet, Agree,
         Check(t) \/ Record(t)
  PROVE  \E next \in Pcs : Goto(t, next) /\ Stage(next)'
  <1>1. UNCHANGED shared
    BY DEF Check, Record
  <1>2. CASE Check(t) /\ state = "Closed"
    BY <1>1, <1>2 DEF Check, Agree, Stage, Pcs, shared
  <1>3. CASE Check(t) /\ state = "Open"
    BY <1>1, <1>3 DEF Check, Agree, Stage, Pcs, shared, AtomicsOK
  <1>4. CASE Check(t) /\ state = "HalfOpen"
    BY <1>1, <1>4 DEF Check, Agree, Stage, Pcs, shared
  <1>5. CASE Record(t) /\ state = "Closed"
    BY <1>1, <1>5 DEF Record, Agree, Stage, Pcs, shared, AtomicsOK
  <1>6. CASE Record(t) /\ state = "Open"
    BY <1>1, <1>6 DEF Record, Agree, Stage, Pcs, shared, AtomicsOK
  <1>7. CASE Record(t) /\ state = "HalfOpen"
    <2>1. Goto(t, "trip") \/ Goto(t, "close")
      BY <1>7 DEF Record
    <2>2. Stage("trip")' /\ Stage("close")'
      BY <1>1, <1>7 DEF Agree, Stage, shared
    <2>. QED
      BY <2>1, <2>2 DEF Pcs
  <1>. QED
    BY <1>2, <1>3, <1>4, <1>5, <1>6, <1>7 DEF AtomicsOK

\* Every later step of a call.
LEMMA StageGoesOn ==
  ASSUME AtomicsOK, LocalsOK, serial, NEW t \in Threads, Stage(pc[t]), CallStep(t)
  PROVE  \E next \in Pcs : Goto(t, next) /\ Stage(next)'
  <1> USE Bounds DEF AtomicsOK, shared, Pcs
  <1>1. CASE CheckLoadOpened(t)
    <2>1. Goto(t, "elapsed")
      BY <1>1 DEF CheckLoadOpened
    <2>2. Stage("elapsed")'
      BY <1>1 DEF CheckLoadOpened, Stage, Agree
    <2>. QED
      BY <2>1, <2>2
  <1>2. CASE CheckElapsed(t)
    <2>1. Goto(t, "cas") \/ Goto(t, "idle")
      BY <1>2 DEF CheckElapsed, Return
    <2>2. Stage("cas")' /\ Stage("idle")'
      BY <1>2 DEF CheckElapsed, Stage, Agree
    <2>. QED
      BY <2>1, <2>2
  <1>3. CASE CheckCas(t)
    <2>1. Goto(t, "clear")
      BY <1>3 DEF CheckCas, Stage
    <2>2. Stage("clear")'
      BY <1>3 DEF CheckCas, Stage, Agree
    <2>. QED
      BY <2>1, <2>2
  <1>4. CASE CheckClearFast(t)
    <2>1. Goto(t, "now")
      BY <1>4 DEF CheckClearFast
    <2>2. Stage("now")'
      BY <1>4 DEF CheckClearFast, Stage, Agree
    <2>. QED
      BY <2>1, <2>2
  <1>5. CASE ProbeNow(t)
    <2>1. Goto(t, "add")
      BY <1>5 DEF ProbeNow
    <2>2. Stage("add")'
      BY <1>5 DEF ProbeNow, Stage, Agree
    <2>. QED
      BY <2>1, <2>2
  <1>6. CASE ProbeClaim(t)
    <2>1. Goto(t, "flight")
      BY <1>6 DEF ProbeClaim, Return, Admit
    <2>2. Stage("flight")'
      BY <1>6 DEF ProbeClaim, Stage, Agree, Admit
    <2>. QED
      BY <2>1, <2>2
  <1>7. CASE ProbeSub(t)
    <2>1. Goto(t, "lease")
      BY <1>7 DEF ProbeSub
    <2>2. Stage("lease")'
      BY Modulo, Room, <1>7 DEF ProbeSub, Stage, Agree
    <2>. QED
      BY <2>1, <2>2
  <1>8. CASE ProbeLease(t)
    <2>1. Goto(t, "reclaim") \/ Goto(t, "idle")
      BY <1>8 DEF ProbeLease, Return
    <2>2. Stage("reclaim")' /\ Stage("idle")'
      BY <1>8 DEF ProbeLease, Stage, Agree
    <2>. QED
      BY <2>1, <2>2
  <1>9. CASE ProbeReclaim(t)
    <2>1. Goto(t, "flight") \/ Goto(t, "idle")
      BY <1>9 DEF ProbeReclaim, Return, Admit
    <2>2. Stage("flight")' /\ Stage("idle")'
      BY <1>9 DEF ProbeReclaim, Stage, Agree, Admit
    <2>. QED
      BY <2>1, <2>2
  <1>10. CASE TripState(t)
    <2>1. Goto(t, "openedat")
      BY <1>10 DEF TripState
    <2>2. Stage("openedat")'
      BY <1>10 DEF TripState, Stage, Agree
    <2>. QED
      BY <2>1, <2>2
  <1>11. CASE TripOpenedAt(t)
    <2>1. Goto(t, "noprobes")
      BY <1>11 DEF TripOpenedAt
    <2>2. Stage("noprobes")'
      BY <1>11 DEF TripOpenedAt, Stage, Agree
    <2>. QED
      BY <2>1, <2>2
  <1>12. CASE TripProbes(t)
    <2>1. Goto(t, "mirror")
      BY <1>12 DEF TripProbes
    <2>2. Stage("mirror")'
      BY <1>12 DEF TripProbes, Stage, Agree
    <2>. QED
      BY <2>1, <2>2
  <1>13. CASE TripMirror(t)
    <2>1. Goto(t, "idle")
      BY <1>13 DEF TripMirror, Return
    <2>2. Stage("idle")'
      BY <1>13 DEF TripMirror, Stage, Agree
    <2>. QED
      BY <2>1, <2>2
  <1>14. CASE CloseState(t)
    <2>1. Goto(t, "drain")
      BY <1>14 DEF CloseState
    <2>2. Stage("drain")'
      BY <1>14 DEF CloseState, Stage, Agree
    <2>. QED
      BY <2>1, <2>2
  <1>15. CASE CloseWindow(t)
    <2>1. Goto(t, "unprobe")
      BY <1>15 DEF CloseWindow
    <2>2. Stage("unprobe")'
      BY <1>15 DEF CloseWindow, Stage, Agree
    <2>. QED
      BY <2>1, <2>2
  <1>16. CASE CloseProbes(t)
    <2>1. Goto(t, "unmirror")
      BY <1>16 DEF CloseProbes
    <2>2. Stage("unmirror")'
      BY <1>16 DEF CloseProbes, Stage, Agree
    <2>. QED
      BY <2>1, <2>2
  <1>17. CASE CloseMirror(t)
    <2>1. Goto(t, "idle")
      BY <1>17 DEF CloseMirror, Return
    <2>2. Stage("idle")'
      BY <1>17 DEF CloseMirror, Stage, Agree
    <2>. QED
      BY <2>1, <2>2
  <1>18. CASE ProbeAdd(t)
    <2>1. CASE probes < MaxProbes
      <3>1. Goto(t, "claim")
        BY <1>18, <2>1 DEF ProbeAdd
      <3>2. Stage("claim")'
        BY <1>18, <2>1, Modulo, Room DEF ProbeAdd, Stage
      <3>. QED
        BY <3>1, <3>2
    <2>2. CASE ~(probes < MaxProbes)
      <3>1. Goto(t, "sub")
        BY <1>18, <2>2 DEF ProbeAdd
      <3>2. Stage("sub")'
        BY <1>18, <2>2, Modulo, Room DEF ProbeAdd, Stage
      <3>. QED
        BY <3>1, <3>2
    <2>. QED
      BY <2>1, <2>2
  <1>19. CASE RecordPush(t)
    <2>1. Goto(t, "idle") \/ (pc[t] = "push" /\ Goto(t, "trip"))
      BY <1>19 DEF RecordPush, Return
    <2>2. Stage("idle")' /\ (pc[t] = "push" => Stage("trip")')
      BY <1>19 DEF RecordPush, Stage, Agree
    <2>. QED
      BY <2>1, <2>2
  <1>20. ~CheckReread(t)
    BY DEF CheckReread, Stage
  <1>. QED
    BY <1>1, <1>2, <1>3, <1>4, <1>5, <1>6, <1>7, <1>8, <1>9, <1>10, <1>11, <1>12, <1>13, <1>14, <1>15, <1>16, <1>17, <1>18, <1>19, <1>20 DEF CallStep

\* Steps outside the calls and the clock leave what the calls rely on alone.
LEMMA SerialRest ==
  ASSUME LocalsOK, SerialInv,
         UNCHANGED <<state, probes, fast, serial>>,
         \/ UNCHANGED pc
         \/ \E t \in Threads : pc[t] = "flight" /\ Goto(t, "idle")
  PROVE  SerialInv'
  <1>1. \A u \in Threads : (pc'[u] = pc[u]) \/ (pc[u] = "flight" /\ pc'[u] = "idle")
    BY DEF Goto, LocalsOK
  <1>2. \A u \in Threads : InCall(u)' <=> InCall(u)
    BY <1>1 DEF InCall
  <1>3. \A u \in Threads : InCall(u) => pc'[u] = pc[u]
    BY <1>1 DEF InCall
  <1>4. Agree' <=> Agree
    BY DEF Agree
  <1>5. Quiet' <=> Quiet
    BY <1>2 DEF Quiet
  <1>6. ASSUME NEW u \in Threads, serial, InCall(u)
        PROVE  Stage(pc[u])'
    BY <1>3, <1>6 DEF SerialInv, Stage, Agree
  <1>. QED
    BY <1>2, <1>3, <1>4, <1>5, <1>6 DEF SerialInv, Alone

LEMMA SerialStep ==
  ASSUME AtomicsOK, LocalsOK, SerialInv, [Next]_vars
  PROVE  SerialInv'
  <1>1. CASE UNCHANGED vars
    BY <1>1, SerialRest DEF vars
  <1>2. CASE Tick
    BY <1>2, SerialRest DEF Tick, budgets
  <1>3. ASSUME NEW t \in Threads, Abandon(t) \/ ErrorRate(t)
        PROVE  SerialInv'
    BY <1>3, SerialRest DEF Abandon, ErrorRate, shared, budgets
  <1>4. ASSUME NEW t \in Threads, Check(t) \/ Record(t) \/ CallStep(t)
        PROVE  SerialInv'
    <2>1. serial' = serial
      BY <1>4 DEF Check, Record, CallStep, budgets, CheckLoadOpened, CheckElapsed,
         CheckCas, CheckReread, CheckClearFast, ProbeNow, ProbeAdd, ProbeClaim, ProbeSub,
         ProbeLease, ProbeReclaim, RecordPush, TripState, TripOpenedAt, TripProbes,
         TripMirror, CloseState, CloseWindow, CloseProbes, CloseMirror
    <2>2. SUFFICES ASSUME serial PROVE SerialInv'
      BY <2>1 DEF SerialInv
    <2>3. CASE Check(t) \/ Record(t)
      <3>1. Quiet
        BY <2>2, <2>3 DEF Check, Record, MayCall
      <3>2. PICK next \in Pcs : Goto(t, next) /\ Stage(next)'
        BY <2>2, <2>3, <3>1, StageOpens DEF SerialInv
      <3>. QED
        BY <2>2, <3>1, <3>2, OthersOut, SerialMove
    <2>4. CASE CallStep(t)
      <3>1. InCall(t)
        BY <2>4 DEF InCall, CallStep, CheckLoadOpened, CheckElapsed,
           CheckCas, CheckReread, CheckClearFast, ProbeNow, ProbeAdd, ProbeClaim, ProbeSub,
           ProbeLease, ProbeReclaim, RecordPush, TripState, TripOpenedAt, TripProbes,
           TripMirror, CloseState, CloseWindow, CloseProbes, CloseMirror
      <3>2. PICK next \in Pcs : Goto(t, next) /\ Stage(next)'
        BY <2>2, <2>4, <3>1, StageGoesOn DEF SerialInv
      <3>. QED
        BY <2>2, <3>1, <3>2, OthersOut, SerialMove
    <2>. QED
      BY <1>4, <2>3, <2>4
  <1>. QED
    BY <1>1, <1>2, <1>3, <1>4 DEF Next

LEMMA SerialInit == Init => SerialInv
  <1> SUFFICES ASSUME Init PROVE SerialInv
    OBVIOUS
  <1>1. \A t \in Threads : ~InCall(t)
    BY DEF Init, InCall
  <1>2. Agree
    BY Bounds DEF Init, Agree
  <1>. QED
    BY <1>1, <1>2 DEF SerialInv, Alone

LEMMA SerialInvariant == Spec => [](AtomicsOK /\ LocalsOK /\ SerialInv)
  <1>1. TypeOK => AtomicsOK /\ LocalsOK
    BY TypeParts
  <1>2. SerialInv /\ TypeOK /\ [Next]_vars => SerialInv'
    BY <1>1, SerialStep
  <1>. QED
    BY <1>1, <1>2, SerialInit, AtomicsInRange, PTL DEF Spec

\* Between calls that do not overlap, is_open_fast says state == Open, and half-open
\* slots are claimed in HalfOpen only, at least one and no more than there are, for
\* any number of threads and slots.
THEOREM MirrorAgrees == Spec => []SerialAgreement
  <1>1. SerialInv => SerialAgreement
    BY DEF SerialInv, SerialAgreement, Agree
  <1>. QED
    BY <1>1, SerialInvariant, PTL

-----------------------------------------------------------------------------
(* SerialProbeSlots.                                                       *)

LEMMA YoungCounted ==
  /\ IsFiniteSet(Young) /\ Cardinality(Young) \in Nat
  /\ Young = {} => Cardinality(Young) = 0
  <1>1. IsFiniteSet(Young)
    BY Bounds, FS_Subset DEF Young
  <1>. QED
    BY <1>1, FS_CardinalityType, FS_EmptySet

LEMMA YoungKept ==
  ASSUME UNCHANGED probeAge
  PROVE  Young' = Young
  BY DEF Young

\* Requests end and admissions grow old.
LEMMA YoungShrinks ==
  ASSUME \A u \in Threads : probeAge'[u] < OpenFor => probeAge[u] < OpenFor
  PROVE  /\ Young' \subseteq Young
         /\ Cardinality(Young)' \in Nat /\ Cardinality(Young)' <= Cardinality(Young)
  <1>1. Young' \subseteq Young
    BY DEF Young
  <1>2. IsFiniteSet(Young')
    BY <1>1, YoungCounted, FS_Subset
  <1>. QED
    BY <1>1, <1>2, YoungCounted, FS_Subset, FS_CardinalityType

\* An admission adds one.
LEMMA YoungAdmits ==
  ASSUME LocalsOK, NEW t \in Threads, NEW age, probeAge' = [probeAge EXCEPT ![t] = age]
  PROVE  /\ Young' \subseteq Young \union {t}
         /\ Cardinality(Young)' \in Nat /\ Cardinality(Young)' <= Cardinality(Young) + 1
         /\ \A u \in Young' : u # t => probeAge'[u] = probeAge[u]
         /\ probeAge'[t] = age
  <1>1. /\ \A u \in Threads : u # t => probeAge'[u] = probeAge[u]
        /\ probeAge'[t] = age
    BY DEF LocalsOK
  <1>2. Young' \subseteq Young \union {t}
    BY <1>1 DEF Young
  <1>3. /\ IsFiniteSet(Young \union {t})
        /\ Cardinality(Young \union {t}) <= Cardinality(Young) + 1
        /\ Cardinality(Young \union {t}) \in Nat
    <2>1. CASE t \in Young
      <3>1. Young \union {t} = Young
        BY <2>1
      <3>. QED
        BY <3>1, YoungCounted
    <2>2. CASE t \notin Young
      <3>1. /\ IsFiniteSet(Young \union {t})
            /\ Cardinality(Young \union {t}) = Cardinality(Young) + 1
        BY <2>2, YoungCounted, FS_AddElement
      <3>. QED
        BY <3>1, YoungCounted
    <2>. QED
      BY <2>1, <2>2
  <1>4. /\ IsFiniteSet(Young')
        /\ Cardinality(Young') <= Cardinality(Young \union {t})
    BY <1>2, <1>3, FS_Subset
  <1>5. Cardinality(Young') \in Nat
    BY <1>4, FS_CardinalityType
  <1>6. Cardinality(Young') <= Cardinality(Young) + 1
    BY <1>3, <1>4, <1>5, YoungCounted
  <1>7. \A u \in Young' : u # t => probeAge'[u] = probeAge[u]
    BY <1>1 DEF Young
  <1>. QED
    BY <1>1, <1>2, <1>5, <1>6, <1>7

LEMMA SlotMove ==
  ASSUME LocalsOK, serial, NEW t \in Threads, NEW next \in Pcs, Goto(t, next),
         \A u \in Threads \ {t} : ~InCall(u), Slots(next)', Readings(t, next)'
  PROVE  SlotInv'
  <1>1. pc'[t] = next /\ \A u \in Threads \ {t} : pc'[u] = pc[u]
    BY DEF LocalsOK, Goto
  <1>2. \A u \in Threads \ {t} : ~InCall(u)'
    BY <1>1 DEF InCall
  <1>3. Quiet' => next \in {"idle", "flight"}
    BY <1>1 DEF Quiet, InCall
  <1>4. next \in {"idle", "flight"} => Slots("idle")'
    BY DEF Slots
  <1>. QED
    BY <1>1, <1>2, <1>3, <1>4 DEF SlotInv

LEMMA SlotOpens ==
  ASSUME AtomicsOK, LocalsOK, serial, NEW t \in Threads, Slots("idle"),
         Check(t) \/ Record(t)
  PROVE  \E next \in Pcs : Goto(t, next) /\ Slots(next)' /\ Readings(t, next)'
  <1>1. UNCHANGED shared
    BY DEF Check, Record
  <1>2. \A u \in Threads : probeAge'[u] = probeAge[u] \/ probeAge'[u] = OpenFor
    BY Bounds DEF Check, Record, LocalsOK
  <1>3. /\ Young' \subseteq Young /\ Cardinality(Young)' \in Nat
        /\ Cardinality(Young)' <= Cardinality(Young)
        /\ \A u \in Young' : probeAge'[u] = probeAge[u]
    <2>1. \A u \in Threads : probeAge'[u] < OpenFor => probeAge[u] < OpenFor
      BY <1>2, Bounds
    <2>. QED
      BY <1>2, <2>1, YoungShrinks, Bounds DEF Young
  <1>4. ASSUME NEW next \in {"flight", "opened", "now", "push", "pushopen", "trip", "close"}
        PROVE  Slots(next)' /\ Readings(t, next)'
    BY <1>1, <1>3, YoungCounted, Bounds DEF Slots, Readings, shared, AtomicsOK
  <1>5. \E next \in {"flight", "opened", "now", "push", "pushopen", "trip", "close"} :
           Goto(t, next)
    <2>1. CASE state = "Closed"
      BY <2>1 DEF Check, Record
    <2>2. CASE state = "Open"
      BY <2>2 DEF Check, Record
    <2>3. CASE state = "HalfOpen"
      BY <2>3 DEF Check, Record
    <2>. QED
      BY <2>1, <2>2, <2>3 DEF AtomicsOK
  <1>. QED
    BY <1>4, <1>5 DEF Pcs

LEMMA SlotGoesOn ==
  ASSUME AtomicsOK, LocalsOK, serial, NEW t \in Threads, Stage(pc[t]), Slots(pc[t]),
         Readings(t, pc[t]), CallStep(t)
  PROVE  \E next \in Pcs : Goto(t, next) /\ Slots(next)' /\ Readings(t, next)'
  <1> DEFINE C == Cardinality(Young)
  <1>0. /\ C \in Nat /\ (Young = {} => C = 0)
        /\ now[t] \in Nat /\ now[t] < OpenFor
        /\ \A u \in Young : u \in Threads /\ probeAge[u] \in Nat /\ probeAge[u] < OpenFor
    BY YoungCounted, Bounds DEF LocalsOK, Young
  <1> HIDE DEF C
  <1> USE <1>0, Bounds DEF AtomicsOK, shared, Pcs
  <1>1. CASE CheckLoadOpened(t)
    <2>1. Young' = Young /\ C' = C /\ probeAge' = probeAge
      BY <1>1, YoungKept DEF CheckLoadOpened, C
    <2>2. Goto(t, "elapsed")
      BY <1>1 DEF CheckLoadOpened
    <2>3. Slots("elapsed")' /\ Readings(t, "elapsed")'
      BY <1>1, <2>1 DEF CheckLoadOpened, Slots, Readings, Stage, C, LocalsOK
    <2>. QED
      BY <2>2, <2>3
  <1>2. CASE CheckElapsed(t)
    <2>1. Young' = Young /\ C' = C /\ probeAge' = probeAge
      BY <1>2, YoungKept DEF CheckElapsed, C
    <2>2. CASE seen[t] >= OpenFor
      <3>1. Goto(t, "cas")
        BY <1>2, <2>2 DEF CheckElapsed
      <3>2. Slots("cas")' /\ Readings(t, "cas")'
        BY <1>2, <2>1, <2>2 DEF CheckElapsed, Slots, Readings, C, LocalsOK
      <3>. QED
        BY <3>1, <3>2
    <2>3. CASE ~(seen[t] >= OpenFor)
      <3>1. Goto(t, "idle")
        BY <1>2, <2>3 DEF CheckElapsed, Return
      <3>2. Slots("idle")' /\ Readings(t, "idle")'
        BY <1>2, <2>1, <2>3 DEF CheckElapsed, Slots, Readings, C
      <3>. QED
        BY <3>1, <3>2
    <2>. QED
      BY <2>2, <2>3
  <1>3. CASE CheckCas(t)
    <2>1. Young' = Young /\ C' = C /\ probeAge' = probeAge
      BY <1>3, YoungKept DEF CheckCas, C
    <2>2. Young = {}
      BY <1>3 DEF CheckCas, Stage, Slots, Readings
    <2>3. Goto(t, "clear")
      BY <1>3 DEF CheckCas, Stage
    <2>4. Slots("clear")' /\ Readings(t, "clear")'
      BY <1>3, <2>1, <2>2 DEF CheckCas, Slots, Readings, C
    <2>. QED
      BY <2>3, <2>4
  <1>4. CASE CheckClearFast(t)
    <2>1. Young' = Young /\ C' = C /\ probeAge' = probeAge
      BY <1>4, YoungKept DEF CheckClearFast, C
    <2>2. Goto(t, "now")
      BY <1>4 DEF CheckClearFast
    <2>3. Slots("now")' /\ Readings(t, "now")'
      BY <1>4, <2>1 DEF CheckClearFast, Slots, Readings, Stage, C
    <2>. QED
      BY <2>2, <2>3
  <1>5. CASE ProbeNow(t)
    <2>1. Young' = Young /\ C' = C /\ probeAge' = probeAge
      BY <1>5, YoungKept DEF ProbeNow, C
    <2>2. Goto(t, "add")
      BY <1>5 DEF ProbeNow
    <2>3. Slots("add")' /\ Readings(t, "add")'
      BY <1>5, <2>1 DEF ProbeNow, Slots, Readings, Stage, C, LocalsOK
    <2>. QED
      BY <2>2, <2>3
  <1>6. CASE ProbeAdd(t)
    <2>1. Young' = Young /\ C' = C /\ probeAge' = probeAge
      BY <1>6, YoungKept DEF ProbeAdd, C
    <2>2. probes' = probes + 1 /\ state = "HalfOpen" /\ UNCHANGED <<state, claimed, opened, now>>
      BY <1>6, Modulo, Room DEF ProbeAdd, Stage, locals
    <2>3. C <= probes /\ now[t] <= claimed /\ (\A u \in Young : now[t] <= probeAge[u])
      BY <1>6, <2>2 DEF ProbeAdd, Slots, Readings, C
    <2>4. Goto(t, "claim") \/ Goto(t, "sub")
      BY <1>6 DEF ProbeAdd
    <2>5. /\ Slots("claim")' /\ Readings(t, "claim")'
          /\ Slots("sub")' /\ Readings(t, "sub")'
      BY <1>6, <2>1, <2>2, <2>3 DEF ProbeAdd, Slots, Readings, C
    <2>. QED
      BY <2>4, <2>5
  <1>7. CASE ProbeClaim(t)
    <2>1. /\ probeAge' = [probeAge EXCEPT ![t] = now[t]] /\ claimed' = now[t]
          /\ Goto(t, "flight") /\ UNCHANGED <<state, probes, opened>>
      BY <1>7 DEF ProbeClaim, Admit, Return
    <2>2. /\ Young' \subseteq Young \union {t} /\ C' \in Nat /\ C' <= C + 1
          /\ probeAge'[t] = now[t] /\ \A u \in Young' : u # t => probeAge'[u] = probeAge[u]
      BY <2>1, YoungAdmits DEF C
    <2>3. /\ state = "HalfOpen" /\ probes <= MaxProbes /\ C < probes
          /\ \A u \in Young : now[t] <= probeAge[u]
      BY <1>7 DEF ProbeClaim, Stage, Slots, Readings, C
    <2>4. Slots("flight")' /\ Readings(t, "flight")'
      BY <2>1, <2>2, <2>3 DEF Slots, Readings, C
    <2>. QED
      BY <2>1, <2>4
  <1>8. CASE ProbeSub(t)
    <2>1. Young' = Young /\ C' = C /\ probeAge' = probeAge
      BY <1>8, YoungKept DEF ProbeSub, C
    <2>2. Goto(t, "lease")
      BY <1>8 DEF ProbeSub
    <2>3. Slots("lease")' /\ Readings(t, "lease")'
      BY <1>8, Modulo, Room, <2>1 DEF ProbeSub, Slots, Readings, Stage, C, locals
    <2>. QED
      BY <2>2, <2>3
  <1>9. CASE ProbeLease(t)
    <2>1. Young' = Young /\ C' = C /\ probeAge' = probeAge
      BY <1>9, YoungKept DEF ProbeLease, C
    <2>2. CASE claimed >= now[t] + OpenFor
      <3>1. Goto(t, "reclaim") /\ UNCHANGED now
        BY <1>9, <2>2 DEF ProbeLease
      <3>2. Slots("reclaim")' /\ Readings(t, "reclaim")'
        BY <1>9, <2>1, <2>2, <3>1 DEF ProbeLease, Slots, Readings, C
      <3>. QED
        BY <3>1, <3>2
    <2>3. CASE ~(claimed >= now[t] + OpenFor)
      <3>1. Goto(t, "idle")
        BY <1>9, <2>3 DEF ProbeLease, Return
      <3>2. Slots("idle")' /\ Readings(t, "idle")'
        BY <1>9, <2>1, <2>3 DEF ProbeLease, Slots, Readings, C
      <3>. QED
        BY <3>1, <3>2
    <2>. QED
      BY <2>2, <2>3
  <1>10. CASE ProbeReclaim(t)
    <2>1. CASE claimed = seen[t]
      <3>1. /\ probeAge' = [probeAge EXCEPT ![t] = now[t]] /\ claimed' = now[t]
            /\ Goto(t, "flight") /\ UNCHANGED <<state, probes, opened>>
        BY <1>10, <2>1 DEF ProbeReclaim, Admit, Return
      <3>2. /\ Young' \subseteq Young \union {t} /\ C' \in Nat /\ C' <= C + 1
            /\ probeAge'[t] = now[t] /\ \A u \in Young' : u # t => probeAge'[u] = probeAge[u]
        BY <3>1, YoungAdmits DEF C
      <3>3. /\ state = "HalfOpen" /\ probes = MaxProbes /\ Young = {}
        BY <1>10 DEF ProbeReclaim, Stage, Slots, Readings
      <3>4. Slots("flight")' /\ Readings(t, "flight")'
        BY <3>1, <3>2, <3>3 DEF Slots, Readings, C
      <3>. QED
        BY <3>1, <3>4
    <2>2. CASE claimed # seen[t]
      <3>1. Goto(t, "idle") /\ UNCHANGED <<state, probes, opened, claimed, probeAge>>
        BY <1>10, <2>2 DEF ProbeReclaim, Return
      <3>2. Young' = Young /\ C' = C
        BY <3>1, YoungKept DEF C
      <3>3. Slots("idle")' /\ Readings(t, "idle")'
        BY <1>10, <3>1, <3>2 DEF ProbeReclaim, Slots, Readings, C
      <3>. QED
        BY <3>1, <3>3
    <2>. QED
      BY <2>1, <2>2
  <1>11. CASE RecordPush(t)
    <2>1. Young' = Young /\ C' = C /\ probeAge' = probeAge
      BY <1>11, YoungKept DEF RecordPush, C
    <2>2. Goto(t, "idle") \/ Goto(t, "trip")
      BY <1>11 DEF RecordPush, Return
    <2>3. Slots("idle")' /\ Readings(t, "idle")' /\ Slots("trip")' /\ Readings(t, "trip")'
      BY <1>11, <2>1 DEF RecordPush, Slots, Readings, Stage, C
    <2>. QED
      BY <2>2, <2>3
  <1>12. CASE TripState(t)
    <2>1. Young' = Young /\ C' = C /\ probeAge' = probeAge
      BY <1>12, YoungKept DEF TripState, C
    <2>2. Goto(t, "openedat")
      BY <1>12 DEF TripState
    <2>3. Slots("openedat")' /\ Readings(t, "openedat")'
      BY <1>12, <2>1 DEF TripState, Slots, Readings, Stage, C, LocalsOK
    <2>. QED
      BY <2>2, <2>3
  <1>13. CASE TripOpenedAt(t)
    <2>1. Young' = Young /\ C' = C /\ probeAge' = probeAge
      BY <1>13, YoungKept DEF TripOpenedAt, C
    <2>2. Goto(t, "noprobes")
      BY <1>13 DEF TripOpenedAt
    <2>3. Slots("noprobes")' /\ Readings(t, "noprobes")'
      BY <1>13, <2>1 DEF TripOpenedAt, Slots, Readings, Stage, C, LocalsOK
    <2>. QED
      BY <2>2, <2>3
  <1>14. CASE TripProbes(t)
    <2>1. Young' = Young /\ C' = C /\ probeAge' = probeAge
      BY <1>14, YoungKept DEF TripProbes, C
    <2>2. Goto(t, "mirror")
      BY <1>14 DEF TripProbes
    <2>3. Slots("mirror")' /\ Readings(t, "mirror")'
      BY <1>14, <2>1 DEF TripProbes, Slots, Readings, Stage, C
    <2>. QED
      BY <2>2, <2>3
  <1>15. CASE TripMirror(t)
    <2>1. Young' = Young /\ C' = C /\ probeAge' = probeAge
      BY <1>15, YoungKept DEF TripMirror, C
    <2>2. Goto(t, "idle")
      BY <1>15 DEF TripMirror, Return
    <2>3. Slots("idle")' /\ Readings(t, "idle")'
      BY <1>15, <2>1 DEF TripMirror, Slots, Readings, Stage, C
    <2>. QED
      BY <2>2, <2>3
  <1>16. CASE CloseState(t)
    <2>1. Young' = Young /\ C' = C /\ probeAge' = probeAge
      BY <1>16, YoungKept DEF CloseState, C
    <2>2. Goto(t, "drain")
      BY <1>16 DEF CloseState
    <2>3. Slots("drain")' /\ Readings(t, "drain")'
      BY <1>16, <2>1 DEF CloseState, Slots, Readings, Stage, C
    <2>. QED
      BY <2>2, <2>3
  <1>17. CASE CloseWindow(t)
    <2>1. Young' = Young /\ C' = C /\ probeAge' = probeAge
      BY <1>17, YoungKept DEF CloseWindow, C
    <2>2. Goto(t, "unprobe")
      BY <1>17 DEF CloseWindow
    <2>3. Slots("unprobe")' /\ Readings(t, "unprobe")'
      BY <1>17, <2>1 DEF CloseWindow, Slots, Readings, Stage, C
    <2>. QED
      BY <2>2, <2>3
  <1>18. CASE CloseProbes(t)
    <2>1. Young' = Young /\ C' = C /\ probeAge' = probeAge
      BY <1>18, YoungKept DEF CloseProbes, C
    <2>2. Goto(t, "unmirror")
      BY <1>18 DEF CloseProbes
    <2>3. Slots("unmirror")' /\ Readings(t, "unmirror")'
      BY <1>18, <2>1 DEF CloseProbes, Slots, Readings, Stage, C
    <2>. QED
      BY <2>2, <2>3
  <1>19. CASE CloseMirror(t)
    <2>1. Young' = Young /\ C' = C /\ probeAge' = probeAge
      BY <1>19, YoungKept DEF CloseMirror, C
    <2>2. Goto(t, "idle")
      BY <1>19 DEF CloseMirror, Return
    <2>3. Slots("idle")' /\ Readings(t, "idle")'
      BY <1>19, <2>1 DEF CloseMirror, Slots, Readings, Stage, C
    <2>. QED
      BY <2>2, <2>3
  <1>20. ~CheckReread(t)
    BY DEF CheckReread, Stage
  <1>. QED
    BY <1>1, <1>2, <1>3, <1>4, <1>5, <1>6, <1>7, <1>8, <1>9, <1>10, <1>11, <1>12, <1>13, <1>14, <1>15, <1>16, <1>17, <1>18, <1>19, <1>20 DEF CallStep

\* A request that is abandoned, and steps that touch the window alone.
LEMMA SlotRest ==
  ASSUME AtomicsOK, LocalsOK, SlotInv,
         UNCHANGED <<state, probes, opened, claimed, seen, now, serial>>,
         \A u \in Threads : probeAge'[u] = probeAge[u] \/ probeAge'[u] = OpenFor,
         \/ UNCHANGED pc
         \/ \E t \in Threads : pc[t] = "flight" /\ Goto(t, "idle")
  PROVE  SlotInv'
  <1>1. \A u \in Threads : (pc'[u] = pc[u]) \/ (pc[u] = "flight" /\ pc'[u] = "idle")
    BY DEF Goto, LocalsOK
  <1>2. /\ \A u \in Threads : InCall(u)' <=> InCall(u)
        /\ \A u \in Threads : InCall(u) => pc'[u] = pc[u]
    BY <1>1 DEF InCall
  <1>3. /\ Young' \subseteq Young /\ Cardinality(Young)' \in Nat
        /\ Cardinality(Young)' <= Cardinality(Young)
        /\ \A u \in Young' : probeAge'[u] = probeAge[u]
    <2>1. \A u \in Threads : probeAge'[u] < OpenFor => probeAge[u] < OpenFor
      BY Bounds
    <2>. QED
      BY <2>1, YoungShrinks, Bounds DEF Young
  <1>4. ASSUME NEW p, NEW u, Slots(p), Readings(u, p)
        PROVE  Slots(p)' /\ Readings(u, p)'
    BY <1>3, <1>4, YoungCounted, Bounds DEF Slots, Readings, AtomicsOK
  <1>5. ASSUME Slots("idle") PROVE Slots("idle")'
    BY <1>3, <1>5, YoungCounted, Bounds DEF Slots, AtomicsOK
  <1>6. Quiet' <=> Quiet
    BY <1>2 DEF Quiet
  <1>. QED
    BY <1>2, <1>4, <1>5, <1>6 DEF SlotInv

\* The clock: all ages grow together, and stop where comparisons no longer tell.
LEMMA SlotTick ==
  ASSUME AtomicsOK, LocalsOK, SlotInv, Tick
  PROVE  SlotInv'
  <1>1. UNCHANGED <<state, probes, pc, serial>>
    BY DEF Tick, budgets
  <1>2. \A u \in Threads : InCall(u)' <=> InCall(u)
    BY <1>1 DEF InCall
  <1>3. \A u \in Threads : /\ probeAge[u] \in 0..OpenFor
                           /\ probeAge'[u] = IF probeAge[u] >= OpenFor THEN probeAge[u]
                                             ELSE probeAge[u] + 1
    BY Bounds DEF Tick, Older, LocalsOK
  <1>4. /\ Young' \subseteq Young /\ Cardinality(Young)' \in Nat
        /\ Cardinality(Young)' <= Cardinality(Young)
        /\ \A u \in Young' : probeAge'[u] = probeAge[u] + 1 /\ probeAge[u] \in Nat
    <2>1. \A u \in Threads : probeAge'[u] < OpenFor => probeAge[u] < OpenFor
      BY <1>3, Bounds
    <2>. QED
      BY <1>3, <2>1, YoungShrinks, Bounds DEF Young
  <1>5. /\ opened \in Nat /\ opened' \in Nat /\ opened' >= opened /\ opened' <= opened + 1
        /\ claimed \in Nat /\ claimed' \in Nat /\ claimed' >= claimed /\ claimed' <= claimed + 1
        /\ (claimed' = claimed + 1 \/ claimed' = Old) /\ claimed <= Old
        /\ (opened' = opened + 1 \/ opened' = Old) /\ opened <= Old
    BY Bounds DEF Tick, Older, AtomicsOK
  <1>6. ASSUME NEW p, Slots(p)
        PROVE  Slots(p)'
    BY <1>1, <1>4, <1>5, <1>6, YoungCounted, Bounds DEF Slots, AtomicsOK
  <1>7. ASSUME NEW u \in Threads, Readings(u, pc[u])
        PROVE  Readings(u, pc[u])'
    <2>1. CASE pc[u] \in {"add", "claim", "sub", "lease", "reclaim", "openedat"}
      <3>1. /\ now[u] \in Nat /\ now'[u] \in Nat /\ now'[u] <= now[u] + 1
            /\ now'[u] <= MaxStall
        BY <2>1, Bounds DEF Tick, Older, LocalsOK
      <3>. QED
        BY <1>1, <1>4, <1>5, <1>7, <2>1, <3>1, Bounds DEF Readings
    <2>2. CASE pc[u] = "elapsed"
      <3>1. seen[u] \in 0..Old /\ seen'[u] = IF seen[u] >= Old THEN seen[u] ELSE seen[u] + 1
        BY <2>2, Bounds DEF Tick, Older, LocalsOK
      <3>. QED
        BY <1>1, <1>5, <1>7, <2>2, <3>1, Bounds DEF Readings
    <2>3. CASE pc[u] \notin {"add", "claim", "sub", "lease", "reclaim", "openedat", "elapsed"}
      BY <1>1, <1>5, <1>7, <2>3, Bounds DEF Readings
    <2>. QED
      BY <2>1, <2>2, <2>3
  <1>8. Quiet' <=> Quiet
    BY <1>2 DEF Quiet
  <1>. QED
    BY <1>1, <1>2, <1>6, <1>7, <1>8 DEF SlotInv

LEMMA SlotStep ==
  ASSUME AtomicsOK, LocalsOK, SerialInv, SlotInv, [Next]_vars
  PROVE  SlotInv'
  <1>1. CASE UNCHANGED vars
    BY <1>1, SlotRest DEF vars
  <1>2. CASE Tick
    BY <1>2, SlotTick
  <1>3. ASSUME NEW t \in Threads, Abandon(t)
        PROVE  SlotInv'
    <2>1. \A u \in Threads : probeAge'[u] = probeAge[u] \/ probeAge'[u] = OpenFor
      BY <1>3, Bounds DEF Abandon, LocalsOK
    <2>. QED
      BY <1>3, <2>1, SlotRest DEF Abandon, shared, locals
  <1>4. ASSUME NEW t \in Threads, ErrorRate(t)
        PROVE  SlotInv'
    BY <1>4, SlotRest DEF ErrorRate, locals, budgets
  <1>5. ASSUME NEW t \in Threads, Check(t) \/ Record(t)
        PROVE  SlotInv'
    <2>1. serial' = serial
      BY <1>5 DEF Check, Record, budgets
    <2>2. SUFFICES ASSUME serial PROVE SlotInv'
      BY <2>1 DEF SlotInv
    <2>3. Quiet
      BY <1>5, <2>2 DEF Check, Record, MayCall
    <2>4. PICK next \in Pcs : Goto(t, next) /\ Slots(next)' /\ Readings(t, next)'
      BY <1>5, <2>2, <2>3, SlotOpens DEF SlotInv
    <2>. QED
      BY <2>2, <2>3, <2>4, OthersOut, SlotMove
  <1>6. ASSUME NEW t \in Threads, CallStep(t)
        PROVE  SlotInv'
    <2>1. InCall(t) /\ serial' = serial
      BY <1>6 DEF InCall, CallStep, budgets, CheckLoadOpened, CheckElapsed,
         CheckCas, CheckReread, CheckClearFast, ProbeNow, ProbeAdd, ProbeClaim, ProbeSub,
         ProbeLease, ProbeReclaim, RecordPush, TripState, TripOpenedAt, TripProbes,
         TripMirror, CloseState, CloseWindow, CloseProbes, CloseMirror
    <2>2. SUFFICES ASSUME serial PROVE SlotInv'
      BY <2>1 DEF SlotInv
    <2>3. PICK next \in Pcs : Goto(t, next) /\ Slots(next)' /\ Readings(t, next)'
      BY <1>6, <2>1, <2>2, SlotGoesOn DEF SlotInv, SerialInv
    <2>. QED
      BY <2>1, <2>2, <2>3, OthersOut, SlotMove
  <1>. QED
    BY <1>1, <1>2, <1>3, <1>4, <1>5, <1>6 DEF Next

LEMMA SlotInit == Init => SlotInv
  <1> SUFFICES ASSUME Init PROVE SlotInv
    OBVIOUS
  <1>1. \A t \in Threads : ~InCall(t)
    BY DEF Init, InCall
  <1>2. Young = {}
    BY Bounds DEF Init, Young
  <1>3. Slots("idle")
    BY <1>2, YoungCounted, Bounds DEF Init, Slots
  <1>. QED
    BY <1>1, <1>3 DEF SlotInv

\* The lease of a probe slot: among calls that do not overlap, no more requests run
\* under an admission younger than the cool-down than there are slots, although the
\* slots of abandoned probes are handed out again.
THEOREM LeaseKeepsSlots == Spec => []SerialProbeSlots
  <1>1. AtomicsOK /\ LocalsOK /\ SerialInv /\ SlotInv /\ [Next]_vars => SlotInv'
    BY SlotStep
  <1>2. SlotInv => SerialProbeSlots
    <2> SUFFICES ASSUME SlotInv, serial PROVE Cardinality(Young) <= MaxProbes
      BY DEF SerialProbeSlots, Young
    <2>. QED
      BY DEF SlotInv, Slots, Quiet
  <1>. QED
    BY <1>1, <1>2, SlotInit, SerialInvariant, PTL DEF Spec
=============================================================================
