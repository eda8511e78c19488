------------------------- MODULE SelectionLemmas -------------------------
(***************************************************************************)
(* What Kept returns: a subsequence, of the elements of the set and of all *)
(* of them; what is kept of two parts, twice, or of nothing.  And where    *)
(* things are in a sequence that grows at its end or loses its head.       *)
(*                                                                         *)
(* Kept is a recursive function; what it computes is proved from a least   *)
(* counterexample, as the induction theorems of the library take an        *)
(* operator as their parameter.                                            *)
(***************************************************************************)
EXTENDS Selections, SequenceTheorems, WellFoundedInduction, TLAPS

-----------------------------------------------------------------------------
(* Kept, by induction on the length of the prefix it has worked off.       *)

\* Induction on the naturals, for a set: a number that is missing would have a
\* least one, and its predecessor is there.
LEMMA Induction ==
  ASSUME NEW S, 0 \in S, \A n \in Nat : n \in S => n + 1 \in S
  PROVE  Nat \subseteq S
  <1> DEFINE less == {ss \in Nat \X Nat : ss[1] < ss[2]}
             missing == Nat \ S
  <1>1. SUFFICES ASSUME missing # {} PROVE FALSE
    OBVIOUS
  <1>2. PICK n \in missing : \A m \in missing : ~(<<m, n>> \in less)
    <2>1. IsWellFoundedOn(less, Nat) /\ missing \subseteq Nat
      BY NatLessThanWellFounded DEF OpToRel
    <2> HIDE DEF missing, less
    <2>. QED
      BY <1>1, <2>1, WFMin
  <1>3. n \in Nat /\ n # 0 /\ n - 1 \in Nat /\ n - 1 < n /\ (n - 1) + 1 = n
    OBVIOUS
  <1>4. <<n - 1, n>> \in less
    BY <1>3
  <1>5. n - 1 \in S
    BY <1>2, <1>3, <1>4
  <1>. QED
    BY <1>3, <1>5

KeptStep(s, S, g, n) ==
  IF n = 0 THEN <<>> ELSE IF s[n] \in S THEN Append(g[n - 1], s[n]) ELSE g[n - 1]

\* The recursive function of Kept (Vec::retain) is defined on every prefix of
\* the sequence.
LEMMA KeptDefined ==
  ASSUME NEW T, NEW s \in Seq(T), NEW S
  PROVE  \E g : /\ g = [n \in 0..Len(s) |-> KeptStep(s, S, g, n)]
                /\ Kept(s, S) = g[Len(s)]
  <1> DEFINE Upto(g, n) == g = [m \in 0..n |-> KeptStep(s, S, g, m)]
             reached == {n \in Nat : \E g : Upto(g, n)}
  <1>1. 0 \in reached
    <2>1. Upto([m \in 0..0 |-> <<>>], 0)
      BY DEF KeptStep
    <2>. QED
      BY <2>1
  <1>2. ASSUME NEW n \in Nat, n \in reached
        PROVE  n + 1 \in reached
    <2>1. PICK g : Upto(g, n)
      BY <1>2
    <2> DEFINE h == [m \in 0..(n + 1) |-> IF m = n + 1 THEN KeptStep(s, S, g, m) ELSE g[m]]
    <2>2. \A m \in 0..(n + 1) : h[m] = KeptStep(s, S, h, m)
      <3> TAKE m \in 0..(n + 1)
      <3>1. m # 0 => m - 1 \in 0..n /\ m - 1 \in 0..(n + 1) /\ h[m - 1] = g[m - 1]
        OBVIOUS
      <3>2. KeptStep(s, S, h, m) = KeptStep(s, S, g, m)
        BY <3>1 DEF KeptStep
      <3>3. m # n + 1 => m \in 0..n /\ g[m] = KeptStep(s, S, g, m)
        BY <2>1
      <3>. QED
        BY <3>2, <3>3
    <2>3. h = [m \in 0..(n + 1) |-> KeptStep(s, S, h, m)]
      BY <2>2
    <2> HIDE DEF h
    <2>. QED
      BY <2>3
  <1>3. Len(s) \in reached
    <2> HIDE DEF reached
    <2>. QED
      BY <1>1, <1>2, Induction
  <1>4. Kept(s, S) = (CHOOSE g : Upto(g, Len(s)))[Len(s)]
    BY Zenon DEF Kept, KeptStep
  <1>. QED
    BY <1>3, <1>4

\* k is made of the elements of S among the first n of s: at says which.
Selects(at, k, s, n, S) ==
  /\ at \in [1..Len(k) -> 1..n]
  /\ \A i \in 1..Len(k) : k[i] = s[at[i]] /\ k[i] \in S
  /\ \A i, j \in 1..Len(k) : i < j => at[i] < at[j]
  /\ \A m \in 1..n : s[m] \in S => \E i \in 1..Len(k) : at[i] = m

\* Kept (Vec::retain) picks positions in rising order, of elements of S only,
\* and of all of them.
LEMMA KeptSelects ==
  ASSUME NEW T, NEW s \in Seq(T), NEW S
  PROVE  /\ Kept(s, S) \in Seq(T)
         /\ \E at : Selects(at, Kept(s, S), s, Len(s), S)
  <1>1. PICK g : /\ g = [n \in 0..Len(s) |-> KeptStep(s, S, g, n)]
                 /\ Kept(s, S) = g[Len(s)]
    BY KeptDefined
  <1> DEFINE good == {n \in Nat : n <= Len(s) =>
                        g[n] \in Seq(T) /\ \E at : Selects(at, g[n], s, n, S)}
  <1>2. 0 \in good
    <2>1. g[0] = <<>>
      BY <1>1 DEF KeptStep
    <2> DEFINE at == [i \in 1..0 |-> 0]
    <2>2. Selects(at, <<>>, s, 0, S)
      BY DEF Selects
    <2>3. <<>> \in Seq(T)
      OBVIOUS
    <2> HIDE DEF at
    <2>. QED
      BY <2>1, <2>2, <2>3
  <1>3. ASSUME NEW n \in Nat, n \in good
        PROVE  n + 1 \in good
    <2> SUFFICES ASSUME n + 1 <= Len(s)
                 PROVE  g[n + 1] \in Seq(T) /\ \E at : Selects(at, g[n + 1], s, n + 1, S)
      OBVIOUS
    <2> DEFINE k == g[n]
    <2>1. k \in Seq(T) /\ \E at : Selects(at, k, s, n, S)
      BY <1>3
    <2>2. PICK at : Selects(at, k, s, n, S)
      BY <2>1
    <2>3. n + 1 \in 1..Len(s) /\ n + 1 \in 0..Len(s) /\ (n + 1) - 1 = n /\ s[n + 1] \in T
      OBVIOUS
    <2>4. g[n + 1] = IF s[n + 1] \in S THEN Append(k, s[n + 1]) ELSE k
      <3>1. g[n + 1] = KeptStep(s, S, g, n + 1)
        BY <1>1, <2>3
      <3>2. n + 1 # 0
        OBVIOUS
      <3>. QED
        BY <2>3, <3>1, <3>2 DEF KeptStep
    <2>5. Len(k) \in Nat /\ 1..n \subseteq 1..(n + 1)
      BY <2>1
    <2> HIDE DEF k
    <2>6. CASE s[n + 1] \notin S
      <3>1. Selects(at, k, s, n + 1, S)
        <4>1. \A m \in 1..(n + 1) : s[m] \in S => m \in 1..n
          BY <2>6
        <4>. QED
          BY <2>2, <2>5, <4>1 DEF Selects
      <3>. QED
        BY <2>1, <2>4, <2>6, <3>1
    <2>7. CASE s[n + 1] \in S
      <3> DEFINE l == Append(k, s[n + 1])
                 on == [i \in 1..(Len(k) + 1) |-> IF i = Len(k) + 1 THEN n + 1 ELSE at[i]]
      <3>1. l \in Seq(T) /\ Len(l) = Len(k) + 1 /\ l[Len(k) + 1] = s[n + 1]
        BY <2>1, <2>3
      <3>2. \A i \in 1..Len(k) : l[i] = k[i]
        BY <2>1, <2>3
      <3>3. \A i \in 1..(Len(k) + 1) : i = Len(k) + 1 \/ i \in 1..Len(k)
        BY <2>5
      <3> HIDE DEF l
      <3>4. \A i \in 1..Len(k) : at[i] \in 1..n /\ on[i] = at[i]
        BY <2>2, <2>5 DEF Selects
      <3>5. on[Len(k) + 1] = n + 1
        BY <2>5
      <3>6. on \in [1..(Len(k) + 1) -> 1..(n + 1)]
        <4>1. \A i \in 1..(Len(k) + 1) : on[i] \in 1..(n + 1)
          <5>1. n + 1 \in 1..(n + 1)
            OBVIOUS
          <5> HIDE DEF on
          <5>. QED
            BY <3>3, <3>4, <3>5, <2>5, <5>1
        <4>. QED
          BY <4>1
      <3>7. \A i \in 1..(Len(k) + 1) : l[i] = s[on[i]] /\ l[i] \in S
        BY <2>2, <2>7, <3>1, <3>2, <3>3, <3>4, <3>5 DEF Selects
      <3>8. \A i, j \in 1..(Len(k) + 1) : i < j => on[i] < on[j]
        <4> TAKE i, j \in 1..(Len(k) + 1)
        <4> HAVE i < j
        <4>1. i \in 1..Len(k)
          BY <2>5
        <4>2. CASE j \in 1..Len(k)
          BY <2>2, <3>4, <4>1, <4>2 DEF Selects
        <4>3. CASE j = Len(k) + 1
          <5>1. on[i] \in 1..n /\ on[j] = n + 1
            BY <3>4, <3>5, <4>1, <4>3
          <5>. QED
            BY <5>1
        <4>. QED
          BY <3>3, <4>2, <4>3
      <3>9. \A m \in 1..(n + 1) : s[m] \in S => \E i \in 1..(Len(k) + 1) : on[i] = m
        <4> TAKE m \in 1..(n + 1)
        <4> HAVE s[m] \in S
        <4>1. CASE m = n + 1
          BY <2>5, <3>5, <4>1
        <4>2. CASE m \in 1..n
          <5>1. PICK i \in 1..Len(k) : at[i] = m
            BY <2>2, <4>2 DEF Selects
          <5>2. i \in 1..(Len(k) + 1) /\ on[i] = m
            BY <2>5, <3>4, <5>1
          <5>. QED
            BY <5>2
        <4>. QED
          BY <4>1, <4>2
      <3>10. Selects(on, l, s, n + 1, S)
        <4> HIDE DEF on
        <4>. QED
          BY <3>1, <3>6, <3>7, <3>8, <3>9 DEF Selects
      <3>. QED
        BY <2>4, <2>7, <3>1, <3>10 DEF l
    <2>. QED
      BY <2>6, <2>7
  <1>4. Len(s) \in good
    <2> HIDE DEF good
    <2>. QED
      BY <1>2, <1>3, Induction
  <1>. QED
    BY <1>1, <1>4

\* What is kept of the first n is made from what is kept of one less.
PrefixSets(g, s, S, T) ==
  /\ g[0] = <<>> /\ g[Len(s)] = Kept(s, S)
  /\ \A n \in 0..Len(s) : g[n] \in Seq(T)
  /\ \A n \in Nat : n + 1 <= Len(s) =>
       /\ s[n + 1] \in S => g[n + 1] = Append(g[n], s[n + 1])
       /\ s[n + 1] \notin S => g[n + 1] = g[n]

\* Kept (Vec::retain) works the sequence off prefix by prefix.
LEMMA KeptPrefixes ==
  ASSUME NEW T, NEW s \in Seq(T), NEW S
  PROVE  \E g : PrefixSets(g, s, S, T)
  <1>1. PICK g : /\ g = [n \in 0..Len(s) |-> KeptStep(s, S, g, n)]
                 /\ Kept(s, S) = g[Len(s)]
    BY KeptDefined
  <1>2. Len(s) \in Nat /\ 0 \in 0..Len(s)
    OBVIOUS
  <1>3. g[0] = <<>>
    BY <1>1, <1>2 DEF KeptStep
  <1>4. ASSUME NEW n \in Nat, n + 1 <= Len(s)
        PROVE  /\ s[n + 1] \in S => g[n + 1] = Append(g[n], s[n + 1])
               /\ s[n + 1] \notin S => g[n + 1] = g[n]
    <2>1. n + 1 \in 0..Len(s) /\ n + 1 # 0 /\ (n + 1) - 1 = n
      BY <1>2, <1>4
    <2>2. g[n + 1] = KeptStep(s, S, g, n + 1)
      BY <1>1, <2>1
    <2>. QED
      BY <2>1, <2>2 DEF KeptStep
  <1> DEFINE good == {n \in Nat : n <= Len(s) => g[n] \in Seq(T)}
  <1>5. 0 \in good
    <2>1. <<>> \in Seq(T)
      OBVIOUS
    <2>. QED
      BY <1>3, <2>1
  <1>6. ASSUME NEW n \in Nat, n \in good
        PROVE  n + 1 \in good
    <2> SUFFICES ASSUME n + 1 <= Len(s) PROVE g[n + 1] \in Seq(T)
      OBVIOUS
    <2>1. g[n] \in Seq(T) /\ s[n + 1] \in T
      BY <1>2, <1>6
    <2>. QED
      BY <1>4, <2>1, AppendProperties
  <1>7. \A n \in 0..Len(s) : g[n] \in Seq(T)
    <2>1. Nat \subseteq good
      <3> HIDE DEF good
      <3>. QED
        BY <1>5, <1>6, Induction
    <2>. QED
      BY <1>2, <2>1
  <1>. QED
    BY <1>1, <1>3, <1>4, <1>7 DEF PrefixSets

\* Appending x to a sequence a \o b is appending it to b.
Glues(a, b, x) == Append(a \o b, x) = a \o Append(b, x)

\* Appending to the second part is appending to the whole.
LEMMA ConcatAppend ==
  ASSUME NEW T, NEW a \in Seq(T), NEW b \in Seq(T), NEW x \in T
  PROVE  Glues(a, b, x)
  <1> DEFINE one == <<x>>
  <1>1. one \in Seq(T)
    OBVIOUS
  <1>2. a \o b \in Seq(T)
    BY ConcatProperties
  <1>3. Append(a \o b, x) = (a \o b) \o one
    BY <1>2, AppendIsConcat
  <1>4. Append(b, x) = b \o one
    BY AppendIsConcat
  <1> HIDE DEF one
  <1>5. (a \o b) \o one = a \o (b \o one)
    BY <1>1, ConcatAssociative
  <1>. QED
    BY <1>3, <1>4, <1>5 DEF Glues

\* Retaining in two parts of a sequence is retaining in the whole.
LEMMA KeptConcat ==
  ASSUME NEW T, NEW s \in Seq(T), NEW t \in Seq(T), NEW S
  PROVE  Kept(s \o t, S) = Kept(s, S) \o Kept(t, S)
  <1> DEFINE r == s \o t
             m == Len(s)
  <1>1. /\ r \in Seq(T) /\ Len(r) = m + Len(t) /\ m = Len(s) /\ m \in Nat /\ Len(t) \in Nat
        /\ \A i \in 1..m : r[i] = s[i]
        /\ \A i \in 1..Len(t) : r[m + i] = t[i]
    BY ConcatProperties
  <1> HIDE DEF r, m
  <1>2. PICK g : PrefixSets(g, r, S, T)
    BY <1>1, KeptPrefixes
  <1>3. PICK h : PrefixSets(h, s, S, T)
    BY KeptPrefixes
  <1>4. PICK u : PrefixSets(u, t, S, T)
    BY KeptPrefixes
  <1> DEFINE Left(n) == n <= m => g[n] = h[n]
             Right(n) == n <= Len(t) => g[m + n] = h[m] \o u[n]
             left == {n \in Nat : Left(n)}
             right == {n \in Nat : Right(n)}
  <1>a. /\ g[0] = <<>> /\ g[Len(r)] = Kept(r, S)
        /\ h[0] = <<>> /\ h[m] = Kept(s, S) /\ h[m] \in Seq(T)
        /\ u[0] = <<>> /\ u[Len(t)] = Kept(t, S)
        /\ \A n \in 0..Len(t) : u[n] \in Seq(T)
    BY <1>1, <1>2, <1>3, <1>4 DEF PrefixSets
  <1>b. \A n \in Nat : n + 1 <= m =>
          /\ s[n + 1] \in S => g[n + 1] = Append(g[n], s[n + 1]) /\ h[n + 1] = Append(h[n], s[n + 1])
          /\ s[n + 1] \notin S => g[n + 1] = g[n] /\ h[n + 1] = h[n]
    <2> TAKE n \in Nat
    <2> HAVE n + 1 <= m
    <2>1. n + 1 <= Len(r) /\ n + 1 <= Len(s) /\ r[n + 1] = s[n + 1]
      BY <1>1
    <2>. QED
      BY <1>2, <1>3, <2>1 DEF PrefixSets
  <1>5. Left(m)
    <2>1. Left(0)
      BY <1>a
    <2>2. ASSUME NEW n \in Nat, Left(n)
          PROVE  Left(n + 1)
      <3> SUFFICES ASSUME n + 1 <= m PROVE g[n + 1] = h[n + 1]
        BY Zenon
      <3>1. n <= m
        BY <1>1
      <3>2. g[n] = h[n]
        BY <2>2, <3>1
      <3>. QED
        BY <1>b, <3>2
    <2> HIDE DEF Left
    <2>3. 0 \in left /\ \A n \in Nat : n \in left => n + 1 \in left
      BY <2>1, <2>2
    <2> HIDE DEF left
    <2>4. m \in left
      BY <1>1, <2>3, Induction
    <2>. QED
      BY <2>4 DEF left
  <1>6. g[m] = h[m]
    BY <1>1, <1>5
  <1>7. Right(Len(t))
    <2>1. Right(0)
      <3>1. h[m] \o <<>> = h[m] /\ m + 0 = m
        BY <1>1, <1>a, ConcatEmptySeq
      <3>. QED
        BY <1>6, <1>a, <3>1
    <2>2. ASSUME NEW n \in Nat, Right(n)
          PROVE  Right(n + 1)
      <3> SUFFICES ASSUME n + 1 <= Len(t) PROVE g[m + (n + 1)] = h[m] \o u[n + 1]
        BY Zenon
      <3>1. n <= Len(t) /\ n \in 0..Len(t) /\ n + 1 \in 1..Len(t)
        BY <1>1
      <3>2. /\ g[m + n] = h[m] \o u[n] /\ r[m + (n + 1)] = t[n + 1]
            /\ u[n] \in Seq(T) /\ t[n + 1] \in T
        <4>1. g[m + n] = h[m] \o u[n]
          BY <2>2, <3>1, Zenon
        <4>2. r[m + (n + 1)] = t[n + 1]
          BY <1>1, <3>1
        <4>3. t[n + 1] \in T
          BY <3>1
        <4>4. u[n] \in Seq(T)
          BY <1>a, <3>1
        <4>. QED
          BY <4>1, <4>2, <4>3, <4>4, Zenon
      <3>3. (m + n) + 1 = m + (n + 1) /\ m + n \in Nat /\ (m + n) + 1 <= Len(r)
        BY <1>1, <3>1
      <3>4. CASE t[n + 1] \in S
        <4>1. u[n + 1] = Append(u[n], t[n + 1]) /\ g[m + (n + 1)] = Append(g[m + n], t[n + 1])
          <5>1. u[n + 1] = Append(u[n], t[n + 1])
            BY <1>4, <3>1, <3>4 DEF PrefixSets
          <5>2. g[(m + n) + 1] = Append(g[m + n], r[(m + n) + 1])
            <6>1. r[(m + n) + 1] \in S
              BY <3>2, <3>3, <3>4
            <6>. QED
              BY <1>2, <3>3, <6>1 DEF PrefixSets
          <5>. QED
            BY <3>2, <3>3, <5>1, <5>2
        <4> DEFINE ha == h[m]
                   ub == u[n]
                   tx == t[n + 1]
        <4>2. ha \in Seq(T) /\ ub \in Seq(T) /\ tx \in T
          BY <1>a, <3>2
        <4>3. u[n + 1] = Append(ub, tx) /\ g[m + (n + 1)] = Append(ha \o ub, tx)
          BY <3>2, <4>1
        <4> HIDE DEF ha, ub, tx
        <4>4. Glues(ha, ub, tx)
          BY <4>2, ConcatAppend
        <4>5. g[m + (n + 1)] = ha \o u[n + 1]
          BY <4>3, <4>4 DEF Glues
        <4>. QED
          BY <4>5 DEF ha
      <3>5. CASE t[n + 1] \notin S
        <4>1. u[n + 1] = u[n] /\ g[m + (n + 1)] = g[m + n]
          BY <1>2, <1>4, <3>2, <3>3, <3>5 DEF PrefixSets
        <4>. QED
          BY <3>2, <4>1
      <3>. QED
        BY <3>4, <3>5
    <2> HIDE DEF Right
    <2>3. 0 \in right /\ \A n \in Nat : n \in right => n + 1 \in right
      BY <2>1, <2>2
    <2> HIDE DEF right
    <2>4. Len(t) \in right
      BY <1>1, <2>3, Induction
    <2>. QED
      BY <2>4 DEF right
  <1>8. g[m + Len(t)] = h[m] \o u[Len(t)]
    <2>1. Len(t) <= Len(t)
      BY <1>1
    <2>. QED
      BY <1>7, <2>1, Zenon
  <1>. QED
    BY <1>1, <1>a, <1>8 DEF r

\* What two sets have of the sequence is what counts.
LEMMA KeptSame ==
  ASSUME NEW T, NEW s \in Seq(T), NEW A, NEW B,
         \A i \in 1..Len(s) : s[i] \in A <=> s[i] \in B
  PROVE  Kept(s, A) = Kept(s, B)
  <1>1. PICK g : PrefixSets(g, s, A, T)
    BY KeptPrefixes
  <1>2. PICK h : PrefixSets(h, s, B, T)
    BY KeptPrefixes
  <1> DEFINE good == {n \in Nat : n <= Len(s) => g[n] = h[n]}
  <1>3. 0 \in good
    BY <1>1, <1>2 DEF PrefixSets
  <1>4. ASSUME NEW n \in Nat, n \in good
        PROVE  n + 1 \in good
    <2> SUFFICES ASSUME n + 1 <= Len(s) PROVE g[n + 1] = h[n + 1]
      OBVIOUS
    <2>1. g[n] = h[n] /\ n + 1 \in 1..Len(s)
      BY <1>4
    <2>2. s[n + 1] \in A <=> s[n + 1] \in B
      BY <2>1
    <2>. QED
      BY <1>1, <1>2, <2>1, <2>2 DEF PrefixSets
  <1>5. Len(s) \in good
    <2> HIDE DEF good
    <2>. QED
      BY <1>3, <1>4, Induction
  <1>. QED
    BY <1>1, <1>2, <1>5 DEF PrefixSets

\* Of a sequence without such elements nothing is kept.
LEMMA KeptNothing ==
  ASSUME NEW T, NEW s \in Seq(T), NEW S, \A i \in 1..Len(s) : s[i] \notin S
  PROVE  Kept(s, S) = <<>>
  <1>1. Kept(s, S) \in Seq(T) /\ \E at : Selects(at, Kept(s, S), s, Len(s), S)
    BY KeptSelects
  <1>2. PICK at : Selects(at, Kept(s, S), s, Len(s), S)
    BY <1>1
  <1>3. Len(Kept(s, S)) \in Nat
    BY <1>1
  <1>4. \A i \in 1..Len(Kept(s, S)) : FALSE
    BY <1>2 DEF Selects
  <1>5. Len(Kept(s, S)) = 0
    <2>1. 1 \notin 1..Len(Kept(s, S))
      BY <1>4
    <2>. QED
      BY <1>3, <2>1
  <1>. QED
    BY <1>1, <1>5

\* An element that is one of the set is kept.
LEMMA KeptOne ==
  ASSUME NEW x, NEW S, x \in S
  PROVE  Kept(<<x>>, S) = <<x>>
  <1>1. <<x>> \in Seq({x}) /\ Len(<<x>>) = 1 /\ <<x>>[1] = x
    OBVIOUS
  <1>2. PICK g : PrefixSets(g, <<x>>, S, {x})
    BY <1>1, KeptPrefixes
  <1>3. g[0 + 1] = Append(g[0], x)
    BY <1>1, <1>2 DEF PrefixSets
  <1>. QED
    BY <1>1, <1>2, <1>3 DEF PrefixSets

\* Retaining twice is retaining once, of the smaller set.
LEMMA KeptKept ==
  ASSUME NEW T, NEW s \in Seq(T), NEW A, NEW B, \A i \in 1..Len(s) : s[i] \in B => s[i] \in A
  PROVE  Kept(Kept(s, A), B) = Kept(s, B)
  <1>1. PICK g : PrefixSets(g, s, A, T)
    BY KeptPrefixes
  <1>2. PICK h : PrefixSets(h, s, B, T)
    BY KeptPrefixes
  <1> DEFINE good == {n \in Nat : n <= Len(s) => Kept(g[n], B) = h[n]}
  <1>3. 0 \in good
    <2>1. <<>> \in Seq(T) /\ \A i \in 1..Len(<<>>) : <<>>[i] \notin B
      OBVIOUS
    <2>2. Kept(<<>>, B) = <<>>
      BY <2>1, KeptNothing
    <2>. QED
      BY <1>1, <1>2, <2>2 DEF PrefixSets
  <1>4. ASSUME NEW n \in Nat, n \in good
        PROVE  n + 1 \in good
    <2> SUFFICES ASSUME n + 1 <= Len(s) PROVE Kept(g[n + 1], B) = h[n + 1]
      OBVIOUS
    <2> DEFINE x == s[n + 1]
    <2>1. /\ Kept(g[n], B) = h[n] /\ g[n] \in Seq(T) /\ h[n] \in Seq(T)
          /\ n + 1 \in 1..Len(s) /\ x \in T
      BY <1>1, <1>2, <1>4 DEF PrefixSets
    <2> HIDE DEF x
    <2>2. CASE x \notin A
      <3>1. x \notin B
        BY <2>1, <2>2 DEF x
      <3>. QED
        BY <1>1, <1>2, <2>1, <2>2, <3>1 DEF x, PrefixSets
    <2>3. CASE x \in A
      <3>1. g[n + 1] = Append(g[n], x) /\ <<x>> \in Seq(T)
        BY <1>1, <2>1, <2>3 DEF x, PrefixSets
      <3> DEFINE k == g[n]
                 one == <<x>>
      <3>a. k \in Seq(T) /\ one \in Seq(T)
        BY <2>1, <3>1
      <3>b. Append(k, x) = k \o one
        BY <2>1, AppendIsConcat
      <3>2. g[n + 1] = Append(k, x) /\ Kept(k, B) = h[n]
        BY <2>1, <3>1
      <3> HIDE DEF k, one
      <3>c. Kept(k \o one, B) = Kept(k, B) \o Kept(one, B)
        BY <3>a, KeptConcat
      <3>3. Kept(g[n + 1], B) = h[n] \o Kept(one, B)
        BY <3>b, <3>c, <3>2
      <3>4. CASE x \in B
        <4>1. h[n + 1] = Append(h[n], x)
          BY <1>2, <2>1, <3>4 DEF x, PrefixSets
        <4>2. h[n + 1] = h[n] \o <<x>>
          BY <2>1, <4>1, AppendIsConcat
        <4>3. Kept(one, B) = <<x>>
          BY <3>4, KeptOne DEF one
        <4>. QED
          BY <3>3, <4>2, <4>3
      <3>5. CASE x \notin B
        <4>1. \A i \in 1..Len(<<x>>) : <<x>>[i] \notin B
          BY <3>5
        <4>2. Kept(one, B) = <<>>
          BY <3>1, <4>1, KeptNothing DEF one
        <4>3. h[n + 1] = h[n] /\ h[n] \o <<>> = h[n]
          BY <1>2, <2>1, <3>5, ConcatEmptySeq DEF x, PrefixSets
        <4>. QED
          BY <3>3, <4>2, <4>3
      <3>. QED
        BY <3>4, <3>5
    <2>. QED
      BY <2>2, <2>3
  <1>5. Len(s) \in good
    <2> HIDE DEF good
    <2>. QED
      BY <1>3, <1>4, Induction
  <1>. QED
    BY <1>1, <1>2, <1>5 DEF PrefixSets

-----------------------------------------------------------------------------
(* What Kept keeps of a sequence that grows at its end or loses its head.   *)

\* All of it, if all of it is to be kept.
LEMMA KeptAll ==
  ASSUME NEW T, NEW s \in Seq(T), NEW S, \A i \in 1..Len(s) : s[i] \in S
  PROVE  Kept(s, S) = s
  <1>1. PICK g : PrefixSets(g, s, S, T)
    BY KeptPrefixes
  <1> DEFINE good == {n \in Nat : n <= Len(s) =>
                        Len(g[n]) = n /\ \A i \in 1..n : g[n][i] = s[i]}
  <1>2. 0 \in good
    BY <1>1 DEF PrefixSets
  <1>3. ASSUME NEW n \in Nat, n \in good
        PROVE  n + 1 \in good
    <2> SUFFICES ASSUME n + 1 <= Len(s)
                 PROVE  Len(g[n + 1]) = n + 1 /\ \A i \in 1..(n + 1) : g[n + 1][i] = s[i]
      OBVIOUS
    <2>1. /\ Len(s) \in Nat /\ n \in 0..Len(s) /\ n + 1 \in 1..Len(s)
          /\ s[n + 1] \in S /\ s[n + 1] \in T
      OBVIOUS
    <2>2. g[n + 1] = Append(g[n], s[n + 1]) /\ g[n] \in Seq(T)
      BY <1>1, <2>1 DEF PrefixSets
    <2>3. Len(g[n]) = n /\ \A i \in 1..n : g[n][i] = s[i]
      BY <1>3, <2>1
    <2> DEFINE q == g[n]
    <2> HIDE DEF q
    <2>4. q \in Seq(T) /\ Len(q) = n /\ (\A i \in 1..n : q[i] = s[i]) /\ g[n + 1] = Append(q, s[n + 1])
      BY <2>2, <2>3 DEF q
    <2>. QED
      BY <2>1, <2>4
  <1>4. Len(s) \in good
    <2> HIDE DEF good
    <2>. QED
      BY <1>2, <1>3, Induction
  <1>5. Kept(s, S) = g[Len(s)] /\ Kept(s, S) \in Seq(T) /\ Len(s) \in Nat
    BY <1>1, KeptSelects DEF PrefixSets
  <1>6. Len(Kept(s, S)) = Len(s) /\ \A i \in 1..Len(s) : Kept(s, S)[i] = s[i]
    BY <1>4, <1>5
  <1>. QED
    BY <1>5, <1>6, SeqEqual

\* An element more at the end, ...
LEMMA KeptAppend ==
  ASSUME NEW T, NEW s \in Seq(T), NEW x \in T, NEW S
  PROVE  /\ x \in S => Kept(Append(s, x), S) = Append(Kept(s, S), x)
         /\ x \notin S => Kept(Append(s, x), S) = Kept(s, S)
  <1> DEFINE one == <<x>>
             k == Kept(s, S)
  <1>1. one \in Seq(T) /\ Append(s, x) = s \o one /\ Len(one) = 1 /\ one[1] = x
    BY AppendIsConcat
  <1>2. k \in Seq(T)
    BY KeptSelects
  <1>3. x \in S => Kept(one, S) = one
    BY KeptOne
  <1> HIDE DEF one, k
  <1>4. Kept(s \o one, S) = k \o Kept(one, S)
    BY <1>1, KeptConcat DEF k
  <1>5. x \notin S => Kept(one, S) = <<>>
    BY <1>1, KeptNothing
  <1>6. k \o <<>> = k
    BY <1>2, ConcatEmptySeq
  <1>7. Append(k, x) = k \o one
    BY <1>2, AppendIsConcat DEF one
  <1>. QED
    BY <1>1, <1>3, <1>4, <1>5, <1>6, <1>7 DEF k

\* ... or one less at the front.
LEMMA KeptTail ==
  ASSUME NEW T, NEW s \in Seq(T), s # <<>>, NEW S
  PROVE  /\ Head(s) \in S => Kept(s, S) = <<Head(s)>> \o Kept(Tail(s), S)
         /\ Head(s) \notin S => Kept(s, S) = Kept(Tail(s), S)
  <1> DEFINE one == <<Head(s)>>
             t == Tail(s)
  <1>1. one \in Seq(T) /\ t \in Seq(T) /\ Len(one) = 1 /\ one[1] = Head(s)
    OBVIOUS
  <1>2. s = one \o t
    <2>1. /\ one \o t \in Seq(T) /\ Len(one \o t) = Len(s)
          /\ \A i \in 1..Len(s) : s[i] = (one \o t)[i]
      OBVIOUS
    <2>. QED
      BY <2>1, SeqEqual
  <1>3. Head(s) \in S => Kept(one, S) = one
    BY KeptOne
  <1>4. Kept(t, S) \in Seq(T)
    BY <1>1, KeptSelects
  <1> HIDE DEF one, t
  <1>5. Kept(one \o t, S) = Kept(one, S) \o Kept(t, S)
    BY <1>1, KeptConcat
  <1>6. Head(s) \notin S => Kept(one, S) = <<>>
    BY <1>1, KeptNothing
  <1>7. <<>> \o Kept(t, S) = Kept(t, S)
    BY <1>4, ConcatEmptySeq
  <1>. QED
    BY <1>2, <1>3, <1>5, <1>6, <1>7 DEF one, t

\* What is appended and is not kept, or is all kept.
LEMMA KeptGrown ==
  ASSUME NEW T, NEW s \in Seq(T), NEW t \in Seq(T), NEW S
  PROVE  /\ (\A i \in 1..Len(t) : t[i] \notin S) => Kept(s \o t, S) = Kept(s, S)
         /\ (\A i \in 1..Len(t) : t[i] \in S) => Kept(s \o t, S) = Kept(s, S) \o t
  <1>1. Kept(s \o t, S) = Kept(s, S) \o Kept(t, S) /\ Kept(s, S) \in Seq(T)
    <2>1. Kept(s, S) \in Seq(T)
      BY KeptSelects
    <2>2. Kept(s \o t, S) = Kept(s, S) \o Kept(t, S)
      BY KeptConcat
    <2>. QED
      BY <2>1, <2>2
  <1>2. Kept(s, S) \o <<>> = Kept(s, S)
    BY <1>1, ConcatEmptySeq
  <1>3. (\A i \in 1..Len(t) : t[i] \notin S) => Kept(t, S) = <<>>
    BY KeptNothing
  <1>4. (\A i \in 1..Len(t) : t[i] \in S) => Kept(t, S) = t
    BY KeptAll
  <1>. QED
    BY <1>1, <1>2, <1>3, <1>4

-----------------------------------------------------------------------------
(* Positions in a sequence that grows at its end or loses its head.         *)

Adds(t, s, x) ==
  /\ Len(s) \in Nat /\ DOMAIN s = 1..Len(s) /\ DOMAIN t = 1..(Len(s) + 1)
  /\ Len(t) = Len(s) + 1 /\ Len(s) + 1 \in DOMAIN t /\ t[Len(s) + 1] = x
  /\ \A i \in DOMAIN s : i \in Nat /\ i < Len(s) + 1 /\ i \in DOMAIN t /\ t[i] = s[i]
  /\ \A i \in DOMAIN t : i \in Nat /\ (i \in DOMAIN s \/ i = Len(s) + 1)

\* A sequence with one more at its end, ...
LEMMA Added ==
  ASSUME NEW T, NEW s \in Seq(T), NEW x \in T
  PROVE  Adds(Append(s, x), s, x) /\ Append(s, x) \in Seq(T)
  BY DEF Adds

Takes(t, s) ==
  /\ Len(s) \in Nat /\ Len(s) > 0 /\ DOMAIN s = 1..Len(s) /\ DOMAIN t = 1..(Len(s) - 1)
  /\ 1 \in DOMAIN s /\ Head(s) = s[1]
  /\ \A i \in DOMAIN t : i \in Nat /\ i + 1 \in DOMAIN s /\ t[i] = s[i + 1] /\ i + 1 # 1
  /\ \A j \in DOMAIN s : j \in Nat /\ (j = 1 \/ (j - 1 \in DOMAIN t /\ t[j - 1] = s[j]))

\* ... or without its head.
LEMMA Taken ==
  ASSUME NEW T, NEW s \in Seq(T), s # <<>>
  PROVE  Takes(Tail(s), s) /\ Tail(s) \in Seq(T) /\ Head(s) \in T
  <1>1. /\ Len(s) \in Nat /\ Len(s) > 0 /\ DOMAIN s = 1..Len(s) /\ Head(s) = s[1]
        /\ DOMAIN Tail(s) = 1..(Len(s) - 1) /\ Tail(s) \in Seq(T) /\ s[1] \in T
        /\ \A i \in 1..(Len(s) - 1) : Tail(s)[i] = s[i + 1]
    OBVIOUS
  <1> DEFINE t == Tail(s)
  <1>2. /\ DOMAIN t = 1..(Len(s) - 1)
        /\ \A i \in 1..(Len(s) - 1) : t[i] = s[i + 1]
    BY <1>1
  <1> HIDE DEF t
  <1>3. \A i \in DOMAIN t : i \in Nat /\ i + 1 \in DOMAIN s /\ t[i] = s[i + 1] /\ i + 1 # 1
    BY <1>1, <1>2
  <1>4. \A j \in DOMAIN s : j \in Nat /\ (j = 1 \/ (j - 1 \in DOMAIN t /\ t[j - 1] = s[j]))
    <2> SUFFICES ASSUME NEW j \in DOMAIN s, j # 1
                 PROVE  j - 1 \in DOMAIN t /\ t[j - 1] = s[j]
      BY <1>1
    <2>1. j - 1 \in 1..(Len(s) - 1) /\ (j - 1) + 1 = j
      BY <1>1
    <2>. QED
      BY <1>2, <2>1
  <1>5. Takes(t, s)
    BY <1>1, <1>2, <1>3, <1>4 DEF Takes
  <1>. QED
    BY <1>1, <1>5 DEF t
=============================================================================
