------------------------- MODULE PromptQueueLemmas -------------------------
(***************************************************************************)
(* What the operators on the queue return: which prompts are in it after   *)
(* a push, an insertion, a removal, a sweep or a reorder, that none is in  *)
(* it twice, and that the running prompt stays at the front.               *)
(***************************************************************************)
EXTENDS PromptQueue, SelectionLemmas, FiniteSetTheorems

-----------------------------------------------------------------------------
(* The queue's operators: its prompts stay distinct, and who is in front.  *)

QueueOK(q) ==
  /\ q \in Seq(Items)
  /\ \A i, j \in 1..Len(q) : q[i].id = q[j].id => i = j

\* r has the front of q, if q has one.
SameFront(q, r) == q # <<>> => r # <<>> /\ r[1].id = q[1].id

\* What is read off a queue that holds no prompt twice: its ids are prompts,
\* and it is empty when nobody is in it.
LEMMA QueueFacts ==
  ASSUME NEW q, QueueOK(q)
  PROVE  /\ Len(q) \in Nat /\ DOMAIN q = 1..Len(q)
         /\ \A i \in 1..Len(q) : q[i] \in Items /\ q[i].id \in Prompts /\ q[i].id \in Ids(q)
         /\ Ids(q) \subseteq Prompts
         /\ \A p \in Ids(q) : \E i \in 1..Len(q) : q[i].id = p
         /\ q = <<>> <=> Len(q) = 0
         /\ q = <<>> <=> Ids(q) = {}
  <1>1. /\ Len(q) \in Nat /\ DOMAIN q = 1..Len(q)
        /\ \A i \in 1..Len(q) : q[i] \in Items
        /\ q = <<>> <=> Len(q) = 0
    BY DEF QueueOK
  <1>2. \A item \in Items : item.id \in Prompts
    BY DEF Items, ItemsOf
  <1>3. \A p \in Ids(q) : \E i \in 1..Len(q) : q[i].id = p
    BY <1>1 DEF Ids
  <1>4. \A i \in 1..Len(q) : q[i].id \in Ids(q)
    BY <1>1 DEF Ids
  <1>5. Len(q) # 0 => 1 \in 1..Len(q)
    BY <1>1
  <1>. QED
    BY <1>1, <1>2, <1>3, <1>4, <1>5

\* A sweep of the queue by id keeps exactly the named prompts, each once, and
\* keeps the front when it is one of them.
LEMMA KeptQueue ==
  ASSUME NEW q, QueueOK(q), NEW S, S \subseteq Prompts
  PROVE  LET r == Kept(q, ItemsOf(S)) IN
         /\ QueueOK(r) /\ Ids(r) = Ids(q) \intersect S
         /\ q # <<>> /\ q[1].id \in S => r # <<>> /\ r[1] = q[1]
  <1> DEFINE r == Kept(q, ItemsOf(S))
  <1>1. /\ q \in Seq(Items) /\ Len(q) \in Nat
        /\ \A i, j \in 1..Len(q) : q[i].id = q[j].id => i = j
        /\ \A i \in 1..Len(q) : q[i] \in Items
    BY DEF QueueOK
  <1>2. r \in Seq(Items) /\ \E at : Selects(at, r, q, Len(q), ItemsOf(S))
    BY <1>1, KeptSelects
  <1> HIDE DEF r
  <1>3. PICK at : Selects(at, r, q, Len(q), ItemsOf(S))
    BY <1>2
  <1>4. Len(r) \in Nat /\ DOMAIN r = 1..Len(r) /\ DOMAIN q = 1..Len(q)
    BY <1>1, <1>2
  <1>5. \A item \in Items : item \in ItemsOf(S) <=> item.id \in S
    BY DEF Items, ItemsOf
  <1>6. /\ \A k \in 1..Len(r) : at[k] \in 1..Len(q) /\ r[k] = q[at[k]] /\ r[k].id \in S
        /\ \A j, k \in 1..Len(r) : j < k => at[j] < at[k]
        /\ \A i \in 1..Len(q) : q[i].id \in S => \E k \in 1..Len(r) : at[k] = i
    BY <1>1, <1>3, <1>5 DEF Selects
  <1>7. \A j, k \in 1..Len(r) : r[j].id = r[k].id => j = k
    <2> TAKE j, k \in 1..Len(r)
    <2> HAVE r[j].id = r[k].id
    <2>1. at[j] = at[k] /\ at[j] \in Nat
      BY <1>1, <1>6
    <2>2. ~(j < k) /\ ~(k < j)
      BY <1>6, <2>1
    <2>. QED
      BY <1>4, <2>2
  <1>8. Ids(r) = Ids(q) \intersect S
    <2>1. ASSUME NEW p \in Ids(r)
          PROVE  p \in Ids(q) \intersect S
      <3>1. PICK k \in 1..Len(r) : r[k].id = p
        BY <1>4 DEF Ids
      <3>. QED
        BY <1>4, <1>6, <3>1 DEF Ids
    <2>2. ASSUME NEW p \in Ids(q), p \in S
          PROVE  p \in Ids(r)
      <3>1. PICK i \in 1..Len(q) : q[i].id = p
        BY <1>4 DEF Ids
      <3>2. PICK k \in 1..Len(r) : at[k] = i
        BY <1>6, <2>2, <3>1
      <3>. QED
        BY <1>4, <1>6, <3>1, <3>2 DEF Ids
    <2>. QED
      BY <2>1, <2>2
  <1>9. ASSUME q # <<>>, q[1].id \in S
        PROVE  r # <<>> /\ r[1] = q[1]
    <2>1. 1 \in 1..Len(q)
      BY <1>1, <1>9
    <2>2. PICK k \in 1..Len(r) : at[k] = 1
      BY <1>6, <1>9, <2>1
    <2>3. k = 1
      <3>1. 1 \in 1..Len(r) /\ at[1] \in 1..Len(q)
        BY <1>4, <1>6, <2>2
      <3>2. ~(1 < k)
        BY <1>1, <1>6, <2>2, <3>1
      <3>. QED
        BY <1>4, <3>2
    <2>. QED
      BY <1>4, <1>6, <2>2, <2>3
  <1>. QED
    BY <1>2, <1>4, <1>7, <1>8, <1>9 DEF r, QueueOK

\* A new prompt pushed to the back (queue_input) joins the queue and leaves
\* its front alone.
LEMMA AppendQueue ==
  ASSUME NEW q, QueueOK(q), NEW item \in Items, item.id \notin Ids(q)
  PROVE  LET r == Append(q, item) IN
         /\ QueueOK(r) /\ Ids(r) = Ids(q) \union {item.id}
         /\ SameFront(q, r)
  <1> DEFINE r == Append(q, item)
  <1>1. /\ r \in Seq(Items) /\ Len(r) = Len(q) + 1 /\ Len(q) \in Nat
        /\ \A i \in 1..Len(q) : r[i] = q[i]
        /\ r[Len(q) + 1] = item
        /\ DOMAIN r = 1..(Len(q) + 1) /\ DOMAIN q = 1..Len(q)
    BY DEF QueueOK
  <1> HIDE DEF r
  <1>2. \A i \in 1..(Len(q) + 1) : i = Len(q) + 1 \/ i \in 1..Len(q)
    BY <1>1
  <1>3. \A i \in 1..Len(q) : q[i].id # item.id
    BY <1>1 DEF Ids
  <1>4. QueueOK(r)
    BY <1>1, <1>2, <1>3 DEF QueueOK
  <1>5. Ids(r) = Ids(q) \union {item.id}
    <2>1. Len(q) + 1 \in DOMAIN r /\ DOMAIN q \subseteq DOMAIN r
      BY <1>1
    <2>. QED
      BY <1>1, <1>2, <2>1 DEF Ids
  <1>6. SameFront(q, r)
    <2>1. q # <<>> => 1 \in 1..Len(q) /\ Len(r) # 0
      BY <1>1 DEF QueueOK
    <2>. QED
      BY <1>1, <2>1 DEF SameFront
  <1>. QED
    BY <1>4, <1>5, <1>6 DEF r

\* Two queues without a common prompt make one queue when joined.
LEMMA ConcatQueue ==
  ASSUME NEW q, QueueOK(q), NEW t, QueueOK(t), Ids(q) \intersect Ids(t) = {}
  PROVE  LET r == q \o t IN
         /\ QueueOK(r) /\ Ids(r) = Ids(q) \union Ids(t)
         /\ SameFront(q, r)
         /\ q = <<>> => r = t
  <1> DEFINE r == q \o t
  <1>1. q \in Seq(Items) /\ t \in Seq(Items)
    BY DEF QueueOK
  <1>2. /\ Len(q) \in Nat /\ DOMAIN q = 1..Len(q)
        /\ Len(t) \in Nat /\ DOMAIN t = 1..Len(t)
    BY <1>1
  <1>3. /\ r \in Seq(Items) /\ Len(r) = Len(q) + Len(t)
        /\ \A i \in 1..(Len(q) + Len(t)) :
             r[i] = IF i <= Len(q) THEN q[i] ELSE t[i - Len(q)]
    BY <1>1, ConcatProperties
  <1>4. q = <<>> => r = t
    BY <1>1, ConcatEmptySeq
  <1> HIDE DEF r
  <1>5. DOMAIN r = 1..(Len(q) + Len(t))
    BY <1>2, <1>3
  <1>6. \A i \in DOMAIN r :
          \/ i \in 1..Len(q) /\ r[i] = q[i] /\ r[i].id \in Ids(q)
          \/ i - Len(q) \in 1..Len(t) /\ r[i] = t[i - Len(q)] /\ r[i].id \in Ids(t)
    <2> TAKE i \in DOMAIN r
    <2>1. CASE i <= Len(q)
      <3>1. i \in 1..Len(q) /\ r[i] = q[i]
        BY <1>2, <1>3, <1>5, <2>1
      <3>. QED
        BY <1>2, <3>1 DEF Ids
    <2>2. CASE ~(i <= Len(q))
      <3>1. i - Len(q) \in 1..Len(t) /\ r[i] = t[i - Len(q)]
        BY <1>2, <1>3, <1>5, <2>2
      <3>. QED
        BY <1>2, <3>1 DEF Ids
    <2>. QED
      BY <2>1, <2>2
  <1>7. QueueOK(r)
    <2> SUFFICES ASSUME NEW i \in DOMAIN r, NEW j \in DOMAIN r, r[i].id = r[j].id
                 PROVE  i = j
      BY <1>2, <1>3, <1>5 DEF QueueOK
    <2>1. /\ \A k, l \in 1..Len(q) : q[k].id = q[l].id => k = l
          /\ \A k, l \in 1..Len(t) : t[k].id = t[l].id => k = l
      BY DEF QueueOK
    <2>2. \/ i \in 1..Len(q) /\ r[i] = q[i] /\ j \in 1..Len(q) /\ r[j] = q[j]
          \/ /\ i - Len(q) \in 1..Len(t) /\ r[i] = t[i - Len(q)]
             /\ j - Len(q) \in 1..Len(t) /\ r[j] = t[j - Len(q)]
      BY <1>6
    <2>3. i \in Int /\ j \in Int
      BY <1>5
    <2>. QED
      BY <1>2, <2>1, <2>2, <2>3
  <1>8. Ids(r) = Ids(q) \union Ids(t)
    <2>1. Ids(r) \subseteq Ids(q) \union Ids(t)
      BY <1>6 DEF Ids
    <2>2. ASSUME NEW i \in 1..Len(q)
          PROVE  q[i].id \in Ids(r)
      <3>1. i \in DOMAIN r /\ r[i] = q[i]
        BY <1>2, <1>3, <1>5
      <3>. QED
        BY <3>1 DEF Ids
    <2>3. ASSUME NEW i \in 1..Len(t)
          PROVE  t[i].id \in Ids(r)
      <3>1. i + Len(q) \in DOMAIN r /\ r[i + Len(q)] = t[i]
        BY <1>2, <1>3, <1>5
      <3>. QED
        BY <3>1 DEF Ids
    <2>. QED
      BY <1>2, <2>1, <2>2, <2>3 DEF Ids
  <1>9. SameFront(q, r)
    <2>1. q # <<>> => 1 \in 1..Len(q) /\ 1 \in 1..(Len(q) + Len(t)) /\ Len(r) # 0
      BY <1>1, <1>2, <1>3
    <2>. QED
      BY <1>3, <2>1 DEF SameFront
  <1>. QED
    BY <1>4, <1>7, <1>8, <1>9 DEF r

IdsIn(q, D) == {q[i].id : i \in D}

\* A queue cut at a position makes two queues without a common prompt.
LEMMA SplitQueue ==
  ASSUME NEW q, QueueOK(q), NEW n \in 0..Len(q)
  PROVE  LET lo == SubSeq(q, 1, n)
             hi == SubSeq(q, n + 1, Len(q))
         IN  /\ QueueOK(lo) /\ Ids(lo) = IdsIn(q, 1..n)
             /\ QueueOK(hi) /\ Ids(hi) = IdsIn(q, (n + 1)..Len(q))
             /\ Ids(lo) \intersect Ids(hi) = {} /\ Ids(lo) \union Ids(hi) = Ids(q)
             /\ n # 0 => lo # <<>> /\ lo[1] = q[1]
  <1> DEFINE lo == SubSeq(q, 1, n)
             hi == SubSeq(q, n + 1, Len(q))
  <1>0. Len(q) \in Nat /\ n \in Nat /\ n <= Len(q)
    <2>1. Len(q) \in Nat
      BY DEF QueueOK
    <2>. QED
      BY <2>1
  <1>1. /\ q \in Seq(Items) /\ Len(q) \in Nat /\ DOMAIN q = 1..Len(q)
        /\ \A i, j \in 1..Len(q) : q[i].id = q[j].id => i = j
    BY DEF QueueOK
  <1>2. /\ lo \in Seq(Items) /\ Len(lo) = n /\ DOMAIN lo = 1..n
        /\ \A i \in 1..n : lo[i] = q[i] /\ i \in 1..Len(q)
    BY <1>1
  <1>3. /\ hi \in Seq(Items) /\ Len(hi) = Len(q) - n /\ DOMAIN hi = 1..(Len(q) - n)
        /\ \A i \in 1..(Len(q) - n) : hi[i] = q[n + i] /\ n + i \in (n + 1)..Len(q)
    <2>1. n + 1 \in Int /\ Len(q) \in Int /\ Len(q) - (n + 1) + 1 = Len(q) - n
      BY <1>1
    <2>2. \A i \in (n + 1)..Len(q) : q[i] \in Items
      BY <1>1
    <2>3. /\ hi \in Seq(Items)
          /\ Len(hi) = IF n + 1 <= Len(q) THEN Len(q) - (n + 1) + 1 ELSE 0
          /\ \A i \in 1..(Len(q) - (n + 1) + 1) : hi[i] = q[(n + 1) + i - 1]
      BY <2>1, <2>2, SubSeqProperties
    <2> HIDE DEF hi
    <2>4. Len(hi) = Len(q) - n /\ DOMAIN hi = 1..Len(hi)
      <3>1. n \in Nat /\ (n + 1 <= Len(q) \/ n = Len(q))
        BY <1>0
      <3>2. DOMAIN hi = 1..Len(hi)
        BY <2>3
      <3>. QED
        BY <1>0, <2>3, <3>1, <3>2
    <2>5. \A i \in 1..(Len(q) - n) : (n + 1) + i - 1 = n + i /\ n + i \in (n + 1)..Len(q)
      BY <1>1
    <2>. QED
      BY <2>1, <2>3, <2>4, <2>5
  <1> HIDE DEF lo, hi
  <1>4. QueueOK(lo)
    BY <1>1, <1>2 DEF QueueOK
  <1>5. QueueOK(hi)
    <2> SUFFICES ASSUME NEW i \in 1..(Len(q) - n), NEW j \in 1..(Len(q) - n), hi[i].id = hi[j].id
                 PROVE  i = j
      BY <1>3 DEF QueueOK
    <2>1. n + i \in 1..Len(q) /\ n + j \in 1..Len(q)
      BY <1>1
    <2>2. n + i = n + j
      BY <1>1, <1>3, <2>1
    <2>. QED
      BY <2>2
  <1>6. Ids(lo) = IdsIn(q, 1..n)
    BY <1>2 DEF Ids, IdsIn
  <1>7. Ids(hi) = IdsIn(q, (n + 1)..Len(q))
    <2>1. \A k \in (n + 1)..Len(q) : k - n \in 1..(Len(q) - n) /\ hi[k - n] = q[k]
      BY <1>1, <1>3
    <2>2. Ids(hi) \subseteq IdsIn(q, (n + 1)..Len(q))
      BY <1>3 DEF Ids, IdsIn
    <2>3. IdsIn(q, (n + 1)..Len(q)) \subseteq Ids(hi)
      BY <1>3, <2>1 DEF Ids, IdsIn
    <2>. QED
      BY <2>2, <2>3
  <1>8. Ids(lo) \intersect Ids(hi) = {}
    <2>1. \A i \in 1..n, j \in (n + 1)..Len(q) : i \in 1..Len(q) /\ j \in 1..Len(q) /\ i # j
      BY <1>1
    <2>. QED
      BY <1>1, <1>6, <1>7, <2>1 DEF IdsIn
  <1>9. Ids(lo) \union Ids(hi) = Ids(q)
    <2>1. 1..Len(q) = (1..n) \union ((n + 1)..Len(q))
      BY <1>1
    <2>. QED
      BY <1>1, <1>6, <1>7, <2>1 DEF Ids, IdsIn
  <1>10. n # 0 => lo # <<>> /\ lo[1] = q[1]
    BY <1>2
  <1>. QED
    BY <1>4, <1>5, <1>6, <1>7, <1>8, <1>9, <1>10 DEF lo, hi

\* A single item is a queue.
LEMMA OneItem ==
  ASSUME NEW item \in Items
  PROVE  QueueOK(<<item>>) /\ Ids(<<item>>) = {item.id}
  BY DEF QueueOK, Ids

\* A new prompt inserted anywhere joins the queue; behind the first place it
\* leaves the front alone.
LEMMA InsertQueue ==
  ASSUME NEW q, QueueOK(q), NEW item \in Items, item.id \notin Ids(q),
         NEW n \in 1..(Len(q) + 1)
  PROVE  LET r == InsertAt(q, n, item) IN
         /\ QueueOK(r) /\ Ids(r) = Ids(q) \union {item.id}
         /\ n # 1 => SameFront(q, r)
  <1> DEFINE lo == SubSeq(q, 1, n - 1)
             hi == SubSeq(q, n, Len(q))
             left == lo \o <<item>>
             r == left \o hi
  <1>1. Len(q) \in Nat /\ n - 1 \in 0..Len(q) /\ (n - 1) + 1 = n
    BY QueueFacts
  <1>2. /\ QueueOK(lo) /\ QueueOK(hi)
        /\ Ids(lo) \intersect Ids(hi) = {} /\ Ids(lo) \union Ids(hi) = Ids(q)
        /\ n # 1 => lo # <<>> /\ lo[1] = q[1]
    <2>1. PICK m \in 0..Len(q) : m = n - 1 /\ m + 1 = n
      BY <1>1
    <2> DEFINE loM == SubSeq(q, 1, m)
               hiM == SubSeq(q, m + 1, Len(q))
    <2>2. /\ QueueOK(loM) /\ QueueOK(hiM)
          /\ Ids(loM) \intersect Ids(hiM) = {} /\ Ids(loM) \union Ids(hiM) = Ids(q)
          /\ m # 0 => loM # <<>> /\ loM[1] = q[1]
      BY <2>1, SplitQueue
    <2>3. lo = loM /\ hi = hiM /\ (n # 1 => m # 0)
      BY <1>1, <2>1
    <2> HIDE DEF lo, hi, loM, hiM
    <2>. QED
      BY <2>2, <2>3
  <1> HIDE DEF lo, hi
  <1>3. /\ QueueOK(left) /\ Ids(left) = Ids(lo) \union {item.id}
        /\ SameFront(lo, left)
    BY <1>2, OneItem, ConcatQueue
  <1> HIDE DEF left
  <1>4. QueueOK(r) /\ Ids(r) = Ids(left) \union Ids(hi) /\ SameFront(left, r)
    BY <1>2, <1>3, ConcatQueue
  <1>5. InsertAt(q, n, item) = r
    BY DEF InsertAt, r, left, lo, hi
  <1> HIDE DEF r
  <1>. QED
    BY <1>2, <1>3, <1>4, <1>5 DEF SameFront

\* Removing the item at a position takes out its prompt and no other.
LEMMA RemoveQueue ==
  ASSUME NEW q, QueueOK(q), NEW n \in 1..Len(q)
  PROVE  LET r == RemoveAt(q, n) IN
         /\ QueueOK(r) /\ Ids(r) = Ids(q) \ {q[n].id}
         /\ n # 1 => SameFront(q, r)
  <1> DEFINE lo == SubSeq(q, 1, n - 1)
             hi == SubSeq(q, n + 1, Len(q))
             r == lo \o hi
  <1>1. /\ Len(q) \in Nat /\ n - 1 \in 0..Len(q) /\ n \in 0..Len(q) /\ DOMAIN q = 1..Len(q)
        /\ 1..Len(q) = (1..(n - 1)) \union {n} \union ((n + 1)..Len(q))
        /\ \A i, j \in 1..Len(q) : q[i].id = q[j].id => i = j
    BY QueueFacts DEF QueueOK
  <1>2. /\ QueueOK(lo) /\ Ids(lo) = IdsIn(q, 1..(n - 1))
        /\ n # 1 => lo # <<>> /\ lo[1] = q[1]
    <2>1. PICK m \in 0..Len(q) : m = n - 1
      BY <1>1
    <2> DEFINE loM == SubSeq(q, 1, m)
    <2>2. lo = loM /\ (n # 1 => m # 0)
      BY <1>1, <2>1
    <2>3. /\ QueueOK(loM) /\ Ids(loM) = IdsIn(q, 1..m)
          /\ m # 0 => loM # <<>> /\ loM[1] = q[1]
      <3>1. QueueOK(loM) /\ (m # 0 => loM # <<>> /\ loM[1] = q[1])
        BY <2>1, SplitQueue
      <3>2. Ids(loM) = IdsIn(q, 1..m)
        BY <2>1, SplitQueue
      <3>. QED
        BY <3>1, <3>2
    <2> HIDE DEF lo, loM
    <2>. QED
      BY <2>1, <2>2, <2>3
  <1>3. QueueOK(hi) /\ Ids(hi) = IdsIn(q, (n + 1)..Len(q))
    BY <1>1, SplitQueue
  <1> HIDE DEF lo, hi
  <1>4. Ids(lo) \intersect Ids(hi) = {}
    <2>1. \A i \in 1..(n - 1), j \in (n + 1)..Len(q) : i \in 1..Len(q) /\ j \in 1..Len(q) /\ i # j
      BY <1>1
    <2>. QED
      BY <1>1, <1>2, <1>3, <2>1 DEF IdsIn
  <1>5. Ids(lo) \union Ids(hi) = Ids(q) \ {q[n].id}
    <2>1. \A i \in (1..(n - 1)) \union ((n + 1)..Len(q)) : i \in 1..Len(q) /\ q[i].id # q[n].id
      BY <1>1
    <2>2. Ids(lo) \union Ids(hi) = {q[i].id : i \in (1..(n - 1)) \union ((n + 1)..Len(q))}
      BY <1>2, <1>3 DEF IdsIn
    <2>3. Ids(q) = {q[i].id : i \in 1..Len(q)}
      BY <1>1 DEF Ids
    <2>. QED
      BY <1>1, <2>1, <2>2, <2>3
  <1>6. QueueOK(r) /\ Ids(r) = Ids(lo) \union Ids(hi) /\ SameFront(lo, r)
    BY <1>2, <1>3, <1>4, ConcatQueue
  <1>7. RemoveAt(q, n) = r
    BY DEF RemoveAt, r, lo, hi
  <1> HIDE DEF r
  <1>. QED
    BY <1>2, <1>5, <1>6, <1>7 DEF SameFront

\* pop_front takes out the front and no other.
LEMMA TailQueue ==
  ASSUME NEW q, QueueOK(q), q # <<>>
  PROVE  QueueOK(Tail(q)) /\ Ids(Tail(q)) = Ids(q) \ {q[1].id}
  <1>1. 1 \in 1..Len(q) /\ Len(q) \in Nat /\ q \in Seq(Items)
    BY QueueFacts DEF QueueOK
  <1>2. RemoveAt(q, 1) = SubSeq(q, 1, 0) \o SubSeq(q, 2, Len(q))
    BY DEF RemoveAt
  <1>3. SubSeq(q, 1, 0) = <<>> /\ SubSeq(q, 2, Len(q)) = Tail(q) /\ Tail(q) \in Seq(Items)
    BY <1>1
  <1>4. RemoveAt(q, 1) = Tail(q)
    BY <1>2, <1>3, ConcatEmptySeq
  <1>5. QueueOK(RemoveAt(q, 1)) /\ Ids(RemoveAt(q, 1)) = Ids(q) \ {q[1].id}
    BY <1>1, RemoveQueue
  <1>. QED
    BY <1>4, <1>5

\* The running prompt, if there is one, is the front of q.
Fronted(q) == running # None => q # <<>> /\ q[1].id = running

\* A queue that keeps its front keeps the running prompt there.
LEMMA FrontKept ==
  ASSUME NEW q, NEW r, Fronted(q), SameFront(q, r)
  PROVE  Fronted(r)
  BY DEF Fronted, SameFront

\* The position looked up for a prompt of the queue is that prompt's.
LEMMA PositionOf ==
  ASSUME NEW q, QueueOK(q), NEW p \in Ids(q)
  PROVE  /\ Position(q, p) \in 1..Len(q) /\ q[Position(q, p)].id = p
         /\ q[Position(q, p)] \in Items
  <1>1. DOMAIN q = 1..Len(q) /\ \A i \in 1..Len(q) : q[i] \in Items
    BY QueueFacts
  <1>2. \E i \in DOMAIN q : q[i].id = p
    BY DEF Ids
  <1>. QED
    BY <1>1, <1>2 DEF Position

\* The place behind the running prompt is one of the queue, and not its head.
LEMMA AfterRunningIn ==
  ASSUME NEW q, QueueOK(q)
  PROVE  /\ AfterRunning(q) \in 1..(Len(q) + 1)
         /\ Fronted(q) /\ running # None => AfterRunning(q) = 2
  <1>1. Len(q) \in Nat /\ (q = <<>> <=> Len(q) = 0)
    BY QueueFacts
  <1>2. AfterRunning(q) = IF q # <<>> /\ q[1].id = running THEN 2 ELSE 1
    BY DEF AfterRunning
  <1>. QED
    BY <1>1, <1>2 DEF Fronted

\* The slot of a send-now prompt exists, and is never the running prompt's.
LEMMA SlotIn ==
  ASSUME NEW q, QueueOK(q)
  PROVE  LET n == SendNowSlot(q) IN
         /\ n \in 1..(Len(q) + 1)
         /\ Fronted(q) /\ running # None => n # 1
         /\ \A j \in AfterRunning(q)..(n - 1) : q[j].now
         /\ n <= Len(q) => ~q[n].now
  <1> DEFINE first == AfterRunning(q)
             Slot(i) == /\ \A j \in first..(i - 1) : q[j].now
                        /\ i <= Len(q) => ~q[i].now
             passed == {n \in Nat : \A j \in first..(first + n - 1) : j <= Len(q) => q[j].now}
  <1>1. Len(q) \in Nat /\ first \in 1..(Len(q) + 1)
    BY QueueFacts, AfterRunningIn
  <1> HIDE DEF first
  <1>2. \E i \in first..(Len(q) + 1) : Slot(i)
    <2> SUFFICES ASSUME \A i \in first..(Len(q) + 1) : ~Slot(i)
                 PROVE  FALSE
      OBVIOUS
    <2>1. 0 \in passed
      BY <1>1
    <2>2. ASSUME NEW n \in Nat, n \in passed
          PROVE  n + 1 \in passed
      <3>1. SUFFICES ASSUME NEW j \in first..(first + n), j <= Len(q)
                     PROVE  q[j].now
        BY <1>1
      <3>2. CASE j < first + n
        BY <1>1, <2>2, <3>1, <3>2
      <3>3. CASE j = first + n
        <4>1. \A k \in first..(j - 1) : q[k].now
          BY <1>1, <2>2, <3>1, <3>3
        <4>2. j \in first..(Len(q) + 1) /\ ~Slot(j)
          BY <1>1, <3>1
        <4>. QED
          BY <3>1, <4>1, <4>2
      <3>. QED
        BY <1>1, <3>2, <3>3
    <2>3. Len(q) + 1 - first \in passed
      <3> HIDE DEF passed
      <3>1. Len(q) + 1 - first \in Nat
        BY <1>1
      <3>. QED
        BY <2>1, <2>2, <3>1, Induction
    <2>4. Slot(Len(q) + 1)
      BY <1>1, <2>3
    <2>. QED
      BY <1>1, <2>4
  <1>3. SendNowSlot(q) = CHOOSE i \in first..(Len(q) + 1) : Slot(i)
    BY Zenon DEF SendNowSlot, first
  <1>4. SendNowSlot(q) \in first..(Len(q) + 1) /\ Slot(SendNowSlot(q))
    <2> HIDE DEF Slot
    <2>. QED
      BY <1>2, <1>3
  <1>5. Fronted(q) /\ running # None => first = 2
    BY AfterRunningIn DEF first
  <1>. QED
    BY <1>1, <1>4, <1>5 DEF first

\* A prompt that arrives is queued under its own id.
LEMMA NewItem ==
  ASSUME NEW p \in Prompts
  PROVE  Item(p) \in Items /\ Item(p).id = p
  BY QueueAssumption DEF Items, ItemsOf, Item

\* So is one that is marked as sent now.
LEMMA NowItem ==
  ASSUME NEW p \in Prompts
  PROVE  LET now == [Item(p) EXCEPT !.now = TRUE] IN now \in Items /\ now.id = p
  <1> DEFINE item == Item(p)
  <1>1. item \in Items /\ item.id = p
    BY NewItem
  <1> HIDE DEF item
  <1>2. [item EXCEPT !.now = TRUE] \in Items /\ [item EXCEPT !.now = TRUE].id = item.id
    BY <1>1 DEF Items, ItemsOf
  <1>. QED
    BY <1>1, <1>2 DEF item

\* Sending a prompt now (insert_send_now) adds it and keeps the running prompt
\* at the front.
LEMMA InsertNowQueue ==
  ASSUME NEW q, QueueOK(q), Fronted(q), NEW item \in Items, item.id \notin Ids(q)
  PROVE  LET r == InsertNow(q, item) IN
         QueueOK(r) /\ Ids(r) = Ids(q) \union {item.id} /\ Fronted(r)
  <1> DEFINE now == [item EXCEPT !.now = TRUE]
             n == SendNowSlot(q)
             r == InsertAt(q, n, now)
  <1>1. now \in Items /\ now.id = item.id
    BY DEF Items, ItemsOf
  <1>2. n \in 1..(Len(q) + 1) /\ (running # None => n # 1)
    BY SlotIn
  <1> HIDE DEF now, n
  <1>3. QueueOK(r) /\ Ids(r) = Ids(q) \union {item.id} /\ (n # 1 => SameFront(q, r))
    BY <1>1, <1>2, InsertQueue
  <1>4. InsertNow(q, item) = r
    BY DEF InsertNow, r, n, now
  <1> HIDE DEF r
  <1>5. Fronted(r)
    BY <1>2, <1>3, FrontKept DEF Fronted
  <1>. QED
    BY <1>3, <1>4, <1>5

\* An interjection queued at the front as a prompt leaves the running prompt
\* in front of it.
LEMMA AsPromptQueue ==
  ASSUME NEW q, QueueOK(q), Fronted(q), NEW i \in Interjections, i \notin Ids(q)
  PROVE  LET r == AsPrompt(q, i) IN
         QueueOK(r) /\ Ids(r) = Ids(q) \union {i} /\ Fronted(r)
  <1> DEFINE now == [Item(i) EXCEPT !.now = TRUE]
             n == AfterRunning(q)
             r == InsertAt(q, n, now)
  <1>1. now \in Items /\ now.id = i
    <2>1. i \in Prompts
      BY DEF Prompts
    <2>. QED
      BY <2>1, NowItem
  <1>2. n \in 1..(Len(q) + 1) /\ (running # None => n # 1)
    BY AfterRunningIn
  <1> HIDE DEF now, n
  <1>3. QueueOK(r) /\ Ids(r) = Ids(q) \union {i} /\ (n # 1 => SameFront(q, r))
    BY <1>1, <1>2, InsertQueue
  <1>4. AsPrompt(q, i) = r
    BY DEF AsPrompt, r, n, now
  <1> HIDE DEF r
  <1>5. Fronted(r)
    BY <1>2, <1>3, FrontKept DEF Fronted
  <1>. QED
    BY <1>3, <1>4, <1>5

\* A new prompt at the back leaves the running prompt at the front.
LEMMA AppendNew ==
  ASSUME NEW q, QueueOK(q), Fronted(q), NEW p \in Prompts, p \notin Ids(q)
  PROVE  LET r == Append(q, Item(p)) IN
         QueueOK(r) /\ Ids(r) = Ids(q) \union {p} /\ Fronted(r) /\ r # <<>>
  <1>1. Item(p) \in Items /\ Item(p).id = p
    BY NewItem
  <1> DEFINE r == Append(q, Item(p))
  <1>2. QueueOK(r) /\ Ids(r) = Ids(q) \union {p} /\ SameFront(q, r)
    BY <1>1, AppendQueue
  <1> HIDE DEF r
  <1>3. Fronted(r) /\ r # <<>>
    BY <1>2, FrontKept, QueueFacts
  <1>. QED
    BY <1>2, <1>3 DEF r

\* sweep_pending_inputs drops the named prompts, but never the running one.
LEMMA SweptQueue ==
  ASSUME NEW q, QueueOK(q), Fronted(q), NEW dropped
  PROVE  LET r == Swept(q, dropped) IN
         QueueOK(r) /\ Ids(r) = Ids(q) \ (dropped \ {running}) /\ Fronted(r)
  <1> DEFINE S == {p \in Prompts : p = running \/ p \notin dropped}
             r == Kept(q, ItemsOf(S))
  <1>1. /\ QueueOK(r) /\ Ids(r) = Ids(q) \intersect S
        /\ q # <<>> /\ q[1].id \in S => r # <<>> /\ r[1] = q[1]
    BY KeptQueue
  <1>2. Ids(q) \subseteq Prompts /\ (q # <<>> => q[1].id \in Prompts)
    <2>1. q # <<>> => 1 \in 1..Len(q)
      BY QueueFacts
    <2>. QED
      BY <2>1, QueueFacts
  <1>3. Fronted(r)
    BY <1>1, <1>2 DEF Fronted
  <1>4. Ids(r) = Ids(q) \ (dropped \ {running})
    BY <1>1, <1>2
  <1>. QED
    BY <1>1, <1>3, <1>4 DEF Swept

\* An edit in place changes neither who waits nor who is in front.
LEMMA EditQueue ==
  ASSUME NEW q, QueueOK(q), NEW i \in 1..Len(q), NEW item \in Items, item.id = q[i].id
  PROVE  LET r == [q EXCEPT ![i] = item] IN
         QueueOK(r) /\ Ids(r) = Ids(q) /\ SameFront(q, r)
  <1> DEFINE r == [q EXCEPT ![i] = item]
  <1>1. /\ q \in Seq(Items) /\ Len(q) \in Nat /\ DOMAIN q = 1..Len(q)
        /\ \A j, k \in 1..Len(q) : q[j].id = q[k].id => j = k
    BY DEF QueueOK
  <1>2. r \in Seq(Items) /\ Len(r) = Len(q) /\ DOMAIN r = 1..Len(q)
    BY <1>1
  <1>3. \A j \in 1..Len(q) : r[j].id = q[j].id
    BY <1>1
  <1> HIDE DEF r
  <1>4. QueueOK(r)
    BY <1>1, <1>2, <1>3 DEF QueueOK
  <1>5. Ids(r) = Ids(q)
    BY <1>1, <1>2, <1>3 DEF Ids
  <1>6. SameFront(q, r)
    BY <1>1, <1>2, <1>3 DEF SameFront
  <1>. QED
    BY <1>4, <1>5, <1>6 DEF r

\* A sequence of different elements.
Distinct(s) == \A i, j \in 1..Len(s) : s[i] = s[j] => i = j

\* Kept, seen as a set: the elements of S that were there, none of them twice.
LEMMA KeptElements ==
  ASSUME NEW T, NEW s \in Seq(T), NEW S
  PROVE  LET k == Kept(s, S) IN
         /\ k \in Seq(T) /\ ToSet(k) = ToSet(s) \intersect S
         /\ Distinct(s) => Distinct(k)
         /\ Len(k) <= Len(s)
  <1> DEFINE k == Kept(s, S)
  <1>1. k \in Seq(T) /\ \E at : Selects(at, k, s, Len(s), S)
    BY KeptSelects
  <1> HIDE DEF k
  <1>2. PICK at : Selects(at, k, s, Len(s), S)
    BY <1>1
  <1>3. Len(k) \in Nat /\ DOMAIN k = 1..Len(k) /\ Len(s) \in Nat /\ DOMAIN s = 1..Len(s)
    BY <1>1
  <1>4. /\ at \in [1..Len(k) -> 1..Len(s)]
        /\ \A i \in 1..Len(k) : at[i] \in 1..Len(s) /\ k[i] = s[at[i]] /\ k[i] \in S
        /\ \A i, j \in 1..Len(k) : i < j => at[i] < at[j]
        /\ \A m \in 1..Len(s) : s[m] \in S => \E i \in 1..Len(k) : at[i] = m
    BY <1>2 DEF Selects
  <1>5. ToSet(k) = ToSet(s) \intersect S
    <2>1. ToSet(k) \subseteq ToSet(s) \intersect S
      BY <1>3, <1>4 DEF ToSet
    <2>2. ASSUME NEW m \in 1..Len(s), s[m] \in S
          PROVE  s[m] \in ToSet(k)
      <3>1. PICK i \in 1..Len(k) : at[i] = m
        BY <1>4, <2>2
      <3>. QED
        BY <1>3, <1>4, <3>1 DEF ToSet
    <2>. QED
      BY <1>3, <2>1, <2>2 DEF ToSet
  <1>6. \A i, j \in 1..Len(k) : at[i] = at[j] => i = j
    <2> TAKE i, j \in 1..Len(k)
    <2> HAVE at[i] = at[j]
    <2>1. at[i] \in Nat /\ ~(i < j) /\ ~(j < i)
      BY <1>3, <1>4
    <2>. QED
      BY <1>3, <2>1
  <1>7. Distinct(s) => Distinct(k)
    BY <1>4, <1>6 DEF Distinct
  <1>8. Len(k) <= Len(s)
    <2>1. IsFiniteSet(1..Len(s)) /\ Cardinality(1..Len(s)) = Len(s)
      <3>1. 1 \in Int /\ Len(s) \in Int
        BY <1>3
      <3>2. IsFiniteSet(1..Len(s)) /\ Cardinality(1..Len(s)) = IF 1 > Len(s) THEN 0 ELSE Len(s) - 1 + 1
        BY <3>1, FS_Interval
      <3>. QED
        BY <1>3, <3>2
    <2>2. at \in Injection(1..Len(k), 1..Len(s))
      BY <1>4, <1>6 DEF Injection, IsInjective
    <2>3. IsFiniteSet(1..Len(k)) /\ Cardinality(1..Len(k)) = Len(k)
      <3>1. 1 \in Int /\ Len(k) \in Int
        BY <1>3
      <3>2. IsFiniteSet(1..Len(k)) /\ Cardinality(1..Len(k)) = IF 1 > Len(k) THEN 0 ELSE Len(k) - 1 + 1
        BY <3>1, FS_Interval
      <3>. QED
        BY <1>3, <3>2
    <2>4. Cardinality(1..Len(k)) <= Cardinality(1..Len(s))
      BY <2>1, <2>2, FS_Injection
    <2>. QED
      BY <2>1, <2>3, <2>4
  <1>. QED
    BY <1>1, <1>5, <1>7, <1>8 DEF k

\* A reorder request, whatever ids it names, loses no prompt, adds none and
\* keeps the running prompt at the front.
LEMMA ReorderedQueue ==
  ASSUME NEW q, QueueOK(q), Fronted(q),
         NEW order \in Seq(UserPrompts), Distinct(order)
  PROVE  LET r == Reordered(q, order) IN
         QueueOK(r) /\ Ids(r) = Ids(q) /\ Fronted(r)
  <1> DEFINE L == Listed(running)
             named == Kept(order, L \intersect Ids(q))
             top == Kept(q, ItemsOf(Prompts \ L))
             middle == [i \in DOMAIN named |-> q[Position(q, named[i])]]
             rest == Kept(q, ItemsOf(L \ ToSet(order)))
  <1>1. L \subseteq Prompts /\ running \notin L /\ Ids(q) \subseteq Prompts
    BY QueueFacts DEF Listed, Prompts
  <1> HIDE DEF L
  <1>2. /\ named \in Seq(UserPrompts) /\ Distinct(named)
        /\ ToSet(named) = ToSet(order) \intersect (L \intersect Ids(q))
    BY KeptElements
  <1> HIDE DEF named
  <1>3. /\ QueueOK(top) /\ Ids(top) = Ids(q) \ L /\ Fronted(top)
    <2>1. /\ QueueOK(top) /\ Ids(top) = Ids(q) \intersect (Prompts \ L)
          /\ q # <<>> /\ q[1].id \in Prompts \ L => top # <<>> /\ top[1] = q[1]
      <3>1. Prompts \ L \subseteq Prompts
        OBVIOUS
      <3>. QED
        BY <3>1, KeptQueue
    <2> HIDE DEF top
    <2>2. q # <<>> => q[1].id \in Prompts
      <3>1. q # <<>> => 1 \in 1..Len(q)
        BY QueueFacts
      <3>. QED
        BY <3>1, QueueFacts
    <2>. QED
      BY <1>1, <2>1, <2>2 DEF Fronted
  <1>4. QueueOK(rest) /\ Ids(rest) = Ids(q) \intersect (L \ ToSet(order))
    <2>1. L \ ToSet(order) \subseteq Prompts
      BY <1>1
    <2>. QED
      BY <2>1, KeptQueue
  <1> HIDE DEF top, rest
  <1>5. QueueOK(middle) /\ Ids(middle) = ToSet(named)
    <2>1. DOMAIN named = 1..Len(named) /\ Len(named) \in Nat
      BY <1>2
    <2>2. \A i \in 1..Len(named) : named[i] \in Ids(q)
      BY <1>2, <2>1 DEF ToSet
    <2>3. \A i \in 1..Len(named) : middle[i] \in Items /\ middle[i].id = named[i]
      BY <2>1, <2>2, PositionOf
    <2>4. middle \in Seq(Items) /\ Len(middle) = Len(named) /\ DOMAIN middle = 1..Len(named)
      BY <2>1, <2>3
    <2> HIDE DEF middle
    <2>5. QueueOK(middle)
      BY <1>2, <2>3, <2>4 DEF QueueOK, Distinct
    <2>6. Ids(middle) = ToSet(named)
      BY <2>1, <2>3, <2>4 DEF Ids, ToSet
    <2>. QED
      BY <2>5, <2>6
  <1> DEFINE left == top \o middle
             r == left \o rest
  <1> HIDE DEF middle
  <1>6. /\ QueueOK(left) /\ Ids(left) = Ids(top) \union Ids(middle)
        /\ SameFront(top, left)
    BY <1>2, <1>3, <1>5, ConcatQueue
  <1>7. Fronted(left)
    BY <1>3, <1>6, FrontKept
  <1> HIDE DEF left
  <1>8. QueueOK(r) /\ Ids(r) = Ids(left) \union Ids(rest) /\ SameFront(left, r)
    BY <1>2, <1>3, <1>4, <1>5, <1>6, ConcatQueue
  <1>9. Fronted(r)
    BY <1>7, <1>8, FrontKept
  <1>10. Ids(r) = Ids(q)
    BY <1>2, <1>3, <1>4, <1>5, <1>6, <1>8
  <1>11. Reordered(q, order) = r
    BY DEF Reordered, r, left, top, middle, rest, named, L
  <1> HIDE DEF r
  <1>. QED
    BY <1>8, <1>9, <1>10, <1>11

\* The queue when the stranded interjections and the goal's turn are in it.
Flushed(goal) ==
  LET base == IF goal = None THEN queue ELSE Append(queue, Item(goal))
      k == AfterRunning(base) - 1
      stranded == [i \in DOMAIN buffer |-> [Item(buffer[i]) EXCEPT !.now = TRUE]]
  IN  SubSeq(base, 1, k) \o stranded \o SubSeq(base, k + 1, Len(base))

\* The flush after a completion puts every stranded interjection and the goal's
\* next turn into the queue, behind a prompt that runs by then.
LEMMA FlushedQueue ==
  ASSUME QueueOK(queue), Fronted(queue), buffer \in Seq(Interjections), Distinct(buffer),
         ToSet(buffer) \intersect Ids(queue) = {},
         NEW goal \in Summaries \union {None},
         goal # None => goal \notin Ids(queue) \union ToSet(buffer)
  PROVE  /\ QueueOK(Flushed(goal)) /\ Fronted(Flushed(goal))
         /\ Ids(Flushed(goal)) = Ids(queue) \union ToSet(buffer) \union ({goal} \ {None})
  <1> DEFINE base == IF goal = None THEN queue ELSE Append(queue, Item(goal))
             k == AfterRunning(base) - 1
             stranded == [i \in DOMAIN buffer |-> [Item(buffer[i]) EXCEPT !.now = TRUE]]
             lo == SubSeq(base, 1, k)
             hi == SubSeq(base, k + 1, Len(base))
  <1>1. /\ QueueOK(base) /\ Fronted(base)
        /\ Ids(base) = Ids(queue) \union ({goal} \ {None})
    <2>1. CASE goal = None
      BY <2>1
    <2>2. CASE goal # None
      <3>1. goal \in Prompts /\ goal \notin Ids(queue)
        BY <2>2 DEF Prompts, Synthetic
      <3>2. LET r == Append(queue, Item(goal)) IN
            QueueOK(r) /\ Ids(r) = Ids(queue) \union {goal} /\ Fronted(r)
        BY <3>1, AppendNew
      <3>. QED
        BY <2>2, <3>2
    <2>. QED
      BY <2>1, <2>2
  <1>2. ToSet(buffer) \intersect Ids(base) = {}
    BY <1>1
  <1> HIDE DEF base
  <1>3. /\ Len(base) \in Nat /\ k \in 0..Len(base)
        /\ Fronted(base) /\ running # None => k # 0
    <2>1. Len(base) \in Nat
      BY <1>1, QueueFacts
    <2>. QED
      BY <1>1, <2>1, AfterRunningIn
  <1> HIDE DEF k
  <1>4. /\ QueueOK(lo) /\ QueueOK(hi)
        /\ Ids(lo) \intersect Ids(hi) = {} /\ Ids(lo) \union Ids(hi) = Ids(base)
        /\ k # 0 => lo # <<>> /\ lo[1] = base[1]
    <2>1. QueueOK(base) /\ k \in 0..Len(base)
      BY <1>1, <1>3
    <2>2. QueueOK(lo) /\ QueueOK(hi)
      BY <2>1, SplitQueue
    <2>3. Ids(lo) \intersect Ids(hi) = {} /\ Ids(lo) \union Ids(hi) = Ids(base)
      BY <2>1, SplitQueue
    <2>4. k # 0 => lo # <<>> /\ lo[1] = base[1]
      <3>1. base \in Seq(Items) /\ Len(base) \in Nat
        BY <1>1 DEF QueueOK
      <3>. QED
        BY <2>1, <3>1 DEF lo
    <2>. QED
      BY <2>2, <2>3, <2>4
  <1> HIDE DEF lo, hi
  <1>5. QueueOK(stranded) /\ Ids(stranded) = ToSet(buffer)
    <2>1. /\ DOMAIN buffer = 1..Len(buffer) /\ Len(buffer) \in Nat
          /\ \A i \in 1..Len(buffer) : buffer[i] \in Prompts
      BY DEF Prompts
    <2>2. \A i \in 1..Len(buffer) : stranded[i] \in Items /\ stranded[i].id = buffer[i]
      BY <2>1, NowItem
    <2>3. /\ stranded \in Seq(Items) /\ Len(stranded) = Len(buffer)
          /\ DOMAIN stranded = 1..Len(buffer)
      BY <2>1, <2>2
    <2> HIDE DEF stranded
    <2>4. QueueOK(stranded)
      BY <2>2, <2>3 DEF QueueOK, Distinct
    <2>5. Ids(stranded) = ToSet(buffer)
      BY <2>1, <2>2, <2>3 DEF Ids, ToSet
    <2>. QED
      BY <2>4, <2>5
  <1> HIDE DEF stranded
  <1> DEFINE left == lo \o stranded
             r == left \o hi
  <1>6. /\ QueueOK(left) /\ Ids(left) = Ids(lo) \union Ids(stranded)
        /\ SameFront(lo, left)
    BY <1>2, <1>4, <1>5, ConcatQueue
  <1> HIDE DEF left
  <1>7. QueueOK(r) /\ Ids(r) = Ids(left) \union Ids(hi) /\ SameFront(left, r)
    BY <1>2, <1>4, <1>5, <1>6, ConcatQueue
  <1>8. Flushed(goal) = r
    BY DEF Flushed, r, left, lo, hi, stranded, k, base
  <1> HIDE DEF r
  <1>9. Fronted(r)
    BY <1>1, <1>3, <1>4, <1>6, <1>7 DEF Fronted, SameFront
  <1>10. Ids(r) = Ids(queue) \union ToSet(buffer) \union ({goal} \ {None})
    BY <1>1, <1>4, <1>5, <1>6, <1>7
  <1>. QED
    BY <1>7, <1>8, <1>9, <1>10

-----------------------------------------------------------------------------
(* What the clients see of a queue.                                        *)

\* The items of which build_queue_wire makes rows.
Rows(q, r) == Kept(q, ItemsOf(Listed(r)))

\* What has the same rows is shown alike.
LEMMA SameRows ==
  ASSUME NEW q, NEW r, NEW t, NEW x, Rows(q, r) = Rows(t, x)
  PROVE  QueueWire(q, r) = QueueWire(t, x)
  BY DEF Rows, QueueWire

\* A part none of whose prompts is listed is not seen.
LEMMA UnlistedRows ==
  ASSUME NEW r, NEW s \in Seq(Items), \A i \in 1..Len(s) : s[i].id \notin Listed(r)
  PROVE  Rows(s, r) = <<>>
  <1>1. \A i \in 1..Len(s) : s[i] \notin ItemsOf(Listed(r))
    BY DEF ItemsOf
  <1>. QED
    BY <1>1, KeptNothing DEF Rows

\* The rows of two parts are the rows of the whole.
LEMMA ConcatRows ==
  ASSUME NEW r, NEW s \in Seq(Items), NEW t \in Seq(Items)
  PROVE  Rows(s \o t, r) = Rows(s, r) \o Rows(t, r)
  BY KeptConcat DEF Rows

\* Rows are items.
LEMMA RowsTyped ==
  ASSUME NEW r, NEW s \in Seq(Items)
  PROVE  Rows(s, r) \in Seq(Items)
  BY KeptSelects DEF Rows

\* What is put into a queue and not listed is not seen.
LEMMA UnseenBetween ==
  ASSUME NEW r, NEW s \in Seq(Items), NEW mid \in Seq(Items), NEW t \in Seq(Items),
         \A i \in 1..Len(mid) : mid[i].id \notin Listed(r)
  PROVE  Rows((s \o mid) \o t, r) = Rows(s \o t, r)
  <1> DEFINE left == s \o mid
  <1>1. left \in Seq(Items)
    BY ConcatProperties
  <1>2. Rows(left, r) = Rows(s, r) \o Rows(mid, r)
    BY ConcatRows
  <1>3. Rows(mid, r) = <<>>
    BY UnlistedRows
  <1> DEFINE a == Rows(s, r)
  <1>4. a \in Seq(Items)
    BY RowsTyped
  <1>5. a \o <<>> = a
    <2> HIDE DEF a
    <2>. QED
      BY <1>4, ConcatEmptySeq
  <1>6. Rows(left, r) = Rows(s, r)
    BY <1>2, <1>3, <1>5
  <1> HIDE DEF left, a
  <1>7. Rows(left \o t, r) = Rows(left, r) \o Rows(t, r)
    BY <1>1, ConcatRows
  <1>8. Rows(s \o t, r) = Rows(s, r) \o Rows(t, r)
    BY ConcatRows
  <1>. QED
    BY <1>6, <1>7, <1>8 DEF left

\* A prompt nobody is shown goes to the end of the queue.
LEMMA UnseenAppend ==
  ASSUME NEW r, NEW q \in Seq(Items), NEW item \in Items, item.id \notin Listed(r)
  PROVE  QueueWire(Append(q, item), r) = QueueWire(q, r)
  <1> DEFINE one == <<item>>
  <1>1. one \in Seq(Items) /\ Len(one) = 1 /\ one[1] = item
    OBVIOUS
  <1>2. Append(q, item) = q \o one
    BY AppendIsConcat
  <1>3. \A i \in 1..Len(one) : one[i].id \notin Listed(r)
    BY <1>1
  <1> HIDE DEF one
  <1>4. Rows(q \o one, r) = Rows(q, r) \o Rows(one, r) /\ Rows(one, r) = <<>>
    BY <1>1, <1>3, ConcatRows, UnlistedRows
  <1> DEFINE a == Rows(q, r)
  <1>5. a \in Seq(Items)
    BY RowsTyped
  <1>6. a \o <<>> = a
    <2> HIDE DEF a
    <2>. QED
      BY <1>5, ConcatEmptySeq
  <1>7. Rows(Append(q, item), r) = Rows(q, r)
    BY <1>2, <1>4, <1>6
  <1>. QED
    BY <1>7, SameRows

\* A queue is its beginning, and the rest.
LEMMA SplitWhole ==
  ASSUME NEW q \in Seq(Items), NEW n \in 0..Len(q)
  PROVE  /\ SubSeq(q, 1, n) \in Seq(Items) /\ SubSeq(q, n + 1, Len(q)) \in Seq(Items)
         /\ SubSeq(q, 1, n) \o SubSeq(q, n + 1, Len(q)) = q
  <1> DEFINE lo == SubSeq(q, 1, n)
             hi == SubSeq(q, n + 1, Len(q))
  <1>1. lo \in Seq(Items) /\ hi \in Seq(Items)
    BY SubSeqProperties
  <1>2. lo \o hi = q
    <2>1. /\ Len(q) \in Nat /\ Len(lo) = n /\ Len(hi) = Len(q) - n
          /\ \A i \in 1..n : lo[i] = q[i]
          /\ \A i \in 1..(Len(q) - n) : hi[i] = q[n + i]
      OBVIOUS
    <2> HIDE DEF lo, hi
    <2>2. /\ lo \o hi \in Seq(Items) /\ Len(lo \o hi) = Len(q)
          /\ \A i \in 1..n : (lo \o hi)[i] = q[i]
      <3>1. /\ lo \o hi \in Seq(Items) /\ Len(lo \o hi) = Len(lo) + Len(hi)
            /\ \A i \in 1..Len(lo) : (lo \o hi)[i] = lo[i]
        BY <1>1, ConcatProperties
      <3>. QED
        BY <2>1, <3>1
    <2>3. \A i \in 1..Len(q) : i \notin 1..n => (lo \o hi)[i] = q[i]
      <3> TAKE i \in 1..Len(q)
      <3> HAVE i \notin 1..n
      <3>1. i - n \in 1..(Len(q) - n) /\ n + (i - n) = i /\ i > n
        BY <2>1
      <3>. QED
        <4>1. \A j \in 1..Len(hi) : (lo \o hi)[Len(lo) + j] = hi[j]
          BY <1>1, ConcatProperties
        <4>. QED
          BY <2>1, <3>1, <4>1
    <2> DEFINE t == lo \o hi
    <2>4. t \in Seq(Items) /\ Len(t) = Len(q) /\ \A i \in 1..Len(q) : t[i] = q[i]
      BY <2>2, <2>3
    <2> HIDE DEF t
    <2>5. t = q
      BY <2>4, SeqEqual
    <2>. QED
      BY <2>5 DEF t
  <1>. QED
    BY <1>1, <1>2 DEF lo, hi

\* So do prompts that are no rows, anywhere in the queue.
LEMMA UnseenInside ==
  ASSUME NEW r, NEW q \in Seq(Items), NEW n \in 0..Len(q), NEW mid \in Seq(Items),
         \A i \in 1..Len(mid) : mid[i].id \notin Listed(r)
  PROVE  QueueWire(SubSeq(q, 1, n) \o mid \o SubSeq(q, n + 1, Len(q)), r) = QueueWire(q, r)
  <1> DEFINE lo == SubSeq(q, 1, n)
             hi == SubSeq(q, n + 1, Len(q))
  <1>1. lo \in Seq(Items) /\ hi \in Seq(Items)
    BY SplitWhole
  <1>2. lo \o hi = q
    BY SplitWhole
  <1> HIDE DEF lo, hi
  <1>3. Rows((lo \o mid) \o hi, r) = Rows(lo \o hi, r)
    BY <1>1, UnseenBetween
  <1>4. QueueWire((lo \o mid) \o hi, r) = QueueWire(lo \o hi, r)
    BY <1>3, SameRows
  <1>. QED
    BY <1>2, <1>4 DEF lo, hi

\* The running prompt leaves the front, and with it the slot: it was not seen.
LEMMA UnseenFront ==
  ASSUME NEW q, QueueOK(q), q # <<>>
  PROVE  QueueWire(Tail(q), None) = QueueWire(q, q[1].id)
  <1> DEFINE x == q[1].id
             front == <<q[1]>>
             rest == Tail(q)
  <1>1. /\ q \in Seq(Items) /\ rest \in Seq(Items) /\ front \in Seq(Items)
        /\ Len(front) = 1 /\ front[1] = q[1] /\ q = front \o rest
        /\ Len(rest) = Len(q) - 1 /\ Len(q) \in Nat
        /\ \A i \in 1..Len(rest) : rest[i] = q[i + 1] /\ i + 1 \in 1..Len(q) /\ i + 1 # 1
    BY DEF QueueOK
  <1>2. \A i \in 1..Len(rest) : rest[i] \in Items /\ rest[i].id # x
    BY <1>1 DEF QueueOK
  <1>3. \A i \in 1..Len(front) : front[i].id \notin Listed(x)
    BY <1>1 DEF Listed
  <1>4. \A i \in 1..Len(rest) : rest[i] \in ItemsOf(Listed(None)) <=> rest[i] \in ItemsOf(Listed(x))
    <2>1. None \notin UserPrompts
      BY QueueAssumption DEF Prompts
    <2>. QED
      BY <1>2, <2>1 DEF ItemsOf, Listed
  <1> HIDE DEF x, front, rest
  <1>5. Rows(rest, None) = Rows(rest, x)
    BY <1>1, <1>4, KeptSame DEF Rows
  <1>6. Rows(front \o rest, x) = Rows(front, x) \o Rows(rest, x) /\ Rows(front, x) = <<>>
    BY <1>1, <1>3, ConcatRows, UnlistedRows
  <1> DEFINE a == Rows(rest, x)
  <1>7. a \in Seq(Items)
    BY <1>1, RowsTyped
  <1>8. <<>> \o a = a
    <2> HIDE DEF a
    <2>. QED
      BY <1>7, ConcatEmptySeq
  <1>9. Rows(rest, None) = Rows(q, x)
    BY <1>1, <1>5, <1>6, <1>8
  <1>. QED
    BY <1>9, SameRows DEF rest, x

\* A sweep of prompts no client has sent takes no row away.
LEMMA UnseenSweep ==
  ASSUME NEW q, QueueOK(q), NEW dropped, dropped \intersect UserPrompts = {}
  PROVE  QueueWire(Swept(q, dropped), running) = QueueWire(q, running)
  <1> DEFINE A == ItemsOf({p \in Prompts : p = running \/ p \notin dropped})
             B == ItemsOf(Listed(running))
  <1>1. q \in Seq(Items)
    BY DEF QueueOK
  <1>2. \A i \in 1..Len(q) : q[i] \in B => q[i] \in A
    BY DEF ItemsOf, Listed, Prompts
  <1> HIDE DEF A, B
  <1>3. Kept(Kept(q, A), B) = Kept(q, B)
    BY <1>1, <1>2, KeptKept
  <1>4. Rows(Swept(q, dropped), running) = Rows(q, running)
    BY <1>3 DEF Rows, Swept, A, B
  <1>. QED
    BY <1>4, SameRows

\* An empty queue has nothing to show.
LEMMA NothingSeen ==
  ASSUME NEW r, NEW x
  PROVE  QueueWire(<<>>, r) = QueueWire(<<>>, x) /\ QueueWire(<<>>, r) = <<>>
  <1> DEFINE s == <<>>
  <1>1. s \in Seq(Items) 
    OBVIOUS
  <1>2. \A i \in 1..Len(s) : FALSE
    OBVIOUS
  <1> HIDE DEF s
  <1>3. Rows(s, r) = <<>> /\ Rows(s, x) = <<>>
    BY <1>1, <1>2, UnlistedRows
  <1>4. QueueWire(s, r) = <<>> /\ QueueWire(s, x) = <<>>
    BY <1>3 DEF Rows, QueueWire
  <1>. QED
    BY <1>4 DEF s

-----------------------------------------------------------------------------
(* The order of the queue.                                                 *)

\* x waits in front of y.
Ahead(q, x, y) == \E i, j \in 1..Len(q) : i < j /\ q[i].id = x /\ q[j].id = y

\* That is what the positions say.
LEMMA BeforeIsAhead ==
  ASSUME NEW q, QueueOK(q), NEW x, NEW y
  PROVE  Before(q, x, y) <=> Ahead(q, x, y)
  <1>1. /\ DOMAIN q = 1..Len(q) /\ Len(q) \in Nat
        /\ \A i, j \in 1..Len(q) : q[i].id = q[j].id => i = j
        /\ \A i \in 1..Len(q) : q[i].id \in Ids(q)
    BY QueueFacts DEF QueueOK
  <1>2. \A p \in Ids(q) : Position(q, p) \in 1..Len(q) /\ q[Position(q, p)].id = p
    BY PositionOf
  <1>3. \A i \in 1..Len(q) : Position(q, q[i].id) = i
    BY <1>1, <1>2
  <1>4. ASSUME Before(q, x, y) PROVE Ahead(q, x, y)
    <2>1. x \in Ids(q) /\ y \in Ids(q) /\ Position(q, x) < Position(q, y)
      BY <1>4 DEF Before
    <2>. QED
      BY <1>2, <2>1 DEF Ahead
  <1>5. ASSUME Ahead(q, x, y) PROVE Before(q, x, y)
    <2>1. PICK i, j \in 1..Len(q) : i < j /\ q[i].id = x /\ q[j].id = y
      BY <1>5 DEF Ahead
    <2>2. Position(q, x) = i /\ Position(q, y) = j
      BY <1>3, <2>1
    <2>. QED
      BY <1>1, <2>1, <2>2 DEF Before
  <1>. QED
    BY <1>4, <1>5

\* Of two prompts one is ahead.
LEMMA AheadTotal ==
  ASSUME NEW q, QueueOK(q), NEW x, NEW y
  PROVE  /\ Ahead(q, x, y) => x \in Ids(q) /\ y \in Ids(q) /\ x # y /\ ~Ahead(q, y, x)
         /\ x \in Ids(q) /\ y \in Ids(q) /\ x # y => Ahead(q, x, y) \/ Ahead(q, y, x)
  <1>1. /\ Len(q) \in Nat
        /\ \A i, j \in 1..Len(q) : q[i].id = q[j].id => i = j
        /\ \A i \in 1..Len(q) : q[i].id \in Ids(q)
        /\ \A p \in Ids(q) : \E i \in 1..Len(q) : q[i].id = p
    BY QueueFacts DEF QueueOK
  <1>2. ASSUME Ahead(q, x, y)
        PROVE  x \in Ids(q) /\ y \in Ids(q) /\ x # y /\ ~Ahead(q, y, x)
    <2>1. PICK i, j \in 1..Len(q) : i < j /\ q[i].id = x /\ q[j].id = y
      BY <1>2 DEF Ahead
    <2>2. ASSUME Ahead(q, y, x) PROVE FALSE
      <3>1. PICK m, n \in 1..Len(q) : m < n /\ q[m].id = y /\ q[n].id = x
        BY <2>2 DEF Ahead
      <3>2. m = j /\ n = i
        BY <1>1, <2>1, <3>1
      <3>. QED
        BY <1>1, <2>1, <3>1, <3>2
    <2>3. x # y
      BY <1>1, <2>1
    <2>. QED
      BY <1>1, <2>1, <2>2, <2>3
  <1>3. ASSUME x \in Ids(q), y \in Ids(q), x # y
        PROVE  Ahead(q, x, y) \/ Ahead(q, y, x)
    <2>1. PICK i \in 1..Len(q) : q[i].id = x
      BY <1>1, <1>3
    <2>2. PICK j \in 1..Len(q) : q[j].id = y
      BY <1>1, <1>3
    <2>3. i < j \/ j < i
      BY <1>1, <1>3, <2>1, <2>2
    <2>. QED
      BY <2>1, <2>2, <2>3 DEF Ahead
  <1>. QED
    BY <1>2, <1>3

\* Who is in two parts.
LEMMA ConcatIds ==
  ASSUME NEW q \in Seq(Items), NEW t \in Seq(Items)
  PROVE  Ids(q \o t) = Ids(q) \union Ids(t)
  <1> DEFINE r == q \o t
             m == Len(q)
             n == Len(t)
  <1>1. /\ r \in Seq(Items) /\ m \in Nat /\ n \in Nat /\ Len(r) = m + n
        /\ \A i \in 1..m : r[i] = q[i]
        /\ \A i \in 1..n : r[m + i] = t[i]
    BY ConcatProperties
  <1>2. /\ Ids(q) = {q[i].id : i \in 1..m} /\ Ids(t) = {t[i].id : i \in 1..n}
        /\ Ids(r) = {r[i].id : i \in 1..(m + n)}
    <2>1. DOMAIN q = 1..m /\ DOMAIN t = 1..n /\ DOMAIN r = 1..(m + n)
      BY <1>1
    <2> HIDE DEF r, m, n
    <2>. QED
      BY <2>1 DEF Ids
  <1> HIDE DEF r, m, n
  <1>3. \A i \in 1..(m + n) : i \in 1..m \/ \E j \in 1..n : i = m + j
    <2> TAKE i \in 1..(m + n)
    <2>1. i \notin 1..m => i - m \in 1..n /\ i = m + (i - m)
      BY <1>1
    <2>. QED
      BY <2>1
  <1>4. Ids(r) \subseteq Ids(q) \union Ids(t)
    <2> SUFFICES ASSUME NEW i \in 1..(m + n) PROVE r[i].id \in Ids(q) \union Ids(t)
      BY <1>2
    <2>1. CASE i \in 1..m
      BY <1>1, <1>2, <2>1
    <2>2. ASSUME NEW j \in 1..n, i = m + j PROVE r[i].id \in Ids(t)
      BY <1>1, <1>2, <2>2
    <2>. QED
      BY <1>3, <2>1, <2>2
  <1>5. Ids(q) \subseteq Ids(r)
    BY <1>1, <1>2
  <1>6. Ids(t) \subseteq Ids(r)
    <2>1. \A i \in 1..n : m + i \in 1..(m + n)
      BY <1>1
    <2>. QED
      BY <1>1, <1>2, <2>1
  <1>. QED
    BY <1>4, <1>5, <1>6 DEF r

\* The first part of a queue is ahead of the second.
LEMMA AheadConcat ==
  ASSUME NEW q \in Seq(Items), NEW t \in Seq(Items), NEW x, NEW y
  PROVE  Ahead(q \o t, x, y) <=> \/ Ahead(q, x, y)
                                 \/ Ahead(t, x, y)
                                 \/ x \in Ids(q) /\ y \in Ids(t)
  <1> DEFINE r == q \o t
             m == Len(q)
             n == Len(t)
  <1>1. /\ r \in Seq(Items) /\ m \in Nat /\ n \in Nat /\ Len(r) = m + n
        /\ \A i \in 1..m : r[i] = q[i]
        /\ \A i \in 1..n : r[m + i] = t[i]
    BY ConcatProperties
  <1>2. /\ \A p : p \in Ids(q) <=> \E i \in 1..m : q[i].id = p
        /\ \A p : p \in Ids(t) <=> \E i \in 1..n : t[i].id = p
    BY DEF Ids
  <1>3. /\ Ahead(r, x, y) <=> \E i, j \in 1..(m + n) : i < j /\ r[i].id = x /\ r[j].id = y
        /\ Ahead(q, x, y) <=> \E i, j \in 1..m : i < j /\ q[i].id = x /\ q[j].id = y
        /\ Ahead(t, x, y) <=> \E i, j \in 1..n : i < j /\ t[i].id = x /\ t[j].id = y
    BY <1>1 DEF Ahead
  <1> HIDE DEF r, m, n
  <1>4. \A i \in 1..m : i \in 1..(m + n)
    BY <1>1
  <1>5. \A i \in 1..n : m + i \in 1..(m + n)
    BY <1>1
  <1>6. \A i \in 1..(m + n) : i \notin 1..m => i - m \in 1..n /\ r[i] = t[i - m]
    <2> TAKE i \in 1..(m + n)
    <2> HAVE i \notin 1..m
    <2>1. i - m \in 1..n /\ m + (i - m) = i
      BY <1>1
    <2>. QED
      BY <1>1, <2>1
  <1>7. ASSUME Ahead(r, x, y)
        PROVE  Ahead(q, x, y) \/ Ahead(t, x, y) \/ (x \in Ids(q) /\ y \in Ids(t))
    <2>1. PICK i, j \in 1..(m + n) : i < j /\ r[i].id = x /\ r[j].id = y
      BY <1>3, <1>7
    <2>2. CASE j \in 1..m
      <3>1. i \in 1..m /\ q[i].id = x /\ q[j].id = y
        BY <1>1, <2>1, <2>2
      <3>. QED
        BY <1>3, <2>1, <2>2, <3>1
    <2>3. CASE i \notin 1..m /\ j \notin 1..m
      <3>1. i - m \in 1..n /\ j - m \in 1..n /\ t[i - m].id = x /\ t[j - m].id = y
        BY <1>6, <2>1, <2>3
      <3>2. i - m < j - m
        BY <1>1, <2>1
      <3>. QED
        BY <1>3, <3>1, <3>2
    <2>4. CASE i \in 1..m /\ j \notin 1..m
      <3>1. q[i].id = x /\ j - m \in 1..n /\ t[j - m].id = y
        BY <1>1, <1>6, <2>1, <2>4
      <3>. QED
        BY <1>2, <2>4, <3>1
    <2>. QED
      BY <2>2, <2>3, <2>4
  <1>8. ASSUME Ahead(q, x, y) PROVE Ahead(r, x, y)
    <2>1. PICK i, j \in 1..m : i < j /\ q[i].id = x /\ q[j].id = y
      BY <1>3, <1>8
    <2>2. r[i].id = x /\ r[j].id = y /\ i \in 1..(m + n) /\ j \in 1..(m + n)
      BY <1>1, <1>4, <2>1
    <2>. QED
      BY <1>3, <2>1, <2>2
  <1>9. ASSUME Ahead(t, x, y) PROVE Ahead(r, x, y)
    <2>1. PICK i, j \in 1..n : i < j /\ t[i].id = x /\ t[j].id = y
      BY <1>3, <1>9
    <2>2. r[m + i].id = x /\ r[m + j].id = y /\ m + i \in 1..(m + n) /\ m + j \in 1..(m + n)
      BY <1>1, <1>5, <2>1
    <2>3. m + i < m + j
      BY <1>1, <2>1
    <2>. QED
      BY <1>3, <2>2, <2>3
  <1>10. ASSUME x \in Ids(q), y \in Ids(t) PROVE Ahead(r, x, y)
    <2>1. PICK i \in 1..m : q[i].id = x
      BY <1>2, <1>10
    <2>2. PICK j \in 1..n : t[j].id = y
      BY <1>2, <1>10
    <2>3. r[i].id = x /\ r[m + j].id = y /\ i \in 1..(m + n) /\ m + j \in 1..(m + n)
      BY <1>1, <1>4, <1>5, <2>1, <2>2
    <2>4. i < m + j
      BY <1>1, <2>1, <2>2
    <2>. QED
      BY <1>3, <2>3, <2>4
  <1>11. r = q \o t
    BY DEF r
  <1>. QED
    BY <1>7, <1>8, <1>9, <1>10, <1>11

\* r has the prompts of q, in their order.
Within(q, r) == \A x, y : Ahead(q, x, y) => Ahead(r, x, y)

\* The items of r are items of q, in the order of q.
Part(r, q) ==
  Within(r, q) /\ \A j \in 1..Len(r) : \E i \in 1..Len(q) : r[j] = q[i]

\* So it is when r picks positions of q in rising order, ...
LEMMA PicksPart ==
  ASSUME NEW q, NEW r, NEW at,
         \A j \in 1..Len(r) : at[j] \in 1..Len(q) /\ r[j] = q[at[j]],
         \A i, j \in 1..Len(r) : i < j => at[i] < at[j]
  PROVE  Part(r, q)
  <1>1. ASSUME NEW x, NEW y, Ahead(r, x, y) PROVE Ahead(q, x, y)
    <2>1. PICK i, j \in 1..Len(r) : i < j /\ r[i].id = x /\ r[j].id = y
      BY <1>1 DEF Ahead
    <2>2. /\ at[i] \in 1..Len(q) /\ at[j] \in 1..Len(q) /\ at[i] < at[j]
          /\ q[at[i]].id = x /\ q[at[j]].id = y
      BY <2>1
    <2>. QED
      BY <2>2 DEF Ahead
  <1>2. \A j \in 1..Len(r) : \E i \in 1..Len(q) : r[j] = q[i]
    OBVIOUS
  <1>. QED
    BY <1>1, <1>2 DEF Part, Within

\* ... as a selection does, ...
LEMMA KeptPart ==
  ASSUME NEW q \in Seq(Items), NEW S
  PROVE  Part(Kept(q, S), q)
  <1> DEFINE k == Kept(q, S)
  <1>1. k \in Seq(Items) /\ \E at : Selects(at, k, q, Len(q), S)
    BY KeptSelects
  <1> HIDE DEF k
  <1>2. PICK at : Selects(at, k, q, Len(q), S)
    BY <1>1
  <1>3. /\ \A i \in 1..Len(k) : at[i] \in 1..Len(q) /\ k[i] = q[at[i]]
        /\ \A i, j \in 1..Len(k) : i < j => at[i] < at[j]
    BY <1>2 DEF Selects
  <1>4. Part(k, q)
    BY <1>3, PicksPart
  <1>. QED
    BY <1>4 DEF k

\* ... a removal, ...
LEMMA RemovePart ==
  ASSUME NEW q \in Seq(Items), NEW n \in 1..Len(q)
  PROVE  Part(RemoveAt(q, n), q)
  <1> DEFINE lo == SubSeq(q, 1, n - 1)
             hi == SubSeq(q, n + 1, Len(q))
             r == lo \o hi
             at == [j \in 1..Len(r) |-> IF j < n THEN j ELSE j + 1]
  <1>1. Len(q) \in Nat /\ n - 1 \in 0..Len(q) /\ n \in 1..Len(q)
    OBVIOUS
  <1>2. lo \in Seq(Items) /\ hi \in Seq(Items)
    BY <1>1, SubSeqProperties
  <1>3. /\ Len(lo) = n - 1 /\ Len(hi) = Len(q) - n
        /\ \A i \in 1..(n - 1) : lo[i] = q[i]
        /\ \A i \in 1..(Len(q) - n) : hi[i] = q[n + i]
    BY <1>1
  <1> HIDE DEF lo, hi
  <1>4. /\ Len(r) = Len(q) - 1
        /\ \A i \in 1..(n - 1) : r[i] = q[i]
        /\ \A i \in 1..(Len(q) - n) : r[(n - 1) + i] = q[n + i]
    <2>1. /\ Len(r) = Len(lo) + Len(hi)
          /\ \A i \in 1..Len(lo) : r[i] = lo[i]
          /\ \A i \in 1..Len(hi) : r[Len(lo) + i] = hi[i]
      BY <1>2, ConcatProperties
    <2> HIDE DEF r
    <2>2. Len(r) = Len(q) - 1
      BY ONLY <1>1, <1>3, <2>1
    <2>3. \A i \in 1..(n - 1) : r[i] = q[i]
      BY ONLY <1>3, <2>1
    <2>4. \A i \in 1..(Len(q) - n) : r[(n - 1) + i] = q[n + i]
      BY ONLY <1>3, <2>1
    <2>. QED
      BY <2>2, <2>3, <2>4
  <1>5. RemoveAt(q, n) = r
    BY DEF RemoveAt, r, lo, hi
  <1> HIDE DEF r
  <1>6. ASSUME NEW j \in 1..Len(r)
        PROVE  at[j] \in 1..Len(q) /\ r[j] = q[at[j]]
    <2>0. at[j] = IF j < n THEN j ELSE j + 1
      OBVIOUS
    <2> HIDE DEF at
    <2>1. CASE j < n
      BY <1>1, <1>4, <2>0, <2>1
    <2>2. CASE ~(j < n)
      <3>1. j - (n - 1) \in 1..(Len(q) - n) /\ (n - 1) + (j - (n - 1)) = j /\ n + (j - (n - 1)) = j + 1
        BY <1>1, <1>4, <2>2
      <3>. QED
        BY <1>1, <1>4, <2>0, <2>2, <3>1
    <2>. QED
      BY <2>1, <2>2
  <1>7. \A i, j \in 1..Len(r) : i < j => at[i] < at[j]
    BY <1>1, <1>4
  <1> HIDE DEF at
  <1>8. Part(r, q)
    BY <1>6, <1>7, PicksPart
  <1>. QED
    BY <1>5, <1>8

\* ... and pop_front.
LEMMA TailPart ==
  ASSUME NEW q \in Seq(Items), q # <<>>
  PROVE  Part(Tail(q), q)
  <1> DEFINE r == Tail(q)
             at == [j \in 1..Len(r) |-> j + 1]
  <1>1. /\ Len(q) \in Nat /\ Len(r) = Len(q) - 1
        /\ \A j \in 1..Len(r) : at[j] = j + 1 /\ j + 1 \in 1..Len(q) /\ r[j] = q[j + 1]
    OBVIOUS
  <1> HIDE DEF r, at
  <1>2. \A j \in 1..Len(r) : at[j] \in 1..Len(q) /\ r[j] = q[at[j]]
    BY <1>1
  <1>3. \A i, j \in 1..Len(r) : i < j => at[i] < at[j]
    BY <1>1
  <1>4. Part(r, q)
    BY <1>2, <1>3, PicksPart
  <1>. QED
    BY <1>4 DEF r

\* With something put in between, what was there stays in order.
LEMMA AheadInside ==
  ASSUME NEW lo \in Seq(Items), NEW mid \in Seq(Items), NEW hi \in Seq(Items), NEW x, NEW y
  PROVE  /\ Ahead(lo \o hi, x, y) => Ahead(lo \o mid \o hi, x, y)
         /\ Ahead(lo \o mid \o hi, x, y) =>
              \/ Ahead(lo \o hi, x, y) \/ Ahead(mid, x, y)
              \/ x \in Ids(lo) /\ y \in Ids(mid)
              \/ x \in Ids(mid) /\ y \in Ids(hi)
  <1> DEFINE left == lo \o mid
  <1>1. left \in Seq(Items)
    BY ConcatProperties
  <1>2. Ids(left) = Ids(lo) \union Ids(mid)
    BY ConcatIds
  <1>3. Ahead(left, x, y) <=> \/ Ahead(lo, x, y) \/ Ahead(mid, x, y)
                              \/ x \in Ids(lo) /\ y \in Ids(mid)
    BY AheadConcat
  <1> HIDE DEF left
  <1>4. Ahead(left \o hi, x, y) <=> \/ Ahead(left, x, y) \/ Ahead(hi, x, y)
                                    \/ x \in Ids(left) /\ y \in Ids(hi)
    BY <1>1, AheadConcat
  <1>5. Ahead(lo \o hi, x, y) <=> \/ Ahead(lo, x, y) \/ Ahead(hi, x, y)
                                  \/ x \in Ids(lo) /\ y \in Ids(hi)
    BY AheadConcat
  <1>6. Ahead(left \o hi, x, y) <=> Ahead(lo \o mid \o hi, x, y)
    BY DEF left
  <1>. QED
    BY <1>2, <1>3, <1>4, <1>5, <1>6

-----------------------------------------------------------------------------
(* What an arm may do to the order.                                        *)

\* A wake is never sent now.
Unhurried(q) == \A i \in 1..Len(q) : q[i].id \in Wakes => ~q[i].now

\* Who is in both keeps the order, and no wake gets ahead of a user's prompt.
Orderly(q, r) ==
  /\ Unhurried(r)
  /\ \A x, y \in Ids(q) \intersect Ids(r) : Ahead(q, x, y) => Ahead(r, x, y)
  /\ \A w \in Wakes, u \in UserPrompts : Ahead(r, w, u) /\ w # running => Ahead(q, w, u)

\* Nothing happens.
LEMMA OrderlyStill ==
  ASSUME NEW q, Unhurried(q)
  PROVE  Orderly(q, q)
  BY DEF Orderly

\* One thing after the other, when what left did not come back.
LEMMA OrderlyTwice ==
  ASSUME NEW q, NEW b, NEW r, Orderly(q, b), Orderly(b, r),
         Ids(q) \intersect Ids(r) \subseteq Ids(b)
  PROVE  Orderly(q, r)
  BY DEF Orderly

\* Prompts are taken out.
LEMMA OrderlyPart ==
  ASSUME NEW q, QueueOK(q), Unhurried(q), NEW r, QueueOK(r), Part(r, q)
  PROVE  Orderly(q, r)
  <1>1. Unhurried(r)
    BY DEF Unhurried, Part
  <1>2. ASSUME NEW x \in Ids(q) \intersect Ids(r), NEW y \in Ids(q) \intersect Ids(r),
               Ahead(q, x, y)
        PROVE  Ahead(r, x, y)
    <2>1. x # y /\ ~Ahead(q, y, x)
      BY <1>2, AheadTotal
    <2>2. Ahead(r, x, y) \/ Ahead(r, y, x)
      BY <2>1, AheadTotal
    <2>. QED
      BY <2>1, <2>2 DEF Part, Within
  <1>. QED
    BY <1>1, <1>2 DEF Orderly, Part, Within

\* Items in two parts.
LEMMA UnhurriedConcat ==
  ASSUME NEW q \in Seq(Items), NEW t \in Seq(Items)
  PROVE  Unhurried(q \o t) <=> Unhurried(q) /\ Unhurried(t)
  <1> DEFINE r == q \o t
             m == Len(q)
             n == Len(t)
  <1>1. /\ m \in Nat /\ n \in Nat /\ Len(r) = m + n
        /\ \A i \in 1..m : r[i] = q[i]
        /\ \A i \in 1..n : r[m + i] = t[i]
    BY ConcatProperties
  <1>2. /\ Unhurried(r) <=> \A i \in 1..(m + n) : r[i].id \in Wakes => ~r[i].now
        /\ Unhurried(q) <=> \A i \in 1..m : q[i].id \in Wakes => ~q[i].now
        /\ Unhurried(t) <=> \A i \in 1..n : t[i].id \in Wakes => ~t[i].now
    BY <1>1 DEF Unhurried
  <1> HIDE DEF r, m, n
  <1>3. \A i \in 1..(m + n) : i \in 1..m \/ \E j \in 1..n : i = m + j
    <2> TAKE i \in 1..(m + n)
    <2>1. i \notin 1..m => i - m \in 1..n /\ i = m + (i - m)
      BY <1>1
    <2>. QED
      BY <2>1
  <1>4. \A i \in 1..m : i \in 1..(m + n)
    BY <1>1
  <1>5. \A i \in 1..n : m + i \in 1..(m + n)
    BY <1>1
  <1>6. Unhurried(r) <=> Unhurried(q) /\ Unhurried(t)
    BY <1>1, <1>2, <1>3, <1>4, <1>5
  <1>. QED
    BY <1>6 DEF r

\* Prompts are put in between: no wakes, unless they are the last, and a user's
\* only behind no wake but the running one.
LEMMA OrderlyInside ==
  ASSUME NEW lo \in Seq(Items), NEW mid \in Seq(Items), NEW hi \in Seq(Items),
         Unhurried(lo \o hi), Unhurried(mid),
         Ids(mid) \intersect Wakes = {} \/ Ids(hi) = {},
         \/ Ids(mid) \intersect UserPrompts = {}
         \/ Ids(mid) \intersect Wakes = {} /\ Ids(lo) \intersect Wakes \subseteq {running}
  PROVE  Orderly(lo \o hi, lo \o mid \o hi)
  <1> DEFINE q == lo \o hi
             left == lo \o mid
             r == lo \o mid \o hi
  <1>1. left \in Seq(Items) /\ r = left \o hi
    BY ConcatProperties
  <1>2. Unhurried(left \o hi)
    <2>1. Unhurried(lo) /\ Unhurried(hi)
      BY UnhurriedConcat
    <2>2. Unhurried(left)
      BY <2>1, UnhurriedConcat
    <2> HIDE DEF left
    <2>. QED
      BY <1>1, <2>1, <2>2, UnhurriedConcat
  <1>3. \A x, y : /\ Ahead(q, x, y) => Ahead(r, x, y)
                  /\ Ahead(r, x, y) => \/ Ahead(q, x, y) \/ Ahead(mid, x, y)
                                       \/ x \in Ids(lo) /\ y \in Ids(mid)
                                       \/ x \in Ids(mid) /\ y \in Ids(hi)
    BY AheadInside
  <1>4. \A x, y : Ahead(mid, x, y) => x \in Ids(mid) /\ y \in Ids(mid)
    BY DEF Ahead, Ids
  <1>5. Unhurried(r)
    BY <1>1, <1>2
  <1> HIDE DEF q, r
  <1>6. Orderly(q, r)
    BY <1>3, <1>4, <1>5 DEF Orderly
  <1>. QED
    BY <1>6 DEF q, r

\* A prompt joins the end: not a user's, or one that no wake waits ahead of.
LEMMA OrderlyAppend ==
  ASSUME NEW q, QueueOK(q), Unhurried(q), NEW item \in Items, ~item.now,
         item.id \in UserPrompts => Ids(q) \intersect Wakes \subseteq {running}
  PROVE  Orderly(q, Append(q, item))
  <1> DEFINE one == <<item>>
             none == <<>>
  <1>1. q \in Seq(Items) /\ one \in Seq(Items) /\ none \in Seq(Items)
    BY DEF QueueOK
  <1>2. Unhurried(one) /\ Ids(one) = {item.id} /\ Ids(none) = {}
    BY DEF Unhurried, Ids
  <1>3. q \o none = q /\ (q \o one) \o none = Append(q, item)
    <2>1. q \o none = q
      BY <1>1, ConcatEmptySeq
    <2>2. q \o one = Append(q, item)
      BY <1>1, AppendIsConcat
    <2>3. Append(q, item) \in Seq(Items)
      BY <1>1
    <2>. QED
      BY <2>1, <2>2, <2>3, ConcatEmptySeq
  <1>4. \/ Ids(one) \intersect UserPrompts = {}
        \/ Ids(one) \intersect Wakes = {} /\ Ids(q) \intersect Wakes \subseteq {running}
    BY <1>2, QueueAssumption DEF Synthetic
  <1> HIDE DEF one, none
  <1>5. Orderly(q \o none, q \o one \o none)
    BY <1>1, <1>2, <1>3, <1>4, OrderlyInside
  <1>. QED
    BY <1>3, <1>5

\* A prompt is inserted: no wake, and a user's behind no wake but the running one.
LEMMA OrderlyInsert ==
  ASSUME NEW q, QueueOK(q), Unhurried(q), NEW item \in Items, item.id \notin Wakes,
         NEW n \in 1..(Len(q) + 1),
         item.id \in UserPrompts => Ids(q) \intersect Wakes \subseteq {running}
  PROVE  Orderly(q, InsertAt(q, n, item))
  <1> DEFINE m == n - 1
             lo == SubSeq(q, 1, m)
             hi == SubSeq(q, m + 1, Len(q))
             one == <<item>>
  <1>1. q \in Seq(Items) /\ m \in 0..Len(q) /\ m + 1 = n /\ one \in Seq(Items)
    BY DEF QueueOK
  <1> HIDE DEF m
  <1>2. lo \in Seq(Items) /\ hi \in Seq(Items) /\ lo \o hi = q
    BY <1>1, SplitWhole
  <1>3. Unhurried(one) /\ Ids(one) = {item.id}
    BY DEF Unhurried, Ids
  <1>4. InsertAt(q, n, item) = lo \o one \o hi
    BY <1>1 DEF InsertAt, m
  <1> HIDE DEF lo, hi, one
  <1>5. Ids(lo) \subseteq Ids(q)
    BY <1>2, ConcatIds
  <1>6. \/ Ids(one) \intersect UserPrompts = {}
        \/ Ids(one) \intersect Wakes = {} /\ Ids(lo) \intersect Wakes \subseteq {running}
    BY <1>3, <1>5
  <1>7. Orderly(lo \o hi, lo \o one \o hi)
    BY <1>1, <1>2, <1>3, <1>6, OrderlyInside
  <1>. QED
    BY <1>2, <1>4, <1>7

\* What stands in front of the send-now slot runs or was sent now; what stands
\* in it is neither.
LEMMA SlotBehindNow ==
  ASSUME NEW q, QueueOK(q), Fronted(q)
  PROVE  LET n == SendNowSlot(q) IN
         /\ n \in 1..(Len(q) + 1)
         /\ \A j \in 1..(n - 1) : q[j].now \/ q[j].id = running
         /\ n <= Len(q) => ~q[n].now /\ q[n].id # running
  <1> DEFINE n == SendNowSlot(q)
             first == AfterRunning(q)
  <1>1. /\ n \in 1..(Len(q) + 1) /\ (running # None => n # 1)
        /\ \A j \in first..(n - 1) : q[j].now
        /\ n <= Len(q) => ~q[n].now
    BY SlotIn
  <1>2. /\ Len(q) \in Nat /\ first \in 1..(Len(q) + 1) /\ (running # None => first = 2)
        /\ first = IF q # <<>> /\ q[1].id = running THEN 2 ELSE 1
    BY QueueFacts, AfterRunningIn DEF AfterRunning
  <1>3. /\ \A i, j \in 1..Len(q) : q[i].id = q[j].id => i = j
        /\ \A i \in 1..Len(q) : q[i].id \in Prompts
        /\ running # None => q # <<>> /\ q[1].id = running
        /\ q # <<>> => 1 \in 1..Len(q)
    BY QueueFacts DEF QueueOK, Fronted
  <1> HIDE DEF n, first
  <1>4. ASSUME NEW j \in 1..(n - 1) PROVE q[j].now \/ q[j].id = running
    <2>1. CASE j = 1 /\ first = 2
      BY <1>2, <2>1
    <2>2. CASE j \in first..(n - 1)
      BY <1>1, <2>2
    <2>3. j \in first..(n - 1) \/ (j = 1 /\ first = 2)
      BY <1>1, <1>2
    <2>. QED
      BY <2>1, <2>2, <2>3
  <1>5. ASSUME n <= Len(q) PROVE q[n].id # running
    <2>1. n \in 1..Len(q)
      BY <1>1, <1>2, <1>5
    <2>2. CASE running = None
      BY <1>3, <2>1, <2>2, QueueAssumption
    <2>3. CASE running # None
      BY <1>1, <1>3, <2>1, <2>3
    <2>. QED
      BY <2>2, <2>3
  <1>. QED
    BY <1>1, <1>4, <1>5 DEF n

\* A user's prompt that is inserted there is behind no wake but the running one,
\* and only behind others that were sent now.
LEMMA InsertNowOrder ==
  ASSUME NEW q, QueueOK(q), Fronted(q), Unhurried(q),
         NEW item \in Items, item.id \in UserPrompts
  PROVE  LET r == InsertNow(q, item) IN
         /\ Orderly(q, r) /\ Within(q, r) /\ IsNow(r, item.id)
         /\ \A x \in Ids(q) : Ahead(r, x, item.id) \/
              \E z \in Ids(q) : /\ z = x \/ Ahead(q, z, x)
                              /\ z # running /\ ~IsNow(q, z)
  <1> DEFINE now == [item EXCEPT !.now = TRUE]
             n == SendNowSlot(q)
             m == n - 1
             lo == SubSeq(q, 1, m)
             hi == SubSeq(q, m + 1, Len(q))
             one == <<now>>
             r == lo \o one \o hi
  <1>1. now \in Items /\ now.id = item.id /\ now.now = TRUE
    BY DEF Items, ItemsOf
  <1>2. /\ n \in 1..(Len(q) + 1)
        /\ \A j \in 1..(n - 1) : q[j].now \/ q[j].id = running
        /\ n <= Len(q) => ~q[n].now /\ q[n].id # running
    BY SlotBehindNow
  <1> HIDE DEF now, n
  <1>3. /\ q \in Seq(Items) /\ Len(q) \in Nat /\ m \in 0..Len(q) /\ m + 1 = n
        /\ one \in Seq(Items)
    BY <1>1, <1>2 DEF QueueOK
  <1>4. InsertNow(q, item) = r
    BY <1>3 DEF InsertNow, InsertAt, now, n
  <1> HIDE DEF m
  <1>5. /\ lo \in Seq(Items) /\ hi \in Seq(Items) /\ lo \o hi = q
        /\ Len(lo) = m /\ Len(hi) = Len(q) - m
        /\ \A j \in 1..m : lo[j] = q[j]
        /\ \A j \in 1..(Len(q) - m) : hi[j] = q[m + j]
    <2>1. lo \in Seq(Items) /\ hi \in Seq(Items) /\ lo \o hi = q
      BY <1>3, SplitWhole
    <2>2. /\ Len(lo) = m /\ Len(hi) = Len(q) - m
          /\ \A j \in 1..m : lo[j] = q[j]
          /\ \A j \in 1..(Len(q) - m) : hi[j] = q[m + j]
      BY <1>3
    <2>. QED
      BY <2>1, <2>2
  <1>6. Ids(one) = {item.id} /\ DOMAIN one = 1..1 /\ one[1] = now
    BY <1>1 DEF Ids
  <1>7. Unhurried(one)
    BY <1>1, QueueAssumption DEF Unhurried, Synthetic
  <1> HIDE DEF lo, hi, one
  <1>8. Ids(lo) \intersect Wakes \subseteq {running}
    <2>1. ASSUME NEW w \in Ids(lo) \intersect Wakes PROVE w = running
      <3>1. PICK j \in 1..m : lo[j].id = w
        BY <1>5 DEF Ids
      <3>2. q[j].id = w /\ j \in 1..Len(q) /\ (q[j].now \/ q[j].id = running)
        BY <1>2, <1>3, <1>5, <3>1
      <3>. QED
        BY <3>2 DEF Unhurried
    <2>. QED
      BY <2>1
  <1>9. /\ Ids(one) \intersect Wakes = {}
    BY <1>6, QueueAssumption DEF Synthetic
  <1>10. Orderly(q, r)
    <2>1. Orderly(lo \o hi, lo \o one \o hi)
      BY <1>3, <1>5, <1>7, <1>8, <1>9, OrderlyInside
    <2>. QED
      BY <1>5, <2>1
  <1>11. Within(q, r)
    <2>1. \A x, y : Ahead(lo \o hi, x, y) => Ahead(lo \o one \o hi, x, y)
      BY <1>3, <1>5, AheadInside
    <2>. QED
      BY <1>5, <2>1 DEF Within
  <1>12. \A x \in Ids(lo) : Ahead(r, x, item.id)
    <2>1. lo \o one \in Seq(Items)
      BY <1>3, <1>5, ConcatProperties
    <2>2. \A x \in Ids(lo) : Ahead(lo \o one, x, item.id)
      BY <1>3, <1>5, <1>6, AheadConcat
    <2>. QED
      BY <1>5, <2>1, <2>2, AheadConcat
  <1>13. IsNow(r, item.id)
    <2>1. Len(one) = 1 /\ r \in Seq(Items) /\ DOMAIN r = 1..(Len(q) + 1) /\ r[m + 1] = now
      <3>1. Len(one) = 1
        BY <1>3, <1>6
      <3> DEFINE left == lo \o one
      <3>2. left \in Seq(Items) /\ Len(left) = m + 1 /\ left[m + 1] = now
        <4>1. /\ left \in Seq(Items) /\ Len(left) = Len(lo) + Len(one)
              /\ \A i \in 1..(Len(lo) + Len(one)) :
                   left[i] = IF i <= Len(lo) THEN lo[i] ELSE one[i - Len(lo)]
          BY <1>3, <1>5, ConcatProperties
        <4> HIDE DEF left
        <4>2. m \in Nat /\ m + 1 \in 1..(m + 1) /\ ~(m + 1 <= m) /\ (m + 1) - m = 1
          BY <1>3
        <4>. QED
          BY <1>5, <1>6, <3>1, <4>1, <4>2
      <3>3. r = left \o hi
        OBVIOUS
      <3> HIDE DEF left, r
      <3>4. /\ r \in Seq(Items) /\ Len(r) = Len(left) + Len(hi)
            /\ \A j \in 1..Len(left) : r[j] = left[j]
        <4>1. hi \in Seq(Items)
          BY <1>5
        <4>2. /\ r \in Seq(Items) /\ Len(r) = Len(left) + Len(hi)
              /\ \A j \in 1..(Len(left) + Len(hi)) :
                   r[j] = IF j <= Len(left) THEN left[j] ELSE hi[j - Len(left)]
          BY <3>2, <3>3, <4>1, ConcatProperties
        <4>3. Len(left) \in Nat /\ Len(hi) \in Nat
          BY <3>2, <4>1
        <4>. QED
          BY <4>2, <4>3
      <3>5. m + 1 \in 1..Len(left) /\ Len(r) = Len(q) + 1
        BY <1>3, <1>5, <3>2, <3>4
      <3>. QED
        BY <3>1, <3>2, <3>4, <3>5
    <2>2. m + 1 \in 1..(Len(q) + 1)
      BY <1>3
    <2> HIDE DEF r
    <2>. QED
      BY <1>1, <2>1, <2>2 DEF IsNow
  <1>14. ASSUME NEW x \in Ids(q), x \notin Ids(lo)
         PROVE  \E z \in Ids(q) : (z = x \/ Ahead(q, z, x)) /\ z # running /\ ~IsNow(q, z)
    <2>1. PICK k \in 1..Len(q) : q[k].id = x
      BY QueueFacts
    <2>2. k \notin 1..m
      <3>1. \A j \in 1..m : q[j].id \in Ids(lo)
        BY <1>5 DEF Ids
      <3>. QED
        BY <1>14, <2>1, <3>1
    <2>3. n \in 1..Len(q) /\ n <= k
      BY <1>2, <1>3, <2>2
    <2> DEFINE z == q[n].id
    <2>4. z \in Ids(q) /\ z # running
      BY <1>2, <1>3, <2>3, QueueFacts
    <2>5. ~IsNow(q, z)
      <3>1. \A i \in 1..Len(q) : q[i].id = z => i = n
        BY <2>3 DEF QueueOK
      <3>2. ~q[n].now /\ DOMAIN q = 1..Len(q)
        BY <1>2, <1>3, <2>3
      <3>. QED
        BY <3>1, <3>2 DEF IsNow
    <2>6. z = x \/ Ahead(q, z, x)
      <3>1. CASE n = k
        BY <2>1, <3>1
      <3>2. CASE n < k
        BY <2>1, <2>3, <3>2 DEF Ahead
      <3>. QED
        BY <2>3, <3>1, <3>2
    <2> HIDE DEF z
    <2>. QED
      BY <2>4, <2>5, <2>6
  <1> HIDE DEF r
  <1>. QED
    BY <1>4, <1>10, <1>11, <1>12, <1>13, <1>14

\* An edit changes no order.
LEMMA OrderlyEdit ==
  ASSUME NEW q, QueueOK(q), Unhurried(q), NEW i \in 1..Len(q), NEW item \in Items,
         item.id = q[i].id, item.now = q[i].now
  PROVE  Orderly(q, [q EXCEPT ![i] = item])
  <1> DEFINE r == [q EXCEPT ![i] = item]
  <1>1. /\ q \in Seq(Items) /\ Len(r) = Len(q)
        /\ \A j \in 1..Len(q) : r[j].id = q[j].id /\ r[j].now = q[j].now
    BY DEF QueueOK
  <1> HIDE DEF r
  <1>2. \A x, y : Ahead(r, x, y) <=> Ahead(q, x, y)
    BY <1>1 DEF Ahead
  <1>3. Unhurried(r)
    BY <1>1 DEF Unhurried
  <1>4. Orderly(q, r)
    BY <1>2, <1>3 DEF Orderly
  <1>. QED
    BY <1>4 DEF r

=============================================================================
