------------------------- MODULE KernelQueuesProofs -------------------------
(***************************************************************************)
(* What the queue operators return, preserve and bound, for every queue.   *)
(***************************************************************************)
EXTENDS KernelQueues, TickTimeProofs, WellFoundedInduction

\* A nonempty set of naturals has a least element.
LEMMA LeastNatural ==
    ASSUME NEW S \in SUBSET Nat, S # {}
    PROVE  \E x \in S : \A y \in S : x <= y
<1> DEFINE R == OpToRel(<, Nat)
<1>1. \E x \in S : \A y \in S : ~(<<y, x>> \in R)
  BY WFMin, NatLessThanWellFounded
<1>2. \A x, y \in Nat : y < x => <<y, x>> \in R
  BY DEF OpToRel
<1> HIDE DEF R
<1>3. PICK x \in S : \A y \in S : ~(<<y, x>> \in R)
  BY <1>1
<1>4. \A y \in S : ~(y < x)
  BY <1>2, <1>3
<1>. QED
  BY <1>4

\* The most significant set bit exists: a nonempty set of priorities has a
\* greatest element, and Max returns it.
LEMMA MaxProperties ==
    ASSUME NEW n \in Nat, NEW S \in SUBSET (0 .. n), S # {}
    PROVE  Max(S) \in S /\ \A y \in S : y <= Max(S)
<1> DEFINE T == {n - y : y \in S}
<1>1. T \in SUBSET Nat /\ T # {}
  <2>1. \A y \in S : n - y \in Nat
    OBVIOUS
  <2>2. PICK y \in S : TRUE
    OBVIOUS
  <2>3. n - y \in T
    OBVIOUS
  <2>. QED
    BY <2>1, <2>3
<1>2. PICK x \in T : \A y \in T : x <= y
  BY <1>1, LeastNatural
<1>3. PICK m \in S : x = n - m
  OBVIOUS
<1>4. \A y \in S : m >= y
  BY <1>2, <1>3
<1>. QED
  BY <1>4 DEF Max
-----------------------------------------------------------------------------
\* rts_list_push_back of an unlinked node.
LEMMA AppendQueue ==
    ASSUME NEW S, NEW q \in Seq(S), NEW t \in S
    PROVE  /\ Append(q, t) \in Seq(S)
           /\ \A u : Queued(Append(q, t), u) <=> Queued(q, u) \/ u = t
           /\ Distinct(q) /\ ~Queued(q, t) => Distinct(Append(q, t))
BY DEF Queued, Distinct

\* Joining two stretches of a queue.
LEMMA ConcatQueue ==
    ASSUME NEW S, NEW a \in Seq(S), NEW b \in Seq(S)
    PROVE  /\ a \o b \in Seq(S)
           /\ Len(a \o b) = Len(a) + Len(b)
           /\ \A i \in 1 .. (Len(a) + Len(b)) :
                (a \o b)[i] = IF i <= Len(a) THEN a[i] ELSE b[i - Len(a)]
<1>1. a \o b \in Seq(S)
  OBVIOUS
<1>2. Len(a \o b) = Len(a) + Len(b)
  OBVIOUS
<1>3. ASSUME NEW i \in 1 .. (Len(a) + Len(b))
      PROVE  (a \o b)[i] = IF i <= Len(a) THEN a[i] ELSE b[i - Len(a)]
  OBVIOUS
<1>. QED
  BY <1>1, <1>2, <1>3, Zenon

\* rts_list_remove: removing position k closes the gap.
LEMMA ListRemoveShape ==
    ASSUME NEW S, NEW q \in Seq(S), NEW k \in 1 .. Len(q)
    PROVE  /\ ListRemove(q, k) \in Seq(S)
           /\ Len(ListRemove(q, k)) = Len(q) - 1
           /\ \A i \in 1 .. (Len(q) - 1) :
                ListRemove(q, k)[i] = IF i < k THEN q[i] ELSE q[i + 1]
<1> DEFINE before == SubSeq(q, 1, k - 1)
           after == SubSeq(q, k + 1, Len(q))
<1>1. /\ before \in Seq(S)
      /\ Len(before) = k - 1
      /\ \A i \in 1 .. (k - 1) : before[i] = q[i]
  OBVIOUS
<1>2. /\ after \in Seq(S)
      /\ Len(after) = Len(q) - k
      /\ \A i \in 1 .. (Len(q) - k) : after[i] = q[k + i]
  OBVIOUS
<1> HIDE DEF before, after
<1>3. /\ before \o after \in Seq(S)
      /\ Len(before \o after) = Len(q) - 1
      /\ \A i \in 1 .. (Len(q) - 1) :
           (before \o after)[i] = IF i < k THEN q[i] ELSE q[i + 1]
  <2>1. /\ before \o after \in Seq(S)
        /\ Len(before \o after) = Len(before) + Len(after)
        /\ \A i \in 1 .. (Len(before) + Len(after)) :
             (before \o after)[i] = IF i <= Len(before) THEN before[i]
                                    ELSE after[i - Len(before)]
    BY <1>1, <1>2, ConcatQueue
  <2>. QED
    BY <2>1, <1>1, <1>2
<1>. QED
  BY <1>3 DEF ListRemove, before, after

\* rts_list_insert_before: inserting at position k opens a gap.
LEMMA ListInsertShape ==
    ASSUME NEW S, NEW q \in Seq(S), NEW k \in 1 .. (Len(q) + 1), NEW t \in S
    PROVE  /\ ListInsertBefore(q, k, t) \in Seq(S)
           /\ Len(ListInsertBefore(q, k, t)) = Len(q) + 1
           /\ \A i \in 1 .. (Len(q) + 1) :
                ListInsertBefore(q, k, t)[i] = IF i < k THEN q[i]
                                       ELSE IF i = k THEN t ELSE q[i - 1]
<1> DEFINE before == SubSeq(q, 1, k - 1)
           after == SubSeq(q, k, Len(q))
<1>1. /\ before \in Seq(S)
      /\ Len(before) = k - 1
      /\ \A i \in 1 .. (k - 1) : before[i] = q[i]
  OBVIOUS
<1>2. /\ after \in Seq(S)
      /\ Len(after) = Len(q) - k + 1
      /\ \A i \in 1 .. (Len(q) - k + 1) : after[i] = q[k + i - 1]
  OBVIOUS
<1> DEFINE front == before \o <<t>>
<1>3. /\ front \in Seq(S)
      /\ Len(front) = k
      /\ \A i \in 1 .. k : front[i] = IF i < k THEN q[i] ELSE t
  <2> HIDE DEF before
  <2>1. front = Append(before, t)
    BY <1>1
  <2>. QED
    BY <2>1, <1>1
<1> HIDE DEF before, after, front
<1>4. /\ front \o after \in Seq(S)
      /\ Len(front \o after) = Len(q) + 1
      /\ \A i \in 1 .. (Len(q) + 1) :
           (front \o after)[i] = IF i < k THEN q[i]
                                 ELSE IF i = k THEN t ELSE q[i - 1]
  <2>1. /\ front \o after \in Seq(S)
        /\ Len(front \o after) = Len(front) + Len(after)
        /\ \A i \in 1 .. (Len(front) + Len(after)) :
             (front \o after)[i] = IF i <= Len(front) THEN front[i]
                                   ELSE after[i - Len(front)]
    BY <1>2, <1>3, ConcatQueue
  <2>. QED
    BY <2>1, <1>2, <1>3
<1>. QED
  BY <1>4 DEF ListInsertBefore, before, after, front

\* Unlinking a queued task removes it and nothing else.
LEMMA UnlinkQueue ==
    ASSUME NEW S, NEW q \in Seq(S), NEW t, Queued(q, t), Distinct(q)
    PROVE  /\ Unlink(q, t) \in Seq(S)
           /\ \A u : Queued(Unlink(q, t), u) <=> Queued(q, u) /\ u # t
           /\ Distinct(Unlink(q, t))
<1> DEFINE k == CHOOSE i \in 1 .. Len(q) : q[i] = t
           r == ListRemove(q, k)
<1>1. k \in 1 .. Len(q) /\ q[k] = t
  BY DEF Queued
<1> HIDE DEF k
<1>2. /\ r \in Seq(S)
      /\ Len(r) = Len(q) - 1
      /\ \A i \in 1 .. (Len(q) - 1) : r[i] = IF i < k THEN q[i] ELSE q[i + 1]
  BY <1>1, ListRemoveShape
<1> HIDE DEF r
<1>3. \A u : Queued(r, u) => Queued(q, u) /\ u # t
  BY <1>1, <1>2 DEF Queued, Distinct
<1>4. ASSUME NEW u, Queued(q, u), u # t
      PROVE  Queued(r, u)
  <2>1. PICK i \in 1 .. Len(q) : q[i] = u
    BY <1>4 DEF Queued
  <2>2. i # k
    BY <2>1, <1>1, <1>4
  <2>3. CASE i < k
    BY <2>1, <2>3, <1>1, <1>2 DEF Queued
  <2>4. CASE i > k
    <3>1. i - 1 \in 1 .. Len(r) /\ r[i - 1] = u
      BY <2>1, <2>4, <1>1, <1>2
    <3>. QED
      BY <3>1 DEF Queued
  <2>. QED
    BY <2>2, <2>3, <2>4, <1>1
<1>5. Distinct(r)
  BY <1>1, <1>2 DEF Distinct
<1>. QED
  BY <1>2, <1>3, <1>4, <1>5 DEF Unlink, k, r

\* rts_ready_rotate permutes a queue.
LEMMA RotateQueue ==
    ASSUME NEW S, NEW q \in Seq(S), q # << >>
    PROVE  /\ Append(Tail(q), Head(q)) \in Seq(S)
           /\ \A u : Queued(Append(Tail(q), Head(q)), u) <=> Queued(q, u)
           /\ Distinct(q) => Distinct(Append(Tail(q), Head(q)))
<1> DEFINE h == Head(q)
           tl == Tail(q)
           r == Append(tl, h)
<1>1. /\ Len(q) \in Nat \ {0}
      /\ h = q[1]
      /\ h \in S
      /\ tl \in Seq(S)
      /\ Len(tl) = Len(q) - 1
      /\ \A i \in 1 .. (Len(q) - 1) : tl[i] = q[i + 1]
  OBVIOUS
<1> HIDE DEF h, tl
<1>2. /\ r \in Seq(S)
      /\ Len(r) = Len(q)
      /\ \A i \in 1 .. Len(q) : r[i] = IF i < Len(q) THEN q[i + 1] ELSE q[1]
  BY <1>1
<1> HIDE DEF r
<1>3. \A u : Queued(r, u) => Queued(q, u)
  BY <1>1, <1>2 DEF Queued
<1>4. ASSUME NEW u, Queued(q, u)
      PROVE  Queued(r, u)
  <2>1. PICK i \in 1 .. Len(q) : q[i] = u
    BY <1>4 DEF Queued
  <2>2. CASE i = 1
    BY <2>1, <2>2, <1>1, <1>2 DEF Queued
  <2>3. CASE i > 1
    <3>1. i - 1 \in 1 .. Len(r) /\ r[i - 1] = u
      BY <2>1, <2>3, <1>1, <1>2
    <3>. QED
      BY <3>1 DEF Queued
  <2>. QED
    BY <2>2, <2>3, <1>1
<1>5. ASSUME Distinct(q)
      PROVE  Distinct(r)
  <2> SUFFICES ASSUME NEW i \in 1 .. Len(q), NEW j \in 1 .. Len(q),
                      r[i] = r[j], i < j
               PROVE  FALSE
    BY <1>1, <1>2 DEF Distinct
  <2>1. \A m, n \in 1 .. Len(q) : q[m] = q[n] => m = n
    BY <1>5 DEF Distinct
  <2>2. CASE j < Len(q)
    <3>1. i + 1 \in 1 .. Len(q) /\ j + 1 \in 1 .. Len(q) /\ q[i + 1] = q[j + 1]
      BY <2>2, <1>1, <1>2
    <3>. QED
      BY <3>1, <2>1
  <2>3. CASE j = Len(q)
    <3>1. i + 1 \in 1 .. Len(q) /\ q[i + 1] = q[1]
      BY <2>3, <1>1, <1>2
    <3>. QED
      BY <3>1, <2>1, <1>1
  <2>. QED
    BY <2>2, <2>3, <1>1
<1>. QED
  BY <1>2, <1>3, <1>4, <1>5 DEF r, h, tl

\* Inserting an unlinked task anywhere adds it and nothing else.
LEMMA InsertQueue ==
    ASSUME NEW S, NEW q \in Seq(S), NEW k \in 1 .. (Len(q) + 1), NEW t \in S,
           ~Queued(q, t), Distinct(q)
    PROVE  /\ \A u : Queued(ListInsertBefore(q, k, t), u) <=> Queued(q, u) \/ u = t
           /\ Distinct(ListInsertBefore(q, k, t))
<1> DEFINE r == ListInsertBefore(q, k, t)
<1>1. /\ r \in Seq(S)
      /\ Len(r) = Len(q) + 1
      /\ \A i \in 1 .. (Len(q) + 1) :
           r[i] = IF i < k THEN q[i] ELSE IF i = k THEN t ELSE q[i - 1]
  BY ListInsertShape
<1>. Len(q) \in Nat
  OBVIOUS
<1> HIDE DEF r
<1>2. ASSUME NEW u, Queued(r, u), u # t
      PROVE  Queued(q, u)
  <2>1. PICK i \in 1 .. (Len(q) + 1) : r[i] = u
    BY <1>1, <1>2 DEF Queued
  <2>2. CASE i < k
    BY <2>1, <2>2, <1>1 DEF Queued
  <2>3. CASE i > k
    <3>1. i - 1 \in 1 .. Len(q) /\ q[i - 1] = u
      BY <2>1, <2>3, <1>1
    <3>. QED
      BY <3>1 DEF Queued
  <2>. QED
    BY <2>1, <2>2, <2>3, <1>1, <1>2
<1>3. Queued(r, t)
  BY <1>1 DEF Queued
<1>4. ASSUME NEW u, Queued(q, u)
      PROVE  Queued(r, u)
  <2>1. PICK i \in 1 .. Len(q) : q[i] = u
    BY <1>4 DEF Queued
  <2>2. CASE i < k
    BY <2>1, <2>2, <1>1 DEF Queued
  <2>3. CASE i >= k
    <3>1. i + 1 \in 1 .. Len(r) /\ r[i + 1] = u
      BY <2>1, <2>3, <1>1
    <3>. QED
      BY <3>1 DEF Queued
  <2>. QED
    BY <2>2, <2>3
<1>5. Distinct(r)
  <2> SUFFICES ASSUME NEW i \in 1 .. (Len(q) + 1), NEW j \in 1 .. (Len(q) + 1),
                      r[i] = r[j], i < j
               PROVE  FALSE
    BY <1>1 DEF Distinct
  <2>1. \A m \in 1 .. Len(q) : q[m] # t
    BY DEF Queued
  <2>2. \A m, n \in 1 .. Len(q) : q[m] = q[n] => m = n
    BY DEF Distinct
  <2>3. CASE j < k
    <3>1. i \in 1 .. Len(q) /\ j \in 1 .. Len(q) /\ q[i] = q[j]
      BY <2>3, <1>1
    <3>. QED
      BY <3>1, <2>2
  <2>4. CASE j = k
    BY <2>1, <2>4, <1>1
  <2>5. CASE i < k /\ j > k
    <3>1. i \in 1 .. Len(q) /\ j - 1 \in 1 .. Len(q) /\ q[i] = q[j - 1]
      BY <2>5, <1>1
    <3>. QED
      BY <3>1, <2>2, <2>5
  <2>6. CASE i = k
    BY <2>1, <2>6, <1>1
  <2>7. CASE i > k
    <3>1. i - 1 \in 1 .. Len(q) /\ j - 1 \in 1 .. Len(q) /\ q[i - 1] = q[j - 1]
      BY <2>7, <1>1
    <3>. QED
      BY <3>1, <2>2
  <2>. QED
    BY <2>3, <2>4, <2>5, <2>6, <2>7
<1>. QED
  BY <1>2, <1>3, <1>4, <1>5 DEF r
-----------------------------------------------------------------------------
\* The scan of rts_delay_insert stops somewhere: at the first queued task that
\* wakes later, or past the end.
LEMMA DelayPositionExists ==
    ASSUME NEW S, NEW q \in Seq(S), NEW wake, NEW t
    PROVE  LET k == DelayPosition(q, wake, t)
               Later(i) == TickBefore(wake[t], wake[q[i]])
           IN  /\ k \in 1 .. (Len(q) + 1)
               /\ k <= Len(q) => Later(k)
               /\ \A j \in 1 .. (k - 1) : ~Later(j)
<1> DEFINE Later(i) == TickBefore(wake[t], wake[q[i]])
           Stops(i) == /\ i <= Len(q) => Later(i)
                       /\ \A j \in 1 .. (i - 1) : ~Later(j)
           T == {i \in 1 .. Len(q) : Later(i)}
<1>. Len(q) \in Nat
  OBVIOUS
<1>1. \E i \in 1 .. (Len(q) + 1) : Stops(i)
  <2>1. CASE T = {}
    <3>1. \A j \in 1 .. Len(q) : ~Later(j)
      BY <2>1
    <3> HIDE DEF Later
    <3>2. Stops(Len(q) + 1)
      BY <3>1
    <3>. QED
      BY <3>2
  <2>2. CASE T # {}
    <3>1. T \in SUBSET Nat
      OBVIOUS
    <3>2. PICK m \in T : \A y \in T : m <= y
      BY <2>2, <3>1, LeastNatural
    <3>3. m \in 1 .. Len(q) /\ Later(m)
      OBVIOUS
    <3>4. \A j \in 1 .. (m - 1) : j \in 1 .. Len(q) /\ j \notin T
      BY <3>2, <3>3
    <3>5. \A j \in 1 .. (m - 1) : ~Later(j)
      BY <3>4
    <3> HIDE DEF Later
    <3>. QED
      BY <3>3, <3>5
  <2>. QED
    BY <2>1, <2>2
<1>2. DelayPosition(q, wake, t) = CHOOSE i \in 1 .. (Len(q) + 1) : Stops(i)
  BY DEF DelayPosition
<1> HIDE DEF Later
<1>3. /\ DelayPosition(q, wake, t) \in 1 .. (Len(q) + 1)
      /\ Stops(DelayPosition(q, wake, t))
  BY <1>1, <1>2
<1>. QED
  BY <1>3 DEF Later

\* rts_delay_insert keeps the queue ordered by true remaining time although it
\* compares wrapped wake ticks, as long as no member is further away than
\* RTS_TICK_MAX_ADVANCE.
LEMMA DelayInsertOrdered ==
    ASSUME NEW S, NEW q \in Seq(S), NEW t \in S,
           NEW time \in Ticks, NEW key \in [S -> Int], NEW wake,
           key[t] \in 1 .. MaxAdvance,
           wake[t] = TickAdd(time, key[t]),
           \A i \in 1 .. Len(q) : /\ key[q[i]] \in 1 .. MaxAdvance
                                  /\ wake[q[i]] = TickAdd(time, key[q[i]]),
           OrderedBy(q, key)
    PROVE  OrderedBy(DelayInsert(q, wake, t), key)
<1> DEFINE k == DelayPosition(q, wake, t)
           r == ListInsertBefore(q, k, t)
<1>. Len(q) \in Nat /\ \A i \in 1 .. Len(q) : q[i] \in S
  OBVIOUS
<1>1. \A i \in 1 .. Len(q) :
        TickBefore(wake[t], wake[q[i]]) <=> key[t] < key[q[i]]
  BY TickBeforeIsTrueOrder, HalfAssumption DEF MaxAdvance
<1>2. /\ k \in 1 .. (Len(q) + 1)
      /\ k <= Len(q) => key[t] < key[q[k]]
      /\ \A j \in 1 .. (k - 1) : ~(key[t] < key[q[j]])
  <2>1. /\ k \in 1 .. (Len(q) + 1)
        /\ k <= Len(q) => TickBefore(wake[t], wake[q[k]])
        /\ \A j \in 1 .. (k - 1) : ~TickBefore(wake[t], wake[q[j]])
    BY DelayPositionExists
  <2> HIDE DEF k
  <2>. QED
    BY <2>1, <1>1
<1> HIDE DEF k
<1>3. /\ Len(r) = Len(q) + 1
      /\ \A i \in 1 .. (Len(q) + 1) :
           r[i] = IF i < k THEN q[i] ELSE IF i = k THEN t ELSE q[i - 1]
  BY <1>2, ListInsertShape
<1> HIDE DEF r
<1>4. \A m, n \in 1 .. Len(q) : m <= n => key[q[m]] <= key[q[n]]
  BY DEF OrderedBy
<1>5. ASSUME NEW i \in 1 .. (Len(q) + 1), NEW j \in 1 .. (Len(q) + 1), i < j
      PROVE  key[r[i]] <= key[r[j]]
  <2>1. CASE j < k
    <3>1. /\ r[i] = q[i] /\ i \in 1 .. Len(q)
          /\ r[j] = q[j] /\ j \in 1 .. Len(q)
      BY <2>1, <1>2, <1>3, <1>5
    <3>. QED
      BY <3>1, <1>4, <1>5
  <2>2. CASE j = k
    <3>1. /\ r[i] = q[i] /\ i \in 1 .. Len(q) /\ i \in 1 .. (k - 1)
          /\ r[j] = t
      BY <2>2, <1>2, <1>3, <1>5
    <3>2. ~(key[t] < key[q[i]])
      BY <3>1, <1>2
    <3>. QED
      BY <3>1, <3>2
  <2>3. CASE j > k
    <3>1. j - 1 \in 1 .. Len(q) /\ r[j] = q[j - 1]
      BY <2>3, <1>2, <1>3
    <3>2. CASE i < k
      <4>1. r[i] = q[i] /\ i \in 1 .. Len(q) /\ i <= j - 1
        BY <3>2, <2>3, <1>2, <1>3
      <4>. QED
        BY <4>1, <3>1, <1>4
    <3>3. CASE i = k
      <4>1. r[i] = t /\ k \in 1 .. Len(q) /\ k <= j - 1
        BY <3>3, <2>3, <1>2, <1>3
      <4>2. key[t] < key[q[k]]
        BY <4>1, <1>2
      <4>3. key[q[k]] <= key[q[j - 1]]
        BY <4>1, <3>1, <1>4
      <4>. QED
        BY <4>1, <4>2, <4>3, <3>1
    <3>4. CASE i > k
      <4>1. r[i] = q[i - 1] /\ i - 1 \in 1 .. Len(q) /\ i - 1 <= j - 1
        BY <3>4, <1>2, <1>3, <1>5
      <4>. QED
        BY <4>1, <3>1, <1>4
    <3>. QED
      BY <3>2, <3>3, <3>4, <1>2
  <2>. QED
    BY <2>1, <2>2, <2>3, <1>2
<1>. QED
  BY <1>3, <1>5 DEF DelayInsert, OrderedBy, k, r

\* Unlinking keeps the order of the rest.
LEMMA UnlinkOrdered ==
    ASSUME NEW S, NEW q \in Seq(S), NEW t, Queued(q, t), NEW key,
           OrderedBy(q, key)
    PROVE  OrderedBy(Unlink(q, t), key)
<1> DEFINE k == CHOOSE i \in 1 .. Len(q) : q[i] = t
           r == ListRemove(q, k)
           src(i) == IF i < k THEN i ELSE i + 1
<1>1. k \in 1 .. Len(q)
  BY DEF Queued
<1> HIDE DEF k
<1>2. /\ Len(r) = Len(q) - 1
      /\ \A i \in 1 .. (Len(q) - 1) : r[i] = q[src(i)]
  BY <1>1, ListRemoveShape
<1> HIDE DEF r
<1>3. \A i, j \in 1 .. (Len(q) - 1) :
        i < j => src(i) \in 1 .. Len(q) /\ src(j) \in 1 .. Len(q) /\ src(i) < src(j)
  BY <1>1
<1> HIDE DEF src
<1>4. \A i, j \in 1 .. Len(r) : i < j => key[r[i]] <= key[r[j]]
  BY <1>2, <1>3 DEF OrderedBy
<1>. QED
  BY <1>4 DEF Unlink, OrderedBy, k, r
=============================================================================
