---------------------------- MODULE StoreProofs ----------------------------
(***************************************************************************)
(* What the kernel keeps its state in, for any size of it: the sleep queue *)
(* wakes on time, no id is given twice, no page is lost or shared with     *)
(* those it is not shared with, and the search tree stays in order.        *)
(***************************************************************************)
EXTENDS TimedQueue, IdTable, SharedMemory, SearchTree,
        QueueLemmas, FiniteSetTheorems, SequenceTheorems, TLAPS

-----------------------------------------------------------------------------
(* The sleep queue, for any number of sleepers and a clock of any width.   *)
(* The inductive invariant is the property itself, with the types.         *)

Pair == [item : Sleepers, wake : Times]

TimedTypes ==
    /\ time \in Times
    /\ wait_q \in Seq(Pair)
    /\ ready_q \in Seq(Sleepers)
    /\ left \in [DOMAIN left -> Times]
    /\ DOMAIN left \subseteq Sleepers

TimedInv == TimedTypes /\ SleepersAreOnTime

-----------------------------------------------------------------------------
(* The clock *)

(* Distances on the clock: a time d ticks ahead is d ticks away, and as    *)
(* time goes on by d, what is further away comes nearer by d.              *)
LEMMA Distances ==
    ASSUME NEW a \in Times, NEW d \in Times
    PROVE  /\ Plus(a, d) \in Times
           /\ AbsWait(a, Plus(a, d)) = d
           /\ Plus(a, d) = a <=> d = 0
           /\ \A w \in Times : /\ AbsWait(a, w) \in Times
                               /\ AbsWait(a, w) >= d => AbsWait(Plus(a, d), w) = AbsWait(a, w) - d
BY TimedQueueAssumption, SMTT(60) DEF Times, Plus, AbsWait

(* What the types say of the elements of the queues. *)
LEMMA QueuesHold ==
    ASSUME TimedTypes
    PROVE  /\ Len(wait_q) \in Nat /\ Len(ready_q) \in Nat
           /\ \A k \in 1 .. Len(wait_q) : wait_q[k] \in Pair /\ wait_q[k].item \in Sleepers
                                          /\ wait_q[k].wake \in Times
           /\ \A k \in 1 .. Len(ready_q) : ready_q[k] \in Sleepers
           /\ \A i \in DOMAIN left : left[i] \in Times
           /\ Times \subseteq Nat
<1>1. \A k \in 1 .. Len(wait_q) : wait_q[k] \in Pair
    BY DEF TimedTypes
<1>2. \A p \in Pair : p.item \in Sleepers /\ p.wake \in Times
    BY DEF Pair
<1>3. Times \subseteq Nat
    BY TimedQueueAssumption DEF Times
<1>4. QED BY <1>1, <1>2, <1>3 DEF TimedTypes

(* Everyone in the queue waits, for what is left. *)
LEMMA WaitersHave ==
    ASSUME TimedInv
    PROVE  \A k \in 1 .. Len(wait_q) : /\ wait_q[k].item \in DOMAIN left
                                       /\ left[wait_q[k].item] \in Nat \ {0}
                                       /\ left[wait_q[k].item] \in Times
                                       /\ AbsWait(time, wait_q[k].wake) = left[wait_q[k].item]
<1>1. \A k \in 1 .. Len(wait_q) : wait_q[k].item \in Waiting
    BY DEF Waiting
<1>2. QED BY <1>1, QueuesHold DEF TimedInv, SleepersAreOnTime, DistancesAreRight

-----------------------------------------------------------------------------
(* The steps *)

LEMMA TimedStart == TimedInit => TimedInv
<1> SUFFICES ASSUME TimedInit PROVE TimedInv
    OBVIOUS
<1>1. time \in Times /\ Len(wait_q) = 0 /\ Len(ready_q) = 0 /\ Len(woken) = 0
    BY TimedQueueAssumption DEF TimedInit, Times
<1>2. wait_q \in Seq(Pair) /\ ready_q \in Seq(Sleepers)
    BY DEF TimedInit
<1>3. DOMAIN left = {} /\ left \in [{} -> Times]
    BY DEF TimedInit
<1>4. TimedTypes
    BY <1>1, <1>2, <1>3 DEF TimedTypes
<1>5. SleepersAreOnTime
    BY <1>1, <1>3 DEF SleepersAreOnTime, DistancesAreRight, WokenInTurn, Waiting, Items
<1>6. QED BY <1>4, <1>5 DEF TimedInv

(* Where a pair goes: none before it waits longer, all from it on do.      *)
LEMMA PlaceIs ==
    ASSUME TimedInv, NEW wt \in Times
    PROVE  /\ Place(wt) \in 1 .. Len(wait_q) + 1
           /\ \A k \in 1 .. Len(wait_q) :
                 /\ k < Place(wt) => left[wait_q[k].item] <= AbsWait(time, wt)
                 /\ k >= Place(wt) => AbsWait(time, wt) < left[wait_q[k].item]
<1> DEFINE n == AbsWait(time, wt)
           later == {k \in 1 .. Len(wait_q) : n < AbsWait(time, wait_q[k].wake)}
<1>1. n \in Nat /\ Len(wait_q) \in Nat
    BY QueuesHold, Distances DEF TimedInv, TimedTypes
<1>2. \A k \in 1 .. Len(wait_q) : /\ left[wait_q[k].item] \in Nat
                                  /\ AbsWait(time, wait_q[k].wake) = left[wait_q[k].item]
    BY WaitersHave
<1>3. \A j, k \in 1 .. Len(wait_q) : j < k => left[wait_q[j].item] <= left[wait_q[k].item]
    BY DEF TimedInv, SleepersAreOnTime, DistancesAreRight
<1>4. Place(wt) = IF later = {} THEN Len(wait_q) + 1 ELSE Least(later)
    BY DEF Place
<1> HIDE DEF n
<1>5. CASE later = {}
    BY <1>1, <1>2, <1>4, <1>5 DEF n
<1>6. CASE later # {}
  <2>1. later \subseteq Nat
    BY <1>1
  <2>2. PICK m \in later : m = Least(later) /\ \A j \in later : m <= j
    BY <1>6, <2>1, LeastIs
  <2>3. \A k \in 1 .. Len(wait_q) : k < m => left[wait_q[k].item] <= n
    BY <1>1, <1>2, <2>2
  <2>4. \A k \in 1 .. Len(wait_q) : k >= m => n < left[wait_q[k].item]
    BY <1>1, <1>2, <1>3, <2>2
  <2>5. QED BY <1>1, <1>4, <1>6, <2>2, <2>3, <2>4 DEF n
<1>7. QED BY <1>5, <1>6

LEMMA StepEnqueue ==
    ASSUME TimedInv, NEW i \in Sleepers, NEW ticks \in Times, Enqueue(i, ticks)
    PROVE  TimedInv'
<1>1. PICK wt \in Times : wt = Plus(time, ticks)
    BY Distances DEF TimedInv, TimedTypes
<1>2. /\ AbsWait(time, wt) = ticks /\ (wt = time <=> ticks = 0)
      /\ ticks \in Nat /\ time \in Times
    BY <1>1, Distances, QueuesHold DEF TimedInv, TimedTypes
<1>3. /\ i \notin DOMAIN left /\ time' = time /\ woken' = woken
      /\ IF wt = time
         THEN ready_q' = Append(ready_q, i) /\ wait_q' = wait_q
         ELSE wait_q' = PushAt(wait_q, Place(wt), [item |-> i, wake |-> wt]) /\ ready_q' = ready_q
      /\ left' = [j \in DOMAIN left \cup {i} |-> IF j = i THEN ticks ELSE left[j]]
    BY <1>1 DEF Enqueue
<1>4. /\ DOMAIN left' = DOMAIN left \cup {i} /\ left'[i] = ticks
      /\ \A j \in DOMAIN left : left'[j] = left[j] /\ j # i
    BY <1>3
<1>5. DOMAIN left' \subseteq Sleepers /\ left' \in [DOMAIN left' -> Times]
    BY <1>3, <1>4, QueuesHold DEF TimedInv, TimedTypes
<1>6. WokenInTurn'
    BY <1>3 DEF TimedInv, SleepersAreOnTime, WokenInTurn
<1>7. \A k \in 1 .. Len(wait_q) : /\ wait_q[k].item \in DOMAIN left
                                 /\ left'[wait_q[k].item] = left[wait_q[k].item]
                                 /\ left[wait_q[k].item] \in Nat \ {0}
                                 /\ AbsWait(time, wait_q[k].wake) = left[wait_q[k].item]
    BY <1>4, WaitersHave
<1>8. \A j, k \in 1 .. Len(wait_q) : j < k => left[wait_q[j].item] <= left[wait_q[k].item]
    BY DEF TimedInv, SleepersAreOnTime, DistancesAreRight
<1>9. /\ Waiting = {j \in DOMAIN left : left[j] > 0}
      /\ Items(ready_q) = {j \in DOMAIN left : left[j] = 0}
    BY DEF TimedInv, SleepersAreOnTime, DistancesAreRight
<1>10. CASE ticks = 0
  <2>1. wait_q' = wait_q /\ ready_q' = Append(ready_q, i)
    BY <1>2, <1>3, <1>10
  <2>2. ready_q' \in Seq(Sleepers) /\ Items(ready_q') = Items(ready_q) \cup {i}
    BY <2>1, AppendItems DEF TimedInv, TimedTypes
  <2>3. TimedTypes'
    BY <1>2, <1>3, <1>5, <2>1, <2>2 DEF TimedInv, TimedTypes
  <2>4. Waiting' = {j \in DOMAIN left' : left'[j] > 0}
    BY <1>4, <1>9, <1>10, <2>1 DEF Waiting
  <2>5. Items(ready_q') = {j \in DOMAIN left' : left'[j] = 0}
    BY <1>4, <1>9, <1>10, <2>2
  <2>6. DistancesAreRight'
    BY <1>3, <1>7, <1>8, <2>1, <2>4, <2>5 DEF DistancesAreRight
  <2>7. QED BY <1>6, <2>3, <2>6 DEF TimedInv, SleepersAreOnTime
<1>11. CASE ticks # 0
  <2> DEFINE e == [item |-> i, wake |-> wt]
  <2>1. e \in Pair /\ e.item = i /\ e.wake = wt
    BY DEF Pair
  <2>2. PICK m \in 1 .. Len(wait_q) + 1 :
           /\ m = Place(wt)
           /\ \A k \in 1 .. Len(wait_q) : /\ k < m => left[wait_q[k].item] <= ticks
                                          /\ k >= m => ticks < left[wait_q[k].item]
    BY <1>2, PlaceIs
  <2> HIDE DEF e
  <2>3. wait_q' = PushAt(wait_q, m, e) /\ ready_q' = ready_q /\ wait_q \in Seq(Pair)
        /\ Len(wait_q) \in Nat
    BY <1>2, <1>3, <1>11, <2>2 DEF TimedInv, TimedTypes, e
  <2>4. /\ wait_q' \in Seq(Pair) /\ Len(wait_q') = Len(wait_q) + 1
        /\ \A k \in 1 .. Len(wait_q) + 1 : /\ k < m => wait_q'[k] = wait_q[k]
                                           /\ k = m => wait_q'[k] = e
                                           /\ k > m => wait_q'[k] = wait_q[k - 1]
    <3>1. ASSUME NEW r, r = PushAt(wait_q, m, e)
          PROVE  /\ r \in Seq(Pair) /\ Len(r) = Len(wait_q) + 1
                 /\ \A k \in 1 .. Len(wait_q) + 1 : /\ k < m => r[k] = wait_q[k]
                                                    /\ k = m => r[k] = e
                                                    /\ k > m => r[k] = wait_q[k - 1]
      <4>1. r \in Seq(Pair)
        BY <2>1, <2>3, <3>1, PushAtIs
      <4>2. Len(r) = Len(wait_q) + 1
        BY <2>1, <2>3, <3>1, PushAtIs
      <4>3. ASSUME NEW k \in 1 .. Len(wait_q) + 1
            PROVE  /\ k < m => r[k] = wait_q[k]
                   /\ k = m => r[k] = e
                   /\ k > m => r[k] = wait_q[k - 1]
        BY <2>1, <2>3, <3>1, PushAtIs
      <4>4. QED BY <4>1, <4>2, <4>3
    <3>2. QED BY <2>3, <3>1
  <2>5. TimedTypes'
    BY <1>2, <1>3, <1>5, <2>3, <2>4 DEF TimedInv, TimedTypes
  <2>6. \A k \in 1 .. Len(wait_q) + 1 :
           /\ wait_q'[k].item \in DOMAIN left'
           /\ left'[wait_q'[k].item] \in Nat \ {0}
           /\ AbsWait(time, wait_q'[k].wake) = left'[wait_q'[k].item]
    <3>1. ASSUME NEW k \in 1 .. Len(wait_q) + 1
          PROVE  /\ wait_q'[k].item \in DOMAIN left'
                 /\ left'[wait_q'[k].item] \in Nat \ {0}
                 /\ AbsWait(time, wait_q'[k].wake) = left'[wait_q'[k].item]
      <4>1. CASE k < m
        BY <4>1, <2>3, <2>4, <1>4, <1>7
      <4>2. CASE k = m
        BY <4>2, <2>1, <2>4, <1>2, <1>4, <1>11
      <4>3. CASE k > m
        <5>1. k - 1 \in 1 .. Len(wait_q) /\ wait_q'[k] = wait_q[k - 1]
          BY <4>3, <2>2, <2>3, <2>4
        <5>2. QED BY <5>1, <1>4, <1>7
      <4>4. QED BY <4>1, <4>2, <4>3, <2>3
    <3>2. QED BY <3>1
  <2>7. \A j, k \in 1 .. Len(wait_q) + 1 :
           j < k => left'[wait_q'[j].item] <= left'[wait_q'[k].item]
    <3>1. ASSUME NEW j \in 1 .. Len(wait_q) + 1, NEW k \in 1 .. Len(wait_q) + 1, j < k
          PROVE  left'[wait_q'[j].item] <= left'[wait_q'[k].item]
      <4>1. CASE k < m
        <5>1. /\ j \in 1 .. Len(wait_q) /\ wait_q'[j] = wait_q[j]
              /\ k \in 1 .. Len(wait_q) /\ wait_q'[k] = wait_q[k]
          BY <4>1, <3>1, <2>2, <2>3, <2>4
        <5>2. QED BY <5>1, <3>1, <1>7, <1>8
      <4>2. CASE k = m
        <5>1. j \in 1 .. Len(wait_q) /\ wait_q'[j] = wait_q[j] /\ wait_q'[k] = e
          BY <4>2, <3>1, <2>2, <2>3, <2>4
        <5>2. left[wait_q[j].item] <= ticks
          BY <5>1, <4>2, <3>1, <2>2
        <5>3. QED BY <5>1, <5>2, <2>1, <1>4, <1>7
      <4>3. CASE k > m
        <5>1. k - 1 \in 1 .. Len(wait_q) /\ k - 1 >= m /\ wait_q'[k] = wait_q[k - 1]
          BY <4>3, <2>2, <2>3, <2>4
        <5>2. left'[wait_q'[k].item] = left[wait_q[k - 1].item]
          BY <5>1, <1>7
        <5>3. CASE j < m
          <6>1. j \in 1 .. Len(wait_q) /\ wait_q'[j] = wait_q[j]
            BY <5>3, <2>2, <2>3, <2>4
          <6>2. left[wait_q[j].item] <= ticks /\ ticks < left[wait_q[k - 1].item]
            BY <5>1, <5>3, <6>1, <2>2
          <6>3. QED BY <5>1, <5>2, <6>1, <6>2, <1>2, <1>7
        <5>4. CASE j = m
          <6>1. wait_q'[j] = e
            BY <5>4, <2>4
          <6>2. left'[wait_q'[j].item] = ticks /\ ticks < left[wait_q[k - 1].item]
            BY <5>1, <6>1, <2>1, <2>2, <1>4
          <6>3. QED BY <5>1, <5>2, <6>2, <1>2, <1>7
        <5>5. CASE j > m
          <6>1. j - 1 \in 1 .. Len(wait_q) /\ j - 1 < k - 1 /\ wait_q'[j] = wait_q[j - 1]
            BY <5>5, <3>1, <2>2, <2>3, <2>4, SMTT(60)
          <6>2. QED BY <5>1, <5>2, <6>1, <1>7, <1>8
        <5>6. QED BY <5>3, <5>4, <5>5, <2>3
      <4>4. QED BY <4>1, <4>2, <4>3, <2>3
    <3>2. QED BY <3>1
  <2>8. Waiting' = Waiting \cup {i}
    <3>1. ASSUME NEW k \in 1 .. Len(wait_q) + 1 PROVE wait_q'[k].item \in Waiting \cup {i}
      <4>1. CASE k < m
        BY <4>1, <2>3, <2>4 DEF Waiting
      <4>2. CASE k = m
        BY <4>2, <2>1, <2>4
      <4>3. CASE k > m
        <5>1. k - 1 \in 1 .. Len(wait_q) /\ wait_q'[k] = wait_q[k - 1]
          BY <4>3, <2>2, <2>3, <2>4
        <5>2. QED BY <5>1 DEF Waiting
      <4>4. QED BY <4>1, <4>2, <4>3, <2>3
    <3>2. ASSUME NEW k \in 1 .. Len(wait_q)
          PROVE  \E l \in 1 .. Len(wait_q) + 1 : wait_q'[l].item = wait_q[k].item
      <4>1. CASE k < m
        BY <4>1, <2>3, <2>4
      <4>2. CASE k >= m
        <5>1. k + 1 \in 1 .. Len(wait_q) + 1 /\ k + 1 > m /\ (k + 1) - 1 = k
          BY <4>2, <2>3
        <5>2. wait_q'[k + 1] = wait_q[k]
          BY <5>1, <2>4
        <5>3. QED BY <5>1, <5>2
      <4>3. QED BY <4>1, <4>2, <2>3
    <3>3. i \in Waiting'
      BY <2>1, <2>2, <2>4 DEF Waiting
    <3>4. \A x : x \in Waiting' <=> \E l \in 1 .. Len(wait_q) + 1 : x = wait_q'[l].item
      BY <2>4 DEF Waiting
    <3>5. \A x : x \in Waiting <=> \E k \in 1 .. Len(wait_q) : x = wait_q[k].item
      BY DEF Waiting
    <3>6. Waiting \subseteq Waiting'
      BY <3>2, <3>4, <3>5
    <3>7. QED BY <3>1, <3>3, <3>4, <3>6
  <2>9. Waiting' = {j \in DOMAIN left' : left'[j] > 0}
    BY <2>8, <1>2, <1>4, <1>9, <1>11
  <2>10. Items(ready_q') = {j \in DOMAIN left' : left'[j] = 0}
    BY <2>3, <1>4, <1>9, <1>11
  <2>11. DistancesAreRight'
    BY <1>3, <2>4, <2>6, <2>7, <2>9, <2>10 DEF DistancesAreRight
  <2>12. QED BY <1>6, <2>5, <2>11 DEF TimedInv, SleepersAreOnTime
<1>12. QED BY <1>10, <1>11

(* Those twq_notify takes have no more than d ticks left, the others more. *)
LEMMA DueIs ==
    ASSUME TimedInv, NEW d \in Nat
    PROVE  /\ Due(d) \in 0 .. Len(wait_q)
           /\ \A k \in 1 .. Len(wait_q) : /\ k <= Due(d) => left[wait_q[k].item] <= d
                                          /\ k > Due(d) => left[wait_q[k].item] > d
<1> DEFINE stay == {k \in 1 .. Len(wait_q) : AbsWait(time, wait_q[k].wake) > d}
<1>1. Len(wait_q) \in Nat
    BY QueuesHold DEF TimedInv
<1>2. \A k \in 1 .. Len(wait_q) : /\ left[wait_q[k].item] \in Nat
                                 /\ AbsWait(time, wait_q[k].wake) = left[wait_q[k].item]
    BY WaitersHave
<1>3. \A j, k \in 1 .. Len(wait_q) : j < k => left[wait_q[j].item] <= left[wait_q[k].item]
    BY DEF TimedInv, SleepersAreOnTime, DistancesAreRight
<1>4. Due(d) = IF stay = {} THEN Len(wait_q) ELSE Least(stay) - 1
    BY DEF Due
<1>5. CASE stay = {}
    BY <1>1, <1>2, <1>4, <1>5
<1>6. CASE stay # {}
  <2>1. stay \subseteq Nat
    BY <1>1
  <2>2. PICK m \in stay : m = Least(stay) /\ \A j \in stay : m <= j
    BY <1>6, <2>1, LeastIs
  <2>3. \A k \in 1 .. Len(wait_q) : k < m => left[wait_q[k].item] <= d
    BY <1>1, <1>2, <2>2
  <2>4. \A k \in 1 .. Len(wait_q) : k >= m => left[wait_q[k].item] > d
    BY <1>1, <1>2, <1>3, <2>2
  <2>5. Due(d) = m - 1 /\ m \in 1 .. Len(wait_q) /\ m \in Nat
    BY <1>1, <1>4, <1>6, <2>2
  <2>6. Due(d) \in 0 .. Len(wait_q)
    BY <1>1, <2>5
  <2>7. \A k \in 1 .. Len(wait_q) : (k <= m - 1 => k < m) /\ (k > m - 1 => k >= m)
    BY <1>1, <2>5
  <2>8. QED BY <2>3, <2>4, <2>5, <2>6, <2>7
<1>7. QED BY <1>5, <1>6

LEMMA StepTick ==
    ASSUME TimedInv, NEW d \in 1 .. MaxLate, Tick(d)
    PROVE  TimedInv'
<1>1. d \in Times /\ d \in Nat \ {0} /\ time \in Times
    BY TimedQueueAssumption DEF TimedInv, TimedTypes, Times
<1>2. PICK curr \in Times : curr = Plus(time, d)
    BY <1>1, Distances
<1>3. /\ AbsWait(time, curr) = d
      /\ \A w \in Times : AbsWait(time, w) >= d => AbsWait(curr, w) = AbsWait(time, w) - d
    BY <1>1, <1>2, Distances
<1>4. /\ wait_q \in Seq(Pair) /\ Len(wait_q) \in Nat
      /\ ready_q \in Seq(Sleepers) /\ Len(ready_q) \in Nat
      /\ \A k \in 1 .. Len(wait_q) : /\ wait_q[k] \in Pair /\ wait_q[k].wake \in Times
                                     /\ wait_q[k].item \in Sleepers
    BY QueuesHold DEF TimedInv, TimedTypes
<1>5. PICK n \in 0 .. Len(wait_q) :
         /\ n = Due(d)
         /\ \A k \in 1 .. Len(wait_q) : /\ k <= n => left[wait_q[k].item] <= d
                                        /\ k > n => left[wait_q[k].item] > d
    BY <1>1, DueIs
<1> DEFINE z   == SubSeq(wait_q, n + 1, Len(wait_q))
           w   == [k \in 1 .. n |-> wait_q[k].item]
           out == ready_q \o w
<1>6. /\ time' = curr /\ wait_q' = z /\ ready_q' = << >>
      /\ woken' = [k \in 1 .. Len(out) |-> d - left[out[k]]]
      /\ left' = [i \in {j \in DOMAIN left : left[j] > d} |-> left[i] - d]
    BY <1>2, <1>3, <1>5 DEF Tick
<1>7. /\ z \in Seq(Pair) /\ Len(z) = Len(wait_q) - n /\ Len(z) \in Nat
      /\ \A k \in 1 .. Len(wait_q) - n : z[k] = wait_q[n + k]
    BY <1>4
<1>8. /\ out \in Seq(Sleepers) /\ Len(out) = Len(ready_q) + n
      /\ \A k \in 1 .. Len(ready_q) : out[k] = ready_q[k]
      /\ \A k \in 1 .. n : out[Len(ready_q) + k] = wait_q[k].item
  <2>1. w \in Seq(Sleepers) /\ Len(w) = n /\ \A k \in 1 .. n : w[k] = wait_q[k].item
    BY <1>4
  <2>2. PICK v \in Seq(Sleepers) : v = w /\ Len(v) = n /\ \A k \in 1 .. n : v[k] = wait_q[k].item
    BY <2>1
  <2>3. out = ready_q \o v
    BY <2>2
  <2> HIDE DEF w, out
  <2>4. /\ out \in Seq(Sleepers) /\ Len(out) = Len(ready_q) + Len(v)
        /\ \A k \in 1 .. Len(ready_q) : out[k] = ready_q[k]
        /\ \A k \in 1 .. Len(v) : out[Len(ready_q) + k] = v[k]
    BY <1>4, <2>3, ConcatIs
  <2>5. QED BY <2>2, <2>4
<1> HIDE DEF z, w, out
<1>9. \A i \in DOMAIN left : left[i] \in Nat /\ left[i] \in Times /\ i \in Sleepers
    BY QueuesHold DEF TimedInv, TimedTypes
<1>10. /\ DOMAIN left' = {j \in DOMAIN left : left[j] > d}
       /\ \A i \in DOMAIN left : left[i] > d => left'[i] = left[i] - d
    BY <1>6
<1>11. \A k \in 1 .. Len(wait_q) : /\ wait_q[k].item \in DOMAIN left
                                  /\ left[wait_q[k].item] \in Nat
                                  /\ AbsWait(time, wait_q[k].wake) = left[wait_q[k].item]
    BY WaitersHave
<1>12. \A j, k \in 1 .. Len(wait_q) : j < k => left[wait_q[j].item] <= left[wait_q[k].item]
    BY DEF TimedInv, SleepersAreOnTime, DistancesAreRight
<1>13. TimedTypes'
  <2>1. \A i \in DOMAIN left' : left'[i] \in Times
    BY <1>1, <1>9, <1>10, TimedQueueAssumption DEF Times
  <2>2. DOMAIN left' \subseteq Sleepers /\ left' \in [DOMAIN left' -> Times]
    BY <2>1, <1>6, <1>9, <1>10
  <2>3. QED BY <2>2, <1>6, <1>7 DEF TimedTypes
<1>14. \A k \in 1 .. Len(z) : /\ n + k \in 1 .. Len(wait_q) /\ n + k > n
                             /\ z[k] = wait_q[n + k]
                             /\ z[k].item \in DOMAIN left
                             /\ left[z[k].item] > d
                             /\ left'[z[k].item] = left[z[k].item] - d
                             /\ AbsWait(curr, z[k].wake) = left'[z[k].item]
  <2> SUFFICES ASSUME NEW k \in 1 .. Len(z)
               PROVE  /\ n + k \in 1 .. Len(wait_q) /\ n + k > n
                      /\ z[k] = wait_q[n + k]
                      /\ z[k].item \in DOMAIN left
                      /\ left[z[k].item] > d
                      /\ left'[z[k].item] = left[z[k].item] - d
                      /\ AbsWait(curr, z[k].wake) = left'[z[k].item]
    OBVIOUS
  <2>1. n + k \in 1 .. Len(wait_q) /\ n + k > n /\ z[k] = wait_q[n + k]
    BY <1>4, <1>7
  <2>2. z[k].item \in DOMAIN left /\ left[z[k].item] > d
    BY <2>1, <1>5, <1>11
  <2>3. left'[z[k].item] = left[z[k].item] - d
    BY <2>2, <1>10
  <2>4. AbsWait(curr, z[k].wake) = AbsWait(time, z[k].wake) - d
    <3>1. z[k].wake \in Times /\ AbsWait(time, z[k].wake) = left[z[k].item]
      BY <2>1, <1>4, <1>11
    <3>2. left[z[k].item] \in Nat
      BY <2>1, <1>11
    <3>3. AbsWait(time, z[k].wake) >= d
      BY <3>1, <3>2, <2>2, <1>1
    <3>4. QED BY <3>1, <3>3, <1>3
  <2>5. AbsWait(curr, z[k].wake) = left'[z[k].item]
    BY <2>1, <2>3, <2>4, <1>11
  <2>6. QED BY <2>1, <2>2, <2>3, <2>5
<1>15. \A j, k \in 1 .. Len(z) : j < k => left'[z[j].item] <= left'[z[k].item]
  <2>1. ASSUME NEW j \in 1 .. Len(z), NEW k \in 1 .. Len(z), j < k
        PROVE  left'[z[j].item] <= left'[z[k].item]
    <3>1. left[z[j].item] <= left[z[k].item]
      <4>1. /\ n + j \in 1 .. Len(wait_q) /\ n + k \in 1 .. Len(wait_q)
            /\ z[j] = wait_q[n + j] /\ z[k] = wait_q[n + k]
        BY <1>14
      <4>2. n + j < n + k
        BY <2>1, <1>4, <1>7
      <4>3. QED BY <4>1, <4>2, <1>12
    <3>2. /\ left'[z[j].item] = left[z[j].item] - d /\ left'[z[k].item] = left[z[k].item] - d
          /\ z[j].item \in DOMAIN left /\ z[k].item \in DOMAIN left
        BY <1>14
    <3>3. left[z[j].item] \in Nat /\ left[z[k].item] \in Nat /\ d \in Nat
        BY <3>2, <1>1, <1>9
    <3>4. QED BY <3>1, <3>2, <3>3
  <2>2. QED BY <2>1
<1>16. Waiting' = {i \in DOMAIN left' : left'[i] > 0}
  <2>1. \A x : x \in Waiting' <=> \E k \in 1 .. Len(z) : x = z[k].item
    BY <1>6 DEF Waiting
  <2>2. \A i \in DOMAIN left' : i \in DOMAIN left /\ left[i] > d /\ left'[i] > 0
    BY <1>1, <1>9, <1>10
  <2>3. ASSUME NEW i \in DOMAIN left, left[i] > d
        PROVE  \E k \in 1 .. Len(z) : i = z[k].item
    <3>1. i \in Waiting
      BY <2>3, <1>1, <1>9 DEF TimedInv, SleepersAreOnTime, DistancesAreRight
    <3>2. PICK m \in 1 .. Len(wait_q) : i = wait_q[m].item
      BY <3>1 DEF Waiting
    <3>3. m > n
      BY <3>2, <2>3, <1>1, <1>4, <1>5, <1>9
    <3>4. m - n \in 1 .. Len(z) /\ n + (m - n) = m
      BY <3>3, <1>4, <1>7
    <3>5. z[m - n] = wait_q[m]
      BY <3>4, <1>7
    <3>6. QED BY <3>2, <3>4, <3>5
  <2>4. \A k \in 1 .. Len(z) : z[k].item \in DOMAIN left'
    BY <1>10, <1>14
  <2>5. ASSUME NEW x \in Waiting'
        PROVE  x \in DOMAIN left' /\ left'[x] > 0
    <3>1. PICK k \in 1 .. Len(z) : x = z[k].item
      BY <2>1, <2>5
    <3>2. QED BY <3>1, <2>2, <2>4
  <2>6. ASSUME NEW i \in DOMAIN left', left'[i] > 0
        PROVE  i \in Waiting'
    <3>1. i \in DOMAIN left /\ left[i] > d
      BY <2>2, <2>6
    <3>2. \E k \in 1 .. Len(z) : i = z[k].item
      BY <3>1, <2>3
    <3>3. QED BY <3>2, <2>1
  <2>7. QED BY <2>5, <2>6
<1>17. Items(ready_q') = {i \in DOMAIN left' : left'[i] = 0}
  <2>1. Items(ready_q') = {}
    BY <1>6 DEF Items
  <2>2. \A i \in DOMAIN left' : left'[i] # 0
    BY <1>1, <1>9, <1>10
  <2>3. QED BY <2>1, <2>2
<1>18. DistancesAreRight'
    BY <1>6, <1>14, <1>15, <1>16, <1>17 DEF DistancesAreRight
<1>19. WokenInTurn'
  <2>1. \A k \in 1 .. Len(ready_q) : ready_q[k] \in DOMAIN left /\ left[ready_q[k]] = 0
    <3>1. \A k \in 1 .. Len(ready_q) : ready_q[k] \in Items(ready_q)
      BY DEF Items
    <3>2. Items(ready_q) = {i \in DOMAIN left : left[i] = 0}
      BY DEF TimedInv, SleepersAreOnTime, DistancesAreRight
    <3>3. QED BY <3>1, <3>2
  <2>2. \A k \in 1 .. Len(out) :
           /\ k <= Len(ready_q) => k \in 1 .. Len(ready_q) /\ left[out[k]] = 0
           /\ k > Len(ready_q) => /\ k - Len(ready_q) \in 1 .. n
                                 /\ k - Len(ready_q) \in 1 .. Len(wait_q)
                                 /\ out[k] = wait_q[k - Len(ready_q)].item
    <3> SUFFICES ASSUME NEW k \in 1 .. Len(out)
                 PROVE  /\ k <= Len(ready_q) => k \in 1 .. Len(ready_q) /\ left[out[k]] = 0
                        /\ k > Len(ready_q) => /\ k - Len(ready_q) \in 1 .. n
                                              /\ k - Len(ready_q) \in 1 .. Len(wait_q)
                                              /\ out[k] = wait_q[k - Len(ready_q)].item
      OBVIOUS
    <3>1. CASE k <= Len(ready_q)
      <4>1. k \in 1 .. Len(ready_q) /\ ~(k > Len(ready_q))
        BY <3>1, <1>4, <1>8
      <4>2. out[k] = ready_q[k]
        BY <4>1, <1>8
      <4>3. QED BY <4>1, <4>2, <2>1
    <3>2. CASE k > Len(ready_q)
      <4>1. /\ k - Len(ready_q) \in 1 .. n /\ k - Len(ready_q) \in 1 .. Len(wait_q)
            /\ Len(ready_q) + (k - Len(ready_q)) = k
        BY <3>2, <1>4, <1>5, <1>8
      <4>2. out[k] = wait_q[k - Len(ready_q)].item
        BY <4>1, <1>8
      <4>3. QED BY <4>1, <4>2, <3>2, <1>4
    <3>3. QED BY <3>1, <3>2, <1>4, <1>8
  <2>3. \A k \in 1 .. Len(out) : left[out[k]] \in Nat /\ left[out[k]] <= d
    <3>1. ASSUME NEW k \in 1 .. Len(out) PROVE left[out[k]] \in Nat /\ left[out[k]] <= d
      <4>1. CASE k <= Len(ready_q)
        BY <4>1, <2>2, <1>1
      <4>2. CASE k > Len(ready_q)
        <5>1. PICK m \in 1 .. Len(wait_q) : m \in 1 .. n /\ out[k] = wait_q[m].item
          BY <4>2, <2>2
        <5>2. m <= n
          BY <5>1
        <5>3. QED BY <5>1, <5>2, <1>5, <1>11
      <4>3. QED BY <4>1, <4>2, <1>4, <1>8
    <3>2. QED BY <3>1
  <2>4. ASSUME NEW j \in 1 .. Len(out), NEW k \in 1 .. Len(out), j < k
        PROVE  left[out[j]] <= left[out[k]]
    <3>1. CASE j <= Len(ready_q)
      BY <3>1, <2>2, <2>3
    <3>2. CASE j > Len(ready_q)
      <4>1. j - Len(ready_q) < k - Len(ready_q) /\ k > Len(ready_q)
        BY <3>2, <2>4, <1>4, <1>8
      <4>2. QED BY <4>1, <3>2, <2>2, <1>12
    <3>3. QED BY <3>1, <3>2, <1>4, <1>8
  <2>5. \A k \in 1 .. Len(out) : woken'[k] = d - left[out[k]]
    BY <1>6
  <2>6. Len(woken') = Len(out)
    BY <1>4, <1>6, <1>8
  <2>7. ASSUME NEW j \in 1 .. Len(out), NEW k \in 1 .. Len(out)
        PROVE  woken'[k] >= 0 /\ (j < k => woken'[j] >= woken'[k])
    <3>1. /\ woken'[j] = d - left[out[j]] /\ left[out[j]] \in Nat /\ left[out[j]] <= d
          /\ woken'[k] = d - left[out[k]] /\ left[out[k]] \in Nat /\ left[out[k]] <= d
      BY <2>3, <2>5
    <3>2. j < k => left[out[j]] <= left[out[k]]
      BY <2>4
    <3>3. d \in Nat
      BY <1>1
    <3>4. QED BY <3>1, <3>2, <3>3
  <2>8. QED BY <2>6, <2>7 DEF WokenInTurn
<1>20. QED BY <1>13, <1>18, <1>19 DEF TimedInv, SleepersAreOnTime

LEMMA StepRemoved ==
    ASSUME TimedInv, NEW i \in Sleepers, Removed(i)
    PROVE  TimedInv'
<1> DEFINE T == {p \in Items(wait_q) : p.item = i}
           z == Drop(wait_q, T)
<1>1. /\ wait_q \in Seq(Pair) /\ Len(wait_q) \in Nat /\ ready_q \in Seq(Sleepers)
    BY QueuesHold DEF TimedInv, TimedTypes
<1>2. /\ wait_q' = z /\ ready_q' = Drop(ready_q, {i}) /\ time' = time /\ woken' = woken
      /\ left' = [j \in DOMAIN left \ {i} |-> left[j]]
    BY DEF Removed
<1>3. /\ z \in Seq(Pair) /\ Items(z) = Items(wait_q) \ T
    BY <1>1, DropProps
<1>4. PICK h : Embeds(h, z, wait_q, Len(wait_q), T)
    BY <1>1, DropEmbeds
<1>5. ready_q' \in Seq(Sleepers) /\ Items(ready_q') = Items(ready_q) \ {i}
    BY <1>1, <1>2, DropProps
<1>6. /\ DOMAIN left' = DOMAIN left \ {i}
      /\ \A j \in DOMAIN left \ {i} : left'[j] = left[j]
    BY <1>2
<1>7. TimedTypes'
  <2>1. left' \in [DOMAIN left' -> Times] /\ DOMAIN left' \subseteq Sleepers
    BY <1>2, <1>6, QueuesHold DEF TimedInv, TimedTypes
  <2>2. QED BY <2>1, <1>2, <1>3, <1>5 DEF TimedInv, TimedTypes
<1>8. \A k \in 1 .. Len(z) : /\ h[k] \in 1 .. Len(wait_q) /\ z[k] = wait_q[h[k]]
                            /\ z[k].item # i
  <2>1. \A k \in 1 .. Len(z) : h[k] \in 1 .. Len(wait_q) /\ z[k] = wait_q[h[k]]
    BY <1>4 DEF Embeds
  <2>2. \A k \in 1 .. Len(z) : z[k] \in Items(wait_q) \ T
    BY <1>3 DEF Items
  <2>3. QED BY <2>1, <2>2
<1>9. \A j, k \in 1 .. Len(z) : j < k => h[j] < h[k]
    BY <1>4 DEF Embeds
<1>10. \A x : x \in Items(z) <=> x \in Items(wait_q) /\ x.item # i
    BY <1>3
<1> HIDE DEF T, z
<1>11. \A k \in 1 .. Len(wait_q) : /\ wait_q[k].item \in DOMAIN left
                                  /\ AbsWait(time, wait_q[k].wake) = left[wait_q[k].item]
    BY WaitersHave
<1>12. /\ Waiting = {j \in DOMAIN left : left[j] > 0}
       /\ \A j, k \in 1 .. Len(wait_q) : j < k => left[wait_q[j].item] <= left[wait_q[k].item]
       /\ Items(ready_q) = {j \in DOMAIN left : left[j] = 0}
    BY DEF TimedInv, SleepersAreOnTime, DistancesAreRight
<1>13. \A k \in 1 .. Len(z) : /\ left'[z[k].item] = left[wait_q[h[k]].item]
                             /\ AbsWait(time, z[k].wake) = left'[z[k].item]
    BY <1>6, <1>8, <1>11
<1>14. \A j, k \in 1 .. Len(z) : j < k => left'[z[j].item] <= left'[z[k].item]
    BY <1>8, <1>9, <1>12, <1>13
<1>15. Waiting' = Waiting \ {i}
  <2>1. \A x : x \in Waiting' <=> \E e \in Items(z) : x = e.item
    BY <1>2 DEF Waiting, Items
  <2>2. \A x : x \in Waiting <=> \E e \in Items(wait_q) : x = e.item
    BY DEF Waiting, Items
  <2>3. QED BY <2>1, <2>2, <1>10
<1>16. Waiting' = {j \in DOMAIN left' : left'[j] > 0}
    BY <1>6, <1>12, <1>15
<1>17. Items(ready_q') = {j \in DOMAIN left' : left'[j] = 0}
    BY <1>5, <1>6, <1>12
<1>18. DistancesAreRight'
    BY <1>2, <1>13, <1>14, <1>16, <1>17 DEF DistancesAreRight
<1>19. WokenInTurn'
    BY <1>2 DEF TimedInv, SleepersAreOnTime, WokenInTurn
<1>20. QED BY <1>7, <1>18, <1>19 DEF TimedInv, SleepersAreOnTime

-----------------------------------------------------------------------------
(* Whoever calls and however the clock wraps, the sleep queue holds those  *)
(* that have still to wait, sorted, each as far away as it has to wait,    *)
(* and a tick wakes nobody early and those longest overdue first.          *)
THEOREM SleepersWakeOnTime == TimedSpec => []SleepersAreOnTime
<1>1. TimedInit => TimedInv
    BY TimedStart
<1>2. TimedInv /\ [TimedNext]_timedVars => TimedInv'
  <2> SUFFICES ASSUME TimedInv, [TimedNext]_timedVars PROVE TimedInv'
    OBVIOUS
  <2>1. ASSUME NEW i \in Sleepers, NEW ticks \in Times, Enqueue(i, ticks) PROVE TimedInv'
    BY <2>1, StepEnqueue
  <2>2. ASSUME NEW i \in Sleepers, Removed(i) PROVE TimedInv'
    BY <2>2, StepRemoved
  <2>3. ASSUME NEW d \in 1 .. MaxLate, Tick(d) PROVE TimedInv'
    BY <2>3, StepTick
  <2>4. CASE UNCHANGED timedVars
    BY <2>4 DEF timedVars, TimedInv, TimedTypes, SleepersAreOnTime, DistancesAreRight,
                WokenInTurn, Waiting
  <2>5. QED BY <2>1, <2>2, <2>3, <2>4 DEF TimedNext
<1>3. TimedInv => SleepersAreOnTime
    BY DEF TimedInv
<1>4. QED BY <1>1, <1>2, <1>3, PTL DEF TimedSpec

-----------------------------------------------------------------------------
(* The id tables, of any size.  The order of a list is a sequence that no  *)
(* variable holds: the invariant says that there is one for each list.     *)

Ids(c) == 0 .. c - 1
Entry == [allocated : BOOLEAN, next : 0 .. MaxCap, prev : 0 .. MaxCap]
IdTables(c) == [Ids(c) -> Entry]

(* The element at a place of a list s of length n, and NULL_ID beyond its  *)
(* ends.                                                                   *)
At(s, n, i) == IF 1 <= i /\ i <= n THEN s[i] ELSE NULL_ID

(* From h, the entries of t are linked in the order of s. *)
Chain(t, h, s, n) ==
    /\ \A i, j \in 1 .. n : s[i] = s[j] => i = j
    /\ h = At(s, n, 1)
    /\ \A i \in 1 .. n : t[s[i]].next = At(s, n, i + 1) /\ t[s[i]].prev = At(s, n, i - 1)

List(c, n) == [1 .. n -> Ids(c)]

(* S are the ids in s. *)
Elements(s, n, S) == \A id : id \in S <=> \E i \in 1 .. n : s[i] = id

(* A list of the entries S of a table of c. *)
ListOf(t, c, h, S) ==
    /\ t \in IdTables(c)
    /\ \E n \in Nat : \E s \in List(c, n) : Chain(t, h, s, n) /\ Elements(s, n, S)

(* The links of the entries T in two tables, and the flags of a table.     *)
SameLinks(t, u, T) == \A k \in T : u[k].next = t[k].next /\ u[k].prev = t[k].prev
Flags(t, c) == [k \in Ids(c) |-> t[k].allocated]
Flag(f, id, a) == [f EXCEPT ![id] = a]

IdTypes ==
    /\ cap \in 1 .. MaxCap
    /\ tbl \in IdTables(cap)
    /\ fl_head \in 0 .. MaxCap /\ al_head \in 0 .. MaxCap
    /\ given \subseteq Ids(cap)

IdInv ==
    /\ IdTypes
    /\ ListOf(tbl, cap, al_head, given)
    /\ ListOf(tbl, cap, fl_head, Ids(cap) \ given)
    /\ \A id \in Ids(cap) : tbl[id].allocated <=> id \in given
    /\ popped = "full" => given = 0 .. MaxCap - 1
    /\ popped = "memory" => given = 0 .. cap - 1

-----------------------------------------------------------------------------
(* What the operators of the table do to lists *)

(* The entries before, after and between. *)
LEMMA SetsAre ==
    ASSUME NEW c \in 1 .. MaxCap, NEW t \in IdTables(c), NEW id \in 0 .. MaxCap,
           id # NULL_ID => id \in Ids(c), NEW v \in 0 .. MaxCap
    PROVE  /\ SetPrev(t, id, v) \in IdTables(c) /\ SetNext(t, id, v) \in IdTables(c)
           /\ \A k \in Ids(c) :
                /\ SetPrev(t, id, v)[k].prev = IF k = id THEN v ELSE t[k].prev
                /\ SetPrev(t, id, v)[k].next = t[k].next
                /\ SetPrev(t, id, v)[k].allocated = t[k].allocated
                /\ SetNext(t, id, v)[k].next = IF k = id THEN v ELSE t[k].next
                /\ SetNext(t, id, v)[k].prev = t[k].prev
                /\ SetNext(t, id, v)[k].allocated = t[k].allocated
<1>1. \A k \in Ids(c) : t[k] \in Entry /\ k # NULL_ID
    BY IdTableAssumption DEF IdTables, Ids, NULL_ID
<1>2. CASE id = NULL_ID
    BY <1>1, <1>2 DEF SetPrev, SetNext, IdTables
<1>3. CASE id # NULL_ID
    BY <1>1, <1>3 DEF SetPrev, SetNext, IdTables, Entry
<1>4. QED BY <1>2, <1>3

(* An entry that is cut out leaves its neighbours linked to each other.    *)
LEMMA CutFields ==
    ASSUME NEW c \in 1 .. MaxCap, NEW t \in IdTables(c), NEW id \in Ids(c),
           t[id].next = NULL_ID \/ t[id].next \in Ids(c),
           t[id].prev = NULL_ID \/ t[id].prev \in Ids(c),
           t[id].next # id, t[id].prev # id
    PROVE  /\ Cut(t, id) \in IdTables(c)
           /\ \A k \in Ids(c) :
                /\ Cut(t, id)[k].prev = IF k = t[id].next THEN t[id].prev ELSE t[k].prev
                /\ Cut(t, id)[k].next = IF k = t[id].prev THEN t[id].next ELSE t[k].next
                /\ Cut(t, id)[k].allocated = t[k].allocated
<1>1. /\ t[id].next \in 0 .. MaxCap /\ t[id].prev \in 0 .. MaxCap
      /\ t[id].next # NULL_ID => t[id].next \in Ids(c)
      /\ t[id].prev # NULL_ID => t[id].prev \in Ids(c)
    BY DEF IdTables, Entry
<1> DEFINE x == t[id].next
           p == t[id].prev
<1> HIDE DEF x, p
<1>2. /\ x \in 0 .. MaxCap /\ p \in 0 .. MaxCap
      /\ x # NULL_ID => x \in Ids(c)
      /\ p # NULL_ID => p \in Ids(c)
    BY <1>1 DEF x, p
<1> DEFINE u == SetPrev(t, x, p)
           w == SetNext(u, p, x)
<1> HIDE DEF u, w
<1>3. /\ u \in IdTables(c)
      /\ \A k \in Ids(c) :
           /\ u[k].prev = IF k = x THEN p ELSE t[k].prev
           /\ u[k].next = t[k].next
           /\ u[k].allocated = t[k].allocated
    BY <1>2, SetsAre DEF u
<1>4. /\ w \in IdTables(c)
      /\ \A k \in Ids(c) :
           /\ w[k].next = IF k = p THEN x ELSE u[k].next
           /\ w[k].prev = u[k].prev
           /\ w[k].allocated = u[k].allocated
    BY <1>2, <1>3, SetsAre DEF w
<1>5. Cut(t, id) = w
    BY DEF Cut, w, u, x, p
<1>6. /\ w \in IdTables(c)
      /\ \A k \in Ids(c) :
           /\ w[k].prev = IF k = x THEN p ELSE t[k].prev
           /\ w[k].next = IF k = p THEN x ELSE t[k].next
           /\ w[k].allocated = t[k].allocated
    BY <1>3, <1>4
<1>7. QED BY <1>5, <1>6 DEF x, p

(* An entry that is put before a head. *)
LEMMA PutFields ==
    ASSUME NEW c \in 1 .. MaxCap, NEW t \in IdTables(c), NEW id \in Ids(c),
           NEW h \in 0 .. MaxCap, h = NULL_ID \/ h \in Ids(c), h # id,
           NEW a \in BOOLEAN
    PROVE  /\ Put(t, id, h, a) \in IdTables(c)
           /\ \A k \in Ids(c) :
                /\ Put(t, id, h, a)[k].prev = IF k = id THEN NULL_ID
                                              ELSE IF k = h THEN id ELSE t[k].prev
                /\ Put(t, id, h, a)[k].next = IF k = id THEN h ELSE t[k].next
                /\ Put(t, id, h, a)[k].allocated = IF k = id THEN a ELSE t[k].allocated
<1>1. id \in 0 .. MaxCap /\ NULL_ID \in 0 .. MaxCap
    BY IdTableAssumption DEF Ids, NULL_ID
<1> DEFINE u == SetPrev(t, h, id)
           e == [allocated |-> a, next |-> h, prev |-> NULL_ID]
<1>2. /\ u \in IdTables(c)
      /\ \A k \in Ids(c) :
           /\ u[k].prev = IF k = h THEN id ELSE t[k].prev
           /\ u[k].next = t[k].next
           /\ u[k].allocated = t[k].allocated
    BY <1>1, SetsAre, SMTT(60)
<1>3. e \in Entry /\ e.allocated = a /\ e.next = h /\ e.prev = NULL_ID
    BY <1>1 DEF Entry
<1>4. Put(t, id, h, a) = [u EXCEPT ![id] = e]
    BY DEF Put
<1> HIDE DEF u, e
<1>5. /\ [u EXCEPT ![id] = e] \in IdTables(c)
      /\ \A k \in Ids(c) : [u EXCEPT ![id] = e][k] = IF k = id THEN e ELSE u[k]
    BY <1>2, <1>3 DEF IdTables
<1>6. QED BY <1>2, <1>3, <1>4, <1>5

(* A list is as it was in a table that has the same links in its entries. *)
LEMMA ChainStays ==
    ASSUME NEW c \in Nat, NEW d \in Nat, c <= d, NEW t, NEW u, NEW h, NEW S,
           ListOf(t, c, h, S),
           SameLinks(t, u, S), u \in IdTables(d)
    PROVE  ListOf(u, d, h, S)
<1>1. PICK n \in Nat : \E s \in List(c, n) : Chain(t, h, s, n) /\ Elements(s, n, S)
    BY DEF ListOf
<1>2. PICK s \in List(c, n) : Chain(t, h, s, n) /\ Elements(s, n, S)
    BY <1>1
<1>3. s \in List(d, n)
    BY <1>2 DEF List, Ids
<1>4. \A i \in 1 .. n : s[i] \in S
    BY <1>2 DEF Elements
<1>5. Chain(u, h, s, n)
    BY <1>2, <1>4 DEF Chain, SameLinks
<1>6. QED BY <1>2, <1>3, <1>5 DEF ListOf

(* The entry at place m of a list is cut out of it.                        *)
Less(s, n, m) == [i \in 1 .. n - 1 |-> IF i < m THEN s[i] ELSE s[i + 1]]

LEMMA ListCut ==
    ASSUME NEW c \in 1 .. MaxCap, NEW t \in IdTables(c), NEW h, NEW S, ListOf(t, c, h, S),
           NEW id \in S
    PROVE  /\ ListOf(Cut(t, id), c, HeadAfterCut(t, id, h), S \ {id})
           /\ Flags(Cut(t, id), c) = Flags(t, c)
           /\ SameLinks(t, Cut(t, id), Ids(c) \ S)
<1>1. PICK n \in Nat : \E s \in List(c, n) : Chain(t, h, s, n) /\ Elements(s, n, S)
    BY DEF ListOf
<1>2. PICK s \in List(c, n) : Chain(t, h, s, n) /\ Elements(s, n, S)
    BY <1>1
<1>3. PICK m \in 1 .. n : s[m] = id
    BY <1>2 DEF Elements
<1>4. \A i \in 1 .. n : s[i] \in Ids(c) /\ s[i] \in S /\ s[i] # NULL_ID /\ s[i] \in Nat
    BY <1>2, IdTableAssumption DEF Elements, List, Ids, NULL_ID
<1>5. \A i, j \in 1 .. n : s[i] = s[j] => i = j
    BY <1>2 DEF Chain
<1>6. /\ t[id].next = At(s, n, m + 1) /\ t[id].prev = At(s, n, m - 1)
      /\ id \in Ids(c)
    BY <1>2, <1>3, <1>4 DEF Chain
<1>7. /\ t[id].next = NULL_ID \/ t[id].next \in Ids(c)
      /\ t[id].prev = NULL_ID \/ t[id].prev \in Ids(c)
      /\ t[id].next # id /\ t[id].prev # id
    BY <1>3, <1>4, <1>5, <1>6 DEF At
<1> DEFINE u == Cut(t, id)
           g == HeadAfterCut(t, id, h)
           r == Less(s, n, m)
<1>8. /\ u \in IdTables(c)
      /\ \A k \in Ids(c) :
           /\ u[k].prev = IF k = t[id].next THEN t[id].prev ELSE t[k].prev
           /\ u[k].next = IF k = t[id].prev THEN t[id].next ELSE t[k].next
           /\ u[k].allocated = t[k].allocated
    BY <1>6, <1>7, CutFields
<1>9. SameLinks(t, u, Ids(c) \ S)
    BY <1>3, <1>4, <1>6, <1>8, IdTableAssumption DEF At, Ids, NULL_ID, SameLinks
<1>17. Flags(u, c) = Flags(t, c)
    BY <1>8 DEF Flags
<1>10. g = IF m = 1 THEN At(s, n, 2) ELSE h
    BY <1>3, <1>4, <1>6 DEF HeadAfterCut, At
<1> HIDE DEF u, g
<1>11. /\ n - 1 \in Nat /\ r \in List(c, n - 1)
       /\ \A i \in 1 .. n - 1 : r[i] = IF i < m THEN s[i] ELSE s[i + 1]
    BY <1>3, <1>4 DEF List, Less
<1> HIDE DEF r
<1>12. \A i \in 0 .. n : At(r, n - 1, i) = IF i < m THEN At(s, n, i) ELSE At(s, n, i + 1)
    BY <1>11 DEF At
<1>13. Elements(r, n - 1, S \ {id})
  <2>1. ASSUME NEW i \in 1 .. n - 1 PROVE r[i] \in S \ {id}
    <3>1. CASE i < m
        BY <1>3, <1>4, <1>5, <1>11, <3>1
    <3>2. CASE ~(i < m)
        BY <1>3, <1>4, <1>5, <1>11, <3>2
    <3>3. QED BY <3>1, <3>2
  <2>2. ASSUME NEW k \in S \ {id} PROVE \E i \in 1 .. n - 1 : r[i] = k
    <3>1. PICK j \in 1 .. n : s[j] = k
        BY <1>2 DEF Elements
    <3>2. CASE j < m
      <4>1. j \in 1 .. n - 1 /\ r[j] = k
        BY <1>11, <3>1, <3>2
      <4>2. QED BY <4>1
    <3>3. CASE j > m
      <4>1. j - 1 \in 1 .. n - 1 /\ ~(j - 1 < m) /\ (j - 1) + 1 = j
        BY <3>3
      <4>2. r[j - 1] = k
        BY <1>11, <3>1, <4>1
      <4>3. QED BY <4>1, <4>2
    <3>4. QED BY <1>3, <3>1, <3>2, <3>3
  <2>3. QED BY <2>1, <2>2 DEF Elements
<1>14. Chain(u, g, r, n - 1)
  <2>1. \A i, j \in 1 .. n - 1 : r[i] = r[j] => i = j
    BY <1>5, <1>11
  <2>2. g = At(r, n - 1, 1)
    BY <1>2, <1>10, <1>12 DEF Chain, At
  <2>3. ASSUME NEW i \in 1 .. n - 1
        PROVE  u[r[i]].next = At(r, n - 1, i + 1) /\ u[r[i]].prev = At(r, n - 1, i - 1)
    <3>1. \A j \in 1 .. n : /\ t[s[j]].next = At(s, n, j + 1)
                            /\ t[s[j]].prev = At(s, n, j - 1)
        BY <1>2 DEF Chain
    <3>2. \A j \in 1 .. n : /\ s[j] = t[id].next <=> j = m + 1
                            /\ s[j] = t[id].prev <=> j = m - 1
        BY <1>3, <1>4, <1>5, <1>6 DEF At
    <3>3. CASE i < m
      <4>1. i \in 1 .. n /\ r[i] = s[i] /\ r[i] \in Ids(c)
        BY <1>4, <1>11, <3>3
      <4>2. /\ u[s[i]].prev = t[s[i]].prev
            /\ u[s[i]].next = IF i = m - 1 THEN t[id].next ELSE t[s[i]].next
        BY <1>8, <3>2, <3>3, <4>1
      <4>3. QED BY <1>6, <1>12, <3>1, <3>3, <4>1, <4>2
    <3>4. CASE ~(i < m)
      <4>1. i + 1 \in 1 .. n /\ r[i] = s[i + 1] /\ r[i] \in Ids(c)
        BY <1>4, <1>11, <3>4
      <4>2. /\ u[s[i + 1]].next = t[s[i + 1]].next
            /\ u[s[i + 1]].prev = IF i = m THEN t[id].prev ELSE t[s[i + 1]].prev
        BY <1>8, <3>2, <3>4, <4>1
      <4>3. QED BY <1>6, <1>12, <3>1, <3>4, <4>1, <4>2
    <3>5. QED BY <3>3, <3>4
  <2>4. QED BY <2>1, <2>2, <2>3 DEF Chain
<1>15. ListOf(u, c, g, S \ {id})
    BY <1>8, <1>11, <1>13, <1>14 DEF ListOf
<1>16. QED BY <1>8, <1>9, <1>15, <1>17 DEF u, g

(* An entry of no list is put before one.                                  *)
More(s, n, id) == [i \in 1 .. n + 1 |-> IF i = 1 THEN id ELSE s[i - 1]]

LEMMA ListPut ==
    ASSUME NEW c \in 1 .. MaxCap, NEW t \in IdTables(c), NEW h, NEW S, ListOf(t, c, h, S),
           NEW id \in Ids(c), id \notin S, NEW a \in BOOLEAN
    PROVE  /\ ListOf(Put(t, id, h, a), c, id, S \cup {id})
           /\ Flags(Put(t, id, h, a), c) = Flag(Flags(t, c), id, a)
           /\ SameLinks(t, Put(t, id, h, a), Ids(c) \ (S \cup {id}))
<1>1. PICK n \in Nat : \E s \in List(c, n) : Chain(t, h, s, n) /\ Elements(s, n, S)
    BY DEF ListOf
<1>2. PICK s \in List(c, n) : Chain(t, h, s, n) /\ Elements(s, n, S)
    BY <1>1
<1>3. \A i \in 1 .. n : s[i] \in Ids(c) /\ s[i] \in S /\ s[i] # NULL_ID /\ s[i] \in Nat
    BY <1>2, IdTableAssumption DEF Elements, List, Ids, NULL_ID
<1>4. \A i, j \in 1 .. n : s[i] = s[j] => i = j
    BY <1>2 DEF Chain
<1>5. h = At(s, n, 1) /\ id # NULL_ID /\ NULL_ID \in 0 .. MaxCap
    BY <1>2, IdTableAssumption DEF Chain, Ids, NULL_ID
<1>6. h \in 0 .. MaxCap /\ (h # NULL_ID => h \in Ids(c) /\ h \in S) /\ h # id
    BY <1>3, <1>5, IdTableAssumption DEF At, Ids
<1> DEFINE u == Put(t, id, h, a)
           r == More(s, n, id)
<1>7. /\ u \in IdTables(c)
      /\ \A k \in Ids(c) :
           /\ u[k].prev = IF k = id THEN NULL_ID ELSE IF k = h THEN id ELSE t[k].prev
           /\ u[k].next = IF k = id THEN h ELSE t[k].next
           /\ u[k].allocated = IF k = id THEN a ELSE t[k].allocated
    BY <1>6, PutFields
<1> HIDE DEF u
<1>8. /\ n + 1 \in Nat /\ r \in List(c, n + 1)
      /\ \A i \in 1 .. n + 1 : r[i] = IF i = 1 THEN id ELSE s[i - 1]
    BY <1>3 DEF List, More
<1> HIDE DEF r
<1>9. \A i \in 1 .. n + 2 : At(r, n + 1, i) = IF i = 1 THEN id ELSE At(s, n, i - 1)
    BY <1>8 DEF At
<1>10. Elements(r, n + 1, S \cup {id})
  <2>1. \A i \in 1 .. n + 1 : r[i] \in S \cup {id}
    BY <1>3, <1>8
  <2>2. ASSUME NEW k \in S PROVE \E i \in 1 .. n + 1 : r[i] = k
    <3>1. PICK j \in 1 .. n : s[j] = k
        BY <1>2 DEF Elements
    <3>2. j + 1 \in 1 .. n + 1 /\ j + 1 # 1 /\ (j + 1) - 1 = j
        OBVIOUS
    <3>3. r[j + 1] = k
        BY <1>8, <3>1, <3>2
    <3>4. QED BY <3>2, <3>3
  <2>3. 1 \in 1 .. n + 1 /\ r[1] = id
    BY <1>8
  <2>4. QED BY <2>1, <2>2, <2>3 DEF Elements
<1>11. Chain(u, id, r, n + 1)
  <2>1. \A i, j \in 1 .. n + 1 : r[i] = r[j] => i = j
    <3> SUFFICES ASSUME NEW i \in 1 .. n + 1, NEW j \in 1 .. n + 1, r[i] = r[j] PROVE i = j
        OBVIOUS
    <3>1. \A k \in 1 .. n + 1 : k # 1 => k - 1 \in 1 .. n /\ r[k] = s[k - 1] /\ r[k] # id
        BY <1>3, <1>8
    <3>2. r[1] = id
        BY <1>8
    <3>3. QED BY <1>4, <3>1, <3>2
  <2>2. id = At(r, n + 1, 1)
    BY <1>9
  <2>3. ASSUME NEW i \in 1 .. n + 1
        PROVE  u[r[i]].next = At(r, n + 1, i + 1) /\ u[r[i]].prev = At(r, n + 1, i - 1)
    <3>1. CASE i = 1
      <4>1. r[i] = id /\ u[id].next = h /\ u[id].prev = NULL_ID
        BY <1>7, <1>8, <3>1
      <4>2. At(r, n + 1, i + 1) = h
        BY <1>5, <1>9, <3>1 DEF At
      <4>3. At(r, n + 1, i - 1) = NULL_ID
        BY <3>1 DEF At
      <4>4. QED BY <4>1, <4>2, <4>3
    <3>2. CASE i # 1
      <4> DEFINE j == i - 1
      <4>1. j \in 1 .. n /\ r[i] = s[j] /\ i = j + 1
        BY <1>8, <3>2
      <4>2. /\ t[s[j]].next = At(s, n, j + 1) /\ t[s[j]].prev = At(s, n, j - 1)
            /\ s[j] # id /\ s[j] \in Ids(c)
            /\ s[j] = h <=> j = 1
        BY <1>2, <1>3, <1>4, <1>5, <4>1 DEF Chain, At
      <4>3. /\ u[s[j]].next = At(s, n, j + 1)
            /\ u[s[j]].prev = IF j = 1 THEN id ELSE At(s, n, j - 1)
        BY <1>7, <4>2
      <4>4. At(r, n + 1, i + 1) = At(s, n, j + 1)
        BY <1>9, <4>1
      <4>5. At(r, n + 1, i - 1) = IF j = 1 THEN id ELSE At(s, n, j - 1)
        BY <1>9, <4>1
      <4>6. QED BY <4>1, <4>3, <4>4, <4>5
    <3>3. QED BY <3>1, <3>2
  <2>4. QED BY <2>1, <2>2, <2>3 DEF Chain
<1>12. ListOf(u, c, id, S \cup {id})
    BY <1>7, <1>8, <1>10, <1>11 DEF ListOf
<1>13. SameLinks(t, u, Ids(c) \ (S \cup {id}))
    BY <1>6, <1>7, IdTableAssumption DEF Ids, NULL_ID, SameLinks
<1>14. Flags(u, c) = Flag(Flags(t, c), id, a)
    BY <1>7 DEF Flags, Flag
<1>15. QED BY <1>7, <1>12, <1>13, <1>14 DEF u

(* The head of a list is one of its entries, unless it has none.           *)
LEMMA HeadIs ==
    ASSUME NEW c \in 1 .. MaxCap, NEW t, NEW h, NEW S, ListOf(t, c, h, S)
    PROVE  /\ h \in 0 .. MaxCap
           /\ h # NULL_ID => h \in Ids(c) /\ h \in S
           /\ h = NULL_ID => S = {}
<1>1. PICK n \in Nat : \E s \in List(c, n) : Chain(t, h, s, n) /\ Elements(s, n, S)
    BY DEF ListOf
<1>2. PICK s \in List(c, n) : Chain(t, h, s, n) /\ Elements(s, n, S)
    BY <1>1
<1>3. \A i \in 1 .. n : s[i] \in Ids(c) /\ s[i] \in S /\ s[i] # NULL_ID /\ s[i] \in 0 .. MaxCap
    BY <1>2, IdTableAssumption DEF Elements, List, Ids, NULL_ID
<1>4. h = At(s, n, 1) /\ NULL_ID \in 0 .. MaxCap
    BY <1>2, IdTableAssumption DEF Chain, NULL_ID
<1>5. CASE n = 0
  <2>1. S = {} /\ h = NULL_ID
    BY <1>2, <1>4, <1>5 DEF Elements, At
  <2>2. QED BY <2>1, <1>4
<1>6. CASE n # 0
  <2>1. 1 \in 1 .. n /\ h = s[1]
    BY <1>4, <1>6 DEF At
  <2>2. QED BY <2>1, <1>3
<1>7. QED BY <1>5, <1>6

(* The entries of a table that grew. *)
LEMMA ResizedFields ==
    ASSUME IdTypes, NEW n \in 1 .. MaxCap, cap < n, fl_head # NULL_ID => fl_head \in Ids(cap)
    PROVE  /\ Resized(n) \in IdTables(n)
           /\ \A k \in Ids(cap) :
                /\ Resized(n)[k].next = tbl[k].next
                /\ Resized(n)[k].prev = IF k = fl_head THEN n - 1 ELSE tbl[k].prev
                /\ Resized(n)[k].allocated = tbl[k].allocated
           /\ \A k \in cap .. n - 1 :
                /\ Resized(n)[k].next = IF k = n - 1 THEN fl_head ELSE k + 1
                /\ Resized(n)[k].prev = IF k = cap THEN NULL_ID ELSE k - 1
                /\ Resized(n)[k].allocated = FALSE
<1> DEFINE old == SetPrev(tbl, fl_head, n - 1)
           new == Linked(cap, n - 1, fl_head)
<1>1. /\ cap \in 1 .. MaxCap /\ tbl \in IdTables(cap) /\ fl_head \in 0 .. MaxCap
      /\ cap \in Nat /\ n \in Nat /\ n - 1 \in 0 .. MaxCap /\ cap <= n - 1
    BY IdTableAssumption DEF IdTypes
<1>2. /\ old \in IdTables(cap)
      /\ \A k \in Ids(cap) :
           /\ old[k].prev = IF k = fl_head THEN n - 1 ELSE tbl[k].prev
           /\ old[k].next = tbl[k].next
           /\ old[k].allocated = tbl[k].allocated
    BY <1>1, SetsAre
<1>3. \A k \in cap .. n - 1 :
           /\ new[k].next = IF k = n - 1 THEN fl_head ELSE k + 1
           /\ new[k].prev = IF k = cap THEN NULL_ID ELSE k - 1
           /\ new[k].allocated = FALSE
           /\ new[k] \in Entry
  <2>1. ASSUME NEW k \in cap .. n - 1
        PROVE  /\ (IF k = n - 1 THEN fl_head ELSE k + 1) \in 0 .. MaxCap
               /\ (IF k = cap THEN NULL_ID ELSE k - 1) \in 0 .. MaxCap
    BY <1>1, IdTableAssumption DEF NULL_ID
  <2>2. QED BY <2>1 DEF Linked, Entry
<1>4. \A k \in 0 .. n - 1 : Resized(n)[k] = IF k < cap THEN old[k] ELSE new[k]
    BY DEF Resized
<1>5. DOMAIN Resized(n) = 0 .. n - 1 /\ Resized(n) = [k \in 0 .. n - 1 |-> Resized(n)[k]]
    BY DEF Resized
<1> HIDE DEF old, new
<1>6. \A k \in 0 .. n - 1 : IF k < cap THEN k \in Ids(cap) ELSE k \in cap .. n - 1
    BY <1>1 DEF Ids
<1>7. \A k \in 0 .. n - 1 : Resized(n)[k] \in Entry
    BY <1>2, <1>3, <1>4, <1>6 DEF IdTables
<1>8. Resized(n) \in IdTables(n)
    BY <1>5, <1>7 DEF IdTables, Ids
<1>9. /\ \A k \in Ids(cap) : Resized(n)[k] = old[k]
      /\ \A k \in cap .. n - 1 : Resized(n)[k] = new[k]
  <2>1. /\ \A k \in Ids(cap) : k \in 0 .. n - 1 /\ k < cap
        /\ \A k \in cap .. n - 1 : k \in 0 .. n - 1 /\ ~(k < cap)
    BY <1>1 DEF Ids
  <2>2. QED BY <1>4, <2>1
<1>10. QED BY <1>2, <1>3, <1>8, <1>9

(* A table that grows has its new entries first in its free list.          *)
Grown(s, m, a, n) == [i \in 1 .. m + (n - a) |-> IF i <= n - a THEN (a + i) - 1 ELSE s[i - (n - a)]]

LEMMA ListGrows ==
    ASSUME IdTypes, NEW n \in 1 .. MaxCap, cap < n, NEW S, S \subseteq Ids(cap),
           ListOf(tbl, cap, fl_head, S)
    PROVE  ListOf(Resized(n), n, cap, S \cup (cap .. n - 1))
<1>1. PICK m \in Nat : \E s \in List(cap, m) : Chain(tbl, fl_head, s, m) /\ Elements(s, m, S)
    BY DEF ListOf
<1>2. PICK s \in List(cap, m) : Chain(tbl, fl_head, s, m) /\ Elements(s, m, S)
    BY <1>1
<1>3. cap \in 1 .. MaxCap /\ cap \in Nat /\ n \in Nat
    BY IdTableAssumption DEF IdTypes
<1>4. \A i \in 1 .. m : s[i] \in Ids(cap) /\ s[i] \in S /\ s[i] # NULL_ID /\ s[i] \in Nat /\ s[i] < cap
    BY <1>2, <1>3, IdTableAssumption DEF Elements, List, Ids, NULL_ID
<1>5. \A i, j \in 1 .. m : s[i] = s[j] => i = j
    BY <1>2 DEF Chain
<1>6. fl_head = At(s, m, 1) /\ (fl_head # NULL_ID => fl_head \in Ids(cap))
    BY <1>2, <1>3, HeadIs DEF Chain
<1> DEFINE u == Resized(n)
           d == n - cap
           r == Grown(s, m, cap, n)
<1>7. /\ \A k \in Ids(cap) :
           /\ u[k].next = tbl[k].next
           /\ u[k].prev = IF k = fl_head THEN n - 1 ELSE tbl[k].prev
      /\ \A k \in cap .. n - 1 :
           /\ u[k].next = IF k = n - 1 THEN fl_head ELSE k + 1
           /\ u[k].prev = IF k = cap THEN NULL_ID ELSE k - 1
    BY <1>6, ResizedFields
<1> HIDE DEF u
<1>8. d \in Nat /\ d >= 1 /\ m + d \in Nat
    BY <1>3
<1>9. \A i \in 1 .. m + d : r[i] = IF i <= d THEN (cap + i) - 1 ELSE s[i - d]
    BY DEF Grown
<1>10. r \in List(n, m + d)
  <2>1. \A i \in 1 .. m + d : (IF i <= d THEN (cap + i) - 1 ELSE s[i - d]) \in Ids(n)
    BY <1>3, <1>4, <1>8 DEF Ids
  <2>2. QED BY <2>1 DEF List, Grown
<1>11. n = cap + d
    BY <1>3
<1> HIDE DEF r, d
<1>12. \A i \in 0 .. m + d + 1 :
            At(r, m + d, i) = IF i = 0 THEN NULL_ID
                              ELSE IF i <= d THEN (cap + i) - 1 ELSE At(s, m, i - d)
    BY <1>8, <1>9 DEF At
<1>13. Elements(r, m + d, S \cup (cap .. n - 1))
  <2>1. \A i \in 1 .. m + d : r[i] \in S \cup (cap .. n - 1)
    BY <1>3, <1>4, <1>8, <1>9, <1>11
  <2>2. ASSUME NEW k \in S PROVE \E i \in 1 .. m + d : r[i] = k
    <3>1. PICK j \in 1 .. m : s[j] = k
        BY <1>2 DEF Elements
    <3>2. j + d \in 1 .. m + d /\ ~(j + d <= d) /\ (j + d) - d = j
        BY <1>8
    <3>3. r[j + d] = k
        BY <1>9, <3>1, <3>2
    <3>4. QED BY <3>2, <3>3
  <2>3. ASSUME NEW k \in cap .. n - 1 PROVE \E i \in 1 .. m + d : r[i] = k
    <3> DEFINE i == (k - cap) + 1
    <3>1. i \in 1 .. m + d /\ i <= d /\ (cap + i) - 1 = k
        BY <1>3, <1>8, <1>11
    <3> HIDE DEF i
    <3>2. r[i] = k
        BY <1>9, <3>1
    <3>3. QED BY <3>1, <3>2
  <2>4. QED BY <2>1, <2>2, <2>3 DEF Elements
<1>14. Chain(u, cap, r, m + d)
  <2>1. \A i, j \in 1 .. m + d : r[i] = r[j] => i = j
    <3> SUFFICES ASSUME NEW i \in 1 .. m + d, NEW j \in 1 .. m + d, r[i] = r[j] PROVE i = j
        OBVIOUS
    <3>1. \A k \in 1 .. m + d : IF k <= d THEN r[k] = (cap + k) - 1
                                ELSE k - d \in 1 .. m /\ r[k] = s[k - d] /\ r[k] < cap /\ r[k] \in Nat
        BY <1>4, <1>8, <1>9
    <3>2. CASE i <= d /\ j <= d
        BY <1>3, <1>8, <3>1, <3>2
    <3>3. CASE ~(i <= d) /\ ~(j <= d)
      <4>1. i - d = j - d
        BY <1>5, <3>1, <3>3
      <4>2. QED BY <1>8, <4>1
    <3>4. CASE i <= d /\ ~(j <= d)
        BY <1>3, <1>8, <3>1, <3>4
    <3>5. CASE ~(i <= d) /\ j <= d
        BY <1>3, <1>8, <3>1, <3>5
    <3>6. QED BY <3>2, <3>3, <3>4, <3>5
  <2>2. cap = At(r, m + d, 1)
    BY <1>3, <1>8, <1>12
  <2>3. ASSUME NEW i \in 1 .. m + d
        PROVE  u[r[i]].next = At(r, m + d, i + 1) /\ u[r[i]].prev = At(r, m + d, i - 1)
    <3>1. CASE i <= d
      <4>1. r[i] = (cap + i) - 1 /\ r[i] \in cap .. n - 1
        BY <1>3, <1>8, <1>9, <1>11, <3>1
      <4>2. /\ u[r[i]].next = IF i = d THEN fl_head ELSE cap + i
            /\ u[r[i]].prev = IF i = 1 THEN NULL_ID ELSE (cap + i) - 2
        BY <1>3, <1>7, <1>8, <1>11, <4>1
      <4>3. At(r, m + d, i + 1) = IF i = d THEN fl_head ELSE cap + i
        BY <1>3, <1>6, <1>8, <1>12, <3>1
      <4>4. At(r, m + d, i - 1) = IF i = 1 THEN NULL_ID ELSE (cap + i) - 2
        BY <1>3, <1>8, <1>12, <3>1
      <4>5. QED BY <4>2, <4>3, <4>4
    <3>2. CASE ~(i <= d)
      <4> DEFINE j == i - d
      <4>1. j \in 1 .. m /\ r[i] = s[j] /\ i = j + d
        BY <1>8, <1>9, <3>2
      <4>2. /\ tbl[s[j]].next = At(s, m, j + 1) /\ tbl[s[j]].prev = At(s, m, j - 1)
            /\ s[j] \in Ids(cap)
            /\ s[j] = fl_head <=> j = 1
        BY <1>2, <1>4, <1>5, <1>6, <4>1 DEF Chain, At
      <4>3. /\ u[s[j]].next = At(s, m, j + 1)
            /\ u[s[j]].prev = IF j = 1 THEN n - 1 ELSE At(s, m, j - 1)
        BY <1>7, <4>2
      <4>4. At(r, m + d, i + 1) = At(s, m, j + 1)
        BY <1>8, <1>12, <4>1
      <4>5. At(r, m + d, i - 1) = IF j = 1 THEN n - 1 ELSE At(s, m, j - 1)
        BY <1>3, <1>8, <1>11, <1>12, <4>1
      <4>6. QED BY <4>1, <4>3, <4>4, <4>5
    <3>3. QED BY <3>1, <3>2
  <2>4. QED BY <2>1, <2>2, <2>3 DEF Chain
<1>15. u \in IdTables(n)
    BY <1>6, ResizedFields DEF u
<1>16. QED BY <1>8, <1>10, <1>13, <1>14, <1>15 DEF ListOf, u

(* An entry moves from one list, h of S, to the front of another, g of G. *)
Moves(c, t, h, S, g, G, id, a) ==
    /\ ListOf(Put(Cut(t, id), id, g, a), c, id, G \cup {id})
    /\ ListOf(Put(Cut(t, id), id, g, a), c, HeadAfterCut(t, id, h), S \ {id})
    /\ Flags(Put(Cut(t, id), id, g, a), c) = Flag(Flags(t, c), id, a)

LEMMA ListMove ==
    ASSUME NEW c \in 1 .. MaxCap, NEW t \in IdTables(c), NEW h, NEW g, NEW S, NEW G,
           S \subseteq Ids(c), G \subseteq Ids(c), S \cap G = {},
           ListOf(t, c, h, S), ListOf(t, c, g, G), NEW id \in S, NEW a \in BOOLEAN
    PROVE  Moves(c, t, h, S, g, G, id, a)
<1> DEFINE w == Cut(t, id)
           u == Put(w, id, g, a)
           f == HeadAfterCut(t, id, h)
<1>1. /\ ListOf(w, c, f, S \ {id})
      /\ w \in IdTables(c)
      /\ Flags(w, c) = Flags(t, c)
      /\ SameLinks(t, w, Ids(c) \ S)
  <2>1. ListOf(w, c, f, S \ {id})
    BY ListCut
  <2>2. w \in IdTables(c)
    BY <2>1 DEF ListOf
  <2>3. QED BY <2>1, <2>2, ListCut
<1> HIDE DEF w, f
<1>2. c \in Nat /\ c <= c
    BY IdTableAssumption
<1>3. SameLinks(t, w, G)
    BY <1>1 DEF SameLinks
<1>4. ListOf(w, c, g, G)
    BY <1>1, <1>2, <1>3, ChainStays
<1>5. id \in Ids(c) /\ id \notin G
    OBVIOUS
<1>6. /\ ListOf(u, c, id, G \cup {id})
      /\ u \in IdTables(c)
      /\ Flags(u, c) = Flag(Flags(w, c), id, a)
      /\ SameLinks(w, u, Ids(c) \ (G \cup {id}))
  <2>1. ListOf(u, c, id, G \cup {id})
    BY <1>1, <1>4, <1>5, ListPut
  <2>2. SameLinks(w, u, Ids(c) \ (G \cup {id}))
    BY <1>1, <1>4, <1>5, ListPut
  <2>3. u \in IdTables(c)
    BY <2>1 DEF ListOf
  <2>4. Flags(u, c) = Flag(Flags(w, c), id, a)
    BY <1>1, <1>4, <1>5, <2>1, ListPut, ZenonT(60)
  <2>5. QED BY <2>1, <2>2, <2>3, <2>4
<1> HIDE DEF u
<1>7. SameLinks(w, u, S \ {id})
    BY <1>6 DEF SameLinks
<1>8. ListOf(u, c, f, S \ {id})
    BY <1>1, <1>2, <1>6, <1>7, ChainStays
<1>9. QED BY <1>6, <1>1, <1>8 DEF u, w, f, Moves

-----------------------------------------------------------------------------
(* The calls *)

LEMMA IdStart == IdInit => IdInv
<1> SUFFICES ASSUME IdInit PROVE IdInv
    OBVIOUS
<1>1. cap \in 1 .. MaxCap /\ cap \in Nat /\ cap >= 1 /\ cap <= MaxCap /\ MaxCap \in Nat
  <2>1. cap = IF MaxCap < StartCap THEN MaxCap ELSE StartCap
    BY DEF IdInit
  <2>2. QED BY <2>1, IdTableAssumption
<1>2. /\ tbl = Linked(0, cap - 1, NULL_ID) /\ fl_head = 0 /\ al_head = NULL_ID
      /\ given = {} /\ popped = "other"
    BY DEF IdInit
<1>3. \A k \in Ids(cap) : /\ tbl[k].allocated = FALSE
                          /\ tbl[k].next = IF k = cap - 1 THEN NULL_ID ELSE k + 1
                          /\ tbl[k].prev = IF k = 0 THEN NULL_ID ELSE k - 1
                          /\ tbl[k] \in Entry
  <2> SUFFICES ASSUME NEW k \in 0 .. cap - 1
               PROVE  /\ tbl[k].allocated = FALSE
                      /\ tbl[k].next = IF k = cap - 1 THEN NULL_ID ELSE k + 1
                      /\ tbl[k].prev = IF k = 0 THEN NULL_ID ELSE k - 1
                      /\ tbl[k] \in Entry
    BY DEF Ids
  <2>1. /\ (IF k = cap - 1 THEN NULL_ID ELSE k + 1) \in 0 .. MaxCap
        /\ (IF k = 0 THEN NULL_ID ELSE k - 1) \in 0 .. MaxCap
    BY <1>1 DEF NULL_ID
  <2>2. QED BY <1>2, <2>1 DEF Linked, Entry
<1>4. tbl \in IdTables(cap)
    BY <1>2, <1>3 DEF IdTables, Linked, Ids
<1>5. ListOf(tbl, cap, al_head, {})
  <2> DEFINE s == [i \in 1 .. 0 |-> 0]
  <2>1. s \in List(cap, 0) /\ Elements(s, 0, {})
    BY DEF List, Elements
  <2>2. Chain(tbl, al_head, s, 0)
    BY <1>2 DEF Chain, At
  <2>3. QED BY <1>4, <2>1, <2>2 DEF ListOf
<1>6. ListOf(tbl, cap, fl_head, Ids(cap))
  <2> DEFINE s == [i \in 1 .. cap |-> i - 1]
  <2>1. s \in List(cap, cap)
    BY <1>1 DEF List, Ids
  <2>2. Elements(s, cap, Ids(cap))
    <3>1. \A i \in 1 .. cap : s[i] \in Ids(cap)
        BY <1>1 DEF Ids
    <3>2. ASSUME NEW k \in Ids(cap) PROVE \E i \in 1 .. cap : s[i] = k
      <4>1. k + 1 \in 1 .. cap /\ s[k + 1] = k
        BY <1>1 DEF Ids
      <4>2. QED BY <4>1
    <3>3. QED BY <3>1, <3>2 DEF Elements
  <2>3. \A i \in 1 .. cap : s[i] = i - 1 /\ s[i] \in Ids(cap)
    BY <1>1 DEF Ids
  <2> HIDE DEF s
  <2>4. Chain(tbl, fl_head, s, cap)
    BY <1>1, <1>2, <1>3, <2>3 DEF Chain, At
  <2>5. QED BY <1>1, <1>4, <2>1, <2>2, <2>4 DEF ListOf
<1>7. Ids(cap) \ given = Ids(cap) /\ given = {}
    BY <1>2
<1>8. IdTypes
    BY <1>1, <1>2, <1>4 DEF IdTypes, NULL_ID
<1>9. QED BY <1>2, <1>3, <1>5, <1>6, <1>7, <1>8 DEF IdInv

(* An id that nobody has becomes the caller's. *)
LEMMA RequestIs ==
    ASSUME IdInv, NEW id \in 0 .. MaxCap, RequestId(id), given' = given \cup {id},
           popped' = "id" \/ popped' = "other"
    PROVE  IdInv'
<1>1. IdTypes /\ cap \in Nat /\ MaxCap \in Nat /\ cap <= MaxCap /\ cap >= 1
  <2>1. IdTypes
    BY DEF IdInv
  <2>2. QED BY <2>1, IdTableAssumption DEF IdTypes
<1>2. ASSUME NEW c \in 1 .. MaxCap, NEW t \in IdTables(c), NEW h,
             given \subseteq Ids(c), id \in Ids(c) \ given, cap' = c,
             ListOf(t, c, al_head, given), ListOf(t, c, h, Ids(c) \ given),
             \A k \in Ids(c) : t[k].allocated <=> k \in given,
             Taken(t, h, id)
      PROVE  IdInv'
  <2> DEFINE a == TRUE
             u == Put(Cut(t, id), id, al_head, a)
             f == HeadAfterCut(t, id, h)
  <2>0. a \in BOOLEAN
    OBVIOUS
  <2> HIDE DEF a
  <2>1. /\ u \in IdTables(c)
        /\ ListOf(u, c, id, given \cup {id})
        /\ ListOf(u, c, f, (Ids(c) \ given) \ {id})
        /\ Flags(u, c) = Flag(Flags(t, c), id, a)
    <3> DEFINE S == Ids(c) \ given
    <3>1. S \subseteq Ids(c) /\ S \cap given = {} /\ id \in S /\ ListOf(t, c, h, S)
        BY <1>2
    <3> HIDE DEF S
    <3>2. Moves(c, t, h, S, al_head, given, id, a)
        BY <1>2, <2>0, <3>1, ListMove, ZenonT(60)
    <3>3. QED BY <3>2 DEF Moves, ListOf, S
  <2>2. tbl' = u /\ fl_head' = f /\ al_head' = id
    BY <1>2 DEF Taken, a
  <2> HIDE DEF u, f
  <2>3. (Ids(c) \ given) \ {id} = Ids(c) \ (given \cup {id})
    OBVIOUS
  <2>4. f \in 0 .. MaxCap
    BY <2>1, HeadIs
  <2>5. IdTypes'
    BY <1>2, <2>1, <2>2, <2>4 DEF IdTypes
  <2>6. \A k \in Ids(c) : u[k].allocated <=> k \in given \cup {id}
    <3>1. \A k \in Ids(c) : u[k].allocated = IF k = id THEN TRUE ELSE t[k].allocated
        BY <1>2, <2>1 DEF Flags, Flag, a
    <3>2. QED BY <1>2, <3>1
  <2>7. QED BY <1>2, <2>1, <2>2, <2>3, <2>5, <2>6 DEF IdInv
<1>3. CASE id < cap /\ ~tbl[id].allocated /\ Taken(tbl, fl_head, id) /\ UNCHANGED cap
  <2>1. id \in Ids(cap) \ given
    BY <1>1, <1>3 DEF IdInv, Ids
  <2>2. QED BY <1>1, <1>2, <1>3, <2>1 DEF IdInv, IdTypes
<1>4. CASE /\ cap <= id /\ id < MaxCap
           /\ Taken(Resized(NewCap(id)), cap, id) /\ cap' = NewCap(id)
  <2> DEFINE n == NewCap(id)
             t == Resized(n)
             G == Ids(cap) \ given
  <2>1. n \in 1 .. MaxCap /\ cap < n /\ id < n /\ n \in Nat
    BY <1>1, <1>4 DEF NewCap, Doubled
  <2> HIDE DEF n
  <2>2. /\ ListOf(tbl, cap, fl_head, G) /\ G \subseteq Ids(cap)
        /\ fl_head # NULL_ID => fl_head \in Ids(cap) /\ fl_head \in G
    BY <1>1, HeadIs DEF IdInv, IdTypes
  <2>3. /\ t \in IdTables(n)
        /\ \A k \in Ids(cap) : /\ t[k].next = tbl[k].next
                               /\ t[k].prev = IF k = fl_head THEN n - 1 ELSE tbl[k].prev
                               /\ t[k].allocated = tbl[k].allocated
        /\ \A k \in cap .. n - 1 : t[k].allocated = FALSE
    BY <1>1, <2>1, <2>2, ResizedFields
  <2>4. ListOf(t, n, cap, G \cup (cap .. n - 1))
    BY <1>1, <2>1, <2>2, ListGrows
  <2> HIDE DEF t
  <2>5. given \subseteq Ids(cap) /\ ListOf(tbl, cap, al_head, given)
    BY DEF IdInv, IdTypes
  <2>6. NULL_ID \notin given
    BY <1>1, <2>5 DEF Ids, NULL_ID
  <2>7. SameLinks(tbl, t, given)
    BY <2>2, <2>3, <2>5, <2>6 DEF SameLinks
  <2>8. ListOf(t, n, al_head, given)
    BY <1>1, <2>1, <2>3, <2>5, <2>7, ChainStays
  <2>9. /\ Ids(n) = Ids(cap) \cup (cap .. n - 1) /\ Ids(cap) \cap (cap .. n - 1) = {}
        /\ id \in cap .. n - 1
    BY <1>1, <1>4, <2>1 DEF Ids
  <2>10. /\ G \cup (cap .. n - 1) = Ids(n) \ given /\ given \subseteq Ids(n)
         /\ id \in Ids(n) \ given
    BY <2>5, <2>9
  <2>11. \A k \in Ids(cap) : t[k].allocated <=> k \in given
    BY <2>3 DEF IdInv
  <2>12. \A k \in Ids(n) : t[k].allocated <=> k \in given
    BY <2>3, <2>5, <2>9, <2>11
  <2>13. Taken(t, cap, id) /\ cap' = n
    BY <1>4 DEF t, n
  <2>14. QED BY <1>2, <2>1, <2>3, <2>4, <2>8, <2>10, <2>12, <2>13
<1>5. QED BY <1>3, <1>4 DEF RequestId

LEMMA StepPop == ASSUME IdInv, PopId PROVE IdInv'
<1> DEFINE id == IF fl_head # NULL_ID THEN fl_head ELSE cap
<1>1. /\ IdTypes /\ cap \in Nat /\ MaxCap \in Nat /\ cap <= MaxCap /\ cap >= 1
      /\ cap \in 1 .. MaxCap
      /\ ListOf(tbl, cap, fl_head, Ids(cap) \ given)
  <2>1. IdTypes /\ ListOf(tbl, cap, fl_head, Ids(cap) \ given)
    BY DEF IdInv
  <2>2. QED BY <2>1, IdTableAssumption DEF IdTypes
<1>2. /\ fl_head \in 0 .. MaxCap
      /\ fl_head # NULL_ID => fl_head \in Ids(cap) /\ fl_head \in Ids(cap) \ given
      /\ fl_head = NULL_ID => Ids(cap) \ given = {}
    BY <1>1, HeadIs
<1>3. id \in 0 .. MaxCap
    BY <1>1, <1>2
<1>4. CASE RequestId(id) /\ given' = given \cup {id} /\ popped' = "id"
    BY <1>3, <1>4, RequestIs
<1>5. CASE /\ Refused(id) /\ UNCHANGED given
           /\ popped' = IF id < MaxCap THEN "memory" ELSE "full"
  <2>1. UNCHANGED <<tbl, cap, fl_head, al_head, given>>
    BY <1>5 DEF Refused
  <2>2. fl_head = NULL_ID
    <3>1. fl_head # NULL_ID => id < cap /\ ~tbl[id].allocated
        BY <1>1, <1>2 DEF IdInv, Ids
    <3>2. id < cap => ~(id >= cap)
        BY <1>1, <1>3
    <3>3. (id < cap /\ tbl[id].allocated) \/ id >= cap
        BY <1>5 DEF Refused
    <3>4. QED BY <3>1, <3>2, <3>3
  <2>3. id = cap /\ given = Ids(cap)
    BY <1>1, <1>2, <2>2 DEF IdTypes
  <2>4. /\ popped' = "full" => given = 0 .. MaxCap - 1
        /\ popped' = "memory" => given = 0 .. cap - 1
    BY <1>1, <1>5, <2>3 DEF Ids
  <2>5. QED BY <2>1, <2>4 DEF IdInv, IdTypes
<1>6. QED BY <1>4, <1>5 DEF PopId

LEMMA StepRequest == ASSUME IdInv, NEW id \in 0 .. MaxCap, Request(id) PROVE IdInv'
<1>1. CASE RequestId(id) /\ given' = given \cup {id}
    BY <1>1, RequestIs DEF Request
<1>2. CASE Refused(id) /\ UNCHANGED given
  <2>1. UNCHANGED <<tbl, cap, fl_head, al_head, given>> /\ popped' = "other"
    BY <1>2 DEF Refused, Request
  <2>2. QED BY <2>1 DEF IdInv, IdTypes
<1>3. QED BY <1>1, <1>2 DEF Request

LEMMA StepPush == ASSUME IdInv, NEW id \in 0 .. MaxCap, PushId(id) PROVE IdInv'
<1>1. /\ IdTypes /\ cap \in Nat /\ cap \in 1 .. MaxCap
      /\ ListOf(tbl, cap, al_head, given)
      /\ ListOf(tbl, cap, fl_head, Ids(cap) \ given)
      /\ tbl \in IdTables(cap) /\ given \subseteq Ids(cap)
      /\ \A k \in Ids(cap) : tbl[k].allocated <=> k \in given
  <2>1. /\ IdTypes
        /\ ListOf(tbl, cap, al_head, given)
        /\ ListOf(tbl, cap, fl_head, Ids(cap) \ given)
        /\ \A k \in Ids(cap) : tbl[k].allocated <=> k \in given
    BY DEF IdInv
  <2>2. QED BY <2>1, IdTableAssumption DEF IdTypes
<1>2. popped' = "other" /\ given' = given \ {id}
    BY DEF PushId
<1>3. CASE id < cap /\ tbl[id].allocated
  <2> DEFINE a == FALSE
             u == Put(Cut(tbl, id), id, fl_head, a)
             f == HeadAfterCut(tbl, id, al_head)
             S == Ids(cap) \ given
  <2>0. a \in BOOLEAN
    OBVIOUS
  <2> HIDE DEF a
  <2>1. id \in Ids(cap)
    BY <1>1, <1>3 DEF Ids
  <2>2. id \in given
    BY <1>1, <1>3, <2>1
  <2>3. S \subseteq Ids(cap) /\ given \cap S = {}
    OBVIOUS
  <2>4. ListOf(tbl, cap, fl_head, S)
    BY <1>1
  <2> HIDE DEF S
  <2>5. Moves(cap, tbl, al_head, given, fl_head, S, id, a)
    BY <1>1, <2>0, <2>2, <2>3, <2>4, ListMove
  <2>6. ListOf(u, cap, f, given \ {id}) /\ ListOf(u, cap, id, S \cup {id})
    BY <2>5 DEF Moves
  <2>7. Flags(u, cap) = Flag(Flags(tbl, cap), id, a)
    BY <2>5 DEF Moves
  <2>8. tbl' = u /\ al_head' = f /\ fl_head' = id /\ cap' = cap
    BY <1>3 DEF PushId, a
  <2> HIDE DEF u, f
  <2>9. u \in IdTables(cap) /\ f \in 0 .. MaxCap
    <3>1. f \in 0 .. MaxCap
        BY <1>1, <2>6, HeadIs
    <3>2. QED BY <2>6, <3>1 DEF ListOf
  <2>10. \A k \in Ids(cap) : u[k].allocated = IF k = id THEN FALSE ELSE tbl[k].allocated
    BY <2>1, <2>7 DEF Flags, Flag, a
  <2>11. \A k \in Ids(cap) : u[k].allocated <=> k \in given \ {id}
    BY <1>1, <2>10
  <2>12. S \cup {id} = Ids(cap) \ (given \ {id})
    BY <2>1 DEF S
  <2>13. IdTypes'
    BY <1>1, <1>2, <2>8, <2>9 DEF IdTypes
  <2>14. QED BY <1>2, <2>6, <2>8, <2>11, <2>12, <2>13 DEF IdInv
<1>4. CASE ~(id < cap /\ tbl[id].allocated)
  <2>1. UNCHANGED <<tbl, cap, fl_head, al_head>>
    BY <1>4 DEF PushId
  <2>2. id \notin given
  <3>1. ASSUME id \in given PROVE FALSE
    <4>1. id \in Ids(cap)
        BY <1>1, <3>1
    <4>2. tbl[id].allocated
        BY <1>1, <3>1, <4>1
    <4>3. id < cap
        BY <1>1, <4>1 DEF Ids
    <4>4. QED BY <1>4, <4>2, <4>3
  <3>2. QED BY <3>1
  <2>3. given' = given
    BY <1>2, <2>2
  <2>4. QED BY <1>2, <2>1, <2>3 DEF IdInv, IdTypes
<1>5. QED BY <1>3, <1>4

-----------------------------------------------------------------------------
(* A pass over a list *)

(* What a pass visits: the elements in order, and then no more.  The       *)
(* recursion that defines it has one solution.                             *)
LEMMA VisitedIs ==
    ASSUME IdTypes, NEW h, NEW S, ListOf(tbl, cap, h, S)
    PROVE  \E n \in Nat : \E s \in List(cap, n) :
              /\ Chain(tbl, h, s, n) /\ Elements(s, n, S) /\ n <= cap
              /\ \A i \in 0 .. cap : Visited(h)[i] = At(s, n, i + 1)
<1>1. PICK n \in Nat : \E s \in List(cap, n) : Chain(tbl, h, s, n) /\ Elements(s, n, S)
    BY DEF ListOf
<1>2. PICK s \in List(cap, n) : Chain(tbl, h, s, n) /\ Elements(s, n, S)
    BY <1>1
<1>3. cap \in Nat /\ cap <= MaxCap
    BY IdTableAssumption DEF IdTypes
<1>4. n <= cap
  <2>1. IsFiniteSet(0 .. cap - 1) /\ Cardinality(0 .. cap - 1) = cap
    <3>1. cap - 1 \in Int /\ (IF 0 > cap - 1 THEN 0 ELSE (cap - 1) - 0 + 1) = cap
        BY <1>3
    <3>2. QED BY <3>1, FS_Interval
  <2>2. IsFiniteSet(1 .. n) /\ Cardinality(1 .. n) = n
    BY FS_Interval
  <2>3. s \in Injection(1 .. n, 0 .. cap - 1)
    BY <1>2 DEF Chain, List, Ids, Injection, IsInjective
  <2>4. Cardinality(1 .. n) <= Cardinality(0 .. cap - 1)
    BY <2>1, <2>2, <2>3, FS_Injection
  <2>5. QED BY <2>1, <2>2, <2>4
<1> DEFINE Step(f, i) == IF i = 0 THEN h
                         ELSE IF f[i - 1] = NULL_ID THEN NULL_ID ELSE tbl[f[i - 1]].next
           g == [i \in 0 .. cap |-> At(s, n, i + 1)]
<1>5. \A i \in 1 .. n : s[i] # NULL_ID /\ tbl[s[i]].next = At(s, n, i + 1)
    BY <1>2, <1>3 DEF Chain, List, Ids, NULL_ID
<1>6. g = [i \in 0 .. cap |-> Step(g, i)]
  <2>1. h = At(s, n, 1)
    BY <1>2 DEF Chain
  <2>2. ASSUME NEW i \in 0 .. cap PROVE At(s, n, i + 1) = Step(g, i)
    <3>1. CASE i = 0
        BY <2>1, <3>1
    <3>2. CASE i # 0 /\ i <= n
      <4>1. g[i - 1] = s[i] /\ i \in 1 .. n
        BY <1>3, <3>2 DEF At
      <4>2. QED BY <1>5, <3>2, <4>1
    <3>3. CASE i # 0 /\ ~(i <= n)
      <4>1. g[i - 1] = NULL_ID
        BY <1>3, <3>3 DEF At
      <4>2. At(s, n, i + 1) = NULL_ID
        BY <3>3 DEF At
      <4>3. QED BY <3>3, <4>1, <4>2
    <3>4. QED BY <3>1, <3>2, <3>3
  <2>3. QED BY <2>2
<1> DEFINE v == Visited(h)
<1>7. v = [i \in 0 .. cap |-> Step(v, i)]
  <2>1. v = CHOOSE f : f = [i \in 0 .. cap |-> Step(f, i)]
    BY DEF Visited
  <2>2. QED BY <1>6, <2>1, ZenonT(60)
<1>8. \A i \in 0 .. cap : g[i] = At(s, n, i + 1)
    OBVIOUS
<1> HIDE DEF g, v
<1>9. /\ \A i \in 0 .. cap : g[i] = Step(g, i)
      /\ \A i \in 0 .. cap : v[i] = Step(v, i)
    BY <1>6, <1>7
<1>10. \A i \in 0 .. cap : v[i] = g[i]
  <2> DEFINE Bad == {i \in 0 .. cap : v[i] # g[i]}
  <2>1. SUFFICES ASSUME Bad # {} PROVE FALSE
    OBVIOUS
  <2>2. Bad \subseteq Nat
    OBVIOUS
  <2>3. PICK m \in Bad : \A i \in Bad : m <= i
    BY <2>1, <2>2, LeastNat
  <2>4. CASE m = 0
    BY <1>9, <2>3, <2>4
  <2>5. CASE m # 0
    <3>1. m - 1 \in 0 .. cap /\ ~(m <= m - 1)
        BY <1>3, <2>3, <2>5
    <3>2. v[m - 1] = g[m - 1]
        BY <2>3, <3>1
    <3>3. QED BY <1>9, <2>3, <2>5, <3>2
  <2>6. QED BY <2>4, <2>5
<1>11. QED BY <1>2, <1>4, <1>8, <1>10 DEF v

(* So a list of entries is what the property says of a list.               *)
LEMMA ListsAre ==
    ASSUME IdTypes, NEW h, NEW S, ListOf(tbl, cap, h, S)
    PROVE  ListIs(h, S)
<1>1. PICK n \in Nat : \E s \in List(cap, n) :
              /\ Chain(tbl, h, s, n) /\ Elements(s, n, S) /\ n <= cap
              /\ \A i \in 0 .. cap : Visited(h)[i] = At(s, n, i + 1)
    BY VisitedIs
<1>2. PICK s \in List(cap, n) :
              /\ Chain(tbl, h, s, n) /\ Elements(s, n, S) /\ n <= cap
              /\ \A i \in 0 .. cap : Visited(h)[i] = At(s, n, i + 1)
    BY <1>1
<1>3. cap \in Nat /\ cap <= MaxCap
    BY IdTableAssumption DEF IdTypes
<1>4. \A i \in 1 .. n : s[i] \in Ids(cap) /\ s[i] # NULL_ID /\ s[i] \in S
    BY <1>2, <1>3 DEF List, Ids, NULL_ID, Elements
<1>5. Cardinality(S) = n
  <2>1. IsFiniteSet(1 .. n) /\ Cardinality(1 .. n) = n
    BY FS_Interval
  <2>2. s \in Bijection(1 .. n, S)
    <3>1. s \in [1 .. n -> S]
        BY <1>2, <1>4 DEF List
    <3>2. \A x \in S : \E i \in 1 .. n : s[i] = x
        BY <1>2 DEF Elements
    <3>3. \A i, j \in 1 .. n : s[i] = s[j] => i = j
        BY <1>2 DEF Chain
    <3>4. s \in Injection(1 .. n, S)
        BY <3>1, <3>3 DEF Injection, IsInjective
    <3>5. s \in Surjection(1 .. n, S)
        BY <3>1, <3>2 DEF Surjection
    <3>6. QED BY <3>4, <3>5 DEF Bijection
  <2>3. Cardinality(S) = Cardinality(1 .. n)
    BY <2>1, <2>2, FS_Bijection DEF ExistsBijection
  <2>4. QED BY <2>1, <2>3
<1>6. {Visited(h)[i] : i \in 0 .. cap} = S \cup {NULL_ID}
  <2>1. \A i \in 0 .. cap : Visited(h)[i] \in S \cup {NULL_ID}
    BY <1>2, <1>3, <1>4 DEF At
  <2>2. ASSUME NEW x \in S PROVE \E i \in 0 .. cap : Visited(h)[i] = x
    <3>1. PICK i \in 1 .. n : s[i] = x
        BY <1>2 DEF Elements
    <3>2. i - 1 \in 0 .. cap /\ (i - 1) + 1 = i
        BY <1>2, <1>3
    <3>3. Visited(h)[i - 1] = At(s, n, i)
        BY <1>2, <3>2
    <3>4. At(s, n, i) = x
        BY <3>1 DEF At
    <3>5. QED BY <3>2, <3>3, <3>4
  <2>3. Visited(h)[n] = NULL_ID /\ n \in 0 .. cap
    BY <1>2, <1>3 DEF At
  <2>4. QED BY <2>1, <2>2, <2>3
<1>7. Visited(h)[Cardinality(S)] = NULL_ID
    BY <1>2, <1>3, <1>5 DEF At
<1>8. ASSUME NEW id \in S, tbl[id].prev # NULL_ID PROVE tbl[tbl[id].prev].next = id
  <2>1. PICK i \in 1 .. n : s[i] = id
    BY <1>2 DEF Elements
  <2>2. tbl[id].prev = At(s, n, i - 1)
    BY <1>2, <2>1 DEF Chain
  <2>3. i - 1 \in 1 .. n /\ tbl[id].prev = s[i - 1]
    BY <1>8, <2>2 DEF At
  <2>4. tbl[s[i - 1]].next = At(s, n, (i - 1) + 1)
    BY <1>2, <2>3 DEF Chain
  <2>5. At(s, n, (i - 1) + 1) = s[i]
    BY DEF At
  <2>6. QED BY <2>1, <2>3, <2>4, <2>5
<1>9. ASSUME h # NULL_ID PROVE tbl[h].prev = NULL_ID
  <2>1. h = At(s, n, 1)
    BY <1>2 DEF Chain
  <2>2. h = s[1] /\ 1 \in 1 .. n
    BY <1>9, <2>1 DEF At
  <2>3. tbl[s[1]].prev = At(s, n, 1 - 1)
    BY <1>2, <2>2 DEF Chain
  <2>4. QED BY <2>2, <2>3 DEF At
<1>10. QED BY <1>6, <1>7, <1>8, <1>9 DEF ListIs

(* The ids of a table are given to one caller at a time: whatever is asked *)
(* for, given back and grown, the lists of the table are a partition of    *)
(* its ids.                                                                *)
THEOREM IdsStayApart == IdSpec => []IdsAreNotShared
<1>1. IdInit => IdInv
    BY IdStart
<1>2. IdInv /\ [IdNext]_idVars => IdInv'
  <2> SUFFICES ASSUME IdInv, [IdNext]_idVars PROVE IdInv'
    OBVIOUS
  <2>1. CASE PopId
    BY <2>1, StepPop
  <2>2. ASSUME NEW id \in 0 .. MaxCap, Request(id) PROVE IdInv'
    BY <2>2, StepRequest
  <2>3. ASSUME NEW id \in 0 .. MaxCap, PushId(id) PROVE IdInv'
    BY <2>3, StepPush
  <2>4. CASE UNCHANGED idVars
    BY <2>4 DEF idVars, IdInv, IdTypes
  <2>5. QED BY <2>1, <2>2, <2>3, <2>4 DEF IdNext
<1>3. IdInv => IdsAreNotShared
  <2> SUFFICES ASSUME IdInv PROVE IdsAreNotShared
    OBVIOUS
  <2>1. /\ IdTypes /\ ListOf(tbl, cap, al_head, given)
        /\ ListOf(tbl, cap, fl_head, Ids(cap) \ given)
        /\ \A id \in Ids(cap) : tbl[id].allocated <=> id \in given
        /\ popped = "full" => given = 0 .. MaxCap - 1
        /\ popped = "memory" => given = 0 .. cap - 1
    BY DEF IdInv
  <2>2. ListIs(al_head, given) /\ ListIs(fl_head, Ids(cap) \ given)
    BY <2>1, ListsAre
  <2>3. QED BY <2>1, <2>2 DEF IdsAreNotShared, Ids
<1>4. QED BY <1>1, <1>2, <1>3, PTL DEF IdSpec

-----------------------------------------------------------------------------
(* Pages and shared ranges, for any number of processes, pages and pages   *)
(* of a table.  Every call keeps a memory sound, and its count of pages;   *)
(* the ranges are disjoint, and the entries are what their holders say.    *)

(* A memory without a page that is lost, and how many pages it has. *)
Sound(m)  == m \in Memory /\ WellFormed(m)
Frames(m) == m.free + InUse(m, Kernel)

(* Only the directory of s, if any, is another in n. *)
SameBut(m, n, s) ==
    n.pds = m.pds /\ \A u \in Spaces \ {s} : n.tabs[u] = m.tabs[u] /\ n.ent[u] = m.ent[u]

(* From m to n no page is lost, nor any space but s touched. *)
Keeps(m, n, s) == Sound(n) /\ Frames(n) = Frames(m) /\ SameBut(m, n, s)

LEMMA KeepsOn ==
    ASSUME NEW m, NEW n, NEW o, NEW s, Keeps(m, n, s), Keeps(n, o, s)
    PROVE  Keeps(m, o, s)
BY DEF Keeps, SameBut

(* Everything that is counted is finite. *)
LEMMA PagesAreNat == /\ Pages \subseteq Nat /\ IsFiniteSet(Pages)
                     /\ \A pg \in Pages : Table(pg) \in Nat /\ Table(pg) \in Tables
                     /\ Tables \subseteq Nat
                     /\ IsFiniteSet(Tables)
<1> USE PagesAssumption
<1>1. Pages \subseteq Nat /\ IsFiniteSet(Pages)
    BY FS_Interval DEF Pages
<1>2. \A pg \in Pages : Table(pg) \in 0 .. NumPages
    BY DEF Pages, Table
<1>3. Tables \subseteq 0 .. NumPages
    BY <1>2 DEF Tables
<1>4. IsFiniteSet(0 .. NumPages)
    BY FS_Interval
<1>5. IsFiniteSet(Tables)
    BY <1>3, <1>4, FS_Subset
<1>6. QED BY <1>1, <1>2, <1>3, <1>5 DEF Tables

LEMMA Fields ==
    ASSUME NEW m \in Memory
    PROVE  /\ m.free \in Nat /\ m.pds \subseteq Spaces
           /\ m.tabs \in [Spaces -> SUBSET Tables] /\ m.ent \in [Spaces -> [Pages -> Kinds]]
BY DEF Memory

LEMMA Counted ==
    ASSUME NEW m \in Memory
    PROVE  /\ IsFiniteSet(m.pds) /\ Cardinality(m.pds) \in Nat
           /\ IsFiniteSet(TablesOf(m)) /\ Cardinality(TablesOf(m)) \in Nat
           /\ IsFiniteSet(PagesHeld(m, Kernel)) /\ Cardinality(PagesHeld(m, Kernel)) \in Nat
           /\ Frames(m) = m.free + Cardinality(m.pds) + Cardinality(TablesOf(m))
                          + Cardinality(PagesHeld(m, Kernel))
           /\ Frames(m) \in Nat
<1>1. IsFiniteSet(m.pds)
    BY Fields, PagesAssumption, FS_Subset
<1>2. IsFiniteSet(Spaces \X Tables) /\ IsFiniteSet(Spaces \X Pages)
    BY PagesAreNat, PagesAssumption, FS_Product
<1>3. TablesOf(m) \subseteq Spaces \X Tables /\ PagesHeld(m, Kernel) \subseteq Spaces \X Pages
    BY DEF TablesOf, PagesHeld
<1>4. IsFiniteSet(TablesOf(m)) /\ IsFiniteSet(PagesHeld(m, Kernel))
    BY <1>2, <1>3, FS_Subset
<1>5. /\ Cardinality(m.pds) \in Nat /\ Cardinality(TablesOf(m)) \in Nat
      /\ Cardinality(PagesHeld(m, Kernel)) \in Nat
    BY <1>1, <1>4, FS_CardinalityType
<1>6. QED BY <1>1, <1>4, <1>5, Fields DEF Frames, InUse

(* The pages in use and the free ones, when each of the counts moves. *)
CountsMove(m, n, a, b, c) ==
    /\ Cardinality(n.pds) = Cardinality(m.pds) + a
    /\ Cardinality(TablesOf(n)) = Cardinality(TablesOf(m)) + b
    /\ Cardinality(PagesHeld(n, Kernel)) = Cardinality(PagesHeld(m, Kernel)) + c
    /\ m.free = n.free + a + b + c

LEMMA FramesMove ==
    ASSUME NEW m \in Memory, NEW n \in Memory, NEW a \in Int, NEW b \in Int, NEW c \in Int,
           CountsMove(m, n, a, b, c)
    PROVE  Frames(n) = Frames(m)
<1> DEFINE d == Cardinality(m.pds)
           t == Cardinality(TablesOf(m))
           h == Cardinality(PagesHeld(m, Kernel))
<1>1. d \in Nat /\ t \in Nat /\ h \in Nat /\ Frames(m) = m.free + d + t + h
    BY Counted
<1>2. /\ Frames(n) = n.free + Cardinality(n.pds) + Cardinality(TablesOf(n))
                       + Cardinality(PagesHeld(n, Kernel))
      /\ n.free \in Nat /\ m.free \in Nat
    BY Counted, Fields
<1>3. Frames(n) = n.free + (d + a) + (t + b) + (h + c)
    BY <1>2 DEF CountsMove
<1>4. m.free = n.free + a + b + c
    BY DEF CountsMove
<1> HIDE DEF d, t, h
<1>5. QED BY <1>1, <1>2, <1>3, <1>4

(* The kinds of entry whose page counts as the space's own. *)
Mine(s) == {"unique"} \cup IF s = Kernel THEN {"shared"} ELSE {}

LEMMA TableAdded ==
    ASSUME NEW m, Sound(m), NEW s \in m.pds, NEW t \in Tables, t \notin m.tabs[s], m.free # 0
    PROVE  LET n == AddTable(m, s, t)
           IN  /\ Keeps(m, n, s) /\ n.ent = m.ent /\ n.tabs[s] = m.tabs[s] \cup {t}
<1> DEFINE n == AddTable(m, s, t)
<1>0. /\ m \in Memory /\ WellFormed(m) /\ s \in Spaces /\ m.free \in Nat
      /\ m.pds \subseteq Spaces
      /\ m.tabs \in [Spaces -> SUBSET Tables] /\ m.ent \in [Spaces -> [Pages -> Kinds]]
    BY Fields DEF Sound
<1>1. /\ n.free = m.free - 1 /\ n.pds = m.pds /\ n.ent = m.ent
      /\ n.tabs = [m.tabs EXCEPT ![s] = m.tabs[s] \cup {t}]
      /\ n \in Memory
  <2>1. m.free - 1 \in Nat
    BY <1>0
  <2>2. [m.tabs EXCEPT ![s] = m.tabs[s] \cup {t}] \in [Spaces -> SUBSET Tables]
    BY <1>0
  <2>3. n = [m EXCEPT !.free = m.free - 1, !.tabs = [m.tabs EXCEPT ![s] = m.tabs[s] \cup {t}]]
    BY <1>0 DEF AddTable, Pop, Memory
  <2>4. QED BY <1>0, <2>1, <2>2, <2>3 DEF Memory
<1> HIDE DEF n
<1>2. n.tabs[s] = m.tabs[s] \cup {t} /\ \A u \in Spaces \ {s} : n.tabs[u] = m.tabs[u]
    BY <1>0, <1>1
<1>3. n \in Memory
    BY <1>1
<1>4. WellFormed(n)
    BY <1>0, <1>1, <1>2 DEF WellFormed, Present
<1>5. PagesHeld(n, Kernel) = PagesHeld(m, Kernel)
    BY <1>1 DEF PagesHeld
<1>6. TablesOf(n) = TablesOf(m) \cup {<<s, t>>} /\ <<s, t>> \notin TablesOf(m)
    BY <1>0, <1>1, <1>2 DEF TablesOf
<1>7. Cardinality(TablesOf(n)) = Cardinality(TablesOf(m)) + 1
    BY <1>0, <1>6, Counted, FS_AddElement
<1>8. Frames(n) = Frames(m)
  <2>1. CountsMove(m, n, 0, 1, 0)
    BY <1>0, <1>1, <1>5, <1>7, Counted, SMTT(60) DEF CountsMove
  <2>2. 0 \in Int /\ 1 \in Int
    OBVIOUS
  <2>3. QED BY <1>0, <1>3, <2>1, <2>2, FramesMove, ZenonT(60)
<1>9. Keeps(m, n, s)
    BY <1>0, <1>1, <1>2, <1>3, <1>4, <1>8 DEF Keeps, Sound, SameBut
<1>10. QED BY <1>1, <1>2, <1>9 DEF n

(* An entry that is not present yet gets a page of its own, or one of somebody else. *)
WithEntry(m, n, s, pg, kind) ==
    /\ n \in Memory
    /\ n.pds = m.pds /\ n.tabs = m.tabs /\ n.ent = [m.ent EXCEPT ![s][pg] = kind]
    /\ n.free = IF kind \in Mine(s) THEN m.free - 1 ELSE m.free

LEMMA EntryMade ==
    ASSUME NEW m, Sound(m), NEW s \in m.pds, NEW pg \in Pages, ~Present(m, s, pg),
           Table(pg) \in m.tabs[s], NEW kind \in Kinds, NEW n, WithEntry(m, n, s, pg, kind)
    PROVE  /\ Keeps(m, n, s)
           /\ n.ent[s][pg] = kind /\ \A x \in Pages \ {pg} : n.ent[s][x] = m.ent[s][x]
<1> USE DEF WithEntry
<1>0. /\ m \in Memory /\ WellFormed(m) /\ s \in Spaces /\ m.free \in Nat
      /\ m.tabs \in [Spaces -> SUBSET Tables] /\ m.ent \in [Spaces -> [Pages -> Kinds]]
    BY Fields DEF Sound
<1>1. /\ n.ent[s][pg] = kind
      /\ \A x \in Pages \ {pg} : n.ent[s][x] = m.ent[s][x]
      /\ \A u \in Spaces \ {s} : n.ent[u] = m.ent[u]
    BY <1>0
<1>2. WellFormed(n)
    BY <1>0, <1>1 DEF WellFormed, Present
<1>3. TablesOf(n) = TablesOf(m)
    BY DEF TablesOf
<1>4. m.ent[s][pg] = "none"
    BY <1>0 DEF Present
<1>5. <<s, pg>> \notin PagesHeld(m, Kernel)
    BY <1>4 DEF PagesHeld
<1>6. CASE kind \in Mine(s)
  <2>1. PagesHeld(n, Kernel) = PagesHeld(m, Kernel) \cup {<<s, pg>>}
    <3>1. \A x \in Spaces \X Pages : x # <<s, pg>> => n.ent[x[1]][x[2]] = m.ent[x[1]][x[2]]
        BY <1>0, <1>1
    <3>2. <<s, pg>> \in PagesHeld(n, Kernel)
        BY <1>0, <1>1, <1>6 DEF PagesHeld, Mine
    <3>3. QED BY <3>1, <3>2 DEF PagesHeld
  <2>2. Cardinality(PagesHeld(n, Kernel)) = Cardinality(PagesHeld(m, Kernel)) + 1
    BY <1>0, <1>5, <2>1, Counted, FS_AddElement
  <2>3. Frames(n) = Frames(m)
    <3>0. n.free = m.free - 1 /\ n.free \in Nat
        BY <1>0, <1>6, Fields
    <3>1. CountsMove(m, n, 0, 0, 1)
        BY <1>0, <1>3, <2>2, <3>0, Counted DEF CountsMove
    <3>2. 0 \in Int /\ 1 \in Int
        OBVIOUS
    <3>3. QED BY <1>0, <3>1, <3>2, FramesMove, ZenonT(60)
  <2>4. QED BY <1>0, <1>1, <1>2, <2>3 DEF Keeps, Sound, SameBut
<1>7. CASE kind \notin Mine(s)
  <2>1. PagesHeld(n, Kernel) = PagesHeld(m, Kernel)
    <3>1. \A x \in Spaces \X Pages : x # <<s, pg>> => n.ent[x[1]][x[2]] = m.ent[x[1]][x[2]]
        BY <1>0, <1>1
    <3>2. <<s, pg>> \notin PagesHeld(n, Kernel)
        BY <1>0, <1>1, <1>7 DEF PagesHeld, Mine
    <3>3. QED BY <1>5, <3>1, <3>2 DEF PagesHeld
  <2>2. Frames(n) = Frames(m)
    BY <1>0, <1>3, <1>7, <2>1, Counted
  <2>3. QED BY <1>0, <1>1, <1>2, <2>2 DEF Keeps, Sound, SameBut
<1>8. QED BY <1>6, <1>7

(* Sets of pairs that lose, or get, a row. *)
LEMMA RowIs ==
    ASSUME NEW s, NEW W, IsFiniteSet(W)
    PROVE  IsFiniteSet({s} \X W) /\ Cardinality({s} \X W) = Cardinality(W) /\ Cardinality(W) \in Nat
<1>1. IsFiniteSet({s}) /\ Cardinality({s}) = 1 /\ Cardinality(W) \in Nat
    BY FS_Singleton, FS_CardinalityType
<1>2. IsFiniteSet({s} \X W) /\ Cardinality({s} \X W) = 1 * Cardinality(W)
    BY <1>1, FS_Product
<1>3. QED BY <1>1, <1>2

Cuts(S, T, s, W)  == T = S \ ({s} \X W) /\ {s} \X W \subseteq S
Joins(S, T, s, W) == T = S \cup ({s} \X W) /\ S \cap ({s} \X W) = {}

LEMMA RowCut ==
    ASSUME NEW S, IsFiniteSet(S), NEW T, NEW s, NEW W, IsFiniteSet(W), Cuts(S, T, s, W)
    PROVE  Cardinality(T) = Cardinality(S) - Cardinality(W)
<1> DEFINE R == {s} \X W
<1>1. IsFiniteSet(R) /\ Cardinality(R) = Cardinality(W)
    BY RowIs
<1>2. Cardinality(S \cap R) = Cardinality(R)
  <2>1. S \cap R = R
    BY DEF Cuts
  <2>2. QED BY <2>1
<1>3. Cardinality(S \ R) = Cardinality(S) - Cardinality(S \cap R)
    BY FS_Difference
<1>4. Cardinality(T) = Cardinality(S \ R)
    BY DEF Cuts
<1> HIDE DEF R
<1>5. QED BY <1>1, <1>2, <1>3, <1>4

LEMMA RowJoined ==
    ASSUME NEW S, IsFiniteSet(S), NEW T, NEW s, NEW W, IsFiniteSet(W), Joins(S, T, s, W)
    PROVE  Cardinality(T) = Cardinality(S) + Cardinality(W)
<1> DEFINE R == {s} \X W
           d == Cardinality(S \cap R)
<1>1. IsFiniteSet(R) /\ Cardinality(R) = Cardinality(W) /\ Cardinality(W) \in Nat
    BY RowIs
<1>2. d = 0
  <2>1. S \cap R = {}
    BY DEF Joins
  <2>2. QED BY <2>1, FS_EmptySet
<1>3. Cardinality(S \cup R) = Cardinality(S) + Cardinality(R) - d
  <2> HIDE DEF R
  <2>1. QED BY <1>1, FS_Union
<1>4. Cardinality(T) = Cardinality(S \cup R)
    BY DEF Joins
<1>5. Cardinality(S) \in Nat
    BY FS_CardinalityType
<1> HIDE DEF R, d
<1>6. QED BY <1>1, <1>2, <1>3, <1>4, <1>5

(* What pd_free_pages does with the right kinds to push. *)
Freed(m, n, s, from, to) ==
    /\ \A pg \in Pages : n.ent[s][pg] = IF from <= pg /\ pg < to THEN "none" ELSE m.ent[s][pg]
    /\ n.tabs[s] \subseteq m.tabs[s]
    /\ from = 0 /\ to = NumPages => n.tabs[s] = {}

LEMMA FreeIs ==
    ASSUME NEW m, Sound(m), NEW s \in Spaces, NEW shared, Owned(shared) = Mine(s),
           NEW from \in Nat, NEW to \in Nat
    PROVE  LET n == Free(m, s, shared, from, to)
           IN  Keeps(m, n, s) /\ Freed(m, n, s, from, to)
<1> DEFINE range == {pg \in Pages : from <= pg /\ pg < to}
           whole == {t \in m.tabs[s] : PagesOf(t) \subseteq range}
           pages == {pg \in range : m.ent[s][pg] \in Owned(shared)}
           gone  == Cardinality(pages) + Cardinality(whole)
           n     == Free(m, s, shared, from, to)
           row   == [pg \in Pages |-> IF pg \in range THEN "none" ELSE m.ent[s][pg]]
<1>0. /\ m \in Memory /\ WellFormed(m) /\ m.free \in Nat
      /\ m.tabs \in [Spaces -> SUBSET Tables] /\ m.ent \in [Spaces -> [Pages -> Kinds]]
    BY Fields DEF Sound
<1>1. /\ IsFiniteSet(pages) /\ Cardinality(pages) \in Nat
      /\ IsFiniteSet(whole) /\ Cardinality(whole) \in Nat
  <2>1. pages \subseteq Pages /\ whole \subseteq Tables
    BY <1>0
  <2>2. QED BY <2>1, PagesAreNat, FS_Subset, FS_CardinalityType
<1>2. row \in [Pages -> Kinds]
    BY <1>0 DEF Kinds
<1>3. n = [m EXCEPT !.free = m.free + gone, !.ent = [m.ent EXCEPT ![s] = row],
                    !.tabs = [m.tabs EXCEPT ![s] = m.tabs[s] \ whole]]
    BY <1>0 DEF Free, Push, Memory
<1> HIDE DEF n, row
<1>4. /\ n.free = m.free + gone /\ n.pds = m.pds /\ n.ent = [m.ent EXCEPT ![s] = row]
      /\ n.tabs = [m.tabs EXCEPT ![s] = m.tabs[s] \ whole]
    BY <1>0, <1>3 DEF Memory
<1>5. n \in Memory
  <2>1. m.free + gone \in Nat
    BY <1>0, <1>1
  <2>2. [m.ent EXCEPT ![s] = row] \in [Spaces -> [Pages -> Kinds]]
    BY <1>0, <1>2
  <2>3. [m.tabs EXCEPT ![s] = m.tabs[s] \ whole] \in [Spaces -> SUBSET Tables]
    BY <1>0
  <2> HIDE DEF gone, whole
  <2>4. QED BY <1>0, <1>3, <2>1, <2>2, <2>3 DEF Memory
<1>6. /\ \A pg \in Pages : n.ent[s][pg] = IF pg \in range THEN "none" ELSE m.ent[s][pg]
      /\ n.tabs[s] = m.tabs[s] \ whole
      /\ \A u \in Spaces \ {s} : n.tabs[u] = m.tabs[u] /\ n.ent[u] = m.ent[u]
    BY <1>0, <1>2, <1>4 DEF row
<1>7. Freed(m, n, s, from, to)
  <2>1. \A pg \in Pages : n.ent[s][pg] = IF from <= pg /\ pg < to THEN "none" ELSE m.ent[s][pg]
    BY <1>6
  <2>2. from = 0 /\ to = NumPages => whole = m.tabs[s]
    BY PagesAssumption DEF Pages, PagesOf
  <2>3. QED BY <1>6, <2>1, <2>2 DEF Freed
<1>8. WellFormed(n)
  <2>1. ASSUME NEW pg \in Pages, Present(n, s, pg) PROVE Table(pg) \in n.tabs[s]
    <3>1. pg \notin range /\ Present(m, s, pg)
        BY <1>6, <2>1 DEF Present
    <3>2. Table(pg) \in m.tabs[s] /\ pg \in PagesOf(Table(pg))
        BY <1>0, <3>1 DEF WellFormed, PagesOf
    <3>3. QED BY <1>6, <3>1, <3>2
  <2>2. n.tabs[s] # {} => s \in n.pds
    BY <1>0, <1>4, <1>6 DEF WellFormed
  <2>3. ASSUME NEW u \in Spaces \ {s}
        PROVE  /\ \A pg \in Pages : Present(n, u, pg) => Table(pg) \in n.tabs[u]
               /\ n.tabs[u] # {} => u \in n.pds
    BY <1>0, <1>4, <1>6 DEF WellFormed, Present
  <2>4. QED BY <2>1, <2>2, <2>3 DEF WellFormed
<1>9. Cuts(TablesOf(m), TablesOf(n), s, whole)
  <2>1. \A x \in Spaces \X Tables : x[2] \in n.tabs[x[1]] <=>
            x[2] \in m.tabs[x[1]] /\ ~(x[1] = s /\ x[2] \in whole)
    BY <1>6
  <2>2. whole \subseteq Tables /\ whole \subseteq m.tabs[s]
    BY <1>0
  <2> HIDE DEF whole
  <2>3. QED BY <2>1, <2>2 DEF TablesOf, Cuts
<1>10. Cuts(PagesHeld(m, Kernel), PagesHeld(n, Kernel), s, pages)
  <2>1. \A x \in Spaces \X Pages : n.ent[x[1]][x[2]] =
            IF x[1] = s /\ x[2] \in range THEN "none" ELSE m.ent[x[1]][x[2]]
    BY <1>6
  <2>2. pages \subseteq Pages /\ \A pg \in Pages : pg \in pages <=> pg \in range /\ m.ent[s][pg] \in Mine(s)
    OBVIOUS
  <2>3. \A u : "none" \notin Mine(u)
    BY DEF Mine
  <2>4. /\ PagesHeld(n, Kernel) = {x \in Spaces \X Pages : n.ent[x[1]][x[2]] \in Mine(x[1])}
        /\ PagesHeld(m, Kernel) = {x \in Spaces \X Pages : m.ent[x[1]][x[2]] \in Mine(x[1])}
    BY DEF PagesHeld, Mine
  <2> HIDE DEF pages, range
  <2>5. QED BY <2>1, <2>2, <2>3, <2>4 DEF Cuts
<1> DEFINE b == 0 - Cardinality(whole)
           c == 0 - Cardinality(pages)
<1>11. CountsMove(m, n, 0, b, c) /\ b \in Int /\ c \in Int
  <2>0. /\ IsFiniteSet(TablesOf(m)) /\ IsFiniteSet(PagesHeld(m, Kernel))
        /\ Cardinality(TablesOf(m)) \in Nat /\ Cardinality(PagesHeld(m, Kernel)) \in Nat
        /\ Cardinality(m.pds) \in Nat
    BY <1>0, Counted
  <2> HIDE DEF whole, pages
  <2>1. Cardinality(TablesOf(n)) = Cardinality(TablesOf(m)) - Cardinality(whole)
    BY <1>1, <1>9, <2>0, RowCut
  <2>2. Cardinality(PagesHeld(n, Kernel)) = Cardinality(PagesHeld(m, Kernel)) - Cardinality(pages)
    BY <1>1, <1>10, <2>0, RowCut
  <2>3. QED BY <1>0, <1>1, <1>4, <2>0, <2>1, <2>2 DEF CountsMove
<1>12. Frames(n) = Frames(m)
  <2> HIDE DEF b, c, n
  <2>1. m \in Memory /\ n \in Memory /\ 0 \in Int
    BY <1>0, <1>5
  <2>2. QED BY <1>11, <2>1, FramesMove
<1>13. QED BY <1>4, <1>5, <1>6, <1>7, <1>8, <1>12 DEF Keeps, Sound, SameBut, n

-----------------------------------------------------------------------------
(* What calls that take pages return: a memory, an error and the page they *)
(* came to.                                                                *)
Errors  == {"none", "no_mem", "already"}
Results == [m : Memory, err : Errors, at : Nat]

LEMMA ResultIs ==
    ASSUME NEW n \in Memory, NEW e \in Errors, NEW a \in Nat
    PROVE  /\ Going(n, a) \in Results /\ Going(n, a).m = n /\ Going(n, a).err = "none"
           /\ Going(n, a).at = a
           /\ \A r \in Results : /\ Failed(r, e) \in Results /\ Failed(r, e).m = r.m
                                 /\ Failed(r, e).err = e /\ Failed(r, e).at = r.at
BY DEF Results, Going, Failed, Errors

LEMMA TableThere ==
    ASSUME NEW r \in Results, Sound(r.m), NEW s \in r.m.pds, r.at \in Pages, r.err = "none"
    PROVE  LET q == WithTable(r, s)
           IN  /\ q \in Results /\ Keeps(r.m, q.m, s) /\ q.m.ent = r.m.ent /\ q.at = r.at
               /\ q.err \in {"none", "no_mem"}
               /\ q.err = "none" => Table(r.at) \in q.m.tabs[s]
<1> DEFINE t == Table(r.at)
<1>0. /\ r.m \in Memory /\ r.at \in Nat /\ t \in Tables /\ s \in Spaces
    BY PagesAreNat, Fields DEF Results
<1>1. Keeps(r.m, r.m, s)
    BY DEF Keeps, SameBut
<1>2. CASE t \in r.m.tabs[s]
    BY <1>0, <1>1, <1>2 DEF WithTable
<1>3. CASE t \notin r.m.tabs[s] /\ r.m.free = 0
  <2>1. WithTable(r, s) = Failed(r, "no_mem")
    BY <1>3 DEF WithTable
  <2>2. QED BY <1>0, <1>1, <2>1, ResultIs DEF Errors
<1>4. CASE t \notin r.m.tabs[s] /\ r.m.free # 0
  <2> DEFINE n == AddTable(r.m, s, t)
  <2>1. WithTable(r, s) = Going(n, r.at)
    BY <1>4 DEF WithTable
  <2>2. Keeps(r.m, n, s) /\ n.ent = r.m.ent /\ n.tabs[s] = r.m.tabs[s] \cup {t}
    BY <1>0, <1>4, TableAdded
  <2>3. n \in Memory
    BY <2>2 DEF Keeps, Sound
  <2> HIDE DEF n
  <2>4. QED BY <1>0, <2>1, <2>2, <2>3, ResultIs DEF Errors
<1>5. QED BY <1>2, <1>3, <1>4

(* AddPage makes the entry. *)
LEMMA PageAdded ==
    ASSUME NEW m, Sound(m), NEW s \in m.pds, NEW pg \in Pages, ~Present(m, s, pg),
           Table(pg) \in m.tabs[s], NEW kind \in Kinds, kind \in Mine(s), m.free # 0
    PROVE  LET n == AddPage(m, s, pg, kind)
           IN  /\ Keeps(m, n, s) /\ n.ent[s][pg] = kind
               /\ \A x \in Pages \ {pg} : n.ent[s][x] = m.ent[s][x]
<1> DEFINE n == AddPage(m, s, pg, kind)
<1>0. /\ m \in Memory /\ s \in Spaces /\ m.free \in Nat /\ m.free - 1 \in Nat
      /\ m.ent \in [Spaces -> [Pages -> Kinds]]
    BY Fields DEF Sound
<1>1. n = [m EXCEPT !.free = m.free - 1, !.ent = [m.ent EXCEPT ![s][pg] = kind]]
    BY <1>0 DEF AddPage, Pop, Memory
<1>2. [m.ent EXCEPT ![s][pg] = kind] \in [Spaces -> [Pages -> Kinds]]
    BY <1>0
<1>3. /\ n \in Memory /\ n.pds = m.pds /\ n.tabs = m.tabs /\ n.free = m.free - 1
      /\ n.ent = [m.ent EXCEPT ![s][pg] = kind]
  <2> HIDE DEF n
  <2>1. QED BY <1>0, <1>1, <1>2 DEF Memory
<1> HIDE DEF n
<1>4. WithEntry(m, n, s, pg, kind)
    BY <1>3 DEF WithEntry
<1>5. Keeps(m, n, s) /\ n.ent[s][pg] = kind /\ \A x \in Pages \ {pg} : n.ent[s][x] = m.ent[s][x]
    BY <1>4, EntryMade
<1>6. QED BY <1>5 DEF n

(* How far an allocation from page `from` on has come after k rounds. *)
Filled(m, n, s, kind, from, at) ==
    /\ Keeps(m, n, s)
    /\ \A pg \in Pages : n.ent[s][pg] = IF from <= pg /\ pg < at THEN kind ELSE m.ent[s][pg]

AllocOK(m, r, s, kind, from, k) ==
    /\ r \in Results /\ Filled(m, r.m, s, kind, from, r.at)
    /\ r.at \in from .. from + k
    /\ r.err = "none" => r.at = from + k
    /\ r.err # "none" => r.at < from + k
    /\ r.err = "already" => Present(m, s, r.at)

LEMMA AllocRound ==
    ASSUME NEW m, Sound(m), NEW s \in m.pds, NEW kind \in Kinds, kind \in Mine(s),
           NEW from \in Nat, NEW k \in Nat, from + k < NumPages,
           NEW r, AllocOK(m, r, s, kind, from, k)
    PROVE  AllocOK(m, IF r.err # "none" THEN r ELSE AllocNext(r, s, kind), s, kind, from, k + 1)
<1>0. /\ r \in Results /\ r.m \in Memory /\ r.at \in Nat /\ r.err \in Errors
      /\ Filled(m, r.m, s, kind, from, r.at) /\ Sound(r.m) /\ r.m.pds = m.pds
    BY DEF AllocOK, Results, Filled, Keeps, SameBut
<1>1. CASE r.err # "none"
    BY <1>1 DEF AllocOK
<1>2. CASE r.err = "none"
  <2> DEFINE q == WithTable(r, s)
  <2>1. r.at = from + k /\ r.at \in Pages
    BY <1>2, PagesAssumption DEF AllocOK, Pages
  <2>2. /\ q \in Results /\ Keeps(r.m, q.m, s) /\ q.m.ent = r.m.ent /\ q.at = r.at
        /\ q.err \in {"none", "no_mem"}
        /\ q.err = "none" => Table(r.at) \in q.m.tabs[s]
    BY <1>0, <1>2, <2>1, TableThere
  <2>3. AllocNext(r, s, kind) =
            IF q.err # "none" THEN q
            ELSE IF Present(q.m, s, q.at) THEN Failed(q, "already")
            ELSE IF q.m.free = 0 THEN Failed(q, "no_mem")
            ELSE Going(AddPage(q.m, s, q.at, kind), q.at + 1)
    BY DEF AllocNext
  <2> HIDE DEF q
  <2>4. Filled(m, q.m, s, kind, from, q.at) /\ q.m.pds = m.pds /\ Sound(q.m) /\ q.m \in Memory
    BY <1>0, <2>2, KeepsOn DEF Filled, Keeps, SameBut, Sound
  <2>5. Present(q.m, s, q.at) => Present(m, s, q.at)
    BY <2>1, <2>2, <2>4 DEF Filled, Present
  <2>6. CASE q.err # "none"
    <3>1. AllocNext(r, s, kind) = q /\ q.err = "no_mem"
        BY <2>2, <2>3, <2>6
    <3>2. AllocOK(m, q, s, kind, from, k + 1)
        BY <2>1, <2>2, <2>4, <3>1 DEF AllocOK
    <3>3. QED BY <1>2, <3>1, <3>2
  <2>7. ASSUME NEW e \in {"no_mem", "already"}, e = "already" => Present(q.m, s, q.at),
               AllocNext(r, s, kind) = Failed(q, e)
        PROVE  AllocOK(m, AllocNext(r, s, kind), s, kind, from, k + 1)
    <3> DEFINE w == Failed(q, e)
    <3>1. w \in Results /\ w.m = q.m /\ w.err = e /\ w.at = q.at
        BY <2>2, <2>4, ResultIs DEF Errors, Failed, Results
    <3> HIDE DEF w
    <3>2. AllocOK(m, w, s, kind, from, k + 1)
        BY <2>1, <2>2, <2>4, <2>5, <2>7, <3>1 DEF AllocOK
    <3>3. QED BY <2>7, <3>2 DEF w
  <2>8. CASE q.err = "none" /\ Present(q.m, s, q.at)
    BY <1>2, <2>3, <2>7, <2>8
  <2>9. CASE q.err = "none" /\ ~Present(q.m, s, q.at) /\ q.m.free = 0
    BY <1>2, <2>3, <2>7, <2>9
  <2>10. CASE q.err = "none" /\ ~Present(q.m, s, q.at) /\ q.m.free # 0
    <3> DEFINE n == AddPage(q.m, s, q.at, kind)
               w == Going(n, q.at + 1)
    <3>1. /\ Keeps(q.m, n, s) /\ n.ent[s][q.at] = kind
          /\ \A x \in Pages \ {q.at} : n.ent[s][x] = q.m.ent[s][x]
        BY <2>1, <2>2, <2>4, <2>10, PageAdded
    <3> HIDE DEF n
    <3>2. w \in Results /\ w.m = n /\ w.err = "none" /\ w.at = q.at + 1
        BY <2>1, <2>2, <3>1, ResultIs DEF Errors, Keeps, Sound, Going, Results
    <3>3. Keeps(m, n, s)
        BY <2>4, <3>1, KeepsOn DEF Filled
    <3>4. \A pg \in Pages : n.ent[s][pg] =
                IF from <= pg /\ pg < q.at + 1 THEN kind ELSE m.ent[s][pg]
        BY <2>1, <2>2, <2>4, <3>1, PagesAreNat DEF Filled
    <3> HIDE DEF w
    <3>5. AllocOK(m, w, s, kind, from, k + 1)
        BY <2>1, <2>2, <3>2, <3>3, <3>4 DEF AllocOK, Filled
    <3>6. AllocNext(r, s, kind) = w
        BY <2>3, <2>10 DEF w, n
    <3>7. QED BY <1>2, <3>5, <3>6
  <2>11. QED BY <2>6, <2>8, <2>9, <2>10
<1>3. QED BY <1>1, <1>2

LEMMA AllocIs ==
    ASSUME NEW m, Sound(m), NEW s \in m.pds, NEW kind \in Kinds, kind \in Mine(s),
           NEW from \in Nat, NEW to \in Nat, from <= to, to <= NumPages
    PROVE  AllocOK(m, Alloc(m, s, kind, from, to), s, kind, from, to - from)
<1> DEFINE n == to - from
           a == Going(m, from)
           Round(r) == IF r.err # "none" THEN r ELSE AllocNext(r, s, kind)
           S == [k \in 0 .. n |-> {r \in Results : AllocOK(m, r, s, kind, from, k)}]
           G == [k \in 1 .. n |-> [r \in S[k - 1] |-> Round(r)]]
           f == CHOOSE h : h = [k \in 0 .. n |-> IF k = 0 THEN a ELSE Round(h[k - 1])]
<1>0. n \in Nat /\ m \in Memory
    BY DEF Sound
<1>1. Alloc(m, s, kind, from, to) = f[n]
    BY DEF Alloc
<1>2. \A k \in 0 .. n : \A r : r \in S[k] <=> AllocOK(m, r, s, kind, from, k)
    BY DEF AllocOK
<1>3. a \in S[0]
  <2>1. a \in Results /\ a.m = m /\ a.err = "none" /\ a.at = from
    BY <1>0, ResultIs DEF Errors
  <2> HIDE DEF a
  <2>2. Filled(m, m, s, kind, from, from)
    <3>1. \A pg \in Pages : ~(from <= pg /\ pg < from)
        BY PagesAreNat
    <3>2. QED BY <3>1 DEF Filled, Keeps, SameBut
  <2>3. AllocOK(m, a, s, kind, from, 0)
    BY <2>1, <2>2 DEF AllocOK
  <2> HIDE DEF S
  <2>4. QED BY <1>0, <1>2, <2>3
<1>4. \A k \in 1 .. n : \A r \in S[k - 1] : Round(r) \in S[k]
  <2> TAKE k \in 1 .. n
  <2> TAKE r \in S[k - 1]
  <2> HIDE DEF S, Round
  <2>1. AllocOK(m, r, s, kind, from, k - 1) /\ k - 1 \in Nat /\ from + (k - 1) < NumPages
    BY <1>0, <1>2, PagesAssumption
  <2>2. AllocOK(m, Round(r), s, kind, from, (k - 1) + 1)
    BY <2>1, AllocRound DEF Round
  <2>3. (k - 1) + 1 = k
    OBVIOUS
  <2>4. QED BY <1>0, <1>2, <2>2, <2>3
<1>5. \A k \in 1 .. n : \A r \in S[k - 1] : G[k][r] = Round(r)
  <2> HIDE DEF S, Round
  <2>1. QED OBVIOUS
<1> HIDE DEF S, G, Round, a, n
<1>6. PICK g : Rounds(g, S, a, G, n)
    BY <1>0, <1>3, <1>4, <1>5, RoundsExist
<1>7. g = [k \in 0 .. n |-> IF k = 0 THEN a ELSE Round(g[k - 1])]
  <2>1. ASSUME NEW k \in 1 .. n PROVE g[k] = Round(g[k - 1])
    <3>0. k - 1 \in 0 .. n
        BY <1>0
    <3>1. g[k - 1] \in S[k - 1] /\ g[k] = G[k][g[k - 1]]
        BY <1>6, <3>0, Zenon DEF Rounds
    <3>2. QED BY <1>5, <3>1
  <2>2. g = [k \in 0 .. n |-> g[k]] /\ g[0] = a
    BY <1>6 DEF Rounds
  <2>3. \A k \in 0 .. n : k # 0 => k \in 1 .. n
    BY <1>0
  <2>4. ASSUME NEW k \in 0 .. n PROVE g[k] = IF k = 0 THEN a ELSE Round(g[k - 1])
    BY <2>1, <2>2, <2>3
  <2>5. QED BY <2>2, <2>4
<1>8. f = [k \in 0 .. n |-> IF k = 0 THEN a ELSE Round(f[k - 1])]
    BY <1>7 DEF f
<1> HIDE DEF f
<1> DEFINE T == {k \in 0 .. n : f[k] \in S[k]}
<1>9. 0 \in T
    BY <1>0, <1>3, <1>8
<1>10. ASSUME NEW k \in 1 .. n, k - 1 \in T PROVE k \in T
  <2>1. f[k - 1] \in S[k - 1] /\ k \in 0 .. n /\ k # 0
    BY <1>0, <1>10
  <2>2. f[k] = Round(f[k - 1])
    BY <1>8, <2>1
  <2>3. QED BY <1>4, <2>1, <2>2
<1> HIDE DEF T
<1>11. 0 .. n \subseteq T
    BY <1>0, <1>9, <1>10, Upwards
<1>12. f[n] \in S[n]
    BY <1>0, <1>11 DEF T
<1>13. QED BY <1>0, <1>1, <1>2, <1>12 DEF n

-----------------------------------------------------------------------------
(* Copies of pages from the directory of s into that of d. *)
Copied(m, n, d, s, from, at) ==
    /\ Keeps(m, n, d)
    /\ \A pg \in Pages : n.ent[d][pg] = IF from <= pg /\ pg < at THEN m.ent[s][pg] ELSE m.ent[d][pg]
    /\ \A pg \in Pages : from <= pg /\ pg < at => m.ent[d][pg] = "none"

CopyOK(m, r, d, s, from, k) ==
    /\ r \in Results /\ Copied(m, r.m, d, s, from, r.at)
    /\ r.at \in from .. from + k
    /\ r.err = "none" => r.at = from + k
    /\ r.err # "none" => r.at < from + k

(* One entry more. *)
LEMMA CopiedOn ==
    ASSUME NEW m, NEW n, NEW o, NEW d \in Spaces, NEW s \in Spaces, s # d, NEW from \in Nat,
           NEW at \in Pages, from <= at, Copied(m, n, d, s, from, at), Keeps(n, o, d),
           n.ent[d][at] = "none", o.ent[d][at] = n.ent[s][at],
           \A pg \in Pages \ {at} : o.ent[d][pg] = n.ent[d][pg]
    PROVE  Copied(m, o, d, s, from, at + 1)
<1>1. Keeps(m, o, d)
    BY KeepsOn DEF Copied
<1>2. n.ent[s] = m.ent[s]
    BY DEF Copied, Keeps, SameBut
<1>3. m.ent[d][at] = "none"
    BY PagesAreNat DEF Copied
<1>4. ASSUME NEW pg \in Pages
      PROVE  /\ o.ent[d][pg] = IF from <= pg /\ pg < at + 1 THEN m.ent[s][pg] ELSE m.ent[d][pg]
             /\ from <= pg /\ pg < at + 1 => m.ent[d][pg] = "none"
  <2>1. CASE pg = at
    BY <1>2, <1>3, <2>1, PagesAreNat
  <2>2. CASE pg # at
    <3>1. pg < at + 1 <=> pg < at
        BY <2>2, PagesAreNat
    <3>2. o.ent[d][pg] = n.ent[d][pg]
        BY <2>2
    <3>3. QED BY <3>1, <3>2 DEF Copied
  <2>3. QED BY <2>1, <2>2
<1>5. QED BY <1>1, <1>4 DEF Copied

(* An entry that no page is taken for. *)
LEMMA PageShared ==
    ASSUME NEW m, Sound(m), NEW s \in m.pds, NEW pg \in Pages, ~Present(m, s, pg),
           Table(pg) \in m.tabs[s], NEW kind \in Kinds, kind \notin Mine(s)
    PROVE  LET n == [m EXCEPT !.ent[s][pg] = kind]
           IN  /\ Keeps(m, n, s) /\ n.ent[s][pg] = kind
               /\ \A x \in Pages \ {pg} : n.ent[s][x] = m.ent[s][x]
<1> DEFINE n == [m EXCEPT !.ent[s][pg] = kind]
<1>0. /\ m \in Memory /\ s \in Spaces /\ m.ent \in [Spaces -> [Pages -> Kinds]]
    BY Fields DEF Sound
<1>1. n = [m EXCEPT !.ent = [m.ent EXCEPT ![s][pg] = kind]]
    BY <1>0 DEF Memory
<1>2. [m.ent EXCEPT ![s][pg] = kind] \in [Spaces -> [Pages -> Kinds]]
    BY <1>0
<1>3. /\ n \in Memory /\ n.pds = m.pds /\ n.tabs = m.tabs /\ n.free = m.free
      /\ n.ent = [m.ent EXCEPT ![s][pg] = kind]
  <2> HIDE DEF n
  <2>1. QED BY <1>0, <1>1, <1>2 DEF Memory
<1> HIDE DEF n
<1>4. WithEntry(m, n, s, pg, kind)
    BY <1>3 DEF WithEntry
<1>5. Keeps(m, n, s) /\ n.ent[s][pg] = kind /\ \A x \in Pages \ {pg} : n.ent[s][x] = m.ent[s][x]
    BY <1>4, EntryMade
<1>6. QED BY <1>5 DEF n

(* What a round does to a memory, when it goes on and when it fails. *)
OneCopied(m, r, d, s, at) ==
    /\ r \in Results /\ Keeps(m, r.m, d)
    /\ \/ r.err # "none" /\ r.at = at /\ r.m.ent = m.ent
       \/ /\ r.err = "none" /\ r.at = at + 1
          /\ m.ent[d][at] = "none" /\ r.m.ent[d][at] = m.ent[s][at]
          /\ \A pg \in Pages \ {at} : r.m.ent[d][pg] = m.ent[d][pg]

LEMMA CopyNextIs ==
    ASSUME NEW r \in Results, Sound(r.m), NEW d \in r.m.pds, d # Kernel,
           NEW s \in Spaces, s # d, r.at \in Pages, r.err = "none", Table(r.at) \in r.m.tabs[d]
    PROVE  OneCopied(r.m, CopyNext(r, d, s), d, s, r.at)
<1> DEFINE kind == r.m.ent[s][r.at]
           same == [r.m EXCEPT !.ent[d][r.at] = kind]
           own  == AddPage(r.m, d, r.at, kind)
<1>0. /\ r.m \in Memory /\ r.at \in Nat /\ r.at + 1 \in Nat /\ kind \in Kinds /\ d \in Spaces
      /\ r.m.ent \in [Spaces -> [Pages -> Kinds]]
  <2>1. r.m \in Memory
    BY DEF Sound
  <2>2. /\ r.m.ent \in [Spaces -> [Pages -> Kinds]] /\ r.m.pds \subseteq Spaces
    BY <2>1, Fields
  <2>3. r.at \in Nat /\ r.at + 1 \in Nat
    <3>1. Pages \subseteq Nat
        BY PagesAreNat
    <3>2. r.at \in Nat
        BY <3>1
    <3>3. QED BY <3>2
  <2>4. QED BY <2>1, <2>2, <2>3
<1>1. CopyNext(r, d, s) =
        IF Present(r.m, d, r.at) THEN Failed(r, "already")
        ELSE IF kind # "unique" THEN Going(same, r.at + 1)
        ELSE IF r.m.free = 0 THEN Failed(r, "no_mem")
        ELSE Going(own, r.at + 1)
    BY DEF CopyNext
<1>2. kind \in Mine(d) <=> kind = "unique"
    BY DEF Mine
<1>3. Keeps(r.m, r.m, d)
    BY DEF Keeps, SameBut
<1>4. ASSUME NEW e \in {"no_mem", "already"}, CopyNext(r, d, s) = Failed(r, e)
      PROVE  OneCopied(r.m, CopyNext(r, d, s), d, s, r.at)
  <2>1. /\ Failed(r, e) \in Results /\ Failed(r, e).m = r.m /\ Failed(r, e).err = e
        /\ Failed(r, e).at = r.at
    BY <1>0, ResultIs DEF Errors, Failed, Results
  <2>2. QED BY <1>3, <1>4, <2>1 DEF OneCopied
<1>5. CASE Present(r.m, d, r.at)
    BY <1>1, <1>4, <1>5
<1>6. ASSUME ~Present(r.m, d, r.at), NEW n, CopyNext(r, d, s) = Going(n, r.at + 1),
             Keeps(r.m, n, d), n.ent[d][r.at] = kind,
             \A x \in Pages \ {r.at} : n.ent[d][x] = r.m.ent[d][x]
      PROVE  OneCopied(r.m, CopyNext(r, d, s), d, s, r.at)
  <2>1. n \in Memory
    BY <1>6 DEF Keeps, Sound
  <2>2. /\ Going(n, r.at + 1) \in Results /\ Going(n, r.at + 1).m = n
        /\ Going(n, r.at + 1).err = "none" /\ Going(n, r.at + 1).at = r.at + 1
    BY <1>0, <2>1, ResultIs DEF Errors, Going, Results
  <2>3. r.m.ent[d][r.at] = "none"
    BY <1>6 DEF Present
  <2>4. QED BY <1>6, <2>2, <2>3 DEF OneCopied
<1>7. CASE ~Present(r.m, d, r.at) /\ kind # "unique"
  <2>1. /\ Keeps(r.m, same, d) /\ same.ent[d][r.at] = kind
        /\ \A x \in Pages \ {r.at} : same.ent[d][x] = r.m.ent[d][x]
    <3> HIDE DEF kind
    <3>1. QED BY <1>0, <1>2, <1>7, PageShared
  <2> HIDE DEF same, kind, own
  <2>2. CopyNext(r, d, s) = Going(same, r.at + 1)
    BY <1>1, <1>7
  <2>3. QED BY <1>6, <1>7, <2>1, <2>2
<1>8. CASE ~Present(r.m, d, r.at) /\ kind = "unique" /\ r.m.free = 0
    BY <1>1, <1>4, <1>8
<1>9. CASE ~Present(r.m, d, r.at) /\ kind = "unique" /\ r.m.free # 0
  <2>1. /\ Keeps(r.m, own, d) /\ own.ent[d][r.at] = kind
        /\ \A x \in Pages \ {r.at} : own.ent[d][x] = r.m.ent[d][x]
    <3> HIDE DEF kind
    <3>1. QED BY <1>0, <1>2, <1>9, PageAdded
  <2> HIDE DEF same, kind, own
  <2>2. CopyNext(r, d, s) = Going(own, r.at + 1)
    BY <1>1, <1>9
  <2>3. QED BY <1>6, <1>9, <2>1, <2>2
<1>10. QED BY <1>5, <1>7, <1>8, <1>9

LEMMA CopyTabledIs ==
    ASSUME NEW r \in Results, Sound(r.m), NEW d \in r.m.pds, d # Kernel,
           NEW s \in Spaces, s # d, r.at \in Pages, r.err = "none"
    PROVE  OneCopied(r.m, CopyTabled(r, d, s), d, s, r.at)
<1> DEFINE t == Table(r.at)
           q == WithTable(r, d)
           full == \E pg \in PagesOf(t) : Present(r.m, d, pg)
<1>0. /\ q \in Results /\ Keeps(r.m, q.m, d) /\ q.m.ent = r.m.ent /\ q.at = r.at
      /\ q.err \in {"none", "no_mem"} /\ q.err = "none" => t \in q.m.tabs[d]
    BY TableThere
<1>1. CopyTabled(r, d, s) =
        IF t \in r.m.tabs[s] THEN IF q.err # "none" THEN q ELSE CopyNext(q, d, s)
        ELSE IF full THEN Failed(r, "already")
        ELSE Going(r.m, r.at + 1)
    BY DEF CopyTabled
<1>2. /\ r.m \in Memory /\ r.at \in Nat /\ r.at + 1 \in Nat /\ d \in Spaces /\ Keeps(r.m, r.m, d)
  <2>1. r.m \in Memory
    BY DEF Sound
  <2>2. r.m.pds \subseteq Spaces
    BY <2>1, Fields
  <2>3. r.at \in Nat
    BY PagesAreNat, Zenon
  <2>4. r.at + 1 \in Nat
    BY <2>3
  <2>5. QED BY <2>1, <2>2, <2>3, <2>4 DEF Keeps, SameBut
<1> HIDE DEF q
<1>3. CASE t \in r.m.tabs[s] /\ q.err # "none"
  <2>1. CopyTabled(r, d, s) = q
    BY <1>1, <1>3
  <2>2. QED BY <1>0, <1>3, <2>1 DEF OneCopied
<1>4. CASE t \in r.m.tabs[s] /\ q.err = "none"
  <2> DEFINE w == CopyNext(q, d, s)
  <2>1. Sound(q.m) /\ d \in q.m.pds /\ q.at \in Pages /\ Table(q.at) \in q.m.tabs[d]
    BY <1>0, <1>4 DEF Keeps, SameBut
  <2>2. OneCopied(q.m, w, d, s, q.at)
    BY <1>0, <1>4, <2>1, CopyNextIs
  <2>3. CopyTabled(r, d, s) = w
    BY <1>1, <1>4
  <2> HIDE DEF w
  <2>4. Keeps(r.m, w.m, d)
    BY <1>0, <2>2, KeepsOn DEF OneCopied
  <2>5. OneCopied(r.m, w, d, s, r.at)
    BY <1>0, <2>2, <2>4 DEF OneCopied
  <2>6. QED BY <2>3, <2>5
<1>5. CASE t \notin r.m.tabs[s] /\ full
  <2>1. /\ Failed(r, "already") \in Results /\ Failed(r, "already").m = r.m
        /\ Failed(r, "already").err = "already" /\ Failed(r, "already").at = r.at
    BY <1>2, ResultIs DEF Errors, Failed, Results
  <2>2. CopyTabled(r, d, s) = Failed(r, "already")
    BY <1>1, <1>5
  <2>3. QED BY <1>2, <2>1, <2>2 DEF OneCopied
<1>6. CASE t \notin r.m.tabs[s] /\ ~full
  <2>1. r.m.ent[s][r.at] = "none"
    BY <1>6 DEF Sound, WellFormed, Present
  <2>2. r.at \in PagesOf(t)
    BY DEF PagesOf
  <2>3. r.m.ent[d][r.at] = "none"
    BY <1>6, <2>2 DEF Present
  <2>4. /\ Going(r.m, r.at + 1) \in Results /\ Going(r.m, r.at + 1).m = r.m
        /\ Going(r.m, r.at + 1).err = "none" /\ Going(r.m, r.at + 1).at = r.at + 1
    BY <1>2, ResultIs DEF Errors, Going, Results
  <2>5. CopyTabled(r, d, s) = Going(r.m, r.at + 1)
    BY <1>1, <1>6
  <2> HIDE DEF full, t
  <2>6. QED BY <1>2, <2>1, <2>3, <2>4, <2>5 DEF OneCopied
<1>7. QED BY <1>3, <1>4, <1>5, <1>6

LEMMA CopyRound ==
    ASSUME NEW m, Sound(m), NEW d \in m.pds, d # Kernel, NEW s \in Spaces, s # d,
           NEW from \in Nat, NEW k \in Nat, from + k < NumPages,
           NEW r, CopyOK(m, r, d, s, from, k)
    PROVE  CopyOK(m, IF r.err # "none" THEN r ELSE CopyTabled(r, d, s), d, s, from, k + 1)
<1>0. /\ r \in Results /\ r.m \in Memory /\ r.at \in Nat /\ r.err \in Errors
      /\ Copied(m, r.m, d, s, from, r.at) /\ Sound(r.m) /\ r.m.pds = m.pds /\ d \in Spaces
    BY Fields DEF CopyOK, Results, Copied, Keeps, SameBut, Sound
<1>1. CASE r.err # "none"
    BY <1>1 DEF CopyOK
<1>2. CASE r.err = "none"
  <2> DEFINE w == CopyTabled(r, d, s)
  <2>1. r.at = from + k /\ r.at \in Pages
    BY <1>2, PagesAssumption DEF CopyOK, Pages
  <2>2. OneCopied(r.m, w, d, s, r.at)
    BY <1>0, <1>2, <2>1, CopyTabledIs
  <2> HIDE DEF w
  <2>3. CASE w.err # "none"
    <3>1. w \in Results /\ w.at = r.at /\ w.m.ent = r.m.ent /\ Keeps(r.m, w.m, d)
        BY <2>2, <2>3 DEF OneCopied
    <3>2. Keeps(m, w.m, d)
        BY <1>0, <3>1, KeepsOn DEF Copied
    <3>3. Copied(m, w.m, d, s, from, w.at)
        BY <1>0, <3>1, <3>2 DEF Copied
    <3>4. CopyOK(m, w, d, s, from, k + 1)
        BY <2>1, <2>3, <3>1, <3>3 DEF CopyOK
    <3>5. QED BY <1>2, <3>4 DEF w
  <2>4. CASE w.err = "none"
    <3>1. /\ w \in Results /\ w.at = r.at + 1 /\ Keeps(r.m, w.m, d)
          /\ r.m.ent[d][r.at] = "none" /\ w.m.ent[d][r.at] = r.m.ent[s][r.at]
          /\ \A pg \in Pages \ {r.at} : w.m.ent[d][pg] = r.m.ent[d][pg]
        BY <2>2, <2>4 DEF OneCopied
    <3>2. Copied(m, w.m, d, s, from, r.at + 1)
      <4> DEFINE at == r.at
      <4>1. /\ at \in Pages /\ from <= at /\ Copied(m, r.m, d, s, from, at)
            /\ r.m.ent[d][at] = "none" /\ w.m.ent[d][at] = r.m.ent[s][at]
            /\ \A pg \in Pages \ {at} : w.m.ent[d][pg] = r.m.ent[d][pg]
        BY <1>0, <2>1, <3>1
      <4> HIDE DEF at
      <4>2. Copied(m, w.m, d, s, from, at + 1)
        BY <1>0, <3>1, <4>1, CopiedOn
      <4>3. QED BY <4>2 DEF at
    <3>3. CopyOK(m, w, d, s, from, k + 1)
        BY <2>1, <2>4, <3>1, <3>2 DEF CopyOK
    <3>4. QED BY <1>2, <3>3 DEF w
  <2>5. QED BY <2>3, <2>4
<1>3. QED BY <1>1, <1>2

(* The copy before its cleanup. *)
LEMMA CopyGoes ==
    ASSUME NEW m, Sound(m), NEW d \in m.pds, d # Kernel, NEW s \in Spaces, s # d,
           NEW from \in Nat, NEW to \in Nat, from <= to, to <= NumPages
    PROVE  \E r : /\ CopyOK(m, r, d, s, from, to - from)
                  /\ Copy(m, d, s, from, to) = CleanedUp(r, d, from)
<1> DEFINE n == to - from
           a == Going(m, from)
           Round(r) == IF r.err # "none" THEN r ELSE CopyTabled(r, d, s)
           S == [k \in 0 .. n |-> {r \in Results : CopyOK(m, r, d, s, from, k)}]
           G == [k \in 1 .. n |-> [r \in S[k - 1] |-> Round(r)]]
           f == CHOOSE h : h = [k \in 0 .. n |-> IF k = 0 THEN a ELSE Round(h[k - 1])]
<1>0. n \in Nat /\ m \in Memory
    BY DEF Sound
<1>1. Copy(m, d, s, from, to) = CleanedUp(f[n], d, from)
    BY DEF Copy
<1>2. \A k \in 0 .. n : \A r : r \in S[k] <=> CopyOK(m, r, d, s, from, k)
    BY DEF CopyOK
<1>3. a \in S[0]
  <2>1. a \in Results /\ a.m = m /\ a.err = "none" /\ a.at = from
    BY <1>0, ResultIs DEF Errors
  <2> HIDE DEF a
  <2>2. Copied(m, m, d, s, from, from)
    BY PagesAreNat DEF Copied, Keeps, SameBut
  <2>3. CopyOK(m, a, d, s, from, 0)
    BY <2>1, <2>2 DEF CopyOK
  <2> HIDE DEF S
  <2>4. QED BY <1>0, <1>2, <2>3
<1>4. \A k \in 1 .. n : \A r \in S[k - 1] : Round(r) \in S[k]
  <2> TAKE k \in 1 .. n
  <2> TAKE r \in S[k - 1]
  <2> HIDE DEF S, Round
  <2>1. CopyOK(m, r, d, s, from, k - 1) /\ k - 1 \in Nat /\ from + (k - 1) < NumPages
    BY <1>0, <1>2, PagesAssumption
  <2>2. CopyOK(m, Round(r), d, s, from, (k - 1) + 1)
    BY <2>1, CopyRound DEF Round
  <2>3. (k - 1) + 1 = k
    OBVIOUS
  <2>4. QED BY <1>0, <1>2, <2>2, <2>3
<1>5. \A k \in 1 .. n : \A r \in S[k - 1] : G[k][r] = Round(r)
  <2> HIDE DEF S, Round
  <2>1. QED OBVIOUS
<1> HIDE DEF S, G, Round, a, n
<1>6. PICK g : Rounds(g, S, a, G, n)
    BY <1>0, <1>3, <1>4, <1>5, RoundsExist
<1>7. g = [k \in 0 .. n |-> IF k = 0 THEN a ELSE Round(g[k - 1])]
  <2>1. ASSUME NEW k \in 1 .. n PROVE g[k] = Round(g[k - 1])
    <3>0. k - 1 \in 0 .. n
        BY <1>0
    <3>1. g[k - 1] \in S[k - 1] /\ g[k] = G[k][g[k - 1]]
        BY <1>6, <3>0, Zenon DEF Rounds
    <3>2. QED BY <1>5, <3>1
  <2>2. g = [k \in 0 .. n |-> g[k]] /\ g[0] = a
    BY <1>6 DEF Rounds
  <2>3. \A k \in 0 .. n : k # 0 => k \in 1 .. n
    BY <1>0
  <2>4. ASSUME NEW k \in 0 .. n PROVE g[k] = IF k = 0 THEN a ELSE Round(g[k - 1])
    BY <2>1, <2>2, <2>3
  <2>5. QED BY <2>2, <2>4
<1>8. f = [k \in 0 .. n |-> IF k = 0 THEN a ELSE Round(f[k - 1])]
    BY <1>7 DEF f
<1> HIDE DEF f
<1> DEFINE T == {k \in 0 .. n : f[k] \in S[k]}
<1>9. 0 \in T
    BY <1>0, <1>3, <1>8
<1>10. ASSUME NEW k \in 1 .. n, k - 1 \in T PROVE k \in T
  <2>1. f[k - 1] \in S[k - 1] /\ k \in 0 .. n /\ k # 0
    BY <1>0, <1>10
  <2>2. f[k] = Round(f[k - 1])
    BY <1>8, <2>1
  <2>3. QED BY <1>4, <2>1, <2>2
<1> HIDE DEF T
<1>11. 0 .. n \subseteq T
    BY <1>0, <1>9, <1>10, Upwards
<1>12. f[n] \in S[n]
    BY <1>0, <1>11 DEF T
<1>13. QED BY <1>0, <1>1, <1>2, <1>12 DEF n

(* pd_copy_range copies all of the range, or leaves the entries as they were. *)
CopyDone(m, c, d, s, from, to) ==
    /\ c \in Results /\ Keeps(m, c.m, d)
    /\ c.err = "none" => \A pg \in Pages :
            c.m.ent[d][pg] = IF from <= pg /\ pg < to THEN m.ent[s][pg] ELSE m.ent[d][pg]
    /\ c.err # "none" => \A pg \in Pages : c.m.ent[d][pg] = m.ent[d][pg]

LEMMA CopyIs ==
    ASSUME NEW m, Sound(m), NEW d \in m.pds, d # Kernel, NEW s \in Spaces, s # d,
           NEW from \in Nat, NEW to \in Nat, from <= to, to <= NumPages
    PROVE  CopyDone(m, Copy(m, d, s, from, to), d, s, from, to)
<1>1. PICK r : /\ CopyOK(m, r, d, s, from, to - from)
               /\ Copy(m, d, s, from, to) = CleanedUp(r, d, from)
    BY CopyGoes
<1>2. /\ r \in Results /\ r.m \in Memory /\ r.at \in Nat /\ r.err \in Errors
      /\ Copied(m, r.m, d, s, from, r.at) /\ Sound(r.m) /\ d \in Spaces
    BY <1>1, Fields DEF CopyOK, Results, Copied, Keeps, Sound
<1>3. CASE r.err = "none"
  <2>1. Copy(m, d, s, from, to) = r /\ r.at = to
    BY <1>1, <1>3 DEF CleanedUp, CopyOK
  <2>2. QED BY <1>2, <1>3, <2>1 DEF CopyDone, Copied
<1>4. CASE r.err # "none"
  <2> DEFINE first == TableSize * Table(r.at)
             start == IF first > from THEN first ELSE from
             n == Free(r.m, d, FALSE, start, r.at)
             o == Free(n, d, FALSE, from, start)
             c == [r EXCEPT !.m = o]
  <2>0. Copy(m, d, s, from, to) = c
    BY <1>1, <1>4 DEF CleanedUp
  <2>1. from <= r.at /\ r.at < NumPages /\ r.at \in Pages
    BY <1>1, <1>2, <1>4, PagesAssumption DEF CopyOK, Pages
  <2>2. first \in Nat /\ first <= r.at
    <3>1. /\ r.at % TableSize \in 0 .. TableSize - 1 /\ r.at \div TableSize \in Int
          /\ r.at = TableSize * (r.at \div TableSize) + (r.at % TableSize)
        BY <1>2, PagesAssumption, DivMod
    <3>2. r.at \div TableSize \in Nat
        BY <2>1, PagesAreNat DEF Table
    <3>3. \A x, y \in Nat : x * y \in Nat
        OBVIOUS
    <3>4. TableSize * (r.at \div TableSize) \in Nat
        BY <3>2, <3>3, PagesAssumption
    <3>5. QED BY <1>2, <3>1, <3>4, PagesAssumption DEF Table
  <2>3. start \in Nat /\ from <= start /\ start <= r.at
    <3> HIDE DEF first
    <3>1. QED BY <1>2, <2>1, <2>2
  <2>4. Owned(FALSE) = Mine(d)
    BY DEF Owned, Mine
  <2> HIDE DEF start
  <2>5. Keeps(r.m, n, d) /\ Freed(r.m, n, d, start, r.at)
    BY <1>2, <2>3, <2>4, FreeIs
  <2> HIDE DEF n
  <2>6. Keeps(n, o, d) /\ Freed(n, o, d, from, start)
    <3>1. Sound(n)
        BY <2>5 DEF Keeps
    <3>2. QED BY <1>2, <2>3, <2>4, <3>1, FreeIs
  <2> HIDE DEF o
  <2>7. Keeps(m, o, d)
    BY <1>2, <2>5, <2>6, KeepsOn DEF Copied
  <2>8. ASSUME NEW pg \in Pages PROVE o.ent[d][pg] = m.ent[d][pg]
    <3>1. /\ o.ent[d][pg] = IF from <= pg /\ pg < start THEN "none" ELSE n.ent[d][pg]
          /\ n.ent[d][pg] = IF start <= pg /\ pg < r.at THEN "none" ELSE r.m.ent[d][pg]
        BY <2>5, <2>6 DEF Freed
    <3>2. CASE from <= pg /\ pg < r.at
      <4>1. m.ent[d][pg] = "none"
        BY <1>2, <3>2 DEF Copied
      <4>2. pg < start \/ start <= pg
        BY <2>3, PagesAreNat
      <4>3. QED BY <3>1, <3>2, <4>1, <4>2
    <3>3. CASE ~(from <= pg /\ pg < r.at)
      <4>1. r.m.ent[d][pg] = m.ent[d][pg]
        BY <1>2, <3>3 DEF Copied
      <4>2. ~(from <= pg /\ pg < start) /\ ~(start <= pg /\ pg < r.at)
        BY <1>2, <2>1, <2>3, <3>3, PagesAreNat
      <4>3. QED BY <3>1, <4>1, <4>2
    <3>4. QED BY <3>2, <3>3
  <2>9. c \in Results /\ c.m = o /\ c.err = r.err
    <3>1. o \in Memory
        BY <2>7 DEF Keeps, Sound
    <3>2. QED BY <1>2, <3>1 DEF Results
  <2> HIDE DEF c
  <2>10. CopyDone(m, c, d, s, from, to)
    BY <1>4, <2>7, <2>8, <2>9 DEF CopyDone
  <2>11. QED BY <2>0, <2>10
<1>5. QED BY <1>3, <1>4

-----------------------------------------------------------------------------
(* Directories *)

(* As Keeps, but the directory of s may be made or deleted. *)
Rest(m, n, s) ==
    /\ Sound(n) /\ Frames(n) = Frames(m)
    /\ \A u \in Spaces \ {s} : n.tabs[u] = m.tabs[u] /\ n.ent[u] = m.ent[u]

LEMMA RestOn ==
    ASSUME NEW m, NEW n, NEW o, NEW s
    PROVE  /\ Keeps(m, n, s) => Rest(m, n, s)
           /\ Rest(m, n, s) /\ Rest(n, o, s) => Rest(m, o, s)
BY DEF Keeps, Rest, SameBut

LEMMA Blank ==
    ASSUME NEW m, Sound(m), NEW s \in Spaces, s \notin m.pds
    PROVE  m.tabs[s] = {} /\ \A pg \in Pages : m.ent[s][pg] = "none"
BY DEF Sound, WellFormed, Present

LEMMA NewDirectoryIs ==
    ASSUME NEW m, Sound(m), NEW s \in Spaces, s \notin m.pds, m.free # 0
    PROVE  LET n == NewDirectory(m, s)
           IN  Rest(m, n, s) /\ n.pds = m.pds \cup {s} /\ n.tabs = m.tabs /\ n.ent = m.ent
<1> DEFINE n == NewDirectory(m, s)
<1>0. /\ m \in Memory /\ m.free \in Nat /\ m.free - 1 \in Nat /\ m.pds \subseteq Spaces
      /\ WellFormed(m)
    BY Fields DEF Sound
<1>1. n = [m EXCEPT !.free = m.free - 1, !.pds = m.pds \cup {s}]
    BY <1>0 DEF NewDirectory, Pop, Memory
<1>2. m.pds \cup {s} \in SUBSET Spaces
    BY <1>0
<1>3. /\ n \in Memory /\ n.free = m.free - 1 /\ n.pds = m.pds \cup {s}
      /\ n.tabs = m.tabs /\ n.ent = m.ent
  <2> HIDE DEF n
  <2>1. QED BY <1>0, <1>1, <1>2 DEF Memory
<1> HIDE DEF n
<1>4. WellFormed(n)
    BY <1>0, <1>3 DEF WellFormed, Present
<1>5. TablesOf(n) = TablesOf(m) /\ PagesHeld(n, Kernel) = PagesHeld(m, Kernel)
    BY <1>3 DEF TablesOf, PagesHeld
<1>6. Cardinality(n.pds) = Cardinality(m.pds) + 1
    BY <1>0, <1>3, Counted, FS_AddElement
<1>7. CountsMove(m, n, 1, 0, 0)
  <2>1. /\ Cardinality(TablesOf(m)) \in Nat /\ Cardinality(PagesHeld(m, Kernel)) \in Nat
        /\ Cardinality(m.pds) \in Nat
    BY <1>0, Counted
  <2>2. /\ Cardinality(TablesOf(n)) = Cardinality(TablesOf(m)) + 0
        /\ Cardinality(PagesHeld(n, Kernel)) = Cardinality(PagesHeld(m, Kernel)) + 0
    BY <1>5, <2>1
  <2>3. m.free = n.free + 1 + 0 + 0
    BY <1>0, <1>3
  <2>4. QED BY <1>6, <2>2, <2>3 DEF CountsMove
<1>8. Frames(n) = Frames(m)
  <2>1. m \in Memory /\ n \in Memory /\ 0 \in Int /\ 1 \in Int
    BY <1>0, <1>3
  <2>2. QED BY <1>7, <2>1, FramesMove
<1>9. QED BY <1>3, <1>4, <1>8 DEF Rest, Sound, n

LEMMA DeleteDirectoryIs ==
    ASSUME NEW m, Sound(m), NEW s \in m.pds, s # Kernel
    PROVE  LET n == DeleteDirectory(m, s)
           IN  Rest(m, n, s) /\ n.pds = m.pds \ {s} /\ \A pg \in Pages : n.ent[s][pg] = "none"
<1> DEFINE o == Free(m, s, FALSE, 0, NumPages)
           n == DeleteDirectory(m, s)
<1>0. Owned(FALSE) = Mine(s) /\ s \in Spaces
    BY Fields DEF Owned, Mine, Sound
<1>1. Keeps(m, o, s) /\ Freed(m, o, s, 0, NumPages)
    BY <1>0, FreeIs, PagesAssumption
<1>2. n = [Push(o, 1) EXCEPT !.pds = Push(o, 1).pds \ {s}]
    BY DEF DeleteDirectory
<1> HIDE DEF o, n
<1>3. /\ o \in Memory /\ o.free \in Nat /\ o.free + 1 \in Nat /\ o.pds \subseteq Spaces
      /\ WellFormed(o) /\ o.pds = m.pds
      /\ o.tabs \in [Spaces -> SUBSET Tables] /\ o.ent \in [Spaces -> [Pages -> Kinds]]
    BY <1>1, Fields DEF Keeps, Sound, SameBut
<1>4. n = [o EXCEPT !.free = o.free + 1, !.pds = o.pds \ {s}]
    BY <1>2, <1>3 DEF Push, Memory
<1>5. /\ n \in Memory /\ n.free = o.free + 1 /\ n.pds = o.pds \ {s}
      /\ n.tabs = o.tabs /\ n.ent = o.ent
    BY <1>3, <1>4 DEF Memory
<1>6. n.tabs[s] = {} /\ \A pg \in Pages : n.ent[s][pg] = "none"
    BY <1>1, <1>5, PagesAssumption DEF Freed, Pages
<1>7. WellFormed(n)
    BY <1>3, <1>5, <1>6 DEF WellFormed, Present
<1>8. TablesOf(n) = TablesOf(o) /\ PagesHeld(n, Kernel) = PagesHeld(o, Kernel)
    BY <1>5 DEF TablesOf, PagesHeld
<1>9. Cardinality(n.pds) = Cardinality(o.pds) - 1
    BY <1>3, <1>5, Counted, FS_RemoveElement
<1>10. CountsMove(n, o, 1, 0, 0)
  <2>1. /\ Cardinality(o.pds) \in Nat /\ Cardinality(TablesOf(o)) \in Nat
        /\ Cardinality(PagesHeld(o, Kernel)) \in Nat
    BY <1>3, Counted
  <2>2. Cardinality(o.pds) = Cardinality(n.pds) + 1
    BY <1>9, <2>1
  <2>3. /\ Cardinality(TablesOf(o)) = Cardinality(TablesOf(n)) + 0
        /\ Cardinality(PagesHeld(o, Kernel)) = Cardinality(PagesHeld(n, Kernel)) + 0
    BY <1>8, <2>1
  <2>4. n.free = o.free + 1 + 0 + 0
    BY <1>3, <1>5
  <2>5. QED BY <2>2, <2>3, <2>4 DEF CountsMove
<1>11. Frames(n) = Frames(o)
    BY <1>3, <1>5, <1>10, FramesMove
<1>12. Rest(o, n, s)
    BY <1>5, <1>7, <1>11 DEF Rest, Sound
<1>13. Rest(m, n, s)
    BY <1>1, <1>12, RestOn
<1>14. QED BY <1>3, <1>5, <1>6, <1>13 DEF n

(* A copy of a directory, or nothing that was not there before. *)
DirectoryDone(m, c, d, s) ==
    /\ c \in Results /\ Rest(m, c.m, d)
    /\ c.err = "none" => /\ c.m.pds = m.pds \cup {d}
                         /\ \A pg \in Pages : c.m.ent[d][pg] = m.ent[s][pg]
    /\ c.err # "none" => /\ c.m.pds = m.pds
                         /\ \A pg \in Pages : c.m.ent[d][pg] = m.ent[d][pg]

LEMMA CopyDirectoryIs ==
    ASSUME NEW m, Sound(m), NEW d \in Spaces, d \notin m.pds, d # Kernel,
           NEW s \in Spaces, s # d
    PROVE  DirectoryDone(m, CopyDirectory(m, d, s), d, s)
<1> DEFINE n == NewDirectory(m, d)
           r == Copy(n, d, s, 0, NumPages)
           c == CopyDirectory(m, d, s)
<1>0. m \in Memory /\ Rest(m, m, d) /\ \A pg \in Pages : m.ent[d][pg] = "none"
    BY Blank DEF Rest, Sound
<1>1. c = IF m.free = 0 THEN Failed(Going(m, 0), "no_mem")
          ELSE IF r.err = "none" THEN r ELSE [r EXCEPT !.m = DeleteDirectory(r.m, d)]
    BY DEF CopyDirectory
<1> HIDE DEF c
<1>2. CASE m.free = 0
  <2> DEFINE g == Going(m, 0)
  <2>1. g \in Results /\ g.m = m
    BY <1>0, ResultIs DEF Errors
  <2> HIDE DEF g
  <2>2. /\ Failed(g, "no_mem") \in Results /\ Failed(g, "no_mem").m = m
        /\ Failed(g, "no_mem").err = "no_mem"
    BY <2>1 DEF Failed, Results, Errors
  <2>3. c = Failed(g, "no_mem")
    BY <1>1, <1>2 DEF g
  <2>4. DirectoryDone(m, c, d, s)
    BY <1>0, <2>2, <2>3 DEF DirectoryDone
  <2>5. QED BY <2>4 DEF c
<1>3. CASE m.free # 0
  <2>1. Rest(m, n, d) /\ n.pds = m.pds \cup {d} /\ n.ent = m.ent /\ Sound(n)
    BY <1>3, NewDirectoryIs DEF Rest
  <2> HIDE DEF n
  <2>2. CopyDone(n, r, d, s, 0, NumPages)
    BY <2>1, CopyIs, PagesAssumption
  <2> HIDE DEF r
  <2>3. r \in Results /\ Keeps(n, r.m, d) /\ Rest(m, r.m, d) /\ Sound(r.m) /\ r.m.pds = n.pds
    <3>1. r \in Results /\ Keeps(n, r.m, d)
        BY <2>2 DEF CopyDone
    <3>2. Rest(n, r.m, d)
        BY <3>1, RestOn
    <3>3. Rest(m, r.m, d)
        BY <2>1, <3>2, RestOn
    <3>4. QED BY <3>1, <3>3 DEF Keeps, SameBut
  <2>4. CASE r.err = "none"
    <3>1. \A pg \in Pages : r.m.ent[d][pg] = m.ent[s][pg]
        BY <2>1, <2>2, <2>4, PagesAssumption DEF CopyDone, Pages
    <3>2. c = r
        BY <1>1, <1>3, <2>4
    <3>3. DirectoryDone(m, c, d, s)
        BY <2>1, <2>3, <2>4, <3>1, <3>2 DEF DirectoryDone
    <3>4. QED BY <3>3 DEF c
  <2>5. CASE r.err # "none"
    <3> DEFINE o == DeleteDirectory(r.m, d)
    <3>1. Rest(r.m, o, d) /\ o.pds = r.m.pds \ {d} /\ \A pg \in Pages : o.ent[d][pg] = "none"
        BY <2>1, <2>3, DeleteDirectoryIs
    <3>2. c = [r EXCEPT !.m = o]
        BY <1>1, <1>3, <2>5
    <3> HIDE DEF o
    <3>3. o \in Memory /\ Rest(m, o, d)
        BY <2>3, <3>1, RestOn DEF Rest, Sound
    <3>4. c \in Results /\ c.m = o /\ c.err = r.err
        BY <2>3, <3>2, <3>3 DEF Results
    <3>5. o.pds = m.pds
        BY <2>1, <2>3, <3>1
    <3>6. DirectoryDone(m, c, d, s)
        BY <1>0, <2>5, <3>1, <3>3, <3>4, <3>5 DEF DirectoryDone
    <3>7. QED BY <3>6 DEF c
  <2>6. QED BY <2>4, <2>5
<1>4. QED BY <1>2, <1>3

(* The directory of s becomes that of d, which has none any more. *)
LEMMA MovedIs ==
    ASSUME NEW m, Sound(m), NEW d \in Spaces, d \notin m.pds, d # Kernel,
           NEW s \in m.pds, s # Kernel
    PROVE  LET n == Moved(m, d, s)
           IN  /\ Sound(n) /\ Frames(n) = Frames(m) /\ n.pds = (m.pds \ {s}) \cup {d}
               /\ \A pg \in Pages : n.ent[d][pg] = m.ent[s][pg]
               /\ \A u \in Spaces \ {s, d} : n.tabs[u] = m.tabs[u] /\ n.ent[u] = m.ent[u]
<1> DEFINE n == Moved(m, d, s)
           empty == [pg \in Pages |-> "none"]
           t1 == [m.tabs EXCEPT ![d] = m.tabs[s]]
           t2 == [t1 EXCEPT ![s] = {}]
           e1 == [m.ent EXCEPT ![d] = m.ent[s]]
           e2 == [e1 EXCEPT ![s] = empty]
           pds == (m.pds \ {s}) \cup {d}
           W == m.tabs[s]
           V == {pg \in Pages : m.ent[s][pg] \in Mine(s)}
<1>0. /\ m \in Memory /\ WellFormed(m) /\ s \in Spaces /\ m.pds \subseteq Spaces /\ s # d
      /\ m.tabs \in [Spaces -> SUBSET Tables] /\ m.ent \in [Spaces -> [Pages -> Kinds]]
      /\ m.tabs[d] = {} /\ \A pg \in Pages : m.ent[d][pg] = "none"
    BY Fields, Blank DEF Sound
<1>1. n = [m EXCEPT !.pds = pds, !.tabs = t2, !.ent = e2]
    BY <1>0 DEF Moved, Memory
<1>2. /\ t2 \in [Spaces -> SUBSET Tables] /\ e2 \in [Spaces -> [Pages -> Kinds]]
      /\ pds \in SUBSET Spaces
  <2>1. t1 \in [Spaces -> SUBSET Tables]
    BY <1>0
  <2>2. e1 \in [Spaces -> [Pages -> Kinds]] /\ empty \in [Pages -> Kinds]
    BY <1>0 DEF Kinds
  <2> HIDE DEF t1, e1, empty
  <2>3. QED BY <1>0, <2>1, <2>2
<1>3. /\ t2[d] = m.tabs[s] /\ t2[s] = {} /\ e2[d] = m.ent[s] /\ e2[s] = empty
      /\ \A u \in Spaces \ {s, d} : t2[u] = m.tabs[u] /\ e2[u] = m.ent[u]
    BY <1>0
<1> HIDE DEF t2, e2, n, pds
<1>4. n \in Memory /\ n.pds = pds /\ n.tabs = t2 /\ n.ent = e2 /\ n.free = m.free
    BY <1>0, <1>1, <1>2 DEF Memory
<1>5. /\ n.tabs[d] = m.tabs[s] /\ n.tabs[s] = {} /\ n.ent[d] = m.ent[s]
      /\ \A pg \in Pages : n.ent[s][pg] = "none"
      /\ \A u \in Spaces \ {s, d} : n.tabs[u] = m.tabs[u] /\ n.ent[u] = m.ent[u]
    BY <1>3, <1>4
<1>6. WellFormed(n)
  <2>1. ASSUME NEW u \in Spaces
        PROVE  /\ \A pg \in Pages : Present(n, u, pg) => Table(pg) \in n.tabs[u]
               /\ n.tabs[u] # {} => u \in n.pds
    <3>1. CASE u = s
        BY <1>5, <3>1 DEF Present
    <3>2. CASE u = d
        BY <1>0, <1>4, <1>5, <3>2 DEF Present, WellFormed, pds
    <3>3. CASE u \notin {s, d}
        BY <1>0, <1>4, <1>5, <3>3 DEF Present, WellFormed, pds
    <3>4. QED BY <3>1, <3>2, <3>3
  <2>2. QED BY <2>1 DEF WellFormed
<1>7. Mine(s) = Mine(d) /\ \A u : "none" \notin Mine(u)
    BY DEF Mine
<1>8. /\ IsFiniteSet(m.pds) /\ Cardinality(m.pds) \in Nat
      /\ IsFiniteSet(TablesOf(m)) /\ Cardinality(TablesOf(m)) \in Nat
      /\ IsFiniteSet(PagesHeld(m, Kernel)) /\ Cardinality(PagesHeld(m, Kernel)) \in Nat
    BY <1>0, Counted
<1>9. W \subseteq Tables /\ IsFiniteSet(W) /\ V \subseteq Pages /\ IsFiniteSet(V)
  <2>1. W \subseteq Tables /\ V \subseteq Pages
    BY <1>0
  <2>2. QED BY <2>1, PagesAreNat, FS_Subset
<1>10. Cardinality(W) \in Nat /\ Cardinality(V) \in Nat
    BY <1>9, FS_CardinalityType
<1> DEFINE T == TablesOf(m) \ ({s} \X W)
           P == PagesHeld(m, Kernel) \ ({s} \X V)
<1>11. Cuts(TablesOf(m), T, s, W) /\ Joins(T, TablesOf(n), d, W)
  <2>1. {s} \X W \subseteq TablesOf(m)
    BY <1>0, <1>9 DEF TablesOf
  <2>2. \A x \in Spaces \X Tables : x[2] \in n.tabs[x[1]] <=>
            \/ x[1] = d /\ x[2] \in W
            \/ x[1] # s /\ x[1] # d /\ x[2] \in m.tabs[x[1]]
    BY <1>0, <1>5
  <2>3. \A x \in T : x[1] # d /\ x[1] # s
    BY <1>0 DEF TablesOf
  <2>4. T \cap ({d} \X W) = {}
    BY <2>3
  <2>5. TablesOf(n) = T \cup ({d} \X W)
    <3> HIDE DEF W
    <3>1. QED BY <1>0, <1>9, <2>2, <2>3 DEF TablesOf
  <2>6. QED BY <2>1, <2>4, <2>5 DEF Cuts, Joins
<1>12. Cuts(PagesHeld(m, Kernel), P, s, V) /\ Joins(P, PagesHeld(n, Kernel), d, V)
  <2>0. /\ PagesHeld(n, Kernel) = {x \in Spaces \X Pages : n.ent[x[1]][x[2]] \in Mine(x[1])}
        /\ PagesHeld(m, Kernel) = {x \in Spaces \X Pages : m.ent[x[1]][x[2]] \in Mine(x[1])}
    BY DEF PagesHeld, Mine
  <2>1. {s} \X V \subseteq PagesHeld(m, Kernel)
    BY <1>0, <1>9, <2>0
  <2>2. \A x \in Spaces \X Pages : n.ent[x[1]][x[2]] \in Mine(x[1]) <=>
            \/ x[1] = d /\ x[2] \in V
            \/ x[1] # s /\ x[1] # d /\ m.ent[x[1]][x[2]] \in Mine(x[1])
    BY <1>0, <1>5, <1>7
  <2>3. \A x \in P : x[1] # d /\ x[1] # s
    BY <1>0, <1>7, <2>0
  <2>4. P \cap ({d} \X V) = {}
    BY <2>3
  <2>5. PagesHeld(n, Kernel) = P \cup ({d} \X V)
    <3> HIDE DEF V
    <3>1. QED BY <1>0, <1>9, <2>0, <2>2, <2>3
  <2>6. QED BY <2>1, <2>4, <2>5 DEF Cuts, Joins
<1> HIDE DEF T, P, W, V
<1>13. Cardinality(TablesOf(n)) = Cardinality(TablesOf(m))
  <2>1. Cardinality(T) = Cardinality(TablesOf(m)) - Cardinality(W)
    BY <1>8, <1>9, <1>11, RowCut
  <2>2. IsFiniteSet(T)
    BY <1>8, FS_Subset DEF T
  <2>3. Cardinality(TablesOf(n)) = Cardinality(T) + Cardinality(W)
    BY <1>9, <1>11, <2>2, RowJoined
  <2>4. QED BY <1>8, <1>10, <2>1, <2>3
<1>14. Cardinality(PagesHeld(n, Kernel)) = Cardinality(PagesHeld(m, Kernel))
  <2>1. Cardinality(P) = Cardinality(PagesHeld(m, Kernel)) - Cardinality(V)
    BY <1>8, <1>9, <1>12, RowCut
  <2>2. IsFiniteSet(P)
    BY <1>8, FS_Subset DEF P
  <2>3. Cardinality(PagesHeld(n, Kernel)) = Cardinality(P) + Cardinality(V)
    BY <1>9, <1>12, <2>2, RowJoined
  <2>4. QED BY <1>8, <1>10, <2>1, <2>3
<1>15. Cardinality(n.pds) = Cardinality(m.pds)
  <2> DEFINE Q == m.pds \ {s}
  <2>1. Cardinality(Q) = Cardinality(m.pds) - 1 /\ IsFiniteSet(Q)
    BY <1>8, FS_RemoveElement, FS_Subset
  <2>2. d \notin Q /\ pds = Q \cup {d}
    BY <1>0 DEF pds
  <2> HIDE DEF Q
  <2>3. Cardinality(pds) = Cardinality(Q) + 1
    BY <2>1, <2>2, FS_AddElement
  <2>4. QED BY <1>4, <1>8, <2>1, <2>3
<1>16. Frames(n) = Frames(m)
    BY <1>0, <1>4, <1>13, <1>14, <1>15, Counted
<1>17. QED BY <1>4, <1>5, <1>6, <1>16 DEF Sound, n, pds

-----------------------------------------------------------------------------
(* Ranges and what is mapped for them *)

RangeSet == [start : Nat, end : Nat, kernel_refs : Nat, refs : SUBSET Procs]

Covers(r, pg)   == r.start <= pg /\ pg < r.end
In(rs, pg)      == \E r \in rs : Covers(r, pg)
Sees(rs, p, pg) == \E r \in rs : Covers(r, pg) /\ p \in r.refs
Holding(r)      == r.kernel_refs > 0 \/ r.refs # {}

RangesOK(rs) ==
    /\ rs \subseteq RangeSet
    /\ \A r \in rs : SharedStart <= r.start /\ r.start < r.end /\ r.end <= NumPages
    /\ \A r, q \in rs : r # q => ~Overlaps(r, q)

EntriesRight(m, rs) ==
    /\ \A pg \in Pages : m.ent[Kernel][pg] = IF In(rs, pg) THEN "shared" ELSE "none"
    /\ \A p \in Procs : \A pg \in Pages :
        SharedStart <= pg => m.ent[p][pg] = IF Sees(rs, p, pg) THEN "shared" ELSE "none"

Good(m, rs) == Sound(m) /\ RangesOK(rs) /\ EntriesRight(m, rs)

AllHeld(rs) == \A r \in rs : Holding(r)

LEMMA SpacesAre ==
    /\ Procs \subseteq Spaces /\ Kernel \in Spaces /\ Template \in Spaces /\ Staging \in Spaces
    /\ Kernel \notin Procs /\ Template \notin Procs /\ Staging \notin Procs
    /\ Kernel # Template /\ Kernel # Staging /\ Template # Staging
BY SpacesAssumption

LEMMA RangeIs ==
    ASSUME NEW rs, RangesOK(rs), NEW r \in rs
    PROVE  /\ r \in RangeSet /\ r.start \in Nat /\ r.end \in Nat /\ r.kernel_refs \in Nat
           /\ r.refs \subseteq Procs /\ r.start < r.end /\ r.end <= NumPages
           /\ SharedStart <= r.start
BY DEF RangesOK, RangeSet

(* A page is in one range at most. *)
LEMMA Alone ==
    ASSUME NEW rs, RangesOK(rs), NEW r \in rs, NEW q \in rs, NEW pg \in Nat,
           Covers(r, pg), Covers(q, pg)
    PROVE  q = r
<1>1. /\ r.start \in Nat /\ r.end \in Nat /\ q.start \in Nat /\ q.end \in Nat
    BY RangeIs
<1>2. Overlaps(r, q)
    BY <1>1 DEF Overlaps, Covers
<1>3. QED BY <1>2 DEF RangesOK

(* Nor is there a second range with the start of one. *)
LEMMA StartsDiffer ==
    ASSUME NEW rs, RangesOK(rs), NEW r \in rs, NEW q \in rs, q.start = r.start
    PROVE  q = r
<1>1. /\ r.start \in Nat /\ r.end \in Nat /\ q.end \in Nat /\ r.start < r.end /\ q.start < q.end
    BY RangeIs
<1>2. Overlaps(r, q)
    BY <1>1 DEF Overlaps
<1>3. QED BY <1>2 DEF RangesOK

(* A range whose holders change. *)
Swapped(rs, r, q) == (rs \ {r}) \cup {q}
Alike(r, q) == q \in RangeSet /\ q.start = r.start /\ q.end = r.end

LEMMA SwappedIs ==
    ASSUME NEW rs, RangesOK(rs), NEW r \in rs, NEW q, Alike(r, q)
    PROVE  /\ RangesOK(Swapped(rs, r, q)) /\ q \in Swapped(rs, r, q)
           /\ Swapped(rs, r, q) \ {q} = rs \ {r}
           /\ \A pg \in Pages : In(Swapped(rs, r, q), pg) <=> In(rs, pg)
           /\ \A pg \in Pages : \A p :
                Sees(Swapped(rs, r, q), p, pg) <=>
                    IF Covers(r, pg) THEN p \in q.refs ELSE Sees(rs, p, pg)
<1> DEFINE T == Swapped(rs, r, q)
<1>0. \A x : x \in T <=> (x \in rs /\ x # r) \/ x = q
    BY DEF Swapped
<1> HIDE DEF T
<1>1. \A x : Overlaps(r, x) <=> Overlaps(q, x)
    BY DEF Alike, Overlaps
<1>2. \A x : Overlaps(x, r) <=> Overlaps(x, q)
    BY DEF Alike, Overlaps
<1>3. RangesOK(T)
  <2>1. T \subseteq RangeSet
    BY <1>0 DEF RangesOK, Alike
  <2>2. \A x \in T : SharedStart <= x.start /\ x.start < x.end /\ x.end <= NumPages
    BY <1>0 DEF RangesOK, Alike
  <2>3. ASSUME NEW x \in T, NEW y \in T, x # y PROVE ~Overlaps(x, y)
    BY <1>0, <1>1, <1>2, <2>3 DEF RangesOK
  <2>4. QED BY <2>1, <2>2, <2>3 DEF RangesOK
<1>4. q \notin rs \ {r}
    BY StartsDiffer DEF Alike
<1>5. T \ {q} = rs \ {r} /\ q \in T
    BY <1>0, <1>4
<1>6. \A pg : Covers(q, pg) <=> Covers(r, pg)
    BY DEF Covers, Alike
<1>7. ASSUME NEW pg \in Pages PROVE In(T, pg) <=> In(rs, pg)
    BY <1>0, <1>6 DEF In
<1>8. ASSUME NEW pg \in Pages, NEW p
      PROVE  Sees(T, p, pg) <=> IF Covers(r, pg) THEN p \in q.refs ELSE Sees(rs, p, pg)
  <2>1. CASE Covers(r, pg)
    <3>1. \A x \in T : Covers(x, pg) => x = q
        BY <1>0, <2>1, Alone, PagesAreNat
    <3>2. QED BY <1>5, <1>6, <2>1, <3>1 DEF Sees
  <2>2. CASE ~Covers(r, pg)
    <3>1. \A x : x \in T /\ Covers(x, pg) <=> x \in rs /\ Covers(x, pg)
        BY <1>0, <1>6, <2>2
    <3>2. QED BY <2>2, <3>1 DEF Sees
  <2>3. QED BY <2>1, <2>2
<1>9. QED BY <1>3, <1>5, <1>7, <1>8 DEF T

(* A range less. *)
LEMMA RemovedIs ==
    ASSUME NEW rs, RangesOK(rs), NEW r \in rs
    PROVE  /\ RangesOK(rs \ {r})
           /\ \A pg \in Pages : In(rs \ {r}, pg) <=> In(rs, pg) /\ ~Covers(r, pg)
           /\ \A pg \in Pages : \A p :
                Sees(rs \ {r}, p, pg) <=> Sees(rs, p, pg) /\ ~Covers(r, pg)
<1>1. RangesOK(rs \ {r})
    BY DEF RangesOK
<1>2. \A pg \in Pages : \A x \in rs : Covers(r, pg) /\ Covers(x, pg) => x = r
    BY Alone, PagesAreNat
<1>3. QED BY <1>1, <1>2 DEF In, Sees

(* A range more. *)
LEMMA AddedIs ==
    ASSUME NEW rs, RangesOK(rs), NEW r \in RangeSet,
           SharedStart <= r.start, r.start < r.end, r.end <= NumPages,
           \A q \in rs : ~Overlaps(r, q)
    PROVE  /\ RangesOK(rs \cup {r}) /\ r \notin rs
           /\ \A pg \in Pages : In(rs \cup {r}, pg) <=> In(rs, pg) \/ Covers(r, pg)
           /\ \A pg \in Pages : \A p : r.refs = {} =>
                (Sees(rs \cup {r}, p, pg) <=> Sees(rs, p, pg))
           /\ \A pg \in Pages : Covers(r, pg) => ~In(rs, pg)
<1>0. \A q \in rs : q.start \in Nat /\ q.end \in Nat /\ q.start < q.end
    BY RangeIs
<1>1. r.start \in Nat /\ r.end \in Nat
    BY DEF RangeSet
<1>2. \A q \in rs : ~Overlaps(q, r)
    BY DEF Overlaps
<1>3. RangesOK(rs \cup {r})
    BY <1>2 DEF RangesOK
<1>4. Overlaps(r, r)
    BY DEF Overlaps
<1>5. \A pg \in Pages : \A q \in rs : Covers(r, pg) /\ Covers(q, pg) => Overlaps(r, q)
    BY <1>0, <1>1, PagesAreNat DEF Covers, Overlaps
<1>6. QED BY <1>3, <1>4, <1>5 DEF In, Sees

-----------------------------------------------------------------------------
(* The calls on ranges *)

(* Only the directories of the kernel and of s are others in n. *)
KeepsTwo(m, n, s) ==
    /\ Sound(n) /\ Frames(n) = Frames(m) /\ n.pds = m.pds
    /\ \A u \in Spaces \ {Kernel, s} : n.tabs[u] = m.tabs[u] /\ n.ent[u] = m.ent[u]

LEMMA TwoKept ==
    ASSUME NEW m, NEW n, NEW o, NEW s
    PROVE  /\ Keeps(m, n, s) => KeepsTwo(m, n, s)
           /\ Keeps(m, n, Kernel) => KeepsTwo(m, n, s)
           /\ KeepsTwo(m, n, s) /\ KeepsTwo(n, o, s) => KeepsTwo(m, o, s)
           /\ Sound(m) => KeepsTwo(m, m, s)
BY DEF KeepsTwo, Keeps, SameBut

(* The ranges when r has become q, which goes if nobody holds it. *)
After(rs, r, q) == (rs \ {r}) \cup IF Holding(q) THEN {q} ELSE {}

LEMMA AfterHeld ==
    ASSUME NEW rs, AllHeld(rs), NEW r, NEW q
    PROVE  AllHeld(After(rs, r, q))
BY DEF AllHeld, After

Outcome(c, m, rs, s) == Good(c.m, c.rs) /\ c.rs = rs /\ KeepsTwo(m, c.m, s)

LEMMA CollectedIs ==
    ASSUME NEW m, NEW rs, RangesOK(rs), NEW r \in rs, NEW q, Alike(r, q),
           Good(m, Swapped(rs, r, q)), Kernel \in m.pds, NEW s,
           NEW st, st.m = m, st.rs = Swapped(rs, r, q)
    PROVE  Outcome(Collected(st, q), m, After(rs, r, q), s)
<1> DEFINE T == Swapped(rs, r, q)
           n == Free(m, Kernel, TRUE, q.start, q.end)
           c == Collected(st, q)
<1>0. /\ Sound(m) /\ RangesOK(T) /\ EntriesRight(m, T) /\ q \in T /\ T \ {q} = rs \ {r}
    BY SwappedIs DEF Good
<1>1. q.start \in Nat /\ q.end \in Nat /\ q.kernel_refs \in Nat
    BY DEF Alike, RangeSet
<1>2. CASE Holding(q)
  <2>0. ~(q.kernel_refs = 0 /\ q.refs = {})
    BY <1>1, <1>2 DEF Holding
  <2>1. c = st
    BY <2>0, Zenon DEF Collected
  <2>2. After(rs, r, q) = T
    BY <1>2 DEF After, Swapped
  <2>3. KeepsTwo(m, m, s)
    BY <1>0, TwoKept
  <2>4. QED BY <2>1, <2>2, <2>3 DEF Outcome
<1>3. CASE ~Holding(q)
  <2>0. q.kernel_refs = 0 /\ q.refs = {}
    BY <1>1, <1>3 DEF Holding
  <2>1. c = [m |-> n, rs |-> T \ {q}]
    BY <2>0 DEF Collected
  <2>2. After(rs, r, q) = T \ {q}
    BY <1>0, <1>3 DEF After
  <2>3. Owned(TRUE) = Mine(Kernel)
    BY DEF Owned, Mine
  <2>4. Keeps(m, n, Kernel) /\ Freed(m, n, Kernel, q.start, q.end)
    BY <1>0, <1>1, <2>3, SpacesAre, FreeIs
  <2> HIDE DEF n, c
  <2>5. /\ RangesOK(T \ {q})
        /\ \A pg \in Pages : In(T \ {q}, pg) <=> In(T, pg) /\ ~Covers(q, pg)
        /\ \A pg \in Pages : \A p : Sees(T \ {q}, p, pg) <=> Sees(T, p, pg) /\ ~Covers(q, pg)
    BY <1>0, RemovedIs
  <2>6. \A pg \in Pages : \A p : Sees(T, p, pg) => ~Covers(q, pg)
    <3>1. \A x \in T : \A pg \in Pages : Covers(x, pg) /\ Covers(q, pg) => x = q
        BY <1>0, Alone, PagesAreNat
    <3>2. QED BY <2>0, <3>1 DEF Sees
  <2>7. EntriesRight(n, T \ {q})
    <3>1. ASSUME NEW pg \in Pages
          PROVE  n.ent[Kernel][pg] = IF In(T \ {q}, pg) THEN "shared" ELSE "none"
      <4>1. n.ent[Kernel][pg] = IF Covers(q, pg) THEN "none" ELSE m.ent[Kernel][pg]
        BY <2>4 DEF Freed, Covers
      <4>2. m.ent[Kernel][pg] = IF In(T, pg) THEN "shared" ELSE "none"
        BY <1>0 DEF EntriesRight
      <4>3. In(T \ {q}, pg) <=> In(T, pg) /\ ~Covers(q, pg)
        BY <2>5
      <4>4. QED BY <4>1, <4>2, <4>3
    <3>2. ASSUME NEW p \in Procs, NEW pg \in Pages, SharedStart <= pg
          PROVE  n.ent[p][pg] = IF Sees(T \ {q}, p, pg) THEN "shared" ELSE "none"
        BY <1>0, <2>4, <2>5, <2>6, <3>2, SpacesAre DEF Keeps, SameBut, EntriesRight
    <3>3. QED BY <3>1, <3>2 DEF EntriesRight
  <2>8. Good(n, T \ {q}) /\ KeepsTwo(m, n, s)
    BY <2>4, <2>5, <2>7, TwoKept DEF Good, Keeps
  <2>9. QED BY <2>1, <2>2, <2>8 DEF Outcome, c
<1>4. QED BY <1>2, <1>3

(* The range of a release, or of an unmapping. *)
LessKernel(r) == [r EXCEPT !.kernel_refs = r.kernel_refs - 1]
LessRef(r, p) == [r EXCEPT !.refs = r.refs \ {p}]
MoreRef(r, p) == [r EXCEPT !.refs = r.refs \cup {p}]

LEMMA HoldersChange ==
    ASSUME NEW r \in RangeSet, NEW p \in Procs
    PROVE  /\ r.kernel_refs > 0 => /\ Alike(r, LessKernel(r)) /\ LessKernel(r).refs = r.refs
                                   /\ LessKernel(r).kernel_refs = r.kernel_refs - 1
           /\ Alike(r, LessRef(r, p)) /\ LessRef(r, p).refs = r.refs \ {p}
           /\ LessRef(r, p).kernel_refs = r.kernel_refs
           /\ Alike(r, MoreRef(r, p)) /\ MoreRef(r, p).refs = r.refs \cup {p}
           /\ MoreRef(r, p).kernel_refs = r.kernel_refs
BY DEF RangeSet, Alike, LessKernel, LessRef, MoreRef

(* When only the kernel's count changes, what is mapped does not. *)
LEMMA SeenAlike ==
    ASSUME NEW m, NEW rs, Good(m, rs), NEW r \in rs, NEW q, Alike(r, q), q.refs = r.refs
    PROVE  Good(m, Swapped(rs, r, q))
<1>1. /\ RangesOK(Swapped(rs, r, q))
      /\ \A pg \in Pages : In(Swapped(rs, r, q), pg) <=> In(rs, pg)
      /\ \A pg \in Pages : \A p : Sees(Swapped(rs, r, q), p, pg) <=>
                                    IF Covers(r, pg) THEN p \in q.refs ELSE Sees(rs, p, pg)
    BY SwappedIs DEF Good
<1>2. \A pg \in Pages : \A p : Covers(r, pg) => (Sees(rs, p, pg) <=> p \in r.refs)
  <2>1. \A pg \in Pages : \A x \in rs : Covers(r, pg) /\ Covers(x, pg) => x = r
    BY Alone, PagesAreNat DEF Good
  <2>2. QED BY <2>1 DEF Sees
<1>3. \A pg \in Pages : \A p : Sees(Swapped(rs, r, q), p, pg) <=> Sees(rs, p, pg)
    BY <1>1, <1>2
<1>4. EntriesRight(m, Swapped(rs, r, q))
    BY <1>1, <1>3 DEF Good, EntriesRight
<1>5. QED BY <1>1, <1>4 DEF Good

LEMMA ReleasedIs ==
    ASSUME NEW st, Good(st.m, st.rs), Kernel \in st.m.pds, NEW r \in st.rs, NEW s
    PROVE  Outcome(Released(st, r), st.m,
                   IF r.kernel_refs > 0 THEN After(st.rs, r, LessKernel(r)) ELSE st.rs, s)
<1> DEFINE q == LessKernel(r)
           ch == Changed(st, r, q)
<1>0. r \in RangeSet /\ RangesOK(st.rs) /\ Sound(st.m)
    BY RangeIs DEF Good
<1>1. Released(st, r) = IF r.kernel_refs > 0 THEN Collected(ch, q) ELSE st
    BY DEF Released, LessKernel
<1>2. CASE r.kernel_refs > 0
  <2>1. Alike(r, q) /\ q.refs = r.refs
    <3>1. PICK p \in Procs : TRUE
        BY SpacesAssumption
    <3>2. QED BY <1>0, <1>2, <3>1, HoldersChange
  <2> HIDE DEF q
  <2>2. Good(st.m, Swapped(st.rs, r, q))
    BY <2>1, SeenAlike
  <2>3. ch.m = st.m /\ ch.rs = Swapped(st.rs, r, q)
    BY DEF Changed, Swapped
  <2> HIDE DEF ch
  <2>4. Outcome(Collected(ch, q), st.m, After(st.rs, r, q), s)
    BY <1>0, <2>1, <2>2, <2>3, CollectedIs
  <2>5. QED BY <1>1, <1>2, <2>4 DEF q
<1>3. CASE ~(r.kernel_refs > 0)
  <2>1. KeepsTwo(st.m, st.m, s)
    BY <1>0, TwoKept
  <2>2. QED BY <1>1, <1>3, <2>1 DEF Outcome
<1>4. QED BY <1>2, <1>3

LEMMA UnmappedIs ==
    ASSUME NEW st, Good(st.m, st.rs), Kernel \in st.m.pds, NEW r \in st.rs,
           NEW p \in Procs
    PROVE  Outcome(Unmapped(st, r, p), st.m,
                   IF p \in r.refs THEN After(st.rs, r, LessRef(r, p)) ELSE st.rs, p)
<1> DEFINE q == LessRef(r, p)
           n == Free(st.m, p, FALSE, r.start, r.end)
           freed == [m |-> n, rs |-> st.rs]
           ch == Changed(freed, r, q)
           T == Swapped(st.rs, r, q)
<1>0. /\ r \in RangeSet /\ RangesOK(st.rs) /\ Sound(st.m) /\ EntriesRight(st.m, st.rs)
      /\ r.start \in Nat /\ r.end \in Nat /\ p \in Spaces /\ p # Kernel
    BY RangeIs, SpacesAre DEF Good
<1>1. Unmapped(st, r, p) = IF p \in r.refs THEN Collected(ch, q) ELSE st
    BY DEF Unmapped, LessRef
<1>2. CASE p \in r.refs
  <2>1. Alike(r, q) /\ q.refs = r.refs \ {p}
    BY <1>0, HoldersChange
  <2>2. Owned(FALSE) = Mine(p)
    BY <1>0 DEF Owned, Mine
  <2>3. Keeps(st.m, n, p) /\ Freed(st.m, n, p, r.start, r.end)
    BY <1>0, <2>2, FreeIs
  <2>4. ch.m = n /\ ch.rs = T
    BY DEF Changed, Swapped
  <2> HIDE DEF q, n, ch
  <2>5. /\ RangesOK(T) /\ \A pg \in Pages : In(T, pg) <=> In(st.rs, pg)
        /\ \A pg \in Pages : \A u : Sees(T, u, pg) <=>
                                    IF Covers(r, pg) THEN u \in q.refs ELSE Sees(st.rs, u, pg)
    BY <1>0, <2>1, SwappedIs
  <2>6. \A pg \in Pages : \A u : Covers(r, pg) => (Sees(st.rs, u, pg) <=> u \in r.refs)
    <3>1. \A pg \in Pages : \A x \in st.rs : Covers(r, pg) /\ Covers(x, pg) => x = r
        BY <1>0, Alone, PagesAreNat
    <3>2. QED BY <3>1 DEF Sees
  <2> HIDE DEF T
  <2>7. ASSUME NEW u \in Procs, NEW pg \in Pages, SharedStart <= pg
        PROVE  n.ent[u][pg] = IF Sees(T, u, pg) THEN "shared" ELSE "none"
    <3>1. CASE u = p
      <4>1. n.ent[p][pg] = IF Covers(r, pg) THEN "none" ELSE st.m.ent[p][pg]
        BY <2>3 DEF Freed, Covers
      <4>2. st.m.ent[p][pg] = IF Sees(st.rs, p, pg) THEN "shared" ELSE "none"
        BY <1>0, <2>7 DEF EntriesRight
      <4>3. Sees(T, p, pg) <=> ~Covers(r, pg) /\ Sees(st.rs, p, pg)
        BY <2>1, <2>5
      <4>4. QED BY <3>1, <4>1, <4>2, <4>3
    <3>2. CASE u # p
      <4>1. n.ent[u] = st.m.ent[u]
        BY <2>3, <3>2, SpacesAre DEF Keeps, SameBut
      <4>2. Sees(T, u, pg) <=> Sees(st.rs, u, pg)
        BY <2>1, <2>5, <2>6, <3>2
      <4>3. QED BY <1>0, <2>7, <4>1, <4>2 DEF EntriesRight
    <3>3. QED BY <3>1, <3>2
  <2>8. n.ent[Kernel] = st.m.ent[Kernel] /\ n.pds = st.m.pds
    BY <1>0, <2>3, SpacesAre DEF Keeps, SameBut
  <2>9. Good(n, T)
    BY <1>0, <2>3, <2>5, <2>7, <2>8 DEF Good, EntriesRight, Keeps
  <2>10. Outcome(Collected(ch, q), n, After(st.rs, r, q), p)
    <3>1. Good(n, Swapped(st.rs, r, q)) /\ Kernel \in n.pds /\ ch.rs = Swapped(st.rs, r, q)
        BY <2>4, <2>8, <2>9 DEF T
    <3>2. QED BY <1>0, <2>1, <2>4, <3>1, CollectedIs
  <2>11. KeepsTwo(st.m, n, p)
    BY <2>3, TwoKept
  <2>12. Outcome(Collected(ch, q), st.m, After(st.rs, r, q), p)
    BY <2>10, <2>11, TwoKept DEF Outcome
  <2>13. QED BY <1>1, <1>2, <2>12 DEF q
<1>3. CASE p \notin r.refs
  <2>1. KeepsTwo(st.m, st.m, p)
    BY <1>0, TwoKept
  <2>2. QED BY <1>1, <1>3, <2>1 DEF Outcome
<1>4. QED BY <1>2, <1>3

(* plg_shm_map maps all of the range, or nothing. *)
MapDone(c, st, r, p) ==
    /\ c.err \in Errors /\ Keeps(st.m, c.m, p) /\ Good(c.m, c.rs)
    /\ c.rs = IF c.err = "none" THEN Swapped(st.rs, r, MoreRef(r, p)) ELSE st.rs

LEMMA MappedIs ==
    ASSUME NEW st, Good(st.m, st.rs), NEW r \in st.rs, NEW p \in Procs, p \in st.m.pds
    PROVE  MapDone(Mapped(st, r, p), st, r, p)
<1> DEFINE q == MoreRef(r, p)
           k == Copy(st.m, p, Kernel, r.start, r.end)
           c == Mapped(st, r, p)
           T == Swapped(st.rs, r, q)
<1>0. /\ r \in RangeSet /\ RangesOK(st.rs) /\ Sound(st.m) /\ EntriesRight(st.m, st.rs)
      /\ r.start \in Nat /\ r.end \in Nat /\ r.start <= r.end /\ r.end <= NumPages
      /\ p # Kernel /\ p \in Spaces
    BY RangeIs, SpacesAre, PagesAssumption DEF Good
<1>1. CopyDone(st.m, k, p, Kernel, r.start, r.end)
    BY <1>0, SpacesAre, CopyIs
<1>2. c.m = k.m /\ c.err = k.err /\ c.rs = IF k.err = "none" THEN T ELSE st.rs
    BY DEF Mapped, Swapped, MoreRef
<1>3. Alike(r, q) /\ q.refs = r.refs \cup {p}
    BY <1>0, HoldersChange
<1> HIDE DEF k, c, q
<1>4. Keeps(st.m, k.m, p) /\ k.err \in Errors
    BY <1>1 DEF CopyDone, Results
<1>5. k.m.ent[Kernel] = st.m.ent[Kernel] /\ \A u \in Procs \ {p} : k.m.ent[u] = st.m.ent[u]
    BY <1>0, <1>4, SpacesAre DEF Keeps, SameBut
<1>6. CASE k.err = "none"
  <2>1. /\ RangesOK(T) /\ \A pg \in Pages : In(T, pg) <=> In(st.rs, pg)
        /\ \A pg \in Pages : \A u : Sees(T, u, pg) <=>
                                    IF Covers(r, pg) THEN u \in q.refs ELSE Sees(st.rs, u, pg)
    BY <1>0, <1>3, SwappedIs
  <2>2. \A pg \in Pages : \A u : Covers(r, pg) => (Sees(st.rs, u, pg) <=> u \in r.refs)
    <3>1. \A pg \in Pages : \A x \in st.rs : Covers(r, pg) /\ Covers(x, pg) => x = r
        BY <1>0, Alone, PagesAreNat
    <3>2. QED BY <3>1 DEF Sees
  <2> HIDE DEF T
  <2>3. ASSUME NEW u \in Procs, NEW pg \in Pages, SharedStart <= pg
        PROVE  k.m.ent[u][pg] = IF Sees(T, u, pg) THEN "shared" ELSE "none"
    <3>1. CASE u = p
      <4>1. k.m.ent[p][pg] = IF Covers(r, pg) THEN st.m.ent[Kernel][pg] ELSE st.m.ent[p][pg]
        BY <1>1, <1>6 DEF CopyDone, Covers
      <4>2. st.m.ent[p][pg] = IF Sees(st.rs, p, pg) THEN "shared" ELSE "none"
        BY <1>0, <2>3 DEF EntriesRight
      <4>3. Covers(r, pg) => st.m.ent[Kernel][pg] = "shared"
        BY <1>0 DEF EntriesRight, In
      <4>4. Sees(T, p, pg) <=> Covers(r, pg) \/ Sees(st.rs, p, pg)
        BY <1>3, <2>1
      <4>5. QED BY <3>1, <4>1, <4>2, <4>3, <4>4
    <3>2. CASE u # p
      <4>1. Sees(T, u, pg) <=> Sees(st.rs, u, pg)
        BY <1>3, <2>1, <2>2, <3>2
      <4>2. QED BY <1>0, <1>5, <2>3, <3>2, <4>1 DEF EntriesRight
    <3>3. QED BY <3>1, <3>2
  <2>4. Good(k.m, T)
    BY <1>0, <1>4, <1>5, <2>1, <2>3 DEF Good, EntriesRight, Keeps
  <2>5. QED BY <1>2, <1>4, <1>6, <2>4 DEF MapDone, c, T, q
<1>7. CASE k.err # "none"
  <2>1. \A pg \in Pages : k.m.ent[p][pg] = st.m.ent[p][pg]
    BY <1>1, <1>7 DEF CopyDone
  <2>2. EntriesRight(k.m, st.rs)
    BY <1>0, <1>5, <2>1 DEF EntriesRight
  <2>3. Good(k.m, st.rs)
    BY <1>0, <1>4, <2>2 DEF Good, Keeps
  <2>4. QED BY <1>2, <1>4, <1>7, <2>3 DEF MapDone, c
<1>8. QED BY <1>6, <1>7

-----------------------------------------------------------------------------
(* The hook of a reset or a reap *)

(* What the kernel holds stays, and is held as often. *)
Held(rs, r, n) == \E q \in rs : q.start = r.start /\ q.end = r.end /\ q.kernel_refs = n
Kept(rs, rs2) == \A r \in rs : r.kernel_refs > 0 => Held(rs2, r, r.kernel_refs)

Fewer(rs, rs2)     == \A q \in rs2 : \E r \in rs : q.refs \subseteq r.refs
Cleared(rs, p, k)  == \A r \in rs : r.start < k => p \notin r.refs

LEMMA KeptOn ==
    ASSUME NEW rs, NEW rs2, NEW rs3
    PROVE  /\ Kept(rs, rs) /\ Fewer(rs, rs)
           /\ Kept(rs, rs2) /\ Kept(rs2, rs3) => Kept(rs, rs3)
           /\ Fewer(rs, rs2) /\ Fewer(rs2, rs3) => Fewer(rs, rs3)
<1>1. Kept(rs, rs) /\ Fewer(rs, rs)
    BY DEF Kept, Held, Fewer
<1>2. ASSUME Kept(rs, rs2), Kept(rs2, rs3) PROVE Kept(rs, rs3)
  <2>1. SUFFICES ASSUME NEW r \in rs, r.kernel_refs > 0
                 PROVE  Held(rs3, r, r.kernel_refs)
    BY DEF Kept
  <2>2. PICK q \in rs2 : q.start = r.start /\ q.end = r.end /\ q.kernel_refs = r.kernel_refs
    BY <1>2, <2>1 DEF Kept, Held
  <2>3. PICK x \in rs3 : x.start = q.start /\ x.end = q.end /\ x.kernel_refs = q.kernel_refs
    BY <1>2, <2>1, <2>2 DEF Kept, Held
  <2>4. QED BY <2>2, <2>3 DEF Held
<1>3. ASSUME Fewer(rs, rs2), Fewer(rs2, rs3) PROVE Fewer(rs, rs3)
  <2>1. SUFFICES ASSUME NEW x \in rs3 PROVE \E r \in rs : x.refs \subseteq r.refs
    BY DEF Fewer
  <2>2. PICK q \in rs2 : x.refs \subseteq q.refs
    BY <1>3 DEF Fewer
  <2>3. PICK r \in rs : q.refs \subseteq r.refs
    BY <1>3 DEF Fewer
  <2>4. QED BY <2>2, <2>3
<1>4. QED BY <1>1, <1>2, <1>3

(* A range loses the bit of p. *)
LEMMA AfterRef ==
    ASSUME NEW rs, RangesOK(rs), NEW r \in rs, NEW p \in Procs
    PROVE  LET rs2 == After(rs, r, LessRef(r, p))
           IN  /\ Kept(rs, rs2) /\ Fewer(rs, rs2)
               /\ \A x \in rs2 : p \in x.refs => x \in rs /\ x # r
<1> DEFINE q == LessRef(r, p)
           rs2 == After(rs, r, q)
<1>1. /\ Alike(r, q) /\ q.refs = r.refs \ {p} /\ q.kernel_refs = r.kernel_refs
    BY RangeIs, HoldersChange
<1> HIDE DEF q
<1>2. \A x : x \in rs2 <=> (x \in rs /\ x # r) \/ (x = q /\ Holding(q))
    BY DEF After
<1> HIDE DEF rs2
<1>3. Kept(rs, rs2)
  <2>1. SUFFICES ASSUME NEW x \in rs, x.kernel_refs > 0
                 PROVE  Held(rs2, x, x.kernel_refs)
    BY DEF Kept
  <2>2. CASE x = r
    <3>1. q \in rs2
        BY <1>1, <1>2, <2>1, <2>2 DEF Holding
    <3>2. q.start = x.start /\ q.end = x.end /\ q.kernel_refs = x.kernel_refs
        BY <1>1, <2>2 DEF Alike
    <3>3. QED BY <3>1, <3>2 DEF Held
  <2>3. CASE x # r
    BY <1>2, <2>3 DEF Held
  <2>4. QED BY <2>2, <2>3
<1>4. Fewer(rs, rs2)
  <2>1. SUFFICES ASSUME NEW x \in rs2 PROVE \E y \in rs : x.refs \subseteq y.refs
    BY DEF Fewer
  <2>2. x \in rs \/ x = q
    BY <1>2
  <2>3. QED BY <1>1, <2>2
<1>5. \A x \in rs2 : p \in x.refs => x \in rs /\ x # r
    BY <1>1, <1>2
<1>6. QED BY <1>3, <1>4, <1>5 DEF rs2, q

(* The calls give a pair of memory and ranges. *)
States == [m : Memory, rs : SUBSET RangeSet]

LEMMA PairIs ==
    ASSUME NEW st \in States, NEW r, NEW p,
           Unmapped(st, r, p).m \in Memory, Unmapped(st, r, p).rs \subseteq RangeSet
    PROVE  Unmapped(st, r, p) \in States
<1> DEFINE q == [r EXCEPT !.refs = @ \ {p}]
           n == Free(st.m, p, FALSE, r.start, r.end)
           c == Unmapped(st, r, p)
           ch == [m |-> n, rs |-> (st.rs \ {r}) \cup {q}]
           o == Free(n, Kernel, TRUE, q.start, q.end)
           T == ((st.rs \ {r}) \cup {q}) \ {q}
<1>1. c = st \/ c = ch \/ c = [m |-> o, rs |-> T]
    BY DEF Unmapped, Collected, Changed
<1> HIDE DEF c, q, n, o
<1>2. CASE c = st
    BY <1>2 DEF c
<1>3. ASSUME NEW a, NEW b, c = [m |-> a, rs |-> b] PROVE c \in States
  <2>1. a = c.m /\ b = c.rs
    BY <1>3
  <2>2. a \in Memory /\ b \subseteq RangeSet
    BY <2>1 DEF c
  <2>3. QED BY <1>3, <2>2 DEF States
<1> HIDE DEF ch, T
<1>4. CASE c = ch
    BY <1>3, <1>4 DEF ch, c
<1>5. CASE c = [m |-> o, rs |-> T]
    BY <1>3, <1>5 DEF c
<1>6. QED BY <1>1, <1>2, <1>4, <1>5

UnsharedOK(st, x, p, k) ==
    /\ x \in States /\ Good(x.m, x.rs) /\ AllHeld(x.rs) /\ KeepsTwo(st.m, x.m, p)
    /\ Kept(st.rs, x.rs) /\ Fewer(st.rs, x.rs) /\ Cleared(x.rs, p, k)

LEMMA UnsharedRound ==
    ASSUME NEW st, Kernel \in st.m.pds, NEW p \in Procs, NEW k \in Nat,
           NEW x, UnsharedOK(st, x, p, k)
    PROVE  UnsharedOK(st, UnmappedAt(x, k, p), p, k + 1)
<1> DEFINE here == \E r \in x.rs : r.start = k
           r == CHOOSE r \in x.rs : r.start = k
           c == Unmapped(x, r, p)
<1>0. /\ x \in States /\ Good(x.m, x.rs) /\ AllHeld(x.rs) /\ KeepsTwo(st.m, x.m, p)
      /\ Kept(st.rs, x.rs) /\ Fewer(st.rs, x.rs) /\ Cleared(x.rs, p, k)
      /\ RangesOK(x.rs) /\ Kernel \in x.m.pds
    BY DEF UnsharedOK, Good, KeepsTwo
<1>1. UnmappedAt(x, k, p) = IF here THEN c ELSE x
    BY DEF UnmappedAt
<1>2. \A y \in x.rs : y.start \in Nat
    BY <1>0, RangeIs
<1>3. CASE ~here
  <2>1. Cleared(x.rs, p, k + 1)
    <3>1. \A y \in x.rs : y.start < k + 1 => y.start < k
        BY <1>2, <1>3
    <3>2. QED BY <1>0, <3>1 DEF Cleared
  <2>2. QED BY <1>0, <1>1, <1>3, <2>1 DEF UnsharedOK
<1>4. CASE here
  <2>0. r \in x.rs /\ r.start = k
    BY <1>4
  <2> HIDE DEF r
  <2>1. Outcome(c, x.m, IF p \in r.refs THEN After(x.rs, r, LessRef(r, p)) ELSE x.rs, p)
    BY <1>0, <2>0, UnmappedIs
  <2>2. Good(c.m, c.rs) /\ KeepsTwo(x.m, c.m, p)
    BY <2>1 DEF Outcome
  <2>3. c.rs = IF p \in r.refs THEN After(x.rs, r, LessRef(r, p)) ELSE x.rs
    BY <2>1 DEF Outcome
  <2>4. c \in States
    <3>1. c.m \in Memory /\ c.rs \subseteq RangeSet
        BY <2>2 DEF Good, Sound, RangesOK
    <3>2. QED BY <1>0, <3>1, PairIs
  <2>5. KeepsTwo(st.m, c.m, p)
    BY <1>0, <2>2, TwoKept
  <2> HIDE DEF c
  <2>6. /\ AllHeld(c.rs) /\ Kept(x.rs, c.rs) /\ Fewer(x.rs, c.rs)
        /\ \A y \in c.rs : p \in y.refs => y \in x.rs /\ y # r
    <3>1. CASE p \in r.refs
        BY <1>0, <2>0, <2>3, <3>1, AfterHeld, AfterRef
    <3>2. CASE p \notin r.refs
        BY <1>0, <2>3, <3>2, KeptOn
    <3>3. QED BY <3>1, <3>2
  <2>7. Cleared(c.rs, p, k + 1)
    <3>1. SUFFICES ASSUME NEW y \in c.rs, y.start < k + 1, p \in y.refs PROVE FALSE
        BY DEF Cleared
    <3>2. y \in x.rs /\ y # r
        BY <2>6, <3>1
    <3>3. y.start < k \/ y.start = k
        BY <1>2, <3>1, <3>2
    <3>4. QED BY <1>0, <2>0, <3>1, <3>2, <3>3, StartsDiffer DEF Cleared
  <2>8. Kept(st.rs, c.rs) /\ Fewer(st.rs, c.rs)
    BY <1>0, <2>6, KeptOn
  <2>9. UnsharedOK(st, c, p, k + 1)
    BY <2>2, <2>4, <2>5, <2>6, <2>7, <2>8 DEF UnsharedOK
  <2>10. UnmappedAt(x, k, p) = c
    BY <1>1, <1>4 DEF c, r
  <2>11. QED BY <2>9, <2>10
<1>5. QED BY <1>3, <1>4

LEMMA UnsharedIs ==
    ASSUME NEW st \in States, Good(st.m, st.rs), AllHeld(st.rs), Kernel \in st.m.pds,
           NEW p \in Procs
    PROVE  UnsharedOK(st, Unshared(st, p), p, NumPages)
<1> DEFINE n == NumPages
           Round(k, x) == UnmappedAt(x, k - 1, p)
           S == [k \in 0 .. n |-> {x \in States : UnsharedOK(st, x, p, k)}]
           G == [k \in 1 .. n |-> [x \in S[k - 1] |-> Round(k, x)]]
           f == CHOOSE h : h = [k \in 0 .. n |-> IF k = 0 THEN st ELSE Round(k, h[k - 1])]
<1>0. n \in Nat
    BY PagesAssumption
<1>1. Unshared(st, p) = f[n]
    BY DEF Unshared
<1>2. \A k \in 0 .. n : \A x : x \in S[k] <=> UnsharedOK(st, x, p, k)
    BY DEF UnsharedOK
<1>3. st \in S[0]
  <2>1. KeepsTwo(st.m, st.m, p)
    BY TwoKept DEF Good
  <2>2. Kept(st.rs, st.rs) /\ Fewer(st.rs, st.rs)
    BY KeptOn
  <2>3. Cleared(st.rs, p, 0)
    <3>1. \A r \in st.rs : r.start \in Nat
        BY RangeIs DEF Good
    <3>2. QED BY <3>1 DEF Cleared
  <2>4. UnsharedOK(st, st, p, 0)
    BY <2>1, <2>2, <2>3 DEF UnsharedOK
  <2> HIDE DEF S
  <2>5. QED BY <1>0, <1>2, <2>4
<1>4. \A k \in 1 .. n : \A x \in S[k - 1] : Round(k, x) \in S[k]
  <2> TAKE k \in 1 .. n
  <2> TAKE x \in S[k - 1]
  <2> HIDE DEF S, n
  <2>1. UnsharedOK(st, x, p, k - 1) /\ k - 1 \in Nat
    BY <1>0, <1>2
  <2>2. UnsharedOK(st, UnmappedAt(x, k - 1, p), p, (k - 1) + 1)
    BY <2>1, UnsharedRound
  <2>3. (k - 1) + 1 = k
    OBVIOUS
  <2>4. QED BY <1>0, <1>2, <2>2, <2>3
<1>5. \A k \in 1 .. n : \A x \in S[k - 1] : G[k][x] = Round(k, x)
  <2> HIDE DEF S, Round
  <2>1. QED OBVIOUS
<1> HIDE DEF S, G, Round, n
<1>6. PICK g : Rounds(g, S, st, G, n)
    BY <1>0, <1>3, <1>4, <1>5, RoundsExist
<1>7. g = [k \in 0 .. n |-> IF k = 0 THEN st ELSE Round(k, g[k - 1])]
  <2>1. ASSUME NEW k \in 1 .. n PROVE g[k] = Round(k, g[k - 1])
    <3>0. k - 1 \in 0 .. n
        BY <1>0
    <3>1. g[k - 1] \in S[k - 1] /\ g[k] = G[k][g[k - 1]]
        BY <1>6, <3>0, Zenon DEF Rounds
    <3>2. QED BY <1>5, <3>1
  <2>2. g = [k \in 0 .. n |-> g[k]] /\ g[0] = st
    BY <1>6 DEF Rounds
  <2>3. \A k \in 0 .. n : k # 0 => k \in 1 .. n
    BY <1>0
  <2>4. ASSUME NEW k \in 0 .. n PROVE g[k] = IF k = 0 THEN st ELSE Round(k, g[k - 1])
    BY <2>1, <2>2, <2>3
  <2>5. QED BY <2>2, <2>4
<1>8. f = [k \in 0 .. n |-> IF k = 0 THEN st ELSE Round(k, f[k - 1])]
    BY <1>7 DEF f
<1> HIDE DEF f
<1> DEFINE T == {k \in 0 .. n : f[k] \in S[k]}
<1>9. 0 \in T
    BY <1>0, <1>3, <1>8
<1>10. ASSUME NEW k \in 1 .. n, k - 1 \in T PROVE k \in T
  <2>1. f[k - 1] \in S[k - 1] /\ k \in 0 .. n /\ k # 0
    BY <1>0, <1>10
  <2>2. f[k] = Round(k, f[k - 1])
    BY <1>8, <2>1
  <2>3. QED BY <1>4, <2>1, <2>2
<1> HIDE DEF T
<1>11. 0 .. n \subseteq T
    BY <1>0, <1>9, <1>10, Upwards
<1>12. f[n] \in S[n]
    BY <1>0, <1>11 DEF T
<1>13. QED BY <1>0, <1>1, <1>2, <1>12 DEF n

-----------------------------------------------------------------------------
(* A new range *)

LEMMA FirstFitIs ==
    ASSUME RangesOK(ranges), NEW len \in Nat, FirstFit(len) # 0
    PROVE  FirstFit(len) \in Nat /\ SharedStart <= FirstFit(len) /\ Fits(FirstFit(len), len)
<1> DEFINE All == {SharedStart} \cup {r.end : r \in ranges}
           fits == {a \in All : Fits(a, len)}
           first == CHOOSE a \in fits : \A b \in fits : a <= b
<1>1. FirstFit(len) = IF fits = {} THEN 0 ELSE first
    BY DEF FirstFit
<1>2. \A a \in All : a \in Nat /\ SharedStart <= a
  <2>1. \A r \in ranges : r.end \in Nat /\ SharedStart <= r.end
    <3>1. \A r \in ranges : r.start \in Nat /\ r.end \in Nat /\ r.start < r.end /\ SharedStart <= r.start
        BY RangeIs
    <3>2. QED BY <3>1 DEF SharedStart
  <2>2. QED BY <2>1 DEF SharedStart
<1> HIDE DEF All
<1>3. fits # {} /\ fits \subseteq Nat /\ fits \subseteq All
    BY <1>1, <1>2
<1>4. \A a \in fits : Fits(a, len)
    OBVIOUS
<1> HIDE DEF fits
<1>5. \E a \in fits : \A b \in fits : a <= b
    BY <1>3, LeastNat
<1>6. first \in fits
    BY <1>5
<1> HIDE DEF first
<1>7. FirstFit(len) = first
    BY <1>1, <1>3
<1>8. QED BY <1>2, <1>3, <1>4, <1>6, <1>7

NewOK(r) ==
    /\ r \in RangeSet /\ r.kernel_refs = 1 /\ r.refs = {}
    /\ SharedStart <= r.start /\ r.start < r.end /\ r.end <= NumPages
    /\ \A q \in ranges : ~Overlaps(r, q)

LEMMA NewRangeIs ==
    ASSUME RangesOK(ranges), NEW len \in Nat \ {0}, FirstFit(len) # 0
    PROVE  /\ NewOK(NewRange(len)) /\ NewRange(len).start = FirstFit(len)
           /\ NewRange(len).end = FirstFit(len) + len
<1> DEFINE a == FirstFit(len)
<1>1. a \in Nat /\ SharedStart <= a /\ Fits(a, len)
    BY FirstFitIs
<1>2. NewRange(len) = [start |-> a, end |-> a + len, kernel_refs |-> 1, refs |-> {}]
    BY DEF NewRange
<1> HIDE DEF a
<1>3. a + len \in Nat /\ a < a + len /\ a + len <= NumPages
    BY <1>1 DEF Fits
<1>4. \A q \in ranges : ~Overlaps([start |-> a, end |-> a + len], q)
    BY <1>1 DEF Fits
<1>5. \A q \in ranges : ~Overlaps(NewRange(len), q)
    BY <1>2, <1>4 DEF Overlaps
<1>6. NewRange(len) \in RangeSet
    BY <1>1, <1>2, <1>3 DEF RangeSet
<1>7. /\ NewRange(len).start = a /\ NewRange(len).end = a + len
      /\ NewRange(len).kernel_refs = 1 /\ NewRange(len).refs = {}
    BY <1>2
<1>8. QED BY <1>1, <1>3, <1>5, <1>6, <1>7 DEF NewOK, a

(* Its pages are made in the kernel, or all that were are freed again; it  *)
(* never meets one that is there.                                          *)
MadeOK(len) ==
    LET a == Made(len)
        n == Free(a.m, Kernel, TRUE, FirstFit(len), a.at)
    IN  /\ a.err \in {"none", "no_mem"}
        /\ a.err = "none" =>
            Keeps(mem, a.m, Kernel) /\ Good(a.m, ranges \cup {NewRange(len)})
        /\ a.err = "no_mem" => Keeps(mem, n, Kernel) /\ Good(n, ranges)

LEMMA MadeIs ==
    ASSUME Good(mem, ranges), Kernel \in mem.pds, NEW len \in Nat \ {0}, FirstFit(len) # 0
    PROVE  MadeOK(len)
<1> DEFINE r == NewRange(len)
           a == Made(len)
           from == FirstFit(len)
           to == FirstFit(len) + len
           n == Free(a.m, Kernel, TRUE, from, a.at)
<1>0. RangesOK(ranges) /\ Sound(mem) /\ EntriesRight(mem, ranges)
    BY DEF Good
<1>1. NewOK(r) /\ r.start = from /\ r.end = to
    BY <1>0, NewRangeIs
<1>2. /\ from \in Nat /\ to \in Nat /\ from <= to /\ to <= NumPages
    BY <1>1 DEF NewOK, RangeSet
<1>3. /\ RangesOK(ranges \cup {r})
      /\ \A pg \in Pages : In(ranges \cup {r}, pg) <=> In(ranges, pg) \/ Covers(r, pg)
      /\ \A pg \in Pages : \A p : Sees(ranges \cup {r}, p, pg) <=> Sees(ranges, p, pg)
      /\ \A pg \in Pages : Covers(r, pg) => ~In(ranges, pg)
    BY <1>0, <1>1, AddedIs DEF NewOK
<1>4. "shared" \in Kinds /\ "shared" \in Mine(Kernel) /\ Owned(TRUE) = Mine(Kernel)
    BY DEF Kinds, Mine, Owned
<1>5. a = Alloc(mem, Kernel, "shared", from, to)
    BY DEF Made
<1> HIDE DEF r, a, from, to
<1>6. AllocOK(mem, a, Kernel, "shared", from, to - from)
    BY <1>0, <1>2, <1>4, <1>5, AllocIs
<1>7. /\ a \in Results /\ Keeps(mem, a.m, Kernel) /\ a.at \in Nat /\ from <= a.at /\ a.at <= to
      /\ a.err = "none" => a.at = to
      /\ a.err # "none" => a.at < to
      /\ a.err = "already" => Present(mem, Kernel, a.at)
      /\ a.err \in Errors
    BY <1>2, <1>6 DEF AllocOK, Filled, Results
<1>8. \A pg \in Pages : a.m.ent[Kernel][pg] =
            IF from <= pg /\ pg < a.at THEN "shared" ELSE mem.ent[Kernel][pg]
    BY <1>6 DEF AllocOK, Filled
<1>9. \A u \in Procs : a.m.ent[u] = mem.ent[u]
    BY <1>7, SpacesAre DEF Keeps, SameBut
<1>10. a.err # "already"
  <2>1. SUFFICES ASSUME a.err = "already" PROVE FALSE
    OBVIOUS
  <2>2. a.at \in Pages /\ Covers(r, a.at)
    BY <1>1, <1>2, <1>7, <2>1, PagesAssumption DEF Pages, Covers
  <2>3. mem.ent[Kernel][a.at] = "none"
    BY <1>0, <1>3, <2>2 DEF EntriesRight
  <2>4. QED BY <1>7, <2>1, <2>3 DEF Present
<1>11. ASSUME a.err = "none" PROVE Keeps(mem, a.m, Kernel) /\ Good(a.m, ranges \cup {r})
  <2>1. ASSUME NEW pg \in Pages
        PROVE  a.m.ent[Kernel][pg] = IF In(ranges \cup {r}, pg) THEN "shared" ELSE "none"
    <3>1. a.m.ent[Kernel][pg] = IF Covers(r, pg) THEN "shared" ELSE mem.ent[Kernel][pg]
        BY <1>1, <1>7, <1>8, <1>11 DEF Covers
    <3>2. mem.ent[Kernel][pg] = IF In(ranges, pg) THEN "shared" ELSE "none"
        BY <1>0 DEF EntriesRight
    <3>3. In(ranges \cup {r}, pg) <=> In(ranges, pg) \/ Covers(r, pg)
        BY <1>3
    <3>4. QED BY <3>1, <3>2, <3>3
  <2>2. ASSUME NEW u \in Procs, NEW pg \in Pages, SharedStart <= pg
        PROVE  a.m.ent[u][pg] = IF Sees(ranges \cup {r}, u, pg) THEN "shared" ELSE "none"
    BY <1>0, <1>3, <1>9, <2>2 DEF EntriesRight
  <2>3. EntriesRight(a.m, ranges \cup {r})
    BY <2>1, <2>2 DEF EntriesRight
  <2>4. QED BY <1>3, <1>7, <2>3 DEF Good, Keeps
<1>12. ASSUME a.err = "no_mem" PROVE Keeps(mem, n, Kernel) /\ Good(n, ranges)
  <2>1. Sound(a.m)
    BY <1>7 DEF Keeps
  <2>2. Keeps(a.m, n, Kernel) /\ Freed(a.m, n, Kernel, from, a.at)
    BY <1>2, <1>4, <1>7, <2>1, SpacesAre, FreeIs
  <2> HIDE DEF n
  <2>3. Keeps(mem, n, Kernel)
    BY <1>7, <2>2, KeepsOn
  <2>4. ASSUME NEW pg \in Pages PROVE n.ent[Kernel][pg] = mem.ent[Kernel][pg]
    <3>1. n.ent[Kernel][pg] = IF from <= pg /\ pg < a.at THEN "none" ELSE a.m.ent[Kernel][pg]
        BY <2>2 DEF Freed
    <3>2. CASE from <= pg /\ pg < a.at
      <4>1. Covers(r, pg)
        BY <1>1, <1>2, <1>7, <3>2, PagesAreNat DEF Covers
      <4>2. mem.ent[Kernel][pg] = "none"
        BY <1>0, <1>3, <4>1 DEF EntriesRight
      <4>3. QED BY <3>1, <3>2, <4>2
    <3>3. CASE ~(from <= pg /\ pg < a.at)
        BY <1>8, <3>1, <3>3
    <3>4. QED BY <3>2, <3>3
  <2>5. \A u \in Procs : n.ent[u] = mem.ent[u]
    BY <2>3, SpacesAre DEF Keeps, SameBut
  <2>6. EntriesRight(n, ranges)
    BY <1>0, <2>4, <2>5 DEF EntriesRight
  <2>7. QED BY <1>0, <2>3, <2>6 DEF Good, Keeps
<1>13. a.err \in {"none", "no_mem"}
    BY <1>7, <1>10 DEF Errors
<1>14. QED BY <1>11, <1>12, <1>13 DEF MadeOK, a, r, n, from

(* The ranges after a fork of p into c. *)
LEMMA InheritedIs ==
    ASSUME RangesOK(ranges), NEW p \in Procs, NEW c \in Procs, \A r \in ranges : c \notin r.refs
    PROVE  LET T == Inherited(p, c)
           IN  /\ RangesOK(T) /\ (AllHeld(ranges) => AllHeld(T)) /\ Kept(ranges, T)
               /\ \A pg \in Pages : In(T, pg) <=> In(ranges, pg)
               /\ \A pg \in Pages : \A u \in Procs :
                    Sees(T, u, pg) <=> Sees(ranges, IF u = c THEN p ELSE u, pg)
               /\ \A q \in T : \E r \in ranges : q.refs \subseteq r.refs \cup {c}
<1> DEFINE E(r) == IF p \in r.refs THEN [r EXCEPT !.refs = @ \cup {c}] ELSE r
           T == Inherited(p, c)
<1>1. ASSUME NEW r \in ranges
      PROVE  /\ E(r) \in RangeSet /\ E(r).start = r.start /\ E(r).end = r.end
             /\ E(r).kernel_refs = r.kernel_refs
             /\ E(r).refs = IF p \in r.refs THEN r.refs \cup {c} ELSE r.refs
    BY RangeIs DEF RangeSet
<1>2. T = {E(r) : r \in ranges}
    BY DEF Inherited
<1> HIDE DEF E, T
<1>3. /\ \A q \in T : \E r \in ranges : q = E(r)
      /\ \A r \in ranges : E(r) \in T
    BY <1>2
<1>4. RangesOK(T)
  <2>1. T \subseteq RangeSet
    BY <1>1, <1>3
  <2>2. \A q \in T : SharedStart <= q.start /\ q.start < q.end /\ q.end <= NumPages
    BY <1>1, <1>3 DEF RangesOK
  <2>3. ASSUME NEW x \in T, NEW y \in T, x # y PROVE ~Overlaps(x, y)
    <3>1. PICK r \in ranges : x = E(r)
        BY <1>3
    <3>2. PICK q \in ranges : y = E(q)
        BY <1>3
    <3>3. r # q
        BY <2>3, <3>1, <3>2
    <3>4. ~Overlaps(r, q)
        BY <3>3 DEF RangesOK
    <3>5. QED BY <1>1, <3>1, <3>2, <3>4 DEF Overlaps
  <2>4. QED BY <2>1, <2>2, <2>3 DEF RangesOK
<1>5. AllHeld(ranges) => AllHeld(T)
  <2>1. \A r \in ranges : Holding(r) => Holding(E(r))
    BY <1>1 DEF Holding
  <2>2. QED BY <1>3, <2>1 DEF AllHeld
<1>6. Kept(ranges, T)
    BY <1>1, <1>3 DEF Kept, Held
<1>7. \A pg : \A r \in ranges : Covers(E(r), pg) <=> Covers(r, pg)
    BY <1>1 DEF Covers
<1>8. \A pg \in Pages : In(T, pg) <=> In(ranges, pg)
    BY <1>3, <1>7 DEF In
<1>9. ASSUME NEW pg \in Pages, NEW u \in Procs
      PROVE  Sees(T, u, pg) <=> Sees(ranges, IF u = c THEN p ELSE u, pg)
  <2>1. Sees(T, u, pg) <=> \E r \in ranges : Covers(r, pg) /\ u \in E(r).refs
    BY <1>3, <1>7 DEF Sees
  <2>2. \A r \in ranges : u \in E(r).refs <=> (IF u = c THEN p ELSE u) \in r.refs
    BY <1>1
  <2>3. QED BY <2>1, <2>2 DEF Sees
<1>10. \A q \in T : \E r \in ranges : q.refs \subseteq r.refs \cup {c}
    BY <1>1, <1>3
<1>11. QED BY <1>4, <1>5, <1>6, <1>8, <1>9, <1>10 DEF T

(* new_user_app_pd *)
ImageOK(m, im) ==
    /\ im.err \in Errors /\ Rest(m, im.m, Staging)
    /\ im.err = "none" => /\ im.m.pds = m.pds \cup {Staging}
                          /\ \A pg \in Pages : SharedStart <= pg =>
                                im.m.ent[Staging][pg] = m.ent[Template][pg]
    /\ im.err # "none" => im.m.pds = m.pds

LEMMA ImageIs ==
    ASSUME Sound(mem), Staging \notin mem.pds
    PROVE  ImageOK(mem, Image)
<1> DEFINE copy == CopyDirectory(mem, Staging, Template)
           r == Alloc(copy.m, Staging, "unique", Heap, Heap + 1)
           im == Image
<1>0. im = IF copy.err # "none" THEN copy
           ELSE IF r.err = "none" THEN r ELSE [r EXCEPT !.m = DeleteDirectory(r.m, Staging)]
    BY DEF Image
<1> HIDE DEF im
<1>1. DirectoryDone(mem, copy, Staging, Template)
    BY SpacesAre, CopyDirectoryIs
<1> HIDE DEF copy
<1>2. copy \in Results /\ Rest(mem, copy.m, Staging) /\ Sound(copy.m) /\ copy.err \in Errors
    BY <1>1 DEF DirectoryDone, Rest, Results
<1>3. CASE copy.err # "none"
  <2>1. im = copy /\ copy.m.pds = mem.pds
    BY <1>0, <1>1, <1>3 DEF DirectoryDone
  <2>2. QED BY <1>2, <1>3, <2>1 DEF ImageOK, im
<1>4. CASE copy.err = "none"
  <2>1. /\ copy.m.pds = mem.pds \cup {Staging}
        /\ \A pg \in Pages : copy.m.ent[Staging][pg] = mem.ent[Template][pg]
    BY <1>1, <1>4 DEF DirectoryDone
  <2>2. "unique" \in Kinds /\ "unique" \in Mine(Staging) /\ Heap + 1 <= NumPages
    BY SpacesAssumption, PagesAssumption DEF Kinds, Mine, Heap, SharedStart
  <2>3. AllocOK(copy.m, r, Staging, "unique", Heap, (Heap + 1) - Heap)
    <3>1. Heap \in Nat /\ Heap + 1 \in Nat /\ Heap <= Heap + 1
        BY DEF Heap
    <3>2. Staging \in copy.m.pds
        BY <2>1
    <3> DEFINE a == Heap
               b == Heap + 1
    <3>3. /\ a \in Nat /\ b \in Nat /\ a <= b /\ b <= NumPages
        BY <2>2, <3>1
    <3> HIDE DEF a, b
    <3>4. AllocOK(copy.m, Alloc(copy.m, Staging, "unique", a, b), Staging, "unique", a, b - a)
        BY <1>2, <2>2, <3>2, <3>3, AllocIs
    <3>5. QED BY <3>4 DEF a, b
  <2> HIDE DEF r
  <2>4. r \in Results /\ Filled(copy.m, r.m, Staging, "unique", Heap, r.at) /\ r.at <= 2
        /\ r.err \in Errors
    <3>1. r \in Results /\ Filled(copy.m, r.m, Staging, "unique", Heap, r.at)
          /\ r.at \in Heap .. Heap + ((Heap + 1) - Heap)
        BY <2>3 DEF AllocOK
    <3>2. r.at <= 2
        BY <3>1 DEF Heap
    <3>3. QED BY <3>1, <3>2 DEF Results
  <2>5. Keeps(copy.m, r.m, Staging) /\ Rest(mem, r.m, Staging) /\ r.m.pds = copy.m.pds
        /\ Sound(r.m)
    <3>1. Keeps(copy.m, r.m, Staging)
        BY <2>4 DEF Filled
    <3>2. Rest(copy.m, r.m, Staging)
        BY <3>1, RestOn
    <3>3. Rest(mem, r.m, Staging)
        BY <1>2, <3>2, RestOn
    <3>4. QED BY <3>1, <3>3 DEF Keeps, SameBut
  <2>6. CASE r.err = "none"
    <3>1. im = r
        BY <1>0, <1>4, <2>6
    <3>2. ASSUME NEW pg \in Pages, SharedStart <= pg
          PROVE  r.m.ent[Staging][pg] = mem.ent[Template][pg]
      <4>1. ~(pg < r.at)
        <5>1. r.at \in Nat /\ pg \in Nat
            BY <2>4, PagesAreNat DEF Results
        <5>2. QED BY <2>4, <3>2, <5>1 DEF SharedStart
      <4>2. r.m.ent[Staging][pg] = copy.m.ent[Staging][pg]
        BY <2>4, <4>1 DEF Filled
      <4>3. QED BY <2>1, <4>2
    <3>3. ImageOK(mem, r)
        BY <2>1, <2>4, <2>5, <2>6, <3>2 DEF ImageOK
    <3>4. QED BY <3>1, <3>3 DEF im
  <2>7. CASE r.err # "none"
    <3> DEFINE o == DeleteDirectory(r.m, Staging)
    <3>1. Rest(r.m, o, Staging) /\ o.pds = r.m.pds \ {Staging}
        BY <2>1, <2>5, SpacesAre, DeleteDirectoryIs
    <3>2. im = [r EXCEPT !.m = o]
        BY <1>0, <1>4, <2>7
    <3> HIDE DEF o
    <3>3. im.m = o /\ im.err = r.err
        BY <2>4, <3>2 DEF Results
    <3>4. Rest(mem, o, Staging) /\ o.pds = mem.pds
        BY <2>1, <2>5, <3>1, RestOn
    <3>5. ImageOK(mem, im)
        BY <2>4, <2>7, <3>3, <3>4 DEF ImageOK
    <3>6. QED BY <3>5 DEF im
  <2>8. QED BY <2>6, <2>7
<1>5. QED BY <1>3, <1>4

-----------------------------------------------------------------------------
(* The invariant *)

Owners(ps) == {Kernel, Template} \cup {p \in Procs : ps[p] # "free"}

InvOf(m, ps, rs) ==
    /\ Good(m, rs) /\ AllHeld(rs) /\ Frames(m) = NumFree + 6
    /\ ps \in [Procs -> {"free", "live", "zombie"}] /\ m.pds = Owners(ps)
    /\ \A pg \in Pages : SharedStart <= pg => m.ent[Template][pg] = "none"
    /\ \A r \in rs : \A p \in r.refs : ps[p] # "free"

MemInv == InvOf(mem, pst, ranges) /\ fatal = FALSE

(* Who has a directory. *)
LEMMA OwnersAre ==
    ASSUME NEW m, NEW ps, NEW rs, InvOf(m, ps, rs)
    PROVE  /\ Kernel \in m.pds /\ Template \in m.pds /\ Staging \notin m.pds
           /\ \A p \in Procs : p \in m.pds <=> ps[p] # "free"
           /\ Good(m, rs) /\ Sound(m) /\ RangesOK(rs) /\ EntriesRight(m, rs) /\ AllHeld(rs)
BY SpacesAre DEF InvOf, Owners, Good

(* What is not mapped for ranges may change. *)
LEMMA GoodStays ==
    ASSUME NEW m, NEW n, NEW rs, Good(m, rs), Sound(n), n.ent[Kernel] = m.ent[Kernel],
           \A u \in Procs : \A pg \in Pages :
                SharedStart <= pg => n.ent[u][pg] = m.ent[u][pg]
    PROVE  Good(n, rs)
BY DEF Good, EntriesRight

LEMMA PrivateOK ==
    ASSUME NEW m, NEW n, NEW ps, NEW rs, InvOf(m, ps, rs), NEW p \in Procs, Keeps(m, n, p),
           \A pg \in Pages : SharedStart <= pg => n.ent[p][pg] = m.ent[p][pg]
    PROVE  InvOf(n, ps, rs)
<1>1. /\ n.ent[Kernel] = m.ent[Kernel] /\ n.ent[Template] = m.ent[Template]
      /\ \A u \in Procs \ {p} : n.ent[u] = m.ent[u]
      /\ n.pds = m.pds /\ Frames(n) = Frames(m) /\ Sound(n)
    BY SpacesAre DEF Keeps, SameBut
<1>2. Good(m, rs)
    BY DEF InvOf
<1>3. Good(n, rs)
    BY <1>1, <1>2, GoodStays
<1>4. QED BY <1>1, <1>3 DEF InvOf

LEMMA RangesStep ==
    ASSUME NEW m, NEW n, NEW ps, NEW rs, NEW rs2, InvOf(m, ps, rs), NEW p \in Procs,
           KeepsTwo(m, n, p), Good(n, rs2), AllHeld(rs2),
           \A r \in rs2 : \A u \in r.refs : ps[u] # "free"
    PROVE  InvOf(n, ps, rs2)
<1>1. n.ent[Template] = m.ent[Template] /\ n.pds = m.pds /\ Frames(n) = Frames(m)
    BY SpacesAre DEF KeepsTwo
<1>2. QED BY <1>1 DEF InvOf

LEMMA FewerRefs ==
    ASSUME NEW m, NEW ps, NEW rs, InvOf(m, ps, rs), NEW rs2, Fewer(rs, rs2)
    PROVE  \A r \in rs2 : \A u \in r.refs : ps[u] # "free"
BY DEF InvOf, Fewer

(* What each action shows. *)
StepOK == InvOf(mem', pst', ranges') /\ fatal' = FALSE /\ HeldRangesStay

(* What a step that is not the kernel's shows. *)
LEMMA HeldStay ==
    ASSUME Kept(ranges, ranges')
    PROVE  HeldRangesStay
BY DEF Kept, Held, HeldRangesStay, StaysHeld

LEMMA NothingLost ==
    ASSUME ranges' = ranges
    PROVE  HeldRangesStay
<1>1. Kept(ranges, ranges)
    BY KeptOn
<1>2. QED BY <1>1, HeldStay

LEMMA InitOK == MemInit => MemInv
<1> SUFFICES ASSUME MemInit PROVE MemInv
    OBVIOUS
<1> DEFINE tabs == [s \in Spaces |-> IF s \in {Template, First} THEN {0} ELSE {}]
           ent  == [s \in Spaces |-> [pg \in Pages |-> Mapped0(s, pg)]]
           pds  == {Kernel, Template, First}
           m == [free |-> NumFree, pds |-> pds, tabs |-> tabs, ent |-> ent]
<1>0. /\ First \in Procs /\ First \in Spaces /\ First # Kernel /\ First # Template
      /\ NumFree \in Nat /\ NumPages \in Nat /\ NumPages > 3
      /\ TableSize \in Nat \ {0} /\ TableSize > 1
    BY SpacesAre, SpacesAssumption, PagesAssumption DEF SharedStart, Heap
<1>1. 0 \in Pages /\ 1 \in Pages /\ Table(0) = 0 /\ Table(1) = 0 /\ 0 \in Tables
  <2>1. 0 \in Pages /\ 1 \in Pages
    BY <1>0 DEF Pages
  <2>2. Table(0) = 0
    BY <1>0 DEF Table
  <2>3. Table(1) = 0
    <3>1. /\ 1 % TableSize \in 0 .. TableSize - 1 /\ 1 \div TableSize \in Int
          /\ 1 = TableSize * (1 \div TableSize) + (1 % TableSize)
        BY <1>0, DivMod
    <3>2. 1 \div TableSize \in Nat
        BY <2>1, PagesAreNat DEF Table
    <3>3. 1 \div TableSize >= 1 => TableSize * (1 \div TableSize) >= TableSize
        BY <1>0, <3>1, AtLeastOnce
    <3>4. ~(1 \div TableSize >= 1)
      <4> DEFINE x == TableSize * (1 \div TableSize)
      <4>1. x \in Int
        BY <1>0, <3>1, <3>2
      <4> HIDE DEF x
      <4>2. x + (1 % TableSize) = 1
        BY <3>1 DEF x
      <4>3. x <= 1
        BY <1>0, <3>1, <4>1, <4>2
      <4>4. QED BY <1>0, <3>3, <4>1, <4>3 DEF x
    <3>5. QED BY <3>2, <3>4 DEF Table
  <2>4. QED BY <2>1, <2>2, <2>3 DEF Tables
<1>2. mem = m /\ pst = [p \in Procs |-> IF p = First THEN "live" ELSE "free"]
      /\ ranges = {} /\ fatal = FALSE
    BY DEF MemInit
<1>3. tabs \in [Spaces -> SUBSET Tables] /\ ent \in [Spaces -> [Pages -> Kinds]]
      /\ pds \in SUBSET Spaces
    BY <1>0, <1>1, SpacesAre DEF Mapped0, Kinds
<1>4. m \in Memory
    BY <1>0, <1>3 DEF Memory
<1>5. /\ \A s \in Spaces : tabs[s] = IF s \in {Template, First} THEN {0} ELSE {}
      /\ \A s \in Spaces : \A pg \in Pages : ent[s][pg] = Mapped0(s, pg)
    OBVIOUS
<1>6. m.free = NumFree /\ m.pds = pds /\ m.tabs = tabs /\ m.ent = ent
    OBVIOUS
<1> HIDE DEF tabs, ent, m
<1>7. WellFormed(m)
  <2>1. ASSUME NEW s \in Spaces, NEW pg \in Pages, Present(m, s, pg)
        PROVE  Table(pg) \in m.tabs[s]
    <3>1. s \in {Template, First} /\ pg \in {0, 1}
        BY <1>5, <1>6, <2>1 DEF Present, Mapped0, Heap
    <3>2. QED BY <1>1, <1>5, <1>6, <3>1
  <2>2. \A s \in Spaces : m.tabs[s] # {} => s \in m.pds
    BY <1>5, <1>6
  <2>3. QED BY <2>1, <2>2 DEF WellFormed
<1>8. Cardinality(m.pds) = 3
  <2>1. Cardinality({Kernel}) = 1 /\ IsFiniteSet({Kernel})
    BY FS_Singleton
  <2>2. Cardinality({Kernel} \cup {Template}) = 2 /\ IsFiniteSet({Kernel} \cup {Template})
    <3>1. Template \notin {Kernel}
        BY SpacesAre
    <3>2. /\ Cardinality({Kernel} \cup {Template}) = Cardinality({Kernel}) + 1
          /\ IsFiniteSet({Kernel} \cup {Template})
        BY <2>1, <3>1, FS_AddElement
    <3>3. QED BY <2>1, <3>2
  <2>3. Cardinality(({Kernel} \cup {Template}) \cup {First}) = 3
    BY <1>0, <2>2, FS_AddElement
  <2>4. m.pds = ({Kernel} \cup {Template}) \cup {First}
    BY <1>6
  <2>5. QED BY <2>3, <2>4
<1>9. Cardinality(TablesOf(m)) = 2
  <2> DEFINE a == <<Template, 0>>
             b == <<First, 0>>
  <2>1. TablesOf(m) = {a} \cup {b}
    BY <1>0, <1>1, <1>5, <1>6, SpacesAre DEF TablesOf
  <2>2. Cardinality({a}) = 1 /\ IsFiniteSet({a})
    BY FS_Singleton
  <2>3. b \notin {a}
    BY <1>0
  <2> HIDE DEF a, b
  <2>4. Cardinality({a} \cup {b}) = 2
    BY <2>2, <2>3, FS_AddElement
  <2>5. QED BY <2>1, <2>4
<1>10. Cardinality(PagesHeld(m, Kernel)) = 1
  <2>1. \A s \in Spaces : \A pg \in Pages :
            /\ m.ent[s][pg] # "shared"
            /\ m.ent[s][pg] = "unique" <=> s = First /\ pg = 1
    BY <1>0, <1>5, <1>6 DEF Mapped0, Heap
  <2>2. PagesHeld(m, Kernel) = {<<First, 1>>}
    BY <1>0, <1>1, <2>1 DEF PagesHeld
  <2>3. QED BY <2>2, FS_Singleton
<1>11. Frames(m) = NumFree + 6
    BY <1>0, <1>6, <1>8, <1>9, <1>10 DEF Frames, InUse
<1>12. \A s \in Spaces : \A pg \in Pages : SharedStart <= pg => m.ent[s][pg] = "none"
    BY <1>5, <1>6 DEF Mapped0, SharedStart, Heap
<1>13. \A pg \in Pages : m.ent[Kernel][pg] = "none"
    BY <1>0, <1>5, <1>6, SpacesAre DEF Mapped0
<1>14. Good(m, {})
    BY <1>4, <1>7, <1>12, <1>13, SpacesAre DEF Good, Sound, RangesOK, EntriesRight, In, Sees
<1>15. pst \in [Procs -> {"free", "live", "zombie"}] /\ m.pds = Owners(pst)
    BY <1>0, <1>2, <1>6 DEF Owners
<1>16. QED BY <1>2, <1>11, <1>12, <1>14, <1>15, SpacesAre DEF MemInv, InvOf, AllHeld

-----------------------------------------------------------------------------
(* The actions *)

LEMMA RequestMemOK ==
    ASSUME MemInv, NEW p \in Procs, NEW pg \in {Heap, Stack}, RequestMem(p, pg)
    PROVE  StepOK
<1> DEFINE n == Alloc(mem, p, "unique", pg, pg + 1).m
<1>1. /\ mem' = n /\ pst' = pst /\ ranges' = ranges /\ fatal' = FALSE /\ pst[p] = "live"
      /\ InvOf(mem, pst, ranges) /\ p # Kernel /\ p \in Spaces
    BY SpacesAre DEF RequestMem, Lives, MemInv
<1>2. /\ pg \in Nat /\ pg + 1 \in Nat /\ pg <= pg + 1 /\ pg + 1 <= NumPages
      /\ pg + 1 <= SharedStart /\ pg + ((pg + 1) - pg) <= SharedStart
    BY SpacesAssumption, PagesAssumption DEF Heap, Stack, SharedStart
<1>3. Sound(mem) /\ p \in mem.pds
    BY <1>1, OwnersAre
<1>4. "unique" \in Kinds /\ "unique" \in Mine(p)
    BY DEF Kinds, Mine
<1> DEFINE to == pg + 1
           r == Alloc(mem, p, "unique", pg, to)
<1>5. AllocOK(mem, r, p, "unique", pg, to - pg)
  <2> HIDE DEF r
  <2> DEFINE x == to
  <2>1. x \in Nat /\ pg <= x /\ x <= NumPages
    BY <1>2
  <2> HIDE DEF x
  <2>2. AllocOK(mem, Alloc(mem, p, "unique", pg, x), p, "unique", pg, x - pg)
    BY <1>2, <1>3, <1>4, <2>1, AllocIs
  <2>3. QED BY <2>2 DEF x, r
<1> HIDE DEF r
<1>6. Keeps(mem, r.m, p) /\ r.at \in pg .. pg + ((pg + 1) - pg)
      /\ \A x \in Pages : r.m.ent[p][x] = IF pg <= x /\ x < r.at THEN "unique" ELSE mem.ent[p][x]
    BY <1>5 DEF AllocOK, Filled
<1>7. \A x \in Pages : SharedStart <= x => r.m.ent[p][x] = mem.ent[p][x]
  <2>1. r.at \in Nat /\ r.at <= SharedStart
    <3>1. r.at \in pg .. pg + ((pg + 1) - pg)
        BY <1>6, Zenon
    <3>2. pg \in {1, 2}
        BY DEF Heap, Stack
    <3>3. pg = 1 => r.at \in 1 .. 2
        BY <3>1
    <3>4. pg = 2 => r.at \in 2 .. 3
        BY <3>1
    <3>5. QED BY <3>2, <3>3, <3>4 DEF SharedStart
  <2>2. \A x \in Pages : SharedStart <= x => ~(x < r.at)
    BY <2>1, PagesAreNat DEF SharedStart
  <2>3. QED BY <1>6, <2>2
<1>8. InvOf(r.m, pst, ranges)
    BY <1>1, <1>6, <1>7, PrivateOK
<1>9. mem' = r.m
    BY <1>1 DEF r
<1>10. QED BY <1>1, <1>8, <1>9, NothingLost DEF StepOK

LEMMA ReturnMemOK ==
    ASSUME MemInv, NEW p \in Procs, NEW pg \in {Heap, Stack}, ReturnMem(p, pg)
    PROVE  StepOK
<1> DEFINE n == Free(mem, p, FALSE, pg, pg + 1)
<1>1. /\ mem' = n /\ pst' = pst /\ ranges' = ranges /\ fatal' = FALSE /\ pst[p] = "live"
      /\ InvOf(mem, pst, ranges) /\ p # Kernel /\ p \in Spaces
    BY SpacesAre DEF ReturnMem, Lives, MemInv
<1>2. pg \in Nat /\ pg + 1 \in Nat /\ pg + 1 <= SharedStart
    BY DEF Heap, Stack, SharedStart
<1>3. Sound(mem) /\ p \in mem.pds
    BY <1>1, OwnersAre
<1>4. Owned(FALSE) = Mine(p)
    BY <1>1 DEF Owned, Mine
<1>5. Keeps(mem, n, p) /\ Freed(mem, n, p, pg, pg + 1)
    BY <1>1, <1>2, <1>3, <1>4, FreeIs
<1> HIDE DEF n
<1>6. \A x \in Pages : SharedStart <= x => n.ent[p][x] = mem.ent[p][x]
  <2>1. \A x \in Pages : SharedStart <= x => ~(x < pg + 1)
    BY <1>2, PagesAreNat DEF SharedStart
  <2>2. QED BY <1>5, <2>1 DEF Freed
<1>7. InvOf(n, pst, ranges)
    BY <1>1, <1>5, <1>6, PrivateOK
<1>8. QED BY <1>1, <1>7, NothingLost DEF StepOK, n

LEMMA ExitOK ==
    ASSUME MemInv, NEW p \in Procs, Exit(p)
    PROVE  StepOK
<1>1. /\ mem' = mem /\ ranges' = ranges /\ fatal' = FALSE /\ pst[p] = "live"
      /\ pst' = [pst EXCEPT ![p] = "zombie"] /\ InvOf(mem, pst, ranges)
    BY DEF Exit, Lives, MemInv
<1>2. pst \in [Procs -> {"free", "live", "zombie"}]
    BY <1>1 DEF InvOf
<1>3. /\ pst' \in [Procs -> {"free", "live", "zombie"}]
      /\ \A q \in Procs : pst'[q] # "free" <=> pst[q] # "free"
    BY <1>1, <1>2
<1>4. Owners(pst') = Owners(pst)
    BY <1>3 DEF Owners
<1>5. \A r \in ranges : r.refs \subseteq Procs
    BY <1>1, OwnersAre, RangeIs
<1>6. InvOf(mem', pst', ranges')
    BY <1>1, <1>3, <1>4, <1>5 DEF InvOf
<1>7. QED BY <1>1, <1>6, NothingLost DEF StepOK

LEMMA KernelIncOK ==
    ASSUME MemInv, NEW r \in ranges, KernelInc(r)
    PROVE  StepOK
<1> DEFINE q == [r EXCEPT !.kernel_refs = @ + 1]
<1>1. /\ mem' = mem /\ pst' = pst /\ fatal' = FALSE /\ ranges' = Swapped(ranges, r, q)
      /\ InvOf(mem, pst, ranges)
    BY DEF KernelInc, MemInv, Swapped
<1>2. RangesOK(ranges) /\ Good(mem, ranges) /\ AllHeld(ranges) /\ Sound(mem)
    BY <1>1, OwnersAre
<1>3. r \in RangeSet
    BY <1>2, RangeIs
<1>4. Alike(r, q) /\ q.refs = r.refs /\ q.kernel_refs = r.kernel_refs + 1
    BY <1>3 DEF Alike, RangeSet
<1> HIDE DEF q
<1>5. Good(mem, Swapped(ranges, r, q))
    BY <1>2, <1>4, SeenAlike
<1>6. r.kernel_refs \in Nat
    BY <1>3 DEF RangeSet
<1>7. AllHeld(Swapped(ranges, r, q))
    BY <1>2, <1>4, <1>6 DEF AllHeld, Holding, Swapped
<1>8. Fewer(ranges, Swapped(ranges, r, q))
    BY <1>4 DEF Fewer, Swapped
<1>9. HeldRangesStay
  <2>1. ASSUME NEW x \in ranges, x = r PROVE KernelInc(x) /\ StaysHeld(x, x.kernel_refs + 1)
    <3>1. q \in ranges' /\ q.start = x.start /\ q.end = x.end /\ q.kernel_refs = x.kernel_refs + 1
        BY <1>1, <1>4, <2>1 DEF Swapped, Alike
    <3>2. QED BY <2>1, <3>1 DEF StaysHeld
  <2>2. ASSUME NEW x \in ranges, x # r PROVE StaysHeld(x, x.kernel_refs)
    BY <1>1, <2>2 DEF Swapped, StaysHeld
  <2>3. QED BY <2>1, <2>2 DEF HeldRangesStay
<1>10. InvOf(mem, pst, Swapped(ranges, r, q))
  <2>1. PICK p \in Procs : TRUE
    BY SpacesAssumption
  <2>2. KeepsTwo(mem, mem, p)
    BY <1>2, TwoKept
  <2>3. \A x \in Swapped(ranges, r, q) : \A u \in x.refs : pst[u] # "free"
    BY <1>1, <1>8, FewerRefs
  <2>4. QED BY <1>1, <1>5, <1>7, <2>2, <2>3, RangesStep
<1>11. QED BY <1>1, <1>9, <1>10 DEF StepOK

(* A range that the kernel lets go of once. *)
LEMMA AfterKernel ==
    ASSUME NEW rs, RangesOK(rs), NEW r \in rs, r.kernel_refs > 0
    PROVE  LET rs2 == After(rs, r, LessKernel(r))
           IN  /\ \A x \in rs : x # r => x \in rs2
               /\ Held(rs2, r, r.kernel_refs - 1) \/ (r.kernel_refs = 1 /\ r.refs = {})
               /\ Fewer(rs, rs2)
<1> DEFINE q == LessKernel(r)
           rs2 == After(rs, r, q)
<1>1. Alike(r, q) /\ q.refs = r.refs /\ q.kernel_refs = r.kernel_refs - 1
  <2>1. PICK p \in Procs : TRUE
    BY SpacesAssumption
  <2>2. QED BY <2>1, RangeIs, HoldersChange
<1> HIDE DEF q
<1>2. \A x : x \in rs2 <=> (x \in rs /\ x # r) \/ (x = q /\ Holding(q))
    BY DEF After
<1> HIDE DEF rs2
<1>3. Held(rs2, r, r.kernel_refs - 1) \/ (r.kernel_refs = 1 /\ r.refs = {})
  <2>1. r.kernel_refs \in Nat
    BY RangeIs
  <2>2. CASE Holding(q)
    <3>1. q \in rs2 /\ q.start = r.start /\ q.end = r.end /\ q.kernel_refs = r.kernel_refs - 1
        BY <1>1, <1>2, <2>2 DEF Alike
    <3>2. QED BY <3>1 DEF Held
  <2>3. CASE ~Holding(q)
    <3>1. ~(r.kernel_refs - 1 > 0) /\ r.refs = {}
        BY <1>1, <2>3 DEF Holding
    <3>2. QED BY <2>1, <3>1
  <2>4. QED BY <2>2, <2>3
<1>4. Fewer(rs, rs2)
  <2>1. SUFFICES ASSUME NEW x \in rs2 PROVE \E y \in rs : x.refs \subseteq y.refs
    BY DEF Fewer
  <2>2. x \in rs \/ x = q
    BY <1>2
  <2>3. QED BY <1>1, <2>2
<1>5. \A x \in rs : x # r => x \in rs2
    BY <1>2
<1>6. QED BY <1>3, <1>4, <1>5 DEF rs2, q

LEMMA KernelDecOK ==
    ASSUME MemInv, NEW r \in ranges, KernelDec(r)
    PROVE  StepOK
<1> DEFINE st == State
           c == Released(st, r)
<1>1. /\ mem' = c.m /\ ranges' = c.rs /\ pst' = pst /\ fatal' = FALSE
      /\ InvOf(mem, pst, ranges)
    BY DEF KernelDec, MemInv, Becomes
<1>2. RangesOK(ranges) /\ Good(mem, ranges) /\ AllHeld(ranges) /\ Kernel \in mem.pds
    BY <1>1, OwnersAre
<1>3. st.m = mem /\ st.rs = ranges
    BY DEF State
<1>4. PICK p \in Procs : TRUE
    BY SpacesAssumption
<1> HIDE DEF st
<1>5. Outcome(c, st.m, IF r.kernel_refs > 0 THEN After(st.rs, r, LessKernel(r)) ELSE st.rs, p)
    BY <1>2, <1>3, ReleasedIs
<1>6. /\ Good(c.m, c.rs) /\ KeepsTwo(mem, c.m, p)
      /\ c.rs = IF r.kernel_refs > 0 THEN After(ranges, r, LessKernel(r)) ELSE ranges
    BY <1>3, <1>5 DEF Outcome
<1> HIDE DEF c
<1>7. AllHeld(c.rs) /\ HeldRangesStay /\ Fewer(ranges, c.rs)
  <2>1. CASE r.kernel_refs > 0
    <3>1. /\ \A x \in ranges : x # r => x \in c.rs
          /\ Held(c.rs, r, r.kernel_refs - 1) \/ (r.kernel_refs = 1 /\ r.refs = {})
          /\ AllHeld(c.rs) /\ Fewer(ranges, c.rs)
        BY <1>2, <1>6, <2>1, AfterKernel, AfterHeld
    <3>2. ASSUME NEW x \in ranges, x # r PROVE StaysHeld(x, x.kernel_refs)
        BY <1>1, <3>1, <3>2 DEF StaysHeld
    <3>3. StaysHeld(r, r.kernel_refs - 1) \/ (r.kernel_refs = 1 /\ r.refs = {})
        BY <1>1, <3>1 DEF Held, StaysHeld
    <3>4. HeldRangesStay
        BY <3>2, <3>3 DEF HeldRangesStay
    <3>5. QED BY <3>1, <3>4
  <2>2. CASE ~(r.kernel_refs > 0)
    BY <1>1, <1>2, <1>6, <2>2, KeptOn, NothingLost
  <2>3. QED BY <2>1, <2>2
<1>8. \A x \in c.rs : \A u \in x.refs : pst[u] # "free"
    BY <1>1, <1>7, FewerRefs
<1>9. InvOf(c.m, pst, c.rs)
    BY <1>1, <1>6, <1>7, <1>8, RangesStep
<1>10. QED BY <1>1, <1>7, <1>9 DEF StepOK

LEMMA KernelMapOK ==
    ASSUME MemInv, NEW r \in ranges, NEW p \in Procs, KernelMap(r, p)
    PROVE  StepOK
<1> DEFINE st == State
           c == Mapped(st, r, p)
           q == MoreRef(r, p)
           T == Swapped(ranges, r, q)
<1>1. /\ mem' = c.m /\ ranges' = c.rs /\ pst' = pst /\ fatal' = FALSE /\ pst[p] = "live"
      /\ InvOf(mem, pst, ranges)
    BY DEF KernelMap, MemInv, Becomes, Lives
<1>2. /\ RangesOK(ranges) /\ Good(mem, ranges) /\ AllHeld(ranges) /\ Kernel \in mem.pds
      /\ p \in mem.pds
    BY <1>1, OwnersAre
<1>3. st.m = mem /\ st.rs = ranges
    BY DEF State
<1> HIDE DEF st
<1>4. MapDone(c, st, r, p)
    BY <1>2, <1>3, MappedIs
<1> HIDE DEF c
<1>5. /\ KeepsTwo(mem, c.m, p) /\ Good(c.m, c.rs)
      /\ c.rs = IF c.err = "none" THEN T ELSE ranges
    BY <1>3, <1>4, TwoKept DEF MapDone
<1>6. Alike(r, q) /\ q.refs = r.refs \cup {p} /\ q.kernel_refs = r.kernel_refs
    BY <1>2, RangeIs, HoldersChange
<1> HIDE DEF q
<1>7. \A x : x \in T <=> (x \in ranges /\ x # r) \/ x = q
    BY DEF Swapped
<1> HIDE DEF T
<1>8. AllHeld(T) /\ Kept(ranges, T) /\ \A x \in T : \A u \in x.refs : pst[u] # "free"
  <2>1. AllHeld(T)
    BY <1>2, <1>6, <1>7 DEF AllHeld, Holding
  <2>2. Kept(ranges, T)
    <3>1. SUFFICES ASSUME NEW x \in ranges, x.kernel_refs > 0
                   PROVE  Held(T, x, x.kernel_refs)
        BY DEF Kept
    <3>2. CASE x = r
      <4>1. q \in T /\ q.start = x.start /\ q.end = x.end /\ q.kernel_refs = x.kernel_refs
        BY <1>6, <1>7, <3>2 DEF Alike
      <4>2. QED BY <4>1 DEF Held
    <3>3. CASE x # r
        BY <1>7, <3>3 DEF Held
    <3>4. QED BY <3>2, <3>3
  <2>3. \A x \in T : \A u \in x.refs : pst[u] # "free"
    BY <1>1, <1>6, <1>7 DEF InvOf
  <2>4. QED BY <2>1, <2>2, <2>3
<1>9. /\ AllHeld(c.rs) /\ HeldRangesStay
      /\ \A x \in c.rs : \A u \in x.refs : pst[u] # "free"
  <2>1. CASE c.err = "none"
    BY <1>1, <1>2, <1>5, <1>8, <2>1, HeldStay
  <2>2. CASE c.err # "none"
    BY <1>1, <1>2, <1>5, <2>2, NothingLost DEF InvOf
  <2>3. QED BY <2>1, <2>2
<1>10. InvOf(c.m, pst, c.rs)
    BY <1>1, <1>5, <1>9, RangesStep
<1>11. QED BY <1>1, <1>9, <1>10 DEF StepOK

LEMMA UnmapOK ==
    ASSUME MemInv, NEW r \in ranges, NEW p \in Procs, Unmap(r, p)
    PROVE  StepOK
<1> DEFINE st == State
           c == Unmapped(st, r, p)
<1>1. /\ mem' = c.m /\ ranges' = c.rs /\ pst' = pst /\ fatal' = FALSE /\ p \in r.refs
      /\ InvOf(mem, pst, ranges)
    BY DEF Unmap, MemInv, Becomes, Lives
<1>2. RangesOK(ranges) /\ Good(mem, ranges) /\ AllHeld(ranges) /\ Kernel \in mem.pds
    BY <1>1, OwnersAre
<1>3. st.m = mem /\ st.rs = ranges
    BY DEF State
<1> HIDE DEF st
<1>4. Outcome(c, st.m, IF p \in r.refs THEN After(st.rs, r, LessRef(r, p)) ELSE st.rs, p)
    BY <1>2, <1>3, UnmappedIs
<1> HIDE DEF c
<1>5. /\ Good(c.m, c.rs) /\ KeepsTwo(mem, c.m, p) /\ c.rs = After(ranges, r, LessRef(r, p))
    BY <1>1, <1>3, <1>4 DEF Outcome
<1>6. AllHeld(c.rs) /\ Kept(ranges, c.rs) /\ Fewer(ranges, c.rs)
    BY <1>2, <1>5, AfterHeld, AfterRef
<1>7. HeldRangesStay
    BY <1>1, <1>6, HeldStay
<1>8. \A x \in c.rs : \A u \in x.refs : pst[u] # "free"
    BY <1>1, <1>6, FewerRefs
<1>9. InvOf(c.m, pst, c.rs)
    BY <1>1, <1>5, <1>6, <1>8, RangesStep
<1>10. QED BY <1>1, <1>7, <1>9 DEF StepOK

(* A new range that fails. *)
LEMMA NewFailsOK ==
    ASSUME MemInv, NEW len \in 1 .. NumPages - SharedStart, FirstFit(len) # 0,
           NewFails(len), pst' = pst
    PROVE  StepOK
<1> DEFINE a == Made(len)
           n == Free(a.m, Kernel, TRUE, FirstFit(len), a.at)
<1>1. /\ InvOf(mem, pst, ranges) /\ fatal = FALSE
      /\ Good(mem, ranges) /\ RangesOK(ranges) /\ AllHeld(ranges) /\ Kernel \in mem.pds
    BY OwnersAre DEF MemInv
<1>2. len \in Nat \ {0}
    BY PagesAssumption DEF SharedStart
<1>3. /\ a.err \in {"none", "no_mem"}
      /\ a.err = "no_mem" => Keeps(mem, n, Kernel) /\ Good(n, ranges)
    BY <1>1, <1>2, MadeIs DEF MadeOK
<1>4. /\ a.err # "none" /\ ranges' = ranges
      /\ IF a.err = "no_mem" THEN mem' = n /\ fatal' = fatal ELSE mem' = a.m /\ fatal' = TRUE
    BY DEF NewFails
<1> HIDE DEF n, a
<1>5. /\ mem' = n /\ fatal' = FALSE /\ Keeps(mem, n, Kernel) /\ Good(n, ranges)
    BY <1>1, <1>3, <1>4
<1>6. PICK p \in Procs : TRUE
    BY SpacesAssumption
<1>7. KeepsTwo(mem, n, p)
    BY <1>5, TwoKept
<1>8. \A r \in ranges : \A u \in r.refs : pst[u] # "free"
    BY <1>1 DEF InvOf
<1>9. InvOf(n, pst, ranges)
    BY <1>1, <1>5, <1>7, <1>8, RangesStep
<1>10. QED BY <1>4, <1>5, <1>9, NothingLost DEF StepOK

(* Ranges that are only added. *)
LEMMA MoreKept ==
    ASSUME ranges \subseteq ranges'
    PROVE  HeldRangesStay
<1>1. Kept(ranges, ranges')
    BY DEF Kept, Held
<1>2. QED BY <1>1, HeldStay

LEMMA KernelNewOK ==
    ASSUME MemInv, NEW len \in 1 .. NumPages - SharedStart, KernelNew(len)
    PROVE  StepOK
<1> DEFINE a == Made(len)
           r == NewRange(len)
           T == ranges \cup {r}
<1>1. /\ InvOf(mem, pst, ranges) /\ fatal = FALSE
      /\ Good(mem, ranges) /\ RangesOK(ranges) /\ AllHeld(ranges) /\ Kernel \in mem.pds
    BY OwnersAre DEF MemInv
<1>2. FirstFit(len) # 0 /\ pst' = pst
    BY DEF KernelNew
<1>3. CASE NewFails(len)
    BY <1>2, <1>3, NewFailsOK
<1>4. CASE a.err = "none" /\ mem' = a.m /\ ranges' = T /\ fatal' = fatal
  <2>1. len \in Nat \ {0}
    BY PagesAssumption DEF SharedStart
  <2>2. Keeps(mem, a.m, Kernel) /\ Good(a.m, T)
    BY <1>1, <1>2, <1>4, <2>1, MadeIs DEF MadeOK
  <2>3. NewOK(r)
    BY <1>1, <1>2, <2>1, NewRangeIs
  <2> HIDE DEF a, r
  <2>4. AllHeld(T) /\ \A x \in T : \A u \in x.refs : pst[u] # "free"
    BY <1>1, <2>3 DEF AllHeld, Holding, NewOK, InvOf
  <2>5. HeldRangesStay
    BY <1>4, MoreKept
  <2>6. PICK p \in Procs : TRUE
    BY SpacesAssumption
  <2>7. KeepsTwo(mem, a.m, p)
    BY <2>2, TwoKept
  <2> HIDE DEF T
  <2>8. InvOf(a.m, pst, T)
    BY <1>1, <2>2, <2>4, <2>7, RangesStep
  <2>9. QED BY <1>1, <1>2, <1>4, <2>5, <2>8 DEF StepOK
<1>5. QED BY <1>3, <1>4 DEF KernelNew

LEMMA UserNewOK ==
    ASSUME MemInv, NEW p \in Procs, NEW len \in 1 .. NumPages - SharedStart, UserNew(p, len)
    PROVE  StepOK
<1> DEFINE r  == NewRange(len)
           T  == ranges \cup {r}
           s0 == [m |-> Made(len).m, rs |-> T]
           c  == Mapped(s0, r, p)
           st == [m |-> c.m, rs |-> c.rs]
           r2 == IF c.err = "none" THEN [r EXCEPT !.refs = {p}] ELSE r
           done == Released(st, r2)
           q2 == [r2 EXCEPT !.kernel_refs = 0]
           back == Unmapped(done, q2, p)
<1>1. /\ InvOf(mem, pst, ranges) /\ fatal = FALSE
      /\ Good(mem, ranges) /\ RangesOK(ranges) /\ AllHeld(ranges) /\ Kernel \in mem.pds
    BY OwnersAre DEF MemInv
<1>2. FirstFit(len) # 0 /\ pst' = pst /\ pst[p] = "live" /\ p \in mem.pds
    BY <1>1, OwnersAre DEF UserNew, Lives
<1>3. CASE NewFails(len)
    BY <1>2, <1>3, NewFailsOK
<1>4. CASE /\ Made(len).err = "none" /\ fatal' = fatal
           /\ \/ Becomes(done)
              \/ c.err = "none" /\ Becomes(back)
  <2>1. len \in Nat \ {0}
    BY PagesAssumption DEF SharedStart
  <2>2. Keeps(mem, s0.m, Kernel) /\ Good(s0.m, s0.rs) /\ s0.rs = T
    BY <1>1, <1>2, <1>4, <2>1, MadeIs DEF MadeOK
  <2>3. NewOK(r)
    BY <1>1, <1>2, <2>1, NewRangeIs
  <2> HIDE DEF r, s0
  <2>4. /\ r \in RangeSet /\ r \in T /\ RangesOK(T) /\ r \notin ranges /\ T \ {r} = ranges
    <3>1. RangesOK(T) /\ r \notin ranges
        BY <1>1, <2>3, AddedIs DEF NewOK
    <3>2. QED BY <2>3, <3>1 DEF NewOK
  <2>5. /\ p \in s0.m.pds /\ Kernel \in s0.m.pds /\ KeepsTwo(mem, s0.m, p)
    BY <1>1, <1>2, <2>2, TwoKept DEF Keeps, SameBut
  <2>6. MapDone(c, s0, r, p)
    BY <2>2, <2>4, <2>5, MappedIs
  <2> DEFINE w == MoreRef(r, p)
  <2>7. /\ Alike(r, w) /\ w.refs = {p} /\ w.kernel_refs = 1 /\ w = [r EXCEPT !.refs = {p}]
    <3>1. Alike(r, w) /\ w.refs = r.refs \cup {p} /\ w.kernel_refs = r.kernel_refs
        BY <2>4, HoldersChange
    <3>2. r.refs = {} /\ r.kernel_refs = 1
        BY <2>3 DEF NewOK
    <3>3. r.refs \cup {p} = {p}
        BY <3>2
    <3>4. QED BY <3>1, <3>2, <3>3 DEF MoreRef
  <2>8. st.m = c.m /\ st.rs = c.rs /\ r2 = IF c.err = "none" THEN w ELSE r
    BY <2>7
  <2> HIDE DEF c, w
  <2>9. /\ Good(st.m, st.rs) /\ KeepsTwo(mem, st.m, p) /\ Kernel \in st.m.pds
        /\ st.rs = IF c.err = "none" THEN Swapped(T, r, w) ELSE T
    <3>1. /\ Good(c.m, c.rs) /\ Keeps(s0.m, c.m, p)
          /\ c.rs = IF c.err = "none" THEN Swapped(T, r, w) ELSE T
        BY <2>2, <2>6 DEF MapDone, w
    <3>2. KeepsTwo(s0.m, c.m, p)
        BY <3>1, TwoKept
    <3>3. KeepsTwo(mem, c.m, p)
        BY <2>5, <3>2, TwoKept
    <3>4. QED BY <1>1, <2>8, <3>1, <3>3 DEF KeepsTwo
  <2> HIDE DEF st, r2
  <2>10. /\ r2 \in st.rs /\ st.rs \ {r2} = ranges /\ Alike(r, r2) /\ r2.kernel_refs = 1
         /\ r2.refs = IF c.err = "none" THEN {p} ELSE {}
    <3>1. CASE c.err = "none"
      <4> HIDE DEF T
      <4>0. RangesOK(T) /\ r \in T /\ Alike(r, w)
        BY <2>4, <2>7
      <4>1. w \in Swapped(T, r, w) /\ Swapped(T, r, w) \ {w} = T \ {r}
        BY <4>0, SwappedIs
      <4>2. QED BY <2>4, <2>7, <2>8, <2>9, <3>1, <4>1
    <3>2. CASE c.err # "none"
      <4>1. Alike(r, r) /\ r.kernel_refs = 1 /\ r.refs = {}
        BY <2>3 DEF NewOK, Alike
      <4>2. QED BY <2>4, <2>8, <2>9, <3>2, <4>1
    <3>3. QED BY <3>1, <3>2
  <2> DEFINE q == LessKernel(r2)
  <2>11. /\ Alike(r2, q) /\ q.refs = r2.refs /\ q.kernel_refs = 0 /\ q = q2
    <3>1. r2 \in RangeSet
        BY <2>10 DEF Alike
    <3>2. Alike(r2, q) /\ q.refs = r2.refs /\ q.kernel_refs = r2.kernel_refs - 1
        BY <2>10, <3>1, HoldersChange
    <3>3. r2.kernel_refs - 1 = 0
        BY <2>10
    <3>4. q = q2
        BY <3>3 DEF LessKernel
    <3>5. QED BY <3>2, <3>3, <3>4
  <2> HIDE DEF q, q2
  <2>12. Outcome(done, st.m, After(st.rs, r2, q), p)
    <3>1. Outcome(Released(st, r2), st.m, IF r2.kernel_refs > 0 THEN After(st.rs, r2, LessKernel(r2))
                                           ELSE st.rs, p)
        BY <2>9, <2>10, ReleasedIs
    <3>2. r2.kernel_refs > 0
        BY <2>10
    <3>3. QED BY <3>1, <3>2 DEF q
  <2> HIDE DEF done
  <2>13. /\ Good(done.m, done.rs) /\ KeepsTwo(mem, done.m, p) /\ Kernel \in done.m.pds
         /\ done.rs = ranges \cup IF Holding(q) THEN {q} ELSE {}
    <3>1. done.rs = (st.rs \ {r2}) \cup IF Holding(q) THEN {q} ELSE {}
        BY <2>12 DEF Outcome, After
    <3>2. KeepsTwo(mem, done.m, p) /\ Good(done.m, done.rs)
        BY <2>9, <2>12, TwoKept DEF Outcome
    <3>3. QED BY <1>1, <2>10, <3>1, <3>2 DEF KeepsTwo
  <2>14. /\ AllHeld(done.rs) /\ ranges \subseteq done.rs
         /\ \A x \in done.rs : \A u \in x.refs : pst[u] # "free"
    <3>1. \A u \in q.refs : pst[u] # "free"
        BY <1>2, <2>10, <2>11
    <3>2. QED BY <1>1, <2>13, <3>1 DEF AllHeld, InvOf
  <2>15. CASE Becomes(done)
    <3>1. mem' = done.m /\ ranges' = done.rs
        BY <2>15 DEF Becomes
    <3>2. InvOf(done.m, pst, done.rs)
        BY <1>1, <2>13, <2>14, RangesStep
    <3>3. HeldRangesStay
        BY <2>14, <3>1, MoreKept
    <3>4. QED BY <1>1, <1>2, <1>4, <3>1, <3>2, <3>3 DEF StepOK
  <2>16. CASE c.err = "none" /\ Becomes(back)
    <3>1. q.refs = {p} /\ Holding(q)
        BY <2>10, <2>11, <2>16 DEF Holding
    <3>2. done.rs = ranges \cup {q} /\ q \in done.rs
        BY <2>13, <3>1
    <3>3. q \notin ranges
      <4>1. Alike(r, q)
        BY <2>10, <2>11 DEF Alike
      <4>2. \A x \in ranges : ~Overlaps(r, x)
        BY <2>3 DEF NewOK
      <4>3. Overlaps(r, q)
        BY <2>3, <4>1 DEF NewOK, Alike, Overlaps, RangeSet
      <4>4. QED BY <4>2, <4>3
    <3>4. Outcome(back, done.m, IF p \in q.refs THEN After(done.rs, q, LessRef(q, p)) ELSE done.rs, p)
        BY <2>11, <2>13, <3>2, UnmappedIs
    <3> HIDE DEF back
    <3>5. back.rs = After(done.rs, q, LessRef(q, p)) /\ Good(back.m, back.rs)
          /\ KeepsTwo(mem, back.m, p)
        BY <2>13, <3>1, <3>4, TwoKept DEF Outcome
    <3>6. ~Holding(LessRef(q, p))
      <4>1. q \in RangeSet
        BY <2>11 DEF Alike
      <4>2. LessRef(q, p).refs = q.refs \ {p} /\ LessRef(q, p).kernel_refs = q.kernel_refs
        BY <4>1, HoldersChange
      <4>3. QED BY <2>11, <3>1, <4>2 DEF Holding
    <3>7. back.rs = ranges
        BY <3>2, <3>3, <3>5, <3>6 DEF After
    <3>8. mem' = back.m /\ ranges' = ranges
        BY <2>16, <3>7 DEF Becomes
    <3>9. \A x \in ranges : \A u \in x.refs : pst[u] # "free"
        BY <1>1 DEF InvOf
    <3>10. InvOf(back.m, pst, ranges)
        BY <1>1, <3>5, <3>7, <3>9, RangesStep
    <3>11. QED BY <1>1, <1>2, <1>4, <3>8, <3>10, NothingLost DEF StepOK
  <2>17. QED BY <1>4, <2>15, <2>16
<1>5. QED BY <1>3, <1>4 DEF UserNew

-----------------------------------------------------------------------------
(* Processes *)

(* The directory of a process that is not there is blank, as it will be. *)
LEMMA UndoneOK ==
    ASSUME NEW m, NEW n, NEW ps, NEW rs, InvOf(m, ps, rs), NEW c \in Spaces, c \notin m.pds,
           Rest(m, n, c), n.pds = m.pds
    PROVE  InvOf(n, ps, rs)
<1>1. /\ Kernel \in m.pds /\ Template \in m.pds /\ Sound(m) /\ Good(m, rs)
    BY OwnersAre
<1>2. /\ \A pg \in Pages : m.ent[c][pg] = "none" /\ n.ent[c][pg] = "none"
    BY <1>1, Blank DEF Rest
<1>3. \A u \in Spaces \ {c} : n.ent[u] = m.ent[u]
    BY DEF Rest
<1>4. n.ent[Kernel] = m.ent[Kernel] /\ n.ent[Template] = m.ent[Template]
    BY <1>1, <1>3, SpacesAre
<1>5. \A u \in Procs : \A pg \in Pages : n.ent[u][pg] = m.ent[u][pg]
    BY <1>2, <1>3, SpacesAre
<1>6. Good(n, rs) /\ Frames(n) = Frames(m)
    BY <1>1, <1>4, <1>5, GoodStays DEF Rest
<1>7. QED BY <1>4, <1>6 DEF InvOf

LEMMA ForkOK ==
    ASSUME MemInv, NEW p \in Procs, NEW c \in Procs, NEW second \in BOOLEAN,
           NEW made \in BOOLEAN, Fork(p, c, second, made)
    PROVE  StepOK
<1> DEFINE copy == CopyDirectory(mem, c, p)
           n == Free(copy.m, c, FALSE, Stack, Stack + 1)
           o == IF second THEN copy.m ELSE n
           T == Inherited(p, c)
<1>1. /\ InvOf(mem, pst, ranges) /\ fatal = FALSE
      /\ Good(mem, ranges) /\ RangesOK(ranges) /\ AllHeld(ranges) /\ Sound(mem)
      /\ EntriesRight(mem, ranges) /\ Kernel \in mem.pds /\ Template \in mem.pds
    BY OwnersAre DEF MemInv
<1>2. /\ pst[p] = "live" /\ pst[c] = "free" /\ fatal' = fatal
    BY DEF Fork, Lives
<1>3. /\ c \notin mem.pds /\ c # p /\ c \in Spaces /\ p \in Spaces /\ c # Kernel
      /\ c # Template
    BY <1>1, <1>2, OwnersAre, SpacesAre
<1>4. DirectoryDone(mem, copy, c, p)
    BY <1>1, <1>3, CopyDirectoryIs
<1> HIDE DEF copy
<1>5. Rest(mem, copy.m, c) /\ Sound(copy.m)
    BY <1>4 DEF DirectoryDone, Rest
<1>6. CASE copy.err = "none" /\ made
  <2>1. /\ mem' = o /\ pst' = [pst EXCEPT ![c] = "live"] /\ ranges' = T
    BY <1>6 DEF Fork, copy
  <2>2. copy.m.pds = mem.pds \cup {c} /\ \A pg \in Pages : copy.m.ent[c][pg] = mem.ent[p][pg]
    BY <1>4, <1>6 DEF DirectoryDone
  <2>3. /\ Sound(o) /\ Frames(o) = Frames(mem) /\ o.pds = mem.pds \cup {c}
        /\ \A u \in Spaces \ {c} : o.ent[u] = mem.ent[u]
        /\ \A pg \in Pages : SharedStart <= pg => o.ent[c][pg] = mem.ent[p][pg]
    <3>1. CASE second
        BY <1>5, <2>2, <3>1 DEF Rest
    <3>2. CASE ~second
      <4>1. Owned(FALSE) = Mine(c)
        BY <1>3 DEF Owned, Mine
      <4>2. Stack \in Nat /\ Stack + 1 \in Nat /\ Stack + 1 <= SharedStart
        BY DEF Stack, SharedStart
      <4>3. Keeps(copy.m, n, c) /\ Freed(copy.m, n, c, Stack, Stack + 1)
        BY <1>3, <1>5, <4>1, <4>2, FreeIs
      <4> HIDE DEF n
      <4>4. Rest(mem, n, c) /\ n.pds = copy.m.pds
        <5>1. Rest(copy.m, n, c)
            BY <4>3, RestOn
        <5>2. QED BY <1>5, <4>3, <5>1, RestOn DEF Keeps, SameBut
      <4>5. ASSUME NEW pg \in Pages, SharedStart <= pg PROVE n.ent[c][pg] = mem.ent[p][pg]
        <5>1. ~(pg < Stack + 1)
            BY <4>2, <4>5, PagesAreNat DEF SharedStart
        <5>2. n.ent[c][pg] = copy.m.ent[c][pg]
            BY <4>3, <5>1 DEF Freed
        <5>3. QED BY <2>2, <5>2
      <4>6. QED BY <2>2, <3>2, <4>4, <4>5 DEF Rest
    <3>3. QED BY <3>1, <3>2
  <2> HIDE DEF o
  <2>4. \A r \in ranges : c \notin r.refs /\ r.refs \subseteq Procs
    BY <1>1, <1>2, RangeIs DEF InvOf
  <2>5. /\ RangesOK(T) /\ AllHeld(T) /\ Kept(ranges, T)
        /\ \A pg \in Pages : In(T, pg) <=> In(ranges, pg)
        /\ \A pg \in Pages : \A u \in Procs :
                Sees(T, u, pg) <=> Sees(ranges, IF u = c THEN p ELSE u, pg)
        /\ \A q \in T : \E r \in ranges : q.refs \subseteq r.refs \cup {c}
    BY <1>1, <2>4, InheritedIs
  <2> HIDE DEF T
  <2>6. EntriesRight(o, T)
    <3>1. \A pg \in Pages : o.ent[Kernel][pg] = IF In(T, pg) THEN "shared" ELSE "none"
        BY <1>1, <1>3, <2>3, <2>5, SpacesAre DEF EntriesRight
    <3>2. ASSUME NEW u \in Procs, NEW pg \in Pages, SharedStart <= pg
          PROVE  o.ent[u][pg] = IF Sees(T, u, pg) THEN "shared" ELSE "none"
      <4>1. CASE u = c
        <5>1. o.ent[c][pg] = mem.ent[p][pg]
            BY <2>3, <3>2
        <5>2. mem.ent[p][pg] = IF Sees(ranges, p, pg) THEN "shared" ELSE "none"
            BY <1>1, <3>2 DEF EntriesRight
        <5>3. Sees(T, c, pg) <=> Sees(ranges, p, pg)
            BY <2>5
        <5>4. QED BY <4>1, <5>1, <5>2, <5>3
      <4>2. CASE u # c
        <5>1. o.ent[u] = mem.ent[u]
            BY <2>3, <4>2, SpacesAre
        <5>2. mem.ent[u][pg] = IF Sees(ranges, u, pg) THEN "shared" ELSE "none"
            BY <1>1, <3>2 DEF EntriesRight
        <5>3. Sees(T, u, pg) <=> Sees(ranges, u, pg)
            BY <2>5, <4>2
        <5>4. QED BY <5>1, <5>2, <5>3
      <4>3. QED BY <4>1, <4>2
    <3>3. QED BY <3>1, <3>2 DEF EntriesRight
  <2>7. pst \in [Procs -> {"free", "live", "zombie"}] /\ mem.pds = Owners(pst)
    BY <1>1 DEF InvOf
  <2>8. /\ pst' \in [Procs -> {"free", "live", "zombie"}]
        /\ \A u \in Procs : pst'[u] # "free" <=> pst[u] # "free" \/ u = c
    BY <2>1, <2>7
  <2>9. o.pds = Owners(pst')
    BY <2>3, <2>7, <2>8 DEF Owners
  <2>10. \A q \in T : \A u \in q.refs : pst'[u] # "free"
    <3>1. \A r \in ranges : \A u \in r.refs : pst[u] # "free"
        BY <1>1 DEF InvOf
    <3>2. QED BY <2>4, <2>5, <2>8, <3>1
  <2>11. /\ Frames(mem) = NumFree + 6
         /\ \A pg \in Pages : SharedStart <= pg => mem.ent[Template][pg] = "none"
    BY <1>1 DEF InvOf
  <2>12. o.ent[Template] = mem.ent[Template]
    BY <1>3, <2>3, SpacesAre
  <2>13. InvOf(o, pst', T)
    BY <2>3, <2>5, <2>6, <2>8, <2>9, <2>10, <2>11, <2>12 DEF InvOf, Good
  <2>14. HeldRangesStay
    BY <2>1, <2>5, HeldStay
  <2>15. QED BY <1>1, <1>2, <2>1, <2>13, <2>14 DEF StepOK
<1>7. CASE ~(copy.err = "none" /\ made)
  <2> DEFINE d == DeleteDirectory(copy.m, c)
             w == IF copy.err = "none" THEN d ELSE copy.m
  <2>1. mem' = w /\ pst' = pst /\ ranges' = ranges
    BY <1>7 DEF Fork, copy
  <2>2. Rest(mem, w, c) /\ w.pds = mem.pds
    <3>1. CASE copy.err = "none"
      <4>1. copy.m.pds = mem.pds \cup {c}
        BY <1>4, <3>1 DEF DirectoryDone
      <4>2. Rest(copy.m, d, c) /\ d.pds = copy.m.pds \ {c}
        BY <1>3, <1>5, <4>1, DeleteDirectoryIs
      <4> HIDE DEF d
      <4>3. d.pds = mem.pds /\ Rest(mem, d, c)
        BY <1>3, <1>5, <4>1, <4>2, RestOn
      <4>4. QED BY <3>1, <4>3
    <3>2. CASE copy.err # "none"
      <4>1. copy.m.pds = mem.pds
        BY <1>4, <3>2 DEF DirectoryDone
      <4>2. QED BY <1>5, <3>2, <4>1
    <3>3. QED BY <3>1, <3>2
  <2> HIDE DEF w
  <2>3. InvOf(w, pst, ranges)
    BY <1>1, <1>3, <2>2, UndoneOK
  <2>4. QED BY <1>1, <1>2, <2>1, <2>3, NothingLost DEF StepOK
<1>8. QED BY <1>6, <1>7

(* The hook in a memory that has a directory more for an image. *)
LEMMA HookIs ==
    ASSUME MemInv, NEW m, Good(m, ranges), Kernel \in m.pds, NEW p \in Procs,
           NEW st, st = [m |-> m, rs |-> ranges]
    PROVE  LET u == Unshared(st, p)
           IN  /\ Good(u.m, u.rs) /\ AllHeld(u.rs) /\ KeepsTwo(m, u.m, p)
               /\ Kept(ranges, u.rs) /\ \A r \in u.rs : p \notin r.refs
               /\ \A r \in u.rs : \A q \in r.refs : pst[q] # "free"
<1>1. /\ InvOf(mem, pst, ranges) /\ RangesOK(ranges) /\ AllHeld(ranges)
    BY OwnersAre DEF MemInv
<1>2. m \in Memory /\ ranges \subseteq RangeSet
    BY <1>1 DEF Good, Sound, RangesOK
<1>3. st \in States /\ st.m = m /\ st.rs = ranges
    BY <1>2 DEF States
<1> DEFINE u == Unshared(st, p)
<1>4. UnsharedOK(st, u, p, NumPages)
    BY <1>1, <1>3, UnsharedIs
<1> HIDE DEF u
<1>5. /\ Good(u.m, u.rs) /\ AllHeld(u.rs) /\ KeepsTwo(m, u.m, p) /\ RangesOK(u.rs)
      /\ Kept(ranges, u.rs) /\ Fewer(ranges, u.rs) /\ Cleared(u.rs, p, NumPages)
    BY <1>3, <1>4 DEF UnsharedOK, Good
<1>6. \A r \in u.rs : p \notin r.refs
  <2>1. \A r \in u.rs : r.start < NumPages
    <3>1. ASSUME NEW r \in u.rs PROVE r.start < NumPages
      <4>1. r.start \in Nat /\ r.end \in Nat /\ r.start < r.end /\ r.end <= NumPages
        BY <1>5, RangeIs
      <4>2. QED BY <4>1, PagesAssumption
    <3>2. QED BY <3>1
  <2>2. QED BY <1>5, <2>1 DEF Cleared
<1>7. \A r \in u.rs : \A q \in r.refs : pst[q] # "free"
    BY <1>1, <1>5, FewerRefs
<1>8. QED BY <1>5, <1>6, <1>7 DEF u

(* Who has no bit sees no range. *)
LEMMA Unseeing ==
    ASSUME NEW rs, NEW p, \A r \in rs : p \notin r.refs, NEW pg
    PROVE  ~Sees(rs, p, pg)
BY DEF Sees

LEMMA ReapOK ==
    ASSUME MemInv, NEW p \in Procs, Reap(p)
    PROVE  StepOK
<1> DEFINE st == Unshared(State, p)
           n == DeleteDirectory(st.m, p)
<1>1. /\ InvOf(mem, pst, ranges) /\ fatal = FALSE
      /\ Good(mem, ranges) /\ Kernel \in mem.pds /\ Template \in mem.pds
    BY OwnersAre DEF MemInv
<1>2. /\ pst[p] = "zombie" /\ pst' = [pst EXCEPT ![p] = "free"] /\ fatal' = fatal
      /\ mem' = n /\ ranges' = st.rs
    BY DEF Reap
<1>3. /\ p \in mem.pds /\ p # Kernel /\ p # Template /\ p \in Spaces
    BY <1>1, <1>2, OwnersAre, SpacesAre
<1>4. State = [m |-> mem, rs |-> ranges]
    BY DEF State
<1>5. /\ Good(st.m, st.rs) /\ AllHeld(st.rs) /\ KeepsTwo(mem, st.m, p)
      /\ Kept(ranges, st.rs) /\ \A r \in st.rs : p \notin r.refs
      /\ \A r \in st.rs : \A q \in r.refs : pst[q] # "free"
    BY <1>1, <1>4, HookIs
<1> HIDE DEF st
<1>6. /\ st.m.pds = mem.pds /\ st.m.ent[Template] = mem.ent[Template]
      /\ Frames(st.m) = Frames(mem) /\ Sound(st.m) /\ EntriesRight(st.m, st.rs) /\ RangesOK(st.rs)
    BY <1>3, <1>5, SpacesAre DEF KeepsTwo, Good
<1>7. Rest(st.m, n, p) /\ n.pds = st.m.pds \ {p} /\ \A pg \in Pages : n.ent[p][pg] = "none"
    BY <1>3, <1>6, DeleteDirectoryIs
<1> HIDE DEF n
<1>8. /\ n.ent[Kernel] = st.m.ent[Kernel] /\ n.ent[Template] = st.m.ent[Template]
      /\ Sound(n) /\ Frames(n) = Frames(st.m)
      /\ \A u \in Procs \ {p} : n.ent[u] = st.m.ent[u]
    BY <1>3, <1>7, SpacesAre DEF Rest
<1>9. \A u \in Procs : \A pg \in Pages : SharedStart <= pg => n.ent[u][pg] = st.m.ent[u][pg]
  <2>1. \A pg \in Pages : SharedStart <= pg => st.m.ent[p][pg] = "none"
    BY <1>5, <1>6, Unseeing DEF EntriesRight
  <2>2. QED BY <1>7, <1>8, <2>1
<1>10. Good(n, st.rs)
    BY <1>5, <1>8, <1>9, GoodStays
<1>11. /\ pst \in [Procs -> {"free", "live", "zombie"}] /\ mem.pds = Owners(pst)
       /\ Frames(mem) = NumFree + 6
       /\ \A pg \in Pages : SharedStart <= pg => mem.ent[Template][pg] = "none"
    BY <1>1 DEF InvOf
<1>12. /\ pst' \in [Procs -> {"free", "live", "zombie"}]
       /\ \A u \in Procs : pst'[u] # "free" <=> pst[u] # "free" /\ u # p
    BY <1>2, <1>11
<1>13. n.pds = Owners(pst')
    BY <1>3, <1>6, <1>7, <1>11, <1>12 DEF Owners
<1>14. \A r \in st.rs : \A q \in r.refs : pst'[q] # "free"
    BY <1>5, <1>6, <1>12, RangeIs
<1>15. InvOf(n, pst', st.rs)
    BY <1>5, <1>6, <1>8, <1>10, <1>11, <1>12, <1>13, <1>14 DEF InvOf
<1>16. HeldRangesStay
    BY <1>1, <1>2, <1>5, HeldStay
<1>17. QED BY <1>1, <1>2, <1>5, <1>15, <1>16 DEF StepOK

LEMMA ExecOK ==
    ASSUME MemInv, NEW p \in Procs, Exec(p)
    PROVE  StepOK
<1> DEFINE im == Image
           st == Unshared([m |-> im.m, rs |-> ranges], p)
           d == DeleteDirectory(st.m, p)
           n == Moved(d, p, Staging)
<1>1. /\ InvOf(mem, pst, ranges) /\ fatal = FALSE /\ Sound(mem)
      /\ Good(mem, ranges) /\ Kernel \in mem.pds /\ Template \in mem.pds
      /\ Staging \notin mem.pds
    BY OwnersAre DEF MemInv
<1>2. /\ pst[p] = "live" /\ pst' = pst /\ fatal' = fatal
      /\ im.err = "none" => mem' = n /\ ranges' = st.rs
      /\ im.err # "none" => mem' = im.m /\ ranges' = ranges
    BY DEF Exec, Lives
<1>3. /\ p \in mem.pds /\ p # Kernel /\ p # Template /\ p # Staging /\ p \in Spaces
    BY <1>1, <1>2, OwnersAre, SpacesAre
<1>4. ImageOK(mem, im)
    BY <1>1, ImageIs
<1> HIDE DEF im
<1>5. Rest(mem, im.m, Staging) /\ Sound(im.m) /\ Frames(im.m) = Frames(mem)
    BY <1>4 DEF ImageOK, Rest
<1>6. CASE im.err # "none"
  <2>1. im.m.pds = mem.pds
    BY <1>4, <1>6 DEF ImageOK
  <2>2. InvOf(im.m, pst, ranges)
    BY <1>1, <1>5, <2>1, SpacesAre, UndoneOK
  <2>3. QED BY <1>1, <1>2, <1>6, <2>2, NothingLost DEF StepOK
<1>7. CASE im.err = "none"
  <2>1. /\ im.m.pds = mem.pds \cup {Staging}
        /\ \A pg \in Pages : SharedStart <= pg => im.m.ent[Staging][pg] = mem.ent[Template][pg]
    BY <1>4, <1>7 DEF ImageOK
  <2>2. /\ im.m.ent[Kernel] = mem.ent[Kernel] /\ im.m.ent[Template] = mem.ent[Template]
        /\ \A u \in Procs : im.m.ent[u] = mem.ent[u]
    BY <1>5, SpacesAre DEF Rest
  <2>3. Good(im.m, ranges)
    BY <1>1, <1>5, <2>2, GoodStays
  <2>4. /\ Good(st.m, st.rs) /\ AllHeld(st.rs) /\ KeepsTwo(im.m, st.m, p)
        /\ Kept(ranges, st.rs) /\ \A r \in st.rs : p \notin r.refs
        /\ \A r \in st.rs : \A q \in r.refs : pst[q] # "free"
    BY <1>1, <2>1, <2>3, HookIs
  <2> HIDE DEF st
  <2>5. /\ st.m.pds = im.m.pds /\ st.m.ent[Template] = im.m.ent[Template]
        /\ st.m.ent[Staging] = im.m.ent[Staging]
        /\ Frames(st.m) = Frames(im.m) /\ Sound(st.m) /\ EntriesRight(st.m, st.rs) /\ RangesOK(st.rs)
    BY <1>3, <2>4, SpacesAre DEF KeepsTwo, Good
  <2>6. Rest(st.m, d, p) /\ d.pds = st.m.pds \ {p}
    BY <1>3, <2>1, <2>5, DeleteDirectoryIs
  <2> HIDE DEF d
  <2>7. /\ Sound(d) /\ Frames(d) = Frames(st.m) /\ p \notin d.pds /\ Staging \in d.pds
        /\ \A u \in Spaces \ {p} : d.ent[u] = st.m.ent[u]
    BY <1>3, <2>1, <2>5, <2>6 DEF Rest
  <2>8. /\ Sound(n) /\ Frames(n) = Frames(d) /\ n.pds = (d.pds \ {Staging}) \cup {p}
        /\ \A pg \in Pages : n.ent[p][pg] = d.ent[Staging][pg]
        /\ \A u \in Spaces \ {Staging, p} : n.tabs[u] = d.tabs[u] /\ n.ent[u] = d.ent[u]
    BY <1>3, <2>7, SpacesAre, MovedIs
  <2> HIDE DEF n
  <2>9. /\ n.ent[Kernel] = st.m.ent[Kernel] /\ n.ent[Template] = mem.ent[Template]
        /\ \A u \in Procs \ {p} : n.ent[u] = st.m.ent[u]
    BY <1>3, <2>2, <2>5, <2>7, <2>8, SpacesAre
  <2>10. \A pg \in Pages : SharedStart <= pg => mem.ent[Template][pg] = "none"
    BY <1>1 DEF InvOf
  <2>11. \A u \in Procs : \A pg \in Pages : SharedStart <= pg => n.ent[u][pg] = st.m.ent[u][pg]
    <3>1. \A pg \in Pages : SharedStart <= pg => st.m.ent[p][pg] = "none"
        BY <2>4, <2>5, Unseeing DEF EntriesRight
    <3>2. d.ent[Staging] = im.m.ent[Staging]
        BY <1>3, <2>5, <2>7, SpacesAre
    <3>3. \A pg \in Pages : SharedStart <= pg => n.ent[p][pg] = "none"
        BY <2>1, <2>8, <2>10, <3>2
    <3>4. QED BY <2>9, <3>1, <3>3
  <2>12. Good(n, st.rs)
    BY <2>4, <2>8, <2>9, <2>11, GoodStays
  <2>13. n.pds = mem.pds
    BY <1>1, <1>3, <2>1, <2>5, <2>6, <2>8
  <2>14. Frames(n) = Frames(mem)
    BY <1>5, <2>5, <2>7, <2>8
  <2>15. InvOf(n, pst, st.rs)
    BY <1>1, <2>4, <2>9, <2>10, <2>12, <2>13, <2>14 DEF InvOf
  <2>16. HeldRangesStay
    BY <1>1, <1>2, <1>7, <2>4, HeldStay
  <2>17. QED BY <1>1, <1>2, <1>7, <2>4, <2>15, <2>16 DEF StepOK
<1>8. QED BY <1>6, <1>7

-----------------------------------------------------------------------------
(* The theorems *)

LEMMA MemStep ==
    ASSUME MemInv, [MemNext]_memVars
    PROVE  MemInv' /\ HeldRangesStay
<1>1. CASE UNCHANGED memVars
  <2>1. mem' = mem /\ pst' = pst /\ ranges' = ranges /\ fatal' = fatal
    BY <1>1 DEF memVars
  <2>2. InvOf(mem', pst', ranges')
    BY <2>1 DEF MemInv
  <2>3. QED BY <2>1, <2>2, NothingLost DEF MemInv
<1>2. CASE MemNext
  <2>1. StepOK
    BY <1>2, RequestMemOK, ReturnMemOK, UserNewOK, KernelMapOK, UnmapOK, ForkOK, ExecOK,
       ExitOK, ReapOK, KernelNewOK, KernelIncOK, KernelDecOK DEF MemNext
  <2>2. QED BY <2>1 DEF StepOK, MemInv
<1>3. QED BY <1>1, <1>2

LEMMA MemInvIsEnough == MemInv => FramesAreHeld
<1> SUFFICES ASSUME MemInv PROVE FramesAreHeld
    OBVIOUS
<1>1. /\ InvOf(mem, pst, ranges) /\ fatal = FALSE /\ Sound(mem) /\ RangesOK(ranges)
      /\ EntriesRight(mem, ranges) /\ AllHeld(ranges)
    BY OwnersAre DEF MemInv
<1>2. FramesAccounted
    BY <1>1 DEF InvOf, FramesAccounted, Frames, Sound
<1>3. \A pg \in SharedStart .. NumPages - 1 : pg \in Pages /\ SharedStart <= pg
    BY PagesAssumption DEF SharedStart, Pages
<1>4. \A p \in Procs : \A pg \in SharedStart .. NumPages - 1 :
        mem.ent[p][pg] =
            IF \E r \in ranges : r.start <= pg /\ pg < r.end /\ p \in r.refs
            THEN "shared" ELSE "none"
  <2> TAKE p \in Procs
  <2> TAKE pg \in SharedStart .. NumPages - 1
  <2>1. mem.ent[p][pg] = IF Sees(ranges, p, pg) THEN "shared" ELSE "none"
    BY <1>1, <1>3 DEF EntriesRight
  <2>2. Sees(ranges, p, pg) <=> \E r \in ranges : r.start <= pg /\ pg < r.end /\ p \in r.refs
    BY DEF Sees, Covers
  <2>3. QED BY <2>1, <2>2
<1>5. \A pg \in Pages : mem.ent[Kernel][pg] =
            IF \E r \in ranges : r.start <= pg /\ pg < r.end THEN "shared" ELSE "none"
  <2> TAKE pg \in Pages
  <2>1. mem.ent[Kernel][pg] = IF In(ranges, pg) THEN "shared" ELSE "none"
    BY <1>1 DEF EntriesRight
  <2>2. In(ranges, pg) <=> \E r \in ranges : r.start <= pg /\ pg < r.end
    BY DEF In, Covers
  <2>3. QED BY <2>1, <2>2
<1>6. \A r, q \in ranges : r # q => ~Overlaps(r, q)
    BY <1>1 DEF RangesOK
<1>7. ASSUME NEW r \in ranges
      PROVE  /\ r.start < r.end /\ r.kernel_refs + Cardinality(r.refs) > 0
             /\ \A p \in r.refs : pst[p] # "free"
  <2>1. r.kernel_refs \in Nat /\ r.refs \subseteq Procs /\ r.start < r.end
    BY <1>1, RangeIs
  <2>2. IsFiniteSet(r.refs)
    BY <2>1, SpacesAre, PagesAssumption, FS_Subset
  <2>3. Cardinality(r.refs) \in Nat /\ (Cardinality(r.refs) = 0 <=> r.refs = {})
    BY <2>2, FS_CardinalityType, FS_EmptySet
  <2>4. r.kernel_refs > 0 \/ r.refs # {}
    BY <1>1 DEF AllHeld, Holding
  <2>5. r.kernel_refs + Cardinality(r.refs) > 0
    BY <2>1, <2>3, <2>4
  <2>6. QED BY <1>1, <2>1, <2>5 DEF InvOf
<1>8. RangesAreHeld
    BY <1>1, <1>4, <1>5, <1>6, <1>7 DEF RangesAreHeld
<1>9. QED BY <1>2, <1>8 DEF FramesAreHeld

LEMMA MemInductive == MemSpec => []MemInv
<1>1. MemInit => MemInv
    BY InitOK
<1>2. MemInv /\ [MemNext]_memVars => MemInv'
    BY MemStep
<1>3. QED BY <1>1, <1>2, PTL DEF MemSpec

(* Every physical page is in use once or on the free list, whatever call   *)
(* failed half way, and shared ranges are mapped for all, and only for     *)
(* those, that hold them: page.c with plugin_shm.c.                        *)
THEOREM FramesStayHeld == MemSpec => []FramesAreHeld
<1>1. MemInv => FramesAreHeld
    BY MemInvIsEnough
<1>2. QED BY <1>1, MemInductive, PTL

(* A range that the kernel holds, as the graphics plugin does its banks    *)
(* (plugin_gfx.c:606), stays with all of the kernel's references until the *)
(* kernel gives one back, whatever processes do and whatever fails.        *)
THEOREM KernelRangesAreKept == MemSpec => KernelKeepsRanges
<1>1. MemInv /\ [MemNext]_memVars => HeldRangesStay
    BY MemStep
<1>2. MemInv /\ [MemNext]_memVars => [HeldRangesStay]_memVars
    BY <1>1
<1>3. MemSpec => [][HeldRangesStay]_memVars
    BY <1>2, MemInductive, PTL DEF MemSpec
<1>4. QED BY <1>3 DEF KernelKeepsRanges

-----------------------------------------------------------------------------
(* The search tree.                                                        *)

(* A walk that stays in P, and shrinks D with every step, ends where its   *)
(* next step would stay.                                                   *)
Walks(G, P, D) ==
    /\ G \in [Members -> Members] /\ D \in [Members -> SUBSET Members]
    /\ \A x \in P : x \in Members /\ G[x] \in P
    /\ \A x \in P : G[x] # x => D[G[x]] \subseteq D[x] /\ D[G[x]] # D[x]

LEMMA WalkEnds ==
    ASSUME IsFiniteSet(Members), NEW G, NEW P, NEW D, Walks(G, P, D), NEW a \in P
    PROVE  Walk(G, a) \in P /\ Walk(G, a) \in Members /\ G[Walk(G, a)] = Walk(G, a)
<1>0. /\ Size \in Nat /\ G \in [Members -> Members] /\ a \in Members
      /\ \A x \in Members : D[x] \subseteq Members
    BY FS_CardinalityType DEF Size, Walks
<1> DEFINE Rec(g) == g = [k \in 0 .. Size |-> IF k = 0 THEN a ELSE G[g[k - 1]]]
           at == CHOOSE g : Rec(g)
<1>1. Rec(at)
  <2>1. PICK g : Repeats(g, Members, a, G, Size)
    BY <1>0, Iterates
  <2>2. g = [k \in 0 .. Size |-> IF k = 0 THEN a ELSE G[g[k - 1]]]
    BY <1>0, <2>1 DEF Repeats
  <2>3. QED BY <2>2
<1>2. at[0] = a /\ \A k \in 1 .. Size : at[k] = G[at[k - 1]]
  <2> HIDE DEF at
  <2>1. QED BY <1>0, <1>1
<1>3. Walk(G, a) = at[Size]
    BY DEF Walk
<1> HIDE DEF at
<1> DEFINE Far(k) == /\ at[k] \in P
                     /\ G[at[k]] = at[k] \/ Cardinality(D[at[k]]) + k <= Size
           T == {k \in 0 .. Size : Far(k)}
<1>4. \A x \in Members : Cardinality(D[x]) \in Nat /\ Cardinality(D[x]) <= Size
    BY <1>0, FS_Subset, FS_CardinalityType DEF Size
<1>5. \A x \in P : G[x] # x => Cardinality(D[G[x]]) < Cardinality(D[x])
  <2> SUFFICES ASSUME NEW x \in P, G[x] # x PROVE Cardinality(D[G[x]]) < Cardinality(D[x])
    OBVIOUS
  <2>1. /\ x \in Members /\ G[x] \in Members /\ D[G[x]] \subseteq D[x] /\ D[G[x]] # D[x]
    BY DEF Walks
  <2>2. IsFiniteSet(D[x])
    BY <1>0, <2>1, FS_Subset
  <2>3. Cardinality(D[G[x]]) <= Cardinality(D[x]) /\ Cardinality(D[G[x]]) # Cardinality(D[x])
    BY <2>1, <2>2, FS_Subset
  <2>4. QED BY <1>4, <2>1, <2>3
<1>6. 0 \in T
  <2>1. Cardinality(D[a]) + 0 <= Size
    BY <1>0, <1>4
  <2>2. QED BY <1>0, <1>2, <2>1
<1>7. \A k \in 1 .. Size : k - 1 \in T => k \in T
  <2> SUFFICES ASSUME NEW k \in 1 .. Size, k - 1 \in T PROVE Far(k)
    BY <1>0
  <2> DEFINE x == at[k - 1]
  <2>1. /\ x \in P /\ x \in Members /\ at[k] = G[x] /\ G[x] \in P
        /\ G[x] = x \/ Cardinality(D[x]) + (k - 1) <= Size
    BY <1>2 DEF Walks
  <2> HIDE DEF x
  <2>2. CASE G[x] = x
    BY <2>1, <2>2
  <2>3. CASE G[x] # x
    <3>1. Cardinality(D[G[x]]) < Cardinality(D[x])
        BY <1>5, <2>1, <2>3
    <3>2. G[x] \in Members
        BY <1>0, <2>1
    <3>3. Cardinality(D[G[x]]) + k <= Size
        BY <1>0, <1>4, <2>1, <2>3, <3>1, <3>2
    <3>4. QED BY <2>1, <3>3
  <2>4. QED BY <2>2, <2>3
<1>8. Far(Size)
  <2> HIDE DEF T
  <2>1. 0 .. Size \subseteq T
    BY <1>0, <1>6, <1>7, Upwards
  <2>2. Size \in T
    BY <1>0, <2>1
  <2>3. QED BY <2>2 DEF T
<1>9. at[Size] \in Members /\ G[at[Size]] \in Members
    BY <1>0, <1>8 DEF Walks
<1>10. G[at[Size]] = at[Size]
  <2> SUFFICES ASSUME G[at[Size]] # at[Size] PROVE FALSE
    OBVIOUS
  <2>1. Cardinality(D[G[at[Size]]]) < Cardinality(D[at[Size]])
    BY <1>5, <1>8
  <2>2. QED BY <1>0, <1>4, <1>8, <1>9, <2>1
<1>11. QED BY <1>3, <1>8, <1>9, <1>10

(* The values between which a node's subtree lies are kept in lo and hi;   *)
(* Null is no bound.                                                       *)
Lower(w, h)  == h = Null \/ w < h
AtMost(g, h) == h = Null \/ (g # Null /\ g <= h)

LeftIs(M, n, lo, hi, v) ==
    LET l == n[v].left IN
    IF l = Null THEN \A w \in M : ~(lo[v] < w /\ w < v)
    ELSE l \in M /\ n[l].parent = v /\ lo[l] = lo[v] /\ hi[l] = v

RightIs(M, n, lo, hi, v) ==
    LET r == n[v].right IN
    IF r = Null THEN \A w \in M : ~(v < w /\ Lower(w, hi[v]))
    ELSE r \in M /\ n[r].parent = v /\ lo[r] = v /\ hi[r] = hi[v]

ParentIs(M, r, n, v) ==
    LET p == n[v].parent IN
    IF p = Null THEN v = r ELSE p \in M /\ (n[p].left = v \/ n[p].right = v)

(* A bound is a node over the one it bounds, with the wider bounds.        *)
BoundsAre(lo, hi, v) ==
    /\ lo[v] < v /\ Lower(v, hi[v])
    /\ lo[v] # Null => AtMost(hi[v], hi[lo[v]])
    /\ hi[v] # Null => lo[hi[v]] <= lo[v]

Links == [left : Nat, right : Nat, parent : Nat]

TreeTypes(M, r, n, lo, hi) ==
    /\ IsFiniteSet(M) /\ M \subseteq Nat \ {Null} /\ n \in [M -> Links]
    /\ lo \in [M -> M \cup {Null}] /\ hi \in [M -> M \cup {Null}]
    /\ IF r = Null THEN M = {} ELSE r \in M /\ n[r].parent = Null /\ lo[r] = Null /\ hi[r] = Null

Shape(M, r, n, lo, hi) ==
    /\ TreeTypes(M, r, n, lo, hi)
    /\ \A v \in M : /\ LeftIs(M, n, lo, hi, v) /\ RightIs(M, n, lo, hi, v)
                    /\ ParentIs(M, r, n, v) /\ BoundsAre(lo, hi, v)

(* The parts of a sound tree, one by one.                                  *)
LEMMA ShapeIs ==
    ASSUME NEW M, NEW r, NEW n, NEW lo, NEW hi, Shape(M, r, n, lo, hi)
    PROVE  /\ IsFiniteSet(M) /\ M \subseteq Nat \ {0} /\ Null \notin M /\ n \in [M -> Links]
           /\ lo \in [M -> M \cup {Null}] /\ hi \in [M -> M \cup {Null}]
           /\ \A x \in M : /\ x \in Nat \ {0} /\ x # Null
                           /\ lo[x] \in Nat /\ hi[x] \in Nat
                           /\ lo[x] \in M \cup {Null} /\ hi[x] \in M \cup {Null}
           /\ TreeTypes(M, r, n, lo, hi)
           /\ \A x \in M : /\ LeftIs(M, n, lo, hi, x) /\ RightIs(M, n, lo, hi, x)
                           /\ ParentIs(M, r, n, x) /\ BoundsAre(lo, hi, x)
<1>1. TreeTypes(M, r, n, lo, hi)
    BY DEF Shape
<1>2. /\ IsFiniteSet(M) /\ M \subseteq Nat \ {0} /\ Null \notin M /\ n \in [M -> Links]
      /\ lo \in [M -> M \cup {Null}] /\ hi \in [M -> M \cup {Null}] /\ M \cup {Null} \subseteq Nat
    BY <1>1 DEF TreeTypes, Null
<1>3. \A x \in M : /\ lo[x] \in Nat /\ hi[x] \in Nat
                   /\ lo[x] \in M \cup {Null} /\ hi[x] \in M \cup {Null}
    BY <1>2
<1>4. \A x \in M : x \in Nat \ {0} /\ x # Null
    BY <1>2
<1>5. QED BY <1>1, <1>2, <1>3, <1>4 DEF Shape

(* What the node over x tells of the bounds of x.                          *)
Over(M, r, n, lo, hi, x) ==
    LET p == n[x].parent IN
    IF p = Null THEN x = r /\ lo[x] = Null /\ hi[x] = Null
    ELSE /\ p \in M /\ p # x /\ x # r
         /\ \/ n[p].left = x /\ n[p].right # x /\ hi[x] = p /\ lo[x] = lo[p] /\ x < p
            \/ n[p].right = x /\ n[p].left # x /\ lo[x] = p /\ hi[x] = hi[p] /\ p < x

LEMMA OverIs ==
    ASSUME NEW M, NEW r, NEW n, NEW lo, NEW hi, Shape(M, r, n, lo, hi), NEW x \in M
    PROVE  Over(M, r, n, lo, hi, x)
<1> DEFINE p == n[x].parent
<1>1. ParentIs(M, r, n, x) /\ BoundsAre(lo, hi, x) /\ x # Null /\ x \in Nat /\ TreeTypes(M, r, n, lo, hi)
    BY ShapeIs
<1>2. CASE p = Null
  <2>1. x = r
    BY <1>1, <1>2 DEF ParentIs
  <2>2. QED BY <1>1, <1>2, <2>1 DEF TreeTypes, Over
<1>3. CASE p # Null
  <2>1. p \in M /\ (n[p].left = x \/ n[p].right = x)
    BY <1>1, <1>3 DEF ParentIs
  <2>2. LeftIs(M, n, lo, hi, p) /\ RightIs(M, n, lo, hi, p) /\ p \in Nat
    BY <2>1, ShapeIs
  <2>3. /\ n[p].left = x => hi[x] = p /\ lo[x] = lo[p]
        /\ n[p].right = x => lo[x] = p /\ hi[x] = hi[p]
    BY <1>1, <2>2 DEF LeftIs, RightIs
  <2>4. /\ n[p].left = x => x < p
        /\ n[p].right = x => p < x
    BY <1>1, <1>3, <2>3 DEF BoundsAre, Lower
  <2>5. x # r
    BY <1>1, <1>3 DEF TreeTypes
  <2> HIDE DEF p
  <2>6. ~(x < p /\ p < x) /\ (x < p => p # x) /\ (p < x => p # x)
    BY <1>1, <2>2
  <2>7. /\ p \in M /\ p # x /\ x # r
        /\ \/ n[p].left = x /\ n[p].right # x /\ hi[x] = p /\ lo[x] = lo[p] /\ x < p
           \/ n[p].right = x /\ n[p].left # x /\ lo[x] = p /\ hi[x] = hi[p] /\ p < x
    BY <2>1, <2>3, <2>4, <2>5, <2>6
  <2>8. QED BY <1>3, <2>7 DEF Over, p
<1>4. QED BY <1>2, <1>3

(* The measures of the walks: who is less, and who is greater.             *)
Lesser  == [x \in Members |-> {w \in Members : w < x}]
Greater == [x \in Members |-> {w \in Members : x < w}]

LEMMA Nested ==
    ASSUME Members \subseteq Nat, NEW x \in Members, NEW y \in Members
    PROVE  /\ y < x => Lesser[y] \subseteq Lesser[x] /\ Lesser[y] # Lesser[x]
           /\ x < y => Greater[y] \subseteq Greater[x] /\ Greater[y] # Greater[x]
<1>1. /\ \A w : w \in Lesser[x] <=> w \in Members /\ w < x
      /\ \A w : w \in Lesser[y] <=> w \in Members /\ w < y
      /\ \A w : w \in Greater[x] <=> w \in Members /\ x < w
      /\ \A w : w \in Greater[y] <=> w \in Members /\ y < w
    BY DEF Lesser, Greater
<1>2. ASSUME y < x PROVE Lesser[y] \subseteq Lesser[x] /\ Lesser[y] # Lesser[x]
  <2>0. x \in Nat /\ y \in Nat
    OBVIOUS
  <2>1. y \in Lesser[x] /\ y \notin Lesser[y]
    BY <1>1, <1>2, <2>0
  <2>2. \A w \in Lesser[y] : w \in Lesser[x]
    <3>1. \A w \in Members : w \in Nat
        OBVIOUS
    <3>2. \A w \in Members : w < y => w < x
        BY <1>2, <2>0, <3>1
    <3>3. QED BY <1>1, <3>2, Zenon
  <2>3. QED BY <2>1, <2>2
<1>3. ASSUME x < y PROVE Greater[y] \subseteq Greater[x] /\ Greater[y] # Greater[x]
  <2>0. x \in Nat /\ y \in Nat
    OBVIOUS
  <2>1. y \in Greater[x] /\ y \notin Greater[y]
    BY <1>1, <1>3, <2>0
  <2>2. \A w \in Greater[y] : w \in Greater[x]
    <3>1. \A w \in Members : w \in Nat
        OBVIOUS
    <3>2. \A w \in Members : y < w => x < w
        BY <1>3, <2>0, <3>1
    <3>3. QED BY <1>1, <3>2, Zenon
  <2>3. QED BY <2>1, <2>2
<1>4. QED BY <1>2, <1>3

(* Where the walks along a side, up and down end.                          *)
LEMMA LeftEnd ==
    ASSUME NEW lo, NEW hi, Shape(Members, root, node, lo, hi), NEW a \in Members
    PROVE  LET e == Along(node, "left", a)
           IN  e \in Members /\ node[e].left = Null /\ lo[e] = lo[a]
<1> DEFINE G == [x \in Members |-> IF node[x]["left"] = Null THEN x ELSE node[x]["left"]]
           P == {x \in Members : lo[x] = lo[a]}
<1>0. IsFiniteSet(Members) /\ a \in P /\ Members \subseteq Nat
    BY DEF Shape, TreeTypes
<1>1. ASSUME NEW x \in Members
      PROVE  /\ G[x] \in Members /\ (x \in P => G[x] \in P)
             /\ G[x] # x => G[x] < x
  <2>1. LeftIs(Members, node, lo, hi, x) /\ \A y \in Members : BoundsAre(lo, hi, y)
    BY DEF Shape
  <2>2. CASE node[x].left = Null
    BY <2>2
  <2>3. CASE node[x].left # Null
    <3>1. /\ G[x] = node[x].left /\ G[x] \in Members /\ lo[G[x]] = lo[x] /\ hi[G[x]] = x
        BY <2>1, <2>3 DEF LeftIs
    <3>2. Lower(G[x], hi[G[x]]) /\ x # Null
        BY <2>1, <3>1 DEF BoundsAre, Shape, TreeTypes
    <3> HIDE DEF G
    <3>3. QED BY <3>1, <3>2 DEF Lower
  <2>4. QED BY <2>2, <2>3
<1>2. Walks(G, P, Lesser)
  <2>1. ASSUME NEW x \in P, G[x] # x PROVE Lesser[G[x]] \subseteq Lesser[x] /\ Lesser[G[x]] # Lesser[x]
    <3>1. x \in Members /\ G[x] \in Members /\ G[x] < x
        BY <1>1, <2>1
    <3> HIDE DEF G
    <3>2. QED BY <1>0, <3>1, Nested
  <2>2. G \in [Members -> Members] /\ Lesser \in [Members -> SUBSET Members]
    BY <1>1 DEF Lesser
  <2> HIDE DEF G
  <2>3. QED BY <1>1, <2>1, <2>2 DEF Walks
<1>3. Along(node, "left", a) = Walk(G, a)
    BY DEF Along
<1> HIDE DEF G
<1>4. /\ Walk(G, a) \in P /\ Walk(G, a) \in Members /\ G[Walk(G, a)] = Walk(G, a)
    BY <1>0, <1>2, WalkEnds
<1> DEFINE e == Walk(G, a)
<1> HIDE DEF e
<1>5. node[e].left = Null
  <2>1. e \in Members /\ G[e] = e
    BY <1>4 DEF e
  <2>2. LeftIs(Members, node, lo, hi, e) /\ \A y \in Members : BoundsAre(lo, hi, y)
    BY <2>1 DEF Shape
  <2> SUFFICES ASSUME node[e].left # Null PROVE FALSE
    OBVIOUS
  <2>3. node[e].left = e /\ hi[e] = e
    BY <2>1, <2>2 DEF G, LeftIs
  <2>4. QED BY <1>0, <2>1, <2>2, <2>3 DEF BoundsAre, Lower, Shape, TreeTypes
<1>6. QED BY <1>3, <1>4, <1>5 DEF e

LEMMA RightEnd ==
    ASSUME NEW lo, NEW hi, Shape(Members, root, node, lo, hi), NEW a \in Members
    PROVE  LET e == Along(node, "right", a)
           IN  e \in Members /\ node[e].right = Null /\ hi[e] = hi[a]
<1> DEFINE G == [x \in Members |-> IF node[x]["right"] = Null THEN x ELSE node[x]["right"]]
           P == {x \in Members : hi[x] = hi[a]}
<1>0. IsFiniteSet(Members) /\ a \in P /\ Members \subseteq Nat
    BY DEF Shape, TreeTypes
<1>1. ASSUME NEW x \in Members
      PROVE  /\ G[x] \in Members /\ (x \in P => G[x] \in P)
             /\ G[x] # x => x < G[x]
  <2>1. RightIs(Members, node, lo, hi, x) /\ \A y \in Members : BoundsAre(lo, hi, y)
    BY DEF Shape
  <2>2. CASE node[x].right = Null
    BY <2>2
  <2>3. CASE node[x].right # Null
    <3>1. /\ G[x] = node[x].right /\ G[x] \in Members /\ lo[G[x]] = x /\ hi[G[x]] = hi[x]
        BY <2>1, <2>3 DEF RightIs
    <3>2. lo[G[x]] < G[x]
        BY <2>1, <3>1 DEF BoundsAre
    <3> HIDE DEF G
    <3>3. QED BY <3>1, <3>2
  <2>4. QED BY <2>2, <2>3
<1>2. Walks(G, P, Greater)
  <2>1. ASSUME NEW x \in P, G[x] # x PROVE Greater[G[x]] \subseteq Greater[x] /\ Greater[G[x]] # Greater[x]
    <3>1. x \in Members /\ G[x] \in Members /\ x < G[x]
        BY <1>1, <2>1
    <3> HIDE DEF G
    <3>2. QED BY <1>0, <3>1, Nested
  <2>2. G \in [Members -> Members] /\ Greater \in [Members -> SUBSET Members]
    BY <1>1 DEF Greater
  <2> HIDE DEF G
  <2>3. QED BY <1>1, <2>1, <2>2 DEF Walks
<1>3. Along(node, "right", a) = Walk(G, a)
    BY DEF Along
<1> HIDE DEF G
<1>4. /\ Walk(G, a) \in P /\ Walk(G, a) \in Members /\ G[Walk(G, a)] = Walk(G, a)
    BY <1>0, <1>2, WalkEnds
<1> DEFINE e == Walk(G, a)
<1> HIDE DEF e
<1>5. node[e].right = Null
  <2>1. e \in Members /\ G[e] = e
    BY <1>4 DEF e
  <2>2. RightIs(Members, node, lo, hi, e) /\ \A y \in Members : BoundsAre(lo, hi, y)
    BY <2>1 DEF Shape
  <2> SUFFICES ASSUME node[e].right # Null PROVE FALSE
    OBVIOUS
  <2>3. node[e].right = e /\ lo[e] = e
    BY <2>1, <2>2 DEF G, RightIs
  <2>4. BoundsAre(lo, hi, e) /\ e \in Nat
    BY <1>0, <2>1, <2>2
  <2>5. lo[e] < e
    BY <2>4 DEF BoundsAre
  <2>6. QED BY <2>3, <2>4, <2>5
<1>6. QED BY <1>3, <1>4, <1>5 DEF e

(* Up from a left child is where its subtree ends, up from a right child   *)
(* where it begins.                                                        *)
LEMMA UpEnds ==
    ASSUME NEW lo, NEW hi, Shape(Members, root, node, lo, hi), NEW a \in Members
    PROVE  UpFrom("left", a) = hi[a] /\ UpFrom("right", a) = lo[a]
<1> DEFINE GL == [x \in Members |-> Higher("left", x)]
           GR == [x \in Members |-> Higher("right", x)]
           PL == {x \in Members : hi[x] = hi[a]}
           PR == {x \in Members : lo[x] = lo[a]}
<1>0. /\ IsFiniteSet(Members) /\ a \in PL /\ a \in PR /\ Members \subseteq Nat \ {Null}
    BY DEF Shape, TreeTypes
<1>1. \A x \in Members : Over(Members, root, node, lo, hi, x)
    BY OverIs
<1>2. ASSUME NEW x \in Members
      PROVE  /\ GL[x] \in Members /\ (x \in PL => GL[x] \in PL) /\ (GL[x] # x => GL[x] < x)
             /\ GR[x] \in Members /\ (x \in PR => GR[x] \in PR) /\ (GR[x] # x => x < GR[x])
    BY <1>1 DEF Higher, Over
<1>3. Walks(GL, PL, Lesser)
  <2>1. ASSUME NEW x \in PL, GL[x] # x PROVE Lesser[GL[x]] \subseteq Lesser[x] /\ Lesser[GL[x]] # Lesser[x]
    <3>1. x \in Members /\ GL[x] \in Members /\ GL[x] < x
        BY <1>2, <2>1
    <3> HIDE DEF GL
    <3>2. QED BY <1>0, <3>1, Nested
  <2>2. GL \in [Members -> Members] /\ Lesser \in [Members -> SUBSET Members]
    BY <1>2 DEF Lesser
  <2> HIDE DEF GL
  <2>3. QED BY <1>2, <2>1, <2>2 DEF Walks
<1>4. Walks(GR, PR, Greater)
  <2>1. ASSUME NEW x \in PR, GR[x] # x PROVE Greater[GR[x]] \subseteq Greater[x] /\ Greater[GR[x]] # Greater[x]
    <3>1. x \in Members /\ GR[x] \in Members /\ x < GR[x]
        BY <1>2, <2>1
    <3> HIDE DEF GR
    <3>2. QED BY <1>0, <3>1, Nested
  <2>2. GR \in [Members -> Members] /\ Greater \in [Members -> SUBSET Members]
    BY <1>2 DEF Greater
  <2> HIDE DEF GR
  <2>3. QED BY <1>2, <2>1, <2>2 DEF Walks
<1>5. UpFrom("left", a) = node[Walk(GL, a)].parent /\ UpFrom("right", a) = node[Walk(GR, a)].parent
    BY DEF UpFrom
<1>6. \A x \in Members : GL[x] = Higher("left", x) /\ GR[x] = Higher("right", x)
    OBVIOUS
<1> HIDE DEF GL, GR
<1>7. /\ Walk(GL, a) \in PL /\ Walk(GL, a) \in Members /\ GL[Walk(GL, a)] = Walk(GL, a)
      /\ Walk(GR, a) \in PR /\ Walk(GR, a) \in Members /\ GR[Walk(GR, a)] = Walk(GR, a)
    BY <1>0, <1>3, <1>4, WalkEnds
<1>8. ASSUME NEW x \in Members, Higher("left", x) = x PROVE node[x].parent = hi[x]
  <2>1. Over(Members, root, node, lo, hi, x)
    BY <1>1
  <2>2. QED BY <1>8, <2>1 DEF Higher, Over
<1>9. ASSUME NEW x \in Members, Higher("right", x) = x PROVE node[x].parent = lo[x]
  <2>1. Over(Members, root, node, lo, hi, x)
    BY <1>1
  <2>2. QED BY <1>9, <2>1 DEF Higher, Over
<1>10. node[Walk(GL, a)].parent = hi[Walk(GL, a)] /\ node[Walk(GR, a)].parent = lo[Walk(GR, a)]
    BY <1>6, <1>7, <1>8, <1>9
<1>11. QED BY <1>5, <1>7, <1>10

(* The place of a value is its node, or the one its gap is next to.        *)
LEMMA SpotIs ==
    ASSUME NEW lo, NEW hi, Shape(Members, root, node, lo, hi), root # Null, NEW v \in Nat \ {Null}
    PROVE  LET e == Spot(v)
           IN  /\ e \in Members /\ lo[e] < v /\ Lower(v, hi[e])
               /\ v < e => node[e].left = Null
               /\ e < v => node[e].right = Null
<1> DEFINE G == [x \in Members |-> Nearer(v, x)]
           P == {x \in Members : lo[x] < v /\ Lower(v, hi[x])}
           D == [x \in Members |-> {w \in Members : lo[x] < w /\ Lower(w, hi[x])}]
<1>0. /\ IsFiniteSet(Members) /\ Members \subseteq Nat \ {Null}
      /\ \A y \in Members : BoundsAre(lo, hi, y) /\ lo[y] \in Nat /\ hi[y] \in Nat
      /\ \A y \in Members : LeftIs(Members, node, lo, hi, y) /\ RightIs(Members, node, lo, hi, y)
      /\ root \in Members /\ hi[root] = Null /\ lo[root] = Null
  <2>1. TreeTypes(Members, root, node, lo, hi)
    BY DEF Shape
  <2>2. \A y \in Members : lo[y] \in Nat /\ hi[y] \in Nat
    <3>1. Members \cup {Null} \subseteq Nat
        BY <2>1 DEF TreeTypes, Null
    <3>2. lo \in [Members -> Members \cup {Null}] /\ hi \in [Members -> Members \cup {Null}]
        BY <2>1 DEF TreeTypes
    <3>3. QED BY <3>1, <3>2
  <2>3. /\ IsFiniteSet(Members) /\ Members \subseteq Nat \ {Null}
        /\ root \in Members /\ hi[root] = Null /\ lo[root] = Null
    BY <2>1 DEF TreeTypes
  <2>4. QED BY <2>2, <2>3 DEF Shape
<1>1. root \in P
    BY <1>0 DEF Lower, Null
<1>2. ASSUME NEW x \in Members
      PROVE  \/ Nearer(v, x) = x /\ (v < x => node[x].left = Null) /\ (x < v => node[x].right = Null)
             \/ /\ Nearer(v, x) \in Members /\ v < x
                /\ lo[Nearer(v, x)] = lo[x] /\ hi[Nearer(v, x)] = x
             \/ /\ Nearer(v, x) \in Members /\ x < v
                /\ lo[Nearer(v, x)] = x /\ hi[Nearer(v, x)] = hi[x]
  <2>0. LeftIs(Members, node, lo, hi, x) /\ RightIs(Members, node, lo, hi, x) /\ x \in Nat
    BY <1>0
  <2>1. CASE x = v
    BY <2>0, <2>1 DEF Nearer
  <2>2. CASE v < x
    BY <2>0, <2>2 DEF Nearer, SideOf, LeftIs
  <2>3. CASE x < v
    BY <2>0, <2>3 DEF Nearer, SideOf, RightIs
  <2>4. QED BY <2>0, <2>1, <2>2, <2>3
<1>3. ASSUME NEW x \in P PROVE Nearer(v, x) \in P
  <2>1. x \in Members /\ x \in Nat \ {Null} /\ lo[x] < v /\ Lower(v, hi[x])
    BY <1>0
  <2>2. CASE Nearer(v, x) = x
    BY <2>2
  <2>3. CASE Nearer(v, x) # x
    <3>1. /\ Nearer(v, x) \in Members
          /\ lo[Nearer(v, x)] < v /\ Lower(v, hi[Nearer(v, x)])
        BY <1>2, <2>1, <2>3 DEF Lower
    <3>2. QED BY <3>1
  <2>4. QED BY <2>2, <2>3
<1>4. ASSUME NEW x \in Members, Nearer(v, x) # x
      PROVE  /\ \A w \in Members : /\ lo[Nearer(v, x)] < w /\ Lower(w, hi[Nearer(v, x)])
                                   => lo[x] < w /\ Lower(w, hi[x])
             /\ lo[x] < x /\ Lower(x, hi[x])
             /\ ~(lo[Nearer(v, x)] < x /\ Lower(x, hi[Nearer(v, x)]))
  <2>1. BoundsAre(lo, hi, x) /\ x \in Nat \ {Null} /\ lo[x] \in Nat /\ hi[x] \in Nat
    BY <1>0
  <2>2. /\ Nearer(v, x) \in Members
        /\ \/ lo[Nearer(v, x)] = lo[x] /\ hi[Nearer(v, x)] = x
           \/ lo[Nearer(v, x)] = x /\ hi[Nearer(v, x)] = hi[x]
    BY <1>2, <1>4
  <2>3. lo[x] < x /\ Lower(x, hi[x])
    BY <2>1 DEF BoundsAre
  <2>4. QED BY <1>0, <2>1, <2>2, <2>3 DEF Lower
<1>5. Walks(G, P, D)
  <2>1. \A x \in Members : G[x] = Nearer(v, x) /\ G[x] \in Members
    BY <1>2
  <2>2. G \in [Members -> Members] /\ D \in [Members -> SUBSET Members]
    BY <2>1
  <2>3. \A x \in Members : \A w : w \in D[x] <=> w \in Members /\ lo[x] < w /\ Lower(w, hi[x])
    OBVIOUS
  <2> HIDE DEF G, D
  <2>4. ASSUME NEW x \in P, G[x] # x PROVE D[G[x]] \subseteq D[x] /\ D[G[x]] # D[x]
    <3>1. x \in Members /\ G[x] \in Members /\ G[x] = Nearer(v, x)
        BY <2>1
    <3>2. x \in D[x] /\ x \notin D[G[x]]
        BY <1>4, <2>3, <2>4, <3>1
    <3>3. D[G[x]] \subseteq D[x]
        BY <1>4, <2>3, <2>4, <3>1
    <3>4. QED BY <3>2, <3>3
  <2>5. \A x \in P : x \in Members /\ G[x] \in P
    BY <1>3, <2>1
  <2> HIDE DEF P
  <2>6. QED BY <2>2, <2>4, <2>5 DEF Walks
<1>6. Spot(v) = Walk(G, root) /\ \A x \in Members : G[x] = Nearer(v, x)
    BY DEF Spot
<1> HIDE DEF G, D
<1>7. Walk(G, root) \in P /\ Walk(G, root) \in Members /\ G[Walk(G, root)] = Walk(G, root)
    BY <1>0, <1>1, <1>5, WalkEnds
<1> DEFINE e == Walk(G, root)
<1> HIDE DEF e
<1>8. e \in Members /\ Nearer(v, e) = e /\ lo[e] < v /\ Lower(v, hi[e])
    BY <1>6, <1>7 DEF e
<1>9. (v < e => node[e].left = Null) /\ (e < v => node[e].right = Null)
  <2>1. BoundsAre(lo, hi, e) /\ e \in Nat \ {Null} /\ hi[e] # e /\ lo[e] # e
    BY <1>0, <1>8 DEF BoundsAre, Lower
  <2>2. QED BY <1>2, <1>8, <2>1
<1>10. QED BY <1>6, <1>8, <1>9 DEF e

-----------------------------------------------------------------------------
(* A sound tree is ordered.                                                *)
LEMMA LeastThere ==
    ASSUME NEW S, S \subseteq Nat, NEW m \in S, \A w \in S : m <= w
    PROVE  LeastOf(S) = m
<1>1. S # {} /\ \E v \in S : \A w \in S : v <= w
    OBVIOUS
<1>2. \A v \in S : (\A w \in S : v <= w) => v = m
  <2> SUFFICES ASSUME NEW v \in S, \A w \in S : v <= w PROVE v = m
    OBVIOUS
  <2>1. v <= m /\ m <= v /\ v \in Nat /\ m \in Nat
    OBVIOUS
  <2>2. QED BY <2>1
<1>3. QED BY <1>1, <1>2 DEF LeastOf

LEMMA GreatestThere ==
    ASSUME NEW S, S \subseteq Nat, NEW m \in S, \A w \in S : w <= m
    PROVE  GreatestOf(S) = m
<1>1. S # {} /\ \E v \in S : \A w \in S : w <= v
    OBVIOUS
<1>2. \A v \in S : (\A w \in S : w <= v) => v = m
  <2> SUFFICES ASSUME NEW v \in S, \A w \in S : w <= v PROVE v = m
    OBVIOUS
  <2>1. v <= m /\ m <= v /\ v \in Nat /\ m \in Nat
    OBVIOUS
  <2>2. QED BY <2>1
<1>3. QED BY <1>1, <1>2 DEF GreatestOf

LEMMA EndsAre ==
    ASSUME NEW lo, NEW hi, Shape(Members, root, node, lo, hi)
    PROVE  MinOf = LeastOf(Members) /\ MaxOf = GreatestOf(Members)
<1>1. CASE root = Null
  <2>1. Members = {}
    BY <1>1 DEF Shape, TreeTypes
  <2>2. QED BY <1>1, <2>1 DEF MinOf, MaxOf, LeastOf, GreatestOf
<1>2. CASE root # Null
  <2> DEFINE a == Along(node, "left", root)
             b == Along(node, "right", root)
  <2>1. root \in Members /\ lo[root] = Null /\ hi[root] = Null /\ Members \subseteq Nat \ {Null}
    BY <1>2 DEF Shape, TreeTypes
  <2>2. /\ a \in Members /\ node[a].left = Null /\ lo[a] = Null
        /\ b \in Members /\ node[b].right = Null /\ hi[b] = Null
    BY <2>1, LeftEnd, RightEnd
  <2> HIDE DEF a, b
  <2>3. LeftIs(Members, node, lo, hi, a) /\ RightIs(Members, node, lo, hi, b)
    BY <2>2 DEF Shape
  <2>4. \A w \in Members : ~(Null < w /\ w < a) /\ ~(b < w)
    BY <2>2, <2>3 DEF LeftIs, RightIs, Lower
  <2>5. \A w \in Members : a <= w /\ w <= b
    <3> SUFFICES ASSUME NEW w \in Members PROVE a <= w /\ w <= b
        OBVIOUS
    <3>1. w \in Nat \ {0} /\ a \in Nat /\ b \in Nat
        BY <2>1, <2>2 DEF Null
    <3>2. QED BY <2>4, <3>1 DEF Null
  <2>6. LeastOf(Members) = a /\ GreatestOf(Members) = b
    BY <2>1, <2>2, <2>5, LeastThere, GreatestThere
  <2>7. QED BY <1>2, <2>6 DEF MinOf, MaxOf, a, b
<1>3. QED BY <1>1, <1>2

LEMMA FoundAre ==
    ASSUME NEW lo, NEW hi, Shape(Members, root, node, lo, hi), NEW v \in Nat \ {Null}
    PROVE  Found(v) <=> v \in Members
<1>1. CASE root = Null
  <2>1. Members = {}
    BY <1>1 DEF Shape, TreeTypes
  <2>2. QED BY <1>1, <2>1 DEF Found
<1>2. CASE root # Null
  <2> DEFINE e == Spot(v)
  <2>1. /\ e \in Members /\ lo[e] < v /\ Lower(v, hi[e])
        /\ v < e => node[e].left = Null
        /\ e < v => node[e].right = Null
    BY <1>2, SpotIs
  <2> HIDE DEF e
  <2>2. LeftIs(Members, node, lo, hi, e) /\ RightIs(Members, node, lo, hi, e) /\ e \in Nat
    BY <2>1 DEF Shape, TreeTypes
  <2>3. ASSUME v \in Members PROVE e = v
    <3>1. ~(v < e)
        BY <2>1, <2>2, <2>3 DEF LeftIs
    <3>2. ~(e < v)
        BY <2>1, <2>2, <2>3 DEF RightIs
    <3>3. QED BY <2>2, <3>1, <3>2
  <2>4. QED BY <1>2, <2>1, <2>3 DEF Found, e
<1>3. QED BY <1>1, <1>2

LEMMA NextIs ==
    ASSUME NEW lo, NEW hi, Shape(Members, root, node, lo, hi), NEW v \in Members
    PROVE  NextOf(v) = LeastOf({w \in Members : w > v})
<1> DEFINE S == {w \in Members : w > v}
           m == NextOf(v)
<1>0. /\ Members \subseteq Nat \ {0} /\ v \in Nat /\ RightIs(Members, node, lo, hi, v)
      /\ \A x \in Members : /\ lo[x] \in Nat /\ hi[x] \in Members \cup {Null}
                            /\ LeftIs(Members, node, lo, hi, x) /\ BoundsAre(lo, hi, x)
  <2>1. TreeTypes(Members, root, node, lo, hi)
    BY DEF Shape
  <2>2. /\ Members \subseteq Nat \ {0} /\ v \in Nat
        /\ \A x \in Members : lo[x] \in Nat /\ hi[x] \in Members \cup {Null}
    <3>1. Members \subseteq Nat \ {0} /\ Members \cup {Null} \subseteq Nat
        BY <2>1 DEF TreeTypes, Null
    <3>2. lo \in [Members -> Members \cup {Null}] /\ hi \in [Members -> Members \cup {Null}]
        BY <2>1 DEF TreeTypes
    <3>3. QED BY <3>1, <3>2
  <2>3. QED BY <2>2 DEF Shape
<1>1. CASE node[v].right # Null
  <2> DEFINE r == node[v].right
  <2>1. r \in Members /\ lo[r] = v
    BY <1>0, <1>1 DEF RightIs
  <2>2. m \in Members /\ node[m].left = Null /\ lo[m] = v
    BY <1>1, <2>1, LeftEnd DEF NextOf
  <2> HIDE DEF m, r
  <2>3. v < m /\ \A w \in Members : ~(v < w /\ w < m)
    BY <1>0, <2>2 DEF LeftIs, BoundsAre
  <2>4. m \in S /\ \A w \in S : m <= w
    <3>1. m \in Nat /\ v \in Nat /\ \A w \in Members : w \in Nat
        BY <1>0, <2>2
    <3>2. m \in S
        BY <2>2, <2>3
    <3>3. ASSUME NEW w \in S PROVE m <= w
        BY <3>1, <2>3
    <3>4. QED BY <3>2, <3>3
  <2>5. S \subseteq Nat
    BY <1>0
  <2> HIDE DEF S
  <2>6. LeastOf(S) = m
    BY <2>4, <2>5, LeastThere
  <2>7. QED BY <2>6 DEF m, S
<1>2. CASE node[v].right = Null
  <2>1. m = hi[v]
    BY <1>2, UpEnds DEF NextOf
  <2>2. \A w \in Members : ~(v < w /\ Lower(w, hi[v]))
    BY <1>0, <1>2 DEF RightIs
  <2>3. CASE hi[v] = Null
    <3>1. S = {}
        BY <1>0, <2>2, <2>3 DEF Lower
    <3>2. QED BY <2>1, <2>3, <3>1 DEF LeastOf
  <2>4. CASE hi[v] # Null
    <3>1. m \in Members /\ v < m
        BY <1>0, <2>1, <2>4 DEF BoundsAre, Lower
    <3>2. \A w \in Members : ~(v < w /\ w < m)
        BY <2>1, <2>2 DEF Lower
    <3> HIDE DEF m
    <3>3. m \in S /\ \A w \in S : m <= w
      <4>1. m \in Nat /\ v \in Nat /\ \A w \in Members : w \in Nat
          BY <1>0, <3>1
      <4>2. m \in S
          BY <3>1, <3>2
      <4>3. ASSUME NEW w \in S PROVE m <= w
          BY <4>1, <3>2
      <4>4. QED BY <4>2, <4>3
    <3>4. S \subseteq Nat
        BY <1>0
    <3> HIDE DEF S
    <3>5. LeastOf(S) = m
        BY <3>3, <3>4, LeastThere
    <3>6. QED BY <3>5 DEF m, S
  <2>5. QED BY <2>3, <2>4
<1>3. QED BY <1>1, <1>2

LEMMA PrevIs ==
    ASSUME NEW lo, NEW hi, Shape(Members, root, node, lo, hi), NEW v \in Members
    PROVE  PrevOf(v) = GreatestOf({w \in Members : w < v})
<1> DEFINE S == {w \in Members : w < v}
           m == PrevOf(v)
<1>0. /\ Members \subseteq Nat \ {0} /\ v \in Nat /\ LeftIs(Members, node, lo, hi, v)
      /\ \A x \in Members : /\ lo[x] \in Members \cup {Null}
                            /\ RightIs(Members, node, lo, hi, x) /\ BoundsAre(lo, hi, x)
  <2>1. TreeTypes(Members, root, node, lo, hi)
    BY DEF Shape
  <2>2. /\ Members \subseteq Nat \ {0} /\ v \in Nat
        /\ \A x \in Members : lo[x] \in Members \cup {Null}
    BY <2>1 DEF TreeTypes, Null
  <2>3. QED BY <2>2 DEF Shape
<1>1. CASE node[v].left # Null
  <2> DEFINE l == node[v].left
  <2>1. l \in Members /\ hi[l] = v
    BY <1>0, <1>1 DEF LeftIs
  <2>2. m \in Members /\ node[m].right = Null /\ hi[m] = v
    BY <1>1, <2>1, RightEnd DEF PrevOf
  <2>3. v # Null
    BY <1>0 DEF Null
  <2> HIDE DEF m, l
  <2>4. m < v /\ \A w \in Members : ~(m < w /\ w < v)
    BY <1>0, <2>2, <2>3 DEF RightIs, BoundsAre, Lower
  <2>5. m \in S /\ \A w \in S : w <= m
    <3>1. m \in Nat /\ v \in Nat /\ \A w \in Members : w \in Nat
        BY <1>0, <2>2
    <3>2. m \in S
        BY <2>2, <2>4
    <3>3. ASSUME NEW w \in S PROVE w <= m
        BY <3>1, <2>4
    <3>4. QED BY <3>2, <3>3
  <2>6. S \subseteq Nat
    BY <1>0
  <2> HIDE DEF S
  <2>7. GreatestOf(S) = m
    BY <2>5, <2>6, GreatestThere
  <2>8. QED BY <2>7 DEF m, S
<1>2. CASE node[v].left = Null
  <2>1. m = lo[v]
    BY <1>2, UpEnds DEF PrevOf
  <2>2. \A w \in Members : ~(lo[v] < w /\ w < v)
    BY <1>0, <1>2 DEF LeftIs
  <2>3. CASE lo[v] = Null
    <3>1. ASSUME NEW w \in Members, w < v PROVE FALSE
        <4>1. ~(0 < w /\ w < v) /\ w \in Nat \ {0}
            BY <1>0, <2>2, <2>3 DEF Null
        <4>2. QED BY <3>1, <4>1
    <3>2. S = {}
        BY <3>1
    <3>3. QED BY <2>1, <2>3, <3>2 DEF GreatestOf
  <2>4. CASE lo[v] # Null
    <3>1. m \in Members /\ m < v
        BY <1>0, <2>1, <2>4 DEF BoundsAre
    <3>2. \A w \in Members : ~(m < w /\ w < v)
        BY <2>1, <2>2
    <3> HIDE DEF m
    <3>3. m \in S /\ \A w \in S : w <= m
      <4>1. m \in Nat /\ v \in Nat /\ \A w \in Members : w \in Nat
          BY <1>0, <3>1
      <4>2. m \in S
          BY <3>1, <3>2
      <4>3. ASSUME NEW w \in S PROVE w <= m
          BY <4>1, <3>2
      <4>4. QED BY <4>2, <4>3
    <3>4. S \subseteq Nat
        BY <1>0
    <3> HIDE DEF S
    <3>5. GreatestOf(S) = m
        BY <3>3, <3>4, GreatestThere
    <3>6. QED BY <3>5 DEF m, S
  <2>5. QED BY <2>3, <2>4
<1>3. QED BY <1>1, <1>2

LEMMA SoundIsSorted ==
    ASSUME NEW lo, NEW hi, Shape(Members, root, node, lo, hi)
    PROVE  LinksAgree /\ WalksAreSorted
<1>1. TreeTypes(Members, root, node, lo, hi)
    BY DEF Shape
<1>2. WalksAreSorted
  <2>1. \A v \in Values : v \in Nat \ {Null}
    BY TreeAssumption
  <2>2. \A v \in Values : Found(v) <=> v \in Members
    BY <2>1, FoundAre
  <2>3. QED BY <2>2, EndsAre, NextIs, PrevIs DEF WalksAreSorted
<1>3. LinksAgree
  <2>1. (root = Null) <=> (Members = {})
    BY <1>1 DEF TreeTypes
  <2>2. ASSUME NEW v \in Members PROVE (node[v].parent = Null) <=> (v = root)
    <3>1. ParentIs(Members, root, node, v) /\ v # Null
        BY <1>1 DEF Shape, TreeTypes
    <3>2. QED BY <1>1, <3>1 DEF ParentIs, TreeTypes
  <2>3. ASSUME NEW v \in Members, NEW s \in {"left", "right"}, node[v][s] # Null
        PROVE  node[v][s] \in Members /\ node[node[v][s]].parent = v
    <3>1. LeftIs(Members, node, lo, hi, v) /\ RightIs(Members, node, lo, hi, v)
        BY DEF Shape
    <3>2. CASE s = "left"
        BY <2>3, <3>1, <3>2 DEF LeftIs
    <3>3. CASE s = "right"
        BY <2>3, <3>1, <3>3 DEF RightIs
    <3>4. QED BY <3>2, <3>3
  <2>4. QED BY <2>1, <2>2, <2>3 DEF LinksAgree
<1>4. QED BY <1>2, <1>3

-----------------------------------------------------------------------------
(* Changes keep a tree sound.                                              *)
Sides == {"left", "right", "parent"}

Rewired(M, n, q, v, side, w) ==
    /\ q \in [M -> Links]
    /\ \A x \in M :
          /\ q[x].left = IF x = v /\ side = "left" THEN w ELSE n[x].left
          /\ q[x].right = IF x = v /\ side = "right" THEN w ELSE n[x].right
          /\ q[x].parent = IF x = v /\ side = "parent" THEN w ELSE n[x].parent

LEMMA RelinkIs ==
    ASSUME NEW M, NEW n \in [M -> Links], NEW v \in M \cup {Null}, Null \notin M,
           NEW side \in Sides, NEW w \in Nat
    PROVE  Rewired(M, n, Relinked(n, v, side, w), v, side, w)
<1>1. CASE v = Null
    BY <1>1 DEF Relinked, Rewired
<1>2. CASE v # Null
  <2> DEFINE q == [n EXCEPT ![v][side] = w]
  <2>1. Relinked(n, v, side, w) = q
    BY <1>2 DEF Relinked
  <2>2. \A x \in M : q[x] = IF x = v THEN [n[v] EXCEPT ![side] = w] ELSE n[x]
    OBVIOUS
  <2>3. v \in M /\ n[v] \in Links
    BY <1>2
  <2>4. /\ [n[v] EXCEPT ![side] = w] \in Links
        /\ [n[v] EXCEPT ![side] = w].left = IF side = "left" THEN w ELSE n[v].left
        /\ [n[v] EXCEPT ![side] = w].right = IF side = "right" THEN w ELSE n[v].right
        /\ [n[v] EXCEPT ![side] = w].parent = IF side = "parent" THEN w ELSE n[v].parent
    <3>1. CASE side = "left"
        BY <2>3, <3>1 DEF Links
    <3>2. CASE side = "right"
        BY <2>3, <3>2 DEF Links
    <3>3. CASE side = "parent"
        BY <2>3, <3>3 DEF Links
    <3>4. QED BY <3>1, <3>2, <3>3 DEF Sides
  <2>5. q \in [M -> Links]
    <3>1. \A x \in M : q[x] \in Links
        BY <2>2, <2>4
    <3>2. q = [x \in M |-> q[x]]
        OBVIOUS
    <3> HIDE DEF q
    <3>3. QED BY <3>1, <3>2
  <2> HIDE DEF q
  <2>6. QED BY <2>1, <2>2, <2>4, <2>5 DEF Rewired
<1>3. QED BY <1>1, <1>2

(* A value that is not there falls into one gap of the tree only.          *)
LEMMA LeftGap ==
    ASSUME NEW M, NEW r, NEW n, NEW lo, NEW hi, Shape(M, r, n, lo, hi),
           NEW p \in M, n[p].left = Null, NEW v \in Nat, lo[p] < v, v < p, NEW w \in M
    PROVE  /\ n[w].left = Null /\ w # p => ~(lo[w] < v /\ v < w)
           /\ n[w].right = Null => ~(w < v /\ Lower(v, hi[w]))
<1>0. /\ p \in Nat /\ w \in Nat /\ lo[p] \in Nat /\ lo[w] \in Nat /\ hi[w] \in Nat /\ hi[p] \in Nat
      /\ hi[w] \in M \cup {Null} /\ lo[p] \in M \cup {Null}
      /\ LeftIs(M, n, lo, hi, p) /\ LeftIs(M, n, lo, hi, w) /\ RightIs(M, n, lo, hi, w)
      /\ BoundsAre(lo, hi, p)
    BY ShapeIs
<1>1. \A y \in M : ~(lo[p] < y /\ y < p)
    BY <1>0 DEF LeftIs
<1>2. ASSUME n[w].left = Null, w # p, lo[w] < v, v < w PROVE FALSE
  <2>1. ~(lo[p] < w /\ w < p) /\ ~(lo[w] < p /\ p < w)
    BY <1>0, <1>1, <1>2 DEF LeftIs
  <2>2. QED BY <1>0, <1>2, <2>1
<1>3. ASSUME n[w].right = Null, w < v, Lower(v, hi[w]) PROVE FALSE
  <2>1. \A y \in M : ~(w < y /\ Lower(y, hi[w]))
    BY <1>0, <1>3 DEF RightIs
  <2>2. ~Lower(p, hi[w])
    BY <1>0, <1>3, <2>1
  <2>3. hi[w] # Null /\ hi[w] <= p /\ hi[w] \in M /\ v < hi[w]
    BY <1>0, <1>3, <2>2 DEF Lower
  <2>4. hi[w] = p
    BY <1>0, <1>1, <2>3
  <2>5. ~(lo[p] < w /\ w < p)
    BY <1>1
  <2>6. w <= lo[p]
    BY <1>0, <1>3, <2>5
  <2>7. lo[p] # Null
    BY <1>0, <1>3, <2>6, ShapeIs DEF Null
  <2>8. ~(w < lo[p] /\ Lower(lo[p], hi[w]))
    BY <1>0, <2>1, <2>7
  <2>9. lo[p] < p
    BY <1>0 DEF BoundsAre
  <2>10. lo[p] = w
    BY <1>0, <2>4, <2>6, <2>8, <2>9 DEF Lower
  <2>11. AtMost(hi[p], p) /\ Lower(p, hi[p]) /\ p # Null
    BY <1>0, <2>4, <2>7, <2>10, ShapeIs DEF BoundsAre
  <2>12. QED BY <1>0, <2>11 DEF AtMost, Lower
<1>4. QED BY <1>2, <1>3

LEMMA RightGap ==
    ASSUME NEW M, NEW r, NEW n, NEW lo, NEW hi, Shape(M, r, n, lo, hi),
           NEW p \in M, n[p].right = Null, NEW v \in Nat, p < v, Lower(v, hi[p]), NEW w \in M
    PROVE  /\ n[w].right = Null /\ w # p => ~(w < v /\ Lower(v, hi[w]))
           /\ n[w].left = Null => ~(lo[w] < v /\ v < w)
<1>0. /\ p \in Nat /\ w \in Nat /\ lo[p] \in Nat /\ lo[w] \in Nat /\ hi[w] \in Nat /\ hi[p] \in Nat
      /\ hi[p] \in M \cup {Null} /\ lo[w] \in M \cup {Null}
      /\ RightIs(M, n, lo, hi, p) /\ LeftIs(M, n, lo, hi, w) /\ RightIs(M, n, lo, hi, w)
      /\ BoundsAre(lo, hi, p)
    BY ShapeIs
<1>1. \A y \in M : ~(p < y /\ Lower(y, hi[p]))
    BY <1>0 DEF RightIs
<1>2. ASSUME n[w].right = Null, w # p, w < v, Lower(v, hi[w]) PROVE FALSE
  <2>1. ~(w < p /\ Lower(p, hi[w])) /\ ~(p < w /\ Lower(w, hi[p]))
    BY <1>0, <1>1, <1>2 DEF RightIs
  <2>2. QED BY <1>0, <1>2, <2>1 DEF Lower
<1>3. ASSUME n[w].left = Null, lo[w] < v, v < w PROVE FALSE
  <2>1. \A y \in M : ~(lo[w] < y /\ y < w)
    BY <1>0, <1>3 DEF LeftIs
  <2>2. p <= lo[w]
    BY <1>0, <1>3, <2>1
  <2>3. ~(p < w /\ Lower(w, hi[p]))
    BY <1>1
  <2>4. hi[p] # Null /\ hi[p] <= w
    BY <1>0, <1>3, <2>3 DEF Lower
  <2>5. v < hi[p]
    BY <2>4 DEF Lower
  <2>6. hi[p] = w
    BY <1>0, <1>3, <2>1, <2>4, <2>5
  <2>7. lo[w] # Null
    BY <1>0, <2>2, ShapeIs DEF Null
  <2>8. ~(p < lo[w] /\ Lower(lo[w], hi[p]))
    BY <1>0, <1>1, <2>7
  <2>9. lo[w] = p
    BY <1>0, <1>3, <2>2, <2>6, <2>8 DEF Lower
  <2>10. lo[w] <= lo[p] /\ lo[p] < p
    BY <1>0, <2>4, <2>6 DEF BoundsAre
  <2>11. QED BY <1>0, <2>9, <2>10
<1>4. QED BY <1>2, <1>3

(* A new leaf: q is n with v as the child of p on the side of the gap.     *)
Leaf(M, n, q, v, p, side) ==
    /\ q \in [M \cup {v} -> Links]
    /\ q[v].left = Null /\ q[v].right = Null /\ q[v].parent = p
    /\ \A x \in M : /\ q[x].left = IF x = p /\ side = "left" THEN v ELSE n[x].left
                    /\ q[x].right = IF x = p /\ side = "right" THEN v ELSE n[x].right
                    /\ q[x].parent = n[x].parent

LEMMA LeftAdded ==
    ASSUME NEW M, NEW r, NEW n, NEW lo, NEW hi, Shape(M, r, n, lo, hi),
           NEW p \in M, n[p].left = Null, NEW v \in Nat \ {0}, v \notin M, lo[p] < v, v < p,
           NEW q, Leaf(M, n, q, v, p, "left")
    PROVE  \E a, b : Shape(M \cup {v}, r, q, a, b)
<1> DEFINE N == M \cup {v}
           a == [x \in N |-> IF x = v THEN lo[p] ELSE lo[x]]
           b == [x \in N |-> IF x = v THEN p ELSE hi[x]]
<1>0. /\ IsFiniteSet(M) /\ M \subseteq Nat \ {0} /\ Null \notin M
      /\ TreeTypes(M, r, n, lo, hi)
      /\ \A x \in M : /\ x \in Nat \ {0} /\ x # Null /\ x # v
                      /\ lo[x] \in Nat /\ hi[x] \in Nat
                      /\ lo[x] \in M \cup {Null} /\ hi[x] \in M \cup {Null}
                      /\ LeftIs(M, n, lo, hi, x) /\ RightIs(M, n, lo, hi, x)
                      /\ ParentIs(M, r, n, x) /\ BoundsAre(lo, hi, x)
    BY ShapeIs
<1>1. /\ v # Null /\ v # p /\ p \in Nat \ {0} /\ p # Null
      /\ q[v].left = Null /\ q[v].right = Null /\ q[v].parent = p /\ q[p].left = v
      /\ \A x \in M : /\ x # p => q[x].left = n[x].left
                      /\ q[x].right = n[x].right /\ q[x].parent = n[x].parent
    BY <1>0 DEF Leaf, Null
<1>2. /\ a[v] = lo[p] /\ b[v] = p
      /\ \A x \in M : a[x] = lo[x] /\ b[x] = hi[x]
      /\ a \in [N -> N \cup {Null}] /\ b \in [N -> N \cup {Null}]
  <2>1. \A x \in N : (IF x = v THEN lo[p] ELSE lo[x]) \in N \cup {Null}
    BY <1>0
  <2>2. \A x \in N : (IF x = v THEN p ELSE hi[x]) \in N \cup {Null}
    BY <1>0
  <2>3. QED BY <1>0, <2>1, <2>2
<1>3. \A w \in M : /\ n[w].left = Null /\ w # p => ~(lo[w] < v /\ v < w)
                   /\ n[w].right = Null => ~(w < v /\ Lower(v, hi[w]))
    BY LeftGap
<1> HIDE DEF a, b
<1>4. TreeTypes(N, r, q, a, b)
  <2>1. IsFiniteSet(N) /\ N \subseteq Nat \ {Null}
    BY <1>0, FS_AddElement DEF Null
  <2>2. r # Null /\ r \in M /\ n[r].parent = Null /\ lo[r] = Null /\ hi[r] = Null
    BY <1>0 DEF TreeTypes
  <2>3. q \in [N -> Links]
    BY DEF Leaf
  <2>4. r \in N /\ q[r].parent = Null /\ a[r] = Null /\ b[r] = Null
    BY <1>1, <1>2, <2>2
  <2> HIDE DEF N
  <2>5. QED BY <1>2, <2>1, <2>2, <2>3, <2>4 DEF TreeTypes
<1>5. ASSUME NEW x \in M
      PROVE  /\ LeftIs(N, q, a, b, x) /\ RightIs(N, q, a, b, x)
             /\ ParentIs(N, r, q, x) /\ BoundsAre(a, b, x)
  <2>0. /\ LeftIs(M, n, lo, hi, x) /\ RightIs(M, n, lo, hi, x)
        /\ ParentIs(M, r, n, x) /\ BoundsAre(lo, hi, x)
        /\ a[x] = lo[x] /\ b[x] = hi[x] /\ x # v
    BY <1>0, <1>2
  <2>1. LeftIs(N, q, a, b, x)
    <3>1. CASE x = p
        BY <1>0, <1>1, <1>2, <3>1 DEF LeftIs
    <3>2. CASE x # p /\ n[x].left = Null
        BY <1>1, <1>3, <2>0, <3>2 DEF LeftIs
    <3>3. CASE x # p /\ n[x].left # Null
        BY <1>1, <1>2, <2>0, <3>3 DEF LeftIs
    <3>4. QED BY <3>1, <3>2, <3>3
  <2>2. RightIs(N, q, a, b, x)
    <3>1. CASE n[x].right = Null
        BY <1>1, <1>3, <2>0, <3>1 DEF RightIs
    <3>2. CASE n[x].right # Null
        <4>1. /\ n[x].right \in M /\ n[n[x].right].parent = x
              /\ lo[n[x].right] = x /\ hi[n[x].right] = hi[x]
            BY <2>0, <3>2 DEF RightIs
        <4>2. /\ q[x].right = n[x].right /\ n[x].right \in N /\ q[n[x].right].parent = x
              /\ a[n[x].right] = x /\ b[n[x].right] = b[x]
            BY <1>1, <1>2, <2>0, <4>1
        <4>3. QED BY <3>2, <4>2 DEF RightIs
    <3>3. QED BY <3>1, <3>2
  <2>3. ParentIs(N, r, q, x)
    <3>1. CASE n[x].parent = Null
        BY <1>1, <2>0, <3>1 DEF ParentIs
    <3>2. CASE n[x].parent # Null
        <4> DEFINE u == n[x].parent
        <4>1. u \in M /\ (n[u].left = x \/ n[u].right = x) /\ q[x].parent = u
            BY <1>1, <2>0, <3>2 DEF ParentIs
        <4> HIDE DEF u
        <4>2. q[u].left = x \/ q[u].right = x
            BY <1>0, <1>1, <4>1
        <4>3. QED BY <3>2, <4>1, <4>2 DEF ParentIs, u
    <3>3. QED BY <3>1, <3>2
  <2>4. BoundsAre(a, b, x)
    BY <1>0, <1>2, <2>0 DEF BoundsAre
  <2>5. QED BY <2>1, <2>2, <2>3, <2>4
<1>6. /\ LeftIs(N, q, a, b, v) /\ RightIs(N, q, a, b, v)
      /\ ParentIs(N, r, q, v) /\ BoundsAre(a, b, v)
  <2>0. LeftIs(M, n, lo, hi, p) /\ BoundsAre(lo, hi, p) /\ lo[p] \in Nat /\ hi[p] \in Nat
    BY <1>0
  <2>1. \A y \in M : ~(lo[p] < y /\ y < p)
    BY <2>0 DEF LeftIs
  <2>2. LeftIs(N, q, a, b, v)
    <3>1. \A y \in N : ~(lo[p] < y /\ y < v)
        BY <1>0, <1>1, <2>0, <2>1
    <3>2. QED BY <1>1, <1>2, <3>1 DEF LeftIs
  <2>3. RightIs(N, q, a, b, v)
    <3>1. \A y \in N : ~(v < y /\ y < p)
        BY <1>0, <1>1, <2>0, <2>1
    <3>2. QED BY <1>1, <1>2, <3>1 DEF RightIs, Lower
  <2>4. ParentIs(N, r, q, v)
    BY <1>1 DEF ParentIs
  <2>5. BoundsAre(a, b, v)
    <3>1. lo[p] # Null => AtMost(hi[p], hi[lo[p]]) /\ lo[p] \in M
        BY <1>0, <2>0 DEF BoundsAre
    <3>2. Lower(p, hi[p])
        BY <2>0 DEF BoundsAre
    <3>3. lo[p] # Null => AtMost(p, b[lo[p]])
        BY <1>0, <1>1, <1>2, <3>1, <3>2, <2>0 DEF AtMost, Lower
    <3>4. QED BY <1>1, <1>2, <2>0, <3>3 DEF BoundsAre, Lower
  <2>6. QED BY <2>2, <2>3, <2>4, <2>5
<1>7. Shape(N, r, q, a, b)
  <2>1. \A x \in N : x \in M \/ x = v
    OBVIOUS
  <2> HIDE DEF N
  <2>2. QED BY <1>4, <1>5, <1>6, <2>1 DEF Shape
<1>8. QED BY <1>7

LEMMA RightAdded ==
    ASSUME NEW M, NEW r, NEW n, NEW lo, NEW hi, Shape(M, r, n, lo, hi),
           NEW p \in M, n[p].right = Null, NEW v \in Nat \ {0}, v \notin M, p < v, Lower(v, hi[p]),
           NEW q, Leaf(M, n, q, v, p, "right")
    PROVE  \E a, b : Shape(M \cup {v}, r, q, a, b)
<1> DEFINE N == M \cup {v}
           a == [x \in N |-> IF x = v THEN p ELSE lo[x]]
           b == [x \in N |-> IF x = v THEN hi[p] ELSE hi[x]]
<1>0. /\ IsFiniteSet(M) /\ M \subseteq Nat \ {0} /\ Null \notin M
      /\ TreeTypes(M, r, n, lo, hi)
      /\ \A x \in M : /\ x \in Nat \ {0} /\ x # Null /\ x # v
                      /\ lo[x] \in Nat /\ hi[x] \in Nat
                      /\ lo[x] \in M \cup {Null} /\ hi[x] \in M \cup {Null}
                      /\ LeftIs(M, n, lo, hi, x) /\ RightIs(M, n, lo, hi, x)
                      /\ ParentIs(M, r, n, x) /\ BoundsAre(lo, hi, x)
    BY ShapeIs
<1>1. /\ v # Null /\ v # p /\ p \in Nat \ {0} /\ p # Null
      /\ q[v].left = Null /\ q[v].right = Null /\ q[v].parent = p /\ q[p].right = v
      /\ \A x \in M : /\ x # p => q[x].right = n[x].right
                      /\ q[x].left = n[x].left /\ q[x].parent = n[x].parent
    BY <1>0 DEF Leaf, Null
<1>2. /\ a[v] = p /\ b[v] = hi[p]
      /\ \A x \in M : a[x] = lo[x] /\ b[x] = hi[x]
      /\ a \in [N -> N \cup {Null}] /\ b \in [N -> N \cup {Null}]
  <2>1. \A x \in N : (IF x = v THEN p ELSE lo[x]) \in N \cup {Null}
    BY <1>0
  <2>2. \A x \in N : (IF x = v THEN hi[p] ELSE hi[x]) \in N \cup {Null}
    BY <1>0
  <2>3. QED BY <1>0, <2>1, <2>2
<1>3. \A w \in M : /\ n[w].right = Null /\ w # p => ~(w < v /\ Lower(v, hi[w]))
                   /\ n[w].left = Null => ~(lo[w] < v /\ v < w)
    BY RightGap
<1> HIDE DEF a, b
<1>4. TreeTypes(N, r, q, a, b)
  <2>1. IsFiniteSet(N) /\ N \subseteq Nat \ {Null}
    BY <1>0, FS_AddElement DEF Null
  <2>2. r # Null /\ r \in M /\ n[r].parent = Null /\ lo[r] = Null /\ hi[r] = Null
    BY <1>0 DEF TreeTypes
  <2>3. q \in [N -> Links]
    BY DEF Leaf
  <2>4. r \in N /\ q[r].parent = Null /\ a[r] = Null /\ b[r] = Null
    BY <1>1, <1>2, <2>2
  <2> HIDE DEF N
  <2>5. QED BY <1>2, <2>1, <2>2, <2>3, <2>4 DEF TreeTypes
<1>5. ASSUME NEW x \in M
      PROVE  /\ LeftIs(N, q, a, b, x) /\ RightIs(N, q, a, b, x)
             /\ ParentIs(N, r, q, x) /\ BoundsAre(a, b, x)
  <2>0. /\ LeftIs(M, n, lo, hi, x) /\ RightIs(M, n, lo, hi, x)
        /\ ParentIs(M, r, n, x) /\ BoundsAre(lo, hi, x)
        /\ a[x] = lo[x] /\ b[x] = hi[x] /\ x # v
    BY <1>0, <1>2
  <2>1. RightIs(N, q, a, b, x)
    <3>1. CASE x = p
        BY <1>0, <1>1, <1>2, <3>1 DEF RightIs
    <3>2. CASE x # p /\ n[x].right = Null
        BY <1>1, <1>3, <2>0, <3>2 DEF RightIs
    <3>3. CASE x # p /\ n[x].right # Null
        BY <1>1, <1>2, <2>0, <3>3, ZenonT(60) DEF RightIs
    <3>4. QED BY <3>1, <3>2, <3>3
  <2>2. LeftIs(N, q, a, b, x)
    <3>1. CASE n[x].left = Null
        BY <1>1, <1>3, <2>0, <3>1 DEF LeftIs
    <3>2. CASE n[x].left # Null
        BY <1>1, <1>2, <2>0, <3>2, ZenonT(60) DEF LeftIs
    <3>3. QED BY <3>1, <3>2
  <2>3. ParentIs(N, r, q, x)
    <3>1. CASE n[x].parent = Null
        BY <1>1, <2>0, <3>1 DEF ParentIs
    <3>2. CASE n[x].parent # Null
        <4> DEFINE u == n[x].parent
        <4>1. u \in M /\ (n[u].left = x \/ n[u].right = x) /\ q[x].parent = u
            BY <1>1, <2>0, <3>2 DEF ParentIs
        <4> HIDE DEF u
        <4>2. q[u].left = x \/ q[u].right = x
            BY <1>0, <1>1, <4>1
        <4>3. QED BY <3>2, <4>1, <4>2 DEF ParentIs, u
    <3>3. QED BY <3>1, <3>2
  <2>4. BoundsAre(a, b, x)
    BY <1>0, <1>2, <2>0 DEF BoundsAre
  <2>5. QED BY <2>1, <2>2, <2>3, <2>4
<1>6. /\ LeftIs(N, q, a, b, v) /\ RightIs(N, q, a, b, v)
      /\ ParentIs(N, r, q, v) /\ BoundsAre(a, b, v)
  <2>0. /\ RightIs(M, n, lo, hi, p) /\ BoundsAre(lo, hi, p) /\ lo[p] \in Nat /\ hi[p] \in Nat
        /\ lo[p] < p
    BY <1>0 DEF BoundsAre
  <2>1. \A y \in M : ~(p < y /\ Lower(y, hi[p]))
    BY <2>0 DEF RightIs
  <2>2. RightIs(N, q, a, b, v)
    <3>1. \A y \in N : ~(v < y /\ Lower(y, hi[p]))
        BY <1>0, <1>1, <2>0, <2>1
    <3>2. QED BY <1>1, <1>2, <3>1 DEF RightIs
  <2>3. LeftIs(N, q, a, b, v)
    <3>1. \A y \in M : ~(p < y /\ y < v)
        BY <1>0, <1>1, <2>0, <2>1 DEF Lower
    <3>2. \A y \in N : ~(p < y /\ y < v)
        BY <3>1
    <3>3. QED BY <1>1, <1>2, <3>2 DEF LeftIs
  <2>4. ParentIs(N, r, q, v)
    BY <1>1 DEF ParentIs
  <2>5. BoundsAre(a, b, v)
    <3>1. hi[p] # Null => lo[hi[p]] <= lo[p] /\ hi[p] \in M
        BY <1>0, <2>0 DEF BoundsAre
    <3>2. hi[p] # Null => a[hi[p]] <= p
        BY <1>0, <1>1, <1>2, <2>0, <3>1
    <3>3. AtMost(hi[p], hi[p])
        BY <2>0 DEF AtMost
    <3>4. QED BY <1>1, <1>2, <2>0, <3>2, <3>3 DEF BoundsAre
  <2>6. QED BY <2>2, <2>3, <2>4, <2>5
<1>7. Shape(N, r, q, a, b)
  <2>1. \A x \in N : x \in M \/ x = v
    OBVIOUS
  <2> HIDE DEF N
  <2>2. QED BY <1>4, <1>5, <1>6, <2>1 DEF Shape
<1>8. QED BY <1>7

LEMMA AddKeeps ==
    ASSUME NEW lo, NEW hi, Shape(Members, root, node, lo, hi), NEW v \in Nat \ {Null}, Add(v)
    PROVE  /\ Members' \subseteq Members \cup {v}
           /\ \E a, b : Shape(Members', root', node', a, b)
<1>0. /\ IsFiniteSet(Members) /\ Null \notin Members /\ node \in [Members -> Links]
      /\ Members \subseteq Nat \ {0} /\ v \in Nat \ {0}
    BY ShapeIs DEF Null
<1>1. CASE UNCHANGED <<root, node>>
  <2>1. Members' = Members /\ root' = root /\ node' = node
    BY <1>1 DEF Members
  <2>2. QED BY <2>1
<1>2. CASE ~UNCHANGED <<root, node>> /\ root = Null
  <2> DEFINE leaf == [left |-> Null, right |-> Null, parent |-> Null]
  <2>1. Members = {}
    BY <1>2 DEF Shape, TreeTypes
  <2>2. /\ root' = v
        /\ node' = [w \in Members \cup {v} |-> IF w = v THEN leaf ELSE node[w]]
    BY <1>2 DEF Add
  <2>3. Members' = {v} /\ node' = [w \in {v} |-> leaf]
    BY <2>1, <2>2 DEF Members
  <2> DEFINE z == [w \in {v} |-> Null]
  <2>4. leaf \in Links /\ leaf.left = Null /\ leaf.right = Null /\ leaf.parent = Null
    BY DEF Links, Null
  <2>5. node' \in [{v} -> Links] /\ node'[v] = leaf /\ z \in [{v} -> {v} \cup {Null}] /\ z[v] = Null
    BY <2>3, <2>4
  <2> HIDE DEF leaf, z
  <2>6. TreeTypes({v}, v, node', z, z)
    <3>1. IsFiniteSet({v})
        BY FS_Singleton
    <3>2. QED BY <1>0, <2>4, <2>5, <3>1 DEF TreeTypes, Null
  <2>7. /\ LeftIs({v}, node', z, z, v) /\ RightIs({v}, node', z, z, v)
        /\ ParentIs({v}, v, node', v) /\ BoundsAre(z, z, v)
    BY <1>0, <2>4, <2>5 DEF LeftIs, RightIs, ParentIs, BoundsAre, Lower, Null
  <2>8. Shape({v}, v, node', z, z)
    BY <2>6, <2>7 DEF Shape
  <2>9. QED BY <2>2, <2>3, <2>8
<1>3. CASE ~UNCHANGED <<root, node>> /\ root # Null
  <2> DEFINE p == Spot(v)
             n == Relinked(node, p, SideOf(v, p), v)
             leaf == [left |-> Null, right |-> Null, parent |-> p]
  <2>1. /\ ~Found(v) /\ root' = root
        /\ node' = [w \in Members \cup {v} |-> IF w = v THEN leaf ELSE n[w]]
  <3>1. p # Null
      BY <1>0, <1>3, SpotIs
  <3>2. QED BY <1>3, <3>1 DEF Add
  <2>2. v \notin Members
    BY <2>1, FoundAre
  <2>3. /\ p \in Members /\ lo[p] < v /\ Lower(v, hi[p])
        /\ v < p => node[p].left = Null
        /\ p < v => node[p].right = Null
    BY <1>3, SpotIs
  <2>4. leaf \in Links /\ leaf.left = Null /\ leaf.right = Null /\ leaf.parent = p
    <3>1. p \in Nat
        BY <1>0, <2>3
    <3> HIDE DEF p
    <3>2. QED BY <3>1 DEF Links, Null
  <2> HIDE DEF p
  <2>5. SideOf(v, p) \in Sides
    BY DEF SideOf, Sides
  <2>6. /\ n \in [Members -> Links]
        /\ \A x \in Members :
              /\ n[x].left = IF x = p /\ SideOf(v, p) = "left" THEN v ELSE node[x].left
              /\ n[x].right = IF x = p /\ SideOf(v, p) = "right" THEN v ELSE node[x].right
              /\ n[x].parent = node[x].parent
    <3>0. p \in Members \cup {Null} /\ v \in Nat
        BY <1>0, <2>3
    <3>1. Rewired(Members, node, n, p, SideOf(v, p), v)
        BY <1>0, <2>5, <3>0, RelinkIs
    <3>2. SideOf(v, p) # "parent"
        BY DEF SideOf
    <3> HIDE DEF n
    <3>3. QED BY <3>1, <3>2 DEF Rewired
  <2>7. Members' = Members \cup {v}
    BY <2>1 DEF Members
  <2> HIDE DEF n, leaf
  <2>8. Leaf(Members, node, node', v, p, SideOf(v, p))
    <3>1. node' \in [Members \cup {v} -> Links] /\ node'[v] = leaf
        BY <2>1, <2>4, <2>6
    <3>2. \A x \in Members : node'[x] = n[x]
        BY <2>1, <2>2
    <3>3. QED BY <2>4, <2>6, <3>1, <3>2 DEF Leaf
  <2>9. CASE v < p
    <3>1. SideOf(v, p) = "left"
        BY <2>9 DEF SideOf
    <3>2. Leaf(Members, node, node', v, p, "left") /\ node[p].left = Null
        BY <2>3, <2>8, <2>9, <3>1
    <3>3. \E a, b : Shape(Members \cup {v}, root, node', a, b)
        BY <1>0, <2>2, <2>3, <2>9, <3>2, LeftAdded
    <3>4. QED BY <2>1, <2>7, <3>3
  <2>10. CASE p < v
    <3>1. SideOf(v, p) = "right"
        BY <1>0, <2>3, <2>10 DEF SideOf
    <3>2. Leaf(Members, node, node', v, p, "right") /\ node[p].right = Null
        BY <2>3, <2>8, <2>10, <3>1
    <3>3. \E a, b : Shape(Members \cup {v}, root, node', a, b)
        BY <1>0, <2>2, <2>3, <2>10, <3>2, RightAdded
    <3>4. QED BY <2>1, <2>7, <3>3
  <2>11. QED BY <1>0, <2>2, <2>3, <2>9, <2>10
<1>4. QED BY <1>1, <1>2, <1>3

-----------------------------------------------------------------------------
(* A node without right child goes: q is n with its left child in its      *)
(* place.                                                                  *)
Bypassed(M, n, q, v) ==
    LET p == n[v].parent
        s == n[v].left
    IN  /\ q \in [M \ {v} -> Links]
        /\ \A x \in M \ {v} :
              /\ q[x].left = IF x = p /\ n[p].left = v THEN s ELSE n[x].left
              /\ q[x].right = IF x = p /\ n[p].left # v THEN s ELSE n[x].right
              /\ q[x].parent = IF x = s THEN p ELSE n[x].parent

LEMMA BypassKeeps ==
    ASSUME NEW M, NEW r, NEW n, NEW lo, NEW hi, Shape(M, r, n, lo, hi),
           NEW v \in M, n[v].right = Null, NEW q, Bypassed(M, n, q, v),
           NEW t, t = IF n[v].parent = Null THEN n[v].left ELSE r
    PROVE  \E a, b : Shape(M \ {v}, t, q, a, b)
<1> DEFINE N == M \ {v}
           p == n[v].parent
           s == n[v].left
           a == [x \in N |-> lo[x]]
           b == [x \in N |-> IF hi[x] = v THEN hi[v] ELSE hi[x]]
<1>0. /\ IsFiniteSet(M) /\ M \subseteq Nat \ {0} /\ Null \notin M /\ TreeTypes(M, r, n, lo, hi)
      /\ \A x \in M : /\ x \in Nat \ {0} /\ x # Null
                      /\ lo[x] \in Nat /\ hi[x] \in Nat
                      /\ lo[x] \in M \cup {Null} /\ hi[x] \in M \cup {Null}
                      /\ LeftIs(M, n, lo, hi, x) /\ RightIs(M, n, lo, hi, x)
                      /\ ParentIs(M, r, n, x) /\ BoundsAre(lo, hi, x)
    BY ShapeIs
<1>1. /\ q \in [N -> Links]
      /\ \A x \in N : /\ q[x].left = IF x = p /\ n[p].left = v THEN s ELSE n[x].left
                      /\ q[x].right = IF x = p /\ n[p].left # v THEN s ELSE n[x].right
                      /\ q[x].parent = IF x = s THEN p ELSE n[x].parent
    BY DEF Bypassed
(* Around v. *)
<1>2. /\ IF p = Null THEN v = r /\ lo[v] = Null /\ hi[v] = Null
         ELSE /\ p \in N /\ v # r
              /\ \/ n[p].left = v /\ n[p].right # v /\ hi[v] = p /\ lo[v] = lo[p]
                 \/ n[p].right = v /\ n[p].left # v /\ lo[v] = p /\ hi[v] = hi[p]
      /\ IF s = Null THEN \A w \in M : ~(lo[v] < w /\ w < v)
         ELSE s \in N /\ n[s].parent = v /\ lo[s] = lo[v] /\ hi[s] = v
      /\ \A w \in M : ~(v < w /\ Lower(w, hi[v]))
      /\ lo[v] < v /\ Lower(v, hi[v]) /\ hi[v] # v /\ v \in Nat \ {0} /\ v # Null
  <2>1. BoundsAre(lo, hi, v) /\ LeftIs(M, n, lo, hi, v) /\ RightIs(M, n, lo, hi, v)
        /\ v \in Nat \ {0} /\ v # Null /\ lo[v] \in Nat /\ hi[v] \in Nat
    BY <1>0
  <2>2. lo[v] < v /\ Lower(v, hi[v]) /\ hi[v] # v
    BY <2>1 DEF BoundsAre, Lower
  <2>3. IF p = Null THEN v = r /\ lo[v] = Null /\ hi[v] = Null
        ELSE /\ p \in N /\ v # r
             /\ \/ n[p].left = v /\ n[p].right # v /\ hi[v] = p /\ lo[v] = lo[p]
                \/ n[p].right = v /\ n[p].left # v /\ lo[v] = p /\ hi[v] = hi[p]
    <3>1. Over(M, r, n, lo, hi, v)
        BY OverIs
    <3>2. QED BY <3>1 DEF Over
  <2>4. IF s = Null THEN \A w \in M : ~(lo[v] < w /\ w < v)
        ELSE s \in N /\ n[s].parent = v /\ lo[s] = lo[v] /\ hi[s] = v
    BY <2>1, <2>2 DEF LeftIs
  <2>5. \A w \in M : ~(v < w /\ Lower(w, hi[v]))
    BY <2>1 DEF RightIs
  <2> HIDE DEF p, s
  <2>6. QED BY <2>1, <2>2, <2>3, <2>4, <2>5
(* Nothing begins at v, for nothing is on its right. *)
<1>3. \A x \in M : lo[x] # v
  <2> SUFFICES ASSUME NEW x \in M, lo[x] = v PROVE FALSE
    OBVIOUS
  <2>1. v < x /\ AtMost(hi[x], hi[v]) /\ Lower(x, hi[x])
    BY <1>0, <1>2 DEF BoundsAre
  <2>2. Lower(x, hi[v])
    BY <1>0, <2>1 DEF AtMost, Lower
  <2>3. QED BY <1>2, <2>1, <2>2
<1>4. \A x \in N : /\ a[x] = lo[x]
                   /\ b[x] = IF hi[x] = v THEN hi[v] ELSE hi[x]
    OBVIOUS
<1>5. a \in [N -> N \cup {Null}] /\ b \in [N -> N \cup {Null}]
  <2>1. \A x \in N : lo[x] \in N \cup {Null} /\ (IF hi[x] = v THEN hi[v] ELSE hi[x]) \in N \cup {Null}
    BY <1>0, <1>2, <1>3
  <2> HIDE DEF N, p, s
  <2>2. QED BY <2>1
<1> HIDE DEF a, b, p, s
<1>6. TreeTypes(N, t, q, a, b)
  <2>1. IsFiniteSet(N) /\ N \subseteq Nat \ {Null}
    BY <1>0, FS_Subset DEF Null
  <2>2. IF t = Null THEN N = {} ELSE t \in N /\ q[t].parent = Null /\ a[t] = Null /\ b[t] = Null
    <3>1. CASE p = Null /\ s = Null
        <4>1. ASSUME NEW w \in M, w # v PROVE FALSE
            <5>1. ~(0 < w /\ w < v) /\ ~(v < w) /\ w \in Nat \ {0}
                BY <1>0, <1>2, <3>1 DEF Null, Lower
            <5>2. QED BY <1>2, <4>1, <5>1
        <4>2. N = {}
            BY <4>1
        <4>3. t = Null
            BY <3>1 DEF p, s
        <4>4. QED BY <4>2, <4>3
    <3>2. CASE p = Null /\ s # Null
        <4>1. t = s
            BY <3>2 DEF p, s
        <4>2. s \in N /\ q[s].parent = Null /\ a[s] = Null /\ b[s] = Null
            BY <1>1, <1>2, <1>4, <3>2
        <4>3. QED BY <3>2, <4>1, <4>2
    <3>3. CASE p # Null
        <4>1. t = r /\ r \in M /\ r # v /\ r # Null /\ n[r].parent = Null /\ lo[r] = Null /\ hi[r] = Null
            BY <1>0, <1>2, <3>3 DEF TreeTypes, p
        <4>2. r # s
            BY <1>2, <4>1
        <4>3. r \in N /\ q[r].parent = Null /\ a[r] = Null /\ b[r] = Null
            BY <1>1, <1>2, <1>4, <4>1, <4>2
        <4>4. QED BY <4>1, <4>3
    <3>4. QED BY <3>1, <3>2, <3>3
  <2> HIDE DEF N
  <2>3. QED BY <1>1, <1>5, <2>1, <2>2 DEF TreeTypes
<1>7. ASSUME NEW x \in N
      PROVE  /\ LeftIs(N, q, a, b, x) /\ RightIs(N, q, a, b, x)
             /\ ParentIs(N, t, q, x) /\ BoundsAre(a, b, x)
  <2>0. /\ LeftIs(M, n, lo, hi, x) /\ RightIs(M, n, lo, hi, x)
        /\ ParentIs(M, r, n, x) /\ BoundsAre(lo, hi, x)
        /\ x # v /\ x # Null /\ lo[x] # v /\ x \in Nat
        /\ a[x] = lo[x] /\ b[x] = IF hi[x] = v THEN hi[v] ELSE hi[x]
        /\ hi[x] \in Nat /\ lo[x] \in Nat
    BY <1>0, <1>3, <1>4
  <2>1. LeftIs(N, q, a, b, x)
    <3>1. CASE x = p /\ n[p].left = v
        <4>1. q[x].left = s /\ p # Null /\ hi[v] = p /\ lo[v] = lo[p]
            BY <1>0, <1>1, <1>2, <2>0, <3>1
        <4>2. CASE s = Null
            <5>1. ASSUME NEW w \in N, lo[x] < w, w < x PROVE FALSE
                <6>1. ~(lo[v] < w /\ w < v) /\ ~(v < w /\ Lower(w, hi[v])) /\ w \in Nat
                    BY <1>0, <1>2, <4>2
                <6>2. QED BY <1>2, <3>1, <4>1, <5>1, <6>1 DEF Lower
            <5>2. QED BY <2>0, <4>1, <4>2, <5>1 DEF LeftIs
        <4>3. CASE s # Null
            <5>1. s \in N /\ q[s].parent = x /\ a[s] = a[x] /\ b[s] = x
                <6>1. s \in N /\ lo[s] = lo[v] /\ hi[s] = v
                    BY <1>2, <4>3
                <6>2. q[s].parent = p
                    BY <1>1, <6>1
                <6>3. a[s] = lo[s] /\ b[s] = hi[v]
                    BY <1>4, <6>1
                <6>4. QED BY <2>0, <3>1, <4>1, <6>1, <6>2, <6>3
            <5>2. QED BY <4>1, <4>3, <5>1 DEF LeftIs
        <4>4. QED BY <4>2, <4>3
    <3>2. CASE ~(x = p /\ n[p].left = v)
        <4> DEFINE l == n[x].left
        <4>1. q[x].left = l
            BY <1>1, <3>2
        <4>2. CASE l = Null
            BY <2>0, <4>1, <4>2 DEF LeftIs
        <4>3. CASE l # Null
            <5>1. l \in M /\ n[l].parent = x /\ lo[l] = lo[x] /\ hi[l] = x
                BY <2>0, <4>3 DEF LeftIs
            <5>2. l # s
                BY <1>2, <2>0, <4>3, <5>1
            <5>3. ASSUME l = v PROVE FALSE
                <6>1. p = x
                    BY <5>1, <5>3 DEF p
                <6>2. QED BY <1>2, <2>0, <3>2, <5>3, <6>1
            <5> HIDE DEF l
            <5>4. l \in N /\ q[l].parent = x /\ a[l] = a[x] /\ b[l] = x
                BY <1>1, <1>4, <2>0, <5>1, <5>2, <5>3
            <5>5. QED BY <4>1, <4>3, <5>4 DEF LeftIs
        <4>4. QED BY <4>2, <4>3
    <3>3. QED BY <3>1, <3>2
  <2>2. RightIs(N, q, a, b, x)
    <3>1. CASE x = p /\ n[p].left # v
        <4>1. q[x].right = s /\ p # Null /\ lo[v] = p /\ hi[v] = hi[p] /\ b[x] = hi[v]
            BY <1>0, <1>1, <1>2, <2>0, <3>1
        <4>2. CASE s = Null
            <5>1. ASSUME NEW w \in N, x < w, Lower(w, b[x]) PROVE FALSE
                <6>1. ~(lo[v] < w /\ w < v) /\ ~(v < w /\ Lower(w, hi[v])) /\ w \in Nat
                    BY <1>0, <1>2, <4>2
                <6>2. QED BY <1>2, <3>1, <4>1, <5>1, <6>1
            <5>2. QED BY <4>1, <4>2, <5>1 DEF RightIs
        <4>3. CASE s # Null
            <5>1. s \in N /\ q[s].parent = x /\ a[s] = x /\ b[s] = b[x]
                BY <1>1, <1>2, <1>4, <2>0, <3>1, <4>1, <4>3
            <5>2. QED BY <4>1, <4>3, <5>1 DEF RightIs
        <4>4. QED BY <4>2, <4>3
    <3>2. CASE ~(x = p /\ n[p].left # v)
        <4> DEFINE l == n[x].right
        <4>1. q[x].right = l
            BY <1>1, <3>2
        <4>2. CASE l = Null
            <5>1. \A w \in M : ~(x < w /\ Lower(w, hi[x]))
                BY <2>0, <4>2 DEF RightIs
            <5>2. ASSUME NEW w \in N, x < w, Lower(w, b[x]) PROVE FALSE
                <6>1. ~(x < w /\ Lower(w, hi[x])) /\ ~(v < w /\ Lower(w, hi[v])) /\ w \in Nat /\ w # v
                    BY <1>0, <1>2, <5>1
                <6>2. CASE hi[x] # v
                    BY <2>0, <5>2, <6>1, <6>2
                <6>3. CASE hi[x] = v
                    BY <1>2, <2>0, <5>2, <6>1, <6>3 DEF Lower
                <6>4. QED BY <6>2, <6>3
            <5>3. QED BY <4>1, <4>2, <5>2 DEF RightIs
        <4>3. CASE l # Null
            <5>1. l \in M /\ n[l].parent = x /\ lo[l] = x /\ hi[l] = hi[x]
                BY <2>0, <4>3 DEF RightIs
            <5>2. l # s
                BY <1>2, <2>0, <4>3, <5>1
            <5>3. ASSUME l = v PROVE FALSE
                <6>1. p = x
                    BY <5>1, <5>3 DEF p
                <6>2. QED BY <1>2, <2>0, <3>2, <5>3, <6>1
            <5> HIDE DEF l
            <5>4. l \in N /\ q[l].parent = x /\ a[l] = x /\ b[l] = b[x]
                BY <1>1, <1>4, <2>0, <5>1, <5>2, <5>3
            <5>5. QED BY <4>1, <4>3, <5>4 DEF RightIs
        <4>4. QED BY <4>2, <4>3
    <3>3. QED BY <3>1, <3>2
  <2>3. ParentIs(N, t, q, x)
    <3>1. CASE x = s
        <4>1. q[x].parent = p
            BY <1>1, <3>1
        <4>2. CASE p = Null
            BY <3>1, <4>1, <4>2 DEF ParentIs, p, s
        <4>3. CASE p # Null
            <5>1. p \in N /\ (q[p].left = x \/ q[p].right = x)
                BY <1>1, <1>2, <3>1, <4>3
            <5>2. QED BY <4>1, <4>3, <5>1 DEF ParentIs
        <4>4. QED BY <4>2, <4>3
    <3>2. CASE x # s
        <4> DEFINE u == n[x].parent
        <4>1. q[x].parent = u
            BY <1>1, <3>2
        <4>2. CASE u = Null
            <5>1. x = r
                BY <2>0, <4>2 DEF ParentIs
            <5>2. t = r
                BY <1>2, <2>0, <5>1 DEF p
            <5>3. QED BY <4>1, <4>2, <5>1, <5>2 DEF ParentIs
        <4>3. CASE u # Null
            <5>1. u \in M /\ (n[u].left = x \/ n[u].right = x)
                BY <2>0, <4>3 DEF ParentIs
            <5>2. u # v
                BY <2>0, <3>2, <5>1 DEF s
            <5> HIDE DEF u
            <5>3. q[u].left = x \/ q[u].right = x
                <6>1. u \in N /\ u # Null
                    BY <1>0, <5>1, <5>2
                <6>2. CASE n[u].left = x
                    BY <1>1, <2>0, <6>1, <6>2
                <6>3. CASE n[u].right = x
                    BY <1>1, <1>2, <2>0, <6>1, <6>3
                <6>4. QED BY <5>1, <6>2, <6>3
            <5>4. QED BY <4>1, <4>3, <5>1, <5>2, <5>3 DEF ParentIs
        <4>4. QED BY <4>2, <4>3
    <3>3. QED BY <3>1, <3>2
  <2>4. BoundsAre(a, b, x)
    <3>1. a[x] < x /\ Lower(x, b[x])
        BY <1>0, <1>2, <2>0 DEF BoundsAre, Lower
    <3>2. ASSUME a[x] # Null PROVE AtMost(b[x], b[a[x]])
        <4> DEFINE c == lo[x]
        <4>1. /\ c \in N /\ AtMost(hi[x], hi[c]) /\ a[x] = c /\ hi[c] \in M \cup {Null} /\ hi[c] \in Nat
              /\ b[c] = IF hi[c] = v THEN hi[v] ELSE hi[c]
            BY <1>0, <1>4, <2>0, <3>2 DEF BoundsAre
        <4> HIDE DEF c
        <4>2. hi[c] # Null => ~(v < hi[c] /\ Lower(hi[c], hi[v]))
            BY <1>2, <4>1
        <4>3. hi[v] \in Nat
            BY <1>0
        <4>4. QED BY <1>2, <2>0, <4>1, <4>2, <4>3 DEF AtMost, Lower
    <3>3. ASSUME b[x] # Null PROVE a[b[x]] <= a[x]
        <4>1. CASE hi[x] # v
            <5>1. hi[x] \in N /\ lo[hi[x]] <= lo[x] /\ b[x] = hi[x]
                BY <1>0, <2>0, <3>3, <4>1 DEF BoundsAre
            <5>2. QED BY <1>4, <2>0, <5>1
        <4>2. CASE hi[x] = v
            <5>1. b[x] = hi[v] /\ hi[v] \in N /\ lo[v] <= lo[x]
                BY <1>0, <1>2, <2>0, <3>3, <4>2 DEF BoundsAre
            <5>2. lo[hi[v]] <= lo[v] /\ lo[hi[v]] \in Nat /\ lo[v] \in Nat
                BY <1>0, <3>3, <5>1 DEF BoundsAre
            <5>3. a[hi[v]] = lo[hi[v]]
                BY <1>4, <5>1
            <5>4. QED BY <2>0, <5>1, <5>2, <5>3
        <4>3. QED BY <4>1, <4>2
    <3>4. QED BY <3>1, <3>2, <3>3 DEF BoundsAre
  <2>5. QED BY <2>1, <2>2, <2>3, <2>4
<1>8. Shape(N, t, q, a, b)
  <2> HIDE DEF N
  <2>1. QED BY <1>6, <1>7 DEF Shape
<1>9. QED BY <1>8

(* A node with a right child goes: q is n with the least node on its right *)
(* in its place, and what that one had on its right in the hole.           *)
Replaced(M, n, q, v, m) ==
    LET p == n[v].parent
        u == n[m].parent
    IN  /\ q \in [M \ {v} -> Links]
        /\ \A x \in M \ {v} :
              /\ q[x].left = IF x = m THEN n[v].left
                             ELSE IF x = p /\ n[p].left = v THEN m
                             ELSE IF x = u /\ m # n[v].right THEN n[m].right ELSE n[x].left
              /\ q[x].right = IF x = m THEN IF m = n[v].right THEN n[m].right ELSE n[v].right
                              ELSE IF x = p /\ n[p].left # v THEN m ELSE n[x].right
              /\ q[x].parent = IF x = m THEN p
                               ELSE IF x = n[v].left \/ x = n[v].right THEN m
                               ELSE IF x = n[m].right /\ m # n[v].right THEN u ELSE n[x].parent

LEMMA ReplaceKeeps ==
    ASSUME NEW M, NEW r, NEW n, NEW lo, NEW hi, Shape(M, r, n, lo, hi),
           NEW v \in M, n[v].right # Null,
           NEW m \in M, n[m].left = Null, lo[m] = v,
           NEW q, Replaced(M, n, q, v, m),
           NEW t, t = IF n[v].parent = Null THEN m ELSE r
    PROVE  \E a, b : Shape(M \ {v}, t, q, a, b)
<1> DEFINE N == M \ {v}
           p == n[v].parent
           l == n[v].left
           rt == n[v].right
           u == n[m].parent
           y == n[m].right
           a == [x \in N |-> IF x = m THEN lo[v] ELSE IF lo[x] = v THEN m ELSE lo[x]]
           b == [x \in N |-> IF x = m THEN hi[v] ELSE IF hi[x] = v THEN m ELSE hi[x]]
<1>0. /\ IsFiniteSet(M) /\ M \subseteq Nat \ {0} /\ Null \notin M /\ TreeTypes(M, r, n, lo, hi)
      /\ \A x \in M : /\ x \in Nat \ {0} /\ x # Null
                      /\ lo[x] \in Nat /\ hi[x] \in Nat
                      /\ lo[x] \in M \cup {Null} /\ hi[x] \in M \cup {Null}
                      /\ LeftIs(M, n, lo, hi, x) /\ RightIs(M, n, lo, hi, x)
                      /\ ParentIs(M, r, n, x) /\ BoundsAre(lo, hi, x)
    BY ShapeIs
<1>1. /\ q \in [N -> Links]
      /\ \A x \in N :
            /\ q[x].left = IF x = m THEN l
                           ELSE IF x = p /\ n[p].left = v THEN m
                           ELSE IF x = u /\ m # rt THEN y ELSE n[x].left
            /\ q[x].right = IF x = m THEN IF m = rt THEN y ELSE rt
                            ELSE IF x = p /\ n[p].left # v THEN m ELSE n[x].right
            /\ q[x].parent = IF x = m THEN p
                             ELSE IF x = l \/ x = rt THEN m
                             ELSE IF x = y /\ m # rt THEN u ELSE n[x].parent
    BY DEF Replaced
(* Around v. *)
<1>2. /\ IF p = Null THEN v = r /\ lo[v] = Null /\ hi[v] = Null
         ELSE /\ p \in N /\ v # r
              /\ \/ n[p].left = v /\ n[p].right # v /\ hi[v] = p /\ lo[v] = lo[p]
                 \/ n[p].right = v /\ n[p].left # v /\ lo[v] = p /\ hi[v] = hi[p]
      /\ IF l = Null THEN \A w \in M : ~(lo[v] < w /\ w < v)
         ELSE l \in N /\ n[l].parent = v /\ lo[l] = lo[v] /\ hi[l] = v /\ l < v
      /\ rt # Null /\ rt \in N /\ n[rt].parent = v /\ lo[rt] = v /\ hi[rt] = hi[v] /\ v < rt
      /\ lo[v] < v /\ Lower(v, hi[v]) /\ hi[v] # v /\ v \in Nat \ {0} /\ v # Null
      /\ lo[v] \in Nat /\ hi[v] \in Nat
  <2>1. /\ BoundsAre(lo, hi, v) /\ LeftIs(M, n, lo, hi, v) /\ RightIs(M, n, lo, hi, v)
        /\ v \in Nat \ {0} /\ v # Null /\ lo[v] \in Nat /\ hi[v] \in Nat
    BY <1>0
  <2>2. lo[v] < v /\ Lower(v, hi[v]) /\ hi[v] # v
    BY <2>1 DEF BoundsAre, Lower
  <2>3. IF p = Null THEN v = r /\ lo[v] = Null /\ hi[v] = Null
        ELSE /\ p \in N /\ v # r
             /\ \/ n[p].left = v /\ n[p].right # v /\ hi[v] = p /\ lo[v] = lo[p]
                \/ n[p].right = v /\ n[p].left # v /\ lo[v] = p /\ hi[v] = hi[p]
    <3>1. Over(M, r, n, lo, hi, v)
        BY OverIs
    <3>2. QED BY <3>1 DEF Over
  <2>4. IF l = Null THEN \A w \in M : ~(lo[v] < w /\ w < v)
        ELSE l \in N /\ n[l].parent = v /\ lo[l] = lo[v] /\ hi[l] = v /\ l < v
    <3>1. CASE l = Null
        BY <2>1, <3>1 DEF LeftIs
    <3>2. CASE l # Null
        <4>1. l \in N /\ n[l].parent = v /\ lo[l] = lo[v] /\ hi[l] = v
            BY <2>1, <2>2, <3>2 DEF LeftIs
        <4>2. l < v
            BY <1>0, <2>1, <4>1 DEF BoundsAre, Lower
        <4>3. QED BY <3>2, <4>1, <4>2
    <3>3. QED BY <3>1, <3>2
  <2>5. rt # Null /\ rt \in M /\ n[rt].parent = v /\ lo[rt] = v /\ hi[rt] = hi[v]
    BY <2>1 DEF RightIs
  <2>6. v < rt
    BY <1>0, <2>5 DEF BoundsAre
  <2> HIDE DEF p, l, rt
  <2>7. rt \in N
    BY <2>1, <2>5, <2>6
  <2>8. QED BY <2>1, <2>2, <2>3, <2>4, <2>5, <2>6, <2>7
(* Around m, which is next after v. *)
<1>3. /\ m \in N /\ v < m /\ m # Null /\ m \in Nat /\ (\A w \in M : ~(v < w /\ w < m))
      /\ AtMost(hi[m], hi[v]) /\ Lower(m, hi[v]) /\ Lower(m, hi[m]) /\ hi[m] # v /\ hi[m] \in Nat
      /\ IF m = rt THEN u = v /\ hi[m] = hi[v]
         ELSE /\ u \in N /\ u # m /\ n[u].left = m /\ n[u].right # m
              /\ hi[m] = u /\ lo[u] = v /\ m < u
      /\ IF y = Null THEN \A w \in M : ~(m < w /\ Lower(w, hi[m]))
         ELSE y \in N /\ y # m /\ n[y].parent = m /\ lo[y] = m /\ hi[y] = hi[m]
      /\ (\A w \in M : hi[w] # m) /\ p # m /\ r # m /\ hi[v] # m /\ lo[v] # m
  <2>1. /\ BoundsAre(lo, hi, m) /\ LeftIs(M, n, lo, hi, m) /\ RightIs(M, n, lo, hi, m)
        /\ m \in Nat \ {0} /\ m # Null /\ hi[m] \in Nat
    BY <1>0
  <2>2. v < m /\ (\A w \in M : ~(v < w /\ w < m))
    BY <2>1 DEF LeftIs, BoundsAre
  <2>3. AtMost(hi[m], hi[v]) /\ Lower(m, hi[m])
    BY <1>2, <2>1 DEF BoundsAre
  <2>4. Lower(m, hi[v]) /\ hi[m] # v /\ m \in N /\ hi[v] # m /\ lo[v] # m
    BY <1>2, <2>1, <2>2, <2>3 DEF AtMost, Lower
  <2>5. \A w \in M : hi[w] # m
    <3> SUFFICES ASSUME NEW w \in M, hi[w] = m PROVE FALSE
        OBVIOUS
    <3>1. v <= lo[w] /\ lo[w] < w /\ w < m /\ w \in Nat /\ lo[w] \in Nat
        BY <1>0, <2>1 DEF BoundsAre, Lower
    <3>2. ~(v < w /\ w < m)
        BY <2>2
    <3>3. QED BY <1>2, <3>1, <3>2
  <2>6. IF m = rt THEN u = v /\ hi[m] = hi[v]
        ELSE /\ u \in N /\ u # m /\ n[u].left = m /\ n[u].right # m
             /\ hi[m] = u /\ lo[u] = v /\ m < u
    <3>1. Over(M, r, n, lo, hi, m)
        BY OverIs
    <3>2. u # Null
        BY <1>2, <3>1 DEF Over
    <3>3. /\ u \in M /\ u # m
          /\ \/ n[u].left = m /\ n[u].right # m /\ hi[m] = u /\ v = lo[u] /\ m < u
             \/ n[u].right = m /\ n[u].left # m /\ v = u /\ hi[m] = hi[u] /\ u < m
        BY <3>1, <3>2 DEF Over
    <3>4. CASE v = u
        BY <2>4, <3>3, <3>4
    <3>5. CASE v # u
        BY <1>2, <3>3, <3>5
    <3>6. QED BY <3>4, <3>5
  <2>7. IF y = Null THEN \A w \in M : ~(m < w /\ Lower(w, hi[m]))
        ELSE y \in N /\ y # m /\ n[y].parent = m /\ lo[y] = m /\ hi[y] = hi[m]
    <3>1. CASE y = Null
        BY <2>1, <3>1 DEF RightIs
    <3>2. CASE y # Null
        <4>1. y \in M /\ n[y].parent = m /\ lo[y] = m /\ hi[y] = hi[m]
            BY <2>1, <3>2 DEF RightIs
        <4>2. m < y /\ y \in Nat
            BY <1>0, <4>1 DEF BoundsAre
        <4> HIDE DEF y
        <4>3. y # m /\ y # v
            BY <1>2, <2>1, <2>2, <4>2
        <4>4. QED BY <3>2, <4>1, <4>3
    <3>3. QED BY <3>1, <3>2
  <2>8. p # m
    <3> HIDE DEF p
    <3>1. QED BY <1>2, <2>1, <2>2
  <2>9. r # m
    BY <1>0, <1>2 DEF TreeTypes
  <2> HIDE DEF N, p, l, rt, u, y
  <2>10. QED BY <2>1, <2>2, <2>3, <2>4, <2>5, <2>6, <2>7, <2>8, <2>9
<1>4. \A x \in N : /\ a[x] = IF x = m THEN lo[v] ELSE IF lo[x] = v THEN m ELSE lo[x]
                   /\ b[x] = IF x = m THEN hi[v] ELSE IF hi[x] = v THEN m ELSE hi[x]
    OBVIOUS
<1>5. a \in [N -> N \cup {Null}] /\ b \in [N -> N \cup {Null}]
  <2>1. ASSUME NEW x \in N
        PROVE  /\ (IF x = m THEN lo[v] ELSE IF lo[x] = v THEN m ELSE lo[x]) \in N \cup {Null}
               /\ (IF x = m THEN hi[v] ELSE IF hi[x] = v THEN m ELSE hi[x]) \in N \cup {Null}
    <3>1. /\ lo[x] \in N \cup {Null, v} /\ hi[x] \in N \cup {Null, v}
          /\ lo[v] \in N \cup {Null} /\ hi[v] \in N \cup {Null}
        BY <1>0, <1>2
    <3>2. QED BY <1>3, <3>1
  <2> HIDE DEF N, p, l, rt, u, y
  <2>2. QED BY <2>1
<1> HIDE DEF a, b, p, l, rt, u, y
<1>6. TreeTypes(N, t, q, a, b)
  <2>1. IsFiniteSet(N) /\ N \subseteq Nat \ {Null}
    BY <1>0, FS_Subset DEF Null
  <2>2. t # Null /\ t \in N /\ q[t].parent = Null /\ a[t] = Null /\ b[t] = Null
    <3>1. CASE p = Null
        <4>1. t = m
            BY <3>1 DEF p
        <4>2. QED BY <1>1, <1>2, <1>3, <1>4, <3>1, <4>1
    <3>2. CASE p # Null
        <4>1. t = r /\ r \in N /\ r # Null /\ n[r].parent = Null /\ lo[r] = Null /\ hi[r] = Null
            BY <1>0, <1>2, <3>2 DEF TreeTypes, p
        <4>2. r # l /\ r # rt /\ r # m /\ r # y
            BY <1>2, <1>3, <4>1
        <4>3. q[r].parent = Null /\ a[r] = Null /\ b[r] = Null
            BY <1>1, <1>2, <1>4, <4>1, <4>2
        <4>4. QED BY <4>1, <4>3
    <3>3. QED BY <3>1, <3>2
  <2> HIDE DEF N
  <2>3. QED BY <1>1, <1>5, <2>1, <2>2 DEF TreeTypes
<1>7. ASSUME NEW x \in N, x # m
      PROVE  /\ LeftIs(N, q, a, b, x) /\ RightIs(N, q, a, b, x)
             /\ ParentIs(N, t, q, x) /\ BoundsAre(a, b, x)
  <2>0. /\ LeftIs(M, n, lo, hi, x) /\ RightIs(M, n, lo, hi, x)
        /\ ParentIs(M, r, n, x) /\ BoundsAre(lo, hi, x)
        /\ x # v /\ x # Null /\ x \in Nat
        /\ a[x] = (IF lo[x] = v THEN m ELSE lo[x]) /\ b[x] = (IF hi[x] = v THEN m ELSE hi[x])
        /\ hi[x] \in Nat /\ lo[x] \in Nat
    BY <1>0, <1>4, <1>7
  <2>1. LeftIs(N, q, a, b, x)
    <3>1. CASE x = p /\ n[p].left = v
        <4>1. q[x].left = m /\ hi[v] = p /\ lo[v] = lo[p]
            BY <1>1, <1>2, <1>7, <2>0, <3>1
        <4>2. q[m].parent = x /\ a[m] = a[x] /\ b[m] = x
            BY <1>1, <1>2, <1>3, <1>4, <2>0, <3>1, <4>1
        <4>3. QED BY <1>3, <4>1, <4>2 DEF LeftIs
    <3>2. CASE ~(x = p /\ n[p].left = v) /\ x = u /\ m # rt
        <4>1. q[x].left = y /\ lo[x] = v /\ hi[m] = x /\ a[x] = m
            BY <1>1, <1>3, <1>7, <2>0, <3>2
        <4>2. CASE y = Null
            <5>1. \A w \in N : ~(m < w /\ w < x)
                BY <1>3, <4>1, <4>2 DEF Lower
            <5>2. QED BY <4>1, <4>2, <5>1 DEF LeftIs
        <4>3. CASE y # Null
            <5>1. y \in N /\ y # m /\ y # l /\ y # rt /\ lo[y] = m /\ hi[y] = x
                BY <1>2, <1>3, <4>1, <4>3
            <5>2. q[y].parent = x /\ a[y] = m /\ b[y] = x
                BY <1>1, <1>2, <1>3, <1>4, <2>0, <3>2, <5>1
            <5>3. QED BY <4>1, <4>3, <5>1, <5>2 DEF LeftIs
        <4>4. QED BY <4>2, <4>3
    <3>3. CASE ~(x = p /\ n[p].left = v) /\ ~(x = u /\ m # rt)
        <4> DEFINE z == n[x].left
        <4>1. q[x].left = z
            BY <1>1, <1>7, <3>3
        <4>2. CASE z = Null
            <5>1. \A w \in M : ~(lo[x] < w /\ w < x)
                BY <2>0, <4>2 DEF LeftIs
            <5>2. ASSUME NEW w \in N, a[x] < w, w < x PROVE FALSE
                <6>1. ~(lo[x] < w /\ w < x) /\ w \in Nat
                    BY <1>0, <5>1
                <6>2. QED BY <1>2, <1>3, <2>0, <5>2, <6>1
            <5>3. QED BY <4>1, <4>2, <5>2 DEF LeftIs
        <4>3. CASE z # Null
            <5>1. z \in M /\ n[z].parent = x /\ lo[z] = lo[x] /\ hi[z] = x
                BY <2>0, <4>3 DEF LeftIs
            <5>2. z # l /\ z # rt
                BY <1>2, <2>0, <4>3, <5>1
            <5>3. z # y
                BY <1>3, <1>7, <4>3, <5>1
            <5>4. ASSUME z = v PROVE FALSE
                <6>1. p = x
                    BY <5>1, <5>4 DEF p
                <6>2. QED BY <3>3, <5>4, <6>1
            <5>5. ASSUME z = m PROVE FALSE
                <6>1. u = x
                    BY <5>1, <5>5 DEF u
                <6>2. QED BY <1>3, <2>0, <3>3, <6>1
            <5> HIDE DEF z
            <5>6. z \in N /\ q[z].parent = x /\ a[z] = a[x] /\ b[z] = x
                BY <1>1, <1>4, <2>0, <5>1, <5>2, <5>3, <5>4, <5>5
            <5>7. QED BY <4>1, <4>3, <5>6 DEF LeftIs
        <4>4. QED BY <4>2, <4>3
    <3>4. QED BY <3>1, <3>2, <3>3
  <2>2. RightIs(N, q, a, b, x)
    <3>1. CASE x = p /\ n[p].left # v
        <4>1. q[x].right = m /\ lo[v] = p /\ hi[v] = hi[p]
            BY <1>1, <1>2, <1>7, <2>0, <3>1
        <4>2. q[m].parent = x /\ a[m] = x /\ b[m] = b[x]
            BY <1>1, <1>2, <1>3, <1>4, <2>0, <3>1, <4>1
        <4>3. QED BY <1>3, <4>1, <4>2 DEF RightIs
    <3>2. CASE ~(x = p /\ n[p].left # v)
        <4> DEFINE z == n[x].right
        <4>1. q[x].right = z
            BY <1>1, <1>7, <3>2
        <4>2. CASE z = Null
            <5>1. \A w \in M : ~(x < w /\ Lower(w, hi[x]))
                BY <2>0, <4>2 DEF RightIs
            <5>2. ASSUME NEW w \in N, x < w, Lower(w, b[x]) PROVE FALSE
                <6>1. ~(x < w /\ Lower(w, hi[x])) /\ ~(v < w /\ w < m) /\ w \in Nat /\ w # v
                    BY <1>0, <1>3, <5>1
                <6>2. CASE hi[x] # v
                    BY <2>0, <5>2, <6>1, <6>2
                <6>3. CASE hi[x] = v
                    BY <1>2, <1>3, <2>0, <5>2, <6>1, <6>3 DEF Lower
                <6>4. QED BY <6>2, <6>3
            <5>3. QED BY <4>1, <4>2, <5>2 DEF RightIs
        <4>3. CASE z # Null
            <5>1. z \in M /\ n[z].parent = x /\ lo[z] = x /\ hi[z] = hi[x]
                BY <2>0, <4>3 DEF RightIs
            <5>2. z # l /\ z # rt
                BY <1>2, <2>0, <4>3, <5>1
            <5>3. z # y
                BY <1>3, <1>7, <4>3, <5>1
            <5>4. ASSUME z = v PROVE FALSE
                <6>1. p = x
                    BY <5>1, <5>4 DEF p
                <6>2. QED BY <1>2, <2>0, <3>2, <5>4, <6>1
            <5>5. z # m
                BY <2>0, <5>1
            <5> HIDE DEF z
            <5>6. z \in N /\ q[z].parent = x /\ a[z] = x /\ b[z] = b[x]
                BY <1>1, <1>4, <2>0, <5>1, <5>2, <5>3, <5>4, <5>5
            <5>7. QED BY <4>1, <4>3, <5>6 DEF RightIs
        <4>4. QED BY <4>2, <4>3
    <3>3. QED BY <3>1, <3>2
  <2>3. ParentIs(N, t, q, x)
    <3>1. CASE x = l
        <4>1. q[x].parent = m /\ q[m].left = x
            BY <1>1, <1>3, <1>7, <3>1
        <4>2. QED BY <1>3, <4>1 DEF ParentIs
    <3>2. CASE x = rt
        <4>1. q[x].parent = m /\ q[m].right = x
            BY <1>1, <1>3, <1>7, <3>2
        <4>2. QED BY <1>3, <4>1 DEF ParentIs
    <3>3. CASE x # l /\ x # rt /\ x = y /\ m # rt
        <4>1. q[x].parent = u /\ u \in N /\ u # m /\ n[u].left = m
            BY <1>1, <1>3, <1>7, <3>3
        <4>2. u # Null
            BY <1>0, <4>1
        <4>3. q[u].left = x
            BY <1>1, <1>2, <1>3, <3>3, <4>1, <4>2
        <4>4. QED BY <4>1, <4>2, <4>3 DEF ParentIs
    <3>4. CASE x # l /\ x # rt /\ ~(x = y /\ m # rt)
        <4> DEFINE z == n[x].parent
        <4>1. q[x].parent = z
            BY <1>1, <1>7, <3>4
        <4>2. CASE z = Null
            <5>1. x = r
                BY <2>0, <4>2 DEF ParentIs
            <5>2. t = r
                BY <1>2, <2>0, <5>1 DEF p
            <5>3. QED BY <4>1, <4>2, <5>1, <5>2 DEF ParentIs
        <4>3. CASE z # Null
            <5>1. z \in M /\ (n[z].left = x \/ n[z].right = x)
                BY <2>0, <4>3 DEF ParentIs
            <5>2. z # v
                BY <3>4, <5>1 DEF l, rt
            <5>3. CASE z = m
                <6>1. x = y /\ m = rt
                    BY <2>0, <3>4, <5>1, <5>3 DEF y
                <6>2. q[m].right = x
                    BY <1>1, <1>3, <6>1
                <6>3. QED BY <1>3, <4>1, <5>3, <6>2 DEF ParentIs
            <5>4. CASE z # m
                <6> HIDE DEF z
                <6>1. z \in N /\ z # Null
                    BY <4>3, <5>1, <5>2
                <6>2. CASE n[z].left = x
                    <7>1. ~(z = u /\ m # rt)
                        BY <1>3, <1>7, <6>2
                    <7>2. q[z].left = x
                        BY <1>1, <2>0, <5>4, <6>1, <6>2, <7>1
                    <7>3. QED BY <4>1, <6>1, <7>2 DEF ParentIs
                <6>3. CASE n[z].right = x
                    <7>1. ~(z = p /\ n[p].left # v)
                        BY <1>2, <2>0, <6>1, <6>3
                    <7>2. q[z].right = x
                        BY <1>1, <5>4, <6>1, <6>3, <7>1
                    <7>3. QED BY <4>1, <6>1, <7>2 DEF ParentIs
                <6>4. QED BY <5>1, <6>2, <6>3
            <5>5. QED BY <5>3, <5>4
        <4>4. QED BY <4>2, <4>3
    <3>5. QED BY <3>1, <3>2, <3>3, <3>4
  <2>4. BoundsAre(a, b, x)
    <3>0. lo[x] < x /\ Lower(x, hi[x]) /\ ~(v < x /\ x < m)
        BY <1>3, <2>0 DEF BoundsAre
    <3>1. a[x] < x /\ Lower(x, b[x])
        BY <1>2, <1>3, <1>7, <2>0, <3>0 DEF Lower
    <3>2. ASSUME a[x] # Null PROVE AtMost(b[x], b[a[x]])
        <4>1. CASE lo[x] = v
            <5>1. a[x] = m /\ b[m] = hi[v] /\ AtMost(hi[x], hi[v])
                BY <1>2, <1>3, <1>4, <2>0, <4>1 DEF BoundsAre
            <5>2. b[x] = hi[x]
                BY <1>2, <2>0, <3>0, <4>1 DEF Lower
            <5>3. QED BY <5>1, <5>2
        <4>2. CASE lo[x] = m
            <5>1. a[x] = m /\ b[m] = hi[v] /\ AtMost(hi[x], hi[m])
                BY <1>2, <1>3, <1>4, <2>0, <4>2 DEF BoundsAre
            <5>2. b[x] = hi[x]
                BY <1>2, <1>3, <2>0, <3>0, <4>2 DEF Lower
            <5>3. QED BY <1>2, <1>3, <2>0, <5>1, <5>2 DEF AtMost
        <4>3. CASE lo[x] # v /\ lo[x] # m
            <5> DEFINE c == lo[x]
            <5>1. /\ c \in N /\ AtMost(hi[x], hi[c]) /\ a[x] = c /\ hi[c] \in M \cup {Null}
                  /\ hi[c] \in Nat /\ b[c] = IF hi[c] = v THEN m ELSE hi[c]
                BY <1>0, <1>4, <2>0, <3>2, <4>3 DEF BoundsAre
            <5> HIDE DEF c
            <5>2. hi[c] # Null => ~(v < hi[c] /\ hi[c] < m)
                BY <1>3, <5>1
            <5>3. QED BY <1>2, <1>3, <2>0, <5>1, <5>2 DEF AtMost
        <4>4. QED BY <4>1, <4>2, <4>3
    <3>3. ASSUME b[x] # Null PROVE a[b[x]] <= a[x]
        <4>1. CASE hi[x] = v
            <5>1. b[x] = m /\ a[m] = lo[v] /\ lo[v] <= lo[x]
                BY <1>2, <1>3, <1>4, <2>0, <4>1 DEF BoundsAre
            <5>2. a[x] = lo[x]
                BY <1>2, <2>0, <3>0, <4>1 DEF Lower
            <5>3. QED BY <5>1, <5>2
        <4>2. CASE hi[x] # v
            <5> DEFINE c == hi[x]
            <5>1. /\ c \in N /\ c # m /\ lo[c] <= lo[x] /\ lo[c] \in Nat /\ b[x] = c
                  /\ a[c] = IF lo[c] = v THEN m ELSE lo[c]
                BY <1>0, <1>3, <1>4, <2>0, <3>3, <4>2 DEF BoundsAre
            <5> HIDE DEF c
            <5>2. lo[x] # Null => ~(v < lo[x] /\ lo[x] < m)
                BY <1>0, <1>3
            <5>3. lo[x] = Null => ~(v <= lo[x])
                BY <1>2 DEF Null
            <5>4. QED BY <1>2, <1>3, <2>0, <5>1, <5>2, <5>3
        <4>3. QED BY <4>1, <4>2
    <3>4. QED BY <3>1, <3>2, <3>3 DEF BoundsAre
  <2>5. QED BY <2>1, <2>2, <2>3, <2>4
<1>8. /\ LeftIs(N, q, a, b, m) /\ RightIs(N, q, a, b, m)
      /\ ParentIs(N, t, q, m) /\ BoundsAre(a, b, m)
  <2>0. /\ q[m].left = l /\ q[m].right = (IF m = rt THEN y ELSE rt) /\ q[m].parent = p
        /\ a[m] = lo[v] /\ b[m] = hi[v]
    BY <1>1, <1>3, <1>4
  <2>1. LeftIs(N, q, a, b, m)
    <3>1. CASE l = Null
        <4>1. ASSUME NEW w \in N, lo[v] < w, w < m PROVE FALSE
            <5>1. ~(lo[v] < w /\ w < v) /\ ~(v < w /\ w < m) /\ w \in Nat /\ w # v
                BY <1>0, <1>2, <1>3, <3>1
            <5>2. QED BY <1>2, <4>1, <5>1
        <4>2. QED BY <2>0, <3>1, <4>1 DEF LeftIs
    <3>2. CASE l # Null
        <4>1. l \in N /\ lo[l] = lo[v] /\ hi[l] = v /\ l < v /\ l \in Nat
            BY <1>0, <1>2, <3>2
        <4>2. l # m /\ lo[v] # v
            BY <1>2, <1>3, <4>1
        <4>3. q[l].parent = m /\ a[l] = lo[v] /\ b[l] = m
            BY <1>1, <1>4, <4>1, <4>2
        <4>4. QED BY <2>0, <3>2, <4>1, <4>3 DEF LeftIs
    <3>3. QED BY <3>1, <3>2
  <2>2. RightIs(N, q, a, b, m)
    <3>1. CASE m = rt /\ y = Null
        <4>1. \A w \in N : ~(m < w /\ Lower(w, hi[v]))
            BY <1>3, <3>1
        <4>2. QED BY <2>0, <3>1, <4>1 DEF RightIs
    <3>2. CASE m = rt /\ y # Null
        <4>1. y \in N /\ y # m /\ n[y].parent = m /\ lo[y] = m /\ hi[y] = hi[v]
            BY <1>3, <3>2
        <4>2. y # l /\ m # v
            BY <1>2, <1>3, <3>2, <4>1
        <4>3. q[y].parent = m /\ a[y] = m /\ b[y] = hi[v]
            BY <1>1, <1>2, <1>4, <3>2, <4>1, <4>2
        <4>4. QED BY <2>0, <3>2, <4>1, <4>3 DEF RightIs
    <3>3. CASE m # rt
        <4>1. q[rt].parent = m /\ a[rt] = m /\ b[rt] = hi[v]
            BY <1>1, <1>2, <1>4, <3>3
        <4>2. QED BY <1>2, <2>0, <3>3, <4>1 DEF RightIs
    <3>4. QED BY <3>1, <3>2, <3>3
  <2>3. ParentIs(N, t, q, m)
    <3>1. CASE p = Null
        BY <2>0, <3>1 DEF ParentIs, p
    <3>2. CASE p # Null
        <4>1. p \in N /\ (q[p].left = m \/ q[p].right = m)
            BY <1>1, <1>2, <1>3, <3>2
        <4>2. QED BY <2>0, <3>2, <4>1 DEF ParentIs
    <3>3. QED BY <3>1, <3>2
  <2>4. BoundsAre(a, b, m)
    <3>0. BoundsAre(lo, hi, v)
        BY <1>0
    <3>1. a[m] < m /\ Lower(m, b[m])
        BY <1>2, <1>3, <2>0
    <3>2. ASSUME a[m] # Null PROVE AtMost(b[m], b[a[m]])
        <4> DEFINE c == lo[v]
        <4>1. c \in N /\ c # m /\ AtMost(hi[v], hi[c]) /\ hi[c] \in Nat
            BY <1>0, <1>2, <1>3, <2>0, <3>0, <3>2 DEF BoundsAre
        <4>2. hi[c] # v
            BY <1>2, <4>1 DEF AtMost, Lower
        <4>3. b[c] = hi[c]
            BY <1>4, <4>1, <4>2
        <4>4. QED BY <2>0, <4>1, <4>3
    <3>3. ASSUME b[m] # Null PROVE a[b[m]] <= a[m]
        <4> DEFINE c == hi[v]
        <4>1. c \in N /\ c # m /\ lo[c] <= lo[v] /\ lo[c] \in Nat
            BY <1>0, <1>2, <1>3, <2>0, <3>0, <3>3 DEF BoundsAre
        <4>2. lo[c] # v
            BY <1>2, <4>1
        <4>3. a[c] = lo[c]
            BY <1>4, <4>1, <4>2
        <4>4. QED BY <2>0, <4>1, <4>3
    <3>4. QED BY <3>1, <3>2, <3>3 DEF BoundsAre
  <2>5. QED BY <2>1, <2>2, <2>3, <2>4
<1>9. Shape(N, t, q, a, b)
  <2> HIDE DEF N
  <2>1. \A x \in N : /\ LeftIs(N, q, a, b, x) /\ RightIs(N, q, a, b, x)
                     /\ ParentIs(N, t, q, x) /\ BoundsAre(a, b, x)
    BY <1>7, <1>8
  <2>2. QED BY <1>6, <2>1 DEF Shape
<1>10. QED BY <1>9

-----------------------------------------------------------------------------
(* sbst_remove_node comes to the one or the other.                         *)
LEMMA BypassDone ==
    ASSUME NEW lo, NEW hi, Shape(Members, root, node, lo, hi), NEW v \in Members,
           node[v].right = Null, RemoveNode(v)
    PROVE  /\ Bypassed(Members, node, node', v)
           /\ root' = IF node[v].parent = Null THEN node[v].left ELSE root
<1> DEFINE p == node[v].parent
           s == node[v].left
           side == IF p # Null /\ node[p].left = v THEN "left" ELSE "right"
           n == Relinked(node, s, "parent", p)
           k == Relinked(n, p, side, s)
<1>1. Sub(v) = s /\ Detached(v) = node
    BY DEF Sub, Detached
<1>2. node' = [w \in Members \ {v} |-> k[w]] /\ root' = IF p = Null THEN s ELSE root
    BY <1>1 DEF RemoveNode
<1>3. /\ node \in [Members -> Links] /\ Null \notin Members /\ Members \cup {Null} \subseteq Nat
      /\ LeftIs(Members, node, lo, hi, v) /\ ParentIs(Members, root, node, v)
    BY ShapeIs DEF Null
<1>4. s \in Members \cup {Null} /\ p \in Members \cup {Null} /\ s \in Nat /\ p \in Nat
    BY <1>3 DEF LeftIs, ParentIs
<1>5. "parent" \in Sides /\ side \in Sides /\ side # "parent"
      /\ (p # Null => (side = "left" <=> node[p].left = v))
      /\ (p # Null => (side = "right" <=> node[p].left # v))
    BY DEF Sides
<1> HIDE DEF s, p, side
<1>6. Rewired(Members, node, n, s, "parent", p)
    BY <1>3, <1>4, <1>5, RelinkIs
<1>7. n \in [Members -> Links]
    BY <1>6 DEF Rewired
<1> HIDE DEF n
<1>8. Rewired(Members, n, k, p, side, s)
    BY <1>3, <1>4, <1>5, <1>7, RelinkIs
<1> HIDE DEF k
<1>9. \A x \in Members : /\ k[x].left = IF x = p /\ node[p].left = v THEN s ELSE node[x].left
                         /\ k[x].right = IF x = p /\ node[p].left # v THEN s ELSE node[x].right
                         /\ k[x].parent = IF x = s THEN p ELSE node[x].parent
    BY <1>3, <1>5, <1>6, <1>8 DEF Rewired
<1>10. k \in [Members -> Links]
    BY <1>8 DEF Rewired
<1>11. node' \in [Members \ {v} -> Links] /\ \A x \in Members \ {v} : node'[x] = k[x]
    BY <1>2, <1>10
<1>12. Bypassed(Members, node, node', v)
    BY <1>9, <1>11 DEF Bypassed, p, s
<1>13. QED BY <1>2, <1>12 DEF p, s

(* sbst_pick_minimum, on the detached right subtree.                       *)
LEMMA PickedIs ==
    ASSUME NEW lo, NEW hi, Shape(Members, root, node, lo, hi), NEW v \in Members,
           node[v].right # Null
    PROVE  LET rt == node[v].right
               m == Along(node, "left", rt)
               u == node[m].parent
               y == node[m].right
               k == Picked(Relinked(node, rt, "parent", Null), rt)
           IN  /\ k \in [Members -> Links]
               /\ \A x \in Members :
                     /\ k[x].left = IF x = u /\ m # rt THEN y ELSE node[x].left
                     /\ k[x].right = IF x = m /\ m # rt THEN rt ELSE node[x].right
                     /\ k[x].parent = IF x = y /\ m # rt THEN u
                                      ELSE IF x = rt /\ m # rt THEN m
                                      ELSE IF x = m \/ x = rt THEN Null ELSE node[x].parent
<1> DEFINE rt == node[v].right
           m == Along(node, "left", rt)
           u == node[m].parent
           y == node[m].right
           n0 == Relinked(node, rt, "parent", Null)
           n1 == Relinked(n0, m, "parent", Null)
           n2 == Relinked(n1, m, "right", rt)
           n3 == Relinked(n2, rt, "parent", m)
           n4 == Relinked(n3, u, "left", y)
           n5 == Relinked(n4, y, "parent", u)
           k == Picked(n0, rt)
<1>1. /\ node \in [Members -> Links] /\ Null \notin Members /\ Members \cup {Null} \subseteq Nat
      /\ \A x \in Members : LeftIs(Members, node, lo, hi, x) /\ RightIs(Members, node, lo, hi, x)
                            /\ ParentIs(Members, root, node, x)
    BY ShapeIs DEF Null
<1>2. rt \in Members
    BY <1>1 DEF RightIs
<1>3. m \in Members
    BY <1>2, LeftEnd
<1> HIDE DEF m
<1>4. u \in Members \cup {Null} /\ y \in Members \cup {Null}
    BY <1>1, <1>3 DEF RightIs, ParentIs
<1>5. /\ {"left", "right", "parent"} \subseteq Sides
      /\ rt \in Members \cup {Null} /\ m \in Members \cup {Null}
      /\ rt \in Nat /\ m \in Nat /\ u \in Nat /\ y \in Nat /\ Null \in Nat
    BY <1>1, <1>2, <1>3, <1>4 DEF Sides
<1>6. Rewired(Members, node, n0, rt, "parent", Null)
    BY <1>1, <1>5, RelinkIs
<1>7. n0 \in [Members -> Links] /\ Along(n0, "left", rt) = m
  <2>1. n0 \in [Members -> Links] /\ \A x \in Members : n0[x].left = node[x].left
    BY <1>6 DEF Rewired
  <2> HIDE DEF n0, rt
  <2>2. \A x \in Members : (IF n0[x]["left"] = Null THEN x ELSE n0[x]["left"])
                           = (IF node[x]["left"] = Null THEN x ELSE node[x]["left"])
    BY <2>1
  <2>3. [x \in Members |-> IF n0[x]["left"] = Null THEN x ELSE n0[x]["left"]]
        = [x \in Members |-> IF node[x]["left"] = Null THEN x ELSE node[x]["left"]]
    BY <2>2
  <2>4. QED BY <2>1, <2>3 DEF Along, m
<1> HIDE DEF rt, u, y, n0
<1>8. CASE m = rt
  <2>1. k = n0
    BY <1>7, <1>8 DEF Picked
  <2> HIDE DEF k
  <2>2. \A x \in Members : /\ k[x].left = node[x].left /\ k[x].right = node[x].right
                           /\ k[x].parent = IF x = rt THEN Null ELSE node[x].parent
    BY <1>6, <2>1 DEF Rewired
  <2>3. QED BY <1>7, <1>8, <2>1, <2>2 DEF k, n0, rt, m
<1>9. CASE m # rt
  <2>1. n0[m].parent = u /\ n0[m].right = y
    BY <1>3, <1>6, <1>9 DEF Rewired, u, y
  <2>2. k = n5
    BY <1>7, <1>9, <2>1 DEF Picked
  <2>3. Rewired(Members, n0, n1, m, "parent", Null)
    BY <1>1, <1>5, <1>7, RelinkIs
  <2>4. n1 \in [Members -> Links]
    BY <2>3 DEF Rewired
  <2> HIDE DEF n1
  <2>5. Rewired(Members, n1, n2, m, "right", rt)
    BY <1>1, <1>5, <2>4, RelinkIs
  <2>6. n2 \in [Members -> Links]
    BY <2>5 DEF Rewired
  <2> HIDE DEF n2
  <2>7. Rewired(Members, n2, n3, rt, "parent", m)
    BY <1>1, <1>5, <2>6, RelinkIs
  <2>8. n3 \in [Members -> Links]
    BY <2>7 DEF Rewired
  <2> HIDE DEF n3
  <2>9. Rewired(Members, n3, n4, u, "left", y)
    BY <1>1, <1>4, <1>5, <2>8, RelinkIs
  <2>10. n4 \in [Members -> Links]
    BY <2>9 DEF Rewired
  <2> HIDE DEF n4
  <2>11. Rewired(Members, n4, n5, y, "parent", u)
    BY <1>1, <1>4, <1>5, <2>10, RelinkIs
  <2>12. n5 \in [Members -> Links]
    BY <2>11 DEF Rewired
  <2> HIDE DEF n5, k
  <2>13. ASSUME NEW x \in Members
         PROVE  /\ k[x].left = IF x = u THEN y ELSE node[x].left
                /\ k[x].right = IF x = m THEN rt ELSE node[x].right
                /\ k[x].parent = IF x = y THEN u ELSE IF x = rt THEN m
                                 ELSE IF x = m THEN Null ELSE node[x].parent
    <3>1. k[x].left = IF x = u THEN y ELSE node[x].left
        BY <1>6, <2>2, <2>3, <2>5, <2>7, <2>9, <2>11 DEF Rewired
    <3>2. k[x].right = IF x = m THEN rt ELSE node[x].right
        BY <1>6, <2>2, <2>3, <2>5, <2>7, <2>9, <2>11 DEF Rewired
    <3>3. k[x].parent = IF x = y THEN u ELSE IF x = rt THEN m
                        ELSE IF x = m THEN Null ELSE node[x].parent
        BY <1>6, <2>2, <2>3, <2>5, <2>7, <2>9, <2>11 DEF Rewired
    <3>4. QED BY <3>1, <3>2, <3>3
  <2>14. k \in [Members -> Links]
    BY <2>2, <2>12
  <2>15. QED BY <1>9, <2>13, <2>14 DEF k, n0, rt, m, u, y
<1>10. QED BY <1>8, <1>9

LEMMA ReplaceDone ==
    ASSUME NEW lo, NEW hi, Shape(Members, root, node, lo, hi), NEW v \in Members,
           node[v].right # Null, RemoveNode(v)
    PROVE  LET m == Along(node, "left", node[v].right)
           IN  /\ m \in Members /\ node[m].left = Null /\ lo[m] = v
               /\ Replaced(Members, node, node', v, m)
               /\ root' = IF node[v].parent = Null THEN m ELSE root
<1> DEFINE rt == node[v].right
           m == Along(node, "left", rt)
           u == node[m].parent
           y == node[m].right
           l == node[v].left
           p == node[v].parent
           side == IF p # Null /\ node[p].left = v THEN "left" ELSE "right"
           k == Picked(Relinked(node, rt, "parent", Null), rt)
           n6 == Relinked(k, m, "left", l)
           n7 == Relinked(n6, l, "parent", m)
           n8 == Relinked(n7, m, "parent", p)
           n9 == Relinked(n8, p, side, m)
<1>1. /\ node \in [Members -> Links] /\ Null \notin Members /\ Members \cup {Null} \subseteq Nat
      /\ \A x \in Members : /\ LeftIs(Members, node, lo, hi, x) /\ RightIs(Members, node, lo, hi, x)
                            /\ ParentIs(Members, root, node, x) /\ BoundsAre(lo, hi, x)
                            /\ x \in Nat /\ lo[x] \in Nat
    BY ShapeIs DEF Null
<1>2. rt \in Members /\ lo[rt] = v /\ node[rt].parent = v
    BY <1>1 DEF RightIs
<1>3. m \in Members /\ node[m].left = Null /\ lo[m] = v
    BY <1>2, LeftEnd
<1>4. /\ k \in [Members -> Links]
      /\ \A x \in Members :
            /\ k[x].left = IF x = u /\ m # rt THEN y ELSE node[x].left
            /\ k[x].right = IF x = m /\ m # rt THEN rt ELSE node[x].right
            /\ k[x].parent = IF x = y /\ m # rt THEN u
                             ELSE IF x = rt /\ m # rt THEN m
                             ELSE IF x = m \/ x = rt THEN Null ELSE node[x].parent
    BY PickedIs
<1>5. Sub(v) = m /\ Detached(v) = n7
  <2>1. Sub(v) = m
    BY DEF Sub
  <2>2. Detached(v) = Relinked(Relinked(k, Sub(v), "left", l), l, "parent", Sub(v))
    BY DEF Detached
  <2>3. QED BY <2>1, <2>2
<1>6. node' = [w \in Members \ {v} |-> n9[w]] /\ root' = IF p = Null THEN m ELSE root
  <2>1. /\ node' = [w \in Members \ {v} |->
                      Relinked(Relinked(Detached(v), Sub(v), "parent", p), p, side, Sub(v))[w]]
        /\ root' = IF p = Null THEN Sub(v) ELSE root
    BY DEF RemoveNode
  <2>2. QED BY <1>5, <2>1
<1> HIDE DEF m, k
<1>7. l \in Members \cup {Null} /\ p \in Members \cup {Null} /\ y \in Members \cup {Null}
    BY <1>1, <1>3 DEF LeftIs, RightIs, ParentIs
<1>8. /\ "parent" \in Sides /\ "left" \in Sides /\ side \in Sides /\ side # "parent"
      /\ (p # Null => (side = "left" <=> node[p].left = v))
      /\ (p # Null => (side = "right" <=> node[p].left # v))
      /\ m \in Members \cup {Null} /\ m \in Nat /\ l \in Nat /\ p \in Nat
    BY <1>1, <1>3, <1>7 DEF Sides
(* The places that are written twice are the same, or do not meet. *)
<1>9. m # v /\ lo[v] # m
  <2>1. BoundsAre(lo, hi, m) /\ BoundsAre(lo, hi, v) /\ m \in Nat /\ v \in Nat /\ lo[v] \in Nat
    BY <1>1, <1>3
  <2>2. lo[m] < m /\ lo[v] < v
    BY <2>1 DEF BoundsAre
  <2>3. QED BY <1>3, <2>1, <2>2
<1>10. p # m /\ y # rt
  <2>1. Over(Members, root, node, lo, hi, v)
    BY OverIs
  <2>2. p # m
    BY <1>1, <1>3, <1>9, <2>1 DEF Over
  <2>3. y # Null => node[y].parent = m
    BY <1>1, <1>3 DEF RightIs
  <2>4. QED BY <1>1, <1>2, <1>9, <2>2, <2>3
<1> HIDE DEF rt, l, p, u, y, side
<1>11. Rewired(Members, k, n6, m, "left", l)
    BY <1>1, <1>4, <1>8, RelinkIs
<1>12. n6 \in [Members -> Links]
    BY <1>11 DEF Rewired
<1> HIDE DEF n6
<1>13. Rewired(Members, n6, n7, l, "parent", m)
    BY <1>1, <1>7, <1>8, <1>12, RelinkIs
<1>14. n7 \in [Members -> Links]
    BY <1>13 DEF Rewired
<1> HIDE DEF n7
<1>15. Rewired(Members, n7, n8, m, "parent", p)
    BY <1>1, <1>8, <1>14, RelinkIs
<1>16. n8 \in [Members -> Links]
    BY <1>15 DEF Rewired
<1> HIDE DEF n8
<1>17. Rewired(Members, n8, n9, p, side, m)
    BY <1>1, <1>7, <1>8, <1>16, RelinkIs
<1>18. n9 \in [Members -> Links]
    BY <1>17 DEF Rewired
<1> HIDE DEF n9
<1>19. ASSUME NEW x \in Members
       PROVE  /\ n9[x].left = IF x = m THEN l
                              ELSE IF x = p /\ node[p].left = v THEN m
                              ELSE IF x = u /\ m # rt THEN y ELSE node[x].left
              /\ n9[x].right = IF x = m THEN IF m = rt THEN y ELSE rt
                               ELSE IF x = p /\ node[p].left # v THEN m ELSE node[x].right
              /\ n9[x].parent = IF x = m THEN p
                                ELSE IF x = l \/ x = rt THEN m
                                ELSE IF x = y /\ m # rt THEN u ELSE node[x].parent
  <2>0. x # Null
    BY <1>1
  <2>1. n9[x].left = IF x = m THEN l
                     ELSE IF x = p /\ node[p].left = v THEN m
                     ELSE IF x = u /\ m # rt THEN y ELSE node[x].left
    <3>1. n9[x].left = IF x = p /\ side = "left" THEN m ELSE n8[x].left
        BY <1>17 DEF Rewired
    <3>2. n8[x].left = IF x = m THEN l ELSE k[x].left
        BY <1>11, <1>13, <1>15 DEF Rewired
    <3>3. QED BY <1>4, <1>8, <1>10, <2>0, <3>1, <3>2
  <2>2. n9[x].right = IF x = m THEN IF m = rt THEN y ELSE rt
                      ELSE IF x = p /\ node[p].left # v THEN m ELSE node[x].right
    <3>1. n9[x].right = IF x = p /\ side = "right" THEN m ELSE n8[x].right
        BY <1>17 DEF Rewired
    <3>2. n8[x].right = k[x].right
        BY <1>11, <1>13, <1>15 DEF Rewired
    <3>3. x = m => node[x].right = y
        BY DEF y
    <3>4. QED BY <1>4, <1>8, <1>10, <2>0, <3>1, <3>2, <3>3
  <2>3. n9[x].parent = IF x = m THEN p
                       ELSE IF x = l \/ x = rt THEN m
                       ELSE IF x = y /\ m # rt THEN u ELSE node[x].parent
    <3>1. n9[x].parent = n8[x].parent
        BY <1>8, <1>17 DEF Rewired
    <3>2. n8[x].parent = IF x = m THEN p ELSE IF x = l THEN m ELSE k[x].parent
        BY <1>11, <1>13, <1>15 DEF Rewired
    <3>3. QED BY <1>4, <1>10, <3>1, <3>2
  <2>4. QED BY <2>1, <2>2, <2>3
<1>20. node' \in [Members \ {v} -> Links] /\ \A x \in Members \ {v} : node'[x] = n9[x]
    BY <1>6, <1>18
<1>21. Replaced(Members, node, node', v, m)
    BY <1>19, <1>20 DEF Replaced, p, u, y, l, rt
<1>22. QED BY <1>3, <1>6, <1>21 DEF m, rt, p

LEMMA RemoveKeeps ==
    ASSUME NEW lo, NEW hi, Shape(Members, root, node, lo, hi), NEW v \in Members, RemoveNode(v)
    PROVE  /\ Members' = Members \ {v}
           /\ \E a, b : Shape(Members', root', node', a, b)
<1>1. Members' = Members \ {v}
    BY DEF RemoveNode, Members
<1>2. CASE node[v].right = Null
  <2>1. /\ Bypassed(Members, node, node', v)
        /\ root' = IF node[v].parent = Null THEN node[v].left ELSE root
    BY <1>2, BypassDone
  <2>2. \E a, b : Shape(Members \ {v}, root', node', a, b)
    BY <1>2, <2>1, BypassKeeps
  <2>3. QED BY <1>1, <2>2
<1>3. CASE node[v].right # Null
  <2> DEFINE m == Along(node, "left", node[v].right)
  <2>1. /\ m \in Members /\ node[m].left = Null /\ lo[m] = v
        /\ Replaced(Members, node, node', v, m)
        /\ root' = IF node[v].parent = Null THEN m ELSE root
    BY <1>3, ReplaceDone
  <2> HIDE DEF m
  <2>2. \E a, b : Shape(Members \ {v}, root', node', a, b)
    BY <1>3, <2>1, ReplaceKeeps
  <2>3. QED BY <1>1, <2>2
<1>4. QED BY <1>2, <1>3

-----------------------------------------------------------------------------
(* What a pass has still to see is what is from its node on.               *)
Beyond(M, i) == {w \in M : w > i}
Onward(M, i)  == IF i = Null THEN {} ELSE {w \in M : i <= w}

TreeInv ==
    /\ \E lo, hi : Shape(Members, root, node, lo, hi)
    /\ iter # Null => iter \in Members
    /\ toVisit = Onward(Members, iter)

LEMMA LeastIsLeast ==
    ASSUME NEW S, S \subseteq Nat \ {Null}
    PROVE  IF S = {} THEN LeastOf(S) = Null
           ELSE LeastOf(S) \in S /\ \A w \in S : LeastOf(S) <= w
<1>1. CASE S = {}
    BY <1>1 DEF LeastOf
<1>2. CASE S # {}
  <2>1. PICK m \in S : \A w \in S : m <= w
    BY <1>2, LeastNat
  <2>2. LeastOf(S) = m
    BY <2>1, LeastThere
  <2>3. QED BY <1>2, <2>1, <2>2
<1>3. QED BY <1>1, <1>2

(* With the last node seen gone or not, what was after it is still to see. *)
LEMMA PassGoesOn ==
    ASSUME NEW M, M \subseteq Nat \ {Null}, NEW i \in M, NEW N, N = M \/ N = M \ {i},
           NEW j, j = LeastOf(Beyond(M, i))
    PROVE  (j # Null => j \in N) /\ Onward(M, i) \ {i} = Onward(N, j)
<1>0. Onward(M, i) = {w \in M : i <= w} /\ Beyond(M, i) = {w \in M : w > i}
    BY DEF Onward, Beyond
<1> DEFINE S == {w \in M : w > i}
<1>1. /\ \A w : w \in S <=> w \in M /\ w > i
      /\ \A w \in M : w \in Nat \ {Null} /\ (w # i => w \in N)
      /\ \A w \in N : w \in M
      /\ i \in Nat
    OBVIOUS
<1>2. S \subseteq Nat \ {Null} /\ j = LeastOf(S)
    BY <1>0
<1> HIDE DEF S
<1>3. IF S = {} THEN j = Null ELSE j \in S /\ \A w \in S : j <= w
    BY <1>2, LeastIsLeast
<1>4. {w \in M : i <= w} \ {i} = S
  <2>1. ASSUME NEW w \in M PROVE (i <= w /\ w # i) <=> w > i
    <3>1. w \in Nat
        BY <1>1
    <3>2. QED BY <1>1, <3>1
  <2>2. QED BY <1>1, <2>1
<1>5. CASE S = {}
    BY <1>0, <1>3, <1>4, <1>5 DEF Onward
<1>6. CASE S # {}
  <2>1. j \in S /\ (\A w \in S : j <= w) /\ j \in M /\ j > i /\ j \in Nat /\ j # Null
    BY <1>1, <1>2, <1>3, <1>6
  <2>2. j \in N
    BY <1>1, <2>1
  <2>3. \A w : w \in S <=> w \in N /\ j <= w
    <3>1. ASSUME NEW w \in S PROVE w \in N /\ j <= w
        BY <1>1, <2>1
    <3>2. ASSUME NEW w \in N, j <= w PROVE w \in S
        <4>1. w \in M /\ w \in Nat
            BY <1>1
        <4>2. w > i
            BY <1>1, <2>1, <3>2, <4>1
        <4>3. QED BY <1>1, <4>1, <4>2
    <3>3. QED BY <3>1, <3>2
  <2>4. S = {w \in N : j <= w}
    BY <2>3
  <2>5. QED BY <1>0, <1>4, <2>1, <2>2, <2>4 DEF Onward
<1>7. QED BY <1>5, <1>6

LEMMA TreeStarts == TreeInit => TreeInv
<1> SUFFICES ASSUME TreeInit PROVE TreeInv
    OBVIOUS
<1>1. Members = {} /\ root = Null /\ iter = Null /\ toVisit = Onward(Members, iter)
    BY DEF TreeInit, Members, Onward
<1>2. node \in [{} -> Links] /\ node \in [{} -> {} \cup {Null}]
    BY <1>1 DEF TreeInit
<1>3. Shape(Members, root, node, node, node)
    BY <1>1, <1>2, FS_EmptySet DEF Shape, TreeTypes
<1>4. QED BY <1>1, <1>3 DEF TreeInv

LEMMA TreeStep == TreeInv /\ [TreeNext]_treeVars => TreeInv'
<1> SUFFICES ASSUME TreeInv, [TreeNext]_treeVars PROVE TreeInv'
    OBVIOUS
<1>0. PICK lo, hi : Shape(Members, root, node, lo, hi)
    BY DEF TreeInv
<1>1. Members \subseteq Nat \ {Null}
    BY <1>0, ShapeIs DEF Null
<1>2. CASE UNCHANGED treeVars
    BY <1>2 DEF treeVars, TreeInv, Members
<1>3. ASSUME Idle, NEW v \in Values, Add(v), UNCHANGED <<iter, toVisit>> PROVE TreeInv'
  <2>1. v \in Nat \ {Null}
    BY TreeAssumption
  <2>2. \E a, b : Shape(Members', root', node', a, b)
    BY <1>0, <1>3, <2>1, AddKeeps
  <2>3. QED BY <1>3, <2>2 DEF TreeInv, Idle, Onward
<1>4. ASSUME Idle, NEW v \in Values, Remove(v), UNCHANGED <<iter, toVisit>> PROVE TreeInv'
  <2>1. CASE Found(v)
    <3>1. v \in Members /\ RemoveNode(v)
        BY <1>0, <1>4, <2>1, FoundAre, TreeAssumption DEF Remove
    <3>2. \E a, b : Shape(Members', root', node', a, b)
        BY <1>0, <3>1, RemoveKeeps
    <3>3. QED BY <1>4, <3>2 DEF TreeInv, Idle, Onward
  <2>2. CASE ~Found(v)
    BY <1>4, <2>2 DEF Remove, TreeInv, Members
  <2>3. QED BY <2>1, <2>2
<1>5. CASE Begin
  <2>1. /\ root' = root /\ node' = node /\ Members' = Members /\ toVisit' = Members
        /\ iter' = LeastOf(Members)
    BY <1>0, <1>5, EndsAre DEF Begin, Members
  <2>2. IF Members = {} THEN iter' = Null
        ELSE iter' \in Members /\ \A w \in Members : iter' <= w
    BY <1>1, <2>1, LeastIsLeast
  <2>3. iter' # Null => iter' \in Members'
    BY <2>1, <2>2
  <2>4. toVisit' = Onward(Members', iter')
    BY <1>1, <2>1, <2>2 DEF Onward
  <2>5. QED BY <1>0, <2>1, <2>3, <2>4 DEF TreeInv
<1>6. CASE Visit
  <2>1. iter # Null /\ iter \in Members /\ toVisit = Onward(Members, iter)
    BY <1>6 DEF Visit, Idle, TreeInv
  <2>2. iter' = LeastOf(Beyond(Members, iter)) /\ toVisit' = toVisit \ {iter}
    BY <1>0, <1>6, <2>1, NextIs DEF Visit, Beyond
  <2>3. /\ Members' = Members \/ Members' = Members \ {iter}
        /\ \E a, b : Shape(Members', root', node', a, b)
    <3>1. CASE RemoveNode(iter)
        BY <1>0, <2>1, <3>1, RemoveKeeps
    <3>2. CASE UNCHANGED <<root, node>>
        <4>1. Members' = Members /\ root' = root /\ node' = node
            BY <3>2 DEF Members
        <4>2. QED BY <1>0, <4>1
    <3>3. QED BY <1>6, <3>1, <3>2 DEF Visit
  <2>4. /\ iter' # Null => iter' \in Members'
        /\ Onward(Members, iter) \ {iter} = Onward(Members', iter')
    <3>1. \A N, j : (N = Members \/ N = Members \ {iter}) /\ j = LeastOf(Beyond(Members, iter))
                    => (j # Null => j \in N) /\ Onward(Members, iter) \ {iter} = Onward(N, j)
        <4>1. \A i \in Members : \A N, j :
                (N = Members \/ N = Members \ {i}) /\ j = LeastOf(Beyond(Members, i))
                => (j # Null => j \in N) /\ Onward(Members, i) \ {i} = Onward(N, j)
            BY <1>1, PassGoesOn, ZenonT(60)
        <4>2. QED BY <2>1, <4>1, Zenon
    <3>2. QED BY <2>2, <2>3, <3>1, Zenon
  <2>5. QED BY <2>1, <2>2, <2>3, <2>4 DEF TreeInv
<1>7. QED BY <1>2, <1>3, <1>4, <1>5, <1>6 DEF TreeNext

LEMMA TreeInvOrders == TreeInv => TreeIsOrdered
<1> SUFFICES ASSUME TreeInv PROVE TreeIsOrdered
    OBVIOUS
<1>0. PICK lo, hi : Shape(Members, root, node, lo, hi)
    BY DEF TreeInv
<1>1. LinksAgree /\ WalksAreSorted
    BY <1>0, SoundIsSorted
<1>2. PassSeesAll
  <2>0. Members \subseteq Nat \ {Null}
    BY <1>0, ShapeIs DEF Null
  <2>1. CASE iter = Null
    BY <2>1 DEF TreeInv, PassSeesAll, LeastOf, Onward
  <2>2. CASE iter # Null
    <3>1. iter \in Members /\ toVisit = {w \in Members : iter <= w}
        BY <2>2 DEF TreeInv, Onward
    <3>2. iter \in toVisit /\ toVisit \subseteq Nat /\ \A w \in toVisit : iter <= w
        <4>1. iter \in Nat /\ iter <= iter
            BY <2>0, <3>1
        <4>2. QED BY <2>0, <3>1, <4>1
    <3>3. LeastOf(toVisit) = iter
        BY <3>2, LeastThere
    <3>4. QED BY <3>3 DEF PassSeesAll
  <2>3. QED BY <2>1, <2>2
<1>3. QED BY <1>1, <1>2 DEF TreeIsOrdered

(* Whatever is added and removed, also by a pass that removes the nodes it *)
(* is at, the links of the search tree agree, every value is found, the    *)
(* walks go through them in order, and the pass sees each of them.         *)
THEOREM TreeStaysOrdered == TreeSpec => []TreeIsOrdered
<1>1. TreeSpec => []TreeInv
    BY TreeStarts, TreeStep, PTL DEF TreeSpec
<1>2. QED BY <1>1, TreeInvOrders, PTL
=============================================================================
