------------------------------ MODULE TimedQueue ------------------------------
(***************************************************************************)
(* The timed wait queue of s_data/src/wait_queue.c, in which the kernel's  *)
(* sleeping threads wait: wake-up times are on a clock that wraps, and the *)
(* queue is sorted by the distance to them.                                *)
(***************************************************************************)
EXTENDS Integers, Sequences, Queues

CONSTANTS
    Sleepers,
    Clock,      \* the number of values of the clock, 2^32 in the code
    MaxLate     \* bound: the most ticks between two calls of twq_notify

ASSUME TimedQueueAssumption == Clock \in Nat \ {0} /\ MaxLate \in Nat /\ MaxLate < Clock

VARIABLES
    time,
    wait_q,     \* of [item, wake]
    ready_q,    \* of items
    left,       \* what the callers expect: item -> the ticks it has still to wait
    woken       \* how many ticks too late each was whom the last tick woke

timedVars == <<time, wait_q, ready_q, left, woken>>

Times == 0 .. Clock - 1

(* Unsigned addition. *)
Plus(a, b) == IF a + b >= Clock THEN a + b - Clock ELSE a + b

(* Variant for a mutant: one tick is lost where the clock wraps. *)
AbsWait_Short(now, wake) == IF now <= wake THEN wake - now ELSE (Clock - 1 - now) + wake

(* abs_wait_time *)
AbsWait(now, wake) == IF now <= wake THEN wake - now ELSE (Clock - 1 - now) + 1 + wake

TimedInit ==
    time = 0 /\ wait_q = << >> /\ ready_q = << >> /\ left = [i \in {} |-> 0] /\ woken = << >>

(* Where twq_enqueue puts a pair that wakes at wt: before the first that   *)
(* has longer to wait.                                                     *)
Place(wt) ==
    LET later == {k \in 1 .. Len(wait_q) : AbsWait(time, wt) < AbsWait(time, wait_q[k].wake)}
    IN  IF later = {} THEN Len(wait_q) + 1 ELSE Least(later)

(* ks_sleep_thread: twq_enqueue at the present time plus the ticks asked.  *)
Enqueue(i, ticks) ==
    LET wt == Plus(time, ticks) IN
    /\ i \notin DOMAIN left
    /\ IF wt = time
       THEN ready_q' = Append(ready_q, i) /\ UNCHANGED wait_q
       ELSE wait_q' = PushAt(wait_q, Place(wt), [item |-> i, wake |-> wt]) /\ UNCHANGED ready_q
    /\ left' = [j \in DOMAIN left \cup {i} |-> IF j = i THEN ticks ELSE left[j]]
    /\ UNCHANGED <<time, woken>>

(* How many pairs twq_notify takes from the front. *)
Due(passed) ==
    LET stay == {k \in 1 .. Len(wait_q) : AbsWait(time, wait_q[k].wake) > passed}
    IN  IF stay = {} THEN Len(wait_q) ELSE Least(stay) - 1

(* ks_tick, d ticks after the last: twq_notify, and twq_pop until all that *)
(* are ready are woken.                                                    *)
Tick(d) ==
    LET curr == Plus(time, d)
        n    == Due(AbsWait(time, curr))
        out  == ready_q \o [k \in 1 .. n |-> wait_q[k].item]
    IN
    /\ time' = curr /\ wait_q' = SubSeq(wait_q, n + 1, Len(wait_q)) /\ ready_q' = << >>
    /\ woken' = [k \in 1 .. Len(out) |-> d - left[out[k]]]
    /\ left' = [i \in {j \in DOMAIN left : left[j] > d} |-> left[i] - d]

(* twq_remove: the thread is detached. *)
Removed(i) ==
    /\ wait_q' = Drop(wait_q, {p \in Items(wait_q) : p.item = i})
    /\ ready_q' = Drop(ready_q, {i})
    /\ left' = [j \in DOMAIN left \ {i} |-> left[j]]
    /\ UNCHANGED <<time, woken>>

TimedNext ==
    \/ \E i \in Sleepers : Removed(i) \/ \E ticks \in Times : Enqueue(i, ticks)
    \/ \E d \in 1 .. MaxLate : Tick(d)

TimedSpec == TimedInit /\ [][TimedNext]_timedVars

-----------------------------------------------------------------------------
Waiting == {wait_q[k].item : k \in 1 .. Len(wait_q)}

(* Also where the clock wraps, the queue holds those who have still to     *)
(* wait, sorted by how long, and each wake-up time is as far away as its   *)
(* thread has to wait.                                                     *)
DistancesAreRight ==
    /\ Waiting = {i \in DOMAIN left : left[i] > 0}
    /\ \A k \in 1 .. Len(wait_q) : AbsWait(time, wait_q[k].wake) = left[wait_q[k].item]
    /\ \A j, k \in 1 .. Len(wait_q) : j < k => left[wait_q[j].item] <= left[wait_q[k].item]
    /\ Items(ready_q) = {i \in DOMAIN left : left[i] = 0}

(* A tick wakes nobody before the time, and those longest overdue first.   *)
WokenInTurn ==
    \A j, k \in 1 .. Len(woken) : woken[k] >= 0 /\ (j < k => woken[j] >= woken[k])

(* Sleepers wake when their ticks are over, neither sooner nor later and   *)
(* in the order of their times (ks_sleep_thread, ks_tick and the queue).   *)
SleepersAreOnTime == DistancesAreRight /\ WokenInTurn
=============================================================================
