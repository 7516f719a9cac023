-------------------------------- MODULE Mutex --------------------------------
(***************************************************************************)
(* The futex mutex of u_concur/src/mutex.c: each compare-and-swap and each *)
(* futex call of mut_lock and mut_unlock is a step of its own, and threads *)
(* are preempted between any two.  A thread unlocks only what it locked,   *)
(* and the mutex is initialised again only when no thread is in a call.    *)
(***************************************************************************)
EXTENDS Futex

CONSTANT Nobody     \* the owner of a free lock

ASSUME MutexConstants == Nobody \notin Threads

VARIABLE pc         \* where each thread is in mut_lock and mut_unlock

vars == <<futexVars, pc>>

UNLOCKED    == 0
UNCONTENDED == 1
CONTENDED   == 2

InLock   == {"lock", "contend", "wait", "asleep"}
InCS     == {"cs", "unlock", "unlock2"}
Places   == {"out", "wake"} \cup InLock \cup InCS

Goto(t, place) == pc' = [pc EXCEPT ![t] = place]

(* The mutex as init_mutex leaves it. *)
Init ==
    /\ word = UNLOCKED /\ registered = TRUE
    /\ waitQ = << >>
    /\ answer = [t \in Threads |-> "none"]
    /\ pc = [t \in Threads |-> "out"]

(* __sync_val_compare_and_swap on the word. *)
CAS(old, new) == word' = IF word = old THEN new ELSE word

(* init_mutex, of a mutex that was cleaned up *)
InitMutex(t) ==
    /\ ~registered /\ \A u \in Threads : pc[u] = "out"
    /\ word' = UNLOCKED
    /\ Register(t)
    /\ UNCHANGED pc

(* cleanup_mutex: a thread that waits is woken with an error. *)
CleanupMutex(t) ==
    /\ pc[t] = "out" /\ registered
    /\ Deregister(t)
    /\ UNCHANGED pc

(* mut_lock *)
CallLock(t) ==
    /\ pc[t] = "out"
    /\ Goto(t, "lock") /\ UNCHANGED futexVars

TryLock(t) ==
    /\ pc[t] = "lock"
    /\ CAS(UNLOCKED, UNCONTENDED)
    /\ Goto(t, IF word = UNLOCKED THEN "cs" ELSE "contend")
    /\ UNCHANGED <<registered, waitQ, answer>>

(* Variant for a mutant: an unconditional exchange. *)
MarkContended_Swap(t) ==
    /\ pc[t] = "contend"
    /\ word' = CONTENDED
    /\ Goto(t, "wait")
    /\ UNCHANGED <<registered, waitQ, answer>>

MarkContended(t) ==
    /\ pc[t] = "contend"
    /\ CAS(UNCONTENDED, CONTENDED)
    /\ Goto(t, "wait")
    /\ UNCHANGED <<registered, waitQ, answer>>

WaitLock(t) ==
    /\ pc[t] = "wait"
    /\ Wait(t, CONTENDED)
    /\ Goto(t, "asleep")

(* Variant for a mutant: a wake-up is taken for a hand-over of the lock. *)
WaitReturns_Owner(t) ==
    /\ pc[t] = "asleep" /\ answer[t] # "blocked"
    /\ Goto(t, IF answer[t] = "success" THEN "cs" ELSE "out")
    /\ UNCHANGED futexVars

(* sc_fut_wait has returned, at once or after a wake-up. *)
WaitReturns(t) ==
    /\ pc[t] = "asleep" /\ answer[t] # "blocked"
    /\ Goto(t, IF answer[t] = "success" THEN "lock" ELSE "out")
    /\ UNCHANGED futexVars

(* mut_unlock *)
CallUnlock(t) ==
    /\ pc[t] = "cs"
    /\ Goto(t, "unlock") /\ UNCHANGED futexVars

UnlockFast(t) ==
    /\ pc[t] = "unlock"
    /\ CAS(UNCONTENDED, UNLOCKED)
    /\ Goto(t, IF word = UNCONTENDED THEN "out" ELSE "unlock2")
    /\ UNCHANGED <<registered, waitQ, answer>>

(* A word that is neither value is a state mismatch: the call returns. *)
UnlockSlow(t) ==
    /\ pc[t] = "unlock2"
    /\ CAS(CONTENDED, UNLOCKED)
    /\ Goto(t, IF word = CONTENDED THEN "wake" ELSE "out")
    /\ UNCHANGED <<registered, waitQ, answer>>

WakeAll(t) ==
    /\ pc[t] = "wake"
    /\ Wake(t, TRUE)
    /\ Goto(t, "out")

(* The steps a thread takes once it is in a call, or in its critical       *)
(* section.                                                                *)
Proceed(t) ==
    \/ TryLock(t) \/ MarkContended(t) \/ WaitLock(t) \/ WaitReturns(t)
    \/ CallUnlock(t) \/ UnlockFast(t) \/ UnlockSlow(t) \/ WakeAll(t)

Step(t) == Proceed(t) \/ CallLock(t) \/ CleanupMutex(t) \/ InitMutex(t)

Next == \E t \in Threads : Step(t)

Spec == Init /\ [][Next]_vars

(* Round robin gives every scheduled thread the CPU again and again        *)
(* (EveryThreadRuns of Kernel), and a critical section ends.               *)
FairSpec == Spec /\ \A t \in Threads : WF_vars(Proceed(t))

-----------------------------------------------------------------------------
TypeOK ==
    /\ word \in {UNLOCKED, UNCONTENDED, CONTENDED}
    /\ registered \in BOOLEAN
    /\ waitQ \in Seq(Threads)
    /\ answer \in [Threads -> Answers]
    /\ pc \in [Threads -> Places]

Holds(t) == pc[t] \in InCS

(* One thread at a time between the compare-and-swap that takes the lock   *)
(* and the one that gives it up, also across failed calls and a clean-up   *)
(* of the mutex under its waiters.                                         *)
MutualExclusion == \A t, u \in Threads : Holds(t) /\ Holds(u) => t = u

(* The word is never UNLOCKED under a holder, and once the fast unlock has *)
(* failed it is CONTENDED: a holder's mut_unlock never returns             *)
(* FOS_E_STATE_MISMATCH, whatever contenders do between its two attempts.  *)
UnlockFindsLock ==
    \A t \in Threads : /\ Holds(t) => word # UNLOCKED
                       /\ pc[t] = "unlock2" => word = CONTENDED

(* No lost wake-up: while threads are queued, the lock is marked contended *)
(* with a holder that will see the mark, or some unlocker is just about to *)
(* wake them all.                                                          *)
NoLostWakeup ==
    waitQ # << >> =>
        \/ word = CONTENDED /\ \E t \in Threads : Holds(t)
        \/ \E t \in Threads : pc[t] = "wake"

(* A thread blocked on the mutex is woken: by an unlock or a clean-up. *)
WaitersAreWoken ==
    \A t \in Threads : answer[t] = "blocked" ~> answer[t] # "blocked"

(* Refinement: the mutex implements Lock.  The lock is owned from the      *)
(* compare-and-swap of mut_lock to the one of mut_unlock.                  *)
Owner == IF \E t \in Threads : Holds(t) THEN CHOOSE t \in Threads : Holds(t) ELSE Nobody

Abstract == INSTANCE Lock WITH asking <- {t \in Threads : pc[t] \in InLock}, owner <- Owner

ImplementsLock == Abstract!LockSpec
=============================================================================
