-------------------------------- MODULE Lock --------------------------------
(***************************************************************************)
(* What a mutex promises its threads: one owner at a time, that only the   *)
(* owner gives it up, and that a lock call may fail but never with the     *)
(* lock in hand (u_concur/include/u_concur/mutex.h).                       *)
(***************************************************************************)
CONSTANTS Threads, Nobody

VARIABLES
    asking,     \* threads in mut_lock
    owner       \* the thread that has the lock, or Nobody

lockVars == <<asking, owner>>

LockInit == asking = {} /\ owner = Nobody

Ask(t) ==
    /\ t \notin asking /\ owner # t
    /\ asking' = asking \cup {t} /\ UNCHANGED owner

Acquire(t) ==
    /\ t \in asking /\ owner = Nobody
    /\ asking' = asking \ {t} /\ owner' = t

GiveUp(t) ==
    /\ t \in asking
    /\ asking' = asking \ {t} /\ UNCHANGED owner

Release(t) ==
    /\ owner = t
    /\ owner' = Nobody /\ UNCHANGED asking

LockNext == \E t \in Threads : Ask(t) \/ Acquire(t) \/ GiveUp(t) \/ Release(t)

LockSpec == LockInit /\ [][LockNext]_lockVars
=============================================================================
