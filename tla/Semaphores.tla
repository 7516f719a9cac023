----------------------------- MODULE Semaphores -----------------------------
(***************************************************************************)
(* The semaphores of the shared memory plugin (k_startup/src/plugin_shm.c).*)
(* A command and a hook are one step each, the hook in the step of the     *)
(* process call that runs it.  Reference bits, not handles, tell which     *)
(* processes may use a semaphore; a fork copies them.                      *)
(***************************************************************************)
EXTENDS Processes, Queues

CONSTANTS
    Sems,       \* semaphore ids, KS_SHM_MAX_SEMS of them in the code
    MaxPasses   \* bound: the most passes a user makes a semaphore with

VARIABLES
    max,        \* max_passes of each semaphore, 0 for an id that is free
    passes,     \* passes that can still be lent
    refs,       \* the processes whose bit is set
    waitQ,      \* the basic wait queue, front first
    dangling,   \* threads whose wq pointer is of a queue that is freed
    lent,       \* history: passes given to callers less passes brought back
    broken      \* the kernel has used a freed queue: anything may follow

semVars == <<max, passes, refs, waitQ, dangling, lent, broken>>
vars == <<processVars, semVars>>

Init ==
    /\ ProcessInit
    /\ max = [s \in Sems |-> 0] /\ passes = max /\ lent = max
    /\ refs = [s \in Sems |-> {}] /\ waitQ = [s \in Sems |-> << >>]
    /\ dangling = {} /\ broken = FALSE

Enter(th)     == ~broken /\ Running(th)
Has(p, s)     == max[s] > 0 /\ p \in refs[s]

(* delete_wait_queue, al_free and idtb_push_id for the semaphores of gone; *)
(* q are the queues as they are then, and their threads keep the pointer.  *)
Dispose(gone, q) ==
    /\ max'    = [s \in Sems |-> IF s \in gone THEN 0 ELSE max[s]]
    /\ passes' = [s \in Sems |-> IF s \in gone THEN 0 ELSE passes[s]]
    /\ lent'   = [s \in Sems |-> IF s \in gone THEN 0 ELSE lent[s]]
    /\ waitQ'  = [s \in Sems |-> IF s \in gone THEN << >> ELSE q[s]]

Left(gone, q) == UNION {Items(q[s]) : s \in gone}

-----------------------------------------------------------------------------
(* The commands *)

(* PLG_SHM_PCID_NEW_SEM.  A failed allocation or copy to the user undoes   *)
(* all it did, and so changes nothing.                                     *)
NewSem(th, s, m) ==
    /\ Enter(th) /\ max[s] = 0
    /\ max' = [max EXCEPT ![s] = m] /\ passes' = [passes EXCEPT ![s] = m]
    /\ refs' = [refs EXCEPT ![s] = {th[1]}]
    /\ UNCHANGED <<processVars, waitQ, dangling, lent, broken>>

(* PLG_SHM_PCID_SEM_DEC; with no memory for the queue the call fails.      *)
Dec(th, s) ==
    /\ Enter(th) /\ Has(th[1], s)
    /\ \/ /\ passes[s] > 0
          /\ passes' = [passes EXCEPT ![s] = @ - 1]
          /\ lent' = [lent EXCEPT ![s] = @ + 1]
          /\ UNCHANGED <<tst, waitQ>>
       \/ /\ passes[s] = 0
          /\ waitQ' = [waitQ EXCEPT ![s] = Append(@, th)]
          /\ Sleeps(th)
          /\ UNCHANGED <<passes, lent>>
    /\ UNCHANGED <<pst, main, max, refs, dangling, broken>>

(* Variant for a mutant: the woken thread's pass stays in the counter too. *)
Inc_PassKept(th, s) ==
    /\ Enter(th) /\ Has(th[1], s) /\ passes[s] < max[s]
    /\ passes' = [passes EXCEPT ![s] = @ + 1]
    /\ IF passes[s] = 0 /\ waitQ[s] # << >>
       THEN /\ Wakes({Head(waitQ[s])})
            /\ waitQ' = [waitQ EXCEPT ![s] = Tail(@)]
            /\ UNCHANGED lent
       ELSE /\ lent' = [lent EXCEPT ![s] = @ - 1]
            /\ UNCHANGED <<tst, waitQ>>
    /\ UNCHANGED <<pst, main, max, refs, dangling, broken>>

(* PLG_SHM_PCID_SEM_INC: the first waiter takes the pass on its way.  At   *)
(* max_passes the call does nothing.                                       *)
Inc(th, s) ==
    /\ Enter(th) /\ Has(th[1], s) /\ passes[s] < max[s]
    /\ IF passes[s] = 0 /\ waitQ[s] # << >>
       THEN /\ Wakes({Head(waitQ[s])})
            /\ waitQ' = [waitQ EXCEPT ![s] = Tail(@)]
            /\ UNCHANGED <<passes, lent>>
       ELSE /\ passes' = [passes EXCEPT ![s] = @ + 1]
            /\ lent' = [lent EXCEPT ![s] = @ - 1]
            /\ UNCHANGED <<tst, waitQ>>
    /\ UNCHANGED <<pst, main, max, refs, dangling, broken>>

(* The threads of p that a close takes out of the queue, with              *)
(* FOS_E_STATE_MISMATCH.                                                   *)
Woken(p, s) == {u \in Items(waitQ[s]) : u[1] = p}

(* PLG_SHM_PCID_SEM_CLOSE *)
Close(th, s) ==
    LET p == th[1]
        q == [waitQ EXCEPT ![s] = Drop(@, Woken(p, s))]
        gone == IF refs[s] = {p} THEN {s} ELSE {}
    IN  /\ Enter(th) /\ Has(p, s)
        /\ Wakes(Woken(p, s))
        /\ refs' = [refs EXCEPT ![s] = @ \ {p}]
        /\ Dispose(gone, q) /\ dangling' = dangling \cup Left(gone, q)
        /\ UNCHANGED <<pst, main, broken>>

-----------------------------------------------------------------------------
(* Process calls, with the plugin's hooks *)

Spawn(th, u) == ~broken /\ Spawns(th, u) /\ UNCHANGED semVars
EndThread(th) == ~broken /\ EndsThread(th) /\ UNCHANGED semVars

(* plg_shm_on_fork_proc *)
CopyRefs(p, c) ==
    refs' = [s \in Sems |-> IF p \in refs[s] THEN refs[s] \cup {c} ELSE refs[s]]

Fork(th, c) ==
    /\ ~broken /\ Forks(th, c) /\ CopyRefs(th[1], c)
    /\ UNCHANGED <<max, passes, waitQ, dangling, lent, broken>>

(* thread_detach of waiting threads: wq_remove through the thread's        *)
(* pointer, which must be of a queue that exists.                          *)
Detached(ths) == [s \in Sems |-> Drop(waitQ[s], ths)]

Exit(th) ==
    /\ ~broken /\ Exits(th)
    /\ waitQ' = Detached(ThreadsOf(th[1]))
    /\ UNCHANGED <<max, passes, refs, dangling, lent, broken>>

(* The semaphores nobody but p refers to. *)
Only(p) == {s \in Sems : refs[s] = {p}}

(* Variant for a mutant: the bits of a process that goes away stay. *)
ClearRefs_Not(p) == UNCHANGED refs

(* plg_shm_on_reset_or_reap_proc *)
ClearRefs(p) == refs' = [s \in Sems |-> refs[s] \ {p}]

Reap(p) ==
    /\ ~broken /\ Reaps(p) /\ ClearRefs(p)
    /\ Dispose(Only(p), waitQ) /\ dangling' = dangling \cup Left(Only(p), waitQ)
    /\ UNCHANGED broken

(* The reset hook first, which frees queues; then proc_exec detaches the   *)
(* process' threads, from queues that may be gone.                         *)
Exec(th) ==
    LET p == th[1]
        freed == dangling \cup Left(Only(p), waitQ) IN
    /\ ~broken /\ Execs(th) /\ ClearRefs(p)
    /\ Dispose(Only(p), Detached(ThreadsOf(p)))
    /\ broken' = (freed \cap ThreadsOf(p) # {})
    /\ dangling' = freed \ ThreadsOf(p)

Next ==
    \/ \E th \in Thread :
        \/ \E s \in Sems : \/ \E m \in 1 .. MaxPasses : NewSem(th, s, m)
                           \/ Dec(th, s) \/ Inc(th, s) \/ Close(th, s)
        \/ \E u \in Thread : Spawn(th, u)
        \/ \E c \in Procs : Fork(th, c)
        \/ EndThread(th) \/ Exit(th) \/ Exec(th)
    \/ \E p \in Procs : Reap(p)

Spec == Init /\ [][Next]_vars

-----------------------------------------------------------------------------
(* Every semaphore's numbers are in range: the passes that were given and  *)
(* not brought back, and those still in the counter, are all the passes it *)
(* was made with, whoever was woken, closed it or died in between.         *)
PassesConserved ==
    \A s \in Sems : passes[s] + lent[s] = max[s]

(* Nobody waits on a semaphore that has a pass, and a thread that waits is *)
(* in one queue, of a semaphore its own process may use.                   *)
WaitersAreRight ==
    /\ \A s \in Sems : waitQ[s] # << >> => passes[s] = 0
    /\ \A s, r \in Sems : s # r => Items(waitQ[s]) \cap Items(waitQ[r]) = {}
    /\ \A s \in Sems : \A th \in Items(waitQ[s]) :
            tst[th] = "waiting" /\ th[1] \in refs[s]

(* A semaphore exists as long as a process refers to it, and no longer;    *)
(* the bits are of processes that exist, so that a pid given out again     *)
(* comes without the semaphores of its former owner.                       *)
RefsKeepAlive ==
    \A s \in Sems :
        /\ (max[s] > 0) <=> (refs[s] # {})
        /\ \A p \in refs[s] : pst[p] # "free"

(* Closing by one process, or its death, never frees a queue that another  *)
(* process' thread waits in.                                               *)
OthersUndisturbed == dangling = {}

(* What thread.h says of THREAD_STATE_WAITING: such a thread is part of    *)
(* some wait queue.  An exec frees the queues of the process' semaphores   *)
(* while its other threads are still waiting in them, and then removes     *)
(* these threads from the freed queues.                                    *)
WaitingIsInQueue == ~broken
=============================================================================
