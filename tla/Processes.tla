----------------------------- MODULE Processes -----------------------------
(***************************************************************************)
(* The processes and threads a plugin sees: which of them exist, and which *)
(* wait.  The order of the schedule, the signals and the family tree are   *)
(* those of Kernel; here any scheduled thread may make the next system     *)
(* call, and any zombie may be reaped next.  The operators are the parts   *)
(* of the calls that concern every plugin; a plugin's module joins them    *)
(* with its own hook, in the one step the kernel makes of both.            *)
(***************************************************************************)
EXTENDS Naturals, FiniteSets

CONSTANTS
    Procs, Tids,
    First       \* the process that runs at the start, with its thread 0

VARIABLES
    pst,        \* "free", "live" or "zombie"
    tst,        \* "none", "ready" (scheduled), "waiting", or "detached":
                \* neither, and nobody knows of the thread any more
    main        \* the thread that is left by an exec

processVars == <<pst, tst, main>>

Thread == Procs \X Tids
ThreadsOf(p) == {p} \X Tids

ProcessTypeOK ==
    /\ pst \in [Procs -> {"free", "live", "zombie"}]
    /\ tst \in [Thread -> {"none", "ready", "waiting", "detached"}]
    /\ main \in [Procs -> Tids]

ProcessInit ==
    /\ pst = [p \in Procs |-> IF p = First THEN "live" ELSE "free"]
    /\ tst = [th \in Thread |-> IF th = <<First, 0>> THEN "ready" ELSE "none"]
    /\ main = [p \in Procs |-> 0]

(* The thread at the head of the schedule enters the kernel. *)
Running(th) == tst[th] = "ready"

(* th goes to sleep, or the threads of woken are scheduled. *)
Sleeps(th)  == tst' = [tst EXCEPT ![th] = "waiting"]
Wakes(woken) == tst' = [th \in Thread |-> IF th \in woken THEN "ready" ELSE tst[th]]

(* proc_new_thread *)
Spawns(th, u) ==
    /\ Running(th) /\ u[1] = th[1] /\ tst[u] = "none"
    /\ tst' = [tst EXCEPT ![u] = "ready"] /\ UNCHANGED <<pst, main>>

(* ks_fork_proc: the child has a copy of the calling thread only. *)
Forks(th, c) ==
    /\ Running(th) /\ pst[c] = "free"
    /\ pst' = [pst EXCEPT ![c] = "live"]
    /\ tst' = [tst EXCEPT ![<<c, th[2]>>] = "ready"]
    /\ main' = [main EXCEPT ![c] = th[2]]

(* ks_exit_thread of a thread that is not the main one *)
EndsThread(th) ==
    /\ Running(th) /\ th[2] # main[th[1]]
    /\ tst' = [tst EXCEPT ![th] = "none"] /\ UNCHANGED <<pst, main>>

(* ks_exit_proc_p: every thread is detached, from its wait queue too. *)
Exits(th) ==
    /\ Running(th) /\ th[1] # First
    /\ pst' = [pst EXCEPT ![th[1]] = "zombie"]
    /\ tst' = [u \in Thread |-> IF u[1] = th[1] THEN "none" ELSE tst[u]]
    /\ UNCHANGED main

(* ks_reap_proc *)
Reaps(p) ==
    /\ pst[p] = "zombie" /\ pst' = [pst EXCEPT ![p] = "free"]
    /\ UNCHANGED <<tst, main>>

(* ks_exec past the point of no return: proc_exec deletes every thread but *)
(* the main one, which starts anew.                                        *)
AfterExec(th) == [u \in Thread |-> IF u[1] # th[1] THEN tst[u]
                                   ELSE IF u[2] = main[th[1]] THEN "ready" ELSE "none"]
Execs(th) == Running(th) /\ tst' = AfterExec(th) /\ UNCHANGED <<pst, main>>
=============================================================================
