----------------------------- MODULE FutexMaps -----------------------------
(***************************************************************************)
(* The futex plugin over all processes (k_startup/src/plugin_fut.c): each  *)
(* process has a map from the addresses of its futexes to wait queues,     *)
(* which its fork, exec and reaping make, empty and delete.  The words are *)
(* those of Futex; here a wait may find the value it expects or not.       *)
(***************************************************************************)
EXTENDS Processes, Queues

CONSTANTS
    Addrs       \* addresses of futexes, the same in every process

VARIABLES
    hasMap,     \* processes with a map in fut_maps
    futs,       \* <<p, a>>: the map of p has a queue for a
    waitQ,      \* these queues, front first
    lost,       \* <<p, a>>: p has given the memory at a back to the kernel
    fatal       \* why the kernel shut down, or "none"

futMapVars == <<hasMap, futs, waitQ, lost, fatal>>
vars == <<processVars, futMapVars>>

Init ==
    /\ ProcessInit
    /\ hasMap = {First} /\ futs = {} /\ lost = {} /\ fatal = "none"
    /\ waitQ = [f \in Procs \X Addrs |-> << >>]

Enter(th) == fatal = "none" /\ Running(th)
Quiet == UNCHANGED <<pst, main, hasMap, lost, fatal>>

(* PLG_FUT_PCID_REGISTER; it fails when it cannot read the word. *)
Register(th, a) ==
    /\ Enter(th) /\ <<th[1], a>> \notin futs \cup lost
    /\ futs' = futs \cup {<<th[1], a>>}
    /\ Quiet /\ UNCHANGED <<tst, waitQ>>

(* PLG_FUT_PCID_DEREGISTER: the waiters return with a mismatch. *)
Deregister(th, a) ==
    LET f == <<th[1], a>> IN
    /\ Enter(th) /\ f \in futs
    /\ futs' = futs \ {f} /\ Wakes(Items(waitQ[f]))
    /\ waitQ' = [waitQ EXCEPT ![f] = << >>]
    /\ Quiet

(* PLG_FUT_PCID_WAIT: an address that cannot be read any more is not an    *)
(* error of the caller but of the system.                                  *)
Wait(th, a) ==
    LET f == <<th[1], a>> IN
    /\ Enter(th) /\ f \in futs
    /\ IF f \in lost
       THEN fatal' = "futex unreadable" /\ UNCHANGED <<tst, waitQ>>
       ELSE /\ waitQ' = [waitQ EXCEPT ![f] = Append(@, th)]
            /\ Sleeps(th) /\ UNCHANGED fatal
    /\ UNCHANGED <<pst, main, hasMap, futs, lost>>

(* PLG_FUT_PCID_WAKE of one or all *)
Wake(th, a, n) ==
    LET f == <<th[1], a>> IN
    /\ Enter(th) /\ f \in futs /\ n \in {1, Len(waitQ[f])} /\ n <= Len(waitQ[f])
    /\ Wakes(Items(SubSeq(waitQ[f], 1, n)))
    /\ waitQ' = [waitQ EXCEPT ![f] = SubSeq(@, n + 1, Len(@))]
    /\ Quiet /\ UNCHANGED futs

(* ks_return_mem of the page the word is in *)
LoseMemory(th, a) ==
    /\ Enter(th) /\ lost' = lost \cup {<<th[1], a>>}
    /\ UNCHANGED <<processVars, hasMap, futs, waitQ, fatal>>

-----------------------------------------------------------------------------
Spawn(th, u) == fatal = "none" /\ Spawns(th, u) /\ UNCHANGED futMapVars
EndThread(th) == fatal = "none" /\ EndsThread(th) /\ UNCHANGED futMapVars

(* plg_fut_on_fork_proc: the child starts with an empty map; one that is   *)
(* there already, or no memory for it, is fatal.                           *)
Fork(th, c) ==
    /\ fatal = "none" /\ Forks(th, c)
    /\ \/ /\ c \in hasMap /\ fatal' = "map in place" /\ UNCHANGED hasMap
       \/ /\ c \notin hasMap /\ hasMap' = hasMap \cup {c} /\ UNCHANGED fatal
       \/ fatal' = "no memory" /\ UNCHANGED hasMap
    /\ lost' = lost \cup {<<c, f[2]>> : f \in {g \in lost : g[1] = th[1]}}
    /\ UNCHANGED <<futs, waitQ>>

(* Detached threads leave the queue their pointer names. *)
Detached(ths) == [f \in Procs \X Addrs |-> Drop(waitQ[f], ths)]

Exit(th) ==
    /\ fatal = "none" /\ Exits(th)
    /\ waitQ' = Detached(ThreadsOf(th[1]))
    /\ UNCHANGED <<hasMap, futs, lost, fatal>>

FutsOf(p) == {p} \X Addrs

(* Variant for a mutant: the queues are deleted with threads in them. *)
Emptied_Not(p) == UNCHANGED waitQ

(* wq_notify_all and the pops before a queue is deleted *)
Emptied(p) ==
    waitQ' = [f \in Procs \X Addrs |-> IF f[1] = p THEN << >> ELSE waitQ[f]]

(* plg_fut_on_reset_proc empties each queue, so that no thread that        *)
(* proc_exec detaches next has one; then the queues are deleted.           *)
Exec(th) ==
    /\ fatal = "none" /\ Execs(th)
    /\ IF th[1] \in hasMap
       THEN /\ Emptied(th[1]) /\ futs' = futs \ FutsOf(th[1])
            /\ lost' = lost \ FutsOf(th[1]) /\ UNCHANGED fatal
       ELSE fatal' = "no map" /\ UNCHANGED <<futs, waitQ, lost>>
    /\ UNCHANGED hasMap

DropMap(p) == hasMap' = hasMap \ {p}

(* plg_fut_on_reap_proc deletes the queues without looking into them. *)
Reap(p) ==
    /\ fatal = "none" /\ Reaps(p)
    /\ DropMap(p) /\ futs' = futs \ FutsOf(p) /\ lost' = lost \ FutsOf(p)
    /\ fatal' = IF p \in hasMap THEN fatal ELSE "no map"
    /\ UNCHANGED waitQ

Next ==
    \/ \E th \in Thread :
        \/ \E a \in Addrs : \/ Register(th, a) \/ Deregister(th, a) \/ Wait(th, a)
                            \/ \E n \in 1 .. Cardinality(Tids) : Wake(th, a, n)
                            \/ LoseMemory(th, a)
        \/ \E u \in Thread : Spawn(th, u)
        \/ \E c \in Procs : Fork(th, c)
        \/ EndThread(th) \/ Exit(th) \/ Exec(th)
    \/ \E p \in Procs : Reap(p)

Spec == Init /\ [][Next]_vars

-----------------------------------------------------------------------------
(* Until the system stops, every process that is not reaped has its map,   *)
(* and a free pid has none and no queue: no fork finds a map in place, no  *)
(* exec or reaping misses one.                                             *)
MapsFollowProcesses ==
    /\ fatal \notin {"map in place", "no map"}
    /\ fatal = "none" => hasMap = {p \in Procs : pst[p] # "free"}
    /\ \A f \in futs : f[1] \in hasMap

(* A queue that is deleted has no waiter left, whoever deletes it, and a   *)
(* thread that waits is in the one queue of a futex of its own process.    *)
FutexWaitersAreRight ==
    /\ \A f \in Procs \X Addrs : \A th \in Items(waitQ[f]) :
            f \in futs /\ th[1] = f[1] /\ tst[th] = "waiting"
    /\ \A f, g \in Procs \X Addrs : f # g => Items(waitQ[f]) \cap Items(waitQ[g]) = {}
    /\ \A th \in Thread : tst[th] = "waiting" => \E f \in futs : th \in Items(waitQ[f])
=============================================================================
