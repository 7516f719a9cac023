------------------------------- MODULE Kernel -------------------------------
(***************************************************************************)
(* The kernel core of FernOS: processes, threads, the round-robin          *)
(* schedule, signals, joins, sleeps (k_startup/src/state.c, thread.c,      *)
(* process.c).  One CPU, and every handler is an interrupt gate, so a      *)
(* system call or a tick runs alone; what interleaves is the user code of  *)
(* the threads.  A handler is one step, but for the indirect recursion     *)
(*    ks_exit_proc_p -> ks_signal_p -> ks_exit_proc_p -> ...               *)
(* up the process tree: what the handler still has to call is kept in      *)
(* `calls`, innermost first, and nothing else moves until it is empty.     *)
(***************************************************************************)
EXTENDS Queues, FiniteSets

CONSTANTS
    Procs,      \* process ids
    Root,       \* the root process
    NULL,       \* no process
    Tids,       \* thread ids within a process
    Sigs,       \* signal ids below 32
    CHLD,       \* FSIG_CHLD
    BadSigs,    \* signal ids a caller may pass that are not below 32
    MaxSleep    \* bound: the longest sleep asked for, in ticks

ASSUME KernelConstants ==
    /\ Root \in Procs /\ NULL \notin Procs
    /\ Tids \subseteq Nat /\ 0 \in Tids
    /\ Sigs \subseteq Nat /\ CHLD \in Sigs /\ BadSigs \cap Sigs = {}
    /\ MaxSleep \in Nat

VARIABLES
    sys,        \* "up", "down" (ks_shutdown by the root's exit) or "panic"
                \* (ks_shutdown because a handler returned a kernel error)
    calls,      \* the kernel calls the running handler still has to make
    sched,      \* the schedule ring, from its head: the head runs
    tstate,     \* state of each thread, "none" when its id is free
    pstate,     \* state of each process, "free" when its id is free
    parent,
    kids,       \* living children, in list order
    zkids,      \* zombie children, in list order
    mainT,      \* tid of the main thread
    joinQ,      \* threads waiting in the process' join queue
    sigQ,       \* threads waiting in the process' signal queue
    sleepQ,     \* sleeping threads with the ticks they have left
    sigVec,     \* pending signals
    sigAllow    \* allowed signals

procVars  == <<pstate, parent, kids, zkids, mainT>>
sigVars   == <<sigVec, sigAllow>>
queueVars == <<joinQ, sigQ, sleepQ>>
vars == <<sys, calls, sched, tstate, procVars, queueVars, sigVars>>

Thread     == Procs \X Tids
Frame      == [op : {"exit", "bury", "reset"}, p : Procs, sid : {CHLD}]
              \cup [op : {"signal"}, p : Procs, sid : Sigs \cup BadSigs]
Waiter(S)  == [thr : Thread, mask : SUBSET S]
Sleeper    == [thr : Thread, left : 0 .. MaxSleep]

(* Every variable stays in its range. *)
TypeOK ==
    /\ sys \in {"up", "down", "panic"}
    /\ calls \in Seq(Frame)
    /\ sched \in Seq(Thread)
    /\ tstate \in [Thread -> {"none", "detached", "scheduled", "waiting", "exited"}]
    /\ pstate \in [Procs -> {"free", "live", "zombie"}]
    /\ parent \in [Procs -> Procs \cup {NULL}]
    /\ kids \in [Procs -> Seq(Procs)]
    /\ zkids \in [Procs -> Seq(Procs)]
    /\ mainT \in [Procs -> Tids]
    /\ joinQ \in [Procs -> Seq(Waiter(Tids))]
    /\ sigQ \in [Procs -> Seq(Waiter(Sigs))]
    /\ sleepQ \in Seq(Sleeper)
    /\ sigVec \in [Procs -> SUBSET Sigs]
    /\ sigAllow \in [Procs -> SUBSET Sigs]

(* One root process whose main thread, tid 0, is the whole schedule. *)
Init ==
    /\ sys = "up" /\ calls = << >>
    /\ sched = << <<Root, 0>> >>
    /\ tstate = [th \in Thread |-> IF th = <<Root, 0>> THEN "scheduled" ELSE "none"]
    /\ pstate = [p \in Procs |-> IF p = Root THEN "live" ELSE "free"]
    /\ parent = [p \in Procs |-> NULL]
    /\ kids = [p \in Procs |-> << >>] /\ zkids = kids
    /\ mainT = [p \in Procs |-> 0]
    /\ joinQ = [p \in Procs |-> << >>] /\ sigQ = joinQ
    /\ sleepQ = << >>
    /\ sigVec = [p \in Procs |-> {}] /\ sigAllow = sigVec

-----------------------------------------------------------------------------
(* Pieces of the handlers.                                                 *)

Idle == sys = "up" /\ calls = << >>

(* Thread t of process p is in user code and traps into the kernel. *)
Running(p, t) == Idle /\ sched # << >> /\ Head(sched) = <<p, t>>

(* Variant for a mutant: the main thread only. *)
ThreadsOf_MainOnly(p) == {<<p, mainT[p]>>}

ThreadsOf(p) == {p} \X Tids

Call(op, p) == [op |-> op, p |-> p, sid |-> CHLD]

(* A handler that returns a kernel error shuts the system down. *)
Panic == sys' = "panic" /\ UNCHANGED <<calls, sched, tstate, procVars, queueVars, sigVars>>

(* Variant for a mutant: only the front of the queue is looked at. *)
Waits_FrontOnly(q, id) == {i \in 1 .. Len(q) : i = 1 /\ id \in q[i].mask}

(* Where in a vector wait queue a thread waits for id; VWQ_NOTIFY_FIRST    *)
(* takes the least.                                                        *)
Waits(q, id) == {i \in 1 .. Len(q) : id \in q[i].mask}

(* Variant for a mutant: the sleep queue is forgotten. *)
DetachFromQueues_NotSleep(X) ==
    /\ joinQ' = [p \in Procs |-> Drop(joinQ[p], [thr : X, mask : SUBSET Tids])]
    /\ sigQ' = [p \in Procs |-> Drop(sigQ[p], [thr : X, mask : SUBSET Sigs])]
    /\ UNCHANGED sleepQ

(* thread_detach on every thread of X that waits. *)
DetachFromQueues(X) ==
    /\ joinQ' = [p \in Procs |-> Drop(joinQ[p], [thr : X, mask : SUBSET Tids])]
    /\ sigQ' = [p \in Procs |-> Drop(sigQ[p], [thr : X, mask : SUBSET Sigs])]
    /\ sleepQ' = Drop(sleepQ, [thr : X, left : 0 .. MaxSleep])

(* The running thread th leaves the schedule to wait in a queue. *)
Block(th) ==
    /\ sched' = Tail(sched)
    /\ tstate' = [tstate EXCEPT ![th] = "waiting"]

(* Variants for mutants: living children keep their dead parent; zombies   *)
(* are lost with their parent's list.                                      *)
Abandon_NoAdoption(p) ==
    /\ parent' = [c \in Procs |-> IF c \in Items(zkids[p]) THEN Root ELSE parent[c]]
    /\ zkids' = [zkids EXCEPT ![Root] = @ \o zkids[p], ![p] = << >>]
    /\ UNCHANGED <<kids, pstate, mainT>>

Abandon_ZombiesLost(p) ==
    /\ parent' = [c \in Procs |-> IF c \in Items(kids[p]) \cup Items(zkids[p])
                                  THEN Root ELSE parent[c]]
    /\ kids' = [kids EXCEPT ![Root] = @ \o kids[p], ![p] = << >>]
    /\ UNCHANGED <<zkids, pstate, mainT>>

(* ks_abandon_children for a process that is not the root: the root adopts *)
(* its living and zombie children, and is signalled if there are zombies.  *)
Abandon(p) ==
    /\ parent' = [c \in Procs |-> IF c \in Items(kids[p]) \cup Items(zkids[p])
                                  THEN Root ELSE parent[c]]
    /\ kids' = [kids EXCEPT ![Root] = @ \o kids[p], ![p] = << >>]
    /\ zkids' = [zkids EXCEPT ![Root] = @ \o zkids[p], ![p] = << >>]
    /\ UNCHANGED <<pstate, mainT>>

OrphanSignal(p) == IF zkids[p] = << >> THEN << >> ELSE << Call("signal", Root) >>

-----------------------------------------------------------------------------
(* The calls of a handler under way.                                       *)

(* ks_exit_proc_p, up to and with the abandoning of the children.  The     *)
(* root's exit shuts the system down.                                      *)
ExitProc ==
    /\ sys = "up" /\ calls # << >> /\ Head(calls).op = "exit"
    /\ LET p == Head(calls).p IN
       \/ /\ p = Root
          /\ sys' = "down"
          /\ UNCHANGED <<calls, sched, tstate, procVars, queueVars, sigVars>>
       \/ /\ p # Root
          /\ sched' = Drop(sched, ThreadsOf(p))
          /\ DetachFromQueues(ThreadsOf(p))
          /\ tstate' = [th \in Thread |->
                           IF th \in ThreadsOf(p) /\ tstate[th] \in {"scheduled", "waiting"}
                           THEN "detached" ELSE tstate[th]]
          /\ Abandon(p)
          /\ calls' = OrphanSignal(p) \o << Call("bury", p) >> \o Tail(calls)
          /\ UNCHANGED <<sys, sigVars>>

(* The rest of ks_exit_proc_p: from the parent's children to its zombies,  *)
(* then FSIG_CHLD.  A process that is no living child of its parent, as a  *)
(* zombie that is made to exit again, is a kernel error.                   *)
BuryProc ==
    /\ sys = "up" /\ calls # << >> /\ Head(calls).op = "bury"
    /\ LET p  == Head(calls).p
           pp == parent[p]
       IN \/ /\ p \notin Items(kids[pp])
             /\ Panic
          \/ /\ p \in Items(kids[pp])
             /\ kids' = [kids EXCEPT ![pp] = Drop(@, {p})]
             /\ zkids' = [zkids EXCEPT ![pp] = Append(@, p)]
             /\ pstate' = [pstate EXCEPT ![p] = "zombie"]
             /\ calls' = << Call("signal", pp) >> \o Tail(calls)
             /\ UNCHANGED <<sys, sched, tstate, parent, mainT, queueVars, sigVars>>

(* ks_signal_p *)
SignalProc ==
    /\ sys = "up" /\ calls # << >> /\ Head(calls).op = "signal"
    /\ LET q == Head(calls).p
           s == Head(calls).sid
           w == Waits(sigQ[q], s)
       IN \/ /\ s \notin Sigs
             /\ Panic
          \/ /\ s \in sigVec[q]
             /\ calls' = Tail(calls)
             /\ UNCHANGED <<sys, sched, tstate, procVars, queueVars, sigVars>>
          \/ /\ s \in Sigs \ sigVec[q]
             /\ s \notin sigAllow[q]
             /\ sigVec' = [sigVec EXCEPT ![q] = @ \cup {s}]
             /\ calls' = << Call("exit", q) >> \o Tail(calls)
             /\ UNCHANGED <<sys, sched, tstate, procVars, queueVars, sigAllow>>
          \/ /\ s \in Sigs \ sigVec[q]
             /\ s \in sigAllow[q] /\ w = {}
             /\ sigVec' = [sigVec EXCEPT ![q] = @ \cup {s}]
             /\ calls' = Tail(calls)
             /\ UNCHANGED <<sys, sched, tstate, procVars, queueVars, sigAllow>>
          \/ /\ s \in Sigs \ sigVec[q]
             /\ s \in sigAllow[q] /\ w # {}
             /\ LET i == Least(w) IN
                /\ sigQ' = [sigQ EXCEPT ![q] = PopAt(@, i)]
                /\ sched' = Append(sched, sigQ[q][i].thr)
                /\ tstate' = [tstate EXCEPT ![sigQ[q][i].thr] = "scheduled"]
             /\ calls' = Tail(calls)
             /\ UNCHANGED <<sys, procVars, joinQ, sleepQ, sigVars>>

(* proc_exec and the scheduling of the main thread that ends ks_exec. *)
ResetProc ==
    /\ sys = "up" /\ calls # << >> /\ Head(calls).op = "reset"
    /\ LET p == Head(calls).p
           m == <<p, mainT[p]>>
       IN /\ sched' = Append(Drop(sched, ThreadsOf(p)), m)
          /\ DetachFromQueues(ThreadsOf(p))
          /\ tstate' = [th \in Thread |-> IF th[1] # p THEN tstate[th]
                                          ELSE IF th = m THEN "scheduled" ELSE "none"]
          /\ sigVec' = [sigVec EXCEPT ![p] = {}]
          /\ sigAllow' = [sigAllow EXCEPT ![p] = {}]
    /\ calls' = Tail(calls)
    /\ UNCHANGED <<sys, procVars>>

InKernel == ExitProc \/ BuryProc \/ SignalProc \/ ResetProc

-----------------------------------------------------------------------------
(* The system calls of the running thread t of process p, and the timer.   *)
(* A call that only returns an error to its thread changes nothing here.   *)

(* ks_fork_proc: the child holds a copy of the calling thread only. *)
Fork(p, t, c) ==
    /\ Running(p, t) /\ pstate[c] = "free"
    /\ pstate' = [pstate EXCEPT ![c] = "live"]
    /\ parent' = [parent EXCEPT ![c] = p]
    /\ kids' = [kids EXCEPT ![p] = Append(@, c)]
    /\ mainT' = [mainT EXCEPT ![c] = t]
    /\ tstate' = [tstate EXCEPT ![<<c, t>>] = "scheduled"]
    /\ sched' = Append(sched, <<c, t>>)
    /\ UNCHANGED <<sys, calls, zkids, queueVars, sigVars>>

(* ks_exit_proc: also where a fault of the thread ends, and the exit of a  *)
(* main thread.                                                            *)
Exit(p, t) ==
    /\ Running(p, t)
    /\ calls' = << Call("exit", p) >>
    /\ UNCHANGED <<sys, sched, tstate, procVars, queueVars, sigVars>>

(* delete_process and the return of its id. *)
Reclaim(c) ==
    /\ pstate' = [pstate EXCEPT ![c] = "free"]
    /\ parent' = [parent EXCEPT ![c] = NULL]
    /\ mainT' = [mainT EXCEPT ![c] = 0]
    /\ tstate' = [th \in Thread |-> IF th[1] = c THEN "none" ELSE tstate[th]]
    /\ sched' = Drop(sched, ThreadsOf(c))
    /\ DetachFromQueues(ThreadsOf(c))
    /\ sigVec' = [sigVec EXCEPT ![c] = {}]
    /\ sigAllow' = [sigAllow EXCEPT ![c] = {}]
    /\ UNCHANGED <<sys, calls, kids>>

(* ks_reap_proc on any zombie child, and on a given one.  An exited child  *)
(* that is missing from the zombie list is a kernel error.                 *)
ReapAny(p, t) ==
    /\ Running(p, t) /\ zkids[p] # << >>
    /\ zkids' = [zkids EXCEPT ![p] = Tail(@)]
    /\ Reclaim(Head(zkids[p]))

ReapPid(p, t, c) ==
    /\ Running(p, t) /\ pstate[c] = "zombie" /\ parent[c] = p
    /\ \/ /\ c \notin Items(zkids[p])
          /\ Panic
       \/ /\ c \in Items(zkids[p])
          /\ zkids' = [zkids EXCEPT ![p] = Drop(@, {c})]
          /\ Reclaim(c)

(* ks_exec past its point of no return.  The root may not abandon children *)
(* and the error is not the user's any more.                               *)
Exec(p, t) ==
    /\ Running(p, t)
    /\ \/ /\ p = Root /\ (kids[p] # << >> \/ zkids[p] # << >>)
          /\ Panic
       \/ /\ p = Root /\ kids[p] = << >> /\ zkids[p] = << >>
          /\ calls' = << Call("reset", p) >>
          /\ UNCHANGED <<sys, sched, tstate, procVars, queueVars, sigVars>>
       \/ /\ p # Root
          /\ Abandon(p)
          /\ calls' = OrphanSignal(p) \o << Call("reset", p) >>
          /\ UNCHANGED <<sys, sched, tstate, queueVars, sigVars>>

(* ks_signal to any process in the table, a zombie or its own included; a  *)
(* signal to the parent is one to parent[p].                               *)
Signal(p, t, q, s) ==
    /\ Running(p, t) /\ pstate[q] # "free"
    /\ calls' = << [op |-> "signal", p |-> q, sid |-> s] >>
    /\ UNCHANGED <<sys, sched, tstate, procVars, queueVars, sigVars>>

(* Variant for a mutant: pending signals are not looked at. *)
AfterAllow_Nothing(p, sv) == << >>

(* ks_allow_signal: a pending signal that is no longer allowed kills. *)
AfterAllow(p, sv) == IF sigVec[p] \subseteq sv THEN << >> ELSE << Call("exit", p) >>

AllowSignal(p, t, sv) ==
    /\ Running(p, t)
    /\ sigAllow' = [sigAllow EXCEPT ![p] = sv]
    /\ calls' = AfterAllow(p, sv)
    /\ UNCHANGED <<sys, sched, tstate, procVars, queueVars, sigVec>>

(* ks_wait_signal: the lowest pending signal of sv, or wait for one. *)
WaitSignal(p, t, sv) ==
    /\ Running(p, t) /\ sv # {}
    /\ \/ /\ sv \cap sigVec[p] # {}
          /\ sigVec' = [sigVec EXCEPT ![p] = @ \ {Least(sv \cap sigVec[p])}]
          /\ UNCHANGED <<sched, tstate, sigQ>>
       \/ /\ sv \cap sigVec[p] = {}
          /\ sigQ' = [sigQ EXCEPT ![p] = Append(@, [thr |-> <<p, t>>, mask |-> sv])]
          /\ Block(<<p, t>>)
          /\ UNCHANGED sigVec
    /\ UNCHANGED <<sys, calls, procVars, joinQ, sleepQ, sigAllow>>

(* ks_signal_clear *)
ClearSignal(p, t, sv) ==
    /\ Running(p, t)
    /\ sigVec' = [sigVec EXCEPT ![p] = @ \ sv]
    /\ UNCHANGED <<sys, calls, sched, tstate, procVars, queueVars, sigAllow>>

(* ks_spawn_local_thread *)
Spawn(p, t, n) ==
    /\ Running(p, t) /\ tstate[<<p, n>>] = "none"
    /\ tstate' = [tstate EXCEPT ![<<p, n>>] = "scheduled"]
    /\ sched' = Append(sched, <<p, n>>)
    /\ UNCHANGED <<sys, calls, procVars, queueVars, sigVars>>

IsMain(p, t) == t = mainT[p]

(* ks_exit_thread of a thread that is not the main one: it is left exited  *)
(* for a later join, or reaped at once by the first that waits for it.     *)
ExitThread(p, t) ==
    /\ Running(p, t) /\ ~IsMain(p, t)
    /\ LET w == Waits(joinQ[p], t) IN
       \/ /\ w = {}
          /\ sched' = Tail(sched)
          /\ tstate' = [tstate EXCEPT ![<<p, t>>] = "exited"]
          /\ UNCHANGED joinQ
       \/ /\ w # {}
          /\ LET i == Least(w)
                 j == joinQ[p][i].thr
             IN /\ joinQ' = [joinQ EXCEPT ![p] = PopAt(@, i)]
                /\ sched' = Append(Tail(sched), j)
                /\ tstate' = [tstate EXCEPT ![j] = "scheduled", ![<<p, t>>] = "none"]
    /\ UNCHANGED <<sys, calls, procVars, sigQ, sleepQ, sigVars>>

(* ks_join_local_thread: reap the lowest exited thread of jv, or wait. *)
Join(p, t, jv) ==
    /\ Running(p, t) /\ jv # {} /\ jv # {t}
    /\ LET ready == {r \in jv : tstate[<<p, r>>] = "exited"} IN
       \/ /\ ready # {}
          /\ tstate' = [tstate EXCEPT ![<<p, Least(ready)>>] = "none"]
          /\ UNCHANGED <<sched, joinQ>>
       \/ /\ ready = {}
          /\ joinQ' = [joinQ EXCEPT ![p] = Append(@, [thr |-> <<p, t>>, mask |-> jv])]
          /\ Block(<<p, t>>)
    /\ UNCHANGED <<sys, calls, procVars, sigQ, sleepQ, sigVars>>

(* Variant for a mutant: always at the back. *)
SleepPlace_Back(n) == Len(sleepQ) + 1

(* ks_sleep_thread: behind every sleeper that wakes no later. *)
SleepPlace(n) ==
    LET later == {i \in 1 .. Len(sleepQ) : n < sleepQ[i].left}
    IN  IF later = {} THEN Len(sleepQ) + 1 ELSE Least(later)

Sleep(p, t, n) ==
    /\ Running(p, t)
    /\ sleepQ' = PushAt(sleepQ, SleepPlace(n), [thr |-> <<p, t>>, left |-> n])
    /\ Block(<<p, t>>)
    /\ UNCHANGED <<sys, calls, procVars, joinQ, sigQ, sigVars>>

(* How many sleepers twq_notify and twq_pop give back at the next tick:    *)
(* those up to the first that still has to sleep.                          *)
Due ==
    LET waking == {i \in 1 .. Len(sleepQ) : sleepQ[i].left > 1}
    IN  IF waking = {} THEN Len(sleepQ) ELSE Least(waking) - 1

(* Variant for a mutant: the schedule stands still. *)
Advance_Not(r) == r

Advance(r) == Append(Tail(r), Head(r))

(* Variant for a mutant: a halted CPU ignores the timer. *)
TimerFires_NotHalted == Idle /\ sched # << >>

(* The timer interrupt: of any thread, or of the halted CPU. *)
TimerFires == Idle

(* ks_tick: wake the sleepers that are due, then advance the schedule      *)
(* unless the CPU was halted.                                              *)
Tick ==
    /\ TimerFires
    /\ LET woken == [i \in 1 .. Due |-> sleepQ[i].thr]
           ready == sched \o woken
       IN /\ tstate' = [th \in Thread |-> IF th \in Items(woken) THEN "scheduled" ELSE tstate[th]]
          /\ sched' = IF sched = << >> THEN ready ELSE Advance(ready)
    /\ sleepQ' = [i \in 1 .. Len(sleepQ) - Due |->
                     [thr |-> sleepQ[Due + i].thr, left |-> sleepQ[Due + i].left - 1]]
    /\ UNCHANGED <<sys, calls, procVars, joinQ, sigQ, sigVars>>

(* lock_up(), which ends ks_shutdown, never returns. *)
LockedUp == sys # "up" /\ UNCHANGED vars

Syscall(p, t) ==
    \/ Exit(p, t) \/ ReapAny(p, t) \/ Exec(p, t)
    \/ ExitThread(p, t)
    \/ \E c \in Procs : Fork(p, t, c) \/ ReapPid(p, t, c)
    \/ \E q \in Procs, s \in Sigs \cup BadSigs : Signal(p, t, q, s)
    \/ \E sv \in SUBSET Sigs : AllowSignal(p, t, sv) \/ WaitSignal(p, t, sv) \/ ClearSignal(p, t, sv)
    \/ \E n \in Tids : Spawn(p, t, n)
    \/ \E jv \in SUBSET Tids : Join(p, t, jv)
    \/ \E n \in 0 .. MaxSleep : Sleep(p, t, n)

Next ==
    \/ InKernel
    \/ Tick
    \/ LockedUp
    \/ \E p \in Procs, t \in Tids : Syscall(p, t)

Spec == Init /\ [][Next]_vars

(* A running handler goes on to its end.  The timer interrupt is strongly  *)
(* fair: one that comes while a handler runs is latched and taken as soon  *)
(* as the handler returns.  Nothing is assumed of the threads' own code.   *)
FairSpec == Spec /\ WF_vars(InKernel) /\ SF_vars(Tick)

-----------------------------------------------------------------------------
(* Safety.                                                                 *)

Up == sys = "up"

(* A thread is where its state says, and there once: in the schedule, in   *)
(* the join or the signal queue of its own process, or among the sleepers. *)
(* The wake-ups overwrite the state of the thread they pop, and the remove *)
(* functions look in one queue only, so a thread in two places would be    *)
(* scheduled twice or left behind when it is freed.                        *)
WaitersOf(q)   == {q[i].thr : i \in 1 .. Len(q)}
NoThreadTwice(q) == \A i, j \in 1 .. Len(q) : q[i].thr = q[j].thr => i = j
InState(st)    == {th \in Thread : tstate[th] = st}

ScheduleMatches == NoDup(sched) /\ Items(sched) = InState("scheduled")

QueuesDisjoint ==
    /\ NoThreadTwice(sleepQ)
    /\ \A p \in Procs :
          /\ NoThreadTwice(joinQ[p]) /\ NoThreadTwice(sigQ[p])
          /\ WaitersOf(joinQ[p]) \cup WaitersOf(sigQ[p]) \subseteq ThreadsOf(p)
          /\ WaitersOf(joinQ[p]) \cap WaitersOf(sigQ[p]) = {}
          /\ WaitersOf(sleepQ) \cap (WaitersOf(joinQ[p]) \cup WaitersOf(sigQ[p])) = {}

WaitersMatch ==
    InState("waiting") = WaitersOf(sleepQ) \cup
        UNION {WaitersOf(joinQ[p]) \cup WaitersOf(sigQ[p]) : p \in Procs}

OnePlace == Up => ScheduleMatches /\ QueuesDisjoint /\ WaitersMatch

(* Only living processes have threads that run or may be woken: an exit    *)
(* leaves none behind, whichever of its threads were waiting where.  And a *)
(* living process keeps a main thread that runs or waits, so that it can   *)
(* always end, be signalled or exec.                                       *)
DeadAreQuiet ==
    /\ Up => \A th \in Thread :
                tstate[th] \in {"scheduled", "waiting"} => pstate[th[1]] = "live"
    /\ Idle => \A p \in Procs :
                  pstate[p] = "live" => tstate[<<p, mainT[p]>>] \in {"scheduled", "waiting"}

(* The children lists and the parent pointers tell one story, through      *)
(* every exit, adoption and reap: each living process but the root is on   *)
(* its parent's list of the living, each zombie on its parent's list of    *)
(* zombies, once; and a parent is itself alive.                            *)
RootLives == pstate[Root] = "live" /\ parent[Root] = NULL

ListsMatch ==
    \A p \in Procs :
        /\ NoDup(kids[p]) /\ NoDup(zkids[p])
        /\ Items(kids[p]) = {c \in Procs : pstate[c] = "live" /\ parent[c] = p}
        /\ Items(zkids[p]) = {c \in Procs : pstate[c] = "zombie" /\ parent[c] = p}

ParentsLive ==
    \A c \in Procs \ {Root} :
        IF pstate[c] = "free" THEN parent[c] = NULL
        ELSE parent[c] \in Procs /\ pstate[parent[c]] = "live"

FamilyOK == Up => RootLives /\ ListsMatch /\ ParentsLive

(* Following parent pointers ends at the root: the recursion of a forced   *)
(* exit up the tree cannot run in a circle.                                *)
Elders(p) ==
    LET most == Cardinality(Procs)
        up[n \in 0 .. most] ==
            IF n = 0 THEN {p} ELSE up[n - 1] \cup {parent[c] : c \in up[n - 1] \ {NULL}}
    IN  up[most]

RootIsElder == Up => \A p \in Procs : pstate[p] # "free" => Root \in Elders(p)

(* No signal is pending that its process does not allow, once the handler  *)
(* that sent it or that changed the mask has returned: it has exited.      *)
PendingAllowed ==
    Idle => \A p \in Procs : pstate[p] = "live" => sigVec[p] \subseteq sigAllow[p]

(* No missed wake-up: a thread never waits for a signal that is pending,   *)
(* though the signal may come before, between or after the calls of        *)
(* several waiting threads with overlapping masks.                         *)
NoMissedSignal ==
    Idle => \A p \in Procs : \A i \in 1 .. Len(sigQ[p]) :
               sigQ[p][i].mask \cap sigVec[p] = {}

(* No missed join: a thread never waits for a thread that has exited and   *)
(* is still to be reaped, whoever joined it first and however often its    *)
(* id was used again meanwhile.                                            *)
NoMissedJoin ==
    Up => \A p \in Procs : \A i \in 1 .. Len(joinQ[p]) : \A t \in joinQ[p][i].mask :
             tstate[<<p, t>>] # "exited"

(* The sleepers are kept in the order they are due, which twq_notify needs *)
(* to stop at the first that is not.                                       *)
SleepersInOrder ==
    Up => \A i, j \in 1 .. Len(sleepQ) : i < j => sleepQ[i].left <= sleepQ[j].left

(* The kernel errors that bring the system down are of three kinds only:   *)
(* a signal id out of range, a zombie made to exit again by a signal, and  *)
(* an exec of the root while it has children.  In particular no reap finds *)
(* a zombie missing from its parent's list.                                *)
KnownPanics ==
    sys = "panic" =>
    \/ calls = << >> /\ (kids[Root] # << >> \/ zkids[Root] # << >>)
          /\ sched # << >> /\ Head(sched)[1] = Root
    \/ calls # << >> /\ Head(calls).op = "signal" /\ Head(calls).sid \in BadSigs
    \/ calls # << >> /\ Head(calls).op = "bury" /\ pstate[Head(calls).p] = "zombie"

-----------------------------------------------------------------------------
(* Liveness, under FairSpec.                                               *)

(* Round robin: a scheduled thread gets the CPU, or stops being scheduled, *)
(* whatever the others do with their turns.                                *)
EveryThreadRuns ==
    \A th \in Thread :
        tstate[th] = "scheduled" ~> (tstate[th] # "scheduled" \/ Head(sched) = th \/ ~Up)

(* A sleeper is woken, unless its process ends first. *)
SleepersWake ==
    \A th \in Thread : th \in WaitersOf(sleepQ) ~> (th \notin WaitersOf(sleepQ) \/ ~Up)

-----------------------------------------------------------------------------
(* What a comment says of one error path.                                  *)

(* state.c: that an exiting process is not among its parent's living       *)
(* children would be "something very wrong".                               *)
ExitOnlyOnce == ~(sys = "panic" /\ calls # << >> /\ Head(calls).op = "bury")
=============================================================================
