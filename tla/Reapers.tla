------------------------------ MODULE Reapers ------------------------------
(***************************************************************************)
(* The loop of sc_proc_reap_single (u_startup/src/syscall.c) over the      *)
(* kernel's calls: reap; if there is no zombie yet, wait for FSIG_CHLD and *)
(* reap again; in the end clear the signal.  Each call is a step of Kernel,*)
(* and between two of them anything may run.                               *)
(***************************************************************************)
EXTENDS Kernel

VARIABLE at     \* where each thread is: its next call in the loop, and the
                \* child it wants (NULL: any, FC_CORE_MAX_PROCS)

allVars == <<vars, at>>

User == [next |-> "user", child |-> NULL]
Goto(p, t, next, c) == at' = [at EXCEPT ![<<p, t>>] = [next |-> next, child |-> c]]

ReapersInit == Init /\ at = [th \in Thread |-> User]

(* The first call, or the next after a wait. *)
Calls(p, t, c) == at[<<p, t>>] \in {User, [next |-> "reap", child |-> c]}

(* The zombies a reaper for c would reap, as ks_reap_proc looks for them.  *)
Wanted(p, c) == {z \in Procs : pstate[z] = "zombie" /\ parent[z] = p /\ c \in {NULL, z}}

Reaped(p, t, c) ==
    /\ Calls(p, t, c)
    /\ IF c = NULL THEN ReapAny(p, t) ELSE ReapPid(p, t, c)
    /\ Goto(p, t, "clear", NULL)

(* FOS_E_EMPTY *)
NotYet(p, t, c) ==
    /\ Calls(p, t, c) /\ Running(p, t) /\ Wanted(p, c) = {}
    /\ c \in {NULL} \cup Items(kids[p])
    /\ Goto(p, t, "wait", c) /\ UNCHANGED vars

(* FOS_E_STATE_MISMATCH: c is no child of p, or is none any more. *)
NoChild(p, t, c) ==
    /\ Calls(p, t, c) /\ Running(p, t) /\ c # NULL /\ parent[c] # p
    /\ Goto(p, t, "user", NULL) /\ UNCHANGED vars

(* Variant for a mutant: the signal is cleared before the wait, too. *)
WaitChild_ClearsFirst(p, t) ==
    /\ at[<<p, t>>].next = "wait" /\ Running(p, t)
    /\ sigVec' = [sigVec EXCEPT ![p] = @ \ {CHLD}]
    /\ sigQ' = [sigQ EXCEPT ![p] = Append(@, [thr |-> <<p, t>>, mask |-> {CHLD}])]
    /\ Block(<<p, t>>)
    /\ UNCHANGED <<sys, calls, procVars, joinQ, sleepQ, sigAllow>>
    /\ Goto(p, t, "reap", at[<<p, t>>].child)

WaitChild(p, t) ==
    /\ at[<<p, t>>].next = "wait" /\ WaitSignal(p, t, {CHLD})
    /\ Goto(p, t, "reap", at[<<p, t>>].child)

(* It returns once the signal is cleared. *)
Clear(p, t) ==
    /\ at[<<p, t>>].next = "clear" /\ ClearSignal(p, t, {CHLD})
    /\ Goto(p, t, "user", NULL)

(* Threads in other code call what they like, but leave FSIG_CHLD to the   *)
(* loop.  Who has ended, or begins anew after an exec, is in no loop.      *)
OtherCall(p, t) ==
    /\ at[<<p, t>>] = User
    /\ \/ Exit(p, t) \/ Exec(p, t) \/ ExitThread(p, t)
       \/ \E c \in Procs : Fork(p, t, c)
       \/ \E q \in Procs, s \in Sigs : Signal(p, t, q, s)
       \/ \E sv \in SUBSET Sigs : AllowSignal(p, t, sv)
       \/ \E n \in Tids : Spawn(p, t, n)
       \/ \E jv \in SUBSET Tids : Join(p, t, jv)

Begins(th) == calls # << >> /\ Head(calls).op = "reset" /\ Head(calls).p = th[1]

Others ==
    /\ InKernel \/ Tick \/ LockedUp \/ \E p \in Procs, t \in Tids : OtherCall(p, t)
    /\ at' = [th \in Thread |->
                IF tstate'[th] \in {"scheduled", "waiting"} /\ ~Begins(th) THEN at[th] ELSE User]

ReapersNext ==
    \/ Others
    \/ \E p \in Procs, t \in Tids :
          \/ \E c \in Procs \cup {NULL} : Reaped(p, t, c) \/ NotYet(p, t, c) \/ NoChild(p, t, c)
          \/ WaitChild(p, t) \/ Clear(p, t)

ReapersSpec == ReapersInit /\ [][ReapersNext]_allVars

-----------------------------------------------------------------------------
(* A thread that may be about to find z. *)
OnItsWay(u, z) ==
    tstate[u] = "scheduled" /\ at[u].next \in {"reap", "wait"} /\ at[u].child \in {NULL, z}

(* Nobody sleeps in the loop while a child it waits for is a zombie, but   *)
(* for one that another thread is about to reap: the signal that a child's *)
(* exit sends reaches the loop before, in or after its wait (syscall.h:99  *)
(* "This blocks until a single process is reaped").  That is so while one  *)
(* thread of a process reaps: of two, one may be woken for the other's     *)
(* child, or clear the other's signal.                                     *)
ReapersHear ==
    Idle => \A p \in Procs : \A th \in WaitersOf(sigQ[p]) : \A z \in Wanted(p, at[th].child) :
               \E u \in ThreadsOf(p) : OnItsWay(u, z)
=============================================================================
