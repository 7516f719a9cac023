----------------------------- MODULE PipeUsers -----------------------------
(***************************************************************************)
(* One pipe and everybody who uses it: processes that inherit its handles  *)
(* through fork, close them, exec, exit and are reaped, with threads in    *)
(* the loops of sc_handle_write_full and sc_handle_read_full.  A system    *)
(* call is one step; between two of them any other thread may run.  The    *)
(* handler that deletes several handles has them in `doomed`, and nothing  *)
(* else moves until it is empty.                                           *)
(***************************************************************************)
EXTENDS Pipe, FiniteSets

CONSTANTS
    Procs, Tids,
    First,      \* the process that opens the pipe, with its thread 0
    Laps,       \* a byte is known by its number modulo Laps
    MaxLen      \* bound: the longest write or read a user asks for

ASSUME UsersConstants ==
    /\ First \in Procs /\ Tids \subseteq Nat /\ 0 \in Tids
    /\ Laps \in Nat /\ Laps > SigCap /\ MaxLen \in Nat \ {0}

VARIABLES
    pst,        \* "free", "live" or "zombie"
    holds,      \* the ends of the pipe a process has a handle of
    doomed,     \* handles the running handler still has to delete
    pc,         \* where a thread is in its user loop
    left,       \* the bytes its call has still to move
    ended,      \* <<thread, end>>: its last call said there would be no
                \* more to read, or nothing more be accepted
    next,       \* the number of the next byte that goes in
    dest        \* what the last read gave to its caller

userVars == <<pst, holds, doomed, pc, left, ended, next, dest>>
procVars == <<pst, holds, doomed>>
vars == <<pipeVars, userVars>>

Ends    == {"write", "read"}
Thread  == Procs \X Tids
InWrite == {"write", "wwait", "wblock"}
InRead  == {"read", "rwait", "rblock"}

(* PLG_PIPE_PCID_OPEN has just returned to its only user. *)
Init ==
    /\ i = 0 /\ j = 0 /\ buf = [k \in 0 .. SigCap |-> 0]
    /\ write_refs = 1 /\ read_refs = 1 /\ w_wq = {} /\ r_wq = {}
    /\ pst = [p \in Procs |-> IF p = First THEN "live" ELSE "free"]
    /\ holds = [p \in Procs |-> IF p = First THEN Ends ELSE {}]
    /\ doomed = {}
    /\ pc = [th \in Thread |-> IF th = <<First, 0>> THEN "idle" ELSE "none"]
    /\ left = [th \in Thread |-> 0]
    /\ ended = {} /\ next = 0 /\ dest = << >>

-----------------------------------------------------------------------------
(* Thread th makes a system call; its process has a handle of end e.       *)

At(th, place) == doomed = {} /\ pc[th] = place

Has(th, e) == e \in holds[th[1]]

Goto(th, place) == pc' = [pc EXCEPT ![th] = place]

(* The thread goes on, and woken threads return from their wait with       *)
(* FOS_E_SUCCESS, to try again.                                            *)
GotoAndWake(th, place, woken) ==
    pc' = [u \in Thread |-> IF u = th THEN place
                            ELSE IF u \notin woken THEN pc[u]
                            ELSE IF pc[u] = "wblock" THEN "write" ELSE "read"]

(* The wrapper returns, with an error or with all it was asked for.        *)
Return(th) ==
    /\ Goto(th, "idle") /\ left' = [left EXCEPT ![th] = 0]
    /\ UNCHANGED <<pipeVars, procVars, ended, next, dest>>

(* sc_handle_write_full, sc_handle_read_full *)
CallWrite(th, n) ==
    /\ At(th, "idle") /\ Goto(th, "write")
    /\ left' = [left EXCEPT ![th] = n] /\ ended' = ended \ ({th} \X Ends)
    /\ UNCHANGED <<pipeVars, procVars, next, dest>>

CallRead(th, n) ==
    /\ At(th, "idle") /\ Goto(th, "read")
    /\ left' = [left EXCEPT ![th] = n] /\ ended' = ended \ ({th} \X Ends)
    /\ UNCHANGED <<pipeVars, procVars, next, dest>>

(* A system call through a handle that is not open fails. *)
NoHandle(th) ==
    /\ \/ \E place \in {"write", "wwait"} : At(th, place) /\ ~Has(th, "write")
       \/ \E place \in {"read", "rwait"} : At(th, place) /\ ~Has(th, "read")
    /\ Return(th)

Numbered(n) == [k \in 1 .. n |-> (next + k - 1) % Laps]

(* After c bytes of the n that a call tried to move: go on, or return; c   *)
(* is short of n when the user's memory cannot be copied, and a full copy  *)
(* is an error as well when its count cannot be.                           *)
Moved(th, c, n, woken, again) ==
    \/ /\ c = n /\ left[th] > c
       /\ GotoAndWake(th, again, woken) /\ left' = [left EXCEPT ![th] = @ - c]
    \/ /\ GotoAndWake(th, "idle", woken) /\ left' = [left EXCEPT ![th] = 0]

(* hs_write *)
WriteSome(th) ==
    /\ At(th, "write") /\ Has(th, "write")
    /\ \/ /\ read_refs = 0 \/ IsFull
          /\ Goto(th, "wwait")
          /\ UNCHANGED <<pipeVars, left, next>>
       \/ /\ read_refs > 0 /\ ~IsFull
          /\ LET n == Writing(left[th]) IN
             \E c \in 0 .. n :
                /\ WriteBytes(Numbered(n), c)
                /\ r_wq' = r_wq \ WokenByWrite(c, n) /\ UNCHANGED w_wq
                /\ next' = (next + c) % Laps
                /\ Moved(th, c, n, WokenByWrite(c, n), "write")
    /\ UNCHANGED <<procVars, ended, dest>>

(* hs_read *)
ReadSome(th) ==
    /\ At(th, "read") /\ Has(th, "read")
    /\ \/ /\ IsEmpty
          /\ Goto(th, "rwait")
          /\ UNCHANGED <<pipeVars, left, dest>>
       \/ /\ ~IsEmpty
          /\ LET n == Reading(left[th]) IN
             \E c \in 0 .. n :
                /\ ReadBytes(c, dest')
                /\ w_wq' = w_wq \ WokenByRead(c) /\ UNCHANGED r_wq
                /\ Moved(th, c, n, WokenByRead(c), "read")
    /\ UNCHANGED <<procVars, ended, next>>

(* hs_wait_write_ready: no reader is left, or wait, or fail to for want of *)
(* memory, or try again.                                                   *)
WaitWrite(th) ==
    /\ At(th, "wwait") /\ Has(th, "write")
    /\ \/ /\ read_refs = 0
          /\ Goto(th, "idle") /\ left' = [left EXCEPT ![th] = 0]
          /\ ended' = ended \cup {<<th, "write">>}
          /\ UNCHANGED pipeVars
       \/ /\ read_refs > 0 /\ IsFull
          /\ Goto(th, "wblock") /\ w_wq' = w_wq \cup {th}
          /\ UNCHANGED <<i, j, buf, write_refs, read_refs, r_wq, left, ended>>
       \/ /\ read_refs > 0 /\ IsFull
          /\ Goto(th, "idle") /\ left' = [left EXCEPT ![th] = 0]
          /\ UNCHANGED <<pipeVars, ended>>
       \/ /\ read_refs > 0 /\ ~IsFull
          /\ Goto(th, "write")
          /\ UNCHANGED <<pipeVars, left, ended>>
    /\ UNCHANGED <<procVars, next, dest>>

(* hs_wait_read_ready.  Variant for a mutant: the writers are looked at     *)
(* before the data.                                                        *)
WaitRead_EndFirst(th) ==
    /\ At(th, "rwait") /\ Has(th, "read")
    /\ \/ /\ write_refs = 0
          /\ Goto(th, "idle") /\ left' = [left EXCEPT ![th] = 0]
          /\ ended' = ended \cup {<<th, "read">>}
          /\ UNCHANGED pipeVars
       \/ /\ IsEmpty /\ write_refs > 0
          /\ Goto(th, "rblock") /\ r_wq' = r_wq \cup {th}
          /\ UNCHANGED <<i, j, buf, write_refs, read_refs, w_wq, left, ended>>
       \/ /\ ~IsEmpty /\ write_refs > 0
          /\ Goto(th, "read")
          /\ UNCHANGED <<pipeVars, left, ended>>
    /\ UNCHANGED <<procVars, next, dest>>

WaitRead(th) ==
    /\ At(th, "rwait") /\ Has(th, "read")
    /\ \/ /\ IsEmpty /\ write_refs = 0
          /\ Goto(th, "idle") /\ left' = [left EXCEPT ![th] = 0]
          /\ ended' = ended \cup {<<th, "read">>}
          /\ UNCHANGED pipeVars
       \/ /\ IsEmpty /\ write_refs > 0
          /\ Goto(th, "rblock") /\ r_wq' = r_wq \cup {th}
          /\ UNCHANGED <<i, j, buf, write_refs, read_refs, w_wq, left, ended>>
       \/ /\ IsEmpty /\ write_refs > 0
          /\ Goto(th, "idle") /\ left' = [left EXCEPT ![th] = 0]
          /\ UNCHANGED <<pipeVars, ended>>
       \/ /\ ~IsEmpty
          /\ Goto(th, "read")
          /\ UNCHANGED <<pipeVars, left, ended>>
    /\ UNCHANGED <<procVars, next, dest>>

-----------------------------------------------------------------------------
(* What becomes of the handles.                                            *)

(* hs_close *)
Close(th, e) ==
    /\ At(th, "idle") /\ Has(th, e)
    /\ doomed' = {<<th[1], e>>}
    /\ UNCHANGED <<pipeVars, pst, holds, pc, left, ended, next, dest>>

(* One handle is deleted.  Threads that wait for the other end are told    *)
(* that there will be no more, those that wait for this one of a mismatch. *)
DeleteOne(p, e) ==
    /\ <<p, e>> \in doomed /\ doomed' = doomed \ {<<p, e>>}
    /\ holds' = [holds EXCEPT ![p] = @ \ {e}]
    /\ DeleteHandle(e)
    /\ LET woken == (w_wq \ w_wq') \cup (r_wq \ r_wq')
           over  == IF e = "write" THEN (r_wq \ r_wq') \X {"read"}
                                  ELSE (w_wq \ w_wq') \X {"write"}
       IN  /\ pc' = [th \in Thread |-> IF th \in woken THEN "idle" ELSE pc[th]]
           /\ left' = [th \in Thread |-> IF th \in woken THEN 0 ELSE left[th]]
           /\ ended' = ended \cup over
    /\ UNCHANGED <<pst, next, dest>>

(* new_process_fork: the child has the calling thread and all the handles. *)
Fork(p, t, c) ==
    /\ At(<<p, t>>, "idle") /\ pst[c] = "free"
    /\ pst' = [pst EXCEPT ![c] = "live"]
    /\ holds' = [holds EXCEPT ![c] = holds[p]]
    /\ CopyHandles(holds[p])
    /\ Goto(<<c, t>>, "idle")
    /\ UNCHANGED <<doomed, left, ended, next, dest>>

Spawn(p, t, u) ==
    /\ At(<<p, t>>, "idle") /\ pc[<<p, u>>] = "none"
    /\ Goto(<<p, u>>, "idle")
    /\ UNCHANGED <<pipeVars, procVars, left, ended, next, dest>>

(* The threads of X are gone, wherever they waited. *)
Vanish(X) ==
    /\ w_wq' = w_wq \ X /\ r_wq' = r_wq \ X
    /\ left' = [th \in Thread |-> IF th \in X THEN 0 ELSE left[th]]
    /\ ended' = ended \ (X \X Ends)
    /\ UNCHANGED <<i, j, buf, write_refs, read_refs>>

(* ks_exit_proc_p, by a thread's own call or by a signal: the handles stay *)
(* with the zombie.                                                        *)
Exit(p) ==
    /\ doomed = {} /\ pst[p] = "live"
    /\ pst' = [pst EXCEPT ![p] = "zombie"]
    /\ Vanish({p} \X Tids)
    /\ pc' = [th \in Thread |-> IF th[1] = p THEN "none" ELSE pc[th]]
    /\ UNCHANGED <<holds, doomed, next, dest>>

(* ks_reap_proc and delete_process *)
Reap(p) ==
    /\ doomed = {} /\ pst[p] = "zombie"
    /\ pst' = [pst EXCEPT ![p] = "free"]
    /\ doomed' = {p} \X holds[p]
    /\ UNCHANGED <<pipeVars, holds, pc, left, ended, next, dest>>

(* proc_exec: only the main thread m is left, as new, and of the handles   *)
(* those that are default handles.                                         *)
Exec(p, t, m, defaults) ==
    /\ At(<<p, t>>, "idle") /\ pc[<<p, m>>] # "none" /\ defaults \subseteq holds[p]
    /\ doomed' = {p} \X (holds[p] \ defaults)
    /\ Vanish({p} \X Tids)
    /\ pc' = [th \in Thread |-> IF th[1] # p THEN pc[th]
                                ELSE IF th = <<p, m>> THEN "idle" ELSE "none"]
    /\ UNCHANGED <<pst, holds, next, dest>>

UserStep(th) ==
    \/ NoHandle(th) \/ WriteSome(th) \/ ReadSome(th) \/ WaitWrite(th) \/ WaitRead(th)

Next ==
    \/ \E th \in Thread : UserStep(th)
    \/ \E th \in Thread, n \in 1 .. MaxLen : CallWrite(th, n) \/ CallRead(th, n)
    \/ \E th \in Thread, e \in Ends : Close(th, e)
    \/ \E p \in Procs, e \in Ends : DeleteOne(p, e)
    \/ \E p, c \in Procs, t \in Tids : Fork(p, t, c)
    \/ \E p \in Procs, t, u \in Tids : Spawn(p, t, u)
    \/ \E p \in Procs : Exit(p) \/ Reap(p)
    \/ \E p \in Procs, t, m \in Tids, d \in SUBSET Ends : Exec(p, t, m, d)

Spec == Init /\ [][Next]_vars

(* A handler runs to its end, and round robin gives every thread that is   *)
(* not blocked the CPU again and again between handlers (EveryThreadRuns   *)
(* of Kernel): strong fairness, as handlers of others disable its step.    *)
(* Nothing says that a user calls, closes, exits or reaps.                 *)
FairSpec ==
    /\ Spec
    /\ \A th \in Thread : SF_vars(UserStep(th))
    /\ \A p \in Procs, e \in Ends : WF_vars(DeleteOne(p, e))

-----------------------------------------------------------------------------
Some(places) == \E th \in Thread : pc[th] \in places

(* The counts are the handles there are, of zombies too, so that the pipe  *)
(* is not deleted under a handle, nor kept with none.                      *)
Holders(e) == {p \in Procs : e \in holds[p]}

RefsOK == write_refs = Cardinality(Holders("write")) /\ read_refs = Cardinality(Holders("read"))

(* No lost wake-up: whoever waits is in its queue and has a reason to, a   *)
(* full pipe or an empty one, with somebody left at both ends by a right   *)
(* count, also after the handles of its own process were closed.  Hence    *)
(* what plugin_pipe.c notes, that only one queue has waiters, and that a   *)
(* deleted pipe has none.                                                  *)
WaitersHaveCause ==
    /\ RefsOK
    /\ w_wq = {th \in Thread : pc[th] = "wblock"}
    /\ r_wq = {th \in Thread : pc[th] = "rblock"}
    /\ w_wq # {} => IsFull
    /\ r_wq # {} => IsEmpty
    /\ w_wq \cup r_wq # {} => write_refs > 0 /\ read_refs > 0

(* handle.h: a wait that says FOS_E_EMPTY means that there will NEVER be   *)
(* anymore data, or that none will ever be accepted.  While its thread     *)
(* remembers it, nothing comes back: no writer appears and no data.        *)
EndIsFinal ==
    /\ \A th \in Thread : <<th, "read">> \in ended => write_refs = 0 /\ IsEmpty
    /\ \A th \in Thread : <<th, "write">> \in ended => read_refs = 0

(* Writers and readers cannot all block each other: while some thread is   *)
(* in sc_handle_write_full and some thread in sc_handle_read_full, it does *)
(* not stay so for ever without a thread that returns from its call.       *)
(* (A single call may starve, when others always get there first.)         *)
CallsReturn ==
    Some(InWrite) /\ Some(InRead) ~> Some({"idle"}) \/ ~Some(InWrite) \/ ~Some(InRead)

(* Once the last handle of the other end is gone, a call returns: a read   *)
(* after what was left in the pipe.                                        *)
EndIsSeen ==
    \A th \in Thread :
        /\ write_refs = 0 /\ pc[th] \in InRead ~> pc[th] \notin InRead
        /\ read_refs = 0 /\ pc[th] \in InWrite ~> pc[th] \notin InWrite

(* Refinement: the pipe implements Channel.                                *)
Abstract == INSTANCE Channel WITH
    Room <- SigCap, chan <- Content, wopen <- write_refs > 0, ropen <- read_refs > 0

ImplementsChannel == Abstract!Spec
=============================================================================
