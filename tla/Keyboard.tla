------------------------------ MODULE Keyboard ------------------------------
(***************************************************************************)
(* The keyboard plugin (k_startup/src/plugin_kb.c): one cyclic buffer that *)
(* the interrupt writes and never asks who has read, handles that are      *)
(* positions in it, and one wait queue for the threads that have caught    *)
(* up.  A waiting thread keeps a pointer to the handle it waits with.      *)
(***************************************************************************)
EXTENDS Processes, Queues

CONSTANTS
    Hids,       \* handle ids of a process
    Size,       \* PLG_KB_BUFFER_SIZE, in bytes
    Laps        \* a byte is known by its number modulo Laps

VARIABLES
    pos,        \* the position of each handle, or Closed
    sc_buf, sc_buf_pos,
    typed,      \* how many bytes were typed, modulo Laps
    waitQ,      \* the wait queue, and the part of it that is notified
    readyQ,
    waitsOn,    \* wait_ctx[0]: the handle a thread waits with
    stale,      \* threads whose handle was closed since
    misused,    \* history: a handle was closed under a waiting thread
    dest        \* the bytes the last step gave to a reader

kbVars == <<pos, sc_buf, sc_buf_pos, typed, waitQ, readyQ, waitsOn, stale, misused, dest>>
vars == <<processVars, kbVars>>

Closed == Size
Handle == Procs \X Hids

Init ==
    /\ ProcessInit
    /\ pos = [h \in Handle |-> Closed]
    /\ sc_buf = [k \in 0 .. Size - 1 |-> 0] /\ sc_buf_pos = 0 /\ typed = 0
    /\ waitQ = << >> /\ readyQ = << >>
    /\ waitsOn = [th \in Thread |-> <<th[1], CHOOSE i \in Hids : TRUE>>]
    /\ stale = {} /\ misused = FALSE /\ dest = << >>

NotWaits  == UNCHANGED <<waitQ, readyQ, waitsOn, stale, misused>>
NotBuffer == UNCHANGED <<sc_buf, sc_buf_pos, typed>>
UsesHandle(th, h) == Running(th) /\ h[1] = th[1] /\ pos[h] # Closed

(* PLG_KB_PCID_OPEN *)
Open(th, h) ==
    /\ Running(th) /\ h[1] = th[1] /\ pos[h] = Closed
    /\ pos' = [pos EXCEPT ![h] = sc_buf_pos] /\ dest' = << >>
    /\ UNCHANGED processVars /\ NotWaits /\ NotBuffer

(* PLG_KB_HCID_SKIP_FWD *)
SkipForward(th, h) ==
    /\ UsesHandle(th, h)
    /\ pos' = [pos EXCEPT ![h] = sc_buf_pos] /\ dest' = << >>
    /\ UNCHANGED processVars /\ NotWaits /\ NotBuffer

Bytes(from, n) == [k \in 1 .. n |-> sc_buf[from + k - 1]]
AtMost(a, b)   == IF a < b THEN a ELSE b

(* Variant for a mutant: the position is not taken back to the start. *)
Wrapped_Not(k) == IF k = Size THEN Size - 1 ELSE k

Wrapped(k) == IF k = Size THEN 0 ELSE k

(* kb_hs_read: up to the end of the buffer, then from its start.  The      *)
(* position has moved even when the copy to the user fails.                *)
Read(th, h, len) ==
    LET first  == IF pos[h] > sc_buf_pos THEN AtMost(Size - pos[h], len) ELSE 0
        after  == Wrapped(pos[h] + first)
        second == IF after < sc_buf_pos THEN AtMost(sc_buf_pos - after, len - first) ELSE 0
    IN  /\ UsesHandle(th, h) /\ pos[h] # sc_buf_pos
        /\ pos' = [pos EXCEPT ![h] = after + second]
        /\ dest' \in {<< >>, Bytes(pos[h], first) \o Bytes(after, second)}
        /\ UNCHANGED processVars /\ NotWaits /\ NotBuffer

CaughtUp(h) == pos[h] = sc_buf_pos

(* kb_hs_wait_read_ready; with no memory for the queue the call fails. *)
WaitRead(th, h) ==
    /\ UsesHandle(th, h) /\ CaughtUp(h)
    /\ Sleeps(th) /\ waitQ' = Append(waitQ, th)
    /\ waitsOn' = [waitsOn EXCEPT ![th] = h] /\ dest' = << >>
    /\ UNCHANGED <<pst, main, pos, readyQ, stale, misused>> /\ NotBuffer

(* hs_close, with delete_kb_handle_state: threads that wait with the       *)
(* handle are not told.                                                    *)
Close(th, h) ==
    LET under == {u \in Items(readyQ \o waitQ) : waitsOn[u] = h} IN
    /\ UsesHandle(th, h)
    /\ pos' = [pos EXCEPT ![h] = Closed] /\ dest' = << >>
    /\ stale' = stale \cup under /\ misused' = (misused \/ under # {})
    /\ UNCHANGED <<processVars, waitQ, readyQ, waitsOn>> /\ NotBuffer

(* The check of the handle behind the pointer: what it reads of a handle   *)
(* that is freed may be anything.                                          *)
MayPass(th) == th \in stale \/ pos[waitsOn[th]] = sc_buf_pos
MayFail(th) == th \in stale \/ pos[waitsOn[th]] # sc_buf_pos

(* PLG_KB_KCID_KEY_EVENT: two bytes go in, all waiters are notified, and   *)
(* popped until one fails the check.  That one is in no queue and not      *)
(* scheduled; the rest stays behind in the notified part, and the          *)
(* interrupt handler ignores the error.                                    *)
KeyEvent ==
    LET two(k)  == (typed + k) % Laps
        second  == Wrapped(sc_buf_pos + 1)
        q       == readyQ \o waitQ
        woken(k) == Items(SubSeq(q, 1, k))
    IN  /\ sc_buf' = [sc_buf EXCEPT ![sc_buf_pos] = two(0), ![second] = two(1)]
        /\ sc_buf_pos' = Wrapped(second + 1) /\ typed' = two(2)
        /\ waitQ' = << >> /\ dest' = << >>
        /\ \E k \in 0 .. Len(q) :
            /\ \A j \in 1 .. k : MayPass(q[j])
            /\ IF k = Len(q)
               THEN Wakes(Items(q)) /\ readyQ' = << >> /\ stale' = stale \ Items(q)
               ELSE /\ MayFail(q[k + 1])
                    /\ readyQ' = SubSeq(q, k + 2, Len(q))
                    /\ tst' = [th \in Thread |-> IF th = q[k + 1] THEN "detached"
                                       ELSE IF th \in woken(k) THEN "ready" ELSE tst[th]]
                    /\ stale' = stale \ woken(k + 1)
        /\ UNCHANGED <<pst, main, pos, waitsOn, misused>>

-----------------------------------------------------------------------------
Leave(ths) ==
    /\ waitQ' = Drop(waitQ, ths) /\ readyQ' = Drop(readyQ, ths)
    /\ stale' = stale \ ths

Spawn(th, u) ==
    Spawns(th, u) /\ dest' = << >> /\ UNCHANGED pos /\ NotWaits /\ NotBuffer

(* new_process_fork copies the handles, positions and all. *)
Fork(th, c) ==
    /\ Forks(th, c) /\ dest' = << >>
    /\ pos' = [h \in Handle |-> IF h[1] = c THEN pos[<<th[1], h[2]>>] ELSE pos[h]]
    /\ NotWaits /\ NotBuffer

WithoutHandles(p) == [h \in Handle |-> IF h[1] = p THEN Closed ELSE pos[h]]

Exit(th) ==
    /\ Exits(th) /\ Leave(ThreadsOf(th[1])) /\ dest' = << >>
    /\ UNCHANGED <<pos, waitsOn, misused>> /\ NotBuffer

(* A zombie's handles go when it is reaped. *)
Reap(p) ==
    /\ Reaps(p) /\ pos' = WithoutHandles(p) /\ dest' = << >>
    /\ NotWaits /\ NotBuffer

(* The threads go before the handles; no handle here is a default one. *)
Exec(th) ==
    /\ Execs(th) /\ Leave(ThreadsOf(th[1])) /\ dest' = << >>
    /\ pos' = WithoutHandles(th[1])
    /\ UNCHANGED <<waitsOn, misused>> /\ NotBuffer

Next ==
    \/ \E th \in Thread :
        \/ \E h \in Handle : \/ Open(th, h) \/ SkipForward(th, h)
                             \/ WaitRead(th, h) \/ Close(th, h)
                             \/ \E len \in 1 .. Size : Read(th, h, len)
        \/ \E u \in Thread : Spawn(th, u)
        \/ \E c \in Procs : Fork(th, c)
        \/ Exit(th) \/ Exec(th)
    \/ \E p \in Procs : Reap(p)
    \/ KeyEvent

Spec == Init /\ [][Next]_vars

-----------------------------------------------------------------------------
(* However far a handle is behind, the bytes from its position up to the   *)
(* plugin's are the newest that were typed, in the order they were typed:  *)
(* a slow reader loses whole laps, and never sees old and new mixed.       *)
ReadableIsNewest ==
    \A h \in Handle : pos[h] # Closed =>
        LET n == (sc_buf_pos - pos[h] + Size) % Size IN
        \A k \in 0 .. n - 1 :
            sc_buf[(pos[h] + k) % Size] = (typed + Laps - n + k) % Laps

(* A read returns consecutive bytes, also across the end of the buffer.    *)
ReadsAreConsecutive ==
    \A k \in 1 .. Len(dest) - 1 : dest[k + 1] = (dest[k] + 1) % Laps

(* What the check in the key event says: a thread that waits is one whose  *)
(* handle has caught up; so no key event leaves a thread detached.  The    *)
(* exception is a program that closes a handle while one of its threads    *)
(* waits with it.                                                          *)
WaitersHaveCaughtUp ==
    misused \/ \A th \in Thread :
        /\ tst[th] # "detached"
        /\ tst[th] = "waiting" => pos[waitsOn[th]] = sc_buf_pos
=============================================================================
