-------------------------------- MODULE Pipe --------------------------------
(***************************************************************************)
(* The pipe of k_startup/src/plugin_pipe.c: a cyclic buffer that keeps one *)
(* cell empty, the counts of its two kinds of handles, and the queues of   *)
(* the threads that wait for it to be neither empty nor full.  A system    *)
(* call is not interrupted, so each of the operations is one step; who     *)
(* calls them, and what a woken thread does next, is in module PipeUsers.  *)
(***************************************************************************)
EXTENDS Integers, Sequences

CONSTANTS
    SigCap,     \* the number of bytes the pipe is opened to hold
    TxMax       \* KS_PIPE_TX_MAX_LEN: the most bytes one call moves

ASSUME PipeConstants == SigCap \in Nat \ {0} /\ TxMax \in Nat \ {0}

VARIABLES
    i, j,       \* where the data starts, and the empty cell where it ends
    buf,
    write_refs, read_refs,      \* how many handles of each kind there are
    w_wq, r_wq                  \* waiting writers and readers: sets, as
                                \* all that is asked is to wake them all

pipeVars == <<i, j, buf, write_refs, read_refs, w_wq, r_wq>>

Cap == SigCap + 1

IsEmpty == i = j
IsFull  == (j + 1) % Cap = i

(* Variant for a mutant: the empty cell is counted in. *)
Occupied_Wrapped == IF i <= j THEN j - i ELSE (SigCap - i) + j

Occupied == IF i <= j THEN j - i ELSE (Cap - i) + j

(* The bytes under way: what the code's comments call significant data. *)
Content == [k \in 1 .. Occupied |-> buf[(i + k - 1) % Cap]]

Smaller(m, n) == IF m <= n THEN m ELSE n

(* pipe_hs_write of the bytes s, of which the caller's memory yields the   *)
(* first c: up to the end of the buffer first, then from its start.        *)
Writing(len) == Smaller(len, Smaller(SigCap - Occupied, TxMax))

Filled(b, at, s) ==
    [k \in 0 .. SigCap |-> IF k \in at .. at + Len(s) - 1 THEN s[k - at + 1] ELSE b[k]]

Second(s, c, first) == SubSeq(s, first + 1, c)

WriteBytes(s, c) ==
    LET first == IF i <= j THEN Smaller(c, Cap - j) ELSE 0
        back  == IF j + first = Cap THEN 0 ELSE j + first
    IN  /\ buf' = Filled(Filled(buf, j, SubSeq(s, 1, first)), back, Second(s, c, first))
        /\ j' = back + (c - first)
        /\ UNCHANGED <<i, write_refs, read_refs>>

(* pipe_hs_read, of as many bytes as the caller's memory takes.            *)
Reading(len) == Smaller(len, Smaller(Occupied, TxMax))

Slice(at, n) == [k \in 1 .. n |-> buf[at + k - 1]]

ReadBytes(c, out) ==
    LET first == IF j < i THEN Smaller(c, Cap - i) ELSE 0
        back  == IF i + first = Cap THEN 0 ELSE i + first
    IN  /\ out = Slice(i, first) \o Slice(back, c - first)
        /\ i' = back + (c - first)
        /\ UNCHANGED <<j, buf, write_refs, read_refs>>

(* Who is woken by a write of c of n bytes, and by a read of c: everybody, *)
(* when the pipe was empty, or full, before.  Variants for mutants: a copy *)
(* that fails half way wakes nobody; writers are woken when the pipe has   *)
(* run empty.                                                              *)
WokenByWrite_Whole(c, n) == IF IsEmpty /\ c = n THEN r_wq ELSE {}

WokenByWrite(c, n) == IF IsEmpty /\ c > 0 THEN r_wq ELSE {}

WokenByRead_Empty(c) == IF c = Occupied THEN w_wq ELSE {}

WokenByRead(c) == IF IsFull /\ c > 0 THEN w_wq ELSE {}

(* copy_pipe_handle_state, for all the handles that a fork copies.         *)
CopyHandles(ends) ==
    /\ write_refs' = IF "write" \in ends THEN write_refs + 1 ELSE write_refs
    /\ read_refs' = IF "read" \in ends THEN read_refs + 1 ELSE read_refs
    /\ UNCHANGED <<i, j, buf, w_wq, r_wq>>

(* delete_pipe_handle_state.  The last handle of an end to go wakes the    *)
(* waiters of both ends; when it is the last of all the pipe is deleted,   *)
(* for nobody can reach it any more.  Variant for a mutant: the count is   *)
(* tested before it is brought down.                                       *)
LastHandle_Early(e) == IF e = "write" THEN write_refs = 0 ELSE read_refs = 0

LastHandle(e) == IF e = "write" THEN write_refs = 1 ELSE read_refs = 1

DeleteHandle(e) ==
    /\ write_refs' = IF e = "write" THEN write_refs - 1 ELSE write_refs
    /\ read_refs' = IF e = "read" THEN read_refs - 1 ELSE read_refs
    /\ w_wq' = IF LastHandle(e) THEN {} ELSE w_wq
    /\ r_wq' = IF LastHandle(e) THEN {} ELSE r_wq
    /\ UNCHANGED <<i, j, buf>>
=============================================================================
