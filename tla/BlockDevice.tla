---------------------------- MODULE BlockDevice ----------------------------
(***************************************************************************)
(* What s_block_device/include/s_block_device/block_device.h promises of   *)
(* any block device: its sectors hold what was last written to them, and   *)
(* a flush changes nothing that a caller can see.  A call that fails has   *)
(* answered so; a failed write may have written any of its sectors.        *)
(***************************************************************************)
EXTENDS Naturals

CONSTANTS
    NumSectors,
    Pieces,     \* the parts of a sector that are read and written alone
    Bytes       \* what a piece can hold

VARIABLES
    store,      \* the sectors
    answer      \* whether the last call succeeded

vars == <<store, answer>>

Sectors == 0 .. NumSectors - 1
(* What a range writes: sectors whose pieces are alike, which is enough to *)
(* tell writes apart; pieces differ once one is written alone.             *)
Contents == {[p \in Pieces |-> b] : b \in Bytes}

(* The sectors of a call that passes the checks of bd_read and bd_write. *)
Ranges == {r \in Sectors \X (0 .. NumSectors) : r[1] + r[2] <= NumSectors}
Of(r) == r[1] .. r[1] + r[2] - 1

Ok    == answer' = "ok"
Error == answer' = "error"

Init == store \in [Sectors -> Contents] /\ answer = "ok"

(* What was read is the store's: nothing else could be meant. *)
Read  == (Ok \/ Error) /\ UNCHANGED store
Flush == (Ok \/ Error) /\ UNCHANGED store

Stored(sectors, c) == store' = [s \in Sectors |-> IF s \in sectors THEN c ELSE store[s]]

Write(r, c) ==
    \/ Stored(Of(r), c) /\ Ok
    \/ Error /\ \E done \in SUBSET Of(r) : Stored(done, c)

WritePiece(s, p, b) ==
    \/ store' = [store EXCEPT ![s][p] = b] /\ Ok
    \/ Error /\ UNCHANGED store

Next ==
    \/ Read \/ Flush
    \/ \E r \in Ranges, c \in Contents : Write(r, c)
    \/ \E s \in Sectors, p \in Pieces, b \in Bytes : WritePiece(s, p, b)

Spec == Init /\ [][Next]_vars
=============================================================================
