------------------------------ MODULE Channel ------------------------------
(***************************************************************************)
(* What a pipe promises its users, whatever its buffer looks like: bytes   *)
(* come out in the order they went in, none twice and none skipped, never  *)
(* more than Room of them are under way, and an end that has been closed   *)
(* for good stays closed.  A byte is known by its number, modulo Laps.     *)
(***************************************************************************)
EXTENDS Integers, Sequences

CONSTANTS Room, Laps

VARIABLES
    chan,       \* the bytes under way
    next,       \* the number of the next byte that goes in
    dest,       \* what the last read gave
    wopen,      \* somebody can still write
    ropen       \* somebody can still read

Numbered(from, n) == [k \in 1 .. n |-> (from + k - 1) % Laps]

Init ==
    /\ chan = << >> /\ next = 0 /\ dest = << >>
    /\ wopen = TRUE /\ ropen = TRUE

Put(n) ==
    /\ wopen /\ ropen /\ Len(chan) + n <= Room
    /\ chan' = chan \o Numbered(next, n)
    /\ next' = (next + n) % Laps
    /\ UNCHANGED <<dest, wopen, ropen>>

(* What is under way can be read after the writers have gone.  A read that *)
(* fails gives nothing.                                                    *)
Get(n) ==
    /\ ropen /\ n <= Len(chan)
    /\ dest' = SubSeq(chan, 1, n)
    /\ chan' = SubSeq(chan, n + 1, Len(chan))
    /\ UNCHANGED <<next, wopen, ropen>>

CloseWrite == wopen /\ wopen' = FALSE /\ UNCHANGED <<chan, next, dest, ropen>>

CloseRead == ropen /\ ropen' = FALSE /\ UNCHANGED <<chan, next, dest, wopen>>

Next ==
    \/ \E n \in 0 .. Room : Put(n) \/ Get(n)
    \/ CloseWrite \/ CloseRead

Spec == Init /\ [][Next]_<<chan, next, dest, wopen, ropen>>
=============================================================================
