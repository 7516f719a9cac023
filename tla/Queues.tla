------------------------------- MODULE Queues -------------------------------
(***************************************************************************)
(* The linked lists the kernel keeps its threads and processes in, as      *)
(* sequences (front first), with the few operations the kernel uses: drop  *)
(* what is deleted or detached, pop the element an iterator stands on,     *)
(* push before an iterator, and find the first element of a kind.          *)
(***************************************************************************)
EXTENDS Integers, Sequences

(* What a list holds, and that it holds nothing twice. *)
Items(q)  == {q[i] : i \in 1 .. Len(q)}
NoDup(q)  == \A i, j \in 1 .. Len(q) : q[i] = q[j] => i = j

(* The list without the elements of T, in the order they had: what the     *)
(* remove functions of the wait queues leave, and the detaching of a       *)
(* thread from the schedule.                                               *)
Drop(q, T) ==
    LET kept[i \in 0 .. Len(q)] ==
            IF i = 0 THEN << >>
            ELSE IF q[i] \in T THEN kept[i - 1] ELSE Append(kept[i - 1], q[i])
    IN  kept[Len(q)]

(* Pop the element at an iterator, and push one before it (at the back     *)
(* when the iterator ran off the end, i = Len(q) + 1).                     *)
PopAt(q, i)      == SubSeq(q, 1, i - 1) \o SubSeq(q, i + 1, Len(q))
PushAt(q, i, e)  == SubSeq(q, 1, i - 1) \o << e >> \o SubSeq(q, i, Len(q))

Least(S) == CHOOSE i \in S : \A j \in S : i <= j
=============================================================================
