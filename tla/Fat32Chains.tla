---------------------------- MODULE Fat32Chains ----------------------------
(***************************************************************************)
(* The calls on chains of s_block_device/src/fat32.c, one access to the    *)
(* table at a time, on a device where each access may fail.  A failed      *)
(* access changes nothing on the device, and ends the call where it is or  *)
(* sends it to give back what it took.                                     *)
(***************************************************************************)
EXTENDS FatTable

CONSTANT MaxLen     \* bound: the longest chain that is asked for

ASSUME ChainsAssumption == MaxLen \in Nat

VARIABLES
    vol,        \* [fat, q, data], as in FatTable
    heads,      \* the first slots of the chains that files and directories have
    call,       \* the call that runs, or the last one
    before      \* history: vol when it began, and whether every access since
                \* has succeeded

chainVars == <<vol, heads, call, before>>

None == 0           \* instead of a slot

(* op and file: what is asked; len: the links still to take or, before     *)
(* "pop", the length asked for; iter: where the walk is; head, tail: the   *)
(* new segment; curr: the next slot to free; answer: what the call returns *)
(* or, while it frees, will return.                                        *)
Call(op, file, len, pc) ==
    [op |-> op, file |-> file, want |-> len, len |-> len, pc |-> pc, iter |-> file, links |-> 1,
     head |-> None, tail |-> None, curr |-> file, answer |-> "success"]

ChainsInit ==
    /\ vol = [fat |-> [x \in Slots |-> FatFree], q |-> << >>, data |-> [x \in Slots |-> JunkCluster]]
    /\ heads = {}
    /\ call = Call("none", None, 0, "idle")
    /\ before = [vol |-> vol, clean |-> TRUE]

Doing(pc) == call.pc = pc

StartCall(c) == Doing("idle") /\ call' = c /\ before' = [vol |-> vol, clean |-> TRUE] /\ UNCHANGED vol

(* fat32_fs_new_node and fat32_new_dir make chains of one cluster, tests   *)
(* longer ones; a file keeps one cluster when it is resized to nothing.    *)
NewCall == \E len \in 1 .. MaxLen : StartCall(Call("new", None, len, "pop")) /\ UNCHANGED heads

ResizeCall ==
    \E s \in heads, len \in 1 .. MaxLen :
        StartCall(Call("resize", s, len, "walk")) /\ UNCHANGED heads

(* fat32_fs_remove: the entry is gone, then the chain is freed. *)
FreeCall == \E s \in heads : StartCall(Call("free", s, 0, "free")) /\ heads' = heads \ {s}

(* What a step does to the call. *)
Goes(c) == call' = c
Ends(answer) == call' = [call EXCEPT !.pc = "idle", !.answer = answer]
Frees(s, answer) == call' = [call EXCEPT !.pc = "free", !.curr = s, !.answer = answer]

Accessed == UNCHANGED <<before, heads>>

(* An access fails. *)
AccessFails == before' = [before EXCEPT !.clean = FALSE] /\ UNCHANGED heads

-----------------------------------------------------------------------------
(* fat32_resize_chain: the walk along the chain as far as it is to reach.  *)
FollowChain ==
    LET next == vol.fat[call.iter] IN
    /\ Doing("walk") /\ UNCHANGED vol
    /\ \/ /\ Accessed
          /\ IF call.links = call.len
             THEN IF next = Eoc THEN Ends("success") ELSE Goes([call EXCEPT !.pc = "cut", !.curr = next])
             ELSE IF next = Eoc
                  THEN Goes([call EXCEPT !.pc = "pop", !.len = @ - call.links])
                  ELSE Goes([call EXCEPT !.iter = next, !.links = @ + 1])
       \/ AccessFails /\ Ends("error")

(* Variant for a mutant: the rest is freed before it is cut off. *)
CutOff_Late == vol' = FreeChain(vol, call.curr)

CutOff == vol' = Link(vol, call.iter, Eoc)

CutChain ==
    /\ Doing("cut")
    /\ \/ Accessed /\ CutOff /\ Frees(call.curr, "success")
       \/ AccessFails /\ UNCHANGED vol /\ Ends("error")

(* fat32_populate_free_queue *)
Populate ==
    /\ Doing("pop") /\ vol.q = << >>
    /\ \/ /\ Accessed
          /\ \E q \in FreeQueues(vol) :
                /\ vol' = [vol EXCEPT !.q = q]
                /\ IF q # << >> THEN UNCHANGED call
                   ELSE IF call.head = None THEN Ends("no_space") ELSE Frees(call.head, "no_space")
       \/ AccessFails /\ UNCHANGED vol /\ Ends("error")

(* Variant for a mutant: a slot stays queued until it has been written. *)
Unqueued_Never(q) == q

Unqueued(q) == SubSeq(q, 1, Len(q) - 1)

(* The rest of fat32_pop_free_fat_slot: when the table cannot be written   *)
(* the slot is off the queue all the same.                                 *)
Take ==
    LET x == EndOf(vol.q) IN
    /\ Doing("pop") /\ vol.q # << >>
    /\ \/ /\ Accessed
          /\ vol' = [Link(vol, x, Eoc) EXCEPT !.q = Unqueued(@)]
          /\ IF call.head = None
             THEN Goes([call EXCEPT !.head = x, !.tail = x, !.len = @ - 1, !.pc = "taken"])
             ELSE Goes([call EXCEPT !.curr = x, !.pc = "link"])
       \/ AccessFails /\ vol' = [vol EXCEPT !.q = Unqueued(@)] /\ Ends("error")

(* Variant for a mutant: the end of the segment is not moved on. *)
NewTail_Stays(c) == c.tail

NewTail(c) == c.curr

(* fat32_new_chain: the next slot at the end of the new segment. *)
LinkNext ==
    /\ Doing("link")
    /\ \/ /\ Accessed /\ vol' = Link(vol, call.tail, call.curr)
          /\ Goes([call EXCEPT !.tail = NewTail(call), !.len = @ - 1, !.pc = "taken"])
       \/ AccessFails /\ UNCHANGED vol /\ Ends("error")

(* It goes on, or has its length. *)
HaveSlot ==
    /\ Doing("taken") /\ UNCHANGED <<vol, before>>
    /\ \/ call.len > 0 /\ Goes([call EXCEPT !.pc = "pop"]) /\ UNCHANGED heads
       \/ call.len = 0 /\ call.op = "new" /\ Ends("success") /\ heads' = heads \cup {call.head}
       \/ call.len = 0 /\ call.op = "resize" /\ Goes([call EXCEPT !.pc = "attach"]) /\ UNCHANGED heads

(* The end of fat32_resize_chain *)
Attach ==
    /\ Doing("attach")
    /\ \/ Accessed /\ vol' = Link(vol, call.iter, call.head) /\ Ends("success")
       \/ AccessFails /\ UNCHANGED vol /\ Frees(call.head, "error")

(* fat32_free_chain: one slot, read and written. *)
FreeSlot ==
    LET next == vol.fat[call.curr] IN
    /\ Doing("free")
    /\ \/ /\ Accessed /\ vol' = Link(vol, call.curr, FatFree)
          /\ IF next = Eoc THEN Ends(call.answer) ELSE Goes([call EXCEPT !.curr = next])
       \/ AccessFails /\ UNCHANGED vol /\ Ends("error")

ChainsNext ==
    \/ NewCall \/ ResizeCall \/ FreeCall
    \/ FollowChain \/ CutChain \/ Populate \/ Take \/ LinkNext \/ HaveSlot \/ Attach \/ FreeSlot

ChainsSpec == ChainsInit /\ [][ChainsNext]_chainVars

-----------------------------------------------------------------------------
(***************************************************************************)
(* Whichever access of whichever call fails, and between any two of them:  *)
(* a file's chain runs to an end mark over slots in use, no slot is in the *)
(* chains of two files, and none that is in use waits in the queue of free *)
(* slots.  So a failing device may lose clusters, but never gives one to   *)
(* two files (fat32.c:505-541, 600-774).                                   *)
(***************************************************************************)
ChainsApart ==
    /\ \A s \in heads : LET c == ChainOf(vol.fat, s) IN
                        /\ NoDup(c) /\ Items(c) \subseteq Slots /\ vol.fat[EndOf(c)] = Eoc
    /\ \A s, t \in heads : s = t \/ Items(ChainOf(vol.fat, s)) \cap Items(ChainOf(vol.fat, t)) = {}
    /\ \A x \in Items(vol.q) : vol.fat[x] = FatFree
    /\ NoDup(vol.q)

(* Sequence c begins with d. *)
Extends(c, d) == Len(d) <= Len(c) /\ \A i \in 1 .. Len(d) : c[i] = d[i]

(***************************************************************************)
(* A resize moves the chain from its old length to the new one in one      *)
(* write, whatever fails: the file is never seen with part of its new      *)
(* clusters, keeps the slots both lengths share, and has the length that   *)
(* the answer says; no other file changes (fat32.c:690-774).               *)
(***************************************************************************)
AllOrNothing ==
    LET now(s) == ChainOf(vol.fat, s)
        old(s) == ChainOf(before.vol.fat, s)
        f == call.file
    IN  /\ \A s \in heads : s \in {f, call.head} \/ now(s) = old(s)
        /\ call.op = "resize" =>
              /\ now(f) = old(f) \/ /\ Len(now(f)) = call.want
                                    /\ Extends(now(f), old(f)) \/ Extends(old(f), now(f))
              /\ Doing("idle") /\ call.answer = "success" => Len(now(f)) = call.want
              /\ Doing("idle") /\ call.answer = "no_space" => now(f) = old(f)

(* Whatever access fails, no cluster is in the chains of two files, and a  *)
(* resize is done in one write or not at all.                              *)
ChainsSurviveFaults == ChainsApart /\ AllOrNothing

(***************************************************************************)
(* While no access fails, the steps of a call come to what the operator    *)
(* for it in FatTable says, which Fat32FileSys takes in one step: the same *)
(* slots, table and queue (fat32.c:505-774).                               *)
(***************************************************************************)
StepsAreOperators ==
    Doing("idle") /\ before.clean =>
        CASE call.op = "none"   -> TRUE
          [] call.op = "free"   -> vol = FreeChain(before.vol, call.file)
          [] call.op = "new"    ->
                [v |-> vol, slot |-> IF call.answer = "success" THEN call.head ELSE NoSpace]
                    \in NewChain(before.vol, call.want)
          [] call.op = "resize" ->
                \E r \in ResizeChain(before.vol, call.file, call.want) :
                    r.v = vol /\ (r.slot = NoSpace <=> call.answer = "no_space")
=============================================================================
