------------------------------ MODULE FatTable ------------------------------
(***************************************************************************)
(* The file allocation table of a FAT32 volume and the calls on its        *)
(* chains (s_block_device/src/fat32.c), on a device that does not fail.    *)
(* A volume is a value [fat, q, data], which the operations pass on; what  *)
(* depends on the random choice of a sector of the table is a set of       *)
(* outcomes.  Slots are numbered from 2, as in the table.                  *)
(***************************************************************************)
EXTENDS Queues

CONSTANTS
    NumSlots,           \* num_fat_slots: the slots are 2 .. NumSlots - 1
    SlotsPerSector,     \* FAT32_SLOTS_PER_FAT_SECTOR
    PerCluster          \* directory entries in a cluster

ASSUME FatTableAssumption == NumSlots \in Nat /\ SlotsPerSector \in Nat \ {0}

Slots == 2 .. NumSlots - 1
FatFree == 0
Eoc == 1                \* stands for FAT32_EOC: the end of a chain
NoSpace == 0            \* instead of a slot or an entry: FOS_E_NO_SPACE

(* What a cluster holds before it is written: whatever was there before,   *)
(* in a former life or since the disk was made.                            *)
Junk   == [kind |-> "junk"]
JunkCluster == [i \in 1 .. PerCluster |-> Junk]

EndOf(c) == c[Len(c)]

Link(v, x, y) == [v EXCEPT !.fat[x] = y]

-----------------------------------------------------------------------------
(* Chains *)

(* The slots of the chain from s on, as fat32_traverse_chain visits them:  *)
(* no chain is longer than the table.                                      *)
ChainOf(fat, s) ==
    LET upto[n \in 0 .. NumSlots] ==
          IF n = 0 THEN << s >>
          ELSE LET c == upto[n - 1] IN
               IF fat[EndOf(c)] \in Slots THEN Append(c, fat[EndOf(c)]) ELSE c
    IN  upto[NumSlots]

(* fat32_free_chain; what the clusters hold is of no interest any more. *)
FreeChain(v, s) ==
    LET gone == Items(ChainOf(v.fat, s)) IN
    [fat  |-> [x \in Slots |-> IF x \in gone THEN FatFree ELSE v.fat[x]],
     q    |-> v.q,
     data |-> [x \in Slots |-> IF x \in gone THEN JunkCluster ELSE v.data[x]]]

SectorOf(x) == x \div SlotsPerSector

(* The free slots of sector k of the table, in their order. *)
FreeIn(fat, k) ==
    LET upto[i \in 0 .. SlotsPerSector] ==
          IF i = 0 THEN << >>
          ELSE LET x == k * SlotsPerSector + i - 1 IN
               IF x \in Slots /\ fat[x] = FatFree THEN Append(upto[i - 1], x) ELSE upto[i - 1]
    IN  upto[SlotsPerSector]

(* fat32_populate_free_queue: an empty queue takes the free slots of one   *)
(* sector of the table, drawn at random; after five draws without any it   *)
(* stays empty, though another sector may have some.                       *)
FreeQueues(v) ==
    IF v.q # << >> THEN {v.q} ELSE {FreeIn(v.fat, SectorOf(x)) : x \in Slots}

(* fat32_pop_free_fat_slot: the outcomes, each a volume and a slot. *)
PopFree(v) ==
    {IF q = << >> THEN [v |-> v, slot |-> NoSpace]
     ELSE [v |-> [Link(v, EndOf(q), Eoc) EXCEPT !.q = SubSeq(q, 1, Len(q) - 1)],
           slot |-> EndOf(q)]
     : q \in FreeQueues(v)}

(* Variant for a mutant: when space runs out, what was taken stays taken. *)
GiveBack_Not(g) == [v |-> g.v, slot |-> NoSpace]

(* The end of fat32_new_chain that has met NoSpace. *)
GiveBack(g) ==
    [v |-> IF g.chain = << >> THEN g.v ELSE FreeChain(g.v, Head(g.chain)),
     slot |-> NoSpace]

(* fat32_new_chain takes one slot more for its chain, or finds none. *)
Longer(g) ==
    IF g.full THEN {g}
    ELSE {IF p.slot = NoSpace THEN [v |-> p.v, chain |-> g.chain, full |-> TRUE]
          ELSE [v |-> IF g.chain = << >> THEN p.v ELSE Link(p.v, EndOf(g.chain), p.slot),
                chain |-> Append(g.chain, p.slot), full |-> FALSE]
          : p \in PopFree(g.v)}

(* The loop of fat32_new_chain: the n-th set has what may have come of the *)
(* volume when it has been through n times.                                *)
Segments(v, len) ==
    LET upto[n \in 0 .. len] ==
          IF n = 0 THEN {[v |-> v, chain |-> << >>, full |-> FALSE]}
          ELSE UNION {Longer(g) : g \in upto[n - 1]}
    IN  upto

(* fat32_new_chain *)
NewChain(v, len) ==
    {IF g.full THEN GiveBack(g) ELSE [v |-> g.v, slot |-> Head(g.chain)]
     : g \in Segments(v, len)[len]}

(* fat32_resize_chain, for new_len > 0: the outcomes [v, slot], where the  *)
(* slot says only whether there was space.                                 *)
ResizeChain(v, s, len) ==
    LET c == ChainOf(v.fat, s) IN
    IF len = Len(c) THEN {[v |-> v, slot |-> s]}
    ELSE IF len < Len(c)
    THEN {[v |-> FreeChain(Link(v, c[len], Eoc), c[len + 1]), slot |-> s]}
    ELSE {[v |-> IF n.slot = NoSpace THEN n.v ELSE Link(n.v, EndOf(c), n.slot),
           slot |-> n.slot] : n \in NewChain(v, len - Len(c))}
=============================================================================
