----------------------------- MODULE SimpleHeap -----------------------------
(***************************************************************************)
(* The allocator of s_mem/src/simple_heap.c, which the kernel and every    *)
(* process keep their memory in: blocks between boundary tags, two free    *)
(* lists of which malloc searches only the first few entries, and a break  *)
(* that moves up when nothing was found.                                   *)
(*                                                                         *)
(* Sizes are in units of a tag (4 bytes); a free block holds two pointers. *)
(* A block is named by the position of its header.                         *)
(***************************************************************************)
EXTENDS Queues, FiniteSets

CONSTANTS
    Page, HeapPages,          \* the units of a page, the pages of the region
    Cutoff,                   \* small_fl_cutoff
    SmallAmt, LargeAmt,       \* small_fl_search_amt, large_fl_search_amt; 0: all
    Requests,                 \* sizes that are asked for
    MaxHeld                   \* bound: blocks in use at once

VARIABLES
    heap,    \* the tags, brk_ptr, the lists, num_user_blocks and exhausted
    held,    \* what the users have: block -> the size they asked for
    failed   \* the size of the last request if it was answered NULL, else 0

heapVars == <<heap, held, failed>>

End     == Page * HeapPages
NoBlock == End
MinFree == 2
Lists   == {"small", "large"}

(* A page is larger than the smallest block; malloc of 0 is answered at    *)
(* once and changes nothing.                                               *)
ASSUME HeapAssumption ==
    /\ Page \in Nat /\ Page >= 2 + MinFree /\ HeapPages \in Nat \ {0}
    /\ Cutoff \in Nat /\ SmallAmt \in Nat /\ LargeAmt \in Nat
    /\ Requests \subseteq Nat \ {0} /\ MaxHeld \in Nat

(* validate_mb_size; units are even already *)
Valid(bytes) == IF bytes < MinFree THEN MinFree ELSE bytes
UpToPage(n)  == ((n + Page - 1) \div Page) * Page
Lesser(a, b) == IF a < b THEN a ELSE b

-----------------------------------------------------------------------------
(* Tags *)

SizeAt(h, a)   == h.tag[a].size
Allocated(h, a) == h.tag[a].allocated
Footer(h, a)   == a + 1 + SizeAt(h, a)
ClassOf(size)  == IF size < Cutoff THEN "small" ELSE "large"

(* Both tags of the block at a are set.  Tags between them become part of  *)
(* the block: nobody may read them as tags again.                          *)
Tagged(h, a, size, allocated) ==
    LET inside == a .. a + 1 + size
        t == [size |-> size, allocated |-> allocated]
    IN  [h EXCEPT !.tag = [q \in (DOMAIN h.tag \ inside) \cup {a, a + 1 + size} |->
                             IF q \in inside THEN t ELSE h.tag[q]]]

(* shal_mb_next, shal_mb_prev *)
NextBlock(h, a) == IF Footer(h, a) + 1 < h.brk THEN Footer(h, a) + 1 ELSE NoBlock
PrevBlock(h, a) == IF a = 0 THEN NoBlock ELSE a - 2 - h.tag[a - 1].size

IsFree(h, b) == b # NoBlock /\ ~Allocated(h, b)

(* shal_remove_fb, of each block of S, from the list that its size tells. *)
Unlisted(h, S) ==
    [h EXCEPT !.list = [l \in Lists |-> Drop(@[l], {b \in S : ClassOf(SizeAt(h, b)) = l})]]

(* shal_add_fb *)
Listed(h, a) ==
    [h EXCEPT !.list = [l \in Lists |-> IF l = ClassOf(SizeAt(h, a)) THEN <<a>> \o @[l] ELSE @[l]]]

(* The free neighbours that shal_coalesce merges the block at a with. *)
Merged(h, a) == {b \in {PrevBlock(h, a), NextBlock(h, a)} : IsFree(h, b)}

(* Where the block that shal_coalesce makes of the one at a begins. *)
MergedFrom(h, a) == IF Merged(h, a) \cap 0 .. a # {} THEN PrevBlock(h, a) ELSE a

(* shal_coalesce *)
Coalesced(h, a) ==
    LET last == IF NextBlock(h, a) \in Merged(h, a) THEN NextBlock(h, a) ELSE a
        from == MergedFrom(h, a)
    IN  Tagged(Unlisted(h, Merged(h, a)), from, Footer(h, last) - from - 1, FALSE)

(* What is given back to the lists: shal_coalesce and then shal_add_fb. *)
Freed(h, a) == Listed(Coalesced(h, a), MergedFrom(h, a))

(* Variant for a mutant: the rest of a block is not merged. *)
Shrunk_Apart(h, a, size) ==
    LET left == SizeAt(h, a) - size
    IN  IF left >= 2 + MinFree
        THEN Listed(Tagged(Tagged(h, a, size, TRUE), a + size + 2, left - 2, FALSE), a + size + 2)
        ELSE Tagged(h, a, SizeAt(h, a), TRUE)

(* shal_shrink_left: the rest is a block of its own if it can be one. *)
Shrunk(h, a, size) ==
    LET left == SizeAt(h, a) - size
        cut  == Tagged(Tagged(h, a, size, TRUE), a + size + 2, left - 2, FALSE)
    IN  IF left >= 2 + MinFree THEN Freed(cut, a + size + 2)
        ELSE Tagged(h, a, SizeAt(h, a), TRUE)

-----------------------------------------------------------------------------
(* Searching *)

(* shal_search_free_list: the first of the first amt entries that fits. *)
Looked(h, l, amt) == IF amt = 0 THEN Len(h.list[l]) ELSE Lesser(amt, Len(h.list[l]))
Search(h, l, amt, size) ==
    LET fits == {i \in 1 .. Looked(h, l, amt) : SizeAt(h, h.list[l][i]) >= size}
    IN  IF fits = {} THEN NoBlock ELSE h.list[l][Least(fits)]

(* The searches of a list that found nothing looked at so many of it. *)
AllLooked(h, l, amt) == Looked(h, l, amt) # amt

(* shal_malloc's first and last searches; the last ones are made in h1,    *)
(* where memory was added, only of lists that were too long in h.          *)
FirstSearch(h, size) ==
    LET s == IF size < Cutoff THEN Search(h, "small", SmallAmt, size) ELSE NoBlock
    IN  IF s # NoBlock THEN s ELSE Search(h, "large", LargeAmt, size)
LastResort(h, h1, size) ==
    LET s == IF size < Cutoff /\ ~AllLooked(h, "small", SmallAmt)
             THEN Search(h1, "small", 0, size) ELSE NoBlock
    IN  IF s # NoBlock THEN s
        ELSE IF ~AllLooked(h, "large", LargeAmt) THEN Search(h1, "large", 0, size)
        ELSE NoBlock

(* How much shal_malloc asks for, up to the end of the region. *)
Needed(h, size) == Lesser(UpToPage(size + 2), End - h.brk)

(* request_mem gives all that is asked for, or an error and some pages.    *)
Grants(h, size) ==
    IF FirstSearch(h, size) # NoBlock \/ h.exhausted THEN {[got |-> 0, ok |-> TRUE]}
    ELSE {[got |-> Needed(h, size), ok |-> TRUE]} \cup
         {[got |-> n * Page, ok |-> FALSE] : n \in {k \in 0 .. HeapPages : k * Page < Needed(h, size)}}

(* shal_request_mem: the new block, merged, is in no list yet. *)
Raised(h, g) ==
    Tagged([h EXCEPT !.brk = @ + g.got], h.brk, g.got - 2, FALSE)
Grown(h, g) ==
    LET h2 == IF g.got = 0 THEN h ELSE Coalesced(Raised(h, g), h.brk)
    IN  [h2 EXCEPT !.exhausted = @ \/ ~g.ok]
NewBlock(h, g) == IF g.got = 0 THEN NoBlock ELSE MergedFrom(Raised(h, g), h.brk)

Granted(h, a, size) ==
    LET h2 == Shrunk(h, a, size) IN [at |-> a, heap |-> [h2 EXCEPT !.users = @ + 1]]

(* shal_malloc of a valid size: the block and the heap after it. *)
Malloc(h, size, g) ==
    LET found == FirstSearch(h, size)
        new   == NewBlock(h, g)
        grown == Grown(h, g)
        h1    == IF new = NoBlock THEN grown ELSE Listed(grown, new)
        last  == LastResort(h, h1, size)
    IN  IF found # NoBlock THEN Granted(Unlisted(h, {found}), found, size)
        ELSE IF new # NoBlock /\ SizeAt(grown, new) >= size THEN Granted(grown, new, size)
        ELSE IF last # NoBlock THEN Granted(Unlisted(h1, {last}), last, size)
        ELSE [at |-> NoBlock, heap |-> h1]

(* shal_free of a block in use *)
GivenBack(h, a) == LET h2 == Freed(h, a) IN [h2 EXCEPT !.users = @ - 1]

(* shal_realloc's merge with the free block on the right. *)
Gain(h, a) == IF IsFree(h, NextBlock(h, a)) THEN SizeAt(h, NextBlock(h, a)) + 2 ELSE 0
Stretched(h, a, size) ==
    LET next == NextBlock(h, a)
        more == size - SizeAt(h, a)
        h2   == Shrunk(Unlisted(h, {next}), next, Valid(IF more > 2 THEN more - 2 ELSE 0))
    IN  Tagged(h2, a, SizeAt(h, a) + 2 + SizeAt(h2, next), TRUE)

-----------------------------------------------------------------------------
(* new_simple_heap_allocator, with its own structure left out of the page. *)
HeapInit ==
    /\ heap = LET h == [tag |-> << >>, brk |-> Page, exhausted |-> FALSE, users |-> 0,
                        list |-> [l \in Lists |-> << >>]]
              IN  Listed(Tagged(h, 0, Page - 2, FALSE), 0)
    /\ held = << >> /\ failed = 0

Given(at, bytes, kept) ==
    /\ held' = IF at = NoBlock THEN kept
               ELSE [b \in DOMAIN kept \cup {at} |-> IF b = at THEN bytes ELSE kept[b]]
    /\ failed' = IF at = NoBlock THEN Valid(bytes) ELSE 0
Without(a) == [b \in DOMAIN held \ {a} |-> held[b]]

UserMalloc(bytes) ==
    \E g \in Grants(heap, Valid(bytes)) :
        LET r == Malloc(heap, Valid(bytes), g) IN heap' = r.heap /\ Given(r.at, bytes, held)

UserFree(a) == heap' = GivenBack(heap, a) /\ held' = Without(a) /\ failed' = 0

(* shal_realloc of a block in use and a size that is not 0. *)
UserRealloc(a, bytes) ==
    LET size == Valid(bytes) IN
    \/ size <= SizeAt(heap, a) /\ Given(a, bytes, held)
       /\ heap' = IF size = SizeAt(heap, a) THEN heap ELSE Shrunk(heap, a, size)
    \/ size > SizeAt(heap, a) /\ size <= SizeAt(heap, a) + Gain(heap, a)
       /\ heap' = Stretched(heap, a, size) /\ Given(a, bytes, held)
    \/ /\ size > SizeAt(heap, a) + Gain(heap, a)
       /\ \E g \in Grants(heap, size) :
             LET r == Malloc(heap, size, g) IN
             IF r.at = NoBlock THEN heap' = r.heap /\ Given(r.at, bytes, held)
             ELSE heap' = GivenBack(r.heap, a) /\ Given(r.at, bytes, Without(a))

HeapNext ==
    \/ Cardinality(DOMAIN held) < MaxHeld /\ \E bytes \in Requests : UserMalloc(bytes)
    \/ \E a \in DOMAIN held : UserFree(a)
    \/ \E a \in DOMAIN held, bytes \in Requests : UserRealloc(a, bytes)

HeapSpec == HeapInit /\ [][HeapNext]_heapVars

-----------------------------------------------------------------------------
(* The blocks, as shal_dump walks them: from tag to tag up to the break. *)
Blocks ==
    LET at[n \in 0 .. End] ==
          IF n = 0 THEN 0
          ELSE LET b == at[n - 1] IN IF b < heap.brk THEN Footer(heap, b) + 1 ELSE b
    IN  {at[n] : n \in 0 .. End}

FreeBlocks == {b \in Blocks \ {heap.brk} : ~Allocated(heap, b)}

(* The blocks fill the heap exactly, their two tags agree, and no two free *)
(* ones lie side by side; each free block is once in the list of its size, *)
(* and those in use are the ones the users hold, as large as they asked.   *)
HeapIsTiled ==
    /\ heap.brk \in Blocks /\ \A b \in Blocks : b <= heap.brk
    /\ \A b \in Blocks \ {heap.brk} :
          heap.tag[b] = heap.tag[Footer(heap, b)] /\ SizeAt(heap, b) >= MinFree
    /\ \A b \in FreeBlocks : Footer(heap, b) + 1 \notin FreeBlocks
    /\ \A l \in Lists :
          /\ NoDup(heap.list[l])
          /\ Items(heap.list[l]) = {b \in FreeBlocks : ClassOf(SizeAt(heap, b)) = l}
    /\ DOMAIN held = Blocks \ (FreeBlocks \cup {heap.brk})
    /\ \A b \in DOMAIN held : SizeAt(heap, b) >= held[b]
    /\ heap.users = Cardinality(DOMAIN held)

(* NULL means that no free block was large enough, however long the lists  *)
(* that malloc at first searches only the beginning of, and that no more   *)
(* memory is to be had.                                                    *)
NullMeansFull ==
    failed > 0 => /\ \A b \in FreeBlocks : SizeAt(heap, b) < failed
                  /\ heap.exhausted \/ heap.brk = End

(* The blocks fill the heap, and malloc fails only when none would do.     *)
HeapIsSound == HeapIsTiled /\ NullMeansFull
=============================================================================
