---------------------------- MODULE LibraryProofs ----------------------------
(***************************************************************************)
(* What every process links, for any number of threads and any sizes: the  *)
(* allocator keeps the heap whole, and the mutex excludes, never misses    *)
(* its lock and loses no wake-up; under the same invariant every step of   *)
(* the mutex is a step of Lock or a stutter.                               *)
(***************************************************************************)
EXTENDS Mutex, SimpleHeap, QueueLemmas, FiniteSetTheorems, TLAPS

-----------------------------------------------------------------------------
(* The heap *)

IsHeap(h) == h = [tag |-> h.tag, brk |-> h.brk, exhausted |-> h.exhausted,
                  users |-> h.users, list |-> h.list]

(* Two block positions with no other between them.                         *)
Adj(B, b, e) == b \in B /\ e \in B /\ b < e /\ \A c \in B : c <= b \/ c >= e

(* The two tags of the block between b and e.                              *)
Span(tag, b, e, allocated) ==
    /\ b \in DOMAIN tag /\ e - 1 \in DOMAIN tag
    /\ tag[b] = [size |-> e - b - 2, allocated |-> allocated]
    /\ tag[e - 1] = [size |-> e - b - 2, allocated |-> allocated]

Bounds(h, B, F) ==
    /\ h.brk \in 1 .. End
    /\ B \subseteq 0 .. h.brk /\ 0 \in B /\ h.brk \in B /\ F \subseteq B \ {h.brk}
TagsRight(tag, B, F) ==
    \A b, e \in B : Adj(B, b, e) => Span(tag, b, e, b \notin F) /\ e - b >= 4
Tiling(h, B, F) == Bounds(h, B, F) /\ TagsRight(h.tag, B, F)

Apart(B, L) == \A b, e \in B : Adj(B, b, e) => ~(b \in L /\ e \in L)

OfClass(h, L, l) == {b \in L : ClassOf(SizeAt(h, b)) = l}
Listing(h, L) ==
    /\ h.list = [l \in Lists |-> h.list[l]]
    /\ \A l \in Lists : /\ h.list[l] \in Seq(Nat) /\ NoDup(h.list[l])
                        /\ Items(h.list[l]) = OfClass(h, L, l)

(* The heap between two calls on its parts: the free blocks of L are in    *)
(* the lists, and no two of them are neighbours.                           *)
Loose(h, B, F, L) ==
    IsHeap(h) /\ Tiling(h, B, F) /\ Listing(h, L) /\ Apart(B, L) /\ L \subseteq F

Using(h, B, F) == B \ (F \cup {h.brk})

-----------------------------------------------------------------------------
LEMMA EndIs == End \in Nat /\ NoBlock = End
<1>1. \A m, n \in Nat : m * n \in Nat
    OBVIOUS
<1>2. QED BY <1>1, HeapAssumption DEF End, NoBlock

LEMMA InRange ==
    ASSUME NEW h, NEW B, NEW F, Bounds(h, B, F)
    PROVE  h.brk \in Nat /\ h.brk <= End /\ h.brk >= 1 /\ B \subseteq Nat /\ \A b \in B : b <= h.brk
<1>1. h.brk \in 1 .. End
    BY DEF Bounds
<1>2. h.brk \in Nat /\ h.brk <= End /\ h.brk >= 1
    BY <1>1, EndIs
<1>3. B \subseteq 0 .. h.brk
    BY DEF Bounds
<1>4. QED BY <1>2, <1>3

LEMMA NextPlace ==
    ASSUME NEW h, NEW B, NEW F, Bounds(h, B, F), NEW b \in B, b # h.brk
    PROVE  \E e \in B : Adj(B, b, e)
<1> DEFINE T == {e \in B : e > b}
<1>0. h.brk \in B /\ h.brk \in Nat /\ B \subseteq Nat /\ b \in Nat /\ b <= h.brk
    BY InRange DEF Bounds
<1>1. T \subseteq Nat /\ h.brk \in T
  <2>1. h.brk > b
    BY <1>0
  <2>2. QED BY <1>0, <2>1
<1>2. PICK e \in T : \A c \in T : e <= c
    BY <1>1, LeastNat, Zenon
<1>3. QED BY <1>0, <1>2 DEF Adj

LEMMA PrevPlace ==
    ASSUME NEW h, NEW B, NEW F, Bounds(h, B, F), NEW e \in B, e # 0
    PROVE  \E b \in B : Adj(B, b, e)
<1> DEFINE T == {h.brk - b : b \in {c \in B : c < e}}
<1>0. /\ 0 \in B /\ h.brk \in Nat /\ B \subseteq Nat /\ e \in Nat
      /\ \A b \in B : b <= h.brk
    BY InRange DEF Bounds
<1>1. T \subseteq Nat /\ h.brk - 0 \in T
    BY <1>0
<1>2. PICK m \in T : \A n \in T : m <= n
    BY <1>1, LeastNat
<1>3. PICK b \in B : b < e /\ m = h.brk - b
    BY <1>2
<1>4. ASSUME NEW c \in B PROVE c <= b \/ c >= e
  <2>1. CASE c < e
    <3>1. h.brk - c \in T
        BY <2>1
    <3> HIDE DEF T
    <3>2. m <= h.brk - c
        BY <1>2, <3>1
    <3>3. h.brk - b <= h.brk - c
        BY <1>3, <3>2
    <3>4. QED BY <3>3, <1>0, <1>3
  <2>2. QED BY <2>1, <1>0
<1>5. QED BY <1>3, <1>4 DEF Adj

LEMMA OneNext ==
    ASSUME NEW B, B \subseteq Nat, NEW b, NEW e, NEW c, Adj(B, b, e), Adj(B, b, c)
    PROVE  e = c
<1>1. b \in Nat /\ e \in Nat /\ c \in Nat
    BY DEF Adj
<1>2. QED BY <1>1 DEF Adj

(* What the tags tell of a block and its neighbours.                       *)
LEMMA BlockIs ==
    ASSUME NEW h, NEW B, NEW F, Tiling(h, B, F), NEW a, NEW e, Adj(B, a, e)
    PROVE  /\ a \in Nat /\ e \in Nat /\ e - a >= 4 /\ e <= h.brk /\ a # h.brk /\ a # NoBlock
           /\ SizeAt(h, a) = e - a - 2 /\ Footer(h, a) = e - 1
           /\ Allocated(h, a) = (a \notin F)
           /\ NextBlock(h, a) = IF e < h.brk THEN e ELSE NoBlock
<1>1. a \in B /\ e \in B /\ a < e
    BY DEF Adj
<1>2. a \in Nat /\ e \in Nat /\ e <= h.brk /\ h.brk \in Nat /\ h.brk <= End
    BY <1>1, InRange DEF Tiling
<1>3. Span(h.tag, a, e, a \notin F) /\ e - a >= 4
    BY <1>1 DEF Tiling, TagsRight
<1>4. SizeAt(h, a) = e - a - 2
    BY <1>3 DEF Span, SizeAt
<1>5. Allocated(h, a) = (a \notin F)
    BY <1>3 DEF Span, Allocated
<1>6. Footer(h, a) = e - 1
    BY <1>4, <1>2 DEF Footer
<1>7. NextBlock(h, a) = IF e < h.brk THEN e ELSE NoBlock
    BY <1>6, <1>2 DEF NextBlock
<1>8. QED BY <1>1, <1>2, <1>3, <1>4, <1>5, <1>6, <1>7, EndIs

LEMMA BehindIs ==
    ASSUME NEW h, NEW B, NEW F, Tiling(h, B, F), NEW p, NEW a, Adj(B, p, a)
    PROVE  a # 0 /\ PrevBlock(h, a) = p
<1>1. p \in B /\ a \in B /\ p < a
    BY DEF Adj
<1>2. p \in Nat /\ a \in Nat
    BY <1>1, InRange DEF Tiling
<1>3. Span(h.tag, p, a, p \notin F)
    BY <1>1 DEF Tiling, TagsRight
<1>4. h.tag[a - 1].size = a - p - 2
    BY <1>3 DEF Span
<1>5. QED BY <1>4, <1>2, <1>1 DEF PrevBlock

-----------------------------------------------------------------------------
(* What the operations on the parts of the heap change.                    *)

SameRest(h, h2) ==
    /\ IsHeap(h2) /\ h2.brk = h.brk /\ h2.exhausted = h.exhausted /\ h2.users = h.users

LEMMA TagFields ==
    ASSUME NEW h, IsHeap(h), NEW t
    PROVE  [h EXCEPT !.tag = t] = [tag |-> t, brk |-> h.brk, exhausted |-> h.exhausted,
                                   users |-> h.users, list |-> h.list]
BY DEF IsHeap

LEMMA ListFields ==
    ASSUME NEW h, IsHeap(h), NEW t
    PROVE  [h EXCEPT !.list = t] = [tag |-> h.tag, brk |-> h.brk, exhausted |-> h.exhausted,
                                    users |-> h.users, list |-> t]
BY DEF IsHeap

LEMMA BrkFields ==
    ASSUME NEW h, IsHeap(h), NEW t
    PROVE  [h EXCEPT !.brk = t] = [tag |-> h.tag, brk |-> t, exhausted |-> h.exhausted,
                                   users |-> h.users, list |-> h.list]
BY DEF IsHeap

LEMMA UserFields ==
    ASSUME NEW h, IsHeap(h), NEW t
    PROVE  [h EXCEPT !.users = t] = [tag |-> h.tag, brk |-> h.brk, exhausted |-> h.exhausted,
                                     users |-> t, list |-> h.list]
BY DEF IsHeap

LEMMA ExhaustedFields ==
    ASSUME NEW h, IsHeap(h), NEW t
    PROVE  [h EXCEPT !.exhausted = t] = [tag |-> h.tag, brk |-> h.brk, exhausted |-> t,
                                         users |-> h.users, list |-> h.list]
BY DEF IsHeap

(* The tags of a block that ends before e are set, and no other.           *)
TagsSet(h, h2, a, e, allocated) ==
    /\ SameRest(h, h2) /\ h2.list = h.list
    /\ a \in DOMAIN h2.tag /\ e - 1 \in DOMAIN h2.tag
    /\ h2.tag[a] = [size |-> e - a - 2, allocated |-> allocated]
    /\ h2.tag[e - 1] = [size |-> e - a - 2, allocated |-> allocated]
    /\ \A q \in DOMAIN h.tag : q \notin a .. e - 1 => q \in DOMAIN h2.tag /\ h2.tag[q] = h.tag[q]

LEMMA TaggedIs ==
    ASSUME NEW h, IsHeap(h), NEW a \in Nat, NEW e \in Nat, e >= a + 2,
           NEW allocated \in BOOLEAN
    PROVE  TagsSet(h, Tagged(h, a, e - a - 2, allocated), a, e, allocated)
<1> DEFINE size == e - a - 2
<1> PICK h2 : h2 = Tagged(h, a, e - a - 2, allocated)
    OBVIOUS
<1>0. size \in Nat /\ a + 1 + size = e - 1
    OBVIOUS
<1> DEFINE t == [size |-> size, allocated |-> allocated]
           inside == a .. a + 1 + size
           new == [q \in (DOMAIN h.tag \ inside) \cup {a, a + 1 + size} |->
                     IF q \in inside THEN t ELSE h.tag[q]]
<1>1. Tagged(h, a, size, allocated) = [h EXCEPT !.tag = new]
    BY DEF Tagged
<1>2. h2 = [tag |-> new, brk |-> h.brk, exhausted |-> h.exhausted,
            users |-> h.users, list |-> h.list]
  <2> HIDE DEF new
  <2>1. QED BY <1>1, TagFields
<1>3. a \in inside /\ a + 1 + size \in inside
    OBVIOUS
<1>4. new[a] = t /\ new[a + 1 + size] = t /\ a \in DOMAIN new /\ a + 1 + size \in DOMAIN new
  <2> HIDE DEF inside, t
  <2>1. QED BY <1>3
<1>5. \A q \in DOMAIN h.tag : q \notin inside => q \in DOMAIN new /\ new[q] = h.tag[q]
  <2> HIDE DEF inside, t
  <2>1. QED OBVIOUS
<1>6. SameRest(h, h2) /\ h2.list = h.list /\ h2.tag = new
  <2> HIDE DEF new
  <2>1. QED BY <1>2 DEF SameRest, IsHeap
<1> HIDE DEF new
<1>7. QED BY <1>0, <1>4, <1>5, <1>6 DEF TagsSet

LEMMA TaggedUsed ==
    ASSUME NEW h, IsHeap(h), NEW a \in Nat, NEW e \in Nat, e >= a + 2
    PROVE  TagsSet(h, Tagged(h, a, e - a - 2, TRUE), a, e, TRUE)
<1>1. \A allocated \in BOOLEAN : TagsSet(h, Tagged(h, a, e - a - 2, allocated), a, e, allocated)
    BY TaggedIs, Zenon
<1>2. QED BY <1>1

LEMMA TaggedFree ==
    ASSUME NEW h, IsHeap(h), NEW a \in Nat, NEW e \in Nat, e >= a + 2
    PROVE  TagsSet(h, Tagged(h, a, e - a - 2, FALSE), a, e, FALSE)
<1>1. \A allocated \in BOOLEAN : TagsSet(h, Tagged(h, a, e - a - 2, allocated), a, e, allocated)
    BY TaggedIs, Zenon
<1>2. QED BY <1>1

(* The sizes of the blocks in S are the same.                              *)
SizesStay(h, h2, S) == \A b \in S : SizeAt(h2, b) = SizeAt(h, b)

LEMMA SizesStayed ==
    ASSUME NEW h, NEW B, NEW F, Tiling(h, B, F), NEW h2, NEW B2, NEW F2, Tiling(h2, B2, F2), NEW S,
           \A b \in S : \E e : Adj(B, b, e) /\ Adj(B2, b, e)
    PROVE  SizesStay(h, h2, S)
<1> SUFFICES ASSUME NEW b \in S PROVE SizeAt(h2, b) = SizeAt(h, b)
    BY DEF SizesStay
<1>1. PICK e : Adj(B, b, e) /\ Adj(B2, b, e)
    OBVIOUS
<1>2. SizeAt(h, b) = e - b - 2 /\ SizeAt(h2, b) = e - b - 2
    BY <1>1, BlockIs
<1>3. QED BY <1>2

(* One block over several, in use or not.                                  *)
Joined(h, a, e, h2, B2, F2) ==
    /\ Tiling(h2, B2, F2) /\ Adj(B2, a, e)
    /\ SameRest(h, h2) /\ h2.list = h.list
    /\ SizesStay(h, h2, B2 \ {a, h.brk})

LEMMA MergeKeeps ==
    ASSUME NEW h, NEW B, NEW F, IsHeap(h), Tiling(h, B, F),
           NEW a \in B, NEW e \in B, a < e, NEW allocated \in BOOLEAN,
           NEW h2, h2 = Tagged(h, a, e - a - 2, allocated),
           NEW B2, B2 = B \ (a + 1 .. e - 1),
           NEW F2, F2 = (F \ (a .. e - 1)) \cup (IF allocated THEN {} ELSE {a})
    PROVE  Joined(h, a, e, h2, B2, F2)
<1>0. /\ h.brk \in Nat /\ B \subseteq Nat /\ a \in Nat /\ e \in Nat /\ e <= h.brk
      /\ \A b \in B : b <= h.brk
    BY InRange DEF Tiling
<1>1. PICK c \in B : Adj(B, a, c)
  <2>1. a # h.brk
    BY <1>0
  <2>2. QED BY <2>1, NextPlace DEF Tiling
<1>2. c - a >= 4 /\ c <= e /\ c \in Nat
  <2>1. c - a >= 4
    BY <1>1, BlockIs
  <2>2. e <= a \/ e >= c
    BY <1>1 DEF Adj
  <2>3. QED BY <2>1, <2>2, <1>0
<1>3. e - a >= 4 /\ e - a - 2 \in Nat /\ a + 1 + (e - a - 2) = e - 1
    BY <1>2, <1>0
<1>4. /\ SameRest(h, h2) /\ h2.list = h.list
      /\ a \in DOMAIN h2.tag /\ e - 1 \in DOMAIN h2.tag
      /\ h2.tag[a] = [size |-> e - a - 2, allocated |-> allocated]
      /\ h2.tag[e - 1] = [size |-> e - a - 2, allocated |-> allocated]
      /\ \A q \in DOMAIN h.tag : q \notin a .. e - 1 => q \in DOMAIN h2.tag /\ h2.tag[q] = h.tag[q]
  <2>1. TagsSet(h, h2, a, e, allocated)
    BY <1>0, <1>3, TaggedIs
  <2>2. QED BY <2>1 DEF TagsSet
<1>5. h2.brk = h.brk
    BY <1>4 DEF SameRest
<1>6. B2 \subseteq Nat /\ a \in B2 /\ e \in B2 /\ \A b \in B2 : b \in B /\ (b <= a \/ b >= e)
    BY <1>0
<1>7. Bounds(h2, B2, F2)
  <2>1. 0 \in B2 /\ h.brk \in B2
    BY <1>0 DEF Tiling, Bounds
  <2>2. F2 \subseteq B2 \ {h.brk}
    BY <1>0 DEF Tiling, Bounds
  <2>3. B2 \subseteq 0 .. h.brk /\ h.brk \in 1 .. End
    BY DEF Tiling, Bounds
  <2>4. QED BY <2>1, <2>2, <2>3, <1>5 DEF Bounds
<1>8. ASSUME NEW b \in B2, NEW d \in B2, Adj(B2, b, d), b # a
      PROVE  Adj(B, b, d) /\ (b \notin F2 <=> b \notin F) /\ b \notin a .. e - 1 /\ d - 1 \notin a .. e - 1
  <2>1. b < d /\ b \in Nat /\ d \in Nat /\ (b < a \/ b >= e)
    BY <1>8, <1>6, <1>0 DEF Adj
  <2>2. d <= a \/ b >= e
    BY <2>1, <1>8, <1>6 DEF Adj
  <2>3. ASSUME NEW x \in B PROVE x <= b \/ x >= d
    <3>1. CASE x \in B2
        BY <3>1, <1>8 DEF Adj
    <3>2. CASE x \notin B2
        BY <3>2, <2>2, <2>1, <1>0
    <3>3. QED BY <3>1, <3>2
  <2>4. QED BY <2>1, <2>2, <2>3, <1>0, <1>6, <1>8 DEF Adj
<1>9. Adj(B2, a, e)
    BY <1>6, <1>0 DEF Adj
<1>10. TagsRight(h2.tag, B2, F2)
  <2> SUFFICES ASSUME NEW b \in B2, NEW d \in B2, Adj(B2, b, d)
               PROVE  Span(h2.tag, b, d, b \notin F2) /\ d - b >= 4
    BY DEF TagsRight
  <2>1. CASE b = a
    <3>1. d = e
        BY <2>1, <1>9, <1>6, OneNext
    <3>2. (a \notin F2) = allocated
        BY <1>0
    <3>3. QED BY <3>1, <3>2, <2>1, <1>3, <1>4 DEF Span
  <2>2. CASE b # a
    <3>1. Adj(B, b, d) /\ (b \notin F2) = (b \notin F) /\ b \notin a .. e - 1 /\ d - 1 \notin a .. e - 1
        BY <2>2, <1>8
    <3>2. Span(h.tag, b, d, b \notin F) /\ d - b >= 4
        BY <3>1, <1>6 DEF Tiling, TagsRight
    <3>3. QED BY <3>1, <3>2, <1>4 DEF Span
  <2>3. QED BY <2>1, <2>2
<1>11. Tiling(h2, B2, F2)
    BY <1>7, <1>10 DEF Tiling
<1>12. SizesStay(h, h2, B2 \ {a, h.brk})
  <2>1. ASSUME NEW b \in B2 \ {a, h.brk} PROVE \E d : Adj(B, b, d) /\ Adj(B2, b, d)
    <3>1. PICK d \in B2 : Adj(B2, b, d)
        BY <1>7, <1>5, NextPlace
    <3>2. QED BY <3>1, <1>8
  <2>2. QED BY <2>1, <1>11, SizesStayed
<1>13. QED BY <1>4, <1>9, <1>11, <1>12 DEF Joined

LEMMA MergeFrees ==
    ASSUME NEW h, NEW B, NEW F, IsHeap(h), Tiling(h, B, F),
           NEW a \in B, NEW e \in B, a < e
    PROVE  Joined(h, a, e, Tagged(h, a, e - a - 2, FALSE), B \ (a + 1 .. e - 1), (F \ (a .. e - 1)) \cup {a})
<1>1. \A no \in BOOLEAN : Joined(h, a, e, Tagged(h, a, e - a - 2, no), B \ (a + 1 .. e - 1),
                                 (F \ (a .. e - 1)) \cup (IF no THEN {} ELSE {a}))
    BY MergeKeeps, Zenon
<1>2. Joined(h, a, e, Tagged(h, a, e - a - 2, FALSE), B \ (a + 1 .. e - 1),
             (F \ (a .. e - 1)) \cup (IF FALSE THEN {} ELSE {a}))
    BY <1>1
<1>3. QED BY <1>2

LEMMA MergeUses ==
    ASSUME NEW h, NEW B, NEW F, IsHeap(h), Tiling(h, B, F),
           NEW a \in B, NEW e \in B, a < e
    PROVE  Joined(h, a, e, Tagged(h, a, e - a - 2, TRUE), B \ (a + 1 .. e - 1), F \ (a .. e - 1))
<1>1. \A yes \in BOOLEAN : Joined(h, a, e, Tagged(h, a, e - a - 2, yes), B \ (a + 1 .. e - 1),
                                 (F \ (a .. e - 1)) \cup (IF yes THEN {} ELSE {a}))
    BY MergeKeeps, Zenon
<1>2. Joined(h, a, e, Tagged(h, a, e - a - 2, TRUE), B \ (a + 1 .. e - 1),
             (F \ (a .. e - 1)) \cup (IF TRUE THEN {} ELSE {a}))
    BY <1>1
<1>3. QED BY <1>2

(* A block cut in two, the left one in use.                                *)
Cut(h, a, m, e) == Tagged(Tagged(h, a, m - a - 2, TRUE), m, e - m - 2, FALSE)

Divided(h, B, a, m, e, h2, B2, F2) ==
    /\ Tiling(h2, B2, F2) /\ Adj(B2, a, m) /\ Adj(B2, m, e)
    /\ SameRest(h, h2) /\ h2.list = h.list
    /\ SizesStay(h, h2, B \ {a, h.brk})

LEMMA CutKeeps ==
    ASSUME NEW h, NEW B, NEW F, IsHeap(h), Tiling(h, B, F),
           NEW a, NEW e, Adj(B, a, e), NEW m \in Nat, m - a >= 4, e - m >= 4,
           NEW h2, h2 = Cut(h, a, m, e),
           NEW B2, B2 = B \cup {m},
           NEW F2, F2 = (F \ {a}) \cup {m}
    PROVE  Divided(h, B, a, m, e, h2, B2, F2)
<1>0. /\ h.brk \in Nat /\ B \subseteq Nat /\ a \in Nat /\ e \in Nat /\ e <= h.brk
      /\ \A b \in B : b <= h.brk
  <2>1. a \in B /\ e \in B
    BY DEF Adj
  <2>2. QED BY <2>1, InRange DEF Tiling
<1>1. a \in B /\ e \in B /\ \A b \in B : b <= a \/ b >= e
    BY DEF Adj
<1>2. PICK g : g = Tagged(h, a, m - a - 2, TRUE)
    OBVIOUS
<1>3. h2 = Tagged(g, m, e - m - 2, FALSE)
    BY <1>2 DEF Cut
<1>4. /\ SameRest(h, g) /\ g.list = h.list
      /\ a \in DOMAIN g.tag /\ m - 1 \in DOMAIN g.tag
      /\ g.tag[a] = [size |-> m - a - 2, allocated |-> TRUE]
      /\ g.tag[m - 1] = [size |-> m - a - 2, allocated |-> TRUE]
      /\ \A q \in DOMAIN h.tag : q \notin a .. m - 1 => q \in DOMAIN g.tag /\ g.tag[q] = h.tag[q]
  <2>0. m >= a + 2
    BY <1>0
  <2>1. TagsSet(h, g, a, m, TRUE)
    BY <2>0, <1>0, <1>2, TaggedUsed
  <2>2. QED BY <2>1 DEF TagsSet
<1>5. /\ SameRest(g, h2) /\ h2.list = g.list
      /\ m \in DOMAIN h2.tag /\ e - 1 \in DOMAIN h2.tag
      /\ h2.tag[m] = [size |-> e - m - 2, allocated |-> FALSE]
      /\ h2.tag[e - 1] = [size |-> e - m - 2, allocated |-> FALSE]
      /\ \A q \in DOMAIN g.tag : q \notin m .. e - 1 => q \in DOMAIN h2.tag /\ h2.tag[q] = g.tag[q]
  <2>0. IsHeap(g) /\ e >= m + 2
    BY <1>0, <1>4 DEF SameRest
  <2>1. TagsSet(g, h2, m, e, FALSE)
    BY <2>0, <1>0, <1>3, TaggedFree
  <2>2. QED BY <2>1 DEF TagsSet
<1>6. SameRest(h, h2) /\ h2.list = h.list
    BY <1>4, <1>5 DEF SameRest
<1>7. /\ a \in DOMAIN h2.tag /\ m - 1 \in DOMAIN h2.tag
      /\ h2.tag[a] = [size |-> m - a - 2, allocated |-> TRUE]
      /\ h2.tag[m - 1] = [size |-> m - a - 2, allocated |-> TRUE]
  <2>1. a \notin m .. e - 1 /\ m - 1 \notin m .. e - 1
    BY <1>0
  <2>2. QED BY <2>1, <1>4, <1>5
<1>8. ASSUME NEW q \in DOMAIN h.tag, q \in Nat, q \notin a .. e - 1
      PROVE  q \in DOMAIN h2.tag /\ h2.tag[q] = h.tag[q]
  <2>1. q \notin a .. m - 1 /\ q \notin m .. e - 1
    BY <1>8, <1>0
  <2>2. QED BY <2>1, <1>4, <1>5
<1>9. h2.brk = h.brk
    BY <1>6 DEF SameRest
<1>10. Bounds(h2, B2, F2)
  <2>1. 0 \in B2 /\ h.brk \in B2 /\ h.brk \in 1 .. End
    BY DEF Tiling, Bounds
  <2>2. F2 \subseteq B2 \ {h.brk}
    BY <1>0 DEF Tiling, Bounds
  <2>3. B2 \subseteq 0 .. h.brk
    BY <1>0
  <2>4. QED BY <2>1, <2>2, <2>3, <1>9 DEF Bounds
<1>11. Adj(B2, a, m) /\ Adj(B2, m, e) /\ B2 \subseteq Nat
    BY <1>0, <1>1 DEF Adj
<1>12. m \notin B
    BY <1>0, <1>1
<1>13. ASSUME NEW b \in B2, NEW d \in B2, Adj(B2, b, d), b # a, b # m
       PROVE  Adj(B, b, d) /\ (b \notin F2 <=> b \notin F) /\ b \notin a .. e - 1 /\ d - 1 \notin a .. e - 1
  <2>1. b < d /\ b \in Nat /\ d \in Nat /\ b \in B /\ (b < a \/ b >= e)
    BY <1>13, <1>11, <1>0, <1>1 DEF Adj
  <2>2. d <= a \/ b >= e
    BY <2>1, <1>13, <1>1 DEF Adj
  <2>3. d # m
    BY <2>1, <2>2, <1>0
  <2>4. \A x \in B : x <= b \/ x >= d
    BY <1>13 DEF Adj
  <2>5. Adj(B, b, d)
    BY <2>1, <2>3, <2>4 DEF Adj
  <2>6. b \notin a .. e - 1 /\ d - 1 \notin a .. e - 1
    BY <2>1, <2>2, <1>0
  <2>7. QED BY <2>5, <2>6, <1>13
<1>14. TagsRight(h2.tag, B2, F2)
  <2> SUFFICES ASSUME NEW b \in B2, NEW d \in B2, Adj(B2, b, d)
               PROVE  Span(h2.tag, b, d, b \notin F2) /\ d - b >= 4
    BY DEF TagsRight
  <2>1. CASE b = a
    <3>1. d = m
        BY <2>1, <1>11, OneNext
    <3>2. (a \notin F2) = TRUE
        BY <1>0
    <3>3. QED BY <3>1, <3>2, <2>1, <1>7 DEF Span
  <2>2. CASE b = m
    <3>1. d = e
        BY <2>2, <1>11, OneNext
    <3>2. (m \notin F2) = FALSE
        OBVIOUS
    <3>3. QED BY <3>1, <3>2, <2>2, <1>5 DEF Span
  <2>3. CASE b # a /\ b # m
    <3>1. Adj(B, b, d) /\ (b \notin F2) = (b \notin F) /\ b \notin a .. e - 1 /\ d - 1 \notin a .. e - 1
        BY <2>3, <1>13
    <3>2. b \in B /\ d \in B /\ b \in Nat /\ d \in Nat /\ b < d
        BY <3>1, <1>0 DEF Adj
    <3>3. Span(h.tag, b, d, b \notin F) /\ d - b >= 4
        BY <3>1, <3>2 DEF Tiling, TagsRight
    <3>4. d - 1 \in Nat
        BY <3>2
    <3>5. QED BY <3>1, <3>2, <3>3, <3>4, <1>8 DEF Span
  <2>4. QED BY <2>1, <2>2, <2>3
<1>15. Tiling(h2, B2, F2)
    BY <1>10, <1>14 DEF Tiling
<1>16. SizesStay(h, h2, B \ {a, h.brk})
  <2>1. ASSUME NEW b \in B \ {a, h.brk} PROVE \E d : Adj(B, b, d) /\ Adj(B2, b, d)
    <3>1. b \in B2 /\ b # h2.brk /\ b # m
        BY <1>9, <1>12
    <3>2. PICK d \in B2 : Adj(B2, b, d)
        BY <1>10, <3>1, NextPlace
    <3>3. QED BY <3>1, <3>2, <1>13
  <2>2. QED BY <2>1, <1>15, SizesStayed
<1>17. QED BY <1>6, <1>11, <1>15, <1>16 DEF Divided

(* A block between the old break and a new one.                            *)
Higher(h, B, top, h2, B2, F2) ==
    /\ Tiling(h2, B2, F2) /\ Adj(B2, h.brk, top) /\ IsHeap(h2)
    /\ h2.brk = top /\ h2.exhausted = h.exhausted
    /\ h2.users = h.users /\ h2.list = h.list
    /\ SizesStay(h, h2, B \ {h.brk})

LEMMA RaiseKeeps ==
    ASSUME NEW h, NEW B, NEW F, IsHeap(h), Tiling(h, B, F),
           NEW top \in Nat, top - h.brk >= 4, top <= End, NEW g, g.got = top - h.brk,
           NEW h2, h2 = Raised(h, g),
           NEW B2, B2 = B \cup {top},
           NEW F2, F2 = F \cup {h.brk}
    PROVE  Higher(h, B, top, h2, B2, F2)
<1>0. /\ h.brk \in Nat /\ B \subseteq Nat /\ top \in Nat /\ top - h.brk >= 4
      /\ \A b \in B : b <= h.brk /\ b \in Nat /\ b < top /\ b <= top
  <2>1. h.brk \in Nat /\ B \subseteq Nat /\ \A b \in B : b <= h.brk
    BY InRange DEF Tiling
  <2>2. h.brk < top
    BY <2>1
  <2>3. QED BY <2>1, <2>2
<1>1. h.brk \in B /\ h.brk >= 1
    BY InRange DEF Tiling, Bounds
<1>2. PICK k : k = [h EXCEPT !.brk = @ + g.got]
    OBVIOUS
<1>3. IsHeap(k) /\ k.tag = h.tag /\ k.brk = top /\ k.exhausted = h.exhausted
      /\ k.users = h.users /\ k.list = h.list
  <2>0. h.brk + g.got = top
    BY <1>0
  <2>1. k = [tag |-> h.tag, brk |-> top, exhausted |-> h.exhausted,
             users |-> h.users, list |-> h.list]
    BY <2>0, <1>2, BrkFields
  <2>2. QED BY <2>1 DEF IsHeap
<1>4. h2 = Tagged(k, h.brk, g.got - 2, FALSE)
    BY <1>2 DEF Raised
<1>5. /\ SameRest(k, h2) /\ h2.list = k.list
      /\ h.brk \in DOMAIN h2.tag /\ top - 1 \in DOMAIN h2.tag
      /\ h2.tag[h.brk] = [size |-> top - h.brk - 2, allocated |-> FALSE]
      /\ h2.tag[top - 1] = [size |-> top - h.brk - 2, allocated |-> FALSE]
      /\ \A q \in DOMAIN k.tag : q \notin h.brk .. top - 1 => q \in DOMAIN h2.tag /\ h2.tag[q] = k.tag[q]
  <2>0. g.got - 2 = top - h.brk - 2 /\ top >= h.brk + 2
    BY <1>0
  <2>1. TagsSet(k, h2, h.brk, top, FALSE)
    BY <2>0, <1>0, <1>3, <1>4, TaggedFree
  <2>2. QED BY <2>1 DEF TagsSet
<1>6. IsHeap(h2) /\ h2.brk = top /\ h2.exhausted = h.exhausted /\ h2.users = h.users
      /\ h2.list = h.list
    BY <1>3, <1>5 DEF SameRest
<1>7. Bounds(h2, B2, F2)
  <2>1. 0 \in B2 /\ top \in B2 /\ top \in 1 .. End
    BY <1>0, EndIs DEF Tiling, Bounds
  <2>2. F2 \subseteq B2 \ {top}
    <3>1. F \subseteq B /\ top \notin B /\ top # h.brk
        BY <1>0, <1>1 DEF Tiling, Bounds
    <3>2. QED BY <3>1, <1>1
  <2>3. B2 \subseteq 0 .. top
    BY <1>0
  <2>4. QED BY <2>1, <2>2, <2>3, <1>6 DEF Bounds
<1>8. Adj(B2, h.brk, top) /\ B2 \subseteq Nat /\ top \notin B
  <2>1. top \notin B /\ B2 \subseteq Nat /\ h.brk < top
    BY <1>0
  <2>2. \A c \in B2 : c <= h.brk \/ c >= top
    BY <1>0
  <2>3. QED BY <2>1, <2>2, <1>1 DEF Adj
<1>9. ASSUME NEW b \in B2, NEW d \in B2, Adj(B2, b, d), b # h.brk
      PROVE  Adj(B, b, d) /\ b \in B /\ d \in B /\ b # top
             /\ (b \notin F2 <=> b \notin F) /\ b \notin h.brk .. top - 1 /\ d - 1 \notin h.brk .. top - 1
  <2>1. b < d /\ b \in Nat /\ d \in Nat
    BY <1>9, <1>8 DEF Adj
  <2>2. d <= top
    BY <1>0
  <2>3. b \in B /\ b < h.brk
    BY <2>1, <2>2, <1>9, <1>0
  <2>4. d <= h.brk
    BY <2>3, <1>1, <1>9, <2>1, <1>0 DEF Adj
  <2>5. d \in B
    BY <2>4, <1>0
  <2>6. \A x \in B : x <= b \/ x >= d
    BY <1>9 DEF Adj
  <2>7. Adj(B, b, d)
    BY <2>1, <2>3, <2>5, <2>6 DEF Adj
  <2>8. QED BY <2>1, <2>3, <2>4, <2>5, <2>7, <1>0, <1>9
<1>10. TagsRight(h2.tag, B2, F2)
  <2> SUFFICES ASSUME NEW b \in B2, NEW d \in B2, Adj(B2, b, d)
               PROVE  Span(h2.tag, b, d, b \notin F2) /\ d - b >= 4
    BY DEF TagsRight
  <2>1. CASE b = h.brk
    <3>1. d = top
        BY <2>1, <1>8, OneNext
    <3>2. (b \notin F2) = FALSE
        BY <2>1
    <3>3. QED BY <3>1, <3>2, <2>1, <1>5, <1>0 DEF Span
  <2>2. CASE b # h.brk
    <3>1. Adj(B, b, d) /\ b \in B /\ d \in B /\ (b \notin F2) = (b \notin F)
          /\ b \notin h.brk .. top - 1 /\ d - 1 \notin h.brk .. top - 1
        BY <2>2, <1>9
    <3>2. Span(h.tag, b, d, b \notin F) /\ d - b >= 4
        BY <3>1 DEF Tiling, TagsRight
    <3>3. QED BY <3>1, <3>2, <1>3, <1>5 DEF Span
  <2>3. QED BY <2>1, <2>2
<1>11. Tiling(h2, B2, F2)
    BY <1>7, <1>10 DEF Tiling
<1>12. SizesStay(h, h2, B \ {h.brk})
  <2>1. ASSUME NEW b \in B \ {h.brk} PROVE \E d : Adj(B, b, d) /\ Adj(B2, b, d)
    <3>1. b \in B2 /\ b # h2.brk
        BY <1>6, <1>8
    <3>2. PICK d \in B2 : Adj(B2, b, d)
        BY <1>7, <3>1, NextPlace
    <3>3. QED BY <3>1, <3>2, <1>9
  <2>2. QED BY <2>1, <1>11, SizesStayed
<1>13. QED BY <1>6, <1>8, <1>11, <1>12 DEF Higher

-----------------------------------------------------------------------------
(* The lists                                                               *)

SameTags(h, h2) == SameRest(h, h2) /\ h2.tag = h.tag

LEMMA SameTiling ==
    ASSUME NEW h, NEW h2, SameTags(h, h2), NEW B, NEW F, Tiling(h, B, F)
    PROVE  Tiling(h2, B, F)
BY DEF SameTags, SameRest, Tiling, Bounds

LEMMA SameSizes ==
    ASSUME NEW h, NEW h2, SameTags(h, h2)
    PROVE  \A b : SizeAt(h2, b) = SizeAt(h, b)
BY DEF SameTags, SizeAt

LEMMA ListsAre ==
    ASSUME NEW h, IsHeap(h), NEW list, NEW h2, h2 = [h EXCEPT !.list = list]
    PROVE  SameTags(h, h2) /\ h2.list = list
<1>1. h2 = [tag |-> h.tag, brk |-> h.brk, exhausted |-> h.exhausted,
            users |-> h.users, list |-> list]
    BY ListFields
<1>2. QED BY <1>1 DEF SameTags, SameRest, IsHeap

LEMMA ListingStays ==
    ASSUME NEW h, NEW L, Listing(h, L), NEW h2, h2.list = h.list, SizesStay(h, h2, L)
    PROVE  Listing(h2, L)
<1>1. \A l \in Lists : OfClass(h2, L, l) = OfClass(h, L, l)
  <2> SUFFICES ASSUME NEW l \in Lists PROVE OfClass(h2, L, l) = OfClass(h, L, l)
    OBVIOUS
  <2>1. \A b \in L : ClassOf(SizeAt(h2, b)) = ClassOf(SizeAt(h, b))
    BY DEF SizesStay
  <2>2. QED BY <2>1, Zenon DEF OfClass
<1>2. QED BY <1>1 DEF Listing

LEMMA UnlistedKeeps ==
    ASSUME NEW h, IsHeap(h), NEW L, Listing(h, L), NEW S, NEW h2, h2 = Unlisted(h, S)
    PROVE  SameTags(h, h2) /\ Listing(h2, L \ S)
<1> DEFINE list == [l \in Lists |-> Drop(h.list[l], OfClass(h, S, l))]
<1>1. Unlisted(h, S) = [h EXCEPT !.list = list]
    BY DEF Unlisted, OfClass
<1>2. SameTags(h, h2) /\ h2.list = list
  <2> HIDE DEF list
  <2>1. QED BY <1>1, ListsAre
<1>3. \A l \in Lists : list[l] = Drop(h.list[l], OfClass(h, S, l))
    OBVIOUS
<1>4. list = [l \in Lists |-> list[l]]
    OBVIOUS
<1> HIDE DEF list
<1>5. ASSUME NEW l \in Lists
      PROVE  list[l] \in Seq(Nat) /\ NoDup(list[l]) /\ Items(list[l]) = OfClass(h2, L \ S, l)
  <2>1. h.list[l] \in Seq(Nat) /\ NoDup(h.list[l]) /\ Items(h.list[l]) = OfClass(h, L, l)
    BY DEF Listing
  <2>2. /\ Drop(h.list[l], OfClass(h, S, l)) \in Seq(Nat) /\ NoDup(Drop(h.list[l], OfClass(h, S, l)))
        /\ Items(Drop(h.list[l], OfClass(h, S, l))) = Items(h.list[l]) \ OfClass(h, S, l)
    BY <2>1, DropProps
  <2>3. \A b \in L : SizeAt(h2, b) = SizeAt(h, b)
    BY <1>2, SameSizes
  <2>4. OfClass(h2, L \ S, l) = OfClass(h, L, l) \ OfClass(h, S, l)
    BY <2>3 DEF OfClass
  <2>5. QED BY <2>1, <2>2, <2>4, <1>3
<1>6. QED BY <1>2, <1>4, <1>5 DEF Listing

LEMMA ListedKeeps ==
    ASSUME NEW h, IsHeap(h), NEW L, Listing(h, L), NEW a \in Nat, a \notin L,
           NEW h2, h2 = Listed(h, a)
    PROVE  SameTags(h, h2) /\ Listing(h2, L \cup {a})
<1> DEFINE list == [l \in Lists |-> IF l = ClassOf(SizeAt(h, a)) THEN <<a>> \o h.list[l] ELSE h.list[l]]
<1>1. Listed(h, a) = [h EXCEPT !.list = list]
    BY DEF Listed
<1>2. SameTags(h, h2) /\ h2.list = list
  <2> HIDE DEF list
  <2>1. QED BY <1>1, ListsAre
<1>3. \A l \in Lists : list[l] = IF l = ClassOf(SizeAt(h, a)) THEN <<a>> \o h.list[l] ELSE h.list[l]
    OBVIOUS
<1>4. list = [l \in Lists |-> list[l]]
    OBVIOUS
<1> HIDE DEF list
<1>5. ASSUME NEW l \in Lists
      PROVE  list[l] \in Seq(Nat) /\ NoDup(list[l]) /\ Items(list[l]) = OfClass(h2, L \cup {a}, l)
  <2>1. h.list[l] \in Seq(Nat) /\ NoDup(h.list[l]) /\ Items(h.list[l]) = OfClass(h, L, l)
    BY DEF Listing
  <2>2. a \notin Items(h.list[l])
    BY <2>1 DEF OfClass
  <2>3. SizeAt(h2, a) = SizeAt(h, a) /\ \A b \in L : SizeAt(h2, b) = SizeAt(h, b)
    BY <1>2, SameSizes
  <2>4. CASE l = ClassOf(SizeAt(h, a))
    <3>1. <<a>> \in Seq(Nat) /\ Items(<<a>>) = {a} /\ NoDup(<<a>>)
        BY DEF Items, NoDup
    <3>2. /\ <<a>> \o h.list[l] \in Seq(Nat) /\ NoDup(<<a>> \o h.list[l])
          /\ Items(<<a>> \o h.list[l]) = {a} \cup Items(h.list[l])
      <4> DEFINE p == <<a>>
                 q == h.list[l]
      <4>1. /\ p \in Seq(Nat) /\ q \in Seq(Nat) /\ NoDup(p) /\ NoDup(q)
            /\ Items(p) = {a} /\ Items(p) \cap Items(q) = {}
        BY <2>1, <3>1, <2>2
      <4> HIDE DEF p, q
      <4>2. p \o q \in Seq(Nat) /\ NoDup(p \o q) /\ Items(p \o q) = {a} \cup Items(q)
        BY <4>1, ConcatItems
      <4>3. QED BY <4>2 DEF p, q
    <3>3. OfClass(h2, L \cup {a}, l) = {a} \cup OfClass(h, L, l)
        BY <2>3, <2>4 DEF OfClass
    <3>4. QED BY <2>1, <2>4, <3>2, <3>3, <1>3
  <2>5. CASE l # ClassOf(SizeAt(h, a))
    <3>1. OfClass(h2, L \cup {a}, l) = OfClass(h, L, l)
        BY <2>3, <2>5 DEF OfClass
    <3>2. QED BY <2>1, <2>5, <3>1, <1>3
  <2>6. QED BY <2>4, <2>5
<1>6. QED BY <1>2, <1>4, <1>5 DEF Listing

-----------------------------------------------------------------------------
(* Merging                                                                 *)

(* The block between a and e, and its free neighbours, lie between from    *)
(* and to.                                                                 *)
Around(B, F, a, e, from, to) ==
    /\ from \in B /\ to \in B /\ from <= a /\ e <= to
    /\ \/ from = a /\ \A p \in B : Adj(B, p, a) => p \notin F
       \/ from \in F /\ Adj(B, from, a)
    /\ \/ to = e /\ e \notin F
       \/ e \in F /\ Adj(B, e, to)

MergedTo(h, B, F, a, e, from, to) ==
    /\ Around(B, F, a, e, from, to)
    /\ MergedFrom(h, a) = from /\ Merged(h, a) = (F \cap (from .. to - 1)) \ {a}
    /\ Coalesced(h, a) = Tagged(Unlisted(h, Merged(h, a)), from, to - from - 2, FALSE)

LEMMA AroundIs ==
    ASSUME NEW h, NEW B, NEW F, Tiling(h, B, F), NEW a, NEW e, Adj(B, a, e)
    PROVE  \E from, to \in B : MergedTo(h, B, F, a, e, from, to)
<1>0. /\ h.brk \in Nat /\ B \subseteq Nat /\ h.brk \notin F /\ F \subseteq B /\ 0 \in B
      /\ \A b \in B : b <= h.brk
    BY InRange DEF Tiling, Bounds
<1>1. /\ a \in B /\ e \in B /\ a \in Nat /\ e \in Nat /\ a < e /\ e <= h.brk
      /\ \A c \in B : c <= a \/ c >= e
    BY <1>0 DEF Adj
<1>2. /\ NextBlock(h, a) = (IF e < h.brk THEN e ELSE NoBlock) /\ Footer(h, a) = e - 1
    BY BlockIs
<1>3. ASSUME NEW b \in B, b # h.brk
      PROVE  IsFree(h, b) <=> b \in F
  <2>1. PICK c \in B : Adj(B, b, c)
    BY <1>3, NextPlace DEF Tiling
  <2>2. b # NoBlock /\ Allocated(h, b) = (b \notin F)
    BY <2>1, BlockIs
  <2>3. QED BY <2>2 DEF IsFree
<1>4. ~IsFree(h, NoBlock)
    BY DEF IsFree
<1>5. (IsFree(h, NextBlock(h, a)) <=> e \in F) /\ (e \in F => NextBlock(h, a) = e)
  <2>1. CASE e < h.brk
    BY <2>1, <1>1, <1>2, <1>3, <1>0
  <2>2. CASE ~(e < h.brk)
    <3>1. e = h.brk
        BY <2>2, <1>1, <1>0
    <3>2. QED BY <2>2, <3>1, <1>0, <1>2, <1>4
  <2>3. QED BY <2>1, <2>2
<1>6. PICK from \in B :
         /\ from <= a
         /\ \/ from = a /\ (\A p \in B : Adj(B, p, a) => p \notin F) /\ ~IsFree(h, PrevBlock(h, a))
            \/ from \in F /\ Adj(B, from, a) /\ PrevBlock(h, a) = from /\ IsFree(h, from)
  <2>1. CASE a = 0
    <3>1. \A p \in B : ~Adj(B, p, a)
        BY <2>1, <1>0 DEF Adj
    <3>2. PrevBlock(h, a) = NoBlock
        BY <2>1 DEF PrevBlock
    <3>3. QED BY <3>1, <3>2, <1>1, <1>4
  <2>2. CASE a # 0
    <3>1. PICK p \in B : Adj(B, p, a)
        BY <2>2, <1>1, PrevPlace DEF Tiling
    <3>2. PrevBlock(h, a) = p
        BY <3>1, BehindIs
    <3>3. p < a /\ p \in Nat /\ p # h.brk
        BY <3>1, <1>0, <1>1 DEF Adj
    <3>4. \A d \in B : Adj(B, d, a) => d = p
      <4> SUFFICES ASSUME NEW d \in B, Adj(B, d, a) PROVE d = p
        OBVIOUS
      <4>1. QED BY BehindIs, <3>2
    <3>5. IsFree(h, p) <=> p \in F
        BY <3>3, <1>3
    <3>6. CASE p \in F
        BY <3>1, <3>2, <3>3, <3>5, <3>6, <1>1
    <3>7. CASE p \notin F
        BY <3>2, <3>4, <3>5, <3>7, <1>1
    <3>8. QED BY <3>6, <3>7
  <2>3. QED BY <2>1, <2>2
<1>7. PICK to \in B : /\ e <= to
                     /\ \/ to = e /\ e \notin F
                        \/ e \in F /\ Adj(B, e, to)
  <2>1. CASE e \in F
    <3>1. PICK c \in B : Adj(B, e, c)
        BY <2>1, <1>0, <1>1, NextPlace DEF Tiling
    <3>2. QED BY <3>1, <2>1, <1>0, <1>1 DEF Adj
  <2>2. CASE e \notin F
    BY <2>2, <1>1
  <2>3. QED BY <2>1, <2>2
<1>8. from \in Nat /\ to \in Nat
    BY <1>0
<1>9. Around(B, F, a, e, from, to)
    BY <1>6, <1>7 DEF Around
<1>10. Merged(h, a) = (IF from = a THEN {} ELSE {from}) \cup (IF e \in F THEN {e} ELSE {})
  <2>1. Merged(h, a) = {b \in {PrevBlock(h, a), NextBlock(h, a)} : IsFree(h, b)}
    BY DEF Merged
  <2>2. from = a => ~IsFree(h, PrevBlock(h, a))
    BY <1>6, <1>1 DEF Adj
  <2>3. from # a => PrevBlock(h, a) = from /\ IsFree(h, from)
    BY <1>6
  <2>4. QED BY <2>1, <2>2, <2>3, <1>5
<1>11. (F \cap (from .. to - 1)) \ {a} = (IF from = a THEN {} ELSE {from}) \cup (IF e \in F THEN {e} ELSE {})
  <2>1. ASSUME NEW x \in F, x \in from .. to - 1, x # a PROVE (x = from /\ from # a) \/ (x = e /\ e \in F)
    <3>1. x \in B /\ x \in Nat /\ from <= x /\ x < to
        BY <2>1, <1>0, <1>8
    <3>2. x <= a => x = from /\ from # a
      <4>1. from = a \/ x <= from \/ x >= a
        BY <1>6, <3>1 DEF Adj
      <4>2. QED BY <4>1, <3>1, <2>1, <1>8, <1>1
    <3>3. x >= e => x = e
      <4>1. to = e \/ x <= e \/ x >= to
        BY <1>7, <3>1 DEF Adj
      <4>2. QED BY <4>1, <3>1, <1>8, <1>1
    <3>4. QED BY <3>1, <3>2, <3>3, <1>1, <2>1
  <2>2. from # a => from \in F /\ from \in from .. to - 1
    BY <1>6, <1>7, <1>8, <1>1
  <2>3. e \in F => e \in from .. to - 1 /\ e # a
    <3>1. e \in F => e < to
        BY <1>7 DEF Adj
    <3>2. QED BY <3>1, <1>6, <1>8, <1>1
  <2>4. QED BY <2>1, <2>2, <2>3
<1>12. MergedFrom(h, a) = from
  <2>1. CASE from = a
    <3>1. Merged(h, a) \cap 0 .. a = {}
        BY <2>1, <1>10, <1>1
    <3>2. QED BY <3>1, <2>1 DEF MergedFrom
  <2>2. CASE from # a
    <3>1. from \in Merged(h, a) \cap 0 .. a
        BY <2>2, <1>10, <1>6, <1>8, <1>1
    <3>2. QED BY <3>1, <2>2, <1>6 DEF MergedFrom
  <2>3. QED BY <2>1, <2>2
<1>13. Footer(h, IF NextBlock(h, a) \in Merged(h, a) THEN NextBlock(h, a) ELSE a) = to - 1
  <2>1. CASE e \in F
    <3>1. NextBlock(h, a) \in Merged(h, a) /\ NextBlock(h, a) = e
        BY <2>1, <1>5, <1>10
    <3>2. Footer(h, e) = to - 1
        BY <2>1, <1>7, BlockIs
    <3>3. QED BY <3>1, <3>2
  <2>2. CASE e \notin F
    <3>1. NextBlock(h, a) \notin Merged(h, a)
        BY <2>2, <1>5 DEF Merged
    <3>2. QED BY <3>1, <2>2, <1>7, <1>2
  <2>3. QED BY <2>1, <2>2
<1>14. Coalesced(h, a) = Tagged(Unlisted(h, Merged(h, a)), from, to - from - 2, FALSE)
  <2>1. (to - 1) - from - 1 = to - from - 2
    BY <1>8
  <2>2. Coalesced(h, a) = Tagged(Unlisted(h, Merged(h, a)), from, (to - 1) - from - 1, FALSE)
    BY <1>12, <1>13, Zenon DEF Coalesced
  <2>3. QED BY <2>1, <2>2
<1>15. QED BY <1>9, <1>10, <1>11, <1>12, <1>14 DEF MergedTo

(* What merging leaves: a free block at from that is in no list.           *)
Merging(h, B, F, a, h2, B2, F2, from) ==
    /\ Tiling(h2, B2, F2) /\ Listing(h2, F2 \ {from}) /\ Apart(B2, F2) /\ from \in F2
    /\ SameRest(h, h2)
    /\ Using(h2, B2, F2) = Using(h, B, F) \ {a}
    /\ F2 \ {from} \subseteq F \ {a} /\ SizesStay(h, h2, B2 \ {from, h.brk})
    /\ SizeAt(h2, from) >= SizeAt(h, a)

LEMMA CoalescedOK ==
    ASSUME NEW h, NEW B, NEW F, IsHeap(h), Tiling(h, B, F), NEW a \in B, a # h.brk,
           Listing(h, F \ {a}), Apart(B, F \ {a})
    PROVE  \E B2, F2 : Merging(h, B, F, a, Coalesced(h, a), B2, F2, MergedFrom(h, a))
<1>0. /\ h.brk \in Nat /\ B \subseteq Nat /\ h.brk \notin F /\ F \subseteq B /\ h.brk \in B
      /\ \A b \in B : b <= h.brk
    BY InRange DEF Tiling, Bounds
<1>1. PICK e \in B : Adj(B, a, e)
    BY NextPlace DEF Tiling
<1>2. PICK from \in B, to \in B : MergedTo(h, B, F, a, e, from, to)
    BY <1>1, AroundIs
<1>02. /\ Around(B, F, a, e, from, to)
       /\ MergedFrom(h, a) = from /\ Merged(h, a) = (F \cap (from .. to - 1)) \ {a}
       /\ Coalesced(h, a) = Tagged(Unlisted(h, Merged(h, a)), from, to - from - 2, FALSE)
    BY <1>2 DEF MergedTo
<1> DEFINE M == Merged(h, a)
           h1 == Unlisted(h, M)
           h2 == Coalesced(h, a)
           B2 == B \ (from + 1 .. to - 1)
           F2 == (F \ (from .. to - 1)) \cup {from}
<1>3. /\ from <= a /\ a < e /\ e <= to /\ from \in Nat /\ to \in Nat /\ a \in Nat /\ e \in Nat
      /\ \A c \in B : c <= a \/ c >= e
    BY <1>0, <1>1, <1>02 DEF Around, Adj
<1>4. /\ \/ from = a /\ \A p \in B : Adj(B, p, a) => p \notin F
         \/ from \in F /\ Adj(B, from, a)
      /\ \/ to = e /\ e \notin F
         \/ e \in F /\ Adj(B, e, to)
    BY <1>02 DEF Around
<1>5. SameTags(h, h1) /\ Listing(h1, (F \ {a}) \ M)
    BY UnlistedKeeps
<1>6. (F \ {a}) \ M = F2 \ {from}
  <2>1. M = (F \cap (from .. to - 1)) \ {a}
    BY <1>02
  <2>2. a \in from .. to - 1 /\ from \in from .. to - 1
    BY <1>3
  <2> HIDE DEF M
  <2>3. QED BY <2>1, <2>2
<1>7. Tiling(h1, B, F) /\ IsHeap(h1) /\ h1.brk = h.brk
    BY <1>5, SameTiling DEF SameTags, SameRest
<1>8. /\ Tiling(h2, B2, F2) /\ Adj(B2, from, to)
      /\ SameRest(h1, h2) /\ h2.list = h1.list
      /\ SizesStay(h1, h2, B2 \ {from, h1.brk})
  <2>1. h2 = Tagged(h1, from, to - from - 2, FALSE) /\ from < to
    BY <1>02, <1>3
  <2> HIDE DEF h1, h2
  <2>2. Joined(h1, from, to, h2, B2, F2)
    BY <2>1, <1>7, MergeFrees
  <2>3. QED BY <2>2 DEF Joined
<1>9. SameRest(h, h2) /\ h2.brk = h.brk
    BY <1>5, <1>8 DEF SameTags, SameRest
<1>10. SizesStay(h, h2, B2 \ {from, h.brk})
  <2>1. \A b : SizeAt(h1, b) = SizeAt(h, b)
    BY <1>5, SameSizes
  <2>2. SizesStay(h1, h2, B2 \ {from, h.brk})
    BY <1>7, <1>8
  <2> HIDE DEF h1, h2, B2
  <2>3. QED BY <2>1, <2>2 DEF SizesStay
<1>11. F2 \ {from} \subseteq F /\ F2 \ {from} \subseteq B2 \ {from, h.brk} /\ from \in F2
  <2>1. F2 \ {from} \subseteq F
    OBVIOUS
  <2>2. F2 \subseteq B2 \ {h.brk}
    BY <1>8, <1>9 DEF Tiling, Bounds
  <2>3. QED BY <2>1, <2>2
<1>12. Listing(h2, F2 \ {from})
  <2>1. Listing(h1, F2 \ {from})
    BY <1>5, <1>6
  <2>2. SizesStay(h1, h2, F2 \ {from})
    BY <1>7, <1>8, <1>11 DEF SizesStay
  <2> HIDE DEF h1, h2, F2
  <2>3. QED BY <2>1, <2>2, <1>8, ListingStays
<1>13. ASSUME NEW x \in B, x \in from .. to - 1 PROVE x = from \/ x = a \/ (x = e /\ e \in F)
  <2>1. x \in Nat /\ from <= x /\ x < to
    BY <1>13, <1>3
  <2>2. x <= a => x = from \/ x = a
    <3>1. from = a \/ x <= from \/ x >= a
        BY <1>4 DEF Adj
    <3>2. QED BY <3>1, <2>1, <1>3
  <2>3. x >= e => x = e /\ e \in F
    <3>1. (to = e /\ e \notin F) \/ (e \in F /\ (x <= e \/ x >= to))
        BY <1>4 DEF Adj
    <3>2. QED BY <3>1, <2>1, <1>3
  <2>4. QED BY <2>1, <2>2, <2>3, <1>3
<1>14. Using(h2, B2, F2) = Using(h, B, F) \ {a}
  <2>1. Using(h2, B2, F2) = B2 \ (F2 \cup {h.brk}) /\ Using(h, B, F) = B \ (F \cup {h.brk})
    BY <1>9 DEF Using
  <2>2. \A x \in Nat : x \in from .. to - 1 <=> x = from \/ x \in from + 1 .. to - 1
    BY <1>3
  <2>3. ASSUME NEW x \in B2 \ (F2 \cup {h.brk}) PROVE x \in (B \ (F \cup {h.brk})) \ {a}
    <3>1. x \in B /\ x \in Nat /\ x # from /\ x \notin from .. to - 1
        BY <2>2, <2>3, <1>0
    <3>2. x # a
        BY <3>1, <1>3
    <3>3. QED BY <2>3, <3>1, <3>2
  <2>4. ASSUME NEW x \in (B \ (F \cup {h.brk})) \ {a} PROVE x \in B2 \ (F2 \cup {h.brk})
    <3>1. x \in Nat /\ x \in B /\ x \notin F /\ x # a /\ x # h.brk
        BY <2>4, <1>0
    <3>2. x # from
        BY <3>1, <1>4
    <3>3. x \notin from .. to - 1
        BY <3>1, <3>2, <1>13
    <3>4. x \notin from + 1 .. to - 1
        BY <3>1, <3>3, <2>2
    <3>5. QED BY <3>1, <3>2, <3>3, <3>4
  <2> HIDE DEF h2, B2, F2
  <2>5. QED BY <2>1, <2>3, <2>4
<1>15. Apart(B2, F2)
  <2> SUFFICES ASSUME NEW b \in B2, NEW c \in B2, Adj(B2, b, c), b \in F2, c \in F2
               PROVE  FALSE
    BY DEF Apart
  <2>1. b < c /\ b \in Nat /\ c \in Nat /\ b \in B /\ c \in B /\ B2 \subseteq Nat
    BY <1>0 DEF Adj
  <2>2. CASE b = from
    <3>1. c = to
        BY <2>1, <2>2, <1>8, OneNext
    <3>2. to \in F
        BY <3>1, <1>3
    <3>3. e \in F /\ Adj(B, e, to)
        BY <3>2, <1>4
    <3>4. e \in F \ {a} /\ to \in F \ {a}
        BY <3>2, <3>3, <1>3
    <3>5. QED BY <3>3, <3>4 DEF Apart
  <2>3. CASE b # from
    <3>1. b \in F /\ b \notin from .. to - 1 /\ b # a
        BY <2>3, <1>3
    <3>2. b < from => c <= from
        BY <1>8, <2>1 DEF Adj
    <3>3. c <= from \/ b >= to
        BY <3>1, <3>2, <2>1, <1>3
    <3>4. ASSUME NEW x \in B PROVE x <= b \/ x >= c
      <4>1. CASE x \in B2
        BY <4>1 DEF Adj
      <4>2. CASE x \notin B2
        <5>1. x \in from + 1 .. to - 1 /\ x \in Nat
            BY <4>2, <1>0
        <5>2. QED BY <5>1, <3>3, <2>1, <1>3
      <4>3. QED BY <4>1, <4>2
    <3>5. Adj(B, b, c)
        BY <3>4, <2>1 DEF Adj
    <3>6. CASE c # from
      <4>1. c \in F /\ c # a
        BY <3>6, <1>3
      <4>2. QED BY <4>1, <3>1, <3>5, <2>1 DEF Apart
    <3>7. CASE c = from
      <4>1. from \in F /\ from # a
        BY <3>7, <3>5, <3>1, <2>1, <1>4 DEF Adj
      <4>2. QED BY <4>1, <3>7, <3>1, <3>5, <2>1 DEF Apart
    <3>8. QED BY <3>6, <3>7
  <2>4. QED BY <2>2, <2>3
<1>16. SizeAt(h2, from) >= SizeAt(h, a)
  <2>1. SizeAt(h2, from) = to - from - 2
    BY <1>8, BlockIs
  <2>2. SizeAt(h, a) = e - a - 2
    BY <1>1, BlockIs
  <2>3. QED BY <2>1, <2>2, <1>3
<1>17. Merging(h, B, F, a, h2, B2, F2, from)
  <2>1. F2 \ {from} \subseteq F \ {a}
    <3> HIDE DEF M, F2
    <3>1. QED BY <1>6
  <2> HIDE DEF h1, h2, B2, F2
  <2>2. QED BY <2>1, <1>8, <1>9, <1>10, <1>11, <1>12, <1>14, <1>15, <1>16 DEF Merging
<1>18. QED BY <1>17, <1>02

(* The heap between two calls.                                             *)
Sound(h, B, F) == IsHeap(h) /\ Tiling(h, B, F) /\ Listing(h, F) /\ Apart(B, F)

(* A call after which the blocks of U are in use, and all that were before *)
(* but the one at a have the size they had.                                *)
Changed(h, B, F, h2, B2, F2, U, a) ==
    /\ Sound(h2, B2, F2) /\ SameRest(h, h2)
    /\ Using(h2, B2, F2) = U /\ SizesStay(h, h2, Using(h, B, F) \ {a})

LEMMA ListedOK ==
    ASSUME NEW h, NEW B, NEW F, NEW a, NEW g, NEW B2, NEW F2, NEW from,
           Merging(h, B, F, a, g, B2, F2, from)
    PROVE  Sound(Listed(g, from), B2, F2) /\ SameTags(g, Listed(g, from)) /\ SameRest(h, Listed(g, from))
<1>1. /\ IsHeap(g) /\ Tiling(g, B2, F2) /\ Listing(g, F2 \ {from}) /\ Apart(B2, F2) /\ from \in F2
      /\ SameRest(h, g)
    BY DEF Merging, SameRest
<1>2. from \in Nat
  <2>1. from \in B2
    BY <1>1 DEF Tiling, Bounds
  <2>2. B2 \subseteq Nat
    BY <1>1, InRange DEF Tiling
  <2>3. QED BY <2>1, <2>2
<1>3. from \notin F2 \ {from} /\ (F2 \ {from}) \cup {from} = F2
    BY <1>1
<1>4. SameTags(g, Listed(g, from)) /\ Listing(Listed(g, from), F2)
  <2> DEFINE L == F2 \ {from}
  <2>1. Listing(g, L) /\ from \notin L /\ L \cup {from} = F2
    BY <1>1, <1>3
  <2> HIDE DEF L
  <2>2. SameTags(g, Listed(g, from)) /\ Listing(Listed(g, from), L \cup {from})
    BY <1>1, <1>2, <2>1, ListedKeeps
  <2>3. QED BY <2>1, <2>2
<1>5. Tiling(Listed(g, from), B2, F2)
    BY <1>1, <1>4, SameTiling
<1>6. IsHeap(Listed(g, from)) /\ SameRest(h, Listed(g, from))
    BY <1>1, <1>4 DEF SameTags, SameRest
<1>7. QED BY <1>1, <1>4, <1>5, <1>6 DEF Sound

LEMMA FreedOK ==
    ASSUME NEW h, NEW B, NEW F, IsHeap(h), Tiling(h, B, F), NEW a \in B, a # h.brk,
           Listing(h, F \ {a}), Apart(B, F \ {a})
    PROVE  \E B2, F2 : Changed(h, B, F, Freed(h, a), B2, F2, Using(h, B, F) \ {a}, a)
<1>1. PICK g : g = Coalesced(h, a)
    OBVIOUS
<1>2. PICK from : from = MergedFrom(h, a)
    OBVIOUS
<1>3. PICK B2, F2 : Merging(h, B, F, a, g, B2, F2, from)
    BY <1>1, <1>2, CoalescedOK
<1>4. Freed(h, a) = Listed(g, from)
    BY <1>1, <1>2 DEF Freed
<1> DEFINE h2 == Listed(g, from)
<1>5. Sound(h2, B2, F2) /\ SameTags(g, h2) /\ SameRest(h, h2)
    BY <1>3, ListedOK
<1> HIDE DEF h2
<1>6. /\ Using(g, B2, F2) = Using(h, B, F) \ {a} /\ from \in F2 /\ SameRest(h, g)
      /\ SizesStay(h, g, B2 \ {from, h.brk})
    BY <1>3 DEF Merging
<1>7. Using(h2, B2, F2) = Using(h, B, F) \ {a}
    BY <1>5, <1>6 DEF Using, SameRest
<1>8. \A b : SizeAt(h2, b) = SizeAt(g, b)
    BY <1>5, SameSizes
<1>9. Using(g, B2, F2) \subseteq B2 \ {from, h.brk}
    BY <1>6 DEF Using, SameRest
<1>10. SizesStay(h, h2, Using(h, B, F) \ {a})
    BY <1>6, <1>8, <1>9 DEF SizesStay
<1>11. Changed(h, B, F, h2, B2, F2, Using(h, B, F) \ {a}, a)
    BY <1>5, <1>7, <1>10 DEF Changed
<1>12. QED BY <1>4, <1>11 DEF h2

(* shal_shrink_left of a block that is in no list.                         *)
LEMMA ShrunkOK ==
    ASSUME NEW h, NEW B, NEW F, IsHeap(h), Tiling(h, B, F), NEW a \in B, a # h.brk,
           Listing(h, F \ {a}), Apart(B, F \ {a}),
           NEW size \in Nat, size >= 2, size <= SizeAt(h, a)
    PROVE  \E B2, F2 : /\ Changed(h, B, F, Shrunk(h, a, size), B2, F2, Using(h, B, F) \cup {a}, a)
                       /\ SizeAt(Shrunk(h, a, size), a) >= size
<1>0. /\ h.brk \in Nat /\ B \subseteq Nat /\ h.brk \notin F /\ F \subseteq B /\ h.brk \in B
    BY InRange DEF Tiling, Bounds
<1>1. PICK e \in B : Adj(B, a, e)
    BY NextPlace DEF Tiling
<1>2. /\ SizeAt(h, a) = e - a - 2 /\ a \in Nat /\ e \in Nat /\ e - a >= 4
      /\ \A c \in B : c <= a \/ c >= e
  <2>1. \A c \in B : c <= a \/ c >= e
    BY <1>1 DEF Adj
  <2>2. QED BY <1>1, <2>1, BlockIs
<1>3. SizesStay(h, h, {})
    BY DEF SizesStay
<1>4. CASE SizeAt(h, a) - size >= 4
  <2>1. PICK m \in Nat : m = a + size + 2
    BY <1>2
  <2>2. /\ m - a >= 4 /\ e - m >= 4 /\ size = m - a - 2 /\ (SizeAt(h, a) - size) - 2 = e - m - 2
        /\ m \notin B /\ a # m
    BY <1>2, <1>4, <2>1
  <2>3. PICK g : g = Cut(h, a, m, e)
    OBVIOUS
  <2>4. Shrunk(h, a, size) = Freed(g, m)
    <3>1. SizeAt(h, a) - size >= 2 + MinFree
        BY <1>4 DEF MinFree
    <3>2. Cut(h, a, m, e) = Tagged(Tagged(h, a, size, TRUE), a + size + 2, (SizeAt(h, a) - size) - 2, FALSE)
        BY <2>1, <2>2 DEF Cut
    <3>3. QED BY <3>1, <3>2, <2>1, <2>3 DEF Shrunk
  <2> DEFINE B1 == B \cup {m}
             F1 == (F \ {a}) \cup {m}
  <2>5. /\ Tiling(g, B1, F1) /\ Adj(B1, a, m) /\ Adj(B1, m, e)
        /\ SameRest(h, g) /\ g.list = h.list
        /\ SizesStay(h, g, B \ {a, h.brk})
    <3>1. Divided(h, B, a, m, e, g, B1, F1)
        BY <1>1, <2>2, <2>3, CutKeeps
    <3>2. QED BY <3>1 DEF Divided
  <2>6. F1 \ {m} = F \ {a}
    BY <2>2, <1>0
  <2>7. g.brk = h.brk /\ IsHeap(g) /\ m \in B1 /\ m # g.brk
    BY <2>5, <2>2, <1>0 DEF SameRest
  <2>8. Listing(g, F1 \ {m})
    <3>1. F \ {a} \subseteq B \ {a, h.brk}
        BY <1>0
    <3>2. SizesStay(h, g, F \ {a})
        BY <2>5, <3>1 DEF SizesStay
    <3>3. Listing(g, F \ {a})
        BY <2>5, <3>2, ListingStays
    <3>4. QED BY <3>3, <2>6
  <2>9. Apart(B1, F1 \ {m})
    <3> SUFFICES ASSUME NEW b \in B1, NEW c \in B1, Adj(B1, b, c), b \in F \ {a}, c \in F \ {a}
                 PROVE  FALSE
        BY <2>6 DEF Apart
    <3>1. b \in B /\ c \in B
        BY <1>0
    <3>2. Adj(B, b, c)
        BY <3>1 DEF Adj
    <3>3. QED BY <3>1, <3>2 DEF Apart
  <2>10. Using(g, B1, F1) = Using(h, B, F) \cup {a}
    BY <2>2, <2>7, <1>0 DEF Using
  <2>11. PICK B2, F2 : Changed(g, B1, F1, Freed(g, m), B2, F2, Using(g, B1, F1) \ {m}, m)
    <3> HIDE DEF B1, F1
    <3>1. QED BY <2>5, <2>7, <2>8, <2>9, FreedOK
  <2>12. Using(g, B1, F1) = Using(h, B, F) \cup {a} /\ m \notin Using(g, B1, F1)
    BY <2>10, <2>2 DEF Using
  <2> DEFINE h2 == Freed(g, m)
  <2> HIDE DEF B1, F1, h2
  <2>13. /\ Sound(h2, B2, F2) /\ SameRest(g, h2) /\ Using(h2, B2, F2) = Using(h, B, F) \cup {a}
         /\ SizesStay(g, h2, Using(h, B, F) \cup {a})
    <3>1. Using(g, B1, F1) \ {m} = Using(h, B, F) \cup {a}
        BY <2>12
    <3>2. QED BY <2>11, <2>12, <3>1 DEF Changed, h2
  <2>14. SameRest(h, h2)
    BY <2>5, <2>13 DEF SameRest
  <2>15. SizesStay(h, h2, Using(h, B, F) \ {a})
    <3> SUFFICES ASSUME NEW b \in Using(h, B, F) \ {a} PROVE SizeAt(h2, b) = SizeAt(h, b)
        BY DEF SizesStay
    <3>1. SizeAt(h2, b) = SizeAt(g, b)
        BY <2>13 DEF SizesStay
    <3>2. b \in B \ {a, h.brk}
        BY DEF Using
    <3>3. QED BY <3>1, <3>2, <2>5 DEF SizesStay
  <2>16. SizeAt(h2, a) >= size
    <3>1. SizeAt(h2, a) = SizeAt(g, a)
        BY <2>13 DEF SizesStay
    <3>2. SizeAt(g, a) = m - a - 2
        BY <2>5, BlockIs
    <3>3. QED BY <3>1, <3>2, <2>2
  <2>17. QED BY <2>4, <2>13, <2>14, <2>15, <2>16 DEF Changed, h2
<1>5. CASE ~(SizeAt(h, a) - size >= 4)
  <2>1. Shrunk(h, a, size) = Tagged(h, a, e - a - 2, TRUE)
    <3>1. ~(SizeAt(h, a) - size >= 2 + MinFree)
        BY <1>5 DEF MinFree
    <3>2. QED BY <3>1, <1>2 DEF Shrunk
  <2>2. PICK h2 : h2 = Tagged(h, a, e - a - 2, TRUE)
    OBVIOUS
  <2> DEFINE F2 == F \ {a}
  <2>3. B \ (a + 1 .. e - 1) = B /\ F \ (a .. e - 1) = F2
    <3>1. \A x \in B : x \notin a + 1 .. e - 1 /\ (x \in a .. e - 1 <=> x = a)
        BY <1>2, <1>0
    <3>2. QED BY <3>1, <1>0
  <2>4. Joined(h, a, e, h2, B, F2)
    <3>1. a < e
        BY <1>2
    <3>2. Joined(h, a, e, h2, B \ (a + 1 .. e - 1), F \ (a .. e - 1))
        BY <2>2, <3>1, MergeUses
    <3>3. QED BY <2>3, <3>2
  <2> HIDE DEF F2
  <2>5. Tiling(h2, B, F2) /\ SameRest(h, h2) /\ h2.list = h.list /\ SizesStay(h, h2, B \ {a, h.brk})
    BY <2>4 DEF Joined
  <2>6. Listing(h2, F2)
    <3>1. SizesStay(h, h2, F2)
        BY <2>5, <1>0 DEF SizesStay, F2
    <3>2. QED BY <3>1, <2>5, ListingStays DEF F2
  <2>7. Sound(h2, B, F2)
    BY <2>5, <2>6 DEF Sound, F2, SameRest
  <2>8. SizeAt(h2, a) = SizeAt(h, a)
    <3>1. Adj(B, a, e)
        BY <1>1
    <3>2. QED BY <3>1, <2>5, <1>2, BlockIs
  <2>9. Using(h2, B, F2) = Using(h, B, F) \cup {a}
    BY <2>5, <1>0 DEF Using, F2, SameRest
  <2>10. SizesStay(h, h2, Using(h, B, F) \ {a})
    BY <2>5, <2>8 DEF SizesStay, Using
  <2>11. Changed(h, B, F, h2, B, F2, Using(h, B, F) \cup {a}, a)
    BY <2>5, <2>7, <2>9, <2>10 DEF Changed
  <2>12. QED BY <2>1, <2>2, <2>8, <2>11
<1>6. QED BY <1>4, <1>5

-----------------------------------------------------------------------------
(* Searching                                                               *)

(* No free block that is in list l would do.                               *)
Unfit(h, F, l, size) == \A b \in F : ClassOf(SizeAt(h, b)) = l => SizeAt(h, b) < size

Fits(h, F, s, size) == s \in F /\ SizeAt(h, s) >= size

LEMMA FreeIs ==
    ASSUME NEW h, NEW B, NEW F, Tiling(h, B, F), NEW b \in F
    PROVE  b \in B /\ b # h.brk /\ b # NoBlock /\ b \in Nat /\ SizeAt(h, b) \in Nat /\ SizeAt(h, b) >= 2
<1>1. b \in B /\ b # h.brk
    BY DEF Tiling, Bounds
<1>2. PICK e \in B : Adj(B, b, e)
    BY <1>1, NextPlace DEF Tiling
<1>3. /\ b \in Nat /\ e \in Nat /\ e - b >= 4 /\ b # NoBlock /\ SizeAt(h, b) = e - b - 2
    BY <1>2, BlockIs
<1>4. QED BY <1>1, <1>3

LEMMA SearchIs ==
    ASSUME NEW h, NEW B, NEW F, Tiling(h, B, F), Listing(h, F),
           NEW l \in Lists, NEW amt \in Nat, NEW size \in Nat
    PROVE  /\ Search(h, l, amt, size) # NoBlock => Fits(h, F, Search(h, l, amt, size), size)
           /\ Search(h, l, amt, size) = NoBlock /\ (amt = 0 \/ AllLooked(h, l, amt)) => Unfit(h, F, l, size)
<1> DEFINE q == h.list[l]
           n == Looked(h, l, amt)
           fits == {i \in 1 .. n : SizeAt(h, q[i]) >= size}
<1>1. q \in Seq(Nat) /\ Items(q) = OfClass(h, F, l)
    BY DEF Listing
<1>2. n = (IF amt = 0 THEN Len(q) ELSE IF amt < Len(q) THEN amt ELSE Len(q))
    BY DEF Looked, Lesser
<1>3. Len(q) \in Nat /\ n \in Nat /\ n <= Len(q)
  <2> HIDE DEF n
  <2>1. Len(q) \in Nat
    BY <1>1
  <2> HIDE DEF q
  <2>2. QED BY <2>1, <1>2
<1>4. Search(h, l, amt, size) = IF fits = {} THEN NoBlock ELSE q[Least(fits)]
    BY DEF Search
<1> HIDE DEF n
<1>5. \A i \in 1 .. Len(q) : q[i] \in F /\ ClassOf(SizeAt(h, q[i])) = l
    BY <1>1 DEF Items, OfClass
<1>6. \A b \in F : ClassOf(SizeAt(h, b)) = l => \E i \in 1 .. Len(q) : q[i] = b
  <2> SUFFICES ASSUME NEW b \in F, ClassOf(SizeAt(h, b)) = l PROVE \E i \in 1 .. Len(q) : q[i] = b
    OBVIOUS
  <2>1. b \in Items(q)
    BY <1>1 DEF OfClass
  <2>2. QED BY <2>1 DEF Items
<1> HIDE DEF q
<1>7. CASE fits # {}
  <2>1. fits \subseteq Nat
    BY <1>3
  <2>2. Least(fits) \in fits
    BY <2>1, <1>7, LeastIs
  <2>3. q[Least(fits)] \in F /\ SizeAt(h, q[Least(fits)]) >= size
    BY <2>2, <1>3, <1>5
  <2>4. q[Least(fits)] # NoBlock
    BY <2>3, FreeIs
  <2> HIDE DEF fits
  <2>5. QED BY <2>3, <2>4, <1>4, <1>7 DEF Fits
<1>8. CASE fits = {}
  <2>1. Search(h, l, amt, size) = NoBlock
    BY <1>4, <1>8
  <2>2. ASSUME amt = 0 \/ AllLooked(h, l, amt) PROVE Unfit(h, F, l, size)
    <3>1. n = Len(q)
      <4>1. AllLooked(h, l, amt) => n # amt
        BY DEF AllLooked, n
      <4>2. QED BY <4>1, <2>2, <1>2, <1>3
    <3> SUFFICES ASSUME NEW b \in F, ClassOf(SizeAt(h, b)) = l PROVE SizeAt(h, b) < size
        BY DEF Unfit
    <3>2. PICK i \in 1 .. Len(q) : q[i] = b
        BY <1>6
    <3>3. ~(SizeAt(h, b) >= size)
        BY <3>1, <3>2, <1>8
    <3>4. SizeAt(h, b) \in Nat
        BY FreeIs
    <3>5. QED BY <3>3, <3>4
  <2>3. QED BY <2>1, <2>2
<1>9. QED BY <1>7, <1>8

LEMMA ClassIs == \A n : ClassOf(n) \in Lists
BY DEF ClassOf, Lists

(* What the two searches before memory is asked for tell.                  *)
LEMMA FirstSearchIs ==
    ASSUME NEW h, NEW B, NEW F, Tiling(h, B, F), Listing(h, F), NEW size \in Nat,
           NEW s, s = FirstSearch(h, size)
    PROVE  /\ s # NoBlock => Fits(h, F, s, size)
           /\ s = NoBlock => /\ size < Cutoff /\ AllLooked(h, "small", SmallAmt) => Unfit(h, F, "small", size)
                             /\ AllLooked(h, "large", LargeAmt) => Unfit(h, F, "large", size)
<1> DEFINE small == Search(h, "small", SmallAmt, size)
           large == Search(h, "large", LargeAmt, size)
<1>1. /\ small # NoBlock => Fits(h, F, small, size)
      /\ small = NoBlock /\ AllLooked(h, "small", SmallAmt) => Unfit(h, F, "small", size)
  <2>1. "small" \in Lists /\ SmallAmt \in Nat
    BY HeapAssumption DEF Lists
  <2>2. QED BY <2>1, SearchIs
<1>2. /\ large # NoBlock => Fits(h, F, large, size)
      /\ large = NoBlock /\ AllLooked(h, "large", LargeAmt) => Unfit(h, F, "large", size)
  <2>1. "large" \in Lists /\ LargeAmt \in Nat
    BY HeapAssumption DEF Lists
  <2>2. QED BY <2>1, SearchIs
<1>3. \/ size < Cutoff /\ small # NoBlock /\ s = small
      \/ (size < Cutoff => small = NoBlock) /\ s = large
    BY DEF FirstSearch
<1> HIDE DEF small, large
<1>4. QED BY <1>1, <1>2, <1>3

(* And the last two, of whole lists.                                       *)
LEMMA LastResortIs ==
    ASSUME NEW h, NEW h1, NEW B, NEW F, Tiling(h1, B, F), Listing(h1, F), NEW size \in Nat,
           NEW s, s = LastResort(h, h1, size)
    PROVE  /\ s # NoBlock => Fits(h1, F, s, size)
           /\ s = NoBlock => /\ size < Cutoff /\ ~AllLooked(h, "small", SmallAmt) => Unfit(h1, F, "small", size)
                             /\ ~AllLooked(h, "large", LargeAmt) => Unfit(h1, F, "large", size)
<1> DEFINE small == Search(h1, "small", 0, size)
           large == Search(h1, "large", 0, size)
<1>1. /\ small # NoBlock => Fits(h1, F, small, size)
      /\ small = NoBlock => Unfit(h1, F, "small", size)
  <2>1. "small" \in Lists /\ 0 \in Nat
    BY DEF Lists
  <2>2. QED BY <2>1, SearchIs
<1>2. /\ large # NoBlock => Fits(h1, F, large, size)
      /\ large = NoBlock => Unfit(h1, F, "large", size)
  <2>1. "large" \in Lists /\ 0 \in Nat
    BY DEF Lists
  <2>2. QED BY <2>1, SearchIs
<1>3. \/ size < Cutoff /\ ~AllLooked(h, "small", SmallAmt) /\ small # NoBlock /\ s = small
      \/ /\ size < Cutoff /\ ~AllLooked(h, "small", SmallAmt) => small = NoBlock
         /\ s = IF ~AllLooked(h, "large", LargeAmt) THEN large ELSE NoBlock
    BY DEF LastResort
<1> HIDE DEF small, large
<1>4. QED BY <1>1, <1>2, <1>3

-----------------------------------------------------------------------------
(* Pages                                                                   *)

Whole(n) == \E k \in Nat : n = Page * k

LEMMA WholeSum ==
    ASSUME NEW m \in Nat, NEW n \in Nat, Whole(m), Whole(n)
    PROVE  Whole(m + n) /\ (m >= n => Whole(m - n)) /\ (n = 0 \/ n >= 4)
<1>0. Page \in Nat /\ Page >= 4
    BY HeapAssumption DEF MinFree
<1>1. PICK i \in Nat : m = Page * i
    BY DEF Whole
<1>2. PICK j \in Nat : n = Page * j
    BY DEF Whole
<1>3. Whole(m + n)
  <2>1. m + n = Page * (i + j) /\ i + j \in Nat
    BY <1>0, <1>1, <1>2
  <2>2. QED BY <2>1 DEF Whole
<1>4. ASSUME m >= n PROVE Whole(m - n)
  <2>1. CASE i >= j
    <3>1. m - n = Page * (i - j) /\ i - j \in Nat
        BY <1>0, <1>1, <1>2, <2>1
    <3>2. QED BY <3>1 DEF Whole
  <2>2. CASE ~(i >= j)
    <3>1. j - i \in Nat /\ j - i >= 1
        BY <2>2
    <3>2. n - m = Page * (j - i)
        BY <1>0, <1>1, <1>2
    <3>3. Page * (j - i) >= Page
        BY <1>0, <3>1
    <3>4. QED BY <3>2, <3>3, <1>0, <1>4
  <2>3. QED BY <2>1, <2>2
<1>5. n = 0 \/ n >= 4
  <2>1. CASE j = 0
    BY <2>1, <1>0, <1>2
  <2>2. CASE j >= 1
    <3>1. Page * j >= Page
        BY <1>0, <2>2
    <3>2. QED BY <3>1, <1>0, <1>2
  <2>3. QED BY <2>1, <2>2
<1>6. QED BY <1>3, <1>4, <1>5

LEMMA UpToPageIs ==
    ASSUME NEW n \in Nat
    PROVE  UpToPage(n) \in Nat /\ Whole(UpToPage(n)) /\ UpToPage(n) >= n
<1>0. Page \in Nat /\ Page >= 4 /\ Page > 0
    BY HeapAssumption DEF MinFree
<1> DEFINE a == n + Page - 1
           d == a \div Page
<1>1. a \in Nat /\ a \in Int
    BY <1>0
<1>2. /\ a % Page \in 0 .. Page - 1 /\ d \in Int
      /\ a = Page * d + (a % Page)
  <2> HIDE DEF a
  <2>1. QED BY <1>0, <1>1, DivMod
<1>3. d \in Nat
  <2> HIDE DEF d, a
  <2>1. CASE d < 0
    <3>1. 0 - d \in Nat /\ 0 - d >= 1
        BY <1>2, <2>1
    <3>2. Page * (0 - d) >= Page
        BY <1>0, <3>1
    <3>3. Page * (0 - d) = 0 - Page * d
        BY <1>0, <1>2
    <3>4. QED BY <1>0, <1>1, <1>2, <3>2, <3>3
  <2>2. QED BY <2>1, <1>2
<1>4. UpToPage(n) = d * Page
    BY DEF UpToPage
<1>5. d * Page = Page * d /\ Page * d \in Nat
  <2> HIDE DEF d
  <2>1. QED BY <1>0, <1>3
<1>6. Page * d >= n
  <2> DEFINE x == Page * d
             y == a % Page
  <2>1. a = x + y /\ y <= Page - 1 /\ y \in Nat /\ x \in Nat /\ a = n + Page - 1
    BY <1>0, <1>2, <1>5
  <2> HIDE DEF x, y, a
  <2>2. x >= n
    BY <2>1, <1>0
  <2>3. QED BY <2>2 DEF x
<1> HIDE DEF d
<1>7. QED BY <1>3, <1>4, <1>5, <1>6 DEF Whole

LEMMA EndWhole == Whole(End)
BY HeapAssumption DEF Whole, End

(* What request_mem may give.                                              *)
LEMMA GrantIs ==
    ASSUME NEW h, h.brk \in Nat, h.brk <= End, Whole(h.brk), NEW size \in Nat, NEW g \in Grants(h, size)
    PROVE  /\ g.got \in Nat /\ (g.got = 0 \/ g.got >= 4) /\ h.brk + g.got <= End /\ Whole(h.brk + g.got)
           /\ g.ok \in BOOLEAN
           /\ FirstSearch(h, size) = NoBlock /\ ~h.exhausted /\ g.ok =>
                 g.got >= size + 2 \/ h.brk + g.got = End
<1> DEFINE up == UpToPage(size + 2)
           left == End - h.brk
           need == Needed(h, size)
<1>0. End \in Nat /\ left \in Nat /\ h.brk + left = End /\ Page \in Nat /\ Page >= 4
  <2>1. End \in Nat
    BY EndIs
  <2>2. QED BY <2>1, HeapAssumption DEF MinFree
<1>1. up \in Nat /\ Whole(up) /\ up >= size + 2
  <2>1. size + 2 \in Nat
    OBVIOUS
  <2>2. QED BY <2>1, UpToPageIs
<1>2. Whole(left)
    BY <1>0, EndWhole, WholeSum
<1>3. need = IF up < left THEN up ELSE left
    BY DEF Needed, Lesser
<1> HIDE DEF up, left, need
<1>4. /\ need \in Nat /\ Whole(need) /\ need <= left
      /\ need >= size + 2 \/ need = left
    BY <1>0, <1>1, <1>2, <1>3
<1>5. /\ g.got \in Nat /\ Whole(g.got) /\ g.got <= left /\ g.ok \in BOOLEAN
      /\ FirstSearch(h, size) = NoBlock /\ ~h.exhausted /\ g.ok => g.got = need
  <2>1. CASE FirstSearch(h, size) # NoBlock \/ h.exhausted
    <3>1. g = [got |-> 0, ok |-> TRUE]
        BY <2>1 DEF Grants
    <3>2. g.got = 0 /\ g.ok = TRUE
        BY <3>1
    <3>3. Whole(0)
      <4>1. 0 = Page * 0 /\ 0 \in Nat
        BY <1>0
      <4>2. QED BY <4>1 DEF Whole
    <3>4. ~(FirstSearch(h, size) = NoBlock /\ ~h.exhausted)
        BY <2>1, Zenon
    <3>5. FirstSearch(h, size) = NoBlock /\ ~h.exhausted /\ g.ok => g.got = need
        BY <3>4, Zenon
    <3>6. g.got = 0
        BY <3>2
    <3>7. g.got \in Nat /\ Whole(g.got) /\ g.got <= left
        BY <3>6, <3>3, <1>0
    <3>8. g.ok \in BOOLEAN
        BY <3>2, Zenon
    <3>9. QED BY <3>5, <3>7, <3>8, Zenon
  <2>2. CASE ~(FirstSearch(h, size) # NoBlock \/ h.exhausted)
    <3>1. \/ g = [got |-> need, ok |-> TRUE]
          \/ \E n \in {k \in 0 .. HeapPages : k * Page < need} : g = [got |-> n * Page, ok |-> FALSE]
        BY <2>2 DEF Grants, need
    <3>2. CASE g = [got |-> need, ok |-> TRUE]
      <4>1. g.got = need /\ g.ok = TRUE
        BY <3>2
      <4>2. QED BY <4>1, <1>4
    <3>3. CASE \E n \in {k \in 0 .. HeapPages : k * Page < need} : g = [got |-> n * Page, ok |-> FALSE]
      <4>1. PICK n \in 0 .. HeapPages : n * Page < need /\ g = [got |-> n * Page, ok |-> FALSE]
        BY <3>3
      <4>2. g.got = n * Page /\ g.ok = FALSE
        BY <4>1
      <4>3. n \in Nat
        BY HeapAssumption
      <4>4. n * Page = Page * n /\ n * Page \in Nat
        BY <4>3, <1>0
      <4>5. Whole(g.got)
        BY <4>2, <4>3, <4>4 DEF Whole
      <4>6. g.got <= left
        BY <4>1, <4>2, <4>4, <1>4, <1>0
      <4>7. QED BY <4>2, <4>4, <4>5, <4>6
    <3>4. QED BY <3>1, <3>2, <3>3
  <2>3. QED BY <2>1, <2>2
<1>6. Whole(h.brk + g.got) /\ (g.got = 0 \/ g.got >= 4)
    BY <1>5, WholeSum
<1>7. h.brk + g.got <= End
    BY <1>0, <1>5
<1>8. FirstSearch(h, size) = NoBlock /\ ~h.exhausted /\ g.ok => g.got >= size + 2 \/ h.brk + g.got = End
    BY <1>0, <1>4, <1>5
<1>9. QED BY <1>5, <1>6, <1>7, <1>8

(* The heap after memory was given: the new block is in no list.           *)
Growth(h, B, F, g, h2, B2, F2, new) ==
    /\ IsHeap(h2) /\ Tiling(h2, B2, F2) /\ Listing(h2, F2 \ {new}) /\ Apart(B2, F2) /\ new \in F2
    /\ h2.brk = h.brk + g.got /\ h2.users = h.users /\ h2.exhausted = (h.exhausted \/ ~g.ok)
    /\ Using(h2, B2, F2) = Using(h, B, F)
    /\ F2 \ {new} \subseteq F /\ SizesStay(h, h2, (F2 \ {new}) \cup Using(h, B, F))
    /\ SizeAt(h2, new) >= g.got - 2

LEMMA GrownOK ==
    ASSUME NEW h, NEW B, NEW F, Sound(h, B, F),
           NEW g, g.got \in Nat, g.got >= 4, h.brk + g.got <= End
    PROVE  \E B2, F2 : Growth(h, B, F, g, Grown(h, g), B2, F2, NewBlock(h, g))
<1>0. /\ h.brk \in Nat /\ B \subseteq Nat /\ h.brk \notin F /\ F \subseteq B /\ h.brk \in B
      /\ IsHeap(h) /\ Tiling(h, B, F) /\ Listing(h, F) /\ Apart(B, F) /\ \A b \in B : b <= h.brk
  <2>1. IsHeap(h) /\ Tiling(h, B, F) /\ Listing(h, F) /\ Apart(B, F)
    BY DEF Sound
  <2>2. QED BY <2>1, InRange DEF Tiling, Bounds
<1>1. PICK top \in Nat : top = h.brk + g.got
    BY <1>0
<1>2. PICK k : k = Raised(h, g)
    OBVIOUS
<1>3. top - h.brk >= 4 /\ top <= End /\ g.got = top - h.brk /\ h.brk < top /\ top \notin B
    BY <1>0, <1>1
<1> DEFINE B1 == B \cup {top}
           F1 == F \cup {h.brk}
<1>4. /\ Tiling(k, B1, F1) /\ Adj(B1, h.brk, top) /\ IsHeap(k)
      /\ k.brk = top /\ k.exhausted = h.exhausted
      /\ k.users = h.users /\ k.list = h.list
      /\ SizesStay(h, k, B \ {h.brk})
  <2>1. Higher(h, B, top, k, B1, F1)
    BY <1>0, <1>2, <1>3, RaiseKeeps
  <2>2. QED BY <2>1 DEF Higher
<1>5. F1 \ {h.brk} = F
    BY <1>0
<1>6. Listing(k, F1 \ {h.brk})
  <2>1. SizesStay(h, k, F)
    BY <1>0, <1>4 DEF SizesStay
  <2>2. QED BY <2>1, <1>0, <1>4, <1>5, ListingStays
<1>7. Apart(B1, F1 \ {h.brk})
  <2> SUFFICES ASSUME NEW b \in B1, NEW c \in B1, Adj(B1, b, c), b \in F, c \in F PROVE FALSE
    BY <1>5 DEF Apart
  <2>1. Adj(B, b, c)
    BY <1>0 DEF Adj
  <2>2. QED BY <2>1, <1>0 DEF Apart
<1>8. PICK h1, B2, F2, new : /\ h1 = Coalesced(k, h.brk) /\ new = MergedFrom(k, h.brk)
                             /\ Merging(k, B1, F1, h.brk, h1, B2, F2, new)
  <2>1. h.brk \in B1 /\ h.brk # k.brk
    BY <1>0, <1>3, <1>4
  <2> HIDE DEF B1, F1
  <2>2. QED BY <2>1, <1>4, <1>6, <1>7, CoalescedOK
<1> DEFINE h2 == Grown(h, g)
<1>9. h2 = [h1 EXCEPT !.exhausted = @ \/ ~g.ok]
  <2>1. g.got # 0
    OBVIOUS
  <2>2. QED BY <2>1, <1>2, <1>8 DEF Grown
<1>10. NewBlock(h, g) = new
  <2>1. g.got # 0
    OBVIOUS
  <2>2. QED BY <2>1, <1>2, <1>8 DEF NewBlock
<1>11. /\ Tiling(h1, B2, F2) /\ Listing(h1, F2 \ {new}) /\ Apart(B2, F2) /\ new \in F2
       /\ IsHeap(h1) /\ h1.brk = top /\ h1.users = h.users /\ h1.exhausted = h.exhausted
       /\ Using(h1, B2, F2) = Using(k, B1, F1) \ {h.brk}
       /\ F2 \ {new} \subseteq F /\ SizesStay(k, h1, B2 \ {new, top})
       /\ SizeAt(h1, new) >= SizeAt(k, h.brk)
    BY <1>4, <1>5, <1>8 DEF Merging, SameRest
<1>12. /\ IsHeap(h2) /\ h2.tag = h1.tag /\ h2.brk = h1.brk /\ h2.users = h1.users /\ h2.list = h1.list
       /\ h2.exhausted = (h.exhausted \/ ~g.ok)
  <2> DEFINE ex == h1.exhausted \/ ~g.ok
  <2>1. h2 = [h1 EXCEPT !.exhausted = ex]
    BY <1>9
  <2>2. ex = (h.exhausted \/ ~g.ok)
    BY <1>11
  <2> HIDE DEF ex, h2
  <2>3. h2 = [tag |-> h1.tag, brk |-> h1.brk, exhausted |-> ex, users |-> h1.users, list |-> h1.list]
    BY <2>1, <1>11, ExhaustedFields
  <2>4. QED BY <2>3, <2>2 DEF IsHeap
<1> HIDE DEF h2
<1>13. Tiling(h2, B2, F2) /\ \A b : SizeAt(h2, b) = SizeAt(h1, b)
    BY <1>11, <1>12 DEF Tiling, Bounds, SizeAt
<1>14. Listing(h2, F2 \ {new})
  <2>1. SizesStay(h1, h2, F2 \ {new})
    BY <1>13 DEF SizesStay
  <2>2. QED BY <2>1, <1>11, <1>12, ListingStays
<1>15. Using(h2, B2, F2) = Using(h, B, F) /\ Using(h2, B2, F2) = Using(h1, B2, F2)
  <2>1. Using(k, B1, F1) \ {h.brk} = Using(h, B, F)
    BY <1>0, <1>3, <1>4 DEF Using
  <2>2. Using(h2, B2, F2) = Using(h1, B2, F2)
    BY <1>12 DEF Using
  <2>3. QED BY <2>1, <2>2, <1>11
<1>16. SizesStay(h, h2, (F2 \ {new}) \cup Using(h, B, F))
  <2> SUFFICES ASSUME NEW b \in (F2 \ {new}) \cup Using(h, B, F) PROVE SizeAt(h2, b) = SizeAt(h, b)
    BY DEF SizesStay
  <2>1. b \in B \ {h.brk}
    BY <1>0, <1>11 DEF Using
  <2>2. b \in B2 \ {new, top}
    <3>1. F2 \subseteq B2 \ {top}
        BY <1>11 DEF Tiling, Bounds
    <3>2. Using(h1, B2, F2) \subseteq B2 \ {new, top}
        BY <1>11 DEF Using
    <3>3. QED BY <3>1, <3>2, <1>15
  <2>3. SizeAt(k, b) = SizeAt(h, b)
    BY <2>1, <1>4 DEF SizesStay
  <2>4. SizeAt(h1, b) = SizeAt(k, b)
    BY <2>2, <1>11 DEF SizesStay
  <2>5. QED BY <2>3, <2>4, <1>13
<1>17. SizeAt(h2, new) >= g.got - 2
  <2>1. SizeAt(k, h.brk) = top - h.brk - 2
    BY <1>4, BlockIs
  <2>2. SizeAt(h2, new) = SizeAt(h1, new)
    BY <1>13
  <2>3. QED BY <2>1, <2>2, <1>3, <1>11
<1>18. Growth(h, B, F, g, h2, B2, F2, new)
  <2> HIDE DEF B1, F1
  <2>1. h2.brk = h.brk + g.got
    BY <1>1, <1>11, <1>12
  <2>2. QED BY <2>1, <1>11, <1>12, <1>13, <1>14, <1>15, <1>16, <1>17 DEF Growth
<1>19. QED BY <1>10, <1>18 DEF h2

-----------------------------------------------------------------------------
(* num_user_blocks                                                         *)

(* Only the count of the blocks in use is another.                         *)
Counted(h, h2, B, F, users) ==
    /\ Sound(h2, B, F) /\ Using(h2, B, F) = Using(h, B, F)
    /\ h2.brk = h.brk /\ h2.exhausted = h.exhausted /\ h2.users = users
    /\ \A b : SizeAt(h2, b) = SizeAt(h, b)

LEMMA CountedIs ==
    ASSUME NEW h, NEW B, NEW F, Sound(h, B, F), NEW users, NEW h2, h2 = [h EXCEPT !.users = users]
    PROVE  Counted(h, h2, B, F, users)
<1>1. IsHeap(h) /\ Tiling(h, B, F) /\ Listing(h, F) /\ Apart(B, F)
    BY DEF Sound
<1>2. h2 = [tag |-> h.tag, brk |-> h.brk, exhausted |-> h.exhausted,
            users |-> users, list |-> h.list]
    BY <1>1, UserFields
<1>3. /\ IsHeap(h2) /\ h2.tag = h.tag /\ h2.brk = h.brk /\ h2.exhausted = h.exhausted
      /\ h2.list = h.list /\ h2.users = users
    BY <1>2 DEF IsHeap
<1>4. Tiling(h2, B, F) /\ Using(h2, B, F) = Using(h, B, F)
    BY <1>1, <1>3 DEF Tiling, Bounds, Using
<1>5. \A b : SizeAt(h2, b) = SizeAt(h, b)
    BY <1>3 DEF SizeAt
<1>6. Listing(h2, F)
  <2>1. SizesStay(h, h2, F)
    BY <1>5 DEF SizesStay
  <2>2. QED BY <2>1, <1>1, <1>3, ListingStays
<1>7. QED BY <1>1, <1>3, <1>4, <1>5, <1>6 DEF Counted, Sound

(* The block at s, which is in no list, is given to a user.                *)
Served(k, B, F, s, size, r, B2, F2) ==
    /\ r.at = s /\ s \notin Using(k, B, F) /\ Sound(r.heap, B2, F2)
    /\ r.heap.brk = k.brk /\ r.heap.exhausted = k.exhausted /\ r.heap.users = k.users + 1
    /\ Using(r.heap, B2, F2) = Using(k, B, F) \cup {s}
    /\ SizesStay(k, r.heap, Using(k, B, F)) /\ SizeAt(r.heap, s) >= size

LEMMA GrantedOK ==
    ASSUME NEW k, NEW B, NEW F, IsHeap(k), Tiling(k, B, F), NEW s \in F,
           Listing(k, F \ {s}), Apart(B, F \ {s}),
           NEW size \in Nat, size >= 2, SizeAt(k, s) >= size
    PROVE  \E B2, F2 : Served(k, B, F, s, size, Granted(k, s, size), B2, F2)
<1>1. s \in B /\ s # k.brk /\ SizeAt(k, s) \in Nat
    BY FreeIs
<1>2. PICK h1 : h1 = Shrunk(k, s, size)
    OBVIOUS
<1>3. PICK B2, F2 : Changed(k, B, F, h1, B2, F2, Using(k, B, F) \cup {s}, s) /\ SizeAt(h1, s) >= size
  <2>1. size <= SizeAt(k, s)
    BY <1>1
  <2>2. QED BY <1>1, <1>2, <2>1, ShrunkOK
<1>4. /\ Sound(h1, B2, F2) /\ SameRest(k, h1) /\ Using(h1, B2, F2) = Using(k, B, F) \cup {s}
      /\ SizesStay(k, h1, Using(k, B, F) \ {s})
    BY <1>3 DEF Changed
<1>5. s \notin Using(k, B, F)
    BY DEF Using
<1>6. PICK h2 : h2 = [h1 EXCEPT !.users = @ + 1]
    OBVIOUS
<1>7. Counted(h1, h2, B2, F2, h1.users + 1)
    BY <1>4, <1>6, CountedIs
<1>8. Granted(k, s, size) = [at |-> s, heap |-> h2]
    BY <1>2, <1>6 DEF Granted
<1>9. SizesStay(k, h2, Using(k, B, F)) /\ SizeAt(h2, s) >= size
    BY <1>3, <1>4, <1>5, <1>7 DEF Counted, SizesStay
<1>10. /\ Sound(h2, B2, F2) /\ h2.brk = k.brk /\ h2.exhausted = k.exhausted /\ h2.users = k.users + 1
       /\ Using(h2, B2, F2) = Using(k, B, F) \cup {s}
    BY <1>4, <1>7 DEF Counted, SameRest
<1>11. QED BY <1>5, <1>8, <1>9, <1>10 DEF Served

(* The same of a block that is taken from its list.                        *)
LEMMA TakenOK ==
    ASSUME NEW h, NEW B, NEW F, Sound(h, B, F), NEW s, NEW size \in Nat, size >= 2, Fits(h, F, s, size)
    PROVE  \E B2, F2 : Served(h, B, F, s, size, Granted(Unlisted(h, {s}), s, size), B2, F2)
<1>1. IsHeap(h) /\ Tiling(h, B, F) /\ Listing(h, F) /\ Apart(B, F) /\ s \in F /\ SizeAt(h, s) >= size
    BY DEF Sound, Fits
<1>2. PICK k : k = Unlisted(h, {s})
    OBVIOUS
<1>3. SameTags(h, k) /\ Listing(k, F \ {s})
    BY <1>1, <1>2, UnlistedKeeps
<1>4. Tiling(k, B, F) /\ IsHeap(k) /\ k.brk = h.brk /\ k.exhausted = h.exhausted /\ k.users = h.users
    BY <1>1, <1>3, SameTiling DEF SameTags, SameRest
<1>5. \A b : SizeAt(k, b) = SizeAt(h, b)
    BY <1>3, SameSizes
<1>6. Apart(B, F \ {s})
    BY <1>1 DEF Apart
<1>7. PICK r, B2, F2 : r = Granted(k, s, size) /\ Served(k, B, F, s, size, r, B2, F2)
    BY <1>1, <1>3, <1>4, <1>5, <1>6, GrantedOK
<1>8. Using(k, B, F) = Using(h, B, F)
    BY <1>4 DEF Using
<1>9. Served(h, B, F, s, size, r, B2, F2)
    BY <1>4, <1>5, <1>7, <1>8 DEF Served, SizesStay
<1>10. QED BY <1>2, <1>7, <1>9

-----------------------------------------------------------------------------
(* shal_malloc                                                             *)

(* No free block would do, and no more memory is to be had.                *)
Full(h, F, size) ==
    /\ \A b \in F : SizeAt(h, b) < size
    /\ h.exhausted \/ h.brk = End

(* The answer to a request: a block that nobody used, or none at all.      *)
Answered(h, B, F, size, r, B2, F2) ==
    /\ Sound(r.heap, B2, F2) /\ Whole(r.heap.brk) /\ r.heap.exhausted \in BOOLEAN
    /\ SizesStay(h, r.heap, Using(h, B, F))
    /\ \/ /\ r.at = NoBlock /\ r.heap.users = h.users /\ Using(r.heap, B2, F2) = Using(h, B, F)
          /\ Full(r.heap, F2, size)
       \/ /\ r.at # NoBlock /\ r.heap.users = h.users + 1
          /\ r.at \notin Using(h, B, F) /\ Using(r.heap, B2, F2) = Using(h, B, F) \cup {r.at}
          /\ SizeAt(r.heap, r.at) >= size

(* The heap in which the block is found serves the same users.             *)
SameUsers(h, B, F, k, B1, F1) ==
    /\ Using(k, B1, F1) = Using(h, B, F) /\ k.users = h.users /\ SizesStay(h, k, Using(h, B, F))
    /\ Whole(k.brk) /\ k.exhausted \in BOOLEAN

LEMMA ServedAnswers ==
    ASSUME NEW h, NEW B, NEW F, NEW k, NEW B1, NEW F1, SameUsers(h, B, F, k, B1, F1),
           NEW s, s # NoBlock, NEW size, NEW r, NEW B2, NEW F2, Served(k, B1, F1, s, size, r, B2, F2)
    PROVE  Answered(h, B, F, size, r, B2, F2)
<1>1. /\ r.at = s /\ s \notin Using(k, B1, F1) /\ Sound(r.heap, B2, F2)
      /\ r.heap.brk = k.brk /\ r.heap.exhausted = k.exhausted /\ r.heap.users = k.users + 1
      /\ Using(r.heap, B2, F2) = Using(k, B1, F1) \cup {s}
      /\ SizesStay(k, r.heap, Using(k, B1, F1)) /\ SizeAt(r.heap, s) >= size
    BY DEF Served
<1>2. /\ Using(k, B1, F1) = Using(h, B, F) /\ k.users = h.users /\ SizesStay(h, k, Using(h, B, F))
      /\ Whole(k.brk) /\ k.exhausted \in BOOLEAN
    BY DEF SameUsers
<1>3. SizesStay(h, r.heap, Using(h, B, F))
    BY <1>1, <1>2 DEF SizesStay
<1>4. r.heap.exhausted \in BOOLEAN
    BY <1>1, <1>2, Zenon
<1>5. Whole(r.heap.brk)
    BY <1>1, <1>2
<1>6. QED BY <1>1, <1>2, <1>3, <1>4, <1>5 DEF Answered

(* The heap after memory was given that does not suffice.                  *)
Later(h, B, F, size, g, h1, B1, F1) ==
    /\ Sound(h1, B1, F1) /\ h1.brk = h.brk + g.got
    /\ h1.exhausted = (h.exhausted \/ ~g.ok) /\ h1.users = h.users
    /\ Using(h1, B1, F1) = Using(h, B, F) /\ SizesStay(h, h1, Using(h, B, F))
    /\ \A b \in F1 : SizeAt(h1, b) < size \/ (b \in F /\ SizeAt(h1, b) = SizeAt(h, b))
    /\ ~(g.got >= size + 2)

LEMMA NothingGiven ==
    ASSUME NEW h, NEW B, NEW F, Sound(h, B, F), NEW g, g.got = 0, NEW size \in Nat
    PROVE  NewBlock(h, g) = NoBlock /\ Later(h, B, F, size, g, Grown(h, g), B, F)
<1>1. NewBlock(h, g) = NoBlock
    BY DEF NewBlock
<1>2. IsHeap(h) /\ Tiling(h, B, F) /\ Listing(h, F) /\ Apart(B, F)
    BY DEF Sound
<1> DEFINE ex == h.exhausted \/ ~g.ok
           h2 == Grown(h, g)
<1>3. h2 = [h EXCEPT !.exhausted = ex]
    BY DEF Grown
<1> HIDE DEF ex, h2
<1>4. h2 = [tag |-> h.tag, brk |-> h.brk, exhausted |-> ex, users |-> h.users, list |-> h.list]
    BY <1>2, <1>3, ExhaustedFields
<1>5. /\ IsHeap(h2) /\ h2.tag = h.tag /\ h2.brk = h.brk /\ h2.users = h.users /\ h2.list = h.list
      /\ h2.exhausted = ex
    BY <1>4 DEF IsHeap
<1>6. Tiling(h2, B, F) /\ Using(h2, B, F) = Using(h, B, F)
    BY <1>2, <1>5 DEF Tiling, Bounds, Using
<1>7. \A b : SizeAt(h2, b) = SizeAt(h, b)
    BY <1>5 DEF SizeAt
<1>8. Listing(h2, F)
  <2>1. SizesStay(h, h2, F)
    BY <1>7 DEF SizesStay
  <2>2. QED BY <2>1, <1>2, <1>5, ListingStays
<1>9. Sound(h2, B, F)
    BY <1>2, <1>5, <1>6, <1>8 DEF Sound
<1>10. h2.brk = h.brk + g.got /\ ~(g.got >= size + 2)
  <2>1. h.brk \in Nat
    BY <1>2, InRange DEF Tiling
  <2>2. QED BY <2>1, <1>5
<1>11. SizesStay(h, h2, Using(h, B, F))
    BY <1>7 DEF SizesStay
<1>12. \A b \in F : SizeAt(h2, b) < size \/ (b \in F /\ SizeAt(h2, b) = SizeAt(h, b))
    BY <1>7
<1>13. h2.exhausted = (h.exhausted \/ ~g.ok)
    BY <1>5 DEF ex
<1>14. Later(h, B, F, size, g, h2, B, F)
    BY <1>5, <1>6, <1>9, <1>10, <1>11, <1>12, <1>13, Zenon DEF Later
<1>15. QED BY <1>1, <1>14 DEF h2

LEMMA NotEnough ==
    ASSUME NEW h, NEW B, NEW F, Sound(h, B, F), NEW g, g.got \in Nat, NEW size \in Nat,
           NEW k, NEW B1, NEW F1, NEW new, Growth(h, B, F, g, k, B1, F1, new), ~(SizeAt(k, new) >= size)
    PROVE  Later(h, B, F, size, g, Listed(k, new), B1, F1)
<1> DEFINE h1 == Listed(k, new)
<1>1. /\ IsHeap(k) /\ Tiling(k, B1, F1) /\ Listing(k, F1 \ {new}) /\ Apart(B1, F1) /\ new \in F1
      /\ k.brk = h.brk + g.got /\ k.users = h.users /\ k.exhausted = (h.exhausted \/ ~g.ok)
      /\ Using(k, B1, F1) = Using(h, B, F)
      /\ F1 \ {new} \subseteq F /\ SizesStay(h, k, (F1 \ {new}) \cup Using(h, B, F))
      /\ SizeAt(k, new) >= g.got - 2
    BY Zenon DEF Growth
<1>2. new \in Nat /\ SizeAt(k, new) \in Nat
    BY <1>1, FreeIs
<1>3. SameTags(k, h1) /\ Listing(h1, F1)
  <2> DEFINE L == F1 \ {new}
  <2>1. Listing(k, L) /\ new \notin L /\ L \cup {new} = F1
    BY <1>1
  <2> HIDE DEF L
  <2>2. SameTags(k, h1) /\ Listing(h1, L \cup {new})
    BY <1>1, <1>2, <2>1, ListedKeeps
  <2>3. QED BY <2>1, <2>2
<1> HIDE DEF h1
<1>4. /\ IsHeap(h1) /\ h1.brk = k.brk /\ h1.users = k.users /\ h1.exhausted = k.exhausted
    BY <1>3 DEF SameTags, SameRest
<1>5. Tiling(h1, B1, F1) /\ \A b : SizeAt(h1, b) = SizeAt(k, b)
    BY <1>1, <1>3, SameTiling, SameSizes
<1>6. Sound(h1, B1, F1)
    BY <1>1, <1>3, <1>4, <1>5 DEF Sound
<1>7. Using(h1, B1, F1) = Using(h, B, F) /\ SizesStay(h, h1, Using(h, B, F))
    BY <1>1, <1>4, <1>5 DEF Using, SizesStay
<1>8. ASSUME NEW b \in F1 PROVE SizeAt(h1, b) < size \/ (b \in F /\ SizeAt(h1, b) = SizeAt(h, b))
  <2>1. CASE b = new
    BY <2>1, <1>2, <1>5
  <2>2. CASE b # new
    BY <2>2, <1>1, <1>5 DEF SizesStay
  <2>3. QED BY <2>1, <2>2
<1>9. ~(g.got >= size + 2)
    BY <1>1, <1>2
<1>10. h1.brk = h.brk + g.got /\ h1.users = h.users
    BY <1>1, <1>4
<1>11. h1.exhausted = (h.exhausted \/ ~g.ok)
    BY <1>1, <1>4, Zenon
<1>12. Later(h, B, F, size, g, h1, B1, F1)
    BY <1>6, <1>7, <1>8, <1>9, <1>10, <1>11, Zenon DEF Later
<1>13. QED BY <1>12 DEF h1

(* When all searches failed, no free block would do.                       *)
LEMMA AllSearched ==
    ASSUME NEW h, NEW B, NEW F, Sound(h, B, F), NEW size \in Nat, FirstSearch(h, size) = NoBlock,
           NEW g, NEW h1, NEW B1, NEW F1, Later(h, B, F, size, g, h1, B1, F1),
           LastResort(h, h1, size) = NoBlock
    PROVE  \A b \in F1 : SizeAt(h1, b) < size
<1> SUFFICES ASSUME NEW b \in F1 PROVE SizeAt(h1, b) < size
    OBVIOUS
<1>1. Tiling(h, B, F) /\ Listing(h, F) /\ Tiling(h1, B1, F1) /\ Listing(h1, F1)
    BY DEF Sound, Later
<1>2. SizeAt(h1, b) < size \/ (b \in F /\ SizeAt(h1, b) = SizeAt(h, b))
    BY DEF Later
<1>3. SizeAt(h1, b) \in Nat
    BY <1>1, FreeIs
<1>4. /\ size < Cutoff /\ AllLooked(h, "small", SmallAmt) => Unfit(h, F, "small", size)
      /\ AllLooked(h, "large", LargeAmt) => Unfit(h, F, "large", size)
    BY <1>1, FirstSearchIs
<1>5. /\ size < Cutoff /\ ~AllLooked(h, "small", SmallAmt) => Unfit(h1, F1, "small", size)
      /\ ~AllLooked(h, "large", LargeAmt) => Unfit(h1, F1, "large", size)
    BY <1>1, LastResortIs
<1>6. ASSUME NEW l \in Lists, ClassOf(SizeAt(h1, b)) = l, Unfit(h, F, l, size) \/ Unfit(h1, F1, l, size)
      PROVE  SizeAt(h1, b) < size
    BY <1>2, <1>6 DEF Unfit
<1>7. CASE SizeAt(h1, b) < Cutoff
  <2>1. ClassOf(SizeAt(h1, b)) = "small" /\ "small" \in Lists
    BY <1>7 DEF ClassOf, Lists
  <2>2. CASE size < Cutoff
    BY <2>1, <2>2, <1>4, <1>5, <1>6
  <2>3. CASE ~(size < Cutoff)
    BY <2>3, <1>7, <1>3, HeapAssumption
  <2>4. QED BY <2>2, <2>3
<1>8. CASE ~(SizeAt(h1, b) < Cutoff)
  <2>1. ClassOf(SizeAt(h1, b)) = "large" /\ "large" \in Lists
    BY <1>8 DEF ClassOf, Lists
  <2>2. QED BY <2>1, <1>4, <1>5, <1>6
<1>9. QED BY <1>7, <1>8

LEMMA MallocOK ==
    ASSUME NEW h, NEW B, NEW F, Sound(h, B, F), Whole(h.brk), h.exhausted \in BOOLEAN,
           NEW size \in Nat, size >= 2, NEW g \in Grants(h, size)
    PROVE  \E B2, F2 : Answered(h, B, F, size, Malloc(h, size, g), B2, F2)
<1>1. IsHeap(h) /\ Tiling(h, B, F) /\ Listing(h, F) /\ Apart(B, F)
    BY DEF Sound
<1>2. h.brk \in Nat /\ h.brk <= End
    BY <1>1, InRange DEF Tiling
<1>3. /\ g.got \in Nat /\ (g.got = 0 \/ g.got >= 4) /\ h.brk + g.got <= End /\ Whole(h.brk + g.got)
      /\ g.ok \in BOOLEAN
      /\ FirstSearch(h, size) = NoBlock /\ ~h.exhausted /\ g.ok =>
            g.got >= size + 2 \/ h.brk + g.got = End
    BY <1>2, GrantIs, Zenon
<1>4. PICK found : found = FirstSearch(h, size)
    OBVIOUS
<1>5. CASE found # NoBlock
  <2>1. Fits(h, F, found, size)
    BY <1>1, <1>4, <1>5, FirstSearchIs
  <2>2. PICK r, B2, F2 : /\ r = Granted(Unlisted(h, {found}), found, size)
                         /\ Served(h, B, F, found, size, r, B2, F2)
    BY <2>1, TakenOK
  <2>3. SameUsers(h, B, F, h, B, F)
    BY DEF SameUsers, SizesStay
  <2>4. Answered(h, B, F, size, r, B2, F2)
    BY <2>2, <2>3, <1>5, ServedAnswers
  <2>5. Malloc(h, size, g) = r
    BY <2>2, <1>4, <1>5 DEF Malloc
  <2>6. QED BY <2>4, <2>5
<1>6. CASE found = NoBlock
  <2>1. PICK new : new = NewBlock(h, g)
    OBVIOUS
  <2>2. PICK grown : grown = Grown(h, g)
    OBVIOUS
  <2>3. PICK h1 : h1 = IF new = NoBlock THEN grown ELSE Listed(grown, new)
    OBVIOUS
  <2>4. PICK last : last = LastResort(h, h1, size)
    OBVIOUS
  <2>5. Malloc(h, size, g) = IF new # NoBlock /\ SizeAt(grown, new) >= size THEN Granted(grown, new, size)
                             ELSE IF last # NoBlock THEN Granted(Unlisted(h1, {last}), last, size)
                             ELSE [at |-> NoBlock, heap |-> h1]
    BY <2>1, <2>2, <2>3, <2>4, <1>4, <1>6 DEF Malloc
  <2>6. CASE new # NoBlock /\ SizeAt(grown, new) >= size
    <3>1. g.got >= 4
        BY <2>1, <2>6, <1>3 DEF NewBlock
    <3>2. PICK B1, F1 : Growth(h, B, F, g, grown, B1, F1, new)
        BY <2>1, <2>2, <3>1, <1>3, GrownOK
    <3>3. /\ IsHeap(grown) /\ Tiling(grown, B1, F1) /\ Listing(grown, F1 \ {new}) /\ Apart(B1, F1) /\ new \in F1
          /\ grown.brk = h.brk + g.got /\ grown.users = h.users /\ Using(grown, B1, F1) = Using(h, B, F)
          /\ SizesStay(h, grown, (F1 \ {new}) \cup Using(h, B, F))
        BY <3>2 DEF Growth
    <3>4. grown.exhausted = (h.exhausted \/ ~g.ok)
        BY <3>2, Zenon DEF Growth
    <3>5. SameUsers(h, B, F, grown, B1, F1)
      <4>1. grown.exhausted \in BOOLEAN
        BY <3>4, Zenon
      <4>2. Whole(grown.brk) /\ SizesStay(h, grown, Using(h, B, F))
        BY <3>3, <1>3 DEF SizesStay
      <4>3. QED BY <4>1, <4>2, <3>3 DEF SameUsers
    <3>6. PICK r, B2, F2 : r = Granted(grown, new, size) /\ Served(grown, B1, F1, new, size, r, B2, F2)
      <4>1. Apart(B1, F1 \ {new})
        BY <3>3 DEF Apart
      <4>2. QED BY <4>1, <3>3, <2>6, GrantedOK
    <3>7. Answered(h, B, F, size, r, B2, F2)
        BY <3>5, <3>6, <2>6, ServedAnswers
    <3>8. QED BY <3>6, <3>7, <2>5, <2>6
  <2>7. CASE ~(new # NoBlock /\ SizeAt(grown, new) >= size)
    <3>1. PICK B1, F1 : Later(h, B, F, size, g, h1, B1, F1)
      <4>1. CASE g.got = 0
        <5>1. NewBlock(h, g) = NoBlock /\ Later(h, B, F, size, g, Grown(h, g), B, F)
            BY <4>1, NothingGiven
        <5>2. h1 = Grown(h, g)
            BY <5>1, <2>1, <2>2, <2>3
        <5>3. QED BY <5>1, <5>2
      <4>2. CASE g.got >= 4
        <5>1. PICK B1, F1 : Growth(h, B, F, g, grown, B1, F1, new)
            BY <2>1, <2>2, <4>2, <1>3, GrownOK
        <5>2. new # NoBlock
          <6>1. Tiling(grown, B1, F1) /\ new \in F1
            BY <5>1 DEF Growth
          <6>2. QED BY <6>1, FreeIs
        <5>3. Later(h, B, F, size, g, Listed(grown, new), B1, F1)
            BY <5>1, <5>2, <2>7, <1>3, NotEnough
        <5>4. QED BY <5>2, <5>3, <2>3
      <4>3. QED BY <4>1, <4>2, <1>3
    <3>2. /\ Sound(h1, B1, F1) /\ h1.brk = h.brk + g.got /\ h1.users = h.users
          /\ Using(h1, B1, F1) = Using(h, B, F) /\ SizesStay(h, h1, Using(h, B, F)) /\ ~(g.got >= size + 2)
        BY <3>1 DEF Later
    <3>3. h1.exhausted = (h.exhausted \/ ~g.ok)
        BY <3>1, Zenon DEF Later
    <3>4. h1.exhausted \in BOOLEAN /\ Whole(h1.brk)
      <4>1. h1.exhausted \in BOOLEAN
        BY <3>3, Zenon
      <4>2. Whole(h1.brk)
        BY <3>2, <1>3
      <4>3. QED BY <4>1, <4>2
    <3>5. CASE last # NoBlock
      <4>1. Fits(h1, F1, last, size)
        <5>1. Tiling(h1, B1, F1) /\ Listing(h1, F1)
            BY <3>2 DEF Sound
        <5>2. QED BY <5>1, <3>5, <2>4, LastResortIs
      <4>2. PICK r, B2, F2 : /\ r = Granted(Unlisted(h1, {last}), last, size)
                             /\ Served(h1, B1, F1, last, size, r, B2, F2)
        BY <4>1, <3>2, TakenOK
      <4>3. SameUsers(h, B, F, h1, B1, F1)
        BY <3>2, <3>4 DEF SameUsers
      <4>4. Answered(h, B, F, size, r, B2, F2)
        BY <4>2, <4>3, <3>5, ServedAnswers
      <4>5. QED BY <4>2, <4>4, <3>5, <2>5, <2>7
    <3>6. CASE last = NoBlock
      <4>1. \A b \in F1 : SizeAt(h1, b) < size
        BY <3>1, <3>6, <2>4, <1>4, <1>6, AllSearched
      <4>2. h1.exhausted \/ h1.brk = End
        <5>1. CASE h.exhausted \/ ~g.ok
            BY <5>1, <3>3, Zenon
        <5>2. CASE ~(h.exhausted \/ ~g.ok)
          <6>1. g.got >= size + 2 \/ h.brk + g.got = End
            BY <5>2, <1>3, <1>4, <1>6, Zenon
          <6>2. QED BY <6>1, <3>2
        <5>3. QED BY <5>1, <5>2
      <4>3. PICK r : r = [at |-> NoBlock, heap |-> h1]
        OBVIOUS
      <4>4. r.at = NoBlock /\ r.heap = h1
        BY <4>3
      <4>5. Full(h1, F1, size)
        BY <4>1, <4>2 DEF Full
      <4>6. Answered(h, B, F, size, r, B1, F1)
        BY <4>4, <4>5, <3>2, <3>4 DEF Answered
      <4>7. Malloc(h, size, g) = r
        BY <4>3, <3>6, <2>5, <2>7
      <4>8. QED BY <4>6, <4>7
    <3>7. QED BY <3>5, <3>6
  <2>8. QED BY <2>6, <2>7
<1>7. QED BY <1>5, <1>6

-----------------------------------------------------------------------------
(* shal_free and shal_realloc                                              *)

Returned(h, B, F, a, h2, B2, F2) ==
    /\ Sound(h2, B2, F2) /\ h2.brk = h.brk /\ h2.exhausted = h.exhausted /\ h2.users = h.users - 1
    /\ Using(h2, B2, F2) = Using(h, B, F) \ {a} /\ SizesStay(h, h2, Using(h, B, F) \ {a})

LEMMA GivenBackOK ==
    ASSUME NEW h, NEW B, NEW F, Sound(h, B, F), NEW a \in Using(h, B, F)
    PROVE  \E B2, F2 : Returned(h, B, F, a, GivenBack(h, a), B2, F2)
<1>1. IsHeap(h) /\ Tiling(h, B, F) /\ Listing(h, F) /\ Apart(B, F)
    BY DEF Sound
<1>2. a \in B /\ a # h.brk /\ F \ {a} = F
    BY DEF Using
<1>3. PICK h1 : h1 = Freed(h, a)
    OBVIOUS
<1>4. PICK B2, F2 : Changed(h, B, F, h1, B2, F2, Using(h, B, F) \ {a}, a)
    BY <1>1, <1>2, <1>3, FreedOK
<1>5. PICK h2 : h2 = [h1 EXCEPT !.users = @ - 1]
    OBVIOUS
<1>6. /\ Sound(h1, B2, F2) /\ SameRest(h, h1) /\ Using(h1, B2, F2) = Using(h, B, F) \ {a}
      /\ SizesStay(h, h1, Using(h, B, F) \ {a})
    BY <1>4 DEF Changed
<1>7. Counted(h1, h2, B2, F2, h1.users - 1)
    BY <1>5, <1>6, CountedIs
<1>8. GivenBack(h, a) = h2
    BY <1>3, <1>5 DEF GivenBack
<1>9. Returned(h, B, F, a, h2, B2, F2)
    BY <1>6, <1>7 DEF Counted, SameRest, SizesStay, Returned
<1>10. QED BY <1>8, <1>9

(* The block at a has another size, and is still in use.                   *)
Resized(h, B, F, a, size, h2, B2, F2) ==
    /\ Sound(h2, B2, F2) /\ SameRest(h, h2) /\ Using(h2, B2, F2) = Using(h, B, F)
    /\ SizesStay(h, h2, Using(h, B, F) \ {a}) /\ SizeAt(h2, a) >= size

LEMMA NarrowedOK ==
    ASSUME NEW h, NEW B, NEW F, Sound(h, B, F), NEW a \in Using(h, B, F),
           NEW size \in Nat, size >= 2, size <= SizeAt(h, a)
    PROVE  \E B2, F2 : Resized(h, B, F, a, size, Shrunk(h, a, size), B2, F2)
<1>1. IsHeap(h) /\ Tiling(h, B, F) /\ Listing(h, F) /\ Apart(B, F)
    BY DEF Sound
<1>2. a \in B /\ a # h.brk /\ F \ {a} = F /\ Using(h, B, F) \cup {a} = Using(h, B, F)
    BY DEF Using
<1>3. PICK h2 : h2 = Shrunk(h, a, size)
    OBVIOUS
<1>4. PICK B2, F2 : /\ Changed(h, B, F, h2, B2, F2, Using(h, B, F) \cup {a}, a)
                    /\ SizeAt(h2, a) >= size
    BY <1>1, <1>2, <1>3, ShrunkOK
<1>5. Resized(h, B, F, a, size, h2, B2, F2)
    BY <1>2, <1>4 DEF Changed, Resized
<1>6. QED BY <1>3, <1>5

(* Two neighbours in use have become one.                                  *)
Widened(h, B, F, a, e, c, h2) ==
    /\ Sound(h2, B \ {e}, F) /\ SameRest(h, h2)
    /\ Using(h2, B \ {e}, F) = Using(h, B, F) \ {e}
    /\ SizesStay(h, h2, Using(h, B, F) \ {a, e}) /\ SizeAt(h2, a) = c - a - 2

LEMMA BothJoined ==
    ASSUME NEW h, NEW B, NEW F, Sound(h, B, F), NEW a \in Using(h, B, F), NEW e \in Using(h, B, F),
           NEW c, Adj(B, a, e), Adj(B, e, c)
    PROVE  Widened(h, B, F, a, e, c, Tagged(h, a, c - a - 2, TRUE))
<1>0. PICK h2 : h2 = Tagged(h, a, c - a - 2, TRUE)
    OBVIOUS
<1>1. IsHeap(h) /\ Tiling(h, B, F) /\ Listing(h, F) /\ Apart(B, F)
    BY DEF Sound
<1>2. /\ h.brk \in Nat /\ B \subseteq Nat /\ F \subseteq B \ {h.brk}
    BY <1>1, InRange DEF Tiling, Bounds
<1>3. /\ a \in B /\ e \in B /\ c \in B /\ a < e /\ e < c /\ a \notin F /\ e \notin F
      /\ a \in Nat /\ e \in Nat /\ c \in Nat /\ e # h.brk /\ a # h.brk
      /\ \A x \in B : (x <= a \/ x >= e) /\ (x <= e \/ x >= c)
    BY <1>2 DEF Adj, Using
<1>4. B \ (a + 1 .. c - 1) = B \ {e}
  <2>1. \A x \in B : x \in a + 1 .. c - 1 <=> x = e
    BY <1>2, <1>3
  <2>2. QED BY <2>1
<1>5. F \ (a .. c - 1) = F
  <2>1. \A x \in F : x \notin a .. c - 1
    BY <1>2, <1>3
  <2>2. QED BY <2>1
<1> DEFINE B2 == B \ {e}
<1>6. /\ Tiling(h2, B2, F) /\ Adj(B2, a, c) /\ SameRest(h, h2) /\ h2.list = h.list
      /\ SizesStay(h, h2, B2 \ {a, h.brk})
  <2>1. a < c
    BY <1>3
  <2>2. Joined(h, a, c, h2, B \ (a + 1 .. c - 1), F \ (a .. c - 1))
    BY <1>0, <1>1, <1>3, <2>1, MergeUses
  <2>3. QED BY <2>2, <1>4, <1>5 DEF Joined
<1>7. h2.brk = h.brk
    BY <1>6 DEF SameRest
<1>8. Listing(h2, F)
  <2>1. SizesStay(h, h2, F)
    BY <1>2, <1>3, <1>6 DEF SizesStay
  <2>2. QED BY <2>1, <1>1, <1>6, ListingStays
<1>9. Apart(B2, F)
  <2> SUFFICES ASSUME NEW b \in B2, NEW d \in B2, Adj(B2, b, d), b \in F, d \in F PROVE FALSE
    BY DEF Apart
  <2>1. b < d /\ b \in Nat /\ d \in Nat /\ a \in B2 /\ b # a /\ d # a /\ (a <= b \/ a >= d)
    BY <1>2, <1>3 DEF Adj
  <2>2. e <= b \/ e >= d
    BY <2>1, <1>3
  <2>3. Adj(B, b, d)
    BY <2>1, <2>2 DEF Adj
  <2>4. QED BY <2>3, <1>1 DEF Apart
<1>10. Sound(h2, B2, F)
    BY <1>6, <1>8, <1>9 DEF Sound, SameRest
<1>11. Using(h2, B2, F) = Using(h, B, F) \ {e}
    BY <1>7 DEF Using
<1>12. SizesStay(h, h2, Using(h, B, F) \ {a, e})
    BY <1>6 DEF SizesStay, Using
<1>13. SizeAt(h2, a) = c - a - 2
  <2> HIDE DEF B2
  <2>1. Tiling(h2, B2, F) /\ Adj(B2, a, c)
    BY <1>6
  <2>2. QED BY <2>1, BlockIs
<1>14. Widened(h, B, F, a, e, c, h2)
    BY <1>6, <1>10, <1>11, <1>12, <1>13 DEF Widened
<1>15. QED BY <1>0, <1>14

(* The free block behind the one at a, of which a part is taken.           *)
LEMMA StretchedOK ==
    ASSUME NEW h, NEW B, NEW F, Sound(h, B, F), NEW a \in Using(h, B, F),
           NEW size \in Nat, size > SizeAt(h, a), size <= SizeAt(h, a) + Gain(h, a)
    PROVE  \E B2, F2 : Resized(h, B, F, a, size, Stretched(h, a, size), B2, F2)
<1>1. IsHeap(h) /\ Tiling(h, B, F) /\ Listing(h, F) /\ Apart(B, F)
    BY DEF Sound
<1>2. a \in B /\ a # h.brk /\ a \notin F
    BY DEF Using
<1>3. PICK e \in B : Adj(B, a, e)
    BY <1>1, <1>2, NextPlace DEF Tiling
<1>4. /\ a \in Nat /\ e \in Nat /\ e - a >= 4 /\ SizeAt(h, a) = e - a - 2 /\ SizeAt(h, a) \in Nat
      /\ NextBlock(h, a) = IF e < h.brk THEN e ELSE NoBlock
    BY <1>1, <1>3, BlockIs
<1>5. IsFree(h, NextBlock(h, a))
  <2>1. Gain(h, a) # 0
    BY <1>4
  <2>2. QED BY <2>1 DEF Gain
<1>6. NextBlock(h, a) = e /\ e # h.brk /\ e \in F
  <2>1. NextBlock(h, a) = e /\ e < h.brk
    BY <1>4, <1>5 DEF IsFree
  <2>2. h.brk \in Nat
    BY <1>1, InRange DEF Tiling
  <2>3. e # h.brk
    BY <2>1, <2>2, <1>4
  <2>4. PICK c \in B : Adj(B, e, c)
    BY <1>1, <2>3, NextPlace DEF Tiling
  <2>5. Allocated(h, e) = (e \notin F)
    BY <1>1, <2>4, BlockIs
  <2>6. QED BY <1>5, <2>1, <2>3, <2>5 DEF IsFree
<1>7. Gain(h, a) = SizeAt(h, e) + 2 /\ SizeAt(h, e) \in Nat /\ SizeAt(h, e) >= 2
  <2>1. Gain(h, a) = SizeAt(h, e) + 2
    BY <1>5, <1>6 DEF Gain
  <2>2. QED BY <2>1, <1>1, <1>6, FreeIs
<1>8. PICK k : k = Unlisted(h, {e})
    OBVIOUS
<1>9. SameTags(h, k) /\ Listing(k, F \ {e})
    BY <1>1, <1>8, UnlistedKeeps
<1>10. Tiling(k, B, F) /\ SameRest(h, k) /\ IsHeap(k) /\ k.brk = h.brk
    BY <1>1, <1>9, SameTiling DEF SameTags, SameRest
<1>11. \A b : SizeAt(k, b) = SizeAt(h, b)
    BY <1>9, SameSizes
<1> DEFINE more == size - SizeAt(h, a)
<1>12. PICK want : want = Valid(IF more > 2 THEN more - 2 ELSE 0)
    OBVIOUS
<1>13. want \in Nat /\ want >= 2 /\ want <= SizeAt(k, e) /\ want + 2 >= more
  <2>1. more \in Nat /\ more <= SizeAt(h, e) + 2 /\ SizeAt(k, e) = SizeAt(h, e)
    BY <1>4, <1>7, <1>11
  <2> HIDE DEF more
  <2>2. QED BY <2>1, <1>7, <1>12 DEF Valid, MinFree
<1>14. Apart(B, F \ {e})
    BY <1>1 DEF Apart
<1>15. PICK h1 : h1 = Shrunk(k, e, want)
    OBVIOUS
<1>16. PICK B1, F1 : Changed(k, B, F, h1, B1, F1, Using(k, B, F) \cup {e}, e) /\ SizeAt(h1, e) >= want
    BY <1>6, <1>9, <1>10, <1>13, <1>14, <1>15, ShrunkOK
<1>17. /\ Sound(h1, B1, F1) /\ SameRest(h, h1) /\ Using(h1, B1, F1) = Using(h, B, F) \cup {e}
       /\ SizesStay(h, h1, Using(h, B, F))
  <2>1. Using(k, B, F) = Using(h, B, F) /\ e \notin Using(h, B, F)
    BY <1>6, <1>10 DEF Using
  <2>2. QED BY <2>1, <1>10, <1>11, <1>16 DEF Changed, SameRest, SizesStay
<1>18. /\ Tiling(h1, B1, F1) /\ B1 \subseteq Nat /\ a \in B1 /\ e \in B1 /\ a # h1.brk /\ e # h1.brk
  <2>1. Tiling(h1, B1, F1)
    BY <1>17 DEF Sound
  <2>2. a \in Using(h1, B1, F1) /\ e \in Using(h1, B1, F1)
    BY <1>17
  <2>3. B1 \subseteq Nat
    BY <2>1, InRange DEF Tiling
  <2>4. QED BY <2>1, <2>2, <2>3 DEF Using
<1>19. Adj(B1, a, e)
  <2>1. PICK d \in B1 : Adj(B1, a, d)
    BY <1>18, NextPlace DEF Tiling
  <2>2. SizeAt(h1, a) = d - a - 2 /\ d \in Nat
    BY <1>18, <2>1, BlockIs
  <2>3. SizeAt(h1, a) = SizeAt(h, a)
    BY <1>17 DEF SizesStay
  <2>4. d = e
    BY <2>2, <2>3, <1>4
  <2>5. QED BY <2>1, <2>4
<1>20. PICK c \in B1 : Adj(B1, e, c)
    BY <1>18, NextPlace DEF Tiling
<1>21. SizeAt(h1, e) = c - e - 2 /\ c \in Nat
    BY <1>18, <1>20, BlockIs
<1>22. PICK h2 : h2 = Tagged(h1, a, c - a - 2, TRUE)
    OBVIOUS
<1>23. Stretched(h, a, size) = h2
  <2>1. SizeAt(h, a) + 2 + SizeAt(h1, e) = c - a - 2
    BY <1>4, <1>21
  <2>2. Stretched(h, a, size) = Tagged(h1, a, SizeAt(h, a) + 2 + SizeAt(h1, e), TRUE)
    BY <1>6, <1>8, <1>12, <1>15, Zenon DEF Stretched
  <2>3. QED BY <2>1, <2>2, <1>22
<1>24. /\ Sound(h2, B1 \ {e}, F1) /\ SameRest(h1, h2)
       /\ Using(h2, B1 \ {e}, F1) = Using(h1, B1, F1) \ {e}
       /\ SizesStay(h1, h2, Using(h1, B1, F1) \ {a, e}) /\ SizeAt(h2, a) = c - a - 2
  <2>1. a \in Using(h1, B1, F1) /\ e \in Using(h1, B1, F1)
    BY <1>17
  <2>2. Widened(h1, B1, F1, a, e, c, h2)
    BY <2>1, <1>17, <1>19, <1>20, <1>22, BothJoined
  <2>3. QED BY <2>2 DEF Widened
<1>25. Using(h2, B1 \ {e}, F1) = Using(h, B, F)
  <2>1. e \notin Using(h, B, F)
    BY <1>6 DEF Using
  <2>2. QED BY <2>1, <1>17, <1>24
<1>26. SizesStay(h, h2, Using(h, B, F) \ {a})
  <2>1. e \notin Using(h, B, F)
    BY <1>6 DEF Using
  <2>2. QED BY <2>1, <1>17, <1>24 DEF SizesStay
<1>27. SizeAt(h2, a) >= size
  <2>1. size = SizeAt(h, a) + more /\ more \in Nat
    BY <1>4
  <2> HIDE DEF more
  <2>2. QED BY <2>1, <1>4, <1>13, <1>16, <1>21, <1>24
<1>28. Resized(h, B, F, a, size, h2, B1 \ {e}, F1)
    BY <1>17, <1>24, <1>25, <1>26, <1>27 DEF Resized, SameRest
<1>29. QED BY <1>23, <1>28

-----------------------------------------------------------------------------
(* The walk of shal_dump                                                   *)

(* One step of the recursion that defines Blocks.                          *)
BlockStep(h, u, n) ==
    IF n = 0 THEN 0
    ELSE LET b == u[n - 1] IN IF b < h.brk THEN Footer(h, b) + 1 ELSE b

LEMMA BlocksAre ==
    ASSUME NEW B, NEW F, Tiling(heap, B, F)
    PROVE  Blocks = B
<1>0. /\ heap.brk \in Nat /\ heap.brk <= End /\ B \subseteq Nat /\ 0 \in B /\ heap.brk \in B /\ End \in Nat
      /\ \A b \in B : b <= heap.brk
    BY InRange, EndIs DEF Tiling, Bounds
<1> DEFINE G == [b \in B |-> IF b < heap.brk THEN Footer(heap, b) + 1 ELSE b]
<1>1. ASSUME NEW b \in B, NEW e, Adj(B, b, e) PROVE b < heap.brk /\ G[b] = e
  <2>1. e \in B /\ b < e /\ Footer(heap, b) = e - 1
    BY <1>1, BlockIs DEF Adj
  <2>2. b < heap.brk
    BY <2>1, <1>0
  <2>3. QED BY <2>1, <2>2, <1>0
<1>2. G \in [B -> B]
  <2>1. ASSUME NEW b \in B PROVE G[b] \in B
    <3>1. CASE b = heap.brk
        BY <3>1, <1>0
    <3>2. CASE b # heap.brk
      <4>1. PICK e \in B : Adj(B, b, e)
        BY <3>2, NextPlace DEF Tiling
      <4>2. QED BY <4>1, <1>1
    <3>3. QED BY <3>1, <3>2
  <2>2. QED BY <2>1
<1>3. PICK g : Repeats(g, B, 0, G, End)
  <2> HIDE DEF G
  <2>1. QED BY <1>0, <1>2, Iterates
<1>4. g \in [0 .. End -> B] /\ g[0] = 0 /\ \A k \in 1 .. End : g[k] = G[g[k - 1]]
    BY <1>3 DEF Repeats
<1>5. ASSUME NEW n \in 0 .. End PROVE g[n] = BlockStep(heap, g, n)
  <2>1. CASE n = 0
    BY <2>1, <1>4 DEF BlockStep
  <2>2. CASE n # 0
    <3>1. n \in 1 .. End /\ n - 1 \in 0 .. End
        BY <2>2, <1>0
    <3>2. g[n - 1] \in B /\ g[n] = G[g[n - 1]]
        BY <3>1, <1>4
    <3>3. QED BY <2>2, <3>2 DEF BlockStep
  <2>3. QED BY <2>1, <2>2
<1> DEFINE W == CHOOSE u : u = [n \in 0 .. End |-> BlockStep(heap, u, n)]
<1>6. g = [n \in 0 .. End |-> BlockStep(heap, g, n)]
    BY <1>4, <1>5
<1>7. W = [n \in 0 .. End |-> BlockStep(heap, W, n)]
    BY <1>6, ZenonT(60)
<1>8. Blocks = {W[n] : n \in 0 .. End}
    BY DEF Blocks, BlockStep
<1> HIDE DEF W, G
<1> DEFINE Same == {n \in 0 .. End : W[n] = g[n]}
<1>9. \A n \in 0 .. End : W[n] = BlockStep(heap, W, n)
    BY <1>7
<1>10. 0 \in Same
  <2>1. 0 \in 0 .. End
    BY <1>0
  <2>2. QED BY <1>5, <1>9, <2>1 DEF BlockStep
<1>11. ASSUME NEW n \in 1 .. End, n - 1 \in Same PROVE n \in Same
  <2>1. n \in 0 .. End /\ n # 0 /\ W[n - 1] = g[n - 1]
    BY <1>11
  <2>2. W[n] = g[n]
    BY <1>5, <1>9, <2>1 DEF BlockStep
  <2>3. QED BY <2>1, <2>2
<1>12. \A n \in 0 .. End : W[n] = g[n]
  <2>1. 0 .. End \subseteq Same
    <3> HIDE DEF Same
    <3>1. QED BY <1>0, <1>10, <1>11, Upwards
  <2>2. QED BY <2>1
<1>13. ASSUME NEW b \in B PROVE \E n \in 0 .. End : g[n] = b
  <2> DEFINE T == {m \in 0 .. End : \A c \in B : c <= m => \E k \in 0 .. m : g[k] = c}
  <2>1. 0 \in T
    <3>1. \A c \in B : c <= 0 => c = 0
        BY <1>0
    <3>2. QED BY <3>1, <1>0, <1>4
  <2>2. ASSUME NEW m \in 1 .. End, m - 1 \in T PROVE m \in T
    <3> SUFFICES ASSUME NEW c \in B, c <= m PROVE \E k \in 0 .. m : g[k] = c
        BY <1>0
    <3>1. \A d \in B : d <= m - 1 => \E k \in 0 .. m - 1 : g[k] = d
        BY <2>2
    <3>2. CASE c <= m - 1
        BY <3>1, <3>2
    <3>3. CASE ~(c <= m - 1)
      <4>1. c = m /\ c # 0
        BY <3>3, <1>0
      <4>2. PICK p \in B : Adj(B, p, c)
        BY <4>1, PrevPlace DEF Tiling
      <4>3. p <= m - 1
        BY <4>1, <4>2, <1>0 DEF Adj
      <4>4. PICK k \in 0 .. m - 1 : g[k] = p
        BY <4>3, <3>1
      <4>5. k + 1 \in 1 .. End /\ k + 1 \in 0 .. m /\ (k + 1) - 1 = k
        BY <1>0
      <4>6. g[k + 1] = G[p]
        BY <4>4, <4>5, <1>4
      <4>7. QED BY <4>2, <4>5, <4>6, <1>1
    <3>4. QED BY <3>2, <3>3
  <2>3. 0 .. End \subseteq T
    <3> HIDE DEF T
    <3>1. QED BY <1>0, <2>1, <2>2, Upwards
  <2>4. End \in T /\ b <= End
    BY <2>3, <1>0
  <2>5. QED BY <2>4
<1>14. QED BY <1>4, <1>8, <1>12, <1>13

-----------------------------------------------------------------------------
(* The users                                                               *)

(* The users hold the blocks in use, each as large as was asked for.       *)
Owned(h, hd, B, F) ==
    /\ Sound(h, B, F) /\ Whole(h.brk) /\ h.exhausted \in BOOLEAN
    /\ DOMAIN hd = Using(h, B, F) /\ \A b \in DOMAIN hd : SizeAt(h, b) >= hd[b]
    /\ IsFiniteSet(DOMAIN hd) /\ h.users = Cardinality(DOMAIN hd)

With(hd, at, bytes) == [b \in DOMAIN hd \cup {at} |-> IF b = at THEN bytes ELSE hd[b]]
Minus(hd, a)        == [b \in DOMAIN hd \ {a} |-> hd[b]]

LEMMA OwnedGiven ==
    ASSUME NEW h, NEW hd, NEW B, NEW F, Owned(h, hd, B, F), NEW size \in Nat, NEW r, NEW B2, NEW F2,
           Answered(h, B, F, size, r, B2, F2), r.at # NoBlock, NEW bytes \in Nat, bytes <= size
    PROVE  r.at \notin DOMAIN hd /\ Owned(r.heap, With(hd, r.at, bytes), B2, F2)
<1> DEFINE at == r.at
           new == With(hd, at, bytes)
<1>1. /\ DOMAIN hd = Using(h, B, F) /\ IsFiniteSet(DOMAIN hd) /\ h.users = Cardinality(DOMAIN hd)
      /\ \A b \in DOMAIN hd : SizeAt(h, b) >= hd[b]
    BY DEF Owned
<1>2. /\ Sound(r.heap, B2, F2) /\ Whole(r.heap.brk) /\ r.heap.exhausted \in BOOLEAN
      /\ SizesStay(h, r.heap, Using(h, B, F))
      /\ r.heap.users = h.users + 1
      /\ at \notin Using(h, B, F) /\ Using(r.heap, B2, F2) = Using(h, B, F) \cup {at}
      /\ SizeAt(r.heap, at) >= size
    BY DEF Answered
<1>3. DOMAIN new = DOMAIN hd \cup {at} /\ new[at] = bytes /\ \A b \in DOMAIN hd : b # at => new[b] = hd[b]
    BY DEF With
<1>4. IsFiniteSet(DOMAIN new) /\ Cardinality(DOMAIN new) = Cardinality(DOMAIN hd) + 1
    BY <1>1, <1>2, <1>3, FS_AddElement
<1>5. SizeAt(r.heap, at) \in Nat
  <2>1. at \in B2 /\ at # r.heap.brk
    BY <1>2 DEF Using
  <2>2. Tiling(r.heap, B2, F2)
    BY <1>2 DEF Sound
  <2>3. PICK e \in B2 : Adj(B2, at, e)
    BY <2>1, <2>2, NextPlace DEF Tiling
  <2>4. QED BY <2>2, <2>3, BlockIs
<1> HIDE DEF new, at
<1>6. \A b \in DOMAIN new : SizeAt(r.heap, b) >= new[b]
  <2> SUFFICES ASSUME NEW b \in DOMAIN new PROVE SizeAt(r.heap, b) >= new[b]
    OBVIOUS
  <2>1. CASE b = at
    <3>1. bytes \in Nat /\ size \in Nat /\ bytes <= size /\ SizeAt(r.heap, at) >= size
        BY <1>2
    <3>2. SizeAt(r.heap, at) >= bytes
        BY <3>1, <1>5
    <3>3. QED BY <2>1, <3>2, <1>3
  <2>2. CASE b # at
    BY <2>2, <1>1, <1>2, <1>3 DEF SizesStay
  <2>3. QED BY <2>1, <2>2
<1>7. DOMAIN new = Using(r.heap, B2, F2) /\ r.heap.users = Cardinality(DOMAIN new)
    BY <1>1, <1>2, <1>3, <1>4
<1>8. at \notin DOMAIN hd
    BY <1>1, <1>2
<1>9. Owned(r.heap, new, B2, F2)
    BY <1>2, <1>4, <1>6, <1>7 DEF Owned
<1>10. QED BY <1>8, <1>9 DEF new, at

LEMMA OwnedDenied ==
    ASSUME NEW h, NEW hd, NEW B, NEW F, Owned(h, hd, B, F), NEW size, NEW r, NEW B2, NEW F2,
           Answered(h, B, F, size, r, B2, F2), r.at = NoBlock
    PROVE  Owned(r.heap, hd, B2, F2) /\ Full(r.heap, F2, size)
<1>1. /\ DOMAIN hd = Using(h, B, F) /\ IsFiniteSet(DOMAIN hd) /\ h.users = Cardinality(DOMAIN hd)
      /\ \A b \in DOMAIN hd : SizeAt(h, b) >= hd[b]
    BY DEF Owned
<1>2. /\ Sound(r.heap, B2, F2) /\ Whole(r.heap.brk) /\ r.heap.exhausted \in BOOLEAN
      /\ SizesStay(h, r.heap, Using(h, B, F))
      /\ r.heap.users = h.users /\ Using(r.heap, B2, F2) = Using(h, B, F) /\ Full(r.heap, F2, size)
    BY DEF Answered
<1>3. QED BY <1>1, <1>2 DEF Owned, SizesStay

LEMMA OwnedReturned ==
    ASSUME NEW h, NEW hd, NEW B, NEW F, Owned(h, hd, B, F), NEW a \in DOMAIN hd,
           NEW h2, NEW B2, NEW F2, Returned(h, B, F, a, h2, B2, F2)
    PROVE  Owned(h2, Minus(hd, a), B2, F2)
<1> DEFINE new == Minus(hd, a)
<1>1. /\ DOMAIN hd = Using(h, B, F) /\ IsFiniteSet(DOMAIN hd) /\ h.users = Cardinality(DOMAIN hd)
      /\ \A b \in DOMAIN hd : SizeAt(h, b) >= hd[b]
      /\ Whole(h.brk) /\ h.exhausted \in BOOLEAN
    BY DEF Owned
<1>2. /\ Sound(h2, B2, F2) /\ h2.brk = h.brk /\ h2.exhausted = h.exhausted /\ h2.users = h.users - 1
      /\ Using(h2, B2, F2) = Using(h, B, F) \ {a} /\ SizesStay(h, h2, Using(h, B, F) \ {a})
    BY DEF Returned
<1>3. DOMAIN new = DOMAIN hd \ {a} /\ \A b \in DOMAIN hd : b # a => new[b] = hd[b]
    BY DEF Minus
<1> HIDE DEF new
<1>4. IsFiniteSet(DOMAIN new) /\ Cardinality(DOMAIN new) = Cardinality(DOMAIN hd) - 1
    BY <1>1, <1>3, FS_RemoveElement
<1>5. \A b \in DOMAIN new : SizeAt(h2, b) >= new[b]
    BY <1>1, <1>2, <1>3 DEF SizesStay
<1>6. h2.exhausted \in BOOLEAN
    BY <1>1, <1>2, Zenon
<1>7. DOMAIN new = Using(h2, B2, F2) /\ h2.users = Cardinality(DOMAIN new) /\ Whole(h2.brk)
    BY <1>1, <1>2, <1>3, <1>4
<1>8. Owned(h2, new, B2, F2)
    BY <1>2, <1>4, <1>5, <1>6, <1>7 DEF Owned
<1>9. QED BY <1>8 DEF new

LEMMA OwnedResized ==
    ASSUME NEW h, NEW hd, NEW B, NEW F, Owned(h, hd, B, F), NEW a \in DOMAIN hd, NEW size \in Nat,
           NEW h2, NEW B2, NEW F2, Resized(h, B, F, a, size, h2, B2, F2), NEW bytes \in Nat, bytes <= size
    PROVE  Owned(h2, With(hd, a, bytes), B2, F2)
<1> DEFINE new == With(hd, a, bytes)
<1>1. /\ DOMAIN hd = Using(h, B, F) /\ IsFiniteSet(DOMAIN hd) /\ h.users = Cardinality(DOMAIN hd)
      /\ \A b \in DOMAIN hd : SizeAt(h, b) >= hd[b]
      /\ Whole(h.brk) /\ h.exhausted \in BOOLEAN
    BY DEF Owned
<1>2. /\ Sound(h2, B2, F2) /\ h2.brk = h.brk /\ h2.exhausted = h.exhausted /\ h2.users = h.users
      /\ Using(h2, B2, F2) = Using(h, B, F) /\ SizesStay(h, h2, Using(h, B, F) \ {a})
      /\ SizeAt(h2, a) >= size
    BY DEF Resized, SameRest
<1>3. DOMAIN new = DOMAIN hd /\ new[a] = bytes /\ \A b \in DOMAIN hd : b # a => new[b] = hd[b]
    BY DEF With
<1>4. SizeAt(h2, a) \in Nat
  <2>1. a \in B2 /\ a # h2.brk
    BY <1>1, <1>2 DEF Using
  <2>2. Tiling(h2, B2, F2)
    BY <1>2 DEF Sound
  <2>3. PICK e \in B2 : Adj(B2, a, e)
    BY <2>1, <2>2, NextPlace DEF Tiling
  <2>4. QED BY <2>2, <2>3, BlockIs
<1> HIDE DEF new
<1>5. \A b \in DOMAIN new : SizeAt(h2, b) >= new[b]
  <2> SUFFICES ASSUME NEW b \in DOMAIN new PROVE SizeAt(h2, b) >= new[b]
    OBVIOUS
  <2>1. CASE b = a
    <3>1. SizeAt(h2, a) >= bytes
        BY <1>2, <1>4
    <3>2. QED BY <2>1, <3>1, <1>3
  <2>2. CASE b # a
    BY <2>2, <1>1, <1>2, <1>3 DEF SizesStay
  <2>3. QED BY <2>1, <2>2
<1>6. h2.exhausted \in BOOLEAN
    BY <1>1, <1>2, Zenon
<1>7. DOMAIN new = Using(h2, B2, F2) /\ h2.users = Cardinality(DOMAIN new) /\ Whole(h2.brk)
    BY <1>1, <1>2, <1>3
<1>8. IsFiniteSet(DOMAIN new)
    BY <1>1, <1>3
<1>9. Owned(h2, new, B2, F2)
    BY <1>2, <1>5, <1>6, <1>7, <1>8 DEF Owned
<1>10. QED BY <1>9 DEF new

-----------------------------------------------------------------------------
(* The blocks fill the heap, the users hold those in use, and the last     *)
(* NULL was answered by a full heap.                                       *)
HeapInv ==
    \E B, F : Owned(heap, held, B, F) /\ (failed > 0 => Full(heap, F, failed))

LEMMA InitOwned == HeapInit => HeapInv
<1> SUFFICES ASSUME HeapInit PROVE HeapInv
    OBVIOUS
<1> DEFINE h0 == [tag |-> << >>, brk |-> Page, exhausted |-> FALSE, users |-> 0,
                  list |-> [l \in Lists |-> << >>]]
           B == {0, Page}
           F == {0}
<1>1. Page \in Nat /\ Page >= 4 /\ HeapPages \in Nat /\ HeapPages >= 1
    BY HeapAssumption DEF MinFree
<1>2. End \in Nat /\ Page <= End
  <2>1. \A m, n \in Nat : n >= 1 => m * n >= m
    OBVIOUS
  <2>2. QED BY <2>1, <1>1, EndIs DEF End
<1>3. PICK g : g = h0
    OBVIOUS
<1>4. PICK h1 : h1 = Tagged(g, 0, Page - 2, FALSE)
    OBVIOUS
<1>5. heap = Listed(h1, 0) /\ held = << >> /\ failed = 0
    BY <1>3, <1>4 DEF HeapInit
<1>6. /\ IsHeap(g) /\ g.brk = Page /\ g.exhausted = FALSE /\ g.users = 0
      /\ g.list = [l \in Lists |-> << >>]
    BY <1>3 DEF IsHeap
<1>7. TagsSet(g, h1, 0, Page, FALSE)
  <2>1. Page >= 0 + 2 /\ Page - 0 - 2 = Page - 2
    BY <1>1
  <2>2. \A a, e \in Nat : e >= a + 2 => TagsSet(g, Tagged(g, a, e - a - 2, FALSE), a, e, FALSE)
    BY <1>6, TaggedFree
  <2>3. TagsSet(g, Tagged(g, 0, Page - 0 - 2, FALSE), 0, Page, FALSE)
    BY <2>1, <2>2, <1>1
  <2>4. QED BY <2>1, <2>3, <1>4
<1>8. /\ IsHeap(h1) /\ h1.brk = Page /\ h1.exhausted = FALSE /\ h1.users = 0
      /\ h1.list = [l \in Lists |-> << >>]
      /\ 0 \in DOMAIN h1.tag /\ Page - 1 \in DOMAIN h1.tag
      /\ h1.tag[0] = [size |-> Page - 2, allocated |-> FALSE]
      /\ h1.tag[Page - 1] = [size |-> Page - 2, allocated |-> FALSE]
  <2>1. Page - 0 - 2 = Page - 2
    BY <1>1
  <2>2. QED BY <2>1, <1>6, <1>7 DEF TagsSet, SameRest
<1>9. Tiling(h1, B, F)
  <2>1. Bounds(h1, B, F)
    BY <1>1, <1>2, <1>8 DEF Bounds
  <2>2. \A b, e \in B : Adj(B, b, e) => b = 0 /\ e = Page
    BY <1>1 DEF Adj
  <2>3. Span(h1.tag, 0, Page, FALSE) /\ Page - 0 >= 4
    <3>1. Page - 0 - 2 = Page - 2
        BY <1>1
    <3>2. QED BY <3>1, <1>1, <1>8 DEF Span
  <2>4. (0 \notin F) = FALSE
    OBVIOUS
  <2>5. TagsRight(h1.tag, B, F)
    BY <2>2, <2>3, <2>4 DEF TagsRight
  <2>6. QED BY <2>1, <2>5 DEF Tiling
<1>10. Listing(h1, {})
  <2>1. \A l \in Lists : h1.list[l] = << >> /\ OfClass(h1, {}, l) = {}
    BY <1>8 DEF OfClass
  <2>2. << >> \in Seq(Nat) /\ NoDup(<< >>) /\ Items(<< >>) = {}
    BY DEF NoDup, Items
  <2>3. h1.list = [l \in Lists |-> h1.list[l]]
    BY <1>8
  <2>4. QED BY <2>1, <2>2, <2>3 DEF Listing
<1>11. SameTags(h1, heap) /\ Listing(heap, {} \cup {0})
  <2> DEFINE L == {}
  <2>1. Listing(h1, L) /\ 0 \notin L /\ 0 \in Nat
    BY <1>10
  <2> HIDE DEF L
  <2>2. SameTags(h1, heap) /\ Listing(heap, L \cup {0})
    BY <2>1, <1>5, <1>8, ListedKeeps
  <2>3. QED BY <2>2 DEF L
<1>12. /\ Tiling(heap, B, F) /\ IsHeap(heap) /\ heap.brk = Page /\ heap.exhausted = FALSE /\ heap.users = 0
  <2> HIDE DEF B, F
  <2>1. Tiling(heap, B, F)
    BY <1>9, <1>11, SameTiling
  <2>2. QED BY <2>1, <1>8, <1>11 DEF SameTags, SameRest
<1>13. Apart(B, F)
    BY <1>1 DEF Apart, Adj
<1>14. Sound(heap, B, F)
  <2>1. {} \cup {0} = F
    OBVIOUS
  <2>2. Listing(heap, F)
    BY <2>1, <1>11
  <2>3. QED BY <2>2, <1>12, <1>13 DEF Sound
<1>15. Whole(heap.brk)
  <2>1. Page = Page * 1 /\ 1 \in Nat
    BY <1>1
  <2>2. QED BY <2>1, <1>12 DEF Whole
<1>16. DOMAIN held = {} /\ Using(heap, B, F) = {} /\ IsFiniteSet({}) /\ Cardinality({}) = 0
    BY <1>5, <1>12, FS_EmptySet DEF Using
<1>17. Owned(heap, held, B, F)
    BY <1>12, <1>14, <1>15, <1>16 DEF Owned
<1>18. ~(failed > 0)
    BY <1>5
<1>19. QED BY <1>17, <1>18 DEF HeapInv

LEMMA ValidIs ==
    ASSUME NEW bytes \in Requests
    PROVE  bytes \in Nat /\ Valid(bytes) \in Nat /\ Valid(bytes) >= 2 /\ bytes <= Valid(bytes)
BY HeapAssumption DEF Valid, MinFree

LEMMA MallocStep ==
    ASSUME HeapInv, NEW bytes \in Requests, UserMalloc(bytes)
    PROVE  HeapInv'
<1>1. PICK B, F : Owned(heap, held, B, F)
    BY DEF HeapInv
<1>2. PICK size : size = Valid(bytes)
    OBVIOUS
<1>3. size \in Nat /\ size >= 2 /\ bytes \in Nat /\ bytes <= size
    BY <1>2, ValidIs
<1>0. PICK g \in Grants(heap, size) : LET r == Malloc(heap, size, g) IN
                                      heap' = r.heap /\ Given(r.at, bytes, held)
    BY <1>2 DEF UserMalloc
<1>4. PICK r : /\ r = Malloc(heap, size, g)
               /\ heap' = r.heap /\ Given(r.at, bytes, held)
    BY <1>0
<1>5. PICK B2, F2 : Answered(heap, B, F, size, r, B2, F2)
  <2>1. Sound(heap, B, F) /\ Whole(heap.brk) /\ heap.exhausted \in BOOLEAN
    BY <1>1 DEF Owned
  <2>2. QED BY <2>1, <1>3, <1>4, MallocOK
<1>6. CASE r.at = NoBlock
  <2>1. Owned(r.heap, held, B2, F2) /\ Full(r.heap, F2, size)
    BY <1>1, <1>5, <1>6, OwnedDenied
  <2>2. held' = held /\ failed' = size
    BY <1>2, <1>4, <1>6 DEF Given
  <2>3. Owned(heap', held', B2, F2) /\ Full(heap', F2, failed')
    BY <2>1, <2>2, <1>4
  <2>4. QED BY <2>3 DEF HeapInv
<1>7. CASE r.at # NoBlock
  <2>1. Owned(r.heap, With(held, r.at, bytes), B2, F2)
    BY <1>1, <1>3, <1>5, <1>7, OwnedGiven
  <2>2. held' = With(held, r.at, bytes) /\ failed' = 0
    BY <1>4, <1>7 DEF Given, With
  <2>3. Owned(heap', held', B2, F2) /\ ~(failed' > 0)
    BY <2>1, <2>2, <1>4
  <2>4. QED BY <2>3 DEF HeapInv
<1>8. QED BY <1>6, <1>7

LEMMA FreeStep ==
    ASSUME HeapInv, NEW a \in DOMAIN held, UserFree(a)
    PROVE  HeapInv'
<1>1. PICK B, F : Owned(heap, held, B, F)
    BY DEF HeapInv
<1>2. heap' = GivenBack(heap, a) /\ held' = Minus(held, a) /\ failed' = 0
    BY DEF UserFree, Without, Minus
<1>3. PICK B2, F2 : Returned(heap, B, F, a, heap', B2, F2)
  <2>1. Sound(heap, B, F) /\ a \in Using(heap, B, F)
    BY <1>1 DEF Owned
  <2>2. QED BY <2>1, <1>2, GivenBackOK
<1>4. Owned(heap', held', B2, F2) /\ ~(failed' > 0)
    BY <1>1, <1>2, <1>3, OwnedReturned
<1>5. QED BY <1>4 DEF HeapInv

LEMMA ReallocStep ==
    ASSUME HeapInv, NEW a \in DOMAIN held, NEW bytes \in Requests, UserRealloc(a, bytes)
    PROVE  HeapInv'
<1>1. PICK B, F : Owned(heap, held, B, F)
    BY DEF HeapInv
<1>2. /\ Sound(heap, B, F) /\ Whole(heap.brk) /\ heap.exhausted \in BOOLEAN
      /\ a \in Using(heap, B, F)
    BY <1>1 DEF Owned
<1>3. PICK size : size = Valid(bytes)
    OBVIOUS
<1>4. size \in Nat /\ size >= 2 /\ bytes \in Nat /\ bytes <= size
    BY <1>3, ValidIs
<1>5. a # NoBlock /\ SizeAt(heap, a) \in Nat
  <2>1. a \in B /\ a # heap.brk /\ Tiling(heap, B, F)
    BY <1>2 DEF Using, Sound
  <2>2. PICK e \in B : Adj(B, a, e)
    BY <2>1, NextPlace DEF Tiling
  <2>3. QED BY <2>1, <2>2, BlockIs
<1>6. Given(a, bytes, held) => held' = With(held, a, bytes) /\ failed' = 0
    BY <1>5 DEF Given, With
<1>7. ASSUME NEW B2, NEW F2, Resized(heap, B, F, a, size, heap', B2, F2), Given(a, bytes, held)
      PROVE  HeapInv'
  <2>1. Owned(heap', held', B2, F2) /\ ~(failed' > 0)
    BY <1>1, <1>4, <1>6, <1>7, OwnedResized
  <2>2. QED BY <2>1 DEF HeapInv
<1>8. CASE /\ size <= SizeAt(heap, a) /\ Given(a, bytes, held)
           /\ heap' = IF size = SizeAt(heap, a) THEN heap ELSE Shrunk(heap, a, size)
  <2>1. CASE size = SizeAt(heap, a)
    <3>1. Resized(heap, B, F, a, size, heap, B, F)
      <4>1. SameRest(heap, heap)
        BY <1>2 DEF SameRest, Sound
      <4>2. QED BY <4>1, <2>1, <1>2, <1>5 DEF Resized, SizesStay
    <3>2. heap' = heap
        BY <2>1, <1>8
    <3>3. QED BY <3>1, <3>2, <1>7, <1>8
  <2>2. CASE size # SizeAt(heap, a)
    <3>1. heap' = Shrunk(heap, a, size)
        BY <2>2, <1>8
    <3>2. \E B2, F2 : Resized(heap, B, F, a, size, Shrunk(heap, a, size), B2, F2)
        BY <1>2, <1>4, <1>8, NarrowedOK
    <3>3. QED BY <3>1, <3>2, <1>7, <1>8
  <2>3. QED BY <2>1, <2>2
<1>9. CASE /\ size > SizeAt(heap, a) /\ size <= SizeAt(heap, a) + Gain(heap, a)
           /\ heap' = Stretched(heap, a, size) /\ Given(a, bytes, held)
  <2>1. \E B2, F2 : Resized(heap, B, F, a, size, Stretched(heap, a, size), B2, F2)
    BY <1>2, <1>4, <1>9, StretchedOK
  <2>2. QED BY <2>1, <1>7, <1>9
<1>10. CASE \E g \in Grants(heap, size) :
               LET r == Malloc(heap, size, g) IN
               IF r.at = NoBlock THEN heap' = r.heap /\ Given(r.at, bytes, held)
               ELSE heap' = GivenBack(r.heap, a) /\ Given(r.at, bytes, Without(a))
  <2>0. PICK g \in Grants(heap, size) :
           LET r == Malloc(heap, size, g) IN
           IF r.at = NoBlock THEN heap' = r.heap /\ Given(r.at, bytes, held)
           ELSE heap' = GivenBack(r.heap, a) /\ Given(r.at, bytes, Without(a))
    BY <1>10
  <2>1. PICK r : /\ r = Malloc(heap, size, g)
                 /\ IF r.at = NoBlock THEN heap' = r.heap /\ Given(r.at, bytes, held)
                    ELSE heap' = GivenBack(r.heap, a) /\ Given(r.at, bytes, Without(a))
    BY <2>0
  <2>2. PICK B2, F2 : Answered(heap, B, F, size, r, B2, F2)
    BY <2>1, <1>2, <1>4, MallocOK
  <2>3. CASE r.at = NoBlock
    <3>1. Owned(r.heap, held, B2, F2) /\ Full(r.heap, F2, size)
        BY <1>1, <2>2, <2>3, OwnedDenied
    <3>2. held' = held /\ failed' = size /\ heap' = r.heap
        BY <1>3, <2>1, <2>3 DEF Given
    <3>3. Owned(heap', held', B2, F2) /\ Full(heap', F2, failed')
        BY <3>1, <3>2
    <3>4. QED BY <3>3 DEF HeapInv
  <2>4. CASE r.at # NoBlock
    <3> DEFINE more == With(held, r.at, bytes)
    <3>1. r.at \notin DOMAIN held /\ Owned(r.heap, more, B2, F2)
        BY <1>1, <1>4, <2>2, <2>4, OwnedGiven
    <3>2. a \in DOMAIN more /\ a # r.at
        BY <3>1 DEF With
    <3>3. held' = Minus(more, a) /\ failed' = 0 /\ heap' = GivenBack(r.heap, a)
      <4>1. heap' = GivenBack(r.heap, a) /\ Given(r.at, bytes, Without(a))
        BY <2>1, <2>4
      <4>2. failed' = 0 /\ held' = [b \in DOMAIN Without(a) \cup {r.at} |->
                                      IF b = r.at THEN bytes ELSE Without(a)[b]]
        BY <4>1, <2>4 DEF Given
      <4>3. DOMAIN Without(a) = DOMAIN held \ {a} /\ \A b \in DOMAIN held \ {a} : Without(a)[b] = held[b]
        BY DEF Without
      <4>4. DOMAIN Without(a) \cup {r.at} = DOMAIN more \ {a}
        BY <4>3, <3>2 DEF With
      <4>5. \A b \in DOMAIN more \ {a} : more[b] = IF b = r.at THEN bytes ELSE Without(a)[b]
        BY <4>3, <3>2 DEF With
      <4> HIDE DEF more
      <4>6. held' = [b \in DOMAIN more \ {a} |-> more[b]]
        BY <4>2, <4>4, <4>5
      <4>7. QED BY <4>1, <4>2, <4>6 DEF Minus
    <3> HIDE DEF more
    <3>4. PICK B3, F3 : Returned(r.heap, B2, F2, a, heap', B3, F3)
      <4>1. Sound(r.heap, B2, F2) /\ a \in Using(r.heap, B2, F2)
        BY <3>1, <3>2 DEF Owned
      <4>2. QED BY <4>1, <3>3, GivenBackOK
    <3>5. Owned(heap', held', B3, F3) /\ ~(failed' > 0)
        BY <3>1, <3>2, <3>3, <3>4, OwnedReturned
    <3>6. QED BY <3>5 DEF HeapInv
  <2>5. QED BY <2>3, <2>4
<1>11. QED BY <1>3, <1>8, <1>9, <1>10 DEF UserRealloc

LEMMA HeapStep ==
    ASSUME HeapInv, [HeapNext]_heapVars
    PROVE  HeapInv'
<1>1. CASE HeapNext
    BY <1>1, MallocStep, FreeStep, ReallocStep DEF HeapNext
<1>2. CASE UNCHANGED heapVars
    BY <1>2 DEF HeapInv, heapVars
<1>3. QED BY <1>1, <1>2

LEMMA InvIsSound ==
    ASSUME HeapInv
    PROVE  HeapIsSound
<1>1. PICK B, F : Owned(heap, held, B, F) /\ (failed > 0 => Full(heap, F, failed))
    BY DEF HeapInv
<1>2. /\ Sound(heap, B, F) /\ DOMAIN held = Using(heap, B, F)
      /\ \A b \in DOMAIN held : SizeAt(heap, b) >= held[b]
      /\ heap.users = Cardinality(DOMAIN held)
    BY <1>1 DEF Owned
<1>3. Tiling(heap, B, F) /\ Listing(heap, F) /\ Apart(B, F)
    BY <1>2 DEF Sound
<1>4. /\ heap.brk \in Nat /\ B \subseteq Nat /\ heap.brk \in B /\ F \subseteq B \ {heap.brk}
      /\ \A b \in B : b <= heap.brk
    BY <1>3, InRange DEF Tiling, Bounds
<1>5. Blocks = B
    BY <1>3, BlocksAre
<1>6. ASSUME NEW b \in B, b # heap.brk
      PROVE  \E e \in B : /\ Adj(B, b, e) /\ Footer(heap, b) + 1 = e
                          /\ Allocated(heap, b) = (b \notin F)
                          /\ heap.tag[b] = heap.tag[Footer(heap, b)] /\ SizeAt(heap, b) >= MinFree
  <2>1. PICK e \in B : Adj(B, b, e)
    BY <1>3, <1>6, NextPlace DEF Tiling
  <2>2. /\ b \in Nat /\ e \in Nat /\ e - b >= 4 /\ SizeAt(heap, b) = e - b - 2 /\ Footer(heap, b) = e - 1
        /\ Allocated(heap, b) = (b \notin F)
    BY <1>3, <2>1, BlockIs
  <2>3. heap.tag[b] = heap.tag[e - 1]
    BY <1>3, <2>1 DEF Tiling, TagsRight, Span
  <2>4. QED BY <2>1, <2>2, <2>3 DEF MinFree
<1>7. FreeBlocks = F
  <2>1. FreeBlocks = {b \in B \ {heap.brk} : ~Allocated(heap, b)}
    BY <1>5 DEF FreeBlocks
  <2>2. \A b \in B \ {heap.brk} : Allocated(heap, b) = (b \notin F)
    BY <1>6
  <2>3. QED BY <2>1, <2>2, <1>4
<1>8. ASSUME NEW b \in F PROVE Footer(heap, b) + 1 \notin F
  <2>1. b \in B /\ b # heap.brk
    BY <1>4
  <2>2. PICK e \in B : Adj(B, b, e) /\ Footer(heap, b) + 1 = e
    BY <2>1, <1>6
  <2>3. QED BY <2>1, <2>2, <1>3 DEF Apart
<1>9. \A l \in Lists : /\ NoDup(heap.list[l])
                       /\ Items(heap.list[l]) = {b \in F : ClassOf(SizeAt(heap, b)) = l}
    BY <1>3 DEF Listing, OfClass
<1>10. DOMAIN held = B \ (F \cup {heap.brk})
    BY <1>2 DEF Using
<1>11. HeapIsTiled
    BY <1>2, <1>4, <1>5, <1>6, <1>7, <1>8, <1>9, <1>10, Zenon DEF HeapIsTiled
<1>12. NullMeansFull
    BY <1>1, <1>7 DEF NullMeansFull, Full
<1>13. QED BY <1>11, <1>12 DEF HeapIsSound

(* After any calls of malloc, free and realloc, whatever request_mem gave, *)
(* the blocks fill the heap from tag to tag, no two free ones are          *)
(* neighbours, each free one is once in the list of its size, the users    *)
(* hold the others, each as large as was asked for; and NULL was answered  *)
(* only when no free block would do and no more memory was to be had.      *)
THEOREM HeapStaysSound == HeapSpec => []HeapIsSound
<1>1. HeapInit => HeapInv
    BY InitOwned
<1>2. HeapInv /\ [HeapNext]_heapVars => HeapInv'
    BY HeapStep
<1>3. HeapInv => HeapIsSound
    BY InvIsSound
<1>4. QED BY <1>1, <1>2, <1>3, PTL DEF HeapSpec

-----------------------------------------------------------------------------
(* The mutex *)

(* The word tells whether there is a holder, and a deregistered futex has  *)
(* nobody queued.                                                          *)
WordTellsHolder == word # UNLOCKED => \E t \in Threads : Holds(t)
QueueRegistered == ~registered => waitQ = << >>

IInv ==
    /\ TypeOK
    /\ MutualExclusion
    /\ UnlockFindsLock
    /\ WordTellsHolder
    /\ QueueRegistered
    /\ NoLostWakeup

LEMMA InitIInv == Init => IInv
BY DEF Init, IInv, TypeOK, MutualExclusion, UnlockFindsLock, WordTellsHolder,
       QueueRegistered, NoLostWakeup, Holds, InCS, Places, InLock, Answers,
       Errors, UNLOCKED, UNCONTENDED, CONTENDED

USE DEF Places, InLock, InCS, Answers, Errors, UNLOCKED, UNCONTENDED, CONTENDED

(* The queue after all its threads are woken, and after a thread joins it. *)
LEMMA WakeAllEmpties ==
    ASSUME NEW t \in Threads, NEW err \in Answers, TypeOK,
           WakeThese(t, Len(waitQ), err)
    PROVE  waitQ' = << >> /\ answer' \in [Threads -> Answers]
<1>1. waitQ \in Seq(Threads)
    BY DEF TypeOK
<1>2. waitQ' = << >>
    BY <1>1 DEF WakeThese
<1>3. answer' \in [Threads -> Answers]
    BY DEF WakeThese, TypeOK
<1>4. QED BY <1>2, <1>3

(* Each step keeps the types. *)
LEMMA TypeStep ==
    ASSUME IInv, NEW t \in Threads, Step(t)
    PROVE  TypeOK'
<1> USE DEF TypeOK, Goto, CAS, Return
<1>0. TypeOK
    BY DEF IInv
<1>1. CASE TryLock(t)
    BY <1>0, <1>1 DEF TryLock
<1>2. CASE MarkContended(t)
    BY <1>0, <1>2 DEF MarkContended
<1>3. CASE WaitLock(t)
  <2>1. answer' \in [Threads -> Answers] /\ pc' \in [Threads -> Places]
    BY <1>0, <1>3 DEF WaitLock, Wait
  <2>2. waitQ' \in Seq(Threads)
    BY <1>0, <1>3 DEF WaitLock, Wait
  <2>3. QED BY <1>0, <1>3, <2>1, <2>2 DEF WaitLock, Wait
<1>4. CASE WaitReturns(t)
    BY <1>0, <1>4 DEF WaitReturns, futexVars
<1>5. CASE CallUnlock(t)
    BY <1>0, <1>5 DEF CallUnlock, futexVars
<1>6. CASE UnlockFast(t)
    BY <1>0, <1>6 DEF UnlockFast
<1>7. CASE UnlockSlow(t)
    BY <1>0, <1>7 DEF UnlockSlow
<1>8. CASE WakeAll(t)
  <2>1. CASE ~registered
    BY <1>0, <1>8, <2>1 DEF WakeAll, Wake
  <2>2. CASE registered
    <3>1. waitQ' = << >> /\ answer' \in [Threads -> Answers]
        BY <1>0, <1>8, <2>2, WakeAllEmpties DEF WakeAll, Wake, HowMany
    <3>2. registered' \in BOOLEAN /\ word' = word
        BY <1>0, <1>8 DEF WakeAll, Wake
    <3>3. pc' \in [Threads -> Places]
        BY <1>0, <1>8 DEF WakeAll
    <3>4. waitQ' \in Seq(Threads)
        BY <3>1
    <3>5. QED BY <1>0, <3>1, <3>2, <3>3, <3>4, Zenon
  <2>3. QED BY <2>1, <2>2
<1>9. CASE CallLock(t)
    BY <1>0, <1>9 DEF CallLock, futexVars
<1>10. CASE CleanupMutex(t)
  <2>1. waitQ' = << >> /\ answer' \in [Threads -> Answers]
    BY <1>0, <1>10, WakeAllEmpties DEF CleanupMutex, Deregister
  <2>2. registered' \in BOOLEAN /\ word' = word /\ pc' = pc
    BY <1>10 DEF CleanupMutex, Deregister
  <2>3. waitQ' \in Seq(Threads)
    BY <2>1
  <2>4. QED BY <1>0, <2>1, <2>2, <2>3, Zenon
<1>11. CASE InitMutex(t)
    BY <1>0, <1>11 DEF InitMutex, Register
<1>12. QED
    BY <1>1, <1>2, <1>3, <1>4, <1>5, <1>6, <1>7, <1>8, <1>9, <1>10, <1>11
    DEF Step, Proceed

(* The effect of each step on the word and on who holds the lock. *)
LEMMA HolderStep ==
    ASSUME IInv, NEW t \in Threads, Step(t)
    PROVE  /\ MutualExclusion' /\ UnlockFindsLock' /\ WordTellsHolder'
<1> USE DEF TypeOK, Goto, CAS, Return, MutualExclusion, UnlockFindsLock,
            WordTellsHolder, Holds
<1>0. TypeOK /\ MutualExclusion /\ UnlockFindsLock /\ WordTellsHolder
    BY DEF IInv
<1>1. CASE TryLock(t)
    BY <1>0, <1>1 DEF TryLock
<1>2. CASE MarkContended(t)
    BY <1>0, <1>2 DEF MarkContended
<1>3. CASE WaitLock(t)
    BY <1>0, <1>3 DEF WaitLock, Wait
<1>4. CASE WaitReturns(t)
    BY <1>0, <1>4 DEF WaitReturns, futexVars
<1>5. CASE CallUnlock(t)
    BY <1>0, <1>5 DEF CallUnlock, futexVars
<1>6. CASE UnlockFast(t)
    BY <1>0, <1>6 DEF UnlockFast
<1>7. CASE UnlockSlow(t)
    BY <1>0, <1>7 DEF UnlockSlow
<1>8. CASE WakeAll(t)
    BY <1>0, <1>8 DEF WakeAll, Wake
<1>9. CASE CallLock(t)
    BY <1>0, <1>9 DEF CallLock, futexVars
<1>10. CASE CleanupMutex(t)
    BY <1>0, <1>10 DEF CleanupMutex, Deregister
<1>11. CASE InitMutex(t)
    BY <1>0, <1>11 DEF InitMutex, Register
<1>12. QED
    BY <1>1, <1>2, <1>3, <1>4, <1>5, <1>6, <1>7, <1>8, <1>9, <1>10, <1>11
    DEF Step, Proceed

(* The effect of each step on the queue. *)
LEMMA QueueStep ==
    ASSUME IInv, NEW t \in Threads, Step(t)
    PROVE  QueueRegistered' /\ NoLostWakeup'
<1> USE DEF Goto, CAS, Return, QueueRegistered, NoLostWakeup, Holds
<1>0. TypeOK /\ MutualExclusion /\ UnlockFindsLock /\ WordTellsHolder
      /\ QueueRegistered /\ NoLostWakeup
    BY DEF IInv
<1> USE DEF TypeOK, WordTellsHolder, UnlockFindsLock
<1>1. CASE TryLock(t)
    BY <1>0, <1>1 DEF TryLock
<1>2. CASE MarkContended(t)
    BY <1>0, <1>2 DEF MarkContended
<1>3. CASE WaitLock(t)
    BY <1>0, <1>3 DEF WaitLock, Wait
<1>4. CASE WaitReturns(t)
    BY <1>0, <1>4 DEF WaitReturns, futexVars
<1>5. CASE CallUnlock(t)
    BY <1>0, <1>5 DEF CallUnlock, futexVars
<1>6. CASE UnlockFast(t)
    BY <1>0, <1>6 DEF UnlockFast
<1>7. CASE UnlockSlow(t)
    BY <1>0, <1>7 DEF UnlockSlow
<1>8. CASE WakeAll(t)
  <2>1. waitQ' = << >>
    BY <1>0, <1>8, WakeAllEmpties DEF WakeAll, Wake, HowMany
  <2>2. QED BY <2>1
<1>9. CASE CallLock(t)
    BY <1>0, <1>9 DEF CallLock, futexVars
<1>10. CASE CleanupMutex(t)
  <2>1. waitQ' = << >>
    BY <1>0, <1>10, WakeAllEmpties DEF CleanupMutex, Deregister
  <2>2. QED BY <2>1
<1>11. CASE InitMutex(t)
    BY <1>0, <1>11 DEF InitMutex, Register
<1>12. QED
    BY <1>1, <1>2, <1>3, <1>4, <1>5, <1>6, <1>7, <1>8, <1>9, <1>10, <1>11
    DEF Step, Proceed

LEMMA Inductive == IInv /\ [Next]_vars => IInv'
<1> SUFFICES ASSUME IInv, [Next]_vars PROVE IInv'
    OBVIOUS
<1>1. CASE Next
  <2>1. PICK t \in Threads : Step(t)
    BY <1>1 DEF Next
  <2>2. QED BY <2>1, TypeStep, HolderStep, QueueStep DEF IInv
<1>2. CASE UNCHANGED vars
    BY <1>2 DEF vars, futexVars, IInv, TypeOK, MutualExclusion, UnlockFindsLock,
       WordTellsHolder, QueueRegistered, NoLostWakeup, Holds
<1>3. QED BY <1>1, <1>2

(* No two threads hold the mutex at once, however many there are and       *)
(* wherever they are preempted in mut_lock and mut_unlock.                 *)
THEOREM MutexExcludes == Spec => []MutualExclusion
<1>1. IInv => MutualExclusion
    BY DEF IInv
<1>2. QED BY <1>1, InitIInv, Inductive, PTL DEF Spec

(* The holder's mut_unlock never finds the word in a state it does not     *)
(* expect.                                                                 *)
THEOREM UnlockAlwaysFindsLock == Spec => []UnlockFindsLock
<1>1. IInv => UnlockFindsLock
    BY DEF IInv
<1>2. QED BY <1>1, InitIInv, Inductive, PTL DEF Spec

(* Threads are queued only while someone is bound to wake them.            *)
THEOREM WakeupsAreNotLost == Spec => []NoLostWakeup
<1>1. IInv => NoLostWakeup
    BY DEF IInv
<1>2. QED BY <1>1, InitIInv, Inductive, PTL DEF Spec

-----------------------------------------------------------------------------
(* Refinement.                                                             *)

Asking == {t \in Threads : pc[t] \in InLock}

(* Owner is the thread that holds the lock, or Nobody. *)
OwnerRight ==
    /\ \A t \in Threads : Owner = t <=> Holds(t)
    /\ (\A t \in Threads : ~Holds(t)) => Owner = Nobody

LEMMA OwnerIs == IInv => OwnerRight
<1> SUFFICES ASSUME IInv PROVE OwnerRight
    OBVIOUS
<1>1. ASSUME NEW t \in Threads, Holds(t) PROVE Owner = t
  <2>1. \A u \in Threads : Holds(u) <=> u = t
    BY <1>1 DEF MutualExclusion, IInv
  <2>2. QED BY <2>1 DEF Owner
<1>2. ASSUME NEW t \in Threads, Owner = t PROVE Holds(t)
  <2>1. \E u \in Threads : Holds(u)
    BY <1>2, MutexConstants DEF Owner
  <2>2. QED BY <1>2, <2>1 DEF Owner
<1>3. (\A t \in Threads : ~Holds(t)) => Owner = Nobody
    BY DEF Owner
<1>4. QED BY <1>1, <1>2, <1>3 DEF OwnerRight

(* Who owns the lock after a step, from who holds it after the step. *)
LEMMA OwnerAfter ==
    ASSUME IInv, IInv'
    PROVE  /\ (\A u \in Threads : Holds(u)' <=> Holds(u)) => Owner' = Owner
           /\ \A t \in Threads : Owner' = t <=> Holds(t)'
           /\ (\A u \in Threads : ~Holds(u)') => Owner' = Nobody
<1>1. OwnerRight /\ OwnerRight'
    BY OwnerIs, PTL
<1>2. ASSUME \A u \in Threads : Holds(u)' <=> Holds(u) PROVE Owner' = Owner
  <2>1. CASE \E u \in Threads : Holds(u)
    BY <2>1, <1>1, <1>2 DEF OwnerRight
  <2>2. CASE \A u \in Threads : ~Holds(u)
    BY <2>2, <1>1, <1>2 DEF OwnerRight
  <2>3. QED BY <2>1, <2>2
<1>3. QED BY <1>1, <1>2 DEF OwnerRight

(* Each step of a thread is its step of Lock, or changes nothing there.    *)
LEMMA StepRefines ==
    ASSUME IInv, IInv', NEW t \in Threads, Step(t)
    PROVE  \/ Abstract!Ask(t) \/ Abstract!Acquire(t)
           \/ Abstract!GiveUp(t) \/ Abstract!Release(t)
           \/ UNCHANGED <<Asking, Owner>>
<1> USE DEF Asking, Holds
<1>0. TypeOK /\ OwnerRight /\ UnlockFindsLock /\ WordTellsHolder
    BY OwnerIs DEF IInv
<1> DEFINE SameHolders == \A u \in Threads : Holds(u)' <=> Holds(u)
<1>a. SameHolders => Owner' = Owner
    BY OwnerAfter
<1>b. \A u \in Threads : Owner' = u <=> Holds(u)'
    BY OwnerAfter
<1>c. (\A u \in Threads : ~Holds(u)') => Owner' = Nobody
    BY OwnerAfter
<1>d. \A u \in Threads : Owner = u <=> Holds(u)
    BY <1>0 DEF OwnerRight
<1>1. CASE TryLock(t) /\ word = UNLOCKED
  <2>1. pc[t] = "lock" /\ pc' = [pc EXCEPT ![t] = "cs"]
    BY <1>1 DEF TryLock, Goto
  <2>2. Owner = Nobody
    BY <1>0, <1>1 DEF OwnerRight, UnlockFindsLock
  <2>3. Owner' = t
    BY <2>1, <1>b, <1>0 DEF TypeOK
  <2>4. Asking' = Asking \ {t} /\ t \in Asking
    BY <2>1, <1>0 DEF TypeOK
  <2>5. QED BY <2>2, <2>3, <2>4 DEF Abstract!Acquire
<1>2. CASE TryLock(t) /\ word # UNLOCKED
  <2>1. SameHolders /\ Asking' = Asking
    BY <1>2, <1>0 DEF TryLock, Goto, TypeOK
  <2>2. QED BY <2>1, <1>a
<1>3. CASE MarkContended(t) \/ WaitLock(t)
  <2>1. SameHolders /\ Asking' = Asking
    BY <1>3, <1>0 DEF MarkContended, WaitLock, Goto, TypeOK
  <2>2. QED BY <2>1, <1>a
<1>4. CASE WaitReturns(t) /\ answer[t] = "success"
  <2>1. SameHolders /\ Asking' = Asking
    BY <1>4, <1>0 DEF WaitReturns, Goto, TypeOK
  <2>2. QED BY <2>1, <1>a
<1>5. CASE WaitReturns(t) /\ answer[t] # "success"
  <2>1. SameHolders /\ t \in Asking /\ Asking' = Asking \ {t}
    BY <1>5, <1>0 DEF WaitReturns, Goto, TypeOK
  <2>2. QED BY <2>1, <1>a DEF Abstract!GiveUp
<1>6. CASE CallLock(t)
  <2>1. SameHolders /\ t \notin Asking /\ ~Holds(t) /\ Asking' = Asking \cup {t}
    BY <1>6, <1>0 DEF CallLock, Goto, TypeOK
  <2>2. QED BY <2>1, <1>a, <1>d DEF Abstract!Ask
<1>7. CASE CallUnlock(t) \/ WakeAll(t)
  <2>1. SameHolders /\ Asking' = Asking
    BY <1>7, <1>0 DEF CallUnlock, WakeAll, Goto, TypeOK
  <2>2. QED BY <2>1, <1>a
<1>8. CASE UnlockFast(t) /\ word # UNCONTENDED
  <2>1. SameHolders /\ Asking' = Asking
    BY <1>8, <1>0 DEF UnlockFast, Goto, TypeOK
  <2>2. QED BY <2>1, <1>a
<1>9. CASE (UnlockFast(t) /\ word = UNCONTENDED) \/ UnlockSlow(t)
  <2>1. /\ Holds(t) /\ Asking' = Asking
        /\ \A u \in Threads : ~Holds(u)'
    <3>1. word = CONTENDED \/ UnlockFast(t)
        BY <1>0, <1>9 DEF UnlockSlow, UnlockFindsLock
    <3>2. pc[t] \in {"unlock", "unlock2"} /\ \E x \in {"out", "wake"} : pc' = [pc EXCEPT ![t] = x]
        BY <1>9, <3>1 DEF UnlockFast, UnlockSlow, Goto
    <3>3. \A u \in Threads : Holds(u) => u = t
        BY <3>2 DEF IInv, MutualExclusion
    <3>4. QED BY <3>2, <3>3, <1>0 DEF TypeOK
  <2>2. Owner = t /\ Owner' = Nobody
    BY <2>1, <1>c, <1>d
  <2>3. QED BY <2>1, <2>2 DEF Abstract!Release
<1>10. CASE CleanupMutex(t) \/ InitMutex(t)
  <2>1. pc' = pc
    BY <1>10 DEF CleanupMutex, InitMutex
  <2>2. SameHolders /\ Asking' = Asking
    BY <2>1
  <2>3. QED BY <2>2, <1>a
<1>11. QED
    BY <1>1, <1>2, <1>3, <1>4, <1>5, <1>6, <1>7, <1>8, <1>9, <1>10
    DEF Step, Proceed

LEMMA InitRefines == Init => Abstract!LockInit
<1> SUFFICES ASSUME Init PROVE Abstract!LockInit
    OBVIOUS
<1>1. \A t \in Threads : pc[t] = "out"
    BY DEF Init
<1>2. Owner = Nobody /\ Asking = {}
    BY <1>1 DEF Owner, Holds, Asking
<1>3. QED BY <1>2 DEF Abstract!LockInit, Asking

(* The mutex implements the abstract lock: a lock call that returns        *)
(* success has the lock, one that fails does not, and only the owner gives *)
(* it up.                                                                  *)
THEOREM MutexImplementsLock == Spec => ImplementsLock
<1>1. IInv /\ IInv' /\ [Next]_vars => [Abstract!LockNext]_<<Asking, Owner>>
  <2> SUFFICES ASSUME IInv, IInv', [Next]_vars
               PROVE  [Abstract!LockNext]_<<Asking, Owner>>
    OBVIOUS
  <2>1. CASE Next
    <3>1. PICK t \in Threads : Step(t)
        BY <2>1 DEF Next
    <3>2. QED BY <3>1, StepRefines DEF Abstract!LockNext
  <2>2. CASE UNCHANGED vars
    BY <2>2 DEF vars, Asking, Owner, Holds
  <2>3. QED BY <2>1, <2>2
<1>2. [Abstract!LockNext]_<<Asking, Owner>> => [Abstract!LockNext]_(Abstract!lockVars)
    BY DEF Abstract!lockVars, Asking
<1>3. QED
    BY <1>1, <1>2, InitIInv, Inductive, InitRefines, PTL
    DEF Spec, ImplementsLock, Abstract!LockSpec
=============================================================================
