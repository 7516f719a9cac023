---------------------------- MODULE SharedMemory ----------------------------
(***************************************************************************)
(* Processes' memory and the shared ranges of k_startup/src/plugin_shm.c.  *)
(* A range is mapped in the kernel for as long as it exists, and in each   *)
(* process whose bit it has; kernel plugins (the graphics plugin, with its *)
(* banks) hold ranges with a counter of their own.  Page 0 stands for what *)
(* is mapped in every space, page 1 for a program's and heap's pages,      *)
(* page 2 for the stack of a second thread.                                *)
(***************************************************************************)
EXTENDS PageTables

CONSTANTS
    Procs, First,
    Kernel, Template, Staging,  \* the spaces that belong to no process
    NumFree,    \* the length of the free list after the boot
    MaxRefs     \* bound: the most kernel references of a range

SharedStart == 3
Heap == 1
Stack == 2

(* Every process has a space, and the kernel, the template and the image   *)
(* of an exec have one each.  A table has room for the pages below the     *)
(* shared ones, which the first directories have in one table.             *)
ASSUME SpacesAssumption ==
    /\ Spaces = Procs \cup {Kernel, Template, Staging} /\ First \in Procs
    /\ {Kernel, Template, Staging} \cap Procs = {}
    /\ Kernel # Template /\ Kernel # Staging /\ Template # Staging
    /\ NumFree \in Nat /\ MaxRefs \in Nat
    /\ NumPages > SharedStart /\ TableSize > Heap

VARIABLES
    mem,
    pst,        \* "free", "live" or "zombie"
    ranges,     \* range_tree: records [start, end, kernel_refs, refs]
    fatal       \* the plugin found what it takes for corruption

memVars == <<mem, pst, ranges, fatal>>

(* What the first user space has: the pages every space has, and a heap.   *)
Mapped0(s, pg) ==
    IF s \in {Template, First} /\ pg = 0 THEN "identity"
    ELSE IF s = First /\ pg = Heap THEN "unique" ELSE "none"

(* After the boot: the kernel's directory, the template of the first user  *)
(* space, and the root process.  Free counts the pages that are left.      *)
MemInit ==
    /\ mem = [free |-> NumFree, pds |-> {Kernel, Template, First},
              tabs |-> [s \in Spaces |-> IF s \in {Template, First} THEN {0} ELSE {}],
              ent  |-> [s \in Spaces |-> [pg \in Pages |-> Mapped0(s, pg)]]]
    /\ pst = [p \in Procs |-> IF p = First THEN "live" ELSE "free"]
    /\ ranges = {} /\ fatal = FALSE

Lives(p) == ~fatal /\ pst[p] = "live"

-----------------------------------------------------------------------------
(* Private memory *)

(* ks_request_mem, ks_expand_stack: what was allocated is kept.  A thread  *)
(* whose stack cannot grow does not come back; see Exit.                         *)
RequestMem(p, pg) ==
    /\ Lives(p) /\ pg \in {Heap, Stack}
    /\ mem' = Alloc(mem, p, "unique", pg, pg + 1).m
    /\ UNCHANGED <<pst, ranges, fatal>>

(* ks_return_mem, and the stack of a thread that has ended. *)
ReturnMem(p, pg) ==
    /\ Lives(p) /\ pg \in {Heap, Stack}
    /\ mem' = Free(mem, p, FALSE, pg, pg + 1)
    /\ UNCHANGED <<pst, ranges, fatal>>

-----------------------------------------------------------------------------
(* Ranges *)

Overlaps(r, q) == r.start < q.end /\ q.start < r.end

Fits(a, len) ==
    a + len <= NumPages
    /\ \A r \in ranges : ~Overlaps([start |-> a, end |-> a + len], r)

(* find_shm_start: the first gap that is long enough, or 0. *)
FirstFit(len) ==
    LET fits == {a \in {SharedStart} \cup {r.end : r \in ranges} : Fits(a, len)} IN
    IF fits = {} THEN 0 ELSE CHOOSE a \in fits : \A b \in fits : a <= b

(* A state of memory and ranges, as the calls below pass it on. *)
State == [m |-> mem, rs |-> ranges]

(* Variant for a mutant: the kernel's references do not keep a range. *)
Collected_User(st, r) ==
    IF r.refs = {}
    THEN [m |-> Free(st.m, Kernel, TRUE, r.start, r.end), rs |-> st.rs \ {r}] ELSE st

(* plg_shm_check_gc *)
Collected(st, r) ==
    IF r.kernel_refs = 0 /\ r.refs = {}
    THEN [m |-> Free(st.m, Kernel, TRUE, r.start, r.end), rs |-> st.rs \ {r}] ELSE st

Changed(st, r, q) == [m |-> st.m, rs |-> (st.rs \ {r}) \cup {q}]

(* plg_shm_dec_shm *)
Released(st, r) ==
    LET q == [r EXCEPT !.kernel_refs = @ - 1] IN
    IF r.kernel_refs > 0 THEN Collected(Changed(st, r, q), q) ELSE st

(* plg_shm_unmap, and the body of the hook for one range *)
Unmapped(st, r, p) ==
    LET q == [r EXCEPT !.refs = @ \ {p}]
        freed == [m |-> Free(st.m, p, FALSE, r.start, r.end), rs |-> st.rs]
    IN  IF p \in r.refs THEN Collected(Changed(freed, r, q), q) ELSE st

(* plg_shm_map, with pd_copy_range's error *)
Mapped(st, r, p) ==
    LET c == Copy(st.m, p, Kernel, r.start, r.end) IN
    [m |-> c.m, err |-> c.err,
     rs |-> IF c.err = "none" THEN (st.rs \ {r}) \cup {[r EXCEPT !.refs = @ \cup {p}]}
            ELSE st.rs]

Becomes(st) == mem' = st.m /\ ranges' = st.rs

(* plg_shm_new_shm: a range the kernel holds once.  With no frames left it *)
(* gives back what it has got, tables that are there now excepted.         *)
NewRange(len) == [start |-> FirstFit(len), end |-> FirstFit(len) + len,
                  kernel_refs |-> 1, refs |-> {}]
Made(len) == Alloc(mem, Kernel, "shared", FirstFit(len), FirstFit(len) + len)

NewFails(len) ==
    LET a == Made(len) IN
    /\ a.err # "none"
    /\ IF a.err = "no_mem"
       THEN mem' = Free(a.m, Kernel, TRUE, FirstFit(len), a.at) /\ UNCHANGED fatal
       ELSE mem' = a.m /\ fatal' = TRUE
    /\ UNCHANGED ranges

(* PLG_SHM_KCID_NEW_SHM *)
KernelNew(len) ==
    /\ ~fatal /\ FirstFit(len) # 0
    /\ \/ NewFails(len)
       \/ /\ Made(len).err = "none" /\ mem' = Made(len).m
          /\ ranges' = ranges \cup {NewRange(len)} /\ UNCHANGED fatal
    /\ UNCHANGED pst

(* PLG_SHM_PCID_NEW_SHM: made for the kernel, mapped, and released; a      *)
(* pointer that cannot be written unmaps it again.                         *)
UserNew(p, len) ==
    /\ Lives(p) /\ FirstFit(len) # 0
    /\ \/ NewFails(len)
       \/ LET r  == NewRange(len)
              c  == Mapped([m |-> Made(len).m, rs |-> ranges \cup {r}], r, p)
              st == [m |-> c.m, rs |-> c.rs]
              r2 == IF c.err = "none" THEN [r EXCEPT !.refs = {p}] ELSE r
              done == Released(st, r2)
          IN  /\ Made(len).err = "none"
              /\ \/ Becomes(done)
                 \/ c.err = "none" /\ Becomes(Unmapped(done, [r2 EXCEPT !.kernel_refs = 0], p))
              /\ UNCHANGED fatal
    /\ UNCHANGED pst

(* PLG_SHM_KCID_SHM_INC and PLG_SHM_KCID_SHM_DEC *)
KernelInc(r) ==
    /\ ~fatal /\ r.kernel_refs < MaxRefs
    /\ ranges' = (ranges \ {r}) \cup {[r EXCEPT !.kernel_refs = @ + 1]}
    /\ UNCHANGED <<mem, pst, fatal>>

KernelDec(r) == ~fatal /\ Becomes(Released(State, r)) /\ UNCHANGED <<pst, fatal>>

(* PLG_SHM_KCID_SHM_MAP of a range that p has not, for its own call. *)
KernelMap(r, p) ==
    /\ Lives(p) /\ p \notin r.refs
    /\ LET c == Mapped(State, r, p) IN Becomes([m |-> c.m, rs |-> c.rs])
    /\ UNCHANGED <<pst, fatal>>

(* PLG_SHM_KCID_SHM_UNMAP, PLG_SHM_PCID_CLOSE_SHM *)
Unmap(r, p) ==
    /\ Lives(p) /\ p \in r.refs
    /\ Becomes(Unmapped(State, r, p)) /\ UNCHANGED <<pst, fatal>>

-----------------------------------------------------------------------------
(* Processes *)

(* plg_shm_on_fork_proc; the mappings came with the page directory. *)
Inherited(p, c) ==
    {IF p \in r.refs THEN [r EXCEPT !.refs = @ \cup {c}] ELSE r : r \in ranges}

(* new_process_fork: by one thread or the other, whose stack the child     *)
(* keeps; made is FALSE when the heap has no room for the rest of it.      *)
Fork(p, c, second, made) ==
    LET copy == CopyDirectory(mem, c, p) IN
    /\ Lives(p) /\ pst[c] = "free"
    /\ IF copy.err = "none" /\ made
       THEN /\ mem' = IF second THEN copy.m ELSE Free(copy.m, c, FALSE, Stack, Stack + 1)
            /\ pst' = [pst EXCEPT ![c] = "live"] /\ ranges' = Inherited(p, c)
       ELSE /\ mem' = IF copy.err = "none" THEN DeleteDirectory(copy.m, c) ELSE copy.m
            /\ UNCHANGED <<pst, ranges>>
    /\ UNCHANGED fatal

(* plg_shm_on_reset_or_reap_proc: the ranges in the order of the tree, by  *)
(* their starts.                                                           *)
UnmappedAt(st, a, p) ==
    IF \E r \in st.rs : r.start = a
    THEN Unmapped(st, CHOOSE r \in st.rs : r.start = a, p) ELSE st

Unshared(st, p) ==
    LET f[a \in 0 .. NumPages] == IF a = 0 THEN st ELSE UnmappedAt(f[a - 1], a - 1, p)
    IN  f[NumPages]

(* new_user_app_pd: a copy of the template with the program's pages. *)
Image ==
    LET copy == CopyDirectory(mem, Staging, Template)
        r == Alloc(copy.m, Staging, "unique", Heap, Heap + 1)
    IN  IF copy.err # "none" THEN copy
        ELSE IF r.err = "none" THEN r ELSE [r EXCEPT !.m = DeleteDirectory(r.m, Staging)]

(* ks_exec: first the new image, without which the call fails; then the    *)
(* plugin's hook, then the old directory.                                  *)
Exec(p) ==
    /\ Lives(p)
    /\ IF Image.err = "none"
       THEN LET st == Unshared([m |-> Image.m, rs |-> ranges], p) IN
            /\ mem' = Moved(DeleteDirectory(st.m, p), p, Staging) /\ ranges' = st.rs
       ELSE mem' = Image.m /\ UNCHANGED ranges
    /\ UNCHANGED <<pst, fatal>>

Exit(p) ==
    /\ Lives(p) /\ p # First
    /\ pst' = [pst EXCEPT ![p] = "zombie"] /\ UNCHANGED <<mem, ranges, fatal>>

(* The hook, then delete_process. *)
Reap(p) ==
    LET st == Unshared(State, p) IN
    /\ ~fatal /\ pst[p] = "zombie" /\ pst' = [pst EXCEPT ![p] = "free"]
    /\ mem' = DeleteDirectory(st.m, p) /\ ranges' = st.rs /\ UNCHANGED fatal

MemNext ==
    \/ \E p \in Procs :
        \/ \E pg \in {Heap, Stack} : RequestMem(p, pg) \/ ReturnMem(p, pg)
        \/ \E len \in 1 .. NumPages - SharedStart : UserNew(p, len)
        \/ \E r \in ranges : KernelMap(r, p) \/ Unmap(r, p)
        \/ \E c \in Procs, second, made \in BOOLEAN : Fork(p, c, second, made)
        \/ Exec(p) \/ Exit(p) \/ Reap(p)
    \/ \E len \in 1 .. NumPages - SharedStart : KernelNew(len)
    \/ \E r \in ranges : KernelInc(r) \/ KernelDec(r)

MemSpec == MemInit /\ [][MemNext]_memVars

-----------------------------------------------------------------------------
(* No page is ever lost, or pushed on the free list while it is in use,    *)
(* whatever calls failed half way: those in use and those on the list are  *)
(* together as many as after the boot.                                     *)
FramesAccounted == WellFormed(mem) /\ mem.free + InUse(mem, Kernel) = NumFree + 6

(* Ranges do not overlap, are mapped in the kernel as a whole, exist as    *)
(* long as somebody holds them and no longer, and their holders exist; so  *)
(* the allocation of a new range never meets a page that is there already. *)
(* A process sees a shared page exactly if it has the bit of the range the *)
(* page is in: no mapping outlives its range, to show the process pages    *)
(* that belong to somebody else by then, and no bit stands for pages that  *)
(* are not mapped.                                                         *)
RangesAreHeld ==
    /\ ~fatal
    /\ \A p \in Procs : \A pg \in SharedStart .. NumPages - 1 :
        mem.ent[p][pg] =
            IF \E r \in ranges : r.start <= pg /\ pg < r.end /\ p \in r.refs
            THEN "shared" ELSE "none"
    /\ \A r, q \in ranges : r # q => ~Overlaps(r, q)
    /\ \A r \in ranges : /\ r.start < r.end /\ r.kernel_refs + Cardinality(r.refs) > 0
                         /\ \A p \in r.refs : pst[p] # "free"
    /\ \A pg \in Pages : mem.ent[Kernel][pg] =
            IF \E r \in ranges : r.start <= pg /\ pg < r.end THEN "shared" ELSE "none"

(* Pages are in use once, or free, and none is lost on an error path; and  *)
(* shared ranges are mapped for all, and only for those, that hold them.   *)
FramesAreHeld == FramesAccounted /\ RangesAreHeld

(* The range r is there after the step, and the kernel holds it n times. *)
StaysHeld(r, n) ==
    \E q \in ranges' : q.start = r.start /\ q.end = r.end /\ q.kernel_refs = n

(* A range that the kernel holds, were it only once, is as it was, with    *)
(* its kernel's references, after every step but the kernel's own: no      *)
(* unmap, exec or reap of a process, no allocation that fails half way and *)
(* no release of another range takes it away or changes its count.  A      *)
(* release of the range itself takes one reference, and the range goes     *)
(* only with the last one, when no process has it either.  The graphics    *)
(* plugin holds each bank once, from plugin_gfx.c:606 to 638, and thus     *)
(* never draws into a bank that is gone.                                   *)
HeldRangesStay ==
    \A r \in ranges : r.kernel_refs > 0 =>
        \/ StaysHeld(r, r.kernel_refs)
        \/ KernelInc(r) /\ StaysHeld(r, r.kernel_refs + 1)
        \/ KernelDec(r) /\ \/ StaysHeld(r, r.kernel_refs - 1)
                           \/ r.kernel_refs = 1 /\ r.refs = {}

KernelKeepsRanges == [][HeldRangesStay]_memVars
=============================================================================
