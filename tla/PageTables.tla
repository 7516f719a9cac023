----------------------------- MODULE PageTables -----------------------------
(***************************************************************************)
(* Page directories, page tables and the list of free pages, as the calls  *)
(* of k_startup/src/page.c and page_helpers.c leave them.  A memory is a   *)
(* record, and each call a function from one memory to the next; calls     *)
(* that can fail return the memory with their error.  Physical pages have  *)
(* no names here: the free list is its length, and a page in use is the    *)
(* directory, the table or the entry that holds it.                        *)
(***************************************************************************)
EXTENDS Naturals, FiniteSets

CONSTANTS
    Spaces,     \* address spaces, by the owner of the page directory
    NumPages,   \* page numbers are 0 .. NumPages - 1
    TableSize   \* entries of a table, 1024 in the code

ASSUME PagesAssumption == IsFiniteSet(Spaces) /\ NumPages \in Nat /\ TableSize \in Nat \ {0}

Pages      == 0 .. NumPages - 1
Table(pg)  == pg \div TableSize
Tables     == {Table(pg) : pg \in Pages}
PagesOf(t) == {pg \in Pages : Table(pg) = t}

(* The kinds of entry; "none" is one that is not present.  A shared entry  *)
(* is the kernel's or a copy of the kernel's for the same page.            *)
Kinds == {"none", "unique", "shared", "identity"}

Memory == [free : Nat,                          \* free_list_len
           pds  : SUBSET Spaces,                \* who has a directory
           tabs : [Spaces -> SUBSET Tables],    \* its tables that are present
           ent  : [Spaces -> [Pages -> Kinds]]]

Present(m, s, pg) == m.ent[s][pg] # "none"

(* pop_free_page and push_free_page, of n pages *)
Pop(m)     == [m EXCEPT !.free = @ - 1]
Push(m, n) == [m EXCEPT !.free = @ + n]

(* Page tables and entries of space s that get a page of the free list. *)
AddTable(m, s, t)       == [Pop(m) EXCEPT !.tabs[s] = @ \cup {t}]
AddPage(m, s, pg, kind) == [Pop(m) EXCEPT !.ent[s][pg] = kind]

-----------------------------------------------------------------------------
(* A call's result so far; at is the page it has come to. *)
Going(m, pg) == [m |-> m, err |-> "none", at |-> pg]
Failed(r, e) == [r EXCEPT !.err = e]

(* new_page_table of the table that page r.at needs, when there is none. *)
WithTable(r, s) ==
    LET t == Table(r.at) IN
    IF t \in r.m.tabs[s] THEN r
    ELSE IF r.m.free = 0 THEN Failed(r, "no_mem")
    ELSE Going(AddTable(r.m, s, t), r.at)

(* One round of pt_alloc_range, and its table's in pd_alloc_pages_p. *)
AllocNext(r0, s, kind) ==
    LET r == WithTable(r0, s) IN
    IF r.err # "none" THEN r
    ELSE IF Present(r.m, s, r.at) THEN Failed(r, "already")
    ELSE IF r.m.free = 0 THEN Failed(r, "no_mem")
    ELSE Going(AddPage(r.m, s, r.at, kind), r.at + 1)

(* pd_alloc_pages: what was allocated before an error stays, and at is the *)
(* caller's *true_e.                                                       *)
Alloc(m, s, kind, from, to) ==
    LET f[k \in 0 .. to - from] ==
            IF k = 0 THEN Going(m, from)
            ELSE IF f[k - 1].err # "none" THEN f[k - 1] ELSE AllocNext(f[k - 1], s, kind)
    IN  f[to - from]

(* Variant for a mutant: shared pages always go back to the list. *)
Owned_Always(returnShared) == {"unique", "shared"}

(* The kinds of entry whose page pt_free_range pushes. *)
Owned(returnShared) == {"unique"} \cup IF returnShared THEN {"shared"} ELSE {}

(* pd_free_pages: a table goes only when the range covers all of it. *)
Free(m, s, returnShared, from, to) ==
    LET range == {pg \in Pages : from <= pg /\ pg < to}
        whole == {t \in m.tabs[s] : PagesOf(t) \subseteq range}
        pages == {pg \in range : m.ent[s][pg] \in Owned(returnShared)}
    IN  [Push(m, Cardinality(pages) + Cardinality(whole)) EXCEPT
            !.ent[s] = [pg \in Pages |-> IF pg \in range THEN "none" ELSE m.ent[s][pg]],
            !.tabs[s] = @ \ whole]

(* One round of pt_copy_range: unique pages are copied, others shared. *)
CopyNext(r, d, s) ==
    LET kind == r.m.ent[s][r.at] IN
    IF Present(r.m, d, r.at) THEN Failed(r, "already")
    ELSE IF kind # "unique" THEN Going([r.m EXCEPT !.ent[d][r.at] = kind], r.at + 1)
    ELSE IF r.m.free = 0 THEN Failed(r, "no_mem")
    ELSE Going(AddPage(r.m, d, r.at, kind), r.at + 1)

(* The same with the tables of both directories: where the source has no   *)
(* table, the destination's, if any, must be empty.                        *)
CopyTabled(r, d, s) ==
    LET t == Table(r.at)
        r1 == WithTable(r, d)
    IN  IF t \in r.m.tabs[s] THEN IF r1.err # "none" THEN r1 ELSE CopyNext(r1, d, s)
        ELSE IF \E pg \in PagesOf(t) : Present(r.m, d, pg) THEN Failed(r, "already")
        ELSE Going(r.m, r.at + 1)

(* Variant for a mutant: an error leaves what was copied. *)
CleanedUp_Not(r, d, from) == r

(* The cleanup of both functions: the failed table's part, which is never  *)
(* all of it, so that the table stays; then the tables before it.          *)
CleanedUp(r, d, from) ==
    LET first == TableSize * Table(r.at)
        start == IF first > from THEN first ELSE from
    IN  IF r.err = "none" THEN r
        ELSE [r EXCEPT !.m = Free(Free(r.m, d, FALSE, start, r.at), d, FALSE, from, start)]

(* pd_copy_range *)
Copy(m, d, s, from, to) ==
    LET f[k \in 0 .. to - from] ==
            IF k = 0 THEN Going(m, from)
            ELSE IF f[k - 1].err # "none" THEN f[k - 1] ELSE CopyTabled(f[k - 1], d, s)
    IN  CleanedUp(f[to - from], d, from)

(* new_page_directory, and delete_page_directory *)
NewDirectory(m, s)    == [Pop(m) EXCEPT !.pds = @ \cup {s}]
DeleteDirectory(m, s) == [Push(Free(m, s, FALSE, 0, NumPages), 1) EXCEPT !.pds = @ \ {s}]

(* copy_page_directory into a space that has no directory *)
CopyDirectory(m, d, s) ==
    LET r == Copy(NewDirectory(m, d), d, s, 0, NumPages) IN
    IF m.free = 0 THEN Failed(Going(m, 0), "no_mem")
    ELSE IF r.err = "none" THEN r
    ELSE [r EXCEPT !.m = DeleteDirectory(r.m, d)]

(* proc->pd = new_pd, once the old directory is deleted. *)
Moved(m, d, s) ==
    [m EXCEPT !.pds = (@ \ {s}) \cup {d},
              !.tabs[d] = m.tabs[s], !.tabs[s] = {},
              !.ent[d] = m.ent[s], !.ent[s] = [pg \in Pages |-> "none"]]

-----------------------------------------------------------------------------
(* The physical pages that are in use: directories, tables, the pages that *)
(* one space owns, and the shared pages, which are the kernel's.           *)
TablesOf(m) == {x \in Spaces \X Tables : x[2] \in m.tabs[x[1]]}

PagesHeld(m, kernel) ==
    {x \in Spaces \X Pages :
        m.ent[x[1]][x[2]] \in {"unique"} \cup IF x[1] = kernel THEN {"shared"} ELSE {}}

InUse(m, kernel) ==
    Cardinality(m.pds) + Cardinality(TablesOf(m)) + Cardinality(PagesHeld(m, kernel))

(* Entries are in tables, and tables in directories. *)
WellFormed(m) ==
    \A s \in Spaces :
        /\ \A pg \in Pages : Present(m, s, pg) => Table(pg) \in m.tabs[s]
        /\ m.tabs[s] # {} => s \in m.pds
=============================================================================
