------------------------------- MODULE Fat32 -------------------------------
(***************************************************************************)
(* The directories of a FAT32 volume (s_block_device/src/fat32_dir.c) on a *)
(* device that does not fail, in the clusters of their chains.             *)
(***************************************************************************)
EXTENDS FatTable, SequencesExt, FiniteSetsExt

CONSTANTS
    Names,
    NameParts           \* name -> the entries its characters take

(* What a directory entry can be, next to junk. *)
Term   == [kind |-> "term"]
Unused == [kind |-> "unused"]
Lfn(n, ord) == [kind |-> "lfn", name |-> n, ord |-> ord]
Sfn(alias, dir, start, size) ==
    [kind |-> "sfn", alias |-> alias, dir |-> dir, start |-> start, size |-> size]

-----------------------------------------------------------------------------
(* Directories: the entries of the chain, one after another.  Positions    *)
(* count from 1.                                                           *)

EntriesOf(v, d) ==
    LET c == ChainOf(v.fat, d) IN FlattenSeq([i \in DOMAIN c |-> v.data[c[i]]])

(* The volume with e as the entries of d. *)
WithEntries(v, d, e) ==
    LET c == ChainOf(v.fat, d) IN
    [v EXCEPT !.data = [x \in Slots |->
        IF x \notin Range(c) THEN @[x]
        ELSE LET i == CHOOSE k \in DOMAIN c : c[k] = x IN
             SubSeq(e, (i - 1) * PerCluster + 1, i * PerCluster)]]

EndOfCluster(i) == i % PerCluster = 0

(* fat32_next_dir_seq stops at the terminator or the end of the chain. *)
Live(e) == LET terms == {i \in DOMAIN e : e[i] = Term} IN
           IF terms = {} THEN e ELSE SubSeq(e, 1, Min(terms) - 1)

(* The search for free entries passes the terminator at i: it moves it on  *)
(* as it goes, within the cluster.                                         *)
Passed(e, i) ==
    \E t \in 1 .. i : e[t] = Term /\ \A j \in t .. i - 1 : ~EndOfCluster(j)

Usable(e, i) == e[i] = Unused \/ Passed(e, i)

(* Variant for a mutant: the terminator is not moved on. *)
SweptTo_Stay(e, n) ==
    [i \in DOMAIN e |-> IF i <= n /\ Usable(e, i) THEN Unused ELSE e[i]]

(* The entries once the search has gone as far as position n. *)
SweptTo(e, n) ==
    [i \in DOMAIN e |->
        IF i <= n /\ Usable(e, i) THEN Unused
        ELSE IF i = n + 1 /\ ~EndOfCluster(n) /\ Passed(e, n) THEN Term ELSE e[i]]

(* fat32_get_free_seq: the first len usable entries in a row.  A directory *)
(* that has none is swept to its end, and grows by a cluster at a time     *)
(* whose first entry is the terminator: no more often than there are slots. *)
FreeSeq(v, d, len) ==
    LET Search(u) ==
          LET e == EntriesOf(u, d)
              starts == {i \in DOMAIN e : i + len - 1 <= Len(e)
                                          /\ \A j \in i .. i + len - 1 : Usable(e, j)}
              swept == WithEntries(u, d, SweptTo(e, Len(e)))
              Grown(p) == [Link(p.v, EndOf(ChainOf(p.v.fat, d)), p.slot)
                             EXCEPT !.data[p.slot][1] = Term]
          IN  IF starts # {}
              THEN LET i == Min(starts) IN
                   {[v |-> WithEntries(u, d, SweptTo(e, i + len - 1)), at |-> i, done |-> TRUE]}
              ELSE {IF p.slot = NoSpace THEN [v |-> p.v, at |-> NoSpace, done |-> TRUE]
                    ELSE [v |-> Grown(p), at |-> NoSpace, done |-> FALSE] : p \in PopFree(swept)}
        found[n \in 0 .. NumSlots] ==
          IF n = 0 THEN {[v |-> v, at |-> NoSpace, done |-> FALSE]}
          ELSE UNION {IF f.done THEN {f} ELSE Search(f.v) : f \in found[n - 1]}
    IN  found[NumSlots]

(* fat32_new_seq: the parts of the long name, the last one first, and then *)
(* the short entry.                                                        *)
NewSeq(v, d, parts, n, sfn) ==
    LET Put(e, at) == [i \in DOMAIN e |->
            IF i \in at .. at + parts - 1 THEN Lfn(n, parts - (i - at))
            ELSE IF i = at + parts THEN sfn ELSE e[i]]
    IN  {[v |-> IF f.at = NoSpace THEN f.v
                ELSE WithEntries(f.v, d, Put(EntriesOf(f.v, d), f.at)),
          slot |-> f.at] : f \in FreeSeq(v, d, parts + 1)}

(* fat32_new_dir *)
NewDir(v) ==
    {[v |-> IF p.slot = NoSpace THEN p.v ELSE [p.v EXCEPT !.data[p.slot][1] = Term],
      slot |-> p.slot] : p \in PopFree(v)}

-----------------------------------------------------------------------------
(* Reading a directory *)

IsSfn(e, i) == i \in DOMAIN e /\ e[i].kind = "sfn"

(* The positions of the sequences of entries: where each ends, and where   *)
(* the one that ends at i begins.                                          *)
SeqEnds(e) == {i \in DOMAIN Live(e) : IsSfn(e, i)}
SeqStart(e, i) ==
    Min({j \in 1 .. i : \A k \in j .. i - 1 : e[k].kind = "lfn"})

(* fat32_get_dir_seq_lfn: the sequence that ends at i has n for its name. *)
HasName(e, i, n) ==
    /\ i - SeqStart(e, i) = NameParts[n]
    /\ \A k \in 1 .. NameParts[n] : e[i - k] = Lfn(n, k)

(* fat32_find_lfn *)
FindLfn(v, d, n) ==
    LET e == EntriesOf(v, d)
        found == {i \in SeqEnds(e) : HasName(e, i, n)}
    IN  IF found = {} THEN 0 ELSE Min(found)

(* What fat32_fs_remove and fat32_fs_get_node_info count as a node. *)
Named(e) == {i \in SeqEnds(e) : \E n \in Names : HasName(e, i, n)}

(* fat32_erase_seq, of the sequence that ends at position at *)
EraseSeq(v, d, at) ==
    LET e == EntriesOf(v, d) IN
    WithEntries(v, d, [i \in DOMAIN e |->
        IF i \in SeqStart(e, at) .. at THEN Unused ELSE e[i]])
=============================================================================
