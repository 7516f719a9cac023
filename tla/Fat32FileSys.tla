---------------------------- MODULE Fat32FileSys ----------------------------
(***************************************************************************)
(* The FAT32 file system of s_block_device/src/fat32_file_sys.c: nodes     *)
(* made, removed and resized by path, here by the slot of the directory    *)
(* and the name.  Times, the random short names and the contents of files  *)
(* are left out.                                                           *)
(***************************************************************************)
EXTENDS Fat32

CONSTANTS
    Root,       \* root_dir_cluster
    MaxSize     \* bound: the longest file, in clusters

VARIABLES
    vol,
    tree        \* what vol stores, as FileTree sees it

fatVars == <<vol, tree>>

(* The nodes directory d lists, with their names. *)
Listed(v, d) ==
    LET e == EntriesOf(v, d) IN
    {[sfn |-> e[i], up |-> d, name |-> CHOOSE n \in Names : HasName(e, i, n)]
     : i \in Named(e)}

(* Node x and what a path can reach from it. *)
RECURSIVE Below(_, _)
Below(v, x) ==
    {x} \cup IF x.sfn.dir THEN UNION {Below(v, y) : y \in Listed(v, x.sfn.start)}
             ELSE {}

NodesOf(v) ==
    Below(v, [sfn |-> Sfn("own", TRUE, Root, 0), up |-> Root, name |-> "/"])

(* What a volume stores, as a tree. *)
TreeOf(v) ==
    LET nodes == NodesOf(v) IN
    [s \in {x.sfn.start : x \in nodes} |->
        LET x == CHOOSE y \in nodes : y.sfn.start = s IN
        [dir |-> x.sfn.dir, up |-> x.up, name |-> x.name, size |-> x.sfn.size]]

(* A formatted volume (init_fat32): the root's cluster with a terminator.  *)
FatInit ==
    /\ vol = [fat  |-> [x \in Slots |-> IF x = Root THEN Eoc ELSE FatFree],
              q    |-> << >>,
              data |-> [x \in Slots |-> IF x = Root
                                        THEN [JunkCluster EXCEPT ![1] = Term]
                                        ELSE JunkCluster]]
    /\ tree = TreeOf(vol)

Directories == {x \in DOMAIN tree : tree[x].dir}

-----------------------------------------------------------------------------
(* fat32_fs_new_subdir_chain: a cluster with "." and "..".  If there is no *)
(* room for them its chain is freed.                                       *)
NewSubdirChain(v, parent) ==
    UNION {IF h.slot = NoSpace THEN {h}
               ELSE {IF b.slot = NoSpace
                     THEN [v |-> FreeChain(b.v, h.slot), slot |-> NoSpace]
                     ELSE [v |-> b.v, slot |-> h.slot]
                     : b \in UNION {NewSeq(a.v, h.slot, 0, "..",
                                           Sfn("..", TRUE, parent, 0))
                                    : a \in NewSeq(h.v, h.slot, 0, ".",
                                                   Sfn(".", TRUE, h.slot, 0))}}
               : h \in NewDir(v)}

(* fat32_fs_new_node without room for its entry *)
Unmade(v, s) == FreeChain(v, s)

(* fat32_fs_new_node: a chain first, then the entry in the directory. *)
NewNode(v, d, n, dir) ==
    UNION {IF c.slot = NoSpace THEN {c.v}
           ELSE {IF s.slot = NoSpace THEN Unmade(s.v, c.slot) ELSE s.v
                 : s \in NewSeq(c.v, d, NameParts[n], n, Sfn("own", dir, c.slot, 0))}
           : c \in IF dir THEN NewSubdirChain(v, d) ELSE NewChain(v, 1)}

(* fat32_fs_touch, fat32_fs_mkdir *)
Touch(d, n) == FindLfn(vol, d, n) = 0 /\ vol' \in NewNode(vol, d, n, FALSE)
Mkdir(d, n) == FindLfn(vol, d, n) = 0 /\ vol' \in NewNode(vol, d, n, TRUE)

(* Variant for a mutant: a directory is not looked into. *)
Empty_Any(v, sfn) == TRUE

(* What fat32_fs_remove asks of a directory: no entry with a long name. *)
Empty(v, sfn) == ~sfn.dir \/ Named(EntriesOf(v, sfn.start)) = {}

(* fat32_fs_remove *)
RemoveNode(d, n) ==
    LET at == FindLfn(vol, d, n)
        sfn == EntriesOf(vol, d)[at]
    IN  /\ at # 0 /\ Empty(vol, sfn)
        /\ vol' = FreeChain(EraseSeq(vol, d, at), sfn.start)

(* fat32_fs_resize: a file always keeps one cluster, and without space     *)
(* neither its chain nor its entry changes.                                *)
Resize(d, n, size) ==
    LET at == FindLfn(vol, d, n)
        sfn == EntriesOf(vol, d)[at]
    IN  /\ at # 0 /\ ~sfn.dir
        /\ \E r \in ResizeChain(vol, sfn.start, IF size = 0 THEN 1 ELSE size) :
              vol' = IF r.slot = NoSpace THEN r.v
                     ELSE WithEntries(r.v, d,
                            [EntriesOf(r.v, d) EXCEPT ![at].size = size])

FatNext ==
    /\ \E d \in Directories, n \in Names :
          \/ Touch(d, n) \/ Mkdir(d, n) \/ RemoveNode(d, n)
          \/ \E size \in 0 .. MaxSize : Resize(d, n, size)
    /\ tree' = TreeOf(vol')

Spec == FatInit /\ [][FatNext]_fatVars

-----------------------------------------------------------------------------
(***************************************************************************)
(* Every slot in use belongs to one node, once, and every node's chain is  *)
(* in use to its end: no call, whether it succeeds or runs out of space    *)
(* half way, leaks a cluster or gives one to two nodes                     *)
(* (fat32.c:627-774, fat32_file_sys.c:407-615).  What waits in the queue   *)
(* of free slots is free, and in it once, although chains are freed behind *)
(* its back and it was read from the table long before (fat32.c:551-625).  *)
(***************************************************************************)
ClustersAccounted ==
    LET starts == {x.sfn.start : x \in NodesOf(vol)}
        SlotsOf(s) == Range(ChainOf(vol.fat, s))
    IN  /\ \A s \in starts : \A x \in SlotsOf(s) : vol.fat[x] # FatFree
        /\ \A s, t \in starts : s = t \/ SlotsOf(s) \cap SlotsOf(t) = {}
        /\ {x \in Slots : vol.fat[x] # FatFree} = UNION {SlotsOf(s) : s \in starts}
        /\ \A i \in DOMAIN vol.q : vol.fat[vol.q[i]] = FatFree
        /\ IsInjective(vol.q)

(***************************************************************************)
(* Up to the terminator, or to the end of its chain, a directory is whole  *)
(* sequences of a long name and a short entry, and unused entries: never   *)
(* what a cluster held before, nor a name that has lost a part, however    *)
(* the search for room has moved the terminator (fat32_dir.c:85-307).      *)
(***************************************************************************)
DirectoriesWellFormed ==
    \A d \in Directories :
        LET e == Live(EntriesOf(vol, d)) IN
        /\ \A i \in DOMAIN e :
              \/ e[i] = Unused
              \/ i \in Named(e) \/ (e[i].kind = "sfn" /\ e[i].alias # "own")
              \/ \E k \in Named(e) : i \in SeqStart(e, k) .. k - 1
        /\ d # Root => /\ e[1] = Sfn(".", TRUE, d, 0)
                       /\ e[2] = Sfn("..", TRUE, tree[d].up, 0)

(***************************************************************************)
(* The volume implements the tree of FileTree: each call changes what its  *)
(* path names and nothing else, a failed one nothing; the names of a       *)
(* directory stay unique, and "." and ".." lead where they should.         *)
(***************************************************************************)
Tree == INSTANCE FileTree WITH Nodes <- Slots
ImplementsTree == Tree!TreeSpec
=============================================================================
