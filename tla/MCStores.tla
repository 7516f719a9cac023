------------------------------ MODULE MCStores ------------------------------
(***************************************************************************)
(* What the kernel keeps its state in, one instance of each: the pages and *)
(* shared memory, the heap, the id tables, the search tree, the sleep      *)
(* queue, the cached disk, a FAT32 volume, chains on a volume that fails,  *)
(* and transfers of a file.  They do not meet, so each behaviour drives    *)
(* one of them, which `part` names, and the others stay as they were.      *)
(***************************************************************************)
EXTENDS TimedQueue, BlockCache, IdTable, Fat32Transfer, Fat32Chains, SharedMemory,
        SearchTree, SimpleHeap, TLC

CONSTANTS Names, NameParts, Root, MaxSize

(* The second name does not fit in one entry. *)
Parts == [n \in Names |-> IF n = "b" THEN 2 ELSE 1]

(* One cluster less is enough for chains than for a volume. *)
VolumeSlots == NumSlots + 1

(* The clusters of a file, out of order on the disk, and every request.    *)
OutOfOrder == <<7, 3, 4>>
AllOffsets == 0 .. FileSize - 1
AllLengths == 1 .. FileSize

VARIABLES part,
    volume, tree

F == INSTANCE Fat32FileSys WITH vol <- volume, NumSlots <- VolumeSlots

fatVars   == <<volume, tree>>
fileVars  == <<chainVars, transferVars>>
vars == <<part, memVars, heapVars, idVars, treeVars, cacheVars, fatVars, fileVars, timedVars>>

(* The other parts start, and stay, in one state. *)
SomeDisk == CHOOSE d \in [Sectors -> Contents] : TRUE

Init ==
    /\ part \in {"memory", "heap", "ids", "tree", "sleepers", "cache", "volume",
                "chains", "transfers"}
    /\ MemInit /\ HeapInit /\ IdInit /\ TreeInit /\ TimedInit
    /\ CacheInit /\ F!FatInit /\ ChainsInit /\ TransferInit
    /\ part # "cache" => disk = SomeDisk /\ \A e \in Entries : cache[e].sector = SomeDisk[0]

Next ==
    /\ UNCHANGED part
    /\ \/ /\ part = "memory" /\ MemNext
          /\ UNCHANGED <<heapVars, idVars, treeVars, cacheVars, fatVars, timedVars>>
       \/ /\ part = "heap" /\ HeapNext
          /\ UNCHANGED <<memVars, idVars, treeVars, cacheVars, fatVars, timedVars>>
       \/ /\ part = "ids" /\ IdNext
          /\ UNCHANGED <<memVars, heapVars, treeVars, cacheVars, fatVars, timedVars>>
       \/ /\ part = "tree" /\ TreeNext
          /\ UNCHANGED <<memVars, heapVars, idVars, cacheVars, fatVars, timedVars>>
       \/ /\ part = "sleepers" /\ TimedNext
          /\ UNCHANGED <<memVars, heapVars, idVars, treeVars, cacheVars, fatVars>>
       \/ /\ part = "cache" /\ CacheNext
          /\ UNCHANGED <<memVars, heapVars, idVars, treeVars, fatVars, timedVars>>
       \/ /\ part = "volume" /\ F!FatNext
          /\ UNCHANGED <<memVars, heapVars, idVars, treeVars, cacheVars, timedVars>>
       \/ /\ part = "chains" /\ ChainsNext
          /\ UNCHANGED <<memVars, heapVars, idVars, treeVars, cacheVars, fatVars, timedVars>>
       \/ /\ part = "transfers" /\ TransferNext
          /\ UNCHANGED <<memVars, heapVars, idVars, treeVars, cacheVars, fatVars, timedVars>>
    /\ part # "chains" => UNCHANGED chainVars
    /\ part # "transfers" => UNCHANGED transferVars

Spec == Init /\ [][Next]_vars

(* What is written, and the pieces of a sector, are alike. *)
Symmetry == Permutations(Bytes) \cup Permutations(Pieces)

-----------------------------------------------------------------------------
(* The properties are those of the parts' modules.                         *)

(* Every cluster of the volume is free or in one chain, none is leaked;    *)
(* and every directory can be read to its end, wherever its terminator     *)
(* went.                                                                   *)
VolumeIsSound == part = "volume" => F!ClustersAccounted /\ F!DirectoriesWellFormed

(* The volume is a tree of named nodes of which each call changes one.     *)
ImplementsTree == F!ImplementsTree
=============================================================================
