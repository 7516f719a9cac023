------------------------------ MODULE FileTree ------------------------------
(***************************************************************************)
(* What s_block_device/include/s_block_device/file_sys.h promises of any   *)
(* file system: a tree of directories and files, with unique names in each *)
(* directory, of which a call changes one node or, if it fails, nothing.   *)
(* A node is known by the first slot of its chain, which is what the keys  *)
(* of the FAT32 file system compare.                                       *)
(***************************************************************************)
EXTENDS Naturals

CONSTANTS
    Nodes, Root,
    Names,
    MaxSize     \* bound: the longest file, in clusters

VARIABLE tree   \* node -> [dir, up, name, size], for the nodes that exist

Sizes == 0 .. MaxSize
Node(dir, up, name) == [dir |-> dir, up |-> up, name |-> name, size |-> 0]

Exists == DOMAIN tree
IsDir(d) == d \in Exists /\ tree[d].dir
IsFile(f) == f \in Exists /\ ~tree[f].dir
Children(d) == {x \in Exists \ {Root} : tree[x].up = d}
Child(d, n) == {x \in Children(d) : tree[x].name = n}

TreeInit == tree = [d \in {Root} |-> Node(TRUE, Root, "/")]

(* fs_touch and fs_mkdir *)
NewNode(d, n, dir) ==
    /\ IsDir(d) /\ Child(d, n) = {}
    /\ \E x \in Nodes \ Exists :
          tree' = [y \in Exists \cup {x} |-> IF y = x THEN Node(dir, d, n) ELSE tree[y]]

(* fs_remove: never a directory that has anything in it. *)
Remove(d, n) ==
    \E x \in Child(d, n) :
        /\ Children(x) = {}
        /\ tree' = [y \in Exists \ {x} |-> tree[y]]

(* fs_resize *)
Resize(f, size) == IsFile(f) /\ tree' = [tree EXCEPT ![f].size = size]

TreeNext ==
    \/ \E d \in Exists, n \in Names :
          NewNode(d, n, TRUE) \/ NewNode(d, n, FALSE) \/ Remove(d, n)
    \/ \E f \in Exists, size \in Sizes : Resize(f, size)

TreeSpec == TreeInit /\ [][TreeNext]_tree
=============================================================================
