------------------------------ MODULE SearchTree ------------------------------
(***************************************************************************)
(* The binary search tree of s_data/src/binary_search_tree.c, which the    *)
(* kernel keeps its shared memory ranges in.  A pass over the tree removes *)
(* nodes as it goes, with the next one looked up before.  Values are       *)
(* different, so that a node can be named by its value.                    *)
(***************************************************************************)
EXTENDS Naturals, FiniteSets

CONSTANTS
    Values      \* what may be in the tree, in the order of its comparator

VARIABLES
    root,
    node,       \* value -> [left, right, parent], for the values in the tree
    iter,       \* where a pass is, or Null
    toVisit     \* the values the pass has still to see

treeVars == <<root, node, iter, toVisit>>

Null == 0
Members == DOMAIN node

ASSUME TreeAssumption == Values \subseteq Nat \ {Null}

TreeInit == root = Null /\ node = << >> /\ iter = Null /\ toVisit = {}

-----------------------------------------------------------------------------
(* Walks *)

Size == Cardinality(Members)

(* From node v on to next[v] until that is the node itself: no walk takes  *)
(* more steps than the tree has nodes.                                     *)
Walk(next, v) ==
    LET at[k \in 0 .. Size] == IF k = 0 THEN v ELSE next[at[k - 1]]
    IN  at[Size]

(* Along one side from node v to where it ends, in the links n. *)
Along(n, side, v) == Walk([x \in Members |-> IF n[x][side] = Null THEN x ELSE n[x][side]], v)

(* Up from node v until a parent is reached from its child on that side. *)
Higher(side, x) ==
    LET p == node[x].parent IN IF p = Null \/ node[p][side] = x THEN x ELSE p
UpFrom(side, v) == node[Walk([x \in Members |-> Higher(side, x)], v)].parent

(* Down from the root to node v, or to the node it would be a child of. *)
SideOf(v, x) == IF v < x THEN "left" ELSE "right"
Nearer(v, x) == IF x = v \/ node[x][SideOf(v, x)] = Null THEN x ELSE node[x][SideOf(v, x)]
Spot(v) == Walk([x \in Members |-> Nearer(v, x)], root)

(* bst_min, bst_max, bst_next, bst_prev, bst_find *)
MinOf == IF root = Null THEN Null ELSE Along(node, "left", root)
MaxOf == IF root = Null THEN Null ELSE Along(node, "right", root)
NextOf(v) == IF node[v].right # Null THEN Along(node, "left", node[v].right) ELSE UpFrom("left", v)
PrevOf(v) == IF node[v].left # Null THEN Along(node, "right", node[v].left) ELSE UpFrom("right", v)
Found(v)  == root # Null /\ Spot(v) = v

-----------------------------------------------------------------------------
(* Changes: link v of n on that side to w; neither need be there. *)
Relinked(n, v, side, w) == IF v = Null THEN n ELSE [n EXCEPT ![v][side] = w]

(* sbst_add; without memory it fails, like with a value that is there. *)
Add(v) ==
    \/ /\ ~Found(v)
       /\ LET p == IF root = Null THEN Null ELSE Spot(v)
              n == IF p = Null THEN node ELSE Relinked(node, p, SideOf(v, p), v)
          IN  node' = [w \in Members \cup {v} |->
                         IF w = v THEN [left |-> Null, right |-> Null, parent |-> p] ELSE n[w]]
       /\ root' = IF root = Null THEN v ELSE root
    \/ UNCHANGED <<root, node>>

(* Variant for a mutant: the hole the leftmost node leaves is not filled. *)
Picked_Hole(n, r) ==
    LET m == Along(n, "left", r) IN
    IF m = r THEN n
    ELSE Relinked(Relinked(Relinked(Relinked(n, m, "parent", Null), m, "right", r), r, "parent", m),
                  n[m].parent, "left", Null)

(* sbst_pick_minimum of the detached subtree at r: its leftmost node goes  *)
(* to the top, with the rest on its right.                                 *)
Picked(n, r) ==
    LET m == Along(n, "left", r)
        top == Relinked(Relinked(Relinked(n, m, "parent", Null), m, "right", r), r, "parent", m)
        q == n[m].parent
    IN  IF m = r THEN n
        ELSE Relinked(Relinked(top, q, "left", n[m].right), n[m].right, "parent", q)

(* What takes the place of node v, and the links inside its subtree. *)
Sub(v) == IF node[v].right # Null THEN Along(node, "left", node[v].right) ELSE node[v].left
Detached(v) ==
    IF node[v].right # Null
    THEN LET n == Picked(Relinked(node, node[v].right, "parent", Null), node[v].right)
         IN  Relinked(Relinked(n, Sub(v), "left", node[v].left), node[v].left, "parent", Sub(v))
    ELSE node

(* sbst_remove_node *)
RemoveNode(v) ==
    LET p == node[v].parent
        n == Relinked(Detached(v), Sub(v), "parent", p)
        n2 == Relinked(n, p, IF p # Null /\ node[p].left = v THEN "left" ELSE "right", Sub(v))
    IN  /\ node' = [w \in Members \ {v} |-> n2[w]]
        /\ root' = IF p = Null THEN Sub(v) ELSE root

(* bst_remove *)
Remove(v) == IF Found(v) THEN RemoveNode(v) ELSE UNCHANGED <<root, node>>

(* A pass: the next node is looked up before this one may be removed. *)
Idle  == iter = Null
Begin == Idle /\ iter' = MinOf /\ toVisit' = Members /\ UNCHANGED <<root, node>>
Visit ==
    /\ ~Idle /\ iter' = NextOf(iter) /\ toVisit' = toVisit \ {iter}
    /\ RemoveNode(iter) \/ UNCHANGED <<root, node>>

TreeNext ==
    \/ Idle /\ \E v \in Values : (Add(v) \/ Remove(v)) /\ UNCHANGED <<iter, toVisit>>
    \/ Begin \/ Visit

TreeSpec == TreeInit /\ [][TreeNext]_treeVars

-----------------------------------------------------------------------------
LeastOf(S)    == IF S = {} THEN Null ELSE CHOOSE v \in S : \A w \in S : v <= w
GreatestOf(S) == IF S = {} THEN Null ELSE CHOOSE v \in S : \A w \in S : w <= v

LinksAgree ==
    /\ root = Null <=> Members = {}
    /\ \A v \in Members : node[v].parent = Null <=> v = root
    /\ \A v \in Members, s \in {"left", "right"} :
          node[v][s] # Null => node[v][s] \in Members /\ node[node[v][s]].parent = v

(* Each value is found, and the walks go through them in order.            *)
WalksAreSorted ==
    /\ MinOf = LeastOf(Members) /\ MaxOf = GreatestOf(Members)
    /\ \A v \in Values : Found(v) <=> v \in Members
    /\ \A v \in Members : /\ NextOf(v) = LeastOf({w \in Members : w > v})
                          /\ PrevOf(v) = GreatestOf({w \in Members : w < v})

(* A pass sees every node once and in order, whatever it removes.          *)
PassSeesAll == iter = LeastOf(toVisit)

(* The tree is sorted and linked both ways, also for a pass that removes   *)
(* nodes as it goes.                                                       *)
TreeIsOrdered == LinksAgree /\ WalksAreSorted /\ PassSeesAll
=============================================================================
