----------------------------- MODULE TreeProps -----------------------------
(***************************************************************************)
(* The shapes that keep the balanced trees shallow, stated of the tree of  *)
(* module LogicalTree when its hooks are those of AVLTree or BTree.        *)
(***************************************************************************)
EXTENDS LogicalTree, SequencesExt

RECURSIVE TrueHeight(_)
TrueHeight(n) ==
    IF n = Nil THEN -1 ELSE Higher(TrueHeight(n.l), TrueHeight(n.r)) + 1

RECURSIVE IsAvl(_)
IsAvl(n) ==
    n # Nil =>
        /\ n.h = TrueHeight(n)
        /\ Balance(n) \in -1..1
        /\ IsAvl(n.l) /\ IsAvl(n.r)

\* After every insert and delete, with any part of the tree still on disk, the
\* two sides of every node differ in height by one at most, and the heights
\* the nodes carry, from which the rotations are chosen, are the true ones.
AvlBalanced == plan.class = "avl" => IsAvl(tree)

RECURSIVE Depths(_)
Depths(n) ==
    IF n.leaf THEN {0}
    ELSE UNION {{d + 1 : d \in Depths(n.kids[i])} : i \in DOMAIN n.kids}

\* Keys of a node that is not the root: at least T - 1, at most 2T - 1.
RECURSIVE Filled(_, _)
Filled(n, least) ==
    /\ Len(n.keys) \in least..(2 * T - 1)
    /\ Len(n.vals) = Len(n.keys)
    /\ Len(n.kids) = IF n.leaf THEN 0 ELSE Len(n.keys) + 1
    /\ \A i \in DOMAIN n.kids : Filled(n.kids[i], T - 1)

\* Splits, borrows and merges keep every node of the B-tree between half full
\* and full, and every leaf at the same depth.
BTreeFilled ==
    IsBTree /\ tree \notin {Nil, NoTree} =>
        Filled(tree, 1) /\ Cardinality(Depths(tree)) = 1
=============================================================================
