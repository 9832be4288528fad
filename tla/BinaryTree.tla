----------------------------- MODULE BinaryTree -----------------------------
(* The unbalanced binary search tree (dbdb/binary_tree.py). *)
EXTENDS BinaryNode

\* _insert
RECURSIVE BstInsert(_, _, _)
BstInsert(n, k, v) ==
    CASE n = Nil -> NewNode(k, v)
      [] n # Nil /\ k < n.key -> WithLeft(LookLeft(Follow(n)), BstInsert(n.l, k, v))
      [] n # Nil /\ n.key < k -> WithRight(LookRight(Follow(n)), BstInsert(n.r, k, v))
      [] OTHER -> [Follow(n) EXCEPT !.val = v]

\* SLIP: the successor is copied and the predecessor deleted.
SuccessorInstead(n) == FindMin(n.r)

\* The node that takes the place of a deleted one with two children.
Replacement(n) == FindMax(n.l)

\* _delete
RECURSIVE BstDelete(_, _)
BstDelete(n, k) ==
    CASE n = Nil -> KeyError
      [] n # Nil /\ k < n.key -> WithLeft(LookLeft(Follow(n)), BstDelete(n.l, k))
      [] n # Nil /\ n.key < k -> WithRight(LookRight(Follow(n)), BstDelete(n.r, k))
      [] OTHER ->
           IF n.l = Nil \/ n.r = Nil
           THEN Follow(IF n.l # Nil THEN n.l ELSE n.r)
           ELSE LET m == Replacement(n)
                IN  WithLeft([Look(Follow(n)) EXCEPT !.key = m.key, !.val = m.val],
                             BstDelete(n.l, m.key))
=============================================================================
