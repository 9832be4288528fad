------------------------------ MODULE AVLTree ------------------------------
(* The height-balanced search tree (dbdb/avl_tree.py). *)
EXTENDS BinaryNode

Higher(a, b) == IF a > b THEN a ELSE b

\* _get_height: a leaf has height 0.
Height(ref) == IF ref = Nil THEN -1 ELSE ref.h

\* _get_balance_factor; it follows both references of n.
Balance(n) == IF n = Nil THEN 0 ELSE Height(n.l) - Height(n.r)

\* SLIP: the copied node keeps its height.
KeepHeight(n) == IF n \in Errors THEN n ELSE Look(n)

\* The height a copied node is given; the children are looked at.
UpdateHeight(n) ==
    IF n \in Errors THEN n
    ELSE [Look(n) EXCEPT !.h = Higher(Height(n.l), Height(n.r)) + 1]

\* SLIP: the old root keeps its left child.
RotateKeepsLeft(n) ==
    IF n \in Errors THEN n
    ELSE UpdateHeight(WithRight(Look(n.l), UpdateHeight(n)))

\* _right_rotate and _left_rotate.  The subtree that moves to the other side
\* must be in memory, from_node asks for its length.
RightRotate(n) ==
    IF n \in Errors THEN n
    ELSE LET up == Follow(n.l)
             down == UpdateHeight(WithLeft(LookLeft(n), up.r))
         IN  UpdateHeight(WithRight(up, down))

LeftRotate(n) ==
    IF n \in Errors THEN n
    ELSE LET up == Follow(n.r)
             down == UpdateHeight(WithRight(LookRight(n), up.l))
         IN  UpdateHeight(WithLeft(up, down))

\* Left-right and right-left cases.
RotateLeftRight(n) == RightRotate(WithLeft(n, LeftRotate(n.l)))
RotateRightLeft(n) == LeftRotate(WithRight(n, RightRotate(n.r)))

\* _insert, from the height of the copied node on.
RebalanceAfterInsert(m, k) ==
    LET n == UpdateHeight(m) IN
    CASE n \in Errors -> n
      [] Balance(n) > 1 /\ k < n.l.key -> RightRotate(n)
      [] Balance(n) > 1 /\ k > n.l.key -> RotateLeftRight(n)
      [] Balance(n) < -1 /\ k > n.r.key -> LeftRotate(n)
      [] Balance(n) < -1 /\ k < n.r.key -> RotateRightLeft(n)
      [] OTHER -> n

RECURSIVE AvlInsert(_, _, _)
AvlInsert(n, k, v) ==
    IF n = Nil THEN NewNode(k, v)
    ELSE RebalanceAfterInsert(
           CASE k < n.key -> WithLeft(LookLeft(Follow(n)), AvlInsert(n.l, k, v))
             [] n.key < k -> WithRight(LookRight(Follow(n)), AvlInsert(n.r, k, v))
             [] OTHER -> [Follow(n) EXCEPT !.val = v],
           k)

\* _delete, from the height of the copied node on.  The balance of the higher
\* child decides, and following its references puts them in memory.
RebalanceAfterDelete(m) ==
    LET n == UpdateHeight(m) IN
    IF n \in Errors THEN n
    ELSE LET left == [n EXCEPT !.l = Look(@)]
             right == [n EXCEPT !.r = Look(@)]
         IN  CASE Balance(n) > 1 /\ Balance(n.l) >= 0 -> RightRotate(left)
               [] Balance(n) > 1 /\ Balance(n.l) < 0 -> RotateLeftRight(left)
               [] Balance(n) < -1 /\ Balance(n.r) <= 0 -> LeftRotate(right)
               [] Balance(n) < -1 /\ Balance(n.r) > 0 -> RotateRightLeft(right)
               [] OTHER -> n

RECURSIVE AvlDelete(_, _)
AvlDelete(n, k) ==
    CASE n = Nil -> KeyError
      [] n # Nil /\ k < n.key ->
           RebalanceAfterDelete(WithLeft(LookLeft(Follow(n)), AvlDelete(n.l, k)))
      [] n # Nil /\ n.key < k ->
           RebalanceAfterDelete(WithRight(LookRight(Follow(n)), AvlDelete(n.r, k)))
      [] OTHER ->
           IF n.l = Nil \/ n.r = Nil
           THEN Follow(IF n.l # Nil THEN n.l ELSE n.r)
           ELSE LET m == FindMin(n.r)
                IN  RebalanceAfterDelete(WithRight(
                      [Look(Follow(n)) EXCEPT !.key = m.key, !.val = m.val],
                      AvlDelete(n.r, m.key)))

\* What rebalancing has looked at on the other side of a node below which a
\* delete came to `below`: nothing if the delete has failed there.
Beside(far, below) ==
    CASE below \in Errors -> far
      [] below \notin Errors /\ far # Nil /\ Height(far) > Height(below) + 1 ->
           Look(Follow(far))
      [] OTHER -> Follow(far)

\* The references that a _delete which fails leaves followed.
RECURSIVE AvlTouch(_, _)
AvlTouch(n, k) ==
    CASE n = Nil -> Nil
      [] n # Nil /\ k < n.key ->
           [Follow(n) EXCEPT !.l = AvlTouch(@, k), !.r = Beside(@, AvlDelete(n.l, k))]
      [] n # Nil /\ n.key < k ->
           [Follow(n) EXCEPT !.r = AvlTouch(@, k), !.l = Beside(@, AvlDelete(n.r, k))]
      [] OTHER ->
           IF n.l = Nil \/ n.r = Nil THEN Look(Follow(n))
           ELSE LET m == FindMin(n.r)
                IN  [Follow(n) EXCEPT !.r = AvlTouch(@, m.key),
                                      !.l = Beside(Follow(@), AvlDelete(n.r, m.key))]
=============================================================================
