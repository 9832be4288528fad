----------------------------- MODULE MCConnect -----------------------------
(* Instances of Connect for TLC. *)
EXTENDS Connect

CONSTANTS p1, p2, p3

\* Everybody asks for a B-tree, or p1 asks for an AVL tree.
Mixed == {[p \in Procs |-> 2], [p \in Procs |-> IF p = p1 THEN 1 ELSE 2]}
=============================================================================
