----------------------------- MODULE BinaryNode -----------------------------
(***************************************************************************)
(* Nodes of the binary search trees (dbdb/binary_tree.py) and the          *)
(* references to them.  A reference is the node it leads to; mem says      *)
(* whether it has been followed, so that its referent is in memory.        *)
(***************************************************************************)
EXTENDS TreeValues, Integers, Sequences

\* ValueRef.get: a reference that is followed is in memory from then on.
Follow(ref) == IF ref = Nil THEN Nil ELSE [ref EXCEPT !.mem = TRUE]
Look(n) == [n EXCEPT !.l = Follow(@), !.r = Follow(@)]

NewNode(k, v) == [l |-> Nil, key |-> k, val |-> v, r |-> Nil,
                  len |-> 1, h |-> 0, mem |-> TRUE]

\* BinaryNodeRef.length, which an unloaded reference does not know.
Known(ref) == ref = Nil \/ ref.mem
Length(ref) == IF ref = Nil THEN 0 ELSE ref.len

\* BinaryNode.from_node with a new left or right reference; exceptions of
\* the call that made the reference, and of length, propagate.
WithLeft(n, ref) ==
    CASE n \in Errors -> n
      [] ref \in Errors -> ref
      [] ~Known(n.l) \/ ~Known(ref) -> Internal
      [] OTHER -> [n EXCEPT !.l = ref, !.len = @ + Length(ref) - Length(n.l)]

\* SLIP: the length of the copied node is not adjusted.
LengthKept(n, ref) ==
    CASE n \in Errors -> n
      [] ref \in Errors -> ref
      [] ~Known(n.r) \/ ~Known(ref) -> Internal
      [] OTHER -> [n EXCEPT !.r = ref]

WithRight(n, ref) ==
    CASE n \in Errors -> n
      [] ref \in Errors -> ref
      [] ~Known(n.r) \/ ~Known(ref) -> Internal
      [] OTHER -> [n EXCEPT !.r = ref, !.len = @ + Length(ref) - Length(n.r)]

\* SLIP: the left reference is not followed.
NotLooked(n) == n

LookLeft(n) == [n EXCEPT !.l = Follow(@)]
LookRight(n) == [n EXCEPT !.r = Follow(@)]

\* _get
RECURSIVE BinGet(_, _)
BinGet(n, k) ==
    CASE n = Nil -> Absent
      [] n # Nil /\ k < n.key -> BinGet(n.l, k)
      [] n # Nil /\ n.key < k -> BinGet(n.r, k)
      [] OTHER -> n.val

\* The references a lookup follows.
RECURSIVE BinTouch(_, _)
BinTouch(n, k) ==
    IF n = Nil THEN Nil
    ELSE [Follow(n) EXCEPT !.l = IF k < n.key THEN BinTouch(@, k) ELSE @,
                           !.r = IF n.key < k THEN BinTouch(@, k) ELSE @]

\* _find_max, _find_min
RECURSIVE FindMax(_)
FindMax(n) == IF n.r = Nil THEN n ELSE FindMax(n.r)
RECURSIVE FindMin(_)
FindMin(n) == IF n.l = Nil THEN n ELSE FindMin(n.l)

\* _iter_items
RECURSIVE BinItems(_)
BinItems(n) ==
    IF n = Nil THEN <<>>
    ELSE BinItems(n.l) \o << <<n.key, n.val>> >> \o BinItems(n.r)

RECURSIVE InMemory(_, _)
InMemory(n, mem) ==
    IF n = Nil THEN Nil
    ELSE [n EXCEPT !.mem = mem, !.l = InMemory(@, mem), !.r = InMemory(@, mem)]
BinUnload(n) == InMemory(n, FALSE)
BinLoad(n) == InMemory(n, TRUE)
=============================================================================
