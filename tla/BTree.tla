------------------------------- MODULE BTree -------------------------------
(***************************************************************************)
(* The B-tree of minimum degree T (dbdb/btree.py).  A node has its keys,   *)
(* their values, its children and the length the code stores with it.     *)
(* Positions count from 1.                                                 *)
(***************************************************************************)
EXTENDS TreeValues, Integers, Sequences, FiniteSets

CONSTANT T  \* minimum degree

BNode(keys, vals, kids, len, leaf) ==
    [keys |-> keys, vals |-> vals, kids |-> kids, len |-> len, leaf |-> leaf]

\* s with positions i..j-1 replaced by t, as s[:i] + t + s[j:].
Splice(s, i, j, t) == SubSeq(s, 1, i - 1) \o t \o SubSeq(s, j, Len(s))
Up(s, i) == SubSeq(s, 1, IF i < Len(s) THEN i ELSE Len(s))
From(s, i) == SubSeq(s, i, Len(s))

\* Where key k is, or the child it belongs to.
Pos(n, k) == Cardinality({i \in DOMAIN n.keys : n.keys[i] < k}) + 1
Here(n, k) == \E i \in DOMAIN n.keys : n.keys[i] = k

RECURSIVE Total(_)
Total(s) == IF s = <<>> THEN 0 ELSE Head(s).len + Total(Tail(s))

-----------------------------------------------------------------------------
(* Lookup and iteration. *)

\* _get
RECURSIVE BTreeGet(_, _)
BTreeGet(n, k) ==
    CASE n = Nil -> Absent
      [] n # Nil /\ Here(n, k) -> n.vals[Pos(n, k)]
      [] OTHER -> IF n.leaf THEN Absent ELSE BTreeGet(n.kids[Pos(n, k)], k)

\* iter_items
RECURSIVE BTreeItems(_)
BTreeItems(n) ==
    LET Pair(i) == << <<n.keys[i], n.vals[i]>> >>
        Go[i \in 0..Len(n.keys)] ==
            IF i = 0 THEN (IF n.leaf THEN <<>> ELSE BTreeItems(n.kids[1]))
            ELSE Go[i - 1] \o Pair(i)
                   \o (IF n.leaf THEN <<>> ELSE BTreeItems(n.kids[i + 1]))
    IN  IF n = Nil THEN <<>> ELSE Go[Len(n.keys)]

BTreeLength(n) == IF n = Nil THEN 0 ELSE n.len

-----------------------------------------------------------------------------
(* Insertion. *)

\* SLIP: off by one.
IsOverfull(n) == Len(n.keys) = 2 * T

IsFull(n) == Len(n.keys) = 2 * T - 1

\* _split_child: the keys on either side of the median become two nodes.
Half(n, keys, vals, kids) ==
    BNode(keys, vals, kids,
          IF n.leaf THEN Len(keys) ELSE Total(kids) + Len(keys), n.leaf)

\* The left half of child i gets its first m keys.
SplitAfter(parent, i, m) ==
    LET c == parent.kids[i]
        left == Half(c, Up(c.keys, m), Up(c.vals, m), Up(c.kids, T))
        right == Half(c, From(c.keys, T + 1), From(c.vals, T + 1), From(c.kids, T + 1))
    IN  [parent EXCEPT !.keys = Splice(@, i, i, <<c.keys[T]>>),
                       !.vals = Splice(@, i, i, <<c.vals[T]>>),
                       !.kids = Splice(@, i, i + 1, <<left, right>>)]

\* SLIP: the median stays in the left half as well.
SplitKeepsMedian(parent, i) == SplitAfter(parent, i, T)

SplitChild(parent, i) == SplitAfter(parent, i, T - 1)

\* _insert_non_full.  Only a leaf is searched for the key itself.
RECURSIVE InsertNonFull(_, _, _)
InsertNonFull(n, k, v) ==
    IF n.leaf
    THEN IF Here(n, k) THEN [n EXCEPT !.vals[Pos(n, k)] = v]
         ELSE [n EXCEPT !.keys = Splice(@, Pos(n, k), Pos(n, k), <<k>>),
                        !.vals = Splice(@, Pos(n, k), Pos(n, k), <<v>>),
                        !.len = @ + 1]
    ELSE LET i == Pos(n, k)
             m == IF IsFull(n.kids[i]) THEN SplitChild(n, i) ELSE n
         IN  [m EXCEPT !.kids[Pos(m, k)] = InsertNonFull(@, k, v),
                       !.len = @ + 1]

\* _insert: a full root becomes the only child of a new one.
NewRoot(n) == BNode(<<>>, <<>>, <<n>>, n.len, FALSE)
BTreeInsert(n, k, v) ==
    CASE n = Nil -> BNode(<<k>>, <<v>>, <<>>, 1, TRUE)
      [] n # Nil /\ IsFull(n) -> InsertNonFull(SplitChild(NewRoot(n), 1), k, v)
      [] OTHER -> InsertNonFull(n, k, v)

-----------------------------------------------------------------------------
(* Deletion. *)

\* _merge_children
MergeChildren(left, k, v, right) ==
    BNode(left.keys \o <<k>> \o right.keys, left.vals \o <<v>> \o right.vals,
          left.kids \o right.kids, left.len + right.len + 1, left.leaf)

\* _merge_with_left (i - 1) and _merge_with_right (i): children i and i + 1
\* and the key between them become one child.
MergeAt(n, i) ==
    [n EXCEPT !.keys = Splice(@, i, i + 1, <<>>),
              !.vals = Splice(@, i, i + 1, <<>>),
              !.kids = Splice(@, i, i + 2,
                         <<MergeChildren(@[i], n.keys[i], n.vals[i], @[i + 1])>>),
              !.len = @ - 1]

\* _borrow_from_left: key i - 1 of the parent goes down to the front of child
\* i, the last key of child i - 1 goes up, and its last child moves over.
BorrowFromLeft(n, i) ==
    LET s == n.kids[i - 1]
        c == n.kids[i]
        last == Len(s.keys)
        left == BNode(Up(s.keys, last - 1), Up(s.vals, last - 1),
                      Up(s.kids, Len(s.kids) - 1), s.len - 1, s.leaf)
        child == BNode(<<n.keys[i - 1]>> \o c.keys, <<n.vals[i - 1]>> \o c.vals,
                       From(s.kids, last + 1) \o c.kids, c.len + 1, c.leaf)
    IN  [n EXCEPT !.keys[i - 1] = s.keys[last], !.vals[i - 1] = s.vals[last],
                  !.kids = Splice(@, i - 1, i + 1, <<left, child>>)]

\* The mirror image: the first key of child i + 1 goes up.  kids are the
\* children that move over.
ShiftLeft(n, i, kids) ==
    LET s == n.kids[i + 1]
        c == n.kids[i]
        right == BNode(Tail(s.keys), Tail(s.vals), From(s.kids, 2), s.len - 1, s.leaf)
        child == BNode(Append(c.keys, n.keys[i]), Append(c.vals, n.vals[i]),
                       c.kids \o kids, c.len + 1, c.leaf)
    IN  [n EXCEPT !.keys[i] = s.keys[1], !.vals[i] = s.vals[1],
                  !.kids = Splice(@, i, i + 2, <<child, right>>)]

\* SLIP: the last child moves instead of the first.
BorrowLastChild(n, i) ==
    LET s == n.kids[i + 1] IN ShiftLeft(n, i, From(s.kids, Len(s.keys) + 1))

\* _borrow_from_right
BorrowFromRight(n, i) == ShiftLeft(n, i, Up(n.kids[i + 1].kids, 1))

Rich(n, i) == i \in DOMAIN n.kids /\ Len(n.kids[i].keys) >= T

\* _ensure_min_keys: the parent with a child that can spare a key, and the
\* position of that child.
EnsureMinKeys(n, i) ==
    CASE Rich(n, i) -> <<n, i>>
      [] ~Rich(n, i) /\ Rich(n, i - 1) -> <<BorrowFromLeft(n, i), i>>
      [] ~Rich(n, i) /\ ~Rich(n, i - 1) /\ Rich(n, i + 1) ->
           <<BorrowFromRight(n, i), i>>
      [] OTHER -> IF i > 1 THEN <<MergeAt(n, i - 1), i - 1>> ELSE <<MergeAt(n, i), i>>

\* _get_predecessor, _get_successor
RECURSIVE Rightmost(_)
Rightmost(n) ==
    IF n.leaf THEN <<n.keys[Len(n.keys)], n.vals[Len(n.keys)]>>
    ELSE Rightmost(n.kids[Len(n.kids)])
RECURSIVE Leftmost(_)
Leftmost(n) ==
    IF n.leaf THEN <<n.keys[1], n.vals[1]>> ELSE Leftmost(n.kids[1])

\* A root without keys gives way to its only child.
Shrink(n) == IF n.keys = <<>> /\ Len(n.kids) = 1 THEN n.kids[1] ELSE n

\* The node n with child i replaced by the result of a delete in it.
WithChild(n, i, result) ==
    IF result \in Errors THEN result
    ELSE Shrink([n EXCEPT !.kids[i] = result, !.len = @ - 1])

\* _delete, with _delete_internal_key
RECURSIVE BTreeDelete(_, _)
BTreeDelete(n, k) ==
    LET i == Pos(n, k)
        Take(kv, j) ==
            WithChild([n EXCEPT !.keys[i] = kv[1], !.vals[i] = kv[2]], j,
                      BTreeDelete(n.kids[j], kv[1]))
        merged == MergeChildren(n.kids[i], n.keys[i], n.vals[i], n.kids[i + 1])
        down == EnsureMinKeys(n, i)
    IN
    CASE n = Nil -> KeyError
      [] n # Nil /\ n.leaf /\ ~Here(n, k) -> KeyError
      [] n # Nil /\ n.leaf /\ Here(n, k) ->
           IF Len(n.keys) = 1 THEN NoTree
           ELSE [n EXCEPT !.keys = Splice(@, i, i + 1, <<>>),
                          !.vals = Splice(@, i, i + 1, <<>>),
                          !.len = @ - 1]
      [] n # Nil /\ ~n.leaf /\ ~Here(n, k) ->
           WithChild(down[1], down[2], BTreeDelete(down[1].kids[down[2]], k))
      [] OTHER ->
           CASE Rich(n, i) -> Take(Rightmost(n.kids[i]), i)
             [] ~Rich(n, i) /\ Rich(n, i + 1) -> Take(Leftmost(n.kids[i + 1]), i + 1)
             [] OTHER ->
                  WithChild([n EXCEPT !.keys = Splice(@, i, i + 1, <<>>),
                                      !.vals = Splice(@, i, i + 1, <<>>),
                                      !.kids = Splice(@, i, i + 2, <<merged>>)],
                            i, BTreeDelete(merged, k))
=============================================================================
