---------------------------- MODULE LogicalTree ----------------------------
(***************************************************************************)
(* One connection and its tree: LogicalBase of dbdb/logical.py with the    *)
(* hooks of the class the connection was opened with, called as            *)
(* dbdb/interface.py calls it.                                             *)
(*                                                                         *)
(* Nodes are values: every change copies the path to the root.  What a     *)
(* node carries besides is whether a reference to it has been followed,    *)
(* that is whether it is in memory: a writing session starts with the root *)
(* address only.  Outside a session nothing depends on what is in memory,  *)
(* and it is left out.  Locks and other connections are in module DBDB.    *)
(***************************************************************************)
EXTENDS BinaryTree, AVLTree, BTree

CONSTANTS
    Keys,      \* keys, numbers in the order of the strings
    Plans,     \* what a connection may be used for, see Plan
    MaxWrites, \* writes of one session (bound)
    MaxLost    \* deletes stop when the length of a B-tree is wrong by more (bound)

\* A plan is a tree class, the values its keys may be given (other keys are
\* left alone) and the order of the sets.  In order "any" present keys are set
\* again, in "fresh" only missing ones are set, in "up" and "down" the keys are
\* set in ascending or descending order, deletes begin when all are set, and
\* the key set last is deleted last.
Plan == [class : {"bst", "avl", "btree"}, values : SUBSET (Keys \X Nat),
         order : {"any", "fresh", "up", "down"}]

ASSUME PlansAssumption == Plans \subseteq Plan

VARIABLES
    plan,    \* how this connection is used
    tree,    \* what _tree_ref refers to
    stored,  \* what the root in the superblock refers to
    locked,  \* a writing session is open
    writes,  \* its writes
    answer   \* the last call, if it was a write, and how it ended

vars == <<plan, tree, stored, locked, writes, answer>>

-----------------------------------------------------------------------------
(* The hooks of the class. *)

IsBTree == plan.class = "btree"

\* _insert
Insert(t, k, v) ==
    CASE plan.class = "bst" -> BstInsert(t, k, v)
      [] plan.class = "avl" -> AvlInsert(t, k, v)
      [] plan.class = "btree" -> BTreeInsert(t, k, v)

\* _delete
Delete(t, k) ==
    CASE plan.class = "bst" -> BstDelete(t, k)
      [] plan.class = "avl" -> AvlDelete(t, k)
      [] plan.class = "btree" -> BTreeDelete(t, k)

\* _get: the value of a key, or Absent; and the tree after it.
Lookup(t, k) == IF IsBTree THEN BTreeGet(t, k) ELSE BinGet(t, k)
Touch(t, k) == IF IsBTree THEN t ELSE BinTouch(t, k)

\* The tree after a _delete that has failed: on its way back from the key it
\* may have looked at siblings to rebalance.
TouchDeleting(t, k) == IF plan.class = "avl" THEN AvlTouch(t, k) ELSE Touch(t, k)

\* A tree with nothing, and with everything, in memory.
Unload(t) == IF IsBTree THEN t ELSE BinUnload(t)
Load(t) == IF IsBTree THEN t ELSE BinLoad(t)

\* In-order <<key, value>> pairs, and the length of the root node.
Items(t) == IF IsBTree THEN BTreeItems(t) ELSE BinItems(t)
Size(t) == IF IsBTree THEN BTreeLength(t) ELSE Length(t)

-----------------------------------------------------------------------------
\* What lookups of every key find.
Contents(t) == [k \in Keys |-> IF t = NoTree THEN Absent ELSE Lookup(t, k)]
Present(t) == LET m == Contents(t) IN {k \in Keys : m[k] # Absent}

\* The values the plans have for each key.
Values ==
    LET given == UNION {p.values : p \in Plans}
    IN  [k \in Keys |-> {kv[2] : kv \in {g \in given : g[1] = k}}]

\* By how much the length of a tree is wrong.
Lost(t) == IF t = NoTree THEN 0 ELSE Size(t) - Cardinality(Present(t))

Answer(k, v, how) == [key |-> k, val |-> v, how |-> how]
NoAnswer == Answer(Absent, Absent, "done")

PlanKeys == {kv[1] : kv \in plan.values}
LastKey ==
    CHOOSE k \in PlanKeys :
        \A j \in PlanKeys : IF plan.order = "up" THEN j <= k ELSE j >= k

Init ==
    /\ plan \in Plans
    /\ tree = Nil /\ stored = Nil
    /\ locked = FALSE /\ writes = 0
    /\ answer = NoAnswer

\* The tree of a write: the first of a session refreshes _tree_ref.
Base == IF locked THEN tree ELSE stored

\* The write of v to k, where Absent stands for a delete.
Write(k, v, result, old) ==
    /\ writes < MaxWrites
    /\ locked' = TRUE /\ writes' = writes + 1
    /\ IF result \in Errors
       THEN tree' = old /\ answer' = Answer(k, v, result)
       ELSE tree' = result /\ answer' = Answer(k, v, "done")
    /\ UNCHANGED <<plan, stored>>

\* set: following a _tree_ref of None is an AttributeError.
Set(k, v) ==
    /\ <<k, v>> \in plan.values
    /\ plan.order # "any" => k \notin Present(Base)
    /\ plan.order = "up" => Present(Base) = {j \in PlanKeys : j < k}
    /\ plan.order = "down" => Present(Base) = {j \in PlanKeys : j > k}
    /\ Write(k, v, IF Base = NoTree THEN Internal ELSE Insert(Base, k, v),
             IF Base = NoTree THEN Base ELSE Touch(Base, k))

\* pop: a tree that is None has no keys.
Pop(k) ==
    /\ LET there == Present(Base)
       IN  k \in there =>
             /\ Lost(Base) \in -MaxLost..MaxLost
             /\ plan.order \in {"up", "down"} =>
                  LastKey \in there /\ (k = LastKey => there = {k})
    /\ Write(k, Absent, IF Base = NoTree THEN KeyError ELSE Delete(Base, k),
             IF Base = NoTree THEN Base ELSE TouchDeleting(Base, k))

\* What a get finds is in Contents, whether it returns or raises KeyError.
Get(k) ==
    /\ tree # NoTree
    /\ tree' = IF locked THEN Touch(tree, k) ELSE tree
    /\ answer' = NoAnswer
    /\ UNCHANGED <<plan, stored, locked, writes>>

Scan ==
    /\ tree # NoTree
    /\ tree' = IF locked THEN Load(tree) ELSE tree
    /\ answer' = NoAnswer
    /\ UNCHANGED <<plan, stored, locked, writes>>

\* commit: None is stored as address 0.
Commit ==
    /\ stored' = IF tree = NoTree THEN Nil ELSE Unload(tree)
    /\ tree' = IF tree = NoTree THEN tree ELSE stored'
    /\ locked' = FALSE /\ writes' = 0
    /\ answer' = NoAnswer
    /\ plan' = plan

\* close, and a connection that opens the file.
Reopen ==
    /\ tree' = stored
    /\ locked' = FALSE /\ writes' = 0
    /\ answer' = NoAnswer
    /\ UNCHANGED <<plan, stored>>

Next ==
    \/ \E k \in PlanKeys :
        \/ \E v \in Values[k] : Set(k, v)
        \/ Pop(k) \/ Get(k)
    \/ Scan \/ Commit \/ Reopen

Spec == Init /\ [][Next]_vars

-----------------------------------------------------------------------------
Map == INSTANCE OrderedMap
         WITH contents <- Contents(tree), saved <- Contents(stored)

\* Whatever calls are made in whatever order, reloads included, lookups in the
\* tree answer as a map that was given the same calls: rebalancing, splitting
\* and merging move keys and values together and lose none.
IsMap == Map!Spec

\* A scan (items(), which compact() copies the database with) returns every
\* key once, in order, with the value that a lookup finds.
ScanAgrees ==
    tree # NoTree =>
        LET s == Items(tree)
            m == Contents(tree)
        IN  /\ Len(s) = Cardinality(Present(tree))
            /\ \A i \in DOMAIN s : s[i][2] = m[s[i][1]]
            /\ \A i \in 2..Len(s) : s[i - 1][1] < s[i][1]

\* len(db) on a binary tree, which the nodes maintain in every copy of a
\* path, is the number of keys.
LengthExact == ~IsBTree => Lost(tree) = 0

\* The only call that raises is the delete of a missing key.
OnlyMissingKeysRaise == answer.how # Internal

\* A call fails for no other reason than these two: an AVL rotation copies a
\* node before its children are loaded, or a session sets a key in a B-tree
\* whose last key it has deleted.
OnlyUnloadedFails ==
    answer.how = Internal =>
        \/ plan.class = "avl" /\ Load(tree) # tree
        \/ IsBTree /\ tree = NoTree /\ writes > 1
=============================================================================
