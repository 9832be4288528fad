------------------------------ MODULE MCTrees ------------------------------
(* Instances of LogicalTree for TLC. *)
EXTENDS TreeProps

\* Every key has a value of its own; in the second form key 3 has two.
Own(ks) == {<<k, k>> : k \in ks}
Overwritten(ks) == Own(ks) \cup {<<3, 30>>}

Use(class, values, order) ==
    [class |-> class, values |-> values, order |-> order]

TreePlans == {Use("bst", Overwritten(1..5), "any"),
              Use("avl", Own(1..7), "any"),
              Use("btree", Own(1..4), "fresh")}
BTreePlans == {Use("btree", Own(1..7), "fresh"),
               Use("btree", Own(1..10), "up"),
               Use("btree", Own(1..10), "down")}
Overwriting == {Use("btree", Overwritten(1..6), "any")}
PartlyLoaded == {Use("avl", Own(1..7), "any")}
=============================================================================
