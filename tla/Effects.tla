------------------------------ MODULE Effects ------------------------------
(***************************************************************************)
(* The contents of a database and what a writing session does to them.     *)
(*                                                                         *)
(* A database maps every key to a number; 0 stands for "no such key".      *)
(* Strings, and the function a caller hands to update(), are abstracted    *)
(* to what the tests and benchmarks of the repository use them for: a set  *)
(* stores a chosen value, a delete stores 0, and the function of update()  *)
(* is "one more than before, one if the key is missing".                   *)
(***************************************************************************)
EXTENDS Naturals

CONSTANT Keys

Absent == 0

EmptyMap == [k \in Keys |-> Absent]

Maps == [Keys -> Nat]

\* The effect of a session on one key: an assignment (set) of n, or an
\* increment by n of whatever the key holds when the session is committed.
Effect == [set : BOOLEAN, n : Nat]

Keep   == [set |-> FALSE, n |-> 0]
Put(v) == [set |-> TRUE,  n |-> v]
Inc    == [set |-> FALSE, n |-> 1]

NoEffects == [k \in Keys |-> Keep]

ApplyTo(e, x) == IF e.set THEN e.n ELSE x + e.n

\* Effect e followed by effect f.
Compose(e, f) == IF f.set THEN f ELSE [set |-> e.set, n |-> e.n + f.n]

Apply(es, m) == [k \in Keys |-> ApplyTo(es[k], m[k])]
=============================================================================
