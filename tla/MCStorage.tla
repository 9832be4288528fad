----------------------------- MODULE MCStorage -----------------------------
(* Instances of Storage for TLC. *)
EXTENDS Storage, TLC

CONSTANTS p1, p2

TwoProcs == {p1, p2}

\* Nothing tells the processes apart, and no property is a liveness property.
Interchangeable == Permutations(TwoProcs)
=============================================================================
