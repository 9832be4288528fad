----------------------------- MODULE MCSessions -----------------------------
(* Instances of Sessions for TLC. *)
EXTENDS MCDBDB, Sessions, TLC

\* Nothing tells the connections apart, each a process of its own, nor the
\* keys; and no property is a liveness property.
Interchangeable == Permutations(TwoConns) \cup Permutations({k1, k2})

\* The instance meets the hypotheses of the theorems of SessionsProofs.
ASSUME SessionsDisciplined == Disciplined /\ "optimisticFresh" \in Rules
=============================================================================
