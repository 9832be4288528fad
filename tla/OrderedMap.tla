----------------------------- MODULE OrderedMap -----------------------------
(***************************************************************************)
(* What a search tree promises its connection: a map whose changes are     *)
(* private until they are saved.  A write that fails changes nothing; only *)
(* a delete of a missing key fails for a reason the caller has given.      *)
(***************************************************************************)
CONSTANTS Keys, Values, Absent, KeyError, Internal

VARIABLES contents,  \* contents[k]: value of key k, or Absent
          saved,     \* the contents as of the last commit
          answer     \* the last call, if it was a write, and how it ended

vars == <<contents, saved, answer>>

\* Absent stands for the delete of a key.
Answer(k, v, how) == [key |-> k, val |-> v, how |-> how]
NoAnswer == Answer(Absent, Absent, "done")

Init ==
    /\ contents = [k \in Keys |-> Absent]
    /\ saved = contents
    /\ answer = NoAnswer

Set(k, v) ==
    /\ answer' = Answer(k, v, "done")
    /\ contents' = [contents EXCEPT ![k] = v]
    /\ saved' = saved

Remove(k) ==
    /\ answer' = Answer(k, Absent, IF contents[k] = Absent THEN KeyError ELSE "done")
    /\ contents' = [contents EXCEPT ![k] = Absent]
    /\ saved' = saved

Fail(k, v) ==
    /\ answer' = Answer(k, v, Internal)
    /\ UNCHANGED <<contents, saved>>

Read ==
    /\ answer' = NoAnswer
    /\ UNCHANGED <<contents, saved>>

Save ==
    /\ answer' = NoAnswer
    /\ saved' = contents
    /\ contents' = contents

Forget ==
    /\ answer' = NoAnswer
    /\ contents' = saved
    /\ saved' = saved

Next ==
    \/ Read \/ Save \/ Forget
    \/ \E k \in Keys :
        \/ Remove(k) \/ Fail(k, Absent)
        \/ \E v \in Values[k] : Set(k, v) \/ Fail(k, v)

Spec == Init /\ [][Next]_vars
=============================================================================
