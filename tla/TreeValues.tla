----------------------------- MODULE TreeValues -----------------------------
(* What the operations of every search tree return besides trees. *)

CONSTANTS
    Nil,       \* the empty tree: a reference to nothing
    NoTree,    \* None, where a reference is expected
    Absent,    \* no value
    KeyError,  \* the key is missing
    Internal   \* RuntimeError, AttributeError, ValueError

\* An exception is a result like any other; callers pass it on.
Errors == {KeyError, Internal}
=============================================================================
