------------------------------- MODULE MCDBDB -------------------------------
(* Instances of DBDB for TLC. *)
EXTENDS DBDBProps

CONSTANTS c1, c2, k1, k2

TwoConns == {c1, c2}

Each(s) == [c \in Conns |-> s]

\* Every connection a process of its own.
Apart == [c \in Conns |-> c]

FourCalls == Each(4)
UnevenCalls == [c \in Conns |-> IF c = c1 THEN 4 ELSE 3]
WriterCalls == [c \in Conns |-> IF c = c1 THEN 3 ELSE 5]

SessionCalls ==
    Each({"connect", "items", "set", "del", "updateRaise", "commit", "compact"})
AnyCalls == Each(CallNames)
SetCommitCompact == Each({"connect", "set", "commit", "compact"})

\* c1 updates, the other connections write and compact.
UpdaterAndCompactor ==
    [c \in Conns |-> {"connect", "update"} \cup
        IF c = c1 THEN {} ELSE {"set", "commit", "compact"}]

Discipline == {"commitLocked", "compactLocked", "optimisticFresh"}
=============================================================================
