----------------------------- MODULE MCPrograms -----------------------------
(* Instances of Programs for TLC. *)
EXTENDS Programs, TLC

CONSTANTS t1, t2, t3, t4, p1, p2, p3, k1, k2

\* Threads t1..t4 of one process, and three processes.
Threads == {t1, t2, t3, t4}
Everyone == Threads \cup {p1, p2, p3}
ProcOf == [c \in Conns |-> IF c \in Threads THEN t1 ELSE c]

SevenCalls == [c \in Conns |-> 7]
AllCalls == [c \in Conns |-> CallNames]

On(name, k) == [name |-> name, key |-> k, val |-> 1]

\* The benchmark of update() and update_optimistic(), writers alone or with a
\* reader, and a command on another key beside it.
UpdateMixes == {
    t1 :> On("locked", k1) @@ t2 :> On("locked", k1) @@ t4 :> On("main", k1)
        @@ t3 :> On("reader", k2),
    t1 :> On("hopeful", k1) @@ t2 :> On("hopeful", k1) @@ t4 :> On("main", k1)
        @@ t3 :> On("hopeful", k1),
    t1 :> On("hopeful", k1) @@ t2 :> On("hopeful", k1) @@ t4 :> On("main", k1)
        @@ p1 :> On("set", k2)}

\* Commands of the command line, each a process of its own.
ToolMixes == {
    p1 :> On("set", k1) @@ p2 :> On("delete", k1) @@ p3 :> On("delete", k1),
    p1 :> On("set", k1) @@ p2 :> On("get", k1) @@ p3 :> On("usage", k1),
    p1 :> On("commit", k1) @@ p2 :> On("get", k1)}

\* benchmark.py, with other readers of its file.
BenchMixes == {
    t1 :> On("general", k1) @@ p1 :> On("get", k1) @@ p2 :> On("set", k2),
    t1 :> On("bloated", k1) @@ p1 :> On("get", k1) @@ p2 :> On("set", k2),
    t1 :> On("bloated", k1) @@ p1 :> On("locked", k2) @@ p2 :> On("hopeful", k2)}

AllMixes == UpdateMixes \cup ToolMixes \cup BenchMixes

\* What the theorems of ProgramsProofs suppose of the mixes holds of these.
ASSUME MixesApart == CommitsAlone /\ CounterApart /\ DeletesApart /\ BenchesApart
=============================================================================
