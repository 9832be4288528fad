------------------------------ MODULE Programs ------------------------------
(***************************************************************************)
(* The programs of the repository that use a database: the commands of     *)
(* dbdb/tool.py and the workers of benchmark.py and benchmark_update.py.   *)
(*                                                                         *)
(* A program connects, makes a fixed sequence of calls and closes, also    *)
(* when a call raises.  The calls are those of module DBDB, whose steps    *)
(* interleave; which programs run side by side is chosen once, in Init.    *)
(*                                                                         *)
(* The path may not exist at first: then the program that connects creates *)
(* the file, and one that has looked for it too early may empty a file     *)
(* that others work on.  A run is followed up to that point (Followed);    *)
(* what becomes of the data is in module Connect.                          *)
(***************************************************************************)
EXTENDS DBDBProps

CONSTANT Mixes   \* the sets of programs, each by connection, that are tried

ProgramNames == {"usage", "get", "set", "delete", "commit", "locked", "hopeful",
                 "reader", "main", "general", "bloated"}

ASSUME MixesAssumption ==
    \A mix \in Mixes :
        /\ DOMAIN mix \subseteq Conns /\ IsFiniteSet(DOMAIN mix)
        /\ \A c \in DOMAIN mix :
              mix[c] \in [name : ProgramNames, key : Keys, val : 1..MaxVal]

\* The programs that only read.
ReadingNames == {"usage", "get", "reader", "main"}

\* The `commit` command stores the tree it has read when it connected: beside a
\* writer it may undo what the writer has committed in between.
CommitsAlone ==
    \A mix \in Mixes :
        (\E c \in DOMAIN mix : mix[c].name = "commit") =>
            \A c \in DOMAIN mix : mix[c].name \in ReadingNames \cup {"commit"}

\* benchmark_update.py: where a main thread reads a counter at the end, the
\* writers are threads of its process, and nobody else writes the counter.
CounterApart ==
    \A mix \in Mixes : \A m \in DOMAIN mix : mix[m].name = "main" =>
        \A c \in DOMAIN mix :
            /\ mix[c].name \notin {"commit", "bloated"}
            /\ mix[c].name \in {"locked", "hopeful"} =>
                  mix[c].key = mix[m].key /\ Proc[c] = Proc[m]
            /\ mix[c].key = mix[m].key =>
                  mix[c].name \in ReadingNames \cup {"locked", "hopeful"}

\* Where a key is deleted by commands, it is written by commands only: it does
\* not come back by a benchmark or by the tree of a `commit`.
DeletesApart ==
    \A mix \in Mixes : \A d \in DOMAIN mix : mix[d].name = "delete" =>
        \A c \in DOMAIN mix :
            /\ mix[c].name \notin {"commit", "bloated"}
            /\ mix[c].key = mix[d].key =>
                  mix[c].name \in ReadingNames \cup {"set", "delete"}

\* benchmark.py: nobody else compacts the file of a benchmark, which would
\* lose what it has committed beside it, or deletes its keys.
BenchesApart ==
    \A mix \in Mixes : \A b \in DOMAIN mix : mix[b].name \in {"general", "bloated"} =>
        \A c \in DOMAIN mix \ {b} :
            /\ mix[c].name # "bloated"
            /\ mix[c].key = mix[b].key => mix[c].name # "delete"

VARIABLES
    program,   \* program[c]: what runs on connection c
    outcome,   \* outcome[c]: how its calls have gone
    reported,  \* the counters that were read when all writers were done
    file,      \* what the path leads to, see FileStates
    missed     \* programs that have found no file and are about to create one

work == <<vars, program, outcome, reported>>
pvars == <<work, file, missed>>

Outcomes == {"ok", "raised", "killed"}

\* A file that was created has no superblock until somebody's constructor
\* writes one; one that had it and was emptied has lost what it held.
FileStates == {"missing", "empty", "whole", "lost"}

\* No late creator has emptied the file.
Followed == file # "lost"

Running == DOMAIN program

Call(name, k, v) == [name |-> name, key |-> k, val |-> v]

Opening == Call("connect", NoKey, 0)
Saving == Call("commit", NoKey, 0)
Get(k) == Call("get", k, 0)
SetIt(k, v) == Call("set", k, v)

\* dbdb/tool.py; a malformed command is found out after connecting.
ToolCommands(k, v) == [
    usage  |-> <<>>,
    get    |-> <<Get(k)>>,
    set    |-> <<SetIt(k, v), Saving>>,
    delete |-> <<Call("del", k, 0), Saving>>,
    commit |-> <<Saving>>]

\* benchmark_update.py: the writers, a reader that goes on after a KeyError,
\* and the main thread when it reads the counter.
UpdateWorkers(k) == [
    locked  |-> <<Call("update", k, 0)>>,
    hopeful |-> <<Call("optimistic", k, 0)>>,
    reader  |-> <<Get(k), Get(k)>>,
    main    |-> <<Get(k)>>]

\* benchmark.py: a list of keys is two rounds with one key.
WriteAll(k, v) == <<SetIt(k, v), Saving, SetIt(k, v), Saving>>
ReadAll(k) == <<Get(k)>>
General(k, v) == WriteAll(k, v) \o ReadAll(k)
Bloated(k, v) == <<SetIt(k, v), SetIt(k, v), Saving>> \o ReadAll(k)
                   \o <<Call("compact", NoKey, 0)>> \o ReadAll(k)

\* What a program does once it is connected, with its key and value.
Commands(p) ==
    CASE p.name \in {"usage", "get", "set", "delete", "commit"} ->
           ToolCommands(p.key, p.val)[p.name]
      [] p.name \in {"locked", "hopeful", "reader", "main"} ->
           UpdateWorkers(p.key)[p.name]
      [] p.name = "general" -> General(p.key, p.val)
      [] p.name = "bloated" -> Bloated(p.key, p.val)

Script(p) == <<Opening>> \o Commands(p)

Writers == {c \in Running : program[c].name \in {"locked", "hopeful"}}

Made(c) == MaxCalls[c] - budget[c]

Ended(c) == outcome[c] = "killed" \/ (Made(c) > 0 /\ pc[c] = "closed")

-----------------------------------------------------------------------------
\* The benchmarks start on a path that does not exist.
PInit ==
    /\ Init
    /\ file \in {"missing", "whole"} /\ missed = {}
    /\ program \in Mixes
    /\ outcome = [c \in Running |-> "ok"]
    /\ reported = {}

\* _run_once joins the threads it has started before it reads the counter.
Joined(c) ==
    program[c].name = "main" =>
        \A d \in Running \ {c} : Proc[d] = Proc[c] => Ended(d)

\* connect: open(dbname, "r+b") raises, and nothing stops others from opening
\* or creating the file before this program does.
Misses(c) ==
    /\ outcome[c] = "ok" /\ Made(c) = 0 /\ Joined(c)
    /\ file = "missing" /\ c \notin missed
    /\ missed' = missed \cup {c}
    /\ UNCHANGED <<work, file>>

\* connect: open(dbname, "w+b") of a file that has come to be used meanwhile.
Empties(c) ==
    /\ c \in missed /\ file = "whole"
    /\ file' = "lost"
    /\ UNCHANGED <<work, missed>>

\* The next call of the script.  The first one opens the file in place, or
\* creates it, which does no harm to one that is still empty.
NextCall(c) ==
    /\ outcome[c] = "ok" /\ Made(c) < Len(Script(program[c]))
    /\ Joined(c)
    /\ Made(c) = 0 => file # IF c \in missed THEN "whole" ELSE "missing"
    /\ file' = IF file = "missing" THEN "empty" ELSE file
    /\ missed' = missed \ {c}
    /\ LET call == Script(program[c])[Made(c) + 1] IN
       /\ Begin(c)
       /\ frame'[c].name = call.name
       /\ frame'[c].key = call.key
       /\ frame'[c].val = call.val
    /\ UNCHANGED <<program, outcome, reported>>

\* The call is about to raise: a KeyError of a read or a delete, or the
\* RuntimeError of an update_optimistic out of retries.
Raising(c) ==
    \/ pc[c] = "read" /\ view[c][frame[c].key] = Absent
    \/ pc[c] = "body" /\ frame[c].name = "del" /\ view[c][frame[c].key] = Absent
    \/ pc[c] = "validate" /\ ~RootUnchanged(c) /\ frame[c].tries = 1

\* The main thread's answer; a KeyError is a counter of 0.
Report(c) ==
    reported' = IF program[c].name = "main" /\ pc[c] = "read"
                THEN {view[c][frame[c].key]} ELSE reported

\* Inside a call; a KeyError does not stop the readers of the benchmark.  The
\* step after opening writes the superblock.
Work(c) ==
    /\ Step(c)
    /\ file' = IF pc[c] = "super" THEN "whole" ELSE file
    /\ Report(c)
    /\ outcome' = IF Raising(c) /\ program[c].name \notin {"reader", "main"}
                  THEN [outcome EXCEPT ![c] = "raised"] ELSE outcome
    /\ UNCHANGED <<program, missed>>

\* SLIP: no `finally`: a program that failed leaves its connection open.
FinishIfOk(c) ==
    /\ pc[c] = "idle" /\ Made(c) = Len(Script(program[c])) /\ outcome[c] = "ok"
    /\ Close(c)
    /\ UNCHANGED <<program, outcome, reported, file, missed>>

\* close() in a `finally`: after the last call or after one that raised.
Finish(c) ==
    /\ pc[c] = "idle"
    /\ Made(c) = Len(Script(program[c])) \/ outcome[c] = "raised"
    /\ Close(c)
    /\ UNCHANGED <<program, outcome, reported, file, missed>>

\* A process dies, with the programs it has not finished.
Killed(p) ==
    /\ Crash(p)
    /\ outcome' = [c \in Running |->
                    IF Proc[c] = p /\ ~Ended(c) THEN "killed" ELSE outcome[c]]
    /\ missed' = {c \in missed : Proc[c] # p}
    /\ UNCHANGED <<program, reported, file>>

Move(c) == NextCall(c) \/ Work(c) \/ Finish(c)

Goes(c) == Followed /\ (Misses(c) \/ Empties(c) \/ Move(c))

AllEnded == (\A c \in Running : Ended(c)) /\ UNCHANGED pvars

FollowedNoMore == ~Followed /\ UNCHANGED pvars

PNext ==
    \/ \E c \in Running : Goes(c)
    \/ \E p \in {Proc[c] : c \in Running} : Followed /\ Killed(p)
    \/ AllEnded
    \/ FollowedNoMore

PSpec == PInit /\ [][PNext]_pvars /\ \A c \in Conns : WF_pvars(c \in Running /\ Goes(c))

-----------------------------------------------------------------------------
(* What the programs may rely on, as long as no late creator has emptied    *)
(* the file: if it has, none of this is claimed of the rest of the run.     *)

\* The counter that is read at the end is the number of writers less those
\* that gave up (benchmark_update.py:117: "correct": counter == n_writers -
\* _failed_total), whichever way they lock and whatever runs beside them, if
\* no writer has emptied the file that another had created and used.
CounterExact ==
    Followed =>
        \A n \in reported :
            n = Cardinality({c \in Writers : outcome[c] = "ok"})

Committed(name, k) ==
    {c \in Running : program[c].name = name /\ program[c].key = k /\ acked[c] > 0}

\* Programs that do not compact change the database as sessions of an
\* AtomicStore do, each on top of all that others have committed: no command
\* and no worker undoes another, with or without a lock while it reads.
AtomicPrograms ==
    [][\/ ~Followed'
       \/ \E c \in Running : program[c].name = "bloated"
       \/ Store!Next]_<<Live, eff, acked>>

\* Of several `delete` commands for a key that was set once only one says
\* that it has deleted it: delete finds the key under the lock or not at all.
EachDeletedOnce ==
    Followed =>
        \A k \in Keys :
            Cardinality(Committed("delete", k)) <= Cardinality(Committed("set", k))

\* The benchmarks read back what they have committed, after their own
\* compaction too, while other programs open, read and close the database.
OwnWritesRead ==
    Followed =>
        \A c \in Running :
            program[c].name \in {"general", "bloated"} => outcome[c] # "raised"

\* Every program comes to its end, with others that fail, are killed or wait:
\* a lock that a failed delete has left held is given up by `finally: close`.
ProgramsEnd == <>(~Followed \/ \A c \in Running : Ended(c))
=============================================================================
