------------------------------ MODULE Connect ------------------------------
(***************************************************************************)
(* Processes or threads that connect to one path, which may not exist yet  *)
(* (dbdb/__init__.py connect, the constructors DBDB and Storage), and the  *)
(* first commit of each.  Nothing is locked between finding that there is  *)
(* no file and creating one, nor between reading the root address and      *)
(* choosing the tree type.                                                 *)
(***************************************************************************)
EXTENDS Naturals

CONSTANTS
    Procs,         \* the processes
    None,          \* no process, and no data
    Requests,      \* the tree types asked for: a set of [Procs -> TreeTypes]
    FirstFiles,    \* how the path may be found: "missing", "fresh", "data"
    FirstType,     \* the tree type of the data found
    Creations      \* how a file is created, see CreationNames

TreeTypes == 0..2  \* bst, avl, btree

\*   alone   nobody else connects until the file has a superblock
\*   raced   anybody may connect at any time
CreationNames == {"alone", "raced"}

ASSUME RequestsAssumption == Requests \subseteq [Procs -> TreeTypes]
ASSUME CreationsAssumption == Creations \subseteq CreationNames
ASSUME FirstAssumption ==
    FirstFiles \subseteq {"missing", "fresh", "data"} /\ FirstType \in TreeTypes
ASSUME NoneAssumption == None \notin Procs

VARIABLES
    wanted,     \* wanted[p]: the tree type p asks for
    creation,   \* how the file is created
    there,      \* the path exists
    size,       \* bytes of superblock in the file
    flag,       \* tree type in the superblock
    nodes,      \* tree type of the nodes the root leads to, or None
    sessions,   \* the sessions found in those nodes
    holder,     \* holder of the write lock
    pc,         \* pc[p]: the step p is about to take
    kind,       \* kind[p]: _tree_type_flag
    committed   \* history: sessions whose commit returned

file == <<there, size, flag, nodes, sessions>>
given == <<wanted, creation>>
vars == <<given, file, holder, pc, kind, committed>>

\* Sizes of a file that has no records: emptied, with a tree type written into
\* the empty file, and with all of the superblock.
Sizes == {0, 9, 4096}
SuperblockSize == 4096

\* A process commits one session; None stands for the data found at first.
Sessions == Procs \cup {None}

Steps == {"start", "create", "super", "root", "settype", "gettype", "ready",
          "write", "done", "failed"}

TypeOK ==
    /\ wanted \in Requests /\ creation \in Creations
    /\ there \in BOOLEAN /\ size \in Sizes
    /\ flag \in TreeTypes /\ nodes \in TreeTypes \cup {None}
    /\ sessions \subseteq Sessions /\ committed \subseteq Sessions
    /\ holder \in Procs \cup {None}
    /\ pc \in [Procs -> Steps] /\ kind \in [Procs -> TreeTypes]

Init ==
    /\ wanted \in Requests /\ creation \in Creations
    /\ \E f \in FirstFiles :
        /\ there = (f # "missing")
        /\ size = IF f = "missing" THEN 0 ELSE SuperblockSize
        /\ nodes = IF f = "data" THEN FirstType ELSE None
        /\ flag = IF f = "data" THEN FirstType ELSE 0
        /\ sessions = IF f = "data" THEN {None} ELSE {}
    /\ committed = sessions
    /\ holder = None
    /\ pc = [p \in Procs |-> "start"]
    /\ kind = [p \in Procs |-> 0]

Goto(p, step) == pc' = [pc EXCEPT ![p] = step]

\* get_root_address: 0 as long as nothing was committed.
NoRoot == nodes = None

-----------------------------------------------------------------------------
\* open(dbname, "r+b").
Open(p) ==
    /\ pc[p] = "start"
    /\ creation = "alone" /\ ~(there /\ size = SuperblockSize) =>
          \A q \in Procs \ {p} : pc[q] = "start"
    /\ Goto(p, IF there THEN "super" ELSE "create")
    /\ UNCHANGED <<given, file, holder, kind, committed>>

\* open(dbname, "w+b"): creates the file, or empties the one that has come to
\* exist meanwhile.
Create(p) ==
    /\ pc[p] = "create"
    /\ there' = TRUE /\ size' = 0 /\ flag' = 0
    /\ nodes' = None /\ sessions' = {}
    /\ Goto(p, "super")
    /\ UNCHANGED <<given, holder, kind, committed>>

\* SLIP: a whole block is appended to whatever there is.
AppendSuperblock(p) ==
    /\ pc[p] = "super" /\ holder = None
    /\ size' = size + SuperblockSize
    /\ Goto(p, "root")
    /\ UNCHANGED <<given, there, flag, nodes, sessions, holder, kind, committed>>

\* Storage._ensure_superblock fills the block up, under the lock.
EnsureSuperblock(p) ==
    /\ pc[p] = "super" /\ holder = None
    /\ size' = SuperblockSize
    /\ Goto(p, "root")
    /\ UNCHANGED <<given, there, flag, nodes, sessions, holder, kind, committed>>

\* SLIP: the wanted type is used whatever is stored.
SetTypeAlways(p) ==
    /\ pc[p] = "root" /\ size # 0
    /\ Goto(p, "settype")
    /\ UNCHANGED <<given, file, holder, kind, committed>>

\* The root decides whether the wanted type or the stored one is used.
ReadRoot(p) ==
    /\ pc[p] = "root" /\ size # 0
    /\ Goto(p, IF NoRoot THEN "settype" ELSE "gettype")
    /\ UNCHANGED <<given, file, holder, kind, committed>>

\* A file that was emptied since has no root to unpack.
ReadRootFails(p) ==
    /\ pc[p] = "root" /\ size = 0
    /\ Goto(p, "failed")
    /\ UNCHANGED <<given, file, holder, kind, committed>>

\* Storage.set_tree_type, under the lock.
SetTreeType(p) ==
    /\ pc[p] = "settype" /\ holder = None
    /\ flag' = wanted[p]
    /\ size' = IF size = 0 THEN 9 ELSE size
    /\ kind' = [kind EXCEPT ![p] = wanted[p]]
    /\ Goto(p, "ready")
    /\ UNCHANGED <<given, there, nodes, sessions, holder, committed>>

\* Storage.get_tree_type, which takes a missing byte for type 0.
GetTreeType(p) ==
    /\ pc[p] = "gettype"
    /\ kind' = [kind EXCEPT ![p] = flag]
    /\ Goto(p, "ready")
    /\ UNCHANGED <<given, file, holder, committed>>

\* The first write: lock, and load the tree of the current root.
Lock(p) ==
    /\ pc[p] = "ready" /\ holder = None /\ size # 0
    /\ nodes \in {None, kind[p]}
    /\ holder' = p
    /\ Goto(p, "write")
    /\ UNCHANGED <<given, file, kind, committed>>

\* There is no root to unpack, or its node is not of this tree's kind.
LockFails(p) ==
    /\ pc[p] = "ready" /\ holder = None
    /\ size = 0 \/ nodes \notin {None, kind[p]}
    /\ Goto(p, "failed")
    /\ UNCHANGED <<given, file, holder, kind, committed>>

CommitSessions(p, kept) ==
    /\ pc[p] = "write"
    /\ nodes' = kind[p]
    /\ sessions' = IF size = 0 THEN {} ELSE kept \cup {p}
    /\ committed' = committed \cup {p}
    /\ holder' = None
    /\ Goto(p, "done")
    /\ UNCHANGED <<given, there, size, flag, kind>>

\* SLIP: the tree committed was not refreshed under the lock.
CommitStale(p) == CommitSessions(p, {})

\* Storage.commit_root_address of a tree that extends the current one.  In an
\* emptied file the first record is where the root belongs, and the root
\* overwrites it.
Commit(p) == CommitSessions(p, sessions)

Next ==
    \E p \in Procs :
        \/ Open(p) \/ Create(p) \/ EnsureSuperblock(p) \/ ReadRoot(p)
        \/ ReadRootFails(p) \/ SetTreeType(p) \/ GetTreeType(p)
        \/ Lock(p) \/ LockFails(p) \/ Commit(p)

Spec == Init /\ [][Next]_vars

-----------------------------------------------------------------------------
\* What was committed through one connection is still there whoever else
\* connects (connect opens an existing file in place, and the commit extends
\* the tree of the root it finds).
CommittedKept == committed \subseteq sessions

\* With a file that is created by one process alone, nothing is lost and
\* nobody's connect finds half a file: late openers fill up the superblock at
\* most, and sessions build on each other.
SafeIfCreatedAlone ==
    creation = "alone" =>
        /\ CommittedKept
        /\ \A p \in Procs : pc[p] = "root" => size # 0

\* If besides all processes ask for one type, the stored type is the type of
\* the stored nodes, every process works with it (the promise of connect's
\* docstring, chosen in DBDB.__init__ from a root that may change before the
\* choice is written), and nobody fails.
OneTypeForAll ==
    creation = "alone" /\ (\A p, q \in Procs : wanted[p] = wanted[q]) =>
        /\ nodes # None => flag = nodes
        /\ \A p \in Procs :
            /\ nodes # None /\ pc[p] \in {"ready", "write"} => kind[p] = nodes
            /\ pc[p] # "failed"

\* Whatever the processes race for, the tree type or the half-made superblock,
\* committed data goes only when a late connect empties the file, never by
\* another process's commit.
LostOnlyByEmptying ==
    [][committed \subseteq sessions /\ size # 0
         => committed' \subseteq sessions' \/ size' = 0]_vars
=============================================================================
