-------------------------------- MODULE DBDB --------------------------------
(***************************************************************************)
(* Connections of several threads and processes to one database file       *)
(* (dbdb/interface.py over dbdb/logical.py and the locking of              *)
(* dbdb/physical.py).                                                      *)
(*                                                                         *)
(* A file is an append-only list of stored trees and a root pointer; an    *)
(* address is a position of that list, 0 the empty tree.  A tree is what   *)
(* it promises, a map (module LogicalTree looks inside).  A connection     *)
(* is one thread of control: a call is a sequence of steps, cut wherever   *)
(* another connection can act, that is at every wait for a lock and every  *)
(* look at the shared file or at the path.                                 *)
(***************************************************************************)
EXTENDS Effects, Sequences, FiniteSets

CONSTANTS
    Conns,       \* connections
    Proc,        \* Proc[c]: the process connection c lives in
    MaxVal,      \* values a client writes: 1..MaxVal
    MaxFiles,    \* files (inodes) that may come to exist
    MaxRetries,  \* max_retries of update_optimistic
    MaxCalls,    \* MaxCalls[c]: bound on the calls of connection c
    Calls,       \* Calls[c]: the names of the calls c makes
    Rules,       \* what the clients refrain from, see RuleNames
    Faults,      \* failures that may occur, see FaultNames
    TreeType,    \* "bst", "avl" or "btree"
    Unstored,    \* address of a tree that exists in memory only
    NoKey        \* key of a call that has none

CallNames == {"connect", "close", "get", "items", "keys", "set", "del", "update",
              "updateRaise", "optimistic", "commit", "compact"}

\* Disciplines a client may follow; the code enforces none of them.
\*   commitLocked      commit() only while the session holds the write lock
\*   compactLocked     compact() only while the session holds the write lock
\*   optimisticFresh   update_optimistic() only outside a writing session
RuleNames == {"commitLocked", "compactLocked", "optimisticFresh"}

\*   crash         a process dies: its locks and private trees are gone
\*   compactFails  an exception inside compact() before the rename
FaultNames == {"crash", "compactFails"}

ASSUME ConnsAssumption == Conns # {}
ASSUME FilesAssumption == MaxFiles \in Nat \ {0}
ASSUME BoundsAssumption ==
    /\ MaxVal \in Nat \ {0}
    /\ MaxRetries \in Nat \ {0}
    /\ MaxCalls \in [Conns -> Nat]
ASSUME ClientsAssumption ==
    /\ Calls \in [Conns -> SUBSET CallNames]
    /\ Rules \subseteq RuleNames
    /\ Faults \subseteq FaultNames
ASSUME UnstoredAssumption == Unstored \notin Nat
ASSUME NoKeyAssumption == NoKey \notin Keys

Files == 1..MaxFiles

VARIABLES
    path,     \* the file the database's name refers to
    created,  \* files 1..created exist
    root,     \* root[f]: root address in the superblock of f
    trees,    \* trees[f]: the trees ever stored in f, by address
    ino,      \* ino[c]: the file c has open
    locked,   \* Storage.locked
    view,     \* view[c]: contents of the tree c's _tree_ref leads to
    addr,     \* addr[c]: address of _tree_ref, Unstored after a write
    pc,       \* pc[c]: the step c is about to take
    cont,     \* cont[c]: where to go on after a reopen or a lock
    frame,    \* frame[c]: the running call, its arguments and locals
    budget,   \* budget[c]: calls c may still make (bound)
    eff,      \* history: effects in c's tree not committed by c
    acked     \* history: c's acknowledged commits

disk == <<path, created, root, trees>>
conn == <<ino, locked, view, addr>>
ctrl == <<pc, cont, frame, budget>>
history == <<eff, acked>>
vars == <<disk, conn, ctrl, history>>

Labels == {"idle", "closed", "reopen", "items", "super", "settype", "init",
           "read", "scan", "prelock", "lock", "flock", "recheck", "body",
           "publish", "snap", "validate", "copy", "rename", "swap"}

\* Where a reopen, an opening or a lock may lead.
Targets == {"idle", "items", "settype", "read", "scan", "prelock", "recheck",
            "body", "publish", "snap", "validate", "copy"}

\* name, key and val are the call; snap is snapshot_root and tries the
\* attempts left of update_optimistic, temp the temporary file of compact.
Frame == [name : CallNames, key : Keys \cup {NoKey}, val : 0..MaxVal,
          snap : Nat, tries : 1..MaxRetries, temp : Files]

NoFrame == [name |-> "close", key |-> NoKey, val |-> 0,
            snap |-> 0, tries |-> MaxRetries, temp |-> 1]

TypeOK ==
    /\ path \in Files
    /\ created \in Files
    /\ root \in [Files -> Nat]
    /\ trees \in [Files -> Seq(Maps)]
    /\ ino \in [Conns -> Files]
    /\ locked \in [Conns -> BOOLEAN]
    /\ view \in [Conns -> Maps]
    /\ addr \in [Conns -> Nat \cup {Unstored}]
    /\ pc \in [Conns -> Labels]
    /\ cont \in [Conns -> Targets]
    /\ frame \in [Conns -> Frame]
    /\ budget \in [Conns -> Nat]
    /\ eff \in [Conns -> [Keys -> Effect]]
    /\ acked \in [Conns -> Nat]

-----------------------------------------------------------------------------
(* The file. *)

Content(f, a) == IF a = 0 THEN EmptyMap ELSE trees[f][a]

\* What a connection that opens the file now would find in it.
Current(f) == Content(f, root[f])

\* The committed contents of the database.
Live == Current(path)

\* SLIP: the path is not looked at.
NeverReplaced(c) == FALSE

\* Storage.is_file_replaced: the path no longer names the open file.
Replaced(c) == ino[c] # path

-----------------------------------------------------------------------------
(* The two locks.  The thread lock is per process and path; the file lock  *)
(* is per file and excludes other processes only.  A connection that waits *)
(* for the file lock already holds the thread lock.                        *)

HoldsThread(c) == locked[c] \/ pc[c] = "flock"

\* SLIP: no thread lock.
AnyThread(c) == TRUE

ThreadFree(c) ==
    \A d \in Conns \ {c} : Proc[d] = Proc[c] => ~HoldsThread(d)

\* SLIP: no file lock.
AnyFile(c) == TRUE

FileFree(c) ==
    \A d \in Conns \ {c} :
        locked[d] /\ ino[d] = ino[c] => Proc[d] = Proc[c]

\* lock(), then `next`: no waiting when this Storage holds the lock already.
TakeLock(c, next) ==
    /\ pc' = [pc EXCEPT ![c] = IF locked[c] THEN next ELSE "lock"]
    /\ cont' = [cont EXCEPT ![c] = next]

ThenGo(c, first, next) ==
    /\ pc' = [pc EXCEPT ![c] = first]
    /\ cont' = [cont EXCEPT ![c] = next]

Goto(c, l) == ThenGo(c, l, cont[c])

\* The call returns or raises: its locals are gone.
Leave(c, l) ==
    /\ ThenGo(c, l, "idle")
    /\ frame' = [frame EXCEPT ![c] = NoFrame]

Return(c) == Leave(c, "idle")

Unlock(c) == locked' = [locked EXCEPT ![c] = FALSE]

\* The session's effects are gone from memory.
Forget(c) == eff' = [eff EXCEPT ![c] = NoEffects]

\* SLIP: only the address the tree is read from is refreshed.
RefreshAddressOnly(c) ==
    /\ addr' = [addr EXCEPT ![c] = root[ino[c]]]
    /\ Forget(c)
    /\ view' = view

\* LogicalBase._refresh_tree_ref: the tree of the current root.
Refresh(c) ==
    /\ view' = [view EXCEPT ![c] = Current(ino[c])]
    /\ addr' = [addr EXCEPT ![c] = root[ino[c]]]
    /\ Forget(c)

\* Storage.close and open of whatever the path names now; no tree yet.
OpenAgain(c) ==
    /\ ino' = [ino EXCEPT ![c] = path]
    /\ view' = [view EXCEPT ![c] = EmptyMap]
    /\ addr' = [addr EXCEPT ![c] = 0]
    /\ Unlock(c)
    /\ Forget(c)

-----------------------------------------------------------------------------
(* Calls begin.  Every call but connect, close, commit, compact and        *)
(* iteration first looks for a replaced file.                              *)

\* The path names a file without a root, and nobody is connected.
Init ==
    /\ path = 1 /\ created = 1
    /\ root = [f \in Files |-> 0]
    /\ trees = [f \in Files |-> <<>>]
    /\ ino = [c \in Conns |-> 1]
    /\ locked = [c \in Conns |-> FALSE]
    /\ view = [c \in Conns |-> EmptyMap]
    /\ addr = [c \in Conns |-> 0]
    /\ pc = [c \in Conns |-> "closed"]
    /\ cont = [c \in Conns |-> "idle"]
    /\ frame = [c \in Conns |-> NoFrame]
    /\ budget = MaxCalls
    /\ eff = [c \in Conns |-> NoEffects]
    /\ acked = [c \in Conns |-> 0]

\* A call is within c's repertoire and its bound.
Calling(c, name, k, v) ==
    /\ pc[c] = IF name = "connect" THEN "closed" ELSE "idle"
    /\ name \in Calls[c]
    /\ budget[c] > 0
    /\ budget' = [budget EXCEPT ![c] = @ - 1]
    /\ frame' = [frame EXCEPT ![c] =
                    [NoFrame EXCEPT !.name = name, !.key = k, !.val = v]]

\* __iter__ does not look for a replaced file.
StartRead(c) ==
    /\ \/ \E k \in Keys : Calling(c, "get", k, 0) /\ ThenGo(c, "reopen", "read")
       \/ Calling(c, "items", NoKey, 0) /\ ThenGo(c, "reopen", "scan")
       \/ Calling(c, "keys", NoKey, 0) /\ Goto(c, "scan")
    /\ UNCHANGED <<disk, conn, history>>

StartWrite(c) ==
    /\ \E k \in Keys :
        \/ \E v \in 1..MaxVal : Calling(c, "set", k, v)
        \/ \E name \in {"del", "update", "updateRaise"} : Calling(c, name, k, 0)
    /\ ThenGo(c, "reopen", "prelock")
    /\ UNCHANGED <<disk, conn, history>>

StartOptimistic(c) ==
    /\ "optimisticFresh" \in Rules => ~locked[c]
    /\ \E k \in Keys : Calling(c, "optimistic", k, 0)
    /\ ThenGo(c, "reopen", "snap")
    /\ UNCHANGED <<disk, conn, history>>

StartCommit(c) ==
    /\ "commitLocked" \in Rules => locked[c]
    /\ Calling(c, "commit", NoKey, 0)
    /\ TakeLock(c, "publish")
    /\ UNCHANGED <<disk, conn, history>>

AboutToCopy(c) == frame[c].name = "compact" /\ frame[c].temp = 1

\* compact() locks at once, whatever file and root its tree was read from.
StartCompact(c) ==
    /\ "compactLocked" \in Rules => locked[c]
    /\ created + Cardinality({d \in Conns : AboutToCopy(d)}) < MaxFiles  \* bound
    /\ Calling(c, "compact", NoKey, 0)
    /\ TakeLock(c, "items")
    /\ UNCHANGED <<disk, conn, history>>

\* connect() of a path that exists: open the file in place, then Storage() and
\* the tree.  The creation of a file is in modules Programs and Connect.
Connect(c) ==
    /\ Calling(c, "connect", NoKey, 0)
    /\ ThenGo(c, "super", "settype")
    /\ OpenAgain(c)
    /\ UNCHANGED <<disk, acked>>

\* close() flushes and unlocks; what was not committed is lost.
Close(c) ==
    /\ pc[c] = "idle"
    /\ Leave(c, "closed")
    /\ ino' = [ino EXCEPT ![c] = 1]
    /\ view' = [view EXCEPT ![c] = EmptyMap]
    /\ addr' = [addr EXCEPT ![c] = 0]
    /\ Unlock(c) /\ Forget(c)
    /\ UNCHANGED <<disk, budget, acked>>

-----------------------------------------------------------------------------
(* Steps shared by the calls: opening, reopening, locking.                 *)

\* _reopen_if_replaced, the file is still the one the path names.
ReopenNot(c) ==
    /\ pc[c] \in {"reopen", "items"} /\ ~Replaced(c)
    /\ Goto(c, IF pc[c] = "items" THEN "copy" ELSE cont[c])
    /\ UNCHANGED <<disk, conn, frame, budget, history>>

\* _reopen_if_replaced, the file was replaced: the old storage is closed,
\* which gives up the write lock and the session, and the new file opened.
Reopen(c) ==
    /\ pc[c] \in {"reopen", "items"} /\ Replaced(c)
    /\ OpenAgain(c)
    /\ ThenGo(c, "super", IF pc[c] = "items" THEN "copy" ELSE cont[c])
    /\ UNCHANGED <<disk, frame, budget, acked>>

\* Storage._ensure_superblock, run by every opening, locks and unlocks.
EnsureSuperblock(c) ==
    /\ pc[c] = "super"
    /\ ThreadFree(c) /\ FileFree(c)
    /\ IF cont[c] # "settype" THEN Goto(c, "init")
       ELSE ThenGo(c, IF root[ino[c]] = 0 THEN "settype" ELSE "init", "idle")
    /\ UNCHANGED <<disk, conn, frame, budget, history>>

\* Storage.set_tree_type locks and unlocks too.
SetTreeType(c) ==
    /\ pc[c] = "settype"
    /\ ThreadFree(c) /\ FileFree(c)
    /\ Goto(c, "init")
    /\ UNCHANGED <<disk, conn, frame, budget, history>>

\* DBDB._init_tree: a tree at the root of the opened file.
InitTree(c) ==
    /\ pc[c] = "init"
    /\ Refresh(c)
    /\ IF cont[c] = "idle" THEN Return(c)
       ELSE Goto(c, cont[c]) /\ frame' = frame
    /\ UNCHANGED <<disk, ino, locked, budget, acked>>

\* _prepare_write: the lock is taken, or the session holds it already.
PrepareLock(c) ==
    /\ pc[c] = "prelock"
    /\ IF locked[c] THEN Goto(c, "body") ELSE ThenGo(c, "lock", "recheck")
    /\ UNCHANGED <<disk, conn, frame, budget, history>>

AcquireThread(c) ==
    /\ pc[c] = "lock" /\ ThreadFree(c)
    /\ Goto(c, "flock")
    /\ UNCHANGED <<disk, conn, frame, budget, history>>

AcquireFile(c) ==
    /\ pc[c] = "flock" /\ FileFree(c)
    /\ locked' = [locked EXCEPT ![c] = TRUE]
    /\ Goto(c, cont[c])
    /\ UNCHANGED <<disk, ino, view, addr, frame, budget, history>>

\* SLIP: the tree read before the lock is written on.
RecheckOldTree(c) ==
    /\ pc[c] = "recheck" /\ ~Replaced(c)
    /\ Goto(c, "body")
    /\ UNCHANGED <<disk, conn, frame, budget, history>>

\* _prepare_write under the lock: the tree of the current root.
RecheckFresh(c) ==
    /\ pc[c] = "recheck" /\ ~Replaced(c)
    /\ Refresh(c)
    /\ Goto(c, "body")
    /\ UNCHANGED <<disk, ino, locked, frame, budget, acked>>

\* _prepare_write under the lock, the file was replaced while waiting: the
\* new file is opened, and not locked.
RecheckReplaced(c) ==
    /\ pc[c] = "recheck" /\ Replaced(c)
    /\ OpenAgain(c)
    /\ ThenGo(c, "super", "body")
    /\ UNCHANGED <<disk, frame, budget, acked>>

-----------------------------------------------------------------------------
(* The bodies of the calls. *)

\* get, in, len: a lookup in c's own tree.
Read(c) ==
    /\ pc[c] = "read"
    /\ Return(c)
    /\ UNCHANGED <<disk, conn, budget, history>>

\* SLIP: a session that holds the lock is refreshed too.
ItemsAlwaysRefresh(c) ==
    IF TreeType = "btree" THEN Refresh(c) ELSE UNCHANGED <<view, addr, eff>>

\* Iteration: BTree looks at the current root first unless it is locked.
ItemsRefresh(c) ==
    IF TreeType = "btree" /\ ~locked[c] THEN Refresh(c)
    ELSE UNCHANGED <<view, addr, eff>>

\* items and keys.
Scan(c) ==
    /\ pc[c] = "scan"
    /\ ItemsRefresh(c)
    /\ Return(c)
    /\ UNCHANGED <<disk, ino, locked, budget, acked>>

\* A private change of one key.  A tree without keys is stored at 0.
ApplyHere(c, k, e) ==
    LET m == [view[c] EXCEPT ![k] = ApplyTo(e, @)]
        es == [eff[c] EXCEPT ![k] = Compose(@, e)]
    IN
    /\ view' = [view EXCEPT ![c] = m]
    /\ addr' = [addr EXCEPT ![c] = IF m = EmptyMap THEN 0 ELSE Unstored]
    /\ eff' = [eff EXCEPT ![c] = es]
    /\ UNCHANGED <<disk, ino, locked, budget, acked>>

Set(c) ==
    /\ pc[c] = "body" /\ frame[c].name = "set"
    /\ ApplyHere(c, frame[c].key, Put(frame[c].val))
    /\ Return(c)

Del(c) ==
    /\ pc[c] = "body" /\ frame[c].name = "del"
    /\ view[c][frame[c].key] # Absent
    /\ ApplyHere(c, frame[c].key, Put(Absent))
    /\ Return(c)

\* The KeyError of a delete leaves the write lock held.
DelMissing(c) ==
    /\ pc[c] = "body" /\ frame[c].name = "del"
    /\ view[c][frame[c].key] = Absent
    /\ Return(c)
    /\ UNCHANGED <<disk, conn, budget, history>>

\* update: read, apply fn and set, then commit.
Update(c) ==
    /\ pc[c] = "body" /\ frame[c].name = "update"
    /\ ApplyHere(c, frame[c].key, Inc)
    /\ TakeLock(c, "publish")
    /\ frame' = frame

\* update whose fn raises: the lock is released, the session's tree stays.
UpdateRaises(c) ==
    /\ pc[c] = "body" /\ frame[c].name = "updateRaise"
    /\ Unlock(c)
    /\ Return(c)
    /\ UNCHANGED <<disk, ino, view, addr, budget, history>>

\* SLIP: the address is taken before the tree is stored.
AddressBeforeStore(c) == {addr[c]}

\* ValueRef.store: a tree taken from the file keeps its address; a new one is
\* appended, or turns out to be a node that is stored already.
AddressAfterStore(c) ==
    IF addr[c] # Unstored THEN {addr[c]}
    ELSE LET ts == trees[ino[c]]
         IN  {a \in 1..Len(ts) : ts[a] = view[c]} \cup {Len(ts) + 1}

\* LogicalBase.commit: store the new nodes, point the superblock at the new
\* root, unlock.
Publish(c) ==
    /\ pc[c] = "publish"
    /\ \E a \in AddressAfterStore(c) :
          /\ root' = [root EXCEPT ![ino[c]] = a]
          /\ addr' = [addr EXCEPT ![c] = a]
          /\ trees' = IF a \in 0..Len(trees[ino[c]]) THEN trees
                      ELSE [trees EXCEPT ![ino[c]] = Append(@, view[c])]
    /\ Unlock(c) /\ Forget(c)
    /\ acked' = [acked EXCEPT ![c] = @ + 1]
    /\ Return(c)
    /\ UNCHANGED <<path, created, ino, view, budget>>

\* update_optimistic: remember the root, read from it, compute.
SnapshotRoot(c) ==
    /\ pc[c] = "snap"
    /\ frame' = [frame EXCEPT ![c].snap = root[ino[c]]]
    /\ TakeLock(c, "validate")
    /\ UNCHANGED <<disk, ino, locked, budget, acked>>

\* SLIP: the root is remembered and an older tree read.
SnapshotOldTree(c) == SnapshotRoot(c) /\ UNCHANGED <<view, addr, eff>>

Snapshot(c) == SnapshotRoot(c) /\ Refresh(c)

\* SLIP: the root is not compared.
RootNotCompared(c) == TRUE

RootUnchanged(c) == root[ino[c]] = frame[c].snap

\* update_optimistic under the lock, the root is the one it read from.
ValidateOK(c) ==
    /\ pc[c] = "validate" /\ RootUnchanged(c)
    /\ ApplyHere(c, frame[c].key, Inc)
    /\ Goto(c, "publish")
    /\ frame' = frame

\* update_optimistic under the lock, somebody committed: retry or give up.
ValidateFails(c) ==
    /\ pc[c] = "validate" /\ ~RootUnchanged(c)
    /\ Unlock(c)
    /\ IF frame[c].tries = 1 THEN Return(c)
       ELSE /\ ThenGo(c, "reopen", "snap")
            /\ frame' = [frame EXCEPT ![c].tries = @ - 1]
    /\ UNCHANGED <<disk, ino, view, addr, budget, history>>

-----------------------------------------------------------------------------
(* compact(): copy, rename over the path, reopen.                          *)

Copy(c) ==
    /\ pc[c] = "copy" /\ created < MaxFiles
    /\ ItemsRefresh(c)
    /\ created' = created + 1
    /\ frame' = [frame EXCEPT ![c].temp = created + 1]
    /\ trees' = [trees EXCEPT ![created + 1] =
                    IF view'[c] = EmptyMap THEN <<>> ELSE <<view'[c]>>]
    /\ root' = [root EXCEPT ![created + 1] = IF view'[c] = EmptyMap THEN 0 ELSE 1]
    /\ Goto(c, "rename")
    /\ UNCHANGED <<path, ino, budget, acked>>

\* SLIP: the lock is released after the copy.
CopyThenClose(c) == Copy(c) /\ Unlock(c)

CopyItems(c) == Copy(c) /\ locked' = locked

\* os.rename: from here on the path names the copy.
Rename(c) ==
    /\ pc[c] = "rename"
    /\ path' = frame[c].temp
    /\ Forget(c)
    /\ acked' = [acked EXCEPT ![c] = @ + 1]
    /\ Goto(c, "swap")
    /\ UNCHANGED <<created, root, trees, conn, frame, budget>>

\* The old file is closed, which releases the lock, and the path opened.
Swap(c) ==
    /\ pc[c] = "swap"
    /\ OpenAgain(c)
    /\ ThenGo(c, "super", "idle")
    /\ UNCHANGED <<disk, frame, budget, acked>>

\* An exception before the rename: the temporary file goes, the lock too.
CompactFails(c) ==
    /\ "compactFails" \in Faults
    /\ pc[c] \in {"copy", "rename"}
    /\ Unlock(c)
    /\ Return(c)
    /\ UNCHANGED <<disk, ino, view, addr, budget, history>>

-----------------------------------------------------------------------------
\* A process dies: the system releases its locks, its memory is lost.
Crash(p) ==
    LET dead == {c \in Conns : Proc[c] = p} IN
    /\ "crash" \in Faults
    /\ \E c \in dead : pc[c] # "closed"
    /\ pc' = [c \in Conns |-> IF c \in dead THEN "closed" ELSE pc[c]]
    /\ cont' = [c \in Conns |-> IF c \in dead THEN "idle" ELSE cont[c]]
    /\ frame' = [c \in Conns |-> IF c \in dead THEN NoFrame ELSE frame[c]]
    /\ locked' = [c \in Conns |-> locked[c] /\ c \notin dead]
    /\ ino' = [c \in Conns |-> IF c \in dead THEN 1 ELSE ino[c]]
    /\ view' = [c \in Conns |-> IF c \in dead THEN EmptyMap ELSE view[c]]
    /\ addr' = [c \in Conns |-> IF c \in dead THEN 0 ELSE addr[c]]
    /\ eff' = [c \in Conns |-> IF c \in dead THEN NoEffects ELSE eff[c]]
    /\ UNCHANGED <<disk, budget, acked>>

Begin(c) ==
    \/ StartRead(c) \/ StartWrite(c) \/ StartOptimistic(c) \/ StartCommit(c)
    \/ StartCompact(c) \/ Connect(c)

Open(c) ==
    \/ ReopenNot(c) \/ Reopen(c) \/ EnsureSuperblock(c) \/ SetTreeType(c)
    \/ InitTree(c)

Lock(c) ==
    \/ PrepareLock(c) \/ AcquireThread(c) \/ AcquireFile(c)
    \/ RecheckFresh(c) \/ RecheckReplaced(c)

Body(c) ==
    \/ Read(c) \/ Scan(c) \/ Set(c) \/ Del(c) \/ DelMissing(c) \/ Update(c)
    \/ UpdateRaises(c) \/ Publish(c) \/ Snapshot(c) \/ ValidateOK(c)
    \/ ValidateFails(c)

Compact(c) == CopyItems(c) \/ Rename(c) \/ Swap(c)

\* The code running inside a call, which the scheduler will not stop.
Step(c) == Open(c) \/ Lock(c) \/ Body(c) \/ Compact(c)

\* Every connection is closed: the clients are done.
Done == (\A c \in Conns : pc[c] = "closed") /\ UNCHANGED vars

Next ==
    \/ \E c \in Conns : Begin(c) \/ Close(c) \/ Step(c) \/ CompactFails(c)
    \/ \E p \in {Proc[c] : c \in Conns} : Crash(p)
    \/ Done

Spec == Init /\ [][Next]_vars
=============================================================================
