------------------------------ MODULE Storage ------------------------------
(***************************************************************************)
(* The bytes of one database file on their way to the device               *)
(* (dbdb/physical.py, and ValueRef.store of dbdb/logical.py, which decides *)
(* in which order records are written).                                    *)
(*                                                                         *)
(* A write passes through the buffer of the Python file object, the page   *)
(* cache of the operating system, which is what every other process sees,  *)
(* and the device.  A killed process loses its buffer; a power failure     *)
(* loses whatever was not synced, in any combination.  Records are what    *)
(* Storage.write appends; all that matters of one is which older records   *)
(* it refers to.  The address of a record is its position.                 *)
(***************************************************************************)
EXTENDS Naturals, Sequences

CONSTANTS
    Procs,       \* the processes that have the file open
    None,        \* no process
    MaxRecords,  \* records a file can hold
    MaxCommits,  \* commits, over the life of the file
    Faults       \* failures that may occur, see FaultNames

\*   kill    a process dies
\*   power   the machine stops: page cache and processes are gone
\*   fsync   os.fsync raises OSError, which the code ignores
\*   write   a write or flush raises OSError, which the caller gets
FaultNames == {"kill", "power", "fsync", "write"}

ASSUME NoneAssumption == None \notin Procs
ASSUME BoundsAssumption == MaxRecords \in Nat /\ MaxCommits \in Nat
ASSUME FaultsAssumption == Faults \subseteq FaultNames

VARIABLES
    recs,    \* the records of the file, as the page cache has them
    root,    \* the root in the superblock, as the page cache has it
    synced,  \* records 1..synced are on the device
    roots,   \* the roots the device may hold after a power failure
    buffer,  \* buffer[p]: records and root p has written and not flushed
    holder,  \* the process that holds the write lock
    known,   \* known[p]: addresses of the nodes of p's tree
    pc,      \* pc[p]: the step of commit_root_address p is at
    target,  \* target[p]: the address p is committing
    acked,   \* history: version of the last commit that returned
    skipped  \* history: an fsync has failed

file == <<recs, root>>
device == <<synced, roots>>
vars == <<file, device, buffer, holder, known, pc, target, acked, skipped>>

\* A record that was cut off, or never reached the device, is not whole.
Record == [whole : BOOLEAN, refs : SUBSET Nat]
Torn == [whole |-> FALSE, refs |-> {}]

\* ver numbers the commits; the file has only the address.
Root == [at : Nat, ver : Nat]

EmptyBuffer == [recs |-> <<>>, roots |-> <<>>]

Steps == {"idle", "sync", "root", "flush", "syncRoot", "unlock"}

TypeOK ==
    /\ recs \in Seq(Record)
    /\ root \in Root
    /\ synced \in 0..Len(recs)
    /\ roots \subseteq Root /\ roots # {}
    /\ buffer \in [Procs -> [recs : Seq(Record), roots : Seq(Root)]]
    /\ holder \in Procs \cup {None}
    /\ known \in [Procs -> SUBSET Nat]
    /\ pc \in [Procs -> Steps]
    /\ target \in [Procs -> Nat]
    /\ acked \in Nat
    /\ skipped \in BOOLEAN

-----------------------------------------------------------------------------
(* Which records a tree needs. *)

Closed(S, rs) ==
    \A a \in S : a \in DOMAIN rs /\ rs[a].whole /\ rs[a].refs \subseteq S

\* Addresses found by following references from a; the file may have any.
Reach(a, rs) ==
    {b \in DOMAIN rs :
        /\ a # 0
        /\ \A S \in SUBSET (DOMAIN rs) :
              (a \in S /\ \A c \in S : rs[c].refs \subseteq S) => b \in S}

\* The tree at address a can be read to its last leaf from the records rs.
Readable(a, rs) ==
    a = 0 \/ \E S \in SUBSET (DOMAIN rs) : a \in S /\ Closed(S, rs)

-----------------------------------------------------------------------------
Init ==
    /\ recs = <<>>
    /\ root = [at |-> 0, ver |-> 0]
    /\ synced = 0
    /\ roots = {root}
    /\ buffer = [p \in Procs |-> EmptyBuffer]
    /\ holder = None
    /\ known = [p \in Procs |-> {}]
    /\ pc = [p \in Procs |-> "idle"]
    /\ target = [p \in Procs |-> 0]
    /\ acked = 0
    /\ skipped = FALSE

\* The buffer goes to the page cache, where the device may take it or not, and
\* the records rs are in the buffer then.
FlushThen(p, rs) ==
    LET b == buffer[p] IN
    /\ recs' = recs \o b.recs
    /\ root' = IF b.roots = <<>> THEN root ELSE b.roots[Len(b.roots)]
    /\ roots' = roots \cup {b.roots[i] : i \in DOMAIN b.roots}
    /\ buffer' = [buffer EXCEPT ![p] = [recs |-> rs, roots |-> <<>>]]
    /\ synced' = synced

Flush(p) == FlushThen(p, <<>>)

\* _fsync_if_possible; an OSError is ignored.
Sync(p) ==
    \/ synced' = Len(recs) /\ roots' = {root} /\ skipped' = skipped
    \/ "fsync" \in Faults /\ skipped' = TRUE /\ UNCHANGED device

LockFree(p) == holder \in {None, p}

\* Storage.unlock gives up the lock if it is held.
Release(p) == holder' = IF holder = p THEN None ELSE holder

At(p, step) == pc' = [pc EXCEPT ![p] = step]

\* commit_root_address returns, raises or dies: its argument is gone.
LeaveCommit(p) ==
    /\ At(p, "idle")
    /\ target' = [target EXCEPT ![p] = 0]

\* _refresh_tree_ref and the lookups that follow: p knows the tree of the
\* root the page cache has.  _prepare_write takes the lock first.
Load(p) ==
    /\ pc[p] = "idle"
    /\ holder' = holder \/ (holder = None /\ holder' = p)
    /\ UNCHANGED <<file, device, buffer, pc, target, acked, skipped>>
    /\ known' = [known EXCEPT ![p] = Reach(root.at, recs)]

\* SLIP: children are not stored before their parent.
AnyRefs(p) == SUBSET (1..MaxRecords)

\* What a new record may refer to: prepare_to_store has stored the others.
StoredRefs(p) == SUBSET known[p]

\* Storage.write of a record that refers to refs: seeking to the end flushes
\* what an earlier write left.
WriteRecord(p, refs) ==
    /\ pc[p] = "idle"
    /\ LockFree(p) /\ holder' = p
    /\ Len(recs) + Len(buffer[p].recs) < MaxRecords  \* bound
    /\ FlushThen(p, <<[whole |-> TRUE, refs |-> refs]>>)
    /\ known' = [known EXCEPT ![p] = @ \cup {Len(recs') + 1}]
    /\ UNCHANGED <<pc, target, acked, skipped>>

Write(p) == \E refs \in StoredRefs(p) : WriteRecord(p, refs)

\* Storage.write raises, before anything is written or with a part of the
\* record in the buffer; the lock stays with the process.
WriteFails(p) ==
    /\ "write" \in Faults
    /\ pc[p] = "idle"
    /\ LockFree(p) /\ holder' = p
    /\ \/ UNCHANGED <<file, device, buffer>>
       \/ /\ Len(recs) + Len(buffer[p].recs) < MaxRecords  \* bound
          /\ FlushThen(p, <<Torn>>)
    /\ UNCHANGED <<known, pc, target, acked, skipped>>

\* commit_root_address, step by step: lock and flush; sync; write the root;
\* flush; sync; unlock.
CommitFlush(p) ==
    /\ pc[p] = "idle"
    /\ LockFree(p) /\ holder' = p
    /\ root.ver < MaxCommits  \* bound
    /\ \E a \in known[p] \cup {0} : target' = [target EXCEPT ![p] = a]
    /\ Flush(p)
    /\ At(p, "sync")
    /\ UNCHANGED <<known, acked, skipped>>

\* SLIP: the payload is not synced.
CommitNoSync(p) ==
    /\ pc[p] = "sync"
    /\ At(p, "root")
    /\ UNCHANGED <<file, device, buffer, holder, known, target, acked, skipped>>

CommitSync(p) ==
    /\ pc[p] = "sync"
    /\ Sync(p)
    /\ At(p, "root")
    /\ UNCHANGED <<file, buffer, holder, known, target, acked>>

CommitRoot(p) ==
    /\ pc[p] = "root"
    /\ buffer' = [buffer EXCEPT ![p].roots =
                     Append(@, [at |-> target[p], ver |-> root.ver + 1])]
    /\ At(p, "flush")
    /\ UNCHANGED <<file, device, holder, known, target, acked, skipped>>

\* The flush raises: the new root stays in the buffer, the lock with p.
CommitRootFails(p) ==
    /\ "write" \in Faults
    /\ pc[p] = "flush"
    /\ LeaveCommit(p)
    /\ UNCHANGED <<file, device, buffer, holder, known, acked, skipped>>

CommitRootFlush(p) ==
    /\ pc[p] = "flush"
    /\ Flush(p)
    /\ At(p, "syncRoot")
    /\ UNCHANGED <<holder, known, target, acked, skipped>>

\* SLIP: the root is not synced.
CommitRootNoSync(p) ==
    /\ pc[p] = "syncRoot"
    /\ At(p, "unlock")
    /\ UNCHANGED <<file, device, buffer, holder, known, target, acked, skipped>>

CommitRootSync(p) ==
    /\ pc[p] = "syncRoot"
    /\ Sync(p)
    /\ At(p, "unlock")
    /\ UNCHANGED <<file, buffer, holder, known, target, acked>>

CommitUnlock(p) ==
    /\ pc[p] = "unlock"
    /\ Flush(p) /\ Release(p)
    /\ acked' = root'.ver
    /\ LeaveCommit(p)
    /\ UNCHANGED <<known, skipped>>

\* unlock() when an update() raises: what was written stays in the file.
GiveUp(p) ==
    /\ pc[p] = "idle" /\ holder = p
    /\ Flush(p) /\ Release(p)
    /\ UNCHANGED <<known, pc, target, acked, skipped>>

\* SLIP: the file is opened again with "w+b", not "r+b".
CloseTruncating(p) ==
    /\ pc[p] = "idle"
    /\ recs' = <<>> /\ root' = [root EXCEPT !.at = 0]
    /\ Release(p)
    /\ known' = [known EXCEPT ![p] = {}]
    /\ UNCHANGED <<device, buffer, pc, target, acked, skipped>>

\* Storage.close: unlock, which flushes, and close the file.  Records written
\* by a commit that failed before its root was written stay in the file.
Close(p) ==
    /\ pc[p] = "idle"
    /\ Flush(p) /\ Release(p)
    /\ known' = [known EXCEPT ![p] = {}]
    /\ UNCHANGED <<pc, target, acked, skipped>>

\* The file object may flush whenever its buffer is full.
Drain(p) ==
    /\ buffer[p] # EmptyBuffer
    /\ Flush(p)
    /\ UNCHANGED <<holder, known, pc, target, acked, skipped>>

\* The process dies; its last record may have been flushed in part.
Kill(p) ==
    /\ "kill" \in Faults
    /\ pc[p] # "idle" \/ known[p] # {} \/ holder = p
    /\ \/ recs' = recs
       \/ buffer[p].recs # <<>> /\ recs' = Append(recs, Torn)
    /\ buffer' = [buffer EXCEPT ![p] = EmptyBuffer]
    /\ known' = [known EXCEPT ![p] = {}]
    /\ LeaveCommit(p) /\ Release(p)
    /\ UNCHANGED <<root, device, acked, skipped>>

\* The machine stops.  Of what was not synced, the device has any part.  What
\* it has after an fsync that failed is promised nowhere, and left out.
PowerFails ==
    /\ "power" \in Faults /\ ~skipped
    /\ \E n \in synced..Len(recs) : \E lost \in SUBSET ((synced + 1)..n) :
          /\ recs' = [a \in 1..n |-> IF a \in lost THEN Torn ELSE recs[a]]
          /\ synced' = n
    /\ root' \in roots /\ roots' = {root'}
    /\ buffer' = [p \in Procs |-> EmptyBuffer]
    /\ known' = [p \in Procs |-> {}]
    /\ pc' = [p \in Procs |-> "idle"]
    /\ target' = [p \in Procs |-> 0]
    /\ holder' = None
    /\ UNCHANGED <<acked, skipped>>

Commit(p) ==
    \/ CommitFlush(p) \/ CommitSync(p) \/ CommitRoot(p) \/ CommitRootFlush(p)
    \/ CommitRootFails(p) \/ CommitRootSync(p) \/ CommitUnlock(p)

Next ==
    \/ \E p \in Procs :
          Load(p) \/ Write(p) \/ WriteFails(p) \/ Commit(p) \/ GiveUp(p)
          \/ Close(p) \/ Drain(p) \/ Kill(p)
    \/ PowerFails

Spec == Init /\ [][Next]_vars

-----------------------------------------------------------------------------
(* Properties. *)

\* A process that opens the file now, with no lock, can read the whole tree of
\* the root it finds, whatever a writer is doing or has left behind when it
\* died: the superblock never points at bytes of a process buffer.
RootReadable == Readable(root.at, recs)

\* As long as fsync does what it says, whichever root survives a power failure,
\* the tree it points at is on the device to the last record (flush and fsync
\* of the payload before the root).
Recoverable == ~skipped => \A r \in roots : Readable(r.at, SubSeq(recs, 1, synced))

\* A commit that returned is not undone by a power failure: the device holds
\* its root or a later one, unless an fsync has failed.
Durable == ~skipped => \A r \in roots : r.ver >= acked

\* Nothing a reader of the current root may still have to load is ever
\* changed, not by other writers nor by failures: the file only grows.
RootTreeUnchanged ==
    [][\A a \in Reach(root.at, recs) :
          a \in DOMAIN recs' /\ recs'[a] = recs[a]]_vars
=============================================================================
