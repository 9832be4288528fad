----------------------------- MODULE DBDBProps -----------------------------
(***************************************************************************)
(* What the connections of module DBDB guarantee, and under which          *)
(* discipline of the clients.                                              *)
(***************************************************************************)
EXTENDS DBDB

Store == INSTANCE AtomicStore
            WITH Clients <- Conns, db <- Live, pending <- eff

\* The discipline of the clients that makes the sessions atomic: commit() and
\* compact() only under the write lock (module DBDB, Rules), and not both
\* compaction and the calls that wait for the lock and then commit by
\* themselves.  Runs stale_compact and update_race show why it takes each.
CanReplace == \E c \in Conns : "compact" \in Calls[c]
CanUpdate == \E c \in Conns : "update" \in Calls[c] \/ "optimistic" \in Calls[c]
Disciplined ==
    /\ "commitLocked" \in Rules /\ "compactLocked" \in Rules
    /\ ~(CanReplace /\ CanUpdate)

\* Every commit, update and compaction takes effect in one step, on top of
\* everything acknowledged before it: the database is an AtomicStore.  This is
\* what lock, refresh under the lock, and root swap are for together.
AtomicSessions == Store!Spec

\* The write lock excludes: no two connections hold it on one file, and no two
\* threads of one process hold it at all (Storage.lock's two layers).
LockExclusion ==
    \A c, d \in Conns :
        c # d /\ locked[c] /\ locked[d] =>
            ino[c] # ino[d] /\ Proc[c] # Proc[d]

\* An optimistic update about to publish holds the lock, the root is still the
\* one it took its snapshot from, and its tree is that root's plus its own
\* increment, whatever the other connections do, compaction included.
OptimisticValidated ==
    \A c \in Conns :
        pc[c] = "publish" /\ frame[c].name = "optimistic" =>
            /\ locked[c]
            /\ root[ino[c]] = frame[c].snap
            /\ view[c] = Apply(eff[c], Current(ino[c]))

\* A connection that holds the write lock, and has looked since it got it,
\* writes to the file the path names and not to an orphaned one
\* (_prepare_write's second check).
HolderOnLiveFile ==
    \A c \in Conns :
        locked[c] /\ pc[c] \notin {"recheck", "validate", "swap"} =>
            ino[c] = path

Intact(c) ==
    addr[c] # Unstored =>
        /\ addr[c] \in 0..Len(trees[ino[c]])
        /\ view[c] = Content(ino[c], addr[c])

\* A tree that was read from the file, or stored in it, still holds exactly
\* what is stored at its address: nothing a connection reads through is ever
\* changed under it, not by commits and not by compaction (append-only file,
\* "readers with existing handles continue reading the old inode safely").
SnapshotIntact == \A c \in Conns : Intact(c)

\* A commit or a compaction by a connection that has nothing uncommitted leaves
\* the contents of the database as they are (compaction.feature: the compacted
\* database has the latest data; persistence.feature: data is not lost).
EmptyCommitKeepsData ==
    [][\A c \in Conns :
         acked'[c] > acked[c] /\ eff[c] = NoEffects => Live' = Live]_vars

\* update and update_optimistic add to the latest contents of the database
\* ("write the result atomically", "detect conflicts at write time").
UpdateAtomic ==
    [][\A c \in Conns :
         acked'[c] > acked[c] /\ frame[c].name \in {"update", "optimistic"} =>
            Live' = Apply(eff[c], Live)]_vars
=============================================================================
