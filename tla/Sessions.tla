------------------------------ MODULE Sessions ------------------------------
(***************************************************************************)
(* What becomes of the writes of a session before they are committed.  To  *)
(* DBDB this module adds a history variable that says whether a session    *)
(* has lost its lock on the way: a replaced file was opened in its place,  *)
(* or a call raised and gave the lock up.                                  *)
(***************************************************************************)
EXTENDS DBDBProps

VARIABLE unguarded   \* history: the sessions whose lock was lost

svars == <<vars, unguarded>>

\* c opens another file, or a call of its session gives up the lock and raises.
LosesLock(c) ==
    \/ pc[c] \in {"reopen", "items", "recheck"} /\ pc'[c] = "super"
    \/ locked[c] /\ ~locked'[c] /\ pc'[c] = "idle" /\ acked'[c] = acked[c]

\* The session ends, or a write takes the lock anew and looks at the file.
StartsAfresh(c) ==
    \/ pc'[c] = "closed"
    \/ acked'[c] > acked[c]
    \/ pc[c] = "recheck" /\ pc'[c] = "body"

Observe ==
    unguarded' =
        {c \in Conns : LosesLock(c) \/ (c \in unguarded /\ ~StartsAfresh(c))}

SessionsSpec == Init /\ unguarded = {} /\ [][Next /\ Observe]_svars

\* What a session has written and not committed leaves its memory only by a
\* commit, by close() or with the process, unless it had lost its lock before.
\* No call drops it, neither by refreshing the tree nor by opening a file.
SessionKept ==
    [][\A c \in Conns :
         eff[c] # NoEffects /\ eff'[c] = NoEffects =>
            acked'[c] > acked[c] \/ pc'[c] = "closed" \/ c \in unguarded]_svars

\* Uncommitted writes are under the write lock of the file they are meant
\* for, unless the session has lost its lock (_prepare_write: "closing the
\* TOCTOU window for write operations").
PendingLocked ==
    \A c \in Conns \ unguarded :
        eff[c] # NoEffects /\ pc[c] # "swap" => locked[c] /\ ino[c] = path
=============================================================================
