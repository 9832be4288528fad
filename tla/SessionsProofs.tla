--------------------------- MODULE SessionsProofs ---------------------------
(***************************************************************************)
(* Proofs about clients that follow the discipline of DBDBProps: their     *)
(* database is an AtomicStore, and what a session has written it keeps.    *)
(* They hold for every number of connections, processes, keys, files and   *)
(* calls.                                                                  *)
(***************************************************************************)
EXTENDS AtomicProofs, Sessions

\* Clients that never compact have a single file.
Inv == Safe(~CanReplace)

LEMMA Obeyed == ASSUME Disciplined PROVE CommitsUnderLock
BY DEF Disciplined, CommitsUnderLock, StartCommit, StartCompact

LEMMA InvInit == Init => Inv
BY SafeInit DEF Inv

LEMMA InvStep == ASSUME Disciplined PROVE Inv /\ [Next]_vars => Inv'
<1> SUFFICES ASSUME Inv, [Next]_vars PROVE Inv'
  OBVIOUS
<1>1. ControlInv'
  BY TypeInvStep, LockInvStep, ControlStep DEF Inv, Safe
<1>2. Separate(~CanReplace)'
  BY <1>1 DEF Separate, Disciplined, CanReplace, CanUpdate, ControlInv, Flow, CallFits
<1> QED
  BY <1>2, SafeStep, Obeyed DEF Inv

LEMMA InvAlways == ASSUME Disciplined PROVE Spec => []Inv
BY InvInit, InvStep, PTL DEF Spec

\* Disciplined clients never write to an orphaned file: who holds the write
\* lock, and has looked since it got it, holds it on the file the path names.
THEOREM HoldersOnLiveFile ==
    ASSUME Disciplined PROVE Spec => []HolderOnLiveFile
<1>1. Inv => HolderOnLiveFile
  BY DEF Inv, Safe, SessionInv, Fresh, Settled, HolderOnLiveFile
<1> QED
  BY <1>1, InvAlways, PTL

\* Under the discipline the connections implement AtomicStore: every commit,
\* every update and every compaction applies its session's effects, in one
\* step, to whatever the database holds at that moment, and no crash, failed
\* call or replaced file ever undoes or half-applies one.
THEOREM SessionsAtomic ==
    ASSUME Disciplined PROVE Spec => AtomicSessions
<1>1. Init => Store!Init
  BY StoreInit
<1>2. Inv /\ [Next]_vars => [Store!Next]_(Store!vars)
  BY StoreStep DEF Inv
<1> QED
  BY <1>1, <1>2, InvAlways, PTL DEF Spec, AtomicSessions, Store!Spec

\* Under the discipline a commit or a compaction without uncommitted writes
\* changes nothing (undisciplined, it may: run stale_compact).
THEOREM EmptyCommitsKeepData ==
    ASSUME Disciplined PROVE Spec => EmptyCommitKeepsData
<1>1. ASSUME Inv, [Next]_vars
      PROVE  [\A c \in Conns :
                acked'[c] > acked[c] /\ eff[c] = NoEffects => Live' = Live]_vars
  BY <1>1, Acknowledged, LiveType, ApplyNone DEF Inv, Safe
<1> QED
  BY <1>1, InvAlways, PTL DEF Spec, EmptyCommitKeepsData

\* Under the discipline no update is lost and none applied twice (with
\* compaction beside it, one may be: run update_race).
THEOREM UpdatesAtomic ==
    ASSUME Disciplined PROVE Spec => UpdateAtomic
<1>1. ASSUME Inv, [Next]_vars
      PROVE  [\A c \in Conns :
                acked'[c] > acked[c] /\ frame[c].name \in {"update", "optimistic"} =>
                   Live' = Apply(eff[c], Live)]_vars
  BY <1>1, Acknowledged DEF Inv
<1> QED
  BY <1>1, InvAlways, PTL DEF Spec, UpdateAtomic

(***************************************************************************)
(* Sessions keep what they write.  The history variable of SessionsSpec    *)
(* says which sessions have lost their lock on the way.                    *)
(***************************************************************************)
Held(c) ==
    /\ c \notin unguarded /\ eff[c] # NoEffects => locked[c] /\ Settled(c)
    /\ BodyUnlocked(c) => c \in unguarded
    /\ "optimisticFresh" \in Rules /\ AwaitsSnapshot(c) => ~locked[c]

HeldInv == \A c \in Conns : Held(c)

LEMMA HeldMoves ==
    ASSUME Disciplined, Inv, NEW c \in Conns, Moves(c), Observe, Held(c)
    PROVE  Held(c)'
<1> USE DEF Guarded, BodyUnlocked, Settled, Held, LosesLock, StartsAfresh, AwaitsSnapshot
<1>0. /\ pc \in [Conns -> Labels] /\ cont \in [Conns -> Targets]
      /\ frame \in [Conns -> Frame] /\ locked \in [Conns -> BOOLEAN]
      /\ addr \in [Conns -> Nat \cup {Unstored}]
      /\ view \in [Conns -> Maps] /\ ino \in [Conns -> Files]
      /\ eff \in [Conns -> [Keys -> Effect]] /\ acked \in [Conns -> Nat]
      /\ TypeInv /\ Flow(c) /\ Guarded(c) /\ Snapped(c)
      /\ c \in unguarded' <=> LosesLock(c) \/ (c \in unguarded /\ ~StartsAfresh(c))
      /\ Safe(~CanReplace) /\ CommitsUnderLock
  BY Obeyed DEF Inv, Safe, TypeInv, TypeOK, ControlInv, SessionInv, Observe
<1> USE DEF Flow, LockFits, ContFits, Targets
<1>1. CASE StartRead(c)
  BY <1>0, <1>1, CallingHere, ThenGoHere, GotoHere DEF StartRead, conn, history
<1>2. CASE StartWrite(c)
  BY <1>0, <1>2, CallingHere, ThenGoHere DEF StartWrite, conn, history
<1>3. CASE StartOptimistic(c)
  BY <1>0, <1>3, CallingHere, ThenGoHere DEF StartOptimistic, conn, history
<1>4. CASE StartCommit(c)
  BY <1>0, <1>4, CallingHere, TakeLockHere DEF StartCommit, CommitsUnderLock, conn, history
<1>5. CASE StartCompact(c)
  BY <1>0, <1>5, CallingHere, TakeLockHere DEF StartCompact, CommitsUnderLock, conn, history
<1>6. CASE Connect(c)
  BY <1>0, <1>6, CallingHere, ThenGoHere, OpenHere DEF Connect, history, conn
<1>7. CASE Close(c)
  BY <1>0, <1>7, LeaveHere DEF Close, Unlock, Forget, history, conn
<1>8. CASE ReopenNot(c)
  BY <1>0, <1>8, GotoHere DEF ReopenNot, conn, history
<1>9. CASE Reopen(c)
  BY <1>0, <1>9, ThenGoHere, OpenHere, NotReplaced DEF Reopen, history, conn
<1>10. CASE EnsureSuperblock(c)
  BY <1>0, <1>10, ThenGoHere, GotoHere DEF EnsureSuperblock, conn, history
<1>11. CASE SetTreeType(c)
  BY <1>0, <1>11, GotoHere DEF SetTreeType, conn, history
<1>12. CASE InitTree(c)
  BY <1>0, <1>12, ReturnHere, GotoHere, RefreshHere DEF InitTree, history, conn
<1>13. CASE PrepareLock(c)
  BY <1>0, <1>13, GotoHere, ThenGoHere DEF PrepareLock, conn, history
<1>14. CASE AcquireThread(c)
  BY <1>0, <1>14, GotoHere DEF AcquireThread, conn, history
<1>15. CASE AcquireFile(c)
  BY <1>0, <1>15, GotoHere DEF AcquireFile, history, conn
<1>16. CASE RecheckFresh(c)
  BY <1>0, <1>16, GotoHere, RefreshHere DEF RecheckFresh, history, conn
<1>17. CASE RecheckReplaced(c)
  BY <1>0, <1>17, ThenGoHere, OpenHere, NotReplaced DEF RecheckReplaced, history, conn
<1>18. CASE Read(c)
  BY <1>0, <1>18, ReturnHere DEF Read, conn, history
<1>19. CASE Scan(c)
  BY <1>0, <1>19, ReturnHere, RefreshHere DEF Scan, ItemsRefresh
<1>20. CASE Set(c)
  <2>1. pc[c] = "body" /\ ApplyHere(c, frame[c].key, Put(frame[c].val)) /\ Return(c)
    BY <1>20 DEF Set
  <2>2. locked'[c] = locked[c] /\ acked' = acked
    BY <1>0, <2>1, ApplyHereHere DEF ApplyHere
  <2> QED
    BY <1>0, <2>1, <2>2, ReturnHere
<1>21. CASE Del(c)
  <2>1. pc[c] = "body" /\ ApplyHere(c, frame[c].key, Put(Absent)) /\ Return(c)
    BY <1>21 DEF Del
  <2>2. locked'[c] = locked[c] /\ acked' = acked
    BY <1>0, <2>1, ApplyHereHere DEF ApplyHere
  <2> QED
    BY <1>0, <2>1, <2>2, ReturnHere
<1>22. CASE DelMissing(c)
  BY <1>0, <1>22, ReturnHere DEF DelMissing, conn, history
<1>23. CASE Update(c)
  <2>1. /\ pc[c] = "body" /\ frame[c].name = "update"
        /\ ApplyHere(c, frame[c].key, Inc) /\ TakeLock(c, "publish") /\ frame' = frame
    BY <1>23 DEF Update
  <2>2. locked'[c] = locked[c] /\ acked' = acked /\ cont'[c] = "publish"
        /\ pc'[c] = IF locked[c] THEN "publish" ELSE "lock"
    BY <1>0, <2>1, TakeLockHere, ApplyHereHere DEF ApplyHere
  <2>3. locked[c]
    BY <1>0, <2>1, UpdateLocked
  <2> QED
    BY <1>0, <1>23, <2>1, <2>2, <2>3
<1>24. CASE UpdateRaises(c)
  BY <1>0, <1>24, ReturnHere DEF UpdateRaises, Unlock, history, conn
<1>25. CASE Publish(c)
  BY <1>0, <1>25, ReturnHere DEF Publish, Unlock, Forget, history, conn
<1>26. CASE Snapshot(c)
  BY <1>0, <1>26, FrameHere, TakeLockHere, RefreshHere DEF Snapshot, SnapshotRoot, history, conn
<1>27. CASE ValidateOK(c)
  <2>1. /\ pc[c] = "validate" /\ ApplyHere(c, frame[c].key, Inc)
        /\ Goto(c, "publish")
    BY <1>27 DEF ValidateOK
  <2>2. locked'[c] = locked[c] /\ pc'[c] = "publish"
    BY <1>0, <2>1, GotoHere, ApplyHereHere
  <2> QED
    BY <1>0, <2>1, <2>2
<1>28. CASE ValidateFails(c)
  <2>1. /\ pc[c] = "validate" /\ ~locked'[c] /\ eff'[c] = NoEffects
    BY <1>0, <1>28 DEF ValidateFails, Unlock, history, Snapped, AwaitsValidation
  <2>2. pc'[c] \in {"idle", "reopen"}
    BY <1>0, <1>28, ReturnHere, ThenGoHere DEF ValidateFails
  <2> QED
    BY <2>1, <2>2
<1>29. CASE CopyItems(c)
  BY <1>0, <1>29, GotoHere, FrameHere DEF CopyItems, Copy, ItemsRefresh, history, conn
<1>30. CASE Rename(c)
  BY <1>0, <1>30, GotoHere DEF Rename, Forget, history, conn
<1>31. CASE Swap(c)
  BY <1>0, <1>31, ThenGoHere, OpenHere DEF Swap, history, conn
<1>32. CASE CompactFails(c)
  BY <1>0, <1>32, ReturnHere DEF CompactFails, Unlock, history, conn
<1> QED
  BY <1>1, <1>2, <1>3, <1>4, <1>5, <1>6, <1>7, <1>8, <1>9, <1>10, <1>11, <1>12, <1>13, <1>14, <1>15, <1>16, <1>17, <1>18, <1>19, <1>20, <1>21, <1>22, <1>23, <1>24, <1>25, <1>26, <1>27, <1>28, <1>29, <1>30, <1>31, <1>32
     DEF Moves, Begin, Step, Open, Lock, Body, Compact

LEMMA HeldStays ==
    ASSUME Inv, Observe, NEW d \in Conns, Unmoved(d), acked'[d] = acked[d], Held(d)
    PROVE  Held(d)'
<1>1. acked[d] \in Nat /\ Flow(d)
  BY DEF Inv, Safe, TypeInv, TypeOK, ControlInv
<1>2. d \in unguarded' <=> d \in unguarded /\ pc[d] # "closed"
  BY <1>1 DEF Observe, LosesLock, StartsAfresh, Unmoved
<1>3. pc[d] = "closed" => eff[d] = NoEffects
  BY <1>1 DEF Flow, LockFits
<1> QED
  BY <1>2, <1>3 DEF Held, Unmoved, BodyUnlocked, Settled, AwaitsSnapshot

LEMMA HeldStep ==
    ASSUME Disciplined, Inv, HeldInv, [Next /\ Observe]_svars
    PROVE  HeldInv'
<1>1. ASSUME NEW c \in Conns, Moves(c), Observe, NEW d \in Conns PROVE Held(d)'
  BY <1>1, HeldMoves, HeldStays, OthersStay, OthersAcked DEF HeldInv, Inv, Safe
<1>2. ASSUME NEW p, Crash(p), Observe, NEW d \in Conns PROVE Held(d)'
  <2>1. CASE Unmoved(d)
    BY <1>2, <2>1, HeldStays DEF HeldInv, Crash
  <2>2. CASE pc'[d] = "closed" /\ ~locked'[d] /\ eff'[d] = NoEffects
    BY <2>2 DEF Held, BodyUnlocked, AwaitsSnapshot
  <2> QED
    BY <1>2, <2>1, <2>2, CrashFacts DEF Inv, Safe
<1>3. ASSUME UNCHANGED vars, Observe, NEW d \in Conns PROVE Held(d)'
  BY <1>3, HeldStays DEF HeldInv, vars, conn, ctrl, history, Unmoved
<1>4. CASE UNCHANGED svars
  BY <1>4 DEF svars, vars, conn, ctrl, history, HeldInv, Held, BodyUnlocked, Settled,
              AwaitsSnapshot
<1> QED
  BY <1>1, <1>2, <1>3, <1>4 DEF HeldInv, Next, Done, Moves

LEMMA HeldInit == Init => HeldInv
BY DEF Init, HeldInv, Held, BodyUnlocked, AwaitsSnapshot

LEMMA SessionsImplies == [Next /\ Observe]_svars => [Next]_vars
BY DEF svars

LEMMA HeldAlways == ASSUME Disciplined PROVE SessionsSpec => []Inv /\ []HeldInv
<1>1. Inv /\ HeldInv /\ [Next /\ Observe]_svars => Inv' /\ HeldInv'
  BY InvStep, HeldStep, SessionsImplies
<1> QED
  BY <1>1, InvInit, HeldInit, PTL DEF SessionsSpec

\* Disciplined sessions have their uncommitted writes under the lock of the
\* file the path names, unless they have lost that lock.
THEOREM PendingIsLocked ==
    ASSUME Disciplined PROVE SessionsSpec => []PendingLocked
<1>1. Inv /\ HeldInv => PendingLocked
  BY DEF Inv, Safe, HeldInv, Held, SessionInv, Fresh, PendingLocked
<1> QED
  BY <1>1, HeldAlways, PTL

\* Disciplined sessions lose no write: what a session has written leaves its
\* memory by a commit, by close() or with the process, unless the session had
\* lost its lock before; no refresh and no reopening drops it.
THEOREM SessionsKept ==
    ASSUME Disciplined, "optimisticFresh" \in Rules
    PROVE  SessionsSpec => SessionKept
<1>1. ASSUME Inv, HeldInv, [Next /\ Observe]_svars
      PROVE  [\A c \in Conns :
                eff[c] # NoEffects /\ eff'[c] = NoEffects =>
                   acked'[c] > acked[c] \/ pc'[c] = "closed" \/ c \in unguarded]_svars
  <2> SUFFICES ASSUME Next, NEW c \in Conns, eff[c] # NoEffects, eff'[c] = NoEffects,
                      c \notin unguarded
               PROVE  acked'[c] > acked[c] \/ pc'[c] = "closed"
    BY <1>1
  <2>0. TypeInv /\ acked[c] \in Nat /\ acked \in [Conns -> Nat]
    BY <1>1 DEF Inv, Safe, TypeInv, TypeOK
  <2>1. locked[c] /\ Settled(c)
    BY <1>1 DEF HeldInv, Held
  <2>2. CASE Moves(c)
    <3>1. ~Snapshot(c)
      BY <1>1, <2>1 DEF HeldInv, Held, AwaitsSnapshot, Snapshot, SnapshotRoot
    <3>2. CASE Publish(c) \/ Rename(c)
      BY <2>0, <3>2 DEF Publish, Rename
    <3>3. CASE Close(c)
      BY <2>0, <3>3, LeaveHere DEF Close
    <3> QED
      BY <1>1, <2>1, <2>2, <3>1, <3>2, <3>3, Forgets DEF Inv
  <2>3. ASSUME NEW d \in Conns, Moves(d), d # c PROVE FALSE
    BY <2>0, <2>3, OthersStay DEF Unmoved
  <2>4. ASSUME NEW p, Crash(p) PROVE pc'[c] = "closed"
    BY <2>0, <2>4, CrashFacts DEF Unmoved
  <2>5. CASE Done
    BY <2>5 DEF Done, vars, history
  <2> QED
    BY <2>2, <2>3, <2>4, <2>5 DEF Next, Moves
<1> QED
  BY <1>1, HeldAlways, PTL DEF SessionsSpec, SessionKept
=============================================================================
