---------------------------- MODULE AtomicProofs ----------------------------
(***************************************************************************)
(* Why a session under the write lock is atomic: the inductive invariant   *)
(* of clients that commit and compact under the lock, and the steps of     *)
(* AtomicStore that theirs are.  Which clients keep to that is left open:  *)
(* a client of SessionsProofs by its rules, one of ProgramsProofs by its   *)
(* script.                                                                 *)
(***************************************************************************)
EXTENDS ControlProofs

\* A step of clients that commit and compact only under the lock.
CommitsUnderLock ==
    \A c \in Conns : StartCommit(c) \/ StartCompact(c) => locked[c]

\* The clients either never compact, so that there is a single file, or never
\* make the calls that wait for the lock and then commit by themselves.
Separate(single) ==
    \A c \in Conns :
        frame[c].name \notin IF single THEN {"compact"} ELSE {"update", "optimistic"}

(***************************************************************************)
(* The inductive invariant, on top of TypeInv, LockInv and ControlInv.     *)
(***************************************************************************)

Settled(c) == pc[c] \notin {"recheck", "validate", "swap"}

\* At, or on the way to, the body of a write call without the lock.
BodyUnlocked(c) ==
    \/ pc[c] = "body" /\ ~locked[c]
    \/ pc[c] \in {"super", "init"} /\ cont[c] = "body"

\* What the discipline adds to the control of the calls.
Guarded(c) ==
    /\ pc[c] \in {"items", "copy", "rename"} => locked[c]
    /\ pc[c] \in {"lock", "flock"} => cont[c] \in {"recheck", "validate"}
    /\ pc[c] \in {"super", "init"} => cont[c] # "copy"

\* A connection that holds the lock and has looked since it got it has the
\* latest tree, changed by its own session only.
Fresh(c) ==
    locked[c] /\ Settled(c) => ino[c] = path /\ view[c] = Apply(eff[c], Live)

\* The temporary file of compact() is private and complete.
Copied(c) ==
    pc[c] = "rename" =>
        /\ frame[c].temp \notin {1, path}
        /\ \A d \in Conns : ino[d] # frame[c].temp
        /\ Current(frame[c].temp) = view[c]

\* With a single file nobody ever opens another one instead of locking.
OneFile == path = 1 /\ \A c \in Conns : ino[c] = 1 /\ ~BodyUnlocked(c)

SessionInv == \A c \in Conns : Guarded(c) /\ Fresh(c) /\ Copied(c)

Safe(single) ==
    /\ TypeInv /\ LockInv /\ ControlInv /\ SessionInv
    /\ Separate(single) /\ (single => OneFile)

\* The steps that change the tree of a session.
ChangesTree(c) == Set(c) \/ Del(c) \/ Update(c) \/ ValidateOK(c)

-----------------------------------------------------------------------------
(* The connection that moves. *)

\* Under the lock a file is never found replaced, and an update never is.
LEMMA NotReplaced ==
    ASSUME NEW single \in BOOLEAN, Safe(single), NEW c \in Conns
    PROVE  /\ pc[c] \in {"items", "reopen"} /\ locked[c] => ~Replaced(c)
           /\ frame[c].name \in {"update", "optimistic"} => ~Replaced(c)
BY DEF Safe, Separate, SessionInv, OneFile, Fresh, Settled, Replaced

\* Nor does an update work without the lock.
LEMMA UpdateLocked ==
    ASSUME NEW single \in BOOLEAN, Safe(single), NEW c \in Conns,
           pc[c] = "body", frame[c].name = "update"
    PROVE  locked[c]
BY DEF Safe, Separate, OneFile, BodyUnlocked

\* The lock: a connection that holds it and has looked since it got it did so
\* before the step, and kept its tree, or got it, or changed its tree.
LEMMA GuardedMoves ==
    ASSUME NEW single \in BOOLEAN, Safe(single), CommitsUnderLock,
           NEW c \in Conns, Moves(c)
    PROVE  /\ Guarded(c)'
           /\ locked'[c] /\ Settled(c)' =>
                \/ /\ locked[c] /\ Settled(c) /\ ino'[c] = ino[c]
                   /\ view'[c] = view[c] /\ eff'[c] = eff[c]
                \/ RecheckFresh(c)
                \/ ChangesTree(c)
           /\ pc'[c] = "rename" => CopyItems(c)
           /\ BodyUnlocked(c)' => BodyUnlocked(c) \/ RecheckReplaced(c) \/ Reopen(c)
<1> USE DEF Guarded, BodyUnlocked, Settled, ChangesTree
<1>0. /\ pc \in [Conns -> Labels] /\ cont \in [Conns -> Targets]
      /\ frame \in [Conns -> Frame] /\ locked \in [Conns -> BOOLEAN]
      /\ addr \in [Conns -> Nat \cup {Unstored}]
      /\ view \in [Conns -> Maps] /\ ino \in [Conns -> Files]
      /\ eff \in [Conns -> [Keys -> Effect]]
      /\ TypeInv /\ Flow(c) /\ Guarded(c)
  BY DEF Safe, TypeInv, TypeOK, ControlInv, SessionInv
<1> USE DEF Flow, CallFits, LockFits, ContFits, NameFits, InCompact, Targets
<1>1. CASE StartRead(c)
  BY <1>0, <1>1, CallingHere, ThenGoHere, GotoHere DEF StartRead, conn, history
<1>2. CASE StartWrite(c)
  BY <1>0, <1>2, CallingHere, ThenGoHere DEF StartWrite, conn, history
<1>3. CASE StartOptimistic(c)
  BY <1>0, <1>3, CallingHere, ThenGoHere DEF StartOptimistic, conn, history
<1>4. CASE StartCommit(c)
  BY <1>0, <1>4, CallingHere, TakeLockHere DEF StartCommit, CommitsUnderLock, conn, history
<1>5. CASE StartCompact(c)
  BY <1>0, <1>5, CallingHere, TakeLockHere DEF StartCompact, CommitsUnderLock, conn, history
<1>6. CASE Connect(c)
  BY <1>0, <1>6, CallingHere, ThenGoHere, OpenHere DEF Connect
<1>7. CASE Close(c)
  BY <1>0, <1>7, LeaveHere DEF Close, Unlock, Forget
<1>8. CASE ReopenNot(c)
  BY <1>0, <1>8, GotoHere DEF ReopenNot, conn, history
<1>9. CASE Reopen(c)
  BY <1>0, <1>9, ThenGoHere, OpenHere, NotReplaced DEF Reopen
<1>10. CASE EnsureSuperblock(c)
  BY <1>0, <1>10, ThenGoHere, GotoHere DEF EnsureSuperblock, conn, history
<1>11. CASE SetTreeType(c)
  BY <1>0, <1>11, GotoHere DEF SetTreeType, conn, history
<1>12. CASE InitTree(c)
  BY <1>0, <1>12, ReturnHere, GotoHere, RefreshHere DEF InitTree
<1>13. CASE PrepareLock(c)
  BY <1>0, <1>13, GotoHere, ThenGoHere DEF PrepareLock, conn, history
<1>14. CASE AcquireThread(c)
  BY <1>0, <1>14, GotoHere DEF AcquireThread, conn, history
<1>15. CASE AcquireFile(c)
  BY <1>0, <1>15, GotoHere DEF AcquireFile, history
<1>16. CASE RecheckFresh(c)
  BY <1>0, <1>16, GotoHere, RefreshHere DEF RecheckFresh
<1>17. CASE RecheckReplaced(c)
  BY <1>0, <1>17, ThenGoHere, OpenHere, NotReplaced DEF RecheckReplaced
<1>18. CASE Read(c)
  BY <1>0, <1>18, ReturnHere DEF Read, conn, history
<1>19. CASE Scan(c)
  BY <1>0, <1>19, ReturnHere DEF Scan, ItemsRefresh
<1>20. CASE Set(c)
  BY <1>0, <1>20, ReturnHere, ApplyHereHere DEF Set
<1>21. CASE Del(c)
  BY <1>0, <1>21, ReturnHere, ApplyHereHere DEF Del
<1>22. CASE DelMissing(c)
  BY <1>0, <1>22, ReturnHere DEF DelMissing, conn, history
<1>23. CASE Update(c)
  <2>1. /\ pc[c] = "body" /\ frame[c].name = "update"
        /\ ApplyHere(c, frame[c].key, Inc) /\ TakeLock(c, "publish") /\ frame' = frame
    BY <1>23 DEF Update
  <2>2. locked'[c] = locked[c] /\ cont'[c] = "publish"
        /\ pc'[c] = IF locked[c] THEN "publish" ELSE "lock"
    BY <1>0, <2>1, TakeLockHere, ApplyHereHere
  <2>3. locked[c]
    BY <1>0, <2>1, UpdateLocked
  <2> QED
    BY <1>0, <1>23, <2>1, <2>2, <2>3
<1>24. CASE UpdateRaises(c)
  BY <1>0, <1>24, ReturnHere DEF UpdateRaises, Unlock
<1>25. CASE Publish(c)
  BY <1>0, <1>25, ReturnHere DEF Publish, Unlock, Forget
<1>26. CASE Snapshot(c)
  BY <1>0, <1>26, FrameHere, TakeLockHere, RefreshHere DEF Snapshot, SnapshotRoot
<1>27. CASE ValidateOK(c)
  <2>1. ApplyHere(c, frame[c].key, Inc) /\ Goto(c, "publish") /\ frame' = frame
    BY <1>27 DEF ValidateOK
  <2>2. locked'[c] = locked[c] /\ pc'[c] = "publish"
    BY <1>0, <2>1, GotoHere, ApplyHereHere
  <2> QED
    BY <1>27, <2>2
<1>28. CASE ValidateFails(c)
  <2>1. /\ pc[c] = "validate" /\ ~locked'[c] /\ eff' = eff
    BY <1>0, <1>28 DEF ValidateFails, Unlock, history
  <2>2. CASE frame[c].tries = 1
    BY <1>0, <1>28, <2>1, <2>2, ReturnHere DEF ValidateFails
  <2>3. CASE frame[c].tries # 1
    <3>1. /\ ThenGo(c, "reopen", "snap")
          /\ frame' = [frame EXCEPT ![c].tries = frame[c].tries - 1]
      BY <1>28, <2>3 DEF ValidateFails
    <3>2. /\ pc'[c] = "reopen" /\ cont'[c] = "snap"
          /\ frame'[c].name = frame[c].name /\ frame'[c].key = frame[c].key
      BY <1>0, <3>1, ThenGoHere, FrameHere
    <3> QED
      BY <2>1, <3>2
  <2> QED
    BY <2>2, <2>3
<1>29. CASE CopyItems(c)
  BY <1>0, <1>29, GotoHere, FrameHere DEF CopyItems, Copy, ItemsRefresh
<1>30. CASE Rename(c)
  BY <1>0, <1>30, GotoHere DEF Rename, Forget
<1>31. CASE Swap(c)
  BY <1>0, <1>31, ThenGoHere, OpenHere DEF Swap
<1>32. CASE CompactFails(c)
  BY <1>0, <1>32, ReturnHere DEF CompactFails, Unlock
<1> QED
  BY <1>1, <1>2, <1>3, <1>4, <1>5, <1>6, <1>7, <1>8, <1>9, <1>10, <1>11, <1>12, <1>13, <1>14, <1>15, <1>16, <1>17, <1>18, <1>19, <1>20, <1>21, <1>22, <1>23, <1>24, <1>25, <1>26, <1>27, <1>28, <1>29, <1>30, <1>31, <1>32
     DEF Moves, Begin, Step, Open, Lock, Body, Compact

\* A step of the mover may close its file or open the one the path names.
LEMMA FileMoves ==
    ASSUME TypeInv, NEW c \in Conns, Moves(c), NEW d \in Conns
    PROVE  ino'[d] \in {ino[d], 1, path}
<1> USE DEF conn, OpenAgain
<1>0. ino \in [Conns -> Files]
  BY DEF TypeInv, TypeOK
<1>1. CASE Begin(c)
  BY <1>0, <1>1 DEF Begin, StartRead, StartWrite, StartOptimistic, StartCommit,
                    StartCompact, Connect
<1>2. CASE Close(c) \/ CompactFails(c)
  BY <1>0, <1>2 DEF Close, CompactFails
<1>3. CASE Open(c)
  BY <1>0, <1>3 DEF Open, ReopenNot, Reopen, EnsureSuperblock, SetTreeType, InitTree
<1>4. CASE Lock(c)
  BY <1>0, <1>4 DEF Lock, PrepareLock, AcquireThread, AcquireFile, RecheckFresh,
                    RecheckReplaced
<1>5. CASE Body(c)
  BY <1>0, <1>5 DEF Body, Read, Scan, Set, Del, DelMissing, Update, UpdateRaises,
                    Publish, Snapshot, SnapshotRoot, ValidateOK, ValidateFails, ApplyHere
<1>6. CASE Compact(c)
  BY <1>0, <1>6 DEF Compact, CopyItems, Copy, Rename, Swap
<1> QED
  BY <1>1, <1>2, <1>3, <1>4, <1>5, <1>6 DEF Moves, Step

\* A commit makes the tree of the session the contents of the open file.
LEMMA PublishStores ==
    ASSUME TypeInv, NEW c \in Conns, Publish(c)
    PROVE  /\ Current(ino[c])' = view[c] /\ path' = path /\ ino' = ino
           /\ \A f \in Files : f # ino[c] => Current(f)' = Current(f)
<1>1. /\ ino[c] \in Files /\ view[c] \in Maps /\ Intact(c)
      /\ trees \in [Files -> Seq(Maps)] /\ root \in [Files -> Nat]
  BY DEF TypeInv, TypeOK, SnapshotIntact
<1>2. PICK a \in AddressAfterStore(c) :
          /\ root' = [root EXCEPT ![ino[c]] = a]
          /\ trees' = IF a \in 0..Len(trees[ino[c]]) THEN trees
                      ELSE [trees EXCEPT ![ino[c]] = Append(trees[ino[c]], view[c])]
  BY <1>1 DEF Publish
<1>3. a \in Nat /\ a \in 0..Len(trees[ino[c]]) + 1 /\ trees[ino[c]] \in Seq(Maps)
  BY <1>1, PublishType
<1>4. view[c] = IF a = 0 THEN EmptyMap ELSE trees'[ino[c]][a]
  <2>1. CASE addr[c] # Unstored
    BY <1>1, <1>2, <2>1 DEF AddressAfterStore, Intact, Content
  <2>2. CASE addr[c] = Unstored /\ a \in 1..Len(trees[ino[c]])
    BY <1>1, <1>2, <1>3, <2>2 DEF AddressAfterStore
  <2>3. CASE addr[c] = Unstored /\ a \notin 1..Len(trees[ino[c]])
    <3>1. a = Len(trees[ino[c]]) + 1 /\ a # 0 /\ a \notin 0..Len(trees[ino[c]])
      BY <1>1, <1>3, <2>3, AppendFacts DEF AddressAfterStore
    <3> QED
      BY <1>1, <1>2, <1>3, <3>1, AppendFacts
  <2> QED
    BY <2>1, <2>2, <2>3
<1>5. root'[ino[c]] = a /\ path' = path /\ ino' = ino
  BY <1>1, <1>2 DEF Publish
<1>6. ASSUME NEW f \in Files, f # ino[c] PROVE Current(f)' = Current(f)
  BY <1>1, <1>2, <1>6 DEF Current, Content
<1> QED
  BY <1>4, <1>5, <1>6 DEF Current, Content

\* A session under the lock commits to the database, on top of all others.
LEMMA PublishFacts ==
    ASSUME NEW single \in BOOLEAN, Safe(single), NEW c \in Conns, Publish(c)
    PROVE  /\ Live' = view[c] /\ view[c] = Apply(eff[c], Live)
           /\ locked[c] /\ Settled(c)
<1>1. pc[c] = "publish"
  BY DEF Publish
<1>2. locked[c] /\ Settled(c)
  BY <1>1 DEF Safe, ControlInv, Flow, LockFits, Settled
<1>3. ino[c] = path /\ view[c] = Apply(eff[c], Live)
  BY <1>2 DEF Safe, SessionInv, Fresh
<1>4. Live' = view[c]
  BY <1>3, PublishStores DEF Safe, Live, Current, Content
<1> QED
  BY <1>2, <1>3, <1>4

\* So does a compaction, by its rename.
LEMMA RenameFacts ==
    ASSUME NEW single \in BOOLEAN, Safe(single), NEW c \in Conns, Rename(c)
    PROVE  /\ Live' = view[c] /\ view[c] = Apply(eff[c], Live)
           /\ locked[c] /\ Settled(c)
<1>1. /\ pc[c] = "rename" /\ path' = frame[c].temp
      /\ root' = root /\ trees' = trees
  BY DEF Rename
<1>2. locked[c] /\ Settled(c)
  BY <1>1 DEF Safe, SessionInv, Guarded, Settled
<1>3. view[c] = Apply(eff[c], Live)
  BY <1>2 DEF Safe, SessionInv, Fresh
<1>4. Current(frame[c].temp) = view[c]
  BY <1>1 DEF Safe, SessionInv, Copied
<1> QED
  BY <1>1, <1>2, <1>3, <1>4 DEF Live, Current, Content

\* A compaction under the lock copies the tree of its session to a new file.
LEMMA CopyStores ==
    ASSUME TypeInv, NEW c \in Conns, CopyItems(c), locked[c]
    PROVE  /\ path' = path /\ ino' = ino
           /\ UNCHANGED <<view, addr, eff, acked>>
           /\ \A f \in Files : f <= created =>
                 root'[f] = root[f] /\ trees'[f] = trees[f]
           /\ created + 1 \in Files
           /\ frame'[c].temp = created + 1
           /\ \A f \in Files : f = created + 1 => Current(f)' = view[c]
<1>1. /\ UNCHANGED <<path, ino, view, addr, eff, acked>> /\ created < MaxFiles
      /\ trees' = [trees EXCEPT ![created + 1] =
                      IF view[c] = EmptyMap THEN <<>> ELSE <<view[c]>>]
      /\ root' = [root EXCEPT ![created + 1] = IF view[c] = EmptyMap THEN 0 ELSE 1]
      /\ created' = created + 1
  BY DEF CopyItems, Copy, ItemsRefresh
<1>2. /\ root \in [Files -> Nat] /\ trees \in [Files -> Seq(Maps)]
      /\ created \in Nat /\ created >= 1
  BY FilesAssumption DEF TypeInv, TypeOK, Files
<1>3. created + 1 \in Files
  BY <1>1, <1>2, FilesAssumption DEF Files
<1>4. ASSUME NEW f \in Files, f <= created
      PROVE  root'[f] = root[f] /\ trees'[f] = trees[f]
  <2>1. f # created + 1
    BY <1>2, <1>4 DEF Files
  <2> QED
    BY <1>1, <1>2, <1>3, <2>1
<1>5. ASSUME NEW f \in Files, f = created + 1
      PROVE  Current(f)' = view[c]
  BY <1>1, <1>2, <1>5 DEF Current, Content
<1>6. frame'[c].temp = created + 1
  BY FrameHere DEF CopyItems, Copy
<1> QED
  BY <1>1, <1>3, <1>4, <1>5, <1>6

LEMMA CopyFacts ==
    ASSUME NEW single \in BOOLEAN, Safe(single), NEW c \in Conns, CopyItems(c)
    PROVE  /\ Live' = Live /\ path' = path /\ ino' = ino
           /\ locked[c] /\ Settled(c)
           /\ UNCHANGED <<view, addr, eff, acked>>
           /\ \A f \in Files : f <= created =>
                 root'[f] = root[f] /\ trees'[f] = trees[f]
           /\ created + 1 \in Files
           /\ frame'[c].temp = created + 1
           /\ \A f \in Files : f = created + 1 => Current(f)' = view[c]
<1>1. locked[c] /\ Settled(c) /\ TypeInv
  BY DEF CopyItems, Copy, Safe, SessionInv, Guarded, Settled
<1>2. path \in Files /\ path <= created
  BY <1>1 DEF TypeInv, TypeOK, FilesCreated
<1>3. Live' = Live
  BY <1>1, <1>2, CopyStores DEF Live, Current, Content
<1> QED
  BY <1>1, <1>3, CopyStores

LEMMA LiveMoves ==
    ASSUME NEW single \in BOOLEAN, Safe(single), NEW c \in Conns, Moves(c)
    PROVE  /\ Publish(c) \/ Rename(c) \/ Live' = Live
           /\ Rename(c) \/ path' = path
<1>1. CASE Publish(c) \/ Rename(c)
  BY <1>1 DEF Publish
<1>2. CASE CopyItems(c)
  BY <1>2, CopyFacts
<1>3. CASE SameDisk
  BY <1>3 DEF SameDisk, Live, Current, Content
<1> QED
  BY <1>1, <1>2, <1>3, DiskMoves

-----------------------------------------------------------------------------
(* The invariant is inductive. *)

LEMMA LiveType == ASSUME TypeInv PROVE Live \in Maps
<1>1. path \in Files /\ root[path] \in 0..Len(trees[path])
  BY DEF TypeInv, TypeOK, RootsStored
<1> QED
  BY <1>1, ContentType DEF Live, Current

LEMMA FreshMoves ==
    ASSUME NEW single \in BOOLEAN, Safe(single), CommitsUnderLock,
           NEW c \in Conns, Moves(c)
    PROVE  Fresh(c)'
<1> SUFFICES ASSUME locked'[c], Settled(c)'
             PROVE  ino'[c] = path' /\ view'[c] = Apply(eff'[c], Live')
  BY DEF Fresh
<1>0. TypeInv /\ Flow(c) /\ Fresh(c) /\ Snapped(c)
  BY DEF Safe, ControlInv, SessionInv
<1>1. ~Publish(c) /\ ~Rename(c)
  <2>1. ~Publish(c)
    BY <1>0 DEF Publish, Unlock, TypeInv, TypeOK
  <2>2. ~Rename(c)
    BY <1>0, GotoHere DEF Rename, Settled
  <2> QED
    BY <2>1, <2>2
<1>2. Live' = Live /\ path' = path
  BY <1>1, LiveMoves
<1>3. Live \in Maps
  BY <1>0, LiveType
<1>4. CASE /\ locked[c] /\ Settled(c) /\ ino'[c] = ino[c]
           /\ view'[c] = view[c] /\ eff'[c] = eff[c]
  BY <1>0, <1>2, <1>4 DEF Fresh
<1>5. CASE RecheckFresh(c)
  <2>1. ino[c] = path /\ ino' = ino /\ Refresh(c)
    BY <1>5 DEF RecheckFresh, Replaced
  <2>2. view'[c] = Live /\ eff'[c] = NoEffects
    BY <1>0, <2>1, RefreshHere DEF Live
  <2> QED
    BY <1>2, <1>3, <2>1, <2>2, ApplyNone
<1>6. CASE ChangesTree(c)
  <2>1. /\ frame[c].key \in Keys
        /\ \E e \in Effect : ApplyHere(c, frame[c].key, e)
    <3>1. frame[c].val \in Nat
      BY <1>0, BoundsAssumption DEF TypeInv, TypeOK, Frame
    <3>2. CASE Set(c)
      BY <1>0, <3>1, <3>2, EffectTypes DEF Set, Flow, CallFits
    <3>3. CASE Del(c)
      BY <1>0, <3>3, EffectTypes DEF Del, Flow, CallFits
    <3>4. CASE Update(c)
      BY <1>0, <3>4, EffectTypes DEF Update, Flow, CallFits
    <3>5. CASE ValidateOK(c)
      BY <1>0, <3>5, EffectTypes, ValidateFacts DEF ValidateOK
    <3> QED
      BY <1>6, <3>2, <3>3, <3>4, <3>5 DEF ChangesTree
  <2>2. PICK e \in Effect : ApplyHere(c, frame[c].key, e)
    BY <2>1
  <2>3. locked'[c] = locked[c] /\ ino'[c] = ino[c]
    BY <1>0, <2>2, ApplyHereHere
  <2>4. ino[c] = path /\ view[c] = Apply(eff[c], Live)
    <3>1. CASE ValidateOK(c)
      <4>1. ~Replaced(c) /\ view[c] = Current(ino[c]) /\ eff[c] = NoEffects
        BY <1>0, <3>1, ValidateFacts, NotReplaced
      <4> QED
        BY <1>3, <4>1, ApplyNone DEF Live, Replaced
    <3>2. CASE pc[c] = "body"
      BY <1>0, <2>3, <3>2 DEF Fresh, Settled
    <3> QED
      BY <1>6, <3>1, <3>2 DEF ChangesTree, Set, Del, Update
  <2> QED
    BY <1>0, <1>2, <1>3, <2>1, <2>2, <2>3, <2>4, WriteFollows
<1> QED
  BY <1>4, <1>5, <1>6, GuardedMoves

LEMMA CopiedMoves ==
    ASSUME NEW single \in BOOLEAN, Safe(single), CommitsUnderLock,
           NEW c \in Conns, Moves(c)
    PROVE  Copied(c)'
<1> SUFFICES ASSUME pc'[c] = "rename"
             PROVE  /\ frame'[c].temp \notin {1, path'}
                    /\ \A d \in Conns : ino'[d] # frame'[c].temp
                    /\ Current(frame[c].temp)' = view'[c]
  BY DEF Copied
<1>1. CopyItems(c)
  BY GuardedMoves
<1>2. /\ created \in Nat /\ created >= 1 /\ path \in Nat /\ path <= created
      /\ \A d \in Conns : ino[d] \in Nat /\ ino[d] <= created
  <2>1. /\ created \in Files /\ path \in Files /\ path <= created
        /\ \A d \in Conns : ino[d] \in Files /\ ino[d] <= created
    BY DEF Safe, TypeInv, TypeOK, FilesCreated
  <2> QED
    BY <2>1, FilesAssumption DEF Files
<1>3. /\ path' = path /\ ino' = ino /\ view' = view /\ created + 1 \in Files
      /\ frame'[c].temp = created + 1
      /\ \A f \in Files : f = created + 1 => Current(f)' = view[c]
  BY <1>1, CopyFacts
<1>4. Current(frame[c].temp)' = view[c]
  BY <1>3 DEF Current
<1> QED
  BY <1>2, <1>3, <1>4

\* Two connections are never both settled holders: both would hold the lock of
\* the file the path names.
LEMMA OneHolder ==
    ASSUME NEW single \in BOOLEAN, Safe(single),
           NEW c \in Conns, NEW d \in Conns, c # d,
           locked[c], Settled(c), locked[d], Settled(d)
    PROVE  FALSE
BY DEF Safe, SessionInv, Fresh, LockInv

\* Whoever does not move sees nothing of the step while it holds the lock.
LEMMA HolderStays ==
    ASSUME NEW single \in BOOLEAN, Safe(single),
           NEW c \in Conns, Moves(c), NEW d \in Conns, d # c,
           locked[d], Settled(d)
    PROVE  SameDisk
<1>1. CASE Publish(c)
  BY <1>1, PublishFacts, OneHolder
<1>2. CASE CopyItems(c)
  BY <1>2, CopyFacts, OneHolder
<1>3. CASE Rename(c)
  BY <1>3, RenameFacts, OneHolder
<1> QED
  BY <1>1, <1>2, <1>3, DiskMoves

LEMMA SessionStays ==
    ASSUME NEW single \in BOOLEAN, Safe(single),
           NEW d \in Conns, Unmoved(d), locked[d] /\ Settled(d) => SameDisk,
           \A e \in Conns : ino'[e] \in {ino[e], 1, path}
    PROVE  Guarded(d)' /\ Fresh(d)' /\ Copied(d)'
<1>0. Guarded(d) /\ Fresh(d) /\ Copied(d)
  BY DEF Safe, SessionInv
<1>1. Guarded(d)'
  BY <1>0 DEF Guarded, BodyUnlocked, Unmoved
<1>2. Fresh(d)'
  BY <1>0 DEF Fresh, Settled, Unmoved, SameDisk, Live, Current, Content
<1>3. Copied(d)'
  <2> SUFFICES ASSUME pc[d] = "rename"
               PROVE  /\ frame[d].temp \notin {1, path'}
                      /\ \A e \in Conns : ino'[e] # frame[d].temp
                      /\ Current(frame[d].temp)' = view[d]
    BY DEF Copied, Unmoved, Current, Content
  <2>1. locked[d] /\ Settled(d)
    BY <1>0 DEF Guarded, Settled
  <2>2. UNCHANGED <<path, created, root, trees>>
    BY <2>1 DEF SameDisk
  <2>3. Current(frame[d].temp)' = Current(frame[d].temp)
    BY <2>2 DEF Unmoved, Current, Content
  <2> QED
    BY <1>0, <2>2, <2>3 DEF Copied
<1> QED
  BY <1>1, <1>2, <1>3

LEMMA OneFileStep ==
    ASSUME Safe(TRUE), CommitsUnderLock, [Next]_vars
    PROVE  OneFile'
<1>0. /\ path = 1 /\ \A d \in Conns : ino[d] = 1 /\ ~BodyUnlocked(d)
      /\ TypeInv /\ ControlInv /\ \A d \in Conns : frame[d].name # "compact"
  BY DEF Safe, OneFile, Separate
<1>1. ASSUME NEW c \in Conns, Moves(c)
      PROVE  OneFile'
  <2>1. ~Rename(c) /\ ~RecheckReplaced(c) /\ ~Reopen(c)
    BY <1>0 DEF ControlInv, Flow, NameFits, InCompact, Rename, RecheckReplaced,
                Reopen, Replaced
  <2>2. path' = path
    BY <1>1, <2>1, LiveMoves
  <2>3. \A d \in Conns : ino'[d] \in {ino[d], 1, path}
    BY <1>0, <1>1, FileMoves
  <2>4. \A d \in Conns : d # c => ~BodyUnlocked(d)'
    BY <1>0, <1>1, OthersStay DEF Unmoved, BodyUnlocked
  <2>5. ~BodyUnlocked(c)'
    BY <1>0, <1>1, <2>1, GuardedMoves
  <2> QED
    BY <1>0, <2>2, <2>3, <2>4, <2>5 DEF OneFile
<1>2. ASSUME NEW p, Crash(p)
      PROVE  OneFile'
  <2>1. path' = path /\ \A d \in Conns : ino'[d] \in {ino[d], 1}
    BY <1>2 DEF Crash, disk
  <2>2. \A d \in Conns : ~BodyUnlocked(d)'
    BY <1>0, <1>2, CrashFacts DEF Unmoved, BodyUnlocked
  <2> QED
    BY <1>0, <2>1, <2>2 DEF OneFile
<1>3. CASE UNCHANGED vars
  BY <1>0, <1>3 DEF vars, disk, conn, ctrl, OneFile, BodyUnlocked
<1> QED
  BY <1>1, <1>2, <1>3 DEF Next, Done, Moves

LEMMA SessionStep ==
    ASSUME NEW single \in BOOLEAN, Safe(single), CommitsUnderLock, [Next]_vars
    PROVE  SessionInv'
<1> DEFINE Good(d) == Guarded(d)' /\ Fresh(d)' /\ Copied(d)'
<1>1. ASSUME NEW c \in Conns, Moves(c), NEW d \in Conns PROVE Good(d)
  <2>1. CASE d = c
    BY <1>1, <2>1, GuardedMoves, FreshMoves, CopiedMoves
  <2>2. CASE d # c
    BY <1>1, <2>2, OthersStay, HolderStays, FileMoves, SessionStays DEF Safe
  <2> QED
    BY <2>1, <2>2
<1>2. ASSUME NEW p, Crash(p), NEW d \in Conns PROVE Good(d)
  <2>1. SameDisk /\ \A e \in Conns : ino'[e] \in {ino[e], 1, path}
    BY <1>2, CrashFacts DEF Safe, Unmoved
  <2>2. CASE Unmoved(d)
    BY <2>1, <2>2, SessionStays
  <2>3. CASE pc'[d] = "closed" /\ ~locked'[d] /\ frame'[d] = NoFrame
    BY <2>3 DEF Guarded, BodyUnlocked, Fresh, Copied
  <2> QED
    BY <1>2, <2>2, <2>3, CrashFacts DEF Safe
<1>3. ASSUME UNCHANGED vars, NEW d \in Conns PROVE Good(d)
  BY <1>3, SessionStays DEF vars, disk, conn, ctrl, history, Unmoved, SameDisk
<1>4. \A d \in Conns : Good(d)
  BY <1>1, <1>2, <1>3 DEF Next, Done, Moves
<1> QED
  BY <1>4 DEF SessionInv

LEMMA SafeInit ==
    ASSUME NEW single \in BOOLEAN PROVE Init => Safe(single)
<1> SUFFICES ASSUME Init PROVE Safe(single)
  OBVIOUS
<1>1. OneFile
  BY DEF Init, OneFile, BodyUnlocked
<1>2. SessionInv
  BY DEF Init, SessionInv, Guarded, BodyUnlocked, Fresh, Copied
<1>3. Separate(single)
  BY DEF Init, Separate, NoFrame
<1> QED
  BY <1>1, <1>2, <1>3, TypeInit, LockInit, ControlInit DEF Safe

\* Clients that commit under the lock, and stay separate, remain safe.
LEMMA SafeStep ==
    ASSUME NEW single \in BOOLEAN, Safe(single), CommitsUnderLock, [Next]_vars,
           Separate(single)'
    PROVE  Safe(single)'
<1>1. TypeInv' /\ LockInv' /\ ControlInv'
  BY TypeInvStep, LockInvStep, ControlStep DEF Safe
<1>2. single => OneFile'
  BY OneFileStep DEF Safe
<1>3. SessionInv'
  BY SessionStep
<1> QED
  BY <1>1, <1>2, <1>3 DEF Safe

(***************************************************************************)
(* The refinement of AtomicStore.                                          *)
(***************************************************************************)

\* The store's operators are those of the connections.
LEMMA StoreSame ==
    /\ Store!EmptyMap = EmptyMap /\ Store!NoEffects = NoEffects /\ Store!Inc = Inc
    /\ \A v : Store!Put(v) = Put(v)
    /\ \A e, f : Store!Compose(e, f) = Compose(e, f)
    /\ \A es, m : Store!Apply(es, m) = Apply(es, m)
BY DEF Store!EmptyMap, EmptyMap, Store!Absent, Absent, Store!NoEffects, NoEffects,
       Store!Keep, Keep, Store!Inc, Inc, Store!Put, Put, Store!Compose, Compose,
       Store!Apply, Apply, Store!ApplyTo, ApplyTo

\* What a step does to the effects and the acknowledgements.
LEMMA EffectMoves ==
    ASSUME NEW c \in Conns, Moves(c)
    PROVE  \/ Publish(c) \/ Rename(c) \/ ChangesTree(c)
           \/ /\ acked' = acked
              /\ eff' = eff \/ Forget(c)
<1> USE DEF history, OpenAgain, Refresh, ItemsRefresh
<1>1. CASE Begin(c)
  BY <1>1 DEF Begin, StartRead, StartWrite, StartOptimistic, StartCommit,
              StartCompact, Connect
<1>2. CASE Close(c) \/ CompactFails(c)
  BY <1>2 DEF Close, CompactFails
<1>3. CASE Open(c)
  BY <1>3 DEF Open, ReopenNot, Reopen, EnsureSuperblock, SetTreeType, InitTree
<1>4. CASE Lock(c)
  BY <1>4 DEF Lock, PrepareLock, AcquireThread, AcquireFile, RecheckFresh,
              RecheckReplaced
<1>5. CASE Body(c)
  BY <1>5 DEF Body, ChangesTree, Read, Scan, DelMissing, UpdateRaises,
              Snapshot, SnapshotRoot, ValidateFails
<1>6. CASE Compact(c)
  BY <1>6 DEF Compact, CopyItems, Copy, Swap
<1> QED
  BY <1>1, <1>2, <1>3, <1>4, <1>5, <1>6 DEF Moves, Step

\* A change of a tree is a request a client of the store may make.
LEMMA WriteMoves ==
    ASSUME NEW single \in BOOLEAN, Safe(single), NEW c \in Conns, ChangesTree(c)
    PROVE  /\ \E k \in Keys, e \in Store!Requests :
                  eff' = [eff EXCEPT ![c][k] = Compose(eff[c][k], e)]
           /\ SameDisk
<1>0. TypeInv /\ Flow(c) /\ Snapped(c)
  BY DEF Safe, ControlInv
<1>1. /\ Put(frame[c].val) \in Store!Requests /\ Put(Absent) \in Store!Requests
      /\ Inc \in Store!Requests
  <2>1. frame[c].val \in 0..MaxVal /\ Absent \in 0..MaxVal
    BY <1>0, BoundsAssumption DEF TypeInv, TypeOK, Frame, Absent
  <2> QED
    BY <2>1, StoreSame DEF Store!Requests
<1>2. ASSUME NEW k \in Keys, NEW e \in Store!Requests, ApplyHere(c, k, e)
      PROVE  /\ \E l \in Keys, f \in Store!Requests :
                    eff' = [eff EXCEPT ![c][l] = Compose(eff[c][l], f)]
             /\ SameDisk
  <2>1. eff' = [eff EXCEPT ![c][k] = Compose(eff[c][k], e)] /\ SameDisk
    BY <1>2 DEF ApplyHere, disk, SameDisk
  <2> QED
    BY <2>1
<1>3. CASE Set(c)
  BY <1>0, <1>1, <1>2, <1>3 DEF Set, Flow, CallFits
<1>4. CASE Del(c)
  BY <1>0, <1>1, <1>2, <1>4 DEF Del, Flow, CallFits
<1>5. CASE Update(c)
  BY <1>0, <1>1, <1>2, <1>5 DEF Update, Flow, CallFits
<1>6. CASE ValidateOK(c)
  BY <1>0, <1>1, <1>2, <1>6, ValidateFacts DEF ValidateOK
<1> QED
  BY <1>3, <1>4, <1>5, <1>6 DEF ChangesTree

LEMMA StoreMoves ==
    ASSUME NEW single \in BOOLEAN, Safe(single), NEW c \in Conns, Moves(c)
    PROVE  [Store!Next]_(Store!vars)
<1>0. eff \in [Conns -> [Keys -> Effect]] /\ acked \in [Conns -> Nat]
  BY DEF Safe, TypeInv, TypeOK
<1>1. CASE Publish(c)
  <2>1. Live' = Apply(eff[c], Live)
    BY <1>1, PublishFacts
  <2>2. Store!Commit(c)
    BY <1>1, <2>1, StoreSame DEF Publish, Forget, Store!Commit
  <2> QED
    BY <2>2 DEF Store!Next
<1>2. CASE Rename(c)
  <2>1. Live' = Apply(eff[c], Live)
    BY <1>2, RenameFacts
  <2>2. Store!Commit(c)
    BY <1>2, <2>1, StoreSame DEF Rename, Forget, Store!Commit
  <2> QED
    BY <2>2 DEF Store!Next
<1>3. CASE ChangesTree(c)
  <2>1. Live' = Live /\ acked' = acked
    BY <1>3, WriteMoves DEF SameDisk, Live, Current, Content
  <2>2. Store!Write(c)
    BY <1>3, <2>1, WriteMoves, StoreSame DEF Store!Write
  <2> QED
    BY <2>2 DEF Store!Next
<1>4. CASE ~Publish(c) /\ ~Rename(c) /\ ~ChangesTree(c)
  <2>1. Live' = Live /\ acked' = acked /\ (eff' = eff \/ Forget(c))
    BY <1>4, EffectMoves, LiveMoves
  <2>2. CASE eff' = eff
    BY <2>1, <2>2 DEF Store!vars
  <2>3. CASE Forget(c)
    <3>1. Store!Discard({c})
      BY <1>0, <2>1, <2>3, StoreSame DEF Forget, Store!Discard
    <3> QED
      BY <3>1 DEF Store!Next
  <2> QED
    BY <2>1, <2>2, <2>3
<1> QED
  BY <1>1, <1>2, <1>3, <1>4

LEMMA StoreStep ==
    ASSUME NEW single \in BOOLEAN, Safe(single), [Next]_vars
    PROVE  [Store!Next]_(Store!vars)
<1>1. ASSUME NEW p, Crash(p) PROVE Store!Next
  <2> DEFINE dead == {c \in Conns : Proc[c] = p}
  <2>1. Live' = Live /\ acked' = acked
    BY <1>1 DEF Crash, disk, Live, Current, Content
  <2>2. eff' = [c \in Conns |-> IF c \in dead THEN NoEffects ELSE eff[c]]
    BY <1>1 DEF Crash
  <2>3. Store!Discard(dead)
    BY <2>1, <2>2, StoreSame DEF Store!Discard
  <2> QED
    BY <2>3 DEF Store!Next
<1>2. CASE UNCHANGED vars
  BY <1>2 DEF vars, disk, history, Live, Current, Content, Store!vars
<1> QED
  BY <1>1, <1>2, StoreMoves DEF Next, Done, Moves

LEMMA StoreInit == Init => Store!Init
BY FilesAssumption, StoreSame DEF Init, Files, Live, Current, Content, Store!Init

\* An acknowledged commit has applied its session to the latest contents.
LEMMA Acknowledged ==
    ASSUME NEW single \in BOOLEAN, Safe(single), [Next]_vars, NEW c \in Conns,
           acked'[c] > acked[c]
    PROVE  Live' = Apply(eff[c], Live)
<1>0. acked \in [Conns -> Nat]
  BY DEF Safe, TypeInv, TypeOK
<1>1. PICK d \in Conns : Moves(d)
  BY <1>0 DEF Next, Done, Moves, Crash, vars, history
<1>2. (Publish(d) \/ Rename(d)) /\ d = c
  <2>1. CASE ChangesTree(d)
    BY <1>0, <2>1, WriteMoves DEF SameDisk
  <2>2. CASE Publish(d) \/ Rename(d)
    BY <1>0, <2>2 DEF Publish, Rename
  <2> QED
    BY <1>0, <1>1, <2>1, <2>2, EffectMoves
<1> QED
  BY <1>2, PublishFacts, RenameFacts

\* Only its own commits are acknowledged to a connection.
LEMMA OthersAcked ==
    ASSUME NEW single \in BOOLEAN, Safe(single), NEW c \in Conns, Moves(c), NEW d \in Conns, d # c
    PROVE  acked'[d] = acked[d]
<1>0. acked \in [Conns -> Nat]
  BY DEF Safe, TypeInv, TypeOK
<1>1. CASE ChangesTree(c)
  BY <1>1, WriteMoves DEF SameDisk
<1>2. CASE Publish(c) \/ Rename(c)
  BY <1>0, <1>2 DEF Publish, Rename
<1> QED
  BY <1>1, <1>2, EffectMoves

\* A request is never without effect, so a write leaves something to commit.
LEMMA WriteKeeps ==
    ASSUME NEW single \in BOOLEAN, Safe(single), NEW c \in Conns, ChangesTree(c)
    PROVE  eff'[c] # NoEffects
<1>1. PICK k \in Keys, e \in Store!Requests :
          eff' = [eff EXCEPT ![c][k] = Compose(eff[c][k], e)]
  BY WriteMoves
<1>2. eff \in [Conns -> [Keys -> Effect]]
  BY DEF Safe, TypeInv, TypeOK
<1>3. e.set \/ (~e.set /\ e.n = 1)
  BY StoreSame DEF Store!Requests, Put, Inc
<1>4. Compose(eff[c][k], e) # Keep
  <2>1. eff[c][k].n \in Nat
    BY <1>2 DEF Effect
  <2>2. CASE e.set
    <3>1. Compose(eff[c][k], e) = e
      BY <2>2 DEF Compose
    <3> QED
      BY <2>2, <3>1 DEF Keep
  <2>3. CASE ~e.set /\ e.n = 1
    <3>1. Compose(eff[c][k], e).n = eff[c][k].n + 1
      BY <2>3 DEF Compose
    <3>2. Keep.n = 0
      BY DEF Keep
    <3> QED
      BY <2>1, <3>1, <3>2
  <2> QED
    BY <1>3, <2>2, <2>3
<1>5. eff'[c][k] = Compose(eff[c][k], e)
  BY <1>1, <1>2
<1> QED
  BY <1>4, <1>5 DEF NoEffects

\* A session that holds its lock forgets its writes only by these steps.
LEMMA Forgets ==
    ASSUME NEW single \in BOOLEAN, Safe(single), NEW c \in Conns, Moves(c), locked[c], Settled(c),
           eff[c] # NoEffects, eff'[c] = NoEffects
    PROVE  Publish(c) \/ Rename(c) \/ Close(c) \/ Snapshot(c)
<1> USE DEF history
<1>0. LockFits(c) /\ ~ChangesTree(c)
  BY WriteKeeps DEF Safe, ControlInv, Flow
<1>1. ~Begin(c)
  BY <1>0 DEF Begin, StartRead, StartWrite, StartOptimistic, StartCommit,
              StartCompact, Connect, Calling, LockFits
<1>2. ~CompactFails(c)
  BY DEF CompactFails
<1>3. ~Open(c)
  BY <1>0, NotReplaced DEF Open, ReopenNot, Reopen, EnsureSuperblock, SetTreeType,
                           InitTree, LockFits
<1>4. ~Lock(c)
  BY DEF Lock, PrepareLock, AcquireThread, AcquireFile, RecheckFresh,
         RecheckReplaced, Settled
<1>5. CASE Body(c)
  BY <1>0, <1>5 DEF Body, ChangesTree, Read, Scan, ItemsRefresh, DelMissing,
                    UpdateRaises, ValidateFails
<1>6. CASE Compact(c)
  BY <1>6 DEF Compact, CopyItems, Copy, ItemsRefresh, Swap, Settled
<1> QED
  BY <1>1, <1>2, <1>3, <1>4, <1>5, <1>6 DEF Moves, Step

=============================================================================
