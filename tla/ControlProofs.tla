---------------------------- MODULE ControlProofs ----------------------------
(***************************************************************************)
(* Proofs about the control of the calls of module DBDB: which step of a   *)
(* call holds the lock, what the call remembers meanwhile, and that an     *)
(* optimistic update publishes only what it has validated.  The clients    *)
(* follow no discipline here.                                              *)
(***************************************************************************)
EXTENDS DBDBProofs

\* A step of one connection; a crash is a step of several.
Moves(c) == Begin(c) \/ Close(c) \/ Step(c) \/ CompactFails(c)

\* d takes no part in the step.
Unmoved(d) ==
    /\ pc'[d] = pc[d] /\ cont'[d] = cont[d] /\ frame'[d] = frame[d]
    /\ locked'[d] = locked[d] /\ ino'[d] = ino[d] /\ view'[d] = view[d]
    /\ addr'[d] = addr[d] /\ eff'[d] = eff[d]

LEMMA OthersStay ==
    ASSUME TypeInv, NEW c \in Conns, Moves(c), NEW d \in Conns, d # c
    PROVE  Unmoved(d)
<1> USE DEF disk, conn, history, ThenGo, Goto, Leave, Return, TakeLock, Unlock,
            Forget, Refresh, OpenAgain, Unmoved
<1>0. /\ pc \in [Conns -> Labels] /\ cont \in [Conns -> Targets]
      /\ frame \in [Conns -> Frame] /\ ino \in [Conns -> Files]
      /\ locked \in [Conns -> BOOLEAN] /\ view \in [Conns -> Maps]
      /\ addr \in [Conns -> Nat \cup {Unstored}]
      /\ eff \in [Conns -> [Keys -> Effect]]
  BY DEF TypeInv, TypeOK
<1>1. CASE StartRead(c)
  BY <1>0, <1>1 DEF StartRead, Calling
<1>2. CASE StartWrite(c)
  BY <1>0, <1>2 DEF StartWrite, Calling
<1>3. CASE StartOptimistic(c)
  BY <1>0, <1>3 DEF StartOptimistic, Calling
<1>4. CASE StartCommit(c)
  BY <1>0, <1>4 DEF StartCommit, Calling
<1>5. CASE StartCompact(c)
  BY <1>0, <1>5 DEF StartCompact, Calling
<1>6. CASE Connect(c)
  BY <1>0, <1>6 DEF Connect, Calling
<1>7. CASE Close(c)
  BY <1>0, <1>7 DEF Close
<1>8. CASE ReopenNot(c)
  BY <1>0, <1>8 DEF ReopenNot
<1>9. CASE Reopen(c)
  BY <1>0, <1>9 DEF Reopen
<1>10. CASE EnsureSuperblock(c)
  BY <1>0, <1>10 DEF EnsureSuperblock
<1>11. CASE SetTreeType(c)
  BY <1>0, <1>11 DEF SetTreeType
<1>12. CASE InitTree(c)
  BY <1>0, <1>12 DEF InitTree
<1>13. CASE PrepareLock(c)
  BY <1>0, <1>13 DEF PrepareLock
<1>14. CASE AcquireThread(c)
  BY <1>0, <1>14 DEF AcquireThread
<1>15. CASE AcquireFile(c)
  BY <1>0, <1>15 DEF AcquireFile
<1>16. CASE RecheckFresh(c)
  BY <1>0, <1>16 DEF RecheckFresh
<1>17. CASE RecheckReplaced(c)
  BY <1>0, <1>17 DEF RecheckReplaced
<1>18. CASE Read(c)
  BY <1>0, <1>18 DEF Read
<1>19. CASE Scan(c)
  BY <1>0, <1>19 DEF Scan, ItemsRefresh
<1>20. CASE Set(c)
  BY <1>0, <1>20 DEF Set, ApplyHere
<1>21. CASE Del(c)
  BY <1>0, <1>21 DEF Del, ApplyHere
<1>22. CASE DelMissing(c)
  BY <1>0, <1>22 DEF DelMissing
<1>23. CASE Update(c)
  BY <1>0, <1>23 DEF Update, ApplyHere
<1>24. CASE UpdateRaises(c)
  BY <1>0, <1>24 DEF UpdateRaises
<1>25. CASE Publish(c)
  BY <1>0, <1>25 DEF Publish
<1>26. CASE Snapshot(c)
  BY <1>0, <1>26 DEF Snapshot, SnapshotRoot
<1>27. CASE ValidateOK(c)
  BY <1>0, <1>27 DEF ValidateOK, ApplyHere
<1>28. CASE ValidateFails(c)
  BY <1>0, <1>28 DEF ValidateFails
<1>29. CASE CopyItems(c)
  BY <1>0, <1>29 DEF CopyItems, Copy, ItemsRefresh
<1>30. CASE Rename(c)
  BY <1>0, <1>30 DEF Rename
<1>31. CASE Swap(c)
  BY <1>0, <1>31 DEF Swap
<1>32. CASE CompactFails(c)
  BY <1>0, <1>32 DEF CompactFails
<1> QED
  BY <1>1, <1>2, <1>3, <1>4, <1>5, <1>6, <1>7, <1>8, <1>9, <1>10, <1>11, <1>12, <1>13, <1>14, <1>15, <1>16, <1>17, <1>18, <1>19, <1>20, <1>21, <1>22, <1>23, <1>24, <1>25, <1>26, <1>27, <1>28, <1>29, <1>30, <1>31, <1>32
     DEF Moves, Begin, Step, Open, Lock, Body, Compact

-----------------------------------------------------------------------------
(* What one step does to the connection that takes it. *)

LEMMA ThenGoHere ==
    ASSUME TypeInv, NEW c \in Conns, NEW l, NEW n, ThenGo(c, l, n)
    PROVE  pc'[c] = l /\ cont'[c] = n
BY DEF ThenGo, TypeInv, TypeOK

LEMMA GotoHere ==
    ASSUME TypeInv, NEW c \in Conns, NEW l, Goto(c, l)
    PROVE  pc'[c] = l /\ cont'[c] = cont[c]
BY ThenGoHere DEF Goto

LEMMA TakeLockHere ==
    ASSUME TypeInv, NEW c \in Conns, NEW n, TakeLock(c, n)
    PROVE  cont'[c] = n /\ pc'[c] = IF locked[c] THEN n ELSE "lock"
BY DEF TakeLock, TypeInv, TypeOK

LEMMA LeaveHere ==
    ASSUME TypeInv, NEW c \in Conns, NEW l, Leave(c, l)
    PROVE  /\ pc'[c] = l /\ cont'[c] = "idle"
           /\ frame'[c] = NoFrame /\ frame'[c].name = "close"
BY ThenGoHere DEF Leave, NoFrame, TypeInv, TypeOK

LEMMA ReturnHere ==
    ASSUME TypeInv, NEW c \in Conns, Return(c)
    PROVE  pc'[c] = "idle" /\ cont'[c] = "idle" /\ frame'[c].name = "close"
BY LeaveHere DEF Return

LEMMA CallingHere ==
    ASSUME TypeInv, NEW c \in Conns, NEW name, NEW k, NEW v, Calling(c, name, k, v)
    PROVE  /\ frame'[c].name = name /\ frame'[c].key = k /\ name \in Calls[c]
           /\ frame'[c].temp = 1
           /\ pc[c] = IF name = "connect" THEN "closed" ELSE "idle"
<1> DEFINE g == [NoFrame EXCEPT !.name = name, !.key = k, !.val = v]
<1>1. g.name = name /\ g.key = k /\ g.temp = 1
  BY DEF NoFrame
<1>2. frame' = [frame EXCEPT ![c] = g]
  BY DEF Calling
<1> HIDE DEF g
<1>3. frame'[c] = g
  BY <1>2 DEF TypeInv, TypeOK
<1> QED
  BY <1>1, <1>3 DEF Calling

LEMMA RefreshHere ==
    ASSUME TypeInv, NEW c \in Conns, Refresh(c)
    PROVE  /\ view'[c] = Current(ino[c]) /\ addr'[c] = root[ino[c]]
           /\ eff'[c] = NoEffects
BY DEF Refresh, Forget, TypeInv, TypeOK

LEMMA OpenHere ==
    ASSUME TypeInv, NEW c \in Conns, OpenAgain(c)
    PROVE  ino'[c] = path /\ ~locked'[c] /\ eff'[c] = NoEffects
BY DEF OpenAgain, Unlock, Forget, TypeInv, TypeOK

\* A field of the frame changes, the others stay.
LEMMA FrameFields ==
    ASSUME NEW f \in Frame, NEW x
    PROVE  /\ [f EXCEPT !.snap = x].name = f.name /\ [f EXCEPT !.snap = x].key = f.key
           /\ [f EXCEPT !.snap = x].snap = x
           /\ [f EXCEPT !.tries = x].name = f.name /\ [f EXCEPT !.tries = x].key = f.key
           /\ [f EXCEPT !.temp = x].name = f.name /\ [f EXCEPT !.temp = x].key = f.key
           /\ [f EXCEPT !.temp = x].temp = x
BY DEF Frame

LEMMA ApplyHereHere ==
    ASSUME TypeInv, NEW c \in Conns, NEW k, NEW e, ApplyHere(c, k, e)
    PROVE  /\ view'[c] = [view[c] EXCEPT ![k] = ApplyTo(e, view[c][k])]
           /\ eff'[c] = [eff[c] EXCEPT ![k] = Compose(eff[c][k], e)]
           /\ locked'[c] = locked[c] /\ ino'[c] = ino[c]
BY DEF ApplyHere, TypeInv, TypeOK

LEMMA FrameHere ==
    ASSUME TypeInv, NEW c \in Conns, NEW x
    PROVE  /\ frame' = [frame EXCEPT ![c].snap = x] =>
                  /\ frame'[c].name = frame[c].name /\ frame'[c].key = frame[c].key
                  /\ frame'[c].snap = x
           /\ frame' = [frame EXCEPT ![c].tries = x] =>
                  /\ frame'[c].name = frame[c].name /\ frame'[c].key = frame[c].key
           /\ frame' = [frame EXCEPT ![c].temp = x] =>
                  /\ frame'[c].name = frame[c].name /\ frame'[c].key = frame[c].key
                  /\ frame'[c].temp = x
<1> DEFINE s == [frame[c] EXCEPT !.snap = x]
           t == [frame[c] EXCEPT !.tries = x]
           u == [frame[c] EXCEPT !.temp = x]
<1>1. frame \in [Conns -> Frame] /\ frame[c] \in Frame
  BY DEF TypeInv, TypeOK
<1>2. /\ s.name = frame[c].name /\ s.key = frame[c].key /\ s.snap = x
      /\ t.name = frame[c].name /\ t.key = frame[c].key
      /\ u.name = frame[c].name /\ u.key = frame[c].key /\ u.temp = x
  BY <1>1, FrameFields
<1>3. /\ frame' = [frame EXCEPT ![c].snap = x] => frame'[c] = s
      /\ frame' = [frame EXCEPT ![c].tries = x] => frame'[c] = t
      /\ frame' = [frame EXCEPT ![c].temp = x] => frame'[c] = u
  BY <1>1
<1> HIDE DEF s, t, u
<1> QED
  BY <1>2, <1>3

-----------------------------------------------------------------------------
(* The control of a call.  Flow is an invariant of it, whatever the        *)
(* clients do.                                                             *)

\* An optimistic update between its snapshot and its validation, and one that
\* is about to take its snapshot.
AwaitsValidation(c) ==
    pc[c] = "validate" \/ (pc[c] \in {"lock", "flock"} /\ cont[c] = "validate")

AwaitsSnapshot(c) ==
    pc[c] = "snap" \/ (pc[c] \in {"reopen", "super", "init"} /\ cont[c] = "snap")

InCompact(c) ==
    \/ pc[c] \in {"items", "copy", "rename", "swap"}
    \/ pc[c] \in {"lock", "flock"} /\ cont[c] = "items"
    \/ pc[c] \in {"super", "init"} /\ cont[c] = "copy"

\* The call that runs is one the connection makes, with its argument.
CallFits(c) ==
    /\ frame[c].name \in Calls[c] \cup {"close"}
    /\ frame[c].name \in {"set", "del", "update", "updateRaise", "optimistic"}
          => frame[c].key \in Keys

\* The steps that hold the write lock, and those that do not.
LockFits(c) ==
    /\ pc[c] \in {"publish", "recheck", "validate"} => locked[c]
    /\ pc[c] \in {"closed", "lock", "flock", "super", "settype", "init"} => ~locked[c]
    /\ pc[c] = "closed" => eff[c] = NoEffects

\* Where a reopen, an opening or a lock leads.
ContFits(c) ==
    /\ pc[c] \in {"lock", "flock"} =>
          cont[c] \in {"recheck", "validate", "publish", "items"}
    /\ pc[c] \in {"super", "init"} =>
          cont[c] \in {"idle", "read", "scan", "prelock", "snap", "body", "copy"}
             \cup IF pc[c] = "super" THEN {"settype"} ELSE {}
    /\ pc[c] = "settype" => cont[c] = "idle"
    /\ pc[c] = "reopen" => cont[c] \in {"read", "scan", "prelock", "snap"}

\* The call a step belongs to.
NameFits(c) ==
    /\ InCompact(c) => frame[c].name = "compact"
    /\ AwaitsSnapshot(c) \/ AwaitsValidation(c) => frame[c].name = "optimistic"
    /\ pc[c] \in {"lock", "flock"} /\ cont[c] = "publish" =>
          frame[c].name \in {"commit", "update"}
    /\ pc[c] = "publish" => frame[c].name \in {"commit", "update", "optimistic"}

Flow(c) == CallFits(c) /\ LockFits(c) /\ ContFits(c) /\ NameFits(c)

\* Until it is validated, the tree of an optimistic update is the tree of the
\* root it remembers.
Snapped(c) ==
    AwaitsValidation(c) => addr[c] = frame[c].snap /\ eff[c] = NoEffects

LEMMA FlowStays ==
    ASSUME NEW d, Unmoved(d), Flow(d), Snapped(d)
    PROVE  Flow(d)' /\ Snapped(d)'
BY DEF Unmoved, Flow, CallFits, LockFits, ContFits, NameFits, Snapped, InCompact,
       AwaitsSnapshot, AwaitsValidation

\* The call that moves; the only way to publish an optimistic update is to
\* validate it.
LEMMA FlowMoves ==
    ASSUME TypeInv, NEW c \in Conns, Moves(c), Flow(c), Snapped(c)
    PROVE  /\ Flow(c)' /\ Snapped(c)'
           /\ pc'[c] = "publish" /\ frame'[c].name = "optimistic" => ValidateOK(c)
<1> USE DEF Flow, CallFits, LockFits, ContFits, NameFits, Snapped, InCompact,
            AwaitsSnapshot, AwaitsValidation, Targets
<1>0. /\ pc \in [Conns -> Labels] /\ cont \in [Conns -> Targets]
      /\ frame \in [Conns -> Frame] /\ locked \in [Conns -> BOOLEAN]
      /\ addr \in [Conns -> Nat \cup {Unstored}]
      /\ eff \in [Conns -> [Keys -> Effect]]
  BY DEF TypeInv, TypeOK
<1>1. CASE StartRead(c)
  BY <1>0, <1>1, CallingHere, ThenGoHere, GotoHere DEF StartRead, conn, history
<1>2. CASE StartWrite(c)
  BY <1>0, <1>2, CallingHere, ThenGoHere DEF StartWrite, conn, history
<1>3. CASE StartOptimistic(c)
  BY <1>0, <1>3, CallingHere, ThenGoHere DEF StartOptimistic, conn, history
<1>4. CASE StartCommit(c)
  BY <1>0, <1>4, CallingHere, TakeLockHere DEF StartCommit, conn, history
<1>5. CASE StartCompact(c)
  BY <1>0, <1>5, CallingHere, TakeLockHere DEF StartCompact, conn, history
<1>6. CASE Connect(c)
  BY <1>0, <1>6, CallingHere, ThenGoHere, OpenHere DEF Connect
<1>7. CASE Close(c)
  BY <1>0, <1>7, LeaveHere DEF Close, Unlock, Forget
<1>8. CASE ReopenNot(c)
  BY <1>0, <1>8, GotoHere DEF ReopenNot, conn, history
<1>9. CASE Reopen(c)
  BY <1>0, <1>9, ThenGoHere, OpenHere DEF Reopen
<1>10. CASE EnsureSuperblock(c)
  BY <1>0, <1>10, ThenGoHere, GotoHere DEF EnsureSuperblock, conn, history
<1>11. CASE SetTreeType(c)
  BY <1>0, <1>11, GotoHere DEF SetTreeType, conn, history
<1>12. CASE InitTree(c)
  BY <1>0, <1>12, ReturnHere, GotoHere, RefreshHere DEF InitTree
<1>13. CASE PrepareLock(c)
  BY <1>0, <1>13, GotoHere, ThenGoHere DEF PrepareLock, conn, history
<1>14. CASE AcquireThread(c)
  BY <1>0, <1>14, GotoHere DEF AcquireThread, conn, history
<1>15. CASE AcquireFile(c)
  BY <1>0, <1>15, GotoHere DEF AcquireFile, history
<1>16. CASE RecheckFresh(c)
  BY <1>0, <1>16, GotoHere, RefreshHere DEF RecheckFresh
<1>17. CASE RecheckReplaced(c)
  BY <1>0, <1>17, ThenGoHere, OpenHere DEF RecheckReplaced
<1>18. CASE Read(c)
  BY <1>0, <1>18, ReturnHere DEF Read, conn, history
<1>19. CASE Scan(c)
  BY <1>0, <1>19, ReturnHere DEF Scan
<1>20. CASE Set(c)
  BY <1>0, <1>20, ReturnHere, ApplyHereHere DEF Set
<1>21. CASE Del(c)
  BY <1>0, <1>21, ReturnHere, ApplyHereHere DEF Del
<1>22. CASE DelMissing(c)
  BY <1>0, <1>22, ReturnHere DEF DelMissing, conn, history
<1>23. CASE Update(c)
  <2>1. ApplyHere(c, frame[c].key, Inc) /\ TakeLock(c, "publish") /\ frame' = frame
    BY <1>23 DEF Update
  <2>2. locked'[c] = locked[c] /\ cont'[c] = "publish"
        /\ pc'[c] = IF locked[c] THEN "publish" ELSE "lock"
    BY <2>1, TakeLockHere, ApplyHereHere
  <2> QED
    BY <1>0, <1>23, <2>1, <2>2 DEF Update
<1>24. CASE UpdateRaises(c)
  BY <1>0, <1>24, ReturnHere DEF UpdateRaises, Unlock
<1>25. CASE Publish(c)
  BY <1>0, <1>25, ReturnHere DEF Publish, Unlock, Forget
<1>26. CASE Snapshot(c)
  BY <1>0, <1>26, FrameHere, TakeLockHere, RefreshHere DEF Snapshot, SnapshotRoot
<1>27. CASE ValidateOK(c)
  <2>1. ApplyHere(c, frame[c].key, Inc) /\ Goto(c, "publish") /\ frame' = frame
    BY <1>27 DEF ValidateOK
  <2>2. locked'[c] = locked[c] /\ pc'[c] = "publish"
    BY <2>1, GotoHere, ApplyHereHere
  <2> QED
    BY <1>0, <1>27, <2>1, <2>2 DEF ValidateOK
<1>28. CASE ValidateFails(c)
  <2>1. /\ pc[c] = "validate" /\ ~locked'[c] /\ eff' = eff
    BY <1>0, <1>28 DEF ValidateFails, Unlock, history
  <2>2. CASE frame[c].tries = 1
    BY <1>0, <1>28, <2>1, <2>2, ReturnHere DEF ValidateFails
  <2>3. CASE frame[c].tries # 1
    <3>1. /\ ThenGo(c, "reopen", "snap")
          /\ frame' = [frame EXCEPT ![c].tries = frame[c].tries - 1]
      BY <1>28, <2>3 DEF ValidateFails
    <3>2. /\ pc'[c] = "reopen" /\ cont'[c] = "snap"
          /\ frame'[c].name = frame[c].name /\ frame'[c].key = frame[c].key
      BY <3>1, ThenGoHere, FrameHere
    <3> QED
      BY <1>0, <2>1, <3>2
  <2> QED
    BY <2>2, <2>3
<1>29. CASE CopyItems(c)
  BY <1>0, <1>29, FrameHere, GotoHere DEF CopyItems, Copy
<1>30. CASE Rename(c)
  BY <1>0, <1>30, GotoHere DEF Rename, Forget
<1>31. CASE Swap(c)
  BY <1>0, <1>31, ThenGoHere, OpenHere DEF Swap
<1>32. CASE CompactFails(c)
  BY <1>0, <1>32, ReturnHere DEF CompactFails, Unlock
<1> QED
  BY <1>1, <1>2, <1>3, <1>4, <1>5, <1>6, <1>7, <1>8, <1>9, <1>10, <1>11, <1>12, <1>13, <1>14, <1>15, <1>16, <1>17, <1>18, <1>19, <1>20, <1>21, <1>22, <1>23, <1>24, <1>25, <1>26, <1>27, <1>28, <1>29, <1>30, <1>31, <1>32
     DEF Moves, Begin, Step, Open, Lock, Body, Compact

-----------------------------------------------------------------------------
(* The file under a lock holder.                                           *)

\* Only three steps write to the disk.
LEMMA DiskMoves ==
    ASSUME NEW c \in Conns, Moves(c)
    PROVE  Publish(c) \/ CopyItems(c) \/ Rename(c) \/ SameDisk
<1> USE DEF disk, history, SameDisk
<1>1. CASE Begin(c)
  BY <1>1 DEF Begin, StartRead, StartWrite, StartOptimistic, StartCommit,
              StartCompact, Connect
<1>2. CASE Close(c) \/ CompactFails(c)
  BY <1>2 DEF Close, CompactFails
<1>3. CASE Open(c)
  BY <1>3 DEF Open, ReopenNot, Reopen, EnsureSuperblock, SetTreeType, InitTree
<1>4. CASE Lock(c)
  BY <1>4 DEF Lock, PrepareLock, AcquireThread, AcquireFile, RecheckFresh,
              RecheckReplaced
<1>5. CASE Body(c)
  BY <1>5 DEF Body, Read, Scan, Set, Del, DelMissing, Update, UpdateRaises,
              Snapshot, SnapshotRoot, ValidateOK, ValidateFails, ApplyHere
<1>6. CASE Compact(c)
  BY <1>6 DEF Compact, Swap
<1> QED
  BY <1>1, <1>2, <1>3, <1>4, <1>5, <1>6 DEF Moves, Step

\* Nobody else changes the file a connection holds the lock of.
LEMMA HolderFileKept ==
    ASSUME TypeInv, LockInv, NEW c \in Conns, Moves(c), Flow(c),
           NEW d \in Conns, d # c, locked[d]
    PROVE  root'[ino[d]] = root[ino[d]] /\ trees'[ino[d]] = trees[ino[d]]
<1>0. /\ ino[d] \in Files /\ ino[c] \in Files /\ ino[d] # created + 1
      /\ root \in [Files -> Nat] /\ trees \in [Files -> Seq(Maps)]
  BY DEF TypeInv, TypeOK, FilesCreated, Files
<1>1. CASE Publish(c)
  <2>1. locked[c]
    BY <1>1 DEF Flow, LockFits, Publish
  <2>2. ino[c] # ino[d]
    BY <2>1 DEF LockInv
  <2> QED
    BY <1>0, <1>1, <2>2 DEF Publish
<1>2. CASE CopyItems(c)
  BY <1>0, <1>2 DEF CopyItems, Copy
<1>3. CASE Rename(c) \/ SameDisk
  BY <1>3 DEF Rename, SameDisk
<1> QED
  BY <1>1, <1>2, <1>3, DiskMoves

-----------------------------------------------------------------------------
(* Maps and effects. *)

LEMMA ApplyNone == ASSUME NEW m \in Maps PROVE Apply(NoEffects, m) = m
BY DEF Apply, ApplyTo, NoEffects, Keep, Maps

\* One more effect on one key, after those of the session.
LEMMA ApplyMore ==
    ASSUME NEW m \in Maps, NEW es \in [Keys -> Effect], NEW k \in Keys, NEW e \in Effect
    PROVE  Apply([es EXCEPT ![k] = Compose(es[k], e)], m)
             = [Apply(es, m) EXCEPT ![k] = ApplyTo(e, Apply(es, m)[k])]
<1> DEFINE fs == [es EXCEPT ![k] = Compose(es[k], e)]
           l == Apply(fs, m)
           r == [Apply(es, m) EXCEPT ![k] = ApplyTo(e, Apply(es, m)[k])]
<1>1. ApplyTo(Compose(es[k], e), m[k]) = ApplyTo(e, ApplyTo(es[k], m[k]))
  <2>1. es[k] \in Effect /\ m[k] \in Nat
    BY DEF Maps
  <2> QED
    BY <2>1 DEF ApplyTo, Compose, Effect
<1>2. ASSUME NEW x \in Keys PROVE l[x] = r[x]
  <2>1. CASE x = k
    BY <1>1, <2>1 DEF Apply
  <2>2. CASE x # k
    BY <2>2 DEF Apply
  <2> QED
    BY <2>1, <2>2
<1>3. l = [x \in Keys |-> l[x]] /\ r = [x \in Keys |-> r[x]]
  BY DEF Apply
<1> QED
  BY <1>2, <1>3

\* A write keeps the tree of a session equal to its effects on some contents.
LEMMA WriteFollows ==
    ASSUME TypeInv, NEW c \in Conns, NEW m \in Maps, NEW k \in Keys, NEW e \in Effect,
           view[c] = Apply(eff[c], m), ApplyHere(c, k, e)
    PROVE  view'[c] = Apply(eff'[c], m)
<1>1. eff[c] \in [Keys -> Effect]
  BY DEF TypeInv, TypeOK
<1>2. view'[c] = [view[c] EXCEPT ![k] = ApplyTo(e, view[c][k])]
  BY ApplyHereHere
<1>3. eff'[c] = [eff[c] EXCEPT ![k] = Compose(eff[c][k], e)]
  BY DEF ApplyHere, TypeInv, TypeOK
<1>4. [view[c] EXCEPT ![k] = ApplyTo(e, view[c][k])]
        = Apply([eff[c] EXCEPT ![k] = Compose(eff[c][k], e)], m)
  BY <1>1, ApplyMore
<1> QED
  BY <1>2, <1>3, <1>4, Zenon

-----------------------------------------------------------------------------
(* Optimistic updates. *)

Validated(c) ==
    pc[c] = "publish" /\ frame[c].name = "optimistic" =>
        /\ root[ino[c]] = frame[c].snap
        /\ view[c] = Apply(eff[c], Current(ino[c]))

ControlInv == \A c \in Conns : Flow(c) /\ Snapped(c) /\ Validated(c)

LEMMA ValidatedStays ==
    ASSUME TypeInv, LockInv, NEW c \in Conns, Moves(c), Flow(c),
           NEW d \in Conns, d # c, Flow(d), Validated(d), Unmoved(d)
    PROVE  Validated(d)'
<1> SUFFICES ASSUME pc[d] = "publish", frame[d].name = "optimistic"
             PROVE  /\ root'[ino[d]] = frame[d].snap
                    /\ view[d] = Apply(eff[d], Current(ino[d])')
  BY DEF Validated, Unmoved, Current, Content
<1>1. locked[d]
  BY DEF Flow, LockFits
<1>2. root'[ino[d]] = root[ino[d]] /\ trees'[ino[d]] = trees[ino[d]]
  BY <1>1, HolderFileKept
<1> QED
  BY <1>2 DEF Validated, Unmoved, Current, Content

\* What is validated is the tree of the current root.
LEMMA ValidateFacts ==
    ASSUME TypeInv, NEW c \in Conns, ValidateOK(c), Flow(c), Snapped(c)
    PROVE  /\ root[ino[c]] = frame[c].snap /\ eff[c] = NoEffects
           /\ view[c] = Current(ino[c]) /\ Current(ino[c]) \in Maps
           /\ frame[c].name = "optimistic" /\ frame[c].key \in Keys
<1>1. pc[c] = "validate" /\ root[ino[c]] = frame[c].snap
  BY DEF ValidateOK, RootUnchanged
<1>2. /\ addr[c] = frame[c].snap /\ eff[c] = NoEffects
      /\ frame[c].name = "optimistic" /\ frame[c].key \in Keys
  BY <1>1 DEF Snapped, AwaitsValidation, Flow, CallFits, NameFits
<1>3. addr[c] # Unstored
  <2>1. frame[c] \in Frame
    BY DEF TypeInv, TypeOK
  <2> QED
    BY <1>2, <2>1, UnstoredAssumption DEF Frame
<1>4. view[c] = Current(ino[c]) /\ Current(ino[c]) \in Maps
  BY <1>1, <1>2, <1>3 DEF TypeInv, TypeOK, SnapshotIntact, Intact, Current
<1> QED
  BY <1>1, <1>2, <1>4

LEMMA ValidatedMoves ==
    ASSUME TypeInv, NEW c \in Conns, Moves(c), Flow(c), Snapped(c)
    PROVE  Validated(c)'
<1> SUFFICES ASSUME pc'[c] = "publish", frame'[c].name = "optimistic"
             PROVE  /\ root'[ino'[c]] = frame'[c].snap
                    /\ view'[c] = Apply(eff'[c], Current(ino[c])')
  BY DEF Validated
<1>1. ValidateOK(c)
  BY FlowMoves
<1>2. frame' = frame /\ ApplyHere(c, frame[c].key, Inc)
  BY <1>1 DEF ValidateOK
<1>3. /\ root' = root /\ trees' = trees /\ ino' = ino
  BY <1>2, ApplyHereType, EffectTypes
<1>4. /\ root[ino[c]] = frame[c].snap /\ frame[c].key \in Keys
      /\ view[c] = Apply(eff[c], Current(ino[c])) /\ Current(ino[c]) \in Maps
  BY <1>1, ValidateFacts, ApplyNone
<1>5. view'[c] = Apply(eff'[c], Current(ino[c]))
  BY <1>2, <1>4, EffectTypes, WriteFollows
<1>6. Current(ino[c])' = Current(ino[c])
  BY <1>3 DEF Current, Content
<1> QED
  BY <1>2, <1>3, <1>4, <1>5, <1>6

LEMMA CrashFacts ==
    ASSUME TypeInv, NEW p, Crash(p), NEW d \in Conns
    PROVE  /\ SameDisk
           /\ \/ Proc[d] # p /\ Unmoved(d)
              \/ /\ Proc[d] = p /\ pc'[d] = "closed" /\ ~locked'[d]
                 /\ frame'[d] = NoFrame /\ ino'[d] = 1 /\ eff'[d] = NoEffects
<1>1. locked \in [Conns -> BOOLEAN]
  BY DEF TypeInv, TypeOK
<1> QED
  BY <1>1 DEF Crash, SameDisk, disk, Unmoved

LEMMA ControlStep ==
    ASSUME TypeInv, LockInv, ControlInv, [Next]_vars
    PROVE  ControlInv'
<1>1. ASSUME NEW c \in Conns, Moves(c), NEW d \in Conns
      PROVE  Flow(d)' /\ Snapped(d)' /\ Validated(d)'
  <2>1. CASE d = c
    BY <1>1, <2>1, FlowMoves, ValidatedMoves DEF ControlInv
  <2>2. CASE d # c
    <3>1. Unmoved(d)
      BY <1>1, <2>2, OthersStay
    <3> QED
      BY <1>1, <2>2, <3>1, FlowStays, ValidatedStays DEF ControlInv
  <2> QED
    BY <2>1, <2>2
<1>2. ASSUME NEW p, Crash(p), NEW d \in Conns
      PROVE  Flow(d)' /\ Snapped(d)' /\ Validated(d)'
  <2>0. SameDisk
    BY <1>2, CrashFacts
  <2>1. CASE Unmoved(d)
    BY <2>0, <2>1, FlowStays
       DEF ControlInv, Validated, Unmoved, SameDisk, Current, Content
  <2>2. CASE pc'[d] = "closed" /\ ~locked'[d] /\ frame'[d] = NoFrame /\ eff'[d] = NoEffects
    BY <2>2 DEF NoFrame, Flow, CallFits, LockFits, ContFits, NameFits, Snapped,
                Validated, InCompact, AwaitsSnapshot, AwaitsValidation
  <2> QED
    BY <1>2, <2>1, <2>2, CrashFacts
<1>3. CASE UNCHANGED vars
  <2> SUFFICES ASSUME NEW d \in Conns
               PROVE  Flow(d)' /\ Snapped(d)' /\ Validated(d)'
    BY DEF ControlInv
  <2>1. Unmoved(d)
    BY <1>3 DEF vars, conn, ctrl, history, Unmoved
  <2> QED
    BY <1>3, <2>1, FlowStays
       DEF ControlInv, Validated, Unmoved, Current, Content, vars, disk
<1>4. ASSUME NEW c \in Conns, Moves(c) PROVE ControlInv'
  BY <1>1, <1>4 DEF ControlInv
<1>5. ASSUME NEW p, Crash(p) PROVE ControlInv'
  BY <1>2, <1>5 DEF ControlInv
<1> QED
  BY <1>3, <1>4, <1>5 DEF Next, Done, Moves

LEMMA ControlInit == Init => ControlInv
BY DEF Init, ControlInv, NoFrame, Flow, CallFits, LockFits, ContFits, NameFits,
       Snapped, Validated, InCompact, AwaitsSnapshot, AwaitsValidation

LEMMA LockInit == Init => LockInv
BY DEF Init, LockInv, HoldsThread

LEMMA LockInvStep == TypeInv /\ LockInv /\ [Next]_vars => LockInv'
<1>1. ASSUME LockInv, UNCHANGED vars PROVE LockInv'
  BY <1>1 DEF vars, conn, ctrl, LockInv, HoldsThread
<1> QED
  BY <1>1, LockStep

\* Optimistic concurrency control is sound: whatever the other connections do,
\* compactions, crashes and undisciplined commits included, an optimistic
\* update that publishes does so under the lock, from the root it computed its
\* result from.
THEOREM OptimisticsValid == Spec => []OptimisticValidated
<1>1. ControlInv => OptimisticValidated
  BY DEF ControlInv, Validated, Flow, LockFits, OptimisticValidated
<1> QED
  BY <1>1, TypeInit, TypeInvStep, LockInit, LockInvStep, ControlInit, ControlStep,
     PTL DEF Spec
=============================================================================
