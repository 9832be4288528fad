----------------------------- MODULE DBDBProofs -----------------------------
(***************************************************************************)
(* Proofs about the connections of module DBDB, for every number of        *)
(* connections, processes, keys and calls.                                 *)
(***************************************************************************)
EXTENDS DBDBProps, TLAPS

(***************************************************************************)
(* Types.  TypeOK is inductive together with: the files in use exist, and  *)
(* every address in a superblock or a tree reference leads to a stored     *)
(* tree.                                                                   *)
(***************************************************************************)
FilesCreated ==
    /\ path <= created
    /\ \A c \in Conns : ino[c] <= created /\ frame[c].temp <= created

RootsStored == \A f \in Files : root[f] \in 0..Len(trees[f])

TypeInv == TypeOK /\ FilesCreated /\ RootsStored /\ SnapshotIntact

USE ConnsAssumption, FilesAssumption, BoundsAssumption, ClientsAssumption,
    UnstoredAssumption, NoKeyAssumption

\* The effects of a session are closed under what the calls do to them.
LEMMA EffectTypes ==
    /\ EmptyMap \in Maps
    /\ NoEffects \in [Keys -> Effect]
    /\ Inc \in Effect /\ Put(Absent) \in Effect
    /\ \A v \in Nat : Put(v) \in Effect
    /\ \A e \in Effect, x \in Nat : ApplyTo(e, x) \in Nat
    /\ \A e, f \in Effect : Compose(e, f) \in Effect
BY DEF EmptyMap, Maps, Absent, NoEffects, Keep, Effect, Inc, Put, ApplyTo, Compose

LEMMA ContentType ==
    ASSUME TypeInv, NEW f \in Files, NEW a \in 0..Len(trees[f])
    PROVE  Content(f, a) \in Maps
<1>1. trees[f] \in Seq(Maps)
  BY DEF TypeInv, TypeOK
<1>2. a # 0 => trees[f][a] \in Maps
  BY <1>1
<1> QED
  BY <1>2, EffectTypes DEF Content

LEMMA RefreshType ==
    ASSUME TypeInv, NEW c \in Conns, Refresh(c)
    PROVE  /\ view' \in [Conns -> Maps]
           /\ addr' \in [Conns -> Nat \cup {Unstored}]
           /\ eff' \in [Conns -> [Keys -> Effect]]
<1>1. ino[c] \in Files /\ root[ino[c]] \in 0..Len(trees[ino[c]])
  BY DEF TypeInv, TypeOK, RootsStored, SnapshotIntact, Intact
<1>2. Current(ino[c]) \in Maps
  BY <1>1, ContentType DEF Current
<1>3. root[ino[c]] \in Nat
  BY <1>1 DEF TypeInv, TypeOK
<1> QED
  BY <1>2, <1>3, EffectTypes DEF Refresh, Forget, TypeInv, TypeOK

LEMMA OpenAgainType ==
    ASSUME TypeInv, NEW c \in Conns, OpenAgain(c)
    PROVE  /\ ino' \in [Conns -> Files]
           /\ locked' \in [Conns -> BOOLEAN]
           /\ view' \in [Conns -> Maps]
           /\ addr' \in [Conns -> Nat \cup {Unstored}]
           /\ eff' \in [Conns -> [Keys -> Effect]]
BY EffectTypes DEF OpenAgain, Unlock, Forget, TypeInv, TypeOK

LEMMA ApplyHereType ==
    ASSUME TypeInv, NEW c \in Conns, NEW k, NEW e \in Effect,
           ApplyHere(c, k, e)
    PROVE  /\ view' \in [Conns -> Maps]
           /\ addr' \in [Conns -> Nat \cup {Unstored}]
           /\ eff' \in [Conns -> [Keys -> Effect]]
           /\ UNCHANGED <<path, created, root, trees, ino, locked, budget, acked>>
<1> DEFINE m == [view[c] EXCEPT ![k] = ApplyTo(e, view[c][k])]
           es == [eff[c] EXCEPT ![k] = Compose(eff[c][k], e)]
<1>0. /\ view \in [Conns -> Maps] /\ eff \in [Conns -> [Keys -> Effect]]
      /\ addr \in [Conns -> Nat \cup {Unstored}]
  BY DEF TypeInv, TypeOK
<1>1. m \in Maps
  <2>1. view[c] \in [Keys -> Nat]
    BY <1>0 DEF Maps
  <2>2. k \in Keys => ApplyTo(e, view[c][k]) \in Nat
    BY <2>1, EffectTypes
  <2> QED
    BY <2>1, <2>2 DEF Maps
<1>2. es \in [Keys -> Effect]
  <2>1. eff[c] \in [Keys -> Effect]
    BY <1>0
  <2>2. k \in Keys => Compose(eff[c][k], e) \in Effect
    BY <2>1, EffectTypes
  <2> QED
    BY <2>1, <2>2
<1>3. view' = [view EXCEPT ![c] = m]
  BY DEF ApplyHere
<1>4. eff' = [eff EXCEPT ![c] = es]
  BY DEF ApplyHere
<1>5. addr' \in [Conns -> Nat \cup {Unstored}]
  BY <1>0 DEF ApplyHere
<1>6. UNCHANGED <<path, created, root, trees, ino, locked, budget, acked>>
  BY DEF ApplyHere, disk
<1> HIDE DEF m, es
<1> QED
  BY <1>0, <1>1, <1>2, <1>3, <1>4, <1>5, <1>6

\* Where a call goes next, and what its frame looks like.
LEMMA ThenGoType ==
    ASSUME TypeInv, NEW c \in Conns, NEW l \in Labels, NEW n \in Targets,
           ThenGo(c, l, n)
    PROVE  pc' \in [Conns -> Labels] /\ cont' \in [Conns -> Targets]
BY DEF ThenGo, TypeInv, TypeOK

LEMMA GotoType ==
    ASSUME TypeInv, NEW c \in Conns, NEW l \in Labels, Goto(c, l)
    PROVE  pc' \in [Conns -> Labels] /\ cont' \in [Conns -> Targets]
<1>1. cont[c] \in Targets
  BY DEF TypeInv, TypeOK
<1> QED
  BY <1>1, ThenGoType DEF Goto

LEMMA TakeLockType ==
    ASSUME TypeInv, NEW c \in Conns, NEW n \in Targets, TakeLock(c, n)
    PROVE  pc' \in [Conns -> Labels] /\ cont' \in [Conns -> Targets]
BY DEF TakeLock, Labels, Targets, TypeInv, TypeOK

LEMMA FrameType ==
    /\ NoFrame \in Frame
    /\ \A n \in CallNames, k \in Keys \cup {NoKey}, v \in 0..MaxVal :
          [NoFrame EXCEPT !.name = n, !.key = k, !.val = v] \in Frame
    /\ \A f \in Frame :
        /\ \A a \in Nat : [f EXCEPT !.snap = a] \in Frame
        /\ f.tries # 1 => [f EXCEPT !.tries = f.tries - 1] \in Frame
        /\ \A t \in Files : [f EXCEPT !.temp = t] \in Frame
<1>1. NoFrame \in Frame
  BY DEF NoFrame, Frame, CallNames, Files
<1>2. ASSUME NEW n \in CallNames, NEW k \in Keys \cup {NoKey}, NEW v \in 0..MaxVal
      PROVE  [NoFrame EXCEPT !.name = n, !.key = k, !.val = v] \in Frame
  BY <1>1 DEF NoFrame, Frame
<1>3. ASSUME NEW f \in Frame, NEW a \in Nat
      PROVE  [f EXCEPT !.snap = a] \in Frame
  BY DEF Frame
<1>4. ASSUME NEW f \in Frame, f.tries # 1
      PROVE  [f EXCEPT !.tries = f.tries - 1] \in Frame
  <2>1. f.tries - 1 \in 1..MaxRetries
    BY <1>4 DEF Frame
  <2>2. ASSUME NEW n \in 1..MaxRetries
        PROVE  [f EXCEPT !.tries = n] \in Frame
    BY DEF Frame
  <2> QED
    BY <2>1, <2>2
<1>5. ASSUME NEW f \in Frame, NEW t \in Files
      PROVE  [f EXCEPT !.temp = t] \in Frame
  BY DEF Frame
<1>6. ASSUME NEW f \in Frame
      PROVE  /\ \A a \in Nat : [f EXCEPT !.snap = a] \in Frame
             /\ f.tries # 1 => [f EXCEPT !.tries = f.tries - 1] \in Frame
             /\ \A t \in Files : [f EXCEPT !.temp = t] \in Frame
  BY <1>3, <1>4, <1>5
<1> QED
  BY <1>1, <1>2, <1>6, Zenon

LEMMA LeaveType ==
    ASSUME TypeInv, NEW c \in Conns, NEW l \in Labels, Leave(c, l)
    PROVE  /\ pc' \in [Conns -> Labels] /\ cont' \in [Conns -> Targets]
           /\ frame' \in [Conns -> Frame]
<1>1. "idle" \in Targets
  BY DEF Targets
<1> QED
  BY <1>1, ThenGoType, FrameType DEF Leave, TypeInv, TypeOK

LEMMA CallingType ==
    ASSUME TypeInv, NEW c \in Conns, NEW name \in CallNames,
           NEW k \in Keys \cup {NoKey}, NEW v \in 0..MaxVal,
           Calling(c, name, k, v)
    PROVE  frame' \in [Conns -> Frame] /\ budget' \in [Conns -> Nat]
<1> DEFINE g == [NoFrame EXCEPT !.name = name, !.key = k, !.val = v]
<1>1. g \in Frame
  BY FrameType
<1>2. frame' = [frame EXCEPT ![c] = g]
  BY DEF Calling
<1>3. budget' = [budget EXCEPT ![c] = budget[c] - 1] /\ budget[c] > 0
  BY DEF Calling
<1>4. frame \in [Conns -> Frame] /\ budget \in [Conns -> Nat]
  BY DEF TypeInv, TypeOK
<1> HIDE DEF g
<1> QED
  BY <1>1, <1>2, <1>3, <1>4

LEMMA LabelTypes ==
    /\ "idle" \in Labels /\ "closed" \in Labels /\ "reopen" \in Labels
    /\ "items" \in Labels /\ "super" \in Labels /\ "settype" \in Labels
    /\ "init" \in Labels /\ "read" \in Labels /\ "scan" \in Labels
    /\ "prelock" \in Labels /\ "lock" \in Labels /\ "flock" \in Labels
    /\ "recheck" \in Labels /\ "body" \in Labels /\ "publish" \in Labels
    /\ "snap" \in Labels /\ "validate" \in Labels /\ "copy" \in Labels
    /\ "rename" \in Labels /\ "swap" \in Labels
    /\ "idle" \in Targets /\ "items" \in Targets /\ "settype" \in Targets
    /\ "read" \in Targets /\ "scan" \in Targets /\ "prelock" \in Targets
    /\ "recheck" \in Targets /\ "body" \in Targets /\ "publish" \in Targets
    /\ "snap" \in Targets /\ "validate" \in Targets /\ "copy" \in Targets
    /\ \A l \in Targets : l \in Labels /\ l # "flock"
BY DEF Labels, Targets

LEMMA NameTypes ==
    /\ "connect" \in CallNames /\ "get" \in CallNames /\ "items" \in CallNames
    /\ "keys" \in CallNames
    /\ "set" \in CallNames /\ "del" \in CallNames /\ "update" \in CallNames
    /\ "updateRaise" \in CallNames /\ "optimistic" \in CallNames
    /\ "commit" \in CallNames /\ "compact" \in CallNames
    /\ 0 \in 0..MaxVal /\ \A v \in 1..MaxVal : v \in 0..MaxVal
BY DEF CallNames

LEMMA PublishType ==
    ASSUME TypeInv, NEW c \in Conns, NEW a \in AddressAfterStore(c)
    PROVE  /\ a \in 1..Len(trees[ino[c]]) + 1 \/ a = addr[c]
           /\ a \in 0..Len(trees[ino[c]]) + 1 /\ a \in Nat
           /\ Append(trees[ino[c]], view[c]) \in Seq(Maps)
<1>1. /\ ino[c] \in Files /\ trees[ino[c]] \in Seq(Maps) /\ view[c] \in Maps
      /\ addr[c] # Unstored => addr[c] \in 0..Len(trees[ino[c]])
  BY DEF TypeInv, TypeOK, RootsStored, SnapshotIntact, Intact
<1>2. Len(trees[ino[c]]) \in Nat /\ Append(trees[ino[c]], view[c]) \in Seq(Maps)
  BY <1>1
<1> QED
  BY <1>1, <1>2 DEF AddressAfterStore

LEMMA AckedType ==
    ASSUME TypeInv, NEW c \in Conns, acked' = [acked EXCEPT ![c] = @ + 1]
    PROVE  acked' \in [Conns -> Nat]
BY DEF TypeInv, TypeOK

LEMMA CopyType ==
    ASSUME TypeInv, NEW c \in Conns, Copy(c)
    PROVE  /\ created' \in Files /\ root' \in [Files -> Nat]
           /\ trees' \in [Files -> Seq(Maps)]
           /\ frame' \in [Conns -> Frame]
           /\ view' \in [Conns -> Maps]
           /\ addr' \in [Conns -> Nat \cup {Unstored}]
           /\ eff' \in [Conns -> [Keys -> Effect]]
<1>1. created + 1 \in Files
  <2>1. created \in 1..MaxFiles /\ created < MaxFiles
    BY DEF Copy, ItemsRefresh, Files, TypeInv, TypeOK
  <2> QED
    BY <2>1, FilesAssumption DEF Files
<1>2. /\ view' \in [Conns -> Maps]
      /\ addr' \in [Conns -> Nat \cup {Unstored}]
      /\ eff' \in [Conns -> [Keys -> Effect]]
  BY RefreshType DEF Copy, ItemsRefresh, TypeInv, TypeOK
<1>3. <<>> \in Seq(Maps) /\ <<view'[c]>> \in Seq(Maps)
  BY <1>2
<1>4. trees' \in [Files -> Seq(Maps)] /\ root' \in [Files -> Nat]
  BY <1>1, <1>3 DEF Copy, ItemsRefresh, TypeInv, TypeOK
<1>5. frame' \in [Conns -> Frame]
  BY <1>1, FrameType DEF Copy, ItemsRefresh, TypeInv, TypeOK
<1> QED
  BY <1>1, <1>2, <1>4, <1>5 DEF Copy, ItemsRefresh

LEMMA TypeStep ==
    ASSUME TypeInv, Next
    PROVE  TypeOK'
<1> USE LabelTypes, NameTypes, NoKeyAssumption DEF disk, conn, ctrl, history
<1>1. ASSUME NEW c \in Conns, StartRead(c) PROVE TypeOK'
  BY <1>1, CallingType, ThenGoType, GotoType DEF StartRead, TypeInv, TypeOK
<1>2. ASSUME NEW c \in Conns, StartWrite(c) PROVE TypeOK'
  BY <1>2, CallingType, ThenGoType DEF StartWrite, TypeInv, TypeOK
<1>3. ASSUME NEW c \in Conns, StartOptimistic(c) PROVE TypeOK'
  BY <1>3, CallingType, ThenGoType DEF StartOptimistic, TypeInv, TypeOK
<1>4. ASSUME NEW c \in Conns, StartCommit(c) PROVE TypeOK'
  BY <1>4, CallingType, TakeLockType DEF StartCommit, TypeInv, TypeOK
<1>5. ASSUME NEW c \in Conns, StartCompact(c) PROVE TypeOK'
  BY <1>5, CallingType, TakeLockType DEF StartCompact, TypeInv, TypeOK
<1>6. ASSUME NEW c \in Conns, Connect(c) PROVE TypeOK'
  BY <1>6, CallingType, ThenGoType, OpenAgainType DEF Connect, TypeInv, TypeOK
<1>7. ASSUME NEW c \in Conns, Close(c) PROVE TypeOK'
  <2>1. 1 \in Files
    BY FilesAssumption DEF Files
  <2>2. pc' \in [Conns -> Labels] /\ cont' \in [Conns -> Targets]
        /\ frame' \in [Conns -> Frame]
    BY <1>7, LeaveType DEF Close
  <2> QED
    BY <1>7, <2>1, <2>2, EffectTypes DEF Close, Unlock, Forget, TypeInv, TypeOK
<1>8. ASSUME NEW c \in Conns, ReopenNot(c) PROVE TypeOK'
  BY <1>8, GotoType DEF ReopenNot, TypeInv, TypeOK
<1>9. ASSUME NEW c \in Conns, Reopen(c) PROVE TypeOK'
  BY <1>9, OpenAgainType, ThenGoType DEF Reopen, TypeInv, TypeOK
<1>10. ASSUME NEW c \in Conns, EnsureSuperblock(c) PROVE TypeOK'
  BY <1>10, GotoType, ThenGoType DEF EnsureSuperblock, TypeInv, TypeOK
<1>11. ASSUME NEW c \in Conns, SetTreeType(c) PROVE TypeOK'
  BY <1>11, GotoType DEF SetTreeType, TypeInv, TypeOK
<1>12. ASSUME NEW c \in Conns, InitTree(c) PROVE TypeOK'
  BY <1>12, RefreshType, LeaveType, GotoType DEF InitTree, Return, TypeInv, TypeOK
<1>13. ASSUME NEW c \in Conns, PrepareLock(c) PROVE TypeOK'
  BY <1>13, GotoType, ThenGoType DEF PrepareLock, TypeInv, TypeOK
<1>14. ASSUME NEW c \in Conns, AcquireThread(c) PROVE TypeOK'
  BY <1>14, GotoType DEF AcquireThread, TypeInv, TypeOK
<1>15. ASSUME NEW c \in Conns, AcquireFile(c) PROVE TypeOK'
  BY <1>15, GotoType DEF AcquireFile, TypeInv, TypeOK
<1>16. ASSUME NEW c \in Conns, RecheckFresh(c) PROVE TypeOK'
  BY <1>16, RefreshType, GotoType DEF RecheckFresh, TypeInv, TypeOK
<1>17. ASSUME NEW c \in Conns, RecheckReplaced(c) PROVE TypeOK'
  BY <1>17, OpenAgainType, ThenGoType DEF RecheckReplaced, TypeInv, TypeOK
<1>18. ASSUME NEW c \in Conns, Read(c) PROVE TypeOK'
  BY <1>18, LeaveType DEF Read, Return, TypeInv, TypeOK
<1>19. ASSUME NEW c \in Conns, Scan(c) PROVE TypeOK'
  BY <1>19, LeaveType, RefreshType DEF Scan, ItemsRefresh, Return, TypeInv, TypeOK
<1>20. ASSUME NEW c \in Conns, Set(c) PROVE TypeOK'
  <2>1. Put(frame[c].val) \in Effect
    <3>1. frame[c] \in Frame
      BY DEF TypeInv, TypeOK
    <3>2. frame[c].val \in Nat
      BY <3>1, BoundsAssumption DEF Frame
    <3> QED
      BY <3>2, EffectTypes
  <2>2. ApplyHere(c, frame[c].key, Put(frame[c].val)) /\ Leave(c, "idle")
    BY <1>20 DEF Set, Return
  <2> QED
    BY <2>1, <2>2, LeaveType, ApplyHereType DEF TypeInv, TypeOK
<1>21. ASSUME NEW c \in Conns, Del(c) PROVE TypeOK'
  <2>1. Put(Absent) \in Effect
    BY EffectTypes DEF Frame, TypeInv, TypeOK
  <2>2. ApplyHere(c, frame[c].key, Put(Absent)) /\ Leave(c, "idle")
    BY <1>21 DEF Del, Return
  <2> QED
    BY <2>1, <2>2, LeaveType, ApplyHereType DEF TypeInv, TypeOK
<1>22. ASSUME NEW c \in Conns, DelMissing(c) PROVE TypeOK'
  BY <1>22, LeaveType DEF DelMissing, Return, TypeInv, TypeOK
<1>23. ASSUME NEW c \in Conns, Update(c) PROVE TypeOK'
  BY <1>23, TakeLockType, ApplyHereType, EffectTypes DEF Update, ApplyHere, TypeInv, TypeOK
<1>24. ASSUME NEW c \in Conns, UpdateRaises(c) PROVE TypeOK'
  BY <1>24, LeaveType DEF UpdateRaises, Return, Unlock, TypeInv, TypeOK
<1>25. ASSUME NEW c \in Conns, Publish(c) PROVE TypeOK'
  <2>1. PICK a \in AddressAfterStore(c) :
          /\ root' = [root EXCEPT ![ino[c]] = a]
          /\ addr' = [addr EXCEPT ![c] = a]
          /\ trees' = IF a \in 0..Len(trees[ino[c]]) THEN trees
                      ELSE [trees EXCEPT ![ino[c]] = Append(trees[ino[c]], view[c])]
    BY <1>25 DEF Publish
  <2>2. Leave(c, "idle")
    BY <1>25 DEF Publish, Return
  <2>3. ino[c] \in Files /\ a \in Nat
    BY PublishType DEF TypeInv, TypeOK
  <2>4. /\ root' \in [Files -> Nat] /\ trees' \in [Files -> Seq(Maps)]
        /\ addr' \in [Conns -> Nat \cup {Unstored}]
    BY <2>1, <2>3, PublishType DEF TypeInv, TypeOK
  <2>5. /\ locked' \in [Conns -> BOOLEAN] /\ eff' \in [Conns -> [Keys -> Effect]]
        /\ UNCHANGED <<path, created, ino, view, budget>>
    BY <1>25, EffectTypes DEF Publish, Unlock, Forget, TypeInv, TypeOK
  <2>6. acked' \in [Conns -> Nat]
    BY <1>25, AckedType DEF Publish
  <2> QED
    BY <2>2, <2>4, <2>5, <2>6, LeaveType DEF TypeInv, TypeOK
<1>26. ASSUME NEW c \in Conns, Snapshot(c) PROVE TypeOK'
  BY <1>26, TakeLockType, RefreshType, FrameType DEF Snapshot, SnapshotRoot, TypeInv, TypeOK
<1>27. ASSUME NEW c \in Conns, ValidateOK(c) PROVE TypeOK'
  <2>1. ApplyHere(c, frame[c].key, Inc) /\ Goto(c, "publish") /\ frame' = frame
    BY <1>27 DEF ValidateOK
  <2> QED
    BY <2>1, EffectTypes, GotoType, ApplyHereType DEF TypeInv, TypeOK
<1>28. ASSUME NEW c \in Conns, ValidateFails(c) PROVE TypeOK'
  <2>1. /\ pc' \in [Conns -> Labels] /\ cont' \in [Conns -> Targets]
        /\ frame' \in [Conns -> Frame]
    <3>1. CASE frame[c].tries = 1
      BY <1>28, <3>1, LeaveType DEF ValidateFails, Return
    <3>2. CASE frame[c].tries # 1
      <4>1. frame[c] \in Frame
        BY DEF TypeInv, TypeOK
      <4>2. [frame[c] EXCEPT !.tries = frame[c].tries - 1] \in Frame
        BY <3>2, <4>1, FrameType
      <4>3. frame' = [frame EXCEPT ![c] =
                        [frame[c] EXCEPT !.tries = frame[c].tries - 1]]
        BY <1>28, <3>2 DEF ValidateFails
      <4>4. ThenGo(c, "reopen", "snap")
        BY <1>28, <3>2 DEF ValidateFails
      <4> QED
        BY <4>2, <4>3, <4>4, ThenGoType DEF TypeInv, TypeOK
    <3> QED
      BY <3>1, <3>2
  <2> QED
    BY <1>28, <2>1 DEF ValidateFails, Unlock, TypeInv, TypeOK
<1>29. ASSUME NEW c \in Conns, CopyItems(c) PROVE TypeOK'
  BY <1>29, GotoType, CopyType DEF CopyItems, Copy, ItemsRefresh, TypeInv, TypeOK
<1>30. ASSUME NEW c \in Conns, Rename(c) PROVE TypeOK'
  <2>1. frame[c].temp \in Files
    BY DEF Frame, TypeInv, TypeOK
  <2>2. /\ pc' \in [Conns -> Labels] /\ cont' \in [Conns -> Targets]
        /\ acked' \in [Conns -> Nat]
    BY <1>30, GotoType, AckedType DEF Rename
  <2> QED
    BY <1>30, <2>1, <2>2, EffectTypes, AckedType DEF Rename, Forget, TypeInv, TypeOK
<1>31. ASSUME NEW c \in Conns, Swap(c) PROVE TypeOK'
  BY <1>31, ThenGoType, OpenAgainType DEF Swap, TypeInv, TypeOK
<1>32. ASSUME NEW c \in Conns, CompactFails(c) PROVE TypeOK'
  BY <1>32, LeaveType DEF CompactFails, Return, Unlock, TypeInv, TypeOK
<1>33. ASSUME NEW p, Crash(p) PROVE TypeOK'
  <2>1. 1 \in Files
    BY FilesAssumption DEF Files
  <2>2. UNCHANGED <<path, created, root, trees, budget, acked>>
    BY <1>33 DEF Crash
  <2>3. /\ pc' \in [Conns -> Labels] /\ cont' \in [Conns -> Targets]
        /\ frame' \in [Conns -> Frame] /\ locked' \in [Conns -> BOOLEAN]
    BY <1>33, FrameType DEF Crash, TypeInv, TypeOK
  <2>4. /\ ino' \in [Conns -> Files] /\ view' \in [Conns -> Maps]
        /\ addr' \in [Conns -> Nat \cup {Unstored}]
        /\ eff' \in [Conns -> [Keys -> Effect]]
    BY <1>33, <2>1, EffectTypes DEF Crash, TypeInv, TypeOK
  <2> QED
    BY <2>2, <2>3, <2>4 DEF TypeInv, TypeOK
<1>34. ASSUME Done PROVE TypeOK'
  BY <1>34 DEF Done, vars, TypeInv, TypeOK
<1> QED
  BY <1>1, <1>2, <1>3, <1>4, <1>5, <1>6, <1>7, <1>8, <1>9, <1>10, <1>11, <1>12, <1>13, <1>14, <1>15, <1>16, <1>17, <1>18, <1>19, <1>20, <1>21, <1>22, <1>23, <1>24, <1>25, <1>26, <1>27, <1>28, <1>29, <1>30, <1>31, <1>32, <1>33, <1>34
     DEF Next, Begin, Open, Lock, Body, Compact, Step

(***************************************************************************)
(* What a step can do to the file and to the trees in memory: eight kinds. *)
(***************************************************************************)
SameDisk == UNCHANGED <<path, created, root, trees, acked>>

Quiet == SameDisk /\ UNCHANGED <<ino, view, addr, eff>>

Refreshes(c) == SameDisk /\ ino' = ino /\ Refresh(c)

Opens(c) == SameDisk /\ OpenAgain(c)

Writes(c) == \E k \in Keys \cup {NoKey}, e \in Effect : ApplyHere(c, k, e)

Stops(C) ==
    /\ SameDisk
    /\ ino' = [c \in Conns |-> IF c \in C THEN 1 ELSE ino[c]]
    /\ view' = [c \in Conns |-> IF c \in C THEN EmptyMap ELSE view[c]]
    /\ addr' = [c \in Conns |-> IF c \in C THEN 0 ELSE addr[c]]
    /\ eff' = [c \in Conns |-> IF c \in C THEN NoEffects ELSE eff[c]]

Kinds ==
    \/ Quiet
    \/ \E c \in Conns : Refreshes(c) \/ Opens(c) \/ Writes(c) \/ Publish(c)
                        \/ CopyItems(c) \/ Rename(c)
    \/ \E C \in SUBSET Conns : Stops(C)

\* Nobody's temporary file changes.
TempKept ==
    \A d \in Conns : frame'[d].temp = frame[d].temp \/ frame'[d].temp = 1

\* Nobody gets a lock.
HeldKept ==
    \A d \in Conns :
        /\ locked'[d] => locked[d] /\ ino'[d] = ino[d]
        /\ locked'[d] \/ pc'[d] = "flock" => locked[d] \/ pc[d] = "flock"

LEMMA CallingTemp ==
    ASSUME TypeInv, NEW c \in Conns, NEW name, NEW k, NEW v, Calling(c, name, k, v)
    PROVE  TempKept
<1> DEFINE g == [NoFrame EXCEPT !.name = name, !.key = k, !.val = v]
<1>1. g.temp = 1
  BY DEF NoFrame
<1>2. frame' = [frame EXCEPT ![c] = g]
  BY DEF Calling
<1> HIDE DEF g
<1> QED
  BY <1>1, <1>2 DEF TempKept, TypeInv, TypeOK

LEMMA StepKinds ==
    ASSUME TypeInv, Next
    PROVE  /\ Kinds
           /\ TempKept \/ \E c \in Conns : CopyItems(c)
           /\ HeldKept \/ \E c \in Conns : AcquireThread(c) \/ AcquireFile(c)
<1> DEFINE Goal ==
             /\ Kinds
             /\ TempKept \/ \E c \in Conns : CopyItems(c)
             /\ HeldKept \/ \E c \in Conns : AcquireThread(c) \/ AcquireFile(c)
<1> USE DEF disk, conn, history, SameDisk, ThenGo, Goto, Leave, Return
<1>0. /\ pc \in [Conns -> Labels] /\ frame \in [Conns -> Frame]
      /\ ino \in [Conns -> Files] /\ locked \in [Conns -> BOOLEAN]
      /\ view \in [Conns -> Maps] /\ addr \in [Conns -> Nat \cup {Unstored}]
      /\ eff \in [Conns -> [Keys -> Effect]]
      /\ \A c \in Conns : cont[c] # "flock" /\ "copy" # "flock"
  BY DEF TypeInv, TypeOK, Targets
<1>1. ASSUME NEW c \in Conns, StartRead(c) PROVE Goal
  <2>1. Quiet
    BY <1>0, <1>1 DEF StartRead, Quiet, Calling, NoFrame
  <2>2. TempKept /\ HeldKept
    <3>1. TempKept
      BY <1>1, CallingTemp DEF StartRead
    <3>2. /\ pc' = [pc EXCEPT ![c] = "reopen"] \/ pc' = [pc EXCEPT ![c] = "scan"]
          /\ locked' = locked /\ ino' = ino
      BY <1>1 DEF StartRead
    <3> QED
      BY <1>0, <3>1, <3>2 DEF HeldKept
  <2> QED
    BY <1>1, <2>1, <2>2 DEF Kinds
<1>2. ASSUME NEW c \in Conns, StartWrite(c) PROVE Goal
  <2>1. Quiet
    BY <1>0, <1>2 DEF StartWrite, Quiet, Calling, NoFrame
  <2>2. TempKept /\ HeldKept
    <3>1. TempKept
      BY <1>2, CallingTemp DEF StartWrite
    <3>2. pc' = [pc EXCEPT ![c] = "reopen"] /\ locked' = locked /\ ino' = ino
      BY <1>2 DEF StartWrite
    <3> QED
      BY <1>0, <3>1, <3>2 DEF HeldKept
  <2> QED
    BY <1>2, <2>1, <2>2 DEF Kinds
<1>3. ASSUME NEW c \in Conns, StartOptimistic(c) PROVE Goal
  <2>1. Quiet
    BY <1>0, <1>3 DEF StartOptimistic, Quiet, Calling, NoFrame
  <2>2. TempKept /\ HeldKept
    BY <1>0, <1>3 DEF StartOptimistic, Calling, NoFrame, TempKept, HeldKept
  <2> QED
    BY <1>3, <2>1, <2>2 DEF Kinds
<1>4. ASSUME NEW c \in Conns, StartCommit(c) PROVE Goal
  <2>1. Quiet
    BY <1>0, <1>4 DEF StartCommit, Quiet, Calling, NoFrame, TakeLock
  <2>2. TempKept /\ HeldKept
    BY <1>0, <1>4 DEF StartCommit, Calling, NoFrame, TakeLock, TempKept, HeldKept
  <2> QED
    BY <1>4, <2>1, <2>2 DEF Kinds
<1>5. ASSUME NEW c \in Conns, StartCompact(c) PROVE Goal
  <2>1. Quiet
    BY <1>0, <1>5 DEF StartCompact, Quiet, Calling, NoFrame, TakeLock
  <2>2. TempKept /\ HeldKept
    BY <1>0, <1>5 DEF StartCompact, Calling, NoFrame, TakeLock, TempKept, HeldKept
  <2> QED
    BY <1>5, <2>1, <2>2 DEF Kinds
<1>6. ASSUME NEW c \in Conns, Connect(c) PROVE Goal
  <2>1. Opens(c)
    BY <1>0, <1>6 DEF Connect, Opens, OpenAgain, Unlock, Calling, NoFrame
  <2>2. TempKept /\ HeldKept
    BY <1>0, <1>6 DEF Connect, Calling, NoFrame, OpenAgain, Unlock, TempKept, HeldKept
  <2> QED
    BY <1>6, <2>1, <2>2 DEF Kinds
<1>7. ASSUME NEW c \in Conns, Close(c) PROVE Goal
  <2>1. Stops({c})
    BY <1>0, <1>7 DEF Close, Stops, Unlock, Forget
  <2>2. TempKept /\ HeldKept
    BY <1>0, <1>7 DEF Close, NoFrame, Unlock, TempKept, HeldKept
  <2> QED
    BY <1>7, <2>1, <2>2 DEF Kinds
<1>8. ASSUME NEW c \in Conns, ReopenNot(c) PROVE Goal
  <2>1. Quiet
    BY <1>0, <1>8 DEF ReopenNot, Quiet
  <2>2. TempKept /\ HeldKept
    BY <1>0, <1>8 DEF ReopenNot, NoFrame, TempKept, HeldKept
  <2> QED
    BY <1>8, <2>1, <2>2 DEF Kinds
<1>9. ASSUME NEW c \in Conns, Reopen(c) PROVE Goal
  <2>1. Opens(c)
    BY <1>0, <1>9 DEF Reopen, Opens, OpenAgain, Unlock
  <2>2. TempKept /\ HeldKept
    BY <1>0, <1>9 DEF Reopen, NoFrame, OpenAgain, Unlock, TempKept, HeldKept
  <2> QED
    BY <1>9, <2>1, <2>2 DEF Kinds
<1>10. ASSUME NEW c \in Conns, EnsureSuperblock(c) PROVE Goal
  <2>1. Quiet
    BY <1>0, <1>10 DEF EnsureSuperblock, Quiet
  <2>2. TempKept /\ HeldKept
    BY <1>0, <1>10 DEF EnsureSuperblock, NoFrame, TempKept, HeldKept
  <2> QED
    BY <1>10, <2>1, <2>2 DEF Kinds
<1>11. ASSUME NEW c \in Conns, SetTreeType(c) PROVE Goal
  <2>1. Quiet
    BY <1>0, <1>11 DEF SetTreeType, Quiet
  <2>2. TempKept /\ HeldKept
    BY <1>0, <1>11 DEF SetTreeType, NoFrame, TempKept, HeldKept
  <2> QED
    BY <1>11, <2>1, <2>2 DEF Kinds
<1>12. ASSUME NEW c \in Conns, InitTree(c) PROVE Goal
  <2>1. Refreshes(c)
    BY <1>0, <1>12 DEF InitTree, Refreshes, Refresh
  <2>2. TempKept /\ HeldKept
    BY <1>0, <1>12 DEF InitTree, NoFrame, TempKept, HeldKept
  <2> QED
    BY <1>12, <2>1, <2>2 DEF Kinds
<1>13. ASSUME NEW c \in Conns, PrepareLock(c) PROVE Goal
  <2>1. Quiet
    BY <1>0, <1>13 DEF PrepareLock, Quiet
  <2>2. TempKept /\ HeldKept
    BY <1>0, <1>13 DEF PrepareLock, NoFrame, TempKept, HeldKept
  <2> QED
    BY <1>13, <2>1, <2>2 DEF Kinds
<1>14. ASSUME NEW c \in Conns, AcquireThread(c) PROVE Goal
  <2>1. Quiet
    BY <1>0, <1>14 DEF AcquireThread, Quiet
  <2>2. TempKept
    BY <1>0, <1>14 DEF AcquireThread, NoFrame, TempKept
  <2> QED
    BY <1>14, <2>1, <2>2 DEF Kinds
<1>15. ASSUME NEW c \in Conns, AcquireFile(c) PROVE Goal
  <2>1. Quiet
    BY <1>0, <1>15 DEF AcquireFile, Quiet
  <2>2. TempKept
    BY <1>0, <1>15 DEF AcquireFile, NoFrame, TempKept
  <2> QED
    BY <1>15, <2>1, <2>2 DEF Kinds
<1>16. ASSUME NEW c \in Conns, RecheckFresh(c) PROVE Goal
  <2>1. Refreshes(c)
    BY <1>0, <1>16 DEF RecheckFresh, Refreshes, Refresh
  <2>2. TempKept /\ HeldKept
    BY <1>0, <1>16 DEF RecheckFresh, NoFrame, TempKept, HeldKept
  <2> QED
    BY <1>16, <2>1, <2>2 DEF Kinds
<1>17. ASSUME NEW c \in Conns, RecheckReplaced(c) PROVE Goal
  <2>1. Opens(c)
    BY <1>0, <1>17 DEF RecheckReplaced, Opens, OpenAgain, Unlock
  <2>2. TempKept /\ HeldKept
    BY <1>0, <1>17 DEF RecheckReplaced, NoFrame, OpenAgain, Unlock, TempKept, HeldKept
  <2> QED
    BY <1>17, <2>1, <2>2 DEF Kinds
<1>18. ASSUME NEW c \in Conns, Read(c) PROVE Goal
  <2>1. Quiet
    BY <1>0, <1>18 DEF Read, Quiet
  <2>2. TempKept /\ HeldKept
    BY <1>0, <1>18 DEF Read, NoFrame, TempKept, HeldKept
  <2> QED
    BY <1>18, <2>1, <2>2 DEF Kinds
<1>19. ASSUME NEW c \in Conns, Scan(c) PROVE Goal
  <2>1. Quiet \/ Refreshes(c)
    BY <1>0, <1>19 DEF Scan, ItemsRefresh, Quiet, Refreshes
  <2>2. TempKept /\ HeldKept
    BY <1>0, <1>19 DEF Scan, ItemsRefresh, NoFrame, TempKept, HeldKept
  <2> QED
    BY <1>19, <2>1, <2>2 DEF Kinds
<1>20. ASSUME NEW c \in Conns, Set(c) PROVE Goal
  <2>1. Put(frame[c].val) \in Effect /\ frame[c].key \in Keys \cup {NoKey}
    <3>1. frame[c] \in Frame
      BY <1>0
    <3>2. frame[c].val \in Nat /\ frame[c].key \in Keys \cup {NoKey}
      BY <3>1, BoundsAssumption DEF Frame
    <3> QED
      BY <3>2, EffectTypes
  <2>2. ApplyHere(c, frame[c].key, Put(frame[c].val))
    BY <1>20 DEF Set
  <2>3. Writes(c)
    BY <2>1, <2>2 DEF Writes
  <2>4. TempKept /\ HeldKept
    BY <1>0, <1>20, <2>2, Zenon DEF Set, ApplyHere, TempKept, HeldKept, NoFrame
  <2> QED
    BY <2>3, <2>4 DEF Kinds
<1>21. ASSUME NEW c \in Conns, Del(c) PROVE Goal
  <2>1. Put(Absent) \in Effect /\ frame[c].key \in Keys \cup {NoKey}
    BY <1>0, EffectTypes, BoundsAssumption DEF Frame
  <2>2. ApplyHere(c, frame[c].key, Put(Absent))
    BY <1>21 DEF Del
  <2>3. Writes(c)
    BY <2>1, <2>2 DEF Writes
  <2>4. TempKept /\ HeldKept
    BY <1>0, <1>21, <2>2, Zenon DEF Del, ApplyHere, TempKept, HeldKept, NoFrame
  <2> QED
    BY <2>3, <2>4 DEF Kinds
<1>22. ASSUME NEW c \in Conns, DelMissing(c) PROVE Goal
  <2>1. Quiet
    BY <1>0, <1>22 DEF DelMissing, Quiet
  <2>2. TempKept /\ HeldKept
    BY <1>0, <1>22 DEF DelMissing, NoFrame, TempKept, HeldKept
  <2> QED
    BY <1>22, <2>1, <2>2 DEF Kinds
<1>23. ASSUME NEW c \in Conns, Update(c) PROVE Goal
  <2>1. Inc \in Effect /\ frame[c].key \in Keys \cup {NoKey}
    BY <1>0, EffectTypes, BoundsAssumption DEF Frame
  <2>2. ApplyHere(c, frame[c].key, Inc)
    BY <1>23 DEF Update
  <2>3. Writes(c)
    BY <2>1, <2>2 DEF Writes
  <2>4. TempKept /\ HeldKept
    BY <1>0, <1>23, <2>2, Zenon DEF Update, ApplyHere, TempKept, HeldKept, NoFrame, TakeLock
  <2> QED
    BY <2>3, <2>4 DEF Kinds
<1>24. ASSUME NEW c \in Conns, UpdateRaises(c) PROVE Goal
  <2>1. Quiet
    BY <1>0, <1>24 DEF UpdateRaises, Quiet, Unlock
  <2>2. TempKept /\ HeldKept
    BY <1>0, <1>24 DEF UpdateRaises, Unlock, NoFrame, TempKept, HeldKept
  <2> QED
    BY <1>24, <2>1, <2>2 DEF Kinds
<1>25. ASSUME NEW c \in Conns, Publish(c) PROVE Goal
  <2>1. Publish(c)
    BY <1>0, <1>25 DEF Publish, Unlock
  <2>2. TempKept /\ HeldKept
    BY <1>0, <1>25 DEF Publish, Unlock, NoFrame, TempKept, HeldKept
  <2> QED
    BY <1>25, <2>1, <2>2 DEF Kinds
<1>26. ASSUME NEW c \in Conns, Snapshot(c) PROVE Goal
  <2>1. Refreshes(c)
    BY <1>0, <1>26 DEF Snapshot, Refreshes, Refresh, SnapshotRoot, TakeLock
  <2>2. TempKept /\ HeldKept
    BY <1>0, <1>26 DEF Snapshot, SnapshotRoot, TakeLock, NoFrame, TempKept, HeldKept
  <2> QED
    BY <1>26, <2>1, <2>2 DEF Kinds
<1>27. ASSUME NEW c \in Conns, ValidateOK(c) PROVE Goal
  <2>1. Inc \in Effect /\ frame[c].key \in Keys \cup {NoKey}
    BY <1>0, EffectTypes, BoundsAssumption DEF Frame
  <2>2. ApplyHere(c, frame[c].key, Inc)
    BY <1>27 DEF ValidateOK
  <2>3. Writes(c)
    BY <2>1, <2>2 DEF Writes
  <2>4. TempKept /\ HeldKept
    BY <1>0, <1>27, <2>2, Zenon DEF ValidateOK, ApplyHere, TempKept, HeldKept, NoFrame
  <2> QED
    BY <2>3, <2>4 DEF Kinds
<1>28. ASSUME NEW c \in Conns, ValidateFails(c) PROVE Goal
  <2>1. Quiet
    BY <1>0, <1>28 DEF ValidateFails, Quiet, Unlock
  <2>2. TempKept /\ HeldKept
    <3>1. TempKept
      <4>1. CASE frame[c].tries = 1
        <5>1. frame' = [frame EXCEPT ![c] = NoFrame]
          BY <1>28, <4>1, Zenon DEF ValidateFails
        <5> QED
          BY <1>0, <5>1 DEF NoFrame, TempKept
      <4>2. CASE frame[c].tries # 1
        <5> DEFINE g == [frame[c] EXCEPT !.tries = frame[c].tries - 1]
        <5>1. g.temp = frame[c].temp
          <6>1. frame[c] \in Frame
            BY <1>0
          <6>2. "temp" \in DOMAIN frame[c] /\ "temp" # "tries"
            BY <6>1 DEF Frame
          <6> QED
            BY <6>2
        <5>2. frame' = [frame EXCEPT ![c] = g]
          BY <1>28, <4>2 DEF ValidateFails
        <5> HIDE DEF g
        <5> QED
          BY <1>0, <5>1, <5>2 DEF TempKept
      <4> QED
        BY <4>1, <4>2
    <3>2. HeldKept
      BY <1>0, <1>28 DEF ValidateFails, Unlock, HeldKept
    <3> QED
      BY <3>1, <3>2
  <2> QED
    BY <1>28, <2>1, <2>2 DEF Kinds
<1>29. ASSUME NEW c \in Conns, CopyItems(c) PROVE Goal
  <2>1. CopyItems(c)
    BY <1>0, <1>29 DEF CopyItems, Copy, ItemsRefresh
  <2>2. HeldKept
    BY <1>0, <1>29 DEF CopyItems, Copy, ItemsRefresh, NoFrame, HeldKept
  <2> QED
    BY <1>29, <2>1, <2>2 DEF Kinds
<1>30. ASSUME NEW c \in Conns, Rename(c) PROVE Goal
  <2>1. Rename(c)
    BY <1>0, <1>30 DEF Rename
  <2>2. TempKept /\ HeldKept
    BY <1>0, <1>30 DEF Rename, NoFrame, TempKept, HeldKept
  <2> QED
    BY <1>30, <2>1, <2>2 DEF Kinds
<1>31. ASSUME NEW c \in Conns, Swap(c) PROVE Goal
  <2>1. Opens(c)
    BY <1>0, <1>31 DEF Swap, Opens, OpenAgain, Unlock
  <2>2. TempKept /\ HeldKept
    BY <1>0, <1>31 DEF Swap, NoFrame, OpenAgain, Unlock, TempKept, HeldKept
  <2> QED
    BY <1>31, <2>1, <2>2 DEF Kinds
<1>32. ASSUME NEW c \in Conns, CompactFails(c) PROVE Goal
  <2>1. Quiet
    BY <1>0, <1>32 DEF CompactFails, Quiet, Unlock
  <2>2. TempKept /\ HeldKept
    BY <1>0, <1>32 DEF CompactFails, Unlock, NoFrame, TempKept, HeldKept
  <2> QED
    BY <1>32, <2>1, <2>2 DEF Kinds
<1>33. ASSUME NEW p, Crash(p) PROVE Goal
  <2> DEFINE dead == {c \in Conns : Proc[c] = p}
  <2>1. Stops(dead)
    BY <1>0, <1>33 DEF Crash, Stops
  <2>2. TempKept /\ HeldKept
    BY <1>0, <1>33 DEF Crash, NoFrame, TempKept, HeldKept
  <2> QED
    BY <2>1, <2>2 DEF Kinds
<1>34. ASSUME Done PROVE Goal
  BY <1>34 DEF Done, vars, ctrl, Kinds, Quiet, TempKept, HeldKept
<1> HIDE DEF Goal
<1>a. ASSUME NEW c \in Conns, Begin(c) PROVE Goal
  BY <1>a, <1>1, <1>2, <1>3, <1>4, <1>5, <1>6 DEF Begin
<1>b. ASSUME NEW c \in Conns, Open(c) PROVE Goal
  BY <1>b, <1>8, <1>9, <1>10, <1>11, <1>12 DEF Open
<1>c. ASSUME NEW c \in Conns, Lock(c) PROVE Goal
  BY <1>c, <1>13, <1>14, <1>15, <1>16, <1>17 DEF Lock
<1>d. ASSUME NEW c \in Conns, Body(c) PROVE Goal
  BY <1>d, <1>18, <1>19, <1>20, <1>21, <1>22, <1>23, <1>24, <1>25, <1>26,
     <1>27, <1>28 DEF Body
<1>e. ASSUME NEW c \in Conns, Compact(c) PROVE Goal
  BY <1>e, <1>29, <1>30, <1>31 DEF Compact
<1>f. ASSUME NEW c \in Conns, Step(c) PROVE Goal
  BY <1>b, <1>c, <1>d, <1>e, <1>f DEF Step
<1>g. ASSUME NEW c \in Conns, Begin(c) \/ Close(c) \/ Step(c) \/ CompactFails(c)
      PROVE  Goal
  BY <1>g, <1>a, <1>f, <1>7, <1>32
<1>h. ASSUME NEW p \in {Proc[c] : c \in Conns}, Crash(p) PROVE Goal
  BY <1>h, <1>33
<1>q. Goal
  BY <1>g, <1>h, <1>34 DEF Next
<1> QED
  BY <1>q DEF Goal

(***************************************************************************)
(* Files, addresses and snapshots.                                         *)
(***************************************************************************)
LEMMA FilesStep ==
    ASSUME TypeInv, Next
    PROVE  FilesCreated'
<1>0. /\ created \in Nat /\ created >= 1 /\ path \in Nat /\ path <= created
      /\ ino \in [Conns -> Files] /\ frame \in [Conns -> Frame]
      /\ \A c \in Conns : /\ ino[c] \in Nat /\ ino[c] <= created
                          /\ frame[c].temp \in Nat /\ frame[c].temp <= created
  <2>1. /\ created \in Files /\ path \in Files /\ path <= created
        /\ ino \in [Conns -> Files] /\ frame \in [Conns -> Frame]
        /\ \A c \in Conns : ino[c] <= created /\ frame[c].temp <= created
    BY DEF TypeInv, TypeOK, FilesCreated
  <2>2. \A f \in Files : f \in Nat /\ f >= 1
    BY FilesAssumption DEF Files
  <2>3. \A c \in Conns : frame[c].temp \in Files
    BY <2>1 DEF Frame
  <2> QED
    BY <2>1, <2>2, <2>3
<1>1. CASE \E c \in Conns : CopyItems(c)
  <2>1. PICK c \in Conns : CopyItems(c)
    BY <1>1
  <2>2. /\ created' = created + 1 /\ path' = path /\ ino' = ino
        /\ frame' = [frame EXCEPT ![c].temp = created + 1]
    BY <2>1 DEF CopyItems, Copy, ItemsRefresh
  <2>3. \A d \in Conns : frame'[d].temp = frame[d].temp \/ frame'[d].temp = created + 1
    BY <1>0, <2>2 DEF Frame
  <2> QED
    BY <1>0, <2>2, <2>3 DEF FilesCreated
<1>2. CASE ~\E c \in Conns : CopyItems(c)
  <2>1. TempKept /\ Kinds
    BY <1>2, StepKinds
  <2> DEFINE Goal ==
               /\ created' = created /\ path' <= created
               /\ \A c \in Conns : ino'[c] = ino[c] \/ ino'[c] = 1 \/ ino'[c] = path
  <2>2. Goal
    <3>1. CASE Quiet
      BY <1>0, <3>1 DEF Quiet, SameDisk
    <3>2. ASSUME NEW c \in Conns,
                 Refreshes(c) \/ Opens(c) \/ Writes(c) \/ Publish(c) \/ Rename(c)
          PROVE  Goal
      BY <1>0, <3>2 DEF Refreshes, Opens, OpenAgain, Writes, ApplyHere, Publish,
                   Rename, SameDisk, conn, disk
    <3>3. ASSUME NEW C \in SUBSET Conns, Stops(C)
          PROVE  Goal
      BY <1>0, <3>3 DEF Stops, SameDisk
    <3> QED
      BY <1>2, <2>1, <3>1, <3>2, <3>3 DEF Kinds
  <2> QED
    BY <1>0, <2>1, <2>2 DEF FilesCreated, TempKept
<1> QED
  BY <1>1, <1>2

LEMMA AppendFacts ==
    ASSUME NEW S, NEW s \in Seq(S), NEW m \in S
    PROVE  /\ Append(s, m) \in Seq(S) /\ Len(s) \in Nat
           /\ Len(Append(s, m)) = Len(s) + 1
           /\ Append(s, m)[Len(s) + 1] = m
           /\ \A i \in 1..Len(s) : Append(s, m)[i] = s[i]
OBVIOUS

\* A reference that did not change, to a file that only grew.
LEMMA IntactKept ==
    ASSUME TypeInv, NEW c \in Conns,
           ino'[c] = ino[c], view'[c] = view[c], addr'[c] = addr[c],
           \/ trees'[ino[c]] = trees[ino[c]]
           \/ \E m \in Maps : trees'[ino[c]] = Append(trees[ino[c]], m)
    PROVE  Intact(c)'
<1>1. /\ trees[ino[c]] \in Seq(Maps) /\ Intact(c) /\ addr[c] \in Nat \cup {Unstored}
  BY DEF TypeInv, TypeOK, SnapshotIntact, Intact
<1>2. /\ Len(trees[ino[c]]) <= Len(trees'[ino[c]])
      /\ \A a \in 1..Len(trees[ino[c]]) : trees'[ino[c]][a] = trees[ino[c]][a]
      /\ Len(trees[ino[c]]) \in Nat /\ Len(trees'[ino[c]]) \in Nat
  <2>1. CASE trees'[ino[c]] = trees[ino[c]]
    BY <1>1, <2>1
  <2>2. ASSUME NEW m \in Maps, trees'[ino[c]] = Append(trees[ino[c]], m)
        PROVE  <1>2
    BY <1>1, <2>2, AppendFacts
  <2> QED
    BY <2>1, <2>2
<1>3. SUFFICES ASSUME addr[c] # Unstored
               PROVE  /\ addr[c] \in 0..Len(trees'[ino[c]])
                      /\ view[c] = IF addr[c] = 0 THEN EmptyMap
                                   ELSE trees'[ino[c]][addr[c]]
  BY DEF Intact, Content
<1>4. /\ addr[c] \in 0..Len(trees[ino[c]])
      /\ view[c] = IF addr[c] = 0 THEN EmptyMap ELSE trees[ino[c]][addr[c]]
  BY <1>1, <1>3 DEF Intact, Content
<1> QED
  BY <1>2, <1>4

\* What a refresh makes of a reference.
LEMMA IntactRefreshed ==
    ASSUME TypeInv, NEW c \in Conns, Refresh(c), ino' = ino,
           trees'[ino[c]] = trees[ino[c]]
    PROVE  Intact(c)'
<1>1. /\ ino[c] \in Files /\ root[ino[c]] \in 0..Len(trees[ino[c]])
      /\ view \in [Conns -> Maps] /\ addr \in [Conns -> Nat \cup {Unstored}]
  BY DEF TypeInv, TypeOK, RootsStored
<1>2. view'[c] = Content(ino[c], root[ino[c]]) /\ addr'[c] = root[ino[c]]
  BY <1>1 DEF Refresh, Current
<1> QED
  BY <1>1, <1>2 DEF Intact, Content

LEMMA SnapshotStep ==
    ASSUME TypeInv, Next
    PROVE  RootsStored' /\ SnapshotIntact'
<1> DEFINE Goal == RootsStored' /\ SnapshotIntact'
<1>0. /\ ino \in [Conns -> Files] /\ view \in [Conns -> Maps]
      /\ addr \in [Conns -> Nat \cup {Unstored}] /\ trees \in [Files -> Seq(Maps)]
      /\ root \in [Files -> Nat] /\ RootsStored
  BY DEF TypeInv, TypeOK
<1>1. ASSUME NEW a, NEW b PROVE Content(a, 0) = EmptyMap /\ Content(a, 0)' = EmptyMap
  BY DEF Content
<1>2. ASSUME NEW c \in Conns,
             root' = root, trees' = trees,
             \A d \in Conns \ {c} : ino'[d] = ino[d] /\ view'[d] = view[d] /\ addr'[d] = addr[d],
             Intact(c)'
      PROVE  Goal
  <2>1. \A d \in Conns : Intact(d)'
    BY <1>2, IntactKept
  <2>2. SnapshotIntact'
    BY <2>1 DEF SnapshotIntact
  <2> QED
    BY <1>0, <1>2, <2>2 DEF RootsStored
<1>3. ASSUME Quiet PROVE Goal
  <2>1. SnapshotIntact'
    BY <1>3, IntactKept DEF Quiet, SameDisk, SnapshotIntact
  <2>2. RootsStored'
    BY <1>0, <1>3 DEF Quiet, SameDisk, RootsStored
  <2> QED
    BY <2>1, <2>2
<1>4. ASSUME NEW c \in Conns, Refreshes(c) PROVE Goal
  BY <1>0, <1>2, <1>4, IntactRefreshed DEF Refreshes, Refresh, SameDisk
<1>5. ASSUME NEW c \in Conns, Opens(c) PROVE Goal
  <2>1. Intact(c)'
    BY <1>0, <1>5 DEF Opens, OpenAgain, SameDisk, Intact, Content
  <2> QED
    BY <1>0, <1>2, <1>5, <2>1 DEF Opens, OpenAgain, SameDisk
<1>6. ASSUME NEW c \in Conns, Writes(c) PROVE Goal
  <2>1. Intact(c)'
    <3>1. PICK k \in Keys \cup {NoKey}, e \in Effect : ApplyHere(c, k, e)
      BY <1>6 DEF Writes
    <3>2. addr'[c] = Unstored \/ (addr'[c] = 0 /\ view'[c] = EmptyMap)
      <4> DEFINE m == [view[c] EXCEPT ![k] = ApplyTo(e, view[c][k])]
      <4>1. /\ view' = [view EXCEPT ![c] = m]
            /\ addr' = [addr EXCEPT ![c] = IF m = EmptyMap THEN 0 ELSE Unstored]
        BY <3>1 DEF ApplyHere
      <4> HIDE DEF m
      <4> QED
        BY <1>0, <4>1
    <3>3. 0 \in 0..Len(trees'[ino'[c]])
      <4>1. trees'[ino'[c]] = trees[ino[c]] /\ Len(trees[ino[c]]) \in Nat
        BY <1>0, <3>1 DEF ApplyHere, disk
      <4> QED
        BY <4>1
    <3> QED
      BY <3>2, <3>3 DEF Intact, Content
  <2> QED
    BY <1>0, <1>2, <1>6, <2>1 DEF Writes, ApplyHere, disk
<1>7. ASSUME NEW C \in SUBSET Conns, Stops(C) PROVE Goal
  <2>1. \A d \in C : Intact(d)'
    BY <1>0, <1>7 DEF Stops, SameDisk, Intact, Content
  <2>2. \A d \in Conns \ C : Intact(d)'
    BY <1>0, <1>7, IntactKept DEF Stops, SameDisk
  <2>3. SnapshotIntact'
    BY <2>1, <2>2 DEF SnapshotIntact
  <2> QED
    BY <1>0, <1>7, <2>3 DEF Stops, SameDisk, RootsStored
<1>8. ASSUME NEW c \in Conns, Rename(c) PROVE Goal
  <2>1. SnapshotIntact'
    BY <1>8, IntactKept DEF Rename, conn, SnapshotIntact
  <2> QED
    BY <1>0, <1>8, <2>1 DEF Rename, RootsStored
<1>9. ASSUME NEW c \in Conns, Publish(c) PROVE Goal
  <2> DEFINE f == ino[c]
  <2>1. PICK a \in AddressAfterStore(c) :
          /\ root' = [root EXCEPT ![f] = a]
          /\ addr' = [addr EXCEPT ![c] = a]
          /\ trees' = IF a \in 0..Len(trees[f]) THEN trees
                      ELSE [trees EXCEPT ![f] = Append(trees[f], view[c])]
    BY <1>9 DEF Publish
  <2>2. ino' = ino /\ view' = view
    BY <1>9 DEF Publish
  <2>3. /\ f \in Files /\ view[c] \in Maps /\ a \in Nat
        /\ a \in 0..Len(trees[f]) + 1
    BY <1>0, PublishType
  <2>4. \A g \in Files : \/ trees'[g] = trees[g]
                         \/ \E m \in Maps : trees'[g] = Append(trees[g], m)
    BY <1>0, <2>1, <2>3
  <2>5. /\ a \in 0..Len(trees'[f])
        /\ view[c] = IF a = 0 THEN EmptyMap ELSE trees'[f][a]
    <3>1. trees[f] \in Seq(Maps) /\ Intact(c)
      BY <1>0, <2>3 DEF TypeInv, SnapshotIntact, Intact
    <3>2. CASE addr[c] # Unstored
      <4>1. a = addr[c] /\ a \in 0..Len(trees[f]) /\ view[c] = Content(f, a)
        BY <3>1, <3>2 DEF AddressAfterStore, Intact
      <4>2. trees' = trees
        BY <2>1, <4>1
      <4> QED
        BY <4>1, <4>2 DEF Content
    <3>3. CASE addr[c] = Unstored /\ a \in 1..Len(trees[f])
      <4>1. trees[f][a] = view[c] /\ a # 0 /\ a \in 0..Len(trees[f])
        BY <3>1, <3>3 DEF AddressAfterStore
      <4>2. trees' = trees
        BY <2>1, <4>1
      <4> QED
        BY <4>1, <4>2 DEF Content
    <3>4. CASE addr[c] = Unstored /\ a \notin 1..Len(trees[f])
      <4>1. a = Len(trees[f]) + 1 /\ a \notin 0..Len(trees[f]) /\ a # 0
        BY <3>1, <3>4, AppendFacts DEF AddressAfterStore
      <4>2. trees'[f] = Append(trees[f], view[c])
        BY <1>0, <2>1, <2>3, <4>1
      <4> QED
        BY <2>3, <3>1, <4>1, <4>2, AppendFacts DEF Content
    <3> QED
      BY <3>2, <3>3, <3>4
  <2>6. RootsStored'
    <3>1. \A g \in Files : Len(trees[g]) <= Len(trees'[g]) /\ Len(trees'[g]) \in Nat
                           /\ Len(trees[g]) \in Nat
      <4>1. ASSUME NEW g \in Files
            PROVE  /\ Len(trees[g]) <= Len(trees'[g]) /\ Len(trees'[g]) \in Nat
                   /\ Len(trees[g]) \in Nat
        <5>1. trees[g] \in Seq(Maps)
          BY <1>0
        <5>2. CASE trees'[g] = trees[g]
          BY <5>1, <5>2
        <5>3. ASSUME NEW m \in Maps, trees'[g] = Append(trees[g], m)
              PROVE  <4>1!2
          BY <5>1, <5>3, AppendFacts
        <5> QED
          BY <2>4, <5>2, <5>3
      <4> QED
        BY <4>1
    <3> QED
      BY <1>0, <2>1, <2>3, <2>5, <3>1 DEF RootsStored
  <2>7. Intact(c)'
    BY <1>0, <2>1, <2>2, <2>3, <2>5 DEF Intact, Content
  <2>8. \A d \in Conns \ {c} : Intact(d)'
    BY <1>0, <2>1, <2>2, <2>4, IntactKept
  <2>9. SnapshotIntact'
    BY <2>7, <2>8 DEF SnapshotIntact
  <2> QED
    BY <2>6, <2>9
<1>10. ASSUME NEW c \in Conns, CopyItems(c) PROVE Goal
  <2> DEFINE n == created + 1
  <2>1. /\ trees' = [trees EXCEPT ![n] = IF view'[c] = EmptyMap THEN <<>> ELSE <<view'[c]>>]
        /\ root' = [root EXCEPT ![n] = IF view'[c] = EmptyMap THEN 0 ELSE 1]
        /\ ino' = ino
        /\ Refresh(c) \/ UNCHANGED <<view, addr, eff>>
    BY <1>10 DEF CopyItems, Copy, ItemsRefresh
  <2>2. \A d \in Conns : trees'[ino[d]] = trees[ino[d]]
    <3>1. \A d \in Conns : ino[d] # n /\ ino[d] \in Files
      BY DEF TypeInv, TypeOK, FilesCreated, Files
    <3> QED
      BY <1>0, <2>1, <3>1
  <2>3. RootsStored'
    BY <1>0, <2>1 DEF RootsStored
  <2>4. CASE Refresh(c)
    <3>1. Intact(c)'
      BY <2>1, <2>2, <2>4, IntactRefreshed
    <3>2. \A d \in Conns \ {c} : Intact(d)'
      BY <1>0, <2>1, <2>2, <2>4, IntactKept DEF Refresh
    <3>3. SnapshotIntact'
      BY <3>1, <3>2 DEF SnapshotIntact
    <3> QED
      BY <2>3, <3>3
  <2>5. CASE UNCHANGED <<view, addr, eff>>
    <3>1. SnapshotIntact'
      BY <2>1, <2>2, <2>5, IntactKept DEF SnapshotIntact
    <3> QED
      BY <2>3, <3>1
  <2> QED
    BY <2>1, <2>4, <2>5
<1>11. Kinds
  BY StepKinds
<1> HIDE DEF Goal
<1>12. ASSUME NEW c \in Conns,
              Refreshes(c) \/ Opens(c) \/ Writes(c) \/ Publish(c)
                \/ CopyItems(c) \/ Rename(c)
       PROVE  Goal
  BY <1>12, <1>4, <1>5, <1>6, <1>8, <1>9, <1>10
<1>13. Goal
  <2>1. CASE \E c \in Conns : Refreshes(c) \/ Opens(c) \/ Writes(c) \/ Publish(c)
                                \/ CopyItems(c) \/ Rename(c)
    BY <1>12, <2>1
  <2>2. CASE \E C \in SUBSET Conns : Stops(C)
    BY <1>7, <2>2
  <2> QED
    BY <1>3, <1>11, <2>1, <2>2 DEF Kinds
<1> QED
  BY <1>13 DEF Goal

LEMMA TypeInit == Init => TypeInv
<1> SUFFICES ASSUME Init PROVE TypeInv
  OBVIOUS
<1>1. 1 \in Files /\ \A f \in Files : f \in Nat
  BY FilesAssumption DEF Files
<1>2. NoFrame \in Frame /\ NoFrame.temp = 1
  BY FrameType DEF NoFrame
<1>3. /\ "closed" \in Labels /\ "idle" \in Targets
      /\ budget \in [Conns -> Nat]
  BY LabelTypes, BoundsAssumption DEF Init
<1>4. /\ <<>> \in Seq(Maps) /\ Len(<<>>) = 0
      /\ EmptyMap \in Maps /\ NoEffects \in [Keys -> Effect]
  BY EffectTypes
<1>5. TypeOK
  BY <1>1, <1>2, <1>3, <1>4 DEF Init, TypeOK
<1>6. FilesCreated
  BY <1>1, <1>2 DEF Init, FilesCreated
<1>7. RootsStored
  BY <1>4 DEF Init, RootsStored
<1>8. SnapshotIntact
  BY <1>1, <1>4 DEF Init, SnapshotIntact, Intact, Content
<1> QED
  BY <1>5, <1>6, <1>7, <1>8 DEF TypeInv

LEMMA TypeInvStep == TypeInv /\ [Next]_vars => TypeInv'
<1>1. ASSUME TypeInv, Next PROVE TypeInv'
  BY <1>1, TypeStep, FilesStep, SnapshotStep DEF TypeInv
<1>2. ASSUME TypeInv, UNCHANGED vars PROVE TypeInv'
  BY <1>2 DEF vars, disk, conn, ctrl, history, TypeInv, TypeOK, FilesCreated,
              RootsStored, SnapshotIntact, Intact, Content
<1> QED
  BY <1>1, <1>2

\* The model's state has its types, for every choice of the constants.
THEOREM TypeCorrect == Spec => []TypeOK
<1>1. TypeInv => TypeOK
  BY DEF TypeInv
<1> QED
  BY <1>1, TypeInit, TypeInvStep, PTL DEF Spec

\* Append-only storage gives snapshots: whatever the connections do, commits,
\* crashes and compactions included, a tree read from the file stays what it
\* was, and so every get and every scan of a reader is of one committed state.
THEOREM SnapshotsIntact == Spec => []SnapshotIntact
<1>1. TypeInv => SnapshotIntact
  BY DEF TypeInv
<1> QED
  BY <1>1, TypeInit, TypeInvStep, PTL DEF Spec

(***************************************************************************)
(* Mutual exclusion.  LockExclusion is inductive once waiting for the file *)
(* lock counts as holding the thread lock.                                 *)
(***************************************************************************)
LockInv ==
    \A c, d \in Conns :
        c # d =>
        /\ HoldsThread(c) /\ HoldsThread(d) => Proc[c] # Proc[d]
        /\ locked[c] /\ locked[d] => ino[c] # ino[d]

LEMMA LockStep ==
    ASSUME TypeInv, LockInv, Next
    PROVE  LockInv'
<1>0. /\ pc \in [Conns -> Labels] /\ locked \in [Conns -> BOOLEAN]
      /\ "flock" # "lock" /\ \A c \in Conns : cont[c] # "flock"
  BY DEF TypeInv, TypeOK, Targets
<1>1. CASE HeldKept
  BY <1>1 DEF LockInv, HeldKept, HoldsThread
<1>2. ASSUME NEW c \in Conns, AcquireThread(c) PROVE LockInv'
  <2>1. /\ pc' = [pc EXCEPT ![c] = "flock"] /\ locked' = locked /\ ino' = ino
        /\ ThreadFree(c)
    BY <1>2 DEF AcquireThread, Goto, ThenGo, conn
  <2> QED
    BY <1>0, <2>1 DEF LockInv, HoldsThread, ThreadFree
<1>3. ASSUME NEW c \in Conns, AcquireFile(c) PROVE LockInv'
  <2>1. /\ pc' = [pc EXCEPT ![c] = cont[c]] /\ ino' = ino
        /\ locked' = [locked EXCEPT ![c] = TRUE]
        /\ pc[c] = "flock" /\ FileFree(c)
    BY <1>3 DEF AcquireFile, Goto, ThenGo
  <2>2. \A d \in Conns : HoldsThread(d)' => HoldsThread(d)
    BY <1>0, <2>1 DEF HoldsThread
  <2>3. ASSUME NEW d \in Conns, d # c, locked[d], ino[d] = ino[c] PROVE FALSE
    BY <2>1, <2>3 DEF LockInv, HoldsThread, FileFree
  <2> QED
    BY <1>0, <2>1, <2>2, <2>3 DEF LockInv
<1> QED
  BY <1>1, <1>2, <1>3, StepKinds

\* The write lock excludes, across threads and across processes.
THEOREM WritersExclude == Spec => []LockExclusion
<1>1. Init => LockInv
  BY DEF Init, LockInv, HoldsThread
<1>2. TypeInv /\ LockInv /\ [Next]_vars => LockInv'
  <2>1. ASSUME LockInv, UNCHANGED vars PROVE LockInv'
    BY <2>1 DEF vars, conn, ctrl, LockInv, HoldsThread
  <2> QED
    BY <2>1, LockStep
<1>3. LockInv => LockExclusion
  BY DEF LockInv, LockExclusion, HoldsThread
<1> QED
  BY <1>1, <1>2, <1>3, TypeInit, TypeInvStep, PTL DEF Spec
=============================================================================
