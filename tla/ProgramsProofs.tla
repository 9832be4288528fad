--------------------------- MODULE ProgramsProofs ---------------------------
(***************************************************************************)
(* Proofs about the programs of the repository, for every number of        *)
(* threads and processes that run side by side.                            *)
(***************************************************************************)
EXTENDS AtomicProofs, Programs, FiniteSetTheorems

USE MixesAssumption

(***************************************************************************)
(* The programs are clients of the connections.                            *)
(***************************************************************************)

\* What is run is chosen once; how it has gone is known of each program.
Chosen == program \in Mixes /\ outcome \in [Running -> Outcomes]

LEMMA ChosenFacts ==
    ASSUME Chosen
    PROVE  /\ Running \subseteq Conns /\ IsFiniteSet(Running)
           /\ \A c \in Running :
                /\ program[c].name \in ProgramNames /\ program[c].key \in Keys
                /\ program[c].val \in 1..MaxVal
BY DEF Chosen, Running

\* The kinds of steps: a late creator, or a program that finds no file, changes
\* nothing of what the programs have done.
LEMMA StepCases ==
    ASSUME [PNext]_pvars
    PROVE  \/ \E c \in Running : Move(c)
           \/ \E p \in {Proc[c] : c \in Running} : Killed(p)
           \/ UNCHANGED work
<1>1. ASSUME NEW c \in Running, Goes(c) PROVE Move(c) \/ UNCHANGED work
  BY <1>1 DEF Goes, Misses, Empties, work
<1>2. UNCHANGED pvars => UNCHANGED work
  BY DEF pvars
<1> QED
  BY <1>1, <1>2 DEF PNext, AllEnded, FollowedNoMore

LEMMA ClientStep ==
    ASSUME Chosen, [PNext]_pvars
    PROVE  [Next]_vars /\ program' = program /\ Chosen'
<1> USE DEF Chosen, Running, Outcomes
<1>1. ASSUME NEW c \in Running, Move(c) PROVE Next /\ program' = program /\ Chosen'
  <2>1. c \in Conns
    BY ChosenFacts
  <2>2. Begin(c) \/ Close(c) \/ Step(c)
    BY <1>1 DEF Move, NextCall, Work, Finish
  <2>3. program' = program /\ Chosen'
    BY <1>1 DEF Move, NextCall, Work, Finish
  <2> QED
    BY <2>1, <2>2, <2>3 DEF Next
<1>2. ASSUME NEW p \in {Proc[c] : c \in Running}, Killed(p)
      PROVE  Next /\ program' = program /\ Chosen'
  BY <1>2, ChosenFacts DEF Killed, Next
<1>3. CASE UNCHANGED work
  BY <1>3 DEF work
<1> QED
  BY <1>1, <1>2, <1>3, StepCases

LEMMA ChosenInit == PInit => Chosen
BY DEF PInit, Chosen, Outcomes, Running

\* Whatever is proved of every client of the connections holds of the programs:
\* they exclude one another, and their optimistic updates are validated, until a
\* late creator has emptied the file.
THEOREM ProgramsAreClients == PSpec => Spec
<1>1. Chosen /\ [PNext]_pvars => Chosen' /\ [Next]_vars
  BY ClientStep
<1> QED
  BY <1>1, ChosenInit, PTL DEF PSpec, PInit, Spec

(***************************************************************************)
(* The scripts of the programs that neither compact nor commit what they   *)
(* have not written.                                                       *)
(***************************************************************************)
TameNames == ProgramNames \ {"commit", "bloated"}

Tame == \A c \in Running : program[c].name \in TameNames

\* A call of a program after it has connected.
InScript(call) == call.name \in {"get", "set", "del", "update", "optimistic", "commit"}

ScriptFacts(p) ==
    LET s == Script(p)
        n == Len(s)
    IN
    /\ n \in Nat /\ n > 0 /\ s[1] = Opening
    /\ \A i \in 2..n :
          /\ InScript(s[i])
          /\ s[i].name # "commit" => s[i].key = p.key
          /\ s[i].name = "set" => s[i].val = p.val
          /\ s[i].name = "commit" => i > 2 /\ s[i - 1].name \in {"set", "del"}
          /\ p.name \in ReadingNames => s[i].name = "get"
          /\ p.name \in {"set", "delete"} => i \in {2, 3} /\ (i = 3 <=> s[i].name = "commit")
          /\ p.name = "set" => s[i].name \in {"set", "commit"}
          /\ p.name = "delete" => s[i].name \in {"del", "commit"}
          /\ p.name \in {"locked", "hopeful"} =>
                i = 2 /\ s[i].name \in {"update", "optimistic"}
          /\ p.name = "main" => i = 2
    /\ p.name \in {"locked", "hopeful", "main"} => n = 2
    /\ p.name \in {"set", "delete"} => n = 3

LEMMA Scripts ==
    ASSUME NEW p, p.name \in TameNames
    PROVE  ScriptFacts(p)
<1> USE DEF ScriptFacts, InScript, Script, Opening, Call, Get, SetIt, Saving, ReadingNames
<1>1. CASE p.name = "usage"
  <2>1. Commands(p) = <<>>
    BY <1>1 DEF Commands, ToolCommands
  <2>2. Len(Script(p)) = 1 /\ Script(p)[1] = Opening
    BY <2>1
  <2> QED
    BY <1>1, <2>2
<1>2. CASE p.name = "get"
  <2>1. Commands(p) = <<Get(p.key)>>
    BY <1>2 DEF Commands, ToolCommands
  <2>2. /\ Len(Script(p)) = 2 /\ Script(p)[1] = Opening /\ Script(p)[2] = Get(p.key)
    BY <2>1
  <2> QED
    BY <1>2, <2>2
<1>3. CASE p.name = "set"
  <2>1. Commands(p) = <<SetIt(p.key, p.val), Saving>>
    BY <1>3 DEF Commands, ToolCommands
  <2>2. /\ Len(Script(p)) = 3 /\ Script(p)[1] = Opening
        /\ Script(p)[2] = SetIt(p.key, p.val) /\ Script(p)[3] = Saving
    BY <2>1
  <2> QED
    BY <1>3, <2>2
<1>4. CASE p.name = "delete"
  <2>1. Commands(p) = <<Call("del", p.key, 0), Saving>>
    BY <1>4 DEF Commands, ToolCommands
  <2>2. /\ Len(Script(p)) = 3 /\ Script(p)[1] = Opening
        /\ Script(p)[2] = Call("del", p.key, 0) /\ Script(p)[3] = Saving
    BY <2>1
  <2> QED
    BY <1>4, <2>2
<1>5. CASE p.name = "locked"
  <2>1. Commands(p) = <<Call("update", p.key, 0)>>
    BY <1>5 DEF Commands, UpdateWorkers
  <2>2. /\ Len(Script(p)) = 2 /\ Script(p)[1] = Opening
        /\ Script(p)[2] = Call("update", p.key, 0)
    BY <2>1
  <2> QED
    BY <1>5, <2>2
<1>6. CASE p.name = "hopeful"
  <2>1. Commands(p) = <<Call("optimistic", p.key, 0)>>
    BY <1>6 DEF Commands, UpdateWorkers
  <2>2. /\ Len(Script(p)) = 2 /\ Script(p)[1] = Opening
        /\ Script(p)[2] = Call("optimistic", p.key, 0)
    BY <2>1
  <2> QED
    BY <1>6, <2>2
<1>7. CASE p.name = "reader"
  <2>1. Commands(p) = <<Get(p.key), Get(p.key)>>
    BY <1>7 DEF Commands, UpdateWorkers
  <2>2. /\ Len(Script(p)) = 3 /\ Script(p)[1] = Opening
        /\ Script(p)[2] = Get(p.key) /\ Script(p)[3] = Get(p.key)
    BY <2>1
  <2> QED
    BY <1>7, <2>2
<1>8. CASE p.name = "main"
  <2>1. Commands(p) = <<Get(p.key)>>
    BY <1>8 DEF Commands, UpdateWorkers
  <2>2. /\ Len(Script(p)) = 2 /\ Script(p)[1] = Opening /\ Script(p)[2] = Get(p.key)
    BY <2>1
  <2> QED
    BY <1>8, <2>2
<1>9. CASE p.name = "general"
  <2>1. Commands(p) = General(p.key, p.val)
    BY <1>9 DEF Commands
  <2>2. /\ Len(Script(p)) = 6 /\ Script(p)[1] = Opening
        /\ Script(p)[2] = SetIt(p.key, p.val) /\ Script(p)[3] = Saving
        /\ Script(p)[4] = SetIt(p.key, p.val) /\ Script(p)[5] = Saving
        /\ Script(p)[6] = Get(p.key)
    BY <2>1 DEF General, WriteAll, ReadAll
  <2>3. \A i \in 2..6 : i = 2 \/ i = 3 \/ i = 4 \/ i = 5 \/ i = 6
    OBVIOUS
  <2> QED
    BY <1>9, <2>2, <2>3
<1> QED
  BY <1>1, <1>2, <1>3, <1>4, <1>5, <1>6, <1>7, <1>8, <1>9 DEF TameNames, ProgramNames

(***************************************************************************)
(* The way of a call through its steps, with a single file.                *)
(***************************************************************************)
InCall(c) == pc[c] \notin {"idle", "closed"}

\* Where a reopen or a lock leads in a call that works under the lock.
Reopens(c, next) == pc[c] = "reopen" /\ cont[c] = next
Awaits(c, next) == pc[c] \in {"lock", "flock"} /\ cont[c] = next

OnItsWay(c) ==
    LET n == frame[c].name IN
    InCall(c) =>
      \/ n = "connect" /\ pc[c] = "super" /\ cont[c] = "settype"
      \/ n = "connect" /\ pc[c] \in {"settype", "init"} /\ cont[c] = "idle"
      \/ n = "get" /\ (Reopens(c, "read") \/ pc[c] = "read")
      \/ /\ n \in {"set", "del", "update"}
         /\ \/ Reopens(c, "prelock") \/ Awaits(c, "recheck")
            \/ pc[c] \in {"prelock", "recheck", "body"}
      \/ /\ n = "optimistic"
         /\ \/ Reopens(c, "snap") \/ Awaits(c, "validate")
            \/ pc[c] \in {"snap", "validate"}
      \/ n \in {"commit", "update", "optimistic"} /\ pc[c] = "publish"

SameCall(c) ==
    /\ frame'[c].name = frame[c].name /\ frame'[c].key = frame[c].key
    /\ frame'[c].val = frame[c].val

\* The steps that return.
Returns(c) ==
    \/ InitTree(c) \/ Read(c) \/ Set(c) \/ Del(c) \/ DelMissing(c) \/ Publish(c)
    \/ ValidateFails(c) /\ frame[c].tries = 1

LEMMA SameHere ==
    ASSUME TypeInv, NEW c \in Conns
    PROVE  /\ frame' = frame => SameCall(c)
           /\ \A x : frame' = [frame EXCEPT ![c].snap = x] => SameCall(c)
           /\ \A x : frame' = [frame EXCEPT ![c].tries = x] => SameCall(c)
           /\ \A x : frame' = [frame EXCEPT ![c].temp = x] => SameCall(c)
<1>1. frame \in [Conns -> Frame] /\ frame[c] \in Frame
  BY DEF TypeInv, TypeOK
<1>2. ASSUME NEW x, frame' = [frame EXCEPT ![c].snap = x] PROVE SameCall(c)
  <2> DEFINE s == [frame[c] EXCEPT !.snap = x]
  <2>1. s.name = frame[c].name /\ s.key = frame[c].key /\ s.val = frame[c].val
    BY <1>1 DEF Frame
  <2>2. frame' = [frame EXCEPT ![c] = s]
    BY <1>2
  <2> HIDE DEF s
  <2>3. frame'[c] = s
    BY <1>1, <2>2
  <2> QED
    BY <2>1, <2>3 DEF SameCall
<1>3. ASSUME NEW x, frame' = [frame EXCEPT ![c].tries = x] PROVE SameCall(c)
  <2> DEFINE s == [frame[c] EXCEPT !.tries = x]
  <2>1. s.name = frame[c].name /\ s.key = frame[c].key /\ s.val = frame[c].val
    BY <1>1 DEF Frame
  <2>2. frame' = [frame EXCEPT ![c] = s]
    BY <1>3
  <2> HIDE DEF s
  <2>3. frame'[c] = s
    BY <1>1, <2>2
  <2> QED
    BY <2>1, <2>3 DEF SameCall
<1>4. ASSUME NEW x, frame' = [frame EXCEPT ![c].temp = x] PROVE SameCall(c)
  <2> DEFINE s == [frame[c] EXCEPT !.temp = x]
  <2>1. s.name = frame[c].name /\ s.key = frame[c].key /\ s.val = frame[c].val
    BY <1>1 DEF Frame
  <2>2. frame' = [frame EXCEPT ![c] = s]
    BY <1>4
  <2> HIDE DEF s
  <2>3. frame'[c] = s
    BY <1>1, <2>2
  <2> QED
    BY <2>1, <2>3 DEF SameCall
<1> QED
  BY <1>2, <1>3, <1>4 DEF SameCall

LEMMA ReturnsIdle ==
    ASSUME TypeInv, NEW c \in Conns, Returns(c), InitTree(c) => cont[c] = "idle"
    PROVE  InCall(c) /\ pc'[c] = "idle" /\ budget' = budget
<1> USE DEF InCall
<1>1. CASE InitTree(c)
  BY <1>1, ReturnHere DEF InitTree
<1>2. CASE ValidateFails(c) /\ frame[c].tries = 1
  BY <1>2, ReturnHere DEF ValidateFails
<1>3. CASE Read(c) \/ DelMissing(c) \/ Publish(c)
  BY <1>3, ReturnHere DEF Read, DelMissing, Publish
<1>4. CASE Set(c) \/ Del(c)
  BY <1>4, ReturnHere DEF Set, Del, ApplyHere
<1> QED
  BY <1>1, <1>2, <1>3, <1>4 DEF Returns

LEMMA WayMoves ==
    ASSUME Safe(TRUE), NEW c \in Conns, Step(c), OnItsWay(c)
    PROVE  /\ InCall(c) /\ pc'[c] # "closed" /\ budget' = budget
           /\ OnItsWay(c)'
           /\ (pc'[c] = "idle" /\ Returns(c)) \/ (InCall(c)' /\ SameCall(c))
           /\ pc'[c] = "publish" => Update(c) \/ ValidateOK(c)
<1> USE DEF OnItsWay, InCall, Reopens, Awaits
<1>0. /\ pc \in [Conns -> Labels] /\ cont \in [Conns -> Targets]
      /\ frame \in [Conns -> Frame] /\ locked \in [Conns -> BOOLEAN]
      /\ TypeInv /\ ino[c] = path /\ ~BodyUnlocked(c)
      /\ pc[c] \in {"publish", "recheck", "validate"} => locked[c]
  BY DEF Safe, OneFile, TypeInv, TypeOK, ControlInv, Flow, LockFits
<1>1. CASE ReopenNot(c)
  BY <1>0, <1>1, GotoHere, SameHere DEF ReopenNot, SameCall
<1>2. CASE Reopen(c)
  BY <1>0, <1>2 DEF Reopen, Replaced
<1>3. CASE EnsureSuperblock(c)
  BY <1>0, <1>3, GotoHere, ThenGoHere, SameHere DEF EnsureSuperblock, SameCall
<1>4. CASE SetTreeType(c)
  BY <1>0, <1>4, GotoHere, SameHere DEF SetTreeType, SameCall
<1>5. CASE Returns(c)
  <2>1. InitTree(c) => pc[c] = "init"
    BY DEF InitTree
  <2>2. pc[c] = "init" => cont[c] = "idle"
    OBVIOUS
  <2> QED
    BY <1>0, <1>5, <2>1, <2>2, ReturnsIdle
<1>6. CASE PrepareLock(c)
  BY <1>0, <1>6, GotoHere, ThenGoHere, SameHere DEF PrepareLock, SameCall
<1>7. CASE AcquireThread(c)
  BY <1>0, <1>7, GotoHere, SameHere DEF AcquireThread, SameCall
<1>8. CASE AcquireFile(c)
  BY <1>0, <1>8, GotoHere, SameHere DEF AcquireFile, SameCall
<1>9. CASE RecheckFresh(c)
  BY <1>0, <1>9, GotoHere, SameHere DEF RecheckFresh, SameCall
<1>10. CASE RecheckReplaced(c)
  BY <1>0, <1>10 DEF RecheckReplaced, Replaced
<1>12. CASE Scan(c)
  BY <1>0, <1>12 DEF Scan
<1>16. CASE Update(c)
  <2>1. /\ pc[c] = "body" /\ frame[c].name = "update" /\ frame' = frame
        /\ budget' = budget /\ TakeLock(c, "publish")
    BY <1>16 DEF Update, ApplyHere
  <2>2. locked[c]
    BY <1>0, <2>1 DEF BodyUnlocked
  <2> QED
    BY <1>0, <1>16, <2>1, <2>2, TakeLockHere, SameHere DEF SameCall
<1>17. CASE UpdateRaises(c)
  BY <1>0, <1>17 DEF UpdateRaises
<1>19. CASE Snapshot(c)
  BY <1>0, <1>19, TakeLockHere, SameHere DEF Snapshot, SnapshotRoot, SameCall
<1>20. CASE ValidateOK(c)
  <2>1. /\ pc[c] = "validate" /\ frame' = frame /\ budget' = budget /\ Goto(c, "publish")
    BY <1>20 DEF ValidateOK, ApplyHere
  <2> QED
    BY <1>0, <1>20, <2>1, GotoHere, SameHere DEF SameCall
<1>21. CASE ValidateFails(c)
  <2>1. CASE frame[c].tries = 1
    BY <1>21, <1>5, <2>1 DEF Returns
  <2>2. CASE frame[c].tries # 1
    <3>1. /\ pc[c] = "validate" /\ budget' = budget /\ ThenGo(c, "reopen", "snap")
          /\ frame' = [frame EXCEPT ![c].tries = frame[c].tries - 1]
      BY <1>21, <2>2 DEF ValidateFails
    <3>2. SameCall(c)
      BY <1>0, <3>1, SameHere
    <3> QED
      BY <1>0, <3>1, <3>2, ThenGoHere DEF SameCall
  <2> QED
    BY <2>1, <2>2
<1>22. CASE Compact(c)
  BY <1>0, <1>22 DEF Compact, CopyItems, Copy, Rename, Swap
<1> QED
  BY <1>1, <1>2, <1>3, <1>4, <1>5, <1>6, <1>7, <1>8, <1>9, <1>10, <1>12, <1>16,
     <1>17, <1>19, <1>20, <1>21, <1>22
     DEF Step, Open, Lock, Body, Returns

\* The first step of a call.
LEMMA CountHere ==
    ASSUME TypeInv, NEW c \in Conns, NEW name, NEW k, NEW v, Calling(c, name, k, v)
    PROVE  /\ budget[c] > 0 /\ budget' = [budget EXCEPT ![c] = budget[c] - 1]
           /\ pc[c] = IF name = "connect" THEN "closed" ELSE "idle"
           /\ frame'[c].name = name
BY CallingHere DEF Calling

LEMMA BeginFacts ==
    ASSUME TypeInv, NEW c \in Conns, Begin(c)
    PROVE  /\ budget[c] > 0 /\ budget' = [budget EXCEPT ![c] = budget[c] - 1]
           /\ pc[c] = IF frame'[c].name = "connect" THEN "closed" ELSE "idle"
           /\ InCall(c)' /\ (pc'[c] = "publish" => frame'[c].name = "commit")
           /\ frame'[c].name # "connect" => UNCHANGED conn /\ UNCHANGED history
           /\ /\ frame'[c].name \notin {"items", "keys", "updateRaise", "compact"}
              /\ frame'[c].name = "commit" => locked[c]
              => OnItsWay(c)'
<1> USE DEF OnItsWay, InCall, Reopens, Awaits
<1>0. pc \in [Conns -> Labels] /\ cont \in [Conns -> Targets]
  BY DEF TypeInv, TypeOK
<1>1. CASE StartRead(c)
  <2>1. UNCHANGED conn /\ UNCHANGED history
    BY <1>1 DEF StartRead
  <2>2. ASSUME NEW k \in Keys, Calling(c, "get", k, 0), ThenGo(c, "reopen", "read")
        PROVE  /\ pc'[c] = "reopen" /\ cont'[c] = "read" /\ frame'[c].name = "get"
    BY <2>2, <1>0, CountHere, ThenGoHere
  <2>3. ASSUME Calling(c, "items", NoKey, 0), ThenGo(c, "reopen", "scan")
        PROVE  pc'[c] = "reopen" /\ frame'[c].name = "items"
    BY <2>3, <1>0, CountHere, ThenGoHere
  <2>4. ASSUME Calling(c, "keys", NoKey, 0), Goto(c, "scan")
        PROVE  pc'[c] = "scan" /\ frame'[c].name = "keys"
    BY <2>4, <1>0, CountHere, GotoHere
  <2> QED
    BY <1>1, <2>1, <2>2, <2>3, <2>4, CountHere DEF StartRead
<1>2. CASE StartWrite(c)
  <2>1. PICK k \in Keys :
           \/ \E v \in 1..MaxVal : Calling(c, "set", k, v)
           \/ \E name \in {"del", "update", "updateRaise"} : Calling(c, name, k, 0)
    BY <1>2 DEF StartWrite
  <2>2. \E name \in {"set", "del", "update", "updateRaise"}, v \in 0..MaxVal :
          Calling(c, name, k, v)
    BY <2>1, BoundsAssumption
  <2>3. PICK name \in {"set", "del", "update", "updateRaise"} :
          \E v \in 0..MaxVal : Calling(c, name, k, v)
    BY <2>2
  <2>4. PICK v \in 0..MaxVal : Calling(c, name, k, v)
    BY <2>3
  <2>5. UNCHANGED conn /\ UNCHANGED history /\ pc'[c] = "reopen" /\ cont'[c] = "prelock"
    BY <1>2, <1>0, ThenGoHere DEF StartWrite
  <2> QED
    BY <2>4, <2>5, CountHere
<1>3. CASE StartOptimistic(c)
  <2>1. PICK k \in Keys : Calling(c, "optimistic", k, 0)
    BY <1>3 DEF StartOptimistic
  <2>2. UNCHANGED conn /\ UNCHANGED history /\ pc'[c] = "reopen" /\ cont'[c] = "snap"
    BY <1>3, <1>0, ThenGoHere DEF StartOptimistic
  <2> QED
    BY <2>1, <2>2, CountHere
<1>4. CASE StartCommit(c)
  <2>1. UNCHANGED conn /\ UNCHANGED history /\ pc'[c] = IF locked[c] THEN "publish" ELSE "lock"
    BY <1>4, <1>0, TakeLockHere DEF StartCommit
  <2>2. Calling(c, "commit", NoKey, 0)
    BY <1>4 DEF StartCommit
  <2> QED
    BY <2>1, <2>2, CountHere
<1>5. CASE StartCompact(c)
  <2>1. UNCHANGED conn /\ UNCHANGED history /\ pc'[c] = IF locked[c] THEN "items" ELSE "lock"
    BY <1>5, <1>0, TakeLockHere DEF StartCompact
  <2>2. Calling(c, "compact", NoKey, 0)
    BY <1>5 DEF StartCompact
  <2> QED
    BY <2>1, <2>2, CountHere
<1>6. CASE Connect(c)
  <2>1. pc'[c] = "super" /\ cont'[c] = "settype" /\ Calling(c, "connect", NoKey, 0)
    BY <1>6, <1>0, ThenGoHere DEF Connect
  <2> QED
    BY <2>1, CountHere
<1> QED
  BY <1>1, <1>2, <1>3, <1>4, <1>5, <1>6 DEF Begin

\* Only calls are counted.
LEMMA BudgetMoves ==
    ASSUME NEW c \in Conns, Moves(c)
    PROVE  Begin(c) \/ budget' = budget
<1>1. CASE Close(c) \/ CompactFails(c)
  BY <1>1 DEF Close, CompactFails
<1>2. CASE Open(c)
  BY <1>2 DEF Open, ReopenNot, Reopen, EnsureSuperblock, SetTreeType, InitTree
<1>3. CASE Lock(c)
  BY <1>3 DEF Lock, PrepareLock, AcquireThread, AcquireFile, RecheckFresh, RecheckReplaced
<1>4. CASE Body(c)
  BY <1>4 DEF Body, Read, Scan, Set, Del, DelMissing, Update, UpdateRaises, Publish,
              Snapshot, SnapshotRoot, ValidateOK, ValidateFails, ApplyHere
<1>5. CASE Compact(c)
  BY <1>5 DEF Compact, CopyItems, Copy, Rename, Swap
<1> QED
  BY <1>1, <1>2, <1>3, <1>4, <1>5 DEF Moves, Step

(***************************************************************************)
(* Where a program is in its script.                                       *)
(***************************************************************************)
At(c) == Script(program[c])[Made(c)]

Scripted(c) ==
    /\ Made(c) \in 0..Len(Script(program[c]))
    /\ InCall(c) =>
          /\ Made(c) > 0 /\ outcome[c] = "ok"
          /\ frame[c].name = At(c).name /\ frame[c].key = At(c).key
          /\ frame[c].val = At(c).val
          /\ OnItsWay(c)
    /\ pc[c] = "idle" => Made(c) > 0
    /\ pc[c] = "idle" /\ outcome[c] = "ok" /\ At(c).name \in {"set", "del"} => locked[c]
    /\ outcome[c] = "killed" => pc[c] = "closed"
    /\ pc[c] = "closed" /\ Made(c) > 0 /\ outcome[c] = "ok" =>
          Made(c) = Len(Script(program[c]))

\* A call that begins is the next of the script.
LEMMA CallFacts ==
    ASSUME Chosen, TypeInv, Tame, NEW c \in Running, Scripted(c), NextCall(c)
    PROVE  /\ outcome[c] = "ok" /\ program' = program /\ outcome' = outcome /\ reported' = reported
           /\ Begin(c) /\ c \in Conns
           /\ Made(c) \in Nat /\ Made(c)' = Made(c) + 1
           /\ Made(c) + 1 \in 1..Len(Script(program[c]))
           /\ LET call == Script(program[c])[Made(c) + 1] IN
                /\ At(c)' = call
                /\ frame'[c].name = call.name /\ frame'[c].key = call.key
                /\ frame'[c].val = call.val
                /\ call.name = "connect" <=> Made(c) = 0
                /\ Made(c) > 0 => InScript(call)
                /\ call.name = "commit" => locked[c]
           /\ ScriptFacts(program[c])
           /\ Made(c) = 0 <=> pc[c] = "closed"
           /\ OnItsWay(c)' /\ InCall(c)'
           /\ Made(c) > 0 => UNCHANGED conn /\ UNCHANGED history
<1> DEFINE s == Script(program[c])
           n == Made(c)
           call == s[n + 1]
<1>1. /\ c \in Conns /\ budget \in [Conns -> Nat] /\ MaxCalls \in [Conns -> Nat]
      /\ ScriptFacts(program[c])
  <2>1. c \in Conns
    BY ChosenFacts
  <2>2. budget \in [Conns -> Nat] /\ MaxCalls \in [Conns -> Nat]
    BY BoundsAssumption DEF TypeInv, TypeOK
  <2>3. program[c].name \in TameNames
    BY DEF Tame
  <2>4. ScriptFacts(program[c])
    BY <2>3, Scripts
  <2> QED
    BY <2>1, <2>2, <2>4
<1>2. /\ outcome[c] = "ok" /\ n < Len(s) /\ n \in 0..Len(s) /\ Len(s) \in Nat /\ Begin(c)
      /\ frame'[c].name = call.name /\ frame'[c].key = call.key
      /\ frame'[c].val = call.val
      /\ program' = program /\ outcome' = outcome /\ reported' = reported
  <2>1. n \in 0..Len(s)
    BY DEF Scripted
  <2>2. Len(s) \in Nat
    BY <1>1 DEF ScriptFacts
  <2> QED
    BY <2>1, <2>2 DEF NextCall
<1>3. Made(c)' = n + 1 /\ n \in Nat /\ n + 1 \in 1..Len(s)
  BY <1>1, <1>2, BeginFacts DEF Made
<1>4. At(c)' = call
  BY <1>2, <1>3 DEF At
<1>5. /\ n = 0 => call.name = "connect"
      /\ n > 0 => InScript(call) /\ n + 1 \in 2..Len(s)
  BY <1>1, <1>2, <1>3 DEF ScriptFacts, Opening, Call
<1>6. call.name = "connect" <=> n = 0
  BY <1>3, <1>5 DEF InScript
<1>7. n = 0 <=> pc[c] = "closed"
  BY <1>1, <1>2, <1>6, BeginFacts
<1>8. call.name = "commit" => locked[c]
  <2> SUFFICES ASSUME call.name = "commit" PROVE locked[c]
    OBVIOUS
  <2>1. n > 0 /\ n + 1 \in 2..Len(s)
    BY <1>3, <1>5
  <2>2. s[(n + 1) - 1].name \in {"set", "del"}
    BY <1>1, <2>1 DEF ScriptFacts
  <2>3. (n + 1) - 1 = n
    BY <1>3
  <2>4. At(c).name \in {"set", "del"}
    BY <2>2, <2>3 DEF At
  <2>5. pc[c] = "idle"
    BY <1>1, <1>2, BeginFacts
  <2> QED
    BY <1>2, <2>4, <2>5 DEF Scripted
<1>9. call.name \in {"connect", "get", "set", "del", "update", "optimistic", "commit"}
  BY <1>3, <1>5 DEF InScript
<1>10. OnItsWay(c)' /\ InCall(c)' /\ (n > 0 => UNCHANGED conn /\ UNCHANGED history)
  <2> DEFINE name == call.name
  <2>1. /\ name \in {"connect", "get", "set", "del", "update", "optimistic", "commit"}
        /\ name = "commit" => locked[c]
        /\ name = "connect" <=> n = 0
        /\ frame'[c].name = name
    BY <1>2, <1>6, <1>8, <1>9
  <2> HIDE DEF name
  <2>2. OnItsWay(c)' /\ InCall(c)'
    BY <1>1, <1>2, <2>1, BeginFacts
  <2>3. name # "connect" => UNCHANGED conn /\ UNCHANGED history
    BY <1>1, <1>2, <2>1, BeginFacts
  <2>4. n > 0 => name # "connect"
    BY <2>1
  <2> QED
    BY <2>2, <2>3, <2>4
<1> QED
  BY <1>1, <1>2, <1>3, <1>4, <1>5, <1>6, <1>7, <1>8, <1>10

\* A call that is about to raise returns.
LEMMA RaisingReturns ==
    ASSUME TypeInv, NEW c \in Conns, Step(c), Raising(c)
    PROVE  pc'[c] = "idle"
<1>1. ~Open(c) /\ ~Lock(c) /\ ~Compact(c)
  BY DEF Raising, Open, ReopenNot, Reopen, EnsureSuperblock, SetTreeType, InitTree,
         Lock, PrepareLock, AcquireThread, AcquireFile, RecheckFresh, RecheckReplaced,
         Compact, CopyItems, Copy, Rename, Swap
<1>2. Read(c) \/ DelMissing(c) \/ (ValidateFails(c) /\ frame[c].tries = 1)
  BY <1>1 DEF Raising, Step, Body, Read, Scan, Set, Del, DelMissing, Update,
              UpdateRaises, Publish, Snapshot, SnapshotRoot, ValidateOK, ValidateFails
<1> QED
  BY <1>2, ReturnHere DEF Read, DelMissing, ValidateFails

\* What a call of set or delete has left behind: the lock.
LEMMA ReturnsLocked ==
    ASSUME Safe(TRUE), NEW c \in Conns, Returns(c), OnItsWay(c),
           frame[c].name \in {"set", "del"}
    PROVE  locked'[c]
<1>0. locked \in [Conns -> BOOLEAN] /\ ~BodyUnlocked(c) /\ TypeInv
  BY DEF Safe, OneFile, TypeInv, TypeOK
<1>1. ~InitTree(c) /\ ~Read(c) /\ ~Publish(c) /\ ~ValidateFails(c)
  BY DEF OnItsWay, InCall, Reopens, Awaits, InitTree, Read, Publish, ValidateFails
<1>2. pc[c] = "body" /\ locked' = locked
  BY <1>1 DEF Returns, Set, Del, DelMissing, ApplyHere, conn
<1> QED
  BY <1>0, <1>2 DEF BodyUnlocked

LEMMA ScriptMoves ==
    ASSUME Chosen, Tame, Safe(TRUE), NEW c \in Running, Scripted(c), Move(c)
    PROVE  /\ Scripted(c)' /\ Moves(c) /\ program' = program
           /\ StartCommit(c) => locked[c]
           /\ ~StartCompact(c) /\ frame'[c].name # "compact"
           /\ \A d \in Running \ {c} : outcome'[d] = outcome[d]
           /\ \A d \in Conns \ {c} : budget'[d] = budget[d]
<1>0. /\ c \in Conns /\ TypeInv /\ budget \in [Conns -> Nat] /\ MaxCalls \in [Conns -> Nat]
      /\ locked \in [Conns -> BOOLEAN] /\ outcome \in [Running -> Outcomes]
      /\ frame[c].name # "compact"
  BY ChosenFacts, BoundsAssumption DEF Safe, TypeInv, TypeOK, Chosen, Separate
<1>1. CASE NextCall(c)
  <2> DEFINE call == Script(program[c])[Made(c) + 1]
  <2>1. /\ outcome' = outcome /\ outcome[c] = "ok" /\ Begin(c) /\ program' = program
        /\ Made(c) \in Nat /\ Made(c)' = Made(c) + 1
        /\ Made(c) + 1 \in 1..Len(Script(program[c]))
        /\ At(c)' = call
        /\ frame'[c].name = call.name /\ frame'[c].key = call.key
        /\ frame'[c].val = call.val
        /\ call.name = "connect" <=> Made(c) = 0
        /\ Made(c) > 0 => InScript(call)
        /\ call.name = "commit" => locked[c]
        /\ OnItsWay(c)' /\ InCall(c)'
    BY <1>0, <1>1, CallFacts
  <2> HIDE DEF call
  <2>2. frame'[c].name # "compact"
    BY <2>1 DEF InScript
  <2>3. StartCommit(c) => frame'[c].name = "commit"
    BY <1>0, CountHere DEF StartCommit
  <2>4. StartCompact(c) => frame'[c].name = "compact"
    BY <1>0, CountHere DEF StartCompact
  <2>5. Scripted(c)'
    BY <2>1 DEF Scripted, InCall
  <2>6. budget' = [budget EXCEPT ![c] = budget[c] - 1]
    BY <1>0, <2>1, BeginFacts
  <2> QED
    BY <1>0, <2>1, <2>2, <2>3, <2>4, <2>5, <2>6 DEF Moves
<1>2. CASE Work(c)
  <2>1. /\ Step(c) /\ program' = program
        /\ outcome' = IF Raising(c) /\ program[c].name \notin {"reader", "main"}
                      THEN [outcome EXCEPT ![c] = "raised"] ELSE outcome
    BY <1>2 DEF Work
  <2>2. /\ InCall(c) /\ pc'[c] # "closed" /\ budget' = budget
        /\ OnItsWay(c)'
        /\ (pc'[c] = "idle" /\ Returns(c)) \/ (InCall(c)' /\ SameCall(c))
    <3>1. OnItsWay(c)
      BY DEF Scripted, OnItsWay
    <3> QED
      BY <1>0, <2>1, <3>1, WayMoves
  <2>3. Made(c)' = Made(c) /\ At(c)' = At(c)
    BY <2>1, <2>2 DEF Made, At
  <2>4. /\ Made(c) \in 0..Len(Script(program[c])) /\ Made(c) > 0 /\ outcome[c] = "ok"
        /\ frame[c].name = At(c).name /\ frame[c].key = At(c).key
        /\ frame[c].val = At(c).val /\ OnItsWay(c)
    BY <2>2 DEF Scripted
  <2>5. outcome'[c] = "raised" \/ outcome'[c] = "ok"
    BY <1>0, <2>1, <2>4 DEF Outcomes
  <2>6. InCall(c)' => outcome'[c] = "ok"
    <3>1. ~Raising(c) => outcome'[c] = "ok"
      BY <1>0, <2>1, <2>4
    <3>2. Raising(c) => pc'[c] = "idle"
      BY <1>0, <2>1, RaisingReturns
    <3> QED
      BY <3>1, <3>2 DEF InCall
  <2>7. pc'[c] = "idle" /\ At(c).name \in {"set", "del"} => locked'[c]
    BY <1>0, <2>2, <2>4, ReturnsLocked DEF InCall
  <2>8. Made(c)' \in 0..Len(Script(program[c]))'
    BY <2>1, <2>3, <2>4
  <2>9. InCall(c)' => SameCall(c)
    BY <2>2 DEF InCall
  <2>10. Scripted(c)'
    BY <2>2, <2>3, <2>4, <2>5, <2>6, <2>7, <2>8, <2>9 DEF Scripted, SameCall
  <2>11. ~Begin(c)
    BY <1>0, <2>2, BeginFacts DEF InCall
  <2>12. frame'[c].name # "compact"
    <3>1. CASE Returns(c)
      BY <1>0, <3>1, ReturnHere, LeaveHere
         DEF Returns, InitTree, Read, Set, Del, DelMissing, Publish, ValidateFails, OnItsWay
    <3> QED
      BY <1>0, <2>2, <3>1 DEF SameCall
  <2> QED
    BY <1>0, <2>1, <2>2, <2>10, <2>11, <2>12 DEF Moves, Begin
<1>3. CASE Finish(c)
  <2>1. /\ pc[c] = "idle" /\ Close(c) /\ program' = program /\ outcome' = outcome
        /\ budget' = budget
        /\ Made(c) = Len(Script(program[c])) \/ outcome[c] = "raised"
    BY <1>3 DEF Finish, Close
  <2>2. pc'[c] = "closed" /\ frame'[c].name = "close"
    BY <1>0, <2>1, LeaveHere DEF Close
  <2>3. Made(c)' = Made(c) /\ At(c)' = At(c)
    BY <2>1 DEF Made, At
  <2>4. Scripted(c)'
    BY <2>1, <2>2, <2>3 DEF Scripted, InCall
  <2>5. ~Begin(c)
    BY <1>0, <2>1, BeginFacts
  <2> QED
    BY <1>0, <2>1, <2>2, <2>4, <2>5 DEF Moves, Begin
<1> QED
  BY <1>1, <1>2, <1>3 DEF Move

LEMMA ScriptStays ==
    ASSUME NEW d, Scripted(d), Unmoved(d), budget'[d] = budget[d],
           outcome'[d] = outcome[d], program' = program
    PROVE  Scripted(d)'
<1>1. Made(d)' = Made(d) /\ At(d)' = At(d)
  BY DEF Made, At
<1>2. InCall(d)' = InCall(d) /\ (OnItsWay(d) => OnItsWay(d)')
  BY DEF Unmoved, InCall, OnItsWay, Reopens, Awaits
<1> QED
  BY <1>1, <1>2 DEF Scripted, Unmoved

\* The invariant of the programs that keep to such scripts.
TameInv == Safe(TRUE) /\ \A c \in Running : Scripted(c)

\* What a killed process leaves.
LEMMA KilledFacts ==
    ASSUME Chosen, TypeInv, NEW p, Killed(p), NEW d \in Conns
    PROVE  /\ SameDisk /\ budget'[d] = budget[d] /\ program' = program
           /\ reported' = reported
           /\ \/ Unmoved(d) /\ (d \in Running => outcome'[d] = outcome[d])
              \/ /\ Proc[d] = p /\ pc'[d] = "closed" /\ ~locked'[d]
                 /\ frame'[d].name = "close" /\ ino'[d] = 1 /\ eff'[d] = NoEffects
                 /\ d \in Running => outcome'[d] = IF Ended(d) THEN outcome[d] ELSE "killed"
<1>1. Crash(p) /\ budget' = budget /\ program' = program /\ reported' = reported
  BY DEF Killed, Crash
<1>2. d \in Running =>
        outcome'[d] = IF Proc[d] = p /\ ~Ended(d) THEN "killed" ELSE outcome[d]
  BY DEF Killed
<1> QED
  BY <1>1, <1>2, CrashFacts DEF NoFrame

LEMMA TameStep ==
    ASSUME Chosen, Tame, TameInv, [PNext]_pvars
    PROVE  CommitsUnderLock /\ TameInv'
<1>0. /\ TypeInv /\ budget \in [Conns -> Nat] /\ Running \subseteq Conns
      /\ Safe(TRUE) /\ \A d \in Running : Scripted(d)
      /\ \A d \in Conns : frame[d].name # "compact"
      /\ [Next]_vars /\ program' = program
  BY ChosenFacts, ClientStep DEF TameInv, Safe, TypeInv, TypeOK, Separate
<1> DEFINE Goal == /\ CommitsUnderLock
                   /\ \A d \in Conns : frame'[d].name # "compact"
                   /\ \A d \in Running : Scripted(d)'
<1>1. ASSUME NEW c \in Running, Move(c) PROVE Goal
  <2>1. /\ c \in Conns /\ Scripted(c)' /\ Moves(c) /\ program' = program
        /\ StartCommit(c) => locked[c]
        /\ ~StartCompact(c) /\ frame'[c].name # "compact"
        /\ \A d \in Running \ {c} : outcome'[d] = outcome[d]
        /\ \A d \in Conns \ {c} : budget'[d] = budget[d]
    BY <1>0, <1>1, ScriptMoves
  <2>2. ASSUME NEW d \in Conns, d # c
        PROVE  /\ ~StartCommit(d) /\ ~StartCompact(d) /\ frame'[d].name # "compact"
               /\ d \in Running => Scripted(d)'
    <3>1. Unmoved(d) /\ budget'[d] = budget[d]
      BY <1>0, <2>1, <2>2, OthersStay
    <3>2. ~Begin(d)
      BY <1>0, <3>1, BeginFacts
    <3>3. d \in Running => Scripted(d)'
      BY <1>0, <2>1, <2>2, <3>1, ScriptStays
    <3> QED
      BY <1>0, <3>1, <3>2, <3>3 DEF Begin, Unmoved
  <2> QED
    BY <1>0, <2>1, <2>2 DEF CommitsUnderLock
<1>2. ASSUME NEW p, Killed(p) PROVE Goal
  <2>1. ASSUME NEW d \in Conns
        PROVE  /\ ~StartCommit(d) /\ ~StartCompact(d) /\ frame'[d].name # "compact"
               /\ d \in Running => Scripted(d)'
    <3>1. budget'[d] = budget[d]
      BY <1>0, <1>2, KilledFacts
    <3>2. ~Begin(d)
      BY <1>0, <3>1, BeginFacts
    <3>3. CASE Unmoved(d) /\ (d \in Running => outcome'[d] = outcome[d])
      BY <1>0, <3>1, <3>2, <3>3, ScriptStays DEF Begin, Unmoved
    <3>4. CASE /\ pc'[d] = "closed" /\ frame'[d].name = "close"
               /\ d \in Running => outcome'[d] = IF Ended(d) THEN outcome[d] ELSE "killed"
      <4>1. ASSUME d \in Running PROVE Scripted(d)'
        <5>1. Made(d)' = Made(d) /\ program' = program /\ Scripted(d)
          BY <1>0, <3>1, <4>1 DEF Made
        <5>2. outcome'[d] = "ok" => Ended(d) /\ outcome[d] = "ok"
          BY <3>4, <4>1
        <5>3. Made(d)' \in 0..Len(Script(program[d]))'
          BY <5>1 DEF Scripted
        <5> QED
          BY <3>4, <5>1, <5>2, <5>3 DEF Scripted, InCall, Ended
      <4> QED
        BY <3>2, <3>4, <4>1 DEF Begin
    <3> QED
      BY <1>0, <1>2, <3>3, <3>4, KilledFacts
  <2> QED
    BY <1>0, <2>1 DEF CommitsUnderLock
<1>3. ASSUME UNCHANGED work PROVE Goal
  <2>1. ASSUME NEW d \in Conns PROVE Unmoved(d) /\ budget'[d] = budget[d]
    BY <1>3 DEF work, vars, conn, ctrl, history, Unmoved
  <2>2. ASSUME NEW d \in Conns PROVE ~Begin(d)
    BY <1>0, <2>1, BeginFacts
  <2>3. \A d \in Running : Scripted(d)'
    BY <1>0, <1>3, <2>1, ScriptStays DEF work
  <2> QED
    BY <1>0, <2>1, <2>2, <2>3 DEF CommitsUnderLock, Begin, Unmoved
<1>4. Goal
  BY <1>1, <1>2, <1>3, StepCases
<1>5. Separate(TRUE)'
  BY <1>4 DEF Separate
<1>6. Safe(TRUE)'
  BY <1>0, <1>4, <1>5, SafeStep
<1> QED
  BY <1>0, <1>4, <1>6 DEF TameInv, Running

LEMMA TameInit == PInit => (Tame => TameInv)
<1> SUFFICES ASSUME PInit, Tame PROVE TameInv
  OBVIOUS
<1>1. Safe(TRUE)
  BY SafeInit DEF PInit
<1>2. ASSUME NEW c \in Running PROVE Scripted(c)
  <2>1. c \in Conns /\ ScriptFacts(program[c])
    BY ChosenInit, ChosenFacts, Scripts DEF Tame
  <2>2. Made(c) = 0 /\ pc[c] = "closed" /\ outcome[c] = "ok"
    BY <2>1, BoundsAssumption DEF PInit, Init, Made
  <2> QED
    BY <2>1, <2>2 DEF Scripted, InCall, ScriptFacts
<1> QED
  BY <1>1, <1>2 DEF TameInv

LEMMA TameKept == Chosen /\ [PNext]_pvars => (Tame' <=> Tame)
BY ClientStep DEF Tame, Running

LEMMA TameAlways == PSpec => []Chosen /\ [](Tame => TameInv)
<1>1. Chosen /\ (Tame => TameInv) /\ [PNext]_pvars => Chosen' /\ (Tame => TameInv)'
  BY ClientStep, TameStep, TameKept
<1> QED
  BY <1>1, ChosenInit, TameInit, PTL DEF PSpec

(***************************************************************************)
(* A `commit` command stores the tree it has read when it connected: it is *)
(* harmless where nobody writes, and then nothing ever changes.            *)
(***************************************************************************)
\* What a step does to the tree in memory.
LEMMA ViewMoves ==
    ASSUME NEW c \in Conns, Moves(c)
    PROVE  \/ ChangesTree(c) \/ Close(c)
           \/ OpenAgain(c) /\ pc' = [pc EXCEPT ![c] = "super"]
           \/ ino' = ino /\ (view' = view \/ Refresh(c))
<1> USE DEF conn, ChangesTree, ThenGo
<1>1. CASE Begin(c)
  BY <1>1 DEF Begin, StartRead, StartWrite, StartOptimistic, StartCommit,
              StartCompact, Connect
<1>2. CASE Close(c) \/ CompactFails(c)
  BY <1>2 DEF CompactFails
<1>3. CASE Open(c)
  BY <1>3 DEF Open, ReopenNot, Reopen, EnsureSuperblock, SetTreeType, InitTree
<1>4. CASE Lock(c)
  BY <1>4 DEF Lock, PrepareLock, AcquireThread, AcquireFile, RecheckFresh, RecheckReplaced
<1>5. CASE Body(c)
  BY <1>5 DEF Body, Read, Scan, ItemsRefresh, DelMissing, UpdateRaises, Publish,
              Snapshot, SnapshotRoot, ValidateFails
<1>6. CASE Compact(c)
  BY <1>6 DEF Compact, CopyItems, Copy, ItemsRefresh, Rename, Swap
<1> QED
  BY <1>1, <1>2, <1>3, <1>4, <1>5, <1>6 DEF Moves, Step

\* A call keeps its name and arguments until it ends.
LEMMA CallKept ==
    ASSUME TypeInv, NEW c \in Conns, Step(c)
    PROVE  SameCall(c) \/ frame'[c].name = "close"
<1> DEFINE Goal == \/ frame' = frame \/ Return(c)
                   \/ \E x : \/ frame' = [frame EXCEPT ![c].snap = x]
                             \/ frame' = [frame EXCEPT ![c].tries = x]
                             \/ frame' = [frame EXCEPT ![c].temp = x]
<1>1. ASSUME Open(c) PROVE Goal
  BY <1>1 DEF Open, ReopenNot, Reopen, EnsureSuperblock, SetTreeType, InitTree
<1>2. ASSUME Lock(c) PROVE Goal
  BY <1>2 DEF Lock, PrepareLock, AcquireThread, AcquireFile, RecheckFresh, RecheckReplaced
<1>3. ASSUME Snapshot(c) \/ ValidateFails(c) PROVE Goal
  BY <1>3 DEF Snapshot, SnapshotRoot, ValidateFails
<1>4. ASSUME Body(c), ~Snapshot(c), ~ValidateFails(c) PROVE Goal
  BY <1>4 DEF Body, Read, Scan, Set, Del, DelMissing, Update, UpdateRaises, Publish, ValidateOK
<1>5. ASSUME Compact(c) PROVE Goal
  BY <1>5 DEF Compact, CopyItems, Copy, Rename, Swap
<1>6. Goal
  BY <1>1, <1>2, <1>3, <1>4, <1>5 DEF Step
<1> QED
  BY <1>6, SameHere, ReturnHere

QuietNames == ReadingNames \cup {"commit"}

QuietMix == \A c \in Running : program[c].name \in QuietNames

Empty(c) ==
    /\ ino[c] = 1 /\ view[c] = EmptyMap /\ eff[c] = NoEffects
    /\ frame[c].name \in {"connect", "get", "commit", "close"}
    /\ budget[c] <= MaxCalls[c]

QuietInv ==
    /\ TypeInv /\ LockInv /\ ControlInv
    /\ path = 1 /\ Live = EmptyMap
    /\ \A c \in Conns : Empty(c)

LEMMA QuietScripts ==
    ASSUME NEW p, p.name \in QuietNames
    PROVE  /\ Len(Script(p)) \in Nat
           /\ \A i \in 1..Len(Script(p)) : Script(p)[i].name \in {"connect", "get", "commit"}
<1>1. CASE p.name = "commit"
  <2>1. Commands(p) = <<Saving>>
    BY <1>1 DEF Commands, ToolCommands
  <2>2. Len(Script(p)) = 2 /\ Script(p)[1] = Opening /\ Script(p)[2] = Saving
    BY <2>1 DEF Script
  <2>3. \A i \in 1..2 : i = 1 \/ i = 2
    OBVIOUS
  <2> QED
    BY <2>2, <2>3 DEF Opening, Saving, Call
<1>2. CASE p.name # "commit"
  <2>1. p.name \in ReadingNames /\ ScriptFacts(p)
    BY <1>2, Scripts DEF QuietNames, ReadingNames, TameNames, ProgramNames
  <2>2. \A i \in 1..Len(Script(p)) : i = 1 \/ i \in 2..Len(Script(p))
    BY <2>1 DEF ScriptFacts
  <2> QED
    BY <2>1, <2>2 DEF ScriptFacts, Opening, Call
<1> QED
  BY <1>1, <1>2

LEMMA QuietNamesMove ==
    ASSUME Chosen, QuietMix, QuietInv, NEW c \in Running, Move(c)
    PROVE  /\ Moves(c) /\ frame'[c].name \in {"connect", "get", "commit", "close"}
           /\ budget'[c] <= MaxCalls[c]
<1>0. /\ c \in Conns /\ TypeInv /\ frame \in [Conns -> Frame]
      /\ budget \in [Conns -> Nat] /\ MaxCalls \in [Conns -> Nat]
      /\ budget[c] <= MaxCalls[c] /\ Empty(c)
  BY ChosenFacts, BoundsAssumption DEF QuietInv, Empty, TypeInv, TypeOK
<1>1. CASE NextCall(c)
  <2> DEFINE s == Script(program[c])
             n == Made(c)
  <2>1. /\ n < Len(s) /\ Begin(c) /\ frame'[c].name = s[n + 1].name
    BY <1>1 DEF NextCall
  <2>2. n \in Nat
    BY <1>0 DEF Made
  <2>3. /\ Len(s) \in Nat
        /\ \A i \in 1..Len(s) : s[i].name \in {"connect", "get", "commit"}
    BY QuietScripts DEF QuietMix
  <2>4. budget'[c] = budget[c] - 1
    BY <1>0, <2>1, BeginFacts
  <2> HIDE DEF s, n
  <2> QED
    BY <1>0, <2>1, <2>2, <2>3, <2>4 DEF Moves
<1>2. CASE Work(c)
  <2>1. Step(c) /\ Moves(c)
    BY <1>2 DEF Work, Moves
  <2>2. frame'[c].name \in {frame[c].name, "close"}
    BY <1>0, <2>1, CallKept DEF SameCall
  <2>3. Begin(c) \/ budget' = budget
    BY <1>0, <2>1, BudgetMoves
  <2>4. Begin(c) => budget'[c] = budget[c] - 1
    BY <1>0, BeginFacts
  <2> QED
    BY <1>0, <2>1, <2>2, <2>3, <2>4 DEF Empty
<1>3. CASE Finish(c)
  <2>1. Close(c) /\ budget' = budget
    BY <1>3 DEF Finish, Close
  <2> QED
    BY <1>0, <2>1, LeaveHere DEF Close, Moves
<1> QED
  BY <1>1, <1>2, <1>3 DEF Move

LEMMA QuietMoves ==
    ASSUME Chosen, QuietMix, QuietInv, NEW c \in Running, Move(c), TypeInv'
    PROVE  /\ \A d \in Conns : Empty(d)'
           /\ path' = 1 /\ Live' = EmptyMap
           /\ Store!Commit(c) \/ UNCHANGED <<Live, eff, acked>>
<1>0. /\ c \in Conns /\ Moves(c) /\ TypeInv
      /\ frame'[c].name \in {"connect", "get", "commit", "close"}
      /\ budget'[c] <= MaxCalls[c]
      /\ eff \in [Conns -> [Keys -> Effect]] /\ ino \in [Conns -> Files]
      /\ view \in [Conns -> Maps] /\ addr \in [Conns -> Nat \cup {Unstored}]
      /\ budget \in [Conns -> Nat] /\ root \in [Files -> Nat] /\ trees \in [Files -> Seq(Maps)] /\ acked \in [Conns -> Nat]
      /\ \A d \in Conns : Empty(d) /\ Flow(d)
      /\ path = 1 /\ Live = EmptyMap
  BY ChosenFacts, QuietNamesMove DEF QuietInv, ControlInv, TypeInv, TypeOK
<1>1. ~ChangesTree(c) /\ ~InCompact(c)
  BY <1>0 DEF ChangesTree, Set, Del, Update, ValidateOK, Empty, Flow, NameFits, InCompact,
              AwaitsValidation
<1>2. ~CopyItems(c) /\ ~Rename(c)
  BY <1>1 DEF CopyItems, Copy, Rename, InCompact
<1>3. path' = 1 /\ (Publish(c) \/ SameDisk)
  BY <1>0, <1>2, DiskMoves DEF Publish, SameDisk
<1>4. Publish(c) => Live' = EmptyMap
  <2> SUFFICES ASSUME Publish(c) PROVE Live' = EmptyMap
    OBVIOUS
  <2>1. PICK a \in AddressAfterStore(c) :
            /\ root' = [root EXCEPT ![ino[c]] = a]
            /\ addr' = [addr EXCEPT ![c] = a]
    BY DEF Publish
  <2>2. a \in Nat
    BY <1>0, PublishType
  <2>3. root'[1] = a /\ addr'[c] = a /\ view'[c] = EmptyMap /\ ino'[c] = 1
    BY <1>0, <2>1 DEF Publish, Empty
  <2>4. view'[c] = Content(ino[c], addr[c])'
    BY <1>0, <2>2, <2>3, UnstoredAssumption DEF TypeInv, SnapshotIntact, Intact
  <2> QED
    BY <1>3, <2>3, <2>4 DEF Live, Current, Content
<1>5. Live' = EmptyMap
  BY <1>0, <1>3, <1>4 DEF SameDisk, Live, Current, Content
<1>6. eff' = eff
  <2>1. eff' = eff \/ Forget(c)
    BY <1>0, <1>1, <1>2, EffectMoves DEF Publish
  <2> QED
    BY <1>0, <2>1 DEF Forget, Empty
<1>7. ino'[c] = 1 /\ view'[c] = EmptyMap
  <2>1. CASE OpenAgain(c)
    BY <1>0, <2>1 DEF OpenAgain
  <2>2. CASE Close(c)
    BY <1>0, <2>2 DEF Close
  <2>3. CASE ino' = ino /\ (view' = view \/ Refresh(c))
    BY <1>0, <2>3, RefreshHere DEF Empty, Live
  <2> QED
    BY <1>0, <1>1, <2>1, <2>2, <2>3, ViewMoves
<1>8. ASSUME NEW d \in Conns PROVE Empty(d)'
  <2>1. CASE d = c
    BY <1>0, <1>6, <1>7, <2>1 DEF Empty
  <2>2. CASE d # c
    <3>1. Unmoved(d)
      BY <1>0, <2>2, OthersStay
    <3>2. Begin(c) \/ budget' = budget
      BY <1>0, BudgetMoves
    <3>3. budget'[d] = budget[d]
      BY <1>0, <2>2, <3>2, BeginFacts
    <3> QED
      BY <1>0, <3>1, <3>3 DEF Empty, Unmoved
  <2> QED
    BY <2>1, <2>2
<1>9. Store!Commit(c) \/ UNCHANGED <<Live, eff, acked>>
  <2>1. CASE Publish(c)
    <3>1. Apply(eff[c], Live) = Live
      BY <1>0, LiveType, ApplyNone DEF Empty
    <3> QED
      BY <1>0, <1>5, <2>1, <3>1, StoreSame DEF Publish, Forget, Store!Commit
  <2>2. CASE SameDisk
    BY <1>0, <1>5, <1>6, <2>2 DEF SameDisk
  <2> QED
    BY <1>3, <2>1, <2>2
<1> QED
  BY <1>3, <1>5, <1>8, <1>9

LEMMA QuietStep ==
    ASSUME Chosen, QuietMix, QuietInv, [PNext]_pvars
    PROVE  QuietInv' /\ [Store!Next]_(Store!vars)
<1>0. [Next]_vars /\ Running \subseteq Conns
  BY ClientStep, ChosenFacts
<1>1. TypeInv' /\ LockInv' /\ ControlInv'
  BY <1>0, TypeInvStep, LockInvStep, ControlStep DEF QuietInv
<1> DEFINE Goal == /\ path' = 1 /\ Live' = EmptyMap
                   /\ \A d \in Conns : Empty(d)'
                   /\ [Store!Next]_(Store!vars)
<1>2. ASSUME NEW c \in Running, Move(c) PROVE Goal
  BY <1>0, <1>1, <1>2, QuietMoves DEF Store!Next, Store!vars
<1>3. ASSUME NEW p, Killed(p) PROVE Goal
  <2>1. Crash(p) /\ TypeInv
    BY <1>3 DEF Killed, QuietInv
  <2>2. ASSUME NEW d \in Conns PROVE Empty(d)' /\ eff'[d] = NoEffects
    BY <2>1 DEF QuietInv, Empty, Crash, NoFrame
  <2>3. path' = 1 /\ Live' = Live /\ acked' = acked
    BY <2>1 DEF QuietInv, Crash, disk, Live, Current, Content
  <2>4. eff' = eff
    BY <2>1 DEF Crash, QuietInv, Empty, TypeInv, TypeOK
  <2> QED
    BY <2>2, <2>3, <2>4 DEF QuietInv, Store!vars
<1>4. ASSUME UNCHANGED work PROVE Goal
  BY <1>4 DEF work, vars, disk, conn, ctrl, history, QuietInv, Empty, Live, Current,
              Content, Store!vars
<1> QED
  BY <1>1, <1>2, <1>3, <1>4, StepCases DEF QuietInv

LEMMA QuietInit == PInit => QuietInv
<1> SUFFICES ASSUME PInit PROVE QuietInv
  OBVIOUS
<1>1. TypeInv /\ LockInv /\ ControlInv
  BY SafeInit DEF PInit, Safe
<1>2. Live = EmptyMap
  BY StoreInit, StoreSame DEF PInit, Store!Init
<1>3. ASSUME NEW c \in Conns PROVE Empty(c)
  BY BoundsAssumption DEF PInit, Init, Empty, NoFrame
<1> QED
  BY <1>1, <1>2, <1>3 DEF PInit, Init, QuietInv

LEMMA QuietAlways == PSpec => [](QuietMix => QuietInv)
<1>1. Chosen /\ (QuietMix => QuietInv) /\ [PNext]_pvars
        => Chosen' /\ (QuietMix => QuietInv)'
  BY ClientStep, QuietStep DEF QuietMix, Running
<1> QED
  BY <1>1, ChosenInit, QuietInit, PTL DEF PSpec

\* The programs change the database as sessions of an AtomicStore, whatever
\* runs side by side: nothing that one of them has committed is undone or half
\* applied, with or without a lock while it reads.  Compacting programs aside,
\* which AtomicPrograms leaves out, it takes that a `commit` command runs
\* beside readers only; and it is claimed until a late creator empties the file.
THEOREM ProgramsAtomic ==
    ASSUME CommitsAlone PROVE PSpec => AtomicPrograms
<1>1. ASSUME Chosen, Tame => TameInv, QuietMix => QuietInv, [PNext]_pvars
      PROVE  [\/ ~Followed'
              \/ \E c \in Running : program[c].name = "bloated"
              \/ Store!Next]_<<Live, eff, acked>>
  <2>1. CASE \E c \in Running : program[c].name = "bloated"
    BY <2>1
  <2>2. CASE Tame
    BY <1>1, <2>2, ClientStep, StoreStep DEF TameInv, Store!vars
  <2>3. CASE QuietMix
    BY <1>1, <2>3, QuietStep DEF Store!vars
  <2>4. Tame \/ QuietMix \/ \E c \in Running : program[c].name = "bloated"
    BY <1>1, ChosenFacts
       DEF CommitsAlone, Chosen, Running, Tame, TameNames, QuietMix, QuietNames
  <2> QED
    BY <2>1, <2>2, <2>3, <2>4
<1>2. PInit => Chosen
  BY ChosenInit
<1> QED
  BY <1>1, <1>2, TameAlways, QuietAlways, PTL DEF PSpec, AtomicPrograms

(***************************************************************************)
(* The share of a program in the data: its own key, if it writes at all.   *)
(***************************************************************************)
Mine(c, k) == k = program[c].key /\ program[c].name \notin ReadingNames

Private(c) == \A k \in Keys : ~Mine(c, k) => eff[c][k] = Keep

\* A write is of the key of the call.
LEMMA WriteKey ==
    ASSUME TypeInv, NEW c \in Conns, ChangesTree(c)
    PROVE  /\ \E e : ApplyHere(c, frame[c].key, e)
           /\ frame[c].name \in {"set", "del", "update"} \/ pc[c] = "validate"
           /\ InCall(c)
BY DEF ChangesTree, Set, Del, Update, ValidateOK, InCall

LEMMA OtherKeys ==
    ASSUME TypeInv, NEW c \in Conns, NEW k, NEW e, ApplyHere(c, k, e),
           NEW j \in Keys, j # k
    PROVE  view'[c][j] = view[c][j] /\ eff'[c][j] = eff[c][j]
<1> DEFINE m == [view[c] EXCEPT ![k] = ApplyTo(e, view[c][k])]
           es == [eff[c] EXCEPT ![k] = Compose(eff[c][k], e)]
<1>1. view' = [view EXCEPT ![c] = m] /\ eff' = [eff EXCEPT ![c] = es]
  BY DEF ApplyHere
<1>2. view \in [Conns -> Maps] /\ eff \in [Conns -> [Keys -> Effect]]
  BY DEF TypeInv, TypeOK
<1>3. m[j] = view[c][j] /\ es[j] = eff[c][j]
  BY <1>2 DEF Maps
<1> HIDE DEF m, es
<1>4. view'[c] = m /\ eff'[c] = es
  BY <1>1, <1>2
<1> QED
  BY <1>3, <1>4

LEMMA OwnKey ==
    ASSUME TypeInv, NEW c \in Conns, NEW k \in Keys, NEW e, ApplyHere(c, k, e)
    PROVE  view'[c][k] = ApplyTo(e, view[c][k]) /\ eff'[c][k] = Compose(eff[c][k], e)
<1> DEFINE m == [view[c] EXCEPT ![k] = ApplyTo(e, view[c][k])]
           es == [eff[c] EXCEPT ![k] = Compose(eff[c][k], e)]
<1>1. view' = [view EXCEPT ![c] = m] /\ eff' = [eff EXCEPT ![c] = es]
  BY DEF ApplyHere
<1>2. view \in [Conns -> Maps] /\ eff \in [Conns -> [Keys -> Effect]]
  BY DEF TypeInv, TypeOK
<1>3. m[k] = ApplyTo(e, view[c][k]) /\ es[k] = Compose(eff[c][k], e)
  BY <1>2 DEF Maps
<1> HIDE DEF m, es
<1>4. view'[c] = m /\ eff'[c] = es
  BY <1>1, <1>2
<1> QED
  BY <1>3, <1>4

\* In a call the frame is the line of the script.
LEMMA CallIs ==
    ASSUME Chosen, Tame, NEW c \in Running, Scripted(c), InCall(c)
    PROVE  /\ ScriptFacts(program[c]) /\ OnItsWay(c) /\ outcome[c] = "ok"
           /\ Made(c) \in 1..Len(Script(program[c])) /\ Made(c) \in Nat
           /\ \/ Made(c) = 1 /\ frame[c].name = "connect"
              \/ /\ Made(c) \in 2..Len(Script(program[c])) /\ InScript(frame[c])
                 /\ frame[c].name # "commit" => frame[c].key = program[c].key
                 /\ frame[c].name = "set" => frame[c].val = program[c].val
                 /\ program[c].name \in ReadingNames => frame[c].name = "get"
                 /\ program[c].name \in {"set", "delete"} =>
                       Made(c) \in {2, 3} /\ (Made(c) = 3 <=> frame[c].name = "commit")
                 /\ program[c].name = "set" => frame[c].name \in {"set", "commit"}
                 /\ program[c].name = "delete" => frame[c].name \in {"del", "commit"}
                 /\ program[c].name \in {"locked", "hopeful"} =>
                       Made(c) = 2 /\ frame[c].name \in {"update", "optimistic"}
                 /\ program[c].name = "main" => Made(c) = 2
<1> DEFINE s == Script(program[c])
           n == Made(c)
<1>1. ScriptFacts(program[c])
  BY Scripts DEF Tame
<1>2. /\ n \in 0..Len(s) /\ n > 0 /\ outcome[c] = "ok" /\ OnItsWay(c)
      /\ frame[c].name = s[n].name /\ frame[c].key = s[n].key /\ frame[c].val = s[n].val
  BY DEF Scripted, At
<1>3. Len(s) \in Nat /\ s[1] = Opening
  BY <1>1 DEF ScriptFacts
<1>4. n \in Nat /\ n \in 1..Len(s) /\ (n = 1 \/ n \in 2..Len(s))
  BY <1>2, <1>3
<1>5. CASE n = 1
  BY <1>1, <1>2, <1>3, <1>4, <1>5 DEF Opening, Call
<1>6. CASE n \in 2..Len(s)
  <2>1. /\ InScript(s[n])
        /\ s[n].name # "commit" => s[n].key = program[c].key
        /\ s[n].name = "set" => s[n].val = program[c].val
        /\ program[c].name \in ReadingNames => s[n].name = "get"
        /\ program[c].name \in {"set", "delete"} =>
              n \in {2, 3} /\ (n = 3 <=> s[n].name = "commit")
        /\ program[c].name = "set" => s[n].name \in {"set", "commit"}
        /\ program[c].name = "delete" => s[n].name \in {"del", "commit"}
        /\ program[c].name \in {"locked", "hopeful"} =>
              n = 2 /\ s[n].name \in {"update", "optimistic"}
        /\ program[c].name = "main" => n = 2
    BY <1>1, <1>6 DEF ScriptFacts
  <2> HIDE DEF s, n
  <2>2. InScript(frame[c])
    BY <1>2, <2>1 DEF InScript
  <2>3. n \in Nat /\ n \in 1..Len(s) /\ n \in 2..Len(s)
    BY <1>4, <1>6
  <2>4. ScriptFacts(program[c]) /\ OnItsWay(c) /\ outcome[c] = "ok"
    BY <1>1, <1>2
  <2> QED
    BY <1>2, <2>1, <2>2, <2>3, <2>4 DEF s, n
<1> QED
  BY <1>4, <1>5, <1>6

LEMMA PrivateMoves ==
    ASSUME Chosen, Tame, TameInv, NEW c \in Running, Private(c), Move(c)
    PROVE  Private(c)'
<1>0. /\ c \in Conns /\ TypeInv /\ eff \in [Conns -> [Keys -> Effect]]
      /\ Scripted(c) /\ Safe(TRUE) /\ Flow(c)
  BY ChosenFacts DEF TameInv, Safe, TypeInv, TypeOK, ControlInv
<1>1. Moves(c) /\ program' = program
  BY <1>0, ScriptMoves
<1>2. ASSUME eff'[c] = NoEffects PROVE Private(c)'
  BY <1>2 DEF Private, NoEffects
<1>3. ASSUME eff' = eff PROVE Private(c)'
  BY <1>1, <1>3 DEF Private, Mine
<1>4. CASE ChangesTree(c)
  <2>1. PICK e : ApplyHere(c, frame[c].key, e)
    BY <1>0, <1>4, WriteKey
  <2>2. InCall(c) /\ frame[c].name \in {"set", "del", "update", "optimistic"}
    BY <1>0, <1>4, WriteKey DEF Flow, NameFits, AwaitsValidation
  <2>3. frame[c].key = program[c].key /\ program[c].name \notin ReadingNames
    BY <1>0, <2>2, CallIs
  <2>4. \A k \in Keys : k # program[c].key => eff'[c][k] = eff[c][k]
    BY <1>0, <2>1, <2>3, OtherKeys
  <2> QED
    BY <1>1, <2>3, <2>4 DEF Private, Mine
<1>5. CASE Publish(c) \/ Rename(c) \/ Forget(c)
  <2>1. Forget(c)
    BY <1>5 DEF Publish, Rename
  <2>2. eff'[c] = NoEffects
    BY <1>0, <2>1 DEF Forget
  <2> QED
    BY <1>2, <2>2
<1> QED
  BY <1>0, <1>1, <1>3, <1>4, <1>5, EffectMoves

\* The step of a call that publishes.
LEMMA AtPublish ==
    ASSUME NEW c \in Conns, Step(c), pc[c] = "publish"
    PROVE  Publish(c)
BY DEF Step, Open, ReopenNot, Reopen, EnsureSuperblock, SetTreeType, InitTree,
       Lock, PrepareLock, AcquireThread, AcquireFile, RecheckFresh, RecheckReplaced,
       Body, Read, Scan, Set, Del, DelMissing, Update, UpdateRaises, Snapshot,
       SnapshotRoot, ValidateOK, ValidateFails, Compact, CopyItems, Copy, Rename, Swap

\* A connection that was closed connects.
LEMMA BeginsConnect ==
    ASSUME TypeInv, NEW c \in Conns, Begin(c), pc[c] = "closed"
    PROVE  Connect(c)
BY DEF Begin, StartRead, StartWrite, StartOptimistic, StartCommit, StartCompact, Calling

\* A connection has its tree when it has been opened.
Unopened == {"closed", "super", "settype", "init"}

LEMMA OpeningMoves ==
    ASSUME TypeInv, NEW c \in Conns, Moves(c), pc[c] \in Unopened, pc'[c] \notin Unopened
    PROVE  Refresh(c)
<1> USE DEF Unopened
<1>1. ~Begin(c)
  <2>1. Begin(c) => Connect(c)
    BY BeginsConnect, BeginFacts
  <2> QED
    BY <2>1, ThenGoHere DEF Connect
<1>2. ~Close(c) /\ ~CompactFails(c) /\ ~Lock(c) /\ ~Compact(c)
  BY DEF Close, CompactFails, Lock, PrepareLock, AcquireThread, AcquireFile,
         RecheckFresh, RecheckReplaced, Compact, CopyItems, Copy, Rename, Swap
<1>3. ~Body(c)
  BY DEF Body, Read, Scan, Set, Del, DelMissing, Update, UpdateRaises, Publish, Snapshot,
         SnapshotRoot, ValidateOK, ValidateFails
<1>4. Open(c)
  BY <1>1, <1>2, <1>3 DEF Moves, Step
<1>5. ~ReopenNot(c) /\ ~Reopen(c)
  BY DEF ReopenNot, Reopen
<1>6. ~SetTreeType(c)
  BY GotoHere DEF SetTreeType
<1>7. ~EnsureSuperblock(c)
  BY GotoHere, ThenGoHere DEF EnsureSuperblock
<1> QED
  BY <1>4, <1>5, <1>6, <1>7 DEF Open, InitTree

(***************************************************************************)
(* The counter of benchmark_update.py.                                     *)
(***************************************************************************)

\* The calls of a writer.
LEMMA WriterCalls ==
    ASSUME Chosen, Tame, TypeInv, NEW c \in Writers, Scripted(c), NextCall(c)
    PROVE  frame'[c].name # "commit"
<1> DEFINE s == Script(program[c])
           n == Made(c)
<1>1. /\ c \in Running /\ program[c].name \in {"locked", "hopeful"}
      /\ ScriptFacts(program[c])
  BY Scripts DEF Writers, Tame
<1>2. /\ n \in Nat /\ n + 1 \in 1..Len(s) /\ frame'[c].name = s[n + 1].name
  BY <1>1, CallFacts
<1>3. CASE n = 0
  BY <1>1, <1>2, <1>3 DEF ScriptFacts, Opening, Call
<1>4. CASE n > 0
  <2>1. n + 1 \in 2..Len(s)
    BY <1>1, <1>2, <1>4 DEF ScriptFacts
  <2> QED
    BY <1>1, <1>2, <2>1 DEF ScriptFacts
<1> QED
  BY <1>2, <1>3, <1>4

\* A writer adds one in the step in which it commits, and once at most.
Once(c) ==
    /\ eff[c][program[c].key] = IF pc[c] = "publish" THEN Inc ELSE Keep
    /\ acked[c] \in {0, 1}
    /\ outcome[c] # "killed" =>
          (acked[c] = 1 <=> Made(c) = 2 /\ ~InCall(c) /\ outcome[c] = "ok")

LEMMA OnceMoves ==
    ASSUME Chosen, Tame, TameInv, NEW c \in Writers, Once(c), Move(c)
    PROVE  Once(c)'
<1>0. /\ c \in Running /\ c \in Conns /\ TypeInv
      /\ eff \in [Conns -> [Keys -> Effect]] /\ acked \in [Conns -> Nat]
      /\ program[c].name \in {"locked", "hopeful"} /\ program[c].key \in Keys
      /\ Scripted(c) /\ Safe(TRUE) /\ Flow(c)
      /\ outcome \in [Running -> Outcomes]
  BY ChosenFacts DEF Writers, TameInv, Safe, TypeInv, TypeOK, ControlInv, Chosen
<1>1. Moves(c) /\ program' = program
  BY <1>0, ScriptMoves
<1> DEFINE k == program[c].key
<1>2. CASE NextCall(c)
  <2>1. /\ outcome[c] = "ok" /\ outcome' = outcome /\ Begin(c)
        /\ Made(c) \in Nat /\ Made(c) < Len(Script(program[c])) /\ InCall(c)'
        /\ Made(c) > 0 => UNCHANGED history
        /\ Made(c) = 0 <=> pc[c] = "closed"
    BY <1>0, <1>2, CallFacts DEF NextCall
  <2>2. Len(Script(program[c])) = 2
    BY <1>0, Scripts DEF Tame, ScriptFacts
  <2>3. pc[c] # "publish" /\ pc'[c] # "publish"
    <3>1. pc[c] # "publish"
      BY <1>0, <2>1, BeginFacts
    <3>2. pc'[c] = "publish" => frame'[c].name = "commit"
      BY <1>0, <2>1, BeginFacts
    <3>3. frame'[c].name # "commit"
      BY <1>0, <1>2, WriterCalls
    <3> QED
      BY <3>1, <3>2, <3>3
  <2>4. acked' = acked /\ eff'[c][k] = Keep
    <3>1. eff[c][k] = Keep
      BY <2>3 DEF Once
    <3>2. CASE Made(c) > 0
      BY <2>1, <3>1, <3>2 DEF history
    <3>3. CASE Made(c) = 0
      <4>1. Connect(c)
        BY <1>0, <2>1, <3>3, BeginsConnect
      <4> QED
        BY <1>0, <4>1, OpenHere DEF Connect, NoEffects
    <3> QED
      BY <2>1, <3>2, <3>3
  <2>5. acked[c] = 0
    BY <2>1, <2>2 DEF Once
  <2> QED
    BY <1>1, <2>1, <2>3, <2>4, <2>5 DEF Once
<1>3. CASE Work(c)
  <2>1. /\ Step(c)
        /\ outcome' = IF Raising(c) /\ program[c].name \notin {"reader", "main"}
                      THEN [outcome EXCEPT ![c] = "raised"] ELSE outcome
    BY <1>3 DEF Work
  <2>2. /\ InCall(c) /\ pc'[c] # "closed" /\ budget' = budget
        /\ (pc'[c] = "idle" /\ Returns(c)) \/ (InCall(c)' /\ SameCall(c))
        /\ pc'[c] = "publish" => Update(c) \/ ValidateOK(c)
    <3>1. OnItsWay(c)
      BY <1>0 DEF Scripted, OnItsWay
    <3> QED
      BY <1>0, <2>1, <3>1, WayMoves
  <2>3. /\ outcome[c] = "ok" /\ Made(c) \in {1, 2} /\ Made(c)' = Made(c)
        /\ Made(c) = 1 => frame[c].name = "connect"
        /\ Made(c) = 2 => frame[c].name \in {"update", "optimistic"}
        /\ frame[c].name # "connect" => frame[c].key = k
        /\ OnItsWay(c)
    BY <1>0, <2>2, CallIs DEF Made
  <2>4. acked[c] = 0
    BY <2>2, <2>3 DEF Once
  <2>5. CASE pc[c] = "publish"
    <3>1. Publish(c)
      BY <1>0, <2>1, <2>5, AtPublish
    <3>2. eff'[c] = NoEffects /\ acked'[c] = 1
      BY <1>0, <2>4, <3>1 DEF Publish, Forget
    <3>3. pc'[c] = "idle" /\ outcome' = outcome /\ Made(c) = 2
      BY <1>0, <2>1, <2>3, <2>5, <3>1, ReturnHere
         DEF Publish, Raising, OnItsWay, InCall, Reopens, Awaits
    <3> QED
      BY <1>0, <1>1, <2>3, <3>2, <3>3 DEF Once, InCall, NoEffects
  <2>6. CASE Update(c) \/ ValidateOK(c)
    <3>1. frame[c].name # "connect"
      BY <1>0, <2>6 DEF Update, ValidateOK, Flow, NameFits, AwaitsValidation
    <3>2. ApplyHere(c, k, Inc) /\ pc[c] # "publish" /\ acked' = acked
      BY <2>3, <2>6, <3>1 DEF Update, ValidateOK, ApplyHere
    <3>3. eff[c][k] = Keep
      BY <3>2 DEF Once
    <3>4. eff'[c][k] = Inc
      <4>1. eff'[c][k] = Compose(Keep, Inc)
        BY <1>0, <3>2, <3>3, OwnKey
      <4> QED
        BY <4>1 DEF Compose, Keep, Inc
    <3>5. pc'[c] = "publish"
      <4>1. CASE Update(c)
        <5>1. locked[c]
          BY <1>0, <4>1, UpdateLocked DEF Update
        <5> QED
          BY <1>0, <4>1, <5>1, TakeLockHere DEF Update
      <4>2. CASE ValidateOK(c)
        BY <1>0, <4>2, GotoHere DEF ValidateOK
      <4> QED
        BY <2>6, <4>1, <4>2
    <3> QED
      BY <1>1, <2>4, <3>2, <3>4, <3>5 DEF Once, InCall
  <2>7. CASE pc[c] # "publish" /\ ~Update(c) /\ ~ValidateOK(c)
    <3>1. ~Set(c) /\ ~Del(c) /\ ~DelMissing(c) /\ ~Publish(c) /\ ~Rename(c)
      <4>1. frame[c].name \notin {"set", "del", "compact"}
        BY <2>3
      <4> QED
        BY <1>0, <2>7, <4>1
           DEF Set, Del, DelMissing, Publish, Rename, Flow, NameFits, InCompact
    <3>2. acked' = acked /\ (eff' = eff \/ Forget(c))
      BY <1>0, <1>1, <2>7, <3>1, EffectMoves DEF ChangesTree
    <3>3. eff[c][k] = Keep
      BY <2>7 DEF Once
    <3>4. eff'[c][k] = Keep
      BY <1>0, <3>2, <3>3 DEF Forget, NoEffects
    <3>5. pc'[c] # "publish"
      BY <2>2, <2>7
    <3>6. Made(c) = 2 /\ ~InCall(c)' => outcome'[c] # "ok"
      <4> SUFFICES ASSUME Made(c) = 2, ~InCall(c)' PROVE outcome'[c] # "ok"
        OBVIOUS
      <4>1. Returns(c)
        BY <2>2
      <4>2. frame[c].name \in {"update", "optimistic"}
        BY <2>3
      <4>3. ~Read(c) /\ ~InitTree(c)
        <5>1. pc[c] # "read"
          BY <2>2, <2>3, <4>2 DEF OnItsWay, InCall, Reopens, Awaits
        <5>2. pc[c] # "init"
          BY <2>2, <2>3, <4>2 DEF OnItsWay, InCall, Reopens, Awaits
        <5> QED
          BY <5>1, <5>2 DEF Read, InitTree
      <4>4. ValidateFails(c) /\ frame[c].tries = 1
        BY <3>1, <4>1, <4>3 DEF Returns
      <4>5. Raising(c)
        BY <4>4 DEF Raising, ValidateFails
      <4>6. outcome' = [outcome EXCEPT ![c] = "raised"]
        BY <1>0, <2>1, <4>5
      <4> QED
        BY <1>0, <4>6
    <3> QED
      BY <1>1, <2>3, <2>4, <3>2, <3>4, <3>5, <3>6 DEF Once
  <2> QED
    BY <2>5, <2>6, <2>7
<1>4. CASE Finish(c)
  <2>1. /\ pc[c] = "idle" /\ Close(c) /\ outcome' = outcome /\ budget' = budget
        /\ acked' = acked /\ Forget(c)
    BY <1>4 DEF Finish, Close
  <2>2. pc'[c] = "closed" /\ eff'[c] = NoEffects
    BY <1>0, <2>1, LeaveHere DEF Close, Forget
  <2>3. Made(c)' = Made(c)
    BY <2>1 DEF Made
  <2> QED
    BY <1>0, <1>1, <2>1, <2>2, <2>3 DEF Once, InCall, NoEffects
<1> QED
  BY <1>2, <1>3, <1>4 DEF Move

LEMMA OnceStays ==
    ASSUME NEW d, Once(d), program' = program, budget'[d] = budget[d],
           acked'[d] = acked[d],
           \/ Unmoved(d) /\ outcome'[d] = outcome[d]
           \/ /\ pc'[d] = "closed" /\ eff'[d] = NoEffects /\ program[d].key \in Keys
              /\ outcome'[d] = IF Ended(d) THEN outcome[d] ELSE "killed"
    PROVE  Once(d)'
<1>1. Made(d)' = Made(d)
  BY DEF Made
<1>2. CASE Unmoved(d) /\ outcome'[d] = outcome[d]
  BY <1>1, <1>2 DEF Once, Unmoved, InCall
<1>3. CASE /\ pc'[d] = "closed" /\ eff'[d] = NoEffects /\ program[d].key \in Keys
           /\ outcome'[d] = IF Ended(d) THEN outcome[d] ELSE "killed"
  <2>1. outcome'[d] # "killed" => pc[d] = "closed" /\ outcome'[d] = outcome[d]
    BY <1>3 DEF Ended
  <2> QED
    BY <1>1, <1>3, <2>1 DEF Once, InCall, NoEffects
<1> QED
  BY <1>2, <1>3

\* A commit is the only step that changes the contents of the database.
LEMMA Publishes ==
    ASSUME Chosen, Tame, TameInv, NEW c \in Running, Move(c)
    PROVE  /\ \/ /\ Publish(c) /\ Step(c) /\ InCall(c) /\ Live' = Apply(eff[c], Live)
                 /\ acked'[c] = acked[c] + 1
              \/ Live' = Live /\ acked' = acked
           /\ \A d \in Conns \ {c} : acked'[d] = acked[d]
           /\ Live \in Maps /\ program' = program
<1>0. /\ c \in Conns /\ TypeInv /\ Safe(TRUE) /\ acked \in [Conns -> Nat]
      /\ frame[c].name # "compact" /\ Flow(c) /\ Live \in Maps
  BY ChosenFacts, LiveType DEF TameInv, Safe, TypeInv, TypeOK, Separate, ControlInv
<1>1. Moves(c) /\ program' = program
  BY ScriptMoves DEF TameInv
<1>2. ~Rename(c)
  BY <1>0 DEF Rename, Flow, NameFits, InCompact
<1>3. \A d \in Conns \ {c} : acked'[d] = acked[d]
  BY <1>0, <1>1, OthersAcked
<1>4. CASE Publish(c)
  <2>1. Live' = Apply(eff[c], Live)
    BY <1>0, <1>4, PublishFacts
  <2>2. Step(c) /\ InCall(c) /\ acked'[c] = acked[c] + 1
    BY <1>0, <1>4 DEF Step, Body, Publish, InCall
  <2> QED
    BY <1>0, <1>1, <1>3, <1>4, <2>1, <2>2
<1>5. CASE ~Publish(c)
  <2>1. Live' = Live
    BY <1>0, <1>1, <1>2, <1>5, LiveMoves
  <2>2. acked' = acked
    <3>1. CASE ChangesTree(c)
      BY <1>0, <3>1, WriteMoves DEF SameDisk
    <3> QED
      BY <1>0, <1>1, <1>2, <1>5, <3>1, EffectMoves
  <2> QED
    BY <1>0, <1>1, <1>3, <2>1, <2>2
<1> QED
  BY <1>4, <1>5

\* Who has added its one, and the counter under k.
Adders == {c \in Writers : acked[c] = 1}

Sum(k) == Live[k] = Cardinality(Adders)

Counter(k) ==
    \A c \in Running :
        /\ c \in Writers => program[c].key = k
        /\ program[c].key = k => program[c].name \in ReadingNames \cup {"locked", "hopeful"}

LEMMA SumMoves ==
    ASSUME Chosen, Tame, TameInv, NEW k \in Keys, Counter(k), Sum(k),
           \A d \in Running : Private(d), \A d \in Writers : Once(d),
           NEW c \in Running, Move(c)
    PROVE  Sum(k)' /\ ((Publish(c) /\ c \in Writers) \/ Live'[k] = Live[k])
<1>0. /\ c \in Conns /\ acked \in [Conns -> Nat] /\ eff \in [Conns -> [Keys -> Effect]]
      /\ Running \subseteq Conns /\ Writers \subseteq Running /\ IsFiniteSet(Running)
      /\ Live \in Maps /\ program' = program /\ Scripted(c)
  BY ChosenFacts, Publishes DEF Writers, TameInv, Safe, TypeInv, TypeOK
<1>1. Writers' = Writers
  BY <1>0 DEF Writers, Running
<1>2. IsFiniteSet(Adders)
  BY <1>0, FS_Subset DEF Adders
<1>3. CASE Publish(c) /\ InCall(c) /\ Live' = Apply(eff[c], Live) /\ acked'[c] = acked[c] + 1
  <2>1. CASE c \in Writers
    <3>1. eff[c][k] = Inc
      BY <1>3, <2>1 DEF Once, Counter, Publish
    <3>2. acked[c] = 0
      BY <1>0, <1>3, <2>1 DEF Once, Scripted
    <3>3. Live'[k] = Live[k] + 1
      BY <1>0, <1>3, <3>1 DEF Apply, ApplyTo, Inc
    <3>4. Adders' = Adders \cup {c} /\ c \notin Adders
      BY <1>0, <1>1, <1>3, <2>1, <3>2, Publishes DEF Adders
    <3>5. Cardinality(Adders') = Cardinality(Adders) + 1
      BY <1>2, <3>4, FS_AddElement
    <3> QED
      BY <1>3, <2>1, <3>3, <3>5 DEF Sum
  <2>2. CASE c \notin Writers
    <3>1. ~Mine(c, k)
      BY <2>2 DEF Mine, Counter, Writers
    <3>2. eff[c][k] = Keep
      BY <3>1 DEF Private
    <3>3. Live'[k] = Live[k]
      BY <1>0, <1>3, <3>2 DEF Apply, ApplyTo, Keep, Maps
    <3>4. Adders' = Adders
      BY <1>0, <1>1, <2>2, Publishes DEF Adders
    <3> QED
      BY <3>3, <3>4 DEF Sum
  <2> QED
    BY <2>1, <2>2
<1>4. CASE Live' = Live /\ acked' = acked
  BY <1>1, <1>4 DEF Sum, Adders
<1> QED
  BY <1>3, <1>4, Publishes

\* A program that has ended does nothing more.
LEMMA EndedRests ==
    ASSUME Chosen, Tame, TameInv, NEW c \in Running, Move(c)
    PROVE  ~Ended(c)
<1> SUFFICES ASSUME Ended(c) PROVE FALSE
  OBVIOUS
<1>0. c \in Conns /\ Scripted(c) /\ Safe(TRUE) /\ TypeInv
  BY ChosenFacts DEF TameInv, Safe
<1>1. pc[c] = "closed"
  BY <1>0 DEF Ended, Scripted
<1>2. ~Finish(c)
  BY <1>1 DEF Finish
<1>3. ~Work(c)
  <2>1. OnItsWay(c)
    BY <1>0 DEF Scripted, OnItsWay
  <2> QED
    BY <1>0, <1>1, <2>1, WayMoves DEF Work, InCall
<1>4. ~NextCall(c)
  BY <1>0, <1>1, CallFacts DEF NextCall, Scripted, Ended
<1> QED
  BY <1>2, <1>3, <1>4 DEF Move

\* All writers are done, and none was killed.
Over == \A d \in Writers : Ended(d) /\ outcome[d] # "killed"

LEMMA OverStays ==
    ASSUME Chosen, Tame, TameInv, [PNext]_pvars, Over
    PROVE  Over' /\ Writers' = Writers /\ \A d \in Writers : outcome'[d] = outcome[d]
<1>0. /\ Writers \subseteq Running /\ Running \subseteq Conns /\ TypeInv
      /\ program' = program /\ Writers' = Writers
  BY ChosenFacts, ClientStep DEF Writers, Running, TameInv, Safe
<1>1. ASSUME NEW d \in Writers PROVE Ended(d)' /\ outcome'[d] = outcome[d]
  <2>0. d \in Running /\ d \in Conns /\ Ended(d) /\ outcome[d] # "killed"
    BY <1>0 DEF Over
  <2>1. ASSUME NEW c \in Running, Move(c) PROVE Ended(d)' /\ outcome'[d] = outcome[d]
    <3>1. c # d
      BY <2>0, <2>1, EndedRests
    <3>2. Moves(c) /\ outcome'[d] = outcome[d] /\ budget'[d] = budget[d]
      BY <2>0, <2>1, <3>1, ScriptMoves DEF TameInv
    <3>3. Unmoved(d)
      BY <1>0, <2>0, <3>1, <3>2, OthersStay
    <3> QED
      BY <2>0, <3>2, <3>3 DEF Ended, Made, Unmoved
  <2>2. ASSUME NEW p, Killed(p) PROVE Ended(d)' /\ outcome'[d] = outcome[d]
    BY <1>0, <2>0, <2>2, KilledFacts DEF Ended, Made, Unmoved
  <2>3. CASE UNCHANGED work
    BY <2>0, <2>3 DEF work, vars, ctrl, Ended, Made
  <2> QED
    BY <2>1, <2>2, <2>3, StepCases
<1> QED
  BY <1>0, <1>1 DEF Over

\* When all writers are done, those that have added their one have not failed.
LEMMA OverAdders ==
    ASSUME Chosen, Tame, TameInv, Over, \A d \in Writers : Once(d)
    PROVE  Adders = {d \in Writers : outcome[d] = "ok"}
<1>1. ASSUME NEW d \in Writers PROVE acked[d] = 1 <=> outcome[d] = "ok"
  <2>1. /\ d \in Running /\ Scripted(d) /\ Once(d) /\ Len(Script(program[d])) = 2
    BY Scripts DEF TameInv, Writers, Tame, ScriptFacts
  <2>2. Made(d) > 0 /\ pc[d] = "closed" /\ outcome[d] # "killed"
    BY DEF Over, Ended
  <2> QED
    BY <2>1, <2>2 DEF Scripted, Once, InCall
<1> QED
  BY <1>1 DEF Adders

\* The main thread m waits for the writers and has the latest counter.
Waits(m) ==
    /\ Made(m) > 0 /\ outcome[m] # "killed" => Over
    /\ (\E d \in Writers : outcome[d] = "killed") => outcome[m] = "killed"
    /\ pc[m] \notin Unopened => view[m][program[m].key] = Live[program[m].key]

Main(m) ==
    /\ m \in Running /\ program[m].name = "main" /\ Counter(program[m].key)
    /\ \A d \in Writers : Proc[d] = Proc[m]

LEMMA WaitsMoves ==
    ASSUME Chosen, Tame, TameInv, \A d \in Running : Private(d), \A d \in Writers : Once(d),
           NEW m, Main(m), Sum(program[m].key), Waits(m), NEW c \in Running, Move(c),
           [PNext]_pvars
    PROVE  Waits(m)'
<1> DEFINE k == program[m].key
<1>0. /\ c \in Conns /\ m \in Conns /\ m \in Running /\ TypeInv /\ Safe(TRUE)
      /\ Moves(c) /\ program' = program /\ k \in Keys /\ Counter(k) /\ Sum(k)
      /\ Scripted(m) /\ Scripted(m)' /\ budget \in [Conns -> Nat]
      /\ Writers' = Writers /\ Writers \subseteq Running /\ m \notin Writers
      /\ outcome \in [Running -> Outcomes] /\ MaxCalls \in [Conns -> Nat]
      /\ [PNext]_pvars /\ view \in [Conns -> Maps] /\ Flow(m)
  <2>1. TameInv' /\ program' = program
    BY ClientStep, TameStep
  <2>2. Scripted(m)'
    BY <2>1 DEF TameInv, Main, Running
  <2> QED
    BY <2>1, <2>2, ChosenFacts, ScriptMoves, BoundsAssumption
       DEF Main, Writers, Running, TameInv, Safe, TypeInv, TypeOK, Chosen, ControlInv
<1>1. \A d \in Running : outcome'[d] = "killed" <=> outcome[d] = "killed"
  <2>1. \A d \in Running \ {c} : outcome'[d] = outcome[d]
    BY ScriptMoves DEF TameInv
  <2>2. outcome'[c] = "killed" <=> outcome[c] = "killed"
    <3>1. CASE NextCall(c) \/ Finish(c)
      BY <3>1 DEF NextCall, Finish
    <3>2. CASE Work(c)
      <4>1. outcome[c] # "killed"
        BY <3>2, EndedRests DEF Ended
      <4>2. outcome'[c] \in {"raised", outcome[c]}
        BY <1>0, <3>2 DEF Work
      <4> QED
        BY <4>1, <4>2
    <3> QED
      BY <3>1, <3>2 DEF Move
  <2> QED
    BY <2>1, <2>2
<1>2. (\E d \in Writers : outcome'[d] = "killed") => outcome'[m] = "killed"
  BY <1>0, <1>1 DEF Waits
<1>3. Made(m)' > 0 /\ outcome'[m] # "killed" => Over'
  <2> SUFFICES ASSUME Made(m)' > 0, outcome'[m] # "killed" PROVE Over'
    OBVIOUS
  <2>1. CASE Made(m) > 0
    BY <1>0, <1>1, <2>1, OverStays DEF Waits
  <2>2. CASE ~(Made(m) > 0)
    <3>1. budget'[m] # budget[m]
      BY <2>2 DEF Made
    <3>2. c = m
      BY <1>0, <3>1, ScriptMoves DEF TameInv
    <3>3. ~Work(c) /\ ~Finish(c)
      <4>1. Begin(c)
        BY <1>0, <3>1, BudgetMoves
      <4>2. pc[c] \in {"idle", "closed"} /\ pc'[c] # "closed"
        BY <1>0, <4>1, BeginFacts DEF InCall
      <4>3. ~Finish(c)
        BY <1>0, <4>2, LeaveHere DEF Finish, Close
      <4>4. ~Work(c)
        <5>1. OnItsWay(c)
          BY <3>2, <1>0 DEF Scripted, OnItsWay
        <5> QED
          BY <1>0, <4>2, <5>1, WayMoves DEF Work, InCall
      <4> QED
        BY <4>3, <4>4
    <3>4. NextCall(m) /\ outcome[m] = "ok"
      BY <3>2, <3>3 DEF Move, NextCall
    <3>5. ASSUME NEW d \in Writers PROVE Ended(d) /\ outcome[d] # "killed"
      <4>1. d \in Running \ {m} /\ Proc[d] = Proc[m]
        BY <1>0 DEF Main
      <4>2. Ended(d)
        BY <3>4, <4>1 DEF NextCall, Joined, Main
      <4> QED
        BY <3>4, <4>2 DEF Waits
    <3> QED
      BY <1>0, <3>5, OverStays DEF Over
  <2> QED
    BY <2>1, <2>2
<1>4. pc'[m] \notin Unopened => view'[m][k] = Live'[k]
  <2> SUFFICES ASSUME pc'[m] \notin Unopened PROVE view'[m][k] = Live'[k]
    OBVIOUS
  <2>1. CASE c = m
    <3>1. Live'[k] = Live[k]
      BY <1>0, <2>1, SumMoves
    <3>2. Refresh(m) => view'[m][k] = Live'[k]
      BY <1>0, <3>1, RefreshHere DEF Safe, OneFile, Live
    <3>3. CASE pc[m] \in Unopened
      BY <1>0, <2>1, <3>2, <3>3, OpeningMoves
    <3>4. CASE pc[m] \notin Unopened
      <4>1. ~ChangesTree(m)
        <5> SUFFICES ASSUME ChangesTree(m) PROVE FALSE
          OBVIOUS
        <5>1. InCall(m) /\ frame[m].name \in {"set", "del", "update", "optimistic"}
          BY <1>0, WriteKey DEF Flow, NameFits, AwaitsValidation
        <5>2. program[m].name \in ReadingNames
          BY DEF Main, ReadingNames
        <5> QED
          BY <1>0, <5>1, <5>2, CallIs
      <4>2. ~Close(m) /\ pc'[m] # "super"
        BY <1>0, LeaveHere DEF Close, Unopened
      <4>3. view'[m] = view[m] \/ Refresh(m)
        BY <1>0, <2>1, <4>1, <4>2, ViewMoves DEF TypeInv, TypeOK
      <4> QED
        BY <3>1, <3>2, <3>4, <4>3 DEF Waits
    <3> QED
      BY <3>3, <3>4
  <2>2. CASE c # m
    <3>1. Unmoved(m)
      BY <1>0, <2>2, OthersStay
    <3>2. Made(m) > 0 /\ outcome[m] # "killed"
      BY <1>0, <3>1 DEF Scripted, Unmoved, InCall, Unopened
    <3>3. ~(c \in Writers)
      BY <3>2, EndedRests DEF Waits, Over
    <3>4. Live'[k] = Live[k]
      BY <1>0, <3>3, SumMoves
    <3> QED
      BY <3>1, <3>4 DEF Waits, Unmoved
  <2> QED
    BY <2>1, <2>2
<1> QED
  BY <1>0, <1>2, <1>3, <1>4 DEF Waits

LEMMA WaitsKilled ==
    ASSUME Chosen, Tame, TameInv, [PNext]_pvars, NEW m, Main(m), Waits(m), NEW p, Killed(p)
    PROVE  Waits(m)'
<1>0. /\ m \in Running /\ m \in Conns /\ TypeInv /\ Writers' = Writers
      /\ Writers \subseteq Running /\ Running \subseteq Conns /\ program' = program
      /\ SameDisk /\ budget'[m] = budget[m]
      /\ \A d \in Running :
            outcome'[d] = IF Proc[d] = p /\ ~Ended(d) THEN "killed" ELSE outcome[d]
  <2>1. m \in Running /\ Running \subseteq Conns
    BY ChosenFacts DEF Main
  <2>2. TypeInv
    BY DEF TameInv, Safe
  <2>3. program' = program
    BY DEF Killed
  <2>4. Writers' = Writers /\ Writers \subseteq Running
    BY <2>3 DEF Writers, Running
  <2>5. \A d \in Running :
            outcome'[d] = IF Proc[d] = p /\ ~Ended(d) THEN "killed" ELSE outcome[d]
    BY DEF Killed
  <2> QED
    BY <2>1, <2>2, <2>3, <2>4, <2>5, KilledFacts
<1>1. outcome'[m] # "killed" => outcome[m] # "killed"
  BY <1>0
<1>2. Made(m)' > 0 /\ outcome'[m] # "killed" => Over'
  BY <1>0, <1>1, OverStays DEF Waits, Made
<1>3. ASSUME NEW d \in Writers, outcome'[d] = "killed" PROVE outcome'[m] = "killed"
  <2>1. CASE outcome[d] = "killed"
    BY <1>0, <2>1 DEF Waits
  <2>2. CASE Proc[d] = p /\ ~Ended(d) /\ outcome[d] # "killed"
    <3>1. Proc[m] = p
      BY <2>2 DEF Main
    <3>2. Ended(m) => outcome[m] = "killed"
      BY <2>2 DEF Waits, Over, Ended
    <3> QED
      BY <1>0, <3>1, <3>2
  <2> QED
    BY <1>0, <1>3, <2>1, <2>2
<1>4. pc'[m] \notin Unopened => view'[m][program[m].key] = Live'[program[m].key]
  <2>1. Live' = Live
    BY <1>0 DEF SameDisk, Live, Current, Content
  <2>2. Unmoved(m) \/ pc'[m] = "closed"
    BY <1>0, KilledFacts
  <2> QED
    BY <2>1, <2>2 DEF Waits, Unmoved, Unopened
<1> QED
  BY <1>0, <1>2, <1>3, <1>4 DEF Waits

\* The invariant of the programs of benchmark_update.py.
Counting ==
    /\ Tame /\ \E m \in Running : program[m].name = "main"
    /\ \A m \in Running : program[m].name = "main" => Main(m)

\* Nobody reports after a late creator has emptied the file: so far this is
\* CounterExact without its condition.
Counted ==
    \A n \in reported :
        n = Cardinality({c \in Writers : outcome[c] = "ok"})

CountInv ==
    /\ TameInv
    /\ \A d \in Running : Private(d)
    /\ \A d \in Writers : Once(d)
    /\ \A m \in Running : Main(m) => Sum(program[m].key) /\ Waits(m)
    /\ reported # {} => Over
    /\ Counted

LEMMA CountingKept == Chosen /\ [PNext]_pvars => (Counting' <=> Counting)
<1> SUFFICES ASSUME Chosen, [PNext]_pvars PROVE Counting' <=> Counting
  OBVIOUS
<1>1. program' = program
  BY ClientStep
<1>2. Running' = Running /\ Writers' = Writers
  BY <1>1 DEF Running, Writers
<1>3. Tame' <=> Tame
  BY TameKept
<1> QED
  BY <1>1, <1>2, <1>3 DEF Counting, Main, Counter

LEMMA CountMoves ==
    ASSUME Chosen, Counting, CountInv, NEW c \in Running, Move(c), [PNext]_pvars
    PROVE  /\ \A d \in Running : Private(d)'
           /\ \A d \in Writers : Once(d)'
           /\ \A m \in Running : Main(m) => Sum(program[m].key)' /\ Waits(m)'
<1>0. /\ Tame /\ TameInv /\ Safe(TRUE) /\ TypeInv /\ Running \subseteq Conns
      /\ Writers \subseteq Running /\ c \in Conns /\ Moves(c) /\ program' = program
      /\ \A d \in Running : program[d].key \in Keys
      /\ \A d \in Conns \ {c} : budget'[d] = budget[d] /\ acked'[d] = acked[d] /\ Unmoved(d)
      /\ \A d \in Running \ {c} : outcome'[d] = outcome[d]
  <2>1. Tame /\ TameInv /\ Safe(TRUE) /\ TypeInv /\ Writers \subseteq Running
    BY DEF Counting, CountInv, TameInv, Safe, Writers
  <2>2. /\ Moves(c) /\ program' = program /\ c \in Conns
        /\ \A d \in Conns \ {c} : budget'[d] = budget[d]
        /\ \A d \in Running \ {c} : outcome'[d] = outcome[d]
    BY <2>1, ChosenFacts, ScriptMoves DEF TameInv
  <2>3. \A d \in Conns \ {c} : Unmoved(d)
    BY <2>1, <2>2, OthersStay
  <2> QED
    BY <2>1, <2>2, <2>3, ChosenFacts, Publishes
<1>1. ASSUME NEW d \in Running PROVE Private(d)'
  <2>1. CASE d = c
    BY <1>0, <2>1, PrivateMoves DEF CountInv
  <2>2. CASE d # c
    BY <1>0, <2>2 DEF CountInv, Private, Mine, Unmoved
  <2> QED
    BY <2>1, <2>2
<1>2. ASSUME NEW d \in Writers PROVE Once(d)'
  <2>1. CASE d = c
    BY <1>0, <2>1, OnceMoves DEF CountInv
  <2>2. CASE d # c
    BY <1>0, <2>2, OnceStays DEF CountInv
  <2> QED
    BY <2>1, <2>2
<1>3. ASSUME NEW m \in Running, Main(m) PROVE Sum(program[m].key)' /\ Waits(m)'
  <2>1. Sum(program[m].key) /\ Waits(m) /\ program[m].key \in Keys /\ Counter(program[m].key)
    BY <1>0, <1>3 DEF CountInv, Main
  <2>2. (\A d \in Running : Private(d)) /\ (\A d \in Writers : Once(d))
    BY DEF CountInv
  <2>3. Waits(m)'
    BY <1>0, <1>3, <2>1, <2>2, WaitsMoves
  <2> DEFINE k == program[m].key
  <2>4. k' = k
    BY <1>0
  <2> HIDE DEF k
  <2>5. Sum(k)'
    BY <1>0, <2>1, <2>2, SumMoves DEF k
  <2> QED
    BY <2>3, <2>5 DEF k
<1> QED
  BY <1>1, <1>2, <1>3

LEMMA CountStep ==
    ASSUME Chosen, Counting, CountInv, [PNext]_pvars
    PROVE  CountInv'
<1>0. /\ Tame /\ TameInv /\ TypeInv /\ TameInv' /\ program' = program /\ Running' = Running
      /\ Writers' = Writers /\ Writers \subseteq Running /\ Running \subseteq Conns
      /\ \A d \in Running : program[d].key \in Keys
      /\ \A m \in Running : Main(m)' <=> Main(m)
  <2>1. Tame /\ TameInv /\ TypeInv
    BY DEF Counting, CountInv, TameInv, Safe
  <2>2. TameInv' /\ program' = program
    BY <2>1, ClientStep, TameStep
  <2>3. Running' = Running /\ Writers' = Writers /\ Writers \subseteq Running
    BY <2>2 DEF Running, Writers
  <2>4. \A m \in Running : Main(m)' <=> Main(m)
    BY <2>2, <2>3 DEF Main, Counter
  <2> QED
    BY <2>1, <2>2, <2>3, <2>4, ChosenFacts
<1> DEFINE Data ==
             /\ \A d \in Running : Private(d)'
             /\ \A d \in Writers : Once(d)'
             /\ \A m \in Running : Main(m) => Sum(program[m].key)' /\ Waits(m)'
           Exact(S) == \A n \in S : n = Cardinality({d \in Writers : outcome[d] = "ok"})
<1>1. ASSUME NEW c \in Running, Move(c) PROVE Data
  BY <1>1, CountMoves
<1>2. ASSUME NEW p, Killed(p) PROVE Data
  <2>0. /\ SameDisk /\ program' = program /\ Live' = Live
        /\ \A d \in Conns :
              /\ budget'[d] = budget[d]
              /\ \/ Unmoved(d) /\ (d \in Running => outcome'[d] = outcome[d])
                 \/ /\ pc'[d] = "closed" /\ eff'[d] = NoEffects
                    /\ d \in Running =>
                          outcome'[d] = IF Ended(d) THEN outcome[d] ELSE "killed"
    <3>1. \A d \in Conns : SameDisk /\ program' = program
      BY <1>0, <1>2, KilledFacts
    <3>2. SameDisk /\ program' = program
      BY <3>1, ConnsAssumption
    <3>3. Live' = Live
      BY <3>2 DEF SameDisk, Live, Current, Content
    <3> QED
      BY <1>0, <1>2, <3>2, <3>3, KilledFacts
  <2>1. ASSUME NEW d \in Running PROVE Private(d)'
    BY <1>0, <2>0 DEF CountInv, Private, Mine, Unmoved, NoEffects
  <2>2. ASSUME NEW d \in Writers PROVE Once(d)'
    <3>1. Once(d) /\ d \in Conns /\ d \in Running /\ acked'[d] = acked[d]
      BY <1>0, <2>0 DEF CountInv, SameDisk
    <3> QED
      BY <1>0, <2>0, <3>1, OnceStays
  <2>3. ASSUME NEW m \in Running, Main(m) PROVE Sum(program[m].key)' /\ Waits(m)'
    <3>1. Waits(m) /\ Sum(program[m].key)
      BY <2>3 DEF CountInv
    <3>2. Waits(m)'
      BY <1>0, <1>2, <2>3, <3>1, WaitsKilled
    <3>3. Sum(program[m].key)'
      BY <1>0, <2>0, <3>1 DEF Sum, Adders, SameDisk
    <3> QED
      BY <3>2, <3>3
  <2> QED
    BY <2>1, <2>2, <2>3
<1>3. ASSUME UNCHANGED work PROVE Data
  <2>1. /\ outcome' = outcome /\ budget' = budget /\ pc' = pc /\ frame' = frame
        /\ eff' = eff /\ acked' = acked /\ view' = view /\ Live' = Live
    BY <1>3 DEF work, vars, disk, conn, ctrl, history, Live, Current, Content
  <2>2. \A d \in Running : Private(d)'
    BY <1>0, <2>1 DEF CountInv, Private, Mine
  <2>3. ASSUME NEW d \in Writers PROVE Once(d)'
    BY <1>0, <2>1, <2>3 DEF CountInv, Once, InCall, Made
  <2>4. ASSUME NEW m \in Running, Main(m) PROVE Sum(program[m].key)' /\ Waits(m)'
    BY <1>0, <2>1, <2>4 DEF CountInv, Sum, Adders, Waits, Over, Ended, Made
  <2> QED
    BY <2>2, <2>3, <2>4
<1>4. Data
  BY <1>1, <1>2, <1>3, StepCases
<1>5. /\ Over => Over' /\ \A d \in Writers : outcome'[d] = outcome[d]
  BY <1>0, OverStays
<1>6. ASSUME reported' = reported PROVE Counted' /\ (reported' # {} => Over')
  <2>1. CASE reported = {}
    BY <1>6, <2>1 DEF Counted
  <2>2. CASE reported # {}
    <3>1. Over /\ Counted
      BY <2>2 DEF CountInv
    <3>2. {d \in Writers : outcome[d] = "ok"}' = {d \in Writers : outcome[d] = "ok"}
      BY <1>0, <1>5, <3>1
    <3> QED
      BY <1>5, <1>6, <3>1, <3>2 DEF Counted
  <2> QED
    BY <2>1, <2>2
<1>7. ASSUME NEW c \in Running, Work(c), program[c].name = "main", pc[c] = "read"
      PROVE  Counted' /\ (reported' # {} => Over')
  <2> DEFINE k == program[c].key
  <2>1. Main(c) /\ Scripted(c) /\ Waits(c) /\ Sum(k)
    BY <1>7 DEF Counting, CountInv, TameInv
  <2>2. InCall(c)
    BY <1>7 DEF InCall
  <2>3. frame[c].key = k
    <3>1. /\ OnItsWay(c)
          /\ \/ Made(c) = 1 /\ frame[c].name = "connect"
             \/ frame[c].name # "commit" => frame[c].key = k
      BY <1>0, <2>1, <2>2, CallIs DEF k
    <3> QED
      BY <1>7, <2>2, <3>1 DEF OnItsWay, Reopens, Awaits
  <2>4. Over /\ view[c][k] = Live[k]
    BY <1>7, <2>1, <2>2 DEF Waits, Scripted, Unopened
  <2>5. reported' = {Cardinality(Adders)}
    BY <1>7, <2>1, <2>3, <2>4 DEF Work, Report, Sum
  <2>6. Adders = {d \in Writers : outcome[d] = "ok"}
    BY <1>0, <2>4, OverAdders DEF CountInv
  <2>7. {d \in Writers : outcome[d] = "ok"}' = {d \in Writers : outcome[d] = "ok"}
    BY <1>0, <1>5, <2>4
  <2> QED
    BY <1>5, <2>4, <2>5, <2>6, <2>7 DEF Counted
<1>8. Counted' /\ (reported' # {} => Over')
  <2>1. ASSUME NEW c \in Running, Move(c) PROVE Counted' /\ (reported' # {} => Over')
    BY <1>6, <1>7, <2>1 DEF Move, NextCall, Work, Finish, Report
  <2>2. ASSUME NEW p, Killed(p) PROVE reported' = reported
    BY <2>2 DEF Killed
  <2>3. CASE UNCHANGED work
    BY <1>6, <2>3 DEF work
  <2> QED
    BY <1>6, <2>1, <2>2, <2>3, StepCases
<1> QED
  BY <1>0, <1>4, <1>8 DEF CountInv

LEMMA CountInit == PInit /\ Counting => CountInv
<1> SUFFICES ASSUME PInit, Counting PROVE CountInv
  OBVIOUS
<1>1. /\ TameInv /\ Chosen /\ Running \subseteq Conns /\ Writers \subseteq Running
      /\ \A d \in Running : program[d].key \in Keys
  BY TameInit, ChosenInit, ChosenFacts DEF Counting, Writers
<1>2. ASSUME NEW d \in Running
      PROVE  /\ Made(d) = 0 /\ pc[d] = "closed" /\ outcome[d] = "ok" /\ acked[d] = 0
             /\ \A k \in Keys : eff[d][k] = Keep
  BY <1>1, BoundsAssumption DEF PInit, Init, Made, NoEffects
<1>3. ASSUME NEW k \in Keys PROVE Sum(k)
  <2>1. Live[k] = 0
    BY StoreInit, StoreSame DEF PInit, Store!Init, EmptyMap, Absent
  <2>2. Adders = {}
    BY <1>1, <1>2 DEF Adders
  <2> QED
    BY <2>1, <2>2, FS_EmptySet DEF Sum
<1>4. ASSUME NEW m \in Running PROVE Waits(m)
  BY <1>1, <1>2 DEF Waits, Unopened
<1>5. \A d \in Writers : Once(d)
  BY <1>1, <1>2 DEF Once, InCall
<1>6. reported = {}
  BY DEF PInit
<1> QED
  BY <1>1, <1>2, <1>3, <1>4, <1>5, <1>6 DEF CountInv, Private, Counted

\* What benchmark_update.py calls correct: the counter its main thread reads is
\* the number of writers less those that gave up, for every number of threads,
\* both ways of locking, with readers, other keys and killed processes beside,
\* from a path that does not exist on, unless a thread that had found no file
\* has emptied the one that another has created and given its superblock.
THEOREM CountersExact ==
    ASSUME CounterApart PROVE PSpec => []CounterExact
<1> DEFINE NoMain == \A m \in Running : program[m].name # "main"
           I == /\ Chosen /\ (Counting => CountInv)
                /\ NoMain => reported = {}
<1>1. Chosen => NoMain \/ Counting
  <2> SUFFICES ASSUME Chosen, NEW m \in Running, program[m].name = "main" PROVE Counting
    OBVIOUS
  <2>1. ASSUME NEW n \in Running, program[n].name = "main" PROVE Tame /\ Main(n)
    BY <2>1, ChosenFacts
       DEF CounterApart, Chosen, Running, Tame, TameNames, Main, Counter, Writers
  <2> QED
    BY <2>1 DEF Counting
<1>2. PInit => I
  BY ChosenInit, CountInit DEF PInit
<1>3. I /\ [PNext]_pvars => I'
  <2> SUFFICES ASSUME I, [PNext]_pvars PROVE I'
    OBVIOUS
  <2>1. Chosen' /\ program' = program /\ (NoMain' <=> NoMain)
    BY ClientStep DEF Running
  <2>2. (Counting => CountInv)'
    BY CountingKept, CountStep
  <2>3. NoMain => reported' = {}
    <3> SUFFICES ASSUME NoMain PROVE reported' = {}
      OBVIOUS
    <3>1. ASSUME NEW c \in Running, Move(c) PROVE reported' = reported
      BY <3>1 DEF Move, NextCall, Work, Finish, Report
    <3>2. ASSUME NEW p, Killed(p) PROVE reported' = reported
      BY <3>2 DEF Killed
    <3> QED
      BY <3>1, <3>2, StepCases DEF work
  <2> QED
    BY <2>1, <2>2, <2>3
<1>4. I => CounterExact
  <2>1. NoMain /\ (NoMain => reported = {}) => Counted
    BY DEF Counted
  <2> QED
    BY <1>1, <2>1 DEF CountInv, Counted, CounterExact
<1> HIDE DEF I
<1> QED
  BY <1>2, <1>3, <1>4, PTL DEF PSpec

(***************************************************************************)
(* The commands set and delete.                                            *)
(***************************************************************************)
Savers == {c \in Running : program[c].name \in {"set", "delete"}}

Own(c) == Put(IF program[c].name = "set" THEN program[c].val ELSE Absent)

\* Between its write and its commit.
Unsaved(c) ==
    \/ pc[c] = "publish"
    \/ pc[c] = "idle" /\ Made(c) = 2 /\ outcome[c] = "ok"

Saves(c) ==
    /\ eff[c][program[c].key] = IF Unsaved(c) THEN Own(c) ELSE Keep
    /\ Unsaved(c) => locked[c]
    /\ acked[c] \in {0, 1}
    /\ acked[c] = 1 => Made(c) = 3 /\ ~InCall(c)

\* A delete that is about to be committed is of a key that is there.
Found(c) ==
    Unsaved(c) /\ program[c].name = "delete" => Live[program[c].key] # Absent

LEMMA SaverCalls ==
    ASSUME Chosen, Tame, TypeInv, NEW c \in Savers, Scripted(c), NextCall(c)
    PROVE  Made(c) \in {0, 1, 2} /\ (frame'[c].name = "commit" <=> Made(c) = 2)
<1> DEFINE s == Script(program[c])
           n == Made(c)
<1>1. /\ c \in Running /\ program[c].name \in {"set", "delete"}
      /\ ScriptFacts(program[c])
  BY Scripts DEF Savers, Tame
<1>2. /\ n \in Nat /\ n + 1 \in 1..Len(s) /\ frame'[c].name = s[n + 1].name
  BY <1>1, CallFacts
<1>3. CASE n = 0
  BY <1>1, <1>2, <1>3 DEF ScriptFacts, Opening, Call
<1>4. CASE n > 0
  <2>1. n + 1 \in 2..Len(s)
    BY <1>1, <1>2, <1>4 DEF ScriptFacts
  <2>2. n + 1 \in {2, 3} /\ (n + 1 = 3 <=> s[n + 1].name = "commit")
    BY <1>1, <2>1 DEF ScriptFacts
  <2> QED
    BY <1>2, <2>2
<1> QED
  BY <1>2, <1>3, <1>4

\* A command saves what it has written, under the lock, once.
LEMMA SavesMoves ==
    ASSUME Chosen, Tame, TameInv, NEW c \in Savers, Saves(c), Move(c)
    PROVE  Saves(c)'
<1>0. /\ c \in Running /\ c \in Conns /\ TypeInv
      /\ eff \in [Conns -> [Keys -> Effect]] /\ acked \in [Conns -> Nat]
      /\ program[c].name \in {"set", "delete"} /\ program[c].key \in Keys
      /\ Scripted(c) /\ Safe(TRUE) /\ Flow(c)
      /\ outcome \in [Running -> Outcomes]
  BY ChosenFacts DEF Savers, TameInv, Safe, TypeInv, TypeOK, ControlInv, Chosen
<1>1. Moves(c) /\ program' = program /\ Own(c)' = Own(c)
  BY <1>0, ScriptMoves DEF Own
<1> DEFINE k == program[c].key
<1>2. CASE NextCall(c)
  <2>1. /\ outcome[c] = "ok" /\ outcome' = outcome /\ Begin(c) /\ InCall(c)' /\ OnItsWay(c)'
        /\ Made(c) \in Nat /\ Made(c)' = Made(c) + 1
        /\ Made(c) > 0 => UNCHANGED conn /\ UNCHANGED history
        /\ Made(c) = 0 <=> pc[c] = "closed"
    BY <1>0, <1>2, CallFacts DEF NextCall
  <2>2. Made(c) \in {0, 1, 2} /\ (frame'[c].name = "commit" <=> Made(c) = 2)
    BY <1>0, <1>2, SaverCalls
  <2>3. acked[c] = 0
    BY <2>2 DEF Saves
  <2>4. pc[c] \in {"closed", "idle"} /\ (Made(c) > 0 => pc[c] = "idle")
    BY <1>0, <2>1, BeginFacts
  <2>5. pc'[c] = "publish" => Made(c) = 2
    BY <1>0, <2>1, <2>2, BeginFacts
  <2>6. CASE Made(c) = 0
    <3>1. Connect(c)
      BY <1>0, <2>1, <2>6, BeginsConnect
    <3>2. eff'[c] = NoEffects /\ acked' = acked
      BY <1>0, <3>1, OpenHere DEF Connect
    <3> QED
      BY <1>0, <1>1, <2>1, <2>3, <2>5, <2>6, <3>2 DEF Saves, Unsaved, InCall, NoEffects
  <2>7. CASE Made(c) = 1
    <3>1. eff' = eff /\ acked' = acked /\ eff[c][k] = Keep
      BY <2>1, <2>4, <2>7 DEF Saves, Unsaved, history
    <3> QED
      BY <1>1, <2>1, <2>3, <2>5, <2>7, <3>1 DEF Saves, Unsaved, InCall
  <2>8. CASE Made(c) = 2
    <3>1. eff[c][k] = Own(c) /\ locked[c]
      BY <2>1, <2>4, <2>8 DEF Saves, Unsaved
    <3>2. eff' = eff /\ acked' = acked /\ locked' = locked
      BY <2>1, <2>8 DEF history, conn
    <3>3. pc'[c] = "publish"
      BY <2>1, <2>2, <2>8 DEF OnItsWay, InCall, Reopens, Awaits
    <3> QED
      BY <1>1, <2>3, <3>1, <3>2, <3>3 DEF Saves, Unsaved
  <2> QED
    BY <2>2, <2>6, <2>7, <2>8
<1>3. CASE Work(c)
  <2>1. /\ Step(c)
        /\ outcome' = IF Raising(c) /\ program[c].name \notin {"reader", "main"}
                      THEN [outcome EXCEPT ![c] = "raised"] ELSE outcome
    BY <1>3 DEF Work
  <2>2. /\ InCall(c) /\ pc'[c] # "closed" /\ budget' = budget
        /\ (pc'[c] = "idle" /\ Returns(c)) \/ (InCall(c)' /\ SameCall(c))
        /\ pc'[c] = "publish" => Update(c) \/ ValidateOK(c)
    <3>1. OnItsWay(c)
      BY <1>0 DEF Scripted, OnItsWay
    <3> QED
      BY <1>0, <2>1, <3>1, WayMoves
  <2>3. /\ outcome[c] = "ok" /\ Made(c) \in {1, 2, 3} /\ Made(c)' = Made(c) /\ OnItsWay(c)
        /\ Made(c) = 1 => frame[c].name = "connect"
        /\ Made(c) = 2 => frame[c].name \in {"set", "del"} /\ frame[c].key = k
        /\ Made(c) = 3 => frame[c].name = "commit"
        /\ frame[c].name = "set" => program[c].name = "set" /\ frame[c].val = program[c].val
        /\ frame[c].name = "del" => program[c].name = "delete"
    BY <1>0, <2>2, CallIs DEF Made
  <2>4. acked[c] = 0
    BY <2>2 DEF Saves
  <2>5. CASE pc[c] = "publish"
    <3>1. Publish(c)
      BY <1>0, <2>1, <2>5, AtPublish
    <3>2. eff'[c] = NoEffects /\ acked'[c] = 1 /\ pc'[c] = "idle"
      BY <1>0, <2>4, <3>1, ReturnHere DEF Publish, Forget
    <3>3. Made(c) = 3
      BY <2>3, <2>5 DEF OnItsWay, InCall, Reopens, Awaits
    <3> QED
      BY <1>0, <1>1, <2>3, <3>2, <3>3 DEF Saves, Unsaved, InCall, NoEffects
  <2>6. CASE Set(c) \/ Del(c)
    <3>1. /\ pc[c] = "body" /\ frame[c].name \in {"set", "del"} /\ Made(c) = 2
          /\ frame[c].key = k /\ pc'[c] = "idle" /\ acked' = acked
      BY <1>0, <2>3, <2>6, ReturnHere DEF Set, Del, ApplyHere
    <3>2. locked'[c]
      BY <1>0, <2>3, <2>6, <3>1, ReturnsLocked DEF Returns
    <3>3. eff'[c][k] = Own(c)
      <4>1. ApplyHere(c, k, Own(c))
        BY <2>3, <2>6, <3>1 DEF Set, Del, Own
      <4>2. eff'[c][k] = Compose(eff[c][k], Own(c))
        BY <1>0, <4>1, OwnKey
      <4> QED
        BY <4>2 DEF Compose, Own, Put
    <3>4. outcome' = outcome
      BY <2>1, <2>6, <3>1 DEF Raising, Set, Del
    <3> QED
      BY <1>1, <2>3, <2>4, <3>1, <3>2, <3>3, <3>4 DEF Saves, Unsaved, InCall
  <2>7. CASE pc[c] # "publish" /\ ~Set(c) /\ ~Del(c)
    <3>1. ~Update(c) /\ ~ValidateOK(c) /\ ~ValidateFails(c) /\ ~Publish(c) /\ ~Rename(c)
      <4>1. frame[c].name \notin {"update", "optimistic", "compact"}
        BY <2>3
      <4> QED
        BY <1>0, <2>7, <4>1
           DEF Update, ValidateOK, ValidateFails, Publish, Rename, Flow, NameFits,
               AwaitsValidation, InCompact
    <3>2. acked' = acked /\ (eff' = eff \/ Forget(c))
      BY <1>0, <1>1, <2>7, <3>1, EffectMoves DEF ChangesTree
    <3>3. eff[c][k] = Keep
      BY <2>2, <2>7 DEF Saves, Unsaved, InCall
    <3>4. eff'[c][k] = Keep
      BY <1>0, <3>2, <3>3 DEF Forget, NoEffects
    <3>5. pc'[c] # "publish"
      BY <2>2, <3>1
    <3>6. pc'[c] = "idle" /\ Made(c) = 2 => outcome'[c] # "ok"
      <4> SUFFICES ASSUME pc'[c] = "idle", Made(c) = 2 PROVE outcome'[c] # "ok"
        OBVIOUS
      <4>1. Returns(c) /\ frame[c].name \in {"set", "del"}
        BY <2>2, <2>3 DEF InCall
      <4>2. ~Read(c) /\ ~InitTree(c)
        <5>1. pc[c] # "read" /\ pc[c] # "init"
          BY <2>2, <2>3, <4>1 DEF OnItsWay, InCall, Reopens, Awaits
        <5> QED
          BY <5>1 DEF Read, InitTree
      <4>3. DelMissing(c)
        BY <2>7, <3>1, <4>1, <4>2 DEF Returns
      <4>4. Raising(c)
        BY <4>3 DEF Raising, DelMissing
      <4>5. outcome' = [outcome EXCEPT ![c] = "raised"]
        BY <1>0, <2>1, <4>4
      <4> QED
        BY <1>0, <4>5
    <3> QED
      BY <1>1, <2>3, <2>4, <3>2, <3>4, <3>5, <3>6 DEF Saves, Unsaved
  <2> QED
    BY <2>5, <2>6, <2>7
<1>4. CASE Finish(c)
  <2>1. /\ pc[c] = "idle" /\ Close(c) /\ budget' = budget /\ acked' = acked /\ Forget(c)
    BY <1>4 DEF Finish, Close
  <2>2. pc'[c] = "closed" /\ eff'[c] = NoEffects
    BY <1>0, <2>1, LeaveHere DEF Close, Forget
  <2>3. Made(c)' = Made(c)
    BY <2>1 DEF Made
  <2> QED
    BY <1>0, <1>1, <2>1, <2>2, <2>3 DEF Saves, Unsaved, InCall, NoEffects
<1> QED
  BY <1>2, <1>3, <1>4 DEF Move

LEMMA SavesStays ==
    ASSUME NEW d, Saves(d), program' = program, budget'[d] = budget[d],
           acked'[d] = acked[d],
           \/ Unmoved(d) /\ outcome'[d] = outcome[d]
           \/ pc'[d] = "closed" /\ eff'[d] = NoEffects /\ program[d].key \in Keys
    PROVE  Saves(d)'
<1>1. Made(d)' = Made(d) /\ Own(d)' = Own(d)
  BY DEF Made, Own
<1>2. CASE Unmoved(d) /\ outcome'[d] = outcome[d]
  BY <1>1, <1>2 DEF Saves, Unsaved, Unmoved, InCall
<1>3. CASE pc'[d] = "closed" /\ eff'[d] = NoEffects /\ program[d].key \in Keys
  BY <1>1, <1>3 DEF Saves, Unsaved, InCall, NoEffects
<1> QED
  BY <1>2, <1>3

\* A delete has found its key in the latest tree, under the lock.
LEMMA FoundMoves ==
    ASSUME Chosen, Tame, TameInv, NEW c \in Savers, Saves(c), Found(c), Move(c)
    PROVE  Found(c)'
<1>0. /\ c \in Running /\ c \in Conns /\ TypeInv
      /\ eff \in [Conns -> [Keys -> Effect]]
      /\ program[c].key \in Keys /\ Scripted(c) /\ Safe(TRUE) /\ Flow(c)
  BY ChosenFacts DEF Savers, TameInv, Safe, TypeInv, TypeOK, ControlInv
<1>1. Moves(c) /\ program' = program /\ Saves(c)'
  BY <1>0, ScriptMoves, SavesMoves
<1> DEFINE k == program[c].key
<1> SUFFICES ASSUME Unsaved(c)', program[c].name = "delete" PROVE Live'[k] # Absent
  BY <1>1 DEF Found
<1>2. eff'[c][k] # Keep
  BY <1>1 DEF Saves, Own, Put, Keep
<1>3. ~Publish(c) /\ ~Rename(c) /\ ~Forget(c)
  BY <1>0, <1>2 DEF Publish, Rename, Forget, NoEffects
<1>4. Live' = Live
  BY <1>0, <1>1, <1>3, LiveMoves
<1>5. CASE Unsaved(c)
  BY <1>4, <1>5 DEF Found
<1>6. CASE ~Unsaved(c)
  <2>1. eff[c][k] = Keep
    BY <1>6 DEF Saves
  <2>2. ChangesTree(c)
    BY <1>0, <1>1, <1>2, <1>3, <2>1, EffectMoves
  <2>3. InCall(c) /\ frame[c].name \in {"set", "del", "update", "optimistic"}
    BY <1>0, <2>2, WriteKey DEF Flow, NameFits, AwaitsValidation
  <2>4. frame[c].name = "del" /\ frame[c].key = k
    BY <1>0, <2>3, CallIs
  <2>5. Del(c)
    BY <1>0, <2>2, <2>4
       DEF ChangesTree, Set, Update, ValidateOK, Flow, NameFits, AwaitsValidation
  <2>6. locked[c] /\ Settled(c) /\ view[c][k] # Absent
    BY <1>0, <2>4, <2>5 DEF Del, Safe, OneFile, BodyUnlocked, Settled
  <2>7. view[c] = Apply(eff[c], Live) /\ Live \in Maps
    BY <1>0, <2>6, LiveType DEF Safe, SessionInv, Fresh
  <2>8. view[c][k] = Live[k]
    BY <1>0, <2>1, <2>7 DEF Apply, ApplyTo, Keep, Maps
  <2> QED
    BY <1>4, <2>6, <2>8
<1> QED
  BY <1>5, <1>6

LEMMA FoundStays ==
    ASSUME Chosen, Tame, TameInv, NEW c \in Running, Move(c),
           NEW d \in Savers, d # c, Saves(d), Found(d), Unmoved(d),
           budget'[d] = budget[d], outcome'[d] = outcome[d]
    PROVE  Found(d)'
<1>0. c \in Conns /\ d \in Conns /\ Safe(TRUE) /\ Moves(c) /\ program' = program
  BY ChosenFacts, ScriptMoves DEF Savers, TameInv
<1>1. Unsaved(d)' <=> Unsaved(d)
  BY <1>0 DEF Unsaved, Unmoved, Made
<1>2. CASE Unsaved(d)
  <2>1. locked[d] /\ Settled(d)
    BY <1>2 DEF Saves, Unsaved, Settled
  <2>2. Live' = Live
    BY <1>0, <2>1, HolderStays DEF SameDisk, Live, Current, Content
  <2> QED
    BY <1>0, <1>1, <2>2 DEF Found
<1> QED
  BY <1>1, <1>2 DEF Found

\* What was deleted had been set, and what is there has been set once more.
Balance(k) ==
    Cardinality(Committed("delete", k)) + (IF Live[k] = Absent THEN 0 ELSE 1)
        <= Cardinality(Committed("set", k))

Deletable(k) ==
    \A c \in Running :
        program[c].key = k => program[c].name \in ReadingNames \cup {"set", "delete"}

LEMMA BalanceMoves ==
    ASSUME Chosen, Tame, TameInv, NEW k \in Keys, Deletable(k), Balance(k),
           \A d \in Running : Private(d), \A d \in Savers : Saves(d) /\ Found(d),
           NEW c \in Running, Move(c)
    PROVE  Balance(k)'
<1>0. /\ c \in Conns /\ acked \in [Conns -> Nat] /\ eff \in [Conns -> [Keys -> Effect]]
      /\ Running \subseteq Conns /\ Savers \subseteq Running /\ IsFiniteSet(Running)
      /\ Live \in Maps /\ program' = program /\ Running' = Running
      /\ program[c].val \in 1..MaxVal /\ MaxVal \in Nat
      /\ \A d \in Conns \ {c} : acked'[d] = acked[d]
  BY ChosenFacts, Publishes, BoundsAssumption
     DEF Savers, TameInv, Safe, TypeInv, TypeOK, Running
<1> DEFINE S == Committed("set", k)
           D == Committed("delete", k)
<1>1. IsFiniteSet(S) /\ IsFiniteSet(D) /\ Cardinality(S) \in Nat /\ Cardinality(D) \in Nat
  BY <1>0, FS_Subset, FS_CardinalityType DEF Committed
<1>2. CASE Publish(c) /\ InCall(c) /\ Live' = Apply(eff[c], Live) /\ acked'[c] = acked[c] + 1
  <2>1. CASE c \in Savers /\ program[c].key = k
    <3>1. /\ eff[c][k] = Own(c) /\ acked[c] = 0 /\ Found(c) /\ Unsaved(c)
      BY <1>2, <2>1 DEF Saves, Unsaved, Publish
    <3>2. Live'[k] = IF program[c].name = "set" THEN program[c].val ELSE Absent
      BY <1>0, <1>2, <3>1 DEF Apply, ApplyTo, Own, Put
    <3>3. acked'[c] = 1
      BY <1>2, <3>1
    <3>4. CASE program[c].name = "set"
      <4>1. S' = S \cup {c} /\ c \notin S /\ D' = D
        BY <1>0, <2>1, <3>1, <3>3, <3>4 DEF Committed
      <4>2. Cardinality(S') = Cardinality(S) + 1 /\ Cardinality(D') = Cardinality(D)
        BY <1>1, <4>1, FS_AddElement
      <4> HIDE DEF S, D
      <4>3. Cardinality(D) + (IF Live[k] = Absent THEN 0 ELSE 1) <= Cardinality(S)
        BY DEF Balance, S, D
      <4>4. Cardinality(D') + (IF Live'[k] = Absent THEN 0 ELSE 1) <= Cardinality(S')
        BY <1>1, <4>2, <4>3
      <4> QED
        BY <4>4 DEF Balance, S, D
    <3>5. CASE program[c].name = "delete"
      <4>1. D' = D \cup {c} /\ c \notin D /\ S' = S
        BY <1>0, <2>1, <3>1, <3>3, <3>5 DEF Committed
      <4>2. Cardinality(D') = Cardinality(D) + 1 /\ Cardinality(S') = Cardinality(S)
        BY <1>1, <4>1, FS_AddElement
      <4>3. Live[k] # Absent /\ Live'[k] = Absent
        BY <2>1, <3>1, <3>2, <3>5 DEF Found
      <4> HIDE DEF S, D
      <4>4. Cardinality(D) + (IF Live[k] = Absent THEN 0 ELSE 1) <= Cardinality(S)
        BY DEF Balance, S, D
      <4>5. Cardinality(D') + (IF Live'[k] = Absent THEN 0 ELSE 1) <= Cardinality(S')
        BY <1>1, <4>2, <4>3, <4>4
      <4> QED
        BY <4>5 DEF Balance, S, D
    <3> QED
      BY <2>1, <3>4, <3>5 DEF Savers
  <2>2. CASE ~(c \in Savers /\ program[c].key = k)
    <3>1. ~Mine(c, k)
      BY <2>2 DEF Mine, Deletable, Savers
    <3>2. eff[c][k] = Keep
      BY <3>1 DEF Private
    <3>3. Live'[k] = Live[k]
      BY <1>0, <1>2, <3>2 DEF Apply, ApplyTo, Keep, Maps
    <3>4. S' = S /\ D' = D
      BY <1>0, <2>2 DEF Committed, Savers
    <3> QED
      BY <3>3, <3>4 DEF Balance
  <2> QED
    BY <2>1, <2>2
<1>3. CASE Live' = Live /\ acked' = acked
  BY <1>0, <1>3 DEF Balance, Committed
<1> QED
  BY <1>2, <1>3, Publishes

\* The invariant of the commands.
SavingInv ==
    /\ TameInv
    /\ \A d \in Running : Private(d)
    /\ \A d \in Savers : Saves(d) /\ Found(d)
    /\ \A k \in Keys : Deletable(k) => Balance(k)

LEMMA SavingStep ==
    ASSUME Chosen, Tame, SavingInv, [PNext]_pvars
    PROVE  SavingInv'
<1>0. /\ TameInv /\ Safe(TRUE) /\ TypeInv /\ TameInv' /\ program' = program
      /\ Running' = Running /\ Savers' = Savers /\ Savers \subseteq Running
      /\ Running \subseteq Conns /\ \A d \in Running : program[d].key \in Keys
      /\ \A k : Deletable(k)' <=> Deletable(k)
  <2>1. TameInv /\ Safe(TRUE) /\ TypeInv
    BY DEF SavingInv, TameInv, Safe
  <2>2. TameInv' /\ program' = program
    BY <2>1, ClientStep, TameStep
  <2> QED
    BY <2>1, <2>2, ChosenFacts DEF Running, Savers, Deletable
<1> DEFINE Data ==
             /\ \A d \in Running : Private(d)'
             /\ \A d \in Savers : Saves(d)' /\ Found(d)'
             /\ \A k \in Keys : Deletable(k) => Balance(k)'
<1>1. ASSUME NEW c \in Running, Move(c) PROVE Data
  <2>1. /\ c \in Conns /\ Moves(c)
        /\ \A d \in Conns \ {c} : budget'[d] = budget[d]
        /\ \A d \in Running \ {c} : outcome'[d] = outcome[d]
    BY <1>0, <1>1, ScriptMoves DEF TameInv
  <2>2. \A d \in Conns \ {c} : acked'[d] = acked[d] /\ Unmoved(d)
    BY <1>0, <1>1, <2>1, OthersStay, Publishes
  <2>3. ASSUME NEW d \in Running PROVE Private(d)'
    <3>1. CASE d = c
      BY <1>0, <1>1, <3>1, PrivateMoves DEF SavingInv
    <3>2. CASE d # c
      BY <1>0, <2>2, <3>2 DEF SavingInv, Private, Mine, Unmoved
    <3> QED
      BY <3>1, <3>2
  <2>4. ASSUME NEW d \in Savers PROVE Saves(d)' /\ Found(d)'
    <3>1. Saves(d) /\ Found(d) /\ d \in Running /\ d \in Conns
      BY <1>0 DEF SavingInv
    <3>2. CASE d = c
      BY <1>0, <1>1, <3>1, <3>2, SavesMoves, FoundMoves
    <3>3. CASE d # c
      BY <1>0, <1>1, <2>1, <2>2, <3>1, <3>3, SavesStays, FoundStays
    <3> QED
      BY <3>2, <3>3
  <2>5. ASSUME NEW k \in Keys, Deletable(k) PROVE Balance(k)'
    BY <1>0, <1>1, <2>5, BalanceMoves DEF SavingInv
  <2> QED
    BY <2>3, <2>4, <2>5
<1>2. ASSUME NEW p, Killed(p) PROVE Data
  <2>0. /\ SameDisk /\ Live' = Live
        /\ \A d \in Conns :
              /\ budget'[d] = budget[d]
              /\ \/ Unmoved(d) /\ (d \in Running => outcome'[d] = outcome[d])
                 \/ pc'[d] = "closed" /\ eff'[d] = NoEffects
    <3>1. \A d \in Conns : SameDisk /\ program' = program
      BY <1>0, <1>2, KilledFacts
    <3>2. SameDisk
      BY <3>1, ConnsAssumption
    <3>3. Live' = Live
      BY <3>2 DEF SameDisk, Live, Current, Content
    <3> QED
      BY <1>0, <1>2, <3>2, <3>3, KilledFacts
  <2>1. ASSUME NEW d \in Running PROVE Private(d)'
    BY <1>0, <2>0 DEF SavingInv, Private, Mine, Unmoved, NoEffects
  <2>2. ASSUME NEW d \in Savers PROVE Saves(d)' /\ Found(d)'
    <3>1. /\ Saves(d) /\ Found(d) /\ d \in Conns /\ d \in Running /\ acked'[d] = acked[d]
          /\ program[d].key \in Keys
      BY <1>0, <2>0 DEF SavingInv, SameDisk
    <3>2. Saves(d)'
      BY <1>0, <2>0, <3>1, SavesStays
    <3>3. Unsaved(d)' => Unsaved(d)
      BY <1>0, <2>0, <3>1 DEF Unsaved, Unmoved, Made
    <3> QED
      BY <1>0, <2>0, <3>1, <3>2, <3>3 DEF Found
  <2>3. ASSUME NEW k \in Keys, Deletable(k) PROVE Balance(k)'
    BY <1>0, <2>0, <2>3 DEF SavingInv, Balance, Committed, SameDisk
  <2> QED
    BY <2>1, <2>2, <2>3
<1>3. ASSUME UNCHANGED work PROVE Data
  <2>1. /\ program' = program /\ outcome' = outcome /\ budget' = budget /\ pc' = pc
        /\ eff' = eff /\ acked' = acked /\ locked' = locked /\ Live' = Live
    BY <1>3 DEF work, vars, disk, conn, ctrl, history, Live, Current, Content
  <2>2. \A d \in Running : Private(d)'
    BY <1>0, <2>1 DEF SavingInv, Private, Mine
  <2>3. ASSUME NEW d \in Savers PROVE Saves(d)' /\ Found(d)'
    <3>1. Saves(d) /\ Found(d)
      BY <2>3 DEF SavingInv
    <3>2. Unsaved(d)' = Unsaved(d) /\ Own(d)' = Own(d) /\ Made(d)' = Made(d)
      BY <2>1 DEF Unsaved, Own, Made
    <3>3. Saves(d)'
      BY <2>1, <3>1, <3>2 DEF Saves, InCall
    <3>4. Found(d)'
      BY <2>1, <3>1, <3>2 DEF Found
    <3> QED
      BY <3>3, <3>4
  <2>4. \A k \in Keys : Deletable(k) => Balance(k)'
    BY <1>0, <2>1 DEF SavingInv, Balance, Committed
  <2> QED
    BY <2>2, <2>3, <2>4
<1>4. Data
  BY <1>1, <1>2, <1>3, StepCases
<1> QED
  BY <1>0, <1>4 DEF SavingInv

LEMMA SavingInit == PInit /\ Tame => SavingInv
<1> SUFFICES ASSUME PInit, Tame PROVE SavingInv
  OBVIOUS
<1>1. /\ TameInv /\ Chosen /\ Running \subseteq Conns /\ Savers \subseteq Running
      /\ \A d \in Running : program[d].key \in Keys
  BY TameInit, ChosenInit, ChosenFacts DEF Savers
<1>2. ASSUME NEW d \in Running
      PROVE  /\ Made(d) = 0 /\ pc[d] = "closed" /\ acked[d] = 0
             /\ \A k \in Keys : eff[d][k] = Keep
  BY <1>1, BoundsAssumption DEF PInit, Init, Made, NoEffects
<1>3. ASSUME NEW k \in Keys PROVE Balance(k)
  <2>1. Live[k] = Absent
    BY StoreInit, StoreSame DEF PInit, Store!Init, EmptyMap
  <2>2. Committed("delete", k) = {} /\ Committed("set", k) = {}
    BY <1>1, <1>2 DEF Committed
  <2> QED
    BY <2>1, <2>2, FS_EmptySet DEF Balance
<1>4. \A d \in Savers : Saves(d) /\ Found(d)
  BY <1>1, <1>2 DEF Saves, Found, Unsaved, InCall
<1> QED
  BY <1>1, <1>2, <1>3, <1>4 DEF SavingInv, Private

\* Several `delete` commands never delete the same value: as many of them say
\* so as the key was set, at most, however they wait for one another and die,
\* until a late creator empties the file.
THEOREM DeletesOnce ==
    ASSUME DeletesApart PROVE PSpec => []EachDeletedOnce
<1> DEFINE I == Chosen /\ (Tame => SavingInv)
<1>1. PInit => I
  BY ChosenInit, SavingInit
<1>2. I /\ [PNext]_pvars => I'
  BY ClientStep, TameKept, SavingStep
<1>3. I => EachDeletedOnce
  <2> SUFFICES ASSUME I, NEW k \in Keys
               PROVE  Cardinality(Committed("delete", k)) <= Cardinality(Committed("set", k))
    BY DEF EachDeletedOnce
  <2>1. /\ Cardinality(Committed("delete", k)) \in Nat
        /\ Cardinality(Committed("set", k)) \in Nat
    BY ChosenFacts, FS_Subset, FS_CardinalityType DEF Committed
  <2>2. CASE Tame /\ Deletable(k)
    <3>1. Balance(k)
      BY <2>2 DEF SavingInv
    <3> QED
      BY <2>1, <3>1 DEF Balance
  <2>3. CASE ~(Tame /\ Deletable(k))
    <3>1. \A d \in Running : ~(program[d].name = "delete" /\ program[d].key = k)
      BY <2>3, ChosenFacts
         DEF DeletesApart, Chosen, Running, Tame, TameNames, Deletable
    <3>2. Committed("delete", k) = {}
      BY <3>1 DEF Committed
    <3> QED
      BY <2>1, <3>2, FS_EmptySet
  <2> QED
    BY <2>2, <2>3
<1> QED
  BY <1>1, <1>2, <1>3, PTL DEF PSpec

(***************************************************************************)
(* What a benchmark reads back.  The file may be replaced here, by the     *)
(* compaction of the benchmark itself, and others may work on the old one: *)
(* the proof rests on the control of the calls alone, not on atomicity.    *)
(***************************************************************************)
Benches == {c \in Running : program[c].name \in {"general", "bloated"}}

LEMMA BenchScripts ==
    ASSUME NEW p, p.name \in {"general", "bloated"}
    PROVE  LET s == Script(p)
               n == Len(s)
           IN
           /\ n \in Nat /\ n > 1 /\ s[1].name = "connect" /\ s[2].name = "set"
           /\ \A i \in 2..n :
                 /\ s[i].name \in {"set", "commit", "get", "compact"}
                 /\ s[i].name \in {"set", "get"} => s[i].key = p.key
                 /\ s[i].name = "set" => s[i].val = p.val
                 /\ s[i].name = "compact" => i = 6 /\ p.name = "bloated"
<1> DEFINE s == Script(p)
           Benched(i) ==
              /\ s[i].name \in {"set", "commit", "get", "compact"}
              /\ s[i].name \in {"set", "get"} => s[i].key = p.key
              /\ s[i].name = "set" => s[i].val = p.val
              /\ s[i].name = "compact" => i = 6 /\ p.name = "bloated"
<1> USE DEF Script, Opening, Call, Get, SetIt, Saving
<1>1. CASE p.name = "general"
  <2>1. Commands(p) = General(p.key, p.val)
    BY <1>1 DEF Commands
  <2>2. /\ Len(Script(p)) = 6 /\ Script(p)[1] = Opening
        /\ Script(p)[2] = SetIt(p.key, p.val) /\ Script(p)[3] = Saving
        /\ Script(p)[4] = SetIt(p.key, p.val) /\ Script(p)[5] = Saving
        /\ Script(p)[6] = Get(p.key)
    BY <2>1 DEF General, WriteAll, ReadAll
  <2>3. \A i \in 2..6 : i = 2 \/ i = 3 \/ i = 4 \/ i = 5 \/ i = 6
    OBVIOUS
  <2>4. \A i \in 2..6 : Benched(i)
    BY <2>2, <2>3
  <2>5. Len(s) = 6 /\ s[1].name = "connect" /\ s[2].name = "set"
    BY <2>2
  <2> HIDE DEF Script
  <2> QED
    BY <2>4, <2>5
<1>2. CASE p.name = "bloated"
  <2>1. Commands(p) = Bloated(p.key, p.val)
    BY <1>2 DEF Commands
  <2>2. /\ Len(Script(p)) = 7 /\ Script(p)[1] = Opening
        /\ Script(p)[2] = SetIt(p.key, p.val) /\ Script(p)[3] = SetIt(p.key, p.val)
        /\ Script(p)[4] = Saving /\ Script(p)[5] = Get(p.key)
        /\ Script(p)[6] = Call("compact", NoKey, 0) /\ Script(p)[7] = Get(p.key)
    BY <2>1 DEF Bloated, ReadAll
  <2>3. \A i \in 2..7 : i = 2 \/ i = 3 \/ i = 4 \/ i = 5 \/ i = 6 \/ i = 7
    OBVIOUS
  <2>4. \A i \in 2..7 : Benched(i)
    BY <1>2, <2>2, <2>3
  <2>5. Len(s) = 7 /\ s[1].name = "connect" /\ s[2].name = "set"
    BY <2>2
  <2> HIDE DEF Script
  <2> QED
    BY <2>4, <2>5
<1> QED
  BY <1>1, <1>2

\* What the scripts of all programs have in common.
LEMMA AllScripts ==
    ASSUME NEW p, p.name \in ProgramNames
    PROVE  LET s == Script(p) IN
           /\ Len(s) \in Nat
           /\ \A i \in 1..Len(s) :
                 /\ s[i].name = "compact" => p.name = "bloated"
                 /\ s[i].name = "del" => p.name = "delete" /\ s[i].key = p.key
                 /\ s[i].name = "set" => s[i].val = p.val
<1> DEFINE s == Script(p)
<1>1. CASE p.name \in {"general", "bloated"}
  <2>1. \A i \in 1..Len(s) : i = 1 \/ i \in 2..Len(s)
    BY <1>1, BenchScripts
  <2> QED
    BY <1>1, <2>1, BenchScripts
<1>2. CASE p.name = "commit"
  <2>1. Len(s) \in Nat /\ \A i \in 1..Len(s) : s[i].name \in {"connect", "get", "commit"}
    BY <1>2, QuietScripts DEF QuietNames
  <2> QED
    BY <2>1
<1>3. CASE p.name \in TameNames \ {"general"}
  <2>1. ScriptFacts(p) /\ Len(s) \in Nat
    BY <1>3, Scripts DEF ScriptFacts
  <2>2. \A i \in 1..Len(s) : i = 1 \/ i \in 2..Len(s)
    BY <2>1
  <2>3. s[1].name = "connect"
    BY <2>1 DEF ScriptFacts, Opening, Call
  <2>4. p.name \in ReadingNames \cup {"set", "delete", "locked", "hopeful"}
    BY <1>3 DEF TameNames, ProgramNames, ReadingNames
  <2>5. ASSUME NEW i \in 2..Len(s)
        PROVE  /\ s[i].name # "compact"
               /\ s[i].name = "del" => p.name = "delete" /\ s[i].key = p.key
               /\ s[i].name = "set" => s[i].val = p.val
    BY <2>1, <2>4 DEF ScriptFacts, InScript
  <2> QED
    BY <2>1, <2>2, <2>3, <2>5
<1> QED
  BY <1>1, <1>2, <1>3 DEF TameNames, ProgramNames

\* Of every connection: a running call is one of the program's.
Fits(d) ==
    /\ budget[d] <= MaxCalls[d]
    /\ frame[d].name # "close" =>
          /\ d \in Running
          /\ frame[d].name = "compact" => program[d].name = "bloated"
          /\ frame[d].name = "del" =>
                program[d].name = "delete" /\ frame[d].key = program[d].key
          /\ frame[d].name = "set" => frame[d].val # Absent

LEMMA FitsMoves ==
    ASSUME Chosen, TypeInv, NEW c \in Running, Fits(c), Move(c)
    PROVE  /\ Fits(c)' /\ Moves(c) /\ c \in Conns
           /\ \A d \in Conns \ {c} :
                 /\ budget'[d] = budget[d]
                 /\ d \in Running => outcome'[d] = outcome[d]
<1>0. /\ c \in Conns /\ program[c].name \in ProgramNames /\ program[c].val \in 1..MaxVal
      /\ budget \in [Conns -> Nat] /\ MaxCalls \in [Conns -> Nat]
      /\ outcome \in [Running -> Outcomes] /\ MaxVal \in Nat
      /\ program' = program
  <2>1. program' = program
    BY DEF Move, NextCall, Work, Finish
  <2> QED
    BY <2>1, ChosenFacts, BoundsAssumption DEF TypeInv, TypeOK, Chosen
<1>1. CASE NextCall(c)
  <2> DEFINE s == Script(program[c])
             n == Made(c)
  <2>1. /\ n < Len(s) /\ Begin(c) /\ frame'[c].name = s[n + 1].name
        /\ frame'[c].key = s[n + 1].key /\ frame'[c].val = s[n + 1].val
        /\ outcome' = outcome
    BY <1>1 DEF NextCall
  <2>2. n \in Nat
    BY <1>0 DEF Made, Fits
  <2>3. n + 1 \in 1..Len(s)
    BY <1>0, <2>1, <2>2, AllScripts
  <2>4. budget' = [budget EXCEPT ![c] = budget[c] - 1]
    BY <1>0, <2>1, BeginFacts
  <2>5. /\ s[n + 1].name = "compact" => program[c].name = "bloated"
        /\ s[n + 1].name = "del" => program[c].name = "delete" /\ s[n + 1].key = program[c].key
        /\ s[n + 1].name = "set" => s[n + 1].val = program[c].val
    BY <1>0, <2>3, AllScripts
  <2>6. program[c].val # Absent
    BY <1>0 DEF Absent
  <2> HIDE DEF s, n
  <2>7. budget'[c] <= MaxCalls[c] /\ \A d \in Conns \ {c} : budget'[d] = budget[d]
    BY <1>0, <2>4 DEF Fits
  <2>8. Fits(c)'
    BY <1>0, <2>1, <2>5, <2>6, <2>7 DEF Fits, Running
  <2> QED
    BY <1>0, <2>1, <2>7, <2>8 DEF Moves
<1>2. CASE Work(c)
  <2>1. /\ Step(c) /\ Moves(c)
        /\ \A d \in Running \ {c} : outcome'[d] = outcome[d]
    BY <1>0, <1>2 DEF Work, Moves
  <2>2. SameCall(c) \/ frame'[c].name = "close"
    BY <1>0, <2>1, CallKept
  <2>3. Begin(c) \/ budget' = budget
    BY <1>0, <2>1, BudgetMoves
  <2>4. Begin(c) => budget' = [budget EXCEPT ![c] = budget[c] - 1]
    BY <1>0, BeginFacts
  <2>5. budget'[c] <= MaxCalls[c] /\ \A d \in Conns \ {c} : budget'[d] = budget[d]
    BY <1>0, <2>3, <2>4 DEF Fits
  <2>6. Fits(c)'
    BY <1>0, <2>2, <2>5 DEF Fits, SameCall, Running
  <2> QED
    BY <1>0, <2>1, <2>5, <2>6
<1>3. CASE Finish(c)
  <2>1. Close(c) /\ budget' = budget /\ outcome' = outcome
    BY <1>3 DEF Finish, Close
  <2>2. frame'[c].name = "close"
    BY <1>0, <2>1, LeaveHere DEF Close
  <2> QED
    BY <1>0, <2>1, <2>2 DEF Fits, Moves
<1> QED
  BY <1>1, <1>2, <1>3 DEF Move

LEMMA FitsStep ==
    ASSUME Chosen, TypeInv, \A d \in Conns : Fits(d), [PNext]_pvars
    PROVE  \A d \in Conns : Fits(d)'
<1>0. Running \subseteq Conns /\ program' = program
  BY ChosenFacts, ClientStep
<1>1. ASSUME NEW c \in Running, Move(c), NEW d \in Conns PROVE Fits(d)'
  <2>1. /\ Fits(c)' /\ Moves(c) /\ c \in Conns
        /\ \A e \in Conns \ {c} : budget'[e] = budget[e]
    BY <1>0, <1>1, FitsMoves
  <2>2. CASE d # c
    BY <1>0, <2>1, <2>2, OthersStay DEF Unmoved, Fits, Running
  <2> QED
    BY <2>1, <2>2
<1>2. ASSUME NEW p, Killed(p), NEW d \in Conns PROVE Fits(d)'
  <2>1. budget'[d] = budget[d] /\ (Unmoved(d) \/ frame'[d].name = "close")
    BY <1>2, KilledFacts
  <2> QED
    BY <1>0, <2>1 DEF Unmoved, Fits, Running
<1>3. ASSUME UNCHANGED work, NEW d \in Conns PROVE Fits(d)'
  BY <1>0, <1>3 DEF work, vars, ctrl, Fits, Running
<1> QED
  BY <1>1, <1>2, <1>3, StepCases

\* The steps of a benchmark's calls.
AfterRename == {"swap", "super", "init"}

BenchWay(b) ==
    LET n == frame[b].name IN
    InCall(b) =>
      \/ n = "connect" /\ pc[b] = "super" /\ cont[b] = "settype"
      \/ n = "connect" /\ pc[b] \in {"settype", "init"} /\ cont[b] = "idle"
      \/ n = "get" /\ (Reopens(b, "read") \/ pc[b] = "read")
      \/ /\ n = "set"
         /\ \/ Reopens(b, "prelock") \/ Awaits(b, "recheck")
            \/ pc[b] \in {"prelock", "recheck", "body"}
      \/ n = "commit" /\ (Awaits(b, "publish") \/ pc[b] = "publish")
      \/ /\ n = "compact"
         /\ \/ Awaits(b, "items") \/ pc[b] \in {"items", "copy", "rename", "swap"}
            \/ pc[b] \in {"super", "init"} /\ cont[b] = "idle"

\* It works on the file the path names, and copies it under the lock.
OnPath(b) ==
    /\ pc[b] \notin {"swap", "closed"} => ino[b] = path
    /\ pc[b] \in {"items", "copy", "rename"} => locked[b]

BenchNames == {"connect", "set", "commit", "get", "compact"}

LEMMA BenchBegins ==
    ASSUME TypeInv, NEW b \in Conns, Begin(b), frame'[b].name \in BenchNames, OnPath(b)
    PROVE  /\ BenchWay(b)' /\ InCall(b)' /\ UNCHANGED disk /\ OnPath(b)'
           /\ frame'[b].name # "connect" => UNCHANGED conn
           /\ frame'[b].name = "connect" => pc'[b] = "super"
           /\ pc'[b] \notin {"copy", "rename", "swap", "init"}
           /\ pc'[b] = "super" => frame'[b].name = "connect"
<1> USE DEF BenchWay, InCall, Reopens, Awaits, BenchNames, OnPath
<1>0. locked \in [Conns -> BOOLEAN]
  BY DEF TypeInv, TypeOK
<1>1. CASE StartRead(b)
  <2>1. UNCHANGED <<disk, conn>>
    BY <1>1 DEF StartRead
  <2>2. ASSUME NEW k \in Keys, Calling(b, "get", k, 0), ThenGo(b, "reopen", "read")
        PROVE  pc[b] = "idle" /\ pc'[b] = "reopen" /\ cont'[b] = "read" /\ frame'[b].name = "get"
    BY <2>2, CountHere, ThenGoHere
  <2>3. Calling(b, "items", NoKey, 0) => frame'[b].name = "items"
    BY CountHere
  <2>4. Calling(b, "keys", NoKey, 0) => frame'[b].name = "keys"
    BY CountHere
  <2> QED
    BY <1>1, <2>1, <2>2, <2>3, <2>4 DEF StartRead, conn, disk
<1>2. CASE StartWrite(b)
  <2>1. /\ UNCHANGED <<disk, conn>> /\ ThenGo(b, "reopen", "prelock")
    BY <1>2 DEF StartWrite
  <2>2. PICK k \in Keys :
           \/ \E v \in 1..MaxVal : Calling(b, "set", k, v)
           \/ \E name \in {"del", "update", "updateRaise"} : Calling(b, name, k, 0)
    BY <1>2 DEF StartWrite
  <2>3. frame'[b].name \in {"set", "del", "update", "updateRaise"} /\ pc[b] = "idle"
    BY <2>2, CountHere
  <2> QED
    BY <2>1, <2>3, ThenGoHere DEF conn, disk
<1>3. CASE StartOptimistic(b)
  <2>1. frame'[b].name = "optimistic"
    BY <1>3, CountHere DEF StartOptimistic
  <2> QED
    BY <2>1
<1>4. CASE StartCommit(b)
  <2>1. UNCHANGED <<disk, conn>> /\ TakeLock(b, "publish") /\ Calling(b, "commit", NoKey, 0)
    BY <1>4 DEF StartCommit
  <2>2. frame'[b].name = "commit" /\ pc[b] = "idle"
    BY <2>1, CountHere
  <2> QED
    BY <2>1, <2>2, TakeLockHere DEF conn, disk
<1>5. CASE StartCompact(b)
  <2>1. UNCHANGED <<disk, conn>> /\ TakeLock(b, "items") /\ Calling(b, "compact", NoKey, 0)
    BY <1>5 DEF StartCompact
  <2>2. frame'[b].name = "compact" /\ pc[b] = "idle"
    BY <2>1, CountHere
  <2> QED
    BY <2>1, <2>2, TakeLockHere DEF conn, disk
<1>6. CASE Connect(b)
  <2>1. /\ Calling(b, "connect", NoKey, 0) /\ ThenGo(b, "super", "settype")
        /\ OpenAgain(b) /\ UNCHANGED disk
    BY <1>6 DEF Connect
  <2>2. frame'[b].name = "connect" /\ pc[b] = "closed"
    BY <2>1, CountHere
  <2> QED
    BY <2>1, <2>2, ThenGoHere, OpenHere DEF disk
<1> QED
  BY <1>1, <1>2, <1>3, <1>4, <1>5, <1>6 DEF Begin

LEMMA BenchWorks ==
    ASSUME TypeInv, NEW b \in Conns, Flow(b), BenchWay(b), OnPath(b), Step(b)
    PROVE  /\ InCall(b) /\ pc'[b] # "closed" /\ budget' = budget
           /\ BenchWay(b)' /\ OnPath(b)'
           /\ pc'[b] = "idle" \/ (InCall(b)' /\ SameCall(b))
           /\ frame[b].name = "compact" =>
                 /\ pc'[b] = "idle" => pc[b] \in AfterRename
                 /\ InCall(b)' => (pc'[b] \in AfterRename <=>
                                     pc[b] \in AfterRename \/ Rename(b))
           /\ Rename(b) => pc'[b] = "swap"
           /\ frame[b].name = "set" /\ pc'[b] = "idle" => Set(b)
           /\ \/ view' = view /\ pc[b] # "init"
              \/ Set(b) \/ InitTree(b) \/ pc'[b] = "super"
              \/ frame[b].name = "set" /\ InCall(b)'
           /\ pc'[b] = "rename" => CopyItems(b)
           /\ ~Raising(b) \/ (pc[b] = "read" /\ view[b][frame[b].key] = Absent)
<1> USE DEF BenchWay, InCall, Reopens, Awaits, OnPath, AfterRename, Raising
<1>0. /\ pc \in [Conns -> Labels] /\ cont \in [Conns -> Targets]
      /\ frame \in [Conns -> Frame] /\ locked \in [Conns -> BOOLEAN]
      /\ ino \in [Conns -> Files]
      /\ pc[b] \in {"publish", "recheck", "validate"} => locked[b]
  BY DEF TypeInv, TypeOK, Flow, LockFits
<1>1. CASE ReopenNot(b)
  BY <1>0, <1>1, GotoHere, SameHere DEF ReopenNot, SameCall, disk, conn, Rename, CopyItems, Copy
<1>2. CASE Reopen(b)
  BY <1>0, <1>2 DEF Reopen, Replaced
<1>3. CASE EnsureSuperblock(b)
  BY <1>0, <1>3, GotoHere, ThenGoHere, SameHere DEF EnsureSuperblock, SameCall, disk, conn, Rename
<1>4. CASE SetTreeType(b)
  BY <1>0, <1>4, GotoHere, SameHere DEF SetTreeType, SameCall, disk, conn, Rename
<1>5. CASE InitTree(b)
  BY <1>0, <1>5, ReturnHere, RefreshHere DEF InitTree, disk, Rename, Refresh
<1>6. CASE PrepareLock(b)
  BY <1>0, <1>6, GotoHere, ThenGoHere, SameHere DEF PrepareLock, SameCall, disk, conn, Rename
<1>7. CASE AcquireThread(b)
  BY <1>0, <1>7, GotoHere, SameHere DEF AcquireThread, SameCall, disk, conn, Rename
<1>8. CASE AcquireFile(b)
  BY <1>0, <1>8, GotoHere, SameHere DEF AcquireFile, SameCall, disk, Rename
<1>9. CASE RecheckFresh(b)
  BY <1>0, <1>9, GotoHere, SameHere DEF RecheckFresh, SameCall, disk, Rename
<1>10. CASE RecheckReplaced(b)
  BY <1>0, <1>10 DEF RecheckReplaced, Replaced
<1>11. CASE Read(b)
  BY <1>0, <1>11, ReturnHere DEF Read, disk, conn, Rename
<1>12. CASE Set(b)
  <2>1. /\ pc[b] = "body" /\ frame[b].name = "set" /\ Return(b)
        /\ UNCHANGED <<path, ino, locked, budget>>
    BY <1>12 DEF Set, ApplyHere, disk
  <2> QED
    BY <1>0, <1>12, <2>1, ReturnHere DEF Rename
<1>13. CASE Publish(b)
  BY <1>0, <1>13, ReturnHere DEF Publish, Rename
<1>14. CASE CopyItems(b)
  <2>1. frame' = [frame EXCEPT ![b].temp = created + 1] /\ Goto(b, "rename")
    BY <1>14 DEF CopyItems, Copy
  <2>2. /\ pc[b] = "copy" /\ UNCHANGED <<path, ino, locked, view, budget>>
    BY <1>0, <1>14 DEF CopyItems, Copy, ItemsRefresh
  <2>3. SameCall(b) /\ pc'[b] = "rename"
    BY <2>1, GotoHere, SameHere
  <2> QED
    BY <1>0, <1>14, <2>2, <2>3 DEF SameCall, Rename
<1>15. CASE Rename(b)
  BY <1>0, <1>15, GotoHere, SameHere DEF Rename, SameCall, conn
<1>16. CASE Swap(b)
  BY <1>0, <1>16, ThenGoHere, OpenHere, SameHere DEF Swap, SameCall, disk, Rename
<1>17. /\ ~Scan(b) /\ ~Del(b) /\ ~DelMissing(b) /\ ~Update(b) /\ ~UpdateRaises(b)
       /\ ~Snapshot(b) /\ ~ValidateOK(b) /\ ~ValidateFails(b)
  BY DEF Scan, Del, DelMissing, Update, UpdateRaises, Snapshot, SnapshotRoot, ValidateOK,
         ValidateFails
<1> QED
  BY <1>1, <1>2, <1>3, <1>4, <1>5, <1>6, <1>7, <1>8, <1>9, <1>10, <1>11, <1>12, <1>13,
     <1>14, <1>15, <1>16, <1>17
     DEF Step, Open, Lock, Body, Compact

\* No call but a delete takes a key out of a tree.
LEMMA KeyKept ==
    ASSUME TypeInv, NEW c \in Conns, ChangesTree(c), NEW k \in Keys, view[c][k] # Absent,
           frame[c].name = "set" => frame[c].val # Absent,
           frame[c].name = "del" => frame[c].key # k
    PROVE  view'[c][k] # Absent
<1>1. PICK e : ApplyHere(c, frame[c].key, e) /\ (e = Inc \/ frame[c].key # k \/
                                                   (e.set /\ e.n # Absent))
  <2>1. CASE Set(c)
    <3>1. Put(frame[c].val).set /\ Put(frame[c].val).n # Absent
      BY <2>1 DEF Set, Put
    <3> QED
      BY <2>1, <3>1 DEF Set
  <2>2. CASE Del(c)
    BY <2>2 DEF Del
  <2>3. CASE Update(c) \/ ValidateOK(c)
    BY <2>3 DEF Update, ValidateOK
  <2> QED
    BY <2>1, <2>2, <2>3 DEF ChangesTree
<1>2. view[c][k] \in Nat
  BY DEF TypeInv, TypeOK, Maps
<1>3. CASE frame[c].key # k
  BY <1>1, <1>3, OtherKeys
<1>4. CASE frame[c].key = k
  <2>1. view'[c][k] = ApplyTo(e, view[c][k])
    BY <1>1, <1>4, OwnKey
  <2> QED
    BY <1>1, <1>2, <1>4, <2>1 DEF ApplyTo, Inc, Absent
<1> QED
  BY <1>3, <1>4

\* Once the path names a file with a key in it, all that read it have the key,
\* and what they commit has it.
HasKey(c, k) == ino[c] = path /\ pc[c] \notin Unopened => view[c][k] # Absent

LEMMA HasKeyMoves ==
    ASSUME TypeInv, NEW c \in Conns, Moves(c), NEW k \in Keys, path' = path,
           Current(path)[k] # Absent, HasKey(c, k),
           frame[c].name = "set" => frame[c].val # Absent,
           frame[c].name = "del" => frame[c].key # k
    PROVE  HasKey(c, k)' /\ Current(path)'[k] # Absent
<1> USE DEF Unopened, HasKey
<1>0. /\ pc \in [Conns -> Labels] /\ path \in Files /\ path <= created
      /\ ino \in [Conns -> Files]
      /\ trees \in [Files -> Seq(Maps)] /\ root \in [Files -> Nat]
  BY DEF TypeInv, TypeOK, FilesCreated
<1>1. Current(path)'[k] # Absent
  <2>1. CASE Publish(c)
    <3>1. pc[c] = "publish"
      BY <2>1 DEF Publish
    <3> QED
      BY <1>0, <2>1, <3>1, PublishStores DEF Current, Content
  <2>2. CASE CopyItems(c)
    <3>1. /\ trees' = [trees EXCEPT ![created + 1] = trees'[created + 1]]
          /\ root' = [root EXCEPT ![created + 1] = root'[created + 1]]
      BY <2>2 DEF CopyItems, Copy, TypeInv, TypeOK
    <3>2. path # created + 1
      BY <1>0 DEF TypeInv, TypeOK, Files
    <3>3. trees'[path] = trees[path] /\ root'[path] = root[path]
      BY <1>0, <3>1, <3>2
    <3> QED
      BY <3>3 DEF Current, Content
  <2>3. CASE Rename(c) \/ SameDisk
    BY <2>3 DEF Rename, SameDisk, Current, Content
  <2> QED
    BY <2>1, <2>2, <2>3, DiskMoves
<1>2. CASE ChangesTree(c)
  <2>1. ino'[c] = ino[c] /\ pc[c] \in {"body", "validate"}
    BY <1>2 DEF ChangesTree, Set, Del, Update, ValidateOK, ApplyHere
  <2> QED
    BY <1>1, <1>2, <2>1, KeyKept
<1>3. CASE Close(c)
  <2>1. pc'[c] = "closed"
    BY <1>3, LeaveHere DEF Close
  <2> QED
    BY <1>1, <2>1
<1>4. CASE pc' = [pc EXCEPT ![c] = "super"]
  BY <1>0, <1>1, <1>4
<1>5. CASE ino' = ino /\ (view' = view \/ Refresh(c))
  <2>1. CASE Refresh(c)
    <3>1. view'[c] = Current(ino[c])
      BY <2>1, RefreshHere
    <3> QED
      BY <1>1, <1>5, <3>1
  <2>2. CASE view' = view /\ ~Refresh(c)
    BY <1>1, <1>5, <2>2, OpeningMoves
  <2> QED
    BY <1>5, <2>1, <2>2
<1> QED
  BY <1>2, <1>3, <1>4, <1>5, ViewMoves

LEMMA KeyHeld ==
    ASSUME TypeInv, NEW c \in Conns, Moves(c), NEW k \in Keys, path' = path,
           Current(path)[k] # Absent, \A d \in Conns : HasKey(d, k),
           frame[c].name = "set" => frame[c].val # Absent,
           frame[c].name = "del" => frame[c].key # k
    PROVE  Current(path)'[k] # Absent /\ \A d \in Conns : HasKey(d, k)'
<1>1. HasKey(c, k)' /\ Current(path)'[k] # Absent
  BY HasKeyMoves
<1>2. ASSUME NEW d \in Conns, d # c PROVE HasKey(d, k)'
  BY <1>2, OthersStay DEF HasKey, Unmoved, Unopened
<1> QED
  BY <1>1, <1>2

(***************************************************************************)
(* The invariant of a benchmark b.                                         *)
(***************************************************************************)
BenchScript(b) ==
    /\ Made(b) \in 0..Len(Script(program[b]))
    /\ InCall(b) =>
          /\ Made(b) > 0 /\ BenchWay(b)
          /\ frame[b].name = At(b).name /\ frame[b].key = At(b).key
          /\ frame[b].val = At(b).val
    /\ pc[b] = "idle" => Made(b) > 0

InRename(b) == InCall(b) /\ frame[b].name = "compact" /\ pc[b] \notin AfterRename

\* The file is replaced by the compaction of b, and by nothing else.
BenchFiles(b) ==
    /\ OnPath(b)
    /\ \A d \in Conns : ino[d] \in {1, path}
    /\ path # 1 => Made(b) >= 6 /\ ~InRename(b) /\ program[b].name = "bloated"
    /\ InCall(b) /\ frame[b].name = "compact" /\ pc[b] \in AfterRename => path # 1

\* What b has set is in its tree, in the copy it makes, and, once the copy is
\* the database, in the database and in every tree that is read from it.
BenchKeeps(b) ==
    LET k == program[b].key IN
    /\ /\ Made(b) >= 2 /\ pc[b] \notin Unopened /\ ~(InCall(b) /\ frame[b].name = "set")
       => view[b][k] # Absent
    /\ pc[b] = "rename" =>
          /\ frame[b].temp # 1 /\ Current(frame[b].temp)[k] # Absent
          /\ \A d \in Conns : ino[d] # frame[b].temp
    /\ path # 1 => Current(path)[k] # Absent /\ \A d \in Conns : HasKey(d, k)

ReadsBack(b) ==
    \/ outcome[b] = "killed" /\ pc[b] = "closed"
    \/ outcome[b] = "ok" /\ BenchScript(b) /\ BenchFiles(b) /\ BenchKeeps(b)

BenchInv ==
    /\ TypeInv /\ LockInv /\ ControlInv
    /\ \A d \in Conns : Fits(d)
    /\ \A b \in Benches : ReadsBack(b)

\* The call of a benchmark, by its place in the script.
LEMMA BenchCall ==
    ASSUME Chosen, NEW b \in Benches, BenchScript(b), InCall(b)
    PROVE  /\ Made(b) \in Nat /\ Made(b) > 0
           /\ frame[b].name \in BenchNames
           /\ frame[b].name = "connect" <=> Made(b) = 1
           /\ Made(b) = 2 => frame[b].name = "set"
           /\ frame[b].name \in {"set", "get"} => frame[b].key = program[b].key
           /\ frame[b].name = "set" => frame[b].val # Absent
           /\ frame[b].name = "compact" => Made(b) = 6 /\ program[b].name = "bloated"
<1> DEFINE s == Script(program[b])
           n == Made(b)
<1>1. /\ program[b].name \in {"general", "bloated"} /\ program[b].val # Absent
  BY ChosenFacts, BoundsAssumption DEF Benches, Absent
<1>2. /\ Len(s) \in Nat /\ Len(s) > 1 /\ s[1].name = "connect" /\ s[2].name = "set"
      /\ \A i \in 2..Len(s) :
                 /\ s[i].name \in {"set", "commit", "get", "compact"}
                 /\ s[i].name \in {"set", "get"} => s[i].key = program[b].key
                 /\ s[i].name = "set" => s[i].val = program[b].val
                 /\ s[i].name = "compact" => i = 6 /\ program[b].name = "bloated"
  BY <1>1, BenchScripts
<1>3. /\ n \in 0..Len(s) /\ n > 0
      /\ frame[b].name = s[n].name /\ frame[b].key = s[n].key /\ frame[b].val = s[n].val
  BY DEF BenchScript, At
<1> HIDE DEF s, n
<1>4. n \in Nat /\ (n = 1 \/ n \in 2..Len(s))
  BY <1>2, <1>3
<1>5. CASE n = 1
  BY <1>2, <1>3, <1>5 DEF n, BenchNames
<1>6. CASE n \in 2..Len(s)
  BY <1>1, <1>2, <1>3, <1>6 DEF n, BenchNames
<1> QED
  BY <1>4, <1>5, <1>6

\* Another program moves: it does not compact, and deletes other keys.
LEMMA BenchOthers ==
    ASSUME BenchesApart, Chosen, BenchInv, NEW b \in Benches, NEW c \in Running, c # b,
           Move(c), outcome[b] # "killed"
    PROVE  ReadsBack(b)'
<1> DEFINE k == program[b].key
<1>0. /\ b \in Conns /\ c \in Conns /\ TypeInv /\ k \in Keys /\ b \in Running
      /\ outcome[b] = "ok" /\ BenchScript(b) /\ BenchFiles(b) /\ BenchKeeps(b)
      /\ Fits(c) /\ Flow(c) /\ program' = program
  <2>1. program' = program
    BY DEF Move, NextCall, Work, Finish
  <2> QED
    BY <2>1, ChosenFacts DEF BenchInv, ControlInv, Benches, ReadsBack
<1>1. /\ Moves(c) /\ outcome'[b] = outcome[b] /\ budget'[b] = budget[b] /\ Unmoved(b)
  BY <1>0, FitsMoves, OthersStay
<1>2. /\ frame[c].name # "compact"
      /\ frame[c].name = "set" => frame[c].val # Absent
      /\ frame[c].name = "del" => frame[c].key # k
  BY <1>0 DEF Fits, BenchesApart, Benches, Chosen, Running
<1>3. ~CopyItems(c) /\ ~Rename(c)
  BY <1>0, <1>2 DEF CopyItems, Copy, Rename, Flow, NameFits, InCompact
<1>4. path' = path /\ \A d \in Conns : ino'[d] \in {1, path}
  <2>1. path' = path
    BY <1>0, <1>1, <1>3, DiskMoves DEF Publish, SameDisk
  <2>2. \A d \in Conns : ino'[d] \in {ino[d], 1, path}
    BY <1>0, <1>1, FileMoves
  <2> QED
    BY <1>0, <2>1, <2>2 DEF BenchFiles
<1>5. BenchScript(b)'
  <2>1. Made(b)' = Made(b) /\ At(b)' = At(b) /\ InCall(b)' = InCall(b)
    BY <1>0, <1>1 DEF Made, At, Unmoved, InCall
  <2>2. BenchWay(b)' = BenchWay(b)
    BY <1>1, <2>1 DEF BenchWay, Unmoved, Reopens, Awaits
  <2> QED
    BY <1>0, <1>1, <2>1, <2>2 DEF BenchScript, Unmoved
<1>6. BenchFiles(b)'
  BY <1>0, <1>1, <1>4 DEF BenchFiles, OnPath, InRename, InCall, Unmoved, Made
<1>7. ASSUME pc[b] = "rename"
      PROVE  /\ Current(frame[b].temp)'[k] # Absent
             /\ \A d \in Conns : ino'[d] # frame[b].temp
  <2>1. /\ frame[b].name = "compact" /\ InRename(b) /\ path = 1
    BY <1>0, <1>7
       DEF BenchFiles, BenchScript, BenchWay, InCall, Reopens, Awaits, InRename, AfterRename
  <2>2. PICK f \in Files : f = frame[b].temp
    BY <1>0 DEF TypeInv, TypeOK, Frame
  <2>3. /\ Current(f)[k] # Absent /\ f # 1 /\ \A d \in Conns : ino[d] # f
    BY <1>0, <1>7, <2>2 DEF BenchKeeps
  <2>4. Current(frame[b].temp)' = Current(f)'
    BY <1>1, <2>2 DEF Unmoved, Current, Content
  <2>5. Current(f)' = Current(f)
    <3>1. CASE Publish(c)
      BY <1>0, <2>3, <3>1, PublishStores
    <3>2. CASE SameDisk
      BY <3>2 DEF SameDisk, Current, Content
    <3> QED
      BY <1>0, <1>1, <1>3, <3>1, <3>2, DiskMoves
  <2> QED
    BY <1>4, <2>1, <2>2, <2>3, <2>4, <2>5
<1>8. ASSUME path # 1
      PROVE  Current(path)'[k] # Absent /\ \A d \in Conns : HasKey(d, k)'
  <2>1. Current(path)[k] # Absent /\ \A d \in Conns : HasKey(d, k)
    BY <1>0, <1>8 DEF BenchKeeps
  <2>2. PICK j \in Keys : j = k
    BY <1>0
  <2>3. Current(path)'[j] # Absent /\ \A d \in Conns : HasKey(d, j)'
    BY <1>0, <1>1, <1>2, <1>4, <2>1, <2>2, KeyHeld
  <2> QED
    BY <1>0, <2>2, <2>3
<1>9. BenchKeeps(b)'
  <2>1. /\ program' = program /\ Made(b)' = Made(b) /\ frame'[b] = frame[b]
        /\ pc'[b] = pc[b] /\ view'[b] = view[b]
    BY <1>0, <1>1 DEF Made, Unmoved
  <2>2. (Made(b) >= 2 /\ pc[b] \notin Unopened /\ ~(InCall(b) /\ frame[b].name = "set")
           => view[b][k] # Absent)'
    BY <1>0, <2>1 DEF BenchKeeps, InCall, Unopened
  <2>3. (pc[b] = "rename" =>
          /\ frame[b].temp # 1 /\ Current(frame[b].temp)[k] # Absent
          /\ \A d \in Conns : ino[d] # frame[b].temp)'
    <3>1. pc[b] = "rename" => frame[b].temp # 1
      BY <1>0 DEF BenchKeeps
    <3>2. k' = k
      BY <1>0
    <3> HIDE DEF k
    <3> QED
      BY <1>7, <2>1, <3>1, <3>2
  <2>4. (path # 1 => Current(path)[k] # Absent /\ \A d \in Conns : HasKey(d, k))'
    <3>1. k' = k
      BY <1>0
    <3> HIDE DEF k
    <3> QED
      BY <1>4, <1>8, <3>1
  <2> QED
    BY <2>2, <2>3, <2>4 DEF BenchKeeps
<1> QED
  BY <1>0, <1>1, <1>5, <1>6, <1>9 DEF ReadsBack

\* The benchmark makes its next call.
LEMMA BenchNext ==
    ASSUME Chosen, BenchInv, NEW b \in Benches, NextCall(b)
    PROVE  ReadsBack(b)'
<1> DEFINE k == program[b].key
           s == Script(program[b])
           n == Made(b)
<1>0. /\ b \in Conns /\ TypeInv /\ k \in Keys /\ b \in Running
      /\ outcome[b] = "ok" /\ BenchScript(b) /\ BenchFiles(b) /\ BenchKeeps(b)
      /\ program' = program /\ outcome' = outcome
      /\ n < Len(s) /\ Begin(b) /\ frame'[b].name = s[n + 1].name
      /\ frame'[b].key = s[n + 1].key /\ frame'[b].val = s[n + 1].val
  BY ChosenFacts DEF BenchInv, Benches, ReadsBack, NextCall
<1>1. /\ Len(s) \in Nat /\ Len(s) > 1 /\ s[1].name = "connect" /\ s[2].name = "set"
      /\ \A i \in 2..Len(s) :
                 /\ s[i].name \in {"set", "commit", "get", "compact"}
                 /\ s[i].name = "compact" => i = 6
  BY BenchScripts DEF Benches
<1>2. n \in Nat /\ Made(b)' = n + 1
  <2>1. budget' = [budget EXCEPT ![b] = budget[b] - 1]
    BY <1>0, BeginFacts
  <2>2. budget \in [Conns -> Nat] /\ MaxCalls \in [Conns -> Nat]
    BY <1>0, BoundsAssumption DEF TypeInv, TypeOK
  <2>3. n \in 0..Len(s)
    BY <1>0 DEF BenchScript
  <2> QED
    BY <1>0, <1>1, <2>1, <2>2, <2>3 DEF Made
<1>3. /\ frame'[b].name \in BenchNames
      /\ n = 0 => frame'[b].name = "connect"
      /\ n = 1 => frame'[b].name = "set"
      /\ n > 0 => frame'[b].name # "connect"
      /\ frame'[b].name = "compact" => n = 5
  <2> HIDE DEF s, n
  <2>1. n = 0 \/ n + 1 \in 2..Len(s)
    BY <1>0, <1>1, <1>2
  <2> QED
    BY <1>0, <1>1, <1>2, <2>1 DEF BenchNames
<1>4. /\ BenchWay(b)' /\ InCall(b)' /\ UNCHANGED disk /\ OnPath(b)'
      /\ frame'[b].name # "connect" => UNCHANGED conn
      /\ pc'[b] \notin {"copy", "rename", "swap", "init"}
      /\ pc'[b] = "super" => frame'[b].name = "connect"
  BY <1>0, <1>3, BenchBegins DEF BenchFiles
<1>5. /\ Moves(b) /\ pc[b] = IF frame'[b].name = "connect" THEN "closed" ELSE "idle"
  BY <1>0, BeginFacts DEF Moves
<1>6. BenchScript(b)'
  <2>1. At(b)' = s[n + 1]
    BY <1>0, <1>2 DEF At
  <2>2. Made(b)' \in 0..Len(s) /\ Made(b)' > 0
    BY <1>0, <1>1, <1>2
  <2> HIDE DEF s, n
  <2>3. Len(Script(program[b]))' = Len(s)
    BY <1>0 DEF s
  <2> QED
    BY <1>0, <1>4, <2>1, <2>2, <2>3 DEF BenchScript, InCall
<1>7. path' = path /\ \A d \in Conns : ino'[d] \in {1, path'}
  <2>1. \A d \in Conns : ino'[d] \in {ino[d], 1, path}
    BY <1>0, <1>5, FileMoves
  <2> QED
    BY <1>0, <1>4, <2>1 DEF BenchFiles, disk
<1>8. BenchFiles(b)'
  <2>1. path' # 1 => n >= 6 /\ program[b].name = "bloated"
    BY <1>0, <1>7 DEF BenchFiles
  <2>2. path' # 1 => frame'[b].name # "compact"
    BY <1>2, <1>3, <2>1
  <2>3. path' # 1 => Made(b)' >= 6
    BY <1>2, <2>1
  <2>4. frame'[b].name = "compact" => pc'[b] \notin AfterRename
    BY <1>4 DEF AfterRename
  <2> QED
    BY <1>0, <1>4, <1>7, <2>1, <2>2, <2>3, <2>4 DEF BenchFiles, InRename
<1>9. BenchKeeps(b)'
  <2>1. (Made(b) >= 2 /\ pc[b] \notin Unopened /\ ~(InCall(b) /\ frame[b].name = "set")
           => view[b][k] # Absent)'
    <3>1. n >= 2 => view'[b][k] # Absent
      BY <1>0, <1>2, <1>3, <1>4, <1>5 DEF BenchKeeps, InCall, Unopened, conn
    <3>2. Made(b)' >= 2 => n >= 2 \/ frame'[b].name = "set"
      BY <1>2, <1>3
    <3>3. k' = k
      BY <1>0
    <3> QED
      BY <1>4, <3>1, <3>2, <3>3
  <2>2. pc'[b] # "rename"
    BY <1>4
  <2>3. ASSUME path' # 1
        PROVE  Current(path)'[k] # Absent /\ \A d \in Conns : HasKey(d, k)'
    <3>1. n >= 6 /\ Current(path)[k] # Absent /\ \A d \in Conns : HasKey(d, k)
      BY <1>0, <1>7, <2>3 DEF BenchFiles, BenchKeeps
    <3>2. UNCHANGED <<disk, conn>> /\ pc[b] = "idle"
      BY <1>2, <1>3, <1>4, <1>5, <3>1
    <3>3. PICK j \in Keys : j = k
      BY <1>0
    <3>4. Current(path)'[j] # Absent
      BY <3>1, <3>2, <3>3 DEF Current, Content, disk
    <3>5. HasKey(b, j)'
      <4>1. HasKey(b, j)
        BY <1>0, <3>1, <3>3
      <4>2. ino' = ino /\ view' = view /\ path' = path
        BY <3>2 DEF disk, conn
      <4> QED
        BY <3>2, <4>1, <4>2 DEF HasKey, Unopened
    <3>6. ASSUME NEW d \in Conns, d # b PROVE HasKey(d, j)'
      BY <1>0, <1>5, <3>1, <3>2, <3>3, <3>6, OthersStay DEF HasKey, disk, Unmoved, Unopened
    <3> QED
      BY <1>0, <3>3, <3>4, <3>5, <3>6
  <2>4. (path # 1 => Current(path)[k] # Absent /\ \A d \in Conns : HasKey(d, k))'
    <3>1. k' = k
      BY <1>0
    <3> HIDE DEF k
    <3> QED
      BY <2>3, <3>1
  <2> QED
    BY <2>1, <2>2, <2>4 DEF BenchKeeps
<1> QED
  BY <1>0, <1>6, <1>8, <1>9 DEF ReadsBack

\* It is over: the connection is closed.
LEMMA BenchCloses ==
    ASSUME Chosen, BenchInv, NEW b \in Benches, Finish(b), outcome[b] # "killed"
    PROVE  ReadsBack(b)'
<1> DEFINE k == program[b].key
<1>0. /\ b \in Conns /\ TypeInv /\ k \in Keys
      /\ outcome[b] = "ok" /\ BenchScript(b) /\ BenchFiles(b) /\ BenchKeeps(b)
      /\ program' = program /\ outcome' = outcome /\ Close(b)
  BY ChosenFacts DEF BenchInv, Benches, ReadsBack, Finish
<1>1. /\ Moves(b) /\ UNCHANGED <<disk, budget>> /\ pc'[b] = "closed" /\ ino'[b] = 1
      /\ pc[b] = "idle"
  BY <1>0, LeaveHere DEF Close, Moves, TypeInv, TypeOK
<1>2. path' = path /\ Made(b)' = Made(b)
  BY <1>1 DEF disk, Made
<1>3. BenchScript(b)'
  BY <1>0, <1>1, <1>2 DEF BenchScript, InCall
<1>4. BenchFiles(b)'
  <2>1. \A d \in Conns : ino'[d] \in {ino[d], 1, path}
    BY <1>0, <1>1, FileMoves
  <2> QED
    BY <1>0, <1>1, <1>2, <2>1 DEF BenchFiles, OnPath, InRename, InCall
<1>5. ASSUME path # 1
      PROVE  Current(path)'[k] # Absent /\ \A d \in Conns : HasKey(d, k)'
  <2>1. Current(path)[k] # Absent /\ \A d \in Conns : HasKey(d, k)
    BY <1>0, <1>5 DEF BenchKeeps
  <2>2. PICK j \in Keys : j = k
    BY <1>0
  <2>3. Current(path)'[j] # Absent
    BY <1>1, <2>1, <2>2 DEF Current, Content, disk
  <2>4. ASSUME NEW d \in Conns PROVE HasKey(d, j)'
    <3>1. CASE d = b
      BY <1>1, <3>1 DEF HasKey, Unopened
    <3>2. CASE d # b
      BY <1>0, <1>1, <1>2, <2>1, <2>2, <3>2, OthersStay DEF HasKey, Unmoved, Unopened
    <3> QED
      BY <3>1, <3>2
  <2> QED
    BY <1>0, <2>2, <2>3, <2>4
<1>6. BenchKeeps(b)'
  <2>1. (path # 1 => Current(path)[k] # Absent /\ \A d \in Conns : HasKey(d, k))'
    <3>1. k' = k
      BY <1>0
    <3> HIDE DEF k
    <3> QED
      BY <1>2, <1>5, <3>1
  <2> QED
    BY <1>1, <2>1 DEF BenchKeeps, Unopened
<1> QED
  BY <1>0, <1>3, <1>4, <1>6 DEF ReadsBack

\* The benchmark works on its call, and does not replace the file.
LEMMA BenchWorking ==
    ASSUME Chosen, BenchInv, NEW b \in Benches, Step(b), path' = path, program' = program,
           BenchScript(b), BenchFiles(b), BenchKeeps(b), ~Rename(b)
    PROVE  BenchFiles(b)' /\ BenchKeeps(b)'
<1> DEFINE k == program[b].key
<1>0. /\ b \in Conns /\ TypeInv /\ k \in Keys /\ Flow(b) /\ Moves(b)
      /\ BenchWay(b) /\ OnPath(b) /\ InCall(b)
  <2>1. b \in Conns /\ TypeInv /\ k \in Keys /\ Flow(b) /\ Moves(b)
    BY ChosenFacts DEF BenchInv, ControlInv, Benches, Moves
  <2>2. BenchWay(b) /\ OnPath(b)
    BY DEF BenchScript, BenchFiles, BenchWay
  <2> QED
    BY <2>1, <2>2, BenchWorks
<1>1. /\ Made(b) \in Nat /\ Made(b) > 0
      /\ frame[b].name \in BenchNames
      /\ frame[b].name = "connect" <=> Made(b) = 1
      /\ frame[b].name \in {"set", "get"} => frame[b].key = k
      /\ frame[b].name = "set" => frame[b].val # Absent
      /\ frame[b].name = "compact" => Made(b) = 6
  BY <1>0, BenchCall
<1>2. /\ pc'[b] # "closed" /\ Made(b)' = Made(b) /\ OnPath(b)'
      /\ pc'[b] = "idle" \/ (InCall(b)' /\ SameCall(b))
      /\ frame[b].name = "compact" =>
            /\ pc'[b] = "idle" => pc[b] \in AfterRename
            /\ InCall(b)' => (pc'[b] \in AfterRename <=> pc[b] \in AfterRename)
      /\ frame[b].name = "set" /\ pc'[b] = "idle" => Set(b)
      /\ \/ view' = view /\ pc[b] # "init"
         \/ Set(b) \/ InitTree(b) \/ pc'[b] = "super"
         \/ frame[b].name = "set" /\ InCall(b)'
      /\ pc'[b] = "rename" => CopyItems(b)
  BY <1>0, BenchWorks DEF Made
<1>3. \A d \in Conns : ino'[d] \in {1, path}
  <2>1. \A d \in Conns : ino'[d] \in {ino[d], 1, path}
    BY <1>0, FileMoves
  <2> QED
    BY <2>1 DEF BenchFiles
<1>4. frame[b].name = "compact" /\ pc[b] \in AfterRename => path # 1
  BY <1>0 DEF BenchFiles
<1>5. BenchFiles(b)'
  <2>1. InCall(b)' => frame'[b].name = frame[b].name
    BY <1>2 DEF SameCall, InCall
  <2>2. path # 1 => Made(b) >= 6 /\ ~InRename(b) /\ program[b].name = "bloated"
    BY DEF BenchFiles
  <2>3. path # 1 => ~InRename(b)'
    BY <1>0, <1>2, <2>1, <2>2 DEF InRename
  <2>4. InCall(b)' /\ frame'[b].name = "compact" /\ pc'[b] \in AfterRename => path # 1
    BY <1>2, <1>4, <2>1
  <2> QED
    BY <1>2, <1>3, <2>2, <2>3, <2>4 DEF BenchFiles
<1>6. Made(b) >= 2 /\ pc[b] \notin Unopened /\ frame[b].name # "set" => view[b][k] # Absent
  BY DEF BenchKeeps
<1>7. ASSUME path # 1
      PROVE  Current(path)'[k] # Absent /\ \A d \in Conns : HasKey(d, k)'
  <2>1. Current(path)[k] # Absent /\ \A d \in Conns : HasKey(d, k)
    BY <1>7 DEF BenchKeeps
  <2>2. PICK j \in Keys : j = k
    BY <1>0
  <2>3. Current(path)'[j] # Absent /\ \A d \in Conns : HasKey(d, j)'
    BY <1>0, <1>1, <2>1, <2>2, KeyHeld DEF BenchNames
  <2> QED
    BY <2>2, <2>3
<1>8. ASSUME Made(b) >= 2, pc'[b] \notin Unopened,
             ~(InCall(b)' /\ frame'[b].name = "set")
      PROVE  view'[b][k] # Absent
  <2>1. CASE pc[b] \in Unopened
    <3>1. view'[b] = Current(ino[b])
      BY <1>0, <1>8, <2>1, OpeningMoves, RefreshHere
    <3>2. frame[b].name = "compact" /\ pc[b] \in AfterRename
      BY <1>0, <1>1, <1>8, <2>1
         DEF BenchWay, Unopened, AfterRename, Reopens, Awaits, InCall
    <3>3. pc[b] # "swap"
      BY <2>1 DEF Unopened
    <3>4. ino[b] = path /\ path # 1
      BY <1>0, <1>4, <3>2, <3>3 DEF OnPath, InCall
    <3> QED
      BY <3>1, <3>4 DEF BenchKeeps
  <2>2. CASE pc[b] \notin Unopened /\ frame[b].name = "set"
    <3>1. Set(b)
      BY <1>2, <1>8, <2>2 DEF SameCall
    <3>2. ApplyHere(b, frame[b].key, Put(frame[b].val)) /\ frame[b].key = k
      BY <1>1, <2>2, <3>1 DEF Set
    <3>3. view'[b][k] = ApplyTo(Put(frame[b].val), view[b][k])
      BY <1>0, <3>2, OwnKey
    <3> QED
      BY <1>1, <2>2, <3>3 DEF ApplyTo, Put
  <2>3. CASE pc[b] \notin Unopened /\ frame[b].name # "set"
    <3>1. ~Set(b) /\ ~InitTree(b) /\ pc'[b] # "super"
      BY <1>8, <2>3 DEF Set, InitTree, Unopened
    <3> QED
      BY <1>2, <1>6, <1>8, <2>3, <3>1
  <2> QED
    BY <2>1, <2>2, <2>3
<1>9. ASSUME pc'[b] = "rename"
      PROVE  /\ frame'[b].temp # 1 /\ Current(frame[b].temp)'[k] # Absent
             /\ \A d \in Conns : ino'[d] # frame'[b].temp
  <2>1. CopyItems(b) /\ pc[b] = "copy"
    BY <1>2, <1>9 DEF CopyItems, Copy
  <2>2. locked[b] /\ frame[b].name = "compact"
    BY <1>0, <2>1 DEF OnPath, BenchWay, Reopens, Awaits, InCall
  <2>3. view[b][k] # Absent
    BY <1>1, <1>6, <2>1, <2>2 DEF Unopened
  <2>4. PICK f \in Files : f = created + 1
    BY <1>0, <2>1, <2>2, CopyStores
  <2>5. ino' = ino /\ frame'[b].temp = f /\ Current(f)' = view[b]
    BY <1>0, <2>1, <2>2, <2>4, CopyStores
  <2>6. /\ created \in Nat /\ created >= 1
        /\ \A d \in Conns : ino[d] \in Nat /\ ino[d] <= created
    BY <1>0 DEF TypeInv, TypeOK, FilesCreated, Files
  <2>7. Current(frame[b].temp)' = Current(f)'
    BY <2>5 DEF Current, Content
  <2> QED
    BY <2>3, <2>4, <2>5, <2>6, <2>7
<1>10. BenchKeeps(b)'
  <2>1. (Made(b) >= 2 /\ pc[b] \notin Unopened /\ ~(InCall(b) /\ frame[b].name = "set")
           => view[b][k] # Absent)'
    BY <1>2, <1>8 DEF Unopened
  <2>2. (pc[b] = "rename" =>
          /\ frame[b].temp # 1 /\ Current(frame[b].temp)[k] # Absent
          /\ \A d \in Conns : ino[d] # frame[b].temp)'
    <3>1. k' = k
      OBVIOUS
    <3> HIDE DEF k
    <3> QED
      BY <1>9, <3>1
  <2>3. (path # 1 => Current(path)[k] # Absent /\ \A d \in Conns : HasKey(d, k))'
    <3>1. k' = k
      OBVIOUS
    <3> HIDE DEF k
    <3> QED
      BY <1>7, <3>1
  <2> QED
    BY <2>1, <2>2, <2>3 DEF BenchKeeps
<1> QED
  BY <1>5, <1>10

\* The benchmark puts its copy in the place of the file.
LEMMA BenchRenames ==
    ASSUME Chosen, BenchInv, NEW b \in Benches, Step(b), program' = program,
           BenchScript(b), BenchFiles(b), BenchKeeps(b), Rename(b)
    PROVE  BenchFiles(b)' /\ BenchKeeps(b)'
<1> DEFINE k == program[b].key
<1>0. /\ b \in Conns /\ TypeInv /\ Flow(b) /\ BenchWay(b) /\ OnPath(b) /\ InCall(b)
  <2>1. b \in Conns /\ TypeInv /\ Flow(b)
    BY ChosenFacts DEF BenchInv, ControlInv, Benches
  <2>2. BenchWay(b) /\ OnPath(b)
    BY DEF BenchScript, BenchFiles, BenchWay
  <2> QED
    BY <2>1, <2>2, BenchWorks
<1>1. /\ pc[b] = "rename" /\ path' = frame[b].temp
      /\ UNCHANGED <<created, root, trees, conn, frame, budget>>
  BY DEF Rename
<1>2. frame[b].name = "compact" /\ InRename(b)
  BY <1>0, <1>1 DEF BenchWay, Reopens, Awaits, InCall, InRename, AfterRename
<1>3. Made(b)' = Made(b) /\ Made(b) = 6 /\ program[b].name = "bloated"
  BY <1>0, <1>1, <1>2, BenchCall DEF Made
<1>4. OnPath(b)' /\ pc'[b] = "swap"
  BY <1>0, BenchWorks
<1>5. path = 1 /\ \A d \in Conns : ino'[d] = 1
  BY <1>1, <1>2 DEF BenchFiles, conn
<1>6. path' # 1 /\ Current(frame[b].temp)[k] # Absent
  BY <1>1 DEF BenchKeeps
<1>7. BenchFiles(b)'
  BY <1>3, <1>4, <1>5, <1>6 DEF BenchFiles, InRename, AfterRename
<1>8. view'[b][k] # Absent
  BY <1>1, <1>2, <1>3 DEF BenchKeeps, Unopened, conn
<1>9. Current(path)'[k] # Absent
  BY <1>1, <1>6 DEF Current, Content
<1>10. \A d \in Conns : HasKey(d, k)'
  BY <1>5, <1>6 DEF HasKey
<1>11. BenchKeeps(b)'
  <2>1. (Made(b) >= 2 /\ pc[b] \notin Unopened /\ ~(InCall(b) /\ frame[b].name = "set")
           => view[b][k] # Absent)'
    BY <1>8
  <2>2. (path # 1 => Current(path)[k] # Absent /\ \A d \in Conns : HasKey(d, k))'
    BY <1>9, <1>10
  <2> QED
    BY <1>4, <2>1, <2>2 DEF BenchKeeps
<1> QED
  BY <1>7, <1>11

LEMMA BenchMoves ==
    ASSUME Chosen, BenchInv, NEW b \in Benches, Move(b)
    PROVE  ReadsBack(b)'
<1>0. /\ b \in Conns /\ b \in Running /\ TypeInv /\ Flow(b) /\ ReadsBack(b)
      /\ outcome \in [Running -> Outcomes]
  BY ChosenFacts DEF BenchInv, ControlInv, Benches, Chosen
<1>1. outcome[b] # "killed"
  <2> SUFFICES ASSUME outcome[b] = "killed", pc[b] = "closed" PROVE FALSE
    BY <1>0 DEF ReadsBack
  <2>1. BenchWay(b) /\ OnPath(b)
    BY DEF BenchWay, OnPath, InCall
  <2>2. ~Step(b)
    BY <1>0, <2>1, BenchWorks DEF InCall
  <2> QED
    BY <2>2 DEF Move, NextCall, Work, Finish
<1>2. outcome[b] = "ok" /\ BenchScript(b) /\ BenchFiles(b) /\ BenchKeeps(b)
  BY <1>0, <1>1 DEF ReadsBack
<1>3. ASSUME Work(b) PROVE ReadsBack(b)'
  <2>1. /\ Step(b) /\ Moves(b) /\ program' = program
        /\ outcome' = outcome \/ Raising(b)
    BY <1>3 DEF Work, Moves
  <2>2. BenchWay(b) /\ OnPath(b)
    BY <1>2 DEF BenchScript, BenchFiles, BenchWay
  <2>3. /\ InCall(b) /\ pc'[b] # "closed" /\ budget' = budget
        /\ BenchWay(b)' /\ (pc'[b] = "idle" \/ (InCall(b)' /\ SameCall(b)))
        /\ ~Raising(b) \/ (pc[b] = "read" /\ view[b][frame[b].key] = Absent)
    BY <1>0, <2>1, <2>2, BenchWorks
  <2>4. /\ Made(b) \in Nat /\ Made(b) > 0
        /\ frame[b].name = "connect" <=> Made(b) = 1
        /\ frame[b].name \in {"set", "get"} => frame[b].key = program[b].key
    BY <1>2, <2>3, BenchCall
  <2>5. ~Raising(b)
    <3> SUFFICES ASSUME pc[b] = "read" PROVE view[b][frame[b].key] # Absent
      BY <2>3
    <3>1. frame[b].name = "get"
      BY <2>2, <2>3 DEF BenchWay, Reopens, Awaits
    <3> QED
      BY <1>2, <2>4, <3>1 DEF BenchKeeps, Unopened
  <2>6. BenchScript(b)'
    <3>1. Made(b)' = Made(b) /\ At(b)' = At(b)
      BY <2>1, <2>3 DEF Made, At
    <3>2. CASE pc'[b] = "idle"
      BY <1>2, <2>1, <2>4, <3>1, <3>2 DEF BenchScript, InCall
    <3>3. CASE InCall(b)' /\ SameCall(b)
      BY <1>2, <2>1, <2>3, <2>4, <3>1, <3>3 DEF BenchScript, SameCall, InCall
    <3> QED
      BY <2>3, <3>2, <3>3
  <2>7. path' = path \/ Rename(b)
    <3>1. CASE Publish(b)
      BY <1>0, <3>1, PublishStores
    <3>2. CASE CopyItems(b) \/ SameDisk
      BY <3>2 DEF CopyItems, Copy, SameDisk
    <3> QED
      BY <1>0, <2>1, <3>1, <3>2, DiskMoves
  <2>8. CASE Rename(b)
    BY <1>2, <2>1, <2>5, <2>6, <2>8, BenchRenames DEF ReadsBack
  <2>9. CASE ~Rename(b)
    BY <1>2, <2>1, <2>5, <2>6, <2>7, <2>9, BenchWorking DEF ReadsBack
  <2> QED
    BY <2>8, <2>9
<1> QED
  BY <1>1, <1>3, BenchNext, BenchCloses DEF Move

\* A process dies: its connections are closed, the file stays as it is.
LEMMA BenchKilled ==
    ASSUME Chosen, BenchInv, NEW b \in Benches, NEW p, Killed(p)
    PROVE  ReadsBack(b)'
<1> DEFINE k == program[b].key
<1>0. /\ b \in Conns /\ b \in Running /\ TypeInv /\ ReadsBack(b) /\ k \in Keys
  BY ChosenFacts DEF BenchInv, Benches
<1>1. /\ UNCHANGED <<path, created, root, trees>> /\ program' = program
      /\ budget'[b] = budget[b]
  BY <1>0, KilledFacts DEF SameDisk
<1>2. ASSUME NEW d \in Conns
      PROVE  /\ Unmoved(d) \/ (pc'[d] = "closed" /\ ino'[d] = 1)
             /\ ino'[d] \in {ino[d], 1}
  BY <1>0, KilledFacts DEF Unmoved
<1>3. \/ Unmoved(b) /\ outcome'[b] = outcome[b]
      \/ /\ pc'[b] = "closed"
         /\ outcome'[b] = IF Ended(b) THEN outcome[b] ELSE "killed"
  BY <1>0, KilledFacts
<1>4. CASE outcome[b] = "killed"
  BY <1>0, <1>3, <1>4 DEF ReadsBack, Ended, Unmoved
<1>5. CASE pc'[b] = "closed" /\ outcome'[b] = "killed"
  BY <1>5 DEF ReadsBack
<1>6. CASE /\ outcome[b] # "killed" /\ outcome'[b] = outcome[b]
           /\ Unmoved(b) \/ pc'[b] = "closed"
  <2>1. outcome[b] = "ok" /\ BenchScript(b) /\ BenchFiles(b) /\ BenchKeeps(b)
    BY <1>0, <1>6 DEF ReadsBack
  <2>2. Made(b)' = Made(b) /\ At(b)' = At(b)
    BY <1>1 DEF Made, At
  <2>3. BenchScript(b)'
    <3>1. CASE pc'[b] = "closed"
      BY <1>1, <2>1, <2>2, <3>1 DEF BenchScript, InCall
    <3>2. CASE Unmoved(b)
      <4>1. BenchWay(b)' = BenchWay(b) /\ InCall(b)' = InCall(b)
        BY <3>2 DEF BenchWay, Unmoved, Reopens, Awaits, InCall
      <4> QED
        BY <1>1, <2>1, <2>2, <3>2, <4>1 DEF BenchScript, Unmoved
    <3> QED
      BY <1>6, <3>1, <3>2
  <2>4. BenchFiles(b)'
    <3>1. \A d \in Conns : ino'[d] \in {1, path'}
      BY <1>1, <1>2, <2>1 DEF BenchFiles
    <3> QED
      BY <1>1, <1>6, <2>1, <2>2, <3>1 DEF BenchFiles, OnPath, InRename, InCall, Unmoved
  <2>5. ASSUME path # 1
        PROVE  Current(path)'[k] # Absent /\ \A d \in Conns : HasKey(d, k)'
    <3>1. Current(path)[k] # Absent /\ \A d \in Conns : HasKey(d, k)
      BY <2>1, <2>5 DEF BenchKeeps
    <3>2. Current(path)'[k] # Absent
      BY <1>1, <3>1 DEF Current, Content
    <3>3. ASSUME NEW d \in Conns PROVE HasKey(d, k)'
      BY <1>1, <1>2, <3>1 DEF HasKey, Unmoved, Unopened
    <3> QED
      BY <3>2, <3>3
  <2>6. ASSUME pc'[b] = "rename"
        PROVE  /\ frame'[b].temp # 1 /\ Current(frame[b].temp)'[k] # Absent
               /\ \A d \in Conns : ino'[d] # frame'[b].temp
    <3>1. Unmoved(b)
      BY <1>6, <2>6
    <3>2. /\ frame[b].temp # 1 /\ Current(frame[b].temp)[k] # Absent
          /\ \A d \in Conns : ino[d] # frame[b].temp
      BY <2>1, <2>6, <3>1 DEF BenchKeeps, Unmoved
    <3>3. Current(frame[b].temp)' = Current(frame[b].temp)
      BY <1>1, <3>1 DEF Current, Content, Unmoved
    <3> QED
      BY <1>2, <3>1, <3>2, <3>3 DEF Unmoved
  <2>7. BenchKeeps(b)'
    <3>0. k' = k
      BY <1>1
    <3>1. (Made(b) >= 2 /\ pc[b] \notin Unopened /\ ~(InCall(b) /\ frame[b].name = "set")
             => view[b][k] # Absent)'
      BY <1>6, <2>1, <2>2, <3>0 DEF BenchKeeps, Unopened, InCall, Unmoved
    <3>2. (pc[b] = "rename" =>
            /\ frame[b].temp # 1 /\ Current(frame[b].temp)[k] # Absent
            /\ \A d \in Conns : ino[d] # frame[b].temp)'
      <4> HIDE DEF k
      <4> QED
        BY <2>6, <3>0
    <3>3. (path # 1 => Current(path)[k] # Absent /\ \A d \in Conns : HasKey(d, k))'
      <4> HIDE DEF k
      <4> QED
        BY <1>1, <2>5, <3>0
    <3> QED
      BY <3>1, <3>2, <3>3 DEF BenchKeeps
  <2> QED
    BY <1>6, <2>1, <2>3, <2>4, <2>7 DEF ReadsBack
<1> QED
  BY <1>3, <1>4, <1>5, <1>6

LEMMA BenchStays ==
    ASSUME NEW b, UNCHANGED work, ReadsBack(b)
    PROVE  ReadsBack(b)'
<1>1. /\ UNCHANGED <<path, root, trees, ino, locked, view, pc, cont, frame, budget>>
      /\ UNCHANGED <<program, outcome>>
  BY DEF work, vars, disk, conn, ctrl
<1>2. /\ BenchScript(b)' = BenchScript(b) /\ BenchFiles(b)' = BenchFiles(b)
  BY <1>1 DEF BenchScript, BenchFiles, BenchWay, OnPath, InRename, InCall, Made, At, Reopens,
              Awaits
<1>3. BenchKeeps(b)' = BenchKeeps(b)
  BY <1>1 DEF BenchKeeps, HasKey, InCall, Made, Current, Content
<1> QED
  BY <1>1, <1>2, <1>3 DEF ReadsBack

LEMMA BenchStep ==
    ASSUME BenchesApart, Chosen, BenchInv, [PNext]_pvars
    PROVE  BenchInv'
<1>1. TypeInv /\ LockInv /\ ControlInv /\ [Next]_vars /\ program' = program /\ Chosen'
  BY ClientStep DEF BenchInv
<1>2. TypeInv' /\ LockInv' /\ ControlInv'
  BY <1>1, TypeInvStep, LockInvStep, ControlStep
<1>3. \A d \in Conns : Fits(d)'
  BY <1>1, FitsStep DEF BenchInv
<1>4. ASSUME NEW b \in Benches PROVE ReadsBack(b)'
  <2>1. ReadsBack(b) /\ b \in Running /\ b \in Conns
    BY <1>4, ChosenFacts DEF BenchInv, Benches
  <2>2. ASSUME NEW c \in Running, Move(c) PROVE ReadsBack(b)'
    <3>1. CASE c = b
      BY <1>4, <2>2, <3>1, BenchMoves
    <3>2. CASE c # b /\ outcome[b] # "killed"
      BY <1>4, <2>2, <3>2, BenchOthers
    <3>3. CASE c # b /\ outcome[b] = "killed"
      <4>1. outcome'[b] = outcome[b] /\ Unmoved(b)
        BY <1>1, <2>1, <2>2, <3>3, FitsMoves, OthersStay, ChosenFacts DEF BenchInv
      <4> QED
        BY <2>1, <3>3, <4>1 DEF ReadsBack, Unmoved
    <3> QED
      BY <3>1, <3>2, <3>3
  <2>3. ASSUME NEW p, Killed(p) PROVE ReadsBack(b)'
    BY <1>4, <2>3, BenchKilled
  <2>4. CASE UNCHANGED work
    BY <2>1, <2>4, BenchStays
  <2> QED
    BY <2>2, <2>3, <2>4, StepCases
<1>5. Benches' = Benches
  BY <1>1 DEF Benches, Running
<1> QED
  BY <1>2, <1>3, <1>4, <1>5 DEF BenchInv

LEMMA BenchInit == PInit => BenchInv
<1> SUFFICES ASSUME PInit PROVE BenchInv
  OBVIOUS
<1>0. Chosen /\ Init
  BY ChosenInit DEF PInit
<1>1. TypeInv /\ LockInv /\ ControlInv
  BY <1>0, TypeInit, LockInit, ControlInit
<1>2. ASSUME NEW d \in Conns
      PROVE  /\ pc[d] = "closed" /\ frame[d].name = "close" /\ ino[d] = 1
             /\ path = 1 /\ budget[d] = MaxCalls[d] /\ MaxCalls[d] \in Nat
  BY <1>0, BoundsAssumption DEF Init, NoFrame
<1>3. \A d \in Conns : Fits(d)
  BY <1>2 DEF Fits
<1>4. ASSUME NEW b \in Benches PROVE ReadsBack(b)
  <2>1. b \in Conns /\ b \in Running /\ outcome[b] = "ok" /\ Made(b) = 0
    BY <1>0, <1>2, <1>4, ChosenFacts DEF Benches, PInit, Made
  <2>2. BenchScript(b)
    <3>1. Len(Script(program[b])) \in Nat
      BY <1>4, BenchScripts DEF Benches
    <3> QED
      BY <1>2, <2>1, <3>1 DEF BenchScript, InCall
  <2>3. BenchFiles(b) /\ BenchKeeps(b)
    BY <1>2, <2>1 DEF BenchFiles, BenchKeeps, OnPath, InCall
  <2> QED
    BY <2>1, <2>2, <2>3 DEF ReadsBack
<1> QED
  BY <1>1, <1>3, <1>4 DEF BenchInv

\* The benchmarks of benchmark.py read back what they have committed, before
\* and after the compaction that the bloated one makes, whatever commands run
\* beside them on the same file, but for a delete of their key, a second
\* compaction or a late creator who empties the file.
THEOREM BenchmarksReadBack ==
    ASSUME BenchesApart PROVE PSpec => []OwnWritesRead
<1> DEFINE I == Chosen /\ BenchInv
<1>1. PInit => I
  BY ChosenInit, BenchInit
<1>2. I /\ [PNext]_pvars => I'
  BY BenchStep, ClientStep
<1>3. I => OwnWritesRead
  BY DEF BenchInv, ReadsBack, Benches, OwnWritesRead
<1> QED
  BY <1>1, <1>2, <1>3, PTL DEF PSpec

=============================================================================
