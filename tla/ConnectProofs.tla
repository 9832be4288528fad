---------------------------- MODULE ConnectProofs ----------------------------
(***************************************************************************)
(* Proofs about module Connect, for every number of processes, every       *)
(* choice of tree types and every way the path may be found.               *)
(***************************************************************************)
EXTENDS Connect, TLAPS

USE RequestsAssumption, CreationsAssumption, FirstAssumption, NoneAssumption

LEMMA TypeInit == Init => TypeOK
BY DEF Init, TypeOK, TreeTypes, Sizes, SuperblockSize, Steps, Sessions

LEMMA TypeStep == TypeOK /\ [Next]_vars => TypeOK'
<1> SUFFICES ASSUME TypeOK, [Next]_vars PROVE TypeOK'
  OBVIOUS
<1> USE DEF TypeOK, given, file, Goto, Steps
<1>1. CASE UNCHANGED vars
  BY <1>1 DEF vars
<1>2. ASSUME NEW p \in Procs, Open(p) \/ ReadRoot(p) \/ ReadRootFails(p) \/ LockFails(p)
      PROVE  TypeOK'
  BY <1>2 DEF Open, ReadRoot, ReadRootFails, LockFails
<1>3. ASSUME NEW p \in Procs, Create(p) \/ EnsureSuperblock(p)
      PROVE  TypeOK'
  <2>1. 0 \in TreeTypes /\ 0 \in Sizes /\ SuperblockSize \in Sizes
    BY DEF TreeTypes, Sizes, SuperblockSize
  <2> QED
    BY <1>3, <2>1 DEF Create, EnsureSuperblock
<1>4. ASSUME NEW p \in Procs, SetTreeType(p) PROVE TypeOK'
  <2>1. wanted[p] \in TreeTypes
    OBVIOUS
  <2> QED
    BY <1>4, <2>1 DEF SetTreeType, Sizes
<1>5. ASSUME NEW p \in Procs, GetTreeType(p) \/ Lock(p) PROVE TypeOK'
  BY <1>5 DEF GetTreeType, Lock
<1>6. ASSUME NEW p \in Procs, Commit(p) PROVE TypeOK'
  BY <1>6 DEF Commit, CommitSessions, Sessions
<1> QED
  BY <1>1, <1>2, <1>3, <1>4, <1>5, <1>6 DEF Next

\* The model's state has its types.
THEOREM ConnectTypes == Spec => []TypeOK
BY TypeInit, TypeStep, PTL DEF Spec

(***************************************************************************)
(* A file created by one process alone.  The invariant says who can be     *)
(* under way while the file is not whole, and what an open step has seen.  *)
(***************************************************************************)
Whole == there /\ size = SuperblockSize

\* While the file is not whole, one process at most is under way.
OneCreates ==
    \A p, q \in Procs : p # q /\ pc[p] # "start" /\ pc[q] # "start" => Whole

\* What a process has seen to when it is at its step.
Reached(p) ==
    /\ pc[p] = "create" => ~there
    /\ pc[p] = "super" => there
    /\ pc[p] \notin {"start", "create", "super"} => Whole

AloneInv ==
    /\ OneCreates
    /\ \A p \in Procs : Reached(p)
    /\ ~there => committed = {} /\ nodes = None
    /\ committed \subseteq sessions

\* Everybody wants one type: the type of the nodes is known before there are
\* any, and a process past the choice of its type has chosen it.
Agreed == \A p, q \in Procs : wanted[p] = wanted[q]

TypeChosen(p) ==
    /\ pc[p] = "gettype" => nodes # None
    /\ pc[p] = "settype" /\ nodes # None => nodes = wanted[p]
    /\ pc[p] \in {"ready", "write"} =>
          kind[p] = flag /\ (nodes = None => flag = wanted[p])
    /\ pc[p] # "failed"

AgreedInv ==
    /\ nodes # None => flag = nodes
    /\ \A p \in Procs : TypeChosen(p)

ConnectInv ==
    TypeOK /\ (creation = "alone" => AloneInv /\ (Agreed => AgreedInv))

LEMMA ConnectInit == Init => ConnectInv
BY TypeInit DEF Init, ConnectInv, AloneInv, OneCreates, Reached, Whole, AgreedInv, TypeChosen

LEMMA AloneStep ==
    ASSUME TypeOK, creation = "alone", AloneInv, Next
    PROVE  AloneInv'
<1> USE DEF AloneInv, OneCreates, Reached, Whole, TypeOK, given, file, Goto
<1>1. ASSUME NEW p \in Procs, Open(p) PROVE AloneInv'
  BY <1>1 DEF Open
<1>2. ASSUME NEW p \in Procs, Create(p) PROVE AloneInv'
  BY <1>2 DEF Create
<1>3. ASSUME NEW p \in Procs, EnsureSuperblock(p) PROVE AloneInv'
  BY <1>3 DEF EnsureSuperblock
<1>4. ASSUME NEW p \in Procs, ReadRoot(p) \/ ReadRootFails(p) \/ LockFails(p)
      PROVE  AloneInv'
  BY <1>4 DEF ReadRoot, ReadRootFails, LockFails
<1>5. ASSUME NEW p \in Procs, SetTreeType(p) PROVE AloneInv'
  BY <1>5 DEF SetTreeType, SuperblockSize
<1>6. ASSUME NEW p \in Procs, GetTreeType(p) \/ Lock(p) PROVE AloneInv'
  BY <1>6 DEF GetTreeType, Lock
<1>7. ASSUME NEW p \in Procs, Commit(p) PROVE AloneInv'
  BY <1>7 DEF Commit, CommitSessions, SuperblockSize
<1> QED
  BY <1>1, <1>2, <1>3, <1>4, <1>5, <1>6, <1>7 DEF Next

LEMMA AgreedStep ==
    ASSUME TypeOK, creation = "alone", AloneInv, Agreed, AgreedInv, Next
    PROVE  AgreedInv'
<1> USE DEF AloneInv, OneCreates, Reached, Whole, Agreed, AgreedInv, TypeChosen,
            TypeOK, given, file, Goto, NoRoot
<1>1. ASSUME NEW p \in Procs, Open(p) PROVE AgreedInv'
  BY <1>1 DEF Open
<1>2. ASSUME NEW p \in Procs, Create(p) PROVE AgreedInv'
  BY <1>2 DEF Create
<1>3. ASSUME NEW p \in Procs, EnsureSuperblock(p) PROVE AgreedInv'
  BY <1>3 DEF EnsureSuperblock
<1>4. ASSUME NEW p \in Procs, ReadRoot(p) \/ ReadRootFails(p)
      PROVE  AgreedInv'
  BY <1>4 DEF ReadRoot, ReadRootFails, SuperblockSize
<1>5. ASSUME NEW p \in Procs, SetTreeType(p) PROVE AgreedInv'
  BY <1>5 DEF SetTreeType
<1>6. ASSUME NEW p \in Procs, GetTreeType(p) PROVE AgreedInv'
  BY <1>6 DEF GetTreeType
<1>7. ASSUME NEW p \in Procs, Lock(p) PROVE AgreedInv'
  BY <1>7 DEF Lock
<1>8. ASSUME NEW p \in Procs, LockFails(p) PROVE AgreedInv'
  BY <1>8 DEF LockFails, SuperblockSize
<1>9. ASSUME NEW p \in Procs, Commit(p) PROVE AgreedInv'
  BY <1>9 DEF Commit, CommitSessions
<1> QED
  BY <1>1, <1>2, <1>3, <1>4, <1>5, <1>6, <1>7, <1>8, <1>9 DEF Next

LEMMA ConnectStep == ConnectInv /\ [Next]_vars => ConnectInv'
<1> SUFFICES ASSUME ConnectInv, [Next]_vars PROVE ConnectInv'
  OBVIOUS
<1>1. TypeOK /\ TypeOK'
  BY TypeStep DEF ConnectInv
<1>2. UNCHANGED given
  BY DEF Next, vars, Open, Create, EnsureSuperblock, ReadRoot, ReadRootFails,
         SetTreeType, GetTreeType, Lock, LockFails, Commit, CommitSessions
<1>3. CASE Next
  <2> SUFFICES ASSUME creation = "alone"
               PROVE  AloneInv' /\ (Agreed => AgreedInv')
    BY <1>1, <1>2 DEF ConnectInv, given, Agreed
  <2> QED
    BY <1>1, <1>3, AloneStep, AgreedStep DEF ConnectInv
<1>4. CASE UNCHANGED vars
  BY <1>1, <1>4 DEF vars, given, file, ConnectInv, AloneInv, OneCreates, Reached,
                    Whole, Agreed, AgreedInv, TypeChosen
<1> QED
  BY <1>3, <1>4

LEMMA ConnectAlways == Spec => []ConnectInv
BY ConnectInit, ConnectStep, PTL DEF Spec

\* A file that one process creates alone is never lost to another one's
\* connect, and no open reads a half-made superblock, however many processes
\* connect and commit.
THEOREM CreatedAloneIsSafe == Spec => []SafeIfCreatedAlone
<1>1. ConnectInv => SafeIfCreatedAlone
  BY DEF ConnectInv, AloneInv, Reached, Whole, SuperblockSize, SafeIfCreatedAlone,
         CommittedKept
<1> QED
  BY <1>1, ConnectAlways, PTL

\* If they also agree on a tree type, the choice of DBDB.__init__ is right
\* although its read of the root and its write of the type are not one step:
\* nobody works with another kind of tree than is stored.
THEOREM OneTypeSuffices == Spec => []OneTypeForAll
<1>1. ConnectInv => OneTypeForAll
  BY DEF ConnectInv, AgreedInv, Agreed, TypeChosen, OneTypeForAll
<1> QED
  BY <1>1, ConnectAlways, PTL

\* However the processes race, commits do not lose each other's data.
THEOREM OnlyEmptyingLoses == Spec => LostOnlyByEmptying
<1>1. [Next]_vars =>
        [committed \subseteq sessions /\ size # 0
           => committed' \subseteq sessions' \/ size' = 0]_vars
  <2> SUFFICES ASSUME Next, committed \subseteq sessions, size # 0, size' # 0
               PROVE  committed' \subseteq sessions'
    OBVIOUS
  <2>1. ASSUME NEW p \in Procs, Commit(p) PROVE committed' \subseteq sessions'
    BY <2>1 DEF Commit, CommitSessions
  <2> QED
    BY <2>1 DEF Next, file, Open, Create, EnsureSuperblock, ReadRoot, ReadRootFails,
                SetTreeType, GetTreeType, Lock, LockFails
<1> QED
  BY <1>1, PTL DEF Spec, LostOnlyByEmptying
=============================================================================
