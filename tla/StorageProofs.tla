---------------------------- MODULE StorageProofs ----------------------------
(***************************************************************************)
(* Proofs about the file of module Storage, for every number of processes, *)
(* records and commits and every set of failures: whatever fails, the      *)
(* superblock leads to a whole tree, and a commit that returned stays.     *)
(***************************************************************************)
EXTENDS Storage, SequenceTheorems, TLAPS

(***************************************************************************)
(* The invariant.                                                          *)
(***************************************************************************)

\* What of the records a power failure is sure to leave.
Prefix == SubSeq(recs, 1, synced)

FileGood == root \in roots /\ RootReadable /\ Recoverable /\ Durable

\* A root that may be written, or may reach the file, leads to a whole tree.
Sound(a) == Readable(a, recs) /\ (~skipped => Readable(a, Prefix))

\* What a process knows, and has written or is about to write as a root, is
\* complete; only the holder of the lock has anything buffered or under way.
Good(p) ==
    /\ Closed(known[p], recs \o buffer[p].recs)
    /\ buffer[p] # EmptyBuffer \/ pc[p] # "idle" => holder = p
    /\ pc[p] \in {"sync", "root", "syncRoot", "unlock"} => buffer[p] = EmptyBuffer
    /\ pc[p] # "idle" => Readable(target[p], recs)
    /\ pc[p] = "root" => Sound(target[p])
    /\ pc[p] = "unlock" /\ ~skipped => roots = {root}
    /\ \A i \in DOMAIN buffer[p].roots :
          /\ Sound(buffer[p].roots[i].at)
          /\ ~skipped => buffer[p].roots[i].ver >= acked

Inv == TypeOK /\ FileGood /\ \A p \in Procs : Good(p)

USE NoneAssumption

(***************************************************************************)
(* Records and sequences of them.                                          *)
(***************************************************************************)

\* ts has all that rs has.
Extends(rs, ts) ==
    /\ DOMAIN rs \subseteq DOMAIN ts
    /\ \A i \in DOMAIN rs : ts[i] = rs[i]

LEMMA ClosedKept ==
    ASSUME NEW rs, NEW ts, Extends(rs, ts), NEW S, Closed(S, rs)
    PROVE  Closed(S, ts)
BY DEF Extends, Closed

LEMMA ReadableKept ==
    ASSUME NEW rs, NEW ts, Extends(rs, ts), NEW a, Readable(a, rs)
    PROVE  Readable(a, ts)
<1>1. CASE a = 0
  BY <1>1 DEF Readable
<1>2. CASE a # 0
  <2>1. PICK S \in SUBSET (DOMAIN rs) : a \in S /\ Closed(S, rs)
    BY <1>2 DEF Readable
  <2>2. S \in SUBSET (DOMAIN ts) /\ Closed(S, ts)
    BY <2>1, ClosedKept DEF Extends
  <2> QED
    BY <2>1, <2>2 DEF Readable
<1> QED
  BY <1>1, <1>2

\* A member of a closed set can be read.
LEMMA ClosedReadable ==
    ASSUME NEW rs, NEW S, Closed(S, rs), NEW a \in S
    PROVE  Readable(a, rs)
BY DEF Closed, Readable

\* Following references from a tree that is whole finds whole records only, and
\* none outside any set that is closed around it.
LEMMA ReachClosed ==
    ASSUME NEW rs, NEW a, Readable(a, rs)
    PROVE  /\ Closed(Reach(a, rs), rs)
           /\ \A S \in SUBSET (DOMAIN rs) : a \in S /\ Closed(S, rs) => Reach(a, rs) \subseteq S
<1>1. ASSUME NEW S \in SUBSET (DOMAIN rs), a \in S, Closed(S, rs)
      PROVE  Reach(a, rs) \subseteq S
  BY <1>1 DEF Reach, Closed
<1>2. Closed(Reach(a, rs), rs)
  <2>1. CASE a = 0
    BY <2>1 DEF Reach, Closed
  <2>2. CASE a # 0
    <3>1. PICK S \in SUBSET (DOMAIN rs) : a \in S /\ Closed(S, rs)
      BY <2>2 DEF Readable
    <3>2. SUFFICES ASSUME NEW b \in Reach(a, rs), NEW c \in rs[b].refs
                   PROVE  b \in DOMAIN rs /\ rs[b].whole /\ c \in Reach(a, rs)
      <4>1. Reach(a, rs) \subseteq S
        BY <1>1, <3>1
      <4> QED
        BY <3>1, <4>1 DEF Closed
    <3>3. b \in S
      BY <1>1, <3>1, <3>2
    <3>4. b \in DOMAIN rs /\ rs[b].whole /\ c \in S
      BY <3>1, <3>2, <3>3 DEF Closed
    <3>5. ASSUME NEW T \in SUBSET (DOMAIN rs), a \in T, \A d \in T : rs[d].refs \subseteq T
          PROVE  c \in T
      BY <3>2, <3>5 DEF Reach
    <3> QED
      BY <2>2, <3>4, <3>5 DEF Reach
  <2> QED
    BY <2>1, <2>2
<1> QED
  BY <1>1, <1>2

LEMMA ConcatExtends ==
    ASSUME NEW rs \in Seq(Record), NEW ts \in Seq(Record)
    PROVE  /\ rs \o ts \in Seq(Record)
           /\ Len(rs \o ts) = Len(rs) + Len(ts)
           /\ Extends(rs, rs \o ts)
<1>1. /\ rs \o ts \in Seq(Record) /\ Len(rs \o ts) = Len(rs) + Len(ts)
      /\ Len(rs) \in Nat /\ Len(ts) \in Nat
      /\ \A i \in 1..Len(rs) + Len(ts) :
            (rs \o ts)[i] = IF i <= Len(rs) THEN rs[i] ELSE ts[i - Len(rs)]
  BY ConcatProperties, LenProperties
<1>2. DOMAIN rs = 1..Len(rs) /\ DOMAIN (rs \o ts) = 1..Len(rs) + Len(ts)
  BY <1>1, LenProperties
<1> QED
  BY <1>1, <1>2 DEF Extends

\* A record is added whose references are known.
LEMMA RecordAdded ==
    ASSUME NEW rs \in Seq(Record), NEW S, Closed(S, rs),
           NEW r \in Record, r.whole, r.refs \subseteq S
    PROVE  Closed(S \cup {Len(rs) + 1}, rs \o <<r>>)
<1> DEFINE ts == rs \o <<r>>
<1>0. <<r>> \in Seq(Record) /\ Len(<<r>>) = 1 /\ Len(rs) \in Nat
  OBVIOUS
<1>1. ts \in Seq(Record) /\ Len(ts) = Len(rs) + 1 /\ Extends(rs, ts)
  BY <1>0, ConcatExtends
<1>2. ts[Len(rs) + 1] = r
  <2>1. ts[Len(rs) + 1] = <<r>>[Len(rs) + 1 - Len(rs)]
    BY <1>0, <1>1, ConcatProperties
  <2> QED
    BY <1>0, <2>1
<1>3. Len(rs) + 1 \in DOMAIN ts
  BY <1>0, <1>1, LenProperties
<1>4. Closed(S, ts)
  BY <1>1, ClosedKept
<1> HIDE DEF ts
<1>5. Closed(S \cup {Len(rs) + 1}, ts)
  BY <1>2, <1>3, <1>4 DEF Closed
<1> QED
  BY <1>5 DEF ts

\* What is on the device for sure.
LEMMA PrefixFacts ==
    ASSUME NEW rs \in Seq(Record), NEW n \in 0..Len(rs)
    PROVE  /\ SubSeq(rs, 1, n) \in Seq(Record)
           /\ Len(SubSeq(rs, 1, n)) = n
           /\ DOMAIN SubSeq(rs, 1, n) = 1..n
           /\ \A i \in 1..n : SubSeq(rs, 1, n)[i] = rs[i]
<1>1. Len(rs) \in Nat /\ \A i \in 1..n : rs[i] \in Record
  BY LenProperties, ElementOfSeq
<1>2. /\ SubSeq(rs, 1, n) \in Seq(Record)
      /\ Len(SubSeq(rs, 1, n)) = IF 1 <= n THEN n - 1 + 1 ELSE 0
      /\ \A i \in 1..n - 1 + 1 : SubSeq(rs, 1, n)[i] = rs[1 + i - 1]
  BY <1>1, SubSeqProperties
<1>3. Len(SubSeq(rs, 1, n)) = n /\ \A i \in 1..n : SubSeq(rs, 1, n)[i] = rs[i]
  BY <1>1, <1>2
<1> QED
  BY <1>2, <1>3, LenProperties

\* The records on the device are kept when the file only grows.
LEMMA PrefixKept ==
    ASSUME NEW rs \in Seq(Record), NEW ts \in Seq(Record), Extends(rs, ts),
           NEW m \in 0..Len(rs), NEW n \in 0..Len(ts), m <= n
    PROVE  Extends(SubSeq(rs, 1, m), SubSeq(ts, 1, n))
<1>1. /\ DOMAIN rs = 1..Len(rs) /\ Len(rs) \in Nat /\ Len(ts) \in Nat
      /\ DOMAIN SubSeq(rs, 1, m) = 1..m /\ DOMAIN SubSeq(ts, 1, n) = 1..n
      /\ \A i \in 1..m : SubSeq(rs, 1, m)[i] = rs[i]
      /\ \A i \in 1..n : SubSeq(ts, 1, n)[i] = ts[i]
  BY LenProperties, PrefixFacts
<1> QED
  BY <1>1 DEF Extends

(***************************************************************************)
(* Steps under which the file grows.                                       *)
(***************************************************************************)

Grows ==
    /\ recs \in Seq(Record) /\ recs' \in Seq(Record) /\ Extends(recs, recs')
    /\ synced \in 0..Len(recs) /\ synced' \in 0..Len(recs') /\ synced <= synced'

LEMMA GrowthKeeps ==
    ASSUME Grows
    PROVE  /\ \A a : Readable(a, recs) => Readable(a, recs')
           /\ \A a : Readable(a, Prefix) => Readable(a, Prefix')
           /\ skipped' = skipped => \A a : Sound(a) => Sound(a)'
<1>1. Extends(Prefix, Prefix')
  BY PrefixKept DEF Grows, Prefix
<1> QED
  BY <1>1, ReadableKept DEF Grows, Sound

\* Nothing that a process has in memory changes.
Unmoved(q) ==
    /\ buffer'[q] = buffer[q] /\ known'[q] = known[q]
    /\ pc'[q] = pc[q] /\ target'[q] = target[q]

\* The processes that do not move, when the file does not change either ...
LEMMA Unaffected ==
    ASSUME Inv, NEW q \in Procs, Unmoved(q),
           UNCHANGED <<file, device, acked, skipped>>,
           holder = q => holder' = q
    PROVE  Good(q)'
<1>1. /\ Good(q) /\ acked' = acked /\ skipped' = skipped
      /\ recs' = recs /\ root' = root /\ synced' = synced /\ roots' = roots
  BY DEF Inv, file, device
<1>2. /\ \A a : Sound(a) => Sound(a)'
      /\ \A a : Readable(a, recs) => Readable(a, recs')
  BY <1>1 DEF Sound, Prefix
<1>3. recs' \o buffer'[q].recs = recs \o buffer[q].recs
  BY <1>1 DEF Unmoved
<1> QED
  BY <1>1, <1>2, <1>3 DEF Good, Unmoved

\* ... and when another process has the lock and writes to the file.
LEMMA Bystander ==
    ASSUME Inv, NEW q \in Procs, Unmoved(q), holder # q, Grows
    PROVE  Good(q)'
<1>1. /\ Good(q) /\ recs \in Seq(Record)
  BY DEF Inv, TypeOK
<1>2. buffer[q] = EmptyBuffer /\ pc[q] = "idle"
  BY <1>1 DEF Good
<1>3. recs \o buffer[q].recs = recs /\ recs' \o buffer[q].recs = recs'
  BY <1>2, ConcatEmptySeq DEF EmptyBuffer, Grows
<1>4. Closed(known[q], recs')
  BY <1>1, <1>3, ClosedKept DEF Good, Grows
<1>5. DOMAIN buffer[q].roots = {}
  BY <1>2 DEF EmptyBuffer
<1> QED
  BY <1>2, <1>3, <1>4, <1>5 DEF Good, Unmoved

\* A flush: only complete roots come to the file.
LEMMA FlushFacts ==
    ASSUME Inv, NEW p \in Procs, NEW rs \in Seq(Record), FlushThen(p, rs),
           UNCHANGED <<acked, skipped>>
    PROVE  /\ Grows /\ FileGood'
           /\ recs' = recs \o buffer[p].recs
           /\ root' \in Root /\ roots' \subseteq Root /\ roots' # {}
           /\ buffer' \in [Procs -> [recs : Seq(Record), roots : Seq(Root)]]
           /\ buffer'[p] = [recs |-> rs, roots |-> <<>>]
           /\ \A q \in Procs \ {p} : buffer'[q] = buffer[q]
<1> DEFINE b == buffer[p]
<1>1. /\ b \in [recs : Seq(Record), roots : Seq(Root)] /\ recs \in Seq(Record)
      /\ root \in Root /\ roots \subseteq Root /\ synced \in 0..Len(recs)
      /\ buffer \in [Procs -> [recs : Seq(Record), roots : Seq(Root)]]
      /\ FileGood /\ Good(p)
  BY DEF Inv, TypeOK
<1>2. /\ recs' = recs \o b.recs
      /\ root' = IF b.roots = <<>> THEN root ELSE b.roots[Len(b.roots)]
      /\ roots' = roots \cup {b.roots[i] : i \in DOMAIN b.roots}
      /\ buffer' = [buffer EXCEPT ![p] = [recs |-> rs, roots |-> <<>>]]
      /\ synced' = synced
  BY DEF FlushThen
<1>3. b.recs \in Seq(Record) /\ b.roots \in Seq(Root)
  BY <1>1
<1>4. Grows
  <2>1. /\ recs' \in Seq(Record) /\ Extends(recs, recs')
        /\ Len(recs') = Len(recs) + Len(b.recs)
        /\ Len(recs) \in Nat /\ Len(b.recs) \in Nat
    BY <1>1, <1>2, <1>3, ConcatExtends
  <2> QED
    BY <1>1, <1>2, <2>1 DEF Grows
<1>5. /\ \A i \in DOMAIN b.roots : b.roots[i] \in Root
      /\ b.roots # <<>> => Len(b.roots) \in DOMAIN b.roots
  BY <1>3
<1>6. /\ root' \in Root /\ roots' \subseteq Root /\ roots' # {}
      /\ root' \in roots'
  BY <1>1, <1>2, <1>5 DEF FileGood
<1>7. \A r \in roots' : r \in roots \/ \E i \in DOMAIN b.roots : r = b.roots[i]
  BY <1>2
<1>8. RootReadable'
  <2>1. Readable(root'.at, recs)
    BY <1>1, <1>2, <1>5 DEF FileGood, RootReadable, Good, Sound
  <2> QED
    BY <1>4, <2>1, GrowthKeeps DEF RootReadable
<1>9. Recoverable' /\ Durable'
  <2> SUFFICES ASSUME ~skipped, NEW r \in roots'
               PROVE  Readable(r.at, Prefix') /\ r.ver >= acked
    BY DEF Recoverable, Durable, Prefix
  <2>1. Readable(r.at, Prefix) /\ r.ver >= acked
    BY <1>1, <1>7 DEF FileGood, Recoverable, Durable, Good, Sound, Prefix
  <2> QED
    BY <1>4, <2>1, GrowthKeeps
<1>10. FileGood'
  BY <1>6, <1>8, <1>9 DEF FileGood
<1>11. [recs |-> rs, roots |-> <<>>] \in [recs : Seq(Record), roots : Seq(Root)]
  OBVIOUS
<1>12. /\ buffer' \in [Procs -> [recs : Seq(Record), roots : Seq(Root)]]
       /\ buffer'[p] = [recs |-> rs, roots |-> <<>>]
       /\ \A q \in Procs \ {p} : buffer'[q] = buffer[q]
  BY <1>1, <1>2, <1>11
<1> HIDE DEF b
<1> QED
  BY <1>2, <1>4, <1>6, <1>10, <1>12 DEF b

\* A flush of nothing.
LEMMA FlushNothing ==
    ASSUME Inv, NEW p \in Procs, buffer[p] = EmptyBuffer, Flush(p)
    PROVE  UNCHANGED <<file, device, buffer>>
<1>1. /\ recs \in Seq(Record)
      /\ buffer \in [Procs -> [recs : Seq(Record), roots : Seq(Root)]]
  BY DEF Inv, TypeOK
<1>2. recs' = recs
  BY <1>1, ConcatEmptySeq DEF Flush, FlushThen, EmptyBuffer
<1>3. root' = root /\ roots' = roots /\ synced' = synced
  BY DEF Flush, FlushThen, EmptyBuffer
<1>4. buffer' = [buffer EXCEPT ![p] = EmptyBuffer]
  BY DEF Flush, FlushThen, EmptyBuffer
<1> QED
  BY <1>1, <1>2, <1>3, <1>4 DEF file, device

\* A sync that does what it says puts everything on the device.
LEMMA SyncFacts ==
    ASSUME Inv, NEW p \in Procs, Sync(p), UNCHANGED <<file, acked>>
    PROVE  /\ Grows /\ FileGood' /\ roots' \subseteq Root /\ roots' # {}
           /\ skipped' \in BOOLEAN
           /\ ~skipped' => Prefix' = recs /\ roots' = {root}
<1>1. /\ recs \in Seq(Record) /\ root \in Root /\ roots \subseteq Root
      /\ synced \in 0..Len(recs) /\ FileGood /\ skipped \in BOOLEAN
      /\ recs' = recs /\ root' = root /\ acked' = acked /\ Len(recs) \in Nat
  BY LenProperties DEF Inv, TypeOK, file
<1>2. Extends(recs, recs)
  BY DEF Extends
<1>3. CASE synced' = Len(recs) /\ roots' = {root} /\ skipped' = skipped
  <2>1. Grows
    BY <1>1, <1>2, <1>3 DEF Grows
  <2>2. Prefix' = recs
    BY <1>1, <1>3, SubSeqFull DEF Prefix
  <2>3. FileGood'
    BY <1>1, <1>3, <2>2 DEF FileGood, RootReadable, Recoverable, Durable, Prefix
  <2> QED
    BY <1>1, <1>3, <2>1, <2>2, <2>3
<1>4. CASE skipped' = TRUE /\ UNCHANGED device
  <2>1. Grows
    BY <1>1, <1>2, <1>4 DEF Grows, device
  <2>2. FileGood'
    BY <1>1, <1>4 DEF FileGood, RootReadable, Recoverable, Durable, device
  <2> QED
    BY <1>1, <1>4, <2>1, <2>2 DEF device, FileGood
<1> QED
  BY <1>3, <1>4 DEF Sync

\* The file grows by records that no root leads to.
LEMMA GrowthGood ==
    ASSUME Inv, Grows, UNCHANGED <<root, roots, acked, skipped>>
    PROVE  FileGood'
<1>1. FileGood
  BY DEF Inv
<1>2. RootReadable' /\ Recoverable' /\ Durable'
  BY <1>1, GrowthKeeps DEF FileGood, RootReadable, Recoverable, Durable, Prefix
<1> QED
  BY <1>1, <1>2 DEF FileGood

\* Process p steps and leaves the file alone.
LEMMA QuietStep ==
    ASSUME Inv, NEW p \in Procs, \A q \in Procs \ {p} : Unmoved(q),
           UNCHANGED <<file, device, acked, skipped>>,
           \A q \in Procs \ {p} : holder = q => holder' = q,
           TypeOK', Good(p)'
    PROVE  Inv'
<1>1. \A q \in Procs \ {p} : Good(q)'
  BY Unaffected
<1>2. FileGood'
  BY DEF Inv, FileGood, RootReadable, Recoverable, Durable, file, device
<1> QED
  BY <1>1, <1>2 DEF Inv

\* Process p, which has the lock or could have it, writes to the file.
LEMMA HolderStep ==
    ASSUME Inv, NEW p \in Procs, \A q \in Procs \ {p} : Unmoved(q),
           LockFree(p), Grows, TypeOK', FileGood', Good(p)'
    PROVE  Inv'
<1>1. \A q \in Procs \ {p} : holder # q
  BY DEF LockFree
<1>2. \A q \in Procs \ {p} : Good(q)'
  BY <1>1, Bystander
<1> QED
  BY <1>2 DEF Inv

(***************************************************************************)
(* The steps, one lemma for each.                                          *)
(***************************************************************************)

LEMMA LoadStep ==
    ASSUME Inv, NEW p \in Procs, Load(p)
    PROVE  Inv'
<1>1. /\ pc[p] = "idle"
      /\ holder' = holder \/ (holder = None /\ holder' = p)
      /\ UNCHANGED <<file, device, buffer, pc, target, acked, skipped>>
      /\ known' = [known EXCEPT ![p] = Reach(root.at, recs)]
      /\ TypeOK /\ Good(p) /\ RootReadable
  BY DEF Load, Inv, FileGood
<1>2. Closed(Reach(root.at, recs), recs \o buffer[p].recs)
  <2>1. Closed(Reach(root.at, recs), recs)
    BY <1>1, ReachClosed DEF RootReadable
  <2>2. recs \in Seq(Record) /\ buffer[p].recs \in Seq(Record)
    BY <1>1 DEF TypeOK
  <2> QED
    BY <2>1, <2>2, ConcatExtends, ClosedKept
<1>3. Reach(root.at, recs) \subseteq Nat
  BY <1>1, LenProperties DEF Reach, TypeOK
<1>4. TypeOK'
  BY <1>1, <1>3 DEF TypeOK, file, device
<1>5. Good(p)'
  <2>1. known'[p] = Reach(root.at, recs)
    BY <1>1 DEF TypeOK
  <2>2. \A a : Sound(a)' = Sound(a)
    BY <1>1 DEF Sound, Prefix, file, device
  <2> QED
    BY <1>1, <1>2, <2>1, <2>2 DEF Good, file, device
<1>6. \A q \in Procs \ {p} : Unmoved(q)
  BY <1>1 DEF Unmoved, TypeOK
<1> QED
  BY <1>1, <1>4, <1>5, <1>6, QuietStep

LEMMA WriteStep ==
    ASSUME Inv, NEW p \in Procs, NEW refs \in StoredRefs(p), WriteRecord(p, refs)
    PROVE  Inv'
<1> DEFINE r == [whole |-> TRUE, refs |-> refs]
<1>1. /\ pc[p] = "idle" /\ LockFree(p) /\ holder' = p
      /\ FlushThen(p, <<r>>)
      /\ known' = [known EXCEPT ![p] = @ \cup {Len(recs') + 1}]
      /\ UNCHANGED <<pc, target, acked, skipped>>
      /\ TypeOK /\ Good(p)
  BY DEF WriteRecord, Inv
<1>2. refs \in SUBSET known[p] /\ known[p] \in SUBSET Nat
  BY <1>1 DEF StoredRefs, TypeOK
<1>3. r \in Record
  BY <1>2 DEF Record
<1> HIDE DEF r
<1>4. <<r>> \in Seq(Record)
  BY <1>3
<1>5. /\ Grows /\ FileGood' /\ recs' = recs \o buffer[p].recs
      /\ root' \in Root /\ roots' \subseteq Root /\ roots' # {}
      /\ buffer' \in [Procs -> [recs : Seq(Record), roots : Seq(Root)]]
      /\ buffer'[p] = [recs |-> <<r>>, roots |-> <<>>]
      /\ \A q \in Procs \ {p} : buffer'[q] = buffer[q]
  BY <1>1, <1>4, FlushFacts
<1>6. /\ known'[p] = known[p] \cup {Len(recs') + 1}
      /\ \A q \in Procs \ {p} : known'[q] = known[q]
      /\ known' \in [Procs -> SUBSET Nat]
  BY <1>1, <1>5, LenProperties DEF TypeOK, Grows
<1>7. Closed(known'[p], recs' \o <<r>>)
  <2>1. Closed(known[p], recs') /\ recs' \in Seq(Record)
    BY <1>1, <1>5 DEF Good, Grows
  <2>2. r.whole /\ r.refs \subseteq known[p]
    BY <1>2 DEF r
  <2> QED
    BY <1>3, <1>6, <2>1, <2>2, RecordAdded
<1>8. TypeOK'
  BY <1>1, <1>5, <1>6 DEF TypeOK, Grows
<1>9. Good(p)'
  BY <1>1, <1>5, <1>7 DEF Good
<1>10. \A q \in Procs \ {p} : Unmoved(q)
  BY <1>1, <1>5, <1>6 DEF Unmoved
<1> QED
  BY <1>1, <1>5, <1>8, <1>9, <1>10, HolderStep

LEMMA WriteFailsStep ==
    ASSUME Inv, NEW p \in Procs, WriteFails(p)
    PROVE  Inv'
<1>1. /\ pc[p] = "idle" /\ LockFree(p) /\ holder' = p
      /\ UNCHANGED <<known, pc, target, acked, skipped>>
      /\ TypeOK /\ Good(p)
  BY DEF WriteFails, Inv
<1>2. CASE UNCHANGED <<file, device, buffer>>
  <2>1. \A a : Sound(a)' = Sound(a)
    BY <1>1, <1>2 DEF Sound, Prefix, file, device
  <2>2. TypeOK'
    BY <1>1, <1>2 DEF TypeOK, file, device
  <2>3. Good(p)'
    BY <1>1, <1>2, <2>1 DEF Good, file, device
  <2>4. \A q \in Procs \ {p} : Unmoved(q) /\ holder # q
    BY <1>1, <1>2 DEF Unmoved, LockFree
  <2> QED
    BY <1>1, <1>2, <2>2, <2>3, <2>4, QuietStep
<1>3. CASE FlushThen(p, <<Torn>>)
  <2>1. <<Torn>> \in Seq(Record)
    <3>1. Torn \in Record
      BY DEF Torn, Record
    <3> QED
      BY <3>1
  <2>2. /\ Grows /\ FileGood' /\ recs' = recs \o buffer[p].recs
        /\ root' \in Root /\ roots' \subseteq Root /\ roots' # {}
        /\ buffer' \in [Procs -> [recs : Seq(Record), roots : Seq(Root)]]
        /\ buffer'[p] = [recs |-> <<Torn>>, roots |-> <<>>]
        /\ \A q \in Procs \ {p} : buffer'[q] = buffer[q]
    BY <1>1, <1>3, <2>1, FlushFacts
  <2>3. Closed(known[p], recs' \o <<Torn>>)
    BY <1>1, <2>1, <2>2, ConcatExtends, ClosedKept DEF Good, Grows
  <2>4. TypeOK'
    BY <1>1, <2>2 DEF TypeOK, Grows
  <2>5. Good(p)'
    BY <1>1, <2>2, <2>3 DEF Good
  <2>6. \A q \in Procs \ {p} : Unmoved(q)
    BY <1>1, <2>2 DEF Unmoved
  <2> QED
    BY <1>1, <2>2, <2>4, <2>5, <2>6, HolderStep
<1> QED
  BY <1>2, <1>3 DEF WriteFails

LEMMA CommitFlushStep ==
    ASSUME Inv, NEW p \in Procs, CommitFlush(p)
    PROVE  Inv'
<1>1. /\ pc[p] = "idle" /\ LockFree(p) /\ holder' = p
      /\ FlushThen(p, <<>>)
      /\ pc' = [pc EXCEPT ![p] = "sync"]
      /\ UNCHANGED <<known, acked, skipped>>
      /\ TypeOK /\ Good(p)
  BY DEF CommitFlush, Flush, At, Inv
<1>2. PICK a \in known[p] \cup {0} : target' = [target EXCEPT ![p] = a]
  BY DEF CommitFlush
<1>3. /\ Grows /\ FileGood' /\ recs' = recs \o buffer[p].recs
      /\ root' \in Root /\ roots' \subseteq Root /\ roots' # {}
      /\ buffer' \in [Procs -> [recs : Seq(Record), roots : Seq(Root)]]
      /\ buffer'[p] = EmptyBuffer
      /\ \A q \in Procs \ {p} : buffer'[q] = buffer[q]
  BY <1>1, FlushFacts, EmptySeq DEF EmptyBuffer
<1>4. Closed(known[p], recs') /\ Readable(a, recs')
  <2>1. Closed(known[p], recs')
    BY <1>1, <1>3 DEF Good
  <2>2. a \in known[p] => Readable(a, recs')
    BY <2>1, ClosedReadable
  <2> QED
    BY <2>1, <2>2 DEF Readable
<1>5. a \in Nat /\ target' \in [Procs -> Nat] /\ target'[p] = a
  BY <1>1, <1>2 DEF TypeOK
<1>6. pc' \in [Procs -> Steps] /\ pc'[p] = "sync"
  BY <1>1 DEF TypeOK, Steps
<1>7. TypeOK'
  BY <1>1, <1>3, <1>5, <1>6 DEF TypeOK, Grows
<1>8. Good(p)'
  <2>1. recs' \o buffer'[p].recs = recs'
    BY <1>3, ConcatEmptySeq DEF EmptyBuffer, Grows
  <2>2. DOMAIN buffer'[p].roots = {}
    BY <1>3 DEF EmptyBuffer
  <2> QED
    BY <1>1, <1>3, <1>4, <1>5, <1>6, <2>1, <2>2 DEF Good
<1>9. \A q \in Procs \ {p} : Unmoved(q)
  BY <1>1, <1>2, <1>3 DEF Unmoved, TypeOK
<1> QED
  BY <1>1, <1>3, <1>7, <1>8, <1>9, HolderStep

\* The two syncs of a commit; after the second the device has one root.
LEMMA SyncStep ==
    ASSUME Inv, NEW p \in Procs, CommitSync(p) \/ CommitRootSync(p)
    PROVE  Inv'
<1>1. /\ Sync(p) /\ UNCHANGED <<file, buffer, holder, known, target, acked>>
      /\ \/ pc[p] = "sync" /\ pc' = [pc EXCEPT ![p] = "root"]
         \/ pc[p] = "syncRoot" /\ pc' = [pc EXCEPT ![p] = "unlock"]
      /\ TypeOK /\ Good(p)
  BY DEF CommitSync, CommitRootSync, At, Inv
<1>2. /\ Grows /\ FileGood' /\ roots' \subseteq Root /\ roots' # {}
      /\ skipped' \in BOOLEAN
      /\ ~skipped' => Prefix' = recs /\ roots' = {root}
  BY <1>1, SyncFacts
<1>3. /\ pc' \in [Procs -> Steps]
      /\ \/ pc[p] = "sync" /\ pc'[p] = "root"
         \/ pc[p] = "syncRoot" /\ pc'[p] = "unlock"
  BY <1>1 DEF TypeOK, Steps
<1>4. TypeOK'
  BY <1>1, <1>2, <1>3 DEF TypeOK, file, Grows
<1>5. Good(p)'
  <2>1. buffer'[p] = EmptyBuffer /\ DOMAIN EmptyBuffer.roots = {}
    BY <1>1, <1>3 DEF Good, EmptyBuffer
  <2>2. Sound(target[p])'
    BY <1>1, <1>2, <1>3 DEF Good, Sound, file
  <2>3. /\ recs' = recs /\ root' = root /\ buffer' = buffer /\ holder' = holder
        /\ known' = known /\ target' = target
    BY <1>1 DEF file
  <2> QED
    BY <1>1, <1>2, <1>3, <2>1, <2>2, <2>3 DEF Good
<1>6. LockFree(p)
  BY <1>1, <1>3 DEF Good, LockFree
<1>7. \A q \in Procs \ {p} : Unmoved(q)
  BY <1>1 DEF Unmoved, TypeOK
<1> QED
  BY <1>2, <1>4, <1>5, <1>6, <1>7, HolderStep

LEMMA CommitRootStep ==
    ASSUME Inv, NEW p \in Procs, CommitRoot(p)
    PROVE  Inv'
<1> DEFINE r == [at |-> target[p], ver |-> root.ver + 1]
<1>1. /\ pc[p] = "root"
      /\ buffer' = [buffer EXCEPT ![p].roots = Append(@, r)]
      /\ pc' = [pc EXCEPT ![p] = "flush"]
      /\ UNCHANGED <<file, device, holder, known, target, acked, skipped>>
      /\ TypeOK /\ Good(p) /\ FileGood
  BY DEF CommitRoot, At, Inv
<1>2. /\ r \in Root /\ Sound(r.at) /\ (~skipped => r.ver >= acked)
  <2>1. root.ver \in Nat /\ target[p] \in Nat /\ acked \in Nat
    BY <1>1 DEF TypeOK, Root
  <2>2. ~skipped => root.ver >= acked
    BY <1>1 DEF FileGood, Durable
  <2> QED
    BY <1>1, <2>1, <2>2 DEF Root, Good
<1> HIDE DEF r
<1>3. /\ buffer[p] = EmptyBuffer
      /\ buffer \in [Procs -> [recs : Seq(Record), roots : Seq(Root)]]
  BY <1>1 DEF Good, TypeOK
<1>4. /\ buffer'[p] = [recs |-> <<>>, roots |-> <<r>>]
      /\ \A q \in Procs \ {p} : buffer'[q] = buffer[q]
  BY <1>1, <1>3 DEF EmptyBuffer
<1>5. buffer' \in [Procs -> [recs : Seq(Record), roots : Seq(Root)]]
  <2>1. [recs |-> <<>>, roots |-> <<r>>] \in [recs : Seq(Record), roots : Seq(Root)]
    BY <1>2
  <2>2. buffer' = [q \in Procs |-> buffer'[q]]
    BY <1>1, <1>3
  <2> QED
    BY <1>3, <1>4, <2>1, <2>2
<1>6. pc' \in [Procs -> Steps] /\ pc'[p] = "flush"
  BY <1>1 DEF TypeOK, Steps
<1>7. TypeOK'
  BY <1>1, <1>5, <1>6 DEF TypeOK, file, device
<1>8. Good(p)'
  <2>1. /\ recs' = recs /\ known' = known /\ target' = target /\ holder' = holder
        /\ acked' = acked /\ skipped' = skipped
        /\ \A a : Sound(a) => Sound(a)'
    BY <1>1 DEF Sound, Prefix, file, device
  <2>2. Closed(known[p], recs \o <<>>) /\ holder = p /\ Readable(target[p], recs)
    BY <1>1, <1>3 DEF Good, EmptyBuffer
  <2>3. \A i \in DOMAIN <<r>> : <<r>>[i] = r
    OBVIOUS
  <2> QED
    BY <1>2, <1>4, <1>6, <2>1, <2>2, <2>3 DEF Good
<1>9. \A q \in Procs \ {p} : Unmoved(q)
  BY <1>1, <1>4 DEF Unmoved, TypeOK
<1> QED
  BY <1>1, <1>7, <1>8, <1>9, QuietStep

\* The root stays in the buffer; a later flush may publish it.
LEMMA CommitRootFailsStep ==
    ASSUME Inv, NEW p \in Procs, CommitRootFails(p)
    PROVE  Inv'
<1>1. /\ pc[p] = "flush"
      /\ pc' = [pc EXCEPT ![p] = "idle"] /\ target' = [target EXCEPT ![p] = 0]
      /\ UNCHANGED <<file, device, buffer, holder, known, acked, skipped>>
      /\ TypeOK /\ Good(p)
  BY DEF CommitRootFails, LeaveCommit, At, Inv
<1>2. pc' \in [Procs -> Steps] /\ pc'[p] = "idle" /\ target' \in [Procs -> Nat]
  BY <1>1 DEF TypeOK, Steps
<1>3. TypeOK'
  BY <1>1, <1>2 DEF TypeOK, file, device
<1>4. Good(p)'
  <2>1. \A a : Sound(a) => Sound(a)'
    BY <1>1 DEF Sound, Prefix, file, device
  <2> QED
    BY <1>1, <1>2, <2>1 DEF Good, file, device
<1>5. \A q \in Procs \ {p} : Unmoved(q)
  BY <1>1 DEF Unmoved, TypeOK
<1> QED
  BY <1>1, <1>3, <1>4, <1>5, QuietStep

LEMMA CommitRootFlushStep ==
    ASSUME Inv, NEW p \in Procs, CommitRootFlush(p)
    PROVE  Inv'
<1>1. /\ pc[p] = "flush" /\ FlushThen(p, <<>>)
      /\ pc' = [pc EXCEPT ![p] = "syncRoot"]
      /\ UNCHANGED <<holder, known, target, acked, skipped>>
      /\ TypeOK /\ Good(p)
  BY DEF CommitRootFlush, Flush, At, Inv
<1>2. /\ Grows /\ FileGood' /\ recs' = recs \o buffer[p].recs
      /\ root' \in Root /\ roots' \subseteq Root /\ roots' # {}
      /\ buffer' \in [Procs -> [recs : Seq(Record), roots : Seq(Root)]]
      /\ buffer'[p] = EmptyBuffer
      /\ \A q \in Procs \ {p} : buffer'[q] = buffer[q]
  BY <1>1, FlushFacts, EmptySeq DEF EmptyBuffer
<1>3. pc' \in [Procs -> Steps] /\ pc'[p] = "syncRoot"
  BY <1>1 DEF TypeOK, Steps
<1>4. TypeOK'
  BY <1>1, <1>2, <1>3 DEF TypeOK, Grows
<1>5. Good(p)'
  <2>1. /\ recs' \o buffer'[p].recs = recs'
        /\ DOMAIN buffer'[p].roots = {}
    BY <1>2, ConcatEmptySeq DEF EmptyBuffer, Grows
  <2>2. Readable(target'[p], recs')
    BY <1>1, <1>2, GrowthKeeps DEF Good
  <2> QED
    BY <1>1, <1>2, <1>3, <2>1, <2>2 DEF Good
<1>6. LockFree(p)
  BY <1>1 DEF Good, LockFree
<1>7. \A q \in Procs \ {p} : Unmoved(q)
  BY <1>1, <1>2 DEF Unmoved, TypeOK
<1> QED
  BY <1>2, <1>4, <1>5, <1>6, <1>7, HolderStep

\* Nothing is left to flush, and the device has the root that is acknowledged.
LEMMA CommitUnlockStep ==
    ASSUME Inv, NEW p \in Procs, CommitUnlock(p)
    PROVE  Inv'
<1>1. /\ pc[p] = "unlock" /\ Flush(p) /\ Release(p) /\ acked' = root'.ver
      /\ pc' = [pc EXCEPT ![p] = "idle"] /\ target' = [target EXCEPT ![p] = 0]
      /\ UNCHANGED <<known, skipped>>
      /\ TypeOK /\ Good(p) /\ FileGood
  BY DEF CommitUnlock, LeaveCommit, At, Inv
<1>2. holder = p /\ holder' = None /\ buffer[p] = EmptyBuffer
  BY <1>1 DEF Good, Release
<1>3. UNCHANGED <<file, device, buffer>>
  BY <1>1, <1>2, FlushNothing
<1>4. acked' = root.ver /\ acked' \in Nat
  BY <1>1, <1>3 DEF TypeOK, Root, file
<1>5. pc' \in [Procs -> Steps] /\ pc'[p] = "idle" /\ target' \in [Procs -> Nat]
  BY <1>1 DEF TypeOK, Steps
<1>6. TypeOK'
  BY <1>1, <1>2, <1>3, <1>4, <1>5 DEF TypeOK, file, device
<1>7. FileGood'
  <2>1. root' \in roots' /\ RootReadable' /\ Recoverable'
    BY <1>1, <1>3 DEF FileGood, RootReadable, Recoverable, file, device
  <2>2. Durable'
    <3>1. ~skipped => roots = {root}
      BY <1>1 DEF Good
    <3>2. root.ver \in Nat
      BY <1>1 DEF TypeOK, Root
    <3> QED
      BY <1>1, <1>3, <1>4, <3>1, <3>2 DEF Durable, device
  <2> QED
    BY <2>1, <2>2 DEF FileGood
<1>8. Good(p)'
  <2>1. DOMAIN buffer[p].roots = {}
    BY <1>2 DEF EmptyBuffer
  <2> QED
    BY <1>1, <1>2, <1>3, <1>5, <2>1 DEF Good, file
<1>9. Grows /\ LockFree(p)
  <2>1. Extends(recs, recs)
    BY DEF Extends
  <2> QED
    BY <1>1, <1>2, <1>3, <2>1, LenProperties DEF Grows, TypeOK, LockFree, file, device
<1>10. \A q \in Procs \ {p} : Unmoved(q)
  BY <1>1, <1>3 DEF Unmoved, TypeOK
<1> QED
  BY <1>6, <1>7, <1>8, <1>9, <1>10, HolderStep

\* Giving up, closing, and a full buffer: a flush by the holder, or of nothing.
LEMMA FlushStep ==
    ASSUME Inv, NEW p \in Procs, Flush(p),
           UNCHANGED <<pc, target, acked, skipped>>,
           \/ pc[p] = "idle" /\ Release(p)
           \/ buffer[p] # EmptyBuffer /\ holder' = holder,
           known' = known \/ known' = [known EXCEPT ![p] = {}]
    PROVE  Inv'
<1>1. TypeOK /\ Good(p) /\ FlushThen(p, <<>>)
  BY DEF Inv, Flush
<1>2. /\ Grows /\ FileGood' /\ recs' = recs \o buffer[p].recs
      /\ root' \in Root /\ roots' \subseteq Root /\ roots' # {}
      /\ buffer' \in [Procs -> [recs : Seq(Record), roots : Seq(Root)]]
      /\ buffer'[p] = EmptyBuffer
      /\ \A q \in Procs \ {p} : buffer'[q] = buffer[q]
  BY <1>1, FlushFacts, EmptySeq DEF EmptyBuffer
<1>3. /\ known' \in [Procs -> SUBSET Nat]
      /\ known'[p] = known[p] \/ known'[p] = {}
      /\ \A q \in Procs \ {p} : known'[q] = known[q]
  BY <1>1 DEF TypeOK
<1>4. holder' \in Procs \cup {None} /\ (holder' = holder \/ holder = p)
  BY <1>1 DEF TypeOK, Release
<1>5. TypeOK'
  BY <1>1, <1>2, <1>3, <1>4 DEF TypeOK, Grows
<1>6. Good(p)'
  <2>1. Closed(known'[p], recs')
    BY <1>1, <1>2, <1>3 DEF Good, Closed
  <2>2. recs' \o buffer'[p].recs = recs' /\ DOMAIN buffer'[p].roots = {}
    BY <1>2, ConcatEmptySeq DEF EmptyBuffer, Grows
  <2>3. pc[p] # "idle" =>
          /\ holder' = p /\ Readable(target[p], recs')
          /\ pc[p] \notin {"root", "unlock"}
    BY <1>1, <1>2, GrowthKeeps DEF Good
  <2> QED
    BY <1>2, <2>1, <2>2, <2>3 DEF Good
<1>7. \A q \in Procs \ {p} : Unmoved(q)
  BY <1>2, <1>3 DEF Unmoved
<1>8. CASE holder = p
  BY <1>2, <1>5, <1>6, <1>7, <1>8, HolderStep DEF LockFree
<1>9. CASE holder # p
  <2>1. UNCHANGED <<file, device, buffer>>
    BY <1>1, <1>9, FlushNothing DEF Good
  <2> QED
    BY <1>4, <1>5, <1>6, <1>7, <1>9, <2>1, QuietStep
<1> QED
  BY <1>8, <1>9

LEMMA KillStep ==
    ASSUME Inv, NEW p \in Procs, Kill(p)
    PROVE  Inv'
<1>1. /\ recs' = recs \/ (buffer[p].recs # <<>> /\ recs' = Append(recs, Torn))
      /\ buffer' = [buffer EXCEPT ![p] = EmptyBuffer]
      /\ known' = [known EXCEPT ![p] = {}]
      /\ pc' = [pc EXCEPT ![p] = "idle"] /\ target' = [target EXCEPT ![p] = 0]
      /\ Release(p) /\ UNCHANGED <<root, device, acked, skipped>>
      /\ TypeOK /\ Good(p)
  BY DEF Kill, LeaveCommit, At, Inv
<1>2. Torn \in Record
  BY DEF Torn, Record
<1>3. Grows
  <2>1. CASE recs' = recs
    BY <1>1, <2>1, LenProperties DEF Grows, Extends, TypeOK, device
  <2>2. CASE recs' = Append(recs, Torn)
    BY <1>1, <1>2, <2>2, LenProperties DEF Grows, Extends, TypeOK, device
  <2> QED
    BY <1>1, <2>1, <2>2
<1>4. EmptyBuffer \in [recs : Seq(Record), roots : Seq(Root)]
  BY EmptySeq DEF EmptyBuffer
<1>5. /\ buffer' \in [Procs -> [recs : Seq(Record), roots : Seq(Root)]]
      /\ known' \in [Procs -> SUBSET Nat]
      /\ pc' \in [Procs -> Steps] /\ target' \in [Procs -> Nat]
      /\ buffer'[p] = EmptyBuffer /\ known'[p] = {} /\ pc'[p] = "idle"
  BY <1>1, <1>4 DEF TypeOK, Steps
<1>6. holder' \in Procs \cup {None} /\ (holder' = holder \/ holder = p)
  BY <1>1 DEF TypeOK, Release
<1>7. TypeOK'
  BY <1>1, <1>3, <1>5, <1>6 DEF TypeOK, Grows, device
<1>8. Good(p)'
  <2>1. DOMAIN EmptyBuffer.roots = {}
    BY DEF EmptyBuffer
  <2>2. Closed({}, recs' \o buffer'[p].recs)
    BY DEF Closed
  <2> QED
    BY <1>5, <2>1, <2>2 DEF Good
<1>9. \A q \in Procs \ {p} : Unmoved(q)
  BY <1>1 DEF Unmoved, TypeOK
<1>10. CASE holder = p
  <2>1. FileGood'
    BY <1>1, <1>3, GrowthGood DEF device
  <2> QED
    BY <1>3, <1>7, <1>8, <1>9, <1>10, <2>1, HolderStep DEF LockFree
<1>11. CASE holder # p
  <2>1. recs' = recs
    BY <1>1, <1>11 DEF Good, EmptyBuffer
  <2> QED
    BY <1>1, <1>6, <1>7, <1>8, <1>9, <1>11, <2>1, QuietStep DEF file, device
<1> QED
  BY <1>10, <1>11

\* After a power failure the file is what was synced and some of the rest, and
\* every root that may have survived leads to synced records only.
LEMMA PowerFailsStep ==
    ASSUME Inv, PowerFails
    PROVE  Inv'
<1>a. PICK n \in synced..Len(recs) : \E lost \in SUBSET ((synced + 1)..n) :
          /\ recs' = [a \in 1..n |-> IF a \in lost THEN Torn ELSE recs[a]]
          /\ synced' = n
  BY DEF PowerFails
<1>1. PICK lost \in SUBSET ((synced + 1)..n) :
          /\ recs' = [a \in 1..n |-> IF a \in lost THEN Torn ELSE recs[a]]
          /\ synced' = n
  BY <1>a
<1>2. /\ ~skipped /\ root' \in roots /\ roots' = {root'}
      /\ buffer' = [p \in Procs |-> EmptyBuffer]
      /\ known' = [p \in Procs |-> {}]
      /\ pc' = [p \in Procs |-> "idle"] /\ target' = [p \in Procs |-> 0]
      /\ holder' = None /\ UNCHANGED <<acked, skipped>>
      /\ TypeOK /\ FileGood
  BY DEF PowerFails, Inv
<1>3. /\ recs \in Seq(Record) /\ Len(recs) \in Nat /\ synced \in 0..Len(recs)
      /\ Torn \in Record /\ n \in Nat
  BY <1>2, LenProperties DEF TypeOK, Torn, Record
<1>4. recs' \in Seq(Record) /\ Len(recs') = n /\ DOMAIN recs' = 1..n
  <2>1. \A a \in 1..n : recs[a] \in Record
    BY <1>3, ElementOfSeq
  <2>2. recs' \in [1..n -> Record]
    BY <1>1, <1>3, <2>1
  <2>3. recs' \in Seq(Record)
    BY <1>3, <2>2, SeqDef
  <2> QED
    BY <1>3, <2>2, <2>3, LenProperties
<1>5. Extends(Prefix, recs')
  <2>1. DOMAIN Prefix = 1..synced /\ \A i \in 1..synced : Prefix[i] = recs[i]
    BY <1>3, PrefixFacts DEF Prefix
  <2>2. \A i \in 1..synced : recs'[i] = recs[i]
    BY <1>1, <1>3
  <2> QED
    BY <1>3, <1>4, <2>1, <2>2 DEF Extends
<1>6. /\ EmptyBuffer \in [recs : Seq(Record), roots : Seq(Root)]
      /\ DOMAIN EmptyBuffer.roots = {}
  BY EmptySeq DEF EmptyBuffer
<1>7. TypeOK'
  <2>1. root' \in Root /\ roots' \subseteq Root /\ roots' # {} /\ synced' \in 0..Len(recs')
    BY <1>1, <1>2, <1>3, <1>4 DEF TypeOK
  <2>2. /\ buffer' \in [Procs -> [recs : Seq(Record), roots : Seq(Root)]]
        /\ known' \in [Procs -> SUBSET Nat]
        /\ pc' \in [Procs -> Steps] /\ target' \in [Procs -> Nat]
    BY <1>2, <1>6 DEF Steps
  <2> QED
    BY <1>2, <1>4, <2>1, <2>2 DEF TypeOK
<1>8. FileGood'
  <2>1. Readable(root'.at, Prefix) /\ root'.ver >= acked
    BY <1>2 DEF FileGood, Recoverable, Durable, Prefix
  <2>2. Readable(root'.at, recs')
    BY <1>5, <2>1, ReadableKept
  <2>3. Prefix' = recs'
    BY <1>1, <1>4, SubSeqFull DEF Prefix
  <2> QED
    BY <1>2, <2>1, <2>2, <2>3 DEF FileGood, RootReadable, Recoverable, Durable, Prefix
<1>9. ASSUME NEW p \in Procs PROVE Good(p)'
  <2>1. buffer'[p] = EmptyBuffer /\ pc'[p] = "idle" /\ known'[p] = {}
    BY <1>2
  <2>2. Closed({}, recs' \o buffer'[p].recs)
    BY DEF Closed
  <2> QED
    BY <1>6, <2>1, <2>2 DEF Good
<1> QED
  BY <1>7, <1>8, <1>9 DEF Inv

LEMMA InvInit == Init => Inv
<1> SUFFICES ASSUME Init PROVE Inv
  OBVIOUS
<1>1. /\ recs = <<>> /\ recs \in Seq(Record) /\ Len(recs) = 0
      /\ root = [at |-> 0, ver |-> 0] /\ root \in Root
      /\ EmptyBuffer \in [recs : Seq(Record), roots : Seq(Root)]
      /\ DOMAIN EmptyBuffer.roots = {}
  BY EmptySeq DEF Init, Root, EmptyBuffer
<1>2. TypeOK
  <2>1. /\ buffer \in [Procs -> [recs : Seq(Record), roots : Seq(Root)]]
        /\ known \in [Procs -> SUBSET Nat]
        /\ pc \in [Procs -> Steps] /\ target \in [Procs -> Nat]
    BY <1>1 DEF Init, Steps
  <2>2. synced \in 0..Len(recs) /\ roots \subseteq Root /\ roots # {}
    BY <1>1 DEF Init
  <2> QED
    BY <1>1, <2>1, <2>2 DEF Init, TypeOK
<1>3. FileGood
  BY <1>1 DEF Init, FileGood, RootReadable, Recoverable, Durable, Readable
<1>4. \A p \in Procs : Good(p)
  BY <1>1 DEF Init, Good, Closed
<1> QED
  BY <1>2, <1>3, <1>4 DEF Inv

LEMMA InvStep == Inv /\ [Next]_vars => Inv'
<1> SUFFICES ASSUME Inv, [Next]_vars PROVE Inv'
  OBVIOUS
<1>1. ASSUME NEW p \in Procs, Load(p) \/ Write(p) \/ WriteFails(p) PROVE Inv'
  BY <1>1, LoadStep, WriteStep, WriteFailsStep DEF Write
<1>2. ASSUME NEW p \in Procs, Commit(p) PROVE Inv'
  BY <1>2, CommitFlushStep, SyncStep, CommitRootStep, CommitRootFailsStep,
     CommitRootFlushStep, CommitUnlockStep DEF Commit
<1>3. ASSUME NEW p \in Procs, GiveUp(p) \/ Close(p) \/ Drain(p) PROVE Inv'
  BY <1>3, FlushStep DEF GiveUp, Close, Drain
<1>4. ASSUME NEW p \in Procs, Kill(p) PROVE Inv'
  BY <1>4, KillStep
<1>5. ASSUME PowerFails PROVE Inv'
  BY <1>5, PowerFailsStep
<1>6. ASSUME UNCHANGED vars PROVE Inv'
  <2>1. /\ \A p \in Procs : Unmoved(p) /\ (holder = p => holder' = p)
        /\ UNCHANGED <<file, device, acked, skipped>>
    BY <1>6 DEF vars, Unmoved
  <2>2. \A p \in Procs : Good(p)'
    BY <2>1, Unaffected
  <2>3. TypeOK' /\ FileGood'
    BY <1>6 DEF Inv, vars, file, device, TypeOK, FileGood, RootReadable, Recoverable, Durable
  <2> QED
    BY <2>2, <2>3 DEF Inv
<1> QED
  BY <1>1, <1>2, <1>3, <1>4, <1>5, <1>6 DEF Next

(***************************************************************************)
(* The theorems.                                                           *)
(***************************************************************************)

LEMMA AlwaysInv == Spec => []Inv
BY InvInit, InvStep, PTL DEF Spec

\* The file, the buffers and the control of every process have their types.
THEOREM StorageTypes == Spec => []TypeOK
<1>1. Inv => TypeOK
  BY DEF Inv
<1> QED
  BY <1>1, AlwaysInv, PTL

\* At any moment, also in the middle of a commit and after any failure, an
\* opening process can read the tree of the superblock to its last leaf.
THEOREM AlwaysReadable == Spec => []RootReadable
<1>1. Inv => RootReadable
  BY DEF Inv, FileGood
<1> QED
  BY <1>1, AlwaysInv, PTL

\* commit_root_address syncs the payload before it writes the root, so every
\* root that a power failure can leave leads to records that it leaves too.
THEOREM AlwaysRecoverable == Spec => []Recoverable
<1>1. Inv => Recoverable
  BY DEF Inv, FileGood
<1> QED
  BY <1>1, AlwaysInv, PTL

\* A commit that has returned survives every power failure, unless an fsync
\* has failed, which the code ignores.
THEOREM CommitsDurable == Spec => []Durable
<1>1. Inv => Durable
  BY DEF Inv, FileGood
<1> QED
  BY <1>1, AlwaysInv, PTL

\* But for a power failure, the file only grows.
LEMMA StepExtends ==
    ASSUME Inv, Next
    PROVE  Extends(recs, recs') \/ PowerFails
<1>1. /\ recs \in Seq(Record)
      /\ \A p \in Procs : buffer[p].recs \in Seq(Record)
  BY DEF Inv, TypeOK
<1>2. recs' = recs => Extends(recs, recs')
  BY DEF Extends
<1>3. ASSUME NEW p \in Procs, NEW rs, FlushThen(p, rs) PROVE Extends(recs, recs')
  BY <1>1, <1>3, ConcatExtends DEF FlushThen
<1>4. ASSUME NEW p \in Procs, Write(p) \/ WriteFails(p) PROVE Extends(recs, recs')
  BY <1>2, <1>3, <1>4 DEF Write, WriteRecord, WriteFails, file
<1>5. ASSUME NEW p \in Procs, Load(p) \/ Commit(p) PROVE Extends(recs, recs')
  BY <1>2, <1>3, <1>5 DEF Load, Commit, CommitFlush, CommitSync, CommitRoot,
     CommitRootFails, CommitRootFlush, CommitRootSync, CommitUnlock, Flush, file
<1>6. ASSUME NEW p \in Procs, GiveUp(p) \/ Close(p) \/ Drain(p)
      PROVE  Extends(recs, recs')
  BY <1>3, <1>6 DEF GiveUp, Close, Drain, Flush
<1>7. ASSUME NEW p \in Procs, Kill(p) PROVE Extends(recs, recs')
  <2>1. CASE recs' = recs
    BY <1>2, <2>1
  <2>2. CASE recs' = Append(recs, Torn)
    <3>1. Torn \in Record
      BY DEF Torn, Record
    <3> QED
      BY <1>1, <2>2, <3>1, LenProperties DEF Extends
  <2> QED
    BY <1>7, <2>1, <2>2 DEF Kill
<1> QED
  BY <1>4, <1>5, <1>6, <1>7 DEF Next

\* What a reader of the current root may still have to load is never changed:
\* a power failure too leaves all of it, because the root was written last.
THEOREM RootTreeKept == Spec => RootTreeUnchanged
<1> DEFINE Kept == \A a \in Reach(root.at, recs) : a \in DOMAIN recs' /\ recs'[a] = recs[a]
<1>1. ASSUME Inv, Next PROVE Kept
  <2>1. CASE Extends(recs, recs')
    BY <2>1 DEF Extends, Reach
  <2>2. CASE PowerFails
    <3>1. PICK n \in synced..Len(recs) : \E lost \in SUBSET ((synced + 1)..n) :
            recs' = [a \in 1..n |-> IF a \in lost THEN Torn ELSE recs[a]]
      BY <2>2 DEF PowerFails
    <3>2. /\ recs \in Seq(Record) /\ DOMAIN recs = 1..Len(recs)
          /\ synced \in 0..Len(recs) /\ Len(recs) \in Nat
          /\ Readable(root.at, Prefix)
      BY <1>1, <2>2, LenProperties
         DEF Inv, TypeOK, FileGood, Recoverable, PowerFails, Prefix
    <3>3. DOMAIN Prefix = 1..synced /\ \A i \in 1..synced : Prefix[i] = recs[i]
      BY <3>2, PrefixFacts DEF Prefix
    <3>4. Reach(root.at, recs) \subseteq 1..synced
      <4>1. CASE root.at = 0
        BY <4>1 DEF Reach
      <4>2. CASE root.at # 0
        <5>1. PICK S \in SUBSET (DOMAIN Prefix) : root.at \in S /\ Closed(S, Prefix)
          BY <3>2, <4>2 DEF Readable
        <5>2. S \in SUBSET (DOMAIN recs) /\ Closed(S, recs)
          BY <3>2, <3>3, <5>1 DEF Closed
        <5>3. \A b \in Reach(root.at, recs) : b \in S
          BY <5>1, <5>2 DEF Reach, Closed
        <5> QED
          BY <3>3, <5>1, <5>3
      <4> QED
        BY <4>1, <4>2
    <3>5. \A a \in 1..synced : a \in DOMAIN recs' /\ recs'[a] = recs[a]
      BY <3>1, <3>2
    <3> QED
      BY <3>4, <3>5
  <2> QED
    BY <1>1, <2>1, <2>2, StepExtends
<1>2. Inv /\ [Next]_vars => [Kept]_vars
  BY <1>1
<1> QED
  BY <1>2, AlwaysInv, PTL DEF Spec, RootTreeUnchanged
=============================================================================
