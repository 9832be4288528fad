------------------------------ MODULE NodeProofs ------------------------------
(***************************************************************************)
(* Proofs about module NodeStore, for every number of processes, records,  *)
(* references and things and every set of failures: storing trees keeps    *)
(* the promise of module Storage, a reference with an address is stored    *)
(* with all that is below it, and nothing is stored twice.                 *)
(***************************************************************************)
EXTENDS NodeStore, StorageProofs

(***************************************************************************)
(* The invariant.                                                          *)
(***************************************************************************)

Ref == [thing : Nat, addr : Nat, loaded : BOOLEAN, kids : Seq(Nat)]
Call == [ref : Nat, kid : Nat]
Packed == [thing : Nat, kids : Seq(Nat)]

NodeTypes ==
    /\ refs \in [Procs -> Seq(Ref)]
    /\ tree \in [Procs -> Nat]
    /\ \A p \in Procs : tree[p] <= Len(refs[p])
    /\ todo \in [Procs -> Seq(Call)]
    /\ packed \in [1..MaxRecords -> Packed]
    /\ made \in Nat

\* Reference i of p: one that is not stored refers to older ones only, so that
\* store() ends; one that is stored is known, and its record says what it says.
RefGood(p, i) ==
    LET r == refs[p][i] IN
    /\ r.thing <= made
    /\ \A j \in DOMAIN r.kids :
          r.kids[j] <= Len(refs[p]) /\ (r.addr = 0 => r.kids[j] < i)
    /\ r.addr # 0 => r.addr \in known[p] /\ packed[r.addr].thing = r.thing
    /\ r.addr # 0 /\ r.loaded =>
          /\ packed[r.addr].kids = KidAddrs(refs[p], r)
          /\ \A j \in DOMAIN r.kids : ~Unstored(refs[p], r.kids[j])

Memory(p) == \A i \in DOMAIN refs[p] : RefGood(p, i)

\* Call i of p stores a reference that is above those of the calls it waits for,
\* and all children before the next one are stored or being stored.
CallGood(p, i) ==
    LET c == todo[p][i] IN
    /\ c.ref \in DOMAIN refs[p] /\ Unstored(refs[p], c.ref)
    /\ \A h \in 1..i - 1 : todo[p][h].ref < c.ref
    /\ \A j \in DOMAIN refs[p][c.ref].kids :
          j < c.kid /\ Unstored(refs[p], refs[p][c.ref].kids[j]) =>
              i > 1 /\ refs[p][c.ref].kids[j] = todo[p][i - 1].ref

\* The outermost call is commit, the next one stores the tree.
Calls(p) ==
    LET n == Len(todo[p]) IN
    todo[p] # <<>> =>
        /\ pc[p] = "idle" /\ todo[p][n] = Committing
        /\ n = 1 => ~Unstored(refs[p], tree[p])
        /\ n > 1 => todo[p][n - 1].ref = tree[p]
        /\ \A i \in 1..n - 1 : CallGood(p, i)

\* What records there are, buffered or not, encode things.
Encodes(rs) ==
    \A a \in DOMAIN rs : rs[a].whole =>
        /\ a \in 1..MaxRecords
        /\ rs[a].refs = {packed[a].kids[i] : i \in DOMAIN packed[a].kids} \ {0}
        /\ packed[a].thing <= made

Distinct(rs) ==
    \A a, b \in DOMAIN rs :
        rs[a].whole /\ rs[b].whole /\ packed[a].thing = packed[b].thing => a = b

\* The thing n is in no record.
Lacks(rs, n) == \A a \in DOMAIN rs : rs[a].whole => packed[a].thing # n

\* What is in memory and not stored yet is nowhere else, in memory or a record.
Fresh(p, i) ==
    /\ \A q \in Procs : Lacks(InFile(q), refs[p][i].thing)
    /\ \A q \in Procs : \A j \in DOMAIN refs[q] :
          Unstored(refs[q], j) /\ refs[q][j].thing = refs[p][i].thing => q = p /\ j = i

AllFresh ==
    \A p \in Procs : \A i \in DOMAIN refs[p] : Unstored(refs[p], i) => Fresh(p, i)

NInv ==
    /\ Inv /\ NodeTypes
    /\ \A p \in Procs : Memory(p) /\ Calls(p)
    /\ \A p \in Procs : Encodes(InFile(p)) /\ Distinct(InFile(p))
    /\ AllFresh
    /\ StoredOnce

(***************************************************************************)
(* The calls under way, and references.                                    *)
(***************************************************************************)

\* store() returns.
LEMMA Popped ==
    ASSUME NEW s \in Seq(Call), s # <<>>
    PROVE  /\ Tail(s) \in Seq(Call) /\ Len(Tail(s)) = Len(s) - 1 /\ Len(s) \in Nat \ {0}
           /\ Head(s) = s[1] /\ \A i \in 1..Len(s) - 1 : Tail(s)[i] = s[i + 1]
OBVIOUS

\* store() calls itself: c, the outermost call that has just moved on, is below x.
LEMMA Pushed ==
    ASSUME NEW s \in Seq(Call), s # <<>>, NEW x \in Call, NEW c \in Call
    PROVE  /\ <<x, c>> \o Tail(s) \in Seq(Call)
           /\ Len(<<x, c>> \o Tail(s)) = Len(s) + 1
           /\ (<<x, c>> \o Tail(s))[1] = x /\ (<<x, c>> \o Tail(s))[2] = c
           /\ \A i \in 3..Len(s) + 1 : (<<x, c>> \o Tail(s))[i] = s[i - 1]
<1>1. /\ Tail(s) \in Seq(Call) /\ Len(Tail(s)) = Len(s) - 1 /\ Len(s) \in Nat \ {0}
      /\ \A i \in 1..Len(s) - 1 : Tail(s)[i] = s[i + 1]
  BY Popped
<1>2. <<x, c>> \in Seq(Call) /\ Len(<<x, c>>) = 2 /\ <<x, c>>[1] = x /\ <<x, c>>[2] = c
  OBVIOUS
<1> DEFINE t == <<x, c>> \o Tail(s)
<1>3. /\ t \in Seq(Call) /\ Len(t) = 2 + (Len(s) - 1)
      /\ \A i \in 1..2 + (Len(s) - 1) :
            t[i] = IF i <= 2 THEN <<x, c>>[i] ELSE Tail(s)[i - 2]
  BY <1>1, <1>2, ConcatProperties
<1>4. \A i \in 3..Len(s) + 1 : t[i] = s[i - 1]
  <2> SUFFICES ASSUME NEW i \in 3..Len(s) + 1 PROVE t[i] = s[i - 1]
    OBVIOUS
  <2>1. t[i] = Tail(s)[i - 2] /\ i - 2 \in 1..Len(s) - 1
    BY <1>1, <1>3
  <2>2. Tail(s)[i - 2] = s[(i - 2) + 1]
    BY <1>1, <2>1
  <2> QED
    BY <1>1, <2>1, <2>2
<1> QED
  BY <1>1, <1>2, <1>3, <1>4

\* What the invariant says of the memory of one process.
LEMMA InMemoryTypes ==
    ASSUME NInv, NEW p \in Procs
    PROVE  /\ refs[p] \in Seq(Ref) /\ DOMAIN refs[p] = 1..Len(refs[p]) /\ Len(refs[p]) \in Nat
           /\ \A i \in DOMAIN refs[p] : refs[p][i] \in Ref /\ refs[p][i].kids \in Seq(Nat)
           /\ todo[p] \in Seq(Call) /\ tree[p] \in 0..Len(refs[p])
           /\ \A k : Unstored(refs[p], k) <=> k # 0 /\ refs[p][k].loaded /\ refs[p][k].addr = 0
<1>1. refs[p] \in Seq(Ref) /\ todo[p] \in Seq(Call) /\ tree[p] \in Nat /\ tree[p] <= Len(refs[p])
  BY DEF NInv, NodeTypes
<1>2. DOMAIN refs[p] = 1..Len(refs[p]) /\ Len(refs[p]) \in Nat
  BY <1>1
<1>3. \A i \in DOMAIN refs[p] : refs[p][i] \in Ref
  BY <1>1, <1>2, ElementOfSeq
<1> QED
  BY <1>1, <1>2, <1>3 DEF Unstored, Ref

LEMMA RefFacts ==
    ASSUME NInv, NEW p \in Procs, NEW i \in DOMAIN refs[p]
    PROVE  /\ RefGood(p, i) /\ refs[p][i].thing \in 0..made /\ refs[p][i].addr \in Nat
           /\ refs[p][i].kids \in Seq(Nat)
           /\ \A j \in DOMAIN refs[p][i].kids : refs[p][i].kids[j] \in 0..Len(refs[p])
<1>1. /\ RefGood(p, i) /\ refs[p][i] \in Ref /\ made \in Nat /\ Len(refs[p]) \in Nat
  BY InMemoryTypes DEF NInv, Memory, NodeTypes
<1> DEFINE r == refs[p][i]
<1>2. r.kids \in Seq(Nat) /\ r.thing \in Nat /\ r.addr \in Nat
  BY <1>1 DEF Ref
<1>3. r.thing <= made /\ \A j \in DOMAIN r.kids : r.kids[j] <= Len(refs[p])
  BY <1>1 DEF RefGood
<1> HIDE DEF r
<1>4. \A j \in DOMAIN r.kids : r.kids[j] \in Nat
  BY <1>2, ElementOfSeq
<1>5. \A j \in DOMAIN r.kids : r.kids[j] \in 0..Len(refs[p])
  BY <1>1, <1>3, <1>4
<1>6. r.thing \in 0..made
  BY <1>1, <1>2, <1>3
<1> QED
  BY <1>1, <1>2, <1>5, <1>6 DEF r

(***************************************************************************)
(* The records of the file, as each process sees them.                     *)
(***************************************************************************)

LEMMA FileSeen ==
    ASSUME Inv, NEW p \in Procs
    PROVE  /\ recs \in Seq(Record) /\ buffer[p].recs \in Seq(Record)
           /\ InFile(p) \in Seq(Record)
           /\ Len(InFile(p)) = Len(recs) + Len(buffer[p].recs)
           /\ DOMAIN InFile(p) = 1..Len(recs) + Len(buffer[p].recs)
           /\ Len(recs) \in Nat /\ Len(buffer[p].recs) \in Nat
           /\ Extends(recs, InFile(p))
           /\ holder # p => InFile(p) = recs
           /\ \A a \in known[p] : a \in DOMAIN InFile(p) /\ InFile(p)[a].whole
<1>1. recs \in Seq(Record) /\ buffer[p].recs \in Seq(Record) /\ Good(p)
  BY DEF Inv, TypeOK
<1>2. /\ InFile(p) \in Seq(Record) /\ Extends(recs, InFile(p))
      /\ Len(InFile(p)) = Len(recs) + Len(buffer[p].recs)
  BY <1>1, ConcatExtends DEF InFile
<1>3. Len(recs) \in Nat /\ Len(buffer[p].recs) \in Nat
  BY <1>1
<1>4. DOMAIN InFile(p) = 1..Len(recs) + Len(buffer[p].recs)
  BY <1>2, LenProperties
<1>5. holder # p => InFile(p) = recs
  BY <1>1, ConcatEmptySeq DEF Good, EmptyBuffer, InFile
<1>6. \A a \in known[p] : a \in DOMAIN InFile(p) /\ InFile(p)[a].whole
  BY <1>1 DEF Good, Closed, InFile
<1> QED
  BY <1>1, <1>2, <1>3, <1>4, <1>5, <1>6

\* Every whole record of rs is one of ts.
Older(rs, ts) ==
    \A a \in DOMAIN rs : rs[a].whole => a \in DOMAIN ts /\ rs[a] = ts[a]

\* What is in the file after a step is what one of the processes saw before.
NoNews == \A q \in Procs : \E p \in Procs : Older(InFile(q)', InFile(p))

LEMMA TornAdded ==
    ASSUME NEW rs \in Seq(Record)
    PROVE  Older(rs \o <<Torn>>, rs) /\ Older(Append(rs, Torn), rs)
<1>1. Torn \in Record /\ ~Torn.whole
  BY DEF Torn, Record
<1>2. Append(rs, Torn) = rs \o <<Torn>>
  BY <1>1
<1>3. Older(Append(rs, Torn), rs)
  <2>1. /\ DOMAIN Append(rs, Torn) = 1..Len(rs) + 1 /\ DOMAIN rs = 1..Len(rs)
        /\ Len(rs) \in Nat /\ Append(rs, Torn)[Len(rs) + 1] = Torn
        /\ \A i \in 1..Len(rs) : Append(rs, Torn)[i] = rs[i]
    BY <1>1
  <2> QED
    BY <1>1, <2>1 DEF Older
<1> QED
  BY <1>2, <1>3

\* The buffer goes to the file, and nothing, or half a record, comes after it.
LEMMA FlushNoNews ==
    ASSUME Inv, NEW p \in Procs, NEW rs \in {<<>>, <<Torn>>}, FlushThen(p, rs)
    PROVE  NoNews
<1>1. /\ recs' = InFile(p)
      /\ buffer \in [Procs -> [recs : Seq(Record), roots : Seq(Root)]]
  BY DEF FlushThen, InFile, Inv, TypeOK
<1>2. /\ buffer'[p].recs = <<>> \/ buffer'[p].recs = <<Torn>>
      /\ \A q \in Procs \ {p} : buffer'[q] = buffer[q]
  BY <1>1 DEF FlushThen
<1>3. InFile(p) \in Seq(Record) /\ InFile(p) \o <<>> = InFile(p)
  BY FileSeen, ConcatEmptySeq
<1>4. \A xs : Older(xs, xs)
  BY DEF Older
<1>5. Older(InFile(p)', InFile(p))
  BY <1>1, <1>2, <1>3, <1>4, TornAdded DEF InFile
<1>6. ASSUME NEW q \in Procs \ {p} PROVE \E o \in Procs : Older(InFile(q)', InFile(o))
  <2>1. InFile(q)' = InFile(p) \o buffer[q].recs
    BY <1>1, <1>2, <1>6 DEF InFile
  <2>2. CASE holder # q
    <3>1. buffer[q] = EmptyBuffer
      BY <2>2, <1>6 DEF Inv, Good
    <3> QED
      BY <2>1, <3>1, <1>3, <1>4 DEF EmptyBuffer
  <2>3. CASE holder = q
    <3>1. InFile(p) = recs
      BY <1>6, <2>3, FileSeen
    <3> QED
      BY <2>1, <3>1, <1>4, <1>6 DEF InFile
  <2> QED
    BY <2>2, <2>3
<1> QED
  BY <1>5, <1>6 DEF NoNews

\* Nothing is written; and a process dies, maybe with half a record flushed.
LEMMA QuietNoNews ==
    ASSUME Inv, recs' = recs, \A q \in Procs : buffer'[q].recs = buffer[q].recs
    PROVE  NoNews
BY DEF NoNews, Older, InFile

LEMMA KillNoNews ==
    ASSUME Inv, NEW p \in Procs, Kill(p)
    PROVE  NoNews
<1>1. /\ recs' = recs \/ (buffer[p].recs # <<>> /\ recs' = Append(recs, Torn))
      /\ buffer' = [buffer EXCEPT ![p] = EmptyBuffer]
      /\ buffer \in [Procs -> [recs : Seq(Record), roots : Seq(Root)]]
      /\ recs \in Seq(Record) /\ Torn \in Record
  BY DEF Kill, Inv, TypeOK, Torn, Record
<1>2. buffer'[p].recs = <<>> /\ \A q \in Procs \ {p} : buffer'[q] = buffer[q]
  BY <1>1 DEF EmptyBuffer
<1>3. recs' \in Seq(Record) /\ recs' \o <<>> = recs'
  <2>1. Append(recs, Torn) \in Seq(Record)
    BY <1>1
  <2>2. recs' \in Seq(Record)
    BY <1>1, <2>1
  <2> QED
    BY <2>2, ConcatEmptySeq
<1>4. Older(recs', recs)
  BY <1>1, TornAdded DEF Older
<1>5. Older(recs', InFile(p))
  BY <1>4, FileSeen DEF Older, Extends
<1>6. Older(InFile(p)', InFile(p))
  BY <1>2, <1>3, <1>5 DEF InFile
<1>7. ASSUME NEW q \in Procs \ {p} PROVE Older(InFile(q)', InFile(q))
  <2>1. CASE recs' = recs
    BY <1>2, <1>7, <2>1 DEF InFile, Older
  <2>2. CASE buffer[p].recs # <<>>
    <3>1. holder = p
      BY <2>2 DEF Inv, Good, EmptyBuffer
    <3>2. buffer[q] = EmptyBuffer /\ InFile(q) = recs
      BY <3>1, <1>7, FileSeen DEF Inv, Good
    <3>3. InFile(q)' = recs'
      BY <1>2, <1>3, <1>7, <3>2 DEF InFile, EmptyBuffer
    <3> QED
      BY <1>4, <3>2, <3>3
  <2> QED
    BY <1>1, <2>1, <2>2
<1> QED
  BY <1>6, <1>7 DEF NoNews

\* A record is written: all others see what p saw, and p the new record too.
LEMMA WriteNews ==
    ASSUME Inv, NEW p \in Procs, NEW S \in SUBSET Nat, WriteRecord(p, S)
    PROVE  LET a == Len(InFile(p)) + 1 IN
           /\ a \in 1..MaxRecords
           /\ known'[p] = known[p] \cup {a}
           /\ \A q \in Procs : a \notin known[q]
           /\ \A q \in Procs \ {p} : InFile(q)' = InFile(p)
           /\ InFile(p)' = InFile(p) \o <<[whole |-> TRUE, refs |-> S]>>
           /\ recs' = InFile(p) /\ a = Len(recs) + Len(buffer[p].recs) + 1
<1> DEFINE new == [whole |-> TRUE, refs |-> S]
           a == Len(InFile(p)) + 1
<1>1. /\ recs' = InFile(p) /\ LockFree(p)
      /\ known' = [known EXCEPT ![p] = @ \cup {Len(recs') + 1}]
      /\ buffer' = [buffer EXCEPT ![p] = [recs |-> <<new>>, roots |-> <<>>]]
      /\ buffer \in [Procs -> [recs : Seq(Record), roots : Seq(Root)]]
      /\ known \in [Procs -> SUBSET Nat]
      /\ Len(recs) + Len(buffer[p].recs) < MaxRecords
  BY DEF WriteRecord, FlushThen, InFile, Inv, TypeOK
<1>2. /\ known'[p] = known[p] \cup {a}
      /\ buffer'[p].recs = <<new>> /\ \A q \in Procs \ {p} : buffer'[q] = buffer[q]
  BY <1>1
<1>3. a \in 1..MaxRecords /\ a = Len(recs) + Len(buffer[p].recs) + 1
  BY <1>1, FileSeen, BoundsAssumption
<1>4. InFile(p)' = InFile(p) \o <<new>>
  BY <1>1, <1>2 DEF InFile
<1>5. ASSUME NEW q \in Procs \ {p}
      PROVE  InFile(q)' = InFile(p) /\ a \notin known[q]
  <2>0. holder # q /\ Good(q)
    BY <1>1, <1>5, NoneAssumption DEF LockFree, Inv
  <2>1. buffer[q] = EmptyBuffer /\ InFile(q) = recs
    BY <1>5, <2>0, FileSeen DEF Good
  <2>2. InFile(q)' = InFile(p)
    <3>1. InFile(p) \in Seq(Record)
      BY FileSeen
    <3>2. buffer'[q].recs = <<>>
      BY <1>2, <1>5, <2>1 DEF EmptyBuffer
    <3> QED
      BY <1>1, <3>1, <3>2, ConcatEmptySeq DEF InFile
  <2>3. \A b \in known[q] : b \in 1..Len(recs)
    BY <1>5, <2>1, FileSeen, LenProperties
  <2> QED
    BY <1>3, <2>2, <2>3, FileSeen
<1>6. a \notin known[p]
  BY <1>3, FileSeen
<1> QED
  BY <1>1, <1>2, <1>3, <1>4, <1>5, <1>6

(***************************************************************************)
(* The steps of NodeStore are steps of Storage, or none.                   *)
(***************************************************************************)

\* The call that is about to write: all that its node refers to is stored.
LEMMA ReadyToWrite ==
    ASSUME NInv, NEW p \in Procs, Prepared(p)
    PROVE  LET r == Head(todo[p]).ref
               ks == refs[p][r].kids IN
           /\ r \in DOMAIN refs[p] /\ Unstored(refs[p], r) /\ pc[p] = "idle"
           /\ Head(todo[p]) = todo[p][1] /\ Len(todo[p]) > 1
           /\ \A j \in DOMAIN ks : ks[j] < r /\ ks[j] \in 0..Len(refs[p])
                                     /\ ~Unstored(refs[p], ks[j])
<1> DEFINE c == Head(todo[p])
           ks == refs[p][c.ref].kids
<1>1. /\ todo[p] \in Seq(Call) /\ todo[p] # <<>> /\ c # Committing
      /\ Left(refs[p], c) = {} /\ Calls(p) /\ Memory(p)
  BY InMemoryTypes DEF Prepared, NInv
<1>2. c = todo[p][1] /\ Len(todo[p]) \in Nat \ {0}
  BY <1>1, Popped
<1>3. Len(todo[p]) > 1 /\ CallGood(p, 1) /\ pc[p] = "idle"
  BY <1>1, <1>2 DEF Calls
<1>4. /\ c.ref \in DOMAIN refs[p] /\ Unstored(refs[p], c.ref)
      /\ \A j \in DOMAIN ks : ~(j < c.kid /\ Unstored(refs[p], ks[j]))
  BY <1>2, <1>3 DEF CallGood
<1>5. ks \in Seq(Nat) /\ c.kid \in Nat /\ refs[p][c.ref].addr = 0
  <2>1. todo[p][1] \in Call
    BY <1>1, <1>2
  <2> QED
    BY <1>2, <1>4, <2>1, InMemoryTypes DEF Call
<1>6. \A j \in DOMAIN ks : ~(j >= c.kid /\ Unstored(refs[p], ks[j]))
  BY <1>1 DEF Left
<1>7. \A j \in DOMAIN ks : ks[j] \in Nat /\ j \in Nat
  <2> HIDE DEF ks
  <2>1. DOMAIN ks = 1..Len(ks) /\ Len(ks) \in Nat
    BY <1>5, LenProperties
  <2> QED
    BY <1>5, <2>1, ElementOfSeq
<1>8. \A j \in DOMAIN ks : ks[j] <= Len(refs[p]) /\ ks[j] < c.ref
  BY <1>1, <1>4, <1>5 DEF Memory, RefGood
<1>9. \A j \in DOMAIN ks : ~Unstored(refs[p], ks[j])
  BY <1>4, <1>5, <1>6, <1>7
<1> HIDE DEF c, ks
<1>10. \A j \in DOMAIN ks : ks[j] \in 0..Len(refs[p])
  BY <1>7, <1>8, InMemoryTypes
<1> QED
  BY <1>2, <1>3, <1>4, <1>8, <1>9, <1>10 DEF c, ks

\* An address in memory is 0 or known.
LEMMA AddressKnown ==
    ASSUME NInv, NEW p \in Procs, NEW k \in 0..Len(refs[p]), ~Unstored(refs[p], k)
    PROVE  /\ AddrOf(refs[p], k) \in Nat
           /\ AddrOf(refs[p], k) # 0 => AddrOf(refs[p], k) \in known[p]
<1>1. CASE k = 0
  BY <1>1 DEF AddrOf
<1>2. CASE k # 0
  <2>1. k \in DOMAIN refs[p] /\ refs[p][k] \in Ref
    BY <1>2, InMemoryTypes
  <2>2. RefGood(p, k)
    BY <2>1 DEF NInv, Memory
  <2> QED
    BY <1>2, <2>1, <2>2 DEF RefGood, AddrOf, Ref
<1> QED
  BY <1>1, <1>2

\* A node refers to known records only.
LEMMA StoreNodeWrites ==
    ASSUME NInv, NEW p \in Procs, StoreNode(p)
    PROVE  LET at == KidAddrs(refs[p], refs[p][Head(todo[p]).ref])
               S == {at[i] : i \in DOMAIN at} \ {0} IN
           /\ WriteRecord(p, S) /\ S \in StoredRefs(p) /\ S \in SUBSET Nat
           /\ at \in Seq(Nat)
<1> DEFINE r == Head(todo[p]).ref
           ks == refs[p][r].kids
           at == KidAddrs(refs[p], refs[p][r])
<1>1. Prepared(p) /\ WriteRecord(p, {at[i] : i \in DOMAIN at} \ {0})
  BY DEF StoreNode
<1>2. /\ r \in DOMAIN refs[p]
      /\ \A j \in DOMAIN ks : ks[j] \in 0..Len(refs[p]) /\ ~Unstored(refs[p], ks[j])
  BY <1>1, ReadyToWrite
<1>3. ks \in Seq(Nat)
  BY <1>2, InMemoryTypes
<1>4. at = [j \in DOMAIN ks |-> AddrOf(refs[p], ks[j])]
  BY DEF KidAddrs
<1>5. \A j \in DOMAIN ks : /\ AddrOf(refs[p], ks[j]) \in Nat
                           /\ AddrOf(refs[p], ks[j]) # 0 => AddrOf(refs[p], ks[j]) \in known[p]
  BY <1>2, AddressKnown
<1> HIDE DEF ks, at
<1>6. DOMAIN ks = 1..Len(ks) /\ Len(ks) \in Nat
  BY <1>3, LenProperties
<1>7. at \in [1..Len(ks) -> Nat]
  BY <1>4, <1>5, <1>6
<1>8. at \in Seq(Nat)
  BY <1>6, <1>7, SeqDef
<1>9. /\ \A i \in DOMAIN at : at[i] # 0 => at[i] \in known[p]
      /\ \A i \in DOMAIN at : at[i] \in Nat
  BY <1>4, <1>5
<1> QED
  BY <1>1, <1>8, <1>9 DEF at, StoredRefs

LEMMA StepsAreStorage ==
    ASSUME NInv, [NNext]_nvars
    PROVE  [Next]_vars
<1>1. ASSUME NEW p \in Procs, Refresh(p) PROVE Next
  BY <1>1 DEF Refresh, Next
<1>2. ASSUME NEW p \in Procs, Follow(p) \/ Edit(p) \/ StartCommit(p) \/ StoreKid(p)
      PROVE  UNCHANGED vars
  BY <1>2 DEF Follow, Edit, StartCommit, StoreKid
<1>3. ASSUME NEW p \in Procs, StoreNode(p) PROVE Next
  BY <1>3, StoreNodeWrites DEF Write, Next
<1>4. ASSUME NEW p \in Procs, StoreRaises(p) PROVE Next
  BY <1>4 DEF StoreRaises, Next
<1>5. ASSUME NEW p \in Procs, PublishTree(p) \/ Beneath(p) PROVE Next
  BY <1>5 DEF PublishTree, Beneath, Commit, Next
<1>6. ASSUME NEW p \in Procs, Vanish(p) PROVE Next
  BY <1>6 DEF Vanish, Next
<1>7. UNCHANGED nvars => UNCHANGED vars
  BY DEF nvars
<1> QED
  BY <1>1, <1>2, <1>3, <1>4, <1>5, <1>6, <1>7 DEF NNext

LEMMA StorageKept ==
    ASSUME NInv, [NNext]_nvars
    PROVE  Inv'
BY StepsAreStorage, InvStep DEF NInv

\* All steps but StoreNode bring no record that was not there.
LEMMA OnlyStoreNodeAdds ==
    ASSUME NInv, NEW p \in Procs,
           \/ Refresh(p) \/ Follow(p) \/ Edit(p) \/ StartCommit(p) \/ StoreKid(p)
           \/ StoreRaises(p) \/ PublishTree(p) \/ Beneath(p) \/ Vanish(p)
    PROVE  NoNews
<1>0. Inv /\ buffer \in [Procs -> [recs : Seq(Record), roots : Seq(Root)]]
  BY DEF NInv, Inv, TypeOK
<1>1. CASE Refresh(p) \/ Follow(p) \/ Edit(p) \/ StartCommit(p) \/ StoreKid(p)
  BY <1>0, <1>1, QuietNoNews
     DEF Refresh, Load, Follow, Edit, StartCommit, StoreKid, vars, file
<1>2. CASE StoreRaises(p)
  BY <1>0, <1>2, QuietNoNews, FlushNoNews DEF StoreRaises, WriteFails, file
<1>3. CASE PublishTree(p)
  BY <1>0, <1>3, FlushNoNews DEF PublishTree, CommitFlush, Flush
<1>4. CASE Beneath(p)
  <2>1. CASE Flush(p)
    <3>1. FlushThen(p, <<>>)
      BY <2>1 DEF Flush
    <3> QED
      BY <1>0, <3>1, FlushNoNews
  <2>2. CASE CommitSync(p) \/ CommitRootFails(p) \/ CommitRootSync(p)
    BY <1>0, <2>2, QuietNoNews DEF CommitSync, CommitRootFails, CommitRootSync, file
  <2>3. CASE CommitRoot(p)
    <3>1. \A q \in Procs : buffer'[q].recs = buffer[q].recs
      BY <1>0, <2>3 DEF CommitRoot
    <3> QED
      BY <1>0, <2>3, <3>1, QuietNoNews DEF CommitRoot, file
  <2> QED
    BY <1>4, <2>1, <2>2, <2>3
       DEF Beneath, Commit, CommitFlush, CommitRootFlush, CommitUnlock, GiveUp, Drain
<1>5. CASE Vanish(p)
  BY <1>0, <1>5, KillNoNews, FlushNoNews DEF Vanish, Close, Flush
<1> QED
  BY <1>1, <1>2, <1>3, <1>4, <1>5

\* A process that does not move knows and has what it had.
Still(q) ==
    /\ known'[q] = known[q] /\ pc'[q] = pc[q]
    /\ refs'[q] = refs[q] /\ tree'[q] = tree[q] /\ todo'[q] = todo[q]

LEMMA OthersStill ==
    ASSUME NInv, NEW p \in Procs, NEW q \in Procs \ {p},
           \/ Refresh(p) \/ Follow(p) \/ Edit(p) \/ StartCommit(p) \/ StoreKid(p)
           \/ StoreNode(p) \/ StoreRaises(p) \/ PublishTree(p) \/ Beneath(p) \/ Vanish(p)
    PROVE  Still(q)
<1>0. known \in [Procs -> SUBSET Nat] /\ pc \in [Procs -> Steps]
  BY DEF NInv, Inv, TypeOK
<1>1. refs \in [Procs -> Seq(Ref)] /\ tree \in [Procs -> Nat] /\ todo \in [Procs -> Seq(Call)]
  BY DEF NInv, NodeTypes
<1>2. CASE Refresh(p)
  BY <1>0, <1>1, <1>2 DEF Refresh, Load, Still
<1>3. CASE Follow(p) \/ Edit(p) \/ StartCommit(p) \/ StoreKid(p)
  <2>1. UNCHANGED vars
    BY <1>3 DEF Follow, Edit, StartCommit, StoreKid
  <2>2. known' = known /\ pc' = pc
    BY <2>1 DEF vars
  <2>3. refs'[q] = refs[q] /\ tree'[q] = tree[q] /\ todo'[q] = todo[q]
    BY <1>1, <1>3 DEF Follow, Edit, StartCommit, StoreKid
  <2> QED
    BY <2>2, <2>3 DEF Still
<1>4. CASE StoreNode(p)
  <2>1. known'[q] = known[q] /\ pc' = pc
    BY <1>0, <1>4 DEF StoreNode, WriteRecord
  <2>2. refs'[q] = refs[q] /\ tree' = tree /\ todo'[q] = todo[q]
    BY <1>1, <1>4 DEF StoreNode
  <2> QED
    BY <2>1, <2>2 DEF Still
<1>5. CASE StoreRaises(p) \/ PublishTree(p)
  BY <1>0, <1>1, <1>5 DEF StoreRaises, WriteFails, PublishTree, CommitFlush, At, Still
<1>6. CASE Beneath(p)
  <2>1. known'[q] = known[q] /\ pc'[q] = pc[q]
    BY <1>0, <1>6 DEF Beneath, Commit, CommitFlush, CommitSync, CommitRoot,
       CommitRootFlush, CommitRootFails, CommitRootSync, CommitUnlock, GiveUp,
       Drain, LeaveCommit, At
  <2> QED
    BY <1>6, <2>1 DEF Beneath, memory, Still
<1>7. CASE Vanish(p)
  <2>1. known'[q] = known[q] /\ pc'[q] = pc[q]
    BY <1>0, <1>7 DEF Vanish, Close, Kill, LeaveCommit, At
  <2> QED
    BY <1>1, <1>7, <2>1 DEF Vanish, Still
<1> QED
  BY <1>2, <1>3, <1>4, <1>5, <1>6, <1>7

LEMMA KnownKept ==
    ASSUME NEW p \in Procs,
           \/ Follow(p) \/ Edit(p) \/ StartCommit(p) \/ StoreKid(p)
           \/ StoreRaises(p) \/ PublishTree(p) \/ Beneath(p)
    PROVE  known' = known
<1>1. UNCHANGED vars \/ WriteFails(p) \/ CommitFlush(p) \/ Beneath(p)
  BY DEF Follow, Edit, StartCommit, StoreKid, StoreRaises, PublishTree
<1>2. CASE UNCHANGED vars \/ WriteFails(p) \/ CommitFlush(p)
  BY <1>2 DEF vars, WriteFails, CommitFlush
<1>3. CASE Beneath(p)
  BY <1>3 DEF Beneath, Commit, CommitFlush, CommitSync, CommitRoot, CommitRootFlush,
     CommitRootFails, CommitRootSync, CommitUnlock, GiveUp, Drain
<1> QED
  BY <1>1, <1>2, <1>3

(***************************************************************************)
(* What a step leaves alone stays as the invariant says.                   *)
(***************************************************************************)

LEMMA MemoryKept ==
    ASSUME NInv, NEW q \in Procs, Memory(q), refs'[q] = refs[q],
           made' \in Nat, made <= made', known[q] \subseteq known'[q],
           \A a \in known[q] : packed'[a] = packed[a]
    PROVE  Memory(q)'
<1> SUFFICES ASSUME NEW i \in DOMAIN refs[q] PROVE RefGood(q, i)'
  BY DEF Memory
<1>1. RefGood(q, i) /\ refs[q][i] \in Ref /\ made \in Nat
  BY InMemoryTypes DEF Memory, NInv, NodeTypes
<1>2. KidAddrs(refs'[q], refs[q][i]) = KidAddrs(refs[q], refs[q][i])
  OBVIOUS
<1>3. \A k : Unstored(refs'[q], k) <=> Unstored(refs[q], k)
  OBVIOUS
<1>4. refs[q][i].thing <= made'
  BY <1>1 DEF RefGood, Ref
<1> QED
  BY <1>1, <1>2, <1>3, <1>4 DEF RefGood

LEMMA CallsKept ==
    ASSUME NEW q \in Procs, Calls(q), Still(q)
    PROVE  Calls(q)'
BY DEF Calls, CallGood, Still

\* The records are the old ones, and so is what they encode.
LEMMA RecordsKept ==
    ASSUME NInv, NoNews, packed' = packed, made' \in Nat, made <= made'
    PROVE  \A q \in Procs : Encodes(InFile(q))' /\ Distinct(InFile(q))'
<1> SUFFICES ASSUME NEW q \in Procs PROVE Encodes(InFile(q))' /\ Distinct(InFile(q))'
  OBVIOUS
<1>1. PICK p \in Procs : Older(InFile(q)', InFile(p))
  BY DEF NoNews
<1>2. Encodes(InFile(p)) /\ Distinct(InFile(p)) /\ made \in Nat
  BY DEF NInv, NodeTypes
<1>3. Encodes(InFile(q))'
  <2> SUFFICES ASSUME NEW a \in DOMAIN InFile(q)', InFile(q)'[a].whole
               PROVE  /\ a \in 1..MaxRecords
                      /\ InFile(q)'[a].refs =
                            {packed[a].kids[i] : i \in DOMAIN packed[a].kids} \ {0}
                      /\ packed[a].thing <= made'
    BY DEF Encodes
  <2>1. a \in DOMAIN InFile(p) /\ InFile(q)'[a] = InFile(p)[a]
    BY <1>1 DEF Older
  <2>2. /\ a \in 1..MaxRecords
        /\ InFile(q)'[a].refs = {packed[a].kids[i] : i \in DOMAIN packed[a].kids} \ {0}
        /\ packed[a].thing <= made
    BY <1>2, <2>1 DEF Encodes
  <2>3. packed[a].thing \in Nat
    BY <2>2 DEF NInv, NodeTypes, Packed
  <2> QED
    BY <1>2, <2>2, <2>3
<1>4. Distinct(InFile(q))'
  BY <1>1, <1>2 DEF Distinct, Older
<1> QED
  BY <1>3, <1>4

\* What is not stored after the step was not stored before it.
LEMMA FreshKept ==
    ASSUME NInv, NoNews, packed' = packed, made' \in Nat, made <= made',
           \A q \in Procs : \A i \in DOMAIN refs'[q] :
              Unstored(refs[q], i)' =>
                 /\ i \in DOMAIN refs[q] /\ Unstored(refs[q], i)
                 /\ refs'[q][i].thing = refs[q][i].thing
    PROVE  AllFresh'
<1> SUFFICES ASSUME NEW p \in Procs, NEW i \in DOMAIN refs'[p], Unstored(refs[p], i)'
             PROVE  Fresh(p, i)'
  BY DEF AllFresh
<1>1. i \in DOMAIN refs[p] /\ Unstored(refs[p], i) /\ refs'[p][i].thing = refs[p][i].thing
  OBVIOUS
<1>2. Fresh(p, i)
  BY <1>1 DEF NInv, AllFresh
<1> DEFINE n == refs[p][i].thing
<1>3. \A q \in Procs : Lacks(InFile(q), n)
  BY <1>2 DEF Fresh
<1> HIDE DEF n
<1>4. ASSUME NEW q \in Procs, NEW a \in DOMAIN InFile(q)', InFile(q)'[a].whole
      PROVE  packed[a].thing # n
  <2>1. PICK o \in Procs : Older(InFile(q)', InFile(o))
    BY DEF NoNews
  <2>2. a \in DOMAIN InFile(o) /\ InFile(o)[a].whole
    BY <1>4, <2>1 DEF Older
  <2> QED
    BY <1>3, <2>2 DEF Lacks
<1> USE DEF n
<1>5. \A q \in Procs : Lacks(InFile(q), refs[p][i].thing)'
  BY <1>1, <1>4 DEF Lacks
<1>6. ASSUME NEW q \in Procs, NEW j \in DOMAIN refs'[q], Unstored(refs[q], j)',
             refs'[q][j].thing = refs'[p][i].thing
      PROVE  q = p /\ j = i
  <2>1. /\ j \in DOMAIN refs[q] /\ Unstored(refs[q], j)
        /\ refs[q][j].thing = refs[p][i].thing
    BY <1>1, <1>6
  <2> QED
    BY <1>2, <2>1 DEF Fresh
<1> QED
  BY <1>5, <1>6 DEF Fresh

\* What is in the file is in every process's view of it.
LEMMA OnceInFile ==
    ASSUME NEW p \in Procs, Inv', Distinct(InFile(p))'
    PROVE  StoredOnce'
<1>1. recs' \in Seq(Record) /\ buffer'[p].recs \in Seq(Record)
  BY DEF Inv, TypeOK
<1>2. Extends(recs', recs' \o buffer'[p].recs)
  BY <1>1, ConcatExtends
<1> QED
  BY <1>2 DEF Distinct, Extends, StoredOnce, InFile

\* A step of p that writes no record: what is left to show.
LEMMA NoNewsStep ==
    ASSUME NInv, NEW p \in Procs, NoNews, Inv', NodeTypes',
           \A q \in Procs \ {p} : Still(q),
           packed' = packed, made <= made', Memory(p)', Calls(p)', AllFresh'
    PROVE  NInv'
<1>1. made' \in Nat
  BY DEF NodeTypes
<1>2. ASSUME NEW q \in Procs \ {p} PROVE Memory(q)' /\ Calls(q)'
  BY <1>1, <1>2, MemoryKept, CallsKept DEF NInv, Still
<1>3. \A q \in Procs : Encodes(InFile(q))' /\ Distinct(InFile(q))'
  BY <1>1, RecordsKept
<1>4. StoredOnce'
  BY <1>3, OnceInFile
<1> QED
  BY <1>2, <1>3, <1>4 DEF NInv

(***************************************************************************)
(* The steps, one lemma for each.                                          *)
(***************************************************************************)

\* Commits end, or go on beneath: references and calls stay, or no call is left.
LEMMA CommitStep ==
    ASSUME NInv, NEW p \in Procs, StoreRaises(p) \/ PublishTree(p) \/ Beneath(p)
    PROVE  NInv'
<1>1. /\ Inv' /\ NoNews /\ known' = known /\ \A q \in Procs \ {p} : Still(q)
  BY StorageKept, OnlyStoreNodeAdds, KnownKept, OthersStill DEF NNext
<1>2. /\ refs' = refs /\ tree' = tree /\ packed' = packed /\ made' = made
      /\ NodeTypes /\ made \in Nat
  BY DEF StoreRaises, PublishTree, Beneath, memory, NInv, NodeTypes
<1>3. todo' = todo \/ todo' = [todo EXCEPT ![p] = <<>>]
  BY DEF StoreRaises, PublishTree, Beneath, memory
<1>4. todo' \in [Procs -> Seq(Call)]
  <2>1. todo \in [Procs -> Seq(Call)] /\ <<>> \in Seq(Call)
    BY <1>2 DEF NodeTypes
  <2> QED
    BY <1>3, <2>1
<1>5. NodeTypes'
  BY <1>2, <1>4 DEF NodeTypes
<1>6. Memory(p)'
  BY <1>1, <1>2, MemoryKept DEF NInv
<1>7. AllFresh'
  BY <1>1, <1>2, FreshKept DEF Unstored
<1>8. Calls(p)'
  <2>1. CASE todo'[p] = <<>>
    BY <2>1 DEF Calls
  <2>2. CASE todo' = todo /\ todo[p] # <<>>
    <3>1. Calls(p) /\ pc[p] = "idle"
      BY <2>2 DEF NInv, Calls
    <3>2. ~StoreRaises(p) /\ ~PublishTree(p)
      <4>1. todo \in [Procs -> Seq(Call)]
        BY <1>2 DEF NodeTypes
      <4> QED
        BY <2>2, <4>1 DEF StoreRaises, PublishTree
    <3>3. Drain(p)
      BY <2>2, <3>1, <3>2 DEF Beneath, Idle
    <3>4. pc' = pc
      BY <3>3 DEF Drain
    <3> QED
      BY <1>1, <1>2, <2>2, <3>1, <3>4, CallsKept DEF Still
  <2> QED
    BY <1>2, <1>3, <2>1, <2>2 DEF NodeTypes
<1> QED
  BY <1>1, <1>2, <1>5, <1>6, <1>7, <1>8, NoNewsStep

\* A connection is gone with all it had in memory.
LEMMA VanishStep ==
    ASSUME NInv, NEW p \in Procs, Vanish(p)
    PROVE  NInv'
<1>1. /\ Inv' /\ NoNews /\ \A q \in Procs \ {p} : Still(q)
  BY StorageKept, OnlyStoreNodeAdds, OthersStill DEF NNext
<1>2. /\ refs' = [refs EXCEPT ![p] = <<>>] /\ tree' = [tree EXCEPT ![p] = 0]
      /\ todo' = [todo EXCEPT ![p] = <<>>] /\ packed' = packed /\ made' = made
      /\ NodeTypes
  BY DEF Vanish, NInv
<1>3. /\ refs'[p] = <<>> /\ todo'[p] = <<>> /\ tree'[p] = 0
      /\ refs' \in [Procs -> Seq(Ref)] /\ tree' \in [Procs -> Nat]
      /\ todo' \in [Procs -> Seq(Call)] /\ made \in Nat
  BY <1>2 DEF NodeTypes
<1>4. NodeTypes'
  <2>1. \A q \in Procs : tree'[q] <= Len(refs'[q])
    BY <1>1, <1>2, <1>3 DEF NodeTypes, Still
  <2> QED
    BY <1>2, <1>3, <2>1 DEF NodeTypes
<1>5. DOMAIN refs'[p] = {}
  BY <1>3
<1>6. Memory(p)' /\ Calls(p)'
  BY <1>3, <1>5 DEF Memory, Calls
<1>7. AllFresh'
  <2>1. \A q \in Procs : \A i \in DOMAIN refs'[q] : q # p /\ refs'[q] = refs[q]
    BY <1>1, <1>5 DEF Still
  <2> QED
    BY <1>1, <1>2, <1>3, <2>1, FreshKept DEF Unstored
<1> QED
  BY <1>1, <1>2, <1>3, <1>4, <1>6, <1>7, NoNewsStep

\* The root that is loaded leads to a whole tree, of which it is the first record.
LEMMA RefreshStep ==
    ASSUME NInv, NEW p \in Procs, Refresh(p)
    PROVE  NInv'
<1> DEFINE at == root.at
           new == IF at = 0 THEN <<>> ELSE <<Unloaded(at)>>
<1>1. /\ Inv' /\ NoNews /\ \A q \in Procs \ {p} : Still(q)
  BY StorageKept, OnlyStoreNodeAdds, OthersStill DEF NNext
<1>2. /\ refs' = [refs EXCEPT ![p] = new]
      /\ tree' = [tree EXCEPT ![p] = Len(refs'[p])]
      /\ todo' = todo /\ todo[p] = <<>> /\ packed' = packed /\ made' = made
      /\ known' = [known EXCEPT ![p] = Reach(at, recs)]
      /\ known \in [Procs -> SUBSET Nat] /\ NodeTypes
  BY DEF Refresh, Idle, Load, NInv, Inv, TypeOK
<1>3. at \in Nat /\ RootReadable /\ made \in Nat
  BY DEF NInv, Inv, TypeOK, FileGood, Root, NodeTypes
<1>4. ASSUME at # 0
      PROVE  /\ at \in Reach(at, recs) /\ Unloaded(at) \in Ref
             /\ Unloaded(at).thing = packed[at].thing /\ packed[at].thing <= made
  <2>1. PICK S \in SUBSET (DOMAIN recs) : at \in S /\ Closed(S, recs)
    BY <1>3, <1>4 DEF RootReadable, Readable
  <2>2. at \in Reach(at, recs)
    BY <1>4, <2>1 DEF Reach
  <2>3. at \in DOMAIN InFile(p) /\ InFile(p)[at].whole
    BY <2>1, FileSeen DEF NInv, Closed, Extends
  <2>4. at \in 1..MaxRecords /\ packed[at].thing <= made
    BY <2>3 DEF NInv, Encodes
  <2>5. packed[at].thing \in Nat
    BY <1>2, <2>4 DEF NodeTypes, Packed
  <2>6. <<>> \in Seq(Nat)
    OBVIOUS
  <2> QED
    BY <1>3, <1>4, <2>2, <2>4, <2>5, <2>6 DEF Unloaded, Ref
<1>5. refs'[p] = new /\ known'[p] = Reach(at, recs) /\ tree'[p] = Len(new)
  BY <1>2 DEF NodeTypes
<1>6. new \in Seq(Ref) /\ \A i \in DOMAIN new : at # 0 /\ new[i] = Unloaded(at)
  BY <1>4
<1> HIDE DEF at, new
<1>7. NodeTypes'
  <2>1. refs' \in [Procs -> Seq(Ref)] /\ tree' \in [Procs -> Nat]
    BY <1>2, <1>5, <1>6 DEF NodeTypes
  <2>2. \A q \in Procs : tree'[q] <= Len(refs'[q])
    BY <1>1, <1>2, <1>5, <1>6 DEF NodeTypes, Still
  <2> QED
    BY <1>2, <2>1, <2>2 DEF NodeTypes
<1>8. \A i \in DOMAIN refs'[p] : refs'[p][i] = Unloaded(at) /\ at # 0
  BY <1>5, <1>6
<1>9. Memory(p)'
  BY <1>2, <1>4, <1>5, <1>8 DEF Memory, RefGood, Unloaded
<1>10. Calls(p)'
  BY <1>2 DEF Calls
<1>11. AllFresh'
  <2>1. \A i \in DOMAIN refs'[p] : ~Unstored(refs[p], i)'
    BY <1>8 DEF Unstored, Unloaded
  <2>2. \A q \in Procs \ {p} : refs'[q] = refs[q]
    BY <1>1 DEF Still
  <2> QED
    BY <1>1, <1>2, <1>3, <2>1, <2>2, FreshKept DEF Unstored
<1> QED
  BY <1>1, <1>2, <1>3, <1>7, <1>9, <1>10, <1>11, NoNewsStep

\* Calls of store() change the calls under way only.
LEMMA CallStep ==
    ASSUME NInv, NEW p \in Procs, StartCommit(p) \/ StoreKid(p),
           todo'[p] \in Seq(Call), Calls(p)'
    PROVE  NInv'
<1>1. /\ Inv' /\ NoNews /\ known' = known /\ \A q \in Procs \ {p} : Still(q)
  BY StorageKept, OnlyStoreNodeAdds, KnownKept, OthersStill DEF NNext
<1>2. /\ refs' = refs /\ tree' = tree /\ packed' = packed /\ made' = made
      /\ \E s : todo' = [todo EXCEPT ![p] = s]
  BY DEF StartCommit, StoreKid
<1>3. NodeTypes /\ made \in Nat /\ todo \in [Procs -> Seq(Call)]
  BY DEF NInv, NodeTypes
<1>4. todo' \in [Procs -> Seq(Call)]
  BY <1>2, <1>3
<1>5. NodeTypes'
  BY <1>2, <1>3, <1>4 DEF NodeTypes
<1>6. Memory(p)'
  BY <1>1, <1>2, <1>3, MemoryKept DEF NInv
<1>7. AllFresh'
  BY <1>1, <1>2, <1>3, FreshKept DEF Unstored
<1> QED
  BY <1>1, <1>2, <1>3, <1>5, <1>6, <1>7, NoNewsStep

LEMMA StartCommitStep ==
    ASSUME NInv, NEW p \in Procs, StartCommit(p)
    PROVE  NInv'
<1> DEFINE new == IF Unstored(refs[p], tree[p]) THEN <<Storing(tree[p]), Committing>>
                  ELSE <<Committing>>
<1>1. /\ todo' = [todo EXCEPT ![p] = new] /\ pc[p] = "idle" /\ UNCHANGED vars
      /\ refs' = refs /\ tree' = tree
  BY DEF StartCommit, Idle
<1>2. todo \in [Procs -> Seq(Call)] /\ tree[p] \in Nat
  BY DEF NInv, NodeTypes
<1>3. /\ Storing(tree[p]) \in Call /\ Committing \in Call
      /\ Storing(tree[p]).ref = tree[p] /\ Storing(tree[p]).kid = 1
  BY <1>2 DEF Storing, Committing, Call
<1>4. new \in Seq(Call) /\ todo'[p] = new
  BY <1>1, <1>2, <1>3
<1>5. Calls(p)'
  <2>0. refs'[p] = refs[p] /\ tree'[p] = tree[p] /\ pc'[p] = "idle"
    BY <1>1 DEF vars
  <2>1. CASE ~Unstored(refs[p], tree[p])
    <3>1. todo'[p] = <<Committing>>
      BY <1>4, <2>1
    <3>2. Len(todo'[p]) = 1 /\ todo'[p][1] = Committing
      BY <3>1
    <3> QED
      BY <2>0, <2>1, <3>1, <3>2 DEF Calls
  <2>2. CASE Unstored(refs[p], tree[p])
    <3>1. todo'[p] = <<Storing(tree[p]), Committing>>
      BY <1>4, <2>2
    <3>2. Len(todo'[p]) = 2 /\ todo'[p][1] = Storing(tree[p]) /\ todo'[p][2] = Committing
      BY <3>1
    <3>3. tree[p] \in DOMAIN refs[p]
      BY <2>2, InMemoryTypes
    <3>4. \A j \in DOMAIN refs[p][tree[p]].kids : ~(j < 1)
      <4>1. refs[p][tree[p]].kids \in Seq(Nat)
        BY <3>3, InMemoryTypes
      <4> QED
        BY <4>1, LenProperties
    <3>5. CallGood(p, 1)'
      BY <1>3, <2>0, <2>2, <3>2, <3>3, <3>4 DEF CallGood
    <3>6. \A i \in 1..Len(todo'[p]) - 1 : i = 1
      BY <3>2
    <3> QED
      BY <1>3, <2>0, <3>2, <3>5, <3>6 DEF Calls
  <2> QED
    BY <2>1, <2>2
<1> QED
  BY <1>4, <1>5, CallStep

LEMMA StoreKidStep ==
    ASSUME NInv, NEW p \in Procs, StoreKid(p)
    PROVE  NInv'
<1> DEFINE s == todo[p]
           c == Head(s)
           ks == refs[p][c.ref].kids
           n == Len(s)
<1>1. /\ s \in Seq(Call) /\ s # <<>> /\ c # Committing /\ UNCHANGED vars
      /\ refs' = refs /\ tree' = tree /\ Calls(p) /\ Memory(p)
      /\ todo \in [Procs -> Seq(Call)]
  BY InMemoryTypes DEF StoreKid, NInv, NodeTypes
<1>2. c = s[1] /\ n \in Nat \ {0} /\ c \in Call
  BY <1>1, Popped
<1>3. n > 1 /\ CallGood(p, 1) /\ pc[p] = "idle"
  BY <1>1, <1>2 DEF Calls
<1>4. PICK i \in Left(refs[p], c) :
         /\ \A j \in Left(refs[p], c) : i <= j
         /\ todo' = [todo EXCEPT ![p] =
               <<Storing(ks[i]), [c EXCEPT !.kid = i + 1]>> \o Tail(@)]
  BY DEF StoreKid
<1>a. /\ Left(refs[p], c) = {j \in DOMAIN ks : j >= c.kid /\ Unstored(refs[p], ks[j])}
      /\ ks = refs[p][c.ref].kids
  BY DEF Left
<1> DEFINE x == Storing(ks[i])
           d == [c EXCEPT !.kid = i + 1]
           t == <<x, d>> \o Tail(s)
<1>5. /\ c.ref \in DOMAIN refs[p] /\ Unstored(refs[p], c.ref)
      /\ \A j \in DOMAIN ks : ~(j < c.kid /\ Unstored(refs[p], ks[j]))
  BY <1>2, <1>3 DEF CallGood
<1> HIDE DEF ks
<1>6. /\ ks \in Seq(Nat) /\ DOMAIN ks = 1..Len(ks) /\ Len(ks) \in Nat
      /\ refs[p][c.ref].addr = 0 /\ c.ref \in Nat /\ c.kid \in Nat
  <2>1. ks \in Seq(Nat) /\ refs[p][c.ref].addr = 0 /\ c.ref \in Nat /\ c.kid \in Nat
    BY <1>a, <1>2, <1>5, InMemoryTypes DEF Call
  <2> QED
    BY <2>1, LenProperties
<1> HIDE DEF c
<1>7. /\ i \in DOMAIN ks /\ i >= c.kid /\ Unstored(refs[p], ks[i]) /\ i \in Nat
      /\ \A j \in DOMAIN ks : j >= c.kid /\ Unstored(refs[p], ks[j]) => i <= j
  BY <1>a, <1>4, <1>6
<1>8. /\ ks[i] \in Nat /\ ks[i] < c.ref /\ ks[i] \in DOMAIN refs[p]
  <2>1. ks[i] \in Nat
    BY <1>6, <1>7, ElementOfSeq
  <2>2. ks[i] <= Len(refs[p]) /\ ks[i] < c.ref
    BY <1>a, <1>1, <1>5, <1>6, <1>7 DEF Memory, RefGood
  <2>3. ks[i] # 0
    BY <1>7 DEF Unstored
  <2> QED
    BY <2>1, <2>2, <2>3, InMemoryTypes
<1>9. x \in Call /\ x.ref = ks[i] /\ x.kid = 1 /\ d \in Call /\ d.ref = c.ref /\ d.kid = i + 1
  BY <1>2, <1>6, <1>7, <1>8 DEF Storing, Call
<1> HIDE DEF x, d
<1>10. /\ t \in Seq(Call) /\ Len(t) = n + 1 /\ t[1] = x /\ t[2] = d
       /\ \A h \in 3..n + 1 : t[h] = s[h - 1]
  BY <1>1, <1>9, Pushed
<1>11. todo'[p] = t
  BY <1>1, <1>4 DEF x, d
<1>12. refs'[p] = refs[p] /\ tree'[p] = tree[p] /\ pc'[p] = "idle"
  BY <1>1, <1>3 DEF vars
<1> HIDE DEF t
\* The references being stored are the old ones and the new one, above all.
<1>13. \A h \in 1..n : /\ h = 1 => t[h].ref = ks[i]
                       /\ h > 1 => t[h].ref = s[h - 1].ref
  BY <1>2, <1>9, <1>10
<1>14. \A h \in 1..n - 1 : h > 1 => c.ref < s[h].ref
  <2> SUFFICES ASSUME NEW h \in 1..n - 1, h > 1 PROVE s[1].ref < s[h].ref
    BY <1>2
  <2>1. CallGood(p, h) /\ 1 \in 1..h - 1
    BY <1>1 DEF Calls
  <2> QED
    BY <2>1 DEF CallGood
<1>15. CallGood(p, 1)'
  <2>1. refs[p][ks[i]].kids \in Seq(Nat)
    BY <1>8, InMemoryTypes
  <2>2. \A j \in DOMAIN refs[p][ks[i]].kids : ~(j < 1)
    BY <2>1, LenProperties
  <2>3. todo'[p][1].ref = ks[i] /\ todo'[p][1].kid = 1
    BY <1>9, <1>10, <1>11
  <2> QED
    BY <1>7, <1>8, <1>12, <2>2, <2>3 DEF CallGood
<1>16. CallGood(p, 2)'
  <2>1. \A j \in DOMAIN ks : j < i + 1 /\ Unstored(refs[p], ks[j]) => j = i
    <3> SUFFICES ASSUME NEW j \in DOMAIN ks, j < i + 1, Unstored(refs[p], ks[j])
                 PROVE  j = i
      OBVIOUS
    <3>1. j >= c.kid
      BY <1>5, <1>6
    <3>2. i <= j
      BY <1>7, <3>1
    <3> QED
      BY <1>6, <1>7, <3>2
  <2>2. \A h \in 1..2 - 1 : h = 1
    OBVIOUS
  <2>3. todo'[p][2].ref = c.ref /\ todo'[p][2].kid = i + 1 /\ todo'[p][1].ref = ks[i]
    BY <1>9, <1>10, <1>11
  <2>4. \A j \in DOMAIN refs[p][c.ref].kids :
           j < i + 1 /\ Unstored(refs[p], refs[p][c.ref].kids[j]) =>
              refs[p][c.ref].kids[j] = ks[i]
    BY <1>a, <2>1
  <2> QED
    BY <1>5, <1>8, <1>12, <2>2, <2>3, <2>4 DEF CallGood
<1>17. ASSUME NEW h \in 3..n PROVE CallGood(p, h)'
  <2>1. CallGood(p, h - 1) /\ h - 1 \in 2..n - 1 /\ n \in Nat
    BY <1>1, <1>2 DEF Calls
  <2>2. t[h] = s[h - 1] /\ t[h - 1].ref = s[(h - 1) - 1].ref
    BY <1>2, <1>10, <1>13
  <2>3. \A g \in 1..h - 1 : t[g].ref < t[h].ref
    <3> SUFFICES ASSUME NEW g \in 1..h - 1 PROVE t[g].ref < s[h - 1].ref
      BY <2>2
    <3>1. CASE g = 1
      <4>1. s[h - 1] \in Call /\ t[1].ref = ks[i] /\ c.ref < s[h - 1].ref
        BY <1>1, <1>2, <1>13, <1>14, <2>1, ElementOfSeq
      <4> QED
        <5>1. s[h - 1].ref \in Nat
          BY <4>1 DEF Call
        <5> QED
          BY <1>6, <1>8, <3>1, <4>1, <5>1
    <3>2. CASE g > 1
      <4>1. t[g].ref = s[g - 1].ref /\ g - 1 \in 1..(h - 1) - 1
        BY <1>13, <2>1, <3>2
      <4> QED
        BY <2>1, <4>1 DEF CallGood
    <3> QED
      BY <3>1, <3>2
  <2> QED
    BY <1>11, <1>12, <2>1, <2>2, <2>3 DEF CallGood
<1>18. Calls(p)'
  <2>1. t[n + 1] = Committing /\ t[(n + 1) - 1].ref = tree[p]
    <3>1. s[n] = Committing /\ s[n - 1].ref = tree[p]
      BY <1>1, <1>2, <1>3 DEF Calls
    <3>2. n + 1 \in 3..n + 1 /\ (n + 1) - 1 = n /\ n \in 1..n
      BY <1>2, <1>3
    <3>3. t[n + 1] = s[(n + 1) - 1] /\ t[n].ref = s[n - 1].ref
      BY <1>3, <1>10, <1>13, <3>2
    <3> QED
      BY <3>1, <3>2, <3>3
  <2>2. \A h \in 1..(n + 1) - 1 : h = 1 \/ h = 2 \/ h \in 3..n
    BY <1>2
  <2>3. \A h \in 1..(n + 1) - 1 : CallGood(p, h)'
    BY <1>15, <1>16, <1>17, <2>2
  <2>4. ~(n + 1 = 1)
    BY <1>2
  <2> QED
    BY <1>10, <1>11, <1>12, <2>1, <2>3, <2>4 DEF Calls
<1> QED
  BY <1>10, <1>11, <1>18, CallStep

\* The record at a known address, and what its kids are.
LEMMA KnownRecord ==
    ASSUME NInv, NEW p \in Procs, NEW a \in known[p]
    PROVE  /\ packed[a] \in Packed /\ packed[a].kids \in Seq(Nat) /\ packed[a].thing \in Nat
           /\ packed[a].thing <= made
           /\ \A j \in DOMAIN packed[a].kids :
                 packed[a].kids[j] # 0 => packed[a].kids[j] \in known[p]
<1>1. a \in DOMAIN InFile(p) /\ InFile(p)[a].whole /\ InFile(p)[a].refs \subseteq known[p]
  BY DEF NInv, Inv, Good, Closed, InFile
<1>2. /\ a \in 1..MaxRecords /\ packed[a].thing <= made
      /\ InFile(p)[a].refs = {packed[a].kids[i] : i \in DOMAIN packed[a].kids} \ {0}
  BY <1>1 DEF NInv, Encodes
<1>3. packed[a] \in Packed
  BY <1>2 DEF NInv, NodeTypes
<1> QED
  BY <1>1, <1>2, <1>3 DEF Packed

\* New references after those there were.
LEMMA Joined ==
    ASSUME NEW rs \in Seq(Ref), NEW new \in Seq(Ref)
    PROVE  /\ rs \o new \in Seq(Ref) /\ Len(rs \o new) = Len(rs) + Len(new)
           /\ DOMAIN (rs \o new) = 1..Len(rs) + Len(new)
           /\ \A i \in 1..Len(rs) : (rs \o new)[i] = rs[i]
           /\ \A j \in 1..Len(new) : (rs \o new)[Len(rs) + j] = new[j]
           /\ \A i \in 1..Len(rs) + Len(new) :
                 i \in 1..Len(rs) \/ \E j \in 1..Len(new) : i = Len(rs) + j
<1> DEFINE T == rs \o new
           n == Len(rs)
           m == Len(new)
<1>1. /\ T \in Seq(Ref) /\ Len(T) = n + m /\ n \in Nat /\ m \in Nat
      /\ \A i \in 1..n + m : T[i] = IF i <= n THEN rs[i] ELSE new[i - n]
  BY ConcatProperties, LenProperties
<1>2. DOMAIN T = 1..n + m
  BY <1>1, LenProperties
<1> HIDE DEF T, n, m
<1>3. \A i \in 1..n : T[i] = rs[i]
  BY <1>1
<1>4. \A j \in 1..m : T[n + j] = new[j]
  <2> SUFFICES ASSUME NEW j \in 1..m PROVE T[n + j] = new[j]
    OBVIOUS
  <2>1. n + j \in 1..n + m /\ ~(n + j <= n) /\ (n + j) - n = j
    BY <1>1
  <2> QED
    BY <1>1, <2>1
<1>5. ASSUME NEW i \in 1..n + m PROVE i \in 1..n \/ \E j \in 1..m : i = n + j
  <2>1. CASE i <= n
    BY <1>1, <2>1
  <2>2. CASE ~(i <= n)
    <3>1. i - n \in 1..m /\ i = n + (i - n)
      BY <1>1, <2>2
    <3> QED
      BY <3>1
  <2> QED
    BY <2>1, <2>2
<1> QED
  BY <1>1, <1>2, <1>3, <1>4, <1>5 DEF T, n, m

LEMMA FollowStep ==
    ASSUME NInv, NEW p \in Procs, Follow(p)
    PROVE  NInv'
<1>1. /\ Inv' /\ NoNews /\ known' = known /\ \A q \in Procs \ {p} : Still(q)
  BY StorageKept, OnlyStoreNodeAdds, KnownKept, OthersStill DEF NNext
<1>2. PICK r \in DOMAIN refs[p] :
        /\ ~refs[p][r].loaded /\ refs[p][r].addr # 0
        /\ refs' = [refs EXCEPT ![p] =
              [@ EXCEPT ![r] = [refs[p][r] EXCEPT !.loaded = TRUE,
                   !.kids = [i \in DOMAIN packed[refs[p][r].addr].kids |-> Len(refs[p]) + i]]]
              \o [i \in DOMAIN packed[refs[p][r].addr].kids |->
                     Unloaded(packed[refs[p][r].addr].kids[i])]]
  BY DEF Follow
<1> DEFINE rs == refs[p]
           n == Len(rs)
           at == packed[rs[r].addr].kids
           R == [rs[r] EXCEPT !.loaded = TRUE, !.kids = [i \in DOMAIN at |-> n + i]]
           new == [i \in DOMAIN at |-> Unloaded(at[i])]
           T == [rs EXCEPT ![r] = R] \o new
<1>3. /\ tree' = tree /\ todo' = todo /\ packed' = packed /\ made' = made
      /\ todo[p] = <<>> /\ NodeTypes /\ made \in Nat /\ Memory(p)
  BY DEF Follow, Idle, NInv, NodeTypes
<1>4. /\ rs \in Seq(Ref) /\ DOMAIN rs = 1..n /\ n \in Nat /\ tree[p] \in 0..n
      /\ rs[r] \in Ref /\ r \in 1..n
  BY <1>2, InMemoryTypes
<1>5. rs[r].addr \in known[p] /\ packed[rs[r].addr].thing = rs[r].thing
  BY <1>2, <1>3 DEF Memory, RefGood
<1>6. /\ at \in Seq(Nat) /\ DOMAIN at = 1..Len(at) /\ Len(at) \in Nat
      /\ \A j \in DOMAIN at : at[j] \in Nat /\ (at[j] # 0 => at[j] \in known[p])
  BY <1>5, KnownRecord, LenProperties, ElementOfSeq
<1> HIDE DEF at
<1>7. \A j \in DOMAIN at : /\ Unloaded(at[j]) \in Ref /\ Unloaded(at[j]).thing <= made
                           /\ Unloaded(at[j]).addr = at[j] /\ ~Unloaded(at[j]).loaded
                           /\ Unloaded(at[j]).kids = <<>>
                           /\ at[j] # 0 => packed[at[j]].thing = Unloaded(at[j]).thing
  <2> SUFFICES ASSUME NEW j \in DOMAIN at
               PROVE  /\ Unloaded(at[j]) \in Ref /\ Unloaded(at[j]).thing <= made
                      /\ Unloaded(at[j]).addr = at[j] /\ ~Unloaded(at[j]).loaded
                      /\ Unloaded(at[j]).kids = <<>>
                      /\ at[j] # 0 => packed[at[j]].thing = Unloaded(at[j]).thing
    OBVIOUS
  <2>1. at[j] # 0 => packed[at[j]].thing \in Nat /\ packed[at[j]].thing <= made
    BY <1>6, KnownRecord
  <2>2. <<>> \in Seq(Nat)
    OBVIOUS
  <2> QED
    BY <1>3, <1>6, <2>1, <2>2 DEF Unloaded, Ref
<1>8. /\ R \in Ref /\ R.thing = rs[r].thing /\ R.addr = rs[r].addr /\ R.loaded
      /\ R.kids = [i \in DOMAIN at |-> n + i]
  <2>1. [i \in DOMAIN at |-> n + i] \in Seq(Nat)
    BY <1>4, <1>6
  <2> QED
    BY <1>4, <2>1 DEF Ref
<1> HIDE DEF R
<1>9. /\ new \in Seq(Ref) /\ Len(new) = Len(at) /\ \A j \in DOMAIN at : new[j] = Unloaded(at[j])
  BY <1>6, <1>7
<1> HIDE DEF new
<1>10. /\ [rs EXCEPT ![r] = R] \in Seq(Ref) /\ Len([rs EXCEPT ![r] = R]) = n
       /\ \A i \in 1..n : [rs EXCEPT ![r] = R][i] = IF i = r THEN R ELSE rs[i]
  BY <1>4, <1>8
<1>11. /\ T \in Seq(Ref) /\ Len(T) = n + Len(at) /\ DOMAIN T = 1..n + Len(at)
       /\ T[r] = R /\ \A i \in 1..n \ {r} : T[i] = rs[i]
       /\ \A j \in DOMAIN at : T[n + j] = Unloaded(at[j])
       /\ \A i \in DOMAIN T : i \in 1..n \/ \E j \in DOMAIN at : i = n + j
  <2> DEFINE old == [rs EXCEPT ![r] = R]
  <2>1. /\ old \in Seq(Ref) /\ Len(old) = n
        /\ \A i \in 1..n : old[i] = IF i = r THEN R ELSE rs[i]
    BY <1>10
  <2> HIDE DEF old
  <2> DEFINE U == old \o new
  <2>2. /\ U \in Seq(Ref) /\ Len(U) = n + Len(at) /\ DOMAIN U = 1..n + Len(at)
        /\ \A i \in 1..n : U[i] = old[i]
        /\ \A j \in DOMAIN at : U[n + j] = new[j]
        /\ \A i \in DOMAIN U : i \in 1..n \/ \E j \in DOMAIN at : i = n + j
    <3>1. /\ U \in Seq(Ref) /\ Len(U) = Len(old) + Len(new)
          /\ DOMAIN U = 1..Len(old) + Len(new)
          /\ \A i \in 1..Len(old) : U[i] = old[i]
          /\ \A j \in 1..Len(new) : U[Len(old) + j] = new[j]
          /\ \A i \in 1..Len(old) + Len(new) :
                i \in 1..Len(old) \/ \E j \in 1..Len(new) : i = Len(old) + j
      BY <1>9, <2>1, Joined
    <3>2. Len(old) = n /\ Len(new) = Len(at) /\ 1..Len(at) = DOMAIN at
      BY <1>6, <1>9, <2>1
    <3> HIDE DEF U, n
    <3> QED
      BY <3>1, <3>2
  <2> HIDE DEF U
  <2>3. /\ U[r] = R /\ \A i \in 1..n \ {r} : U[i] = rs[i]
        /\ \A j \in DOMAIN at : U[n + j] = Unloaded(at[j])
    BY <1>4, <1>9, <2>1, <2>2
  <2>4. U = T
    BY DEF U, old
  <2> QED
    BY <2>2, <2>3, <2>4
<1>12. refs'[p] = T
  BY <1>2, <1>3 DEF NodeTypes, T, R, new, at
<1> HIDE DEF T
\* The references there were have the addresses they had.
<1>13. \A k \in 0..n : AddrOf(T, k) = AddrOf(rs, k) /\ (Unstored(T, k) <=> Unstored(rs, k))
  <2> SUFFICES ASSUME NEW k \in 1..n
               PROVE  T[k].addr = rs[k].addr /\ (Unstored(T, k) <=> Unstored(rs, k))
    BY <1>4 DEF AddrOf, Unstored
  <2>1. CASE k = r
    BY <1>2, <1>8, <1>11, <2>1 DEF Unstored
  <2>2. CASE k # r
    BY <1>11, <2>2 DEF Unstored
  <2> QED
    BY <2>1, <2>2
<1>14. NodeTypes'
  <2>1. refs' \in [Procs -> Seq(Ref)]
    <3>1. refs' = [refs EXCEPT ![p] = T] /\ refs \in [Procs -> Seq(Ref)]
      BY <1>2, <1>3 DEF NodeTypes, T, R, new, at
    <3> QED
      BY <1>11, <3>1
  <2>2. tree'[p] <= Len(refs'[p])
    BY <1>3, <1>4, <1>6, <1>11, <1>12
  <2>3. \A q \in Procs \ {p} : tree'[q] <= Len(refs'[q])
    BY <1>1, <1>3 DEF NodeTypes, Still
  <2> QED
    BY <1>3, <2>1, <2>2, <2>3 DEF NodeTypes
<1>15. Memory(p)'
  <2> SUFFICES ASSUME NEW i \in DOMAIN T PROVE RefGood(p, i)'
    BY <1>12 DEF Memory
  <2>1. CASE i = r
    <3>1. \A j \in DOMAIN at : /\ R.kids[j] = n + j /\ n + j <= n + Len(at)
                               /\ AddrOf(T, R.kids[j]) = at[j] /\ ~Unstored(T, R.kids[j])
      BY <1>4, <1>6, <1>7, <1>8, <1>11 DEF AddrOf, Unstored
    <3>2. DOMAIN R.kids = DOMAIN at
      BY <1>8
    <3>3. KidAddrs(T, R) = at
      BY <1>6, <3>1, <3>2 DEF KidAddrs
    <3>4. R.thing <= made /\ R.addr \in known[p] /\ packed[R.addr].thing = R.thing
          /\ R.addr # 0 /\ packed[R.addr].kids = at
      BY <1>2, <1>4, <1>3, <1>5, <1>8 DEF Memory, RefGood, at
    <3> QED
      BY <1>1, <1>3, <1>11, <1>12, <2>1, <3>1, <3>2, <3>3, <3>4 DEF RefGood
  <2>2. CASE i \in 1..n /\ i # r
    <3>1. RefGood(p, i) /\ rs[i] \in Ref /\ T[i] = rs[i]
      BY <1>3, <1>4, <1>11, <2>2, InMemoryTypes DEF Memory
    <3>2. \A j \in DOMAIN rs[i].kids : rs[i].kids[j] \in 0..n
      <4>1. rs[i].kids \in Seq(Nat)
        BY <3>1 DEF Ref
      <4> QED
        BY <1>4, <3>1, <4>1, ElementOfSeq DEF RefGood
    <3>3. KidAddrs(T, rs[i]) = KidAddrs(rs, rs[i])
      BY <1>13, <3>2 DEF KidAddrs
    <3>4. \A j \in DOMAIN rs[i].kids : /\ rs[i].kids[j] <= n + Len(at)
                                       /\ Unstored(T, rs[i].kids[j]) <=> Unstored(rs, rs[i].kids[j])
      BY <1>4, <1>6, <1>13, <3>2
    <3> QED
      BY <1>1, <1>3, <1>11, <1>12, <3>1, <3>3, <3>4 DEF RefGood
  <2>3. CASE i \notin 1..n
    <3>1. PICK j \in DOMAIN at : i = n + j
      BY <1>11, <2>3
    <3>2. T[i] = Unloaded(at[j])
      BY <1>11, <3>1
    <3>3. DOMAIN T[i].kids = {}
      BY <1>7, <3>2
    <3> QED
      BY <1>1, <1>3, <1>6, <1>7, <1>12, <3>2, <3>3 DEF RefGood
  <2> QED
    BY <2>1, <2>2, <2>3
<1>16. Calls(p)'
  BY <1>3 DEF Calls
<1>17. AllFresh'
  <2>1. \A i \in DOMAIN refs'[p] : Unstored(refs[p], i)' =>
           i \in DOMAIN rs /\ Unstored(rs, i) /\ T[i].thing = rs[i].thing
    <3> SUFFICES ASSUME NEW i \in DOMAIN T, Unstored(T, i)
                 PROVE  i \in DOMAIN rs /\ Unstored(rs, i) /\ T[i].thing = rs[i].thing
      BY <1>12
    <3>1. i \in 1..n
      <4>1. ASSUME i \notin 1..n PROVE FALSE
        <5>1. PICK j \in DOMAIN at : i = n + j
          BY <1>11, <4>1
        <5>2. ~T[i].loaded
          BY <1>7, <1>11, <5>1
        <5> QED
          BY <5>2 DEF Unstored
      <4> QED
        BY <4>1
    <3>2. Unstored(rs, i)
      BY <1>13, <3>1
    <3>3. i # r
      BY <1>2, <3>2 DEF Unstored
    <3> QED
      BY <1>4, <1>11, <3>1, <3>2, <3>3
  <2>2. \A q \in Procs \ {p} : refs'[q] = refs[q]
    BY <1>1 DEF Still
  <2>3. \A q \in Procs : \A i \in DOMAIN refs'[q] :
           Unstored(refs[q], i)' =>
              i \in DOMAIN refs[q] /\ Unstored(refs[q], i) /\ refs'[q][i].thing = refs[q][i].thing
    BY <1>12, <2>1, <2>2
  <2> QED
    BY <1>1, <1>3, <2>3, FreshKept
<1> QED
  BY <1>1, <1>3, <1>14, <1>15, <1>16, <1>17, NoNewsStep

\* New things, each of which refers to older ones.
LEMMA NewThings ==
    ASSUME NInv, NEW p \in Procs, Edit(p), NEW new \in Seq(Ref),
           refs' = [refs EXCEPT ![p] = @ \o new], made' = made + Len(new),
           \A j \in 1..Len(new) :
              /\ new[j].thing = made + j /\ new[j].addr = 0
              /\ \A k \in DOMAIN new[j].kids : new[j].kids[k] < Len(refs[p]) + j
    PROVE  NInv'
<1> DEFINE rs == refs[p]
           n == Len(rs)
           m == Len(new)
           T == rs \o new
<1>1. /\ Inv' /\ NoNews /\ known' = known /\ \A q \in Procs \ {p} : Still(q)
  BY StorageKept, OnlyStoreNodeAdds, KnownKept, OthersStill DEF NNext
<1>2. /\ tree' = [tree EXCEPT ![p] = Len(refs'[p])] /\ todo' = todo /\ packed' = packed
      /\ recs' = recs /\ buffer' = buffer /\ todo[p] = <<>> /\ NodeTypes /\ Memory(p)
  BY DEF Edit, Idle, vars, file, NInv
<1>3. /\ rs \in Seq(Ref) /\ DOMAIN rs = 1..n /\ n \in Nat /\ m \in Nat
      /\ \A i \in 1..n : rs[i] \in Ref /\ rs[i].kids \in Seq(Nat)
      /\ made \in Nat /\ made' \in Nat /\ made <= made'
  BY <1>2, InMemoryTypes DEF NodeTypes
<1>4. /\ T \in Seq(Ref) /\ Len(T) = n + m /\ DOMAIN T = 1..n + m
      /\ \A i \in 1..n : T[i] = rs[i]
      /\ \A j \in 1..m : T[n + j] = new[j]
      /\ \A i \in 1..n + m : i \in 1..n \/ \E j \in 1..m : i = n + j
  BY <1>3, Joined
<1>5. refs' = [refs EXCEPT ![p] = T] /\ refs'[p] = T
  BY <1>2 DEF NodeTypes
<1> HIDE DEF T, m, n
<1>6. n = Len(refs[p]) /\ m = Len(new)
  BY DEF n, m
<1>7. NodeTypes'
  <2>1. refs' \in [Procs -> Seq(Ref)]
    BY <1>2, <1>4, <1>5 DEF NodeTypes
  <2>2. tree' \in [Procs -> Nat] /\ tree'[p] = Len(refs'[p])
    BY <1>2, <1>3, <1>4, <1>5 DEF NodeTypes
  <2>3. tree'[p] <= Len(refs'[p])
    BY <1>3, <1>4, <1>5, <2>2
  <2>4. \A q \in Procs \ {p} : tree'[q] <= Len(refs'[q])
    BY <1>1, <1>2 DEF NodeTypes, Still
  <2> QED
    BY <1>2, <1>3, <2>1, <2>2, <2>3, <2>4 DEF NodeTypes
<1>8. \A k \in 0..n : AddrOf(T, k) = AddrOf(rs, k) /\ (Unstored(T, k) <=> Unstored(rs, k))
  <2> SUFFICES ASSUME NEW k \in 0..n
               PROVE  AddrOf(T, k) = AddrOf(rs, k) /\ (Unstored(T, k) <=> Unstored(rs, k))
    OBVIOUS
  <2>1. k = 0 \/ T[k] = rs[k]
    BY <1>3, <1>4
  <2> QED
    BY <2>1 DEF AddrOf, Unstored
<1>9. Memory(p)'
  <2> SUFFICES ASSUME NEW i \in DOMAIN T PROVE RefGood(p, i)'
    BY <1>5 DEF Memory
  <2>1. CASE i \in 1..n
    <3>1. RefGood(p, i) /\ rs[i] \in Ref /\ T[i] = rs[i]
      BY <1>2, <1>3, <1>4, <2>1 DEF Memory
    <3>2. \A j \in DOMAIN rs[i].kids : rs[i].kids[j] \in 0..n
      BY <1>3, <1>6, <2>1, RefFacts
    <3>3. KidAddrs(T, rs[i]) = KidAddrs(rs, rs[i])
      BY <1>8, <3>2 DEF KidAddrs
    <3>4. \A j \in DOMAIN rs[i].kids : /\ rs[i].kids[j] <= n + m
                                       /\ Unstored(T, rs[i].kids[j]) <=> Unstored(rs, rs[i].kids[j])
      BY <1>3, <1>8, <3>2
    <3>5. rs[i].thing <= made'
      BY <1>3, <3>1 DEF RefGood, Ref
    <3> QED
      BY <1>1, <1>2, <1>4, <1>5, <3>1, <3>3, <3>4, <3>5 DEF RefGood
  <2>2. CASE i \notin 1..n
    <3>1. PICK j \in 1..m : i = n + j
      BY <1>4, <2>2
    <3>2. T[i] = new[j] /\ new[j] \in Ref
      BY <1>4, <1>6, <3>1, ElementOfSeq
    <3>3. new[j].kids \in Seq(Nat) /\ new[j].addr = 0 /\ new[j].thing = made + j
      BY <1>6, <3>1, <3>2 DEF Ref
    <3>4. \A k \in DOMAIN new[j].kids : new[j].kids[k] \in Nat /\ new[j].kids[k] < i
      BY <1>6, <3>1, <3>3, ElementOfSeq
    <3>5. \A k \in DOMAIN new[j].kids : new[j].kids[k] <= n + m
      BY <1>3, <3>1, <3>4
    <3>6. made + j <= made'
      BY <1>3, <1>6, <3>1
    <3> QED
      BY <1>4, <1>5, <3>2, <3>3, <3>4, <3>5, <3>6 DEF RefGood
  <2> QED
    BY <2>1, <2>2
<1>10. Calls(p)'
  BY <1>2 DEF Calls
\* What is not stored is an old reference, of a thing that was made, or a new one.
<1>11. ASSUME NEW q \in Procs, NEW i \in DOMAIN refs'[q], Unstored(refs[q], i)'
       PROVE  \/ /\ i \in DOMAIN refs[q] /\ Unstored(refs[q], i)
                 /\ refs'[q][i] = refs[q][i] /\ refs[q][i].thing \in 0..made
              \/ q = p /\ \E j \in 1..m : i = n + j /\ refs'[q][i].thing = made + j
  <2>1. CASE q # p
    <3>1. refs'[q] = refs[q]
      BY <1>1, <2>1 DEF Still
    <3>2. refs[q][i].thing \in 0..made
      BY <1>11, <3>1, RefFacts
    <3> QED
      BY <1>11, <3>1, <3>2 DEF Unstored
  <2>2. CASE q = p /\ i \in 1..n
    <3>1. refs'[q] = T /\ T[i] = rs[i] /\ i \in DOMAIN rs /\ i \in 0..n
      BY <1>3, <1>4, <1>5, <2>2
    <3>2. Unstored(rs, i)
      BY <1>8, <1>11, <3>1
    <3>3. rs[i].thing \in 0..made
      BY <3>1, RefFacts
    <3> QED
      BY <2>2, <3>1, <3>2, <3>3
  <2>3. CASE q = p /\ i \notin 1..n
    <3>1. i \in 1..n + m
      BY <1>4, <1>5, <2>3
    <3>2. PICK j \in 1..m : i = n + j
      BY <1>4, <2>3, <3>1
    <3>3. refs'[q][i].thing = made + j
      BY <1>4, <1>5, <1>6, <2>3, <3>2
    <3> QED
      BY <2>3, <3>2, <3>3
  <2> QED
    BY <2>1, <2>2, <2>3
<1>12. \A q \in Procs : InFile(q)' = InFile(q)
  BY <1>2 DEF InFile
<1>13. AllFresh'
  <2> SUFFICES ASSUME NEW q \in Procs, NEW i \in DOMAIN refs'[q], Unstored(refs[q], i)'
               PROVE  Fresh(q, i)'
    BY DEF AllFresh
  <2>1. \A o \in Procs : Lacks(InFile(o), refs[q][i].thing)'
    <3> SUFFICES ASSUME NEW o \in Procs, NEW a \in DOMAIN InFile(o), InFile(o)[a].whole
                 PROVE  packed[a].thing # refs'[q][i].thing
      BY <1>2, <1>12 DEF Lacks
    <3>1. a \in 1..MaxRecords /\ packed[a].thing <= made
      BY DEF NInv, Encodes
    <3>2. packed[a].thing \in Nat
      BY <1>2, <3>1 DEF NodeTypes, Packed
    <3>3. CASE i \in DOMAIN refs[q] /\ Unstored(refs[q], i) /\ refs'[q][i] = refs[q][i]
      BY <3>3 DEF NInv, AllFresh, Fresh, Lacks
    <3>4. CASE \E j \in 1..m : refs'[q][i].thing = made + j
      BY <1>3, <3>1, <3>2, <3>4
    <3> QED
      BY <1>11, <3>3, <3>4
  <2>2. ASSUME NEW o \in Procs, NEW j \in DOMAIN refs'[o], Unstored(refs[o], j)',
               refs'[o][j].thing = refs'[q][i].thing
        PROVE  o = q /\ j = i
    <3>1. \/ /\ i \in DOMAIN refs[q] /\ Unstored(refs[q], i)
             /\ refs'[q][i] = refs[q][i] /\ refs[q][i].thing \in 0..made
          \/ q = p /\ \E k \in 1..m : i = n + k /\ refs'[q][i].thing = made + k
      BY <1>11
    <3>2. \/ /\ j \in DOMAIN refs[o] /\ Unstored(refs[o], j)
             /\ refs'[o][j] = refs[o][j] /\ refs[o][j].thing \in 0..made
          \/ o = p /\ \E k \in 1..m : j = n + k /\ refs'[o][j].thing = made + k
      BY <1>11, <2>2
    <3>3. CASE /\ i \in DOMAIN refs[q] /\ Unstored(refs[q], i) /\ refs'[q][i] = refs[q][i]
               /\ j \in DOMAIN refs[o] /\ Unstored(refs[o], j) /\ refs'[o][j] = refs[o][j]
      <4>1. Fresh(q, i) /\ refs[o][j].thing = refs[q][i].thing
        BY <2>2, <3>3 DEF NInv, AllFresh
      <4> QED
        BY <3>3, <4>1 DEF Fresh
    <3>4. CASE /\ q = p /\ o = p
               /\ \E k \in 1..m : i = n + k /\ refs'[q][i].thing = made + k
               /\ \E k \in 1..m : j = n + k /\ refs'[o][j].thing = made + k
      <4>1. PICK k \in 1..m : i = n + k /\ refs'[q][i].thing = made + k
        BY <3>4
      <4>2. PICK h \in 1..m : j = n + h /\ refs'[o][j].thing = made + h
        BY <3>4
      <4>3. k = h
        <5>1. made + k = made + h
          BY <2>2, <4>1, <4>2
        <5> QED
          BY <1>3, <5>1
      <4> QED
        BY <3>4, <4>1, <4>2, <4>3
    <3>5. ASSUME NEW x \in 0..made, NEW k \in 1..m PROVE x # made + k
      BY <1>3
    <3> QED
      BY <2>2, <3>1, <3>2, <3>3, <3>4, <3>5
  <2> QED
    BY <2>1, <2>2 DEF Fresh
<1> QED
  BY <1>1, <1>2, <1>3, <1>7, <1>9, <1>10, <1>13, NoNewsStep

LEMMA EditStep ==
    ASSUME NInv, NEW p \in Procs, Edit(p)
    PROVE  NInv'
<1> DEFINE n == Len(refs[p])
           full == {k \in 1..n : refs[p][k].thing # 0}
<1>1. n \in Nat /\ made \in Nat /\ refs[p] \in Seq(Ref) /\ refs \in [Procs -> Seq(Ref)]
  BY InMemoryTypes DEF NInv, NodeTypes
<1>2. \/ /\ \E k \in {0} \cup full :
               refs' = [refs EXCEPT ![p] =
                   @ \o <<Made(made + 1, <<>>), Made(made + 2, <<n + 1, k>>)>>]
         /\ made' = made + 2
      \/ /\ \E j, k \in full :
               refs' = [refs EXCEPT ![p] = Append(@, Made(made + 1, <<j, k>>))]
         /\ made' = made + 1
  BY DEF Edit
<1>3. full \subseteq 1..n
  OBVIOUS
<1> HIDE DEF full, n
<1>n. n = Len(refs[p])
  BY DEF n
<1>4. ASSUME NEW k \in {0} \cup full, made' = made + 2,
             refs' = [refs EXCEPT ![p] =
                 @ \o <<Made(made + 1, <<>>), Made(made + 2, <<n + 1, k>>)>>]
      PROVE  NInv'
  <2> DEFINE x == Made(made + 1, <<>>)
             y == Made(made + 2, <<n + 1, k>>)
             new == <<x, y>>
  <2>1. k \in 0..n /\ <<>> \in Seq(Nat) /\ <<n + 1, k>> \in Seq(Nat)
    BY <1>1, <1>3
  <2>2. /\ x \in Ref /\ x.thing = made + 1 /\ x.addr = 0 /\ x.kids = <<>>
        /\ y \in Ref /\ y.thing = made + 2 /\ y.addr = 0 /\ y.kids = <<n + 1, k>>
    BY <1>1, <2>1 DEF Made, Ref
  <2> HIDE DEF x, y
  <2>3. new \in Seq(Ref) /\ Len(new) = 2 /\ new[1] = x /\ new[2] = y
    BY <2>2
  <2>4. \A i \in DOMAIN y.kids : y.kids[i] < n + 2
    BY <1>1, <2>1, <2>2
  <2>5. DOMAIN x.kids = {}
    BY <2>2
  <2>6. \A j \in 1..Len(new) :
           /\ new[j].thing = made + j /\ new[j].addr = 0
           /\ \A i \in DOMAIN new[j].kids : new[j].kids[i] < n + j
    <3>1. \A j \in 1..Len(new) : j = 1 \/ j = 2
      BY <2>3
    <3> QED
      BY <2>2, <2>3, <2>4, <2>5, <3>1
  <2>7. refs' = [refs EXCEPT ![p] = @ \o new] /\ made' = made + Len(new)
    BY <1>4, <2>3 DEF x, y
  <2> HIDE DEF new
  <2> QED
    BY <1>n, <2>3, <2>6, <2>7, NewThings
<1>5. ASSUME NEW j \in full, NEW k \in full, made' = made + 1,
             refs' = [refs EXCEPT ![p] = Append(@, Made(made + 1, <<j, k>>))]
      PROVE  NInv'
  <2> DEFINE x == Made(made + 1, <<j, k>>)
             new == <<x>>
  <2>1. j \in 1..n /\ k \in 1..n /\ <<j, k>> \in Seq(Nat)
    BY <1>1, <1>3
  <2>2. x \in Ref /\ x.thing = made + 1 /\ x.addr = 0 /\ x.kids = <<j, k>>
    BY <1>1, <2>1 DEF Made, Ref
  <2> HIDE DEF x
  <2>3. new \in Seq(Ref) /\ Len(new) = 1 /\ new[1] = x
    BY <2>2
  <2>4. \A i \in DOMAIN x.kids : x.kids[i] < n + 1
    BY <1>1, <2>1, <2>2
  <2>5. \A h \in 1..Len(new) :
           /\ new[h].thing = made + h /\ new[h].addr = 0
           /\ \A i \in DOMAIN new[h].kids : new[h].kids[i] < n + h
    <3>1. \A h \in 1..Len(new) : h = 1
      BY <2>3
    <3> QED
      BY <2>2, <2>3, <2>4, <3>1
  <2>6. Append(refs[p], x) = refs[p] \o new
    BY <1>1, <2>2
  <2>7. refs' = [refs EXCEPT ![p] = @ \o new] /\ made' = made + Len(new)
    BY <1>1, <1>5, <2>3, <2>6 DEF x
  <2> HIDE DEF new
  <2> QED
    BY <1>n, <2>3, <2>5, <2>7, NewThings
<1> QED
  BY <1>2, <1>4, <1>5

\* A node gets its record: the only step that adds one, and it is the only one
\* of its thing, which no record had and no other reference stands for.
LEMMA StoreNodeStep ==
    ASSUME NInv, NEW p \in Procs, StoreNode(p)
    PROVE  NInv'
<1> DEFINE s == todo[p]
           r == Head(s).ref
           rs == refs[p]
           n == Len(rs)
           ks == rs[r].kids
           at == KidAddrs(rs, rs[r])
           S == {at[i] : i \in DOMAIN at} \ {0}
           L == InFile(p)
           a == Len(L) + 1
           new == [whole |-> TRUE, refs |-> S]
           T == [rs EXCEPT ![r].addr = a]
<1>1. Inv' /\ Inv /\ NodeTypes /\ \A q \in Procs \ {p} : Still(q)
  BY StorageKept, OthersStill DEF NNext, NInv
<1>2. /\ Prepared(p) /\ tree' = tree /\ made' = made
      /\ refs' = [refs EXCEPT ![p][r].addr = Len(recs) + Len(buffer[p].recs) + 1]
      /\ packed' = [packed EXCEPT ![Len(recs) + Len(buffer[p].recs) + 1] =
                       [thing |-> rs[r].thing, kids |-> at]]
      /\ todo' = [todo EXCEPT ![p] = Tail(s)]
  BY DEF StoreNode
<1>3. /\ r \in DOMAIN rs /\ Unstored(rs, r) /\ pc[p] = "idle" /\ r = s[1].ref /\ Len(s) > 1
      /\ \A j \in DOMAIN ks : ks[j] < r /\ ks[j] \in 0..n /\ ~Unstored(rs, ks[j])
  BY <1>2, ReadyToWrite
<1>4. WriteRecord(p, S) /\ S \in SUBSET Nat /\ at \in Seq(Nat)
  BY StoreNodeWrites
<1>5. /\ a \in 1..MaxRecords /\ known'[p] = known[p] \cup {a}
      /\ \A q \in Procs : a \notin known[q]
      /\ \A q \in Procs \ {p} : InFile(q)' = L
      /\ InFile(p)' = L \o <<new>>
      /\ a = Len(recs) + Len(buffer[p].recs) + 1
  BY <1>1, <1>4, WriteNews
<1>6. pc' = pc
  BY <1>4 DEF WriteRecord
<1>7. L \in Seq(Record) /\ DOMAIN L = 1..Len(L) /\ Len(L) \in Nat
  BY <1>1, FileSeen, LenProperties
<1>8. /\ rs \in Seq(Ref) /\ DOMAIN rs = 1..n /\ n \in Nat /\ rs[r] \in Ref /\ made \in Nat
      /\ rs[r].addr = 0 /\ rs[r].loaded /\ rs[r].thing \in 0..made /\ s \in Seq(Call)
  BY <1>1, <1>3, InMemoryTypes, RefFacts DEF NodeTypes
<1> HIDE DEF S, at, ks, a, L, n
<1>9. /\ a \in Nat /\ a # 0 /\ a = Len(L) + 1 /\ at = KidAddrs(rs, rs[r]) /\ ks = rs[r].kids
      /\ n = Len(refs[p])
  BY <1>5, <1>7 DEF a, at, ks, n
<1>10. refs' = [refs EXCEPT ![p] = T] /\ refs'[p] = T
  BY <1>1, <1>2, <1>5 DEF NodeTypes
<1>a. r = Head(todo[p]).ref /\ s = todo[p]
  OBVIOUS
<1> HIDE DEF r, s
<1>11. /\ T \in Seq(Ref) /\ Len(T) = n /\ DOMAIN T = 1..n
       /\ T[r] \in Ref /\ T[r] = [rs[r] EXCEPT !.addr = a]
       /\ T[r].addr = a /\ T[r].kids = ks /\ T[r].thing = rs[r].thing /\ T[r].loaded
       /\ \A i \in 1..n \ {r} : T[i] = rs[i]
  <2>1. [rs[r] EXCEPT !.addr = a] \in Ref
    BY <1>8, <1>9 DEF Ref
  <2>2. T = [rs EXCEPT ![r] = [rs[r] EXCEPT !.addr = a]]
    OBVIOUS
  <2>3. T \in Seq(Ref) /\ Len(T) = n
    <3>1. r \in 1..n /\ n = Len(rs)
      BY <1>3, <1>8, <1>9
    <3> QED
      BY <1>8, <2>1, <2>2, <3>1
  <2>4. T[r] = [rs[r] EXCEPT !.addr = a] /\ \A i \in 1..n \ {r} : T[i] = rs[i]
    BY <1>3, <1>8, <2>2
  <2> QED
    BY <1>8, <1>9, <2>1, <2>3, <2>4, LenProperties DEF Ref
<1> HIDE DEF T
\* References of the node are below it, so they have the addresses they had.
<1>12. /\ \A k \in 0..n : k # r => AddrOf(T, k) = AddrOf(rs, k)
       /\ \A k \in 0..n : Unstored(T, k) <=> k # r /\ Unstored(rs, k)
  <2> SUFFICES ASSUME NEW k \in 0..n
               PROVE  /\ k # r => AddrOf(T, k) = AddrOf(rs, k)
                      /\ Unstored(T, k) <=> k # r /\ Unstored(rs, k)
    OBVIOUS
  <2>1. CASE k = r
    BY <1>9, <1>11, <2>1 DEF Unstored
  <2>2. CASE k # r
    <3>1. k = 0 \/ T[k] = rs[k]
      BY <1>8, <1>11, <2>2
    <3> QED
      BY <2>2, <3>1 DEF Unstored, AddrOf
  <2> QED
    BY <2>1, <2>2
<1>13. /\ packed' \in [1..MaxRecords -> Packed]
       /\ packed'[a] = [thing |-> rs[r].thing, kids |-> at]
       /\ \A b : b # a => packed'[b] = packed[b]
  <2>1. [thing |-> rs[r].thing, kids |-> at] \in Packed
    BY <1>4, <1>8 DEF Packed
  <2>2. packed' = [packed EXCEPT ![a] = [thing |-> rs[r].thing, kids |-> at]]
    BY <1>2, <1>5, <1>9
  <2> QED
    BY <1>1, <1>5, <2>1, <2>2 DEF NodeTypes
<1>14. NodeTypes'
  <2>1. refs' \in [Procs -> Seq(Ref)]
    BY <1>1, <1>10, <1>11 DEF NodeTypes
  <2>2. todo' \in [Procs -> Seq(Call)]
    <3>1. Tail(s) \in Seq(Call)
      BY <1>a, <1>2, <1>8, Popped DEF Prepared
    <3>2. todo \in [Procs -> Seq(Call)]
      BY <1>1 DEF NodeTypes
    <3> QED
      BY <1>2, <3>1, <3>2
  <2>3. \A q \in Procs : tree'[q] <= Len(refs'[q])
    BY <1>1, <1>2, <1>9, <1>10, <1>11 DEF NodeTypes, Still
  <2> QED
    BY <1>1, <1>2, <1>13, <2>1, <2>2, <2>3 DEF NodeTypes
<1>15. Memory(p)'
  <2> SUFFICES ASSUME NEW i \in 1..n PROVE RefGood(p, i)'
    BY <1>10, <1>11 DEF Memory
  <2>1. CASE i = r
    <3>1. KidAddrs(T, T[r]) = at
      <4>1. \A j \in DOMAIN ks : ks[j] # r /\ AddrOf(T, ks[j]) = AddrOf(rs, ks[j])
        BY <1>3, <1>12
      <4>2. at = [j \in DOMAIN ks |-> AddrOf(rs, ks[j])]
        BY <1>9 DEF KidAddrs
      <4>3. KidAddrs(T, T[r]) = [j \in DOMAIN ks |-> AddrOf(T, ks[j])]
        BY <1>11 DEF KidAddrs
      <4> QED
        BY <4>1, <4>2, <4>3
    <3>2. \A j \in DOMAIN ks : ks[j] <= n /\ ~Unstored(T, ks[j])
      BY <1>3, <1>8, <1>12
    <3>3. a \in known'[p] /\ packed'[a].thing = rs[r].thing /\ packed'[a].kids = at
      BY <1>5, <1>13
    <3>a. /\ refs'[p] = T /\ refs'[p][i] = T[r] /\ Len(T) = n /\ a # 0
          /\ T[r].addr = a /\ T[r].kids = ks /\ T[r].thing = rs[r].thing
      BY <1>9, <1>10, <1>11, <2>1
    <3>4. rs[r].thing <= made'
      BY <1>2, <1>8
    <3> QED
      BY <3>a, <3>1, <3>2, <3>3, <3>4 DEF RefGood
  <2>2. CASE i # r
    <3>1. T[i] = rs[i] /\ i \in DOMAIN rs
      BY <1>8, <1>11, <2>2
    <3>2. RefGood(p, i) /\ \A j \in DOMAIN rs[i].kids : rs[i].kids[j] \in 0..n
      BY <1>9, <3>1, RefFacts
    <3>3. rs[i].addr # 0 =>
            /\ rs[i].addr \in known'[p] /\ rs[i].addr # a
            /\ packed'[rs[i].addr] = packed[rs[i].addr]
      BY <1>5, <1>13, <3>2 DEF RefGood
    <3>4. rs[i].addr # 0 /\ rs[i].loaded =>
            \A j \in DOMAIN rs[i].kids : ~Unstored(rs, rs[i].kids[j]) /\ rs[i].kids[j] # r
      BY <1>3, <3>2 DEF RefGood
    <3>5. rs[i].addr # 0 /\ rs[i].loaded =>
            /\ KidAddrs(T, rs[i]) = KidAddrs(rs, rs[i])
            /\ \A j \in DOMAIN rs[i].kids : ~Unstored(T, rs[i].kids[j])
      BY <1>12, <3>2, <3>4 DEF KidAddrs
    <3>6. \A j \in DOMAIN rs[i].kids :
             rs[i].kids[j] <= n /\ (rs[i].addr = 0 => rs[i].kids[j] < i)
      BY <1>9, <3>2 DEF RefGood
    <3>7. refs'[p] = T /\ refs'[p][i] = rs[i] /\ Len(T) = n
      BY <1>10, <1>11, <3>1
    <3>8. rs[i].thing <= made' /\ (rs[i].addr # 0 => packed[rs[i].addr].thing = rs[i].thing)
      BY <1>2, <3>2 DEF RefGood
    <3>9. rs[i].addr # 0 /\ rs[i].loaded => packed[rs[i].addr].kids = KidAddrs(rs, rs[i])
      BY <3>2 DEF RefGood
    <3> QED
      BY <3>3, <3>5, <3>6, <3>7, <3>8, <3>9 DEF RefGood
  <2> QED
    BY <2>1, <2>2
<1>16. Calls(p)'
  <2> DEFINE t == Tail(s)
             m == Len(t)
  <2>1. /\ t \in Seq(Call) /\ Len(t) = Len(s) - 1 /\ m \in Nat \ {0}
        /\ \A i \in 1..m : t[i] = s[i + 1]
    <3>1. Len(s) \in Nat /\ s # <<>>
      BY <1>3, <1>8
    <3>2. /\ t \in Seq(Call) /\ Len(t) = Len(s) - 1
          /\ \A i \in 1..Len(s) - 1 : t[i] = s[i + 1]
      BY <1>8, <3>1, Popped
    <3> HIDE DEF t
    <3> QED
      BY <1>3, <3>1, <3>2
  <2>2. todo'[p] = t /\ tree'[p] = tree[p] /\ pc'[p] = "idle"
    BY <1>1, <1>2, <1>3, <1>6 DEF NodeTypes
  <2>3. /\ s[Len(s)] = Committing /\ s[Len(s) - 1].ref = tree[p]
        /\ \A i \in 1..Len(s) - 1 : CallGood(p, i)
    BY <1>a, <1>3, <1>8 DEF NInv, Calls
  <2> HIDE DEF t, m
  <2>4. Len(s) = m + 1 /\ Len(t) = m
    <3>1. Len(t) = Len(s) - 1 /\ m = Len(t) /\ Len(s) \in Nat
      BY <1>8, <2>1 DEF m
    <3> QED
      BY <2>1, <3>1
  <2>5. t[m] = Committing /\ (m > 1 => t[m - 1].ref = tree[p])
    <3>1. t[m] = s[m + 1]
      BY <2>1
    <3>2. m > 1 => t[m - 1] = s[(m - 1) + 1] /\ (m - 1) + 1 = (m + 1) - 1
      BY <2>1
    <3> QED
      BY <2>3, <2>4, <3>1, <3>2
  <2>6. m = 1 => ~Unstored(T, tree[p])
    <3>1. m = 1 => tree[p] = r
      BY <1>3, <2>3, <2>4
    <3> QED
      BY <1>9, <1>11, <3>1 DEF Unstored
  <2>7. ASSUME NEW i \in 1..m - 1 PROVE CallGood(p, i)'
    <3> DEFINE c == t[i]
    <3>1. /\ CallGood(p, i + 1) /\ c = s[i + 1] /\ i + 1 \in 2..(m + 1) - 1 /\ i \in 1..m
      BY <2>1, <2>3, <2>4
    <3>2. /\ c.ref \in DOMAIN rs /\ Unstored(rs, c.ref)
          /\ \A h \in 1..(i + 1) - 1 : s[h].ref < c.ref
          /\ \A j \in DOMAIN rs[c.ref].kids :
                j < c.kid /\ Unstored(rs, rs[c.ref].kids[j]) =>
                   rs[c.ref].kids[j] = s[(i + 1) - 1].ref
      BY <1>a, <3>1 DEF CallGood
    <3> HIDE DEF c
    <3>3. (i + 1) - 1 = i /\ i \in Nat
      OBVIOUS
    <3>4. r < c.ref
      BY <1>3, <3>2, <3>3
    <3>5. c.ref # r
      BY <1>3, <1>8, <3>4
    <3>6. /\ c.ref \in DOMAIN T /\ Unstored(T, c.ref) /\ T[c.ref] = rs[c.ref]
      BY <1>8, <1>11, <1>12, <3>2, <3>5
    <3>7. \A h \in 1..i - 1 : t[h].ref < c.ref
      <4> SUFFICES ASSUME NEW h \in 1..i - 1 PROVE t[h].ref < c.ref
        OBVIOUS
      <4>1. h \in 1..m /\ h + 1 \in 1..(i + 1) - 1
        BY <2>1
      <4>2. t[h] = s[h + 1]
        BY <2>1, <4>1
      <4> QED
        BY <3>2, <4>1, <4>2
    <3>8. \A j \in DOMAIN rs[c.ref].kids :
             j < c.kid /\ Unstored(T, rs[c.ref].kids[j]) =>
                i > 1 /\ rs[c.ref].kids[j] = t[i - 1].ref
      <4> SUFFICES ASSUME NEW j \in DOMAIN rs[c.ref].kids,
                          j < c.kid, Unstored(T, rs[c.ref].kids[j])
                   PROVE  i > 1 /\ rs[c.ref].kids[j] = t[i - 1].ref
        OBVIOUS
      <4>1. rs[c.ref].kids[j] \in 0..n
        BY <1>9, <3>2, RefFacts
      <4>2. rs[c.ref].kids[j] # r /\ Unstored(rs, rs[c.ref].kids[j])
        BY <1>12, <4>1
      <4>3. rs[c.ref].kids[j] = s[i].ref
        BY <3>2, <3>3, <4>2
      <4>4. i # 1
        BY <1>3, <4>2, <4>3
      <4>5. i > 1 /\ i - 1 \in 1..m /\ (i - 1) + 1 = i
        BY <2>1, <3>3, <4>4
      <4>6. t[i - 1] = s[i]
        BY <2>1, <4>5
      <4> QED
        BY <4>3, <4>5, <4>6
    <3> QED
      BY <1>10, <2>2, <3>6, <3>7, <3>8 DEF CallGood, c
  <2> QED
    BY <1>10, <2>1, <2>2, <2>4, <2>5, <2>6, <2>7 DEF Calls
\* The records that were there, of other things, and the new one.
<1>17. \A b \in DOMAIN L : L[b].whole =>
          /\ b \in 1..MaxRecords /\ b # a /\ packed'[b] = packed[b]
          /\ L[b].refs = {packed[b].kids[i] : i \in DOMAIN packed[b].kids} \ {0}
          /\ packed[b].thing <= made /\ packed[b].thing # rs[r].thing
  <2>1. Encodes(L)
    BY DEF NInv, L
  <2>2. Lacks(L, rs[r].thing)
    BY <1>3 DEF NInv, AllFresh, Fresh, L
  <2>3. \A b \in DOMAIN L : b # a
    BY <1>7, <1>9
  <2> QED
    BY <1>13, <2>1, <2>2, <2>3 DEF Encodes, Lacks
<1>18. ASSUME NEW q \in Procs, NEW b \in DOMAIN InFile(q)', InFile(q)'[b].whole
       PROVE  \/ b \in DOMAIN L /\ InFile(q)'[b] = L[b]
              \/ b = a /\ InFile(q)'[b] = new
  <2>1. CASE q # p
    BY <1>5, <2>1
  <2>2. CASE q = p
    <3>1. new \in Record
      BY <1>4 DEF Record
    <3> HIDE DEF new
    <3>2. <<new>> \in Seq(Record) /\ Len(<<new>>) = 1 /\ <<new>>[1] = new
      BY <3>1
    <3> DEFINE N == L \o <<new>>
    <3>3. /\ N \in Seq(Record) /\ Len(N) = Len(L) + 1
          /\ \A i \in 1..Len(L) + 1 : N[i] = IF i <= Len(L) THEN L[i] ELSE <<new>>[i - Len(L)]
      BY <1>7, <3>2, ConcatProperties
    <3>4. InFile(q)' = N
      BY <1>5, <2>2
    <3> HIDE DEF N
    <3>5. b \in 1..Len(L) + 1
      BY <1>18, <3>3, <3>4, LenProperties
    <3>6. CASE b <= Len(L)
      BY <1>7, <3>3, <3>4, <3>5, <3>6
    <3>7. CASE ~(b <= Len(L))
      <4>1. b = a /\ b - Len(L) = 1
        BY <1>7, <1>9, <3>5, <3>7
      <4> QED
        BY <3>2, <3>3, <3>4, <3>5, <3>7, <4>1
    <3> QED
      BY <3>6, <3>7
  <2> QED
    BY <2>1, <2>2
<1>19. ASSUME NEW q \in Procs PROVE Encodes(InFile(q))' /\ Distinct(InFile(q))'
  <2>1. S = {at[i] : i \in DOMAIN at} \ {0} /\ new.refs = S /\ rs[r].thing <= made
    BY <1>8 DEF S
  <2>2. Encodes(InFile(q))'
    <3> SUFFICES ASSUME NEW b \in DOMAIN InFile(q)', InFile(q)'[b].whole
                 PROVE  /\ b \in 1..MaxRecords
                        /\ InFile(q)'[b].refs =
                              {packed'[b].kids[i] : i \in DOMAIN packed'[b].kids} \ {0}
                        /\ packed'[b].thing <= made'
      BY DEF Encodes
    <3>1. CASE b \in DOMAIN L /\ InFile(q)'[b] = L[b]
      BY <1>2, <1>17, <3>1
    <3>2. CASE b = a /\ InFile(q)'[b] = new
      <4>1. packed'[b].kids = at /\ packed'[b].thing = rs[r].thing
        BY <1>13, <3>2
      <4> QED
        BY <1>2, <1>5, <2>1, <3>2, <4>1
    <3> QED
      BY <1>18, <3>1, <3>2
  <2>3. Distinct(InFile(q))'
    <3> SUFFICES ASSUME NEW b \in DOMAIN InFile(q)', NEW c \in DOMAIN InFile(q)',
                        InFile(q)'[b].whole, InFile(q)'[c].whole,
                        packed'[b].thing = packed'[c].thing
                 PROVE  b = c
      BY DEF Distinct
    <3>1. /\ (b \in DOMAIN L /\ L[b].whole) \/ b = a
          /\ (c \in DOMAIN L /\ L[c].whole) \/ c = a
      BY <1>18
    <3>2. ASSUME NEW d \in DOMAIN L, L[d].whole PROVE packed'[d].thing # packed'[a].thing
      BY <1>13, <1>17, <3>2
    <3>3. CASE b \in DOMAIN L /\ L[b].whole /\ c \in DOMAIN L /\ L[c].whole
      BY <1>17, <3>3 DEF NInv, Distinct, L
    <3> QED
      BY <3>1, <3>2, <3>3
  <2> QED
    BY <2>2, <2>3
\* What is not stored yet was not before, and is not what was stored now.
<1>20. ASSUME NEW q \in Procs, NEW i \in DOMAIN refs'[q], Unstored(refs[q], i)'
       PROVE  /\ i \in DOMAIN refs[q] /\ Unstored(refs[q], i)
              /\ refs'[q][i].thing = refs[q][i].thing /\ ~(q = p /\ i = r)
  <2>1. CASE q # p
    BY <1>1, <1>20, <2>1 DEF Still
  <2>2. CASE q = p
    <3>1. i \in 1..n /\ i \in 0..n /\ Unstored(T, i)
      BY <1>10, <1>11, <1>20, <2>2
    <3>2. i # r /\ Unstored(rs, i)
      BY <1>12, <3>1
    <3> QED
      BY <1>8, <1>10, <1>11, <2>2, <3>1, <3>2
  <2> QED
    BY <2>1, <2>2
<1>21. AllFresh'
  <2> SUFFICES ASSUME NEW q \in Procs, NEW i \in DOMAIN refs'[q], Unstored(refs[q], i)'
               PROVE  Fresh(q, i)'
    BY DEF AllFresh
  <2>1. /\ i \in DOMAIN refs[q] /\ Unstored(refs[q], i)
        /\ refs'[q][i].thing = refs[q][i].thing /\ ~(q = p /\ i = r)
    BY <1>20
  <2>2. Fresh(q, i)
    BY <2>1 DEF NInv, AllFresh
  <2>3. refs[q][i].thing # rs[r].thing
    BY <1>3, <2>1, <2>2 DEF Fresh
  <2>4. Lacks(L, refs[q][i].thing)
    BY <2>2 DEF Fresh, L
  <2>5. \A o \in Procs : Lacks(InFile(o), refs[q][i].thing)'
    <3> SUFFICES ASSUME NEW o \in Procs, NEW b \in DOMAIN InFile(o)', InFile(o)'[b].whole
                 PROVE  packed'[b].thing # refs'[q][i].thing
      BY DEF Lacks
    <3>1. (b \in DOMAIN L /\ L[b].whole) \/ b = a
      BY <1>18
    <3>2. CASE b \in DOMAIN L /\ L[b].whole
      BY <1>17, <2>1, <2>4, <3>2 DEF Lacks
    <3>3. CASE b = a
      BY <1>13, <2>1, <2>3, <3>3
    <3> QED
      BY <3>1, <3>2, <3>3
  <2>6. ASSUME NEW o \in Procs, NEW j \in DOMAIN refs'[o], Unstored(refs[o], j)',
               refs'[o][j].thing = refs'[q][i].thing
        PROVE  o = q /\ j = i
    <3>1. /\ j \in DOMAIN refs[o] /\ Unstored(refs[o], j)
          /\ refs'[o][j].thing = refs[o][j].thing
      BY <1>20, <2>6
    <3> QED
      BY <2>1, <2>2, <2>6, <3>1 DEF Fresh
  <2> QED
    BY <2>5, <2>6 DEF Fresh
<1>22. ASSUME NEW q \in Procs \ {p} PROVE Memory(q)' /\ Calls(q)'
  <2>1. Memory(q) /\ Calls(q) /\ Still(q) /\ known'[q] = known[q]
    BY <1>1 DEF NInv, Still
  <2>2. \A b \in known[q] : packed'[b] = packed[b]
    BY <1>5, <1>13
  <2>3. refs'[q] = refs[q] /\ made' \in Nat /\ made <= made'
    BY <1>2, <1>8, <2>1 DEF Still
  <2> QED
    BY <2>1, <2>2, <2>3, MemoryKept, CallsKept
<1>23. StoredOnce'
  BY <1>1, <1>19, OnceInFile
<1> QED
  BY <1>1, <1>14, <1>15, <1>16, <1>19, <1>21, <1>22, <1>23 DEF NInv

(***************************************************************************)
(* The theorems.                                                           *)
(***************************************************************************)

LEMMA NInvInit == NInit => NInv
<1> SUFFICES ASSUME NInit PROVE NInv
  OBVIOUS
<1>1. Inv /\ recs = <<>> /\ \A p \in Procs : buffer[p].recs = <<>>
  BY InvInit DEF NInit, Init, EmptyBuffer
<1>2. \A p \in Procs : InFile(p) = <<>> /\ DOMAIN InFile(p) = {}
  <2>1. <<>> \o <<>> = <<>> /\ DOMAIN <<>> = {}
    OBVIOUS
  <2> QED
    BY <1>1, <2>1 DEF InFile
<1>3. \A p \in Procs : refs[p] = <<>> /\ todo[p] = <<>> /\ DOMAIN refs[p] = {}
  <2>1. \A p \in Procs : refs[p] = <<>> /\ todo[p] = <<>>
    BY DEF NInit
  <2>2. DOMAIN <<>> = {}
    OBVIOUS
  <2> QED
    BY <2>1, <2>2
<1>4. NodeTypes
  <2>1. Blank \in Packed
    BY DEF Blank, Packed
  <2>2. refs \in [Procs -> Seq(Ref)] /\ todo \in [Procs -> Seq(Call)]
    BY DEF NInit
  <2>3. tree \in [Procs -> Nat] /\ \A p \in Procs : tree[p] <= Len(refs[p])
    BY <1>3 DEF NInit
  <2> QED
    BY <2>1, <2>2, <2>3 DEF NInit, NodeTypes
<1>5. \A p \in Procs : Memory(p) /\ Calls(p)
  BY <1>3 DEF Memory, Calls
<1>6. \A p \in Procs : Encodes(InFile(p)) /\ Distinct(InFile(p))
  BY <1>2 DEF Encodes, Distinct
<1>7. AllFresh
  BY <1>3 DEF AllFresh
<1>8. StoredOnce
  BY <1>1 DEF StoredOnce
<1> QED
  BY <1>1, <1>4, <1>5, <1>6, <1>7, <1>8 DEF NInv

LEMMA NInvStep == NInv /\ [NNext]_nvars => NInv'
<1> SUFFICES ASSUME NInv, [NNext]_nvars PROVE NInv'
  OBVIOUS
<1>1. ASSUME NEW p \in Procs, Refresh(p) \/ Follow(p) \/ Edit(p) \/ StartCommit(p) \/ StoreKid(p)
      PROVE  NInv'
  BY <1>1, RefreshStep, FollowStep, EditStep, StartCommitStep, StoreKidStep
<1>2. ASSUME NEW p \in Procs, \/ StoreNode(p) \/ StoreRaises(p) \/ PublishTree(p)
                              \/ Beneath(p) \/ Vanish(p)
      PROVE  NInv'
  BY <1>2, StoreNodeStep, CommitStep, VanishStep
<1>3. ASSUME UNCHANGED nvars PROVE NInv'
  <2>1. Inv'
    BY <1>3, InvStep DEF nvars, NInv
  <2>2. /\ refs' = refs /\ tree' = tree /\ todo' = todo /\ packed' = packed /\ made' = made
        /\ recs' = recs /\ buffer' = buffer /\ known' = known /\ pc' = pc
        /\ NodeTypes /\ made' \in Nat /\ made <= made'
    BY <1>3 DEF nvars, memory, vars, file, NInv, NodeTypes
  <2>3. NodeTypes' /\ StoredOnce'
    BY <2>2 DEF NInv, NodeTypes, StoredOnce
  <2>4. NoNews
    BY <2>2, QuietNoNews DEF NInv
  <2>5. \A p \in Procs : Memory(p)' /\ Calls(p)'
    BY <2>2, MemoryKept, CallsKept DEF NInv, Still
  <2>6. \A p \in Procs : Encodes(InFile(p))' /\ Distinct(InFile(p))'
    BY <2>2, <2>4, RecordsKept
  <2>7. AllFresh'
    BY <2>2, <2>4, FreshKept
  <2> QED
    BY <2>1, <2>3, <2>5, <2>6, <2>7 DEF NInv
<1> QED
  BY <1>1, <1>2, <1>3 DEF NNext

LEMMA AlwaysNInv == NSpec => []NInv
BY NInvInit, NInvStep, PTL DEF NSpec

\* Storing trees keeps the promise of module Storage: store() writes a node when
\* all it refers to is stored, so each record refers to known ones.  With the
\* theorems of StorageProofs, trees survive power failures.
THEOREM StoringIsStorage == NSpec => KeepsStorage
<1>1. NInit => Init
  BY DEF NInit
<1>2. NInv /\ [NNext]_nvars => [Next]_vars
  BY StepsAreStorage
<1> QED
  BY <1>1, <1>2, AlwaysNInv, PTL DEF NSpec, KeepsStorage, Spec

\* A reference with an address is in the file with everything below it, also
\* after a commit that raised half-way, and the tree is when its root is next.
THEOREM AddressesHold == NSpec => []StoredWhole
<1>1. NInv => StoredWhole
  <2> SUFFICES ASSUME NInv, NEW p \in Procs
               PROVE  /\ \A i \in DOMAIN refs[p] :
                            LET r == refs[p][i] IN
                            r.addr # 0 =>
                                /\ r.addr \in DOMAIN InFile(p) /\ InFile(p)[r.addr].whole
                                /\ packed[r.addr].thing = r.thing
                                /\ r.loaded =>
                                    /\ packed[r.addr].kids = KidAddrs(refs[p], r)
                                    /\ \A j \in DOMAIN r.kids : ~Unstored(refs[p], r.kids[j])
                      /\ todo[p] = <<Committing>> => ~Unstored(refs[p], tree[p])
    BY DEF StoredWhole
  <2>1. \A i \in DOMAIN refs[p] : RefGood(p, i)
    BY DEF NInv, Memory
  <2>2. \A a \in known[p] : a \in DOMAIN InFile(p) /\ InFile(p)[a].whole
    BY FileSeen DEF NInv
  <2>3. todo[p] = <<Committing>> => ~Unstored(refs[p], tree[p])
    <3>1. Calls(p)
      BY DEF NInv
    <3>2. <<Committing>> # <<>> /\ Len(<<Committing>>) = 1
      OBVIOUS
    <3> QED
      BY <3>1, <3>2 DEF Calls
  <2> QED
    BY <2>1, <2>2, <2>3 DEF RefGood
<1> QED
  BY <1>1, AlwaysNInv, PTL

\* No thing has two records: a commit appends what is new, and one that is tried
\* again goes on where the failed one stopped.
THEOREM NothingStoredTwice == NSpec => []StoredOnce
<1>1. NInv => StoredOnce
  BY DEF NInv
<1> QED
  BY <1>1, AlwaysNInv, PTL
=============================================================================
