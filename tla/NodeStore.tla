----------------------------- MODULE NodeStore -----------------------------
(***************************************************************************)
(* The references of a tree in memory, and how a commit stores what they   *)
(* lead to: ValueRef.store and get (dbdb/logical.py), prepare_to_store of  *)
(* dbdb/binary_tree.py and dbdb/btree.py, on top of module Storage.        *)
(*                                                                         *)
(* Values and nodes are alike here: things with a reference, which refer   *)
(* to others.  What a tree algorithm does is to make new ones that refer   *)
(* to old ones; which ones is left open, so any such algorithm is covered. *)
(***************************************************************************)
EXTENDS Storage

CONSTANTS MaxRefs, MaxMade   \* bounds: references in memory, things made

VARIABLES
    refs,    \* refs[p]: the references p has in memory, by number
    tree,    \* tree[p]: the number of _tree_ref, 0 for an empty tree
    todo,    \* todo[p]: the calls of the commit under way, the innermost first
    packed,  \* packed[a]: the thing that record a encodes
    made     \* how many things were ever made, which names them

memory == <<refs, tree, todo>>
nvars == <<vars, memory, packed, made>>

\* A reference has an address once it is stored, and a referent unless it was
\* read from a record and not followed, or is empty; kids are the numbers of the
\* references in the referent, 0 for an empty one that was made there.
Unloaded(a) ==
    [thing |-> IF a = 0 THEN 0 ELSE packed[a].thing,
     addr |-> a, loaded |-> FALSE, kids |-> <<>>]

Made(n, ks) == [thing |-> n, addr |-> 0, loaded |-> TRUE, kids |-> ks]

AddrOf(rs, k) == IF k = 0 THEN 0 ELSE rs[k].addr

\* referent_to_bytes: the addresses of what a node refers to.
KidAddrs(rs, r) == [i \in DOMAIN r.kids |-> AddrOf(rs, r.kids[i])]

Blank == [thing |-> 0, kids |-> <<>>]

Idle(p) == pc[p] = "idle" /\ todo[p] = <<>>

NInit ==
    /\ Init
    /\ refs = [p \in Procs |-> <<>>]
    /\ tree = [p \in Procs |-> 0]
    /\ todo = [p \in Procs |-> <<>>]
    /\ packed = [a \in 1..MaxRecords |-> Blank]
    /\ made = 0

\* _refresh_tree_ref: one reference, to the root; not inside a session.
Refresh(p) ==
    /\ Idle(p) /\ holder # p
    /\ Load(p)
    /\ refs' = [refs EXCEPT ![p] =
                   IF root.at = 0 THEN <<>> ELSE <<Unloaded(root.at)>>]
    /\ tree' = [tree EXCEPT ![p] = Len(refs'[p])]
    /\ UNCHANGED <<todo, packed, made>>

\* ValueRef.get reads the record; bytes_to_referent makes a reference of every
\* address in it.
Follow(p) ==
    /\ Idle(p)
    /\ \E r \in DOMAIN refs[p] :
        LET ref == refs[p][r]
            at == packed[ref.addr].kids
            n == Len(refs[p])
        IN
        /\ ~ref.loaded /\ ref.addr # 0
        /\ n + Len(at) <= MaxRefs  \* bound
        /\ refs' = [refs EXCEPT ![p] =
              [@ EXCEPT ![r] = [ref EXCEPT !.loaded = TRUE,
                                           !.kids = [i \in DOMAIN at |-> n + i]]]
              \o [i \in DOMAIN at |-> Unloaded(at[i])]]
    /\ UNCHANGED <<vars, tree, todo, packed, made>>

\* A write inside a session: a new node becomes the tree.  It refers to a new
\* value and an old node or value, or to two old ones.
Edit(p) ==
    /\ Idle(p) /\ holder = p
    /\ LET n == Len(refs[p])
           full == {k \in 1..n : refs[p][k].thing # 0}
       IN
       \/ /\ n + 2 <= MaxRefs /\ made + 2 <= MaxMade  \* bounds
          /\ \E k \in {0} \cup full :
                refs' = [refs EXCEPT ![p] =
                    @ \o <<Made(made + 1, <<>>), Made(made + 2, <<n + 1, k>>)>>]
          /\ made' = made + 2
       \/ /\ n + 1 <= MaxRefs /\ made + 1 <= MaxMade  \* bounds
          /\ \E j, k \in full :
                /\ j # k
                /\ refs' = [refs EXCEPT ![p] = Append(@, Made(made + 1, <<j, k>>))]
          /\ made' = made + 1
    /\ tree' = [tree EXCEPT ![p] = Len(refs'[p])]
    /\ UNCHANGED <<vars, todo, packed>>

-----------------------------------------------------------------------------
(* store(): first what a node refers to, in order, then the node, unless   *)
(* it has an address.  A call is at one of the children of its reference.  *)

Storing(k) == [ref |-> k, kid |-> 1]

\* LogicalBase.commit itself, which stores the tree and then the root.
Committing == Storing(0)

\* SLIP: whatever is in memory is stored, again if need be.
InMemory(rs, k) == k # 0 /\ rs[k].loaded

\* There is something to store, and it is not stored yet.
Unstored(rs, k) == k # 0 /\ rs[k].loaded /\ rs[k].addr = 0

\* SLIP: a node is stored before what it refers to.
NoneLeft(rs, call) == {}

\* The children that prepare_to_store has still to store.
Left(rs, call) ==
    {i \in DOMAIN rs[call.ref].kids :
        i >= call.kid /\ Unstored(rs, rs[call.ref].kids[i])}

\* The call is about to write.
Prepared(p) ==
    /\ todo[p] # <<>> /\ Head(todo[p]) # Committing
    /\ Left(refs[p], Head(todo[p])) = {}

\* LogicalBase.commit: store the tree, then commit_root_address.
StartCommit(p) ==
    /\ Idle(p) /\ LockFree(p)
    /\ todo' = [todo EXCEPT ![p] =
                   IF Unstored(refs[p], tree[p]) THEN <<Storing(tree[p]), Committing>>
                   ELSE <<Committing>>]
    /\ UNCHANGED <<vars, refs, tree, packed, made>>

\* prepare_to_store calls store() for the next child.
StoreKid(p) ==
    /\ todo[p] # <<>> /\ Head(todo[p]) # Committing
    /\ LET call == Head(todo[p])
           kids == refs[p][call.ref].kids
       IN  \E i \in Left(refs[p], call) :
              /\ \A j \in Left(refs[p], call) : i <= j
              /\ todo' = [todo EXCEPT ![p] =
                    <<Storing(kids[i]), [call EXCEPT !.kid = i + 1]>> \o Tail(@)]
    /\ UNCHANGED <<vars, refs, tree, packed, made>>

\* The node is written, and has an address from then on.
StoreNode(p) ==
    /\ Prepared(p)
    /\ LET r == Head(todo[p]).ref
           at == KidAddrs(refs[p], refs[p][r])
           a == Len(recs) + Len(buffer[p].recs) + 1
       IN
       /\ WriteRecord(p, {at[i] : i \in DOMAIN at} \ {0})
       /\ refs' = [refs EXCEPT ![p][r].addr = a]
       /\ packed' = [packed EXCEPT ![a] = [thing |-> refs[p][r].thing, kids |-> at]]
    /\ todo' = [todo EXCEPT ![p] = Tail(@)]
    /\ UNCHANGED <<tree, made>>

\* SLIP: the address is taken before the write that may raise.
AddressThenRaise(p) ==
    /\ Prepared(p)
    /\ WriteFails(p)
    /\ refs' = [refs EXCEPT ![p][Head(todo[p]).ref].addr =
                   Len(recs) + Len(buffer[p].recs) + 1]
    /\ todo' = [todo EXCEPT ![p] = <<>>]
    /\ UNCHANGED <<tree, packed, made>>

\* A write, or the flush before the root, raises: the commit is over, and what
\* it has stored keeps its addresses.
StoreRaises(p) ==
    /\ Prepared(p) \/ todo[p] = <<Committing>>
    /\ WriteFails(p)
    /\ todo[p] = <<Committing>> => buffer' = buffer
    /\ todo' = [todo EXCEPT ![p] = <<>>]
    /\ UNCHANGED <<refs, tree, packed, made>>

\* commit_root_address(self._tree_ref.address).
PublishTree(p) ==
    /\ todo[p] = <<Committing>>
    /\ CommitFlush(p)
    /\ target'[p] = AddrOf(refs[p], tree[p])
    /\ todo' = [todo EXCEPT ![p] = <<>>]
    /\ UNCHANGED <<refs, tree, packed, made>>

\* The rest of commit_root_address, unlocking, buffering: nothing in memory.
Beneath(p) ==
    /\ \/ pc[p] # "idle" /\ Commit(p)
       \/ Idle(p) /\ GiveUp(p)
       \/ Drain(p)
    /\ UNCHANGED <<memory, packed, made>>

\* The connection is closed or its process dies.
Vanish(p) ==
    /\ \/ Idle(p) /\ Close(p)
       \/ Kill(p)
    /\ refs' = [refs EXCEPT ![p] = <<>>]
    /\ tree' = [tree EXCEPT ![p] = 0]
    /\ todo' = [todo EXCEPT ![p] = <<>>]
    /\ UNCHANGED <<packed, made>>

NNext ==
    \E p \in Procs :
        \/ Refresh(p) \/ Follow(p) \/ Edit(p) \/ StartCommit(p) \/ StoreKid(p)
        \/ StoreNode(p) \/ StoreRaises(p) \/ PublishTree(p) \/ Beneath(p) \/ Vanish(p)

NSpec == NInit /\ [][NNext]_nvars

-----------------------------------------------------------------------------
\* Storing trees keeps the promise that module Storage makes of a file, to which
\* its properties apply: a record refers only to records stored before it.
KeepsStorage == Spec

InFile(p) == recs \o buffer[p].recs

\* A reference with an address is in the file with everything below it, as it
\* is in memory: store() and from_node rely on it, also after a commit that
\* raised half-way and while others append.  The tree is, when its root is next.
StoredWhole ==
    \A p \in Procs :
        /\ \A i \in DOMAIN refs[p] :
            LET r == refs[p][i] IN
            r.addr # 0 =>
                /\ r.addr \in DOMAIN InFile(p) /\ InFile(p)[r.addr].whole
                /\ packed[r.addr].thing = r.thing
                /\ r.loaded =>
                    /\ packed[r.addr].kids = KidAddrs(refs[p], r)
                    /\ \A j \in DOMAIN r.kids : ~Unstored(refs[p], r.kids[j])
        /\ todo[p] = <<Committing>> => ~Unstored(refs[p], tree[p])

\* Nothing is stored twice: a commit appends what is new, and one that is tried
\* again goes on where the failed one stopped (the file is append-only, so a
\* second copy would stay until compaction).
StoredOnce ==
    \A a, b \in DOMAIN recs :
        recs[a].whole /\ recs[b].whole /\ packed[a].thing = packed[b].thing => a = b
=============================================================================
