# DBDB in TLA+

Models, model-checking runs and proofs for *dbdb* (`dbdb/`), a key-value store in
one append-only file: copy-on-write search trees, a root pointer in a superblock,
two layers of locks, and compaction by renaming a new file over the old one.

## 1. The system

| part | state | operations |
|------|-------|------------|
| `physical.py` `Storage` | the file object and its buffer, `locked`, one thread lock per process and path, the superblock (root address, tree type), appended records | `lock`, `unlock`, `write`, `read`, `commit_root_address`, `get_root_address`, `set_tree_type`, `_ensure_superblock`, `is_file_replaced`, `close` |
| `logical.py` `ValueRef`, `LogicalBase` | a reference (address, referent in memory or not); `_tree_ref` | `get`, `store`, `_refresh_tree_ref`; `get`, `set`, `pop`, `commit`, `len`, `items` |
| `binary_tree.py`, `avl_tree.py`, `btree.py` | immutable nodes with keys, value and child references, length, height | `_get`, `_insert`, `_delete`, iteration |
| `interface.py` `DBDB` | a storage, a tree, the tree type | the dictionary calls, `update`, `update_optimistic`, `commit`, `compact`, `close` |
| `__init__.py` `connect` | - | open or create, then `DBDB(f)` |
| `tool.py` | - | one connection per command line call: `get`, `set`, `delete`, `commit` |
| `benchmark.py`, `benchmark_update.py` (beside `dbdb/`) | the counter of retries and failures | loops of writes, reads and a compaction; threads that update one counter |

How they interact. A `DBDB` owns a `Storage` and a tree on it. A write goes through
`_prepare_write`: reopen if the path names another file, take the lock, look again,
refresh the tree; then `set`/`pop` replace `_tree_ref` by a tree that shares what did
not change. `commit` stores the new nodes, children first, then swaps the root in the
superblock and releases the lock. Connections share only the file, the path and the
locks; readers take no lock. `compact` copies the contents into a temporary file and
renames it over the path, so other connections are left with an orphaned file until
they notice.

What is hard: any step of another process between a look at the file and the lock
that follows; files replaced under a waiting writer; sessions whose lock went with the
file; crashes and power failures inside a commit; nodes loaded lazily from a file
others are appending to; rebalancing code that must keep keys, values, children and
lengths together; commits that fail half-way and are tried again. `PROJECT.json` lists these hazards line by line.

What makes each part correct:

- connections: sessions take effect atomically, on top of everything acknowledged
  before; nothing acknowledged is undone; nothing a reader uses changes under it;
  every call ends;
- locks: one writer per file, one thread per process;
- file: the superblock always leads to a complete tree, also after a power failure, and
  an acknowledged commit survives;
- trees: a map, in key order, with exact lengths, balanced; stored whole and once;
- programs: each ends, none undoes another, and the benchmark's counter is exact (all three
  until a late creator empties the file);
- opening: the stored type is the type of the stored nodes; nobody's data is lost.

## 2. The modules

Each layer is modelled at the level where its own hazards live, and hands the next
one the abstraction that its runs justify.

| module | models | composed of |
|--------|--------|-------------|
| `Effects` | contents of a database, effects of a session (assignments and increments) | |
| `AtomicStore` | the abstract specification of the whole: sessions with atomic commits | `Effects` |
| `DBDB` | connections of threads and processes, both locks, reopening, all calls of the class, compaction, crashes | `Effects` |
| `DBDBProps` | the properties of `DBDB`; the mapping to `AtomicStore` | `DBDB`, `AtomicStore` |
| `DBDBProofs` | theorems about `DBDB`: types, snapshots, exclusion | `DBDBProps` |
| `ControlProofs` | theorems about the calls of `DBDB`, whatever the clients do | `DBDBProofs` |
| `AtomicProofs` | lemmas about `DBDB` when nothing is committed without the lock: every commit is a step of `AtomicStore` | `ControlProofs` |
| `Sessions` | what becomes of uncommitted writes; which sessions have lost their lock | `DBDBProps` |
| `SessionsProofs` | theorems about disciplined clients: the refinement of `AtomicStore`, kept writes | `AtomicProofs`, `Sessions` |
| `Programs` | the command line and the benchmarks, as scripts of calls | `DBDBProps` |
| `ProgramsProofs` | theorems about the programs, for any number of them | `AtomicProofs`, `Programs` |
| `MCDBDB`, `MCSessions`, `MCPrograms` | instances for TLC | the three before |
| `Storage` | records and root on their way through buffer, page cache and device | |
| `StorageProofs` | theorems about `Storage` | `Storage` |
| `NodeStore` | references in memory and how a commit stores a tree; implements `Storage` | `Storage` |
| `NodeProofs` | theorems about `NodeStore`: it implements `Storage`, and what it stores is whole | `NodeStore`, `StorageProofs` |
| `Connect` | processes opening a path that may not exist; tree type | |
| `ConnectProofs` | theorems about `Connect` | `Connect` |
| `OrderedMap` | the abstract specification of a tree: a map with private changes and saves | |
| `TreeValues`, `BinaryNode`, `BinaryTree`, `AVLTree`, `BTree` | the tree algorithms, as operators | |
| `LogicalTree` | one connection and its tree, of any of the three classes | the trees, `OrderedMap` |
| `TreeProps`, `MCTrees` | shapes of the balanced trees; instances for TLC | `LogicalTree` |
| `MCStorage`, `MCNodeStore`, `MCConnect` | instances for TLC | |

### DBDB

A file (inode) is `trees[f]`, the trees ever stored in it by address, and `root[f]`;
address 0 is the empty tree. `path` is the file the name refers to. A connection has
the file it has open (`ino`), `Storage.locked`, the contents of the tree its `_tree_ref`
leads to (`view`) and that tree's address (`addr`, `Unstored` after a write). A call is
a sequence of steps; `pc` is the next one, `cont` where a reopening or a lock leads,
`frame` the arguments and locals. Steps are cut wherever another connection can act:
at every wait for a lock and at every look at the path or the superblock.

| code | actions |
|------|---------|
| `connect`, `DBDB.__init__` | `Connect`, `EnsureSuperblock`, `SetTreeType`, `InitTree`; creation: `Misses`, `NextCall`, `Empties` of `Programs`, and `Connect` |
| `_reopen_if_replaced` | `ReopenNot`; `Reopen`, `EnsureSuperblock`, `InitTree` |
| `_prepare_write` | `PrepareLock`, `AcquireThread`, `AcquireFile`, then `RecheckFresh` or `RecheckReplaced` |
| `__getitem__`, `__contains__`, `__len__` | `StartRead`, `Read` |
| `items`, `__iter__` | `StartRead`, `Scan` (BTree refreshes when unlocked) |
| `__setitem__`, `__delitem__` | `StartWrite`, `Set`, `Del`, `DelMissing` |
| `update` | `StartWrite`, `Update` or `UpdateRaises`, `Publish` |
| `update_optimistic` | `StartOptimistic`, `Snapshot`, `ValidateOK` or `ValidateFails`, `Publish` |
| `commit` | `StartCommit`, `Publish` |
| `compact` | `StartCompact`, the reopening inside `items`, `CopyItems`, `Rename`, `Swap`, `CompactFails` |
| `close` | `Close` |
| death of a process | `Crash` |

`_ensure_superblock` and `set_tree_type` lock and unlock within one step: they wait for
both locks, and nothing else can see their inside. `AddressAfterStore` covers both things
`ValueRef.store` can do: append, or find that the tree is a node stored before (a
delete may return an old reference). A value is a number; the function given to
`update` adds one, as in `tests/test_consistent_read.py`. `eff` and `acked` are history
variables: what a session has done since it last looked at the file, and how many of
its commits returned.

### Sessions

`unguarded` is a history variable: the sessions whose lock is gone because a replaced
file was opened in its place (`LosesLock`, from the reopening in `_prepare_write` and in
`items`), or because `update` unlocked on its way out with an exception. A session
leaves the set when its next write takes the lock anew and refreshes, when it commits, and
when it closes. With it the two properties about pending writes can say exactly where
the code lets go of them.

### Programs

A program is a script of calls on its own connection: what `main` of `tool.py` does for
each command, the two kinds of writer, the reader and the main thread of
`benchmark_update.py`, and the two tests of `benchmark.py`, whose loops over keys become
two rounds. `NextCall` begins the next call of the script, `Work` is any step of module
`DBDB` inside it, `Finish` is the `close()` of the `finally`, after the last call or
after the one that raised. `Joined` is `_run_once` joining its threads before it connects
to read the counter. `Killed` ends all programs of a process.

The path may not exist at first; `_run_once` starts all its threads on the path of a fresh
directory. `file` is what the path leads to. `Misses` is the `open(dbname, "r+b")` that raises; a program
that has missed opens with `"w+b"` next, whatever has happened in between. If there still is no file, or one
in which nobody has written a superblock, that is `NextCall`, and nothing is lost. If there is one in use, it is
`Empties`: all that was committed is gone, and readers and writers of the file find no root.
From there on the run is not followed (`Followed`): `file` is `"lost"`, and nothing is claimed of what comes after.
Each property of `Programs` names this condition, and so do the theorems below. It does happen: `Empties` is
taken in the run, and the counter is then too low without a failed writer. What becomes of the data is in module `Connect`,
where `LostOnlyByEmptying` says that nothing else loses it. `DBDB` itself, and with it `sessions` and `anarchy`, starts on a file that exists.

`Mixes` lists which
programs run side by side; other mixes are behaviours of `anarchy`. `CommitsAlone`, `CounterApart`,
`DeletesApart` and `BenchesApart` say which mixes the theorems of `ProgramsProofs` are about; `MCPrograms`
assumes all four, so TLC evaluates them on the mixes of the run.

### Storage

`recs` and `root` are what the page cache has, that is, what every process reads;
`synced` and `roots` say what a power failure would leave; `buffer` is what a process
has written and not flushed. `CommitFlush` to `CommitUnlock` are the lines of
`commit_root_address` in order. `Write` flushes first because seeking does. `Drain`
lets the buffer flush at any time, as a full buffer does. `Kill` may leave a torn record,
`PowerFails` any subset of what was not synced, and any root written since the last
sync. An fsync may fail, which the code ignores (`skipped`); from then on nothing is claimed about
power failures, and `PowerFails` is left out.

A write or a flush may raise (`WriteFails`, `CommitRootFails`): the lock stays with the process,
a part of the record may be in the buffer, and a root whose flush raised is still there, to be
published by any later flush. What the caller does next is open: it may write and commit again,
close, die, or be an `update` whose `finally` unlocks (`GiveUp`).

The buffered file object, the page cache and the device are outside the repository and modelled
from how `physical.py` uses them; an 8-byte write at offset 0 is taken to reach the device whole.

### NodeStore

`Storage` says that a record refers to records its process knows. `NodeStore` is why: `refs` are
the references a connection has in memory, each with an address once it is stored and a
referent once it was followed or made (an empty one has neither); `packed` is what the records
encode. `Edit` stands for any tree algorithm: new nodes that refer to old ones and to new values.
The recursion of `ValueRef.store` and `prepare_to_store` is the stack of its calls, `todo`: a call
is at a reference and at one of the children it has still to store. `StartCommit` calls `store` of
the tree, `StoreKid` that of the next child without an address, `StoreNode` writes the node when no
child is left, gives it its address and returns, `StoreRaises` gives up in the middle, and
`PublishTree` enters `commit_root_address`, from where the steps are those of `Storage`. Values
and nodes are alike: both are stored by `ValueRef.store`. That the whole is an implementation is
`KeepsStorage`, with the variables of `Storage` as they are.

### Connect

The size of the superblock, the tree type, the kind of the stored nodes and the
sessions in them, for processes that open, create, fill up the superblock, decide on the
type, and commit once. `Create` empties a file that has come to exist since `Open`
looked: that is what `"w+b"` does. `wanted` and `creation` are chosen at first: which types are asked
for, and whether others stay away while the file is created.

### Trees

`LogicalTree` is `LogicalBase` with the hooks of the class that `plan.class` names, as
`DBDB._init_tree` picks it; a plan also says which keys and values the connection uses and in what order. Nodes are values. A binary
node's `mem` says whether the reference to it has been followed, because
`BinaryNodeRef.length` raises for one that was not; `Unload` forgets all of that when a
session ends. Exceptions are results (`KeyError`, `Internal`) that callers pass on. An
operation that fails leaves only the references it followed (`AvlTouch`: a delete that fails while it
rebalances has also looked at siblings on the way back). `answer` records the last
write and how it ended, so that `IsMap` holds each write to its own effect and not to
that of another call that could explain the same trees. In `BTree`, positions count from 1.

### Slips

An operator under a comment that starts with `SLIP` is not part of a model: it is a wrong version of the
definition that follows it, of the kind a programmer might write. The `mutants` of
`PROJECT.json` put it in that definition's place, and the named property must then fail:
each property is shown to depend on the code it is about.

## 3. Runs

Passing runs:

| run | shows | bounds |
|-----|-------|--------|
| `sessions` | `AtomicSessions`, `SessionKept`, `PendingLocked`, `HolderOnLiveFile`: sessions of sets, deletes, scans and updates that raise, which commit and compact, with crashes and compactions that fail | 2 processes, 2 keys, 3 files, 4 calls each |
| `anarchy` | `TypeOK`, `LockExclusion`, `OptimisticValidated`, `SnapshotIntact` whatever clients do | 2 processes, 3 files, 4 and 3 calls of any kind, crashes, failing compactions |
| `programs` | `LockExclusion`, `OptimisticValidated`, `CounterExact`, `EachDeletedOnce`, `OwnWritesRead`, `AtomicPrograms`, and `ProgramsEnd` under fairness, the last five until a late creator empties the file | a path that exists or not; nine mixes of up to 4 programs: up to 4 threads of one process, 2 or 3 processes, 2 keys, 2 files, 2 tries; any process may be killed |
| `storage` | `RootReadable`, `Recoverable`, `Durable`, `RootTreeUnchanged` | 2 processes, 3 records, 2 commits, kills, power failures, failing fsync, writes and flushes that raise |
| `nodes` | `StoredWhole`, `StoredOnce`, `KeepsStorage` | 2 processes, 4 records, 2 commits, 5 references each, 3 values and nodes made, kills, writes and flushes that raise |
| `trees` | `IsMap`, `ScanAgrees`, `LengthExact`, `AvlBalanced`, `OnlyUnloadedFails` | unbalanced tree: 5 keys, one with two values; AVL: 7 keys; B-tree: 4 keys; sessions of 2 writes |
| `btree` | `IsMap`, `ScanAgrees`, `BTreeFilled` | degree 2: 7 keys, new keys and deletes in any order; 10 keys filled in ascending and in descending order, then deleted in any order but for the key set last, which goes last |
| `connect` | `SafeIfCreatedAlone`, `OneTypeForAll`, `LostOnlyByEmptying` | 3 processes, same and different types, creation undisturbed and raced |

Why the bounds suffice for the cases of interest. Two connections make every race of
the code, which is always one writer against a commit, a compaction or an opening; the mixes of
`programs` add the thread lock, and three writers with two tries each, so that one may run out of
retries. Four calls are connect, a write, a second write or a read, and
a commit or compaction; three files allow a compaction of a compacted file and one by
each side. Three records and two commits give a parent, a shared child and a new child, and a
root to fall back to; the fourth of `nodes` is the one that a commit tried again appends. Seven keys are the smallest AVL trees in which a delete needs a
double rotation with non-empty grandchildren; ten keys at degree 2 the smallest
ordered fills of three levels in which an inner node can borrow. Degree 2 exercises the same branches as the shipped
degree 3 on smaller trees; `btree_overwrite` uses degree 3.

Bounds in the guards: `MaxCalls` (calls of a connection), `MaxFiles`, `MaxRecords`,
`MaxCommits`, `MaxRefs`, `MaxMade`, `MaxWrites`, and `MaxLost`, which stops deletes on a B-tree whose
length has gone wrong by more. `connect` and `nodes` turn the deadlock check off because
their processes finish or run out of records; everywhere else a state without a step would be reported.
`storage` and `nodes` exchange the processes for one another (symmetry): they check no liveness.

Disciplines. The code does not enforce how calls are combined, and several
combinations lose data (below). `Rules` names what clients refrain from in the run
that shows atomic sessions: `commitLocked` (no `commit` outside a writing session),
`compactLocked` (`compact` only inside one, when the tree is fresh and the file locked),
`optimisticFresh` (`update_optimistic` only outside one). `update` calls that succeed and
compactions by others are not combined in that run either: `update_race` shows why.
`anarchy` has no rule. `programs` has none either: what the programs do is fixed, and which are
combined is chosen in `Mixes`. The `commit` command is run beside a `get` only, because it is a
`commit` outside a session (below), and beside a writer it may undo a commit (`CommitsAlone`); the compaction of `benchmark.py` runs beside writers on another key,
and `AtomicPrograms` leaves these mixes out. The passing runs on B-trees set only missing keys: a present
one in an internal node is stored twice (`btree_overwrite`), and a present one in a leaf below an internal node makes the length wrong (below).

Violations: the code does something else than its docs, comments or tests say.

| run | what happens | contradicts |
|-----|--------------|-------------|
| `stale_compact` | `compact` copies a tree read before it locked and undoes a later commit | `features/compaction.feature:11` |
| `update_race` | `_prepare_write` returns unlocked after a replacement, and `update` then loses a concurrent update | `dbdb/interface.py:132` |
| `avl_unloaded` | deleting from a reopened AVL tree may raise `RuntimeError` | `dbdb/interface.py:12`, `dbdb/binary_tree.py:56` |
| `btree_overwrite` | setting a key of an internal node stores it a second time | `tests/test_btree_insert.py:122` |

Relatives of these, which the models also have. No run is given to them, but each
explains a condition in a property or a run above:

- `commit` without a write puts back the root the connection opened with, as `compact`
  puts back its contents (`dbdb/interface.py:189`). Hence `commitLocked`; it is the same
  property, `EmptyCommitKeepsData`, that fails. The `commit` command of `tool.py` does nothing
  else: beside a `set` it may undo it.
- `items` inside `compact` may reopen a replaced file, which drops the lock that
  "Rename while holding the lock" (`dbdb/interface.py:239`) relies on. Hence
  `compactLocked`; `HolderOnLiveFile` speaks of connections that hold the lock.
- `update_optimistic` compares the root of the file it has open, without asking whether
  it was replaced since the snapshot: it may commit to an orphaned file. Hence
  `OptimisticValidated` is about the open file.
- After a replacement, or after a call that raised, a session goes on without its lock,
  and its next write takes the lock anew, refreshes the tree and drops what the session
  wrote before. Hence `unguarded` in `SessionKept` and `PendingLocked`.
- The length stored in a B-tree is not to be relied on. `dbdb/btree.py:244` adds one at
  every internal node on the way down, also when the leaf below has the key and only its value is replaced
  (`dbdb/btree.py:211`): the length is then one too large, where `tests/test_btree_insert.py:122` says "length unchanged", of
  a tree that is one leaf. Deletes that merge nodes make it too small
  (`dbdb/btree.py:468`): the merged parent is given `length - 1` and the caller subtracts one more; borrowing between
  inner nodes moves a child and counts one key, and a split later adds the lengths up again, so that in trees
  larger than those checked it may also come out too large. Hence `LengthExact` leaves B-trees out.
- After the last key of a B-tree is deleted in a session, the next set raises
  `AttributeError` (`dbdb/logical.py:90` follows `None`). `IsMap` admits the failure, and that
  it changes nothing.
- A second creator of a file empties it, whoever it is (`dbdb/__init__.py:20`, the command line included). The writers of
  `benchmark_update.py` start together on a missing path: one may create the file, commit and be emptied by another that had found
  no file, and both have committed while the counter has one, where `benchmark_update.py:117` expects every writer
  that did not fail to be counted. Two
  openers that ask for different types can leave nodes of one kind under the type of another. Hence the
  conditions of `SafeIfCreatedAlone` and `OneTypeForAll`, and `Followed` in `Programs`; `LostOnlyByEmptying` has none.

## 4. Fairness

`PSpec` assumes weak fairness of `Goes(c)` for every program: it goes on when it can, inside a
call and from one call to the next, in the two steps of creating a file, and it closes at the end. The scripts contain no wait for
anything but locks, other threads (`join`) and the disk, so this is what the scheduler of the
system gives a running thread. Dying and failing are never forced. `lock()`
blocks in the kernel and in `threading.Lock`, neither of which promises an order; weak
fairness is enough for `ProgramsEnd` because every program takes the locks a bounded
number of times, so a waiting one finds them free for good in the end. That they are given
up is the point: a `delete` that fails leaves the lock held until the
`finally` closes the connection, and a thread that waits for the file lock already holds the thread lock.
For other clients of the class no such property holds: a session may stay open for any time.

## 5. Proofs

Every theorem holds for every value of the constants that satisfies the assumptions of the
modelling module (`MaxFiles` and `MaxRetries` positive, `Unstored` not a number, `NoKey` not a
key, ...): any number of connections, processes, keys, files, calls, records, commits, every set
of rules and faults, and every tree type.

### Types, snapshots and exclusion: `DBDBProofs`

- `TypeCorrect`: `Spec => []TypeOK`.
- `SnapshotsIntact`: `Spec => []SnapshotIntact`. What a connection has read from or
  stored in its file is at its address, unchanged.
- `WritersExclude`: `Spec => []LockExclusion`.

`TypeOK` is not inductive: `Copy` writes to file `created + 1`, and that this
is not the file of some connection, and that `temp` of a running compaction is a file that exists,
needs to be carried along. `TypeInv` adds that files are used only once they are created, that roots
lead to stored trees, and `SnapshotIntact` itself, which `Publish` needs so that the address it takes from a
loaded tree is one of the file's. `StepKinds` sorts the actions by what they do to the disk and to
the locks (nothing, a publication, a copy, a rename; releasing, acquiring), so that
the preservation proofs have one case per kind. `LockInv` strengthens
`LockExclusion` by the connections between the two locks: a connection waiting for the
file lock holds the thread lock already.

### The calls: `ControlProofs`

- `OptimisticsValid`: `Spec => []OptimisticValidated`.

The clients may do anything here. `Flow(c)` is what the program counter says: which steps hold
the lock (`LockFits`), where a reopening or a lock may lead (`ContFits`), which call they belong to
(`NameFits`). `Snapped` says what an optimistic update knows between its snapshot and its
validation, `Validated` what it knows between the validation and the new root. `FlowMoves` proves
that the connection that moves keeps its part; `HolderFileKept` that nobody else writes a file
whose lock is held, from `LockInv`. The module also has the facts about effects
(`ApplyNone`, `ApplyMore`, `WriteFollows`) that the next one needs.

### Disciplined clients: `SessionsProofs`

- `SessionsAtomic`: `Spec => AtomicSessions`, the refinement of `AtomicStore`.
- `UpdatesAtomic`, `EmptyCommitsKeepData`: the action properties `UpdateAtomic`, `EmptyCommitKeepsData`.
- `HoldersOnLiveFile`: `Spec => []HolderOnLiveFile`.
- `PendingIsLocked`: `SessionsSpec => []PendingLocked`.
- `SessionsKept`: `SessionsSpec => SessionKept`, for clients that also start an optimistic update
  only without pending writes (`"optimisticFresh"`).

The hypothesis is `Disciplined` (`DBDBProps`): clients commit and compact only while they hold
the lock, and `update`s and compactions do not occur in one system. Neither is to be had
for less: `stale_compact` violates `EmptyCommitKeepsData` without the first half,
`update_race` violates `UpdateAtomic` without the second. `MCSessions` assumes
`SessionsDisciplined`, which TLC evaluates: the clients of the run `sessions` satisfy the hypothesis,
they commit, compact, crash and fail. `CanUpdate` does not hold there; the clients of the
benchmarks, which update, are in `programs`.

The inductive invariant is in `AtomicProofs`, for whoever commits and compacts under the lock only:
`Safe(single)`, which is `TypeInv`, `LockInv`, `ControlInv` and `SessionInv`, with `Separate(single)`: the
calls of one kind, compactions if there is a single file and updates if there is not, do not occur.
The discipline of the clients gives it here, the scripts give it in `ProgramsProofs`. The heart of
`SessionInv` is `Fresh(c)`: a connection that holds the lock, and has looked at the file since it got it
(`Settled`), is on the file the path names and has in memory the live contents with its own effects
applied. This is `HolderOnLiveFile`, and it makes the new root of `Publish` the old contents with the
session's effects, which is the step of `AtomicStore`. `Copied(c)` says the same of the temporary file of
a compaction, which must also be nobody else's, so that `Rename` is such a step too. `Guarded(c)` is
what the discipline does to the control: a compaction that reaches its copy holds the lock, and no
`update` reaches its body without it. `OneFile` says that there is nothing to reopen
where nobody compacts. Reopening, refreshing, locking, failing and dying
change neither the contents nor, in the abstract, anything but the effects of one session; `StoreMoves`
has one case for each. `HeldInv` adds the history variable `unguarded` for `Sessions`.

### The programs: `ProgramsProofs`

- `ProgramsAreClients`: `PSpec => Spec`, so `WritersExclude` and `OptimisticsValid` hold of the programs.
- `ProgramsAtomic`: `CommitsAlone` implies `PSpec => AtomicPrograms`.
- `CountersExact`: `CounterApart` implies `PSpec => []CounterExact`.
- `DeletesOnce`: `DeletesApart` implies `PSpec => []EachDeletedOnce`.
- `BenchmarksReadBack`: `BenchesApart` implies `PSpec => []OwnWritesRead`.

They hold for any number of programs, threads, processes and keys, with any of them killed, and from a path that
exists or not; all but the first claim nothing once a late creator has emptied the file (`Followed`, a
condition in each of the four properties; in the first the steps of creating a file are stuttering). The counter of `benchmark_update.py` is
therefore exact only in runs in which no thread that has found no file opens it after another has
given it a superblock; `connect` does not exclude that. The hypotheses
say what is not in a mix. `CommitsAlone`: beside a `commit` command there are only readers, because it stores the
tree it has read when it connected. `CounterApart` is `_run_once`: the writers are threads of the process
whose main thread reads the counter, and nobody else writes its key. `DeletesApart`: the key of a
`delete` command is written by commands only. `BenchesApart`: nobody else compacts the file of a benchmark
or deletes its key. It cannot be dropped: TLC finds a benchmark that does not read what it has committed as soon as a
second program compacts, even one on another key. None of the four says anything of locks or orders.

The programs have no `Rules`; that they commit under the lock is read off their scripts.
`Scripts` computes the lines of each script (`ScriptFacts`). `Scripted(c)` relates the line a program is at
with its connection: in a call the frame is that line, and the control is on the way of such a call
(`OnItsWay`); after a write that has returned the lock is held, so that the `commit` that follows
starts with the lock. `TameInv` is this with `Safe(TRUE)`: programs that neither compact nor commit
what they have not written stay on one file and are disciplined. Mixes of readers and `commit`
commands (`QuietMix`) need no lock: `QuietInv` says that nothing is ever written. A mix with
`bloated` is left out by `AtomicPrograms` itself.

The counter. `Once(c)`: a writer has its `Inc` in its session exactly when it is about to publish, and
has committed once when it has returned well. `Private` keeps the others off the key, so each `Publish` either
adds one to the counter and a writer to `Adders`, or neither (`Sum`). `Waits` says of the main
thread that from its connecting on all writers have ended (`Joined`) and none was killed (they are of
its own process), so that the tree it has read is still the latest; hence `CounterExact` when it reports.

The deletions. `Saves(c)`: a command holds the lock, and its write alone, from its write to its commit. `Found(c)`: a
delete in between has its key in the live contents, where it has found it with the latest tree under the lock
(`Fresh`) and where nobody can have removed it since (`HolderStays`). `Balance(k)` is then inductive:
the deletions that are reported, and one more if the key is there, are at most the settings. Without the last part it
would not be: a delete needs something to delete.

What a benchmark reads back. Here a compaction meets updates, which `Safe(single)` keeps apart, and the atomicity of the
others is not to be had: one that waits for the lock of the old file works on without a lock once it has reopened. The proof
therefore uses no atomicity, only types, locks and control (`TypeInv`, `LockInv`, `ControlInv`). `BenchFiles(b)`: the
path names the first file until b's own compaction has renamed its copy, and b, which closes and opens
when it does so, is on the file the path names at all times but between the two (`OnPath`). `BenchKeeps(b)` follows the key of b:
from its first `set` on the key is in its tree; then in the copy, which nobody else has open; and then in
the current tree of the new file and in every tree that was read from it (`HasKey`), whoever commits such a tree, with a lock or
without (`KeyHeld`). The tree that b reads anew after the swap therefore has the key. Before the rename
b reads its tree anew only inside a `set`, which puts the key into it again. `Fits(d)` is
what all scripts have in common: only `bloated` compacts and only `delete` deletes, its own key. `ReadsBack(b)` needs
neither a bound on the programs beside b nor that any of them ends well, and b itself may be killed.

### The file: `StorageProofs`

- `AlwaysReadable`, `AlwaysRecoverable`, `CommitsDurable`: `Spec => []P` for `RootReadable`,
  `Recoverable`, `Durable`.
- `RootTreeKept`: `Spec => RootTreeUnchanged`.
- `StorageTypes`: `Spec => []TypeOK`.

The three invariants say what is in the file; the inductive one must follow the data on its way
there. `Good(p)` says of every process: the records it knows, together with those in its buffer,
are closed under references; only the holder of the lock has anything buffered or under way; the
root it is about to write, and every root in its buffer, is `Sound`: its tree is in the
file, and in the synced prefix of the file unless an fsync was skipped; and from the last
fsync on no older root is left to come back. A power failure keeps the prefix and one of
`roots`, so `Sound` gives `Recoverable`, and the order of the two fsyncs in `commit_root_address` is what
the proof of `Sound` for the step `root` uses.

### Storing trees: `NodeProofs`

- `StoringIsStorage`: `NSpec => KeepsStorage`, the refinement of `Storage`; with it the theorems
  about the file hold of any tree algorithm, and not only of records that come in a good order.
- `AddressesHold`: `NSpec => []StoredWhole`.
- `NothingStoredTwice`: `NSpec => []StoredOnce`.

`NInv` takes `Inv` of `StorageProofs` and follows three things. `RefGood`: a reference with an
address is known and its record encodes it, and one without refers to older ones only, which is
why `store` ends. `CallGood`: on the stack each reference is above the one it waits for, and
the children before the next one are stored, or are being stored by the call above; so
when a node is written all it refers to has an address. `Fresh`: what is in memory and
not stored is in no record that any process sees and nowhere else in memory. The step that needs
all three is `StoreNode`. For the others `NoNews` says in one lemma that a
flush, a failing write or a death brings no record that nobody saw before.

### Opening: `ConnectProofs`

- `CreatedAloneIsSafe`: `Spec => []SafeIfCreatedAlone`.
- `OneTypeSuffices`: `Spec => []OneTypeForAll`.
- `OnlyEmptyingLoses`: `Spec => LostOnlyByEmptying`.
- `ConnectTypes`: `Spec => []TypeOK`.

`AloneInv` follows the one creator: until its file has a whole superblock no other process has
got past its open. `AgreedInv` adds, for one tree type, that whoever has chosen has chosen the
type of the nodes.

### What stays with TLC

- `ProgramsEnd`: liveness under fairness.
- The trees (`ScanAgrees`, `LengthExact`, `AvlBalanced`, `BTreeFilled`, `IsMap`, ...): their operators are
  recursive, and what a recursion computes for every tree needs an induction whose
  theorem takes an operator as a parameter.

## 6. Not modelled

- The output, timing and reports of `tool.py` and the benchmarks, and the deletion of the benchmark's files.
- Encodings (UTF-8, msgpack, `BytesValueRef`): formats without control.
- Two connections of one thread (the second blocks on the first's thread lock), and
  in-memory files without a descriptor (no locks, no replacement).
- `DBDB` takes a tree for the map it promises; where a tree breaks that promise is the
  subject of `LogicalTree`.
- The directory. `compact` renames without an fsync of the directory, so a power failure may
  bring back the file from before the compaction, without the commits made since. `Storage` is
  one file and says nothing of it.
- The read buffer of a file object: nodes are never overwritten, and the root is read past it
  (`_pread_superblock`).
- Locks that raise instead of blocking (`dbdb/physical.py:55`): the thread lock is released
  and the call has not begun.
- Tests.

## 7. Plan

Done, in order of importance: connections and locks (`DBDB`), the promise of
atomic sessions (`AtomicStore`), the file (`Storage`), the trees (`LogicalTree`, ...), opening
(`Connect`), type correctness, snapshots and exclusion proved; then sessions that lose their lock
(`Sessions`), the programs (`Programs`), writes that fail and the storing of nodes (`NodeStore`),
the lengths of B-trees.

Then the proofs: the refinement of `AtomicStore` and the properties of sessions, optimistic
updates, the file, the storing of nodes, opening, and of the programs.

Next:

1. The directory entry and power failures around a compaction.
