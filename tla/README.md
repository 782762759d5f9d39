# A TLA+ verification of the CXL-SDK

The CXL-SDK (`src/`) is a toolkit for programs of several machines that share
memory over CXL. The machines' caches need not be coherent, the only ordered
accesses are the ones the code makes so, and a thread may stop between any two of
them. The parts that deal with this are small and are where the code is hard to
test. This directory models them in TLA+, checks small instances with TLC, and
proves the main invariants for every value of the constants with TLAPS.

`PROJECT.json` lists the components, the runs, which lines each definition
translates, the hazards and the theorems. This file explains them.

## 1. The system

| Part | State | Operations | What makes it hard |
|---|---|---|---|
| Replicated pointer, `shm-lib/include/replica_help_update/help_update.h` | a global pointer and one replica per thread, each with a lock bit | `cas_ptr`, `load_ptr`, `help_update` | every thread may help every update; helpers are late; any thread may stop |
| `MPMCQueue`, `shm-lib/include/msg/mpmc_queue.h` | head, tail, a turn and a value per slot; values cached per machine | `enqueue`, `dequeue`, `try_dequeue`, `size`, `empty` | slots are reused; stale and dirty cache lines |
| `ShmLock`/`SoftLock`, `ds/lock` | a mutex per machine, `choosing` and `number` per machine | `lock`, `unlock` | only loads and weakly ordered stores; loads repeated within one comparison |
| `EpochBasedGC`, `malloc/lsmalloc/src/gc.cpp` | a global epoch, an epoch and a list of retired objects per thread | `register_thread`, `begin_op`, `retire`, `end_op`, `gc_loop`, destructor | epochs read one by one while they change |
| `MsgQueue`, `MsgCollector`, `MsgDispatcher`, `shm-lib/msg` | a ring of cache lines with head and tail | `sendMsg`, `enqueue_msg`, `dequeue_msg`, `dispatchLoop`, destructor | weakly ordered copies; head read twice; messages that wrap |
| TL2, `stm/tl2` | a clock, a table of versioned locks, logs of each transaction | `TxStart`, `TxLoad`, `TxStore`, `TxFree`, `TxCommit`, `TxAbort` | reads without locks; commits that share a version |
| cxl-shm, `malloc/cxl-shm` | reference counts, pages, message queues, redo logs, eras | allocate, drop, send, unwrap, recover | a thread may exit anywhere, and others go on using what it shared |
| BTreeOLC, `ds/BTreeOLC` | nodes with a version word each | `insert`, `lookup`, `scan` | reads of nodes that change; splits that move keys under a search |
| Cross-machine `free`, `shm-lib/shm/mempool.cc` | queues between machines, owners of pointers | start-up, `marker_free_cross_machine`, `listen_free_request` | start-up order of processes |
| Stale line list, `nt<T>`, `rlock`, `OCC`, `shm-lib` | a ring of addresses; a variable with a lock byte; a lock byte; version maps | push, process, recycle; exchange; lock; match | locks built from exchanges |
| lsmalloc, `malloc/lsmalloc` | object ids, copy-on-write log, reference counts | allocate, read, write, acquire, release | the log at its end |
| Lists, hash map, ClevelHash, `ds` | nodes | insert, find, expand | optimistic reads |
| BwTree and the other ports of indexes; TinySTM, SwissTM; STAMP; YCSB-C | | | third-party algorithms |

The data structures use `shm-lib` for pointers, locks and messages. ClevelHash and
BwTree publish their roots through the replicated pointer. BwTree sends nodes that
another machine owns through the message queue. YCSB-C's thread pool uses
`MPMCQueue`. STAMP runs on the STMs. Nothing in the repository uses `EpochBasedGC`
yet.

The first eight rows are modelled; section 8 says why the others are not.

## 2. Modules

| Module | Models | Run by | Proved in |
|---|---|---|---|
| `HelpUpdate` | the replicated pointer | itself | `HelpUpdateProofs` |
| `MPMCQueue` | the queue without cache coherence (`USE_NO_CC_QUEUE`) | `MCMPMCQueue` | `MPMCQueueProofs` |
| `ShmLock` | both levels of the lock | `MCShmLock` | `ShmLockProofs` |
| `EpochGC` | the epoch-based collector | itself | `EpochGCProofs` |
| `MsgQueue` | collector, queue and dispatcher | `MCMsgQueue` | `MsgQueueProofs` |
| `Channel` | what `MsgQueue` promises | as a property of `MsgQueue` | `MsgQueueProofs` |
| `TL2` | transactions of the default build | `MCTL2` | `TL2Proofs` |
| `CxlRef` | reference counts, transfer, exit and recovery | `MCCxlRef` | `CxlRefProofs` |
| `BTreeOLC` | insert and lookup | `MCBTreeOLC` | `BTreeOLCProofs` |
| `AtomicMap` | what an index promises | as a property of `BTreeOLC` | `BTreeOLCProofs` |

A shared access is a step of its own. Definitions have the names of the code where
TLA+ allows it. A `pc` names a thread's next access. A definition marked as a mutant
is a plausible mistake in the definition that follows it; the property that is
meant to catch the mistake is known to fail with it.

### HelpUpdate

`global_ptr` and `replica_ptrs` are pairs of a version and the lock bit. A pointer's
value is its version: the n-th value installed is n. This is the assumption that a
value is not installed twice, which holds for ClevelHash, which allocates a
`level_meta` for every call. BwTree's root pointers may be reused after garbage
collection, and the results do not cover it. The actions are the accesses of
`cas_ptr` (`CasHelpFirst`, `CasDirect`, `CasSwap`), of `load_ptr` (`LoadUnlocked`,
`LoadAndHelp`, `LoadLast`, `LoadClear`) and of the loop of `help_update`
(`HelpGlobal` to `HelpClear`).

### MPMCQueue

`memory`, `cache` and `dirty` model ordinary data on machines whose caches are not
coherent: a machine may fetch or evict a line at any time, so a read may return
what was in memory long ago and a write may reach it at any time. `clwb` and
`clflush` are `WriteBack` and `Flush`. The atomics `head`, `tail` and `turns` are
coherent. The variant for coherent machines has the same control without the two
cache instructions. An item is the position it was enqueued at; moving a value out
of its slot leaves the slot as it is, as for trivially movable types.

### ShmLock

`pending` holds a thread's non-temporal store until it drains, which may be late.
`memory_fence` waits for it, and so does the locked instruction that releases a
pthread mutex. The loop condition at `soft_lock.cc:43` loads `number[j]` up to three
times; `CompareZero`, `CompareLess` and `CompareEqual` are those loads.

### EpochGC

The client is external: an operation may use, from `begin_op` to `end_op`, the
objects that were reachable when `begin_op` returned, and objects are unlinked
before they are retired. `held` and `began` are history. The destructor runs when no
thread is in a call. Epochs beyond `MaxEpoch` are not told apart.

### MsgQueue and Channel

The buffer is counted in cache lines, the unit to which the code aligns messages. A
line holds a part of a message, so a message that is overwritten, torn or read from
the wrong place is seen to be. A message is known by its length and by `at`, the
number of lines sent before it: messages are laid end to end, so this tells where in the
ring it lies and how many lines are unread (`Waiting`). `unfenced` holds the stores of `memcpy_nt_write`
until they reach the memory, in any order; `_mm_sfence` waits for them.
`get_remain_space` loads `head` twice. Since the member is not volatile, an
optimising compiler merges the loads. A build is a record that is chosen at the
start and never changes: whether `head` is loaded once (`oneLoad`), how long its
messages are (`sizes`), and an assumption on senders, that they send only while
`backlog` lines suffice for all unread messages. `shm-lib/CMakeLists.txt` sets no
optimisation level, so the default build loads twice. Plain loads are taken to be
coherent. When the line at `head` does not begin a message, `dequeue_msg` takes its bytes
for a length, any number up to `MaxLength`. A copy longer than the buffer leaves it;
what the dispatcher does after that is not followed (`"overrun"`), and `TypeOK` says that
it does not come to that.

`Channel` is two sequences, `sent` and `received`. `IsChannel` states that every
step of `MsgQueue` sends, receives the next message whole, or leaves both alone.

### TL2

`owner` and `ver` are the two halves of a lock word, `clock` is the global version
clock. A transaction's write log is a function from addresses to the last value
stored; since a log entry is found by its address or its stripe only, nothing reads
the order of the entries. Loads, stores, the acquisition of each stripe, the clock's
read and its exchange, the validation of each stripe, each store of the write-back
and each release are steps. `hist` and `done` are history: the values committed
with their versions, and what finished transactions read and wrote. The heap block
that `TxFree` gives back is written with a marker by `txSterilize`; `Sweep` says which
lock words that resets. The code resets more of them than the block has words
(`tl2.c:2125`), and the run assumes that those belong to no transaction. A read-only
transaction that frees memory, which `TxFree` does not refuse, is left out.

### CxlRef

A cell is a place that holds a reference: a `RootRef` or a slot of the queue. `info`
is an object's `ref_info`, `era` the matrix of eras and `log` the newest redo log;
the code keeps eight lines and reads only the newest. Each thread has one page of
`RootRef`s and one of objects. Blocks on `local_free` and `thread_free` become free again only
through `cxl_malloc_generic`, which erases the redo log; without this an old log could
be taken for one about the new object in the block. `Exit` may come between any
two steps. The monitor runs when every thread has exited, because `check_tls` ("simple
implement for recovery test") takes every registered thread for exited.

### BTreeOLC and AtomicMap

`ver` is the version word without the bit that marks a node obsolete, which is never
set. A search follows the code: the version of a node, its slot, the versions again. A read
of a node that is locked returns anything the writer may leave in passing. A thread
loads one of the key sequences of `Loads`, and then the calls that race begin; so the run
explores calls on trees with one, two and three levels without
exploring how they were built. `AtomicMap` is a map with inserts that take effect in one
step and lookups that answer with a value their key has had since they were called.
`BTreeOLC` implements it with `map` mapped to `Contents`, what the leaf responsible for
each key holds. `span` is history: the keys a node is responsible for, all of them for the
root, and divided between the two nodes by a split. That searches arrive at the leaf
responsible is not assumed but the invariant `Routed`. A lookup of an absent key returns an uninitialised boolean
(`BTreeOLC.h:509`); the model leaves the boolean out.

## 3. Runs that pass

| Run | Instance | Shows |
|---|---|---|
| `help_update` | 2 threads, 2 versions | `UnlockedMeansConverged`: the lock bit is cleared only when all replicas agree. `PrefixOrder`: replicas are updated in order and lag by one version at most. `BoundedStaleness`: a load misses at most the newest completed update. `NeverBackwards`: no pointer and no thread's loads go back. `CallsReturn`: every call returns if its thread runs |
| `mpmc_queue` | 3 threads on 2 machines, 1 slot, 2 positions | `SlotExclusive`: one user of a slot's value at a time. `DequeuesItsItem`: a dequeue returns the item of its position. `WaitersServed`: a dequeuer whose item is being enqueued gets it if calls go on. `TryNeverWaits`: `try_dequeue` returns even if all others stop |
| `shm_lock` | 4 threads on 3 machines, 3 calls | `MutualExclusion`. `HolderIsFirst`: the holder has the least number. `Acquires`: who has the machine's mutex gets the lock |
| `epoch_gc` | 2 threads, 1 object, 4 epochs | `ShortOperationsSafe`: an object is reclaimed under an operation only if the epoch advanced twice during it. `EventuallyReclaimed`: what a busy thread retires is reclaimed |
| `msg_queue` | 2 senders, 5 lines, 5 messages; of 1 to 3 lines, at most 4 of them unread, two loads; or of 2 lines, no limit, one load | `RingHolds`: from head to tail lie the unread messages, in order, and they do not fill the ring. `IsChannel`. `Delivered`: every message is handled unless the dispatcher is destroyed. `OneLoadRefusesOnlyFull`: with one load, `queue_full` is called only if the message does not fit |
| `tl2` | 2 threads, transactions of 2 accesses, 2 words and a block | `Snapshot`: what a transaction has read, also one that will abort, is one state of memory. `Serializable`: committed transactions fit the order of their versions, so no update of a word that was read and then written is lost. `OwnerReleases`: the assertions on lock owners. `VersionsGrow`: no lock word goes back |
| `cxl_ref` | 2 threads, 2 objects, 2 roots each, a queue of 2 slots, eras up to 5 | `CountsReferences`: counts equal references, whoever has exited where. `RedoDecides`: the eras tell exactly which store to repeat. `Reclaimed`: in the end no segment is left |
| `btree_olc` | 2 threads, one call each, on three trees | `IsAtomicMap`. `NodesInOrder`: no node overflows, keys ascend. `Routed`: from the root each key leads to the one leaf responsible for it. `LocksHeld`: locked are the nodes that some thread works on. `RootIsCurrent`: a root being split is the root. `CallsReturn`: calls do not restart one another for ever |

All have a type invariant, `TypeOK`, which includes that loops and indices stay within
their arrays.

## 4. Runs that fail: where the code and what it says differ

| Run | What the code says | What it does |
|---|---|---|
| `help_update_fresh` | a load after a completed update sees it (a test says so) | a reader that clears the previous round's lock bit makes the writer's exchange on a replica fail; `cas_ptr` ignores the result and returns true with the replica on the old value |
| `epoch_gc_safe` | "Safe to reclaim" | `gc_loop` stores the new epoch for threads that are inside an operation, so after two periods nothing protects them |
| `msg_queue_exact_fill` | equal pointers mean an empty queue | a message that fits exactly makes them equal, and all unread messages are lost |
| `msg_queue_refuses` | "Queue is full" | the dispatcher empties a wrapped queue between the two loads of `head`, the difference is zero, and the process exits |

The exact lines are under `findings` in `PROJECT.json`.

## 5. Bounds

* Replicated pointer: with two versions a helper of the first update is still at work
  during the second, and a load may miss either. Two threads make every pair of
  roles. For the invariants and `NeverBackwards`, the proofs cover more threads and
  versions; `CallsReturn` is known for this instance.
* `MPMCQueue`: two positions use the one slot twice, so a slow user of a round meets the
  next one; one slot is also the worst case for waiting. The proofs cover more. A
  `try_dequeue` loses its exchange at most twice here, so `TryNeverWaits` says that it waits
  for no other call, and little about how often others can overtake it.
* `ShmLock`: two of the four threads share a machine, so the mutex and a late store of
  `unlock` matter; three calls let one machine take two numbers against another, or
  three machines compete. The proofs cover more calls, except for `Acquires`.
* `EpochGC`: with four epochs an operation spans two ticks with room before and after;
  objects do not influence each other. The epoch stays at its bound and `gc_loop` goes
  on, so that the bound does not stop reclamation.
* `MsgQueue`: five messages of up to three lines go around five lines more than once
  and split at every place. Five is odd, like the 32767 lines of the real buffer, so
  messages of two lines never fill it exactly. With one line left free
  (`backlog = Capacity - 1`) the exact fill of `msg_queue_exact_fill` does not
  occur; that is the condition under which the queue is right. `MaxLength` is one more than
  `Capacity`, so that bytes taken for a length can exceed the buffer. The proofs cover rings,
  messages and backlogs of any size under it.
* `TL2`: update transactions begin only while the clock is below `MaxClock`, so two of
  them overlap and read-only ones see the result of both. Each address has a stripe of its
  own in the run; the theorems hold for any `PSLOCK`, collisions included. The proofs cover
  more of everything, under the assumption `FreesApart` on what is freed.
* `CxlRef`: with eras up to 5 a thread completes up to four changes of counts before it
  exits. Two slots let the queue wrap around. The same properties hold with eras up to 8 (17 million
  states), with three slots and eras up to 7, and with sender and receiver exchanged. Ids below
  `MAX_THREAD` only: the last one is overlooked by `redo_ref_cnt` (`recovery.cpp:211`).
  The proofs cover more of everything.
* `BTreeOLC`: leaves of two entries and inner nodes of four keys are the smallest for
  which splits leave no empty node. The trees are such that the last leaf is full and its
  split fills, or finds full, every node above it. `MaxNodes` is enough for both calls.
  The proofs cover trees of any height, larger nodes and more threads, except for
  `CallsReturn`.

`CHECK_DEADLOCK FALSE` is set where the system may stop for good: the bound is used up,
an enqueuer waits on a full queue, or the object was destroyed. `cxl_ref` checks for
deadlock. No run uses symmetry or a view.

## 6. Fairness

A thread that is inside a call keeps running (`WF_vars(Continue(t))`); nobody has to
begin a call. Beyond that:

* `mpmc_queue` assumes fairness of `try_dequeue` only, so every other thread may stop;
  `WaitersServed` states as its premise that the calls of the others go on.
* A pending store drains, as hardware guarantees (`Drain`, `StoreLine`).
* `Acquires` starts when the machine's mutex is held: a pthread mutex is not fair, so
  waiting for it may be endless. It assumes that a holder leaves.
* `btree_olc` assumes that a thread inside a call goes on; a restart is caused by another
  thread's progress, and calls are finitely many.
* `gc_loop` and `dispatchLoop` are threads that the operating system schedules. The
  threads in `Busy` call `begin_op` again and again; others may be idle forever.

## 7. Proofs

The theorems state every safety property of section 3: each invariant, each action
property and both refinements. They hold for any number of threads, machines, slots,
objects, nodes and versions; the bounds are constants without an upper limit. The
assumptions are those that the modules state on their constants: at least one replica,
slot or machine, a machine for every thread, leaves of two entries and inner nodes of
four keys at least, thread ids below `MAX_THREAD`; those of `MsgQueue` and `TL2` that go
beyond this are below. Each proof has the form `Init => IInv`,
`IInv /\ [Next]_vars => IInv'`, `IInv => property`.

* **HelpUpdate** (`Converged`, `Ordered`, `StalenessBounded`, `Monotone`). That replicas
  agree when the lock is clear depends on what late helpers may still do. `HelperInv`
  says that a helper's version was installed, the replicas it has passed have reached
  it, and the value it will replace is older; `LoadInv` that a reader's replica is not
  behind what it read. The lemma `Effects` lists the five ways in which a step changes
  the pointers, and an exchange succeeds only while its version is the newest.
* **MPMCQueue** (`Exclusion`, `FifoItems`). `ClaimInv`: positions are handed out once.
  `TurnInv`: a slot's turn never passes a use still to come and stands at the use in
  progress; with the arithmetic of slot and round it gives exclusion. `ValueInv` follows
  a value from the enqueuer's cache to memory to the dequeuer's cache, and says that
  only an enqueuer between its store and its `clwb` has a dirty line.
* **ShmLock** (`Exclusion`, `FirstServed`). `StoreInv` relates a machine's flag and number
  to the store its thread has pending. `BakeryInv`: once t has compared itself with u's
  machine, u has no number, has a greater one, or is choosing one that will be
  greater, because it has read t's or has yet to read it. The number is loaded
  up to three times, and the invariant holds between the loads.
* **EpochGC** (`ShortSafe`). What an operation may use was retired in or after the epoch in
  which it began (`HeldInv`), and the minimum that a thread computes is not ahead of the
  global epoch since it includes its own (`ThreadInv`). So reclaiming it needs
  two ticks, whatever mixture of epochs was read.
* **TL2** (`TypeCorrect`, `SnapshotHolds`, `SerializableHolds`, `OwnerReleasesHolds`, `VersionsGrowHolds`), for
  programs that satisfy `FreesApart`: the lock words that `txSterilize` may reset for a thread
  cover no word that another thread accesses or frees. Programs that free nothing satisfy it, and so
  does the instance of the run, which `MCTL2` checks. `UseInv` keeps transactions to the words
  of their program, so that nobody holds a lock word about to be reset
  (`ThreadInv`) and its new version, the clock, is not older. `WordInv` says what a word holds: the newest committed
  value, or an older one while its stripe is locked by the transaction that has still to
  store it. `LoadInv` follows a load between its two reads of the lock word. The last
  ingredient is about versions: a transaction that commits later either takes its version after
  this one has read the clock, or holds its stripes already, so that the validation fails. This is
  the argument by which two transactions may share a version. For a word that a transaction
  both reads and writes it rests on the version check with which its stripe is locked
  (`tl2.c:1546`): afterwards the lock keeps the word as it was read.

* **MsgQueue** (`TypeCorrect`, `RingCorrect`, `Refinement`, `OneLoadRefusal` and
  `EmptyDelivered`, all for spacious builds). `Spacious(b)` is the
  condition under which the queue is right: senders leave a line free
  (`backlog < Capacity`), or `head` is loaded once and no messages add up to exactly
  `Capacity` lines. Both builds of `msg_queue` satisfy it, and the two builds of the failing runs show
  what happens without it. `RingInv` consists of what lies in the ring (`RingHolds`),
  that the unread lines and those that a sender is about to add leave a line free
  (`SpaceInv`), which of its lines are stored or under way (`StoreInv`), and which part of
  the first message the dispatcher has copied (`ReadInv`). Storing a line of a message
  that is not yet published touches no line of an unread one, since it lies
  less than `Capacity` lines ahead; so publishing `tail` appends one whole message, and
  moving `head` removes the one that `result` holds. `TypeCorrect` follows from the
  invariant too: only because `head` is where a message begins is the length that
  `dequeue_msg` reads a length.
* **CxlRef** (`TypeCorrect`, `CountsReferencesHolds`, `RedoDecidesHolds`, `ReclaimedHolds`).
  `RefInv` says that an object's count is the number of cells that hold it, adjusted
  for the threads, exited or not, that are between the exchange of a count and the store
  to the cell. `EraInv`: for a thread there, its era is in the object's `ref_info`
  or in the row of whoever changed the count afterwards, and for one before the exchange
  it is in neither, so the monitor repeats exactly the stores that are missing. For
  `Reclaimed`, `Due(o)` is the set of cells from which the monitor will yet release `o`: those
  it will visit and in which it will find `o`, or into which a redo will put it. When
  the monitor starts, every counted reference is due; a redo makes no other one due, and
  each release takes one off the count and one cell off `Due` (`RecoverInv`). The slots
  that the monitor empties on behalf of the sender and of the receiver together cover the queue.
  When it sweeps, nothing is due, so no count is left. A stale log could
  undo this; `LogInv` says that the cell it names is gone, or still as the log says. A sender that
  exits after it created the queue, but before it lists it, has shared nothing
  (`OrphanInv`).
* **BTreeOLC** (`TypeCorrect`, `Ordered`, `SearchesArrive`, `Locked`, `RootSplitOnce`,
  `Refinement`), for keys that are natural numbers. `TreeInv` describes the tree between
  splits: the children of an inner node divide its span at its keys, no node is the child
  of two, and each key has one leaf. `RouteInv` says what a thread knows: as
  long as a node's version is the one it read, or it holds the node's lock, its key belongs to that
  node, and the child it took is the one for its key; `FoundInv` the same for
  whether the node is full and for the payload read. So an insert that has locked its
  leaf writes the right one, and a lookup whose leaf has not changed answers with the
  present value; one that is overtaken later answers with a value that the key had
  during the call (`AskInv`). Splits leave `Contents` as it is. That is the refinement: every step is
  a step of `AtomicMap` or a stutter.

Only model-checked:

* the liveness properties, since TLAPS does not prove liveness under fairness here:
  `CallsReturn` of `HelpUpdate` and of `BTreeOLC`, `WaitersServed`, `TryNeverWaits`, `Acquires`,
  `EventuallyReclaimed` and `Delivered`;
* the findings, which are counterexamples.

## 8. Not modelled

Code whose concurrency is a single access, or none:

* `Mempool` routes a pointer to the queue of the machine that owns it; the queue is modelled.
  Its start-up, in which each process may take itself for machine 0 (`ds/main.cc:269`), is
  listed as a hazard.
* The lists and the hash map are insert-only (`remove` is empty), and an insert is one
  compare-and-exchange or holds one lock.
* `OCC` is a table of versions in a library's map; `rlock` is a byte lock of CLHT.
* The mapping of memory, SSH start-up, options, timing and the emulation of latencies.

Code that is not built or not finished: `nt<T>` with a lock byte (`USE_DISAGR_CAS` is
commented out), and the stale line list, whose tail never moves.

Third-party algorithms, by far most of the lines in the repository: BwTree, Masstree,
CLHT (and with it lsmalloc's object table), HOT, RadixART, Sherman, STX, Level-Hashing,
ClevelHash, TinySTM, SwissTM, STAMP, YCSB-C. Demos, tests, tools and the website are
not part of the program.

Within the modelled parts: TL2's other build options, and programs in which `txSterilize` resets
lock words that other threads use (not `FreesApart`), of which nothing is claimed; embedded references, several pages,
the reuse of segments and thread ids, and recovery beside running threads in cxl-shm;
`scan` and flushing in BTreeOLC; construction and moves of queues and locks.

## 9. Checking

    tlc -config HelpUpdate.cfg HelpUpdate
    tlapm HelpUpdateProofs.tla

and likewise for the other runs and proof modules. A run takes a few minutes at
most. The proofs of `BTreeOLCProofs` take about a quarter of an hour, those of `CxlRefProofs` twenty minutes, the
others less.
