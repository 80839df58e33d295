# SPHDE: models, checks and proofs

SPHDE (the Shared Persistent Heap Data Environment) maps one region of
memory at the same address into every process that uses it. The region is
divided into blocks; in them live heaps, B-trees, queues, logs and locks that
all the processes work on with ordinary pointers. There is no server: what
keeps these data structures whole is the code in `src/src`, run by any number
of threads of any number of processes.

This directory holds TLA+ modules of that code, the TLC configurations that
check them on small instances, and proofs that TLAPS checks. `PROJECT.json`
maps each definition to the lines of code it stands for, and lists the runs,
the faults that show that each property can fail, the hazards, the findings
and the theorems.

Contents: 1 the system, 2 what is modelled, 3 the runs, 4 fairness,
5 the proofs, 6 findings, 7 what is not modelled and the plan.


## 1. The system

### Components, their state and their operations

| component | code | state | operations |
|---|---|---|---|
| user lock | `sasulock.cpp` | spin lock `data_lock`, status, table of readers, counts of readers and of waiting threads, two semaphores, the writer's id and depth | `read_lock`, `write_lock`, `unlock`, inside them `thread_sleep`, `thread_wakeup` |
| lock list | `saslockl.cpp` | one list of user locks per hash value, under a user lock of its own | `lockNode`, `unlockNode`, reset |
| master lock, SAS locks | `sasmlock.cpp`, `saslock.cpp` | the 256 lock lists, in a heap in the lock segment | `SASLock`, `SASUnlock` of any address |
| single producer, single consumer queue | `sphsinglepcqueue.cpp` | ring of entries, `qhead`, `qtail`, the flags of each entry | allocate (try, spin, raw), complete, get (try, spin, even when not complete), poll, free, free space, reset |
| multiple producer, multiple consumer queue | `sphmultipcqueue.cpp` | the same ring | allocate and get, under the SAS lock of the queue or without it, complete, free, free space, empty and full, reset |
| lock-free logger | `sphlflogger.cpp` | log area, `next_free`, options, wrap flags | allocate an entry (raw, strided, time-stamped), complete, iterate |
| log portal | `sphlogportal.cpp` | table of loggers | choose and replace the logger that threads write to |
| bit vector allocator | `bitv.c` | a word of bits | allocate a run of bits, free it, both by compare-and-swap, with or without end marks |
| lock-free heap | `sphlockfreeheap.cpp` | bit vectors over the units of a block | allocate, free |
| block allocator | `sassim.cpp`, `sasalloc.cpp` | region header, free and used blocks as trees, segments, one semaphore | join and leave the region, allocate and free a block of a power of two, attach segments on demand |
| tree of blocks | `ultree.cpp` | binary search tree keyed by address or size | insert, remove, search equal, at least, at most |
| free lists | `freenode.c` | list of free pieces ordered by address | allocate first fit, free with joining of neighbours |
| simple heap, space, stack | `sassimple*.cpp` | a block and its free list or its bounds | create, allocate, free, destroy |
| compound heap | `sascompoundheap.cpp` | list of simple heaps in blocks of one size, an expansion policy | allocate, free, expand, destroy |
| index | `sasindex.cpp`, `sasindexnode.cpp`, `sasindexenum.cpp` | B-tree of binary keys, spare nodes, count of changes | insert, replace, remove, search, enumerate |
| string B-tree | `sasstringbtree*.cpp` | B-tree of strings | the same |
| context | `sphcontext.cpp` | names and addresses, in a string B-tree and an index | add, remove, find by name or address |
| atomics, barriers; shared memory; clocks and thread ids | `sasatom*`, `sasshm.c`, `sasio.c`, `sasmsync.c`, `sphtimer.c`, `sphthread.c`, ... | - | single machine instructions and calls of the system |

### How they interact

* All of them live in blocks that the block allocator gives out, which is why
  its trees are the first thing a process needs; those are guarded by one
  semaphore of the system, not by SAS locks.
* Every locking data structure (index, string B-tree, context, heaps, stack,
  the multiple producer queue) calls `SASLock` on its own address. The
  master lock hashes it to a lock list; the lock list finds the user lock that
  has this address, or gives it one; the user lock makes the caller wait.
  The chain is one of shared state and calls: the list's own lock must be held
  until the item's `data_lock` is taken.
* The queues and the logger avoid locks: their threads communicate by the
  flags of an entry's header (`sphlfentry.h`) and by two offsets or one counter,
  with barriers between some of the stores.
* The heaps stand on the free lists, the compound heap on simple heaps, the
  lock-free heap on bit vectors, the context on both trees, the log portal on
  the loggers.

### What is hard about it

* *Interleaving.* In the locks, a thread decides, sleeps and is woken in
  separate sections, and another thread runs between any two. In the queues
  each load and each store is a step of its own, and some stores may become
  visible in the other order, since the barrier between them is missing or was
  taken out (`sphsinglepcqueue.cpp:848`).
* *Stale reads.* `thread_wakeup` reads a count after the lock that guards it was
  released; the search of the lock list reads the address of an item without
  the item's lock; `FreeSpace` and `IsEmpty` of the queues read what others
  are storing.
* *Waiting.* A semaphore carries one kind of wakeup for two kinds of waiter;
  spinning calls depend on the other side to make progress.
* *Long sequences.* Splitting and joining of blocks, of free pieces and of
  B-tree nodes must stay right over any sequence of calls.
* *Partial failure.* A split copies keys into memory that may run out, an add
  enters a name in one tree and its address in another, a segment's file cannot
  be made after its address was taken: what was done must be taken back.
* *Crashes.* A process that dies while it holds a SAS lock leaves it held: the code
  has no recovery for this, and the models have none. The semaphore of the
  region can be reset, and what a process leaves in the trees that dies between
  two operations on them is modelled (`SASRegion`).

### What makes each component correct

* User lock: a write lock is exclusive; the lock's records are what the callers
  hold, as `unlock` goes by these alone; no wakeup is lost; each call returns if
  the holders unlock.
* Lock list: all the threads that lock an address meet at one item, at most one
  item has an address, and items are used again.
* Queues: what is allocated is got once, in the order of the allocates, and
  only when complete; an entry is in one thread's hands; a full queue gets room,
  a completed entry is delivered; sizes are what they are said to be.
* Logger: no two threads get the same piece of the log, nor one that runs past
  its end; one thread wraps a circular log, when it is full, and some thread does;
  what was completed is read out, oldest first.
* Portal: loggers are filled one after the other, none is skipped, and a call
  fails only when all are full.
* Bit vectors and lock-free heap: no bit is given out twice nor lost.
* Block allocator, free lists, heaps: live pieces do not overlap, and with the
  free ones they are the whole; what is freed can be allocated again.
* B-trees: order, fill and depth of the nodes; search finds what was inserted and
  not removed; every page and every key's memory has one owner; an enumeration
  goes to the next key whatever happened since.
* Context: the two trees are each other's inverse; a project has one context,
  whoever sets it up.


## 2. What is modelled

| module | extends / instantiates | models |
|---|---|---|
| `RWLock` | | abstract: what a SAS lock promises |
| `SasUserLock` | instantiates `RWLock` | `sasulock.cpp`, one lock object |
| `MCSasUserLock` | extends `SasUserLock` | small instances |
| `SasUserLockProofs` | extends `SasUserLock` | theorems |
| `SasLockList` | | `saslockl.cpp` with the items it finds, as `SASLock` reaches it |
| `MCSasLockList`, `SasLockListProofs` | extend `SasLockList` | small instances, theorems |
| `BoundedFifo` | | abstract: what a queue promises |
| `SinglePCQueue` | instantiates `BoundedFifo` | `sphsinglepcqueue.cpp` |
| `MCSinglePCQueue`, `SinglePCQueueProofs` | extend `SinglePCQueue` | small instances, theorems |
| `MultiPCQueue` | instantiates `BoundedFifo` | `sphmultipcqueue.cpp` |
| `MCMultiPCQueue`, `MultiPCQueueProofs` | extend `MultiPCQueue` | small instances, theorems |
| `LFLogger` | | `sphlflogger.cpp`, any number of logs |
| `LogPortal` | extends `LFLogger` | `sphlogportal.cpp` over its loggers |
| `MCLogPortal` | extends `LogPortal` | small instances of loggers and portals |
| `LogPortalProofs` | extends `LogPortal` | theorems about loggers, portals and their iterators |
| `LockFreeHeap` | | `sphlockfreeheap.cpp` on `bitv.c` |
| `MCLockFreeHeap`, `LockFreeHeapProofs` | extend `LockFreeHeap` | small instances, theorems |
| `ULTree` | | `ultree.cpp`: the trees of blocks, as operators on trees |
| `SASRegion` | extends `ULTree` | `sassim.cpp`: processes, segments, blocks |
| `MCSASRegion` | extends `SASRegion` | small instances; `ULTree` against sets of keys |
| `FreeList` | | `freenode.c`, as operators on lists |
| `SimpleHeaps` | extends `FreeList` | `sassimpleheap.cpp`, `sassimplespace.cpp`, `sassimplestack.cpp`, `sasalloc.cpp` |
| `CompoundHeap` | extends `SimpleHeaps` | `sascompoundheap.cpp` |
| `MCCompoundHeap` | extends `CompoundHeap` | small instances |
| `OrderedMap` | | abstract: what a B-tree promises |
| `IndexSpace` | | the pages of a B-tree, block by block |
| `IndexNode` | extends `IndexSpace` | `sasindexnode.cpp`, as operators on nodes |
| `SASIndex` | extends `IndexNode`, instantiates `OrderedMap` | `sasindex.cpp`, `sasindexenum.cpp`, `sasstringbtreeenum.cpp` |
| `MCSASIndex` | extends `SASIndex` | small instances; the binary search of long nodes |
| `StringBTreeNode` | extends `IndexNode`, `FreeList` | `sasstringbtreenode.cpp`: keys with memory |
| `SASStringBTree` | extends `StringBTreeNode`, instantiates `OrderedMap` | `sasstringbtree.cpp` |
| `MCSASStringBTree` | extends `SASStringBTree` | small instances |
| `Associations` | | abstract: what a context promises |
| `SPHContext` | extends `FreeList`, instantiates `Associations` | `sphcontext.cpp` |
| `MCSPHContext` | extends `SPHContext` | small instances |
| `MemoryProofs` | extends `SPHContext`, `CompoundHeap` | theorems about free lists, contexts and project calls; the layout of the memory of heaps, and what calls on pieces, creates and destroys leave of it |
| `CompoundHeapProofs` | extends `MemoryProofs` | calls on pages, locks; theorems about heaps |

In each module a definition whose name ends in `_Fault` is the form that a
plausible mistake would give to the definition after it. It is used by no
action; the list of mutants in `PROJECT.json` says which property finds it.

### User lock (`SasUserLock`)

The variables have the names of the fields. `readers` is the table of readers,
as a function from the thread to its count (a thread has one slot at most,
which `read_lock` looks for first). A section under `data_lock` is one action,
named for what it does: `ReadSleep`, `ReadGrant`, `Reserve` (a writer marks the
lock exclusive), `WriteGrant`, `UnlockReader`, ... `pc` is the place between two
sections, so a thread can be anywhere in the code while the others run. Two
places need finer steps. A woken thread takes `data_lock` and lowers its waiting
count in one action and tests its loop condition in the next, because
`thread_wakeup` reads the count without the lock. And a wakeup is performed
after the lock was released, semaphore by semaphore (`WakeOneWriter`,
`CountWaitingReaders`, `PostReader`).
`mode` and `held` are ghosts: what the program was granted. That they agree with
the lock's own records is a theorem (`RecordsAgree`), not an assumption.
A full reader table leaves `data_lock` held for ever, as in the code
(`ReadTableFull`).

### Lock list (`SasLockList`)

One of the 256 slots: all the addresses with one hash. The search of `lockNode`
(`SearchHit`, `SearchMiss`, `UseFree`, `AddItem`) is a step per item, since the
items it looks at are being locked and unlocked meanwhile. The list's own lock
is one variable, which is what module `SasUserLock` shows of a lock only
ever taken for writing. An item is a user lock without its semaphores: a waiter
may go on whenever its loop condition is false. So every order of grants that
the code has is there, and a lost wakeup, which the other module shows, is not.

### Single producer queue (`SinglePCQueue`)

Offsets are slots `0..N-1` in place of addresses; an entry's header is one of
`zero`, `allocated`, `complete`. An action does at most one load or store of
what the other thread stores. `pstores` and `cstores` are the stores that a
thread has still to do, in the order they become visible in: where the code has
no barrier between the two stores of an allocate or of a free, both orders are
possible (`ProducerStores`, `FreeOrders`). The producer may have several open
entries and completes them in any order. The consumer has all three gets, with
polling.

### Multiple producer queue (`MultiPCQueue`)

The same ring, with the difference that makes the component: a consumer gives an
entry back at any time after it got it, so the header alone tells whether an
entry is free (`taken` is the state between). `Begin` is `SASLock`, `End` is
`SASUnlock`; `unlocked` is the set of the threads that use the calls without a
lock, which a thread may only when it is alone on its side (`SPHSPMCQ...`,
`SPHMPSCQ...`). The lock is one variable with its holder, which is justified by
the theorem `LockImplementsRWLock` for the user lock below it and limited by
the finding about addresses that share a slot (section 6). The two stores of a
call are done in either order. With hardware transactions both stores are one
step: its behaviours are among those of the model.

### Logger (`LFLogger`)

An address is an offset into the buffer of a log, `0..Cap`; `mem` is the headers
in it. The fetch-and-add on `next_free` is one step with the test of its result
(`AllocTimeStamped`: the entry fits; the log is circular and the thread is the
primary or waits; it fails). Then come, each a step, the header (`WriteHeader`),
the primary's swap (`Wrap`) and its mark (`MarkWraped`), the look of a waiting
thread (`Secondary`), the next try (`Again`), the two halves of
`SPHLFLoggerResetIfFullSync`, and the completion. The tail calls by which the
code retries are jumps. The calls without the lock are one step, for the only
user of a log. `use` says what a program does with its logs (circular or not,
sizes, raw entries, resets, who calls), so that one run covers the documented
uses and no other: entries of one size in a circular log, no raw ones there, and
resets only where the header file has them, in tests. `SetCachePrefetch` does
what the code does: it keeps the prefetch bits of the options and clears the
others, so a circular log is circular no longer.

The iterator changes no shared state. It is an operator (`CreateIterator`,
`HasNext`, `IteratorNext`), and `ReadOut` is the sequence it returns when it is
used to its end.

### Log portal (`LogPortal`)

The portal has the variables of the loggers and its own: the list, the index of
the current logger, the number of loggers. `place` is where in the portal a
thread is while its `pc` in a logger is idle. A call is up to five steps: the
load of the current index, the allocate there, the test for full and for a next
logger, the compare-and-swap, the allocate from the next; and again from the
start. Loggers are added while no call is under way. An add to a full list
leaves the count one too high, as in the code; a thread that then follows the
slot behind the list is at `crashed`.


### Lock free heap (`LockFreeHeap`)

A word of a bit vector is the set of its bits, counted from the left. Each load
of a word, each compare-and-swap and each fetch-and-or is a step; the search in
the copy of a word (`Fits`) belongs to the load. An allocate goes from word to
word (`TestWord`, `NextWord`), takes the bits (`Swap`, which `Reload`s when
another was first, and in a plain search gives up after two lost swaps) and then
sets the end mark (`Mark`); a free reads the end mark (`LoadEnds`), computes the
piece (`LoadBegin`), takes the mark off (`Unmark`) and gives the bits back
(`GiveBack`). A request that the tests of size and alignment refuse
(`Refused`) tries no word, and an alignment below half a unit finds each word
without room (`TooFine`). An aligned search that the code never ends is at the
place `endless`. `owned` is a ghost: the pieces that the programs have. The header
takes the first units of the first word and has no end mark.

### Region (`SASRegion`, `ULTree`)

The unit is a page, a size its logarithm. `anchor` is the block in segment 0
with the five trees, the flag and the semaphore, `store` the segments that have a
file, `attached` what each process has mapped, `asleep` who sleeps in `sem_wait`;
the semaphore has a count and the number of sleepers it knows of, which
`sem_init` sets to none. `pc` is where a process is between
two steps: it joins (`JoinAttach`, or `CreateAnchorSeg`, `InitTrees`,
`InitSASSem`, `AttachAllocatedSegs`), takes the semaphore, takes a block from the
free tree, the tree of uncommitted blocks or the region, makes the segment's
file, enters it, enters the block in the used tree; a free takes the block off
(`RemUsed`), clears it outside the semaphore (`Clear`) and puts it back joined
with its buddies (`AddFree`). `Touch` is the fault handler. A process may crash at
each of these places, while it makes the region, waits or is inside; `lost` is a
ghost for what a failure or a crash leaves out of all the trees, so the
partition of the region says of a lost block only that nobody else has it. A
tree operation is one step, also for crashes: the code has it under the
semaphore, but a process that dies inside one (between the two stores of
`ultree.cpp:324`, or between the removals and inserts of one `p2Dealloc`) leaves
a tree that the models do not have. The same holds inside `initRegion`. `ULTree`
has the trees as values, nodes with two branches; their memory in the anchor is
not modelled.

### Heaps (`FreeList`, `SimpleHeaps`, `CompoundHeap`)

`FreeList` is a sequence of pieces ordered by address. Addresses go through the
whole region, so one function `hdr` has the header of each page. A block that goes back
to the region loses its header, since `SASBlockDealloc` clears its first page; those of
the pages inside it stay, as in the code, and are found there by `FindHeader`,
which tries the same sizes the code tries (`ProbedSizes`). A simple
heap is a free list, a stack a pointer, a space one piece. A call of a simple
heap is one step, since it is under the heap's lock. A compound heap locks part
after part, each in a step of its own (`LockFirst`, `LockLast`, `Scan`), and works
in the step that takes the last of them. An expansion is a step for each call of
the region, between which the others take and give blocks: `TakeBlock` takes one for
the new part; when the list of parts is full, `MoveList` takes one for the list,
`GiveBlock` gives the first back, and `TakeBlock` asks again, perhaps in vain.
Only in the calls without locks, by a program that is alone, is it one step
(`Expand`). `use` names the calls that the programs of a behaviour make.

### Index (`IndexSpace`, `IndexNode`, `SASIndex`)

A node is a record with its count, its slots and its branches; a branch is a
node, so a tree is one nested value, and each function of `sasindexnode.cpp` is
an operator from trees to trees that also takes and returns the space: the number
of free pages of every block. A call holds the lock of the index from its first
step to its last and is one action. Keys are numbers in the order of the
comparison. A run starts from the trees that its `Loads` build by puts and removes
and makes `MaxCalls` calls. An enumeration (`cursor`) keeps a key that it
points to in the tree; the mark `at` in a slot follows that copy through splits
and moves, and is lost when the memory is freed. `contents` is the map read off
the nodes after each step; it is a variable so that TLC computes it once.

### String B-tree (`StringBTreeNode`, `SASStringBTree`)

The same trees with what is different: a key has memory in its node's page or in
a spill area of the node's block. Each node has a free list, each block a list of
spill areas; a slot says where its key is. All copying of keys of the code is
there: into a node that runs full, out of a spill area when there is room again,
from page to page in splits, moves and joins, and the memory freed or, where
the code forgets it, lost. Searches, pages and enumerations are those of the
index, whose code differs by `strcmp` and a line.

### Contexts (`SPHContext`)

A context is two maps (what the trees are shown to be) and a small heap for the
copies of names; an add or a remove fails in the middle as in the code and undoes
what the code undoes. Processes find projects by the root context: a project call
takes the lock of the low end of the region and makes several calls on the root,
each a step, with others between them; the context it makes, its failure to
enter it and its destruction are steps too.


## 3. The runs

| run | instance | checks |
|---|---|---|
| `UserLock` | 3 threads, 2 reader slots, 2 lock calls each: writers; a writer and readers; a reader and two that do both | `ImplementsRWLock`, `OnlyRivalsSleepOn`, `EveryCallReturns` |
| `LockListOneKey` | 3 threads on one address, or 1 thread on two; 2 calls each | `KeyExclusion`, `HolderIsFound`, `SlotInv` |
| `LockListSharedSlot` | 2 threads, two addresses of one slot, 2 calls each | `KeyExclusion` is violated |
| `SinglePCQueue` | 3 entries, 2 payloads | `PayloadStable`, `ImplementsBoundedFifo`, `EntriesDelivered`, `AllocReturns` |
| `MultiPCQueue` | 3 entries, 2 payloads; 2 producers and 2 consumers, or one alone on a side, with and without the lock | `SpaceIsThere`, `ImplementsBoundedFifo`, `HeadComesFree` |
| `Loggers` | logs of 6 units; entries of 2 and 3, raw ones, or resets by two threads; a circular log by three; each by one thread alone; a portal of two logs | `LogInv`, `ReadOutsAreLogs`, `WrapsOnlyWhenFull`, `FullLogWraps`, `FailsOnlyWhenAllFull`, `PortalCallReturns` |
| `LockFreeHeap` | 2 threads, 2 words of 3 units of 4 bytes, requests below 2 units (`MaxUnits`), plain and aligned | `HeapInv`, `ReportsAgree`, `NullMeansNoRoom`, `CallsReturn` |
| `SASRegion` | 2 processes, 4 segments of 4 pages, 4 calls, 3 joins, a failure, a crash, a reset | `RegionInv`, `NullMeansNoRoom`, `CallsReturn` |
| `Heaps` | 12 pages; ten uses by one thread or two, 6 to 10 calls | `HeapsInv`, `SomebodyRuns`, `FailsOnlyWhenFull` |
| `Index` | nodes of 3 keys, 10 keys, five starting trees of up to three levels, 3 calls | `TreeInv`, `SearchesFindNeighbours`, `ImplementsMap`, `EnumGoesToNextKey` |
| `StringBTree` | the same with keys of two lengths and three units of memory in a page; six starting trees | `TreeInv`, `KeysAreSafe`, `ImplementsMap`, `OnlyPutsLoseMemory` |
| `Contexts` | 2 processes, 2 projects, 3 blocks, 4 names, 2 addresses, 4 calls | `ContextInv`, `SetupFailsOnlyWhenFull`, `ImplementsAssociations` |

What they show, in words:

* *The user lock is a read/write lock.* Seen through its own records it
  implements `RWLock`, whatever the interleaving. Its calls return when the
  programs of the behaviour read or write each, fit into the reader table, and
  have no more than one writer if any reads (`WakeupsSuffice`). In the other uses
  they need not (section 6), and `OnlyRivalsSleepOn` says how far that goes: when
  nobody is left to wake anybody, a thread still sleeps only where one writer
  waits for the readers to be gone and another for the lock to be free. The
  counts of waiting threads that `thread_wakeup` reads too late, and the posts
  too many that the semaphores start with and collect, lose no wakeup.
* *A slot of the lock table works for one address*, and for one thread with
  several; the search and the hand-over from the list's lock to the item's keep
  lock and unlock at one item. With two addresses in a slot exclusion is lost.
* *The single producer queue is a FIFO of N-1 entries*, with a header of an entry
  clear whenever an allocate reaches it, although the two stores of a free may
  be seen in the other order: an entry is only reached after one more free.
  Completed entries are delivered, spinning allocates return.
* *The multiple producer queue is a FIFO of N entries* with one owner per entry,
  for locked calls and for the lone unlocked one; a full queue gets room when
  entries are freed, in whatever order.
* *The logger gives each entry to one thread and wraps when full.* Exactly one of
  the threads that run past the end restarts the log, also when the last entry
  ends at the end of the buffer. The iterator returns what was completed, oldest
  first, under the conditions that `Readable` and `ReadableRound` name.
* *The portal fills one logger after the other*, also when a thread learns late
  that its logger is full; a call fails only when all are full, and its retries
  end unless an add was refused before.
* *The lock free heap gives no unit to two owners and loses none*, although end
  marks and bits change in separate steps. A call that has the heap to itself
  fails only when there is no room or when it asks for what the code does not take
  (`Taking`: fewer than `MAX_UNITS` units, and no alignment or a power of two
  from half a unit to a word); frees and plain allocates return.
* *The block allocator partitions the region*: what is free, used, held, in a
  process's hands and lost is each page once, at each step, through crashes and
  failures; free buddies are joined; each block held can be mapped by every
  process. An allocate fails only when there is no block; calls return unless
  somebody crashes inside, or slept on the semaphore before it was made
  (section 6).
* *The heaps partition their blocks*, whichever of the calls is used, and no block
  is lost or shared while a list of parts moves; calls cannot all wait for each
  other, but for a near allocate and another call in a heap that expands
  (`Crossed`, section 6); an allocate fails only when its heap is full and cannot
  grow, or when others took the block it gave back to move its list.
* *The index is a B-tree and an ordered map.* Order, fill, depth and pages are
  right after each put and remove; the four searches find the neighbours of any
  key; a step of an enumeration goes to the next key although the tree changed.
* *The string tree keeps every key's memory* to one key, in pages and spill areas,
  and loses memory only in a put that adds a key (section 6).
* *Contexts stay one to one*, the copies of names apart, and each project has one
  context, whatever the processes set up and destroy at the same time.

Bounds. `MaxCalls` bounds the calls of a thread: two are enough to lock again
while waiting, to wait again after a wakeup and to meet a table that was full.
Three threads make one hold, one wait and one come late; the known
counterexamples need no more. Two reader slots make the table fill up. Three
entries of a ring make "full", "empty", "one" and "wrap" different states, and
two payloads tell a stale entry from a new one: contents are only copied. The
queues need no bound on the number of operations, since their state is finite;
neither does the lock free heap.
In the loggers `MaxCalls` is for all threads: five calls fill a log of three
entries and begin its second pass; in the portal they fill a logger of three
units, in both ways (to the end, and short of it), and go on in the next.
In the region four segments let blocks come from each of the three sources,
sizes of one page and of a whole segment are split and joined over two levels,
and four calls use up the region. The failures, crashes and resets are one each
because the model shows what each leaves behind and goes on. In the heaps twelve
pages are three blocks of four or six of two, `ListMax` 2 makes a compound
heap's list grow out of its header with its third part; in `Shared` two heaps do
so at once, and one can take the block the other gave back. The trees have nodes of
three keys (the code computes the number from the page and the key size), the
least in which both halves of a split have a key; ten keys make three levels, and
each starting tree is one call away from splits, moves and joins on several
levels; that the binary search of nodes with eight and more keys agrees with the
linear one is an assumption TLC evaluates for 6 to 34 keys
(`LongNodesAreSearched`), like the operations of `ULTree` on all trees of five
keys (`TreeOperations`). In the string tree every third key is long, a page has
room for three units and a spill area for four: two spill areas and keys far
from their node occur. Guards keep away from the places where the code is
undefined (`HasRoom`: a put into a full region). In the contexts the processes
and the addresses are symmetric, and no property is a liveness property; the
names of both lengths fit the heap or not.
No run depends on the bound of another, and the safety results for locks,
queues, loggers, the heaps and contexts are proved without bounds (section 5).
That the uses in the run of the heaps are those of the theorems is an assumption
TLC evaluates (`UsesAreSafe`).

`CHECK_DEADLOCK FALSE` is in the configurations in which calls are counted: with
their calls used up the threads stop. The queues and the lock free heap never
stop, and deadlock is checked. In `Heaps` the property `SomebodyRuns` takes its
place: threads inside calls never all wait, but for two that are `Crossed`.


## 4. Fairness

* `SasUserLock`: weak fairness for each thread inside the lock's code and for
  its unlock, not for making a call. The threads are scheduled by the system,
  and programs release what they lock. Semaphores are not fair in the model: a
  post may be taken by any sleeper.
* `SinglePCQueue`: weak fairness for either thread's code; the consumer keeps
  asking (the documented loops do); the producer completes what it allocates,
  with strong fairness because each time it may be in another call. It need not
  allocate.
* `MultiPCQueue`: weak fairness for calls under way, strong fairness for
  consumers beginning a get and for completing and freeing *some* entry; not
  for each thread and not for each entry. Strong, because a lock that is free
  again and again, or a program that is idle again and again, is not
  continuously so.
* `LockFreeHeap`: weak fairness for each thread's code. A swap that fails costs one
  of two tries, so no stronger fairness is needed.
* `SASRegion`: weak fairness for each process's code between its calls' begin and
  end, not for making a call, joining, crashing or touching memory. A waiter
  for the semaphore may wait for ever while others keep taking it; their calls
  are bounded in the run, so `CallsReturn` says that none blocks another.
* `LFLogger`, `LogPortal`: weak fairness for each thread's code, and it completes
  the entries it has; not for making a call.


## 5. The proofs

All theorems hold for every set of threads, values and every ring size; nothing
is bounded but what the named assumptions say (`LockAssumption`: finitely many
threads, at least one reader slot; `RingAssumption`: at least two entries;
`QueueAssumption`: at least one entry, no thread both producer and consumer;
`LogAssumption` and `PortalAssumption`: the documented uses of a log, for any
size of buffer, entry and list; `HeapAssumption`: at least one word and one bit,
requests that fit a word; `SlotAssumption`: finitely many threads and keys;
`ContextAssumption`: a heap is what its block leaves after the header and is whole
nodes, the region has a block, address values of programs are no contexts;
`HeapsAssumption` and `CompoundAssumption`: pages and headers are whole nodes, a
header is shorter than a page, `SASFindHeader` tries a page first, a list in a
space is longer than one in a header).
TLC evaluates these assumptions in the runs. Two components have theorems with
more hypotheses, of which below: the lock list (`NeverShared`) and the heaps
(`SafeUses`).

### User lock (`SasUserLockProofs`)

`LockInvariance` proves `LockInv`, the conjunction of

* `SpinInv`: a thread holds `data_lock` exactly at the places under it;
* `ChosenInv`: "exclusive" stands for one writer, which owns the lock or waits for
  the readers, and no other;
* `WaitingInv`: a thread inside the lock's code holds nothing;
* `Bookkeeping`: records and grants agree;
* `CountInv`: the total is the sum of the reader table, written as the
  cardinality of a set of pairs so that no recursion is needed.

None of the properties is inductive alone: exclusion needs that a writer was the
only chosen one and found the total zero, the total needs the table to be the
sum, and `unlock` reads the total to tell a reader's lock from a writer's.
From `LockInv` follow `TypeCorrect`, `Exclusion`, `RecordsAgree` and
`LockImplementsRWLock`, where each grant and each release is a step of `RWLock`
and everything else is a stutter.

`OnlyRivalsSleepOnHolds` is about wakeups and needs `WakeInv` beside `LockInv`
(`WakeInvariance`): the two counts are the numbers of threads at the sleeping places;
while a writer sleeps for readers that are gone, or for a lock that is free, a post
for the writers is there or on its way, or a writer that waits for the lock is
awake or asleep with the post used (that one is the rival); and while the lock is
free with no writer about, the readers' posts that are there and those that the
last wakeup has still to make are as many as the readers asleep.

### Lock list (`SasLockListProofs`)

The theorems are for slots whose addresses are never shared (`NeverShared`): either
all the threads use the same address, or one thread uses all there are; any
number of threads, addresses and calls. Without this they are false: the run
`LockListSharedSlot` shows an item that is being locked for one address and, having
no address yet, is given to a second one (section 6).

`ListInvariant` proves `ListInv`, from which `KeyExclusionHolds`, `HolderIsFoundHolds` and
`SlotInvHolds` follow. It is the conjunction of

* `HoldsInv`: what a program has locked is its own address, and some item has it;
* `ItemsInv`: no two items have an address; the records of an item are the holds
  of its address, the total their sum; an item is marked by the thread that
  writes, or by one that waits for its readers, and by one at most;
* `CallsInv`: the list's lock is held exactly in the search and up to the entry of
  an item; the item a call is at has its address, or none and then no other item
  has it (`TargetInv`); what a search has passed does not have it (`SearchInv`);
* `SizeInv`: no more items than addresses in use.

None of the three is inductive alone. Exclusion of two programs needs that they
meet in one item, which needs that no search misses an item that another call
is about to give its address; and an unlock goes by the records of the item,
which must be the caller's. `TargetInv` is where `NeverShared` is needed: the address
that a woken thread writes into its item again is the one the item had.

### Single producer queue (`SinglePCQueueProofs`)

`QueueInvariance` proves `QueueInv`: an entry between `qtail` and `qhead` is
complete, or open at the producer, or one of the threads is between its two
stores; the others are clear with the same exceptions; what the consumer holds
is the complete entry at `qtail`. The exceptions are what makes it inductive
without an order of the unordered stores. From it: `QueueTypeCorrect`,
`RoomMeansClean`, `ConsumerUndisturbed`, `QueueImplementsFifo`. In the refinement
the store of `qhead` is the reservation, the valid flag the publication, the
store of `qtail` the taking.

### Multiple producer queue (`MultiPCQueueProofs`)

`QueueInvariance` proves `QueueInv`:

* `LockInv`: a thread in a call has the lock or its side to itself;
* `CallInv`: a call finds at its stores the flags it tested;
* `OwnerInv`, `OneOwner`: an entry a call works on is in nobody's hands, an
  allocated or taken one is in somebody's;
* `SpaceInv`, `SpaceIsThere`: how far FreeSpace has counted;
* `Between`: the allocated and complete entries are those from tail to head,
  where a call between its two stores counts as done (`HeadAfter`, `TailAfter`,
  `Queued`).

The last is the reason why headers and offsets never disagree, and needs all the
others. From it: `SingleOwner`, `FreeSpaceHolds` and `QueueImplementsFifo`, where
the *first* store of an allocate reserves and the first of a get takes,
whichever it is.

### Logger and portal (`LogPortalProofs`)

`LogInvariant` proves `LogInv`. What was given out in a pass ends at or below
`next_free`, so a fetch-and-add that fits is above all of it (`EntriesDisjoint`).
The entry a primary did not get lies across the end of the buffer and below
`next_free` (`OnePrimary`); a second primary would need one across the same
point. `CallsInUse` adds what a place in the code needs, and that resets and
primaries do not meet. `WrapsWhenFull` follows: the primary finds `next_free`
beyond the end whatever happened since its own fetch-and-add.

`PortalInvariant` proves `PortalInv` with `LogInv`: the list is filled from its
start, loggers before the current one are full (and stay so, as nothing lowers
`next_free` of a log in a portal), and a thread is at the current one or behind.
From it `EntriesFromCurrent`: a late thread finds its logger full; and
`FailsWhenAllFull`.

`LogsReadOut` and `ReadOutsHold` are about the iterators. What a state needs to be
read is `ReadInv`, for each log:

* `Tiled`: the entries of the pass lie side by side from the start to
  `next_free`, or to one (`LastGiven`) behind which an allocate did not fit;
* `Headers`: a header that was written is that of an entry within the buffer, and
  each entry given out has a valid one or is being filled;
* `FirstPass`: in the first pass the headers are those of the entries given out, and
  an entry is filled by one thread;
* `Round`: in a circular log that lapped no open entry and that entries of its size
  fill, entries are at multiples of the size (`Placed`), each with the header of
  its pass: this one below `next_free`, the one before from there on.

`CallsRead` adds what the calls know, such as that a log wraps only when it is
circular. Why each part is needed: the iterator goes by the lengths in memory, so
where an entry ends the next one must begin, and behind the last there must be
no header that is valid and ends below `next_free` (`Legible`); in a later pass
those left from the pass before are valid, and only their size and the position of
`next_free` tell them apart. A step changes one log at most, and that in one of six
ways (`Gives`, `Overflows`, `Restarts`, `StartsOver`, and two ways of `Writes`); each
keeps `LogRead` of it (`GiveKeeps` and so on), and `SameKeeps` that of the others.

The other half is the iteration. `Iterators` and `PortalReadOut` are recursive
functions; that they have a value, and satisfy their equation, is the lemma
`Iterated`. Then the place of the iterator after `k` entries is known
by the least `k` for which it would be wrong (`ReadTo`, `RoundTo`; `LeastNatural`), and
it ends because each entry is further on (`ReadsTheRow`, `ReadsTheRound`). In a
portal `PortalRead` says that only loggers up to the current one have entries, and
as those before it are full none is empty; so the iterator, which stops at an
empty logger, comes to all (`ComesToEntries`), and the read-outs of the loggers are
joined (`ListsJoin`).

### Lock free heap (`LockFreeHeapProofs`)

`HeapInvariant` proves `HeapInv`: pieces in the hands of programs, and those that
calls under way have taken or are giving back, share no unit with each other,
with the free bits and with the header (`Disjoint`); each has its end mark from
`Mark` to `Unmark`, and no other unit has one (`EndMarks`); and what a call has in its locals is still so where it relies on
it (`Locals`): a copy of a word may be stale, but a swap succeeds only on the word
it was made from. So a free of a piece finds the first end mark at the end of
that very piece: the units before it are the piece's own, and marks of others
come and go behind it. `OwnersAreApart` restates what a program sees.

`UnitsAccounted` adds the other half: a unit is free, in the header, owned, or in
the hands of a call, so none is lost. From both `ReportsAgreeHolds`: with no call
under way the counts of free units, the empty and the full test say what is owned.
`NullMeansNoRoomHolds` follows one call that the tests of size and alignment let
through from its begin: while it is the only one
under way it loses no swap, and every word it has passed had no room for it and
still has none (`AloneInv`).

### Contexts (`MemoryProofs`)

In four layers.

* *Free lists.* `GoodList` is a free list in order, pieces of whole nodes that do not
  touch. `AllocGood` and `DeallocGood` say what the list's operations do to the memory
  that is free: an allocate takes exactly its piece out of it, a free puts
  exactly its piece in, and both leave a good list, whichever neighbours join
  (`SpliceGood` is the one step that all of them are). `FirstFitGives` needs the
  least index of a piece that is long enough (`LeastNatural`).
* *One context.* `GoodContext`: a good list within the heap, trees that agree,
  copies apart and not free. `AddNameGives`, `RemoveByNameGives`, `RemoveByAddrGives`
  and `RenameGives` say what each call makes of a good context. An add has three
  ways to fail; each takes back what was done (`SameTrees`). A removal by address
  frees a byte less than was allocated, which a free of less than the piece
  allows (`Dropped`): the unit it may lose is in nobody's copy.
* *All contexts.* `ContextIInv` has types, good contexts, what a process in a project call
  relies on between its steps (`JobInv`), and whose each block is (`RootInv`).
  `ContextInv` is not inductive alone: that the removal of a name takes the context
  a step earlier found under it needs that nobody else could remove or enter the
  name meanwhile, so that a process in a project call has the lock of the low
  end, and that calls from outside of that lock leave names of projects alone.
  `ContextInvariant` proves it, `ContextInvHolds` draws `ContextInv` from it.
* *Steps.* `SetupFailsHolds`: when the add of a setup fails, neither the name nor the
  block can be in the root, so it is the memory. `ContextsImplement`: each call is
  a step of `Associations` on its context; making an empty context and the steps
  that only find are stutters, a destroy clears the book.

### Heaps (`CompoundHeapProofs`)

Any number of threads and pages, any uses. What is asked of the programs is
`SafeUses`. Nothing in the repository forbids the uses it leaves out; each conjunct
keeps away from something the code gets wrong (section 6): a size of zero; near
calls of simple heaps among blocks of several sizes, where `SASFindHeader` may
find an old header; and frees of pages in heaps that expand by more than one
thread, since a free unlocks the wrong lock there and what the locks guard is lost
Near allocates in heaps that expand are in it, for any number of threads: that they
can lock themselves out is part of what `SomebodyRuns` says (`Crossed`).
`HeapsStaySound`, `CallsNeverDeadlock` and `AllocFailsOnlyWhenFull` are about all
behaviours of `CSpec` for such uses.

The inductive invariant is `AllInv`. Its first part, `MemInv`, is the layout:

* `MemGood`: blocks are aligned and apart (`BlocksGood`). The memory of a live block
  behind its header is its free list and the pieces that programs have of it,
  exactly and without overlap (`Split`): of a simple heap or stack the pieces
  allocated (`SimpleGood`), of a part the pages given out (`PartGood`). A compound
  heap is the first of its own parts, which are all different, have it as base
  and its size; its list, when it has moved, is in a space that is a block and no
  other heap's (`CompoundGood`, `SpacesApart`). A page given out knows its part
  (`PageGood`).
* `CallGood`: a call between two locks has a heap that is there, stands at one of
  its parts, and frees a page that is one of them and that nobody else frees
  (`FreesApart`).
* `NearInv`: where near calls are made all headers, old ones too, are those of blocks
  of one size, so that the first one found is the right one. `ExpandInv`: no
  header has a list where nothing expands.

A block that goes back loses its header, but headers of the pages inside it stay,
so `MemGood` cannot speak of all headers: it speaks of those of live blocks, and
each create must be shown to write what `MemGood` asks of a header.
`Split` rests on the lemmas about free lists below: a page given out is a
first fit of one page, aligned because all pieces of a part are whole pages.

The second part, `BlocksInv`, is about what is between two steps of an expansion:
the block in the hands of a call is in use, of the size of its heap, nobody's and
no other call's (`HandGood`), and what has a list of parts or a space of its own is
a block in use (`HeaderGood`), so that a block just taken brings none along.

The third, `CallLocksInv`, is about locks. `LockGood`: a lock is held by those
calls that, by their place, have it, as often as they have it (`Depth`), and no
other is. It is what `SomebodyRuns` needs. Who has the lock of any part has that of
the heap, too, or is a near allocate that has the part it began with and waits
for the heap (`HolderHasHeap`). So a call that has the heap and cannot go on waits
for such a near allocate, which waits for it: they are `Crossed` (`HolderRuns`); and
if any call cannot go on, some call has the heap and runs, or is crossed. With
frees of pages, which release the heap in place of the part, the records are
wrong, and only the thread that has them is known: that is why they are made by
one thread. `LookGood`: a call that looks for room knows the part that is the last
one now, and the parts it has passed are loaded: nobody can free a page in them
behind it, or expand the heap, as it has their locks; and a call that expands has
passed all of them. Without it an allocate could fail although there is room.

A step changes one block, one list or one call, and the proof is by kinds of
change before it is by actions: pieces in a simple heap, a new block, a
destroyed one, a page taken out of or put back in a part, an expansion, a list
that moves; each says what it keeps of the blocks it does not touch
(`HeapKept`, `Grown`), and the actions are mapped to them.

### What is only model-checked

Liveness (`EveryCallReturns`, `EntriesDelivered`, `AllocReturns`,
`HeadComesFree`, `FullLogWraps`, `PortalCallReturns`, both `CallsReturn`): fairness
is out of this prover's reach. The region and the B-trees: their operations are
recursive over trees, and a module with a RECURSIVE operator is out of reach, too.
The violations, by nature.


## 6. Findings

*Two holders of one address* (`saslockl.cpp:231`, run `LockListSharedSlot`). An
item without an address counts as free, but a call writes its address into the
item only when the lock is granted (`sasulock.cpp:331`), after it has let go of the
list (`sasulock.cpp:193`). In the run t1 asks for k1 and adds an item; when it has
entered the item, and before it has its lock, t2 asks for k2 and takes the item for
a free one. t1 gets its lock of k1 and asks for k2, for writing; no item has k2, so
a second one is added, and granted. t2 then gets its read lock of k2 in the first
item and writes k2 over k1 there: a reader and a writer of k2 at once.

The same can come of an unlock: it takes the address off although threads wait
inside (`sasulock.cpp:513`), the item is given to a second address, and a thread
that waited writes the first one into it again.

Seen while modelling, without a run of their own:

Locks
* A wakeup can be lost (`sasulock.cpp:447`). A writer that waits for the readers to
  leave "looks like a writer" and sleeps on the semaphore of the writers that
  wait for another one. The single post of the last unlock can be taken by one of
  those; it finds the lock still marked and sleeps again, and the writer it was
  meant for is not woken. One reader and two writers are enough.
* A full reader table leaves `data_lock` taken (`sasulock.cpp:345`).

Queues
* `SPHSinglePCQueueFreeSpace` compares `qhead` with `qtail` and reads `qtail` again
  to subtract (`sphsinglepcqueue.cpp:353`); a consumer that wraps in between makes
  the difference negative, and the result is unsigned.
* `SPHMPMCQIsEmpty` is the valid flag of the entry at the tail
  (`sphmultipcqueue.cpp:244`); a complete entry behind one that is not complete
  yet is not seen.
* With hardware transactions a call whose transaction aborts returns NULL like
  one that found nothing (`sphmultipcqueue.cpp:437`).
* A reset of a queue with entries in it leaves their flags set
  (`sphsinglepcqueue.cpp:234`).

Loggers
* In a wrapped log whose `next_free` stands at the last entry the iterator goes to
  the start of the buffer before it tests for the end, and goes round for ever
  (`sphlflogger.cpp:698`).
* A waiting thread compares `next_free` with where its own attempt began. If the
  log is wrapped and filled up to there before it looks, it waits for the next
  wrap, and for ever when nobody else writes (`sphlflogger.cpp:293`).
* When `next_free` of a wrapped log is exactly the end of the buffer, an iterator
  returns nothing (`sphlflogger.cpp:671`); when the stride does not divide the
  buffer, it stops at the tail.
* `SPHLFLoggerSetCachePrefetch` clears the circular bit
  (`sphlflogger.cpp:1017`).
* The first add to a full portal leaves its count one too high
  (`sphlogportal.cpp:206`); once the last logger is full, allocates follow the
  pointer behind the list.

Lock free heap
* An aligned search that meets no multiple of the alignment at the end of the word
  starts again on the same copy of the word (`bitv.c:379`) and never ends when
  nothing fits; the unmarked searches have the same loop.
* A request of exactly 32 units gets `NULL` though the units are free: the tests are
  `alloc_size < maxAlloc` (`sphlockfreeheap.cpp:185`, `:265`). The header says
  "a maximum allocation request of 32 * unit-size" (`sphlockfreeheap.h:43`).
  `NullMeansNoRoom` leaves it out by name (`Taking`): without the conjunct about the
  size TLC finds the first call of all refused in an empty heap.
* An alignment below half a unit, a power of two and no harder to meet than the
  unit, is taken for no power of two (`bitv.c:315`) and gets `NULL`.
* A plain search gives up on a word after two lost swaps, so an allocate can fail
  under contention although there is room.
* `SPHLockFreeHeapNearFind` checks for the type of a simple heap and never finds a
  lock free one.

Region
* `p2Alloc` has the offset of the block it splits in an unsigned int
  (`sassim.cpp:419`, `:441`): from 4 GB on, the halves get keys of lower blocks, a
  later free joins one with a page in use, and two programs are given it. The
  run keeps `UintSpan` above the region.
* `SASReset` makes the semaphore anew with the value 1 and posts it
  (`sassim.cpp:1692`): two processes can be inside from then on. The run
  keeps a region that was reset to one user (`SharedReset`). Others that had
  the old segments mapped go on with them.
* The list calls read the root of a tree before they take the semaphore
  (`sassim.cpp:1630`).
* A size that is no power of two is taken for 4K.
* A segment whose file cannot be made is lost until a reset (`lost`).
* A process that joins while another makes the anchor waits on a semaphore of
  zeros (`sassim.cpp:1228`, `:658`) if it allocates or frees before the other comes to
  `initSASSem` (`sassim.cpp:639`). `sem_init` wakes nobody and forgets that somebody
  sleeps, so later posts do not wake it either and its call may never return.
  `CallsReturn` excepts these (`Forgotten`).

Heaps
* `SASFindHeader` tries 4K, 16K, 64K, 1M and so on (`sasalloc.cpp:446`): an address
  behind the first page of a block of 8K or 32K finds nothing, or the header of an
  older page that is still there.
* A free of a page in a further part unlocks the heap in place of the part
  (`sascompoundheap.cpp:609`, `:1507`), so that others come in and the part stays
  locked when the call has returned; the heap is unlocked once more at the end,
  when this thread does not hold it any more. One thread is
  enough: create, two allocates of which the second expands, free of the second
  page; only that thread can lock the part then. TLC finds it when `HeapsInv` is
  asked for `LocksGoBack` in the use `OfTwo`. In `Heaps` such pages are freed by one
  thread, and the theorems ask it (`SafeUses`).
* A near allocate locks the part first and then the heap, an allocate the heap
  first and then the parts (`sascompoundheap.cpp:706`, `:449`): two threads in an
  expanding heap can wait for each other for ever. `SomebodyRuns` says that this is
  the only way (`Crossed`); without it the run has the deadlock, in the use
  `SharedNear`.
* When the list of parts is full, the expansion gives the block it has back and
  takes one again (`sascompoundheap.cpp:270`, `:271`). Another thread can take it in
  between, and then the allocate fails although there was a block for it, with
  the list moved for nothing.
* The near calls of simple heaps take no lock (`sassimpleheap.cpp:234`); those of
  compound queue heaps fall back to a simple heap (`sascompoundheap.cpp:1587`).
* The Init of a compound heap sets neither `expandSpace` nor, in a fixed heap,
  `expandList` (`sascompoundheap.cpp:180`): it counts on zeros. `SASBlockDealloc` clears
  the first page of a block only (`sassim.cpp:1212`), unless `sasClearOnDealloc` is
  set, so in a block that begins inside what was an older block's memory the two
  are what a program wrote there. The model has zeros in them.
* A piece as large as the heap is refused by a test with `<`.

B-trees
* A remove of a key that is not there lowers the count, a refused put and every
  replace raise it (`sasindex.cpp:1534`, `sasstringbtree.cpp:1508`): `IsEmpty` is
  wrong, and with a count of 0 the least and the greatest key are no longer
  looked up after a remove. In deeper trees they are looked up one level down
  only. An enumeration stops at the greatest key it was told.
* `curkey` of an enumeration points into the tree and may point at freed memory;
  the property is about enumerations whose key is there (`KeyIsThere`).
* An enumeration whose index was emptied meanwhile says for ever that it has more.
* `StartAt` lowers the last character of the start key, so that it also gives
  keys between the two.
* With locks, an allocate that expands over two blocks and more unlocks the last
  part twice; frees of pages unlock the tree in place of the part.
* A put in a full region follows a NULL page (`HasRoom` keeps the run away); a key
  that finds no memory is copied to NULL.
* The copy of a key that a split hands up into an existing parent is copied
  there, and the first copy is never freed (`sasstringbtreenode.cpp:1394`): the
  loss that `OnlyPutsLoseMemory` allows. Moves between siblings test keys against
  the parent's page, so near keys are copied again, to a spill area perhaps.
* `SASIndexIsEmpty` is documented to return 1 for an index that is not empty.

Contexts
* A name whose value is NULL cannot be removed or renamed by name.
* `RemoveByAddr` frees `strlen` bytes of a name that took one more: a unit is
  lost when that is a multiple of the alignment.
* The empty name is left out (`ContextAssumption` has names of one character and
  more): removing one by its address frees zero bytes (`sphcontext.cpp:484`,
  `:491`), which puts a piece of no size in the free list.
* Names are values in the model, not pointers. `RemoveByName` frees the stored copy
  before it takes the name out of the tree of names: `freeNode_init`
  (`sphcontext.cpp:159`, called from `:406`) writes over the copy, and `:417` then
  looks for `key`. A caller that passes the pointer it got from
  `SPHContextFindByAddr`, which is that copy, leaves the name in the tree.
* A rename to a name that exists loses the association.
* Another process keeps its pointer to a project context that was destroyed;
  the block may become another context.
* `sphcontext.h` calls the association one to one, and also says that an address
  can have several names; the code keeps it one to one.


## 7. What is not modelled, and the plan

Left out for good: the machine code of the atomic operations (one atomic step
each), calls of the operating system, clocks, printing, statistics, the typed
accessors of log and queue entries, prefetching, and a process that dies outside
of the block allocator.

Left out of the modules there are: the hash of the master lock and the set-up of
the lock table; reset and statistics of the lock lists; the failing allocation of
an item; destroying a queue in use; the arithmetic of strides; the reports of
the single producer queue; the memory of the nodes of the block trees; the
listing of blocks; the memory of an index's keys; the comparison of keys of
different lengths; failing creation of a context's trees; the unmarked calls of
the bit vectors, which nothing uses.

Still to do: for `SASRegion`, that its pages are a partition, with the trees
abstracted to the sets they are shown to be.
