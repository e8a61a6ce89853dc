# Formal models of the systems programming course repository

This directory holds TLA+ models of the programs of the repository, the TLC
configurations that check them on small instances, and TLAPS proofs that hold for
instances of every size. `PROJECT.json` lists components, runs, mutants, the map
from definitions to source lines, findings, hazards and theorems. Paths below are
relative to `src/`.

    tlc -workers 2 -config CounterServer.cfg MCCounterServer     # one run
    tlapm CounterServerProofs.tla                                # one proof module

## 1. Inventory

The repository is a set of independent exercises. Each has its own state and none
calls another; the components of one exercise do interact.

| Component | State | Operations | What is hard | What makes it correct |
|---|---|---|---|---|
| Spin lock, `task4-concurrency/src/spinlock.cpp` | one atomic word, the `expected` local of each call | alloc, free, lock, trylock, unlock | the outcome of a weak compare-and-swap is judged by `expected` alone | mutual exclusion, release, progress |
| Lock-based hash map, `task4-concurrency/src/hashmap.cpp` | table of buckets: mutex, sentinel, singly linked list | alloc, free, insert, remove, lookup, print | nodes are deleted at once and their addresses come back | no access to a deleted node, no leak, atomic calls, bucket snapshots when printing |
| Lock-free hash map, `task4-concurrency/src/lockfreehashmap.cpp` | table of sorted lists; the lowest bit of `next` is the mark of logical removal | the same six | every load and compare-and-swap interleaves; searches help removals and restart | sorted lists without duplicates, no lost node, linearizable results, calls end |
| Buddy allocator, `task5-memory/src/buddy_allocator.c`, `buddy_block.c` | bitmap over a complete binary tree for each page, chain of blocks of allocators | allocate, deallocate, reallocate | marks of inner nodes decide where a search descends; realloc unmarks before it knows where the bytes go | disjoint allocations, bytes survive realloc, bitmap exact, no needless page, copies that do not overlap |
| Slot allocator, `task5-memory/src/slot_allocator.c` | chain of arenas: slots with headers, a cursor | allocate, deallocate, reallocate, integrity check | headers inside used spans are client data; the cursor must stay on a span begin; nothing is locked | spans tile the arena, disjoint allocations, one new arena at most |
| Direct allocator, `task5-memory/src/direct_allocator.c` | chained tables of mapped regions | allocate, deallocate, reallocate | empty entries match NULL and keep their size; partial unmapping; kernel refusals | mapped pages are exactly the recorded ones |
| Dispatch, `task5-memory/src/allocator.c` | none of its own | malloc, calloc, free, realloc | which allocator a pointer belongs to; failure halfway through realloc | data survives, every pointer returns to the allocator it came from, calloc clears |
| Counter server and client, `task6-sockets/` | the counter, the list of descriptors of each worker, copies of it | accept, hand over, poll, receive, update, reply, close, erase; connect, send, receive | a descriptor is closed before its entry is marked and may be in use again; positions in stale copies; clients that die within a message | one owner per connection, an atomic counter, every waiting client answered |
| Shell, `task3-processes/` | processes, pipe ends, the line being run | pipelines, redirections, background lines, `wait`, `kill`, `exit` | which process holds which pipe end when; order of fork, close and wait; fork fails | the prompt comes back, nothing is left, nothing is lost |
| In-memory file system, `task2-fileio/memfs.cpp` | set of directories, map from paths to contents | getattr, readdir, read, write, create, mkdir | prefix tests on paths, resizing writes | listings and reads agree with what was made and written |
| External merge sort, `task0-sort/sort.cpp` | blocks, files, one asynchronous sorter | read, sort, write, merge | a block is sorted beside the asynchronous one; `tmpnam` is shared; files run out | output is the sorted input, memory bounded |
| System call wrappers and tracer, `task1-syscalls/` | the tracer's place between two stops | wrappers, trace loop | signal stops shift the parity | not modelled |
| Container, `task8-container/` | namespaces and mounts in the kernel | a straight sequence of kernel calls | everything is the kernel's behaviour | not modelled |
| RocksDB, `task7-performance/` | vendored third-party code | | | not modelled |
| Tests and build files | | drivers of the above | | read for what they expect |

Interactions. Threads of the tests call the task 4 components concurrently and share
nothing else with them. In task 5, `allocator.c` picks an allocator by size, and by
address for `free` and `realloc`; when one of them gives up in `realloc` the bytes move
to another. In task 6 the accepting thread pushes descriptors into lists which the
workers copy, poll and clean up, and the kernel decides which numbers are used again.
In task 3 the shell and its children share pipes. In task 0 the main thread and one
sorter share a name buffer and hand blocks over.

## 2. Modules

| Module | Models or states | Composes |
|---|---|---|
| `Threads` | the threads that share a lock or a map | |
| `Mutex` | what a mutex promises | |
| `SpinLock` | `spinlock.cpp` and its callers | refines `Mutex` |
| `ConcurrentSet` | what a concurrent set promises: every call takes effect at one instant between invocation and return | |
| `LockFreeHashMap` | `lockfreehashmap.cpp` | refines `ConcurrentSet` |
| `ConcurrentBag` | the same promise for a bag: values may be stored twice | |
| `LockHashMap` | `hashmap.cpp` | refines `ConcurrentBag` |
| `BuddyTree` | `buddy_allocator.c`: the arithmetic of one tree | |
| `BuddyBlock` | the loops of `buddy_allocator.c` and `buddy_block.c`, with their part of `allocator.c`, and a client that fills and keeps its memory | extends `BuddyTree` |
| `SlotAllocator` | `slot_allocator.c` and clients | |
| `DirectAllocator` | `direct_allocator.c` and the page requests of `common.c`: operators on a heap | |
| `Allocator` | `allocator.c` and its client | extends `DirectAllocator`; the small allocators by what they promise |
| `AtomicCounter` | what the server promises: one queue of requests for each client, applied to one counter | |
| `CounterServer` | `server.cc`, `client.cc`, `util.h`, `util_msg.cc` | refines `AtomicCounter` |
| `Shell` | `execute.c`, `main.c`, the kernel's processes and pipes | |
| `MemFS` | `memfs.cpp` | |
| `ExternalSort` | `sort.cpp` | |
| `*Proofs` | theorems and inductive invariants | extend the module they are named after (`LockFreeProofs`: `LockFreeHashMap`; `LockHashMapProofs`: also `SpinLock`, whose names begin with Spin where the two would clash) |
| `MC*` | symmetry sets and other finite sets for TLC | extend the module they are named after |

A definition whose comment begins "Seeded fault" is a variant of the definition that
follows it with one plausible mistake. No specification uses it; it exists to show
that a property notices the mistake ("mutants" in `PROJECT.json`).

### How state and actions correspond to the code

*SpinLock.* `lock` is the atomic word, `expected` the local of the same name.
`compare_exchange_weak` is one step and the test of `expected` another, because the
code does not look at the value the exchange returns. Each of the three exchanges may
fail although the word holds the expected value, which C++ allows; LL/SC machines do it,
x86-64 does not. `strays` counts such failures of an acquiring exchange, up to `MaxStrays`,
and `unreleased` says that the last release failed that way.

*LockFreeHashMap.* A step is one atomic load or compare-and-swap with the local
computation up to the next one. A word of type `Node*` is a record of an address and
the mark. The code never frees a node (its deletes are commented out), so addresses
are handed out once. `linked` and `seen` are history variables: `linked` is the set of
nodes physically in a list, and LinkedIsReachable ties it to the references; `seen`
records whether the key of a call was in the map during the call. Locals that are dead
in the code are Null. `List::print` loads `next` twice, as in the source, and a load
through a marked reference, undefined behaviour in C++, is the state "derailed".

*LockHashMap.* A step is one access to a list. A removed node returns to the free
addresses at once. `std::mutex` is external: it waits, and promises no fairness.
`free_hashmap` runs when no call is in progress.

*BuddyTree and BuddyBlock.* A bitmap is the set of marked nodes of the tree. A step is one
iteration of a loop (look at a node, go up, mark, unmark, try the next allocator); `pc` is the
loop and `cur` its locals, `call` the arguments of the call and what it has found out. The code
has no lock and is modelled with one caller. Looking for the allocator whose page holds a
pointer is part of the call's first step. The client's
allocations carry a tag that fills their bytes, so lost or overwritten data shows; an
allocation that a call is working on belongs to the call. An allocation is `stray` when
realloc_impl has unmarked it and was then refused by the direct allocator as well: the
client still holds it and cannot tell it from another. `misled` becomes true when it passes
one to free or realloc; the model goes on from there. The block's first page is assumed
granted (a refusal of the very first request ends the process). A
page is as many bytes as the tree has leaves times Granularity.

*SlotAllocator.* A step is one iteration of a loop over spans (skip a span, merge two, take
or cut one), so calls of several threads interleave inside an arena. A header inside a used span becomes client data; a call
that interprets it goes to the state "wild", where it is no longer followed. `adrift` records
that a reallocation has left the cursor of an arena inside a span.

*DirectAllocator and Allocator.* A call of the direct allocator maps a heap (the
tables, the pages they lie in, the contents of all mapped pages) to the set of its
outcomes, one for each decision of the kernel: where it maps, or that it refuses. A
block of the buddy or slot allocator is a cell that is free or in use and keeps old
contents; growing in place and moving are both possible, as `BuddyBlock` and
`SlotAllocator` show. The client fills what it gets from malloc, leaves what it gets
from calloc, and keeps its block when realloc returns NULL. If that block has been unmarked
on the way it is `lost` (the `stray` of BuddyBlock); `misled` becomes true when it is passed to
a call, or when two entries of the tables have the same address. A call that dereferences
NULL (`memset` in calloc without memory, `memcpy` in `realloc(NULL, n)`) ends the process.

*CounterServer.* Sections under a mutex touch one list once, so each is one step. `copy`
and `idx` are the locals of `server`; `list` is `args.sockets`. A message is its length
and its payload, which arrive separately; `recv_all` waits for the second. `close` and
the mark in the list are separate steps, and accept returns the lowest free number in
between. One of the two client programs may be killed at any time: what it sent completely
still arrives, then the stream ends. The counter inside `get_operation` is shared by the
threads of one program. `Without` describes `remove_if` with `erase`. For `AtomicCounter`
the queue of a client is `Unread`: what is left of the request a worker processes for it,
followed by the requests on the wire. A request counts as made when its payload has
arrived; `RequestsOf` counts the requests of a program as pairs of a thread and a number.

*Shell.* A process is identified by line and position, and so is the pipe it writes to.
`ends` says who has which end open, by inheritance (a child has everything the shell had
open) and by what the child closes before `execvp`. The recursion of `run_command` is the
counter `pos`: upwards in Spawn, downwards in Unwind. A failed fork yields the pid -1,
which `waitpid` takes for any child; a failed `pipe` ends the shell. Programs write, read to the end, or read one item.

*MemFS.* Paths are sequences of characters because `readdir` compares characters.
`history` records the writes, for ReadsBack only. What the kernel refuses before it
calls FUSE (a parent that does not exist, a name that does) is MayMake.

*ExternalSort.* The two halves of `std::string path = tmpnam(nullptr)` are two steps. A
line is a number, its size given by a constant; 0 is the empty line. A file that cannot
be opened gives a stream that ignores writes and has nothing to read.

`getIndex` computes `long % size_t`, so negative keys wrap modulo `WordMod` (2^64 in the
code, 16 in the runs) before they are reduced; the branch for negative indices in the
source is never taken.

## 3. Runs

| Run | Shows | Bounds and why they are enough |
|---|---|---|
| `spinlock` | exclusion, release, progress, refinement of `Mutex` | 3 threads: one inside, one waiting, one arriving; 2 spurious failures of acquiring exchanges, so that all three may be inside; releases may always fail. The safety part is proved for any number. |
| `lockfree_list` | list structure and linearizability | 2 threads, keys -3 and 0 (below the sentinel's key, and equal to it), 1 bucket, 3 insertions: insertion before, behind and instead of a node that is being removed, chains of two marked nodes |
| `lockfree_buckets` | printing shows the contents, calls return | 2 buckets, keys -3, 0 and 1: wrapping, the key of the sentinels, a collision |
| `lockhashmap` | no dangling access, atomic calls, snapshots, free, mutexes given back | 2 threads, 2 buckets, values -3 and 1, 3 nodes besides the sentinels' own: every deleted address is handed out again |
| `buddy` | disjointness, data, exact bitmap, no needless page, copies apart | tree of 4 levels, blocks of one allocator, 3 allocations alive, 4 kernel pages of which any may be refused: growth to the left, to the right, within the page, into another page and out of the component, refused moves and calls on what they leave. Proved for every instance. |
| `slot` | tiling, disjointness, one arena for each call at most | 5 slots, 2 arenas, 4 allocations, 7 calls, sizes of 0 to 6 slots: merging, splitting, growing in place, moving, full arenas, a size larger than an arena, cursors left inside a span and what follows. 8 calls were checked once (5,414,568 states). |
| `slot_threads` | *violation*: two threads that allocate at once get the same span | 2 threads, 4 slots |
| `allocator` | mapped pages exactly those recorded, data, books | tables of one entry (every second mapping needs another table), 4 pages of 2 words, 2 buddies, 2 slots; sizes 0 to 4 cross every threshold, two blocks fill the buddies so that moves are needed and refused |
| `server` | one owner, positions valid, total, answers, refinement of `AtomicCounter` | 3 clients, 2 workers, 3 descriptors: two connections in one list, a number used again by the same and by the other worker; replies of 2 bits wrap |
| `shell` | prompt returns, nothing left, nothing lost | 2 lines of up to 4 commands, pipes of one item, 3 items: full pipes, readers that leave, files and programs that are missing, background lines still running in the next line |
| `memfs` | listings, reads | 4 paths (a name that begins with another, three levels), 3 writes of 1 or 2 bytes in files of up to 4: overlap, gaps, writes that end before others |
| `sort` | sorted output, bounded memory | all inputs of up to 6 lines of length 0 to 2, blocks of 2, 3 open files: up to six blocks, more blocks than files |

Deadlock is checked except where the program may stop or the instance runs out of
things to do: `allocator` (the process may end), `server` (all clients served), `shell` (exit),
`memfs` (the bound on writes), `sort` (the program ends).

No run has a CONSTRAINT. Where the code itself breaks what a property promises, the model
goes on, a history variable records the step at which it happens, and the property says so:
* `strays` and `unreleased` (spinlock.cpp:29, 40, 47): spurious failures;
* `misled` in `buddy` and `allocator` (allocator.c:75): a call on a block whose move was refused
  after it had been unmarked; in `allocator` also (direct_allocator.c:99) an address that the
  kernel maps again although the table still has it after a realloc to 0;
* `adrift` in `slot` (slot_allocator.c:205): a realloc has left the cursor inside a span.

What the properties then show is that these steps are the only causes: up to them everything
is in order after any sequence of calls, and the theorems say the same for every instance.
RegionsExact and OneArenaPerCall hold after them as well, as far as TLC goes.

### Fairness

* SpinLock: weak fairness for each thread inside `lock`, `trylock`, `unlock`, and for
  leaving the critical section. The operating system schedules every thread and critical
  sections end; nobody is obliged to ask for the lock. LockProgress says that somebody gets
  the lock, not that each waiter does: a spin lock without a queue promises no more.
* LockFreeHashMap: weak fairness for the steps of each thread inside a call. The number of
  insertions is bounded by MaxNodes, so interference ends, and CallsReturn says that calls
  do too. That is lock freedom; a single call is not wait-free.
* LockHashMap: weak fairness for steps other than taking a mutex, because `std::mutex`
  promises no waiter its turn. MutexReleased needs no more.
* CounterServer: weak fairness for the accepting thread, each worker and each client, which
  are threads the kernel schedules; none for Kill.
* Shell: weak fairness for the shell inside a line or a `wait` and for each process; none
  for what the user types.
* ExternalSort: weak fairness for both threads.
* The allocators and the file system are checked for safety only.

## 4. Proofs

All theorems hold for every value of the constants that meets the ASSUMEs of the
component's module.

**SpinLock** (the end of `LockHashMapProofs`). Exchanges may fail spuriously. An owner is a
thread inside, or one whose `expected` makes it believe that it has won: a thread that has
exchanged but not looked yet is already an owner, and mutual exclusion alone is not inductive
for that reason. The inductive invariant LockInv says that there are no more owners than the
Locked word and the spurious failures account for, and that a Locked word has an owner or was
left by a failed release. From it: LockInvariant, MutualExclusionHolds (without a failure of an
acquiring exchange at most one thread is inside, with n of them at most n + 1),
UnlockReleasesHolds, and Refinement (initial states and steps map to those of `Mutex` until an
acquiring exchange fails spuriously; failed releases do not matter to it).

**LockHashMap** (`LockHashMapProofs`). NoDangling is not inductive: it depends on who may
stand on a node that is deleted, and on who leads to it. ListInv adds
* Guarded: whoever is inside a list holds its mutex and stands on a node of that bucket, so
  two threads never stand on the same node;
* PendingApart: an allocated node that is not linked yet is led to by nobody;
* Separate: references stay in their bucket, and two listed nodes never have the same
  successor, so the node that remove_item bypasses had one predecessor only;
* FreeAlone: free_hashmap is alone, and nothing that is left leads to the node it deletes
  next.

One more fact is needed in the proof, and stated in the proof module only: lists are
acyclic, as the existence of a ranking of the addresses that falls along `next`. Without
it the node bypassed by remove_item could be its own successor. The theorems are
TypeCorrect, NoDanglingHolds and ListInvHolds.

**LockFreeHashMap** (`LockFreeProofs`). MarkedFrozen, on which the whole algorithm rests,
is obvious for compare-and-swaps and not for the plain store `insertion->next = right`: it
needs that nobody can have marked the new node. The invariant is the existence of a set K
of published nodes that is closed under `next`, contains what every thread holds in its
locals and no node that is still being inserted; K grows at the compare-and-swap of
insert. It also shows that heads are never marked and search never loads through NULL,
which type correctness needs. Theorems: TypeCorrect and MarkedFrozenHolds.

**CounterServer** (`CounterServerProofs`). OneOwner speaks of the entries of the lists;
what makes it hold when a number is used again is that a worker marks the right entry
although its copy is stale, so CopyAligned belongs to the invariant, with Busy (a worker that
handles a connection has its index inside its copy) and the types. The entry that is about
to be marked owns nothing, in the very step in which its descriptor is closed. HandOver
appends, so positions stay; Erase may move entries because no copy is in use then, and
`Without` maps the remaining positions one to one. `OwnedAlone` is OneOwner without the
bounds TLC needs; the lemma Owners says that both agree. Theorems: EveryConnectionHasOneOwner
and PositionsStayValid, for any number of clients, workers and descriptors.

**The server as an atomic counter** (`CounterServerProofs`, second part). ImplementsTheCounter:
every step of the server is a step of `AtomicCounter` or leaves its variables alone. The
queue of a client is an expression over three variables of two threads, so the mapping
needs that at most one worker serves a client. That is Single (a client is in the backlog
or behind one descriptor, once) together with OneOwner. Closing says that nothing follows
a termination request, and that a client that has been answered has nothing left; the
abstract Ask and Answer are enabled by it.

**The total** (`CounterServerProofs`, third part). TheTotalIsReported. The invariant is a
ledger: the counter, plus 5 for each request <<2, 3>> not begun, plus 3 for each one half
done, less 2 for each <<-2>> not done, is what the requests made so far amount to in both
programs. Sums over threads would need induction. The ledger counts sets instead: Open(r)
holds a pair of client and number for each request of which r is left, Made those of the
requests made, and a step adds one element to such a set or removes one. The number of a
request counts down towards `left`, so it stays the same when requests before it are
finished or others are made. The ledger holds until a program is killed. Told adds what
clients know: somebody has not been told yet, or somebody was told the current value.

**Order and contents of the lock-free map** (`LockFreeProofs`, second part). Theorems: AlwaysSorted,
AlwaysClean, AlwaysReachable, ImplementsSet (linearizability) and PrintsContents. The
invariant says of the nodes that are or were in a list (Known) that `next` leads upwards in
the same bucket (Ordered), and of those that are in it that `next` leads to the nearest
one above (Adjacent) and keys differ. What a search has passed since its left node are marked
nodes only, so its compare-and-swap unlinks nothing else. This is Chain: every set that contains
leftNext and is closed under the references of marked nodes contains the node reached,
a statement about all closed sets in place of an induction along the list.
Cleaned names for each marked node in a list a thread that has still to unlink it.
LinkedIsReachable walks a list with a counter; that the walk is long enough is a pigeonhole
argument over the finitely many addresses. Linearizability uses `seen`: the key was in the
map, or was not, at some instant of the call.

**The map with mutexes as a bag** (`LockHashMapProofs`, second part). Theorems: EverythingFreed,
PrintsSnapshots and ImplementsBag. Linked says that a listed node has a predecessor; with the
ranking, and the fact that a smallest counterexample exists, every node is reached from its
sentinel, hence a search that comes to the end has passed every node of the bucket (Ahead:
nodes with the key lie in every closed set that contains the current node). print_hashmap
holds the mutex while it walks, and Printed keeps the path it has walked. free_hashmap leaves nothing because a
bucket that it is done with has no node (Emptied). The bag counts the nodes with a value.

**MemFS** (`MemFSProofs`). Theorems: ReadsReturnWrites and ListingsAreExact. The history of
writes is a sequence of any length; that there is a last write that covers a place is a
largest element of a bounded set of numbers, from the well-foundedness of <. Contents, the
invariant, gives the bytes and the length of every file by its history. Assumptions: paths
begin with a slash, do not end with one and have no empty component (PathAssumption), and
data is not empty (DataAssumption).

**Shell** (`ShellProofs`). Theorems: NothingElseLeft and EverythingDelivered. For the first
the invariant follows the recursion of run_command: the read ends the shell has open are
those of the commands before `pos` (ShellEnds), and every process outside the line in work is
reaped, of a background line, or never began (Settled). For the second, FlowInv balances each command of
a pipeline of filters: what it has written is in the pipe, in the hands of the next command,
or written by that one. The numbers written are no variable of the model; the invariant says that such
numbers exist. That a reader sees the end of a pipe only when the writer has ended is
InOrder, with Streams for the pipe ends a child still has. Assumption: a line has
at least one command and at most MaxLength (LinesAssumption).

**Allocator** (`AllocatorProofs`). Theorems: AllocatorTypeCorrect, AllocatorRegionsExact,
AllocatorDataIntact and AllocatorBooksBalance, for every page size, table capacity and
address space, every choice of thresholds that SizeAssumption admits, and every sequence of
calls and refusals. The inductive invariant says of the states before a call is misled what the
theorems say, and in addition that no two entries have one address (Unambiguous) and that what
the client holds is marked (NotTaken); the second is a consequence of how the code works and
not an assumption: the one call that unmarks a block the client keeps loses it. The argument goes from page arithmetic (what rounding
up and partial unmapping leave of a region) to the operations on a heap, each of which keeps
the tables and the mapped pages in step whatever the kernel decides, to the cells of the
small allocators, and from there to the calls: a realloc either exchanges a block for
another, loses it or fails, and these are lemmas about any pair of allocators. The invariant adds
Fits (a block lies in a region or a cell that is large enough for it) and
OneBlock: no other block of the client begins at the same address. Without OneBlock, free
would not know whose region it gives back.

**SlotAllocator** (`SlotAllocatorProofs`). Theorems: SlotTypeCorrect (no thread reads
client data as a header), SlotNoOverlap, SlotSpansTile and SlotOneArenaPerCall. They are about one
thread, since two threads violate NoOverlap (`slot_threads`), about sizes of every kind, and about
the states before a reallocation leaves the cursor inside a span (`adrift`): the invariant
includes that every cursor is on a span (Cursors), and the proof shows that slot_allocator.c:205
is the only step after which that can be false. That the spans of an arena tile it is the existence of a set of begins, and the
whole proof rests on that set being unique: two walks through the same headers cannot part,
because the smallest index at which they do has the same predecessor in both. Merging, taking
and freeing then change the set by one element each. The invariant says that used spans are
exactly the allocations' (Sound), that the span a thread stands on is a begin of its arena
(Placed), and that a tag is with the client or with the call, never both (Once).

**BuddyBlock** (`BuddyBlockProofs`). Theorems: BuddyTypeCorrect (no search leaves the tree),
BuddyNoOverlap, BuddyDataIntact, BuddyBitmapExact, BuddyNoNeedlessPage and BuddyCopiesApart, for
every depth, granularity, block capacity, set of sizes, number of pages and refusals of the
kernel, until the client passes a stray allocation to a call. The argument has three layers.
* The tree. Level and position of a node are kept as numbers, so that "above" is a division by a
  power of two. The lemmas say what the path from a node to the root is, that a node and its
  children halve a range, and that two nodes neither of which is above the other have disjoint
  ranges.
* The bitmap. Each allocation stands for one node (the lowest level that holds it), no two of
  these nodes lie above one another, and the marks are the union of their paths to the root. A
  marked node is then an allocation or split, which is what `find_buddy` and the search decide
  by. Adding a node to the set adds its path; taking one away while climbing until the sibling
  is in use takes exactly the marks that nobody else needs.
* The loops. In the middle of a call the bitmap is not exact, and the invariant says for every
  loop what is missing or too much: the part of a path that is marked already, the part that is
  unmarked already, the marks of an allocation that is shrinking. For the search it says that
  everything to the left of the node it looks at has no room (Full). That is more than
  NoNeedlessPage needs: when a reallocation has failed in its own page, the old place
  is already unmarked while its bytes are still to be copied. It is not handed out to the same
  call by the walk along the chain only because the search of that page was complete, so
  NoOverlap, DataIntact and CopiesApart depend on completeness, as the comment in
  `buddy_allocator.c:236-238` claims. The release that follows (`buddy_block.c:114`) finds the
  old place unmarked, and unmarking again changes nothing.

Assumptions that only proofs need are weak: "no thread", "no client" and the termination
mark are none of the values they stand beside (ThreadAssumption, NoneAssumption, TermAssumption),
and there is at least one client and finitely many (ClientAssumption).

Only model-checked:
* liveness (LockProgress, CallsReturn, MutexReleased, Answered, PromptReturns, Sorts), which is
  out of the prover's reach;
* MemoryBounded of the external sort, which is stated with a fold and rests on `SortSeq`
  being a permutation.

## 5. Where code and documentation disagree

`slot_threads` is kept as a run. The others are not runs of their own; each can be
reproduced with a change of one line of a configuration.

* `spinlock.cpp:30, 41, 47`: the outcome of the weak exchange is not looked at. After a spurious
  failure two threads are inside (MutualExclusion without its `+ strays` is violated), although
  `task4-concurrency/README.md:24` promises that no two critical sections run at once; after one
  in unlock nobody gets in again. It does not happen on x86-64.
* `lockfreehashmap.cpp:164`: with `PrintWhileBusy = TRUE` printing beside a removal follows a
  marked reference and derails; the comment in line 57 says that an iteration never does.
* `slot_allocator.c:205`: a realloc that merges, fails to grow and moves to another arena leaves
  the cursor inside a span, and later allocations overlap (NoOverlap without its `~adrift` is
  violated after four calls, by a single thread).
* `slot_allocator.c:122`: a realloc to more than an arena holds creates arenas until the kernel
  refuses (OneArenaPerCall leaves such sizes out).
* `allocator.c:75`: a block that the buddy allocator has unmarked, and that the direct allocator
  has no page for, stays with the client and is given out again. `direct_allocator.c:99`: the
  address of pages given back stays in the table, and may be mapped again. DataIntact and
  BooksBalance without their `~misled` are violated by both.
* `execute.c:46`: a background pipeline of several commands blocks the shell until all but the
  first have ended; `parse.h:25-27` says that it should go on. And after a failed fork the
  shell may wait for ever for a writer whose pipe only the shell itself could empty.
* `memfs.cpp:70`: a directory lists the longer names of its neighbours, less one character
  (ListsMembers leaves open what is listed there); `memfs.cpp:135`: a write into the middle of a
  file truncates it (ReadsBack holds with and without).
* `sort.cpp:90`: the main thread and the sorter may use the same file (excluded in Sorts).

## 6. Not modelled

* `task7-performance` is a vendored copy of RocksDB with its tools and bindings, nearly all
  of the lines in the repository. It is third-party code, and the exercise is about its
  speed. For that reason the map covers a small share of all lines, although it covers the
  core of every exercise that has logic of its own. Modelling parts of RocksDB would say
  nothing about this repository's programs.
* Container and system call wrappers: straight sequences of kernel calls, whose outcome is
  the kernel's. The tracer prints what the kernel's stops contain; that a signal stop shifts
  its parity is listed as a hazard.
* Scanner and parser of the shell (generated code; `parse.y:112` is listed as a hazard).
* Socket set-up, protobuf encoding, connections that end with a reset, and what the client
  does with the reply after `secure_recv` (`client.cc:57` reads beyond its buffer).
* `free_hashmap` of the lock-free map: all its deletes are commented out, so it changes
  nothing.
* Weak memory: the code uses sequentially consistent atomics throughout, and the models
  interleave atomic accesses.
* A failing `new`, which throws; printing functions and statistics of the allocators.
* `malloc(0)` in the buddy allocator: the descent leaves the tree (`buddy_allocator.c:114`).
  SizeAssumption excludes it; it is listed as a hazard.
* Behaviour that the models show and no property speaks of: a realloc in the buddy allocator to
  more than one and at most two pages takes a page which cannot hold it and leaves it to later
  requests; the slot allocator searches an arena from its cursor, so free spans before the
  cursor are not found until it moves back.

## 7. Plan

What is left is MemoryBounded of the external sort: to be stated with the total of a sequence
counted as a set, as RequestsOf does, and proved from the order in which blocks are closed.
