# Verification of core2

core2 is a header-only C++20 library of concurrent containers, a
readers-writer lock, a thread pool, smart pointers and a bit-map memory
allocator.  This directory holds TLA+ models of its components, the TLC
configurations that check them, and TLAPS proofs about them.  Everything here
is translated from the headers under `src/core2`, and from two programs that use
them: `bin/rwlock.cc` and the threads of `SpinLockTest.cc`.  The other tests and
programs say how the components are used.

- [Inventory](#inventory): the parts of the system and what makes each correct
- [Modules](#modules): which module models what, and how it corresponds to the code
- [Runs](#runs): what is checked, within which bounds, and what it shows
- [Fairness](#fairness)
- [Proofs](#proofs)
- [Findings](#findings)
- [What is not modelled](#what-is-not-modelled)
- [Plan](#plan)

## Inventory

The components are independent headers.  None calls another of those modelled
here except inside the allocator (`Allocator.h` -> `Arena.h` -> `Chunk.h` ->
`BitMap.h`, and `Arena.h` and `AlignedAllocator.h` -> `Utility.h`).  They
interact through the threads of a program that shares them; so each model
composes a component with the threads that call it.  One program is modelled as
well, `bin/rwlock.cc`: it shares a matrix under the lock of `ReaderWriterLock.h`
or a mutex of the library, and is modelled over the abstract lock that
`ReaderWriterLock` is proved to implement.

| Component | State | Operations | What is hard | What makes it correct |
|---|---|---|---|---|
| `async/ReaderWriterLock.h` | mode, `readerCount`, `writing`, `readerHeadcount`, `queueingWriter`, a mutex, two condition variables | reader/writer lock and unlock | lost wake-ups; who may overtake whom; a predicate with a side effect | exclusion, exact counters, bounded overtaking, progress |
| `async/AtomicQueue.h` | linked nodes, `queueHead`, `queueTail`, all atomic `shared_ptr` | `push`, `pop` | two exchanges make up one push | linearizable FIFO queue; calls return |
| `async/AtomicStack.h` | linked nodes, a 16-byte atomic top with a count of pops | `push`, `pop` | addresses are reused; deleted nodes are read | linearizable LIFO stack; no node deleted twice |
| `async/ThreadPool.h` | task queue, `stopped`, mutex, condition variable, threads | constructor, worker loop, `addTask`, destructor | shutdown while tasks are queued, running and adding tasks | every task once, in order; the destructor drains and returns |
| `async/Async.h` (`Future`) | a block with a value, a flag, a mutex and a condition variable | constructors, `set`, `get` | one notification for all that wait; futures move | every `get` returns once the value is set, and not before |
| `async/Lock.h` (`SpinLock`) | an atomic flag | `lock`, `unlock` | test and set must be one step | no increment of the threads of its test is lost |
| `bin/rwlock.cc` | a matrix with a checksum, a lock | producers, consumers, one benchmark after the other | a matrix is written and read in many steps; the first one is uninitialised | no consumer sees half of a matrix |
| `container/ConcurrentHashMap.h` | buckets with a lock each, `size_`, `accessing`, `rehashing`, mutex, two condition variables | `insert`, `get`, `erase` | a rehash moves what operations look at outside the mutex; `size_` lags behind | linearizable map; nobody waits for ever |
| `container/Fifo.h` | ring, `begin`, `end` | `enqueue`, `dequeue` of one thread each | counters wrap; copies in two parts | the stream comes out intact |
| `allocator/bit_allocator` (`BitMap`, `Chunk`, `Arena`, `Allocator`) | per thread: list of chunks with bitmaps and two summaries of them | `allocate`, `deallocate`, `deallocateAll` | three redundant pieces of state, updated in two files | no block handed out twice; memory reused before it grows |
| `allocator/bit_allocator` (`Utility`, `AlignedAllocator`) | the address space; `PageQueue`, a ring of eight pages | `allocateAlignedChunk`, `deallocateAlignedChunk`, a daemon, `getPage` | unaligned and failed `mmap`; the daemon and the takers | chunks aligned, disjoint, nothing else left mapped |
| `smart_ptr/SharedPtr.h` | control block with two counts starting at 0 | constructors, destructor | who is the last one | object and block released once, not early |
| `Stack.h` | linked nodes, atomic head | `push`, `pop` | as `AtomicStack`, without a count | `pop` yields what was pushed |
| `container/Vector.h` | memory, `capacity`, `size` | `pushBack`, `popBack`, `operator[]`, growth and shrinking | elements and capacity change in different orders; thresholds | the elements are those put there; reallocations are rare |
| `container/HashMap.h` | list of elements, buckets of iterators into it | `insert`, `get`, iteration, rehash | a rehash makes all iterators again | every key once, and found |
| `container/Variant.h` | `index_`, storage | construction, assignment, `emplace`, `visit`, `swap` | `index_` and the object are set separately; operations with itself; throwing copies | as a box with one value or none |
| `smart_ptr/UniquePtr.h` | pointer and deleter | `release`, `reset`, `swap`, moves | a deleter is code of the caller and runs in the middle | every object deleted once, by its deleter |
| `trait/Function.h`, `trait/Memory.h` | callable, buffer | construction, assignment, call, moves, destruction | functors live in the buffer or on the heap; implicit moves; throwing constructors | a live functor is held by one function, or is one that is known to leak |
| `container/Tuple.h`, `container/Tree.h` | a layout, or declarations only | | | |
| `Math.h`, `String.h`, `Bit.h`, `simd/AVX2.h`, `Log.h`, `Time.h`, `TypeTrait.h`, ... | none | pure functions, output, compile-time predicates | | |

`PROJECT.json` lists every component with its status and every hazard with the
line of code at which it bites.

## Modules

Conventions.  Actions and variables keep the names of the code.  `pc` says where
each thread is.  Code that runs under a mutex from beginning to end is one
action; code without a mutex is one action per access to shared memory.
`history` variables record what no code reads.  A definition marked *faulty
variant* is never used by a specification: it is a plausible slip in the
definition after it, and substituting it makes a named property fail.  This is
how we know each property can tell right code from wrong (the pairs are in
`PROJECT.json`, `mutants`).

**ReaderWriterLock** (`ReaderWriterLock.h`).  One action per stretch under
`mux`: a `...Try` state competes for the mutex, a `...Wait` state sleeps.
`WakeOneWriter` and `WakeAllReaders` are the notifications, `SpuriousWakeup`
may happen at any time.  `ReaderBlock` keeps the side effect the predicate of
`readerLock` has on `readerHeadcount` even when it is false.  The mode is a
variable that never changes, so that one specification, and each theorem,
speaks of all three.  Two histories belong to each queueing writer: `bypass`, the
readers, and `overtaken`, the writers that got in since it queues (counted up to
`BypassCap` and `MaxOvertakes`); they are reset only when that writer gets in itself.
`wakeOrder` is the branch the last `writerUnlock` took.
*Abstract specification*: `RWLockSpec`, the sets of readers and writers that hold
the lock, as if locking were one step.

**AtomicQueue** (`AtomicQueue.h`).  `PushLoadTail`, `PushLink`, `PushSwingTail`
and `PopLoadHead`, `PopLoadNext`, `PopTake`, `PopReadValue` are the accesses to
the atomics, with their failures.  Atomics are sequentially consistent, as they are
in `AtomicQueue.h`, which names no memory order.  `NDEBUG` says whether `assert` evaluates its argument.  `chain` is the
order in which nodes were linked.

**AtomicStack** (`AtomicStack.h`).  Addresses come from a small set and are
reused as soon as they are deleted.  A pop that reads the `next` field of a node
that is deleted, or that a push is writing, gets any pointer or `Garbage`.  The
exchanges are modelled as sequentially consistent; in the code they are weaker, see
*What is not modelled*.

*Abstract specification of both*: `ContainerSpec`, a sequence of values and calls
whose effect is one step between call and return, in the discipline "FIFO" or
"LIFO"; a pop that throws must find the sequence empty at its one step.
`Contents`, `Phase` and `Datum` in the two modules are the refinement mapping.

**ThreadPool** (`ThreadPool.h`).  Workers, the owner (constructor, `addTask`,
`future.get`, destructor, as in `bin/async.cc`) and tasks, which may add tasks and
wait for them.  The destructor is `Stop` (under the mutex), `NotifyStop`
(after it) and `Join`.  `waits` and `getsAll` are choices of the program that
uses the pool.

**ConcurrentHashMap** (`ConcurrentHashMap.h`).  An operation is `Enter...` (with
the rehash or the waits), `FindBucket` (no lock), `UseBucket` (the lock of the
bucket) and `Exit`.  A bucket is the set of its entries.  `size_` is taken modulo
`SizeModulus`, for it does go below zero.  *Abstract specification*: `MapSpec`, a
map on which each operation takes effect at one step; the refinement mapping
reads the map from the buckets.

**Fifo** (`Fifo.h`).  Each `memcpy` and each access to the other thread's counter is
an action.  Bytes are numbered by their place in the stream, counters wrap at
`Modulus`.

**Vector** (`Vector.h`).  The memory is a function from indices to elements, `Raw`
where no element lives.  `Reallocated` is the copying loop of `tryExpand` and
`tryShrink`; `given` is the length `deallocate` was told, `since` the calls since the
last reallocation, `contents` what the caller put into the vector.

**HashMap** (`HashMap.h`).  The list of elements and, per bucket, the places of its
elements in the list, which is what the iterators are.  `insert` is `Update` or `Add`
(with the rehash); `get` is `Found`, and `Write` where the reference it returns is
assigned to.

**Variant** (`Variant.h`).  `index_` and the object in the storage are two
variables, because the code sets them apart.  `AssignThrows` is a copy or move that throws.
*Abstract specification*: `VariantSpec`, a box with one value or none, or that is
unusable; the refinement mapping `Held` reads `index_` and the storage alone.

**UniquePtr** (`UniquePtr.h`).  A deleter is taken to run from `CallDeleter` to
`Delete`; any other operation may happen in between, as a deleter may do anything.

**Function** (`Function.h`, `Memory.h`).  A function holds a callable (the code for a
type of functor) and a buffer, which holds the functor or a pointer to it on the heap.  The
implicit moves of `OptimizedFunction` copy the buffer bit by bit; `leaked` names the
functors nobody can destroy any more.

**Future** (`Async.h`).  `get` is one stretch under the mutex up to its wait, and one
from each wake-up.  Blocks are never freed.

**SpinLock** (`Lock.h`, `SpinLockTest.cc`).  The threads of the test: lock, load, store,
unlock.

**MatrixBenchmark** (`bin/rwlock.cc`).  Producers fill a matrix cell by cell and
set its checksum; consumers add it up cell by cell.  The lock is an instance of
`RWLockSpec`; a benchmark with a mutex has the consumers take it as writers.
`NextBenchmark` goes on to the next pair of functions with the same matrix.

**Components** puts `Fifo`, `SharedPtr` and the eight modules just named side by
side, each in variables of its own, for one run: `part`, chosen at the start, says
which of them the behaviour is about, and the others do not move.  They call no other component, so this is a sum and not a product.  `Vector` is
extended, not instantiated: its properties are checked under the names by which they
are proved.

**BitAllocator** (`BitMap.h`, `Chunk.h`, `Arena.h`, `Allocator.h`).  One thread and
its arena, in units of 16 bytes.  A bitmap is the set of its set bits.
`AllocateIn` is `ChunkHeader::allocate`; `AllocateFromList` and
`AllocateFromNewChunk` are the two ways through `Arena::allocate`.  The
constructor of a chunk does not write the bitmaps: that they are clear, as
`AllocateFromNewChunk` has them, comes from the zero pages of `mmap`.
`NewChunkFaults` is the same path when no chunk can be mapped: the code does not look
at the address it gets and constructs the header at `nullptr`, where the program ends
(`faulted`).  When a whole chunk cannot be mapped the caller gets the `nullptr`, and
the arena does not change.

**AlignedChunk** and **PageServer** (`Utility.h`, `AlignedAllocator.h`).  `AlignedChunk`
has the actions of `allocateAlignedChunk`, one per system call, in units of pages;
`mmap` returns any free pages or fails.  A failed `mmap` is followed to its end:
`MAP_FAILED` passes both tests of the code, which unmaps 2 MB at address 2 MB and
returns `nullptr`.  `PageServer` composes these actions with the daemon, which also
pushes such a `nullptr`, and with threads that take pages from the ring or map
them, and give them back.

**SharedPtr** (`SharedPtr.h`).  Each `SharedPtr` object is a process of its own that is
constructed, copied (pointer first, count second), moved and destroyed
(`releaseShared`, `onZeroShared`, `releaseWeak`, `onZeroWeak`).  Control blocks are
reused after they are freed.  Counts are taken modulo `COUNT_SIZE`.  No file of the
repository includes this header.

**Stack** (`Stack.h`).  `push` and `pop`; what `pop` returns is a reference to a
variable that is gone, so the caller reads any value.

The `MC...` modules give the constants their values for TLC; `..._proofs`
modules hold theorems.

## Runs

| Run | Bounds | What it shows |
|---|---|---|
| `ReaderWriterLock` | 2 readers, 1 writer, 1 thread that does both, each mode, `HEADCOUNT` 4, `MaxOvertakes` 2 | `CountersExact`; `ImplementsRWLock`; `BoundedBypass` (in BALANCED, at most `HEADCOUNT` readers pass a queueing writer for each writer that gets in meanwhile, and `HEADCOUNT` before it gets in itself); `BalancedWakesReadersFirst` (one branch of `writerUnlock` is dead code); `SomeoneGetsIn` (no lost wake-up), `WritersProgress` |
| `AtomicQueue` | 3 threads, 2 values, 3 nodes (the dummy and 2 pushes) | `ChainExact` (the nodes form one chain and the asserted exchange never fails), `ImplementsQueue`, `CallsReturn` |
| `AtomicQueue_ndebug` | 2 threads, 4 nodes, `NDEBUG` | *violation* of `CallsReturn`, see Findings |
| `AtomicStack` | 3 threads, 2 values, 2 addresses, no push after 3 pops | `NodesExact` (each node has one owner and is deleted once), `StaleReadsLose` (the ABA case), `ImplementsStack` |
| `ThreadPool` | 2 workers, 4 tasks, one of which adds another and may wait for it; destroyed at any moment, or after all futures | `TakenInOrder`, `EachTaskOnce`, `NoSleeperLeftBehind`, `DrainedWhenDestroyed`, `TasksAreRun`, `DestructorReturns` |
| `ConcurrentHashMap` | 3 threads, 2 keys, 2 values, 5 calls, tables of 1 to 4 buckets and more | `RehashExact` (one thread rehashes, with nobody inside; buckets in use are current, entries in theirs), `SizeAccounted`, `ImplementsMap` |
| `ConcurrentHashMap_liveness` | 3 threads, 1 key, 4 calls | `CallsReturn` |
| `BitAllocator` | 2 chunks of 2 bitmaps of 3 bits | `GrantsExact` (a block has one owner, and its bit is set exactly while it has), `SummariesAgree`, `GrowsOnlyWhenFull` |
| `PageServer` | the daemon and 2 threads, chunks of 3 pages in 13 pages of address space, ring of 2, a chunk a thread | `PagesExact` (chunks are aligned and in one place, nothing else is mapped, the ring is in order) |
| `Stack` | 1 thread | *violation* of `PopYieldsItsNode`, see Findings |
| `Variant` | 2 variants, 2 types, 2 values | *violation* of `IndexNamesObject`, see Findings |
| `Components` | see below | thirteen properties of ten components, below |

The run `Components`:

| Part | Bounds | What it shows |
|---|---|---|
| `Fifo` | ring of 4, counters modulo 8, 20 bytes, lengths 1, 3, 5 | `RingExact` (the counters describe the stream, the copies never meet), `StreamIntact`, `AllThrough` |
| `SharedPtr` | 4 pointers, 2 blocks, counts modulo 8 | `SharedExactly` (an object lives while somebody holds it, and is released once) |
| `UniquePtr` | 2 pointers, 3 objects, 2 deleters | `OwnedOnce` |
| `Function` | 2 functions, 3 functors of 3 types, one of them too large for the buffer | `FunctorsHeldOnce` |
| `Variant` | 3 variants, 2 types, 2 values | `ImplementsVariant` |
| `Vector` | `MIN_CAPACITY` 4, up to 9 elements, 2 values | `VectorExact`, `ReallocationsApart` |
| `HashMap` | 5 keys, 2 values, from 1 bucket on | `TableExact` |
| `Future` | 2 threads that get, 2 futures, 2 blocks | `GettersReturn` |
| `SpinLock` | 3 threads, 2 rounds each | `NothingLost` |
| `bin/rwlock.cc` | 2 producers, 2 consumers, twice each, a matrix of 2 numbers, sums modulo 3; first a lock the consumers share, then one they do not | `FailsOnlyAtFirst` |

Why the bounds are enough for the interesting cases:

- The lock: four admissions of readers exhaust the headcount while a writer queues;
  a thread in both roles and a pure writer give two writers, so that one queues
  behind the other and can be overtaken; with `MaxOvertakes` 2 a writer that was
  overtaken by none or by one is judged, and both limits, `HEADCOUNT` and twice
  `HEADCOUNT`, are reached; with `HEADCOUNT` 4 the threshold `HEADCOUNT / 4` is 1, so the
  branch that `BalancedWakesReadersFirst` excludes would need a headcount of 0.
- The queue: three threads allow a push between the two exchanges of another
  one and a pop that passes the tail; two pops race for a node.
- The stack: two addresses make a thread that sleeps inside `pop` see its node
  popped, deleted, allocated and pushed again.
- The pool: with two workers one can sleep, or wait for a child, while the other
  runs; four tasks outnumber the workers; three workers give the same results
  (66 602 states) and are left out for time.
- The map: it starts with one bucket and rehashes when `size_` reaches the number of
  buckets, so a single entry triggers the first rehash, and the wrapped `size_` too.
  The two keys part only in a table of four.  `MaxCalls` bounds the calls of a
  behaviour; threads that have used them up stop, hence no deadlock check.
- The fifo: 20 bytes take the counters around their range twice; lengths include
  more than the ring holds.
- The allocator: two chunks of six blocks are filled, freed in any order and filled
  again; the top-level map has one bit beyond the range, as in the code.
- The chunks: with three pages a misalignment of one page differs from one of two,
  which tells a head from a tail; 13 pages hold the mapping of six pages being
  trimmed beside two chunks.
- `SharedPtr`: four pointers can share one block while others are copied, moved and
  destroyed.
- `Vector`: nine elements grow the vector from 4 to 8 to 16, and shrink it back from
  both (at 4 and at 2 elements).
- `HashMap`: five keys take the table through 1, 2, 4 and 8 buckets; their hashes are
  equal modulo 1, 2 or 4, or not, in all combinations that matter.
- `UniquePtr`, `Function`, `Variant`: with two or three places every operation has a source, a
  target that holds something, and a target that is the source.
- `Future`: two threads wait for one notification; a future is moved and its value set
  before, between and after.
- `bin/rwlock.cc`: with two numbers a reader can stop in the middle while a writer
  would overwrite both; the second benchmark starts from the matrix of the
  first.

`CHECK_DEADLOCK FALSE` is set where the system really stops: the destroyed pool,
the map's calls at their bound, the program that has written to `nullptr` in
`BitAllocator`, and, in `Components`, the end of the test of `SpinLock` and of the
benchmarks.

## Fairness

- Lock, pool, map: a thread that competes for a mutex eventually gets it, a
  thread that holds the lock releases it, a task ends unless it waits for
  another one.  Nobody is obliged to call, and no spurious wake-up is promised.
  This is weak fairness of each thread's own steps; the operating system's
  scheduler and its mutexes give no less.
- Queue: a thread inside a call keeps being scheduled.  Calls return because the
  pushes of a behaviour are finite (`MaxNodes`): the queue is lock-free and not
  wait-free, and no stronger fairness is assumed.
- Fifo: both threads call again and again, as in `FifoTest.cc`, for at least one byte.
- Future: a thread that was notified gets the mutex.  Nobody has to call `set` or `get`.
- SpinLock: each thread goes on when the flag is clear.  It is weak fairness of each
  thread, and no thread has a right to the lock.
- `TasksAreRun` and `DestructorReturns` hold under `Harmless`: fewer tasks that wait
  than workers, and an owner that has added these itself and gets every future before it
  destroys the pool.  Otherwise the pool deadlocks, as pools of fixed size do: a waiting task
  occupies a worker, and once `stopped` is set idle workers leave.  That the owner must
  have added the waiting tasks came out of a proof: a task of a task may be taken
  after `stopped`, when there is one worker left, and wait for ever for a task of its own.

## Proofs

`ReaderWriterLock_proofs` proves, for any finite sets of readers and writers,
any positive `HEADCOUNT` and all modes:

| Theorem | Statement |
|---|---|
| `TypeCorrect` | `Spec => []TypeOK`: no unsigned counter ever wraps |
| `CountersAreExact` | `Spec => []CountersExact` |
| `BypassIsBounded` | `Spec => []BoundedBypass`: a writer overtaken by `n` writers is overtaken by at most `HEADCOUNT * (n + 1)` readers |
| `ReadersAreWokenFirst` | `Spec => []BalancedWakesReadersFirst` |
| `Refinement` | `Spec => ImplementsRWLock` |
| `NoLostWakeup` | `Spec => []FreeLockIsTaken`: while the lock is free and a thread sleeps, a writer has been notified |

The assumption is `LockAssumption` (finitely many threads, a positive headcount, and any
`MaxOvertakes` up to which overtaking is counted).  The
inductive invariant `IInv` is the conjunction of `TypeOK`, `CountersExact`,
`Exclusion` (readers and a writer, or two writers, are never inside together),
`Headcounts` (for each queueing writer in BALANCED: the readers that passed it and what is
left of the headcount are at most the headcounts handed out since it queues; and the
headcount is full while a writer is inside) and `BalancedWakesReadersFirst`.
None of the properties is inductive alone: `readerCount--` stays in `Nat` because
the counter counts the thread that leaves; `bypass` is bounded because a reader that gets
in moves one from the headcount to it, and the headcount is refilled while a writer
queues only when another writer gets in, so that a writer that queues behind others is
promised one headcount for each of them and not one in all; and the dead branch is dead because nobody is admitted while a writer
is inside.  `ThreadSets` is the lemma on cardinalities, `WakeOne` and `WakeAll` say that
a notification only moves sleepers, and each action has a lemma of its own.
`NoLostWakeup` is the safety half of `SomeoneGetsIn`.  It rests on `Sleepers`: a reader sleeps
only while somebody writes or, in the modes that let writers go first, queues; a
writer only while somebody is inside or a notified writer competes for the mutex.
`notify_one` may wake any writer, and readers are not notified when the last reader
leaves; the invariant says why neither loses anybody.

`ThreadPool_proofs` proves, for any nonempty finite set of workers, any set of tasks
and whichever tasks add or await others (`PoolAssumption`):

| Theorem | Statement |
|---|---|
| `TasksTakenInOrder` | `Spec => []TakenInOrder` |
| `TasksRunOnce` | `Spec => []EachTaskOnce` |
| `NoLostNotification` | `Spec => []NoSleeperLeftBehind` |
| `DestructorDrains` | `Spec => []DrainedWhenDestroyed` |
| `TasksDoNotDeadlock` | `Spec => []SomeWorkerProceeds`: with harmless waiting tasks, while a task is not done a worker runs one that need not wait, or is free to take the next |

Its `IInv` (theorem `Invariance`) adds to the properties what they rest on:
`OnlyTakenTasks` (a worker holds a task exactly while it runs one; what is held or
done was taken from the queue) and `Shutdown` (`stopped` follows the owner's place,
workers leave only after it is set, and when all have left the queue is empty).
`EachTaskOnce` needs `TakenInOrder`: the head of the queue is the entry of `added`
just behind all tasks taken, and no task is added twice, so no worker has had it.
The destructor drains because only the owner, before `stopped`, and a running worker
can add: the last worker to leave finds the queue empty and nobody can refill it.
`PushKeepsOrder` and `PopKeepsOrder` are the lemmas on sequences.  `TasksDoNotDeadlock` is the
safety half of `TasksAreRun`: with fewer waiting tasks than workers one worker does not run
such a task (`OneIsFree`, the pigeonhole principle); it has not left, for `Phases` says that an
owner who gets its futures stops the pool only when none of its own tasks is left.

`AtomicQueue_proofs` proves, for any threads and values, any number of nodes and both
builds (`QueueAssumption`):

| Theorem | Statement |
|---|---|
| `ChainIsExact` | `Spec => []ChainExact` |
| `QueueIsLinearizable` | `Spec => ImplementsQueue` |

Its `IInv` says that the nodes that are linked form one chain without a cycle, from the first
dummy on; that a node not linked yet is known to the one thread that allocated it; that
what a thread remembers of head, tail and successor is on the chain, at or behind the
place where it was found; and that nobody has read a tail which is about to be
published.  That is why a weak exchange in a push can succeed for one thread only, and why
the exchange inside the assertion cannot fail.  A push takes effect when its
node is linked, a pop when it moves the head or finds no successor; `Contents`,
`Phase` and `Datum` are the mapping.

`AtomicStack_proofs` proves, for any threads, values and addresses
(`StackAssumption`):

| Theorem | Statement |
|---|---|
| `NodesAreExact` | `Spec => []NodesExact` |
| `StaleReadsAreDiscarded` | `Spec => []StaleReadsLose` |
| `StackIsLinearizable` | `Spec => ImplementsStack` |

Addresses are reused as soon as a pop deletes a node, and other threads may be reading it.
Two parts of its `IInv` deal with that.  `Prepared`: the node of a push is its own until
the exchange.  `Remembered`: as long as `popCount` is what it was when `top` was loaded,
the node seen then is still linked, and what was read there is its successor.  A pop
counts in the same exchange that unlinks, so a stale read always loses.  The
instants are the exchanges, and for an empty stack the load of a null `top`.  The model
stops pushing at `MaxPops`, for any value of it; `popCount` is a `size_t`, which in a
program's life does not wrap.

`ConcurrentHashMap_proofs` proves, for any finite set of threads, any keys and
values, any hash function and any width of `size_` (`MapAssumption`):

| Theorem | Statement |
|---|---|
| `RehashIsExact` | `Spec => []RehashExact` |
| `MapIsLinearizable` | `Spec => ImplementsMap` |
| `SizeIsAccounted` | `Spec => []SizeAccounted` |
| `NoLostWakeup` | `Spec => []SomeoneIsAwake`: whoever sleeps, a thread is inside or about to rehash |

Its `IInv` is `TypeOK`, `Progress` (how far an operation is shows in what it has found)
and the three parts of `RehashExact`.  `OneRehasher` counts: `accessing` is the number of
threads inside, so a rehash, which waits for 0, meets nobody who has chosen a bucket, and
`BucketIsCurrent` survives it; `EntriesInPlace` survives it by `RehashedIsRight`, which
says that doubling the table moves each entry to the bucket of its key.  `Writes` is what
an operation may do to its bucket, `Outcome` what it leaves of its key and answers.  An
operation takes effect when it uses its bucket (`UseBucketRefines`); every other step,
the rehash among them, leaves the abstract map alone.  `SizeInv` adds for
`SizeIsAccounted` that the table is finite and that a thread owes a difference only between its
bucket and its exit; a rehash keeps the entries, so it keeps their number, and the
arithmetic is modulo the width throughout (`Division`, `Remainder`, `SameRemainder`), for
`size_` may be below zero when it is reduced.  `NoLostWakeup` is the safety half of
`CallsReturn`: the one that is to rehash sleeps only while somebody is inside, the others only
while a rehash is due, so the threads never wait for one another in a circle.

`BitAllocator_proofs` proves, for any number of bitmaps and of blocks in each, a
top-level map of at least that many bits, any header and any number of chunks
(`AllocatorAssumption`):

| Theorem | Statement |
|---|---|
| `GrantsAreExact` | `Spec => []GrantsExact` |
| `SummariesAlwaysAgree` | `Spec => []SummariesAgree` |
| `ArenaGrowsOnlyWhenFull` | `Spec => GrowsOnlyWhenFull` |

Its `ArenaInv` says that no block is granted twice and that the header of every listed chunk
`Describes` the blocks held in it: bit by bit, marked in the top-level map where a bitmap is
full, and counted.  The three properties need each other.  A bitmap is asked for a block only
because the top-level map says it has one, so `GrantsExact` rests on `SummariesAgree`; a
count stays the number of blocks held because each grant is of a block that was free; and a
chunk is full by its count exactly when it is full by its bits, for the blocks of a chunk are
as many as its range times the bits of a bitmap.  The lemmas on the layout say that blocks of different
chunks, bitmaps or bits have different addresses, and that `deallocate` finds the chunk, the
bitmap and the bit of an address by division.

`PageServer_proofs` proves, for any finite set of threads with a daemon among them, any size
of a chunk and of the ring, and whatever `mmap` returns or refuses (`ChunkAssumption`,
`ServerAssumption`):

| Theorem | Statement |
|---|---|
| `PagesAreExact` | `Spec => []PagesExact` |

Its `PagesInv` adds to `PagesExact` the types of the locals, `LocalsOK` (in the slow path an
address is a page, and behind a trimmed head a chunk begins) and `DaemonOK` (the
daemon holds the one chunk it is about to push, and none while it allocates, which is why
what it pushes is not in the ring already).  `Exact` is the account of all pages: those of
chunks and those in flight, every page once.  Each system call moves pages from one entry of the account to
another, and the lemmas `FlightMapped`, `FlightUnmapped`, `FlightLands`,
`ChunkMapped` and `ChunkUnmapped` say so without a word about the program; `Trimmed` is the
arithmetic of the head and the tail.  A failed call unmaps pages below `FLOOR`, where
nothing is mapped.

`Components_proofs` has a section for each component of `Components`, with an
inductive invariant of its own.  `ComponentsAreExact` puts them together: every behaviour of
`Components` is one of each component, or a stutter, so that the specification of the run
satisfies all their properties.  The constants are those of `ComponentsAssumption`, the
conjunction of the assumptions of the components.

| Theorem | Statement | Why the invariant says more than the property |
|---|---|---|
| `FifoRingIsExact`, `FifoStreamIsIntact` | `[]RingExact`, `[]StreamIntact` | `FifoInv`: the counters are the lengths of the stream modulo their range, a call in progress goes no further than the other side has let it (`WithinBounds`), and every byte sent and not received is in its place (`BytesInPlace`).  Only that `size` divides the range of the counters makes the places right when they wrap |
| `SharedPtrIsExact` | `[]SharedExactly` | `SharedInv`: a block is alive, nobody releases it and its count is one less than its sharers without the copies in progress; or it has no sharers, and one `SharedPtr` releases it whose step says what the counts are.  A copy keeps its source alive, so a count it has not raised yet cannot reach its end |
| `UniquePtrIsExact` | `[]OwnedOnce` | `UniqueInv`: an object is owned, or with the caller, or with its deleter, for a deleter runs after the pointer was overwritten |
| `FunctionIsExact` | `[]FunctorsHeldOnce`, which speaks of the functions no assignment has broken | `FunctionInv`: a callable fits the bits of its buffer, so that what is called and destroyed is the functor that was stored |
| `VariantImplements` | `ImplementsVariant` and `[]SoundUnlessThrown`: `index_` and the storage agree if, and only if, no assignment to the variant has thrown | `VariantInv`: `index_` names the object of every variant that may be used, and every broken one is broken (`BrokenUnsound`), so that what the mapping reads from `index_` and the storage is what happened.  Each operation is one step of `VariantSpec`; the throwing assignment is its step to unusable, and nothing else is |
| `HashMapIsExact` | `[]TableExact` | `HashInv`: every bucket has the nodes of its keys, in a table of a size that fits their number; a key is in the list once |
| `MatrixVerifies` | `[]FailsOnlyAtFirst` | `MatrixInv`: some sequence of partial checksums agrees with the matrix, with what the producer has written so far and with what each consumer has added up.  It is a witness, and takes the place of a recursive sum |
| `VectorIsExact`, `VectorReallocatesRarely` | `[]VectorExact`, `ReallocationsApart` | `VectorInv`: the capacity is even, so halving undoes doubling, and the size differs from half the capacity by no more than the calls since the last reallocation, and one |
| `FutureWakesAll` | `[]NoneSleepsOnValue` | the safety half of `GettersReturn`; `FutureInv` adds that no two futures have one block, so that a move takes neither value nor sleepers from another one |
| `SpinLockExcludes` | `[]NoneOverwritten` | the safety half of `NothingLost`; `SpinLockInv` adds that the flag is set while a thread is inside |

The assumptions, and why the code justifies them: names that stand for "nothing"
(`nullptr`, `NoValue`, `NoObject`, ...) are none of the things they stand beside; `size`
divides the range of the counters of `Fifo` and is less than it, as every power of two
below that range does (a `static_assert` of the code demands a power of two); a count of
`SharedPtr`, a `u64`, is wide enough for the `SharedPtr`s there are, which each take eight
bytes; there are a `Variant` and an alternative,
and a `Future`, to speak of; a functor has a size, as every C++ object has.  TLC evaluates
each of them on the run of its component.

Two forms in the models are owed to the prover and change nothing else:
`MoveAssign` of `Variant` updates its record in two steps instead of with `@`, and unions of
families are in parentheses, for tlapm and TLC read `UNION A \cup B` differently.

Every invariant and every action property that a passing run checks is thus a theorem, and so
is every refinement.  Only model-checked: the liveness properties (`SomeoneGetsIn`, `WritersProgress`,
`TasksAreRun`, `DestructorReturns`, `AllThrough`, `GettersReturn`, `NothingLost`, and
`CallsReturn` of the queue and of the map), for the prover handles neither fairness nor
`ENABLED`; and the properties that the code violates, where there is nothing to prove.  What
recursion over data computes for every input is out of its reach too; none of the
models needs it.

## Findings

- **`AtomicQueue::push` does its work inside `assert`** (`AtomicQueue.h:134`).  The exchange
  that moves `queueTail` is the argument of an assertion.  With `NDEBUG`, which
  `bazel run -c opt` of `script/run-all.sh` defines, it is not compiled: the tail stays
  at the dummy node and every push after the first spins for ever.
  `AtomicQueueTest.cc` joins its threads, so expects them to return.  Run
  `AtomicQueue_ndebug`.
- **`Variant` sets `index_` before there is an object** (`Variant.h:78`, `:88`).  If the copy
  or the move of an assignment throws, the variant has been reset, its `index_` names a
  type, and no object of it exists; the destructor, by way of `reset`, destroys one, on
  the grounds that "it was previously constructed" (`Variant.h:126`).  `construct` does it in the right order.
  Run `Variant`; `VariantImplements` adds that nothing else parts `index_` from the
  storage.  In `ImplementsVariant` such a variant is never used again.
- **`Stack::pop` returns a reference to a local variable** (`Stack.h:56`).
  `bin/stack.cc:9` asserts that it yields the value pushed.  Run `Stack`.

Worth knowing, though nothing in the repository says otherwise: the writer-first
branch of BALANCED (`ReaderWriterLock.h`) is never taken; `size_` of the map may
wrap below zero for a while and cause a needless rehash; a failed `mmap` unmaps
2 MB at address 2 MB, where nothing is as long as the kernel maps nothing below
4 MB (`FLOOR`); `Arena` never asks its `PageServer` for a page, and it constructs the
header of a new chunk at `nullptr` when the chunk could not be mapped (`Arena.h:46`);
in BALANCED, a writer that others overtake lets a headcount of readers pass for each.

Read while modelling the containers, and left out of the models or made part of them as
they are: the implicit copy of `Vector` shares its memory and frees it twice, that of
`HashMap` copies iterators into another map's list; `OptimizedFunction` never destroys
its functor and forgets the old one in a move assignment (the model counts these as
`leaked`), and it moves functors bit by bit; `Future` never frees its block; the move
assignment of `UniquePtr` names a member that does not exist and does not compile;
`main` of `bin/rwlock.cc` leaves the first matrix uninitialised, so a
consumer that comes first reports a failed verification (hence the name of
`FailsOnlyAtFirst`); `nextPowerOf2` of `Math.h` shifts by a negative count for most
arguments, which is undefined.

## What is not modelled

- `SharedPtr::swap` (does not compile when instantiated) and `addWeak` (never called).
- Weak memory.  The models are sequentially consistent, and so are the atomics of the
  code but for these: the exchanges of `AtomicStack` are `release` in `push`
  (`AtomicStack.h:43`) and `relaxed` in `pop` (`:58`), between loads of `top` that are
  sequentially consistent; `SharedPtr::addShared` and `addWeak` (`SharedPtr.h:17`, `:19`)
  are `release`.  Nothing here says which write of another thread an access in a weaker
  order may still miss; of `addShared` the properties use only that it is atomic.  The
  counters of `Fifo` are plain fields between fences (`Fifo.h:21`, `:28`, `:37`, `:43`);
  the model takes one untorn access per read.
- Freeing a block from another thread than the one that allocated it, and
  `deallocateAll` with blocks still in use: the first would race on the header, the
  second invalidates them, and no code here does either.
- Memory exhaustion other than in `mmap`, and exceptions of user types other than in the
  assignments of `Variant` and `OptimizedFunction`.
- The move assignment of `UniquePtr`, which does not compile.  `Variant`: types that
  are not among its alternatives, and a swap in which a move throws.  `Vector` and
  `HashMap`: the implicit copies, and `pushBack(v[i])` on a full vector.  `Future`: a
  second `set`, calls on a moved-from future (both asserted away) and moving a future
  while another thread is inside `get`.
- `Tuple` and `CompressedPair` are fixed at compile time; `Tree` is declarations only.
- `String.h`, `Math.h`, `Bit.h`, `simd/AVX2.h`, `TypeTrait.h`, `Log.h`, `Time.h`, ...: pure
  functions, compile-time code, output: no state to check.  What `nextPowerOf2`, on
  which `String` rests, computes is up to the compiler.
- The benchmarks, and the programs of `src/bin` other than `rwlock.cc`: they call components
  modelled here from one thread (`bin/async.cc` and `bin/stack.cc` give the models
  of the pool and of `Stack` their clients), or call the system only (`shm.cc`).

## Plan

1. *Done*: every component that has state, the program `bin/rwlock.cc`; the proofs of every
   safety property, action property and refinement that a passing run checks, and of the
   safety halves of most liveness properties.
2. *Next models*: several threads that share a `Stack` (no document says they may);
   `PageServer` behind `Arena`, once the code uses it there; `pushBack` with
   an argument inside the vector, and throwing copies in `Vector`.
3. *Next proofs*: the safety halves of the other liveness properties: that an exchange of
   `AtomicQueue` fails only when another thread has made progress; that `Fifo` is never full
   for one thread and empty for the other; that the counter of the test of `SpinLock` is
   the sum of the rounds, which needs a sum over the threads without recursion.
