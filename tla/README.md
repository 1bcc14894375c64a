# Verification of HNC-core in TLA+

HNC-core is a C++20 framework of four libraries: a thread pool (`thread_pool/`),
an asynchronous logger (`logger/`), a timer service (`timer/`) and a memory pool
in the style of tcmalloc (`memory_pool/`). This directory holds TLA+ modules that
model them, TLC configurations that check small instances, and TLAPS proofs.

- [The system](#the-system): inventory of the components
- [Modules](#modules): what is modelled and how it corresponds to the code
- [Runs](#runs): what TLC checks, with which bounds, and what it shows
- [Fairness](#fairness)
- [Proofs](#proofs)
- [Disagreements](#disagreements) between comments and code
- [Not modelled](#not-modelled), [Plan](#plan), [How to run](#how-to-run)

## The system

### Thread pool

| Part | State | Operations |
|---|---|---|
| `HncThreadPool` | task queue and its counter, map of threads by id, `m_cur_size_`, `m_idle_size_`, `m_running_`, limits; one mutex, three condition variables | constructor, `set_task_thresh_hold`, `start`, two overloads of `submit_task`, `m_fixed_func`, `m_cached_func`, `m_get_task`, destructor |
| `HncThread` | an id from a static counter | `start`: detaches a thread that runs the pool's function with that id |
| `ThreadPoolManager` | map of pools by name | `get_fixed_pool`, `get_cached_pool` |
| `LockFreeRingQueue` | ring of slots, two atomic indices | `push`, `pop`; nothing uses it |

Clients call `submit_task` and wait on futures. Workers are detached, so the only
thing that keeps a worker from using a dead pool is the destructor's wait for an
empty map. What is hard: wakeups (`notify_one` against timed waits that are just
expiring), counters changed outside the lock, growth and shrinking of a CACHED
pool, destruction while workers are anywhere. A correct pool keeps the queue
within its limit, runs every accepted task exactly once and in order, and is
destroyed after the last worker has left. The manager makes and starts pools under
a lock of its own; all pools draw thread ids from one unsynchronised counter.

### Logger

| Part | State | Operations |
|---|---|---|
| `Logger` | a shared mutex | `log` |
| `LogBuffer` (three) | rows, atomic next-row index | `get_idx`, `add_log`, `empty`, `flush`, `m_reset` |
| `LogThread` | three buffer pointers, eventfd, epoll, latch, barrier, file | `start`, `notify`, `wait`, `primary_swap`, thread function, destructor |

Producers fill the primary buffer under the shared lock. The one that finds it
full exchanges primary and secondary under the exclusive lock and writes the
eventfd; the log thread exchanges secondary and write buffer **without** that
lock, writes the file and clears the buffer. What is hard: the two exchanges share
a pointer, notifications coalesce in the eventfd counter, signals interrupt
`epoll_wait`, and the shutdown notification may be swallowed by a `read`. A
correct logger gives each row to one producer, writes each message once, and has
written everything when its destructor returns.

### Timer

| Part | State | Operations |
|---|---|---|
| `HncTimerManager` | map of timers by descriptor, a mutex | `start`, `add_timer`, `remove_timer`, `callback`, destructor |
| `HncTimerThread` | epoll, eventfd, `m_running_`, latch, a FIXED pool | `init`, the listener loop, `add_timer`, `remove_timer`, `stop` |
| `HncTimer` | a timerfd, the callback | constructor arms it, `callback` reads it, destructor closes it |

The listener is the first task of the pool and submits callbacks to the same pool.
What is hard: descriptors are closed twice and
reused, callbacks run after a timer was removed or the manager is gone, edge-triggered events are
coalesced, `stop` waits for a latch that only one way out of the loop counts down. A correct
service calls back once per expiration, keeps a timer registered until it is
removed, leaks no descriptor, and stops.

### Memory pool

| Part | State | Operations |
|---|---|---|
| `PageCache` | lists of free spans by page count, page-to-span map, pool of `Span` objects; one mutex taken by the callers | `create_pc_span`, `recover_span_to_page_cache`, `find_span_by_address` |
| `CentralCache` | per size class a list of spans with free blocks, a lock each | `alloc_to_thread`, `_m_get_span`, `recover_blocks_to_spans` |
| `ThreadCache`, `Freelist` | per thread and size class a list of blocks, its size and how many blocks to ask for next | `allocate`, `deallocate`, `push_front`, `pop_front`, `push_range`, `pop_range` |
| size classes | - | `RoundUp`, `Index`, `BlockThreshHold`, `PageThreshHold` |
| `tnc_malloc`, `tnc_free` | a thread's cache | with the wrappers for `new`, STL and pmr |
| `FixedMemPool` | free list of objects, memory from the heap | `New`, `Delete` |
| `TCMalloc_PageMap3` | three levels of nodes | `get`, `set`, `Ensure`; nothing uses it |

`tnc_malloc` serves small requests from the thread cache, which refills from the
central cache, which takes spans from the page cache; requests above 256 KB go to
the page cache directly, above 512 KB to `mmap`. What is hard: every split and
merge leaves entries in the page map, some of which point to dead objects; spans
are used under other locks than the one they are merged under; blocks allocated by
one thread are freed by another; the list lock is released around every call into
the page cache; the heap is extended in three system calls. A correct page cache
never gives a page to two spans, never loses one, and leads every address back to
its span; a correct central cache counts the blocks of a span that are out exactly,
because the span goes back when the count is 0.

## Modules

| Module | Models | Role |
|---|---|---|
| `TaskService` | - | abstract specification: FIFO, each task once, closed only when drained |
| `ThreadPool` | `HncThreadPool`, `HncThread` | detailed specification, implements `TaskService` |
| `ThreadPoolProofs` | - | theorems about `ThreadPool` |
| `ThreadPoolManagerProofs`, `LoggerProofs`, `TimerManagerProofs`, `PageCacheProofs`, `CentralCacheProofs`, `AllocEntryProofs` | - | theorems about the module of that name |
| `ContainersProofs` | - | theorems about `RingQueue` and `PageMap3` |
| `ThreadPoolManager` | `ThreadPoolManager`, several pools' maps of threads, the id counter | detailed specification |
| `Logger` | `hnc_log.h`, `Logger`, `LogBuffer`, `LogThread` | detailed specification |
| `TimerManager` | `HncTimerManager`, `HncTimerThread`, `HncTimer`, the kernel's descriptors, timerfds and epoll (external) | detailed specification; uses the pool as `TaskService` promises it, but for threads that outlive it |
| `PageService` | - | abstract specification: disjoint ranges of pages, stable until returned |
| `PageCache` | `PageCache`, `Span`, `SpanList`, the `Span` pool, `SystemAlloc` | detailed specification, implements `PageService` up to a race for the break |
| `SizeClass` | `common.h`, `PageThreshHold`, the carving loop | operators |
| `AllocEntry` | `tnc_malloc`, `tnc_free`, the wrappers | one request with the real constants |
| `CentralCache` | `CentralCache`, `ThreadCache`, `Freelist` | detailed specification; uses `SizeClass`, and the page cache as `PageService` promises it |
| `BoundedQueue` | - | abstract specification: FIFO of limited capacity |
| `RingQueue` | `LockFreeRingQueue` | detailed specification, implements `BoundedQueue` |
| `PageMap3` | `TCMalloc_PageMap3` | detailed specification |
| `MC...` | - | constants and symmetry sets for TLC |

Each module keeps the source's names. `PROJECT.json` maps every definition to
its lines. Operators called *seeded faults* in a module's header are altered copies
of one definition, used to confirm that each property can fail; no
specification refers to them.

### `ThreadPool`

A section of code that runs under `m_task_mtx_` is one action; everything outside
the lock is an action of its own (`DestroyStore`, `BeginTask`, `EndTask`,
`StartOne`, `WaitTimeout`).

| Code | Actions |
|---|---|
| constructor, `set_task_thresh_hold` | `Init`, `SetTaskThreshHold` |
| `start` | `StartRegister`, `StartOne` per thread, `StartDone` |
| `submit_task` | `Submit` (queue has room, or the client begins its timed wait), `SubmitWake` (the second has passed) |
| loop of `m_fixed_func` / `m_cached_func` | `Fetch` = `GetTask`, `Exit` or `Block`; `Woken` = back from the wait; CACHED: `WaitTimeout`, and `Woken` may `Reclaim` the worker |
| executing a task | `BeginTask`, `RunTask`, `EndTask` |
| destructor | `DestroyStore`, `DestroyLock`, `DestroyWake` |
| condition variables (external) | `NotifyOne`, `NotifyAll`, `NotifyExit`, `SpuriousWake`, `SpuriousExitWake` |

Workers are threads, `m_threads` holds ids: a second `start()` can make two
workers share an id. `wait_for` has no predicate and
reports a timeout by the clock, so a worker that was notified may find its second over like one that
was not. How late it is and how long it has been idle are left open: a CACHED worker that comes
out of its wait may always be reclaimed when the pool has grown, and takes its notification with it. Nothing in the code
notifies `m_cond_not_full_`, so a waiting client only moves when its wait expires.
The destructor presupposes that no `submit_task` is in progress (the pool is owned
by a `shared_ptr` held by its users).

### `ThreadPoolManager`

`++m_generateId_` is a load (`LoadId`) and a store (`StoreId`) of a plain int.
`GetPool` is `m_get_pool` up to the loop of `start()`; the constructor's `uint8_t`
parameter is the `% 256`. `StartAgain` is the second `start()` in
`HncTimerThread::init`, `Grow` the growth of a CACHED pool under its own lock; both
increment the counter without `m_mtx_`. Of each pool only the ids in the map and the
bag of running threads by id are kept, in functions of the pool (`threads`, `running`),
and of each client what it is making threads for (`at`, `pool`, `left`, `loaded`); `Begin`
and `End` are the two ends of the loop that makes them. `lost` records that an increment has
overwritten another, `outside` that one has begun without `m_mtx_`.

### `Logger`

Each exchange of buffer pointers is two steps, a read and a write of
`m_secondary_buffer_`, because the log thread takes no lock: this is where the
data race of the code is. `raced` is a history variable that records that the two
exchanges have overlapped. The text of a message is abstracted to its call number
and its length, a cleared row to 0; text torn by a producer and a flush in the same
row is not modelled. `flush` writes and clears one row at a time, in the loop of the
log thread and in its last flushes alike (`WriteRow`). `Log` includes the filter of `log_message` (`Passes`), with the
level read from the environment. `StoredLen` is the length byte `flush` finds in a
row: the length modulo 256, or the newline (10) that was appended to a line of 255
bytes in the row before (`cut` remembers that this has happened to the next row). A barrier that expects one thread never blocks, so `wait()` is part of
`NotifyWait`. `EpollInterrupted` is the signal case: because of
`== -1 && errno != EINTR` the loop goes on as if it had been notified.

### `PageCache`

The callers hold `_m_mtx`, so one call is in progress at a time; the iterations of
the loops inside it are steps (`phase`). `Exact`, `Split`, `SystemAlloc` are the
three parts of `create_pc_span`, `MergeLeft`, `MergeRight` the bodies of the two
loops of `recover_span_to_page_cache`, `Recovered` its end; `Unlink` takes a span out of its list. Span objects come from
a pool and are reused, and the map keeps entries of pages whose object is gone, so
the model has dead objects, too. `Delete` leaves `_page_size` and `_is_use` of a
dead object as they were, and so does the model. `SystemAlloc` of the code is three calls:
it reads the break for its result (`Sbrk`), reads it again (`SbrkAgain`) and sets it to n pages above
what it has read then (`Brk`), higher or lower. `SystemAllocPtr`, `SystemAllocTop`, `SystemAlloc` are these
steps of the page cache, `TcAllocPtr`, `TcAllocTop`, `TcAlloc` those of the pool of `ThreadCache` objects,
under another lock. `raced` records that the break was moved between another's calls. Then both may
get the same pages, or the break may be taken back below pages that were granted, which the next grant overlaps;
two spans own them, the map leads to the wrong one, and all that rests on it falls. So
`HeapApart` says that this is the only way for the two heaps to meet, and every property of the page cache but
its types is claimed up to it. `HandOut` is what the caller does before it releases the
lock: the central cache sets `_is_use`, `tnc_malloc` does not. `Service` maps the
ranges of the spans that are out, and whether a merge is in progress, to
`PageService`.

### `SizeClass`, `AllocEntry`

The ranges of sizes are a parameter: `RealTable` states the values of the source,
which `MCAllocEntry` gives them (TLC checks that it does) and the theorems assume;
`MCCentralCache` takes two classes of a tiny table. `AllocEntry` follows one request
through `tnc_malloc` and `tnc_free`; `TableSize` is the table of `thread_cache.h`
and serves as the reference definition of `RoundUp` and `Index`.

### `CentralCache`

Memory is a function from addresses to the pointer stored there, so that free lists
are the chains of the code. Everything done under the lock of a size class is one
action, except the loop of `recover_blocks_to_spans`, one action for each block.
`CreateSpan` and `GiveBack` use the page cache without the lock of the list, any
pages nobody has (`PageService`, so this module is about the time before a race for the break). `broken` records the two defects that mix up memory
(below). A behaviour ends when memory is used that has a new owner (`Sane`), because
what follows depends on the contents; `UseCountExact`, `OnePlace` and `CacheBounded`
are claimed up to the first defect. `OnePlace` says that a block is in at most one place, and that none
is lost while its span has a free block. More is not true: the loop that returns blocks stores the
block it returns nowhere, so this block and the free ones of the span are in no list until the whole span
has come back, and in the meantime the span has no free block.

| Code | Actions |
|---|---|
| `tnc_malloc`, `allocate` | `MallocCached`, `MallocCentral` |
| `alloc_to_thread`, `_m_get_span` | `AllocFound`, `AllocMissed`, `CreateSpan`, `InsertTake` |
| `tnc_free`, `deallocate`, `_m_release_block` | `FreeCached`, `FreeWhole`, `FreeNoCache` |
| `recover_blocks_to_spans` | `RecoverLock`, `RecoverBlock`, `GiveBack`, `RecoverDone` |

### `RingQueue`, `PageMap3`

Two containers nothing uses yet; `MCContainers` puts them side by side. In
`RingQueue` each access to memory both threads use is a step. One thread pushes and
one pops: with two pushing threads the queue is not correct, nor does it say so. The model takes any
`Size` but 0; the constructor lets only powers of two through, and 0.
`PageMap3` keeps the order in which nodes are made; `Ensure` skips to the next root
entry after each leaf, as the code does.

### `TimerManager`

`file` is the kernel's descriptor table, `watched` and `ready` the edge-triggered
epoll set; a descriptor that is closed leaves both. `remove_timer` is two steps
under `m_mtx_`: `RemoveErase` (the timer dies and closes its descriptor, unless a
callback holds it) and `RemoveClose` (the descriptor is closed again), because a
timer is created outside the lock and may get the number in between. A `read` that
fails leaves `expirations` uninitialised: `ReadTimer` then takes any value of
`Garbage`, and the history variable `misread` keeps the timer. `confused` is the other: a `close` has hit
another timer's descriptor, a callback was looked up for a descriptor that is not in the map
(`operator[]` leaves an empty entry, and a later `emplace` fails), or a `read` was made on another
timer's descriptor. `OnePerExpiration` and `Registered` say that these are the
only ways to go wrong; that the calls of a timer exceed its expirations needs a failed read of its own.
Taking a task from the pool and looking its timer up is one
step, as a task may stay in the queue as long as it likes. The destructor runs when
no client is inside the manager; the map outlives the pool because it is declared
before `m_timer_thread_`. `init()` starts the pool a second time, so some of its threads have a twin of
the same id that `~HncThreadPool` does not wait for: `DestroyMembers` goes on when at most `Twins` callbacks are
under way or still queued. A timer that one of them holds dies after the manager (`NoFdLeak`).

## Runs

### Passing

| Run | Instance | Shows |
|---|---|---|
| `fixed` | 2 threads, 2 clients, 3 tasks, queue of 1 or 2 | `QueueBounded`, `SafeDestroy`, refinement `ServiceSpec`, `AcceptedTaskRuns`, `DestructorReturns` |
| `cached` | 1 initial thread, 2 at a time, 4 in all, 2 clients, 3 tasks, limit 1 or 2 | `NoStrandedTask`, `AcceptedTaskRuns`, `SizesExact`, and `LastOutNotifies` in place of `DestructorReturns` |
| `manager` | 3 clients, 2 pools of 1, 2 or 256 threads, growth by 2 | `OneThreadPerId`, `LostOnlyOutside` |
| `logger` | 2 producers, buffers of 2 rows, 6 messages, signals | `RowsExclusive`, `AtMostOnce`, `LossOnlyByRace`, `LinesIntact` |
| `logger_live` | 2 producers, buffers of 1 row, 4 messages, signals | `LogReturns`, `ShutdownReturns` |
| `timer` | 2 timers (one repeating, 2 expirations), 2 descriptors, 2 clients, 2 executors, 1 of them may outlive the pool | `StopSafe`, `NoFdLeak`, `OnePerExpiration`, `Registered`, `TimerFires`, `StopReturns` |
| `page_cache` | grants of 3 pages, requests for 1 or 3, heap of 7, 4 Span objects, 1 mmap span, a second user of the heap | `EachPageOnce`, `FindsOwner`, `ListsExact`, `NeighboursAlive`, `HeapApart`, refinement `Service` |
| `central` | 2 threads, 2 size classes, 2 pages, 2 Span objects, 3 blocks a span | `UseCountExact`, `OnePlace`, `CacheBounded` |
| `size_class` | real constants, every size to 260 KB, borders to mmap | `TableKept`, `SpanServes`, `FreedWhereAllocated` |
| `containers` | ring of 4, 2 values; tree of 2 x 2 x 2 keys | refinement `RingIsQueue`, `Agrees` |

`fixed`, `timer` and `page_cache` also check a type invariant. Whatever the mode, a task
is queued, taken and run by the same actions, so the refinement is checked in `fixed`. A FIXED worker has no
expiring wait that makes up for a lost wakeup, so `AcceptedTaskRuns` there says that none is lost. A CACHED pool does lose
one, when a notified worker is reclaimed: `NoStrandedTask` says in `cached` that nothing else leaves a queued
task with nobody awake, and `AcceptedTaskRuns` that the task runs when the next wait is over.

Why the bounds are enough for the cases of interest:

- `fixed`: three tasks against one or two places make clients wait, time out and be
  rejected; two workers let one sleep while the other takes the task, and one leave
  while the other still drains the queue.
- `cached`: three tasks with a limit of two make the pool grow to two threads,
  shrink and grow again (ids are never reused, so the fourth worker is the third
  growth), and one of two sleeping workers be notified past its deadline; with limit one it cannot grow.
- `manager`: a lost increment needs two clients, and a third lets an id come back in
  the pool that already has it. The clients may stop, so deadlock is not checked.
- `logger`: five messages that pass the filter fill two buffers and start the third,
  so all three roles rotate and both exchanges happen with the log thread anywhere in
  its loop; their lengths are 20, 255, 256 and 300, in rows that follow each other.
- `timer`: two timers and two descriptors let the second timer take over the
  number of the first while a client, a callback or a queued task still refers to
  it; two expirations queue two callbacks of one timer; a `read` that fails leaves a
  count of 1 (`Garbage`), so that a callback runs which no expiration led to; one of the two executors, or a task that is still queued, may
  be left when the manager dies. The system may stop for
  good (`stop()` that never returns, or a manager that is gone), so deadlock is not
  checked.
- `page_cache`: two grants, adjacent or one page apart, give merges inside a grant,
  across grants, and merges refused by the size limit; spans of two pages are what a cut
  or a merge leaves; three-page spans have an inner page, whose map entry becomes
  stale. States after a race for the break are not explored further (constraint `NotRaced`, in
  `page_cache_large`, too), as the properties say nothing about them. Running out of Span objects or heap
  ends a behaviour, so deadlock is not checked in this run.
- `central`: two spans of one class, blocks of both in the hands of both threads,
  lists that grow to the threshold and are relieved; a class whose spans exceed
  `LargePages`. States after the first defect are not explored further (constraint
  `NotBroken`), as the invariants say nothing about them; `central_mixed` does.
  Behaviours end when memory runs out, so deadlock is not checked.
- `size_class`: no bound, every size the thread caches serve.
- `containers`: a ring of four wraps and is full with three; the keys that are set
  share leaves, middle nodes and the root, and `Ensure` is called across them.

### Violations

Each of these runs checks one statement the repository makes, and TLC finds a
behaviour of the code that contradicts it.

| Run | Property | What happens |
|---|---|---|
| `page_cache_large` | `OutStable` | a span of 65 to 128 pages given to `tnc_malloc` is not marked in use; freeing its neighbour swallows it |
| `central_mixed` | `Complete` | `recover_blocks_to_spans` makes the *next* returned block the head of the span's free list; when that block is of another span, it is handed out from the wrong span, and its own goes back to the page cache with the block in use |

## Fairness

Weak fairness on the steps of every running thread: workers, clients leaving a
timed wait, the owner inside `start()` or the destructor, producers, the log
thread, the listener and the pool threads that run callbacks. The operating system's scheduler and the mutexes justify it: a thread that
can always run is run, a timed wait always expires. Submitting a task, calling
`log`, adding or removing a timer, a timer's expiration, destroying, receiving a signal and waking spuriously carry no fairness:
nobody has to do them. Tasks are assumed to return (`RunTask` is fair), which is
what `AcceptedTaskRuns` needs from the caller. Nothing needs strong fairness,
although producers compete for the exclusive lock: with finitely many messages the
shared lock is not held for ever.

## Proofs

The theorems hold for any number of threads, clients, messages, timers, pages and so
on. Each module's named assumption about its constants (`PoolAssumption`, ...) only
says that numbers are numbers and special values are not ordinary ones, and that the
service timer has a descriptor to use; `RingAssumption`, that the ring has a place. The one exception is `CentralAssumption`: the sizes that
are asked for must fit the table of size classes (`ClassesSound`), which `RealClassesSound` proves
of every size with the values of `common.h`. What a theorem assumes beyond that is in the
table. Where a property has a history variable (`~raced`, `~lost`, `~confused`, `misread`, `~broken`), so has
the theorem: it says that what the variable records is the only way for the code to go wrong.

| Theorem | Assumes | Proves |
|---|---|---|
| `QueueSafe`, `PoolTypes` | - | `QueueBounded`, `OwnerInv`, `ThreadPool!TypeOK` |
| `DestroySafe` | `Starts <= 1` | `SafeDestroy` |
| `InitialThreadsKept` | `Starts <= 1` | an open CACHED pool that has shrunk again still has its initial threads |
| `NoTaskStranded` | `Starts <= 1`, `InitSize > 0` | `NoStrandedTask` |
| `FixedNeverStrands` | `Starts <= 1`, `InitSize > 0`, `Mode = "FIXED"` | no queued task ever finds all workers asleep or gone |
| `CountersExact` | `Starts <= 1`, `Mode = "CACHED"` | `SizesExact` |
| `PoolImplementsService` | `Starts <= 1`, `InitSize > 0` | `ServiceSpec`: the pool implements `TaskService` |
| `LostOnlyOutsideManager`, `IdsUnique` | - | `LostOnlyOutside`, `OneThreadPerId` |
| `WrittenOnce`, `RowsAreExclusive`, `NothingLost`, `LinesAreIntact` | - | `AtMostOnce`, `RowsExclusive`, `LossOnlyByRace`, `LinesIntact` |
| `TimerTypes`, `ListenerGoneFirst`, `DescriptorsClosed`, `StaysRegistered`, `OneCallPerExpiration` | - | `TimerManager!TypeOK`, `StopSafe`, `NoFdLeak`, `Registered`, `OnePerExpiration` |
| `HeapsApart`, `PageCacheTypes` | - | `HeapApart`, `PageCache!TypeOK` |
| `PagesOwnedOnce`, `AddressesFound`, `ListsHoldFreeSpans`, `NoStaleNeighbour` | `LargeSizes = {}` | `EachPageOnce`, `FindsOwner`, `ListsExact`, `NeighboursAlive` |
| `PageCacheImplementsService` | `LargeSizes = {}` | `Service`: the page cache implements `PageService`, up to a race for the break |
| `HandedOutStable` | `LargeSizes = {}` | `OutStable` |
| `UseCountIsExact`, `BlocksInOnePlace`, `CachesAreBounded` | - | `UseCountExact`, `OnePlace`, `CacheBounded` |
| `SpansComeBackWhole` | - | `Complete` holds until `broken`: what `central_mixed` shows has no other reason |
| `SaneUntilBroken` | - | the guard `Sane` of `CentralCache!Next` holds until `broken`, or a call through a null pointer |
| `RealClassesSound` | `RealTable` | `ClassesSound(1 .. MaxAllocBytes)`: what `CentralCache` assumes of its requests |
| `RealTableKept`, `RealSpanServes`, `RealFreedWhereAllocated` | `RealTable` | `TableKept`, `SpanServes`, `FreedWhereAllocated` |
| `RingImplementsQueue` | - | `RingIsQueue`: the ring implements `BoundedQueue` |
| `MapAgrees` | - | `Agrees` |

Why the assumptions are there. `Starts <= 1`, `InitSize > 0`: [Disagreements](#disagreements)
says what happens otherwise. `Mode = "CACHED"`: after `start()` a FIXED pool never writes `m_cur_size_` or
`m_idle_size_`: the counters are for CACHED ones. `LargeSizes = {}`: the run
`page_cache_large` shows that the cache goes wrong with the spans that `tnc_malloc`
takes without marking them in use, and `HandedOutStable`, that it does so only with them.
`RealTable`: the values in `common.h`; other tables need not work.

### The inductive invariants

The invariants checked by TLC are seldom inductive. Each proof has a stronger one, made
of named parts with one lemma for `[Next]_vars` each and one step for each action.

`ThreadPoolProofs`:

- `TypeOK` and `QueueBounded` need each other: `m_get_task` takes the head of the
  queue because the counter is not 0. `OwnerInv` says the limit is only changed
  while the pool is empty and not running.
- `IdInv`: the ids in the map that `start()` has dealt with are the ids of the live
  workers, one worker each. `SafeDestroy` alone is not inductive: that the map is
  empty says nothing about workers unless ids and workers correspond.
- `PhaseInv`: what the owner's position implies for the ids still to be started and
  for the number of calls of `start()`, that the queue is empty until `start()` is
  done, and the map once the pool is destroyed.
- `SizeInv`: the map holds `m_cur_size_` threads and at least the initial ones, because a worker is
  reclaimed only from a pool that has grown. So somebody lives while the pool is open (`SomebodyLives`),
  whom `notify_one` wakes if all sleep (`EnqueueWakes`), and who sleeps only if the queue is empty
  (`LoopAwake`). `NoStrandedTask` speaks of steps: `StrandStep` has one case for each action, and
  `Reclaim` is the one that may strand a task.
- The refinement adds that accepted tasks are queued, taken or done, each in one place.
  A pool can only close when all are done: a last worker leaves only when the queue is empty.

`LoggerProofs` (`Inv`): `Control` relates the exclusive lock to the producer that
exchanges and the log thread's position to what it holds; `Single` says that a message
is in one row or one line, except in the row that `flush` has written and not cleared, and
holds whatever the exchanges do; `Lengths255` is what the length byte does. `Places` (the three
pointers are three buffers, an exchange's earlier read still holds, rows beyond the index
are zero, a row given out waits for one producer) and `Kept` (every accepted message is in a
row or in the file, and the buffers are emptied in order at the end) are only true
while `~raced`, and are proved under it; `raced` is never reset, so one lemma may
use them before the step and drop them after it.

`ThreadPoolManagerProofs` (`Inv`): `Calls` says which locks a client inside a call
holds, `Inside` that only the holder of `m_mtx_` counts as long as nobody has
been `outside`, and that what it has loaded is still the counter. `Exact`, while `~lost`:
the counter is above every id, maps share none, and a pool that was started once has as many ids as were asked
for and grown, less those its client has `left` to make; each id has its thread as soon as
`start()` is through. `OneThreadPerId` speaks of quiet pools only and is not inductive without the others.

`TimerManagerProofs`: `TypeInv` (types, and which positions have a timer), `StopInv` (the
latch is counted down by a listener that leaves), `FdInv` (a live timer has an owner that will destroy
it, an open descriptor a live timer, and a manager that is gone owns nothing, so that only callbacks do) and `RegInv`: everything that refers to a timer
refers to one that exists (`Known`), and while `~confused` and the manager is open the map,
the registered timers and the clients' timers are apart as they should be (`Ours`). A removed
timer whose descriptor is closed a second time is why `Registered` needs `~confused`.
`CountInv`: only finitely many executors hold a timer, and one that has not read has nothing to
call; `Due` is `Calls`, and grows past the expirations only in the step that enters a timer in `misread`.
The sum in `OnePerExpiration` is recursive; `SmallestSet` (a set of subsets of a finite
set has a minimal member, from the library's `WFMin`) replaces the induction theorems the
provers cannot use, and gives what a sum is when one term changes (`SumRemove`, `SumChange`).

`PageCacheProofs` (`PageInv`): `HeapInv` says that until a race what each user remembers of the break
is the break, and that the heaps lie apart below it (`Settled`). `SpanInv`, up to a race as well, is about
the spans: shapes, no page in two (`ApartInv`), every page in one (`CoverInv`), lists,
what is in progress (`LockInv`), and `MapInv`: the first and the last page of every span on a
list, and every page of one in use, are mapped to it. This is what makes merging right although the map also
has stale entries: the page next to a span is the border of its neighbour, so the entry
that is looked up is never a stale one, unless the neighbour is a large one that was not marked, or a grant overlaps
another. After a race only types are left, and `PageCacheTypes` has an invariant of its own for them (`TypeInv`): the sizes of
spans on lists and the members of lists, whatever the map says.

`AllocEntryProofs`: the invariant only says that a request was served and freed as
`tnc_malloc` and `tnc_free` do it (`Malloced`, `Freed`); the content is arithmetic, for each
of the five ranges: `ListsBeforeValues`, `SmallSize`, `SizeTable` (`RoundUp` and `Index` are the table's),
`Quotient` and `SpanPages` (`PageThreshHold`).

`CentralCacheProofs` (`CentralInv`): the properties follow pointers, which a step changes
in the middle, so the invariant speaks of something else. It says that there are two functions
from the addresses, with which the pointers agree: `place`, the list each block is in (or
its user, or none), and `rank`, how many blocks there are from it to the end of the list. `Linked`: a
block points to one of the same place and the rank below, the last one to none; `Ranked`: no two
blocks of a list have the same rank; `Begins`: a list's header is its block of the highest
rank. A step is then proved by giving the new functions, and what it does to all lists is one of
a few lemmas: `PopHead`, `PushMove`, `SplitHead`, `LinkNew`. `Untouched` says that the
other lists stay. `NthIs` and `ListChain` lead back to the chains: a chain is the set of blocks of
its place, and as many as the rank of the first.
The other parts are what the lists are for: `Owned` (blocks belong to spans, and are in the list of
their class), `Counted` (`_use_count` in terms of `place`), `Sized` (counts and limits), `Calls`
and `CallsApart` (a span on its way between the page cache and a list belongs to one call and no
block of it is outside), `Listed`, and `Whole` (none of the blocks a span was cut into is nowhere while the span has
a free one: `SpanWhole`). One case is not a list: in the loop of
`recover_blocks_to_spans` a span's header may be a block that is still being returned
(`Aliased`), which is put right when that block is linked; the span's free blocks were lost before, and
`None` is where they are. The step proofs do not use the guard `Sane`, and `SaneUntilBroken` shows that
it cuts off no behaviour these theorems are about.

`RingQueue` in `ContainersProofs`: a push in progress has room and a pop something to take, as the other
thread can only make more of it; the elements between the indices are the queue.
`PageMap3`: division with remainder makes three indices tell all keys apart (`PlaceInjective`).

### Only model-checked

- All liveness (`AcceptedTaskRuns`, `DestructorReturns`, `LastOutNotifies`, `LogReturns`,
  `ShutdownReturns`, `TimerFires`, `StopReturns`): fairness and ENABLED are outside the
  prover's reach. These are the only properties of the passing runs without a theorem.
- `RowsExclusive` and the other properties with a history variable say nothing once it is
  set; neither do their theorems. What the code does then is in [Disagreements](#disagreements).

## Disagreements

Where a comment or a document says one thing and the code does another, besides the
violation runs. First those that take several steps; a property of a passing run
says exactly when they happen.

- `thread_pool.cpp:24` and `:140`: the destructor waits until all threads have left
  and is woken by the last one. A CACHED worker that is reclaimed after a timeout
  (`:149`) erases itself without notifying; when it is the last, the destructor sleeps
  on. `LastOutNotifies` names this exception, `DestructorReturns` holds for FIXED pools.
- `thread_pool.cpp:145` speaks of reclaiming a thread whose wait for a task has timed out. `wait_for`
  (`:146`) has no predicate, so it reports a timeout also to a worker that was notified and comes back
  late. That worker is reclaimed without a look at the queue, its notification is lost, and the task waits with
  nobody awake until another worker's second is over or a task is submitted. `NoStrandedTask`: nothing
  else leaves a task so; `FixedNeverStrands`: not in a FIXED pool.
- `thread_pool/README.md:16`: `submit_task` returns a future for the result. In a
  CACHED pool with 0 initial threads the only worker may be reclaimed with a task
  queued, and nobody is left to run it. With initial threads one is left
  (`InitialThreadsKept`, proved), and the task runs in the end (`AcceptedTaskRuns`).
- `hnc_timer_thread.cpp:41` starts a pool that `m_get_pool` has already started: two
  workers share each of the first ids, and the destructor may return while one still
  runs. A pool that is started once is destroyed safely (`DestroySafe`, proved). Of the timer service this means that
  a callback may hold a timer, with its descriptor open, when the manager is gone (`NoFdLeak`: only then).
- `hnc_thread.cpp:7`: two pools that grow at once may give out an id twice; then one
  worker's exit takes another out of the map. `LostOnlyOutside`: making pools alone
  cannot cause it.
- `log_thread.cpp:159` says that the exchange needs no lock because the producer has
  finished its own; the log thread may still be in the exchange of an earlier
  notification, one write of `m_secondary_buffer_` is overwritten, and a full buffer
  drops out of the rotation. `LossOnlyByRace`: nothing else loses a message.
- `hnc_timer_manager.cpp:20`: `stop()` blocks until the background thread has exited.
  A listener that sees `m_running_` false before the event leaves without counting the
  latch down, and `stop()` never returns. `StopReturns` names this exception.
- `common.h:64`: the heap is said to be extended by moving its end; that takes three calls, two that read the break and
  one that sets it (`:65`). The page cache and the pool of `ThreadCache` objects, under different locks, may be given the
  same pages, and a `brk` to an old value takes the heap back below pages that are in use (`HeapApart`: only by this
  race; all other properties of the page cache end with it).
- `central_cache.cpp:63`, `:76`, `:79`: the comments say that each block is given back and becomes the head of
  the free list of its span. The code makes the next block of the returned list the head, and 0 when the last is
  returned: a returned block and the blocks that were free before are in no list until the whole span has come
  back. `OnePlace`: no other step loses a block.
- `hnc_timer_d.cpp:56` reads how often the timer has expired without looking at the result. When two
  callbacks are queued for one timer, the first reads all its expirations, and the second runs the callback as often
  as what is on the stack says (`OnePerExpiration`: only after a failed read).
- `log_buffer.cpp:35`: a message of 256 bytes is written as an empty line, and the
  newline of a line of 255 bytes overwrites the length of the next (`LinesIntact`).
- `alloc.h:49` takes every span of more than 64 pages for a large allocation; the
  spans of blocks above 128 KB have more pages than that, and freeing one block gives
  both back (`FreedWhereAllocated`: exactly those).
- `central_cache.cpp:155`: for some block sizes above 512 bytes the last block of a
  span ends beyond it (`SpanServes`: never up to 512).
- `freelist.h:33` says that `_m_apply_count` does not exceed the threshold; it reaches
  the threshold plus one (`CacheBounded`).
- `thread_cache.cpp:26` and `:36`: blocks are given back when a list has *more* than
  `apply_count`; the code (`:37`) gives them back when it has as many. `CacheBounded` states the code.

And those visible at one line:

- `thread_pool.h:51` promises a default value for a rejected submission. The
  `packaged_task` is dropped uncalled, and `get()` throws `broken_promise`.
- `thread_pool.h:63` compares the number of threads with the *task* limit, while
  `:197` calls `m_thresh_hold_thread_size_` the largest number of threads.
- `hnc_thread_pool.h:56`: pools are never registered, so the same name gives a new
  pool each time; `:54` narrows the number of threads to 8 bits.
- `logger.cpp:44` says that the producer blocks until the log thread has exchanged
  the buffer; the barrier of `log_thread.h:70` expects one thread and never blocks.
- `logger.cpp:36` and `logger/README.md:132` say that the second look under the
  exclusive lock tests for *full* and only one producer exchanges; the code tests
  `empty()`, so a second producer exchanges a buffer with one row in it.
- `log_thread.cpp:169` says that the rest of the log is written in chronological
  order; a producer may exchange the two front buffers twice before the log thread
  looks, and then the newer one is written first.
- `hnc_log.h:58` calls INFO the default level, the code returns debug.
- `hnc_timer_thread.cpp:96` lets `epoll_wait` write 10 events into an array of 8.
- `hnc_timer.h:15` takes `std::min` with 2 where the comment asks for at least 2.
- `common.h:212` says that `Ensure` makes the nodes of all keys of the range; it makes
  one leaf for each root entry.
- `alloc.h:56`: a thread that frees before it has allocated has no cache, and
  `deallocate` is called through a null pointer (`FreeNoCache` ends the behaviour).
- `memory_pool/README.md:36`: requests above 256 KB are said to go to the central cache; they go to the page
  cache.
- `page_cache.cpp:15` has `mmap` serve requests of 512 KB; the code does so above 128 pages, which are
  512 KB (`:16` says that).
- `ring_buffer.h:12` lets the sizes 0 and 1 pass. With size 1 no task is ever accepted; with size 0 the mask is
  2^32 - 1, and `push` writes outside the empty buffer.

## Not modelled

- The formatting of log lines, `print_status`, `HncTask` (an abstract class without
  state), tests and benchmarks.
- Failing system calls: most end the program; a failing `brk` does where it reaches a `noexcept` function of the
  page cache, while on the path of the `ThreadCache` pool `std::bad_alloc` leaves `tnc_malloc`; and `mmap`'s failure the
  code does not recognise (`common.h:42`).
- Memory ordering: every atomic is sequentially consistent in the models. The code
  uses release stores and acquire loads or stronger at the points that matter for
  the modelled properties.
- Elapsed time: a timed wait may expire at any moment.
- A callback that begins, in a thread the pool has not waited for, after the manager is gone.
- What the code does after memory is in two hands: it depends on the contents.
- The end of a thread: its `ThreadCache` is never given back, nor are the blocks in it.
- Where in its memory a `FixedMemPool` places an object.
- `tnc_malloc(0)`, and the multiplication in `TncAllocator::allocate` overflowing.

## Plan

All components with control of their own are modelled, and every safety property of the passing
runs is proved. What could follow: the end of a thread and its `ThreadCache`, once the code gives
it back; several pushing threads in `RingQueue`, should a component come to use it that way.

## How to run

    tlc -workers 2 -config MCThreadPool_fixed.cfg MCThreadPool
    tlapm ThreadPoolProofs.tla

The other runs are listed in `PROJECT.json`; each takes less than a minute on two
cores. Every `*Proofs` module is checked like this one. Most take a minute or less,
`PageCacheProofs` and `CentralCacheProofs` about five.
