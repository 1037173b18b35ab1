# Verification of spack-playground

TLA+ models of the concurrent and crash-sensitive parts of this repository, the
TLC runs that check them on small instances, and TLAPS proofs of the properties
that matter most for every instance.

The repository is a collection of C++ programs and header libraries around
persistent memory (PMDK), thread synchronisation and RPC (Thallium). Its own core
logic is small and sits in a few places: a crash-consistent burst buffer shared
by two threads (`pmembb_list`), a barrier built on a condition variable
(`psync::Barrier`), a family of multi-threaded benchmark programs built on that
barrier, a guarded value (`synchronized_value`), a failure detector, and a number
of small persistent data structures. Everything else is straight-line calls of a
library.

## 1. Inventory

Paths are under `src/targets/`.

| Component | State | Operations | Interaction | What is hard |
|---|---|---|---|---|
| `libraries/psync` `Barrier` | counter, mutex, condition variable | `enter` | called by every benchmark thread | lost wake-ups, spurious wake-ups, unsigned wrap |
| `apps/pmembb_list` `BurstBuffer` | two persistent lists, volatile `tail_`, mutex | `runtimeInitialize`, `pwrite`, `tryEnqueueFlush`, `flushAll`, `forEach` (reads) | writer and flusher share the lists; libpmemobj allocates and logs | crash at any store, stale `tail_`, freeing while the writer appends |
| `apps/pmembb_list` `main` | loop counters | two thread loops, joins, close, restart | drives the above | flusher may finish before the writer; leftovers of an earlier run |
| `apps/pmem2bench`, `pmemblkbench`, `pmemobjbench` | striping parameters, offsets, `fail`, `ret`, timer | argument check, workers, report | barriers, timer, pool | start/stop of the timer, striping arithmetic, failures travelling to `main`, a data race |
| `libraries/elapsedtime` | two time points, a flag | `reset`, `freeze`, `sec` | benchmarks | used at the wrong moment |
| `apps/atomic_bench`, `pmem_distributed_counter` | counters, barriers | workers, final check | as above | lost updates, uneven shares |
| `libraries/synchronized_value` | value and mutex | proxies, assignment, swap, `synchronize` | threads of the client | two mutexes at once, half-visible swaps |
| `libraries/phi_accrual_fd`, `apps/thallium_failure_detector` | window of intervals, running sums, last heartbeat | `heartbeat`, `phi`, `reset`, `add` | RPC handler and printing loop share one detector | sums that drift from the window, uninitialised sums |
| `libraries/pretty_bytes` | none | `prettyTo`, `power` | every option parser | overflow of value times power |
| `apps/ppm_ch11_4`, `ppm_ch11_5` | values, keys, buckets | `get`, `put`, rebuild | libpmemobj | crash between two writes, a volatile index that must agree |
| `apps/ppm_ch8_7` | linked queue | `push`, `pop`, `show` | libpmemobj | leaks, dangling links, a stale tail |
| `apps/ppm_ch11_6`, `ppm_ch12_38`, `ppm_ch7_1`/`7_2` | an array in two versions; records; a string | `insert`; a loop; write and read | persists without transactions | what the medium holds in which order |
| `apps/ppm_ch14_1`, `ppm_ch14_2` | a counter | `increment` | threads, transactions | transactions do not isolate |
| `apps/ppm_ch7_6`, `ppm_ch7_7` | accounts and names | `new_account`, a transfer | reservations, actions, a transaction | half a transfer, half an account |
| `apps/pmemobj_atomic_ops` | three pointers and a heap | allocate, free | libpmemobj | leaks, dangling pointers |
| `apps/thallium_*`, `hello_thallium_*`, `argobots_1` | providers, pools, exposed buffers | RPC handlers, finalisation | Thallium and Argobots runtimes | order of finalisation, lifetime of an exposed buffer |
| `gen_random_string`, `example_*`, `use_*`, `holder_class_example`, `pmemobj_ctl`, `pmemobjstorage`, `libpmemblk_example`, `pmemkv_1` | none of their own | | | nothing beyond the library they call |

`PROJECT.json` lists every component with its status, and under `hazards` the
lines where something can go wrong that a test would hardly reach.

## 2. Modules

| Module | Models | Role |
|---|---|---|
| `AbstractBarrier` | | what a one-shot barrier promises |
| `Barrier`, `MCBarrier`, `BarrierProofs` | `psync::Barrier` | detailed barrier, instance, proofs |
| `DurableQueue` | | what the burst buffer promises, crashes included |
| `BurstBuffer`, `MCBurstBuffer`, `BurstBufferProofs` | classes of `pmembb_list` | pointers, undo log, threads, crashes; instance; proofs |
| `PmembbList`, `PmembbListProofs` | `main()` of `pmembb_list` | composes the burst buffer with the program's two loops |
| `StripedBench`, `MCStripedBench` | the three benchmark programs | composes the barrier's promise with the striped workers; its command lines |
| `StripedBenchProofs` | the same, and `prettyTo` | proofs |
| `CellOps` | the operations of `synchronized_value` | what each does to the values, shared by the next two |
| `AtomicCells` | | what a guarded value promises: every operation is one step |
| `SynchronizedValue` | `synchronized_value.hpp` | operations word by word under their mutexes |
| `MutexUsersProofs` | the same, and `thallium_failure_detector` | proofs |
| `Transaction` | | a libpmemobj transaction of one thread (external), used by the next three |
| `DurableMap` | | what a key-value store promises: one call at a time, lost or answered |
| `SimpleKV`, `SimpleKVRebuild`, `SimpleKVProofs` | `ppm_ch11_4`, `ppm_ch11_5` | the two stores and their `main()`s; proofs |
| `DurableFifo` | | what a queue promises |
| `PersistentQueue` | `ppm_ch8_7` | the linked queue and its `main()` |
| `VersioningInsert` | `ppm_ch11_6` | two versions and their persist order |
| `Records` | `ppm_ch12_38` | records and a counter persisted out of order |
| `WriterReader` | `ppm_ch7_1`, `ppm_ch7_2` | two programs on one pool |
| `Accounts` | `ppm_ch7_6`, `ppm_ch7_7` | reservations, publication, transfer |
| `PowerLossProofs` | the last four | proofs |
| `TxCounter` | `ppm_ch14_1`, `ppm_ch14_2`, `pmem_distributed_counter` | threads whose transactions increment counters |
| `AtomicOps` | `pmemobj_atomic_ops` | allocations that are atomic one by one |
| `PoolProgramsProofs` | the last two, and `ppm_ch8_7` | proofs |
| `AtomicBench` | `atomic_bench` | composes the barrier's promise with the counting workers |
| `PhiWindow` | `phi_accrual_fd::Window` | the operators of the sliding window |
| `HeartbeatServer` | `thallium_failure_detector`, `FailureDetector` | handlers, printing thread, clock |
| `WindowTest` | test case "Window" of `phi_accrual_fd` | the window as the test uses it |
| `PrettyBytes` | `pretty_bytes::prettyTo` | conversion in a type of limited width |
| `MCBenchmarks` | | instance: `StripedBench`, `AtomicBench`, `PrettyBytes` |
| `MCMutexUsers` | | instance: `SynchronizedValue`, `HeartbeatServer` |
| `MCPoolPrograms` | | instance: `AtomicOps`, `SimpleKV`, `SimpleKVRebuild`, `PersistentQueue`, `TxCounter` |
| `MCPowerLoss` | | instance: `VersioningInsert`, `Accounts`, `Records`, `WriterReader` |

The last four modules put programs that share nothing into one instance. The initial
state picks the one that is started; the others stay in one fixed initial state. The
behaviours of such a module are therefore exactly those of its components, one after
the other, and a property of a component is checked over all of them. A property of a
component that is used through `INSTANCE` has a definition of the same name there.

Operators named as mutants (a comment says of which definition) are deliberate
errors. None of them is used by a specification; each shows that the property
named in `PROJECT.json` notices that error.

### Barrier

`nthreads`, `mtx` and `pc` are `nthreads_`, the owner of `mtx_` and the position
of every thread in `enter()`. Each statement of `enter()` is an action: `Lock`,
`Decrement` (modulo `WordSize`, the range of `size_t`), `NotifyAll`, and
`cond_.wait` as `Leave` (predicate true), `Block` (predicate false: release and
block in one step) and `Reacquire`. `SpuriousWakeup` is what the C++ standard
allows `wait` to do. The notification comes before the thread's own test, and is
sent at every arrival, as in the code.

### BurstBuffer

The persistent part of the state (`active`, `flushing`, every node's `next` and
`req`, `allocated`, `undo`) survives `Crash`, the rest does not. A payload is the
number of the write that made it; the sentinel holds 0.

libpmemobj is modelled from its use: `pmemobj_xalloc` constructs the node and
stores its address in one failure-atomic step (`Construct`, with the destination
set by the caller's action); a store inside a transaction puts the old value in
the undo log first; `delete_persistent` inside a transaction takes effect at the
commit; `Open` replays the log. A store and its log entry are one step, since no
crash can separate them to any visible effect: the log is made durable before
the store.

The writer and the flusher step through their operations statement by statement
and may call any operation at any time. `CallbackMayStop` lets the flush callback
return true or throw at any node. Any allocation may fail (`PwriteFails`,
`SentinelFails`).

### PmembbList

`main()` adds the loop counters. The writer thread makes two `pwrite`s and one
`tryEnqueueFlush` per round and ignores their results; the flusher makes one
`flushAll` per round with a callback that always goes on. `JoinAndClose` ends a
run; `Start` may begin another one on the same pool. `Rounds` is 1000 in the code.

### StripedBench

`Args` is a set of command lines from which the initial state picks one, refused
ones included; `Program` is the program it starts. `Reject` and
`Accept` are the argument check, `OpenPool` and `OpenFails` the creation or opening
of the pool, file or device (a dry run opens nothing), `PoolTooSmall`
`pmemblkbench`'s test of the pool, `Prepare` the rest of the preparation; `order` is `access_offset` after an arbitrary shuffle. A barrier is represented
by `missing`, the number of parties that have not arrived: entering decrements
it, leaving needs zero, which is `AbstractBarrier`; module `Barrier` implements
that when exactly as many threads enter as the constructor was told. The sharing
of `ret` in `pmemobjbench` is a data race: `Test` reads either the shared variable
again or the value the worker has just stored, the two things a compiler makes of
line 220. `Throw` is the exception of `--alloc` that leaves the thread, and the null
pointer that `--read` copies from where an object was never allocated; `SpawnFails` is a
thread that cannot be created. Either ends the process without a report.

`hits` and `failed` are history. A block is its index; its contents, what the
libraries do to map files and devices, and the printing are left out.

### SynchronizedValue

Every member and free function of the header is one of seven kinds of operation
(`CellOps` lists which). A value has two words, written and read one after the
other under the operation's mutexes, so that a missing lock shows as a torn value
or a half-visible swap. `Call` and `Unlock` are the construction and destruction of
the guard or proxy; `SelfCall` is the test for assignment or swap with itself.
`std::lock` and `std::scoped_lock` are external and modelled as the standard
library implements them: wait for one mutex (`Lock`), try the other (`TryLock`), and
if that fails let go and begin again with either (`TryFails`). The constructors
write a new object nobody else can see: copying is a `get` of the other object and
moving an `exchange`; a moved-from object may hold any value. The free
`synchronize` names the private `mutex_`; the tests build it with `private` defined
as `public`. It takes any number of objects and is modelled for two different ones, and
so is a client that writes both.

### SimpleKV, SimpleKVRebuild, PersistentQueue

`pool` is everything in the object pool and `undo` is empty or holds the contents
the open transaction started from; `Transaction!Durable` is what the end of the
process leaves. Every write inside a transaction is a step of its own, so that
`Crash` and an allocation that throws (`TxThrows`) come between any two of them.
`call` and `reply` are the interface to the abstract specification: `ImplementsMap`
and `ImplementsFifo` map the abstract map or sequence to the durable contents, so a
`put`, `push` or `pop` happens when its transaction commits, and a call that dies
before that has not happened. The call `exit` stands for every command line or
command that is no operation. In `SimpleKVRebuild` the abstract map is read off
the two vectors alone, while `get` goes through the volatile buckets: the
refinement therefore says that the two agree after every insert and rebuild. A search
finds the least position that `Matches`; `place` is that position. In the queue, `Walk` is
the loop of `show`, and `Chain` the nodes it passes; `std::hash` is a constant.

### VersioningInsert, Records, WriterReader, Accounts

Programs that order their persists themselves. `mem` is what the program reads back,
`media` what the medium holds for sure; a store changes `mem`, a persist copies its
range to `media`, and `PowerFails` keeps or loses each store that no persist has
covered. (In `WriterReader` and `Accounts` the same is kept in sets of unpersisted
objects.) A cache line may be written back at any time without being asked, which
this covers: the store is then one of those kept, and of a counter stored again and again
any value it had may be (`PowerFails` in `Records`). `pmemobj_persist` drains, so it
completes earlier flushes without a drain too (`Persist` in `Accounts`);
`pmemobj_publish` makes all of its actions durable in one step. What a version has to
hold is stated without an algorithm: `HoldsFirst` says that it is in order and a
rearrangement of the first entries of the input.

### TxCounter

libpmemobj gives every thread its own undo log and no isolation. A thread's
increment is five steps (begin, snapshot, load, store, commit); ppm_ch14_2's mutex
is taken inside the transaction and given back in `Store`, when the lambda returns,
before the commit. `Recoveries` is what recovery may leave: where several logs hold
a value for one counter, the one applied last counts, and the order is not
specified. A thread that cannot be created, or an exception in one, is a `Crash`.

The threads are spawned one by one, and the first may have exited before the last is
there. In `pmem_distributed_counter` each asks the `enumerable_thread_specific` for its
entry (`Local`): the library is external and gives any entry that no live thread has, a
new one or one that an exited thread has left with its count. `slot` says which. So two
threads may have added to one entry, one after the other, and what the program promises is
the sum over the entries (`Total`), which is what main prints. `Clear` is main's
`counters.clear()`, before which the entries are those of the run before. `base` is
history: the counters when the threads were started.

### AtomicOps

`End` is a crash or an allocation that fails; what remains allocated and is named by
no pointer of the next run's round is the leak. `freeing` is the set the open
transaction has freed, which takes effect at the commit.

### HeartbeatServer

`HandlerAdd`, `HandlerSquare` and `HandlerDrop` are the three groups of statements of
`Window::add` under the mutex, so that a reader without the mutex would see them
apart. `times` is history: when the heartbeats were handled. The clock is
`high_resolution_clock`, which need not be steady: `Clock` may set it back, and
intervals may be negative. Before the first heartbeat the sums are whatever memory
holds (`Constructed`). `phi` is followed as far as the size and sums it is computed
from: the logistic approximation is floating point. `Total`, `Squares` and `Intervals`
say what the sums and the window should be.

### AtomicBench, PrettyBytes

`AtomicBench` has the harness of `StripedBench`, with 0 threads among its command
lines (`%` traps). `PrettyBytes` takes a text as the number its digits spell and a
suffix.

## 3. Runs

| Run | Instance | Shows |
|---|---|---|
| `barrier` | 4 threads, barrier for 4, fair | nobody leaves early, no lost wake-up; implements `AbstractBarrier` with its liveness |
| `burst_buffer` | 5 nodes, 6 writes, 2 crashes | all safety properties, the inductive invariant, refinement of `DurableQueue` |
| `pmembb_list` | 3 nodes, 4 writes, 2 rounds, 1 crash, fair | the program ends, hands over and flushes; leftovers are flushed first |
| `benchmarks` | striped: 1-3 workers, 1-2 stripes, up to 2 offsets, lines refused in every way, fair | the timer brackets the I/O, no block twice, all blocks once, accesses in bounds, failures reported and only real ones, termination |
| | `atomic_bench`: 0-3 threads, even and uneven totals, fair | accepted lines end in a report of the whole total, unless a thread cannot be created |
| | `prettyTo`: base 2, 6-bit type, numbers to 66 | exact for every value that fits |
| `mutex_users` | 2 threads, 2 objects, all operations | the inductive invariant; no circle of waiting threads; implements `AtomicCells` |
| | server: 4 heartbeats, window of 2, clock 0-3 | phi rests on the last intervals, whole |
| `pool_programs` | stores: 3 keys in 2 buckets, 2 values, any number of runs and crashes | each implements `DurableMap` |
| | queue: 3 nodes, 2 values, any number of runs and crashes | implements `DurableFifo`; nodes, links and tail agree |
| | counters: 3 programs, 3 threads, 2 runs | what is counted; with entries of their own, a crash takes back what was not committed and nothing else |
| | allocation loop: 7 objects, 2 ends | frees are of live objects; the leak per end is bounded |
| `power_loss` | 5 slots, several sequences of up to 5 entries | a whole version survives; the persist order that makes it so |
| | both account programs, 4 prices | accounts are whole, money is conserved |
| | 3 records, 2 runs | a record marked as named has its whole name |
| | strings of 0, 1, 5 and 6 characters | the whole string, an empty line or nothing |
| `pmemobjbench_ret` | write, alloc and read lines | **violation**: a failed allocation reported as a success |
| `pmem2bench_uneven` | block 4, stripe 24, 4 threads | **violation**: only part of the total is accessed |
| `window_test` | the intervals of the test | **violation**: the mean depends on uninitialised memory |
| `counter_mutex` | ppm_ch14_2, 2 threads | **violation**: a crash takes back a committed increment |
| `records_counter` | ppm_ch12_38, 3 records | **violation**: the counter promises a record that is not there |

Bounds. Five nodes make room for the sentinel, a batch of two and an active list
of two; six writes let nodes be freed and allocated again; two crashes let the
recovery from a crash be interrupted by another. Two rounds with three nodes let
the heap fill up, the flusher run out of rounds before the writer and a second
run find a leftover. Three workers are enough for one to arrive, one to be
between two barriers and one to be late; two stripes and two offsets make a
wrong stride overlap. Two threads and two objects are enough for every pair of
operations to overlap on one object, on both, and in both orders. That no longer circle
of threads waits for itself, and that a barrier entered by more threads than it was told
of (whose counter then wraps) lets nobody out early, is proved for any number of threads
(section 4).

Three keys in two buckets make two keys share a bucket, so that the second entry of
a bucket is searched, updated and rebuilt. Three queue nodes let the queue be empty,
have one node (where head and tail change together) and more, and fill the pool. Five
slots take the five inserts of the program's own sequence; entries go to the front, to
the middle and to the end. Among the counters three threads let two share an entry one
after the other while a third has one of its own, and two increments each let a thread
exit between those of others; in the allocation loop seven objects
let two ends leak three each. Four heartbeats overflow a window of two. The numbers
of `prettyTo` go past the largest value the type holds, and base 2 reaches it with
every suffix.

Symmetry is used in `burst_buffer` (nodes) and in `mutex_users` (threads, objects and
heartbeats): they are interchangeable, and none of the properties of these runs speaks
of liveness. Deadlock is checked in every run but `counter_mutex`, `records_counter` and `window_test`,
whose programs end; where a program or a bound ends, the instance says so by a stuttering
step (`Over`, `Bounded`).

Fairness. Every thread that can take a step eventually does (`WF`): the operating
system schedules all threads, and mutexes are asked for a bounded number of times.
`MCBenchmarks` states it for the threads of the program that was started. `Barrier`
also assumes that a wait does not return spuriously for ever;
`PmembbList` assumes nothing about starting the program again. Crashes are never
fair.

### Findings

* `pmemobjbench` (line 198): all workers share one plain `int ret`. Another
  worker's success can overwrite a failure before it is tested, and the run is
  reported as a success. `FailureIsReal`, the other direction, holds: a value read
  from another worker is a failure only if that worker has failed.
* `pmem2bench` (line 212, and the two other programs): the blocks per strip unit
  are rounded down, but the argument check does not ask that the strip unit be a
  multiple of the block. The remaining blocks are never accessed, while the
  throughput is computed from the whole total. When the units are whole,
  `SuccessCoversUnits` holds.
* `phi_accrual_fd` (window.hpp, lines 53-54): the running sums have no initial value,
  and the repository's test adds intervals to a window that was never reset; its
  expected mean holds only if the memory was zero. The server resets on the first
  heartbeat, and from the second on `PhiFromLastIntervals` holds.
* `ppm_ch14_2` (line 61): the mutex is given back when the lambda returns, before the
  transaction commits. A second thread increments on top of the first one's store and
  commits; if the process dies now, recovery applies the first thread's log, and the
  committed increment is gone (`CommitsAreKept`). The directory's name says that the
  program is still buggy; this is the bug. In `pmem_distributed_counter`, where no two live
  threads have one counter, `RecoveryIsExact` holds.
* `ppm_ch12_38` (line 85): the counter is stored before the record it counts, and a loss
  of power in between can leave it ahead of the records (`CounterIsBacked`), which is the
  bug the program is there to show. The mark of a named record comes after its persisted
  name, so that `RecordsReadable` holds.

Two disagreements seen while reading have no run, since no behaviour is involved:
`ppm_ch7_6` declares `struct account` with type number 0 (line 56) and allocates it with
type number 1 (line 77), against the comment above; and `prod` of `thallium_provider`
prints `x*y` (line 18) and responds `x + y` (line 19).

## 4. Proofs

Every invariant and every action property of the passing runs, and the safety part of
every refinement, is a theorem: it holds for every value of the constants that satisfies
the named assumptions, not just for the instance TLC explores. The assumptions say no more
than the code does:

* `ThreadsAssumption`, `NThreadsAssumption`: finitely many threads, and a `size_t` that can
  count them; `NodesAssumption`, `NoneAssumption`, `ValuesAssumption`, `BoundsAssumption`,
  `RoundsAssumption`: null, the empty log entry and `None` are no nodes, threads, objects;
  bounds are numbers.
* `ArgsAssumption`: sizes on the benchmarks' command lines are positive numbers (a zero
  traps before the check).
* `WordAssumption`: the type of `prettyTo` holds the value of the largest suffix.
* `ServerAssumption`: the window has a size, and a heartbeat is not the printing thread.
* `RoomAssumption`: the pool of the queue has room for finitely many nodes, and null is
  none of them; `HashAssumption`: there is a bucket, and the hash is a function of the key;
  `CounterAssumption`: there is at least one thread, and it has something to do.
* `InputsAssumption`: no more inserts than the array has slots; `LengthsAssumption`: the
  string fits the buffer with its zero; `RecordsAssumption`, `PricesAssumption`: there are
  records, and prices are not negative.

Two arguments replace the induction over data that the provers do not have. Where a walk
or a loop is followed along a list, the least position at which it would go wrong leads to
a contradiction (`LeastNatural`, `LeastNumber`). And a function defined by recursion is
known to satisfy its equation once some function does, so each such proof first writes one
down (`Walk`, `Total`, `power`).

* `BarrierProofs`. `IndInv` adds to the two safety properties that `mtx` is owned
  by exactly the thread inside the critical section (`MutexOwner`) and that the
  counter is `NThreads` minus the number of arrivals until it wraps
  (`CounterCounts`). Without the first, two threads could decrement at once; with
  the second, a zero counter means that enough threads have entered. From it:
  `BarrierTyping`, `BarrierSafety`, `BarrierNoLostWakeup`, and
  `BarrierRefinement`, the safety half of the refinement.
* `BurstBufferProofs`. Reachability along pointers is not inductive in a form the
  provers can use, so the invariant is stated with the numbers of the writes: the
  writes `released+1 .. enqueued` are on the flushing list, `enqueued+1 .. written`
  on the active list, each number is held by exactly one node, and every durable
  link leads from a write to the next (`NumbersInv`, `ListInv`). `UndoInv` says
  what the log holds inside each transaction, `TailInv` and `FlushInv` where
  `tail_` and `cur` are. The step lemmas go action by action (`SetupStep`,
  `WriterStep`, `FlusherStep`, `EndStep`). Reachability comes back at the end, by
  the least-number principle (`LeastNumber`): the node of the smallest unreachable
  write would have a reachable predecessor (`ActiveReaches`, `FlushingReaches`).
  From these: `BurstBufferDurability`, `BurstBufferNoLeak`, `BurstBufferTail`,
  `BurstBufferNoDanglingRead`, `BurstBufferOrder`, `BurstBufferFree`. For the refinement
  of `DurableQueue` the lists computed by the mapping are shown to be those two intervals
  of numbers (`WalkLinks`, `ListedIs`, `MappingHolds`); then every action is a step of the
  queue by arithmetic alone (`StepsByNumber`, `QueueStep`): `BurstBufferIsAQueue`.
* `PmembbListProofs`. Every step of the program is a step of the burst buffer or
  leaves it alone (`MainUsesBurstBuffer`), so the theorems above carry over
  (`MainDurability`, `MainIsAQueue`); `MainLeftoverFlushed` is proved from the same
  invariant.
* `StripedBenchProofs`. The invariant has four layers. `LayerOne`: types, what the
  argument check has established, and the synchronisation: a barrier's `missing` counts
  exactly those still before it (`BarrierCounts`) and nobody is past it before all have
  come (`BarrierSeparates`), from which `TimerBracketsIO` follows. `LayerTwo`: a raised flag tells of a
  failure. `LayerThree`: the loop counters are in range. `LayerFour`: no block still ahead
  of a worker has been accessed, every block behind one has. The last needs that the
  map from worker, stripe and offset to a block is injective, stays in the total and, for
  whole strip units, covers it (`BlocksDiffer`, `BlockInTotal`, `BlocksCover`): arithmetic
  of quotients and remainders that the argument check makes exact (`Sizes`).
  `ConversionIsExactHolds` is about `prettyTo`: the powers by squaring are the powers
  (`PowerIs`), and nothing on the way to a value that fits can wrap.
* `MutexUsersProofs`. For `synchronized_value`, `IndInv` says that a mutex is owned by
  exactly the thread whose position says so (`OwnerInv`) and that the two words of a value
  agree unless its owner stands between them, in which case the first word is ahead by
  that owner's operation (`WordInv`). `WordInv` needs `OwnerInv` to know that two
  threads between their words touch different objects, and `EffectAgrees` to know
  that an operation depends on its own objects only. Deadlock freedom follows
  because a thread that waits owns nothing. In the refinement the second word is
  the abstract value, and writing it is the step in which the operation happens
  (`SynchronizedValueAtomic`). For the heartbeat server, `WindowFollows` says how far the
  handler at work has taken the last interval into the window and its sums; adding behind
  and dropping in front keep the sums exact (`TotalOfAppend`, `TotalOfTail`), and the
  intervals of one heartbeat more are those before, shifted (`IntervalsNext`).
* `PowerLossProofs`. `PersistOrder` says, at each point of `insert`, what is in
  the medium: the consistent version always, both versions from the first persist
  until `current` is persisted, and `current` itself except in between. With
  `VersionsHold` (the current version holds what was inserted, the other one, once built,
  the entry under way as well) it gives `WholeVersionAlwaysSurvives`; that the new entry
  goes where it keeps the order is `LowerBoundIs` and `InsertKeepsOrder`. `StringsInv`,
  `RecordsInv` and `AccountsInv` follow the other programs store by store: which stores
  are in the medium for sure at each point; a loss of power then keeps some of the few
  that are not. `PrintsNoHole` is the stronger statement about the string's bytes.
* `PoolProgramsProofs`. `RoundInv` (the pointers set in this round name different
  allocated objects; everything else was left by a run that ended) needs that the commit
  frees three different objects (`RemoveThree`). `CounterInv` has one part for each kind of
  program. With entries (`OwnEntries`), no two live threads have one, and there are counters
  without the transactions under way (`Settled`) that add up to the committed increments:
  an entry without a log is settled, and every log holds the settled value of its entry, so
  that recovery leaves them (`RecoveryKeeps`). That a commit adds one to both sums, in
  whatever entry, is `TotalOfIncrement`, shown from the running sums (`Sums`) by the least
  place where two would differ. The threads that share a counter each raise it by at most
  one above what the others have stored (`SharedCounter`), and the mutex is held from the
  snapshot to the store (`MutexHeld`). `QueueInv` says that the pool, or
  inside a transaction what it started from, is a chain (`Chained`), and how far the push or
  pop has come; `PushChains` and `PopChains` say what the finished one does to the chain,
  and `QueueStepRefines` makes it a step of `DurableFifo` at the commit.
* `SimpleKVProofs`. `KVInv` and `RBInv` have one disjunct for each stage of a call. The
  first store is `Consistent` (every entry in its key's bucket, no key and no value twice);
  for the second, the buckets lead to exactly the pairs of the two vectors, up to the one
  that the rebuild or an insert has reached (`Leads`, `LeadsFurther`). That a search finds
  the one entry of its key (`LookupHit`, `SearchFinds`) makes every commit one step of
  `DurableMap` and every answer the map's.

Only model-checked: what needs fairness (`Terminates` of the benchmarks and of
`pmembb_list`, `BatchFlushed`, `EndsInReport`, the liveness in `ImplementsBarrier`), since
TLAPS does not reason about fairness and `ENABLED`. `AtomicBench` and
`WindowTest` have no theorem.

## 5. Not modelled

`PROJECT.json` gives the reason for each component that has no module: programs that
make one library call after the other and keep nothing (the tours of PMDK, pmemkv,
Argobots and Thallium), deliberate errors for memory checkers, option parsing, a queue
that nothing constructs, and a scheduler that, by its own comment, does not compile.
Within the modelled ones: the contents of blocks and payloads, option parsing and
output, what the libraries do to create and map pools and files, `Writer::forEach` (it
only reads), the values of the clock, floating point. Zero sizes on the benchmarks'
command lines divide by zero before they are checked; the command lines of
`StripedBench` are positive. Thallium delivers every call once: the programs have no
handling of lost or repeated calls to check.

## 6. Plan

Every component with state of its own has a module, and every safety property of the
passing runs a theorem. Left for later, in this order:

1. `AtomicBench`: that the total it reports is the counter, for any number of threads,
   with the layers of `StripedBenchProofs`; the run has it as part of `EndsInReport`.
2. `BurstBuffer` and `Barrier` together with the programs that use them: that
   `StripedBench`'s `missing` is what `Barrier` implements, for the three barriers at once.
