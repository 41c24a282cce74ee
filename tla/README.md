# TLA+ models of the Faasm wasm host runtime

This directory holds TLA+ specifications of the host side of the Faasm wasm
runtime (`src/src`), TLC configurations that model-check them on small
instances, and TLAPS proofs of their main safety properties for every value of
their constants.

## The system

The code under `src/src` has three parts.

* `wavm/openmp.cpp` is the OpenMP runtime that clang-compiled guests call.
  It has these pieces:
  * **Team State (E).** `thisLevel`, an `OMPLevel`, carries the team size, the
    `wanted_num_threads` and `pushed_num_threads` preferences, a barrier, and
    the critical and reduce mutexes.
  * **Fork Engine (F).** `__kmpc_fork_call` sizes the next level. In local mode
    (`userNumDevice == 1`) it starts one host thread per member and joins them
    all. In distributed mode it chains one function call per member, restores
    each from a snapshot, waits for each result with a timeout, and reads a
    reduction back from redis.
  * **Reduction Engine (G).** `startReduction` and `endReduction` are reached
    through `__kmpc_reduce(_nowait)` and `__kmpc_end_reduce(_nowait)`.
  * **Loop Partitioner (H).** `__kmpc_for_static_init_4` partitions a static
    loop.
  * **Intrinsics.** The team intrinsics are `critical`, `barrier`, `master`,
    `push_num_threads` and `set_num_threads`.
* `wasm/syscalls.cpp` is the syscall bridge. It has these pieces:
  * **FD Registry (B).** A thread-local set `openFds`.
  * **Path Whitelist (C).** Two fixed paths that `open` accepts.
  * **Syscall Dispatch (D).** Read, writev, poll, socket calls and time
    marshalled through guest memory.
  * **Memory View (A).** Guest memory growth through `mmap`, `munmap` and
    `brk`.
* `worker/WorkerThreadPool.cpp` runs a thread-token pool. It also starts the
  global-queue, state and sharing-queue threads and shuts them down.

The interactions that matter: the guest's `fork_call` enters F. F builds the
level E, whose members then call the intrinsics of E and G concurrently. The
members share guest memory, so each guest load or store is a separate step.
The master blocks in `joinThread` until every member returns. It then throws
into the guest if any member failed.

## Modules

| Module | Models | Status |
|---|---|---|
| `OmpLocalFork` | E, F (local mode), G: one master running parallel regions whose members use critical, barrier and a reduction | done |
| `MCOmpLocalFork` | constants for TLC: 3 threads, 2 regions | done |
| `OmpRegion` | the abstract specification of a local parallel region as the guest's master sees it; `OmpLocalFork` implements it | done |
| `OmpLocalForkProofs` | TLAPS proofs of type correctness, mutual exclusion and the barrier property | done |
| `OmpDistributedFork` | F (distributed mode) and G as run by chained calls: parents on host processes forking by chained calls, callees on any process | done |
| `OmpDistributedForkProofs` | TLAPS proofs of type correctness, that the await loop awaits every call, and of the distributed reduction for one parent | done |
| `TriangleSums` | the sum 1 + ... + n of the members' partials, counted as the number of pairs in a triangle; lemmas on its cardinality | done |
| `OmpReductionProofs` | TLAPS proofs that the blocking reduction of a local region is correct for every team size, and that every step of the local fork is a step of `OmpRegion` | done |
| `MCOmpDistributedFork` | constants for TLC: one or two parents on two processes, teams of up to 2 | done |
| `FdRegistry` | B, C and the descriptor checks of D: per-thread `openFds`, the whitelist, open, socket, the two halves of close, the checks and traps | done |
| `MCFdRegistry` | constants for TLC: 2 worker threads, 3 invocations, a 4-entry descriptor table | done |
| `FdRegistryProofs` | TLAPS proofs that registries hold only open descriptors and never share one | done |
| `GuestMemory` | A: `mmap`, `munmap` and `brk` of threads sharing one guest memory, over the engine's `growMemory` | done |
| `MCGuestMemory` | constants for TLC: 1 or 2 threads, 4-byte pages, a 64-byte address space | done |
| `LoopPartition` | H: `__kmpc_for_static_init_4`, each member of a team computing its share of a work-sharing loop | done |
| `MCLoopPartition` | constants for TLC: teams of 1 to 3, small rising and falling loops | done |
| `LoopPartitionProofs` | TLAPS proofs that static shares are balanced, and that outside the chunked schedule they partition the loop and give `lastIter` to the right member | done |
| `WorkerPool` | `WorkerThreadPool.cpp`: the pool thread's token loop, worker threads, listener threads and `shutdown()` | partly |
| `MCWorkerPool` | constants for TLC: 1 or 2 tokens, with and without the MPI listener | done |
| `GuestMemoryProofs` | TLAPS proofs that the memory stays within its maximum and that mmap grants are sound and disjoint | done |

### OmpLocalFork

State:

* `wanted` and `pushed` are the master level's `wanted_num_threads` and
  `pushed_num_threads`. `-1` means unset.
* `master` is the master thread's state:
  * `serial`: running guest code between regions;
  * `forked`: inside `__kmpc_fork_call`, waiting in `joinThread`;
  * `trapped`: the join saw errors and threw into the guest.
* `team` is `nextLevel->num_threads`. It is 0 outside a region.
* `pc[t]` is the program counter of member `t`'s microtask.
* `tmp[t]` is a guest register.
* `rc[t]` is member `t`'s return code from `executeThread`.
* `crit` and `redMtx` hold the holder of the level's `criticalSection` and
  `reduceMutex`. The model value `None` means the mutex is free.
* `arrived` is the set of members waiting at the level's barrier.
* `shared` and `sum` are the guest words that the microtask increments under
  critical and reduces into.
* `redisAcc` is the integer at `REDUCE_KEY`.
* `sharedAtFork` and `sumAtFork` are history variables. They record `shared`
  and `sum` when the region was forked.

The microtask is the clang lowering of spec scenario S4 plus a `+` reduction:
`critical { count++ }; barrier; sum += t+1`.

Actions:

| Action | Code |
|---|---|
| `PushNumThreads` | `__kmpc_push_num_threads` |
| `SetNumThreads` | `omp_set_num_threads` |
| `ForkCall` | the local branch of `__kmpc_fork_call` up to the join (`get_next_level_num_threads`, the reset of `pushed_num_threads`, the new level, the thread starts) |
| `Join` | the join loop and error count |
| `CriticalEnter` | `__kmpc_critical`, which locks only if `num_threads > 1` |
| `CriticalExit` | `__kmpc_end_critical` |
| `BarrierArrive` and `BarrierLeave` | `__kmpc_barrier` and `Barrier::wait` |
| `ReduceBegin` | `__kmpc_reduce`, which calls `startReduction`, or `__kmpc_reduce_nowait`, which with one device does the redis increment or the throw |
| `EndReduce` | `__kmpc_end_reduce(_nowait)`, which calls `endReduction` |
| `LoadShared`, `StoreShared`, `CombineLoad`, `CombineStore` | the guest's own loads and stores |

`OMPLevel` and `Barrier` are not part of `src/`. Their behaviour
(`get_next_level_num_threads`, and `wait` returning once all members have
arrived) is modelled from the spec. The guest steps are modelled from spec
scenario S4.

Two constants choose the build and the configuration:

* `ReduceCall` is the reduction entry the compiler emits: `reduce` or
  `reduce_nowait`.
* `StateMode` is the system config `stateMode`: `redis` or `inmemory`.

**Fairness.** Each team member is a host thread that the OS schedules, and
the master waits in `joinThread`. So every member's step and the join are
weakly fair. No fairness is assumed for the guest's choice to push or set a
thread count, or to fork.

### OmpRegion: the abstract region, and the refinement

`OmpRegion` states what `__kmpc_fork_call` promises the master thread in
local mode, with the region as one step:

* `Fork` sizes the region. The size is the pending `num_threads` clause
  (`pushed`) if there is one, else the `omp_set_num_threads` setting
  (`wanted`), else 1. The clause is used up.
* `Complete` returns. `count` has risen by the team size, and `sum` by the
  team's partials `1 + ... + n`.
* `Fail` throws into the guest. What the region wrote is never read.
* `Push` and `Set` are `__kmpc_push_num_threads` and `omp_set_num_threads`.
* Fairness is `WF(Complete \/ Fail)`: a region that starts ends.

`OmpLocalFork` defines `Region == INSTANCE OmpRegion WITH ...` and
`RegionRefinement == Region!Spec`. The refinement mapping keeps `wanted`,
`pushed`, `master`, `forks` and `team`. It maps `count` and `sum` to
`sharedAtFork` and `sumAtFork` while a region runs or after a trap, and to
`shared` and `sum` once the master is serial again. All the member steps are
then stuttering steps. `ForkCall` is `Fork`, and `Join` is `Complete` or
`Fail`.

The mapping makes the join's step correct only if two things hold:

* every member's increment survived the critical section;
* every partial survived the reduce mutex.

Because the abstract `Fork` resets `pushed`, the refinement also checks that
a `num_threads` clause sizes one region only (openmp.cpp:339).

### OmpDistributedFork

The distributed branch of `__kmpc_fork_call` (openmp.cpp:227-334), when the
guest chose several devices with `omp_set_default_device(-N)`, and the
chained calls it starts. Parents are guest calls that run on host processes
(`Home`). Each chained call runs on some process (`place`), chosen by the
scheduler.

State:

* `dev[q]` is the process-wide `userNumDevice` of process `q`.
* `snap[q]` is `activeSnapshotKey` of `q`: `None` or the parent that set it.
* `redis` is the integer at `REDUCE_KEY` (`omp_wowzoid`). It is one key for
  the whole cluster.
* `ppc[p]` is the parent's state. It is one of these:
  * `serial`;
  * `waiting` (in the await loop; `wi[p]` is the index awaited next);
  * `trapped` (threw into the guest);
  * `crashed` (wrote through a null `reducePtr`).
* `team[p]`, `argc[p]`, `numErrors[p]` and `sum[p]`, where `sum[p]` is the
  guest word the first shared argument points to.
* `cs[p][t]` is the state of chained call `t`: `queued`, `held` (inside the
  local reduce path), `ok`, `failed` or `lost`.

Actions:

| Action | Code |
|---|---|
| `SetDefaultDevice` | `omp_set_default_device` (664-683), bound check included |
| `DistFork` | zero `REDUCE_KEY`, set `activeSnapshotKey`, submit one chained call per member (227-298) |
| `ForkAlreadyBound` | the same entry with `activeSnapshotKey` set: the key was zeroed, then "OMP already bound" (249-258) |
| `AwaitResult` and `AwaitTimeout` | one iteration of the await loop: a result, or a timeout counted as an error (300-325) |
| `ForkReturn` | the throw on errors, or the write through `reducePtr` (326-334) |
| `CalleeReduce` | the chained call's `__kmpc_reduce_nowait` with the callee process's `userNumDevice` |
| `CalleeEndReduce` | `__kmpc_end_reduce_nowait`, which throws when `userNumDevice` is not 1 |
| `CalleeLost` | the host a call was placed on never runs it (modelled from the spec) |

**Fairness.** The parent blocked in `getFunctionResult` always receives a
result or a timeout, so the await and return actions are weakly fair. A
chained call that is not lost is eventually run. Losing a call is never forced.

### FdRegistry

The descriptor policy of `syscalls.cpp`. `openFds` is `static thread_local`
(line 53). It belongs to the host worker thread, not to the guest invocation
that thread runs. Descriptor numbers come from the process's kernel table,
which returns the lowest free number (`LowestFree`, modelled from POSIX).

State:

* `kernel` is the set of open numbers in the host process. `HostFds` are
  held open by the host throughout.
* `openFds[w]` is worker thread `w`'s registry.
* `running[w]` is the invocation `w` executes, or `None`. `done` is the set
  of invocations that have started.
* `closing[w]` is the number erased by `w`'s close and not yet passed to
  `close(2)`.
* `opener[n]` records the invocation that last obtained number `n`. It is a
  history variable, read only by properties.

Actions:

| Action | Code |
|---|---|
| `StartInvocation` and `EndInvocation` | a worker thread running one invocation after another (from the spec; `WorkerThread` is not under `src/`) |
| `Open` | `__syscall_open` (66-94): non-zero mode, blocked path or failed open traps; `fd > 0` registers; `fd == 0` traps with the descriptor open |
| `Socket` | `sc_socket` (327-338): the raw result, `-1` included, is registered |
| `CloseErase` and `CloseKernel` | `__syscall_close` (126-135): the check and `openFds.erase`, then `close(2)` |
| `FdSyscall` | `__syscall_fcntl64`, `__syscall_read`, `__syscall_poll` (100-161): the failing `checkThreadOwnsFd` (a passing check changes no state) |
| `UseFd` | the same failing check in `__syscall_socketcall`'s connect, send, recv, bind and getsockname (340-457) |
| `Unsupported` | the traps of readv, llseek, futex, fstat64, stat64, access, accept, listen and multi-fd poll |

A trap ends the invocation and leaves the registry as it is. No fairness is
assumed. Every invocation runs at most once, so the system stops when all
have run (`CHECK_DEADLOCK FALSE`).

### GuestMemory

The memory syscalls of `syscalls.cpp` (628-694). The threads of an OpenMP
team share one guest memory and call these concurrently. The engine's
`growMemory` is atomic: it returns the old page count, or -1 and no change
when the maximum would be passed (`GrowResult`, `GrownPages`, modelled from
WAVM's contract). Sizes are scaled: `PageSize` stands for 65536 and
`AddrSpace` for 2^32, the range of the `U32` results, and the casts to `U32`
are kept as reductions modulo `AddrSpace` (`ToU32`).

State: `pages` (the page count), `unmapped` (decommitted pages), and per
thread `pc`, `cur` and `req` (brk between its read of the page count and its
`growMemory`), `brkAddr` (the address of its last returned brk), `mbase` and
`mlen` (its last mmap's `growMemory` result and length). `lastBreak` is the
break returned by the latest brk to return. `calls` bounds the calls.

| Action | Code |
|---|---|
| `Mmap` | `__syscall_mmap` (628-643): grows by `(len + P - 1) / P` pages and returns `(U32)(base * P)`, with `base = -1` on failure |
| `Munmap` | `__syscall_munmap` (648-661): decommits the pages covering the range |
| `BrkRead` | `__syscall_brk` (666-685): target page count rounded down, read of the current one, early return when no growth is needed |
| `BrkGrow` | `__syscall_brk` (687-694): `growMemory` by the expansion computed from the earlier read, result ignored, return of the earlier break |

No fairness is assumed. Calls are bounded by `MaxCalls`, so the system stops
(`CHECK_DEADLOCK FALSE`).

### LoopPartition

`__kmpc_for_static_init_4` (openmp.cpp:439-514). Each member of a team calls
it with the loop's bounds in its own locals and gets back its share. `loop`
holds the loop (bounds, increment, chunk, schedule and team size, chosen in
`Init` among loops with at least one iteration, as clang calls the
partitioner only for those). `share[t]` holds member `t`'s `lower`, `upper`,
`stride` and `lastIter`, and `status[t]` says whether it has called.
`ForStaticInit(t)` has one disjunct per branch of the code: a team of one
(`SingleShare`), the chunked schedule (`Chunked`), the static schedule with
fewer iterations than members (`StaticSmall`) or enough (`StaticBalanced`),
and an unsupported schedule, which throws. `I32` and `unsigned int` are
scaled to `Width` bits. `I32`, `U32` and `CDiv` (C's truncating division)
keep the code's wraparound and conversions.

`Executed(t)` is what the member then runs: its range clamped to the loop's
upper bound and, with the chunked schedule, that range advanced by the
stride. `Iterations` is the loop computed without machine arithmetic: the
points `lb + k * incr` for `k` in `0 .. LastStep`, where `LastStep` is
`|ub - lb| \div |incr|`. `LastIteration` is the point of index `LastStep`.
These are the reference the properties judge the shares by.

In `TripCount`, the arm for positive steps other than 1 is guarded by
`inc > 1`, not `inc > 0`. The code tests `incr == 1` first, and a TLA+ `CASE`
whose arms overlap chooses any true arm, so `inc > 0` would have let step 1
take the division arm as well.

### WorkerPool

`WorkerThreadPool.cpp` is not described by the spec; the module follows the
code. The pool thread (`startThreadPool`, 142-175) loops while `_shutdown`
is false: it takes a token (`getThreadToken`, blocking while all
`NThreads` are taken), checks `_shutdown` again, and spawns a worker thread
with the token. A worker runs, gives its token back, and ends after its
`WorkerThread` is destroyed. After the loop the pool thread joins every
worker. The listener threads (global queue, sharing, MPI, state server)
loop until they see `_shutdown`. The global queue listener also returns when
no message comes in time. `shutdown()` (219-245) sets the flag and joins the
global queue, state, sharing and pool threads, in that order.

State: `shut` (`_shutdown`), `taken` (the token pool), `pool` and `held`
(the pool thread's place and token), `live` (worker threads alive, with
their token and whether they are running or ending), `listener` and `main`
(the thread in `shutdown()`: which join it waits in).

| Action | Code |
|---|---|
| `PoolLoop`, `PoolGetToken`, `PoolSpawn`, `PoolJoin` | the pool thread, lines 145, 147, 150-163 and 166-172 |
| `WorkerRelease`, `WorkerExit` | the worker lambda, lines 156-163 |
| `ListenerExit` | the loops of the four listener threads, lines 22-134 |
| `Shutdown`, `Join` | `shutdown()`, lines 219-244 |

`TokenPool` and `WorkerThread` are not under `src/`. The model assumes their
contracts: `getToken` blocks until a token is free, and `run` returns.

Fairness is weak fairness on every step except the call of `shutdown()`.
The blocking receives of the listeners have timeouts, a worker's `run`
returns when its worker is idle, a released token wakes the pool thread,
and a finished thread wakes its joiner. Whether anyone calls `shutdown()` is
left open.

## Runs

| Run | Config | Expect | What it shows |
|---|---|---|---|
| `local_fork` | `MCOmpLocalFork.cfg`: `reduce`, `redis` | pass | For two regions with teams of 1 to 3: critical excludes (`CriticalExclusion`); every member past the barrier sees all `team` increments (`BarrierPublishes`); the blocking reduction yields `sum` at the fork plus every partial (`ReductionCorrect`); every fork joins (`Termination`); and the local fork implements the abstract region of `OmpRegion` (`RegionRefinement`). |
| `local_fork_trap` | `MCOmpLocalForkTrap.cfg`: `reduce_nowait`, `inmemory` | pass | Every member throws in `reduce_nowait`. fork_call still returns (`Termination`), and it returns as the abstract region's `Fail` step (`RegionRefinement`): the throw reaches the guest, and no region counts as completed without its members' partials. This is the only run that takes `Fail`; `local_fork` never throws. |
| `local_nowait_reduction` | `MCOmpLocalForkNowait.cfg`: `reduce_nowait`, `redis` | violation | `ReductionCorrect` fails. See the finding below. |
| `distributed_fork` | `MCOmpDistributedFork.cfg`: one parent, 2 forks | pass | A fork that returns holds its own team's reduction (`DistReductionCorrect`); it returns to the guest only when every chained call of its team finished with 0 (`ReturnMeansAllOk`), so a call that timed out and answers late is never taken for a success; every fork ends (`Termination`), even with lost calls. |
| `second_distributed_fork` | `MCOmpDistributedForkSecondFork.cfg` | violation | `TrapOnlyOnErrors`: the second fork of a call traps with no failed call. |
| `loop_partition` | `MCLoopPartition.cfg` | pass | For teams of 1 to 3, loops rising and falling with steps 1, 2, -1 and -3, both schedules and chunks 0 and 2: the shares run every iteration exactly once (`PartitionExact`), and `lastIter` goes to the member that runs the last iteration (`LastIterExact`); static shares differ in size by at most one iteration (`BalancedShares`, spec property 4(b)). |
| `worker_pool` | `MCWorkerPool.cfg` | pass | With two tokens and the global queue, sharing and state listeners, `shutdown()` always returns (`ShutdownCompletes`), even when the pool thread is blocked for a token or spawns a worker after the flag is set; when it returns, every listener, the pool thread and every worker thread have ended (`NothingOutlivesShutdown`). |
| `fd_registry` | `MCFdRegistry.cfg` | pass | However opens, sockets and the two halves of close interleave across threads, a registered number is open and in one registry only (`OwnedOpenAndExclusive`). |
| `worker_thread_reuse` | `MCFdRegistryReuse.cfg` | violation | `FdIsolation`: a later invocation on a thread owns an earlier one's descriptors. |
| `guest_memory` | `MCGuestMemory.cfg` | pass | Two threads mixing mmap, munmap and brk up to the maximum: each successful mmap's pages hold its length and no two threads' grants overlap (`MmapGrantValid`). |
| `mmap_growth_failure` | `MCGuestMemoryMmapFail.cfg` | violation | `MmapResultValid`: a failed growth returns an address that is not `MAP_FAILED`. |
| `brk_stale_expansion` | `MCGuestMemoryStale.cfg` | violation | `BrkReachesTarget`: a stale expansion passes the maximum and brk returns below a target that fits. |

Some findings are shown by configurations kept beside the runs. Each checks
one property that TLC finds violated:

| Config | What it shows |
|---|---|
| `MCOmpDistributedForkColocated.cfg` | `CalleesSucceed`: a chained call placed on the parent's process fails. |
| `MCOmpDistributedForkNullReduce.cfg` | `NoCrash`: a region without shared arguments writes through a null pointer. |
| `MCOmpDistributedForkSharedKey.cfg` (two parents) | `DistReductionCorrect`: one parent's fork zeroes the other's partials. |
| `MCFdRegistrySocket.cfg` | `RegistryHoldsDescriptors`: `-1` enters the registry. |
| `MCFdRegistryZero.cfg` | `NoUnownedDescriptor`: descriptor 0 stays open and unowned. |
| `MCGuestMemoryMonotonic.cfg` | `BrkMonotonic`: concurrent brks return a decreasing break. |
| `MCLoopPartitionWrap.cfg` | `PartitionExact`: with bounds further apart than the int range and step 2, the trip count wraps and two members run the same iterations. |
| `MCWorkerPoolMpi.cfg` | `NothingOutlivesShutdown`: on a node that started the MPI listener, `shutdown()` returns while that thread still runs. |
| `MCGuestMemoryUnaligned.cfg` | `BrkReservesAddress`: brk of an address inside a page leaves it out of the memory. |

**Bounds of the local fork.** `MaxThreads = 3` and `MaxForks = 2`.

* Three threads is the smallest team in which one member can be in critical
  while two others wait, and in which the barrier holds back two members.
  Teams of 1 and 2 are also reached, because `wanted` and `pushed` range over
  `1..3`. The team of 1 takes the unlocked paths (`num_threads <= 1`).
* Two regions exercise the reset of `pushed_num_threads` and the reuse of
  `crit`, `redMtx` and `arrived` across regions.

**Bounds of the distributed fork.** Teams have up to 2 members, so a parent
awaits two calls and one call can be lost or late while the other finishes.
Two forks per parent reach the stale `activeSnapshotKey`. The device arguments
`{-2, 1, -4}` cover a distributed request, a local one and one above
`userMaxNumDevices`. Two parents on two processes are used only where two
forks must overlap (`shared_reduce_key`).

**Bounds of the descriptor registry.** Two worker threads and three
invocations: one thread must run two invocations for reuse to show. The table
has 4 numbers and the host holds 1 and 2. Number 0 is then free, so the `fd == 0`
path of open is reached, and the table can fill so that open and socket fail.

**Bounds of the guest memory.** Pages of 4 bytes in a 64-byte address
space keep the page arithmetic (rounding up in mmap, down in brk) and the
`U32` wraparound of a failed mmap (`-1 * 4 mod 64 = 60`) while the state
space stays small. The passing run starts at 2 pages with a maximum of 6, so
the lengths `{5, 8}` (2 pages each) and the brk targets `{8, 14, 20}` (2, 3
and 5 pages) reach both successful and failing growths, and 4 calls let two
threads' brks and mmaps interleave around a failure. Each violation run uses
the smallest instance that shows its case.

**Bounds of the loop partitioner.** The loops have 1 to 10 iterations, so
with teams of up to 3 every static case occurs: fewer iterations than
members, an even split, and a split with extras. The chunked schedule deals
several rounds of chunks. Width 8 keeps every value of these loops in range,
so this run checks the arithmetic of the shares. The wraparound case is in
`MCLoopPartitionWrap.cfg` (Width 6).

**Bounds of the worker pool.** Two tokens let the pool thread block while
both workers run, and let a token come back while the other worker still
runs. The token is reused, so a new worker can start while the old one with
the same token is still ending. The state space is finite without a further
bound: a worker's token identifies its slot.

**Mutants.** Each property of a passing run is broken by a one-line variant of
the code it is about. The variants sit beside their definitions in
`OmpLocalFork.tla`:

* `NextNumThreadsSentinel` tests `pushed # 0`, which breaks `TypeOK`.
* `CriticalEnterOffByOne` breaks `CriticalExclusion`.
* `BarrierArriveOffByOne` breaks `BarrierPublishes`.
* `StartReductionNoLock` breaks `ReductionCorrect`.
* `EndReduceNoUnlock` and `CriticalExitNoUnlock` break `Termination`.
* `ForkCallNoReset` (no reset of `pushed_num_threads` at the fork) breaks
  `RegionRefinement`.
* `JoinIgnoreErrors` (the join does not check the return codes) breaks
  `RegionRefinement` on the trap configuration: the region returns as if
  completed, without its partials.
* `SetDefaultDeviceNoCheck` (no bound check) breaks `TypeOK` of the
  distributed fork.
* `DistForkNoReset` (no zeroing of `REDUCE_KEY`) breaks `DistReductionCorrect`.
* `AwaitTimeoutNoError` (`returnCode` starting at 0, so a timed-out wait
  counts as success) breaks `ReturnMeansAllOk`.
* `AwaitTimeoutNever` breaks `Termination`.
* `CloseNoErase` (close without `openFds.erase`) breaks `OwnedOpenAndExclusive`.
* `StaticBalancedExtrasOffByOne` (`t <= extras`) breaks `PartitionExact`.
* `ChunkedLastOffByOne` (`tripCount` for `tripCount - 1`) breaks
  `LastIterExact`.
* `StaticBalancedRemainderLast` (the last member takes every extra
  iteration) breaks `BalancedShares`.
* `JoinNoSharing` (no join of the sharing thread) breaks
  `NothingOutlivesShutdown`.
* `WorkerNoRelease` (no `releaseToken`) breaks `ShutdownCompletes`: the
  pool thread blocks for a token forever.
* `MmapFloor` (page count rounded down in mmap) breaks `MmapGrantValid`.

## Findings

### `reduce_nowait` loses the reduction in local mode

With `userNumDevice == 1`, `__kmpc_reduce_nowait` (openmp.cpp:605-616) adds
the member's partial to the redis key `omp_wowzoid` and returns
`empty_reduce_block`. On that value the guest neither combines nor calls
`__kmpc_end_reduce_nowait`. The local branch of `__kmpc_fork_call` never reads
the key back, so the guest's reduction variable keeps its value from the fork.
Spec 4.G says local reductions go through the reduce mutex. With the in-memory
state mode, every member throws instead, and the region traps.

### Distributed forks

* **A second fork traps** (`second_distributed_fork`, openmp.cpp:252).
  `activeSnapshotKey` is static and never cleared. Every later distributed
  fork in the same host process zeroes `REDUCE_KEY` and then throws "OMP
  already bound". Spec 4.F step 1 snapshots "on first fork in this call".
* **A colocated chained call fails** (`MCOmpDistributedForkColocated.cfg`,
  openmp.cpp:646). The callee's reduce entries read the process-wide
  `userNumDevice`. On the parent's own process it is the parent's device
  count, so the call takes the local path and `__kmpc_end_reduce_nowait`
  throws.
* **Null `reducePtr`** (`MCOmpDistributedForkNullReduce.cfg`, openmp.cpp:332). `reducePtr`
  is set only in the `argc > 0` loop. A region without shared arguments
  writes through a null pointer after a successful join.
* **One reduce key for everyone** (`MCOmpDistributedForkSharedKey.cfg`, openmp.cpp:249).
  `REDUCE_KEY` is a single redis key. Two overlapping forks zero and add into
  the same integer. The spec fixes the key too and says nothing of exclusion,
  so this is a gap in the spec.
* **The `num_threads` clause is not reset** (openmp.cpp:242, seen in the
  code, not yet a run). The distributed branch sizes its team with
  `get_next_level_num_threads`, but unlike the local branch (line 339) it
  never resets `pushed_num_threads`. A clause pushed for one distributed
  region then sizes every later region. Spec 4.E says the clause is reset
  after consumption. `OmpDistributedFork` takes the team size as a free
  choice, so no run shows this yet.

### Descriptor registry

* **Registries outlive invocations** (`worker_thread_reuse`,
  syscalls.cpp:53). `openFds` is `thread_local` and never cleared. A guest
  run later on the same worker thread passes `checkThreadOwnsFd` for
  descriptors an earlier guest left open (every trap leaves them open).
  Spec 3 and 4.B tie the registry to the executing guest.
* **A failed socket is registered** (`MCFdRegistrySocket.cfg`, syscalls.cpp:336).
  `sc_socket` inserts the raw result, `-1` included.
* **Descriptor 0 leaks** (`MCFdRegistryZero.cfg`, syscalls.cpp:89). Open registers
  only `fd > 0`. When the host has stdin closed, open returns 0, the guest
  traps as if the path were blocked, and 0 stays open with no owner. Spec S1
  says open returns `fd >= 0`.

### Guest memory

* **A failed mmap looks like success** (`mmap_growth_failure`,
  syscalls.cpp:642). When `growMemory` fails it returns -1, and mmap returns
  `(U32)(Uptr(-1) * 65536) = 0xFFFF0000` rather than `MAP_FAILED`. The guest
  takes it for the address of pages that do not exist.
* **brk grows by a stale expansion** (`brk_stale_expansion`,
  syscalls.cpp:687). The expansion is computed from a page count read before
  `growMemory`. If another thread grew the memory in between, the sum can
  pass the maximum. `growMemory` then fails, its result is ignored, and brk
  returns as on success with the memory below a target that fits.
* **The break goes backwards** (`MCGuestMemoryMonotonic.cfg`, syscalls.cpp:693). brk
  returns the break of its early read. A brk that read early and returns
  late returns less than one already returned. Spec property 7 says the
  break never decreases.
* **An unaligned brk is short** (`MCGuestMemoryUnaligned.cfg`,
  syscalls.cpp:670). The target page count is `addr / 65536`, rounded down,
  so the bytes between the page boundary and `addr` stay out of the memory.
  Spec 4.D gives the same formula, but its rationale says brk reserves up to
  `addr`, so this is a gap in the spec.

### Loop partitioner

* **The trip count wraps** (`MCLoopPartitionWrap.cfg`, openmp.cpp:466). For
  a step other than 1 or -1, the trip count is `(int)(*upper - *lower) / incr
  + 1`. The comment above it says the difference can exceed the int range,
  but the cast to `int` wraps, so members' shares overlap and iterations are
  lost. libomp computes this difference as unsigned. clang passes normalised
  loops (lower 0, step 1), so this affects only callers that pass raw
  bounds.
* **The empty share wraps** (openmp.cpp:492). With the static schedule and
  fewer iterations than members, a member without an iteration gets
  `*lower = *upper + incr`. When `ub` is the largest `int`, this wraps, and
  the member's share runs from the smallest `int` up to `ub`. TLC shows it
  with Width 8, bounds 126 .. 127, step 1 and three members. No run reaches
  it, because `loop_partition`'s loops stay far from the `int` limits. The
  proofs' hypothesis `LoopsFit` rules it out, and the case shows the
  hypothesis is needed.

### Worker pool

* **The MPI listener is not joined** (`MCWorkerPoolMpi.cfg`,
  WorkerThreadPool.cpp:219). `shutdown()` joins four threads but not
  `mpiThread`. On a node that called `startMpiThread`, the MPI listener can
  still be running, and reading `_shutdown`, after `shutdown()` returns.

## Proofs (`OmpLocalForkProofs`)

The proofs assume the constant assumptions `MaxThreads \in Nat \ {0}`,
`MaxForks \in Nat` and `None \notin Nat`.

* `TypeCorrect`: `Spec => []TypeOK`.
* `IInvariant`: `Spec => []IInv`, where `IInv` is the conjunction of:
  * `TypeOK`;
  * `IdleOutside`: non-members are idle;
  * `CritHeld`: in a team of more than one, a member inside critical holds
    `crit`;
  * `CriticalExclusion`;
  * `TmpFresh`: a member about to store loaded the current value;
  * `CountTracksStores`: `shared = sharedAtFork + |members that have
    stored|`;
  * `ArrivedAtBarrier`: members in `arrived` are at or past the barrier;
  * `PastMeansAllStored`: once one member is past the barrier, all members
    have stored.
* `CriticalExclusionThm`: `Spec => []CriticalExclusion`.
* `BarrierPublishesThm`: `Spec => []BarrierPublishes`.

`CriticalExclusion` and `BarrierPublishes` are not inductive by themselves. A
store can only be counted once the proof knows the storing member loaded the
current value (`TmpFresh`), and that needs the lock (`CritHeld`). The barrier
property needs `CountTracksStores`, plus the fact that a member passes the
barrier only when all members are in `arrived` (`ArrivedAtBarrier`,
`PastMeansAllStored`). `IInv` was checked with TLC in both configurations
before it was proved.

The proof has three parts:

1. One lemma per action shows the action preserves `IInv`. Generic lemmas
   about a member moving from one program counter to another do the common
   work.
2. `IInvStep` combines them.
3. `PTL` closes the temporal step.

`Termination` is a liveness property, and liveness is out of reach of
TLAPS here, so it stays with TLC. `ReductionCorrect` is proved in
`OmpReductionProofs`, below.

## Sums of partials (`TriangleSums`)

The reductions add the partial `t + 1` of each member `t` that has combined,
and members combine in any order. A proof that sums over an arbitrary subset
would need induction over finite sets. The provers cannot instantiate the
library's induction theorems, because those take an operator as a parameter.
`TriangleSums` avoids induction: the partial of `t` is represented by the
`t + 1` pairs `<<t, j>>` with `j <= t`, and `Units(S)` is the set of pairs of
the members in `S`. Its lemmas are:

* `UnitsEmpty`: no member gives 0.
* `UnitsAdd`: a new member `t` adds a disjoint block of `t + 1` pairs
  (`FS_Union`, `FS_Product`).
* `UnitsOfTeam`: a whole team `0 .. n-1` gives `n(n+1)/2`. Its pairs are
  half of the `n * (n+1)` rectangle `(0..n-1) \X (0..n)`, and
  `<<t, j>> |-> <<n-1-t, n-j>>` maps one half onto the other (`TriangleCard`,
  `FS_Bijection`).

## Proofs (`OmpReductionProofs`)

* `ReductionCorrectThm`: if the guest calls `__kmpc_reduce`, then
  `Spec => []ReductionCorrect` for every `MaxThreads` and `MaxForks`.

The hypothesis `ReduceCall = "reduce"` is necessary. With
`__kmpc_reduce_nowait`, members combine without the reduce mutex, and TLC
finds the property violated (`local_nowait_reduction`).

The inductive invariant `RIInv` is `IInv` of `OmpLocalForkProofs` plus four
conjuncts:

* `ForkedTeam`: a forked master has a team. Without it, `Join` could leave
  `forked` with an empty team.
* `RedHeld`: in a team of more than one, a member between `startReduction`
  and `endReduction` holds `redMtx`. This gives exclusion in the combine.
* `CombineFresh`: a member about to store its combined value loaded the
  current `sum`. This holds because of `RedHeld`; without it a store could
  lose another member's partial.
* `SumTracksCombines`: `sum = sumAtFork + |Units(Combined)|`, where
  `Combined` is the set of members past their store. `CombineStore` adds one
  member, and `UnitsAdd` counts its partial.

When every member is done, `Combined` is the whole team, and `UnitsOfTeam`
gives `ReductionTotal(team)`. There is one lemma per action, and
`RIInvStep` and `PTL` close the theorem. `RIInv` was checked with TLC on
`MCOmpLocalFork` (`reduce`, `redis`; 17176 states) before it was proved.

* `RegionStepsThm`: if the guest calls `__kmpc_reduce`, then
  `Spec => Region!Init /\ [][Region!Next]_Region!avars`. This is
  `RegionRefinement` without `OmpRegion`'s fairness condition.

The proof maps each step of `OmpLocalFork` (lemma `RegionStep`):

* `Push` and `Set` map to the abstract `Push` and `Set`.
* `ForkCall` maps to `Fork`. The team size is `RegionSize`, because the code
  takes `pushed`, else `wanted`, else 1.
* A member's step changes no mapped variable, because `master` is `forked`
  and the mapping uses the values at the fork.
* `Trapped` steps are stutters.
* `Join` maps to `Complete` when every member returned 0, and to `Fail`
  otherwise. `JoinCompletes` shows that a completing join has
  `shared = sharedAtFork + team` and the team's sum. It uses `IInv`'s
  barrier conjuncts (lemma `IInvBarrier` of `OmpLocalForkProofs`) and
  `RIInv`'s reduction conjuncts.

The proof uses `RIInv` and one more invariant, `NoTeamOutside`: outside a
region the team is empty. The hypothesis is needed: with
`__kmpc_reduce_nowait`, `Complete`'s sum is wrong
(`local_nowait_reduction`).

## Proofs (`LoopPartitionProofs`)

* `BalancedSharesThm`: `LoopsFit => (Spec => []BalancedShares)`.
* `StaticPartitionThm`: `LoopsFit => (Spec => []StaticPartition)`, where
  `StaticPartition` is `loop.schedule # 33 => PartitionExact /\
  LastIterExact`.

Both hold for every `Width`, `MaxTeam` and set of loops. The hypothesis
`LoopsFit` says that the int arithmetic of every loop does not wrap:

* `lb`, `ub` and `ub + incr` are ints;
* `|ub - lb|` is below `2^(Width-1)`;
* the team is smaller than that bound.

`LoopsFit` is needed. When the arithmetic wraps, the trip count
(`MCLoopPartitionWrap.cfg`) or the empty share (openmp.cpp:492, above) wraps
with it. `MCLoopPartition`'s constants satisfy it. `PowerAssumption`
(`2^(Width-1)` is a positive natural and `2^Width` is twice it) is a fact of
arithmetic. The provers cannot evaluate `^` on a variable exponent, so the
module states it as an assumption, and TLC checks it on every run.

The inductive invariant `LInv` says:

* the loop is one of the constants', with at least one iteration;
* every member that has returned holds `ShareOf(t)`, the share its call
  computes;
* a member returns only with one member or with schedule 33 or 34.

`Init` and every `ForStaticInit` step preserve it (`LInvStep`). `LInv` was
checked with TLC on `MCLoopPartition`'s constants (1008 states) before it
was proved.

The argument works with indices. Iteration `k` is `Pt(k) = lb + k * incr`,
and `Pt` is injective (`PtInj`). The steps are:

* `TripCountVal`: without wrap, the code's trip count (unit steps in wrapping
  `int`, others through `CDiv`, all through `unsigned`) is `LastStep + 1`.
* `RunPt`, `RunWhole` and `RunPast`: the run between two iterations is the
  indices between them. The whole loop is `0 .. LastStep`. The share past
  `ub` is empty.
* `BalancedIdx` and `BalancedRun`: member `t` of the balanced schedule runs
  indices `BA(t) .. BB(t)`, `small_chunk` or `small_chunk + 1` of them.
  `SmallRun`: with fewer iterations than members, member `t` runs index `t`
  or nothing.
* `IdxOrder`, `IdxCover` and `IdxLast`: these intervals follow each other.
  Every index from 0 to `LastStep` is in one of them, and only the last
  member's holds `LastStep`. `IdxCover` names the member explicitly, using
  quotients (`QuotPick`).
* `ShareCard` counts each share with `ProgCard`, a bijection between indices
  and iterations.

The chunked schedule (33) with a team of more than one stays with TLC. Its
shares are unions over repeated strides, and its `lastIter` is
`((tripCount - 1) / chunk) % n`. A proof needs the wrap of `chunk * incr *
n`, and a bound on how many strides fit in the loop.

## Proofs (`FdRegistryProofs`)

These proofs assume that `MaxFd` is a positive natural, that `HostFds` is
part of the table, and that `None` is neither an invocation nor a number in
`-1 .. MaxFd-1`.

* `FdTypeCorrect`: `Spec => []TypeOK`.
* `OwnedOpenAndExclusiveThm`: `Spec => []OwnedOpenAndExclusive`. A number in
  a thread's registry is open in the process, and it is in no other thread's
  registry. This holds for any number of threads and invocations and any
  table size.

`OwnedOpenAndExclusive` is not inductive. `CloseKernel` releases the number
the thread erased earlier, and the proof must know that no registry got that
number back in between. The strengthening `ClosingSound` says a pending close
is of a number that is still open, that is in no registry, and that no other
thread is closing. With it, the kernel's fresh number is in no registry and
in no pending close (`FreshNotOwned`). That number comes from `LowestFree`,
and `LeastExists` shows it exists: a non-empty set of naturals has a least
element, derived from `WFMin` and the well-foundedness of `<` on `Nat`.
There is one lemma per action, `IInvStep` combines them, and `PTL` closes
the theorems. `IInv` was checked with TLC on the `fd_registry` instance
before it was proved.

## Proofs (`GuestMemoryProofs`)

These proofs assume the constant assumptions of `GuestMemory`: a positive
page size dividing the address space, a maximum that fits in it, an initial
size within the maximum, arguments below the address space, a natural call
bound, and `None` not an integer.

* `MemTypeCorrect`: `Spec => []TypeOK`. In particular the page count never
  passes the maximum, whatever the threads interleave.
* `MmapGrantValidThm`: `Spec => []MmapGrantValid`, for any number of
  threads, page size and maximum.

`MmapGrantValid` is not inductive by itself: a brk's `growMemory` must not
push `pages` below a grant, and the proof must know its expansion is
positive. The strengthening `GrowPending` says a brk between its read and its
growth has a target above the count it read. With it every step only grows
`pages`, so earlier grants stay inside the memory (`GrantsKept`), and a new
grant starts at the old end of the memory, after every earlier grant, and
covers `len` because `PagesFor` rounds up (`PagesForCovers`). One lemma per
action, `IInvStep` and `PTL` close the theorem. `IInv` was checked with TLC
on the `guest_memory` instance before it was proved.

## Proofs (`WorkerPoolProofs`)

These proofs assume the constant assumptions of `WorkerPool`: a positive
number of tokens, listeners drawn from the four the pool can start, and
`None` not a token. `NothingOutlivesShutdownThm` also assumes the MPI
listener was not started. With it, `TLC` finds the property violated
(`MCWorkerPoolMpi.cfg`; see Findings), because `shutdown()` never joins
`mpiThread`.

* `PoolTypeCorrect`: `Spec => []TypeOK`, for any number of tokens.
* `NothingOutlivesShutdownThm`: `Spec => []NothingOutlivesShutdown`.

The inductive invariant `IInv` strengthens `TypeOK` with three facts:

* `JoinedDone`: every thread that `shutdown()` has already joined, in
  `JoinOrder`, has ended. `Rank` numbers the stages of `main`, so this is
  four implications.
* `PoolDoneEmpty`: the pool thread ends only with no worker alive. It
  spawns nothing after that.
* `HeldAtCheck`: at the double check of `_shutdown`, the pool thread holds
  a token. `TypeOK` needs this after a spawn.

`FinishedStable` says that an ended thread stays ended under every step. A
join then adds one more ended thread. There is one lemma per group of
actions, and `IInvStep` and `PTL` close both theorems. `IInv` was checked
with TLC on the `worker_pool` instance (1344 states) before it was proved.

`ShutdownCompletes` is a liveness property. It stays with TLC.

## Proofs (`OmpDistributedForkProofs`)

These proofs assume the constant assumptions of `OmpDistributedFork`:

* every parent has a home process;
* the team bound is positive and the fork bound is natural;
* device arguments are integers, and argument counts and leftover values of
  `REDUCE_KEY` are naturals;
* `None` is not a parent.

* `DistTypeCorrect`: `Spec => []TypeOK`. In particular `userNumDevice`
  stays within `0 .. userMaxNumDevices` on every process.
* `ReturnMeansAllOkThm`: `Spec => []ReturnMeansAllOk`. A fork returns to
  the guest only when every chained call of its team finished with 0. This
  holds for any number of parents, processes, threads and forks, whatever
  the timeouts, late answers and lost calls.

`TypeOK` is not inductive, because `numErrors` could pass `MaxThreads`. The
strengthening `AwaitBounds` says that `numErrors <= wi <= team` for every
parent; `IInv` is `TypeOK /\ AwaitBounds`.

`ReturnMeansAllOk` needs a second strengthening, `ReturnInv`, which holds
for every parent:

* a parent running its guest has `wi = team` and `numErrors = 0`;
* while it awaits or runs with no error counted, every call below `wi`
  is `"ok"`.

The second conjunct is the heart of the argument:

* `AwaitResult` keeps the error count at 0 only on an `"ok"` call;
* `AwaitTimeout` always adds an error;
* `"ok"` is final for a chained call;
* other parents' steps leave `p`'s await state and calls alone.

`IInv /\ ReturnInv` was checked with TLC on two parents, two forks each
(477880 states), before it was proved.

* `DistReductionCorrectThm`: if there is at most one parent
  (`AtMostOneParent`), then `Spec => []DistReductionCorrect`. This holds
  for any processes, placements, device counts, losses, timeouts, team sizes
  and forks.

The hypothesis `AtMostOneParent` is necessary. All parents share
`REDUCE_KEY`, so a second parent's fork zeroes the first parent's partials.
TLC finds the property violated with two parents
(`MCOmpDistributedForkSharedKey.cfg`; see Findings).

The inductive invariant `DIInv` is `IInv`, `DistReductionCorrect` itself,
and five more conjuncts:

* `OutsideNone`: chained calls beyond the team are never created.
* `SerialQuiet`: between forks, every call is finished (`none` or `ok`).
  A late increment therefore cannot reach the key after a fork has
  returned.
* `HeldOnRemote`: a call holding its level's reduction lock runs on a
  process with a device count other than 1. Such a call takes the redis
  branch of `__kmpc_reduce_nowait`.
* `KeyCounts`: while the parent waits on a fork with arguments,
  `redis = |Units(OkSet)|`. `OkSet` is the set of calls that returned 0,
  and each of them added its partial once.
* `NoErrorsAllOk`: while no error has been counted, every call awaited so
  far returned `ok`.

At the join without errors, `OkSet` is the whole team. `UnitsOfTeam` then
gives `ReductionTotal(team)`. `DIInv` was checked with TLC with one parent
(9895 states) before it was proved, and TLC finds it violated with two
parents.

`RegionRefinement`'s safety part is proved (`RegionStepsThm` in
`OmpReductionProofs`). Its fairness part stays with TLC: `OmpRegion`'s
specification has weak fairness on `Complete \/ Fail`, and that fairness
needs `ENABLED`, which TLAPS does not support here.

## Model-checked only

* The liveness properties `Termination` (both forks) and
  `ShutdownCompletes`, and the fairness part of `RegionRefinement`. They
  need `ENABLED` and fairness reasoning.
* `PartitionExact` and `LastIterExact` of `LoopPartition` for the chunked
  schedule with a team of more than one (see `LoopPartitionProofs` above).
  For the other schedules they are proved, under `LoopsFit`.

## Plan

Next:

1. Model the team-sizing of the distributed branch, to show its missing
   reset of `pushed_num_threads` (openmp.cpp:242).
2. A refinement of the distributed fork to `OmpRegion`.

## Not modelled

* The wasm engine (WAVM), redis and the message bus are collaborators. They
  appear only through their contracts.
* Logging and formatting are left out.
* Syscalls that only marshal values between guest memory and the kernel
  (read, writev, poll, time) carry no state beyond the descriptor check.
