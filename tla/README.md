# Geobacter in TLA+

Geobacter runs ordinary Rust functions on AMD GPUs and Vulkan devices. A host
program finds a device through `runtime-core`, gets the function compiled by a
`rustc` embedded in the process, loads the result, writes the arguments into
memory the device can read and enqueues a packet on a ring buffer that the device
polls. This directory holds specifications of that path: the parts where several
threads, or a thread and a device, meet, and the algorithms that decide what the
device gets. TLC checks them on small instances; the safety of the queues, the pool, the
dispatch, copies, access to memory, the compilation, the Context, the ids of work
items and their shared memory is proved for every number of threads and every size
(section 4 says of what it is not).

- [1. The system](#1-the-system): inventory of components
- [2. The modules](#2-the-modules): what each one models, and how it maps to the code
- [3. The runs](#3-the-runs): what TLC checks, bounds, fairness
- [4. The proofs](#4-the-proofs)
- [5. Where the code and its documentation disagree](#5-where-the-code-and-its-documentation-disagree)
- [6. What is not modelled](#6-what-is-not-modelled)
- [7. Plan](#7-plan)

`PROJECT.json` is the machine-readable index: components, runs, the source lines
of every definition, the mutants that show that each property can fail, the
hazards, the findings and the theorems.

## 1. The system

The path of one kernel (all paths below `src/`):

```
 host thread                                                     device
 -----------                                                     ------
 Context::new, HsaAmdGpuAccel::new / VkAccel::new          (one Context, a driver per target)
 FuncModule::new ── ModuleContextData::get_cache_data      (static word per kernel fn)
   │                       │ Arc<ModuleData>
 FuncModule::compile ── ModuleData::compile                (one module per accelerator)
   │                       └─ CodegenDriver::codegen       (cache, one leader per kernel)
   │                            └─ rayon pool: rustc session
   │                                 ├─ metadata of the program's crates
   │                                 ├─ collector and stubs
   │                                 └─ attributes, layouts, post_codegen
 LapBox, memcopy                                           (memory, DMA copies)  ──► engine
 Invoc::unchecked_call_async
   ├─ ArgsPool::alloc                                      (bump pointer, no lock)
   ├─ Deps::iter_deps: signals in the arguments
   ├─ try_enqueue_barrier_and  (dependencies, five a packet) ──► ring ──► packet
   ├─ try_enqueue_kernel_dispatch ───────────────────────────► ring ──► work items: grid, LDS
   └─ InvocCompletion: waits for the completion signal  ◄── decrement ──┘
```

| Component | State it keeps | Operations | What is hard | Modules |
|---|---|---|---|---|
| AQL user-mode queue (`hsa-rt/src/queue.rs`) | write and read index, doorbell, packet slots | `try_enqueue_*`, the constructors | lock-free reservation and publication, wrap-around, a full ring | `RingQueue`, `PacketStream` |
| Soft queue (same file) | the same, and the position of `process()` | `SoftQueue::process` | the doorbell is the only thing it waits on | `SoftQueue` |
| Signals and barriers (`runtime-amd/src/signal/`, `hsa-rt/src/signal.rs`) | a value per signal | waits, resets, device updates with an interrupt, `Deps`, `barrier_impl` | wake-ups, sporadic returns, resets, counts of packets, errors half-way | `Transfers`, `DeviceSignals`, `KernelSignals` |
| Derive macro for arguments (`runtime-amd-macros`) | none | which fields are walked | a field left out | `KernelSignals` |
| Memory copies (`runtime-amd/src/mem.rs`, `lib.rs`) | transfers in flight | groups of copies, drops | a group started half-way, what a drop waits for | `Transfers` |
| Locally accessible memory (`runtime-amd/src/alloc/`) | bit per accelerator, list of the driver | `grant_access`, `grow`, moves | bit set before the grant is made, lists replaced whole | `LapAccess` |
| Kernel dispatch (`runtime-amd/src/module/mod.rs`) | arguments in flight | `try_unchecked_call_async`, drop of `InvocCompletion` | failure half-way, retry, arguments the device still reads | `Dispatch` |
| Kernel argument pool (`module/args_pool.rs`) | bump pointer of an arena | `new`, `alloc`, `wash` | weak compare-exchange, alignment, reuse | `ArgsPool` |
| Grid arithmetic, parameters (`module/grid.rs`, `args.rs`) | none | ranges, limits, linear ids | integer limits, rounding up | `Grid` |
| Workgroup memory (`runtime-amd/src/lds.rs`) | LDS objects | borrows with barriers | barriers between borrows, items masked off | `Workgroup` |
| Kernel compilation (`context.rs`, `module/mod.rs`) | modules of each function; handle of each user; stacks of the pool's workers | `compile`, `compile_async`, `define_param` | locks held while a worker takes other jobs on top, which want the same locks | `ModuleCompile` |
| Kernel codegen cache (`codegen/worker/mod.rs`) | entry of each kernel: in progress or done | `codegen_kernel` | one leader per entry, wake-ups, failure, panic | `CodegenCache`, `CodegenMemo` |
| Static module stash (`context.rs`) | a static word with a counted pointer | `get_cache_data`, `upgrade`, `drop` | reference counts by hand, reuse of addresses | `ModuleStash` |
| Context and registry (`context.rs`, `lib.rs`) | global reference, accelerators, drivers | `new`, `take_accel_id`, `initialize_accel` | initialization race, ids that fail | `Context` |
| Target descriptions (`runtime-core/src/lib.rs`, `init_target_desc`) | one description per device | features, address spaces, equality | devices that share a driver must run its code | `TargetDesc` |
| Metadata loader (`metadata.rs`, `platform/unix.rs`) | blobs, crate numbers, a lock | search paths, `build` | which blob is taken, numbering, a lock over parallel loops | `SearchPaths`, `CrateMetadata`, `Session` |
| Collector and stubs (`worker/collector.rs`, `stubbing.rs`) | visited items | `collect_items_rec` | what is replaced before what is asked | `Collector` |
| Attributes (`codegen/attrs.rs` and the platforms') | none | `geobacter_attr` conditions, `codegen_fn_attrs` | nested conditions, two platforms | `Attributes` |
| Driver data and session (`worker/mod.rs`, `driver_data.rs`) | the root, the unit, the products | one codegen session | errors on every step, locks held throughout | `Session` |
| Vulkan runtime (`runtime-vk`) | layouts, descriptors | type metadata, pipeline layouts | host and device must agree on places | `SpirvTypes`, `VkPipeline` |

## 2. The modules

Besides the component modules there are `MC…` modules, which give the constants
values for TLC, two abstract specifications (`PacketStream`, `CodegenMemo`) and
eight `…_proofs` modules (`Memory_proofs` is about `Transfers`, `LapAccess` and
`ArgsPool`, `Context_proofs` also uses `TargetDesc`, and `Workgroup_proofs` also
`Grid` and `DeviceSignals`). `Dispatch`, `ModuleCompile`, `DeviceSignals` and `Session`
are compositions.

Conventions. Every access to memory that threads share is a step of its own; a
critical section of a lock is one step. `pc` says where a thread is inside a
call. A variable marked *history* is not in the program: it remembers what a
property needs. `Mutant_X` next to `X` is what a plausible bug would make of `X`;
no specification uses it, it shows that the properties notice.

### RingQueue

| Code | Model |
|---|---|
| `add_write_index_screlease(1)` | `Reserve`: `write_index`, and the thread's `idx` |
| `load_read_index_scacquire`, the comparison with the packet count | `Admit`, `ReturnFull` |
| `packet_store_rel(.., INVALID)` | `Invalidate` |
| plain stores of the body, the completion field | `Fill`, `CompletionField` |
| `packet_store_rel(.., type)` | `Publish` |
| `doorbell_ref().store_screlease(index)` | `RingDoorbell` |
| `DispatchPacket::check` failing | `RejectDims` |
| `Queue<SingleQueueType>` is not `Sync` | `MayEnter`: one thread at a time unless `queue.sync` |
| `new_kernel_queue`, `new_kernel_multi_queue`, `new_queue`, `new_multi_queue` | elements of `Queues` |

`write_index` is a `u64` that cannot wrap in practice; `MaxIndex` bounds the run.
The packet processor (`Take`, `Advance`, `Sleep`) is hardware and modelled from
what the code relies on: it is woken by a store to the doorbell, takes the packet
at the read index when the header is valid, stores INVALID and then advances the
read index. It may sleep whenever it finds nothing to take.

The queue implements `PacketStream`: `accepted` is the set of packets whose header
is stored, `handed` the sequence the processor took (`StreamSpec` is the
instance). `Publish` is `Accept`, `Take` is `Hand`, everything else stutters.

### SoftQueue

`Enter`, `SeeDoorbell`, `Process`, `Complete`, `Clear` and `StoreReadIndex` are
the statements of the loop of `process()` in order. The agents that feed it take
the producer's steps of `RingQueue` except that they wait for room.

### Transfers

| Code | Model |
|---|---|
| `SignalFactory::reset`, in place when the `Arc` is its own, else a new signal | `Reset`, with `Owned`, `Unique` and `Fresh` |
| `unchecked_async_copy_into` of each object of a group, its errors, an empty side | `CopyAsync`, `CopyFails`, `CopyEmpty`, then `Return` or `ReturnErr` |
| drop of a transfer: the wait, or the panic after an error | `Drop`, `DropEnds`, `DropPanics` |
| `barrier_impl`: the count in a first pass, packets in a second, errors between | `Ceil`, `EnqueueBarrier`, `BarrierFails`, `BarrierReturns` |
| the DMA engine and the packet processor (external) | `FinishDma`, `FinishPacket` |

A group is a tuple of any shape: the model keeps the sequence of its objects.
What a signal has to count (`CountsAgree`) is the copies that name it, or for a
barrier its packets in the ring and those its second pass has still to write.

### LapAccess

`VecAdd`, `Allocate`, `Dealloc`, `CloneInto` are the `&mut` operations, one step
each. `LapArc::grant_access` is step by step: `Known`/`Unknown` (the bit is read
without the lock), `SetAllowed`, `Lock`, `Beaten`, `SetBit`, `ListAgents`,
`Grant` or `GrantFails` with `Unset`. `DeviceGone` is the drop of an accelerator,
whose weak reference the next list leaves out.

### Grid, Workgroup

`Grid` has the arithmetic as operators over a machine whose `u32` and `u16` end
at `Max32` and `Max16` and whose sums wrap: `Extent`, `LenError`, `RoundUp`,
`Verdict` (the checks of a launch), `GlobalLinearId`, `WorkitemLinearId`,
`VectorParams`, `TransposeParams`; `IsaInfo` has the limits of the device.
`Workgroup` launches a grid (`Call`), takes one
group (`RunGroup`), and lets its items go through three uses of one LDS object:
`With` (with its `mark_used` barrier), `InitSingleton`, `UncheckedInit`,
`InitOwn`, `Deref` (the first one waits), `OutOfScope`, `DropMut` (`DropWaits`,
`DropAfter`); `Barrier` is the hardware's: all items that wait go on.

### DeviceSignals, KernelSignals

`DeviceSignals` adds to a launch the signal its items update and the host waits on.
`Accepted` takes an accepted launch there instead of to its LDS. `Atomic` is
the update, `UpdateMbox` the store to the mailbox and interrupt, a step later and
only for the operations that `Tells` names; `BeginWait`, `HostWait`, `LookAt`,
`Interrupted`, `Sporadic` and `Answers` are a wait of the host with its condition
and timeout; `PeerOp` is another host thread. `WaitsFor` is what the kernel waits for
because of its arguments, which is all that `iter_arg_deps` lets through: every signal
of the arguments but the kernel's own completion. `Started` is the device that starts
it when those are zero. The completion may be one of the signals of the arguments
(`completion` of the launch), but not the one the items update; what happens to it is
in `Dispatch`.
Which signals arguments hold and the bitwise operations are parameters: `MaxValue`
ends the values, as `Max32` does the indices, and stands for an `i64`'s.

`KernelSignals` gives the parameters: `DepsIn` is the walk of `Deps` (`SignalsOf`)
over the types of the arguments (primitives, pointers, slices, `Option`, tuples,
ranges, boxes, structs with their derive), `WordAnd`, `WordOr` and `WordXor` the
operations on bits. `ArgumentsReady` says that a kernel that runs has what its arguments
hold, and makes the exception the code makes: an argument that waits for the
completion of the very kernel it is given to is not waited for, so dereferencing it
there finds what the host has not finished. In `KernelItems` that happens, and without
the exception the property is violated.

### ArgsPool

`Alloc` loads the pointer, `Exchange` and `Retry` are the two results of
`compare_exchange_weak`, `Bail` returns `None`. A block lives until its
`InvocCompletion` is dropped (`Finish`); `wash(&mut self)` needs that nobody
holds the pool (`Exclusive`).

### Dispatch

| Code | Model |
|---|---|
| a value of the kernel's argument type | a job; `state` says who owns it |
| completions of earlier invocations moved into the arguments | `deps`, `Build` |
| the checks and the compilation at the top of the call | `Refuse`, `Admit` |
| `pool.alloc` | `Alloc`, `Oom` |
| the closure that collects signals, the barrier of the rest | `EnqueueBarrier` with `Batches` |
| `ptr::write`, the dispatch | `EnqueueKernel` |
| `Full` from either enqueue | `EnqueueFails`: a gap in the ring |
| `InvocCompletion::drop` | `Drop`, then `DropHost`, `DropDevice` or `DropPanics` |
| the fields of a dropped value | `DropOwned`: its completions are dropped too |
| the agents | `StartKernel`, `CompleteBarrier`, `FinishKernel` |

It composes what the other modules say of the pool and of the rings, each
operation in one step, and keeps their defects: gaps, and completion fields that
a barrier leaves in its slot. That no kernel is released early by such a field
is due to the barrier bit alone (`BarrierBit`, marked `XXX: ??` in the code).

### CodegenCache

An entry is `Absent`, `InProgress(g)` or `Done(x)`; a wait group is named by the
attempt that made it. `Released(d, g)` is crossbeam's rule: the group is gone
from the cache and every clone was dropped. `Generate` chooses between a product
and an error; `Panic` unwinds out of the call and leaves the entry as it is. What
the entries hold that are done is the state of `CodegenMemo` (`MemoSpec`).

### ModuleCompile

Hosts own a `FuncModule` each; each function has one `ModuleData`. The callers of its
`compile()` are hosts and the closures of `compile_async`.

| Code | Model |
|---|---|
| `ModuleData::get`, `upgradable_read`, the second look | `GetHit`, `GetMiss`, `Lock` (`owner`), `RecheckHit`, `RecheckMiss` |
| `codegen(desc)`: a product that is there, a session on the pool, a session right here | `CodegenCached`, `InjectSession`, `InlineSession`, then `SessionOver` |
| `load_kernel` and the store of the entry | `Install` |
| the metadata: read lock, write lock, downgrade, the guard kept to the end | `LoadRead`, `LoadLock`, `Load`, `LoadFails`, `SessionEnds` |
| the parallel loops of a session, with its locks held | `InLoop`: its worker looks for work |
| rayon (external): injector, scope, stealing, jobs on top of what waits | `queue`, `stack`, `TakeJob`, `StartSession`, `CloseScope` |
| `define_param` and its like | `DefineParam`; an entry remembers with which params it was made |

A session has a step for each access to the metadata lock and is a choice of success
or failure otherwise. What is below another frame on a worker's stack cannot go on,
whatever locks it has, and a caller that blocks blocks its thread. `Session` has the
course of a session in detail, with a worker for each; here workers are few, which is
what the deadlocks are about. Left out: rustc's own handler for cycles of queries.

### ModuleStash

`ptr` is the static word, `rc` the strong count behind each address. A thread
owns up to two counts in the object it allocated, and one in the `Arc` it got.
`drop()` frees; freed addresses are allocated again. After a use of freed memory
the behaviour ends (`At`).

### Context, TargetDesc

`Look` is `Context::new` looking at the global reference, twice; the lock around
the second look is not modelled because its guard is dropped where it is made
(`let _ =`). `Build` and `BuildFails` are rayon's global pool, which a process
builds once; `Install` stores the global reference. `TakeAccelId`,
`NewAccelFails`, `InitializeAccel` make an accelerator; the registry is an
`IndexVec` with holes. What a session does to its Context is here too: it loads the
metadata (`LoadRead` under the read lock; then `LoadLock`, `Load`, `LoadFails` under
the write lock, downgraded) and gives its guard back (`Ends`). In `ContextSpec` a
session may do any of this whenever its place allows it; `Session` says when, and each
of its steps has one of these (`SessionStep`) or of the Context's (`ContextStep`) as a
conjunct, or leaves the Context and the places of threads alone.

A device is what its driver says of it, and
`TargetDesc!DescOf` computes the description of its target as
`init_target_desc` of its platform does (`AmdTarget`, `VkTarget`: the part for rustc); two devices share a driver when
`SameDesc` (equality and hash of the code) says so.

### CrateMetadata, SearchPaths, Collector, Attributes, SpirvTypes, VkPipeline

Algorithms, as operators, each against a reference definition of what it is for:

- `SearchPaths`: the directories of `DT_RUNPATH` and `LD_LIBRARY_PATH` with their
  dynamic tokens; reference: the paths as they are meant (`Means`).
- `CrateMetadata`: files to blobs to numbered crates; reference: reachability
  over dependencies (`Reaches`).
- `Collector`: the items of a kernel, with stubs; reference: `Undefined` and
  `Reached`.
- `Attributes`: conditions, and what the platforms add; reference: `Holds`.
- `SpirvTypes`: layout metadata of Vulkan statics; reference: where the host puts
  each scalar (`HostPlaces`).
- `VkPipeline`: questions to a pipeline layout, and the iterator over a set;
  each checked against the other (`WalksAsAsked`).

### Session

| Code | Model |
|---|---|
| `with_rustc_span_globals`: a job of the pool | `StartSession`, `TakeJob` (by an idle worker or by one inside a parallel loop) |
| `AsyncCodegenMetadataLoader::load` | `ReadMetadata`, `LoadMetadata`, `MetadataFails`, over the Context's `LoadRead`, `LoadLock`, `Load`, `LoadFails` |
| `CrateMetadataLoader::build` in the order of a hash table | `BuildCrates` |
| `spec_data`, `init_root` | `SessionFails` |
| `codegen_crate` with the overridden queries | `CodegenCrate`: `unit`, and `Asked` for each item |
| LLVM and the linker (external) | `CodegenFails` |
| `post_codegen` of the driver data and of the platform | `PostCodegenAmd`, `PostCodegenVk` |

`world` names one of several processes: its devices, files, crates, items and
kernel.

## 3. The runs

| Run | Question | Instance | Distinct states |
|---|---|---|---|
| `RingMulti` | are slots exclusive, packets in order and once, accepted packets taken; does the queue implement `PacketStream` | two threads, two slots, four indices; a SINGLE queue used by turns, a MULTI queue used at once | 406,826 |
| `SoftSingle` | does `process()` hand out what was written and leave nothing behind | one agent, two slots, four indices | 7,022 |
| `CacheShared` | do calls return; does the cache implement `CodegenMemo` | three threads with two calls each, two kernels, failing and panicking compilers | 612,399 |
| `CompileShared` | is there one module per device and function, and when may `compile()` hang | two hosts with two operations each, two closures, two workers, two functions, one device, two params | 440,470 |
| `StashShared` | are the counts exact and do callers share one object | three threads with two calls each, four addresses, `drop()` at any time | 1,021,167 |
| `PoolShared` | are blocks disjoint, is `None` honest | three threads, an arena for three calls of six bytes, alignment four, base six | 384,630 |
| `DispatchShared` | do kernels run after their dependencies and end, do arguments outlive them | three jobs, any dependencies, one or two queues of two slots, three blocks, four calls | 192,719 |
| `CopyShared` | do signals count what is to come, does memory outlive copies, do copies imply their dependencies, do drops end | three objects, one barrier, three signals, two dependencies a packet | 351,872 |
| `LapShared` | do the bits match the driver's lists, is access kept | two vectors, one `Arc`, two threads, two devices | 1,243,437 |
| `KernelItems` | does a launch run each point once with distinct ids; do LDS and signals work | a machine of four bits, groups of up to four items, signals of three bits, two items that update | 254,942 |
| `SessionShared` | one Context, fitting registry, crates, units, attributes and layouts; do sessions end | two threads, six processes, two devices each, two Contexts, accelerators and sessions | 170,950 |
| `RingWedge` | (counterexample) is an accepted packet taken | one thread that meets a full ring once | — |

What the properties say is in the comment above each one in its module. Every
listed run but `RingWedge` finishes without an error.

Why these bounds meet the interesting cases:

- *Ring*: every slot is used twice, so a writer can meet a waiting packet of the
  round before and another writer; two threads show every order of two
  publications. The proofs cover all other sizes.
- *Soft queue*: the same ring; one agent because `new_soft` is given a SINGLE
  queue.
- *Cache*: the third thread meets a group of an earlier attempt while a second
  attempt is led; two calls let a thread come back after a failure.
- *Compilation*: two workers are the smallest pool in which a session can be
  stolen and one worker can hold the lock that another wants; two hosts let a
  `compile_async` compete with a `compile`; two functions let sessions run at once and
  meet at the metadata; two closures let a worker with one take up the other.
- *Stash*: one thread publishes, one loses, one drops; with four addresses one can
  be reused while somebody still remembers it.
- *Pool*: the base is not aligned, one size is below and one above the alignment,
  three blocks nearly fill the arena, `wash` starts it again. The alignment of
  128 is scaled to four; the proofs cover every alignment.
- *Dispatch*: three jobs give a chain, a fork and a join; two slots wrap at once;
  the fourth call is a retry. `PacketDeps` is two instead of five, so that one
  dependency is a rest and two are a full packet.
- *Copies*: three objects give a group that fails in its middle and a transfer
  that depends on another; the third signal is the replacement of a shared one.
- *Access*: two threads that grant on one `Arc`, while a vector is moved or
  cloned and a device goes; one device is in `default_allowed` in one class.
- *Grid*: ranges at, below and above the largest integer, of one to three axes,
  a last group that is partly outside the grid; one bit more adds no new case.
- *Signals*: three bits (`MaxValue` is 3) hold negative values, and two updates can overflow.
- *Sessions*: two threads race for the Context and for the metadata lock. The
  six processes have, between them: everything in the executable; a shader with
  libraries in odd places and duplicate crates; attributes for the other
  platform; a crate that is missing; parameters of another program; metadata
  that does not inflate.

`CHECK_DEADLOCK FALSE` is set where the bound on calls ends a behaviour (all but
`PoolShared`); the liveness properties find real deadlocks instead.

Fairness. A thread inside a call keeps running: weak fairness of its next step.
That a thread makes a call is never assumed. Devices (packet processor, DMA
engine, agents, the items of a kernel) keep running: they are hardware. In
`ModuleCompile` each host and each worker that can make a step makes one: weak fairness
is enough, also for the locks, because operations are bounded and nobody can take a
lock from the others for ever. Which job a worker takes up is left open.
In `Session` every session has a worker, so that what remains of the pool's
scheduling is which job a waiting worker takes up. `SoftQueue::process` is weakly
fair while it runs. `DeviceSignals` assumes nothing of sporadic wakes: a waiter
is woken by an interrupt or not at all.

Conditional liveness. Where the plain statement is false because of a finding,
the passing run checks the strongest version that holds, so that nothing else is
wrong: `TakenUnlessGap` excuses packets behind an abandoned index, `CallsReturn`
excuses calls whose leader panicked, `CompileReturnsOrDeadlock` and
`SessionsEndOrStuck` say that a deadlock is the *only* way not to return, and
`CopyImpliesDeps` excepts copies with an empty side. The deadlocks of `ModuleCompile`
are cycles of who waits for whom (`WaitsFor`: frames on a stack, the locks of
`ModuleData`, the metadata lock, scopes), or a session in the queue with every worker
in, or behind, such a set. They come in three kinds: the workers all block on the lock
of a host whose session is in the queue; a worker takes up, in a loop of a session, a
closure that wants the lock of `ModuleData` that is held further down its own stack; or
a session that wants the metadata lock that is held there.

## 4. The proofs

All are for every value of the constants within their assumptions (the
`…Assumption` beside the constants of each module, which TLC evaluates in every run).
They are about the specifications the runs check, with one exception, where a run
composes: `SessionShared` runs `Session!Spec`, the theorems are about the component
(`ContextSpec`), whose variables the other steps of the composition leave alone. Those
about `Workgroup` hold for `Workgroup!Spec` and for the `SignalsSpec` that `KernelItems`
runs, whose one step on variables of `Workgroup`, `Accepted`, keeps their invariants.
About 12,100 obligations:
`Workgroup` with `Grid` and `DeviceSignals` 2497, `Memory_proofs` 2325, `Dispatch` 1894, `RingQueue` with
`SoftQueue` 1727, `Context` with `TargetDesc` 1064, `ModuleCompile` 2034, `ModuleStash`
326, `CodegenCache` 230.

Every module of proofs has the same shape: an inductive invariant (`IInv`) that is
a conjunction of named parts, a step per action that keeps it, and the theorems
read off it. None of the properties is inductive as it stands. What they lack is
mostly ownership: who has the slot, the entry, the lock, the count, the
completion; and what a thread in the middle of a call may rely on.

**RingQueue** (`RingQueue_proofs`), from `RingAssumption` (`Size` and `MaxIndex`
are positive, requests are requests). `SlotExclusive` says nothing about threads
before they write. The invariant is

    IInv == TypeOK /\ OwnerInv /\ IndexInv /\ WindowInv /\ SlotInv /\ LogInv

- `OwnerInv`: an index has at most one thread, and its fate follows the thread;
- `IndexInv`: indices below `write_index` were handed out, those below the
  processor's position were taken;
- `WindowInv`: whoever writes, and whatever waits, lies less than `Size` above
  `read_index`;
- `SlotInv`: a valid header belongs to a published packet, and its body is there;
- `LogInv`: the processor's log is the prefix of indices it took.

The argument: two indices of one window of `Size` have different slots
(`SlotInjective`); so writers do not meet each other or a waiting packet
(`WindowSeparatesWriters`); so a published packet stays as it is; so the valid
header at `read_index` is the packet of that index (`TakeStep`), and an abandoned
index stops the processor instead of making it skip. Theorems: `TypeCorrect`
(`TypeOK`), `SlotsAreExclusive` (`SlotExclusive`), `PacketsAreSafe` (`InOrderOnce`).

What the packets say is a second invariant on top, `AskedInv`: kind and completion
signal are as asked for in a packet that is filled (`FilledAsked`), that waits
(`WaitingAsked`) and that was handed over (`PacketsAsAsked`). From it follow
`DeliveredAsAsked` and `ImplementsStream` (`StreamSpec`): the store of the header is
the abstract `Accept`, `Take` is `Hand`, and everything else stutters. The
refinement supposes that every request stores the completion field (`Stores`): a
barrier that is given no signal hands over what an older packet left in its slot
(section 5). The requests of `RingMulti` are of that kind.

**SoftQueue** (end of `RingQueue_proofs`). `process()` looks at no header: that the
packet it reads is whole follows from the doorbell, which is stored after the
header (`BehindDoorbell`), and only if one agent at a time is between its
reservation and its doorbell (`OneAgent`). `ProcessHandsWhatWasAsked`
(`ProcessedAsAsked`) therefore supposes queues that are not `Sync`, which is what
`SoftSingle` runs, and requests that store the field. With several agents it is
false (section 5, on `QueueType::Multiple`).

**ArgsPool** (end of `Memory_proofs`), from `PoolAssumption` (addresses and sizes are
positive). `PoolInv` adds to disjointness that live blocks are aligned, inside the
arena and below the bump pointer and that nobody works with a pointer ahead of
it. The arithmetic is in `PaddingAligns` (start plus padding is a multiple of the
alignment) and `PaddingGrows` (the next free address after a block grows with the
address one starts from), the second being what makes a decision on a stale
pointer safe: what did not fit then does not fit now. Theorems: `PoolInvariant`
(`PoolInv`), `BlocksAreSafe` (`BlocksDisjoint`), `NoneMeansNoRoom`
(`OutOfSpaceIsReal`, an action property).

**Dispatch** (`Dispatch_proofs`), for every number of jobs and queues and every size
of ring, barrier packet and pool. Of its parts,

- `CoverOK` carries the order: what a job depends on has ended, or a barrier ahead
  of the job's kernel waits for it, or the call still has to enqueue one;
- `SignalOK`: a signal is 1 until its kernel has ended, and never after;
- `SlotOK` is why `SignalOK` survives the completion fields that barriers leave
  alone: the signal a slot holds is of a kernel that was in that slot of that
  ring, so a barrier that decrements it comes behind that kernel, and by the
  barrier bit after its end;
- `OwnOK`: a completion is owned by one job, as long as that job is there;
- `HeldOK`, `BlockOK`, `StateOK`, `PacketsOK`: what is in flight is held, blocks are
  one job's, and the packets in a ring are those of its jobs.

Theorems: `KernelsRunAfterDeps` (`RunsAfterDeps`), `ArgumentsOutliveKernels`
(`ArgsOutliveKernel`), `SignalsOutliveBarriers` (`DepsOutliveBarrier`). The last two
except, as the properties do, what section 5 lists: drops that panicked, and
calls that failed with `Full` behind their barriers.

**Transfers** (`Memory_proofs`), for any number of objects and signals, finitely
many barriers and packets of any capacity. Copies may share a signal, a barrier
shares its own with nothing (`SignalOK`), a packet stands for dependencies that no
packet still to be written stands for (`PacketOK`); with that each step of an
engine takes one from one count. `DoneDeps` says that the dependencies of a copy
that is over stay at zero as long as its transfer lives, because what is reset is
owned by its caller alone (`DepsLive`). Theorems: `SignalsCountWork` (`CountsAgree`),
`MemoryIsFreedAfterCopies` (`MemoryOutlivesCopy`), `CopiesImplyTheirDeps`
(`CopyImpliesDeps`) and `NothingWaitsForAReset` (`NoResetInUse`, an action property),
which supposes `KeepDeps`: callers that keep what a pending barrier waits for. The
code does not oblige them to (section 5); `CopyShared` runs with it.

**LapAccess** (`Memory_proofs`), for any number of devices, objects and threads.
The driver's list is never ahead of the bits, and behind them by the devices of
grants not answered yet and by devices that need none (`GrantsOK`); a list on its
way to the driver, which replaces the one there, has everything that one has
(`ListOK`); one thread at a time is under the lock of an `Arc` (`Mutex`, `Locked`).
Theorems: `BitsAgreeWithTheDriver` (`BitsMatchGrants`), `AccessIsKept` (`AccessKept`),
`AccessIsNeverRevoked` (`NeverRevoked`, an action property).

**CodegenCache** (`CodegenCache_proofs`), for any number of threads, kernels and
calls. `LeaderOwnsEntry`, with the types, is inductive: an entry in progress has
one leader, and it stays that leader's. So the one step that makes a product, the
leader's `Store`, finds none before it, which is the refinement. Theorems:
`LeadersOwnTheirEntries` (`LeaderOwnsEntry`), `SleepersAreWoken`
(`WaitersHaveALeader`), `ImplementsMemo` (`MemoSpec`).

**ModuleCompile** (`ModuleCompile_proofs`), for any number of host threads, closures,
workers, functions, devices and operations. The invariant is

    IInv == TypeOK /\ TaskOK /\ OwnerOK /\ EntryOK /\ WaitOK /\ MetaOK /\ FramesOK /\ QueueOK

- `OwnerOK`: who is in the critical section of a function has its lock, and nobody else;
- `EntryOK`: past the second look there is no module yet;
- `WaitOK`: a caller waits exactly as long as it has a session;
- `MetaOK`: a session has the metadata lock, and how, exactly at the places where it is
  held;
- `FramesOK`: no frame is on two stacks or twice on one, and each is there only while what
  it stands for is running;
- `QueueOK`: what is in the queue is there once and has not begun.

Theorems: `SlowPathIsSerialized` (`SlowPathSerialized`), `ModulesAreCreatedOnce`
(`ModuleCreatedOnce`, an action property), and `DeadlocksAreForGood`: a host that is
deadlocked stays so, whatever the others do, so what `CompileReturnsOrDeadlock`
excuses is a deadlock and not a delay. The argument for the last: nothing of a
deadlocked set can make a step, so none of its locks is given back; the steps of the
others put frames on top of stacks or take off their own, and every edge between two
of the set (`WaitsFor`) stays.

**ModuleStash** (`ModuleStash_proofs`), for finitely many threads and any heap. `PcOK`
says which references a thread has at each place; each step then moves a count and
a reference together. `UntilDrop` says that the first pointer published is the only
one as long as `drop()` has not taken it. Theorems: `CountsAreExact` (`CountsExact`),
`CallersShareOne` (`OneModuleData`), and `OnlyDropEndangers`: no use after free and
no panicking loser before the first `drop()`, which bounds that finding of
section 5.

**Workgroup** (`Workgroup_proofs`), for launches on one to three axes and any
widths of the machine's integers, device limits, ranges, shapes of the group, sequences of uses and items masked off.

The ids: on each axis by itself, rounding up to whole groups leaves no point out
(`RoundUp` as a quotient: `Quotient`, `OneQuotient`), and the place of an item,
`group * size + item`, is that of no other (`PlaceIs`, `PlacesApart`). What `Verdict`
checks, with `Unwrapped`, bounds every sum and product on the way, so that nothing
wraps (`WrapNot`, `AxisIs`); `PointReached` and `PointsAre` are then the two directions
of `EveryPointOnce` (`PointsOnce`). For the linear ids, `LinearBelow` and
`LinearApart` say that a point of a box of sides `n` has a number below `Product(n)`
and no other point has it; `TransposeIs` and `TransposeRuns` that transposing keeps a
square launch in bounds. `IdsApart` (`IdsDistinct`) has a hypothesis on the device,
`IsaInfo.wgLen <= Max16 + 1`: the id of an item in its group is a `u16`, and the launch
compares the length of a group with the device's limit (`module/mod.rs:382`) but not
with that type. Every AMD device satisfies it, with groups of at most 1024 items; no
line of the code states it.

The LDS: none of the three properties is inductive. `Gate(u, k)` says that use `u` has
a barrier behind its stage `k`, and the invariant is

    GroupInv == GroupType /\ PcOK /\ Together /\ SlotsOK

- `Together`: items that have not ended have passed the same gates. A step that is not
  the barrier's passes no gate, and the barrier lets all that wait pass one together;
- `PcOK`: an item is only where the kind of its use brings it;
- `SlotsOK`: a slot has a value exactly while its item holds one there, or, for a
  `Singleton`, while the first item holds it.

So an item that looks at the values of others has all items in the same use, past its
first barrier and before its last (`SharedTogether`, `SingletonAlone`). Theorems:
`ReadsFindValues` (`ReadsLive`), `ValuesStay` (`NoClobber`, an action property),
`BarriersAgree` (`BarriersMatch`).

The signal: an answer is about a value the caller may no longer find, so the invariant
(`SignalInv`) relates both to the values since the call began.

- `HostOK`: until the call has returned the value is one of those seen, what the wait
  returned is too, and what was answered fits one of them (`AnswerOK`). Every operation
  adds the value it leaves (`StoreKeeps`), so a late answer stays true;
- `Began`, `Counted`: of a launch that counts its signal down, the value is the number
  of items whose operation is to come. It is finite (`RunningFinite`: the items of an
  accepted launch are) and each operation takes one from both, so that the value never
  wraps and zero means that none is to come, also when the caller saw zero earlier.

Theorem: `AnswersAreTrue` (`AnswersTrue`), for any operations and arguments, whatever
the bitwise operations compute, as long as they make words of words
(`SignalsAssumption`).

**Context** (`Context_proofs`), for any threads, devices and bounds, with sessions that
may take any of their steps. That at most one Context is ever made is part of the type
invariant (`ContextTypeOK`): `pool` is set once, and by the step that makes it. The
other parts:

- `HandlesOK`: a thread has a handle exactly past `Context::new`, and the global one once
  it has installed it, or found it;
- `PlacesOK`: an id is a place, taken in order; a place is empty or has the accelerator
  initialized under its id; an accelerator has a driver exactly when it is in the table;
- `MakingOK`: what is being made has no driver, and one thread makes it;
- `DriversOK`: an accelerator has the driver of its target and is in that driver's list
  (`HaveOK`), a driver lists each of its own once, and at least one (`ListOK`), and the
  translators name every driver, by its target (`NamesOK`).

`ListOK` keeps every driver alive, so the branch of `initialize_accel` that replaces a
dead driver is never taken and a target never gets a second one. That a device runs
what is compiled for the description it shares (`RunsItsOwn`) follows from what
`SameDesc` compares. Theorems: `OneContextEver` (`OneContext`), `RegistryFits`
(`RegistryAgrees`).

**Only model-checked.** All liveness properties: the prover has no rule for
fairness, nor for ENABLED. Of safety: `ArgumentsReady` of
`KernelSignals`, and `CratesResolve`, `UnitClosed`, `AttributesFit` and `StaticsPlaced`
of `Session`. `CrateMetadata`, `Collector`, `KernelSignals`, `Attributes` and
`SpirvTypes` follow recursive code with `RECURSIVE` operators, and `KernelSignals` uses
`Bitwise`; neither is within the prover's reach. What the recursive algorithms compute
would need induction over data besides, and is compared with reference definitions on
the processes of `SessionShared` and the argument types of `KernelItems`.

## 5. Where the code and its documentation disagree

`RingWedge` is the run for the disagreement that costs most: at
`hsa-rt/src/queue.rs:301` the index is reserved before the check for room and
not given back on `Full`; the processor stops at the hole for good, and packets
whose call returned `Ok` are never taken.

The modules hold further statements of the documentation that the code does not
keep. None is in a configuration; putting one there shows its trace:

| Statement | Code | What happens |
|---|---|---|
| `RingQueue!CompletionAsAsked` | `hsa-rt/src/queue.rs:359` | a barrier without completion keeps the completion signal of the packet before it in the slot; that signal is decremented twice (`module/mod.rs:333`, `signal/mod.rs:359` count on once) |
| `ModuleCompile!CompileReturns` | `runtime-core/src/context.rs:442` | `compile()` holds a lock while it waits for a pool whose workers may all block on that lock, or while its own worker takes up, in a parallel loop, a closure that wants it (`worker/mod.rs:342`: "we *MUST* drop the read lock before waiting on in progress codegen."), and the loops of a session do the same with the metadata lock; nothing ends that (`DeadlocksAreForGood`) |
| `ModuleCompile!ParamsApply` | `runtime-core/src/context.rs:429`, `codegen/mod.rs:67` | `define_param` after a compile changes nothing: modules are kept by accelerator alone and products by a key without parameters (`runtime-amd/src/module/mod.rs:214`: "it will be compiled again") |
| `ModuleStash!NoUseAfterFree` | `runtime-core/src/context.rs:482` | `upgrade()` may clone an `Arc` that `drop()` has just freed; without a `drop()` nothing is freed early (`OnlyDropEndangers`) |
| `Dispatch!ArgsNeverDroppedInFlight` | `runtime-amd/src/module/mod.rs:643` | the drop of an `InvocCompletion` panics so as not to drop the arguments; unwinding drops them |
| `Transfers!TransferImpliesDeps` | `runtime-amd/src/lib.rs:501` | a copy with an empty side completes before its dependencies (`mem.rs:167` says otherwise) |
| `LapAccess!OkMeansGranted` | `runtime-amd/src/alloc/lap_alloc.rs:205` | a second thread sees the bit between `SetBit` and `Grant` and returns `Ok` without access |
| `Workgroup!SingletonReadsLive` | `runtime-amd/src/lds.rs:229` | a `Singleton` is read without a barrier after the write |
| `KernelSignals!MarkedRuns` | `runtime-amd-macros/src/lib.rs:120` | the test `device_side_signals` marks its field `#[geobacter_amd(ignore)]`, the macro knows `ignore_dep`: the kernel waits for the signal it is to set |
| `Session!SessionsEnd` | `runtime-core/src/metadata.rs:407` | the inner parallel loop lets a worker take up a session that needs the lock it holds; the comment at 636 names that deadlock for the outer loop |

Observed while modelling, without a definition of their own:

- *Queues*: `new_multi_queue` (`queue.rs:249`) creates a SINGLE queue and hands it
  out as `Sync`. A soft queue of `QueueType::Multiple` rings out of order, and
  `process()` can be handed a slot that is not published.
- *Signals*: `wait_for_condition(None)` may return `Err` on a sporadic wake
  (`signal/mod.rs:342` says never); a timeout that does not fit in a `u64` of
  nanoseconds waits for ever; `wait_for_zero_timeout` answers `Err` for a timeout
  and for an error alike; silent stores do not wake waiters; `CompletionDep` caches
  that it waited (`deps.rs:528`).
- *Barriers*: `Deps::barrier` drops lifetimes; an error midway drops the completion
  while packets name it; nothing keeps a signal from being reset in place while a
  barrier packet for it is pending (doc at `signal/mod.rs:69`).
- *Copies*: a group whose right half fails waits, when its left half is dropped,
  for a signal that counts both; after the panic of a drop memory is freed while
  it is copied.
- *Access*: granting before there is an allocation leaves no trace, and
  `default_allowed` pools never set a bit (tests at `alloc/mod.rs:155`, `180`, and
  the comment at `lap_alloc.rs:40` expect otherwise); the shift of
  `accessible.rs:24` overflows at the 65th accelerator.
- *Dispatch*: a call that fails with `Full` after its barriers are in the ring gives
  the arguments back; dropping them frees signals the barriers still name. A stale
  completion leaves a signal at -1, and a barrier that waits for it waits for good.
  `set_release_fence` (`module/mod.rs:156`) assigns `begin_fence`.
- *Pool*: the arena is sized by the layout of the arguments while `alloc` aligns to
  128: a pool for `n` calls may be full before the `n`-th.
- *Grid*: ids wrap next to `u32::MAX`; the end of `a..=MAX` saturates; the global id
  uses `end` and not the length; `VectorParams::transpose` checks no bounds;
  `linear_len` multiplies unchecked.
- *LDS*: slots of masked-off items are exposed uninitialised; barriers do not match
  when one item never derefs; a fresh `lds!` borrow in a loop skips the barrier of
  `mark_used`.
- *Compilation*: a leader that panics leaves its wait group in the cache; its
  waiters and all later callers sleep. The loser of both exchanges in
  `get_cache_data` panics when two `drop()`s pass it by.
- *Context*: the loser of a race for `new` gets an error; after a Context without
  accelerators is dropped, `new` always fails, because the pool is there; a Context
  with an accelerator is never freed.
- *Targets*: the features of an AMD target are joined in the order of a `HashMap`
  (`runtime-amd/src/lib.rs:944`), so two equal GPUs may not share a driver;
  `is_spirv` tests for another triple than the Vulkan target has
  (`runtime-core/src/lib.rs:228`).
- *Attributes*: each platform knows its own name only, so a condition that names
  the other one is an error and fails the session; a part of `any` or `all` that
  does not parse is dropped from it; a `platform` with a value that is not a string
  panics.
- *Sessions*: `is_root` compares functions, so other instances of a generic kernel
  get the ABI of kernels; the root is collected unstubbed; foreign statics are
  collected.
- *Search paths*: what follows an empty piece (`$$ORIGIN`, a `$` at the end) is
  dropped; libraries that are links are passed over.
- *Vulkan*: `LangItems::get_item` has no `SpirvBuiltin`, so its decoration is never
  made; a transparent wrapper is taken for its field 0, be it of size zero; layouts
  with padded indices are `unimplemented!`; `compile_shader_testing` builds shaders
  without the interface that `input()` and `output()` unwrap (`module.rs:29`);
  `num_bindings_in_set` answers `None` for an empty set. `VkAccel::new` takes an id
  before it looks at the features.

## 6. What is not modelled

- Bindings to HSA and comgr, images and textures: each call is one call of the
  vendor's library with a handle and an error code.
- `serde_utils.rs`: copies of rustc's configuration types with derived encoders.
- `runtime-nv` (a stub), the toolchain builder, tools, examples.
- `boxed.rs`, raw allocations of a device without access rights to keep.
- rustc, LLVM, the linker, the object file parsers and decompression: they
  succeed or fail.
- Of `runtime-vk`: `load_kernel` and the conversions of descriptor types.

Abstracted in what is modelled: packet contents other than type, owner and
completion; fences and weak memory (every step is sequentially consistent; the
orders the code asks for are acquire and release pairs around the steps the
modules keep apart); layouts of the compiler's own types; `RejectDims` stands for
every zero dimension. In `Session` the queries that answer a constant are left
out, and the unit is computed in one step, because nothing it depends on changes
while the session holds its locks.

## 7. Plan

What is modelled is what the code has in the way of shared state and of
algorithms, and what is proved is the safety of all of it that does not rest on a
recursive definition. What is left:

1. `Collector`, `CrateMetadata`, `Attributes` and `SpirvTypes` as recursive functions,
   so that at least lemmas about single steps of them can be proved.
2. The conversions of descriptor types of `runtime-vk`.
