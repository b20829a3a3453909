# InfiniOps: a TLA+ model

This directory holds TLA+ specifications of InfiniOps, their TLC
configurations, and proofs checked by TLAPS. Paths below are relative to the
repository root. `PROJECT.json` maps every definition to the lines it models.

    tlc -workers 2 -config SchedulerSafety.cfg MCScheduler
    tlapm SchedulerProofs.tla

## 1. Inventory

InfiniOps is a C++ operator library (CPU, CUDA-family, Cambricon, Ascend and
torch backends behind one dispatcher) with Python bindings, and, in `.ci/`, a
self-hosted CI: an agent per machine that runs test jobs in containers on the
machine's GPUs.

| component | state | operations | hard behaviour | what makes it correct |
|---|---|---|---|---|
| `Scheduler` (`.ci/agent.py`) | queue, `_jobs`, thread pool, `_lock`, `_done_event` | `submit`, `_try_schedule`, `_run_job`, `wait_all`, readers | submitters and workers scan concurrently; exceptions in the middle of a scan or a job; timeouts | no job is lost, run twice or left queued; results are final; waiters are woken |
| `ResourcePool` (`.ci/ci_resource.py`) | `_allocated`, `_lock` | `allocate`, `release`, probes | the probe is outside the lock, so it is stale when used | no device in two jobs, none leaked |
| `github_status.py` | the status shown per commit and context | `post_commit_status` | posts get lost or raise | the last status is how a job ended |
| HTTP server and webhooks (`agent.py`) | none but the scheduler's | `/webhook`, `/api/run`, `/api/job` | duplicate deliveries, a batch accepted in part | a rejected dispatch leaves no job behind |
| remote dispatch (`agent.py cmd_run`) | job ids per remote, results | dispatch, poll, fetch log | timeout after acceptance, lost replies, restarted agents | no job is counted as passed that did not pass; the command ends |
| `WorkspacePool` (`src/native/ascend/workspace_pool_.h`) | arenas per (stream, slot), thread-local caches, `capturing_` | `Ensure`, `set_capture_mode`, destructor | device kernels run later than the host code; growth frees memory; graph capture | no kernel uses freed or foreign scratch memory; captured graphs stay valid; nothing leaks |
| `Operator::Call` (`src/operator.h`) | thread-local cache of operator objects, a global generation | `Call`, `Make`, `clear_cache` | keyed by geometry, reused with other addresses | a cached operator computes on the current call's operands |
| `AclTensorCache` and executors (`src/native/ascend/common.h`, `ops/*/kernel.h`) | descriptor, repeatable executor | `get`, `release`, `destroy`, the operators' refresh steps | ownership shared with the runtime | no stale address, no double destroy |
| `Tensor` (`src/tensor.{h,cc}`) | shape, strides | layout predicates, hashing, equality | broadcast, size-1 and zero-size dimensions | predicates agree with their definition |
| base operators (`src/base`) | shapes and strides copied by constructors | asserts | none | what they accept is what the kernels need |
| CPU kernels (`src/native/cpu`) | none | loops over strided tensors | index arithmetic, masks, aliasing | every output element is computed from the inputs its operator names |
| CUDA-family kernels (`src/native/cuda`) | shared memory within a launch | blocks of threads, BLAS | barriers, partial blocks, column-major BLAS | the same, and no races |
| custom AscendC kernels (`src/native/ascend/custom`) and their launchers | queues of buffers on a core | copy in, compute, copy out | three asynchronous units, tiling over cores, padding | the same; buffers fit a core's memory |
| Cambricon and torch kernels | none | numeric loops, `at::` calls | on-chip tiling | agreement with torch |
| `run.py`, `build.py`, wrapper generator, examples, tests | none | command lines, files | none | — |

How they interact. Submitters (the HTTP threads, or `cmd_run`) and workers call
`_try_schedule`, which calls the pool under the scheduler lock; the pool has its
own lock, which `release` takes alone. A worker owns one container and reports
to GitHub. In the library, a binding calls `Operator::Call`, which finds or makes
an operator object in a thread-local cache and calls it with a stream; an Ascend
operator asks the workspace pool for arenas and launches kernels on the stream.

## 2. Modules

| module | models | checked by | proved |
|---|---|---|---|
| `ResourcePool`, `Scheduler` | the agent's pool and scheduler | `Scheduler*` runs | `SchedulerProofs` |
| `GpuLease`, `JobRegistry` | what they promise about devices and about jobs (abstract) | as properties of `SchedulerSafety` | refinements in `SchedulerProofs` |
| `RemoteDispatch` | `cmd_run`, the agents' HTTP handlers, network and restarts | `RemoteDispatch` | `RemoteDispatchProofs` |
| `WorkspacePool` | arenas, streams, capture | `WorkspacePool` | `WorkspacePoolProofs` |
| `AscendKernels`, `CachedExecutors` | every Ascend operator's launches; executors of one cached object | `CachedExecutors` | `CachedExecutorsProofs` |
| `OperatorCache` | `Operator::Call`, `clear_cache`, and the buffers that cached operators keep | `OperatorCache`, `TableSwap` | `OperatorCacheProofs` |
| `TensorLayout`, `BaseOperators` | layout predicates; what constructors accept and derive | under the next three | `TensorLayoutProofs` (layouts) |
| `CpuKernels`, `CudaKernels`, `AscendCustom` | what the work items of a launch read and write, and in which order | `Kernels`, `KernelsDtype` | `KernelLaunchProofs` (CUDA kernels but gemm; CPU kernels but gemm, linear, cat and the sampler), `AscendCustomProofs` (the library's custom norms) |
| `RowTiling` | how rows are split over cores, padded and buffered | under `AscendCustom` | `AscendCustomProofs` |
| `KernelProgram`, `KernelLaunch`, `OperatorResults` | the vocabulary of launches; one launch running; what each operator's output depends on (reference) | `Kernels` | `KernelLaunchProofs` (any program) |

`MC...` modules hold the instances. Order of work: the CI first, because it has the
real concurrency and failures and a mistake there makes every test result
doubtful; then the pool, the cached operators and the kernels; then remote
dispatch on top of the scheduler's promise.

Left of the plan: the conditions of `KernelLaunchProofs` for gemm, CPU linear, cat and
sampler, and the torch launchers; the attention operators' base classes; the Cambricon kernels.

## 3. The scheduler

`ResourcePool` models `allocate` as two actions, because the probe runs without
the lock: `Detect` stores a reading (which devices were reported, how loaded, how
much memory), and `Grant` or `Refuse` decide with the reading and the devices
handed out *now*. `Selections` says which devices a stable sort by utilization may
pick, without the sort. A request for no device skips the device probe.

`Scheduler` has three kinds of threads; `pc[t]` names the next step of each.

| actions | code |
|---|---|
| `Submit`, `SubmitRejected` | `submit` 175-196 |
| `BeginScan`, `ProbeFor`, `Place`, `Defer`, `EndScan`, `ScanRaises` | `_try_schedule` 273-297, under `_lock`, one request per round |
| `Launch` | `_try_schedule` 299-301, after the lock |
| `PickUp` … `PostFinal` | `_run_job` 303-418 |
| `HandleException` | `_run_job` 419-443; entered from a post, from `StartFails`, `ReadFails`, or a log that cannot be written |
| `ReleaseGpus`, `Finish`, `Signal` | the `finally` clause 444-456, three separate steps |
| `CheckPending`, `Wake` | `wait_all` 248-264; `Wake` stands for the event and for its two-second timeout |
| `ContainerCloses`, `ContainerExits` | the docker client (external) |

`lock` is the thread in the middle of a scan; the other critical sections are
single actions guarded by `lock = None`. `_jobs` is split into `jobState`, `jobGpus`
and `jobResult`. A result is reduced to its state. `status[c]` is what GitHub shows
for a commit and context; the jobs `j1` and `j2` of the instances have the same one,
as happens when a commit is delivered twice.

A container computes on `ContainerGpus(j)`: the devices of its lease, or, for a job
configured with `gpu_ids: all` (`UsesAll`), all of them. Such a job parses to a need of 0
(`ci_resource.py:509`), so it reserves nothing, and `run.py:243-248` starts it with
`--gpus all`. `ClientRuns(j)` says that a docker client runs, `Watched(j)` that a worker
reads its output or waits for it.

Dry-run mode and `no_status` are left out: they only skip steps.

`GpuLease` says what the agent promises about devices, with no threads: a job
acquires devices nobody holds, once, and returns all of them, once.
`Scheduler!ImplementsLeases` is the refinement. The mapping puts the acquisition at
`Place` (not at the start of the container) and the return at `ReleaseGpus` (before
the job's state changes), which is why it looks at `pc` as well as at `jobState`.

`JobRegistry` says what clients see through `GET /api/job/{id}`: a job is new, then
rejected or queued, running, and ends once. It is the part of the scheduler that
`RemoteDispatch` builds on; `Scheduler!ImplementsRegistry` is the refinement, with
`Signal` and the failures of a worker in between as stutters.

### Runs

The bounds: two devices, two workers, one submitter, up to four jobs: `j1` and `j2` need one
device, `j3` both, `j4` does not parse and `j5` uses all. Two jobs already compete for a device,
the third has to be passed over and come back, and two workers release in the middle of each
other's scans. The queue limit is two or three, so that `SubmitRejected` fires
with the queue full. Workers and devices are interchangeable (`MCSymmetry`), and `j1` and `j2`
where both take part (`MCSymmetryTwins`); the run for liveness uses no symmetry. Utilization and memory have two levels each (free or not,
enough or not): the code only compares them with a threshold and each other.

| run | instance | result |
|---|---|---|
| `SchedulerSafety` | `j1`, `j3`, `j4`; probes return anything, a docker client may close its output early, output may fail to be copied, every post is lost or raises | `TypeOK`, `PoolExact`, `ContainersDisjoint`, `ImplementsLeases`, `ImplementsRegistry` |
| `SchedulerQuiet` | `j1`, `j2`, `j3`, `j5`; nobody else loads the devices, posts arrive, no output error | `ContainersDisjoint`, `NoJobLost`, `NoStrandedJob`, `StatusSettles`, `ResultIsFinal` |
| `SchedulerLive` | as quiet, but posts get lost; two jobs, a waiter, fairness | `WaitAllSound`, `EveryJobFinishes`, `WaitAllReturns` |
| `SchedulerStuck` | fair threads, a container that never ends | violates `FallbackTimeout` |
| `SchedulerMalformed` | one job whose memory does not parse | violates `NoJobLost` |

`CHECK_DEADLOCK FALSE`: the agent rests when all jobs are done.

`NoStrandedJob` and the liveness properties are checked without external load,
and without containers left behind, on purpose: the code looks at the queue only when a job is
submitted or ends, so a device that somebody else loads and later leaves wakes
nobody up.

Two things happen to devices under a running container, and the properties say both instead
of excluding them. A job with `gpu_ids: all` meets whoever else runs. And when copying a
container's output raises (line 364 to 368), or the fallback timeout kills the client, the
`finally` clause returns the devices although the container may go on computing.
`ContainersDisjoint` names these as the only ways in which two containers come to use a common
device: one of them is `UsesAll`, or no worker watches it any more. `PoolExact` says that
the pool's books agree with the jobs' leases whatever raises, and that a device is not given back
while a worker watches the container on it. Clients killed by the fallback timeout do not count
as running; what the docker daemon does with their containers is outside the repository.

Fairness (`ThreadFairness`): weak fairness of every thread's steps, which is what
an operating system and Python locks give. A thread that waits for `lock` is only
delayed by scans, and each scan is finite. Nothing makes anyone submit.
`TerminatingSpec` adds that containers end; `SchedulerStuck` shows what happens
without that.

### Disagreements with the documentation

* `.ci/README.md:285` promises a fallback timeout "to prevent stuck containers".
  The code reads the container's output to its end before it starts to wait
  (`agent.py:365` before `:377`), so a container that hangs with its output open
  is never timed out (`SchedulerStuck`).
* `.ci/README.md:284` and the warning at `ci_resource.py:562` promise that jobs stay
  queued and that bad memory values count as 0. `float("...")` for a value such as
  `12xgb` raises inside the scan, and everything the scan had popped is
  gone (`SchedulerMalformed`).
* `.ci/README.md:290-291` describes `success`/`failure` as the final statuses. If
  the final post raises, the except branch posts `error` for a job that succeeded
  (in the model: `PostFinal` raises and `HandleException` posts, both on a job whose
  `jobResult` is "success"; no run of its own).

### Proofs (`SchedulerProofs`)

For all values of the constants allowed by the three assumptions of `Scheduler`
and the two of `ResourcePool` (threads are disjoint sets, jobs and devices finite,
needs natural numbers):

| theorem | states |
|---|---|
| `TypeCorrect` | `TypeOK` |
| `PoolBooksExact` | `PoolExact` |
| `LeasesImplemented` | `ImplementsLeases` |
| `ContainersNeverShare` | `ContainersDisjoint` |
| `ClientsAreWatched` | every client that runs is watched, assuming `~OutputFails` |
| `RegistryImplemented` | `ImplementsRegistry` |
| `ResultsAreFinal` | `ResultIsFinal` |
| `WaitAllIsSound` | `WaitAllSound` |
| `NoRequestDropped` | `NoJobLost`, assuming `Malformed = {}` |
| `NoRequestStranded` | `NoStrandedJob`, assuming `Servable` |
| `StatusesSettle` | `StatusSettles`, assuming `PostOutcomes = {"delivered"}` |

`Servable` says that requirements parse, that
nobody else loads the devices, that clients neither end their output early nor lose
it, and that each job alone would fit the machine. TLC finds `NoStrandedJob` violated
when any one of these is dropped, and `SchedulerMalformed` shows it for `NoJobLost`.

The inductive invariant of the first seven is `IInv == Placed /\ LeasesExact`.

* `Typed` is `TypeOK` and `ControlOK`, which ties local variables to `pc`: a worker
  inside `_run_job` has a request, a worker past the `except` clause has a result, a
  thread in the middle of a scan is the lock's holder, an `allocate` in progress has
  a reading and a request at the head of the queue.
* `QueuePlaces` and `RunPlaces` say that a request is in one place: once in the
  queue or in `remaining`, or once in one thread's `to_launch`, the thread pool's queue
  or one worker, according to its state. Without it one could not exclude that a
  worker releases devices that a second call for the same job still uses.
* `LeasesExact` is `LeasesAllocated`, the books of `PoolExact`, and disjointness of the
  leases. The books alone are not inductive: a release would also remove the devices of an overlapping lease.

`LeaseStep` classifies every step: it leaves all leases alone, takes one, or gives
one back. From it follow both the invariant and the refinement. `PublishStep` does the same for
job states and results: `RegistryImplemented`, `ResultsAreFinal` and `WaitAllIsSound` rest on it.
A watched container's job holds its lease (`WatchedHolds`), which gives `ContainersNeverShare` for
any fault; `ClientsAreWatched` adds `Supervised` (a running client has a worker in `read` or `wait`),
so without output errors `ContainersNeverShare` excuses only `gpu_ids: all`. `ResultsAreFinal` and `WaitAllIsSound` add `Published`: a final state comes
with its result.

`NoRequestDropped` adds `ScanLists` (`KeepsJobs`): `remaining` is empty outside a scan, and a thread
keeps `toLaunch` only until it has handed out its last job. So what `EndScan`
and `Launch` overwrite is empty.

`NoRequestStranded` adds `WakeupOwed`: a request is passed over only while somebody will scan
afterwards (`Others`): the scan itself has jobs to start, one waits for a worker, or
another thread is not idle. A scan that nobody follows sees every device free and
idle and grants each request that fits the machine; this is where `Servable` is used. A
worker's last step is the scan after its release, so the promise is handed
on until the queue is empty.

`StatusesSettle` rests on `StatusTrue`: a context shows "pending" only while a worker on it will
post again, and otherwise the verdict on one of its jobs. Jobs may share a context, so
it is the last writer's verdict, not each job's.

Only model-checked: the liveness properties (fairness is out of the prover's reach).

## 4. The workspace pool

`WorkspacePool` models `Ensure` in the steps other threads and the device can
see: the fast path (thread-local cache, capacity read without the mutex), the
assertion on `capturing_`, the arena mutex, synchronise, free, allocate, store.
Device addresses are values that the allocator may hand out again as soon as
they are freed, so a dangling pointer can point into somebody else's buffer.

An operator call is a program of steps `[slot, need, uses]`: ask for `need` bytes of
`slot`, then launch a kernel that uses the buffers of the steps `uses`. The shape of
these programs is that of `ops/*/kernel.h`: `rms_norm` asks for `temp` and then for a
workspace, `swiglu` (fused, non-contiguous output) for `temp`, a workspace,
`staging` and two more workspaces. `ProgramsRederive` is what all of them obey: no
kernel uses the buffer of a slot that was asked for again in between. Kernels wait
in their stream and run later, or are recorded in `graph` while the stream is
captured.

Assumed of callers: one thread at a time issues calls on a stream. The Python
bindings hold the interpreter lock during a call; the pool does nothing to
support more (an arena is returned by reference after its mutex is released).
Also assumed: a captured stream cannot be synchronised (the call fails and the
code ignores it), so a capture without warmup in a build without assertions is
unsupported; `KernelsSafe` excludes it by `Supported`.

When `aclrtMalloc` fails, assertions abort the process. The default build of `pip install` is
a release build, which defines `NDEBUG`: there `Ensure` goes on, stores the new
capacity for the address it has just freed (or for what the failed call wrote), caches the
arena and returns it (`workspace_pool_.h:85-99`). The model goes on as well
(`failed`, a history variable, and up to `MaxSince` further calls). From then on the arena has a
capacity and no memory, and its next growth frees an address that the allocator may have given to
another arena: the books are wrong and kernels use foreign memory, which the code neither checks
nor denies. So `KernelsSafe`, `GraphReplayable` and the exactness in
`BooksExact` are claimed until such a failure (`Sound`); that nothing leaks and that an orderly exit
leaves nothing is claimed, and proved, also after it.

| run | instance | result |
|---|---|---|
| `WorkspacePool` | two threads, two streams, two slots, three addresses, a cache of one entry, one waiting kernel per stream, with and without assertions, allocations that fail at any time and one more call after that | `TypeOK`, `KernelsSafe`, `BooksExact`, `GraphReplayable`, `NoAllocationInCapture` |

The bounds: the smallest cache makes evictions happen at once, the two operators
make one arena grow, three addresses are fewer than the four arenas need, so
addresses are reused and `MallocFails` covers the rest (allocation may fail at any
time). `MaxPending` bounds the kernels in a stream; launching waits when it is
reached. One call after an unnoticed failure (`MaxSince`) suffices for a growth that frees
another arena's address. `CHECK_DEADLOCK FALSE`: the process stops when it aborts or exits.

A disagreement with a comment: `workspace_pool_.h:58-60` says that a capture is safe once "all
operators run at least once during eager warmup". Each return from the slow path
inserts an entry, also when the same arena is already cached, so a workspace that
grows twice within a call pushes `temp` out of the four entries, and the capture that
follows takes the slow path and trips the assertion. (Seen with `CacheSize = 4`, one
thread, and `swiglu` as a program of five steps; with the one entry of the `WorkspacePool`
run the capture aborts all the time, which `NoAllocationInCapture` is about.)

### Proofs (`WorkspacePoolProofs`)

For any threads, streams, slots, addresses, operators, cache size and `MaxPending`, from
the three assumptions of the module (in particular `ProgramsRederive`) and the exclusion
of calls on one stream that `BeginCall` states:

| theorem | states |
|---|---|
| `TypeCorrect` | `TypeOK` |
| `KernelsFindTheirBuffers` | `KernelsSafe` (until an allocation fails unnoticed) |
| `NothingLeaks` | `BooksExact` (exactness until then, no leak always) |
| `GraphsStayReplayable` | `GraphReplayable` (until then) |
| `CapturesDoNotAllocate` | `NoAllocationInCapture` |

None of these is inductive: they say nothing of an arena that is being replaced, of the
copies of buffers that a call carries, or of why a stream is empty when a buffer is freed.
`Inv` adds that. `Bytes(k)` is what the buffer of arena `k` has at any moment: its capacity,
nothing between the free and the malloc, the new size until it is stored. Only `FreeBuffer`
and `Malloc` change it, so `Books` (the exactness of `BooksExact` over `Bytes`) has two cases.
`Unleaked` is apart, for it outlasts a failure: an arena forgets an address only after freeing it,
so memory always belongs to the arena that asked for it last. `Locks` says that calls
under way are on different streams, that the mutex is held by the thread that says so,
and that an arena is replaced only by a larger one. Capacities never shrink, so
`Served` (what a call, or an operator that ran on a stream, once obtained suffices from
then on) persists, and it is why a warmed-up stream never frees again. `CopiesCurrent` says
that a call's copy of a buffer is its arena's until a step asks for the same slot again;
with `ProgramsRederive` a launched kernel uses only current ones (`KernelKept`). `Waited`:
when a buffer is about to be freed its stream is empty, unless the stream is captured,
which `Captures` excludes when the capture was warmed up or the assertion is compiled in.

## 5. Cached operators

### The operators as data (`AscendKernels`)

Each Ascend operator variant (`ops/*/kernel*.h`) is the sequence of launches of one
call. A launch names its operands: the caller's tensors, arenas of the workspace
pool (`Pooled`), or device buffers of the object (`Owned`). `PerCall` is a launch
whose executor is made anew in each call or that takes raw pointers; `Repeatable`
keeps its executor and refreshes the inputs `setIn` and outputs `setOut` with
`aclSetInputTensorAddr` and `aclSetOutputTensorAddr`; `OfList` (`cat`, the fused
`swiglu`) has its inputs in a tensor list, which has no such setter; `InPlace` writes
inputs. The attributes that a constructor fixes make separate kernels. Shapes,
tiling and values are left out.

### One object (`CachedExecutors`)

An object found by geometry is called with other tensors (two addresses each), on
another of two streams, after an arena moved (`MoveArena`), or is made anew
(`Recreate`). `bound` holds the addresses its executors would use, `wanted` those of
the latest call. What an executor does when it is used again is the runtime's business and not
in this repository; the model takes the runtime that the operators' comments describe, one and
the same for all of them. An executor uses the address that was set last
(`aclSetInputTensorAddr`, `aclSetOutputTensorAddr`). It follows the descriptors in a tensor
list, which `AclTensorCache::get` updates in every call (`cat/kernel.h:77-80`). Of an operation in
place it takes a new input, never a new output (`reshape_and_cache/kernel.h:74-76`). What nothing
sets keeps the first call's address.

| run | instance | result |
|---|---|---|
| `CachedExecutors` | all variants | `TypeOK`, `BindingsCurrent` |

`BindingsCurrent` says that every launch reads the operands of its own call and writes to them,
with two exceptions that the code does not provide for. Nothing is claimed of where a cached
operation *in place* writes (`l.inplace`): `silu_and_mul` and `swiglu` on strided operands,
`rotary_embedding` and `topk_topp_sampling`'s fill cache such executors. And nothing is claimed of
`causal_softmax` (`LeftToRuntime`), whose masking and last executor set neither the arena they work on nor the one
they read, so that after the `temp` arena moved they use the old one. By the comment in
`reshape_and_cache`, which for that reason makes its in-place executors anew in every
call, these operators write to the buffers of an earlier call; either they do or the comment
is wrong, which only the runtime can tell. Two addresses, two streams and one move are enough, because
a binding depends on the first call and the latest.

`CachedExecutorsProofs` proves `BindingsAlwaysCurrent`: `BindingsCurrent` for any streams,
addresses and moves, with no hypothesis. `TableCovers` goes through the launches of every operator
and finds that each operand is set, follows by its list, or is a buffer of the object (`Covers`).
`BindingsCurrent` is not inductive, since it says nothing of executors that the
latest call skipped or that the next one will use again. The invariant adds
`BoundOnce`: every executor holds the right addresses of the object's own buffers. A
refresh repairs all other operands (`RefreshedIsCurrent`). `TypeCorrect` is proved there too.

### The cache (`OperatorCache`)

`OperatorCache` models `Operator::Call`: the flush when `clear_cache` bumped the
generation, `CacheKey` (geometry and a hash of the scalars), find or make, and then
`operator()` of three operators that fill a device buffer of their own and
differ in when they do it: on the stream in every call (`rms_norm`), on the stream if
the weight's address changed (`add_rms_norm`), from the host, at once, if the
table's address changed (`rotary_embedding`). Caches are thread-local. The stream comes with the
handle of each call (`operator.h:229-236`) and is not part of the key, so one object and its one
buffer serve calls on any streams, and a stream takes calls of any thread; casts and
kernels run later, in order within their stream only. A call is one step (no binding releases the GIL).
Scalars may have equal hashes, tables change in place whenever no waiting kernel reads them, and
calls may come in any order on any streams: the model excludes none of it.

What then holds is that caching is invisible, to the calls it can be invisible to.
`Computed(e)` is what a kernel computes from as it runs, `Answer(c)` what an operator made
for the call alone would. `CachingInvisible` says they agree for every call that is `Owed` it:

* The object was used by `KeepsRules` up to then: while a cast waits on a stream, no call of the
  object waits on another; a `rotary_embedding` object is not used on two streams at once (its calls share the gathered rows, too), nor
  with another table while calls wait. The code checks none of this. Nothing orders a
  kernel of a second stream behind the cast (`add_rms_norm/kernel_custom.h:107` skips its own when the
  address is remembered), so TLC finds `CachingInvisible` violated without the first rule, and
  `TableSwap` is what happens without the last.
* An operator that remembers the table's address has not had the table changed in place since `clear_cache`
  (`add_rms_norm/kernel_custom.h:101` "Model weights are fixed after loading",
  `tests/conftest.py:48-57`).
* `rotary_embedding`, which keeps scalars, was called with one whose hash no other scalar in use has
  (`operator.h:83` compares only hashes).

Nothing is owed to other calls, but they go on and must do no harm to those that are owed. `kept`
in an object is a history variable. `NextModule` is `tests/conftest.py`: everything has
run before `clear_cache` is called.

| run | instance | result |
|---|---|---|
| `OperatorCache` | one thread, two streams, two tables, three scalars of which two share a hash, three waiting calls, one change per table, `clear_cache` once | `TypeOK`, `PendingObjectsAlive`, `CachingInvisible` |
| `TableSwap` | `rotary_embedding` on one stream, two tables | violates `KernelsReadOwnTable` |

The bounds: two streams and three calls are enough for a cast and two kernels that it should precede
in every arrangement; with two tables one call changes what another has yet to read; one `clear_cache` leaves the
thread with an old cache. One thread is enough for the run: caches are thread-local, so
threads meet only in the streams' queues, where two keys of one thread put objects behind each other
as two threads would; the proofs are for any number. Tables and streams are interchangeable
(`Interchangeable`).

The finding: `rotary_embedding/kernel.h:176-179` supports calls with different
`cos_sin_cache` tensors on one object. The upload is a blocking `aclrtMemcpy`, which
is not ordered with the stream (as documented of the runtime, external), so it
replaces the tables under the gathers of earlier calls that still wait.

### Proofs (`OperatorCacheProofs`)

For any threads, shapes, scalars, tables, operators and bounds:

| theorem | states |
|---|---|
| `TypeCorrect` | `TypeOK` |
| `ObjectsOutliveTheirKernels` | `PendingObjectsAlive` |
| `OwedCallsAreAnswered` | `CachingInvisible` |

No theorem has a hypothesis; the named assumptions of the module are used: that the
operators are the three modelled (`KnownOperators`), and that `None` is no object
(`NoneIsNothing`).

`CacheInv` is `TypeOK` and `Launched`: a kernel that waits belongs to an object its thread's cache
still has, under the key of its own call. `clear_cache` keeps it, because it is
called only when everything has run, and a thread that has not noticed yet has no waiting
call. Buffers need more, because what a kernel will find is decided by the casts
before it. `BufferInv` says it of one object whose callers kept the rules so far, over the calls
that wait for it on any stream (`On`): a cast waits on the only stream that has calls of the object (`OneStream`); a call
with no cast up to it finds its table in the buffer (`Ready`); calls with no cast between them have
one table (`Chained`); and what the object remembers is the table of the calls after the last
cast, or, when no cast waits, of the buffer (`Remembered`, `Filled`). A call on an object that broke a rule before adds nothing
to prove, and one on another object changes neither buffer nor memory.

`CHECK_DEADLOCK FALSE` is not needed in these runs: there is always another call to
make, or a kernel to run.

## 6. Kernels

### What is modelled

A launch of a kernel is a set of work items over memory cells (`KernelProgram`). An item is
what runs without synchronisation: an iteration of an OpenMP loop, a step of a
serial loop, what a CUDA thread does between two barriers, one copy or one vector
computation of an Ascend core. It reads cells, writes cells, and comes `after` the items
that the code's synchronisation puts before it. Numbers are abstracted to where
they come from: a cell holds the set of input elements its value was computed
from. `KernelLaunch` runs the items of one launch in every order.

| module | code | items |
|---|---|---|
| `TensorLayout` | `tensor.cc`, `common/generic_utils.h` | sizes, strides, `IsContiguous`, `HasBroadcastDim`, `IndexToOffset` |
| `BaseOperators` | constructors of `src/base` | which launches exist, and the attributes kernels use |
| `CpuKernels` | `native/cpu/ops/*/*.h`, all eleven operators | loop iterations |
| `CudaKernels` | `native/cuda/ops`, all five operators | threads between `__syncthreads`; entries of a BLAS product |
| `AscendCustom`, `RowTiling` | `native/ascend/custom`, `ops/{rms_norm,add_rms_norm}/kernel_custom.h` | per core and row: copy in, compute, copy out; the launchers' padding and casts |
| `OperatorResults` | the operators' definitions | reference: the inputs each output element is a function of |

The address arithmetic is that of the code (`IndexToOffset`, leading dimensions, row
strides, thread indices modulo `UIntRange`, block rows); the reference speaks of
indices only. So `ResultsComplete` compares two independent descriptions. Temporary
and shared variables are cells too, which is how a missing barrier shows.

The weights of a sampler's row are small integers in place of exponentials of
logits: the code uses their order and their ratios only. An item of the sampler
draws any token `SampleRow` may return, with ties sorted either way.

External: `cub::BlockReduce`, BLAS (C = op(A) op(B) + beta C on column-major
matrices), the TQue primitives of AscendC (`DeQue` waits for the `EnQue` of its row,
`AllocTensor` for the `FreeTensor` of the row that had the buffer before), torch's
`constant_pad_nd`, `narrow` and `to`.

### Runs

| run | instance | result |
|---|---|---|
| `Kernels` | 517 launches | `TypeOK`, `InBounds`, `NoRace`, `ResultsComplete`, `ScheduleIndependent` |
| `KernelsDtype` | the torch launcher on half precision | violates `KernelUsesTensorDtype` |

The launches cover, for each operator: dense, transposed, row-padded and broadcast
layouts and size-one dimensions with foreign strides; outputs that are the inputs;
two and three dimensions; fewer queries than keys up to as many; all combinations
of transpose flags and storage orders with three different sizes m, n, k;
`beta` zero or not; top-k from 0 to beyond the vocabulary and top-p 0, below and at
1, with tied weights; blocks smaller than, equal to and larger than a row or a tensor; rows that split
evenly over cores or not, fewer rows than cores, rows that need padding. Sizes
are two to four: the arithmetic is linear in sizes and strides, and one boundary of
each kind (partial block, masked column, padded row, reused buffer) is inside.
`BlockBytes = 8` stands for the 32 bytes of a DMA block so that rows of two to four
elements need padding or not.

`ScheduleIndependent` looks at the program, not at the state: at the end of each launch TLC works out which items precede
which (`OrderedBy`), that no item leaves its memory (`Confined`), and bounds on what each item
writes (`Computes`). They are the hypotheses of the theorems below, so what those
conclude of any schedule does not depend on TLC having visited it. The assumption
`LibraryLaunchesCovered` has TLC check that the instance's launches of the library's custom norms
are those `CustomNormsComputeTheirRows` is about; `CudaLaunchesCovered` has it check the same of the
CUDA launches, but for gemm, and `CudaLaunchesComputeTheirResults`; and `CpuLaunchesCovered` of the
CPU launches, but for gemm, linear, cat and the sampler, and `CpuLaunchesComputeTheirResults`.

`CHECK_DEADLOCK` is on: a launch whose items wait for each other would stop.

The passing run has the torch launcher on float32 only. On half precision
`KernelsDtype` shows what it does: `op_host/rms_norm.cpp:95` passes the size of an
element as the dtype code, the entry point (`op_kernel/rms_norm.cpp:204-207`) expects the
value of `DataType`, and 2 selects the float kernel.

Assumed, and where it bites: launches whose constructors accept them. Debug asserts
are taken as guards. `HasBroadcastDim` (`tensor.cc:74-79`) counts dimensions only while
they differ from 1, so shape (1, 2) with strides (0, 0) passes the assert of `Add`
("the output of `Add` should NOT have broadcasted dim!", `base/add.h:30`); such an output makes
two iterations write one element. The operator is modelled with its counter; the
instances have no such output. Nor have they empty tensors (the CUDA and Ascend
launchers divide by zero, `add/kernel.h:72`, `kernel_custom.h:121`), size-one dimensions in
`BlasGemm` (whose leading dimension may be smaller than BLAS requires), several
non-contiguous batch dimensions in CPU `linear` (it steps all with the last batch
stride, `linear.h:64`), non-dense inputs of `cat` and of the library's custom launchers, which
read no strides, or rows with inner strides in `rms_norm`.

### Proofs (`TensorLayoutProofs`, `KernelLaunchProofs`, `AscendCustomProofs`)

`TensorLayoutProofs`, for tensors with any number of dimensions, any positive sizes and any strides:

| theorem | states |
|---|---|
| `IndicesCountedOnce` | the divisions and remainders of `IndexToOffset` name each index of a shape at exactly one position |
| `ElementCell` | the address a kernel computes for a position (directly, if `IsContiguous`; else by `IndexToOffset`) is the one the strides give its index |
| `DenseElements` | in a contiguous tensor a position is a place in the buffer, and no elements overlap |

`Product`, `IndexToOffset` and `IsContiguous` are folds over the dimensions. The library defines a fold
as *the* function that satisfies an equation, so nothing about one can be said before that function
is known to exist and to be unique. Both are shown by induction, and because the library's induction theorems take
an operator, which no installed prover can instantiate, the induction is by the least
counterexample: `LeastNatural` (from the well-foundedness of `<` on the naturals) gives `UpTo` and `DownFrom`,
induction along an interval as a statement about a set; `FoldExists` and `FoldSteps` give each fold
its partial results. What remains is arithmetic of quotients: dividing by the last sizes of a shape, one after
the other, is dividing by their product (`Leading`).

`AscendCustomProofs`, for every number of rows and cores: `EveryRowTaken` and `NoRowTakenTwice` (the cores
partition the rows), `CoresStayInside`, `PaddingExact`; for every dimension the torch
launchers accept and both element sizes, `RmsNormBuffersFit` and `AddRmsNormBuffersFit`:
what a core allocates fits its unified buffer, although the check's coefficients (20, 28
and 36 bytes per element and 1024 in reserve) do not name each buffer. These two need
an upper bound on the unified buffer (311 KB; devices have 192 to 256 KB), because
the scratch memory of the reduction grows with the row and must fit the reserve.
The partition rests on `Shares`: at least one core takes a longer share, and the
shares of all cores add up to the number of rows.

`KernelLaunchProofs`, for any launches, programs and schedules, and for the CUDA and CPU kernels;
`AscendCustomProofs`, for the library's custom norms:

| theorem | states |
|---|---|
| `OrderedLaunchesDoNotRace` | `NoRace`, if chains of `after` order every two items that touch one cell |
| `OrderedLaunchesComputeOneResult` | `ResultsComplete`, if moreover one serial run gets it right (`Computes`) |
| `ConfinedLaunchesStayTyped` | `TypeOK` and `InBounds`, if the items name only allocated cells (`Confined`) |
| `CudaLaunchesStayTyped` | `TypeOK` and `InBounds` of the CUDA `add`, `swiglu`, `rms_norm` and `causal_softmax` |
| `CudaLaunchesDoNotRace` | `NoRace` of the same |
| `CudaLaunchesComputeTheirResults` | `ResultsComplete` of the same |
| `CpuLaunchesStayTyped` | `TypeOK` and `InBounds` of the CPU `add`, `mul`, `swiglu`, `cast`, `rms_norm`, `causal_softmax` and `scaled_softmax` |
| `CpuLaunchesDoNotRace` | `NoRace` of the same |
| `CpuLaunchesComputeTheirResults` | `ResultsComplete` of the same |
| `CustomNormsDoNotRace` | `NoRace` and `InBounds` of the library's custom `rms_norm` and `add_rms_norm` |
| `CustomNormsComputeTheirRows` | `ResultsComplete` of the same |

The first three turn questions about schedules into conditions on a program. Their
invariants are `InOrder` (what is done is closed under what precedes it) and `Between`: a cell
holds what its last writers among the items done wrote. Two last writers would
conflict, so the order has only one, and a reader finds it whatever else has run.

The CUDA theorems discharge the conditions for any number of blocks of any size. A row
kernel is a function `F[r][q]`: phase `q` of block `r`, with a step for each thread or
column. `BarriersOrder` is the argument for `__syncthreads`: if two items that no barrier
separates share no cell (`Disjoint`), every two that conflict are of one block and of
different phases, and a chain of phases, none of them empty, puts the earlier first. What
remains is each kernel's own: `NormDisjoint` and `SoftmaxDisjoint`, that threads of a phase use
different partial results and columns, and blocks different rows. `BlocksCompute` then asks
for one value for each item (`NormVal`, `SoftmaxVal`) and that the item reads it off the phases
before it: the maximum or the sum is a function of the columns the mask leaves, and the softmax
row is written twice, in phases 3 and 6, so an item reads the later of what precedes
it (`ReadsPhase`). `add` and `swiglu` have one phase: `ThreadsCover` and `ThreadsDiffer` say that each
element has one thread, whatever the remainder in the last block.

`CudaLaunch` is what the launchers take for granted: outputs that are not inputs (the kernels'
pointers are `__restrict__`) and whose elements do not overlap, operands that are not
shared memory, positive sizes and one thread at least, as many keys as queries or more (1 to
`total_seq_len` valid columns), and fewer threads in all than `unsigned int` counts; shapes that
agree, and for the row kernels two or three dimensions with a dense last one. Inputs of `add` and
`swiglu` have any strides, zero (broadcast) and negative ones included, and any number of
dimensions. TLC checks that the instance's launches satisfy it (`CudaLaunchesCovered`).

The reference walks indices and strides, the kernels compute addresses: from the packed
metadata buffer (`MetadataUnpacked`), or from batch and row strides. `CudaElementwiseReference`,
`CudaNormReference` and `CudaSoftmaxReference` show that they reach the same elements, on top of
`TensorLayoutProofs`.

The CPU theorems discharge them for loops. The elementwise kernels (OpenMP loops) are items that
share no element one of them writes (`Independent`): an output whose elements do not overlap gives
each iteration its own, and the input it overwrites is its own or none. The row kernels are one item
that loops over the rows and, in each, over its columns, keeping the maximum, sum or mean square in
local variables, so the question is not the order of items but what a step of the loop finds in
memory. The memories between two rows are `State[D]`: the rows `D` done hold their results, and every
other row its input as at first. `Visits` says that a part of the loop leads from `State[D]` to
`State[D \cup N]` *for every* `D` that has none of the rows `N`, so `LineVisited` and `GridVisited` put the
passes of one loop and of two nested loops together without a word about their order, and what is
left concerns one row: `NormRowDone`, `SoftmaxRowLeads` and, with the cells the mask clears before,
`MaskedRowDone`. A row may be done in place because the pass that overwrites a column is the last to
read its input.

`CpuLaunch` is what these kernels take for granted: shapes that agree and outputs whose elements do
not overlap; an output that is an input has its base and strides (`InPlaceOrApart`: a different view
of the same memory would be overwritten before it is read); positive sizes; two or three
dimensions for the row kernels, of any strides, the last one included (dense, for `rms_norm`); as many
keys as queries or more, and no row of `causal_softmax`'s input repeating an element; a weight that is not the output; no operand in
the local variables. TLC checks that the instance's launches satisfy it (`CpuLaunchesCovered`).

The last two theorems discharge the conditions for the custom kernels, for any number of rows
and cores, any dimension and type. Two items of one core share a queue's buffer
only if their rows differ by a multiple of `kBufferNum`, and `AllocTensor` makes the later copy
wait for the row that had it before (`SlotReuse`); two cores share no row (`NoRowTakenTwice`), so
the output may be the input or the residual. The weight is written before all of
them. Each output row is then the function of its own row and weight that the
operators' definitions name.

`CustomNormLaunch` states what a launch satisfies: operands of one type that are not on the chip,
outputs that are not the weight, at least one row, rows that need no padding
(`InfiniAccepts` refuses others), a weight as long as a row. The code's descriptors of the weight
and its copy take the input's type, and the base classes assert the shapes.
`CustomNormOperands` adds that the operands are dense and of one shape, as the kernels, which read no
strides, take for granted, each counted from its data pointer; and that `out` and `residual_out` are
two buffers. `OperandsByRows` shows that the reference, which walks indices and strides, gives such
operands' rows. TLC checks that the instance's launches satisfy both (`LibraryLaunchesCovered`).

Only model-checked: the conditions for the programs of gemm (CPU and CUDA), of CPU linear, cat and
sampler and of the torch launchers, `ScheduleIndependent` as a property of the instance's programs,
and that every launch ends.

## 7. Remote dispatch

`RemoteDispatch` models `agent.py run` and the agents it talks to.

| actions | code |
|---|---|
| `SendDispatch`, `DispatchAnswered`, `DispatchFails`, `Record` | `dispatch_remote_job` 725-754 and `cmd_run`'s loop 855-875, one job after the other |
| `AskState`, `PollReturns`, `PollFails`, `Deadline` | `poll_remote_job` 757-786, one thread per dispatched job |
| `Collect`, `Exit` | `cmd_run` 887-949 |
| `TakeRequest`, `SubmitJob`, `Respond`, `AnswerPoll` | the handlers 512-694, one request at a time; `SubmitJob` is one turn of `_submit_jobs`' loop |
| `StartJob`, `EndJob` | the agent's scheduler, as `JobRegistry` promises |
| `Push`, `LoseRequest`, `Restart` | GitHub, the network, a crash |

A request that the client has given up stays in `backlog` and may be handled
later. `DispatchFails` is possible at any time: connection refused, reset, timeout, an
unreadable reply. After 400 or 503 the handlers go on to answer 200 on the same
connection; the client reads the first status line, so `reply` keeps the first. An
agent's configuration may lack a job that the client's has (`known`). A restart loses
queue, jobs and connections. `finished` is a history variable: the runs that ended, with their
ids and whether a dispatch or a push asked for them.

| run | instance | result |
|---|---|---|
| `RemoteDispatch` | two jobs on one agent, a queue of one, one push of both jobs, one restart, either configuration | `TypeOK`, `NoFalsePass`, `ResultsTrue`, `RejectedNeverRuns`, `CommandEnds` |

The bounds: two jobs make results of different fates meet in one exit code; the
queue of one is full when the push's or the client's second job comes, so batches are accepted in
part; one restart can hit any step between a dispatch and its last poll. Messages
may be lost or late any number of times. `CHECK_DEADLOCK FALSE`: the command ends.

Fairness (`FairSpec`): the client's own steps are weakly fair (a thread that is
running goes on; `urlopen` has timeouts of 30 and 10 seconds, so a request ends in an
answer or an exception), and `Deadline` is strongly fair: the loop at line 764 looks
at the clock between any two polls, and once two hours have passed each look finds
them passed. Nothing is assumed of agents or network. The timeout of `urlopen` is per
read; a server that trickles its answer byte by byte is not modelled.

Also assumed: `uuid4()[:8]` gives ids that differ (`issued`), the selected jobs differ, and each platform has a job (`cmd_serve` checks it).

### Proofs (`RemoteDispatchProofs`)

For any jobs, agents, configurations, limits and numbers of pushes and restarts:

| theorem | states |
|---|---|
| `TypeCorrect` | `TypeOK` |
| `ZeroMeansSuccess` | `NoFalsePass` |
| `ResultsAreTrue` | `ResultsTrue` |
| `RejectionsHold` | `RejectedNeverRuns` |

The inductive invariant `Inv` has eight parts. `ClientTypes` and `AgentTypes` are the types;
`QueuesBounded` the limit of the queue. `ClientBooks` says where the client stands: jobs before `next` have a
ticket or an error in `results`, each job is in `results` at most once, as its own
verdict. `IdsOwned` ties ids to jobs: an id in a registry, in a handler's list or in a
ticket belongs to one job and one origin. `Truth` follows a final state from `finished`
through the answer and the verdict into `results`. `Once` says that one dispatch is in
at most one place (backlog, handler, reply) and that a refused one has no entry in any
registry. `NoFalsePass` itself is the eighth; only the exit step can break it, and there no failed
result means that every job has a success, by `Truth` of the run with its own ticket,
which `IdsOwned` makes a dispatched one. `CommandEnds` is only model-checked.

## 8. Not modelled

* `dispatcher.h`, `caster.h` and the rest of `data_type.h`: templates that select
  an instantiation at compile time, and numeric conversion; no state, and floating-point arithmetic.
* The numbers themselves (accuracy, overflow of half precision, `eps`): compared with torch by the tests.
* Cambricon kernels (tiling from on-chip sizes that only the device knows) and the torch backend (calls to `at::`).
* The attention operators' base classes and numerics: their launches are in `AscendKernels`,
  their shape checks are not.
* Who destroys aclnn descriptors (`release`, `destroy` in `ascend/common.h`): it depends on what
  CANN does to a descriptor with its executor, and the comments there say that the
  documentation and the behaviour differ.
* The host copies of the samplers' parameters and of paged attention's lengths: the
  pattern is that of `TableSwap`; they are not steps of `WorkspacePool`'s programs.
* The wrapper generator, image builds, docker command lines, and the log endpoint: sequential, no state kept.
* Authentication and signatures of the HTTP server, and requests it rejects
  unseen: they change no state.
* Several agents on one machine: `run.py` allocates from a pool of its own, so
  nothing in the agent's books knows of it. The probes of `SchedulerSafety` cover
  the load it causes, not its claims.
