# Verification of kapsl-integrations

TLA+ models of the concurrent and failure-prone parts of this repository, the
TLC instances that check them, and TLAPS proofs of their main safety properties.

The repository connects two inference engines to the Kapsl runtime:

* `integrations/ort` is a Rust plug-in around ONNX Runtime with a C ABI. The
  host calls `infer`, `infer_batch` and `cancel` from any thread.
* `integrations/vllm` is a Python connector that runs inside vLLM, in the
  scheduler process and in each tensor-parallel worker, and talks to Kapsl's KV
  coordinator over a Unix socket.

## Inventory

| Part | State | Operations | Interacts with | What is hard |
| --- | --- | --- | --- | --- |
| Session pool (`ort/src/model.rs` 66-248) | idle sessions, `total`, condition variable | `acquire`, `reserve_slot`, `add_reserved_session`, `release_reserved_slot`, drop of a session | every inference thread; cancellation wakes its waiters | barging, lost wake-ups, slots leaked by error paths |
| Request registry (`model.rs` 262-438) | active IDs, mark and terminator of each | `register`, `attach`, `is_cancelled`, `cancel`, drop | the pool and ORT's run options, through terminators called outside the lock | attach racing cancel, a cancel that comes late, marks that outlive their call |
| Inference calls (`lib.rs` 534-802, `model.rs` 539-650, 917-1057) | groups of a batch, results so far | `infer`, `infer_batch`, stack, split, fallback | pool and registry | partial failure in a batch |
| Load, unload, bucket sessions (`model.rs` 502-537, 652-769) | loaded model, bucket map with LRU | `load`, `unload`, `pool_for_request` | calls in progress keep what they took | concurrent loads, eviction of pools in use |
| Generation (`generation.rs`) | engine slot, path, request map | load, infer, stream, cancel, unload | Kapsl's LLM backend (external) | an engine that is out of its slot, cancellation against a busy consumer |
| Governed allocator (`allocator.rs`) | live allocations, clients per device, scope stack | allocate, free, register, unregister | host callbacks, ORT | free after its client left, failing host calls |
| Live resize (`connector.py` 377-489, 551-681; `shared_pool.py` 1125-1169, 1238-1347) | pool size, pending operations, applied generations, mapping of each worker | poll, apply, acknowledge, in three kinds of process | coordinator, vLLM engine, CUDA VMM | lost, late and repeated messages; a rank that lags; an idle engine |
| KV leases (`connector.py` 312-355, 414-449, 529-582, 683-708) | leases by request, control failure, activation | reserve, commit, release, heartbeat, shutdown | engine thread, heartbeat thread, coordinator with TTL | duplicate callbacks, failures between two calls, shutdown races |
| CUDA VMM import (`shared_pool.py` 525-762) | segments, mapped bytes | map, unmap, close | driver | partial failure, replay after it |
| vLLM block pool (`shared_pool.py` 1238-1347) | free queue, prefix cache | bind, grow, retire | vLLM | rollback |
| Allocator hook (`shared_pool.py` 765-1235) | patched functions, imported buffer | install, warm-up cap, allocate, shutdown | vLLM, torch | restoring after failure |
| Control client (`client.py`) | received OS handles | one RPC per call | socket | handles leaked or closed twice on error paths |
| Startup (`connector.py` 162-330, 458-548, 683-700) | registration, epoch, activation, forward lock | construct, attach, activate, shut down | vLLM's construction order, coordinator restarts | epochs of different registrations, startup that waits for ever |
| Contract (`contract.py`, `connector.py` 793-1154) | none | validation of registration, receipt and resize | coordinator, importer | what is accepted against what is mapped |
| Planner (`planning.py`, `plan.py`) | executor, descriptors, one document | size a rank, run the command | vLLM, Kapsl's parser | arithmetic boundaries, overflow, clean-up on every path |
| Certification and probe (`certification.py`, `flash_attn_probe.py`) | report and allowlist files, rank processes | spawn, barriers, lease lifecycle, detach, verdict | coordinator, attention backend | a verdict that does not match its files, a rank lost at a barrier |
| Packaging and release (`package_cpu.py`, `release.py`) | files of a build, draft assets | build, sign, split, upload, index, publish | release host | crashes between writes, mixed builds |
| Parity tool (`parity.py`) | processes, captures, report | launch, wait, measure, stop, decide | two runtimes | processes left behind, a stranger on the port |
| Preprocessing, tasks, tensors, profiles | none | sequential | - | numerical |

What makes them correct: the pool and the registry lose and duplicate nothing; a
cancellation reaches the work it is meant for and nothing else; a resize keeps
*physical memory >= every worker's mapping >= what the scheduler hands out* at
every instant; no forward pass touches unmapped memory; every lease is released
once or expires; a failed step leaves nothing half done that somebody relies on; a
verdict, plan or release says what was really measured, sized or built.
`PROJECT.json` lists the hazards line by line.

## Modules

| Module | Models |
| --- | --- |
| `OrtSessionPool` | session pool, request registry, and the calls that use both |
| `OrtSessionPoolProofs` | its theorems |
| `MCOrtSessionPool` | TLC instances, with symmetry |
| `ResizeContract` | abstract specification of a resize, without messages |
| `ElasticResize` | the resize protocol of the connector, coordinator and engine included; implements `ResizeContract` |
| `ElasticResizeProofs` | its theorems, the refinement among them |
| `MCElasticResize` | TLC instances |
| `LeaseLifecycle` | leases of requests: engine callbacks, heartbeat thread, shutdown, coordinator with expiry |
| `LeaseLifecycleProofs` | its theorems |
| `MCLeaseLifecycle` | TLC instances, with symmetry |
| `LeaseEscape`, `MCLeaseEscape` | `LeaseLifecycle` with exceptions the heartbeat loop does not catch, and its instance |
| `ElasticBlockPool` | vLLM's block pool under the adapter: free queue, cached prefixes, rollback |
| `VmmBuffer` | one worker's virtual range, segment by segment, with failing driver calls |
| `ResizeWire` | resize messages, their validation, and what the importer does with them |
| `AllocatorHook` | patched names of vLLM, warm-up cap, the one allocation |
| `ConnectorStartup` | construction, attachment, activation, forward lock, shutdown |
| `PoolHandshake` | configuration, registration, receipt, binding of each rank |
| `ControlCall` | OS handles received by a control call |
| `KvSizing`, `KvPlanner` | sizing arithmetic of the planner, and a run of its command |
| `CertificationProbe` | the probe's processes, its verdict and its files |
| `BucketSessions` | load, unload and bucket pools of a stateless model |
| `GenerationBackend` | the generation backend |
| `GovernedAllocator` | the governed CUDA allocator of one device |
| `PackRelease` | builds, catalogs, draft and index of a release |
| `ParitySession` | the certify command of the parity tool |
| `MCCallsReturn` | TLC instance of `OrtSessionPool` and `GenerationBackend` with fairness |
| `MCAdapterParts` | TLC instance of `BucketSessions` and `GovernedAllocator` |
| `MCSchedulerLife` | TLC instance of `ElasticResize`, `LeaseLifecycle` and `ConnectorStartup` with fairness |
| `MCWorkerParts` | TLC instance of `VmmBuffer`, `ElasticBlockPool`, `AllocatorHook`, `ControlCall`, `ResizeWire`, `PoolHandshake` |
| `MCToolParts`, `MCKvSizing` | TLC instance of `KvPlanner`, `CertificationProbe`, `PackRelease`, `ParitySession`, and the planner's cases |
| `CallsReturnProofs`, `AdapterPartsProofs`, `SchedulerLifeProofs`, `WorkerPartsProofs`, `ToolPartsProofs` | theorems about the components of these five, one section to a component |

The last five instantiate several components side by side. The components of such a
module share no state and none of them waits for another, so a variable `part`, chosen
in the initial state, says which one moves; the others stay where they start. That
checks each component alone in its full instance, and nothing is gained by
interleaving them. A property with
parts in parentheses, in the table of runs, is the conjunction of those parts of the
component's module, and is about the behaviours that move the component.

How the components fit together: `ResizeWire` says which messages a worker accepts, `VmmBuffer` what one
accepted message does to the mapping, `ElasticBlockPool` what it does to vLLM's
blocks; `ElasticResize` composes the three as single steps that succeed, fail, or fail half-way.
`PoolHandshake` chooses the binding that `AllocatorHook` serves, and
`ConnectorStartup` puts both before activation. `BucketSessions` says how long a pool
lives whose inside is `OrtSessionPool`. `KvPlanner` extends `KvSizing`, `LeaseEscape`
extends `LeaseLifecycle`.

### OrtSessionPool

One action is one critical section of the code (the pool's `inner` mutex or the
registry's `requests` mutex), or a call that touches neither. A thread's `pc`
follows `infer` of `lib.rs` (`entered`, `prepare`), `OrtBackend::infer`
(`infer`, `attach`, `wake`), `SessionPool::acquire` (`check`, `lock`, `waiting`,
`create`), `infer_with_session` (`attachRun`, `run`, `ranOk`, `ranErr`, `drop`)
and the rest of the call (`inferred`, `final`, `leave`).

* A session is not identified; `idle` and `total` count as the code counts.
* A batch is a sequence of disjoint groups. `HashMap::into_values` leaves their
  order open, so `GroupOrders` contains every order. A failed group is replaced
  by its members one by one, unless the call is cancelled.
* `terminator` is `"none"`, `"pool"` (a `SessionWaitTerminator`) or the identity
  of a `CancellableRunOptions`. A new one takes an identity nobody refers to.
* `cancel` is two steps, since the terminator is cloned under the lock and called
  after it.
* The host's own `is_cancelled` callback may answer yes at any check.
* The condition variable may wake up spuriously; `notify_one` wakes an arbitrary
  waiter; a woken thread goes back to the top of the loop and competes for the
  mutex with everybody else.

Left out: poisoned mutexes (they need a panic inside a critical section), the
statistics counters, contents of tensors, the choice of the bucket pool (one pool
is modelled; `Init` allows one that is prewarmed and one that is not).

### ElasticResize

A block is a number and the pool a prefix of the numbers; block 0 is vLLM's null
block. The processes are the heartbeat thread (`PollSend`, `PollMerge`,
`PollFails`), the engine loop (`Sleep` to `StepFails`), each worker (`StartLoad`
to `EndForward`), and the coordinator (`StartResize`, `LateAck`, and its part of
each acknowledgement, `Receive`).

* `pending` is `_pending_scheduler_operations`, `ops` the operations that
  `_apply_scheduler_resizes` has taken from it, `applied` and `wapplied` the
  `_resize_applied_generation` of scheduler and workers, `last` the generation of
  `_last_worker_resize`, `awake` is `_resize_pending`, `failed` means that
  `_control_failure` is set and the heartbeat thread has ended.
* Application and acknowledgement are separate steps, since other processes run
  between them and an exception may leave after either.
* The coordinator is external. What it may do is what the connector accepts: one
  transaction at a time, stages in the README's order, operations repeated until
  acknowledged, acknowledgements counted for the generation and stage that wait
  for them. An acknowledgement whose sender saw an error is in `late`: it may
  arrive in any later state, or never.
* The engine is external. Blocks are allocated before `build_connector_meta`. An
  exception that leaves a callback ends the step; the engine then stops (the model
  may stutter for ever) or starts over. After a leader's exception it starts over
  only when no rank is left in the failed step. The leader's forward pass computes
  with the other ranks and so does not end before they have entered theirs; the
  connector admits one batch in flight only (`connector.py` 744-758). Other
  ranks may lag behind a leader that is done: that is the hazard of
  `NoUnmappedAccess`.
* Workers never restart: `apply_worker_resize` keeps its replay key in memory,
  and a crashed worker takes the engine with it.

* An operation that fails inside a worker may be undone or not. A shrink that stops below
  its top segment has dropped segments from the import's table, a growth whose zero check
  fails has put them there, and `mapped_bytes` stays in both cases: the worker is in `torn`,
  and the table no longer fits the operation (`Acceptable`). The coordinator repeats the
  operation and the worker refuses it, in every engine step. `StuckOnlyWhenTorn` says that
  this is the only way to be refused, and that the resize then stays where it is. The code
  has no way out of that state but a restart; `IdleShrinkCompletes` is therefore checked
  without failures. Which calls of one operation lead there is in `VmmBuffer`
  (`RepeatPossible`).

Left out: the single segments of a mapping, the order of vLLM's free queue, leases.

`ResizeContract` has no messages: memory becomes resident, each worker maps it,
the scheduler exposes it; a shrink goes back in the opposite order. The
refinement mapping takes `mode` from the coordinator's stage and direction,
`resident` from `phys` and `exposed` from `cur`.

### LeaseLifecycle

The scheduler role only. `table` is `_leases`, `failed` is `_control_failure`,
`lease[t]` the local variable of a callback, `live[l]` the ticks a lease has left
at the coordinator (0: none). A thread follows `on_new_request` (`lookup`,
`reserve`, `granted`, `store`, `redundant`) or `request_finished` (`commit`,
`release`); the heartbeat loop is `wait`, `poll` (live resize only), `look`, `call`,
`renewed`. One action is one critical section of `_lease_lock` or one end of a
control call. What the coordinator does of `reserve` and `heartbeat` and the
arrival of the answer are separate steps, since a lease runs while the answer is
under way.

* A failed call was executed, is executed later (`late`) or never. A failed commit
  changes nothing here: release is tried anyway.
* Time. `Tick` moves every clock by one and waits for whoever is at its deadline: a
  wait of the heartbeat loop ends after `Interval`, a control call within
  `CallTime`, `join` within `TTL`, and code between two calls takes no time. That is
  an assumption about the host: a process that is stopped for longer than its TTL
  loses its leases. `CallTime` stands for the whole call. `kapsl_timeout_ms` limits
  each socket operation (connect, send, each read), so a call may take three times
  that, even with an answer in one piece.
* The coordinator is external: each `reserve` grants a lease of its own, a heartbeat
  renews all of the participant's leases (vLLM README 155), a restart forgets
  them and the participant. It has a finite number of leases; an ID nobody refers
  to is used again.
* The engine is external: callbacks come from any thread, duplicates of
  `on_new_request` race with each other, but a request is finished only when none of
  its own admissions is running. If that were not so, a slow duplicate would store
  its lease after the request was finished, and nothing but shutdown would remove it.
  A callback that raises ends; the engine may go on.
* `reported` records for which leases a call raised.
* `overrun` is history too: the lease a callback stored after shutdown had taken the
  table. `on_new_request` asks nobody before `setdefault` (`connector.py` 349-350), and
  `shutdown` looks at the table once (541-543), so a callback whose `reserve` is under way
  in between stores a lease that nobody gives back and nothing reports.
  `SilentLeakOnlyAtShutdown` says that this is the only silent loss and that it costs one
  lease per such callback; the lease then ends with its TTL (`LeasesEnd`), since the
  heartbeat thread has ended or ends at its next wait.

Left out: tokens and priorities, activation inside `on_new_request` (it has happened
in `Start`), what the poll brings (in `ElasticResize`). Exceptions other than
`KapslKvControlError` in the heartbeat thread are in `LeaseEscape`, which adds one
action: the poll raises, and the thread is gone.

### ElasticBlockPool, VmmBuffer, ResizeWire

`ElasticBlockPool` keeps vLLM's free queue, the blocks of requests and the cached
prefixes apart from what the adapter believes (`current`). A removal, an eviction or
an append may fail after any part of it; when the rollback fails too, the phase is
`ambiguous` and the adapter raises until the engine is restarted. A growth has no
rollback (`shared_pool.py` 1308): what its append put into the queue before it failed
stays there above `current` (`spill`), vLLM gives it out, and the repeated growth refuses
when such a block is referenced or appends it a second time (`doubled`; what vLLM's linked
list does then is unknown). `BlocksConserved` says that nothing else is ever above the
capacity or in the queue twice. The blocks of `spill` are mapped, since a growth maps before
it activates, and the coordinator starts no shrink before the growth is acknowledged. The
order of the queue is left out: the adapter removes by identity.

`VmmBuffer` numbers segments by their offset. A driver call fails at any segment of a
growth, of a shrink, of either's rollback or of the close. `phys` is what the driver
has mapped, `table` what the import remembers; the operation is delivered again until
it succeeds. `NothingUnrecorded` and `CloseReleasesAll` are stated for at most one
failed driver call: with a second failure inside the rollback of the first, the code
does lose track of a segment, and no caller could do better than end. `RepeatPossible`
says when the repeated operation can still succeed: a growth that was rolled back, and a
shrink in which nothing failed. After a shrink that failed below its top segment, and
after a failed zero check, it never can.

`ResizeWire` enumerates operations with wrong starts, targets, block sizes, granularities,
offsets, lengths, identities, handles and order. `AcceptedIffPartition` compares the
field-by-field validation with its definition: the segments cut the range that the
operation names into pieces. That range is computed from the operation's own
`from_block_count`, `bytes_per_block` and granularity (`contract.py` 696-702), and nothing
compares it with the mapping: `map_segments` checks pieces against the binding's
granularity and the virtual range, the driver (external) refuses a byte that is mapped.
`MappedIsPartitioned` says what follows: no byte is ever mapped twice, and the mapped range
is without holes as long as every operation applied started where the mapping ended
(`inStep`).

### AllocatorHook, ConnectorStartup, PoolHandshake, ControlCall

`AllocatorHook` has one name per patched module, with what the build has there (ok,
absent, another signature) and what the name refers to now. A module that is imported
late takes its function from `worker.utils`, patched or not; another plugin may wrap a
name at any time after. One constructor, one warm-up and one shutdown.

`ConnectorStartup` has each worker and the scheduler as processes, with the
coordinator's epoch. vLLM's construction order is left open, since the comment at
`connector.py` 314-321 says that activation must fail closed if it drifts. A forward
pass that raises leaves the lock to shutdown.

`PoolHandshake` is one registration, from a configuration with any mistake in it
(keys of the rank map as integers, strings and padded strings) to the binding of each
rank. The scheduler and every rank register each for itself and read their own receipt
(`Receive`), while the coordinator resizes pools one at a time (`ResizePool`). Assumed of
the coordinator: one pool for each declared domain, and the same pools in every receipt
but for their mapped block counts. `CountsAgree` is what `_elastic_receipt_block_counts`
can ensure by looking at one receipt: processes that registered with no resize between
them start from the same count, although each takes it from another pool. Processes on two
sides of a resize do start from different counts, and no process can tell.

`ControlCall` is one call, with handles that come with any piece of the frame. Five
kinds of call differ in who closes what. When the socket fails inside a frame
(`broken`), `_read_frame_with_handles` raises before its caller knows the handles, and
`OpenOnlyIfBroken` says that exactly then all handles of the frame stay open, and that in
every other case each is closed once. The coordinator writes a frame at once, so this needs
a coordinator that stops in the middle.

### KvSizing, KvPlanner, CertificationProbe

`KvSizing` is pure: checked arithmetic on words up to `MaxWord`, groups of cache
specs, block counts. A `PlanningError` is the value `Err`. `KvPlanner` is a run of the
command, with descriptor 1, the executor and the exception on its way up as state.
Its properties compare the sizing with definitions that do not use its steps: the
bytes a block takes, the blocks that so many sequences need, and that more
concurrency asked for never gives less.

`CertificationProbe` is the main process, one process per rank and the heartbeat
thread. The runtime and the backend under test keep any subset of the rules the probe
tests (`Rules`), and `CertifiedMeansConforming` says that a certificate exists only
where all are kept. The allowlist is optional (`"none"`: no path given). Every write and
the unlink of the old allowlist may fail, and `main` ends with status 0 (`"passed"`), with
status 1 (`"failed"`) or in an exception (`"raised"`). `AllowlistIsThisRuns` relates the
files to the status of a run that returns one; after an exception they may disagree. Steps between barriers follow `Steps`; a rank whose peer is gone
fails in the next collective operation, which is what the process group's timeout
and `spawn` with `join` do. A rank that hangs outside such an operation is not modelled.

### BucketSessions, GenerationBackend, GovernedAllocator

`BucketSessions` counts sessions per pool. A call keeps the model and the pool it
looked up, whatever the slot and the map hold later, and a model without slot and
calls is gone. `load` creates the sessions of the primary pool one by one before it
looks at the slot again under the write lock; `built` counts them, and they are dropped
where creation fails or the slot turned out to be taken. `load_model` publishes, validates
and undoes in three steps; `unload` may come at any time. `own` and `raced` are history:
the model a load published, and whether the slot was emptied under it. `UndoIsOwn` says
that a load takes back no model but its own unless that happened. It can: the host unloads
while a load validates, another load publishes, and the first one's undo empties the slot
of a model that is not its own (`lib.rs` 485-491). Only an unload by the host during a
load starts this; loads alone do not.

`GenerationBackend` follows `load` through taking the engine, the blocking task (which
may panic and lose the engine), putting it back and recording the path, and a call
through registration, stream, callback and drain. `late` counts chunks delivered
after the cancellation. The engine is external; from `generation.rs` 419-420 it ends
the stream of a cancelled request. `GenerationAssumption` says that one thread manages
the backend: the host serializes load and unload, as `ort/src/tests.rs` 1224 says.
With two such threads `IdleIsConsistent` fails after eight steps, when a second load
fails after the first has recorded its path.

`GovernedAllocator` has one device. ONNX Runtime and the hosts are external: the first
frees, or forgets to, the others refuse to take memory back. The host shuts an
instance down only when no other call of it is under way, as the ABI requires.
Scopes nest, since a session may be created inside a call.

### PackRelease, ParitySession

`PackRelease` identifies a file by the build it comes from; digests do not collide and
signatures are not forged. A process dies between any two writes and may start again
in the same directory. Uploading and checking follow the workflow that calls
`release.py`; the workflow itself is external.

`ParitySession` is the certify command with its default gates. A runtime is a process
group of a leader and a helper; it may crash, ignore SIGTERM, serve the wrong route or
answer wrongly, and logs its route whether it could bind or not (the runtime of
`test_parity.py` does so at 299 and 301 and binds at 329). A server that is not of this
run may take the port and give it up at any time (`Stranger`). Nothing in `parity.py` ties
the answers at `base_url` to the process it launched: a stranger that serves there is
measured in its place, and the report may pass. `answered` records who answered a session,
and `PassedIsMeasured` says what the code does ensure, that no session is answered by the
runtime of another one, since each group is gone before the next launch. Assumed: SIGKILL
takes effect at once, and a read of an answer ends (a server that sends it byte by byte
renews the socket's timeout with each). Latency, memory and start time are one verdict.

## Runs

| Run | Checks | Instance |
| --- | --- | --- |
| `OrtPoolCancel` | `TypeOK`, `SlotAccounting`, `RegistryMatchesCalls`, `CancelReachesRun`, `NoStrayTermination`, `BatchComplete` | 2 threads, 2 IDs, 2 cancellers, 4 run options, 2 sessions |
| `OrtPoolWait` | `NoStrandedWaiter` | 3 threads, 2 sessions, nobody cancels |
| `OrtPoolLostWakeup` | `CancelledWaiterIsWoken` is violated | 2 threads, 1 session, 1 canceller |
| `CallsReturn` | pool without cancellations: `IdleSessionTaken` | 2 threads, 1 session |
| | pool with cancellations: `CancelledCallReturns` | 1 thread, 2 IDs, 1 canceller |
| | generation: `CallsLeaveClean` (`TypeOK`, `IdleIsConsistent`, `OneLateChunk`, `DrainedWhenCancelled`), `CancelledEnds` (`CancelledNotOk`, `CancelledReturns`) | 2 calls, 2 IDs, 1 managing thread |
| `AdapterFaults` | buckets of one model: `PoolsAccounted` (`TypeOK`, `LruIsTheMap`, `SessionsBounded`, `ServedIsValid`, `UndoIsOwn`), `ReplacesInOrder` (`EvictsLeastRecent`, `NeverReplaced`) | 2 calls, 4 buckets, limits 1 and 3, secondary pools of 1 (`EvictBound`) |
| | racing loads: the same two | 2 loading threads, 2 calls, 2 buckets, limit 2, 2 models alive, pools of 2; the second bucket only while at most one thread loads (`RaceBound`) |
| | allocator: `MemoryAccounted` (`TypeOK`, `HeldIsCharged`, `ChargedIsLive`, `ScopeMatchesWork`, `PinnedWhileRegistered`) | 3 instances, 2 keys, 2 threads, 2 addresses |
| `ElasticFaults` | `TypeOK`, `CapacityOrder`, `NoUnmappedAccess`, `StuckOnlyWhenTorn`, `ResizedOnce`, `ImplementsContract` | 2 ranks, 2 sizes, 2 resizes, every control and CUDA call may fail |
| `ElasticIdleGrow` | `IdleResizeCompletes` is violated | 2 ranks, 1 resize |
| `LeaseFaults` | `TypeOK`, `LeaseOwnedOnce`, `SilentLeakOnlyAtShutdown`, `NoSilentExpiry`, `AdmissionHoldsLease` | 2 threads, 2 requests, 2 leases, TTL 6, with polls |
| `LeaseEscape` | `NoSilentExpiry` is violated | 1 thread, 1 request, TTL 6, with polls |
| `SchedulerLife` | resize: `IdleShrinkCompletes` | 2 ranks, 3 sizes, 2 resizes |
| | leases: `LeasesEnd` (`LostAuthorityNoticed`, `LeakedLeasesExpire`) | 1 thread, 2 requests, 2 leases, TTL 3 |
| | startup: `ServesOnlyWhole` (`TypeOK`, `RoutableIsComplete`, `OneEpoch`, `LockGivenBack`), `StartupDecides` | 2 workers, 1 coordinator restart |
| `WorkerFaults` | mapping: `MappingAccounted` (`TypeOK`, `ServedIsMapped`, `TableIsPrefix`, `NothingUnrecorded`, `RepeatPossible`, `CloseReleasesAll`) | 5 segments, 6 operations, 2 failed driver calls |
| | block pool: `BlocksAccounted` (`TypeOK`, `BlocksConserved`, `NoRetiredHit`) | 3 to 6 blocks, 3 resizes |
| | hook: `HookIsHarmless` (`TypeOK`, `PatchesUndone`, `NoPrivatePool`, `WarmupInsideMapped`, `ServesWholePool`) | every build, 2 layers |
| | control call: `HandlesAccounted` (`TypeOK`, `ClosedOnce`, `OpenOnlyIfBroken`, `ImportsExact`) | 3 handles, 3 pieces, every kind of call |
| | resize message: `MessagesArePartitions` (`TypeOK`, `AcceptedIffPartition`, `MappedIsPartitioned`) | 6 blocks, 2 segments to a message, operations in blocks of 1 or 2 bytes |
| | registration: `RanksAgree` (`TypeOK`, `EachItsOwnBinding`, `BuiltIsValid`, `CountsAgree`) | 2 devices, 1 or 2 ranks, every configuration, 2 resizes meanwhile |
| `ToolFaults` | planner: `PlanIsSound` (`TypeOK`, `StrideIsPhysical`, `PlanHoldsItsConcurrency`, `WithinBytePolicy`, `MoreIsNotLess`, `EmittedPlanFitsSchema`, `StdoutIsOneDocument`, `ReleasedBeforePlan`) | words up to 255, 1 or 2 ranks, every policy |
| | probe: `CertificateIsEarned` (`TypeOK`, `CertifiedMeansConforming`, `NativeOnServedPool`, `DetachedIsUnmapped`, `AllowlistIsThisRuns`, `RefusedRenewalFails`), `CommandsEnd` (`ProbeEnds`) | 2 ranks, every subset of the rules, with and without an allowlist |
| | release: `ReleaseIsOneBuild` (`TypeOK`, `PublishedIsWhole`, `CatalogIsOneBuild`, `ConsumedIsKept`) | 3 blocks in parts of 2, 2 builds, 2 deaths |
| | parity: `VerdictIsMeasured` (`TypeOK`, `GroupsTornDown`, `PassedIsMeasured`), `CommandsEnd` (`CertifyEnds`) | 4 sessions, 2 outputs, 2 faults (a stranger's coming or going is one) |

Bounds. Two calls and two sessions contain every race for the last slot; two IDs
make batches of one and of two, with both groupings; two cancellers allow one that
is still to call an old terminator while another marks a new call; four run
options let two calls run while two cancellers hold older ones. Three threads are
needed for barging: one that releases, one that sleeps and one that comes in
between. For the resize, two ranks are one that leads and one that lags; two
resizes let everything left over from the first meet the second, in both
directions; three sizes around the initial one include growing beyond and
shrinking below it. `MaxGen`, `MaxQueue` and `MaxLate` bound the resizes, the
steps a rank may lag and the acknowledgements under way. A full `late` set only
means that a further one is lost, which is one of its outcomes anyway. The proofs
hold for every value of the bounds. For leases, two threads are two callbacks for
one request; two leases are one in the table or in hand and one that is redundant or
was leaked, or none left for an admission; interval and call time are one tick, and the
TTL is the smallest that satisfies `Timely`: with one tick less TLC finds an expiry that
nobody has noticed.

For the others: five segments let a growth or a shrink of several segments fail at its
first, a middle and its last one, and a second failure meet the rollback; six blocks
leave a tail of more than one to retire with some of it held or cached; two segments to
a message are the least that overlap, leave a gap or come in the wrong order. Two ranks
and devices are the least a rank map can swap or share; two resizes of one pool each are
one that passes both ranks by. Blocks of two sizes are the least that lets an operation
start above the end of the mapping. Words up to 255 let every
product and sum of the planner overflow. Four buckets are one primary and one more than
the largest limit leaves room for; a limit of one leaves room for none. Two loading
threads race for the slot; the first bucket a model is asked for is fixed, since buckets
are interchangeable. Three instances on two keys are two that share a client and
one that does not. Two builds are the fewest that mix; three blocks in parts of two make
a short last part; four sessions are one ABBA block; two faults are one that ends a
session and one that spoils its teardown.

The resize runs do not check for deadlock: generations are bounded and a scheduler
that lost the coordinator stops on purpose. Nor do the runs with a `part`, whose
components end: one call, one startup, one command, one release, or a bounded number of
operations. `OrtPoolCancel`, `OrtPoolWait` and `LeaseFaults` do.

Fairness. `Scheduled` in `OrtSessionPool` says that host threads and cancellers run,
and that a *terminated* graph execution ends, which is the contract of
`RunOptions::terminate`; `SpecRunsEnd` adds that every execution ends, which is assumed
only for `IdleSessionTaken`. An MC module with a `part` states the fairness of each
component for the behaviours that move it. `Scheduled` in `ElasticResize` says that the heartbeat
thread, the engine loop while it is not asleep and the workers run. Nothing is
assumed about requests, resizes or late acknowledgements, and nothing makes a
sleeping engine wake up. `Scheduled` in `LeaseLifecycle` says that the heartbeat
thread, callbacks that have begun and shutdown run, that every call ends (each socket
operation has a timeout) and that time goes on; the last is strong fairness, because
a thread at its deadline holds the clock for a moment. Requests need not come or end.
`Spec` of `ConnectorStartup` says that constructors run to their end (each call has a
timeout). `Spec` of `CertificationProbe` says that the processes run and that the
runtime's expiry timer fires; `FairSpec` of `ParitySession` that the tool runs and its
readiness deadline comes. `FairSpec` of `GenerationBackend` says that calls run and that
the engine ends the stream of a cancelled request; nothing is assumed of other streams.

### What the violations show

* `OrtPoolLostWakeup`. `acquire` asks `is_cancelled` (`model.rs` 119) before it
  locks the pool (124). A `cancel` in between marks the request and notifies, but
  nobody waits yet; the thread then finds no session and sleeps although its
  request is cancelled, until another call gives a session back. The comment at
  `model.rs` 209 says that taking the mutex closes this window; it would if the
  check were made with the mutex held. `CancelledCallReturns` is therefore
  checked for calls that need not wait.
* `ElasticIdleGrow`. A grow that starts while the engine sleeps at its initial
  capacity stays in `map_workers` until a request arrives, though the vLLM
  README (230) says that zero-token steps let idle resizes progress.
  `has_pending_push_work` (`connector.py` 395) covers pools above their initial
  capacity only, and there `IdleShrinkCompletes` holds.
* `LeaseEscape`. The heartbeat loop catches `KapslKvControlError` only. An answer with
  handles, or an error answer whose error field is no object, raises something else
  (`connector.py` 596, `client.py` 327): the thread ends, no failure is recorded, and leases expire under
  running requests, although the vLLM README (159) calls heartbeat failures hard errors.

Met while modelling, and not the subject of a run:

* `to_dict` computes the sum of the ranks' maximum bytes after the `try` block of `run`
  (`plan.py` 578, `planning.py` 646). Where each rank fits 64 bits and the sum does not,
  the command ends in a traceback (`traceback` in `KvPlanner`) instead of its structured
  error. The other sum is checked at construction, for the reason given at `planning.py`
  464.
* An exception at the last `print` of the probe (`flash_attn_probe.py` 310) writes a
  failed report over the passed one and leaves the allowlist of the same run beside it.
  Where that report cannot be written either (320), `main` raises and the passed report
  stays; after a failed write of the allowlist (308) it then stands without one. An unlink
  that fails at the start (162) ends `main` with the old allowlist in place and no report.
* Nothing ties the answers a parity session measures to the runtime it launched
  (`parity.py` 475-490): the process has to be alive and to log its route, but a server
  that already has the port may answer in its place.
* An exception that is no `ParityError` ends the parity tool with status 1, which its
  README (133) reserves for a completed run with a failed gate.
* The generation backend puts the loaded engine back before it records the path
  (`generation.rs` 161, 166). A concurrent load that saw no path takes it and loads over
  the first model. The stateless backend looks again under its lock, and there
  `NeverReplaced` holds.
* A socket that times out inside a frame (`client.py` 360) loses the handles read before
  it: `handles` in `_rpc_with_handles` (308-318) is still empty. `OpenOnlyIfBroken` states it.
* A growth of the block pool whose append fails part-way is not taken back
  (`shared_pool.py` 1308), unlike a retirement (1336); the repeated growth then refuses or
  appends a block twice. `BlocksConserved` states what is left.
* An operation's `bytes_per_block` is not compared with the binding's (`shared_pool.py`
  1132-1134), nor its `from_block_count` with what is mapped: one that is out of step is
  accepted and leaves a hole below `_mapped_bytes`. `MappedIsPartitioned` states the
  condition.
* Participants that register on two sides of a resize start from different block counts
  (`connector.py` 271, 846-879 look at one receipt). `CountsAgree` states the condition.
* A callback that shutdown overtakes stores its lease where nobody looks any more
  (`connector.py` 349-350, 541-543); it ends with its TTL. `SilentLeakOnlyAtShutdown`
  states it.

## Proofs

The theorems about `Spec` hold for arbitrary constants under the assumptions named
in the modules: finite sets of threads, IDs and workers, at least one session, a
leader that is a worker, sizes above one (`VllmElasticBlockPool` refuses others),
constants that are apart from the values the models reserve (`none`). The theorems about
the components of an MC module with a `part` are about that module's `Spec`; what they
rest on is an invariant of the component's own next-state relation. `BucketSessionsCorrect`
is stated for `BucketSessions` itself, since `MCAdapterParts` bounds it. The planner's
policies and configurations are constants: `ToolFaults` gives them the cases of
`MCKvSizing`, and the theorems hold for any of which vLLM's classes guarantee what
`ResolvedConfig` says (finitely many groups and layers, and a cache spec that is no
wrapper has its own member's page). Nothing is assumed of sizes, pages or sums: those are
what the planner checks.

`OrtSessionPoolProofs`

* `TypeCorrect`, `SlotAccountingHolds` from `PoolInv`. Slot accounting is about
  cardinalities of sets of threads defined by `pc`; the lemmas say how one move of
  one thread changes them. `notify_one` moves a second thread, between program
  points that hold nothing.
* `RegistryMatchesCallsHolds`, `CancelReachesRunHolds`, `NoStrayTerminationHolds`
  from `CancelInv`, which adds to the registry's shape that every terminator of a
  call's IDs is the run options of that call while it has some, that no two
  references with different owners share an identity, and that whoever holds a
  terminator to call marked its ID first.
* `BatchCompleteHolds` from `BatchInv`: what a call has results for and the groups it has
  still to execute cover the IDs it registered (`Covers`). `CoverDone` and `CoverSplit`
  say that finishing a group and falling back to single requests keep that.
* `NoStrandedWaiterHolds`, under the hypothesis that no request is cancelled. There the
  property is inductive: what a step gives back and whom it wakes go up together. A
  thread that finds itself cancelled leaves without waking another, which is why the
  hypothesis is needed.

`ElasticResizeProofs`

* `CapacityOrderHolds`, `ResizedOnceHolds` from `ResizeInv`, `TypeCorrect` and
  `StuckOnlyWhenTornHolds` from it and `TornInv`: a torn worker has not applied the
  operation that broke it, so the coordinator waits for that operation's acknowledgement,
  and no other can move the stage on (`TornStep`). The capacity order alone is not inductive: what keeps a
  repeated operation harmless is that each operation still on its way belongs to
  the resize under way, or to the one before *and the pool still has the size that
  one gave it* (`Known`), and that operations are met in the order of their
  generations (`PipeOrdered`). An acknowledgement, however late, reports what has
  happened (`Claim`).
* `ImplementsContractHolds`: initial states map to initial states, and under
  `ResizeInv` every step maps to a step of `ResizeContract` or to a stutter.
* `NoUnmappedAccessHolds` from `AccessInv`: on top of `ResizeInv`, a rank that has
  not started its pass is in the step the engine waits for (`PassToCome`), and when
  the leader is done every other rank has started (`LeaderLast`). So the blocks of
  a pass are exposed when it starts, and only the worker itself, outside the pass,
  changes its mapping. A worker that a shrink left torn serves on; its blocks lie below
  the shrink's target (`TornAccess`), which the scheduler has retired to before.

`LeaseLifecycleProofs`

* `TypeCorrect`, `LeaseOwnedOnceHolds`, `SilentLeakOnlyAtShutdownHolds`, `AdmissionHoldsLeaseHolds`
  from `OwnerInv`, which adds what a callback holds at which point (`HoldInv`), that
  a release under way is for a lease without owner (`LateInv`), that whoever
  found a faster duplicate finds its entry until it returns (`RedundantInv`), and that
  nothing runs and the table is empty before `Start` (`ClosingInv`).
* `NoSilentExpiryHolds` from `TimeInv`, under the hypothesis
  `Timely`: TTL > interval + 3 calls (4 with live resize). For each point of the
  heartbeat loop, `Pass` is the time to the next renewal or failure; a lease in the
  table lasts that long and one call more (`TableInv`), because its request may be
  finished at the last moment and its commit still takes a call. The constructor
  does not check this: it accepts any TTL of at least a second with any timeout. The
  defaults (30 s, interval 10 s, 2 s for each socket operation) satisfy it, just:
  10 + 3 * 6 < 30.

`WorkerPartsProofs`

* `BlocksAccountedHolds` from `BlocksInv`: the property is inductive once it is said that
  until `bind` has succeeded the pool is as vLLM built it, and that spilled blocks are above
  the capacity. A rollback restores the queue,
  or the adapter says that it is ambiguous (`RollBackCases`).
* `MappingAccountedHolds` from `VmmInv`: while the mapping is open the table is a prefix
  of the segments, and where it ends follows from the resize that is pending
  (`TableEnds`): at the size without one, there or at the target when a growth failed,
  above the target while a shrink is not done. What is served is physically there, and
  before a driver call has failed all that the table has is (`VmmClean`).
* `HandlesAccountedHolds` from `CallInv`: while a call has its handles they are open and
  none was closed; afterwards each was closed once, unless the socket failed inside the
  frame: then none was.
* `HookIsHarmlessHolds` from `HookInv`: every replaced name is remembered once, with vLLM's
  own function (`PatchesKnown`); installation visits the modules in order and leaves
  vLLM's function in none it has visited (`InstallOrder`); vLLM's tensors come from the
  hook, and scheduling follows attachment and warm-up (`ServeOrder`).
* `RanksAgreeHolds` from `HandshakeInv`: no process is built before the pools are provided
  (`Provided`), every binding was selected by the rank that has it from the pools of its
  receipt (`Selections`), and a process that registered since the last resize has the count
  that every pool still has (`CountsSeen`).
* `MessagesArePartitionsHolds` from `WireInv`: the segments of the table do not meet
  (`Apart`), and they cut the mapped bytes while every operation applied was in step
  (`Tiled`). `ByOffset`
  is defined by what sorting returns, so that there is such an order is a lemma
  (`Sortable`): the shortest list that had none would be one longer than a list that has
  one. The validation's loop then has a closed form (`CoverEndIs`): it ends at the end of
  the last segment, or it refused one. A list it accepts cuts the range (`DenseIsCut`) and
  one that cuts the range is accepted (`CutIsDense`), whatever its order (`RearrangedCut`).

`AdapterPartsProofs`

* `ReplacesInOrderHolds` from `SessionInv`: each model's queue is free of duplicates, lists
  the bucket map, stays within the capacity and is ordered by the last request
  (`QueueOK`); a slot that holds a refused model has a loader that is about to undo it
  (`SlotWatched`).
* `PoolsAccountedHolds` from `PoolsInv`, which adds the sizes (`Sized`): a call has a pool of
  the model it looked up, and a pool in use has sessions, no fewer than run. Then the
  pools alive are those of the live models, which a pool's place in its model's queue
  tells apart (`KeptBounded`), and those of calls on evicted ones. `LoadOK` adds what a
  loading thread holds at which point, and that the slot holds the model of the one loading
  thread, if any, under which it was not emptied. What a sum over a
  finite set is bounded by (`SumExists`, `SumBound`) is shown by taking the smallest
  number of elements for which it would fail.
* `BucketSessionsCorrect`: both, without the bounds of the instance.
* `MemoryAccountedHolds`: keys belong to one instance (`KeysOwned`), scopes are those of
  the thread's work (`WorksFor`), and an allocation knows the client it was charged to.

`CallsReturnProofs`

* `CallsLeaveCleanHolds`, `CancelledNotOkHolds` from `GenerationInv`: a call is registered
  under its ID exactly while it has one (`Registered`); where a call is says whether its
  channel is open and what it may have emitted since its cancellation (`RecordOK`); where
  a managing thread is says who has the engine and what the path may be (`Managed`).

`SchedulerLifeProofs`

* `ServesOnlyWholeHolds` from `StartupInv`: an attached worker took its handles in the
  coordinator's present epoch, only an attached worker set is active, and while the
  scheduler runs every worker is attached in the scheduler's epoch (`WorkerOK`).

`ToolPartsProofs`

* `VerdictIsMeasuredHolds` from `ParityInv`: at most the session's own group is alive
  (`Alone`), no answer is another session's (`Honest`), and what has been measured
  is what the sequence has come to (`Counted`, `Recorded`, `Judged`).
* `CertificateIsEarnedHolds` from `ProbeInv`. No rank is past a barrier that another
  running rank has not reached (`Lockstep`), so where the ranks are says what is mapped,
  attached and active (`Held`); a gate is claimed only after its test (`Earned`), a report
  claims no more (`Filed`), where the main process is says which files exist (`Signed`), and
  renewal is claimed only once the heartbeat has stopped unrefused (`Renewed`).
* `ReleaseIsOneBuildHolds` from `ReleaseInv`. For each profile the checksum is written
  after the manifest of its build and a later build replaces the archive first
  (`HandoffOK`); where `prepare-profile` is says which files its directory holds
  (`OutputOK`). The parts of an archive are given in closed form, so that any archive and
  part size is covered. Names do not tell builds apart, so the proof shows that
  nothing can be uploaded between the check of the draft and its index.
* `PlansAreChecked` from `PlannerInv`: where `run()` is says where descriptor 1 points, what
  became of the executor and what has been checked.
* `GrantsKeepPolicy`, `GrantHoldsConcurrency`, `MoreConcurrencyIsNotLess` are about
  `size_rank` itself, for words of any width; the second says also that a grant without a
  byte cap holds the target. Their hypothesis is what
  `extract_rank_geometry` gives: a positive block size, a positive number of blocks to a
  sequence, one null block. They rest on lemmas about division (`Quotient`, `CeilDiv`,
  `RoundUp`, `RoundDown`) and on the capacity being monotone (`CapacityGrows`).
* `PlanIsSoundHolds` from `PlanInv`, which adds to `PlannerInv` that the configurations kept
  are ones the geometry checks accepted, that every way to `plan` has some, and that a
  printed plan's maxima add up (`Accepted`). From a configuration to the hypothesis of the
  theorems on `size_rank` lead lemmas on the planner's sums (`TotalBound`,
  `CheckedPositive`, `TotalOfEqual`, all from `SumBound`): the bytes `bytes_per_group_block`
  gives, from one page or from the inner pages, are what the layers physically take
  (`GroupBytes`); the quotient of `_size_group` is the least number of blocks that holds a
  sequence (`GroupNeeds`), and so the sum over the groups is what a pool needs (`RankIsOK`);
  ranks that agree on their groups' geometry agree on the stride (`SameBlocks`).

Only model-checked, and why:

* the liveness properties, and `CancelledEnds` and `CommandsEnd` with them: the prover does
  not treat fairness or `ENABLED`.

Every invariant the passing runs check, and every action property, is stated by a
theorem (`NoStrandedWaiter` and `NoSilentExpiry` under the hypotheses given above). Where a proof needs induction over data (a sum over a finite set, sorting, the
turns of a loop), it takes the least counterexample instead (`LeastOf`): the library's
induction theorems cannot be instantiated by these provers.

## Plan

1. `VmmBuffer` and `ElasticBlockPool` as refinements of the single steps of
   `ElasticResize`.
2. `stack_group` and `split_stacked_output` against a reference over bounded shapes.

Not modelled: preprocessing, task and tensor conversion (floating point), profile
tables (comparison with constants), numerical comparison in probe and parity tool (one
verdict), the ELF closure of `package_accelerator.py` and the download of the TensorRT
runtime (file processing without state that outlives a call), the capture and compare
commands of the parity tool (parts of certify, run by hand), checks of single fields in
`contract.py`, the wording of messages and logs, and vLLM, ONNX Runtime, CUDA and Kapsl
themselves beyond what the code here relies on.
