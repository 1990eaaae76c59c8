# Paged-Batch-Engine: models and proofs

A TLA+ development kept beside the Paged-Batch-Engine source tree. Paths below are
relative to the repository root; `infMain/source` and `infMain/include` hold the
C++ code, `tools/serving` the supervisor that starts and stops deployments.

Paged-Batch-Engine serves large language models on one machine. Its readme names
three deployments: split prefill/decode on one GPU ("2P1D"), a multi-role
deployment with a data service, and several models that share one KV arena. All
three rest on the same idea: KV pages and tensors live in GPU memory that several
*processes* map, and everything about who may touch which bytes when is agreed by
messages. That agreement is what this project models.

## 1. Inventory

| Component | State | Operations | Talks to | Hard because of |
|---|---|---|---|---|
| **Chunk allocator** `base/global_chunk_allocator` | free intervals, leases, quotas, generation | register, acquire, release | called by the owner | long sequences of splits and merges; duplicate and stale releases |
| **KV memory owner** `base/shared_kv_owner` | the device allocation, its epoch, an allocator | request loop, shutdown | clients over ZMQ | restart under live clients; shutdown under users |
| **KV client** `base/shared_kv_client` | socket, `failed` | acquire, release, 5 s receive limit | owner | lost answers to committed calls |
| **Page group** `base/shared_kv_arena` | chunks, pages, free list, retiring queue, per-layer queues | allocate, retire, collect, destructor | client, CUDA stream | GPU fences, rollback, a throw in mid-collect |
| **Sequence KV manager** `base/sequence_kv_manager` | block tables per layer | append, release, truncate, share | allocator / page group | rollback of a partial append, copy on write |
| **Block allocator, KV manager, radix cache** `base/block_allocator`, `base/kv_cache_manager`, `compressed_radix_cache_tree.h` | reference counts, leases, tree of cached prefixes | allocate, free, publish, match, evict | scheduler | eviction against live leases |
| **Split prefill/decode loop** `serving/split_pd_engine` | two lanes, admission counters, decoding table | dispatch, copy, decode, finish | both prefill processes, clients | many exits per request; two asynchronous exchanges; cancellation |
| **Prefill worker** `serving/serving_zmq_engine_core` (`RemotePrefillBatchWorker`) | requests, retained handoffs | submit, poll, cancel, release, batch, stop | decode process | server thread against batch thread; pages held for another process |
| **Request handle and engine front** `serving/serving_online_engine` | handle state, queues, `stopping_` | submit, cancel, stop, wait | HTTP or ZMQ server thread | cancel against finish |
| **Scheduler and checkpoints** `serving/scheduler`, `serving/request_checkpoint` | waiting, running, preempted, suspended | admit, preempt, suspend, restore, cancel | KV manager | preemption loops, lost requests |
| **Data service** `data/data_runtime`, `data/content_registry` | objects, leases, operation ids | reserve, seal, acquire, release, withdraw | clients over a Unix socket | retries, delayed duplicates, dead clients |
| **Node agent, IPC slots** `data/node_agent`, `data/data_client`, `data/ipc_pool` | slot owners, grants, attaches | reserve/release slots, attach, shared weights | same | idempotence, death of a process that holds slots |
| **Page cache tiers** `cache/*` | page directory, transfers, host store | migrate, restore, evict | scheduler | a page used while it moves |
| **PD handoff, multi-GPU PD** `serving/pd_*` | reservations, manifests | hand over KV by P2P, NCCL, CPU | two engines | partial failure of a transfer |
| **Engine pool, placement** `serving/serving_online_engine_pool`, ... | engines, routes | route submit and cancel | engines | routing after failure |
| **Language roles and PD coordinator** `demo/pbe_vlm_language_role.cpp`, `python/pbe_roles/pd_runtime.py` | command queue, reservations, handoffs, memory budget; the stage of each submit | submit, cancel, reserve, prefill, decode, unreserve, release | each other over pipes, the data service | a command given up is served late; a reclaim that fails half way; generations of one id |
| **Supervisor** `tools/serving/deployment_lifecycle.py` | child processes | start, drain, stop in order, kill | all processes | shutdown order |
| Models, operators, kernels, tensors, samplers | – | numerical code | – | not a protocol |
| HTTP/ZMQ front ends, configuration, benchmarks | – | parsing, I/O | – | not a protocol |

What makes each part correct:

* allocator: no byte with two owners, none lost, quotas exact, refusals genuine;
* page group and owner: no page reused under GPU work, the two views of the chunks
  agree up to the message in flight, an unknown outcome never leads to reuse;
* split loop and prefill worker: the source of a copy outlives the copy, every
  request is settled once, admission returns to zero, prefill pages come back;
* data service: a lease keeps its object, equal content converges, retries are
  idempotent, nothing is left behind but by a client that gave up;
* IPC slots: no slot changes hands under a client that maps it, and slots come back;
* scheduler: a request is in exactly one queue, its KV is what its tokens say, no
  token a client was sent is taken back, and every request ends;
* block allocator, radix cache and tiers: every slot a request reads was written for
  the tokens before it, reference counts and pins are exact, a promised block stays;
* roles and coordinator: the budget of a role is exact, the source of a decode is held
  until the decode ends, and a submit leaves nothing behind.

The full list of hazards, each with its source line and the properties aimed at it,
is in `PROJECT.json` under `hazards`.

## 2. Modules

```
ChunkAllocator ── extended by ──> ChunkArena ──> MCChunkArena, ChunkArena_proofs
      └────────── extended by ──> SharedKV   ──> MCSharedKV, SharedKV_proofs
ChunkArena_proofs <── instantiated by ── SharedKV_proofs
ExclusiveArena <── implemented by ── SharedKV
SplitPD ─────────────────────────────────────> MCSplitPD, SplitPD_proofs
DataProtocol <── ContentRegistry <── DataService ──> MCDataService, DataService_proofs
      ^───────── SlotPool <── IpcSlots ────────────> MCIpcSlots, IpcSlots_proofs
Scheduler <── OnlineEngine ──────────────────> MCOnlineEngine, OnlineEngine_proofs
PageCache <── KVCache ───────────────────────> MCKVCache
      ^────── HostTier ──────────────────────> MCHostTier
PDRoles ─────────────────────────────────────> MCPDRoles, PDRoles_proofs
```

### ChunkAllocator, ChunkArena

`ChunkAllocator` is `GlobalChunkAllocator`: the free map becomes a set of intervals
`[offset, bytes]`, the lease map a set of descriptors. `Acquire` picks the interval
with the least waste as the scan does (ties by offset), splits it, and leaves padding
and tail free; `Release` checks the identity, merges with both neighbours and gives
the quota back. A call that throws changes nothing, so it appears only as a
condition (`CanAcquire`, `Releasable`) its callers branch on. One unit of the model
is one 256-byte granule.

`ChunkArena` adds what drives the allocator through the owner's loop: clients that
keep descriptors, may send a release again, and an owner that dies and starts over
under a higher epoch while generations start again from 1. In the code the epoch is
a clock reading; the model counts.

### SharedKV

Workers (one per model) with a `SharedKVPageGroup` each, the owner, and the GPU
stream of each worker. A step is what runs without waiting for another process or
the GPU. The group mutex is held across the exchange with the owner, so `pc[w]` is
the place in the running group call: `collect`, `release` (waiting), `reserve`,
`acquire` (waiting), `fill`, `stop`, `farewell`.

* `CollectPage`, `CollectStops`, `ChunkReturned`, `ReleaseThrows` are `collect_locked`;
* `StartAppend`, `Reserve*`, `Chunk*`, `NoPage`, `Fill` are an append of
  `SequenceKVManager` and the `allocate` calls it makes. The calls for upper layers do
  not collect and send nothing, so `Fill` takes them together;
* `StartRelease`, `RetireNext`, `ReleaseDone` are `release_all`, one `retire` a step, layer
  by layer: `left` has the pages each layer still has to give up, after a failed append
  those layer 0 took;
* `Stop*` is the destructor, `Poll` the `num_free_blocks` call of the scheduler;
* `call[w]` is the REQ/REP exchange; `Timeout` is a receive that ends without an
  answer: the client fails for good (`lost`), the request becomes an `orphan` the
  owner may still serve;
* `Launch` and `GpuStep` are the stream: kernels over the pages of some sequences, and
  fences, completed in order. A page id is its offset in half planes, as in the code.

Page contents, layer planes and strings are abstracted; all-layer pages and the
reservation queues of the upper layers are kept because rollback is about them.

### ExclusiveArena

The abstract specification: units of memory with one holder each, and per model a
queue of submitted GPU work. Units are granted only when nobody holds them and
returned only when no submitted work touches them. `SharedKV` implements it with
`holder[u]` read off the owner's leases and `working` off the streams, where a fence is
work on nothing. The run `shared_kv` checks this on its instance, `SharedKV_proofs` proves
it for all. The interesting step is the owner's: when it serves a release – also one whose client
no longer waits – the pages must be quiet; and a worker must not launch work on a chunk
whose release it could not confirm.

### SplitPD

`run_split_pd_loop` of the decode process D and `RemotePrefillBatchWorker` of the two
prefill processes P. `dpc` is the position of D's single thread in the loop
(`result`/`dispatch` per lane, `copy` while the device copy runs, `sweep`, `decode`,
`reap`, `wait`). Each lane has one asynchronous exchange with its P: `lane[l].prefill`
is the state of the prefill thread (submit, then poll or cancel until ready),
`lane[l].releasing` that of the release thread. Admission (`active`, `used`) is
`SplitPDAdmission`. On P, a request is `waiting`, `inflight`, then `failed`, `eos` or
`ok`; `src` says which pages P holds. Submit, cancel and release wait for the running
batch (the exec lock), polls do not. `Outcome` is `OnlineRequestHandle::finish`.

An exchange that fails is `LOG(FATAL)`: D becomes `dead`, requests it sent may still
be served (`orphan`). The supervisor stops P only after D, which is the guard of
`WorkerStops`.

Abstractions: token values are `text`, `eos`, or one that completes a stop sequence;
P's page capacity is not modelled (`tools/serving/deploy_split_pd.py` refuses
configurations in which it could run out), nor are errors of submit (oversized prompts
and full queues are refused by D first). `CommitFails` and `CopyRejected` stand for the
exceptions of `copy_shared_kv` after and before the copy. Exceptions out of
`finish` are not modelled.

### DataProtocol, ContentRegistry, DataService

`DataProtocol` is what the clients of the node agent share: `transact` sends a request
on a connection of its own and waits up to a deadline, and `acquire`,
`reserve_ipc_slots` and `acquire_ipc_attach` send once more when nothing came (the
constant `Resent` names them).

`ContentRegistry` is `LocalDataRuntime` under `ContentRegistry`: one mutex, so each
operation is a function from the registry to the one it leaves and its answer.
`Seal` publishes an object, yields to one with the same bytes, or quarantines;
`CollectIfUnused` runs at the end of withdraw, of `release_producer` and of a lease.
`std::terminate` and an exception that leaves a worker thread set `down`. Not here:
`reclaim_quarantine`, which no request reaches, wrong sizes (clients send what they
reserved), and generations, which never differ because ids are not used twice.

`DataService` adds the clients – a producer as in `PDPrefill` and `PDRelease`, a
consumer as in `PDDecode` – and the wire, a set of requests that eight worker threads
serve in any order, also after the client has stopped waiting. `lost` is the set of
clients that gave up on some answer. A restart ends open requests and starts an empty
registry under the next incarnation (in the code a process id mixed with a clock).
`Casts` says which clients come together and whether there is a restart, `Impatient`
which of them may stop waiting.

### SlotPool, IpcSlots

`SlotPool` holds the grants and attaches of `NodeAgent` under `ipc_pool_mutex_`;
`IpcSlots` the roles: a provider reserves (`serving_qwen`, the constructor of the
language role), keeps its pages in the slots and gives the grant back when it ends; a
consumer imports a handoff, attaches, detaches and drops its metadata lease. An attach
is two steps, `Validate` (mutex of the registry) and `Attach` (mutex of the pool). Of
the registry only the metadata leases are kept, one per consumer. `Die` kills a client.
What a role does *inside* its grant, request by request, is `PDRoles`.

### Scheduler, OnlineEngine

`Scheduler` is the continuous-batching scheduler with its checkpoint store. One thread
owns it; `pc` is its place in `schedule_step`: decodes first, then the chunks of running
prefills, then what it admits from `waiting_` or restores from `suspended_`, then the
no-progress rule. A KV handle is the number of tokens it holds (prefix sharing is off),
so that preemption, rollback and recompute are arithmetic on blocks; of a token only
counts whether it is known. `generated` and `outputs` are two counters, because an end
token that does not end its request (`ignore_eos`, or before `min_new_tokens`) is the next
input, and has KV, but is not part of the output. `Candidate` is the reference
`admit_waiting_prefills` holds to the front of `waiting_`: `idx` says where in the queue
that element is after a preemption has inserted others. All policies (FCFS and priority, recompute and checkpoint,
limits on partial prefills) are values of `setup`.

`OnlineEngine` is the owner loop of `OnlineServingEngine`: flush submissions and
cancellations, schedule, forward, process the outputs, publish. Those queues are read at
one place each, so a client's call is an action there. A forward pass may fail
(`ForwardFails`): the step then ends with the slots reserved and nothing processed, and
the `scheduled_tokens` it leaves (`stuck`) keep its sequences from being checkpointed.
Some sequences of calls end in behaviour the language does not define, in a `CHECK`, or
in queues the scheduler no longer owns up to; such a behaviour ends in the model with
`aborted` naming the reason:

| `aborted` | reason |
|---|---|
| `"pointer"` | an element of `running_` was erased while the batch points into it |
| `"front"` | an insertion into the middle of `waiting_` has made the reference of the admission invalid |
| `"lost"` | the admission moved the element of its reference and popped another request, which was put in front of it |
| `"reserve"` | the batch was promised blocks that are gone (`CHECK`, `qwen2_batch.cpp:504`) |
| `"context"` | a handle holds more than its request has to recompute (`CHECK`, `scheduler.cpp:1056`) |
| `"free"` | a KV handle is freed twice |

### PageCache, KVCache, HostTier

`PageCache` is what both forms of `KVCacheManager` share: counted blocks, the page
directory, the compressed radix tree with its pins and LRU order, the block tables.
One layer stands for all (they take every step together), the free block taken is the
lowest, and a node is named by the prefix it ends at. `data` records for which *text* a
block was last written, since a KV slot depends on all tokens before it; that is what
lets a property say that a request never reads another request's KV.

`KVCache` is the manager without a host tier: register and adopt, append with eviction
and copy on write, compute, publish, fork, snapshot and restore, free, clear. The owner
thread runs one operation at a time, in any order callers may ask for.

`HostTier` is the one with a host store. Its steps feed one another, so each is a
function from the owner's `State` record to the next: promotion of waiters, start of
demotions and restores, service of finished flights, orphans of cancelled requests,
reserved blocks. `CopyEnds` is the backend, which the owner sees only when it polls.
Not here: ageing of the transfer queue, copies whose outcome stays unknown and the
quarantine of their slots, lanes between devices, branches and snapshots; nor the bound
on the objects of the recovery graph. Most callers tolerate a full graph, but the end of a
restore does not: its `CHECK` (`kv_cache_manager.cpp:963`) ends the process there.

### PDRoles

The coordinator (one thread per submit) and two language roles, P and D. A role reads its
pipe on one thread, answers a cancel there, and queues everything else for its owner
thread; `queue[w]` stands for pipe and queue. A submit reserves on both roles, prefills,
decodes and reclaims; `Call`, `TimesOut` and the `Reclaim` actions are the waits of
`pd_runtime.py`, and a command the coordinator gave up stays in the queue of the role.
`used[w]` is the role's memory budget. `offered` is no variable of the code but what the
trace of a request says: its submit has come to send the decode. A probe that throws is
not told from one that finds no room, as the submit treats both alike; the branch of
`PDReserve` for a repeated reservation is left out, because the coordinator sends one per
role and generation. One P and one D, one KV pool each; roles are not
restarted. Vision encoding succeeds or fails. The batched infer command, checkpoints and
prefix commands of a role are not here.

## 3. Runs

| Run | Question | Bounds and why they are enough |
|---|---|---|
| `chunk_arena` | Do all sequences of calls keep the metadata a tiling with exact quotas and genuine refusals, and late or duplicate releases harmless over a restart? | 8 units, sizes and alignments 2 and 3, two epochs with three leases each: padding, tails, merges on either or both sides, fragmentation, both kinds of refusal, and ids that coincide across epochs |
| `shared_kv` | Has every page one owner, does reuse wait for the GPU, do group and owner agree on the chunks, and is the whole an `ExclusiveArena`? | a one-layer and a two-layer model with chunks of two pages on 8 units, two sequences of two blocks each, two chunk generations: a refused chunk retried as a page, a failed append with rollback, fences behind kernels, partial chunks, memory that changes hands; worker A may time out and crash |
| `shared_kv_live` | Do retired pages and calls come back? | as above with one kernel and one chunk generation at a time, the owner may shut down |
| `split_pd` | Are sources, promises and outcomes right? | two requests that exceed a lane's tokens together, one that fits no lane, two-step prompts; P of lane 0 may die or answer late |
| `split_pd_live` | Does everything end? | the two competing requests; prompts in one chunk |
| `data_service` | Do leases, published objects and counters stay consistent under repeated, late and reordered requests, and over a restart? | three producers of one identity, one with other bytes, and a repeating consumer; or two producers and two consumers of one process over a restart; room for two objects: converging, quarantine, a full registry, withdrawal before and after the lease, ids that coincide across incarnations |
| `ipc_slots` | Does any slot change hands under a client that maps it, and do the slots of a provider that leaves come back? | two slots, grants of two and of one that take turns, one consumer (so that a grant has one attach at a time; the theorems are about any number), a restart, repeats, kills |
| `online_engine` | Is every request accounted for and settled, under every policy, when forward passes fail, and until an admission pops another request than it admitted? | two to four requests on four blocks of two, six tokens and three sequences a batch, two checkpoint records; workloads in which decodes evict each other, a prompt that never fits, priorities against arrival order, a client that leaves; up to three failed passes, in a prefill, a decode and a recompute; and four requests of which one that decode preempted outranks the one admitted. All the values of `aborted` are reached |
| `kv_cache` | Does every block hold the text of those who read it, and are counts and pins exact? | three requests or branches of prompts that share a block, four blocks of two: adoption, node splits, eviction under pressure, copy on write, snapshots |
| `host_tier` | The same while pages move to the host and back, and does every waiting request go on? | four requests of one prompt of two pages and a token, three blocks, two host pages, two copies at a time: shared flights, failed copies, cancelled waiters, a full host |
| `host_tier_clear` | Does `clear_radix_cache` survive a cancelled restore? (no) | the same instance |
| `pd_roles` | Is the budget of a role exact, does D read only what P holds, and does a submit leave nothing behind? | two generations of one id, one late, one cancelled, room for one on either role, a queue of one command: late commands of the first generation meet the second, reclaims are refused |

`MaxGeneration`, `MaxEpoch`, `MaxBlocks`, `MaxKernels`, `MaxQueue`, `MaxRestarts`, `MaxNew`,
`Requests`, the `submits`, `cancels` and `fails` of a `Setup`, `Faulty`, `Lossy`, `Impatient`, `Hasty` and `Fickle` are the bounds; each is a guard
of the action it limits. Deadlock checking is off because the systems may stop: workers
leave, D dies, requests end, or a bound is reached. Symmetry is used where the names are
interchangeable and no liveness is checked.

### Fairness

* `SharedKV!FairSpec`: a worker goes on with a call it has begun, the owner's loop
  serves while it lives, the GPU completes its stream, a receive ends after five
  seconds (`shared_kv_client.cpp:66`), and `num_free_blocks` is asked again and again
  (the scheduler and the health report do). Nothing forces appends, launches, stops or
  crashes.
* `SplitPD!FairSpec`: D's loop, its exchange threads, P's server and batch threads are
  scheduled, a receive ends after its timeout. Clients, the supervisor and failures
  are not fair.

* `IpcSlots!LiveSpec`: a request is served once it was read, and a decode ends, because
  it has a deadline. Nothing forces a provider to leave; time-outs and kills are not
  fair.
* `OnlineEngine!FairSpec`: the owner thread goes on with its loop; clients owe nothing, and
  no forward pass need fail.
* `HostTier!FairSpec`: the backend ends every copy (well or badly), and the owner's loop
  polls as long as it has requests and something to see. `ServiceDue` spells out when
  a poll changes something.
* `PDRoles!FairSpec`: a submit goes on when it is answered, a cancel reaches the roles,
  and owner threads work off their queues. Deadlines need not pass.

### What the runs show

All properties of the `pass` runs hold. One run shows a disagreement between the code and
what its documents say (`findings` in `PROJECT.json`):

* `host_tier_clear`: a cancelled restore becomes an orphan that is drained without
  resetting the in-flight mark of its page (`base/kv_cache_manager.cpp:1136`), so the page
  is never demoted again and `clear_radix_cache` ends the process on its `CHECK` (`:619`).

The observations worth knowing:

* under priority, `admit_waiting_prefills` keeps a reference to the front of
  `waiting_` across a preemption that inserts into it. If decode has preempted a request
  that outranks the front, the admitted element moves to `running_` and `pop_front` destroys
  the other (`serving/scheduler.cpp:841`, `:868-869`): one request is in no queue, the other
  in both. `online_engine` reaches it (`aborted = "lost"`) with four requests, and a
  behaviour of the model ends there;
* a step whose forward pass fails returns (`serving_online_engine.cpp:986`)
  with the KV slots of its chunks reserved and `computed_tokens` as it was, so the next
  chunk goes into slots behind those it belongs in. Later a recompute may find more in the
  handle than it has to compute, which is a `CHECK` (`scheduler.cpp:1056`; `aborted = "context"`);
* `NeverTerminates` rests on the clients: with `"seal"` in `Resent` (no client of the
  repository repeats a seal, and `ClientAssumption` excludes it) it fails, because a repeated seal of an object that
  yielded reads the one it yielded to, which may be gone (`data/data_runtime.cpp:128`);
* what a client that gave up on an answer reserved, sealed, leased or attached stays
  until the service restarts: the `lost` of `TokensAgree` is exactly that set, and
  quarantined objects stay in any case, as no request reaches `reclaim_quarantine`;
* reuse of memory after a lost answer is prevented by `failed` alone: if collecting
  went on after a release that threw, the freed page would be handed out from a chunk
  the owner may have given to another model (the mutant of `ImplementsExclusive`);
* without the rollback in `retire`, the next append would take stale pages for the
  upper layers (mutant of `BooksAgree`);
* a handle that a stop sequence ended is finished a second time by the sweep; the
  terminal check in `finish` and `stopped_by_sequence` together keep its outcome;
* the decode loop never lacks a page for an admitted request: what it holds is bounded
  by what it promised (`AdmissionSound`), so the `CHECK` against recomputation cannot
  fire for lack of KV;
* the agent finds the operation of a repeated `reserve_ipc_slots` but answers
  `invalid_argument`, because only the other branch sets the status
  (`data/node_agent.cpp:146`); the role gives up and its slots stay granted. And
  `release` forgets the operation id (`data/content_registry.cpp:82`), so a late first
  attempt of an acquire makes a second lease that nobody releases;
* under priority scheduling a victim may be erased from `running_` while the batch points
  into it, the blocks are counted again without those the batch was promised, and the
  admission may pop a request it did not admit; with checkpoints a client that cancels a
  request just suspended frees its handle twice. `ProcessSurvives` says for which policies
  none of this can happen; under priority the properties of the engine describe it up to
  the first of these events;
* a decode that D turns away, because of a cancel or as its queue is full, keeps its
  reservation on D for good; a
  prefill that fails after the forward pass keeps its KV pages on P; a `pd_prefill` served
  after its reclaim makes a handoff nobody releases; the reclaim's own commands are
  refused when the queue is full. `docs/PBE_MULTI_ROLE_MULTIMODAL_EXECUTION_PLAN_V4_20260912.md:574`
  asks for all of these to be released; `NothingLeft` and `BudgetExact` say what does hold.

## 4. Proofs

TLC checks an instance; the theorems below hold for all values of the constants that
satisfy the named assumptions (`tlapm` checks every leaf). Where a behaviour of the model
ends because the code goes on from undefined or unmodelled memory (`aborted`), the theorems
speak of it up to that state. Each `*_proofs` module states
an inductive invariant `IInv`, proves that `Init` implies it and that every step keeps
it, one lemma per action, and derives the properties from it. `IInv` was checked by TLC
on the instances of the runs before it was proved.

| module | theorems (property) |
| --- | --- |
| `SharedKV_proofs` | `WorkersTyped` (`TypeOK`), `UseStaysExclusive` (`PagesExclusive`), `BooksStayAgreed` (`BooksAgree`), `ArenaIsExclusive` (`ImplementsExclusive`), `WorkStaysHeld`, `Inductive` |
| `ChunkArena_proofs` | `TypeCorrect` (`TypeOK`), `ArenaTiled` (`Tiled`), `HolderKeeps` (`HolderKeepsChunk`), `QuotaIsExact` (`QuotaExact`), `RefusalsGenuine` (`RefusalIsGenuine`) |
| `SplitPD_proofs` | `TypeCorrect` (`TypeOK`), `SourcesAreHeld` (`SourcesHeld`), `AdmissionIsSound` (`AdmissionSound`), `OutcomesAreFinal` (`OutcomeIsFinal`) |
| `DataService_proofs` | `TypeCorrect` (`TypeOK`), `ServiceSurvives` (`NeverTerminates`), `ContentIsExact` (`ContentExact`), `TokensAreGood` (`TokensAgree`) |
| `IpcSlots_proofs` | `TypeCorrect` (`TypeOK`), `SlotsAreExclusive` (`SlotsExclusive`), `NothingIsStranded` (`NothingStranded`) |
| `OnlineEngine_proofs` | `EngineTyped` (`TypeOK`), `RequestsStayAccounted` (`RequestsAccounted`), `EngineSurvives` (`ProcessSurvives`), `OutputsStayKept` (`OutputsKept`), `Inductive` |
| `PDRoles_proofs` | `TypeCorrect` (`TypeOK`), `BudgetIsExact` (`BudgetExact`), `SourceIsHeld` (`SourceHeld`), `NothingIsLeft` (`NothingLeft`) |

**Allocator** (`ChunkArena_proofs`). Assumptions: a positive arena
and positive sizes, alignments and limits. What `register_model`, `acquire` and `release`
keep, whoever calls them, is proved once, in the lemmas of the first part (`AllocOK`);
`SharedKV_proofs` takes them from an instance of the module. For `ChunkArena`, `IInv` is the conjunction of `TypeOK`, the tiling
(`Disjoint`, `Covered`, `Coalesced`), `HolderKeepsChunk`, and two facts about
identities. The tiling must be proved as a whole: that a release may merge with at most
one interval on each side needs `Disjoint`, that the merged one touches nothing else
needs `Coalesced`. The identities are needed because a token is compared by id and
generation: a live lease has the current epoch, an id equal to its generation and below
the next one (`LeaseIdentity`), and no descriptor is held and returned at once or
claims an unused generation (`TokenIdentity`). `AcquireTiles` and `ReleaseTiles` carry
the arithmetic of splitting and merging. The quota (`QInv`) is inductive on top:
`ApartUnits` and `ChunkSize` turn disjoint intervals into sums of cardinalities.
`RefusalsGenuine` is not inductive but follows from `Coalesced` and `Disjoint`: a run of
free units lies inside one interval (`RunInOneInterval`), and padding never skips an
aligned offset (`PaddedBelowAligned`).

**Shared arena** (`SharedKV_proofs`). Assumptions: every worker has a positive number of
layers, plane size, chunk target and quota; any number of workers and sequences. `IInv` is
`AllocOK` of the owner and, for each worker by itself, `WorkerOK`:

* `Control` says what the place in the group call implies: which answers may be waiting,
  when the client has failed, that a group that failed does nothing more than stop;
* `Geometry` and `Books` say what the chunks are and how they differ from the owner's
  leases: by the one exchange under way while no answer is lost, and after that a chunk the
  owner may no longer have, or may take any time on behalf of an `orphan`, has nothing but
  free pages. This is the fact the late release needs: it returns memory that is quiet;
* `Pages` places every page: in one block table with all layers active, in an append with
  all upper layers reserved in the same order, in a release where each layer is active on
  what it still has, or retiring. A failed append has two shapes, before and after the
  rollback of its pages (`FirstHas`, `LayersHave`), and goes from one to the other one page
  at a time;
* `Quiet` says that a submitted kernel works on pages that are not free, and that the fence
  of a retiring page is behind every kernel that has it. `PagesExclusive` alone is not
  inductive for lack of the latter.

The parts take values, not variables, so what a handler does to them is a lemma about values
(`...OK`), and the step (`...Keeps`) only says that the other workers' values stay
(`Others`, `OwnerMoves`). `PageInChunk` and `ApartPages` are the arithmetic of page ids. From
`IInv` follow the three invariants and the refinement: an acquire that is granted is a
`Grant`, a release that is served a `Return` of units no work touches (`FreeChunkQuiet`), a
forward pass a `Submit` on held units (`LaunchStep`), a crash `Die`, and all else stutters.
`WorkStaysHeld` says the same without the abstract specification: the GPU never works for a
model on memory that is not leased to it.

**Split loop** (`SplitPD_proofs`). Assumptions: finitely many requests, positive lengths,
page, chunk and lane sizes; either P may die or answer late. `IInv` has five parts. `Placement`: a
request is in its queue, in its lane or in the decoder and never in two of these
(`Moves` is what a step may do to it). `Agreement`, as long as D lives: the state of a
lane's exchange, the message under way with its answer, and what P has of that request
belong together (`Gone`, `Working`, `Held`), P has nothing of a request that is in no
lane, and a message D gave up on is about the request the lane still names. Without it
none of the three parts of `SourcesHeld` is inductive: that P answers no poll with an
error needs that P works on exactly the request asked after. `Contexts`: what D holds
of a running request lies between its prompt and its last token but one, nothing
otherwise. `AdmissionExact` and `Promised` are sums over the requests of a lane; the
proof splits each sum at the requests a step finishes or admits (`FinishReleases`,
`AdmitOne`), and `PromiseCovers` follows because rounding up to pages is monotonic
(`PagesGrow`). `OutcomesAreFinal` needs only that every handle changes through `finish`
(`Settles`). The proof attempt found one flaw of the model, not of the code: the arms of a
CASE in `Reply` overlapped, which TLC resolves in order but TLA+ leaves open.

**Engine** (`OnlineEngine_proofs`). Assumptions: any number of requests with positive prompts
and limits, a positive block size, pool, batch and chunk size, and any setup of
`SetupAssumption`: both policies, with recompute or checkpoints, any priorities, any limits
on partial prefills, any set of cancels, any number of failing forward passes. `IInv` is
`Sound \/ Lost`. Only one step leads to `Lost`: an admission under priority whose front
element changed under the reference the code holds (`FrontMoved`), and the behaviour ends
there, since which sequence is destroyed and which entry is left moved-from is no state of
the scheduler any more; `EngineSurvives` proves that FCFS never gets there, and the run
`online_engine` finds that priority does. `Sound` has seven parts. `Types` and `AllRequestsOK`
speak of one request at a time: `ShapeOf` says what its counters may be in each status, and
`KVOf` that its handle holds exactly the KV its counters claim, or its record does while it
is suspended; between the forward pass and `process_outputs` the handle is ahead of the
counters by the chunk of the batch (`Extra`), and once a pass has failed it may stay ahead of
them until a recompute or the end, so that it then holds at least what they claim. `Homes` is the agreement of the status with
the queues. It is weaker than `OneHome` where `schedule_step` is: a preempted or
checkpointed request stays in `running_` until it is reaped. `Batches` says of the rows what
`process_outputs` relies on: they are running requests, each once, decodes first, and nobody
else has tokens scheduled. Only the priority policy may break it, and then the behaviour ends
at the forward pass (`moved`). `Loops` says that what the cursors over `running_` have still
to visit is not scheduled yet, without which a request could get two rows. `Pool` is what
`EngineSurvives` needs: under FCFS, `freeLeft`, which the scheduler counts down, is at every
point of the step what the pool would have left if the model had reserved all chunks of the
batch (`Reserved`), because nothing is freed between the count and the reservation.
Priority preemption frees blocks in between and drops what was promised, so the clause, like
the property, is about FCFS. `Aborts` says where an engine that ended may have stopped.

What `schedule_step` does to one request are lemmas about its values (`DecodeRowOK`,
`ChunkRowOK`, `ChunkOK`, `PrefilledOK`, `RestoreOK`); `OneRequest`, `OnePlaced` and
`RowsGrow` carry them to the state. `FitChunkFits` is the arithmetic of block rounding.
The queues are rewritten by folds, and `FoldLeft` is a CHOOSE of a function: `TableAt`,
`TablesAgree` and `TableInduct` show that this function exists and is unique, and give
the invariant rule for folds that the induction theorems cannot give here. From it follow
`OnlyQueue`, `AgainQueue` and `ReadyQueue`, that no reaping, re-queueing or admission loses or
doubles a request. `OutputsStayKept` is not about states: each step is shown to keep the
outputs of every request it does not end.

**Data service** (`DataService_proofs`). Assumptions: capacities and `MaxRestarts` in
`Nat`, positive sizes, `Nothing` is neither a reference nor a client, and
`Resent \subseteq Calls \ {"seal"}`. `IInv` says of the registry alone that every index is
consistent both ways (identities and objects, tokens and leases), that reference counts are
cardinalities of the leases, that byte counters are sums over the objects that store
something, and that a retired object names a winner that exists as long as somebody may
follow it. Of each client it says what its call, its late calls and its answers may
still do: a seal is sent once and finds its object reserved; a late start, ping, reserve,
acquire or release of a client that gave up is harmless. The registry's operations are proved as functions of one
state (`RegInv`, `RegStep`), the steps of the service as one of these plus a move of a
client, so that only the clients whose tokens are touched need an argument of their own.

**Ipc slots** (`IpcSlots_proofs`). Assumptions: `MaxRestarts \in Nat`, numbers of
slots in `Nat`, and `Nothing` is no client. `IInv` says that the pool
partitions the slots into free ones and grants, that attaches and metadata refer to a
grant of the same generation, and of every client which of its requests may still
change the pool (`ClientOK`, `RequestOK`: a late reserve of a provider that gave up makes a grant that
is `lost`, nothing else). `PoolStep` and `Move` are the frames: what a call may change
of the pool, and what of the clients.

**Roles** (`PDRoles_proofs`). Assumptions: positive generations and demands, capacities in
`Nat`, a queue of at least one command, and "none" is no request. `IInv` says of the
queues that no command is in one twice and that D finds the decode of a request before
its unreserve, and of every request: each command is sent once, and only while its stage
says so (`Sending`) and remembered once it is a decode (`Offering`); what a role has of it was reserved once and is in one place
(`Taking`); a decode that runs or may still be served is one the submit waits for or
waits behind (`Reading`); a submit that was in time has one command under way, and a
role has of the request only what the submit knows of (`Waiting`, `Clearing`). `Reading`
is what `SourceHeld` lacks: a `pd_release` is sent only when no reservation is left to
give back, so that D has answered behind the decode, or the reclaim has recorded an error.
`Waiting` and `Clearing` hold until the deadline passes, which is why `NothingLeft`
asks for a submit in time. A step is about one request; `SubmitFrame` and `WorkFrame`
carry the others, and `BudgetEffect` the sums.

`SetLemmas` holds what these share: a non-empty family of subsets of a finite set has a
minimal member, which replaces induction over sets (the library's induction theorems take
an operator and cannot be instantiated here), and from it the laws of
`SumFunctionOnSet`: removing, adding, changing, splitting and bounding.

Only model-checked: everything about `KVCache` and `HostTier`, and
liveness (`WorkersProceed`, `SlotsComeBack`, `LoopDrains` and the others), which is out of
the prover's reach. `KVCache` and
`HostTier` use RECURSIVE operators (eviction and the service loop repeat until nothing
changes) and stay with TLC for that reason too.

## 5. Plan

Done: ChunkAllocator/ChunkArena, SharedKV with its refinement, SplitPD, DataService,
IpcSlots, PDRoles and Scheduler/OnlineEngine, all with proofs; PageCache with KVCache and
HostTier. Left, in this order:

1. Proofs: `BytesExact` of `KVCache`, once its eviction loop is written without RECURSIVE.
2. `RemotePD`: the two-GPU loop (`run_remote_pd_batch_loop`), its reservations and the
   handoff connectors. Reading suggests what to ask, but no run has checked it: a
   reservation of the decode pool disregards the growth of admitted decodes, so that a
   decode may be preempted for recompute, which the decode-only batch of this loop
   cannot do; partial prefills on P can wait for each other's blocks; a submit or poll
   that times out fails the request on D and leaves its pages on P.
3. The engine pool and its placement, the vision worker, the batched infer path of the
   roles, shared weights.

## 6. Not modelled

Numerical code (models, operators, kernels, samplers, tensors), byte layouts and codecs,
parsing and formatting in the front ends, configuration, benchmarks, and device memory
wrappers: no state that several parties agree on. Truncation of a sequence is called by
speculative decoding only. The components of section 5 that are still to come are listed
in `PROJECT.json` with status `not_modelled`, and what is left out of the others in the
notes of their entries.
