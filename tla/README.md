# TLA+ models of the Realm/Legion runtime sources

This directory holds TLA+ models of the concurrent parts of the runtime in
`src/`. Each module is checked with TLC. `PROJECT.json` lists:

- the components, modelled or not;
- the runs and the mutants that show each property can fail;
- the map from every model definition to the source lines it translates;
- the findings;
- the hazards the code is exposed to.

## Inventory of the system

| Part | Source | What it does | Status |
|---|---|---|---|
| GPU processor scheduler | `src/runtime/lowlevel_gpu.cc` 300-847 | Pool of `GPUThread`s that share one `running_thread` slot. See note 1. | modelled (GpuProcessor) |
| GPUWorker | `lowlevel_gpu.cc` 849-977 | One DMA thread shared by all GPUs. See note 2. | modelled (GpuProcessor) |
| GPU memories, fat-binary/function/variable registration, CUDA runtime shims | `lowlevel_gpu.cc` 979-1724 | Module and function registration for the tasks' host code, and the kernel-launch shim. Memories and the memory shims are bookkeeping around driver calls. | partly modelled (GpuModuleRegistry, GpuRuntime) |
| Transfer iterators | `src/runtime/realm/transfer/transfer.cc` 63-1118 | See note 3. | modelled (TransferIteratorIndexSpace, TransferIteratorRect, TransferIteratorZ) |
| Transfer planning | `transfer.cc` 1494-1929 | See note 4. | modelled (TransferPlan) |
| HDF5 iterator | `transfer.cc` 713-900 | Iterates an HDF5 dataset in hyperslabs. | modelled (TransferIteratorHDF5) |
| Operation pipeline | `src/runtime/legion_ops.h` | Operation and its subclasses. See note 5. | not modelled |
| Dependent-partitioning test | `src/test/realm/deppart.cc` | See note 6. | modelled (CircuitDeppart, PennantDeppart, MiniAeroDeppart, DeppartOps) |
| HIP, MPI, network, sparsity and instance headers | `src/runtime/realm/...` | Declarations and trivial inline accessors. | not modelled |

Notes on the table:

1. **GPU processor scheduler.** The threads serve `task_queue`, `copies` and `complete_jobs`. Tasks run round-robin on `task_streams`. The device reports completion through stream callbacks, which run on the driver's own thread.
2. **GPUWorker.** Processors hand it copies and completed jobs under `worker_lock`. It issues the copies on the per-kind streams and triggers the finish events.
3. **Transfer iterators.** They cut an index space or rectangle, field by field, into contiguous or 2-D pieces of at most `max_bytes`. `step` can be tentative, followed by `confirm_step` or `cancel_step`.
4. **Transfer planning.** `plan_copy` and `plan_fill` group fields by memory and instance pairs into plans. `execute_plan` runs them on the chosen DMA node.
5. **Operation pipeline.** Only the declarations are in `src`, so it can only be modelled from `spec.md`: the stages (mapping, execution, resolution, completion, commit) and the dependence counters.
6. **Dependent-partitioning test.** The circuit, mini-aero and pennant partition DAGs, built through chained events, and the expected-membership checks.

## How the GPU parts interact

**Producers.** Three kinds of caller feed work to a `GPUProcessor`:

- an application thread enqueues a task (`LocalProcessor::enqueue_task`);
- the DMA layer creates a `GPUMemcpy`, whose `run_or_wait` enqueues it now or once its start event triggers;
- the CUDA driver runs a stream callback (`handle_finish`) when the device reaches the end of a job.

**Waking a thread.** Each producer takes the processor mutex and appends to its queue. If `running_thread` is NULL, the producer either wakes the most recently parked thread or creates a new one. This is the "make sure there is a running thread" block, repeated in `handle_complete_job` and `enqueue_copy`.

**The running thread's loop (`execute_gpu`).** Under the mutex, the running thread either:

- parks, when there is nothing to do: it pushes itself on `available_threads`, clears `running_thread`, unlocks and sleeps; or
- takes work: it drains `complete_jobs` and pops one task.

Then, outside the mutex, it:

- launches the task on `task_streams[current_stream]`, whose `GPUTask::execute` adds the `handle_finish` callback after the kernels;
- advances `current_stream`;
- triggers the finish event of every drained job.

**The kill pill.** A task with func_id 0 ends the thread.

**With a GPUWorker.** Copies and completed jobs go to the worker instead. It snapshots both lists under `worker_lock`, clears the `copies_empty` and `jobs_empty` flags, and then, outside the lock:

- issues the copies (each one's callback goes on its kind's stream);
- triggers the finish events of the completed jobs.

## Modules

### GpuProcessor (with MC_GpuProcessor)

**State.** The variables are the members the code uses:

- `task_queue`, `copies`, `complete_jobs`, `running_thread`, `available_threads` (a stack), `current_stream`;
- `GPUWorker::copies`, `complete_jobs`, `copies_empty`, `jobs_empty`, `worker_shutdown_requested`.

The model adds:

- a per-thread control state: unstarted, loop, launch, presleep, asleep or exited;
- the thread's `awake()` flag;
- the locals of `execute_gpu` and of the worker loop that carry work across the unlock: `gpu_task`, `to_complete` and `ready_copies`.

**The device.** Each stream, task and DMA alike, is the sequence of jobs whose completion callback was added to it, plus a count of the callbacks already run. Callbacks on a stream run in order, as CUDA guarantees.

**Bookkeeping.** `submitted`, `waiting` and `finished` record which jobs were given to the processor, which copies wait on their start event, and whose finish event has triggered.

**Actions.** There is one action per handler, or per part of a handler that a lock or unlock separates:

| Action | Code |
|---|---|
| `SubmitTask`, `SubmitKill` | `enqueue_task` and the kill pill. Spec-modelled: LocalProcessor is not under `src/`. |
| `SubmitCopy`, `StartEventTriggered` | `run_or_wait`, `event_triggered` |
| `EnqueueCopy` | `GPUProcessor::enqueue_copy`, and `GPUWorker::enqueue_copy` through `WorkerEnqueueCopy` |
| `ExecuteIdle` | `execute_gpu` 610-619 |
| `ExecuteTake` | `execute_gpu` 620-666 (under the mutex) |
| `Launch` | `execute_gpu` 667-710 (after the unlock) |
| `Kill` | `execute_gpu` 641-653 |
| `Sleep`, `Resume` | `LocalThread::sleep`/`awake` (spec-modelled) |
| `StreamCallback` | `handle_finish`, then `handle_complete_job` |
| `WorkerTake`, `WorkerIssue`, `WorkerExit` | the three paths of `GPUWorker::thread_main` |
| `WorkerShutdown` | `GPUWorker::shutdown` |

`WakeOrStart` is the shared "make sure there is a running thread" block. It is part of every producer action, because the code does it inside the same handler.

The code at line 626 tests `ready_copies` (a fresh empty local vector) instead of `copies`. The model keeps this: `ExecuteTake` never moves copies.

**Environment assumptions.** The kill pill and `GPUWorker::shutdown` are sent only after every job given to the processor has finished. This is how the runtime shuts down.

### TransferIteratorRect (with MC_TransferIteratorRect)

This module models `TransferIteratorRect<N,T>`, `transfer.cc` 443-692.

**State.** The variables are the iterator's members:

- `p`, `field_idx`, `next_p`, `next_idx`, `tentative_valid`;
- the block size of the instance layout, chosen in `Init`.

**Actions.** `Step(max_bytes, tentative)` covers the whole of `step`:

- growth along the dimensions (`GrowFrom`);
- the AOS/hybrid block split (`LayoutSplit`, `ShrinkDims`);
- the carry into the next point (`CarryFrom`).

The other actions are `ConfirmStep`, `CancelStep` and `Reset`.

**Addresses.** The instance's byte address of a point in a blocked layout (`ByteAddrs`) is modelled from the layout description, because the layout code is not under `src/`.

**Properties.**

- **ImplementsContract.** The iterator implements `TransferIteratorContract` (see the refinement under TransferIteratorIndexSpace). `units` is the (field, point) product in Fortran order (`UnitOrder`); `pending` is the points of the open tentative step. Every final or confirmed step must hand out exactly the next units, so a skipped, repeated or out-of-order point is a violation; this replaces an earlier invariant that only compared the covered set with the iterator's position. `reset` clears `tentative_valid` here, and it refines the contract's `Restart`, which drops an open step.
- **ChunkIsContiguous.** Every returned piece covers exactly the contiguous byte range it claims.

The mutants are a carry that writes the last covered coordinate instead of the next one (ImplementsContract), a carry that never wraps (TypeOK) and an AOS block split that ignores where the image starts in its block (ChunkIsContiguous).

**Runs.** `iter_rect` covers:

- a 3x2x2 box, so a chunk may stop inside a row, a plane or the whole box;
- two fields of different sizes;
- block sizes that split a row (2), split a plane (4), equal a row (3), or hold the whole box (12, SOA);
- every `max_bytes` from one element to the whole field.

The same run checks the HDF5 iterator (below). `MC_TransferIteratorRect` composes the two as a disjoint union: `walker`, chosen in the initial state, says which iterator a behaviour steps, and the other keeps its initial state. The states therefore add up, to 2118 in about two minutes, most of it spent on the two temporal properties.

### TransferIteratorHDF5 (checked in MC_TransferIteratorRect)

This module models `TransferIteratorHDF5<DIM>`, `transfer.cc` 741-898 (built with `USE_HDF`). The state is `p`, `field_idx`, `next_p`, `next_idx`, `tentative_valid` and the `AddressInfoHDF5` of the last step.

- `Step(max_bytes, tentative)` is `step(max_bytes, AddressInfoHDF5&, tentative)`. With fewer bytes than one element it returns 0, after setting the dataset and datatype ids. Otherwise it grows the sub-rectangle from `p` dimension by dimension (`GrowFrom`, as in the Rect iterator but with no layout split), translates it into the dataset's C-order offset, extent and bounds by reversing the dimension index (`Hyperslab`, `Rev`), and carries `next_p` (`CarryFrom`).
- `ConfirmStep`, `CancelStep`, `Reset` and `Done` are the other methods. `reset` leaves `tentative_valid` as it is, as in the index-space iterators, so `Reset` is taken only with no tentative step open. `reset` has no caller under `src/`.
- `step(max_bytes, AddressInfo&)` returns 0 and changes nothing; it is a stuttering step and has no action.

`covered` is read back from the hyperslabs: `SlabPoints` is the set of points of `r` that an `H5Sselect_hyperslab` with the step's offset and extent selects. The dataset and datatype ids are opaque handles, and the element size (`H5Tget_size`) is a constant per field.

**Property.** `HDF5ImplementsContract`: the HDF5 iterator implements `TransferIteratorContract`, with `units` the (field, point) product in Realm's dimension order (`UnitOrder`, computed in closed form) and `pending` the hyperslab of the open tentative step. The mutant keeps Realm's dimension order in the hyperslab instead of reversing it. The step then selects a slab of the wrong shape, and the contract is violated.

The run uses a 3x2x3 dataset that starts at the origin, so every dimension has its own extent and a swapped index selects different points. The instance lies inside the dataset, as `HDF5Memory` attaches it. The code asserts only `extent <= dims` per dimension, not `offset + extent <= dims`; inside a valid instance the two agree.

### TransferIteratorZ (with MC_TransferIteratorZ)

This module models `TransferIteratorZIndexSpace<N,T>`, `transfer.cc` 937-1115. The space is a sequence of rectangles, as the sparsity map's iterator yields them. The instance is one affine piece over a bounding box.

**Actions.** `Step` covers the whole of `step`: growth bounded by the stride (`GrowZ`), the carry (`CarryZ`), and the move to the next rectangle or field (`Advance`).

**Runs.**

- `iter_z_sparse`: three rectangles in a 4x4 box and one field. It shows ExactlyOnce and ChunkIsContiguous.
- `iter_z_fields`: two fields on a dense space. It is a violation run. When the iterator moves to the next field (line 1084, and the same code in `confirm_step`), it does not reset `cur_point`, so the second field starts at a stale point and skips elements. This is recorded as a finding.

**Caller protocol.** `reset` does not clear `tentative_valid` (line 961), so `Reset` is only taken when no tentative step is open. This is listed as a hazard.

### TransferPlan (with MC_TransferPlan)

This module models one `Domain::copy` or `Domain::fill` call: `plan_copy` or `plan_fill`, then the loop that calls `execute_plan` on every plan.

**Init.** It chooses the call's arguments:

- field lists of at most two fields;
- a reduction id of 0 or not;
- a fill-value size.

Copies use equal byte totals, and reductions use one destination and sources on one node. These are the caller contracts that the sanity asserts check.

**Actions.** Each loop iteration of the code is one action:

- `CopyIter`: one round of the suboffset loop, with the serdez shortcut (`RecordOAS`) and the asserts on the suboffsets;
- `LoopExit`: the "used up both" asserts;
- `Group`: one memory pair of `oas_by_mem`, split into one plan per instance pair;
- `ReducePlan`;
- `FillIter`, `FillEnd`;
- `Execute`, `Merge`.

`Execute` records the node that `select_dma_node` picks, or the owner node for a reduction or fill.

**Properties.**

- **CopyPairsBytes.** The entries made so far copy the k-th source byte to the k-th destination byte, each exactly once, up to the iterator's position.
- **NoAssertFailure.** No assert fires.
- **PlansRunWhereSpecSays.** Each plan runs on the node given by the node-selection table of spec section 4.3.
- **FillPlansMatchFields.** There is one fill plan per field, and each reads inside the fill value.

**Runs.**

- `plan_copy_fill` passes over every call on four instances in three memories:
  - two instances share a memory;
  - one memory is RDMA-global and remote.
- `plan_zero_size` is a violation run. A source list that ends in a zero-size field makes the "used up both" assert at line 1795 fire, although the byte totals match. This is recorded as a spec gap.

`CHECK_DEADLOCK` is off because a call really ends, in `done`, a fatal fill or an abort.

### DeppartOps, CircuitDeppart, PennantDeppart and MiniAeroDeppart

These model the dependent-partitioning test, `src/test/realm/deppart.cc`. Each test builds a graph, lets one init task per piece write its field data, and issues a chain of partitioning operations linked by events. It then waits and checks the subspaces it gets.

**DeppartOps** gives the partitioning operators the set each one denotes: `ByField`, `ByPreimage`, `ByImage`, `Differences`, `Intersections`, `UnionOf` and `WeightedSubspaces`. The engine that implements them is not under `src/`, so these definitions are modelled from spec.md.

**Shared structure of the two tests.**

- **State.** The test's flags, the field data (`Unwritten` until an init task writes it), the pieces whose init task has run, the phase of `top_level_task`, the operations issued and triggered, each operation's output subspaces, and the error count.
- **Actions.**
  - `InitDataTask(i)` runs init task `i`.
  - `InitWait` is the wait on the merged init event.
  - `Issue(k)` is `perform_partitioning` issuing operation `k`. With `-wait`, it first blocks on the event of operation `k-1`.
  - `Run(k)` is the engine running operation `k` once the event it was given has triggered.
  - `PartitionWait` waits on the returned event.
  - `CheckPartitioning` sets `errors` to the number of disagreements that `check_partitioning` would log.

**CircuitDeppart** models the circuit test (`CircuitTest`, 700-1072).

- **Generator.** The generator's Philox draws are nondeterministic choices over the values `rand_int` can return. With `-random` the choice is over all values. Without it, the generator's fixed formula is used.
- **Operations.** There are eight. Their event arguments form a DAG, not a line: `p_shr` and `p_pvt` both wait on `is_shared`/`is_private`.

**PennantDeppart** models the pennant test (`PennantTest`, 1075-1551).

- **Mesh.** The constructor's split points and per-piece counts are definitions.
- **Numbering.** `global_point_pointer` is translated operator for operator. Its two `while` loops become the recursive `SlabOf` and `StripOf`.
- **Init tasks.** Each init task writes its piece's zone colors and its sides' `mapsz`, `mapsp1` and `ok` fields. The `mapss3` field is written but never read, so it is left out.
- **Operations.** There are six, in a straight chain: bad sides, bad zones, good zones, `p_zones`, `p_sides`, `p_points`.

**MiniAeroDeppart** models the mini-aero test (`MiniAeroTest`, 89-692), with `split_evenly` and `find_split` (70-88).

- **Numbering.** `global_cell_pointer` is translated with the three axes as a function over 1..3.
- **Faces.** The three face loops of the init task become one generic face decomposition (`FaceDir`, `FaceRecord`): the axis of the face, the two other axes in loop order, the `reversed` flag, and the boundary-condition tables `LowType`/`HighType`, indexed by axis and `-type`.
- **Operations.** `p_cells` by field, `p_faces` by preimage through `left`, and one face-type split per block (all waiting on `e2`, merged into `e3`). The last is `p_ghost`, the image through `right` of every block's `BC_BLOCK_BORDER` subspace.
- **Check oracle.** `check_partitioning`'s own expectations (`ExpType`, `ExpGhosts`) are translated separately from the init task, as in the code. The constant tables `FaceRecords`, `ExpTypeOf` and the like only make TLC compute them once.

**Properties.**

- **ReadsValid** (action property). No operation runs before the subspaces it reads are valid. An operation that reads field data also waits until every init task has written that data.
- **CheckPasses.** When the test exits, `errors` is 0.
- **Terminates** (liveness). The test always reaches its verdict.
- **CellNumbering** (mini-aero). The init tasks' asserts never fire, and once every block is written every cell has a blockid. So `global_cell_pointer` maps each block's cells one to one into its weighted subspace.
- **PointNumberingBijective** (pennant). The point numbers written into `mapsp1` name the mesh points one to one. Each number lies in the weighted point subspace of the piece that owns the point, which is the lower-numbered piece for a shared edge. `check_partitioning` looks at points only through `global_point_pointer` itself, so it would not notice two points sharing a number.

**Runs.**

- `circuit_default`: 3 nodes, 2 wires and 2 pieces, with the fixed and the `-random` generator, with and without `-wait`. With `-random`, this covers wires between pieces in both directions and wires that stay inside one piece.
- `pennant_uneven`: 4x3 zones cut into 3x2 pieces, so the pieces have unequal widths (`zxbound` = 0, 1, 2, 4) and both the x and the y loops of `global_point_pointer` iterate.
- `miniaero_uneven`: 3x3x1 cells cut into 2x2x1 blocks of unequal size (splits 0, 1, 3), for all three problem types, with and without `-wait`. Without `-wait`, the four face-type splits trigger in any order.

All three pass.

Every property has a mutant that breaks it, among them:

- an event argument one step too early;
- the ghost image given the last split's event instead of `e3`;
- a missing init wait;
- `-wait` blocking on the wrong event;
- a `global_point_pointer` without the `+1` for the shared column;
- a `global_cell_pointer` without `local_y`;
- the high-boundary face type lost;
- `reversed` ignored.

`CHECK_DEADLOCK` is off because the test really exits.

### TransferIteratorIndexSpace (with MC_TransferIteratorIndexSpace)

This module models `TransferIteratorIndexSpace`, `transfer.cc` 63-387: the 1-D iterator over an unstructured index space whose valid mask (an `ElementMask` over elements `0 .. N-1`) says which elements exist.

**State.** The members that steer the walk: `valid_mask` (present or not), `first_enabled`, the size of `field_offsets`, `field_idx`, `next_idx`, the enumerator's position (or no enumerator), `rewind_pos`, `tentative_valid`, and the AddressInfo of the last step. Two history variables record the `<<field, element>>` pairs handed out and their count.

**Init** covers the constructor and `deserialize_new`: with the mask ready, `first_enabled` is found and an empty space leaves no fields; otherwise `valid_mask` is 0 and `first_enabled` is 0.

**Actions.** `Step(max_bytes, tentative)` is the whole of `step`, in code order:

- the lazy mask fetch, which clears the fields of an empty space and returns 0;
- `max_elems == 0` returns 0;
- the run from the enumerator (`RunFrom`), cut to `max_elems` or followed by the peek/merge loop (`TakeSpan`, `MergeRuns`);
- the AOS/hybrid block cut with its `set_pos` (`BlockCut`);
- the AddressInfo, then `next_idx` for a tentative step or the move to the next field after the last span.

`ConfirmStep`, `CancelStep` and `Reset` are the other three methods. `Reset` is taken only with no tentative step open, because `reset` does not clear `tentative_valid` (line 228).

**Enumerator.** `ElementMask` is not under `src/`. `RunFrom` models its interface: `get_next` returns the maximal run of enabled elements at or after the position, `peek_next` returns the same without moving, and `set_pos` moves the position.

**Properties.** `ExactlyOnce`: the confirmed steps covered exactly the enabled elements before the iterator's position (`rewind_pos` while a tentative step is open), none twice, and while a field is unfinished an enabled element is left for `get_next`, whose result is asserted. `ChunkIsContiguous`: each AddressInfo is exactly the byte range of its span in the blocked layout.

**Run.** `iter_is` uses:

- 6 elements and four masks: empty, full, and two gapped masks whose runs cross block borders;
- the mask ready at construction or fetched by the first step;
- two fields of sizes 2 and 1;
- SOA (block 6) and hybrid (blocks 4 and 2);
- every `max_bytes` from below one element to the whole field.

That is 1603 states.

**Refinement.** `TransferIteratorContract` is the abstract specification of what every transfer iterator promises (spec.md, "Transfer iteration"). The `(field, element)` units of the product form a sequence without repetition, in walk order. A final step hands out the next k units. A tentative step opens with the next k units pending, without advancing. `confirm_step` adds them; `cancel_step` drops them. `reset` starts over, and drops a tentative step still open. A step too small for one element is a stuttering step. `iter_is` checks `ImplementsContract`, which is `Contract!Spec` under the mapping:

- `units` is the enabled elements of the mask, in order, for each field in turn (`UnitOrder`);
- `handed` is the set of confirmed units;
- `open` is `tentative_valid`;
- `pending` is the current field's part of the last step's span.

The mutant is a `reset` that leaves the enumerator where it was: the next step starts in the middle, which the contract forbids.

**Span merging** (289-313) is latent. After a merge the loop peeks at the same run again, because `peek_next` does not move the enumerator. The `size_t` gap then wraps and ends the loop, and the enumerator is never moved past the merged run. With `ExtraElems = 1` TLC finds ExactlyOnce violated: the merged run is handed out twice. `create_iterator` always passes `extra_elems = 0`, and runs are maximal, so the merge never fires in this code: it is neither a finding nor a hazard of this code, and the run keeps `ExtraElems = 0`.

### GpuModuleRegistry and GpuRuntime (with MC_GpuRuntime)

`GpuModuleRegistry` models the CUDA runtime emulation of `lowlevel_gpu.cc`: what the host code of a GPU task calls instead of `libcudart`.

**State.** Binaries, functions and owners (the tasks) are model values.

- `deferredMods` and `deferredFuncs` are the static deferred lists (1050-1067).
- `modules` maps each loaded binary handle to its `host_aliases`, and `devFuncs` is `device_functions`.
- `taskModules` is `task_modules`.
- `tstage` and `recorded` follow each task from `execute` through `record_modules` to `finish_job`.
- `launchConfigs` is the configuration stack. `argBuf`, `bufSize` and `argSize` are the pinned argument buffer, `kernel_buffer_size` and `kernel_arg_size`.
- Each cell of `argBuf` names the call and argument whose bytes it holds, so a launch can be compared with what its own call set up.
- `deferredVars`, `devVars` and `regVars` are the deferred variable list (1069-1074), `device_variables` and the registered `<<binary, variable>>` pairs. A module's aliases include its `var_aliases`.
- `callStack` holds the kernel calls a task has configured and not yet launched. It is a history variable that lets nested calls happen, as when an argument expression itself launches a kernel.

**Actions.**

- `DeferModuleLoad`, `DeferFunctionLoad` and `DeferVarLoad`: the registration hooks called before any GPU thread exists (`find_local_gpu` returns NULL).
- `InitializeProcessor`: loads the deferred modules, then registers the deferred functions with `internal_register_function`, then the deferred variables with `internal_register_var`.
- `RegisterFatBinary`, `RegisterFunction` and `RegisterVar`: the same hooks inside a task. The binary is loaded and put in `task_modules`. These hooks are called by the binary's static initializer, which runs to completion before the code that loaded the binary goes on (`InitializersDone`). Likewise, the start-up binaries' initializers all run before `main`, so before `initialize_processor` and before any task is submitted (`StartupDone`).
- `ConfigureCall`, `SetupArgument` and `LaunchKernel`: the shim. Argument setup, with its growth to twice the required size, copies only `kernel_arg_size` bytes (1386-1410). `LaunchKernel` uses the top configuration and the first `kernel_arg_size` bytes, then pops the configuration and resets `kernel_arg_size` (1420-1445).

**Application assumption (`TaskCallable`).** A task calls kernels only of the start-up binaries and of the binaries it loaded itself. This is an assumption about the task code, not code of the runtime. `internal_launch` passes the bare host stub to `cuLaunchKernel` when `device_functions` has no entry (1429), and `internal_gpu_memcpy_to_symbol` asserts that the variable is in `device_variables` (1500). Both fail, and the process aborts, for a task that calls into a library an earlier task loaded and whose `finish_job` already unloaded it. The model does not explore that case (it would end the process, not a run of it), so the lookups are not checked; hazard `lowlevel_gpu.cc:1429` records it. `memcpy_to_symbol` itself is then only a driver copy and has no action. `ModulesOwned` still checks that every function and variable registered on a loaded module resolves.
- `Complete(o, S)`: the end of `execute_gpu`. The task `o` gets `record_modules(task_modules)` and `task_modules` is cleared. Then `finish_job` of each drained task in `S` unregisters its recorded modules, erasing their aliases from `device_functions` and `device_variables`.

**Composition.** `GpuRuntime` composes this module with `GpuProcessor` (`INSTANCE GpuModuleRegistry WITH Owners <- Tasks`):

- taking a task starts it;
- while the thread is in its launch state, the task's host code takes registry steps;
- `Launch` records the modules and finishes the drained jobs;
- the kill pill finishes its drained jobs too;
- the first thread runs `initialize_processor` before it serves anything.

The composition is of the processor without a GPUWorker (`ASSUME ~UseWorker`). With a worker, `finish_job` runs on the worker thread, unsynchronised with the registry, and the state space of both together is beyond TLC in this project's time budget.

**Properties.**

- **RegistryTypeOK.** The registry's types, including the buffer invariant: `kernel_arg_size` is at most `kernel_buffer_size`, and the buffer has exactly `kernel_buffer_size` cells.
- **KernelLaunchesIntact.** Every launch gets its own call's configuration and exactly the argument bytes that call set up. This holds through nested calls, buffer growth and the reset after an inner launch.
- **ModulesOwned.**
  - Between tasks `task_modules` is empty (the assert at 688).
  - Every loaded task binary is owned by exactly one task, as recorded modules or the running task's `task_modules`.
  - `device_functions` names only loaded modules.
  - Every registered function of a loaded module resolves.
  - The same two statements hold for `device_variables`.


| Run | Config | Expect | What it shows |
|---|---|---|---|
| gpu_worker | `gpu_worker.cfg` | pass | See below. |
| gpu_noworker_tasks | `gpu_noworker_tasks.cfg` | pass | Without a worker, and with the tasks' CUDA runtime calls, work always has a running thread, every job finishes, kernel launches get their own configuration and arguments, and task modules are unloaded exactly once (module MC_GpuRuntime). |
| gpu_noworker_copy | `gpu_noworker_copy.cfg` | violation | Without a worker, a copy is never issued (code bug at `lowlevel_gpu.cc:626`). See below. |
| iter_rect | `iter_rect.cfg` | pass | The rectangle and HDF5 iterators both implement the iterator contract, and every Rect chunk is contiguous (see TransferIteratorRect and TransferIteratorHDF5). |
| iter_is | `iter_is.cfg` | pass | The index-space iterator hands out every enabled element of every field exactly once, as contiguous byte ranges, and implements the iterator contract (see TransferIteratorIndexSpace). |
| iter_z_sparse | `iter_z_sparse.cfg` | pass | The same for the sparse index-space iterator. |
| iter_z_fields | `iter_z_fields.cfg` | violation | A stale `cur_point` at the field change skips elements (see TransferIteratorZ). |
| plan_copy_fill | `plan_copy_fill.cfg` | pass | Copy, reduction and fill planning and the DMA-node choice (see TransferPlan). |
| plan_zero_size | `plan_zero_size.cfg` | violation | A trailing zero-size field trips the "used up both" assert. |
| circuit_default | `circuit_default.cfg` | pass | The circuit partition chain is ordered, checks clean and terminates. |
| pennant_uneven | `pennant_uneven.cfg` | pass | The pennant numbering is one to one and respects piece ownership, and the chain checks clean. |
| miniaero_uneven | `miniaero_uneven.cfg` | pass | The mini-aero cell numbering is one to one and block-local; the per-block splits, in any order, feed a clean ghost image. |

**gpu_worker** uses a shared worker, 2 tasks, 2 copies on 2 DMA kinds, 2 task streams and 2 threads. Every job is finished, and no job is finished before the device completes it. At most one thread runs `execute_gpu`, and queued work always has a running thread.

**gpu_noworker_copy** fails because of the line-626 bug. The copy stays in `copies` forever and its finish event never triggers. The idle test keeps failing, so the thread spins in `execute_gpu` (TLC shows a Take/Launch cycle), where spec.md says it should yield.

Properties:

- **SingleRunner.** Only the thread named by `running_thread` is inside `execute_gpu`. `current_stream` and `task_modules` are updated outside the mutex and rely on this.
- **WorkHasRunner.** Whenever queued work exists, `running_thread` is set. This catches lost wakeups between a parking thread and a producer on another thread.
- **FinishAfterDevice.** A job's finish event triggers only after its stream callback has run.
- **AllJobsFinish** (liveness). Every submitted job eventually has its finish event triggered.

**gpu_noworker_tasks** runs `GpuRuntime` with:

- 2 tasks, 2 threads and no copies;
- a start-up binary and a task binary, with one kernel and one device variable each;
- arguments of 1 or 2 cells and an initial buffer of 2 cells, so growth happens with arguments already in the buffer;
- up to 2 kernel calls per task, nested up to 2 deep, with up to 2 arguments each.

That is about 83,000 states, in about a minute. It checks WorkHasRunner and AllJobsFinish for the composed system, and the three registry properties.

Every property has a mutant, in `PROJECT.json`, that TLC finds violating it:

- the round-robin wrap tested with `>`;
- the wake block without its `running_thread == NULL` guard;
- a waker that never creates a thread;
- an idle test that ignores `complete_jobs`;
- the finish event triggered at launch;
- `enqueue_copy` not clearing `copies_empty`;
- `complete_jobs` never drained;
- argument-buffer growth that allocates only the required size but records twice it;
- growth that does not copy the old arguments;
- `task_modules` kept after `record_modules`.

## Bounds

These cover every case the code distinguishes:

- **Two tasks and two streams.** The round-robin wraps.
- **Two threads.** `running_thread` is cleared only by a thread that parks itself on `available_threads`, so a waker always finds a thread to wake and the code never starts the second one. The second thread is there so that a waker that ignores `running_thread` (the `WakeOrStartUnguarded` mutant) can start one, and two threads run `execute_gpu` at once.
- **Two copies on different kinds.** Copies land on separate DMA streams.
- **A copy with an untriggered start event.** The waiter path is taken.

With worker mode, this is about 29,000 states and under 30 s.

In gpu_noworker_tasks, two nested calls with arguments of up to 2 cells against an initial buffer of 2 cells reach growth inside an inner call, while the outer call's arguments are in the buffer. Two tasks on two threads let one task's modules be unloaded while the other task runs.

## Fairness

| Weakly fair | Why the code justifies it |
|---|---|
| The device's progress on each stream (`StreamCallback`) | The device completes queued work. |
| Triggering of a copy's start event | Its precondition is eventually met. |
| Each GPUThread's steps | An awake, runnable OS thread is scheduled. |
| The worker's loop | Same as the GPUThread steps. |
| The task's host code (`RtTaskBody`) | It runs on the scheduled GPU thread, and with bounded calls it reaches its end. |
| `initialize_processor` (`RtInitialize`) | The first GPU thread runs it before its loop. |
| The start-up binaries' static initializers (`RtStartup`) | They run before `main`. |

Submissions and shutdown are the application's choice and are not fair. `CHECK_DEADLOCK` is off because, once all work is done, the processor really does stop: its threads sleep or exit and the worker exits.

## Not modelled

- **Not yet modelled in the GPU processor:**
  - the resumable-threads branch of `execute_gpu` (592-609);
  - `run_count`/`finish_count` for tasks shared by a processor group. No code under `src/` enqueues a task on a group, so the guard at 659 cannot be exercised from the modelled code;
  - registration from a thread that is not a GPU thread after start-up (it is deferred and never loaded);
  - the malloc/memcpy shims and the FB and ZC memories;
  - `memcpy_from_symbol`. `internal_gpu_memcpy_from_symbol` (1522) looks up `dst`, the host destination, in `device_variables`, and not `src`, the symbol. Its assert therefore fails for every `cudaMemcpyFromSymbol`, and in a release build it reads through the end iterator. This is plain from the code. The project's run budget has no room for a violation run that would only restate it.
- **The worker-mode race on the registry.** With a worker, `finish_job` runs on the worker thread and erases `modules` and `device_functions` with no lock, while a GPU thread's task may be registering. The composition makes each step atomic, so this data race is listed as a hazard and not checked.
- **Operation pipeline.** `legion_ops.h` holds only declarations of the operation classes; their methods are defined outside `src/`. A model would be written from the spec's words alone, and the run budget is spent on the code under `src/`.
- **Not modelled:** driver wrappers, memory allocators, and the HIP, MPI, network, sparsity and instance headers. `hip_internal.h` and `hip_module.h` declare classes whose code is not under `src/`. `network.inl` and `instance.inl` only forward calls or return fields, and `sparsity.h` declares types. None of them has control of its own to check.
