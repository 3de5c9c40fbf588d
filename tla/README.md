# A verification project for the matmul operators of CANN ops-nn

The repository (`src/`) holds the matrix-multiplication operators of a neural
network library for Ascend accelerators. Each operator has a *host* half in
C++, which runs on the threads of an ordinary process and decides, for given
shapes and types, how the work is tiled, and a *kernel* half in AscendC, which
runs on the cube (matrix) and vector cores of the accelerator. The project
models what is concurrent, stateful or easy to get wrong in both halves, checks
it with TLC and proves part of it with TLAPS.

Paths below are relative to the repository root; `op_tiling/` abbreviates
`matmul/common/op_host/op_tiling/`, `matmul_act/` `matmul/common/matmul_act/`.

## 1. Inventory

### 1.1 Components and their interaction

A tiling call enters a tiling function (`DoTilingImpl` of a registry), which
asks registered *templates* in the order of their priority. A template parses
the context into an info structure, decides whether it is capable, computes a
tiling and writes it to the context. QuantBatchMatmulV3 and V4 keep one info
per thread in a process-wide *factory*, and computed tilings in a process-wide
*cache*; both are guarded by the same reader/writer lock class. The runtime
then launches the kernel with that tiling, and cube and vector cores
synchronise by hardware flags and `SyncAll`.

| Component | State | Operations | What is hard | What makes it correct |
|---|---|---|---|---|
| Reader/writer lock (`op_tiling/lock.{h,cpp}`) | `_status`, waiting counts, two condition variables | `rdlock`, `wrlock`, `unlock` | barging threads, spurious and lost wake-ups, one `unlock` for both kinds | exclusion; counters that match the threads; no sleeper forgotten; writers not held off for ever |
| Tiling cache (`op_tiling/tiling_cache.h`, `hash.*`) | map from 32-bit hash to item, `size_` | `Get`, `Add`, `Replace` | look-up and use are separate; two threads add one key; hash collisions; capacity | every call acts as if atomic; a hit has the input asked for; `size_` exact |
| Template dispatch (`common/inc/tiling_base/*`, `matmul_tiling_registry.h`, `matmul_base_tiling.h`) | registered templates; the tiling context | five dispatch loops over the stages of `DoTiling` | a stage fails after others have written; refusal versus failure | smallest eligible priority wins; the context is all of one template; failure ends the call |
| QuantBatchMatmulV3/V4 host tiling | info per thread, shared cache | parse, refuse, compute, cache | state that outlives a call, shared by templates that parse different parts of it; half-done parses; uninitialised padding | a tiling depends on its own context only |
| Stream-K schedule (`block_scheduler_streamk.h`, host conditions) | none | index arithmetic | preloading swaps rounds; last bands; divisions at edges | each tile and each chunk computed once; producers and consumers agree on workspace slots |
| Stream-K kernel (`kernel_matmul_streamk.h`, `block_mmad_streamk.h`, epilogue) | flags, workspace, output; L1, L0, L0C buffers with hardware events | cube: tiles, chunks, flags; vector: wait, `SyncAll`, sum, store | partial sums of other cores; idle cores; flags that outlive the launch; pipes of one core that overtake each other | each output part written once and complete; no deadlock; flags balanced |
| Sliding window tiling (`matmul_v3_asw_tiling.cpp`, `matmul_v3_basic_aswt_tiling.cpp`) and ASWT kernel (`block_scheduler_aswt.h`, `kernel_matmul_without_que.h`, `block_mmad_pingpong_without_que.h`) | none on the host; on a core, L1, L0 and L0C buffers, counters that pick them, events | base blocks, edges, tail split; tiles of a core; copy in, multiply, copy out | evened out edges and a split last round that the kernel reconstructs; buffers reused while slower pipes read them; full loads that skip hand-overs | every element computed by one core once; results whole; events balanced over tiles of any length |
| Mix kernel (`kernel_matmul_mix_fixpipe_opti.h`, `block_epilogue_fixpipe.h`) | two UB buffers in each vector core, flags both ways | as above, then vector cores move results out | buffers free at first, a vector core without lines | no UB buffer overwritten early, flags balanced, no deadlock |
| Per-tile quantised matmul (`adaptive_sliding_window_tiling.cpp`, `kernel_qbmm_pertile.h`, `block_mmad_pertile.h`, `block_epilogue_pertile.h`, `block_scheduler_gmm_aswt_with_tail_split.h`) | UB, L1, L0, L0C buffers and flags; where the last batch stopped | cube: base blocks; vector: scale, add up, cast, store; scheduler across batches | two vector cores share a tile that a fixpipe splits; ping-pong per base block across tiles; which scale belongs to which part | coverage over batches; both sides split alike; one scale group per part; results whole; flags balanced |
| QuantBatchMatmulV4 MX weight prologue (`block_prologue_b_cast_scsc.h`, `block_mmad_b_prologue_mx.h`, `kernel_matmul_mix_with_weight_prologue.h`) | weight buffers in L1 that vector cores fill, permits, scale buffers | vector: cast chunks; cube: load A and scales, multiply | permits counted in one flag for four, two or one buffers; a chunk by one core or both; destructors that take back what is left | weights read only when cast, overwritten only when read; flags balanced |
| Deterministic split-k matmul of the 910B (`matmul_v3_base_tiling.cpp`, `mat_mul_deterministic_splitk_kernel.h`) | a slice of workspace per cube core in two halves, UB buffers in ping-pong, flags both ways | cube: its blocks of k of every tile; vector: wait for all, add slices up, store, give the half back | every vector core needs every cube core; idle vector cores; four ways to share a tile out; padded lines; a last part that runs over the end of a tile | k shared out; slices fit; every element added up once from its own place; no half overwritten early |
| Atomic split-k kernel, output initialisation of quantised kernels | flags, output | see `PROJECT.json` | clear, join, then accumulate | not modelled, see section 7 |
| Other host tiling, aclnn interfaces, shape inference, graph plugins, loader, build | none that outlives a call | sequential parsing and arithmetic | - | not modelled, see section 7 |

`PROJECT.json` lists every component with its sources, and 40 hazards with the
lines where they bite and the properties that guard against them.

## 2. Plan

### 2.1 Modules

| Module | Models | Composes or refines |
|---|---|---|
| `AbstractRWLock` | what a reader/writer lock promises | - |
| `RWLock` | `op_tiling/lock.cpp`, one action per critical section of `_mtx` | implements `AbstractRWLock` |
| `RWLock_proofs` | theorems about `RWLock` | extends it |
| `AbstractTilingCache` | an atomic bounded cache | - |
| `TilingCache` | `op_tiling/tiling_cache.h` | instantiates `RWLock`, implements `AbstractTilingCache` |
| `TilingCache_proofs` | theorems about `TilingCache`, last that it implements the atomic cache | uses the theorems of `RWLock_proofs` |
| `QbmmTiling` | tiling calls of QuantBatchMatmulV3/V4 on several threads | uses the operations of `AbstractTilingCache` |
| `QbmmTiling_proofs` | theorems about `QbmmTiling` | extends it |
| `TilingDispatch` | the five dispatch loops | - |
| `TilingDispatch_proofs` | theorems about `TilingDispatch` | extends it |
| `SlidingWindow` | the serpentine walk over tiles, common to the schedulers | - |
| `StreamKSchedule` | host conditions, scheduler, index arithmetic of Stream-K | extends `SlidingWindow` |
| `AswtSchedule` | host tiling and scheduler of the ASWT kernels | extends `SlidingWindow` |
| `PertileSchedule` | host tiling, scheduler and batch loop of the per-tile kernel | extends `SlidingWindow`, uses `QbmmPertile` |
| `SplitKSchedule` | host tiling, tiles, slices and sharing out of the deterministic split-k kernel | extends `SlidingWindow` |
| `StreamKSchedule_proofs` | theorems about every shape the host allows | extends `StreamKSchedule` |
| `AbstractMatmul` | what a kernel that splits its work owes its caller | - |
| `StreamK` | cube and vector cores of a launch | extends `StreamKSchedule`, implements `AbstractMatmul` |
| `StreamK_proofs` | theorems about `StreamK` | uses those of `StreamKSchedule_proofs` |
| `Instructions` | what a core hands to its pipes: copies, multiplications, flags | - |
| `Pipes` | pipes that run what they were handed | implements `AbstractMatmul` |
| `MmadStreamK`, `MmadPingpong`, `MixFixpipe`, `QbmmPertile`, `WeightPrologue`, `DeterministicSplitK` | what six kernels hand to the pipes | programs of `Pipes`; `MixFixpipe` extends the tiles of `MmadPingpong`, `DeterministicSplitK` takes the blocks of k of a core from `SplitKSchedule` |
| `MCSchedules` | the four schedules side by side | instantiates them |
| `MCSchedules_proofs` | theorems about the properties of `MCSchedules` | uses those of `StreamKSchedule_proofs` |
| `MCSchedulesCover_proofs` | theorems about how the schedules share the output out | extends `MCSchedules_proofs` |
| `MCPipes` | 29 launches of the six kernels | extends `Pipes` |
| other `MC...` | instances for TLC | extend the modules above |

All of the above is done.

### 2.2 What is left, in order

1. The atomic split-k kernel (`mat_mul_multi_core_splitk_kernel.h`) and output
   initialisation as further launches.
2. The A-prefetch prologue of WeightQuantBatchMatmulV2.

Every safety invariant of the passing runs has a theorem, except
`FlagsBalanced` and `FlagsNeverPileUp` of `Pipes` (6.5).

## 3. Modules and code

**RWLock.** Every statement of the lock runs with `_mtx` held, and `_mtx` is
given up only inside `condition_variable::wait`. So the code between taking and
giving up `_mtx` is one step: `RdlockEnter` and `WrlockEnter` run from the call
to the return or the wait, `RdlockRetry` and `WrlockRetry` from a wake-up to the
return or the next wait, `Unlock` is `unlock()` whole. `at` records the wait set
a thread is in ("rdsleep", "wrsleep") or that it has been woken and must still
take `_mtx` ("rdready", "wrready"): others may take the lock first.
`SpuriousWakeup` is what the C++ standard allows. Readers yield to waiting
writers, so with writers that never stop coming readers may starve: that is the
code's choice, and `ReaderProgress` is conditional on writers staying away.

**TilingCache.** A call takes the lock (`Acquire`), looks the key up (`GetFind`,
`AddFind`, `ReplaceFind`), copies, erases or stores in further steps, and
releases. What the lock has to prevent would thus be visible. `KeyOf` is an
arbitrary function: MurmurHash is only used as one, and collisions matter. The
early returns, for a full cache, a present key and an absent one, are the
alternatives of the find steps. `AbstractTilingCache` does each operation in
one step; the mapping shows a `Replace` between its erase and its store as done
(nobody else can look in between), and is checked by `ImplementsAtomicCache`.

**QbmmTiling.** An operator call has a context (which operator, a main part and
an extra part of its shapes and attributes, whether valid). Main is what every
template parses, extra what PERBLOCK does not (formats, batch and bias fields).
Whether the basic template takes a call (`CheckUseBasicTiling`, which reads
formats and batches too) and whether it finds a tiling depend on both parts:
`NotBasic` and `NoTiling` are sets of pairs, and in the runs one main part is
refused with one of the two extra parts only.
`Construct` and `InsertInfo` are the factory's `Get`, which gives up the read
lock before it takes the write lock. `ParseBasic`, `ParseTbe`, `ParseMsd`,
`ParsePerblock` fill the info of the thread, which outlives the call: templates
0 and 1 of V3 with `Reset()` and `initFlag`, PERGROUP with a reset, PERBLOCK
without. A failed parse may leave the info in any half-filled state.
`DoOpTiling...`, `CacheGet`, `Calculate`, `CacheAdd` are the cached basic
tiling. The hash input carries a padding that holds whatever the stack held
(`Pads`). A critical section of the factory or of the cache is one step here:
`RWLock` and `TilingCache` show that it may be. A process that reuses a thread
id for a new thread is a later call of the same thread.

**TilingDispatch.** `Init` chooses a dispatcher, its list, the registered
templates, what is known of the platform (`Platforms`), whether the caller takes
the tiling over and whether the context has room for workspace sizes. `Enter` is
what a dispatcher does before its loop: `TilingRegistryNew` fails where neither
platform nor compile info is there, or, without a list, where the version is a
reserved one; `MMTilingRegistry` fails without compile info or arguments and
when nothing is registered; `TilingRegistry` looks at none of these. `Create` is the
constructor macro (which may fail to allocate), `Prepare` the stages of
`DoTiling` up to `PostTiling`, each of which may succeed, refuse or fail,
`PostTiling` the writes to the context and where they may stop (`FillContext`).
With `cfg_.needUpdate` the templates of MatMulV3 leave the context alone and hand
the tiling to `cfg_.Update` (`HandOver`); no caller in the repository asks for
it. Their test of `workspaceSize.size()` is left out, as each `GetWorkspaceSize`
returns one element. The list of
`TilingRegistry` is assumed to name registered templates, as all lists in the
repository do: the code would otherwise call a null function pointer. A list is
taken in the order it is written in, which need not be that of the priorities
(`{1, 0}` of `fused_quant_matmul_tiling.cpp:41`); without one the registered
templates are asked by ascending priority, as `std::map` iterates (`Maps`). No
list of the repository names a template twice.

**StreamKSchedule.** Pure operators over a shape `[cores, m, n, sk]`:
`HostAllows` is the host's condition for choosing Stream-K, `Position` the
serpentine walk over tiles, `TileAt` the tile a core computes in a round with
preloading, `Slot` and `EpilogueSlots` the two ends of the workspace,
`RowsOfPart` the rows of a vector core.

**StreamK.** `CubeStart`, `CubeTile`, `CubeFlags` are a cube core's early
return, its loop body (MMAD and copy-out) and its flags; `VectorWait`,
`VectorSync`, `VectorLoad`, `VectorStore` a vector core. A value is the multiset
of terms it sums, a term being a chunk of k or the bias, so a missing,
duplicated or premature partial sum is visible. Inside one core the pipes are
one step. Assumed of the hardware, which is not in the repository:
cross-core flags are counters, a flag set on the FIX pipe comes after the
copy-outs issued before it on that pipe, `SyncAll` joins all vector cores of the
launch, and loads issued after it see what was written before it. That the cube
core's own pipes deliver what `CubeTile` says is shown by `MmadStreamK` under
`Pipes`.

**Instructions, Pipes.** The scalar unit of a core only hands out instructions;
each pipe (MTE2, MTE1, M, FIX, V, MTE3) works through its queue in order, and
only flags order the pipes of one or several cores. What a kernel hands out
depends on shapes, never on data, so a kernel is an operator from a launch to a
sequence of instructions, one TLA+ definition to a C++ function, and `Pipes`
executes the queues in every interleaving. A buffer's contents are the units of
A, B, scales and bias it was computed from, in order; a read of a buffer that
was overwritten, half filled or not filled ends up in the output and violates
`ImplementsMatmul`. Copying an instruction's waits and sets into its own step
(`Steps`) loses no behaviour: a set only enables others, and a wait commutes
with what others do because nobody else waits for the same flag, which
`SingleWaiter` asserts of every launch and TLC evaluates. Assumed of the
hardware: instructions of a pipe take effect in order, flags count, and the unit
flag guards a whole L0C buffer.

**MmadStreamK, MmadPingpong, MixFixpipe, QbmmPertile, WeightPrologue.** Each has
`Construct` and `Destruct` for the constructor and destructor, which set and
take back the flags of empty buffers, one operator for each copy, the loops
(`L1Iteration`, `L0Iteration`, `Iteration`, `Chunk`, ...) with the counters that
pick buffers (they run on across tiles), and `Kernel`. `Result` is the product
the output must hold. A tile's lines and columns matter only where cores share
them (`Lines`, `Pieces`). In `QbmmPertile` a bias does not occur, as the host
refuses it for per-block scales (`quant_batch_matmul_v3_checker.cpp:338`), and
the waits of its epilogue's destructor that also run on a cube core are left out
of the cube core's program, where V and MTE2 of that epilogue never run. In
`WeightPrologue` one load, cast and copy stands for the pieces in which a vector
core works through a chunk, and kL1 is a multiple of baseK.

**DeterministicSplitK.** `AicTile` is a round of the cube core's loop over
tiles, `AivTile` and `AivTileNz` one of a vector core in the two ways it may add
slices up (by pieces, or by columns of NZ blocks), with and without a cut for
L2. `IterateAll` is the library's and one write on the FIX pipe. `SyncAll` is a
flag from each core to each; a flag that both vector cores of a cube core set
before it counts is two flags. `PipeBarrier<PIPE_ALL>` is stated for the pipes
between which it makes a difference. `blockDim` is `usedCoreNum`, so no core
returns early. A vector core reports a half as free after every tile but the
last, and the cube core asks from the third on, so after two or more tiles one
flag per vector core stays set; `FlagsLeft` names exactly these, and `FlagsBalanced`
allows no other. The code makes no attempt to take them back, unlike the
destructors of the 910_95 kernels, and so relies on flags being cleared between
launches of the 910B; this is an assumption about the hardware.

**SplitKSchedule.** A problem says how long the axes are, how many cores there
are, in which order tiles are walked, and how many elements L2 has room for; the
host's estimates behind the last two are left open (`HostAllows` has only the
conditions the arithmetic needs). `Tile`, `Source` say where the cube cores put
an element, `Pieces`, `CopyOut`, `NzCopyOut` from where vector cores take it and
where they put it. Without a cut and with order MK a tile is shared out in plain
lengths, rounded up: the last vector core may take a few elements from beyond
the end of the slice and put them into the next tile, which overwrites them
after its own `SyncAll`. `ReducesFromOwnTile` allows that and no other stray
write, in particular none past the end of the output. The kernel's program in
`Pipes` does not contain these writes.

**SlidingWindow, AswtSchedule, PertileSchedule.** Pure operators over a problem,
host and kernel composed: what the host writes into the tiling data is what the
scheduler reads. `FormulateBasicBlock`, `Edges`, `TailCnt`, `LineSplits`,
`ColumnSplits`, `Grow`, `Tails` and `BlockNum` are the host's; `Scheduler`, `Part` the kernel's; `Taken` and `Parts`
the loop over a core's tiles, which ends at an empty part. `Edges` leaves open
which of the evened out edges the host's estimate prefers, and the base block
and the kind of full load are inputs: coverage must hold for all of them.
`Narrow`, `Lower` and `Grow` are recursive functions, as the loops they model.
A split of the tail counts only if it divides a scale group and, of the columns
of a matrix B in NZ format, leaves whole NZ blocks (`IsInValidWeighNzTailSplit`;
a per-block problem never has A fully loaded).

## 4. Runs

| Run | Instance | States | What it shows |
|---|---|---|---|
| `rwlock` | 5 threads | 9,307 | exclusion, exact counters, no lost wake-up, refinement of `AbstractRWLock`, progress of writers and, conditionally, readers |
| `cache` | 3 threads, 3 inputs with 2 keys, capacity 2, all operations | 377,407 | no race on the map, hits match, size exact, calls atomic, every call returns |
| `qbmm` | 2 threads, V3 and PERGROUP contexts | 528,765 | tilings depend on their own context only; a skipped parse is the call's own |
| `qbmm_live` | the same with PERBLOCK | 576,247 | every call returns; types and capacity |
| `qbmm_perblock` | with PERBLOCK, no padding | violation | finding (a) |
| `qbmm_padding` | arbitrary padding | violation | finding (b) |
| `dispatch` | 5 dispatchers, 3 priorities, 4 lists | 12,817 | order, failure, context of one template, nobody left unasked |
| `dispatch_list` | list variant of `TilingRegistryNew` | violation | finding (c) |
| `schedules` | Stream-K shapes to 8 cores and 11 x 11 tiles; ASWT, per-tile and split-k problems, batch axes (see the .cfg) | 9,350 | coverage, preloading, workspace, sharing out, slices added up, blocks that fit, scale groups, broadcasting |
| `streamk` | five shapes, 2 to 4 cores | 126,228 | refinement of `AbstractMatmul`, slots, flags, termination |
| `pipes` | 28 launches of six kernels | 409,117 | refinement of `AbstractMatmul`, flags balanced and never ahead of the buffers, termination |
| `pipes_prologue` | the weight prologue with two L1 buffers | violation | finding (d) |

**Why the bounds are enough.** Five threads let two writers wait while readers
hold the lock and others barge in; the lock itself knows at most two kinds of
waiters. Three threads give the cache a writer, a waiting writer and a reader;
two keys, one with two inputs, give hits, misses and collisions, and fill the
capacity. There a full cache holds every key; that it turns a new key away is
seen in `qbmm` and `qbmm_live`, whose cache has room for one of two keys, and
proved for every capacity and any keys (6.1). Entries that a thread leaves for
its own next call and entries it leaves for others both occur with two threads.
The four main parts cover the outcomes a parse can lead to: a basic tiling (int8, V3 and PERBLOCK),
none, a refusal by the basic template, PERGROUP. Three priorities make a first,
a middle and a last template, and lists that skip one or name one. For the
schedule, 11 rows make two whole bands and a last one of each length from four
to seven; 8 cores allow every combination of whole rounds, tail and split up to
that size. Row and column counts surround the units of 32 bytes and the powers
of two the burst arithmetic depends on. The `streamk` shapes have one of each
kind: with and without whole rounds, idle cores, cores without a chunk, several
split tiles. The ASWT and per-tile problems have sizes below, at and above one
block, whole and broken last blocks, fewer and more tiles than cores, and
batches that end in the middle of a round: with 7 cores and four or five batches
of 9 tiles a batch starts behind the block at which it ends (`Rounds` wraps
round), and a split last batch starts elsewhere than at block 0, wrapped or not.
With 56 cores a single tile is split finely enough for NZ blocks to matter, which
takes 8 parts of 128 columns. Of the 486 split-k problems 138 are
cut for L2, 72 go by NZ blocks, 50 need several pieces in UB, and in 16 a vector
core runs over the end of a tile. The launches of `pipes` have at least
three tiles, or as many chunks, wherever two buffers alternate, and more chunks
than buffers where there are four, so that buffers are reused and
parities of counters meet parities of tiles. The bias of a Stream-K tile goes into
the buffer of the tile's first block of k, and the three tiles start at blocks 0,
3 and 6 of their core, so one of the two is reused. Each variant (full load of A
or B, bias, L0C with one buffer or two, one or both vector cores, one or two UB
buffers, per tile or per block, cast or not, ND or NZ weights, shared or unshared
chunks, pieces or NZ columns) occurs, and so does a core without tiles. The
split-k launches have two cube cores and their four vector cores, three tiles
(the third reuses the first half), vector cores with several pieces and a rest,
with one piece and with none.

`CHECK_DEADLOCK FALSE` appears where the program really ends: a launch, a
dispatch and a schedule check come to an end. The lock, the cache and the tiling
threads do not, and are checked for deadlock.

**Fairness.** `RWLock`: a woken thread is eventually scheduled, as `_mtx` is
never held across a wait, and a holder unlocks, as critical sections are short
and without a wait. Nobody is obliged to call. `TilingCache`, `QbmmTiling`: a
thread inside a call goes on (`Proceed`), by the scheduling of the operating
system; new calls are not obliged. `CallsReturn` of the
cache is conditional on callers eventually staying away, as readers may starve
otherwise. `StreamK`, `Pipes`: some core or pipe goes on while any
can, as hardware does; each takes finitely many steps.

**Symmetry** over threads is used in safety runs whose properties do not tell
threads apart; runs with liveness properties use none.

**Mutants.** Each property of each passing run has a plausible bug (defined as a
"broken variant" next to the definition it replaces) that violates it under the
same configuration; `PROJECT.json` lists them.

## 5. Findings

**(a) PERBLOCK leaves the info of its thread unreset** (run `qbmm_perblock`).
`QuantBatchMatmulV4PerblockTiling::GetShapeAttrsInfo`
(`quant_batch_matmul_v4_perblock_tiling.cpp:25-40`) writes into the info that the
thread shares with QuantBatchMatmulV3 but does not reset it, and its own
`Reset()` is never called. Fields it does not parse keep what an earlier V3 call
left, and reach the tile computation and the hash key.
`quant_batch_matmul_v3_tiling_base.h:58` shows that the structure is meant to be
reset before use.

**(b) Padding takes part in hashing and comparing** (run `qbmm_padding`).
`QuantBatchMatmulV3HashInput` has 140 bytes of members and a size of 144.
`operator==` (`quant_batch_matmul_v3_tiling_cache.h:41`) and the hash read all
144. Equal infos may thus miss each other's cached tilings, which costs a
computation and a cache entry; results are not affected (run `qbmm` has
arbitrary padding too). With `Pads = {0}` the property holds.

**(c) The list variant of `TilingRegistryNew` passes over failures** (run
`dispatch_list`). `tiling_base.h:68` documents `GRAPH_FAILED` as ending the whole
tiling; `tiling_templates_registry.h:160` only tests for success. No operator of
the repository calls this variant; `MMTilingRegistry` behaves in the same way
with template classes of its own.

**(d) Two weight buffers leave a flag set** (run `pipes_prologue`). With ND
weights and `l1BufNum` 2 the cube core (`block_mmad_b_prologue_mx.h:151`, then
`NotifyVector` after each chunk) gives each vector core one permit more than it
has chunks to cast. The destructor of the prologue
(`block_prologue_b_cast_scsc.h:182`) compares `l1BufNum_` with
`vecBufNum_ = min(l1BufNum_, 2)`, takes the branch meant for one buffer, and
takes back one permit on vector core 0 and none on vector core 1; the branch for
two buffers behind it is never reached. The flag is still set when the kernel
ends, which the destructor is there to prevent. The constructor's comment (line
100) names the scene with two buffers, and the host selects it
(`UpdateL1ParamWithScaleFactor` and `CheckL1TilingInvalid` of
`quant_batch_matmul_v4_basic_block_tiling.cpp`). Results of the launch itself
are right: for this launch the other three properties of run `pipes` hold.

## 6. Proofs

The theorems hold for every value of the constants that the named assumptions
allow, and TLC evaluates each assumption in the runs.

### 6.1 Lock and cache

`RWLock_proofs` holds for every finite set of threads (`ThreadsFinite`, the only
assumption):

- `Invariance`: the inductive invariant `IInv` = `TypeOK`, `Exclusion`,
  `CountersAgree`, `NoStrandedWriter`, `NoStrandedReader`. None of the last four
  is inductive alone: exclusion follows from the guards only if the counters
  tell the truth, the counters stay true only under exclusion (`unlock` decides
  by `_status` whom it serves), and wake-ups are given by the counters. TLC
  checks the conjuncts in run `rwlock`.
- `TypeCorrect`, `MutualExclusion`, `CountersExact`, `NoLostWakeup` and
  `NoReaderLeftAsleep` follow.
- `Refinement`: every step of the lock is a step or a stutter of
  `AbstractRWLock`.

The lemmas `CountThreads`, `HolderSets`, `CountersTell`, `UnlockSets` relate
cardinalities to membership; there is then one lemma to an action.

`TilingCache_proofs` holds for every finite set of threads and all inputs, keys,
values, capacities and hash functions (`CacheAssumption`):

- `UsesLock`: every behaviour of the cache is one of its lock, so the lock's
  theorems apply to it.
- `Invariance`: with the lock's exclusion, `IInv` = `CacheTypeOK`, `StepInLock`
  (which step of a call goes with which hold on the lock), `HitMatchesInput`,
  `AddHasRoom` (between the check and the store of `Add` neither the capacity
  nor the absence of the key changes), `SizeCounts` (`size_` is the number of
  entries, corrected for a `Replace` in progress).
- `TypeCorrect`, `NoDataRace`, `HitsMatch`, `SizeExact` follow.

`Refinement`, in the same module, shows that every behaviour of the cache is one
of `AbstractTilingCache`: each step of a call is the one step in which the
abstract call takes effect, or none of its steps. `RoomInvariance` strengthens the cache's invariant for it: a `Replace` that found its key and
room still has that room when it stores (a second writer would have filled the
cache), and no call has an answer before it takes effect.

### 6.2 Dispatch and tiling calls

`TilingDispatch_proofs` holds for any finite set of priorities and any lists
that name no template twice (`DispatchAssumption`). `Invariance`: `IInv` =
`DispatchTypeOK`, `Trail` (the templates that have answered are the registered
ones up to the current position), `BehindRefused` (what was left behind did not
succeed, nor, in the dispatchers that stop there, fail), `ContextOfLast` (fields
are of one template once the call has succeeded), `AllAskedBeforeGivingUp`. The
properties speak of the end of a call, so each needs to know what every earlier
turn of the loop left. `FailureIsFinal`, `FirstWillingWins`, `ContextIsPure` and
`NoneForgotten` are the run's four invariants.

`QbmmTiling_proofs` holds for any number of threads, any contexts, hash function
and padding (`QbmmAssumption`). `Invariance`: `IInv` = `Typed`,
`WorksOnOwnInfo` (past its parse, a call of a template that resets the info finds
its own context there). `TypeCorrect`, `SkippedParse` follow. `Independence`
says `CallsAreIndependent` under `KindsApart(Contexts)`: no PERBLOCK call takes
part, and no two contexts share a hash input but differ in the way they are
quantised. The first half is finding (a), without which the property is false;
TLC evaluates the hypothesis for the contexts of run `qbmm`
(`CleanContextsApart`). The inductive `IndependenceInv` adds
`CacheOfOwnTilings` (an entry is the tiling of a context that has its input) and
`ReadyForCache`.

### 6.3 Stream-K

`StreamKSchedule_proofs` holds for every shape the host allows and every `Ratio`
of vector to cube cores (`RatioAssumption`): `EveryTileVisited` (the serpentine
walk is a bijection between numbers and tiles, by `PlaceToNumber` and
`NumberToPlace`), `EveryChunkComputed`, `PreloadReordersOwnTiles`,
`EpilogueSumsItsTile`, `PartsShareEveryTile`. The arguments are division with
remainder (`DivMod`, `DivModUnique`, `DivBelow`) over `HostFacts`, what the
host's conditions say of whole rounds and tail.

`StreamK_proofs` holds for all shapes the host allows (`ShapesAssumption`).
`Invariance`: `IInv` = `TypeOK`, `CubesInLoop`, `WorkspaceTells`, `FlagsTell`,
`VectorsInStep`, `OutputTells`: what lies in the workspace, in the flags and in
the output is a function of how far the cores have come. `SyncAll` is the crux:
that a vector core which loads finds every chunk of its tile takes that no
vector core is before its flag any more, that each flag tells of a cube core
past its chunk, and that the chunk is its last tile (`PreloadReordersOwnTiles`).
`TypeCorrect`, `NoFlagLeft`, `SlotsOnce` (an action property) follow;
`Refinement` shows that a launch implements `AbstractMatmul`, and `Complete`
that the output is complete once all cores have returned, the safety half of
`Termination`.

### 6.4 Schedules

`MCSchedules_proofs` and `MCSchedulesCover_proofs` (the last three theorems
below) prove all nine properties of run `schedules` for all problems whose sizes
are positive numbers, whose ASWT base blocks are multiples of 16 lines and whose
L2 cuts are whole rows of 256 bytes (`SizesAssumption`). Of split k it is
further assumed, for `Slices` alone, that a quarter of UB is a multiple of the 3
by 3 block, and that block one of `BLOCK`, as 12288, 384 and 128 floats are, and
that L2 never has room for a row longer than that quarter. The host cuts n where
it takes more than 70 % of L2 (of the 910B: 192 MiB, over 20 cores at least) at
three steps of 256 bytes of k to a column at least: at most 9127 columns, 9216
after alignment (`matmul_v3_base_tiling.cpp:2870`). With less than one line to a
quarter `dataSize / nCoreUse` in `ReduceKInUbL2cache` would be 0. The invariant
`SInv` says that a state's shape comes from a problem of its kind, for ASWT with
an edge that the host may even out; the only step does so.

- `Preloading` and the Stream-K parts of `Chunks` and `Workspace` are the
  theorems of `StreamKSchedule_proofs`: two instances of one module have the
  same operators, by expansion (`SameShapes` and its like).
- `Chunks`, split k: any number of blocks over any number of cores (`Handing`,
  `KSharedOut`).
- `Batches`: offsets over broadcast batch axes of any length.
- `Scales`: a vector core of a per-tile matmul takes every piece from one scale
  group. The tail splits that `Grow` settles on divide a group (`GrowIsValid`,
  which needs that they do at every turn of the host's loop), so they are powers
  of two (`DivisorsOfGroup`) and every part is two whole groups or within one
  (`CutFacts`, `PartFacts`); then the vector cores' shares are (`PiecesFit`).
- `Workspace`: the slots of Stream-K; that the fixpipe of a per-tile cube core
  and its vector cores split every part alike (`HalvesAgree`); and that every
  tile of split k lies within the half slice the kernel takes it to have, and
  that half within what the host asked for (`TilesFit`, over `RoundedUp` and
  `Aligned`).

- `Blocks`: both loops of `CalcBasicBlock` end, since every turn makes the block
  that is twice the other shorter (`Halving`), and keep counts that cover the
  output within the cores (`StepCovers`), so the blocks are no more than the
  cores (`CountsFit`); an L1 block is never empty or longer than its buffer,
  evened out or not (`AxisFits`); and the parts that a tile of the last round is
  cut into (`PartsOfTile`) never exceed the tail numbers of the host
  (`TailCntFits`), for which there are cores (`RoundFits`). The per-tile part is
  `HalvesAgree`.
- `Rows` and `OncePerTile` say that parts share a whole out: each lies in it, no
  two meet, and their areas add up to its area. The area is a sum over a set,
  folded by the community modules, which cannot be taken apart by induction
  here. `AreasAddUp` does without: if every cell of the whole is in exactly one
  part (`Tiles`), then the pairs of a part and one of its cells are as many as
  the cells, and they are the sum. What is left to show of each schedule is
  which part a line and a column belong to, and that it is the only one.
- `Rows`: the pieces of vector cores that halve a part by lines or columns, go
  over it in groups of columns, or cast it in two steps, down to a single line
  (`HalvesTile`, `WideTiled`, `LineTiled`, `RowsTiled`).
- `OncePerTile`, per tile: a number is that of one turn of one block
  (`OneTurn`), across batches that end in the middle of a round (`BatchEnds`),
  and the parts of a tile of the last round are cut out of it (`CutWithin`,
  `SidePlaced`). ASWT: the host comes with axes made of L1 blocks whatever it
  evens out (`AxesOfLaunch`, `Launched`); numbers and tiles, or their cuts in
  the last round, correspond (`NumberTile`, `LaunchPlaced`); a core stops at an
  empty part, and no full part lies behind one; and L0 blocks share a part out
  (`FullPart`). Stream-K: `EveryTileVisited`. Split k: `OutputCovered`.
- `Slices`: the places of a tile's elements in the output are all different
  (`PlaceOfElement`), so what vector cores do is counted by them
  (`CountedWithRest`). Then one lemma to each way of sharing a tile out:
  `NzReduced` for columns of NZ blocks, `LinesReduced` where lines end, which
  needs that a quarter of UB is moved by whole lines (`LinesFitUb`,
  `LinesMoved`: the only place where the padded last column, the uncut NK order
  and the cut for L2 differ), and `FlatReduced` for tiles that lie in a row,
  where `FlatLater` shows that whatever a vector core writes beyond its tile is
  inside the output and in a tile still to come.

Recursive functions are handled by a least counterexample (`LeastNumber`, from
the well-foundedness of `<`): `GrowExists`, `EndsExist` and, for any loop with a
measure, `LoopEnds` show that the recursions have a solution, which TLA+ takes
for granted of no recursive definition, and `GrowIsValid`, `EndsAreBlocks` and
`LoopKeeps` what it satisfies. This is also why these loops end.

### 6.5 Only model-checked

- All liveness (`WriterProgress`, `ReaderProgress`, `CallsReturn`,
  `Termination`): fairness and ENABLED are out of the prover's reach.
- `Pipes` (`FlagsBalanced`, `FlagsNeverPileUp`, `ImplementsMatmul`): a launch is
  a fixed program that the definitions of a kernel compute from nested
  sequences, so there is no constant to generalise over but the program itself;
  TLC runs each of the 29 in every interleaving of its pipes.
- `CachedTilingsAreFound`, which is false with arbitrary padding (finding (b)).

## 7. Not modelled, and why

- *Tile size heuristics and parsing of the operators' host tilings*: arithmetic
  on shapes in one sequential call, without state that outlives it. In
  `QbmmTiling` a tiling is a function of what is parsed.
- *910_95 templates of the quantised matmul* (2, 3, LUT, BASIS): the same
  dispatch and parse, without the shared cache.
- *Registration of templates*: it happens in static initialisers before `main`;
  `TilingDispatch` starts from any set of registered templates.
- *Numeric kernels, aclnn interfaces, shape inference, graph plugins, legacy
  loader, build scripts*: sequential code over external state, pure functions,
  or pure I/O.
- *Choice of a full load and depth of L1 buffers* in the sliding window tilings:
  estimates of cost; the models take every choice. Of the 910_95 tiling of
  QuantBatchMatmulV3, the quantisation modes other than per block.
- *The scheduler of the weight prologue* (`block_scheduler_swizzle_in_mn_core.h`):
  the tiles of a launch are any sequence.
- *Inside `IterateAll` of the split-k kernels*: the Matmul class belongs to the
  external high-level API, whose pipes are not in the repository.
- *The atomic split-k kernel and output initialisation*: planned (2.2, 1). The
  deterministic kernel with `enAtomic`, as GemmV3 launches it, accumulates into
  the output: there the stray writes described under `SplitKSchedule` would be
  added instead of overwritten. Whether the shapes that reach it have any depends
  on the host's choice of templates, which is not modelled; `PROJECT.json` lists
  the hazard without a property.
- *The environment variables of the tilings* (`MATMUL_OPT_BRANCH` and others,
  `setenv` and `getenv` on several threads): the environment belongs to the C
  library. `SplitKSchedule` takes both settings of the adaptive branch.
- *The A-prefetch prologue of WeightQuantBatchMatmulV2*: a relative of
  `WeightPrologue`, planned (2.2, 2).
