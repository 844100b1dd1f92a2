# KVarN tail pool: a TLA+ verification project

KVarN is a KV-cache quantiser inside a fork of vLLM. It stores the cache as
int4 *tiles* of `GROUP` (128) tokens. A tile can be quantised only when it is
complete, so the newest tokens of every request live in a shared pool of fp16
*slots*, the tail pool. The first tile of a request (its attention *sink*)
stays fp16 while the request runs.

Which tile holds which slot is decided once per model step, from the batch the
scheduler happened to form. The builder knows only that batch. It has to infer
from it which tiles are complete, which belong to live requests, and which are
left over from finished ones. Prefix caching, chunked prefill, preemption,
aborts, speculative decoding and data-parallel throttling all change what a
batch looks like. This project checks that the inferences are right, and shows
where they are not.

## The system and the inventory

| Part | Source (under `src/vllm/`) | Module | Modelled |
|---|---|---|---|
| Metadata builder, pool allocator | `v1/attention/backends/kvarn_attn.py` | `TailPool` | partly: all of the allocator |
| Store and read path | `kvarn_attn.py`, `v1/attention/ops/triton_kvarn_decode.py` | `TailPool`, `KVarNEngine` | partly: which token lands and is read where |
| Pool sizing, concurrency cap | `model_executor/layers/quantization/kvarn/config.py`, `platforms/cuda.py` | `PoolSizing` | partly: the slot arithmetic |
| Scheduler | `v1/core/sched/scheduler.py` | `KVarNEngine` | partly: FCFS, synchronous |
| KV cache manager, coordinators | `v1/core/kv_cache_manager.py`, `kv_cache_coordinator.py`, `single_type_kv_cache_manager.py` | `KVarNEngine` | partly: full attention, Mamba by its effect |
| Block pool | `v1/core/block_pool.py`, `kv_cache_utils.py` | `KVarNEngine` | partly: any eviction order |
| Engine core | `v1/engine/core.py` | `KVarNEngine` | partly: `step`, aborts, throttling |
| Model runner | `v1/worker/gpu_model_runner.py` | `KVarNEngine` | partly: the batch and the outcome of sampling |
| MTP drafter | `v1/spec_decode/llm_base_proposer.py` | `KVarNEngine` | partly: a single-module MTP head |
| KVarN for MLA | `v1/attention/backends/mla/*kvarn*`, `triton_mla.py` | – | no: another cache layout, planned |
| Quantisation arithmetic | `kvarn_store.py`, `kvarn_decode.py`, `*sinkhorn*` | – | no: floating point |
| Page layout | `config.py`, `v1/kv_cache_interface.py` | – | no: planned |
| Warm-up, profiling, graph capture | `kvarn_attn.py`, `gpu_worker.py` | – | no: runs before any request |
| Mamba state copies | `v1/worker/mamba_utils.py` | – | no: planned |
| Connectors, offloading, API, executors, models | rest of the fork | – | no: they reach the pool only through the parts above |

`PROJECT.json` lists the same parts, the lines every definition stands for, and
the hazards with the properties that watch them.

### How the parts interact

One iteration of the engine loop is `schedule` → `execute_model` →
`update_from_output`:

1. `schedule` walks the running requests, then the waiting ones. It gives each
   some tokens and allocates blocks. When blocks run out it preempts the last
   running request. Blocks that will be full after the step are hashed now, so
   a later request can hit them.
2. The runner turns the result into rows (block table, sequence length, query
   length). The KVarN builder flushes, reclaims and allocates slots for the
   rows. Then the forward pass stores K/V through the new map and attends.
3. With MTP, the drafter runs more passes. Each has a build of its own that may
   allocate slots and releases none.
4. Aborts that arrived meanwhile are processed.
5. `update_from_output` appends accepted tokens, rolls rejected drafts back and
   frees the requests that stopped.

## Modules

**`TailPool`** is the allocator alone: its state and one operator per stage of
`KVarNMetadataBuilder.build`.

| Model | Code |
|---|---|
| `b2s`, `free_slots`, `sinks`, `retired`, `block_fill` | `_block_to_slot_dict`, `_free_slots`, `_global_sink_blocks`, `_retired_sinks`, `_block_fill` |
| `tail_pool`, `kv_cache` | the fp16 pool and the int4 cache, as which token's K/V is where |
| `Written`, `FillAfter`, `Needed` | `blocks_needed` and the fill each tile will have |
| `MarkSinks`, `Unretire` | new sinks; a prefix hit re-adopts a retired sink |
| `WalkBack` | flush detection, backward from the committed boundary |
| `Retire`, `FlushUnneeded`, `Discard` | the reclaim: full sinks, other full tiles, partial tiles |
| `HandOuts`, `Deficit` | allocation, evicting retired sinks when slots run out |
| `FailedHandOuts` | the slots handed out before the allocation raised |
| `BatchedFlush`, `Store`, `Read` | quantise; scatter; what attention sees |
| `Build`, `BuildFails` | a whole build, or one that ends in "KVarN pool exhausted" with everything before the raise done |

**`KVarNEngine`** extends it with the scheduler, the prefix cache, the worker
step and the drafter. `schedule` is not atomic in the model: each request is an
action (`SkipRunning`, `ScheduleRunning`, `PreemptLast`, `AdmitWaiting`). The
step goes through `phase`: idle, running, waiting, execute, draft, update.
Arrivals happen between steps and aborts between steps or before `update`,
which is where the engine processes them.

The K/V of a token is named by its owner and position. All requests share their
first `SharedLen` tokens and no others, so two requests may hit each other's
blocks exactly up to there. `Hybrid` stands for a model with Mamba layers in
"align" mode. It changes where chunks end, which hits count, and forbids hits
on blocks cached in the same step. Which boundaries still have a Mamba state is
left open. The other abstractions are listed at the head of each module.

**`PoolSizing`** is `pool_slots`, `max_supported_seqs` and the cap. A batch
grows row by row within the scheduler's two limits, and each row adds the tiles
the builder would ask for.

**`MCEngine`, `MCSizing`** fix symmetry, the view and constants for TLC.
**`TailPoolProofs`**, **`SchedulerLemmas`**, **`SchedulerProofs`**,
**`KVarNEngineProofs`** and **`PoolSizingProofs`** hold the proofs: what a build
preserves; the engine's invariant and the scheduler's operators; the scheduler's
steps; the worker's steps and the theorems; the sizing.

## Runs

Bounds: tiles of two tokens, so that a chunk, a draft or a decode can end inside
a tile, on its edge or past it. Prompts span two to four tiles, so that a sink,
a complete tile and a partial tail exist together. Two requests run at a time,
which is what sharing, preemption and throttling need; a third (`hybrid_prefix`,
`evict_hit`) arrives after one has finished and finds what it left.
`MaxModelLen` bounds every counter. Request and block ids are symmetric. Slots
are too, but a symmetry set of five more values is too slow, so the view
`View` forgets their names. Five blocks are fewer than two full requests need,
so preemption and eviction from the prefix cache happen.

| Run | Configuration | Checks | Result |
|---|---|---|---|
| `hybrid_prefix` | hybrid, caching, two tiles a block, throttling | `TypeOK`, `NoSlotShared`, `NoSlotLeaked`, `RetiredAreFullSinks`, `ReadsCorrect`, `CachedBlocksValid`, `NeverExhausted`, `SinkKeepsSlot`, `NoOrphanSlots`, `DecodePeak` | pass, 45k states |
| `hybrid_mtp` | hybrid, caching, two drafts | `ReadsCorrect`, `CachedBlocksValid`, `RollbackExact` | pass, 18k |
| `dense` | no caching, one draft, chunks inside tiles, budget 3 | `ReadsCorrect`, `TailsStayWithRoom` | pass, 21k |
| `small_pool` | two slots for two drafting requests | `NoFalseExhaustion`, `TailKeepsSlot` | pass, 1.4k |
| `live` | hybrid, caching, three blocks, throttling, fairness | `PromptTailsStay`, `EveryRequestFinishes` | pass, 20k |
| `evict_hit` | one request at a time, three slots, blocks wider than the token limit | `ReadsCorrect`, `CachedBlocksValid`, `NeverExhausted`, `SinkKeepsSlot` | pass, 17k |
| `same_step_hit` | dense, caching | `ReadsCorrect` | violated |
| `throttled_chunk` | dense, throttling | `LiveTailResident` | violated |
| `left_out_decode` | dense, one draft, budget 2 | `LiveTailResident` | violated |
| `sizing` | tile 4, 12 tokens, three drafts, up to 12 requests | `HeadroomCovers`, `PoolWithinBudget`, `TypeOK` | pass, 51k |
| `sizing_exhaustion` | the same | `ExhaustionSafe` | violated |
| `sizing_oom` | the same | `OomSafe` | violated |

`small_pool` alone switches deadlock checking off: "KVarN pool exhausted" is an
exception that ends the engine.

`dense` has the smallest token budget with room for every sequence, 3 for two
requests with one draft each, and what it shows is shown for such budgets
only. With budget 2 `left_out_decode` shows what happens instead.
`evict_hit` is the run in which a block (four tokens) is wider than the token
limit (three), so that Mamba-aligned chunks end inside blocks.

The two properties everything else serves:

- `ReadsCorrect`: whatever attention reads for a scheduled request, through
  slots and tiles, is the K/V of that request's own accepted tokens.
- `CachedBlocksValid`: a block the prefix cache can hand out holds what its
  hash stands for, wherever its tiles are by now.

Four properties are about tails, the partly filled tiles that exist in the pool
and nowhere else:

- `TailKeepsSlot`: a build never moves the tail of a request in its batch, under
  eviction pressure, on recycled block ids and when it raises half-way.
- `LiveTailResident`: between steps every running request has its tail. It is
  what the builder's comments assume, and it does not hold in general.
- `TailsStayWithRoom` and `PromptTailsStay` say where it does: on dense models
  without throttling when `MaxTokens > (MaxNumSeqs - 1) * (1 + NumSpec)`; and,
  for requests in the middle of their prompt, on hybrid models whose block size
  is within the token limit, throttled or not. Both conditions on the
  constants are part of the properties.

**Fairness.** `live` assumes weak fairness of `EngineStep`, the disjunction of
the engine's own actions. `EngineCore`'s busy loop calls `step` as long as it
has requests, so an enabled step is taken. Nothing is assumed of clients, of
the sampler, or of which free block is taken. Throttling stays free to choose
at every step; it cannot starve a prefill because prefills are deferred only
while another running request decodes, and every decode ends.

### What the violated runs show

- **A hit in the same step** (`same_step_hit`). Blocks are hashed when they are
  scheduled. On a dense model, a request admitted in the same step may hit a
  block that another request is only now completing. The hit counts as
  committed for the new row. The walk-back therefore flushes a tile that is
  still partial and frees its slot, and the tile gets a new slot without its
  earlier tokens. Hybrid models refuse such hits, and the same property passes
  for them.
- **A live request outside the batch** (`throttled_chunk`). The reclaim treats
  a tile that the batch does not name as finished. A prefill chunk deferred by
  data-parallel throttling is running and not in the batch, so its partial tail
  is discarded. On hybrid models a chunk that stops inside the prompt ends on a
  block boundary, if the token limit is at least a block, and then has no tail
  to lose: `PromptTailsStay`, in `live`.
- **A live request out of budget** (`left_out_decode`). The running loop stops
  when the token budget is used up. With two requests, one draft each and a
  budget of two, which the configuration allows, the first request's decode
  takes all of it. The second is running and not in the batch, and loses its
  tail. No throttling is involved. Hybrid models are exposed as well, through
  cases that no run here covers: an aligned chunk may leave budget over in one
  step, admit a short request behind it, and take the whole budget in the next;
  and a preempted request's recomputation may end inside a tile and then be
  deferred.
- **Exhaustion** (`sizing_exhaustion`). Comments call the pool exhaustion-safe.
  A row that writes over a tile boundary needs two tiles beside its sink, and
  only eight such rows are allowed for.
- **The budget** (`sizing_oom`). The cap never goes below one request, also when
  the budget does not pay for one.

## Proofs

The theorems hold for every number of requests, blocks and slots, every tile and
block size, every token limit and every choice of `Caching`, `Hybrid` and
`Throttle`, under the named assumptions of the modules (`PoolAssumption`,
`EngineAssumption`, `SizingAssumption`): sizes are positive, `NoSlot` is not a
slot, prompts are shorter than `max_model_len`, and the token limit is at least
the number of requests, which `SchedulerConfig` requires.

**The engine.** `EngineInvariant` proves `Spec => []EngineInv`, with
`EngineInv == TypeOK /\ RollbackExact /\ PoolInv`.

- `PoolInv` is the allocator's part: types, `NoSlotShared`, `NoSlotLeaked`,
  `RetiredAreFullSinks`. None of them is inductive alone. That an allocation
  shares no slot rests on free slots being exactly those nobody holds. That an
  eviction returns a slot rests on retired sinks being resident. That a retired
  sink stays whole rests on the flush and the discard not touching its fill.
  `RebuildKeepsPool` proves it for whatever part of the missing tiles is given
  slots, from rows with natural lengths. `BuildKeepsPool` applies it to a build
  that gives all of them one, `FailedBuildKeepsPool` to one that raises. The
  latter may leave a sink marked without a slot, which is why
  `RetiredAreFullSinks` asks for that only until a build has raised.
  `ExecuteInv`, `DraftInv` and `PoolExhaustedInv` show that the engine hands
  over such rows.
- `RollbackExact` is needed for the types: the bound on `num_computed` after
  `Update` follows from there always being one token that is sampled and not
  computed, and from accepting scheduled drafts only.
- `SplitWithin`, `NumNewWithin`, `AdmittedWithin` and `HitWithin` bound what the
  scheduler gives a request: never more than its budget, its length, or what a
  prefix hit leaves.

`TypeCorrect`, `RollbackIsExact`, `SlotsExclusive`, `SlotsConserved` and
`RetiredSinksWhole` are its corollaries, each for a property that a run checks.

**Sizing.** `SizingInvariant` carries a witness: the tiles filled by whole tiles
of tokens, whose number is bounded by the tokens. With it `HeadroomIsEnough`
shows that the pool covers every batch with at most eight crossings, and
`CapFitsBudget` that the cap inverts `pool_slots`.

**Model-checked only.** `EveryRequestFinishes` (liveness). `ReadsCorrect`,
`CachedBlocksValid`, `TailsStayWithRoom`, `PromptTailsStay`, `NoOrphanSlots`,
`DecodePeak`, `SinkKeepsSlot`, `TailKeepsSlot`, `NeverExhausted`,
`NoFalseExhaustion`: their inductive
strengthening has to relate block tables, hashes, chunk ends and tile contents,
and is the aim of later work. `waiting` and `running` are not typed in `TypeOK`;
the proofs do not need them.

## Not modelled, and why

- Floating point: quantisation keeps a token's identity and loses precision.
- Layers: one stands for all, since every layer is written through one map.
- Asynchronous scheduling, pipeline parallelism, the PRIORITY policy, KV
  connectors, encoder inputs, LoRA, sliding-window groups, other drafters, a
  `long_prefill_token_threshold` (its default, 0, is assumed).
- The window in which `num_computed_tokens` is already advanced and rejected
  drafts are not yet taken off: `Update` does both at once.
- Dummy batches of data-parallel ranks, CUDA graph capture, warm-up.
- Hits inside a block; the Mamba groups' own blocks and state copies.
- KVarN for MLA; byte layout of pages.

## Plan

1. Engine breadth: dummy batches of an idle data-parallel rank; the PRIORITY
   policy; asynchronous scheduling with placeholders and late rejections.
2. `BlockPool`: the free queue, reference counts, the hash map with several
   blocks a hash. Runs: at most four blocks, three owners. Theorem: free blocks
   are exactly those with no reference.
3. `MambaManager`: states at chunk ends and the copy between blocks, composed
   with the scheduler's split.
4. `KVCacheSpec`, an abstract specification ("every live request reads its own
   tokens"), with `KVarNEngine` shown to implement it by a refinement mapping.
5. `PageLayout`: the byte arithmetic of the config, and the tile row table and
   verify plan as operators against a reference.
6. The tail handling of KVarN for MLA.
7. Proofs: type the queues; block tables of live requests hold cached or own
   blocks; `TailsStayWithRoom` and `PromptTailsStay`; then
   `ReadsCorrect` without prefix caching.
