---------------------------- MODULE KVarNEngine -----------------------------
(***************************************************************************)
(* The KVarN tail pool under the engine that drives it: the scheduler      *)
(* (scheduler.py), the prefix-caching block manager (kv_cache_manager.py,  *)
(* single_type_kv_cache_manager.py, block_pool.py) and the worker's step   *)
(* (build the metadata, run the forward, draft).                           *)
(*                                                                         *)
(* Requests share their first SharedLen tokens and no others, so a block   *)
(* hash is the pair (owner, block index) with owner "shared" for blocks    *)
(* inside the shared prefix.  The K/V of a token is named by its owner and *)
(* position: whoever computes the same token prefix computes the same K/V. *)
(*                                                                         *)
(* Abstractions:                                                           *)
(*  - a block allocation takes any free blocks (the code: the head of an   *)
(*    LRU queue), so every eviction order of the prefix cache is covered;  *)
(*  - no KV connector, encoder inputs, LoRA, sliding window, pipeline      *)
(*    parallelism or async scheduling; FCFS policy;                        *)
(*    long_prefill_token_threshold is 0, its default;                      *)
(*  - Hybrid stands for a model with Mamba layers in "align" cache mode,   *)
(*    whose managers share the attention groups' block size; which of the  *)
(*    boundaries the attention blocks reach still has its Mamba state is   *)
(*    left open, and hits inside a block (a hash block smaller than the    *)
(*    block) are not modelled; Blocks are those the attention groups may   *)
(*    use, the Mamba groups' own blocks being set aside;                   *)
(*  - drafts come from a single-module MTP head run NumSpec times: it takes *)
(*    no draft slots out of the token budget, so input_budget is           *)
(*    token_budget, and no prefill lookahead is reserved;                  *)
(*  - a step's num_computed_tokens advances when its output is processed   *)
(*    (the code: after schedule, then rolled back by the rejected drafts);  *)
(*  - the placeholder drafts of a padded admission may be accepted, as any *)
(*    other; watermark_blocks is 0; the steps that only tell the worker    *)
(*    which requests finished are left out.                                *)
(***************************************************************************)
EXTENDS TailPool

CONSTANTS
    Reqs,           \* request ids
    NoHash,         \* the block_hash of a block that is not cached
    PromptLens,     \* prompt lengths an arriving request may have
    SharedLen,      \* length of the prefix all requests share
    MaxModelLen,    \* max_model_len
    MaxNumSeqs,     \* max_num_running_reqs
    MaxTokens,      \* max_num_scheduled_tokens
    NumSpec,        \* num_spec_tokens = num_lookahead_tokens
    Caching,        \* enable_prefix_caching
    Hybrid,         \* has_mamba_layers, mamba_cache_mode = "align"
    Throttle        \* values schedule's throttle_prefills may take

ASSUME EngineAssumption ==
    /\ MaxModelLen \in Nat \ {0} /\ PromptLens \subseteq 1 .. MaxModelLen - 1
    /\ SharedLen \in Nat /\ NumSpec \in Nat
    /\ MaxNumSeqs \in Nat \ {0}
    /\ MaxTokens \in Nat \ {0} /\ MaxTokens >= MaxNumSeqs
    /\ Caching \in BOOLEAN /\ Hybrid \in BOOLEAN
    /\ Throttle \subseteq BOOLEAN

VARIABLES
    waiting, running,   \* the scheduler's queues
    done,               \* requests finished or aborted
    num_prompt,         \* request.num_prompt_tokens
    num_tokens,         \* request.num_tokens: prompt and output
    num_computed,       \* request.num_computed_tokens
    num_drafts,         \* len(request.spec_token_ids)
    prefill_chunk,      \* request.is_prefill_chunk
    shared_prefix_boundary,  \* of the request: where its cached prefix ends, if past the hit
    req_blocks,         \* req_to_blocks
    num_cached,         \* num_cached_block: blocks of the request hashed so far
    block_hash,         \* block -> its hash, NoHash when not cached
    cached_this_step,   \* cached_blocks_this_step
    phase,              \* where the engine is in a step
    req_index,          \* the running loop's cursor
    token_budget, defer_prefills, preempted,  \* locals of schedule
    capacity_bound,     \* prefill_capacity_bound
    scheduled,          \* num_scheduled_tokens of this step, 0 when not scheduled
    accepted,           \* how many of the step's draft tokens the sampler accepts
    draft_pass          \* the drafter's pass

queueVars == <<waiting, running, done>>
reqVars == <<num_prompt, num_tokens, num_computed, num_drafts, prefill_chunk,
             shared_prefix_boundary>>
blockVars == <<req_blocks, num_cached, block_hash, cached_this_step>>
scheduleVars == <<req_index, token_budget, defer_prefills, preempted>>
stepVars == <<phase, scheduleVars, capacity_bound, scheduled, accepted, draft_pass>>
vars == <<poolVars, queueVars, reqVars, blockVars, stepVars>>

BlockSize == GROUP * TPR

Init ==
    /\ PoolInit
    /\ waiting = <<>> /\ running = <<>> /\ done = {}
    /\ num_prompt = [r \in Reqs |-> 0]
    /\ num_tokens = [r \in Reqs |-> 0]
    /\ num_computed = [r \in Reqs |-> 0]
    /\ num_drafts = [r \in Reqs |-> 0]
    /\ prefill_chunk = [r \in Reqs |-> FALSE]
    /\ shared_prefix_boundary = [r \in Reqs |-> 0]
    /\ req_blocks = [r \in Reqs |-> <<>>]
    /\ num_cached = [r \in Reqs |-> 0]
    /\ block_hash = [b \in Blocks |-> NoHash]
    /\ cached_this_step = {}
    /\ phase = "idle" /\ req_index = 1 /\ token_budget = MaxTokens
    /\ defer_prefills = FALSE /\ preempted = FALSE /\ capacity_bound = FALSE
    /\ scheduled = [r \in Reqs |-> 0]
    /\ accepted = [r \in Reqs |-> 0]
    /\ draft_pass = 0

-----------------------------------------------------------------------------
(* Blocks and the prefix cache.                                             *)

Owner(r, p) == IF p < SharedLen THEN "shared" ELSE r
KV(r, p) == <<Owner(r, p), p>>
Hash == (Reqs \cup {"shared"}) \X Nat
HashOf(r, i) == <<Owner(r, (i + 1) * BlockSize - 1), i>>

InUse == UNION {Range(req_blocks[r]) : r \in Reqs}
FreeBlocks == Blocks \ InUse

Distinct(S, n) == {s \in [1 .. n -> S] : IsInjective(s)}

\* find_longest_cache_hit of the attention group: how many blocks of the
\* request's prefix, of at most num_tokens - 1 tokens, are cached; a drafter has
\* the last of them recomputed.
LongestHits(r) ==
    LET limit == IF Caching THEN (num_tokens[r] - 1) \div BlockSize ELSE 0
        Cached(i) == \E b \in Blocks : block_hash[b] = HashOf(r, i)
        hits == {n \in 0 .. limit : \A i \in 0 .. n - 1 : Cached(i)}
        longest == {n \in hits : \A m \in hits : m <= n}
    IN  {m \in 0 .. limit : \E n \in longest : m = IF NumSpec > 0 THEN Max2(n - 1, 0) ELSE n}

\* The blocks get_computed_blocks returns when the attention group has m: in a
\* hybrid model the Mamba state of any boundary up to m may be the last one kept.
HitBlocks(r, m) ==
    UNION {{s \in [1 .. n -> Blocks] :
                \A i \in 1 .. n : block_hash[s[i]] = HashOf(r, i - 1)} :
           n \in IF Hybrid THEN 0 .. m ELSE {m}}

\* A prefix longer than the hit is cached for attention but not for Mamba.
Junction(hit, m) == IF Len(hit) < m THEN m * BlockSize ELSE 0

\* allocate_slots once the blocks are known to fit: the request holds the hit
\* blocks and new ones, which lose the hash they had, and every block that
\* this step's known tokens fill gets its hash, before it is computed.  The
\* Mamba group caches the last of them only, and that unless the chunk runs
\* from its start past its end.
GiveBlocks(r, hit, new, start, n) ==
    LET held == req_blocks[r] \o hit \o new
        full == IF Caching THEN Min2(start + n, num_tokens[r]) \div BlockSize ELSE 0
        first == num_cached[r] + Len(hit)
        fresh == {held[i] : i \in first + 1 .. full}
    IN  /\ req_blocks' = [req_blocks EXCEPT ![r] = held]
        /\ num_cached' = [num_cached EXCEPT ![r] = Max2(first, full)]
        /\ block_hash' = [b \in Blocks |->
              IF b \in fresh
              THEN HashOf(r, (CHOOSE i \in first + 1 .. full : held[i] = b) - 1)
              ELSE IF b \in Range(new) THEN NoHash
              ELSE block_hash[b]]
        /\ cached_this_step' = cached_this_step \cup
              {HashOf(r, i - 1) : i \in {i \in first + 1 .. full :
                  i = full /\ (start > (i - 1) * BlockSize \/ start + n = i * BlockSize)}}

\* Blocks missing beyond the have ones for n tokens after the first start ones
\* and the drafter's lookahead.
Shortage(start, n, have) ==
    Max2(Cdiv(Min2(start + n + NumSpec, MaxModelLen), BlockSize) - have, 0)

FreeRequest(r) ==
    /\ req_blocks' = [req_blocks EXCEPT ![r] = <<>>]
    /\ num_cached' = [num_cached EXCEPT ![r] = 0]

-----------------------------------------------------------------------------
(* Requests arrive, and clients abort them.                                 *)

Without(queue, S) == SelectSeq(queue, LAMBDA r : r \notin S)

AddRequest(r) ==
    /\ phase = "idle"
    /\ r \notin Range(waiting) \cup Range(running) \cup done
    /\ \E n \in PromptLens :
        /\ num_prompt' = [num_prompt EXCEPT ![r] = n]
        /\ num_tokens' = [num_tokens EXCEPT ![r] = n]
    /\ num_computed' = [num_computed EXCEPT ![r] = 0]
    /\ num_drafts' = [num_drafts EXCEPT ![r] = 0]
    /\ prefill_chunk' = [prefill_chunk EXCEPT ![r] = FALSE]
    /\ shared_prefix_boundary' = [shared_prefix_boundary EXCEPT ![r] = 0]
    /\ waiting' = Append(waiting, r)
    /\ UNCHANGED <<poolVars, running, done, blockVars, stepVars>>

\* finish_requests, called for a client that went away: between steps, or from
\* _process_aborts_queue once the model has run and before update_from_output,
\* which then skips the request.
AbortRequest(r) ==
    /\ phase \in {"idle", "update"}
    /\ r \in Range(waiting) \cup Range(running)
    /\ waiting' = Without(waiting, {r})
    /\ running' = Without(running, {r})
    /\ done' = done \cup {r}
    /\ FreeRequest(r)
    /\ num_prompt' = [num_prompt EXCEPT ![r] = 0]
    /\ num_tokens' = [num_tokens EXCEPT ![r] = 0]
    /\ num_computed' = [num_computed EXCEPT ![r] = 0]
    /\ num_drafts' = [num_drafts EXCEPT ![r] = 0]
    /\ prefill_chunk' = [prefill_chunk EXCEPT ![r] = FALSE]
    /\ shared_prefix_boundary' = [shared_prefix_boundary EXCEPT ![r] = 0]
    /\ scheduled' = [scheduled EXCEPT ![r] = 0]
    /\ accepted' = [accepted EXCEPT ![r] = 0]
    /\ UNCHANGED <<poolVars, block_hash, cached_this_step, phase, scheduleVars,
                   capacity_bound, draft_pass>>

-----------------------------------------------------------------------------
(* Scheduler.schedule.                                                      *)

Scheduled == {r \in Reqs : scheduled[r] > 0}

\* Mutant: a chunk ends one token short of the block boundary.
MutShort(r, start, n, junction) ==
    IF start + n >= num_prompt[r] THEN n
    ELSE Max2(((start + n) \div BlockSize) * BlockSize - 1 - start, 0)

\* _mamba_block_aligned_split: a prefill chunk ends on a block boundary, and
\* neither runs past the last boundary whose state can be cached nor past the
\* junction with a prefix that other requests share.
AlignedSplit(r, start, n, junction) ==
    LET prefill_end == Max2(num_prompt[r], num_tokens[r] - 1)
        last == (num_tokens[r] \div BlockSize) * BlockSize
        last_cache == IF NumSpec > 0 THEN Max2(last - BlockSize, 0) ELSE last
        floor == ((start + n) \div BlockSize) * BlockSize
        end == IF /\ start + n < prefill_end
                  /\ floor > start \/ BlockSize <= MaxTokens
               THEN floor ELSE start + n
        boundary == IF start % BlockSize = 0 THEN 0
                    ELSE (start \div BlockSize + 1) * BlockSize
        shared == IF start < junction /\ junction < end
                  THEN start + ((junction - start) \div BlockSize) * BlockSize ELSE 0
        stops == {s \in {boundary, last_cache, shared} : start < s /\ s < end}
        stop == IF stops = {} THEN end ELSE CHOOSE s \in stops : \A t \in stops : s <= t
    IN  IF ~ Hybrid \/ start >= prefill_end THEN n ELSE Max2(stop - start, 0)

StartStep ==
    /\ phase = "idle"
    /\ waiting # <<>> \/ running # <<>>
    /\ \E throttle \in Throttle :
        defer_prefills' = (/\ throttle
                           /\ ~ capacity_bound
                           /\ \E r \in Range(running) : ~ prefill_chunk[r])
    /\ cached_this_step' = {}
    /\ phase' = "running"
    /\ UNCHANGED <<poolVars, queueVars, reqVars, req_blocks, num_cached, block_hash,
                   req_index, token_budget, preempted, capacity_bound, scheduled,
                   accepted, draft_pass>>

\* schedule returns, and its locals are gone.
Return ==
    /\ phase' = "execute"
    /\ req_index' = 1 /\ token_budget' = MaxTokens
    /\ defer_prefills' = FALSE /\ preempted' = FALSE

InRunningLoop == phase = "running" /\ req_index <= Len(running) /\ token_budget > 0
Current(r) == InRunningLoop /\ r = running[req_index]

NumNew(r) ==
    AlignedSplit(r, num_computed[r],
        Min2(num_tokens[r] + num_drafts[r] - num_computed[r],
             Min2(token_budget, MaxModelLen - num_computed[r] - 1)),
        shared_prefix_boundary[r])

\* Mutant: a prefill chunk is passed over in every step.
MutStarveChunks(r) == prefill_chunk[r] \/ NumNew(r) = 0

Passed(r) == (defer_prefills /\ prefill_chunk[r]) \/ NumNew(r) = 0
RunningShortage(r) == Shortage(num_computed[r], NumNew(r), Len(req_blocks[r]))

SkipRunning(r) ==
    /\ Current(r)
    /\ Passed(r)
    /\ req_index' = req_index + 1
    /\ UNCHANGED <<poolVars, queueVars, reqVars, blockVars, phase, token_budget,
                   defer_prefills, preempted, capacity_bound, scheduled, accepted,
                   draft_pass>>

ScheduleRunning(r) ==
    /\ Current(r)
    /\ ~ Passed(r)
    /\ \E new \in Distinct(FreeBlocks, RunningShortage(r)) :
          GiveBlocks(r, <<>>, new, num_computed[r], NumNew(r))
    /\ scheduled' = [scheduled EXCEPT ![r] = NumNew(r)]
    /\ token_budget' = token_budget - NumNew(r)
    /\ num_drafts' = [num_drafts EXCEPT ![r] = 0]
    /\ req_index' = req_index + 1
    /\ UNCHANGED <<poolVars, queueVars, num_prompt, num_tokens, num_computed,
                   prefill_chunk, shared_prefix_boundary, phase, defer_prefills,
                   preempted, capacity_bound, accepted, draft_pass>>

\* Not enough free blocks: _preempt_request takes the last running request,
\* which may be the one being scheduled.
PreemptLast(r) ==
    /\ Current(r)
    /\ ~ Passed(r)
    /\ RunningShortage(r) > Cardinality(FreeBlocks)
    /\ LET victim == running[Len(running)] IN
        /\ running' = SubSeq(running, 1, Len(running) - 1)
        /\ waiting' = <<victim>> \o waiting
        /\ FreeRequest(victim)
        /\ num_computed' = [num_computed EXCEPT ![victim] = 0]
        /\ num_drafts' = [num_drafts EXCEPT ![victim] = 0]
    /\ preempted' = TRUE
    /\ UNCHANGED <<poolVars, done, num_prompt, num_tokens, prefill_chunk,
                   shared_prefix_boundary, block_hash, cached_this_step, phase, req_index, token_budget,
                   defer_prefills, capacity_bound, scheduled, accepted, draft_pass>>

EndRunning ==
    /\ phase = "running" /\ ~ InRunningLoop
    /\ \/ preempted /\ Return
       \/ ~ preempted /\ phase' = "waiting" /\ UNCHANGED scheduleVars
    /\ UNCHANGED <<poolVars, queueVars, reqVars, blockVars, capacity_bound,
                   scheduled, accepted, draft_pass>>

InWaitingLoop ==
    /\ phase = "waiting"
    /\ waiting # <<>> /\ token_budget > 0 /\ Len(running) < MaxNumSeqs

\* A one-token admission is padded to a decode's size when only decodes run.
Padded(r, start) ==
    LET before == {running[i] : i \in 1 .. req_index - 1} \cap Scheduled IN
    /\ NumSpec > 0 /\ num_tokens[r] - start = 1
    /\ before # {} /\ \A s \in before : ~ prefill_chunk[s]

\* Tokens to schedule for an admission, 0 when the loop breaks instead.
NumAdmitted(r, start, junction) ==
    LET n == Min2(num_tokens[r] - start, token_budget) IN
    IF defer_prefills /\ start < num_tokens[r] - 1 THEN 0
    ELSE IF ~ Padded(r, start) THEN AlignedSplit(r, start, n, junction)
    ELSE IF 1 + NumSpec > token_budget \/ start + 1 + NumSpec > MaxModelLen THEN 0
    ELSE AlignedSplit(r, start, 1 + NumSpec, junction)

\* allocate_slots' checks: the whole sequence fits, so do this step's tokens,
\* and a hybrid model refuses a hit on a block hashed in this very step.
Fits(r, hit, n) ==
    LET start == Len(hit) * BlockSize
        reused == Cardinality(Range(hit) \cap FreeBlocks)
        whole == Cdiv(Min2(num_tokens[r], MaxModelLen), BlockSize) - Len(hit)
    IN  /\ Max2(whole, 0) + reused <= Cardinality(FreeBlocks)
        /\ Shortage(start, n, Len(hit)) + reused <= Cardinality(FreeBlocks)
        /\ ~ (/\ Hybrid /\ hit # <<>>
              /\ HashOf(r, Len(hit) - 1) \in cached_this_step)

AdmitWaiting(r) ==
    /\ InWaitingLoop
    /\ r = Head(waiting)
    /\ \E m \in LongestHits(r) : \E hit \in HitBlocks(r, m) :
         LET start == Len(hit) * BlockSize
             n == NumAdmitted(r, start, Junction(hit, m))
         IN /\ n > 0 /\ Fits(r, hit, n)
            /\ \E new \in Distinct(FreeBlocks \ Range(hit), Shortage(start, n, Len(hit))) :
                  GiveBlocks(r, hit, new, start, n)
            /\ scheduled' = [scheduled EXCEPT ![r] = n]
            /\ token_budget' = token_budget - n
            /\ num_computed' = [num_computed EXCEPT ![r] = start]
            /\ shared_prefix_boundary' =
                  [shared_prefix_boundary EXCEPT ![r] = Junction(hit, m)]
    /\ running' = Append(running, r)
    /\ waiting' = Tail(waiting)
    /\ UNCHANGED <<poolVars, done, num_prompt, num_tokens, num_drafts,
                   prefill_chunk, phase, req_index, defer_prefills, preempted,
                   capacity_bound, accepted, draft_pass>>

EndWaiting ==
    /\ phase = "waiting"
    /\ \/ ~ InWaitingLoop
       \/ /\ InWaitingLoop
          /\ LET r == Head(waiting) IN
             \E m \in LongestHits(r) : \E hit \in HitBlocks(r, m) :
                LET n == NumAdmitted(r, Len(hit) * BlockSize, Junction(hit, m))
                IN  n = 0 \/ ~ Fits(r, hit, n)
    /\ capacity_bound' = IF defer_prefills THEN capacity_bound ELSE waiting # <<>>
    /\ Return
    /\ UNCHANGED <<poolVars, queueVars, reqVars, blockVars, scheduled, accepted,
                   draft_pass>>

-----------------------------------------------------------------------------
(* The worker's step and the scheduler's update from its output.            *)

Drafts(r) == Max2(num_computed[r] + scheduled[r] - num_tokens[r], 0)
Samples(r) == num_computed[r] + scheduled[r] >= num_tokens[r]

\* Tokens of the request whose K/V is final after this step.
Kept(r) == num_computed[r] + scheduled[r] - Drafts(r) + accepted[r]

\* The batch: a rejected draft token writes K/V that is no token's.
Row(r, ok) ==
    [bt |-> req_blocks[r],
     sl |-> num_computed[r] + scheduled[r],
     q  |-> scheduled[r],
     kv |-> [p \in num_computed[r] .. num_computed[r] + scheduled[r] - 1 |->
                IF p < num_computed[r] + scheduled[r] - Drafts(r) + ok[r]
                THEN KV(r, p) ELSE Garbage]]
Batch(ok) == {Row(r, ok) : r \in Scheduled}

\* _input_fits_in_drafter
DrafterFits ==
    \A r \in Scheduled : num_computed[r] + scheduled[r] + NumSpec <= MaxModelLen

\* Nothing was scheduled: every chunk was deferred and the only decode
\* preempted itself.  The worker runs no forward.
EmptyStep ==
    /\ phase = "execute" /\ Scheduled = {}
    /\ phase' = "idle"
    /\ UNCHANGED <<poolVars, queueVars, reqVars, blockVars, scheduleVars,
                   capacity_bound, scheduled, accepted, draft_pass>>

\* execute_model: build the metadata, then every layer stores the step's K/V
\* and attends.
Execute ==
    /\ phase = "execute" /\ Scheduled # {}
    /\ \E ok \in [Reqs -> 0 .. NumSpec] :
        /\ \A r \in Reqs : ok[r] <= IF r \in Scheduled THEN Drafts(r) ELSE 0
        /\ accepted' = ok
        /\ Build(Batch(ok), FALSE)
        /\ Store(Batch(ok))
    /\ phase' = IF NumSpec > 0 /\ DrafterFits THEN "draft" ELSE "update"
    /\ UNCHANGED <<queueVars, reqVars, blockVars, scheduleVars, capacity_bound,
                   scheduled, draft_pass>>

\* The drafter's passes: the first over the step's rows, the others one token
\* past the accepted ones each.  They write only the drafter's own layers.
DraftRow(r, pass) ==
    IF pass = 0 THEN Row(r, accepted)
    ELSE [Row(r, accepted) EXCEPT !.sl = Kept(r) + pass, !.q = 1]
DraftBatch(pass) == {DraftRow(r, pass) : r \in Scheduled}

Draft ==
    /\ phase = "draft"
    /\ Build(DraftBatch(draft_pass), TRUE)
    /\ Store({})
    /\ draft_pass' = IF draft_pass + 1 < NumSpec THEN draft_pass + 1 ELSE 0
    /\ phase' = IF draft_pass + 1 < NumSpec THEN "draft" ELSE "update"
    /\ UNCHANGED <<queueVars, reqVars, blockVars, scheduleVars, capacity_bound,
                   scheduled, accepted>>

PoolExhausted ==
    /\ \/ /\ phase = "execute" /\ Scheduled # {}
          /\ BuildFails(Batch(accepted), FALSE)
       \/ /\ phase = "draft"
          /\ BuildFails(DraftBatch(draft_pass), TRUE)
    /\ phase' = "dead"
    /\ UNCHANGED <<queueVars, reqVars, blockVars, scheduleVars, capacity_bound,
                   scheduled, accepted, draft_pass>>

\* Mutant: rejected drafts are not rolled back.
MutNoRollback(r) == num_computed[r] + scheduled[r]

\* num_computed_tokens once the rejected drafts are taken off again.
RolledBack(r) == IF r \in Scheduled THEN Kept(r) ELSE num_computed[r]

\* update_from_output: accepted and sampled tokens are appended, rejected ones
\* rolled back; a request stops at a stop token or at max_model_len, and is
\* then freed and deleted.
Update ==
    /\ phase = "update"
    /\ LET sampled == {r \in Scheduled : Samples(r)}
           tokens == [r \in Reqs |->
                        IF r \in sampled
                        THEN Min2(num_tokens[r] + accepted[r] + 1, MaxModelLen)
                        ELSE num_tokens[r]]
       IN \E stopped \in SUBSET sampled :
            LET Live(new, gone) == [r \in Reqs |-> IF r \in stopped THEN gone ELSE new[r]] IN
            /\ \A r \in sampled : tokens[r] = MaxModelLen => r \in stopped
            /\ num_prompt' = Live(num_prompt, 0)
            /\ num_tokens' = Live(tokens, 0)
            /\ num_computed' = Live([r \in Reqs |-> RolledBack(r)], 0)
            /\ num_drafts' = Live([r \in Reqs |-> IF r \in sampled THEN NumSpec
                                                  ELSE num_drafts[r]], 0)
            /\ prefill_chunk' = Live([r \in Reqs |-> IF r \in Scheduled THEN ~ Samples(r)
                                                     ELSE prefill_chunk[r]], FALSE)
            /\ shared_prefix_boundary' = Live(shared_prefix_boundary, 0)
            /\ req_blocks' = Live(req_blocks, <<>>)
            /\ num_cached' = Live(num_cached, 0)
            /\ running' = Without(running, stopped)
            /\ done' = done \cup stopped
    /\ scheduled' = [r \in Reqs |-> 0]
    /\ accepted' = [r \in Reqs |-> 0]
    /\ phase' = "idle"
    /\ UNCHANGED <<poolVars, waiting, block_hash, cached_this_step, scheduleVars,
                   capacity_bound, draft_pass>>

\* Every request has come and gone.
Quiescent ==
    /\ phase = "idle" /\ done = Reqs
    /\ UNCHANGED vars

\* One iteration of the engine's busy loop is a run of these.
EngineStep ==
    \/ StartStep \/ EndRunning \/ EndWaiting
    \/ \E r \in Reqs : SkipRunning(r) \/ ScheduleRunning(r) \/ PreemptLast(r)
                          \/ AdmitWaiting(r)
    \/ EmptyStep \/ Execute \/ Draft \/ PoolExhausted
    \/ Update

Next ==
    \/ \E r \in Reqs : AddRequest(r) \/ AbortRequest(r)
    \/ EngineStep
    \/ Quiescent

Spec == Init /\ [][Next]_vars

-----------------------------------------------------------------------------
(* Properties.                                                              *)

\* Types, and the bounds schedule asserts: what a step schedules fits
\* max_num_scheduled_tokens, and no request computes past max_model_len.
TypeOK ==
    /\ PoolTypeOK
    /\ done \subseteq Reqs
    /\ num_prompt \in [Reqs -> 0 .. MaxModelLen]
    /\ num_tokens \in [Reqs -> 0 .. MaxModelLen]
    /\ num_computed \in [Reqs -> 0 .. MaxModelLen - 1]
    /\ num_drafts \in [Reqs -> 0 .. NumSpec]
    /\ prefill_chunk \in [Reqs -> BOOLEAN]
    /\ shared_prefix_boundary \in [Reqs -> Nat]
    /\ req_blocks \in [Reqs -> Seq(Blocks)]
    /\ num_cached \in [Reqs -> Nat]
    /\ block_hash \in [Blocks -> Hash \cup {NoHash}]
    /\ cached_this_step \subseteq Hash
    /\ phase \in {"idle", "running", "waiting", "execute", "draft", "update", "dead"}
    /\ req_index \in Nat \ {0}
    /\ token_budget \in 0 .. MaxTokens
    /\ defer_prefills \in BOOLEAN /\ preempted \in BOOLEAN /\ capacity_bound \in BOOLEAN
    /\ scheduled \in [Reqs -> 0 .. MaxTokens]
    /\ accepted \in [Reqs -> 0 .. NumSpec]
    /\ draft_pass \in Nat

\* Rolling rejected drafts back is exact: the token a request sampled last is
\* never counted as computed, so there is always one to schedule next, and the
\* sampler accepts only drafts that the step scheduled.
RollbackExact ==
    \A r \in Reqs :
        /\ num_computed[r] < Max2(num_tokens[r], 1)
        /\ accepted[r] <= IF phase \in {"draft", "update", "dead"} /\ r \in Scheduled
                          THEN Drafts(r) ELSE 0

TokenRead(bt, p) ==
    Read(<<bt[(p \div BlockSize) + 1], (p \div GROUP) % TPR>>)[p % GROUP]

\* What attention reads for every scheduled request, through pool slots and
\* int4 tiles, is the K/V of that request's own tokens (forward after
\* do_kv_cache_update, with the map this step's build left).
ReadsCorrect ==
    phase \in {"draft", "update"} =>
        \A r \in Scheduled : \A p \in 0 .. Kept(r) - 1 :
            TokenRead(req_blocks[r], p) = KV(r, p)

\* A block the prefix cache can hand out holds the K/V its hash stands for,
\* whether its tiles are live, retired, flushed or reclaimed: the reclaim
\* "must find a valid int4 tile" promise of the builder.
CachedBlocksValid ==
    phase = "idle" => \A b \in Blocks : block_hash[b] # NoHash =>
        \A k \in 0 .. BlockSize - 1 :
            LET p == block_hash[b][2] * BlockSize + k IN
            Read(<<b, k \div GROUP>>)[k % GROUP] =
                <<IF p < SharedLen THEN "shared" ELSE block_hash[b][1], p>>

\* The pool never runs out of slots for the batches the scheduler admits.
NeverExhausted == ~ exhausted

\* "KVarN pool exhausted" is raised only when the tiles this step itself needs
\* do not fit: no slot left with a finished request, no retired sink and no tile
\* that the same build flushes can cause it.
NoFalseExhaustion ==
    exhausted => Cardinality(Needed(UNION {DraftBatch(i) : i \in 0 .. draft_pass}))
                    > Cardinality(Slots)

\* The last, partly filled tile of a running request is in the pool.
TailResident(r) ==
    num_computed[r] % GROUP # 0 =>
        RowTile([bt |-> req_blocks[r]], num_computed[r] \div GROUP) \in Resident

\* The last, partly filled tile of every running request stays in the pool
\* between steps: the builder takes "NOT needed this step" to mean "finished".
LiveTailResident == phase = "idle" => \A r \in Range(running) : TailResident(r)

\* The token budget has a token left for the last of max_num_seqs requests when
\* all the others decode with every draft.
RoomForAll == MaxTokens > (MaxNumSeqs - 1) * (1 + NumSpec)

\* When the scheduler neither aligns nor defers chunks, a budget with room for
\* every sequence is enough for that: only the last running request can be in
\* the middle of its prompt, so no request is left out of a step and none of
\* the tails the builder discards is live.
TailsStayWithRoom == ~ Hybrid /\ Throttle = {FALSE} /\ RoomForAll => LiveTailResident

\* When prompt chunks are aligned to blocks and the budget holds a block,
\* deferring a request in the middle of its prompt loses no tail, whatever the
\* throttle and the other requests do.
PromptTailsStay ==
    Hybrid /\ BlockSize <= MaxTokens /\ phase = "idle" =>
        \A r \in Range(running) : num_computed[r] < num_prompt[r] => TailResident(r)

EngineBuild == phase = "execute" /\ phase' \in {"draft", "update"}

\* An engine build leaves every slot with a request of the batch, or with a
\* retired sink that can be evicted: finished, preempted and aborted requests
\* hold none.
NoOrphanSlots ==
    [][EngineBuild =>
         \A x \in (Resident \ retired)' :
            \E r \in Scheduled : x[1] \in Range(req_blocks[r])]_vars

\* After the build of a batch of plain decodes at most a sink and a tail per
\* request hold slots.  (That the flush comes first, so that the build itself
\* needs no more, is the business of NoFalseExhaustion.)
DecodePeak ==
    [][EngineBuild /\ (\A r \in Scheduled : scheduled[r] = 1) =>
         Cardinality((Resident \ retired)') <= 2 * Cardinality(Scheduled)]_vars

\* The attention sink of a request in the batch is not quantised under it: the
\* builds of a step that runs the request leave the slot of its sink alone,
\* whichever sinks they retire or evict for other requests.
SinkKeepsSlot ==
    [][\A r \in Scheduled : LET x == RowTile([bt |-> req_blocks[r]], 0) IN
          x \in sinks /\ num_computed[r] >= GROUP => b2s'[x] = b2s[x]]_vars

\* The partly filled tail of a request in the batch stays in its slot through
\* the builds of the step, the one that raises included: a tile whose block id
\* was recycled from a retired sink is not evicted for another tile.
TailKeepsSlot ==
    [][\A r \in Scheduled :
         LET x == RowTile([bt |-> req_blocks[r]], num_computed[r] \div GROUP) IN
         num_computed[r] % GROUP # 0 /\ x \in Resident => b2s'[x] = b2s[x]]_vars

\* The engine's busy loop steps while it has requests, so a step that can be
\* taken is taken; arrivals and aborts are up to the clients.
LiveSpec == Spec /\ WF_vars(EngineStep)

\* Every request that arrives is finished or aborted in the end: no request is
\* preempted, skipped or refused admission for ever.
EveryRequestFinishes ==
    \A r \in Reqs : r \in Range(waiting) ~> r \in done
=============================================================================
