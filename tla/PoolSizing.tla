----------------------------- MODULE PoolSizing -----------------------------
(***************************************************************************)
(* How large the tail pool is made and how many slots a batch asks of it.  *)
(*                                                                         *)
(* config.py computes the number of slots from max_num_seqs and            *)
(* max_num_batched_tokens (pool_slots), and the platform caps max_num_seqs *)
(* so that the pool fits a memory budget (max_supported_seqs).  A batch is *)
(* put together row by row, within those two limits, and every row adds    *)
(* the tiles the builder's blocks_needed names for it.                     *)
(*                                                                         *)
(* Abstractions: the budget is counted in slots (budget / slot bytes); no  *)
(* two rows share a tile, which is when most slots are needed; a drafter's *)
(* later passes count as lookahead tokens of the row, because their builds *)
(* release nothing.  KVARN_POOL_SLOTS is not set.                          *)
(***************************************************************************)
EXTENDS Integers

CONSTANTS
    GROUP,          \* tokens per tile
    MaxTokens,      \* max_num_batched_tokens
    NumSpec,        \* num_spec_tokens
    Budgets,        \* slots the memory budget may pay for
    Requested,      \* max_num_seqs the user may ask for
    Positions       \* committed lengths a row may have

ASSUME SizingAssumption ==
    /\ GROUP \in Nat \ {0}
    /\ MaxTokens \in Nat \ {0}
    /\ NumSpec \in Nat
    /\ Budgets \subseteq Nat
    /\ Requested \subseteq Nat \ {0}
    /\ Positions \subseteq Nat

VARIABLES
    max_slots,      \* int(budget / slot_bytes)
    max_num_seqs,   \* as capped by check_and_update_config
    rows, tokens,   \* requests and tokens in the batch
    demand,         \* slots the batch needs
    crossings       \* of those, the ones beyond two a row and one a full tile of tokens

vars == <<max_slots, max_num_seqs, rows, tokens, demand, crossings>>

Max2(a, b) == IF a >= b THEN a ELSE b
Min2(a, b) == IF a <= b THEN a ELSE b

PrefillBlocks == (MaxTokens + GROUP - 1) \div GROUP

\* Mutant: the headroom is forgotten.
MutHeadroom(seqs) == Max2(2 * seqs + PrefillBlocks, 8)

pool_slots(seqs) == Max2(2 * seqs + PrefillBlocks + 8, 8)

\* Mutant: the inverse forgets the headroom.
MutInverse(slots) == Max2(1, (slots - PrefillBlocks) \div 2)

max_supported_seqs(slots) == Max2(1, (slots - PrefillBlocks - 8) \div 2)

Init ==
    /\ max_slots \in Budgets
    /\ \E n \in Requested : max_num_seqs = Min2(n, max_supported_seqs(max_slots))
    /\ rows = 0 /\ tokens = 0 /\ demand = 0 /\ crossings = 0

\* Tiles from the one holding token c to the one holding token c + n - 1.
Tiles(c, n) == (c + n + GROUP - 1) \div GROUP - c \div GROUP

\* Tiles of the row that neither its tail nor its full tiles of tokens pay for.
Crossing(c, q, ahead) == Max2(Tiles(c, q + ahead) - 1 - q \div GROUP, 0)

\* Mutant: the limit on requests is checked too late.
MutLateLimit(c, q, ahead, sink) ==
    /\ rows <= max_num_seqs
    /\ tokens + q <= MaxTokens
    /\ rows' = rows + 1
    /\ tokens' = tokens + q
    /\ demand' = demand + Tiles(c, q + ahead) + sink
    /\ crossings' = crossings + Crossing(c, q, ahead)
    /\ UNCHANGED <<max_slots, max_num_seqs>>

\* A row with c committed tokens that writes q, and ahead more in the drafter's
\* later passes.  Its sink is a slot of its own unless the row writes that tile.
AddRow(c, q, ahead, sink) ==
    /\ rows < max_num_seqs
    /\ tokens + q <= MaxTokens
    /\ sink = 1 => c >= GROUP
    /\ rows' = rows + 1
    /\ tokens' = tokens + q
    /\ demand' = demand + Tiles(c, q + ahead) + sink
    /\ crossings' = crossings + Crossing(c, q, ahead)
    /\ UNCHANGED <<max_slots, max_num_seqs>>

\* The batch has run; the next build starts from nothing needed.
NextBatch ==
    /\ rows > 0
    /\ rows' = 0 /\ tokens' = 0 /\ demand' = 0 /\ crossings' = 0
    /\ UNCHANGED <<max_slots, max_num_seqs>>

Next ==
    \/ \E c \in Positions, q \in 1 .. MaxTokens, ahead \in 0 .. Max2(NumSpec - 1, 0),
          sink \in {0, 1} : AddRow(c, q, ahead, sink)
    \/ NextBatch

Spec == Init /\ [][Next]_vars

-----------------------------------------------------------------------------
(* Properties.                                                              *)

\* Types, and the scheduler's two limits: a batch has at most max_num_seqs rows
\* and max_num_batched_tokens tokens.
TypeOK ==
    /\ max_slots \in Nat /\ max_num_seqs \in Nat \ {0}
    /\ rows \in 0 .. max_num_seqs /\ tokens \in 0 .. MaxTokens
    /\ demand \in Nat /\ crossings \in Nat

\* The pool holds every batch whose rows cross at most eight tile boundaries
\* beyond the full tiles they fill: the sink and the tail of each request, the
\* prefill's blocks and the headroom of 8 of pool_slots are what that takes.
HeadroomCovers == crossings <= 8 => demand <= pool_slots(max_num_seqs)

\* The concurrency cap inverts pool_slots: when the budget pays for one request
\* at all, the pool of the capped max_num_seqs stays within it.
PoolWithinBudget ==
    max_slots >= pool_slots(1) => pool_slots(max_num_seqs) <= max_slots

\* What the platform's comment promises: "exhaustion-safe (scheduler cannot
\* exceed it)", for every batch within max_num_seqs and max_num_batched_tokens.
ExhaustionSafe == demand <= pool_slots(max_num_seqs)

\* What the pool's comment promises: "OOM-safe (it is <= the budget)".
OomSafe == pool_slots(max_num_seqs) <= max_slots
=============================================================================
