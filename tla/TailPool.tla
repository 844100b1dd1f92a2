------------------------------ MODULE TailPool ------------------------------
(***************************************************************************)
(* The KVarN tail pool of one KV-cache group: which tiles hold an fp16     *)
(* pool slot, which slots are free, and what every metadata build of the   *)
(* attention backend does to them (kvarn_attn.py, KVarNMetadataBuilder).   *)
(*                                                                         *)
(* A tile is GROUP consecutive tokens.  A vLLM block holds TPR tiles, so   *)
(* the tile row  vbid * tpr + t % tpr  of the code is the pair             *)
(* <<vbid, t % TPR>>.  A tile's K/V is in tail_pool while the tile holds a *)
(* slot, and otherwise in its int4 tile in kv_cache.                       *)
(*                                                                         *)
(* Abstractions:                                                           *)
(*  - one layer stands for all the layers of the group: every layer is     *)
(*    flushed and written with the same tile-to-slot map;                  *)
(*  - the host dict, its GPU mirror block_to_slot_t and the is_sink mirror *)
(*    are updated together, so b2s and sinks stand for both;               *)
(*  - free_slots is a set: slots are interchangeable, and all the code's   *)
(*    list adds is that the slots released last are handed out first;      *)
(*  - retired is a set, evicted in any order (the code: oldest first);     *)
(*  - quantisation keeps the identity of the tokens (it loses precision);  *)
(*  - what a free slot holds is not tracked: Garbage.                      *)
(***************************************************************************)
EXTENDS Integers, Sequences, FiniteSets, Functions

CONSTANTS
    Blocks,     \* vLLM block ids
    Slots,      \* pool slots (pool_slots of the KVarN config)
    NoSlot,     \* the -1 of block_to_slot
    GROUP,      \* tokens per tile
    TPR,        \* tiles per vLLM block
    Garbage     \* K/V of no token

ASSUME PoolAssumption ==
    /\ GROUP \in Nat \ {0}
    /\ TPR \in Nat \ {0}
    /\ NoSlot \notin Slots

VARIABLES
    b2s,            \* _block_to_slot_dict: tile -> slot, NoSlot when absent
    free_slots,     \* _free_slots
    sinks,          \* _global_sink_blocks
    retired,        \* _retired_sinks
    block_fill,     \* _block_fill: tokens the pool holds, 0 when absent
    tail_pool,      \* slot -> the K/V of GROUP tokens
    kv_cache,       \* tile -> the K/V of its int4 tile
    exhausted       \* "KVarN pool exhausted" was raised

poolVars == <<b2s, free_slots, sinks, retired, block_fill, tail_pool, kv_cache,
              exhausted>>
allocVars == <<b2s, free_slots, sinks, retired, block_fill>>

Tile == Blocks \X (0 .. TPR - 1)

Min2(a, b) == IF a <= b THEN a ELSE b
Max2(a, b) == IF a >= b THEN a ELSE b
Cdiv(a, b) == (a + b - 1) \div b

Empty == [o \in 0 .. GROUP - 1 |-> Garbage]

PoolInit ==
    /\ b2s = [x \in Tile |-> NoSlot]
    /\ free_slots = Slots
    /\ sinks = {}
    /\ retired = {}
    /\ block_fill = [x \in Tile |-> 0]
    /\ tail_pool = [s \in Slots |-> Empty]
    /\ kv_cache = [x \in Tile |-> Empty]
    /\ exhausted = FALSE

-----------------------------------------------------------------------------
(* A row of a batch: bt, its block table; sl, its sequence length counting  *)
(* this step's tokens; q, how many tokens this step writes.                 *)

RowTile(row, t) == <<row.bt[(t \div TPR) + 1], t % TPR>>
Committed(row) == Max2(row.sl - row.q, 0)

\* Mutant: the write window starts one tile early.
MutWindow(row) ==
    {t \in Max2((Committed(row) \div GROUP) - 1, 0) .. (Cdiv(row.sl, GROUP) - 1) :
        t < Len(row.bt) * TPR}

\* The tiles this step writes.  The slot mapping names the same tiles.
WrittenIdx(row) ==
    {t \in (Committed(row) \div GROUP) .. (Cdiv(row.sl, GROUP) - 1) :
        t < Len(row.bt) * TPR}

Written(rows) == {x \in Tile : \E row \in rows :
                    \E t \in WrittenIdx(row) : x = RowTile(row, t)}

\* Mutant: the fill of a tile runs to the row's end, past the tile's.
MutFill(rows) ==
    [x \in Tile |->
        IF x \in Written(rows)
        THEN LET row == CHOOSE row \in rows :
                            \E t \in WrittenIdx(row) : x = RowTile(row, t)
                 t == CHOOSE t \in WrittenIdx(row) : x = RowTile(row, t)
             IN  row.sl - t * GROUP
        ELSE block_fill[x]]

\* Tokens the pool holds for each tile once this step has run.
FillAfter(rows) ==
    LET written == Written(rows) IN
    [x \in Tile |->
        IF x \in written
        THEN LET row == CHOOSE row \in rows :
                            \E t \in WrittenIdx(row) : x = RowTile(row, t)
                 t == CHOOSE t \in WrittenIdx(row) : x = RowTile(row, t)
             IN  Min2(row.sl, (t + 1) * GROUP) - t * GROUP
        ELSE block_fill[x]]

FirstTiles(rows) == {x \in Tile : \E row \in rows :
                        Len(row.bt) > 0 /\ x = RowTile(row, 0)}

Resident == {x \in Tile : b2s[x] # NoSlot}

-----------------------------------------------------------------------------
(* The steps of one build, in the order the code takes them.                *)

\* Mutant: the first tile of every row is given a slot, flushed or not.
MutReSink(rows) == Written(rows) \cup FirstTiles(rows)

\* (1) The tiles that must hold a slot: those written, and the existing sinks.
Needed(rows) == Written(rows) \cup (FirstTiles(rows) \cap sinks)

\* A first tile written this step becomes a sink.  A retired tile that is
\* named again is live again, and stops being a sink unless it is still the
\* first tile of a request.
MarkSinks(rows) ==
    (sinks \cup (FirstTiles(rows) \cap Written(rows)))
        \ ((retired \cap Needed(rows)) \ FirstTiles(rows))

\* Mutant: a retired sink that a prefix hit re-adopts stays evictable.
MutUnretire(rows) == retired \ Written(rows)

\* Mutant: a retired sink whose block id is recycled stays evictable.
MutKeepRecycled(rows) == retired \ (FirstTiles(rows) \cap sinks)

Unretire(rows) == retired \ Needed(rows)

\* Mutant: the walk starts from the sequence length, not the committed one.
MutUncommitted(rows) ==
    LET unflushed == Resident \ MarkSinks(rows) IN
    {x \in Tile : \E row \in rows : LET last == (row.sl \div GROUP) - 1 IN
        \E t \in 1 .. last :
            /\ x = RowTile(row, t)
            /\ \A u \in t .. last : RowTile(row, u) \in unflushed}

\* (2) Walk each row back from its committed boundary while the tiles hold
\* slots; stop at a sink and before tile 0.  Tiles shared by two rows have the
\* same tiles below them, so stopping at a tile another row has queued loses
\* nothing.
WalkBack(rows) ==
    LET unflushed == Resident \ MarkSinks(rows) IN
    {x \in Tile : \E row \in rows : LET last == (Committed(row) \div GROUP) - 1 IN
        \E t \in 1 .. last :
            /\ x = RowTile(row, t)
            /\ \A u \in t .. last : RowTile(row, u) \in unflushed}

\* (2b) Slot holders that are neither needed nor queued are taken back: a full
\* sink is retired, another full tile is flushed, a partial one is dropped.
Unneeded(rows) == Resident \ (Needed(rows) \cup WalkBack(rows))

\* Mutant: a full tile of a finished request is dropped like a partial one.
MutNoneFull(rows) == {}

Full(rows) == LET filled == FillAfter(rows) IN {x \in Tile : filled[x] >= GROUP}

\* Mutant: a partial sink is retired too.
MutRetirePartial(rows) == Unneeded(rows) \cap MarkSinks(rows)

Retire(rows) == Unneeded(rows) \cap Full(rows) \cap MarkSinks(rows)
FlushUnneeded(rows) == (Unneeded(rows) \cap Full(rows)) \ MarkSinks(rows)

\* Mutant: partial tiles of finished requests keep their slots.
MutKeepPartial(rows) == {}

Discard(rows) == Unneeded(rows) \ Full(rows)

\* A draft build (fast) neither flushes nor reclaims: its batch is a subset of
\* the live one.
Flushed(rows, fast) == IF fast THEN {} ELSE WalkBack(rows) \cup FlushUnneeded(rows)
Dropped(rows, fast) == IF fast THEN {} ELSE Discard(rows)
Released(rows, fast) == Flushed(rows, fast) \cup Dropped(rows, fast)
Retired(rows, fast) == Unretire(rows) \cup (IF fast THEN {} ELSE Retire(rows))

SlotsOf(tiles) == {b2s[x] : x \in tiles}

\* Mutant: the slot of a discarded tile is not given back.
MutForgetDiscarded(rows, fast) == free_slots \cup SlotsOf(Flushed(rows, fast))

\* Mutant: the slots are handed out before the flush gives any back.
MutAllocateFirst(rows, fast) == free_slots

\* (3) Every needed tile without a slot gets one: a free one while there is
\* one, then that of a retired sink, which is flushed to int4 first.
FreeAfterRelease(rows, fast) == free_slots \cup SlotsOf(Released(rows, fast))
Missing(rows, fast) == Needed(rows) \ (Resident \ Released(rows, fast))

Deficit(rows, fast) ==
    Max2(Cardinality(Missing(rows, fast)) - Cardinality(FreeAfterRelease(rows, fast)), 0)

\* Mutant: a popped slot is not taken off the list.
MutHandOutTwice(rows, fast, evicted) ==
    LET others == free_slots \cup SlotsOf(Released(rows, fast)) \cup SlotsOf(evicted)
    IN  [Missing(rows, fast) -> others]

\* free_slots is popped where it was last appended to: the slots this build
\* released go first, to the needed tiles in any order, then others.
HandOuts(rows, fast, evicted) ==
    LET released == SlotsOf(Released(rows, fast))
        others == free_slots \cup SlotsOf(evicted)
        short == Max2(Cardinality(Missing(rows, fast)) - Cardinality(released), 0)
        popped == CHOOSE S \in SUBSET others : Cardinality(S) = short
    IN  {slot \in [Missing(rows, fast) -> released \cup (others \cap popped)] :
            IsInjective(slot)}

\* _batched_flush: the pool's rows are quantised into the tiles' int4 pages.
BatchedFlush(tiles) ==
    [x \in Tile |-> IF x \in tiles THEN tail_pool[b2s[x]] ELSE kv_cache[x]]

\* What one build leaves behind, given the retired sinks it evicts and the
\* slots it hands out.
Rebuild(rows, fast, evicted, slot) ==
    LET flushed  == Flushed(rows, fast) \cup evicted
        released == Released(rows, fast) \cup evicted
        filled   == FillAfter(rows)
    IN  /\ b2s' = [x \in Tile |-> IF x \in DOMAIN slot THEN slot[x]
                                  ELSE IF x \in released THEN NoSlot
                                  ELSE b2s[x]]
        /\ free_slots' = {s \in FreeAfterRelease(rows, fast) \cup SlotsOf(evicted) :
                            \A x \in DOMAIN slot : s # slot[x]}
        /\ sinks' = {x \in MarkSinks(rows) : x \notin Dropped(rows, fast) \cup evicted}
        /\ retired' = {x \in Retired(rows, fast) : x \notin evicted}
        /\ block_fill' = [x \in Tile |-> IF x \in released THEN 0 ELSE filled[x]]
        /\ kv_cache' = BatchedFlush(flushed)

\* KVarNMetadataBuilder.build: fast is build_for_drafting.
Build(rows, fast) ==
    /\ \E evicted \in SUBSET Retired(rows, fast) :
        /\ Cardinality(evicted) = Deficit(rows, fast)
        /\ \E slot \in HandOuts(rows, fast, evicted) : Rebuild(rows, fast, evicted, slot)
    /\ UNCHANGED exhausted

\* Mutant: retired sinks are not evicted when the free slots run out.
MutNeverEvict(rows, fast) ==
    /\ Deficit(rows, fast) > 0
    /\ exhausted' = TRUE
    /\ UNCHANGED <<allocVars, tail_pool, kv_cache>>

\* The slots the retired sinks and the released tiles give, when these are not
\* enough: each goes to a needed tile, and the tiles that come after get none.
FailedHandOuts(rows, fast) ==
    LET all == FreeAfterRelease(rows, fast) \cup SlotsOf(Retired(rows, fast)) IN
    UNION {{slot \in [given -> all] : IsInjective(slot)} :
           given \in {S \in SUBSET Missing(rows, fast) :
                        Cardinality(S) = Cardinality(all)}}

\* No free slot and no retired sink is left for some needed tile: RuntimeError,
\* with the sinks marked, the flushes and evictions done and the slots handed
\* out so far still in place.
BuildFails(rows, fast) ==
    /\ Deficit(rows, fast) > Cardinality(Retired(rows, fast))
    /\ \E slot \in FailedHandOuts(rows, fast) :
          Rebuild(rows, fast, Retired(rows, fast), slot)
    /\ exhausted' = TRUE
    /\ UNCHANGED tail_pool

-----------------------------------------------------------------------------
(* do_kv_cache_update scatters the K/V of the step's tokens through the     *)
(* map the build left: token p of a row goes to offset p % GROUP of the     *)
(* slot of its tile, and nowhere when the tile has no slot.  A row carries   *)
(* that K/V as kv, a function of the token position.                         *)

Store(rows) ==
    tail_pool' = [s \in Slots |->
        IF s \in free_slots' THEN Empty
        ELSE [o \in 0 .. GROUP - 1 |->
            LET writers == {row \in rows : \E p \in Committed(row) .. row.sl - 1 :
                                /\ p % GROUP = o
                                /\ b2s'[RowTile(row, p \div GROUP)] = s}
            IN  IF writers = {} THEN tail_pool[s][o]
                ELSE LET row == CHOOSE row \in writers : TRUE
                         p == CHOOSE p \in Committed(row) .. row.sl - 1 :
                                /\ p % GROUP = o
                                /\ b2s'[RowTile(row, p \div GROUP)] = s
                     IN  row.kv[p]]]

\* What the attention kernels read for a tile.
Read(x) == IF b2s[x] # NoSlot THEN tail_pool[b2s[x]] ELSE kv_cache[x]

-----------------------------------------------------------------------------
(* The slot allocator's invariant.                                          *)

\* Types; a fill never exceeds a tile (_block_fill against GROUP).
PoolTypeOK ==
    /\ b2s \in [Tile -> Slots \cup {NoSlot}]
    /\ free_slots \subseteq Slots
    /\ sinks \subseteq Tile
    /\ retired \subseteq Tile
    /\ block_fill \in [Tile -> 0 .. GROUP]
    /\ exhausted \in BOOLEAN

\* No two tiles share a pool slot, so no request's store or flush reaches
\* another request's K/V (dict_map against free_slots.pop() and append).
NoSlotShared ==
    \A x, y \in Resident : b2s[x] = b2s[y] => x = y

\* A slot is free exactly when no tile holds it: flushing, discarding and
\* evicting return every slot once, and allocation leaks none.
NoSlotLeaked == free_slots = Slots \ SlotsOf(Resident)

\* A retired sink is a full resident sink: evicting it always has fp16 data to
\* flush, and a prefix-cache hit that re-adopts it finds the whole tile.  Only a
\* build that raised leaves sinks marked that have no slot.
RetiredAreFullSinks ==
    /\ retired \subseteq sinks \cap Resident
    /\ \A x \in retired : block_fill[x] = GROUP
    /\ exhausted \/ sinks \subseteq Resident
=============================================================================
