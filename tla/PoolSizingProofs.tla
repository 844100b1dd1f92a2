-------------------------- MODULE PoolSizingProofs --------------------------
(***************************************************************************)
(* PoolSizing for every tile size, token budget, memory budget and number  *)
(* of draft tokens.  A batch's demand is split into two slots a row, the   *)
(* tiles its tokens fill (full, which tokens bounds) and the crossings;    *)
(* that split is the inductive invariant, and division by GROUP enters     *)
(* only through the three lemmas.                                          *)
(***************************************************************************)
EXTENDS PoolSizing, TLAPS

\* Rounding down to a multiple of g stays at or below the number.
LEMMA DivTimes ==
    ASSUME NEW a \in Nat, NEW g \in Nat \ {0}
    PROVE  a \div g \in Nat /\ (a \div g) * g <= a
  OBVIOUS

\* Division by g is monotone.
LEMMA DivMono ==
    ASSUME NEW a \in Nat, NEW b \in Nat, a <= b, NEW g \in Nat \ {0}
    PROVE  a \div g <= b \div g
  OBVIOUS

\* n tiles of g tokens hold no more than t tokens only if n is at most t / g
\* rounded up.
LEMMA TilesWithin ==
    ASSUME NEW n \in Nat, NEW t \in Nat, NEW g \in Nat \ {0}, n * g <= t
    PROVE  n <= (t + g - 1) \div g
  OBVIOUS

\* The rows' slots, the tiles their tokens fill and the crossings cover the
\* demand.
DemandSplit ==
    \E full \in 0 .. tokens :
        /\ demand <= 2 * rows + full + crossings
        /\ full * GROUP <= tokens

SizingInv ==
    /\ TypeOK
    /\ max_num_seqs <= max_supported_seqs(max_slots)
    /\ DemandSplit

\* Adding a row keeps the split: q \div GROUP of its tiles are full ones.
LEMMA AddRowSplit ==
    ASSUME SizingInv,
           NEW c \in Positions, NEW q \in 1 .. MaxTokens,
           NEW ahead \in 0 .. Max2(NumSpec - 1, 0), NEW sink \in {0, 1},
           AddRow(c, q, ahead, sink)
    PROVE  SizingInv'
<1>1. /\ GROUP \in Nat \ {0} /\ MaxTokens \in Nat /\ c \in Nat /\ q \in Nat /\ q >= 1
      /\ ahead \in Nat /\ sink \in Nat /\ sink <= 1
  BY SizingAssumption DEF Max2
<1>2. /\ q \div GROUP \in Nat /\ (q \div GROUP) * GROUP <= q
  BY <1>1, DivTimes
<1>3. c \div GROUP <= (c + (q + ahead) + GROUP - 1) \div GROUP
  BY <1>1, DivMono
<1>4. Tiles(c, q + ahead) \in Nat
  BY <1>1, <1>3, DivTimes DEF Tiles
<1>5. /\ Crossing(c, q, ahead) \in Nat
      /\ Tiles(c, q + ahead) <= 1 + q \div GROUP + Crossing(c, q, ahead)
  BY <1>2, <1>4 DEF Crossing, Max2
<1>6. TypeOK'
  BY <1>1, <1>4, <1>5 DEF SizingInv, TypeOK, AddRow
<1>7. DemandSplit'
  <2>1. PICK full \in 0 .. tokens :
            demand <= 2 * rows + full + crossings /\ full * GROUP <= tokens
    BY DEF SizingInv, DemandSplit
  <2> DEFINE more == full + q \div GROUP
  <2>2. full \in Nat /\ tokens \in Nat
    BY <2>1 DEF SizingInv, TypeOK
  <2>3. more * GROUP = full * GROUP + (q \div GROUP) * GROUP
    BY <1>1, <1>2, <2>2
  <2>4. more * GROUP <= tokens'
    BY <1>1, <1>2, <2>1, <2>2, <2>3 DEF AddRow
  <2>5. more \in 0 .. tokens'
    <3>1. more \in Nat /\ tokens' \in Nat
      BY <1>1, <1>2, <2>2 DEF AddRow
    <3>2. more <= more * GROUP
      BY <3>1, <1>1
    <3> QED BY <2>4, <3>1, <3>2, <1>1
  <2>6. demand' <= 2 * rows' + more + crossings'
    BY <1>1, <1>2, <1>4, <1>5, <2>1, <2>2 DEF AddRow, SizingInv, TypeOK
  <2> QED BY <2>4, <2>5, <2>6 DEF DemandSplit
<1> QED BY <1>6, <1>7 DEF SizingInv, AddRow, max_supported_seqs, PrefillBlocks, Max2

\* The invariant holds in every reachable state.
THEOREM SizingInvariant == Spec => []SizingInv
<1>1. Init => SizingInv
  <2> SUFFICES ASSUME Init PROVE SizingInv
    OBVIOUS
  <2>1. max_slots \in Nat /\ PrefillBlocks \in Nat
    BY SizingAssumption, DivTimes DEF Init, PrefillBlocks
  <2>2. max_supported_seqs(max_slots) \in Nat \ {0}
    BY <2>1 DEF max_supported_seqs, Max2
  <2>3. PICK n \in Requested : max_num_seqs = Min2(n, max_supported_seqs(max_slots))
    BY DEF Init
  <2>4. n \in Nat \ {0}
    BY SizingAssumption
  <2>5. max_num_seqs \in Nat \ {0} /\ max_num_seqs <= max_supported_seqs(max_slots)
    BY <2>2, <2>3, <2>4 DEF Min2
  <2>6. DemandSplit
    BY SizingAssumption DEF Init, DemandSplit
  <2> QED BY <2>1, <2>5, <2>6, SizingAssumption DEF Init, SizingInv, TypeOK
<1>2. SizingInv /\ [Next]_vars => SizingInv'
  <2> SUFFICES ASSUME SizingInv, [Next]_vars PROVE SizingInv'
    OBVIOUS
  <2>1. ASSUME NEW c \in Positions, NEW q \in 1 .. MaxTokens,
               NEW ahead \in 0 .. Max2(NumSpec - 1, 0), NEW sink \in {0, 1},
               AddRow(c, q, ahead, sink)
        PROVE  SizingInv'
    BY <2>1, AddRowSplit
  <2>2. CASE NextBatch
    <3>1. DemandSplit'
      BY <2>2, SizingAssumption DEF NextBatch, DemandSplit
    <3>2. TypeOK'
      BY <2>2, SizingAssumption DEF NextBatch, SizingInv, TypeOK
    <3>3. (max_num_seqs <= max_supported_seqs(max_slots))'
      BY <2>2 DEF NextBatch, SizingInv, max_supported_seqs, PrefillBlocks, Max2
    <3> QED BY <3>1, <3>2, <3>3 DEF SizingInv
  <2>3. CASE UNCHANGED vars
    BY <2>3 DEF vars, SizingInv, TypeOK, DemandSplit, max_supported_seqs, PrefillBlocks,
                Max2
  <2> QED BY <2>1, <2>2, <2>3 DEF Next
<1> QED BY <1>1, <1>2, PTL DEF Spec

\* For every configuration, a batch whose rows cross at most eight tile
\* boundaries beyond the tiles they fill finds a slot for every tile the builder
\* needs (pool_slots against blocks_needed).
THEOREM HeadroomIsEnough == Spec => []HeadroomCovers
<1>1. SizingInv => HeadroomCovers
  <2> SUFFICES ASSUME SizingInv, crossings <= 8
               PROVE  demand <= pool_slots(max_num_seqs)
    BY DEF HeadroomCovers
  <2>1. PICK full \in 0 .. tokens :
            demand <= 2 * rows + full + crossings /\ full * GROUP <= tokens
    BY DEF SizingInv, DemandSplit
  <2>2. full \in Nat /\ full * GROUP <= MaxTokens
    BY <2>1, SizingAssumption DEF SizingInv, TypeOK
  <2>3. full <= PrefillBlocks
    BY <2>2, TilesWithin, SizingAssumption DEF PrefillBlocks
  <2>4. PrefillBlocks \in Nat
    BY SizingAssumption, DivTimes DEF PrefillBlocks
  <2> QED BY <2>1, <2>2, <2>3, <2>4 DEF SizingInv, TypeOK, pool_slots, Max2
<1> QED BY <1>1, SizingInvariant, PTL

\* For every budget that pays for the pool of one request, the pool of the
\* capped concurrency stays within the budget (max_supported_seqs against
\* pool_slots).
THEOREM CapFitsBudget == Spec => []PoolWithinBudget
<1>1. SizingInv => PoolWithinBudget
  <2>1. PrefillBlocks \in Nat
    BY SizingAssumption, DivTimes DEF PrefillBlocks
  <2> QED BY <2>1 DEF SizingInv, TypeOK, PoolWithinBudget, pool_slots,
                      max_supported_seqs, Max2
<1> QED BY <1>1, SizingInvariant, PTL
=============================================================================
