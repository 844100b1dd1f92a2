--------------------------- MODULE TailPoolProofs ---------------------------
(***************************************************************************)
(* What one metadata build preserves, for every pool size, tile size and   *)
(* batch: the slot allocator's invariant.  The three parts need each       *)
(* other.  That no two tiles share a slot rests on free slots being the    *)
(* ones nobody holds; that evicting a retired sink returns a slot rests on *)
(* retired sinks being resident; and that a retired sink keeps its slot    *)
(* rests on its fill, which neither the flush nor the discard touches.     *)
(* A build that raises half-way keeps all of this but one thing: a sink it *)
(* marked may be left without a slot.                                      *)
(***************************************************************************)
EXTENDS TailPool, TLAPS

PoolInv ==
    /\ PoolTypeOK
    /\ NoSlotShared
    /\ NoSlotLeaked
    /\ RetiredAreFullSinks

RowsOK(rows) == \A row \in rows : row.sl \in Nat /\ row.q \in Nat

\* A tile index below a length rounded up to tiles starts below that length.
LEMMA TileStartsBelow ==
    ASSUME NEW n \in Nat, NEW t \in Nat, NEW g \in Nat \ {0},
           t <= ((n + g - 1) \div g) - 1
    PROVE  t * g < n
<1>1. ((n + g - 1) \div g) \in Nat /\ ((n + g - 1) \div g) * g <= n + g - 1
  OBVIOUS
<1>2. (t + 1) * g <= ((n + g - 1) \div g) * g
  BY <1>1
<1>3. (t + 1) * g = t * g + g
  OBVIOUS
<1> QED BY <1>1, <1>2, <1>3

\* The allocator starts out with every slot free.
LEMMA PoolInitInv == PoolInit => PoolInv
<1> SUFFICES ASSUME PoolInit PROVE PoolInv
  OBVIOUS
<1>1. Resident = {}
  BY DEF PoolInit, Resident
<1>2. PoolTypeOK
  <2>1. exhausted \in BOOLEAN
    BY Zenon DEF PoolInit
  <2>2. 0 \in 0 .. GROUP
    BY PoolAssumption
  <2> QED BY <2>1, <2>2 DEF PoolInit, PoolTypeOK
<1>3. NoSlotShared /\ NoSlotLeaked /\ RetiredAreFullSinks
  BY <1>1 DEF PoolInit, NoSlotShared, NoSlotLeaked, RetiredAreFullSinks, SlotsOf
<1> QED BY <1>2, <1>3 DEF PoolInv

\* The fill a build records for a tile is within the tile, and is the old one
\* for a tile the step does not write.
LEMMA FillWithinTile ==
    ASSUME PoolTypeOK, NEW rows, RowsOK(rows)
    PROVE  /\ FillAfter(rows) \in [Tile -> 0 .. GROUP]
           /\ \A x \in Tile \ Written(rows) : FillAfter(rows)[x] = block_fill[x]
<1>1. ASSUME NEW x \in Tile PROVE FillAfter(rows)[x] \in 0 .. GROUP
  <2>1. CASE x \notin Written(rows)
    BY <1>1, <2>1 DEF FillAfter, PoolTypeOK
  <2>2. CASE x \in Written(rows)
    <3> DEFINE row == CHOOSE row \in rows : \E t \in WrittenIdx(row) : x = RowTile(row, t)
               t == CHOOSE t \in WrittenIdx(row) : x = RowTile(row, t)
    <3>1. row \in rows /\ \E u \in WrittenIdx(row) : x = RowTile(row, u)
      BY <2>2, Zenon DEF Written
    <3>2. t \in WrittenIdx(row)
      BY <3>1, Zenon
    <3>3. FillAfter(rows)[x] = Min2(row.sl, (t + 1) * GROUP) - t * GROUP
      BY <1>1, <2>2 DEF FillAfter
    <3>4. row.sl \in Nat /\ row.q \in Nat /\ GROUP \in Nat \ {0}
      BY <3>1, PoolAssumption, Zenon DEF RowsOK
    <3> HIDE DEF row, t
    <3>5. Committed(row) \in Nat
      BY <3>4 DEF Committed, Max2
    <3>6. Committed(row) \div GROUP \in Nat /\ Cdiv(row.sl, GROUP) \in Int
      BY <3>4, <3>5 DEF Cdiv
    <3>7. t \in Nat /\ t <= ((row.sl + GROUP - 1) \div GROUP) - 1
      BY <3>2, <3>6 DEF WrittenIdx, Cdiv
    <3>8. t * GROUP < row.sl
      BY <3>4, <3>7, TileStartsBelow
    <3>9. (t + 1) * GROUP = t * GROUP + GROUP /\ t * GROUP \in Nat
      BY <3>4, <3>7
    <3> QED BY <3>3, <3>4, <3>8, <3>9 DEF Min2
  <2> QED BY <2>1, <2>2
<1>2. \A x \in Tile \ Written(rows) : FillAfter(rows)[x] = block_fill[x]
  BY DEF FillAfter
<1>3. FillAfter(rows) = [x \in Tile |-> FillAfter(rows)[x]]
  BY DEF FillAfter
<1> QED BY <1>1, <1>2, <1>3

-----------------------------------------------------------------------------
\* The tiles a build takes slots from hold one, and none is a sink the step
\* needs: the flush skips sinks, and eviction takes only what is not needed.
LEMMA ReleasedFacts ==
    ASSUME PoolInv, NEW rows, RowsOK(rows), NEW fast,
           NEW evicted \in SUBSET Retired(rows, fast)
    PROVE  /\ Released(rows, fast) \cup evicted \subseteq Resident
           /\ Flushed(rows, fast) \cap MarkSinks(rows) = {}
           /\ Dropped(rows, fast) \cap Needed(rows) = {}
           /\ evicted \cap Needed(rows) = {}
           /\ Retired(rows, fast) \subseteq MarkSinks(rows) \cap Full(rows) \cap Resident
           /\ Retired(rows, fast) \cap Needed(rows) = {}
<1>1. WalkBack(rows) \subseteq Resident \ MarkSinks(rows)
  <2> SUFFICES ASSUME NEW x \in WalkBack(rows) PROVE x \in Resident \ MarkSinks(rows)
    OBVIOUS
  <2>1. PICK row \in rows : \E t \in 1 .. (Committed(row) \div GROUP) - 1 :
            /\ x = RowTile(row, t)
            /\ \A u \in t .. (Committed(row) \div GROUP) - 1 :
                    RowTile(row, u) \in Resident \ MarkSinks(rows)
    BY DEF WalkBack
  <2>2. PICK t \in 1 .. (Committed(row) \div GROUP) - 1 :
            /\ x = RowTile(row, t)
            /\ \A u \in t .. (Committed(row) \div GROUP) - 1 :
                    RowTile(row, u) \in Resident \ MarkSinks(rows)
    BY <2>1
  <2>3. (Committed(row) \div GROUP) - 1 \in Int
    BY <2>1, PoolAssumption DEF RowsOK, Committed, Max2
  <2>4. t \in t .. (Committed(row) \div GROUP) - 1
    BY <2>2, <2>3
  <2> QED BY <2>2, <2>4
<1>2. Unneeded(rows) \subseteq Resident /\ Unneeded(rows) \cap Needed(rows) = {}
  BY DEF Unneeded
<1>3. Unretire(rows) \subseteq MarkSinks(rows) \cap Full(rows)
  <2> SUFFICES ASSUME NEW x \in retired, x \notin Needed(rows)
               PROVE  x \in MarkSinks(rows) /\ x \in Full(rows)
    BY DEF Unretire
  <2>1. x \in sinks /\ x \in Tile /\ block_fill[x] = GROUP
    BY DEF PoolInv, RetiredAreFullSinks, PoolTypeOK
  <2>2. FillAfter(rows)[x] = GROUP
    BY <2>1, FillWithinTile DEF PoolInv, Needed
  <2>3. GROUP >= GROUP
    BY PoolAssumption
  <2> QED BY <2>1, <2>2, <2>3 DEF MarkSinks, Full
<1>4. Unretire(rows) \cap Needed(rows) = {} /\ Unretire(rows) \subseteq Resident
  BY DEF Unretire, PoolInv, RetiredAreFullSinks
<1>5. Retire(rows) \subseteq Unneeded(rows) \cap MarkSinks(rows) \cap Full(rows)
  BY DEF Retire
<1>6. /\ Retired(rows, fast) \subseteq MarkSinks(rows) \cap Full(rows) \cap Resident
      /\ Retired(rows, fast) \cap Needed(rows) = {}
  BY <1>2, <1>3, <1>4, <1>5 DEF Retired
<1>7. /\ Released(rows, fast) \subseteq Resident
      /\ Flushed(rows, fast) \cap MarkSinks(rows) = {}
      /\ Dropped(rows, fast) \cap Needed(rows) = {}
  BY <1>1, <1>2 DEF Released, Flushed, Dropped, FlushUnneeded, Discard
<1> QED BY <1>6, <1>7

\* Slots given to missing tiles: all different, each free before the build or
\* released by it.
SlotsGiven(rows, fast, evicted, slot) ==
    /\ DOMAIN slot \subseteq Missing(rows, fast)
    /\ \A x \in DOMAIN slot :
          slot[x] \in free_slots \cup SlotsOf(Released(rows, fast)) \cup SlotsOf(evicted)
    /\ \A x, y \in DOMAIN slot : slot[x] = slot[y] => x = y

\* A build that succeeds gives every missing tile a slot.
LEMMA HandOutFacts ==
    ASSUME NEW rows, NEW fast, NEW evicted, NEW slot \in HandOuts(rows, fast, evicted)
    PROVE  SlotsGiven(rows, fast, evicted, slot) /\ DOMAIN slot = Missing(rows, fast)
  BY DEF HandOuts, IsInjective, SlotsGiven

\* One that raises has given slots to some of them.
LEMMA FailedHandOutFacts ==
    ASSUME NEW rows, NEW fast, NEW slot \in FailedHandOuts(rows, fast)
    PROVE  SlotsGiven(rows, fast, Retired(rows, fast), slot)
<1>1. PICK given \in SUBSET Missing(rows, fast) :
        slot \in {f \in [given -> FreeAfterRelease(rows, fast)
                                        \cup SlotsOf(Retired(rows, fast))] : IsInjective(f)}
  BY Zenon DEF FailedHandOuts
<1> QED BY <1>1 DEF FreeAfterRelease, IsInjective, SlotsGiven

\* A build preserves the allocator's invariant, whatever the batch, the sinks it
\* evicts and the slots it hands out.  One that leaves a missing tile without a
\* slot raises.
LEMMA RebuildKeepsPool ==
    ASSUME PoolInv, NEW rows, RowsOK(rows), NEW fast,
           NEW evicted \in SUBSET Retired(rows, fast), NEW slot,
           SlotsGiven(rows, fast, evicted, slot),
           Rebuild(rows, fast, evicted, slot),
           exhausted' \in BOOLEAN, exhausted => exhausted',
           exhausted' \/ DOMAIN slot = Missing(rows, fast)
    PROVE  PoolInv'
<1> DEFINE gone == Released(rows, fast) \cup evicted
           kept == Resident \ gone
           given == DOMAIN slot
<1>1. /\ gone \subseteq Resident
      /\ Flushed(rows, fast) \cap MarkSinks(rows) = {}
      /\ Dropped(rows, fast) \cap Needed(rows) = {}
      /\ evicted \cap Needed(rows) = {}
      /\ Retired(rows, fast) \subseteq MarkSinks(rows) \cap Full(rows) \cap Resident
      /\ Retired(rows, fast) \cap Needed(rows) = {}
  BY ReleasedFacts
<1>2. /\ given \subseteq Missing(rows, fast)
      /\ \A x \in given :
            slot[x] \in free_slots \cup SlotsOf(Released(rows, fast)) \cup SlotsOf(evicted)
      /\ \A x, y \in given : slot[x] = slot[y] => x = y
  BY DEF SlotsGiven
<1>3. Resident \subseteq Tile /\ Needed(rows) \subseteq Tile /\ given \subseteq Needed(rows)
  BY <1>2 DEF Resident, Needed, Written, FirstTiles, Missing
<1>4. SlotsOf(Released(rows, fast)) \cup SlotsOf(evicted) = SlotsOf(gone)
  BY DEF SlotsOf
<1>5. SlotsOf(gone) \subseteq Slots
  BY <1>1 DEF SlotsOf, Resident, PoolInv, PoolTypeOK
<1>6. \A x \in given : slot[x] \in Slots
  BY <1>2, <1>4, <1>5 DEF PoolInv, PoolTypeOK
<1>7. given \cap kept = {}
  BY <1>1, <1>2, <1>3 DEF Missing
<1>8. b2s' = [x \in Tile |-> IF x \in given THEN slot[x]
                             ELSE IF x \in gone THEN NoSlot ELSE b2s[x]]
  BY <1>2 DEF Rebuild
<1>9. Resident' = given \cup kept
  <2>1. \A x \in given : b2s'[x] # NoSlot
    BY <1>3, <1>6, <1>8, PoolAssumption
  <2>2. \A x \in kept : b2s'[x] = b2s[x] /\ b2s[x] # NoSlot
    BY <1>3, <1>7, <1>8 DEF Resident
  <2>3. \A x \in Tile : x \notin given \cup kept => b2s'[x] = NoSlot
    BY <1>8 DEF Resident
  <2>4. Resident' = {x \in Tile : b2s'[x] # NoSlot}
    BY DEF Resident, Tile
  <2> QED BY <1>3, <2>1, <2>2, <2>3, <2>4
<1>10. /\ \A x \in given : b2s'[x] = slot[x]
       /\ \A x \in kept : b2s'[x] = b2s[x]
  BY <1>3, <1>7, <1>8
<1>11. free_slots' = {s \in free_slots \cup SlotsOf(gone) : \A x \in given : s # slot[x]}
  BY <1>2, <1>4, Zenon DEF Rebuild, FreeAfterRelease
<1>12. \A x \in given, y \in kept : slot[x] # b2s[y]
  <2> SUFFICES ASSUME NEW x \in given, NEW y \in kept, slot[x] = b2s[y] PROVE FALSE
    OBVIOUS
  <2>1. b2s[y] \notin free_slots
    BY DEF PoolInv, NoSlotLeaked, SlotsOf
  <2>2. PICK z \in gone : b2s[z] = b2s[y]
    BY <1>2, <1>4, <2>1 DEF SlotsOf
  <2> QED BY <1>1, <2>2 DEF PoolInv, NoSlotShared
<1> HIDE DEF gone, kept, given
<1>13. NoSlotShared'
  <2>1. \A x, y \in kept : b2s[x] = b2s[y] => x = y
    BY DEF PoolInv, NoSlotShared, kept
  <2>2. \A x, y \in given \cup kept : b2s'[x] = b2s'[y] => x = y
    BY <1>2, <1>10, <1>12, <2>1
  <2> QED BY <1>9, <2>2 DEF NoSlotShared
<1>14. NoSlotLeaked'
  <2>1. SlotsOf(Resident)' = {slot[x] : x \in given} \cup {b2s[x] : x \in kept}
    BY <1>9, <1>10 DEF SlotsOf
  <2>2. free_slots = Slots \ {b2s[x] : x \in Resident}
    BY DEF PoolInv, NoSlotLeaked, SlotsOf
  <2>3. \A z \in gone, y \in kept : b2s[z] # b2s[y]
    BY <1>1 DEF PoolInv, NoSlotShared, gone, kept
  <2>4. Resident = gone \cup kept
    BY <1>1 DEF gone, kept
  <2>5. \A s \in Slots : s \in free_slots' <=> s \notin SlotsOf(Resident)'
    BY <1>11, <2>1, <2>2, <2>3, <2>4, Zenon DEF SlotsOf
  <2>6. free_slots' \subseteq Slots
    BY <1>5, <1>11, <2>2
  <2> QED BY <2>5, <2>6 DEF NoSlotLeaked
<1>15. sinks' \subseteq Tile
  BY <1>3 DEF Rebuild, MarkSinks, FirstTiles, PoolInv, PoolTypeOK
<1>16. ASSUME ~ exhausted' PROVE sinks' \subseteq Resident'
  <2> SUFFICES ASSUME NEW x \in MarkSinks(rows), x \notin Dropped(rows, fast), x \notin evicted
               PROVE  x \in given \cup kept
    BY <1>9 DEF Rebuild
  <2>1. x \notin gone
    BY <1>1 DEF gone, Released
  <2>2. CASE x \in Resident
    BY <2>1, <2>2 DEF kept
  <2>3. CASE x \notin Resident
    <3>1. sinks \subseteq Resident
      BY <1>16, Zenon DEF PoolInv, RetiredAreFullSinks
    <3>2. x \in Needed(rows)
      BY <2>3, <3>1 DEF MarkSinks, Needed
    <3>3. given = Missing(rows, fast)
      BY <1>16, Zenon DEF given
    <3> QED BY <2>3, <3>2, <3>3 DEF Missing
  <2> QED BY <2>2, <2>3
<1>17. retired' \subseteq sinks' /\ retired' \subseteq Resident' /\ retired' \subseteq Tile
  <2> SUFFICES ASSUME NEW x \in Retired(rows, fast), x \notin evicted
               PROVE  x \in MarkSinks(rows) /\ x \notin Dropped(rows, fast) /\ x \in kept
    BY <1>3, <1>9 DEF Rebuild, kept
  <2>1. x \in MarkSinks(rows) /\ x \notin Dropped(rows, fast)
    BY <1>1 DEF Dropped, Discard
  <2> QED BY <1>1, <2>1 DEF kept, gone, Released
<1>18. block_fill' \in [Tile -> 0 .. GROUP]
  <2>1. FillAfter(rows) \in [Tile -> 0 .. GROUP] /\ 0 \in 0 .. GROUP
    BY FillWithinTile, PoolAssumption DEF PoolInv
  <2> QED BY <2>1 DEF Rebuild
<1>19. \A x \in retired' : block_fill'[x] = GROUP
  <2> SUFFICES ASSUME NEW x \in Retired(rows, fast), x \notin evicted
               PROVE  block_fill'[x] = GROUP
    BY DEF Rebuild
  <2>1. x \in Full(rows) /\ x \in Tile
    BY <1>1 DEF Full
  <2>2. FillAfter(rows)[x] = GROUP
    BY <2>1, FillWithinTile, PoolAssumption DEF PoolInv, Full
  <2>3. x \notin Released(rows, fast)
    BY <1>1 DEF Released, Dropped, Discard
  <2> QED BY <2>1, <2>2, <2>3 DEF Rebuild
<1>20. PoolTypeOK'
  <2>1. b2s' \in [Tile -> Slots \cup {NoSlot}]
    BY <1>6, <1>8 DEF PoolInv, PoolTypeOK
  <2>2. free_slots' \subseteq Slots
    BY <1>5, <1>11 DEF PoolInv, PoolTypeOK
  <2> QED BY <1>15, <1>17, <1>18, <2>1, <2>2 DEF PoolTypeOK, Tile
<1>21. RetiredAreFullSinks'
  <2>1. retired' \subseteq sinks' \cap Resident'
    BY <1>17
  <2> QED BY <1>16, <1>19, <2>1, Zenon DEF RetiredAreFullSinks
<1> QED BY <1>13, <1>14, <1>20, <1>21, Zenon DEF PoolInv

\* KVarNMetadataBuilder.build preserves the allocator's invariant.
LEMMA BuildKeepsPool ==
    ASSUME PoolInv, NEW rows, RowsOK(rows), NEW fast, Build(rows, fast)
    PROVE  PoolInv'
<1>1. PICK evicted \in SUBSET Retired(rows, fast) :
          \E slot \in HandOuts(rows, fast, evicted) : Rebuild(rows, fast, evicted, slot)
  BY DEF Build
<1>2. PICK slot \in HandOuts(rows, fast, evicted) : Rebuild(rows, fast, evicted, slot)
  BY <1>1
<1>3. exhausted' \in BOOLEAN /\ (exhausted => exhausted')
  BY Zenon DEF Build, PoolInv, PoolTypeOK
<1>4. SlotsGiven(rows, fast, evicted, slot) /\ DOMAIN slot = Missing(rows, fast)
  BY <1>2, HandOutFacts
<1> QED BY <1>2, <1>3, <1>4, RebuildKeepsPool

\* So does a build that raises, with its flushes and evictions done and only
\* some of the missing tiles given a slot.
LEMMA FailedBuildKeepsPool ==
    ASSUME PoolInv, NEW rows, RowsOK(rows), NEW fast, BuildFails(rows, fast)
    PROVE  PoolInv'
<1>1. PICK slot \in FailedHandOuts(rows, fast) :
          Rebuild(rows, fast, Retired(rows, fast), slot)
  BY Zenon DEF BuildFails
<1>2. exhausted' = TRUE
  BY Zenon DEF BuildFails
<1>3. SlotsGiven(rows, fast, Retired(rows, fast), slot)
  BY <1>1, FailedHandOutFacts
<1>4. Retired(rows, fast) \in SUBSET Retired(rows, fast)
  OBVIOUS
<1> QED BY <1>1, <1>2, <1>3, <1>4, RebuildKeepsPool, Zenon

\* The invariant speaks of the allocator's variables only.
LEMMA PoolStutter ==
    ASSUME PoolInv, UNCHANGED <<allocVars, exhausted>>
    PROVE  PoolInv'
  BY DEF PoolInv, PoolTypeOK, NoSlotShared, NoSlotLeaked, RetiredAreFullSinks,
         Resident, SlotsOf, Tile, allocVars
=============================================================================
