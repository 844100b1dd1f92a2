------------------------- MODULE KVarNEngineProofs --------------------------
(***************************************************************************)
(* The worker's steps and update_from_output keep EngineInv, and with the  *)
(* scheduler's steps that gives the theorems about the engine.             *)
(***************************************************************************)
EXTENDS SchedulerProofs

-----------------------------------------------------------------------------
(* The worker.                                                              *)

\* What a step keeps of a request is a natural number of tokens.
LEMMA KeptNat ==
    ASSUME EngineInv, NEW r \in Reqs
    PROVE  /\ num_computed[r] \in Nat /\ scheduled[r] \in Nat /\ num_tokens[r] \in Nat
           /\ accepted[r] \in Nat
           /\ Drafts(r) \in Nat
           /\ Drafts(r) <= num_computed[r] + scheduled[r]
           /\ Kept(r) \in Nat
<1>1. /\ num_computed[r] \in Nat /\ scheduled[r] \in Nat /\ num_tokens[r] \in Nat
      /\ accepted[r] \in Nat
  BY EngineAssumption DEF EngineInv, TypeOK
<1>2. Drafts(r) \in Nat /\ Drafts(r) <= num_computed[r] + scheduled[r]
  BY <1>1 DEF Drafts, Max2
<1>3. Kept(r) \in Nat
  BY <1>1, <1>2 DEF Kept
<1> QED BY <1>1, <1>2, <1>3

\* The rows of a batch have natural lengths.
LEMMA BatchRows ==
    ASSUME EngineInv, NEW ok
    PROVE  RowsOK(Batch(ok))
<1> SUFFICES ASSUME NEW r \in Reqs PROVE Row(r, ok).sl \in Nat /\ Row(r, ok).q \in Nat
  BY DEF RowsOK, Batch, Scheduled
<1>1. num_computed[r] \in Nat /\ scheduled[r] \in Nat
  BY KeptNat
<1>2. Row(r, ok).sl = num_computed[r] + scheduled[r] /\ Row(r, ok).q = scheduled[r]
  BY DEF Row
<1> QED BY <1>1, <1>2

\* So do the rows of a drafter's pass.
LEMMA DraftRows ==
    ASSUME EngineInv, NEW pass \in Nat
    PROVE  RowsOK(DraftBatch(pass))
<1> SUFFICES ASSUME NEW r \in Reqs
             PROVE  DraftRow(r, pass).sl \in Nat /\ DraftRow(r, pass).q \in Nat
  BY DEF RowsOK, DraftBatch, Scheduled
<1>1. num_computed[r] \in Nat /\ scheduled[r] \in Nat /\ Kept(r) \in Nat
  BY KeptNat
<1>2. Row(r, accepted).sl = num_computed[r] + scheduled[r] /\ Row(r, accepted).q = scheduled[r]
  BY DEF Row
<1>3. Row(r, accepted).sl \in Nat /\ Row(r, accepted).q \in Nat /\ Kept(r) + pass \in Nat
  BY <1>1, <1>2
<1> QED BY <1>3 DEF DraftRow

\* execute_model keeps the pool's invariant and accepts only scheduled drafts.
LEMMA ExecuteInv == ASSUME EngineInv, Execute PROVE EngineInv'
<1>1. PICK ok \in [Reqs -> 0 .. NumSpec] :
          /\ \A r \in Reqs : ok[r] <= IF r \in Scheduled THEN Drafts(r) ELSE 0
          /\ accepted' = ok
          /\ Build(Batch(ok), FALSE)
  BY Zenon DEF Execute
<1>2. PoolInv'
  <2> DEFINE rows == Batch(ok)
  <2>1. RowsOK(rows)
    BY BatchRows
  <2>2. Build(rows, FALSE)
    BY <1>1, Zenon
  <2> HIDE DEF rows
  <2> QED BY <2>1, <2>2, BuildKeepsPool, Zenon DEF EngineInv
<1>3. phase' \in {"draft", "update"}
  BY DEF Execute
<1>4. TypeOK'
  BY <1>1, <1>2, <1>3
     DEF Execute, EngineInv, TypeOK, PoolInv, reqVars, queueVars, blockVars, scheduleVars
<1>5. RollbackExact'
  <2>1. \A r \in Reqs : (r \in Scheduled)' <=> r \in Scheduled
    BY DEF Execute, Scheduled
  <2>2. \A r \in Reqs : Drafts(r)' = Drafts(r)
    BY DEF Execute, Drafts, reqVars
  <2> QED BY <1>1, <1>3, <2>1, <2>2 DEF Execute, EngineInv, RollbackExact, reqVars
<1> QED BY <1>2, <1>4, <1>5 DEF EngineInv

\* A drafter's pass allocates slots and keeps the pool's invariant.
LEMMA DraftInv == ASSUME EngineInv, Draft PROVE EngineInv'
<1>1. draft_pass \in Nat /\ draft_pass' \in Nat
  BY DEF Draft, EngineInv, TypeOK
<1>2. PoolInv'
  <2> DEFINE rows == DraftBatch(draft_pass)
  <2>1. RowsOK(rows)
    BY <1>1, DraftRows
  <2>2. Build(rows, TRUE)
    BY Zenon DEF Draft
  <2> HIDE DEF rows
  <2> QED BY <2>1, <2>2, BuildKeepsPool DEF EngineInv
<1>3. phase' \in {"draft", "update"}
  BY DEF Draft
<1>4. TypeOK'
  BY <1>1, <1>2, <1>3
     DEF Draft, EngineInv, TypeOK, PoolInv, reqVars, queueVars, blockVars, scheduleVars
<1>5. RollbackExact'
  BY <1>3 DEF Draft, EngineInv, RollbackExact, reqVars, Scheduled, Drafts
<1> QED BY <1>2, <1>4, <1>5 DEF EngineInv

\* A build that raises leaves the allocator's invariant as it stops the engine.
LEMMA PoolExhaustedInv == ASSUME EngineInv, PoolExhausted PROVE EngineInv'
<1>1. PoolInv'
  <2> DEFINE engineRows == Batch(accepted)
             draftRows == DraftBatch(draft_pass)
  <2>1. RowsOK(engineRows) /\ RowsOK(draftRows)
    BY BatchRows, DraftRows DEF EngineInv, TypeOK
  <2>2. BuildFails(engineRows, FALSE) \/ BuildFails(draftRows, TRUE)
    BY Zenon DEF PoolExhausted
  <2> HIDE DEF engineRows, draftRows
  <2> QED BY <2>1, <2>2, FailedBuildKeepsPool, Zenon DEF EngineInv
<1>2. TypeOK'
  BY <1>1
     DEF PoolExhausted, EngineInv, TypeOK, PoolInv, reqVars, queueVars, blockVars, scheduleVars
<1>3. RollbackExact'
  <2> SUFFICES ASSUME NEW r \in Reqs
               PROVE  /\ num_computed[r] < Max2(num_tokens[r], 1)
                      /\ accepted[r] <= IF r \in Scheduled THEN Drafts(r) ELSE 0
    BY DEF PoolExhausted, RollbackExact, reqVars, Scheduled, Drafts
  <2>1. Drafts(r) \in Nat /\ accepted[r] \in Nat
    BY KeptNat
  <2>2. num_computed[r] < Max2(num_tokens[r], 1)
    BY DEF EngineInv, RollbackExact
  <2>3. accepted[r] <= IF phase \in {"draft", "update", "dead"} /\ r \in Scheduled
                       THEN Drafts(r) ELSE 0
    BY DEF EngineInv, RollbackExact
  <2>4. accepted[r] <= IF r \in Scheduled THEN Drafts(r) ELSE 0
    BY <2>1, <2>3
  <2> QED BY <2>2, <2>4
<1> QED BY <1>1, <1>2, <1>3 DEF EngineInv

\* When a step samples, what it keeps is the tokens so far and the accepted drafts.
LEMMA SampledKept ==
    ASSUME NEW r, Samples(r), num_computed[r] \in Nat, scheduled[r] \in Nat,
           num_tokens[r] \in Nat, accepted[r] \in Nat
    PROVE  Kept(r) = num_tokens[r] + accepted[r]
<1>1. Drafts(r) = num_computed[r] + scheduled[r] - num_tokens[r]
  BY DEF Samples, Drafts, Max2
<1> QED BY <1>1 DEF Kept

\* A chunk that ends before the last token has no drafts.
LEMMA UnsampledKept ==
    ASSUME NEW r, ~ Samples(r), num_computed[r] \in Nat, scheduled[r] \in Nat,
           num_tokens[r] \in Nat, accepted[r] \in Nat
    PROVE  Drafts(r) = 0 /\ Kept(r) = num_computed[r] + scheduled[r] + accepted[r]
<1>1. Drafts(r) = 0
  BY DEF Samples, Drafts, Max2
<1> QED BY <1>1 DEF Kept

\* One token more than computed, capped at the model length and not stopped by it.
LEMMA CappedAbove ==
    ASSUME NEW c \in Nat, NEW a \in Nat, NEW m \in Nat \ {0}, NEW t, NEW k,
           t = Min2(c + a + 1, m), k = c + a, NEW stop \in BOOLEAN, ~ stop => t # m
    PROVE  t \in 0 .. m /\ (~ stop => k \in 0 .. m - 1 /\ k < Max2(t, 1))
<1>1. t \in 0 .. m /\ t <= c + a + 1 /\ (t # m => t = c + a + 1 /\ t < m)
  BY DEF Min2
<1>2. ASSUME ~ stop PROVE k \in 0 .. m - 1 /\ k < t /\ Max2(t, 1) = t
  BY <1>1, <1>2 DEF Max2
<1> QED BY <1>1, <1>2

\* Fewer tokens computed than there are.
LEMMA BelowTokens ==
    ASSUME NEW m \in Nat \ {0}, NEW t \in 0 .. m, NEW k \in Nat, k < t
    PROVE  k \in 0 .. m - 1 /\ k < Max2(t, 1)
  BY DEF Max2

\* update_from_output takes rejected drafts off again: what a request has computed
\* stays below the tokens it has, and below max_model_len while it lives.
LEMMA UpdateInv == ASSUME EngineInv, Update PROVE EngineInv'
<1> DEFINE sampled == {r \in Scheduled : Samples(r)}
           tokens == [r \in Reqs |->
                        IF r \in sampled
                        THEN Min2(num_tokens[r] + accepted[r] + 1, MaxModelLen)
                        ELSE num_tokens[r]]
<1>1. PoolInv'
  BY PoolStutter DEF EngineInv, Update, poolVars, allocVars
<1>2. PICK stopped \in SUBSET sampled :
        /\ \A r \in sampled : tokens[r] = MaxModelLen => r \in stopped
        /\ num_prompt' = [r \in Reqs |-> IF r \in stopped THEN 0 ELSE num_prompt[r]]
        /\ num_tokens' = [r \in Reqs |-> IF r \in stopped THEN 0 ELSE tokens[r]]
        /\ num_computed' = [r \in Reqs |-> IF r \in stopped THEN 0 ELSE RolledBack(r)]
        /\ num_drafts' = [r \in Reqs |-> IF r \in stopped THEN 0
                               ELSE IF r \in sampled THEN NumSpec ELSE num_drafts[r]]
        /\ prefill_chunk' = [r \in Reqs |-> IF r \in stopped THEN FALSE
                               ELSE IF r \in Scheduled THEN ~ Samples(r)
                               ELSE prefill_chunk[r]]
        /\ req_blocks' = [r \in Reqs |-> IF r \in stopped THEN <<>> ELSE req_blocks[r]]
        /\ num_cached' = [r \in Reqs |-> IF r \in stopped THEN 0 ELSE num_cached[r]]
        /\ shared_prefix_boundary' = [r \in Reqs |-> IF r \in stopped THEN 0
                                                     ELSE shared_prefix_boundary[r]]
        /\ done' = done \cup stopped
  BY Zenon DEF Update
<1>3. MaxModelLen \in Nat \ {0} /\ NumSpec \in Nat /\ MaxTokens \in Nat
  BY EngineAssumption
<1>4. \A r \in Reqs : /\ tokens[r] \in 0 .. MaxModelLen
                      /\ r \notin stopped => /\ RolledBack(r) \in 0 .. MaxModelLen - 1
                                             /\ RolledBack(r) < Max2(tokens[r], 1)
  <2> SUFFICES ASSUME NEW r \in Reqs
               PROVE  /\ tokens[r] \in 0 .. MaxModelLen
                      /\ r \notin stopped => /\ RolledBack(r) \in 0 .. MaxModelLen - 1
                                             /\ RolledBack(r) < Max2(tokens[r], 1)
    OBVIOUS
  <2>1. /\ num_computed[r] \in Nat /\ scheduled[r] \in Nat /\ num_tokens[r] \in Nat
        /\ accepted[r] \in Nat /\ Kept(r) \in Nat
    BY KeptNat
  <2>2. /\ num_computed[r] \in 0 .. MaxModelLen - 1 /\ num_tokens[r] \in 0 .. MaxModelLen
        /\ num_computed[r] < Max2(num_tokens[r], 1)
        /\ accepted[r] <= IF r \in Scheduled THEN Drafts(r) ELSE 0
    BY DEF Update, EngineInv, TypeOK, RollbackExact
  <2>3. CASE r \in sampled
    <3>1. /\ tokens[r] = Min2(num_tokens[r] + accepted[r] + 1, MaxModelLen)
          /\ r \in Scheduled /\ Samples(r)
      BY <2>3
    <3>2. r \notin stopped => tokens[r] # MaxModelLen
      BY <1>2, <2>3, Zenon
    <3> HIDE DEF tokens, sampled
    <3>3. RolledBack(r) = num_tokens[r] + accepted[r]
      BY <2>1, <3>1, SampledKept DEF RolledBack
    <3> QED BY <1>3, <2>1, <3>1, <3>2, <3>3, CappedAbove, Zenon
  <2>4. CASE r \in Scheduled /\ r \notin sampled
    <3>1. tokens[r] = num_tokens[r] /\ ~ Samples(r)
      BY <2>4
    <3> HIDE DEF tokens, sampled
    <3>2. Drafts(r) = 0 /\ Kept(r) = num_computed[r] + scheduled[r] + accepted[r]
      BY <2>1, <3>1, UnsampledKept
    <3>3. accepted[r] = 0
      BY <2>1, <2>2, <2>4, <3>2
    <3>4. RolledBack(r) = num_computed[r] + scheduled[r]
      <4>1. RolledBack(r) = Kept(r)
        BY <2>4 DEF RolledBack
      <4> QED BY <2>1, <3>2, <3>3, <4>1
    <3>5. RolledBack(r) < num_tokens[r]
      BY <2>1, <3>1, <3>4 DEF Samples
    <3>6. RolledBack(r) \in Nat
      BY <2>1, <3>4
    <3> QED BY <1>3, <2>2, <3>1, <3>5, <3>6, BelowTokens
  <2>5. CASE r \notin Scheduled
    <3>1. tokens[r] = num_tokens[r] /\ RolledBack(r) = num_computed[r]
      BY <2>5 DEF RolledBack
    <3> HIDE DEF tokens, sampled
    <3> QED BY <2>2, <3>1
  <2> QED BY <2>3, <2>4, <2>5
<1> HIDE DEF tokens
<1>5. /\ num_tokens' \in [Reqs -> 0 .. MaxModelLen]
      /\ num_computed' \in [Reqs -> 0 .. MaxModelLen - 1]
  <2>1. /\ num_tokens' = [r \in Reqs |-> IF r \in stopped THEN 0 ELSE tokens[r]]
        /\ num_computed' = [r \in Reqs |-> IF r \in stopped THEN 0 ELSE RolledBack(r)]
    BY <1>2
  <2>2. 0 \in 0 .. MaxModelLen /\ 0 \in 0 .. MaxModelLen - 1
    BY <1>3
  <2> QED BY <1>4, <2>1, <2>2
<1>6. /\ num_prompt' \in [Reqs -> 0 .. MaxModelLen]
      /\ num_drafts' \in [Reqs -> 0 .. NumSpec]
      /\ num_cached' \in [Reqs -> Nat]
      /\ shared_prefix_boundary' \in [Reqs -> Nat]
  <2>1. /\ num_prompt' = [r \in Reqs |-> IF r \in stopped THEN 0 ELSE num_prompt[r]]
        /\ num_prompt \in [Reqs -> 0 .. MaxModelLen] /\ 0 \in 0 .. MaxModelLen
    BY <1>2, <1>3 DEF EngineInv, TypeOK
  <2>2. /\ num_drafts' = [r \in Reqs |-> IF r \in stopped THEN 0
                               ELSE IF r \in sampled THEN NumSpec ELSE num_drafts[r]]
        /\ num_drafts \in [Reqs -> 0 .. NumSpec]
        /\ 0 \in 0 .. NumSpec /\ NumSpec \in 0 .. NumSpec
    BY <1>2, <1>3 DEF EngineInv, TypeOK
  <2>3. /\ num_cached' = [r \in Reqs |-> IF r \in stopped THEN 0 ELSE num_cached[r]]
        /\ num_cached \in [Reqs -> Nat]
    BY <1>2 DEF EngineInv, TypeOK
  <2>4. /\ shared_prefix_boundary' = [r \in Reqs |-> IF r \in stopped THEN 0
                                                      ELSE shared_prefix_boundary[r]]
        /\ shared_prefix_boundary \in [Reqs -> Nat]
    BY <1>2 DEF EngineInv, TypeOK
  <2>5. num_prompt' \in [Reqs -> 0 .. MaxModelLen]
    BY <2>1
  <2>6. num_drafts' \in [Reqs -> 0 .. NumSpec]
    BY <2>2
  <2>7. num_cached' \in [Reqs -> Nat]
    BY <2>3
  <2>8. shared_prefix_boundary' \in [Reqs -> Nat]
    BY <2>4
  <2> QED BY <2>5, <2>6, <2>7, <2>8
<1>7. req_blocks' \in [Reqs -> Seq(Blocks)]
  <2>1. /\ req_blocks' = [r \in Reqs |-> IF r \in stopped THEN <<>> ELSE req_blocks[r]]
        /\ req_blocks \in [Reqs -> Seq(Blocks)] /\ <<>> \in Seq(Blocks)
    BY <1>2 DEF EngineInv, TypeOK
  <2> QED BY <2>1
<1>8. prefill_chunk' \in [Reqs -> BOOLEAN]
  BY <1>2, Zenon DEF EngineInv, TypeOK, Samples
<1>9. done' \subseteq Reqs
  BY <1>2 DEF EngineInv, TypeOK, Scheduled
<1>10. /\ scheduled' \in [Reqs -> 0 .. MaxTokens] /\ accepted' \in [Reqs -> 0 .. NumSpec]
       /\ phase' = "idle"
  <2>1. /\ scheduled' = [r \in Reqs |-> 0] /\ accepted' = [r \in Reqs |-> 0]
        /\ phase' = "idle"
    BY DEF Update
  <2>2. 0 \in 0 .. MaxTokens /\ 0 \in 0 .. NumSpec
    BY <1>3
  <2> QED BY <2>1, <2>2
<1>11. UNCHANGED <<block_hash, cached_this_step, scheduleVars, capacity_bound, draft_pass>>
  BY DEF Update
<1>12. TypeOK'
  BY <1>1, <1>5, <1>6, <1>7, <1>8, <1>9, <1>10, <1>11
     DEF EngineInv, TypeOK, PoolInv, scheduleVars
<1>13. RollbackExact'
  <2> SUFFICES ASSUME NEW r \in Reqs
               PROVE  num_computed'[r] < Max2(num_tokens'[r], 1) /\ accepted'[r] <= 0
    BY <1>10, SMTT(20) DEF RollbackExact
  <2>1. accepted'[r] = 0
    BY DEF Update
  <2>2. CASE r \in stopped
    <3>1. num_computed'[r] = 0 /\ num_tokens'[r] = 0
      BY <1>2, <2>2
    <3> QED BY <2>1, <3>1 DEF Max2
  <2>3. CASE r \notin stopped
    <3>1. num_computed'[r] = RolledBack(r) /\ num_tokens'[r] = tokens[r]
      BY <1>2, <2>3
    <3>2. RolledBack(r) < Max2(tokens[r], 1)
      BY <1>4, <2>3
    <3> QED BY <2>1, <3>1, <3>2
  <2> QED BY <2>2, <2>3
<1> QED BY <1>1, <1>12, <1>13 DEF EngineInv

-----------------------------------------------------------------------------
(* The theorems.                                                            *)

\* The invariant speaks of the engine's variables only.
LEMMA StutterInv == ASSUME EngineInv, UNCHANGED vars PROVE EngineInv'
<1>1. PoolInv'
  BY PoolStutter DEF EngineInv, vars, poolVars, allocVars
<1>2. TypeOK'
  BY <1>1 DEF vars, EngineInv, TypeOK, PoolInv, queueVars, reqVars, blockVars, stepVars, scheduleVars
<1>3. RollbackExact'
  BY DEF vars, EngineInv, RollbackExact, reqVars, stepVars, Scheduled, Drafts
<1> QED BY <1>1, <1>2, <1>3 DEF EngineInv

\* The engine keeps its inductive invariant.
THEOREM EngineInvariant == Spec => []EngineInv
<1>1. EngineInv /\ [Next]_vars => EngineInv'
  <2> SUFFICES ASSUME EngineInv, [Next]_vars PROVE EngineInv'
    OBVIOUS
  <2>1. ASSUME NEW r \in Reqs, AddRequest(r) \/ AbortRequest(r) PROVE EngineInv'
    BY <2>1, AddRequestInv, AbortRequestInv
  <2>2. CASE StartStep \/ EndRunning \/ EndWaiting
    BY <2>2, StartStepInv, EndRunningInv, EndWaitingInv
  <2>3. ASSUME NEW r \in Reqs,
               SkipRunning(r) \/ ScheduleRunning(r) \/ PreemptLast(r) \/ AdmitWaiting(r)
        PROVE  EngineInv'
    BY <2>3, SkipRunningInv, ScheduleRunningInv, PreemptLastInv, AdmitWaitingInv
  <2>4. CASE EmptyStep \/ Execute \/ Draft \/ PoolExhausted \/ Update
    BY <2>4, EmptyStepInv, ExecuteInv, DraftInv, PoolExhaustedInv, UpdateInv
  <2>5. CASE Quiescent \/ UNCHANGED vars
    BY <2>5, StutterInv DEF Quiescent
  <2> QED BY <2>1, <2>2, <2>3, <2>4, <2>5 DEF Next, EngineStep
<1> QED BY <1>1, InitInv, PTL DEF Spec

\* Every variable of the engine keeps its type, and the token counts their
\* bounds: no request computes past max_model_len, no step past the token budget.
THEOREM TypeCorrect == Spec => []TypeOK
  BY EngineInvariant, PTL DEF EngineInv

\* No request counts as computed a token it does not have, whatever the sampler
\* rejects (update_from_output).
THEOREM RollbackIsExact == Spec => []RollbackExact
  BY EngineInvariant, PTL DEF EngineInv

\* No two tiles ever share a pool slot, for every schedule, prefix sharing,
\* preemption, abort and draft (KVarNMetadataBuilder.build).
THEOREM SlotsExclusive == Spec => []NoSlotShared
  BY EngineInvariant, PTL DEF EngineInv, PoolInv

\* No pool slot is lost: one is free exactly when no tile holds it, also after a
\* build that raised half-way (KVarNMetadataBuilder.build).
THEOREM SlotsConserved == Spec => []NoSlotLeaked
  BY EngineInvariant, PTL DEF EngineInv, PoolInv

\* A retired sink always holds a whole tile in fp16, so evicting it or
\* re-adopting it finds the data, and every sink has its slot until a build raises.
THEOREM RetiredSinksWhole == Spec => []RetiredAreFullSinks
  BY EngineInvariant, PTL DEF EngineInv, PoolInv
=============================================================================
