-------------------------- MODULE SchedulerProofs ---------------------------
(***************************************************************************)
(* Arrivals, aborts and every step of schedule keep EngineInv.             *)
(***************************************************************************)
EXTENDS SchedulerLemmas

-----------------------------------------------------------------------------
(* One lemma per action, or per group of actions that disturb the same part. *)

\* The engine starts in the invariant.
LEMMA InitInv == Init => EngineInv
<1> SUFFICES ASSUME Init PROVE EngineInv
  OBVIOUS
<1>1. PoolInv
  BY PoolInitInv DEF Init
<1>2. /\ MaxModelLen \in Nat \ {0} /\ MaxTokens \in Nat /\ NumSpec \in Nat
      /\ 0 \in 0 .. MaxModelLen /\ 0 \in 0 .. MaxModelLen - 1 /\ 0 \in 0 .. NumSpec
      /\ 0 \in 0 .. MaxTokens /\ MaxTokens \in 0 .. MaxTokens
  BY EngineAssumption
<1>3. /\ defer_prefills \in BOOLEAN /\ preempted \in BOOLEAN /\ capacity_bound \in BOOLEAN
      /\ prefill_chunk \in [Reqs -> BOOLEAN]
  BY Zenon DEF Init
<1>4. TypeOK
  BY <1>1, <1>2, <1>3 DEF Init, TypeOK, PoolInv
<1>5. RollbackExact
  BY DEF Init, RollbackExact, Max2
<1> QED BY <1>1, <1>4, <1>5 DEF EngineInv

\* An arriving request starts with nothing computed (add_request).
LEMMA AddRequestInv ==
    ASSUME EngineInv, NEW r \in Reqs, AddRequest(r)
    PROVE  EngineInv'
<1>1. PoolInv'
  BY PoolStutter DEF EngineInv, AddRequest, poolVars, allocVars
<1>2. PICK n \in PromptLens : /\ num_prompt' = [num_prompt EXCEPT ![r] = n]
                              /\ num_tokens' = [num_tokens EXCEPT ![r] = n]
  BY Zenon DEF AddRequest
<1>3. n \in Nat \ {0} /\ n \in 0 .. MaxModelLen /\ 0 \in 0 .. MaxModelLen - 1 /\ 0 \in 0 .. NumSpec
  BY EngineAssumption
<1>4. prefill_chunk' \in [Reqs -> BOOLEAN]
  BY DEF AddRequest, EngineInv, TypeOK
<1>5. TypeOK'
  BY <1>1, <1>2, <1>3, <1>4, Zenon
     DEF AddRequest, EngineInv, TypeOK, PoolInv, blockVars, stepVars, scheduleVars
<1>6. RollbackExact'
  <2> SUFFICES ASSUME NEW s \in Reqs
               PROVE  /\ num_computed'[s] < Max2(num_tokens'[s], 1)
                      /\ accepted'[s] <= IF /\ phase' \in {"draft", "update", "dead"}
                                            /\ (s \in Scheduled)'
                                         THEN Drafts(s)' ELSE 0
    BY DEF RollbackExact
  <2>1. /\ phase' = phase /\ phase = "idle" /\ accepted' = accepted
    BY DEF AddRequest, stepVars
  <2>2. accepted'[s] <= 0
    BY <2>1 DEF EngineInv, RollbackExact
  <2>3. CASE s = r
    <3>1. num_computed'[s] = 0 /\ num_tokens'[s] = n
      BY <1>2, <2>3 DEF AddRequest, EngineInv, TypeOK
    <3>2. 0 < Max2(n, 1)
      BY <1>3, Max2Facts
    <3> QED BY <2>1, <2>2, <3>1, <3>2
  <2>4. CASE s # r
    <3>1. num_computed'[s] = num_computed[s] /\ num_tokens'[s] = num_tokens[s]
      BY <1>2, <2>4 DEF AddRequest, EngineInv, TypeOK
    <3> QED BY <2>1, <2>2, <3>1 DEF EngineInv, RollbackExact
  <2> QED BY <2>3, <2>4
<1> QED BY <1>1, <1>5, <1>6 DEF EngineInv

\* Aborting a request leaves no count and no block behind (finish_requests).
LEMMA AbortRequestInv ==
    ASSUME EngineInv, NEW r \in Reqs, AbortRequest(r)
    PROVE  EngineInv'
<1>1. PoolInv'
  BY PoolStutter DEF EngineInv, AbortRequest, poolVars, allocVars
<1>2. /\ 0 \in 0 .. MaxModelLen /\ 0 \in 0 .. MaxModelLen - 1 /\ 0 \in 0 .. NumSpec
      /\ 0 \in 0 .. MaxTokens
  BY EngineAssumption
<1>3. prefill_chunk' \in [Reqs -> BOOLEAN]
  BY DEF AbortRequest, EngineInv, TypeOK
<1>4. req_blocks' \in [Reqs -> Seq(Blocks)] /\ num_cached' \in [Reqs -> Nat]
  BY DEF AbortRequest, FreeRequest, EngineInv, TypeOK
<1>5. TypeOK'
  BY <1>1, <1>2, <1>3, <1>4, Zenon DEF AbortRequest, EngineInv, TypeOK, PoolInv, scheduleVars
<1>6. RollbackExact'
  <2> SUFFICES ASSUME NEW s \in Reqs
               PROVE  /\ num_computed'[s] < Max2(num_tokens'[s], 1)
                      /\ accepted'[s] <= IF /\ phase' \in {"draft", "update", "dead"}
                                            /\ scheduled'[s] > 0
                                         THEN Drafts(s)' ELSE 0
    BY DEF RollbackExact, Scheduled
  <2>1. CASE s = r
    BY <2>1 DEF AbortRequest, EngineInv, TypeOK, Max2
  <2>2. CASE s # r
    BY <2>2 DEF AbortRequest, EngineInv, TypeOK, RollbackExact, Scheduled, Drafts
  <2> QED BY <2>1, <2>2
<1> QED BY <1>1, <1>5, <1>6 DEF EngineInv

\* schedule's entry touches only its locals and the blocks cached this step.
LEMMA StartStepInv == ASSUME EngineInv, StartStep PROVE EngineInv'
<1>1. PoolInv'
  BY PoolStutter DEF EngineInv, StartStep, poolVars, allocVars
<1>2. defer_prefills' \in BOOLEAN
  BY DEF StartStep
<1>3. TypeOK'
  BY <1>1, <1>2 DEF StartStep, EngineInv, TypeOK, PoolInv, reqVars, queueVars
<1>4. RollbackExact'
  BY DEF StartStep, EngineInv, RollbackExact, reqVars
<1> QED BY <1>1, <1>3, <1>4 DEF EngineInv

\* Passing a running request over only moves the cursor.
LEMMA SkipRunningInv ==
    ASSUME EngineInv, NEW r \in Reqs, SkipRunning(r)
    PROVE  EngineInv'
<1>1. PoolInv'
  BY PoolStutter DEF EngineInv, SkipRunning, poolVars, allocVars
<1>2. req_index' \in Nat \ {0}
  BY DEF SkipRunning, EngineInv, TypeOK
<1>3. defer_prefills' \in BOOLEAN /\ preempted' \in BOOLEAN /\ capacity_bound' \in BOOLEAN
  BY DEF SkipRunning, EngineInv, TypeOK
<1>4. UNCHANGED <<reqVars, queueVars, blockVars, phase, token_budget, scheduled, accepted,
                  draft_pass>>
  BY DEF SkipRunning
<1>5. TypeOK'
  BY <1>1, <1>2, <1>3, <1>4, SMTT(20) DEF EngineInv, TypeOK, PoolInv, reqVars, queueVars, blockVars
<1>6. RollbackExact'
  BY DEF SkipRunning, EngineInv, RollbackExact, reqVars, Scheduled, Drafts
<1> QED BY <1>1, <1>5, <1>6 DEF EngineInv

\* Scheduling a running request keeps the budget and its block table in bounds.
LEMMA ScheduleRunningInv ==
    ASSUME EngineInv, NEW r \in Reqs, ScheduleRunning(r)
    PROVE  EngineInv'
<1>1. PoolInv'
  BY PoolStutter DEF EngineInv, ScheduleRunning, poolVars, allocVars
<1>2. NumNew(r) \in 0 .. token_budget /\ token_budget \in 0 .. MaxTokens
  BY NumNewWithin, Zenon DEF ScheduleRunning, Current, InRunningLoop, EngineInv, TypeOK
<1>3. num_computed[r] \in Nat /\ MaxTokens \in Nat
  BY EngineAssumption DEF EngineInv, TypeOK
<1>4. PICK new \in Distinct(FreeBlocks, RunningShortage(r)) :
          GiveBlocks(r, <<>>, new, num_computed[r], NumNew(r))
  BY DEF ScheduleRunning
<1>5. new \in Seq(Blocks)
  <2>1. Len(req_blocks[r]) \in Nat
    BY DEF EngineInv, TypeOK
  <2>2. NumNew(r) \in Nat
    BY <1>2
  <2>3. RunningShortage(r) \in Nat
    BY <1>3, <2>1, <2>2, ShortageNat, Zenon DEF RunningShortage
  <2> QED BY <1>4, <2>3, DistinctSeq DEF FreeBlocks
<1>6. /\ req_blocks' \in [Reqs -> Seq(Blocks)]
      /\ num_cached' \in [Reqs -> Nat]
      /\ block_hash' \in [Blocks -> Hash \cup {NoHash}]
      /\ cached_this_step' \subseteq Hash
  <2> DEFINE n == NumNew(r)
             start == num_computed[r]
  <2>1. n \in Nat /\ start \in Nat /\ <<>> \in Seq(Blocks)
    BY <1>2, <1>3
  <2>2. GiveBlocks(r, <<>>, new, start, n)
    BY <1>4
  <2> HIDE DEF n, start
  <2> QED BY <1>5, <2>1, <2>2, GiveBlocksTypes, Zenon DEF EngineInv
<1>7. /\ scheduled' \in [Reqs -> 0 .. MaxTokens]
      /\ token_budget' \in 0 .. MaxTokens
      /\ num_drafts' \in [Reqs -> 0 .. NumSpec]
      /\ req_index' \in Nat \ {0}
  <2>1. NumNew(r) \in 0 .. MaxTokens /\ token_budget - NumNew(r) \in 0 .. MaxTokens
    BY <1>2, <1>3
  <2>2. 0 \in 0 .. NumSpec
    BY EngineAssumption
  <2>3. scheduled' = [scheduled EXCEPT ![r] = NumNew(r)]
        /\ num_drafts' = [num_drafts EXCEPT ![r] = 0]
    BY DEF ScheduleRunning
  <2>4. scheduled' \in [Reqs -> 0 .. MaxTokens] /\ num_drafts' \in [Reqs -> 0 .. NumSpec]
    BY <2>1, <2>2, <2>3, UpdateType DEF EngineInv, TypeOK
  <2> QED BY <2>1, <2>4 DEF ScheduleRunning, EngineInv, TypeOK
<1>8. TypeOK'
  BY <1>1, <1>6, <1>7, Zenon DEF ScheduleRunning, EngineInv, TypeOK, PoolInv, queueVars
<1>9. RollbackExact'
  BY DEF ScheduleRunning, Current, InRunningLoop, EngineInv, RollbackExact
<1> QED BY <1>1, <1>8, <1>9 DEF EngineInv

\* Preempting a request resets what it had computed (_preempt_request).
LEMMA PreemptLastInv ==
    ASSUME EngineInv, NEW r \in Reqs, PreemptLast(r)
    PROVE  EngineInv'
<1> DEFINE victim == running[Len(running)]
<1>1. PoolInv'
  BY PoolStutter DEF EngineInv, PreemptLast, poolVars, allocVars
<1>2. 0 \in 0 .. MaxModelLen - 1 /\ 0 \in 0 .. NumSpec
  BY EngineAssumption
<1>3. /\ num_computed' = [num_computed EXCEPT ![victim] = 0]
      /\ num_drafts' = [num_drafts EXCEPT ![victim] = 0]
      /\ req_blocks' = [req_blocks EXCEPT ![victim] = <<>>]
      /\ num_cached' = [num_cached EXCEPT ![victim] = 0]
  BY DEF PreemptLast, FreeRequest
<1> HIDE DEF victim
<1>4. /\ num_computed' \in [Reqs -> 0 .. MaxModelLen - 1]
      /\ num_drafts' \in [Reqs -> 0 .. NumSpec]
      /\ req_blocks' \in [Reqs -> Seq(Blocks)]
      /\ num_cached' \in [Reqs -> Nat]
  <2>1. <<>> \in Seq(Blocks) /\ 0 \in Nat
    OBVIOUS
  <2> QED BY <1>2, <1>3, <2>1, UpdateType, Zenon DEF EngineInv, TypeOK
<1>5. preempted' \in BOOLEAN
  BY DEF PreemptLast
<1>6. TypeOK'
  BY <1>1, <1>4, <1>5, Zenon DEF PreemptLast, EngineInv, TypeOK, PoolInv
<1>7. RollbackExact'
  <2> SUFFICES ASSUME NEW s \in Reqs
               PROVE  num_computed'[s] < Max2(num_tokens[s], 1) /\ accepted[s] <= 0
    BY DEF PreemptLast, Current, InRunningLoop, RollbackExact
  <2>1. num_computed'[s] = num_computed[s] \/ num_computed'[s] = 0
    BY <1>3 DEF EngineInv, TypeOK
  <2>2. num_tokens[s] \in Nat
    BY EngineAssumption DEF EngineInv, TypeOK
  <2>3. /\ num_computed[s] < Max2(num_tokens[s], 1)
        /\ accepted[s] <= 0
    BY DEF PreemptLast, Current, InRunningLoop, EngineInv, RollbackExact
  <2>4. 0 < Max2(num_tokens[s], 1)
    BY <2>2 DEF Max2
  <2> QED BY <2>1, <2>3, <2>4
<1> QED BY <1>1, <1>6, <1>7 DEF EngineInv

\* Leaving the running loop changes only schedule's locals.
LEMMA EndRunningInv == ASSUME EngineInv, EndRunning PROVE EngineInv'
<1>1. PoolInv'
  BY PoolStutter DEF EngineInv, EndRunning, poolVars, allocVars
<1>2. /\ phase' \in {"execute", "waiting"}
      /\ req_index' \in Nat \ {0} /\ token_budget' \in 0 .. MaxTokens
  BY EngineAssumption DEF EndRunning, Return, scheduleVars, EngineInv, TypeOK
<1>3. defer_prefills' \in BOOLEAN /\ preempted' \in BOOLEAN
  BY Zenon DEF EndRunning, Return, scheduleVars, EngineInv, TypeOK
<1>4. TypeOK'
  BY <1>1, <1>2, <1>3 DEF EndRunning, EngineInv, TypeOK, PoolInv, reqVars, queueVars, blockVars
<1>5. RollbackExact'
  BY <1>2 DEF EndRunning, EngineInv, RollbackExact, reqVars
<1> QED BY <1>1, <1>4, <1>5 DEF EngineInv

\* Admitting a request with a prefix hit leaves it a token to compute.
LEMMA AdmitWaitingInv ==
    ASSUME EngineInv, NEW r \in Reqs, AdmitWaiting(r)
    PROVE  EngineInv'
<1>1. PoolInv'
  BY PoolStutter DEF EngineInv, AdmitWaiting, poolVars, allocVars
<1>2. PICK m \in LongestHits(r) : \E hit \in HitBlocks(r, m) :
          LET start == Len(hit) * BlockSize
              n == NumAdmitted(r, start, Junction(hit, m))
          IN /\ n > 0
             /\ \E new \in Distinct(FreeBlocks \ Range(hit), Shortage(start, n, Len(hit))) :
                   GiveBlocks(r, hit, new, start, n)
             /\ scheduled' = [scheduled EXCEPT ![r] = n]
             /\ token_budget' = token_budget - n
             /\ num_computed' = [num_computed EXCEPT ![r] = start]
             /\ shared_prefix_boundary' =
                   [shared_prefix_boundary EXCEPT ![r] = Junction(hit, m)]
  BY Zenon DEF AdmitWaiting
<1>3. PICK hit \in HitBlocks(r, m) :
          LET start == Len(hit) * BlockSize
              n == NumAdmitted(r, start, Junction(hit, m))
          IN /\ n > 0
             /\ \E new \in Distinct(FreeBlocks \ Range(hit), Shortage(start, n, Len(hit))) :
                   GiveBlocks(r, hit, new, start, n)
             /\ scheduled' = [scheduled EXCEPT ![r] = n]
             /\ token_budget' = token_budget - n
             /\ num_computed' = [num_computed EXCEPT ![r] = start]
             /\ shared_prefix_boundary' =
                   [shared_prefix_boundary EXCEPT ![r] = Junction(hit, m)]
  BY <1>2, Zenon
<1> DEFINE start == Len(hit) * BlockSize
           junction == Junction(hit, m)
           n == NumAdmitted(r, start, junction)
<1>4. hit \in Seq(Blocks) /\ junction \in Nat /\ start \in Nat /\ start < Max2(num_tokens[r], 1)
  BY HitWithin DEF EngineInv
<1>5. /\ \E new \in Distinct(FreeBlocks \ Range(hit), Shortage(start, n, Len(hit))) :
            GiveBlocks(r, hit, new, start, n)
      /\ scheduled' = [scheduled EXCEPT ![r] = n]
      /\ token_budget' = token_budget - n
      /\ num_computed' = [num_computed EXCEPT ![r] = start]
      /\ shared_prefix_boundary' = [shared_prefix_boundary EXCEPT ![r] = junction]
  BY <1>3
<1> HIDE DEF start, n, junction
<1>6. num_tokens[r] \in 0 .. MaxModelLen /\ MaxModelLen \in Nat \ {0} /\ MaxTokens \in Nat
  BY EngineAssumption DEF EngineInv, TypeOK
<1>7. start <= num_tokens[r] /\ start \in 0 .. MaxModelLen - 1
  BY <1>4, <1>6 DEF Max2
<1>8. n \in 0 .. token_budget /\ token_budget \in 0 .. MaxTokens
  BY <1>4, <1>7, AdmittedWithin, Zenon DEF AdmitWaiting, InWaitingLoop, EngineInv, TypeOK, n
<1>9. n \in 0 .. MaxTokens /\ token_budget - n \in 0 .. MaxTokens /\ n \in Nat
  BY <1>4, <1>6, <1>8
<1>10. /\ req_blocks' \in [Reqs -> Seq(Blocks)]
      /\ num_cached' \in [Reqs -> Nat]
      /\ block_hash' \in [Blocks -> Hash \cup {NoHash}]
      /\ cached_this_step' \subseteq Hash
  <2>1. PICK new \in Distinct(FreeBlocks \ Range(hit), Shortage(start, n, Len(hit))) :
            GiveBlocks(r, hit, new, start, n)
    BY <1>5
  <2>2. Len(hit) \in Nat /\ n \in Nat
    BY <1>4, <1>9
  <2>3. Shortage(start, n, Len(hit)) \in Nat
    BY <1>4, <2>2, ShortageNat
  <2>4. new \in Seq(Blocks)
    BY <2>1, <2>3, DistinctSeq DEF FreeBlocks
  <2> QED BY <1>4, <2>1, <2>2, <2>4, GiveBlocksTypes DEF EngineInv
<1>11. /\ scheduled' \in [Reqs -> 0 .. MaxTokens]
       /\ num_computed' \in [Reqs -> 0 .. MaxModelLen - 1]
       /\ shared_prefix_boundary' \in [Reqs -> Nat]
  BY <1>4, <1>5, <1>7, <1>9, UpdateType, SMTT(20) DEF EngineInv, TypeOK
<1>12. TypeOK'
  BY <1>1, <1>5, <1>9, <1>10, <1>11, Zenon DEF AdmitWaiting, EngineInv, TypeOK, PoolInv
<1>13. RollbackExact'
  <2> SUFFICES ASSUME NEW s \in Reqs
               PROVE  num_computed'[s] < Max2(num_tokens[s], 1) /\ accepted[s] <= 0
    BY Zenon DEF AdmitWaiting, InWaitingLoop, RollbackExact
  <2>1. num_computed'[s] = IF s = r THEN start ELSE num_computed[s]
    BY <1>5 DEF EngineInv, TypeOK
  <2> QED BY <1>4, <2>1, Zenon DEF AdmitWaiting, InWaitingLoop, EngineInv, RollbackExact
<1> QED BY <1>1, <1>12, <1>13 DEF EngineInv

\* Leaving the waiting loop changes only schedule's locals and capacity_bound.
LEMMA EndWaitingInv == ASSUME EngineInv, EndWaiting PROVE EngineInv'
<1>1. PoolInv'
  BY PoolStutter DEF EngineInv, EndWaiting, poolVars, allocVars
<1>2. capacity_bound' \in BOOLEAN /\ defer_prefills' \in BOOLEAN /\ preempted' \in BOOLEAN
  BY Zenon DEF EndWaiting, Return, EngineInv, TypeOK
<1>3. /\ phase' = "execute" /\ req_index' = 1 /\ token_budget' = MaxTokens
      /\ UNCHANGED <<queueVars, reqVars, blockVars, scheduled, accepted, draft_pass>>
  BY DEF EndWaiting, Return
<1>4. req_index' \in Nat \ {0} /\ token_budget' \in 0 .. MaxTokens
  BY <1>3, EngineAssumption
<1>5. TypeOK'
  BY <1>1, <1>2, <1>3, <1>4
     DEF EngineInv, TypeOK, PoolInv, reqVars, queueVars, blockVars
<1>6. RollbackExact'
  BY <1>3, Zenon DEF EndWaiting, EngineInv, RollbackExact, reqVars
<1> QED BY <1>1, <1>5, <1>6 DEF EngineInv

\* A step that runs no forward changes only the phase.
LEMMA EmptyStepInv == ASSUME EngineInv, EmptyStep PROVE EngineInv'
<1>1. PoolInv'
  BY PoolStutter DEF EngineInv, EmptyStep, poolVars, allocVars
<1>2. TypeOK'
  BY <1>1 DEF EmptyStep, EngineInv, TypeOK, PoolInv, reqVars, queueVars, blockVars, scheduleVars
<1>3. RollbackExact'
  BY Zenon DEF EmptyStep, EngineInv, RollbackExact, reqVars
<1> QED BY <1>1, <1>2, <1>3 DEF EngineInv
=============================================================================
