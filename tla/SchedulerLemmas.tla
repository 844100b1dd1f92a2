-------------------------- MODULE SchedulerLemmas ---------------------------
(***************************************************************************)
(* The engine's inductive invariant, and what the scheduler's operators    *)
(* return under it: how many tokens and which blocks a request is given.   *)
(*                                                                         *)
(* The inductive invariant joins three parts.  A build preserves the       *)
(* allocator's invariant only for rows whose lengths are natural numbers;  *)
(* those lengths are natural because no request counts a rejected draft as *)
(* computed; and that in turn needs the sampler's count of accepted drafts *)
(* to stay within the drafts of the step.                                  *)
(***************************************************************************)
EXTENDS KVarNEngine, TailPoolProofs

EngineInv == TypeOK /\ RollbackExact /\ PoolInv

\* What Max2 is when one side is known to be the larger.
LEMMA Max2Facts ==
    ASSUME NEW a \in Int, NEW b \in Int
    PROVE  /\ Max2(a, b) \in Int /\ a <= Max2(a, b) /\ b <= Max2(a, b)
           /\ a <= b => Max2(a, b) = b
           /\ b <= a => Max2(a, b) = a
  BY DEF Max2

\* Assigning one entry of a map keeps its type.
LEMMA UpdateType ==
    ASSUME NEW A, NEW B, NEW f \in [A -> B], NEW x, NEW v \in B
    PROVE  [f EXCEPT ![x] = v] \in [A -> B]
  BY Zenon

-----------------------------------------------------------------------------
(* Arithmetic of the scheduler.                                             *)

\* A vLLM block holds a positive number of tokens.
LEMMA BlockSizeNat == BlockSize \in Nat \ {0}
  BY PoolAssumption DEF BlockSize

\* Rounding down to a multiple of g.
LEMMA RoundDown ==
    ASSUME NEW a \in Nat, NEW g \in Nat \ {0}
    PROVE  a \div g \in Nat /\ (a \div g) * g \in Nat /\ (a \div g) * g <= a
<1>1. a \div g \in Nat /\ (a \div g) * g <= a
  OBVIOUS
<1>2. (a \div g) * g \in Nat
  BY <1>1
<1> QED BY <1>1, <1>2

\* A nonempty set of at most three integers has a least element.
LEMMA LeastOfThree ==
    ASSUME NEW a \in Int, NEW b \in Int, NEW c \in Int, NEW S, S \subseteq {a, b, c}, S # {}
    PROVE  \E s \in S : \A t \in S : s <= t
<1>1. CASE a \in S /\ (b \in S => a <= b) /\ (c \in S => a <= c)
  <2>1. \A t \in S : a <= t
    BY <1>1
  <2> QED BY <1>1, <2>1
<1>2. CASE b \in S /\ (a \in S => b <= a) /\ (c \in S => b <= c)
  <2>1. \A t \in S : b <= t
    BY <1>2
  <2> QED BY <1>2, <2>1
<1>3. CASE c \in S /\ (a \in S => c <= a) /\ (b \in S => c <= b)
  <2>1. \A t \in S : c <= t
    BY <1>3
  <2> QED BY <1>3, <2>1
<1>4. /\ a <= b \/ b <= a
      /\ b <= c \/ c <= b
      /\ a <= c \/ c <= a
      /\ a <= b /\ b <= c => a <= c
      /\ c <= b /\ b <= a => c <= a
  OBVIOUS
<1>5. a \in S \/ b \in S \/ c \in S
  BY Zenon
<1> QED BY <1>1, <1>2, <1>3, <1>4, <1>5

\* Aligning a chunk never makes it longer or negative.
LEMMA SplitWithin ==
    ASSUME TypeOK, NEW r \in Reqs, NEW start \in Nat, NEW n \in Nat, NEW junction \in Nat
    PROVE  AlignedSplit(r, start, n, junction) \in 0 .. n
<1> DEFINE prefill_end == Max2(num_prompt[r], num_tokens[r] - 1)
           last == (num_tokens[r] \div BlockSize) * BlockSize
           last_cache == IF NumSpec > 0 THEN Max2(last - BlockSize, 0) ELSE last
           floor == ((start + n) \div BlockSize) * BlockSize
           end == IF /\ start + n < prefill_end
                     /\ floor > start \/ BlockSize <= MaxTokens
                  THEN floor ELSE start + n
           boundary == IF start % BlockSize = 0 THEN 0
                       ELSE (start \div BlockSize + 1) * BlockSize
           shared == IF start < junction /\ junction < end
                     THEN start + ((junction - start) \div BlockSize) * BlockSize ELSE 0
           stops == {s \in {boundary, last_cache, shared} : start < s /\ s < end}
           stop == IF stops = {} THEN end ELSE CHOOSE s \in stops : \A t \in stops : s <= t
<1>1. num_tokens[r] \in Nat /\ num_prompt[r] \in Nat
  BY EngineAssumption DEF TypeOK
<1>2. last \in Int /\ last_cache \in Int
  BY <1>1, BlockSizeNat, RoundDown DEF Max2
<1>3. floor \in Nat /\ floor <= start + n
  BY BlockSizeNat, RoundDown
<1>4. boundary \in Int
  BY BlockSizeNat, RoundDown
<1>5. end \in Nat /\ end <= start + n
  BY <1>3
<1>6. shared \in Int
  BY BlockSizeNat
<1> HIDE DEF last_cache, boundary, shared, end
<1>7. stop \in Int /\ stop <= end
  <2>1. CASE stops = {}
    BY <1>5, <2>1
  <2>2. CASE stops # {}
    <3>1. stops \subseteq {boundary, last_cache, shared} /\ \A s \in stops : s < end
      OBVIOUS
    <3>2. \E s \in stops : \A t \in stops : s <= t
      <4> HIDE DEF stops
      <4> QED BY <1>2, <1>4, <1>6, <2>2, <3>1, LeastOfThree, Zenon
    <3>3. stop \in stops
      <4> HIDE DEF stops
      <4> QED BY <2>2, <3>2
    <3> QED BY <3>1, <3>3, <1>2, <1>4, <1>5, <1>6
  <2> QED BY <2>1, <2>2
<1>8. AlignedSplit(r, start, n, junction) =
          IF ~ Hybrid \/ start >= prefill_end THEN n ELSE Max2(stop - start, 0)
  BY DEF AlignedSplit, last_cache, boundary, shared, end
<1> HIDE DEF stop, prefill_end
<1>9. Max2(stop - start, 0) \in 0 .. n
  BY <1>5, <1>7 DEF Max2
<1> QED BY <1>8, <1>9

\* A running request is scheduled for no more tokens than the step has left.
LEMMA NumNewWithin ==
    ASSUME EngineInv, NEW r \in Reqs, token_budget > 0
    PROVE  NumNew(r) \in 0 .. token_budget
<1> DEFINE n == Min2(num_tokens[r] + num_drafts[r] - num_computed[r],
                     Min2(token_budget, MaxModelLen - num_computed[r] - 1))
<1>1. /\ num_tokens[r] \in Nat /\ num_drafts[r] \in Nat /\ num_computed[r] \in Nat
      /\ num_computed[r] <= num_tokens[r] /\ num_computed[r] <= MaxModelLen - 1
      /\ token_budget \in Nat /\ MaxModelLen \in Nat /\ shared_prefix_boundary[r] \in Nat
  BY EngineAssumption DEF EngineInv, TypeOK, RollbackExact, Max2
<1>2. n \in Nat /\ n <= token_budget
  BY <1>1 DEF Min2
<1> HIDE DEF n
<1>3. AlignedSplit(r, num_computed[r], n, shared_prefix_boundary[r]) \in 0 .. n
  BY <1>1, <1>2, SplitWithin DEF EngineInv
<1>4. NumNew(r) = AlignedSplit(r, num_computed[r], n, shared_prefix_boundary[r])
  BY DEF NumNew, n
<1> QED BY <1>1, <1>2, <1>3, <1>4

\* So is an admitted one.
LEMMA AdmittedWithin ==
    ASSUME EngineInv, NEW r \in Reqs, NEW start \in Nat, start <= num_tokens[r],
           NEW junction \in Nat, token_budget > 0
    PROVE  NumAdmitted(r, start, junction) \in 0 .. token_budget
<1> DEFINE n == Min2(num_tokens[r] - start, token_budget)
<1>1. num_tokens[r] \in Nat /\ token_budget \in Nat /\ NumSpec \in Nat
  BY EngineAssumption DEF EngineInv, TypeOK
<1>2. n \in Nat /\ n <= token_budget
  BY <1>1 DEF Min2
<1> HIDE DEF n
<1>3. AlignedSplit(r, start, n, junction) \in 0 .. token_budget
  <2>1. AlignedSplit(r, start, n, junction) \in 0 .. n
    BY <1>2, SplitWithin, Zenon DEF EngineInv
  <2> QED BY <1>1, <1>2, <2>1
<1>4. 1 + NumSpec <= token_budget => AlignedSplit(r, start, 1 + NumSpec, junction) \in 0 .. token_budget
  <2> DEFINE k == 1 + NumSpec
  <2>1. k \in Nat
    BY <1>1
  <2> HIDE DEF k
  <2>2. AlignedSplit(r, start, k, junction) \in 0 .. k
    BY <2>1, SplitWithin, SMTT(20) DEF EngineInv
  <2>3. k <= token_budget => AlignedSplit(r, start, k, junction) \in 0 .. token_budget
    BY <1>1, <2>1, <2>2
  <2> QED BY <2>3 DEF k
<1>5. 0 \in 0 .. token_budget
  BY <1>1
<1>6. NumAdmitted(r, start, junction) =
        IF defer_prefills /\ start < num_tokens[r] - 1 THEN 0
        ELSE IF ~ Padded(r, start) THEN AlignedSplit(r, start, n, junction)
        ELSE IF 1 + NumSpec > token_budget \/ start + 1 + NumSpec > MaxModelLen THEN 0
        ELSE AlignedSplit(r, start, 1 + NumSpec, junction)
  BY DEF NumAdmitted, n
<1>7. 1 + NumSpec > token_budget \/ 1 + NumSpec <= token_budget
  BY <1>1
<1> QED BY <1>3, <1>4, <1>5, <1>6, <1>7

-----------------------------------------------------------------------------
(* Blocks.                                                                  *)

\* n multiples of g fit below a if n is at most a / g.
LEMMA MultipleBelow ==
    ASSUME NEW a \in Int, NEW n \in Nat, NEW g \in Nat \ {0}, n <= a \div g
    PROVE  n * g \in Nat /\ n * g <= a
<1>1. a \div g \in Int /\ (a \div g) * g <= a
  OBVIOUS
<1>2. n * g <= (a \div g) * g
  BY <1>1
<1>3. n * g \in Nat
  OBVIOUS
<1> QED BY <1>1, <1>2, <1>3

\* A prefix hit is a block table and leaves at least one token to compute.
LEMMA HitWithin ==
    ASSUME TypeOK, NEW r \in Reqs, NEW m \in LongestHits(r), NEW hit \in HitBlocks(r, m)
    PROVE  /\ hit \in Seq(Blocks)
           /\ Junction(hit, m) \in Nat
           /\ Len(hit) * BlockSize \in Nat
           /\ Len(hit) * BlockSize < Max2(num_tokens[r], 1)
<1> DEFINE limit == IF Caching THEN (num_tokens[r] - 1) \div BlockSize ELSE 0
<1>1. m \in 0 .. limit
  BY DEF LongestHits
<1>2. PICK n \in 0 .. limit : hit \in [1 .. n -> Blocks]
  <2>1. PICK n \in IF Hybrid THEN 0 .. m ELSE {m} : hit \in [1 .. n -> Blocks]
    BY Zenon DEF HitBlocks
  <2>2. limit \in Int
    BY EngineAssumption, BlockSizeNat DEF TypeOK
  <2> HIDE DEF limit
  <2>3. n \in 0 .. limit
    BY <1>1, <2>1, <2>2
  <2> QED BY <2>1, <2>3
<1>3. num_tokens[r] \in Nat
  BY EngineAssumption DEF TypeOK
<1>4. limit \in Int /\ n \in Nat
  BY <1>2, <1>3, BlockSizeNat
<1>5. hit \in Seq(Blocks) /\ Len(hit) = n
  BY <1>2, <1>4
<1>6. Junction(hit, m) \in Nat
  <2>1. m \in Nat
    BY <1>1, <1>4
  <2>2. m * BlockSize \in Nat
    BY <2>1, BlockSizeNat
  <2> QED BY <2>2 DEF Junction
<1>7. CASE Caching
  <2>1. n <= (num_tokens[r] - 1) \div BlockSize
    BY <1>2, <1>4, <1>7
  <2>2. n * BlockSize \in Nat /\ n * BlockSize <= num_tokens[r] - 1
    BY <1>3, <1>4, <2>1, BlockSizeNat, MultipleBelow
  <2> QED BY <1>3, <1>5, <1>6, <2>2 DEF Max2
<1>8. CASE ~ Caching
  <2>1. n = 0
    BY <1>2, <1>8
  <2> QED BY <1>3, <1>5, <1>6, <2>1, BlockSizeNat DEF Max2
<1> QED BY <1>7, <1>8

\* Blocks taken from the pool form a block table.
LEMMA DistinctSeq ==
    ASSUME NEW S, S \subseteq Blocks, NEW n \in Nat, NEW new \in Distinct(S, n)
    PROVE  new \in Seq(Blocks)
<1>1. new \in [1 .. n -> Blocks]
  BY DEF Distinct
<1> QED BY <1>1

\* The number of blocks allocate_slots still has to find is a natural number.
LEMMA ShortageNat ==
    ASSUME NEW start \in Nat, NEW n \in Nat, NEW have \in Nat
    PROVE  Shortage(start, n, have) \in Nat
<1>1. Min2(start + n + NumSpec, MaxModelLen) \in Nat
  BY EngineAssumption DEF Min2
<1>2. Cdiv(Min2(start + n + NumSpec, MaxModelLen), BlockSize) \in Int
  BY <1>1, BlockSizeNat DEF Cdiv
<1> QED BY <1>2 DEF Shortage, Max2

\* allocate_slots keeps block tables, hash counts and hashes well formed.
LEMMA GiveBlocksTypes ==
    ASSUME TypeOK, NEW r \in Reqs, NEW hit \in Seq(Blocks), NEW new \in Seq(Blocks),
           NEW start \in Nat, NEW n \in Nat, GiveBlocks(r, hit, new, start, n)
    PROVE  /\ req_blocks' \in [Reqs -> Seq(Blocks)]
           /\ num_cached' \in [Reqs -> Nat]
           /\ block_hash' \in [Blocks -> Hash \cup {NoHash}]
           /\ cached_this_step' \subseteq Hash
<1> DEFINE held == req_blocks[r] \o hit \o new
           full == IF Caching THEN Min2(start + n, num_tokens[r]) \div BlockSize ELSE 0
           first == num_cached[r] + Len(hit)
           fresh == {held[i] : i \in first + 1 .. full}
           state == {i \in first + 1 .. full :
                       i = full /\ (start > (i - 1) * BlockSize \/ start + n = i * BlockSize)}
           index(b) == CHOOSE i \in first + 1 .. full : held[i] = b
<1>1. held \in Seq(Blocks)
  BY DEF TypeOK
<1>2. full \in Nat
  <2>1. Min2(start + n, num_tokens[r]) \in Nat
    BY EngineAssumption DEF TypeOK, Min2
  <2> QED BY <2>1, BlockSizeNat, RoundDown
<1>3. first \in Nat
  BY DEF TypeOK
<1>4. \A i \in first + 1 .. full : HashOf(r, i - 1) \in Hash
  <2> SUFFICES ASSUME NEW i \in first + 1 .. full PROVE HashOf(r, i - 1) \in Hash
    OBVIOUS
  <2>1. i - 1 \in Nat
    BY <1>2, <1>3
  <2> QED BY <2>1 DEF HashOf, Hash, Owner
<1>5. \A b \in fresh : HashOf(r, index(b) - 1) \in Hash
  <2> SUFFICES ASSUME NEW b \in fresh PROVE HashOf(r, index(b) - 1) \in Hash
    BY Zenon
  <2>1. index(b) \in first + 1 .. full
    BY Zenon
  <2> QED BY <1>4, <2>1, Zenon
<1> HIDE DEF full, first, index
<1>6. req_blocks' = [req_blocks EXCEPT ![r] = held]
  BY DEF GiveBlocks
<1>7. num_cached' = [num_cached EXCEPT ![r] = Max2(first, full)]
  BY DEF GiveBlocks, first, full
<1>8. block_hash' = [b \in Blocks |-> IF b \in fresh THEN HashOf(r, index(b) - 1)
                                      ELSE IF b \in Range(new) THEN NoHash
                                      ELSE block_hash[b]]
  BY DEF GiveBlocks, first, full, index
<1>9. cached_this_step' = cached_this_step \cup {HashOf(r, i - 1) : i \in state}
  BY DEF GiveBlocks, first, full
<1> HIDE DEF held, fresh
<1>10. req_blocks' \in [Reqs -> Seq(Blocks)]
  BY <1>1, <1>6 DEF TypeOK
<1>11. num_cached' \in [Reqs -> Nat]
  BY <1>2, <1>3, <1>7 DEF TypeOK, Max2
<1>12. block_hash' \in [Blocks -> Hash \cup {NoHash}]
  BY <1>5, <1>8 DEF TypeOK
<1>13. cached_this_step' \subseteq Hash
  <2>1. state \subseteq first + 1 .. full
    OBVIOUS
  <2> HIDE DEF state
  <2> QED BY <1>4, <1>9, <2>1 DEF TypeOK
<1> QED BY <1>10, <1>11, <1>12, <1>13
=============================================================================
