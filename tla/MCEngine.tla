------------------------------ MODULE MCEngine ------------------------------
(***************************************************************************)
(* KVarNEngine for TLC.  Request and block ids are interchangeable         *)
(* (Symmetry).  So are slots, and there are many: the view forgets their   *)
(* names and keeps which tiles hold one, which tiles share one, what each  *)
(* holds and how many are free or lost.                                    *)
(***************************************************************************)
EXTENDS KVarNEngine, TLC

Symmetry == Permutations(Reqs) \cup Permutations(Blocks)

Shared == {x \in Resident : \E y \in Resident \ {x} : b2s[x] = b2s[y]}

View ==
    <<Resident, Shared, [x \in Resident |-> tail_pool[b2s[x]]],
      Cardinality(free_slots), free_slots \cap SlotsOf(Resident) = {},
      sinks, retired, block_fill, kv_cache, exhausted,
      queueVars, reqVars, blockVars, stepVars>>
=============================================================================
