------------------------------ MODULE MCSizing ------------------------------
(***************************************************************************)
(* PoolSizing for TLC.  Committed lengths matter only modulo GROUP and by  *)
(* whether they reach GROUP, so two tiles of them are enough.              *)
(***************************************************************************)
EXTENDS PoolSizing

TwoTiles == 0 .. 2 * GROUP - 1
AroundOne == (pool_slots(1) - 3) .. (pool_slots(1) + 23)
=============================================================================
