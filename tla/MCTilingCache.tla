----------------------------- MODULE MCTilingCache -----------------------------
(***************************************************************************)
(* A model-checking instance of TilingCache.  Inputs i1 and i2 collide on  *)
(* hash key k1, i3 has the key k2 to itself.                               *)
(***************************************************************************)
EXTENDS TilingCache

CONSTANTS i1, i2, i3, k1, k2

CollidingHash == [i \in Inputs |-> IF i \in {i1, i2} THEN k1 ELSE k2]
===============================================================================
