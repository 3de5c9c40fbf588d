---------------------------- MODULE MCTilingDispatch ---------------------------
(***************************************************************************)
(* Model-checking instances of TilingDispatch: three templates; lists that *)
(* name all of them, or skip one, as those of MatMulV3, BatchMatMulV3 and  *)
(* QuantBatchMatmulV4 do; and one against the priorities, like that of     *)
(* FusedQuantMatMul.                                                       *)
(***************************************************************************)
EXTENDS TilingDispatch

PassedLists == {<<0, 1, 2>>, <<0, 2>>, <<1>>, <<1, 0>>}
===============================================================================
