----------------------------- MODULE AbstractMatmul ----------------------------
(***************************************************************************)
(* What a multi-core matmul kernel owes its caller, whatever way it splits *)
(* the work: every block of the output is written once, with its complete  *)
(* product, and no other way.                                              *)
(***************************************************************************)
CONSTANT Nothing    \* what a block holds before it is written

VARIABLES
  product,    \* block of the output matrix -> what it must hold in the end
  c           \* the output in global memory

vars == <<product, c>>

Init == c = [b \in DOMAIN product |-> Nothing]

(* Any number of blocks that were not written yet are written at once.     *)
Next ==
  /\ DOMAIN c' = DOMAIN c
  /\ \A b \in DOMAIN c :
        c'[b] # c[b] => c[b] = Nothing /\ c'[b] = product[b]
  /\ UNCHANGED product

Spec == Init /\ [][Next]_vars
===============================================================================
