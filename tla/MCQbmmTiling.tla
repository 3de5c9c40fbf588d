----------------------------- MODULE MCQbmmTiling ------------------------------
(***************************************************************************)
(* Model-checking instances of QbmmTiling.  m1: int8 shapes that both      *)
(* QuantBatchMatmulV3 and PERBLOCK tile; m2: shapes of QuantBatchMatmulV3  *)
(* that have no basic tiling; m3: shapes that the basic template refuses   *)
(* together with e1, a batch; m4: int4 shapes of PERGROUP.  e0 is what     *)
(* Reset() leaves.                                                         *)
(***************************************************************************)
EXTENDS QbmmTiling, TLC

CONSTANTS t1, t2, m1, m2, m3, m4, none, e0, e1, kA, kB

ThreadSymmetry == Permutations(Threads)

(* The hashes of all inputs but PERGROUP's collide, whatever the padding.  *)
Hash == [i \in Inputs |-> IF i[1] = m4 THEN kB ELSE kA]

(* m1 stands for shapes with a BF16 output.                                *)
Bf16 == {m1} \X Extras

Batched == {<<m3, e1>>}
Untilable == {m2} \X Extras

V3Contexts ==
  [op : {"V3"}, main : {m1, m3}, extra : {e0, e1}, valid : {TRUE}]
    \cup {[op |-> "V3", main |-> m1, extra |-> e1, valid |-> FALSE],
          [op |-> "V3", main |-> m2, extra |-> e0, valid |-> TRUE]}

PergroupContexts == {[op |-> "Pergroup", main |-> m4, extra |-> e0, valid |-> v] : v \in BOOLEAN}

PerblockContexts == {[op |-> "Perblock", main |-> m1, extra |-> e0, valid |-> v] : v \in BOOLEAN}

CleanContexts == V3Contexts \cup PergroupContexts

(* What QbmmTiling_proofs takes for granted in theorem Independence.       *)
ASSUME CleanContextsApart == KindsApart(CleanContexts)

AllContexts ==
  {[op |-> "V3", main |-> m, extra |-> e1, valid |-> TRUE] : m \in {m1, m3}}
    \cup PergroupContexts \cup PerblockContexts
===============================================================================
