------------------------------- MODULE MCStreamK -------------------------------
(***************************************************************************)
(* Model-checking instances of StreamK: one shape of each kind that the    *)
(* host tiling allows on two to four cores.                                *)
(***************************************************************************)
EXTENDS StreamK

SmallShapes ==
  { [cores |-> 4, m |-> 1, n |-> 1, sk |-> 3],    \* one split tile, an idle core
    [cores |-> 4, m |-> 1, n |-> 2, sk |-> 2],    \* two split tiles
    [cores |-> 3, m |-> 2, n |-> 2, sk |-> 3],    \* a whole round, one split tile
    [cores |-> 3, m |-> 1, n |-> 4, sk |-> 2],    \* a core without a chunk
    [cores |-> 2, m |-> 5, n |-> 1, sk |-> 2] }   \* two whole rounds, two bands
===============================================================================
