----------------------------- MODULE SlidingWindow -----------------------------
(***************************************************************************)
(* The order in which the sliding window schedulers (ASWT) number the m by *)
(* n tiles of an output: block_scheduler_aswt.h, block_scheduler_streamk.h *)
(* and block_scheduler_gmm_aswt_with_tail_split.h each hold a copy of it.  *)
(***************************************************************************)
EXTENDS Integers, FiniteSets, FiniteSetsExt

WINDOW_LEN == 4

CeilDiv(a, b) == (a + b - 1) \div b
Align(a, b) == CeilDiv(a, b) * b
Least(a, b) == IF a < b THEN a ELSE b

(***************************************************************************)
(* UpdateMNTileIdx: tile number j walks bands of WINDOW_LEN rows, down the *)
(* columns of a band, and every other band from right to left; the last    *)
(* band takes the rows that are left.                                      *)
(***************************************************************************)
Position(s, j) ==
  LET window  == Least(WINDOW_LEN, s.m)
      bands   == s.m \div window - 1
      last    == s.m - bands * window
      band    == Least(j \div (s.n * window), bands)
      inLast  == j - bands * window * s.n
      row     == IF band < bands THEN j % window ELSE inLast % last
      column  == IF band < bands THEN (j \div window) % s.n ELSE (inLast \div last) % s.n
  IN  << band * window + row,
         IF band % 2 # 0 THEN s.n - 1 - column ELSE column >>

Positions(s) == (0 .. s.m - 1) \X (0 .. s.n - 1)

(* The numbers 0, 1, ... visit every tile of the output exactly once, in   *)
(* spite of bands, a last band of another height and reversed columns.     *)
VisitsEveryTileOnce(s) ==
  /\ {Position(s, j) : j \in 0 .. s.m * s.n - 1} = Positions(s)
  /\ \A i, j \in 0 .. s.m * s.n - 1 : Position(s, i) = Position(s, j) => i = j

(* The parts that blocks compute, each a rectangle <<batch, first line,    *)
(* lines, first column, columns>>, share `batch' outputs of m by n out.    *)
ShareOut(parts, part(_), batch, m, n) ==
  LET apart(p, q) == \/ p[1] # q[1]
                     \/ p[2] + p[3] <= q[2] \/ q[2] + q[3] <= p[2]
                     \/ p[4] + p[5] <= q[4] \/ q[4] + q[5] <= p[4]
  IN  /\ \A x \in parts :
           LET p == part(x) IN
           /\ p[1] \in 0 .. batch - 1 /\ p[3] > 0 /\ p[5] > 0
           /\ p[2] >= 0 /\ p[2] + p[3] <= m /\ p[4] >= 0 /\ p[4] + p[5] <= n
      /\ \A x, y \in parts : x # y => apart(part(x), part(y))
      /\ MapThenSumSet(LAMBDA x : part(x)[3] * part(x)[5], parts) = batch * m * n
===============================================================================
