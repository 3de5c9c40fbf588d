------------------------------ MODULE MmadPingpong -----------------------------
(***************************************************************************)
(* What BlockMmad of the ASWT kernels (block_mmad_pingpong_without_que.h)  *)
(* hands to the pipes of a cube core: A and B in L1 with two or four       *)
(* buffers, or one of them loaded whole before the first tile; L0 with two *)
(* buffers; L0C with two buffers and flags, or one and the unit flag.      *)
(*                                                                         *)
(* A launch has fullLoad ("none", "A", "B"), bias, l0cDB, l1BufNum, k, kL1 *)
(* and baseK (in units of k), rows and columns (of a fully loaded matrix)  *)
(* and tiles; a tile its row, column and whether it is a core's first.     *)
(***************************************************************************)
EXTENDS Instructions

Set(p, q, id)  == SetFlag("aic", p, q, id)
Wait(p, q, id) == WaitFlag("aic", p, q, id)

A1(id) == <<"aic", "A1", id>>       B1(id) == <<"aic", "B1", id>>
A2(id) == <<"aic", "A2", id>>       B2(id) == <<"aic", "B2", id>>
C1(id) == <<"aic", "C1", id>>       C2(id) == <<"aic", "C2", id>>
CO1(id) == <<"aic", "CO1", id>>

Construct ==
  [i \in 1 .. 4 |-> Set("MTE1", "MTE2", i - 1)]
    \o [i \in 1 .. 2 |-> Set("FIX", "M", i - 1)] \o [i \in 1 .. 2 |-> Set("M", "MTE1", i - 1)]

Destruct ==
  [i \in 1 .. 4 |-> Wait("MTE1", "MTE2", i - 1)]
    \o [i \in 1 .. 2 |-> Wait("FIX", "M", i - 1)] \o [i \in 1 .. 2 |-> Wait("M", "MTE1", i - 1)]

CopyInA1(row, r, id)    == Load("aic", "MTE2", Units("A", row, r.from, r.length), A1(id))
CopyInB1(column, r, id) == Load("aic", "MTE2", Units("B", column, r.from, r.length), B1(id))
CopyInC1(column, id)    == Load("aic", "MTE2", BiasOf(column), C1(id))
CopyInC2(id, bt)        == Copy("aic", "MTE1", C1(id), {C2(bt)}, 0)
CopyInA2(id, from, length, l0) == Slice("aic", "MTE1", A1(id), from, length, A2(l0))
CopyInB2(id, from, length, l0) == Slice("aic", "MTE1", B1(id), from, length, B2(l0))

(* The fully loaded matrix, a buffer to each L0 row or column of it.       *)
FullLoad(l) ==
  LET all == [from |-> 0, length |-> l.k] IN
  CASE l.fullLoad = "none" -> <<>>
    [] l.fullLoad = "A" -> [i \in 1 .. l.rows |-> CopyInA1(i - 1, all, i - 1)]
    [] l.fullLoad = "B" -> [i \in 1 .. l.columns |-> CopyInB1(i - 1, all, i - 1)]
                             \o When(l.bias, [i \in 1 .. l.columns |-> CopyInC1(i - 1, i - 1)])

(* The ranges of k of the outer iterations.  A core's first tile halves    *)
(* its first range, so that mmad can start earlier.                        *)
Ranges(l, first) ==
  LET kL1 == Least(l.k, l.kL1)
      cut == Cut(l.k, kL1)
      half == CeilDiv(kL1, 2)
  IN  IF first /\ l.fullLoad # "A" /\ kL1 \div l.baseK >= 2
        THEN << [from |-> 0, length |-> half, last |-> FALSE],
                [from |-> half, length |-> kL1 - half, last |-> cut[1].last] >> \o Tail(cut)
        ELSE cut

(* Inner iteration of both DoBFullLoadOrAswt and DoAFullLoad.              *)
L0Iteration(l, t, r0, r1, co, loop, l0) ==
  LET pp == l0 % 2
      id == loop % l.l1BufNum
      first == r0.from = 0 /\ r1.from = 0
      needBias == l.bias /\ first
      from == IF needBias THEN C2(loop % 2) ELSE IF first THEN NoBuffer ELSE CO1(co)
      unit == IF l.l0cDB THEN 0
              ELSE IF r0.last /\ r1.last THEN FINAL_ACCUMULATION ELSE NON_FINAL_ACCUMULATION
      a == IF l.fullLoad = "A" THEN CopyInA2(t.row, r0.from + r1.from, r1.length, pp)
                               ELSE CopyInA2(id, r1.from, r1.length, pp)
      b == IF l.fullLoad = "B" THEN CopyInB2(t.column, r0.from + r1.from, r1.length, pp)
                               ELSE CopyInB2(id, r1.from, r1.length, pp)
      bias == When(needBias, <<CopyInC2(IF l.fullLoad = "B" THEN t.column ELSE id, loop % 2)>>)
  IN  <<Wait("M", "MTE1", pp)>>
      \o (IF l.fullLoad = "A" THEN <<b>> \o bias \o <<a>> ELSE <<a>> \o bias \o <<b>>)
      \o <<Set("MTE1", "M", pp), Wait("MTE1", "M", pp),
           Mac("aic", "M", << <<A2(pp), 0>>, <<B2(pp), 0>> >>, r1.length, from, CO1(co), unit),
           Set("M", "MTE1", pp)>>

(* Outer iteration: what is not fully loaded comes to L1 for it.           *)
\* broken variant: a buffer is given back before its last part is read
L1IterationEarly(l, t, r0, co, loop, l0) ==
  LET id == loop % l.l1BufNum
      cut == Cut(r0.length, l.baseK)
      a == When(l.fullLoad # "A", <<CopyInA1(t.row, r0, id)>>)
      b == When(l.fullLoad # "B", <<CopyInB1(t.column, r0, id)>>)
      bias == When(l.bias /\ l.fullLoad # "B" /\ r0.from = 0, <<CopyInC1(t.column, id)>>)
  IN  <<Wait("MTE1", "MTE2", id)>> \o a \o b \o bias
      \o <<Set("MTE2", "MTE1", id), Wait("MTE2", "MTE1", id), Set("MTE1", "MTE2", id)>>
      \o FlattenSeq([i \in DOMAIN cut |-> L0Iteration(l, t, r0, cut[i], co, loop, l0 + i - 1)])

L1Iteration(l, t, r0, co, loop, l0) ==
  LET id == loop % l.l1BufNum
      cut == Cut(r0.length, l.baseK)
      a == When(l.fullLoad # "A", <<CopyInA1(t.row, r0, id)>>)
      b == When(l.fullLoad # "B", <<CopyInB1(t.column, r0, id)>>)
      bias == When(l.bias /\ l.fullLoad # "B" /\ r0.from = 0, <<CopyInC1(t.column, id)>>)
  IN  <<Wait("MTE1", "MTE2", id)>>
      \o (IF l.fullLoad = "A" THEN b \o bias ELSE a \o bias \o b)
      \o <<Set("MTE2", "MTE1", id), Wait("MTE2", "MTE1", id)>>
      \o FlattenSeq([i \in DOMAIN cut |-> L0Iteration(l, t, r0, cut[i], co, loop, l0 + i - 1)])
      \o <<Set("MTE1", "MTE2", id)>>

(* The L0C buffer of tile number n of a core, and its unit flag.           *)
L0C(l, n) == IF l.l0cDB THEN n % 2 ELSE 0
Unit(l) == IF l.l0cDB THEN 0 ELSE FINAL_ACCUMULATION

(* One call of operator(): tile number n of the core, from counters loop   *)
(* and l0 on; copyOut is the fixpipe of the kernel.                        *)
TileOf(l, t, n, loop, l0, copyOut) ==
  LET co == L0C(l, n)
      ranges == Ranges(l, t.first)
      pieces == Before([i \in DOMAIN ranges |-> CeilDiv(ranges[i].length, l.baseK)])
  IN  When(l.l0cDB, <<Wait("FIX", "M", co)>>)
      \o FlattenSeq([i \in DOMAIN ranges |->
           L1Iteration(l, t, ranges[i], co, loop + i - 1, l0 + pieces[i])])
      \o When(l.l0cDB, <<Set("M", "FIX", co), Wait("M", "FIX", co)>>)
      \o <<copyOut>>
      \o When(l.l0cDB, <<Set("FIX", "M", co)>>)

(* abL1LoopCnt_ and l0PingPong_ when tile n begins.                        *)
LoopsBefore(l) == Before([n \in DOMAIN l.tiles |-> Len(Ranges(l, l.tiles[n].first))])
PiecesBefore(l) ==
  Before([n \in DOMAIN l.tiles |->
    LET r == Ranges(l, l.tiles[n].first)
        p == [i \in DOMAIN r |-> CeilDiv(r[i].length, l.baseK)]
    IN  Before(p)[Len(p)] + p[Len(p)]])

(* KernelMatmulWithoutQue: tiles go to the output.                         *)
Kernel(l) ==
  Construct \o When(l.tiles # <<>>, FullLoad(l))
    \o FlattenSeq([n \in DOMAIN l.tiles |->
         LET t == l.tiles[n]
             copyOut == Store("aic", "FIX", CO1(L0C(l, n - 1)), <<t.row, t.column>>, Unit(l))
         IN  TileOf(l, t, n - 1, LoopsBefore(l)[n], PiecesBefore(l)[n], copyOut)])
    \o Destruct

Complete(l, row, column) ==
  (IF l.bias THEN BiasOf(column) ELSE <<>>) \o Products(row, column, 0, l.k)

Result(l) ==
  [b \in {<<l.tiles[n].row, l.tiles[n].column>> : n \in DOMAIN l.tiles} |->
     Complete(l, b[1], b[2])]
===============================================================================
