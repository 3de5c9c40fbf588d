----------------------------- MODULE WeightPrologue ----------------------------
(***************************************************************************)
(* What KernelMatmulMixWeightPrologue hands to the pipes of a cube core and*)
(* its two vector cores: the vector cores cast chunks of the weight B and  *)
(* write them to the cube core's L1, the cube core loads A and the scales  *)
(* itself and multiplies (block_prologue_b_cast_scsc.h,                    *)
(* block_mmad_b_prologue_mx.h).                                            *)
(*                                                                         *)
(* A launch has weightNz, bias, l1BufNum (4, 2 or 1; never 2 for weightNz),*)
(* scaleFactor, k, kL1 and baseK (kL1 a multiple of baseK), nUbSize and    *)
(* kUbSize (what a vector core casts at a time), and tiles with their row, *)
(* column and number n of columns.                                         *)
(***************************************************************************)
EXTENDS Instructions

DOUBLE_BUFFER == 2
QUADRUPLE_BUFFER == 4
SYNC_AIC_FLAG == 1
SYNC_AIV_AIC_FLAG == 2
FLAG_ID_MAX == 16
SCALE_A == 4     \* eventIdsScaleAMte1ToMte2_[0]
SCALE_B == 6     \* eventIdsScaleBMte1ToMte2_[0]

Set(p, q, id)  == SetFlag("aic", p, q, id)
Wait(p, q, id) == WaitFlag("aic", p, q, id)

A1(id)     == <<"aic", "A1", id>>       A2(id) == <<"aic", "A2", id>>
B1(id, h)  == <<"aic", "B1", 2 * id + h>>       \* in two halves
B2(id)     == <<"aic", "B2", id>>
ScaleA1(i) == <<"aic", "scaleA1", i>>   ScaleB1(i) == <<"aic", "scaleB1", i>>
C1(id)     == <<"aic", "C1", id>>       C2(id) == <<"aic", "C2", id>>
CO1(id)    == <<"aic", "CO1", id>>

Aiv(sub) == <<"aiv0", "aiv1">>[sub + 1]
In(sub, ub)  == <<Aiv(sub), "in", ub>>
Out(sub, ub) == <<Aiv(sub), "out", ub>>

(* The vector cores that fill L1 buffer id.                                *)
Fillers(l, id) ==
  IF l.l1BufNum = QUADRUPLE_BUFFER THEN <<1, 0>>
  ELSE IF l.l1BufNum = DOUBLE_BUFFER THEN <<id>>
  ELSE <<0>>

NotifyVector(l, id) ==
  [i \in DOMAIN Fillers(l, id) |->
     CrossCoreSetFlag("aic", "MTE1", Aiv(Fillers(l, id)[i]), SYNC_AIV_AIC_FLAG)]
WaitForVector(l, id) ==
  [i \in DOMAIN Fillers(l, id) |->
     CrossCoreWaitFlag("aic", "MTE1", SYNC_AIC_FLAG + Fillers(l, id)[i] * FLAG_ID_MAX)]

WaitForCube(sub) == CrossCoreWaitFlag(Aiv(sub), "MTE3", SYNC_AIV_AIC_FLAG)
NotifyCube(sub)  == CrossCoreSetFlag(Aiv(sub), "MTE3", "aic", SYNC_AIC_FLAG + sub * FLAG_ID_MAX)

Chunks(l) == Cut(l.k, l.kL1)
TileCount(l) == Len(Chunks(l))

(* Buffer of chunk i of tile number n, on either side; tiles all have the  *)
(* same chunks of k.                                                       *)
BufferOf(l, n, i) == ((n - 1) * TileCount(l) + i - 1) % l.l1BufNum
ScaleBufferOf(l, n, i) ==
  ((n - 1) * CeilDiv(TileCount(l), l.scaleFactor) + (i - 1) \div l.scaleFactor) % 2

-------------------------------------------------------------------------------
(* The cube core (BlockMmad).                                              *)
Construct(l) ==
  FlattenSeq([i \in 1 .. l.l1BufNum |-> NotifyVector(l, i - 1) \o <<Set("MTE1", "MTE2", i - 1)>>])
    \o [i \in 1 .. 4 |-> Set("MTE1", "MTE2", SCALE_A + i - 1)]
    \o [i \in 1 .. 2 |-> Set("M", "MTE1", i - 1)] \o [i \in 1 .. 2 |-> Set("FIX", "M", i - 1)]
Destruct(l) ==
  [i \in 1 .. 4 |-> Wait("MTE1", "MTE2", SCALE_A + i - 1)]
    \o [i \in 1 .. 2 |-> Wait("M", "MTE1", i - 1)] \o [i \in 1 .. 2 |-> Wait("FIX", "M", i - 1)]
    \o [i \in 1 .. l.l1BufNum |-> Wait("MTE1", "MTE2", i - 1)]

(* A range of A or B goes to L0 with its scales.                           *)
ScalesFrom(l, i, r) == r.from - l.scaleFactor * l.kL1 * ((i - 1) \div l.scaleFactor)
CopyA(id, sc, r0, scales, pp) ==
  SliceScaled("aic", "MTE1", << <<A1(id), r0.from>>, <<ScaleA1(sc), scales + r0.from>> >>,
              r0.length, A2(pp))
CopyB(id, sc, r0, scales, pp) ==
  SliceScaled("aic", "MTE1", << <<B1(id, 0), r0.from>>, <<B1(id, 1), r0.from>>,
                                <<ScaleB1(sc), scales + r0.from>> >>,
              r0.length, B2(pp))

(* One chunk of L1, range by range; the number of a range that picks its   *)
(* L0 buffers grows by 0, 1, 2, ... (kFractalIdx += kL0Idx).               *)
Iterate(l, n, i, r) ==
  LET id  == BufferOf(l, n, i)
      sc  == ScaleBufferOf(l, n, i)
      co  == CO1((n - 1) % 2)
      cut == Cut(r.length, l.baseK)
      number(j) == ((i - 1) * l.kL1) \div l.baseK + (j * (j - 1)) \div 2
      from(j) == IF number(j) # 0 THEN co ELSE IF l.bias THEN C2(0) ELSE NoBuffer
  IN  FlattenSeq([j \in DOMAIN cut |->
        LET pp == number(j) % 2
        IN  <<Wait("M", "MTE1", pp), CopyA(id, sc, cut[j], ScalesFrom(l, i, r), pp),
              CopyB(id, sc, cut[j], ScalesFrom(l, i, r), pp)>>
            \o When(number(j) = 0, <<Wait("FIX", "M", (n - 1) % 2)>>)
            \o When(l.bias, <<Copy("aic", "MTE1", C1((n - 1) % 2), {C2(pp)}, 0)>>)
            \o <<Set("MTE1", "M", pp), Wait("MTE1", "M", pp),
                 Mac("aic", "M", << <<A2(pp), 0>>, <<B2(pp), 0>> >>, cut[j].length, from(j), co, 0),
                 Set("M", "MTE1", pp)>>])

Scales(matrix, index, l, r) ==
  Units(matrix, index, r.from, Least(l.kL1 * l.scaleFactor, l.k - r.from))

Chunk(l, n, i) ==
  LET t  == l.tiles[n]
      r  == Chunks(l)[i]
      id == BufferOf(l, n, i)
      sc == ScaleBufferOf(l, n, i)
      firstOfScales == (i - 1) % l.scaleFactor = 0
      lastOfScales  == i % l.scaleFactor = 0 \/ r.last
  IN  <<Wait("MTE1", "MTE2", id)>>
      \o When(firstOfScales, <<Wait("MTE1", "MTE2", SCALE_A + sc),
                               Load("aic", "MTE2", Scales("scaleA", t.row, l, r), ScaleA1(sc))>>)
      \o <<Load("aic", "MTE2", Units("A", t.row, r.from, r.length), A1(id))>>
      \o When(l.bias /\ i = 1, <<Load("aic", "MTE2", BiasOf(t.column), C1((n - 1) % 2))>>)
      \o When(firstOfScales, <<Wait("MTE1", "MTE2", SCALE_B + sc),
                               Load("aic", "MTE2", Scales("scaleB", t.column, l, r), ScaleB1(sc))>>)
      \o WaitForVector(l, id)
      \o <<Set("MTE2", "MTE1", 0), Wait("MTE2", "MTE1", 0)>>
      \o Iterate(l, n, i, r)
      \o NotifyVector(l, id) \o <<Set("MTE1", "MTE2", id)>>
      \o When(lastOfScales, <<Set("MTE1", "MTE2", SCALE_A + sc), Set("MTE1", "MTE2", SCALE_B + sc)>>)

GetTensorC(l, n) ==
  LET t  == l.tiles[n]
      co == (n - 1) % 2
  IN  <<Set("M", "FIX", 0), Wait("M", "FIX", 0),
        Store("aic", "FIX", CO1(co), <<t.row, t.column>>, 0), Set("FIX", "M", co)>>

Aic(l) ==
  Construct(l)
    \o FlattenSeq([n \in DOMAIN l.tiles |->
         FlattenSeq([i \in 1 .. TileCount(l) |-> Chunk(l, n, i)]) \o GetTensorC(l, n)])
    \o Destruct(l)

-------------------------------------------------------------------------------
(* A vector core (BlockPrologue).                                          *)

(* With four buffers the vector cores share a chunk that is larger than    *)
(* what one of them holds, or cast all of it each; with fewer a chunk is   *)
(* cast by one of them.                                                    *)
IsSplit(l, t, r) ==
  /\ l.l1BufNum = QUADRUPLE_BUFFER
  /\ IF l.weightNz THEN r.length > l.kUbSize ELSE t.n > l.nUbSize
Casts(l, n, i, sub) == \E f \in ToSet(Fillers(l, BufferOf(l, n, i))) : f = sub

(* idx: how many chunks this core has cast before.                         *)
ProcessL1(l, n, i, sub, idx) ==
  LET t  == l.tiles[n]
      r  == Chunks(l)[i]
      id == BufferOf(l, n, i)
      ub == idx % l.l1BufNum
      reused == idx >= l.l1BufNum
      set(p, q)  == SetFlag(Aiv(sub), p, q, ub)
      wait(p, q) == WaitFlag(Aiv(sub), p, q, ub)
  IN  When(reused, <<wait("V", "MTE2")>>)
      \o <<Load(Aiv(sub), "MTE2", Units("B", t.column, r.from, r.length), In(sub, ub)),
           set("MTE2", "V")>>
      \o When(reused, <<wait("MTE3", "V")>>)
      \o <<wait("MTE2", "V"), Copy(Aiv(sub), "V", In(sub, ub), {Out(sub, ub)}, 0),
           set("V", "MTE3"), set("V", "MTE2"), wait("V", "MTE3"),
           Copy(Aiv(sub), "MTE3", Out(sub, ub),
                IF IsSplit(l, t, r) THEN {B1(id, sub)} ELSE {B1(id, 0), B1(id, 1)}, 0),
           set("MTE3", "V")>>

VectorProcess(l, n, i, sub, idx) ==
  <<WaitForCube(sub)>> \o ProcessL1(l, n, i, sub, idx) \o <<NotifyCube(sub)>>

(* The chunks <<tile, chunk>> that a vector core casts, in order.          *)
Cast(l, sub) ==
  SelectSeq(FlattenSeq([n \in DOMAIN l.tiles |-> [i \in 1 .. TileCount(l) |-> <<n, i>>]]),
            LAMBDA x : Casts(l, x[1], x[2], sub))

(* The destructor waits for the buffers used, and for the cube core to     *)
(* give back the buffers of L1 - with two of them, for one of them only.   *)
\* broken variant: the first vector core takes back one buffer for both, however many there are
DestructAivOnce(l, sub) ==
  LET used == Least(Len(Cast(l, sub)), l.l1BufNum)
  IN  FlattenSeq([i \in 1 .. used |-> <<WaitFlag(Aiv(sub), "V", "MTE2", i - 1),
                                        WaitFlag(Aiv(sub), "MTE3", "V", i - 1)>>])
      \o When(sub = 0, <<WaitForCube(sub)>>)

DestructAiv(l, sub) ==
  LET used == Least(Len(Cast(l, sub)), l.l1BufNum)
      waits == IF l.l1BufNum = QUADRUPLE_BUFFER THEN QUADRUPLE_BUFFER
               ELSE IF sub = 0 THEN 1 ELSE 0
  IN  FlattenSeq([i \in 1 .. used |-> <<WaitFlag(Aiv(sub), "V", "MTE2", i - 1),
                                        WaitFlag(Aiv(sub), "MTE3", "V", i - 1)>>])
      \o [i \in 1 .. waits |-> WaitForCube(sub)]

AivRun(l, sub) ==
  LET cast == Cast(l, sub)
  IN  FlattenSeq([x \in DOMAIN cast |-> VectorProcess(l, cast[x][1], cast[x][2], sub, x - 1)])
        \o DestructAiv(l, sub)

-------------------------------------------------------------------------------
Kernel(l) == Aic(l) \o AivRun(l, 0) \o AivRun(l, 1)

Result(l) ==
  [b \in {<<l.tiles[n].row, l.tiles[n].column>> : n \in DOMAIN l.tiles} |->
     (IF l.bias THEN BiasOf(b[2]) ELSE <<>>)
       \o [k \in 1 .. l.k |->
             << << <<"A", b[1], k - 1>>, <<"scaleA", b[1], k - 1>> >>,
                << <<"B", b[2], k - 1>>, <<"B", b[2], k - 1>>, <<"scaleB", b[2], k - 1>> >> >>]]

(* How many chunks of L1, or tiles in L0C, a flag may be set ahead for: one*)
(* flag stands for all of the buffers, or there is one for each.           *)
BuffersBehind(l, flag) ==
  CASE flag[3] = "cross" -> IF l.l1BufNum = QUADRUPLE_BUFFER THEN QUADRUPLE_BUFFER ELSE 1
    [] flag[2] = "MTE2" /\ flag[3] = "MTE1" -> l.l1BufNum
    [] flag[2] = "M" /\ flag[3] = "FIX" -> 2
    [] OTHER -> 1
===============================================================================
