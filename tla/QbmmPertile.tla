------------------------------ MODULE QbmmPertile ------------------------------
(***************************************************************************)
(* What QuantMmBatchPertile hands to the pipes of a cube core and its two  *)
(* vector cores: the cube core (block_mmad_pertile.h) multiplies one base  *)
(* block of k at a time and leaves it in a buffer of both vector cores,    *)
(* which scale it and add it up (block_epilogue_pertile.h).                *)
(*                                                                         *)
(* A launch has pertile (one x1 scale per line, else one per block), cast  *)
(* (the output is not of the accumulator's type), stepKa, stepKb and k in  *)
(* base blocks, scaleKMax (GMM_MAX_STEP_SCALEA_K) and tiles; a tile its    *)
(* row, column, m and n.                                                   *)
(***************************************************************************)
EXTENDS Instructions

GMM_AIV_SYNC_AIC_FLAG == 6
GMM_AIC_SYNC_AIV_FLAG == 8
GMM_FLAG_ID_MAX == 16
GMM_CUBE_SYNC_MTE1_FLAG == 3
GMM_BUFFER_NUM == 2
PER_BLOCK_SIZE == 128
UB_TWO_BANK_ELEMS_B32 == 128
UB_SUB_BANK_ELEMS_B32 == 64
UB_SUB_BANK_NUM == 2
ONE_BLK_SIZE == 32
BLOCK_CUBE == 16
TaskRation == 2

Align(a, b) == CeilDiv(a, b) * b

Set(p, q, id)  == SetFlag("aic", p, q, id)
Wait(p, q, id) == WaitFlag("aic", p, q, id)

Aiv(sub) == <<"aiv0", "aiv1">>[sub + 1]
L1(matrix, id) == <<"aic", IF matrix = "A" THEN "A1" ELSE "B1", id>>
A2(id)  == <<"aic", "A2", id>>
B2(id)  == <<"aic", "B2", id>>
CO1(id) == <<"aic", "CO1", id>>
MmRes(sub, id)   == <<Aiv(sub), "mmRes", id>>
MmAdd(sub)       == <<Aiv(sub), "mmAdd", 0>>
UbRes(sub, id)   == <<Aiv(sub), "ubRes", id>>
X1Scale(sub, id) == <<Aiv(sub), "x1Scale", id>>

(* The cube core: constructor and destructor of BlockMmadGmm.              *)
Construct ==
  [i \in 1 .. 4 |-> Set("MTE1", "MTE2", i - 1)]
    \o [i \in 1 .. 2 |-> Set("M", "MTE1", i - 1 + GMM_CUBE_SYNC_MTE1_FLAG)]
    \o [i \in 1 .. 2 |-> Set("FIX", "M", i - 1)]
Destruct ==
  [i \in 1 .. 4 |-> Wait("MTE1", "MTE2", i - 1)]
    \o [i \in 1 .. 2 |-> Wait("M", "MTE1", i - 1 + GMM_CUBE_SYNC_MTE1_FLAG)]
    \o [i \in 1 .. 2 |-> Wait("FIX", "M", i - 1)]

WaitForVector(id) ==
  [sub \in 1 .. 2 |-> CrossCoreWaitFlag("aic", "FIX",
                        GMM_AIC_SYNC_AIV_FLAG + id + (sub - 1) * GMM_FLAG_ID_MAX)]
NotifyVector(id) ==
  [sub \in 1 .. 2 |-> CrossCoreSetFlag("aic", "FIX", Aiv(sub - 1), GMM_AIV_SYNC_AIC_FLAG + id)]

(* CopyInA1Nd2Nz and CopyInB1Nd2Nz: the flags of B follow those of A.      *)
EventId(matrix, id) == IF matrix = "A" THEN id ELSE id + GMM_BUFFER_NUM
CopyIn(matrix, t, r, id) ==
  LET event == EventId(matrix, id)
      units == Units(matrix, IF matrix = "A" THEN t.row ELSE t.column, r.from, r.length)
  IN  <<Wait("MTE1", "MTE2", event), Load("aic", "MTE2", units, L1(matrix, id)),
        Set("MTE2", "MTE1", event), Wait("MTE2", "MTE1", event)>>

(* AicBaseMadProcess for one base block, the number-th since the launch:   *)
(* l0PingPongID_ and crossPingPongID_ both change with every one, and      *)
(* needAicWait_ is on once both buffers of the vector cores were used.     *)
\* broken variant: the buffers of the vector cores are always taken for free
AicBaseUnasked(a, b, number) ==
  LET pp == number % 2 IN
  <<Wait("M", "MTE1", pp + GMM_CUBE_SYNC_MTE1_FLAG),
    Slice("aic", "MTE1", a.buffer, a.offset, 1, A2(pp)),
    Slice("aic", "MTE1", b.buffer, b.offset, 1, B2(pp)),
    Set("MTE1", "M", pp), Wait("MTE1", "M", pp), Wait("FIX", "M", pp),
    Mac("aic", "M", << <<A2(pp), 0>>, <<B2(pp), 0>> >>, 1, NoBuffer, CO1(pp), 0),
    Set("M", "MTE1", pp + GMM_CUBE_SYNC_MTE1_FLAG), Set("M", "FIX", pp), Wait("M", "FIX", pp),
    Copy("aic", "FIX", CO1(pp), {MmRes(0, pp), MmRes(1, pp)}, 0)>>
  \o NotifyVector(pp) \o <<Set("FIX", "M", pp)>>

AicBase(a, b, number) ==
  LET pp == number % 2 IN
  <<Wait("M", "MTE1", pp + GMM_CUBE_SYNC_MTE1_FLAG),
    Slice("aic", "MTE1", a.buffer, a.offset, 1, A2(pp)),
    Slice("aic", "MTE1", b.buffer, b.offset, 1, B2(pp)),
    Set("MTE1", "M", pp), Wait("MTE1", "M", pp), Wait("FIX", "M", pp),
    Mac("aic", "M", << <<A2(pp), 0>>, <<B2(pp), 0>> >>, 1, NoBuffer, CO1(pp), 0),
    Set("M", "MTE1", pp + GMM_CUBE_SYNC_MTE1_FLAG), Set("M", "FIX", pp), Wait("M", "FIX", pp)>>
  \o When(number >= 2, WaitForVector(pp))
  \o <<Copy("aic", "FIX", CO1(pp), {MmRes(0, pp), MmRes(1, pp)}, 0)>>
  \o NotifyVector(pp) \o <<Set("FIX", "M", pp)>>

(* operator(): the matrix with the larger step is copied in by the outer   *)
(* loop, the other one by the inner loop.                                  *)
Larger(l)  == IF l.stepKa >= l.stepKb THEN "A" ELSE "B"
Smaller(l) == IF l.stepKa >= l.stepKb THEN "B" ELSE "A"
MaxStepK(l) == IF l.stepKa >= l.stepKb THEN l.stepKa ELSE l.stepKb
MinStepK(l) == Least(l.stepKa, l.stepKb)

Inner(l) ==
  LET outer == Cut(l.k, MaxStepK(l)) IN
  FlattenSeq([o \in DOMAIN outer |->
    LET inner == Cut(outer[o].length, MinStepK(l))
    IN  [i \in DOMAIN inner |->
           LET from == outer[o].from + inner[i].from
           IN  [outer |-> outer[o], number |-> o - 1, from |-> from,
                length |-> Least(MinStepK(l), l.k - from), offset |-> inner[i].from,
                first |-> i = 1, last |-> inner[i].last]]])

Iteration(l, t, r, outerId, innerId, number) ==
  LET large(b) == [buffer |-> L1(Larger(l), outerId), offset |-> r.offset + b]
      small(b) == [buffer |-> L1(Smaller(l), innerId), offset |-> b]
      base(b) == IF Larger(l) = "A" THEN AicBase(large(b), small(b), number + b)
                                    ELSE AicBase(small(b), large(b), number + b)
  IN  When(r.first, CopyIn(Larger(l), t, r.outer, outerId))
      \o CopyIn(Smaller(l), t, r, innerId)
      \o FlattenSeq([b \in 1 .. r.length |-> base(b - 1)])
      \o <<Set("MTE1", "MTE2", EventId(Smaller(l), innerId))>>
      \o When(r.last, <<Set("MTE1", "MTE2", EventId(Larger(l), outerId))>>)

AicTile(l, n) ==
  LET inner == Inner(l)
      outers == CeilDiv(l.k, MaxStepK(l))
      blocks == Before([i \in DOMAIN inner |-> inner[i].length])
  IN  FlattenSeq([i \in DOMAIN inner |->
        Iteration(l, l.tiles[n], inner[i], ((n - 1) * outers + inner[i].number) % 2,
                  ((n - 1) * Len(inner) + i - 1) % 2, (n - 1) * l.k + blocks[i])])

(* End(): both buffers of the vector cores, as far as they were used.      *)
End(l) ==
  LET baseCount == Len(l.tiles) * l.k IN
  When(baseCount >= 1, WaitForVector(0)) \o When(baseCount > 1, WaitForVector(1))

Aic(l) == Construct \o FlattenSeq([n \in DOMAIN l.tiles |-> AicTile(l, n)]) \o End(l) \o Destruct

-------------------------------------------------------------------------------
(* UpdatePerBlockUBParam: which part of a tile of m lines and n columns is *)
(* vector core sub's, and in which pieces (ND) it lies.                    *)
SplitN(m, n) == n > PER_BLOCK_SIZE \/ m = 1
NdNum(m, n) ==
  IF n > (IF SplitN(m, n) THEN UB_TWO_BANK_ELEMS_B32 ELSE UB_SUB_BANK_ELEMS_B32) THEN 2 ELSE 1
SingleN(m, n) ==
  LET nd == NdNum(m, n)
      base == IF ~SplitN(m, n) THEN BLOCK_CUBE * nd
              ELSE IF n > PER_BLOCK_SIZE THEN PER_BLOCK_SIZE ELSE ONE_BLK_SIZE * nd
  IN  (Align(n, base) \div nd) \div (IF SplitN(m, n) THEN TaskRation ELSE 1)
SingleM(m, n) == IF SplitN(m, n) THEN m ELSE CeilDiv(m, TaskRation)

ValidM(m, n, sub) == IF SplitN(m, n) \/ sub = 0 THEN SingleM(m, n) ELSE m - SingleM(m, n)
OffsetM(m, n, sub) == IF SplitN(m, n) THEN 0 ELSE sub * SingleM(m, n)
OffsetN(m, n, sub, nd) ==
  IF SplitN(m, n) THEN (sub + nd * UB_SUB_BANK_NUM) * SingleN(m, n) ELSE nd * SingleN(m, n)
ValidN(m, n, sub, nd) ==
  IF n < OffsetN(m, n, sub, nd) THEN 0
  ELSE Least(SingleN(m, n), n - OffsetN(m, n, sub, nd))

(* What AivPostProcess writes: rectangles, each with its number of event   *)
(* and buffer; all columns at once where two ND lie side by side, and then *)
(* half of the lines at a time if they are cast; none that holds nothing.   *)
Piece(number, m0, m, n0, n) == [number |-> number, at |-> <<m0, m, n0, n>>]
Filled(piece) == When(piece.at[2] > 0 /\ piece.at[4] > 0, <<piece>>)
Pieces(cast, m, n, sub) ==
  LET validM == ValidM(m, n, sub)
      m0 == OffsetM(m, n, sub)
      sumN == ValidN(m, n, sub, 0) + ValidN(m, n, sub, 1)
      half == CeilDiv(validM, GMM_BUFFER_NUM)
      nd(i) == Piece(i, m0, validM, OffsetN(m, n, sub, i), ValidN(m, n, sub, i))
      sideBySide == NdNum(m, n) = 2 /\ ~SplitN(m, n)
  IN  IF ~sideBySide THEN Filled(nd(0)) \o When(NdNum(m, n) = 2, Filled(nd(1)))
      ELSE IF cast THEN Filled(Piece(0, m0, half, 0, sumN)) \o Filled(Piece(1, m0 + half, validM - half, 0, sumN))
      ELSE Filled(Piece(0, m0, validM, 0, sumN))

(* How the fixpipe of the cube core shares the same tile out               *)
(* (UpdatePerBlockMmParam): ndNum, and lines or columns of one ND of both  *)
(* vector cores together.                                                  *)
FixpipeM(m, n) == IF SplitN(m, n) THEN m ELSE Align(m, TaskRation)
FixpipeN(m, n) ==
  (IF SplitN(m, n)
     THEN Align(n, IF n > PER_BLOCK_SIZE THEN PER_BLOCK_SIZE ELSE ONE_BLK_SIZE * NdNum(m, n))
     ELSE Align(n, BLOCK_CUBE * NdNum(m, n)))
  \div NdNum(m, n)

-------------------------------------------------------------------------------
(* A vector core.                                                          *)
ConstructAiv(l, sub) ==
  [i \in 1 .. 2 |-> SetFlag(Aiv(sub), "V", "MTE2", i - 1)]
    \o When(l.cast, [i \in 1 .. 2 |-> SetFlag(Aiv(sub), "MTE3", "V", i - 1)])
DestructAiv(l, sub) ==
  [i \in 1 .. 2 |-> WaitFlag(Aiv(sub), "V", "MTE2", i - 1)]
    \o When(l.cast, [i \in 1 .. 2 |-> WaitFlag(Aiv(sub), "MTE3", "V", i - 1)])

X1ScaleKElem(l) == Least(l.scaleKMax, l.k)

CopyInX1Scale(l, t, kOffset, sub, id) ==
  <<WaitFlag(Aiv(sub), "V", "MTE2", id),
    Load(Aiv(sub), "MTE2",
         Units("x1", t.row, kOffset, Least(X1ScaleKElem(l), l.k - kOffset)), X1Scale(sub, id)),
    SetFlag(Aiv(sub), "MTE2", "V", id), WaitFlag(Aiv(sub), "MTE2", "V", id)>>

(* Base block j of a tile, the number-th since the launch.                 *)
AivBase(l, t, j, number, id, sub) ==
  LET elem == X1ScaleKElem(l)
      srcs == << <<MmRes(sub, number % 2), 0>> >>
                \o When(l.pertile, << <<X1Scale(sub, id), j % elem>> >>)
  IN  When(l.pertile /\ j % elem = 0, CopyInX1Scale(l, t, j, sub, id))
      \o <<CrossCoreWaitFlag(Aiv(sub), "V", GMM_AIV_SYNC_AIC_FLAG + (number % 2)),
           Mac(Aiv(sub), "V", srcs, 1, IF j = 0 THEN NoBuffer ELSE MmAdd(sub), MmAdd(sub), 0)>>
      \o When(l.pertile /\ (j % elem = elem - 1 \/ j = l.k - 1),
              <<SetFlag(Aiv(sub), "V", "MTE2", id)>>)
      \o <<CrossCoreSetFlag(Aiv(sub), "V", "aic",
             GMM_AIC_SYNC_AIV_FLAG + (number % 2) + sub * GMM_FLAG_ID_MAX)>>

(* CopyOut and CastAndCopyOut.                                             *)
CopyOut(t, p, sub) == Store(Aiv(sub), "MTE3", MmAdd(sub), <<t.row, t.column, p.at>>, 0)
CastAndCopyOut(t, p, sub) ==
  <<WaitFlag(Aiv(sub), "MTE3", "V", p.number),
    Copy(Aiv(sub), "V", MmAdd(sub), {UbRes(sub, p.number)}, 0),
    SetFlag(Aiv(sub), "V", "MTE3", p.number), WaitFlag(Aiv(sub), "V", "MTE3", p.number),
    Store(Aiv(sub), "MTE3", UbRes(sub, p.number), <<t.row, t.column, p.at>>, 0),
    SetFlag(Aiv(sub), "MTE3", "V", p.number)>>

AivPostProcess(l, t, sub) ==
  LET pieces == Pieces(l.cast, t.m, t.n, sub) IN
  IF ValidM(t.m, t.n, sub) = 0 THEN <<>>
  ELSE IF l.cast THEN FlattenSeq([i \in DOMAIN pieces |-> CastAndCopyOut(t, pieces[i], sub)])
  ELSE <<SetFlag(Aiv(sub), "V", "MTE3", 0), WaitFlag(Aiv(sub), "V", "MTE3", 0)>>
         \o [i \in DOMAIN pieces |-> CopyOut(t, pieces[i], sub)]
         \o <<SetFlag(Aiv(sub), "MTE3", "V", 0), WaitFlag(Aiv(sub), "MTE3", "V", 0)>>

AivTile(l, n, sub) ==
  LET t == l.tiles[n]
      groups == CeilDiv(l.k, X1ScaleKElem(l))
  IN  FlattenSeq([j \in 1 .. l.k |->
        AivBase(l, t, j - 1, (n - 1) * l.k + j - 1,
                ((n - 1) * groups + (j - 1) \div X1ScaleKElem(l)) % 2, sub)])
      \o AivPostProcess(l, t, sub)

AivRun(l, sub) ==
  ConstructAiv(l, sub) \o FlattenSeq([n \in DOMAIN l.tiles |-> AivTile(l, n, sub)])
    \o DestructAiv(l, sub)

Kernel(l) == Aic(l) \o AivRun(l, 0) \o AivRun(l, 1)

(* Each piece holds the sum over k of the products, scaled if per tile.    *)
Scaled(l, row, column) ==
  [j \in 1 .. l.k |-> << <<<<"A", row, j - 1>>, <<"B", column, j - 1>>>> >>
                        \o When(l.pertile, << <<"x1", row, j - 1>> >>)]
Result(l) ==
  [b \in UNION {{<<l.tiles[n].row, l.tiles[n].column, p.at>> :
                   p \in UNION {ToSet(Pieces(l.cast, l.tiles[n].m, l.tiles[n].n, sub)) : sub \in {0, 1}}} :
                n \in DOMAIN l.tiles} |->
     Scaled(l, b[1], b[2])]
===============================================================================
