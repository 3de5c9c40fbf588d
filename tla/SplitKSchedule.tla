----------------------------- MODULE SplitKSchedule ----------------------------
(***************************************************************************)
(* How the deterministic split-k matmul shares its work out: the host      *)
(* (DoDeterministicMultiCoreSplitKTiling, GetWorkspaceSize) and the index  *)
(* arithmetic of mat_mul_deterministic_splitk_kernel.h.  Every cube core   *)
(* multiplies all of the output, tile by tile, over its own blocks of k    *)
(* into a slice of the workspace, one half of it for every other tile; the *)
(* vector cores share a tile out and add the slices up.                    *)
(*                                                                         *)
(* A problem has m, n, cores, order ("NK": iterateOrder 0, or "MK"), l2    *)
(* (nL2Split or mL2Split) and adaptive (ADAPTIVE_DETERMINISTIC_SPLIT_K is  *)
(* enabled).  The output is addressed linearly, row * n + column, and a    *)
(* half of a slice from 0.                                                 *)
(***************************************************************************)
EXTENDS SlidingWindow

CONSTANTS
  Ratio,      \* NUM_AIV_TO_AIC_RATIO
  Block33,    \* stepM * baseM and stepN * baseN of the 3 by 3 algorithm (384)
  Block,      \* BLOCK (128), divides Block33
  Row256,     \* floats in 256 bytes (64), divides Block
  Align16,    \* BASIC_ALIGN_16, and the side of an NZ block
  DataSize    \* floats in a quarter of UB (12288), a multiple of Block33

(* Of IsNkOrder and of the adaptive case, what the arithmetic depends on;  *)
(* their other conditions choose between ways that are both right.         *)
HostAllows(p) ==
  /\ p.order = "NK" => p.m > p.n
  /\ p.adaptive => p.order = "MK" /\ p.m < p.n /\ p.m <= Block \div 2

(* GetMoreMultiCoreSplitKArgs: VEC_NZ2ND_UNALIGNOUT, or BASE.              *)
UnalignOut(p) == p.n > Block /\ p.m > Block /\ p.n % Align16 # 0

(* An axis too long for L2 is cut into even lengths, rounded up.           *)
L2Cut(length, l2) ==
  IF length <= l2 THEN length
  ELSE Align(CeilDiv(length, CeilDiv(length, Align(l2, Block))), Block)

Tiling(p) ==
  [m |-> p.m, n |-> p.n, cores |-> p.cores, order |-> p.order, l2 |-> p.l2, adaptive |-> p.adaptive,
   singleM |-> IF p.order = "NK" THEN L2Cut(p.m, p.l2)
               ELSE IF p.adaptive THEN Least(Block33, Align(p.m, Align16)) ELSE Block33,
   singleN |-> IF p.order = "NK" THEN Block33 ELSE L2Cut(p.n, p.l2),
   nz |-> UnalignOut(p)]

Larger(a, b) == IF a > b THEN a ELSE b

(* GetDeterministicSplitKWorkspaceSize: floats per core and half.          *)
HostSingleSize(s) ==
  IF s.nz THEN Larger(Align(s.m, Align16), s.singleM) * Larger(Align(s.n, Align16), s.singleN)
  ELSE s.singleN * s.singleM

-------------------------------------------------------------------------------
(* MatMulKernelDeterministicSplitK.                                        *)
IsL2Split(s) == IF s.order = "NK" THEN s.m # s.singleM ELSE s.n # s.singleN

SingleSize(s) ==
  IF s.nz THEN Larger(Align(s.m, Align16), s.singleM) * Larger(Align(s.n, Align16), s.singleN)
  ELSE IF IsL2Split(s) THEN s.singleM * s.singleN
  ELSE IF s.order = "NK" THEN s.singleN * s.m
  ELSE s.singleM * s.n

(* The blocks of k of cube core i: the first kCnt % cores cores, or all of *)
(* them, take one more than the others.                                    *)
BlocksOfK(kCnt, cores, i) ==
  LET preCoreNum == IF kCnt % cores = 0 THEN cores ELSE kCnt % cores
      round == CeilDiv(kCnt, cores)
      index == IF i < preCoreNum THEN i * round ELSE i * (round - 1) + preCoreNum
  IN  index .. index + (IF i < preCoreNum THEN round ELSE round - 1) - 1

(* The loops over tiles: without a cut for L2 one of them has one round.   *)
MCnt(s) == CeilDiv(s.m, s.singleM)
NCnt(s) == CeilDiv(s.n, s.singleN)
Numbers(s) == 0 .. MCnt(s) * NCnt(s) - 1
MIndex(s, t) == IF s.order = "NK" THEN t \div NCnt(s) ELSE t % MCnt(s)
NIndex(s, t) == IF s.order = "NK" THEN t % NCnt(s) ELSE t \div MCnt(s)

AlignTo256B(base) == IF base < Row256 THEN Row256 ELSE Align(base, Row256)

(* A tile, and the length of its lines in the workspace, which the cube    *)
(* core sets with SetOrgShape; whole lines of C where n is not cut.        *)
ByRows(s) == IsL2Split(s) \/ s.order = "NK"
Tile(s, t) ==
  LET lastN == NIndex(s, t) = NCnt(s) - 1
      cols  == IF lastN THEN s.n - (NCnt(s) - 1) * s.singleN ELSE s.singleN
  IN  [row |-> MIndex(s, t) * s.singleM, column |-> NIndex(s, t) * s.singleN,
       rows |-> IF MIndex(s, t) = MCnt(s) - 1 THEN s.m - (MCnt(s) - 1) * s.singleM ELSE s.singleM,
       cols |-> cols,
       stride |-> IF ~ByRows(s) THEN s.n ELSE IF lastN THEN AlignTo256B(cols) ELSE s.singleN]

(* Where an element of a tile lies in a slice; an NZ tile as columns of    *)
(* blocks, each as high as C.                                              *)
Source(s, tile, i, j) ==
  IF s.nz THEN (j \div Align16) * Align16 * s.m + i * Align16 + (j % Align16)
  ELSE i * tile.stride + j

-------------------------------------------------------------------------------
(* The vector cores: ReduceKInUb and ReduceKInUbL2cache.                   *)
Vectors(s) == 0 .. Ratio * s.cores - 1

CoreSize(s, tile) ==
  IF ByRows(s) THEN CeilDiv(tile.rows, Ratio * s.cores) * tile.stride
  ELSE CeilDiv(SingleSize(s), Ratio * s.cores)

(* Where a tile ends for the vector cores: by lines at its own end,        *)
(* otherwise at the end of the output.                                     *)
OutSize(s, t, tile) ==
  IF ByRows(s) THEN tile.rows * tile.stride ELSE s.m * s.n - t * SingleSize(s)

(* dataSize: whole lines, where lines end.                                 *)
Moved(s, t, tile) ==
  IF IsL2Split(s) \/ (ByRows(s) /\ t = NCnt(s) - 1)
    THEN (DataSize \div tile.stride) * tile.stride ELSE DataSize

(* What fits UB at a time of the part of vector core v: <<from, length>>.  *)
Pieces(s, t, tile, v) ==
  LET from  == v * CoreSize(s, tile)
      size  == Least(CoreSize(s, tile), OutSize(s, t, tile) - from)
      moved == Moved(s, t, tile)
  IN  IF from >= OutSize(s, t, tile) THEN {}
      ELSE {<<from + i * moved, Least(moved, size - i * moved)>> : i \in 0 .. CeilDiv(size, moved) - 1}

(* SplitKVectorProcess and SplitKVectorProcessL2cache: from which address  *)
(* of the slices (1) to which of the output (2) the elements of a piece go.*)
\* broken variant: the last columns are taken to lie as far apart as others
CopyOutWide(s, t, tile, piece) ==
  IF ~ByRows(s) THEN {<<a, a + t * SingleSize(s)>> : a \in piece[1] .. piece[1] + piece[2] - 1}
  ELSE LET row    == tile.row + piece[1] \div s.singleN
           column == tile.column + (piece[1] % s.singleN)
       IN  {<<piece[1] + i * s.singleN + j, (row + i) * s.n + column + j>> :
              i \in 0 .. piece[2] \div s.singleN - 1, j \in 0 .. tile.cols - 1}

CopyOut(s, t, tile, piece) ==
  IF ~ByRows(s) THEN {<<a, a + t * SingleSize(s)>> : a \in piece[1] .. piece[1] + piece[2] - 1}
  ELSE LET row    == tile.row + piece[1] \div tile.stride
           column == tile.column + (piece[1] % tile.stride)
       IN  {<<piece[1] + i * tile.stride + j, (row + i) * s.n + column + j>> :
              i \in 0 .. piece[2] \div tile.stride - 1, j \in 0 .. tile.cols - 1}

(* ReduceKNzInUb and ReduceKInUbNzL2cache: each vector core takes every    *)
(* (Ratio * cores)-th column of blocks, the last of them maybe narrower;   *)
(* how many lines of it fit UB at a time makes no difference.              *)
NzCopyOut(s, tile, v) ==
  LET colBlockNum == CeilDiv(tile.cols, Align16)
      width(p) == IF p = colBlockNum - 1 THEN tile.cols - p * Align16 ELSE Align16
      block(p) ==
        {<<p * Align16 * s.m + i * Align16 + j, (tile.row + i) * s.n + tile.column + p * Align16 + j>> :
           i \in 0 .. tile.rows - 1, j \in 0 .. width(p) - 1}
  IN  UNION {block(p) : p \in {q \in 0 .. colBlockNum - 1 : q % (Ratio * s.cores) = v}}

(* What all vector cores do with tile t: <<core, where to, where from>>.   *)
Reduced(s, t, tile) ==
  UNION {{<<v, x[2], x[1]>> : x \in IF s.nz THEN NzCopyOut(s, tile, v)
                                    ELSE UNION {CopyOut(s, t, tile, p) : p \in Pieces(s, t, tile, v)}} :
         v \in Vectors(s)}

-------------------------------------------------------------------------------
(* The cores together multiply every block of k once, and each at least    *)
(* one: a slice that nobody fills would be added all the same.             *)
SharesKOut(kCnt, cores) ==
  /\ \A i \in 0 .. cores - 1 : BlocksOfK(kCnt, cores, i) # {}
  /\ \A k \in 0 .. kCnt - 1 :
       Cardinality({i \in 0 .. cores - 1 : k \in BlocksOfK(kCnt, cores, i)}) = 1

(* A tile lies within its half of a slice, and the slices within the       *)
(* workspace the host asked for.                                           *)
TilesFitSlices(s) ==
  /\ SingleSize(s) <= HostSingleSize(s)
  /\ \A t \in Numbers(s) :
       LET tile == Tile(s, t) IN Source(s, tile, tile.rows - 1, tile.cols - 1) < SingleSize(s)

(* Every element of a tile is added up by one vector core, from where the  *)
(* cube cores left it; whatever a vector core writes beyond the tile is    *)
(* written again, for a later tile.                                        *)
Later(s, t, to) ==
  LET row    == (to \div s.n) \div s.singleM
      column == (to % s.n) \div s.singleN
  IN  /\ to < s.m * s.n
      /\ t < (IF s.order = "NK" THEN row * NCnt(s) + column ELSE column * MCnt(s) + row)

Due(s, tile) ==
  {<<(tile.row + i) * s.n + tile.column + j, Source(s, tile, i, j)>> :
     i \in 0 .. tile.rows - 1, j \in 0 .. tile.cols - 1}
Beyond(s, tile, done) == {x \in done : <<x[2], x[3]>> \notin Due(s, tile)}

ReducesFromOwnTile(s) ==
  \A t \in Numbers(s) :
    LET tile == Tile(s, t)
        done == Reduced(s, t, tile)
    IN  /\ Due(s, tile) \subseteq {<<x[2], x[3]>> : x \in done}
        /\ Cardinality(done) = Cardinality(Due(s, tile)) + Cardinality(Beyond(s, tile, done))
        /\ \A x \in Beyond(s, tile, done) : Later(s, t, x[2])

(* The tiles share the output out.                                         *)
CoversOutput(s) ==
  LET part(t) == LET tile == Tile(s, t) IN <<0, tile.row, tile.rows, tile.column, tile.cols>>
  IN  ShareOut(Numbers(s), part, 1, s.m, s.n)
===============================================================================
