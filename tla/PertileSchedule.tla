---------------------------- MODULE PertileSchedule ----------------------------
(***************************************************************************)
(* How a per-tile or per-block quantised matmul shares its outputs out:    *)
(* the tail numbers of the host (adaptive_sliding_window_tiling.cpp), the  *)
(* scheduler that carries on from one batch to the next                    *)
(* (block_scheduler_gmm_aswt_with_tail_split.h), the loop over batches     *)
(* (kernel_qbmm_pertile.h) and the part of a tile that each vector core    *)
(* takes (UpdatePerBlockUBParam, see QbmmPertile).                         *)
(*                                                                         *)
(* A problem has m, n, batch, cores (aicNum), transA, transB, and nz for a *)
(* matrix B in the format FRACTAL_NZ.                                      *)
(***************************************************************************)
EXTENDS SlidingWindow, Functions, Sequences

VEC == INSTANCE QbmmPertile

PER_BLOCK_SIZE == 128
PER_BLOCK_BASE_SIZE_256 == 256
INNER_AXIS_MIN_SPLIT_VAL == 128
L1_ALIGN_SIZE == 32

(* CalcBasicBlock for per block: at most one side is two groups long.      *)
Base(p) ==
  IF p.m <= PER_BLOCK_SIZE \/ p.m % PER_BLOCK_SIZE # 0
    THEN [m |-> PER_BLOCK_SIZE,
          n |-> IF p.n % PER_BLOCK_SIZE = 0 THEN PER_BLOCK_BASE_SIZE_256 ELSE PER_BLOCK_SIZE]
    ELSE [m |-> PER_BLOCK_BASE_SIZE_256, n |-> PER_BLOCK_SIZE]

LastLength(size, base) == size - (CeilDiv(size, base) - 1) * base

(* AnalyseSlidingWinInfo.                                                  *)
Window(p, base) ==
  [base |-> base, last |-> [m |-> LastLength(p.m, base.m), n |-> LastLength(p.n, base.n)],
   m |-> CeilDiv(p.m, base.m), n |-> CeilDiv(p.n, base.n)]
Total(w) == w.m * w.n
TailWin(p, w) == Total(w) % p.cores

(* The splits of an axis that count: those that divide a group             *)
(* (IsInValidPerblockTailSplit) and, of the columns of an NZ matrix, leave *)
(* whole NZ blocks (IsInValidWeighNzTailSplit).                            *)
Valid(split) == PER_BLOCK_SIZE % split = 0
LineSplits(p) == {s \in 1 .. p.cores : Valid(s)}
ColumnSplits(p, w) == {s \in LineSplits(p) : p.nz => (w.base.n \div s) % L1_ALIGN_SIZE = 0}

(* CalcTailBasicBlock: the tiles of the last round are split as long as    *)
(* there are cores, first along the axis whose last tile is longer; of     *)
(* <<preSplit, secSplit, preSplitValid, secSplitValid>> the valid ones     *)
(* count, those among pres and secs.                                       *)
\* broken variant: every split counts
GrowAll(tail, cores, pres, secs) ==
  LET grow[c \in (1 .. cores) \X (1 .. cores)] ==
        IF (c[1] + 1) * c[2] * tail > cores THEN c
        ELSE grow[<<c[1] + 1,
                    IF (c[1] + 1) * (c[2] + 1) * tail <= cores THEN c[2] + 1 ELSE c[2]>>]
  IN  grow[<<1, 1>>]
Grow(tail, cores, pres, secs) ==
  LET sides == 1 .. cores
      grow[c \in sides \X sides \X sides \X sides] ==
        IF (c[1] + 1) * c[2] * tail > cores THEN <<c[3], c[4]>>
        ELSE LET pre == c[1] + 1
                 sec == IF pre * (c[2] + 1) * tail <= cores THEN c[2] + 1 ELSE c[2]
             IN  grow[<<pre, sec, IF pre \in pres THEN pre ELSE c[3],
                        IF sec > c[2] /\ sec \in secs THEN sec ELSE c[4]>>]
  IN  grow[<<1, 1, 1, 1>>]

LinesFirst(w) == w.last.m >= w.last.n
Grown(p, w) ==
  IF LinesFirst(w) THEN Grow(TailWin(p, w), p.cores, LineSplits(p), ColumnSplits(p, w))
                   ELSE Grow(TailWin(p, w), p.cores, ColumnSplits(p, w), LineSplits(p))
TailsBy(p, w, grown) ==
  IF TailWin(p, w) = 0 THEN [m |-> 1, n |-> 1]
  ELSE IF LinesFirst(w) THEN [m |-> grown[1], n |-> grown[2]] ELSE [m |-> grown[2], n |-> grown[1]]
Tails(p, w) == TailsBy(p, w, Grown(p, w))

(* CalUsedCoreNum: a single round takes the cores it needs only.           *)
BlockNum(p, w, tails) ==
  IF Total(w) > p.cores \/ TailWin(p, w) = 0 THEN p.cores ELSE TailWin(p, w) * tails.m * tails.n

(* The tiling data that the host hands to the kernel: d.w counts tiles.    *)
TilingData(p, w, tails) ==
  [batch |-> p.batch, transA |-> p.transA, transB |-> p.transB, w |-> w,
   tails |-> tails, blockNum |-> BlockNum(p, w, tails)]
TilingOf(p, w) == TilingData(p, w, Tails(p, w))
Tiling(p) == TilingOf(p, Window(p, Base(p)))

-------------------------------------------------------------------------------
(* UpdateNextProblem: the blocks that take the first and the last tile of  *)
(* a batch; the next batch starts behind the last one.                     *)
Ends(d) ==
  LET end[b \in 0 .. d.batch] ==
        IF b = 0 THEN d.blockNum - 1
        ELSE (Total(d.w) + ((end[b - 1] + 1) % d.blockNum) - 1) % d.blockNum
  IN  end
Bounds(d, b, ends) == [start |-> (ends[b - 1] + 1) % d.blockNum, end |-> ends[b]]

(* The rounds of a block: those between the last and the first block go    *)
(* short of one.                                                           *)
\* broken variant: no block goes short
RoundsAll(d, bounds, block) == CeilDiv(Total(d.w), d.blockNum)
Rounds(d, bounds, block) ==
  LET short == IF bounds.start > bounds.end THEN bounds.end < block /\ block < bounds.start
               ELSE block > bounds.end \/ block < bounds.start
  IN  CeilDiv(Total(d.w), d.blockNum) - (IF short THEN 1 ELSE 0)

(* The scheduler of a block in batch b (1 ..), up to UpdateTailTile of the *)
(* last batch: rounds and into how many parts the last one is split.       *)
SchedulerIn(d, b, bounds, block) ==
  LET tails == d.tails.m * d.tails.n
      inTail == /\ b = d.batch /\ (bounds.end + 1) * tails <= d.blockNum
                /\ block <= tails * (bounds.end + 1) - 1
  IN  [start |-> bounds.start, tail |-> IF inTail THEN tails ELSE 1,
       mTail |-> IF inTail THEN d.tails.m ELSE 1, nTail |-> IF inTail THEN d.tails.n ELSE 1,
       rounds |-> Rounds(d, bounds, block) + (IF inTail /\ block > bounds.end THEN 1 ELSE 0)]
Scheduler(d, b, block) == SchedulerIn(d, b, Bounds(d, b, Ends(d)), block)

(* GetTileIdx and GetBlockShape in round r.                                *)
IsSplit(s, r) == s.tail # 1 /\ r = s.rounds - 1
Index(d, s, block, r) ==
  (IF r = s.rounds - 1 THEN block \div s.tail ELSE block) + r * d.blockNum
    + (IF block < s.start THEN d.blockNum - s.start ELSE 0 - s.start)

Cut(length, count, number, aligned) ==
  LET part == IF aligned THEN Align(CeilDiv(length, count), INNER_AXIS_MIN_SPLIT_VAL) ELSE CeilDiv(length, count)
  IN  [offset |-> number * part,
       length |-> IF number * part >= length THEN 0 ELSE Least(part, length - number * part)]

Shape(d, b, s, t, block, r) ==
  LET number == block % s.tail
      lines == IF t[1] # d.w.m - 1 THEN d.w.base.m ELSE d.w.last.m
      columns == IF t[2] # d.w.n - 1 THEN d.w.base.n ELSE d.w.last.n
      whole == ~IsSplit(s, r)
      mCut == IF whole THEN [offset |-> 0, length |-> lines] ELSE Cut(lines, s.mTail, number % s.mTail, d.transA)
      nCut == IF whole THEN [offset |-> 0, length |-> columns] ELSE Cut(columns, s.nTail, number \div s.mTail, ~d.transB)
  IN  <<b - 1, t[1] * d.w.base.m + mCut.offset, mCut.length, t[2] * d.w.base.n + nCut.offset, nCut.length>>
Part(d, b, s, block, r) == Shape(d, b, s, Position(d.w, Index(d, s, block, r)), block, r)
IsEmpty(part) == part[3] = 0 \/ part[5] = 0

(* ProcessWithoutBatch: round after round, up to an empty part.  The parts *)
(* by the batch, block and round in which they are computed.               *)
Taken(d, b, block, s) ==
  {<<b, block, r>> : r \in {r \in 0 .. s.rounds - 1 : \A q \in 0 .. r : ~IsEmpty(Part(d, b, s, block, q))}}
PartsOf(d) ==
  [x \in UNION {Taken(d, b, block, Scheduler(d, b, block)) : b \in 1 .. d.batch, block \in 0 .. d.blockNum - 1} |->
     Part(d, x[1], Scheduler(d, x[1], x[2]), x[2], x[3])]
Parts(p) == PartsOf(Tiling(p))
Shapes(parts) == {<<part[3], part[5]>> : part \in Range(parts)}

-------------------------------------------------------------------------------
(* ProcessWithBatch: the batches of A (or B) that go with those of C, of   *)
(* four batch axes each; an axis of A has the length of C's or 1.          *)
Size(axes, i) == CASE i = 4 -> 1 [] i = 3 -> axes[4] [] i = 2 -> axes[3] * axes[4]
                   [] i = 1 -> axes[2] * axes[3] * axes[4]
Multi(axes, c, i) == axes[i] \div c[i]
\* broken variant: an axis of length 1 is walked along like the others
BatchOffsetWalked(axes, c, index) ==
  LET step(i) == index[i] * Size(axes, i)
  IN  step(1) + step(2) + step(3) + step(4)
BatchOffset(axes, c, index) ==
  LET step(i) == index[i] * (Size(axes, i) * Multi(axes, c, i))
  IN  step(1) + step(2) + step(3) + step(4)

(* Batch number of index under the rules of broadcasting.                  *)
Broadcast(axes, index) ==
  LET at(i) == IF axes[i] = 1 THEN 0 ELSE index[i]
  IN  ((at(1) * axes[2] + at(2)) * axes[3] + at(3)) * axes[4] + at(4)

-------------------------------------------------------------------------------
(* Every line and column of every batch is computed by one block once: the *)
(* last batch's tail is split although blocks have other rounds by then.   *)
ComputesEveryPartOnce(p, d, parts) ==
  /\ ShareOut(DOMAIN parts, LAMBDA x : parts[x], p.batch, p.m, p.n)
  /\ \A x \in DOMAIN parts : Index(d, Scheduler(d, x[1], x[2]), x[2], x[3]) \in 0 .. Total(d.w) - 1

(* The vector cores share the lines and columns of a part out.             *)
VectorCoresShare(m, n) ==
  \A cast \in BOOLEAN :
     LET pieces == UNION {{<<sub, i>> : i \in DOMAIN VEC!Pieces(cast, m, n, sub)} : sub \in {0, 1}}
         piece(x) == <<0>> \o VEC!Pieces(cast, m, n, x[1])[x[2]].at
     IN  ShareOut(pieces, piece, 1, m, n)

(* The fixpipe of the cube core leaves a part where the vector cores look  *)
(* for it: both split it along the same axis and at the same places.       *)
FixpipeAgrees(m, n) ==
  LET two == IF VEC!SplitN(m, n) THEN <<1, 2>> ELSE <<2, 1>>
  IN  /\ VEC!FixpipeM(m, n) = two[1] * VEC!SingleM(m, n)
      /\ VEC!FixpipeN(m, n) = two[2] * VEC!SingleN(m, n)

(* Half of a part fits into a buffer of a vector core: 128 lines of two    *)
(* banks of 64 columns.                                                    *)
HalvesFit(m, n) ==
  /\ VEC!SingleM(m, n) <= PER_BLOCK_SIZE
  /\ VEC!NdNum(m, n) * VEC!SingleN(m, n) <= 2 * VEC!UB_SUB_BANK_ELEMS_B32
  /\ VEC!SingleN(m, n) <= VEC!UB_SUB_BANK_ELEMS_B32

(* A vector core scales each of its pieces with one number per group of    *)
(* k: the one of the group of columns (and, per block, of lines) that its  *)
(* first column (line) belongs to.  The rest of it belongs there, too, and *)
(* rounding the offsets of part and piece down apart loses nothing.        *)
OneGroup(part, first, length) ==
  length > 0 => \A i \in {first, first + length - 1} :
                  part \div PER_BLOCK_SIZE + first \div PER_BLOCK_SIZE = (part + i) \div PER_BLOCK_SIZE
OneScaleEach(parts) ==
  \A part \in Range(parts), sub \in {0, 1}, nd \in {0, 1} :
     LET m == part[3]
         n == part[5]
     IN  nd < VEC!NdNum(m, n) =>
           /\ OneGroup(part[2], VEC!OffsetM(m, n, sub), VEC!ValidM(m, n, sub))
           /\ OneGroup(part[4], VEC!OffsetN(m, n, sub, nd), VEC!ValidN(m, n, sub, nd))

(* Walking the batches of the output in order visits, of an input, the     *)
(* batch that broadcasting names.                                          *)
BroadcastAgrees(axes, c) ==
  \A index \in (0 .. c[1] - 1) \X (0 .. c[2] - 1) \X (0 .. c[3] - 1) \X (0 .. c[4] - 1) :
     BatchOffset(axes, c, index) = Broadcast(axes, index)
===============================================================================
