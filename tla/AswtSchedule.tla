------------------------------ MODULE AswtSchedule -----------------------------
(***************************************************************************)
(* How MatMulV3 shares an output out to cube cores without splitting k:    *)
(* the tail numbers of the host (matmul_v3_asw_tiling.cpp and              *)
(* matmul_v3_basic_aswt_tiling.cpp) and the scheduler of the kernels that  *)
(* reads them (block_scheduler_aswt.h).                                    *)
(*                                                                         *)
(* A problem has batch, m, n, cores (aicNum), way ("none", "A" or "B", the *)
(* matrix kept in L1), the base block baseM by baseN that the host settled *)
(* on, and edge: along which axis ("m", "n" or "none") how many more       *)
(* blocks than the last one are evened out.                                *)
(***************************************************************************)
EXTENDS SlidingWindow, Sequences

BASIC_BLOCK_SIZE_16 == 16

MCnt(p) == CeilDiv(p.m, p.baseM)
NCnt(p) == CeilDiv(p.n, p.baseN)

-------------------------------------------------------------------------------
(* CalcBasicBlock: with fewer blocks than cores the base block shrinks,    *)
(* first along both axes, then while one side is twice the other.  The     *)
(* counts of blocks, mCore and nCore, are carried along.                   *)
Shrunk(size, count) == Align(CeilDiv(size, count), BASIC_BLOCK_SIZE_16)
Counted(p, c) == [c EXCEPT !.mCore = CeilDiv(p.m, c.baseM), !.nCore = CeilDiv(p.n, c.baseN)]

FirstCut(p, cores) ==
  LET baseM == Shrunk(p.m, MCnt(p))
      baseN == Shrunk(p.n, NCnt(p))
      mCore == IF MCnt(p) <= NCnt(p) THEN CeilDiv(p.m, baseM) ELSE cores \div CeilDiv(p.n, baseN)
      nCore == IF MCnt(p) <= NCnt(p) THEN cores \div mCore ELSE CeilDiv(p.n, baseN)
  IN  [mCore |-> mCore, nCore |-> nCore,
       baseM |-> IF MCnt(p) <= NCnt(p) THEN baseM ELSE Shrunk(p.m, mCore),
       baseN |-> IF MCnt(p) <= NCnt(p) THEN Shrunk(p.n, nCore) ELSE baseN]

NarrowOnce(p, c, cores) ==
  Counted(p, [c EXCEPT !.baseM = Shrunk(p.m, cores \div (2 * c.nCore)),
                       !.baseN = Shrunk(p.n, 2 * c.nCore)])
LowerOnce(p, c, cores) ==
  Counted(p, [c EXCEPT !.baseM = Shrunk(p.m, 2 * c.mCore),
                       !.baseN = Shrunk(p.n, cores \div (2 * c.mCore))])

Cuts == [mCore : Nat \ {0}, nCore : Nat \ {0}, baseM : Nat \ {0}, baseN : Nat \ {0}]
Narrow(p, cores) ==
  LET narrow[c \in Cuts] ==
        IF c.baseN >= 2 * c.baseM /\ c.nCore < cores \div 2 THEN narrow[NarrowOnce(p, c, cores)] ELSE c
  IN  narrow
Lower(p, cores) ==
  LET lower[c \in Cuts] ==
        IF c.baseM >= 2 * c.baseN /\ c.mCore < cores \div 2 THEN lower[LowerOnce(p, c, cores)] ELSE c
  IN  lower

\* broken variant: the counts are rounded up, as if cores could be halved
NarrowedUp(p, cores) == Lower(p, cores + 1)[Narrow(p, cores + 1)[FirstCut(p, cores + 1)]]
CalcBasicBlock(p, cores) == Lower(p, cores)[Narrow(p, cores)[FirstCut(p, cores)]]

(* FormulateBasicBlock, FormulateLoadBalanceBlock: enough blocks keep the   *)
(* size they came with, up to that of the output.                          *)
FormulateBasicBlock(p) ==
  LET c == IF MCnt(p) * NCnt(p) < p.cores
             THEN CalcBasicBlock(p, p.cores)
             ELSE [baseM |-> Least(Align(p.m, BASIC_BLOCK_SIZE_16), p.baseM),
                   baseN |-> Least(Align(p.n, BASIC_BLOCK_SIZE_16), p.baseN)]
  IN  [p EXCEPT !.baseM = c.baseM, !.baseN = c.baseN]

-------------------------------------------------------------------------------
(* GetOuterAxisTailCnt: `more' blocks in front of the last one of an axis  *)
(* are made as long as that one, more or less, with which it pays chosen   *)
(* by an estimate of the load; [count, main] for the kernel.               *)
More(size, base) ==
  {0} \cup 1 .. Least((base - (size % base)) \div BASIC_BLOCK_SIZE_16, CeilDiv(size, base)) - 1
Evened(size, base, more) ==
  [count |-> more + 1,
   main |-> IF more = 0 THEN 0
            ELSE Align(CeilDiv(more * base + (size % base), more + 1), BASIC_BLOCK_SIZE_16)]

(* OptimizeEdgeBasicBlock: at most one axis, if its last block is short.   *)
Edges(p) ==
  IF p.way # "none" \/ MCnt(p) * NCnt(p) < p.cores \/ MCnt(p) = 1 \/ NCnt(p) = 1
    THEN {<<0, 0>>}
    ELSE {<<0, 0>>}
           \cup (IF p.m % p.baseM > 0 THEN {<<more, 0>> : more \in More(p.m, p.baseM)} ELSE {})
           \cup (IF p.n % p.baseN > 0 THEN {<<0, more>> : more \in More(p.n, p.baseN)} ELSE {})

(* CalcTailBasicBlock, CalcTailBasicBlockAL1Full and ..BL1Full: into how   *)
(* many parts the tiles of the last round are split.                       *)
TailTiles(p) ==
  LET count == CASE p.way = "none" -> MCnt(p) * NCnt(p)
                 [] p.way = "A" -> NCnt(p)
                 [] p.way = "B" -> MCnt(p)
  IN  IF count <= p.cores THEN 0 ELSE count % p.cores
Grow(tail, cores) ==
  LET grow[c \in (1 .. cores) \X (1 .. cores)] ==
        IF (c[1] + 1) * c[2] * tail > cores THEN c
        ELSE grow[<<c[1] + 1,
                    IF (c[1] + 1) * (c[2] + 1) * tail <= cores THEN c[2] + 1 ELSE c[2]>>]
  IN  grow[<<1, 1>>]
TailCnt(p) ==
  CASE TailTiles(p) = 0 -> <<1, 1>>
    [] TailTiles(p) # 0 /\ p.way = "none" -> Grow(TailTiles(p), p.cores)
    [] TailTiles(p) # 0 /\ p.way = "A" -> <<1, p.cores \div TailTiles(p)>>
    [] TailTiles(p) # 0 /\ p.way = "B" -> <<p.cores \div TailTiles(p), 1>>

-------------------------------------------------------------------------------
(* The scheduler's constructor.  An axis in L1 blocks: norm blocks of      *)
(* length l1, then some of length main and a last one.                     *)
Axis(size, l1, edge) ==
  LET count == CeilDiv(size, l1)
      norm  == count - edge.count
      rest  == size - norm * l1
      main  == IF edge.count = 1 THEN rest ELSE edge.main
  IN  [count |-> count, l1 |-> l1, norm |-> norm, main |-> main,
       last |-> rest - (edge.count - 1) * main]

Length(axis, i) ==
  IF i < axis.norm THEN axis.l1 ELSE IF i = axis.count - 1 THEN axis.last ELSE axis.main
Offset(axis, i) ==
  IF i > axis.norm THEN axis.norm * axis.l1 + (i - axis.norm) * axis.main ELSE i * axis.l1

(* The tiling data (GetTilingData): a fully loaded matrix is one L1 block. *)
MAxis(p) == Axis(p.m, Least(Align(p.m, BASIC_BLOCK_SIZE_16), IF p.way = "A" THEN MCnt(p) * p.baseM ELSE p.baseM),
                 Evened(p.m, p.baseM, p.edge[1]))
NAxis(p) == Axis(p.n, Least(Align(p.n, BASIC_BLOCK_SIZE_16), IF p.way = "B" THEN NCnt(p) * p.baseN ELSE p.baseN),
                 Evened(p.n, p.baseN, p.edge[2]))

(* What a block has at hand once it is constructed, from the axes m and n; *)
(* blockNum (usedCoreNum) is less than aicNum for less than a round only.  *)
Started(p, m, n) ==
  LET tiles == m.count * n.count
      split == p.batch = 1
  IN  [m |-> m, n |-> n, tiles |-> tiles,
       mTail |-> IF split THEN CeilDiv(m.last, CeilDiv(m.last, TailCnt(p)[1])) ELSE 1,
       nTail |-> IF split THEN CeilDiv(n.last, CeilDiv(n.last, TailCnt(p)[2])) ELSE 1,
       blockNum |-> IF split /\ p.way = "none" THEN Least(tiles, p.cores) ELSE p.cores]
Counting(p, s) ==
  [m |-> s.m, n |-> s.n, mTail |-> s.mTail, nTail |-> s.nTail, tail |-> s.mTail * s.nTail,
   blockNum |-> s.blockNum, rounds |-> CeilDiv(s.tiles * p.batch, s.blockNum),
   tileNum |-> s.tiles + (s.mTail * s.nTail - 1) * (s.tiles % s.blockNum)]
Scheduler(p) == Counting(p, Started(p, MAxis(p), NAxis(p)))

(* UpdateMNTileIdx: parts of one tile go to consecutive blocks.            *)
InSplitRound(s, i) == i \div s.blockNum = s.rounds - 1 /\ s.tail # 1
TileIdx(s, block, i) ==
  LET j == i % s.tileNum IN
  IF InSplitRound(s, j) THEN (s.rounds - 1) * s.blockNum + (block \div s.tail) ELSE j
Tile(s, block, i) == Position([m |-> s.m.count, n |-> s.n.count], TileIdx(s, block, i))

(* GetBlockShape and GetBlockCoord: batch, first line, lines, first column,*)
(* columns.  A part that begins behind its tile is empty.                  *)
Cut(length, count, number) ==
  LET part == CeilDiv(length, count) IN
  [offset |-> number * part,
   length |-> IF number * part >= length THEN 0 ELSE Least(part, length - number * part)]

Shape(p, s, t, block, i) ==
  LET split == InSplitRound(s, i)
      number == block % s.tail
      mCut == Cut(Length(s.m, t[1]), IF split THEN s.mTail ELSE 1, IF split THEN number % s.mTail ELSE 0)
      nCut == Cut(Length(s.n, t[2]), IF split THEN s.nTail ELSE 1, IF split THEN number \div s.mTail ELSE 0)
  IN  <<IF p.batch > 1 THEN i \div s.tileNum ELSE 0,
        Offset(s.m, t[1]) + mCut.offset, mCut.length, Offset(s.n, t[2]) + nCut.offset, nCut.length>>
Part(p, s, block, i) == Shape(p, s, Tile(s, block, i), block, i)
IsEmpty(part) == part[3] = 0 \/ part[5] = 0

(* The loop of the kernels: a block takes every blockNum-th tile, up to an *)
(* empty part.                                                             *)
Mine(s, p, block) ==
  {i \in 0 .. s.tileNum * p.batch - 1 : i % s.blockNum = block}
Taken(p, s, block) ==
  {i \in Mine(s, p, block) :
     \A j \in Mine(s, p, block) : j <= i => ~IsEmpty(Part(p, s, block, j))}

(* Its inner loops over L0 blocks cut a part into pieces of baseM by baseN.*)
Pieces(p, s) ==
  LET parts == UNION {{<<block, i>> : i \in Taken(p, s, block)} : block \in 0 .. s.blockNum - 1}
      rows(x) == {r \in 0 .. s.m.l1 - 1 : r % p.baseM = 0}
      columns(x) == {r \in 0 .. s.n.l1 - 1 : r % p.baseN = 0}
  IN  UNION {{<<x[1], x[2], r, q>> : r \in rows(x), q \in columns(x)} : x \in parts}
PieceOf(p, t, x) ==
  <<t[1], t[2] + x[3], Least(p.baseM, t[3] - x[3]), t[4] + x[4], Least(p.baseN, t[5] - x[4])>>
Piece(p, s, x) == PieceOf(p, Part(p, s, x[1], x[2]), x)

-------------------------------------------------------------------------------
(* Every line and column of every batch is computed by one block once, in  *)
(* spite of evened out edges, a split last round and blocks that stop at   *)
(* an empty part.                                                          *)
ComputesEveryPieceOnce(p, s) ==
  ShareOut(Pieces(p, s), LAMBDA x : Piece(p, s, x), p.batch, p.m, p.n)

(* No L1 block is longer than the buffers were laid out for, none is empty *)
(* and the parts of the last round do not need more cores than there are.  *)
PartsFit(s) ==
  /\ \A i \in 0 .. s.m.count - 1 : Length(s.m, i) \in 1 .. s.m.l1
  /\ \A i \in 0 .. s.n.count - 1 : Length(s.n, i) \in 1 .. s.n.l1
  /\ ((s.m.count * s.n.count) % s.blockNum) * s.tail <= s.blockNum

(* A base block that was shrunk leaves no more blocks than there are cores *)
(* and stays a multiple of the cube's 16 lines.                            *)
ShrunkFits(p, c) ==
  /\ c.baseM > 0 /\ c.baseM % BASIC_BLOCK_SIZE_16 = 0
  /\ c.baseN > 0 /\ c.baseN % BASIC_BLOCK_SIZE_16 = 0
  /\ MCnt(p) * NCnt(p) < p.cores => MCnt(c) * NCnt(c) <= p.cores
===============================================================================
