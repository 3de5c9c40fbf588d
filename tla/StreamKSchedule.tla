---------------------------- MODULE StreamKSchedule ----------------------------
(***************************************************************************)
(* The tile schedule of the Stream-K matmul kernel: BlockSchedulerStreamK  *)
(* (mat_mul_v3/op_kernel/arch35/block_scheduler_streamk.h), the loop that  *)
(* walks it in kernel_matmul_streamk.h and the index arithmetic of the     *)
(* epilogue that sums the partial products (block_epilogue_streamk.h).     *)
(*                                                                         *)
(* A shape is what the host tiling hands to the kernel: the output is cut  *)
(* into m by n tiles, on `cores' cube cores.  Whole rounds of tiles are    *)
(* data parallel (DP): one core computes one tile over all of k.  The      *)
(* tiles that remain are split along k into sk chunks each (SK): one core  *)
(* computes one chunk into a slot of the workspace.  Without a whole round *)
(* every tile is split.                                                    *)
(***************************************************************************)
EXTENDS SlidingWindow

CONSTANTS
  Ratio       \* GetTaskRation(): vector cores per cube core

ASSUME RatioAssumption == Ratio \in Nat \ {0}

(* A launch has cores, and an output of at least one tile.                 *)
ShapeRecords ==
  [cores : Nat \ {0}, m : Nat \ {0}, n : Nat \ {0}, sk : Nat]

Cores(s) == 0 .. s.cores - 1
Vectors(s) == 0 .. Ratio * s.cores - 1

(***************************************************************************)
(* CheckStreamKSKTiling91095 and CheckStreamKDPSKTiling91095 with the kCnt *)
(* that DoOpTiling settles on: either few tiles and no whole round, or     *)
(* whole rounds and a remainder of at most half the cores; sk is           *)
(* CeilDiv(k, CeilDiv(k, cores / tiles)) for a k of at least sk.           *)
(***************************************************************************)
SkOnly(s) == s.m * s.n <= s.cores \div 2

DpAndSk(s) ==
  /\ s.m * s.n >= s.cores
  /\ (s.m * s.n) % s.cores # 0
  /\ (s.m * s.n) % s.cores <= s.cores \div 2

HostAllows(s) ==
  /\ SkOnly(s) \/ DpAndSk(s)
  /\ s.sk \in 2 .. s.cores \div ((s.m * s.n) % s.cores)

-------------------------------------------------------------------------------
(* The scheduler's constructor.                                            *)
MnTiles(s)  == s.m * s.n
Tail(s)     == MnTiles(s) % s.cores
DpTiles(s)  == MnTiles(s) - Tail(s)
TileNum(s)  == DpTiles(s) + Tail(s) * s.sk

BlockNum(s) == Least(TileNum(s), s.cores)

(* CheckIsSkScene: the last round is the split one.                        *)
IsSk(s, i) == CeilDiv(i + 1, s.cores) = CeilDiv(TileNum(s), s.cores)

\* broken variant: consecutive cores take consecutive tiles, not chunks
KIdxByTile(s, i) == IF IsSk(s, i) THEN (i % s.cores) \div Tail(s) ELSE 0
KIdx(s, i) == IF IsSk(s, i) THEN (i % s.cores) % s.sk ELSE 0

MnIdx(s, i) == IF IsSk(s, i) THEN (i % s.cores) \div s.sk + DpTiles(s) ELSE i

(* GetSingleCoreCoord without its k index.                                 *)
TilePosition(s, i) == Position(s, MnIdx(s, i))

-------------------------------------------------------------------------------
(* KernelMatmulStreamK::run, cube side: core c takes tile numbers c,       *)
(* c + cores, ... but computes its chunk before its last whole tile.       *)

Rounds(s) == CeilDiv(TileNum(s), s.cores)
HasChunk(s, i) == i % s.cores < Tail(s) * s.sk

\* broken variant: the swap of the last two rounds only looks ahead
TileAtNoReturn(s, i) ==
  IF ~IsSk(s, 0) /\ HasChunk(s, i) /\ CeilDiv(i + 1, s.cores) = Rounds(s) - 1
    THEN i + s.cores
    ELSE i

TileAt(s, i) ==
  IF IsSk(s, 0) \/ ~HasChunk(s, i) THEN i
  ELSE IF CeilDiv(i + 1, s.cores) = Rounds(s) - 1 THEN i + s.cores
  ELSE IF CeilDiv(i + 1, s.cores) = Rounds(s) THEN i - s.cores
  ELSE i

TilesOf(s, c) == {i \in 0 .. TileNum(s) - 1 : i % s.cores = c}

(* offsetWorkspace, in slots of one base tile.                             *)
\* broken variant: the slots of neighbouring tiles overlap
SlotUnspaced(s, i) == (i % s.cores) \div s.sk + KIdx(s, i)
Slot(s, i) == ((i % s.cores) \div s.sk) * s.sk + KIdx(s, i)

(* The core tells its vector cores after its last tile number.             *)
\* broken variant: the end of the whole tiles passes for the end of the loop
IsLastWhole(s, i) == i + s.cores >= DpTiles(s)
IsLast(s, i) == i + s.cores >= TileNum(s)

-------------------------------------------------------------------------------
(* The epilogue: vector core v sums the sk slots of one split tile, over   *)
(* one part of the rows of that tile (UpdateAivBasicIndex, UpdateAivParams)*)

Parts(s) == 0 .. Ratio * s.sk - 1
HasEpilogue(s, v) == v < Tail(s) * s.sk * Ratio
EpilogueTile(s, v) == v \div (Ratio * s.sk)
EpiloguePart(s, v) == v % (Ratio * s.sk)

\* broken variant: the epilogue numbers the split tiles from the first tile on
EpiloguePositionFromZero(s, v) == Position(s, EpilogueTile(s, v))
EpiloguePosition(s, v) == Position(s, EpilogueTile(s, v) + DpTiles(s))
EpilogueSlots(s, v) == {EpilogueTile(s, v) * s.sk + k : k \in 0 .. s.sk - 1}

(* The rows of part p, of a tile of that many rows and (aligned) columns:  *)
(* a part is a whole number of units of at least UB2GM_SRCGAP_UNIT         *)
(* elements, so that the last parts of a small tile are empty.             *)
UB2GM_SRCGAP_UNIT == 32

Burst(s, rows, columns) ==
  LET unit == CeilDiv(UB2GM_SRCGAP_UNIT, columns)
  IN  CeilDiv(CeilDiv(rows, Ratio * s.sk), unit) * unit

\* broken variant: the last part is as long as the others
RowsOfPartNoTail(s, rows, columns, p) ==
  LET burst == Burst(s, rows, columns)
  IN  {p * burst + r : r \in 0 .. (IF p < CeilDiv(rows, burst) THEN burst ELSE 0) - 1}

RowsOfPart(s, rows, columns, p) ==
  LET burst  == Burst(s, rows, columns)
      bursts == CeilDiv(rows, burst)
      length == IF p >= bursts THEN 0
                ELSE IF p = bursts - 1 THEN rows - (bursts - 1) * burst
                ELSE burst
  IN  {p * burst + r : r \in 0 .. length - 1}

-------------------------------------------------------------------------------
(* What the schedule must satisfy, for every shape the host allows         *)

(* Every whole tile is computed over all of k by one core, every chunk of  *)
(* every other tile by one core, and nothing else is computed.             *)
CoversEveryChunkOnce(s) ==
  LET dp == {i \in 0 .. TileNum(s) - 1 : ~IsSk(s, i)}
      sk == {i \in 0 .. TileNum(s) - 1 : IsSk(s, i)}
      split == {Position(s, j) : j \in DpTiles(s) .. MnTiles(s) - 1}
  IN  /\ {TilePosition(s, i) : i \in dp} = Positions(s) \ split
      /\ {<<TilePosition(s, i), KIdx(s, i)>> : i \in sk} = split \X (0 .. s.sk - 1)
      /\ Cardinality(dp) + Cardinality(sk) = DpTiles(s) + Tail(s) * s.sk

(* Preloading the chunk permutes the tiles of a core: none is computed     *)
(* twice or by another core, and the one after which the core tells its    *)
(* vector cores is its chunk, if it has one, and its last tile otherwise.  *)
PreloadPermutes(s) ==
  \A c \in Cores(s) :
     LET mine == TilesOf(s, c) IN
     /\ {TileAt(s, i) : i \in mine} = mine
     /\ Cardinality({i \in mine : IsLast(s, TileAt(s, i))}) = (IF mine = {} THEN 0 ELSE 1)
     /\ \A i \in mine : IsSk(s, i) => IsLast(s, i)

(* Chunks are parked in different slots of a workspace of one slot per     *)
(* core, and the slots a vector core sums are those of the tile it writes. *)
SlotsAgree(s) ==
  LET sk == {i \in 0 .. TileNum(s) - 1 : IsSk(s, i)} IN
  /\ \A i \in sk : Slot(s, i) \in Cores(s)
  /\ \A i, j \in sk : Slot(s, i) = Slot(s, j) => i = j
  /\ \A v \in Vectors(s) : HasEpilogue(s, v) =>
        EpilogueSlots(s, v) = {Slot(s, i) : i \in {j \in sk : TilePosition(s, j) = EpiloguePosition(s, v)}}

(* The parts of a tile share its rows out: every row is in one part, and   *)
(* no part reaches into the rows of the tile below.                        *)
PartsShareRows(s, rows, columns) ==
  /\ \A r \in 0 .. rows - 1 :
        Cardinality({p \in Parts(s) : r \in RowsOfPart(s, rows, columns, p)}) = 1
  /\ \A p \in Parts(s) : RowsOfPart(s, rows, columns, p) \subseteq 0 .. rows - 1
===============================================================================
