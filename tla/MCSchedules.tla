------------------------------ MODULE MCSchedules ------------------------------
(***************************************************************************)
(* Checks the schedules that share an output out to cores: of the Stream-K *)
(* kernel over every shape the host tiling allows, up to MaxCores cores    *)
(* and MaxTiles tiles in each direction; of the ASWT kernel, the per-tile  *)
(* kernel and the split-k kernel over outputs of the sizes AswtSizes,      *)
(* PerSizes and SplitSizes, the latter with SplitL2s elements to a cut for *)
(* L2; and the batch offsets of the per-tile kernel over axes of the       *)
(* lengths Axes.                                                           *)
(***************************************************************************)
EXTENDS Integers, Sequences

CONSTANTS Ratio, MaxCores, MaxTiles, RowCounts, ColumnCounts,
          AswtCores, AswtSizes, AswtBases, AswtBatches,
          PerCores, PerSizes, PerBatches, Axes,
          SplitCores, SplitSizes, SplitL2s, Block33, Block, Row256, Align16, DataSize

(* Sizes count something; base blocks are a multiple of the cube's 16      *)
(* lines, and what is cut for L2 is still whole rows of 256 bytes. A line  *)
(* of what the host cuts fits a quarter of UB: the cut is at most 70 % of  *)
(* L2 (192 MiB) for each of 20 cores or more, at least 768 bytes a column. *)
ASSUME SizesAssumption ==
  /\ Ratio \in Nat \ {0} /\ MaxCores \in Nat /\ MaxTiles \in Nat
  /\ RowCounts \subseteq Nat \ {0} /\ ColumnCounts \subseteq Nat \ {0}
  /\ AswtCores \subseteq Nat \ {0} /\ AswtSizes \subseteq Nat \ {0} /\ AswtBatches \subseteq Nat \ {0}
  /\ AswtBases \subseteq Nat \ {0} /\ \A base \in AswtBases : base % 16 = 0
  /\ PerCores \subseteq Nat \ {0} /\ PerSizes \subseteq Nat \ {0} /\ PerBatches \subseteq Nat \ {0}
  /\ SplitCores \subseteq Nat \ {0} /\ Axes \subseteq Nat \ {0}
  /\ SplitSizes \subseteq Nat \ {0} /\ SplitL2s \subseteq Nat \ {0}
  /\ {Block33, Block, Row256, Align16} \subseteq Nat \ {0}
  /\ Block33 % Row256 = 0 /\ Block % Row256 = 0
  /\ DataSize \in Nat \ {0} /\ Block33 % Block = 0 /\ DataSize % Block33 = 0
  /\ \A l2 \in SplitL2s : l2 <= DataSize

VARIABLES kind, shape

STREAMK == INSTANCE StreamKSchedule
ASWT == INSTANCE AswtSchedule
PERTILE == INSTANCE PertileSchedule
SPLITK == INSTANCE SplitKSchedule

StreamKShapes ==
  {s \in [cores : 2 .. MaxCores, m : 1 .. MaxTiles, n : 1 .. MaxTiles, sk : 2 .. MaxCores] :
     STREAMK!HostAllows(s)}

(* A batched problem is tiled without keeping a matrix in L1; a matrix is  *)
(* kept there as it is.                                                    *)
AswtProblems ==
  {p \in [batch : AswtBatches, m : AswtSizes, n : AswtSizes, cores : AswtCores,
          baseM : AswtBases, baseN : AswtBases, way : {"none", "A", "B"}, edge : {<<0, 0>>}] :
     p.batch > 1 => p.way = "none"}

PertileProblems ==
  [batch : PerBatches, m : PerSizes, n : PerSizes, cores : PerCores,
   transA : BOOLEAN, transB : BOOLEAN, nz : BOOLEAN]

SplitKProblems ==
  {p \in [m : SplitSizes, n : SplitSizes, cores : SplitCores, order : {"NK", "MK"}, l2 : SplitL2s,
          adaptive : BOOLEAN] : SPLITK!HostAllows(p)}

(* Four batch axes of A and of C: an axis of A is as long as C's or 1.     *)
BatchAxes ==
  {b \in [a : Axes \X Axes \X Axes \X Axes, c : Axes \X Axes \X Axes \X Axes] :
     \A i \in 1 .. 4 : b.a[i] \in {1, b.c[i]}}

Init ==
  \/ kind = "streamk" /\ shape \in StreamKShapes
  \/ kind = "aswt" /\ shape \in {ASWT!FormulateBasicBlock(p) : p \in AswtProblems}
  \/ kind = "base" /\ shape \in AswtProblems
  \/ kind = "pertile" /\ shape \in {[problem |-> p, parts |-> PERTILE!Parts(p)] : p \in PertileProblems}
  \/ kind = "splitk" /\ shape \in {SPLITK!Tiling(p) : p \in SplitKProblems}
  \/ kind = "batch" /\ shape \in BatchAxes

(* The host evens out the edge of an ASWT problem.                         *)
Even ==
  /\ kind = "aswt" /\ shape.edge = <<0, 0>> /\ shape.batch = 1
  /\ \E edge \in ASWT!Edges(shape) \ {<<0, 0>>} : shape' = [shape EXCEPT !.edge = edge]
  /\ UNCHANGED kind
Next == Even
Spec == Init /\ [][Next]_<<kind, shape>>

-------------------------------------------------------------------------------
(* Every output tile, every line and column of every batch, is computed    *)
(* once (see VisitsEveryTileOnce, ComputesEveryPieceOnce,                  *)
(* ComputesEveryPartOnce and CoversOutput).                                *)
EveryTileOnce ==
  /\ kind = "streamk" => STREAMK!VisitsEveryTileOnce(shape)
  /\ kind = "aswt" => ASWT!ComputesEveryPieceOnce(shape, ASWT!Scheduler(shape))
  /\ kind = "pertile" => PERTILE!ComputesEveryPartOnce(shape.problem, PERTILE!Tiling(shape.problem), shape.parts)
  /\ kind = "splitk" => SPLITK!CoversOutput(shape)

(* Every chunk of k of every tile is computed once (see                    *)
(* CoversEveryChunkOnce and SharesKOut).                                   *)
EveryChunkOnce ==
  /\ kind = "streamk" => STREAMK!CoversEveryChunkOnce(shape)
  /\ kind = "splitk" => \A kCnt \in shape.cores .. 3 * shape.cores : SPLITK!SharesKOut(kCnt, shape.cores)

(* Preloading only reorders a core's own tiles (see PreloadPermutes).      *)
PreloadReorders == kind = "streamk" => STREAMK!PreloadPermutes(shape)

(* Producers and consumers agree where a partial product lies: in the      *)
(* workspace of Stream-K (see SlotsAgree), in the unified buffers that a   *)
(* per-tile cube core fills (see FixpipeAgrees) and within the slices of   *)
(* split k, for which the host leaves room (see TilesFitSlices).           *)
WorkspaceAgrees ==
  /\ kind = "streamk" => STREAMK!SlotsAgree(shape)
  /\ kind = "pertile" => \A t \in PERTILE!Shapes(shape.parts) : PERTILE!FixpipeAgrees(t[1], t[2])
  /\ kind = "splitk" => SPLITK!TilesFitSlices(shape)

(* The vector cores of a tile share its rows out, whatever its size and    *)
(* alignment (see PartsShareRows and VectorCoresShare).                    *)
RowsSharedOut ==
  /\ kind = "streamk" =>
       \A rows \in RowCounts, columns \in ColumnCounts : STREAMK!PartsShareRows(shape, rows, columns)
  /\ kind = "pertile" => \A t \in PERTILE!Shapes(shape.parts) : PERTILE!VectorCoresShare(t[1], t[2])

(* The vector cores of split k add up every element of a tile, from where  *)
(* it lies in the slices, and spoil no other (see ReducesFromOwnTile).     *)
SlicesReduced == kind = "splitk" => SPLITK!ReducesFromOwnTile(shape)

(* What a core computes fits into its buffers, and a round into the cores  *)
(* (see PartsFit, ShrunkFits and HalvesFit).                               *)
BlocksFit ==
  /\ kind = "aswt" => ASWT!PartsFit(ASWT!Scheduler(shape))
  /\ kind = "base" => ASWT!ShrunkFits(shape, ASWT!FormulateBasicBlock(shape))
  /\ kind = "pertile" => \A t \in PERTILE!Shapes(shape.parts) : PERTILE!HalvesFit(t[1], t[2])

(* A vector core never scales two groups with one number (see OneScaleEach)*)
ScaleOfItsGroup == kind = "pertile" => PERTILE!OneScaleEach(shape.parts)

(* The offsets walked over batches of the output are those that the rules  *)
(* of broadcasting give a batch of an input (see BroadcastAgrees).         *)
BatchesBroadcast == kind = "batch" => PERTILE!BroadcastAgrees(shape.a, shape.c)
===============================================================================
