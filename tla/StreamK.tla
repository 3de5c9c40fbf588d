-------------------------------- MODULE StreamK --------------------------------
(***************************************************************************)
(* The Stream-K matmul kernel as the cube and vector cores of one launch   *)
(* run it: KernelMatmulStreamK::run (kernel_matmul_streamk.h), with the    *)
(* copy-out of BlockMmad (block_mmad_streamk.h) and the epilogue           *)
(* (block_epilogue_streamk.h).  Cube cores write whole tiles to the output *)
(* and chunks to the workspace; flags, set behind the copy-out on the FIX  *)
(* pipe, tell the vector cores of the same AI core; SyncAll joins all      *)
(* vector cores; then each sums and writes its part of one split tile.     *)
(***************************************************************************)
EXTENDS StreamKSchedule

CONSTANT Shapes     \* the shapes considered, each allowed by the host tiling

ASSUME ShapesAssumption == \A s \in Shapes : s \in ShapeRecords /\ HostAllows(s)

VARIABLES
  shape,        \* the launch
  cube,         \* cube core -> the tile number it is at, and its next step
  vector,       \* vector core -> its next step, and what it holds in UB
  flag,         \* vector core -> flags set for it and not waited for yet
  workspace,    \* slot -> what was accumulated into it
  c             \* part of an output tile -> what was written to it

vars == <<shape, cube, vector, flag, workspace, c>>

(***************************************************************************)
(* A value is the multiset of terms it sums: a term is a chunk of the k    *)
(* axis of one tile, or (Bias) the bias of that tile.                      *)
(***************************************************************************)
Bias == -1
Terms(pos) == {pos} \X (Bias .. shape.sk - 1)
Once(T) == [x \in T |-> 1]
Zero == [x \in {} |-> 0]

Blocks == Positions(shape) \X Parts(shape)
Product(b) == Once(Terms(b[1]))

TypeOK ==
  /\ shape \in Shapes
  /\ cube \in [Cores(shape) -> [at : Nat, pc : {"start", "tile", "flags", "done"}]]
  /\ DOMAIN vector = Vectors(shape)
  /\ \A v \in Vectors(shape) : vector[v].pc \in {"wait", "sync", "load", "store", "done"}
  /\ flag \in [Vectors(shape) -> 0 .. 1]
  /\ DOMAIN workspace = Cores(shape)
  /\ DOMAIN c = Blocks

Init ==
  /\ shape \in Shapes
  /\ cube = [i \in Cores(shape) |-> [at |-> i, pc |-> "start"]]
  /\ vector = [v \in Vectors(shape) |-> [pc |-> "wait", ub |-> Zero]]
  /\ flag = [v \in Vectors(shape) |-> 0]
  /\ workspace = [w \in Cores(shape) |-> Zero]
  /\ c = [b \in Blocks |-> Zero]

-------------------------------------------------------------------------------
(* Cube core i.                                                            *)

(* CrossCoreSetFlag on AIC_SYNC_AIV_FLAG and AIC_SYNC_AIV_FLAG+FLAG_ID_MAX.*)
SetFlags(i) ==
  flag' = [v \in Vectors(shape) |-> flag[v] + (IF v \div Ratio = i THEN 1 ELSE 0)]

CubeGoto(i, pc) == cube' = [cube EXCEPT ![i].pc = pc]

\* broken variant: a core without a tile leaves without a word
CubeStartSilent(i) ==
  /\ cube[i].pc = "start"
  /\ CubeGoto(i, IF i >= BlockNum(shape) THEN "done" ELSE "tile")
  /\ UNCHANGED <<shape, vector, flag, workspace, c>>

(* A core beyond GetBlockNum() sets the flags and returns.                 *)
CubeStart(i) ==
  /\ cube[i].pc = "start"
  /\ IF i >= BlockNum(shape)
       THEN SetFlags(i) /\ CubeGoto(i, "done")
       ELSE CubeGoto(i, "tile") /\ UNCHANGED flag
  /\ UNCHANGED <<shape, vector, workspace, c>>

MyTile(i) == TileAt(shape, cube[i].at)

(* Where the loop goes after the tile: on, or out.                         *)
Onward(i) ==
  [at |-> cube[i].at + shape.cores,
   pc |-> IF cube[i].at + shape.cores < TileNum(shape) THEN "tile" ELSE "done"]

(* NeedBias: the bias is added by the first k iteration of the first chunk.*)
ChunkTerms(pos, k) == {<<pos, k>>} \cup (IF k = 0 THEN {<<pos, Bias>>} ELSE {})

(* blockMmadOp and its CopyOut: a chunk to the workspace, a whole tile, of *)
(* all terms, to the output.                                               *)
CubeTile(i) ==
  LET t == MyTile(i)  pos == TilePosition(shape, t) IN
  /\ cube[i].pc = "tile"
  /\ IF IsSk(shape, t)
       THEN /\ workspace' = [workspace EXCEPT ![Slot(shape, t)] =
                               Once(ChunkTerms(pos, KIdx(shape, t)))]
            /\ UNCHANGED c
       ELSE /\ c' = [b \in Blocks |-> IF b[1] = pos THEN Product(b) ELSE c[b]]
            /\ UNCHANGED workspace
  /\ IF IsLast(shape, t) THEN CubeGoto(i, "flags") ELSE cube' = [cube EXCEPT ![i] = Onward(i)]
  /\ UNCHANGED <<shape, vector, flag>>

(* The flags of the tile, behind its copy-out on the FIX pipe.             *)
CubeFlags(i) ==
  /\ cube[i].pc = "flags"
  /\ SetFlags(i)
  /\ cube' = [cube EXCEPT ![i] = Onward(i)]
  /\ UNCHANGED <<shape, vector, workspace, c>>

-------------------------------------------------------------------------------
(* Vector core v.                                                          *)

VectorGoto(v, pc) == vector' = [vector EXCEPT ![v].pc = pc]

\* broken variant: the flag is looked at, not taken
VectorWaitKeepsFlag(v) ==
  /\ vector[v].pc = "wait"
  /\ flag[v] > 0
  /\ VectorGoto(v, "sync")
  /\ UNCHANGED <<shape, cube, flag, workspace, c>>

(* CrossCoreWaitFlag                                                       *)
VectorWait(v) ==
  /\ vector[v].pc = "wait"
  /\ flag[v] > 0
  /\ flag' = [flag EXCEPT ![v] = @ - 1]
  /\ VectorGoto(v, "sync")
  /\ UNCHANGED <<shape, cube, workspace, c>>

\* broken variant: a core only waits for its own cube core
VectorSyncSelf(v) ==
  /\ vector[v].pc = "sync"
  /\ VectorGoto(v, IF HasEpilogue(shape, v) THEN "load" ELSE "done")
  /\ UNCHANGED <<shape, cube, flag, workspace, c>>

(* SyncAll: nobody passes before every vector core has come.               *)
VectorSync(v) ==
  /\ vector[v].pc = "sync"
  /\ \A u \in Vectors(shape) : vector[u].pc # "wait"
  /\ VectorGoto(v, IF HasEpilogue(shape, v) THEN "load" ELSE "done")
  /\ UNCHANGED <<shape, cube, flag, workspace, c>>

Sum(W) ==
  [x \in UNION {DOMAIN workspace[w] : w \in W} |->
     Cardinality({w \in W : x \in DOMAIN workspace[w]})]

(* Epilogue: the rows of its part, out of all slots of the tile, into UB.  *)
VectorLoad(v) ==
  /\ vector[v].pc = "load"
  /\ vector' = [vector EXCEPT ![v] = [pc |-> "store", ub |-> Sum(EpilogueSlots(shape, v))]]
  /\ UNCHANGED <<shape, cube, flag, workspace, c>>

(* Epilogue: the sum, from UB to the output.                               *)
VectorStore(v) ==
  /\ vector[v].pc = "store"
  /\ c' = [c EXCEPT ![<<EpiloguePosition(shape, v), EpiloguePart(shape, v)>>] = vector[v].ub]
  /\ VectorGoto(v, "done")
  /\ UNCHANGED <<shape, cube, flag, workspace>>

CubeStep(i)   == CubeStart(i) \/ CubeTile(i) \/ CubeFlags(i)
VectorStep(v) == VectorWait(v) \/ VectorSync(v) \/ VectorLoad(v) \/ VectorStore(v)

Next ==
  \/ \E i \in Cores(shape) : CubeStep(i)
  \/ \E v \in Vectors(shape) : VectorStep(v)

Spec == Init /\ [][Next]_vars

(* No core is ever suspended for good; as every core takes finitely many   *)
(* steps, it is enough that some core moves on while any of them can.      *)
FairSpec == Spec /\ WF_vars(Next)

-------------------------------------------------------------------------------
Finished ==
  /\ \A i \in Cores(shape) : cube[i].pc = "done"
  /\ \A v \in Vectors(shape) : vector[v].pc = "done"

(* What the safety of the kernel rests on (StreamK_proofs).  Tile number t *)
(* is computed by core t % cores, at the place of its loop where TileAt is *)
(* t, which is TileAt(t) itself; the core has told its vector cores when   *)
(* it is past its last tile, or has none.                                  *)
Computed(t) ==
  LET core == cube[t % shape.cores] IN
  \/ TileAt(shape, t) < core.at
  \/ TileAt(shape, t) = core.at /\ core.pc = "flags"

Told(i) ==
  IF i >= BlockNum(shape)
    THEN cube[i].pc = "done"
    ELSE \E t \in TilesOf(shape, i) : IsLast(shape, t) /\ TileAt(shape, t) < cube[i].at

CubesInLoop ==
  \A i \in Cores(shape) :
     /\ cube[i].at % shape.cores = i
     /\ cube[i].pc = "start" => cube[i].at = i
     /\ cube[i].pc \in {"tile", "flags"} => cube[i].at < TileNum(shape)
     /\ cube[i].pc = "flags" => IsLast(shape, MyTile(i))
     /\ cube[i].pc = "done" => cube[i].at >= TileNum(shape)

(* Slot w is for the chunk of core w, if there is one.                     *)
WorkspaceTells ==
  \A w \in Cores(shape) :
     LET t == DpTiles(shape) + w IN
     workspace[w] =
       IF w < Tail(shape) * shape.sk /\ Computed(t)
         THEN Once(ChunkTerms(TilePosition(shape, t), KIdx(shape, t)))
         ELSE Zero

FlagsTell ==
  \A v \in Vectors(shape) :
     flag[v] + (IF vector[v].pc = "wait" THEN 0 ELSE 1) = IF Told(v \div Ratio) THEN 1 ELSE 0

EpilogueBlock(v) == <<EpiloguePosition(shape, v), EpiloguePart(shape, v)>>

VectorsInStep ==
  \A v \in Vectors(shape) :
     /\ vector[v].pc \in {"load", "store", "done"} =>
          \A u \in Vectors(shape) : vector[u].pc # "wait"
     /\ vector[v].pc \in {"load", "store"} => HasEpilogue(shape, v)
     /\ vector[v].pc = "store" => vector[v].ub = Product(EpilogueBlock(v))

Written(b) ==
  \/ \E t \in 0 .. DpTiles(shape) - 1 : Computed(t) /\ TilePosition(shape, t) = b[1]
  \/ \E v \in Vectors(shape) :
        HasEpilogue(shape, v) /\ EpilogueBlock(v) = b /\ vector[v].pc = "done"

OutputTells == \A b \in Blocks : c[b] = IF Written(b) THEN Product(b) ELSE Zero

IInv ==
  TypeOK /\ CubesInLoop /\ WorkspaceTells /\ FlagsTell /\ VectorsInStep /\ OutputTells

(* Each part of each output tile is written once, by a cube or by a vector *)
(* core, and what is written is the whole product: no partial sum is read  *)
(* before it is complete, none is summed twice, the bias is added once.    *)
Matmul == INSTANCE AbstractMatmul
            WITH product <- [b \in Blocks |-> Product(b)], Nothing <- Zero

ImplementsMatmul == Matmul!Spec

(* A slot of the workspace is written by one core in one launch: a chunk   *)
(* is never lost under another one before it is summed.                    *)
SlotsWrittenOnce ==
  [][\A w \in DOMAIN workspace : workspace[w] # Zero => workspace'[w] = workspace[w]]_workspace

(* A flag is set once for every vector core and taken by it: none is left  *)
(* over to let a vector core of the next launch pass too early.            *)
FlagsBalanced == Finished => \A v \in Vectors(shape) : flag[v] = 0

(* When all cores have returned, the whole output is there.                *)
OutputComplete == Finished => \A b \in Blocks : c[b] = Product(b)

(* The launch ends, with the whole output there: no vector core waits for  *)
(* a flag that nobody sets, and none ends before its part is summed.       *)
Termination == <>(Finished /\ OutputComplete)
===============================================================================
