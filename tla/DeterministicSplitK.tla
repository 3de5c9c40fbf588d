--------------------------- MODULE DeterministicSplitK --------------------------
(***************************************************************************)
(* What MatMulKernelDeterministicSplitK hands to the pipes of the cube     *)
(* cores and of their vector cores (910B).  A cube core leaves tile n of   *)
(* its blocks of k in one half of its slice of the workspace; the vector   *)
(* cores, all of which need the slices of all cube cores, add them up.     *)
(* What IterateAll does within a cube core is the library's: here it is    *)
(* one write to the workspace on the FIX pipe.                             *)
(*                                                                         *)
(* A launch has cores (cube cores), kCnt (blocks of k), bias, nz (the      *)
(* slices hold NZ blocks: ReduceKNzInUb and ReduceKInUbNzL2cache) and      *)
(* tiles; a tile is the sequence of what each vector core has to do: with  *)
(* nz its columns of blocks, each with the number of pieces that fit UB,   *)
(* otherwise the number of full pieces and whether there is a rest.        *)
(***************************************************************************)
EXTENDS Instructions

NUM_AIV_TO_AIC_RATIO == 2
AIV_SYNC_AIC_FLAG == 4
AIC_SYNC_AIV_FLAG == 6

\* the two vector cores of a cube core set one flag, which waits for both;
\* SyncAll, which is the library's, takes a flag from each core to each
BOTH == 16
SYNC_ALL == 100

Aic(i) == <<"aic0", "aic1", "aic2">>[i + 1]
Aiv(v) == <<"aiv0", "aiv1", "aiv2", "aiv3", "aiv4", "aiv5">>[v + 1]
Workspace(i, pp) == <<Aic(i), "workspace", pp>>
Ub1(v, pp) == <<Aiv(v), "ubSrc1", pp>>
Ub2(v, pp) == <<Aiv(v), "ubSrc2", pp>>

Aics(l) == 0 .. l.cores - 1
Aivs(l) == 0 .. NUM_AIV_TO_AIC_RATIO * l.cores - 1

\* cores: the names of all that meet; me: the index of the caller
SyncAll(cores, me, pipe) ==
  LET others == SetToSeq(DOMAIN cores \ {me})
  IN  [x \in DOMAIN others |-> CrossCoreSetFlag(cores[me], pipe, cores[others[x]], SYNC_ALL + me)]
        \o [x \in DOMAIN others |-> CrossCoreWaitFlag(cores[me], pipe, SYNC_ALL + others[x])]
SyncAllAic(l, i) == SyncAll([j \in Aics(l) |-> Aic(j)], i, "FIX")
SyncAllAiv(l, v) == SyncAll([u \in Aivs(l) |-> Aiv(u)], v, "MTE2")

ToAiv(i, pp) == [s \in 1 .. 2 |-> CrossCoreSetFlag(Aic(i), "FIX", Aiv(2 * i + s - 1), AIC_SYNC_AIV_FLAG + pp)]
FromAic(v, pp) == CrossCoreWaitFlag(Aiv(v), "MTE2", AIC_SYNC_AIV_FLAG + pp)
ToAic(v, pp) ==
  CrossCoreSetFlag(Aiv(v), "MTE3", Aic(v \div 2), AIV_SYNC_AIC_FLAG + pp + (v % 2) * BOTH)
FromAivs(i, pp) == [s \in 1 .. 2 |-> CrossCoreWaitFlag(Aic(i), "FIX", AIV_SYNC_AIC_FLAG + pp + (s - 1) * BOTH)]

-------------------------------------------------------------------------------
(* MatMulMultiCoreSplitKDivide and -L2cache: cube core i and tile n = 0, 1,*)
(* ..., with the bias in the slice of block 0.                             *)
Shares == INSTANCE SplitKSchedule WITH
  Ratio <- 2, Block33 <- 384, Block <- 128, Row256 <- 64, Align16 <- 16, DataSize <- 12288

Partial(l, n, i) ==
  LET blocks == Shares!BlocksOfK(l.kCnt, l.cores, i)
  IN  When(l.bias /\ 0 \in blocks, << <<"bias", n, 0>> >>)
        \o [x \in 1 .. Cardinality(blocks) |-> <<"AB", n, Min(blocks) + x - 1>>]

AicTile(l, n, i) ==
  When(n > 1, FromAivs(i, n % 2) \o SyncAllAic(l, i))
    \o <<Load(Aic(i), "FIX", Partial(l, n, i), Workspace(i, n % 2))>> \o ToAiv(i, n % 2)

-------------------------------------------------------------------------------
(* What pipe q is given afterwards waits for what p was given before; a    *)
(* PipeBarrier<PIPE_ALL> does so for all pipes, and is stated for those    *)
(* between which it makes a difference.                                    *)
After(v, p, q, id) == <<SetFlag(Aiv(v), p, q, id), WaitFlag(Aiv(v), p, q, id)>>
TPipeSetWaitFlag(v, p, q) == After(v, p, q, 2)
PipeBarrier(v, p, q) == After(v, p, q, 3)

(* SplitKVectorProcess, and one round of SplitKVectorNZProcess: a piece of *)
(* tile n of all slices through the ping (0) or pong (1) buffers of vector *)
(* core v.  The cast of the sum is in place.                               *)
VectorProcess(l, n, v, piece, pp) ==
  <<Copy(Aiv(v), "MTE2", Workspace(0, n % 2), {Ub1(v, pp)}, 0)>>
    \o FlattenSeq([j \in 1 .. l.cores - 1 |->
         <<Copy(Aiv(v), "MTE2", Workspace(j, n % 2), {Ub2(v, pp)}, 0)>>
           \o TPipeSetWaitFlag(v, "MTE2", "V")
           \o <<Mac(Aiv(v), "V", << <<Ub2(v, pp), 0>> >>, Len(Partial(l, n, j)), Ub1(v, pp), Ub1(v, pp), 0)>>
           \o TPipeSetWaitFlag(v, "V", "MTE2")])
    \o TPipeSetWaitFlag(v, "V", "MTE3")
    \o <<Store(Aiv(v), "MTE3", Ub1(v, pp), <<n, v, piece>>, 0)>>

Free(v, pp) == SetFlag(Aiv(v), "MTE3", "MTE2", pp)
Claim(v, pp) == WaitFlag(Aiv(v), "MTE3", "MTE2", pp)
Claims(v) == <<Claim(v, 0), Claim(v, 1)>>
Frees(v) == <<Free(v, 0), Free(v, 1)>>

(* The pieces of a tile of one vector core, all but the rest in ping-pong. *)
Pieces(l, n, v, work) ==
  Frees(v)
    \o FlattenSeq([x \in 1 .. work.repeat |->
         <<Claim(v, (x - 1) % 2)>> \o VectorProcess(l, n, v, <<x, 1>>, (x - 1) % 2) \o <<Free(v, (x - 1) % 2)>>])
    \o Claims(v)
    \o When(work.tail, VectorProcess(l, n, v, <<work.repeat + 1, 1>>, work.repeat % 2))

(* With nz: column by column of blocks, and a column in rounds.            *)
NzColumns(l, n, v, columns) ==
  Frees(v)
    \o FlattenSeq([x \in DOMAIN columns |->
         LET pp == (x - 1) % 2
         IN  <<Claim(v, pp)>>
               \o FlattenSeq([r \in 1 .. columns[x] |->
                    VectorProcess(l, n, v, <<x, r>>, pp) \o TPipeSetWaitFlag(v, "MTE3", "MTE2")])
               \o <<Free(v, pp)>>])
    \o Claims(v)

(* All slices of tile n are there; a half of them is given back.           *)
Begin(l, n, v) ==
  <<FromAic(v, n % 2)>> \o SyncAllAiv(l, v) \o PipeBarrier(v, "MTE2", "MTE3")
GiveBack(v, n) == <<ToAic(v, n % 2)>> \o PipeBarrier(v, "MTE3", "MTE2")

IsLast(l, n) == n = Len(l.tiles) - 1
IsIdle(work) == work.repeat = 0 /\ ~work.tail

(* A tile on vector core v: ReduceKInUb and ReduceKInUbL2cache ...         *)
AivTile(l, n, v) ==
  LET work == l.tiles[n + 1][v + 1]
  IN  Begin(l, n, v) \o When(~IsIdle(work), Pieces(l, n, v, work))
      \o When(~IsLast(l, n), GiveBack(v, n))

(* ... and ReduceKNzInUb and ReduceKInUbNzL2cache.                         *)
AivTileNz(l, n, v) ==
  Begin(l, n, v) \o NzColumns(l, n, v, l.tiles[n + 1][v + 1])
    \o When(~IsLast(l, n), SyncAllAiv(l, v) \o PipeBarrier(v, "MTE2", "MTE3") \o GiveBack(v, n))

Kernel(l) ==
  FlattenSeq([i \in 1 .. l.cores |->
     FlattenSeq([n \in DOMAIN l.tiles |-> AicTile(l, n - 1, i - 1)])])
  \o FlattenSeq([v \in 1 .. NUM_AIV_TO_AIC_RATIO * l.cores |->
     FlattenSeq([n \in DOMAIN l.tiles |->
        IF l.nz THEN AivTileNz(l, n - 1, v - 1) ELSE AivTile(l, n - 1, v - 1)])])

(* Each piece holds the sum of the slices.                                 *)
PiecesOf(l, work) ==
  IF l.nz THEN {<<x, r>> \in (DOMAIN work) \X (1 .. 3) : r <= work[x]}
  ELSE {<<x, 1>> : x \in 1 .. work.repeat + (IF work.tail THEN 1 ELSE 0)}

Sum(l, n) ==
  Partial(l, n, 0)
    \o FlattenSeq([j \in 1 .. l.cores - 1 |->
         LET partial == Partial(l, n, j) IN [x \in DOMAIN partial |-> <<partial[x]>>]])

Result(l) ==
  [b \in UNION {{<<n - 1, v - 1, p>> : p \in PiecesOf(l, l.tiles[n][v])} :
                n \in DOMAIN l.tiles, v \in 1 .. NUM_AIV_TO_AIC_RATIO * l.cores} |->
     Sum(l, b[1])]

(* A core may come to the next SyncAll before all have left the last one;  *)
(* ping and pong share the event by which a sum is finished.               *)
BuffersBehind(f) == IF f[4] >= SYNC_ALL \/ (f[2] = "V" /\ f[3] = "MTE3") THEN 2 ELSE 1

(* Vector cores tell a cube core that a half is free once more than it     *)
(* minds: nobody waits for the last time but one.                          *)
FlagsLeft(l) ==
  IF Len(l.tiles) < 2 THEN {}
  ELSE {ToAic(v, Len(l.tiles) % 2).flag : v \in Aivs(l)}
===============================================================================
