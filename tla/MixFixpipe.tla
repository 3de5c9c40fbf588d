------------------------------- MODULE MixFixpipe ------------------------------
(***************************************************************************)
(* What KernelMatmulMixFixpipeOpti hands to the pipes of a cube core and   *)
(* its two vector cores: the cube core computes a tile as in MmadPingpong, *)
(* its FIX pipe moves the result to a buffer of the vector cores, and the  *)
(* MTE3 pipes of the vector cores move it on to the output.                *)
(*                                                                         *)
(* A launch is one of MmadPingpong, with in addition enable2UB (half of    *)
(* the lines of a tile to each vector core) and enableUbDB (two buffers),  *)
(* and for each tile its number of lines.                                  *)
(***************************************************************************)
EXTENDS Instructions

MMAD == INSTANCE MmadPingpong

AIV_SYNC_AIC_FLAG == 5
AIC_SYNC_AIV_FLAG == 8
FLAG_ID_MAX == 16
TaskRation == 2

Aiv(sub) == <<"aiv0", "aiv1">>[sub + 1]
UB(sub, pp) == <<Aiv(sub), "UB", pp>>

ToAic(sub, pp)    == CrossCoreSetFlag(Aiv(sub), "MTE3", "aic", AIV_SYNC_AIC_FLAG + pp + sub * FLAG_ID_MAX)
FromAiv(sub, pp)  == CrossCoreWaitFlag("aic", "FIX", AIV_SYNC_AIC_FLAG + pp + sub * FLAG_ID_MAX)
ToAiv(sub, pp)    == CrossCoreSetFlag("aic", "FIX", Aiv(sub), AIC_SYNC_AIV_FLAG + pp)
FromAic(sub, pp)  == CrossCoreWaitFlag(Aiv(sub), "MTE3", AIC_SYNC_AIV_FLAG + pp)

(* Both buffers of a vector core are free at first, and in the end again.  *)
ConstructAiv(sub) == <<ToAic(sub, 0), ToAic(sub, 1)>>
DestructAic == <<FromAiv(0, 0), FromAiv(1, 0), FromAiv(0, 1), FromAiv(1, 1)>>

PingPong(l, n) == IF l.enableUbDB THEN n % 2 ELSE 0

(* Lines of a tile that vector core sub moves; the first takes the odd one.*)
Lines(l, t, sub) ==
  IF ~l.enable2UB THEN t.lines
  ELSE IF t.lines % 2 = 1 THEN CeilDiv(t.lines, TaskRation) - sub
  ELSE CeilDiv(t.lines, TaskRation)

(* Tile number n (cvIndex) on the cube core ...                            *)
AicTile(l, n, loop, l0) ==
  LET t  == l.tiles[n]
      pp == PingPong(l, n - 1)
      copyOut == Copy("aic", "FIX", MMAD!CO1(MMAD!L0C(l, n - 1)),
                      {UB(0, pp)} \cup IF l.enable2UB THEN {UB(1, pp)} ELSE {}, MMAD!Unit(l))
  IN  <<FromAiv(0, pp)>> \o When(l.enable2UB, <<FromAiv(1, pp)>>)
      \o MMAD!TileOf(l, t, n - 1, loop, l0, copyOut)
      \o <<ToAiv(0, pp)>> \o When(l.enable2UB, <<ToAiv(1, pp)>>)

(* ... and on a vector core; the epilogue skips a part without lines.      *)
\* broken variant: without lines the buffer is not given back either
AivTileKept(l, n, sub) ==
  LET t  == l.tiles[n]
      pp == PingPong(l, n - 1)
  IN  <<FromAic(sub, pp)>>
      \o When(Lines(l, t, sub) > 0,
              <<Store(Aiv(sub), "MTE3", UB(sub, pp), <<t.row, t.column, sub>>, 0), ToAic(sub, pp)>>)

AivTile(l, n, sub) ==
  LET t  == l.tiles[n]
      pp == PingPong(l, n - 1)
  IN  <<FromAic(sub, pp)>>
      \o When(Lines(l, t, sub) > 0,
              <<Store(Aiv(sub), "MTE3", UB(sub, pp), <<t.row, t.column, sub>>, 0)>>)
      \o <<ToAic(sub, pp)>>

Aic(l) ==
  MMAD!Construct \o When(l.tiles # <<>>, MMAD!FullLoad(l))
    \o FlattenSeq([n \in DOMAIN l.tiles |->
         AicTile(l, n, MMAD!LoopsBefore(l)[n], MMAD!PiecesBefore(l)[n])])
    \o MMAD!Destruct \o DestructAic

(* Without enable2UB the second vector core leaves at once.                *)
AivRun(l, sub) ==
  ConstructAiv(sub)
    \o When(sub = 0 \/ l.enable2UB,
            FlattenSeq([n \in DOMAIN l.tiles |-> AivTile(l, n, sub)]))

Kernel(l) == Aic(l) \o AivRun(l, 0) \o AivRun(l, 1)

Result(l) ==
  LET parts == {x \in (DOMAIN l.tiles) \X {0, 1} :
                  Lines(l, l.tiles[x[1]], x[2]) > 0 /\ (x[2] = 0 \/ l.enable2UB)}
  IN  [b \in {<<l.tiles[x[1]].row, l.tiles[x[1]].column, x[2]>> : x \in parts} |->
         MMAD!Complete(l, b[1], b[2])]
===============================================================================
