CONSTANT Ratio = 2
CONSTANT MaxCores = 8
CONSTANT MaxTiles = 11
CONSTANT RowCounts = {1, 2, 7, 16, 17, 33}
CONSTANT ColumnCounts = {1, 3, 8, 32, 40}
CONSTANT AswtCores = {2, 3, 6, 8}
CONSTANT AswtSizes = {1, 40, 64, 100, 200, 450}
CONSTANT AswtBases = {64, 48}
CONSTANT AswtBatches = {1, 3}
CONSTANT PerCores = {1, 3, 7, 56}
CONSTANT PerSizes = {1, 100, 128, 256, 300, 384}
CONSTANT PerBatches = {1, 4, 5}
CONSTANT Axes = {1, 2, 3}
CONSTANT SplitCores = {2, 5}
CONSTANT SplitSizes = {1, 4, 5, 13, 24, 29, 50}
CONSTANT SplitL2s = {10, 40, 50}
CONSTANT Block33 = 24
CONSTANT Block = 8
CONSTANT Row256 = 4
CONSTANT Align16 = 2
CONSTANT DataSize = 72
SPECIFICATION Spec
INVARIANT EveryTileOnce
INVARIANT EveryChunkOnce
INVARIANT PreloadReorders
INVARIANT WorkspaceAgrees
INVARIANT RowsSharedOut
INVARIANT SlicesReduced
INVARIANT BlocksFit
INVARIANT ScaleOfItsGroup
INVARIANT BatchesBroadcast
CHECK_DEADLOCK FALSE
