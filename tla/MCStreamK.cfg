CONSTANT Ratio = 2
CONSTANT Shapes <- SmallShapes
SPECIFICATION FairSpec
INVARIANT TypeOK
INVARIANT FlagsBalanced
PROPERTY SlotsWrittenOnce
PROPERTY ImplementsMatmul
PROPERTY Termination
CHECK_DEADLOCK FALSE
