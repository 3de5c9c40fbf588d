CONSTANT Launches <- Numbers
CONSTANT Program <- Programs
CONSTANT Product <- Results
CONSTANT SetAhead <- SetAheadOf
CONSTANT Left <- LeftOf
SPECIFICATION FairSpec
INVARIANT FlagsBalanced
INVARIANT FlagsNeverPileUp
PROPERTY ImplementsMatmul
PROPERTY Termination
CHECK_DEADLOCK FALSE
