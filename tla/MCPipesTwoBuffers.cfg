CONSTANT Launches <- TwoBuffers
CONSTANT Program <- Programs
CONSTANT Product <- Results
CONSTANT SetAhead <- SetAheadOf
CONSTANT Left <- LeftOf
SPECIFICATION Spec
INVARIANT FlagsBalanced
CHECK_DEADLOCK FALSE
