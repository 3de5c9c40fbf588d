CONSTANT Dispatchers = {"New", "NewList", "Plain", "PlainList", "MM"}
CONSTANT Priorities = {0, 1, 2}
CONSTANT Lists <- PassedLists
CONSTANT Modal = {1}
SPECIFICATION Spec
INVARIANT StrictDispatchAborts
INVARIANT SmallestPriorityWins
INVARIANT ContextOfOneTemplate
INVARIANT AllAskedBeforeGivingUp
CHECK_DEADLOCK FALSE
