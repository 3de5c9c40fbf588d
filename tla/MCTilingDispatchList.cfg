CONSTANT Dispatchers = {"NewList"}
CONSTANT Priorities = {0, 1, 2}
CONSTANT Lists <- PassedLists
CONSTANT Modal = {1}
SPECIFICATION Spec
INVARIANT FailureAborts
CHECK_DEADLOCK FALSE
