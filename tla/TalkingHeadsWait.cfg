SPECIFICATION SafeSpec
CONSTANT NProcs = {2}
CONSTANT Inits = {1}
CONSTANT Leftovers = {}
CONSTANT MaxCtrlC = 1
INVARIANT ParentWaitsForAll
CHECK_DEADLOCK FALSE
