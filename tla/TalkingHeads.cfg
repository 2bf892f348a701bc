SPECIFICATION Spec
CONSTANT NProcs = {3}
CONSTANT Inits = {0, 1, 2}
CONSTANT Leftovers = {0}
CONSTANT MaxCtrlC = 2
INVARIANT TypeOK
INVARIANT UnitsAreConserved
INVARIANT ParentMissesFew
PROPERTY CtrlCEnds
\* Everybody is gone after Ctrl-C.
CHECK_DEADLOCK FALSE
