SPECIFICATION Spec
CONSTANT Programs = {"race", "fcntl", "sysv", "posix", "foo", "mutex"}
CONSTANT Leftovers = {0, 2}
CONSTANT MaxSigints = 2
INVARIANT TypeOK
INVARIANT NoRaceSeen
INVARIANT ParentReapsChild
INVARIANT NoLeakedSemaphore
PROPERTY CtrlCEnds
\* The programs end after Ctrl-C.
CHECK_DEADLOCK FALSE
