SPECIFICATION Spec
CONSTANT NumHosts = 2
CONSTANT MaxAddrs = 3
CONSTANT MAX_SOCKETS = 2
CONSTANT TIMEOUT = 3
INVARIANT TypeOK
INVARIANT Accounting
INVARIANT VerdictsTrue
PROPERTY EndsWithVerdicts
\* The program ends.
CHECK_DEADLOCK FALSE
