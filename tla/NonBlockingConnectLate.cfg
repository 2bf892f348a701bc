SPECIFICATION Spec
CONSTANT NumHosts = 1
CONSTANT MaxAddrs = 1
CONSTANT MAX_SOCKETS = 1
CONSTANT TIMEOUT = 2
PROPERTY TimedOutHadNoAnswer
CHECK_DEADLOCK FALSE
