SPECIFICATION Spec
CONSTANT Writers = {w1, w2}
CONSTANT FileLen = 6
CONSTANT Modes = {"NO_LOCK", "SHARED_FD", "EXCLUSIVE_FD"}
INVARIANT TypeOK
INVARIANT SecondHalfUniform
INVARIANT InsideTheFile
PROPERTY WrittenUnderLock
\* Everybody is gone after Ctrl-C.
CHECK_DEADLOCK FALSE
