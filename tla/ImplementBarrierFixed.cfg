SPECIFICATION Spec
CONSTANT Threads = {t1, t2, t3, t4}
CONSTANT IntModulus = 8
CONSTANT Programs = {"buggy", "fixed"}
INVARIANT TypeOK
INVARIANT NobodyLeftBehind
INVARIANT DeadlockOnlyByMissedRound
PROPERTY LinesAreBarriers
PROPERTY EveryoneGetsThrough
