SPECIFICATION QueueSpec
CONSTANT Capacities = {1, 2, 3}
INVARIANT QueueTypeOK
INVARIANT NoLostWakeup
PROPERTY ImplementsQueue
