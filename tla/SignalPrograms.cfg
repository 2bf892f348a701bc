\* Three signals from outside; 255 + 1 wraps around, as 3 + 1 does here.
CONSTANTS
  MaxSignals = 3
  Values = {0, 1, 3}
  StatusMod = 4
  SemInit = 2
  SemMax = 3
SPECIFICATION Spec
INVARIANTS TypeOK KilledOnlyUnprepared OneBall ReportsAreTrue OneWorker
PROPERTY SignalsTakeEffect
CHECK_DEADLOCK FALSE
