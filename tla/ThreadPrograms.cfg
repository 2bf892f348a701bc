\* Three threads that go round twice; sums of up to 15 + 15 in 4 bits.
CONSTANTS
  N = 3
  Loops = 2
  Width = 16
  AddNs = {0, 3, 4, 6}
  WriterEvery = 2
SPECIFICATION Spec
INVARIANTS TypeOK OwnArgument Verdicts AdditionsKept InheritedMutex
PROPERTY ProgramsEnd
CHECK_DEADLOCK FALSE
