\* Two pieces of data from every source, one that the kernel keeps: a writer gets
\* to wait for its reader, and a closed connection to break.
CONSTANTS
  K = 2
  Cap = 1
  Lines = 1
SPECIFICATION Spec
INVARIANTS TypeOK OutputIsInput
PROPERTY StreamsEnd
CHECK_DEADLOCK FALSE
