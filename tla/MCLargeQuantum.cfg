SPECIFICATION Spec
CONSTANTS
  FrameSize = 2
  Headroom = 8
  MaxQuantum = 18
  MaxCaptured = 40
  Capacity <- MCCapacity
  Quanta <- MCQuanta
  Commands <- MCPlainOnly
INVARIANTS
  NoSampleDropped
\* the program exits
CHECK_DEADLOCK FALSE
