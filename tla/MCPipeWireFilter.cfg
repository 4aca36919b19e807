SPECIFICATION Spec
CONSTANTS
  FrameSize = 3
  Headroom = 8
  MaxQuantum = 30
  MaxCaptured = 40
  Capacity <- MCCapacity
  Quanta <- MCQuanta
  Commands <- MCCommands
INVARIANTS
  TypeOK
  LatencyBounded
  SilenceIsDelay
  NoSampleDropped
  StartsWhole
PROPERTIES
  ImplementsDelayedStream
  SignalEndsFilter
\* the program exits
CHECK_DEADLOCK FALSE
