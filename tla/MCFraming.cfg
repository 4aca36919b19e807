SPECIFICATION Spec
CONSTANTS
  FrameSize = 5
  MaxCaptured = 24
  Hops <- MCHops
  Chunks <- MCChunks
INVARIANTS
  FramesFollowStream
  ReadyIsFinal
\* the stream ends
CHECK_DEADLOCK FALSE
