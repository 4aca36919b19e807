SPECIFICATION Spec
CONSTANTS
  FrameSize = 2
  Headroom = 2
  Quanta = {1, 3}
  MaxCaptured = 10
  InCapacity <- MCCapacity
  OutCapacity <- MCCapacity
INVARIANTS
  TypeOK
  DelayIsSilence
  DelayBounded
  LossOnlyAfterUnderrun
  WorkerGoneWhenStopped
PROPERTIES
  ImplementsDelayedStream
  StopReturns
  EverySampleTaken
