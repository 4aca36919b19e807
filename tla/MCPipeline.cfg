SPECIFICATION Spec
CONSTANTS
  NoFile = NoFile
  FrameSize = 2
  Kinds <- FrontEndKinds
  Files <- FrontEndFiles
  FrameSizes = {1, 2}
  MaxFrames = 3
INVARIANTS
  TypeOK
  SlotDescribesSession
  StateFollowsRuns
PROPERTIES
  ThrowsOnlyOffContract
  ReturnsThisFrame
