SPECIFICATION Spec
CONSTANTS
  NoFile = NoFile
  FrameSize = 2
  Kinds <- DenoiseOnly
  Files <- DenoiseFiles
  FrameSizes = {1, 2}
  MaxFrames = 2
PROPERTIES
  ShapesCheckedAtLoad
