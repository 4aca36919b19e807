SPECIFICATION Spec
CONSTANTS
  Scale = 8
  SizeMod = 32
  Buffered = 48
  Spellings <- MCSpellings
  MaxRuns = 2
  InputFiles <- MCInputFiles
  Commands <- MCCommands
INVARIANTS
  TypeOK
  DataInsideFile
  OutputIsResampledInput
  SecondPassIsFaithful
PROPERTIES
  OutputWaitsForFrames
  MainReturns
\* main() returns
CHECK_DEADLOCK FALSE
