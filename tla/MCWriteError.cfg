SPECIFICATION Spec
CONSTANTS
  Scale = 8
  SizeMod = 32
  Buffered = 48
  Spellings <- MCSpellings
  MaxRuns = 1
  InputFiles <- MCInputFiles
  Commands <- MCCommands
INVARIANTS
  FailureIsExplained
\* main() returns
CHECK_DEADLOCK FALSE
