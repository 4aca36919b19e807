SPECIFICATION Spec
CONSTANTS
  PlugIn = PlugIn
  Device = Device
  StreamInput = StreamInput
  Unknown = Unknown
  Objects = {PlugIn, Device, StreamInput, Other}
  Selectors <- MCSelectors
  BufferSizes = {0, 4, 8, 40}
  Clients = {Recorder, Call}
  MaxRefs = 2
  MaxFacts = 2
INVARIANTS
  TypeOK
  AnswersAgree
  ObjectsFormTree
  OneWorkerWhileRunning
PROPERTIES
  StopIOReturns
\* the process exits
CHECK_DEADLOCK FALSE
