SPECIFICATION Spec
CONSTANTS
  MaxReceived = 40
  Rates <- MCRates
  Chunks <- MCChunks
INVARIANTS
  ChunksDoNotMatter
  NothingHeldBack
\* the stream ends
CHECK_DEADLOCK FALSE
