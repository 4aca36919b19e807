SPECIFICATION Spec
CONSTANTS
  Capacity = 2
  IndexMod = 8
  zero = zero
  tone = tone
  MaxBatch = 3
  Sample <- MCSample
  Zero = zero
  Batches <- MCBatches
  Counts = {1, 3}
INVARIANTS
  TypeOK
  NoDataRace
  IndexesInStep
PROPERTIES
  ImplementsFifo
  WaitFree
