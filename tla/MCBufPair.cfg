CONSTANTS
  d1 = d1
  d2 = d2
  drv = drv
  c = c
  z = z
  NULL = NULL
  Producers <- MCOneProducer
  Consumers <- MCConsumers
  Chunks <- MCChunks
  DoneChunks <- MCDoneChunks
  MaxBufNum = 2
  MaxCount = 2
  MaxOrder = 2
SPECIFICATION FairSpec
INVARIANTS
  NoLostWakeup
PROPERTIES
  AddReturns
