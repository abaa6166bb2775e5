CONSTANTS
  d1 = d1
  d2 = d2
  drv = drv
  c = c
  z = z
  NULL = NULL
  Producers <- MCProducers
  Consumers <- MCConsumers
  Chunks <- MCChunks
  DoneChunks <- MCDoneChunks
  MaxBufNum = 2
  MaxCount = 3
  MaxOrder = 2
SPECIFICATION Spec
INVARIANTS
  IInv
  Capacity
  PackResult
PROPERTIES
  ImplementsFifo
