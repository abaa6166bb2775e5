CONSTANTS
  a = a
  b = b
  PA = PA
  NULL = NULL
  Decoders <- MCDecoders
  MaxTrack = 2
  MaxBufNum = 2
  MaxCount = 2
SPECIFICATION Spec
INVARIANTS
  HeadStays
