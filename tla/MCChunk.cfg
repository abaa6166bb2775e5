CONSTANTS
  NULL = NULL
  BufSize = 8
  Padding = 4
  TextSizes <- MCTextSizes
  FrameCounts <- MCFrameCounts
  Requests = {1, 2, 3, 5}
  HeaderSize = 3
  FrameSize = 2
  FrameSamples = 3
  SampleSizes = {8, 12, 16}
  Missing = {0, 1}
  IntLimit = 32
SPECIFICATION Spec
INVARIANTS
  TypeOK
  WholeBlocks
  StreamComplete
  EstimateClose
  TailBounded
CHECK_DEADLOCK FALSE
