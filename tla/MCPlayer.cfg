CONSTANTS
  a = a
  b = b
  PA = PA
  NULL = NULL
  Decoders <- MCDecoders
  MaxTrack = 2
  MaxBufNum = 2
  MaxCount = 2
SPECIFICATION FairSpec
INVARIANTS
  TypeOK
  TracksContiguous
  SleepsStopped
  NoLostWakeup
PROPERTIES
  StopInforms
  CallsReturn
  ResumeWakes
