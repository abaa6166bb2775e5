CONSTANTS
  p = p
  q = q
  PA = PA
  NULL = NULL
  MaxTracks = 3
  MaxChunks = 3
  MaxBufNum = 2
  Delay = 1
  Addresses <- MCAddresses
SPECIFICATION Spec
INVARIANTS
  TypeOK
  MetaValid
  EventsInOrder
  NothingDiscarded
  FirstAnnounced
  NothingLeaked
