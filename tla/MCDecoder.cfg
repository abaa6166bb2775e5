CONSTANTS
  a = a
  b = b
  c = c
  e = e
  NULL = NULL
  Decoders <- MCDecoders
  MaxCancels = 2
SPECIFICATION FairSpec
INVARIANTS
  TypeOK
  DecodingBound
  TurnHeld
  TurnNoticed
PROPERTIES
  TurnComes
