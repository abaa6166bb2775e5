CONSTANTS
  a = a
  b = b
  c = c
  e = e
  f = f
  NULL = NULL
  Chunks <- MCChunks
  Size = 4
SPECIFICATION Spec
INVARIANTS
  TypeOK
  Owned
PROPERTIES
  ImplementsDelayLine
