CONSTANTS
  N = 3
  Lengths = {1}
  Totals = {1}
  Ahead = 3
  MaxMishaps = 0
SPECIFICATION Spec
INVARIANTS
  NoneSkipped
CHECK_DEADLOCK FALSE
