CONSTANTS
  N = 3
  Lengths <- MCLengths
  Totals <- MCTotals
  Ahead = 3
  MaxMishaps = 2
SPECIFICATION Spec
INVARIANTS
  IInv
  StartedInOrder
  CurrPresent
  ForeseenPlayed
CHECK_DEADLOCK FALSE
