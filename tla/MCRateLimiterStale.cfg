CONSTANTS
  Calls = {c1, c2, c3, c4}
  MinDelay = 3
  Res = 2
  MaxStale = 2
  MaxTime = 9
SPECIFICATION Spec
SYMMETRY Symmetry
INVARIANTS RateKeptButForStaleness ExpiryForgetsNothing
CHECK_DEADLOCK FALSE
