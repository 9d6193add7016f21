SPECIFICATION LimiterSpec
CONSTANTS
  k1 = k1
  k2 = k2
  Keys = {k1, k2}
  Limits = {0, 1, 2}
  window = 3
  MaxTime = 6
SYMMETRY MCSymmetry
INVARIANTS
  LimitIsFair
