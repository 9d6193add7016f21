SPECIFICATION CallsSpec
CONSTANTS
  MaxInt = 255
  Majors = {0, 1, 2, 3, 255, 256}
  Fractions <- MCFractions
  Totals <- MCTotals
  Counts <- MCCounts
  ShareLists <- MCShareLists
INVARIANTS
  TextsAreExact
  SplitsAreExact
  OnlyOverflowRefuses
