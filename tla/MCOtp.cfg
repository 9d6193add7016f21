SPECIFICATION Spec
CONSTANTS
  s1 = s1
  s2 = s2
  g1 = g1
  g2 = g2
  Senders = {s1, s2}
  Guessers = {g1, g2}
  MaxAttempts = 2
  RequestsPerWindow = 1
  MaxCodes = 3
SYMMETRY MCSymmetry
INVARIANTS
  AttemptsBounded
  UsesBounded
  LiveCodesBounded
  WindowBounded
PROPERTIES
  ReplacedCodesStayDead
