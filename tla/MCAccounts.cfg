SPECIFICATION Spec
CONSTANTS
  u1 = u1
  r1 = r1
  r2 = r2
  Users = {u1}
  Requests = {r1, r2}
  MaxSessions = 2
  MaxRefreshes = 2
  MaxPasswords = 1
SYMMETRY MCSymmetry
INVARIANTS
  TokensSpentOnce
  ClientsKeepUp
  ResetsEndSessions
  OldPasswordsOpenLittle

