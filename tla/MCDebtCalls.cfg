SPECIFICATION CallsSpec
CONSTANTS
  d1 = d1
  d2 = d2
  p1 = p1
  p2 = p2
  r1 = r1
  r2 = r2
  ann = ann
  bob = bob
  Users = {ann, bob}
  Debts = {d1, d2}
  Debtor <- MCDebtor
  Creditor <- MCCreditor
  GroupOwner <- MCGroupOwner
  Payments = {p1, p2}
  Requests = {r1, r2}
  MaxAmount = 2
SYMMETRY MCSymmetry
CONSTRAINTS
  FewChanges
  RightMarkers
  SmallDebts
INVARIANTS
  EveryChangeIsAnnounced
