SPECIFICATION DashboardSpec
CONSTANTS
  d1 = d1
  d2 = d2
  p1 = p1
  p2 = p2
  r1 = r1
  ann = ann
  bob = bob
  Users = {ann, bob}
  Debts = {d1, d2}
  Debtor <- MCDebtor
  Creditor <- MCCreditor
  GroupOwner <- MCGroupOwner
  Payments = {p1, p2}
  Requests = {r1}
  MaxAmount = 2
  Readers = {ann}
  PreviewLimit = 1
SYMMETRY MCSymmetry
INVARIANTS
  QueriesAgree
  LaterPartsAddOnlyAcceptedDebts
PROPERTIES
  TotalsFallByConfirmation
