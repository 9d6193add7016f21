SPECIFICATION Spec
CONSTANTS
  d1 = d1
  d2 = d2
  p1 = p1
  p2 = p2
  p3 = p3
  r1 = r1
  r2 = r2
  ann = ann
  bob = bob
  Users = {ann, bob}
  Debts = {d1, d2}
  Debtor <- MCDebtor
  Creditor <- MCCreditor
  GroupOwner <- MCGroupOwner
  Payments = {p1, p2, p3}
  Requests = {r1, r2}
  MaxAmount = 2
SYMMETRY MCSymmetry
INVARIANTS
  MoneyConserved
  StatusTellsRemaining
  PaymentsNeedAcceptance
  PendingBounded
PROPERTIES
  PaymentsAreFinal
  OnlyConfirmationPays
  BulkMarkPlacesAmount
  ImplementsLifecycle
