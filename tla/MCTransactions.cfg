SPECIFICATION FairSpec
CONSTANTS
  d1 = d1
  d2 = d2
  p1 = p1
  p2 = p2
  t1 = t1
  t2 = t2
  ann = ann
  bob = bob
  none = none
  Users = {ann, bob}
  Debts = {d1, d2}
  Debtor <- MCDebtor
  Creditor <- MCCreditor
  GroupOwner <- MCCreditor
  Payments = {p1, p2}
  Txs = {t1, t2}
  Nobody = none
  MaxAmount = 2
CONSTRAINTS
  RightCallers
  FullDebts
  OnePayment
INVARIANTS
  TypeOK
  OnlyBulkMarksDeadlock
  DeadlocksNeedAConfirmation
PROPERTIES
  ImplementsLedger
  EveryTransactionEnds
