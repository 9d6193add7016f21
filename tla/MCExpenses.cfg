SPECIFICATION Spec
CONSTANTS
  ann = ann
  bob = bob
  cat = cat
  g1 = g1
  e1 = e1
  e2 = e2
  r1 = r1
  r2 = r2
  MaxInt = 7
  Users = {ann, bob, cat}
  Ids = {"ann", "ANN", "bob", "cat"}
  UserOf <- MCUserOf
  Groups = {g1}
  ExpenseIds = {e1, e2}
  Inputs <- MCInputs
  Rejecters = {ann, cat}
  Adjustments = {3}
  Requests = {r1, r2}
CONSTRAINT DecisionsAlone
SYMMETRY MCSymmetry
INVARIANTS
  ExpensesAreWhole
  OnlyMembersShare
  DebtorsAreTold
