SPECIFICATION Spec
CONSTANTS
  ann = ann
  c1 = c1
  c2 = c2
  r1 = r1
  r2 = r2
  Users = {ann}
  Clients = {c1, c2}
  Owner <- MCOwner
  Ids = {"n1"}
  Requests = {r1, r2}
CONSTRAINT FewKinds
INVARIANTS
  HubIsExact
PROPERTIES
  NobodySkipped
  CallsEnd
