SPECIFICATION SpecDesk
CONSTANTS
  a = a
  b = b
  x = x
  ua = ua
  ub = ub
  op = op
  n1 = n1
  n2 = n2
  cashier = cashier
  ad1 = ad1
  ad2 = ad2
  Customer = {a, b}
  System = {x}
  User = {ua, ub}
  Owner <- MCOwner
  Sentinel = op
  KeyName = {n1, n2}
  Status = {"active", "frozen"}
  Limit = {1, 2}
  MaxAmount = 2
  MaxTransfers = 2
  Operator = {}
  Admin = {ad1, ad2}
  NoOne = NoOne
  Threshold = {0, 1}
  MaxActions = 3
CONSTRAINT Bounds
SYMMETRY MCSymmetry
INVARIANTS
  DeskTypeOK
  NoOrphanedHold
PROPERTIES
  QueuedNeedsDecision
