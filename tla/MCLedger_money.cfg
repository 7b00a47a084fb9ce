SPECIFICATION Spec
CONSTANTS
  a = a
  b = b
  x = x
  ua = ua
  ub = ub
  op = op
  n1 = n1
  n2 = n2
  Customer = {a, b}
  System = {x}
  User = {ua, ub}
  Owner <- MCOwner
  Sentinel = op
  KeyName = {n1, n2}
  Status = {"active"}
  Limit = {2}
  MaxAmount = 2
  MaxTransfers = 3
SYMMETRY MCSymmetry
INVARIANTS
  ReversedOnce
  KeyNamesItsOutcome
  TypeOK
  Solvent
  Reconciled
  StatementChains
  LegsMatchLifecycle
  HoldMatchesStatus
PROPERTIES
  HistoryStands
  ImplementsPayments
