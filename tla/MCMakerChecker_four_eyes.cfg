SPECIFICATION SpecDesk
CONSTANTS
  a = a
  b = b
  x = x
  ua = ua
  ub = ub
  op = op
  n1 = n1
  n2 = n2
  cashier = cashier
  ad1 = ad1
  ad2 = ad2
  Customer = {a}
  System = {x}
  User = {ua}
  Owner <- MCOwner
  Sentinel = op
  KeyName = {n1, n2}
  Status = {"active"}
  Limit = {1}
  MaxAmount = 1
  MaxTransfers = 1
  Operator = {}
  Admin = {ad1, ad2}
  NoOne = NoOne
  Threshold = {0}
  MaxActions = 2
SYMMETRY MCSymmetry
INVARIANTS
  FourEyes
