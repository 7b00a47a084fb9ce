SPECIFICATION MCSpec
CONSTANTS
  a = a
  b = b
  x = x
  ua = ua
  ub = ub
  op = op
  n1 = n1
  n2 = n2
  c1 = c1
  c2 = c2
  c3 = c3
  s1 = s1
  Customer = {a, b}
  System = {x}
  User = {ua, ub}
  Owner <- MCOwner
  Sentinel = op
  KeyName = {n1, n2}
  Status = {"active"}
  Limit = {1}
  MaxAmount = 1
  MaxTransfers = 2
  Api = {c1}
  Sweeper = {s1}
  AccountId <- MCAccountId
  Outcome = {"posted"}
SYMMETRY MCSymmetry
INVARIANTS
  NoDeadlock
