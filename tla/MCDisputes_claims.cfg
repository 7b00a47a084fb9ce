SPECIFICATION MCSpec
CONSTANTS
  a = a
  b = b
  x = x
  ua = ua
  ub = ub
  op = op
  n1 = n1
  d1 = d1
  d2 = d2
  Customer = {a, b}
  System = {x}
  User = {ua, ub}
  Owner <- MCOwner
  Sentinel = op
  KeyName = {n1, d1, d2}
  Status = {"active"}
  Limit = {2}
  MaxAmount = 2
  MaxTransfers = 4
  EXTERNAL_CLEARING = x
  ClaimKey <- MCClaimKey
  reimbursement_cap_minor = 1
  reimbursement_excess_minor = 2
  MaxDisputes = 2
INVARIANTS
  CasesTypeOK
  PaidAsDecided
PROPERTIES
  ClosedStands
