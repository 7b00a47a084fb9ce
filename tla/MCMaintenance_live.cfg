SPECIFICATION MCSpec
CONSTANTS
  a = a
  x = x
  ua = ua
  op = op
  n1 = n1
  t1 = t1
  t2 = t2
  r1 = r1
  Customer = {a}
  System = {x}
  User = {ua}
  Owner <- MCOwner
  Sentinel = op
  KeyName = {n1}
  Status = {"active"}
  Limit = {1}
  MaxAmount = 1
  MaxTransfers = 2
  Staff = {}
  Token = {t1, t2}
  Portal = {}
  Request = {r1}
  refresh_ttl = 2
  refresh_absolute_ttl = 2
  session_idle = 1
  c_max_attempts = 1
  c_lock_window = 1
  Unminted = Unminted
  Dropped = Dropped
  Day = 1
  MaxPassword = 0
  MaxNow = 4
PROPERTIES
  FundsFreedUnlessBlocked
