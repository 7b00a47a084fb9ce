SPECIFICATION SpecSessions
CONSTANTS
  admin = admin
  t1 = t1
  t2 = t2
  t3 = t3
  t4 = t4
  r1 = r1
  r2 = r2
  s1 = s1
  Unminted = Unminted
  Dropped = Dropped
  User = {admin}
  Staff = {admin}
  Token = {t1, t2, t3, t4}
  Portal = {s1}
  Request = {r1, r2}
  refresh_ttl = 2
  refresh_absolute_ttl = 2
  session_idle = 1
  c_max_attempts = 2
  c_lock_window = 1
  Day = 1
  MaxPassword = 1
  MaxNow = 3
SYMMETRY Symmetric
CONSTRAINT Bounds
INVARIANTS
  SessionsTypeOK
  FamilyIsChain
  CapHolds
  EndedStayEnded
PROPERTIES
  RevocationStands
  PasswordStands
  ImplementsFamilies
