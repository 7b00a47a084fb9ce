SPECIFICATION Spec
CONSTANTS
  a = a
  b = b
  c = c
  n1 = n1
  n2 = n2
  r1 = r1
  r2 = r2
  p = p
  q = q
  k1 = k1
  User = {a, b, c}
  Founder = {a}
  NoUser = NoUser
  RegKey = {n1, n2}
  Request = {r1, r2}
  Quota = 1
  Grant = {1}
  MaxAttempts = 1
  MaxInvitations = 2
  MaxCodes = 2
  Client = {r1, r2}
  Link = {p, q}
  NoLink = NoLink
  RecoveryCode = {k1}
  NoCode = NoCode
  MaxFail = 1
  MaxSeeds = 2
  Large = {q}
  Busy = 1
  Rule <- MCRule
  Caller = {r1, r2}
  Address = {p, q}
  PerWindow = 2
  Window = 2
  Horizon = 3
  Fetch = {r1, r2}
  Gone = Gone
  MaxPairs = 3
CONSTRAINT Bounds
SYMMETRY MCSymmetry
INVARIANTS
  TypesOK
  InvitationsWithinQuota
  RegistrationIsWhole
  AttemptsBounded
  LinkedPayments
  PreviewKept
  FailuresBounded
  RecoveryCodeOnce
  RateHeld
  PageAgrees
PROPERTIES
  VerifiedStands
  ServerKeepsFamilies
