SPECIFICATION Spec
CONSTANTS
  Browser = {b1, b2}
  MaxId = 2
  Hash = {h1, h2, h3}
  Grantable <- MCGrantable
  MAX_FAILED_ATTEMPTS = 2
  LOCKOUT = 1
  None = None
INVARIANTS
  TypeOK
  AdminRemains
  OneFirstAdmin
  ThrottleHolds
  GateAccounted
PROPERTIES
  RevokedIsRefused
SYMMETRY Symmetry
