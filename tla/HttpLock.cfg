SPECIFICATION Spec
CONSTANTS
  Client = {c1}
  Request = {r1, r2}
  MaxTracked = 1
  MaxFailures = 2
  Window = 2
  Lockout = 2
PROPERTY LockHolds
