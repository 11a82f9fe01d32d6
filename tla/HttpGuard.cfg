SPECIFICATION FairSpec
CONSTANTS
  Client = {c1, c2, c3}
  Request = {r1, r2}
  MaxTracked = 2
  MaxFailures = 2
  Window = 1
  Lockout = 2
INVARIANTS GuessesAreBounded TableIsBounded
PROPERTIES LocksAreNotEvicted LockEnds
