SPECIFICATION KeysSpec
CONSTANTS
  Process = {p1, p2}
  Headless = {}
  Key = {k1, k2}
  NoKey = nokey
  Row = {r1}
  OneAtATime = FALSE
INVARIANTS Recoverable
