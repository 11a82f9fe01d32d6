SPECIFICATION KeysSpec
CONSTANTS
  Process = {p1, p2, p3}
  Headless = {p3}
  Key = {k1, k2, k3}
  NoKey = nokey
  Row = {r1, r2}
  OneAtATime = FALSE
SYMMETRY Symmetry
INVARIANTS OneKey
