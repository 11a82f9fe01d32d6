SPECIFICATION KeysSpec
CONSTANTS
  Process = {p1, p2}
  Headless = {p2}
  Key = {k1, k2}
  NoKey = nokey
  Row = {r1}
  OneAtATime = TRUE
PROPERTIES RecoveryKept
