SPECIFICATION FairKeysSpec
CONSTANTS
  Process = {p1, p2}
  Headless = {}
  Key = {k1, k2, k3}
  NoKey = nokey
  Row = {r1}
  OneAtATime = TRUE
INVARIANT Recoverable
PROPERTY PromotionCompletes
