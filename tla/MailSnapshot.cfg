SPECIFICATION Spec
CONSTANTS
  Reader = {r1}
  PageSize = 1
  MaxUid = 4
  MaxGen = 1
  Faults = {TRUE}
INVARIANT SnapshotIsComplete
