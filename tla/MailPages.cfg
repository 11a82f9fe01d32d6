SPECIFICATION Spec
CONSTANTS
  Reader = {r1, r2}
  PageSize = 1
  MaxUid = 4
  MaxGen = 3
  Faults = {TRUE, FALSE}
SYMMETRY Symmetry
CONSTRAINT Shape
INVARIANTS
  NothingSkipped
  NothingRepeated
  OneGeneration
  QuietSnapshotIsComplete
PROPERTIES
  MarkerAdvances
  QuietIndexKeepsMessages
