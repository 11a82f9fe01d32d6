SPECIFICATION ReadsSpec
CONSTANTS
  Slot = {s1, s2}
  Value = {v1, v2, empty}
  Empty = empty
  Reader = {r1}
  MaxId = 3
SYMMETRY Symmetry
INVARIANT FoundWasStored
