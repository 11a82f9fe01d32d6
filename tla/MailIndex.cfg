SPECIFICATION Spec
CONSTANTS
  Reader = {r1}
  PageSize = 1
  MaxUid = 3
  MaxGen = 1
  Faults = {TRUE}
PROPERTY IndexKeepsMessages
