SPECIFICATION Spec
CONSTANTS
  Lister = {l1}
  NSources = 1
  CalDAV = {1}
  Owner <- MCOneOwner
  Changing = {1, 2}
  PageSize = 1
  None = None
INVARIANT PartialIsMarked
