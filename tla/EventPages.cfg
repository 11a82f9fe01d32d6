SPECIFICATION FairSpec
CONSTANTS
  Lister = {l1}
  NSources = 2
  CalDAV = {1}
  Owner <- MCOwner
  Changing = {3}
  PageSize = 1
  None = None
INVARIANTS PagesAreOneList RestartHasCause
PROPERTIES PartIsNotHidden TraversalEnds
