SPECIFICATION Spec
CONSTANTS
  Process = {p1, p2}
  Provider = {a, b}
  Folder = {f}
  None = None
SYMMETRY Symmetry
INVARIANTS UpdatesKept CollectionsOfProvider MigrationIsBackedUp ServedFromOwnAccount
