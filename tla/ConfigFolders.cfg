SPECIFICATION Spec
CONSTANTS
  Process = {p1, p2}
  Provider = {a}
  Folder = {f, g}
  None = None
SYMMETRY Symmetry
INVARIANT FoldersKept
