SPECIFICATION Spec
CONSTANTS
  Reader = {r1, r2}
  MaxGen = 2
SYMMETRY Symmetry
INVARIANT AttachmentIsOfItsMessage
