SPECIFICATION Spec
CONSTANTS
  Writer = {p1, p2}
  e1 = e1
  e2 = e2
  e3 = e3
  Entry = {e1, e2, e3}
  KindOf <- MCKindOf
  Token = {t1, t2}
  NoToken = none
  Size = {1, 2}
  Limit = 3
  Alone = FALSE
SYMMETRY Symmetry
INVARIANT AdmittedWritesStay
