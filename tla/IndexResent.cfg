SPECIFICATION Spec
CONSTANTS
  Requests = {r1, r2}
  Ops = {"patch"}
  Cols = {"title", "notes"}
  Groups = {g1}
  MayFail = {r1, r2}
  MaySend = {r1, r2}
  Nobody = Nobody
SYMMETRY RequestSymmetry
PROPERTIES
  PatchesOnlyItsOwn
CHECK_DEADLOCK FALSE
