SPECIFICATION Spec
CONSTANTS
  Requests = {r1, r2, r3}
  Ops = {"patch", "resource", "show"}
  Cols = {"title", "notes"}
  Groups = {g1}
  MayFail = {}
  MaySend = {}
  Nobody = Nobody
SYMMETRY RequestSymmetry
INVARIANTS
  ShowsCommitted
CHECK_DEADLOCK FALSE
