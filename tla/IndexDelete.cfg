SPECIFICATION Spec
CONSTANTS
  Requests = {r1, r2}
  Ops = {"patch", "delete"}
  Cols = {"title", "notes"}
  Groups = {g1}
  MayFail = {}
  MaySend = {}
  Nobody = Nobody
SYMMETRY RequestSymmetry
INVARIANTS
  SearchHidesDeleted
CHECK_DEADLOCK FALSE
