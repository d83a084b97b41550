SPECIFICATION MixedSpec
CONSTANTS
  Requests = {r1, r2, r3, r4}
  Ops = {"create", "update", "patch", "resource", "delete", "purge", "member", "rebuild", "show"}
  Cols = {"title", "notes"}
  Groups = {g1}
  MayFail = {r1, r2, r3, r4}
  MaySend = {r1, r2, r3, r4}
  Nobody = Nobody
SYMMETRY RequestSymmetry
INVARIANTS
  TypeOK
  IndexInSync
  ShowsNothingUncommitted
PROPERTIES
  PatchKeepsOthers
  PurgedStaysGone
CHECK_DEADLOCK FALSE
