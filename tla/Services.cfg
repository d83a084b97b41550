SPECIFICATION Spec
CONSTANTS
  Nothing = Nothing
  Missing = Missing
  SeRequests = {r1, r2, r3}
  SeLifetime = 1
  SeMaxTime = 1
  SeMaxSid = 3
  MeRequests = {r2, r3}
  MeCapacities = {"admin", "editor"}
  MeMaxRows = 2
  AcUsers = {1, 2}
  AcRequests = {r2, r3}
  AcMaxKeys = 2
  NoRequests = {r2, r3}
  NoLimit = 1
  NoMaxActs = 2
  NoMaxRuns = 2
  FiRequests = {r1, r2, r3}
  FiOverrides = FALSE
  FiMaxId = 3
  FoRequests = {r2, r3}
  FoOwners = {"user", "package"}
  FoMaxHistory = 3
  UpRequests = {r2, r3}
  UpChunks = 2
  UpMaxUpload = 2
  DpRequests = {r2, r3}
  DpMaxTime = 2
  DpMaxVersion = 3
  DsRequests = {r2, r3}
  DsMaxRows = 1
  DsMaxChanges = 2
  CsProcesses = {1, 2}
  CsRequests = {r2, r3}
  CsOptions = {"title"}
  CsMaxValue = 1
  CsMaxStamp = 1
  DtColumns = {"a", "b"}
  DtIndexable = {"a"}
  DtValues = {1}
  DtNull = None
  DtMaxRows = 2
  DtMaxId = 2
  KvKeys = {"counter"}
  KvCallers = {r2, r3}
  KvTtls = {1}
  KvMaxTime = 2
  KvMaxValue = 2
  PxRequests = {r1, r2, r3}
  PxOps = {"create", "update", "patch", "resource", "delete", "purge", "member", "rebuild"}
  PxCols = {"title"}
  PxGroups = {1}
  PxMayFail = {r1}
  PxMaySend = {r1}
INVARIANTS
  TypeOK
  InvitationsAreWhole
  ActivitiesAreToldOnce
  RecordsMatchFiles
  UploadsAreWholeAndOwn
  
  MetadataFollowsTable
  StampTellsOfOptions
  TableServesItsRows
PROPERTIES
  SessionsFollowLogins
  RolesAreSingle
  TransfersAreRecorded
  ActsAsMap
  SettledInSync
SYMMETRY RequestSymmetry
CHECK_DEADLOCK FALSE
