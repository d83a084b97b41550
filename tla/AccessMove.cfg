SPECIFICATION Spec
CONSTANTS
  Users = {u1, u2}
  Orgs = {o1, o2}
  Datasets = {d1}
  Sysadmins = {u2}
  Invitees = {u1}
  States = {"active", "deleted"}
  MaxRecurses = 1
  Cascading = {"admin"}
  CreateUnowned = TRUE
  CreateOutsideOrg = TRUE
  AdminCollaborators = FALSE
  CollaboratorsMove = FALSE
  NamesToo = TRUE
  NoOrg = NoOrg
  Nobody = Nobody
PROPERTIES
  CollaboratorsStayPut
CHECK_DEADLOCK FALSE
