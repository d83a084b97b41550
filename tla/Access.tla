------------------------------- MODULE Access -------------------------------
(***************************************************************************)
(* Who may do what: organizations, their hierarchy and members, owners and *)
(* collaborators of datasets (ckan/authz.py, ckan/logic/auth), and the     *)
(* actions that change them (ckan/logic/action).  A request is one step:   *)
(* what a request of its own commits in several transactions is in the     *)
(* modules Membership and Hierarchy.                                       *)
(*                                                                         *)
(* Two code paths answer "may this user read that dataset".  The roles of  *)
(* a user are looked up from the organization upwards                      *)
(* (has_user_permission_for_group_or_org); the labels that package_show    *)
(* and the search compare are computed from the user's organizations       *)
(* downwards (organization_list_for_user).                                 *)
(***************************************************************************)
EXTENDS Naturals, FiniteSets

CONSTANTS
  Users, Orgs, Datasets,
  Sysadmins,          \* users with the sysadmin flag
  Invitees,           \* users that requests name as members or collaborators
  States,             \* package.state values that requests set
  MaxRecurses,        \* levels of the hierarchy that are followed
  Cascading,          \* ckan.auth.roles_that_cascade_to_sub_groups
  CreateUnowned,      \* ckan.auth.create_unowned_dataset
  CreateOutsideOrg,   \* ckan.auth.create_dataset_if_not_in_organization
  AdminCollaborators, \* ckan.auth.allow_admin_collaborators
  CollaboratorsMove,  \* ckan.auth.allow_collaborators_to_change_owner_org
  NamesToo,           \* organizations are deleted by name as well as by id
  NoOrg, Nobody       \* no value

(***************************************************************************)
(* ckan.auth.allow_dataset_collaborators is on.                            *)
(***************************************************************************)
ASSUME SettingsAssumption ==
  /\ Sysadmins \subseteq Users
  /\ Invitees \subseteq Users
  /\ States \subseteq {"active", "draft", "deleted"}
  /\ MaxRecurses \in Nat
  /\ Cascading \subseteq {"admin", "editor", "member"}
  /\ {CreateUnowned, CreateOutsideOrg, AdminCollaborators, CollaboratorsMove,
      NamesToo} \subseteq BOOLEAN
  /\ NoOrg \notin Orgs
  /\ Nobody \notin Users

VARIABLES
  account,       \* user.state
  org,           \* group.state of an organization
  parents,       \* active member rows of organizations in organizations
  role,          \* active member rows of users: role[o][u]
  dataset,       \* package rows
  collaborator,  \* package_member rows: collaborator[d][u]
  actor          \* who made the last request (no column)

vars == <<account, org, parents, role, dataset, collaborator, actor>>

Roles == {"admin", "editor", "member"}

Permissions ==
  [admin  |-> {"admin", "membership"},
   editor |-> {"read", "delete_dataset", "create_dataset", "update_dataset",
               "manage_group"},
   member |-> {"read", "manage_group"}]

RolesWith(permission) ==
  {r \in Roles : {permission, "admin"} \cap Permissions[r] # {}}

ActiveOrgs == {o \in Orgs : org[o] = "active"}
KnownOrgs == {o \in Orgs : org[o] \in {"active", "deleted"}}

(* The organizations a relation leads to in at most n + 1 steps.           *)
Reach(o, next) ==
  LET reach[n \in 0 .. MaxRecurses] ==
        IF n = 0 THEN next[o]
        ELSE reach[n - 1] \cup UNION {next[p] : p \in reach[n - 1]}
  IN reach

(* As far as the recursive queries follow a relation: rows of deleted      *)
(* organizations are followed, active ones are returned.                   *)
Follow(o, next) == Reach(o, next)[MaxRecurses] \cap ActiveOrgs

Ancestors(o) == Follow(o, parents)
Children == [p \in Orgs |-> {c \in Orgs : p \in parents[c]}]
Descendants(o) == Follow(o, Children)

-----------------------------------------------------------------------------
(* Look-ups *)

\* Mutant: any role of an ancestor cascades.
HasPermissionAnyRole(o, u, permission) ==
  /\ o \in KnownOrgs
  /\ \/ u \in Sysadmins
     \/ \E a \in Ancestors(o) \cup {o} : role[a][u] \in RolesWith(permission)

HasPermission(o, u, permission) ==
  /\ o \in KnownOrgs
  /\ \/ u \in Sysadmins
     \/ role[o][u] \in RolesWith(permission)
     \/ \E a \in Ancestors(o) :
          role[a][u] \in Cascading \cap RolesWith(permission)

HasPermissionSomewhere(u, permission) ==
  \/ u \in Sysadmins
  \/ \E o \in ActiveOrgs : role[o][u] \in RolesWith(permission)

OrganizationsFor(u, permission) ==
  LET direct == {o \in Orgs : role[o][u] \in RolesWith(permission)}
      cascading == {o \in direct : role[o][u] \in Cascading}
  IN IF u \in Sysadmins THEN ActiveOrgs
     ELSE (direct \cup UNION {Descendants(o) : o \in cascading})
            \cap ActiveOrgs

IsCollaborator(u, d, capacities) == collaborator[d][u] \in capacities

CanManageCollaborators(u, d) ==
  \/ /\ dataset[d].owner = NoOrg
     /\ CreateUnowned /\ CreateOutsideOrg
     /\ dataset[d].creator = u
  \/ HasPermission(dataset[d].owner, u, "membership")
  \/ IsCollaborator(u, d, {"admin"})

Public(d) == dataset[d].state = "active" /\ ~dataset[d].private

DatasetLabels(d) ==
  IF Public(d) THEN {<<"public">>}
  ELSE {<<"collaborator", d>>,
        IF dataset[d].owner # NoOrg THEN <<"member", dataset[d].owner>>
        ELSE <<"creator", dataset[d].creator>>}

UserLabels(u) ==
  {<<"public">>, <<"creator", u>>}
    \cup {<<"member", o>> : o \in OrganizationsFor(u, "read")}
    \cup {<<"collaborator", d>> :
            d \in {e \in Datasets : IsCollaborator(u, e, Roles)}}

\* A deleted user is never authorized, a sysadmin always.
Authorized(u, check) == account[u] # "deleted" /\ (u \in Sysadmins \/ check)

MayShow(u, d) == Authorized(u, DatasetLabels(d) \cap UserLabels(u) # {})

MayUpdate(u, d) ==
  Authorized(u,
    \/ IF dataset[d].owner # NoOrg
       THEN HasPermission(dataset[d].owner, u, "update_dataset")
       ELSE \/ CreateOutsideOrg /\ CreateUnowned
            \/ HasPermissionSomewhere(u, "create_dataset")
    \/ IsCollaborator(u, d, {"admin", "editor"}))

MayAdminister(u, o) == Authorized(u, HasPermission(o, u, "update"))

-----------------------------------------------------------------------------
(* Organizations *)

NoRoles == [u \in Users |-> "none"]

OrganizationCreate(me, o, ps) ==
  /\ Authorized(me, TRUE)
  /\ org[o] = "absent"
  /\ ps \subseteq KnownOrgs
  /\ org' = [org EXCEPT ![o] = "active"]
  /\ parents' = [parents EXCEPT ![o] = ps]
  /\ role' = [role EXCEPT ![o][me] = "admin"]
  /\ actor' = me
  /\ UNCHANGED <<account, dataset, collaborator>>

AllowedParents(o) == ActiveOrgs \ (Descendants(o) \cup {o})

OrganizationUpdate(me, o, ps, state) ==
  /\ o \in KnownOrgs
  /\ MayAdminister(me, o)
  /\ ps \subseteq AllowedParents(o)
  /\ org' = [org EXCEPT ![o] = state]
  /\ parents' = [parents EXCEPT ![o] = ps]
  /\ actor' = me
  /\ UNCHANGED <<account, role, dataset, collaborator>>

\* The datasets an organization gives up before it is deleted or purged.
Owned(o) ==
  {d \in Datasets : dataset[d].owner = o
                    /\ dataset[d].state \notin {"absent", "deleted"}}

\* Mutant: the owner is emptied with a value of the wrong type.
GiveUpToNobody(me, o) ==
  /\ \A d \in Owned(o) : MayUpdate(me, d)
  /\ dataset' = [d \in Datasets |->
                   IF d \in Owned(o) THEN [dataset[d] EXCEPT !.owner = Nobody]
                   ELSE dataset[d]]

\* package_patch of owner_org: '' on behalf of the user, for each of them.
GiveUp(me, o) ==
  /\ Owned(o) # {} => CreateUnowned
  /\ \A d \in Owned(o) : MayUpdate(me, d) /\ MayShow(me, d)
  /\ dataset' = [d \in Datasets |->
                   IF d \in Owned(o) THEN [dataset[d] EXCEPT !.owner = NoOrg]
                   ELSE dataset[d]]

ForgetRows(o) ==
  /\ role' = [role EXCEPT ![o] = NoRoles]
  /\ parents' = [p \in Orgs |-> IF p = o THEN {} ELSE parents[p] \ {o}]

(* Member rows are selected by the id the caller passed: given a name,     *)
(* they stay.                                                              *)
OrganizationDelete(me, o, byName) ==
  /\ o \in KnownOrgs
  /\ MayAdminister(me, o)
  /\ GiveUp(me, o)
  /\ IF byName THEN UNCHANGED <<role, parents>> ELSE ForgetRows(o)
  /\ org' = [org EXCEPT ![o] = "deleted"]
  /\ actor' = me
  /\ UNCHANGED <<account, collaborator>>

OrganizationPurge(me, o) ==
  /\ o \in KnownOrgs
  /\ Authorized(me, FALSE)
  /\ GiveUp(me, o)
  /\ ForgetRows(o)
  /\ org' = [org EXCEPT ![o] = "purged"]
  /\ actor' = me
  /\ UNCHANGED <<account, collaborator>>

\* Mutant: members invite, with the permission that groups ask for.
MemberCreateByMember(me, o, u, r) ==
  /\ Authorized(me, HasPermission(o, me, "manage_group"))
  /\ role' = [role EXCEPT ![o][u] = r]
  /\ actor' = me
  /\ UNCHANGED <<account, org, parents, dataset, collaborator>>

MemberCreate(me, o, u, r) ==
  /\ o \in KnownOrgs
  /\ MayAdminister(me, o)
  /\ ~(u = me /\ role[o][u] = "admin" /\ r # "admin")
  /\ role' = [role EXCEPT ![o][u] = r]
  /\ actor' = me
  /\ UNCHANGED <<account, org, parents, dataset, collaborator>>

MemberDelete(me, o, u) ==
  /\ o \in KnownOrgs
  /\ MayAdminister(me, o)
  /\ role' = [role EXCEPT ![o][u] = "none"]
  /\ actor' = me
  /\ UNCHANGED <<account, org, parents, dataset, collaborator>>

-----------------------------------------------------------------------------
(* Users *)

UserDelete(me, u) ==
  /\ Authorized(me, FALSE)
  /\ account' = [account EXCEPT ![u] = "deleted"]
  /\ role' = [o \in Orgs |-> [role[o] EXCEPT ![u] = "none"]]
  /\ collaborator' =
       [d \in Datasets |-> [collaborator[d] EXCEPT ![u] = "none"]]
  /\ actor' = me
  /\ UNCHANGED <<org, parents, dataset>>

UserRestore(me, u) ==
  /\ Authorized(me, FALSE)
  /\ account' = [account EXCEPT ![u] = "active"]
  /\ actor' = me
  /\ UNCHANGED <<org, parents, role, dataset, collaborator>>

-----------------------------------------------------------------------------
(* Datasets *)

(* owner_org_validator for an organization, and for the empty string,      *)
(* which returns before the question whether a collaborator may move the   *)
(* dataset is asked.                                                       *)
OwnerAccepted(me, d, o) ==
  IF o = NoOrg THEN CreateUnowned
  ELSE /\ o \in KnownOrgs
       /\ \/ CollaboratorsMove
          \/ me \in Sysadmins
          \/ dataset[d].state = "absent"
          \/ ~IsCollaborator(me, d, {"admin", "editor"})
          \/ o = dataset[d].owner
          \/ dataset[d].owner \in OrganizationsFor(me, "update_dataset")
       /\ \/ dataset[d].state # "absent" /\ dataset[d].owner = o
          \/ HasPermission(o, me, "create_dataset")

\* Mutant: asks whether the dataset is new, not whether it has an owner.
PrivateAcceptedIfStored(me, d, private, o) ==
  private /\ o = NoOrg => dataset[d].state # "absent" /\ MayShow(me, d)

(* datasets_with_no_organization_cannot_be_private looks the dataset up    *)
(* as it is stored: one that has an organization passes.                   *)
PrivateAccepted(me, d, private, o) ==
  private /\ o = NoOrg =>
    dataset[d].state # "absent" /\ dataset[d].owner # NoOrg /\ MayShow(me, d)

PackageCreate(me, d, o, private, state) ==
  /\ dataset[d].state = "absent"
  /\ Authorized(me, /\ \/ CreateOutsideOrg /\ CreateUnowned
                       \/ HasPermissionSomewhere(me, "create_dataset")
                    /\ o # NoOrg => HasPermission(o, me, "create_dataset"))
  /\ OwnerAccepted(me, d, o)
  /\ PrivateAccepted(me, d, private, o)
  /\ dataset' = [dataset EXCEPT ![d] =
                   [state |-> state, private |-> private, owner |-> o,
                    creator |-> me]]
  /\ actor' = me
  /\ UNCHANGED <<account, org, parents, role, collaborator>>

PackageUpdate(me, d, o, private, state) ==
  /\ dataset[d].state # "absent"
  /\ MayUpdate(me, d)
  /\ o = dataset[d].owner \/ OwnerAccepted(me, d, o)
  /\ PrivateAccepted(me, d, private, o)
  /\ dataset' = [dataset EXCEPT ![d].owner = o, ![d].private = private,
                                ![d].state = state]
  /\ actor' = me
  /\ UNCHANGED <<account, org, parents, role, collaborator>>

PackageDelete(me, d) ==
  /\ dataset[d].state # "absent"
  /\ MayUpdate(me, d)
  /\ dataset' = [dataset EXCEPT ![d].state = "deleted"]
  /\ collaborator' = [collaborator EXCEPT ![d] = NoRoles]
  /\ actor' = me
  /\ UNCHANGED <<account, org, parents, role>>

PackageOwnerOrgUpdate(me, d, o) ==
  /\ dataset[d].state # "absent"
  /\ Authorized(me, FALSE)
  /\ o \in KnownOrgs \cup {NoOrg}
  /\ dataset' = [dataset EXCEPT ![d].owner = o]
  /\ actor' = me
  /\ UNCHANGED <<account, org, parents, role, collaborator>>

\* A package_patch of each chosen dataset of the organization.
BulkUpdate(me, o, chosen, field, value) ==
  LET patched == {d \in chosen : dataset[d].state # "absent"
                                 /\ dataset[d].owner = o}
  IN /\ MayAdminister(me, o)
     /\ \A d \in patched : MayUpdate(me, d) /\ MayShow(me, d)
     /\ dataset' = [d \in Datasets |->
                      IF d \in patched
                      THEN [dataset[d] EXCEPT ![field] = value]
                      ELSE dataset[d]]
     /\ actor' = me
     /\ UNCHANGED <<account, org, parents, role, collaborator>>

CollaboratorCreate(me, d, u, r) ==
  /\ r = "admin" => AdminCollaborators
  /\ dataset[d].state # "absent"
  /\ Authorized(me, CanManageCollaborators(me, d))
  /\ collaborator' = [collaborator EXCEPT ![d][u] = r]
  /\ actor' = me
  /\ UNCHANGED <<account, org, parents, role, dataset>>

CollaboratorDelete(me, d, u) ==
  /\ dataset[d].state # "absent"
  /\ Authorized(me, CanManageCollaborators(me, d))
  /\ collaborator[d][u] # "none"
  /\ collaborator' = [collaborator EXCEPT ![d][u] = "none"]
  /\ actor' = me
  /\ UNCHANGED <<account, org, parents, role, dataset>>

-----------------------------------------------------------------------------

Init ==
  /\ account = [u \in Users |-> "active"]
  /\ org = [o \in Orgs |-> "absent"]
  /\ parents = [o \in Orgs |-> {}]
  /\ role = [o \in Orgs |-> NoRoles]
  /\ dataset = [d \in Datasets |-> [state |-> "absent", private |-> FALSE,
                                    owner |-> NoOrg, creator |-> Nobody]]
  /\ collaborator = [d \in Datasets |-> NoRoles]
  /\ actor = Nobody

OrganizationStep(me) ==
  \E o \in Orgs :
    \/ \E ps \in SUBSET Orgs :
         \/ OrganizationCreate(me, o, ps)
         \/ \E state \in {"active", "deleted"} :
              OrganizationUpdate(me, o, ps, state)
    \/ \E byName \in {FALSE, NamesToo} : OrganizationDelete(me, o, byName)
    \/ OrganizationPurge(me, o)
    \/ \E u \in Invitees :
         \/ \E r \in Roles : MemberCreate(me, o, u, r)
         \/ MemberDelete(me, o, u)
    \/ \E chosen \in SUBSET Datasets :
         \/ \E private \in BOOLEAN :
              BulkUpdate(me, o, chosen, "private", private)
         \/ BulkUpdate(me, o, chosen, "state", "deleted")

DatasetStep(me) ==
  \E d \in Datasets :
    \/ \E o \in Orgs \cup {NoOrg}, private \in BOOLEAN :
         \/ \E state \in States \ {"deleted"} :
              PackageCreate(me, d, o, private, state)
         \/ \E state \in States : PackageUpdate(me, d, o, private, state)
    \/ PackageDelete(me, d)
    \/ \E o \in Orgs \cup {NoOrg} : PackageOwnerOrgUpdate(me, d, o)
    \/ \E u \in Invitees :
         \/ \E r \in Roles : CollaboratorCreate(me, d, u, r)
         \/ CollaboratorDelete(me, d, u)

UserStep(me) == \E u \in Invitees : UserDelete(me, u) \/ UserRestore(me, u)

Next ==
  \E me \in Users : OrganizationStep(me) \/ DatasetStep(me) \/ UserStep(me)

Spec == Init /\ [][Next]_vars

-----------------------------------------------------------------------------
(* Properties *)

TypeOK ==
  /\ account \in [Users -> {"active", "deleted"}]
  /\ org \in [Orgs -> {"absent", "active", "deleted", "purged"}]
  /\ parents \in [Orgs -> SUBSET Orgs]
  /\ role \in [Orgs -> [Users -> Roles \cup {"none"}]]
  /\ dataset \in [Datasets ->
       [state : {"absent", "active", "draft", "deleted"}, private : BOOLEAN,
        owner : Orgs \cup {NoOrg}, creator : Users \cup {Nobody}]]
  /\ collaborator \in [Datasets -> [Users -> Roles \cup {"none"}]]
  /\ actor \in Users \cup {Nobody}

\* The datasets of active organizations; the users whose organizations are
\* active (a role of a deleted organization does not count the same in the
\* two look-ups).
Settled(d) == dataset[d].state # "absent" /\ dataset[d].owner \in ActiveOrgs
InActiveOrgs(u) == \A o \in Orgs : role[o][u] # "none" => org[o] = "active"

(* The labels let exactly those read a dataset that is not public who have *)
(* the read permission in its organization or collaborate on it: the       *)
(* downward look-up of package_show and the search agrees with the upward  *)
(* one of every other authorization function.  Who may change a dataset    *)
(* may see it, so an editor never meets a dataset that package_update      *)
(* takes and package_show hides.                                           *)
ShowMatchesRoles ==
  \A d \in Datasets, u \in Users :
    Settled(d) /\ InActiveOrgs(u) =>
      /\ ~Public(d) =>
           (MayShow(u, d) <=> Authorized(u,
              \/ HasPermission(dataset[d].owner, u, "read")
              \/ IsCollaborator(u, d, Roles)))
      /\ MayUpdate(u, d) => MayShow(u, d)

(* A dataset becomes private and ownerless only when an organization       *)
(* gives it up or loses it, never by making an ownerless one private.      *)
PrivateUnownedByLoss ==
  [][\A d \in Datasets :
       dataset'[d].private /\ dataset'[d].owner = NoOrg
         /\ dataset[d].state # "absent"
       => dataset[d].private \/ dataset[d].owner # NoOrg]_vars

(* An organization and those above it, deleted ones included, if the role  *)
(* of admin cascades.                                                      *)
Above(o) ==
  {o} \cup (IF "admin" \in Cascading THEN Reach(o, parents)[MaxRecurses]
           ELSE {})

(* Power over an organization that exists is given by those who have some: *)
(* whoever comes to administer it, through a role, an ancestor's role, a   *)
(* new place in the hierarchy or an ancestor that is active again, does so *)
(* by a step of one who administered it or an organization above it.  (One *)
(* above it: the admin of a deleted organization has no power over what is *)
(* below it and yet moves it below another one.)                           *)
PowerIsGiven ==
  [][\A o \in KnownOrgs, u \in Users \ Sysadmins :
       ~HasPermission(o, u, "update") /\ HasPermission(o, u, "update")' =>
         \E p \in Above(o) : HasPermission(p, actor', "update")]_vars

(* doc/maintaining/authorization.rst:115: "By default, collaborators can   *)
(* not change the owner organization of a dataset unless they are admins   *)
(* or editors in both the source and destination organizations."           *)
CollaboratorsStayPut ==
  [][\A d \in Datasets :
       /\ dataset[d].state # "absent"
       /\ dataset[d].owner \in Orgs
       /\ dataset'[d].owner # dataset[d].owner
       /\ actor' \notin Sysadmins
       => HasPermission(dataset[d].owner, actor', "update_dataset")]_vars
=============================================================================
