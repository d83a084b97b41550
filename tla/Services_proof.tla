--------------------------- MODULE Services_proof ---------------------------
(* Services, for every value of the constants.  A behaviour of Services is *)
(* one of each component, which runs or stands still; so the theorems of a *)
(* component hold in Services too.  The queue of jobs is an instance of    *)
(* its own.                                                                *)
EXTENDS Services, Jobs, Users_proof, Stores_proof

-----------------------------------------------------------------------------
(* A behaviour of Services is one of every component *)


\* Every behaviour of Services is one of the key/value store.
LEMMA RunsKVStore == Spec => KV!Spec
<1>1. Init => KV!Init BY DEF Init
<1>2. [Next]_<<part, all>> => [KV!Next]_(KV!vars)
  BY DEF Next, all, kv, KV!vars
<1> QED BY <1>1, <1>2, PTL DEF Spec, KV!Spec

\* Every behaviour of Services is one of the files.
LEMMA RunsFiles == Spec => FI!Spec
<1>1. Init => FI!Init BY DEF Init
<1>2. [Next]_<<part, all>> => [FI!Next]_(FI!vars)
  BY DEF Next, all, fi, FI!vars
<1> QED BY <1>1, <1>2, PTL DEF Spec, FI!Spec

\* Every behaviour of Services is one of the uploads.
LEMMA RunsUploads == Spec => UP!Spec
<1>1. Init => UP!Init BY DEF Init
<1>2. [Next]_<<part, all>> => [UP!Next]_(UP!vars)
  BY DEF Next, all, up, UP!vars
<1> QED BY <1>1, <1>2, PTL DEF Spec, UP!Spec

\* Every behaviour of Services is one of the DataPusher tasks.
LEMMA RunsDataPusher == Spec => DP!Spec
<1>1. Init => DP!Init BY DEF Init
<1>2. [Next]_<<part, all>> => [DP!Next]_(DP!vars)
  BY DEF Next, all, dp, DP!vars
<1> QED BY <1>1, <1>2, PTL DEF Spec, DP!Spec

\* Every behaviour of Services is one of requests for a dataset in turn.
LEMMA RunsPackageIndex == Spec => PX!SerialSpec
<1>1. Init => PX!Init BY DEF Init
<1>2. [Next]_<<part, all>> => [PX!SerialNext]_(PX!vars)
  BY DEF Next, all, px, PX!vars, PX!local
<1> QED BY <1>1, <1>2, PTL DEF Spec, PX!SerialSpec

\* Every behaviour of Services is one of the options.
LEMMA RunsConfigSync == Spec => CS!Spec
<1>1. Init => CS!Init BY DEF Init
<1>2. [Next]_<<part, all>> => [CS!Next]_(CS!vars)
  BY DEF Next, all, cs, CS!vars
<1> QED BY <1>1, <1>2, PTL DEF Spec, CS!Spec

\* Every behaviour of Services is one of the transfers of files.
LEMMA RunsFileOwners == Spec => FO!Spec
<1>1. Init => FO!Init BY DEF Init
<1>2. [Next]_<<part, all>> => [FO!Next]_(FO!vars)
  BY DEF Next, all, fo, FO!vars
<1> QED BY <1>1, <1>2, PTL DEF Spec, FO!Spec

\* Every behaviour of Services is one of the memberships.
LEMMA RunsMembership == Spec => ME!Spec
<1>1. Init => ME!Init BY DEF Init
<1>2. [Next]_<<part, all>> => [ME!Next]_(ME!vars)
  BY DEF Next, all, me, ME!vars
<1> QED BY <1>1, <1>2, PTL DEF Spec, ME!Spec

\* Every behaviour of Services is one of the sessions.
LEMMA RunsSessions == Spec => SE!Spec
<1>1. Init => SE!Init BY DEF Init
<1>2. [Next]_<<part, all>> => [SE!Next]_(SE!vars)
  BY DEF Next, all, se, SE!vars
<1> QED BY <1>1, <1>2, PTL DEF Spec, SE!Spec

\* Every behaviour of Services is one of the invitations and password resets.
LEMMA RunsAccounts == Spec => AC!Spec
<1>1. Init => AC!Init BY DEF Init
<1>2. [Next]_<<part, all>> => [AC!Next]_(AC!vars)
  BY DEF Next, all, ac, AC!vars
<1> QED BY <1>1, <1>2, PTL DEF Spec, AC!Spec

\* Every behaviour of Services is one of the notifications.
LEMMA RunsNotifications == Spec => NO!Spec
<1>1. Init => NO!Init BY DEF Init
<1>2. [Next]_<<part, all>> => [NO!Next]_(NO!vars)
  BY DEF Next, all, no, NO!vars, NO!told
<1> QED BY <1>1, <1>2, PTL DEF Spec, NO!Spec

\* Every behaviour of Services is one of what is kept beside a DataStore table.
LEMMA RunsDatastore == Spec => DS!Spec
<1>1. Init => DS!Init BY DEF Init
<1>2. [Next]_<<part, all>> => [DS!Next]_(DS!vars)
  BY DEF Next, all, ds, DS!vars
<1> QED BY <1>1, <1>2, PTL DEF Spec, DS!Spec

\* Every behaviour of Services is one of a DataStore table.
LEMMA RunsDatastoreTable == Spec => DT!Spec
<1>1. Init => DT!Init BY DEF Init
<1>2. [Next]_<<part, all>> => [DT!Next]_(DT!vars)
  BY DEF Next, all, dt, DT!vars
<1> QED BY <1>1, <1>2, PTL DEF Spec, DT!Spec

-----------------------------------------------------------------------------
(* What the components promise *)

(* The key/value store keeps the promise of ExpiringMap, whatever callers  *)
(* overlap and however far the clock goes: a value that is over stays so,  *)
(* but for an incr that had looked at the clock before                     *)
(* (ckan/lib/kvstore.py).                                                  *)
THEOREM ServesAMap == ASSUME KV!ConstantsOK PROVE Spec => ActsAsMap
BY RunsKVStore, KV!KeepsPromise DEF ActsAsMap

(* The record of a file describes the file in the storage, and no file is  *)
(* left without one, whatever requests overlap (logic/action/file.py).     *)
THEOREM ServesFiles == ASSUME FiConstantsOK PROVE Spec => []RecordsMatchFiles
<1>1. Spec => []FI!RecordsMatchFiles
  BY RunsFiles, FiRecordsFollowFiles
<1> QED BY <1>1, PTL DEF RecordsMatchFiles

(* A reader finds one whole upload, the one the resource's row speaks of   *)
(* (ckan/lib/uploader.py).                                                 *)
THEOREM ServesUploads ==
  ASSUME UpConstantsOK PROVE Spec => []UploadsAreWholeAndOwn
<1>1. Spec => []UP!UploadsAreWholeAndOwn
  BY RunsUploads, UpUploadsKept
<1> QED BY <1>1, PTL DEF UploadsAreWholeAndOwn

(* A quiet, complete task tells that the DataStore holds the resource as   *)
(* it is, whatever the service was told of before it was committed or not  *)
(* at all, and no task waits for what will not come; but for the cases     *)
(* that TasksFollowSaves names (ckanext/datapusher).                       *)
THEOREM ServesTasks == ASSUME DpConstantsOK PROVE Spec => []TasksFollowSaves
<1>1. Spec => []DP!TasksFollowSaves
  BY RunsDataPusher, DpTasksAreKept
<1> QED BY <1>1, PTL DEF TasksFollowSaves

(* Requests for a dataset that come one after the other leave the index in *)
(* agreement with it, whatever failed before (ckan/lib/search).            *)
THEOREM ServesIndex ==
  ASSUME PxOps \subseteq PX!AllOps, Nothing \notin PxRequests \cup Nat,
         PxCols \cap {"state", "stamp"} = {}
  PROVE  Spec => SettledInSync
BY RunsPackageIndex, PX!SerialInSync DEF SettledInSync

(* A process that knows the latest stamp has the options of the database,  *)
(* except after a cut update, an admin's reset or a reset that failed, for *)
(* any number of processes and requests (ckan/lib/app_globals.py).         *)
THEOREM ServesOptions ==
  ASSUME CsConstantsOK PROVE Spec => []StampTellsOfOptions
<1>1. Spec => []CS!StampTellsOfOptions
  BY RunsConfigSync, CsStampTellsAll
<1> QED BY <1>1, PTL DEF StampTellsOfOptions

(* A pinned file goes to another owner only by force, and the history is   *)
(* the owners the file had, in their order (file_ownership_transfer of     *)
(* ckan/logic/action/file.py).                                             *)
THEOREM ServesTransfers ==
  ASSUME FoConstantsOK PROVE Spec => TransfersAreRecorded
BY RunsFileOwners, FoTransfersRecorded DEF TransfersAreRecorded

(* A user holds one role in a group and loses it when removed, until       *)
(* requests that overlap or a row that takes the capacity of another have  *)
(* torn the table (ckan/logic/action, ckan/lib/dictization/model_save.py). *)
THEOREM ServesRoles ==
  ASSUME MeConstantsOK PROVE Spec => RolesAreSingle
BY RunsMembership, MeRolesSingle DEF RolesAreSingle

(* A session id the browser had before it logged in never names a session  *)
(* of a user, and a session stored without a user is a user's again only   *)
(* by a request that had loaded it before; but for requests that come in   *)
(* with a remember cookie (ckan/views/user.py).                            *)
THEOREM ServesSessions ==
  ASSUME SeConstantsOK PROVE Spec => SessionsFollowLogins
BY RunsSessions, SeLoginsFollowed DEF SessionsFollowLogins

(* A pending user is a member and has a mail with his present key, unless  *)
(* none was sent for it, and one of whom the inviter heard that he was not *)
(* created has no role, whatever overlaps (user_invite of                  *)
(* ckan/logic/action/create.py, ckan/lib/mailer.py).                       *)
THEOREM ServesInvitations ==
  ASSUME AcConstantsOK PROVE Spec => []InvitationsAreWhole
<1>1. Spec => []AC!InvitationsAreWhole
  BY RunsAccounts, AcInvitationsWhole
<1> QED BY <1>1, PTL DEF InvitationsAreWhole

(* What no later mail will tell of was mailed or shown, unless committed   *)
(* late, cut from a list or let go by as too old or unwanted, and nothing  *)
(* is mailed twice but after a run that failed or overlapped               *)
(* (ckanext/activity/email_notifications.py).                              *)
THEOREM ServesNotifications ==
  ASSUME NoConstantsOK PROVE Spec => []ActivitiesAreToldOnce
<1>1. Spec => []NO!ActivitiesAreToldOnce
  BY RunsNotifications, NoToldOnce
<1> QED BY <1>1, PTL DEF ActivitiesAreToldOnce

(* Once no request is under way, the flag tells whether there is a table,  *)
(* the resource has the time of the last change and the cached count is    *)
(* the number of rows, but after a crash or a step that crossed another    *)
(* (ckanext/datastore/logic/action.py).                                    *)
THEOREM ServesMetadata ==
  ASSUME DsConstantsOK PROVE Spec => []MetadataFollowsTable
<1>1. Spec => []DS!MetadataFollowsTable
  BY RunsDatastore, DsMetadataFollows
<1> QED BY <1>1, PTL DEF MetadataFollowsTable

(* A row has the text of its values, but where a change left the text; an  *)
(* insert fails on an _id only where a request chose it; and the key is    *)
(* the one asked for last, or its name was taken                           *)
(* (ckanext/datastore/backend/postgres.py).                                *)
THEOREM ServesTable ==
  ASSUME DtConstantsOK, DtIndexable \subseteq DtColumns
  PROVE  Spec => []TableServesItsRows
<1>1. Spec => []DT!TableServesItsRows
  BY RunsDatastoreTable, DtTableServes
<1> QED BY <1>1, PTL DEF TableServesItsRows

(* Every component of Services is well typed, whatever interleaves.        *)
THEOREM ServesTypes ==
  ASSUME SeConstantsOK, MeConstantsOK, AcConstantsOK, NoConstantsOK,
         FiConstantsOK, FoConstantsOK, UpConstantsOK, DpConstantsOK,
         CsConstantsOK, DsConstantsOK, DtConstantsOK,
         DtIndexable \subseteq DtColumns, KV!ConstantsOK,
         PxOps \subseteq PX!AllOps, Nothing \notin PxRequests \cup Nat,
         PxCols \cap {"state", "stamp"} = {}
  PROVE  Spec => []TypeOK
<1>1. Spec => []SE!TypeOK /\ []ME!TypeOK /\ []AC!TypeOK /\ []NO!TypeOK
  <2>1. Spec => []SE!TypeOK BY RunsSessions, SeTypeCorrect
  <2>2. Spec => []ME!TypeOK BY RunsMembership, MeTypeCorrect
  <2>3. Spec => []AC!TypeOK BY RunsAccounts, AcTypeCorrect
  <2>4. Spec => []NO!TypeOK BY RunsNotifications, NoTypeCorrect
  <2> QED BY <2>1, <2>2, <2>3, <2>4
<1>2. Spec => []FI!TypeOK /\ []FO!TypeOK /\ []UP!TypeOK /\ []DP!TypeOK /\ []CS!TypeOK
  <2>1. Spec => []FI!TypeOK BY RunsFiles, FiTypeCorrect
  <2>2. Spec => []FO!TypeOK BY RunsFileOwners, FoTypeCorrect
  <2>3. Spec => []UP!TypeOK BY RunsUploads, UpTypeCorrect
  <2>4. Spec => []DP!TypeOK BY RunsDataPusher, DpTypeCorrect
  <2>5. Spec => []CS!TypeOK BY RunsConfigSync, CsTypeCorrect
  <2> QED BY <2>1, <2>2, <2>3, <2>4, <2>5
<1>3. Spec => []DS!TypeOK /\ []DT!TypeOK /\ []KV!TypeOK /\ []PX!TypeOK
  <2>1. Spec => []DS!TypeOK BY RunsDatastore, DsTypeCorrect
  <2>2. Spec => []DT!TypeOK BY RunsDatastoreTable, DtTypeCorrect
  <2>3. Spec => []KV!TypeOK BY RunsKVStore, KV!TypeCorrect
  <2>4. Spec => []PX!TypeOK BY RunsPackageIndex, PX!SerialTypes
  <2> QED BY <2>1, <2>2, <2>3, <2>4
<1>4. /\ SE!TypeOK /\ ME!TypeOK /\ AC!TypeOK /\ NO!TypeOK
      /\ FI!TypeOK /\ FO!TypeOK /\ UP!TypeOK /\ DP!TypeOK /\ CS!TypeOK
      /\ DS!TypeOK /\ DT!TypeOK /\ KV!TypeOK /\ PX!TypeOK
      => TypeOK
  BY DEF TypeOK
<1> QED BY <1>1, <1>2, <1>3, <1>4, PTL

-----------------------------------------------------------------------------
(* The queue of background jobs *)

\* What JobQueue assumes of its constants; there are finitely many ids.
JqConstantsOK ==
  /\ JqJobIds \subseteq Nat /\ JqJobIds # {} /\ JqCallerIds \subseteq JqJobIds
  /\ JqQueues # {}
  /\ JqServes \in [JqWorkers -> Seq(JqQueues)]
  /\ JqTimeouts \subseteq Nat /\ JqDelays \subseteq Nat
  /\ JqGrace \in Nat /\ JqStaleSlack \in Nat /\ JqStaleInterval \in Nat
  /\ JqMaxPickup \in Nat
  /\ JqMaxEnqueues \in Nat /\ JqHorizon \in Nat /\ JqMaxTime \in Nat
  /\ JqMaxPickup + JqGrace <= JqStaleSlack
  /\ IsFiniteSet(JqJobIds)

(* A worker claims a job only when every job listed before it in its queue *)
(* is just being claimed and no queue further left in its own list offers  *)
(* another one: workers keep the order that list_jobs promises, whichever  *)
(* of them claim at once (ckan/lib/jobqueue).                              *)
THEOREM ClaimsFollow ==
  ASSUME JqConstantsOK PROVE JQ!Spec => ClaimsFollowListing
<1>1. JQ!IsFiniteSet(JqJobIds)
  BY DEF JqConstantsOK, IsFiniteSet, JQ!IsFiniteSet
<1> QED BY <1>1, JQ!ClaimsDoFollow DEF ClaimsFollowListing, JqConstantsOK
=============================================================================
