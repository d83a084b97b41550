---------------------------- MODULE Stores ----------------------------------
(***************************************************************************)
(* What is kept beside the rows of the catalogue: files and their owners,  *)
(* uploads of resources, the tasks that fill the DataStore from them, the  *)
(* configuration of the running processes, the table of a resource in the  *)
(* DataStore and what is kept beside it.  The parts share no state, and    *)
(* each is an instance of its own module.                                  *)
(***************************************************************************)
EXTENDS Naturals, FiniteSets

CONSTANT Missing

CONSTANTS FiRequests, FiOverrides, FiMaxId
VARIABLES fiRecord, fiStored, fiMade, fiCall, fiRaced, fiCut
fi == <<fiRecord, fiStored, fiMade, fiCall, fiRaced, fiCut>>
FI == INSTANCE Files WITH
  Requests <- FiRequests, Nothing <- Missing, Overrides <- FiOverrides,
  MaxId <- FiMaxId, record <- fiRecord, stored <- fiStored, made <- fiMade,
  call <- fiCall, raced <- fiRaced, cut <- fiCut

CONSTANTS FoRequests, FoOwners, FoMaxHistory
VARIABLES foOwner, foHistory, foPast, foCall, foStale
fo == <<foOwner, foHistory, foPast, foCall, foStale>>
FO == INSTANCE FileOwners WITH
  Requests <- FoRequests, Nothing <- Missing, Owners <- FoOwners,
  MaxHistory <- FoMaxHistory, owner <- foOwner, history <- foHistory,
  past <- foPast, call <- foCall, stale <- foStale

CONSTANTS UpRequests, UpChunks, UpMaxUpload
VARIABLES upRow, upFile, upTmp, upContent, upLock, upCall, upMade, upUndone
up == <<upRow, upFile, upTmp, upContent, upLock, upCall, upMade, upUndone>>
UP == INSTANCE Uploads WITH
  Requests <- UpRequests, Nothing <- Missing, Chunks <- UpChunks,
  MaxUpload <- UpMaxUpload, row <- upRow, file <- upFile, tmp <- upTmp,
  content <- upContent, lock <- upLock, call <- upCall, made <- upMade,
  undone <- upUndone

CONSTANTS DpRequests, DpMaxTime, DpMaxVersion
VARIABLES
  dpTime, dpVersion, dpUrl, dpModified, dpDraft, dpTask, dpJobs, dpLoaded,
  dpCall, dpExcuse
dp == <<
  dpTime, dpVersion, dpUrl, dpModified, dpDraft, dpTask, dpJobs, dpLoaded,
  dpCall, dpExcuse>>
DP == INSTANCE DataPusher WITH
  Requests <- DpRequests, Nothing <- Missing, MaxTime <- DpMaxTime,
  MaxVersion <- DpMaxVersion, time <- dpTime, version <- dpVersion,
  url <- dpUrl, modified <- dpModified, draft <- dpDraft, task <- dpTask,
  jobs <- dpJobs, loaded <- dpLoaded, call <- dpCall, excuse <- dpExcuse

CONSTANTS DsRequests, DsMaxRows, DsMaxChanges
VARIABLES
  dsTable, dsChanges, dsStats, dsActive, dsModified, dsCountJob, dsPatchJob,
  dsPatching, dsCall, dsExcuse
ds == <<
  dsTable, dsChanges, dsStats, dsActive, dsModified, dsCountJob, dsPatchJob,
  dsPatching, dsCall, dsExcuse>>
DS == INSTANCE Datastore WITH
  Requests <- DsRequests, Nothing <- Missing, MaxRows <- DsMaxRows,
  MaxChanges <- DsMaxChanges, table <- dsTable, changes <- dsChanges,
  stats <- dsStats, active <- dsActive, modified <- dsModified,
  countJob <- dsCountJob, patchJob <- dsPatchJob, patching <- dsPatching,
  call <- dsCall, excuse <- dsExcuse

CONSTANTS CsProcesses, CsRequests, CsOptions, CsMaxValue, CsMaxStamp
VARIABLES csDb, csStamp, csConfig, csKnown, csMutex, csCall, csBehind
cs == <<csDb, csStamp, csConfig, csKnown, csMutex, csCall, csBehind>>
CS == INSTANCE ConfigSync WITH
  Processes <- CsProcesses, Requests <- CsRequests, Nothing <- Missing,
  Options <- CsOptions, MaxValue <- CsMaxValue, MaxStamp <- CsMaxStamp,
  db <- csDb, stamp <- csStamp, config <- csConfig, known <- csKnown,
  mutex <- csMutex, call <- csCall, behind <- csBehind

CONSTANTS DtColumns, DtIndexable, DtValues, DtNull, DtMaxRows, DtMaxId
VARIABLES dtTable, dtRows, dtAsked, dtHidden, dtKept, dtAhead, dtClash
dt == <<dtTable, dtRows, dtAsked, dtHidden, dtKept, dtAhead, dtClash>>
DT == INSTANCE DatastoreTable WITH
  Columns <- DtColumns, Indexable <- DtIndexable, Values <- DtValues,
  Null <- DtNull, Nothing <- Missing, MaxRows <- DtMaxRows,
  MaxId <- DtMaxId, table <- dtTable, rows <- dtRows, asked <- dtAsked,
  hidden <- dtHidden, kept <- dtKept, ahead <- dtAhead, clash <- dtClash

-----------------------------------------------------------------------------
(* Properties *)

(* Files: The record describes the file that is in the storage, except     *)
(* while a deletion has removed the file and not yet its record.           *)
RecordsMatchFiles == FI!RecordsMatchFiles

(* FileOwners: A pinned file goes to another owner only by force, and the  *)
(* history is the owners that the file had, in their order.                *)
TransfersAreRecorded == FO!TransfersAreRecorded

(* Uploads: A reader finds the whole of one upload, although the temporary *)
(* file has one name for all uploads of the resource and may be left by a  *)
(* crash.                                                                  *)
UploadsAreWholeAndOwn == UP!UploadsAreWholeAndOwn

(* DataPusher: When nothing is under way and the task is complete, the     *)
(* DataStore holds the resource as it is, whatever was saved, or told to   *)
(* DataPusher and not saved, while its job ran.                            *)
TasksFollowSaves == DP!TasksFollowSaves

(* Datastore: What is kept beside a table follows it, once the requests    *)
(* are over.                                                               *)
MetadataFollowsTable == DS!MetadataFollowsTable

(* ConfigSync: A process that knows the latest stamp has the options of    *)
(* the database, when none is being written or read, however resets and    *)
(* updates of several processes and threads interleave.                    *)
StampTellsOfOptions == CS!StampTellsOfOptions

(* DatastoreTable: A search finds a row by its values, except a row that   *)
(* an upsert has changed, or a dropped column, whose text is the one of    *)
(* before.                                                                 *)
TableServesItsRows == DT!TableServesItsRows
=============================================================================
