----------------------------- MODULE Datastore -----------------------------
(***************************************************************************)
(* The DataStore table of one editable resource (ckanext/datastore), and   *)
(* what is kept about it elsewhere: the number of rows in _table_stats,    *)
(* the flag datastore_active and last_modified of the resource, and the    *)
(* two background jobs that bring these up to date.  A request changes the *)
(* table in one transaction and the rest after it.                         *)
(***************************************************************************)
EXTENDS Naturals, FiniteSets

CONSTANTS
  Requests,
  Nothing,    \* no table, count, stamp or request
  MaxRows,    \* rows of the table (bound)
  MaxChanges  \* transactions that change the table (bound)

VARIABLES
  table,     \* the number of rows, or Nothing
  changes,   \* transactions that changed the table
  stats,     \* the rows that _table_stats has
  active,    \* datastore_active
  modified,  \* last_modified: the changes there were when it was taken
  countJob,  \* whether calculate-record-count waits
  patchJob,  \* the time that patch-last_modified is to set, if it waits
  patching,  \* the time that a worker is setting
  call,      \* [pc, kind, count, active, cancelled, seen] of each request
  excuse     \* what went wrong

vars == <<table, changes, stats, active, modified, countJob, patchJob, patching,
          call, excuse>>

At(r, pc) == call[r] # Nothing /\ call[r].pc = pc
Go(r, pc) == call' = [call EXCEPT ![r].pc = pc]
End(r) == call' = [call EXCEPT ![r] = Nothing]
Excused(what, is) == excuse' = IF is THEN excuse \cup {what} ELSE excuse

Begun(r, pc, kind, count) ==
  /\ call[r] = Nothing
  /\ call' = [call EXCEPT ![r] =
       [pc |-> pc, kind |-> kind, count |-> count, active |-> active,
        cancelled |-> countJob /\ count # "no", seen |-> 0]]

(* datastore_create, datastore_delete of the table ("drop"), and           *)
(* datastore_upsert and datastore_records_delete ("write") load the        *)
(* resource and cancel a count that waits.                                 *)
Write(r, kind, count) ==
  /\ kind # "create" => table # Nothing
  /\ Begun(r, "change", kind, count)
  /\ countJob' = (countJob /\ count = "no")
  /\ UNCHANGED <<table, changes, stats, active, modified, patchJob, patching, excuse>>

Changed(c) ==
  CASE c.kind = "create" -> IF table = Nothing THEN {0, 1} ELSE {table, table + 1}
    [] c.kind = "write" /\ table # Nothing -> 0 .. MaxRows
    [] c.kind = "drop" /\ table # Nothing -> {Nothing}
    [] OTHER -> {}

\* The transaction of the backend.
Change(r) ==
  /\ At(r, "change") /\ changes < MaxChanges
  /\ table' \in Changed(call[r]) \cap (0 .. MaxRows \cup {Nothing})
  /\ changes' = changes + 1
  /\ call' = [call EXCEPT ![r].pc = "count", ![r].cancelled = FALSE]
  /\ UNCHANGED <<stats, active, modified, countJob, patchJob, patching, excuse>>

\* The transaction fails: a count that was cancelled is scheduled again.
ChangeFails(r) ==
  /\ At(r, "change")
  /\ countJob' = (countJob \/ call[r].cancelled)
  /\ End(r)
  /\ UNCHANGED <<table, changes, stats, active, modified, patchJob, patching, excuse>>

Counted(r) == call' = [call EXCEPT ![r].pc = "flag", ![r].count = "no"]

\* Mutant: the count that there was is kept until the job has run.
RecountKeeping(r) ==
  /\ At(r, "count")
  /\ countJob' = (countJob \/ call[r].count = "later")
  /\ Counted(r)
  /\ UNCHANGED <<table, changes, stats, active, modified, patchJob, patching, excuse>>

(* The count is dropped, unless it is to be made now.  update_table_stats  *)
(* returns the count there is, if there is one; for a table that was       *)
(* dropped it raises, and the flag is not reached.                         *)
Recount(r) ==
  /\ At(r, "count")
  /\ IF call[r].count = "now"
     THEN /\ UNCHANGED countJob
          /\ IF table = Nothing
             THEN UNCHANGED stats /\ End(r) /\ Excused("no table to count", TRUE)
             ELSE /\ stats' = IF stats = Nothing THEN table ELSE stats
                  /\ Counted(r) /\ Excused("count kept", stats' # table)
     ELSE /\ stats' = Nothing
          /\ countJob' = (countJob \/ call[r].count = "later")
          /\ Counted(r) /\ UNCHANGED excuse
  /\ UNCHANGED <<table, changes, active, modified, patchJob, patching>>

Sets(c) == c.kind = "create" /\ ~c.active
Clears(c) == c.kind = "drop" /\ c.active

(* resource_patch of the flag and last_modified, when the flag as it was   *)
(* loaded differs from what it should be.                                  *)
PatchFlag(r) ==
  /\ At(r, "flag") /\ (Sets(call[r]) \/ Clears(call[r]))
  /\ active' = Sets(call[r])
  /\ modified' = changes
  /\ patchJob' = IF Clears(call[r]) THEN Nothing ELSE patchJob
  /\ Excused("crossed", \/ Sets(call[r]) = (table = Nothing)
                         \/ {patchJob', patching} # {Nothing})
  /\ End(r)
  /\ UNCHANGED <<table, changes, stats, countJob, patching>>

\* Otherwise last_modified is set by a job; its time is taken first.
TakeTime(r) ==
  /\ At(r, "flag") /\ ~Sets(call[r]) /\ ~Clears(call[r])
  /\ call' = [call EXCEPT ![r].pc = "schedule", ![r].seen = changes]
  /\ Excused("crossed",
       call[r].kind \in {"create", "drop"} /\ active # call[r].active)
  /\ UNCHANGED <<table, changes, stats, active, modified, countJob, patchJob, patching>>

\* The job takes the place of the one that waits, which has its id.
Schedule(r) ==
  /\ At(r, "schedule")
  /\ patchJob' = call[r].seen
  /\ Excused("crossed",
       \/ patchJob # Nothing /\ patchJob > call[r].seen
       \/ patching # Nothing /\ patching > call[r].seen
       \/ modified > call[r].seen)
  /\ End(r)
  /\ UNCHANGED <<table, changes, stats, active, modified, countJob, patching>>

\* A worker takes the job out of the queue; deleting it is too late then.
StartPatch ==
  /\ patchJob # Nothing /\ patching = Nothing
  /\ patching' = patchJob /\ patchJob' = Nothing
  /\ UNCHANGED <<table, changes, stats, active, modified, countJob, call, excuse>>

Patch ==
  /\ patching # Nothing
  /\ modified' = patching /\ patching' = Nothing
  /\ UNCHANGED <<table, changes, stats, active, countJob, patchJob, call, excuse>>

-----------------------------------------------------------------------------
(* cached_table_row_count, for a search or for the job: the rows are       *)
(* counted when no count is there, and the count is stored.                *)

Count(r) ==
  /\ table # Nothing /\ stats = Nothing
  /\ call[r] = Nothing
  /\ call' = [call EXCEPT ![r] = [pc |-> "store", kind |-> "search", count |-> "no",
                active |-> active, cancelled |-> FALSE, seen |-> table]]

Search(r) ==
  /\ Count(r)
  /\ UNCHANGED <<table, changes, stats, active, modified, countJob, patchJob, patching,
                 excuse>>

CalculateRecordCount(r) ==
  /\ countJob /\ countJob' = FALSE
  /\ Count(r) \/ ((table = Nothing \/ stats # Nothing) /\ UNCHANGED call)
  /\ UNCHANGED <<table, changes, stats, active, modified, patchJob, patching, excuse>>

StoreCount(r) ==
  /\ At(r, "store")
  /\ stats' = call[r].seen
  /\ Excused("counted early", call[r].seen # table)
  /\ End(r)
  /\ UNCHANGED <<table, changes, active, modified, countJob, patchJob, patching>>

\* The process of a request stops.
Crash(r) ==
  /\ call[r] # Nothing
  /\ Excused("crash", call[r].kind # "search")
  /\ End(r)
  /\ UNCHANGED <<table, changes, stats, active, modified, countJob, patchJob, patching>>

Init ==
  /\ table = Nothing
  /\ changes = 0
  /\ stats = Nothing
  /\ active = FALSE
  /\ modified = 0
  /\ countJob = FALSE
  /\ patchJob = Nothing
  /\ patching = Nothing
  /\ call = [r \in Requests |-> Nothing]
  /\ excuse = {}

Kinds == {"create", "write", "drop"}

Next ==
  \/ \E r \in Requests :
       \/ \E kind \in Kinds, count \in {"no", "now", "later"} : Write(r, kind, count)
       \/ Change(r) \/ ChangeFails(r) \/ Recount(r)
       \/ PatchFlag(r) \/ TakeTime(r) \/ Schedule(r)
       \/ Search(r) \/ CalculateRecordCount(r) \/ StoreCount(r) \/ Crash(r)
  \/ StartPatch \/ Patch

Spec == Init /\ [][Next]_vars

-----------------------------------------------------------------------------
(* Properties *)

TypeOK ==
  /\ {table, stats} \subseteq 0 .. MaxRows \cup {Nothing}
  /\ changes \in 0 .. MaxChanges /\ modified \in 0 .. changes
  /\ {patchJob, patching} \subseteq 0 .. changes \cup {Nothing}
  /\ active \in BOOLEAN /\ countJob \in BOOLEAN
  /\ \A r \in Requests : call[r] # Nothing => call[r].kind \in Kinds \cup {"search"}

Quiet == \A r \in Requests : call[r] = Nothing

(* What is kept beside a table follows it, once the requests are over: the *)
(* flag of the resource tells whether there is a table, the total that a   *)
(* search takes from the cache is the number of rows, and last_modified    *)
(* is no older than the last change when its job has run, although jobs    *)
(* replace one another.  Exempt are a crash; a table that was dropped and  *)
(* was to be counted at once; for the flag and the time, requests that     *)
(* crossed; for the count, one that was kept because it was there already, *)
(* or made before a change and stored after it.                            *)
MetadataFollowsTable ==
  Quiet /\ "crash" \notin excuse =>
    /\ excuse \cap {"no table to count", "crossed"} = {} =>
         /\ active = (table # Nothing)
         /\ patchJob = Nothing /\ patching = Nothing => modified = changes
    /\ /\ table # Nothing /\ stats # Nothing
       /\ excuse \cap {"count kept", "counted early"} = {}
       => stats = table
=============================================================================
