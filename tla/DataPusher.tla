----------------------------- MODULE DataPusher -----------------------------
(***************************************************************************)
(* ckanext/datapusher: one resource whose file DataPusher, a service of    *)
(* its own, loads into the DataStore.  Saving the resource submits a job   *)
(* before its commit and again after it, unless one is under way; the      *)
(* task_status row remembers it, and DataPusher calls datapusher_hook when *)
(* the job is over.                                                        *)
(***************************************************************************)
EXTENDS Naturals

CONSTANTS
  Requests,
  Nothing,     \* no request, no row
  MaxTime,     \* timestamps taken (bound)
  MaxVersion   \* versions of the resource (bound)

VARIABLES
  time,     \* timestamps are 1 .. time
  version,  \* of the resource, as committed
  url,      \* its URL, named for the version that brought it
  modified, \* its last_modified, 0 for none
  draft,    \* the save under way, that holds the row: [by, kind, stamp]
  task,     \* state of the task_status row
  jobs,     \* under way in DataPusher: [created, url, loaded]
  loaded,   \* the version in the DataStore
  call,     \* [pc, stamp, url, resubmit, status, seen] of each request
  excuse    \* what may have gone wrong

vars == <<time, version, url, modified, draft, task, jobs, loaded, call, excuse>>
resource == <<version, url, modified, draft>>

At(r, pc) == call[r] # Nothing /\ call[r].pc = pc
Go(r, pc) == call' = [call EXCEPT ![r].pc = pc]
Doing(pc, stamp, u, status) ==
  [pc |-> pc, stamp |-> stamp, url |-> u, status |-> status,
   resubmit |-> FALSE, seen |-> 0]
Begin(r, pc, stamp, u, status) ==
  /\ call[r] = Nothing
  /\ call' = [call EXCEPT ![r] = Doing(pc, stamp, u, status)]

Drafts(r) == draft # Nothing /\ draft.by = r
\* A submission that was made by a save returns to it.
End(r) ==
  call' = [call EXCEPT ![r] =
             IF Drafts(r) THEN Doing("commit", 0, 0, Nothing) ELSE Nothing]
Pending == {"submitting", "pending"}
Stamp == time < MaxTime /\ time' = time + 1

-----------------------------------------------------------------------------
(* Saving the resource, under the lock on its dataset.  An upload takes    *)
(* last_modified when it begins; a new link leaves it as it was.  Either   *)
(* way the URL counts as changed, and the plugin is told in before_commit. *)

Modify(r, kind) ==
  /\ draft = Nothing /\ version < MaxVersion
  /\ IF kind = "upload" THEN Stamp ELSE UNCHANGED time
  /\ draft' = [by |-> r, kind |-> kind, stamp |-> time']
  /\ Begin(r, "check", 0, 0, Nothing)
  /\ UNCHANGED <<version, url, modified, task, jobs, loaded, excuse>>

\* Another field is saved: the plugin is told after the commit only.
Edit(r) ==
  /\ Begin(r, "check", 0, 0, Nothing)
  /\ UNCHANGED <<time, resource, task, jobs, loaded, excuse>>

(* _submit_to_datapusher skips a resource whose task is under way; the     *)
(* hook of that task is to make it good.                                   *)
Check(r) ==
  /\ At(r, "check")
  /\ IF task \in Pending THEN End(r) ELSE Go(r, "submit")
  /\ UNCHANGED <<time, resource, task, jobs, loaded, excuse>>

\* Has the DataStore been given what the resource was, by a job that the save
\* under way does not make out as older than itself?
Missed(created, u) ==
  IF draft.kind = "upload" THEN created > draft.stamp
                           ELSE modified # 0 \/ u = version + 1
ReadEarly ==
  \/ \E j \in jobs : j.loaded # 0 /\ Missed(j.created, j.url)
  \/ \E q \in Requests : At(q, "hook") /\ Missed(call[q].stamp, call[q].url)

\* resource_update tells the plugin once more, package_update does not.
Commit(r, again) ==
  /\ At(r, "commit")
  /\ version' = version + 1
  /\ IF draft.kind = "upload" THEN modified' = draft.stamp /\ UNCHANGED url
                              ELSE url' = version + 1 /\ UNCHANGED modified
  /\ draft' = Nothing
  /\ excuse' = excuse \cup (IF ReadEarly THEN {"read early"} ELSE {})
       \cup (IF task = "complete" /\ ~again THEN {"over early"} ELSE {})
  /\ IF again THEN Go(r, "check") ELSE call' = [call EXCEPT ![r] = Nothing]
  /\ UNCHANGED <<time, task, jobs, loaded>>

\* Nothing is saved after all; what was submitted stays so.
Rollback(r) ==
  /\ At(r, "commit")
  /\ draft' = Nothing
  /\ call' = [call EXCEPT ![r] = Nothing]
  /\ UNCHANGED <<time, version, url, modified, task, jobs, loaded, excuse>>

-----------------------------------------------------------------------------
(* datapusher_submit, also called by users.  A pending task is left alone  *)
(* unless it is old, which may be at any time.                             *)

SubmitByUser(r) ==
  /\ Begin(r, "submit", 0, 0, Nothing)
  /\ UNCHANGED <<time, resource, task, jobs, loaded, excuse>>

SkipDuplicate(r) ==
  /\ At(r, "submit") /\ task = "pending"
  /\ End(r)
  /\ UNCHANGED <<time, resource, task, jobs, loaded, excuse>>

(* The timestamp and the URL that the job is given are taken here; a save  *)
(* sees the URL it is about to commit.                                     *)
Look(r) ==
  /\ At(r, "submit")
  /\ Stamp
  /\ call' = [call EXCEPT ![r].pc = "mark", ![r].stamp = time + 1,
       ![r].url = IF Drafts(r) /\ draft.kind = "link" THEN version + 1 ELSE url]
  /\ UNCHANGED <<resource, task, jobs, loaded, excuse>>

\* Committed in a session of its own before the job is posted.
Mark(r) ==
  /\ At(r, "mark")
  /\ task' = "submitting"
  /\ Go(r, "post")
  /\ UNCHANGED <<time, resource, jobs, loaded, excuse>>

\* A job may overlap another one, of a submission that timed out or was
\* taken for stale.
Accept(r) ==
  /\ jobs' = jobs \cup {[created |-> call[r].stamp, url |-> call[r].url, loaded |-> 0]}
  /\ excuse' = excuse \cup
       (IF jobs # {} \/ \E q \in Requests : At(q, "hook") \/ At(q, "hook_write")
        THEN {"overlap"} ELSE {})

Post(r) ==
  /\ At(r, "post")
  /\ Accept(r)
  /\ Go(r, "accepted")
  /\ UNCHANGED <<time, resource, task, loaded>>

\* A timeout, in which case the job may have been accepted, or an error.
PostFails(r) ==
  /\ At(r, "post")
  /\ (Accept(r) \/ UNCHANGED <<jobs, excuse>>)
  /\ Go(r, "failed")
  /\ UNCHANGED <<time, resource, task, loaded>>

Failed(r) ==
  /\ At(r, "failed")
  /\ task' = "error"
  /\ End(r)
  /\ UNCHANGED <<time, resource, jobs, loaded, excuse>>

\* Written without a look at what the hook may have written meanwhile.
Accepted(r) ==
  /\ At(r, "accepted")
  /\ task' = "pending"
  /\ excuse' = excuse \cup (IF task \notin Pending THEN {"overtaken"} ELSE {})
  /\ End(r)
  /\ UNCHANGED <<time, resource, jobs, loaded>>

-----------------------------------------------------------------------------
(* DataPusher, that reads what is committed.                               *)

Fetch(j) ==
  /\ j.loaded = 0
  /\ jobs' = (jobs \ {j}) \cup {[j EXCEPT !.loaded = version]}
  /\ UNCHANGED <<time, resource, task, loaded, call, excuse>>

\* The job is over, and the hook of CKAN is called; the call may be lost.
Report(j, r, status) ==
  /\ status = "complete" => j.loaded # 0
  /\ jobs' = jobs \ {j}
  /\ loaded' = IF status = "complete" THEN j.loaded ELSE loaded
  /\ \/ Begin(r, "hook", j.created, j.url, status) /\ UNCHANGED excuse
     \/ excuse' = excuse \cup {"lost"} /\ UNCHANGED call
  /\ UNCHANGED <<time, resource, task>>

-----------------------------------------------------------------------------
(* datapusher_hook *)

\* Mutant: the URL is not compared.
ModifiedByTime(created, u) == modified > created

\* metadata.task_created is compared to last_modified, and the URL only when
\* there is no last_modified.
ModifiedSince(created, u) == IF modified # 0 THEN modified > created ELSE url # u

Hook(r) ==
  /\ At(r, "hook")
  /\ call' = [call EXCEPT ![r].pc = "hook_write", ![r].seen = version,
       ![r].resubmit = call[r].status = "complete"
                       /\ ModifiedSince(call[r].stamp, call[r].url)]
  /\ UNCHANGED <<time, resource, task, jobs, loaded, excuse>>

HookWrite(r) ==
  /\ At(r, "hook_write")
  /\ task' = call[r].status
  /\ excuse' = excuse \cup (IF call[r].seen # version THEN {"looked early"} ELSE {})
  /\ IF call[r].resubmit THEN Go(r, "submit") ELSE End(r)
  /\ UNCHANGED <<time, resource, jobs, loaded>>

-----------------------------------------------------------------------------

Init ==
  /\ time = 0
  /\ version = 1
  /\ url = 1
  /\ modified = 0
  /\ draft = Nothing
  /\ task = "none"
  /\ jobs = {}
  /\ loaded = 0
  /\ call = [r \in Requests |-> Nothing]
  /\ excuse = {}

Next ==
  \/ \E j \in jobs : Fetch(j)
  \/ \E r \in Requests :
    \/ \E kind \in {"upload", "link"} : Modify(r, kind)
    \/ Edit(r) \/ Check(r) \/ Rollback(r)
    \/ \E again \in BOOLEAN : Commit(r, again)
    \/ SubmitByUser(r) \/ SkipDuplicate(r) \/ Look(r) \/ Mark(r)
    \/ Post(r) \/ PostFails(r) \/ Failed(r) \/ Accepted(r)
    \/ \E j \in jobs, status \in {"complete", "error"} : Report(j, r, status)
    \/ Hook(r) \/ HookWrite(r)

Spec == Init /\ [][Next]_vars

-----------------------------------------------------------------------------
(* Properties *)

TypeOK ==
  /\ time \in 0 .. MaxTime
  /\ version \in 1 .. MaxVersion /\ loaded \in 0 .. MaxVersion
  /\ url \in 1 .. version /\ modified \in 0 .. time
  /\ draft = Nothing \/ draft \in
       [by : Requests, kind : {"upload", "link"}, stamp : 0 .. time]
  /\ task \in {"none", "submitting", "pending", "complete", "error"}
  /\ jobs \subseteq [created : 1 .. time, url : 1 .. MaxVersion, loaded : 0 .. MaxVersion]

Quiet == (\A r \in Requests : call[r] = Nothing) /\ jobs = {}

(* When nothing is under way and the task is complete, the DataStore holds *)
(* the resource as it is, whatever was saved, or told to DataPusher and    *)
(* not saved, while its job ran.  Excepted are jobs that overlap; a job    *)
(* that read the resource before a save was committed which the hook will  *)
(* not make out: an upload that took its last_modified before the job was  *)
(* made, a link the job was told of before, a new link of a resource that  *)
(* has a last_modified; a save with the whole dataset, of which DataPusher *)
(* is told before the commit only, when the task is complete by then; and  *)
(* a save that committed between the look of a hook at the resource and    *)
(* what the hook wrote of the task.                                        *)
(* And no task is then left submitting or pending, on account of which     *)
(* every save would be skipped from then on: but for hook calls that were  *)
(* lost and an answer to a submission that was recorded after the hook of  *)
(* its job.                                                                *)
TasksFollowSaves ==
  Quiet =>
    /\ task = "complete" /\ excuse \subseteq {"lost", "overtaken"} => loaded = version
    /\ excuse \cap {"lost", "overtaken"} = {} => task \notin Pending
=============================================================================
