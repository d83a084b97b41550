------------------------------- MODULE Files -------------------------------
(***************************************************************************)
(* The file actions (ckan/logic/action/file.py) on one location of one     *)
(* storage: the record of the file in the database, unique by storage and  *)
(* location, and the file in the storage.  A request looks for the record, *)
(* works on the storage, and commits its record; the steps of several      *)
(* requests interleave and the process may stop between them.              *)
(***************************************************************************)
EXTENDS Naturals

CONSTANTS
  Requests,
  Nothing,    \* no record, no file, no request
  Overrides,  \* whether the storage replaces files (override_existing)
  MaxId       \* records and uploads made (bound)

VARIABLES
  record,  \* [id, file] of the row: file is the upload whose hash it holds
  stored,  \* the upload in the storage
  made,    \* ids given out
  call,    \* [pc, id, file] of each request
  raced,   \* a request wrote or removed the file on the strength of an old look
  cut      \* a request stopped after it changed the storage

vars == <<record, stored, made, call, raced, cut>>

At(r, pc) == call[r] # Nothing /\ call[r].pc = pc
Go(r, pc) == call' = [call EXCEPT ![r].pc = pc]
End(r) == call' = [call EXCEPT ![r] = Nothing]
Start(r, pc, id, file) ==
  call' = [call EXCEPT ![r] = [pc |-> pc, id |-> id, file |-> file]]

Busy == {r \in Requests : call[r] # Nothing}

\* File.by_location: "File already exists" otherwise.
LookForCreate(r) ==
  /\ call[r] = Nothing /\ record = Nothing
  /\ made < MaxId
  /\ made' = made + 1
  /\ Start(r, "upload", made + 1, made + 1)
  /\ UNCHANGED <<record, stored, raced, cut>>

\* Storage.upload: ExistingFileError unless the storage overrides.
Upload(r) ==
  /\ At(r, "upload")
  /\ IF stored # Nothing /\ ~Overrides THEN End(r) /\ UNCHANGED stored
     ELSE stored' = call[r].file /\ Go(r, "insert")
  /\ raced' = (raced \/ (stored' # stored /\ <<record, stored>> # <<Nothing, Nothing>>))
  /\ UNCHANGED <<record, made, cut>>

\* file_register: analyze, after the look for a record.
LookForRegister(r) ==
  /\ call[r] = Nothing /\ record = Nothing
  /\ made < MaxId
  /\ made' = made + 1
  /\ Start(r, "analyze", made + 1, Nothing)
  /\ UNCHANGED <<record, stored, raced, cut>>

Analyze(r) ==
  /\ At(r, "analyze")
  /\ IF stored = Nothing THEN End(r)
     ELSE call' = [call EXCEPT ![r].pc = "insert", ![r].file = stored]
  /\ UNCHANGED <<record, stored, made, raced, cut>>

(* The row of the file.  The unique index refuses a second one; when the   *)
(* storage has changed since, the row tells of a file that is not there.   *)
Insert(r) ==
  /\ At(r, "insert")
  /\ record' = IF record # Nothing THEN record
               ELSE [id |-> call[r].id, file |-> call[r].file]
  /\ raced' = (raced \/ stored # call[r].file)
  /\ End(r)
  /\ UNCHANGED <<stored, made, cut>>

LookForDelete(r) ==
  /\ call[r] = Nothing /\ record # Nothing
  /\ Start(r, "remove", record.id, record.file)
  /\ UNCHANGED <<record, stored, made, raced, cut>>

\* Mutant: the record is left to another request.
RemoveOnly(r) ==
  /\ At(r, "remove")
  /\ stored' = Nothing
  /\ raced' = (raced \/ (stored # Nothing /\ stored # call[r].file))
  /\ End(r)
  /\ UNCHANGED <<record, made, cut>>

(* exists, then remove: a file that is gone is no obstacle; an error of    *)
(* the storage ends the request.                                           *)
Remove(r) ==
  /\ At(r, "remove")
  /\ \/ stored' = Nothing /\ Go(r, "delete")
     \/ stored # Nothing /\ UNCHANGED stored /\ End(r)
  /\ raced' = (raced \/ (stored' # stored /\ stored # call[r].file))
  /\ UNCHANGED <<record, made, cut>>

\* The row by its primary key, if it is still there.
Delete(r) ==
  /\ At(r, "delete")
  /\ record' = IF record # Nothing /\ record.id = call[r].id THEN Nothing
               ELSE record
  /\ End(r)
  /\ UNCHANGED <<stored, made, raced, cut>>

\* The process of a request stops, or its transaction fails.
Stop(r) ==
  /\ call[r] # Nothing
  /\ cut' = (cut \/ call[r].pc \in {"insert", "delete"})
  /\ End(r)
  /\ UNCHANGED <<record, stored, made, raced>>

Init ==
  /\ record = Nothing
  /\ stored = Nothing
  /\ made = 0
  /\ call = [r \in Requests |-> Nothing]
  /\ raced = FALSE
  /\ cut = FALSE

Next ==
  \E r \in Requests :
    \/ LookForCreate(r) \/ Upload(r) \/ LookForRegister(r) \/ Analyze(r)
    \/ Insert(r) \/ LookForDelete(r) \/ Remove(r) \/ Delete(r) \/ Stop(r)

Spec == Init /\ [][Next]_vars

-----------------------------------------------------------------------------
(* Properties *)

TypeOK ==
  /\ record \in [id : 1 .. MaxId, file : 1 .. MaxId] \cup {Nothing}
  /\ stored \in 1 .. MaxId \cup {Nothing}
  /\ made \in 0 .. MaxId
  /\ \A r \in Busy :
       call[r].pc \in {"upload", "analyze", "insert", "remove", "delete"}
  /\ raced \in BOOLEAN /\ cut \in BOOLEAN

(* The record describes the file that is in the storage, except while a    *)
(* deletion has removed the file and not yet its record; and no file is    *)
(* left without a record once no request is under way.  A stop between the *)
(* two, or a request that acted on an old look, breaks this for good.      *)
RecordsMatchFiles ==
  ~cut /\ ~raced =>
    /\ record # Nothing /\ stored # record.file
       => \E r \in Requests : At(r, "delete") /\ call[r].id = record.id
    /\ Busy = {} /\ stored # Nothing => record # Nothing
=============================================================================
