------------------------------ MODULE Uploads ------------------------------
(***************************************************************************)
(* The file of one resource on disk (ResourceUpload in ckan/lib/uploader)  *)
(* and its row.  package_update flushes the row, which locks it until the  *)
(* transaction ends, then writes a temporary file, renames it over the     *)
(* file, indexes the dataset and commits.  Any of it may fail, and the     *)
(* process may stop.                                                       *)
(***************************************************************************)
EXTENDS Naturals, Sequences

CONSTANTS
  Requests,
  Nothing,   \* no file, no request, no lock
  Chunks,    \* pieces a file is copied in (bound)
  MaxUpload  \* uploads made (bound)

VARIABLES
  row,     \* [type, upload] of the resource, as committed
  file,    \* the file: an open file is known by its number
  tmp,     \* the temporary file
  content, \* the pieces of every file, by its number
  lock,    \* the request whose transaction holds the row
  call,    \* [pc, kind, upload, open, done] of each request
  made,    \* uploads so far
  undone   \* a transaction was rolled back after it changed the file

vars == <<row, file, tmp, content, lock, call, made, undone>>

At(r, pc) == call[r] # Nothing /\ call[r].pc = pc
Go(r, pc) == call' = [call EXCEPT ![r].pc = pc]

Kinds == {"upload", "clear", "link", "other"}

\* The kinds differ in what becomes of the file; "link" leaves it there.
FirstStep == [upload |-> "open", clear |-> "remove", link |-> "commit",
              other |-> "commit"]

Request(r, kind) ==
  /\ call[r] = Nothing
  /\ kind = "upload" => made < MaxUpload
  /\ made' = IF kind = "upload" THEN made + 1 ELSE made
  /\ call' = [call EXCEPT ![r] = [pc |-> "flush", kind |-> kind,
                upload |-> made', open |-> 0, done |-> 0]]
  /\ UNCHANGED <<row, file, tmp, content, lock, undone>>

\* Mutant: the file is written before the row is flushed.
FlushUnlocked(r) ==
  /\ At(r, "flush")
  /\ Go(r, FirstStep[call[r].kind])
  /\ UNCHANGED <<row, file, tmp, content, lock, made, undone>>

\* The UPDATE of the row waits for the transaction that has changed it.
Flush(r) ==
  /\ At(r, "flush") /\ lock = Nothing
  /\ lock' = r
  /\ Go(r, FirstStep[call[r].kind])
  /\ UNCHANGED <<row, file, tmp, content, made, undone>>

\* open(tmp_filepath, 'wb+') makes the file or empties the one that is there.
Open(r) ==
  /\ At(r, "open")
  /\ LET n == IF tmp = 0 THEN Len(content) + 1 ELSE tmp IN
     /\ tmp' = n
     /\ content' = IF n > Len(content) THEN Append(content, <<>>)
                   ELSE [content EXCEPT ![n] = <<>>]
     /\ call' = [call EXCEPT ![r].pc = "copy", ![r].open = n]
  /\ UNCHANGED <<row, file, lock, made, undone>>

\* The k-th piece at its place; what another writer left is overwritten.
Put(s, k, x) ==
  [i \in 1 .. (IF k > Len(s) THEN k ELSE Len(s)) |->
     IF i = k THEN x ELSE IF i \in DOMAIN s THEN s[i] ELSE Nothing]

CopyFile(r) ==
  /\ At(r, "copy") /\ call[r].done < Chunks
  /\ content' = [content EXCEPT ![call[r].open] =
                   Put(@, call[r].done + 1, call[r].upload)]
  /\ call' = [call EXCEPT ![r].done = @ + 1]
  /\ UNCHANGED <<row, file, tmp, lock, made, undone>>

Unlocked(r) == IF lock = r THEN Nothing ELSE lock

Rollback(r) ==
  /\ call' = [call EXCEPT ![r] = Nothing]
  /\ lock' = Unlocked(r)

\* The file is larger than max_size: the temporary file is removed.
TooLarge(r) ==
  /\ At(r, "copy")
  /\ tmp' = 0
  /\ Rollback(r)
  /\ UNCHANGED <<row, file, content, made, undone>>

Rename(r) ==
  /\ At(r, "copy") /\ call[r].done = Chunks
  /\ IF tmp = 0 THEN Rollback(r) /\ UNCHANGED <<file, tmp>>
     ELSE /\ file' = tmp /\ tmp' = 0
          /\ Go(r, "commit") /\ UNCHANGED lock
  /\ UNCHANGED <<row, content, made, undone>>

\* An uploaded file that is replaced by a link is removed.
Remove(r) ==
  /\ At(r, "remove")
  /\ file' = 0
  /\ Go(r, "commit")
  /\ UNCHANGED <<row, tmp, content, lock, made, undone>>

RowOf(c) ==
  CASE c.kind = "upload" -> [type |-> "upload", upload |-> c.upload]
    [] c.kind \in {"clear", "link"} -> [type |-> "link", upload |-> 0]
    [] OTHER -> row

Commit(r) ==
  /\ At(r, "commit")
  /\ row' = RowOf(call[r])
  /\ undone' = (undone /\ call[r].kind = "other")
  /\ Rollback(r)
  /\ UNCHANGED <<file, tmp, content, made>>

(* An error of a plugin, the search index or the database, or a crash. *)
Fail(r) ==
  /\ call[r] # Nothing
  /\ undone' = (undone \/ (call[r].pc = "commit" /\ call[r].kind \in {"upload", "clear"}))
  /\ Rollback(r)
  /\ UNCHANGED <<row, file, tmp, content, made>>

Init ==
  /\ row = [type |-> "link", upload |-> 0]
  /\ file = 0
  /\ tmp = 0
  /\ content = <<>>
  /\ lock = Nothing
  /\ call = [r \in Requests |-> Nothing]
  /\ made = 0
  /\ undone = FALSE

Next ==
  \E r \in Requests :
    \/ \E kind \in Kinds : Request(r, kind)
    \/ Flush(r) \/ Open(r) \/ CopyFile(r) \/ TooLarge(r) \/ Rename(r)
    \/ Remove(r) \/ Commit(r) \/ Fail(r)

Spec == Init /\ [][Next]_vars

-----------------------------------------------------------------------------
(* Properties *)

TypeOK ==
  /\ row \in [type : {"link", "upload"}, upload : 0 .. MaxUpload]
  /\ {file, tmp} \subseteq 0 .. Len(content)
  /\ lock \in Requests \cup {Nothing}
  /\ \A r \in Requests :
       call[r] # Nothing => /\ call[r].open \in 0 .. Len(content)
                            /\ call[r].done \in 0 .. Chunks
  /\ made \in 0 .. MaxUpload
  /\ undone \in BOOLEAN

(* A reader finds the whole of one upload, although the temporary file has *)
(* one name for all uploads of the resource and may be left by a crash:    *)
(* the lock of the row, which the flush takes, keeps the writers apart.    *)
(* And between transactions an uploaded resource has the file that its row *)
(* speaks of, unless a failure came after the file was replaced or removed *)
(* and before the commit, and no upload or link was saved since.           *)
UploadsAreWholeAndOwn ==
  /\ file # 0 => \E u \in 1 .. made : content[file] = [i \in 1 .. Chunks |-> u]
  /\ lock = Nothing /\ ~undone /\ row.type = "upload"
     => file # 0 /\ content[file][1] = row.upload
=============================================================================
