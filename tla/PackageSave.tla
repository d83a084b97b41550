---------------------------- MODULE PackageSave ----------------------------
(***************************************************************************)
(* How the resources of one dataset are saved: package_update, which works *)
(* out by position which resources it need not save again, and             *)
(* package_resource_list_save, which puts the rows in their order, marks   *)
(* those left over as deleted and purges those deleted before.             *)
(* package_patch, resource_create and package_resource_reorder lock the    *)
(* dataset as they read it; resource_update and resource_delete have       *)
(* loaded the resource before; package_update locks when it writes.        *)
(***************************************************************************)
EXTENDS Naturals, Sequences, SequencesExt, FiniteSets, FiniteSetsExt

CONSTANTS
  Requests,
  Ids,       \* of resources
  Early,     \* bound: the requests that may read before they lock
  Contents,  \* all that a resource says besides id, position and state
  MaxSent,   \* bound: the resources a caller sends
  Nothing

VARIABLES
  rows,   \* the committed rows of the table resource
  holder, \* the request that has the lock of the dataset's row, or Nothing
  call,   \* what each request is at
  old,    \* history: the requests that another commit has overtaken
  torn    \* history: one of them has committed

vars == <<rows, holder, call, old, torn>>

Absent == [state |-> "absent", position |-> 0, content |-> Nothing]

Of(rs, state) == {id \in Ids : rs[id].state = state}

\* The lists that the rows may be read as: positions may be equal.
Lists(rs) ==
  {s \in SetToSeqs(Of(rs, "active")) :
     \A i, j \in DOMAIN s : i < j => rs[s[i]].position <= rs[s[j]].position}

\* The one list of the resources ids in the order that s has them in.
Rest(s, ids) ==
  {t \in SetToSeqs(ids) :
     \A i, j \in DOMAIN t :
       i < j => \E k, l \in DOMAIN s : k < l /\ s[k] = t[i] /\ s[l] = t[j]}

\* package_show
Shown(rs, s) ==
  [i \in DOMAIN s |-> [id |-> s[i], content |-> rs[s[i]].content,
                       position |-> rs[s[i]].position]]

-----------------------------------------------------------------------------
(* Saving.  sent is a list of resources; kept tells whether their          *)
(* positions came along as they were shown.                                *)

Item(id, content) == [id |-> id, content |-> content]

(* A resource that is as it was shown is copied by its position in the     *)
(* list that was shown.                                                    *)
Copies(shown, sent, kept) ==
  {c \in (DOMAIN sent) \X (DOMAIN shown) :
     kept /\ sent[c[1]] = Item(shown[c[2]].id, shown[c[2]].content)}

CopyOf(copies, shown, i) ==
  {shown[c[2]].position : c \in {d \in copies : d[1] = i}}

Fails == [fails |-> TRUE]

\* Mutant: the rows marked as deleted have a place in the list, too.
OldListAll(rs) ==
  {s \in SetToSeqs(Of(rs, "active") \cup Of(rs, "deleted")) :
     \A i, j \in DOMAIN s : i < j => rs[s[i]].position <= rs[s[j]].position}

OldList(rs) == Lists(rs)

(* rs are the rows as read, seen as the session has them, which keeps the  *)
(* one that it had loaded before.  was is the list of the rows not deleted.*)
Saved(rs, seen, was, shown, sent, kept) ==
  LET copies == Copies(shown, sent, kept)
      From(i) == CopyOf(copies, shown, i)
      beyond == \E i \in DOMAIN sent : \E p \in From(i) : p >= Len(was)
      Obj(i) == IF From(i) = {} THEN sent[i].id ELSE was[1 + Min(From(i))]
      objs == [i \in DOMAIN sent |-> Obj(i)]
      saved == {i \in DOMAIN sent : From(i) = {}}
      \* content and state of a resource that is saved again
      Again(id) == {i \in saved : sent[i].id = id}
      Content(id) == IF Again(id) = {} THEN seen[id].content
                     ELSE sent[Min(Again(id))].content
      moved == objs # was
      Place(id) == {i - 1 : i \in {k \in DOMAIN objs : objs[k] = id}}
      New(id) ==
        [content |-> Content(id),
         state |-> IF moved /\ id \in Range(was) \ Range(objs) THEN "deleted"
                   ELSE IF Again(id) # {} THEN "active" ELSE seen[id].state,
         position |-> IF ~moved THEN seen[id].position
                      ELSE IF Place(id) # {} THEN Max(Place(id)) ELSE 0]
      touched == Range(was) \cup Range(objs)
  IN IF beyond THEN Fails
     ELSE [fails |-> FALSE,
           change |-> \/ moved
                      \/ \E i \in DOMAIN sent : From(i) \notin {{}, {i - 1}}
                      \/ \E i \in saved :
                           \/ seen[sent[i].id] = Absent
                           \/ seen[sent[i].id].content # sent[i].content,
           inserts |-> {id \in Range(objs) : seen[id] = Absent},
           purges |-> IF moved THEN Of(rs, "deleted") \ Range(objs) ELSE {},
           writes |-> UNION {{<<id, f, New(id)[f]>> : f \in DOMAIN Absent}
                               \ {<<id, f, seen[id][f]>> : f \in DOMAIN Absent} :
                             id \in touched}]

(* A column is written when its value is another than the one loaded.      *)
Written(rs, w) ==
  [id \in Ids |->
     IF id \in w.purges THEN Absent
     ELSE [f \in DOMAIN Absent |->
             LET to == {x \in w.writes : x[1] = id /\ x[2] = f}
             IN IF to = {} THEN rs[id][f] ELSE (CHOOSE x \in to : TRUE)[3]]]

\* An UPDATE that finds no row, or an INSERT that finds one, fails.
Clashes(rs, w) ==
  \/ \E id \in w.inserts : rs[id] # Absent
  \/ \E x \in w.writes : x[1] \notin w.inserts /\ rs[x[1]] = Absent

-----------------------------------------------------------------------------
(* Requests *)

\* Bound: every request is made once.
Done == [pc |-> "done"]

\* The request is over and gives the lock back.
End(r) ==
  /\ call' = [call EXCEPT ![r] = Done]
  /\ holder' = Nothing
  /\ old' = old \ {r}

(* The rest of package_update.  Without a change the caller is given what  *)
(* was shown.                                                              *)
Flush(r, w, sent, one) ==
  call' = [call EXCEPT ![r] =
    [pc |-> IF w.fails \/ (w.change /\ Clashes(rows, w)) THEN "fail"
            ELSE IF w.change THEN "commit" ELSE "unchanged",
     sent |-> sent, one |-> one, saves |-> w]]

\* What comes before it: nothing is done for a list that is as shown.
Save(r, seen, shown, sent, kept, one) ==
  \E was \in OldList(rows) :
    Flush(r, Saved(rows, seen, was, shown, sent, kept), sent, one)

NewId == CHOOSE id \in Ids : rows[id] = Absent
HasNew == \E id \in Ids : rows[id] = Absent

\* package_patch with a list of resources, or package_revise.
Patch(r, sent) ==
  /\ call[r] = Nothing /\ holder = Nothing
  /\ holder' = r
  /\ \E s \in Lists(rows) : Save(r, rows, Shown(rows, s), sent, TRUE, Nothing)
  /\ UNCHANGED <<rows, old, torn>>

Items(shown) == [i \in DOMAIN shown |-> Item(shown[i].id, shown[i].content)]

ResourceCreate(r, content) ==
  /\ call[r] = Nothing /\ holder = Nothing /\ HasNew
  /\ holder' = r
  /\ \E s \in Lists(rows) :
       LET shown == Shown(rows, s)
       IN Save(r, rows, shown, Append(Items(shown), Item(NewId, content)), TRUE,
               Nothing)
  /\ UNCHANGED <<rows, old, torn>>

\* The resources named first, then the others in their order.
Reorder(r, order) ==
  /\ call[r] = Nothing /\ holder = Nothing
  /\ Range(order) \subseteq Of(rows, "active")
  /\ holder' = r
  /\ \E s \in Lists(rows) :
       \E rest \in Rest(s, Of(rows, "active") \ Range(order)) :
         LET all == order \o rest
         IN Save(r, rows, Shown(rows, s), Items(Shown(rows, all)), TRUE, Nothing)
  /\ UNCHANGED <<rows, old, torn>>

\* resource_update and resource_delete load the resource before they lock.
Load(r, op, id, content) ==
  /\ r \in Early
  /\ call[r] = Nothing
  /\ rows[id] # Absent
  /\ call' = [call EXCEPT ![r] =
       [pc |-> "lock", op |-> op, id |-> id, content |-> content,
        row |-> rows[id]]]
  /\ UNCHANGED <<rows, holder, old, torn>>

\* The resource that a caller found.
One(r) == IF call[r].row.state = "active" THEN call[r].id ELSE Nothing

\* The resource must be where the row that was loaded says.
ResourceUpdate(r) ==
  /\ call[r] # Nothing /\ call[r].pc = "lock" /\ call[r].op = "update"
  /\ holder = Nothing /\ holder' = r
  /\ LET id == call[r].id
         at == 1 + call[r].row.position
     IN \E s \in Lists(rows) :
          IF at \in DOMAIN s /\ s[at] = id
            THEN Save(r, [rows EXCEPT ![id] = call[r].row], Shown(rows, s),
                      [Items(Shown(rows, s)) EXCEPT
                         ![at] = Item(id, call[r].content)],
                      TRUE, One(r))
          ELSE call' = [call EXCEPT ![r] = [pc |-> "fail", sent |-> Nothing]]
  /\ UNCHANGED <<rows, old, torn>>

ResourceDelete(r) ==
  /\ call[r] # Nothing /\ call[r].pc = "lock" /\ call[r].op = "delete"
  /\ holder = Nothing /\ holder' = r
  /\ \E s \in Lists(rows) :
       \E left \in Rest(s, Of(rows, "active") \ {call[r].id}) :
         Save(r, [rows EXCEPT ![call[r].id] = call[r].row], Shown(rows, s),
              Items(Shown(rows, left)), TRUE, One(r))
  /\ UNCHANGED <<rows, old, torn>>

(* package_update reads without the lock what the dataset is like.         *)
Show(r, sent, kept) ==
  /\ r \in Early
  /\ call[r] = Nothing
  /\ \E s \in Lists(rows) :
       call' = [call EXCEPT ![r] =
         [pc |-> "shown", sent |-> sent, kept |-> kept,
          shown |-> Shown(rows, s)]]
  /\ UNCHANGED <<rows, holder, old, torn>>

\* Another field has changed: its flush locks before the rows are read.
UpdateLocked(r) ==
  /\ call[r] # Nothing /\ call[r].pc = "shown"
  /\ holder = Nothing /\ holder' = r
  /\ Save(r, rows, call[r].shown, call[r].sent, call[r].kept, Nothing)
  /\ UNCHANGED <<rows, old, torn>>

\* Only resources have changed: the rows are read, then the lock is taken.
ReadRows(r) ==
  /\ call[r] # Nothing /\ call[r].pc = "shown"
  /\ \E was \in OldList(rows) :
       call' = [call EXCEPT ![r] =
         [pc |-> "read", sent |-> call[r].sent,
          saves |-> Saved(rows, rows, was, call[r].shown, call[r].sent,
                          call[r].kept)]]
  /\ UNCHANGED <<rows, holder, old, torn>>

Write(r) ==
  /\ call[r] # Nothing /\ call[r].pc = "read"
  /\ holder = Nothing /\ holder' = r
  /\ Flush(r, call[r].saves, call[r].sent, Nothing)
  /\ UNCHANGED <<rows, old, torn>>

Commit(r) ==
  /\ call[r] # Nothing /\ call[r].pc = "commit"
  /\ rows' = Written(rows, call[r].saves)
  /\ call' = [call EXCEPT ![r] = Done]
  /\ holder' = Nothing
  /\ old' = (old \cup {q \in Requests : call[q] \notin {Nothing, Done}}) \ {r}
  /\ torn' = (torn \/ (r \in old /\ call[r].one = Nothing))

(* Errors, among them deadlocks on rows, and saves that change nothing.    *)
(* One that ends before it has the lock leaves no trace.                   *)
Stop(r) ==
  /\ holder = r
  /\ End(r)
  /\ UNCHANGED <<rows, torn>>

-----------------------------------------------------------------------------
\* What callers send: resources once each.
Sent ==
  {s \in UNION {[1..n -> [id : Ids, content : Contents]] : n \in 0..MaxSent} :
     \A i, j \in DOMAIN s : i # j => s[i].id # s[j].id}

Orders == UNION {{s \in [1..n -> Ids] : IsInjective(s)} : n \in 1..MaxSent}

FirstRows(n, deleted) ==
  LET content == CHOOSE c \in Contents : TRUE
      row(id, state) == [state |-> state, position |-> IF state = "active"
                           THEN id - 1 ELSE 0, content |-> content]
  IN [id \in Ids |-> IF id <= n THEN row(id, "active")
                     ELSE IF id \in deleted THEN row(id, "deleted") ELSE Absent]

Init ==
  /\ \E n \in 1..MaxSent, deleted \in SUBSET Ids : rows = FirstRows(n, deleted)
  /\ holder = Nothing
  /\ call = [r \in Requests |-> Nothing]
  /\ old = {}
  /\ torn = FALSE

Next ==
  /\ ~torn  \* bound: what follows then is not looked at
  /\ \E r \in Requests :
       \/ \E sent \in Sent : Patch(r, sent)
       \/ \E content \in Contents : ResourceCreate(r, content)
       \/ \E order \in Orders : Reorder(r, order)
       \/ \E id \in Ids, content \in Contents : Load(r, "update", id, content)
       \/ \E id \in Ids : Load(r, "delete", id, Nothing)
       \/ ResourceUpdate(r) \/ ResourceDelete(r)
       \/ \E sent \in Sent, kept \in BOOLEAN : Show(r, sent, kept)
       \/ UpdateLocked(r) \/ ReadRows(r) \/ Write(r)
       \/ Commit(r) \/ Stop(r)

Spec == Init /\ [][Next]_vars

-----------------------------------------------------------------------------
(* Properties *)

TypeOK ==
  /\ rows \in [Ids -> [state : {"absent", "active", "deleted"}, position : Nat,
                       content : Contents \cup {Nothing}]]
  /\ holder \in Requests \cup {Nothing}
  /\ old \subseteq Requests
  /\ torn \in BOOLEAN

ListIsBut(one, rs, sent) ==
  /\ Lists(rs) = {[i \in DOMAIN sent |-> sent[i].id]}
  /\ \A i \in DOMAIN sent :
       /\ rs[sent[i].id].content = sent[i].content \/ sent[i].id = one
       /\ rs[sent[i].id].position = i - 1

ListIs(rs, sent) == ListIsBut(Nothing, rs, sent)

(* Unless another request has committed since it first read, a request     *)
(* that saves a list of resources leaves just that list, in its order and  *)
(* at positions without a gap, whatever it could copy and whatever was     *)
(* deleted or purged; a resource it removes stays as a deleted row; one    *)
(* that finds nothing to save was sent what there is; and none fails.  A   *)
(* request for one resource that was overtaken still leaves all others as  *)
(* they are, and may only lose what it had to say about its own.           *)
SavesWhatWasSent ==
  [][\A r \in Requests :
       call[r] # Done /\ call'[r] = Done /\ ~torn' =>
         /\ call[r].pc = "commit" /\ rows' # rows =>
              /\ IF r \in old THEN ListIsBut(call[r].one, rows', call[r].sent)
                 ELSE ListIs(rows', call[r].sent)
              /\ \A id \in Of(rows, "active") : rows'[id] # Absent
         /\ call[r].pc = "unchanged" /\ r \notin old =>
              ListIs(rows, call[r].sent)
         /\ call[r].pc = "fail" /\ r \notin old => call[r].sent = Nothing]_vars
=============================================================================
