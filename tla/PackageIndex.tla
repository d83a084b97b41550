---------------------------- MODULE PackageIndex ----------------------------
(***************************************************************************)
(* One dataset and the web requests that touch it: its row in the package  *)
(* table, its memberships of groups, and its document in the search index, *)
(* which is also the cache of package_show (ckan/logic/action, ckan/lib/   *)
(* search, ckan/lib/dictization).                                          *)
(*                                                                         *)
(* A request has one database transaction (READ COMMITTED, sessions with   *)
(* autoflush and expire_on_commit off), and what it has not committed yet  *)
(* is in its local variables.  The index is written by a transaction of    *)
(* its own, which commits at once: a request writes the index before it    *)
(* commits the dataset (create, update, patch, delete, purge), or after    *)
(* (memberships of groups).                                                *)
(***************************************************************************)
EXTENDS Naturals

CONSTANTS
  Requests,  \* the requests; each does one operation
  Ops,       \* the operations they may do, a subset of AllOps
  Cols,      \* columns of the package table that callers set
  Groups,    \* groups a dataset can be a member of
  MayFail,   \* the requests that may raise, time out or be killed half-way
  MaySend,   \* the requests of sysadmins and of callers that ignore_auth
  Nobody     \* no request; also the value of a column in the first row

AllOps == {"create", "update", "patch", "resource", "delete", "purge",
           "member", "rebuild", "show"}

ASSUME OpsAssumption == Ops \subseteq AllOps
ASSUME NobodyAssumption == Nobody \notin Requests \cup Nat
ASSUME ColsAssumption == Cols \cap {"state", "stamp"} = {}

VARIABLES
  op,         \* op[r]: what request r does
  row,        \* the committed row of the package table
  groups,     \* the groups with a committed, active membership
  doc,        \* the document of the dataset in package_search_index
  lock,       \* the request that holds the lock of the row, or Nobody
  clock,      \* the last metadata_modified given out
  sent,       \* history: sent[r]: the metadata_modified that the save of r
              \* carries, or Nobody; kept when it fails
  committed,  \* history: every row that was ever committed
  pc,         \* pc[r]: where request r is
  obj,        \* obj[r]: the Package object in the session of r
  dict,       \* dict[r]: the package dict r saves, or has shown
  plan,       \* plan[r]: the memberships r adds and drops when it commits
  dirty,      \* dirty[r]: the columns r writes when it commits
  built       \* built[r]: the document r is about to index

local == <<obj, dict, plan, dirty, built>>
vars == <<op, row, groups, doc, lock, clock, sent, committed, pc, local>>

\* stamp is metadata_modified, to the 10 milliseconds package_show compares.
Fields == Cols \cup {"state", "stamp"}

\* A row with the value v in every column that callers set.
RowOf(state, stamp, v) ==
  [f \in Fields |-> IF f = "state" THEN state
                    ELSE IF f = "stamp" THEN stamp ELSE v]

\* The row o after request r has set the columns changed.
Edited(o, changed, r) == [f \in Fields |-> IF f \in changed THEN r ELSE o[f]]

NoRow == RowOf("absent", 0, Nobody)

NoDoc == [row |-> NoRow, groups |-> {}]

NoDict == [row |-> NoRow, groups |-> {}, keep |-> FALSE]

NoPlan == [add |-> {}, drop |-> {}]

IsRow(x, states) ==
  /\ DOMAIN x = Fields
  /\ x["state"] \in states
  /\ x["stamp"] \in Nat
  /\ \A c \in Cols : x[c] \in Requests \cup {Nobody}

States == {"absent", "active", "deleted"}

\* The index holds no document of a deleted dataset
\* (ckan.search.remove_deleted_packages).
TypeOK ==
  /\ op \in [Requests -> Ops]
  /\ IsRow(row, States)
  /\ groups \subseteq Groups
  /\ IsRow(doc.row, {"absent", "active"}) /\ doc.groups \subseteq Groups
  /\ lock \in Requests \cup {Nobody}
  /\ clock \in Nat
  /\ sent \in [Requests -> Nat \cup {Nobody}]
  /\ \A v \in committed : IsRow(v, States)
  /\ pc \in [Requests -> {"start", "lock", "lookup", "members", "flush",
                          "join", "build", "index", "commit", "done",
                          "notfound", "failed"}]
  /\ \A r \in Requests :
       /\ IsRow(obj[r], States)
       /\ IsRow(dict[r].row, States) /\ dict[r].groups \subseteq Groups
       /\ dict[r].keep \in BOOLEAN
       /\ plan[r].add \subseteq Groups /\ plan[r].drop \subseteq Groups
       /\ dirty[r] \subseteq Fields
       /\ IsRow(built[r].row, {"absent", "active"})
       /\ built[r].groups \subseteq Groups

-----------------------------------------------------------------------------

Exists == row["state"] # "absent"

Set(f, r, v) == [f EXCEPT ![r] = v]

GoTo(r, from, to) ==
  /\ pc[r] = from
  /\ pc' = Set(pc, r, to)

Planned(r) == (groups \cup plan[r].add) \ plan[r].drop

\* Mutant: a deleted dataset stays in the index.
IndexDocKept(o, g) == [row |-> o, groups |-> g]

\* index_package: what the index holds of a dataset.
IndexDoc(o, g) ==
  IF o["state"] = "active" THEN [row |-> o, groups |-> g] ELSE NoDoc

\* Mutant: the index is believed whatever its metadata_modified.
CachedAlways(o) == doc # NoDoc

\* package_show takes the data_dict of the index when its metadata_modified
\* is the one of the Package object.
Cached(o) == doc # NoDoc /\ doc.row["stamp"] = o["stamp"]

\* package_show: from the index, or from the object and the memberships.
Shown(o) ==
  IF Cached(o) THEN [row |-> doc.row, groups |-> doc.groups, keep |-> FALSE]
               ELSE [row |-> o, groups |-> groups, keep |-> FALSE]

\* The transaction of r is over and its session is removed.  (What a
\* package_show answered is kept for the properties.)
Leave(r, from, how) ==
  /\ GoTo(r, from, how)
  /\ lock' = IF lock = r THEN Nobody ELSE lock
  /\ obj' = Set(obj, r, NoRow)
  /\ dict' = Set(dict, r, NoDict)
  /\ plan' = Set(plan, r, NoPlan)
  /\ dirty' = Set(dirty, r, {})
  /\ built' = Set(built, r, NoDoc)
  /\ sent' = IF how = "failed" THEN sent ELSE Set(sent, r, Nobody)

\* metadata_modified is made where the data has none: ignore_not_sysadmin
\* drops it but for sysadmins and callers that ignore_auth, and resource
\* operations pop it.
Sends(r) ==
  {Nobody} \cup IF r \in MaySend /\ op[r] # "resource" THEN 0 .. clock ELSE {}

\* The save of r, with the metadata_modified s that was sent or a new one.
Stamps(r, s) ==
  /\ sent' = Set(sent, r, s)
  /\ clock' = IF s = Nobody THEN clock + 1 ELSE clock

Stamp(s) == IF s = Nobody THEN clock + 1 ELSE s

-----------------------------------------------------------------------------
(* The first step of a request *)

NotFound(r) ==
  /\ pc[r] \in {"start", "lock"}
  /\ ~Exists /\ op[r] # "create"
  /\ Leave(r, pc[r], "notfound")
  /\ UNCHANGED <<op, row, groups, doc, clock, committed>>

\* package_create: the flushed row and memberships are not visible yet.
Create(r) ==
  /\ op[r] = "create"
  /\ GoTo(r, "start", "build")
  /\ \E gs \in SUBSET Groups :
       plan' = Set(plan, r, [add |-> gs, drop |-> {}])
  /\ \E s \in Sends(r) :
       Stamps(r, s) /\ obj' = Set(obj, r, RowOf("active", Stamp(s), r))
  /\ dirty' = Set(dirty, r, Fields)
  /\ UNCHANGED <<op, row, groups, doc, lock, committed, dict, built>>

\* package_update: the caller sends a full dict, which differs in some
\* columns from the row; a dict without groups leaves the memberships.
Update(r) ==
  /\ op[r] = "update" /\ Exists
  /\ GoTo(r, "start", "members")
  /\ obj' = Set(obj, r, row)
  /\ \E changed \in (SUBSET Cols) \ {{}}, gs \in SUBSET Groups, k \in BOOLEAN :
       dict' = Set(dict, r,
         [row |-> Edited(row, changed, r),
          groups |-> IF k THEN {} ELSE gs, keep |-> k])
  /\ UNCHANGED <<op, row, groups, doc, lock, clock, sent, committed, plan, dirty,
                 built>>

\* Operations that load the Package object first: resource_update and
\* resource_delete, package_show, search-index rebuild, member_create and
\* member_delete.
Load(r) ==
  /\ Exists
  /\ \/ op[r] = "resource" /\ GoTo(r, "start", "lock")
     \/ op[r] = "show" /\ GoTo(r, "start", "lookup")
     \/ op[r] = "rebuild" /\ GoTo(r, "start", "build")
     \/ op[r] = "member" /\ GoTo(r, "start", "join")
  /\ obj' = Set(obj, r, row)
  /\ UNCHANGED <<op, row, groups, doc, lock, clock, sent, committed, dict, plan,
                 dirty, built>>

\* package_delete and dataset_purge up to the index: nothing is flushed yet.
\* package_delete looks the memberships up by the id as it was given, which
\* finds none when that is the name.
Delete(r) ==
  /\ op[r] \in {"delete", "purge"} /\ Exists
  /\ GoTo(r, "start", "index")
  /\ IF op[r] = "delete"
       THEN /\ obj' = Set(obj, r, [row EXCEPT !["state"] = "deleted"])
            /\ dirty' = Set(dirty, r, IF row["state"] = "deleted" THEN {}
                                      ELSE {"state"})
       ELSE /\ obj' = Set(obj, r, NoRow)
            /\ dirty' = Set(dirty, r, Fields)
  /\ \E byId \in {TRUE, op[r] = "purge"} :
       plan' = Set(plan, r, [add |-> {}, drop |-> IF byId THEN groups ELSE {}])
  /\ UNCHANGED <<op, row, groups, doc, lock, clock, sent, committed, dict, built>>

-----------------------------------------------------------------------------
(* package_show(for_update) and package_update *)

\* Mutant: the row is read, not locked.
LockOnlyReads(r) ==
  /\ Exists /\ lock = Nobody
  /\ \/ op[r] = "patch" /\ GoTo(r, "start", "lookup")
        /\ obj' = Set(obj, r, row)
     \/ op[r] = "resource" /\ GoTo(r, "lock", "lookup") /\ UNCHANGED obj
  /\ UNCHANGED <<op, row, groups, doc, lock, clock, sent, committed, dict, plan,
                 dirty, built>>

\* SELECT ... FOR UPDATE.  package_patch, package_revise and resource_create
\* load the object with it.  An object the session already holds (resource)
\* keeps the values it was loaded with.
Lock(r) ==
  /\ Exists /\ lock = Nobody
  /\ lock' = r
  /\ \/ op[r] = "patch" /\ GoTo(r, "start", "lookup")
        /\ obj' = Set(obj, r, row)
     \/ op[r] = "resource" /\ GoTo(r, "lock", "lookup") /\ UNCHANGED obj
  /\ UNCHANGED <<op, row, groups, doc, clock, sent, committed, dict, plan, dirty,
                 built>>

\* The rest of package_show.  A patch then sets some columns of the dict, a
\* resource operation sets none.
Show(r) ==
  /\ \/ op[r] = "show" /\ GoTo(r, "lookup", "done")
        /\ dict' = Set(dict, r, Shown(obj[r]))
     \/ op[r] = "resource" /\ GoTo(r, "lookup", "members")
        /\ dict' = Set(dict, r, Shown(obj[r]))
     \/ op[r] = "patch" /\ GoTo(r, "lookup", "members")
        /\ \E changed \in (SUBSET Cols) \ {{}} :
             dict' = Set(dict, r,
               [row |-> Edited(Shown(obj[r]).row, changed, r),
                groups |-> Shown(obj[r]).groups, keep |-> FALSE])
  /\ UNCHANGED <<op, row, groups, doc, lock, clock, sent, committed, obj, plan,
                 dirty, built>>

\* package_membership_list_save reads the memberships and compares.
ReadMembers(r) ==
  /\ GoTo(r, "members", "flush")
  /\ plan' = Set(plan, r,
       IF dict[r].keep THEN NoPlan
       ELSE [add |-> dict[r].groups \ groups,
             drop |-> groups \ dict[r].groups])
  /\ UNCHANGED <<op, row, groups, doc, lock, clock, sent, committed, obj, dict,
                 dirty, built>>

\* from_dict sets the attributes that differ, the flush writes these columns
\* and takes the lock of the row.
Flush(r) ==
  /\ Exists /\ lock \in {Nobody, r}
  /\ GoTo(r, "flush", "build")
  /\ lock' = r
  /\ \E s \in Sends(r) :
       Stamps(r, s) /\ obj' = Set(obj, r, [dict[r].row EXCEPT !["stamp"] = Stamp(s)])
  /\ dirty' = Set(dirty, r, {f \in Fields : obj'[r][f] # obj[r][f]})
  /\ UNCHANGED <<op, row, groups, doc, committed, dict, plan, built>>

-----------------------------------------------------------------------------
(* The index and the end of the request *)

\* member_create adds a group, member_delete drops one there is.
Membership ==
  \E g \in Groups : \/ groups' = groups \cup {g}
                    \/ g \in groups /\ groups' = groups \ {g}

\* Mutant: the membership is committed and the index forgotten.
JoinOnly(r) ==
  /\ Membership
  /\ Leave(r, "join", "done")
  /\ UNCHANGED <<op, row, doc, clock, committed>>

\* The commit of a membership, before search.rebuild.  No foreign key ties
\* it to the dataset.
Join(r) ==
  /\ GoTo(r, "join", "build")
  /\ Membership
  /\ UNCHANGED <<op, row, doc, lock, clock, sent, committed, local>>

\* package_show without the cache: the object in the session, and the
\* memberships as its transaction sees them now.
Build(r) ==
  /\ GoTo(r, "build", "index")
  /\ built' = Set(built, r, IndexDoc(obj[r], Planned(r)))
  /\ UNCHANGED <<op, row, groups, doc, lock, clock, sent, committed, obj, dict, plan,
                 dirty>>

\* The write to the index, in a transaction of its own.
WriteIndex(r) ==
  /\ doc' = built[r]
  /\ IF op[r] \in {"member", "rebuild"}
       THEN Leave(r, "index", "done")
       ELSE GoTo(r, "index", "commit") /\ UNCHANGED <<lock, sent, local>>
  /\ UNCHANGED <<op, row, groups, clock, committed>>

Merged(r) == [f \in Fields |-> IF f \in dirty[r] THEN obj[r][f] ELSE row[f]]

\* The UPDATE of a row that a purge has removed.
UpdatesNothing(r) ==
  ~Exists /\ dirty[r] # {} /\ op[r] \notin {"create", "purge"}

\* Mutant: an update of a row that is gone inserts it.
CommitUpsert(r) ==
  /\ lock \in {Nobody, r}
  /\ row' = Merged(r)
  /\ groups' = Planned(r)
  /\ committed' = committed \cup {row'}
  /\ Leave(r, "commit", "done")
  /\ UNCHANGED <<op, doc, clock>>

\* The commit of the dataset; a delete or purge flushes only now, and waits
\* for the lock of the row.
Commit(r) ==
  /\ ~UpdatesNothing(r)
  /\ dirty[r] # {} => lock \in {Nobody, r}
  /\ row' = Merged(r)
  /\ groups' = Planned(r)
  /\ committed' = committed \cup {row'}
  /\ Leave(r, "commit", "done")
  /\ UNCHANGED <<op, doc, clock>>

\* The flush finds no row to update (StaleDataError).
RowGone(r) ==
  /\ \/ pc[r] = "flush" /\ ~Exists
     \/ pc[r] = "commit" /\ UpdatesNothing(r)
  /\ lock \in {Nobody, r}
  /\ Leave(r, pc[r], "failed")
  /\ UNCHANGED <<op, row, groups, doc, clock, committed>>

\* An exception, a lost connection or a killed process: rolled back.
Fail(r) ==
  /\ r \in MayFail /\ op[r] # "show"
  /\ pc[r] \in {"lookup", "members", "flush", "join", "build", "index",
                "commit"}
  /\ Leave(r, pc[r], "failed")
  /\ UNCHANGED <<op, row, groups, doc, clock, committed>>

-----------------------------------------------------------------------------

\* The dataset is there, and indexed, unless a request creates it.
Init ==
  /\ op \in [Requests -> Ops]
  /\ \A r, q \in Requests : op[r] = "create" /\ op[q] = "create" => r = q
  /\ row = IF \E r \in Requests : op[r] = "create" THEN NoRow
           ELSE RowOf("active", 0, Nobody)
  /\ groups = {}
  /\ doc = IndexDoc(row, groups)
  /\ lock = Nobody /\ clock = 0 /\ committed = {row}
  /\ sent = [r \in Requests |-> Nobody]
  /\ pc = [r \in Requests |-> "start"]
  /\ obj = [r \in Requests |-> NoRow]
  /\ dict = [r \in Requests |-> NoDict]
  /\ plan = [r \in Requests |-> NoPlan]
  /\ dirty = [r \in Requests |-> {}]
  /\ built = [r \in Requests |-> NoDoc]

Step(r) ==
  \/ NotFound(r) \/ Create(r) \/ Update(r) \/ Load(r) \/ Delete(r)
  \/ Lock(r) \/ Show(r) \/ ReadMembers(r) \/ Flush(r)
  \/ Join(r) \/ Build(r) \/ WriteIndex(r) \/ Commit(r)
  \/ RowGone(r) \/ Fail(r)

Next == \E r \in Requests : Step(r)

Spec == Init /\ [][Next]_vars

Ended(r) == pc[r] \in {"done", "notfound", "failed"}

(* The requests one after the other. *)
SerialNext ==
  \E r \in Requests :
    /\ Step(r)
    /\ \A q \in Requests \ {r} : pc[q] = "start" \/ Ended(q)

SerialSpec == Init /\ [][SerialNext]_vars

-----------------------------------------------------------------------------
(* Properties *)

InSync == doc = IndexDoc(row, groups)

\* Request r has changed one of the dataset and its index, and not the other.
Open(r) ==
  \/ pc[r] = "commit"
  \/ op[r] = "member" /\ pc[r] \in {"build", "index"}

\* Every request takes the lock of the row before it reads what it changes.
RowLocked == \A r \in Requests : op[r] \in {"create", "patch", "show"}

(* A request that ends well leaves the index in agreement with the         *)
(* dataset, also when the index was left wrong by one that failed before.  *)
SettledInSync ==
  [][\A r \in Requests :
       op[r] # "show" /\ pc[r] # "done" /\ pc'[r] = "done" => InSync']_vars

\* package_show has answered request r.
Answered(r) == op[r] = "show" /\ pc[r] = "done"

\* A save that sent the metadata_modified s is under way, or has failed, for
\* all that its document tells as a row that has s.
Resent(s) == \E q \in Requests : sent[q] = s

(* package_show never answers with a column value that was not committed,  *)
(* although it reads an index that requests write before they commit: but  *)
(* for a metadata_modified that a save has sent and not committed.         *)
ShowsNothingUncommitted ==
  \A r \in Requests : Answered(r) /\ ~Resent(dict[r].row["stamp"]) =>
    \A c \in Cols : \E v \in committed : v[c] = dict[r].row[c]

(* package_show answers with a row as it was committed: the columns are    *)
(* those that were committed together with the metadata_modified it shows, *)
(* but for one that a save has sent and not committed.                     *)
ShowsCommitted ==
  \A r \in Requests : Answered(r) /\ ~Resent(dict[r].row["stamp"]) =>
    \E v \in committed : \A f \in Cols \cup {"stamp"} : v[f] = dict[r].row[f]

(* Among requests that lock the row from their first read, the index       *)
(* agrees with the dataset whenever none is between its write to the index *)
(* and its commit, as long as none has failed, and package_show answers    *)
(* with a row as it was committed: what package_update and package_patch   *)
(* read and save under the lock does not mix.                              *)
IndexInSync ==
  RowLocked =>
    /\ (\A r \in Requests : ~Open(r) /\ pc[r] # "failed") => InSync
    /\ ShowsCommitted

Patched(r) == op[r] = "patch" /\ pc[r] = "commit" /\ pc'[r] = "done"

\* Another save has sent the metadata_modified of the row, and has failed:
\* what it left in the index tells as the row does.
Mistaken(r) == \E q \in Requests \ {r} : sent[q] = row["stamp"]

(* A patch among requests that lock the row changes the columns it was     *)
(* asked to change and no others, even where it takes the rest of the dict *)
(* from the index, unless a save that sent the row's metadata_modified has *)
(* failed.                                                                 *)
PatchKeepsOthers ==
  [][\A r \in Requests : RowLocked /\ Patched(r) /\ ~Mistaken(r) =>
       \A c \in Cols : row'[c] \in {row[c], r}]_vars

(* A patch changes the columns it was asked to change and no others: what  *)
(* package_patch says of itself.                                           *)
PatchesOnlyItsOwn ==
  [][\A r \in Requests : Patched(r) => \A c \in Cols : row'[c] \in {row[c], r}]_vars

(* A dataset that was purged never comes back, whatever requests were      *)
(* under way.                                                              *)
PurgedStaysGone ==
  [][~Exists /\ Exists' => \E r \in Requests : op[r] = "create"
                                               /\ pc[r] = "commit"]_vars

(* A deleted dataset disappears from all views: once no request is under   *)
(* way, the search does not find it.                                       *)
SearchHidesDeleted ==
  (row["state"] = "deleted" /\ \A r \in Requests : pc[r] = "start" \/ Ended(r))
    => doc = NoDoc
=============================================================================
