------------------------- MODULE PackageIndex_proof -------------------------
(* Proofs about PackageIndex, for any number of requests, columns and      *)
(* groups and any mixture of operations and failures: of all of them, of   *)
(* those that lock the row from their first read, and of those that come   *)
(* one after the other.                                                    *)
EXTENDS PackageIndex, TLAPS

(* What is local to requests is a function of the requests. *)
Doms ==
  /\ DOMAIN obj = Requests /\ DOMAIN dict = Requests
  /\ DOMAIN plan = Requests /\ DOMAIN dirty = Requests
  /\ DOMAIN built = Requests

Typed == TypeOK /\ Doms

Phases == {"start", "lock", "lookup", "members", "flush", "join", "build",
           "index", "commit", "done", "notfound", "failed"}

SharedOK ==
  /\ op \in [Requests -> Ops]
  /\ IsRow(row, States)
  /\ groups \subseteq Groups
  /\ IsRow(doc.row, {"absent", "active"}) /\ doc.groups \subseteq Groups
  /\ lock \in Requests \cup {Nobody}
  /\ clock \in Nat
  /\ sent \in [Requests -> Nat \cup {Nobody}]
  /\ \A v \in committed : IsRow(v, States)

LocalOK(q) ==
  /\ IsRow(obj[q], States)
  /\ IsRow(dict[q].row, States) /\ dict[q].groups \subseteq Groups
  /\ dict[q].keep \in BOOLEAN
  /\ plan[q].add \subseteq Groups /\ plan[q].drop \subseteq Groups
  /\ dirty[q] \subseteq Fields
  /\ IsRow(built[q].row, {"absent", "active"})
  /\ built[q].groups \subseteq Groups

LEMMA TypedParts ==
  Typed <=> /\ SharedOK /\ pc \in [Requests -> Phases] /\ Doms
            /\ \A q \in Requests : LocalOK(q)
BY DEF Typed, TypeOK, SharedOK, LocalOK, Phases

LEMMA TypedPartsNext ==
  Typed' <=> /\ SharedOK' /\ pc' \in [Requests -> Phases] /\ Doms'
             /\ \A q \in Requests : LocalOK(q)'
BY DEF Typed, TypeOK, SharedOK, LocalOK, Phases

-----------------------------------------------------------------------------
(* The values the model is built from *)

(* The fields of a row made by RowOf. *)
LEMMA RowOfIs ==
  ASSUME NEW state, NEW stamp, NEW v
  PROVE  /\ DOMAIN RowOf(state, stamp, v) = Fields
         /\ RowOf(state, stamp, v)["state"] = state
         /\ RowOf(state, stamp, v)["stamp"] = stamp
         /\ \A c \in Cols : RowOf(state, stamp, v)[c] = v
BY ColsAssumption DEF RowOf, Fields

(* Rows made by RowOf are rows. *)
LEMMA RowOfType ==
  ASSUME NEW states, NEW state \in states, NEW stamp \in Nat,
         NEW v \in Requests \cup {Nobody}
  PROVE  IsRow(RowOf(state, stamp, v), states)
BY RowOfIs DEF IsRow

(* The empty values a request starts and ends with have their types. *)
LEMMA NoneType ==
  /\ IsRow(NoRow, States)
  /\ IsRow(NoDoc.row, {"absent", "active"}) /\ NoDoc.groups = {}
  /\ IsRow(NoDict.row, States) /\ NoDict.groups = {} /\ NoDict.keep = FALSE
  /\ NoPlan.add = {} /\ NoPlan.drop = {}
BY RowOfType DEF NoRow, NoDoc, NoDict, NoPlan, States

(* The document of a row is a document, and never one of a deleted row. *)
LEMMA DocType ==
  ASSUME NEW o, IsRow(o, States), NEW g, g \subseteq Groups
  PROVE  /\ IsRow(IndexDoc(o, g).row, {"absent", "active"})
         /\ IndexDoc(o, g).groups \subseteq Groups
BY NoneType DEF IndexDoc, IsRow

(* What package_show answers has the type of a dict. *)
LEMMA ShownType ==
  ASSUME Typed, NEW o, IsRow(o, States)
  PROVE  /\ IsRow(Shown(o).row, States)
         /\ Shown(o).groups \subseteq Groups
         /\ Shown(o).keep = FALSE
<1>1. IsRow(doc.row, States)
  BY DEF Typed, TypeOK, IsRow, States
<1>2. QED
  BY <1>1 DEF Shown, Typed, TypeOK

(* A row with other values in its columns, or another stamp, is a row. *)
LEMMA RowSet ==
  ASSUME NEW o, IsRow(o, States), NEW r \in Requests
  PROVE  /\ \A n \in Nat : IsRow([o EXCEPT !["stamp"] = n], States)
         /\ \A s \in States : IsRow([o EXCEPT !["state"] = s], States)
         /\ \A cs \in SUBSET Cols : IsRow(Edited(o, cs, r), States)
<1>1. "stamp" \in Fields /\ "state" \in Fields /\ Cols \subseteq Fields
      /\ "stamp" \notin Cols /\ "state" \notin Cols
  BY ColsAssumption DEF Fields
<1>2. \A n \in Nat : IsRow([o EXCEPT !["stamp"] = n], States)
  BY <1>1 DEF IsRow
<1>3. \A s \in States : IsRow([o EXCEPT !["state"] = s], States)
  BY <1>1 DEF IsRow
<1>4. ASSUME NEW cs \in SUBSET Cols
      PROVE  IsRow(Edited(o, cs, r), States)
  BY <1>1 DEF IsRow, Edited
<1>5. QED
  BY <1>2, <1>3, <1>4

(* The row a commit leaves is a row. *)
LEMMA MergedType ==
  ASSUME Typed, NEW r \in Requests
  PROVE  IsRow(Merged(r), States) /\ Planned(r) \subseteq Groups
<1>1. "stamp" \in Fields /\ "state" \in Fields /\ Cols \subseteq Fields
  BY DEF Fields
<1>2. IsRow(row, States) /\ IsRow(obj[r], States)
  BY DEF Typed, TypeOK
<1>3. IsRow(Merged(r), States)
  BY <1>1, <1>2 DEF Merged, IsRow
<1>4. QED
  BY <1>3 DEF Planned, Typed, TypeOK

-----------------------------------------------------------------------------
(* Type correctness *)

(* Going from one phase to another keeps pc a function to the phases. *)
LEMMA GoToType ==
  ASSUME Typed, NEW r \in Requests, NEW from, NEW to \in Phases,
         GoTo(r, from, to)
  PROVE  /\ pc' \in [Requests -> Phases]
         /\ pc[r] = from
         /\ \A q \in Requests : pc'[q] = IF q = r THEN to ELSE pc[q]
BY DEF GoTo, Set, Typed, TypeOK, Phases

(* Leaving keeps the types, and changes nothing of the other requests. *)
LEMMA LeaveType ==
  ASSUME Typed, NEW r \in Requests, NEW from,
         NEW how \in {"done", "notfound", "failed"}, Leave(r, from, how)
  PROVE  /\ Doms' /\ lock' \in Requests \cup {Nobody}
         /\ sent' \in [Requests -> Nat \cup {Nobody}]
         /\ pc' \in [Requests -> Phases]
         /\ \A q \in Requests : LocalOK(q)'
<1>1. /\ Doms' /\ lock' \in Requests \cup {Nobody}
      /\ sent' \in [Requests -> Nat \cup {Nobody}]
  BY DEF Leave, Set, Doms, Typed, TypeOK
<1>2. pc' \in [Requests -> Phases]
  BY DEF Leave, Set, GoTo, Typed, TypeOK, Phases
<1>3. ASSUME NEW q \in Requests
      PROVE  LocalOK(q)'
  <2>1. /\ obj'[q] = IF q = r THEN NoRow ELSE obj[q]
        /\ dict'[q] = IF q = r THEN NoDict ELSE dict[q]
        /\ plan'[q] = IF q = r THEN NoPlan ELSE plan[q]
        /\ dirty'[q] = IF q = r THEN {} ELSE dirty[q]
        /\ built'[q] = IF q = r THEN NoDoc ELSE built[q]
    BY DEF Leave, Set, Typed, Doms
  <2>2. LocalOK(q)
    BY TypedParts
  <2>3. QED
    BY <2>1, <2>2, NoneType DEF LocalOK
<1>4. QED
  BY <1>1, <1>2, <1>3

(* The metadata_modified a save sends or gets is a time.                   *)
LEMMA StampType ==
  ASSUME Typed, NEW r \in Requests, NEW s \in Sends(r), Stamps(r, s)
  PROVE  /\ Stamp(s) \in Nat /\ clock' \in Nat
         /\ sent' \in [Requests -> Nat \cup {Nobody}]
<1>1. clock \in Nat /\ s \in Nat \cup {Nobody}
  BY DEF Typed, TypeOK, Sends
<1>2. QED
  BY <1>1 DEF Stamp, Stamps, Set, Typed, TypeOK

(* A step that leaves the local variables of the other requests alone, and *)
(* keeps their types for its own request.                                  *)
LEMMA OnlyOwn ==
  ASSUME Typed, NEW r \in Requests, Doms',
         NEW o, obj' \in {obj, Set(obj, r, o)},
         NEW d, dict' \in {dict, Set(dict, r, d)},
         NEW p, plan' \in {plan, Set(plan, r, p)},
         NEW c, dirty' \in {dirty, Set(dirty, r, c)},
         NEW b, built' \in {built, Set(built, r, b)},
         LocalOK(r)'
  PROVE  \A q \in Requests : LocalOK(q)'
<1>1. ASSUME NEW q \in Requests, q # r
      PROVE  LocalOK(q)'
  <2>1. /\ obj'[q] = obj[q] /\ dict'[q] = dict[q] /\ plan'[q] = plan[q]
        /\ dirty'[q] = dirty[q] /\ built'[q] = built[q]
    BY <1>1 DEF Set, Typed, Doms
  <2>2. LocalOK(q)
    BY TypedParts
  <2>3. QED
    BY <2>1, <2>2 DEF LocalOK
<1>2. QED
  BY <1>1

(* Every step of a request keeps the types. *)
LEMMA StepTyped ==
  ASSUME Typed, NEW r \in Requests, Step(r)
  PROVE  Typed'
<1> USE TypedParts, TypedPartsNext
<1>a. SharedOK /\ Doms /\ LocalOK(r) /\ \A q \in Requests : LocalOK(q)
  OBVIOUS
<1>b. "stamp" \in Fields /\ "state" \in Fields /\ Cols \subseteq Fields
  BY DEF Fields
<1>1. CASE NotFound(r)
  <2>1. /\ Doms' /\ lock' \in Requests \cup {Nobody}
        /\ sent' \in [Requests -> Nat \cup {Nobody}]
        /\ pc' \in [Requests -> Phases]
        /\ \A q \in Requests : LocalOK(q)'
    BY <1>1, LeaveType DEF NotFound
  <2>2. SharedOK'
    BY <1>1, <1>a, <2>1 DEF NotFound, SharedOK
  <2>3. QED
    BY <2>1, <2>2
<1>2. CASE Create(r)
  <2>1. pc' \in [Requests -> Phases]
    BY <1>2, GoToType DEF Create, Phases
  <2>s. PICK s \in Sends(r) :
          Stamps(r, s) /\ obj' = Set(obj, r, RowOf("active", Stamp(s), r))
    BY <1>2 DEF Create
  <2>2. SharedOK' /\ Doms'
    BY <1>2, <1>a, <2>s, StampType DEF Create, SharedOK, Doms, Set
  <2>3. IsRow(RowOf("active", Stamp(s), r), States)
    <3>1. Stamp(s) \in Nat /\ "active" \in States
      BY <1>a, <2>s, StampType DEF States
    <3>2. QED
      BY <3>1, RowOfType
  <2>4. PICK gs \in SUBSET Groups :
          plan' = Set(plan, r, [add |-> gs, drop |-> {}])
    BY <1>2 DEF Create
  <2>5. /\ obj'[r] = RowOf("active", Stamp(s), r) /\ dirty'[r] = Fields
        /\ plan'[r] = [add |-> gs, drop |-> {}]
        /\ dict'[r] = dict[r] /\ built'[r] = built[r]
    BY <1>2, <1>a, <2>s, <2>4 DEF Create, Set, Doms
  <2>6. LocalOK(r)'
    BY <1>a, <2>3, <2>5 DEF LocalOK
  <2>7. \A q \in Requests : LocalOK(q)'
    BY <1>2, <2>2, <2>s, <2>4, <2>6, OnlyOwn DEF Create
  <2>8. QED
    BY <2>1, <2>2, <2>7
<1>3. CASE Update(r)
  <2>1. pc' \in [Requests -> Phases]
    BY <1>3, GoToType DEF Update, Phases
  <2>2. SharedOK' /\ Doms'
    BY <1>3, <1>a DEF Update, SharedOK, Doms, Set
  <2>3. PICK changed \in (SUBSET Cols) \ {{}}, gs \in SUBSET Groups,
             k \in BOOLEAN :
          dict' = Set(dict, r,
            [row |-> Edited(row, changed, r),
             groups |-> IF k THEN {} ELSE gs, keep |-> k])
    BY <1>3 DEF Update
  <2>4. /\ obj'[r] = row /\ plan'[r] = plan[r] /\ dirty'[r] = dirty[r]
        /\ built'[r] = built[r] /\ dict'[r].keep = k
        /\ dict'[r].row = Edited(row, changed, r)
        /\ dict'[r].groups = IF k THEN {} ELSE gs
    BY <1>3, <1>a, <2>3 DEF Update, Set, Doms
  <2>5. LocalOK(r)'
    BY <1>a, <2>4, RowSet DEF LocalOK, SharedOK
  <2>6. \A q \in Requests : LocalOK(q)'
    BY <1>3, <2>2, <2>3, <2>5, OnlyOwn DEF Update
  <2>7. QED
    BY <2>1, <2>2, <2>6
<1>4. CASE Load(r)
  <2>1. pc' \in [Requests -> Phases]
    BY <1>4, GoToType DEF Load, Phases
  <2>2. SharedOK' /\ Doms'
    BY <1>4, <1>a DEF Load, SharedOK, Doms, Set
  <2>3. LocalOK(r)'
    BY <1>4, <1>a DEF Load, LocalOK, SharedOK, Set, Doms
  <2>4. \A q \in Requests : LocalOK(q)'
    BY <1>4, <2>2, <2>3, OnlyOwn DEF Load
  <2>5. QED
    BY <2>1, <2>2, <2>4
<1>5. CASE Delete(r)
  <2>1. pc' \in [Requests -> Phases]
    BY <1>5, GoToType DEF Delete, Phases
  <2>2. SharedOK' /\ Doms'
    BY <1>5, <1>a DEF Delete, SharedOK, Doms, Set
  <2>3. IsRow(row, States) /\ IsRow(NoRow, States)
        /\ IsRow([row EXCEPT !["state"] = "deleted"], States)
    BY <1>a, NoneType, RowSet DEF SharedOK, States
  <2>p. PICK p \in {[add |-> {}, drop |-> gs] : gs \in {groups, {}}} :
          plan' = Set(plan, r, p)
    BY <1>5 DEF Delete
  <2>4. /\ obj'[r] \in {[row EXCEPT !["state"] = "deleted"], NoRow}
        /\ dirty'[r] \subseteq Fields
        /\ plan'[r] = p
        /\ dict'[r] = dict[r] /\ built'[r] = built[r]
    BY <1>5, <1>a, <1>b, <2>p DEF Delete, Set, Doms
  <2>5. LocalOK(r)'
    BY <1>a, <2>3, <2>4 DEF LocalOK, SharedOK
  <2>6. \A q \in Requests : LocalOK(q)'
    BY <1>5, <2>2, <2>p, <2>5, OnlyOwn DEF Delete
  <2>7. QED
    BY <2>1, <2>2, <2>6
<1>6. CASE Lock(r)
  <2>1. pc' \in [Requests -> Phases]
    BY <1>6, GoToType DEF Lock, Phases
  <2>2. SharedOK' /\ Doms'
    BY <1>6, <1>a DEF Lock, SharedOK, Doms, Set
  <2>3. LocalOK(r)'
    BY <1>6, <1>a DEF Lock, LocalOK, SharedOK, Set, Doms
  <2>4. \A q \in Requests : LocalOK(q)'
    BY <1>6, <2>2, <2>3, OnlyOwn DEF Lock
  <2>5. QED
    BY <2>1, <2>2, <2>4
<1>7. CASE Show(r)
  <2>1. pc' \in [Requests -> Phases]
    BY <1>7, GoToType DEF Show, Phases
  <2>2. SharedOK' /\ Doms'
    BY <1>7, <1>a DEF Show, SharedOK, Doms, Set
  <2>3. /\ IsRow(Shown(obj[r]).row, States)
        /\ Shown(obj[r]).groups \subseteq Groups
        /\ Shown(obj[r]).keep = FALSE
    BY <1>a, ShownType DEF LocalOK
  <2>4. PICK cs \in SUBSET Cols :
          dict' \in {Set(dict, r, Shown(obj[r])),
                     Set(dict, r, [row |-> Edited(Shown(obj[r]).row, cs, r),
                                   groups |-> Shown(obj[r]).groups,
                                   keep |-> FALSE])}
    BY <1>7 DEF Show
  <2>5. /\ dict'[r].row \in {Shown(obj[r]).row,
                             Edited(Shown(obj[r]).row, cs, r)}
        /\ dict'[r].groups = Shown(obj[r]).groups
        /\ dict'[r].keep = FALSE
    BY <1>a, <2>3, <2>4 DEF Set, Doms
  <2>6. LocalOK(r)'
    <3>1. IsRow(dict'[r].row, States)
      BY <2>3, <2>5, RowSet
    <3>2. UNCHANGED <<obj, plan, dirty, built>>
      BY <1>7 DEF Show
    <3>3. QED
      BY <3>1, <3>2, <1>a, <2>3, <2>5 DEF LocalOK
  <2>7. \A q \in Requests : LocalOK(q)'
    BY <1>7, <2>2, <2>4, <2>6, OnlyOwn DEF Show
  <2>8. QED
    BY <2>1, <2>2, <2>7
<1>8. CASE ReadMembers(r)
  <2>1. pc' \in [Requests -> Phases]
    BY <1>8, GoToType DEF ReadMembers, Phases
  <2>2. SharedOK' /\ Doms'
    BY <1>8, <1>a DEF ReadMembers, SharedOK, Doms, Set
  <2>3. plan'[r].add \subseteq Groups /\ plan'[r].drop \subseteq Groups
    BY <1>8, <1>a, NoneType DEF ReadMembers, SharedOK, LocalOK, Set, Doms
  <2>4. LocalOK(r)'
    BY <1>8, <1>a, <2>3 DEF ReadMembers, LocalOK
  <2>5. \A q \in Requests : LocalOK(q)'
    BY <1>8, <2>2, <2>4, OnlyOwn DEF ReadMembers
  <2>6. QED
    BY <2>1, <2>2, <2>5
<1>9. CASE Flush(r)
  <2>1. pc' \in [Requests -> Phases]
    BY <1>9, GoToType DEF Flush, Phases
  <2>s. PICK s \in Sends(r) :
          /\ Stamps(r, s)
          /\ obj' = Set(obj, r, [dict[r].row EXCEPT !["stamp"] = Stamp(s)])
    BY <1>9 DEF Flush
  <2>2. SharedOK' /\ Doms'
    BY <1>9, <1>a, <2>s, StampType DEF Flush, SharedOK, Doms, Set
  <2>3. IsRow([dict[r].row EXCEPT !["stamp"] = Stamp(s)], States)
    <3>1. Stamp(s) \in Nat /\ IsRow(dict[r].row, States)
      BY <1>a, <2>s, StampType DEF LocalOK
    <3>2. QED
      BY <3>1, RowSet
  <2>4. /\ obj'[r] = [dict[r].row EXCEPT !["stamp"] = Stamp(s)]
        /\ dirty'[r] \subseteq Fields
        /\ plan'[r] = plan[r] /\ dict'[r] = dict[r] /\ built'[r] = built[r]
    BY <1>9, <1>a, <2>s DEF Flush, Set, Doms
  <2>5. LocalOK(r)'
    BY <1>a, <2>3, <2>4 DEF LocalOK
  <2>6. \A q \in Requests : LocalOK(q)'
    BY <1>9, <2>2, <2>s, <2>5, OnlyOwn DEF Flush
  <2>7. QED
    BY <2>1, <2>2, <2>6
<1>10. CASE Join(r)
  <2>1. pc' \in [Requests -> Phases]
    BY <1>10, GoToType DEF Join, Phases
  <2>2. groups' \subseteq Groups
    BY <1>10, <1>a DEF Join, Membership, SharedOK
  <2>3. SharedOK' /\ Doms' /\ \A q \in Requests : LocalOK(q)'
    BY <1>10, <1>a, <2>2 DEF Join, SharedOK, Doms, LocalOK, local
  <2>4. QED
    BY <2>1, <2>3
<1>11. CASE Build(r)
  <2>1. pc' \in [Requests -> Phases]
    BY <1>11, GoToType DEF Build, Phases
  <2>2. SharedOK' /\ Doms'
    BY <1>11, <1>a DEF Build, SharedOK, Doms, Set
  <2>3. built'[r] = IndexDoc(obj[r], Planned(r))
    BY <1>11, <1>a DEF Build, Set, Doms
  <2>4. LocalOK(r)'
    BY <1>11, <1>a, <2>3, DocType, MergedType DEF Build, LocalOK
  <2>5. \A q \in Requests : LocalOK(q)'
    BY <1>11, <2>2, <2>4, OnlyOwn DEF Build
  <2>6. QED
    BY <2>1, <2>2, <2>5
<1>12. CASE WriteIndex(r)
  <2>1. doc' = built[r] /\ UNCHANGED <<op, row, groups, clock, committed>>
    BY <1>12 DEF WriteIndex
  <2>2. /\ Doms' /\ lock' \in Requests \cup {Nobody}
        /\ sent' \in [Requests -> Nat \cup {Nobody}]
        /\ pc' \in [Requests -> Phases]
        /\ \A q \in Requests : LocalOK(q)'
    <3>1. CASE Leave(r, "index", "done")
      BY <3>1, LeaveType
    <3>2. CASE GoTo(r, "index", "commit") /\ UNCHANGED <<lock, sent, local>>
      <4>1. pc' \in [Requests -> Phases]
        BY <3>2, GoToType DEF Phases
      <4>2. QED
        BY <3>2, <4>1, <1>a DEF SharedOK, Doms, LocalOK, local
    <3>3. QED
      BY <1>12, <3>1, <3>2 DEF WriteIndex
  <2>3. SharedOK'
    BY <1>a, <2>1, <2>2 DEF SharedOK, LocalOK
  <2>4. QED
    BY <2>2, <2>3
<1>13. CASE Commit(r)
  <2>1. /\ Doms' /\ lock' \in Requests \cup {Nobody}
        /\ sent' \in [Requests -> Nat \cup {Nobody}]
        /\ pc' \in [Requests -> Phases]
        /\ \A q \in Requests : LocalOK(q)'
    BY <1>13, LeaveType DEF Commit
  <2>2. IsRow(Merged(r), States) /\ Planned(r) \subseteq Groups
    BY MergedType
  <2>3. SharedOK'
    BY <1>13, <1>a, <2>1, <2>2 DEF Commit, SharedOK
  <2>4. QED
    BY <2>1, <2>3
<1>14. CASE RowGone(r)
  <2>1. /\ Doms' /\ lock' \in Requests \cup {Nobody}
        /\ sent' \in [Requests -> Nat \cup {Nobody}]
        /\ pc' \in [Requests -> Phases]
        /\ \A q \in Requests : LocalOK(q)'
    BY <1>14, LeaveType DEF RowGone
  <2>2. SharedOK'
    BY <1>14, <1>a, <2>1 DEF RowGone, SharedOK
  <2>3. QED
    BY <2>1, <2>2
<1>15. CASE Fail(r)
  <2>1. /\ Doms' /\ lock' \in Requests \cup {Nobody}
        /\ sent' \in [Requests -> Nat \cup {Nobody}]
        /\ pc' \in [Requests -> Phases]
        /\ \A q \in Requests : LocalOK(q)'
    BY <1>15, LeaveType DEF Fail
  <2>2. SharedOK'
    BY <1>15, <1>a, <2>1 DEF Fail, SharedOK
  <2>3. QED
    BY <2>1, <2>2
<1>16. QED
  BY <1>1, <1>2, <1>3, <1>4, <1>5, <1>6, <1>7, <1>8, <1>9, <1>10, <1>11,
     <1>12, <1>13, <1>14, <1>15 DEF Step

(* The first state has the types. *)
LEMMA InitTyped == Init => Typed
<1> SUFFICES ASSUME Init PROVE Typed
  OBVIOUS
<1>1. IsRow(row, States)
  BY NoneType, RowOfType DEF Init, States
<1>2. IsRow(doc.row, {"absent", "active"}) /\ doc.groups \subseteq Groups
  BY <1>1, DocType DEF Init
<1>3. SharedOK
  BY <1>1, <1>2 DEF Init, SharedOK
<1>4. pc \in [Requests -> Phases] /\ Doms
  BY DEF Init, Phases, Doms
<1>5. \A q \in Requests : LocalOK(q)
  BY NoneType DEF Init, LocalOK
<1>6. QED
  BY <1>3, <1>4, <1>5, TypedParts

(* The types are inductive. *)
LEMMA TypedInductive ==
  /\ Init => Typed
  /\ Typed /\ [Next]_vars => Typed'
<1>1. Typed /\ [Next]_vars => Typed'
  <2> SUFFICES ASSUME Typed, [Next]_vars PROVE Typed'
    OBVIOUS
  <2>1. CASE Next
    BY <2>1, StepTyped DEF Next
  <2>2. CASE UNCHANGED vars
    BY <2>2 DEF vars, local, Typed, TypeOK, Doms, IsRow
  <2>3. QED
    BY <2>1, <2>2
<1>2. QED
  BY InitTyped, <1>1

(* TypeOK holds in every state: the index never holds the document of a    *)
(* deleted dataset, whatever the order of the requests' writes to it.      *)
THEOREM TypeCorrect == Spec => []TypeOK
<1>1. Typed => TypeOK
  BY DEF Typed
<1>2. QED
  BY TypedInductive, <1>1, PTL DEF Spec

-----------------------------------------------------------------------------
(* A purged dataset stays gone *)

Purging(q) == op[q] = "purge" /\ pc[q] \in {"index", "commit"}

(* A purge writes no column but those of a row that is gone, and goes from *)
(* its first step straight to the index.                                   *)
PurgesAll ==
  \A q \in Requests : op[q] = "purge" =>
    /\ pc[q] \in {"start", "index", "commit", "done", "notfound", "failed"}
    /\ Purging(q) => obj[q] = NoRow /\ dirty[q] = Fields

LEMMA PurgesAllStep ==
  ASSUME Typed, PurgesAll, NEW r \in Requests, Step(r)
  PROVE  PurgesAll'
<1> SUFFICES ASSUME NEW q \in Requests, op'[q] = "purge"
             PROVE  /\ pc'[q] \in {"start", "index", "commit", "done",
                                   "notfound", "failed"}
                    /\ Purging(q)' => obj'[q] = NoRow /\ dirty'[q] = Fields
  BY DEF PurgesAll
<1>1. UNCHANGED op
  BY DEF Step, NotFound, Create, Update, Load, Delete, Lock, Show,
         ReadMembers, Flush, Join, Build, WriteIndex, Commit, RowGone, Fail
<1>2. CASE q # r
  <2>1. pc'[q] = pc[q]
    BY <1>2 DEF Step, NotFound, Create, Update, Load, Delete, Lock, Show,
         ReadMembers, Flush, Join, Build, WriteIndex, Commit, RowGone, Fail,
         Leave, GoTo, Set, Typed, TypeOK
  <2>2. obj'[q] = obj[q] /\ dirty'[q] = dirty[q]
    BY <1>2 DEF Step, NotFound, Create, Update, Load, Delete, Lock, Show,
         ReadMembers, Flush, Join, Build, WriteIndex, Commit, RowGone, Fail,
         Leave, Set, Typed, Doms, local
  <2>3. QED
    BY <1>1, <2>1, <2>2 DEF PurgesAll, Purging
<1>3. CASE q = r
  <2>1. op[r] = "purge" /\ r \in DOMAIN pc /\ r \in DOMAIN obj
        /\ r \in DOMAIN dirty
    BY <1>1, <1>3 DEF Typed, TypeOK, Doms
  <2>2. pc[r] \in {"start", "index", "commit", "done", "notfound", "failed"}
    BY <2>1 DEF PurgesAll
  <2>3. ~Create(r) /\ ~Update(r) /\ ~Load(r) /\ ~Lock(r) /\ ~Show(r)
    BY <2>1 DEF Create, Update, Load, Lock, Show
  <2>4. ~ReadMembers(r) /\ ~Flush(r) /\ ~Join(r) /\ ~Build(r)
    BY <2>2 DEF ReadMembers, Flush, Join, Build, GoTo
  <2>5. CASE NotFound(r) \/ Commit(r) \/ RowGone(r) \/ Fail(r)
    <3>1. pc'[r] \in {"done", "notfound", "failed"}
      BY <2>1, <2>5 DEF NotFound, Commit, RowGone, Fail, Leave, GoTo, Set
    <3>2. QED
      BY <3>1, <1>3 DEF Purging
  <2>6. CASE Delete(r)
    BY <1>3, <2>1, <2>6 DEF Delete, GoTo, Set
  <2>7. CASE WriteIndex(r)
    <3>1. /\ pc[r] = "index" /\ pc'[r] = "commit"
          /\ UNCHANGED <<obj, dirty>>
      BY <2>1, <2>7 DEF WriteIndex, GoTo, Set, local
    <3>2. QED
      BY <1>3, <2>1, <3>1 DEF PurgesAll, Purging
  <2>8. QED
    BY <2>3, <2>4, <2>5, <2>6, <2>7 DEF Step
<1>4. QED
  BY <1>2, <1>3

(* Only the commit of a create makes a row where there was none.           *)
LEMMA BackByCreate ==
  ASSUME Typed, PurgesAll, ~Exists, Exists', NEW r \in Requests, Step(r)
  PROVE  op[r] = "create" /\ pc[r] = "commit"
<1>1. Commit(r)
  BY DEF Exists, Step, NotFound, Create, Update, Load, Delete, Lock, Show,
         ReadMembers, Flush, Join, Build, WriteIndex, RowGone, Fail
<1>2. pc[r] = "commit" /\ ~UpdatesNothing(r) /\ row' = Merged(r)
  BY <1>1 DEF Commit, Leave, GoTo
<1>3. "state" \in Fields
  BY DEF Fields
<1>4. "state" \in dirty[r] /\ obj[r]["state"] # "absent"
  BY <1>2, <1>3 DEF Merged, Exists
<1>5. op[r] # "purge"
  <2>1. NoRow["state"] = "absent"
    BY RowOfIs DEF NoRow
  <2>2. QED
    BY <1>2, <1>4, <2>1 DEF PurgesAll, Purging
<1>6. QED
  BY <1>2, <1>4, <1>5 DEF UpdatesNothing

(* A dataset that is gone comes back only by the commit of a create.  An   *)
(* update or delete that began before the purge finds no row to write, and *)
(* a second purge writes a row that is gone.                               *)
THEOREM PurgedIsGone == Spec => PurgedStaysGone
<1> DEFINE Back == ~Exists /\ Exists' => \E r \in Requests :
                                      op[r] = "create" /\ pc[r] = "commit"
<1>1. Init => PurgesAll
  BY DEF Init, PurgesAll, Purging
<1>2. Typed /\ PurgesAll /\ [Next]_vars => PurgesAll'
  <2> SUFFICES ASSUME Typed, PurgesAll, [Next]_vars PROVE PurgesAll'
    OBVIOUS
  <2>1. CASE Next
    BY <2>1, PurgesAllStep DEF Next
  <2>2. CASE UNCHANGED vars
    BY <2>2 DEF vars, local, PurgesAll, Purging
  <2>3. QED
    BY <2>1, <2>2
<1>3. Typed /\ PurgesAll /\ [Next]_vars => [Back]_vars
  BY BackByCreate DEF Next, vars, Exists
<1>4. QED
  BY TypedInductive, <1>1, <1>2, <1>3, PTL DEF Spec, PurgedStaysGone

-----------------------------------------------------------------------------
(* package_show answers with committed values                              *)
(*                                                                         *)
(* One request at a time saves the dataset: it holds the lock of the row,  *)
(* or there is no row yet.  Its metadata_modified is new, which no         *)
(* committed row has, or one that it was sent.  A document in the index is *)
(* then one of committed values, or the row of the request that is saving, *)
(* or has a metadata_modified that no row has, or one that a save was sent *)
(* which has failed.  package_show compares the metadata_modified, so it   *)
(* takes no document of the third kind.                                    *)

Saves == {"create", "update", "patch", "resource"}

Ends == {"done", "notfound", "failed"}

\* What a request does tells the phases it goes through.
PhaseOK(q) ==
  /\ pc[q] = "lock" => op[q] = "resource"
  /\ pc[q] = "lookup" => op[q] \in {"patch", "resource", "show"}
  /\ pc[q] \in {"members", "flush"} => op[q] \in Saves \ {"create"}
  /\ pc[q] = "join" => op[q] = "member"
  /\ pc[q] = "build" => op[q] \in Saves \cup {"member", "rebuild"}
  /\ pc[q] = "index" => op[q] # "show"
  /\ pc[q] = "commit" => op[q] \in Saves \cup {"delete", "purge"}

\* The requests that hold a row to commit.
Savers == {q \in Requests : op[q] \in Saves
                            /\ pc[q] \in {"build", "index", "commit"}}

\* The requests whose Package object is as it was loaded.
Readers ==
  {q \in Requests : \/ pc[q] \in {"lock", "lookup", "members", "flush", "join"}
                    \/ op[q] \in {"member", "rebuild"}
                       /\ pc[q] \in {"build", "index"}}

\* Some row of com has the metadata_modified s.
Used(s, com) == \E v \in com : v["stamp"] = s

\* The columns of x are those of rows of com.
FromRows(x, com) == \A c \in Cols : \E v \in com : v[c] = x[c]

\* x is the row of a saver that was sent its metadata_modified.
OfSender(x, sv, o, se) == \E q \in sv : se[q] # Nobody /\ x = o[q]

\* A save that was sent the metadata_modified s has failed.
Left(s, p, se) == \E q \in Requests : p[q] = "failed" /\ se[q] = s

\* x is a row that package_show can answer with.
Answer(x, com, sv, o, se, p) ==
  FromRows(x, com) \/ OfSender(x, sv, o, se) \/ Left(x["stamp"], p, se)

OneCreate ==
  \A r, q \in Requests : op[r] = "create" /\ op[q] = "create" => r = q

Rows ==
  /\ row \in committed /\ Used(0, committed)
  /\ \A v \in committed : v["stamp"] <= clock

\* Why one request saves at a time.
AloneOK(q) ==
  /\ op[q] = "create" /\ pc[q] \in {"start", "build", "index", "commit"} => ~Exists
  /\ q \in Savers /\ op[q] # "create" => Exists /\ lock = q

\* The metadata_modified of a save is new, or was sent.
SentOK(q) ==
  /\ q \notin Savers /\ pc[q] # "failed" => sent[q] = Nobody
  /\ q \in Savers => /\ obj[q]["stamp"] <= clock
                     /\ IF sent[q] = Nobody THEN ~Used(obj[q]["stamp"], committed)
                                            ELSE sent[q] = obj[q]["stamp"]

\* A column of a saver is committed, or it writes the column.
SavesOwn(q) ==
  q \in Savers => \A c \in Cols : c \in dirty[q] \/ \E v \in committed : v[c] = obj[q][c]

\* A document of committed values, or of a request's own row.
DocOf(d, q, com, sv, o) ==
  d = NoDoc \/ FromRows(d.row, com) \/ (q \in sv /\ d.row = o[q])

SaveOK(q) ==
  /\ AloneOK(q) /\ SentOK(q) /\ SavesOwn(q)
  /\ DocOf(built[q], q, committed, Savers, obj)
  /\ q \in Savers /\ pc[q] = "commit" => DocOf(doc, q, committed, Savers, obj)

DocOK ==
  \/ doc = NoDoc \/ ~Used(doc.row["stamp"], committed)
  \/ Answer(doc.row, committed, Savers, obj, sent, pc)

ShowInv ==
  /\ Typed /\ PurgesAll /\ OneCreate
  /\ Rows
  /\ \A q \in Requests : PhaseOK(q)
  /\ \A q \in Readers : obj[q] \in committed
  /\ \A q \in Requests : SaveOK(q)
  /\ DocOK
  /\ \A q \in Requests : op[q] = "delete" /\ pc[q] \in {"index", "commit"} =>
                           dirty[q] \subseteq {"state"}
  /\ \A q \in Requests : Answered(q) =>
                           Answer(dict[q].row, committed, Savers, obj, sent, pc)

(* A step of r leaves what is local to the other requests alone. *)
LEMMA Others ==
  ASSUME Typed, NEW r \in Requests, Step(r), NEW q \in Requests
  PROVE  /\ op' = op
         /\ q # r => /\ pc'[q] = pc[q] /\ obj'[q] = obj[q]
                     /\ dict'[q] = dict[q] /\ dirty'[q] = dirty[q]
                     /\ built'[q] = built[q] /\ plan'[q] = plan[q]
                     /\ sent'[q] = sent[q]
<1>1. op' = op
  BY DEF Step, NotFound, Create, Update, Load, Delete, Lock, Show,
         ReadMembers, Flush, Join, Build, WriteIndex, Commit, RowGone, Fail
<1>2. q # r => pc'[q] = pc[q]
  BY DEF Step, NotFound, Create, Update, Load, Delete, Lock, Show,
         ReadMembers, Flush, Join, Build, WriteIndex, Commit, RowGone, Fail,
         Leave, GoTo, Set, Typed, TypeOK
<1>3. q # r => obj'[q] = obj[q] /\ dirty'[q] = dirty[q]
  BY DEF Step, NotFound, Create, Update, Load, Delete, Lock, Show,
         ReadMembers, Flush, Join, Build, WriteIndex, Commit, RowGone, Fail,
         Leave, Set, Typed, Doms, local
<1>4. q # r => dict'[q] = dict[q] /\ built'[q] = built[q]
  BY DEF Step, NotFound, Create, Update, Load, Delete, Lock, Show,
         ReadMembers, Flush, Join, Build, WriteIndex, Commit, RowGone, Fail,
         Leave, Set, Typed, Doms, local
<1>5. q # r => plan'[q] = plan[q]
  BY DEF Step, NotFound, Create, Update, Load, Delete, Lock, Show,
         ReadMembers, Flush, Join, Build, WriteIndex, Commit, RowGone, Fail,
         Leave, Set, Typed, Doms, local
<1>6. q # r => sent'[q] = sent[q]
  BY DEF Step, NotFound, Create, Update, Load, Delete, Lock, Show,
         ReadMembers, Flush, Join, Build, WriteIndex, Commit, RowGone, Fail,
         Leave, Set, Stamps, Typed, TypeOK
<1>7. QED
  BY <1>1, <1>2, <1>3, <1>4, <1>5, <1>6

(* Every request stays in the phases of what it does. *)
LEMMA PhaseStep ==
  ASSUME Typed, \A q \in Requests : PhaseOK(q), NEW r \in Requests, Step(r)
  PROVE  \A q \in Requests : PhaseOK(q)'
<1> SUFFICES ASSUME NEW q \in Requests PROVE PhaseOK(q)'
  OBVIOUS
<1>1. CASE q # r
  BY <1>1, Others DEF PhaseOK
<1>2. CASE q = r
  <2>1. op'[r] = op[r] /\ PhaseOK(r) /\ r \in DOMAIN pc
    BY Others DEF Typed, TypeOK
  <2>2. CASE NotFound(r) \/ Commit(r) \/ RowGone(r) \/ Fail(r)
    <3>1. pc'[r] \in {"done", "notfound", "failed"}
      BY <2>1, <2>2 DEF NotFound, Commit, RowGone, Fail, Leave, GoTo, Set
    <3>2. QED
      BY <3>1, <1>2 DEF PhaseOK
  <2>3. CASE Create(r) \/ Update(r) \/ Load(r) \/ Delete(r)
    BY <1>2, <2>1, <2>3 DEF Create, Update, Load, Delete, GoTo, Set, PhaseOK,
                            Saves
  <2>4. CASE Lock(r) \/ Show(r) \/ ReadMembers(r) \/ Flush(r)
    BY <1>2, <2>1, <2>4 DEF Lock, Show, ReadMembers, Flush, GoTo, Set, PhaseOK,
                            Saves
  <2>5. CASE Join(r) \/ Build(r) \/ WriteIndex(r)
    <3>1. CASE Join(r) \/ Build(r)
      BY <1>2, <2>1, <3>1 DEF Join, Build, GoTo, Set, PhaseOK, Saves
    <3>2. CASE WriteIndex(r)
      <4>1. op[r] \in AllOps /\ op[r] # "show" /\ pc'[r] \in {"done", "commit"}
            /\ (pc'[r] = "commit" => op[r] \notin {"member", "rebuild"})
        BY <2>1, <3>2, OpsAssumption
           DEF WriteIndex, Leave, GoTo, Set, PhaseOK, Typed, TypeOK
      <4>2. QED
        BY <1>2, <2>1, <4>1 DEF PhaseOK, Saves, AllOps
    <3>3. QED
      BY <2>5, <3>1, <3>2
  <2>6. QED
    BY <2>2, <2>3, <2>4, <2>5 DEF Step
<1>3. QED
  BY <1>1, <1>2

(* One request saves at a time. *)
LEMMA OneSaver ==
  ASSUME ShowInv, NEW r \in Savers, NEW q \in Savers
  PROVE  q = r
BY NobodyAssumption DEF ShowInv, SaveOK, AloneOK, OneCreate, Savers

(* A step makes no other request a saver, or stops it from being one. *)
LEMMA OtherSavers ==
  ASSUME Typed, NEW r \in Requests, Step(r), NEW q \in Requests, q # r
  PROVE  q \in Savers' <=> q \in Savers
BY Others DEF Savers

(* The step of a request that is saving leaves it saving with the same     *)
(* row, or is its commit, or its failure.                                  *)
LEMMA SaverSteps ==
  ASSUME Typed, NEW r \in Savers, Step(r)
  PROVE  \/ /\ Build(r) \/ WriteIndex(r)
            /\ r \in Savers' /\ UNCHANGED <<obj, dirty, sent, lock>>
         \/ Commit(r) /\ r \notin Savers'
         \/ (RowGone(r) \/ Fail(r)) /\ r \notin Savers' /\ pc'[r] = "failed" /\ sent' = sent
<1>0. /\ r \in Requests /\ r \in DOMAIN pc /\ op' = op
      /\ op[r] \in Saves /\ pc[r] \in {"build", "index", "commit"}
  BY Others DEF Savers, Typed, TypeOK
<1>1. CASE Build(r)
  BY <1>0, <1>1 DEF Build, GoTo, Set, Savers
<1>2. CASE WriteIndex(r)
  BY <1>0, <1>2 DEF WriteIndex, GoTo, Set, Savers, Saves, local
<1>3. CASE Commit(r)
  BY <1>0, <1>3 DEF Commit, Leave, GoTo, Set, Savers
<1>4. CASE RowGone(r) \/ Fail(r)
  BY <1>0, <1>4 DEF RowGone, Fail, Leave, GoTo, Set, Savers
<1>5. ~NotFound(r) /\ ~Create(r) /\ ~Update(r) /\ ~Load(r) /\ ~Delete(r)
      /\ ~Lock(r) /\ ~Show(r) /\ ~ReadMembers(r) /\ ~Flush(r) /\ ~Join(r)
  BY <1>0 DEF NotFound, Create, Update, Load, Delete, Lock, Show, ReadMembers,
              Flush, Join, GoTo
<1>6. QED
  BY <1>1, <1>2, <1>3, <1>4, <1>5 DEF Step

(* A request begins to save by making a new row, or by the flush of one.   *)
LEMMA SaverBegins ==
  ASSUME Typed, NEW r \in Requests, PhaseOK(r), r \notin Savers, r \in Savers', Step(r)
  PROVE  Create(r) \/ Flush(r)
<1>0. r \in DOMAIN pc /\ op' = op /\ op[r] \in Saves
      /\ pc[r] \notin {"build", "index", "commit"}
      /\ pc'[r] \in {"build", "index", "commit"}
  BY Others DEF Savers, Typed, TypeOK
<1>1. ~NotFound(r) /\ ~Update(r) /\ ~Load(r) /\ ~Delete(r) /\ ~Lock(r)
      /\ ~Show(r) /\ ~ReadMembers(r) /\ ~RowGone(r) /\ ~Fail(r) /\ ~Commit(r)
  BY <1>0 DEF NotFound, Update, Load, Delete, Lock, Show, ReadMembers, RowGone,
              Fail, Commit, Leave, GoTo, Set, Saves
<1>2. ~Join(r) /\ ~Build(r) /\ ~WriteIndex(r)
  BY <1>0 DEF Join, Build, WriteIndex, Leave, GoTo, Set, PhaseOK, Saves
<1>3. QED
  BY <1>1, <1>2 DEF Step

(* What is committed and indexed changes only at a commit and a write to   *)
(* the index.                                                              *)
LEMMA Unshared ==
  ASSUME NEW r \in Requests, Step(r)
  PROVE  /\ ~Commit(r) => UNCHANGED <<row, committed>>
         /\ ~Commit(r) /\ ~Join(r) => UNCHANGED groups
         /\ ~WriteIndex(r) => UNCHANGED doc
         /\ ~Create(r) /\ ~Flush(r) => UNCHANGED clock
BY DEF Step, NotFound, Create, Update, Load, Delete, Lock, Show, ReadMembers,
       Flush, Join, Build, WriteIndex, Commit, RowGone, Fail

(* The commit of r: the row of a saver, its own columns in it and a        *)
(* metadata_modified of its own or the last one; or that of a delete or a  *)
(* purge, whose metadata_modified is not new.                              *)
LEMMA CommitRow ==
  ASSUME ShowInv, NEW r \in Requests, Commit(r)
  PROVE  /\ pc[r] = "commit" /\ row' = Merged(r) /\ committed' = committed \cup {row'}
         /\ clock' = clock /\ doc' = doc
         /\ row'["stamp"] <= clock
         /\ r \in Savers => /\ row'["stamp"] = obj[r]["stamp"] \/ Used(row'["stamp"], committed)
                            /\ FromRows(obj[r], committed')
         /\ r \notin Savers => Used(row'["stamp"], committed)
<1>1. /\ pc[r] = "commit" /\ row' = Merged(r) /\ committed' = committed \cup {row'}
      /\ clock' = clock /\ doc' = doc
  BY DEF Commit, Leave, GoTo
<1>2. "stamp" \in Fields /\ Cols \subseteq Fields
  BY DEF Fields
<1>3. \A f \in Fields : row'[f] = IF f \in dirty[r] THEN obj[r][f] ELSE row[f]
  BY <1>1 DEF Merged
<1>4. Used(row["stamp"], committed) /\ row["stamp"] <= clock /\ Used(0, committed)
      /\ clock \in Nat /\ 0 <= clock
  BY DEF ShowInv, Rows, Used, Typed, TypeOK
<1>5. CASE r \in Savers
  <2>1. \A c \in Cols : \E v \in committed' : v[c] = obj[r][c]
    <3> SUFFICES ASSUME NEW c \in Cols PROVE \E v \in committed' : v[c] = obj[r][c]
      OBVIOUS
    <3>1. CASE c \in dirty[r]
      BY <1>1, <1>2, <1>3, <3>1
    <3>2. CASE c \notin dirty[r]
      BY <1>1, <1>5, <3>2 DEF ShowInv, SaveOK, SavesOwn
    <3>3. QED
      BY <3>1, <3>2
  <2>2. obj[r]["stamp"] <= clock
    BY <1>5 DEF ShowInv, SaveOK, SentOK
  <2>3. FromRows(obj[r], committed')
    BY <2>1 DEF FromRows
  <2>4. QED
    BY <1>1, <1>2, <1>3, <1>4, <1>5, <2>2, <2>3
<1>6. CASE r \notin Savers
  <2>1. op[r] \in {"delete", "purge"}
    BY <1>1, <1>6 DEF ShowInv, PhaseOK, Savers
  <2>2. CASE op[r] = "delete"
    <3>1. "stamp" \notin dirty[r]
      BY <1>1, <2>2 DEF ShowInv
    <3>2. QED
      BY <1>1, <1>2, <1>3, <1>4, <1>6, <3>1
  <2>3. CASE op[r] = "purge"
    <3>1. obj[r] = NoRow /\ dirty[r] = Fields
      BY <1>1, <2>3 DEF ShowInv, PurgesAll, Purging
    <3>2. row'["stamp"] = 0
      BY <1>2, <1>3, <3>1, RowOfIs DEF NoRow
    <3>3. QED
      BY <1>1, <1>4, <1>6, <3>2
  <2>4. QED
    BY <2>1, <2>2, <2>3
<1>7. QED
  BY <1>5, <1>6

(* Every row that was committed stays in the history, the last one too. *)
LEMMA RowsStep ==
  ASSUME ShowInv, NEW r \in Requests, Step(r)
  PROVE  row' \in committed' /\ committed \subseteq committed'
<1>1. CASE Commit(r)
  BY <1>1 DEF Commit
<1>2. CASE ~Commit(r)
  <2>1. UNCHANGED <<row, committed>>
    BY <1>2 DEF Step, NotFound, Create, Update, Load, Delete, Lock, Show,
         ReadMembers, Flush, Join, Build, WriteIndex, RowGone, Fail
  <2>2. QED
    BY <2>1 DEF ShowInv, Rows
<1>3. QED
  BY <1>1, <1>2

(* The Package object of a reader is a committed row. *)
LEMMA ReadersStep ==
  ASSUME ShowInv, NEW r \in Requests, Step(r)
  PROVE  \A q \in Readers' : obj'[q] \in committed'
<1>0. /\ Typed /\ op'[r] = op[r] /\ r \in DOMAIN pc /\ r \in DOMAIN obj
      /\ PhaseOK(r) /\ row \in committed /\ committed \subseteq committed'
  BY Others, RowsStep DEF ShowInv, Typed, TypeOK, Doms, Rows
<1> SUFFICES ASSUME r \in Readers' PROVE obj'[r] \in committed'
  BY <1>0, Others DEF Readers, ShowInv
<1>1. ASSUME UNCHANGED obj, r \in Readers PROVE obj'[r] \in committed'
  BY <1>0, <1>1 DEF ShowInv
<1>2. CASE NotFound(r) \/ Commit(r) \/ RowGone(r) \/ Fail(r)
  BY <1>0, <1>2 DEF NotFound, Commit, RowGone, Fail, Leave, GoTo, Set, Readers
<1>3. CASE Create(r) \/ Delete(r)
  BY <1>0, <1>3 DEF Create, Delete, GoTo, Set, Readers
<1>4. CASE Update(r) \/ Load(r)
  BY <1>0, <1>4 DEF Update, Load, Set
<1>5. CASE Lock(r)
  BY <1>0, <1>1, <1>5 DEF Lock, GoTo, Set, Readers
<1>6. CASE Show(r) \/ ReadMembers(r)
  BY <1>1, <1>6 DEF Show, ReadMembers, GoTo, Readers
<1>7. CASE Flush(r)
  BY <1>0, <1>7 DEF Flush, GoTo, Set, Readers, PhaseOK, Saves
<1>8. CASE Join(r)
  BY <1>1, <1>8 DEF Join, GoTo, Readers, local
<1>9. CASE Build(r)
  BY <1>0, <1>1, <1>9 DEF Build, GoTo, Set, Readers
<1>10. CASE WriteIndex(r)
  BY <1>0, <1>10 DEF WriteIndex, Leave, GoTo, Set, Readers
<1>11. QED
  BY <1>2, <1>3, <1>4, <1>5, <1>6, <1>7, <1>8, <1>9, <1>10 DEF Step

(* A step begins at most one save, with a new metadata_modified or one it  *)
(* was sent, and with the columns it read or writes.                       *)
LEMMA BeginStep ==
  ASSUME ShowInv, NEW r \in Requests, Create(r) \/ Flush(r), Step(r)
  PROVE  /\ r \notin Savers /\ pc[r] # "failed" /\ pc'[r] = "build"
         /\ UNCHANGED <<committed, row, doc>> /\ clock <= clock'
         /\ AloneOK(r)' /\ SentOK(r)' /\ SavesOwn(r)'
<1>0. /\ Typed /\ op' = op /\ r \in DOMAIN pc /\ r \in DOMAIN obj
      /\ r \in DOMAIN dirty /\ r \in DOMAIN sent /\ clock \in Nat /\ PhaseOK(r)
      /\ AloneOK(r) /\ \A v \in committed : v["stamp"] <= clock /\ v["stamp"] \in Nat
  BY Others DEF ShowInv, SaveOK, Rows, Typed, TypeOK, Doms, IsRow
<1>1. /\ pc[r] \in {"start", "flush"} /\ pc'[r] = "build"
      /\ UNCHANGED <<committed, row, doc>>
  BY <1>0 DEF Create, Flush, GoTo, Set
<1>2. PICK s \in Sends(r) :
        /\ Stamps(r, s) /\ obj'[r]["stamp"] = Stamp(s)
        /\ "stamp" \in Fields /\ Cols \subseteq Fields
        /\ \A c \in Cols : c \in dirty'[r] \/ \E v \in committed : v[c] = obj'[r][c]
  <2>1. CASE Create(r)
    <3>1. PICK s \in Sends(r) :
            Stamps(r, s) /\ obj' = Set(obj, r, RowOf("active", Stamp(s), r))
      BY <2>1 DEF Create
    <3>2. dirty'[r] = Fields /\ obj'[r]["stamp"] = Stamp(s)
      BY <1>0, <2>1, <3>1, RowOfIs DEF Create, Set
    <3>3. QED
      BY <3>1, <3>2 DEF Fields
  <2>2. CASE Flush(r)
    <3>1. PICK s \in Sends(r) :
            /\ Stamps(r, s)
            /\ obj' = Set(obj, r, [dict[r].row EXCEPT !["stamp"] = Stamp(s)])
      BY <2>2 DEF Flush
    <3>2. IsRow(dict[r].row, States) /\ "stamp" \in Fields /\ Cols \subseteq Fields
      BY <1>0, TypedParts DEF LocalOK, Fields
    <3>3. obj'[r]["stamp"] = Stamp(s)
      BY <1>0, <3>1, <3>2 DEF Set, IsRow
    <3>4. \A f \in Fields : f \in dirty'[r] <=> obj'[r][f] # obj[r][f]
      BY <1>0, <2>2 DEF Flush, Set
    <3>5. obj[r] \in committed
      BY <2>2 DEF Flush, GoTo, ShowInv, Readers
    <3>6. QED
      BY <3>1, <3>2, <3>3, <3>4, <3>5
  <2>3. QED
    BY <2>1, <2>2
<1>3. sent'[r] = s /\ clock <= clock' /\ obj'[r]["stamp"] <= clock'
      /\ IF s = Nobody THEN ~Used(obj'[r]["stamp"], committed)
                       ELSE obj'[r]["stamp"] = s
  <2>1. CASE s = Nobody
    <3>1. clock' = clock + 1 /\ obj'[r]["stamp"] = clock + 1 /\ sent'[r] = s
      BY <1>0, <1>2, <2>1 DEF Stamps, Stamp, Set
    <3>2. QED
      BY <1>0, <2>1, <3>1 DEF Used
  <2>2. CASE s # Nobody
    <3>1. s \in 0 .. clock
      BY <1>2, <2>2 DEF Sends
    <3>2. clock' = clock /\ obj'[r]["stamp"] = s /\ sent'[r] = s
      BY <1>0, <1>2, <2>2 DEF Stamps, Stamp, Set
    <3>3. QED
      BY <1>0, <2>2, <3>1, <3>2
  <2>3. QED
    BY <2>1, <2>2
<1>4. AloneOK(r)'
  <2>1. CASE Create(r)
    BY <1>0, <1>1, <2>1 DEF AloneOK, Create, GoTo, Exists
  <2>2. CASE Flush(r)
    BY <1>0, <1>1, <2>2 DEF AloneOK, Flush, GoTo, Exists, PhaseOK
  <2>3. QED
    BY <2>1, <2>2
<1>5. SentOK(r)'
  <2>1. op[r] \in Saves
    BY <1>0 DEF Create, Flush, GoTo, PhaseOK, Saves
  <2>2. QED
    BY <1>0, <1>1, <1>2, <1>3, <2>1 DEF SentOK, Savers
<1>6. SavesOwn(r)'
  BY <1>1, <1>2 DEF SavesOwn
<1>7. QED
  BY <1>1, <1>3, <1>4, <1>5, <1>6 DEF Savers

(* A step is the end of a request, or begins a save, or leaves the columns *)
(* and the metadata_modified of r as they are.                             *)
LEMMA StepKinds ==
  ASSUME Typed, NEW r \in Requests, Step(r)
  PROVE  \/ Create(r) \/ Flush(r)
         \/ pc'[r] \in Ends
         \/ /\ sent' = sent /\ pc'[r] \notin Ends
            /\ pc[r] \notin Ends
<1>0. r \in DOMAIN pc
  BY DEF Typed, TypeOK
<1>1. CASE NotFound(r) \/ Commit(r) \/ RowGone(r) \/ Fail(r)
  BY <1>0, <1>1 DEF NotFound, Commit, RowGone, Fail, Leave, GoTo, Set, Ends
<1>2. CASE Update(r) \/ Load(r) \/ Delete(r) \/ Lock(r) \/ ReadMembers(r) \/ Join(r) \/ Build(r)
  BY <1>0, <1>2 DEF Update, Load, Delete, Lock, ReadMembers, Join, Build, GoTo, Set, Ends
<1>3. CASE Show(r)
  BY <1>0, <1>3 DEF Show, GoTo, Set, Ends
<1>4. CASE WriteIndex(r)
  BY <1>0, <1>4 DEF WriteIndex, Leave, GoTo, Set, Ends
<1>5. QED
  BY <1>1, <1>2, <1>3, <1>4 DEF Step

(* A request that has failed takes no step. *)
LEMMA FailedStays ==
  ASSUME Typed, NEW r \in Requests, Step(r)
  PROVE  pc[r] # "failed"
BY DEF Step, NotFound, Create, Update, Load, Delete, Lock, Show, ReadMembers,
       Flush, Join, Build, WriteIndex, Commit, RowGone, Fail, Leave, GoTo

(* A metadata_modified that no row had comes into use by the commit of the *)
(* saver that has it.                                                      *)
LEMMA UsedStep ==
  ASSUME ShowInv, NEW r \in Requests, Step(r), NEW s,
         ~Used(s, committed), Used(s, committed')
  PROVE  Commit(r) /\ r \in Savers /\ s = obj[r]["stamp"]
<1>1. Commit(r)
  BY Unshared
<1>2. QED
  BY <1>1, CommitRow DEF Used

(* What package_show can answer with, it can go on answering with.         *)
LEMMA AnswerKept ==
  ASSUME ShowInv, NEW r \in Requests, Step(r), NEW x,
         Answer(x, committed, Savers, obj, sent, pc)
  PROVE  Answer(x, committed', Savers', obj', sent', pc')
<1>0. Typed /\ committed \subseteq committed'
  BY RowsStep DEF ShowInv
<1>1. CASE FromRows(x, committed)
  BY <1>0, <1>1 DEF Answer, FromRows
<1>2. CASE Left(x["stamp"], pc, sent)
  <2>1. PICK q \in Requests : pc[q] = "failed" /\ sent[q] = x["stamp"]
    BY <1>2 DEF Left
  <2>2. q # r
    BY <1>0, <2>1, FailedStays
  <2>3. QED
    BY <1>0, <2>1, <2>2, Others DEF Left, Answer
<1>3. CASE OfSender(x, Savers, obj, sent)
  <2>1. PICK q \in Savers : sent[q] # Nobody /\ x = obj[q]
    BY <1>3 DEF OfSender
  <2>2. CASE q # r
    BY <1>0, <2>1, <2>2, Others, OtherSavers DEF OfSender, Answer, Savers
  <2>3. CASE q = r
    <3>1. CASE r \in Savers' /\ UNCHANGED <<obj, sent>>
      BY <2>1, <2>3, <3>1 DEF OfSender, Answer
    <3>2. CASE Commit(r)
      BY <2>1, <2>3, <3>2, CommitRow DEF Answer
    <3>3. CASE pc'[r] = "failed" /\ sent' = sent
      <4>1. sent[r] = x["stamp"]
        BY <2>1, <2>3 DEF ShowInv, SaveOK, SentOK, Savers
      <4>2. QED
        BY <3>3, <4>1 DEF Answer, Left
    <3>4. QED
      BY <1>0, <2>1, <2>3, <3>1, <3>2, <3>3, SaverSteps
  <2>4. QED
    BY <2>2, <2>3
<1>4. QED
  BY <1>1, <1>2, <1>3 DEF Answer

(* What is about to be written to the index. *)
LEMMA BuiltStep ==
  ASSUME ShowInv, NEW r \in Requests, Step(r)
  PROVE  DocOf(built'[r], r, committed', Savers', obj')
<1>0. /\ Typed /\ r \in DOMAIN pc /\ r \in DOMAIN built /\ PhaseOK(r) /\ op' = op
      /\ committed \subseteq committed' /\ DocOf(built[r], r, committed, Savers, obj)
  BY Others, RowsStep DEF ShowInv, SaveOK, Typed, TypeOK, Doms
<1>1. CASE Build(r)
  <2>1. built'[r] = IndexDoc(obj[r], Planned(r)) /\ UNCHANGED obj
        /\ pc[r] = "build" /\ pc'[r] = "index"
    BY <1>0, <1>1 DEF Build, GoTo, Set
  <2>2. CASE op[r] \in Saves
    <3>1. r \in Savers'
      BY <1>0, <2>1, <2>2 DEF Savers
    <3>2. QED
      BY <2>1, <3>1 DEF IndexDoc, DocOf
  <2>3. CASE op[r] \notin Saves
    <3>1. r \in Readers
      BY <1>0, <2>1, <2>3 DEF Readers, PhaseOK
    <3>2. FromRows(obj[r], committed')
      BY <1>0, <3>1 DEF ShowInv, FromRows
    <3>3. QED
      BY <2>1, <3>2 DEF IndexDoc, DocOf
  <2>4. QED
    BY <2>2, <2>3
<1>2. CASE built'[r] = NoDoc
  BY <1>2 DEF DocOf
<1>3. CASE built'[r] = built[r] /\ r \in Savers /\ ~Build(r)
  <2>1. (r \in Savers' /\ UNCHANGED obj) \/ built'[r] = NoDoc
    BY <1>0, <1>3, SaverSteps DEF Commit, RowGone, Fail, Leave, Set
  <2>2. QED
    BY <1>0, <1>2, <1>3, <2>1 DEF DocOf, FromRows
<1>4. CASE built'[r] = built[r] /\ r \notin Savers
  BY <1>0, <1>4 DEF DocOf, FromRows
<1>5. built'[r] \in {built[r], NoDoc} \/ Build(r)
  BY <1>0 DEF Step, NotFound, Create, Update, Load, Delete, Lock,
     Show, ReadMembers, Flush, Join, WriteIndex, Commit, RowGone, Fail,
     Leave, Set, local
<1>6. QED
  BY <1>1, <1>2, <1>3, <1>4, <1>5

(* The document in the index. *)
LEMMA DocStep ==
  ASSUME ShowInv, NEW r \in Requests, Step(r)
  PROVE  DocOK'
<1>0. Typed /\ committed \subseteq committed' /\ SaveOK(r)
  BY RowsStep DEF ShowInv
<1>1. CASE WriteIndex(r)
  <2>1. doc' = built[r] /\ UNCHANGED committed /\ DocOf(built[r], r, committed, Savers, obj)
    BY <1>0, <1>1 DEF WriteIndex, SaveOK
  <2>2. CASE r \in Savers /\ built[r].row = obj[r]
    <3>1. r \in Savers' /\ UNCHANGED <<obj, sent>>
      BY <1>0, <1>1, <2>2, SaverSteps DEF Commit, RowGone, Fail, WriteIndex,
         Leave, GoTo, Typed, TypeOK, Set
    <3>2. QED
      BY <1>0, <2>1, <2>2, <3>1
         DEF DocOK, SaveOK, SentOK, Answer, OfSender, Savers
  <2>3. QED
    BY <2>1, <2>2 DEF DocOf, DocOK, Answer
<1>2. CASE Commit(r) /\ r \in Savers
  <2>1. doc' = doc /\ pc[r] = "commit" /\ FromRows(obj[r], committed')
    BY <1>2, CommitRow
  <2>2. DocOf(doc, r, committed, Savers, obj)
    BY <1>0, <1>2, <2>1 DEF SaveOK
  <2>3. QED
    BY <1>0, <2>1, <2>2 DEF DocOf, DocOK, Answer, FromRows
<1>3. CASE ~WriteIndex(r) /\ ~(Commit(r) /\ r \in Savers)
  <2>1. doc' = doc
    BY <1>3, Unshared
  <2>2. ~Used(doc.row["stamp"], committed) => ~Used(doc.row["stamp"], committed')
    BY <1>3, UsedStep
  <2>3. Answer(doc.row, committed, Savers, obj, sent, pc)
          => Answer(doc.row, committed', Savers', obj', sent', pc')
    BY AnswerKept
  <2>4. QED
    BY <2>1, <2>2, <2>3 DEF ShowInv, DocOK
<1>4. QED
  BY <1>1, <1>2, <1>3

(* A commit takes the lock of the row, but for a delete of what is already *)
(* deleted.                                                                *)
LEMMA LockKept ==
  ASSUME ShowInv, NEW r \in Requests, Step(r), NEW q \in Requests, q # r,
         lock = q, Exists
  PROVE  lock' = q /\ Exists'
<1>1. lock' = q
  BY NobodyAssumption
     DEF Step, NotFound, Create, Update, Load, Delete, Lock, Show,
         ReadMembers, Flush, Join, Build, WriteIndex, Commit, RowGone, Fail,
         Leave
<1>2. CASE Commit(r)
  <2>1. dirty[r] = {} /\ row' = Merged(r) /\ "state" \in Fields
    BY <1>2, NobodyAssumption DEF Commit, Fields
  <2>2. QED
    BY <1>1, <2>1 DEF Merged, Exists
<1>3. CASE ~Commit(r)
  BY <1>1, <1>3, Unshared DEF Exists
<1>4. QED
  BY <1>2, <1>3

(* A step of r keeps what is known of the saves of other requests. *)
LEMMA OtherSaves ==
  ASSUME ShowInv, NEW r \in Requests, Step(r), NEW q \in Requests, q # r
  PROVE  SaveOK(q)'
<1>0. /\ Typed /\ SaveOK(q) /\ op' = op /\ pc'[q] = pc[q] /\ obj'[q] = obj[q]
      /\ dirty'[q] = dirty[q] /\ built'[q] = built[q] /\ sent'[q] = sent[q]
      /\ (q \in Savers' <=> q \in Savers) /\ committed \subseteq committed'
      /\ clock \in Nat /\ clock' \in Nat /\ clock <= clock'
  <2>1. clock' = clock \/ clock <= clock'
    BY Unshared, BeginStep
  <2>2. clock \in Nat /\ clock' \in Nat
    BY StepTyped DEF ShowInv, Typed, TypeOK
  <2>3. QED
    BY <2>1, <2>2, Others, OtherSavers, RowsStep DEF ShowInv
<1>1. AloneOK(q)'
  <2>1. CASE op[q] = "create" /\ pc[q] \in {"start", "build", "index", "commit"} /\ Exists'
    BY <1>0, <2>1, BackByCreate DEF ShowInv, OneCreate, SaveOK, AloneOK
  <2>2. CASE q \in Savers /\ op[q] # "create"
    BY <1>0, <2>2, LockKept DEF SaveOK, AloneOK
  <2>3. QED
    BY <1>0, <2>1, <2>2 DEF AloneOK
<1>2. SentOK(q)'
  <2>1. ASSUME q \in Savers, ~Used(obj[q]["stamp"], committed)
        PROVE  ~Used(obj[q]["stamp"], committed')
    <3>1. ~(Commit(r) /\ r \in Savers)
      BY <2>1, OneSaver
    <3>2. QED
      BY <2>1, <3>1, UsedStep
  <2>2. q \in Savers => obj[q]["stamp"] \in Nat
    BY <1>0, TypedParts DEF LocalOK, IsRow
  <2>3. QED
    BY <1>0, <2>1, <2>2 DEF SaveOK, SentOK
<1>3. SavesOwn(q)'
  BY <1>0 DEF SaveOK, SavesOwn
<1>4. DocOf(built[q], q, committed', Savers', obj')
  BY <1>0 DEF SaveOK, DocOf, FromRows
<1>5. ASSUME q \in Savers, pc[q] = "commit"
      PROVE  DocOf(doc', q, committed', Savers', obj')
  <2>1. CASE WriteIndex(r)
    <3>1. doc' = built[r] /\ DocOf(built[r], r, committed, Savers, obj)
      BY <2>1 DEF WriteIndex, ShowInv, SaveOK
    <3>2. r \notin Savers
      BY <1>5, OneSaver
    <3>3. QED
      BY <1>0, <3>1, <3>2 DEF DocOf, FromRows
  <2>2. CASE ~WriteIndex(r)
    <3>1. doc' = doc
      BY <2>2, Unshared
    <3>2. QED
      BY <1>0, <1>5, <3>1 DEF SaveOK, DocOf, FromRows
  <2>3. QED
    BY <2>1, <2>2
<1>6. QED
  BY <1>0, <1>1, <1>2, <1>3, <1>4, <1>5 DEF SaveOK

(* A step of r keeps what is known of its save. *)
LEMMA OwnSave ==
  ASSUME ShowInv, NEW r \in Requests, Step(r)
  PROVE  SaveOK(r)'
<1>0. /\ Typed /\ SaveOK(r) /\ op' = op /\ r \in DOMAIN pc /\ r \in DOMAIN sent
      /\ PhaseOK(r) /\ DocOf(built'[r], r, committed', Savers', obj')
  BY Others, BuiltStep DEF ShowInv, Typed, TypeOK
<1>1. CASE Create(r) \/ Flush(r)
  BY <1>0, <1>1, BeginStep DEF SaveOK
<1>2. CASE r \in Savers /\ (Build(r) \/ WriteIndex(r)) /\ r \in Savers'
           /\ UNCHANGED <<obj, dirty, sent, lock>>
  <2>1. UNCHANGED <<row, committed, clock>>
    BY <1>2 DEF Build, WriteIndex
  <2>2. AloneOK(r)' /\ SentOK(r)' /\ SavesOwn(r)'
    <3>1. pc[r] \in {"build", "index", "commit"}
      BY <1>2 DEF Savers
    <3>2. QED
      BY <1>0, <1>2, <2>1, <3>1 DEF SaveOK, AloneOK, SentOK, SavesOwn, Exists
  <2>3. pc'[r] = "commit" => doc' = built[r] /\ built' = built
    BY <1>0, <1>2 DEF Build, WriteIndex, Leave, GoTo, Set, local
  <2>4. QED
    BY <1>0, <2>2, <2>3 DEF SaveOK
<1>3. ASSUME r \notin Savers', ~Create(r), ~Flush(r)
      PROVE  SaveOK(r)'
  <2>1. AloneOK(r)'
    <3>1. op[r] = "create" => pc'[r] \notin {"start", "build", "index", "commit"}
      <4>1. op[r] = "create" /\ pc'[r] = "start" => FALSE
        BY <1>0, <1>3 DEF Step, NotFound, Update, Load, Delete, Lock, Show,
           ReadMembers, Join, Build, WriteIndex, Commit, RowGone, Fail,
           Leave, GoTo, Set
      <4>2. QED
        BY <1>0, <1>3, <4>1 DEF Savers, Saves
    <3>2. QED
      BY <1>0, <1>3, <3>1 DEF AloneOK
  <2>2. SentOK(r)'
    <3>1. CASE pc'[r] \in Ends \ {"failed"}
      <4>1. sent'[r] = Nobody
        <5>1. CASE Show(r)
          BY <1>0, <3>1, <5>1, StepKinds DEF Show, GoTo, Set, SaveOK, SentOK, Savers, Ends
        <5>2. CASE ~Show(r)
          BY <1>0, <1>3, <3>1, <5>2 DEF Step, NotFound, Update, Load, Delete, Lock,
             ReadMembers, Join, Build, WriteIndex, Commit, RowGone, Fail, Leave,
             GoTo, Set, Ends
        <5>3. QED
          BY <5>1, <5>2
      <4>2. QED
        BY <1>3, <4>1 DEF SentOK
    <3>2. CASE pc'[r] = "failed"
      BY <1>3, <3>2 DEF SentOK
    <3>3. CASE pc'[r] \notin Ends
      <4>1. sent' = sent /\ pc[r] \notin Ends
        BY <1>0, <1>3, <3>3, StepKinds
      <4>2. r \notin Savers
        BY <1>0, <1>3, <3>3, SaverSteps DEF Commit, Leave, GoTo, Set, Ends
      <4>3. QED
        BY <1>0, <1>3, <4>1, <4>2 DEF SaveOK, SentOK, Ends
    <3>4. QED
      BY <3>1, <3>2, <3>3
  <2>3. SavesOwn(r)'
    BY <1>3 DEF SavesOwn
  <2>4. QED
    BY <1>0, <1>3, <2>1, <2>2, <2>3 DEF SaveOK
<1>4. QED
  BY <1>0, <1>1, <1>2, <1>3, SaverSteps, SaverBegins

(* A delete writes the state of the row and nothing else. *)
LEMMA DeletesStep ==
  ASSUME ShowInv, NEW r \in Requests, Step(r)
  PROVE  \A q \in Requests : op'[q] = "delete" /\ pc'[q] \in {"index", "commit"}
                               => dirty'[q] \subseteq {"state"}
<1>0. /\ Typed /\ op'[r] = op[r] /\ r \in DOMAIN pc /\ r \in DOMAIN dirty
      /\ PhaseOK(r)
  BY Others DEF ShowInv, Typed, TypeOK, Doms
<1> SUFFICES ASSUME op[r] = "delete", pc'[r] \in {"index", "commit"}
             PROVE  dirty'[r] \subseteq {"state"}
  BY <1>0, Others DEF ShowInv
<1>1. CASE Delete(r)
  BY <1>0, <1>1 DEF Delete, Set
<1>2. CASE WriteIndex(r)
  <2>1. pc[r] = "index" /\ UNCHANGED dirty
    BY <1>2 DEF WriteIndex, GoTo, local
  <2>2. QED
    BY <2>1 DEF ShowInv
<1>3. CASE NotFound(r) \/ Commit(r) \/ RowGone(r) \/ Fail(r)
  BY <1>0, <1>3 DEF NotFound, Commit, RowGone, Fail, Leave, GoTo, Set
<1>4. ~Create(r) /\ ~Update(r) /\ ~Load(r) /\ ~Lock(r) /\ ~Show(r)
      /\ ~ReadMembers(r) /\ ~Flush(r) /\ ~Join(r) /\ ~Build(r)
  BY <1>0 DEF Create, Update, Load, Lock, Show, ReadMembers, Flush, Join,
              Build, GoTo, PhaseOK, Saves
<1>5. QED
  BY <1>1, <1>2, <1>3, <1>4 DEF Step

(* package_show answers a request whose object is a committed row with     *)
(* that row, or with a document that has its metadata_modified.            *)
LEMMA ShownAnswer ==
  ASSUME ShowInv, NEW o \in committed
  PROVE  Answer(Shown(o).row, committed, Savers, obj, sent, pc)
<1>1. CASE Cached(o)
  <2>1. doc # NoDoc /\ Used(doc.row["stamp"], committed)
    BY <1>1 DEF Cached, Used
  <2>2. QED
    BY <1>1, <2>1 DEF ShowInv, DocOK, Shown
<1>2. CASE ~Cached(o)
  BY <1>2 DEF Shown, Answer, FromRows
<1>3. QED
  BY <1>1, <1>2

(* A request that has been shown the dataset was so by package_show.       *)
LEMMA AnsweredBy ==
  ASSUME Typed, NEW r \in Requests, PhaseOK(r), Step(r), Answered(r)'
  PROVE  /\ pc[r] = "lookup" /\ r \in Readers /\ dict'[r] = Shown(obj[r])
<1>0. op[r] = "show" /\ pc'[r] = "done" /\ r \in DOMAIN pc /\ r \in DOMAIN dict
  BY Others DEF Answered, Typed, TypeOK, Doms
<1>1. Show(r)
  <2>1. ~WriteIndex(r) /\ ~Commit(r)
    BY <1>0 DEF WriteIndex, Commit, Leave, GoTo, PhaseOK, Saves
  <2>2. QED
    BY <1>0, <2>1 DEF Step, NotFound, Create, Update, Load, Delete,
       Lock, ReadMembers, Flush, Join, Build, RowGone, Fail, Leave, GoTo, Set
<1>2. QED
  BY <1>0, <1>1 DEF Show, GoTo, Set, Readers

(* What package_show has answered stays what it can answer.                *)
LEMMA AnswersKept ==
  ASSUME ShowInv, NEW r \in Requests, Step(r), NEW q \in Requests, Answered(q)'
  PROVE  Answer(dict'[q].row, committed', Savers', obj', sent', pc')
<1>0. Typed /\ op' = op /\ PhaseOK(r)
  BY Others DEF ShowInv
<1>1. CASE q # r
  <2>1. Answered(q) /\ dict'[q] = dict[q]
    BY <1>0, <1>1, Others DEF Answered
  <2>2. QED
    BY <2>1, AnswerKept DEF ShowInv
<1>2. CASE q = r
  <2>1. obj[r] \in committed /\ dict'[r] = Shown(obj[r])
    BY <1>0, <1>2, AnsweredBy DEF ShowInv
  <2>2. QED
    BY <1>2, <2>1, ShownAnswer, AnswerKept
<1>3. QED
  BY <1>1, <1>2

LEMMA ShowInvStep ==
  ASSUME ShowInv, NEW r \in Requests, Step(r)
  PROVE  ShowInv'
<1>1. Typed' /\ PurgesAll' /\ OneCreate' /\ \A q \in Requests : PhaseOK(q)'
  BY StepTyped, PurgesAllStep, PhaseStep, Others DEF ShowInv, OneCreate
<1>2. Rows'
  <2>1. row' \in committed' /\ committed \subseteq committed'
    BY RowsStep
  <2>2. clock \in Nat /\ clock' \in Nat /\ clock <= clock'
        /\ \A v \in committed' : v["stamp"] \in Nat
    <3>1. clock' = clock \/ clock <= clock'
      BY Unshared, BeginStep
    <3>2. QED
      BY <1>1, <3>1 DEF ShowInv, Typed, TypeOK, IsRow
  <2>3. \A v \in committed' : v \in committed \/ v["stamp"] <= clock
    BY Unshared, CommitRow
  <2>4. \A v \in committed' : v["stamp"] <= clock'
    BY <2>2, <2>3 DEF ShowInv, Rows
  <2>5. QED
    BY <2>1, <2>4 DEF ShowInv, Rows, Used
<1>3. \A q \in Requests : SaveOK(q)'
  BY OwnSave, OtherSaves
<1>4. QED
  BY <1>1, <1>2, <1>3, ReadersStep, DocStep, DeletesStep, AnswersKept DEF ShowInv

LEMMA InitShowInv == Init => ShowInv
<1> SUFFICES ASSUME Init PROVE ShowInv
  OBVIOUS
<1>1. Typed
  BY InitTyped
<1>2. Savers = {} /\ Readers = {} /\ \A q \in Requests : PhaseOK(q) /\ pc[q] = "start"
  BY DEF Init, Savers, Readers, PhaseOK
<1>3. row["stamp"] = 0 /\ Rows
  BY RowOfIs DEF Init, Rows, NoRow, Used
<1>4. DocOK
  BY DEF Init, IndexDoc, DocOK, FromRows, Answer
<1>5. \A q \in Requests : op[q] = "create" => ~Exists
  BY RowOfIs DEF Init, Exists, NoRow
<1>6. \A q \in Requests : SaveOK(q)
  BY <1>2, <1>5 DEF Init, SaveOK, AloneOK, SentOK, SavesOwn, DocOf
<1>7. QED
  BY <1>1, <1>2, <1>3, <1>4, <1>6
     DEF Init, ShowInv, PurgesAll, Purging, OneCreate, Answered

(* A step that stutters keeps the invariant too.                           *)
LEMMA ShowInvKept ==
  ASSUME ShowInv, UNCHANGED vars
  PROVE  ShowInv'
<1>1. Typed'
  BY TypedInductive DEF ShowInv
<1>2. Savers' = Savers /\ Readers' = Readers
  BY DEF vars, Savers, Readers
<1>3. ASSUME NEW q \in Requests PROVE SaveOK(q)'
  BY <1>2 DEF vars, local, ShowInv, SaveOK, AloneOK, SentOK, SavesOwn, Exists
<1>4. QED
  BY <1>1, <1>2, <1>3 DEF vars, local, ShowInv, PurgesAll, Purging, Rows,
     PhaseOK, OneCreate, DocOK, Answered

(* What can be answered has committed values, but where a save sent its    *)
(* metadata_modified.                                                      *)
LEMMA AnswersCommitted ==
  ASSUME ShowInv
  PROVE  ShowsNothingUncommitted
<1> SUFFICES ASSUME NEW r \in Requests, Answered(r), ~Resent(dict[r].row["stamp"])
             PROVE  FromRows(dict[r].row, committed)
  BY DEF ShowsNothingUncommitted, FromRows
<1>1. Answer(dict[r].row, committed, Savers, obj, sent, pc)
  BY DEF ShowInv
<1>2. ~Left(dict[r].row["stamp"], pc, sent)
  BY DEF Left, Resent
<1>3. ~OfSender(dict[r].row, Savers, obj, sent)
  BY DEF OfSender, Resent, ShowInv, SaveOK, SentOK, Savers
<1>4. QED
  BY <1>1, <1>2, <1>3 DEF Answer

(* package_show never answers with a value that was not committed, for any *)
(* mixture of operations, failures and concurrent requests, whether saves  *)
(* send a metadata_modified or not, unless the one it shows was sent by a  *)
(* save that is under way or has failed.                                   *)
THEOREM ShowsCommittedValues == Spec => []ShowsNothingUncommitted
<1>1. ShowInv /\ [Next]_vars => ShowInv'
  BY ShowInvStep, ShowInvKept DEF Next
<1>2. QED
  BY InitShowInv, AnswersCommitted, <1>1, PTL DEF Spec

-----------------------------------------------------------------------------
(* Requests that lock the row from their first read                        *)
(*                                                                         *)
(* One request at a time is then between its first read and its commit.    *)
(* The row it has read is still the row when it commits, so what it has    *)
(* indexed is what it commits.  A document that a failed request left in   *)
(* the index has a metadata_modified that no row has, or that it was sent. *)

\* Request r is between its first read, or the INSERT of a new row, and its
\* commit.
Holds(r) ==
  \/ /\ op[r] = "patch"
     /\ pc[r] \in {"lookup", "members", "flush", "build", "index", "commit"}
  \/ op[r] = "create" /\ pc[r] \in {"build", "index", "commit"}

\* A patch holds the lock, and a create makes the first row.
HasRow(r) ==
  /\ op[r] = "patch" /\ Holds(r) => lock = r /\ Exists
  /\ op[r] = "create" /\ pc[r] \in {"start", "build", "index", "commit"}
       => ~Exists

\* Another save that was sent the metadata_modified of the row has failed.
Excused(r) ==
  \E q \in Requests \ {r} : pc[q] = "failed" /\ sent[q] = row["stamp"]

\* What a patch works with, up to its flush.
HasRead(r) ==
  op[r] = "patch" =>
    /\ pc[r] \in {"lookup", "members", "flush"} => obj[r] = row
    /\ pc[r] \in {"members", "flush"} =>
         Excused(r) \/ \A c \in Cols : dict[r].row[c] \in {row[c], r}

\* What a request writes when it commits, and what it has indexed before.
HasSaved(r) ==
  /\ r \in Savers =>
       /\ Merged(r) = obj[r]
       /\ op[r] = "patch" => Excused(r) \/ \A c \in Cols : obj[r][c] \in {row[c], r}
  /\ pc[r] \in {"index", "commit"} => built[r] = IndexDoc(obj[r], Planned(r))
  /\ pc[r] = "commit" => doc = built[r]

HolderOK(r) == HasRow(r) /\ HasRead(r) /\ HasSaved(r)

\* x is a committed row, or one that a save shows with a metadata_modified
\* that it was sent.
WholeRow(x, com, sv, o, se, p) ==
  x \in com \/ OfSender(x, sv, o, se) \/ Left(x["stamp"], p, se)

\* A document with the metadata_modified of a row that was committed is of
\* such a row; with that of the last row, of the last row.
CacheOK ==
  /\ \/ doc = NoDoc \/ ~Used(doc.row["stamp"], committed)
     \/ WholeRow(doc.row, committed, Savers, obj, sent, pc)
  /\ doc # NoDoc /\ doc.row["stamp"] = row["stamp"] =>
       WholeRow(doc.row, {row}, Savers, obj, sent, pc)

\* Who left the index as it is.
LeftInSync == InSync \/ \E r \in Requests : pc[r] \in {"commit", "failed"}

LockInv ==
  /\ \A r \in Requests : HolderOK(r)
  /\ CacheOK
  /\ LeftInSync
  /\ \A r \in Requests : Answered(r) =>
       WholeRow(dict[r].row, committed, Savers, obj, sent, pc)

(* Among requests that lock the row there are no others but these.         *)
LEMMA LockedSteps ==
  ASSUME ShowInv, RowLocked, NEW r \in Requests, Step(r)
  PROVE  /\ op' = op /\ op[r] \in {"create", "patch", "show"}
         /\ \/ NotFound(r) \/ RowGone(r) \/ Fail(r)
            \/ Create(r) /\ op[r] = "create"
            \/ Load(r) /\ op[r] = "show"
            \/ Lock(r) /\ op[r] = "patch"
            \/ Show(r) /\ op[r] \in {"patch", "show"}
            \/ (ReadMembers(r) \/ Flush(r)) /\ op[r] = "patch"
            \/ Build(r) /\ op[r] \in {"create", "patch"}
            \/ WriteIndex(r) /\ op[r] \in {"create", "patch"}
            \/ Commit(r) /\ op[r] \in {"create", "patch"}
<1>1. op' = op /\ op[r] \in {"create", "patch", "show"} /\ PhaseOK(r)
  BY Others DEF ShowInv, RowLocked
<1>2. ~Update(r) /\ ~Delete(r) /\ ~Join(r)
  BY <1>1 DEF Update, Delete, Join, GoTo, PhaseOK
<1>3. Load(r) => op[r] = "show"
  BY <1>1 DEF Load
<1>4. Lock(r) => op[r] = "patch"
  BY <1>1 DEF Lock
<1>5. Show(r) => op[r] \in {"patch", "show"}
  BY <1>1 DEF Show
<1>6. ReadMembers(r) \/ Flush(r) => op[r] = "patch"
  BY <1>1 DEF ReadMembers, Flush, GoTo, PhaseOK, Saves
<1>7. Build(r) => op[r] \in {"create", "patch"}
  BY <1>1 DEF Build, GoTo, PhaseOK, Saves
<1>8. WriteIndex(r) => op[r] \in {"create", "patch"}
  BY <1>1 DEF WriteIndex, Leave, GoTo, PhaseOK, Saves
<1>9. Commit(r) => op[r] \in {"create", "patch"}
  BY <1>1 DEF Commit, Leave, GoTo, PhaseOK, Saves
<1>10. Create(r) => op[r] = "create"
  BY DEF Create
<1> QED BY <1>1, <1>2, <1>3, <1>4, <1>5, <1>6, <1>7, <1>8, <1>9, <1>10 DEF Step

(* No two requests are between their first read and their commit.          *)
LEMMA OneHolder ==
  ASSUME ShowInv, LockInv, NEW r \in Requests, NEW q \in Requests, Holds(r), Holds(q)
  PROVE  q = r
BY DEF ShowInv, LockInv, OneCreate, HolderOK, HasRow, Holds

(* The request that commits, or writes to the index, is the one.           *)
LEMMA SaverHolds ==
  ASSUME ShowInv, RowLocked, NEW q \in Requests,
         q \in Savers \/ pc[q] \in {"index", "commit"}
  PROVE  Holds(q) /\ q \in Savers
BY DEF ShowInv, RowLocked, PhaseOK, Savers, Holds, Saves

(* A step of one request leaves what the others know as it is.             *)
LEMMA OthersHold ==
  ASSUME ShowInv, LockInv, RowLocked, NEW r \in Requests, Step(r),
         NEW q \in Requests, q # r
  PROVE  HolderOK(q)'
<1>0. Typed /\ HolderOK(q)
  BY DEF ShowInv, LockInv
<1>1. /\ op' = op /\ pc'[q] = pc[q] /\ obj'[q] = obj[q]
      /\ dict'[q] = dict[q] /\ dirty'[q] = dirty[q] /\ built'[q] = built[q]
  BY <1>0, Others
<1>2. plan'[q] = plan[q] /\ (UNCHANGED row => (Excused(q) => Excused(q)'))
  BY <1>0, Others, FailedStays DEF Excused
<1>3. lock = q => lock' = q
  BY NobodyAssumption
     DEF Step, NotFound, Create, Update, Load, Delete, Lock, Show,
         ReadMembers, Flush, Join, Build, WriteIndex, Commit, RowGone, Fail,
         Leave
<1>4. ~Join(r)
  BY LockedSteps DEF Join, RowLocked, ShowInv, PhaseOK, GoTo
<1>5. q \in Savers' <=> q \in Savers
  BY <1>1 DEF Savers
<1>6. CASE Commit(r)
  <2>1. Holds(r) /\ ~Holds(q)
    BY <1>6, OneHolder, SaverHolds DEF Commit, Leave, GoTo
  <2>2. ~(op[q] = "create" /\ pc[q] = "start")
    BY <1>0, <1>6, <2>1, LockedSteps DEF ShowInv, LockInv, OneCreate, HolderOK, HasRow, Holds
  <2>3. q \notin Savers /\ pc[q] \notin {"index", "commit"}
    BY <2>1, SaverHolds
  <2> QED BY <1>1, <1>5, <2>1, <2>2, <2>3
          DEF HolderOK, HasRow, HasRead, HasSaved, Holds
<1>7. CASE WriteIndex(r)
  <2>1. pc[q] # "commit"
    BY <1>7, OneHolder, SaverHolds DEF WriteIndex, Leave, GoTo
  <2>2. UNCHANGED <<row, groups>>
    BY <1>7 DEF WriteIndex
  <2> QED BY <1>0, <1>1, <1>2, <1>3, <1>5, <2>1, <2>2
          DEF HolderOK, HasRow, HasRead, HasSaved, Holds, Exists, Merged, Planned
<1>8. CASE ~Commit(r) /\ ~WriteIndex(r)
  <2>1. UNCHANGED <<row, groups, doc>>
    BY <1>4, <1>8, Unshared
  <2> QED BY <1>0, <1>1, <1>2, <1>3, <1>5, <2>1
          DEF HolderOK, HasRow, HasRead, HasSaved, Holds, Exists, Merged, Planned
<1> QED BY <1>6, <1>7, <1>8

(* A patch that holds the lock is shown the row, unless a save that was    *)
(* sent its metadata_modified has failed.                                  *)
LEMMA ShownIsRow ==
  ASSUME ShowInv, LockInv, RowLocked, NEW r \in Requests, op[r] = "patch",
         pc[r] = "lookup", ~Excused(r)
  PROVE  \A c \in Cols : Shown(obj[r]).row[c] = row[c]
<1>0. obj[r] = row /\ Holds(r) /\ r \notin Savers
  BY DEF LockInv, HolderOK, HasRead, Holds, Savers
<1>1. CASE Cached(row)
  <2>1. doc # NoDoc /\ doc.row["stamp"] = row["stamp"]
    BY <1>1 DEF Cached
  <2>2. ~OfSender(doc.row, Savers, obj, sent)
    BY <1>0, OneHolder, SaverHolds DEF OfSender, Savers
  <2>3. ~Left(doc.row["stamp"], pc, sent)
    BY <2>1 DEF Left, Excused
  <2>4. doc.row = row
    BY <2>1, <2>2, <2>3 DEF LockInv, CacheOK, WholeRow
  <2> QED BY <1>0, <1>1, <2>4 DEF Shown
<1>2. CASE ~Cached(row)
  BY <1>0, <1>2 DEF Shown
<1> QED BY <1>1, <1>2

(* What has failed has failed. *)
LEMMA ExcusedKept ==
  ASSUME ShowInv, NEW r \in Requests, Step(r), UNCHANGED row, Excused(r)
  PROVE  Excused(r)'
BY Others DEF ShowInv, Excused

(* A patch has what it read and what it changes, and nothing else, in the  *)
(* row it flushes.                                                         *)
LEMMA FlushSaves ==
  ASSUME ShowInv, LockInv, RowLocked, NEW r \in Requests, Step(r), Flush(r),
         op[r] = "patch"
  PROVE  HolderOK(r)'
<1>1. /\ Typed /\ op'[r] = "patch" /\ pc[r] = "flush" /\ pc'[r] = "build"
      /\ UNCHANGED <<row, groups, doc, dict>> /\ lock' = r /\ Exists
  BY Others DEF ShowInv, Flush, GoTo, Set, Typed, TypeOK
<1>2. /\ obj[r] = row /\ IsRow(dict[r].row, States)
      /\ Excused(r) \/ \A c \in Cols : dict[r].row[c] \in {row[c], r}
  BY <1>1, TypedParts DEF LockInv, HolderOK, HasRead, LocalOK
<1>3. PICK s \in Sends(r) :
        /\ obj'[r] = [dict[r].row EXCEPT !["stamp"] = Stamp(s)]
        /\ dirty'[r] = {f \in Fields : obj'[r][f] # obj[r][f]}
  BY <1>1 DEF Flush, Set, Typed, Doms
<1>4. DOMAIN dict[r].row = Fields /\ Cols \subseteq Fields /\ "stamp" \notin Cols
  BY <1>2, ColsAssumption DEF IsRow, Fields
<1>5. Merged(r)' = obj'[r]
  <2>1. \A f \in Fields : ~(f \in dirty'[r]) => row[f] = obj'[r][f]
    BY <1>2, <1>3
  <2>2. Merged(r)' = [f \in Fields |-> obj'[r][f]]
    BY <1>1, <2>1 DEF Merged
  <2>3. obj'[r] = [f \in Fields |-> obj'[r][f]]
    BY <1>3, <1>4
  <2> QED BY <2>2, <2>3
<1>6. Excused(r)' \/ \A c \in Cols : obj'[r][c] \in {row'[c], r}
  BY <1>1, <1>2, <1>3, <1>4, ExcusedKept
<1> QED BY <1>1, <1>5, <1>6 DEF HolderOK, HasRow, HasRead, HasSaved, Exists

(* A step of a request keeps what it knows itself.                         *)
LEMMA OwnHolds ==
  ASSUME ShowInv, LockInv, RowLocked, NEW r \in Requests, Step(r)
  PROVE  HolderOK(r)'
<1>0. /\ Typed /\ HolderOK(r) /\ op'[r] = op[r]
      /\ r \in DOMAIN pc /\ r \in DOMAIN obj /\ r \in DOMAIN dict
      /\ r \in DOMAIN plan /\ r \in DOMAIN dirty /\ r \in DOMAIN built
  BY Others DEF ShowInv, LockInv, Typed, TypeOK, Doms
<1> USE DEF HolderOK, HasRow, HasRead, HasSaved, Savers, Saves, Holds
<1>1. CASE NotFound(r) \/ RowGone(r) \/ Fail(r) \/ Commit(r)
  <2>1. pc'[r] \in {"notfound", "failed", "done"}
    BY <1>0, <1>1 DEF NotFound, RowGone, Fail, Commit, Leave, GoTo, Set
  <2> QED BY <2>1
<1>2. CASE Create(r) /\ op[r] = "create"
  <2>1. /\ pc[r] = "start" /\ pc'[r] = "build" /\ UNCHANGED row /\ ~Exists
        /\ dirty'[r] = Fields
        /\ \E s \in Sends(r) : obj'[r] = RowOf("active", Stamp(s), r)
    BY <1>0, <1>2 DEF Create, GoTo, Set
  <2>2. Merged(r)' = [f \in Fields |-> obj'[r][f]]
    BY <2>1 DEF Merged
  <2>3. obj'[r] = [f \in Fields |-> obj'[r][f]]
    BY <2>1 DEF RowOf
  <2> QED BY <1>0, <1>2, <2>1, <2>2, <2>3 DEF Exists
<1>3. CASE Load(r) /\ op[r] = "show"
  <2>1. pc'[r] = "lookup"
    BY <1>0, <1>3 DEF Load, GoTo, Set
  <2> QED BY <1>0, <1>3, <2>1
<1>4. CASE Lock(r) /\ op[r] = "patch"
  <2>1. /\ pc'[r] = "lookup" /\ lock' = r /\ Exists /\ obj'[r] = row
        /\ UNCHANGED row
    BY <1>0, <1>4 DEF Lock, GoTo, Set
  <2> QED BY <1>0, <1>4, <2>1 DEF Exists
<1>5. CASE Show(r) /\ op[r] = "show"
  <2>1. pc'[r] = "done"
    BY <1>0, <1>5 DEF Show, GoTo, Set
  <2> QED BY <2>1
<1>6. CASE Show(r) /\ op[r] = "patch"
  <2>1. pc[r] = "lookup" /\ pc'[r] = "members" /\ UNCHANGED <<row, lock, obj>>
    BY <1>0, <1>6 DEF Show, GoTo, Set
  <2>2. PICK cs \in SUBSET Cols :
          dict'[r].row = Edited(Shown(obj[r]).row, cs, r)
    BY <1>0, <1>6 DEF Show, Set
  <2>3. obj[r] = row /\ row \in committed /\ Cols \subseteq Fields
    BY <1>0, <1>6, <2>1 DEF ShowInv, Rows, Fields
  <2>4. Excused(r) \/ \A c \in Cols : Shown(obj[r]).row[c] = row[c]
    BY <1>6, <2>1, ShownIsRow
  <2>5. Excused(r)' \/ \A c \in Cols : dict'[r].row[c] \in {row[c], r}
    BY <2>1, <2>2, <2>3, <2>4, ExcusedKept DEF Edited
  <2> QED BY <1>0, <1>6, <2>1, <2>3, <2>5 DEF Exists
<1>7. CASE ReadMembers(r) /\ op[r] = "patch"
  <2>1. /\ pc[r] = "members" /\ pc'[r] = "flush"
        /\ UNCHANGED <<row, lock, obj, dict>>
    BY <1>0, <1>7 DEF ReadMembers, GoTo, Set
  <2> QED BY <1>0, <1>7, <2>1, ExcusedKept DEF Exists
<1>8. CASE Flush(r) /\ op[r] = "patch"
  BY <1>8, FlushSaves
<1>9. CASE Build(r) /\ op[r] \in {"create", "patch"}
  <2>1. /\ pc[r] = "build" /\ pc'[r] = "index"
        /\ built'[r] = IndexDoc(obj[r], Planned(r))
        /\ UNCHANGED <<row, groups, lock, obj, dirty, plan>>
    BY <1>0, <1>9 DEF Build, GoTo, Set
  <2> QED BY <1>0, <1>9, <2>1, ExcusedKept DEF Exists, Merged, Planned
<1>10. CASE WriteIndex(r) /\ op[r] \in {"create", "patch"}
  <2>1. /\ pc[r] = "index" /\ pc'[r] = "commit" /\ doc' = built[r]
        /\ UNCHANGED <<row, groups, lock, obj, dirty, plan, built>>
    BY <1>0, <1>10 DEF WriteIndex, GoTo, Set, local
  <2> QED BY <1>0, <1>10, <2>1, ExcusedKept DEF Exists, Merged, Planned
<1> QED BY <1>1, <1>2, <1>3, <1>4, <1>5, <1>6, <1>7, <1>8, <1>9, <1>10,
           LockedSteps

(* What is the whole row of a save stays so: the save fails, or commits it.  *)
LEMMA SenderKept ==
  ASSUME ShowInv, LockInv, RowLocked, NEW r \in Requests, Step(r), NEW x,
         OfSender(x, Savers, obj, sent) \/ Left(x["stamp"], pc, sent)
  PROVE  \/ OfSender(x, Savers', obj', sent') \/ Left(x["stamp"], pc', sent')
         \/ Commit(r) /\ x = row'
<1>0. Typed
  BY DEF ShowInv
<1>1. CASE Left(x["stamp"], pc, sent)
  BY <1>0, <1>1, Others, FailedStays DEF Left
<1>2. CASE OfSender(x, Savers, obj, sent)
  <2>1. PICK q \in Savers : sent[q] # Nobody /\ x = obj[q]
    BY <1>2 DEF OfSender
  <2>2. CASE q # r
    BY <1>0, <2>1, <2>2, Others, OtherSavers DEF OfSender, Savers
  <2>3. CASE q = r /\ r \in Savers' /\ UNCHANGED <<obj, sent>>
    BY <2>1, <2>3 DEF OfSender
  <2>4. CASE q = r /\ Commit(r)
    BY <2>1, <2>4, CommitRow DEF LockInv, HolderOK, HasSaved
  <2>5. CASE q = r /\ pc'[r] = "failed" /\ sent' = sent
    <3>1. sent[r] = x["stamp"]
      BY <2>1, <2>5 DEF ShowInv, SaveOK, SentOK, Savers
    <3> QED BY <2>5, <3>1 DEF Left
  <2> QED BY <1>0, <2>1, <2>2, <2>3, <2>4, <2>5, SaverSteps
<1> QED BY <1>1, <1>2

(* A document never has the metadata_modified of another row, but for one  *)
(* that a save has sent and not committed.                                 *)
LEMMA CacheStep ==
  ASSUME ShowInv, LockInv, RowLocked, NEW r \in Requests, Step(r)
  PROVE  CacheOK'
<1>0. Typed /\ row \in committed
  BY DEF ShowInv, Rows
<1>1. CASE Commit(r)
  <2>1. /\ committed' = committed \cup {row'} /\ row' = Merged(r) /\ doc' = doc
        /\ pc[r] = "commit"
    BY <1>1 DEF Commit, Leave, GoTo
  <2>2. Merged(r) = obj[r] /\ doc = IndexDoc(obj[r], Planned(r))
    BY <2>1, SaverHolds DEF LockInv, HolderOK, HasSaved
  <2>3. doc' # NoDoc => doc'.row = row'
    BY <2>1, <2>2 DEF IndexDoc
  <2> QED BY <2>1, <2>3 DEF CacheOK, WholeRow
<1>2. CASE WriteIndex(r)
  <2>1. /\ UNCHANGED <<committed, row>> /\ doc' = built[r] /\ pc[r] = "index"
        /\ pc'[r] = "commit" /\ UNCHANGED <<obj, sent>>
    BY <1>0, <1>2, LockedSteps DEF WriteIndex, GoTo, Set, Typed, TypeOK, local
  <2>2. r \in Savers /\ doc' = IndexDoc(obj[r], Planned(r)) /\ SentOK(r)
    BY <2>1, SaverHolds DEF ShowInv, SaveOK, LockInv, HolderOK, HasSaved
  <2>3. doc' # NoDoc => doc'.row = obj[r]
    BY <2>2 DEF IndexDoc
  <2>4. r \in Savers'
    BY <2>1, <2>2, LockedSteps DEF Savers
  <2>5. ~Used(obj[r]["stamp"], committed) \/ OfSender(obj[r], Savers', obj', sent')
    BY <2>1, <2>2, <2>4 DEF SentOK, OfSender
  <2> QED BY <1>0, <2>1, <2>3, <2>5 DEF CacheOK, WholeRow, Used
<1>3. CASE ~Commit(r) /\ ~WriteIndex(r)
  <2>1. UNCHANGED <<row, committed, doc>>
    BY <1>3, Unshared
  <2>2. OfSender(doc.row, Savers, obj, sent) \/ Left(doc.row["stamp"], pc, sent) =>
          OfSender(doc.row, Savers', obj', sent') \/ Left(doc.row["stamp"], pc', sent')
    BY <1>3, SenderKept
  <2> QED BY <2>1, <2>2 DEF LockInv, CacheOK, WholeRow
<1> QED BY <1>1, <1>2, <1>3

(* A commit leaves the index in agreement with the dataset.                *)
LEMMA SyncStep ==
  ASSUME ShowInv, LockInv, RowLocked, NEW r \in Requests, Step(r)
  PROVE  LeftInSync'
<1>0. Typed /\ r \in DOMAIN pc /\ \A q \in Requests \ {r} : pc'[q] = pc[q]
  BY Others DEF ShowInv, Typed, TypeOK
<1>1. CASE Commit(r)
  <2>1. /\ row' = Merged(r) /\ groups' = Planned(r) /\ doc' = doc
        /\ pc[r] = "commit"
    BY <1>1 DEF Commit, Leave, GoTo
  <2>2. Merged(r) = obj[r] /\ doc = IndexDoc(obj[r], Planned(r))
    BY <2>1, SaverHolds DEF LockInv, HolderOK, HasSaved
  <2> QED BY <2>1, <2>2 DEF LeftInSync, InSync
<1>2. CASE WriteIndex(r)
  <2>1. pc'[r] = "commit"
    BY <1>0, <1>2, LockedSteps DEF WriteIndex, GoTo, Set
  <2> QED BY <2>1 DEF LeftInSync
<1>3. CASE Fail(r) \/ RowGone(r)
  <2>1. pc'[r] = "failed"
    BY <1>0, <1>3 DEF Fail, RowGone, Leave, GoTo, Set
  <2> QED BY <2>1 DEF LeftInSync
<1>4. CASE ~Commit(r) /\ ~WriteIndex(r) /\ ~Fail(r) /\ ~RowGone(r)
  <2>1. pc[r] \notin {"commit", "failed"}
    BY <1>4 DEF Step, NotFound, Create, Update, Load, Delete, Lock, Show,
                ReadMembers, Flush, Join, Build, GoTo
  <2>2. UNCHANGED <<row, groups, doc>>
    BY <1>4, Unshared, LockedSteps DEF Join, RowLocked, ShowInv, PhaseOK, GoTo
  <2> QED BY <1>0, <2>1, <2>2 DEF LockInv, LeftInSync, InSync
<1> QED BY <1>1, <1>2, <1>3, <1>4

(* What package_show has answered is a row that was committed, but for     *)
(* what a save has sent and not committed.                                 *)
LEMMA AnswersStep ==
  ASSUME ShowInv, LockInv, RowLocked, NEW r \in Requests, Step(r),
         NEW q \in Requests, Answered(q)'
  PROVE  WholeRow(dict'[q].row, committed', Savers', obj', sent', pc')
<1>0. /\ Typed /\ op' = op /\ PhaseOK(r) /\ committed \subseteq committed'
      /\ row' \in committed'
  BY Others, RowsStep DEF ShowInv
<1>1. ASSUME NEW x, WholeRow(x, committed, Savers, obj, sent, pc)
      PROVE  WholeRow(x, committed', Savers', obj', sent', pc')
  BY <1>0, <1>1, SenderKept DEF WholeRow
<1>2. CASE q # r
  <2>1. Answered(q) /\ dict'[q] = dict[q]
    BY <1>0, <1>2, Others DEF Answered
  <2> QED BY <1>1, <2>1 DEF LockInv
<1>3. CASE q = r
  <2>1. obj[r] \in committed /\ dict'[r] = Shown(obj[r])
    BY <1>0, <1>3, AnsweredBy DEF ShowInv
  <2>2. WholeRow(Shown(obj[r]).row, committed, Savers, obj, sent, pc)
    <3>1. CASE Cached(obj[r])
      <4>1. doc # NoDoc /\ Used(doc.row["stamp"], committed)
        BY <2>1, <3>1 DEF Cached, Used
      <4> QED BY <3>1, <4>1 DEF LockInv, CacheOK, Shown
    <3>2. CASE ~Cached(obj[r])
      BY <2>1, <3>2 DEF Shown, WholeRow
    <3> QED BY <3>1, <3>2
  <2> QED BY <1>1, <1>3, <2>1, <2>2
<1> QED BY <1>2, <1>3

LEMMA LockInvStep ==
  ASSUME ShowInv, LockInv, RowLocked, NEW r \in Requests, Step(r)
  PROVE  LockInv'
BY OwnHolds, OthersHold, CacheStep, SyncStep, AnswersStep DEF LockInv

LEMMA InitLockInv == Init => LockInv
<1> SUFFICES ASSUME Init PROVE LockInv
  OBVIOUS
<1>1. \A r \in Requests : pc[r] = "start" /\ r \notin Savers /\ ~Holds(r)
  BY DEF Init, Savers, Holds
<1>3. \A r \in Requests : HolderOK(r)
  <2>1. \A r \in Requests : op[r] = "create" => ~Exists
    BY RowOfIs DEF Init, Exists, NoRow
  <2> QED BY <1>1, <2>1 DEF HolderOK, HasRow, HasRead, HasSaved
<1>4. CacheOK
  BY DEF Init, CacheOK, IndexDoc, WholeRow
<1>5. LeftInSync
  BY DEF Init, LeftInSync, InSync
<1>6. \A r \in Requests : ~Answered(r)
  BY <1>1 DEF Answered
<1> QED BY <1>3, <1>4, <1>5, <1>6 DEF LockInv

(* A step that stutters changes nothing that ShowInv or LockInv speak of.  *)
LEMMA LockedInductive ==
  ASSUME ShowInv, RowLocked => LockInv, [Next]_vars
  PROVE  ShowInv' /\ (RowLocked' => LockInv') /\ (RowLocked' <=> RowLocked)
<1>1. CASE Next
  <2>1. PICK r \in Requests : Step(r)
    BY <1>1 DEF Next
  <2>2. RowLocked' <=> RowLocked
    BY <2>1, Others DEF ShowInv, RowLocked
  <2> QED BY <2>1, <2>2, ShowInvStep, LockInvStep
<1>2. CASE UNCHANGED vars
  <2>1. ShowInv'
    BY <1>2, ShowInvKept
  <2>2. RowLocked' <=> RowLocked
    BY <1>2 DEF vars, RowLocked
  <2>3. LockInv => LockInv'
    <3>1. Savers' = Savers
      BY <1>2 DEF vars, Savers
    <3>2. /\ UNCHANGED <<op, row, groups, doc, lock, sent, committed, pc, obj, dict,
                         plan, dirty, built>>
      BY <1>2 DEF vars, local
    <3>3. ASSUME NEW r \in Requests, HolderOK(r) PROVE HolderOK(r)'
      BY <3>1, <3>2, <3>3 DEF HolderOK, HasRow, HasRead, HasSaved, Holds,
                              Exists, Merged, Planned, Excused
    <3> QED BY <3>1, <3>2, <3>3 DEF LockInv, CacheOK, LeftInSync, InSync, Answered
  <2> QED BY <2>1, <2>2, <2>3
<1> QED BY <1>1, <1>2

(* Among requests that lock the row from their first read, any number of   *)
(* them, the index agrees with the dataset whenever none is between its    *)
(* write to the index and its commit and none has failed; and package_show *)
(* answers with a row as it was committed, whatever has failed, unless the *)
(* metadata_modified it shows was sent by a save that is under way or has  *)
(* failed.                                                                 *)
THEOREM LockedIndexInSync == Spec => []IndexInSync
<1>1. Init => ShowInv /\ (RowLocked => LockInv)
  BY InitShowInv, InitLockInv
<1>2. ShowInv /\ (RowLocked => LockInv) /\ [Next]_vars
        => (ShowInv /\ (RowLocked => LockInv))'
  BY LockedInductive
<1>3. ASSUME ShowInv, RowLocked => LockInv PROVE IndexInSync
  <2>1. ASSUME RowLocked, NEW r \in Requests, Answered(r), ~Resent(dict[r].row["stamp"])
        PROVE  dict[r].row \in committed
    <3>1. ~Left(dict[r].row["stamp"], pc, sent)
      BY <2>1 DEF Left, Resent
    <3>2. ~OfSender(dict[r].row, Savers, obj, sent)
      BY <1>3, <2>1 DEF OfSender, Resent, ShowInv, SaveOK, SentOK, Savers
    <3> QED BY <1>3, <2>1, <3>1, <3>2 DEF LockInv, WholeRow
  <2> QED BY <1>3, <2>1 DEF IndexInSync, ShowsCommitted, LockInv, LeftInSync, Open
<1> QED BY <1>1, <1>2, <1>3, PTL DEF Spec

(* A patch among requests that lock the row changes the columns it was     *)
(* asked to change and no others, even where it takes the rest of the dict *)
(* from the index, which a request that failed may have left wrong, unless *)
(* one that failed was sent the metadata_modified of the row.              *)
THEOREM LockedPatchKeepsOthers == Spec => PatchKeepsOthers
<1> DEFINE Keeps == \A r \in Requests : RowLocked /\ Patched(r) /\ ~Mistaken(r) =>
                      \A c \in Cols : row'[c] \in {row[c], r}
<1>1. Init => ShowInv /\ (RowLocked => LockInv)
  BY InitShowInv, InitLockInv
<1>2. ShowInv /\ (RowLocked => LockInv) /\ [Next]_vars
        => (ShowInv /\ (RowLocked => LockInv))'
  BY LockedInductive
<1>3. ASSUME ShowInv, RowLocked => LockInv, [Next]_vars PROVE [Keeps]_vars
  <2> SUFFICES ASSUME NEW q \in Requests, Step(q), RowLocked,
                      NEW r \in Requests, Patched(r), ~Mistaken(r), NEW c \in Cols
               PROVE  row'[c] \in {row[c], r}
    BY <1>3 DEF Next
  <2>1. q = r
    BY <1>3, Others DEF ShowInv, Patched
  <2>2. Commit(r)
    BY <1>3, <2>1 DEF ShowInv, Typed, TypeOK, Patched, Step, NotFound, Create,
       Update, Load, Delete, Lock, Show, ReadMembers, Flush, Join, Build,
       WriteIndex, RowGone, Fail, Leave, GoTo, Set
  <2>3. row' = Merged(r) /\ r \in Savers
    BY <1>3, <2>2, SaverHolds DEF Commit, Leave, GoTo
  <2>4. ~Excused(r)
    BY DEF Excused, Mistaken
  <2>5. \A f \in Cols : obj[r][f] \in {row[f], r}
    BY <1>3, <2>3, <2>4 DEF LockInv, HolderOK, HasSaved, Patched
  <2> QED BY <1>3, <2>3, <2>5 DEF LockInv, HolderOK, HasSaved
<1> QED BY <1>1, <1>2, <1>3, PTL DEF Spec, PatchKeepsOthers

-----------------------------------------------------------------------------
(* Requests one after the other                                            *)
(*                                                                         *)
(* What a request read before its first write is then still so when it     *)
(* writes, whatever the requests before it left in the index.              *)

Rests(q) == pc[q] = "start" \/ Ended(q)

\* These write the index last, the others before they commit the dataset.
IndexLast == {"member", "rebuild"}

\* A request that has not come to its writes yet plans none.
Unplanned(q) ==
  /\ pc[q] = "start" => built[q] = NoDoc
  /\ op[q] \in IndexLast \/ pc[q] \in {"start", "lock", "lookup", "members"}
       => plan[q] = NoPlan /\ dirty[q] = {}

\* What a request is about to index and commit is what it has in hand.
InHand(q) ==
  /\ q \in Readers => obj[q] = row
  /\ op[q] \notin IndexLast /\ pc[q] \in {"build", "index", "commit"}
       => Merged(q) = obj[q]
  /\ pc[q] = "index" => built[q] = IndexDoc(obj[q], Planned(q))
  /\ pc[q] = "commit" => doc = IndexDoc(obj[q], Planned(q))

SerialInv == \A q \in Requests : Unplanned(q) /\ InHand(q)

(* A step of one request does not concern those that rest.                 *)
LEMMA OthersRest ==
  ASSUME ShowInv, SerialInv, NEW r \in Requests, Step(r),
         NEW q \in Requests, q # r, Rests(q)
  PROVE  (Unplanned(q) /\ InHand(q))'
<1>1. /\ op' = op /\ pc'[q] = pc[q] /\ obj'[q] = obj[q]
      /\ dirty'[q] = dirty[q] /\ built'[q] = built[q]
  BY Others DEF ShowInv
<1>2. plan'[q] = plan[q]
  BY Others DEF ShowInv
<1>3. pc'[q] \in {"start", "done", "notfound", "failed"} /\ q \notin Readers'
  BY <1>1 DEF Rests, Ended, Readers
<1>4. Unplanned(q)
  BY DEF SerialInv
<1> QED BY <1>1, <1>2, <1>3, <1>4 DEF Unplanned, InHand

(* A request that ends has nothing left in hand.                           *)
LEMMA LeaveEmpty ==
  ASSUME Typed, NEW r \in Requests, NEW from,
         NEW how \in {"done", "notfound", "failed"}, Leave(r, from, how)
  PROVE  (Unplanned(r) /\ InHand(r))'
<1>1. /\ pc'[r] = how /\ plan'[r] = NoPlan /\ dirty'[r] = {}
  BY DEF Leave, GoTo, Set, Typed, TypeOK, Doms
<1> QED BY <1>1 DEF Unplanned, InHand, Readers

(* The flush makes the row that is committed of the row that was read.     *)
LEMMA FlushMerges ==
  ASSUME Typed, NEW r \in Requests, Flush(r), obj[r] = row
  PROVE  Merged(r)' = obj'[r]
<1>1. /\ row' = row
      /\ \E s \in Sends(r) : obj'[r] = [dict[r].row EXCEPT !["stamp"] = Stamp(s)]
      /\ dirty'[r] = {f \in Fields : obj'[r][f] # obj[r][f]}
  BY DEF Flush, Set, Typed, Doms
<1>2. DOMAIN dict[r].row = Fields
  BY TypedParts DEF LocalOK, IsRow
<1>3. \A f \in Fields : ~(f \in dirty'[r]) => row[f] = obj'[r][f]
  BY <1>1
<1>4. Merged(r)' = [f \in Fields |-> obj'[r][f]]
  BY <1>1, <1>3 DEF Merged
<1>5. obj'[r] = [f \in Fields |-> obj'[r][f]]
  BY <1>1, <1>2
<1> QED BY <1>4, <1>5

(* A delete or purge commits a row that the index has no document of.      *)
LEMMA DeleteMerges ==
  ASSUME Typed, NEW r \in Requests, Delete(r)
  PROVE  Merged(r)' = obj'[r] /\ obj'[r]["state"] # "active"
<1>1. row' = row /\ DOMAIN row = Fields /\ "state" \in Fields
  BY DEF Delete, Typed, TypeOK, IsRow, Fields
<1>2. CASE op[r] = "delete"
  <2>1. /\ obj'[r] = [row EXCEPT !["state"] = "deleted"]
        /\ dirty'[r] = IF row["state"] = "deleted" THEN {} ELSE {"state"}
    BY <1>2 DEF Delete, Set, Typed, Doms
  <2>2. \A f \in Fields : (IF f \in dirty'[r] THEN obj'[r][f] ELSE row[f]) = obj'[r][f]
    BY <1>1, <2>1
  <2>3. Merged(r)' = [f \in Fields |-> obj'[r][f]]
    BY <1>1, <2>2 DEF Merged
  <2>4. obj'[r] = [f \in Fields |-> obj'[r][f]]
    BY <1>1, <2>1
  <2> QED BY <1>1, <2>1, <2>3, <2>4
<1>3. CASE op[r] # "delete"
  <2>1. obj'[r] = NoRow /\ dirty'[r] = Fields
    BY <1>3 DEF Delete, Set, Typed, Doms
  <2>2. Merged(r)' = [f \in Fields |-> NoRow[f]]
    BY <2>1 DEF Merged
  <2>3. NoRow = [f \in Fields |-> NoRow[f]]
    BY DEF NoRow, RowOf
  <2>4. NoRow["state"] = "absent"
    BY RowOfIs DEF NoRow
  <2> QED BY <2>1, <2>2, <2>3, <2>4
<1> QED BY <1>2, <1>3

(* A step of a request keeps what it has in hand.                          *)
LEMMA OwnSerial ==
  ASSUME ShowInv, SerialInv, NEW r \in Requests, Step(r)
  PROVE  (Unplanned(r) /\ InHand(r))'
<1>0. /\ Typed /\ Unplanned(r) /\ InHand(r) /\ PhaseOK(r) /\ op'[r] = op[r]
      /\ r \in DOMAIN pc /\ r \in DOMAIN obj /\ r \in DOMAIN plan
      /\ r \in DOMAIN dirty /\ r \in DOMAIN built
  BY Others DEF ShowInv, SerialInv, Typed, TypeOK, Doms
<1> USE DEF Unplanned, InHand, Readers, IndexLast
<1>1. CASE NotFound(r) \/ RowGone(r) \/ Fail(r) \/ Commit(r)
  BY <1>0, <1>1, LeaveEmpty DEF NotFound, RowGone, Fail, Commit
<1>2. CASE Create(r)
  <2>1. /\ op[r] = "create" /\ pc'[r] = "build" /\ dirty'[r] = Fields
        /\ \E s \in Sends(r) : obj'[r] = RowOf("active", Stamp(s), r)
    BY <1>0, <1>2 DEF Create, GoTo, Set
  <2>2. Merged(r)' = [f \in Fields |-> obj'[r][f]]
    BY <2>1 DEF Merged
  <2>3. obj'[r] = [f \in Fields |-> obj'[r][f]]
    BY <2>1 DEF RowOf
  <2> QED BY <1>0, <2>1, <2>2, <2>3
<1>3. CASE Update(r)
  <2>1. /\ op[r] = "update" /\ pc[r] = "start" /\ pc'[r] = "members"
        /\ obj'[r] = row /\ UNCHANGED <<row, plan, dirty>>
    BY <1>0, <1>3 DEF Update, GoTo, Set
  <2> QED BY <1>0, <2>1
<1>4. CASE Load(r)
  <2>1. /\ pc[r] = "start" /\ pc'[r] \in {"lock", "lookup", "build", "join"}
        /\ pc'[r] = "build" => op[r] = "rebuild"
        /\ pc'[r] = "join" => op[r] = "member"
        /\ obj'[r] = row /\ UNCHANGED <<row, plan, dirty>>
    BY <1>0, <1>4 DEF Load, GoTo, Set
  <2> QED BY <1>0, <2>1
<1>5. CASE Delete(r)
  <2>1. /\ op[r] \notin IndexLast /\ pc[r] = "start" /\ pc'[r] = "index"
        /\ built'[r] = built[r]
    BY <1>0, <1>5 DEF Delete, GoTo, Set
  <2>2. built'[r] = IndexDoc(obj'[r], Planned(r)')
    BY <1>0, <1>5, <2>1, DeleteMerges DEF IndexDoc
  <2> QED BY <1>0, <1>5, <2>1, <2>2, DeleteMerges
<1>6. CASE Lock(r)
  <2>1. /\ pc[r] \in {"start", "lock"} /\ pc'[r] = "lookup"
        /\ op[r] \notin IndexLast
        /\ obj'[r] = row \/ (pc[r] = "lock" /\ obj'[r] = obj[r])
        /\ UNCHANGED <<row, plan, dirty>>
    BY <1>0, <1>6 DEF Lock, GoTo, Set
  <2> QED BY <1>0, <2>1
<1>7. CASE Show(r)
  <2>1. /\ pc[r] = "lookup" /\ pc'[r] \in {"done", "members"}
        /\ op[r] \notin IndexLast
        /\ UNCHANGED <<row, obj, plan, dirty>>
    BY <1>0, <1>7 DEF Show, GoTo, Set
  <2> QED BY <1>0, <2>1
<1>8. CASE ReadMembers(r)
  <2>1. /\ pc[r] = "members" /\ pc'[r] = "flush" /\ op[r] \notin IndexLast
        /\ UNCHANGED <<row, obj>>
    BY <1>0, <1>8 DEF ReadMembers, GoTo, Set, PhaseOK, Saves
  <2> QED BY <1>0, <2>1
<1>9. CASE Flush(r)
  <2>1. pc[r] = "flush" /\ pc'[r] = "build" /\ op[r] \notin IndexLast
    BY <1>0, <1>9 DEF Flush, GoTo, Set, PhaseOK, Saves
  <2>2. Merged(r)' = obj'[r]
    BY <1>0, <1>9, <2>1, FlushMerges
  <2> QED BY <1>0, <2>1, <2>2
<1>10. CASE Join(r)
  <2>1. /\ pc[r] = "join" /\ pc'[r] = "build" /\ op[r] = "member"
        /\ UNCHANGED <<row, obj, plan, dirty>>
    BY <1>0, <1>10 DEF Join, GoTo, Set, PhaseOK, local
  <2> QED BY <1>0, <2>1
<1>11. CASE Build(r)
  <2>1. /\ pc[r] = "build" /\ pc'[r] = "index"
        /\ built'[r] = IndexDoc(obj[r], Planned(r))
        /\ UNCHANGED <<row, groups, obj, dirty, plan>>
    BY <1>0, <1>11 DEF Build, GoTo, Set
  <2> QED BY <1>0, <2>1 DEF Merged, Planned
<1>12. CASE WriteIndex(r)
  <2>1. CASE op[r] \in IndexLast
    BY <1>0, <1>12, <2>1, LeaveEmpty DEF WriteIndex
  <2>2. CASE op[r] \notin IndexLast
    <3>1. /\ pc[r] = "index" /\ pc'[r] = "commit" /\ doc' = built[r]
          /\ UNCHANGED <<row, groups, obj, dirty, plan>>
      BY <1>0, <1>12, <2>2 DEF WriteIndex, GoTo, Set, local
    <3> QED BY <1>0, <2>2, <3>1 DEF Merged, Planned
  <2> QED BY <2>1, <2>2
<1> QED BY <1>1, <1>2, <1>3, <1>4, <1>5, <1>6, <1>7, <1>8, <1>9, <1>10,
           <1>11, <1>12 DEF Step

LEMMA InitSerialInv == Init => SerialInv
<1> SUFFICES ASSUME Init PROVE SerialInv
  OBVIOUS
<1>1. \A q \in Requests : /\ pc[q] = "start" /\ plan[q] = NoPlan
                          /\ dirty[q] = {} /\ built[q] = NoDoc
  BY DEF Init
<1> QED BY <1>1 DEF SerialInv, Unplanned, InHand, Readers

LEMMA SerialInductive ==
  ASSUME ShowInv, SerialInv, [SerialNext]_vars
  PROVE  ShowInv' /\ SerialInv'
<1>1. CASE SerialNext
  <2>1. PICK r \in Requests :
          Step(r) /\ \A q \in Requests \ {r} : Rests(q)
    BY <1>1 DEF SerialNext, Rests
  <2> QED BY <2>1, ShowInvStep, OwnSerial, OthersRest DEF SerialInv
<1>2. CASE UNCHANGED vars
  <2>1. ShowInv'
    BY <1>2, ShowInvKept
  <2>2. UNCHANGED <<op, row, groups, doc, pc, obj, plan, dirty, built>>
    BY <1>2 DEF vars, local
  <2>3. SerialInv'
    BY <2>2 DEF SerialInv, Unplanned, InHand, Readers, Merged, Planned
  <2> QED BY <2>1, <2>3
<1> QED BY <1>1, <1>2

(* A request that ends well, while no other is under way, leaves the index *)
(* in agreement with the dataset, whatever it does and wherever those      *)
(* before it have failed.                                                  *)
THEOREM SerialInSync == SerialSpec => SettledInSync
<1> DEFINE Settles == \A r \in Requests :
      op[r] # "show" /\ pc[r] # "done" /\ pc'[r] = "done" => InSync'
<1>1. Init => ShowInv /\ SerialInv
  BY InitShowInv, InitSerialInv
<1>2. ShowInv /\ SerialInv /\ [SerialNext]_vars => (ShowInv /\ SerialInv)'
  BY SerialInductive
<1>3. ASSUME ShowInv, SerialInv, [SerialNext]_vars PROVE [Settles]_vars
  <2> SUFFICES ASSUME NEW q \in Requests, Step(q),
                      NEW r \in Requests, op[r] # "show", pc[r] # "done",
                      pc'[r] = "done"
               PROVE  InSync'
    BY <1>3 DEF SerialNext
  <2>0. /\ Typed /\ Unplanned(r) /\ InHand(r) /\ PhaseOK(r)
        /\ r \in DOMAIN pc
    BY <1>3 DEF ShowInv, SerialInv, Typed, TypeOK
  <2>1. q = r
    BY <2>0, Others
  <2>2. Commit(r) \/ (WriteIndex(r) /\ op[r] \in IndexLast)
    BY <2>0, <2>1 DEF Step, NotFound, Create, Update, Load, Delete, Lock,
       Show, ReadMembers, Flush, Join, Build, WriteIndex, RowGone, Fail,
       Leave, GoTo, Set, IndexLast, PhaseOK
  <2>3. CASE Commit(r)
    <3>1. /\ row' = Merged(r) /\ groups' = Planned(r) /\ doc' = doc
          /\ pc[r] = "commit" /\ op[r] \notin IndexLast
      BY <2>0, <2>3 DEF Commit, Leave, GoTo, PhaseOK, Saves, IndexLast
    <3> QED BY <2>0, <3>1 DEF InHand, InSync
  <2>4. CASE WriteIndex(r) /\ op[r] \in IndexLast
    <3>1. /\ row' = row /\ groups' = groups /\ doc' = built[r]
          /\ pc[r] = "index" /\ r \in Readers
      BY <2>4 DEF WriteIndex, Leave, GoTo, Readers, IndexLast
    <3>2. obj[r] = row /\ plan[r] = NoPlan /\ Planned(r) = groups
      BY <2>0, <2>4, <3>1 DEF InHand, Unplanned, NoPlan, Planned
    <3> QED BY <2>0, <3>1, <3>2 DEF InHand, InSync
  <2> QED BY <2>2, <2>3, <2>4
<1> QED BY <1>1, <1>2, <1>3, PTL DEF SerialSpec, SettledInSync

(* Requests that come one after the other keep the types.                  *)
LEMMA SerialTypes == SerialSpec => []TypeOK
<1>1. [SerialNext]_vars => [Next]_vars
  BY DEF SerialNext, Next
<1>2. Typed => TypeOK
  BY DEF Typed
<1> QED BY <1>1, <1>2, TypedInductive, PTL DEF SerialSpec
=============================================================================
