----------------------------- MODULE Membership -----------------------------
(***************************************************************************)
(* The rows of the member table that tie one user to one group or          *)
(* organization.  Nothing in the table keeps them unique.  Every action    *)
(* reads rows, changes what it read, and commits: a step that reads and a  *)
(* step that writes the columns that changed.                              *)
(***************************************************************************)
EXTENDS Naturals, FiniteSets, Sequences

CONSTANTS
  Requests,
  Idle,
  Capacities,  \* "admin" is one of them
  MaxRows      \* rows of the pair (bound)

VARIABLES
  rows,   \* the rows, oldest first
  call,   \* the action each request is in
  stale,  \* requests that read rows which another has changed since
  torn    \* rows were written by a stale request, or have one capacity twice

vars == <<rows, call, stale, torn>>

Active(rs) == {i \in DOMAIN rs : rs[i].state = "active"}

\* Two rows of one capacity: group_member_save sees one of them.
Doubled(rs) ==
  \E i, j \in DOMAIN rs : i # j /\ rs[i].capacity = rs[j].capacity

Reads(r, op, writes, adds) ==
  /\ call[r] = Idle
  /\ call' = [call EXCEPT ![r] = [op |-> op, writes |-> writes, adds |-> adds]]
  /\ stale' = stale \ {r}
  /\ UNCHANGED <<rows, torn>>

\* The rows member_create may take: ORDER BY state, so an active one first.
Candidates == IF Active(rows) # {} THEN Active(rows) ELSE DOMAIN rows

\* The write of a column, when its value is another one.
Write(i, column, to) ==
  IF rows[i][column] = to THEN {} ELSE {[row |-> i, column |-> column, to |-> to]}
State(i, to) == Write(i, "state", to)
Capacity(i, to) == Write(i, "capacity", to)

\* self: the user adds himself.
MemberCreate(r, cap, self) ==
  IF Candidates = {} THEN Reads(r, "create", {}, {cap})
  ELSE \E i \in Candidates :
         /\ ~(self /\ rows[i].capacity = "admin" /\ cap # "admin")
         /\ Reads(r, "create", State(i, "active") \cup Capacity(i, cap), {})

\* Mutant: the row is looked up without its state.
MemberDeleteAny(r) ==
  IF rows = <<>> THEN Reads(r, "delete", {}, {})
  ELSE \E i \in DOMAIN rows : Reads(r, "delete", State(i, "deleted"), {})

\* The first active row the database returns.
MemberDelete(r) ==
  IF Active(rows) = {} THEN Reads(r, "delete", {}, {})
  ELSE \E i \in Active(rows) : Reads(r, "delete", State(i, "deleted"), {})

UserDelete(r) ==
  Reads(r, "user_delete", UNION {State(i, "deleted") : i \in DOMAIN rows}, {})

\* The rows are selected by the id, which is what the caller passed.
GroupDelete(r, ref) ==
  Reads(r, IF ref = "id" THEN "group_delete" ELSE "group_delete_by_name",
        IF ref = "id" THEN UNION {State(i, "deleted") : i \in Active(rows)}
        ELSE {}, {})

(* group_member_save with the user listed in one capacity or not at all.   *)
(* A dictionary by capacity keeps one row of each, in no fixed order.      *)
SaveMembers(r, listed) ==
  \E kept \in [{rows[i].capacity : i \in DOMAIN rows} -> DOMAIN rows] :
    /\ \A c \in DOMAIN kept : rows[kept[c]].capacity = c
    /\ Reads(r, IF listed = {} THEN "save_empty" ELSE "save",
             UNION {State(kept[c], IF c \in listed THEN "active" ELSE "deleted")
                      : c \in DOMAIN kept},
             listed \ DOMAIN kept)

Written(rs, ws) ==
  LET New(i, column) ==
        LET mine == {w \in ws : w.row = i /\ w.column = column} IN
        IF mine = {} THEN rs[i][column] ELSE (CHOOSE w \in mine : TRUE).to
  IN [i \in DOMAIN rs |-> [capacity |-> New(i, "capacity"), state |-> New(i, "state")]]

Added(caps) ==
  IF caps = {} THEN <<>>
  ELSE <<[capacity |-> CHOOSE c \in caps : TRUE, state |-> "active"]>>

Commit(r) ==
  /\ call[r] # Idle
  /\ Len(rows) + Cardinality(call[r].adds) <= MaxRows
  /\ rows' = Written(rows, call[r].writes) \o Added(call[r].adds)
  /\ call' = [call EXCEPT ![r] = Idle]
  /\ stale' = IF rows' = rows THEN stale \ {r}
              ELSE {q \in Requests \ {r} : call[q] # Idle}
  /\ torn' = (torn \/ r \in stale \/ Doubled(rows'))

Init ==
  /\ rows = <<>>
  /\ call = [r \in Requests |-> Idle]
  /\ stale = {}
  /\ torn = FALSE

Next ==
  \E r \in Requests :
    \/ \E cap \in Capacities, self \in BOOLEAN : MemberCreate(r, cap, self)
    \/ MemberDelete(r)
    \/ UserDelete(r)
    \/ \E ref \in {"id", "name"} : GroupDelete(r, ref)
    \/ \E listed \in {{}} \cup {{c} : c \in Capacities} : SaveMembers(r, listed)
    \/ Commit(r)

Spec == Init /\ [][Next]_vars

-----------------------------------------------------------------------------
(* Properties *)

TypeOK ==
  /\ rows \in Seq([capacity : Capacities, state : {"active", "deleted"}])
  /\ Len(rows) <= MaxRows
  /\ \A r \in Requests :
       call[r] # Idle => /\ call[r].adds \subseteq Capacities
                         /\ \A w \in call[r].writes : w.row \in DOMAIN rows
  /\ stale \subseteq Requests
  /\ torn \in BOOLEAN

(* A user holds one role in a group: two active rows come about only when  *)
(* overlapping requests added or revived rows, or when a row took the      *)
(* capacity of another that group_member_save had left deleted.  Whatever  *)
(* removes a user removes every role he has: member_delete, which deletes  *)
(* one row, saves without him, and the deletions of the user and of the    *)
(* group by its id.                                                        *)
RolesAreSingle ==
  [][~torn' =>
       /\ Cardinality(Active(rows')) <= 1
       /\ \A r \in Requests :
            /\ call[r] # Idle /\ call'[r] = Idle
            /\ call[r].op \in {"delete", "save_empty", "user_delete", "group_delete"}
            => Active(rows') = {}]_vars
=============================================================================
