----------------------------- MODULE Hierarchy -----------------------------
(***************************************************************************)
(* The parents of groups and organizations.  An update names the parents   *)
(* of one group; the validator no_loops_in_hierarchy refuses those that    *)
(* would close a loop, by a query that follows at most MaxRecurses + 1     *)
(* links, and the update commits later.                                    *)
(***************************************************************************)
EXTENDS Naturals

CONSTANTS
  Groups, Requests,
  Idle,
  MaxRecurses  \* MAX_RECURSES

VARIABLES
  parents,  \* active member rows of table_name 'group', by group_id
  deleted,  \* the groups that are deleted
  call,     \* the update each request has validated
  stale     \* requests that validated before another one committed

vars == <<parents, deleted, call, stale>>

Children(s) == {g \in Groups : parents[g] \cap s # {}}

\* HIERARCHY_DOWNWARDS_CTE: the levels at depth 0 .. MaxRecurses.
Levels(g) ==
  LET level[n \in 0 .. MaxRecurses] ==
        Children(IF n = 0 THEN {g} ELSE level[n - 1])
  IN UNION {level[n] : n \in 0 .. MaxRecurses}

\* Mutant: the query stops at deleted groups.
DescendantsAlive(g) ==
  {h \in Levels(g) \ deleted : parents[h] \cap deleted = {}}

\* get_children_group_hierarchy goes through deleted groups, and omits them.
Descendants(g) == Levels(g) \ deleted

\* groups_allowed_to_be_its_parent
Allowed(g) == Groups \ (deleted \cup Descendants(g) \cup {g})

Pending == {r \in Requests : call[r] # Idle}

\* A parent that is not allowed is refused with an error.
Validate(r, g, named) ==
  /\ call[r] = Idle
  /\ named \subseteq Allowed(g)
  /\ call' = [call EXCEPT ![r] = [group |-> g, parents |-> named]]
  /\ stale' = stale \ {r}
  /\ UNCHANGED <<parents, deleted>>

\* group_member_save for 'groups'; an update may set the state to active.
Save(r) ==
  /\ call[r] # Idle
  /\ parents' = [parents EXCEPT ![call[r].group] = call[r].parents]
  /\ deleted' \in {deleted, deleted \ {call[r].group}}
  /\ call' = [call EXCEPT ![r] = Idle]
  /\ stale' = (stale \cup Pending) \ {r}

\* An update that brings a deleted group back and does not list its parents.
Restore(g) ==
  /\ g \in deleted
  /\ deleted' = deleted \ {g}
  /\ stale' = stale \cup Pending
  /\ UNCHANGED <<parents, call>>

(* The links to parents and children are deleted by the id; a caller who   *)
(* names the group leaves them.                                            *)
Delete(g, ref) ==
  /\ g \notin deleted
  /\ deleted' = deleted \cup {g}
  /\ parents' = IF ref = "name" THEN parents
                ELSE [h \in Groups |-> IF h = g THEN {} ELSE parents[h] \ {g}]
  /\ stale' = stale \cup Pending
  /\ UNCHANGED call

Init ==
  /\ parents = [g \in Groups |-> {}]
  /\ deleted = {}
  /\ call = [r \in Requests |-> Idle]
  /\ stale = {}

Next ==
  \/ \E r \in Requests :
       \/ \E g \in Groups, named \in SUBSET Groups : Validate(r, g, named)
       \/ Save(r)
  \/ \E g \in Groups : Restore(g)
  \/ \E g \in Groups, ref \in {"id", "name"} : Delete(g, ref)

Spec == Init /\ [][Next]_vars

-----------------------------------------------------------------------------
(* Properties *)

TypeOK ==
  /\ parents \in [Groups -> SUBSET Groups]
  /\ deleted \subseteq Groups
  /\ \A r \in Pending : call[r] \in [group : Groups, parents : SUBSET Groups]
  /\ stale \subseteq Requests

\* k links lead from g to h, each from a group to one of its parents.
Walk(up, g, h, k) ==
  \E w \in [0 .. k -> Groups] :
    /\ w[0] = g /\ w[k] = h
    /\ \A i \in 0 .. k - 1 : w[i + 1] \in up[w[i]]

\* g is on a loop of at most n links.
OnLoop(up, g, n) == \E k \in 1 .. n : Walk(up, g, g, k)

(* An update that no other overlaps never closes a loop of at most         *)
(* MaxRecurses + 2 links, whatever was deleted by id or by name and        *)
(* brought back before (the recursive queries would follow it to their     *)
(* limit, group.py:444).                                                   *)
UpdateClosesNoLoop ==
  [][\A r \in Requests \ stale :
       call[r] # Idle /\ call'[r] = Idle
       => \A g \in Groups : OnLoop(parents', g, MaxRecurses + 2)
                            => OnLoop(parents, g, MaxRecurses + 2)]_vars
=============================================================================
