------------------------------ MODULE Tracking ------------------------------
(***************************************************************************)
(* The page views of one dataset (ckanext/tracking): raw views as they     *)
(* come in, the summary of them by day that "ckan tracking update" makes   *)
(* again and again, and the number of views in the search index.  An       *)
(* update commits after the rows of a day, after their totals, and so on   *)
(* day by day up to the day on which it started.                           *)
(***************************************************************************)
EXTENDS Integers, FiniteSets, FiniteSetsExt

CONSTANTS
  Requests,
  Nothing,
  Visitors,
  Window,    \* days an update goes back from the last one in the summary (2)
  MaxDay, MaxViews, MaxRuns  \* bounds

VARIABLES
  today,
  views,    \* raw views of each day and visitor
  rows,     \* tracking_summary: [day, by, count, total]; by is the update's number
  run,      \* the updates under way
  started,  \* updates so far
  indexed,  \* views_total in the search index
  failed,   \* whether the last update failed to index the dataset again
  done,     \* the last day of the last update, if it came to its end
  excuse    \* what happened so far of "overlap" and "skipped"

vars == <<today, views, rows, run, started, indexed, failed, done, excuse>>

Days == 1 .. MaxDay
Busy == {r \in Requests : run[r] # Nothing}
At(r, pc) == run[r] # Nothing /\ run[r].pc = pc
Unfinished(rs) == {x \in rs : x.total = 0}

\* The sum of f[x] for the x in S.
Sum(f, S) == MapThenSumSet(LAMBDA x : f[x], S)

\* One raw row per view; the same visitor may come again.
View(v) ==
  /\ Sum([p \in Days \X Visitors |-> views[p[1]][p[2]]], Days \X Visitors) < MaxViews
  /\ views' = [views EXCEPT ![today][v] = @ + 1]
  /\ UNCHANGED <<today, rows, run, started, indexed, failed, done, excuse>>

NextDay ==
  /\ today < MaxDay
  /\ today' = today + 1
  /\ UNCHANGED <<views, rows, run, started, indexed, failed, done, excuse>>

LastDay == IF rows = {} THEN 1 ELSE Max({x.day : x \in rows})

\* Mutant: only the days that have no rows yet.
FirstDayNew == IF rows = {} THEN 1 ELSE LastDay + 1

\* Without a start date the update begins some days before the last row.
FirstDay == IF LastDay > Window THEN LastDay - Window ELSE 1

(* A given start date after the last row leaves days out, which no later   *)
(* update makes up for.                                                    *)
Start(r, from, given) ==
  /\ run[r] = Nothing
  /\ started < MaxRuns
  /\ started' = started + 1
  /\ run' = [run EXCEPT ![r] =
               [pc |-> "day", from |-> from, day |-> from, to |-> today,
                by |-> started + 1, seen |-> {}, count |-> 0]]
  /\ done' = 0
  /\ excuse' = excuse \cup (IF Busy = {} THEN {} ELSE {"overlap"})
                      \cup (IF given /\ from > LastDay THEN {"skipped"} ELSE {})
  /\ UNCHANGED <<today, views, rows, indexed, failed>>

\* Distinct visitors of a day.
Count(d) == Cardinality({v \in Visitors : views[d][v] > 0})

(* The DELETE finds the rows committed so far (it waits for another that   *)
(* deletes them too, and does not see what that one puts in their place);  *)
(* the SELECT counts the views.                                            *)
Look(r) ==
  /\ At(r, "day") /\ run[r].day <= run[r].to
  /\ run' = [run EXCEPT ![r].pc = "replace", ![r].count = Count(run[r].day),
               ![r].seen = {x.by : x \in {y \in rows : y.day = run[r].day}}]
  /\ UNCHANGED <<today, views, rows, started, indexed, failed, done, excuse>>

SummaryRow(c) == [day |-> c.day, by |-> c.by, count |-> c.count, total |-> 0]

\* Mutant: a row also for a day without views.
FreshAlways(c) == {SummaryRow(c)}

\* A day without views gets no row.
Fresh(c) == IF c.count = 0 THEN {} ELSE {SummaryRow(c)}

\* The commit of update_tracking.
Replace(r) ==
  LET c == run[r]
  IN /\ At(r, "replace")
     /\ rows' = {x \in rows : ~(x.day = c.day /\ x.by \in c.seen)} \cup Fresh(c)
     /\ run' = [run EXCEPT ![r].pc = "totals"]
     /\ UNCHANGED <<today, views, started, indexed, failed, done, excuse>>

UpTo(d) == {x \in rows : x.day <= d}

(* update_tracking_summary_with_package_id: the rows whose total is 0,     *)
(* whatever their day.                                                     *)
Totals(r) ==
  /\ At(r, "totals")
  /\ rows' = (rows \ Unfinished(rows)) \cup
               {[x EXCEPT !.total = Sum([y \in rows |-> y.count], UpTo(x.day))]
                  : x \in Unfinished(rows)}
  /\ run' = [run EXCEPT ![r].pc = "day", ![r].day = @ + 1]
  /\ UNCHANGED <<today, views, started, indexed, failed, done, excuse>>

\* rebuild: an error is shown and the update goes on.
Rebuilds ==
  /\ \E x \in rows : x.day = LastDay /\ indexed' = x.total
  /\ failed' = FALSE
RebuildFails == failed' = TRUE /\ UNCHANGED indexed

(* update_tracking_index: the dataset is indexed again when it has rows    *)
(* from the first day on.                                                  *)
Index(r) ==
  /\ At(r, "day") /\ run[r].day > run[r].to
  /\ IF \E x \in rows : x.day >= run[r].from
     THEN Rebuilds \/ RebuildFails
     ELSE UNCHANGED <<indexed, failed>>
  /\ done' = run[r].to
  /\ run' = [run EXCEPT ![r] = Nothing]
  /\ UNCHANGED <<today, views, rows, started, excuse>>

\* The process of the command is ended.
Crash(r) ==
  /\ run[r] # Nothing
  /\ run' = [run EXCEPT ![r] = Nothing]
  /\ UNCHANGED <<today, views, rows, started, indexed, failed, done, excuse>>

Init ==
  /\ today = 1
  /\ views = [d \in Days |-> [v \in Visitors |-> 0]]
  /\ rows = {}
  /\ run = [r \in Requests |-> Nothing]
  /\ started = 0
  /\ indexed = 0
  /\ failed = FALSE
  /\ done = 0
  /\ excuse = {}

Next ==
  \/ \E v \in Visitors : View(v)
  \/ NextDay
  \/ \E r \in Requests :
       \/ Start(r, FirstDay, FALSE) \/ \E d \in 1 .. today : Start(r, d, TRUE)
       \/ Look(r) \/ Replace(r) \/ Totals(r) \/ Index(r) \/ Crash(r)

Spec == Init /\ [][Next]_vars

-----------------------------------------------------------------------------
(* Properties *)

TypeOK ==
  /\ today \in Days /\ started \in 0 .. MaxRuns /\ done \in 0 .. MaxDay
  /\ views \in [Days -> [Visitors -> 0 .. MaxViews]]
  /\ rows \subseteq [day : Days, by : 1 .. MaxRuns, count : 1 .. MaxViews,
                     total : Nat]
  /\ indexed \in Nat /\ failed \in BOOLEAN
  /\ \A r \in Busy : run[r].day \in 1 .. MaxDay + 1 /\ run[r].to \in Days

(* Once an update has come to its end, every day before its last one has   *)
(* one row with its distinct visitors and the total up to that day, the    *)
(* index has the last total, and no row says more than the raw views do,   *)
(* wherever earlier updates were cut.  Exempt are updates that overlapped, *)
(* whose doubled rows stay once they are older than the window, and a      *)
(* start date that left days out; and the index, while the last rebuild of *)
(* the dataset has failed.                                                 *)
SummaryFollowsViews ==
  done > 0 /\ Busy = {} /\ excuse = {} =>
    /\ \A d \in 1 .. done - 1 :
         {[count |-> x.count, total |-> x.total] : x \in {y \in rows : y.day = d}}
           = IF Count(d) = 0 THEN {}
             ELSE {[count |-> Count(d), total |-> Sum([e \in Days |-> Count(e)], 1 .. d)]}
    /\ \A x, y \in rows : x.day = y.day => x = y
    /\ \A x \in rows : x.count <= Count(x.day)
    /\ ~failed => \A x \in rows : x.day = LastDay => indexed = x.total
=============================================================================
