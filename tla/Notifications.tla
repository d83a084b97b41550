--------------------------- MODULE Notifications ---------------------------
(***************************************************************************)
(* The mails that tell a user of new activities (ckanext/activity/         *)
(* email_notifications.py) and the dashboard page, which tells of them     *)
(* too.  Both read the user's activity stream first and set a time of the  *)
(* dashboard row later; an activity takes its timestamp when it is made    *)
(* and becomes visible when its transaction commits.  Every reading of the *)
(* clock gives a time of its own.                                          *)
(***************************************************************************)
EXTENDS Naturals, FiniteSets, FiniteSetsExt

CONSTANTS
  Requests,
  Nothing,
  Limit,    \* activities a list holds (ckan.activity_list_limit)
  MaxActs,  \* activities made (bound)
  MaxRuns   \* mail runs and dashboard visits (bound)

VARIABLES
  now,
  acts,     \* activities made: [time, own, committed]
  sent, viewed,  \* email_last_sent and activity_stream_last_viewed
  limit,    \* ckan.email_notifications_since before the last look of a run
  call,     \* the mail runs and the visits of the dashboard under way
  calls,    \* how many there have been
  mailed,   \* <<activity's time, call>>: mails that reached the user
  shown,    \* times of activities the dashboard has shown
  late,     \* times of activities committed behind the back of a call
  cut,      \* times of new activities that a list had no room for
  again,    \* times of activities whose mail may be sent once more
  dropped   \* times of new activities that a run let go by without a mail

told == <<mailed, shown, late, cut, again, dropped>>
vars == <<now, acts, sent, viewed, limit, call, calls, told>>

At(r, pc) == call[r] # Nothing /\ call[r].pc = pc
Busy == {r \in Requests : call[r] # Nothing}
End(r) == call' = [call EXCEPT ![r] = Nothing]
Times(as) == {a.time : a \in as}
Committed == {a \in acts : a.committed}
Greater(a, b) == IF a > b THEN a ELSE b

\* An activity of the user, or of someone or something the user follows.
Make(own) ==
  /\ Cardinality(acts) < MaxActs
  /\ now' = now + 1
  /\ acts' = acts \cup {[time |-> now', own |-> own, committed |-> FALSE]}
  /\ UNCHANGED <<sent, viewed, limit, call, calls, told>>

Commit(a) ==
  /\ ~a.committed
  /\ acts' = (acts \ {a}) \cup {[a EXCEPT !.committed = TRUE]}
  /\ UNCHANGED <<now, sent, viewed, limit, call, calls, told>>

\* dashboard_activity_list: the newest, the user's own among them.
Newest == {a \in Committed : Cardinality({b \in Committed : b.time > a.time}) < Limit}

\* Mutant: the time of the last mail is not looked at.
SinceViewed(oldest) == Greater(oldest, viewed)

Since(oldest) == Greater(oldest, Greater(sent, viewed))

New(as, since) == {a \in as : ~a.own /\ a.time > since}

(* _notifications_from_dashboard_activity_list.  What is older than        *)
(* ckan.email_notifications_since is left out, which is some time ago that *)
(* may fall between any two of the activities.  Without new activities no  *)
(* mail is sent, nor when the user does not want any.                      *)
List(r, wanted) ==
  LET new == IF wanted THEN New(Newest, Since(limit')) ELSE {}
      old == Since(0)
  IN /\ call[r] = Nothing /\ calls < MaxRuns
     /\ limit' \in limit .. now
     /\ calls' = calls + 1
     /\ call' = [call EXCEPT ![r] = [pc |-> IF new = {} THEN "stamp" ELSE "mail",
                   told |-> Times(new), saw |-> Times(Committed), nr |-> calls + 1]]
     /\ cut' = cut \cup Times(New(Committed \ Newest, old))
     /\ dropped' = dropped \cup Times(New(Newest, old) \ new)
     /\ again' = again \cup (IF Busy = {} THEN {} ELSE Times(new))
     /\ UNCHANGED <<now, acts, sent, viewed, mailed, shown, late>>

Delivered(r) ==
  mailed' = mailed \cup (call[r].told \X {call[r].nr}) /\ UNCHANGED dropped

\* The mailer returns in silence when there is no server or no address.
NotDelivered(r) == dropped' = dropped \cup call[r].told /\ UNCHANGED mailed

SendNotification(r) ==
  /\ At(r, "mail")
  /\ Delivered(r) \/ NotDelivered(r)
  /\ call' = [call EXCEPT ![r].pc = "stamp"]
  /\ UNCHANGED <<now, acts, sent, viewed, limit, calls, shown, late, cut, again>>

(* MailerException ends the run, for this user and all that come after;    *)
(* the server may have taken the mail all the same.                        *)
MailFails(r) ==
  /\ At(r, "mail")
  /\ Delivered(r) \/ UNCHANGED <<mailed, dropped>>
  /\ again' = again \cup call[r].told
  /\ End(r)
  /\ UNCHANGED <<now, acts, sent, viewed, limit, calls, shown, late, cut>>

\* What was made before the new time and was not there when the call looked.
Late(r) == {t \in Times(acts) : t \notin call[r].saw}

\* email_last_sent and the commit.
Stamp(r) ==
  /\ At(r, "stamp")
  /\ now' = now + 1
  /\ sent' = now'
  /\ late' = late \cup Late(r)
  /\ End(r)
  /\ UNCHANGED <<acts, viewed, limit, calls, mailed, shown, cut, again, dropped>>

\* The dashboard page, which offers the older activities too.
View(r) ==
  /\ call[r] = Nothing /\ calls < MaxRuns
  /\ calls' = calls + 1
  /\ call' = [call EXCEPT ![r] = [pc |-> "mark", told |-> {},
                saw |-> Times(Committed), nr |-> calls + 1]]
  /\ shown' = shown \cup Times(Committed)
  /\ UNCHANGED <<now, acts, sent, viewed, limit, mailed, late, cut, again, dropped>>

\* dashboard_mark_activities_old
MarkOld(r) ==
  /\ At(r, "mark")
  /\ now' = now + 1
  /\ viewed' = now'
  /\ late' = late \cup Late(r)
  /\ End(r)
  /\ UNCHANGED <<acts, sent, limit, calls, mailed, shown, cut, again, dropped>>

\* The process of a call ends.
Crash(r) ==
  /\ call[r] # Nothing
  /\ again' = again \cup call[r].told
  /\ End(r)
  /\ UNCHANGED <<now, acts, sent, viewed, limit, calls, mailed, shown, late, cut, dropped>>

Init ==
  /\ now = 0 /\ acts = {}
  /\ sent = 0 /\ viewed = 0 /\ limit = 0
  /\ call = [r \in Requests |-> Nothing]
  /\ calls = 0
  /\ mailed = {} /\ shown = {}
  /\ late = {} /\ cut = {} /\ again = {} /\ dropped = {}

Next ==
  \/ \E own \in BOOLEAN : Make(own)
  \/ \E a \in acts : Commit(a)
  \/ \E r \in Requests :
       \/ \E wanted \in BOOLEAN : List(r, wanted)
       \/ SendNotification(r) \/ MailFails(r) \/ Stamp(r)
       \/ View(r) \/ MarkOld(r) \/ Crash(r)

Spec == Init /\ [][Next]_vars

-----------------------------------------------------------------------------
(* Properties *)

TypeOK ==
  /\ acts \subseteq [time : 1 .. now, own : BOOLEAN, committed : BOOLEAN]
  /\ sent \in 0 .. now /\ viewed \in 0 .. now /\ limit \in 0 .. now
  /\ calls \in 0 .. MaxRuns
  /\ mailed \subseteq Times(acts) \X (1 .. calls)
  /\ shown \cup late \cup cut \cup again \cup dropped \subseteq Times(acts)
  /\ \A r \in Busy : call[r].pc \in {"mail", "stamp", "mark"}

(* The user is told of every activity of others: what no later mail will   *)
(* tell of, because it is older than the times of the dashboard, was       *)
(* mailed or shown, unless it was committed only after a call had looked,  *)
(* a list had no room for it, or a run let it go by: it was older than     *)
(* ckan.email_notifications_since by then, the user wanted no mails, or    *)
(* there was nowhere to send them.  And nothing is mailed twice, unless a  *)
(* mail failed, a call was cut short or two of them overlapped.            *)
ActivitiesAreToldOnce ==
  \A a \in acts : a.committed /\ ~a.own =>
    /\ a.time <= Greater(sent, viewed) /\ a.time \notin late \cup cut \cup dropped
       => a.time \in shown \/ \E n \in 1 .. calls : <<a.time, n>> \in mailed
    /\ a.time \notin again
       => Cardinality({n \in 1 .. calls : <<a.time, n>> \in mailed}) <= 1
=============================================================================
