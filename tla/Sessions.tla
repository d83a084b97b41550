------------------------------ MODULE Sessions ------------------------------
(***************************************************************************)
(* Server-side sessions of one browser                                     *)
(* (CKANPostgresSessionInterface in ckan/config/middleware).  A request    *)
(* loads the session its cookie names, changes it, and stores the whole of *)
(* it; requests of one browser overlap.  When it is loaded and whether it  *)
(* is stored is decided by Flask-Session, and what a remember cookie does  *)
(* by Flask-Login; neither is under src/.                                  *)
(***************************************************************************)
EXTENDS Naturals

CONSTANTS
  Requests,
  Nothing,   \* no row, no request
  Lifetime,  \* PERMANENT_SESSION_LIFETIME in ticks
  MaxTime,   \* the last tick (bound)
  MaxSid     \* session ids given out (bound)

VARIABLES
  row,     \* session_store: data and expiry by session id
  sids,    \* the session ids given out are 1 .. sids
  cookie,  \* the session id in the cookie of the browser, 0 if none
  remember, \* whether the browser has a remember cookie
  clock,
  pc, sid, data,  \* of each request: its place, session id and session
  asked,   \* of each request: what its answer does to the remember cookie
  sent,    \* requests that sent a remember cookie
  recalled, \* those of them that became a user's by it
  user,    \* the session ids that a login with a password created
  stale    \* requests whose session was stored without a user meanwhile

vars == <<row, sids, cookie, remember, clock, pc, sid, data, asked, sent,
          recalled, user, stale>>

Sids == 1 .. MaxSid
Empty == [login |-> FALSE, marks |-> {}]

Retrieved(s) ==
  IF s # 0 /\ row[s] # Nothing /\ row[s].expiry > clock THEN row[s].data
  ELSE Empty

Browser == <<cookie, remember>>
Loads == <<sent, recalled>>
Rest == <<Browser, clock, Loads, user, stale>>

(* The id in the cookie is kept when its session is gone.  Every request   *)
(* asks who its user is (identify_user): a session without one is given    *)
(* the user of the remember cookie, and keeps its id.                      *)
OpenSession(r) ==
  /\ pc[r] = "start"
  /\ cookie = 0 => sids < MaxSid
  /\ sids' = IF cookie = 0 THEN sids + 1 ELSE sids
  /\ sid' = [sid EXCEPT ![r] = IF cookie = 0 THEN sids + 1 ELSE cookie]
  /\ data' = [data EXCEPT ![r] =
       [Retrieved(cookie) EXCEPT !.login = @ \/ remember]]
  /\ sent' = IF remember THEN sent \cup {r} ELSE sent
  /\ recalled' = IF remember /\ ~Retrieved(cookie).login THEN recalled \cup {r}
                 ELSE recalled
  /\ pc' = [pc EXCEPT ![r] = "open"]
  /\ UNCHANGED <<row, Browser, clock, asked, user, stale>>

\* Mutant: the session of the visitor becomes the one of the user.
LoginKeepingSid(r, kept) ==
  /\ pc[r] = "open" /\ ~data[r].login
  /\ asked' = [asked EXCEPT ![r] = IF kept THEN "set" ELSE "none"]
  /\ data' = [data EXCEPT ![r].login = TRUE]
  /\ pc' = [pc EXCEPT ![r] = "save"]
  /\ UNCHANGED <<row, sids, sid, Rest>>

\* regenerate_session deletes the old session and takes a new id; the user
\* may ask to be remembered.
Login(r, kept) ==
  /\ pc[r] = "open" /\ ~data[r].login
  /\ sids < MaxSid
  /\ row' = [row EXCEPT ![sid[r]] = Nothing]
  /\ sids' = sids + 1
  /\ sid' = [sid EXCEPT ![r] = sids + 1]
  /\ user' = user \cup {sids + 1}
  /\ data' = [data EXCEPT ![r].login = TRUE]
  /\ asked' = [asked EXCEPT ![r] = IF kept THEN "set" ELSE "none"]
  /\ pc' = [pc EXCEPT ![r] = "save"]
  /\ UNCHANGED <<Browser, clock, Loads, stale>>

\* The id is kept; a remember cookie is taken back if it was sent.
Logout(r) ==
  /\ pc[r] = "open" /\ data[r].login
  /\ data' = [data EXCEPT ![r].login = FALSE]
  /\ asked' = [asked EXCEPT ![r] = IF r \in sent THEN "clear" ELSE "none"]
  /\ pc' = [pc EXCEPT ![r] = "save"]
  /\ UNCHANGED <<row, sids, sid, Rest>>

\* A flashed message, a language, a value of an extension.
Note(r) ==
  /\ pc[r] = "open"
  /\ data' = [data EXCEPT ![r].marks = @ \cup {r}]
  /\ pc' = [pc EXCEPT ![r] = "save"]
  /\ UNCHANGED <<row, sids, sid, asked, Rest>>

\* A session that got its user from the remember cookie is stored too.
Read(r) ==
  /\ pc[r] = "open"
  /\ pc' = [pc EXCEPT ![r] = IF r \in recalled THEN "save" ELSE "done"]
  /\ UNCHANGED <<row, sids, sid, data, asked, Rest>>

(* _upsert_session: the row is replaced, then expired rows are deleted. *)
SaveSession(r) ==
  /\ pc[r] = "save"
  /\ row' = [s \in Sids |->
               IF s = sid[r] THEN [data |-> data[r], expiry |-> clock + Lifetime]
               ELSE IF row[s] # Nothing /\ row[s].expiry <= clock THEN Nothing
               ELSE row[s]]
  /\ cookie' = sid[r]
  /\ remember' = (asked[r] = "set" \/ (remember /\ asked[r] # "clear"))
  /\ pc' = [pc EXCEPT ![r] = "done"]
  /\ stale' = IF data[r].login THEN stale
              ELSE stale \cup {q \in Requests \ {r} :
                                pc[q] \in {"open", "save"} /\ sid[q] = sid[r]}
  /\ UNCHANGED <<sids, clock, sid, data, asked, Loads, user>>

\* The browser is closed, and a cookie of it may have had its time.
Tick ==
  /\ clock < MaxTime
  /\ clock' = clock + 1
  /\ cookie' \in {cookie, 0}
  /\ remember' \in {remember, FALSE}
  /\ UNCHANGED <<row, sids, pc, sid, data, asked, Loads, user, stale>>

Init ==
  /\ row = [s \in Sids |-> Nothing]
  /\ sids = 0
  /\ cookie = 0
  /\ remember = FALSE
  /\ clock = 0
  /\ pc = [r \in Requests |-> "start"]
  /\ sid = [r \in Requests |-> 0]
  /\ data = [r \in Requests |-> Empty]
  /\ asked = [r \in Requests |-> "none"]
  /\ sent = {}
  /\ recalled = {}
  /\ user = {}
  /\ stale = {}

Next ==
  \/ \E r \in Requests :
       \/ OpenSession(r) \/ Logout(r) \/ Note(r) \/ Read(r) \/ SaveSession(r)
       \/ \E kept \in BOOLEAN : Login(r, kept)
  \/ Tick

Spec == Init /\ [][Next]_vars

-----------------------------------------------------------------------------
(* Properties *)

TypeOK ==
  LET Data == [login : BOOLEAN, marks : SUBSET Requests] IN
  /\ row \in [Sids -> [data : Data, expiry : Nat] \cup {Nothing}]
  /\ sids \in 0 .. MaxSid
  /\ cookie \in 0 .. MaxSid
  /\ remember \in BOOLEAN
  /\ clock \in 0 .. MaxTime
  /\ pc \in [Requests -> {"start", "open", "save", "done"}]
  /\ sid \in [Requests -> 0 .. MaxSid]
  /\ data \in [Requests -> Data]
  /\ asked \in [Requests -> {"none", "set", "clear"}]
  /\ sent \subseteq Requests
  /\ recalled \subseteq Requests
  /\ user \subseteq Sids
  /\ stale \subseteq Requests

(* A session id the browser had before it logged in with a password never  *)
(* names a session of a user, whatever requests overlap the login and      *)
(* store their session after it (regenerate_session in ckan/views/user.py),*)
(* but for an id under which a request came in with a remember cookie; and *)
(* a session that is stored without a user, at a logout or once it had     *)
(* expired, is a user's again only when a request stores what it had       *)
(* loaded before that, or came in with a remember cookie.                  *)
SessionsFollowLogins ==
  [][\A s \in Sids :
       /\ row'[s] # Nothing /\ row'[s].data.login
       => /\ s \in user' \/ \E r \in recalled : sid[r] = s
          /\ (row[s] # Nothing /\ ~row[s].data.login
              => \E r \in stale \cup recalled :
                   sid[r] = s /\ pc[r] = "save" /\ pc'[r] = "done")]_vars
=============================================================================
