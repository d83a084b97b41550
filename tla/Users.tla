---------------------------- MODULE Users -----------------------------------
(***************************************************************************)
(* What is kept about users: their sessions, their roles in groups, their  *)
(* invitations and the notifications they are sent.  The parts share no    *)
(* state, and each is an instance of its own module.                       *)
(***************************************************************************)
EXTENDS Naturals, FiniteSets

CONSTANT Nothing

CONSTANTS SeRequests, SeLifetime, SeMaxTime, SeMaxSid
VARIABLES
  seRow, seSids, seCookie, seRemember, seClock, sePc, seSid, seData,
  seAsked, seSent, seRecalled, seUser, seStale
se == <<
  seRow, seSids, seCookie, seRemember, seClock, sePc, seSid, seData,
  seAsked, seSent, seRecalled, seUser, seStale>>
SE == INSTANCE Sessions WITH
  Requests <- SeRequests, Lifetime <- SeLifetime, MaxTime <- SeMaxTime,
  MaxSid <- SeMaxSid, row <- seRow, sids <- seSids, cookie <- seCookie,
  remember <- seRemember, clock <- seClock, pc <- sePc, sid <- seSid,
  data <- seData, asked <- seAsked, sent <- seSent, recalled <- seRecalled,
  user <- seUser, stale <- seStale

CONSTANTS MeRequests, MeCapacities, MeMaxRows
VARIABLES meRows, meCall, meStale, meTorn
me == <<meRows, meCall, meStale, meTorn>>
ME == INSTANCE Membership WITH
  Requests <- MeRequests, Idle <- Nothing, Capacities <- MeCapacities,
  MaxRows <- MeMaxRows, rows <- meRows, call <- meCall, stale <- meStale,
  torn <- meTorn

CONSTANTS AcUsers, AcRequests, AcMaxKeys
VARIABLES acUser, acKeys, acMailbox, acUnsent, acCall, acRefused, acAdrift
ac == <<acUser, acKeys, acMailbox, acUnsent, acCall, acRefused, acAdrift>>
AC == INSTANCE Accounts WITH
  Users <- AcUsers, Requests <- AcRequests, Idle <- Nothing,
  MaxKeys <- AcMaxKeys, user <- acUser, keys <- acKeys,
  mailbox <- acMailbox, unsent <- acUnsent, call <- acCall,
  refused <- acRefused, adrift <- acAdrift

CONSTANTS NoRequests, NoLimit, NoMaxActs, NoMaxRuns
VARIABLES
  noNow, noActs, noSent, noViewed, noLimit, noCall, noCalls, noMailed,
  noShown, noLate, noCut, noAgain, noDropped
no == <<
  noNow, noActs, noSent, noViewed, noLimit, noCall, noCalls, noMailed,
  noShown, noLate, noCut, noAgain, noDropped>>
NO == INSTANCE Notifications WITH
  Requests <- NoRequests, Limit <- NoLimit, MaxActs <- NoMaxActs,
  MaxRuns <- NoMaxRuns, now <- noNow, acts <- noActs, sent <- noSent,
  viewed <- noViewed, limit <- noLimit, call <- noCall, calls <- noCalls,
  mailed <- noMailed, shown <- noShown, late <- noLate, cut <- noCut,
  again <- noAgain, dropped <- noDropped

-----------------------------------------------------------------------------
(* Properties *)

(* Sessions: A session id the browser had before it logged in with a       *)
(* password never names a session of a user, whatever requests overlap the *)
(* login and store their session after it (regenerate_session in           *)
(* ckan/views/user.py), but for an id under which a request came in with a *)
(* remember cookie.                                                        *)
SessionsFollowLogins == SE!SessionsFollowLogins

(* Membership: A user holds one role in a group.                           *)
RolesAreSingle == ME!RolesAreSingle

(* Accounts: What an invitation leaves once it is over is whole.           *)
InvitationsAreWhole == AC!InvitationsAreWhole

(* Notifications: The user is told of every activity of others.            *)
ActivitiesAreToldOnce == NO!ActivitiesAreToldOnce
=============================================================================
