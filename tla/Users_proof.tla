---------------------------- MODULE Users_proof -----------------------------
(* The parts of Users keep their invariants, for every value of the        *)
(* constants: one section for each, from its type invariant and inductive  *)
(* invariant to the property.                                              *)
EXTENDS Users, Sequences, FiniteSetTheorems, TLAPS

-----------------------------------------------------------------------------
(* Sessions: an id from before a login names no session of a user          *)

SeData == [login : BOOLEAN, marks : SUBSET SeRequests]
SeRows == [data : SeData, expiry : Nat]

\* Nothing is no row.
SeConstantsOK ==
  /\ SeLifetime \in Nat /\ SeMaxTime \in Nat /\ SeMaxSid \in Nat
  /\ Nothing \notin SeRows

SeUnder(r) == sePc[r] \in {"open", "save"}

\* An id of a user: of a login, or one a remember cookie came with.
SeOfUser(s) == s \in seUser \/ \E r \in seRecalled : seSid[r] = s

\* Only ids that were given out are in use.
SeGiven ==
  /\ seCookie \in 0 .. seSids
  /\ seUser \subseteq 1 .. seSids
  /\ \A s \in SE!Sids : s > seSids => seRow[s] = Nothing
  /\ \A r \in SeRequests : SeUnder(r) => seSid[r] \in 1 .. seSids

\* A request that a remember cookie gave its user keeps its id.
SeRemembered ==
  \A r \in seRecalled : sePc[r] # "start" /\ (sePc[r] = "open" => seData[r].login)

\* A user has a session of his own.
SeOwn ==
  /\ \A s \in SE!Sids : seRow[s] # Nothing /\ seRow[s].data.login => SeOfUser(s)
  /\ \A r \in SeRequests : SeUnder(r) /\ seData[r].login => SeOfUser(seSid[r])

\* A request that loaded a user's session is stale once that is stored
\* without one.
SeKnown ==
  \A r \in SeRequests :
    /\ SeUnder(r) /\ seData[r].login
    /\ seRow[seSid[r]] # Nothing /\ ~seRow[seSid[r]].data.login
    => r \in seStale \cup seRecalled

SeInv == SE!TypeOK /\ SeGiven /\ SeRemembered /\ SeOwn /\ SeKnown

\* The invariant holds at first.
LEMMA SeInitInv == ASSUME SeConstantsOK, SE!Init PROVE SeInv
<1>1. SE!Empty \in SeData /\ ~SE!Empty.login
  BY DEF SE!Empty, SeData
<1>2. SE!TypeOK
  <2>1. seData \in [SeRequests -> SeData] /\ seRow \in [SE!Sids -> SeRows \cup {Nothing}]
    BY <1>1 DEF SE!Init
  <2>2. seRemember \in BOOLEAN
    BY DEF SE!Init
  <2>3. /\ seSids \in 0 .. SeMaxSid /\ seCookie \in 0 .. SeMaxSid /\ seClock \in 0 .. SeMaxTime
        /\ seSid \in [SeRequests -> 0 .. SeMaxSid]
    BY DEF SE!Init, SeConstantsOK
  <2>4. /\ sePc \in [SeRequests -> {"start", "open", "save", "done"}]
        /\ seAsked \in [SeRequests -> {"none", "set", "clear"}]
        /\ seSent \subseteq SeRequests /\ seRecalled \subseteq SeRequests
        /\ seUser \subseteq SE!Sids /\ seStale \subseteq SeRequests
    BY DEF SE!Init
  <2> QED BY <2>1, <2>2, <2>3, <2>4 DEF SE!TypeOK, SeData, SeRows
<1> QED BY <1>1, <1>2 DEF SeConstantsOK, SE!Init, SeInv, SeGiven,
     SeRemembered, SeOwn, SeKnown, SeUnder, SE!Sids

\* What is loaded is a session; a user's comes from a row with one.
LEMMA SeLoaded ==
  ASSUME SeConstantsOK, SeInv
  PROVE  /\ SE!Retrieved(seCookie) \in SeData
         /\ SE!Retrieved(seCookie).login =>
              /\ seCookie \in SE!Sids /\ seRow[seCookie] # Nothing
              /\ seRow[seCookie].data.login
<1>1. SE!Empty \in SeData /\ ~SE!Empty.login
  BY DEF SE!Empty, SeData
<1> QED BY <1>1 DEF SE!Retrieved, SeInv, SE!TypeOK, SeRows, SeData, SE!Sids

\* A session with another login is a session.
LEMMA SeLoginSet ==
  ASSUME NEW d \in SeData, NEW b \in BOOLEAN
  PROVE  [d EXCEPT !.login = b] \in SeData
BY DEF SeData

\* Every step keeps the type invariant.
LEMMA SeTypeNext == ASSUME SeConstantsOK, SeInv, [SE!Next]_(SE!vars)
                    PROVE SE!TypeOK'
<1> USE DEF SE!TypeOK, SeConstantsOK
<1>1. ASSUME NEW r \in SeRequests, SE!OpenSession(r) PROVE SE!TypeOK'
  <2>1. [SE!Retrieved(seCookie) EXCEPT !.login = @ \/ seRemember] \in SeData
    <3>1. SE!Retrieved(seCookie) \in SeData
      BY SeLoaded
    <3>2. (SE!Retrieved(seCookie).login \/ seRemember) \in BOOLEAN
      BY <3>1 DEF SeInv, SeData
    <3>3. [SE!Retrieved(seCookie) EXCEPT !.login = (SE!Retrieved(seCookie).login \/ seRemember)] \in SeData
      BY <3>1, <3>2, SeLoginSet
    <3> QED BY <3>1, <3>3 DEF SeData
  <2>2. seData' \in [SeRequests -> SeData]
    BY <1>1, <2>1 DEF SE!OpenSession, SeInv, SeData
  <2>3. /\ seSids' \in 0 .. SeMaxSid /\ seSid' \in [SeRequests -> 0 .. SeMaxSid]
        /\ sePc' \in [SeRequests -> {"start", "open", "save", "done"}]
    BY <1>1 DEF SE!OpenSession, SeInv
  <2>4. seSent' \subseteq SeRequests /\ seRecalled' \subseteq SeRequests
    BY <1>1 DEF SE!OpenSession, SeInv
  <2> QED BY <1>1, <2>2, <2>3, <2>4 DEF SE!OpenSession, SE!Browser, SeInv,
       SeData
<1>2. ASSUME NEW r \in SeRequests, NEW kept \in BOOLEAN, SE!Login(r, kept)
      PROVE  SE!TypeOK'
  <2>1. [seData[r] EXCEPT !.login = TRUE] \in SeData
    <3>1. seData[r] \in SeData /\ TRUE \in BOOLEAN
      BY DEF SeInv, SeData
    <3> QED BY <3>1, SeLoginSet
  <2>2. seData' \in [SeRequests -> SeData]
    BY <1>2, <2>1 DEF SE!Login, SeInv, SeData
  <2>3. seRow' \in [SE!Sids -> SeRows \cup {Nothing}]
    BY <1>2 DEF SE!Login, SeInv, SeRows, SeData
  <2>4. seSids' \in 0 .. SeMaxSid /\ seSid' \in [SeRequests -> 0 .. SeMaxSid] /\ seUser' \subseteq SE!Sids
    BY <1>2 DEF SE!Login, SeInv, SE!Sids
  <2>5. /\ UNCHANGED <<seCookie, seRemember, seClock, seSent, seRecalled, seStale>>
        /\ sePc' \in [SeRequests -> {"start", "open", "save", "done"}]
        /\ seAsked' \in [SeRequests -> {"none", "set", "clear"}]
    BY <1>2 DEF SE!Login, SE!Browser, SE!Loads, SeInv
  <2> QED BY <2>2, <2>3, <2>4, <2>5 DEF SeInv, SeRows, SeData
<1>3. ASSUME NEW r \in SeRequests, SE!Logout(r) PROVE SE!TypeOK'
  <2>1. [seData[r] EXCEPT !.login = FALSE] \in SeData
    <3>1. seData[r] \in SeData /\ FALSE \in BOOLEAN
      BY DEF SeInv, SeData
    <3> QED BY <3>1, SeLoginSet
  <2>2. seData' \in [SeRequests -> SeData]
    BY <1>3, <2>1 DEF SE!Logout, SeInv, SeData
  <2>3. seAsked' \in [SeRequests -> {"none", "set", "clear"}]
    BY <1>3 DEF SE!Logout, SeInv
  <2> QED BY <1>3, <2>2, <2>3 DEF SE!Logout, SE!Rest, SE!Browser, SE!Loads,
       SeInv, SeData
<1>4. ASSUME NEW r \in SeRequests, SE!Note(r) PROVE SE!TypeOK'
  <2>1. [seData[r] EXCEPT !.marks = @ \cup {r}] \in SeData
    BY DEF SeInv, SeData
  <2>2. seData' \in [SeRequests -> SeData]
    BY <1>4, <2>1 DEF SE!Note, SeInv, SeData
  <2> QED BY <1>4, <2>2 DEF SE!Note, SE!Rest, SE!Browser, SE!Loads, SeInv,
       SeData
<1>5. ASSUME NEW r \in SeRequests, SE!Read(r) PROVE SE!TypeOK'
  BY <1>5 DEF SE!Read, SE!Rest, SE!Browser, SE!Loads, SeInv
<1>6. ASSUME NEW r \in SeRequests, SE!SaveSession(r) PROVE SE!TypeOK'
  <2>1. [data |-> seData[r], expiry |-> seClock + SeLifetime] \in SeRows
    BY DEF SeInv, SeRows, SeData
  <2>2. seRow' \in [SE!Sids -> SeRows \cup {Nothing}]
    BY <1>6, <2>1 DEF SE!SaveSession, SeInv, SeRows, SeData
  <2>3. seStale' \subseteq SeRequests
    BY <1>6 DEF SE!SaveSession, SeInv
  <2>4. seRemember' \in BOOLEAN
    BY <1>6 DEF SE!SaveSession
  <2>5. seCookie' \in 0 .. SeMaxSid /\ sePc' \in [SeRequests -> {"start", "open", "save", "done"}]
    BY <1>6 DEF SE!SaveSession, SeInv
  <2> QED BY <1>6, <2>2, <2>3, <2>4, <2>5 DEF SE!SaveSession, SE!Loads, SeInv,
       SeRows, SeData
<1>7. CASE SE!Tick
  <2>1. seRemember' \in BOOLEAN
    BY <1>7 DEF SE!Tick, SeInv
  <2>2. seCookie' \in 0 .. SeMaxSid /\ seClock' \in 0 .. SeMaxTime
    BY <1>7 DEF SE!Tick, SeInv
  <2> QED BY <1>7, <2>1, <2>2 DEF SE!Tick, SE!Loads, SeInv, SeData
<1>8. CASE UNCHANGED SE!vars
  BY <1>8 DEF SE!vars, SeInv
<1> QED BY <1>1, <1>2, <1>3, <1>4, <1>5, <1>6, <1>7, <1>8 DEF SE!Next

\* Every step keeps the invariant.
LEMMA SeInvNext == ASSUME SeConstantsOK, SeInv, [SE!Next]_(SE!vars), SE!TypeOK'
                   PROVE SeInv'
<1> USE DEF SeInv, SE!TypeOK, SeConstantsOK, SeUnder, SE!Sids, SeData
<1>1. ASSUME NEW r \in SeRequests, SE!OpenSession(r) PROVE SeInv'
  <2>1. seSids' \in 0 .. SeMaxSid /\ seSids' >= seSids
    BY <1>1 DEF SE!OpenSession
  <2>2. /\ seSid'[r] \in 1 .. seSids' /\ sePc[r] = "start" /\ sePc'[r] = "open"
        /\ \A q \in SeRequests \ {r} :
             seSid'[q] = seSid[q] /\ seData'[q] = seData[q] /\ sePc'[q] = sePc[q]
        /\ UNCHANGED <<seRow, seCookie, seUser, seStale>>
    BY <1>1 DEF SE!OpenSession, SE!Browser, SeGiven
  <2>3. seData'[r].login <=> (SE!Retrieved(seCookie).login \/ seRemember)
    BY <1>1, SeLoaded DEF SE!OpenSession
  <2>4. r \notin seRecalled' => ~seRemember \/ SE!Retrieved(seCookie).login
    BY <1>1 DEF SE!OpenSession
  <2>5. /\ seRecalled \subseteq seRecalled' /\ seRecalled' \subseteq seRecalled \cup {r}
        /\ r \in seRecalled' \ seRecalled => seData'[r].login
        /\ r \notin seRecalled
    BY <1>1, <2>2, <2>3 DEF SE!OpenSession, SeRemembered
  <2>6. seData'[r].login /\ r \notin seRecalled'
          => /\ seSid'[r] = seCookie /\ seRow[seCookie] # Nothing
             /\ seRow[seCookie].data.login /\ seCookie \in SE!Sids
    BY <1>1, <2>2, <2>3, <2>4, SeLoaded DEF SE!OpenSession
  <2>7. SeGiven'
    BY <2>1, <2>2 DEF SeGiven
  <2>8. SeRemembered'
    BY <2>2, <2>5 DEF SeRemembered
  <2>9. \A s \in 0 .. SeMaxSid : SeOfUser(s) => SeOfUser(s)'
    BY <2>2, <2>5 DEF SeOfUser
  <2>10. SeOwn'
    <3>1. \A s \in SE!Sids : seRow'[s] # Nothing /\ seRow'[s].data.login => SeOfUser(s)'
      BY <2>2, <2>9 DEF SeOwn
    <3>2. ASSUME NEW q \in SeRequests \ {r}, SeUnder(q)', seData'[q].login
          PROVE  SeOfUser(seSid[q])'
      BY <2>2, <2>9, <3>2 DEF SeOwn, SeOfUser
    <3>3. seData'[r].login => SeOfUser(seSid[r])'
      <4>1. CASE r \in seRecalled'
        BY <4>1 DEF SeOfUser
      <4>2. CASE seData'[r].login /\ r \notin seRecalled'
        BY <2>6, <2>2, <3>1, <4>2 DEF SeOfUser
      <4> QED BY <4>1, <4>2
    <3> QED BY <3>1, <3>2, <3>3 DEF SeOwn
  <2>11. SeKnown'
    BY <2>2, <2>5, <2>6 DEF SeKnown
  <2> QED BY <2>7, <2>8, <2>10, <2>11
<1>2. ASSUME NEW r \in SeRequests, NEW kept \in BOOLEAN, SE!Login(r, kept)
      PROVE  SeInv'
  <2>1. /\ seSids' = seSids + 1 /\ seSids' \in 1 .. SeMaxSid
        /\ seSid'[r] = seSids' /\ seUser' = seUser \cup {seSids'}
        /\ sePc[r] = "open" /\ ~seData[r].login /\ sePc'[r] = "save"
        /\ \A q \in SeRequests \ {r} :
             seSid'[q] = seSid[q] /\ seData'[q] = seData[q] /\ sePc'[q] = sePc[q]
        /\ UNCHANGED <<seCookie, seStale, seRecalled>>
        /\ seRow'[seSids'] = Nothing
        /\ \A s \in SE!Sids : seRow'[s] = seRow[s] \/ seRow'[s] = Nothing
    BY <1>2 DEF SE!Login, SE!Browser, SE!Loads, SeGiven
  <2>2. SeGiven'
    <3>1. seCookie' \in 0 .. seSids' /\ seUser' \subseteq 1 .. seSids'
      BY <2>1 DEF SeGiven
    <3>2. \A s \in SE!Sids : s > seSids' => seRow'[s] = Nothing
      BY <2>1 DEF SeGiven
    <3>3. ASSUME NEW q \in SeRequests, SeUnder(q)'
          PROVE seSid'[q] \in 1 .. seSids'
      <4>1. CASE q = r
        BY <2>1, <4>1
      <4>2. CASE q # r
        <5>1. SeUnder(q) /\ seSid'[q] = seSid[q]
          BY <2>1, <3>3, <4>2
        <5>2. seSid[q] \in 1 .. seSids /\ seSids \in Nat
          BY <5>1 DEF SeGiven
        <5> QED BY <5>1, <5>2, <2>1
      <4> QED BY <4>1, <4>2
    <3> QED BY <3>1, <3>2, <3>3 DEF SeGiven
  <2>3. r \notin seRecalled
    BY <2>1 DEF SeRemembered
  <2>4. SeRemembered'
    BY <2>1, <2>3 DEF SeRemembered
  <2>5. \A s \in 0 .. SeMaxSid : SeOfUser(s) => SeOfUser(s)'
    BY <2>1, <2>3 DEF SeOfUser
  <2>6. SeOwn'
    <3>1. \A s \in SE!Sids : seRow'[s] # Nothing /\ seRow'[s].data.login => SeOfUser(s)'
      BY <2>1, <2>5 DEF SeOwn
    <3>2. ASSUME NEW q \in SeRequests \ {r}, SeUnder(q)', seData'[q].login
          PROVE  SeOfUser(seSid[q])'
      BY <2>1, <2>5, <3>2 DEF SeOwn, SeOfUser
    <3>3. SeOfUser(seSid[r])'
      BY <2>1 DEF SeOfUser
    <3> QED BY <3>1, <3>2, <3>3 DEF SeOwn
  <2>7. SeKnown'
    <3> SUFFICES ASSUME NEW q \in SeRequests, SeUnder(q)', seData'[q].login,
                        seRow'[seSid'[q]] # Nothing, ~seRow'[seSid'[q]].data.login
                 PROVE  q \in seStale \cup seRecalled
      BY <2>1 DEF SeKnown
    <3>1. q # r
      BY <2>1
    <3>2. SeUnder(q) /\ seSid'[q] = seSid[q] /\ seSid[q] \in SE!Sids /\ seData'[q] = seData[q]
      BY <2>1, <3>1 DEF SeGiven
    <3> QED BY <2>1, <3>2 DEF SeKnown
  <2> QED BY <2>2, <2>4, <2>6, <2>7
<1>3. ASSUME NEW r \in SeRequests, SE!Logout(r) PROVE SeInv'
  <2>1. /\ ~seData'[r].login /\ sePc'[r] = "save"
        /\ \A q \in SeRequests \ {r} : seData'[q] = seData[q] /\ sePc'[q] = sePc[q]
        /\ \A q \in SeRequests : SeUnder(q)' <=> SeUnder(q)
        /\ UNCHANGED <<seRow, seSids, seSid, seCookie, seUser, seStale, seRecalled>>
    BY <1>3 DEF SE!Logout, SE!Rest, SE!Browser, SE!Loads
  <2>2. SeGiven' /\ SeRemembered'
    BY <2>1 DEF SeGiven, SeRemembered
  <2>3. SeOwn'
    BY <2>1 DEF SeOwn, SeOfUser
  <2>4. SeKnown'
    BY <2>1 DEF SeKnown
  <2> QED BY <2>2, <2>3, <2>4
<1>4. ASSUME NEW r \in SeRequests, SE!Note(r) PROVE SeInv'
  <2>1. /\ \A q \in SeRequests : seData'[q].login = seData[q].login
        /\ sePc'[r] = "save" /\ \A q \in SeRequests \ {r} : sePc'[q] = sePc[q]
        /\ \A q \in SeRequests : SeUnder(q)' <=> SeUnder(q)
        /\ UNCHANGED <<seRow, seSids, seSid, seCookie, seUser, seStale, seRecalled>>
    BY <1>4 DEF SE!Note, SE!Rest, SE!Browser, SE!Loads
  <2> QED BY <2>1 DEF SeGiven, SeRemembered, SeOwn, SeKnown, SeOfUser
<1>5. ASSUME NEW r \in SeRequests, SE!Read(r) PROVE SeInv'
  <2>1. /\ \A q \in SeRequests : SeUnder(q)' => SeUnder(q)
        /\ sePc'[r] \in {"save", "done"}
        /\ \A q \in SeRequests \ {r} : sePc'[q] = sePc[q]
        /\ UNCHANGED <<seRow, seSids, seSid, seData, seCookie, seUser, seStale, seRecalled>>
    BY <1>5 DEF SE!Read, SE!Rest, SE!Browser, SE!Loads
  <2> QED BY <2>1 DEF SeGiven, SeRemembered, SeOwn, SeKnown, SeOfUser
<1>6. ASSUME NEW r \in SeRequests, SE!SaveSession(r) PROVE SeInv'
  <2>1. /\ seSid[r] \in 1 .. seSids /\ seSid[r] \in SE!Sids /\ SeUnder(r) /\ sePc'[r] = "done"
        /\ seRow'[seSid[r]] = [data |-> seData[r], expiry |-> seClock + SeLifetime]
        /\ \A s \in SE!Sids \ {seSid[r]} : seRow'[s] = seRow[s] \/ seRow'[s] = Nothing
        /\ \A q \in SeRequests : SeUnder(q)' => SeUnder(q) /\ q # r
        /\ \A q \in SeRequests \ {r} : sePc'[q] = sePc[q]
        /\ seCookie' = seSid[r]
        /\ seStale \subseteq seStale'
        /\ UNCHANGED <<seSids, seSid, seData, seUser, seRecalled>>
    BY <1>6 DEF SE!SaveSession, SE!Loads, SeGiven
  <2>2. ~seData[r].login =>
          \A q \in SeRequests \ {r} : SeUnder(q) /\ seSid[q] = seSid[r] => q \in seStale'
    BY <1>6 DEF SE!SaveSession
  <2>3. seRow'[seSid[r]].data = seData[r]
    BY <2>1
  <2>4. SeGiven'
    BY <2>1 DEF SeGiven
  <2>5. SeRemembered'
    BY <2>1 DEF SeRemembered
  <2>6. SeOwn'
    <3>1. \A s \in SE!Sids : SeOfUser(s) <=> SeOfUser(s)'
      BY <2>1 DEF SeOfUser
    <3>2. ASSUME NEW s \in SE!Sids, seRow'[s] # Nothing, seRow'[s].data.login
          PROVE  SeOfUser(s)
      <4>1. CASE s = seSid[r]
        BY <2>1, <2>3, <3>2, <4>1 DEF SeOwn
      <4>2. CASE s # seSid[r]
        BY <2>1, <3>2, <4>2 DEF SeOwn
      <4> QED BY <4>1, <4>2
    <3>3. ASSUME NEW q \in SeRequests, SeUnder(q)', seData'[q].login
          PROVE  SeOfUser(seSid[q])'
      BY <2>1, <3>3 DEF SeOwn, SeOfUser
    <3> QED BY <3>1, <3>2, <3>3 DEF SeOwn
  <2>7. SeKnown'
    <3> SUFFICES ASSUME NEW q \in SeRequests, SeUnder(q)', seData[q].login,
                        seRow'[seSid[q]] # Nothing, ~seRow'[seSid[q]].data.login
                 PROVE  q \in seStale' \cup seRecalled
      BY <2>1 DEF SeKnown
    <3>1. SeUnder(q) /\ q # r /\ seSid[q] \in SE!Sids
      BY <2>1 DEF SeGiven
    <3>2. CASE seSid[q] = seSid[r]
      BY <2>2, <2>3, <3>1, <3>2
    <3>3. CASE seSid[q] # seSid[r]
      BY <2>1, <3>1, <3>3 DEF SeKnown
    <3> QED BY <3>2, <3>3
  <2> QED BY <2>4, <2>5, <2>6, <2>7
<1>7. CASE SE!Tick
  BY <1>7 DEF SE!Tick, SE!Loads, SeGiven, SeRemembered, SeOwn, SeKnown,
       SeOfUser
<1>8. CASE UNCHANGED SE!vars
  BY <1>8 DEF SE!vars, SeGiven, SeRemembered, SeOwn, SeKnown, SeOfUser
<1> QED BY <1>1, <1>2, <1>3, <1>4, <1>5, <1>6, <1>7, <1>8 DEF SE!Next

\* The invariant holds always.
LEMMA SeInvHolds == ASSUME SeConstantsOK PROVE SE!Spec => []SeInv
<1>1. SeInv /\ [SE!Next]_(SE!vars) => SeInv'
  BY SeTypeNext, SeInvNext
<1> QED BY <1>1, SeInitInv, PTL DEF SE!Spec

\* The sessions are well typed.
LEMMA SeTypeCorrect == ASSUME SeConstantsOK PROVE SE!Spec => []SE!TypeOK
BY SeInvHolds, PTL DEF SeInv

\* A login takes an id of its own, and what is stored without a user stays
\* so but for requests that had loaded it before or sent a remember cookie.
LEMMA SeLoginsFollowed == ASSUME SeConstantsOK
                          PROVE SE!Spec => SE!SessionsFollowLogins
<1> DEFINE Follow ==
      \A s \in SE!Sids :
        /\ seRow'[s] # Nothing /\ seRow'[s].data.login
        => /\ s \in seUser' \/ \E r \in seRecalled : seSid[r] = s
           /\ (seRow[s] # Nothing /\ ~seRow[s].data.login
               => \E r \in seStale \cup seRecalled :
                    seSid[r] = s /\ sePc[r] = "save" /\ sePc'[r] = "done")
<1>1. ASSUME SeInv, [SE!Next]_(SE!vars), SeInv' PROVE Follow
  <2> SUFFICES ASSUME NEW s \in SE!Sids, seRow'[s] # Nothing, seRow'[s].data.login
               PROVE  /\ s \in seUser' \/ \E r \in seRecalled : seSid[r] = s
                      /\ (seRow[s] # Nothing /\ ~seRow[s].data.login
                          => \E r \in seStale \cup seRecalled :
                               seSid[r] = s /\ sePc[r] = "save" /\ sePc'[r] = "done")
    OBVIOUS
  <2>1. CASE seRow'[s] = seRow[s]
    <3>1. SeOfUser(s) /\ seUser \subseteq seUser'
      BY <1>1, <2>1 DEF SeInv, SeOwn, SE!Next, SE!vars, SE!OpenSession,
           SE!Login, SE!Logout, SE!Note,
           SE!Read, SE!SaveSession, SE!Tick, SE!Rest
    <3> QED BY <2>1, <3>1 DEF SeOfUser
  <2>2. CASE seRow'[s] # seRow[s]
    <3>1. ASSUME NEW r \in SeRequests, NEW kept \in BOOLEAN, SE!Login(r, kept)
          PROVE  FALSE
      BY <2>2, <3>1, <1>1 DEF SE!Login, SeInv, SE!TypeOK
    <3>2. PICK r \in SeRequests : SE!SaveSession(r)
      BY <2>2, <3>1, <1>1 DEF SE!Next, SE!vars, SE!OpenSession, SE!Logout,
           SE!Note, SE!Read, SE!Tick, SE!Rest
    <3>3. /\ s = seSid[r] /\ seRow'[s].data = seData[r]
          /\ sePc[r] = "save" /\ sePc'[r] = "done" /\ UNCHANGED <<seUser, seSid, seRecalled>>
      BY <2>2, <3>2, <1>1 DEF SE!SaveSession, SE!Loads, SeInv, SE!TypeOK
    <3>4. SeOfUser(s)
      BY <3>3, <1>1 DEF SeInv, SeOwn, SeUnder
    <3>5. seRow[s] # Nothing /\ ~seRow[s].data.login => r \in seStale \cup seRecalled
      BY <3>3, <1>1 DEF SeInv, SeKnown, SeUnder
    <3> QED BY <3>3, <3>4, <3>5 DEF SeOfUser
  <2> QED BY <2>1, <2>2
<1>2. SeInv /\ [SE!Next]_(SE!vars) /\ SeInv' => [Follow]_(SE!vars)
  BY <1>1
<1> QED BY <1>2, SeInvHolds, PTL DEF SE!Spec, SE!SessionsFollowLogins

-----------------------------------------------------------------------------
(* Membership: a user holds one role in a group                            *)

\* The component counts as the other modules do.
LEMMA MeCardinality == \A S : ME!Cardinality(S) = Cardinality(S)
BY DEF ME!Cardinality, Cardinality

MeStates == {"active", "deleted"}
MeRows == [capacity : MeCapacities, state : MeStates]
MeWrites == [row : Nat, column : {"state", "capacity"}, to : MeCapacities \cup MeStates]
MeOps ==
  {"create", "delete", "user_delete", "group_delete", "group_delete_by_name",
   "save", "save_empty"}
MeCalls == [op : MeOps, writes : SUBSET MeWrites, adds : SUBSET MeCapacities]

\* Idle is no call.
MeConstantsOK == MeMaxRows \in Nat /\ Nothing \notin MeCalls

\* The writes fit the rows that are there.
MeFits(w, rs) ==
  /\ w.row \in DOMAIN rs
  /\ w.column = "state" => w.to \in MeStates
  /\ w.column = "capacity" => w.to \in MeCapacities

\* At most one row is added.
MeSingle(caps) == caps = {} \/ \E c \in MeCapacities : caps = {c}

MeTyped ==
  /\ meRows \in Seq(MeRows) /\ Len(meRows) <= MeMaxRows
  /\ meCall \in [MeRequests -> MeCalls \cup {Nothing}]
  /\ \A r \in MeRequests : meCall[r] # Nothing =>
       /\ MeSingle(meCall[r].adds)
       /\ \A w \in meCall[r].writes : MeFits(w, meRows)
  /\ meStale \subseteq MeRequests
  /\ meTorn \in BOOLEAN

MeOneActive(rs) == \A i, j \in ME!Active(rs) : i = j

MeResult(c) == ME!Written(meRows, c.writes) \o ME!Added(c.adds)
MeRemoves == {"delete", "save_empty", "user_delete", "group_delete"}

\* The rows are as they should be, and so they will be when a request that
\* is not stale has committed.
MeSound ==
  ~meTorn =>
    /\ MeOneActive(meRows) /\ ~ME!Doubled(meRows)
    /\ \A r \in MeRequests \ meStale : meCall[r] # Nothing =>
         /\ MeOneActive(MeResult(meCall[r]))
         /\ meCall[r].op \in MeRemoves => ME!Active(MeResult(meCall[r])) = {}

MeInv == MeTyped /\ MeSound

\* What Written returns is as long as the rows were.
LEMMA MeWrittenType ==
  ASSUME NEW rs \in Seq(MeRows), NEW ws \in SUBSET MeWrites,
         \A w \in ws : MeFits(w, rs)
  PROVE  /\ ME!Written(rs, ws) \in Seq(MeRows)
         /\ Len(ME!Written(rs, ws)) = Len(rs)
         /\ DOMAIN ME!Written(rs, ws) = DOMAIN rs
<1> DEFINE New(i, column) ==
      LET mine == {w \in ws : w.row = i /\ w.column = column} IN
      IF mine = {} THEN rs[i][column] ELSE (CHOOSE w \in mine : TRUE).to
<1>1. ME!Written(rs, ws) =
        [i \in DOMAIN rs |-> [capacity |-> New(i, "capacity"), state |-> New(i, "state")]]
  BY DEF ME!Written
<1>2. ASSUME NEW i \in DOMAIN rs
      PROVE  New(i, "capacity") \in MeCapacities /\ New(i, "state") \in MeStates
  <2> DEFINE mine(column) == {w \in ws : w.row = i /\ w.column = column}
  <2>1. rs[i] \in MeRows
    OBVIOUS
  <2>2. mine("capacity") # {} => (CHOOSE w \in mine("capacity") : TRUE) \in mine("capacity")
    OBVIOUS
  <2>3. mine("state") # {} => (CHOOSE w \in mine("state") : TRUE) \in mine("state")
    OBVIOUS
  <2>4. New(i, "capacity") \in MeCapacities
    BY <2>1, <2>2 DEF MeRows, MeFits
  <2>5. New(i, "state") \in MeStates
    BY <2>1, <2>3 DEF MeRows, MeFits
  <2> QED BY <2>4, <2>5
<1> HIDE DEF New
<1>3. DOMAIN rs = 1 .. Len(rs)
  OBVIOUS
<1> QED BY <1>1, <1>2, <1>3 DEF MeRows

\* The state of a row afterwards: the one written, or the one it had.
LEMMA MeWrittenState ==
  ASSUME NEW rs, NEW ws, NEW i \in DOMAIN rs, NEW v,
         \A w \in ws : w.row = i /\ w.column = "state" => w.to = v,
         (\E w \in ws : w.row = i /\ w.column = "state") \/ rs[i].state = v
  PROVE  ME!Written(rs, ws)[i].state = v
<1> DEFINE mine == {w \in ws : w.row = i /\ w.column = "state"}
<1>1. mine # {} => (CHOOSE w \in mine : TRUE) \in mine
  OBVIOUS
<1>2. ME!Written(rs, ws)[i].state =
        IF mine = {} THEN rs[i]["state"] ELSE (CHOOSE w \in mine : TRUE).to
  BY DEF ME!Written
<1>3. rs[i]["state"] = rs[i].state
  OBVIOUS
<1> QED BY <1>1, <1>2, <1>3

\* A result without an added row is what was written.
LEMMA MeNoneAdded ==
  ASSUME MeTyped, NEW ws \in SUBSET MeWrites, \A w \in ws : MeFits(w, meRows)
  PROVE  ME!Written(meRows, ws) \o ME!Added({}) = ME!Written(meRows, ws)
<1>1. ME!Written(meRows, ws) \in Seq(MeRows)
  BY MeWrittenType DEF MeTyped
<1> QED BY <1>1 DEF ME!Added

\* A result with an added row has it last, and it is active.
LEMMA MeOneAdded ==
  ASSUME MeTyped, NEW ws \in SUBSET MeWrites, \A w \in ws : MeFits(w, meRows),
         NEW c \in MeCapacities
  PROVE  LET new == ME!Written(meRows, ws) \o ME!Added({c}) IN
         /\ new \in Seq(MeRows)
         /\ Len(new) = Len(meRows) + 1
         /\ \A i \in DOMAIN meRows : new[i] = ME!Written(meRows, ws)[i]
<1>1. /\ ME!Written(meRows, ws) \in Seq(MeRows)
      /\ Len(ME!Written(meRows, ws)) = Len(meRows)
      /\ DOMAIN meRows = 1 .. Len(meRows)
  BY MeWrittenType DEF MeTyped
<1>2. ME!Added({c}) = <<[capacity |-> c, state |-> "active"]>>
  <2>1. (CHOOSE x \in {c} : TRUE) = c
    OBVIOUS
  <2> QED BY <2>1 DEF ME!Added
<1>3. [capacity |-> c, state |-> "active"] \in MeRows
  BY DEF MeRows, MeStates
<1> DEFINE W == ME!Written(meRows, ws)
           x == [capacity |-> c, state |-> "active"]
<1>4. ME!Added({c}) \in Seq(MeRows) /\ Len(ME!Added({c})) = 1
  BY <1>2, <1>3
<1> HIDE DEF W
<1>5. W \in Seq(MeRows) /\ Len(W) = Len(meRows) /\ DOMAIN meRows = 1 .. Len(W)
  BY <1>1 DEF W
<1>6. \A i \in 1 .. Len(W) : (W \o ME!Added({c}))[i] = W[i]
  BY <1>4, <1>5
<1>7. W \o ME!Added({c}) \in Seq(MeRows)
  BY <1>4, <1>5
<1>8. Len(W \o ME!Added({c})) = Len(meRows) + 1
  <2>1. \A s, t \in Seq(MeRows) : Len(s \o t) = Len(s) + Len(t)
    OBVIOUS
  <2> QED BY <2>1, <1>4, <1>5
<1> QED BY <1>5, <1>6, <1>7, <1>8 DEF W

\* The writes of State and Capacity fit.
LEMMA MeWriteFits ==
  ASSUME NEW i \in DOMAIN meRows, MeTyped
  PROVE  /\ \A to \in MeStates :
              /\ ME!State(i, to) \subseteq MeWrites
              /\ \A w \in ME!State(i, to) :
                   MeFits(w, meRows) /\ w.row = i /\ w.column = "state" /\ w.to = to
              /\ ME!State(i, to) = {} => meRows[i].state = to
         /\ \A to \in MeCapacities :
              /\ ME!Capacity(i, to) \subseteq MeWrites
              /\ \A w \in ME!Capacity(i, to) :
                   MeFits(w, meRows) /\ w.row = i /\ w.column = "capacity"
<1>1. i \in Nat
  BY DEF MeTyped
<1>2. meRows[i]["state"] = meRows[i].state /\ meRows[i]["capacity"] = meRows[i].capacity
  OBVIOUS
<1>3. ASSUME NEW to \in MeStates
      PROVE  ME!State(i, to) = IF meRows[i].state = to THEN {}
               ELSE {[row |-> i, column |-> "state", to |-> to]}
  BY <1>2 DEF ME!State, ME!Write
<1>4. ASSUME NEW to \in MeCapacities
      PROVE  ME!Capacity(i, to) = IF meRows[i].capacity = to THEN {}
               ELSE {[row |-> i, column |-> "capacity", to |-> to]}
  BY <1>2 DEF ME!Capacity, ME!Write
<1>5. ASSUME NEW to \in MeStates
      PROVE  /\ ME!State(i, to) \subseteq MeWrites
             /\ \A w \in ME!State(i, to) :
                  MeFits(w, meRows) /\ w.row = i /\ w.column = "state" /\ w.to = to
             /\ ME!State(i, to) = {} => meRows[i].state = to
  <2>1. CASE meRows[i].state = to
    BY <2>1, <1>3
  <2>2. CASE meRows[i].state # to
    <3>1. ME!State(i, to) = {[row |-> i, column |-> "state", to |-> to]}
      BY <2>2, <1>3
    <3>2. [row |-> i, column |-> "state", to |-> to] \in MeWrites
      BY <1>1 DEF MeWrites
    <3> QED BY <3>1, <3>2, <1>1 DEF MeFits
  <2> QED BY <2>1, <2>2
<1>6. ASSUME NEW to \in MeCapacities
      PROVE  /\ ME!Capacity(i, to) \subseteq MeWrites
             /\ \A w \in ME!Capacity(i, to) :
                  MeFits(w, meRows) /\ w.row = i /\ w.column = "capacity"
  BY <1>1, <1>4 DEF MeWrites, MeFits
<1> QED BY <1>5, <1>6

\* A request that has read is as sound as what it is to write.
LEMMA MeReadsInv ==
  ASSUME MeConstantsOK, MeInv, NEW r \in MeRequests, NEW op \in MeOps,
         NEW ws \in SUBSET MeWrites, NEW caps \in SUBSET MeCapacities,
         \A w \in ws : MeFits(w, meRows), MeSingle(caps), ME!Reads(r, op, ws, caps),
         ~meTorn => LET new == ME!Written(meRows, ws) \o ME!Added(caps) IN
                  MeOneActive(new) /\ (op \in MeRemoves => ME!Active(new) = {})
  PROVE  MeInv'
<1> DEFINE c == [op |-> op, writes |-> ws, adds |-> caps]
<1>1. c \in MeCalls /\ c # Nothing
  BY DEF MeCalls, MeConstantsOK
<1>2. /\ meCall'[r] = c
      /\ \A q \in MeRequests \ {r} : meCall'[q] = meCall[q]
      /\ meCall' \in [MeRequests -> MeCalls \cup {Nothing}]
  BY <1>1 DEF ME!Reads, MeInv, MeTyped
<1>3. MeTyped'
  BY <1>2 DEF ME!Reads, MeInv, MeTyped
<1>4. MeSound'
  <2>1. /\ meRows' = meRows /\ meTorn' = meTorn /\ meStale' = meStale \ {r}
    BY DEF ME!Reads
  <2>2. ASSUME NEW q \in MeRequests \ meStale', meCall'[q] # Nothing, ~meTorn
        PROVE  /\ MeOneActive(MeResult(meCall'[q]))
               /\ meCall'[q].op \in MeRemoves => ME!Active(MeResult(meCall'[q])) = {}
    <3>1. CASE q = r
      BY <1>2, <2>2, <3>1 DEF MeResult
    <3>2. CASE q # r
      BY <1>2, <2>1, <2>2, <3>2 DEF MeInv, MeSound
    <3> QED BY <3>1, <3>2
  <2>3. \A q \in MeRequests : MeResult(meCall[q])' = MeResult(meCall'[q])
    BY <2>1 DEF MeResult
  <2>4. (~meTorn)' => MeOneActive(meRows)' /\ ~ME!Doubled(meRows)'
    BY <2>1 DEF MeInv, MeSound
  <2> QED
    BY <2>1, <2>2, <2>3, <2>4 DEF MeSound
<1> QED BY <1>3, <1>4 DEF MeInv

\* What the last commit leaves active is one row at most, if nothing was.
LEMMA MeCreateInv ==
  ASSUME MeConstantsOK, MeInv, NEW r \in MeRequests, NEW cap \in MeCapacities,
         NEW self \in BOOLEAN, ME!MemberCreate(r, cap, self)
  PROVE  MeInv'
<1>1. CASE ME!Candidates = {}
  <2>1. ME!Reads(r, "create", {}, {cap})
    BY <1>1 DEF ME!MemberCreate
  <2>2. DOMAIN meRows = {}
    BY <1>1 DEF ME!Candidates, ME!Active
  <2>3. meRows \in Seq(MeRows) /\ Len(meRows) = 0
    BY <2>2 DEF MeInv, MeTyped
  <2>4. MeOneActive(ME!Written(meRows, {}) \o ME!Added({cap}))
    BY <2>3, MeOneAdded, \A w \in {} : MeFits(w, meRows) DEF MeOneActive,
         ME!Active, MeInv
  <2> QED
    BY <2>1, <2>4, MeReadsInv DEF MeSingle, MeOps, MeRemoves
<1>2. CASE ME!Candidates # {}
  <2>1. PICK i \in ME!Candidates :
          ME!Reads(r, "create", ME!State(i, "active") \cup ME!Capacity(i, cap), {})
    BY <1>2 DEF ME!MemberCreate
  <2> DEFINE ws == ME!State(i, "active") \cup ME!Capacity(i, cap)
             new == ME!Written(meRows, ws)
  <2>2. i \in DOMAIN meRows
    BY DEF ME!Candidates, ME!Active
  <2>3. /\ ws \in SUBSET MeWrites
        /\ \A w \in ws : MeFits(w, meRows) /\ w.row = i
        /\ \A w \in ws : w.column = "state" => w.to = "active"
        /\ (\E w \in ws : w.column = "state") \/ meRows[i].state = "active"
    BY <2>2, MeWriteFits DEF MeInv, MeStates
  <2> HIDE DEF ws
  <2>4. new[i].state = "active"
    BY <2>2, <2>3, MeWrittenState
  <2>5. ASSUME NEW j \in DOMAIN meRows, j # i
        PROVE new[j].state = meRows[j].state
    BY <2>3, <2>5, MeWrittenState
  <2>6. DOMAIN new = DOMAIN meRows
    BY <2>3, MeWrittenType DEF MeInv, MeTyped
  <2>7. ~meTorn => MeOneActive(new)
    <3> HIDE DEF new
    <3> QED BY <2>4, <2>5, <2>6, <2>2 DEF MeOneActive, ME!Active,
         ME!Candidates, MeInv, MeSound
  <2>8. new \o ME!Added({}) = new
    BY <2>3, MeNoneAdded DEF MeInv
  <2> QED
    <3>1. "create" \in MeOps /\ "create" \notin MeRemoves /\ MeSingle({})
      BY DEF MeOps, MeRemoves, MeSingle
    <3>2. ME!Reads(r, "create", ws, {})
      BY <2>1 DEF ws
    <3> HIDE DEF new
    <3> QED BY <2>3, <2>7, <2>8, <3>1, <3>2, MeReadsInv DEF new
<1> QED BY <1>1, <1>2

\* A deletion of a set of rows that has every active one leaves none.
LEMMA MeDeleteInv ==
  ASSUME MeConstantsOK, MeInv, NEW r \in MeRequests, NEW op \in MeOps,
         NEW is \in SUBSET DOMAIN meRows, ~meTorn => ME!Active(meRows) \subseteq is,
         ME!Reads(r, op, UNION {ME!State(i, "deleted") : i \in is}, {})
  PROVE  MeInv'
<1> DEFINE ws == UNION {ME!State(i, "deleted") : i \in is}
           new == ME!Written(meRows, ws)
<1>1. /\ ws \in SUBSET MeWrites
      /\ \A w \in ws : MeFits(w, meRows) /\ w.column = "state" /\ w.to = "deleted"
      /\ \A i \in is : (\E w \in ws : w.row = i) \/ meRows[i].state = "deleted"
  BY MeWriteFits DEF MeInv, MeStates
<1> HIDE DEF ws
<1>2. DOMAIN new = DOMAIN meRows
  BY <1>1, MeWrittenType DEF MeInv, MeTyped
<1>3. ~meTorn => ME!Active(new) = {}
  <2> SUFFICES ASSUME ~meTorn, NEW i \in DOMAIN meRows
               PROVE  new[i].state = "deleted"
    BY <1>2 DEF ME!Active
  <2>1. meRows[i].state \in MeStates
    <3>1. meRows[i] \in MeRows
      BY DEF MeInv, MeTyped
    <3> QED BY <3>1 DEF MeRows
  <2>2. (\E w \in ws : w.row = i) \/ meRows[i].state = "deleted"
    BY <1>1, <2>1 DEF ME!Active, MeStates
  <2>3. \A w \in ws : w.row = i /\ w.column = "state" => w.to = "deleted"
    BY <1>1
  <2>4. (\E w \in ws : w.row = i /\ w.column = "state") \/ meRows[i].state = "deleted"
    BY <1>1, <2>2
  <2> QED BY <2>3, <2>4, MeWrittenState
<1>4. new \o ME!Added({}) = new
  BY <1>1, MeNoneAdded DEF MeInv
<1> HIDE DEF new
<1>5. ~meTorn => MeOneActive(new)
  BY <1>3 DEF MeOneActive
<1> QED
  BY <1>1, <1>3, <1>4, <1>5, MeReadsInv DEF MeSingle, ws, new

\* group_member_save keeps the row of each capacity, and with it every row
\* when no capacity has two.
LEMMA MeSaveInv ==
  ASSUME MeConstantsOK, MeInv, NEW r \in MeRequests,
         NEW listed \in {{}} \cup {{c} : c \in MeCapacities},
         ME!SaveMembers(r, listed)
  PROVE  MeInv'
<1> DEFINE op == IF listed = {} THEN "save_empty" ELSE "save"
           To(c) == IF c \in listed THEN "active" ELSE "deleted"
<1>1. PICK kept \in [{meRows[i].capacity : i \in DOMAIN meRows} -> DOMAIN meRows] :
        /\ \A c \in DOMAIN kept : meRows[kept[c]].capacity = c
        /\ ME!Reads(r, op, UNION {ME!State(kept[c], To(c)) : c \in DOMAIN kept},
                 listed \ DOMAIN kept)
  BY DEF ME!SaveMembers
<1> DEFINE ws == UNION {ME!State(kept[c], To(c)) : c \in DOMAIN kept}
           caps == listed \ DOMAIN kept
           W == ME!Written(meRows, ws)
           new == W \o ME!Added(caps)
<1>2. \A i \in DOMAIN meRows : meRows[i] \in MeRows
  BY DEF MeInv, MeTyped
<1>3. /\ ws \in SUBSET MeWrites
      /\ \A w \in ws : MeFits(w, meRows) /\ w.column = "state"
      /\ \A w \in ws : \E c \in DOMAIN kept : w.row = kept[c] /\ w.to = To(c)
      /\ \A c \in DOMAIN kept :
           (\E w \in ws : w.row = kept[c]) \/ meRows[kept[c]].state = To(c)
  <2>1. ASSUME NEW c \in DOMAIN kept
        PROVE  /\ ME!State(kept[c], To(c)) \subseteq MeWrites
               /\ \A w \in ME!State(kept[c], To(c)) :
                    /\ MeFits(w, meRows) /\ w.row = kept[c]
                    /\ w.column = "state" /\ w.to = To(c)
               /\ ME!State(kept[c], To(c)) = {} => meRows[kept[c]].state = To(c)
    BY MeWriteFits DEF MeInv, MeStates
  <2>2. \A w \in ws : \E c \in DOMAIN kept : w \in ME!State(kept[c], To(c))
    OBVIOUS
  <2>3. \A c \in DOMAIN kept : ME!State(kept[c], To(c)) \subseteq ws
    OBVIOUS
  <2> HIDE DEF ws, To
  <2>4. \A w \in ws :
          /\ w \in MeWrites /\ MeFits(w, meRows) /\ w.column = "state"
          /\ \E c \in DOMAIN kept : w.row = kept[c] /\ w.to = To(c)
    BY <2>1, <2>2
  <2>5. ASSUME NEW c \in DOMAIN kept
        PROVE  (\E w \in ws : w.row = kept[c]) \/ meRows[kept[c]].state = To(c)
    <3>1. CASE ME!State(kept[c], To(c)) = {}
      BY <2>1, <3>1
    <3>2. CASE ME!State(kept[c], To(c)) # {}
      BY <2>1, <2>3, <3>2
    <3> QED BY <3>1, <3>2
  <2> QED BY <2>4, <2>5
<1> HIDE DEF ws
<1>4. W \in Seq(MeRows) /\ DOMAIN W = DOMAIN meRows /\ Len(W) = Len(meRows)
  BY <1>3, MeWrittenType DEF MeInv, MeTyped
\* Where no capacity has two rows, each row is the one that is kept.
<1>5. ASSUME ~meTorn, NEW i \in DOMAIN meRows
      PROVE  W[i].state = To(meRows[i].capacity)
  <2> DEFINE c == meRows[i].capacity
  <2>1. c \in DOMAIN kept /\ kept[c] \in DOMAIN meRows
    OBVIOUS
  <2>2. kept[c] = i
    BY <1>1, <1>5, <2>1 DEF MeInv, MeSound, ME!Doubled
  <2>3. \A w \in ws : w.row = i /\ w.column = "state" => w.to = To(c)
    BY <1>1, <1>3, <2>2
  <2>4. (\E w \in ws : w.row = i /\ w.column = "state") \/ meRows[i].state = To(c)
    BY <1>3, <2>1, <2>2
  <2> HIDE DEF To, c
  <2>5. W[i].state = To(c)
    BY <2>3, <2>4, MeWrittenState
  <2> QED BY <2>5 DEF c
<1>6. MeSingle(caps) /\ caps \in SUBSET MeCapacities
  BY DEF MeSingle
<1>7. ~meTorn => MeOneActive(new) /\ (op \in MeRemoves => ME!Active(new) = {})
  <2> SUFFICES ASSUME ~meTorn
               PROVE  MeOneActive(new) /\ (op \in MeRemoves => ME!Active(new) = {})
    OBVIOUS
  <2>1. CASE caps = {}
    <3>1. new = W
      BY <1>3, <2>1, MeNoneAdded DEF MeInv
    <3>2. \A i \in DOMAIN meRows : W[i].state = "active" => meRows[i].capacity \in listed
      BY <1>5
    <3>3. \A i, j \in ME!Active(W) : i = j
      BY <3>2, <1>4 DEF ME!Active, MeInv, MeSound, ME!Doubled
    <3>4. op \in MeRemoves => ME!Active(W) = {}
      BY <3>2, <1>4 DEF ME!Active, MeRemoves
    <3> QED BY <3>1, <3>3, <3>4 DEF MeOneActive
  <2>2. CASE caps # {}
    <3>1. PICK c \in MeCapacities : listed = {c} /\ caps = {c}
      BY <2>2
    <3>2. /\ new \in Seq(MeRows) /\ Len(new) = Len(meRows) + 1
          /\ \A i \in DOMAIN meRows : new[i] = W[i]
      <4>1. \A w \in ws : MeFits(w, meRows)
        BY <1>3
      <4> HIDE DEF caps
      <4>2. new = ME!Written(meRows, ws) \o ME!Added({c}) /\ W = ME!Written(meRows, ws)
        BY <3>1
      <4> HIDE DEF new, W
      <4> QED BY <1>3, <4>1, <4>2, MeOneAdded DEF MeInv
    <3>3. \A i \in DOMAIN meRows : W[i].state # "active"
      BY <1>5, <3>1
    <3>4. /\ DOMAIN new = 1 .. Len(meRows) + 1 /\ DOMAIN meRows = 1 .. Len(meRows)
          /\ Len(meRows) \in Nat
      BY <3>2 DEF MeInv, MeTyped
    <3> HIDE DEF new
    <3>5. \A i \in ME!Active(new) : i = Len(meRows) + 1
      BY <3>2, <3>3, <3>4 DEF ME!Active
    <3>6. op \notin MeRemoves
      BY <3>1 DEF MeRemoves
    <3> QED BY <3>5, <3>6 DEF MeOneActive
  <2> QED BY <2>1, <2>2
<1>8. op \in MeOps
  BY DEF MeOps
<1>9. ME!Reads(r, op, ws, caps)
  BY <1>1 DEF ws
<1> HIDE DEF op, caps
<1> QED BY <1>3, <1>6, <1>7, <1>8, <1>9, MeReadsInv

\* A commit leaves what the request was to leave.
LEMMA MeCommitInv ==
  ASSUME MeConstantsOK, MeInv, NEW r \in MeRequests, ME!Commit(r)
  PROVE  MeInv' /\ meRows' = MeResult(meCall[r]) /\ (~meTorn' => ~meTorn /\ r \notin meStale)
<1> DEFINE c == meCall[r]
<1>1. /\ c \in MeCalls /\ c # Nothing /\ MeSingle(c.adds)
      /\ \A w \in c.writes : MeFits(w, meRows)
      /\ c.writes \in SUBSET MeWrites
      /\ meRows \in Seq(MeRows)
  BY DEF ME!Commit, MeInv, MeTyped, MeCalls
<1>2. meRows' = MeResult(c)
  BY DEF ME!Commit, MeResult
<1>3. /\ meRows' \in Seq(MeRows) /\ Len(meRows') <= MeMaxRows
      /\ DOMAIN meRows \subseteq DOMAIN meRows'
  <2>1. CASE c.adds = {}
    <3>1. meRows' = ME!Written(meRows, c.writes)
      BY <1>1, <1>2, <2>1, MeNoneAdded DEF MeResult, MeInv
    <3> QED BY <3>1, <1>1, MeWrittenType DEF MeInv, MeTyped
  <2>2. CASE c.adds # {}
    <3>1. PICK x \in MeCapacities : c.adds = {x}
      BY <2>2, <1>1 DEF MeSingle
    <3>2. meRows' \in Seq(MeRows) /\ Len(meRows') = Len(meRows) + 1
      BY <3>1, <1>1, <1>2, MeOneAdded DEF MeResult, MeInv
    <3>3. ME!Cardinality(c.adds) = 1
      BY <3>1, FS_Singleton, MeCardinality
    <3>4. Len(meRows) + 1 <= MeMaxRows
      BY <3>3 DEF ME!Commit
    <3> QED BY <3>2, <3>4, <1>1
  <2> QED BY <2>1, <2>2
<1>4. /\ meCall'[r] = Nothing
      /\ \A q \in MeRequests \ {r} : meCall'[q] = meCall[q]
      /\ meCall' \in [MeRequests -> MeCalls \cup {Nothing}]
  BY DEF ME!Commit, MeInv, MeTyped
<1>5. MeTyped'
  <2>1. meStale' \subseteq MeRequests /\ meTorn' \in BOOLEAN
    BY DEF ME!Commit, MeInv, MeTyped, ME!Doubled
  <2>2. ASSUME NEW q \in MeRequests, meCall'[q] # Nothing
        PROVE  MeSingle(meCall'[q].adds) /\ \A w \in meCall'[q].writes : MeFits(w, meRows')
    BY <1>3, <1>4, <2>2 DEF MeInv, MeTyped, MeFits
  <2> QED BY <2>1, <2>2, <1>3, <1>4 DEF MeTyped
<1>6. meTorn' = (meTorn \/ r \in meStale \/ ME!Doubled(meRows'))
  BY DEF ME!Commit
<1>7. MeSound'
  <2> SUFFICES ASSUME ~meTorn'
               PROVE  /\ MeOneActive(meRows') /\ ~ME!Doubled(meRows')
                      /\ \A q \in MeRequests \ meStale' : meCall'[q] # Nothing =>
                           /\ MeOneActive(MeResult(meCall[q])')
                           /\ meCall'[q].op \in MeRemoves => ME!Active(MeResult(meCall[q])') = {}
    BY DEF MeSound, MeOneActive, ME!Active, ME!Doubled
  <2>1. ~meTorn /\ r \notin meStale /\ ~ME!Doubled(meRows')
    BY <1>6
  <2>2. MeOneActive(meRows')
    BY <2>1, <1>1, <1>2 DEF MeInv, MeSound
  <2>3. ASSUME NEW q \in MeRequests \ meStale', meCall'[q] # Nothing
        PROVE  /\ MeOneActive(MeResult(meCall[q])')
               /\ meCall'[q].op \in MeRemoves => ME!Active(MeResult(meCall[q])') = {}
    <3>1. q # r /\ meCall'[q] = meCall[q] /\ meCall[q] # Nothing
      BY <2>3, <1>4
    <3>2. meRows' = meRows /\ q \notin meStale
      BY <2>3, <3>1 DEF ME!Commit
    <3>3. MeResult(meCall[q])' = MeResult(meCall[q])
      BY <3>1, <3>2 DEF MeResult
    <3> QED BY <3>1, <3>2, <3>3, <2>1 DEF MeInv, MeSound
  <2> QED BY <2>1, <2>2, <2>3
<1> QED BY <1>2, <1>5, <1>6, <1>7 DEF MeInv

\* Every step keeps the invariant.
LEMMA MeInvNext == ASSUME MeConstantsOK, MeInv, [ME!Next]_(ME!vars)
                   PROVE MeInv'
<1>1. ASSUME NEW r \in MeRequests, NEW cap \in MeCapacities, NEW self \in BOOLEAN,
             ME!MemberCreate(r, cap, self)
      PROVE  MeInv'
  BY <1>1, MeCreateInv
<1>2. ASSUME NEW r \in MeRequests, ME!MemberDelete(r) PROVE MeInv'
  <2>1. CASE ME!Active(meRows) = {}
    <3>1. ME!Reads(r, "delete", UNION {ME!State(i, "deleted") : i \in {}}, {})
      BY <1>2, <2>1 DEF ME!MemberDelete
    <3> QED BY <3>1, <2>1, MeDeleteInv DEF MeOps
  <2>2. CASE ME!Active(meRows) # {}
    <3>1. PICK i \in ME!Active(meRows) : ME!Reads(r, "delete", ME!State(i, "deleted"), {})
      BY <1>2, <2>2 DEF ME!MemberDelete
    <3>2. UNION {ME!State(j, "deleted") : j \in {i}} = ME!State(i, "deleted")
      OBVIOUS
    <3>3. ~meTorn => ME!Active(meRows) \subseteq {i}
      BY DEF MeInv, MeSound, MeOneActive
    <3>4. {i} \in SUBSET DOMAIN meRows /\ "delete" \in MeOps
      BY DEF ME!Active, MeOps
    <3> QED BY <3>1, <3>2, <3>3, <3>4, MeDeleteInv
  <2> QED BY <2>1, <2>2
<1>3. ASSUME NEW r \in MeRequests, ME!UserDelete(r) PROVE MeInv'
  <2>1. ME!Active(meRows) \subseteq DOMAIN meRows /\ "user_delete" \in MeOps
    BY DEF ME!Active, MeOps
  <2> QED BY <1>3, <2>1, MeDeleteInv DEF ME!UserDelete
<1>4. ASSUME NEW r \in MeRequests, NEW ref \in {"id", "name"}, ME!GroupDelete(r, ref)
      PROVE  MeInv'
  <2>1. ME!Active(meRows) \in SUBSET DOMAIN meRows
    BY DEF ME!Active
  <2>2. CASE ref = "id"
    <3>1. /\ ME!Reads(r, "group_delete", UNION {ME!State(i, "deleted") : i \in ME!Active(meRows)}, {})
          /\ "group_delete" \in MeOps
      BY <1>4, <2>2 DEF ME!GroupDelete, MeOps
    <3> QED BY <3>1, <2>1, MeDeleteInv
  <2>3. CASE ref = "name"
    <3>1. /\ ME!Reads(r, "group_delete_by_name", {}, {})
          /\ "group_delete_by_name" \in MeOps \ MeRemoves
          /\ MeSingle({})
      BY <1>4, <2>3 DEF ME!GroupDelete, MeOps, MeRemoves, MeSingle
    <3>2. \A w \in {} : MeFits(w, meRows)
      OBVIOUS
    <3>3. ME!Written(meRows, {}) \o ME!Added({}) = ME!Written(meRows, {})
      BY <3>2, MeNoneAdded DEF MeInv
    <3>4. ~meTorn => MeOneActive(ME!Written(meRows, {}))
      <4>1. \A i \in DOMAIN meRows : ME!Written(meRows, {})[i].state = meRows[i].state
        BY MeWrittenState
      <4>2. DOMAIN ME!Written(meRows, {}) = DOMAIN meRows
        BY <3>2, MeWrittenType DEF MeInv, MeTyped
      <4> QED BY <4>1, <4>2 DEF MeOneActive, ME!Active, MeInv, MeSound
    <3> DEFINE W == ME!Written(meRows, {})
    <3>5. MeOneActive(W \o ME!Added({})) \/ meTorn
      BY <3>3, <3>4
    <3> QED BY <3>1, <3>2, <3>5, MeReadsInv DEF MeRemoves
  <2> QED BY <2>2, <2>3
<1>5. ASSUME NEW r \in MeRequests, NEW listed \in {{}} \cup {{c} : c \in MeCapacities},
             ME!SaveMembers(r, listed)
      PROVE  MeInv'
  BY <1>5, MeSaveInv
<1>6. ASSUME NEW r \in MeRequests, ME!Commit(r) PROVE MeInv'
  BY <1>6, MeCommitInv
<1>7. CASE UNCHANGED ME!vars
  BY <1>7 DEF ME!vars, MeInv, MeTyped, MeSound, MeResult
<1> QED BY <1>1, <1>2, <1>3, <1>4, <1>5, <1>6, <1>7 DEF ME!Next

\* The invariant holds always.
LEMMA MeInvHolds == ASSUME MeConstantsOK PROVE ME!Spec => []MeInv
<1>1. ASSUME MeConstantsOK, ME!Init PROVE MeInv
  <2>1. meRows = <<>> /\ DOMAIN meRows = {} /\ Len(meRows) = 0 /\ meRows \in Seq(MeRows)
    BY <1>1 DEF ME!Init
  <2>2. MeTyped
    <3>1. meCall \in [MeRequests -> MeCalls \cup {Nothing}] /\ \A r \in MeRequests : meCall[r] = Nothing
      BY <1>1 DEF ME!Init
    <3>2. meStale \subseteq MeRequests /\ meTorn \in BOOLEAN
      BY <1>1 DEF ME!Init
    <3>3. 0 <= MeMaxRows
      BY <1>1 DEF MeConstantsOK
    <3> QED BY <2>1, <3>1, <3>2, <3>3 DEF MeTyped
  <2>3. ME!Active(meRows) = {} /\ ~ME!Doubled(meRows)
    BY <2>1 DEF ME!Active, ME!Doubled
  <2> QED BY <2>2, <2>3, <1>1 DEF ME!Init, MeInv, MeSound, MeOneActive
<1>2. MeConstantsOK /\ MeInv /\ [ME!Next]_(ME!vars) => MeInv'
  BY MeInvNext
<1> QED BY <1>1, <1>2, PTL DEF ME!Spec

\* The rows and the calls are well typed.
LEMMA MeTypeCorrect == ASSUME MeConstantsOK PROVE ME!Spec => []ME!TypeOK
<1>1. MeInv => ME!TypeOK
  BY DEF MeInv, MeTyped, ME!TypeOK, MeCalls, MeRows, MeStates, MeFits
<1> QED BY <1>1, MeInvHolds, PTL

\* The request that a step ends is the one that commits.
LEMMA MeEnds ==
  ASSUME MeConstantsOK, MeInv, [ME!Next]_(ME!vars), MeInv',
         NEW r \in MeRequests, meCall[r] # Nothing, meCall'[r] = Nothing
  PROVE  ME!Commit(r)
<1>1. ASSUME NEW q \in MeRequests, NEW op, NEW ws, NEW caps, ME!Reads(q, op, ws, caps)
      PROVE  FALSE
  BY <1>1 DEF ME!Reads, MeInv, MeTyped
<1>2. ASSUME NEW q \in MeRequests, ME!Commit(q) PROVE q = r
  BY <1>2 DEF ME!Commit, MeInv, MeTyped
<1> QED
  BY <1>1, <1>2 DEF ME!Next, ME!vars, ME!MemberCreate, ME!MemberDelete,
       ME!UserDelete, ME!GroupDelete,
     ME!SaveMembers

\* Unless requests overlapped or a capacity was doubled, one role is left,
\* and none by what removes the user.
LEMMA MeRolesSingle == ASSUME MeConstantsOK PROVE ME!Spec => ME!RolesAreSingle
<1> DEFINE Once ==
      ~meTorn' =>
        /\ ME!Cardinality(ME!Active(meRows')) <= 1
        /\ \A r \in MeRequests :
             /\ meCall[r] # Nothing /\ meCall'[r] = Nothing
             /\ meCall[r].op \in {"delete", "save_empty", "user_delete", "group_delete"}
             => ME!Active(meRows') = {}
<1>1. ASSUME MeInv, [ME!Next]_(ME!vars), MeInv', MeConstantsOK PROVE Once
  <2> SUFFICES ASSUME ~meTorn'
               PROVE  /\ ME!Cardinality(ME!Active(meRows')) <= 1
                      /\ \A r \in MeRequests :
                           /\ meCall[r] # Nothing /\ meCall'[r] = Nothing
                           /\ meCall[r].op \in {"delete", "save_empty", "user_delete",
                                              "group_delete"}
                           => ME!Active(meRows') = {}
    OBVIOUS
  <2>1. \A i, j \in ME!Active(meRows') : i = j
    BY <1>1 DEF MeInv, MeSound, MeOneActive, ME!Active
  <2>2. ME!Cardinality(ME!Active(meRows')) <= 1
    <3>1. CASE ME!Active(meRows') = {}
      BY <3>1, FS_EmptySet, MeCardinality
    <3>2. CASE ME!Active(meRows') # {}
      <4>1. PICK i \in ME!Active(meRows') : ME!Active(meRows') = {i}
        BY <2>1, <3>2
      <4> QED BY <4>1, FS_Singleton, MeCardinality
    <3> QED BY <3>1, <3>2
  <2>3. ASSUME NEW r \in MeRequests, meCall[r] # Nothing, meCall'[r] = Nothing,
               meCall[r].op \in MeRemoves
        PROVE  ME!Active(meRows') = {}
    <3>1. ME!Commit(r)
      BY <1>1, <2>3, MeEnds
    <3>2. meRows' = MeResult(meCall[r]) /\ ~meTorn /\ r \notin meStale
      BY <1>1, <3>1, MeCommitInv
    <3> QED BY <2>3, <3>2, <1>1 DEF MeInv, MeSound
  <2> QED BY <2>2, <2>3 DEF MeRemoves
<1>2. MeConstantsOK /\ MeInv /\ [ME!Next]_(ME!vars) /\ MeInv' => [Once]_(ME!vars)
  BY <1>1
<1> QED BY <1>2, MeInvHolds, PTL DEF ME!Spec, ME!RolesAreSingle

-----------------------------------------------------------------------------
(* Accounts: what an invitation leaves is whole                            *)

AcPcs ==
  {"join", "invite", "mail_invite", "undo", "reset", "mail_reset", "form",
   "activate", "spend"}
AcCalls == [pc : AcPcs, user : AcUsers, key : 0 .. AcMaxKeys, admin : BOOLEAN]
AcAccts ==
  [state : {"none", "pending", "active", "deleted"}, key : 0 .. AcMaxKeys,
   member : BOOLEAN, password : 0 .. AcMaxKeys]

\* Idle is no call.
AcConstantsOK == AcMaxKeys \in Nat /\ Nothing \notin AcCalls

AcTyped ==
  /\ acUser \in [AcUsers -> AcAccts]
  /\ acKeys \in 0 .. AcMaxKeys
  /\ acMailbox \subseteq [user : AcUsers, key : 1 .. acKeys]
  /\ acCall \in [AcRequests -> AcCalls \cup {Nothing}]
  /\ \A r \in AcRequests : acCall[r] # Nothing => acCall[r].key \in 0 .. acKeys
  /\ \A r \in AcRequests :
       AC!At(r, "mail_invite") \/ AC!At(r, "mail_reset") => acCall[r].key >= 1
  /\ acRefused \cup acAdrift \subseteq AcUsers

AcInvites(r, u) == AC!Inviting(r) /\ acCall[r].user = u

\* An account is invited once: its state is never none again.
AcInvitedOnce ==
  \A u \in AcUsers, r \in AcRequests : AcInvites(r, u) =>
    /\ acUser[u].state # "none"
    /\ u \notin acRefused
    /\ \A q \in AcRequests : AcInvites(q, u) => q = r

\* Who was refused has no role, and is known.
AcRefusedOut ==
  \A u \in acRefused : ~acUser[u].member /\ acUser[u].state \notin {"none", "pending"}

\* A pending account is being invited, or a member.
AcPending ==
  \A u \in AcUsers \ acAdrift : acUser[u].state = "pending" =>
    \/ \E r \in AcRequests : AcInvites(r, u)
    \/ acUser[u].member

\* Past its first step an invitation has made the member.
AcJoined ==
  \A u \in AcUsers, r \in AcRequests :
    AcInvites(r, u) /\ ~AC!At(r, "join") /\ acUser[u].state = "pending" => acUser[u].member

AcInv == AcTyped /\ AcInvitedOnce /\ AcRefusedOut /\ AcPending /\ AcJoined

\* The invariant holds at first.
LEMMA AcInitInv == ASSUME AcConstantsOK, AC!Init PROVE AcInv
<1>1. \A r \in AcRequests : acCall[r] = Nothing
  BY DEF AC!Init
<1>2. \A u \in AcUsers : acUser[u].state = "none"
  BY DEF AC!Init
<1> QED
  BY <1>1, <1>2 DEF AcConstantsOK, AC!Init, AcInv, AcTyped, AcAccts,
       AcInvitedOnce, AcRefusedOut,
     AcPending, AcJoined, AcInvites, AC!Inviting, AC!At


\* An account as a member or not.
LEMMA AcSetMember ==
  ASSUME NEW a \in AcAccts, NEW b \in BOOLEAN
  PROVE  /\ [a EXCEPT !.member = b] \in AcAccts
         /\ [a EXCEPT !.member = b].state = a.state
         /\ [a EXCEPT !.member = b].member = b
         /\ [a EXCEPT !.member = b].key = a.key
BY DEF AcAccts

\* What setting one field of an account does.
LEMMA AcUpdated ==
  ASSUME AcTyped, NEW u \in AcUsers, NEW f \in {"state", "key", "member", "password"},
         NEW v, AC!Update(u, f, v),
         f = "state" => v \in {"pending", "active"},
         f = "key" => v \in 0 .. AcMaxKeys,
         f = "member" => v = TRUE,
         f = "password" => v \in 0 .. AcMaxKeys
  PROVE  /\ acUser' \in [AcUsers -> AcAccts]
         /\ \A w \in AcUsers \ {u} : acUser'[w] = acUser[w]
         /\ acUser'[u].state = IF f = "state" THEN v ELSE acUser[u].state
         /\ acUser'[u].member <=> (f = "member" \/ acUser[u].member)
         /\ acUser'[u].key = IF f = "key" THEN v ELSE acUser[u].key
<1>1. acUser[u] \in AcAccts /\ acUser' = [acUser EXCEPT ![u] = [acUser[u] EXCEPT ![f] = v]]
  BY DEF AcTyped, AC!Update
<1>2. \A w \in AcUsers \ {u} : acUser'[w] = acUser[w]
  BY <1>1 DEF AcTyped
<1>3. acUser'[u] = [acUser[u] EXCEPT ![f] = v]
  BY <1>1 DEF AcTyped
<1>4. CASE f = "state"
  <2>1. acUser'[u] = [state |-> v, key |-> acUser[u].key, member |-> acUser[u].member,
                    password |-> acUser[u].password]
    BY <1>1, <1>3, <1>4 DEF AcAccts
  <2>2. acUser'[u] \in AcAccts
    BY <1>1, <1>4, <2>1 DEF AcAccts
  <2>3. /\ acUser'[u].state = IF f = "state" THEN v ELSE acUser[u].state
        /\ acUser'[u].member <=> acUser[u].member
        /\ acUser'[u].key = acUser[u].key
    BY <1>4, <2>1
  <2>4. f # "member" /\ f # "key"
    BY <1>4
  <2>5. acUser' \in [AcUsers -> AcAccts]
    BY <1>1, <1>3, <2>2 DEF AcTyped
  <2> QED BY <1>2, <2>3, <2>4, <2>5
<1>5. CASE f = "key"
  <2>1. acUser'[u] = [state |-> acUser[u].state, key |-> v, member |-> acUser[u].member,
                    password |-> acUser[u].password]
    BY <1>1, <1>3, <1>5 DEF AcAccts
  <2>2. acUser'[u] \in AcAccts
    BY <1>1, <1>5, <2>1 DEF AcAccts
  <2>3. /\ acUser'[u].state = acUser[u].state
        /\ acUser'[u].member <=> acUser[u].member
        /\ acUser'[u].key = v
    BY <2>1
  <2>4. f # "member" /\ f # "state"
    BY <1>5
  <2>5. acUser' \in [AcUsers -> AcAccts]
    BY <1>1, <1>3, <2>2 DEF AcTyped
  <2> QED BY <1>2, <1>5, <2>3, <2>4, <2>5
<1>6. CASE f = "member"
  <2>1. acUser'[u] = [acUser[u] EXCEPT !.member = v] /\ v \in BOOLEAN
    BY <1>3, <1>6
  <2>2. /\ acUser'[u] \in AcAccts
        /\ acUser'[u].state = acUser[u].state /\ acUser'[u].member = v
        /\ acUser'[u].key = acUser[u].key
    <3>1. /\ [acUser[u] EXCEPT !.member = v] \in AcAccts
          /\ [acUser[u] EXCEPT !.member = v].state = acUser[u].state
          /\ [acUser[u] EXCEPT !.member = v].member = v
          /\ [acUser[u] EXCEPT !.member = v].key = acUser[u].key
      BY <1>1, <2>1, AcSetMember, Zenon
    <3> QED BY <2>1, <3>1, Zenon
  <2>3. acUser'[u].member = TRUE
    BY <1>6, <2>2, Zenon
  <2> QED BY <1>1, <1>2, <1>6, <2>2, <2>3 DEF AcTyped
<1>7. CASE f = "password"
  <2>1. acUser'[u] = [state |-> acUser[u].state, key |-> acUser[u].key,
                    member |-> acUser[u].member, password |-> v]
    BY <1>1, <1>3, <1>7 DEF AcAccts
  <2>2. acUser'[u] \in AcAccts
    BY <1>1, <1>7, <2>1 DEF AcAccts
  <2>3. /\ acUser'[u].state = IF f = "state" THEN v ELSE acUser[u].state
        /\ acUser'[u].member <=> acUser[u].member
        /\ acUser'[u].key = acUser[u].key
    BY <1>7, <2>1
  <2>4. f # "member" /\ f # "key"
    BY <1>7
  <2>5. acUser' \in [AcUsers -> AcAccts]
    BY <1>1, <1>3, <2>2 DEF AcTyped
  <2> QED BY <1>2, <2>3, <2>4, <2>5
<1> QED BY <1>4, <1>5, <1>6, <1>7

\* What the deletion of an account leaves of it.
LEMMA AcDeletedOne ==
  ASSUME AcTyped, NEW u \in AcUsers, acUser' = [acUser EXCEPT ![u] = AC!Deleted(@)]
  PROVE  /\ acUser' \in [AcUsers -> AcAccts]
         /\ \A w \in AcUsers \ {u} : acUser'[w] = acUser[w]
         /\ acUser'[u].state = "deleted" /\ ~acUser'[u].member
         /\ acUser'[u].key = acUser[u].key
<1>1. acUser[u] \in AcAccts
  BY DEF AcTyped
<1>2. LET a == [acUser[u] EXCEPT !.state = "deleted"] IN
      /\ a \in AcAccts /\ a.state = "deleted" /\ a.key = acUser[u].key
      /\ AC!Deleted(acUser[u]) = [a EXCEPT !.member = FALSE]
  <2>1. [acUser[u] EXCEPT !.state = "deleted"] \in AcAccts
    BY <1>1 DEF AcAccts
  <2> QED BY <1>1, <2>1 DEF AC!Deleted, AcAccts
<1>3. FALSE \in BOOLEAN
  OBVIOUS
<1>4. /\ AC!Deleted(acUser[u]) \in AcAccts
      /\ AC!Deleted(acUser[u]).state = "deleted"
      /\ AC!Deleted(acUser[u]).member = FALSE
      /\ AC!Deleted(acUser[u]).key = acUser[u].key
  BY <1>2, <1>3, AcSetMember
<1>5. acUser'[u] = AC!Deleted(acUser[u]) /\ \A w \in AcUsers \ {u} : acUser'[w] = acUser[w]
  BY DEF AcTyped
<1>6. acUser' \in [AcUsers -> AcAccts]
  BY <1>4 DEF AcTyped
<1> QED BY <1>4, <1>5, <1>6

\* The calls after a step of one request.
LEMMA AcMoved ==
  ASSUME AcTyped, NEW r \in AcRequests, NEW c \in AcCalls \cup {Nothing},
         acCall' = [acCall EXCEPT ![r] = c]
  PROVE  /\ acCall' \in [AcRequests -> AcCalls \cup {Nothing}]
         /\ acCall'[r] = c
         /\ \A q \in AcRequests \ {r} : acCall'[q] = acCall[q]
BY DEF AcTyped

\* A call that goes on, or takes a key.
LEMMA AcGone ==
  ASSUME AcConstantsOK, AcTyped, NEW r \in AcRequests, acCall[r] # Nothing, NEW pc \in AcPcs
  PROVE  /\ [acCall EXCEPT ![r].pc = pc] =
              [acCall EXCEPT ![r] = [acCall[r] EXCEPT !.pc = pc]]
         /\ [acCall[r] EXCEPT !.pc = pc] \in AcCalls \ {Nothing}
         /\ [acCall[r] EXCEPT !.pc = pc].pc = pc
         /\ [acCall[r] EXCEPT !.pc = pc].user = acCall[r].user
         /\ [acCall[r] EXCEPT !.pc = pc].key = acCall[r].key
         /\ [acCall[r] EXCEPT !.pc = pc].admin = acCall[r].admin
<1>1. acCall[r] \in AcCalls
  BY DEF AcTyped
<1>2. [acCall[r] EXCEPT !.pc = pc] =
        [pc |-> pc, user |-> acCall[r].user, key |-> acCall[r].key, admin |-> acCall[r].admin]
  BY <1>1 DEF AcCalls
<1>3. [acCall[r] EXCEPT !.pc = pc] \in AcCalls
  BY <1>1, <1>2 DEF AcCalls
<1> QED BY <1>2, <1>3 DEF AcConstantsOK

\* The types, from what a step leaves of calls and accounts.
LEMMA AcTypedStep ==
  ASSUME AcConstantsOK, AcTyped, NEW r \in AcRequests,
         acUser' \in [AcUsers -> AcAccts],
         acKeys' \in acKeys .. AcMaxKeys,
         acMailbox' \subseteq [user : AcUsers, key : 1 .. acKeys'],
         acCall' \in [AcRequests -> AcCalls \cup {Nothing}],
         \A q \in AcRequests \ {r} : acCall'[q] = acCall[q],
         acCall'[r] # Nothing => acCall'[r].key \in 0 .. acKeys',
         AC!At(r, "mail_invite")' \/ AC!At(r, "mail_reset")' => acCall'[r].key >= 1,
         (acRefused \cup acAdrift)' \subseteq AcUsers
  PROVE  AcTyped'
<1>1. ASSUME NEW q \in AcRequests, acCall'[q] # Nothing
      PROVE acCall'[q].key \in 0 .. acKeys'
  BY <1>1 DEF AcTyped, AcConstantsOK
<1>2. ASSUME NEW q \in AcRequests, AC!At(q, "mail_invite")' \/ AC!At(q, "mail_reset")'
      PROVE  acCall'[q].key >= 1
  BY <1>2 DEF AcTyped, AC!At
<1> QED BY <1>1, <1>2 DEF AcTyped, AcConstantsOK

\* Nothing but who is invited, who is pending and who is a member matters
\* to the rest: a step of a request r that begins no invitation, ends none
\* of u unless u is whole, and takes no member from a pending account.
LEMMA AcWholeStep ==
  ASSUME AcInv, AcTyped', NEW r \in AcRequests,
         \A q \in AcRequests \ {r} : acCall'[q] = acCall[q],
         \A u \in AcUsers : AcInvites(r, u)' => AcInvites(r, u),
         AC!Inviting(r)' => ~AC!At(r, "join")' /\
             (AC!At(r, "join") => acUser'[acCall[r].user].member),
         \A u \in AcUsers : acUser'[u].state = "pending" =>
             /\ acUser[u].state = "pending"
             /\ acUser[u].member => acUser'[u].member
             /\ AcInvites(r, u) /\ ~AC!Inviting(r)' =>
                  u \in acAdrift' \/ acUser'[u].member,
         \A u \in AcUsers : acUser[u].state # "none" => acUser'[u].state # "none",
         acRefused' = acRefused,
         \A u \in acRefused : ~acUser'[u].member /\ acUser'[u].state # "pending",
         acAdrift \subseteq acAdrift', acMailbox \subseteq acMailbox'
  PROVE  AcInv'
<1> USE DEF AcInv
<1>1. \A q \in AcRequests, u \in AcUsers : AcInvites(q, u)' => AcInvites(q, u)
  BY DEF AcInvites, AC!Inviting
<1>2. AcInvitedOnce'
  BY <1>1 DEF AcInvitedOnce
<1>3. AcRefusedOut'
  BY DEF AcRefusedOut, AcTyped
<1>4. AcPending'
  <2> SUFFICES ASSUME NEW u \in AcUsers, u \notin acAdrift', acUser'[u].state = "pending"
               PROVE  \/ \E q \in AcRequests : AcInvites(q, u)'
                      \/ acUser'[u].member
    BY DEF AcPending
  <2>1. CASE \E q \in AcRequests : AcInvites(q, u)
    <3>1. PICK q \in AcRequests : AcInvites(q, u)
      BY <2>1
    <3>2. CASE q # r
      BY <3>1, <3>2 DEF AcInvites, AC!Inviting
    <3>3. CASE q = r /\ AC!Inviting(r)'
      <4>1. AcInvites(r, u)'
        BY <3>1, <3>3 DEF AcInvites, AcTyped, AcCalls, AC!Inviting
      <4> QED BY <4>1
    <3>4. CASE q = r /\ ~AC!Inviting(r)'
      BY <3>1, <3>4
    <3> QED BY <3>2, <3>3, <3>4
  <2>2. CASE acUser[u].member
    BY <2>2
  <2> QED BY <2>1, <2>2 DEF AcPending
<1>5. AcJoined'
  <2> SUFFICES ASSUME NEW u \in AcUsers, NEW q \in AcRequests, AcInvites(q, u)',
                      ~AC!At(q, "join")', acUser'[u].state = "pending"
               PROVE  acUser'[u].member
    BY DEF AcJoined
  <2>1. CASE q # r
    BY <2>1 DEF AcJoined, AcInvites, AC!Inviting, AC!At
  <2>2. CASE q = r
    BY <1>1, <2>2 DEF AcJoined, AcInvites
  <2> QED BY <2>1, <2>2
<1> QED BY <1>2, <1>3, <1>4, <1>5

\* The facts of the account of a call, for its use.
LEMMA AcOfCall ==
  ASSUME AcTyped, NEW r \in AcRequests, acCall[r] # Nothing
  PROVE  /\ acCall[r] \in AcCalls /\ acCall[r].user \in AcUsers
         /\ acCall[r].key \in 0 .. acKeys /\ acCall[r].key \in 0 .. AcMaxKeys
BY DEF AcTyped, AcCalls

\* Such a step keeps the invariant: Invite.
LEMMA AcInviteInv ==
  ASSUME AcConstantsOK, AcInv, NEW r \in AcRequests, NEW u \in AcUsers,
         NEW admin \in BOOLEAN, AC!UserInvite(r, u, admin)
  PROVE  AcInv'
<1> DEFINE c == [pc |-> "join", user |-> u, key |-> 0, admin |-> admin]
<1>1. c \in AcCalls /\ c # Nothing
  BY DEF AcCalls, AcPcs, AcConstantsOK
<1>2. /\ acCall' \in [AcRequests -> AcCalls \cup {Nothing}]
      /\ acCall'[r] = c /\ \A q \in AcRequests \ {r} : acCall'[q] = acCall[q]
      /\ UNCHANGED <<acKeys, acMailbox, acRefused, acAdrift>>
  BY <1>1, AcMoved DEF AC!UserInvite, AcInv
<1>3. /\ acUser' \in [AcUsers -> AcAccts]
      /\ \A w \in AcUsers \ {u} : acUser'[w] = acUser[w]
      /\ acUser'[u].state = "pending" /\ acUser[u].state = "none"
      /\ acUser'[u].member <=> acUser[u].member
  BY AcUpdated DEF AC!UserInvite, AcInv
<1>4. AcTyped'
  <2>1. ~(AC!At(r, "mail_invite")' \/ AC!At(r, "mail_reset")')
    BY <1>2 DEF AC!At
  <2> QED BY <1>2, <1>3, <2>1, AcTypedStep DEF AcInv, AcTyped, AcConstantsOK
<1>5. /\ AcInvites(r, u)' /\ acCall[r] = Nothing
      /\ \A w \in AcUsers \ {u} : ~AcInvites(r, w)'
      /\ \A q \in AcRequests \ {r}, w \in AcUsers : AcInvites(q, w)' <=> AcInvites(q, w)
      /\ AC!At(r, "join")'
  BY <1>1, <1>2 DEF AcInvites, AC!Inviting, AC!At, AC!UserInvite
<1>6. /\ \A q \in AcRequests : ~AcInvites(q, u)
      /\ u \notin acRefused
  BY <1>3 DEF AcInv, AcInvitedOnce, AcRefusedOut
<1>7. AcInvitedOnce' /\ AcRefusedOut'
  BY <1>2, <1>3, <1>5, <1>6 DEF AcInv, AcInvitedOnce, AcRefusedOut, AcTyped
<1>8. AcPending'
  <2> SUFFICES ASSUME NEW w \in AcUsers \ acAdrift, acUser'[w].state = "pending"
               PROVE  \/ \E q \in AcRequests : AcInvites(q, w)'
                      \/ acUser'[w].member
    BY <1>2 DEF AcPending
  <2>1. CASE w # u
    <3>1. ~AcInvites(r, w)
      BY <1>5 DEF AcInvites, AC!Inviting
    <3> QED BY <1>3, <1>5, <2>1, <3>1 DEF AcInv, AcPending
  <2> QED BY <1>5, <2>1
<1>9. AcJoined'
  BY <1>2, <1>3, <1>5, <1>6 DEF AcInv, AcJoined, AC!At
<1> QED BY <1>4, <1>7, <1>8, <1>9 DEF AcInv

\* Such a step keeps the invariant: Member.
LEMMA AcMemberInv ==
  ASSUME AcConstantsOK, AcInv, NEW r \in AcRequests, AC!MemberCreate(r)
  PROVE  AcInv'
<1> DEFINE u == acCall[r].user
           c == [acCall[r] EXCEPT !.pc = "invite"]
<1>1. /\ acCall[r] # Nothing /\ acCall[r].pc = "join"
      /\ u \in AcUsers /\ acCall[r].key \in 0 .. acKeys
  BY AcOfCall DEF AC!MemberCreate, AC!At, AcInv
<1>2. /\ acCall' = [acCall EXCEPT ![r] = c]
      /\ c \in AcCalls \ {Nothing} /\ c.pc = "invite" /\ c.user = u /\ c.key = acCall[r].key
  BY <1>1, AcGone, "invite" \in AcPcs DEF AC!MemberCreate, AC!Go, AcInv, AcPcs
<1> HIDE DEF c
<1>3. /\ acCall' \in [AcRequests -> AcCalls \cup {Nothing}]
      /\ acCall'[r] = c /\ \A q \in AcRequests \ {r} : acCall'[q] = acCall[q]
  BY <1>2, AcMoved DEF AcInv
<1>4. /\ acUser' \in [AcUsers -> AcAccts]
      /\ \A w \in AcUsers \ {u} : acUser'[w] = acUser[w]
      /\ acUser'[u].state = acUser[u].state
      /\ acUser'[u].member
  BY <1>1, AcUpdated DEF AC!MemberCreate, AcInv
<1>5. UNCHANGED <<acKeys, acMailbox, acRefused, acAdrift>>
  BY DEF AC!MemberCreate
<1>6. AcTyped'
  <2>1. ~(AC!At(r, "mail_invite")' \/ AC!At(r, "mail_reset")')
    BY <1>2, <1>3 DEF AC!At
  <2> QED BY <1>1, <1>2, <1>3, <1>4, <1>5, <2>1, AcTypedStep DEF AcInv,
       AcTyped, AcConstantsOK
<1>7. AcInvites(r, u) /\ u \notin acRefused
  BY <1>1 DEF AcInvites, AC!Inviting, AcInv, AcInvitedOnce
<1>8. AC!Inviting(r)' /\ ~AC!At(r, "join")' /\ \A w \in AcUsers : AcInvites(r, w)' => AcInvites(r, w)
  BY <1>2, <1>3, <1>7 DEF AcInvites, AC!Inviting, AC!At
<1>9. \A w \in acRefused : ~acUser'[w].member /\ acUser'[w].state # "pending"
  BY <1>4, <1>7 DEF AcInv, AcRefusedOut, AcTyped
<1> QED BY <1>1, <1>3, <1>4, <1>5, <1>6, <1>8, <1>9, AcWholeStep

\* A step of a call that is not of an invitation, and leaves states and
\* members of the accounts, or activates one.
LEMMA AcPlainStep ==
  ASSUME AcConstantsOK, AcInv, AcTyped', NEW r \in AcRequests,
         \A q \in AcRequests \ {r} : acCall'[q] = acCall[q],
         ~AC!Inviting(r), ~AC!Inviting(r)',
         \A u \in AcUsers : acUser'[u].state \in {acUser[u].state, "active"}
                          /\ (acUser'[u].member <=> acUser[u].member),
         UNCHANGED <<acRefused, acAdrift>>, acMailbox \subseteq acMailbox'
  PROVE  AcInv'
<1>1. \A u \in acRefused : ~acUser'[u].member /\ acUser'[u].state # "pending"
  BY DEF AcInv, AcRefusedOut, AcTyped
<1>2. \A u \in AcUsers : ~AcInvites(r, u) /\ ~AcInvites(r, u)'
  BY DEF AcInvites
<1> QED BY <1>1, <1>2, AcWholeStep

\* Such a step keeps the invariant: Reset.
LEMMA AcResetInv ==
  ASSUME AcConstantsOK, AcInv, NEW r \in AcRequests, NEW u \in AcUsers, NEW k \in 0 .. acKeys,
         NEW pc \in {"reset", "form"}, acCall[r] = Nothing,
         acCall' = [acCall EXCEPT ![r] = [pc |-> pc, user |-> u, key |-> k, admin |-> FALSE]],
         UNCHANGED <<acUser, acKeys, acMailbox, acRefused, acAdrift>>
  PROVE  AcInv'
<1> DEFINE c == [pc |-> pc, user |-> u, key |-> k, admin |-> FALSE]
<1>1. c \in AcCalls
  BY DEF AcCalls, AcPcs, AcConstantsOK, AcInv, AcTyped
<1>2. /\ acCall' \in [AcRequests -> AcCalls \cup {Nothing}]
      /\ acCall'[r] = c /\ \A q \in AcRequests \ {r} : acCall'[q] = acCall[q]
  BY <1>1, AcMoved DEF AcInv
<1>3. AcTyped'
  <2>1. ~(AC!At(r, "mail_invite")' \/ AC!At(r, "mail_reset")')
    BY <1>2 DEF AC!At
  <2>2. acCall'[r].key \in 0 .. acKeys
    BY <1>2
  <2>3. acKeys \in acKeys .. AcMaxKeys
    BY DEF AcInv, AcTyped, AcConstantsOK
  <2> QED BY <1>2, <2>1, <2>2, <2>3, AcTypedStep DEF AcInv, AcTyped
<1>4. ~AC!Inviting(r) /\ ~AC!Inviting(r)'
  BY <1>2 DEF AC!Inviting
<1> QED BY <1>2, <1>3, <1>4, AcPlainStep

\* Such a step keeps the invariant: Key.
LEMMA AcKeyInv ==
  ASSUME AcConstantsOK, AcInv, NEW r \in AcRequests, AC!CreateResetKey(r)
  PROVE  AcInv'
<1> DEFINE u == acCall[r].user
           c == [pc |-> AC!MailPc(acCall[r].pc), user |-> u, key |-> acKeys + 1,
                 admin |-> acCall[r].admin]
<1>1. /\ acCall[r] \in AcCalls /\ acCall[r] # Nothing /\ acCall[r].pc \in {"invite", "reset"}
      /\ u \in AcUsers /\ acCall[r].admin \in BOOLEAN
      /\ acKeys' = acKeys + 1 /\ acKeys + 1 \in 1 .. AcMaxKeys
      /\ UNCHANGED <<acMailbox, acRefused, acAdrift>>
  BY AcOfCall DEF AC!CreateResetKey, AC!At, AcInv, AcTyped, AcConstantsOK,
       AcCalls
<1>2. acCall' = [acCall EXCEPT ![r] = c]
  <2> DEFINE a == [acCall[r] EXCEPT !.pc = AC!MailPc(acCall[r].pc)]
  <2>1. acCall \in [AcRequests -> AcCalls \cup {Nothing}]
    BY DEF AcInv, AcTyped
  <2>2. acCall' = [acCall EXCEPT ![r] = [a EXCEPT !.key = acKeys + 1]]
    BY <2>1 DEF AC!CreateResetKey
  <2>3. a = [pc |-> AC!MailPc(acCall[r].pc), user |-> u, key |-> acCall[r].key,
             admin |-> acCall[r].admin]
    BY <1>1 DEF AcCalls
  <2> HIDE DEF a
  <2>4. [a EXCEPT !.key = acKeys + 1] = c
    BY <2>3
  <2> QED BY <2>2, <2>4
<1>3. c \in AcCalls
  BY <1>1 DEF AcCalls, AC!MailPc, AcPcs
<1>4. /\ c.pc = AC!MailPc(acCall[r].pc) /\ c.user = u /\ c.key = acKeys + 1 /\ c # Nothing
  BY <1>3 DEF AcConstantsOK
<1> HIDE DEF c
<1>5. /\ acCall' \in [AcRequests -> AcCalls \cup {Nothing}]
      /\ acCall'[r] = c /\ \A q \in AcRequests \ {r} : acCall'[q] = acCall[q]
  BY <1>2, <1>3, AcMoved DEF AcInv
<1>6. /\ acUser' \in [AcUsers -> AcAccts]
      /\ \A w \in AcUsers : /\ acUser'[w].state = acUser[w].state
                            /\ acUser'[w].member <=> acUser[w].member
  <2>1. AC!Update(u, "key", acKeys + 1) /\ acKeys + 1 \in 0 .. AcMaxKeys /\ AcTyped
    BY <1>1 DEF AC!CreateResetKey, AcInv
  <2>2. /\ acUser' \in [AcUsers -> AcAccts]
        /\ \A w \in AcUsers \ {u} : acUser'[w] = acUser[w]
        /\ acUser'[u].state = acUser[u].state
        /\ acUser'[u].member <=> acUser[u].member
    BY <1>1, <2>1, AcUpdated
  <2> QED BY <2>2
<1>7. AcTyped'
  BY <1>1, <1>4, <1>5, <1>6, AcTypedStep DEF AcInv, AcTyped, AcConstantsOK
<1>8. CASE acCall[r].pc = "invite"
  <2>1. /\ AC!Inviting(r)' /\ ~AC!At(r, "join")' /\ ~AC!At(r, "join")
        /\ \A w \in AcUsers : AcInvites(r, w)' => AcInvites(r, w)
    BY <1>1, <1>4, <1>5, <1>8 DEF AcInvites, AC!Inviting, AC!At, AC!MailPc
  <2>2. \A w \in acRefused : ~acUser'[w].member /\ acUser'[w].state # "pending"
    <3>1. acRefused \subseteq AcUsers /\ AcRefusedOut
      BY DEF AcInv, AcTyped
    <3> QED BY <1>6, <3>1 DEF AcRefusedOut
  <2>3. \A w \in AcUsers :
          /\ acUser'[w].state = acUser[w].state
          /\ acUser[w].member => acUser'[w].member
    BY <1>6
  <2>4. /\ acRefused' = acRefused /\ acAdrift' = acAdrift /\ acMailbox' = acMailbox
        /\ \A q \in AcRequests \ {r} : acCall'[q] = acCall[q]
    BY <1>1, <1>5
  <2> QED BY <1>7, <2>1, <2>2, <2>3, <2>4, AcWholeStep
<1>9. CASE acCall[r].pc = "reset"
  <2>1. ~AC!Inviting(r) /\ ~AC!Inviting(r)'
    BY <1>1, <1>4, <1>5, <1>9 DEF AC!Inviting, AC!MailPc
  <2> QED BY <1>1, <1>5, <1>6, <1>7, <2>1, AcPlainStep
<1> QED BY <1>1, <1>8, <1>9

\* Such a step keeps the invariant: Mail.
LEMMA AcMailInv ==
  ASSUME AcConstantsOK, AcInv, NEW r \in AcRequests, AC!MailUser(r)
  PROVE  AcInv'
<1> DEFINE u == acCall[r].user
<1>1. /\ acCall[r] \in AcCalls /\ acCall[r] # Nothing /\ acCall[r].pc \in {"mail_invite", "mail_reset"}
      /\ u \in AcUsers /\ acCall[r].key \in 1 .. acKeys
      /\ UNCHANGED <<acUser, acKeys, acRefused, acAdrift>>
  BY AcOfCall DEF AC!MailUser, AC!Mailing, AC!At, AcInv, AcTyped, AcConstantsOK
<1>2. /\ acCall' \in [AcRequests -> AcCalls \cup {Nothing}]
      /\ acCall'[r] = Nothing /\ \A q \in AcRequests \ {r} : acCall'[q] = acCall[q]
  BY AcMoved DEF AC!MailUser, AC!End, AcInv
<1>3. /\ acMailbox \subseteq acMailbox'
      /\ acMailbox' \subseteq [user : AcUsers, key : 1 .. acKeys]
  <2> DEFINE m == [user |-> u, key |-> acCall[r].key]
  <2>1. acMailbox' \in {acMailbox, acMailbox \cup {m}}
    BY DEF AC!MailUser, AC!Delivered, AC!NotDelivered
  <2>2. m \in [user : AcUsers, key : 1 .. acKeys] /\ m.user = u
    BY <1>1
  <2> QED BY <2>1, <2>2 DEF AcInv, AcTyped
<1>4. AcTyped'
  <2>1. ~(AC!At(r, "mail_invite")' \/ AC!At(r, "mail_reset")')
    BY <1>2 DEF AC!At
  <2> QED BY <1>1, <1>2, <1>3, <2>1, AcTypedStep DEF AcInv, AcTyped,
       AcConstantsOK
<1>5. ~AC!Inviting(r)' /\ \A w \in AcUsers : ~AcInvites(r, w)'
  BY <1>2 DEF AC!Inviting, AcInvites
<1>6. \A w \in AcUsers : acUser[w].state = "pending" /\ AcInvites(r, w) =>
         acUser[w].member /\ w = u
  BY <1>1 DEF AcInv, AcJoined, AcInvites, AC!At
<1>7. \A w \in acRefused : ~acUser[w].member /\ acUser[w].state # "pending"
  BY DEF AcInv, AcRefusedOut
<1> QED BY <1>1, <1>2, <1>3, <1>4, <1>5, <1>6, <1>7, AcWholeStep

\* Such a step keeps the invariant: MailFails.
LEMMA AcMailFailsInv ==
  ASSUME AcConstantsOK, AcInv, NEW r \in AcRequests, AC!MailFails(r)
  PROVE  AcInv'
<1> DEFINE u == acCall[r].user
           m == [user |-> u, key |-> acCall[r].key]
           c == [acCall[r] EXCEPT !.pc = "undo"]
<1>1. /\ acCall[r] \in AcCalls /\ acCall[r] # Nothing /\ acCall[r].pc \in {"mail_invite", "mail_reset"}
      /\ u \in AcUsers /\ acCall[r].key \in 1 .. acKeys
      /\ UNCHANGED <<acUser, acKeys, acRefused, acAdrift>>
  BY AcOfCall DEF AC!MailFails, AC!Mailing, AC!At, AcInv, AcTyped,
       AcConstantsOK
<1>2. acMailbox' \in {acMailbox, acMailbox \cup {m}}
  BY DEF AC!MailFails, AC!Delivered, AC!NotDelivered
<1>3. m \in [user : AcUsers, key : 1 .. acKeys]
  BY <1>1
<1>4. /\ acMailbox \subseteq acMailbox'
      /\ acMailbox' \subseteq [user : AcUsers, key : 1 .. acKeys]
  BY <1>2, <1>3 DEF AcInv, AcTyped
<1>5. \A w \in acRefused : ~acUser[w].member /\ acUser[w].state # "pending"
  BY DEF AcInv, AcRefusedOut
<1>6. acKeys \in acKeys .. AcMaxKeys /\ (acRefused \cup acAdrift)' \subseteq AcUsers
  BY <1>1 DEF AcInv, AcTyped, AcConstantsOK
<1> HIDE DEF m
<1>7. CASE acCall[r].pc = "mail_invite"
  <2>1. /\ acCall' = [acCall EXCEPT ![r] = c]
        /\ c \in AcCalls \ {Nothing} /\ c.pc = "undo" /\ c.user = u /\ c.key = acCall[r].key
    BY <1>1, <1>7, AcGone, "undo" \in AcPcs DEF AC!MailFails, AC!Go, AcInv,
         AcPcs
  <2> HIDE DEF c
  <2>2. /\ acCall' \in [AcRequests -> AcCalls \cup {Nothing}]
        /\ acCall'[r] = c /\ \A q \in AcRequests \ {r} : acCall'[q] = acCall[q]
    BY <2>1, AcMoved DEF AcInv
  <2>3. AcTyped'
    <3>1. ~(AC!At(r, "mail_invite")' \/ AC!At(r, "mail_reset")') /\ acCall'[r].key \in 0 .. acKeys
      BY <1>1, <2>1, <2>2 DEF AC!At, AcInv, AcTyped
    <3> QED BY <1>1, <1>4, <1>6, <2>2, <3>1, AcTypedStep DEF AcInv, AcTyped
  <2>4. /\ AC!Inviting(r)' /\ ~AC!At(r, "join")' /\ ~AC!At(r, "join")
        /\ \A w \in AcUsers : AcInvites(r, w)' => AcInvites(r, w)
    BY <1>1, <1>7, <2>1, <2>2 DEF AcInvites, AC!Inviting, AC!At
  <2> QED BY <1>1, <1>4, <1>5, <2>2, <2>3, <2>4, AcWholeStep
<1>8. CASE acCall[r].pc = "mail_reset"
  <2>1. /\ acCall' \in [AcRequests -> AcCalls \cup {Nothing}]
        /\ acCall'[r] = Nothing /\ \A q \in AcRequests \ {r} : acCall'[q] = acCall[q]
    BY <1>8, AcMoved DEF AC!MailFails, AC!End, AcInv
  <2>2. AcTyped'
    <3>1. ~(AC!At(r, "mail_invite")' \/ AC!At(r, "mail_reset")')
      BY <2>1 DEF AC!At
    <3> QED BY <1>1, <1>4, <1>6, <2>1, <3>1, AcTypedStep DEF AcInv, AcTyped
  <2>3. ~AC!Inviting(r) /\ ~AC!Inviting(r)'
    BY <1>8, <2>1 DEF AC!Inviting
  <2> QED BY <1>1, <1>4, <2>1, <2>2, <2>3, AcPlainStep
<1> QED BY <1>1, <1>7, <1>8

\* Such a step keeps the invariant: Undo.
LEMMA AcUndoInv ==
  ASSUME AcConstantsOK, AcInv, NEW r \in AcRequests, AC!UndoInvite(r)
  PROVE  AcInv'
<1> DEFINE u == acCall[r].user
<1>1. /\ acCall[r] \in AcCalls /\ acCall[r] # Nothing /\ acCall[r].pc = "undo"
      /\ u \in AcUsers
      /\ UNCHANGED <<acKeys, acMailbox>>
  BY AcOfCall DEF AC!UndoInvite, AC!At, AcInv
<1>2. /\ acCall' \in [AcRequests -> AcCalls \cup {Nothing}]
      /\ acCall'[r] = Nothing /\ \A q \in AcRequests \ {r} : acCall'[q] = acCall[q]
  BY AcMoved DEF AC!UndoInvite, AC!End, AcInv
<1>3. /\ ~AC!At(r, "mail_invite")' /\ ~AC!At(r, "mail_reset")'
      /\ ~AC!Inviting(r)' /\ \A w \in AcUsers : ~AcInvites(r, w)'
  BY <1>2 DEF AC!At, AC!Inviting, AcInvites
<1>4. acKeys \in acKeys .. AcMaxKeys
  BY DEF AcInv, AcTyped, AcConstantsOK
<1>5. \A w \in AcUsers : AcInvites(r, w) => w = u
  BY DEF AcInvites
<1>6. AcInvites(r, u) /\ \A q \in AcRequests \ {r} : ~AcInvites(q, u)
  BY <1>1 DEF AcInvites, AC!Inviting, AcInv, AcInvitedOnce
<1>7. CASE acCall[r].admin
  <2>1. acUser' = [acUser EXCEPT ![u] = AC!Deleted(@)] /\ acRefused' = acRefused \cup {u} /\ acAdrift' = acAdrift
    BY <1>7 DEF AC!UndoInvite
  <2>2. /\ acUser' \in [AcUsers -> AcAccts]
        /\ \A w \in AcUsers \ {u} : acUser'[w] = acUser[w]
        /\ acUser'[u].state = "deleted" /\ ~acUser'[u].member
    BY <1>1, <2>1, AcDeletedOne DEF AcInv
  <2>3. AcTyped'
    <3>1. (acRefused \cup acAdrift)' \subseteq AcUsers
      BY <1>1, <2>1 DEF AcInv, AcTyped
    <3> QED BY <1>1, <1>2, <1>3, <1>4, <2>2, <3>1, AcTypedStep DEF AcInv,
         AcTyped
  <2>4. \A q \in AcRequests, w \in AcUsers : AcInvites(q, w)' => AcInvites(q, w) /\ w # u
    BY <1>2, <1>3, <1>6 DEF AcInvites, AC!Inviting
  <2>5. AcInvitedOnce'
    BY <2>1, <2>2, <2>4 DEF AcInv, AcInvitedOnce
  <2>6. AcRefusedOut'
    BY <2>1, <2>2 DEF AcInv, AcRefusedOut, AcTyped
  <2>7. AcPending'
    <3> SUFFICES ASSUME NEW w \in AcUsers \ acAdrift, w # u, acUser[w].state = "pending"
                 PROVE  \/ \E q \in AcRequests : AcInvites(q, w)'
                        \/ acUser[w].member
      BY <1>1, <2>1, <2>2 DEF AcPending
    <3>1. \A q \in AcRequests : AcInvites(q, w) => AcInvites(q, w)'
      BY <1>2, <1>5 DEF AcInvites, AC!Inviting
    <3> QED BY <3>1 DEF AcInv, AcPending
  <2>8. AcJoined'
    <3> SUFFICES ASSUME NEW w \in AcUsers, NEW q \in AcRequests, AcInvites(q, w)',
                        ~AC!At(q, "join")', acUser'[w].state = "pending"
                 PROVE  acUser'[w].member
      BY DEF AcJoined
    <3>1. q # r /\ w # u
      BY <1>3, <2>4
    <3> QED BY <1>2, <2>2, <2>4, <3>1 DEF AcInv, AcJoined, AC!At
  <2> QED BY <2>3, <2>5, <2>6, <2>7, <2>8 DEF AcInv
<1>8. CASE ~acCall[r].admin
  <2>1. acAdrift' = acAdrift \cup {u} /\ UNCHANGED <<acUser, acRefused>>
    BY <1>8 DEF AC!UndoInvite
  <2>2. AcTyped'
    <3>1. (acRefused \cup acAdrift)' \subseteq AcUsers
      BY <1>1, <2>1 DEF AcInv, AcTyped
    <3> QED BY <1>1, <1>2, <1>3, <1>4, <2>1, <3>1, AcTypedStep DEF AcInv,
         AcTyped
  <2>3. \A w \in acRefused : ~acUser[w].member /\ acUser[w].state # "pending"
    BY DEF AcInv, AcRefusedOut
  <2> QED BY <1>1, <1>2, <1>3, <1>5, <2>1, <2>2, <2>3, AcWholeStep
<1> QED BY <1>7, <1>8

\* Such a step keeps the invariant: UserDelete.
LEMMA AcUserDeleteInv ==
  ASSUME AcConstantsOK, AcInv, NEW u \in AcUsers, AC!UserDelete(u)
  PROVE  AcInv'
<1>1. /\ UNCHANGED <<acKeys, acMailbox, acCall, acRefused, acAdrift>>
      /\ acUser' = [acUser EXCEPT ![u] = AC!Deleted(@)]
  BY DEF AC!UserDelete
<1>2. /\ acUser' \in [AcUsers -> AcAccts]
      /\ \A w \in AcUsers \ {u} : acUser'[w] = acUser[w]
      /\ acUser'[u].state = "deleted" /\ ~acUser'[u].member
  BY <1>1, AcDeletedOne DEF AcInv
<1>3. AcTyped'
  BY <1>1, <1>2 DEF AcInv, AcTyped, AC!At
<1>4. \A q \in AcRequests, w \in AcUsers : AcInvites(q, w)' <=> AcInvites(q, w)
  BY <1>1 DEF AcInvites, AC!Inviting
<1>5. AcInvitedOnce' /\ AcRefusedOut'
  BY <1>1, <1>2, <1>4 DEF AcInv, AcInvitedOnce, AcRefusedOut, AcTyped
<1>6. AcPending'
  BY <1>1, <1>2, <1>4 DEF AcInv, AcPending
<1>7. AcJoined'
  BY <1>1, <1>2, <1>4 DEF AcInv, AcJoined, AC!At
<1> QED BY <1>3, <1>5, <1>6, <1>7 DEF AcInv

\* Such a step keeps the invariant: Password.
LEMMA AcPasswordInv ==
  ASSUME AcConstantsOK, AcInv, NEW r \in AcRequests, AC!SetPassword(r)
  PROVE  AcInv'
<1> DEFINE u == acCall[r].user
           pc == IF acUser[u].state = "pending" THEN "activate" ELSE "spend"
           c == [acCall[r] EXCEPT !.pc = pc]
<1>1. /\ acCall[r] # Nothing /\ acCall[r].pc = "form" /\ u \in AcUsers
      /\ acCall[r].key \in 0 .. acKeys /\ acCall[r].key \in 0 .. AcMaxKeys
      /\ UNCHANGED <<acKeys, acMailbox, acRefused, acAdrift>>
  BY AcOfCall DEF AC!SetPassword, AC!At, AcInv
<1>2. acKeys \in acKeys .. AcMaxKeys /\ ~AC!Inviting(r)
  BY <1>1 DEF AcInv, AcTyped, AcConstantsOK, AC!Inviting
<1>3. CASE AC!ActiveOthers(u) # {}
  <2>1. /\ acCall' \in [AcRequests -> AcCalls \cup {Nothing}]
        /\ acCall'[r] = Nothing /\ \A q \in AcRequests \ {r} : acCall'[q] = acCall[q]
        /\ acUser' = acUser
    BY <1>3, AcMoved DEF AC!SetPassword, AC!End, AcInv
  <2>2. /\ ~AC!At(r, "mail_invite")' /\ ~AC!At(r, "mail_reset")' /\ ~AC!Inviting(r)'
    BY <2>1 DEF AC!At, AC!Inviting
  <2>3. AcTyped'
    BY <1>1, <1>2, <2>1, <2>2, AcTypedStep DEF AcInv, AcTyped
  <2> QED BY <1>1, <1>2, <2>1, <2>2, <2>3, AcPlainStep
<1>4. CASE AC!ActiveOthers(u) = {}
  <2>1. AC!Update(u, "password", acCall[r].key) /\ AC!Go(r, pc)
    BY <1>4 DEF AC!SetPassword
  <2>2. /\ acUser' \in [AcUsers -> AcAccts]
        /\ \A w \in AcUsers \ {u} : acUser'[w] = acUser[w]
        /\ acUser'[u].state = acUser[u].state
        /\ acUser'[u].member <=> acUser[u].member
    BY <1>1, <2>1, AcUpdated DEF AcInv
  <2>3. /\ acCall' = [acCall EXCEPT ![r] = c]
        /\ c \in AcCalls \ {Nothing} /\ c.pc = pc /\ c.user = u /\ c.key = acCall[r].key
    BY <1>1, <2>1, AcGone, pc \in AcPcs DEF AC!Go, AcInv, AcPcs
  <2> HIDE DEF c
  <2>4. /\ acCall' \in [AcRequests -> AcCalls \cup {Nothing}]
        /\ acCall'[r] = c /\ \A q \in AcRequests \ {r} : acCall'[q] = acCall[q]
    BY <2>3, AcMoved DEF AcInv
  <2>5. /\ ~AC!At(r, "mail_invite")' /\ ~AC!At(r, "mail_reset")' /\ ~AC!Inviting(r)'
        /\ acCall'[r].key \in 0 .. acKeys
    BY <1>1, <2>3, <2>4 DEF AC!At, AC!Inviting
  <2>6. AcTyped'
    BY <1>1, <1>2, <2>2, <2>4, <2>5, AcTypedStep DEF AcInv, AcTyped
  <2> HIDE DEF u
  <2> QED BY <1>1, <1>2, <2>2, <2>4, <2>5, <2>6, AcPlainStep
<1> QED BY <1>3, <1>4

\* Such a step keeps the invariant: Activate.
LEMMA AcActivateInv ==
  ASSUME AcConstantsOK, AcInv, NEW r \in AcRequests, AC!Activate(r)
  PROVE  AcInv'
<1> DEFINE u == acCall[r].user
           c == [acCall[r] EXCEPT !.pc = "spend"]
<1>1. /\ acCall[r] # Nothing /\ acCall[r].pc = "activate" /\ u \in AcUsers
      /\ acCall[r].key \in 0 .. acKeys
      /\ UNCHANGED <<acKeys, acMailbox, acRefused, acAdrift>>
  BY AcOfCall DEF AC!Activate, AC!At, AcInv
<1>2. acKeys \in acKeys .. AcMaxKeys /\ ~AC!Inviting(r)
  BY <1>1 DEF AcInv, AcTyped, AcConstantsOK, AC!Inviting
<1>3. CASE AC!ActiveOthers(u) # {}
  <2>1. /\ acCall' \in [AcRequests -> AcCalls \cup {Nothing}]
        /\ acCall'[r] = Nothing /\ \A q \in AcRequests \ {r} : acCall'[q] = acCall[q]
        /\ acUser' = acUser
    BY <1>3, AcMoved DEF AC!Activate, AC!End, AcInv
  <2>2. /\ ~AC!At(r, "mail_invite")' /\ ~AC!At(r, "mail_reset")' /\ ~AC!Inviting(r)'
    BY <2>1 DEF AC!At, AC!Inviting
  <2>3. AcTyped'
    BY <1>1, <1>2, <2>1, <2>2, AcTypedStep DEF AcInv, AcTyped
  <2> QED BY <1>1, <1>2, <2>1, <2>2, <2>3, AcPlainStep
<1>4. CASE AC!ActiveOthers(u) = {}
  <2>1. AC!Update(u, "state", "active") /\ AC!Go(r, "spend")
    BY <1>4 DEF AC!Activate
  <2>2. /\ acUser' \in [AcUsers -> AcAccts]
        /\ \A w \in AcUsers \ {u} : acUser'[w] = acUser[w]
        /\ acUser'[u].state = "active"
        /\ acUser'[u].member <=> acUser[u].member
    BY <1>1, <2>1, AcUpdated DEF AcInv
  <2>3. /\ acCall' = [acCall EXCEPT ![r] = c]
        /\ c \in AcCalls \ {Nothing} /\ c.pc = "spend" /\ c.user = u /\ c.key = acCall[r].key
    BY <1>1, <2>1, AcGone, "spend" \in AcPcs DEF AC!Go, AcInv, AcPcs
  <2> HIDE DEF c
  <2>4. /\ acCall' \in [AcRequests -> AcCalls \cup {Nothing}]
        /\ acCall'[r] = c /\ \A q \in AcRequests \ {r} : acCall'[q] = acCall[q]
    BY <2>3, AcMoved DEF AcInv
  <2>5. /\ ~AC!At(r, "mail_invite")' /\ ~AC!At(r, "mail_reset")' /\ ~AC!Inviting(r)'
        /\ acCall'[r].key \in 0 .. acKeys
    BY <1>1, <2>3, <2>4 DEF AC!At, AC!Inviting
  <2>6. AcTyped'
    BY <1>1, <1>2, <2>2, <2>4, <2>5, AcTypedStep DEF AcInv, AcTyped
  <2> HIDE DEF u
  <2> QED BY <1>1, <1>2, <2>2, <2>4, <2>5, <2>6, AcPlainStep
<1> QED BY <1>3, <1>4

\* Such a step keeps the invariant: Spend.
LEMMA AcSpendInv ==
  ASSUME AcConstantsOK, AcInv, NEW r \in AcRequests, AC!Spend(r)
  PROVE  AcInv'
<1> DEFINE u == acCall[r].user
<1>1. /\ acCall[r] # Nothing /\ acCall[r].pc = "spend" /\ u \in AcUsers
      /\ acKeys' = acKeys + 1 /\ acKeys + 1 \in 1 .. AcMaxKeys
      /\ UNCHANGED <<acMailbox, acRefused, acAdrift>>
  BY AcOfCall DEF AC!Spend, AC!At, AcInv, AcTyped, AcConstantsOK
<1>2. /\ acCall' \in [AcRequests -> AcCalls \cup {Nothing}]
      /\ acCall'[r] = Nothing /\ \A q \in AcRequests \ {r} : acCall'[q] = acCall[q]
  BY AcMoved DEF AC!Spend, AC!End, AcInv
<1>3. /\ acUser' \in [AcUsers -> AcAccts]
      /\ \A w \in AcUsers \ {u} : acUser'[w] = acUser[w]
      /\ acUser'[u].state = acUser[u].state
      /\ acUser'[u].member <=> acUser[u].member
  <2>1. AC!Update(u, "key", acKeys + 1) /\ acKeys + 1 \in 0 .. AcMaxKeys /\ AcTyped
    BY <1>1 DEF AC!Spend, AcInv
  <2> QED BY <1>1, <2>1, AcUpdated
<1>4. /\ ~AC!At(r, "mail_invite")' /\ ~AC!At(r, "mail_reset")' /\ ~AC!Inviting(r)' /\ ~AC!Inviting(r)
  BY <1>1, <1>2 DEF AC!At, AC!Inviting
<1>5. AcTyped'
  <2>1. acKeys' \in acKeys .. AcMaxKeys /\ acMailbox' \subseteq [user : AcUsers, key : 1 .. acKeys']
    BY <1>1 DEF AcInv, AcTyped, AcConstantsOK
  <2>2. (acRefused \cup acAdrift)' \subseteq AcUsers
    BY <1>1 DEF AcInv, AcTyped
  <2> QED BY <1>2, <1>3, <1>4, <2>1, <2>2, AcTypedStep DEF AcInv
<1> HIDE DEF u
<1> QED BY <1>1, <1>2, <1>3, <1>4, <1>5, AcPlainStep

\* Such a step keeps the invariant: Crash.
LEMMA AcCrashInv ==
  ASSUME AcConstantsOK, AcInv, NEW r \in AcRequests, AC!Crash(r)
  PROVE  AcInv'
<1>1. /\ acCall[r] # Nothing /\ acCall[r].user \in AcUsers
      /\ acAdrift' = IF AC!Inviting(r) THEN acAdrift \cup {acCall[r].user} ELSE acAdrift
      /\ UNCHANGED <<acUser, acKeys, acMailbox, acRefused>>
  BY AcOfCall DEF AC!Crash, AcInv
<1>2. /\ acCall' \in [AcRequests -> AcCalls \cup {Nothing}]
      /\ acCall'[r] = Nothing /\ \A q \in AcRequests \ {r} : acCall'[q] = acCall[q]
  BY AcMoved DEF AC!Crash, AC!End, AcInv
<1>3. /\ ~AC!At(r, "mail_invite")' /\ ~AC!At(r, "mail_reset")' /\ ~AC!Inviting(r)'
      /\ \A w \in AcUsers : ~AcInvites(r, w)'
  BY <1>2 DEF AC!At, AC!Inviting, AcInvites
<1>4. AcTyped'
  <2>1. acKeys \in acKeys .. AcMaxKeys /\ (acRefused \cup acAdrift)' \subseteq AcUsers
    BY <1>1 DEF AcInv, AcTyped, AcConstantsOK
  <2> QED BY <1>1, <1>2, <1>3, <2>1, AcTypedStep DEF AcInv, AcTyped
<1>5. \A w \in AcUsers : AcInvites(r, w) => w \in acAdrift'
  BY <1>1 DEF AcInvites
<1>6. \A w \in acRefused : ~acUser[w].member /\ acUser[w].state # "pending"
  BY DEF AcInv, AcRefusedOut
<1>7. acAdrift \subseteq acAdrift'
  BY <1>1
<1> QED BY <1>1, <1>2, <1>3, <1>4, <1>5, <1>6, <1>7, AcWholeStep

\* Every step keeps the invariant.
LEMMA AcInvNext == ASSUME AcConstantsOK, AcInv, [AC!Next]_(AC!vars)
                   PROVE AcInv'
<1>1. ASSUME NEW r \in AcRequests, NEW u \in AcUsers, AC!RequestReset(r, u)
      PROVE AcInv'
  BY <1>1, AcResetInv, 0 \in 0 .. acKeys DEF AC!RequestReset, AcInv, AcTyped
<1>2. ASSUME NEW r \in AcRequests, NEW u \in AcUsers, NEW admin \in BOOLEAN,
             AC!UserInvite(r, u, admin)
      PROVE  AcInv'
  BY <1>2, AcInviteInv
<1>3. ASSUME NEW r \in AcRequests, NEW m \in acMailbox, AC!OpenReset(r, m)
      PROVE AcInv'
  <2>1. m.user \in AcUsers /\ m.key \in 0 .. acKeys
    BY DEF AcInv, AcTyped
  <2> QED BY <1>3, <2>1, AcResetInv DEF AC!OpenReset
<1>4. CASE UNCHANGED AC!vars
  BY <1>4 DEF AC!vars, AcInv, AcTyped, AcInvitedOnce, AcRefusedOut, AcPending,
       AcJoined, AcInvites,
     AC!Inviting, AC!At
<1> QED
  BY <1>1, <1>2, <1>3, <1>4, AcMemberInv, AcKeyInv, AcMailInv, AcMailFailsInv,
       AcUndoInv,
     AcPasswordInv, AcActivateInv, AcSpendInv, AcCrashInv, AcUserDeleteInv DEF AC!Next

-----------------------------------------------------------------------------
(* Keys: the last key of who is pending lets him in, or it is known why    *)
(* not.                                                                    *)

\* Only who is not there yet has no key, but for one who is being invited.
AcKeyed ==
  /\ \A u \in AcUsers : acUser[u].state = "none" => acUser[u].key = 0
  /\ \A u \in AcUsers \ acAdrift : acUser[u].state = "pending" /\ acUser[u].key = 0 =>
       \E r \in AcRequests :
         acCall[r] # Nothing /\ acCall[r].user = u /\ acCall[r].pc \in {"join", "invite"}

\* Calls are about accounts that are there; a key is spent on active ones.
AcServed ==
  \A r \in AcRequests : acCall[r] # Nothing =>
    /\ acUser[acCall[r].user].state # "none"
    /\ acCall[r].pc = "spend" => acUser[acCall[r].user].state # "pending"

AcTold(u) == acUser[u].key \in acUnsent \/ AC!Reached(u)
AcAllTold ==
  \A u \in AcUsers : acUser[u].state = "pending" /\ acUser[u].key # 0 => AcTold(u)

AcKeys == acUnsent \subseteq 1 .. acKeys /\ AcKeyed /\ AcServed /\ AcAllTold

LEMMA AcKeysInit == ASSUME AcConstantsOK, AC!Init PROVE AcKeys
<1>1. \A r \in AcRequests : acCall[r] = Nothing
  BY DEF AC!Init
<1>2. \A u \in AcUsers : acUser[u].state = "none" /\ acUser[u].key = 0
  BY DEF AC!Init
<1> QED BY <1>1, <1>2 DEF AcKeys, AcKeyed, AcServed, AcAllTold, AC!Init

\* A request goes on to its next step, or ends, and leaves the keys.
LEMMA AcKeysStep ==
  ASSUME AcTyped, AcTyped', AcKeys, NEW r \in AcRequests,
         \A q \in AcRequests \ {r} : acCall'[q] = acCall[q],
         \A u \in AcUsers :
           /\ acUser'[u].key = acUser[u].key
           /\ acUser'[u].state \in {acUser[u].state, "active", "deleted"}
           /\ acUser[u].state = "none" => acUser'[u].state = "none",
         acKeys' = acKeys, acMailbox \subseteq acMailbox', acAdrift \subseteq acAdrift',
         acUnsent \subseteq acUnsent', acUnsent' \subseteq acUnsent \cup {acCall[r].key},
         acUnsent' = acUnsent \/ acCall[r].key \in 1 .. acKeys,
         acCall'[r] # Nothing =>
           /\ acUser'[acCall'[r].user].state # "none"
           /\ acCall'[r].pc = "spend" => acUser'[acCall'[r].user].state # "pending",
         AC!Mailing(r) =>
           \/ acCall[r].key \in acUnsent'
           \/ \E m \in acMailbox' : m.user = acCall[r].user /\ m.key = acCall[r].key,
         acCall[r] # Nothing /\ acCall[r].pc \in {"join", "invite"} =>
           \/ acCall[r].user \in acAdrift'
           \/ acCall'[r] # Nothing /\ acCall'[r].user = acCall[r].user
              /\ acCall'[r].pc \in {"join", "invite"}
  PROVE  AcKeys'
<1>1. \A q \in AcRequests \ {r} : AC!Mailing(q)' <=> AC!Mailing(q)
  BY DEF AC!Mailing, AC!At
<1>2. ASSUME NEW u \in AcUsers, acUser'[u].state = "pending"
      PROVE  acUser[u].state = "pending"
  BY <1>2
<1>3. acUnsent' \subseteq 1 .. acKeys'
  BY DEF AcKeys
<1>4. AcKeyed'
  <2>1. ASSUME NEW u \in AcUsers \ acAdrift', acUser'[u].state = "pending", acUser'[u].key = 0
        PROVE  \E q \in AcRequests :
                 acCall'[q] # Nothing /\ acCall'[q].user = u /\ acCall'[q].pc \in {"join", "invite"}
    <3>1. PICK q \in AcRequests :
            acCall[q] # Nothing /\ acCall[q].user = u /\ acCall[q].pc \in {"join", "invite"}
      BY <1>2, <2>1 DEF AcKeys, AcKeyed
    <3> QED BY <2>1, <3>1
  <2>2. \A u \in AcUsers : acUser'[u].state = "none" => acUser[u].state = "none"
    OBVIOUS
  <2> QED BY <2>1, <2>2 DEF AcKeys, AcKeyed
<1>5. AcServed'
  <2> SUFFICES ASSUME NEW q \in AcRequests, acCall'[q] # Nothing
               PROVE  /\ acUser'[acCall'[q].user].state # "none"
                      /\ acCall'[q].pc = "spend" => acUser'[acCall'[q].user].state # "pending"
    BY DEF AcServed
  <2>1. CASE q # r
    <3>1. acCall'[q] = acCall[q] /\ acCall[q].user \in AcUsers
      BY <2>1 DEF AcTyped, AcCalls
    <3> QED BY <1>2, <3>1 DEF AcKeys, AcServed
  <2> QED BY <2>1
<1>6. AcAllTold'
  <2> SUFFICES ASSUME NEW u \in AcUsers, acUser'[u].state = "pending", acUser'[u].key # 0,
                      acUser'[u].key \notin acUnsent'
               PROVE  AC!Reached(u)'
    BY DEF AcAllTold, AcTold
  <2>1. AC!Reached(u) /\ acUser'[u].key = acUser[u].key /\ acUser[u].state = "pending"
    BY <1>2 DEF AcKeys, AcAllTold, AcTold
  <2>2. ASSUME NEW m \in acMailbox', m.user = u, m.key = acUser[u].key
        PROVE AC!Reached(u)'
    BY <2>1, <2>2 DEF AC!Reached, AC!LetsIn
  <2>3. CASE \E m \in acMailbox : m.user = u /\ AC!LetsIn(m)
    BY <2>2, <2>3 DEF AC!LetsIn
  <2>4. ASSUME NEW q \in AcRequests, AC!Mailing(q), acCall[q].user = u, acCall[q].key = acUser[u].key
        PROVE  AC!Reached(u)'
    <3>1. CASE q = r
      BY <2>1, <2>2, <2>4, <3>1
    <3>2. CASE q # r
      BY <1>1, <2>1, <2>4, <3>2 DEF AC!Reached
    <3> QED BY <3>1, <3>2
  <2> QED BY <2>1, <2>3, <2>4 DEF AC!Reached
<1> QED BY <1>3, <1>4, <1>5, <1>6 DEF AcKeys

\* A key is made: for a mail, or once a password is set.
LEMMA AcKeysMade ==
  ASSUME AcConstantsOK, AcTyped, AcTyped', AcKeys, NEW r \in AcRequests,
         AC!CreateResetKey(r) \/ AC!Spend(r)
  PROVE  AcKeys'
<1> DEFINE u == acCall[r].user
<1>1. /\ acCall[r] \in AcCalls /\ acCall[r] # Nothing /\ u \in AcUsers
      /\ acKeys \in Nat /\ acKeys' = acKeys + 1 /\ acKeys + 1 \in 1 .. AcMaxKeys
      /\ UNCHANGED <<acMailbox, acUnsent, acAdrift>> /\ AC!Update(u, "key", acKeys + 1)
  BY AcOfCall DEF AC!CreateResetKey, AC!Spend, AC!At, AcTyped, AcConstantsOK
<1>2. /\ acUser'[u].key = acKeys + 1 /\ acUser'[u].state = acUser[u].state
      /\ \A w \in AcUsers \ {u} : acUser'[w] = acUser[w]
  <2>1. acKeys + 1 \in 0 .. AcMaxKeys
    BY <1>1
  <2> HIDE DEF u
  <2> QED BY <1>1, <2>1, AcUpdated
<1>3. /\ \A q \in AcRequests \ {r} : acCall'[q] = acCall[q]
      /\ \/ AC!CreateResetKey(r) /\ acCall'[r] # Nothing /\ acCall'[r].key = acKeys + 1
            /\ acCall'[r].user = u /\ AC!Mailing(r)' /\ acCall'[r].pc # "spend"
         \/ acCall[r].pc = "spend" /\ acCall'[r] = Nothing
  <2>1. CASE AC!CreateResetKey(r)
    <3> DEFINE c == [pc |-> AC!MailPc(acCall[r].pc), user |-> u, key |-> acKeys + 1,
                     admin |-> acCall[r].admin]
    <3>1. acCall' = [acCall EXCEPT ![r] = c]
      <4> DEFINE a == [acCall[r] EXCEPT !.pc = AC!MailPc(acCall[r].pc)]
      <4>1. acCall \in [AcRequests -> AcCalls \cup {Nothing}]
        BY DEF AcTyped
      <4>2. acCall' = [acCall EXCEPT ![r] = [a EXCEPT !.key = acKeys + 1]]
        BY <2>1, <4>1 DEF AC!CreateResetKey
      <4>3. a = [pc |-> AC!MailPc(acCall[r].pc), user |-> u, key |-> acCall[r].key,
                 admin |-> acCall[r].admin]
        BY <1>1 DEF AcCalls
      <4> HIDE DEF a
      <4>4. [a EXCEPT !.key = acKeys + 1] = c
        BY <4>3
      <4> QED BY <4>2, <4>4
    <3>2. c.pc \in {"mail_invite", "mail_reset"} /\ c.key = acKeys + 1 /\ c.user = u
      BY DEF AC!MailPc
    <3>3. c \in AcCalls
      BY <1>1, <3>2 DEF AcCalls, AcPcs
    <3> HIDE DEF c
    <3>4. c # Nothing
      BY <3>3 DEF AcConstantsOK
    <3>5. acCall'[r] = c /\ \A q \in AcRequests \ {r} : acCall'[q] = acCall[q]
      BY <3>1 DEF AcTyped
    <3> QED BY <2>1, <3>2, <3>4, <3>5 DEF AC!Mailing, AC!At
  <2>2. CASE AC!Spend(r)
    BY <2>2 DEF AC!Spend, AC!End, AC!At, AcTyped
  <2> QED BY <2>1, <2>2
<1>4. acUser[u].state # "none" /\ (acCall[r].pc = "spend" => acUser[u].state # "pending")
  BY <1>1 DEF AcKeys, AcServed
<1>5. \A q \in AcRequests \ {r} : AC!Mailing(q)' <=> AC!Mailing(q)
  BY <1>3 DEF AC!Mailing, AC!At
<1>6. acUnsent' \subseteq 1 .. acKeys'
  BY <1>1 DEF AcKeys
<1>7. AcKeyed'
  <2> SUFFICES ASSUME NEW w \in AcUsers
               PROVE  /\ acUser'[w].state = "none" => acUser'[w].key = 0
                      /\ w \notin acAdrift /\ acUser'[w].state = "pending" /\ acUser'[w].key = 0 =>
                           \E q \in AcRequests : acCall'[q] # Nothing /\ acCall'[q].user = w
                             /\ acCall'[q].pc \in {"join", "invite"}
    BY <1>1 DEF AcKeyed
  <2>1. CASE w = u
    BY <1>1, <1>2, <1>4, <2>1
  <2>2. CASE w # u
    <3>1. acUser'[w] = acUser[w]
      BY <1>2, <2>2
    <3>2. ASSUME w \notin acAdrift, acUser[w].state = "pending", acUser[w].key = 0
          PROVE  \E q \in AcRequests : acCall'[q] # Nothing /\ acCall'[q].user = w
                   /\ acCall'[q].pc \in {"join", "invite"}
      <4>1. PICK q \in AcRequests :
              acCall[q] # Nothing /\ acCall[q].user = w /\ acCall[q].pc \in {"join", "invite"}
        BY <3>2 DEF AcKeys, AcKeyed
      <4>2. q # r
        BY <2>2, <4>1
      <4> QED BY <1>3, <4>1, <4>2
    <3> QED BY <3>1, <3>2 DEF AcKeys, AcKeyed
  <2> QED BY <2>1, <2>2
<1>8. AcServed'
  <2>1. \A w \in AcUsers : acUser'[w].state = acUser[w].state
    BY <1>2
  <2>2. \A q \in AcRequests : acCall[q] # Nothing => acCall[q].user \in AcUsers
    BY DEF AcTyped, AcCalls
  <2> QED BY <1>1, <1>3, <1>4, <2>1, <2>2 DEF AcKeys, AcServed
<1>9. AcAllTold'
  <2> SUFFICES ASSUME NEW w \in AcUsers, acUser'[w].state = "pending", acUser'[w].key # 0,
                      acUser'[w].key \notin acUnsent
               PROVE  AC!Reached(w)'
    BY <1>1 DEF AcAllTold, AcTold
  <2>1. CASE w = u
    BY <1>2, <1>3, <1>4, <2>1 DEF AC!Reached
  <2>2. CASE w # u
    <3>1. AC!Reached(w) /\ acUser'[w] = acUser[w]
      BY <1>2, <2>2 DEF AcKeys, AcAllTold, AcTold
    <3>2. ASSUME NEW m \in acMailbox, m.user = w, AC!LetsIn(m)
          PROVE AC!Reached(w)'
      BY <1>1, <3>1, <3>2 DEF AC!Reached, AC!LetsIn
    <3>3. ASSUME NEW q \in AcRequests, AC!Mailing(q), acCall[q].user = w, acCall[q].key = acUser[w].key
          PROVE  AC!Reached(w)'
      <4>1. q # r
        BY <2>2, <3>3
      <4> QED BY <1>3, <1>5, <3>1, <3>3, <4>1 DEF AC!Reached
    <3> QED BY <3>1, <3>2, <3>3 DEF AC!Reached
  <2> QED BY <2>1, <2>2
<1> QED BY <1>6, <1>7, <1>8, <1>9 DEF AcKeys

\* An account is made.
LEMMA AcKeysInvited ==
  ASSUME AcConstantsOK, AcTyped, AcKeys, NEW r \in AcRequests, NEW u \in AcUsers,
         NEW admin \in BOOLEAN, AC!UserInvite(r, u, admin)
  PROVE  AcKeys'
<1> DEFINE c == [pc |-> "join", user |-> u, key |-> 0, admin |-> admin]
<1>1. c \in AcCalls /\ c # Nothing /\ c.pc = "join" /\ c.user = u
  BY DEF AcCalls, AcPcs, AcConstantsOK
<1> HIDE DEF c
<1>2. /\ acCall' = [acCall EXCEPT ![r] = c]
      /\ UNCHANGED <<acKeys, acMailbox, acUnsent, acRefused, acAdrift>>
      /\ acUser[u].state = "none" /\ acCall[r] = Nothing
  BY DEF AC!UserInvite, c
<1>3. /\ acCall'[r] = c /\ \A q \in AcRequests \ {r} : acCall'[q] = acCall[q]
  BY <1>1, <1>2, AcMoved
<1>4. /\ \A w \in AcUsers \ {u} : acUser'[w] = acUser[w]
      /\ acUser'[u].state = "pending" /\ acUser'[u].key = acUser[u].key
  BY AcUpdated DEF AC!UserInvite
<1>5. acUser[u].key = 0
  BY <1>2 DEF AcKeys, AcKeyed
<1>6. AcKeyed'
  <2>1. ASSUME NEW w \in AcUsers \ acAdrift, w # u, acUser[w].state = "pending", acUser[w].key = 0
        PROVE  \E q \in AcRequests : acCall'[q] # Nothing /\ acCall'[q].user = w
                 /\ acCall'[q].pc \in {"join", "invite"}
    <3>1. PICK q \in AcRequests :
            acCall[q] # Nothing /\ acCall[q].user = w /\ acCall[q].pc \in {"join", "invite"}
      BY <2>1 DEF AcKeys, AcKeyed
    <3>2. q # r
      BY <1>2, <3>1
    <3> QED BY <1>3, <3>1, <3>2
  <2> QED BY <1>1, <1>2, <1>3, <1>4, <2>1 DEF AcKeys, AcKeyed
<1>7. AcServed'
  <2>1. \A q \in AcRequests : acCall[q] # Nothing => acCall[q].user \in AcUsers
    BY DEF AcTyped, AcCalls
  <2>2. \A q \in AcRequests : acCall[q] # Nothing => acCall[q].user # u
    BY <1>2 DEF AcKeys, AcServed
  <2> QED BY <1>1, <1>3, <1>4, <2>1, <2>2 DEF AcKeys, AcServed
<1>8. AcAllTold'
  <2> SUFFICES ASSUME NEW w \in AcUsers, w # u, acUser[w].state = "pending", acUser[w].key # 0,
                      acUser[w].key \notin acUnsent
               PROVE  AC!Reached(w)'
    BY <1>2, <1>4, <1>5 DEF AcAllTold, AcTold
  <2>1. AC!Reached(w) /\ acUser'[w] = acUser[w]
    BY <1>4 DEF AcKeys, AcAllTold, AcTold
  <2>2. \A q \in AcRequests : AC!Mailing(q) => AC!Mailing(q)' /\ acCall'[q] = acCall[q]
    BY <1>2, <1>3 DEF AC!Mailing, AC!At
  <2> QED BY <1>2, <2>1, <2>2 DEF AC!Reached, AC!LetsIn
<1> QED BY <1>2, <1>6, <1>7, <1>8 DEF AcKeys

\* An account is deleted.
LEMMA AcKeysDeleted ==
  ASSUME AcConstantsOK, AcTyped, AcKeys, NEW u \in AcUsers, AC!UserDelete(u)
  PROVE  AcKeys'
<1>1. UNCHANGED <<acKeys, acMailbox, acUnsent, acCall, acAdrift>> /\ acUser[u].state # "none"
  BY DEF AC!UserDelete
<1>2. /\ \A w \in AcUsers \ {u} : acUser'[w] = acUser[w]
      /\ acUser'[u].state = "deleted"
  BY AcDeletedOne DEF AC!UserDelete
<1>3. AcKeyed' /\ AcServed'
  <2>1. \A q \in AcRequests : acCall[q] # Nothing => acCall[q].user \in AcUsers
    BY DEF AcTyped, AcCalls
  <2> QED BY <1>1, <1>2, <2>1 DEF AcKeys, AcKeyed, AcServed
<1>4. AcAllTold'
  <2> SUFFICES ASSUME NEW w \in AcUsers, w # u, acUser[w].state = "pending", acUser[w].key # 0,
                      acUser[w].key \notin acUnsent
               PROVE  AC!Reached(w)'
    BY <1>1, <1>2 DEF AcAllTold, AcTold
  <2>1. AC!Reached(w) /\ acUser'[w] = acUser[w]
    BY <1>2 DEF AcKeys, AcAllTold, AcTold
  <2> QED BY <1>1, <2>1 DEF AC!Reached, AC!LetsIn, AC!Mailing, AC!At
<1> QED BY <1>1, <1>3, <1>4 DEF AcKeys

\* A mail, delivered or not.
LEMMA AcKeysMailed ==
  ASSUME AcConstantsOK, AcTyped, AcTyped', AcKeys, NEW r \in AcRequests, AC!Mailing(r),
         AC!Delivered(r) \/ AC!NotDelivered(r),
         AC!End(r) \/ (acCall[r].pc = "mail_invite" /\ AC!Go(r, "undo")),
         UNCHANGED <<acUser, acKeys, acAdrift>>
  PROVE  AcKeys'
<1>1. /\ acCall[r] \in AcCalls /\ acCall[r] # Nothing /\ acCall[r].user \in AcUsers
      /\ acCall[r].key \in 1 .. acKeys
      /\ acCall[r].pc \notin {"join", "invite"} /\ acUser[acCall[r].user].state # "none"
  BY AcOfCall DEF AC!Mailing, AC!At, AcTyped, AcKeys, AcServed
<1>2. /\ \A q \in AcRequests \ {r} : acCall'[q] = acCall[q]
      /\ \/ acCall'[r] = Nothing
         \/ acCall'[r].user = acCall[r].user /\ acCall'[r].pc # "spend"
  <2>1. CASE AC!End(r)
    BY <2>1 DEF AC!End, AcTyped
  <2>2. CASE AC!Go(r, "undo")
    <3> DEFINE c == [acCall[r] EXCEPT !.pc = "undo"]
    <3>1. acCall' = [acCall EXCEPT ![r] = c] /\ c.user = acCall[r].user /\ c.pc = "undo"
      BY <1>1, <2>2, AcGone, "undo" \in AcPcs DEF AC!Go, AcPcs
    <3> HIDE DEF c
    <3> QED BY <3>1 DEF AcTyped
  <2> QED BY <2>1, <2>2
<1>3. /\ acMailbox \subseteq acMailbox' /\ acUnsent \subseteq acUnsent'
      /\ acUnsent' \subseteq acUnsent \cup {acCall[r].key}
      /\ \/ acCall[r].key \in acUnsent'
         \/ \E m \in acMailbox' : m.user = acCall[r].user /\ m.key = acCall[r].key
  <2> DEFINE m == [user |-> acCall[r].user, key |-> acCall[r].key]
  <2>1. m.user = acCall[r].user /\ m.key = acCall[r].key
    OBVIOUS
  <2>2. \/ acMailbox' = acMailbox \cup {m} /\ acUnsent' = acUnsent
        \/ acMailbox' = acMailbox /\ acUnsent' = acUnsent \cup {acCall[r].key}
    BY DEF AC!Delivered, AC!NotDelivered
  <2> HIDE DEF m
  <2> QED BY <2>1, <2>2
<1> QED BY <1>1, <1>2, <1>3, AcKeysStep

\* The other steps of a request.
LEMMA AcKeysMoved ==
  ASSUME AcConstantsOK, AcInv, AcTyped', AcKeys, NEW r \in AcRequests,
         \/ AC!MemberCreate(r) \/ AC!UndoInvite(r) \/ AC!SetPassword(r) \/ AC!Activate(r)
         \/ AC!Crash(r)
  PROVE  AcKeys'
<1> DEFINE u == acCall[r].user
<1>1. /\ AcTyped /\ acCall[r] \in AcCalls /\ acCall[r] # Nothing /\ u \in AcUsers
      /\ acUser[u].state # "none"
  BY AcOfCall DEF AcInv, AC!MemberCreate, AC!UndoInvite, AC!SetPassword,
       AC!Activate, AC!Crash, AC!At,
                AcKeys, AcServed
<1> HIDE DEF u
<1>2. \A pc \in AcPcs : AC!Go(r, pc) =>
        /\ \A q \in AcRequests \ {r} : acCall'[q] = acCall[q]
        /\ acCall'[r] # Nothing /\ acCall'[r].pc = pc /\ acCall'[r].user = u
  <2> SUFFICES ASSUME NEW pc \in AcPcs, AC!Go(r, pc)
               PROVE  /\ \A q \in AcRequests \ {r} : acCall'[q] = acCall[q]
                      /\ acCall'[r] # Nothing /\ acCall'[r].pc = pc /\ acCall'[r].user = u
    OBVIOUS
  <2> DEFINE c == [acCall[r] EXCEPT !.pc = pc]
  <2>1. acCall' = [acCall EXCEPT ![r] = c] /\ c.user = u /\ c.pc = pc /\ c # Nothing
    BY <1>1, AcGone DEF AC!Go, u
  <2> HIDE DEF c
  <2> QED BY <1>1, <2>1 DEF AcTyped
<1>3. AC!End(r) => acCall'[r] = Nothing /\ \A q \in AcRequests \ {r} : acCall'[q] = acCall[q]
  BY <1>1 DEF AC!End, AcTyped
<1>4. CASE AC!MemberCreate(r)
  <2>1. /\ AC!Go(r, "invite") /\ acCall[r].pc = "join" /\ ~AC!Mailing(r)
        /\ UNCHANGED <<acKeys, acMailbox, acUnsent, acAdrift>>
        /\ AC!Update(u, "member", TRUE)
    BY <1>4 DEF AC!MemberCreate, AC!Mailing, AC!At, u
  <2>2. \A w \in AcUsers : acUser'[w].key = acUser[w].key /\ acUser'[w].state = acUser[w].state
    BY <1>1, <2>1, AcUpdated
  <2>3. /\ acCall'[r] # Nothing /\ acCall'[r].pc = "invite" /\ acCall'[r].user = u
        /\ \A q \in AcRequests \ {r} : acCall'[q] = acCall[q]
    BY <1>2, <2>1 DEF AcPcs
  <2> QED BY <1>1, <2>1, <2>2, <2>3, AcKeysStep DEF u
<1>5. CASE AC!UndoInvite(r)
  <2>1. /\ AC!End(r) /\ acCall[r].pc = "undo" /\ ~AC!Mailing(r)
        /\ UNCHANGED <<acKeys, acMailbox, acUnsent>> /\ acAdrift \subseteq acAdrift'
        /\ acUser' = [acUser EXCEPT ![u] = AC!Deleted(@)] \/ acUser' = acUser
    BY <1>5 DEF AC!UndoInvite, AC!Mailing, AC!At, u
  <2>2. \A w \in AcUsers : acUser'[w].key = acUser[w].key
                          /\ acUser'[w].state \in {acUser[w].state, "deleted"}
                          /\ (acUser[w].state = "none" => acUser'[w].state = "none")
    <3>1. CASE acUser' = acUser
      BY <3>1
    <3>2. CASE acUser' = [acUser EXCEPT ![u] = AC!Deleted(@)]
      BY <1>1, <3>2, AcDeletedOne
    <3> QED BY <2>1, <3>1, <3>2
  <2> QED BY <1>1, <1>3, <2>1, <2>2, AcKeysStep
<1>6. CASE AC!SetPassword(r)
  <2>1. /\ acCall[r].pc = "form" /\ ~AC!Mailing(r)
        /\ UNCHANGED <<acKeys, acMailbox, acUnsent, acAdrift>>
        /\ \/ UNCHANGED acUser /\ AC!End(r)
           \/ /\ AC!Update(u, "password", acCall[r].key)
              /\ AC!Go(r, IF acUser[u].state = "pending" THEN "activate" ELSE "spend")
    BY <1>6 DEF AC!SetPassword, AC!Mailing, AC!At, u
  <2>2. CASE UNCHANGED acUser /\ AC!End(r)
    BY <1>1, <1>3, <2>1, <2>2, AcKeysStep
  <2>3. CASE /\ AC!Update(u, "password", acCall[r].key)
             /\ AC!Go(r, IF acUser[u].state = "pending" THEN "activate" ELSE "spend")
    <3>1. \A w \in AcUsers : acUser'[w].key = acUser[w].key /\ acUser'[w].state = acUser[w].state
      <4>1. acCall[r].key \in 0 .. AcMaxKeys
        BY <1>1, AcOfCall
      <4>2. AC!Update(u, "password", acCall[r].key)
        BY <2>3
      <4>3. AcTyped /\ u \in AcUsers
        BY <1>1
      <4>4. /\ \A w \in AcUsers \ {u} : acUser'[w] = acUser[w]
            /\ acUser'[u].state = acUser[u].state
            /\ acUser'[u].key = acUser[u].key
        BY <4>1, <4>2, <4>3, AcUpdated
      <4> QED BY <4>4
    <3>2. /\ acCall'[r] # Nothing /\ acCall'[r].user = u
          /\ acCall'[r].pc = "spend" => acUser[u].state # "pending"
          /\ \A q \in AcRequests \ {r} : acCall'[q] = acCall[q]
      BY <1>2, <2>3 DEF AcPcs
    <3> QED BY <1>1, <2>1, <3>1, <3>2, AcKeysStep
  <2> QED BY <2>1, <2>2, <2>3
<1>7. CASE AC!Activate(r)
  <2>1. /\ acCall[r].pc = "activate" /\ ~AC!Mailing(r)
        /\ UNCHANGED <<acKeys, acMailbox, acUnsent, acAdrift>>
        /\ \/ UNCHANGED acUser /\ AC!End(r)
           \/ AC!Update(u, "state", "active") /\ AC!Go(r, "spend")
    BY <1>7 DEF AC!Activate, AC!Mailing, AC!At, u
  <2>2. CASE UNCHANGED acUser /\ AC!End(r)
    BY <1>1, <1>3, <2>1, <2>2, AcKeysStep
  <2>3. CASE AC!Update(u, "state", "active") /\ AC!Go(r, "spend")
    <3>1. /\ \A w \in AcUsers \ {u} : acUser'[w] = acUser[w]
          /\ acUser'[u].state = "active" /\ acUser'[u].key = acUser[u].key
      <4>1. AC!Update(u, "state", "active")
        BY <2>3
      <4>2. AcTyped /\ u \in AcUsers
        BY <1>1
      <4> QED BY <4>1, <4>2, AcUpdated
    <3>2. /\ acCall'[r] # Nothing /\ acCall'[r].user = u
          /\ \A q \in AcRequests \ {r} : acCall'[q] = acCall[q]
      BY <1>2, <2>3 DEF AcPcs
    <3> QED BY <1>1, <2>1, <3>1, <3>2, AcKeysStep
  <2> QED BY <2>1, <2>2, <2>3
<1>8. CASE AC!Crash(r)
  <2>1. /\ AC!End(r) /\ UNCHANGED <<acUser, acKeys, acMailbox>>
        /\ acAdrift' = IF AC!Inviting(r) THEN acAdrift \cup {u} ELSE acAdrift
        /\ acUnsent' = IF AC!Mailing(r) THEN acUnsent \cup {acCall[r].key} ELSE acUnsent
    BY <1>8 DEF AC!Crash, u
  <2>2. AC!Mailing(r) => acCall[r].key \in 1 .. acKeys
    BY <1>1 DEF AcTyped, AC!Mailing
  <2>3. acCall[r].pc \in {"join", "invite"} => u \in acAdrift'
    BY <1>1, <2>1 DEF AC!Inviting
  <2> QED BY <1>1, <1>3, <2>1, <2>2, <2>3, AcKeysStep DEF u
<1> QED BY <1>4, <1>5, <1>6, <1>7, <1>8

\* A reset begins.
LEMMA AcKeysReset ==
  ASSUME AcConstantsOK, AcTyped, AcTyped', AcKeys, NEW r \in AcRequests, NEW u \in AcUsers,
         NEW k \in 0 .. AcMaxKeys, NEW pc \in {"reset", "form"}, acCall[r] = Nothing,
         acCall' = [acCall EXCEPT ![r] = [pc |-> pc, user |-> u, key |-> k, admin |-> FALSE]],
         acUser[u].state # "none",
         UNCHANGED <<acUser, acKeys, acMailbox, acUnsent, acRefused, acAdrift>>
  PROVE  AcKeys'
<1> DEFINE c == [pc |-> pc, user |-> u, key |-> k, admin |-> FALSE]
<1>1. c \in AcCalls /\ c.user = u /\ c.pc # "spend"
  BY DEF AcCalls, AcPcs, AcConstantsOK
<1> HIDE DEF c
<1>2. acCall'[r] = c /\ \A q \in AcRequests \ {r} : acCall'[q] = acCall[q]
  BY <1>1, AcMoved DEF c
<1>3. ~AC!Mailing(r)
  BY DEF AC!Mailing, AC!At
<1> QED BY <1>1, <1>2, <1>3, AcKeysStep

LEMMA AcKeysNext == ASSUME AcConstantsOK, AcInv, AcInv', AcKeys,
                           [AC!Next]_(AC!vars)
                    PROVE AcKeys'
<1>1. AcTyped /\ AcTyped'
  BY DEF AcInv
<1>2. ASSUME NEW r \in AcRequests, NEW u \in AcUsers, AC!RequestReset(r, u)
      PROVE AcKeys'
  <2>1. 0 \in 0 .. AcMaxKeys /\ "reset" \in {"reset", "form"} /\ acUser[u].state # "none"
    BY <1>2 DEF AC!RequestReset, AcConstantsOK
  <2> QED BY <1>1, <1>2, <2>1, AcKeysReset DEF AC!RequestReset
<1>3. ASSUME NEW r \in AcRequests, NEW u \in AcUsers, NEW admin \in BOOLEAN,
             AC!UserInvite(r, u, admin)
      PROVE  AcKeys'
  BY <1>1, <1>3, AcKeysInvited
<1>4. ASSUME NEW r \in AcRequests, NEW m \in acMailbox, AC!OpenReset(r, m)
      PROVE AcKeys'
  <2>1. /\ m.user \in AcUsers /\ m.key \in 0 .. AcMaxKeys
        /\ "form" \in {"reset", "form"} /\ acUser[m.user].state # "none"
    BY <1>1, <1>4 DEF AC!OpenReset, AC!LetsIn, AcTyped, AcConstantsOK
  <2> QED BY <1>1, <1>4, <2>1, AcKeysReset DEF AC!OpenReset
<1>5. ASSUME NEW r \in AcRequests, AC!MailUser(r) \/ AC!MailFails(r)
      PROVE AcKeys'
  BY <1>1, <1>5, AcKeysMailed DEF AC!MailUser, AC!MailFails
<1>6. CASE UNCHANGED AC!vars
  BY <1>6 DEF AC!vars, AcKeys, AcKeyed, AcServed, AcAllTold, AcTold,
       AC!Reached, AC!LetsIn, AC!Mailing, AC!At
<1> QED BY <1>1, <1>2, <1>3, <1>4, <1>5, <1>6, AcKeysMade, AcKeysMoved,
     AcKeysDeleted DEF AC!Next

\* The invariant holds always.
LEMMA AcInvHolds == ASSUME AcConstantsOK PROVE AC!Spec => [](AcInv /\ AcKeys)
<1>1. AC!Init => AcInv /\ AcKeys
  BY AcInitInv, AcKeysInit
<1>2. AcInv /\ AcKeys /\ [AC!Next]_(AC!vars) => AcInv' /\ AcKeys'
  BY AcInvNext, AcKeysNext
<1> QED BY <1>1, <1>2, PTL DEF AC!Spec

\* The accounts, keys and calls are well typed.
LEMMA AcTypeCorrect == ASSUME AcConstantsOK PROVE AC!Spec => []AC!TypeOK
<1>1. AcInv /\ AcKeys => AC!TypeOK
  BY DEF AcInv, AcKeys, AcTyped, AC!TypeOK, AcAccts
<1> QED BY <1>1, AcInvHolds, PTL

\* What an invitation leaves once it is over is whole.
LEMMA AcInvitationsWhole == ASSUME AcConstantsOK
                            PROVE AC!Spec => []AC!InvitationsAreWhole
<1>1. ASSUME AcInv, AcKeys PROVE AC!InvitationsAreWhole
  <2>1. \A u \in acRefused : ~acUser[u].member
    BY <1>1 DEF AcInv, AcRefusedOut
  <2>2. ASSUME NEW u \in AcUsers \ acAdrift, acUser[u].state = "pending",
               ~ \E r \in AcRequests : AC!Inviting(r) /\ acCall[r].user = u
        PROVE  acUser[u].member /\ AcTold(u)
    <3>1. acUser[u].member
      BY <1>1, <2>2 DEF AcInv, AcPending, AcInvites
    <3>2. acUser[u].key # 0
      BY <1>1, <2>2 DEF AcKeys, AcKeyed, AC!Inviting
    <3> QED BY <1>1, <2>2, <3>1, <3>2 DEF AcKeys, AcAllTold
  <2> QED BY <2>1, <2>2 DEF AC!InvitationsAreWhole, AcTold
<1> QED BY <1>1, AcInvHolds, PTL

-----------------------------------------------------------------------------
(* Notifications: an activity is told once                                 *)

\* The component counts as the other modules do.
LEMMA NoCardinality == \A S : NO!Cardinality(S) = Cardinality(S)
BY DEF NO!Cardinality, Cardinality

NoCalls == [pc : {"mail", "stamp", "mark"}, told : SUBSET Nat, saw : SUBSET Nat, nr : Nat]
NoActs == [time : 1 .. noNow, own : BOOLEAN, committed : BOOLEAN]

\* Nothing is no call.
NoConstantsOK == NoMaxRuns \in Nat /\ Nothing \notin NoCalls

NoTyped ==
  /\ noNow \in Nat
  /\ noActs \subseteq NoActs
  /\ noSent \in 0 .. noNow /\ noViewed \in 0 .. noNow /\ noLimit \in 0 .. noNow
  /\ noCalls \in 0 .. NoMaxRuns
  /\ noMailed \subseteq NO!Times(noActs) \X (1 .. noCalls)
  /\ noShown \cup noLate \cup noCut \cup noAgain \cup noDropped \subseteq NO!Times(noActs)
  /\ noCall \in [NoRequests -> NoCalls \cup {Nothing}]
  /\ \A r \in NO!Busy :
       /\ noCall[r].told \subseteq NO!Times(noActs)
       /\ noCall[r].saw \subseteq NO!Times(noActs)
       /\ noCall[r].nr \in 1 .. noCalls
       /\ noCall[r].pc = "mark" => noCall[r].told = {}

\* An activity has a time of its own.
NoOneTime == \A a, b \in noActs : a.time = b.time => a = b

\* The user was told, or may not have been for a reason that is known.
NoKnown(t) ==
  \/ t \in noShown \cup noLate \cup noCut \cup noDropped
  \/ \E n \in 1 .. noCalls : <<t, n>> \in noMailed

\* Of what the times of the dashboard have passed the user was told.
NoPassed ==
  \A a \in noActs : ~a.own /\ (a.time <= noSent \/ a.time <= noViewed) => NoKnown(a.time)

\* Of what a call has seen the user was told, or the call will tell.
NoSeen ==
  \A r \in NO!Busy, a \in noActs : ~a.own /\ a.time \in noCall[r].saw =>
    NoKnown(a.time) \/ (NO!At(r, "mail") /\ a.time \in noCall[r].told)

\* What was mailed is behind the time of the last mail, or the call that
\* mailed it is about to set that.
NoStamped ==
  \A m \in noMailed :
    \/ m[1] \in noAgain \/ m[1] <= noSent
    \/ \E r \in NO!Busy : NO!At(r, "stamp") /\ m[1] \in noCall[r].told

\* What a call is to mail was not mailed, and no other call will mail it.
NoAlone ==
  \A r \in NO!Busy, t \in NO!Times(noActs) \ noAgain : t \in noCall[r].told =>
    /\ NO!At(r, "mail") => \A m \in noMailed : m[1] # t
    /\ \A q \in NO!Busy : t \in noCall[q].told => q = r

NoOnce == \A m, k \in noMailed : m[1] = k[1] /\ m[1] \notin noAgain => m = k

NoInv == NoTyped /\ NoOneTime /\ NoPassed /\ NoSeen /\ NoStamped /\ NoAlone /\ NoOnce

\* Nothing has happened at first.
LEMMA NoInitInv == ASSUME NoConstantsOK, NO!Init PROVE NoInv
<1>1. NO!Busy = {} /\ noActs = {} /\ noMailed = {}
  BY DEF NO!Init, NO!Busy
<1> QED
  BY <1>1 DEF NoConstantsOK, NO!Init, NoInv, NoTyped, NoOneTime, NoPassed,
       NoSeen, NoStamped, NoAlone,
     NoOnce, NO!Times

\* The calls after a step of one of them.
LEMMA NoMoved ==
  ASSUME NoConstantsOK, NoTyped, NEW r \in NoRequests, NEW c \in NoCalls \cup {Nothing},
         noCall' = [noCall EXCEPT ![r] = c]
  PROVE  /\ noCall' \in [NoRequests -> NoCalls \cup {Nothing}]
         /\ noCall'[r] = c
         /\ \A q \in NoRequests \ {r} : noCall'[q] = noCall[q]
         /\ NO!Busy' = IF c = Nothing THEN NO!Busy \ {r} ELSE NO!Busy \cup {r}
BY DEF NoTyped, NO!Busy

\* An activity begins with a time of its own.
LEMMA NoMakeInv ==
  ASSUME NoConstantsOK, NoInv, NEW own \in BOOLEAN, NO!Make(own)
  PROVE  NoInv'
<1> DEFINE a == [time |-> noNow + 1, own |-> own, committed |-> FALSE]
<1>1. /\ noNow' = noNow + 1 /\ noActs' = noActs \cup {a}
      /\ UNCHANGED <<noSent, noViewed, noLimit, noCall, noCalls, noMailed, noShown, noLate, noCut, noAgain, noDropped>>
  BY DEF NO!Make, NO!told
<1>2. \A b \in noActs : b.time \in 1 .. noNow
  BY DEF NoInv, NoTyped, NoActs
<1>3. /\ noNow \in Nat /\ a.time = noNow + 1 /\ NO!Times(noActs) \subseteq 1 .. noNow
  BY <1>2 DEF NoInv, NoTyped, NO!Times
<1>4. a \in NoActs' /\ NoActs \subseteq NoActs'
  BY <1>1, <1>3 DEF NoActs
<1> HIDE DEF a
<1>5. NO!Times(noActs') = NO!Times(noActs) \cup {noNow + 1}
  BY <1>1, <1>3 DEF NO!Times
<1>6. NO!Busy' = NO!Busy
  BY <1>1 DEF NO!Busy
<1>7. NoTyped'
  <2>1. noActs' \subseteq NoActs'
    BY <1>1, <1>4 DEF NoInv, NoTyped
  <2>2. noSent' \in 0 .. noNow' /\ noViewed' \in 0 .. noNow' /\ noLimit' \in 0 .. noNow' /\ noNow' \in Nat
    BY <1>1, <1>3 DEF NoInv, NoTyped
  <2> QED BY <1>1, <1>5, <1>6, <2>1, <2>2 DEF NoInv, NoTyped
<1>8. \A t : NoKnown(t)' <=> NoKnown(t)
  BY <1>1 DEF NoKnown
<1>9. NoOneTime'
  BY <1>1, <1>2, <1>3 DEF NoInv, NoOneTime
<1>10. NoPassed'
  BY <1>1, <1>3, <1>8 DEF NoInv, NoPassed, NoTyped
<1>11. NoSeen'
  <2>1. \A r \in NO!Busy : noNow + 1 \notin noCall[r].saw
    BY <1>3 DEF NoInv, NoTyped
  <2> QED BY <1>1, <1>3, <1>6, <1>8, <2>1 DEF NoInv, NoSeen, NO!At
<1>12. NoStamped'
  BY <1>1, <1>6 DEF NoInv, NoStamped, NO!At
<1>13. NoAlone'
  <2>1. \A r \in NO!Busy : noNow + 1 \notin noCall[r].told
    BY <1>3 DEF NoInv, NoTyped
  <2> QED BY <1>1, <1>5, <1>6, <2>1 DEF NoInv, NoAlone, NO!At
<1>14. NoOnce'
  BY <1>1 DEF NoInv, NoOnce
<1> QED BY <1>7, <1>9, <1>10, <1>11, <1>12, <1>13, <1>14 DEF NoInv

\* An activity as committed.
LEMMA NoSetCommitted ==
  ASSUME NEW a \in NoActs, NEW b \in BOOLEAN
  PROVE  /\ [a EXCEPT !.committed = b] \in NoActs
         /\ [a EXCEPT !.committed = b].time = a.time
         /\ [a EXCEPT !.committed = b].own = a.own
BY DEF NoActs

\* A commit leaves the times.
LEMMA NoCommitInv ==
  ASSUME NoConstantsOK, NoInv, NEW a \in noActs, NO!Commit(a)
  PROVE  NoInv'
<1> DEFINE b == [a EXCEPT !.committed = TRUE]
<1>1. /\ noActs' = (noActs \ {a}) \cup {b}
      /\ UNCHANGED <<noNow, noSent, noViewed, noLimit, noCall, noCalls, noMailed, noShown, noLate, noCut, noAgain,
                   noDropped>>
  BY DEF NO!Commit, NO!told
<1>2. a \in NoActs
  BY DEF NoInv, NoTyped
<1>3. b \in NoActs /\ b.time = a.time /\ b.own = a.own
  <2>1. TRUE \in BOOLEAN
    OBVIOUS
  <2> QED BY <1>2, <2>1, NoSetCommitted
<1> HIDE DEF b
<1>4. NO!Times(noActs') = NO!Times(noActs)
  BY <1>1, <1>3 DEF NO!Times
<1>5. \A x \in noActs' : \E y \in noActs : x.time = y.time /\ x.own = y.own
  BY <1>1, <1>3
<1>6. NO!Busy' = NO!Busy /\ NoActs' = NoActs
  BY <1>1 DEF NO!Busy, NoActs
<1>7. NoTyped'
  <2>1. noActs' \subseteq NoActs
    BY <1>1, <1>3 DEF NoInv, NoTyped
  <2> QED BY <1>1, <1>4, <1>6, <2>1 DEF NoInv, NoTyped
<1>8. \A t : NoKnown(t)' <=> NoKnown(t)
  BY <1>1 DEF NoKnown
<1>9. NoOneTime'
  BY <1>1, <1>3 DEF NoInv, NoOneTime
<1>10. NoPassed'
  BY <1>1, <1>5, <1>8 DEF NoInv, NoPassed
<1>11. NoSeen'
  BY <1>1, <1>5, <1>6, <1>8 DEF NoInv, NoSeen, NO!At
<1>12. NoStamped'
  BY <1>1, <1>6 DEF NoInv, NoStamped, NO!At
<1>13. NoAlone'
  BY <1>1, <1>4, <1>6 DEF NoInv, NoAlone, NO!At
<1>14. NoOnce'
  BY <1>1 DEF NoInv, NoOnce
<1> QED BY <1>7, <1>9, <1>10, <1>11, <1>12, <1>13, <1>14 DEF NoInv

\* A call ends, or goes on, and tells or sets a time: what is told stays
\* told, and what may be mailed again stays so.
LEMMA NoKept ==
  ASSUME NoTyped, noMailed \subseteq noMailed', noShown \subseteq noShown', noLate \subseteq noLate',
         noCut \subseteq noCut', noDropped \subseteq noDropped', noCalls' \in Nat, noCalls <= noCalls'
  PROVE  \A t : NoKnown(t) => NoKnown(t)'
<1>1. \A n \in 1 .. noCalls : n \in 1 .. noCalls'
  BY DEF NoTyped
<1> QED BY <1>1 DEF NoKnown

\* The newest of what is committed are shown, mailed or cut off.
LEMMA NoListInv ==
  ASSUME NoConstantsOK, NoInv, NEW r \in NoRequests,
         NEW wanted \in BOOLEAN, NO!List(r, wanted)
  PROVE  NoInv'
<1> DEFINE new == IF wanted THEN NO!New(NO!Newest, NO!Since(noLimit')) ELSE {}
           c == [pc |-> IF new = {} THEN "stamp" ELSE "mail",
                 told |-> NO!Times(new), saw |-> NO!Times(NO!Committed), nr |-> noCalls + 1]
           off == NO!Times(NO!New(NO!Committed \ NO!Newest, NO!Since(0)))
           gone == NO!Times(NO!New(NO!Newest, NO!Since(0)) \ new)
<1>1. /\ noCall[r] = Nothing /\ noCalls < NoMaxRuns
      /\ noCalls' = noCalls + 1 /\ noCall' = [noCall EXCEPT ![r] = c]
      /\ noCut' = noCut \cup off /\ noDropped' = noDropped \cup gone
      /\ noLimit' \in noLimit .. noNow
      /\ noAgain' = noAgain \cup (IF NO!Busy = {} THEN {} ELSE NO!Times(new))
      /\ UNCHANGED <<noNow, noActs, noSent, noViewed, noMailed, noShown, noLate>>
  BY DEF NO!List
<1>2. /\ NO!Newest \subseteq NO!Committed /\ NO!Committed \subseteq noActs
      /\ new \subseteq NO!Newest /\ NO!New(NO!Committed \ NO!Newest, NO!Since(0)) \subseteq NO!Committed
      /\ NO!New(NO!Newest, NO!Since(0)) \subseteq NO!Committed
  BY DEF NO!Newest, NO!Committed, NO!New
<1>3. /\ NO!Times(new) \subseteq NO!Times(noActs) /\ NO!Times(NO!Committed) \subseteq NO!Times(noActs)
      /\ off \subseteq NO!Times(noActs) /\ NO!Times(noActs) \subseteq Nat
      /\ gone \subseteq NO!Times(noActs)
  <2>1. \A a \in noActs : a.time \in Nat
    BY DEF NoInv, NoTyped, NoActs
  <2> HIDE DEF new
  <2> QED BY <1>2, <2>1 DEF NO!Times
<1>4. /\ c \in NoCalls /\ c.told = NO!Times(new) /\ c.saw = NO!Times(NO!Committed)
      /\ c.nr = noCalls + 1 /\ c.pc = IF new = {} THEN "stamp" ELSE "mail"
      /\ c # Nothing
  BY <1>3 DEF NoCalls, NoInv, NoTyped, NoConstantsOK
<1>5. \A a \in new : a.time > noSent /\ a.time > noViewed
  <2>1. noSent \in Nat /\ noViewed \in Nat /\ noLimit' \in Nat /\ \A a \in noActs : a.time \in Nat
    BY <1>1 DEF NoInv, NoTyped, NoActs
  <2> QED BY <1>2, <2>1 DEF NO!New, NO!Since, NO!Greater
<1>6. \A a \in NO!Committed : ~a.own =>
        a.time <= noSent \/ a.time <= noViewed \/ a.time \in NO!Times(new) \cup off \cup gone
  <2>1. noSent \in Nat /\ noViewed \in Nat /\ \A a \in noActs : a.time \in Nat
    BY DEF NoInv, NoTyped, NoActs
  <2>2. ASSUME NEW a \in NO!Committed, ~a.own, ~(a.time <= noSent), ~(a.time <= noViewed)
        PROVE  a.time \in NO!Times(new) \cup off \cup gone
    <3>1. a.time > NO!Since(0)
      BY <1>2, <2>1, <2>2 DEF NO!Since, NO!Greater
    <3>2. \/ a \in new \/ a \in NO!New(NO!Committed \ NO!Newest, NO!Since(0))
          \/ a \in NO!New(NO!Newest, NO!Since(0)) \ new
      BY <2>2, <3>1 DEF NO!New
    <3> QED BY <3>2 DEF NO!Times
  <2> QED BY <2>2
<1> HIDE DEF new, c, off, gone
<1>7. /\ noCall' \in [NoRequests -> NoCalls \cup {Nothing}]
      /\ noCall'[r] = c /\ \A q \in NoRequests \ {r} : noCall'[q] = noCall[q]
      /\ NO!Busy' = NO!Busy \cup {r} /\ r \notin NO!Busy
  BY <1>1, <1>4, NoMoved DEF NoInv, NO!Busy
<1>8. \A t : NoKnown(t) => NoKnown(t)'
  BY <1>1, NoKept DEF NoInv, NoTyped
<1>9. NoTyped'
  <2>1. noCalls' \in 0 .. NoMaxRuns /\ noCalls + 1 \in 1 .. noCalls' /\ 1 .. noCalls \subseteq 1 .. noCalls'
    BY <1>1 DEF NoInv, NoTyped, NoConstantsOK
  <2>2. /\ noShown' \cup noLate' \cup noCut' \cup noAgain' \cup noDropped' \subseteq NO!Times(noActs)
        /\ noLimit' \in 0 .. noNow
    BY <1>1, <1>3 DEF NoInv, NoTyped
  <2>3. noMailed' \subseteq NO!Times(noActs) \X (1 .. noCalls')
    BY <1>1, <2>1 DEF NoInv, NoTyped
  <2>4. ASSUME NEW q \in NO!Busy'
        PROVE  /\ noCall'[q].told \subseteq NO!Times(noActs)
               /\ noCall'[q].saw \subseteq NO!Times(noActs)
               /\ noCall'[q].nr \in 1 .. noCalls'
               /\ noCall'[q].pc = "mark" => noCall'[q].told = {}
    <3>1. CASE q = r
      BY <1>3, <1>4, <1>7, <2>1, <3>1
    <3>2. CASE q # r
      <4>1. q \in NO!Busy /\ noCall'[q] = noCall[q]
        BY <1>7, <3>2 DEF NO!Busy
      <4> QED BY <2>1, <4>1 DEF NoInv, NoTyped
    <3> QED BY <3>1, <3>2
  <2>5. NoActs' = NoActs /\ NO!Times(noActs)' = NO!Times(noActs)
    BY <1>1 DEF NoActs, NO!Times
  <2> QED BY <1>1, <1>7, <2>1, <2>2, <2>3, <2>4, <2>5 DEF NoInv, NoTyped
<1>10. NoOneTime'
  BY <1>1 DEF NoInv, NoOneTime
<1>11. NoPassed'
  BY <1>1, <1>8 DEF NoInv, NoPassed
<1>12. NoSeen'
  <2> SUFFICES ASSUME NEW q \in NO!Busy', NEW a \in noActs, ~a.own, a.time \in noCall'[q].saw
               PROVE  NoKnown(a.time)' \/ (NO!At(q, "mail")' /\ a.time \in noCall'[q].told)
    BY <1>1 DEF NoSeen
  <2>1. CASE q # r
    <3>1. q \in NO!Busy /\ noCall'[q] = noCall[q]
      BY <1>7, <2>1 DEF NO!Busy
    <3> QED BY <1>8, <3>1 DEF NoInv, NoSeen, NO!At
  <2>2. CASE q = r
    <3>1. PICK b \in NO!Committed : b.time = a.time
      BY <1>4, <1>7, <2>2 DEF NO!Times
    <3>2. b = a
      BY <1>2, <3>1 DEF NoInv, NoOneTime
    <3>3. CASE a.time <= noSent \/ a.time <= noViewed
      BY <1>8, <3>3 DEF NoInv, NoPassed
    <3>4. CASE a.time \in off \cup gone
      BY <1>1, <3>4 DEF NoKnown
    <3>5. CASE a.time \in NO!Times(new)
      <4>1. new # {}
        BY <3>5 DEF NO!Times
      <4> QED BY <1>4, <1>7, <2>2, <3>5, <4>1 DEF NO!At
    <3> QED BY <1>6, <3>1, <3>2, <3>3, <3>4, <3>5
  <2> QED BY <2>1, <2>2
<1>13. NoStamped'
  BY <1>1, <1>7 DEF NoInv, NoStamped, NO!At
<1>14. NoAlone'
  <2> SUFFICES ASSUME NEW q \in NO!Busy', NEW t \in NO!Times(noActs) \ noAgain', t \in noCall'[q].told
               PROVE  /\ NO!At(q, "mail")' => \A m \in noMailed : m[1] # t
                      /\ \A p \in NO!Busy' : t \in noCall'[p].told => p = q
    <3>1. NO!Times(noActs)' = NO!Times(noActs) /\ noMailed' = noMailed
      BY <1>1 DEF NO!Times
    <3> QED BY <3>1 DEF NoAlone
  <2>1. t \notin noAgain
    BY <1>1
  <2>2. CASE NO!Busy = {}
    <3>1. q = r /\ t \in NO!Times(new)
      BY <1>4, <1>7, <2>2
    <3>2. PICK a \in new : a.time = t
      BY <3>1 DEF NO!Times
    <3>3. ASSUME NEW m \in noMailed, m[1] = t PROVE FALSE
      <4>1. t <= noSent
        BY <2>1, <2>2, <3>3 DEF NoInv, NoStamped
      <4>2. t > noSent /\ t \in Nat /\ noSent \in Nat
        BY <1>2, <1>5, <3>2 DEF NoInv, NoTyped, NoActs
      <4> QED BY <4>1, <4>2
    <3> QED BY <1>7, <2>2, <3>1, <3>3
  <2>3. CASE NO!Busy # {}
    <3>1. t \notin NO!Times(new)
      BY <1>1, <2>3
    <3>2. \A p \in NO!Busy' : t \in noCall'[p].told => p # r
      BY <1>4, <1>7, <3>1
    <3>3. \A p \in NO!Busy' \ {r} : p \in NO!Busy /\ noCall'[p] = noCall[p]
      BY <1>7 DEF NO!Busy
    <3> QED BY <2>1, <3>2, <3>3 DEF NoInv, NoAlone, NO!At
  <2> QED BY <2>2, <2>3
<1>15. NoOnce'
  BY <1>1 DEF NoInv, NoOnce
<1> QED BY <1>9, <1>10, <1>11, <1>12, <1>13, <1>14, <1>15 DEF NoInv

\* What a call has told when it goes on to set the time of the last mail.
LEMMA NoSendInv ==
  ASSUME NoConstantsOK, NoInv, NEW r \in NoRequests, NO!SendNotification(r)
  PROVE  NoInv'
<1> DEFINE c == [noCall[r] EXCEPT !.pc = "stamp"]
<1>1. /\ r \in NO!Busy /\ noCall[r] \in NoCalls /\ noCall[r].pc = "mail"
      /\ \/ noMailed' = noMailed \cup (noCall[r].told \X {noCall[r].nr}) /\ noDropped' = noDropped
         \/ noMailed' = noMailed /\ noDropped' = noDropped \cup noCall[r].told
      /\ noCall' = [noCall EXCEPT ![r] = c]
      /\ UNCHANGED <<noNow, noActs, noSent, noViewed, noLimit, noCalls, noShown, noLate, noCut, noAgain>>
  BY DEF NO!Delivered, NO!NotDelivered, NO!SendNotification, NO!At, NO!Busy,
       NoInv, NoTyped
<1>2. /\ c = [pc |-> "stamp", told |-> noCall[r].told, saw |-> noCall[r].saw, nr |-> noCall[r].nr]
  BY <1>1 DEF NoCalls
<1>3. /\ c \in NoCalls /\ c # Nothing /\ c.pc = "stamp" /\ c.told = noCall[r].told
      /\ c.saw = noCall[r].saw /\ c.nr = noCall[r].nr
  <2>1. c \in NoCalls
    BY <1>1, <1>2 DEF NoCalls
  <2> QED BY <1>2, <2>1 DEF NoConstantsOK
<1> HIDE DEF c
<1>4. /\ noCall' \in [NoRequests -> NoCalls \cup {Nothing}]
      /\ noCall'[r] = c /\ \A q \in NoRequests \ {r} : noCall'[q] = noCall[q]
      /\ NO!Busy' = NO!Busy
  <2>1. NO!Busy \cup {r} = NO!Busy
    BY <1>1
  <2> QED BY <1>1, <1>3, <2>1, NoMoved DEF NoInv
<1>5. \A q \in NO!Busy : noCall'[q].told = noCall[q].told /\ noCall'[q].saw = noCall[q].saw
                      /\ noCall'[q].nr = noCall[q].nr
  BY <1>3, <1>4 DEF NO!Busy
<1>6. /\ noCall[r].nr \in 1 .. noCalls /\ noCall[r].told \subseteq NO!Times(noActs)
      /\ noMailed' \subseteq noMailed \cup (noCall[r].told \X {noCall[r].nr})
      /\ noMailed \subseteq noMailed' /\ noDropped \subseteq noDropped'
      /\ noDropped' \subseteq NO!Times(noActs)
  BY <1>1 DEF NoInv, NoTyped
<1>7. \A t : NoKnown(t) => NoKnown(t)'
  BY <1>1, <1>6, NoKept DEF NoInv, NoTyped
<1>8. NoTyped'
  <2>1. noMailed' \subseteq NO!Times(noActs) \X (1 .. noCalls)
    BY <1>6 DEF NoInv, NoTyped
  <2>2. NoActs' = NoActs /\ NO!Times(noActs)' = NO!Times(noActs)
    BY <1>1 DEF NoActs, NO!Times
  <2>3. \A q \in NO!Busy : noCall'[q].pc = "mark" => noCall[q].pc = "mark"
    BY <1>3, <1>4 DEF NO!Busy
  <2>4. \A q \in NO!Busy :
          /\ noCall'[q].told \subseteq NO!Times(noActs) /\ noCall'[q].saw \subseteq NO!Times(noActs)
          /\ noCall'[q].nr \in 1 .. noCalls
          /\ noCall'[q].pc = "mark" => noCall'[q].told = {}
    BY <1>5, <2>3 DEF NoInv, NoTyped
  <2> QED BY <1>1, <1>4, <2>1, <2>2, <2>4 DEF NoInv, NoTyped
<1>9. NoOneTime'
  BY <1>1 DEF NoInv, NoOneTime
<1>10. NoPassed'
  BY <1>1, <1>7 DEF NoInv, NoPassed
<1>11. NoSeen'
  <2> SUFFICES ASSUME NEW q \in NO!Busy, NEW a \in noActs, ~a.own, a.time \in noCall[q].saw
               PROVE  NoKnown(a.time)' \/ (NO!At(q, "mail")' /\ a.time \in noCall[q].told)
    BY <1>1, <1>4, <1>5 DEF NoSeen
  <2>1. CASE NoKnown(a.time)
    BY <1>7, <2>1
  <2>2. CASE q # r
    BY <1>4, <1>7, <2>2 DEF NoInv, NoSeen, NO!At, NO!Busy
  <2>3. CASE q = r /\ a.time \in noCall[r].told
    <3>1. <<a.time, noCall[r].nr>> \in noMailed' \/ a.time \in noDropped'
      BY <1>1, <1>6, <2>3
    <3> QED BY <1>1, <1>6, <3>1 DEF NoKnown
  <2> QED BY <2>1, <2>2, <2>3 DEF NoInv, NoSeen
<1>12. NoStamped'
  <2> SUFFICES ASSUME NEW m \in noMailed'
               PROVE  \/ m[1] \in noAgain \/ m[1] <= noSent
                      \/ \E q \in NO!Busy : NO!At(q, "stamp")' /\ m[1] \in noCall'[q].told
    BY <1>1, <1>4 DEF NoStamped
  <2>1. CASE m \in noMailed
    <3>1. \A q \in NO!Busy : NO!At(q, "stamp") => NO!At(q, "stamp")'
      BY <1>1, <1>4 DEF NO!At
    <3> QED BY <1>5, <2>1, <3>1 DEF NoInv, NoStamped
  <2>2. CASE m \in noCall[r].told \X {noCall[r].nr}
    BY <1>1, <1>3, <1>4, <2>2 DEF NO!At
  <2> QED BY <1>6, <2>1, <2>2
<1>13. NoAlone'
  <2> SUFFICES ASSUME NEW q \in NO!Busy, NEW t \in NO!Times(noActs) \ noAgain, t \in noCall[q].told
               PROVE  /\ NO!At(q, "mail")' => \A m \in noMailed' : m[1] # t
                      /\ \A p \in NO!Busy : t \in noCall[p].told => p = q
    <3>1. NO!Times(noActs)' = NO!Times(noActs)
      BY <1>1 DEF NO!Times
    <3> QED BY <1>1, <1>4, <1>5, <3>1 DEF NoAlone
  <2>1. \A p \in NO!Busy : t \in noCall[p].told => p = q
    BY DEF NoInv, NoAlone
  <2>3. ASSUME NO!At(q, "mail")', NEW m \in noMailed', m[1] = t PROVE FALSE
    <3>1. q # r /\ NO!At(q, "mail")
      BY <1>3, <1>4, <2>3 DEF NO!At, NO!Busy
    <3>2. m \notin noMailed
      BY <2>3, <3>1 DEF NoInv, NoAlone
    <3>3. t \in noCall[r].told
      BY <1>6, <2>3, <3>2
    <3> QED BY <1>1, <2>1, <3>1, <3>3
  <2> QED BY <2>1, <2>3
<1>14. NoOnce'
  <2> SUFFICES ASSUME NEW m \in noMailed', NEW k \in noMailed', m[1] = k[1], m[1] \notin noAgain
               PROVE  m = k
    BY <1>1 DEF NoOnce
  <2>1. \A t \in NO!Times(noActs) \ noAgain : t \in noCall[r].told => \A x \in noMailed : x[1] # t
    BY <1>1 DEF NoInv, NoAlone, NO!At, NO!Busy
  <2>2. \A x \in noCall[r].told \X {noCall[r].nr} :
          /\ x[1] \in NO!Times(noActs) /\ x[1] \in noCall[r].told
          /\ x = <<x[1], noCall[r].nr>>
    BY <1>6
  <2> QED BY <1>6, <2>1, <2>2 DEF NoInv, NoOnce
<1> QED BY <1>8, <1>9, <1>10, <1>11, <1>12, <1>13, <1>14 DEF NoInv

\* A call ends, and sets no time: what it was to mail may be mailed again.
LEMMA NoEndInv ==
  ASSUME NoConstantsOK, NoInv, NEW r \in NO!Busy,
         noCall' = [noCall EXCEPT ![r] = Nothing],
         noAgain' = noAgain \cup noCall[r].told,
         NO!Delivered(r) \/ UNCHANGED noMailed, noDropped' = noDropped,
         UNCHANGED <<noNow, noActs, noSent, noViewed, noLimit, noCalls, noShown, noLate, noCut>>
  PROVE  NoInv'
<1>1. /\ noCall' \in [NoRequests -> NoCalls \cup {Nothing}]
      /\ \A q \in NoRequests \ {r} : noCall'[q] = noCall[q]
      /\ NO!Busy' = NO!Busy \ {r}
      /\ r \in NoRequests /\ noCall[r].told \subseteq NO!Times(noActs) /\ noCall[r].nr \in 1 .. noCalls
  BY NoMoved DEF NoInv, NoTyped, NO!Busy
<1>2. \A q \in NO!Busy' : q \in NO!Busy /\ q # r /\ noCall'[q] = noCall[q]
  BY <1>1 DEF NO!Busy
<1>3. /\ noMailed \subseteq noMailed'
      /\ noMailed' \subseteq noMailed \cup (noCall[r].told \X {noCall[r].nr})
  BY DEF NO!Delivered
<1>4. /\ \A m \in noMailed' : m \in noMailed \/ m[1] \in noCall[r].told
      /\ \A m \in noCall[r].told \X {noCall[r].nr} : m \in NO!Times(noActs) \X (1 .. noCalls)
  BY <1>1, <1>3
<1>5. \A t : NoKnown(t) => NoKnown(t)'
  BY <1>3, NoKept DEF NoInv, NoTyped
<1>6. NoTyped'
  <2>1. NoActs' = NoActs /\ NO!Times(noActs)' = NO!Times(noActs)
    BY DEF NoActs, NO!Times
  <2>2. noMailed' \subseteq NO!Times(noActs) \X (1 .. noCalls)
    BY <1>3, <1>4 DEF NoInv, NoTyped
  <2>3. noAgain' \subseteq NO!Times(noActs)
    BY <1>1 DEF NoInv, NoTyped
  <2> QED BY <1>1, <1>2, <2>1, <2>2, <2>3 DEF NoInv, NoTyped
<1>7. NoOneTime'
  BY DEF NoInv, NoOneTime
<1>8. NoPassed'
  BY <1>5 DEF NoInv, NoPassed
<1>9. NoSeen'
  BY <1>2, <1>5 DEF NoInv, NoSeen, NO!At
<1>10. NoStamped'
  <2> SUFFICES ASSUME NEW m \in noMailed', m[1] \notin noAgain'
               PROVE  \/ m[1] <= noSent
                      \/ \E q \in NO!Busy' : NO!At(q, "stamp")' /\ m[1] \in noCall'[q].told
    BY DEF NoStamped
  <2>1. m \in noMailed /\ m[1] \notin noAgain /\ m[1] \notin noCall[r].told
    BY <1>4
  <2>2. CASE \E q \in NO!Busy : NO!At(q, "stamp") /\ m[1] \in noCall[q].told
    <3>1. PICK q \in NO!Busy : NO!At(q, "stamp") /\ m[1] \in noCall[q].told
      BY <2>2
    <3>2. q # r /\ q \in NO!Busy' /\ noCall'[q] = noCall[q]
      BY <1>1, <2>1, <3>1 DEF NO!Busy
    <3> QED BY <3>1, <3>2 DEF NO!At
  <2> QED BY <2>1, <2>2 DEF NoInv, NoStamped
<1>11. NoAlone'
  <2> SUFFICES ASSUME NEW q \in NO!Busy', NEW t \in NO!Times(noActs) \ noAgain', t \in noCall'[q].told
               PROVE  /\ NO!At(q, "mail")' => \A m \in noMailed' : m[1] # t
                      /\ \A p \in NO!Busy' : t \in noCall'[p].told => p = q
    <3>1. NO!Times(noActs)' = NO!Times(noActs)
      BY DEF NO!Times
    <3> QED BY <3>1 DEF NoAlone
  <2>1. t \notin noAgain /\ t \notin noCall[r].told
    OBVIOUS
  <2> QED BY <1>2, <1>4, <2>1 DEF NoInv, NoAlone, NO!At
<1>12. NoOnce'
  BY <1>4 DEF NoInv, NoOnce
<1> QED BY <1>6, <1>7, <1>8, <1>9, <1>10, <1>11, <1>12 DEF NoInv

\* A call ends by setting a time: what it had not seen is late.
LEMMA NoTimeInv ==
  ASSUME NoConstantsOK, NoInv, NEW r \in NO!Busy,
         noCall' = [noCall EXCEPT ![r] = Nothing],
         noNow' = noNow + 1, noLate' = noLate \cup NO!Late(r),
         \/ NO!At(r, "stamp") /\ noSent' = noNow' /\ noViewed' = noViewed
         \/ NO!At(r, "mark") /\ noViewed' = noNow' /\ noSent' = noSent /\ noCall[r].told = {},
         UNCHANGED <<noActs, noLimit, noCalls, noMailed, noShown, noCut, noAgain, noDropped>>
  PROVE  NoInv'
<1>1. /\ noCall' \in [NoRequests -> NoCalls \cup {Nothing}]
      /\ \A q \in NoRequests \ {r} : noCall'[q] = noCall[q]
      /\ NO!Busy' = NO!Busy \ {r}
      /\ r \in NoRequests
  BY NoMoved DEF NoInv, NoTyped, NO!Busy
<1>2. \A q \in NO!Busy' : q \in NO!Busy /\ q # r /\ noCall'[q] = noCall[q]
  BY <1>1 DEF NO!Busy
<1>3. \A t : NoKnown(t) => NoKnown(t)'
  BY NoKept DEF NoInv, NoTyped
<1>4. /\ noNow \in Nat /\ NO!Times(noActs) \subseteq 1 .. noNow /\ NO!Late(r) \subseteq NO!Times(noActs)
      /\ noSent' \in 0 .. noNow' /\ noViewed' \in 0 .. noNow' /\ noLimit' \in 0 .. noNow'
  BY DEF NoInv, NoTyped, NoActs, NO!Times, NO!Late
<1>5. NoTyped'
  <2>1. NoActs \subseteq NoActs' /\ NO!Times(noActs)' = NO!Times(noActs)
    BY <1>4 DEF NoActs, NO!Times
  <2>2. noLate' \subseteq NO!Times(noActs)
    BY <1>4 DEF NoInv, NoTyped
  <2>3. noActs' \subseteq NoActs'
    BY <2>1 DEF NoInv, NoTyped
  <2> QED BY <1>1, <1>2, <1>4, <2>1, <2>2, <2>3 DEF NoInv, NoTyped
<1>6. NoOneTime'
  BY DEF NoInv, NoOneTime
<1>7. NoPassed'
  <2> SUFFICES ASSUME NEW a \in noActs, ~a.own PROVE NoKnown(a.time)'
    BY DEF NoPassed
  <2>1. CASE a.time \in noCall[r].saw
    <3>1. ~NO!At(r, "mail")
      BY DEF NO!At
    <3> QED BY <1>3, <2>1, <3>1 DEF NoInv, NoSeen
  <2>2. CASE a.time \notin noCall[r].saw
    <3>1. a.time \in NO!Late(r)
      BY <2>2 DEF NO!Late, NO!Times
    <3> QED BY <3>1 DEF NoKnown
  <2> QED BY <2>1, <2>2
<1>8. NoSeen'
  BY <1>2, <1>3 DEF NoInv, NoSeen, NO!At
<1>9. NoStamped'
  <2> SUFFICES ASSUME NEW m \in noMailed, m[1] \notin noAgain
               PROVE  \/ m[1] <= noSent'
                      \/ \E q \in NO!Busy' : NO!At(q, "stamp")' /\ m[1] \in noCall'[q].told
    BY DEF NoStamped
  <2>1. m[1] \in 1 .. noNow /\ noSent \in Nat
    BY <1>4 DEF NoInv, NoTyped
  <2>2. CASE noSent' = noNow'
    BY <1>4, <2>1, <2>2
  <2>3. CASE noSent' = noSent /\ noCall[r].told = {}
    <3>1. CASE m[1] <= noSent
      BY <2>3, <3>1
    <3>2. CASE \E q \in NO!Busy : NO!At(q, "stamp") /\ m[1] \in noCall[q].told
      <4>1. PICK q \in NO!Busy : NO!At(q, "stamp") /\ m[1] \in noCall[q].told
        BY <3>2
      <4>2. q # r /\ q \in NO!Busy' /\ noCall'[q] = noCall[q]
        BY <1>1, <2>3, <4>1 DEF NO!Busy
      <4> QED BY <4>1, <4>2 DEF NO!At
    <3> QED BY <3>1, <3>2 DEF NoInv, NoStamped
  <2> QED BY <2>2, <2>3
<1>10. NoAlone'
  <2>1. NO!Times(noActs)' = NO!Times(noActs)
    BY DEF NO!Times
  <2> QED BY <1>2, <2>1 DEF NoInv, NoAlone, NO!At
<1>11. NoOnce'
  BY DEF NoInv, NoOnce
<1> QED BY <1>5, <1>6, <1>7, <1>8, <1>9, <1>10, <1>11 DEF NoInv

\* The dashboard shows all that is committed.
LEMMA NoViewInv ==
  ASSUME NoConstantsOK, NoInv, NEW r \in NoRequests, NO!View(r)
  PROVE  NoInv'
<1> DEFINE c == [pc |-> "mark", told |-> {}, saw |-> NO!Times(NO!Committed), nr |-> noCalls + 1]
<1>1. /\ noCall[r] = Nothing /\ noCalls < NoMaxRuns
      /\ noCalls' = noCalls + 1 /\ noCall' = [noCall EXCEPT ![r] = c]
      /\ noShown' = noShown \cup NO!Times(NO!Committed)
      /\ UNCHANGED <<noNow, noActs, noSent, noViewed, noLimit, noMailed, noLate, noCut, noAgain, noDropped>>
  BY DEF NO!View
<1>2. NO!Times(NO!Committed) \subseteq NO!Times(noActs) /\ NO!Times(noActs) \subseteq Nat
  BY DEF NO!Times, NO!Committed, NoInv, NoTyped, NoActs
<1>3. /\ c \in NoCalls /\ c.told = {} /\ c.saw = NO!Times(NO!Committed)
      /\ c.nr = noCalls + 1 /\ c.pc = "mark" /\ c # Nothing
  BY <1>2 DEF NoCalls, NoInv, NoTyped, NoConstantsOK
<1> HIDE DEF c
<1>4. /\ noCall' \in [NoRequests -> NoCalls \cup {Nothing}]
      /\ noCall'[r] = c /\ \A q \in NoRequests \ {r} : noCall'[q] = noCall[q]
      /\ NO!Busy' = NO!Busy \cup {r} /\ r \notin NO!Busy
  BY <1>1, <1>3, NoMoved DEF NoInv, NO!Busy
<1>5. \A q \in NO!Busy' \ {r} : q \in NO!Busy /\ noCall'[q] = noCall[q]
  BY <1>4 DEF NO!Busy
<1>6. \A t : NoKnown(t) => NoKnown(t)'
  BY <1>1, NoKept DEF NoInv, NoTyped
<1>7. NoTyped'
  <2>1. noCalls' \in 0 .. NoMaxRuns /\ noCalls + 1 \in 1 .. noCalls' /\ 1 .. noCalls \subseteq 1 .. noCalls'
    BY <1>1 DEF NoInv, NoTyped, NoConstantsOK
  <2>2. noShown' \cup noLate' \cup noCut' \cup noAgain' \cup noDropped' \subseteq NO!Times(noActs)
    BY <1>1, <1>2 DEF NoInv, NoTyped
  <2>3. noMailed' \subseteq NO!Times(noActs) \X (1 .. noCalls')
    BY <1>1, <2>1 DEF NoInv, NoTyped
  <2>4. ASSUME NEW q \in NO!Busy'
        PROVE  /\ noCall'[q].told \subseteq NO!Times(noActs)
               /\ noCall'[q].saw \subseteq NO!Times(noActs)
               /\ noCall'[q].nr \in 1 .. noCalls'
               /\ noCall'[q].pc = "mark" => noCall'[q].told = {}
    <3>1. CASE q = r
      BY <1>2, <1>3, <1>4, <2>1, <3>1
    <3>2. CASE q # r
      BY <1>5, <2>1, <3>2 DEF NoInv, NoTyped
    <3> QED BY <3>1, <3>2
  <2>5. NoActs' = NoActs /\ NO!Times(noActs)' = NO!Times(noActs)
    BY <1>1 DEF NoActs, NO!Times
  <2> QED BY <1>1, <1>4, <2>1, <2>2, <2>3, <2>4, <2>5 DEF NoInv, NoTyped
<1>8. NoOneTime'
  BY <1>1 DEF NoInv, NoOneTime
<1>9. NoPassed'
  BY <1>1, <1>6 DEF NoInv, NoPassed
<1>10. NoSeen'
  <2> SUFFICES ASSUME NEW q \in NO!Busy', NEW a \in noActs, ~a.own, a.time \in noCall'[q].saw
               PROVE  NoKnown(a.time)' \/ (NO!At(q, "mail")' /\ a.time \in noCall'[q].told)
    BY <1>1 DEF NoSeen
  <2>1. CASE q # r
    BY <1>5, <1>6, <2>1 DEF NoInv, NoSeen, NO!At
  <2>2. CASE q = r
    BY <1>1, <1>3, <1>4, <2>2 DEF NoKnown
  <2> QED BY <2>1, <2>2
<1>11. NoStamped'
  BY <1>1, <1>4 DEF NoInv, NoStamped, NO!At
<1>12. NoAlone'
  <2>1. NO!Times(noActs)' = NO!Times(noActs)
    BY <1>1 DEF NO!Times
  <2>2. \A t, q : q \in NO!Busy' /\ t \in noCall'[q].told => q \in NO!Busy /\ noCall'[q] = noCall[q]
    BY <1>3, <1>4, <1>5
  <2> QED BY <1>1, <2>1, <2>2 DEF NoInv, NoAlone, NO!At
<1>13. NoOnce'
  BY <1>1 DEF NoInv, NoOnce
<1> QED BY <1>7, <1>8, <1>9, <1>10, <1>11, <1>12, <1>13 DEF NoInv

\* Every step keeps the invariant.
LEMMA NoInvNext == ASSUME NoConstantsOK, NoInv, [NO!Next]_(NO!vars)
                   PROVE NoInv'
<1>1. ASSUME NEW r \in NoRequests, NO!MailFails(r) PROVE NoInv'
  <2>1. r \in NO!Busy
    BY <1>1 DEF NO!MailFails, NO!At, NO!Busy
  <2> QED BY <1>1, <2>1, NoEndInv DEF NO!MailFails, NO!Delivered, NO!End
<1>2. ASSUME NEW r \in NoRequests, NO!Crash(r) PROVE NoInv'
  <2>1. r \in NO!Busy
    BY <1>2 DEF NO!Crash, NO!Busy
  <2> QED BY <1>2, <2>1, NoEndInv DEF NO!Crash, NO!End
<1>3. ASSUME NEW r \in NoRequests, NO!Stamp(r) PROVE NoInv'
  <2>1. r \in NO!Busy
    BY <1>3 DEF NO!Stamp, NO!At, NO!Busy
  <2> QED BY <1>3, <2>1, NoTimeInv DEF NO!Stamp, NO!End
<1>4. ASSUME NEW r \in NoRequests, NO!MarkOld(r) PROVE NoInv'
  <2>1. r \in NO!Busy
    BY <1>4 DEF NO!MarkOld, NO!At, NO!Busy
  <2>2. noCall[r].told = {}
    BY <1>4, <2>1 DEF NO!MarkOld, NO!At, NoInv, NoTyped
  <2> QED BY <1>4, <2>1, <2>2, NoTimeInv DEF NO!MarkOld, NO!End
<1>5. CASE UNCHANGED NO!vars
  BY <1>5 DEF NO!vars, NO!told, NoInv, NoTyped, NoOneTime, NoPassed, NoSeen,
       NoStamped, NoAlone, NoOnce, NoKnown,
     NO!Busy, NO!At, NoActs, NO!Times
<1> QED
  BY <1>1, <1>2, <1>3, <1>4, <1>5, NoMakeInv, NoCommitInv, NoListInv,
       NoSendInv, NoViewInv
     DEF NO!Next

\* The invariant holds of every behaviour.
LEMMA NoInvHolds == ASSUME NoConstantsOK PROVE NO!Spec => []NoInv
<1>1. NoConstantsOK /\ NoInv /\ [NO!Next]_(NO!vars) => NoInv'
  BY NoInvNext
<1> QED BY <1>1, NoInitInv, PTL DEF NO!Spec

\* The activities, calls and mails are well typed.
LEMMA NoTypeCorrect == ASSUME NoConstantsOK PROVE NO!Spec => []NO!TypeOK
<1>1. NoInv => NO!TypeOK
  BY DEF NoInv, NoTyped, NO!TypeOK, NoActs, NoCalls, NO!Busy
<1> QED BY <1>1, NoInvHolds, PTL

\* The user is told of every activity, and mailed of it once.
LEMMA NoToldOnce == ASSUME NoConstantsOK
                    PROVE NO!Spec => []NO!ActivitiesAreToldOnce
<1>1. ASSUME NoInv PROVE NO!ActivitiesAreToldOnce
  <2> SUFFICES ASSUME NEW a \in noActs, ~a.own
               PROVE  /\ a.time <= NO!Greater(noSent, noViewed) /\ a.time \notin noLate \cup noCut \cup noDropped
                         => a.time \in noShown \/ \E n \in 1 .. noCalls : <<a.time, n>> \in noMailed
                      /\ a.time \notin noAgain
                         => NO!Cardinality({n \in 1 .. noCalls : <<a.time, n>> \in noMailed}) <= 1
    BY DEF NO!ActivitiesAreToldOnce
  <2>1. a.time <= NO!Greater(noSent, noViewed) => a.time <= noSent \/ a.time <= noViewed
    BY DEF NO!Greater
  <2>2. a.time <= NO!Greater(noSent, noViewed) => NoKnown(a.time)
    BY <1>1, <2>1 DEF NoInv, NoPassed
  <2>3. ASSUME a.time \notin noAgain
        PROVE  NO!Cardinality({n \in 1 .. noCalls : <<a.time, n>> \in noMailed}) <= 1
    <3> DEFINE ns == {n \in 1 .. noCalls : <<a.time, n>> \in noMailed}
    <3>1. \A n, k \in ns : n = k
      <4> SUFFICES ASSUME NEW n \in ns, NEW k \in ns PROVE n = k
        OBVIOUS
      <4>1. <<a.time, n>>[1] = a.time /\ <<a.time, k>>[1] = a.time
        OBVIOUS
      <4>2. <<a.time, n>> = <<a.time, k>>
        BY <1>1, <2>3, <4>1 DEF NoInv, NoOnce
      <4> QED BY <4>2
    <3> HIDE DEF ns
    <3>2. ASSUME ns = {} PROVE NO!Cardinality(ns) <= 1
      BY <3>2, FS_EmptySet, NoCardinality
    <3>3. ASSUME ns # {} PROVE NO!Cardinality(ns) <= 1
      <4>1. PICK n \in ns : ns = {n}
        BY <3>1, <3>3
      <4>2. NO!Cardinality({n}) = 1
        BY FS_Singleton, NoCardinality
      <4> QED BY <4>1, <4>2
    <3>4. NO!Cardinality(ns) <= 1
      BY <3>2, <3>3
    <3> QED BY <3>4 DEF ns
  <2> QED BY <2>2, <2>3 DEF NoKnown
<1> QED BY <1>1, NoInvHolds, PTL
=============================================================================
