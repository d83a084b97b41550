--------------------------- MODULE KVStore_proof ---------------------------
(* The key/value store implements ExpiringMap, for any number of callers   *)
(* and keys, any lifetimes and however far the clock and the counters go.  *)
EXTENDS KVStore, TLAPS

Row == [value : Nat, expires : Expiries]

Call ==
  [op : {"set", "purge", "incr", "delete", "clear", "expire"},
   keys : SUBSET Keys, at : 0 .. MaxTime, ttl : Nat]

(* Time and lifetimes are numbers; no row, no value and no call is one of  *)
(* the marks for nothing.                                                  *)
ConstantsOK ==
  /\ MaxTime \in Nat
  /\ Ttls \subseteq Nat
  /\ Missing \notin Row \cup Nat
  /\ Idle \notin Call

(* A call under way looked at the clock in the past: what it takes for     *)
(* expired has expired for everybody.                                      *)
LookedBefore == \A c \in Callers : call[c] # Idle => call[c].at <= clock

\* An increment is of one key.
OneKey ==
  \A c \in Callers : call[c] # Idle /\ call[c].op = "incr" =>
    \E k \in Keys : call[c].keys = {k}

Inv == TypeOK /\ LookedBefore /\ OneKey

-----------------------------------------------------------------------------
(* Rows and calls *)

\* A date of expiry never lies beyond the end of time.
LEMMA ExpiryType ==
  ASSUME ConstantsOK, NEW at \in 0 .. MaxTime, NEW ttl \in Nat
  PROVE  Expiry(at, ttl) \in Expiries
BY DEF ConstantsOK, Expiry, Expiries, Never, Min2

\* A row that is not missing is a row, and a call that is not idle a call.
LEMMA TypeParts ==
  ASSUME TypeOK
  PROVE  /\ \A k \in Keys : row[k] # Missing => row[k] \in Row
         /\ \A c \in Callers : call[c] # Idle => call[c] \in Call
BY DEF TypeOK, Row, Call

\* The typing of an assignment to one row.
LEMMA RowSet ==
  ASSUME TypeOK, NEW k \in Keys, NEW r \in Row \cup {Missing},
         row' = [row EXCEPT ![k] = r]
  PROVE  row' \in [Keys -> Row \cup {Missing}]
BY DEF TypeOK, Row

\* The typing of an assignment to one call.
LEMMA CallSet ==
  ASSUME TypeOK, NEW c \in Callers, NEW d \in Call \cup {Idle},
         call' = [call EXCEPT ![c] = d]
  PROVE  call' \in [Callers -> Call \cup {Idle}]
BY DEF TypeOK, Call

\* What has expired at one time has expired at every later one.
LEMMA ExpiredForGood ==
  ASSUME ConstantsOK, NEW r \in Row, NEW s \in Nat, NEW t \in Nat, s <= t,
         Expired(r, s)
  PROVE  Expired(r, t)
BY DEF ConstantsOK, Expired, Row, Expiries, Never

-----------------------------------------------------------------------------
(* The invariant *)

\* At first there is no row and no call.
LEMMA InvInit == ConstantsOK /\ Init => Inv
BY DEF ConstantsOK, Init, Inv, TypeOK, LookedBefore, OneKey

\* A call looks at the clock when it begins.
LEMMA BeginInv ==
  ASSUME ConstantsOK, Inv, NEW c \in Callers, NEW k \in Keys, NEW ttl \in Nat,
         NEW op \in {"set", "incr", "delete", "clear", "expire"},
         Begin(c, op, k, ttl)
  PROVE  Inv'
<1> DEFINE d == [op |-> op, keys |-> {k}, at |-> clock, ttl |-> ttl]
<1>1. d \in Call /\ call' = [call EXCEPT ![c] = d]
  BY DEF Begin, Inv, TypeOK, Call
<1>2. TypeOK'
  BY <1>1, CallSet DEF Begin, Inv, TypeOK, Call
<1>3. LookedBefore'
  BY DEF Begin, Inv, TypeOK, LookedBefore
<1>4. OneKey'
  BY DEF Begin, Inv, TypeOK, OneKey
<1> QED BY <1>2, <1>3, <1>4 DEF Inv

\* A call that returns leaves nothing behind.
LEMMA ReturnInv ==
  ASSUME Inv, NEW c \in Callers, Return(c), UNCHANGED clock,
         row' \in [Keys -> Row \cup {Missing}]
  PROVE  Inv'
BY DEF Inv, TypeOK, LookedBefore, OneKey, Return, Row

\* set looks at the clock again before it purges.
LEMMA SetInv ==
  ASSUME ConstantsOK, Inv, NEW c \in Callers, NEW k \in Keys, Set(c, k)
  PROVE  Inv'
<1> DEFINE r == [value |-> 0, expires |-> Expiry(call[c].at, call[c].ttl)]
           d == [call[c] EXCEPT !.op = "purge", !.at = clock]
<1>1. call[c] \in Call
  BY TypeParts DEF Set, Sends, Inv
<1>2. r \in Row
  BY <1>1, ExpiryType DEF Row, Call
<1>3. row' \in [Keys -> Row \cup {Missing}]
  BY <1>2, RowSet DEF Set, Inv
<1>4. d \in Call /\ call' = [call EXCEPT ![c] = d] /\ clock' = clock
  BY <1>1 DEF Set, Inv, TypeOK, Call
<1>5. TypeOK'
  BY <1>3, <1>4, CallSet DEF Inv, TypeOK, Row, Call
<1>6. LookedBefore'
  BY <1>4 DEF Inv, TypeOK, LookedBefore
<1>7. d.op = "purge"
  BY <1>1 DEF Call
<1>8. OneKey'
  BY <1>4, <1>7 DEF Inv, TypeOK, OneKey
<1> QED BY <1>5, <1>6, <1>8 DEF Inv

\* A call that counts writes a number.
LEMMA IncrInv ==
  ASSUME ConstantsOK, Inv, NEW c \in Callers, NEW k \in Keys, Incr(c, k)
  PROVE  Inv'
<1> DEFINE r == IF row[k] = Missing \/ Expired(row[k], call[c].at)
                THEN [value |-> 1, expires |-> Never]
                ELSE [row[k] EXCEPT !.value = @ + 1]
<1>1. [value |-> 1, expires |-> Never] \in Row
  BY DEF ConstantsOK, Row, Expiries, Never
<1>2. row[k] # Missing => [row[k] EXCEPT !.value = @ + 1] \in Row
  BY TypeParts DEF Inv, Row
<1>3. r \in Row
  BY <1>1, <1>2
<1>4. row' = [row EXCEPT ![k] = r]
  BY DEF Incr
<1>5. row' \in [Keys -> Row \cup {Missing}]
  BY <1>3, <1>4, RowSet DEF Inv
<1> QED BY <1>5, ReturnInv DEF Incr

\* A deleted row is missing.
LEMMA WithoutType ==
  ASSUME TypeOK, NEW ks
  PROVE  Without(ks) \in [Keys -> Row \cup {Missing}]
BY DEF TypeOK, Without, Row

\* expire gives a row a new date.
LEMMA ExpireInv ==
  ASSUME ConstantsOK, Inv, NEW c \in Callers, NEW k \in Keys, Expire(c, k)
  PROVE  Inv'
<1>1. CASE row[k] = Missing
  BY <1>1, ReturnInv DEF Expire, Inv, TypeOK, Row
<1>2. CASE row[k] # Missing
  <2> DEFINE e == Expiry(call[c].at, call[c].ttl)
             r == [row[k] EXCEPT !.expires = e]
  <2>1. call[c] \in Call /\ row[k] \in Row
    BY <1>2, TypeParts DEF Expire, Sends, Inv
  <2>2. e \in Expiries
    BY <2>1, ExpiryType DEF Call
  <2>3. r \in Row
    BY <2>1, <2>2 DEF Row
  <2>4. row' = [row EXCEPT ![k] = r]
    BY <1>2 DEF Expire
  <2>5. row' \in [Keys -> Row \cup {Missing}]
    BY <2>3, <2>4, RowSet DEF Inv
  <2> QED BY <2>5, ReturnInv DEF Expire
<1> QED BY <1>1, <1>2

\* Statements that delete rows, and the one that lists them.
LEMMA DeletionInv ==
  ASSUME ConstantsOK, Inv, NEW c \in Callers,
         Purge(c) \/ Delete(c) \/ Clear(c)
  PROVE  Inv'
<1>1. CASE Purge(c)
  BY <1>1, WithoutType, ReturnInv DEF Purge, Inv
<1>2. CASE Delete(c)
  BY <1>2, WithoutType, ReturnInv DEF Delete, Inv
<1>3. CASE Clear(c)
  <2> DEFINE d == [call[c] EXCEPT !.op = "delete", !.keys = Visible(call[c].at)]
  <2>1. call[c] \in Call
    BY <1>3, TypeParts DEF Clear, Inv
  <2>2. d \in Call /\ call' = [call EXCEPT ![c] = d] /\ d.at = call[c].at
    BY <1>3, <2>1 DEF Clear, Call, Visible, Present, Inv, TypeOK
  <2>3. TypeOK'
    BY <1>3, <2>2, CallSet DEF Clear, Inv, TypeOK, Call
  <2>4. LookedBefore'
    BY <1>3, <2>2 DEF Clear, Inv, TypeOK, LookedBefore
  <2>5. d.op = "delete"
    BY <2>1 DEF Call
  <2>6. OneKey'
    BY <1>3, <2>2, <2>5 DEF Clear, Inv, TypeOK, OneKey
  <2> QED BY <2>3, <2>4, <2>6 DEF Inv
<1> QED BY <1>1, <1>2, <1>3

\* The clock only goes on.
LEMMA TickInv ==
  ASSUME ConstantsOK, Inv, Tick
  PROVE  Inv'
<1>1. TypeOK'
  BY DEF ConstantsOK, Inv, TypeOK, Tick
<1>2. ASSUME NEW c \in Callers, call'[c] # Idle PROVE call'[c].at <= clock'
  <2>1. call[c] \in Call /\ call[c].at <= clock
    BY <1>2, TypeParts DEF Tick, Inv, LookedBefore
  <2> QED BY <2>1 DEF Tick, Inv, TypeOK, Call, ConstantsOK
<1>3. OneKey'
  BY DEF Inv, OneKey, Tick
<1> QED BY <1>1, <1>2, <1>3 DEF Inv, LookedBefore

\* No step of the store breaks the invariant.
LEMMA InvNext == ConstantsOK /\ Inv /\ [Next]_vars => Inv'
<1> SUFFICES ASSUME ConstantsOK, Inv, [Next]_vars PROVE Inv'
  OBVIOUS
<1>1. ASSUME NEW c \in Callers, NEW k \in Keys, NEW ttl \in Ttls \cup {0},
             Begin(c, "set", k, ttl) \/ Begin(c, "expire", k, ttl)
      PROVE  Inv'
  BY <1>1, BeginInv DEF ConstantsOK
<1>2. ASSUME NEW c \in Callers, NEW k \in Keys,
             NEW op \in {"incr", "delete", "clear"}, Begin(c, op, k, 0)
      PROVE  Inv'
  BY <1>2, BeginInv
<1>3. ASSUME NEW c \in Callers, NEW k \in Keys,
             Set(c, k) \/ Incr(c, k) \/ Expire(c, k)
      PROVE  Inv'
  BY <1>3, SetInv, IncrInv, ExpireInv
<1>4. ASSUME NEW c \in Callers, Purge(c) \/ Delete(c) \/ Clear(c)
      PROVE  Inv'
  BY <1>4, DeletionInv
<1>5. CASE UNCHANGED vars
  BY <1>5 DEF vars, Inv, TypeOK, LookedBefore, OneKey
<1> QED BY <1>1, <1>2, <1>3, <1>4, <1>5, TickInv DEF Next

(* Rows, calls and the clock have their types: a date of expiry never      *)
(* leaves the calendar, whatever lifetime was asked for.                   *)
THEOREM TypeCorrect == ASSUME ConstantsOK PROVE Spec => []TypeOK
<1>1. Init => Inv
  BY InvInit
<1>2. Inv /\ [Next]_vars => Inv'
  BY InvNext
<1>3. Inv => TypeOK
  BY DEF Inv
<1> QED BY <1>1, <1>2, <1>3, PTL DEF Spec

-----------------------------------------------------------------------------
(* The refinement *)

\* What ExpiringMap sees of the store beside Asks and Sees: the values, and
\* who is live.
Kept == [k \in Keys |-> IF row[k] = Missing THEN Missing ELSE row[k].value]
Live == Visible(clock)

\* A step of the store that ExpiringMap allows.
Allowed == [Promise!Next]_(Promise!map)

\* An increment has one caller, that does nothing else, and one key.
LEMMA Asking ==
  ASSUME NEW a \in Asks
  PROVE  /\ a[1] \in Callers /\ a[2] \in Keys /\ a = <<a[1], a[2]>>
         /\ Sends(a[1], "incr", a[2])
BY DEF Asks

\* The increments of one key, as ExpiringMap names them.
LEMMA AskingOf ==
  ASSUME NEW k
  PROVE  Promise!Of(k) = {a \in Asks : a[2] = k}
BY DEF Promise!Of

\* Steps that begin no increment and end none leave them under way.
LEMMA SameAsks ==
  ASSUME \A c \in Callers, k \in Keys :
           Sends(c, "incr", k)' <=> Sends(c, "incr", k)
  PROVE  Asks' = Asks
BY DEF Asks

(* What another call than an increment does to calls leaves increments     *)
(* under way, and what they know of the clock.                             *)
LEMMA OtherCall ==
  ASSUME Inv, NEW c \in Callers, NEW d, call' = [call EXCEPT ![c] = d],
         call[c] = Idle \/ call[c].op # "incr",
         d = Idle \/ d.op # "incr"
  PROVE  /\ Asks' = Asks
         /\ \A a \in Asks : a[1] # c /\ call'[a[1]] = call[a[1]]
<1>1. /\ \A b \in Callers \ {c} : call'[b] = call[b]
      /\ call'[c] = d
  BY DEF Inv, TypeOK
<1>2. ASSUME NEW b \in Callers, NEW k \in Keys
      PROVE  Sends(b, "incr", k)' <=> Sends(b, "incr", k)
  BY <1>1 DEF Sends
<1>3. Asks' = Asks
  BY <1>2, SameAsks
<1>4. \A a \in Asks : a[1] # c
  BY DEF Asks, Sends
<1>5. \A a \in Asks : a[1] \in Callers
  BY Asking
<1> QED BY <1>1, <1>3, <1>4, <1>5

\* A step that leaves rows, clock and increments alone is none.
LEMMA Stutter ==
  ASSUME UNCHANGED <<row, clock>>, Asks' = Asks,
         \A a \in Asks : call'[a[1]] = call[a[1]]
  PROVE  Allowed
<1>1. Sees' = Sees
  BY DEF Sees, Expired, Never
<1> QED BY <1>1 DEF Allowed, Promise!map, Visible, Present, Expired

(* A step that writes to row k alone changes the value of k and whether it *)
(* is live, and nothing else.                                              *)
LEMMA OneRow ==
  ASSUME TypeOK, clock' = clock, NEW k \in Keys, NEW r \in Row,
         row' = [row EXCEPT ![k] = r], Missing \notin Row
  PROVE  /\ Kept' = [Kept EXCEPT ![k] = r.value]
         /\ Live' = IF Expired(r, clock) THEN Live \ {k} ELSE Live \cup {k}
<1>1. row \in [Keys -> Row \cup {Missing}]
  BY DEF TypeOK, Row
<1>2. /\ row'[k] = r /\ r # Missing
      /\ \A j \in Keys \ {k} : row'[j] = row[j]
  BY <1>1
<1>3. Kept' = [Kept EXCEPT ![k] = r.value]
  <2>1. Kept' = [j \in Keys |-> IF j = k THEN r.value ELSE Kept[j]]
    BY <1>2 DEF Kept
  <2> QED BY <2>1 DEF Kept
<1>4. Live' = IF Expired(r, clock) THEN Live \ {k} ELSE Live \cup {k}
  BY <1>2 DEF Live, Visible, Present, Expired, Never
<1> QED BY <1>3, <1>4

(* Whoever asked for an increment before the value was over knows it: all, *)
(* when it is live; another step than an increment leaves the rest alone.  *)
LEMMA RowSeen ==
  ASSUME ConstantsOK, Inv, clock' = clock, NEW k \in Keys, NEW r \in Row,
         row' = [row EXCEPT ![k] = r], Asks' = Asks,
         \A a \in Asks : call'[a[1]] = call[a[1]]
  PROVE  Promise!Written(k)
<1> DEFINE late == {a \in Promise!Of(k) : Expired(r, call[a[1]].at)}
<1>1. /\ row'[k] = r /\ r # Missing
      /\ \A j \in Keys \ {k} : row'[j] = row[j]
  BY DEF Inv, TypeOK, Row, ConstantsOK
<1>2. Live' = IF Expired(r, clock) THEN Live \ {k} ELSE Live \cup {k}
  BY OneRow DEF Inv, ConstantsOK
<1>3. ASSUME NEW a \in Asks
      PROVE  /\ call[a[1]].at \in Nat /\ call[a[1]].at <= clock
             /\ clock \in Nat
             /\ a[2] \in Keys
  BY Asking, TypeParts DEF Inv, LookedBefore, TypeOK, Call, Sends
<1>4. k \in Live' => late = {}
  BY <1>2, <1>3, AskingOf, ExpiredForGood
<1>5. Sees' = (Sees \cup Promise!Of(k)) \ late
  <2>1. ASSUME NEW a \in Asks, a[2] = k
        PROVE  a \in Sees' <=> a \notin late
    BY <1>1, <2>1, AskingOf DEF Sees, Expired, Never
  <2>2. ASSUME NEW a \in Asks, a[2] # k
        PROVE  /\ a \in Sees' <=> a \in Sees
               /\ a \notin Promise!Of(k)
    BY <1>1, <1>3, <2>2, AskingOf DEF Sees, Expired, Never
  <2>3. Sees' \subseteq Asks /\ Sees \subseteq Asks
        /\ Promise!Of(k) = {a \in Asks : a[2] = k}
    BY AskingOf DEF Sees
  <2> QED BY <2>1, <2>2, <2>3
<1>6. late \in SUBSET Promise!Of(k)
  OBVIOUS
<1>7. Live' \in {Live \cup {k}, Live \ {k}}
  BY <1>2
<1> HIDE DEF late
<1> QED BY <1>4, <1>5, <1>6, <1>7 DEF Promise!Written, Live

(* A step that deletes rows that nobody sees, or whatever else it names,   *)
(* takes them away from both.                                              *)
LEMMA RowsGone ==
  ASSUME TypeOK, clock' = clock, NEW ks \in SUBSET Keys, row' = Without(ks),
         Asks' = Asks, \A a \in Asks : call'[a[1]] = call[a[1]]
  PROVE  Promise!Remove(ks)
<1>1. \A k \in Keys : row'[k] = IF k \in ks THEN Missing ELSE row[k]
  BY DEF Without
<1>2. Kept' = [k \in Keys |-> IF k \in ks THEN Missing ELSE Kept[k]]
  BY <1>1 DEF Kept
<1>3. Live' = Live \ ks
  BY <1>1 DEF Live, Visible, Present, Expired, Never
<1>4. Sees' = {a \in Sees : a[2] \notin ks}
  BY <1>1, Asking DEF Sees, Expired, Never
<1> QED BY <1>2, <1>3, <1>4 DEF Promise!Remove, Kept, Live

\* set: a write, that may come too late to be seen.
LEMMA SetPuts ==
  ASSUME ConstantsOK, Inv, NEW c \in Callers, NEW k \in Keys, Set(c, k)
  PROVE  Promise!Put(k)
<1> DEFINE r == [value |-> 0, expires |-> Expiry(call[c].at, call[c].ttl)]
           d == [call[c] EXCEPT !.op = "purge", !.at = clock]
<1>1. call[c] \in Call /\ call[c] # Idle /\ call[c].op = "set"
  BY TypeParts DEF Set, Sends, Inv
<1>2. r \in Row
  BY <1>1, ExpiryType DEF Row, Call
<1>3. Kept' = [Kept EXCEPT ![k] = r.value]
  BY <1>2, OneRow DEF Set, Inv, ConstantsOK
<1>4. d.op = "purge" /\ call' = [call EXCEPT ![c] = d]
  BY <1>1 DEF Set, Call, Inv, TypeOK
<1>5. Asks' = Asks /\ \A a \in Asks : call'[a[1]] = call[a[1]]
  BY <1>1, <1>4, OtherCall
<1>6. Promise!Written(k)
  BY <1>2, <1>5, RowSeen DEF Set
<1> QED BY <1>3, <1>6 DEF Promise!Put, Kept

\* An increment that returns is under way no more, and others still are.
LEMMA IncrReturns ==
  ASSUME Inv, NEW c \in Callers, NEW k \in Keys, Incr(c, k)
  PROVE  /\ <<c, k>> \in Asks /\ Asks' = Asks \ {<<c, k>>}
         /\ \A a \in Asks' : a[1] # c /\ call'[a[1]] = call[a[1]]
<1>1. call[c] \in Call /\ call[c] # Idle /\ call[c].op = "incr"
      /\ call[c].keys = {k}
  BY TypeParts DEF Incr, Sends, Inv, OneKey
<1>2. call'[c] = Idle /\ \A b \in Callers \ {c} : call'[b] = call[b]
  BY DEF Incr, Return, Inv, TypeOK
<1>3. <<c, k>> \in Asks
  BY DEF Asks, Incr
<1>4. ASSUME NEW b \in Callers, NEW j \in Keys
      PROVE  Sends(b, "incr", j)' <=>
               Sends(b, "incr", j) /\ <<b, j>> # <<c, k>>
  BY <1>1, <1>2 DEF Sends
<1>5. Asks' = Asks \ {<<c, k>>}
  BY <1>4 DEF Asks
<1>6. ASSUME NEW a \in Asks' PROVE a[1] \in Callers /\ a[1] # c
  <2>1. a \in Asks /\ a # <<c, k>>
    BY <1>5
  <2>2. a[1] = c => a[2] = k
    BY <1>1, <2>1, Asking DEF Sends
  <2> QED BY <2>1, <2>2, Asking
<1> QED BY <1>2, <1>3, <1>5, <1>6

(* incr: a row that had expired when the caller looked has expired now and *)
(* counts from nothing; another one gets one more.                         *)
LEMMA IncrAdds ==
  ASSUME ConstantsOK, Inv, NEW c \in Callers, NEW k \in Keys, Incr(c, k)
  PROVE  Promise!Add(c, k) \/ Promise!Start(c, k)
<1>0. call[c] \in Call /\ call[c].at <= clock /\ clock \in Nat
      /\ call[c].at \in Nat
  BY TypeParts DEF Incr, Sends, Inv, LookedBefore, TypeOK, Call
<1>r. /\ <<c, k>> \in Asks /\ Asks' = Asks \ {<<c, k>>}
      /\ \A a \in Asks' : a[1] # c /\ call'[a[1]] = call[a[1]]
  BY IncrReturns
<1>t. \A a \in Asks : a[1] \in Callers /\ a[2] \in Keys
                      /\ call[a[1]].at \in Nat
  BY Asking, TypeParts DEF Inv, Call, Sends
<1>1. CASE row[k] = Missing \/ Expired(row[k], call[c].at)
  <2> DEFINE r == [value |-> 1, expires |-> Never]
  <2>1. r \in Row /\ ~Expired(r, clock)
    BY DEF ConstantsOK, Row, Expiries, Never, Expired
  <2>2. Kept' = [Kept EXCEPT ![k] = 1] /\ Live' = Live \cup {k}
    BY <1>1, <2>1, OneRow DEF Incr, Inv, ConstantsOK
  <2>3. k \notin Live
    BY <1>0, <1>1, ExpiredForGood, TypeParts
       DEF Inv, Live, Visible, Present
  <2>4. <<c, k>> \notin Sees
    BY <1>1 DEF Sees
  <2>5. row'[k] = r /\ r # Missing /\ \A j \in Keys \ {k} : row'[j] = row[j]
    BY <1>1, <2>1 DEF Incr, Inv, TypeOK, ConstantsOK
  <2>6. Sees' = (Sees \cup Promise!Of(k)) \ {<<c, k>>}
    <3>1. ASSUME NEW a \in Asks', a[2] = k PROVE a \in Sees'
      BY <2>5, <3>1 DEF Sees, Expired
    <3>2. ASSUME NEW a \in Asks', a[2] # k PROVE a \in Sees' <=> a \in Sees
      BY <1>r, <1>t, <2>5, <3>2 DEF Sees, Expired, Never
    <3>3. Sees' \subseteq Asks' /\ Sees \subseteq Asks
          /\ Promise!Of(k) = {a \in Asks : a[2] = k}
      BY AskingOf DEF Sees
    <3> QED BY <1>r, <3>1, <3>2, <3>3
  <2> QED BY <1>r, <2>2, <2>3, <2>4, <2>6 DEF Promise!Start, Kept, Live
<1>2. CASE ~(row[k] = Missing \/ Expired(row[k], call[c].at))
  <2> DEFINE r == [row[k] EXCEPT !.value = @ + 1]
  <2>1. row[k] \in Row
    BY <1>2, TypeParts DEF Inv
  <2>2. r \in Row /\ r.value = row[k].value + 1 /\ r.expires = row[k].expires
    BY <2>1 DEF Row
  <2>3. row' = [row EXCEPT ![k] = r] /\ clock' = clock
    BY <1>2 DEF Incr
  <2>4. /\ Kept' = [Kept EXCEPT ![k] = r.value]
        /\ Live' = IF Expired(r, clock) THEN Live \ {k} ELSE Live \cup {k}
    BY <2>2, <2>3, OneRow DEF Inv, ConstantsOK
  <2>5. Kept[k] = row[k].value
    BY <1>2, <2>1 DEF Kept, ConstantsOK, Row
  <2>6. Expired(r, clock) <=> k \notin Live
    BY <1>2, <2>2 DEF Live, Visible, Present, Expired
  <2>7. Kept' = [Kept EXCEPT ![k] = @ + 1] /\ Live' = Live
    BY <2>2, <2>4, <2>5, <2>6 DEF Kept
  <2>8. <<c, k>> \in Sees
    BY <1>2, <1>r DEF Sees
  <2>9. /\ row'[k] = r /\ r # Missing /\ row[k] # Missing
        /\ \A j \in Keys \ {k} : row'[j] = row[j]
    BY <1>2, <2>2, <2>3 DEF Inv, TypeOK, ConstantsOK
  <2>10. Sees' = Sees \ {<<c, k>>}
    <3>1. ASSUME NEW a \in Asks' PROVE a \in Sees' <=> a \in Sees
      BY <1>r, <1>t, <2>2, <2>9 DEF Sees, Expired, Never
    <3>2. Sees' \subseteq Asks' /\ Sees \subseteq Asks
      BY DEF Sees
    <3> QED BY <1>r, <3>1, <3>2
  <2> QED BY <1>r, <2>7, <2>8, <2>10 DEF Promise!Add, Kept, Live
<1> QED BY <1>1, <1>2

\* expire: a row that is there is found, whether it is seen or not.
LEMMA ExpireRenews ==
  ASSUME ConstantsOK, Inv, NEW c \in Callers, NEW k \in Keys, Expire(c, k)
  PROVE  Allowed
<1>0. Asks' = Asks /\ \A a \in Asks : call'[a[1]] = call[a[1]]
  BY OtherCall DEF Expire, Sends, Return
<1>1. CASE row[k] = Missing
  BY <1>0, <1>1, Stutter DEF Expire
<1>2. CASE row[k] # Missing
  <2> DEFINE e == Expiry(call[c].at, call[c].ttl)
             r == [row[k] EXCEPT !.expires = e]
  <2>1. call[c] \in Call /\ row[k] \in Row
    BY <1>2, TypeParts DEF Expire, Sends, Inv
  <2>2. e \in Expiries
    BY <2>1, ExpiryType DEF Call
  <2>3. r \in Row /\ r.value = row[k].value
    BY <2>1, <2>2 DEF Row
  <2>4. row' = [row EXCEPT ![k] = r] /\ clock' = clock
    BY <1>2 DEF Expire
  <2>5. Kept' = [Kept EXCEPT ![k] = r.value]
    BY <2>3, <2>4, OneRow DEF Inv, ConstantsOK
  <2>6. Kept[k] = row[k].value /\ Kept[k] # Missing
    BY <1>2, <2>1 DEF Kept, ConstantsOK, Row
  <2>7. Kept' = Kept
    BY <2>3, <2>5, <2>6 DEF Kept
  <2>8. Promise!Written(k)
    BY <1>0, <2>3, <2>4, RowSeen
  <2>9. Promise!Renew(k)
    BY <2>6, <2>7, <2>8 DEF Promise!Renew, Kept
  <2> QED BY <2>9 DEF Allowed, Promise!Next
<1> QED BY <1>1, <1>2

\* Statements that delete rows, and the one that lists them.
LEMMA DeletionRemoves ==
  ASSUME ConstantsOK, Inv, NEW c \in Callers,
         Purge(c) \/ Delete(c) \/ Clear(c)
  PROVE  Allowed
<1>0. ASSUME Purge(c) \/ Delete(c)
      PROVE  Asks' = Asks /\ \A a \in Asks : call'[a[1]] = call[a[1]]
  BY <1>0, OtherCall DEF Purge, Delete, Return
<1>1. CASE Purge(c)
  <2>1. PICK ks \in SUBSET Keys :
          ks = {k \in Present : Expired(row[k], call[c].at)}
    BY DEF Present
  <2>2. row' = Without(ks) /\ clock' = clock
    BY <1>1, <2>1 DEF Purge
  <2>3. Promise!Remove(ks)
    BY <1>0, <1>1, <2>2, RowsGone DEF Inv
  <2> QED BY <2>3 DEF Allowed, Promise!Next
<1>2. CASE Delete(c)
  <2>1. call[c] \in Call /\ row' = Without(call[c].keys) /\ clock' = clock
    BY <1>2, TypeParts DEF Delete, Inv
  <2>2. PICK ks \in SUBSET Keys : ks = call[c].keys
    BY <2>1 DEF Call
  <2>3. Promise!Remove(ks)
    BY <1>0, <1>2, <2>1, <2>2, RowsGone DEF Inv
  <2> QED BY <2>3 DEF Allowed, Promise!Next
<1>3. CASE Clear(c)
  <2> DEFINE d == [call[c] EXCEPT !.op = "delete", !.keys = Visible(call[c].at)]
  <2>1. call[c] \in Call /\ call[c].op = "clear"
    BY <1>3, TypeParts DEF Clear, Inv
  <2>2. d.op = "delete" /\ call' = [call EXCEPT ![c] = d]
    BY <1>3, <2>1 DEF Clear, Call, Inv, TypeOK
  <2>3. Asks' = Asks /\ \A a \in Asks : call'[a[1]] = call[a[1]]
    BY <2>1, <2>2, OtherCall
  <2> QED BY <1>3, <2>3, Stutter DEF Clear
<1> QED BY <1>1, <1>2, <1>3

(* A call that begins is none of the map's steps, unless it is an          *)
(* increment, which is asked for.                                          *)
LEMMA BeginAsks ==
  ASSUME ConstantsOK, Inv, NEW c \in Callers, NEW k \in Keys, NEW ttl \in Nat,
         NEW op \in {"set", "incr", "delete", "clear", "expire"},
         Begin(c, op, k, ttl)
  PROVE  Allowed
<1> DEFINE d == [op |-> op, keys |-> {k}, at |-> clock, ttl |-> ttl]
<1>1. /\ call[c] = Idle /\ call' = [call EXCEPT ![c] = d]
      /\ UNCHANGED <<row, clock>>
  BY DEF Begin
<1>2. CASE op # "incr"
  <2>1. Asks' = Asks /\ \A a \in Asks : call'[a[1]] = call[a[1]]
    BY <1>1, <1>2, OtherCall
  <2> QED BY <1>1, <2>1, Stutter
<1>3. CASE op = "incr"
  <2>1. /\ call'[c] = d /\ d # Idle
        /\ \A b \in Callers \ {c} : call'[b] = call[b]
    <3>1. d \in Call
      BY DEF Inv, TypeOK, Call
    <3>2. d # Idle
      BY <3>1 DEF ConstantsOK
    <3> QED BY <1>1, <3>2 DEF Inv, TypeOK
  <2>2. \A a \in Asks : a[1] # c /\ a[1] \in Callers
    BY <1>1, Asking DEF Sends
  <2>3. ASSUME NEW b \in Callers, NEW j \in Keys
        PROVE  Sends(b, "incr", j)' <=>
                 Sends(b, "incr", j) \/ <<b, j>> = <<c, k>>
    BY <1>1, <1>3, <2>1 DEF Sends
  <2>4. Asks' = Asks \cup {<<c, k>>}
    BY <2>3 DEF Asks
  <2>5. <<c, k>> \in Sees' <=> k \in Live
    BY <1>1, <2>1, <2>4 DEF Sees, Live, Visible, Present, Expired, Never
  <2>6. ASSUME NEW a \in Asks PROVE a \in Sees' <=> a \in Sees
    BY <1>1, <2>1, <2>2, <2>4 DEF Sees, Expired, Never
  <2>7. Sees' = IF k \in Live THEN Sees \cup {<<c, k>>} ELSE Sees
    <3>1. Sees' \subseteq Asks' /\ Sees \subseteq Asks /\ <<c, k>> \notin Asks
      BY <2>2 DEF Sees
    <3> QED BY <2>4, <2>5, <2>6, <3>1
  <2>8. Kept' = Kept /\ Live' = Live
    BY <1>1 DEF Kept, Live, Visible, Present, Expired
  <2>9. Promise!Ask(c, k)
    BY <2>2, <2>4, <2>7, <2>8 DEF Promise!Ask, Kept, Live
  <2> QED BY <2>9 DEF Allowed, Promise!Next
<1> QED BY <1>2, <1>3

\* As time goes on, keys stop being live and none comes to light.
LEMMA TimePasses ==
  ASSUME ConstantsOK, Inv, Tick
  PROVE  Allowed
<1> DEFINE ks == Live \ Live'
<1>1. clock \in Nat /\ clock' \in Nat /\ clock <= clock' /\ row' = row
      /\ call' = call
  BY DEF ConstantsOK, Inv, TypeOK, Tick
<1>2. ASSUME NEW k \in Keys, row[k] # Missing, Expired(row[k], clock)
      PROVE  Expired(row[k], clock')
  BY <1>1, <1>2, ExpiredForGood, TypeParts DEF Inv
<1>3. Live' \subseteq Live
  BY <1>1, <1>2 DEF Live, Visible, Present, Expired, Never
<1>4. Live' = Live \ ks /\ Kept' = Kept /\ ks \in SUBSET Keys
  BY <1>1, <1>3 DEF Kept, Live, Visible, Present
<1>5. Asks' = Asks /\ Sees' = Sees
  BY <1>1 DEF Asks, Sees, Sends, Expired, Never
<1>6. Promise!TimeOver(ks)
  BY <1>4, <1>5 DEF Promise!TimeOver, Kept, Live
<1> QED BY <1>4, <1>6 DEF Allowed, Promise!Next

\* An empty store maps to an empty map.
LEMMA InitMaps == Init => Promise!Init
BY DEF Init, Promise!Init, Visible, Present, Asks, Sees, Sends

\* Every step of the store maps to a step of the map, or to none.
LEMMA StepMaps == ConstantsOK /\ Inv /\ [Next]_vars => Allowed
<1> SUFFICES ASSUME ConstantsOK, Inv, [Next]_vars PROVE Allowed
  OBVIOUS
<1>1. ASSUME NEW c \in Callers, NEW k \in Keys, NEW ttl \in Nat,
             NEW op \in {"set", "incr", "delete", "clear", "expire"},
             Begin(c, op, k, ttl)
      PROVE  Allowed
  BY <1>1, BeginAsks
<1>2. ASSUME NEW c \in Callers, NEW k \in Keys, Set(c, k) PROVE Allowed
  BY <1>2, SetPuts DEF Allowed, Promise!Next
<1>3. ASSUME NEW c \in Callers, NEW k \in Keys, Incr(c, k) PROVE Allowed
  BY <1>3, IncrAdds DEF Allowed, Promise!Next
<1>4. CASE UNCHANGED vars
  BY <1>4, Stutter DEF vars, Asks, Sends
<1> QED BY <1>1, <1>2, <1>3, <1>4, ExpireRenews, DeletionRemoves, TimePasses
        DEF Next, ConstantsOK

(* The store keeps the promise of ExpiringMap, whatever calls overlap and  *)
(* however long a statement waits after its caller looked at the clock: no *)
(* increment is lost, none counts from a value that was over when it was   *)
(* asked for, and only set, incr and expire bring a key to light.          *)
THEOREM KeepsPromise == ASSUME ConstantsOK PROVE Spec => ActsAsMap
<1>1. Init => Inv /\ Promise!Init
  BY InvInit, InitMaps
<1>2. Inv /\ [Next]_vars => Inv'
  BY InvNext
<1>3. Inv /\ [Next]_vars => [Promise!Next]_(Promise!map)
  BY StepMaps DEF Allowed
<1> QED BY <1>1, <1>2, <1>3, PTL DEF Spec, ActsAsMap, Promise!Spec

=============================================================================
