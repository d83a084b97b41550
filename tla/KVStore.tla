------------------------------ MODULE KVStore ------------------------------
(***************************************************************************)
(* The key/value store for extensions (ckan/lib/kvstore.py).  Every call   *)
(* reads the clock of its process and then sends a statement in a          *)
(* transaction of its own, which may wait: a call is a step that reads the *)
(* clock and a step that is the statement.  set and clear send two.        *)
(* Values are numbers: what set stores stands for 0.                       *)
(***************************************************************************)
EXTENDS Naturals

CONSTANTS
  Keys, Callers,
  Missing,    \* no row
  Idle,       \* no call
  Ttls,       \* lifetimes callers ask for
  MaxTime,    \* the last tick of the clock (bound)
  MaxValue    \* counters go no further (bound)

VARIABLES
  row,    \* the rows of kv_store
  clock,  \* the time
  call    \* what each caller is in the middle of

vars == <<row, clock, call>>

\* expires_at IS NULL
Never == MaxTime + 1
Expiries == 0 .. Never

Min2(a, b) == IF a < b THEN a ELSE b

Expired(r, at) == r.expires # Never /\ r.expires <= at

\* Mutant: seconds are taken for milliseconds.
ExpiryInMilliseconds(at, ttl) == IF ttl = 0 THEN Never ELSE at + 1000 * ttl

\* _expiry: dates after the end of time are all the same.
Expiry(at, ttl) == IF ttl = 0 THEN Never ELSE Min2(at + ttl, Never)

Present == {k \in Keys : row[k] # Missing}
Visible(at) == {k \in Present : ~Expired(row[k], at)}

Begin(c, op, k, ttl) ==
  /\ call[c] = Idle
  /\ call' = [call EXCEPT ![c] =
                [op |-> op, keys |-> {k}, at |-> clock, ttl |-> ttl]]
  /\ UNCHANGED <<row, clock>>

\* Caller c sends the statement of its call for key k.
Sends(c, op, k) == call[c] # Idle /\ call[c].op = op /\ k \in call[c].keys

Return(c) == call' = [call EXCEPT ![c] = Idle]

\* INSERT ... ON CONFLICT DO UPDATE, followed by _purge with a new time.
Set(c, k) ==
  /\ Sends(c, "set", k)
  /\ row' = [row EXCEPT ![k] =
               [value |-> 0, expires |-> Expiry(call[c].at, call[c].ttl)]]
  /\ call' = [call EXCEPT ![c].op = "purge", ![c].at = clock]
  /\ UNCHANGED clock

Without(ks) == [k \in Keys |-> IF k \in ks THEN Missing ELSE row[k]]

Purge(c) ==
  /\ call[c] # Idle /\ call[c].op = "purge"
  /\ row' = Without({k \in Present : Expired(row[k], call[c].at)})
  /\ Return(c)
  /\ UNCHANGED clock

\* Mutant: the row is updated without a look at its expiry.
IncrIgnoringExpiry(c, k) ==
  /\ Sends(c, "incr", k)
  /\ row' = [row EXCEPT ![k] =
               [value |-> 1 + IF row[k] = Missing THEN 0 ELSE row[k].value,
                expires |-> Never]]
  /\ Return(c)
  /\ UNCHANGED clock

Incr(c, k) ==
  /\ Sends(c, "incr", k)
  /\ row[k] # Missing => row[k].value < MaxValue
  /\ row' = [row EXCEPT ![k] =
               IF row[k] = Missing \/ Expired(row[k], call[c].at)
               THEN [value |-> 1, expires |-> Never]
               ELSE [row[k] EXCEPT !.value = @ + 1]]
  /\ Return(c)
  /\ UNCHANGED clock

Delete(c) ==
  /\ call[c] # Idle /\ call[c].op = "delete"
  /\ row' = Without(call[c].keys)
  /\ Return(c)
  /\ UNCHANGED clock

\* clear lists the visible keys, and deletes them in a second statement.
Clear(c) ==
  /\ call[c] # Idle /\ call[c].op = "clear"
  /\ call' = [call EXCEPT ![c].op = "delete",
                          ![c].keys = Visible(call[c].at)]
  /\ UNCHANGED <<row, clock>>

Expire(c, k) ==
  /\ Sends(c, "expire", k)
  /\ row' = IF row[k] = Missing THEN row
            ELSE [row EXCEPT ![k].expires = Expiry(call[c].at, call[c].ttl)]
  /\ Return(c)
  /\ UNCHANGED clock

Tick == clock < MaxTime /\ clock' = clock + 1 /\ UNCHANGED <<row, call>>

Init ==
  /\ row = [k \in Keys |-> Missing]
  /\ clock = 0
  /\ call = [c \in Callers |-> Idle]

Next ==
  \/ \E c \in Callers :
       \/ \E k \in Keys :
            \/ \E ttl \in Ttls \cup {0} :
                 Begin(c, "set", k, ttl) \/ Begin(c, "expire", k, ttl)
            \/ \E op \in {"incr", "delete", "clear"} : Begin(c, op, k, 0)
            \/ Set(c, k)
            \/ Incr(c, k)
            \/ Expire(c, k)
       \/ Purge(c)
       \/ Delete(c)
       \/ Clear(c)
  \/ Tick

Spec == Init /\ [][Next]_vars

-----------------------------------------------------------------------------
(* Properties *)

TypeOK ==
  /\ row \in [Keys -> [value : Nat, expires : Expiries] \cup {Missing}]
  /\ clock \in 0 .. MaxTime
  /\ call \in [Callers ->
       [op : {"set", "purge", "incr", "delete", "clear", "expire"},
        keys : SUBSET Keys, at : 0 .. MaxTime, ttl : Nat] \cup {Idle}]

\* The increments under way, and those of them that will find a value: its
\* time was not over when they looked at the clock.
Asks == {a \in Callers \X Keys : Sends(a[1], "incr", a[2])}
Sees == {a \in Asks : row[a[2]] # Missing
                      /\ ~Expired(row[a[2]], call[a[1]].at)}

Promise == INSTANCE ExpiringMap WITH
  kept <- [k \in Keys |-> IF row[k] = Missing THEN Missing ELSE row[k].value],
  live <- Visible(clock), asks <- Asks, sees <- Sees

(* The store keeps the promise of ExpiringMap whatever calls overlap and   *)
(* however long a statement waits after its caller looked at the clock: no *)
(* increment is lost, none counts from a value that was over when it was   *)
(* asked for, and only set, incr and expire bring a key to light.          *)
ActsAsMap == Promise!Spec
=============================================================================
