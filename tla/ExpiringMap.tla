---------------------------- MODULE ExpiringMap ----------------------------
(***************************************************************************)
(* What ckan/lib/kvstore.py promises its callers, without clocks or expiry *)
(* dates: a map from keys to numbers in which a key may stop being live,   *)
(* every write is one indivisible step, and an increment adds to the value *)
(* that was live when its caller asked for it, and starts at 0 otherwise.  *)
(***************************************************************************)
EXTENDS Naturals

CONSTANTS Keys, Callers, Missing

VARIABLES
  kept,  \* the value of each key, also of one that is no longer live
  live,  \* the keys that readers see
  asks,  \* the increments under way: pairs of a caller and a key
  sees   \* those of them that will add to the value that is kept now

map == <<kept, live, asks, sees>>

Init ==
  /\ kept = [k \in Keys |-> Missing] /\ live = {}
  /\ asks = {} /\ sees = {}

Of(k) == {a \in asks : a[2] = k}

(* A value that is live is seen by every increment under way; of one that  *)
(* was over before it was written, those that asked too late know nothing. *)
Written(k) ==
  /\ live' \in {live \cup {k}, live \ {k}}
  /\ \E late \in SUBSET Of(k) :
       /\ k \in live' => late = {}
       /\ sees' = (sees \cup Of(k)) \ late
  /\ UNCHANGED asks

\* A write that comes so late that its time is already over is never seen.
Put(k) == kept' = [kept EXCEPT ![k] = 0] /\ Written(k)

\* Caller c asks for an increment of k: it sees what is live.
Ask(c, k) ==
  /\ \A a \in asks : a[1] # c
  /\ asks' = asks \cup {<<c, k>>}
  /\ sees' = IF k \in live THEN sees \cup {<<c, k>>} ELSE sees
  /\ UNCHANGED <<kept, live>>

(* The value may have stopped being live since the increment was asked     *)
(* for; it stays so.                                                       *)
Add(c, k) ==
  /\ <<c, k>> \in sees
  /\ kept' = [kept EXCEPT ![k] = @ + 1]
  /\ asks' = asks \ {<<c, k>>} /\ sees' = sees \ {<<c, k>>}
  /\ UNCHANGED live

Start(c, k) ==
  /\ <<c, k>> \in asks \ sees /\ k \notin live
  /\ kept' = [kept EXCEPT ![k] = 1] /\ live' = live \cup {k}
  /\ asks' = asks \ {<<c, k>>} /\ sees' = (sees \cup Of(k)) \ {<<c, k>>}

Remove(ks) ==
  /\ kept' = [k \in Keys |-> IF k \in ks THEN Missing ELSE kept[k]]
  /\ live' = live \ ks
  /\ sees' = {a \in sees : a[2] \notin ks}
  /\ UNCHANGED asks

TimeOver(ks) == live' = live \ ks /\ UNCHANGED <<kept, asks, sees>>

(* expire() also finds keys that are no longer live, and brings them back  *)
(* with the value they had.                                                *)
Renew(k) == kept[k] # Missing /\ Written(k) /\ UNCHANGED kept

Next ==
  \/ \E ks \in SUBSET Keys : Remove(ks) \/ TimeOver(ks)
  \/ \E k \in Keys :
       \/ Put(k)
       \/ Renew(k)
       \/ \E c \in Callers : Ask(c, k) \/ Add(c, k) \/ Start(c, k)

Spec == Init /\ [][Next]_map
=============================================================================
