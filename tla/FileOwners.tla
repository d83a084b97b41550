----------------------------- MODULE FileOwners -----------------------------
(***************************************************************************)
(* The owner of one file: pinning it, transferring it, and the history of  *)
(* its owners.  An action loads the row of the owner, checks the pin, and  *)
(* commits the columns that it changed.                                    *)
(***************************************************************************)
EXTENDS Naturals, Sequences

CONSTANTS
  Requests,
  Nothing,    \* no request, no owner
  Owners,
  MaxHistory  \* transfers (bound)

VARIABLES
  owner,    \* [to, pinned] of the row, or Nothing
  history,  \* the owners archived, oldest first
  past,     \* the owners the file had, in order
  call,     \* [loaded, to, pin, force] of each transfer or pin
  stale     \* requests whose row changed after they loaded it

vars == <<owner, history, past, call, stale>>

Busy == {r \in Requests : call[r] # Nothing}

Load(r, to, pin, force) ==
  /\ call[r] = Nothing
  /\ call' = [call EXCEPT ![r] =
                [loaded |-> owner, to |-> to, pin |-> pin, force |-> force]]
  /\ stale' = stale \ {r}
  /\ UNCHANGED <<owner, history, past>>

\* file_pin: "File has no owner" otherwise; file_unpin does nothing then.
Pin(r, pin) == owner # Nothing /\ Load(r, owner.to, pin, FALSE)

Transfer(r, to, pin, force) ==
  /\ owner # Nothing /\ owner.pinned => force
  /\ Load(r, to, pin, force)

\* A column is written when it differs from what was loaded.
Written(loaded, current, new) == IF new = loaded THEN current ELSE new

\* Mutant: the new owner is archived.
ArchivedNew(c) == IF c.loaded # Nothing /\ c.loaded.to # c.to THEN <<c.to>> ELSE <<>>

\* FileOwnerTransferHistory.from_owner, with the owner that was loaded.
Archived(c) ==
  IF c.loaded # Nothing /\ c.loaded.to # c.to THEN <<c.loaded.to>> ELSE <<>>

(* A second row for the file, whose key is the file, is refused.           *)
Commit(r) ==
  LET c == call[r] IN
  /\ c # Nothing
  /\ call' = [call EXCEPT ![r] = Nothing]
  /\ Len(history) < MaxHistory
  /\ IF c.loaded = Nothing
     THEN /\ owner' = IF owner = Nothing THEN [to |-> c.to, pinned |-> c.pin]
                      ELSE owner
          /\ UNCHANGED history
     ELSE /\ owner' = [to |-> Written(c.loaded.to, owner.to, c.to),
                       pinned |-> Written(c.loaded.pinned, owner.pinned, c.pin)]
          /\ history' = history \o Archived(c)
  /\ past' = IF owner # Nothing /\ owner'.to # owner.to
             THEN Append(past, owner.to) ELSE past
  /\ stale' = IF owner' = owner THEN stale \ {r} ELSE Busy \ {r}

Init ==
  /\ owner = Nothing
  /\ history = <<>>
  /\ past = <<>>
  /\ call = [r \in Requests |-> Nothing]
  /\ stale = {}

Next ==
  \E r \in Requests :
    \/ \E pin \in BOOLEAN : Pin(r, pin)
    \/ \E to \in Owners, pin, force \in BOOLEAN : Transfer(r, to, pin, force)
    \/ Commit(r)

Spec == Init /\ [][Next]_vars

-----------------------------------------------------------------------------
(* Properties *)

TypeOK ==
  /\ owner \in [to : Owners, pinned : BOOLEAN] \cup {Nothing}
  /\ history \in Seq(Owners) /\ Len(history) <= MaxHistory
  /\ past \in Seq(Owners)
  /\ \A r \in Busy : call[r].to \in Owners
  /\ stale \subseteq Requests

(* A pinned file goes to another owner only by force, and the history is   *)
(* the owners that the file had, in their order; both up to a transfer     *)
(* that writes over a row which has changed since it was loaded.           *)
TransfersAreRecorded ==
  [][\A r \in Requests \ stale :
       call[r] # Nothing /\ call'[r] = Nothing =>
         /\ owner # Nothing /\ owner.pinned /\ owner'.to # owner.to
            => call[r].force
         /\ history = past => history' = past']_vars
=============================================================================
