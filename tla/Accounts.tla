------------------------------ MODULE Accounts ------------------------------
(***************************************************************************)
(* The accounts invited at one email address: user_invite creates a        *)
(* pending user, makes it a member and mails a reset key; the key opens    *)
(* the form that sets the password and activates the user.  Every step     *)
(* below is a transaction, and the process may stop after any of them.     *)
(***************************************************************************)
EXTENDS Naturals

CONSTANTS
  Users,     \* the accounts there is room for (bound)
  Requests,
  Idle,
  MaxKeys    \* reset keys made (bound)

VARIABLES
  user,      \* [state, key, member, password]: password is the key that set it
  keys,      \* the keys made so far are 1 .. keys
  mailbox,   \* mails delivered to the address: [user, key]
  unsent,    \* keys of which no mail was sent
  call,      \* [pc, user, key, admin] of each request
  refused,   \* users of which the inviter was told that they were not created
  adrift     \* users whose invitation stopped half way, or could not be undone

vars == <<user, keys, mailbox, unsent, call, refused, adrift>>

Go(r, pc) == call' = [call EXCEPT ![r].pc = pc]
End(r) == call' = [call EXCEPT ![r] = Idle]
At(r, pc) == call[r] # Idle /\ call[r].pc = pc
Update(u, f, v) == user' = [user EXCEPT ![u][f] = v]

\* email_is_unique, for ckan.user.unique_email_states = active.
ActiveOthers(u) == {v \in Users \ {u} : user[v].state = "active"}

(* admin: the inviter is a sysadmin, not only an admin of the group. *)
UserInvite(r, u, admin) ==
  /\ call[r] = Idle
  /\ user[u].state = "none"
  /\ ActiveOthers(u) = {}
  /\ Update(u, "state", "pending")
  /\ call' = [call EXCEPT ![r] =
                [pc |-> "join", user |-> u, key |-> 0, admin |-> admin]]
  /\ UNCHANGED <<keys, mailbox, unsent, refused, adrift>>

MemberCreate(r) ==
  /\ At(r, "join")
  /\ Update(call[r].user, "member", TRUE)
  /\ Go(r, "invite")
  /\ UNCHANGED <<keys, mailbox, unsent, refused, adrift>>

\* Anyone may ask for a reset key to be mailed; deleted users are not found.
RequestReset(r, u) ==
  /\ call[r] = Idle
  /\ user[u].state \in {"pending", "active"}
  /\ call' = [call EXCEPT ![r] =
                [pc |-> "reset", user |-> u, key |-> 0, admin |-> FALSE]]
  /\ UNCHANGED <<user, keys, mailbox, unsent, refused, adrift>>

MailPc(pc) == IF pc = "invite" THEN "mail_invite" ELSE "mail_reset"

\* create_reset_key of send_invite and send_reset_link
CreateResetKey(r) ==
  /\ At(r, "invite") \/ At(r, "reset")
  /\ keys < MaxKeys
  /\ keys' = keys + 1
  /\ Update(call[r].user, "key", keys + 1)
  /\ call' = [call EXCEPT ![r].pc = MailPc(@), ![r].key = keys + 1]
  /\ UNCHANGED <<mailbox, unsent, refused, adrift>>

Mailing(r) == At(r, "mail_invite") \/ At(r, "mail_reset")

Delivered(r) ==
  /\ mailbox' = mailbox \cup {[user |-> call[r].user, key |-> call[r].key]}
  /\ UNCHANGED unsent

NotDelivered(r) == unsent' = unsent \cup {call[r].key} /\ UNCHANGED mailbox

\* mail_recipient returns as well when there is no smtp.server, and the caller
\* goes on as if the mail had been sent.
MailUser(r) ==
  /\ Mailing(r)
  /\ Delivered(r) \/ NotDelivered(r)
  /\ End(r)
  /\ UNCHANGED <<user, keys, refused, adrift>>

\* The error may come after the server has taken the mail.
MailFails(r) ==
  /\ Mailing(r)
  /\ Delivered(r) \/ NotDelivered(r)
  /\ IF call[r].pc = "mail_invite" THEN Go(r, "undo") ELSE End(r)
  /\ UNCHANGED <<user, keys, refused, adrift>>

\* Mutant: the memberships of the user are left.
DeletedKeepingMember(u) == [u EXCEPT !.state = "deleted"]

\* user_delete, the memberships included
Deleted(u) == [u EXCEPT !.state = "deleted", !.member = FALSE]

(* The pending user is deleted in the name of the inviter, which only      *)
(* sysadmins may: to others the error says that they are not authorized.   *)
UndoInvite(r) ==
  /\ At(r, "undo")
  /\ LET u == call[r].user IN
     IF call[r].admin
     THEN /\ user' = [user EXCEPT ![u] = Deleted(@)]
          /\ refused' = refused \cup {u}
          /\ UNCHANGED adrift
     ELSE adrift' = adrift \cup {u} /\ UNCHANGED <<user, refused>>
  /\ End(r)
  /\ UNCHANGED <<keys, mailbox, unsent>>

UserDelete(u) ==
  /\ user[u].state \in {"pending", "active"}
  /\ user' = [user EXCEPT ![u] = Deleted(@)]
  /\ UNCHANGED <<keys, mailbox, unsent, call, refused, adrift>>

\* verify_reset_link: a mail is good for the last key of its user.
LetsIn(m) ==
  user[m.user].state \in {"pending", "active"} /\ user[m.user].key = m.key

\* PerformResetView._prepare
OpenReset(r, m) ==
  /\ call[r] = Idle
  /\ LetsIn(m)
  /\ call' = [call EXCEPT ![r] = [pc |-> "form", user |-> m.user,
                                  key |-> m.key, admin |-> FALSE]]
  /\ UNCHANGED <<user, keys, mailbox, unsent, refused, adrift>>

\* user_update with the new password; the form is shown again on an error.
SetPassword(r) ==
  /\ At(r, "form")
  /\ LET u == call[r].user IN
     IF ActiveOthers(u) # {} THEN UNCHANGED user /\ End(r)
     ELSE /\ Update(u, "password", call[r].key)
          /\ Go(r, IF user[u].state = "pending" THEN "activate" ELSE "spend")
  /\ UNCHANGED <<keys, mailbox, unsent, refused, adrift>>

(* user_patch by the site user sets the state whatever it is by now; email *)
(* addresses of active users are kept apart by an index of the table.      *)
Activate(r) ==
  /\ At(r, "activate")
  /\ IF ActiveOthers(call[r].user) # {} THEN UNCHANGED user /\ End(r)
     ELSE Update(call[r].user, "state", "active") /\ Go(r, "spend")
  /\ UNCHANGED <<keys, mailbox, unsent, refused, adrift>>

\* create_reset_key once the password is set, and the success is shown.
Spend(r) ==
  /\ At(r, "spend")
  /\ keys < MaxKeys
  /\ keys' = keys + 1
  /\ Update(call[r].user, "key", keys + 1)
  /\ End(r)
  /\ UNCHANGED <<mailbox, unsent, refused, adrift>>

Inviting(r) ==
  call[r] # Idle /\ call[r].pc \in {"join", "invite", "mail_invite", "undo"}

\* The process that serves a request stops, or an error is not caught.
Crash(r) ==
  /\ call[r] # Idle
  /\ unsent' = IF Mailing(r) THEN unsent \cup {call[r].key} ELSE unsent
  /\ adrift' = IF Inviting(r) THEN adrift \cup {call[r].user} ELSE adrift
  /\ End(r)
  /\ UNCHANGED <<user, keys, mailbox, refused>>

Init ==
  /\ user = [u \in Users |->
               [state |-> "none", key |-> 0, member |-> FALSE, password |-> 0]]
  /\ keys = 0
  /\ mailbox = {}
  /\ unsent = {}
  /\ call = [r \in Requests |-> Idle]
  /\ refused = {}
  /\ adrift = {}

Next ==
  \/ \E r \in Requests :
       \/ \E u \in Users : RequestReset(r, u)
       \/ \E u \in Users, admin \in BOOLEAN : UserInvite(r, u, admin)
       \/ \E m \in mailbox : OpenReset(r, m)
       \/ MemberCreate(r) \/ CreateResetKey(r) \/ MailUser(r) \/ MailFails(r)
       \/ UndoInvite(r) \/ SetPassword(r) \/ Activate(r) \/ Spend(r) \/ Crash(r)
  \/ \E u \in Users : UserDelete(u)

Spec == Init /\ [][Next]_vars

-----------------------------------------------------------------------------
(* Properties *)

TypeOK ==
  /\ user \in [Users -> [state : {"none", "pending", "active", "deleted"},
                         key : 0 .. MaxKeys, member : BOOLEAN,
                         password : 0 .. MaxKeys]]
  /\ keys \in 0 .. MaxKeys
  /\ mailbox \subseteq [user : Users, key : 1 .. keys]
  /\ unsent \subseteq 1 .. keys
  /\ \A r \in Requests : call[r] # Idle => call[r].key \in 0 .. keys
  /\ refused \cup adrift \subseteq Users

\* The last key of a user was mailed and lets him in, or is being mailed.
Reached(u) ==
  \/ \E m \in mailbox : m.user = u /\ LetsIn(m)
  \/ \E r \in Requests : Mailing(r) /\ call[r].user = u /\ call[r].key = user[u].key

(* What an invitation leaves once it is over is whole: a pending user is a *)
(* member, and a mail that was delivered lets him in, also after resets    *)
(* that took the place of the key of the invitation; and a user of whom    *)
(* the inviter was told that it was not created has no role in the group,  *)
(* not even when the mail had arrived after all and its reset brings the   *)
(* deleted user back.  Exempt are invitations that a crash cut or that an  *)
(* ordinary admin could not undo (create.py:1099), and users of whose last *)
(* key no mail was sent: there is no mail server, the mail of a later      *)
(* reset failed, or a crash came before it.                                *)
InvitationsAreWhole ==
  /\ \A u \in refused : ~user[u].member
  /\ \A u \in Users \ adrift :
       /\ user[u].state = "pending"
       /\ ~ \E r \in Requests : Inviting(r) /\ call[r].user = u
       => user[u].member /\ (user[u].key \in unsent \/ Reached(u))
=============================================================================
