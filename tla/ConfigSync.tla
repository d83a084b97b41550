----------------------------- MODULE ConfigSync -----------------------------
(***************************************************************************)
(* Configuration options changed at runtime: the system_info table, the    *)
(* copy that every process keeps of it, and the stamp ckan.config_update   *)
(* by which each request finds out that its process has to read the table  *)
(* again (ckan/lib/app_globals.py).                                        *)
(***************************************************************************)
EXTENDS Naturals

CONSTANTS
  Processes,
  Requests,
  Nothing,
  Options,
  MaxValue,   \* values set; 0 is the one of the configuration file
  MaxStamp    \* updates (bound)

VARIABLES
  db,      \* the value of each option in system_info; 0: no row
  stamp,   \* ckan.config_update
  config,  \* the options as each process has them
  known,   \* _config_update of each process
  mutex,   \* the processes whose lock is taken
  call,    \* [pc, at, todo, value, held] of each request: held is the stamp
           \* it has read, or the option it has written last
  behind   \* processes that no stamp tells of a change

vars == <<db, stamp, config, known, mutex, call, behind>>

Unread == MaxStamp + 1   \* no stamp was read since the process started

At(r, pc) == call[r] # Nothing /\ call[r].pc = pc
Go(r, pc) == call' = [call EXCEPT ![r].pc = pc]
End(r) == call' = [call EXCEPT ![r] = Nothing]
Here(p) == {r \in Requests : call[r] # Nothing /\ call[r].at = p}

\* The first statement of _check_uptodate.
Begin(r, p) ==
  /\ call[r] = Nothing
  /\ call' = [call EXCEPT ![r] = [pc |-> "check", at |-> p, todo |-> {},
                                  value |-> 0, held |-> stamp]]
  /\ UNCHANGED <<db, stamp, config, known, mutex, behind>>

(* Another thread that is resetting is not waited for: the request goes on *)
(* with the options as they are.                                           *)
Check(r) ==
  /\ At(r, "check")
  /\ LET p == call[r].at IN
     IF known[p] # call[r].held /\ p \notin mutex
     THEN /\ mutex' = mutex \cup {p}
          /\ behind' = behind \ {p}
          /\ call' = [call EXCEPT ![r].pc = "reset", ![r].todo = Options]
     ELSE Go(r, "serve") /\ UNCHANGED <<mutex, behind>>
  /\ UNCHANGED <<db, stamp, config, known>>

\* reset: one option after the other, in a transaction each.
ResetOption(r, o) ==
  /\ At(r, "reset") \/ At(r, "admin_reset")
  /\ o \in call[r].todo
  /\ config' = [config EXCEPT ![call[r].at][o] = db[o]]
  /\ call' = [call EXCEPT ![r].todo = @ \ {o}]
  /\ UNCHANGED <<db, stamp, known, mutex, behind>>

\* Mutant: the stamp is read again when the options have been read.
ResetDoneLate(r) ==
  /\ At(r, "reset") /\ call[r].todo = {}
  /\ known' = [known EXCEPT ![call[r].at] = stamp]
  /\ mutex' = mutex \ {call[r].at}
  /\ Go(r, "serve")
  /\ UNCHANGED <<db, stamp, config, behind>>

\* The stamp that was read before the options.
ResetDone(r) ==
  /\ At(r, "reset") /\ call[r].todo = {}
  /\ known' = [known EXCEPT ![call[r].at] = call[r].held]
  /\ mutex' = mutex \ {call[r].at}
  /\ Go(r, "serve")
  /\ UNCHANGED <<db, stamp, config, behind>>

(* An exception of the database, or of a value that int() refuses, leaves  *)
(* the lock taken: the process never resets again.                         *)
ResetFails(r) ==
  /\ At(r, "reset")
  /\ behind' = behind \cup {call[r].at}
  /\ End(r)
  /\ UNCHANGED <<db, stamp, config, known, mutex>>

\* config_option_update
Update(r, v, options) ==
  /\ At(r, "serve")
  /\ stamp < MaxStamp
  /\ call' = [call EXCEPT ![r].pc = "write", ![r].todo = options, ![r].value = v]
  /\ UNCHANGED <<db, stamp, config, known, mutex, behind>>

WriteOption(r, o) ==
  /\ At(r, "write") /\ o \in call[r].todo
  /\ db' = [db EXCEPT ![o] = call[r].value]
  /\ call' = [call EXCEPT ![r].pc = "apply", ![r].todo = @ \ {o},
                          ![r].held = o]
  /\ UNCHANGED <<stamp, config, known, mutex, behind>>

\* config[key] = value, in the process of the request.
ApplyOption(r) ==
  /\ At(r, "apply")
  /\ config' = [config EXCEPT ![call[r].at][call[r].held] = call[r].value]
  /\ Go(r, "write")
  /\ UNCHANGED <<db, stamp, known, mutex, behind>>

Stamp(r) ==
  /\ At(r, "write") /\ call[r].todo = {}
  /\ stamp < MaxStamp
  /\ stamp' = stamp + 1
  /\ End(r)
  /\ UNCHANGED <<db, config, known, mutex, behind>>

\* ResetConfigView.post
AdminReset(r) ==
  /\ At(r, "serve")
  /\ call' = [call EXCEPT ![r].pc = "delete", ![r].todo = Options]
  /\ UNCHANGED <<db, stamp, config, known, mutex, behind>>

DeleteOption(r, o) ==
  /\ At(r, "delete") /\ o \in call[r].todo
  /\ db' = [db EXCEPT ![o] = 0]
  /\ call' = [call EXCEPT ![r].todo = @ \ {o}]
  /\ behind' = IF db[o] = 0 THEN behind ELSE Processes
  /\ UNCHANGED <<stamp, config, known, mutex>>

\* app_globals.reset, which only the process of the request does.
ResetOwn(r) ==
  /\ At(r, "delete") /\ call[r].todo = {}
  /\ call' = [call EXCEPT ![r].pc = "admin_reset", ![r].todo = Options]
  /\ UNCHANGED <<db, stamp, config, known, mutex, behind>>

Answer(r) ==
  /\ At(r, "serve") \/ (At(r, "admin_reset") /\ call[r].todo = {})
  /\ End(r)
  /\ UNCHANGED <<db, stamp, config, known, mutex, behind>>

(* The process ends and starts again, which reads the options; updates in  *)
(* it are cut.                                                             *)
Restart(p) ==
  /\ call' = [r \in Requests |-> IF r \in Here(p) THEN Nothing ELSE call[r]]
  /\ config' = [config EXCEPT ![p] = db]
  /\ known' = [known EXCEPT ![p] = Unread]
  /\ mutex' = mutex \ {p}
  /\ behind' = (IF \E r \in Here(p) : At(r, "write") \/ At(r, "apply")
                THEN Processes ELSE behind) \ {p}
  /\ UNCHANGED <<db, stamp>>

Init ==
  /\ db = [o \in Options |-> 0]
  /\ stamp = 0
  /\ config = [p \in Processes |-> db]
  /\ known = [p \in Processes |-> Unread]
  /\ mutex = {}
  /\ call = [r \in Requests |-> Nothing]
  /\ behind = {}

Next ==
  \/ \E r \in Requests :
       \/ \E p \in Processes : Begin(r, p)
       \/ \E o \in Options : ResetOption(r, o) \/ WriteOption(r, o) \/ DeleteOption(r, o)
       \/ \E v \in 1 .. MaxValue, os \in (SUBSET Options) \ {{}} : Update(r, v, os)
       \/ Check(r) \/ ResetDone(r) \/ ResetFails(r) \/ ApplyOption(r) \/ Stamp(r)
       \/ AdminReset(r) \/ ResetOwn(r) \/ Answer(r)
  \/ \E p \in Processes : Restart(p)

Spec == Init /\ [][Next]_vars

-----------------------------------------------------------------------------
(* Properties *)

TypeOK ==
  /\ db \in [Options -> 0 .. MaxValue]
  /\ stamp \in 0 .. MaxStamp
  /\ config \in [Processes -> [Options -> 0 .. MaxValue]]
  /\ known \in [Processes -> 0 .. Unread]
  /\ mutex \subseteq Processes
  /\ \A r \in Requests : call[r] # Nothing =>
       call[r].at \in Processes /\ call[r].todo \subseteq Options
  /\ behind \subseteq Processes

Changing(r) ==
  \E pc \in {"write", "apply", "delete", "reset", "admin_reset"} : At(r, pc)

(* A process that knows the latest stamp has the options of the database,  *)
(* when none is being written or read, however resets and updates of       *)
(* several processes and threads interleave.  Exempt, up to the next       *)
(* reset, are an update that was cut before its stamp, an admin's reset to *)
(* the configuration file, which sets no stamp, and a reset that failed.   *)
StampTellsOfOptions ==
  \A p \in Processes :
    /\ known[p] = stamp
    /\ ~ \E r \in Requests : Changing(r)
    /\ p \notin behind
    => config[p] = db
=============================================================================
