----------------------------- MODULE JobPromise -----------------------------
(* What the job queue promises to those who enqueue jobs, without ids,     *)
(* rows, locks, queues or clocks.  Every enqueue call gets a ticket.  A    *)
(* waiting ticket is handed to one worker, or it is withdrawn (cancelled,  *)
(* cleared, replaced); a ticket that left the waiting set never comes      *)
(* back, so that no call is run twice.                                     *)
EXTENDS Naturals

CONSTANT Workers

VARIABLES
  submitted,  \* the tickets given out are 1 .. submitted
  waiting,    \* the tickets no worker was handed yet
  running     \* running[w]: the ticket worker w has in hand, 0 if none

promise == <<submitted, waiting, running>>

Init ==
  /\ submitted = 0
  /\ waiting = {}
  /\ running = [w \in Workers |-> 0]

\* A new ticket, which may replace one that waits.
Submit ==
  /\ submitted' = submitted + 1
  /\ \/ waiting' = waiting \cup {submitted + 1}
     \/ \E t \in waiting : waiting' = (waiting \ {t}) \cup {submitted + 1}
  /\ UNCHANGED running

Withdraw ==
  /\ \E gone \in SUBSET waiting : waiting' = waiting \ gone
  /\ UNCHANGED <<submitted, running>>

Take(w) ==
  /\ running[w] = 0
  /\ \E t \in waiting :
       /\ running' = [running EXCEPT ![w] = t]
       /\ waiting' = waiting \ {t}
  /\ UNCHANGED submitted

\* The run is over: it returned, raised, was killed or died with its worker.
End(w) ==
  /\ running[w] # 0
  /\ running' = [running EXCEPT ![w] = 0]
  /\ UNCHANGED <<submitted, waiting>>

Next == Submit \/ Withdraw \/ \E w \in Workers : Take(w) \/ End(w)

Spec == Init /\ [][Next]_promise
=============================================================================
