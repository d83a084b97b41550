------------------------------ MODULE JobQueue ------------------------------
(***************************************************************************)
(* Background jobs: the background_job table (ckan/lib/jobqueue), the      *)
(* callers that enqueue, cancel and clear jobs, and the worker processes   *)
(* (ckan/lib/jobs.py) that claim jobs and run each one in a forked child,  *)
(* the "work horse".                                                       *)
(*                                                                         *)
(* Every statement the backend sends is a transaction of its own, so one   *)
(* action is one statement.  The exception is dequeue: its UPDATE takes a  *)
(* row lock with FOR UPDATE SKIP LOCKED and keeps it until it commits, so  *)
(* it is two actions, Claim (lock) and CommitClaim.                        *)
(***************************************************************************)
EXTENDS Naturals, Sequences, SequencesExt

CONSTANTS
  JobIds,      \* primary keys of background_job; numbers, the last sort key
  CallerIds,   \* the ids callers choose themselves and may use again; the
               \* others are uuid4 values, used once
  Queues,      \* full queue names
  Workers,     \* worker processes; a restarted worker is another element
  Serves,      \* Serves[w]: the sequence of queues worker w listens on
  Mortal,      \* the workers that may be killed at any point
  MayStop,     \* the workers started with --burst or --max-idle-time
  Timeouts,    \* the timeouts callers ask for; 0 stands for "no timeout"
  Delays,      \* how far ahead callers schedule a job
  Grace,       \* TIMEOUT_GRACE
  StaleSlack,  \* the 60 seconds of fail_stale
  StaleInterval, \* STALE_CHECK_INTERVAL
  MaxPickup,   \* longest time between a dequeue and the fork of its horse
  MaxEnqueues, \* bound: enqueue calls in a behaviour
  Horizon,     \* bound: no job is enqueued later than this
  MaxTime      \* bound: the clock stops here

ASSUME BoundsAssumption ==
  /\ JobIds \subseteq Nat /\ JobIds # {} /\ CallerIds \subseteq JobIds
  /\ Queues # {}
  /\ Serves \in [Workers -> Seq(Queues)]
  /\ Timeouts \subseteq Nat /\ Delays \subseteq Nat
  /\ Grace \in Nat /\ StaleSlack \in Nat /\ StaleInterval \in Nat
  /\ MaxPickup \in Nat
  /\ MaxEnqueues \in Nat /\ Horizon \in Nat /\ MaxTime \in Nat

(* A worker forks soon after the dequeue: the pick-up time and the grace a *)
(* horse gets before the hard kill together fit in the slack of fail_stale *)
(* (10 of its 60 seconds are the grace).                                   *)
ASSUME SlackAssumption == MaxPickup + Grace <= StaleSlack

VARIABLES
  job,       \* job[i]: the row of background_job with id i
  now,       \* the clock, in ticks
  tickets,   \* how many enqueue calls have stored a row; each is a ticket
  used,      \* the ids that were ever stored
  claimed,   \* history: the tickets a worker ever claimed
  asking,    \* the id whose enqueue call has inserted but not fetched yet
  pc,        \* pc[w]: where worker w is in Worker.work
  run,       \* run[w]: the Job object in the memory of w and of its horse
  horse,     \* horse[w]: where the last horse of w is
  lastCheck  \* lastCheck[w]: last_stale_check of Worker.work

vars == <<job, now, tickets, used, claimed, asking, pc, run, horse, lastCheck>>

Row == [status : {"absent", "queued", "started", "failed"}, queue : Queues,
        timeout : Nat, sched : Nat, created : Nat, started : Nat,
        error : {"none", "traceback", "died", "timeout", "stale"},
        ticket : Nat]

\* No row with this id.
AbsentRow ==
  [status |-> "absent", queue |-> CHOOSE q \in Queues : TRUE,
   timeout |-> 0, sched |-> 0, created |-> 0, started |-> 0,
   error |-> "none", ticket |-> 0]

WorkerPc == {"off", "idle", "claiming", "launch", "wait", "fail", "empty",
             "dead"}

LiveHorse == {"run", "returned", "raised", "finished", "recorded"}

HorsePc == LiveHorse \cup {"none", "exit0", "exit1"}

Run == [id : JobIds, ticket : Nat, timeout : Nat, since : Nat,
        why : {"died", "timeout"}]

\* A worker without a job in hand: the Job object is forgotten.
NoRun == [id |-> CHOOSE i \in JobIds : TRUE, ticket |-> 0, timeout |-> 0,
          since |-> 0, why |-> "died"]

TypeOK ==
  /\ job \in [JobIds -> Row]
  /\ now \in Nat /\ tickets \in Nat
  /\ used \subseteq JobIds
  /\ claimed \subseteq Nat
  /\ asking \subseteq JobIds
  /\ pc \in [Workers -> WorkerPc]
  /\ run \in [Workers -> Run]
  /\ horse \in [Workers -> HorsePc]
  /\ lastCheck \in [Workers -> Nat]

-----------------------------------------------------------------------------
(* Reading the table *)

Has(i) == job[i].status # "absent"

IsQueued(i) == job[i].status = "queued"

\* A row locked by the uncommitted UPDATE of a dequeue.
Locked(i) == \E w \in Workers : pc[w] = "claiming" /\ run[w].id = i

IsDue(i) == IsQueued(i) /\ job[i].sched <= now

\* ORDER BY scheduled_at, created_at, id
Before(i, j) ==
  \/ job[i].sched < job[j].sched
  \/ job[i].sched = job[j].sched /\ job[i].created < job[j].created
  \/ /\ job[i].sched = job[j].sched /\ job[i].created = job[j].created
     /\ i < j

\* The due jobs of a queue in execution order.
ListJobs(q) ==
  CHOOSE s \in SetToSeqs({i \in JobIds : IsDue(i) /\ job[i].queue = q}) :
    \A m, n \in DOMAIN s : m < n => Before(s[m], s[n])

\* The position of the queue of row i in the list worker w listens on, as
\* the CASE of the ORDER BY computes it (the leftmost occurrence).
Rank(w, i) ==
  CHOOSE n \in DOMAIN Serves[w] :
    /\ Serves[w][n] = job[i].queue
    /\ \A m \in DOMAIN Serves[w] : Serves[w][m] = job[i].queue => n <= m

Served(w, i) == \E n \in DOMAIN Serves[w] : Serves[w][n] = job[i].queue

\* Mutant: FOR UPDATE without SKIP LOCKED would return locked rows too.
CandidatesWithLocked(w) == {i \in JobIds : IsDue(i) /\ Served(w, i)}

\* The rows the inner SELECT of dequeue may return: SKIP LOCKED leaves out
\* the ones another dequeue has locked.
Candidates(w) == {i \in JobIds : IsDue(i) /\ Served(w, i) /\ ~Locked(i)}

\* Mutant: the order of the queues is forgotten.
PreferredOldest(w, i, j) == Before(i, j)

\* ORDER BY CASE queue ... END, scheduled_at, created_at, id
Preferred(w, i, j) ==
  \/ Rank(w, i) < Rank(w, j)
  \/ Rank(w, i) = Rank(w, j) /\ Before(i, j)

-----------------------------------------------------------------------------
(* Callers *)

\* The row an enqueue stores.
NewRow(q, timeout, delay) ==
  [status |-> "queued", queue |-> q, timeout |-> timeout,
   sched |-> now + delay, created |-> now, started |-> 0,
   error |-> "none", ticket |-> tickets + 1]

\* INSERT ... ON CONFLICT (id) DO UPDATE: a row with that id, whatever its
\* status, is replaced.  It waits for a lock on that row.  Bound: one call is
\* between its two statements at a time.
Enqueue(i, q, timeout, delay) ==
  /\ tickets < MaxEnqueues /\ now <= Horizon /\ asking = {}
  /\ i \in CallerIds \/ i \notin used
  /\ ~Locked(i)
  /\ job' = [job EXCEPT ![i] = NewRow(q, timeout, delay)]
  /\ tickets' = tickets + 1
  /\ used' = used \cup {i}
  /\ asking' = asking \cup {i}
  /\ UNCHANGED <<now, claimed, pc, run, horse, lastCheck>>

\* The second statement of enqueue: fetch the row back, assert it is there.
EnqueueFetch(i) ==
  /\ i \in asking
  /\ asking' = asking \ {i}
  /\ UNCHANGED <<job, now, tickets, used, claimed, pc, run, horse, lastCheck>>

\* DELETE ... WHERE id: the status of the row plays no part.
DeleteRow(i) == job' = [job EXCEPT ![i] = AbsentRow]

\* job_cancel: fetch, then delete the row.
Cancel(i) ==
  /\ Has(i) /\ ~Locked(i)
  /\ DeleteRow(i)
  /\ UNCHANGED <<now, tickets, used, claimed, asking, pc, run, horse,
                 lastCheck>>

\* The rows job_clear deletes.
Clearable(q) == {i \in JobIds : IsQueued(i) /\ job[i].queue = q}

\* job_clear of one queue; the DELETE waits for rows that are being claimed.
Clear(q) ==
  /\ Clearable(q) # {}
  /\ \A i \in Clearable(q) : ~Locked(i)
  /\ job' = [i \in JobIds |->
               IF i \in Clearable(q) THEN AbsentRow ELSE job[i]]
  /\ UNCHANGED <<now, tickets, used, claimed, asking, pc, run, horse,
                 lastCheck>>

-----------------------------------------------------------------------------
(* The worker process: Worker.work and Worker.execute_job *)

GoTo(w, from, to) ==
  /\ pc[w] = from
  /\ pc' = [pc EXCEPT ![w] = to]

\* Nothing is left of the Job object and of the horse.
Forget(w) ==
  /\ run' = [run EXCEPT ![w] = NoRun]
  /\ horse' = [horse EXCEPT ![w] = "none"]

Start(w) ==
  /\ GoTo(w, "off", "idle")
  /\ lastCheck' = [lastCheck EXCEPT ![w] = now]
  /\ UNCHANGED <<job, now, tickets, used, claimed, asking, run, horse>>

\* dequeue, up to the row lock: the first job in the order of the SELECT.
Claim(w) ==
  /\ GoTo(w, "idle", "claiming")
  /\ \E i \in Candidates(w) :
       /\ \A j \in Candidates(w) \ {i} : Preferred(w, i, j)
       /\ run' = [run EXCEPT ![w] =
                    [id |-> i, ticket |-> job[i].ticket,
                     timeout |-> job[i].timeout, since |-> now,
                     why |-> "died"]]
  /\ UNCHANGED <<job, now, tickets, used, claimed, asking, horse, lastCheck>>

\* dequeue, from the lock to the commit.
CommitClaim(w) ==
  /\ GoTo(w, "claiming", "launch")
  /\ job' = [job EXCEPT ![run[w].id].status = "started",
                        ![run[w].id].started = run[w].since]
  /\ claimed' = claimed \cup {run[w].ticket}
  /\ UNCHANGED <<now, tickets, used, asking, run, horse, lastCheck>>

\* execute_job: dispose the connections, run the fork observers, fork.
Fork(w) ==
  /\ GoTo(w, "launch", "wait")
  /\ horse' = [horse EXCEPT ![w] = "run"]
  /\ run' = [run EXCEPT ![w].since = now]
  /\ UNCHANGED <<job, now, tickets, used, claimed, asking, lastCheck>>

\* The deadline of _wait_for_horse; without a timeout there is none.
PastDeadline(w) ==
  /\ run[w].timeout > 0
  /\ now >= run[w].since + run[w].timeout + Grace

\* The hard kill at the deadline.
Kill(w) ==
  /\ GoTo(w, "wait", "fail")
  /\ horse[w] \in LiveHorse
  /\ PastDeadline(w)
  /\ horse' = [horse EXCEPT ![w] = "none"]
  /\ run' = [run EXCEPT ![w].why = "timeout"]
  /\ UNCHANGED <<job, now, tickets, used, claimed, asking, lastCheck>>

\* Mutant: the failure is recorded whatever the row says.
UnresolvedAny(w) == horse[w] # "exit0" /\ Has(run[w].id)

\* fetch of the row after the horse has exited: the worker records a failure
\* when the horse did not exit cleanly and left the row unresolved.
Unresolved(w) ==
  /\ horse[w] # "exit0"
  /\ job[run[w].id].status \in {"queued", "started"}

\* Mutant: only a clean exit ends the wait.
ReapClean(w) ==
  /\ GoTo(w, "wait", "idle")
  /\ horse[w] = "exit0"
  /\ Forget(w)
  /\ UNCHANGED <<job, now, tickets, used, claimed, asking, lastCheck>>

Reap(w) ==
  /\ GoTo(w, "wait", IF Unresolved(w) THEN "fail" ELSE "idle")
  /\ horse[w] \in {"exit0", "exit1"}
  /\ horse' = [horse EXCEPT ![w] = "none"]
  /\ run' = IF Unresolved(w) THEN run ELSE [run EXCEPT ![w] = NoRun]
  /\ UNCHANGED <<job, now, tickets, used, claimed, asking, lastCheck>>

\* Mutants: a failed job is queued again; status and error are swapped.
MarkFailedRetry(i, why) ==
  job' = IF Has(i) THEN [job EXCEPT ![i].status = "queued"] ELSE job

MarkFailedSwapped(i, why) ==
  job' = IF Has(i)
           THEN [job EXCEPT ![i].status = why, ![i].error = "failed"]
           ELSE job

\* UPDATE ... SET status = failed WHERE id: no row, no effect; the status
\* the row has plays no part.
MarkFailed(i, why) ==
  job' = IF Has(i)
           THEN [job EXCEPT ![i].status = "failed", ![i].error = why]
           ELSE job

\* backend.fail by the worker, after a kill or a horse that died.
ParentFail(w) ==
  /\ GoTo(w, "fail", "idle")
  /\ ~Locked(run[w].id)
  /\ MarkFailed(run[w].id, run[w].why)
  /\ run' = [run EXCEPT ![w] = NoRun]
  /\ UNCHANGED <<now, tickets, used, claimed, asking, horse, lastCheck>>

\* dequeue returned None.
PollEmpty(w) ==
  /\ GoTo(w, "idle", "empty")
  /\ Candidates(w) = {}
  /\ UNCHANGED <<job, now, tickets, used, claimed, asking, run, horse,
                 lastCheck>>

StaleCheckDue(w) == now >= lastCheck[w] + StaleInterval

\* --burst or --max-idle-time end the worker before any stale check.
Stop(w) ==
  /\ w \in MayStop
  /\ GoTo(w, "empty", "off")
  /\ UNCHANGED <<job, now, tickets, used, claimed, asking, run, horse,
                 lastCheck>>

Sleep(w) ==
  /\ GoTo(w, "empty", "idle")
  /\ ~StaleCheckDue(w)
  /\ UNCHANGED <<job, now, tickets, used, claimed, asking, run, horse,
                 lastCheck>>

\* Mutant: the slack is lost.
IsStaleNoSlack(i) ==
  /\ job[i].status = "started"
  /\ job[i].timeout > 0
  /\ job[i].started + job[i].timeout < now

\* WHERE status = started AND timeout > 0 AND
\* started_at < now - make_interval(secs => timeout + 60)
IsStale(i) ==
  /\ job[i].status = "started"
  /\ job[i].timeout > 0
  /\ job[i].started + job[i].timeout + StaleSlack < now

FailStale(w) ==
  /\ GoTo(w, "empty", "idle")
  /\ StaleCheckDue(w)
  /\ lastCheck' = [lastCheck EXCEPT ![w] = now]
  /\ job' = [i \in JobIds |->
               IF IsStale(i)
                 THEN [job[i] EXCEPT !.status = "failed", !.error = "stale"]
                 ELSE job[i]]
  /\ UNCHANGED <<now, tickets, used, claimed, asking, run, horse>>

\* SIGKILL, power loss, or a database error that escapes Worker.work.  An
\* uncommitted claim is rolled back; a horse lives on without its parent.
WorkerDies(w) ==
  /\ w \in Mortal
  /\ pc[w] \notin {"off", "dead"}
  /\ pc' = [pc EXCEPT ![w] = "dead"]
  /\ IF horse[w] \in LiveHorse THEN UNCHANGED <<run, horse>> ELSE Forget(w)
  /\ UNCHANGED <<job, now, tickets, used, claimed, asking, lastCheck>>

-----------------------------------------------------------------------------
(* The work horse: Worker.perform_job in the forked child *)

HorseGoes(w, from, to) ==
  /\ horse[w] = from
  /\ horse' = [horse EXCEPT ![w] = to]

\* job.perform() returns.
Return(w) ==
  /\ HorseGoes(w, "run", "returned")
  /\ UNCHANGED <<job, now, tickets, used, claimed, asking, pc, run, lastCheck>>

\* job.perform() raises: its own exception or, at the soft timeout, the
\* JobTimeoutException of the alarm.
Raise(w) ==
  /\ HorseGoes(w, "run", "raised")
  /\ UNCHANGED <<job, now, tickets, used, claimed, asking, pc, run, lastCheck>>

\* backend.finish(job.id)
Finish(w) ==
  /\ HorseGoes(w, "returned", "finished")
  /\ ~Locked(run[w].id)
  /\ DeleteRow(run[w].id)
  /\ UNCHANGED <<now, tickets, used, claimed, asking, pc, run, lastCheck>>

\* backend.fail(job.id, traceback)
HorseFail(w) ==
  /\ HorseGoes(w, "raised", "recorded")
  /\ ~Locked(run[w].id)
  /\ MarkFailed(run[w].id, "traceback")
  /\ UNCHANGED <<now, tickets, used, claimed, asking, pc, run, lastCheck>>

\* The exit of a horse; without its worker nobody waits for the status.
Exit(w, status) ==
  IF pc[w] = "dead"
    THEN Forget(w)
    ELSE horse' = [horse EXCEPT ![w] = status] /\ UNCHANGED run

HorseExit(w) ==
  /\ \/ horse[w] = "finished" /\ Exit(w, "exit0")
     \/ horse[w] = "recorded" /\ Exit(w, "exit1")
  /\ UNCHANGED <<job, now, tickets, used, claimed, asking, pc, lastCheck>>

\* The horse is killed, crashes, cannot reach the database, or its alarm
\* goes off outside job.perform(): a non-zero status.
HorseDies(w) ==
  /\ horse[w] \in LiveHorse
  /\ Exit(w, "exit1")
  /\ UNCHANGED <<job, now, tickets, used, claimed, asking, pc, lastCheck>>

-----------------------------------------------------------------------------
(* Time.  A worker reaches its fork within MaxPickup of its dequeue, and   *)
(* polls its horse (every 0.05 s) at least once a tick, so that time does  *)
(* not pass a deadline while the horse lives.                              *)

Tick ==
  /\ now < MaxTime
  /\ \A w \in Workers :
       /\ pc[w] \in {"claiming", "launch"} => now < run[w].since + MaxPickup
       /\ pc[w] = "wait" /\ horse[w] \in LiveHorse => ~PastDeadline(w)
  /\ now' = now + 1
  /\ UNCHANGED <<job, tickets, used, claimed, asking, pc, run, horse,
                 lastCheck>>

-----------------------------------------------------------------------------

Init ==
  /\ job = [i \in JobIds |-> AbsentRow]
  /\ now = 0 /\ tickets = 0
  /\ used = {} /\ claimed = {} /\ asking = {}
  /\ pc = [w \in Workers |-> "off"]
  /\ run = [w \in Workers |-> NoRun]
  /\ horse = [w \in Workers |-> "none"]
  /\ lastCheck = [w \in Workers |-> 0]

CallerNext ==
  \/ \E i \in JobIds, q \in Queues, t \in Timeouts, d \in Delays :
       Enqueue(i, q, t, d)
  \/ \E i \in JobIds : EnqueueFetch(i) \/ Cancel(i)
  \/ \E q \in Queues : Clear(q)

WorkerStep(w) ==
  \/ Claim(w) \/ CommitClaim(w) \/ Fork(w) \/ Kill(w) \/ Reap(w)
  \/ ParentFail(w) \/ PollEmpty(w) \/ Sleep(w) \/ FailStale(w)

HorseStep(w) == Finish(w) \/ HorseFail(w) \/ HorseExit(w)

Next ==
  \/ CallerNext
  \/ \E w \in Workers :
       \/ Start(w) \/ WorkerStep(w) \/ Stop(w) \/ WorkerDies(w)
       \/ Return(w) \/ Raise(w) \/ HorseStep(w) \/ HorseDies(w)
  \/ Tick

Spec == Init /\ [][Next]_vars

(* Against the clock of the timeouts the steps of workers and horses take  *)
(* no time, and a tick is longer than POLL_INTERVAL: it passes only while  *)
(* every worker sleeps, watches its horse or is gone, every horse is in    *)
(* its job function, and no sleeping worker has a job it could claim.      *)
Prompt ==
  \A w \in Workers :
    /\ pc[w] \in {"idle", "empty", "wait", "dead"}
    /\ horse[w] \in {"none", "run"}
    /\ pc[w] \in {"idle", "empty"} => Candidates(w) = {}

(* Fairness.  Workers and horses are operating system processes and keep   *)
(* running unless they are killed (supervisord starts them again), and the *)
(* clock advances.  Nothing is assumed of the callers, of deaths, or of    *)
(* job functions, which may never end.                                     *)
Fairness ==
  /\ WF_vars(Tick /\ Prompt)
  /\ \A w \in Workers :
       WF_vars(Start(w) \/ WorkerStep(w)) /\ WF_vars(HorseStep(w))

PromptSpec == Init /\ [][Next /\ (Tick => Prompt)]_vars /\ Fairness

-----------------------------------------------------------------------------
(* Properties *)

\* A worker that has a job in hand: claiming it, or its horse may still run
\* it (a horse outlives a worker that dies), or its failure is about to be
\* recorded.
Busy(w) ==
  \/ pc[w] \in {"claiming", "launch", "wait", "fail"}
  \/ horse[w] \in LiveHorse

(* No job is run twice: two workers never have the same enqueued job in    *)
(* hand, and a job that was claimed once is never offered to a worker      *)
(* again, whatever happened to the worker.  About SKIP LOCKED in dequeue   *)
(* and about failed jobs not being retried.                                *)
RunAtMostOnce ==
  /\ \A w, v \in Workers :
       Busy(w) /\ Busy(v) /\ w # v => run[w].ticket # run[v].ticket
  /\ \A i \in JobIds : IsQueued(i) => job[i].ticket \notin claimed

(* The comment of fail_stale: a started job it marks as failed belongs to  *)
(* a worker that is gone.  A worker that is launching, watching or about   *)
(* to fail a live horse never has its job declared stale.                  *)
StaleMeansWorkerGone ==
  \A i \in JobIds, w \in Workers :
    IsStale(i) /\ run[w].ticket = job[i].ticket =>
      /\ pc[w] # "launch"
      /\ pc[w] = "wait" => horse[w] \notin LiveHorse

\* A worker past its dequeue, or the horse it left behind.
Holds(w) == pc[w] \in {"launch", "wait", "fail"} \/ horse[w] \in LiveHorse

(* The queue as those who enqueue see it: the tickets of the queued rows   *)
(* wait, and the ticket of the Job object in the hands of a worker or of   *)
(* its horse runs.                                                         *)
Promise == INSTANCE JobPromise WITH
  submitted <- tickets,
  waiting <- {job[i].ticket : i \in {j \in JobIds : IsQueued(j)}},
  running <- [w \in Workers |-> IF Holds(w) THEN run[w].ticket ELSE 0]

(* While no id is used twice, the queue keeps the promise of module        *)
(* JobPromise: an enqueue call waits until it is handed to one worker or   *)
(* withdrawn, and never comes back.                                        *)
KeepsPromise == Promise!Spec

(* An outcome (finish, fail) is recorded on the row of the very job that   *)
(* produced it, never on another job stored under the same id.             *)
OutcomeIsOwn ==
  [][\A w \in Workers :
       (\/ horse[w] = "returned" /\ horse'[w] = "finished"
        \/ horse[w] = "raised" /\ horse'[w] = "recorded"
        \/ pc[w] = "fail" /\ pc'[w] = "idle")
       => (Has(run[w].id) => job[run[w].id].ticket = run[w].ticket)]_vars

(* A started job stays in the table until its own function has returned or *)
(* a caller cancels it: clearing queues, stale checks and deaths of other  *)
(* workers leave the row, so that a failure is there to be inspected.  And *)
(* the traceback recorded by a horse is not overwritten by the generic     *)
(* errors of the worker and of fail_stale, except by the hard kill of a    *)
(* horse that outlived its deadline after it had recorded the traceback.   *)
OutcomeIsKept ==
  [][\A i \in JobIds :
       /\ job[i].status = "started" /\ job'[i].status \notin {"started", "failed"}
          => \/ Cancel(i)
             \/ \E w \in Workers : /\ horse[w] = "returned"
                                  /\ run[w].ticket = job[i].ticket
       /\ job[i].error = "traceback" /\ job'[i].ticket = job[i].ticket
          => \/ job'[i].error = "traceback"
             \/ \E w \in Workers : /\ pc[w] = "fail" /\ run[w].id = i
                                  /\ run[w].why = "timeout"]_vars

\* w claims the first job, of those not just being claimed by others, in the
\* lists of its queues, which it goes through from the left.
ClaimsAsListed(w) ==
  LET i == run'[w].id
      q == job[i].queue
      listed == ListJobs(q)
  IN \E n \in DOMAIN listed :
       /\ listed[n] = i
       /\ \A m \in 1 .. n - 1 : Locked(listed[m])
       /\ \E k \in DOMAIN Serves[w] :
            /\ Serves[w][k] = q
            /\ \A l \in 1 .. k - 1 :
                 \A m \in DOMAIN ListJobs(Serves[w][l]) :
                   Locked(ListJobs(Serves[w][l])[m])

(* list_jobs promises "execution order": a worker claims a job only when   *)
(* every job listed before it in its queue is just being claimed by        *)
(* another worker, and no queue further left offers an unlocked due job.   *)
ClaimsFollowListing ==
  [][\A w \in Workers :
       pc[w] = "idle" /\ pc'[w] = "claiming" => ClaimsAsListed(w)]_vars

(* Every waiting job is eventually claimed or withdrawn, when an immortal  *)
(* worker listens on each queue and every job has a timeout: its function  *)
(* may never end, and other workers may die or stop with jobs in hand.     *)
EveryJobPickedUp ==
  \A i \in JobIds, t \in 1 .. MaxEnqueues :
    (IsQueued(i) /\ job[i].ticket = t)
      ~> ~(IsQueued(i) /\ job[i].ticket = t)

\* The clock of the behaviour still covers the slowest resolution of job i:
\* a stale check, by a worker that has another job to get rid of first.
TimeLeft(i) ==
  job[i].started + 2 * (job[i].timeout + Grace) + StaleSlack + StaleInterval
    < MaxTime

(* A started job with a timeout does not stay started: its horse, its      *)
(* worker or, after the death of both, a stale check of another worker     *)
(* resolves it, even when its function never ends.                         *)
TimedJobResolved ==
  \A i \in JobIds :
    (job[i].status = "started" /\ job[i].timeout > 0 /\ TimeLeft(i))
      ~> job[i].status # "started"

(* Every job comes to an end: it is picked up, and what is started with a  *)
(* timeout is resolved.                                                    *)
JobsGetDone == EveryJobPickedUp /\ TimedJobResolved

(* enqueue returns the job it stored: the row is still there when the call *)
(* fetches it back.                                                        *)
EnqueueFindsItsJob ==
  [][\A i \in JobIds : i \in asking /\ i \notin asking' => Has(i)]_vars
=============================================================================
